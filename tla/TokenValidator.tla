---------------------------- MODULE TokenValidator ----------------------------
(***************************************************************************)
(* Access tokens and the users they prove (controller/auth/oauth.go):       *)
(* ValidateAccessToken, the cache of user information and the routine that  *)
(* clears it every five minutes.  The calls of LoginPeer and of the         *)
(* administration API validate concurrently; one step is one access to the  *)
(* cache or one answer of the identity provider, which is external.         *)
(*                                                                         *)
(* A user is an email address, and an address can change at the provider:   *)
(* <<s, v>> is the address of the subject s after v changes.  NoEmail is    *)
(* the empty string, which is what decoding any JSON object without an      *)
(* email gives, an error of the provider included.                          *)
(***************************************************************************)
EXTENDS Naturals

CONSTANTS
    Subjects,    \* subjects of tokens
    Callers,     \* calls that validate a token, each again and again
    Now,         \* the hours since the zero time, when the controller runs
    MaxChanges,  \* bound: changes of the address of a subject
    MaxFaults    \* bound: requests the provider does not answer as it should

ASSUME ValidatorAssumption ==
    /\ Now \in Nat \ {0}
    /\ MaxChanges \in Nat /\ MaxFaults \in Nat

VARIABLES
    idp,     \* idp[s]: how often the address of s has changed
    faults,  \* requests that failed
    cache,   \* userCache: the information of some subjects
    call,    \* call[c]: progress of the call, and what the last one returned
    sweep,   \* the walk of userInfoCacheRoutine through the cache
    mark     \* history: the addresses when this walk and the two before it began

vars == <<idp, faults, cache, call, sweep, mark>>

NoEmail == <<>>
Address(s) == <<s, idp[s]>>

\* An access token: its subject, whether jwt.Parse finds it signed by a key of
\* the provider and in date, and whether it names the audience of the controller.
Token == [sub : Subjects, valid : BOOLEAN, audience : BOOLEAN]
Emails == {NoEmail} \cup (Subjects \X (0..MaxChanges))
UserInfo == [email : Emails, updatedAt : Nat]

Idle   == [pc : {"idle"}, returned : {"nothing", "error"}]
Answer == [pc : {"idle"}, returned : {"user"}, sub : Subjects, user : Emails, oldest : 0..MaxChanges]
Busy   == [pc : {"fetch"}, sub : Subjects, old : BOOLEAN]
Fetched == [pc : {"store"}, sub : Subjects, old : BOOLEAN, info : UserInfo]

TypeOK ==
    /\ idp \in [Subjects -> 0..MaxChanges] /\ faults \in 0..MaxFaults
    /\ DOMAIN cache \subseteq Subjects /\ \A s \in DOMAIN cache : cache[s] \in UserInfo
    /\ call \in [Callers -> Idle \cup Answer \cup Busy \cup Fetched]
    /\ sweep \in [on : BOOLEAN, left : SUBSET DOMAIN cache, seen : SUBSET Subjects]
    /\ mark \in [Subjects -> [begun : 0..MaxChanges, last : 0..MaxChanges, before : 0..MaxChanges]]

Init ==
    /\ idp = [s \in Subjects |-> 0] /\ faults = 0
    /\ cache = [s \in {} |-> 0]
    /\ call = [c \in Callers |-> [pc |-> "idle", returned |-> "nothing"]]
    /\ sweep = [on |-> FALSE, left |-> {}, seen |-> {}]
    /\ mark = [s \in Subjects |-> [begun |-> 0, last |-> 0, before |-> 0]]

Step(c, next) == call' = [call EXCEPT ![c] = next]

ReturnError(c) == Step(c, [pc |-> "idle", returned |-> "error"])

\* The answer keeps the oldest address it could have, for the properties.
ReturnUser(c, s, u) ==
    Step(c, [pc |-> "idle", returned |-> "user", sub |-> s, user |-> u, oldest |-> mark[s].before])

-----------------------------------------------------------------------------
(* ValidateAccessToken and GetUser.                                         *)

validateAudience(t) == t.audience

Accepted(t) == t.valid /\ validateAudience(t)

Rejected(c, t) ==
    /\ call[c].pc = "idle"
    /\ ~Accepted(t)
    /\ ReturnError(c)
    /\ UNCHANGED <<idp, faults, cache, sweep, mark>>

\* The information was fetched before, with this or with another token.
GetUserCached(c, t) ==
    /\ call[c].pc = "idle"
    /\ Accepted(t) /\ t.sub \in DOMAIN cache
    /\ ReturnUser(c, t.sub, cache[t.sub].email)
    /\ UNCHANGED <<idp, faults, cache, sweep, mark>>

GetUserMissing(c, t) ==
    /\ call[c].pc = "idle"
    /\ Accepted(t) /\ t.sub \notin DOMAIN cache
    /\ Step(c, [pc |-> "fetch", sub |-> t.sub, old |-> FALSE])
    /\ UNCHANGED <<idp, faults, cache, sweep, mark>>

\* UpdatedAt is not part of the answer and is set nowhere.
Decoded(email) == [email |-> email, updatedAt |-> 0]

\* The provider answers the request for user information made with the token.
GetUserInfo(c, email) ==
    /\ call[c].pc = "fetch"
    /\ Step(c, [pc |-> "store", sub |-> call[c].sub, old |-> call[c].old, info |-> Decoded(email)])
    /\ UNCHANGED <<idp, cache, sweep, mark>>

GetUserInfoAnswered(c) ==
    /\ GetUserInfo(c, Address(call[c].sub))
    /\ UNCHANGED faults

\* An error of the provider is an object without an email; its status is not read.
GetUserInfoRefused(c) ==
    /\ faults < MaxFaults
    /\ GetUserInfo(c, NoEmail)
    /\ faults' = faults + 1

\* No answer within five seconds, or one that is no JSON.
GetUserInfoFails(c) ==
    /\ call[c].pc = "fetch" /\ faults < MaxFaults
    /\ faults' = faults + 1
    /\ ReturnError(c)
    /\ UNCHANGED <<idp, cache, sweep, mark>>

\* Mutant: the information is stored under the first key of the cache.
StoreUserShared(c) ==
    LET s == CHOOSE x \in Subjects : TRUE IN
    /\ call[c].pc = "store"
    /\ cache' = [x \in DOMAIN cache \cup {s} |-> IF x = s THEN call[c].info ELSE cache[x]]
    /\ ReturnUser(c, call[c].sub, call[c].info.email)
    /\ UNCHANGED <<idp, faults, sweep, mark>>

StoreUser(c) ==
    LET s == call[c].sub IN
    /\ call[c].pc = "store"
    /\ cache' = [x \in DOMAIN cache \cup {s} |-> IF x = s THEN call[c].info ELSE cache[x]]
    /\ ReturnUser(c, s, call[c].info.email)
    /\ UNCHANGED <<idp, faults, sweep, mark>>

-----------------------------------------------------------------------------
(* userInfoCacheRoutine.                                                    *)

\* Mutant: the comparison is the wrong way round.
NeedsRefreshNot(info) == Now - info.updatedAt < 1

NeedsRefresh(info) == Now - info.updatedAt >= 1

InFlight == {c \in Callers : call[c].pc \in {"fetch", "store"}}

\* The timer fires.  A request ends within five seconds, so that none outlasts the
\* five minutes to the next walk: old marks the calls that met a walk.
TimerFires ==
    /\ ~sweep.on
    /\ \A c \in InFlight : ~call[c].old
    /\ sweep' = [on |-> TRUE, left |-> DOMAIN cache, seen |-> {}]
    /\ call' = [c \in Callers |-> IF c \in InFlight THEN [call[c] EXCEPT !.old = TRUE] ELSE call[c]]
    /\ mark' = [s \in Subjects |-> [mark[s] EXCEPT !.begun = idp[s]]]
    /\ UNCHANGED <<idp, faults, cache>>

\* Mutant: the callback returns false after a deletion, which ends the walk.
RangeStops(k) ==
    /\ sweep.on /\ k \in DOMAIN cache \ sweep.seen
    /\ sweep' = [sweep EXCEPT !.left = {}, !.seen = Subjects]
    /\ cache' = [x \in DOMAIN cache \ {k} |-> cache[x]]
    /\ UNCHANGED <<idp, faults, call, mark>>

\* Range visits every key there was when it began, once, and any of those stored
\* since.  Delete removes what the key has now.
Range(k) ==
    /\ sweep.on /\ k \in DOMAIN cache \ sweep.seen
    /\ sweep' = [sweep EXCEPT !.left = @ \ {k}, !.seen = @ \cup {k}]
    /\ cache' = [x \in {y \in DOMAIN cache : y = k => ~NeedsRefresh(cache[y])} |-> cache[x]]
    /\ UNCHANGED <<idp, faults, call, mark>>

\* The walk ends and the timer is set again.
TimerReset ==
    /\ sweep.on /\ sweep.left = {}
    /\ sweep' = [on |-> FALSE, left |-> {}, seen |-> {}]
    /\ mark' = [s \in Subjects |-> [mark[s] EXCEPT !.last = mark[s].begun, !.before = mark[s].last]]
    /\ UNCHANGED <<idp, faults, cache, call>>

-----------------------------------------------------------------------------

\* The user changes the address at the provider.
AddressChanges(s) ==
    /\ idp[s] < MaxChanges
    /\ idp' = [idp EXCEPT ![s] = @ + 1]
    /\ UNCHANGED <<faults, cache, call, sweep, mark>>

Answered(c) == GetUserInfoAnswered(c) \/ GetUserInfoRefused(c) \/ GetUserInfoFails(c)

Next ==
    \/ \E c \in Callers :
        \/ \E t \in Token : Rejected(c, t) \/ GetUserCached(c, t) \/ GetUserMissing(c, t)
        \/ Answered(c)
        \/ StoreUser(c)
    \/ TimerFires \/ TimerReset
    \/ \E s \in Subjects : Range(s) \/ AddressChanges(s)

Spec == Init /\ [][Next]_vars

\* A request is answered or times out, and the routine of the cache keeps running.
FairSpec ==
    /\ Spec
    /\ \A c \in Callers : WF_vars(Answered(c)) /\ WF_vars(StoreUser(c))
    /\ WF_vars(TimerFires) /\ WF_vars(TimerReset)
    /\ \A s \in Subjects : WF_vars(Range(s))

-----------------------------------------------------------------------------
(* Properties.                                                              *)

\* The user ValidateAccessToken returns is one of the token's own subject, or the
\* empty one the provider's error left, and one the subject still had when the walk
\* before the last began: a request answered before a walk may store its answer
\* after the walk has passed its key, and only the next walk removes it.
AnswerFresh ==
    \A c \in Callers : call[c].pc = "idle" /\ call[c].returned = "user" =>
        \/ call[c].user = NoEmail
        \/ /\ call[c].user[1] = call[c].sub
           /\ call[c].user[2] \in call[c].oldest .. idp[call[c].sub]

\* The same with the types of all variables.
UsersSound == TypeOK /\ AnswerFresh

\* Once the addresses stay as they are and the provider answers, the cache holds
\* the address of every subject it holds, although calls store what they fetched
\* before: neither an old address nor the empty one remains.
CacheSettles ==
    <>[](\A s \in DOMAIN cache : cache[s].email = Address(s))
=============================================================================
