------------------------- MODULE TokenValidatorProofs -------------------------
(***************************************************************************)
(* Theorems about TokenValidator, for any subjects and callers and for any  *)
(* time at which the controller runs.                                       *)
(***************************************************************************)
EXTENDS TokenValidator, Integers, TLAPS

\* e is empty, or an address that s had after low changes or later.
FreshFrom(e, s, low) == e = NoEmail \/ (e[1] = s /\ e[2] \in low .. idp[s])

\* Walks begin one after the other, and between two walks the last one is the one
\* that has ended.
MarksOrdered ==
    \A s \in Subjects :
        /\ mark[s].before <= mark[s].last /\ mark[s].last <= mark[s].begun
        /\ mark[s].begun <= idp[s]
        /\ ~sweep.on => mark[s].begun = mark[s].last

\* What the cache holds is as fresh as the walk before the last, or as the last when
\* the walk under way has passed it or met it stored since.
CacheLow(s) == IF sweep.on /\ s \notin sweep.left THEN mark[s].last ELSE mark[s].before
CacheFresh ==
    \A s \in DOMAIN cache : cache[s].updatedAt = 0 /\ FreshFrom(cache[s].email, s, CacheLow(s))

\* What a call has fetched and not stored is from after the last walk began, or, when
\* the call has met a walk, from after the walk before that one.
CallLow(c) ==
    LET s == call[c].sub IN
    IF ~call[c].old THEN mark[s].begun ELSE IF sweep.on THEN mark[s].last ELSE mark[s].before
CallsFresh ==
    \A c \in Callers : call[c].pc = "store" =>
        call[c].info.updatedAt = 0 /\ FreshFrom(call[c].info.email, call[c].sub, CallLow(c))

\* An inductive invariant for UsersSound.
TokenInv == TypeOK /\ MarksOrdered /\ CacheFresh /\ CallsFresh /\ AnswerFresh

-----------------------------------------------------------------------------
(* Freshness and types.                                                     *)

\* The address a subject has now is fresh from any bound before.
LEMMA FreshNow ==
    ASSUME TypeOK, NEW s \in Subjects, NEW low \in Nat, low <= idp[s]
    PROVE  FreshFrom(Address(s), s, low) /\ FreshFrom(NoEmail, s, low)
<1>1. idp[s] \in Nat
  BY ValidatorAssumption DEF TypeOK
<1> QED
  BY <1>1 DEF FreshFrom, Address

\* The bounds are numbers, and the ones of the cache and of the calls are not earlier
\* than the one that answers are measured by.
LEMMA Bounds ==
    ASSUME TypeOK, MarksOrdered
    PROVE  \A s \in Subjects :
             /\ idp[s] \in Nat
             /\ mark[s].before \in Nat /\ mark[s].last \in Nat /\ mark[s].begun \in Nat
             /\ mark[s].before <= mark[s].last /\ mark[s].last <= mark[s].begun
             /\ mark[s].before <= mark[s].begun /\ mark[s].begun <= idp[s]
             /\ mark[s].last <= idp[s] /\ mark[s].before <= idp[s]
<1> SUFFICES ASSUME NEW s \in Subjects
             PROVE  /\ idp[s] \in Nat
                    /\ mark[s].before \in Nat /\ mark[s].last \in Nat /\ mark[s].begun \in Nat
                    /\ mark[s].before <= mark[s].last /\ mark[s].last <= mark[s].begun
                    /\ mark[s].before <= mark[s].begun /\ mark[s].begun <= idp[s]
                    /\ mark[s].last <= idp[s] /\ mark[s].before <= idp[s]
  OBVIOUS
<1>1. idp[s] \in 0..MaxChanges /\ mark[s] \in [begun : 0..MaxChanges, last : 0..MaxChanges, before : 0..MaxChanges]
  BY DEF TypeOK
<1>2. idp[s] \in Nat /\ mark[s].before \in Nat /\ mark[s].last \in Nat /\ mark[s].begun \in Nat
  BY <1>1, ValidatorAssumption
<1> QED
  BY <1>2 DEF MarksOrdered

\* The states of a call.
CallState == Idle \cup Answer \cup Busy \cup Fetched

\* A step of one call leaves the others alone.
LEMMA StepOne ==
    ASSUME TypeOK, NEW c \in Callers, NEW next, Step(c, next)
    PROVE  /\ call'[c] = next /\ \A d \in Callers : d # c => call'[d] = call[d]
           /\ next \in CallState => call' \in [Callers -> CallState]
  BY DEF Step, TypeOK, CallState

\* What the next state of a call has to satisfy.
NextFresh(r) ==
    /\ r.pc = "store" =>
         /\ r.info.updatedAt = 0
         /\ FreshFrom(r.info.email, r.sub, IF ~r.old THEN mark[r.sub].begun
                                           ELSE IF sweep.on THEN mark[r.sub].last ELSE mark[r.sub].before)
    /\ r.pc = "idle" /\ r.returned = "user" => FreshFrom(r.user, r.sub, r.oldest)

\* A step of one call that leaves the provider, the cache and the walk alone.
LEMMA CallStep ==
    ASSUME TokenInv, NEW c \in Callers, NEW next \in CallState, NextFresh(next), Step(c, next),
           UNCHANGED <<idp, cache, sweep, mark>>, faults' \in 0..MaxFaults
    PROVE  TokenInv'
<1> USE DEF TokenInv
<1>1. call'[c] = next /\ (\A d \in Callers : d # c => call'[d] = call[d]) /\ call' \in [Callers -> CallState]
  BY StepOne
<1>2. TypeOK'
  BY <1>1 DEF TypeOK, CallState
<1>3. MarksOrdered' /\ CacheFresh'
  BY DEF MarksOrdered, CacheFresh, CacheLow, FreshFrom
<1>4. CallsFresh'
  BY <1>1 DEF CallsFresh, CallLow, FreshFrom, NextFresh
<1>5. AnswerFresh'
  BY <1>1 DEF AnswerFresh, FreshFrom, NextFresh
<1> QED
  BY <1>2, <1>3, <1>4, <1>5

\* What the cache holds of a subject may be returned.
LEMMA CachedFresh ==
    ASSUME TokenInv, NEW s \in DOMAIN cache
    PROVE  s \in Subjects /\ cache[s] \in UserInfo /\ FreshFrom(cache[s].email, s, mark[s].before)
<1>1. s \in Subjects /\ cache[s] \in UserInfo /\ FreshFrom(cache[s].email, s, CacheLow(s))
  BY DEF TokenInv, TypeOK, CacheFresh
<1>2. idp[s] \in Nat /\ mark[s].before \in Nat /\ mark[s].last \in Nat /\ mark[s].before <= mark[s].last
  BY <1>1, Bounds DEF TokenInv
<1>3. CacheLow(s) \in Nat /\ mark[s].before <= CacheLow(s)
  BY <1>2 DEF CacheLow
<1> QED
  BY <1>1, <1>2, <1>3 DEF FreshFrom

\* What a call has fetched may be stored and returned.
LEMMA FetchedFresh ==
    ASSUME TokenInv, NEW c \in Callers, call[c].pc = "store"
    PROVE  LET s == call[c].sub IN
           /\ call[c] \in Fetched /\ s \in Subjects /\ call[c].info \in UserInfo
           /\ call[c].info.updatedAt = 0
           /\ FreshFrom(call[c].info.email, s, mark[s].before)
           /\ sweep.on => FreshFrom(call[c].info.email, s, mark[s].last)
<1> DEFINE s == call[c].sub
<1>1. call[c] \in Fetched
  BY DEF TokenInv, TypeOK, Idle, Answer, Busy, Fetched
<1>2. s \in Subjects /\ call[c].info \in UserInfo /\ call[c].old \in BOOLEAN
  BY <1>1 DEF Fetched
<1>3. call[c].info.updatedAt = 0 /\ FreshFrom(call[c].info.email, s, CallLow(c))
  BY DEF TokenInv, CallsFresh
<1>4. /\ idp[s] \in Nat /\ mark[s].before \in Nat /\ mark[s].last \in Nat /\ mark[s].begun \in Nat
      /\ mark[s].before <= mark[s].last /\ mark[s].last <= mark[s].begun
      /\ mark[s].before <= mark[s].begun
  BY <1>2, Bounds DEF TokenInv
<1>5. CallLow(c) \in Nat /\ mark[s].before <= CallLow(c) /\ (sweep.on => mark[s].last <= CallLow(c))
  BY <1>4 DEF CallLow
<1>6. FreshFrom(call[c].info.email, s, mark[s].before)
  BY <1>3, <1>4, <1>5 DEF FreshFrom
<1>7. sweep.on => FreshFrom(call[c].info.email, s, mark[s].last)
  BY <1>3, <1>4, <1>5 DEF FreshFrom
<1> QED
  BY <1>1, <1>2, <1>3, <1>6, <1>7

-----------------------------------------------------------------------------
(* The steps.                                                               *)

\* An answer of a fresh user.
LEMMA ReturnsFresh ==
    ASSUME TokenInv, NEW c \in Callers, NEW s \in Subjects, NEW u \in Emails,
           FreshFrom(u, s, mark[s].before), ReturnUser(c, s, u),
           UNCHANGED <<idp, faults, cache, sweep, mark>>
    PROVE  TokenInv'
<1> DEFINE next == [pc |-> "idle", returned |-> "user", sub |-> s, user |-> u, oldest |-> mark[s].before]
<1>1. mark[s].before \in 0..MaxChanges /\ faults' \in 0..MaxFaults
  BY DEF TokenInv, TypeOK
<1>2. next \in CallState
  BY <1>1 DEF CallState, Answer
<1>3. NextFresh(next)
  BY DEF NextFresh
<1>4. Step(c, next)
  BY DEF ReturnUser
<1> HIDE DEF next
<1> QED
  BY <1>1, <1>2, <1>3, <1>4, CallStep

\* An answer without a user.
LEMMA ReturnsError ==
    ASSUME TokenInv, NEW c \in Callers, ReturnError(c),
           UNCHANGED <<idp, cache, sweep, mark>>, faults' \in 0..MaxFaults
    PROVE  TokenInv'
<1> DEFINE next == [pc |-> "idle", returned |-> "error"]
<1>1. next \in CallState /\ NextFresh(next)
  BY DEF CallState, Idle, NextFresh
<1>2. Step(c, next)
  BY DEF ReturnError
<1> HIDE DEF next
<1> QED
  BY <1>1, <1>2, CallStep

\* The provider's answer, with an address or without.
LEMMA InfoFresh ==
    ASSUME TokenInv, NEW c \in Callers, NEW email, GetUserInfo(c, email),
           email \in {NoEmail, Address(call[c].sub)}, faults' \in 0..MaxFaults
    PROVE  TokenInv'
<1> DEFINE s == call[c].sub
           next == [pc |-> "store", sub |-> s, old |-> call[c].old, info |-> Decoded(email)]
<1>1. call[c] \in Busy
  BY DEF GetUserInfo, TokenInv, TypeOK, Idle, Answer, Busy, Fetched
<1>2. s \in Subjects /\ call[c].old \in BOOLEAN
  BY <1>1 DEF Busy
<1>3. Decoded(email).email = email /\ Decoded(email).updatedAt = 0 /\ Decoded(email) \in UserInfo
  <2>1. email \in Emails
    BY <1>2 DEF Emails, Address, TokenInv, TypeOK
  <2> QED
    BY <2>1 DEF Decoded, UserInfo
<1>4. next \in CallState
  BY <1>2, <1>3 DEF CallState, Fetched
<1>5. NextFresh(next)
  <2> DEFINE low == IF ~call[c].old THEN mark[s].begun ELSE IF sweep.on THEN mark[s].last ELSE mark[s].before
  <2>1. low \in Nat /\ low <= idp[s]
    BY <1>2, Bounds DEF TokenInv
  <2>2. FreshFrom(email, s, low)
    BY <1>2, <2>1, FreshNow DEF TokenInv
  <2> QED
    BY <1>3, <2>2 DEF NextFresh
<1>6. Step(c, next) /\ UNCHANGED <<idp, cache, sweep, mark>>
  BY DEF GetUserInfo
<1> HIDE DEF next
<1> QED
  BY <1>4, <1>5, <1>6, CallStep

\* The handlers, but for the last access to the cache.
LEMMA HandlersFresh ==
    ASSUME TokenInv, NEW c \in Callers
    PROVE  /\ \A t \in Token : Rejected(c, t) \/ GetUserCached(c, t) \/ GetUserMissing(c, t) => TokenInv'
           /\ Answered(c) => TokenInv'
<1> USE ValidatorAssumption
<1>0. faults \in 0..MaxFaults
  BY DEF TokenInv, TypeOK
<1>1. ASSUME NEW t \in Token, Rejected(c, t) PROVE TokenInv'
  BY <1>0, <1>1, ReturnsError DEF Rejected
<1>2. ASSUME NEW t \in Token, GetUserCached(c, t) PROVE TokenInv'
  <2>1. t.sub \in DOMAIN cache /\ ReturnUser(c, t.sub, cache[t.sub].email)
        /\ UNCHANGED <<idp, faults, cache, sweep, mark>>
    BY <1>2 DEF GetUserCached
  <2>2. /\ t.sub \in Subjects /\ cache[t.sub].email \in Emails
        /\ FreshFrom(cache[t.sub].email, t.sub, mark[t.sub].before)
    BY <2>1, CachedFresh DEF UserInfo
  <2> QED
    BY <2>1, <2>2, ReturnsFresh
<1>3. ASSUME NEW t \in Token, GetUserMissing(c, t) PROVE TokenInv'
  <2> DEFINE next == [pc |-> "fetch", sub |-> t.sub, old |-> FALSE]
  <2>1. next \in CallState /\ NextFresh(next)
    BY DEF CallState, Busy, NextFresh, Token
  <2>2. Step(c, next) /\ UNCHANGED <<idp, faults, cache, sweep, mark>>
    BY <1>3 DEF GetUserMissing
  <2> HIDE DEF next
  <2> QED
    BY <1>0, <2>1, <2>2, CallStep
<1>4. CASE GetUserInfoAnswered(c)
  <2>1. GetUserInfo(c, Address(call[c].sub)) /\ UNCHANGED faults
    BY <1>4 DEF GetUserInfoAnswered
  <2> QED
    BY <1>0, <2>1, InfoFresh
<1>5. CASE GetUserInfoRefused(c)
  <2>1. GetUserInfo(c, NoEmail) /\ faults' \in 0..MaxFaults
    BY <1>0, <1>5 DEF GetUserInfoRefused
  <2> QED
    BY <2>1, InfoFresh
<1>6. CASE GetUserInfoFails(c)
  <2>1. ReturnError(c) /\ UNCHANGED <<idp, cache, sweep, mark>> /\ faults' \in 0..MaxFaults
    BY <1>0, <1>6 DEF GetUserInfoFails
  <2> QED
    BY <2>1, ReturnsError
<1> QED
  BY <1>1, <1>2, <1>3, <1>4, <1>5, <1>6 DEF Answered

\* A call stores what it fetched, however long ago, and returns it.
LEMMA StoreFresh ==
    ASSUME TokenInv, NEW c \in Callers, StoreUser(c)
    PROVE  TokenInv'
<1> DEFINE s == call[c].sub
           next == [pc |-> "idle", returned |-> "user", sub |-> s, user |-> call[c].info.email,
                    oldest |-> mark[s].before]
<1>1. /\ s \in Subjects /\ call[c].info \in UserInfo /\ call[c].info.updatedAt = 0
      /\ FreshFrom(call[c].info.email, s, mark[s].before)
      /\ sweep.on => FreshFrom(call[c].info.email, s, mark[s].last)
  BY FetchedFresh DEF StoreUser
<1>2. UNCHANGED <<idp, faults, sweep, mark>> /\ Step(c, next)
  BY DEF StoreUser, ReturnUser
<1>3. /\ DOMAIN cache' = DOMAIN cache \cup {s} /\ cache'[s] = call[c].info
      /\ \A x \in DOMAIN cache : x # s => cache'[x] = cache[x]
  BY DEF StoreUser
<1>4. next \in CallState
  BY <1>1 DEF CallState, Answer, UserInfo, TokenInv, TypeOK
<1>5. NextFresh(next)
  BY <1>1 DEF NextFresh
<1> HIDE DEF next, s
<1>6. call'[c] = next /\ (\A d \in Callers : d # c => call'[d] = call[d]) /\ call' \in [Callers -> CallState]
  BY <1>2, <1>4, StepOne DEF TokenInv
<1>7. TypeOK'
  <2>1. DOMAIN cache' \subseteq Subjects /\ \A x \in DOMAIN cache' : cache'[x] \in UserInfo
    BY <1>1, <1>3 DEF TokenInv, TypeOK
  <2>2. sweep' \in [on : BOOLEAN, left : SUBSET DOMAIN cache', seen : SUBSET Subjects]
    BY <1>2, <1>3 DEF TokenInv, TypeOK
  <2> QED
    BY <1>2, <1>6, <2>1, <2>2 DEF TokenInv, TypeOK, CallState
<1>8. MarksOrdered'
  BY <1>2 DEF TokenInv, MarksOrdered
<1>9. CacheFresh'
  <2> SUFFICES ASSUME NEW x \in DOMAIN cache'
               PROVE  (cache[x].updatedAt = 0 /\ FreshFrom(cache[x].email, x, CacheLow(x)))'
    BY DEF CacheFresh
  <2>1. CASE x = s
    BY <1>1, <1>2, <1>3, <2>1 DEF FreshFrom, CacheLow
  <2>2. CASE x # s
    BY <1>2, <1>3, <2>2 DEF TokenInv, CacheFresh, CacheLow, FreshFrom
  <2> QED
    BY <2>1, <2>2
<1>10. CallsFresh'
  BY <1>2, <1>5, <1>6 DEF TokenInv, CallsFresh, CallLow, FreshFrom, NextFresh
<1>11. AnswerFresh'
  BY <1>2, <1>5, <1>6 DEF TokenInv, AnswerFresh, FreshFrom, NextFresh
<1> QED
  BY <1>7, <1>8, <1>9, <1>10, <1>11 DEF TokenInv

\* A walk begins: what the calls in progress have fetched counts from the walk before.
LEMMA FiresFresh ==
    ASSUME TokenInv, TimerFires
    PROVE  TokenInv'
<1> USE ValidatorAssumption DEF TokenInv
<1>1. ~sweep.on /\ sweep' = [on |-> TRUE, left |-> DOMAIN cache, seen |-> {}]
      /\ UNCHANGED <<idp, faults, cache>> /\ \A c \in InFlight : ~call[c].old
  BY DEF TimerFires
<1>2. \A s \in Subjects : /\ idp[s] \in 0..MaxChanges
                          /\ mark[s] \in [begun : 0..MaxChanges, last : 0..MaxChanges, before : 0..MaxChanges]
  BY DEF TypeOK
<1>3. \A s \in Subjects :
        /\ mark'[s] \in [begun : 0..MaxChanges, last : 0..MaxChanges, before : 0..MaxChanges]
        /\ mark'[s].begun = idp[s] /\ mark'[s].last = mark[s].last /\ mark'[s].before = mark[s].before
  BY <1>2 DEF TimerFires
<1>4. mark' \in [Subjects -> [begun : 0..MaxChanges, last : 0..MaxChanges, before : 0..MaxChanges]]
  BY <1>3 DEF TimerFires
<1>5. ASSUME NEW c \in Callers, c \in InFlight
      PROVE  /\ call'[c] \in Busy \cup Fetched /\ call'[c].old = TRUE
             /\ call'[c].pc = call[c].pc /\ call'[c].sub = call[c].sub
             /\ call[c].pc = "store" => call'[c].info = call[c].info
  <2>1. call[c] \in Busy \cup Fetched
    BY <1>5 DEF InFlight, TypeOK, Idle, Answer, Busy, Fetched
  <2>2. call'[c] = [call[c] EXCEPT !.old = TRUE]
    BY <1>5 DEF TimerFires
  <2>3. CASE call[c] \in Busy
    BY <2>2, <2>3 DEF Busy
  <2>4. CASE call[c] \in Fetched
    BY <2>2, <2>4 DEF Fetched
  <2> QED
    BY <2>1, <2>3, <2>4
<1>6. \A c \in Callers : c \notin InFlight => call'[c] = call[c]
  BY DEF TimerFires
<1>7. call' \in [Callers -> CallState]
  <2>1. \A c \in Callers : call'[c] \in CallState
    BY <1>5, <1>6 DEF TypeOK, CallState
  <2> QED
    BY <2>1 DEF TimerFires
<1>8. TypeOK'
  BY <1>1, <1>4, <1>7 DEF TypeOK, CallState
<1>9. MarksOrdered'
  <2> SUFFICES ASSUME NEW s \in Subjects
               PROVE  /\ mark'[s].before <= mark'[s].last /\ mark'[s].last <= mark'[s].begun
                      /\ mark'[s].begun <= idp'[s] /\ sweep'.on
    BY DEF MarksOrdered
  <2> QED
    BY <1>1, <1>3, Bounds
<1>10. CacheFresh'
  <2>1. \A s \in DOMAIN cache : s \in Subjects /\ cache[s].updatedAt = 0 /\ FreshFrom(cache[s].email, s, mark[s].before)
    BY CachedFresh DEF CacheFresh
  <2> QED
    BY <1>1, <1>3, <2>1 DEF CacheFresh, CacheLow, FreshFrom
<1>11. CallsFresh'
  <2> SUFFICES ASSUME NEW c \in Callers, call'[c].pc = "store"
               PROVE  (call[c].info.updatedAt = 0 /\ FreshFrom(call[c].info.email, call[c].sub, CallLow(c)))'
    BY DEF CallsFresh
  <2>1. c \in InFlight /\ call[c].pc = "store"
    BY <1>5, <1>6 DEF InFlight
  <2>2. call'[c].old /\ call'[c].sub = call[c].sub /\ call'[c].info = call[c].info
    BY <1>5, <2>1
  <2>3. call[c].sub \in Subjects
    BY <2>1, FetchedFresh
  <2>4. mark[call[c].sub].begun = mark[call[c].sub].last
    BY <1>1, <2>3 DEF MarksOrdered
  <2>5. call[c].info.updatedAt = 0 /\ FreshFrom(call[c].info.email, call[c].sub, mark[call[c].sub].begun)
    BY <1>1, <2>1 DEF CallsFresh, CallLow
  <2>6. CallLow(c)' = mark[call[c].sub].last
    BY <1>1, <1>3, <2>2, <2>3 DEF CallLow
  <2> QED
    BY <1>1, <2>2, <2>4, <2>5, <2>6 DEF FreshFrom
<1>12. AnswerFresh'
  <2> SUFFICES ASSUME NEW c \in Callers, call'[c].pc = "idle", call'[c].returned = "user"
               PROVE  FreshFrom(call'[c].user, call'[c].sub, call'[c].oldest)
    BY <1>1 DEF AnswerFresh, FreshFrom
  <2>1. call'[c] = call[c]
    BY <1>5, <1>6 DEF InFlight
  <2> QED
    BY <2>1 DEF AnswerFresh, FreshFrom
<1> QED
  BY <1>8, <1>9, <1>10, <1>11, <1>12

\* The walk removes every key it visits: nothing in the cache has an UpdatedAt.
LEMMA RangeFresh ==
    ASSUME TokenInv, NEW k \in Subjects, Range(k)
    PROVE  TokenInv'
<1> USE ValidatorAssumption DEF TokenInv
<1>1. /\ k \in DOMAIN cache /\ UNCHANGED <<idp, faults, call, mark>>
      /\ cache' = [x \in {y \in DOMAIN cache : y = k => ~NeedsRefresh(cache[y])} |-> cache[x]]
  BY DEF Range
<1>2. NeedsRefresh(cache[k])
  BY <1>1 DEF NeedsRefresh, CacheFresh
<1>3. DOMAIN cache' = DOMAIN cache \ {k} /\ \A x \in DOMAIN cache' : cache'[x] = cache[x]
  BY <1>1, <1>2
<1>4. sweep \in [on : BOOLEAN, left : SUBSET DOMAIN cache, seen : SUBSET Subjects]
  BY DEF TypeOK
<1>5. /\ sweep' \in [on : BOOLEAN, left : SUBSET DOMAIN cache', seen : SUBSET Subjects]
      /\ sweep'.on = sweep.on /\ sweep'.left = sweep.left \ {k}
  BY <1>3, <1>4 DEF Range
<1>6. TypeOK'
  BY <1>1, <1>3, <1>5 DEF TypeOK
<1>7. MarksOrdered'
  BY <1>1, <1>5 DEF MarksOrdered
<1>8. CacheFresh'
  BY <1>1, <1>3, <1>5 DEF CacheFresh, CacheLow, FreshFrom
<1>9. CallsFresh' /\ AnswerFresh'
  BY <1>1, <1>5 DEF CallsFresh, CallLow, AnswerFresh, FreshFrom
<1> QED
  BY <1>6, <1>7, <1>8, <1>9

\* A walk ends with all it met at its beginning gone.
LEMMA ResetFresh ==
    ASSUME TokenInv, TimerReset
    PROVE  TokenInv'
<1> USE ValidatorAssumption DEF TokenInv
<1>1. /\ sweep.on /\ sweep.left = {} /\ sweep' = [on |-> FALSE, left |-> {}, seen |-> {}]
      /\ UNCHANGED <<idp, faults, cache, call>>
  BY DEF TimerReset
<1>2. \A s \in Subjects : mark[s] \in [begun : 0..MaxChanges, last : 0..MaxChanges, before : 0..MaxChanges]
  BY DEF TypeOK
<1>3. \A s \in Subjects :
        /\ mark'[s] \in [begun : 0..MaxChanges, last : 0..MaxChanges, before : 0..MaxChanges]
        /\ mark'[s].begun = mark[s].begun /\ mark'[s].last = mark[s].begun /\ mark'[s].before = mark[s].last
  BY <1>2 DEF TimerReset
<1>4. mark' \in [Subjects -> [begun : 0..MaxChanges, last : 0..MaxChanges, before : 0..MaxChanges]]
  BY <1>3 DEF TimerReset
<1>5. TypeOK'
  BY <1>1, <1>4 DEF TypeOK
<1>6. MarksOrdered'
  <2> SUFFICES ASSUME NEW s \in Subjects
               PROVE  /\ mark'[s].before <= mark'[s].last /\ mark'[s].last <= mark'[s].begun
                      /\ mark'[s].begun <= idp'[s] /\ mark'[s].begun = mark'[s].last
    BY DEF MarksOrdered
  <2> QED
    BY <1>1, <1>3, Bounds
<1>7. CacheFresh'
  <2>1. \A s \in DOMAIN cache : s \in Subjects /\ cache[s].updatedAt = 0 /\ FreshFrom(cache[s].email, s, mark[s].last)
    BY <1>1 DEF CacheFresh, CacheLow, TypeOK
  <2> QED
    BY <1>1, <1>3, <2>1 DEF CacheFresh, CacheLow, FreshFrom
<1>8. CallsFresh'
  <2> SUFFICES ASSUME NEW c \in Callers, call[c].pc = "store"
               PROVE  (call[c].info.updatedAt = 0 /\ FreshFrom(call[c].info.email, call[c].sub, CallLow(c)))'
    BY <1>1 DEF CallsFresh
  <2>1. call[c].sub \in Subjects
    BY FetchedFresh
  <2>2. CallLow(c)' = CallLow(c)
    BY <1>1, <1>3, <2>1 DEF CallLow
  <2> QED
    BY <1>1, <2>2 DEF CallsFresh, FreshFrom
<1>9. AnswerFresh'
  BY <1>1 DEF AnswerFresh
<1> QED
  BY <1>5, <1>6, <1>7, <1>8, <1>9

\* An address changes, and everything fetched before stays as fresh as it was.
LEMMA ChangeFresh ==
    ASSUME TokenInv, NEW s \in Subjects, AddressChanges(s)
    PROVE  TokenInv'
<1> USE ValidatorAssumption DEF TokenInv
<1>1. UNCHANGED <<faults, cache, call, sweep, mark>>
  BY DEF AddressChanges
<1>2. idp \in [Subjects -> 0..MaxChanges]
  BY DEF TypeOK
<1>3. idp' \in [Subjects -> 0..MaxChanges] /\ \A x \in Subjects : idp[x] <= idp'[x]
  BY <1>2 DEF AddressChanges
<1>4. \A x \in Subjects : idp[x] \in Int /\ idp'[x] \in Int /\ idp[x] <= idp'[x]
  BY <1>2, <1>3
<1>5. \A e, low : \A x \in Subjects : FreshFrom(e, x, low) => e = NoEmail \/ (e[1] = x /\ e[2] \in low .. idp'[x])
  <2> SUFFICES ASSUME NEW e, NEW low, NEW x \in Subjects, e[2] \in low .. idp[x] PROVE e[2] \in low .. idp'[x]
    BY DEF FreshFrom
  <2> QED
    BY <1>4
<1>6. TypeOK'
  BY <1>1, <1>3 DEF TypeOK
<1>7. MarksOrdered'
  <2> SUFFICES ASSUME NEW x \in Subjects PROVE mark[x].begun <= idp'[x]
    BY <1>1 DEF MarksOrdered
  <2> QED
    BY <1>4, Bounds
<1>8. CacheFresh'
  <2>1. \A x \in DOMAIN cache : x \in Subjects
    BY DEF TypeOK
  <2>2. \A x \in DOMAIN cache : CacheLow(x)' = CacheLow(x)
    BY <1>1 DEF CacheLow
  <2> QED
    BY <1>1, <1>5, <2>1, <2>2 DEF CacheFresh, FreshFrom
<1>9. CallsFresh'
  <2> SUFFICES ASSUME NEW c \in Callers, call[c].pc = "store"
               PROVE  (call[c].info.updatedAt = 0 /\ FreshFrom(call[c].info.email, call[c].sub, CallLow(c)))'
    BY <1>1 DEF CallsFresh
  <2>1. call[c].sub \in Subjects
    BY FetchedFresh
  <2>2. CallLow(c)' = CallLow(c)
    BY <1>1 DEF CallLow
  <2> QED
    BY <1>1, <1>5, <2>1, <2>2 DEF CallsFresh, FreshFrom
<1>10. AnswerFresh'
  <2> SUFFICES ASSUME NEW c \in Callers, call[c].pc = "idle", call[c].returned = "user"
               PROVE  FreshFrom(call[c].user, call[c].sub, call[c].oldest)'
    BY <1>1 DEF AnswerFresh, FreshFrom
  <2>1. call[c].sub \in Subjects
    BY DEF TypeOK, Idle, Answer, Busy, Fetched
  <2>2. FreshFrom(call[c].user, call[c].sub, call[c].oldest)
    BY DEF AnswerFresh, FreshFrom
  <2> QED
    BY <1>1, <1>5, <2>1, <2>2 DEF FreshFrom
<1> QED
  BY <1>6, <1>7, <1>8, <1>9, <1>10

\* Whoever validates a token while walks clear the cache, calls store what they
\* fetched before and addresses change, gets a user of the token's own subject that
\* is no older than the walk before the last (ValidateAccessToken, GetUser and
\* userInfoCacheRoutine).
THEOREM TokenUsersSound == Spec => []UsersSound
<1>1. Init => TokenInv
  BY ValidatorAssumption DEF Init, TokenInv, TypeOK, MarksOrdered, CacheFresh, CallsFresh, AnswerFresh, Idle
<1>2. TokenInv /\ [Next]_vars => TokenInv'
  <2> SUFFICES ASSUME TokenInv, [Next]_vars PROVE TokenInv'
    OBVIOUS
  <2>1. CASE UNCHANGED vars
    BY <2>1 DEF vars, TokenInv, TypeOK, MarksOrdered, CacheFresh, CacheLow, CallsFresh, CallLow,
       AnswerFresh, FreshFrom
  <2> QED
    BY <2>1, HandlersFresh, StoreFresh, FiresFresh, ResetFresh, RangeFresh, ChangeFresh DEF Next
<1>3. TokenInv => UsersSound
  BY DEF TokenInv, UsersSound
<1> QED
  BY <1>1, <1>2, <1>3, PTL DEF Spec
===============================================================================
