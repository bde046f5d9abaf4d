------------------------------- MODULE Registry -------------------------------
(***************************************************************************)
(* The controller's registry of peers: LoginPeer, UpdateEndpoint and        *)
(* DeletePeer (controller/grpc_v1.go, controller/controller.go) on the peer *)
(* table of the store (controller/db/peer.go, controller/types/peer.go),    *)
(* and the allocation of tunnel addresses (controller/db/ipam.go).          *)
(*                                                                         *)
(* The handlers run concurrently and take no lock and no transaction: one   *)
(* step is one access to the database with what follows it in the handler,  *)
(* up to the next access.  The table has one effective constraint, the      *)
(* unique index on IP (gorm separates the settings of a tag by semicolons,  *)
(* so "unique,not null" and "uniqueIndex,not null" set nothing).            *)
(*                                                                         *)
(* Addresses are numbers: 0 is the network address of the prefix, Bcast its *)
(* broadcast address, and Base the address written in the prefix.  Time is  *)
(* counted in periods of thirty days: authentication has expired when it is *)
(* of an earlier period; 0 is the zero time.                                *)
(***************************************************************************)
EXTENDS Naturals, FiniteSets

CONSTANTS
    Machines,   \* machine ids
    Users,      \* users an access token can belong to
    NoUser,     \* the user of a missing or invalid token
    Endpoints,  \* UDP endpoints of nodes
    Calls,      \* calls of the methods
    Patient,    \* the machines that wait for the answer before they log in again
    Base,       \* first address tried by AllocatePeerIP
    Bcast,      \* last address of the prefix
    MaxRows,    \* bound: rows ever created
    MaxPeriods  \* bound: periods of thirty days

\* The empty string: an endpoint that was never set.
NoEndpoint == "empty"

ASSUME RegistryAssumption ==
    /\ NoUser \notin Users
    /\ NoEndpoint \notin Endpoints
    /\ Patient \subseteq Machines
    /\ Base \in Nat /\ Bcast \in Nat /\ Base < Bcast
    /\ MaxRows \in Nat /\ MaxPeriods \in Nat \ {0}

VARIABLES
    rows,      \* the table: a row for some of the ids
    lastId,    \* the last id given out
    now,       \* the current period
    call,      \* call[c]: progress and local variables of the call c
    proved     \* history: who proved to own which machine, and when

vars == <<rows, lastId, now, call, proved>>

\* The columns that the handlers read or write.
Row == [machine : Machines, user : Users, ip : Nat, endpoint : Endpoints \cup {NoEndpoint},
        loggedIn : BOOLEAN, connected : BOOLEAN, disabled : BOOLEAN, lastAuth : 0..MaxPeriods]

\* A call that has not begun, or has returned, keeps nothing; pc says which
\* access to the database comes next.
NotBegun == [pc |-> "new"]
Returned == [pc |-> "done"]
Login    == [pc : {"update", "allocate", "create"}, machine : Machines, user : Users \cup {NoUser},
             endpoint : Endpoints \cup {NoEndpoint}, id : 0..MaxRows, ip : Nat, lastAuth : 0..MaxPeriods]
Removal  == [pc : {"logout", "evict", "delete"}, id : 1..MaxRows]
Endpoint == [pc : {"endpoint"}, id : 1..MaxRows, endpoint : Endpoints]

Init ==
    /\ rows = [i \in {} |-> 0]
    /\ lastId = 0
    /\ now = 1
    /\ call = [c \in Calls |-> NotBegun]
    /\ proved = {}

-----------------------------------------------------------------------------
(* The store.                                                               *)

First(S) == CHOOSE i \in S : \A j \in S : i <= j

\* Mutant: only peers that are connected are found.
GetPeerByMachineIDConnected(m) ==
    {i \in DOMAIN rows : rows[i].machine = m /\ rows[i].connected}

\* The ids of the rows with the machine id m; the handlers use the first one.
GetPeerByMachineID(m) == {i \in DOMAIN rows : rows[i].machine = m}

\* Mutant: every column is written, as gorm's Save does.
UpdatePeerSaves(i, p) ==
    rows' = [j \in DOMAIN rows |->
        IF j # i THEN rows[j]
        ELSE [rows[j] EXCEPT !.endpoint = p.endpoint, !.loggedIn = p.loggedIn,
                             !.connected = p.connected, !.disabled = p.disabled,
                             !.lastAuth = p.lastAuth]]

\* Mutant: a row that has gone is inserted again.
UpdatePeerUpserts(i, p) ==
    rows' = [j \in DOMAIN rows \cup {i} |-> IF j \in DOMAIN rows THEN rows[j] ELSE p]

\* Updates of a Peer struct p: a field that is zero leaves its column alone, and a
\* row that has gone is no error.
UpdatePeer(i, p) ==
    rows' = [j \in DOMAIN rows |->
        IF j # i THEN rows[j]
        ELSE [rows[j] EXCEPT !.endpoint  = IF p.endpoint = NoEndpoint THEN @ ELSE p.endpoint,
                             !.loggedIn  = @ \/ p.loggedIn,
                             !.connected = @ \/ p.connected,
                             !.disabled  = @ \/ p.disabled,
                             !.lastAuth  = IF p.lastAuth = 0 THEN @ ELSE p.lastAuth]]

\* Mutant: the network address is not reserved.
NextFreeIPNetwork ==
    First({a \in Base .. Bcast + MaxRows + 1 : a # Bcast /\ \A i \in DOMAIN rows : rows[i].ip # a})

\* The loop of AllocatePeerIP: the first address from Base on that is neither
\* allocated nor the network or broadcast address.  It does not stop at the end of
\* the prefix.
NextFreeIP ==
    First({a \in Base .. Bcast + MaxRows + 1 : a \notin {0, Bcast} /\ \A i \in DOMAIN rows : rows[i].ip # a})

IsAuthExpired(r) == r.lastAuth < now

Step(c, next) == call' = [call EXCEPT ![c] = next]

-----------------------------------------------------------------------------
(* LoginPeer.                                                               *)

\* A patient machine has no login in progress when it sends the next one.
Free(m) == m \in Patient =>
    \A c \in Calls : call[c].pc \in {"update", "allocate", "create"} => call[c].machine # m

\* The peer is not registered: with a valid token, RegisterPeer follows.
LoginUnknown(c, m, u, e) ==
    /\ call[c] = NotBegun /\ Free(m)
    /\ GetPeerByMachineID(m) = {}
    /\ Step(c, IF u = NoUser THEN Returned
               ELSE [pc |-> "allocate", machine |-> m, user |-> u, endpoint |-> e,
                     id |-> 0, ip |-> 0, lastAuth |-> 0])
    /\ UNCHANGED <<rows, lastId, now, proved>>

\* Mutant: a valid token of any user renews the authentication.
LoginKnownAnyUser(c, m, u, e) ==
    LET i == First(GetPeerByMachineID(m)) IN
    /\ call[c] = NotBegun /\ Free(m)
    /\ GetPeerByMachineID(m) # {}
    /\ ~rows[i].disabled
    /\ IsAuthExpired(rows[i]) => u # NoUser
    /\ Step(c, [pc |-> "update", machine |-> m, user |-> u, endpoint |-> e, id |-> i, ip |-> 0,
                lastAuth |-> IF IsAuthExpired(rows[i]) THEN now ELSE rows[i].lastAuth])
    /\ proved' = IF IsAuthExpired(rows[i]) THEN proved \cup {<<m, u, now>>} ELSE proved
    /\ UNCHANGED <<rows, lastId, now>>

\* The peer is registered and its authentication valid, or renewed by a token of
\* the user that the peer belongs to: ProcessPeerLogin follows.
LoginKnown(c, m, u, e) ==
    LET i == First(GetPeerByMachineID(m)) IN
    /\ call[c] = NotBegun /\ Free(m)
    /\ GetPeerByMachineID(m) # {}
    /\ ~rows[i].disabled
    /\ IsAuthExpired(rows[i]) => u = rows[i].user
    /\ Step(c, [pc |-> "update", machine |-> m, user |-> u, endpoint |-> e, id |-> i, ip |-> 0,
                lastAuth |-> IF IsAuthExpired(rows[i]) THEN now ELSE rows[i].lastAuth])
    /\ proved' = IF IsAuthExpired(rows[i]) THEN proved \cup {<<m, u, now>>} ELSE proved
    /\ UNCHANGED <<rows, lastId, now>>

\* The peer is disabled, or its authentication has expired and the token does not
\* renew it; without a valid token a peer that is logged in is logged out.
LoginRefused(c, m, u) ==
    LET i == First(GetPeerByMachineID(m)) IN
    /\ call[c] = NotBegun /\ Free(m)
    /\ GetPeerByMachineID(m) # {}
    /\ rows[i].disabled \/ (IsAuthExpired(rows[i]) /\ u # rows[i].user)
    /\ Step(c, IF ~rows[i].disabled /\ u = NoUser /\ rows[i].loggedIn
               THEN [pc |-> "logout", id |-> i]
               ELSE Returned)
    /\ UNCHANGED <<rows, lastId, now, proved>>

\* The update of the row at the end of ProcessPeerLogin.
ProcessPeerLogin(c) ==
    /\ call[c].pc = "update"
    /\ UpdatePeer(call[c].id, [endpoint |-> call[c].endpoint, loggedIn |-> TRUE, connected |-> FALSE,
                               disabled |-> FALSE, lastAuth |-> call[c].lastAuth])
    /\ Step(c, Returned)
    /\ UNCHANGED <<lastId, now, proved>>

\* AllocatePeerIP at the beginning of RegisterPeer; LastAuth is the time after it.
AllocatePeerIP(c) ==
    /\ call[c].pc = "allocate"
    /\ Step(c, [call[c] EXCEPT !.pc = "create", !.ip = NextFreeIP, !.lastAuth = now])
    /\ proved' = proved \cup {<<call[c].machine, call[c].user, now>>}
    /\ UNCHANGED <<rows, lastId, now>>

\* Mutant: the table has no unique index on the address.
CreatePeerUnchecked(c) ==
    /\ call[c].pc = "create"
    /\ lastId < MaxRows
    /\ lastId' = lastId + 1
    /\ rows' = [i \in DOMAIN rows \cup {lastId + 1} |->
                 IF i # lastId + 1 THEN rows[i]
                 ELSE [machine |-> call[c].machine, user |-> call[c].user, ip |-> call[c].ip,
                       endpoint |-> call[c].endpoint, loggedIn |-> TRUE, connected |-> FALSE,
                       disabled |-> FALSE, lastAuth |-> call[c].lastAuth]]
    /\ Step(c, Returned)
    /\ UNCHANGED <<now, proved>>

\* CreatePeer at the end of RegisterPeer: the unique index refuses an address that
\* was taken since it was allocated.
CreatePeer(c) ==
    /\ call[c].pc = "create"
    /\ \/ /\ \E i \in DOMAIN rows : rows[i].ip = call[c].ip
          /\ UNCHANGED <<rows, lastId>>
       \/ /\ \A i \in DOMAIN rows : rows[i].ip # call[c].ip
          /\ lastId < MaxRows
          /\ lastId' = lastId + 1
          /\ rows' = [i \in DOMAIN rows \cup {lastId + 1} |->
                       IF i # lastId + 1 THEN rows[i]
                       ELSE [machine |-> call[c].machine, user |-> call[c].user, ip |-> call[c].ip,
                             endpoint |-> call[c].endpoint, loggedIn |-> TRUE, connected |-> FALSE,
                             disabled |-> FALSE, lastAuth |-> call[c].lastAuth]]
    /\ Step(c, Returned)
    /\ UNCHANGED <<now, proved>>

-----------------------------------------------------------------------------
(* The other methods.                                                       *)

\* The checks that UpdateEndpoint, Punch and UpdateStream make.
MayAct(r) == ~r.disabled /\ r.loggedIn /\ ~IsAuthExpired(r)

UpdateEndpoint(c, m, e) ==
    LET i == First(GetPeerByMachineID(m)) IN
    /\ call[c] = NotBegun
    /\ GetPeerByMachineID(m) # {}
    /\ Step(c, IF MayAct(rows[i]) THEN [pc |-> "endpoint", id |-> i, endpoint |-> e] ELSE Returned)
    /\ UNCHANGED <<rows, lastId, now, proved>>

UpdatePeerEndpoint(c) ==
    /\ call[c].pc = "endpoint"
    /\ rows' = [j \in DOMAIN rows |-> IF j = call[c].id THEN [rows[j] EXCEPT !.endpoint = call[c].endpoint]
                                      ELSE rows[j]]
    /\ Step(c, Returned)
    /\ UNCHANGED <<lastId, now, proved>>

\* DeletePeer logs out a peer that is connected, and then deletes its row.
DeletePeer(c, i) ==
    /\ call[c] = NotBegun
    /\ i \in DOMAIN rows
    /\ Step(c, [pc |-> IF rows[i].connected THEN "evict" ELSE "delete", id |-> i])
    /\ UNCHANGED <<rows, lastId, now, proved>>

\* LogoutPeer: the struct of the update is zero but for its id.
LogoutPeer(c) ==
    /\ call[c].pc \in {"logout", "evict"}
    /\ UpdatePeer(call[c].id, [endpoint |-> NoEndpoint, loggedIn |-> FALSE, connected |-> FALSE,
                               disabled |-> FALSE, lastAuth |-> 0])
    /\ Step(c, IF call[c].pc = "logout" THEN Returned ELSE [pc |-> "delete", id |-> call[c].id])
    /\ UNCHANGED <<lastId, now, proved>>

DeleteRow(c) ==
    /\ call[c].pc = "delete"
    /\ rows' = [i \in DOMAIN rows \ {call[c].id} |-> rows[i]]
    /\ Step(c, Returned)
    /\ UNCHANGED <<lastId, now, proved>>

\* UpdateStream sets and clears the column connected; its interleavings are those
\* of UpdateStreams.
SetPeerConnected(i, b) ==
    /\ i \in DOMAIN rows
    /\ b => MayAct(rows[i])
    /\ rows' = [rows EXCEPT ![i].connected = b]
    /\ UNCHANGED <<lastId, now, call, proved>>

\* Nothing in the controller disables a peer: it is done in the database.
Disable(i) ==
    /\ i \in DOMAIN rows
    /\ rows' = [rows EXCEPT ![i].disabled = TRUE]
    /\ UNCHANGED <<lastId, now, call, proved>>

Tick ==
    /\ now < MaxPeriods
    /\ now' = now + 1
    /\ UNCHANGED <<rows, lastId, call, proved>>

Next ==
    \/ \E c \in Calls, m \in Machines, u \in Users \cup {NoUser} :
        \/ \E e \in Endpoints \cup {NoEndpoint} : LoginUnknown(c, m, u, e) \/ LoginKnown(c, m, u, e)
        \/ LoginRefused(c, m, u)
    \/ \E c \in Calls, m \in Machines, e \in Endpoints : UpdateEndpoint(c, m, e)
    \/ \E c \in Calls :
        \/ ProcessPeerLogin(c) \/ AllocatePeerIP(c) \/ CreatePeer(c)
        \/ UpdatePeerEndpoint(c) \/ LogoutPeer(c) \/ DeleteRow(c)
    \/ \E i \in DOMAIN rows :
        \/ \E c \in Calls : DeletePeer(c, i)
        \/ \E b \in BOOLEAN : SetPeerConnected(i, b)
        \/ Disable(i)
    \/ Tick

Spec == Init /\ [][Next]_vars

-----------------------------------------------------------------------------
(* Properties.                                                              *)

\* Every variable has its type; in particular no row has an id that CreatePeer did
\* not give out: an update of a row deleted meanwhile does not bring it back.
TypeOK ==
    /\ DOMAIN rows \subseteq 1..lastId
    /\ \A i \in DOMAIN rows : rows[i] \in Row
    /\ lastId \in 0..MaxRows
    /\ now \in 1..MaxPeriods
    /\ call \in [Calls -> {NotBegun, Returned} \cup Login \cup Removal \cup Endpoint]
    /\ proved \subseteq Machines \X Users \X (1..MaxPeriods)

\* No two peers have the same tunnel address, although two registrations may both
\* be given the same free one: AllocatePeerIP reads, and CreatePeer writes later.
AddressesDistinct == \A i, j \in DOMAIN rows : i # j => rows[i].ip # rows[j].ip

\* Every tunnel address is a host address of the prefix, deletions and concurrent
\* registrations included: AllocatePeerIP gives out neither the network address nor
\* the broadcast address nor one beyond the prefix.
AddressesInPrefix == \A i \in DOMAIN rows : rows[i].ip \in (Base .. Bcast) \ {0, Bcast}

\* The table stays a table of peers with one host address each, whatever
\* registrations, logins and deletions run at the same time.
AddressesSound == TypeOK /\ AddressesDistinct /\ AddressesInPrefix

\* What a row says about who authenticated the machine last, and when, really
\* happened: no interleaving of logins renews a peer for a user with the token of
\* another, or without one (LoginPeer, 120-140).
AuthProved == \A i \in DOMAIN rows : <<rows[i].machine, rows[i].user, rows[i].lastAuth>> \in proved

\* No login, however old the row it read, forgets a peer's endpoint or lets in a
\* peer that was disabled meanwhile: what ProcessPeerLogin writes back is not the
\* whole row.
NothingForgotten ==
    [][\A i \in DOMAIN rows \cap DOMAIN rows' :
         /\ rows[i].endpoint # NoEndpoint => rows'[i].endpoint # NoEndpoint
         /\ rows[i].disabled => rows'[i].disabled]_vars

\* A machine that waits for the answer to one login before it sends the next has at
\* most one row, whatever other machines do and whoever is deleted meanwhile: the
\* database does not see to it, GetPeerByMachineID at the start of LoginPeer does.
RegisteredOnce ==
    \A i, j \in DOMAIN rows :
        rows[i].machine = rows[j].machine /\ rows[i].machine \in Patient => i = j
===============================================================================
