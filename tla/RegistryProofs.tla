---------------------------- MODULE RegistryProofs ----------------------------
(***************************************************************************)
(* Theorems about Registry, for any machines, users and calls.              *)
(***************************************************************************)
EXTENDS Registry, FiniteSetTheorems, WellFoundedInduction, TLAPS

-----------------------------------------------------------------------------
(* First and the free addresses.                                            *)

\* First picks the least element of a set of numbers.
LEMMA FirstIsLeast ==
    ASSUME NEW S \in SUBSET Nat, S # {}
    PROVE  First(S) \in S /\ \A j \in S : First(S) <= j
<1> DEFINE Less == {ss \in Nat \X Nat : ss[1] < ss[2]}
<1>1. IsWellFoundedOn(Less, Nat)
  BY NatLessThanWellFounded DEF OpToRel
<1> HIDE DEF Less
<1>2. PICK x \in S : \A y \in S : <<y, x>> \notin Less
  BY <1>1, WFMin
<1>3. \A y \in S : x <= y
  <2> SUFFICES ASSUME NEW y \in S, y < x PROVE FALSE
    OBVIOUS
  <2> QED
    BY <1>2 DEF Less
<1> QED
  BY <1>3 DEF First

\* The row that the handlers use is one of the machine.
LEMMA FirstRow ==
    ASSUME TypeOK, NEW m \in Machines, GetPeerByMachineID(m) # {}
    PROVE  LET i == First(GetPeerByMachineID(m))
           IN  i \in DOMAIN rows /\ i \in 1..lastId /\ rows[i] \in Row /\ rows[i].machine = m
<1>1. GetPeerByMachineID(m) \in SUBSET Nat
  BY DEF GetPeerByMachineID, TypeOK
<1>2. First(GetPeerByMachineID(m)) \in GetPeerByMachineID(m)
  BY <1>1, FirstIsLeast
<1> QED
  BY <1>2 DEF GetPeerByMachineID, TypeOK

\* A set with more elements than there ever were rows has an address that is free.
LEMMA FreeAddress ==
    ASSUME TypeOK, NEW H \in SUBSET Nat, IsFiniteSet(H), lastId < Cardinality(H)
    PROVE  \E a \in H : \A i \in DOMAIN rows : rows[i].ip # a
<1> DEFINE ips == {rows[i].ip : i \in DOMAIN rows}
           f   == [i \in DOMAIN rows |-> rows[i].ip]
<1>1. lastId \in Nat
  BY RegistryAssumption DEF TypeOK
<1>2. IsFiniteSet(1..lastId) /\ Cardinality(1..lastId) = lastId
  BY <1>1, FS_Interval
<1>3. IsFiniteSet(DOMAIN rows) /\ Cardinality(DOMAIN rows) <= lastId
  BY <1>2, FS_Subset DEF TypeOK
<1>4. f \in Surjection(DOMAIN rows, ips)
  BY DEF Surjection
<1>5. IsFiniteSet(ips) /\ Cardinality(ips) <= Cardinality(DOMAIN rows)
  BY <1>3, <1>4, FS_Surjection
<1>6. ASSUME H \subseteq ips PROVE FALSE
  <2>1. Cardinality(H) <= Cardinality(ips)
    BY <1>5, <1>6, FS_Subset
  <2>2. Cardinality(H) \in Nat /\ Cardinality(ips) \in Nat /\ Cardinality(DOMAIN rows) \in Nat
    BY <1>3, <1>5, FS_CardinalityType
  <2> QED
    BY <1>1, <1>3, <1>5, <2>1, <2>2
<1> QED
  BY <1>6

\* A set loses at most one element when one is taken away.
LEMMA RemoveOne ==
    ASSUME NEW S, IsFiniteSet(S), NEW x
    PROVE  IsFiniteSet(S \ {x}) /\ Cardinality(S \ {x}) >= Cardinality(S) - 1
<1>1. Cardinality(S) \in Nat
  BY FS_CardinalityType
<1> QED
  BY <1>1, FS_RemoveElement

\* AllocatePeerIP always finds an address, since its loop does not stop at the end
\* of the prefix, and none is smaller.
LEMMA AllocatedAddress ==
    ASSUME TypeOK
    PROVE  /\ NextFreeIP \in Nat /\ NextFreeIP >= Base
           /\ NextFreeIP \notin {0, Bcast}
           /\ \A i \in DOMAIN rows : rows[i].ip # NextFreeIP
           /\ \A a \in Base .. Bcast + MaxRows + 1 :
                 a \notin {0, Bcast} /\ (\A i \in DOMAIN rows : rows[i].ip # a) => NextFreeIP <= a
<1> USE RegistryAssumption
<1> DEFINE all  == Base .. Bcast + MaxRows + 1
           H    == (all \ {0}) \ {Bcast}
           free == {a \in all : a \notin {0, Bcast} /\ \A i \in DOMAIN rows : rows[i].ip # a}
<1>0. \A a \in all : a \in Nat
  OBVIOUS
<1>1. IsFiniteSet(all) /\ Cardinality(all) = Bcast + MaxRows + 2 - Base
  <2>1. Base \in Int /\ Bcast + MaxRows + 1 \in Int /\ ~(Base > Bcast + MaxRows + 1)
    OBVIOUS
  <2> QED
    BY <2>1, FS_Interval
<1>2. IsFiniteSet(all \ {0}) /\ Cardinality(all \ {0}) >= Cardinality(all) - 1
  BY <1>1, RemoveOne
<1>3. IsFiniteSet(H) /\ Cardinality(H) >= Cardinality(all \ {0}) - 1
  BY <1>2, RemoveOne
<1>4. lastId < Cardinality(H)
  <2>1. lastId \in Nat /\ lastId <= MaxRows
    BY DEF TypeOK
  <2>2. Cardinality(H) \in Nat /\ Cardinality(all \ {0}) \in Nat
    BY <1>2, <1>3, FS_CardinalityType
  <2> HIDE DEF H, all
  <2> QED
    BY <1>1, <1>2, <1>3, <2>1, <2>2
<1>5. free # {}
  <2>1. H \in SUBSET Nat
    BY <1>0
  <2>2. \E a \in H : \A i \in DOMAIN rows : rows[i].ip # a
    BY <1>3, <1>4, <2>1, FreeAddress
  <2> QED
    BY <2>2
<1>6. First(free) \in free /\ \A j \in free : First(free) <= j
  <2>1. free \in SUBSET Nat
    BY <1>0
  <2> QED
    BY <1>5, <2>1, FirstIsLeast
<1>7. NextFreeIP = First(free)
  BY DEF NextFreeIP
<1> QED
  BY <1>6, <1>7

-----------------------------------------------------------------------------
(* Type correctness.                                                        *)

\* What a row keeps when it is edited: its machine, its user and its address, an
\* endpoint once it has one, and that it was disabled.
RowsEdited ==
    /\ DOMAIN rows' \subseteq DOMAIN rows
    /\ \A j \in DOMAIN rows' :
        /\ rows'[j] \in Row
        /\ rows'[j].machine = rows[j].machine
        /\ rows'[j].user = rows[j].user
        /\ rows'[j].ip = rows[j].ip
        /\ rows[j].endpoint # NoEndpoint => rows'[j].endpoint # NoEndpoint
        /\ rows[j].disabled => rows'[j].disabled

AuthsKept == \A j \in DOMAIN rows' : rows'[j].lastAuth = rows[j].lastAuth

\* Updates of a struct edits one row; it changes lastAuth only to one that is not
\* zero.
LEMMA UpdateEdits ==
    ASSUME TypeOK, NEW i \in Nat,
           NEW p \in [endpoint : Endpoints \cup {NoEndpoint}, loggedIn : BOOLEAN, connected : BOOLEAN,
                      disabled : BOOLEAN, lastAuth : 0..MaxPeriods],
           UpdatePeer(i, p)
    PROVE  /\ RowsEdited /\ DOMAIN rows' = DOMAIN rows
           /\ \A j \in DOMAIN rows' :
                \/ rows'[j].lastAuth = rows[j].lastAuth
                \/ j = i /\ rows'[j].lastAuth = p.lastAuth
           /\ p.lastAuth = 0 => AuthsKept
<1>1. DOMAIN rows' = DOMAIN rows
  BY DEF UpdatePeer
<1>2. \A j \in DOMAIN rows : j # i => rows'[j] = rows[j]
  BY DEF UpdatePeer
<1>3. ASSUME i \in DOMAIN rows
      PROVE  /\ rows'[i] \in Row
             /\ rows'[i].machine = rows[i].machine /\ rows'[i].user = rows[i].user
             /\ rows'[i].ip = rows[i].ip
             /\ rows[i].endpoint # NoEndpoint => rows'[i].endpoint # NoEndpoint
             /\ rows[i].disabled => rows'[i].disabled
             /\ rows'[i].lastAuth = IF p.lastAuth = 0 THEN rows[i].lastAuth ELSE p.lastAuth
  <2>1. rows[i] \in Row
    BY <1>3 DEF TypeOK
  <2>2. rows'[i] = [rows[i] EXCEPT !.endpoint  = IF p.endpoint = NoEndpoint THEN @ ELSE p.endpoint,
                             !.loggedIn  = @ \/ p.loggedIn,
                             !.connected = @ \/ p.connected,
                             !.disabled  = @ \/ p.disabled,
                             !.lastAuth  = IF p.lastAuth = 0 THEN @ ELSE p.lastAuth]
    BY <1>3 DEF UpdatePeer
  <2> QED
    BY <2>1, <2>2, ZenonT(60) DEF Row
<1>4. \A j \in DOMAIN rows : rows[j] \in Row
  BY DEF TypeOK
<1> QED
  BY <1>1, <1>2, <1>3, <1>4 DEF RowsEdited, AuthsKept

\* The two updates that the handlers make.
LEMMA UpdatesEdit ==
    ASSUME TypeOK, NEW c \in Calls
    PROVE  /\ ProcessPeerLogin(c) =>
                /\ RowsEdited
                /\ \A j \in DOMAIN rows' : \/ rows'[j].lastAuth = rows[j].lastAuth
                                           \/ j = call[c].id /\ rows'[j].lastAuth = call[c].lastAuth
           /\ LogoutPeer(c) => RowsEdited /\ AuthsKept
<1> USE RegistryAssumption
<1>1. ASSUME ProcessPeerLogin(c)
      PROVE  /\ RowsEdited
             /\ \A j \in DOMAIN rows' : \/ rows'[j].lastAuth = rows[j].lastAuth
                                        \/ j = call[c].id /\ rows'[j].lastAuth = call[c].lastAuth
  <2> DEFINE p == [endpoint |-> call[c].endpoint, loggedIn |-> TRUE, connected |-> FALSE,
                   disabled |-> FALSE, lastAuth |-> call[c].lastAuth]
  <2>1. call[c] \in Login
    BY <1>1 DEF ProcessPeerLogin, TypeOK, NotBegun, Returned, Login, Removal, Endpoint
  <2>2. call[c].id \in Nat
    BY <2>1 DEF Login
  <2>3. p \in [endpoint : Endpoints \cup {NoEndpoint}, loggedIn : BOOLEAN, connected : BOOLEAN,
               disabled : BOOLEAN, lastAuth : 0..MaxPeriods]
    BY <2>1 DEF Login
  <2>4. UpdatePeer(call[c].id, p) /\ p.lastAuth = call[c].lastAuth
    BY <1>1 DEF ProcessPeerLogin
  <2> HIDE DEF p
  <2> QED
    BY <2>2, <2>3, <2>4, UpdateEdits
<1>2. ASSUME LogoutPeer(c) PROVE RowsEdited /\ AuthsKept
  <2> DEFINE p == [endpoint |-> NoEndpoint, loggedIn |-> FALSE, connected |-> FALSE,
                   disabled |-> FALSE, lastAuth |-> 0]
  <2>1. call[c] \in Removal
    BY <1>2 DEF LogoutPeer, TypeOK, NotBegun, Returned, Login, Removal, Endpoint
  <2>2. call[c].id \in Nat
    BY <2>1 DEF Removal
  <2>3. p \in [endpoint : Endpoints \cup {NoEndpoint}, loggedIn : BOOLEAN, connected : BOOLEAN,
               disabled : BOOLEAN, lastAuth : 0..MaxPeriods]
    OBVIOUS
  <2>4. UpdatePeer(call[c].id, p) /\ p.lastAuth = 0
    BY <1>2 DEF LogoutPeer
  <2> HIDE DEF p
  <2> QED
    BY <2>2, <2>3, <2>4, UpdateEdits
<1> QED
  BY <1>1, <1>2

\* The other steps that edit rows, or delete one, leave lastAuth alone.
LEMMA OthersEdit ==
    ASSUME TypeOK
    PROVE  /\ \A c \in Calls : UpdatePeerEndpoint(c) \/ DeleteRow(c) => RowsEdited /\ AuthsKept
           /\ \A i \in DOMAIN rows : \A b \in BOOLEAN :
                SetPeerConnected(i, b) \/ Disable(i) => RowsEdited /\ AuthsKept
           /\ UNCHANGED rows => RowsEdited /\ AuthsKept
<1> USE RegistryAssumption
<1>1. \A j \in DOMAIN rows : rows[j] \in Row
  BY DEF TypeOK
<1>2. ASSUME NEW c \in Calls, UpdatePeerEndpoint(c) PROVE RowsEdited /\ AuthsKept
  <2>1. call[c] \in Endpoint
    BY <1>2 DEF UpdatePeerEndpoint, TypeOK, NotBegun, Returned, Login, Removal, Endpoint
  <2>2. call[c].endpoint \in Endpoints
    BY <2>1 DEF Endpoint
  <2>3. rows' = [j \in DOMAIN rows |-> IF j = call[c].id THEN [rows[j] EXCEPT !.endpoint = call[c].endpoint]
                                       ELSE rows[j]]
    BY <1>2 DEF UpdatePeerEndpoint
  <2> QED
    BY <1>1, <2>2, <2>3 DEF RowsEdited, AuthsKept, Row
<1>3. ASSUME NEW c \in Calls, DeleteRow(c) PROVE RowsEdited /\ AuthsKept
  BY <1>1, <1>3 DEF DeleteRow, RowsEdited, AuthsKept
<1>4. ASSUME NEW i \in DOMAIN rows, NEW b \in BOOLEAN, SetPeerConnected(i, b) PROVE RowsEdited /\ AuthsKept
  BY <1>1, <1>4 DEF SetPeerConnected, RowsEdited, AuthsKept, Row
<1>5. ASSUME NEW i \in DOMAIN rows, Disable(i) PROVE RowsEdited /\ AuthsKept
  BY <1>1, <1>5, ZenonT(60) DEF Disable, RowsEdited, AuthsKept, Row
<1>6. ASSUME UNCHANGED rows PROVE RowsEdited /\ AuthsKept
  BY <1>1, <1>6 DEF RowsEdited, AuthsKept
<1> QED
  BY <1>2, <1>3, <1>4, <1>5, <1>6

\* The states of a call.
CallState == {NotBegun, Returned} \cup Login \cup Removal \cup Endpoint

\* The variables of the login r after AllocatePeerIP gave it the address a.
Allocated(r, a, t) == [r EXCEPT !.pc = "create", !.ip = a, !.lastAuth = t]

\* What AllocatePeerIP leaves alone in the variables of a login.
LEMMA AllocatedLogin ==
    ASSUME NEW r \in Login, NEW a \in Nat, NEW t \in 0..MaxPeriods
    PROVE  LET n == Allocated(r, a, t)
           IN  /\ n \in Login /\ n.pc = "create" /\ n.ip = a /\ n.lastAuth = t
               /\ n.machine = r.machine /\ n.user = r.user
<1> DEFINE n == Allocated(r, a, t)
<1>1. n \in Login
  BY DEF Login, Allocated
<1>2. n.pc = "create" /\ n.ip = a /\ n.lastAuth = t
  BY DEF Login, Allocated
<1>3. n.machine = r.machine /\ n.user = r.user
  BY DEF Login, Allocated
<1> QED
  BY <1>1, <1>2, <1>3

\* A call that goes on to a state of a call.
LEMMA StepTypes ==
    ASSUME TypeOK, NEW c \in Calls, NEW next \in CallState, Step(c, next)
    PROVE  call' \in [Calls -> CallState]
  BY DEF Step, TypeOK, CallState

\* In CreatePeer the new row takes an id that no row had before.
LEMMA CreateTypes ==
    ASSUME TypeOK, NEW c \in Calls, CreatePeer(c), rows' # rows
    PROVE  /\ call[c] \in Login /\ call[c].pc = "create"
           /\ call[c].user \in Users =>
                /\ rows'[lastId + 1] \in Row
                /\ rows'[lastId + 1].machine = call[c].machine
                /\ rows'[lastId + 1].user = call[c].user
                /\ rows'[lastId + 1].ip = call[c].ip
                /\ rows'[lastId + 1].lastAuth = call[c].lastAuth
           /\ lastId + 1 \notin DOMAIN rows
           /\ lastId < MaxRows /\ lastId' = lastId + 1
           /\ DOMAIN rows' = DOMAIN rows \cup {lastId + 1}
           /\ \A i \in DOMAIN rows : rows'[i] = rows[i] /\ rows[i].ip # call[c].ip
<1> USE RegistryAssumption
<1>1. call[c] \in Login /\ call[c].pc = "create"
  BY DEF CreatePeer, TypeOK, NotBegun, Returned, Login, Removal, Endpoint
<1>2. lastId + 1 \notin DOMAIN rows
  BY DEF TypeOK
<1>3. /\ lastId < MaxRows /\ lastId' = lastId + 1
      /\ \A i \in DOMAIN rows : rows[i].ip # call[c].ip
      /\ rows' = [i \in DOMAIN rows \cup {lastId + 1} |->
                       IF i # lastId + 1 THEN rows[i]
                       ELSE [machine |-> call[c].machine, user |-> call[c].user, ip |-> call[c].ip,
                             endpoint |-> call[c].endpoint, loggedIn |-> TRUE, connected |-> FALSE,
                             disabled |-> FALSE, lastAuth |-> call[c].lastAuth]]
  BY DEF CreatePeer
<1>4. rows'[lastId + 1] = [machine |-> call[c].machine, user |-> call[c].user, ip |-> call[c].ip,
                             endpoint |-> call[c].endpoint, loggedIn |-> TRUE, connected |-> FALSE,
                             disabled |-> FALSE, lastAuth |-> call[c].lastAuth]
  BY <1>3
<1>5. call[c].user \in Users =>
                /\ rows'[lastId + 1] \in Row
                /\ rows'[lastId + 1].machine = call[c].machine
                /\ rows'[lastId + 1].user = call[c].user
                /\ rows'[lastId + 1].ip = call[c].ip
                /\ rows'[lastId + 1].lastAuth = call[c].lastAuth
  BY <1>1, <1>4 DEF Login, Row
<1>6. DOMAIN rows' = DOMAIN rows \cup {lastId + 1}
  BY <1>3
<1>7. \A i \in DOMAIN rows : rows'[i] = rows[i]
  BY <1>2, <1>3
<1> QED
  BY <1>1, <1>2, <1>3, <1>5, <1>6, <1>7

\* A registration is under way only for a valid token: what TypeOK needs to be
\* inductive.
Registers == \A c \in Calls : call[c].pc \in {"allocate", "create"} => call[c].user \in Users

\* An inductive invariant for the types.
TypeInv == TypeOK /\ Registers

\* The first accesses of the handlers.
LEMMA BeginTypes ==
    ASSUME TypeInv, NEW c \in Calls, NEW m \in Machines, NEW u \in Users \cup {NoUser}
    PROVE  /\ \A e \in Endpoints \cup {NoEndpoint} :
                 LoginUnknown(c, m, u, e) \/ LoginKnown(c, m, u, e) => TypeInv'
           /\ LoginRefused(c, m, u) => TypeInv'
           /\ \A e \in Endpoints : UpdateEndpoint(c, m, e) => TypeInv'
<1> USE RegistryAssumption DEF TypeInv
<1> DEFINE i == First(GetPeerByMachineID(m))
<1>1. ASSUME GetPeerByMachineID(m) # {}
      PROVE  i \in DOMAIN rows /\ i \in 1..lastId /\ i \in 1..MaxRows /\ rows[i] \in Row
  BY <1>1, FirstRow DEF TypeOK
<1> HIDE DEF i
<1>2. ASSUME NEW e \in Endpoints \cup {NoEndpoint}, LoginUnknown(c, m, u, e) PROVE TypeInv'
  <2> DEFINE next == IF u = NoUser THEN Returned
                     ELSE [pc |-> "allocate", machine |-> m, user |-> u, endpoint |-> e,
                           id |-> 0, ip |-> 0, lastAuth |-> 0]
  <2>1. next \in CallState /\ (next.pc \in {"allocate", "create"} => next.user \in Users)
    BY DEF CallState, Login, Returned
  <2>2. Step(c, next) /\ UNCHANGED <<rows, lastId, now, proved>>
    BY <1>2 DEF LoginUnknown
  <2> HIDE DEF next
  <2>3. call' \in [Calls -> CallState]
    BY <2>1, <2>2, StepTypes
  <2>4. Registers'
    BY <2>1, <2>2 DEF Step, Registers, TypeOK
  <2> QED
    BY <2>2, <2>3, <2>4 DEF TypeOK, CallState
<1>3. ASSUME NEW e \in Endpoints \cup {NoEndpoint}, LoginKnown(c, m, u, e) PROVE TypeInv'
  <2> DEFINE next == [pc |-> "update", machine |-> m, user |-> u, endpoint |-> e, id |-> i, ip |-> 0,
                      lastAuth |-> IF IsAuthExpired(rows[i]) THEN now ELSE rows[i].lastAuth]
  <2>1. i \in 1..MaxRows /\ rows[i] \in Row /\ now \in 1..MaxPeriods
    BY <1>1, <1>3 DEF LoginKnown, TypeOK
  <2>2. next \in CallState /\ next.pc = "update"
    BY <2>1 DEF CallState, Login, Row
  <2>3. Step(c, next) /\ UNCHANGED <<rows, lastId, now>>
    BY <1>3 DEF LoginKnown, i
  <2> HIDE DEF next
  <2>4. call' \in [Calls -> CallState]
    BY <2>2, <2>3, StepTypes
  <2>5. proved' \subseteq Machines \X Users \X (1..MaxPeriods)
    <3>1. CASE IsAuthExpired(rows[i])
      <4>1. u \in Users
        BY <1>3, <2>1, <3>1 DEF LoginKnown, Row, i
      <4> QED
        BY <1>3, <2>1, <3>1, <4>1 DEF LoginKnown, TypeOK, i
    <3>2. CASE ~IsAuthExpired(rows[i])
      BY <1>3, <3>2 DEF LoginKnown, TypeOK, i
    <3> QED
      BY <3>1, <3>2
  <2>6. Registers'
    BY <2>2, <2>3 DEF Step, Registers, TypeOK
  <2> QED
    BY <2>3, <2>4, <2>5, <2>6 DEF TypeOK, CallState
<1>4. ASSUME LoginRefused(c, m, u) PROVE TypeInv'
  <2> DEFINE next == IF ~rows[i].disabled /\ u = NoUser /\ rows[i].loggedIn
                     THEN [pc |-> "logout", id |-> i] ELSE Returned
  <2>1. i \in 1..MaxRows
    BY <1>1, <1>4 DEF LoginRefused
  <2>2. next \in CallState /\ next.pc \notin {"allocate", "create"}
    BY <2>1 DEF CallState, Removal, Returned
  <2>3. Step(c, next) /\ UNCHANGED <<rows, lastId, now, proved>>
    BY <1>4 DEF LoginRefused, i
  <2> HIDE DEF next
  <2>4. call' \in [Calls -> CallState]
    BY <2>2, <2>3, StepTypes
  <2>5. Registers'
    BY <2>2, <2>3 DEF Step, Registers, TypeOK
  <2> QED
    BY <2>3, <2>4, <2>5 DEF TypeOK, CallState
<1>5. ASSUME NEW e \in Endpoints, UpdateEndpoint(c, m, e) PROVE TypeInv'
  <2> DEFINE next == IF MayAct(rows[i]) THEN [pc |-> "endpoint", id |-> i, endpoint |-> e] ELSE Returned
  <2>1. i \in 1..MaxRows
    BY <1>1, <1>5 DEF UpdateEndpoint
  <2>2. next \in CallState /\ next.pc \notin {"allocate", "create"}
    BY <2>1 DEF CallState, Endpoint, Returned
  <2>3. Step(c, next) /\ UNCHANGED <<rows, lastId, now, proved>>
    BY <1>5 DEF UpdateEndpoint, i
  <2> HIDE DEF next
  <2>4. call' \in [Calls -> CallState]
    BY <2>2, <2>3, StepTypes
  <2>5. Registers'
    BY <2>2, <2>3 DEF Step, Registers, TypeOK
  <2> QED
    BY <2>3, <2>4, <2>5 DEF TypeOK, CallState
<1> QED
  BY <1>2, <1>3, <1>4, <1>5

\* Every step of every call keeps the types.
LEMMA StepType == TypeInv /\ [Next]_vars => TypeInv'
<1> SUFFICES ASSUME TypeInv, [Next]_vars PROVE TypeInv'
  OBVIOUS
<1> USE RegistryAssumption DEF TypeInv
<1>1. ASSUME RowsEdited, UNCHANGED <<lastId, now, proved>>,
             call' \in [Calls -> CallState], Registers'
      PROVE  TypeInv'
  BY <1>1 DEF RowsEdited, TypeOK, CallState
<1>2. ASSUME NEW c \in Calls, Step(c, Returned)
      PROVE  call' \in [Calls -> CallState] /\ Registers'
  <2>1. Returned \in CallState /\ Returned.pc = "done"
    BY DEF CallState, Returned
  <2> QED
    BY <1>2, <2>1, StepTypes DEF Step, Registers, TypeOK
<1>3. ASSUME NEW c \in Calls, ProcessPeerLogin(c) PROVE TypeInv'
  BY <1>1, <1>2, <1>3, UpdatesEdit DEF ProcessPeerLogin
<1>4. ASSUME NEW c \in Calls, AllocatePeerIP(c) PROVE TypeInv'
  <2> DEFINE next == Allocated(call[c], NextFreeIP, now)
  <2>1. call[c] \in Login /\ call[c].user \in Users
    BY <1>4 DEF AllocatePeerIP, TypeOK, Registers, NotBegun, Returned, Login, Removal, Endpoint
  <2>2. NextFreeIP \in Nat /\ now \in 1..MaxPeriods
    BY AllocatedAddress DEF TypeOK
  <2>3. next \in Login /\ next.user \in Users
    <3>1. now \in 0..MaxPeriods
      BY <2>2
    <3>2. \A r \in Login, a \in Nat, t \in 0..MaxPeriods :
            Allocated(r, a, t) \in Login /\ Allocated(r, a, t).user = r.user
      BY AllocatedLogin
    <3> QED
      BY <2>1, <2>2, <3>1, <3>2
  <2>4. Step(c, next) /\ UNCHANGED <<rows, lastId, now>>
    BY <1>4 DEF AllocatePeerIP, Allocated
  <2> HIDE DEF next
  <2>5. call' \in [Calls -> CallState] /\ Registers'
    BY <2>3, <2>4, StepTypes DEF CallState, Step, Registers, TypeOK
  <2>6. proved' \subseteq Machines \X Users \X (1..MaxPeriods)
    BY <1>4, <2>1, <2>2 DEF AllocatePeerIP, TypeOK, Login
  <2> QED
    BY <2>4, <2>5, <2>6 DEF TypeOK, CallState
<1>5. ASSUME NEW c \in Calls, CreatePeer(c) PROVE TypeInv'
  <2>1. Step(c, Returned) /\ UNCHANGED <<now, proved>>
    BY <1>5 DEF CreatePeer
  <2>2. CASE UNCHANGED <<rows, lastId>>
    BY <1>1, <1>2, <2>1, <2>2, OthersEdit
  <2>3. CASE rows' # rows
    <3>1. call[c].user \in Users
      BY <1>5 DEF CreatePeer, Registers
    <3>2. /\ DOMAIN rows' \subseteq 1..lastId' /\ lastId' \in 0..MaxRows
          /\ \A i \in DOMAIN rows' : rows'[i] \in Row
      BY <1>5, <2>3, <3>1, CreateTypes DEF TypeOK
    <3> QED
      BY <1>2, <2>1, <3>2 DEF TypeOK, CallState
  <2>4. UNCHANGED <<rows, lastId>> \/ rows' # rows
    <3>1. lastId + 1 \notin DOMAIN rows
      BY DEF TypeOK
    <3> QED
      BY <1>5, <3>1 DEF CreatePeer
  <2> QED
    BY <2>2, <2>3, <2>4
<1>6. ASSUME NEW c \in Calls, UpdatePeerEndpoint(c) \/ DeleteRow(c) PROVE TypeInv'
  BY <1>1, <1>2, <1>6, OthersEdit DEF UpdatePeerEndpoint, DeleteRow
<1>7. ASSUME NEW c \in Calls, LogoutPeer(c) PROVE TypeInv'
  <2> DEFINE next == IF call[c].pc = "logout" THEN Returned ELSE [pc |-> "delete", id |-> call[c].id]
  <2>1. call[c] \in Removal
    BY <1>7 DEF LogoutPeer, TypeOK, NotBegun, Returned, Login, Removal, Endpoint
  <2>2. next \in CallState /\ next.pc \notin {"allocate", "create"}
    BY <2>1 DEF CallState, Removal, Returned
  <2>3. Step(c, next) /\ UNCHANGED <<lastId, now, proved>>
    BY <1>7 DEF LogoutPeer
  <2> HIDE DEF next
  <2>4. call' \in [Calls -> CallState] /\ Registers'
    BY <2>2, <2>3, StepTypes DEF Step, Registers, TypeOK
  <2> QED
    BY <1>1, <1>7, <2>3, <2>4, UpdatesEdit
<1>8. ASSUME NEW c \in Calls, NEW i \in DOMAIN rows, DeletePeer(c, i) PROVE TypeInv'
  <2> DEFINE next == [pc |-> IF rows[i].connected THEN "evict" ELSE "delete", id |-> i]
  <2>1. i \in 1..MaxRows
    BY DEF TypeOK
  <2>2. next \in CallState /\ next.pc \notin {"allocate", "create"}
    BY <2>1 DEF CallState, Removal
  <2>3. Step(c, next) /\ UNCHANGED <<rows, lastId, now, proved>>
    BY <1>8 DEF DeletePeer
  <2> HIDE DEF next
  <2>4. call' \in [Calls -> CallState] /\ Registers'
    BY <2>2, <2>3, StepTypes DEF Step, Registers, TypeOK
  <2> QED
    BY <1>1, <2>3, <2>4, OthersEdit
<1>9. ASSUME NEW i \in DOMAIN rows, NEW b \in BOOLEAN, SetPeerConnected(i, b) \/ Disable(i) PROVE TypeInv'
  <2>1. UNCHANGED <<lastId, now, call, proved>>
    BY <1>9 DEF SetPeerConnected, Disable
  <2> QED
    BY <1>1, <1>9, <2>1, OthersEdit DEF TypeOK, CallState, Registers
<1>10. CASE Tick
  BY <1>10 DEF Tick, TypeOK, Registers
<1>11. CASE UNCHANGED vars
  BY <1>11 DEF vars, TypeOK, Registers
<1> QED
  BY <1>3, <1>4, <1>5, <1>6, <1>7, <1>8, <1>9, <1>10, <1>11, BeginTypes DEF Next

\* Type correctness of the registry: among the rest, no update of a row deleted
\* meanwhile brings it back, and no id is given out twice.
THEOREM RegistryTypeCorrect == Spec => []TypeOK
<1>1. Init => TypeInv
  BY RegistryAssumption DEF Init, TypeInv, TypeOK, Registers, NotBegun
<1>2. TypeInv => TypeOK
  BY DEF TypeInv
<1> QED
  BY <1>1, <1>2, StepType, PTL DEF Spec
-----------------------------------------------------------------------------
(* The steps that matter to the invariants below.                           *)

Logins == {"update", "allocate", "create"}

\* A step that edits or deletes rows and takes no login further than its end.
Quiet ==
    /\ RowsEdited /\ UNCHANGED lastId
    /\ \A c \in Calls : call'[c] = call[c] \/ call'[c].pc \notin Logins

\* What a step of one call does to the others: nothing.
LEMMA StepOne ==
    ASSUME TypeOK, NEW c \in Calls, NEW next, Step(c, next)
    PROVE  call'[c] = next /\ \A d \in Calls : d # c => call'[d] = call[d]
  BY DEF Step, TypeOK

\* Only LoginPeer, RegisterPeer and ProcessPeerLogin are not quiet, or change when a
\* peer was authenticated.
LEMMA StepKinds ==
    ASSUME TypeInv, [Next]_vars
    PROVE  \/ Quiet /\ AuthsKept /\ UNCHANGED proved
           \/ \E c \in Calls : ProcessPeerLogin(c) /\ Quiet
           \/ \E c \in Calls, m \in Machines, u \in Users, e \in Endpoints \cup {NoEndpoint} :
                 LoginUnknown(c, m, u, e)
           \/ \E c \in Calls, m \in Machines, u \in Users \cup {NoUser}, e \in Endpoints \cup {NoEndpoint} :
                 LoginKnown(c, m, u, e)
           \/ \E c \in Calls : AllocatePeerIP(c)
           \/ \E c \in Calls : CreatePeer(c) /\ rows' # rows
<1> USE RegistryAssumption DEF TypeInv
<1> DEFINE Nothing == Quiet /\ AuthsKept /\ UNCHANGED proved
<1>1. ASSUME NEW c \in Calls, NEW next, Step(c, next), next.pc \notin Logins,
             RowsEdited, AuthsKept, UNCHANGED <<lastId, proved>>
      PROVE  Nothing
  BY <1>1, StepOne DEF Quiet
<1>2. Returned.pc \notin Logins
  BY DEF Returned, Logins
<1>3. ASSUME NEW c \in Calls, NEW m \in Machines, NEW e \in Endpoints \cup {NoEndpoint},
             LoginUnknown(c, m, NoUser, e)
      PROVE  Nothing
  BY <1>1, <1>2, <1>3, OthersEdit DEF LoginUnknown
<1>4. ASSUME NEW c \in Calls, NEW m \in Machines, NEW u \in Users \cup {NoUser}, LoginRefused(c, m, u)
      PROVE  Nothing
  <2> DEFINE i == First(GetPeerByMachineID(m))
             next == IF ~rows[i].disabled /\ u = NoUser /\ rows[i].loggedIn
                     THEN [pc |-> "logout", id |-> i] ELSE Returned
  <2>1. next.pc \notin Logins
    BY DEF Returned, Logins
  <2>2. Step(c, next) /\ UNCHANGED <<rows, lastId, proved>>
    BY <1>4 DEF LoginRefused
  <2> HIDE DEF next
  <2> QED
    BY <1>1, <2>1, <2>2, OthersEdit
<1>5. ASSUME NEW c \in Calls, NEW m \in Machines, NEW e \in Endpoints, UpdateEndpoint(c, m, e)
      PROVE  Nothing
  <2> DEFINE i == First(GetPeerByMachineID(m))
             next == IF MayAct(rows[i]) THEN [pc |-> "endpoint", id |-> i, endpoint |-> e] ELSE Returned
  <2>1. next.pc \notin Logins
    BY DEF Returned, Logins
  <2>2. Step(c, next) /\ UNCHANGED <<rows, lastId, proved>>
    BY <1>5 DEF UpdateEndpoint
  <2> HIDE DEF next
  <2> QED
    BY <1>1, <2>1, <2>2, OthersEdit
<1>6. ASSUME NEW c \in Calls, ProcessPeerLogin(c) PROVE Quiet
  <2>1. RowsEdited
    BY <1>6, UpdatesEdit
  <2>2. Step(c, Returned) /\ UNCHANGED lastId
    BY <1>6 DEF ProcessPeerLogin
  <2> QED
    BY <1>2, <2>1, <2>2, StepOne DEF Quiet
<1>7. ASSUME NEW c \in Calls, CreatePeer(c), rows' = rows PROVE Nothing
  <2>1. lastId + 1 \notin DOMAIN rows
    BY DEF TypeOK
  <2>2. UNCHANGED lastId
    BY <1>7, <2>1 DEF CreatePeer
  <2>3. Step(c, Returned) /\ UNCHANGED proved
    BY <1>7 DEF CreatePeer
  <2> QED
    BY <1>1, <1>2, <1>7, <2>2, <2>3, OthersEdit
<1>8. ASSUME NEW c \in Calls, UpdatePeerEndpoint(c) \/ DeleteRow(c) PROVE Nothing
  <2>1. Step(c, Returned) /\ UNCHANGED <<lastId, proved>>
    BY <1>8 DEF UpdatePeerEndpoint, DeleteRow
  <2> QED
    BY <1>1, <1>2, <1>8, <2>1, OthersEdit
<1>9. ASSUME NEW c \in Calls, LogoutPeer(c) PROVE Nothing
  <2> DEFINE next == IF call[c].pc = "logout" THEN Returned ELSE [pc |-> "delete", id |-> call[c].id]
  <2>1. next.pc \notin Logins
    BY DEF Returned, Logins
  <2>2. Step(c, next) /\ UNCHANGED <<lastId, proved>>
    BY <1>9 DEF LogoutPeer
  <2> HIDE DEF next
  <2> QED
    BY <1>1, <1>9, <2>1, <2>2, UpdatesEdit
<1>10. ASSUME NEW c \in Calls, NEW i \in DOMAIN rows, DeletePeer(c, i) PROVE Nothing
  <2> DEFINE next == [pc |-> IF rows[i].connected THEN "evict" ELSE "delete", id |-> i]
  <2>1. next.pc \notin Logins
    BY DEF Logins
  <2>2. Step(c, next) /\ UNCHANGED <<rows, lastId, proved>>
    BY <1>10 DEF DeletePeer
  <2> HIDE DEF next
  <2> QED
    BY <1>1, <2>1, <2>2, OthersEdit
<1>11. ASSUME NEW i \in DOMAIN rows, NEW b \in BOOLEAN, SetPeerConnected(i, b) \/ Disable(i) PROVE Nothing
  <2>1. UNCHANGED <<lastId, call, proved>>
    BY <1>11 DEF SetPeerConnected, Disable
  <2> QED
    BY <1>11, <2>1, OthersEdit DEF Quiet
<1>12. ASSUME Tick \/ UNCHANGED vars PROVE Nothing
  <2>1. UNCHANGED <<rows, lastId, call, proved>>
    BY <1>12 DEF Tick, vars
  <2> QED
    BY <2>1, OthersEdit DEF Quiet
<1> QED
  BY <1>3, <1>4, <1>5, <1>6, <1>7, <1>8, <1>9, <1>10, <1>11, <1>12 DEF Next

-----------------------------------------------------------------------------
(* Authentication.                                                          *)

\* What a login in progress is going to write was proved: a registration writes its
\* own row, ProcessPeerLogin the row that LoginPeer read, which still belongs to
\* the same machine and user if it is there at all.
AuthCalls ==
    \A c \in Calls :
        /\ call[c].pc = "create" => <<call[c].machine, call[c].user, call[c].lastAuth>> \in proved
        /\ call[c].pc = "update" =>
             /\ call[c].id \in 1..lastId
             /\ call[c].id \in DOMAIN rows =>
                  <<rows[call[c].id].machine, rows[call[c].id].user, call[c].lastAuth>> \in proved

\* An inductive invariant for AuthProved.
AuthInv == TypeInv /\ AuthProved /\ AuthCalls

\* No step of any call breaks what the rows and the logins in progress say about
\* authentication.
LEMMA StepAuth == AuthInv /\ [Next]_vars => AuthInv'
<1> SUFFICES ASSUME AuthInv, [Next]_vars PROVE AuthProved' /\ AuthCalls'
  BY StepType DEF AuthInv
<1> USE RegistryAssumption
<1>0. TypeInv /\ TypeOK /\ Registers
  BY DEF AuthInv, TypeInv
<1>1. CASE Quiet /\ AuthsKept /\ UNCHANGED proved
  <2>1. AuthProved'
    BY <1>1 DEF AuthInv, AuthProved, Quiet, RowsEdited, AuthsKept
  <2>2. AuthCalls'
    BY <1>1, ZenonT(60) DEF AuthInv, AuthCalls, Quiet, Logins, RowsEdited
  <2> QED
    BY <2>1, <2>2
<1>2. ASSUME NEW c \in Calls, NEW m \in Machines, NEW u \in Users,
             NEW e \in Endpoints \cup {NoEndpoint}, LoginUnknown(c, m, u, e)
      PROVE  AuthProved' /\ AuthCalls'
  <2>1. UNCHANGED <<rows, lastId, proved>> /\ call'[c].pc = "allocate"
    BY <1>0, <1>2, StepOne DEF LoginUnknown
  <2>2. \A d \in Calls : d # c => call'[d] = call[d]
    BY <1>0, <1>2, StepOne DEF LoginUnknown
  <2> QED
    BY <2>1, <2>2 DEF AuthInv, AuthProved, AuthCalls
<1>3. ASSUME NEW c \in Calls, NEW m \in Machines, NEW u \in Users \cup {NoUser},
             NEW e \in Endpoints \cup {NoEndpoint}, LoginKnown(c, m, u, e)
      PROVE  AuthProved' /\ AuthCalls'
  <2> DEFINE i == First(GetPeerByMachineID(m))
             auth == IF IsAuthExpired(rows[i]) THEN now ELSE rows[i].lastAuth
  <2>1. i \in DOMAIN rows /\ i \in 1..lastId /\ rows[i].machine = m
    BY <1>0, <1>3, FirstRow DEF LoginKnown
  <2>2. /\ call'[c].pc = "update" /\ call'[c].id = i /\ call'[c].lastAuth = auth
        /\ \A d \in Calls : d # c => call'[d] = call[d]
    BY <1>0, <1>3, StepOne DEF LoginKnown
  <2>3. UNCHANGED <<rows, lastId>> /\ proved \subseteq proved'
    BY <1>3 DEF LoginKnown
  <2>4. <<rows[i].machine, rows[i].user, auth>> \in proved'
    <3>1. CASE IsAuthExpired(rows[i])
      BY <1>3, <2>1, <3>1 DEF LoginKnown
    <3>2. CASE ~IsAuthExpired(rows[i])
      BY <2>1, <2>3, <3>2 DEF AuthInv, AuthProved
    <3> QED
      BY <3>1, <3>2
  <2> HIDE DEF i, auth
  <2>5. AuthProved'
    BY <2>3 DEF AuthInv, AuthProved
  <2>6. AuthCalls'
    BY <2>1, <2>2, <2>3, <2>4 DEF AuthInv, AuthCalls
  <2> QED
    BY <2>5, <2>6
<1>4. ASSUME NEW c \in Calls, ProcessPeerLogin(c), Quiet PROVE AuthProved' /\ AuthCalls'
  <2>1. /\ RowsEdited
        /\ \A j \in DOMAIN rows' : \/ rows'[j].lastAuth = rows[j].lastAuth
                                   \/ j = call[c].id /\ rows'[j].lastAuth = call[c].lastAuth
    BY <1>0, <1>4, UpdatesEdit
  <2>2. UNCHANGED <<lastId, proved>> /\ call'[c] = Returned /\ \A d \in Calls : d # c => call'[d] = call[d]
    BY <1>4, <1>0, StepOne DEF ProcessPeerLogin
  <2>3. \A j \in DOMAIN rows : j = call[c].id => <<rows[j].machine, rows[j].user, call[c].lastAuth>> \in proved
    BY <1>4 DEF AuthInv, AuthCalls, ProcessPeerLogin
  <2>4. AuthProved'
    BY <2>1, <2>2, <2>3 DEF AuthInv, AuthProved, RowsEdited
  <2>5. AuthCalls'
    <3>1. call'[c].pc = "done"
      BY <2>2 DEF Returned
    <3> QED
      <4> SUFFICES ASSUME NEW d \in Calls, d # c, call'[d] = call[d], call[d].pc = "update",
                          call[d].id \in DOMAIN rows'
                   PROVE  <<rows'[call[d].id].machine, rows'[call[d].id].user, call[d].lastAuth>> \in proved
        BY <2>2, <3>1 DEF AuthInv, AuthCalls
      <4>1. call[d].id \in DOMAIN rows
        BY <2>1 DEF RowsEdited
      <4>2. <<rows[call[d].id].machine, rows[call[d].id].user, call[d].lastAuth>> \in proved
        BY <4>1 DEF AuthInv, AuthCalls
      <4> QED
        BY <2>1, <4>2 DEF RowsEdited
  <2> QED
    BY <2>4, <2>5
<1>5. ASSUME NEW c \in Calls, AllocatePeerIP(c) PROVE AuthProved' /\ AuthCalls'
  <2>1. call[c] \in Login
    BY <1>0, <1>5 DEF AllocatePeerIP, TypeOK, NotBegun, Returned, Login, Removal, Endpoint
  <2>2. /\ call'[c].pc = "create" /\ call'[c].machine = call[c].machine /\ call'[c].user = call[c].user
        /\ call'[c].lastAuth = now
        /\ \A d \in Calls : d # c => call'[d] = call[d]
    <3>1. NextFreeIP \in Nat /\ now \in 0..MaxPeriods
      BY <1>0, AllocatedAddress DEF TypeOK
    <3> DEFINE next == Allocated(call[c], NextFreeIP, now)
    <3>2. /\ next.pc = "create" /\ next.machine = call[c].machine /\ next.user = call[c].user
          /\ next.lastAuth = now
      BY <2>1, <3>1, AllocatedLogin
    <3>3. Step(c, next)
      BY <1>5 DEF AllocatePeerIP, Allocated
    <3> HIDE DEF next
    <3> QED
      BY <1>0, StepOne, <3>2, <3>3
  <2>3. /\ UNCHANGED <<rows, lastId>> /\ proved \subseteq proved'
        /\ <<call[c].machine, call[c].user, now>> \in proved'
    BY <1>5 DEF AllocatePeerIP
  <2>4. AuthProved'
    BY <2>3 DEF AuthInv, AuthProved
  <2>5. AuthCalls'
    BY <2>2, <2>3 DEF AuthInv, AuthCalls
  <2> QED
    BY <2>4, <2>5
<1>6. ASSUME NEW c \in Calls, CreatePeer(c), rows' # rows PROVE AuthProved' /\ AuthCalls'
  <2>0. UNCHANGED proved /\ call'[c] = Returned /\ \A d \in Calls : d # c => call'[d] = call[d]
    BY <1>0, <1>6, StepOne DEF CreatePeer
  <2>1. call[c].user \in Users
    BY <1>0, <1>6 DEF CreatePeer, Registers
  <2>2. /\ rows'[lastId + 1].machine = call[c].machine
        /\ rows'[lastId + 1].user = call[c].user
        /\ rows'[lastId + 1].lastAuth = call[c].lastAuth
        /\ lastId' = lastId + 1
        /\ DOMAIN rows' = DOMAIN rows \cup {lastId + 1}
        /\ \A i \in DOMAIN rows : rows'[i] = rows[i]
    BY <1>0, <1>6, <2>1, CreateTypes
  <2>3. <<call[c].machine, call[c].user, call[c].lastAuth>> \in proved
    BY <1>6 DEF AuthInv, AuthCalls, CreatePeer
  <2>4. AuthProved'
    BY <2>0, <2>2, <2>3 DEF AuthInv, AuthProved
  <2>5. lastId \in Nat
    BY <1>0 DEF TypeOK
  <2>6. call'[c].pc = "done"
    BY <2>0 DEF Returned
  <2>7. AuthCalls'
    <3> SUFFICES ASSUME NEW d \in Calls, d # c, call'[d] = call[d], call[d].pc = "update"
                 PROVE  /\ call[d].id \in 1..lastId'
                        /\ call[d].id \in DOMAIN rows' =>
                             <<rows'[call[d].id].machine, rows'[call[d].id].user, call[d].lastAuth>> \in proved
      BY <2>0, <2>6 DEF AuthInv, AuthCalls
    <3>1. call[d].id \in 1..lastId
      BY DEF AuthInv, AuthCalls
    <3>2. call[d].id # lastId + 1
      BY <2>5, <3>1
    <3>3. call[d].id \in 1..lastId'
      BY <2>2, <2>5, <3>1
    <3> QED
      BY <2>2, <3>2, <3>3 DEF AuthInv, AuthCalls
  <2> QED
    BY <2>4, <2>7
<1> QED
  BY <1>0, <1>1, <1>2, <1>3, <1>4, <1>5, <1>6, StepKinds

\* What the table says about who authenticated a machine last really happened,
\* whatever logins, registrations and deletions overlap (LoginPeer, RegisterPeer and
\* ProcessPeerLogin).
THEOREM AuthenticationReal == Spec => []AuthProved
<1>1. Init => AuthInv
  BY RegistryAssumption DEF Init, AuthInv, TypeInv, TypeOK, Registers, NotBegun, AuthProved, AuthCalls
<1>2. AuthInv => AuthProved
  BY DEF AuthInv
<1> QED
  BY <1>1, <1>2, StepAuth, PTL DEF Spec
-----------------------------------------------------------------------------
(* What logins never undo.                                                  *)

\* A peer keeps its endpoint and stays disabled, whatever old row a login writes back
\* (ProcessPeerLogin updates a struct, whose zero fields gorm leaves alone).
THEOREM NothingIsForgotten == Spec => NothingForgotten
<1> DEFINE Kept == \A i \in DOMAIN rows \cap DOMAIN rows' :
                      /\ rows[i].endpoint # NoEndpoint => rows'[i].endpoint # NoEndpoint
                      /\ rows[i].disabled => rows'[i].disabled
<1>1. Init => TypeInv
  BY RegistryAssumption DEF Init, TypeInv, TypeOK, Registers, NotBegun
<1>2. TypeInv /\ [Next]_vars => [Kept]_vars
  <2> SUFFICES ASSUME TypeInv, [Next]_vars PROVE Kept
    OBVIOUS
  <2>1. CASE RowsEdited
    BY <2>1 DEF RowsEdited
  <2>2. CASE \E c \in Calls : CreatePeer(c) /\ rows' # rows
    BY <2>2, CreateTypes DEF TypeInv
  <2>3. CASE rows' = rows
    BY <2>3
  <2> QED
    BY <2>1, <2>2, <2>3, StepKinds DEF Quiet, LoginUnknown, LoginKnown, AllocatePeerIP
<1> QED
  BY <1>1, <1>2, StepType, PTL DEF Spec, NothingForgotten

-----------------------------------------------------------------------------
(* One row for a machine.                                                   *)

\* A patient machine has one login in progress at most, and none of its rows is
\* there while it is being registered.
LoginsApart ==
    \A c, d \in Calls :
        call[c].pc \in Logins /\ call[d].pc \in Logins
        /\ call[c].machine = call[d].machine /\ call[c].machine \in Patient => c = d

NotYetThere ==
    \A c \in Calls : call[c].pc \in {"allocate", "create"} /\ call[c].machine \in Patient =>
        \A i \in DOMAIN rows : rows[i].machine # call[c].machine

\* An inductive invariant for RegisteredOnce.
RegisterInv == TypeInv /\ RegisteredOnce /\ LoginsApart /\ NotYetThere

\* No step of any call registers a patient machine a second time.
LEMMA StepRegister == RegisterInv /\ [Next]_vars => RegisterInv'
<1> SUFFICES ASSUME RegisterInv, [Next]_vars PROVE RegisteredOnce' /\ LoginsApart' /\ NotYetThere'
  BY StepType DEF RegisterInv
<1> USE RegistryAssumption DEF RegisterInv
<1>0. TypeInv /\ TypeOK /\ Registers
  BY DEF TypeInv
<1>1. ASSUME UNCHANGED rows PROVE RegisteredOnce'
  BY <1>1 DEF RegisteredOnce
<1>2. CASE Quiet
  <2>1. RegisteredOnce'
    BY <1>2 DEF RegisteredOnce, Quiet, RowsEdited
  <2>2. LoginsApart'
    BY <1>2 DEF LoginsApart, Quiet
  <2>3. NotYetThere'
    BY <1>2 DEF NotYetThere, Quiet, RowsEdited, Logins
  <2> QED
    BY <2>1, <2>2, <2>3
<1>3. ASSUME NEW c \in Calls, NEW m \in Machines, NEW u \in Users,
             NEW e \in Endpoints \cup {NoEndpoint}, LoginUnknown(c, m, u, e)
      PROVE  RegisteredOnce' /\ LoginsApart' /\ NotYetThere'
  <2>1. call'[c].pc = "allocate" /\ call'[c].machine = m /\ \A d \in Calls : d # c => call'[d] = call[d]
    BY <1>0, <1>3, StepOne DEF LoginUnknown
  <2>2. UNCHANGED rows /\ Free(m) /\ \A i \in DOMAIN rows : rows[i].machine # m
    BY <1>3 DEF LoginUnknown, GetPeerByMachineID
  <2>3. LoginsApart'
    BY <2>1, <2>2 DEF LoginsApart, Logins, Free
  <2>4. NotYetThere'
    BY <2>1, <2>2 DEF NotYetThere
  <2> QED
    BY <1>1, <2>2, <2>3, <2>4
<1>4. ASSUME NEW c \in Calls, NEW m \in Machines, NEW u \in Users \cup {NoUser},
             NEW e \in Endpoints \cup {NoEndpoint}, LoginKnown(c, m, u, e)
      PROVE  RegisteredOnce' /\ LoginsApart' /\ NotYetThere'
  <2>1. call'[c].pc = "update" /\ call'[c].machine = m /\ \A d \in Calls : d # c => call'[d] = call[d]
    BY <1>0, <1>4, StepOne DEF LoginKnown
  <2>2. UNCHANGED rows /\ Free(m)
    BY <1>4 DEF LoginKnown
  <2>3. LoginsApart'
    BY <2>1, <2>2 DEF LoginsApart, Logins, Free
  <2>4. NotYetThere'
    BY <2>1, <2>2 DEF NotYetThere
  <2> QED
    BY <1>1, <2>2, <2>3, <2>4
<1>5. ASSUME NEW c \in Calls, AllocatePeerIP(c)
      PROVE  RegisteredOnce' /\ LoginsApart' /\ NotYetThere'
  <2> DEFINE next == Allocated(call[c], NextFreeIP, now)
  <2>1. call[c] \in Login /\ call[c].pc = "allocate"
    BY <1>0, <1>5 DEF AllocatePeerIP, TypeOK, NotBegun, Returned, Login, Removal, Endpoint
  <2>2. NextFreeIP \in Nat /\ now \in 0..MaxPeriods
    BY <1>0, AllocatedAddress DEF TypeOK
  <2>3. next.pc = "create" /\ next.machine = call[c].machine
    BY <2>1, <2>2, AllocatedLogin
  <2>4. Step(c, next) /\ UNCHANGED rows
    BY <1>5 DEF AllocatePeerIP, Allocated
  <2> HIDE DEF next
  <2>5. call'[c].pc = "create" /\ call'[c].machine = call[c].machine
    BY <1>0, <2>3, <2>4, StepOne
  <2>6. \A d \in Calls : d # c => call'[d] = call[d]
    BY <1>0, <2>4, StepOne
  <2>7. LoginsApart'
    BY <2>1, <2>5, <2>6 DEF LoginsApart, Logins
  <2>8. NotYetThere'
    BY <2>1, <2>4, <2>5, <2>6 DEF NotYetThere
  <2> QED
    BY <1>1, <2>4, <2>7, <2>8
<1>6. ASSUME NEW c \in Calls, CreatePeer(c), rows' # rows
      PROVE  RegisteredOnce' /\ LoginsApart' /\ NotYetThere'
  <2>1. call'[c].pc = "done" /\ \A d \in Calls : d # c => call'[d] = call[d]
    BY <1>0, <1>6, StepOne DEF CreatePeer, Returned
  <2>2. call[c].pc = "create" /\ call[c].user \in Users
    BY <1>0, <1>6 DEF CreatePeer, Registers
  <2>3. /\ rows'[lastId + 1].machine = call[c].machine
        /\ DOMAIN rows' = DOMAIN rows \cup {lastId + 1}
        /\ \A i \in DOMAIN rows : rows'[i] = rows[i]
    BY <1>0, <1>6, <2>2, CreateTypes
  <2>4. call[c].machine \in Patient => \A i \in DOMAIN rows : rows[i].machine # call[c].machine
    BY <2>2 DEF NotYetThere
  <2>5. RegisteredOnce'
    BY <2>3, <2>4 DEF RegisteredOnce
  <2>6. LoginsApart'
    BY <2>1 DEF LoginsApart, Logins
  <2>7. NotYetThere'
    <3> SUFFICES ASSUME NEW d \in Calls, call'[d].pc \in {"allocate", "create"}, call'[d].machine \in Patient,
                        NEW i \in DOMAIN rows'
                 PROVE  rows'[i].machine # call'[d].machine
      BY DEF NotYetThere
    <3>1. d # c /\ call'[d] = call[d]
      BY <2>1
    <3>2. call[d].machine # call[c].machine
      BY <2>2, <3>1 DEF LoginsApart, Logins
    <3>3. i \in DOMAIN rows => rows[i].machine # call[d].machine
      BY <3>1 DEF NotYetThere
    <3> QED
      BY <2>3, <3>1, <3>2, <3>3
  <2> QED
    BY <2>5, <2>6, <2>7
<1> QED
  BY <1>0, <1>2, <1>3, <1>4, <1>5, <1>6, StepKinds

\* A machine that waits for its answers has one row at most, although the database has
\* no index that sees to it (LoginPeer asks GetPeerByMachineID first).
THEOREM RegistersOnce == Spec => []RegisteredOnce
<1>1. Init => RegisterInv
  BY RegistryAssumption DEF Init, RegisterInv, TypeInv, TypeOK, Registers, NotBegun,
     RegisteredOnce, LoginsApart, NotYetThere, Logins
<1>2. RegisterInv => RegisteredOnce
  BY DEF RegisterInv
<1> QED
  BY <1>1, <1>2, StepRegister, PTL DEF Spec

-----------------------------------------------------------------------------
(* Tunnel addresses.                                                        *)

\* The unique index is all that keeps two peers from the same address.
LEMMA StepDistinct == TypeInv /\ AddressesDistinct /\ [Next]_vars => AddressesDistinct'
<1> SUFFICES ASSUME TypeInv, AddressesDistinct, [Next]_vars PROVE AddressesDistinct'
  OBVIOUS
<1>1. CASE RowsEdited
  BY <1>1 DEF RowsEdited, AddressesDistinct
<1>2. ASSUME NEW c \in Calls, CreatePeer(c), rows' # rows PROVE AddressesDistinct'
  <2>1. call[c].user \in Users
    BY <1>2 DEF CreatePeer, TypeInv, Registers
  <2>2. /\ rows'[lastId + 1].ip = call[c].ip
        /\ DOMAIN rows' = DOMAIN rows \cup {lastId + 1}
        /\ \A i \in DOMAIN rows : rows'[i] = rows[i] /\ rows[i].ip # call[c].ip
    BY <1>2, <2>1, CreateTypes DEF TypeInv
  <2> QED
    BY <2>2 DEF AddressesDistinct
<1>3. CASE rows' = rows
  BY <1>3 DEF AddressesDistinct
<1> QED
  BY <1>1, <1>2, <1>3, StepKinds DEF Quiet, LoginUnknown, LoginKnown, AllocatePeerIP

\* The host addresses that AllocatePeerIP may give out.
Hosts == (Base .. Bcast) \ {0, Bcast}

\* The prefix has a host address for every row that is ever created.
Room == MaxRows <= Cardinality(Hosts)

\* A registration that can still create a row holds a host address.
HoldsHost == lastId < MaxRows => \A c \in Calls : call[c].pc = "create" => call[c].ip \in Hosts

\* An inductive invariant for AddressesSound.
AddressInv == TypeInv /\ AddressesDistinct /\ AddressesInPrefix /\ HoldsHost

\* With a free host address, AllocatePeerIP finds one.
LEMMA AllocatesHost ==
    ASSUME TypeOK, Room, lastId < MaxRows
    PROVE  NextFreeIP \in Hosts
<1> USE RegistryAssumption
<1>1. IsFiniteSet(Hosts) /\ Cardinality(Hosts) \in Nat
  <2>1. IsFiniteSet(Base .. Bcast)
    BY FS_Interval
  <2>2. IsFiniteSet(Hosts)
    BY <2>1, FS_Subset DEF Hosts
  <2> QED
    BY <2>2, FS_CardinalityType
<1>2. lastId < Cardinality(Hosts)
  BY <1>1 DEF Room, TypeOK
<1>3. Hosts \in SUBSET Nat
  BY DEF Hosts
<1>4. PICK a \in Hosts : \A i \in DOMAIN rows : rows[i].ip # a
  BY <1>1, <1>2, <1>3, FreeAddress
<1>5. a \in Base .. Bcast + MaxRows + 1 /\ a \notin {0, Bcast} /\ a <= Bcast /\ a \in Nat
  BY DEF Hosts
<1>6. NextFreeIP \in Nat /\ Base <= NextFreeIP /\ NextFreeIP <= a /\ NextFreeIP \notin {0, Bcast}
  BY <1>4, <1>5, AllocatedAddress
<1> QED
  BY <1>5, <1>6 DEF Hosts

\* While the prefix has room, every address given out is a host address.
LEMMA StepAddress == Room /\ AddressInv /\ [Next]_vars => AddressInv'
<1> SUFFICES ASSUME Room, AddressInv, [Next]_vars PROVE AddressesInPrefix' /\ HoldsHost'
  BY StepType, StepDistinct DEF AddressInv
<1> USE RegistryAssumption DEF AddressInv
<1>0. TypeInv /\ TypeOK /\ Registers
  BY DEF TypeInv
<1>1. ASSUME UNCHANGED rows PROVE AddressesInPrefix'
  BY <1>1 DEF AddressesInPrefix
<1>2. CASE Quiet
  <2>1. AddressesInPrefix'
    BY <1>2 DEF AddressesInPrefix, Quiet, RowsEdited
  <2>2. HoldsHost'
    BY <1>2 DEF HoldsHost, Quiet, Logins
  <2> QED
    BY <2>1, <2>2
<1>3. ASSUME NEW c \in Calls, NEW m \in Machines, NEW u \in Users,
             NEW e \in Endpoints \cup {NoEndpoint}, LoginUnknown(c, m, u, e)
      PROVE  AddressesInPrefix' /\ HoldsHost'
  <2>1. call'[c].pc = "allocate" /\ \A d \in Calls : d # c => call'[d] = call[d]
    BY <1>0, <1>3, StepOne DEF LoginUnknown
  <2>2. UNCHANGED <<rows, lastId>>
    BY <1>3 DEF LoginUnknown
  <2> QED
    BY <1>1, <2>1, <2>2 DEF HoldsHost
<1>4. ASSUME NEW c \in Calls, NEW m \in Machines, NEW u \in Users \cup {NoUser},
             NEW e \in Endpoints \cup {NoEndpoint}, LoginKnown(c, m, u, e)
      PROVE  AddressesInPrefix' /\ HoldsHost'
  <2>1. call'[c].pc = "update" /\ \A d \in Calls : d # c => call'[d] = call[d]
    BY <1>0, <1>4, StepOne DEF LoginKnown
  <2>2. UNCHANGED <<rows, lastId>>
    BY <1>4 DEF LoginKnown
  <2> QED
    BY <1>1, <2>1, <2>2 DEF HoldsHost
<1>5. ASSUME NEW c \in Calls, AllocatePeerIP(c) PROVE AddressesInPrefix' /\ HoldsHost'
  <2> DEFINE next == Allocated(call[c], NextFreeIP, now)
  <2>1. call[c] \in Login
    BY <1>0, <1>5 DEF AllocatePeerIP, TypeOK, NotBegun, Returned, Login, Removal, Endpoint
  <2>2. NextFreeIP \in Nat /\ now \in 0..MaxPeriods
    BY <1>0, AllocatedAddress DEF TypeOK
  <2>3. next.ip = NextFreeIP
    BY <2>1, <2>2, AllocatedLogin, ZenonT(60)
  <2>4. Step(c, next) /\ UNCHANGED <<rows, lastId>>
    BY <1>5 DEF AllocatePeerIP, Allocated
  <2> HIDE DEF next
  <2>5. call'[c].ip = NextFreeIP /\ \A d \in Calls : d # c => call'[d] = call[d]
    BY <1>0, <2>3, <2>4, StepOne
  <2>6. HoldsHost'
    BY <1>0, <2>4, <2>5, AllocatesHost DEF HoldsHost
  <2> QED
    BY <1>1, <2>4, <2>6
<1>6. ASSUME NEW c \in Calls, CreatePeer(c), rows' # rows PROVE AddressesInPrefix' /\ HoldsHost'
  <2>1. call'[c].pc = "done" /\ \A d \in Calls : d # c => call'[d] = call[d]
    BY <1>0, <1>6, StepOne DEF CreatePeer, Returned
  <2>2. call[c].pc = "create" /\ call[c].user \in Users
    BY <1>0, <1>6 DEF CreatePeer, Registers
  <2>3. /\ rows'[lastId + 1].ip = call[c].ip
        /\ lastId < MaxRows /\ lastId' = lastId + 1
        /\ DOMAIN rows' = DOMAIN rows \cup {lastId + 1}
        /\ \A i \in DOMAIN rows : rows'[i] = rows[i]
    BY <1>0, <1>6, <2>2, CreateTypes
  <2>4. call[c].ip \in Hosts
    BY <2>2, <2>3 DEF HoldsHost
  <2>5. AddressesInPrefix'
    BY <2>3, <2>4 DEF AddressesInPrefix, Hosts
  <2>6. HoldsHost'
    BY <2>1, <2>3 DEF HoldsHost
  <2> QED
    BY <2>5, <2>6
<1> QED
  BY <1>0, <1>2, <1>3, <1>4, <1>5, <1>6, StepKinds

\* No two peers ever have the same tunnel address, however registrations overlap
\* (AllocatePeerIP reads, CreatePeer writes later; only the unique index helps).
THEOREM AddressesUnique == Spec => []AddressesDistinct
<1>1. Init => TypeInv /\ AddressesDistinct
  BY RegistryAssumption DEF Init, TypeInv, TypeOK, Registers, NotBegun, AddressesDistinct
<1> QED
  BY <1>1, StepType, StepDistinct, PTL DEF Spec

\* While the prefix has a host address for every row ever created, every peer has a
\* host address of its own.  Without that room AllocatePeerIP, whose loop does not
\* stop at the end of the prefix, gives out addresses beyond it.
THEOREM AddressesAreSound ==
    ASSUME Room
    PROVE  Spec => []AddressesSound
<1>1. Init => AddressInv
  BY RegistryAssumption DEF Init, AddressInv, TypeInv, TypeOK, Registers, NotBegun,
     AddressesDistinct, AddressesInPrefix, HoldsHost
<1>2. AddressInv /\ [Next]_vars => AddressInv'
  BY Room, StepAddress
<1>3. AddressInv => AddressesSound
  BY DEF AddressInv, TypeInv, AddressesSound
<1> QED
  BY <1>1, <1>2, <1>3, PTL DEF Spec
===============================================================================
