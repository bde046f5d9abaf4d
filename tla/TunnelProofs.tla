---------------------------- MODULE TunnelProofs ----------------------------
(***************************************************************************)
(* Theorems about Tunnel, for any two nodes and any values of the bounds.   *)
(***************************************************************************)
EXTENDS Tunnel, TLAPS

\* Other(n) is the second node.
LEMMA OtherNode ==
    \A n \in Nodes : /\ Other(n) \in Nodes
                     /\ Other(n) # n
                     /\ \A m \in Nodes : m # n => m = Other(n)
<1> SUFFICES ASSUME NEW n \in Nodes
             PROVE  /\ Other(n) \in Nodes
                    /\ Other(n) # n
                    /\ \A m \in Nodes : m # n => m = Other(n)
    OBVIOUS
<1>1. \E m \in Nodes : m # n
    BY NodesAssumption
<1>2. Other(n) \in Nodes /\ Other(n) # n
    BY <1>1 DEF Other
<1> QED
    BY <1>2, NodesAssumption

-----------------------------------------------------------------------------
(* Type correctness.                                                        *)

\* The methods of Peer that change nothing else return a Peer.
LEMMA MethodTypes ==
    ASSUME NEW p \in Peer, NEW e \in Nat
    PROVE  /\ ResetState(p) \in Peer
           /\ StartHandshake(p, e) \in Peer
           /\ CompleteHandshake(p, e) \in Peer
           /\ RespondHandshake(p, e) \in Peer
<1>1. NoCipher \in Cipher /\ Key(e, "i2r") \in Cipher /\ Key(e, "r2i") \in Cipher
    BY DEF NoCipher, Key, Cipher
<1>2. ResetState(p) \in Peer
  <2>1. ASSUME NEW x \in SUBSET Timers, NEW c \in Cipher, NEW q \in Seq(Nat)
        PROVE  [p EXCEPT !.retries = 0, !.armed = x, !.outbound = q, !.hs = 0,
                         !.rx = c, !.tx = c, !.initiator = FALSE,
                         !.state = 0, !.inTransport = FALSE] \in Peer
      BY DEF Peer
  <2>2. p.armed \ {"receivedPacket", "keepalive"} \in SUBSET Timers /\ <<>> \in Seq(Nat)
      BY DEF Peer
  <2> QED
      BY <1>1, <2>1, <2>2 DEF ResetState, NoHandshake
<1>3. StartHandshake(p, e) \in Peer
  <2>1. ASSUME NEW x \in SUBSET Timers
        PROVE  [p EXCEPT !.initiator = TRUE, !.hs = e, !.state = 1, !.armed = x] \in Peer
      BY DEF Peer
  <2>2. p.armed \union {"handshakeSent"} \in SUBSET Timers
      BY DEF Peer, Timers
  <2> QED
      BY <2>1, <2>2 DEF StartHandshake
<1>4. CompleteHandshake(p, e) \in Peer
    BY <1>1 DEF CompleteHandshake, Peer, NoHandshake
<1>5. RespondHandshake(p, e) \in Peer
    BY <1>1 DEF RespondHandshake, Peer
<1> QED
    BY <1>2, <1>3, <1>4, <1>5

\* The end of each case of Handshake returns a Peer.
LEMMA FinishTypes ==
    ASSUME NEW p \in Peer, NEW case \in {0, 1, 2}
    PROVE  FinishHandshake(p, case) \in Peer
<1> DEFINE x == (p.armed \ {"handshakeSent"}) \union
                IF case = 2 THEN {"keepalive", "receivedPacket"} ELSE {"keepalive"}
<1>1. ASSUME NEW y \in SUBSET Timers
      PROVE  [p EXCEPT !.state = 2, !.inTransport = TRUE, !.pendingLock = FALSE,
                       !.retries = 0, !.armed = y] \in Peer
    BY DEF Peer
<1>2. x \in SUBSET Timers
    BY DEF Peer, Timers
<1> QED
    BY <1>1, <1>2 DEF FinishHandshake

PeerOK ==
    /\ peer \in [Nodes -> Peer]
    /\ crash \in [Nodes -> CrashReasons]

\* Storing a Peer, or ending the process, keeps peer and crash well typed.
LEMMA SharedTypes ==
    ASSUME PeerOK, NEW n \in Nodes
    PROVE  /\ \A q \in Peer : SetPeer(n, q) => PeerOK'
           /\ \A why \in CrashReasons : Crash(n, why) => PeerOK'
    BY DEF PeerOK, SetPeer, Crash

\* A retry of TrySendHandshake keeps peer and crash well typed.
LEMMA RetryTypes ==
    ASSUME PeerOK, NEW n \in Nodes, NEW p \in Peer,
           NEW caller \in {"HandshakeTimeout", "RXTimeout"},
           RetryHandshake(n, p, caller)
    PROVE  PeerOK'
<1> DEFINE q == [p EXCEPT !.retries = @ + 1]
<1>1. q \in Peer
  <2>1. p.retries + 1 \in Nat
      BY DEF Peer
  <2>2. \A x \in Nat : [p EXCEPT !.retries = x] \in Peer
      BY DEF Peer
  <2> QED
      BY <2>1, <2>2
<1>2. [q EXCEPT !.retrying = @ \union {caller}] \in Peer
    BY <1>1 DEF Peer
<1>3. [q EXCEPT !.armed = @ \ {"handshakeSent"}] \in Peer
    BY <1>1 DEF Peer
<1>4. ResetState([q EXCEPT !.armed = @ \ {"handshakeSent"}]) \in Peer
    BY <1>3, MethodTypes
<1> QED
    BY <1>2, <1>4, SharedTypes DEF RetryHandshake

\* So does sending an initiation, which is itself well typed.
LEMMA SendTypes ==
    ASSUME PeerOK, eph \in Nat, handshakes \subseteq HandshakeMsg,
           NEW n \in Nodes, NEW p \in Peer, SendHandshake(n, p)
    PROVE  PeerOK' /\ eph' \in Nat /\ handshakes' \subseteq HandshakeMsg
<1>1. StartHandshake(p, eph + 1) \in Peer
    BY MethodTypes
<1>2. Initiation(n, eph + 1) \in HandshakeMsg
    BY DEF Initiation, HandshakeMsg
<1> QED
    BY <1>1, <1>2, SharedTypes DEF SendHandshake

\* So does handshakeP2, in each of its branches.
LEMMA ConsumeTypes ==
    ASSUME PeerOK, eph \in Nat, handshakes \subseteq HandshakeMsg,
           NEW n \in Nodes, NEW p \in Peer, NEW m \in HandshakeMsg,
           NEW case \in {0, 1, 2}, ConsumeHandshake(n, p, m, case)
    PROVE  PeerOK' /\ eph' \in Nat /\ handshakes' \subseteq HandshakeMsg
<1>1. m.e \in Nat /\ m.i \in Nat /\ eph + 1 \in Nat
    BY DEF HandshakeMsg
<1>2. CompleteHandshake(p, m.e) \in Peer /\ RespondHandshake(p, eph + 1) \in Peer
    BY <1>1, MethodTypes
<1>3. /\ FinishHandshake(CompleteHandshake(p, m.e), case) \in Peer
      /\ FinishHandshake(RespondHandshake(p, eph + 1), case) \in Peer
    BY <1>2, FinishTypes
<1>4. Response(n, m.i, eph + 1) \in HandshakeMsg
    BY <1>1 DEF Response, HandshakeMsg
<1>5. {"unlock of unlocked mutex", "nil handshake", "read error"} \subseteq CrashReasons
    BY DEF CrashReasons
<1>6. PeerOK'
    BY <1>3, <1>5, SharedTypes DEF ConsumeHandshake
<1>7. eph' \in Nat /\ handshakes' \subseteq HandshakeMsg
  <2>1. CASE UNCHANGED <<eph, handshakes>>
      BY <2>1
  <2>2. CASE eph' = eph + 1 /\ handshakes' = handshakes \union {Response(n, m.i, eph + 1)}
      BY <1>1, <1>4, <2>2
  <2> QED
      BY <2>1, <2>2 DEF ConsumeHandshake
<1> QED
    BY <1>6, <1>7

\* A message received, once or once more, keeps seen and dups well typed.
LEMMA ReceiveTypes ==
    ASSUME TypeOK, NEW n \in Nodes, NEW m \in HandshakeMsg \union DataMsg, Receive(n, m)
    PROVE  seen' \subseteq HandshakeMsg \union DataMsg /\ dups' \in Nat
<1>1. seen' \subseteq HandshakeMsg \union DataMsg
    BY DEF Receive, TypeOK
<1>2. dups' \in Nat
    BY DEF Receive, TypeOK
<1> QED
    BY <1>1, <1>2

\* Two peers just started are well typed.
LEMMA TypeInit == Init => TypeOK
<1>1. NewPeer \in Peer
    BY DEF NewPeer, Peer, NoCipher, Cipher, NoHandshake, Timers
<1> QED
    BY <1>1 DEF Init, TypeOK, CrashReasons

\* The fields that no handler but one touches keep their type.
LEMMA TypeStep == TypeOK /\ [Next]_vars => TypeOK'
<1> SUFFICES ASSUME TypeOK, [Next]_vars PROVE TypeOK'
    OBVIOUS
<1>0. PeerOK /\ (PeerOK' => peer' \in [Nodes -> Peer] /\ crash' \in [Nodes -> CrashReasons])
    BY DEF TypeOK, PeerOK
<1>1. ASSUME NEW n \in Nodes, OutboundPacket(n) PROVE TypeOK'
  <2> DEFINE p == peer[n]
             q == IF Len(p.outbound) < OutboundChannelSize
                  THEN [p EXCEPT !.outbound = Append(@, pkts[n] + 1)] ELSE p
  <2>1. p \in Peer /\ pkts[n] + 1 \in Nat
      BY DEF TypeOK
  <2>2. q \in Peer
    <3>1. Append(p.outbound, pkts[n] + 1) \in Seq(Nat)
        BY <2>1 DEF Peer
    <3>2. \A x \in Seq(Nat) : [p EXCEPT !.outbound = x] \in Peer
        BY <2>1 DEF Peer
    <3> QED
        BY <2>1, <3>1, <3>2
  <2>3. [q EXCEPT !.retries = @ + 1] \in Peer
    <3> HIDE DEF q
    <3>1. q.retries + 1 \in Nat
        BY <2>2 DEF Peer
    <3>2. \A x \in Nat : [q EXCEPT !.retries = x] \in Peer
        BY <2>2 DEF Peer
    <3> QED
        BY <3>1, <3>2
  <2>4. pkts' \in [Nodes -> Nat]
      BY <1>1, <2>1 DEF OutboundPacket, TypeOK
  <2> HIDE DEF q
  <2>5. PeerOK' /\ eph' \in Nat /\ handshakes' \subseteq HandshakeMsg
    <3>1. CASE SendHandshake(n, [q EXCEPT !.retries = @ + 1])
        BY <1>0, <2>3, <3>1, SendTypes DEF TypeOK
    <3>2. CASE SetPeer(n, q) /\ UNCHANGED <<eph, handshakes>>
        BY <1>0, <2>2, <3>2, SharedTypes DEF TypeOK
    <3> QED
        BY <1>1, <3>1, <3>2 DEF OutboundPacket, q
  <2> QED
      BY <1>0, <1>1, <2>4, <2>5 DEF OutboundPacket, TypeOK
<1>2. ASSUME NEW n \in Nodes, OutboundTake(n) PROVE TypeOK'
  <2>1. peer[n] \in Peer /\ peer[n].outbound \in Seq(Nat) /\ peer[n].outbound # <<>>
      BY <1>2 DEF TypeOK, Peer, OutboundTake
  <2>2. {Head(peer[n].outbound)} \in SUBSET Nat /\ Tail(peer[n].outbound) \in Seq(Nat)
      BY <2>1
  <2>3. \A x \in SUBSET Nat, y \in Seq(Nat) :
            [peer[n] EXCEPT !.taken = x, !.outbound = y] \in Peer
      BY <2>1 DEF Peer
  <2>4. PeerOK'
      BY <1>0, <1>2, <2>2, <2>3, SharedTypes DEF OutboundTake
  <2> QED
      BY <1>0, <1>2, <2>4 DEF OutboundTake, TypeOK
<1>3. ASSUME NEW n \in Nodes, NEW k \in peer[n].taken, OutboundSend(n, k) PROVE TypeOK'
  <2> DEFINE p == peer[n]
             d == [from |-> n, key |-> p.tx, ctr |-> p.nonce, pkt |-> k]
  <2>1. p \in Peer /\ k \in Nat
      BY DEF TypeOK, Peer
  <2>2. d \in DataMsg
      BY <2>1 DEF DataMsg, Peer
  <2>3. \A x \in Nat, y \in SUBSET Timers :
            [p EXCEPT !.taken = {}, !.nonce = x, !.armed = y] \in Peer
      BY <2>1 DEF Peer
  <2>4. p.nonce + 1 \in Nat /\ p.armed \union {"keepalive"} \in SUBSET Timers
      BY <2>1 DEF Peer, Timers
  <2>5. PeerOK'
    <3>1. CASE Crash(n, "nil cipher")
        BY <1>0, <3>1, SharedTypes DEF CrashReasons
    <3>2. CASE SetPeer(n, [p EXCEPT !.taken = {}, !.nonce = @ + 1,
                                    !.armed = @ \union {"keepalive"}])
        BY <1>0, <2>3, <2>4, <3>2, SharedTypes
    <3> QED
        BY <1>3, <3>1, <3>2 DEF OutboundSend
  <2>6. datas' \subseteq DataMsg
      BY <1>3, <2>2 DEF OutboundSend, TypeOK
  <2> QED
      BY <1>0, <1>3, <2>5, <2>6 DEF OutboundSend, TypeOK
<1>4. ASSUME NEW n \in Nodes, NEW m \in datas, Inbound(n, m) PROVE TypeOK'
  <2>1. peer[n] \in Peer /\ m \in DataMsg /\ m.pkt \in Nat
      BY DEF TypeOK, DataMsg
  <2>2. [peer[n] EXCEPT !.armed = @ \union {"receivedPacket"}] \in Peer
    <3>1. peer[n].armed \union {"receivedPacket"} \in SUBSET Timers
        BY <2>1 DEF Peer, Timers
    <3>2. \A x \in SUBSET Timers : [peer[n] EXCEPT !.armed = x] \in Peer
        BY <2>1 DEF Peer
    <3> QED
        BY <3>1, <3>2
  <2>3. PeerOK'
    <3>1. CASE Crash(n, "nil cipher")
        BY <1>0, <3>1, SharedTypes DEF CrashReasons
    <3>2. CASE SetPeer(n, [peer[n] EXCEPT !.armed = @ \union {"receivedPacket"}])
        BY <1>0, <2>2, <3>2, SharedTypes
    <3>3. CASE UNCHANGED <<peer, crash>>
        BY <1>0, <3>3 DEF PeerOK
    <3> QED
        BY <1>4, <3>1, <3>2, <3>3 DEF Inbound
  <2>4. delivered' \in [Nodes -> SUBSET Nat]
      BY <1>4, <2>1, ZenonT(60) DEF Inbound, TypeOK
  <2>5. seen' \subseteq HandshakeMsg \union DataMsg /\ dups' \in Nat
      BY <1>4, <2>1, ReceiveTypes DEF Inbound, TypeOK
  <2> QED
      BY <1>0, <1>4, <2>3, <2>4, <2>5 DEF Inbound, TypeOK
<1>5. ASSUME NEW n \in Nodes, NEW m \in handshakes, Handshake(n, m) PROVE TypeOK'
  <2>1. peer[n] \in Peer /\ m \in HandshakeMsg /\ peer[n].state \in {0, 1, 2}
      BY DEF TypeOK, Peer
  <2>2. [peer[n] EXCEPT !.handling = {m}] \in Peer
      BY <2>1 DEF Peer
  <2>3. PeerOK' /\ eph' \in Nat /\ handshakes' \subseteq HandshakeMsg
    <3>1. CASE /\ SetPeer(n, [peer[n] EXCEPT !.handling = {m}])
               /\ UNCHANGED <<eph, handshakes>>
        BY <1>0, <2>2, <3>1, SharedTypes DEF TypeOK
    <3>2. CASE Crash(n, "counter mismatch") /\ UNCHANGED <<eph, handshakes>>
        BY <1>0, <3>2, SharedTypes DEF CrashReasons, TypeOK
    <3>3. CASE ConsumeHandshake(n, peer[n], m, peer[n].state)
        BY <1>0, <2>1, <3>3, ConsumeTypes DEF TypeOK
    <3> QED
        BY <1>5, <3>1, <3>2, <3>3 DEF Handshake
  <2>4. seen' \subseteq HandshakeMsg \union DataMsg /\ dups' \in Nat
      BY <1>5, <2>1, ReceiveTypes DEF Handshake, TypeOK
  <2> QED
      BY <1>0, <1>5, <2>3, <2>4 DEF Handshake, TypeOK
<1>6. ASSUME NEW n \in Nodes, NEW m \in peer[n].handling, HandshakeLocked(n, m)
      PROVE  TypeOK'
  <2>1. peer[n] \in Peer /\ m \in HandshakeMsg
      BY DEF TypeOK, Peer
  <2>2. [peer[n] EXCEPT !.handling = {}] \in Peer
      BY <2>1 DEF Peer
  <2>3. PeerOK' /\ eph' \in Nat /\ handshakes' \subseteq HandshakeMsg
      BY <1>0, <1>6, <2>1, <2>2, ConsumeTypes DEF HandshakeLocked, TypeOK
  <2> QED
      BY <1>0, <1>6, <2>3 DEF HandshakeLocked, TypeOK
<1>7. ASSUME NEW n \in Nodes, NEW t \in Timers, Expire(n, t) PROVE TypeOK'
  <2>1. peer[n] \in Peer
      BY DEF TypeOK
  <2>2. [peer[n] EXCEPT !.armed = @ \ {t}, !.fired = @ \union {t}] \in Peer
      BY <2>1 DEF Peer
  <2>3. PeerOK'
      BY <1>0, <1>7, <2>2, SharedTypes DEF Expire
  <2>4. expiries' \in Nat
      BY <1>7 DEF Expire, TypeOK
  <2> QED
      BY <1>0, <1>7, <2>3, <2>4 DEF Expire, TypeOK
<1>8. ASSUME NEW n \in Nodes, HandshakeTimeout(n) PROVE TypeOK'
  <2> DEFINE p == [peer[n] EXCEPT !.fired = @ \ {"handshakeSent"}]
             q == [p EXCEPT !.inTransport = FALSE]
  <2>0. peer[n] \in Peer
      BY DEF TypeOK
  <2>1. p \in Peer
      BY <2>0 DEF Peer
  <2>2. q \in Peer
      BY <2>1 DEF Peer
  <2>3. PeerOK' /\ UNCHANGED <<eph, handshakes>>
    <3>1. CASE RetryHandshake(n, q, "HandshakeTimeout")
        BY <1>0, <2>2, <3>1, RetryTypes DEF RetryHandshake
    <3>2. CASE /\ SetPeer(n, IF p.state > 0 THEN q ELSE p)
               /\ UNCHANGED <<eph, handshakes>>
        BY <1>0, <2>1, <2>2, <3>2, SharedTypes
    <3> QED
        BY <1>8, <3>1, <3>2 DEF HandshakeTimeout
  <2> QED
      BY <1>0, <1>8, <2>3 DEF HandshakeTimeout, TypeOK
<1>9. ASSUME NEW n \in Nodes, TXTimeout(n) PROVE TypeOK'
  <2> DEFINE p == [peer[n] EXCEPT !.fired = @ \ {"keepalive"}]
  <2>0. peer[n] \in Peer
      BY DEF TypeOK
  <2>1. p \in Peer
      BY <2>0 DEF Peer
  <2>2. [p EXCEPT !.outbound = <<Keepalive>>] \in Peer
    <3>1. <<Keepalive>> \in Seq(Nat)
        BY DEF Keepalive
    <3>2. \A x \in Seq(Nat) : [p EXCEPT !.outbound = x] \in Peer
        BY <2>1 DEF Peer
    <3> QED
        BY <3>1, <3>2
  <2>3. PeerOK'
      BY <1>0, <1>9, <2>1, <2>2, SharedTypes DEF TXTimeout
  <2> QED
      BY <1>0, <1>9, <2>3 DEF TXTimeout, TypeOK
<1>10. ASSUME NEW n \in Nodes, RXTimeout(n) PROVE TypeOK'
  <2> DEFINE p == [peer[n] EXCEPT !.fired = @ \ {"receivedPacket"}]
  <2>0. peer[n] \in Peer
      BY DEF TypeOK
  <2>1. p \in Peer
      BY <2>0 DEF Peer
  <2>2. [p EXCEPT !.armed = @ \ {"keepalive", "receivedPacket"}, !.locking = TRUE] \in Peer
      BY <2>1 DEF Peer
  <2>3. PeerOK'
      BY <1>0, <1>10, <2>1, <2>2, SharedTypes DEF RXTimeout
  <2> QED
      BY <1>0, <1>10, <2>3 DEF RXTimeout, TypeOK
<1>11. ASSUME NEW n \in Nodes, RXTimeoutLocked(n) PROVE TypeOK'
  <2> DEFINE p == [peer[n] EXCEPT !.locking = FALSE, !.pendingLock = TRUE, !.state = 0]
             q == [p EXCEPT !.armed = @ \ {"receivedPacket", "handshakeSent"}]
  <2>0. peer[n] \in Peer
      BY DEF TypeOK
  <2>1. p \in Peer
      BY <2>0 DEF Peer
  <2>2. ResetState(q) \in Peer
    <3>1. q \in Peer
        BY <2>1 DEF Peer
    <3> QED
        BY <3>1, MethodTypes
  <2>3. PeerOK' /\ UNCHANGED <<eph, handshakes>>
    <3>1. CASE SetPeer(n, ResetState(q)) /\ UNCHANGED <<eph, handshakes>>
        BY <1>0, <2>2, <3>1, SharedTypes
    <3>2. CASE RetryHandshake(n, p, "RXTimeout")
        BY <1>0, <2>1, <3>2, RetryTypes DEF RetryHandshake
    <3> QED
        BY <1>11, <3>1, <3>2 DEF RXTimeoutLocked
  <2> QED
      BY <1>0, <1>11, <2>3 DEF RXTimeoutLocked, TypeOK
<1>12. ASSUME NEW n \in Nodes, NEW c \in peer[n].retrying, SendRetry(n, c) PROVE TypeOK'
  <2>0. peer[n] \in Peer
      BY DEF TypeOK
  <2>1. [peer[n] EXCEPT !.retrying = @ \ {c}] \in Peer
      BY <2>0 DEF Peer
  <2>2. PeerOK' /\ eph' \in Nat /\ handshakes' \subseteq HandshakeMsg
      BY <1>0, <1>12, <2>1, SendTypes DEF SendRetry, TypeOK
  <2> QED
      BY <1>0, <1>12, <2>2 DEF SendRetry, TypeOK
<1>13. CASE UNCHANGED vars
    BY <1>13 DEF vars, TypeOK
<1> QED
    BY <1>1, <1>2, <1>3, <1>4, <1>5, <1>6, <1>7, <1>8, <1>9, <1>10, <1>11, <1>12,
       <1>13 DEF Next, Step, TimerStep

\* Every variable keeps its type in every behaviour.
THEOREM TypeCorrect == Spec => []TypeOK
    BY TypeInit, TypeStep, PTL DEF Spec

-----------------------------------------------------------------------------
(***************************************************************************)
(* Sessions and nonces.  The invariant says where keys come from: every     *)
(* cipher and every ciphertext belongs to a response, responses have        *)
(* distinct ephemerals, and the handshake an initiator waits for is newer   *)
(* than anything it has encrypted with.                                     *)
(***************************************************************************)

IsResponse(r) == r \in handshakes /\ r.ctr = 1

\* The key that node n sends with in the session of response r.
SendKey(n, r) == Key(r.e, IF r.from = n THEN "r2i" ELSE "i2r")
ReadKey(n, r) == Key(r.e, IF r.from = n THEN "i2r" ELSE "r2i")

EphemeralsDrawn ==
    /\ \A m \in handshakes : m.i <= eph /\ m.e <= eph
    /\ \A r \in handshakes : r.ctr = 1 => r.i < r.e

ResponsesDistinct ==
    \A r, q \in handshakes : r.ctr = 1 /\ q.ctr = 1 /\ r.e = q.e => r = q

HandlingSent ==
    \A n \in Nodes : \A m \in peer[n].handling : m \in handshakes /\ m.from = Other(n)

CiphersFromResponses ==
    \A n \in Nodes :
        \/ peer[n].tx = NoCipher /\ peer[n].rx = NoCipher
        \/ \E r \in handshakes :
              r.ctr = 1 /\ peer[n].tx = SendKey(n, r) /\ peer[n].rx = ReadKey(n, r)

DatasFromResponses ==
    \A d \in datas : \E r \in handshakes : r.ctr = 1 /\ d.key = SendKey(d.from, r)

NonceAhead ==
    \A d \in datas : d.key = peer[d.from].tx => d.ctr < peer[d.from].nonce

InitiatorFresh ==
    \A n \in Nodes :
        peer[n].initiator /\ peer[n].hs # NoHandshake =>
            /\ peer[n].tx.s < peer[n].hs
            /\ \A d \in datas : d.from = n => d.key.s < peer[n].hs

KeyInv ==
    /\ TypeOK
    /\ EphemeralsDrawn
    /\ ResponsesDistinct
    /\ HandlingSent
    /\ CiphersFromResponses
    /\ DatasFromResponses
    /\ NonceAhead
    /\ InitiatorFresh
    /\ NonceUnique

(* What a step of node n does to keys, of whatever handler it is.           *)

Only(n) ==
    /\ \A m \in Nodes : m # n => peer'[m] = peer[m]
    /\ \A m \in peer'[n].handling :
          m \in peer[n].handling \/ (m \in handshakes /\ m.from = Other(n))

SameKeys(p, q) ==
    q.tx = p.tx /\ q.rx = p.rx /\ q.nonce = p.nonce /\ q.hs = p.hs /\ q.initiator = p.initiator

NoKeys(q) ==
    q.tx = NoCipher /\ q.rx = NoCipher /\ q.hs = NoHandshake

Quiet(n) ==
    /\ Only(n)
    /\ SameKeys(peer[n], peer'[n]) \/ NoKeys(peer'[n])
    /\ UNCHANGED <<eph, handshakes, datas>>

Started(n) ==
    /\ Only(n)
    /\ eph' = eph + 1
    /\ handshakes' = handshakes \union {Initiation(n, eph + 1)}
    /\ peer'[n].tx = peer[n].tx /\ peer'[n].rx = peer[n].rx
    /\ peer'[n].nonce = peer[n].nonce /\ peer'[n].hs = eph + 1
    /\ UNCHANGED datas

Completed(n) ==
    /\ Only(n)
    /\ peer[n].initiator /\ peer[n].hs # NoHandshake
    /\ \E r \in handshakes :
          /\ r.ctr = 1 /\ r.from = Other(n) /\ r.i = peer[n].hs
          /\ peer'[n].tx = Key(r.e, "i2r") /\ peer'[n].rx = Key(r.e, "r2i")
    /\ peer'[n].nonce = 0 /\ peer'[n].hs = NoHandshake
    /\ UNCHANGED <<eph, handshakes, datas>>

Responded(n) ==
    /\ Only(n)
    /\ eph' = eph + 1
    /\ \E m \in handshakes : handshakes' = handshakes \union {Response(n, m.i, eph + 1)}
    /\ \/ SameKeys(peer[n], peer'[n])
       \/ /\ peer'[n].tx = Key(eph + 1, "r2i") /\ peer'[n].rx = Key(eph + 1, "i2r")
          /\ peer'[n].nonce = 0 /\ ~peer'[n].initiator
    /\ UNCHANGED datas

Sent(n) ==
    /\ Only(n)
    /\ peer[n].tx # NoCipher
    /\ \E k \in peer[n].taken : datas' = datas \union
          {[from |-> n, key |-> peer[n].tx, ctr |-> peer[n].nonce, pkt |-> k]}
    /\ peer'[n].tx = peer[n].tx /\ peer'[n].rx = peer[n].rx
    /\ peer'[n].nonce = peer[n].nonce + 1 /\ peer'[n].hs = peer[n].hs
    /\ peer'[n].initiator = peer[n].initiator
    /\ UNCHANGED <<eph, handshakes>>

KeyStep(n) == Quiet(n) \/ Started(n) \/ Completed(n) \/ Responded(n) \/ Sent(n)

\* A step that stores a peer with the same keys, or with none, is quiet.
LEMMA SetQuiet ==
    ASSUME TypeOK, NEW n \in Nodes, NEW q, SetPeer(n, q),
           q.handling = peer[n].handling,
           SameKeys(peer[n], q) \/ NoKeys(q),
           UNCHANGED <<eph, handshakes, datas>>
    PROVE  Quiet(n)
<1>1. peer'[n] = q /\ \A m \in Nodes : m # n => peer'[m] = peer[m]
    BY DEF SetPeer, TypeOK
<1> QED
    BY <1>1 DEF Quiet, Only

\* A step that leaves the peers and the network alone is quiet.
LEMMA SameQuiet ==
    ASSUME NEW n \in Nodes, UNCHANGED <<peer, eph, handshakes, datas>>
    PROVE  Quiet(n)
    BY DEF Quiet, Only, SameKeys

\* ResetState leaves no keys behind.
LEMMA ResetKeys ==
    ASSUME NEW p \in Peer
    PROVE  NoKeys(ResetState(p)) /\ ResetState(p).handling = p.handling
    BY DEF NoKeys, ResetState, Peer

\* Sending an initiation draws one ephemeral and keeps the session keys.
LEMMA SendStarts ==
    ASSUME TypeOK, NEW n \in Nodes, NEW p \in Peer, SendHandshake(n, p),
           SameKeys(peer[n], p), p.handling = peer[n].handling, UNCHANGED datas
    PROVE  Started(n)
<1> DEFINE q == StartHandshake(p, eph + 1)
<1>1. peer'[n] = q /\ \A m \in Nodes : m # n => peer'[m] = peer[m]
    BY DEF SendHandshake, SetPeer, TypeOK
<1>2. /\ q.tx = p.tx /\ q.rx = p.rx /\ q.nonce = p.nonce
      /\ q.hs = eph + 1 /\ q.handling = p.handling
    BY DEF StartHandshake, Peer
<1> QED
    BY <1>1, <1>2 DEF Started, Only, SendHandshake, SameKeys

\* A retry that waits for Punch, or gives up, is quiet.
LEMMA RetryQuiet ==
    ASSUME TypeOK, NEW n \in Nodes, NEW p \in Peer, NEW caller,
           RetryHandshake(n, p, caller),
           SameKeys(peer[n], p), p.handling = peer[n].handling, UNCHANGED datas
    PROVE  Quiet(n)
<1> DEFINE q == [p EXCEPT !.retries = @ + 1]
           r == [q EXCEPT !.armed = @ \ {"handshakeSent"}]
           t == [q EXCEPT !.retrying = @ \union {caller}]
<1>1. q \in Peer
  <2>1. p.retries + 1 \in Nat
      BY DEF Peer
  <2>2. \A x \in Nat : [p EXCEPT !.retries = x] \in Peer
      BY DEF Peer
  <2> QED
      BY <2>1, <2>2
<1>2. SameKeys(peer[n], q) /\ q.handling = peer[n].handling
    BY DEF SameKeys, Peer
<1> HIDE DEF q
<1>3. r \in Peer /\ r.handling = peer[n].handling
    BY <1>1, <1>2 DEF Peer
<1>4. NoKeys(ResetState(r)) /\ ResetState(r).handling = peer[n].handling
    BY <1>3, ResetKeys
<1>5. SameKeys(peer[n], t) /\ t.handling = peer[n].handling
    BY <1>1, <1>2 DEF SameKeys, Peer
<1>6. SetPeer(n, ResetState(r)) \/ SetPeer(n, t)
    BY DEF RetryHandshake, q
<1>7. UNCHANGED <<eph, handshakes, datas>>
    BY DEF RetryHandshake
<1> HIDE DEF r, t
<1> QED
    BY <1>4, <1>5, <1>6, <1>7, SetQuiet

\* handshakeP2 completes a session, answers with a new one, or panics.
LEMMA ConsumeKeys ==
    ASSUME TypeOK, NEW n \in Nodes, NEW p \in Peer, NEW m \in handshakes,
           NEW case \in {0, 1, 2}, ConsumeHandshake(n, p, m, case),
           m.from = Other(n), SameKeys(peer[n], p),
           p.handling \subseteq peer[n].handling, UNCHANGED datas
    PROVE  Quiet(n) \/ Completed(n) \/ Responded(n)
<1>0. /\ m \in HandshakeMsg /\ m.e \in Nat /\ m.i \in Nat /\ m.ctr \in {0, 1}
      /\ eph \in Nat /\ eph + 1 \in Nat
    BY DEF TypeOK, HandshakeMsg
<1>1. ASSUME NEW why, Crash(n, why), UNCHANGED <<eph, handshakes>>
      PROVE  Quiet(n)
    BY <1>1, SameQuiet DEF Crash
<1>2. CASE /\ p.initiator /\ p.hs # NoHandshake /\ m.ctr = 1 /\ m.i = p.hs
           /\ SetPeer(n, FinishHandshake(CompleteHandshake(p, m.e), case))
           /\ UNCHANGED <<eph, handshakes>>
  <2> DEFINE c == CompleteHandshake(p, m.e)
             q == FinishHandshake(c, case)
  <2>1. peer'[n] = q /\ \A k \in Nodes : k # n => peer'[k] = peer[k]
      BY <1>2 DEF SetPeer, TypeOK
  <2>2. /\ c \in Peer /\ c.handling = p.handling
        /\ c.tx = Key(m.e, "i2r") /\ c.rx = Key(m.e, "r2i")
        /\ c.nonce = 0 /\ c.hs = NoHandshake
    <3>1. c \in Peer
        BY <1>0, MethodTypes
    <3> QED
        BY <3>1 DEF CompleteHandshake, Peer
  <2> HIDE DEF c
  <2>3. /\ q.handling = c.handling /\ q.tx = c.tx /\ q.rx = c.rx
        /\ q.nonce = c.nonce /\ q.hs = c.hs
      BY <2>2 DEF FinishHandshake, Peer
  <2> HIDE DEF q
  <2>4. Only(n)
      BY <2>1, <2>2, <2>3 DEF Only
  <2>5. Completed(n)
      BY <1>2, <2>1, <2>2, <2>3, <2>4 DEF Completed, SameKeys
  <2> QED
      BY <2>5
<1>3. CASE /\ eph' = eph + 1
           /\ handshakes' = handshakes \union {Response(n, m.i, eph + 1)}
           /\ SetPeer(n, FinishHandshake(RespondHandshake(p, eph + 1), case))
  <2> DEFINE c == RespondHandshake(p, eph + 1)
             q == FinishHandshake(c, case)
  <2>1. peer'[n] = q /\ \A k \in Nodes : k # n => peer'[k] = peer[k]
      BY <1>3 DEF SetPeer, TypeOK
  <2>2. /\ c \in Peer /\ c.handling = p.handling
        /\ c.tx = Key(eph + 1, "r2i") /\ c.rx = Key(eph + 1, "i2r")
        /\ c.nonce = 0 /\ ~c.initiator
    <3>1. c \in Peer
        BY <1>0, MethodTypes
    <3> QED
        BY <3>1 DEF RespondHandshake, Peer
  <2> HIDE DEF c
  <2>3. /\ q.handling = c.handling /\ q.tx = c.tx /\ q.rx = c.rx
        /\ q.nonce = c.nonce /\ q.initiator = c.initiator
      BY <2>2 DEF FinishHandshake, Peer
  <2> HIDE DEF q
  <2>4. Only(n)
      BY <2>1, <2>2, <2>3 DEF Only
  <2>5. Responded(n)
      BY <1>3, <2>1, <2>2, <2>3, <2>4 DEF Responded
  <2> QED
      BY <2>5
<1>4. CASE /\ eph' = eph + 1
           /\ handshakes' = handshakes \union {Response(n, m.i, eph + 1)}
           /\ UNCHANGED peer
    BY <1>4 DEF Responded, Only, SameKeys
<1>5. CASE /\ UNCHANGED <<eph, handshakes>>
           /\ \E why \in CrashReasons : Crash(n, why)
    BY <1>1, <1>5
<1> QED
    BY <1>0, <1>2, <1>3, <1>4, <1>5 DEF ConsumeHandshake, CrashReasons, Crash

\* Every step of a node is one of the five key steps.
LEMMA KeySteps ==
    ASSUME TypeOK, HandlingSent, NEW n \in Nodes, Step(n)
    PROVE  KeyStep(n)
<1> USE DEF KeyStep
<1>0. peer[n] \in Peer
    BY DEF TypeOK
<1>1. CASE OutboundPacket(n)
  <2> DEFINE p == peer[n]
             q == IF Len(p.outbound) < OutboundChannelSize
                  THEN [p EXCEPT !.outbound = Append(@, pkts[n] + 1)] ELSE p
             r == [q EXCEPT !.retries = @ + 1]
  <2>1. q \in Peer /\ SameKeys(p, q) /\ q.handling = p.handling
    <3>1. Append(p.outbound, pkts[n] + 1) \in Seq(Nat)
        BY <1>0 DEF Peer, TypeOK
    <3>2. ASSUME NEW x \in Seq(Nat)
          PROVE  LET t == [p EXCEPT !.outbound = x] IN
                 t \in Peer /\ SameKeys(p, t) /\ t.handling = p.handling
        BY <1>0 DEF Peer, SameKeys
    <3>3. SameKeys(p, p)
        BY DEF SameKeys
    <3> QED
        BY <1>0, <3>1, <3>2, <3>3
  <2> HIDE DEF q
  <2>2. r \in Peer /\ SameKeys(p, r) /\ r.handling = p.handling
    <3>1. q.retries + 1 \in Nat
        BY <2>1 DEF Peer
    <3>2. ASSUME NEW x \in Nat
          PROVE  LET t == [q EXCEPT !.retries = x] IN
                 t \in Peer /\ SameKeys(p, t) /\ t.handling = p.handling
        BY <2>1 DEF Peer, SameKeys
    <3> QED
        BY <3>1, <3>2
  <2>3. CASE SendHandshake(n, r)
    <3> HIDE DEF r
    <3> QED
        BY <1>1, <2>2, <2>3, SendStarts DEF OutboundPacket
  <2>4. CASE SetPeer(n, q) /\ UNCHANGED <<eph, handshakes>>
      BY <1>1, <2>1, <2>4, SetQuiet DEF OutboundPacket
  <2> QED
      BY <1>1, <2>3, <2>4 DEF OutboundPacket, q
<1>2. CASE OutboundTake(n)
  <2> DEFINE q == [peer[n] EXCEPT !.taken = {Head(peer[n].outbound)}, !.outbound = Tail(@)]
  <2>1. SameKeys(peer[n], q) /\ q.handling = peer[n].handling
      BY <1>0 DEF Peer, SameKeys
  <2>2. SetPeer(n, q) /\ UNCHANGED <<eph, handshakes, datas>>
      BY <1>2 DEF OutboundTake
  <2> HIDE DEF q
  <2> QED
      BY <2>1, <2>2, SetQuiet
<1>3. ASSUME NEW k \in peer[n].taken, OutboundSend(n, k) PROVE KeyStep(n)
  <2>1. CASE Crash(n, "nil cipher") /\ UNCHANGED datas
      BY <1>3, <2>1, SameQuiet DEF Crash, OutboundSend
  <2>2. CASE /\ peer[n].tx # NoCipher
             /\ datas' = datas \union
                  {[from |-> n, key |-> peer[n].tx, ctr |-> peer[n].nonce, pkt |-> k]}
             /\ SetPeer(n, [peer[n] EXCEPT !.taken = {}, !.nonce = @ + 1,
                                           !.armed = @ \union {"keepalive"}])
    <3> DEFINE q == [peer[n] EXCEPT !.taken = {}, !.nonce = @ + 1,
                                    !.armed = @ \union {"keepalive"}]
    <3>1. peer'[n] = q /\ \A m \in Nodes : m # n => peer'[m] = peer[m]
        BY <2>2 DEF SetPeer, TypeOK
    <3>2. /\ q.tx = peer[n].tx /\ q.rx = peer[n].rx /\ q.hs = peer[n].hs
          /\ q.initiator = peer[n].initiator /\ q.handling = peer[n].handling
          /\ q.nonce = peer[n].nonce + 1
        BY <1>0 DEF Peer
    <3> HIDE DEF q
    <3>3. UNCHANGED <<eph, handshakes>>
        BY <1>3 DEF OutboundSend
    <3>4. Only(n)
        BY <3>1, <3>2 DEF Only
    <3>5. Sent(n)
        BY <2>2, <3>1, <3>2, <3>3, <3>4 DEF Sent
    <3> QED
        BY <3>5
  <2> QED
      BY <1>3, <2>1, <2>2 DEF OutboundSend
<1>4. ASSUME NEW m \in datas, Inbound(n, m) PROVE KeyStep(n)
  <2> DEFINE q == [peer[n] EXCEPT !.armed = @ \union {"receivedPacket"}]
  <2>1. SameKeys(peer[n], q) /\ q.handling = peer[n].handling
      BY <1>0 DEF Peer, SameKeys
  <2>2. UNCHANGED <<eph, handshakes, datas>>
      BY <1>4 DEF Inbound
  <2>3. UNCHANGED peer \/ SetPeer(n, q)
      BY <1>4 DEF Inbound, Crash
  <2> HIDE DEF q
  <2> QED
      BY <2>1, <2>2, <2>3, SetQuiet, SameQuiet
<1>5. ASSUME NEW m \in handshakes, Handshake(n, m) PROVE KeyStep(n)
  <2>1. m.from = Other(n) /\ UNCHANGED datas
      BY <1>5 DEF Handshake, Receive
  <2>2. CASE /\ SetPeer(n, [peer[n] EXCEPT !.handling = {m}])
             /\ UNCHANGED <<eph, handshakes>>
    <3> DEFINE q == [peer[n] EXCEPT !.handling = {m}]
    <3>1. peer'[n] = q /\ \A k \in Nodes : k # n => peer'[k] = peer[k]
        BY <2>2 DEF SetPeer, TypeOK
    <3>2. SameKeys(peer[n], q) /\ q.handling = {m}
        BY <1>0 DEF Peer, SameKeys
    <3> HIDE DEF q
    <3> QED
        BY <2>1, <2>2, <3>1, <3>2 DEF Quiet, Only
  <2>3. CASE Crash(n, "counter mismatch") /\ UNCHANGED <<eph, handshakes>>
      BY <2>1, <2>3, SameQuiet DEF Crash
  <2>4. CASE ConsumeHandshake(n, peer[n], m, peer[n].state)
    <3>1. SameKeys(peer[n], peer[n]) /\ peer[n].state \in {0, 1, 2}
        BY <1>0 DEF SameKeys, Peer
    <3> QED
        BY <1>0, <2>1, <2>4, <3>1, ConsumeKeys
  <2> QED
      BY <1>5, <2>2, <2>3, <2>4 DEF Handshake
<1>6. ASSUME NEW m \in peer[n].handling, HandshakeLocked(n, m) PROVE KeyStep(n)
  <2> DEFINE q == [peer[n] EXCEPT !.handling = {}]
  <2>1. m \in handshakes /\ m.from = Other(n)
      BY DEF HandlingSent
  <2>2. q \in Peer /\ SameKeys(peer[n], q) /\ q.handling \subseteq peer[n].handling
      BY <1>0 DEF Peer, SameKeys
  <2>3. ConsumeHandshake(n, q, m, 2) /\ UNCHANGED datas
      BY <1>6 DEF HandshakeLocked
  <2> HIDE DEF q
  <2> QED
      BY <2>1, <2>2, <2>3, ConsumeKeys
<1>7. ASSUME NEW t \in Timers, Expire(n, t) PROVE KeyStep(n)
  <2> DEFINE q == [peer[n] EXCEPT !.armed = @ \ {t}, !.fired = @ \union {t}]
  <2>1. SameKeys(peer[n], q) /\ q.handling = peer[n].handling
      BY <1>0 DEF Peer, SameKeys
  <2>2. SetPeer(n, q) /\ UNCHANGED <<eph, handshakes, datas>>
      BY <1>7 DEF Expire
  <2> HIDE DEF q
  <2> QED
      BY <2>1, <2>2, SetQuiet
<1>8. CASE HandshakeTimeout(n)
  <2> DEFINE p == [peer[n] EXCEPT !.fired = @ \ {"handshakeSent"}]
             q == [p EXCEPT !.inTransport = FALSE]
  <2>1. p \in Peer /\ SameKeys(peer[n], p) /\ p.handling = peer[n].handling
      BY <1>0 DEF Peer, SameKeys
  <2>2. q \in Peer /\ SameKeys(peer[n], q) /\ q.handling = peer[n].handling
    <3> HIDE DEF p
    <3> QED
        BY <2>1 DEF Peer, SameKeys
  <2>3. UNCHANGED datas
      BY <1>8 DEF HandshakeTimeout
  <2>4. \/ RetryHandshake(n, q, "HandshakeTimeout")
        \/ SetPeer(n, p) /\ UNCHANGED <<eph, handshakes>>
        \/ SetPeer(n, q) /\ UNCHANGED <<eph, handshakes>>
      BY <1>8 DEF HandshakeTimeout
  <2> HIDE DEF p, q
  <2> QED
      BY <2>1, <2>2, <2>3, <2>4, SetQuiet, RetryQuiet
<1>9. CASE TXTimeout(n)
  <2> DEFINE p == [peer[n] EXCEPT !.fired = @ \ {"keepalive"}]
             q == [p EXCEPT !.outbound = <<Keepalive>>]
  <2>1. p \in Peer /\ SameKeys(peer[n], p) /\ p.handling = peer[n].handling
      BY <1>0 DEF Peer, SameKeys
  <2>2. SameKeys(peer[n], q) /\ q.handling = peer[n].handling
    <3> HIDE DEF p
    <3> QED
        BY <2>1 DEF Peer, SameKeys
  <2>3. UNCHANGED <<eph, handshakes, datas>> /\ (SetPeer(n, p) \/ SetPeer(n, q))
      BY <1>9 DEF TXTimeout
  <2> HIDE DEF p, q
  <2> QED
      BY <2>1, <2>2, <2>3, SetQuiet
<1>10. CASE RXTimeout(n)
  <2> DEFINE p == [peer[n] EXCEPT !.fired = @ \ {"receivedPacket"}]
             q == [p EXCEPT !.armed = @ \ {"keepalive", "receivedPacket"},
                            !.locking = TRUE]
  <2>1. p \in Peer /\ SameKeys(peer[n], p) /\ p.handling = peer[n].handling
      BY <1>0 DEF Peer, SameKeys
  <2>2. SameKeys(peer[n], q) /\ q.handling = peer[n].handling
    <3> HIDE DEF p
    <3> QED
        BY <2>1 DEF Peer, SameKeys
  <2>3. UNCHANGED <<eph, handshakes, datas>> /\ (SetPeer(n, p) \/ SetPeer(n, q))
      BY <1>10 DEF RXTimeout
  <2> HIDE DEF p, q
  <2> QED
      BY <2>1, <2>2, <2>3, SetQuiet
<1>11. CASE RXTimeoutLocked(n)
  <2> DEFINE p == [peer[n] EXCEPT !.locking = FALSE, !.pendingLock = TRUE, !.state = 0]
             q == [p EXCEPT !.armed = @ \ {"receivedPacket", "handshakeSent"}]
  <2>1. p \in Peer /\ SameKeys(peer[n], p) /\ p.handling = peer[n].handling
      BY <1>0 DEF Peer, SameKeys
  <2>2. q \in Peer /\ q.handling = peer[n].handling
    <3> HIDE DEF p
    <3> QED
        BY <2>1 DEF Peer
  <2>3. UNCHANGED datas
      BY <1>11 DEF RXTimeoutLocked
  <2>4. \/ SetPeer(n, ResetState(q)) /\ UNCHANGED <<eph, handshakes>>
        \/ RetryHandshake(n, p, "RXTimeout")
      BY <1>11 DEF RXTimeoutLocked
  <2> HIDE DEF p, q
  <2>5. NoKeys(ResetState(q)) /\ ResetState(q).handling = peer[n].handling
      BY <2>2, ResetKeys
  <2> QED
      BY <2>1, <2>3, <2>4, <2>5, SetQuiet, RetryQuiet
<1>12. ASSUME NEW c \in peer[n].retrying, SendRetry(n, c) PROVE KeyStep(n)
  <2> DEFINE q == [peer[n] EXCEPT !.retrying = @ \ {c}]
  <2>1. q \in Peer /\ SameKeys(peer[n], q) /\ q.handling = peer[n].handling
      BY <1>0 DEF Peer, SameKeys
  <2>2. SendHandshake(n, q) /\ UNCHANGED datas
      BY <1>12 DEF SendRetry
  <2> HIDE DEF q
  <2> QED
      BY <2>1, <2>2, SendStarts
<1> QED
    BY <1>1, <1>2, <1>3, <1>4, <1>5, <1>6, <1>7, <1>8, <1>9, <1>10, <1>11, <1>12
    DEF Step, TimerStep

\* A key determines its session and its direction.
LEMMA KeyInjective ==
    /\ \A s, t, x, y : Key(s, x) = Key(t, y) => s = t /\ x = y
    /\ \A s, x : Key(s, x).s = s /\ Key(s, x).dir = x
    /\ \A n, r : /\ SendKey(n, r) # NoCipher
                 /\ SendKey(n, r).s = r.e
                 /\ SendKey(n, r).dir = IF r.from = n THEN "r2i" ELSE "i2r"
                 /\ NoCipher.s = 0
    BY DEF Key, NoCipher, SendKey

\* Types of what the invariant compares.
LEMMA KeyTypes ==
    ASSUME TypeOK
    PROVE  /\ eph \in Nat
           /\ \A m \in handshakes : /\ m.i \in Nat /\ m.e \in Nat
                                    /\ m.ctr \in {0, 1} /\ m.from \in Nodes
           /\ \A d \in datas : d.from \in Nodes /\ d.key.s \in Nat /\ d.ctr \in Nat
           /\ \A n \in Nodes : /\ peer[n].tx.s \in Nat /\ peer[n].nonce \in Nat
                               /\ peer[n].hs \in Nat
<1>1. \A m \in handshakes : /\ m.i \in Nat /\ m.e \in Nat
                            /\ m.ctr \in {0, 1} /\ m.from \in Nodes
    BY DEF TypeOK, HandshakeMsg
<1>2. \A d \in datas : d.from \in Nodes /\ d.key.s \in Nat /\ d.ctr \in Nat
    BY DEF TypeOK, DataMsg, Cipher
<1>3. \A n \in Nodes : peer[n] \in Peer
    BY DEF TypeOK
<1>4. \A p \in Peer : p.tx.s \in Nat /\ p.nonce \in Nat /\ p.hs \in Nat
    BY DEF Peer, Cipher
<1> QED
    BY <1>1, <1>2, <1>3, <1>4 DEF TypeOK

\* No cipher and no ciphertext is of a session that is yet to come.
LEMMA KeysDrawn ==
    ASSUME KeyInv
    PROVE  /\ \A n \in Nodes : peer[n].tx.s <= eph
           /\ \A d \in datas : d.key.s <= eph /\ d.key # NoCipher
<1>1. ASSUME NEW n \in Nodes PROVE peer[n].tx.s <= eph
    BY KeyInjective, KeyTypes DEF KeyInv, CiphersFromResponses, EphemeralsDrawn
<1>2. ASSUME NEW d \in datas PROVE d.key.s <= eph /\ d.key # NoCipher
    BY KeyInjective DEF KeyInv, DatasFromResponses, EphemeralsDrawn
<1> QED
    BY <1>1, <1>2

\* Each direction of a session belongs to one node.
LEMMA KeyOwner ==
    ASSUME KeyInv, NEW d \in datas, NEW n \in Nodes,
           peer[n].tx # NoCipher, d.key = peer[n].tx
    PROVE  d.from = n
<1>1. PICK r \in handshakes : r.ctr = 1 /\ d.key = SendKey(d.from, r)
    BY DEF KeyInv, DatasFromResponses
<1>2. PICK q \in handshakes : q.ctr = 1 /\ peer[n].tx = SendKey(n, q)
    BY DEF KeyInv, CiphersFromResponses
<1>3. r = q
  <2>1. SendKey(d.from, r).s = r.e /\ SendKey(n, q).s = q.e
      BY KeyInjective
  <2>2. r.e = q.e
      BY <1>1, <1>2, <2>1
  <2> QED
      BY <1>1, <1>2, <2>2 DEF KeyInv, ResponsesDistinct
<1>4. r.from = d.from <=> r.from = n
  <2>1. /\ SendKey(d.from, r).dir = IF r.from = d.from THEN "r2i" ELSE "i2r"
        /\ SendKey(n, r).dir = IF r.from = n THEN "r2i" ELSE "i2r"
      BY KeyInjective
  <2>2. SendKey(d.from, r) = SendKey(n, r)
      BY <1>1, <1>2, <1>3
  <2> QED
      BY <2>1, <2>2
<1>5. r.from \in Nodes /\ d.from \in Nodes
    BY KeyTypes DEF KeyInv
<1> QED
    BY <1>4, <1>5, OtherNode

\* What Handshake holds while it waits for pendingLock stays a message sent.
LEMMA HandlingKept ==
    ASSUME HandlingSent, NEW n \in Nodes, Only(n), handshakes \subseteq handshakes'
    PROVE  HandlingSent'
    BY DEF HandlingSent, Only

\* A quiet step preserves the key invariant.
LEMMA QuietKeeps ==
    ASSUME KeyInv, TypeOK', NEW n \in Nodes, Quiet(n)
    PROVE  KeyInv'
<1>1. EphemeralsDrawn' /\ ResponsesDistinct' /\ DatasFromResponses' /\ NonceUnique'
    BY DEF KeyInv, Quiet, EphemeralsDrawn, ResponsesDistinct, DatasFromResponses,
           NonceUnique
<1>2. HandlingSent'
    BY HandlingKept DEF KeyInv, Quiet
<1>3. CiphersFromResponses'
    BY DEF KeyInv, Quiet, Only, SameKeys, NoKeys, CiphersFromResponses
<1>4. NonceAhead'
  <2> SUFFICES ASSUME NEW d \in datas, d.key = peer'[d.from].tx
               PROVE  d.ctr < peer'[d.from].nonce
      BY DEF NonceAhead, Quiet
  <2>1. d.from \in Nodes /\ d.key # NoCipher
      BY KeyTypes, KeysDrawn DEF KeyInv
  <2>2. peer'[d.from].tx = peer[d.from].tx /\ peer'[d.from].nonce = peer[d.from].nonce
      BY <2>1 DEF Quiet, Only, SameKeys, NoKeys
  <2> QED
      BY <2>2 DEF KeyInv, NonceAhead
<1>5. InitiatorFresh'
    BY DEF KeyInv, Quiet, Only, SameKeys, NoKeys, InitiatorFresh
<1> QED
    BY <1>1, <1>2, <1>3, <1>4, <1>5 DEF KeyInv

\* An initiation preserves it: its ephemeral is newer than every session.
LEMMA StartedKeeps ==
    ASSUME KeyInv, TypeOK', NEW n \in Nodes, Started(n)
    PROVE  KeyInv'
<1> DEFINE m == Initiation(n, eph + 1)
<1>0. m.ctr = 0 /\ m.i = eph + 1 /\ m.e = 0 /\ eph \in Nat
    BY KeyTypes DEF Initiation, KeyInv
<1> HIDE DEF m
<1>1. handshakes' = handshakes \union {m} /\ eph' = eph + 1 /\ datas' = datas
    BY DEF Started, m
<1>2. EphemeralsDrawn'
    BY <1>0, <1>1, KeyTypes DEF KeyInv, EphemeralsDrawn
<1>3. ResponsesDistinct'
    BY <1>0, <1>1 DEF KeyInv, ResponsesDistinct
<1>4. HandlingSent'
    BY <1>1, HandlingKept DEF KeyInv, Started
<1>5. CiphersFromResponses'
    BY <1>1 DEF KeyInv, Started, Only, CiphersFromResponses
<1>6. DatasFromResponses' /\ NonceUnique'
    BY <1>1 DEF KeyInv, DatasFromResponses, NonceUnique
<1>7. NonceAhead'
    BY <1>1, KeyTypes DEF KeyInv, Started, Only, NonceAhead
<1>8. InitiatorFresh'
  <2>1. /\ peer'[n].tx.s < peer'[n].hs
        /\ \A d \in datas : d.from = n => d.key.s < peer'[n].hs
      BY <1>0, KeysDrawn, KeyTypes DEF KeyInv, Started
  <2> QED
      BY <1>1, <2>1 DEF KeyInv, Started, Only, InitiatorFresh
<1> QED
    BY <1>2, <1>3, <1>4, <1>5, <1>6, <1>7, <1>8 DEF KeyInv

\* The initiator's end of a session preserves it: the session is newer than
\* every counter used.
LEMMA CompletedKeeps ==
    ASSUME KeyInv, TypeOK', NEW n \in Nodes, Completed(n)
    PROVE  KeyInv'
<1>1. PICK r \in handshakes : /\ r.ctr = 1 /\ r.from = Other(n) /\ r.i = peer[n].hs
                              /\ peer'[n].tx = Key(r.e, "i2r")
                              /\ peer'[n].rx = Key(r.e, "r2i")
    BY DEF Completed
<1>2. EphemeralsDrawn' /\ ResponsesDistinct' /\ DatasFromResponses' /\ NonceUnique'
    BY DEF KeyInv, Completed, EphemeralsDrawn, ResponsesDistinct, DatasFromResponses,
           NonceUnique
<1>3. HandlingSent'
    BY HandlingKept DEF KeyInv, Completed
<1>4. CiphersFromResponses'
  <2>1. peer'[n].tx = SendKey(n, r) /\ peer'[n].rx = ReadKey(n, r)
      BY <1>1, OtherNode DEF SendKey, ReadKey
  <2> QED
      BY <1>1, <2>1 DEF KeyInv, Completed, Only, CiphersFromResponses
<1>5. NonceAhead'
  <2> SUFFICES ASSUME NEW d \in datas, d.key = peer'[d.from].tx
               PROVE  d.ctr < peer'[d.from].nonce
      BY DEF NonceAhead, Completed
  <2>1. CASE d.from = n
    <3>1. d.key.s = r.e
        BY <1>1, <2>1, KeyInjective
    <3>2. d.key.s < r.i
        BY <1>1, <2>1 DEF KeyInv, InitiatorFresh, Completed
    <3>3. r.i < r.e
        BY <1>1 DEF KeyInv, EphemeralsDrawn
    <3> QED
        BY <3>1, <3>2, <3>3, KeyTypes DEF KeyInv
  <2>2. CASE d.from # n
      BY <2>2, KeyTypes DEF KeyInv, NonceAhead, Completed, Only
  <2> QED
      BY <2>1, <2>2
<1>6. InitiatorFresh'
    BY DEF KeyInv, Completed, Only, InitiatorFresh
<1> QED
    BY <1>2, <1>3, <1>4, <1>5, <1>6 DEF KeyInv

\* The responder's end of a session preserves it: its ephemeral is new.
LEMMA RespondedKeeps ==
    ASSUME KeyInv, TypeOK', NEW n \in Nodes, Responded(n)
    PROVE  KeyInv'
<1>1. PICK m \in handshakes :
          handshakes' = handshakes \union {Response(n, m.i, eph + 1)}
    BY DEF Responded
<1> DEFINE r == Response(n, m.i, eph + 1)
<1>2. /\ r.ctr = 1 /\ r.i = m.i /\ r.e = eph + 1 /\ r.from = n
      /\ eph \in Nat /\ m.i \in Nat /\ m.i <= eph
    BY KeyTypes DEF Response, KeyInv, EphemeralsDrawn
<1> HIDE DEF r
<1>3. handshakes' = handshakes \union {r} /\ eph' = eph + 1 /\ datas' = datas
    BY <1>1 DEF Responded, r
<1>4. EphemeralsDrawn'
    BY <1>2, <1>3, KeyTypes DEF KeyInv, EphemeralsDrawn
<1>5. ResponsesDistinct'
  <2>1. \A q \in handshakes : q.e # r.e
      BY <1>2, KeyTypes DEF KeyInv, EphemeralsDrawn
  <2> QED
      BY <1>3, <2>1 DEF KeyInv, ResponsesDistinct
<1>6. HandlingSent'
    BY <1>3, HandlingKept DEF KeyInv, Responded
<1>7. CiphersFromResponses'
  <2>1. \/ SameKeys(peer[n], peer'[n])
        \/ peer'[n].tx = SendKey(n, r) /\ peer'[n].rx = ReadKey(n, r)
      BY <1>2 DEF Responded, SendKey, ReadKey
  <2> QED
      BY <1>2, <1>3, <2>1 DEF KeyInv, Responded, Only, SameKeys, CiphersFromResponses
<1>8. DatasFromResponses' /\ NonceUnique'
    BY <1>3 DEF KeyInv, DatasFromResponses, NonceUnique
<1>9. NonceAhead'
  <2> SUFFICES ASSUME NEW d \in datas, d.key = peer'[d.from].tx
               PROVE  d.ctr < peer'[d.from].nonce
      BY <1>3 DEF NonceAhead
  <2>1. CASE d.from = n /\ ~SameKeys(peer[n], peer'[n])
    <3>1. d.key.s = eph + 1
        BY <2>1, KeyInjective DEF Responded
    <3>2. d.key.s <= eph
        BY KeysDrawn
    <3> QED
        BY <1>2, <3>1, <3>2
  <2>2. CASE d.from # n \/ SameKeys(peer[n], peer'[n])
      BY <2>2, KeyTypes DEF KeyInv, NonceAhead, Responded, Only, SameKeys
  <2> QED
      BY <2>1, <2>2
<1>10. InitiatorFresh'
    BY <1>3 DEF KeyInv, Responded, Only, SameKeys, InitiatorFresh
<1> QED
    BY <1>4, <1>5, <1>6, <1>7, <1>8, <1>9, <1>10 DEF KeyInv

\* An encryption preserves it: the counter is ahead of every counter used.
LEMMA SentKeeps ==
    ASSUME KeyInv, TypeOK', NEW n \in Nodes, Sent(n)
    PROVE  KeyInv'
<1>1. PICK k \in peer[n].taken : datas' = datas \union
          {[from |-> n, key |-> peer[n].tx, ctr |-> peer[n].nonce, pkt |-> k]}
    BY DEF Sent
<1> DEFINE c == [from |-> n, key |-> peer[n].tx, ctr |-> peer[n].nonce, pkt |-> k]
<1>2. c.from = n /\ c.key = peer[n].tx /\ c.ctr = peer[n].nonce /\ datas' = datas \union {c}
    BY <1>1
<1> HIDE DEF c
<1>3. EphemeralsDrawn' /\ ResponsesDistinct'
    BY DEF KeyInv, Sent, EphemeralsDrawn, ResponsesDistinct
<1>4. HandlingSent'
    BY HandlingKept DEF KeyInv, Sent
<1>5. CiphersFromResponses'
    BY DEF KeyInv, Sent, Only, CiphersFromResponses
<1>6. DatasFromResponses'
    BY <1>2 DEF KeyInv, Sent, DatasFromResponses, CiphersFromResponses
<1>7. \A d \in datas : d.key = peer[n].tx => d.from = n /\ d.ctr < peer[n].nonce
    BY KeyOwner DEF KeyInv, Sent, NonceAhead
<1>8. NonceAhead'
    BY <1>2, <1>7, KeyTypes DEF KeyInv, Sent, Only, NonceAhead
<1>9. InitiatorFresh'
    BY <1>2 DEF KeyInv, Sent, Only, InitiatorFresh
<1>10. NonceUnique'
    BY <1>2, <1>7, KeyTypes DEF KeyInv, NonceUnique
<1> QED
    BY <1>3, <1>4, <1>5, <1>6, <1>8, <1>9, <1>10 DEF KeyInv

\* The key invariant holds when the peers are started.
LEMMA KeyInit == Init => KeyInv
<1> SUFFICES ASSUME Init PROVE KeyInv
    OBVIOUS
<1>1. \A n \in Nodes : /\ peer[n].tx = NoCipher /\ peer[n].rx = NoCipher
                       /\ peer[n].hs = NoHandshake /\ peer[n].handling = {}
    BY DEF Init, NewPeer
<1> QED
    BY <1>1, TypeInit
    DEF Init, KeyInv, EphemeralsDrawn, ResponsesDistinct, HandlingSent, NonceUnique,
        CiphersFromResponses, DatasFromResponses, NonceAhead, InitiatorFresh

\* Every step preserves the key invariant.
LEMMA KeyNext == KeyInv /\ [Next]_vars => KeyInv'
<1> SUFFICES ASSUME KeyInv, [Next]_vars PROVE KeyInv'
    OBVIOUS
<1>1. TypeOK'
    BY TypeStep DEF KeyInv
<1>2. ASSUME NEW n \in Nodes, Step(n) PROVE KeyInv'
  <2>1. KeyStep(n)
      BY <1>2, KeySteps DEF KeyInv
  <2> QED
      BY <1>1, <2>1, QuietKeeps, StartedKeeps, CompletedKeeps, RespondedKeeps, SentKeeps
      DEF KeyStep
<1>3. CASE UNCHANGED vars
    BY <1>1, <1>3
    DEF vars, KeyInv, EphemeralsDrawn, ResponsesDistinct, HandlingSent, NonceUnique,
        CiphersFromResponses, DatasFromResponses, NonceAhead, InitiatorFresh
<1> QED
    BY <1>2, <1>3 DEF Next

\* No key protects two packets under one counter, in any behaviour: the AEAD
\* nonce that Outbound writes in the header is never reused.
THEOREM NonceSafety == Spec => []NonceUnique
<1>1. KeyInv => NonceUnique
    BY DEF KeyInv
<1> QED
    BY <1>1, KeyInit, KeyNext, PTL DEF Spec

\* The two ends of a session always hold complementary ciphers.
THEOREM PairingSafety == Spec => []SessionPairing
<1>1. KeyInv => SessionPairing
  <2> SUFFICES ASSUME KeyInv, NEW n \in Nodes
               PROVE  /\ peer[n].tx.s = peer[n].rx.s
                      /\ peer[n].tx # NoCipher => peer[n].tx.dir # peer[n].rx.dir
                      /\ peer[n].tx # NoCipher /\ peer[n].tx.s = peer[Other(n)].tx.s
                            => peer[n].tx = peer[Other(n)].rx
      BY DEF SessionPairing
  <2>1. CASE peer[n].tx = NoCipher /\ peer[n].rx = NoCipher
      BY <2>1
  <2>2. ASSUME NEW r \in handshakes, r.ctr = 1,
               peer[n].tx = SendKey(n, r), peer[n].rx = ReadKey(n, r)
        PROVE  /\ peer[n].tx.s = peer[n].rx.s
               /\ peer[n].tx.dir # peer[n].rx.dir
               /\ peer[n].tx.s = peer[Other(n)].tx.s => peer[n].tx = peer[Other(n)].rx
    <3>1. peer[n].tx.s = peer[n].rx.s /\ peer[n].tx.dir # peer[n].rx.dir
        BY <2>2, KeyInjective DEF SendKey, ReadKey
    <3>2. ASSUME peer[n].tx.s = peer[Other(n)].tx.s
          PROVE  peer[n].tx = peer[Other(n)].rx
      <4>1. r.e # 0 /\ peer[n].tx.s = r.e
          BY <2>2, KeyInjective, KeyTypes DEF KeyInv, EphemeralsDrawn
      <4>2. peer[Other(n)].tx # NoCipher
        <5>1. NoCipher.s = 0
            BY DEF NoCipher
        <5> QED
            BY <3>2, <4>1, <5>1
      <4>3. PICK q \in handshakes : /\ q.ctr = 1
                                    /\ peer[Other(n)].tx = SendKey(Other(n), q)
                                    /\ peer[Other(n)].rx = ReadKey(Other(n), q)
          BY <4>2, OtherNode DEF KeyInv, CiphersFromResponses
      <4>4. q = r
        <5>1. SendKey(Other(n), q).s = q.e
            BY KeyInjective
        <5>2. q.e = r.e
            BY <3>2, <4>1, <4>3, <5>1
        <5> QED
            BY <2>2, <4>3, <5>2 DEF KeyInv, ResponsesDistinct
      <4>5. r.from = n <=> r.from # Other(n)
          BY OtherNode, KeyTypes DEF KeyInv
      <4> QED
          BY <2>2, <4>3, <4>4, <4>5 DEF SendKey, ReadKey
    <3> QED
        BY <3>1, <3>2
  <2> QED
      BY <2>1, <2>2 DEF KeyInv, CiphersFromResponses
<1> QED
    BY <1>1, KeyInit, KeyNext, PTL DEF Spec

\* A node never returns to the keys of an earlier session.
THEOREM SessionsOnlyAdvance == Spec => SessionsAdvance
<1> DEFINE A == \A n \in Nodes : \/ peer[n].tx.s = 0
                                 \/ peer'[n].tx.s \in {0, peer[n].tx.s}
                                 \/ peer'[n].tx.s > peer[n].tx.s
<1>1. KeyInv /\ [Next]_vars => [A]_vars
  <2> SUFFICES ASSUME KeyInv, NEW m \in Nodes, Step(m), NEW n \in Nodes
               PROVE  \/ peer'[n].tx.s \in {0, peer[n].tx.s}
                      \/ peer'[n].tx.s > peer[n].tx.s
      BY DEF Next
  <2>1. KeyStep(m)
      BY KeySteps DEF KeyInv
  <2>2. CASE n # m
      BY <2>1, <2>2 DEF KeyStep, Quiet, Started, Completed, Responded, Sent, Only
  <2>3. CASE n = m /\ (Quiet(m) \/ Started(m) \/ Sent(m))
      BY <2>3, KeyInjective DEF Quiet, Started, Sent, SameKeys, NoKeys
  <2>4. CASE n = m /\ Responded(m)
      BY <2>4, KeyInjective, KeysDrawn, KeyTypes DEF KeyInv, Responded, SameKeys
  <2>5. CASE n = m /\ Completed(m)
    <3>1. PICK r \in handshakes : /\ r.ctr = 1 /\ r.i = peer[n].hs
                                  /\ peer'[n].tx = Key(r.e, "i2r")
        BY <2>5 DEF Completed
    <3>2. peer[n].tx.s < r.i /\ r.i < r.e
        BY <2>5, <3>1 DEF KeyInv, InitiatorFresh, EphemeralsDrawn, Completed
    <3>3. peer'[n].tx.s = r.e
        BY <3>1, KeyInjective
    <3> QED
        BY <3>2, <3>3, KeyTypes DEF KeyInv
  <2> QED
      BY <2>1, <2>2, <2>3, <2>4, <2>5 DEF KeyStep
<1> QED
    BY <1>1, KeyInit, KeyNext, PTL DEF Spec, SessionsAdvance
=============================================================================
