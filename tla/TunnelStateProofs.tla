-------------------------- MODULE TunnelStateProofs --------------------------
(***************************************************************************)
(* Theorems about the state machine of a Peer, its timers and the packets   *)
(* that pass through it, on top of the key invariant of TunnelProofs.       *)
(***************************************************************************)
EXTENDS TunnelProofs

-----------------------------------------------------------------------------
(***************************************************************************)
(* States and timers.  What StateCoherent and TimersPending say is about    *)
(* one Peer at a time: every handler makes a sound Peer out of a sound one. *)
(***************************************************************************)

Established(p) == ~p.pendingLock /\ p.tx # NoCipher /\ p.rx # NoCipher
Waiting(p)     == p.initiator /\ p.hs # NoHandshake
RetryDue(p) ==
    \/ "handshakeSent" \in p.armed \union p.fired
    \/ "HandshakeTimeout" \in p.retrying
TrafficDue(p) ==
    \/ "keepalive" \in p.armed \union p.fired
    \/ p.outbound # <<>> \/ p.taken # {}
    \/ p.locking

Sound(p) ==
    /\ p.state = 2 => Established(p) /\ TrafficDue(p)
    /\ p.state = 1 => Waiting(p) /\ RetryDue(p)

AllSound == \A n \in Nodes : Sound(peer[n])

\* A packet that has been queued is there.
LEMMA AppendFilled ==
    ASSUME NEW s \in Seq(Nat), NEW x \in Nat
    PROVE  Append(s, x) \in Seq(Nat) /\ Append(s, x) # <<>>
<1>1. Append(s, x) \in Seq(Nat)
    OBVIOUS
<1>2. Len(Append(s, x)) = Len(s) + 1 /\ Len(s) \in Nat
    OBVIOUS
<1> QED
    BY <1>1, <1>2

\* A step that stores a sound Peer, or ends the process.
LEMMA StoreSound ==
    ASSUME TypeOK, AllSound, NEW n \in Nodes, NEW q, SetPeer(n, q), Sound(q)
    PROVE  AllSound'
<1>1. peer'[n] = q /\ \A m \in Nodes : m # n => peer'[m] = peer[m]
    BY DEF SetPeer, TypeOK
<1> QED
    BY <1>1 DEF AllSound

\* A step that touches no Peer.
LEMMA SameSound ==
    ASSUME AllSound, UNCHANGED peer
    PROVE  AllSound'
    BY DEF AllSound

\* A Peer that is idle waits for nothing.
LEMMA ResetSound ==
    ASSUME NEW p \in Peer
    PROVE  ResetState(p).state = 0 /\ Sound(ResetState(p))
<1>1. ResetState(p).state = 0
    BY DEF ResetState, Peer
<1> QED
    BY <1>1 DEF Sound

\* An initiation leaves a handshake state and a timer behind.
LEMMA StartSound ==
    ASSUME TypeOK, AllSound, NEW n \in Nodes, NEW p \in Peer, SendHandshake(n, p)
    PROVE  AllSound'
<1> DEFINE q == StartHandshake(p, eph + 1)
<1>1. eph \in Nat /\ SetPeer(n, q)
    BY DEF SendHandshake, TypeOK
<1>2. q.state = 1 /\ q.initiator /\ q.hs = eph + 1 /\ "handshakeSent" \in q.armed
    BY DEF StartHandshake, Peer
<1> HIDE DEF q
<1>3. Sound(q)
    BY <1>1, <1>2 DEF Sound, Waiting, RetryDue, NoHandshake
<1> QED
    BY <1>1, <1>3, StoreSound

\* Whatever handshakeP2 was called on, a session that is complete is established.
LEMMA FinishSound ==
    ASSUME NEW p \in Peer, NEW s \in Nat, NEW case \in {0, 1, 2}
    PROVE  /\ Sound(FinishHandshake(CompleteHandshake(p, s), case))
           /\ Sound(FinishHandshake(RespondHandshake(p, s), case))
<1>1. ASSUME NEW c \in Peer, c.tx # NoCipher, c.rx # NoCipher
      PROVE  Sound(FinishHandshake(c, case))
  <2> DEFINE q == FinishHandshake(c, case)
  <2>1. q.state = 2 /\ ~q.pendingLock /\ q.tx = c.tx /\ q.rx = c.rx
      BY DEF FinishHandshake, Peer
  <2>2. "keepalive" \in q.armed
      BY DEF FinishHandshake, Peer
  <2> HIDE DEF q
  <2> QED
      BY <1>1, <2>1, <2>2 DEF Sound, Established, TrafficDue, q
<1>2. Key(s, "i2r") # NoCipher /\ Key(s, "r2i") # NoCipher
    BY DEF Key, NoCipher
<1>3. /\ CompleteHandshake(p, s) \in Peer
      /\ CompleteHandshake(p, s).tx # NoCipher /\ CompleteHandshake(p, s).rx # NoCipher
    BY <1>2, MethodTypes DEF CompleteHandshake, Peer
<1>4. /\ RespondHandshake(p, s) \in Peer
      /\ RespondHandshake(p, s).tx # NoCipher /\ RespondHandshake(p, s).rx # NoCipher
    BY <1>2, MethodTypes DEF RespondHandshake, Peer
<1> QED
    BY <1>1, <1>3, <1>4

\* Handshake and HandshakeLocked store what handshakeP2 has made, or panic.
LEMMA ConsumeSound ==
    ASSUME TypeOK, AllSound, NEW n \in Nodes, NEW p \in Peer, NEW m \in HandshakeMsg,
           NEW case \in {0, 1, 2}, ConsumeHandshake(n, p, m, case)
    PROVE  AllSound'
<1>1. m.e \in Nat /\ eph + 1 \in Nat
    BY DEF TypeOK, HandshakeMsg
<1>2. /\ Sound(FinishHandshake(CompleteHandshake(p, m.e), case))
      /\ Sound(FinishHandshake(RespondHandshake(p, eph + 1), case))
    BY <1>1, FinishSound
<1>3. \/ UNCHANGED peer
      \/ SetPeer(n, FinishHandshake(CompleteHandshake(p, m.e), case))
      \/ SetPeer(n, FinishHandshake(RespondHandshake(p, eph + 1), case))
    BY DEF ConsumeHandshake, Crash
<1> QED
    BY <1>2, <1>3, StoreSound, SameSound

\* A retry of HandshakeTimeout is on its way to send or to give up; one of RXTimeout
\* leaves the Peer in the state it has set.
LEMMA RetrySound ==
    ASSUME TypeOK, AllSound, NEW n \in Nodes, NEW p \in Peer,
           NEW caller \in {"HandshakeTimeout", "RXTimeout"}, RetryHandshake(n, p, caller),
           p.state = 2 => Established(p) /\ TrafficDue(p),
           p.state = 1 => Waiting(p) /\ caller = "HandshakeTimeout"
    PROVE  AllSound'
<1> DEFINE q == [p EXCEPT !.retries = @ + 1]
           r == [q EXCEPT !.armed = @ \ {"handshakeSent"}]
           t == [q EXCEPT !.retrying = @ \union {caller}]
<1>1. /\ q \in Peer /\ q.state = p.state /\ q.pendingLock = p.pendingLock /\ q.tx = p.tx
      /\ q.rx = p.rx /\ q.initiator = p.initiator /\ q.hs = p.hs /\ q.armed = p.armed
      /\ q.fired = p.fired /\ q.outbound = p.outbound /\ q.taken = p.taken
      /\ q.locking = p.locking
  <2>1. p.retries + 1 \in Nat
      BY DEF Peer
  <2>2. \A x \in Nat : [p EXCEPT !.retries = x] \in Peer
      BY DEF Peer
  <2>3. q \in Peer
      BY <2>1, <2>2
  <2> QED
      BY <2>3 DEF Peer
<1> HIDE DEF q
<1>2. r \in Peer
    BY <1>1 DEF Peer
<1>3. /\ t.state = q.state /\ t.pendingLock = q.pendingLock /\ t.tx = q.tx
      /\ t.rx = q.rx /\ t.initiator = q.initiator /\ t.hs = q.hs /\ t.armed = q.armed
      /\ t.fired = q.fired /\ t.outbound = q.outbound /\ t.taken = q.taken
      /\ t.locking = q.locking /\ caller \in t.retrying
    BY <1>1 DEF Peer
<1>4. SetPeer(n, ResetState(r)) \/ SetPeer(n, t)
    BY DEF RetryHandshake, q
<1> HIDE DEF r, t
<1>5. Sound(t)
    BY <1>1, <1>3 DEF Sound, Established, TrafficDue, Waiting, RetryDue
<1>6. Sound(ResetState(r))
    BY <1>2, ResetSound
<1> QED
    BY <1>4, <1>5, <1>6, StoreSound

\* The fields that Sound looks at, except the queue and the timers.
SameState(p, q) ==
    /\ q.state = p.state /\ q.pendingLock = p.pendingLock /\ q.tx = p.tx /\ q.rx = p.rx
    /\ q.initiator = p.initiator /\ q.hs = p.hs /\ q.retrying = p.retrying

\* Every step of a node leaves its Peer sound.
LEMMA SoundSteps ==
    ASSUME TypeOK, AllSound, NEW n \in Nodes, Step(n)
    PROVE  AllSound'
<1>0. peer[n] \in Peer /\ Sound(peer[n])
    BY DEF TypeOK, AllSound
<1>1. CASE OutboundPacket(n)
  <2> DEFINE p == peer[n]
             q == IF Len(p.outbound) < OutboundChannelSize
                  THEN [p EXCEPT !.outbound = Append(@, pkts[n] + 1)] ELSE p
             r == [q EXCEPT !.retries = @ + 1]
  <2>1. /\ q \in Peer /\ SameState(p, q) /\ q.armed = p.armed /\ q.fired = p.fired
        /\ q.taken = p.taken /\ q.locking = p.locking
        /\ q.outbound = p.outbound \/ q.outbound # <<>>
    <3>1. Append(p.outbound, pkts[n] + 1) \in Seq(Nat) /\ Append(p.outbound, pkts[n] + 1) # <<>>
      <4>1. p.outbound \in Seq(Nat) /\ pkts[n] + 1 \in Nat
          BY <1>0 DEF Peer, TypeOK
      <4> QED
          BY <4>1, AppendFilled
    <3>2. ASSUME NEW x \in Seq(Nat)
          PROVE  LET u == [p EXCEPT !.outbound = x] IN
                 /\ u \in Peer /\ SameState(p, u) /\ u.armed = p.armed /\ u.fired = p.fired
                 /\ u.taken = p.taken /\ u.locking = p.locking /\ u.outbound = x
        BY <1>0 DEF Peer, SameState
    <3>3. SameState(p, p)
        BY DEF SameState
    <3> QED
        BY <1>0, <3>1, <3>2, <3>3
  <2> HIDE DEF q
  <2>2. r \in Peer
    <3>1. q.retries + 1 \in Nat
        BY <2>1 DEF Peer
    <3>2. \A x \in Nat : [q EXCEPT !.retries = x] \in Peer
        BY <2>1 DEF Peer
    <3> QED
        BY <3>1, <3>2
  <2>3. SendHandshake(n, r) \/ SetPeer(n, q)
      BY <1>1 DEF OutboundPacket, q
  <2>4. Sound(q)
      BY <1>0, <2>1 DEF Sound, SameState, Established, TrafficDue, Waiting, RetryDue
  <2> HIDE DEF r
  <2> QED
      BY <2>2, <2>3, <2>4, StartSound, StoreSound
<1>2. CASE OutboundTake(n)
  <2> DEFINE q == [peer[n] EXCEPT !.taken = {Head(peer[n].outbound)}, !.outbound = Tail(@)]
  <2>1. /\ SameState(peer[n], q) /\ q.armed = peer[n].armed /\ q.fired = peer[n].fired
        /\ q.taken # {}
      BY <1>0 DEF Peer, SameState
  <2>2. SetPeer(n, q)
      BY <1>2 DEF OutboundTake
  <2> HIDE DEF q
  <2>3. Sound(q)
      BY <1>0, <2>1 DEF Sound, SameState, Established, TrafficDue, Waiting, RetryDue
  <2> QED
      BY <2>2, <2>3, StoreSound
<1>3. ASSUME NEW k \in peer[n].taken, OutboundSend(n, k) PROVE AllSound'
  <2> DEFINE q == [peer[n] EXCEPT !.taken = {}, !.nonce = @ + 1, !.armed = @ \union {"keepalive"}]
  <2>1. /\ SameState(peer[n], q) /\ q.armed = peer[n].armed \union {"keepalive"}
        /\ q.fired = peer[n].fired
      BY <1>0 DEF Peer, SameState
  <2>2. UNCHANGED peer \/ SetPeer(n, q)
      BY <1>3 DEF OutboundSend, Crash
  <2> HIDE DEF q
  <2>3. Sound(q)
      BY <1>0, <2>1 DEF Sound, SameState, Established, TrafficDue, Waiting, RetryDue
  <2> QED
      BY <2>2, <2>3, StoreSound, SameSound
<1>4. ASSUME NEW m \in datas, Inbound(n, m) PROVE AllSound'
  <2> DEFINE q == [peer[n] EXCEPT !.armed = @ \union {"receivedPacket"}]
  <2>1. /\ SameState(peer[n], q) /\ q.armed = peer[n].armed \union {"receivedPacket"}
        /\ q.fired = peer[n].fired /\ q.outbound = peer[n].outbound /\ q.taken = peer[n].taken
        /\ q.locking = peer[n].locking
      BY <1>0 DEF Peer, SameState
  <2>2. UNCHANGED peer \/ SetPeer(n, q)
      BY <1>4 DEF Inbound, Crash
  <2> HIDE DEF q
  <2>3. Sound(q)
      BY <1>0, <2>1 DEF Sound, SameState, Established, TrafficDue, Waiting, RetryDue
  <2> QED
      BY <2>2, <2>3, StoreSound, SameSound
<1>5. ASSUME NEW m \in handshakes, Handshake(n, m) PROVE AllSound'
  <2> DEFINE q == [peer[n] EXCEPT !.handling = {m}]
  <2>1. /\ SameState(peer[n], q) /\ q.armed = peer[n].armed
        /\ q.fired = peer[n].fired /\ q.outbound = peer[n].outbound /\ q.taken = peer[n].taken
        /\ q.locking = peer[n].locking
      BY <1>0 DEF Peer, SameState
  <2>2. UNCHANGED peer \/ SetPeer(n, q) \/ ConsumeHandshake(n, peer[n], m, peer[n].state)
      BY <1>5 DEF Handshake, Crash
  <2> HIDE DEF q
  <2>3. Sound(q)
      BY <1>0, <2>1 DEF Sound, SameState, Established, TrafficDue, Waiting, RetryDue
  <2>4. m \in HandshakeMsg /\ peer[n].state \in {0, 1, 2}
      BY <1>0 DEF TypeOK, Peer
  <2> QED
      BY <1>0, <2>2, <2>3, <2>4, StoreSound, SameSound, ConsumeSound
<1>6. ASSUME NEW m \in peer[n].handling, HandshakeLocked(n, m) PROVE AllSound'
  <2> DEFINE q == [peer[n] EXCEPT !.handling = {}]
  <2>1. q \in Peer /\ m \in HandshakeMsg
      BY <1>0 DEF Peer
  <2>2. ConsumeHandshake(n, q, m, 2)
      BY <1>6 DEF HandshakeLocked
  <2> HIDE DEF q
  <2> QED
      BY <2>1, <2>2, ConsumeSound
<1>7. ASSUME NEW t \in Timers, Expire(n, t) PROVE AllSound'
  <2> DEFINE q == [peer[n] EXCEPT !.armed = @ \ {t}, !.fired = @ \union {t}]
  <2>1. /\ SameState(peer[n], q) /\ q.armed = peer[n].armed \ {t}
        /\ q.fired = peer[n].fired \union {t} /\ q.outbound = peer[n].outbound
        /\ q.taken = peer[n].taken /\ q.locking = peer[n].locking
      BY <1>0 DEF Peer, SameState
  <2>2. SetPeer(n, q)
      BY <1>7 DEF Expire
  <2> HIDE DEF q
  <2>3. Sound(q)
      BY <1>0, <2>1 DEF Sound, SameState, Established, TrafficDue, Waiting, RetryDue
  <2> QED
      BY <2>2, <2>3, StoreSound
<1>8. CASE HandshakeTimeout(n)
  <2> DEFINE p == [peer[n] EXCEPT !.fired = @ \ {"handshakeSent"}]
             q == [p EXCEPT !.inTransport = FALSE]
  <2>1. /\ p \in Peer /\ SameState(peer[n], p) /\ p.armed = peer[n].armed
        /\ p.fired = peer[n].fired \ {"handshakeSent"} /\ p.outbound = peer[n].outbound
        /\ p.taken = peer[n].taken /\ p.locking = peer[n].locking
      BY <1>0 DEF Peer, SameState
  <2>2. /\ q \in Peer /\ SameState(p, q) /\ q.armed = p.armed /\ q.fired = p.fired
        /\ q.outbound = p.outbound /\ q.taken = p.taken /\ q.locking = p.locking
    <3> HIDE DEF p
    <3> QED
        BY <2>1 DEF Peer, SameState
  <2>3. \/ p.state > 0 /\ p.initiator /\ RetryHandshake(n, q, "HandshakeTimeout")
        \/ ~(p.state > 0 /\ p.initiator) /\ (SetPeer(n, p) \/ SetPeer(n, q))
      BY <1>8 DEF HandshakeTimeout
  <2> HIDE DEF p, q
  <2>4. /\ q.state = 2 => Established(q) /\ TrafficDue(q)
        /\ q.state = 1 => Waiting(q)
      BY <1>0, <2>1, <2>2 DEF Sound, SameState, Established, TrafficDue, Waiting
  <2>5. CASE RetryHandshake(n, q, "HandshakeTimeout")
      BY <2>2, <2>4, <2>5, RetrySound
  <2>6. CASE ~(p.state > 0 /\ p.initiator) /\ (SetPeer(n, p) \/ SetPeer(n, q))
    <3>1. p.state # 1
        BY <1>0, <2>1, <2>6 DEF Sound, SameState, Waiting
    <3>2. Sound(q) /\ Sound(p)
        BY <2>1, <2>2, <2>4, <3>1 DEF Sound, SameState, Established, TrafficDue
    <3> QED
        BY <2>6, <3>2, StoreSound
  <2> QED
      BY <2>3, <2>5, <2>6
<1>9. CASE TXTimeout(n)
  <2> DEFINE p == [peer[n] EXCEPT !.fired = @ \ {"keepalive"}]
             q == [p EXCEPT !.outbound = <<Keepalive>>]
  <2>1. /\ p \in Peer /\ SameState(peer[n], p) /\ p.armed = peer[n].armed
        /\ p.fired = peer[n].fired \ {"keepalive"}
      BY <1>0 DEF Peer, SameState
  <2>2. /\ SameState(p, q) /\ q.armed = p.armed /\ q.fired = p.fired /\ q.outbound # <<>>
    <3> HIDE DEF p
    <3> QED
        BY <2>1 DEF Peer, SameState
  <2>3. SetPeer(n, q) \/ (SetPeer(n, p) /\ p.outbound # <<>>)
      BY <1>9 DEF TXTimeout
  <2> HIDE DEF p, q
  <2>4. Sound(q) /\ (p.outbound # <<>> => Sound(p))
      BY <1>0, <2>1, <2>2 DEF Sound, SameState, Established, TrafficDue, Waiting, RetryDue
  <2> QED
      BY <2>3, <2>4, StoreSound
<1>10. CASE RXTimeout(n)
  <2> DEFINE p == [peer[n] EXCEPT !.fired = @ \ {"receivedPacket"}]
             q == [p EXCEPT !.armed = @ \ {"keepalive", "receivedPacket"}, !.locking = TRUE]
  <2>1. /\ p \in Peer /\ SameState(peer[n], p) /\ p.armed = peer[n].armed
        /\ p.fired = peer[n].fired \ {"receivedPacket"} /\ p.outbound = peer[n].outbound
        /\ p.taken = peer[n].taken /\ p.locking = peer[n].locking
      BY <1>0 DEF Peer, SameState
  <2>2. /\ SameState(p, q) /\ q.armed = p.armed \ {"keepalive", "receivedPacket"}
        /\ q.fired = p.fired /\ q.locking
    <3> HIDE DEF p
    <3> QED
        BY <2>1 DEF Peer, SameState
  <2>3. SetPeer(n, q) \/ SetPeer(n, p)
      BY <1>10 DEF RXTimeout
  <2> HIDE DEF p, q
  <2>4. Sound(q) /\ Sound(p)
      BY <1>0, <2>1, <2>2 DEF Sound, SameState, Established, TrafficDue, Waiting, RetryDue
  <2> QED
      BY <2>3, <2>4, StoreSound
<1>11. CASE RXTimeoutLocked(n)
  <2> DEFINE p == [peer[n] EXCEPT !.locking = FALSE, !.pendingLock = TRUE, !.state = 0]
             q == [p EXCEPT !.armed = @ \ {"receivedPacket", "handshakeSent"}]
  <2>1. p \in Peer /\ p.state = 0
      BY <1>0 DEF Peer
  <2>2. q \in Peer
    <3> HIDE DEF p
    <3> QED
        BY <2>1 DEF Peer
  <2>3. SetPeer(n, ResetState(q)) \/ RetryHandshake(n, p, "RXTimeout")
      BY <1>11 DEF RXTimeoutLocked
  <2> HIDE DEF p, q
  <2> QED
      BY <2>1, <2>2, <2>3, ResetSound, StoreSound, RetrySound
<1>12. ASSUME NEW c \in peer[n].retrying, SendRetry(n, c) PROVE AllSound'
  <2> DEFINE q == [peer[n] EXCEPT !.retrying = @ \ {c}]
  <2>1. q \in Peer
      BY <1>0 DEF Peer
  <2>2. SendHandshake(n, q)
      BY <1>12 DEF SendRetry
  <2> HIDE DEF q
  <2> QED
      BY <2>1, <2>2, StartSound
<1> QED
    BY <1>1, <1>2, <1>3, <1>4, <1>5, <1>6, <1>7, <1>8, <1>9, <1>10, <1>11, <1>12
    DEF Step, TimerStep

\* The Peers are sound in every state.
LEMMA SoundInvariant == Spec => [](TypeOK /\ AllSound)
<1>1. Init => TypeOK /\ AllSound
  <2>1. ASSUME Init PROVE AllSound
    <3>1. \A n \in Nodes : peer[n].state = 0
        BY <2>1 DEF Init, NewPeer
    <3>2. ASSUME NEW p, p.state = 0 PROVE Sound(p)
        BY <3>2 DEF Sound
    <3> QED
        BY <3>1, <3>2 DEF AllSound
  <2> QED
      BY <2>1, TypeInit
<1>2. TypeOK /\ AllSound /\ [Next]_vars => (TypeOK /\ AllSound)'
  <2>1. ASSUME TypeOK, AllSound, [Next]_vars PROVE AllSound'
      BY <2>1, SoundSteps, SameSound DEF Next, vars
  <2> QED
      BY <2>1, TypeStep
<1> QED
    BY <1>1, <1>2, PTL DEF Spec

\* In every behaviour a Peer in state 2 has ciphers and its routines may run, and one
\* in state 1 has the handshake state to read the response with, also after a retry
\* that was answered late, a crossing handshake or a reset (Handshake, RXTimeout,
\* TrySendHandshake, ResetState).
THEOREM StatesCohere == Spec => []StateCoherent
<1>1. AllSound => StateCoherent
    BY DEF AllSound, Sound, StateCoherent, Established, Waiting
<1> QED
    BY <1>1, SoundInvariant, PTL

\* No Peer is left with a handshake or a session that nothing will move on: a timer
\* runs, its callback is on its way, or a routine has a packet to send (the timers of
\* HandshakeTimeout, TXTimeout and RXTimeout).
THEOREM TimersAlwaysPending == Spec => []TimersPending
<1>1. AllSound => TimersPending
    BY DEF AllSound, Sound, TimersPending, RetryPending, KeepalivePending, RetryDue, TrafficDue
<1> QED
    BY <1>1, SoundInvariant, PTL

-----------------------------------------------------------------------------
(***************************************************************************)
(* Packets.  The packets of a node leave it in the order in which its tun   *)
(* device produced them: those that are sent come before the one Outbound   *)
(* has taken, and that one before those in its channel.                     *)
(***************************************************************************)

Numbered ==
    /\ \A n \in Nodes :
          /\ \A k \in peer[n].taken : k <= pkts[n]
          /\ \A i \in 1..Len(peer[n].outbound) : peer[n].outbound[i] <= pkts[n]
    /\ \A d \in datas : d.pkt <= pkts[d.from]

\* Packet k, unless it is empty, is older than all of a channel.
Before(k, queue) ==
    \A i \in 1..Len(queue) : k > 0 /\ queue[i] > 0 => k < queue[i]

Sorted(queue) ==
    \A i, j \in 1..Len(queue) : i < j /\ queue[i] > 0 /\ queue[j] > 0 => queue[i] < queue[j]

QueueOrder ==
    \A n \in Nodes : /\ Sorted(peer[n].outbound)
                     /\ \A k \in peer[n].taken : Before(k, peer[n].outbound)

SentFirst ==
    \A d \in datas :
        /\ Before(d.pkt, peer[d.from].outbound)
        /\ \A k \in peer[d.from].taken : d.pkt > 0 /\ k > 0 => d.pkt < k

OrderInv == KeyInv /\ Numbered /\ QueueOrder /\ SentFirst /\ SendOrder

(* What a step of node n does to packets, of whatever handler it is.        *)

OtherPeers(n) == \A m \in Nodes : m # n => peer'[m] = peer[m]

Kept(n) ==
    /\ OtherPeers(n)
    /\ peer'[n].taken = peer[n].taken
    /\ peer'[n].outbound \in {peer[n].outbound, <<>>, <<Keepalive>>}
    /\ UNCHANGED <<pkts, datas>>

Queued(n) ==
    /\ OtherPeers(n)
    /\ peer'[n].taken = peer[n].taken
    /\ peer'[n].outbound \in {peer[n].outbound, Append(peer[n].outbound, pkts[n] + 1)}
    /\ pkts' = [pkts EXCEPT ![n] = @ + 1]
    /\ UNCHANGED datas

Took(n) ==
    /\ OtherPeers(n)
    /\ peer[n].outbound # <<>>
    /\ peer'[n].taken = {Head(peer[n].outbound)}
    /\ peer'[n].outbound = Tail(peer[n].outbound)
    /\ UNCHANGED <<pkts, datas>>

Dispatched(n) ==
    /\ OtherPeers(n)
    /\ peer[n].tx # NoCipher
    /\ peer'[n].taken = {}
    /\ peer'[n].outbound = peer[n].outbound
    /\ \E k \in peer[n].taken : datas' = datas \union
          {[from |-> n, key |-> peer[n].tx, ctr |-> peer[n].nonce, pkt |-> k]}
    /\ UNCHANGED pkts

PacketStep(n) == Kept(n) \/ Queued(n) \/ Took(n) \/ Dispatched(n)

\* A step that stores a Peer with the same packets, or with an emptied channel.
LEMMA StoreKept ==
    ASSUME TypeOK, NEW n \in Nodes, NEW q, SetPeer(n, q),
           q.taken = peer[n].taken,
           q.outbound \in {peer[n].outbound, <<>>, <<Keepalive>>},
           UNCHANGED <<pkts, datas>>
    PROVE  Kept(n)
<1>1. peer'[n] = q /\ OtherPeers(n)
    BY DEF SetPeer, TypeOK, OtherPeers
<1> QED
    BY <1>1 DEF Kept

\* A step that touches neither a Peer nor a packet.
LEMMA SameKept ==
    ASSUME NEW n \in Nodes, UNCHANGED peer, UNCHANGED <<pkts, datas>>
    PROVE  Kept(n)
    BY DEF Kept, OtherPeers

\* The methods of Peer leave the packets alone, and ResetState empties the channel.
LEMMA MethodPackets ==
    ASSUME NEW p \in Peer, NEW e \in Nat, NEW case \in {0, 1, 2}
    PROVE  /\ ResetState(p).taken = p.taken /\ ResetState(p).outbound = <<>>
           /\ StartHandshake(p, e).taken = p.taken
           /\ StartHandshake(p, e).outbound = p.outbound
           /\ FinishHandshake(CompleteHandshake(p, e), case).taken = p.taken
           /\ FinishHandshake(CompleteHandshake(p, e), case).outbound = p.outbound
           /\ FinishHandshake(RespondHandshake(p, e), case).taken = p.taken
           /\ FinishHandshake(RespondHandshake(p, e), case).outbound = p.outbound
<1>1. ResetState(p).taken = p.taken /\ ResetState(p).outbound = <<>>
    BY DEF ResetState, Peer
<1>2. /\ StartHandshake(p, e).taken = p.taken
      /\ StartHandshake(p, e).outbound = p.outbound
    BY DEF StartHandshake, Peer
<1>3. ASSUME NEW c \in Peer
      PROVE  /\ FinishHandshake(c, case).taken = c.taken
             /\ FinishHandshake(c, case).outbound = c.outbound
    BY DEF FinishHandshake, Peer
<1>4. /\ CompleteHandshake(p, e).taken = p.taken
      /\ CompleteHandshake(p, e).outbound = p.outbound
    BY DEF CompleteHandshake, Peer
<1>5. /\ RespondHandshake(p, e).taken = p.taken
      /\ RespondHandshake(p, e).outbound = p.outbound
    BY DEF RespondHandshake, Peer
<1> QED
    BY <1>1, <1>2, <1>3, <1>4, <1>5, MethodTypes

\* handshakeP2 keeps the packets.
LEMMA ConsumeKept ==
    ASSUME TypeOK, NEW n \in Nodes, NEW p \in Peer, p.taken = peer[n].taken,
           p.outbound = peer[n].outbound, NEW m \in HandshakeMsg,
           NEW case \in {0, 1, 2}, ConsumeHandshake(n, p, m, case),
           UNCHANGED <<pkts, datas>>
    PROVE  Kept(n)
<1>1. m.e \in Nat /\ eph + 1 \in Nat
    BY DEF TypeOK, HandshakeMsg
<1>2. \/ UNCHANGED peer
      \/ SetPeer(n, FinishHandshake(CompleteHandshake(p, m.e), case))
      \/ SetPeer(n, FinishHandshake(RespondHandshake(p, eph + 1), case))
    BY DEF ConsumeHandshake, Crash
<1> QED
    BY <1>1, <1>2, MethodPackets, StoreKept, SameKept

\* A retry keeps the packets, or gives up and empties the channel.
LEMMA RetryKept ==
    ASSUME TypeOK, NEW n \in Nodes, NEW p \in Peer, p.taken = peer[n].taken,
           p.outbound = peer[n].outbound, NEW caller,
           RetryHandshake(n, p, caller), UNCHANGED <<pkts, datas>>
    PROVE  Kept(n)
<1> DEFINE q == [p EXCEPT !.retries = @ + 1]
           r == [q EXCEPT !.armed = @ \ {"handshakeSent"}]
           t == [q EXCEPT !.retrying = @ \union {caller}]
<1>1. q \in Peer /\ q.outbound = p.outbound /\ q.taken = p.taken
  <2>1. p.retries + 1 \in Nat
      BY DEF Peer
  <2>2. \A x \in Nat : [p EXCEPT !.retries = x] \in Peer
      BY DEF Peer
  <2>3. q \in Peer
      BY <2>1, <2>2
  <2> QED
      BY <2>3 DEF Peer
<1> HIDE DEF q
<1>2. r \in Peer /\ r.outbound = p.outbound /\ r.taken = p.taken
    BY <1>1 DEF Peer
<1>3. t.outbound = p.outbound /\ t.taken = p.taken
    BY <1>1 DEF Peer
<1>4. SetPeer(n, ResetState(r)) \/ SetPeer(n, t)
    BY DEF RetryHandshake, q
<1> HIDE DEF r, t
<1>5. ResetState(r).taken = p.taken /\ ResetState(r).outbound = <<>>
    BY <1>2, MethodPackets
<1> QED
    BY <1>3, <1>4, <1>5, StoreKept

\* Every step of a node is one of the four packet steps.
LEMMA PacketSteps ==
    ASSUME TypeOK, NEW n \in Nodes, Step(n)
    PROVE  PacketStep(n)
<1> USE DEF PacketStep
<1>0. peer[n] \in Peer /\ eph + 1 \in Nat
    BY DEF TypeOK
<1>1. CASE OutboundPacket(n)
  <2> DEFINE p == peer[n]
             q == IF Len(p.outbound) < OutboundChannelSize
                  THEN [p EXCEPT !.outbound = Append(@, pkts[n] + 1)] ELSE p
             r == [q EXCEPT !.retries = @ + 1]
  <2>1. /\ q \in Peer /\ q.taken = p.taken
        /\ q.outbound \in {p.outbound, Append(p.outbound, pkts[n] + 1)}
    <3>1. Append(p.outbound, pkts[n] + 1) \in Seq(Nat)
      <4>1. p.outbound \in Seq(Nat) /\ pkts[n] + 1 \in Nat
          BY <1>0 DEF Peer, TypeOK
      <4> QED
          BY <4>1, AppendFilled
    <3>2. ASSUME NEW x \in Seq(Nat)
          PROVE  LET u == [p EXCEPT !.outbound = x] IN
                 u \in Peer /\ u.taken = p.taken /\ u.outbound = x
        BY <1>0 DEF Peer
    <3> QED
        BY <1>0, <3>1, <3>2
  <2> HIDE DEF q
  <2>2. r \in Peer /\ r.taken = q.taken /\ r.outbound = q.outbound
    <3>1. q.retries + 1 \in Nat
        BY <2>1 DEF Peer
    <3>2. \A x \in Nat : [q EXCEPT !.retries = x] \in Peer
        BY <2>1 DEF Peer
    <3>3. r \in Peer
        BY <3>1, <3>2
    <3> QED
        BY <2>1, <3>3 DEF Peer
  <2>3. SetPeer(n, StartHandshake(r, eph + 1)) \/ SetPeer(n, q)
      BY <1>1 DEF OutboundPacket, SendHandshake, q
  <2> HIDE DEF r
  <2>4. /\ StartHandshake(r, eph + 1).taken = q.taken
        /\ StartHandshake(r, eph + 1).outbound = q.outbound
      BY <1>0, <2>2, MethodPackets
  <2>5. PICK u : SetPeer(n, u) /\ u.taken = q.taken /\ u.outbound = q.outbound
      BY <2>3, <2>4
  <2>6. peer'[n] = u /\ OtherPeers(n)
      BY <2>5 DEF SetPeer, TypeOK, OtherPeers
  <2>7. pkts' = [pkts EXCEPT ![n] = @ + 1] /\ UNCHANGED datas
      BY <1>1 DEF OutboundPacket
  <2> QED
      BY <2>1, <2>5, <2>6, <2>7 DEF Queued
<1>2. CASE OutboundTake(n)
  <2> DEFINE q == [peer[n] EXCEPT !.taken = {Head(peer[n].outbound)}, !.outbound = Tail(@)]
  <2>1. q.taken = {Head(peer[n].outbound)} /\ q.outbound = Tail(peer[n].outbound)
      BY <1>0 DEF Peer
  <2>2. SetPeer(n, q) /\ peer[n].outbound # <<>> /\ UNCHANGED <<pkts, datas>>
      BY <1>2 DEF OutboundTake
  <2> HIDE DEF q
  <2>3. peer'[n] = q /\ OtherPeers(n)
      BY <2>2 DEF SetPeer, TypeOK, OtherPeers
  <2> QED
      BY <2>1, <2>2, <2>3 DEF Took
<1>3. ASSUME NEW k \in peer[n].taken, OutboundSend(n, k) PROVE PacketStep(n)
  <2> DEFINE q == [peer[n] EXCEPT !.taken = {}, !.nonce = @ + 1, !.armed = @ \union {"keepalive"}]
             d == [from |-> n, key |-> peer[n].tx, ctr |-> peer[n].nonce, pkt |-> k]
  <2>1. q.taken = {} /\ q.outbound = peer[n].outbound
      BY <1>0 DEF Peer
  <2>2. /\ UNCHANGED pkts
        /\ \/ UNCHANGED peer /\ UNCHANGED datas
           \/ peer[n].tx # NoCipher /\ SetPeer(n, q) /\ datas' = datas \union {d}
      BY <1>3 DEF OutboundSend, Crash
  <2>3. CASE UNCHANGED peer /\ UNCHANGED datas
      BY <2>2, <2>3, SameKept
  <2>4. CASE peer[n].tx # NoCipher /\ SetPeer(n, q) /\ datas' = datas \union {d}
    <3> HIDE DEF q
    <3>1. peer'[n] = q /\ OtherPeers(n)
        BY <2>4 DEF SetPeer, TypeOK, OtherPeers
    <3> QED
        BY <2>1, <2>2, <2>4, <3>1 DEF Dispatched
  <2> QED
      BY <2>2, <2>3, <2>4
<1>4. ASSUME NEW m \in datas, Inbound(n, m) PROVE PacketStep(n)
  <2> DEFINE q == [peer[n] EXCEPT !.armed = @ \union {"receivedPacket"}]
  <2>1. q.outbound = peer[n].outbound /\ q.taken = peer[n].taken
      BY <1>0 DEF Peer
  <2>2. UNCHANGED <<pkts, datas>> /\ (UNCHANGED peer \/ SetPeer(n, q))
      BY <1>4 DEF Inbound, Crash
  <2> HIDE DEF q
  <2> QED
      BY <2>1, <2>2, StoreKept, SameKept
<1>5. ASSUME NEW m \in handshakes, Handshake(n, m) PROVE PacketStep(n)
  <2> DEFINE q == [peer[n] EXCEPT !.handling = {m}]
  <2>1. q.outbound = peer[n].outbound /\ q.taken = peer[n].taken
      BY <1>0 DEF Peer
  <2>2. /\ UNCHANGED <<pkts, datas>>
        /\ UNCHANGED peer \/ SetPeer(n, q) \/ ConsumeHandshake(n, peer[n], m, peer[n].state)
      BY <1>5 DEF Handshake, Crash
  <2> HIDE DEF q
  <2>3. m \in HandshakeMsg /\ peer[n].state \in {0, 1, 2}
      BY <1>0 DEF TypeOK, Peer
  <2> QED
      BY <1>0, <2>1, <2>2, <2>3, StoreKept, SameKept, ConsumeKept
<1>6. ASSUME NEW m \in peer[n].handling, HandshakeLocked(n, m) PROVE PacketStep(n)
  <2> DEFINE q == [peer[n] EXCEPT !.handling = {}]
  <2>1. /\ q \in Peer /\ m \in HandshakeMsg
        /\ q.outbound = peer[n].outbound /\ q.taken = peer[n].taken
      BY <1>0 DEF Peer
  <2>2. ConsumeHandshake(n, q, m, 2) /\ UNCHANGED <<pkts, datas>>
      BY <1>6 DEF HandshakeLocked
  <2> HIDE DEF q
  <2> QED
      BY <2>1, <2>2, ConsumeKept
<1>7. ASSUME NEW t \in Timers, Expire(n, t) PROVE PacketStep(n)
  <2> DEFINE q == [peer[n] EXCEPT !.armed = @ \ {t}, !.fired = @ \union {t}]
  <2>1. q.outbound = peer[n].outbound /\ q.taken = peer[n].taken
      BY <1>0 DEF Peer
  <2>2. SetPeer(n, q) /\ UNCHANGED <<pkts, datas>>
      BY <1>7 DEF Expire
  <2> HIDE DEF q
  <2> QED
      BY <2>1, <2>2, StoreKept
<1>8. CASE HandshakeTimeout(n)
  <2> DEFINE p == [peer[n] EXCEPT !.fired = @ \ {"handshakeSent"}]
             q == [p EXCEPT !.inTransport = FALSE]
  <2>1. p \in Peer /\ p.outbound = peer[n].outbound /\ p.taken = peer[n].taken
      BY <1>0 DEF Peer
  <2>2. q \in Peer /\ q.outbound = p.outbound /\ q.taken = p.taken
    <3> HIDE DEF p
    <3> QED
        BY <2>1 DEF Peer
  <2>3. /\ UNCHANGED <<pkts, datas>>
        /\ RetryHandshake(n, q, "HandshakeTimeout") \/ SetPeer(n, p) \/ SetPeer(n, q)
      BY <1>8 DEF HandshakeTimeout
  <2> HIDE DEF p, q
  <2> QED
      BY <2>1, <2>2, <2>3, StoreKept, RetryKept
<1>9. CASE TXTimeout(n)
  <2> DEFINE p == [peer[n] EXCEPT !.fired = @ \ {"keepalive"}]
             q == [p EXCEPT !.outbound = <<Keepalive>>]
  <2>1. p \in Peer /\ p.outbound = peer[n].outbound /\ p.taken = peer[n].taken
      BY <1>0 DEF Peer
  <2>2. q.outbound = <<Keepalive>> /\ q.taken = p.taken
    <3> HIDE DEF p
    <3> QED
        BY <2>1 DEF Peer
  <2>3. UNCHANGED <<pkts, datas>> /\ (SetPeer(n, q) \/ SetPeer(n, p))
      BY <1>9 DEF TXTimeout
  <2> HIDE DEF p, q
  <2> QED
      BY <2>1, <2>2, <2>3, StoreKept
<1>10. CASE RXTimeout(n)
  <2> DEFINE p == [peer[n] EXCEPT !.fired = @ \ {"receivedPacket"}]
             q == [p EXCEPT !.armed = @ \ {"keepalive", "receivedPacket"}, !.locking = TRUE]
  <2>1. p \in Peer /\ p.outbound = peer[n].outbound /\ p.taken = peer[n].taken
      BY <1>0 DEF Peer
  <2>2. q.outbound = p.outbound /\ q.taken = p.taken
    <3> HIDE DEF p
    <3> QED
        BY <2>1 DEF Peer
  <2>3. UNCHANGED <<pkts, datas>> /\ (SetPeer(n, q) \/ SetPeer(n, p))
      BY <1>10 DEF RXTimeout
  <2> HIDE DEF p, q
  <2> QED
      BY <2>1, <2>2, <2>3, StoreKept
<1>11. CASE RXTimeoutLocked(n)
  <2> DEFINE p == [peer[n] EXCEPT !.locking = FALSE, !.pendingLock = TRUE, !.state = 0]
             q == [p EXCEPT !.armed = @ \ {"receivedPacket", "handshakeSent"}]
  <2>1. p \in Peer /\ p.outbound = peer[n].outbound /\ p.taken = peer[n].taken
      BY <1>0 DEF Peer
  <2>2. q \in Peer /\ q.taken = p.taken
    <3> HIDE DEF p
    <3> QED
        BY <2>1 DEF Peer
  <2>3. /\ UNCHANGED <<pkts, datas>>
        /\ SetPeer(n, ResetState(q)) \/ RetryHandshake(n, p, "RXTimeout")
      BY <1>11 DEF RXTimeoutLocked
  <2> HIDE DEF p, q
  <2>4. ResetState(q).taken = p.taken /\ ResetState(q).outbound = <<>>
      BY <2>2, MethodPackets
  <2> QED
      BY <2>1, <2>3, <2>4, StoreKept, RetryKept
<1>12. ASSUME NEW c \in peer[n].retrying, SendRetry(n, c) PROVE PacketStep(n)
  <2> DEFINE q == [peer[n] EXCEPT !.retrying = @ \ {c}]
  <2>1. q \in Peer /\ q.outbound = peer[n].outbound /\ q.taken = peer[n].taken
      BY <1>0 DEF Peer
  <2>2. SetPeer(n, StartHandshake(q, eph + 1)) /\ UNCHANGED <<pkts, datas>>
      BY <1>12 DEF SendRetry, SendHandshake
  <2> HIDE DEF q
  <2>3. /\ StartHandshake(q, eph + 1).taken = peer[n].taken
        /\ StartHandshake(q, eph + 1).outbound = peer[n].outbound
      BY <1>0, <2>1, MethodPackets
  <2> QED
      BY <2>2, <2>3, StoreKept
<1> QED
    BY <1>1, <1>2, <1>3, <1>4, <1>5, <1>6, <1>7, <1>8, <1>9, <1>10, <1>11, <1>12
    DEF Step, TimerStep

Packets == Numbered /\ QueueOrder /\ SentFirst

\* Types of what the order compares.
LEMMA PacketTypes ==
    ASSUME TypeOK
    PROVE  /\ \A n \in Nodes : /\ pkts[n] \in Nat
                               /\ peer[n].outbound \in Seq(Nat)
                               /\ peer[n].taken \subseteq Nat
                               /\ peer[n].nonce \in Nat
           /\ \A d \in datas : d.from \in Nodes /\ d.pkt \in Nat /\ d.ctr \in Nat
<1>1. \A n \in Nodes : pkts[n] \in Nat /\ peer[n] \in Peer
    BY DEF TypeOK
<1>2. \A p \in Peer : p.outbound \in Seq(Nat) /\ p.taken \subseteq Nat /\ p.nonce \in Nat
    BY DEF Peer
<1>3. \A d \in datas : d.from \in Nodes /\ d.pkt \in Nat /\ d.ctr \in Nat
    BY DEF TypeOK, DataMsg
<1> QED
    BY <1>1, <1>2, <1>3

\* An empty channel, and one with a keepalive, hold nothing to overtake.
LEMMA EmptyQueue ==
    ASSUME NEW q \in {<<>>, <<Keepalive>>}
    PROVE  Sorted(q) /\ (\A k : Before(k, q)) /\ \A b \in Nat, i \in 1..Len(q) : q[i] <= b
<1>1. CASE q = <<>>
    BY <1>1 DEF Sorted, Before
<1>2. CASE q = <<Keepalive>>
    BY <1>2 DEF Sorted, Before, Keepalive
<1> QED
    BY <1>1, <1>2

\* A packet newer than a channel goes to its end.
LEMMA AppendOrder ==
    ASSUME NEW q \in Seq(Nat), NEW b \in Nat, Sorted(q), \A i \in 1..Len(q) : q[i] <= b
    PROVE  LET r == Append(q, b + 1) IN
           /\ Sorted(r)
           /\ \A i \in 1..Len(r) : r[i] <= b + 1
           /\ \A k \in Nat : Before(k, q) /\ k <= b => Before(k, r)
<1> DEFINE r == Append(q, b + 1)
<1>1. /\ Len(r) = Len(q) + 1 /\ Len(q) \in Nat /\ r[Len(q) + 1] = b + 1
      /\ \A i \in 1..Len(q) : r[i] = q[i] /\ q[i] \in Nat
    OBVIOUS
<1> HIDE DEF r
<1>2. \A i \in 1..Len(r) : i \in 1..Len(q) \/ i = Len(q) + 1
    BY <1>1
<1>3. Sorted(r)
    BY <1>1, <1>2 DEF Sorted
<1>4. \A i \in 1..Len(r) : r[i] <= b + 1
    BY <1>1, <1>2
<1>5. ASSUME NEW k \in Nat, Before(k, q), k <= b PROVE Before(k, r)
    BY <1>1, <1>2, <1>5 DEF Before
<1> QED
    BY <1>3, <1>4, <1>5 DEF r

\* What is behind the first packet of a channel is newer than it.
LEMMA TakeOrder ==
    ASSUME NEW q \in Seq(Nat), q # <<>>, Sorted(q)
    PROVE  /\ Head(q) = q[1] /\ 1 \in 1..Len(q)
           /\ Sorted(Tail(q)) /\ Before(Head(q), Tail(q))
           /\ \A k : Before(k, q) => Before(k, Tail(q))
           /\ \A b \in Nat : (\A i \in 1..Len(q) : q[i] <= b)
                             => \A i \in 1..Len(Tail(q)) : Tail(q)[i] <= b
<1>1. /\ Head(q) = q[1] /\ Len(q) \in Nat /\ Len(q) >= 1
      /\ Len(Tail(q)) = Len(q) - 1
      /\ \A i \in 1..Len(Tail(q)) : Tail(q)[i] = q[i + 1] /\ i + 1 \in 1..Len(q)
      /\ \A i \in 1..Len(q) : q[i] \in Nat
    OBVIOUS
<1> DEFINE h == Head(q)
           t == Tail(q)
<1> HIDE DEF h, t
<1>2. Sorted(t) /\ Before(h, t)
    BY <1>1 DEF Sorted, Before, h, t
<1>3. \A k : Before(k, q) => Before(k, t)
    BY <1>1 DEF Before, t
<1>4. \A b \in Nat : (\A i \in 1..Len(q) : q[i] <= b) => \A i \in 1..Len(t) : t[i] <= b
    BY <1>1 DEF t
<1> QED
    BY <1>1, <1>2, <1>3, <1>4 DEF h, t

\* A step that keeps the packets, or drops those of the channel.
LEMMA KeptOrder ==
    ASSUME TypeOK, Packets, NEW n \in Nodes, Kept(n)
    PROVE  Packets'
<1>1. ASSUME NEW m \in Nodes
      PROVE  /\ peer'[m].taken = peer[m].taken
             /\ peer'[m].outbound = peer[m].outbound \/ peer'[m].outbound \in {<<>>, <<Keepalive>>}
    BY DEF Kept, OtherPeers
<1>2. pkts' = pkts /\ datas' = datas
    BY DEF Kept
<1>3. Numbered'
    BY <1>1, <1>2, EmptyQueue, PacketTypes DEF Packets, Numbered
<1>4. QueueOrder'
    BY <1>1, <1>2, EmptyQueue DEF Packets, QueueOrder
<1>5. SentFirst'
    BY <1>1, <1>2, EmptyQueue, PacketTypes DEF Packets, SentFirst
<1> QED
    BY <1>3, <1>4, <1>5 DEF Packets

\* A packet from the tun device is the newest of its node.
LEMMA QueuedOrder ==
    ASSUME TypeOK, Packets, NEW n \in Nodes, Queued(n)
    PROVE  Packets'
<1> DEFINE q == peer[n].outbound
           r == Append(q, pkts[n] + 1)
<1>0. /\ pkts[n] \in Nat /\ q \in Seq(Nat) /\ Sorted(q)
      /\ \A i \in 1..Len(q) : q[i] <= pkts[n]
    BY PacketTypes DEF Packets, Numbered, QueueOrder
<1>1. /\ Sorted(r) /\ \A i \in 1..Len(r) : r[i] <= pkts[n] + 1
      /\ \A k \in Nat : Before(k, q) /\ k <= pkts[n] => Before(k, r)
    BY <1>0, AppendOrder
<1>2. /\ peer'[n].taken = peer[n].taken
      /\ peer'[n].outbound = q \/ peer'[n].outbound = r
      /\ \A m \in Nodes : m # n => peer'[m] = peer[m]
      /\ pkts'[n] = pkts[n] + 1 /\ \A m \in Nodes : m # n => pkts'[m] = pkts[m]
      /\ datas' = datas
    BY DEF Queued, OtherPeers, TypeOK
<1> HIDE DEF q, r
<1>3. \A m \in Nodes : pkts[m] <= pkts'[m] /\ pkts[m] \in Nat /\ pkts'[m] \in Nat
    BY <1>2, PacketTypes
<1>4. Numbered'
  <2>1. ASSUME NEW m \in Nodes
        PROVE  /\ \A k \in peer'[m].taken : k <= pkts'[m]
               /\ \A i \in 1..Len(peer'[m].outbound) : peer'[m].outbound[i] <= pkts'[m]
    <3>1. CASE m # n
        BY <1>2, <3>1 DEF Packets, Numbered
    <3>2. CASE m = n
      <4>1. \A k \in peer'[n].taken : k <= pkts'[n]
          BY <1>2, PacketTypes DEF Packets, Numbered
      <4>2. \A i \in 1..Len(q) : q[i] \in Nat
          BY <1>0
      <4>3. \A i \in 1..Len(peer'[n].outbound) : peer'[n].outbound[i] <= pkts'[n]
          BY <1>0, <1>1, <1>2, <4>2
      <4> QED
          BY <3>2, <4>1, <4>3
    <3> QED
        BY <3>1, <3>2
  <2>2. ASSUME NEW d \in datas' PROVE d.pkt <= pkts'[d.from]
      BY <1>2, <1>3, PacketTypes DEF Packets, Numbered
  <2> QED
      BY <2>1, <2>2 DEF Numbered
<1>5. QueueOrder'
  <2>1. ASSUME NEW m \in Nodes
        PROVE  /\ Sorted(peer'[m].outbound)
               /\ \A k \in peer'[m].taken : Before(k, peer'[m].outbound)
    <3>1. CASE m # n
        BY <1>2, <3>1 DEF Packets, QueueOrder
    <3>2. CASE m = n
      <4>1. \A k \in peer[n].taken : k \in Nat /\ k <= pkts[n] /\ Before(k, q)
          BY PacketTypes DEF Packets, Numbered, QueueOrder, q
      <4> QED
          BY <1>0, <1>1, <1>2, <3>2, <4>1
    <3> QED
        BY <3>1, <3>2
  <2> QED
      BY <2>1 DEF QueueOrder
<1>6. SentFirst'
  <2>1. ASSUME NEW d \in datas'
        PROVE  /\ Before(d.pkt, peer'[d.from].outbound)
               /\ \A k \in peer'[d.from].taken : d.pkt > 0 /\ k > 0 => d.pkt < k
    <3>0. d \in datas /\ d.from \in Nodes /\ d.pkt \in Nat
        BY <1>2, PacketTypes
    <3>1. CASE d.from # n
        BY <1>2, <3>0, <3>1 DEF Packets, SentFirst
    <3>2. CASE d.from = n
      <4>1. d.pkt <= pkts[n] /\ Before(d.pkt, q)
          BY <3>0, <3>2 DEF Packets, Numbered, SentFirst, q
      <4>2. Before(d.pkt, peer'[n].outbound)
          BY <1>1, <1>2, <3>0, <4>1
      <4> QED
          BY <1>2, <3>0, <3>2, <4>2 DEF Packets, SentFirst
    <3> QED
        BY <3>1, <3>2
  <2> QED
      BY <2>1 DEF SentFirst
<1> QED
    BY <1>4, <1>5, <1>6 DEF Packets

\* Outbound takes the oldest packet of its channel.
LEMMA TookOrder ==
    ASSUME TypeOK, Packets, NEW n \in Nodes, Took(n)
    PROVE  Packets'
<1> DEFINE q == peer[n].outbound
           h == Head(q)
           t == Tail(q)
<1>0. /\ q \in Seq(Nat) /\ q # <<>> /\ Sorted(q) /\ pkts[n] \in Nat
      /\ \A i \in 1..Len(q) : q[i] <= pkts[n]
    BY PacketTypes DEF Packets, Numbered, QueueOrder, Took
<1>1. /\ h = q[1] /\ 1 \in 1..Len(q) /\ h \in Nat /\ h <= pkts[n]
      /\ Sorted(t) /\ Before(h, t)
      /\ \A k : Before(k, q) => Before(k, t)
      /\ \A i \in 1..Len(t) : t[i] <= pkts[n]
  <2>1. h = q[1] /\ 1 \in 1..Len(q) /\ Sorted(t) /\ Before(h, t)
      BY <1>0, TakeOrder
  <2>2. \A k : Before(k, q) => Before(k, t)
      BY <1>0, TakeOrder
  <2>3. \A i \in 1..Len(t) : t[i] <= pkts[n]
      BY <1>0, TakeOrder
  <2>4. h \in Nat /\ h <= pkts[n]
    <3>1. q[1] \in Nat /\ q[1] <= pkts[n]
        BY <1>0, <2>1
    <3> QED
        BY <2>1, <3>1
  <2> QED
      BY <2>1, <2>2, <2>3, <2>4
<1>2. /\ peer'[n].taken = {h} /\ peer'[n].outbound = t
      /\ \A m \in Nodes : m # n => peer'[m] = peer[m]
      /\ datas' = datas /\ pkts' = pkts
    BY DEF Took, OtherPeers
<1>3. \A k : Before(k, q) /\ k > 0 /\ h > 0 => k < h
    BY <1>1 DEF Before
<1> HIDE DEF q, h, t
<1>4. Numbered'
    BY <1>1, <1>2 DEF Packets, Numbered
<1>5. QueueOrder'
    BY <1>1, <1>2 DEF Packets, QueueOrder
<1>6. SentFirst'
  <2>1. ASSUME NEW d \in datas
        PROVE  /\ Before(d.pkt, peer'[d.from].outbound)
               /\ \A k \in peer'[d.from].taken : d.pkt > 0 /\ k > 0 => d.pkt < k
    <3>1. CASE d.from # n
        BY <1>2, <3>1, PacketTypes DEF Packets, SentFirst
    <3>2. CASE d.from = n
      <4>1. Before(d.pkt, q)
          BY <3>2 DEF Packets, SentFirst, q
      <4> QED
          BY <1>1, <1>2, <1>3, <3>2, <4>1
    <3> QED
        BY <3>1, <3>2
  <2> QED
      BY <1>2, <2>1 DEF SentFirst
<1> QED
    BY <1>4, <1>5, <1>6 DEF Packets

\* What Outbound sends is newer than what it has sent, and so is its counter.
LEMMA DispatchedOrder ==
    ASSUME KeyInv, Packets, SendOrder, NEW n \in Nodes, Dispatched(n)
    PROVE  Packets' /\ SendOrder'
<1>0. TypeOK
    BY DEF KeyInv
<1>1. PICK k \in peer[n].taken : datas' = datas \union
          {[from |-> n, key |-> peer[n].tx, ctr |-> peer[n].nonce, pkt |-> k]}
    BY DEF Dispatched
<1> DEFINE c == [from |-> n, key |-> peer[n].tx, ctr |-> peer[n].nonce, pkt |-> k]
<1>2. /\ c.from = n /\ c.key = peer[n].tx /\ c.ctr = peer[n].nonce /\ c.pkt = k
      /\ datas' = datas \union {c}
    BY <1>1
<1> HIDE DEF c
<1>3. /\ peer'[n].taken = {} /\ peer'[n].outbound = peer[n].outbound
      /\ \A m \in Nodes : m # n => peer'[m] = peer[m]
      /\ pkts' = pkts
    BY DEF Dispatched, OtherPeers
<1>4. Numbered'
    BY <1>2, <1>3 DEF Packets, Numbered
<1>5. QueueOrder'
    BY <1>3 DEF Packets, QueueOrder
<1>6. SentFirst'
  <2>1. ASSUME NEW d \in datas
        PROVE  /\ Before(d.pkt, peer'[d.from].outbound)
               /\ \A j \in peer'[d.from].taken : d.pkt > 0 /\ j > 0 => d.pkt < j
      BY <1>0, <1>3, PacketTypes DEF Packets, SentFirst
  <2>2. Before(c.pkt, peer'[c.from].outbound) /\ peer'[c.from].taken = {}
      BY <1>2, <1>3 DEF Packets, QueueOrder
  <2> QED
      BY <1>2, <2>1, <2>2 DEF SentFirst
<1>7. SendOrder'
  <2>1. ASSUME NEW d \in datas, d.key = c.key
        PROVE  /\ d.ctr < c.ctr
               /\ d.pkt > 0 /\ c.pkt > 0 => d.pkt < c.pkt
    <3>1. d.from = n
        BY <1>2, <2>1, KeyOwner DEF Dispatched
    <3>2. d.ctr < c.ctr
        BY <1>2, <2>1, <3>1 DEF KeyInv, NonceAhead
    <3>3. d.pkt > 0 /\ c.pkt > 0 => d.pkt < c.pkt
        BY <1>2, <3>1 DEF Packets, SentFirst
    <3> QED
        BY <3>2, <3>3
  <2>2. c.ctr \in Nat /\ \A d \in datas : d.ctr \in Nat
      BY <1>0, <1>2, PacketTypes
  <2>3. ASSUME NEW x \in datas', NEW y \in datas', x.key = y.key, x.ctr < y.ctr,
               x.pkt > 0, y.pkt > 0
        PROVE  x.pkt < y.pkt
    <3>1. CASE x \in datas /\ y \in datas
        BY <2>3, <3>1 DEF SendOrder
    <3>2. CASE x \in datas /\ y = c
        BY <2>1, <2>3, <3>2
    <3>3. CASE x = c
        BY <1>2, <2>1, <2>2, <2>3, <3>3
    <3> QED
        BY <1>2, <3>1, <3>2, <3>3
  <2> QED
      BY <2>3 DEF SendOrder
<1> QED
    BY <1>4, <1>5, <1>6, <1>7 DEF Packets

\* Packets leave in order in every state.
LEMMA OrderInvariant == Spec => []OrderInv
<1>1. Init => OrderInv
  <2> SUFFICES ASSUME Init PROVE OrderInv
      OBVIOUS
  <2>1. \A n \in Nodes : peer[n].outbound = <<>> /\ peer[n].taken = {}
      BY DEF Init, NewPeer
  <2>2. datas = {}
      BY DEF Init
  <2> QED
      BY <2>1, <2>2, KeyInit, EmptyQueue
      DEF OrderInv, Numbered, QueueOrder, SentFirst, SendOrder
<1>2. OrderInv /\ [Next]_vars => OrderInv'
  <2> SUFFICES ASSUME OrderInv, [Next]_vars PROVE OrderInv'
      OBVIOUS
  <2>0. KeyInv /\ TypeOK /\ Packets /\ SendOrder /\ KeyInv'
      BY KeyNext DEF OrderInv, Packets, KeyInv
  <2>1. ASSUME NEW n \in Nodes, Step(n) PROVE Packets' /\ SendOrder'
    <3>1. PacketStep(n)
        BY <2>0, <2>1, PacketSteps
    <3>2. CASE Kept(n)
        BY <2>0, <3>2, KeptOrder DEF Kept, SendOrder
    <3>3. CASE Queued(n)
        BY <2>0, <3>3, QueuedOrder DEF Queued, SendOrder
    <3>4. CASE Took(n)
        BY <2>0, <3>4, TookOrder DEF Took, SendOrder
    <3>5. CASE Dispatched(n)
        BY <2>0, <3>5, DispatchedOrder
    <3> QED
        BY <3>1, <3>2, <3>3, <3>4, <3>5 DEF PacketStep
  <2>2. CASE UNCHANGED vars
      BY <2>0, <2>2 DEF vars, OrderInv, Packets, Numbered, QueueOrder, SentFirst, SendOrder
  <2> QED
      BY <2>0, <2>1, <2>2 DEF Next, OrderInv, Packets
<1> QED
    BY <1>1, <1>2, PTL DEF Spec

\* The counters of a session follow the order of the tun device in every behaviour,
\* also for a packet that Outbound had taken when ResetState flushed the channel or
\* TXTimeout put a keepalive behind it.
THEOREM PacketsSentInOrder == Spec => []SendOrder
<1>1. OrderInv => SendOrder
    BY DEF OrderInv
<1> QED
    BY <1>1, OrderInvariant, PTL

-----------------------------------------------------------------------------
(* The tunnel implements the channel.                                       *)

\* A step of the tunnel is a step of the channel, or leaves its two ends alone.
LEMMA ChannelStep ==
    ASSUME OrderInv, [Next]_vars
    PROVE  [Channel!Next]_(Channel!vars)
<1>0. TypeOK
    BY DEF OrderInv, KeyInv
<1>1. CASE UNCHANGED vars
    BY <1>1 DEF vars, Channel!vars
<1>2. ASSUME NEW n \in Nodes, OutboundPacket(n) PROVE Channel!Next
  <2>1. Channel!Accept(n)
      BY <1>2 DEF OutboundPacket, Channel!Accept
  <2> QED
      BY <2>1 DEF Channel!Next
<1>3. ASSUME NEW n \in Nodes, NEW m \in datas, Inbound(n, m)
      PROVE  Channel!Next \/ UNCHANGED <<pkts, delivered>>
  <2>1. m.from = Other(n) /\ m.pkt \in Nat /\ m.pkt <= pkts[Other(n)] /\ pkts[Other(n)] \in Nat
      BY <1>0, <1>3, PacketTypes DEF Inbound, Receive, OrderInv, Numbered
  <2>2. /\ UNCHANGED pkts
        /\ \/ UNCHANGED delivered
           \/ m.pkt # Keepalive /\ delivered' = [delivered EXCEPT ![n] = @ \union {m.pkt}]
      BY <1>3 DEF Inbound
  <2>3. CASE m.pkt # Keepalive /\ delivered' = [delivered EXCEPT ![n] = @ \union {m.pkt}]
    <3>1. m.pkt \in 1..pkts[Channel!OtherEnd(n)]
        BY <2>1, <2>3 DEF Keepalive, Other, Channel!OtherEnd
    <3>2. Channel!Deliver(n)
        BY <2>2, <2>3, <3>1 DEF Channel!Deliver
    <3> QED
        BY <3>2 DEF Channel!Next
  <2> QED
      BY <2>2, <2>3
<1>4. ASSUME NEW n \in Nodes, Step(n), ~OutboundPacket(n), ~\E m \in datas : Inbound(n, m)
      PROVE  UNCHANGED <<pkts, delivered>>
    BY <1>4 DEF Step, OutboundTake, OutboundSend, Handshake, HandshakeLocked, TimerStep, Expire,
       HandshakeTimeout, TXTimeout, RXTimeout, RXTimeoutLocked, SendRetry
<1> QED
    BY <1>1, <1>2, <1>3, <1>4 DEF Next, Channel!vars

\* The tunnel is an unreliable channel between the two tun devices: whatever is written
\* to one was read from the other, and a keepalive never is (OutboundPacket, Inbound).
THEOREM TunnelIsChannel == Spec => ChannelSpec
<1>1. Init => Channel!Init
    BY DEF Init, Channel!Init
<1>2. OrderInv /\ [Next]_vars => [Channel!Next]_(Channel!vars)
    BY ChannelStep
<1> QED
    BY <1>1, <1>2, OrderInvariant, PTL DEF Spec, ChannelSpec, Channel!Spec

-----------------------------------------------------------------------------
(***************************************************************************)
(* One initiator.  Only the tun device of one node, x, produces packets,    *)
(* no handshake is sent again because its answer is late, and UDP delivers  *)
(* no message twice.  Then at most one handshake message is ever under way, *)
(* and it belongs to the handshake that x waits for.                        *)
(***************************************************************************)

OnlyTalker(x)  == Talkers \subseteq {x}
NoSecondCopies == "handshakeSent" \notin ExpiringTimers /\ MaxDuplicates = 0

Local(p) ==
    /\ p.pendingLock <=> p.state # 2
    /\ p.state = 2 => p.inTransport
    /\ "handshakeSent" \notin p.fired
    /\ p.retrying \subseteq {"RXTimeout"}

Talking(p)   == p.handling = {} /\ (p.retrying # {} => p.state = 0 /\ p.inTransport)
Listening(p) == ~p.initiator /\ p.retrying = {} /\ p.state # 1

Role(x, n, p) == Local(p) /\ (n = x => Talking(p)) /\ (n # x => Listening(p))

Roles(x) == \A n \in Nodes : Alive(n) /\ Role(x, n, peer[n])

Expected(x, m) == peer[x].state = 1 /\ m.i = peer[x].hs

UnderWay(x) ==
    /\ \A m \in handshakes : m.ctr = IF m.from = x THEN 0 ELSE 1
    /\ \A m, k \in handshakes \ seen : m = k
    /\ \A m \in handshakes \ seen : Expected(x, m) /\ peer[Other(x)].handling = {}
    /\ \A m \in peer[Other(x)].handling : Expected(x, m)
    /\ seen \subseteq handshakes \union datas

RolesInv(x) == KeyInv /\ AllSound /\ Roles(x) /\ UnderWay(x)

\* What the methods of Peer do to the fields that the roles are about.
LEMMA MethodRoles ==
    ASSUME NEW p \in Peer, NEW e \in Nat, NEW case \in {0, 1, 2}
    PROVE  /\ LET r == ResetState(p) IN
              /\ r.state = 0 /\ ~r.initiator /\ r.pendingLock = p.pendingLock
              /\ r.fired = p.fired /\ r.retrying = p.retrying /\ r.handling = p.handling
           /\ LET r == StartHandshake(p, e) IN
              /\ r.state = 1 /\ r.hs = e /\ r.pendingLock = p.pendingLock
              /\ r.fired = p.fired /\ r.retrying = p.retrying /\ r.handling = p.handling
           /\ LET r == FinishHandshake(CompleteHandshake(p, e), case) IN
              /\ r.state = 2 /\ ~r.pendingLock /\ r.inTransport
              /\ r.fired = p.fired /\ r.retrying = p.retrying /\ r.handling = p.handling
           /\ LET r == FinishHandshake(RespondHandshake(p, e), case) IN
              /\ r.state = 2 /\ ~r.pendingLock /\ r.inTransport /\ ~r.initiator
              /\ r.fired = p.fired /\ r.retrying = p.retrying /\ r.handling = p.handling
<1>1. LET r == ResetState(p) IN
      /\ r.state = 0 /\ ~r.initiator /\ r.pendingLock = p.pendingLock
      /\ r.fired = p.fired /\ r.retrying = p.retrying /\ r.handling = p.handling
    BY DEF ResetState, Peer
<1>2. LET r == StartHandshake(p, e) IN
      /\ r.state = 1 /\ r.hs = e /\ r.pendingLock = p.pendingLock
      /\ r.fired = p.fired /\ r.retrying = p.retrying /\ r.handling = p.handling
    BY DEF StartHandshake, Peer
<1>3. ASSUME NEW c \in Peer
      PROVE  LET r == FinishHandshake(c, case) IN
             /\ r.state = 2 /\ ~r.pendingLock /\ r.inTransport /\ r.initiator = c.initiator
             /\ r.fired = c.fired /\ r.retrying = c.retrying /\ r.handling = c.handling
    BY DEF FinishHandshake, Peer
<1>4. LET r == CompleteHandshake(p, e) IN
      /\ r \in Peer
      /\ r.fired = p.fired /\ r.retrying = p.retrying /\ r.handling = p.handling
    BY MethodTypes DEF CompleteHandshake, Peer
<1>5. LET r == RespondHandshake(p, e) IN
      /\ r \in Peer /\ ~r.initiator
      /\ r.fired = p.fired /\ r.retrying = p.retrying /\ r.handling = p.handling
    BY MethodTypes DEF RespondHandshake, Peer
<1> QED
    BY <1>1, <1>2, <1>3, <1>4, <1>5

\* A message of a handshake is none of the data path.
LEMMA MessagesApart ==
    ASSUME NEW h \in HandshakeMsg, NEW d \in DataMsg
    PROVE  h # d
<1>1. "i" \in DOMAIN h /\ "i" \notin DOMAIN d
    BY DEF HandshakeMsg, DataMsg
<1> QED
    BY <1>1

\* A step that stores a Peer in its role keeps the roles.
LEMMA StoreRole ==
    ASSUME TypeOK, NEW x \in Nodes, Roles(x), NEW n \in Nodes, NEW q,
           SetPeer(n, q), Role(x, n, q)
    PROVE  Roles(x)'
<1>1. peer'[n] = q /\ (\A m \in Nodes : m # n => peer'[m] = peer[m]) /\ crash' = crash
    BY DEF SetPeer, TypeOK
<1> QED
    BY <1>1 DEF Roles, Alive

\* A step that sends and consumes no handshake message.
LEMMA CalmStore ==
    ASSUME NEW x \in Nodes, RolesInv(x), NEW n \in Nodes, NEW q, SetPeer(n, q),
           Role(x, n, q), q.handling = peer[n].handling,
           n = x /\ peer[x].state = 1 => q.state = 1 /\ q.hs = peer[x].hs,
           handshakes' = handshakes, datas \subseteq datas', seen \subseteq seen',
           seen' \subseteq seen \union datas
    PROVE  Roles(x)' /\ UnderWay(x)'
<1>1. TypeOK /\ Other(x) \in Nodes /\ Other(x) # x
    BY OtherNode DEF RolesInv, KeyInv
<1>2. Roles(x)'
    BY <1>1, StoreRole DEF RolesInv
<1>3. peer'[n] = q /\ \A m \in Nodes : m # n => peer'[m] = peer[m]
    BY <1>1 DEF SetPeer, TypeOK
<1>4. peer'[Other(x)].handling = peer[Other(x)].handling
    BY <1>1, <1>3
<1>5. \A m : Expected(x, m) => Expected(x, m)'
    BY <1>3 DEF Expected
<1>6. UnderWay(x)'
    BY <1>4, <1>5 DEF RolesInv, UnderWay
<1> QED
    BY <1>2, <1>6

\* The initiator sends a new initiation, and no other message is under way.
LEMMA SendUnderWay ==
    ASSUME NEW x \in Nodes, RolesInv(x), NEW p \in Peer, SendHandshake(x, p),
           peer[x].state = 0, p.pendingLock, "handshakeSent" \notin p.fired,
           p.retrying = {}, p.handling = {}, UNCHANGED <<seen, datas>>
    PROVE  Roles(x)' /\ UnderWay(x)'
<1> DEFINE q == StartHandshake(p, eph + 1)
           i == Initiation(x, eph + 1)
<1>1. TypeOK /\ Other(x) \in Nodes /\ Other(x) # x /\ eph + 1 \in Nat /\ eph \in Nat
    BY OtherNode DEF RolesInv, KeyInv, TypeOK
<1>2. /\ q.state = 1 /\ q.hs = eph + 1 /\ q.pendingLock
      /\ q.fired = p.fired /\ q.retrying = {} /\ q.handling = {}
    BY <1>1, MethodRoles
<1>3. SetPeer(x, q) /\ handshakes' = handshakes \union {i}
    BY DEF SendHandshake
<1>4. i \in HandshakeMsg /\ i.i = eph + 1 /\ i.ctr = 0 /\ i.from = x
    BY <1>1 DEF Initiation, HandshakeMsg
<1> HIDE DEF q, i
<1>5. Role(x, x, q)
    BY <1>2 DEF Role, Local, Talking
<1>6. Roles(x)'
    BY <1>1, <1>3, <1>5, StoreRole DEF RolesInv
<1>7. i \notin seen
  <2>1. i \notin handshakes
      BY <1>1, <1>4, KeyTypes DEF RolesInv, KeyInv, EphemeralsDrawn
  <2>2. i \notin datas
      BY <1>1, <1>4, MessagesApart DEF TypeOK
  <2> QED
      BY <2>1, <2>2 DEF RolesInv, UnderWay
<1>8. peer'[x] = q /\ peer'[Other(x)] = peer[Other(x)]
    BY <1>1, <1>3 DEF SetPeer, TypeOK
<1>9. handshakes \subseteq seen /\ peer[Other(x)].handling = {}
    BY DEF RolesInv, UnderWay, Expected
<1>10. (\A k \in handshakes' \ seen' : k = i) /\ peer'[x].state = 1 /\ i.i = peer'[x].hs
    BY <1>2, <1>3, <1>4, <1>7, <1>8, <1>9 DEF Expected
<1>11. UnderWay(x)'
  <2>1. \A m \in handshakes' : m.ctr = IF m.from = x THEN 0 ELSE 1
      BY <1>3, <1>4 DEF RolesInv, UnderWay
  <2>2. peer'[Other(x)].handling = {} /\ seen' \subseteq handshakes' \union datas'
      BY <1>3, <1>8, <1>9 DEF RolesInv, UnderWay
  <2> QED
      BY <1>10, <2>1, <2>2 DEF UnderWay, Expected
<1> QED
    BY <1>6, <1>11

\* The other node answers the one message that was under way.
LEMMA RespondUnderWay ==
    ASSUME NEW x \in Nodes, RolesInv(x), NEW p \in Peer, NEW m \in handshakes,
           NEW case \in {0, 1, 2}, Expected(x, m),
           SetPeer(Other(x), FinishHandshake(RespondHandshake(p, eph + 1), case)),
           p.fired = peer[Other(x)].fired, p.retrying = {}, p.handling = {},
           handshakes' = handshakes \union {Response(Other(x), m.i, eph + 1)},
           handshakes \subseteq seen', seen' \subseteq handshakes \union datas, UNCHANGED datas
    PROVE  Roles(x)' /\ UnderWay(x)'
<1> DEFINE b == Other(x)
           q == FinishHandshake(RespondHandshake(p, eph + 1), case)
           r == Response(b, m.i, eph + 1)
<1>1. TypeOK /\ b \in Nodes /\ b # x /\ eph + 1 \in Nat /\ eph \in Nat
    BY OtherNode DEF RolesInv, KeyInv, TypeOK
<1>2. /\ q.state = 2 /\ ~q.pendingLock /\ q.inTransport /\ ~q.initiator
      /\ q.fired = peer[b].fired /\ q.retrying = {} /\ q.handling = {}
    BY <1>1, MethodRoles
<1>3. SetPeer(b, q) /\ handshakes' = handshakes \union {r}
    OBVIOUS
<1>4. r \in HandshakeMsg /\ r.i = m.i /\ r.e = eph + 1 /\ r.ctr = 1 /\ r.from = b
  <2>1. m.i \in Nat
      BY <1>1, KeyTypes
  <2> QED
      BY <1>1, <2>1 DEF Response, HandshakeMsg
<1> HIDE DEF q, r, b
<1>5. Role(x, b, q)
  <2>1. "handshakeSent" \notin peer[b].fired
      BY <1>1 DEF RolesInv, Roles, Role, Local
  <2> QED
      BY <1>1, <1>2, <2>1 DEF Role, Local, Listening
<1>6. Roles(x)'
    BY <1>1, <1>3, <1>5, StoreRole DEF RolesInv
<1>7. r \notin seen'
  <2>1. r \notin handshakes
      BY <1>1, <1>4, KeyTypes DEF RolesInv, KeyInv, EphemeralsDrawn
  <2>2. r \notin datas
      BY <1>1, <1>4, MessagesApart DEF TypeOK
  <2> QED
      BY <2>1, <2>2
<1>8. peer'[b] = q /\ peer'[x] = peer[x]
    BY <1>1, <1>3 DEF SetPeer, TypeOK
<1>9. (\A k \in handshakes' \ seen' : k = r) /\ peer'[x].state = 1 /\ r.i = peer'[x].hs
    BY <1>3, <1>4, <1>7, <1>8 DEF Expected
<1>10. UnderWay(x)'
  <2>1. \A k \in handshakes' : k.ctr = IF k.from = x THEN 0 ELSE 1
      BY <1>1, <1>3, <1>4 DEF RolesInv, UnderWay
  <2>2. peer'[Other(x)].handling = {} /\ seen' \subseteq handshakes' \union datas'
      BY <1>2, <1>3, <1>8 DEF b
  <2> QED
      BY <1>9, <2>1, <2>2 DEF UnderWay, Expected
<1> QED
    BY <1>6, <1>10

\* The fields that the roles are about, except fired.
SameRole(p, q) ==
    /\ q.state = p.state /\ q.pendingLock = p.pendingLock /\ q.inTransport = p.inTransport
    /\ q.retrying = p.retrying /\ q.handling = p.handling /\ q.initiator = p.initiator
    /\ q.hs = p.hs

\* A step that stores a Peer in the same role.
LEMMA CalmSame ==
    ASSUME NEW x \in Nodes, RolesInv(x), NEW n \in Nodes, NEW q, SetPeer(n, q),
           SameRole(peer[n], q), "handshakeSent" \notin q.fired,
           handshakes' = handshakes, datas \subseteq datas', seen \subseteq seen',
           seen' \subseteq seen \union datas
    PROVE  Roles(x)' /\ UnderWay(x)'
<1>1. Role(x, n, peer[n])
    BY DEF RolesInv, Roles
<1>2. Role(x, n, q)
    BY <1>1 DEF Role, Local, Talking, Listening, SameRole
<1>3. q.handling = peer[n].handling /\ q.state = peer[n].state /\ q.hs = peer[n].hs
    BY DEF SameRole
<1> QED
    BY <1>2, <1>3, CalmStore

\* Outbound and Inbound, which only run without pendingLock, find their ciphers.
LEMMA DataSteps ==
    ASSUME NEW x \in Nodes, RolesInv(x), NEW n \in Nodes,
           \/ OutboundTake(n)
           \/ \E k \in peer[n].taken : OutboundSend(n, k)
           \/ \E m \in datas : Inbound(n, m)
    PROVE  Roles(x)' /\ UnderWay(x)'
<1>0. peer[n] \in Peer /\ Role(x, n, peer[n]) /\ Sound(peer[n])
    BY DEF RolesInv, KeyInv, TypeOK, Roles, AllSound
<1>1. "handshakeSent" \notin peer[n].fired
    BY <1>0 DEF Role, Local
<1>2. ~peer[n].pendingLock => peer[n].tx # NoCipher /\ peer[n].rx # NoCipher
    BY <1>0 DEF Role, Local, Sound, Established
<1>3. CASE OutboundTake(n)
  <2> DEFINE q == [peer[n] EXCEPT !.taken = {Head(peer[n].outbound)}, !.outbound = Tail(@)]
  <2>1. SameRole(peer[n], q) /\ q.fired = peer[n].fired
      BY <1>0 DEF Peer, SameRole
  <2>2. SetPeer(n, q) /\ UNCHANGED <<handshakes, datas, seen>>
      BY <1>3 DEF OutboundTake
  <2> HIDE DEF q
  <2> QED
      BY <1>1, <2>1, <2>2, CalmSame
<1>4. ASSUME NEW k \in peer[n].taken, OutboundSend(n, k) PROVE Roles(x)' /\ UnderWay(x)'
  <2> DEFINE q == [peer[n] EXCEPT !.taken = {}, !.nonce = @ + 1, !.armed = @ \union {"keepalive"}]
  <2>1. SameRole(peer[n], q) /\ q.fired = peer[n].fired
      BY <1>0 DEF Peer, SameRole
  <2>2. SetPeer(n, q) /\ UNCHANGED <<handshakes, seen>> /\ datas \subseteq datas'
      BY <1>2, <1>4 DEF OutboundSend
  <2> HIDE DEF q
  <2> QED
      BY <1>1, <2>1, <2>2, CalmSame
<1>5. ASSUME NEW m \in datas, Inbound(n, m) PROVE Roles(x)' /\ UnderWay(x)'
  <2> DEFINE q == [peer[n] EXCEPT !.armed = @ \union {"receivedPacket"}]
  <2>1. SameRole(peer[n], q) /\ q.fired = peer[n].fired
      BY <1>0 DEF Peer, SameRole
  <2>2. /\ SetPeer(n, q) \/ UNCHANGED <<peer, crash>>
        /\ UNCHANGED <<handshakes, datas>> /\ seen' = seen \union {m}
      BY <1>2, <1>5 DEF Inbound, Receive
  <2>3. UNCHANGED <<peer, crash>> => SetPeer(n, peer[n]) /\ SameRole(peer[n], peer[n])
      BY DEF SetPeer, SameRole, RolesInv, KeyInv, TypeOK
  <2> HIDE DEF q
  <2> QED
      BY <1>1, <2>1, <2>2, <2>3, CalmSame
<1> QED
    BY <1>3, <1>4, <1>5

\* Whatever message a node receives is the one that it waits for.
LEMMA HandshakeSteps ==
    ASSUME NEW x \in Nodes, RolesInv(x), NoSecondCopies, NEW n \in Nodes,
           \/ \E m \in handshakes : Handshake(n, m)
           \/ \E m \in peer[n].handling : HandshakeLocked(n, m)
    PROVE  Roles(x)' /\ UnderWay(x)'
<1>0. /\ TypeOK /\ peer[n] \in Peer /\ Role(x, n, peer[n]) /\ Sound(peer[n])
      /\ Other(x) \in Nodes /\ Other(x) # x /\ (n # x => n = Other(x))
      /\ Other(Other(x)) = x
    BY OtherNode DEF RolesInv, KeyInv, TypeOK, Roles, AllSound
<1>1. ASSUME NEW m \in handshakes, Handshake(n, m)
      PROVE  /\ m \in handshakes \ seen /\ Expected(x, m) /\ peer[Other(x)].handling = {}
             /\ m.from = Other(n) /\ m.ctr = (IF n = x THEN 1 ELSE 0)
             /\ seen' = seen \union {m} /\ datas' = datas
  <2>1. Receive(n, m) /\ datas' = datas
      BY <1>1 DEF Handshake
  <2>2. m \notin seen /\ m.from = Other(n) /\ seen' = seen \union {m}
      BY <1>0, <2>1 DEF Receive, TypeOK, NoSecondCopies
  <2>3. /\ m.ctr = IF m.from = x THEN 0 ELSE 1
        /\ Expected(x, m) /\ peer[Other(x)].handling = {}
      BY <2>2 DEF RolesInv, UnderWay
  <2> QED
      BY <1>0, <2>1, <2>2, <2>3
<1>2. ASSUME NEW m \in handshakes, Handshake(n, m), n = x PROVE Roles(x)' /\ UnderWay(x)'
  <2> DEFINE p == peer[x]
             q == FinishHandshake(CompleteHandshake(p, m.e), p.state)
  <2>1. p \in Peer /\ p.state = 1 /\ m.i = p.hs /\ m.ctr = 1 /\ m.e \in Nat
      BY <1>0, <1>1, <1>2, KeyTypes DEF Expected
  <2>2. p.initiator /\ p.hs # NoHandshake /\ p.pendingLock
      BY <1>0, <1>2, <2>1 DEF Sound, Waiting, Role, Local
  <2>3. p.retrying = {} /\ p.handling = {} /\ "handshakeSent" \notin p.fired
      BY <1>0, <1>2, <2>1 DEF Role, Local, Talking
  <2>4. ConsumeHandshake(n, peer[n], m, peer[n].state)
    <3>1. peer[n].state # 2 /\ m.ctr = peer[n].state
        BY <1>2, <2>1
    <3> QED
        BY <1>2, <3>1, Zenon DEF Handshake
  <2>5. SetPeer(x, q) /\ handshakes' = handshakes
      BY <1>2, <2>1, <2>2, <2>4 DEF ConsumeHandshake
  <2>6. /\ q.state = 2 /\ ~q.pendingLock /\ q.inTransport
        /\ q.fired = p.fired /\ q.retrying = {} /\ q.handling = {}
      BY <2>1, <2>3, MethodRoles
  <2> HIDE DEF q
  <2>7. Role(x, x, q)
      BY <2>3, <2>6 DEF Role, Local, Talking
  <2>8. Roles(x)'
      BY <1>0, <2>5, <2>7, StoreRole DEF RolesInv
  <2>9. peer'[Other(x)] = peer[Other(x)]
      BY <1>0, <2>5 DEF SetPeer, TypeOK
  <2>10. handshakes' \ seen' = {}
      BY <1>1, <1>2, <2>5 DEF RolesInv, UnderWay
  <2>11. \A k \in handshakes' : k.ctr = IF k.from = x THEN 0 ELSE 1
      BY <2>5 DEF RolesInv, UnderWay
  <2>12. peer'[Other(x)].handling = {} /\ seen' \subseteq handshakes' \union datas'
      BY <1>1, <1>2, <2>5, <2>9 DEF RolesInv, UnderWay
  <2>13. UnderWay(x)'
      BY <2>10, <2>11, <2>12 DEF UnderWay
  <2> QED
      BY <2>8, <2>13
<1>3. ASSUME NEW m \in handshakes, Handshake(n, m), n # x PROVE Roles(x)' /\ UnderWay(x)'
  <2> DEFINE p == peer[n]
  <2>1. /\ p \in Peer /\ p.handling = {} /\ m.ctr = 0 /\ m.from = x
        /\ ~p.initiator /\ p.retrying = {} /\ p.state \in {0, 2}
        /\ (p.pendingLock <=> p.state # 2) /\ n = Other(x)
      BY <1>0, <1>1, <1>3 DEF Role, Local, Listening, Peer
  <2>2. CASE p.state = 2
    <3> DEFINE q == [p EXCEPT !.handling = {m}]
    <3>1. SetPeer(n, q) /\ handshakes' = handshakes
        BY <1>3, <2>2 DEF Handshake
    <3>2. /\ q.state = p.state /\ q.pendingLock = p.pendingLock /\ q.inTransport = p.inTransport
          /\ q.retrying = p.retrying /\ q.initiator = p.initiator /\ q.fired = p.fired
          /\ q.handling = {m}
        BY <2>1 DEF Peer
    <3> HIDE DEF q
    <3>3. Role(x, n, q)
        BY <1>0, <1>3, <3>2 DEF Role, Local, Listening
    <3>4. Roles(x)'
        BY <1>0, <3>1, <3>3, StoreRole DEF RolesInv
    <3>5. peer'[x] = peer[x] /\ peer'[Other(x)] = q
        BY <1>0, <2>1, <3>1 DEF SetPeer, TypeOK
    <3>6. handshakes' \ seen' = {}
        BY <1>1, <1>3, <3>1 DEF RolesInv, UnderWay
    <3>7. \A k \in handshakes' : k.ctr = IF k.from = x THEN 0 ELSE 1
        BY <3>1 DEF RolesInv, UnderWay
    <3>8. seen' \subseteq handshakes' \union datas'
        BY <1>1, <1>3, <3>1 DEF RolesInv, UnderWay
    <3>9. peer'[x].state = 1 /\ m.i = peer'[x].hs
        BY <1>1, <1>3, <3>5 DEF Expected
    <3>10. UnderWay(x)'
        BY <3>2, <3>5, <3>6, <3>7, <3>8, <3>9 DEF UnderWay, Expected
    <3> QED
        BY <3>4, <3>10
  <2>3. CASE p.state = 0
    <3>1. ConsumeHandshake(n, p, m, p.state)
      <4>1. p.state # 2 /\ m.ctr = p.state
          BY <2>1, <2>3
      <4> QED
          BY <1>3, <4>1, Zenon DEF Handshake
    <3>2. /\ SetPeer(n, FinishHandshake(RespondHandshake(p, eph + 1), p.state))
          /\ handshakes' = handshakes \union {Response(n, m.i, eph + 1)}
      <4>1. p.pendingLock /\ ~p.initiator /\ m.ctr = 0 /\ m.ctr # 1
          BY <2>1, <2>3
      <4> QED
          BY <3>1, <4>1 DEF ConsumeHandshake
    <3>3. handshakes \subseteq seen' /\ seen' \subseteq handshakes \union datas
        BY <1>1, <1>3 DEF RolesInv, UnderWay
    <3>4. Expected(x, m) /\ datas' = datas
        BY <1>1, <1>3
    <3> HIDE DEF p
    <3> QED
        BY <2>1, <3>2, <3>3, <3>4, RespondUnderWay DEF p
  <2> QED
      BY <2>1, <2>2, <2>3
<1>4. ASSUME NEW m \in peer[n].handling, HandshakeLocked(n, m) PROVE Roles(x)' /\ UnderWay(x)'
  <2> DEFINE p == [peer[n] EXCEPT !.handling = {}]
  <2>1. n # x
      BY <1>0, <1>4 DEF Role, Talking
  <2>2. n = Other(x) /\ m \in handshakes /\ m.from = x /\ Expected(x, m)
      BY <1>0, <1>4, <2>1 DEF RolesInv, KeyInv, HandlingSent, UnderWay
  <2>3. m.ctr = 0 /\ handshakes \subseteq seen
      BY <1>4, <2>2 DEF RolesInv, UnderWay
  <2>4. /\ p \in Peer /\ p.initiator = peer[n].initiator /\ p.fired = peer[n].fired
        /\ p.retrying = peer[n].retrying /\ p.handling = {}
      BY <1>0 DEF Peer
  <2>5. ~peer[n].initiator /\ peer[n].retrying = {}
      BY <1>0, <2>1 DEF Role, Listening
  <2>6. ConsumeHandshake(n, p, m, 2) /\ UNCHANGED <<seen, datas>>
      BY <1>4 DEF HandshakeLocked
  <2> HIDE DEF p
  <2>7. /\ SetPeer(n, FinishHandshake(RespondHandshake(p, eph + 1), 2))
        /\ handshakes' = handshakes \union {Response(n, m.i, eph + 1)}
    <3>1. ~p.initiator /\ m.ctr = 0 /\ m.ctr # 1
        BY <2>3, <2>4, <2>5
    <3> QED
        BY <2>6, <3>1 DEF ConsumeHandshake
  <2>8. handshakes \subseteq seen' /\ seen' \subseteq handshakes \union datas
      BY <2>3, <2>6 DEF RolesInv, UnderWay
  <2> QED
      BY <2>2, <2>4, <2>5, <2>6, <2>7, <2>8, RespondUnderWay
<1> QED
    BY <1>2, <1>3, <1>4

\* The timers of a session leave the roles alone, until RXTimeout ends it.
LEMMA TimerSteps ==
    ASSUME NEW x \in Nodes, RolesInv(x), NoSecondCopies, NEW n \in Nodes, TimerStep(n)
    PROVE  Roles(x)' /\ UnderWay(x)'
<1>0. TypeOK /\ peer[n] \in Peer /\ Role(x, n, peer[n])
    BY DEF RolesInv, KeyInv, TypeOK, Roles
<1>1. "handshakeSent" \notin peer[n].fired
    BY <1>0 DEF Role, Local
<1>2. ASSUME NEW t \in Timers, Expire(n, t) PROVE Roles(x)' /\ UnderWay(x)'
  <2> DEFINE q == [peer[n] EXCEPT !.armed = @ \ {t}, !.fired = @ \union {t}]
  <2>1. SameRole(peer[n], q) /\ q.fired = peer[n].fired \union {t}
      BY <1>0 DEF Peer, SameRole
  <2>2. SetPeer(n, q) /\ UNCHANGED <<handshakes, datas, seen>> /\ t # "handshakeSent"
      BY <1>2 DEF Expire, NoSecondCopies
  <2> HIDE DEF q
  <2> QED
      BY <1>1, <2>1, <2>2, CalmSame
<1>3. ~HandshakeTimeout(n)
    BY <1>1 DEF HandshakeTimeout
<1>4. CASE TXTimeout(n)
  <2> DEFINE p == [peer[n] EXCEPT !.fired = @ \ {"keepalive"}]
             q == [p EXCEPT !.outbound = <<Keepalive>>]
  <2>1. p \in Peer /\ SameRole(peer[n], p) /\ p.fired \subseteq peer[n].fired
      BY <1>0 DEF Peer, SameRole
  <2>2. SameRole(p, q) /\ q.fired = p.fired
    <3> HIDE DEF p
    <3> QED
        BY <2>1 DEF Peer, SameRole
  <2>3. (SetPeer(n, q) \/ SetPeer(n, p)) /\ UNCHANGED <<handshakes, datas, seen>>
      BY <1>4 DEF TXTimeout
  <2> HIDE DEF p, q
  <2>4. SameRole(peer[n], q)
      BY <2>1, <2>2 DEF SameRole
  <2> QED
      BY <1>1, <2>1, <2>2, <2>3, <2>4, CalmSame
<1>5. CASE RXTimeout(n)
  <2> DEFINE p == [peer[n] EXCEPT !.fired = @ \ {"receivedPacket"}]
             q == [p EXCEPT !.armed = @ \ {"keepalive", "receivedPacket"}, !.locking = TRUE]
  <2>1. p \in Peer /\ SameRole(peer[n], p) /\ p.fired \subseteq peer[n].fired
      BY <1>0 DEF Peer, SameRole
  <2>2. SameRole(p, q) /\ q.fired = p.fired
    <3> HIDE DEF p
    <3> QED
        BY <2>1 DEF Peer, SameRole
  <2>3. (SetPeer(n, q) \/ SetPeer(n, p)) /\ UNCHANGED <<handshakes, datas, seen>>
      BY <1>5 DEF RXTimeout
  <2> HIDE DEF p, q
  <2>4. SameRole(peer[n], q)
      BY <2>1, <2>2 DEF SameRole
  <2> QED
      BY <1>1, <2>1, <2>2, <2>3, <2>4, CalmSame
<1>6. CASE RXTimeoutLocked(n)
  <2> DEFINE p == [peer[n] EXCEPT !.locking = FALSE, !.pendingLock = TRUE, !.state = 0]
             q == [p EXCEPT !.armed = @ \ {"receivedPacket", "handshakeSent"}]
             u == [p EXCEPT !.retries = @ + 1]
             v == [u EXCEPT !.armed = @ \ {"handshakeSent"}]
             w == [u EXCEPT !.retrying = @ \union {"RXTimeout"}]
             Fields(r) == /\ r.state = 0 /\ r.pendingLock /\ r.initiator = peer[n].initiator
                          /\ r.inTransport = peer[n].inTransport /\ r.fired = peer[n].fired
                          /\ r.handling = peer[n].handling
  <2>0. peer[n].state = 2 /\ peer[n].inTransport /\ (n = x => peer[n].retrying = {})
      BY <1>0, <1>6 DEF RXTimeoutLocked, Role, Local, Talking
  <2>1. p \in Peer /\ Fields(p) /\ p.retrying = peer[n].retrying
      BY <1>0 DEF Peer
  <2>2. /\ \/ SetPeer(n, ResetState(q))
           \/ p.initiator /\ (SetPeer(n, ResetState(v)) \/ SetPeer(n, w))
        /\ UNCHANGED <<handshakes, datas, seen>>
      BY <1>6 DEF RXTimeoutLocked, RetryHandshake
  <2> HIDE DEF p
  <2>3. q \in Peer /\ Fields(q) /\ q.retrying = p.retrying
      BY <2>1 DEF Peer
  <2>4. u \in Peer /\ Fields(u) /\ u.retrying = p.retrying
    <3>1. p.retries + 1 \in Nat
        BY <2>1 DEF Peer
    <3>2. \A y \in Nat : LET r == [p EXCEPT !.retries = y] IN
                         r \in Peer /\ Fields(r) /\ r.retrying = p.retrying
        BY <2>1 DEF Peer
    <3> QED
        BY <3>1, <3>2
  <2> HIDE DEF u
  <2>5. v \in Peer /\ Fields(v) /\ v.retrying = p.retrying
      BY <2>4 DEF Peer
  <2>6. Fields(w) /\ w.retrying = p.retrying \union {"RXTimeout"}
      BY <2>4 DEF Peer
  <2> HIDE DEF q, v, w
  <2>7. ASSUME NEW r \in Peer, Fields(r), r.retrying = p.retrying
        PROVE  /\ Role(x, n, ResetState(r)) /\ ResetState(r).handling = peer[n].handling
    <3> DEFINE z == ResetState(r)
    <3>1. /\ z.state = 0 /\ ~z.initiator /\ z.pendingLock = r.pendingLock
          /\ z.fired = r.fired /\ z.retrying = r.retrying /\ z.handling = r.handling
        BY MethodRoles
    <3> HIDE DEF z
    <3>2. Role(x, n, z)
        BY <1>0, <2>0, <2>1, <2>7, <3>1 DEF Role, Local, Talking, Listening
    <3> QED
        BY <2>7, <3>1, <3>2 DEF z
  <2>8. p.initiator => Role(x, n, w)
      BY <1>0, <2>0, <2>1, <2>6 DEF Role, Local, Talking, Listening
  <2>9. PICK r : SetPeer(n, r) /\ Role(x, n, r) /\ r.handling = peer[n].handling
      BY <2>2, <2>3, <2>5, <2>6, <2>7, <2>8
  <2> QED
      BY <2>0, <2>2, <2>9, CalmStore
<1>7. ASSUME NEW c \in peer[n].retrying, SendRetry(n, c) PROVE Roles(x)' /\ UnderWay(x)'
  <2> DEFINE q == [peer[n] EXCEPT !.retrying = @ \ {c}]
  <2>1. n = x /\ c = "RXTimeout"
      BY <1>0 DEF Role, Local, Listening
  <2>2. /\ q \in Peer /\ q.pendingLock = peer[n].pendingLock /\ q.fired = peer[n].fired
        /\ q.retrying = peer[n].retrying \ {c} /\ q.handling = peer[n].handling
      BY <1>0 DEF Peer
  <2>3. SendHandshake(x, q) /\ UNCHANGED <<seen, datas>>
      BY <1>7, <2>1 DEF SendRetry
  <2> HIDE DEF q
  <2>4. /\ peer[x].state = 0 /\ q.pendingLock /\ "handshakeSent" \notin q.fired
        /\ q.retrying = {} /\ q.handling = {}
      BY <1>0, <2>1, <2>2 DEF Role, Local, Talking
  <2> QED
      BY <2>2, <2>3, <2>4, SendUnderWay
<1> QED
    BY <1>2, <1>3, <1>4, <1>5, <1>6, <1>7 DEF TimerStep

\* Only x produces packets, and only without a handshake does that start one.
LEMMA PacketRole ==
    ASSUME NEW x \in Nodes, RolesInv(x), OnlyTalker(x), NEW n \in Nodes, OutboundPacket(n)
    PROVE  Roles(x)' /\ UnderWay(x)'
<1> DEFINE p == peer[n]
           q == IF Len(p.outbound) < OutboundChannelSize
                THEN [p EXCEPT !.outbound = Append(@, pkts[n] + 1)] ELSE p
           r == [q EXCEPT !.retries = @ + 1]
<1>0. TypeOK /\ p \in Peer /\ Role(x, n, p) /\ n = x
    BY DEF RolesInv, KeyInv, TypeOK, Roles, OutboundPacket, OnlyTalker
<1>1. q \in Peer /\ SameRole(p, q) /\ q.fired = p.fired
  <2>1. Append(p.outbound, pkts[n] + 1) \in Seq(Nat)
    <3>1. p.outbound \in Seq(Nat) /\ pkts[n] + 1 \in Nat
        BY <1>0 DEF Peer, TypeOK
    <3> QED
        BY <3>1, AppendFilled
  <2>2. ASSUME NEW y \in Seq(Nat)
        PROVE  LET u == [p EXCEPT !.outbound = y] IN
               u \in Peer /\ SameRole(p, u) /\ u.fired = p.fired
      BY <1>0 DEF Peer, SameRole
  <2>3. SameRole(p, p)
      BY DEF SameRole
  <2> QED
      BY <1>0, <2>1, <2>2, <2>3
<1>2. /\ \/ p.state = 0 /\ ~p.inTransport /\ SendHandshake(n, r)
         \/ SetPeer(n, q) /\ handshakes' = handshakes
      /\ UNCHANGED <<seen, datas>>
    BY DEF OutboundPacket
<1> HIDE DEF q
<1>3. r \in Peer /\ SameRole(q, r) /\ r.fired = q.fired
  <2>1. q.retries + 1 \in Nat
      BY <1>1 DEF Peer
  <2>2. \A y \in Nat : LET u == [q EXCEPT !.retries = y] IN
                       u \in Peer /\ SameRole(q, u) /\ u.fired = q.fired
      BY <1>1 DEF Peer, SameRole
  <2> QED
      BY <2>1, <2>2
<1> HIDE DEF r
<1>4. CASE p.state = 0 /\ ~p.inTransport /\ SendHandshake(n, r)
  <2>1. /\ r.pendingLock /\ "handshakeSent" \notin r.fired
        /\ r.retrying = {} /\ r.handling = {}
      BY <1>0, <1>1, <1>3, <1>4 DEF SameRole, Role, Local, Talking
  <2> QED
      BY <1>0, <1>2, <1>3, <1>4, <2>1, SendUnderWay
<1>5. CASE SetPeer(n, q) /\ handshakes' = handshakes
  <2>1. "handshakeSent" \notin q.fired
      BY <1>0, <1>1 DEF Role, Local
  <2> QED
      BY <1>1, <1>2, <1>5, <2>1, CalmSame
<1> QED
    BY <1>2, <1>4, <1>5

\* The initial states.
LEMMA RolesInit ==
    ASSUME NEW x \in Nodes, Init
    PROVE  RolesInv(x)
<1>1. KeyInv
    BY KeyInit
<1>2. AllSound
  <2>1. \A n \in Nodes : peer[n].state = 0
      BY DEF Init, NewPeer
  <2>2. ASSUME NEW p, p.state = 0 PROVE Sound(p)
      BY <2>2 DEF Sound
  <2> QED
      BY <2>1, <2>2 DEF AllSound
<1>3. \A n \in Nodes : peer[n] = NewPeer /\ Alive(n)
    BY DEF Init, Alive
<1>4. /\ NewPeer.state = 0 /\ NewPeer.pendingLock /\ NewPeer.fired = {} /\ NewPeer.retrying = {}
      /\ NewPeer.handling = {} /\ ~NewPeer.initiator
    BY DEF NewPeer
<1>5. \A n \in Nodes : Role(x, n, NewPeer)
    BY <1>4 DEF Role, Local, Talking, Listening
<1>6. Roles(x)
    BY <1>3, <1>5 DEF Roles
<1>7. handshakes = {} /\ seen = {} /\ peer[Other(x)].handling = {}
    BY <1>3, <1>4, OtherNode DEF Init
<1>8. UnderWay(x)
    BY <1>7 DEF UnderWay
<1> QED
    BY <1>1, <1>2, <1>6, <1>8 DEF RolesInv

\* Every step keeps the roles and the one message under way.
LEMMA RolesNext ==
    ASSUME NEW x \in Nodes, OnlyTalker(x), NoSecondCopies, RolesInv(x), [Next]_vars
    PROVE  RolesInv(x)'
<1>0. TypeOK /\ KeyInv' /\ AllSound
    BY KeyNext DEF RolesInv, KeyInv
<1>1. AllSound'
    BY <1>0, SoundSteps, SameSound DEF Next, vars
<1>2. ASSUME NEW n \in Nodes, Step(n) PROVE Roles(x)' /\ UnderWay(x)'
    BY <1>2, PacketRole, DataSteps, HandshakeSteps, TimerSteps DEF Step
<1>3. CASE UNCHANGED vars
  <2>1. /\ peer' = peer /\ crash' = crash /\ handshakes' = handshakes /\ seen' = seen
        /\ datas' = datas
      BY <1>3 DEF vars
  <2>2. Roles(x)'
      BY <2>1 DEF RolesInv, Roles, Alive
  <2>3. UnderWay(x)'
      BY <2>1 DEF RolesInv, UnderWay, Expected
  <2> QED
      BY <1>0, <1>1, <2>2, <2>3 DEF RolesInv
<1> QED
    BY <1>0, <1>1, <1>2, <1>3 DEF Next, RolesInv

\* With one initiator, no retransmission and no duplicate, no routine of either node ever
\* panics and pendingLock is held exactly while there is no session, for any number of
\* packets, sessions and timeouts (Handshake, OutboundPacket, RXTimeout).
THEOREM OneInitiatorIsSafe ==
    ASSUME \E x \in Nodes : OnlyTalker(x), NoSecondCopies
    PROVE  Spec => []OneInitiatorSafe
<1>1. PICK x \in Nodes : OnlyTalker(x)
    OBVIOUS
<1>2. Init => RolesInv(x)
    BY RolesInit
<1>3. RolesInv(x) /\ [Next]_vars => RolesInv(x)'
    BY <1>1, RolesNext
<1>4. RolesInv(x) => OneInitiatorSafe
    BY DEF RolesInv, Roles, Role, Local, OneInitiatorSafe, NoPanic, LockedUntilEstablished
<1> QED
    BY <1>2, <1>3, <1>4, PTL DEF Spec
=============================================================================
