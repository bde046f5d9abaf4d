------------------------------- MODULE Tunnel -------------------------------
(***************************************************************************)
(* The encrypted tunnel between two nodes: the Peer object each of them     *)
(* keeps for the other one (node/peer.go), its Noise IK handshake, its      *)
(* timers and its data path (node/peer_transport.go), over UDP.             *)
(*                                                                         *)
(* Every handler is one step, except where it waits for something else to   *)
(* happen: Outbound takes a packet from its channel and then waits for      *)
(* pendingLock; Handshake, having read state 2, and RXTimeout, having read  *)
(* inTransport, wait for pendingLock; a retried handshake waits for the     *)
(* Punch call to the controller; and a timer that has expired starts a      *)
(* goroutine that Stop and Reset no longer reach.  A second callback of the *)
(* same timer is only started when the first one has returned.              *)
(*                                                                         *)
(* UDP may lose, delay, reorder and duplicate messages.  The inbound and    *)
(* handshake channels only delay or drop a message, which the network       *)
(* already does, so they have no state of their own.  A ciphertext is the   *)
(* session key and the counter it was made with; an ephemeral key is a      *)
(* number that is never drawn twice.                                        *)
(***************************************************************************)
EXTENDS Naturals, Sequences

CONSTANTS
    Nodes,                  \* the two ends of the tunnel
    Talkers,                \* the nodes whose tun device produces packets
    CountHandshakeRetries,  \* attempts before a handshake is given up
    OutboundChannelSize,    \* capacity of peer.outbound
    ExpiringTimers,         \* the timers that may run out in this instance
    MaxPackets,             \* bound: packets each tun device produces
    MaxExpiries,            \* bound: expiries of receivedPacket and keepalive
    MaxDuplicates           \* bound: messages that UDP delivers once more

Timers == {"handshakeSent", "receivedPacket", "keepalive"}

ASSUME NodesAssumption == \E x, y \in Nodes : x # y /\ Nodes = {x, y}
ASSUME TunnelAssumption ==
    /\ Talkers \subseteq Nodes
    /\ CountHandshakeRetries \in Nat
    /\ OutboundChannelSize \in Nat \ {0}
    /\ ExpiringTimers \subseteq Timers
    /\ MaxPackets \in Nat
    /\ MaxExpiries \in Nat
    /\ MaxDuplicates \in Nat

VARIABLES
    peer,       \* peer[n]: the Peer object that node n keeps for Other(n)
    crash,      \* crash[n]: why the process of n ended, or "none"
    eph,        \* the last ephemeral key drawn by either node
    handshakes, \* handshake messages ever sent
    datas,      \* data messages ever sent
    seen,       \* messages received at least once
    dups,       \* number of messages received once more
    pkts,       \* pkts[n]: number of packets read from the tun device of n
    delivered,  \* delivered[n]: packets written to the tun device of n
    expiries    \* number of bounded timer expiries so far

vars == <<peer, crash, eph, handshakes, datas, seen, dups, pkts, delivered, expiries>>

Other(n) == CHOOSE m \in Nodes : m # n

\* A nil *noise.HandshakeState, a nil *noise.CipherState, and the empty packet
\* that TXTimeout queues; packets of the tun device are numbered from 1.
NoHandshake == 0
NoCipher    == [s |-> 0, dir |-> "none"]
Keepalive   == 0

\* The two keys of session s, named after the responder's ephemeral, which is
\* fresh in every session; "i2r" protects what the initiator sends.
Key(s, dir) == [s |-> s, dir |-> dir]
Cipher      == [s : Nat, dir : {"none", "i2r", "r2i"}]

\* Handshake messages: ctr is the header counter, i the initiator's ephemeral,
\* e the responder's (0 in an initiation).
Initiation(n, i)  == [from |-> n, ctr |-> 0, i |-> i, e |-> 0]
Response(n, i, e) == [from |-> n, ctr |-> 1, i |-> i, e |-> e]
HandshakeMsg      == [from : Nodes, ctr : {0, 1}, i : Nat, e : Nat]
DataMsg           == [from : Nodes, key : Cipher, ctr : Nat, pkt : Nat]

\* The fields of Peer.  nonce is the counter inside tx.  pendingLock is whether
\* it is held for writing.  taken is the packet Outbound has received from its
\* channel and not sent yet, handling the message with which Handshake waits for
\* pendingLock, locking that RXTimeout waits for it, retrying the callbacks that
\* wait for the controller to answer Punch, armed the timers that run and fired
\* those whose callback was started and has not run yet.
Peer ==
    [state       : {0, 1, 2},
     initiator   : BOOLEAN,
     hs          : Nat,
     rx          : Cipher,
     tx          : Cipher,
     nonce       : Nat,
     inTransport : BOOLEAN,
     pendingLock : BOOLEAN,
     retries     : Nat,
     outbound    : Seq(Nat),
     taken       : SUBSET Nat,
     handling    : SUBSET HandshakeMsg,
     locking     : BOOLEAN,
     retrying    : SUBSET {"HandshakeTimeout", "RXTimeout"},
     armed       : SUBSET Timers,
     fired       : SUBSET Timers]

CrashReasons == {"none", "counter mismatch", "nil handshake", "read error",
                 "unlock of unlocked mutex", "nil cipher"}

\* NewPeer, AddPeer and Start: an idle peer whose pendingLock is held.
NewPeer ==
    [state |-> 0, initiator |-> FALSE, hs |-> NoHandshake,
     rx |-> NoCipher, tx |-> NoCipher, nonce |-> 0,
     inTransport |-> FALSE, pendingLock |-> TRUE, retries |-> 0,
     outbound |-> <<>>, taken |-> {}, handling |-> {}, locking |-> FALSE,
     retrying |-> {}, armed |-> {}, fired |-> {}]

Init ==
    /\ peer = [n \in Nodes |-> NewPeer]
    /\ crash = [n \in Nodes |-> "none"]
    /\ eph = 0
    /\ handshakes = {}
    /\ datas = {}
    /\ seen = {}
    /\ dups = 0
    /\ pkts = [n \in Nodes |-> 0]
    /\ delivered = [n \in Nodes |-> {}]
    /\ expiries = 0

-----------------------------------------------------------------------------
(* Methods of Peer that change nothing else: they map a Peer to a Peer.     *)

ResetState(p) ==
    [p EXCEPT !.retries = 0,
              !.armed = @ \ {"receivedPacket", "keepalive"},
              !.outbound = <<>>,
              !.hs = NoHandshake,
              !.rx = NoCipher,
              !.tx = NoCipher,
              !.initiator = FALSE,
              !.state = 0,
              !.inTransport = FALSE]

\* Mutant: the state is incremented and not set.
StartHandshakeIncrements(p, e) ==
    [p EXCEPT !.initiator = TRUE, !.hs = e, !.state = @ + 1,
              !.armed = @ \union {"handshakeSent"}]

\* Mutant: the timer is not started again after Stop.
StartHandshakeUnarmed(p, e) ==
    [p EXCEPT !.initiator = TRUE, !.hs = e, !.state = 1,
              !.armed = @ \ {"handshakeSent"}]

\* InitHandshake as initiator and handshakeP1: a new handshake state with
\* ephemeral e, state 1, and the timer that waits for the answer.
StartHandshake(p, e) ==
    [p EXCEPT !.initiator = TRUE,
              !.hs = e,
              !.state = 1,
              !.armed = @ \union {"handshakeSent"}]

\* Mutant: the handshake state survives the response.
CompleteHandshakeKeepsState(p, s) ==
    [p EXCEPT !.tx = Key(s, "i2r"), !.rx = Key(s, "r2i"), !.nonce = 0]

\* handshakeP2 on the initiator: the response completes session s.
CompleteHandshake(p, s) ==
    [p EXCEPT !.tx = Key(s, "i2r"),
              !.rx = Key(s, "r2i"),
              !.nonce = 0,
              !.hs = NoHandshake]

\* Mutant: the responder takes the two ciphers in the initiator's order.
RespondHandshakeSwapped(p, s) ==
    [p EXCEPT !.initiator = FALSE, !.hs = s,
              !.tx = Key(s, "i2r"), !.rx = Key(s, "r2i"), !.nonce = 0]

\* handshakeP2 on the responder: InitHandshake, and an answer with ephemeral s.
RespondHandshake(p, s) ==
    [p EXCEPT !.initiator = FALSE,
              !.hs = s,
              !.rx = Key(s, "i2r"),
              !.tx = Key(s, "r2i"),
              !.nonce = 0]

\* Mutant: pendingLock is not released.
FinishHandshakeLocked(p, case) ==
    [p EXCEPT !.state = 2, !.inTransport = TRUE, !.retries = 0,
              !.armed = (@ \ {"handshakeSent"}) \union {"keepalive"}]

\* What Handshake does after handshakeP2, in the three cases of its switch; only
\* case 2 restarts receivedPacket.
FinishHandshake(p, case) ==
    [p EXCEPT !.state = 2,
              !.inTransport = TRUE,
              !.pendingLock = FALSE,
              !.retries = 0,
              !.armed = (@ \ {"handshakeSent"}) \union
                        IF case = 2 THEN {"keepalive", "receivedPacket"}
                                    ELSE {"keepalive"}]

-----------------------------------------------------------------------------
(* Steps shared by the handlers.                                            *)

Alive(n) == crash[n] = "none"

Crash(n, why) ==
    /\ crash' = [crash EXCEPT ![n] = why]
    /\ UNCHANGED peer

SetPeer(n, p) ==
    /\ peer' = [peer EXCEPT ![n] = p]
    /\ UNCHANGED crash

\* UDP hands over message m, sent by the other node, maybe not for the first time.
Receive(n, m) ==
    /\ m.from = Other(n)
    /\ \/ m \notin seen /\ UNCHANGED dups
       \/ m \in seen /\ dups < MaxDuplicates /\ dups' = dups + 1
    /\ seen' = seen \union {m}

\* The part of TrySendHandshake under peer.mu, on a Peer p.
SendHandshake(n, p) ==
    /\ eph' = eph + 1
    /\ handshakes' = handshakes \union {Initiation(n, eph + 1)}
    /\ SetPeer(n, StartHandshake(p, eph + 1))

\* TrySendHandshake(true), called by a timer on a Peer p: too many attempts make
\* the peer idle; otherwise it waits for the controller to answer Punch.
RetryHandshake(n, p, caller) ==
    LET q == [p EXCEPT !.retries = @ + 1] IN
    /\ SetPeer(n, IF q.retries > CountHandshakeRetries
                  THEN ResetState([q EXCEPT !.armed = @ \ {"handshakeSent"}])
                  ELSE [q EXCEPT !.retrying = @ \union {caller}])
    /\ UNCHANGED <<eph, handshakes>>

-----------------------------------------------------------------------------
(* The tun device and the Outbound routine.                                 *)

\* OutboundPacket: queue the packet, or drop it when the channel is full, and
\* start a handshake when there is none.
OutboundPacket(n) ==
    LET p == peer[n]
        q == IF Len(p.outbound) < OutboundChannelSize
             THEN [p EXCEPT !.outbound = Append(@, pkts[n] + 1)] ELSE p
    IN /\ Alive(n)
       /\ n \in Talkers /\ pkts[n] < MaxPackets
       /\ pkts' = [pkts EXCEPT ![n] = @ + 1]
       /\ \/ /\ ~p.inTransport /\ p.state = 0
             /\ SendHandshake(n, [q EXCEPT !.retries = @ + 1])
          \/ /\ p.inTransport \/ p.state # 0
             /\ SetPeer(n, q)
             /\ UNCHANGED <<eph, handshakes>>
       /\ UNCHANGED <<datas, seen, dups, delivered, expiries>>

\* Mutant: the newest packet first.
OutboundTakeLast(n) ==
    LET p == peer[n] IN
    /\ Alive(n)
    /\ p.outbound # <<>> /\ p.taken = {}
    /\ SetPeer(n, [p EXCEPT !.taken = {p.outbound[Len(p.outbound)]},
                            !.outbound = SubSeq(@, 1, Len(@) - 1)])
    /\ UNCHANGED <<eph, handshakes, datas, seen, dups, pkts, delivered, expiries>>

\* Outbound receives a packet from its channel and then waits for pendingLock.
OutboundTake(n) ==
    LET p == peer[n] IN
    /\ Alive(n)
    /\ p.outbound # <<>> /\ p.taken = {}
    /\ SetPeer(n, [p EXCEPT !.taken = {Head(p.outbound)}, !.outbound = Tail(@)])
    /\ UNCHANGED <<eph, handshakes, datas, seen, dups, pkts, delivered, expiries>>

\* Mutant: sending does not restart the keepalive timer.
OutboundSendQuiet(n, k) ==
    LET p == peer[n] IN
    /\ Alive(n)
    /\ ~p.pendingLock /\ p.tx # NoCipher
    /\ datas' = datas \union
          {[from |-> n, key |-> p.tx, ctr |-> p.nonce, pkt |-> k]}
    /\ SetPeer(n, [p EXCEPT !.taken = {}, !.nonce = @ + 1])
    /\ UNCHANGED <<eph, handshakes, seen, dups, pkts, delivered, expiries>>

\* Outbound encrypts packet k under the next counter of tx and sends it.
OutboundSend(n, k) ==
    LET p == peer[n] IN
    /\ Alive(n)
    /\ ~p.pendingLock
    /\ \/ /\ p.tx = NoCipher
          /\ Crash(n, "nil cipher")
          /\ UNCHANGED datas
       \/ /\ p.tx # NoCipher
          /\ datas' = datas \union
                {[from |-> n, key |-> p.tx, ctr |-> p.nonce, pkt |-> k]}
          /\ SetPeer(n, [p EXCEPT !.taken = {},
                                  !.nonce = @ + 1,
                                  !.armed = @ \union {"keepalive"}])
    /\ UNCHANGED <<eph, handshakes, seen, dups, pkts, delivered, expiries>>

-----------------------------------------------------------------------------
(* The Inbound and Handshake routines.                                      *)

\* Mutant: empty packets are written to the tun device too.
InboundKeepalives(n, m) ==
    LET p == peer[n] IN
    /\ Alive(n)
    /\ ~p.pendingLock /\ p.rx = m.key
    /\ Receive(n, m)
    /\ SetPeer(n, [p EXCEPT !.armed = @ \union {"receivedPacket"}])
    /\ delivered' = [delivered EXCEPT ![n] = @ \union {m.pkt}]
    /\ UNCHANGED <<eph, handshakes, datas, pkts, expiries>>

\* Inbound: a packet that decrypts restarts receivedPacket and, unless it is
\* empty, goes to the tun device; one that does not is dropped.
Inbound(n, m) ==
    LET p == peer[n] IN
    /\ Alive(n)
    /\ ~p.pendingLock
    /\ Receive(n, m)
    /\ \/ /\ p.rx = NoCipher
          /\ Crash(n, "nil cipher")
          /\ UNCHANGED delivered
       \/ /\ p.rx # NoCipher /\ p.rx = m.key
          /\ SetPeer(n, [p EXCEPT !.armed = @ \union {"receivedPacket"}])
          /\ delivered' = IF m.pkt = Keepalive THEN delivered
                          ELSE [delivered EXCEPT ![n] = @ \union {m.pkt}]
       \/ /\ p.rx # NoCipher /\ p.rx # m.key
          /\ UNCHANGED <<peer, crash, delivered>>
    /\ UNCHANGED <<eph, handshakes, datas, pkts, expiries>>

\* handshakeP2 with message m in one case of the switch of Handshake, and what
\* that case does afterwards.  Cases 0 and 1 release a pendingLock they did not
\* take themselves.
ConsumeHandshake(n, p, m, case) ==
    LET Finish(q) == IF case # 2 /\ ~p.pendingLock
                     THEN Crash(n, "unlock of unlocked mutex")
                     ELSE SetPeer(n, FinishHandshake(q, case))
    IN \/ /\ p.initiator /\ p.hs = NoHandshake
          /\ Crash(n, "nil handshake")
          /\ UNCHANGED <<eph, handshakes>>
       \/ /\ p.initiator /\ p.hs # NoHandshake
          /\ IF m.ctr = 1 /\ m.i = p.hs
             THEN Finish(CompleteHandshake(p, m.e))
             ELSE Crash(n, "read error")
          /\ UNCHANGED <<eph, handshakes>>
       \/ /\ ~p.initiator /\ m.ctr = 1
          /\ Crash(n, "read error")
          /\ UNCHANGED <<eph, handshakes>>
       \/ /\ ~p.initiator /\ m.ctr = 0
          /\ eph' = eph + 1
          /\ handshakes' = handshakes \union {Response(n, m.i, eph + 1)}
          /\ Finish(RespondHandshake(p, eph + 1))

\* Handshake: in states 0 and 1 the header counter must be the state; in state 2
\* the routine waits for pendingLock before it looks at the message.
Handshake(n, m) ==
    LET p == peer[n] IN
    /\ Alive(n)
    /\ p.handling = {}
    /\ Receive(n, m)
    /\ \/ /\ p.state = 2
          /\ SetPeer(n, [p EXCEPT !.handling = {m}])
          /\ UNCHANGED <<eph, handshakes>>
       \/ /\ p.state # 2 /\ m.ctr # p.state
          /\ Crash(n, "counter mismatch")
          /\ UNCHANGED <<eph, handshakes>>
       \/ /\ p.state # 2 /\ m.ctr = p.state
          /\ ConsumeHandshake(n, p, m, p.state)
    /\ UNCHANGED <<datas, pkts, delivered, expiries>>

\* Case 2 of Handshake, once it has pendingLock.
HandshakeLocked(n, m) ==
    /\ Alive(n)
    /\ ~peer[n].pendingLock
    /\ ConsumeHandshake(n, [peer[n] EXCEPT !.handling = {}], m, 2)
    /\ UNCHANGED <<datas, seen, dups, pkts, delivered, expiries>>

-----------------------------------------------------------------------------
(* Timers.                                                                  *)

\* A timer runs out: the runtime starts its callback in a goroutine of its own.
Expire(n, t) ==
    LET p == peer[n] IN
    /\ Alive(n)
    /\ t \in ExpiringTimers
    /\ t \in p.armed \ p.fired
    /\ \/ t = "handshakeSent" /\ UNCHANGED expiries
       \/ t # "handshakeSent" /\ expiries < MaxExpiries /\ expiries' = expiries + 1
    /\ SetPeer(n, [p EXCEPT !.armed = @ \ {t}, !.fired = @ \union {t}])
    /\ UNCHANGED <<eph, handshakes, datas, seen, dups, pkts, delivered>>

HandshakeTimeout(n) ==
    LET p == [peer[n] EXCEPT !.fired = @ \ {"handshakeSent"}]
        q == [p EXCEPT !.inTransport = FALSE]
    IN /\ Alive(n)
       /\ "handshakeSent" \in peer[n].fired
       /\ "HandshakeTimeout" \notin p.retrying
       /\ \/ /\ p.state > 0 /\ p.initiator
             /\ RetryHandshake(n, q, "HandshakeTimeout")
          \/ /\ ~(p.state > 0 /\ p.initiator)
             /\ SetPeer(n, IF p.state > 0 THEN q ELSE p)
             /\ UNCHANGED <<eph, handshakes>>
       /\ UNCHANGED <<datas, seen, dups, pkts, delivered, expiries>>

\* TXTimeout queues an empty packet unless packets are waiting.
TXTimeout(n) ==
    LET p == [peer[n] EXCEPT !.fired = @ \ {"keepalive"}] IN
    /\ Alive(n)
    /\ "keepalive" \in peer[n].fired
    /\ SetPeer(n, IF p.outbound = <<>>
                  THEN [p EXCEPT !.outbound = <<Keepalive>>] ELSE p)
    /\ UNCHANGED <<eph, handshakes, datas, seen, dups, pkts, delivered, expiries>>

\* RXTimeout up to its pendingLock.Lock().
RXTimeout(n) ==
    LET p == [peer[n] EXCEPT !.fired = @ \ {"receivedPacket"}] IN
    /\ Alive(n)
    /\ "receivedPacket" \in peer[n].fired
    /\ ~p.locking /\ "RXTimeout" \notin p.retrying
    /\ SetPeer(n, IF p.inTransport
                  THEN [p EXCEPT !.armed = @ \ {"keepalive", "receivedPacket"},
                                 !.locking = TRUE]
                  ELSE p)
    /\ UNCHANGED <<eph, handshakes, datas, seen, dups, pkts, delivered, expiries>>

\* Mutant: the state is left alone until the new handshake sets it.
RXTimeoutLockedKeepsState(n) ==
    LET p == [peer[n] EXCEPT !.locking = FALSE, !.pendingLock = TRUE]
    IN /\ Alive(n)
       /\ peer[n].locking /\ ~peer[n].pendingLock
       /\ p.initiator
       /\ RetryHandshake(n, p, "RXTimeout")
       /\ UNCHANGED <<datas, seen, dups, pkts, delivered, expiries>>

\* Mutant: pendingLock is not held on return.
RXTimeoutUnlocked(n) ==
    LET p == [peer[n] EXCEPT !.locking = FALSE, !.state = 0]
    IN /\ Alive(n)
       /\ peer[n].locking /\ ~peer[n].pendingLock
       /\ \/ /\ ~p.initiator
             /\ SetPeer(n, ResetState(p))
             /\ UNCHANGED <<eph, handshakes>>
          \/ /\ p.initiator
             /\ RetryHandshake(n, p, "RXTimeout")
       /\ UNCHANGED <<datas, seen, dups, pkts, delivered, expiries>>

\* RXTimeout from its pendingLock.Lock(), which it leaves held: the initiator
\* starts a new handshake, the responder goes back to idle.
RXTimeoutLocked(n) ==
    LET p == [peer[n] EXCEPT !.locking = FALSE, !.pendingLock = TRUE, !.state = 0]
    IN /\ Alive(n)
       /\ peer[n].locking /\ ~peer[n].pendingLock
       /\ \/ /\ ~p.initiator
             /\ SetPeer(n, ResetState(
                    [p EXCEPT !.armed = @ \ {"receivedPacket", "handshakeSent"}]))
             /\ UNCHANGED <<eph, handshakes>>
          \/ /\ p.initiator
             /\ RetryHandshake(n, p, "RXTimeout")
       /\ UNCHANGED <<datas, seen, dups, pkts, delivered, expiries>>

\* The controller has answered Punch, and the callback sends its initiation
\* whatever has happened to the peer meanwhile.
SendRetry(n, caller) ==
    /\ Alive(n)
    /\ SendHandshake(n, [peer[n] EXCEPT !.retrying = @ \ {caller}])
    /\ UNCHANGED <<datas, seen, dups, pkts, delivered, expiries>>

-----------------------------------------------------------------------------
TimerStep(n) ==
    \/ \E t \in Timers : Expire(n, t)
    \/ HandshakeTimeout(n)
    \/ TXTimeout(n)
    \/ RXTimeout(n)
    \/ RXTimeoutLocked(n)
    \/ \E c \in peer[n].retrying : SendRetry(n, c)

Step(n) ==
    \/ OutboundPacket(n)
    \/ OutboundTake(n)
    \/ \E k \in peer[n].taken : OutboundSend(n, k)
    \/ \E m \in datas : Inbound(n, m)
    \/ \E m \in handshakes : Handshake(n, m)
    \/ \E m \in peer[n].handling : HandshakeLocked(n, m)
    \/ TimerStep(n)

Next == \E n \in Nodes : Step(n)

Spec == Init /\ [][Next]_vars

-----------------------------------------------------------------------------
(* Safety.                                                                  *)

\* Every variable has its type.
TypeOK ==
    /\ peer \in [Nodes -> Peer]
    /\ crash \in [Nodes -> CrashReasons]
    /\ eph \in Nat
    /\ handshakes \subseteq HandshakeMsg
    /\ datas \subseteq DataMsg
    /\ seen \subseteq HandshakeMsg \union DataMsg
    /\ dups \in Nat
    /\ pkts \in [Nodes -> Nat]
    /\ delivered \in [Nodes -> SUBSET Nat]
    /\ expiries \in Nat

\* The counter in the header is the AEAD nonce: no key ever protects two
\* different packets under one counter, over any number of handshakes, retries
\* and replayed handshake messages.
NonceUnique ==
    \A c, d \in datas : c.key = d.key /\ c.ctr = d.ctr => c = d

\* The ciphers of a node are the two directions of one session, and when both
\* nodes hold that session each decrypts with what the other encrypts with.
SessionPairing ==
    \A n \in Nodes :
        /\ peer[n].tx.s = peer[n].rx.s
        /\ peer[n].tx # NoCipher => peer[n].tx.dir # peer[n].rx.dir
        /\ peer[n].tx # NoCipher /\ peer[n].tx.s = peer[Other(n)].tx.s
              => peer[n].tx = peer[Other(n)].rx

\* Counters follow the order in which the tun device produced the packets, also
\* for a packet that Outbound had already taken when the queues were flushed.
SendOrder ==
    \A c, d \in datas :
        c.key = d.key /\ c.ctr < d.ctr /\ c.pkt > 0 /\ d.pkt > 0 => c.pkt < d.pkt

\* In state 2 the routines may run and have ciphers to run with; a node that
\* waits for a response has the handshake state to read it with.
StateCoherent ==
    \A n \in Nodes :
        LET p == peer[n] IN
        /\ p.state = 2 => ~p.pendingLock /\ p.tx # NoCipher /\ p.rx # NoCipher
        /\ p.state = 1 => p.initiator /\ p.hs # NoHandshake

\* A handshake in progress is never forgotten: its timer runs, or its callback
\* is on its way to retry or give up.
RetryPending ==
    \A n \in Nodes :
        peer[n].state = 1 =>
            \/ "handshakeSent" \in peer[n].armed \union peer[n].fired
            \/ "HandshakeTimeout" \in peer[n].retrying

\* In state 2 the next packet or keepalive is always on its way, although
\* TXTimeout does not restart its timer when packets are waiting: the routine
\* that sends them does.
KeepalivePending ==
    \A n \in Nodes :
        LET p == peer[n] IN
        p.state = 2 =>
            \/ "keepalive" \in p.armed \union p.fired
            \/ p.outbound # <<>> \/ p.taken # {}
            \/ p.locking

\* Something is always due to happen: neither a handshake in progress nor a session
\* without traffic is left with no timer, callback or routine to move it on.
TimersPending == RetryPending /\ KeepalivePending

\* A node never goes back to the keys of an earlier session, whatever handshake
\* messages are delayed or replayed.
SessionsAdvance ==
    [][\A n \in Nodes :
          \/ peer[n].tx.s = 0
          \/ peer'[n].tx.s \in {0, peer[n].tx.s}
          \/ peer'[n].tx.s > peer[n].tx.s]_vars

\* The two nodes together are an unreliable channel between their tun devices:
\* in particular keepalives stay inside the tunnel.
Channel == INSTANCE DatagramChannel WITH accepted <- pkts
ChannelSpec == Channel!Spec

\* With one initiator, and no handshake message sent or delivered twice, no
\* routine panics: no out-of-sequence message, no nil state, no unlock of a
\* pendingLock that is not held.
NoPanic == \A n \in Nodes : Alive(n)

\* pendingLock is held from Start, and again from RXTimeout, until a handshake
\* is complete: what Inbound and Outbound rely on.
LockedUntilEstablished ==
    \A n \in Nodes : peer[n].pendingLock <=> peer[n].state # 2

\* What the lock and the assertions of Handshake together are for: with one
\* initiator the routines of both nodes survive every order of messages and timers,
\* and wait exactly while there is no session.
OneInitiatorSafe == NoPanic /\ LockedUntilEstablished

-----------------------------------------------------------------------------
(* Liveness.                                                                *)

\* The runtime runs timers that are due and the goroutines they start; the
\* controller answers Punch.
TimerFairness ==
    \A n \in Nodes :
        /\ WF_vars(Expire(n, "handshakeSent"))
        /\ WF_vars(HandshakeTimeout(n))
        /\ WF_vars(RXTimeout(n))
        /\ WF_vars(RXTimeoutLocked(n))
        /\ WF_vars(\E c \in peer[n].retrying : SendRetry(n, c))

\* The routines of a peer run, and the network delivers what is sent.
RoutineFairness ==
    \A n \in Nodes :
        /\ WF_vars(OutboundTake(n))
        /\ WF_vars(\E k \in peer[n].taken : OutboundSend(n, k))
        /\ WF_vars(\E m \in datas : Inbound(n, m))
        /\ WF_vars(\E m \in handshakes : Handshake(n, m))
        /\ WF_vars(\E m \in peer[n].handling : HandshakeLocked(n, m))

TimerSpec == Spec /\ TimerFairness
FairSpec  == Spec /\ TimerFairness /\ RoutineFairness

\* However many messages are lost, a handshake ends: with a session, or given up
\* after CountHandshakeRetries attempts.
HandshakeSettles ==
    \A n \in Nodes : peer[n].state = 1 ~> (peer[n].state # 1 \/ ~Alive(n))

\* On a network that loses nothing, packets sent before and during the handshake
\* wait for it and then arrive, unless a node declares the session dead: RXTimeout
\* flushes its queues, and the other end goes on with keys that node has given up.
PacketsDelivered ==
    \/ \A n \in Nodes : \A k \in 1..MaxPackets :
         pkts[n] >= k ~> k \in delivered[Other(n)]
    \/ <>(\E n \in Nodes : "receivedPacket" \in peer[n].fired)
=============================================================================
