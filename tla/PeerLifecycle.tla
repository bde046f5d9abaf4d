---------------------------- MODULE PeerLifecycle ----------------------------
(***************************************************************************)
(* The life of one Peer object: Start, Stop, Update and ResetState          *)
(* (node/peer.go, node/grpcclient.go) against its three routines, its       *)
(* timers and the two readers of the node (node/peer_transport.go), at the  *)
(* grain of what they wait for: mu, pendingLock, the channels, the wait     *)
(* group and the Punch call.                                                *)
(*                                                                         *)
(* mu is held over a wait by Stop and Start (for writing) and by            *)
(* RequestPunch (for reading); every other critical section of mu is one    *)
(* step, possible when mu is free for it.  pendingLock is held for writing  *)
(* or not: it is taken by one goroutine and released by another.  Reading   *)
(* sections of pendingLock are one step.  Nothing nests two locks for       *)
(* reading, so the preference of sync.RWMutex for writers is left out.      *)
(*                                                                         *)
(* The session itself is the subject of Tunnel: here it is the static key   *)
(* of the remote node it was made with, and a handshake state is the number *)
(* of the attempt.  Late and repeated messages are left to Tunnel.          *)
(***************************************************************************)
EXTENDS Naturals, Sequences, FiniteSets

CONSTANTS
    Stoppers,              \* goroutines of StopAllPeers that stop this peer
    CountHandshakeRetries, \* attempts before a handshake is given up
    ChannelSize,           \* capacity of inbound and outbound
    HandshakeChannelSize,  \* capacity of handshakes
    ExpiringTimers,        \* the timers that may run out in this instance
    MaxKeys,               \* bound: static keys the remote node has in turn
    MaxPackets,            \* bound: packets from the tun device
    MaxDatagrams,          \* bound: data messages and initiations of the remote
    MaxExpiries            \* bound: expiries of timers

Callers   == {"updater"} \cup Stoppers
Callbacks == {"HandshakeTimeout", "TXTimeout", "RXTimeout"}
Procs     == Callers \cup Callbacks \cup {"tun", "udp"}
Kinds     == {"Handshake", "Inbound", "Outbound"}
Timers    == {"handshakeSent", "receivedPacket", "keepalive"}

ASSUME PeerLifecycleAssumption ==
    /\ Stoppers \cap ({"updater", "tun", "udp", "none"} \cup Callbacks) = {}
    /\ CountHandshakeRetries \in Nat
    /\ ChannelSize \in Nat \ {0} /\ HandshakeChannelSize \in Nat \ {0}
    /\ ExpiringTimers \subseteq Timers
    /\ MaxKeys \in Nat \ {0}
    /\ MaxPackets \in Nat /\ MaxDatagrams \in Nat /\ MaxExpiries \in Nat

VARIABLES
    peer,      \* the fields of the Peer
    mu,        \* mu: its writer or "none", and its readers
    queue,     \* queue[k]: the channel that routine k reads
    pc,        \* pc[x]: where the goroutine x is
    was,       \* was[x]: wasRunning in the ResetState of x
    target,    \* the key in the update that the updater handles
    routine,   \* routine[g][k]: routine k of the g-th Start
    held,      \* held[g]: the message that Handshake works on, with its case
    attempt,   \* the last initiation sent: its number and the key it was made for
    answered,  \* the last attempt that the remote answered
    reading,   \* the handshake message in the hands of the UDP reader
    remoteKey, \* the static key of the remote node
    updates,   \* CONNECT updates on the stream, as the key they carry
    crash,     \* why the process ended, or "none"
    spent      \* packets, datagrams and expiries so far

vars == <<peer, mu, queue, pc, was, target, routine, held, attempt, answered,
          reading, remoteKey, updates, crash, spent>>

Keys     == 1..MaxKeys
Nil      == [ctr |-> 9, n |-> 0, key |-> 0]
Packet   == [ctr |-> 2, n |-> 0, key |-> 0]
NoHold   == [msg |-> Nil, case |-> 0]
Message  == [ctr : {0, 1}, n : Nat, key : Keys]

\* The fields of Peer.  hs is the attempt of the initiator's handshake state, 0
\* when there is none to read a response with; session is the key behind rx and
\* tx, 0 when they are nil.
Peer == [running : BOOLEAN, inTransport : BOOLEAN, state : {0, 1, 2},
         initiator : BOOLEAN, hs : Nat, session : 0..MaxKeys, pubkey : Keys,
         retries : Nat, pendingLock : BOOLEAN, armed : SUBSET Timers]

CrashReasons == {"none", "unlock of unlocked mutex", "already running", "nil flushed",
                 "nil cipher", "nil handshake", "counter mismatch", "read error"}

\* AddPeer and Start have run.
Init ==
    /\ peer = [running |-> TRUE, inTransport |-> FALSE, state |-> 0,
               initiator |-> FALSE, hs |-> 0, session |-> 0, pubkey |-> 1,
               retries |-> 0, pendingLock |-> TRUE, armed |-> {}]
    /\ mu = [writer |-> "none", readers |-> {}]
    /\ queue = [k \in Kinds |-> <<>>]
    /\ pc = [x \in Procs |-> "idle"]
    /\ was = [x \in Procs |-> FALSE]
    /\ target = 1
    /\ routine = [g \in Keys |-> [k \in Kinds |-> IF g = 1 THEN "recv" ELSE "none"]]
    /\ held = [g \in Keys |-> NoHold]
    /\ attempt = [n |-> 0, key |-> 1]
    /\ answered = 0
    /\ reading = Nil
    /\ remoteKey = 1
    /\ updates = <<>>
    /\ crash = "none"
    /\ spent = [packets |-> 0, datagrams |-> 0, expiries |-> 0]

-----------------------------------------------------------------------------
Alive == crash = "none"

Readable == mu.writer = "none"
Free     == mu.writer = "none" /\ mu.readers = {}

At(x, label)   == Alive /\ pc[x] = label
Goto(x, label) == pc' = [pc EXCEPT ![x] = label]

Crash(why) == crash' = why

Room(k) == Len(queue[k]) < IF k = "Handshake" THEN HandshakeChannelSize ELSE ChannelSize
Push(k, m) == queue' = [queue EXCEPT ![k] = Append(@, m)]

world == <<attempt, answered, reading, remoteKey, updates, spent>>

-----------------------------------------------------------------------------
(* ResetState, called by Stop and by the callbacks.                         *)

\* The CompareAndSwap of running.
ResetState(x) ==
    /\ At(x, "cas")
    /\ was' = [was EXCEPT ![x] = peer.running]
    /\ peer' = [peer EXCEPT !.running = FALSE]
    /\ Goto(x, "reset")
    /\ UNCHANGED <<mu, queue, target, routine, held, crash, world>>

\* Where a caller of ResetState goes on.
AfterReset(x) == IF x \in Callers THEN "lock" ELSE "idle"

Cleared(p) == [p EXCEPT !.retries = 0, !.armed = @ \ {"receivedPacket", "keepalive"},
                        !.hs = 0, !.session = 0, !.initiator = FALSE,
                        !.state = 0, !.inTransport = FALSE]

\* The part under mu.  flushQueues returns every element to its pool, which a
\* nil does not survive.
ResetLocked(x) ==
    /\ At(x, "reset") /\ Free
    /\ IF \E k \in Kinds : \E i \in DOMAIN queue[k] : queue[k][i] = Nil
       THEN Crash("nil flushed") /\ UNCHANGED <<peer, queue, pc>>
       ELSE /\ peer' = Cleared(peer)
            /\ queue' = [k \in Kinds |-> <<>>]
            /\ Goto(x, IF was[x] THEN "restore" ELSE AfterReset(x))
            /\ UNCHANGED crash
    /\ UNCHANGED <<mu, was, target, routine, held, world>>

\* Mutant: the reset peer is not made running again.
ResetRestoreNot(x) ==
    /\ At(x, "restore")
    /\ was' = [was EXCEPT ![x] = FALSE]
    /\ Goto(x, AfterReset(x))
    /\ UNCHANGED <<peer, mu, queue, target, routine, held, crash, world>>

\* The deferred Store(true), after mu is released.
ResetRestore(x) ==
    /\ At(x, "restore")
    /\ peer' = [peer EXCEPT !.running = TRUE]
    /\ was' = [was EXCEPT ![x] = FALSE]
    /\ Goto(x, AfterReset(x))
    /\ UNCHANGED <<mu, queue, target, routine, held, crash, world>>

-----------------------------------------------------------------------------
(* Stop, Start and Update.                                                  *)

StopBegin(x) ==
    /\ peer' = [peer EXCEPT !.running = FALSE]
    /\ Goto(x, "cas")

\* go peer.Stop() in StopAllPeers.
Stop(x) ==
    /\ x \in Stoppers
    /\ At(x, "idle")
    /\ StopBegin(x)
    /\ UNCHANGED <<mu, queue, was, target, routine, held, crash, world>>

StopLock(x) ==
    /\ At(x, "lock") /\ Free
    /\ mu' = [mu EXCEPT !.writer = x]
    /\ Goto(x, "nil Handshake")
    /\ UNCHANGED <<peer, queue, was, target, routine, held, crash, world>>

\* Where a Stop is about to send the nil for routine k.
NilLabel(k) == CASE k = "Handshake" -> "nil Handshake"
                 [] k = "Inbound"   -> "nil Inbound"
                 [] k = "Outbound"  -> "nil Outbound"

\* Mutant: Stop forgets the Outbound routine.
StopSendTwo(x, k) ==
    /\ At(x, NilLabel(k)) /\ Room(k)
    /\ Push(k, Nil)
    /\ Goto(x, IF k = "Handshake" THEN "nil Inbound" ELSE "wait")
    /\ UNCHANGED <<peer, mu, was, target, routine, held, crash, world>>

\* The three sends of nil, each of which waits for room.
StopSend(x, k) ==
    /\ At(x, NilLabel(k)) /\ Room(k)
    /\ Push(k, Nil)
    /\ Goto(x, CASE k = "Handshake" -> "nil Inbound"
                 [] k = "Inbound"   -> "nil Outbound"
                 [] OTHER           -> "wait")
    /\ UNCHANGED <<peer, mu, was, target, routine, held, crash, world>>

\* The count of the wait group is zero.
RoutinesDone == \A g \in Keys, k \in Kinds : routine[g][k] \in {"none", "exited"}

\* Mutant: Stop does not wait for the routines.
StopWaitNot(x) ==
    /\ At(x, "wait")
    /\ peer' = [peer EXCEPT !.pendingLock = FALSE]
    /\ mu' = [mu EXCEPT !.writer = "none"]
    /\ Goto(x, IF x = "updater" THEN "key" ELSE "done")
    /\ UNCHANGED <<queue, was, target, routine, held, crash, world>>

\* wg.Wait, and pendingLock.Unlock whoever holds it.
StopWait(x) ==
    /\ At(x, "wait") /\ RoutinesDone
    /\ IF peer.pendingLock
       THEN /\ peer' = [peer EXCEPT !.pendingLock = FALSE]
            /\ mu' = [mu EXCEPT !.writer = "none"]
            /\ Goto(x, IF x = "updater" THEN "key" ELSE "done")
            /\ UNCHANGED crash
       ELSE Crash("unlock of unlocked mutex") /\ UNCHANGED <<peer, mu, pc>>
    /\ UNCHANGED <<queue, was, target, routine, held, world>>

\* Update reads the current key and compares it with the one it is given.
Update ==
    /\ At("updater", "idle") /\ Readable
    /\ updates # <<>>
    /\ target' = Head(updates)
    /\ updates' = Tail(updates)
    /\ IF Head(updates) = peer.pubkey THEN UNCHANGED <<peer, pc>> ELSE StopBegin("updater")
    /\ UNCHANGED <<mu, queue, was, routine, held, crash, attempt, answered, reading, remoteKey, spent>>

UpdateKey ==
    /\ At("updater", "key") /\ Free
    /\ peer' = [peer EXCEPT !.pubkey = target]
    /\ Goto("updater", "start")
    /\ UNCHANGED <<mu, queue, was, target, routine, held, crash, world>>

\* Start takes mu; its error is a panic in Update.
Start ==
    /\ At("updater", "start") /\ Free
    /\ IF peer.running
       THEN Crash("already running") /\ UNCHANGED <<mu, pc>>
       ELSE /\ mu' = [mu EXCEPT !.writer = "updater"]
            /\ Goto("updater", "starting")
            /\ UNCHANGED crash
    /\ UNCHANGED <<peer, queue, was, target, routine, held, world>>

\* Start has pendingLock: the next three routines.
StartRoutines ==
    LET g == CHOOSE h \in Keys : routine[h]["Inbound"] = "none"
                /\ \A i \in 1..(h - 1) : routine[i]["Inbound"] # "none"
    IN /\ At("updater", "starting") /\ ~peer.pendingLock
       /\ peer' = [peer EXCEPT !.pendingLock = TRUE, !.running = TRUE, !.inTransport = FALSE]
       /\ mu' = [mu EXCEPT !.writer = "none"]
       /\ routine' = [routine EXCEPT ![g] = [k \in Kinds |-> "recv"]]
       /\ Goto("updater", "idle")
       /\ UNCHANGED <<queue, was, target, held, crash, world>>

-----------------------------------------------------------------------------
(* TrySendHandshake, called by the tun reader and by two callbacks.         *)

\* TrySendHandshake(true): give up, or ask for a punch first.
RetryHandshake(x, p) ==
    LET q == [p EXCEPT !.retries = @ + 1] IN
    IF q.retries > CountHandshakeRetries
    THEN /\ peer' = [q EXCEPT !.armed = @ \ {"handshakeSent"}]
         /\ Goto(x, "cas")
    ELSE /\ peer' = q
         /\ Goto(x, "punch")

\* RequestPunch keeps mu for reading while the controller is called.
RequestPunch(x) ==
    /\ At(x, "punch") /\ Readable
    /\ mu' = [mu EXCEPT !.readers = @ \cup {x}]
    /\ Goto(x, "punching")
    /\ UNCHANGED <<peer, queue, was, target, routine, held, crash, world>>

PunchReturns(x) ==
    /\ At(x, "punching")
    /\ mu' = [mu EXCEPT !.readers = @ \ {x}]
    /\ Goto(x, "send")
    /\ UNCHANGED <<peer, queue, was, target, routine, held, crash, world>>

\* InitHandshake and handshakeP1 under mu, with the key known now.
SendHandshake(x) ==
    /\ At(x, "send") /\ Free
    /\ attempt' = [n |-> attempt.n + 1, key |-> peer.pubkey]
    /\ peer' = [peer EXCEPT !.initiator = TRUE, !.hs = attempt.n + 1, !.state = 1,
                            !.armed = @ \cup {"handshakeSent"}]
    /\ Goto(x, "idle")
    /\ UNCHANGED <<mu, queue, was, target, routine, held, crash, answered, reading, remoteKey,
                   updates, spent>>

-----------------------------------------------------------------------------
(* The readers of the tun device and of the UDP socket.                     *)

\* OutboundPacket up to its look at running.
OutboundPacket ==
    /\ At("tun", "idle")
    /\ spent.packets < MaxPackets
    /\ spent' = [spent EXCEPT !.packets = @ + 1]
    /\ IF peer.running THEN Goto("tun", "push") ELSE UNCHANGED pc
    /\ UNCHANGED <<peer, mu, queue, was, target, routine, held, crash, attempt, answered,
                   reading, remoteKey, updates>>

\* Mutant: the length of the channel is not looked at.
OutboundQueueUnchecked ==
    /\ At("tun", "push")
    /\ Push("Outbound", Packet)
    /\ IF ~peer.inTransport /\ peer.state = 0
       THEN peer' = [peer EXCEPT !.retries = @ + 1] /\ Goto("tun", "send")
       ELSE Goto("tun", "idle") /\ UNCHANGED peer
    /\ UNCHANGED <<mu, was, target, routine, held, crash, world>>

\* The rest: queue the packet if there is room, start a handshake if there is none.
OutboundQueue ==
    /\ At("tun", "push")
    /\ IF Room("Outbound") THEN Push("Outbound", Packet) ELSE UNCHANGED queue
    /\ IF ~peer.inTransport /\ peer.state = 0
       THEN peer' = [peer EXCEPT !.retries = @ + 1] /\ Goto("tun", "send")
       ELSE Goto("tun", "idle") /\ UNCHANGED peer
    /\ UNCHANGED <<mu, was, target, routine, held, crash, world>>

\* What the remote node may send: initiations, and an answer to our last attempt
\* if that was made for the key it has.
Arriving ==
    {[ctr |-> 0, n |-> 0, key |-> remoteKey]} \cup
    {m \in {[ctr |-> 1, n |-> attempt.n, key |-> remoteKey]} :
        attempt.n > answered /\ attempt.key = remoteKey}

\* OnUDPPacket looks at running before it hands a handshake message over.
OnHandshake(m) ==
    /\ At("udp", "idle")
    /\ IF m.ctr = 1
       THEN answered' = m.n /\ UNCHANGED spent
       ELSE /\ spent.datagrams < MaxDatagrams
            /\ spent' = [spent EXCEPT !.datagrams = @ + 1]
            /\ UNCHANGED answered
    /\ IF peer.running
       THEN reading' = m /\ Goto("udp", "handshake")
       ELSE UNCHANGED <<reading, pc>>
    /\ UNCHANGED <<peer, mu, queue, was, target, routine, held, crash, attempt, remoteKey, updates>>

\* The send waits for room, and every peer of the node with it.
HandshakeQueue ==
    /\ At("udp", "handshake") /\ Room("Handshake")
    /\ Push("Handshake", reading)
    /\ reading' = Nil
    /\ Goto("udp", "idle")
    /\ UNCHANGED <<peer, mu, was, target, routine, held, crash, attempt, answered, remoteKey,
                   updates, spent>>

\* InboundPacket looks at running and queues a data message if there is room.
InboundPacket ==
    /\ At("udp", "idle")
    /\ spent.datagrams < MaxDatagrams
    /\ spent' = [spent EXCEPT !.datagrams = @ + 1]
    /\ IF peer.running THEN Goto("udp", "data") ELSE UNCHANGED pc
    /\ UNCHANGED <<peer, mu, queue, was, target, routine, held, crash, attempt, answered,
                   reading, remoteKey, updates>>

InboundQueue ==
    /\ At("udp", "data")
    /\ IF Room("Inbound") THEN Push("Inbound", Packet) ELSE UNCHANGED queue
    /\ Goto("udp", "idle")
    /\ UNCHANGED <<peer, mu, was, target, routine, held, crash, world>>

-----------------------------------------------------------------------------
(* The routines of the g-th Start.                                          *)

RoutineAt(g, k, label) == Alive /\ routine[g][k] = label
Move(g, k, label) == routine' = [routine EXCEPT ![g][k] = label]

\* Receive from the channel: a nil ends the routine.
Receive(g, k) ==
    LET m == Head(queue[k]) IN
    /\ RoutineAt(g, k, "recv") /\ queue[k] # <<>>
    /\ queue' = [queue EXCEPT ![k] = Tail(@)]
    /\ \/ /\ m = Nil
          /\ Move(g, k, "exited")
          /\ UNCHANGED <<held, crash>>
       \/ /\ m # Nil /\ k # "Handshake"
          /\ Move(g, k, "lock")
          /\ UNCHANGED <<held, crash>>
       \/ /\ m # Nil /\ k = "Handshake"
          /\ held' = [held EXCEPT ![g] = [msg |-> m, case |-> peer.state]]
          /\ IF peer.state # 2 /\ m.ctr # peer.state
             THEN Crash("counter mismatch") /\ UNCHANGED routine
             ELSE Move(g, k, IF peer.state = 2 THEN "lock" ELSE "mu") /\ UNCHANGED crash
    /\ UNCHANGED <<peer, mu, pc, was, target, world>>

\* Inbound: a message that decrypts restarts receivedPacket.
Inbound(g) ==
    /\ RoutineAt(g, "Inbound", "lock") /\ ~peer.pendingLock
    /\ \/ /\ peer.session = 0
          /\ Crash("nil cipher")
          /\ UNCHANGED <<peer, routine>>
       \/ /\ peer.session # 0
          /\ \/ /\ peer' = [peer EXCEPT !.armed = @ \cup {"receivedPacket"}]
                /\ Move(g, "Inbound", "mu")
             \/ Move(g, "Inbound", "recv") /\ UNCHANGED peer
          /\ UNCHANGED crash
    /\ UNCHANGED <<mu, queue, pc, was, target, held, world>>

\* Outbound: encrypt and restart keepalive.
Outbound(g) ==
    /\ RoutineAt(g, "Outbound", "lock") /\ ~peer.pendingLock
    /\ IF peer.session = 0
       THEN Crash("nil cipher") /\ UNCHANGED <<peer, routine>>
       ELSE /\ peer' = [peer EXCEPT !.armed = @ \cup {"keepalive"}]
            /\ Move(g, "Outbound", "mu")
            /\ UNCHANGED crash
    /\ UNCHANGED <<mu, queue, pc, was, target, held, world>>

\* UpdateEndpoint of Inbound, and the write of Outbound, under mu.
UseAddress(g, k) ==
    /\ k # "Handshake"
    /\ RoutineAt(g, k, "mu") /\ Readable
    /\ Move(g, k, "recv")
    /\ UNCHANGED <<peer, mu, queue, pc, was, target, held, crash, world>>

\* Case 2 of Handshake takes pendingLock.
HandshakeLock(g) ==
    /\ RoutineAt(g, "Handshake", "lock") /\ ~peer.pendingLock
    /\ peer' = [peer EXCEPT !.pendingLock = TRUE]
    /\ Move(g, "Handshake", "mu")
    /\ UNCHANGED <<mu, queue, pc, was, target, held, crash, world>>

\* handshakeP2 under mu: an initiator reads the response to its attempt, a
\* responder answers an initiation, whatever key it was made with.
HandshakeP2(g) ==
    LET m == held[g].msg IN
    /\ RoutineAt(g, "Handshake", "mu") /\ Free
    /\ \/ /\ peer.initiator /\ peer.hs # 0 /\ m.ctr = 1 /\ m.n = peer.hs
          /\ peer' = [peer EXCEPT !.session = m.key, !.hs = 0]
          /\ Move(g, "Handshake", "finish")
          /\ UNCHANGED crash
       \/ /\ ~peer.initiator /\ m.ctr = 0
          /\ peer' = [peer EXCEPT !.session = m.key, !.hs = 0]
          /\ Move(g, "Handshake", "finish")
          /\ UNCHANGED crash
       \/ /\ ~(peer.initiator /\ peer.hs # 0 /\ m.ctr = 1 /\ m.n = peer.hs)
          /\ ~(~peer.initiator /\ m.ctr = 0)
          /\ Crash(IF peer.initiator /\ peer.hs = 0 THEN "nil handshake" ELSE "read error")
          /\ UNCHANGED <<peer, routine>>
    /\ UNCHANGED <<mu, queue, pc, was, target, held, world>>

\* After handshakeP2, in every case: into transport, and pendingLock released.
FinishHandshake(g) ==
    /\ RoutineAt(g, "Handshake", "finish")
    /\ IF peer.pendingLock
       THEN /\ peer' = [peer EXCEPT !.state = 2, !.inTransport = TRUE, !.pendingLock = FALSE,
                   !.retries = 0,
                   !.armed = (@ \ {"handshakeSent"}) \cup {"keepalive"} \cup
                             (IF held[g].case = 2 THEN {"receivedPacket"} ELSE {})]
            /\ held' = [held EXCEPT ![g] = NoHold]
            /\ Move(g, "Handshake", "recv")
            /\ UNCHANGED crash
       ELSE Crash("unlock of unlocked mutex") /\ UNCHANGED <<peer, held, routine>>
    /\ UNCHANGED <<mu, queue, pc, was, target, world>>

-----------------------------------------------------------------------------
(* Timers.                                                                  *)

Callback(t) == CASE t = "handshakeSent"  -> "HandshakeTimeout"
                 [] t = "receivedPacket" -> "RXTimeout"
                 [] t = "keepalive"      -> "TXTimeout"

Expire(t) ==
    /\ t \in ExpiringTimers \cap peer.armed
    /\ At(Callback(t), "idle")
    /\ spent.expiries < MaxExpiries
    /\ spent' = [spent EXCEPT !.expiries = @ + 1]
    /\ peer' = [peer EXCEPT !.armed = @ \ {t}]
    /\ Goto(Callback(t), "begin")
    /\ UNCHANGED <<mu, queue, was, target, routine, held, crash, attempt, answered, reading,
                   remoteKey, updates>>

HandshakeTimeout ==
    LET x == "HandshakeTimeout"
        p == [peer EXCEPT !.inTransport = FALSE]
    IN /\ At(x, "begin")
       /\ IF peer.state > 0 /\ peer.initiator
          THEN RetryHandshake(x, p)
          ELSE peer' = (IF peer.state > 0 THEN p ELSE peer) /\ Goto(x, "idle")
       /\ UNCHANGED <<mu, queue, was, target, routine, held, crash, world>>

\* TXTimeout looks at the length of outbound and then sends, whether or not the
\* peer is running.
TXTimeout ==
    /\ At("TXTimeout", "begin")
    /\ Goto("TXTimeout", IF queue["Outbound"] = <<>> THEN "push" ELSE "idle")
    /\ UNCHANGED <<peer, mu, queue, was, target, routine, held, crash, world>>

TXQueue ==
    /\ At("TXTimeout", "push") /\ Room("Outbound")
    /\ Push("Outbound", Packet)
    /\ Goto("TXTimeout", "idle")
    /\ UNCHANGED <<peer, mu, was, target, routine, held, crash, world>>

RXTimeout ==
    /\ At("RXTimeout", "begin")
    /\ IF peer.inTransport
       THEN /\ peer' = [peer EXCEPT !.armed = @ \ {"keepalive", "receivedPacket"}]
            /\ Goto("RXTimeout", "pending")
       ELSE Goto("RXTimeout", "idle") /\ UNCHANGED peer
    /\ UNCHANGED <<mu, queue, was, target, routine, held, crash, world>>

RXTimeoutLock ==
    /\ At("RXTimeout", "pending") /\ ~peer.pendingLock
    /\ peer' = [peer EXCEPT !.pendingLock = TRUE, !.state = 0]
    /\ Goto("RXTimeout", "locked")
    /\ UNCHANGED <<mu, queue, was, target, routine, held, crash, world>>

\* With pendingLock held RXTimeout reads initiator under mu, and resets the peer
\* or starts a new handshake; it returns with pendingLock held.
RXTimeoutLocked ==
    /\ At("RXTimeout", "locked") /\ Readable
    /\ IF peer.initiator
       THEN RetryHandshake("RXTimeout", peer)
       ELSE /\ peer' = [peer EXCEPT !.armed = @ \ {"receivedPacket", "handshakeSent"}]
            /\ Goto("RXTimeout", "cas")
    /\ UNCHANGED <<mu, queue, was, target, routine, held, crash, world>>

-----------------------------------------------------------------------------
(* The remote node restarts with a new static key, and the controller       *)
(* announces it when it connects.                                           *)
RemoteRestart ==
    /\ Alive
    /\ remoteKey < MaxKeys
    /\ remoteKey' = remoteKey + 1
    /\ updates' = Append(updates, remoteKey + 1)
    /\ UNCHANGED <<peer, mu, queue, pc, was, target, routine, held, crash, attempt, answered,
                   reading, spent>>

StopStep(x) == StopLock(x) \/ (\E k \in Kinds : StopSend(x, k)) \/ StopWait(x)
ResetStep(x) == ResetState(x) \/ ResetLocked(x) \/ ResetRestore(x)
SendStep(x) == RequestPunch(x) \/ PunchReturns(x) \/ SendHandshake(x)

Updater   == Update \/ UpdateKey \/ Start \/ StartRoutines
Caller(x) == StopStep(x) \/ ResetStep(x) \/ (x = "updater" /\ Updater)
Timeout(x) ==
    \/ ResetStep(x) \/ SendStep(x)
    \/ x = "HandshakeTimeout" /\ HandshakeTimeout
    \/ x = "TXTimeout" /\ (TXTimeout \/ TXQueue)
    \/ x = "RXTimeout" /\ (RXTimeout \/ RXTimeoutLock \/ RXTimeoutLocked)
TunReader == OutboundQueue \/ SendStep("tun")
UDPReader == HandshakeQueue \/ InboundQueue
Routine(g, k) ==
    \/ Receive(g, k) \/ UseAddress(g, k)
    \/ k = "Inbound" /\ Inbound(g)
    \/ k = "Outbound" /\ Outbound(g)
    \/ k = "Handshake" /\ (HandshakeLock(g) \/ HandshakeP2(g) \/ FinishHandshake(g))

\* What comes from outside the peer: packets, datagrams, time and the update stream.
Environment ==
    \/ \E x \in Stoppers : Stop(x)
    \/ \E m \in Arriving : OnHandshake(m)
    \/ OutboundPacket \/ InboundPacket \/ RemoteRestart
    \/ \E t \in Timers : Expire(t)

Goroutines ==
    \/ \E x \in Callers : Caller(x)
    \/ \E x \in Callbacks : Timeout(x)
    \/ TunReader \/ UDPReader
    \/ \E g \in Keys, k \in Kinds : Routine(g, k)

Next == Environment \/ Goroutines

Spec == Init /\ [][Next]_vars

\* While some goroutine can go on, one does, and the controller answers Punch.
\* Nothing has to arrive, expire or be stopped.
FairSpec == Spec /\ WF_vars(Goroutines)

-----------------------------------------------------------------------------
(* Properties.                                                              *)

Labels == {"idle", "cas", "reset", "restore", "lock", "nil Handshake", "nil Inbound",
           "nil Outbound", "wait", "key", "start", "starting", "done", "punch", "punching",
           "send", "push", "handshake", "data", "begin", "pending", "locked"}

\* Every field has its type, and no channel holds more than it was made for.
TypeOK ==
    /\ peer \in Peer
    /\ mu \in [writer : Callers \cup {"none"}, readers : SUBSET Callbacks]
    /\ queue \in [Kinds -> Seq(Message \cup {Packet, Nil})]
    /\ \A k \in Kinds : Len(queue[k]) <= IF k = "Handshake" THEN HandshakeChannelSize
                                                           ELSE ChannelSize
    /\ \A i \in DOMAIN queue["Handshake"] : queue["Handshake"][i] # Packet
    /\ pc \in [Procs -> Labels] /\ was \in [Procs -> BOOLEAN]
    /\ routine \in [Keys -> [Kinds -> {"none", "recv", "lock", "mu", "finish", "exited"}]]
    /\ held \in [Keys -> [msg : Message \cup {Nil}, case : 0..2]]
    /\ attempt \in [n : Nat, key : Keys] /\ answered \in Nat
    /\ reading \in Message \cup {Nil}
    /\ updates \in Seq(Keys)
    /\ target \in Keys /\ remoteKey \in Keys /\ crash \in CrashReasons

Serving(g) == \A k \in Kinds : routine[g][k] \notin {"none", "exited"}

\* The routines of an earlier Start are gone when those of the next one run: two
\* Inbound routines would share one cipher and its nonce.
OneGeneration ==
    \A k \in Kinds, g, h \in Keys :
        /\ routine[g][k] \notin {"none", "exited"}
        /\ routine[h][k] \notin {"none", "exited"}
        => g = h

\* No Stop has begun, or the Update it was part of has ended.
NoStop == \A x \in Callers : pc[x] = "idle"

\* A peer that accepts packets, with no Stop or Update under way, has all three
\* routines: none of them took a nil that was meant for another one or for an
\* earlier Stop, whatever callbacks reset the peer in the meantime.
RunningServed ==
    Alive /\ peer.running /\ NoStop => \E g \in Keys : Serving(g)

\* The other direction: with no Stop or Update under way the peer is only not running
\* because a callback is resetting it, and it will be running again.
StoppedOnlyByReset ==
    Alive /\ ~peer.running /\ NoStop =>
        \E x \in Callbacks : pc[x] \in {"reset", "restore"} /\ was[x]

\* No ResetState finds the nil of a Stop in a queue, which it would dereference, until
\* the node itself has stopped the peer: its Stop and that of an Update may both end,
\* with three routines for their six nils.
NoNilFlushed == crash = "nil flushed" => \E x \in Stoppers : pc[x] = "done"

\* Stop, Start and the callbacks keep the routines apart: one generation of them at
\* a time, whose channels hold what they were made for and no nil of another Stop.
RoutinesSound == TypeOK /\ OneGeneration /\ NoNilFlushed

\* Nobody is between two steps but the updater, which is about to send the nils, and
\* no callback that reset the peer meanwhile has made it running again.
Quiet ==
    /\ Alive /\ pc["updater"] = "lock" /\ ~peer.running
    /\ \A x \in Procs \ {"updater"} : pc[x] = "idle"
    /\ \A k \in Kinds : queue[k] = <<>>
    /\ \A g \in Keys, k \in Kinds : routine[g][k] \in {"none", "recv", "exited"}

\* The Stop of a peer that is not established and has nothing under way ends, and
\* the peer is started again with its new key, unless StopAllPeers comes between.
QuietRestart ==
    (Quiet /\ peer.pendingLock) ~>
        \/ pc["updater"] = "idle" /\ peer.running /\ peer.pubkey = target
        \/ \E x \in Stoppers : pc[x] # "idle"

\* What Update is documented to do, of every peer: when the key of the remote node
\* has changed, the peer is stopped, cleared and started again with the new key.
KeyUpdateRestarts ==
    Quiet ~> (pc["updater"] = "idle" /\ peer.running /\ peer.pubkey = target)
===============================================================================
