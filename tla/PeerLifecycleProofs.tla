------------------------- MODULE PeerLifecycleProofs -------------------------
(***************************************************************************)
(* Theorems about PeerLifecycle, for any number of Stops of the node, keys  *)
(* of the remote node, retries, packets and expiries, and channels of any   *)
(* size.                                                                    *)
(***************************************************************************)
EXTENDS PeerLifecycle, TLAPS

\* The goroutines that stop the peer, and the others, are known by their names.
LEMMA Names ==
    /\ Callers \subseteq Procs /\ Callbacks \subseteq Procs /\ "updater" \in Callers
    /\ "tun" \in Procs /\ "udp" \in Procs /\ "none" \notin Callers
    /\ "tun" \notin Callers /\ "udp" \notin Callers /\ Callers \cap Callbacks = {}
    /\ Stoppers \subseteq Callers /\ "updater" \notin Stoppers
  BY PeerLifecycleAssumption DEF PeerLifecycleAssumption, Callers, Callbacks, Procs

\* The three messages that are not handshake messages, and where they differ from them.
LEMMA Items ==
    /\ Nil \notin Message /\ Packet \notin Message /\ Nil # Packet
    /\ \A m \in Message : m.ctr \in {0, 1} /\ m.n \in Nat /\ m.key \in Keys
    /\ Nil.ctr = 9
  BY DEF Nil, Packet, Message

\* The initial state has its types.
LEMMA InitType == Init => TypeOK
<1> SUFFICES ASSUME Init PROVE TypeOK
  OBVIOUS
<1> USE PeerLifecycleAssumption DEF Init
<1>1. 1 \in Keys /\ 1 \in 0..MaxKeys /\ 0 \in 0..MaxKeys
  BY DEF PeerLifecycleAssumption, Keys
<1>2. peer \in Peer
  BY <1>1 DEF Peer
<1>3. mu \in [writer : Callers \cup {"none"}, readers : SUBSET Callbacks]
  OBVIOUS
<1>4. /\ queue \in [Kinds -> Seq(Message \cup {Packet, Nil})]
      /\ \A k \in Kinds : Len(queue[k]) <= IF k = "Handshake" THEN HandshakeChannelSize
                                                             ELSE ChannelSize
      /\ \A i \in DOMAIN queue["Handshake"] : queue["Handshake"][i] # Packet
  <2>1. HandshakeChannelSize \in Nat /\ ChannelSize \in Nat
    BY DEF PeerLifecycleAssumption
  <2>2. <<>> \in Seq(Message \cup {Packet, Nil}) /\ Len(<<>>) = 0 /\ DOMAIN <<>> = {}
    OBVIOUS
  <2>3. queue = [k \in Kinds |-> <<>>] /\ "Handshake" \in Kinds
    BY DEF Kinds
  <2> QED
    BY <2>1, <2>2, <2>3
<1>5. /\ pc \in [Procs -> Labels] /\ was \in [Procs -> BOOLEAN]
      /\ routine \in [Keys -> [Kinds -> {"none", "recv", "lock", "mu", "finish", "exited"}]]
  BY DEF Labels
<1>6. held \in [Keys -> [msg : Message \cup {Nil}, case : 0..2]]
  BY DEF NoHold
<1>7. /\ attempt \in [n : Nat, key : Keys] /\ answered \in Nat
      /\ reading \in Message \cup {Nil}
      /\ updates \in Seq(Keys)
      /\ target \in Keys /\ remoteKey \in Keys /\ crash \in CrashReasons
  BY <1>1 DEF CrashReasons
<1> QED
  BY <1>2, <1>3, <1>4, <1>5, <1>6, <1>7 DEF TypeOK

-----------------------------------------------------------------------------
(* Types.                                                                   *)

QueuesOK ==
    /\ queue \in [Kinds -> Seq(Message \cup {Packet, Nil})]
    /\ \A k \in Kinds : Len(queue[k]) <= IF k = "Handshake" THEN HandshakeChannelSize
                                                           ELSE ChannelSize
    /\ \A i \in DOMAIN queue["Handshake"] : queue["Handshake"][i] # Packet

FieldsOK ==
    /\ peer \in Peer
    /\ mu \in [writer : Callers \cup {"none"}, readers : SUBSET Callbacks]
    /\ pc \in [Procs -> Labels] /\ was \in [Procs -> BOOLEAN]
    /\ routine \in [Keys -> [Kinds -> {"none", "recv", "lock", "mu", "finish", "exited"}]]
    /\ held \in [Keys -> [msg : Message \cup {Nil}, case : 0..2]]
    /\ target \in Keys /\ crash \in CrashReasons

WorldOK ==
    /\ attempt \in [n : Nat, key : Keys] /\ answered \in Nat
    /\ reading \in Message \cup {Nil}
    /\ updates \in Seq(Keys)
    /\ remoteKey \in Keys

\* TypeOK, in parts, before and after a step.
LEMMA TypeParts == /\ TypeOK <=> QueuesOK /\ FieldsOK /\ WorldOK
                   /\ TypeOK' <=> QueuesOK' /\ FieldsOK' /\ WorldOK'
  BY DEF TypeOK, QueuesOK, FieldsOK, WorldOK

\* A message of the right kind is put into a channel with room.
LEMMA PushType ==
    ASSUME QueuesOK, NEW k \in Kinds, NEW m \in Message \cup {Packet, Nil},
           k = "Handshake" => m # Packet, Room(k), Push(k, m)
    PROVE  QueuesOK'
<1> DEFINE q == queue[k]
<1>1. q \in Seq(Message \cup {Packet, Nil}) /\ queue' = [queue EXCEPT ![k] = Append(q, m)]
  BY DEF QueuesOK, Push
<1>2. /\ Append(q, m) \in Seq(Message \cup {Packet, Nil}) /\ Len(Append(q, m)) = Len(q) + 1
      /\ DOMAIN Append(q, m) = 1..(Len(q) + 1) /\ Len(q) \in Nat /\ DOMAIN q = 1..Len(q)
      /\ Append(q, m)[Len(q) + 1] = m /\ \A i \in 1..Len(q) : Append(q, m)[i] = q[i]
  BY <1>1
<1>3. Len(q) + 1 <= IF k = "Handshake" THEN HandshakeChannelSize ELSE ChannelSize
  BY <1>2, PeerLifecycleAssumption DEF Room, PeerLifecycleAssumption
<1>4. queue'[k] = Append(q, m) /\ \A j \in Kinds : j # k => queue'[j] = queue[j]
  BY <1>1 DEF QueuesOK
<1>5. ASSUME k = "Handshake" PROVE \A i \in DOMAIN queue'["Handshake"] : queue'["Handshake"][i] # Packet
  <2>1. \A i \in 1..Len(q) : q[i] # Packet
    BY <1>2, <1>5 DEF QueuesOK
  <2> QED
    BY <1>2, <1>4, <1>5, <2>1
<1>6. "Handshake" \in Kinds
  BY DEF Kinds
<1> HIDE DEF q
<1>7. queue' \in [Kinds -> Seq(Message \cup {Packet, Nil})]
  BY <1>1, <1>2 DEF QueuesOK
<1>8. \A j \in Kinds : Len(queue'[j]) <= IF j = "Handshake" THEN HandshakeChannelSize ELSE ChannelSize
  BY <1>2, <1>3, <1>4 DEF QueuesOK
<1> QED
  BY <1>4, <1>5, <1>6, <1>7, <1>8 DEF QueuesOK

\* The head of a channel is taken.
LEMMA TailType ==
    ASSUME QueuesOK, NEW k \in Kinds, queue[k] # <<>>, queue' = [queue EXCEPT ![k] = Tail(@)]
    PROVE  /\ QueuesOK'
           /\ Head(queue[k]) \in Message \cup {Packet, Nil}
           /\ k = "Handshake" => Head(queue[k]) # Packet
<1> DEFINE q == queue[k]
<1>1. q \in Seq(Message \cup {Packet, Nil}) /\ queue' = [queue EXCEPT ![k] = Tail(q)]
  BY DEF QueuesOK
<1>2. /\ Tail(q) \in Seq(Message \cup {Packet, Nil}) /\ Len(Tail(q)) = Len(q) - 1
      /\ Len(q) \in Nat \ {0} /\ DOMAIN q = 1..Len(q) /\ DOMAIN Tail(q) = 1..(Len(q) - 1)
      /\ Head(q) = q[1] /\ \A i \in 1..(Len(q) - 1) : Tail(q)[i] = q[i + 1]
      /\ Head(q) \in Message \cup {Packet, Nil}
  BY <1>1
<1>3. Len(q) - 1 <= IF k = "Handshake" THEN HandshakeChannelSize ELSE ChannelSize
  BY <1>2, PeerLifecycleAssumption DEF QueuesOK, PeerLifecycleAssumption
<1>4. queue'[k] = Tail(q) /\ \A j \in Kinds : j # k => queue'[j] = queue[j]
  BY <1>1 DEF QueuesOK
<1>5. ASSUME k = "Handshake"
      PROVE  Head(q) # Packet /\ \A i \in DOMAIN queue'["Handshake"] : queue'["Handshake"][i] # Packet
  <2>1. \A i \in 1..Len(q) : q[i] # Packet
    BY <1>2, <1>5 DEF QueuesOK
  <2>2. 1 \in 1..Len(q) /\ \A i \in 1..(Len(q) - 1) : i + 1 \in 1..Len(q)
    BY <1>2
  <2> HIDE DEF q
  <2> QED
    BY <1>2, <1>4, <1>5, <2>1, <2>2
<1>6. "Handshake" \in Kinds
  BY DEF Kinds
<1>7. Head(queue[k]) \in Message \cup {Packet, Nil} /\ (k = "Handshake" => Head(queue[k]) # Packet)
  BY <1>2, <1>5
<1> HIDE DEF q
<1>8. queue' \in [Kinds -> Seq(Message \cup {Packet, Nil})]
  BY <1>1, <1>2 DEF QueuesOK
<1>9. \A j \in Kinds : Len(queue'[j]) <= IF j = "Handshake" THEN HandshakeChannelSize ELSE ChannelSize
  BY <1>2, <1>3, <1>4 DEF QueuesOK
<1> QED
  BY <1>4, <1>5, <1>6, <1>7, <1>8, <1>9 DEF QueuesOK

\* ResetState keeps the types.
LEMMA ResetType ==
    ASSUME TypeOK, NEW x \in Procs, ResetStep(x)
    PROVE  TypeOK'
<1> USE PeerLifecycleAssumption, Names
<1>0. QueuesOK /\ FieldsOK /\ WorldOK
  BY TypeParts
<1>1. ASSUME UNCHANGED queue PROVE QueuesOK'
  BY <1>0, <1>1 DEF QueuesOK
<1>2. ASSUME UNCHANGED world PROVE WorldOK'
  BY <1>0, <1>2 DEF WorldOK, world
<1>3. CASE ResetState(x)
  <2>1. peer.running \in BOOLEAN /\ [peer EXCEPT !.running = FALSE] \in Peer
    BY <1>0 DEF FieldsOK, Peer
  <2> QED
    BY <1>0, <1>1, <1>2, <1>3, <2>1, TypeParts DEF ResetState, Goto, FieldsOK, Labels
<1>4. CASE ResetLocked(x)
  <2>1. QueuesOK'
    <3>1. CASE UNCHANGED queue
      BY <1>1, <3>1
    <3>2. CASE queue' = [k \in Kinds |-> <<>>]
      <4>1. HandshakeChannelSize \in Nat /\ ChannelSize \in Nat
        BY DEF PeerLifecycleAssumption
      <4>2. <<>> \in Seq(Message \cup {Packet, Nil}) /\ Len(<<>>) = 0 /\ DOMAIN <<>> = {}
        OBVIOUS
      <4>3. "Handshake" \in Kinds
        BY DEF Kinds
      <4> QED
        BY <3>2, <4>1, <4>2, <4>3 DEF QueuesOK
    <3> QED
      BY <1>4, <3>1, <3>2 DEF ResetLocked
  <2>2. Cleared(peer) \in Peer
    <3>1. 0 \in 0..MaxKeys
      BY DEF PeerLifecycleAssumption
    <3> QED
      BY <1>0, <3>1 DEF FieldsOK, Peer, Cleared
  <2>3. AfterReset(x) \in Labels /\ "restore" \in Labels
    BY DEF AfterReset, Labels
  <2>4. FieldsOK'
    <3>1. UNCHANGED <<mu, was, target, routine, held>>
      BY <1>4 DEF ResetLocked
    <3>2. CASE Crash("nil flushed") /\ UNCHANGED <<peer, queue, pc>>
      BY <1>0, <3>1, <3>2 DEF Crash, FieldsOK, CrashReasons
    <3>3. CASE /\ peer' = Cleared(peer) /\ UNCHANGED crash
               /\ Goto(x, IF was[x] THEN "restore" ELSE AfterReset(x))
      BY <1>0, <2>2, <2>3, <3>1, <3>3 DEF Goto, FieldsOK
    <3> QED
      BY <1>4, <3>2, <3>3 DEF ResetLocked
  <2> QED
    BY <1>2, <1>4, <2>1, <2>4, TypeParts DEF ResetLocked
<1>5. CASE ResetRestore(x)
  <2>1. AfterReset(x) \in Labels /\ [peer EXCEPT !.running = TRUE] \in Peer
    BY <1>0 DEF AfterReset, Labels, FieldsOK, Peer
  <2> QED
    BY <1>0, <1>1, <1>2, <1>5, <2>1, TypeParts DEF ResetRestore, Goto, FieldsOK
<1> QED
  BY <1>3, <1>4, <1>5 DEF ResetStep

\* ResetState, Stop, Start and Update keep the types.
LEMMA CallerType ==
    ASSUME TypeOK, NEW x \in Callers, Caller(x) \/ Stop(x)
    PROVE  TypeOK'
<1> USE PeerLifecycleAssumption, Names
<1>0. QueuesOK /\ FieldsOK /\ WorldOK
  BY TypeParts
<1>1. ASSUME UNCHANGED queue PROVE QueuesOK'
  BY <1>0, <1>1 DEF QueuesOK
<1>2. ASSUME UNCHANGED world PROVE WorldOK'
  BY <1>0, <1>2 DEF WorldOK, world
<1>3. CASE Stop(x)
  BY <1>0, <1>1, <1>2, <1>3, TypeParts DEF Stop, StopBegin, Goto, FieldsOK, Peer, Labels
<1>4. CASE StopLock(x)
  BY <1>0, <1>1, <1>2, <1>4, TypeParts DEF StopLock, Goto, FieldsOK, Labels
<1>5. ASSUME NEW k \in Kinds, StopSend(x, k) PROVE TypeOK'
  <2>1. QueuesOK'
    BY <1>0, <1>5, PushType, Items DEF StopSend
  <2>2. FieldsOK'
    BY <1>0, <1>5 DEF StopSend, Goto, FieldsOK, Labels
  <2> QED
    BY <1>2, <1>5, <2>1, <2>2, TypeParts DEF StopSend
<1>6. CASE StopWait(x)
  <2>1. UNCHANGED <<queue, was, target, routine, held, world>>
    BY <1>6 DEF StopWait
  <2>2. CASE peer.pendingLock
    <3>1. /\ [peer EXCEPT !.pendingLock = FALSE] \in Peer
          /\ [mu EXCEPT !.writer = "none"] \in [writer : Callers \cup {"none"}, readers : SUBSET Callbacks]
      BY <1>0 DEF FieldsOK, Peer
    <3>2. [pc EXCEPT ![x] = IF x = "updater" THEN "key" ELSE "done"] \in [Procs -> Labels]
      BY <1>0 DEF FieldsOK, Labels
    <3> QED
      BY <1>0, <1>1, <1>2, <1>6, <2>1, <2>2, <3>1, <3>2, TypeParts DEF StopWait, Goto, FieldsOK
  <2>3. CASE ~peer.pendingLock
    BY <1>0, <1>1, <1>2, <1>6, <2>1, <2>3, TypeParts DEF StopWait, Crash, FieldsOK, CrashReasons
  <2> QED
    BY <2>2, <2>3
<1>7. CASE ResetStep(x)
  BY <1>7, ResetType DEF Callers
<1>8. CASE Update
  <2>1. /\ Head(updates) \in Keys /\ Tail(updates) \in Seq(Keys)
    BY <1>0, <1>8 DEF Update, WorldOK
  <2>2. WorldOK'
    BY <1>0, <1>8, <2>1 DEF Update, WorldOK
  <2>3. FieldsOK'
    <3>1. UNCHANGED <<mu, was, routine, held, crash>> /\ target' \in Keys
      BY <1>8, <2>1 DEF Update
    <3>2. [peer EXCEPT !.running = FALSE] \in Peer /\ [pc EXCEPT !["updater"] = "cas"] \in [Procs -> Labels]
      BY <1>0 DEF FieldsOK, Peer, Labels
    <3>3. peer' \in Peer /\ pc' \in [Procs -> Labels]
      BY <1>0, <1>8, <3>2 DEF Update, StopBegin, Goto, FieldsOK
    <3> QED
      BY <1>0, <3>1, <3>3 DEF FieldsOK
  <2> QED
    BY <1>1, <1>8, <2>2, <2>3, TypeParts DEF Update
<1>9. CASE UpdateKey
  BY <1>0, <1>1, <1>2, <1>9, TypeParts DEF UpdateKey, Goto, FieldsOK, Peer, Labels
<1>10. CASE Start
  <2>1. UNCHANGED <<peer, queue, was, target, routine, held, world>>
    BY <1>10 DEF Start
  <2>2. CASE peer.running
    BY <1>0, <1>1, <1>2, <1>10, <2>1, <2>2, TypeParts DEF Start, Crash, FieldsOK, CrashReasons
  <2>3. CASE ~peer.running
    BY <1>0, <1>1, <1>2, <1>10, <2>1, <2>3, TypeParts, ZenonT(60) DEF Start, Goto, FieldsOK, Labels
  <2> QED
    BY <2>2, <2>3
<1>11. CASE StartRoutines
  BY <1>0, <1>1, <1>2, <1>11, TypeParts DEF StartRoutines, Goto, FieldsOK, Peer, Labels
<1> QED
  BY <1>3, <1>4, <1>5, <1>6, <1>7, <1>8, <1>9, <1>10, <1>11 DEF Caller, StopStep, Updater

\* TrySendHandshake keeps the types.
LEMMA SendType ==
    ASSUME TypeOK, NEW x \in Callbacks \cup {"tun"}, SendStep(x), pc["tun"] # "punch"
    PROVE  TypeOK'
<1> USE PeerLifecycleAssumption, Names
<1>0. QueuesOK /\ FieldsOK /\ WorldOK
  BY TypeParts
<1>1. ASSUME UNCHANGED queue PROVE QueuesOK'
  BY <1>0, <1>1 DEF QueuesOK
<1>2. ASSUME UNCHANGED world PROVE WorldOK'
  BY <1>0, <1>2 DEF WorldOK, world
<1>3. CASE RequestPunch(x)
  <2>1. x \in Callbacks
    BY <1>3 DEF RequestPunch, At
  <2> QED
    BY <1>0, <1>1, <1>2, <1>3, <2>1, TypeParts DEF RequestPunch, Goto, FieldsOK, Labels
<1>4. CASE PunchReturns(x)
  BY <1>0, <1>1, <1>2, <1>4, TypeParts DEF PunchReturns, Goto, FieldsOK, Labels
<1>5. CASE SendHandshake(x)
  <2>1. attempt.n + 1 \in Nat /\ peer.pubkey \in Keys
    BY <1>0 DEF WorldOK, FieldsOK, Peer
  <2>2. FieldsOK'
    BY <1>0, <1>5, <2>1 DEF SendHandshake, Goto, FieldsOK, Peer, Labels, Timers
  <2>3. WorldOK'
    BY <1>0, <1>5, <2>1 DEF SendHandshake, WorldOK
  <2> QED
    BY <1>1, <1>5, <2>2, <2>3, TypeParts DEF SendHandshake
<1> QED
  BY <1>3, <1>4, <1>5 DEF SendStep

\* The two readers and the remote node keep the types.
LEMMA ReaderType ==
    ASSUME TypeOK,
           \/ OutboundPacket \/ OutboundQueue \/ InboundPacket \/ HandshakeQueue \/ InboundQueue
           \/ RemoteRestart \/ \E m \in Arriving : OnHandshake(m)
    PROVE  TypeOK'
<1> USE PeerLifecycleAssumption, Names
<1>0. QueuesOK /\ FieldsOK /\ WorldOK
  BY TypeParts
<1>1. ASSUME UNCHANGED queue PROVE QueuesOK'
  BY <1>0, <1>1 DEF QueuesOK
<1>2. ASSUME UNCHANGED world PROVE WorldOK'
  BY <1>0, <1>2 DEF WorldOK, world
<1>k. "Handshake" \in Kinds /\ "Inbound" \in Kinds /\ "Outbound" \in Kinds
  BY DEF Kinds
<1>3. CASE OutboundPacket
  BY <1>0, <1>1, <1>3, TypeParts, ZenonT(60) DEF OutboundPacket, Goto, FieldsOK, WorldOK, Labels
<1>4. CASE OutboundQueue
  <2>1. QueuesOK'
    BY <1>0, <1>1, <1>4, <1>k, PushType DEF OutboundQueue
  <2>2. [peer EXCEPT !.retries = @ + 1] \in Peer
    <3>1. peer.retries + 1 \in Nat
      BY <1>0 DEF FieldsOK, Peer
    <3> QED
      BY <1>0, <3>1 DEF FieldsOK, Peer
  <2>3. FieldsOK'
    BY <1>0, <1>4, <2>2 DEF OutboundQueue, Goto, FieldsOK, Labels
  <2> QED
    BY <1>2, <1>4, <2>1, <2>3, TypeParts DEF OutboundQueue
<1>5. CASE InboundPacket
  BY <1>0, <1>1, <1>5, TypeParts, ZenonT(60) DEF InboundPacket, Goto, FieldsOK, WorldOK, Labels
<1>6. CASE InboundQueue
  <2>1. QueuesOK'
    BY <1>0, <1>1, <1>6, <1>k, PushType DEF InboundQueue
  <2>2. FieldsOK'
    BY <1>0, <1>6 DEF InboundQueue, Goto, FieldsOK, Labels
  <2> QED
    BY <1>2, <1>6, <2>1, <2>2, TypeParts DEF InboundQueue
<1>7. CASE HandshakeQueue
  <2>1. reading \in Message \cup {Packet, Nil} /\ reading # Packet
    BY <1>0, Items DEF WorldOK
  <2>2. QueuesOK'
    BY <1>0, <1>7, <1>k, <2>1, PushType DEF HandshakeQueue
  <2>3. FieldsOK' /\ WorldOK'
    BY <1>0, <1>7 DEF HandshakeQueue, Goto, FieldsOK, WorldOK, Labels
  <2> QED
    BY <2>2, <2>3, TypeParts
<1>8. CASE RemoteRestart
  <2>1. remoteKey + 1 \in Keys
    BY <1>0, <1>8 DEF RemoteRestart, WorldOK, Keys, PeerLifecycleAssumption
  <2>2. Append(updates, remoteKey + 1) \in Seq(Keys)
    BY <1>0, <2>1 DEF WorldOK
  <2>3. WorldOK' /\ FieldsOK'
    BY <1>0, <1>8, <2>1, <2>2 DEF RemoteRestart, WorldOK, FieldsOK
  <2> QED
    BY <1>1, <1>8, <2>3, TypeParts DEF RemoteRestart
<1>9. ASSUME NEW m \in Arriving, OnHandshake(m) PROVE TypeOK'
  <2>1. m \in Message
    BY <1>0 DEF Arriving, Message, WorldOK
  <2>2. m.n \in Nat
    BY <2>1, Items
  <2>3. WorldOK'
    BY <1>0, <1>9, <2>1, <2>2 DEF OnHandshake, WorldOK
  <2>4. FieldsOK'
    BY <1>0, <1>9 DEF OnHandshake, Goto, FieldsOK, Labels
  <2> QED
    BY <1>1, <1>9, <2>3, <2>4, TypeParts DEF OnHandshake
<1> QED
  BY <1>3, <1>4, <1>5, <1>6, <1>7, <1>8, <1>9

\* The three routines keep the types.
LEMMA RoutineType ==
    ASSUME TypeOK, NEW g \in Keys, NEW k \in Kinds, Routine(g, k)
    PROVE  TypeOK'
<1> USE PeerLifecycleAssumption, Names
<1>0. QueuesOK /\ FieldsOK /\ WorldOK
  BY TypeParts
<1>1. ASSUME UNCHANGED queue PROVE QueuesOK'
  BY <1>0, <1>1 DEF QueuesOK
<1>2. ASSUME UNCHANGED world PROVE WorldOK'
  BY <1>0, <1>2 DEF WorldOK, world
<1> DEFINE Places == {"none", "recv", "lock", "mu", "finish", "exited"}
<1>k. "Handshake" \in Kinds /\ "Inbound" \in Kinds /\ "Outbound" \in Kinds
  BY DEF Kinds
<1>m. ASSUME NEW j \in Kinds, NEW l \in Places, Move(g, j, l)
      PROVE  routine' \in [Keys -> [Kinds -> Places]]
  BY <1>0, <1>m DEF Move, FieldsOK
<1>3. CASE Receive(g, k)
  <2>1. /\ QueuesOK' /\ Head(queue[k]) \in Message \cup {Packet, Nil}
        /\ k = "Handshake" => Head(queue[k]) # Packet
    BY <1>0, <1>3, TailType DEF Receive
  <2>2. /\ routine' = routine \/ routine' \in [Keys -> [Kinds -> Places]]
        /\ crash' = crash \/ crash' = "counter mismatch"
    BY <1>3, <1>m DEF Receive, Crash
  <2>3. held' \in [Keys -> [msg : Message \cup {Nil}, case : 0..2]]
    <3>1. peer.state \in 0..2
      BY <1>0 DEF FieldsOK, Peer
    <3>2. \/ UNCHANGED held
          \/ /\ k = "Handshake" /\ Head(queue[k]) # Nil
             /\ held' = [held EXCEPT ![g] = [msg |-> Head(queue[k]), case |-> peer.state]]
      BY <1>3 DEF Receive
    <3>3. k = "Handshake" => [msg |-> Head(queue[k]), case |-> peer.state]
                                \in [msg : Message \cup {Nil}, case : 0..2]
      BY <2>1, <3>1
    <3> QED
      BY <1>0, <3>2, <3>3 DEF FieldsOK
  <2>4. UNCHANGED <<peer, mu, pc, was, target, world>>
    BY <1>3 DEF Receive
  <2>5. FieldsOK'
    BY <1>0, <2>2, <2>3, <2>4 DEF FieldsOK, CrashReasons
  <2> QED
    BY <1>2, <2>1, <2>4, <2>5, TypeParts
<1>4. CASE UseAddress(g, k)
  BY <1>0, <1>1, <1>2, <1>4, <1>m, TypeParts DEF UseAddress, FieldsOK
<1>5. ASSUME peer' \in Peer, held' \in [Keys -> [msg : Message \cup {Nil}, case : 0..2]],
             routine' \in [Keys -> [Kinds -> Places]], crash' \in CrashReasons,
             UNCHANGED <<mu, queue, pc, was, target, world>>
      PROVE  TypeOK'
  BY <1>0, <1>1, <1>2, <1>5, TypeParts DEF FieldsOK
<1>6. CASE Inbound(g)
  <2>1. peer' \in Peer
    <3>1. [peer EXCEPT !.armed = @ \cup {"receivedPacket"}] \in Peer
      BY <1>0 DEF FieldsOK, Peer, Timers
    <3> QED
      BY <1>0, <1>6, <3>1 DEF Inbound, FieldsOK
  <2>2. routine' \in [Keys -> [Kinds -> Places]] /\ crash' \in CrashReasons
    BY <1>0, <1>6, <1>k, <1>m DEF Inbound, Crash, FieldsOK, CrashReasons
  <2> QED
    BY <1>0, <1>5, <1>6, <2>1, <2>2 DEF Inbound, FieldsOK
<1>7. CASE Outbound(g)
  <2>1. peer' \in Peer
    <3>1. [peer EXCEPT !.armed = @ \cup {"keepalive"}] \in Peer
      BY <1>0 DEF FieldsOK, Peer, Timers
    <3> QED
      BY <1>0, <1>7, <3>1 DEF Outbound, FieldsOK
  <2>2. routine' \in [Keys -> [Kinds -> Places]] /\ crash' \in CrashReasons
    BY <1>0, <1>7, <1>k, <1>m DEF Outbound, Crash, FieldsOK, CrashReasons
  <2> QED
    BY <1>0, <1>5, <1>7, <2>1, <2>2 DEF Outbound, FieldsOK
<1>8. CASE HandshakeLock(g)
  <2>1. peer' \in Peer
    BY <1>0, <1>8 DEF HandshakeLock, FieldsOK, Peer
  <2>2. routine' \in [Keys -> [Kinds -> Places]]
    BY <1>8, <1>k, <1>m DEF HandshakeLock
  <2> QED
    BY <1>0, <1>5, <1>8, <2>1, <2>2 DEF HandshakeLock, FieldsOK
<1>9. CASE HandshakeP2(g)
  <2> DEFINE m == held[g].msg
  <2>1. ASSUME m.ctr \in {0, 1} PROVE [peer EXCEPT !.session = m.key, !.hs = 0] \in Peer
    <3>1. m \in Message \cup {Nil}
      BY <1>0 DEF FieldsOK
    <3>2. m.key \in Keys
      BY <2>1, <3>1, Items
    <3>3. m.key \in 0..MaxKeys
      BY <3>2 DEF Keys, PeerLifecycleAssumption
    <3> HIDE DEF m
    <3> QED
      BY <1>0, <3>3 DEF FieldsOK, Peer
  <2>2. peer' \in Peer
    BY <1>0, <1>9, <2>1 DEF HandshakeP2, FieldsOK
  <2>3. routine' \in [Keys -> [Kinds -> Places]]
    BY <1>0, <1>9, <1>k, <1>m DEF HandshakeP2, FieldsOK
  <2>4. crash' \in CrashReasons
    BY <1>0, <1>9 DEF HandshakeP2, Crash, FieldsOK, CrashReasons
  <2> QED
    BY <1>0, <1>5, <1>9, <2>2, <2>3, <2>4 DEF HandshakeP2, FieldsOK
<1>10. CASE FinishHandshake(g)
  <2>1. peer' \in Peer
    <3> DEFINE a == (peer.armed \ {"handshakeSent"}) \cup {"keepalive"} \cup
                    (IF held[g].case = 2 THEN {"receivedPacket"} ELSE {})
    <3>1. a \subseteq Timers
      BY <1>0 DEF FieldsOK, Peer, Timers
    <3>2. peer' = peer \/ peer' = [peer EXCEPT !.state = 2, !.inTransport = TRUE, !.pendingLock = FALSE,
                                               !.retries = 0, !.armed = a]
      BY <1>10 DEF FinishHandshake
    <3> HIDE DEF a
    <3>3. [peer EXCEPT !.state = 2, !.inTransport = TRUE, !.pendingLock = FALSE,
                       !.retries = 0, !.armed = a] \in Peer
      BY <1>0, <3>1 DEF FieldsOK, Peer
    <3> QED
      BY <1>0, <3>2, <3>3 DEF FieldsOK
  <2>2. routine' \in [Keys -> [Kinds -> Places]] /\ crash' \in CrashReasons
    BY <1>0, <1>10, <1>k, <1>m DEF FinishHandshake, Crash, FieldsOK, CrashReasons
  <2>3. held' \in [Keys -> [msg : Message \cup {Nil}, case : 0..2]]
    <3>1. NoHold \in [msg : Message \cup {Nil}, case : 0..2]
      BY DEF NoHold
    <3> QED
      BY <1>0, <1>10, <3>1, ZenonT(60) DEF FinishHandshake, FieldsOK
  <2> QED
    BY <1>5, <1>10, <2>1, <2>2, <2>3 DEF FinishHandshake
<1> QED
  BY <1>3, <1>4, <1>6, <1>7, <1>8, <1>9, <1>10 DEF Routine

\* The timers and their callbacks keep the types.
LEMMA TimerType ==
    ASSUME TypeOK, pc["tun"] # "punch",
           (\E t \in Timers : Expire(t)) \/ (\E x \in Callbacks : Timeout(x))
    PROVE  TypeOK'
<1> USE PeerLifecycleAssumption, Names
<1>0. QueuesOK /\ FieldsOK /\ WorldOK
  BY TypeParts
<1>1. ASSUME UNCHANGED queue PROVE QueuesOK'
  BY <1>0, <1>1 DEF QueuesOK
<1>2. ASSUME UNCHANGED world PROVE WorldOK'
  BY <1>0, <1>2 DEF WorldOK, world
<1>n. "HandshakeTimeout" \in Procs /\ "TXTimeout" \in Procs /\ "RXTimeout" \in Procs
  BY DEF Callbacks
<1>p. /\ [peer EXCEPT !.inTransport = FALSE] \in Peer
      /\ \A a \in SUBSET Timers : [peer EXCEPT !.armed = a] \in Peer
      /\ peer.armed \in SUBSET Timers
      /\ [peer EXCEPT !.pendingLock = TRUE, !.state = 0] \in Peer
  BY <1>0 DEF FieldsOK, Peer
<1>q. ASSUME NEW x \in Procs, NEW p \in Peer, RetryHandshake(x, p)
      PROVE  peer' \in Peer /\ pc' \in [Procs -> Labels]
  <2> DEFINE q == [p EXCEPT !.retries = @ + 1]
  <2>1. q \in Peer
    <3>1. p.retries + 1 \in Nat
      BY DEF Peer
    <3> QED
      BY <3>1 DEF Peer
  <2>2. peer' = q \/ peer' = [q EXCEPT !.armed = @ \ {"handshakeSent"}]
    BY <1>q DEF RetryHandshake
  <2>3. pc' = [pc EXCEPT ![x] = "cas"] \/ pc' = [pc EXCEPT ![x] = "punch"]
    BY <1>q DEF RetryHandshake, Goto
  <2> HIDE DEF q
  <2>4. [q EXCEPT !.armed = @ \ {"handshakeSent"}] \in Peer
    BY <2>1 DEF Peer
  <2> QED
    BY <1>0, <2>1, <2>2, <2>3, <2>4, ZenonT(60) DEF FieldsOK, Labels
<1>3. ASSUME NEW t \in Timers, Expire(t) PROVE TypeOK'
  <2>1. peer.armed \ {t} \in SUBSET Timers /\ Callback(t) \in Procs
    BY <1>p, <1>n DEF Timers, Callback
  <2>2. FieldsOK'
    BY <1>0, <1>3, <1>p, <2>1 DEF Expire, Goto, FieldsOK, Labels
  <2>3. WorldOK'
    BY <1>0, <1>3 DEF Expire, WorldOK
  <2> QED
    BY <1>1, <1>3, <2>2, <2>3, TypeParts DEF Expire
<1>4. ASSUME UNCHANGED <<mu, queue, was, target, routine, held, crash, world>>,
             peer' \in Peer, pc' \in [Procs -> Labels]
      PROVE  TypeOK'
  BY <1>0, <1>1, <1>2, <1>4, TypeParts DEF FieldsOK
<1>5. CASE HandshakeTimeout
  <2> DEFINE p == [peer EXCEPT !.inTransport = FALSE]
  <2>1. \/ RetryHandshake("HandshakeTimeout", p)
        \/ /\ peer' = p \/ peer' = peer
           /\ pc' = [pc EXCEPT !["HandshakeTimeout"] = "idle"]
    BY <1>5 DEF HandshakeTimeout, Goto
  <2>2. p \in Peer /\ peer \in Peer
    BY <1>0, <1>p DEF FieldsOK
  <2> HIDE DEF p
  <2>3. peer' \in Peer /\ pc' \in [Procs -> Labels]
    BY <1>0, <1>n, <1>q, <2>1, <2>2 DEF FieldsOK, Labels
  <2> QED
    BY <1>4, <1>5, <2>3 DEF HandshakeTimeout
<1>6. CASE TXTimeout
  <2>1. peer' \in Peer /\ pc' \in [Procs -> Labels]
    BY <1>0, <1>6 DEF TXTimeout, Goto, FieldsOK, Labels
  <2> QED
    BY <1>4, <1>6, <2>1 DEF TXTimeout
<1>7. CASE TXQueue
  <2>1. QueuesOK'
    BY <1>0, <1>7, PushType DEF TXQueue, Kinds
  <2>2. FieldsOK'
    BY <1>0, <1>7 DEF TXQueue, Goto, FieldsOK, Labels
  <2> QED
    BY <1>2, <1>7, <2>1, <2>2, TypeParts DEF TXQueue
<1>8. CASE RXTimeout
  <2>1. peer.armed \ {"keepalive", "receivedPacket"} \in SUBSET Timers
    BY <1>p
  <2>2. /\ \/ peer' = [peer EXCEPT !.armed = peer.armed \ {"keepalive", "receivedPacket"}]
           \/ peer' = peer
        /\ pc' = [pc EXCEPT !["RXTimeout"] = "pending"] \/ pc' = [pc EXCEPT !["RXTimeout"] = "idle"]
    BY <1>8 DEF RXTimeout, Goto
  <2>3. peer' \in Peer
    <3>1. [peer EXCEPT !.armed = peer.armed \ {"keepalive", "receivedPacket"}] \in Peer
      BY <1>p, <2>1
    <3> QED
      BY <1>0, <2>2, <3>1 DEF FieldsOK
  <2>4. pc' \in [Procs -> Labels]
    BY <1>0, <2>2 DEF FieldsOK, Labels
  <2> QED
    BY <1>4, <1>8, <2>3, <2>4 DEF RXTimeout
<1>9. CASE RXTimeoutLock
  <2>1. peer' \in Peer /\ pc' \in [Procs -> Labels]
    BY <1>0, <1>9, <1>p DEF RXTimeoutLock, Goto, FieldsOK, Labels
  <2> QED
    BY <1>4, <1>9, <2>1 DEF RXTimeoutLock
<1>10. CASE RXTimeoutLocked
  <2>1. peer.armed \ {"receivedPacket", "handshakeSent"} \in SUBSET Timers
    BY <1>p
  <2>2. \/ RetryHandshake("RXTimeout", peer)
        \/ /\ peer' = [peer EXCEPT !.armed = peer.armed \ {"receivedPacket", "handshakeSent"}]
           /\ pc' = [pc EXCEPT !["RXTimeout"] = "cas"]
    BY <1>10 DEF RXTimeoutLocked, Goto
  <2>3. CASE RetryHandshake("RXTimeout", peer)
    BY <1>0, <1>4, <1>10, <1>n, <1>q, <2>3 DEF FieldsOK, RXTimeoutLocked
  <2>4. CASE /\ peer' = [peer EXCEPT !.armed = peer.armed \ {"receivedPacket", "handshakeSent"}]
             /\ pc' = [pc EXCEPT !["RXTimeout"] = "cas"]
    <3>1. peer' \in Peer
      BY <1>p, <2>1, <2>4
    <3>2. pc' \in [Procs -> Labels]
      BY <1>0, <2>4 DEF FieldsOK, Labels
    <3> QED
      BY <1>4, <1>10, <3>1, <3>2 DEF RXTimeoutLocked
  <2> QED
    BY <2>2, <2>3, <2>4
<1>11. ASSUME NEW x \in Callbacks, ResetStep(x) \/ SendStep(x) PROVE TypeOK'
  BY <1>11, ResetType, SendType
<1> QED
  BY <1>3, <1>5, <1>6, <1>7, <1>8, <1>9, <1>10, <1>11 DEF Timeout

\* The tun reader asks for no punch: it sends its first handshake at once.
TunPlaces == pc["tun"] \in {"idle", "push", "send"}

\* A step of the others leaves the tun reader where it is.
LEMMA TunStep ==
    ASSUME TypeOK, TunPlaces, [Next]_vars
    PROVE  TunPlaces'
<1> USE Names
<1>0. pc \in [Procs -> Labels]
  BY DEF TypeOK
<1>1. ASSUME NEW x \in Procs, x # "tun", NEW l, Goto(x, l) \/ UNCHANGED pc PROVE pc'["tun"] = pc["tun"]
  BY <1>0, <1>1 DEF Goto
<1>2. ASSUME NEW x \in Callers, Caller(x) \/ Stop(x) PROVE pc'["tun"] = pc["tun"]
  BY <1>0, <1>2 DEF Caller, StopStep, ResetStep, Updater, Stop, StopBegin, StopLock, StopSend, StopWait,
     ResetState, ResetLocked, ResetRestore, Update, UpdateKey, Start, StartRoutines, Goto
<1>3. ASSUME NEW x \in Callbacks, ResetStep(x) \/ SendStep(x) PROVE pc'["tun"] = pc["tun"]
  BY <1>0, <1>3 DEF ResetStep, SendStep, ResetState, ResetLocked, ResetRestore, RequestPunch,
     PunchReturns, SendHandshake, Goto, Callbacks
<1>4. ASSUME HandshakeTimeout \/ TXTimeout \/ TXQueue \/ RXTimeout \/ RXTimeoutLock \/ RXTimeoutLocked
      PROVE  pc'["tun"] = pc["tun"]
  BY <1>0, <1>4 DEF HandshakeTimeout, TXTimeout, TXQueue, RXTimeout, RXTimeoutLock, RXTimeoutLocked,
     RetryHandshake, Goto
<1>5. ASSUME NEW t \in Timers, Expire(t) PROVE pc'["tun"] = pc["tun"]
  <2>1. Callback(t) # "tun"
    BY DEF Callback, Timers
  <2> QED
    BY <1>0, <1>5, <2>1 DEF Expire, Goto
<1>6. ASSUME NEW g \in Keys, NEW k \in Kinds, Routine(g, k) PROVE pc'["tun"] = pc["tun"]
  BY <1>6 DEF Routine, Receive, UseAddress, Inbound, Outbound, HandshakeLock, HandshakeP2, FinishHandshake
<1>7. ASSUME HandshakeQueue \/ InboundQueue \/ InboundPacket \/ RemoteRestart
             \/ \E m \in Arriving : OnHandshake(m)
      PROVE  pc'["tun"] = pc["tun"]
  BY <1>0, <1>7 DEF HandshakeQueue, InboundQueue, InboundPacket, RemoteRestart, OnHandshake, Goto
<1>8. CASE OutboundPacket \/ OutboundQueue \/ SendStep("tun")
  BY <1>0, <1>8 DEF OutboundPacket, OutboundQueue, SendStep, RequestPunch, PunchReturns, SendHandshake,
     At, Goto, TunPlaces
<1>9. CASE UNCHANGED vars
  BY <1>9 DEF vars, TunPlaces
<1>10. CASE pc'["tun"] = pc["tun"]
  BY <1>10 DEF TunPlaces
<1>11. CASE Environment
  BY <1>2, <1>5, <1>7, <1>8, <1>10, <1>11 DEF Environment
<1>12. CASE Goroutines
  BY <1>2, <1>3, <1>4, <1>6, <1>7, <1>8, <1>10, <1>12
  DEF Goroutines, Timeout, TunReader, UDPReader
<1> QED
  BY <1>9, <1>11, <1>12 DEF Next

TypeInv == TypeOK /\ TunPlaces

\* Every step keeps the types.
LEMMA StepType == TypeInv /\ [Next]_vars => TypeInv'
<1> SUFFICES ASSUME TypeInv, [Next]_vars PROVE TypeInv'
  OBVIOUS
<1> USE Names
<1>1. TunPlaces'
  BY TunStep DEF TypeInv
<1>2. TypeOK /\ pc["tun"] # "punch"
  BY DEF TypeInv, TunPlaces
<1>3. ASSUME Environment PROVE TypeOK'
  BY <1>2, <1>3, CallerType, ReaderType, TimerType DEF Environment
<1>4. ASSUME Goroutines PROVE TypeOK'
  BY <1>2, <1>4, CallerType, ReaderType, TimerType, RoutineType, SendType
  DEF Goroutines, TunReader, UDPReader
<1>5. ASSUME UNCHANGED vars PROVE TypeOK'
  BY <1>2, <1>5 DEF TypeOK, vars
<1> QED
  BY <1>1, <1>3, <1>4, <1>5 DEF Next, TypeInv

\* Every field of the peer, every place of a goroutine and every channel keeps its type,
\* and no channel ever holds more than it was made for.
THEOREM PeerTypeCorrect == Spec => []TypeOK
<1>1. Init => TypeInv
  BY InitType, Names DEF Init, TypeInv, TunPlaces
<1>2. TypeInv => TypeOK
  BY DEF TypeInv
<1> QED
  BY <1>1, <1>2, StepType, PTL DEF Spec

-----------------------------------------------------------------------------
(***************************************************************************)
(* Nils and routines.  The updater counts the starts with the keys it was   *)
(* told; whoever is in a place where nils are sent or awaited holds mu; and *)
(* a nil that was sent is in its channel until the routine it ends has      *)
(* ended.                                                                   *)
(***************************************************************************)

Nils      == {"nil Handshake", "nil Inbound", "nil Outbound", "wait"}
Between   == {"key", "start", "starting"}
Resetting == {"cas", "reset", "restore", "lock"}

\* The generation of routines that runs, or ran last.
Gen == IF pc["updater"] = "idle" THEN target ELSE target - 1

\* Where a Stop is when it has sent the nil for routine k.
After(k) == CASE k = "Handshake" -> {"nil Inbound", "nil Outbound", "wait"}
              [] k = "Inbound"   -> {"nil Outbound", "wait"}
              [] k = "Outbound"  -> {"wait"}

Sent(k) == \E x \in Callers : pc[x] \in After(k)

\* A Stop of the node has ended.
NodeStopped == \E x \in Stoppers : pc[x] = "done"

NoNil(q)  == \A i \in DOMAIN q : q[i] # Nil
OneNil(q) == \E i \in DOMAIN q : q[i] = Nil /\ \A j \in DOMAIN q : j # i => q[j] # Nil

Locking == \A x \in Callers : pc[x] \in Nils \cup {"starting"} => mu.writer = x

KeysInTurn ==
    /\ Len(updates) = remoteKey - target
    /\ \A i \in 1..Len(updates) : updates[i] = target + i
    /\ peer.pubkey = IF pc["updater"] \in {"idle", "start", "starting"} THEN target ELSE target - 1
    /\ Gen \in Keys

Generations ==
    \A g \in Keys, k \in Kinds :
        /\ g > Gen <=> routine[g][k] = "none"
        /\ g < Gen => routine[g][k] = "exited"
        /\ g = Gen /\ pc["updater"] \in Between => routine[g][k] = "exited"

Carrying == pc["udp"] = "handshake" => reading # Nil

NilsMatch ==
    Alive /\ ~NodeStopped =>
        \A k \in Kinds :
            IF Sent(k)
            THEN pc["updater"] \notin Between =>
                     IF routine[Gen][k] = "exited" THEN NoNil(queue[k]) ELSE OneNil(queue[k])
            ELSE NoNil(queue[k]) /\ (pc["updater"] \notin Between => routine[Gen][k] # "exited")

LifeInv == Locking /\ KeysInTurn /\ Generations /\ Carrying /\ NilsMatch /\ NoNilFlushed

\* What goes into a channel and out of it.
LEMMA NilQueues ==
    ASSUME NEW q \in Seq(Message \cup {Packet, Nil}), NEW m \in Message \cup {Packet, Nil}
    PROVE  /\ m # Nil /\ NoNil(q) => NoNil(Append(q, m))
           /\ m # Nil /\ OneNil(q) => OneNil(Append(q, m))
           /\ NoNil(q) => OneNil(Append(q, Nil))
           /\ q # <<>> /\ NoNil(q) => NoNil(Tail(q)) /\ Head(q) # Nil
           /\ q # <<>> /\ OneNil(q) => IF Head(q) = Nil THEN NoNil(Tail(q)) ELSE OneNil(Tail(q))
           /\ NoNil(<<>>)
<1>1. /\ Len(q) \in Nat /\ DOMAIN q = 1..Len(q)
      /\ \A e \in Message \cup {Packet, Nil} :
            /\ DOMAIN Append(q, e) = 1..(Len(q) + 1)
            /\ Append(q, e)[Len(q) + 1] = e
            /\ \A i \in 1..Len(q) : Append(q, e)[i] = q[i]
  OBVIOUS
<1>2. m # Nil /\ NoNil(q) => NoNil(Append(q, m))
  BY <1>1 DEF NoNil
<1>3. m # Nil /\ OneNil(q) => OneNil(Append(q, m))
  <2> SUFFICES ASSUME m # Nil, OneNil(q) PROVE OneNil(Append(q, m))
    OBVIOUS
  <2>1. PICK i \in DOMAIN q : q[i] = Nil /\ \A j \in DOMAIN q : j # i => q[j] # Nil
    BY DEF OneNil
  <2>2. i \in DOMAIN Append(q, m) /\ Append(q, m)[i] = Nil
    BY <1>1, <2>1
  <2>3. \A j \in DOMAIN Append(q, m) : j # i => Append(q, m)[j] # Nil
    BY <1>1, <2>1
  <2> QED
    BY <2>2, <2>3 DEF OneNil
<1>4. NoNil(q) => OneNil(Append(q, Nil))
  <2> SUFFICES ASSUME NoNil(q) PROVE OneNil(Append(q, Nil))
    OBVIOUS
  <2>1. Len(q) + 1 \in DOMAIN Append(q, Nil) /\ Append(q, Nil)[Len(q) + 1] = Nil
    BY <1>1
  <2>2. \A j \in DOMAIN Append(q, Nil) : j # Len(q) + 1 => Append(q, Nil)[j] # Nil
    BY <1>1 DEF NoNil
  <2> QED
    BY <2>1, <2>2 DEF OneNil
<1>5. ASSUME q # <<>>
      PROVE  /\ Len(q) >= 1 /\ Head(q) = q[1] /\ DOMAIN Tail(q) = 1..(Len(q) - 1)
             /\ \A i \in 1..(Len(q) - 1) : Tail(q)[i] = q[i + 1]
  BY <1>5
<1>6. q # <<>> /\ NoNil(q) => NoNil(Tail(q)) /\ Head(q) # Nil
  BY <1>1, <1>5 DEF NoNil
<1>7. ASSUME q # <<>>, OneNil(q)
      PROVE  IF Head(q) = Nil THEN NoNil(Tail(q)) ELSE OneNil(Tail(q))
  <2>1. PICK i \in 1..Len(q) : q[i] = Nil /\ \A j \in 1..Len(q) : j # i => q[j] # Nil
    BY <1>1, <1>7 DEF OneNil
  <2>2. CASE i = 1
    BY <1>1, <1>5, <1>7, <2>1, <2>2 DEF NoNil
  <2>3. CASE i # 1
    <3>1. Head(q) # Nil
      BY <1>1, <1>5, <1>7, <2>1, <2>3
    <3>2. i - 1 \in DOMAIN Tail(q) /\ Tail(q)[i - 1] = Nil
      BY <1>1, <1>5, <1>7, <2>1, <2>3
    <3>3. \A j \in DOMAIN Tail(q) : j # i - 1 => Tail(q)[j] # Nil
      BY <1>1, <1>5, <1>7, <2>1, <2>3
    <3> QED
      BY <3>1, <3>2, <3>3 DEF OneNil
  <2> QED
    BY <2>2, <2>3
<1>8. NoNil(<<>>)
  BY DEF NoNil
<1> QED
  BY <1>2, <1>3, <1>4, <1>6, <1>7, <1>8

\* While nobody holds mu, no Stop is in a place where nils are sent or awaited.
LEMMA NobodySends ==
    ASSUME Locking, mu.writer = "none"
    PROVE  /\ \A k \in Kinds : ~Sent(k)
           /\ \A x \in Callers : pc[x] \notin Nils \cup {"starting"}
<1>1. \A x \in Callers : pc[x] \notin Nils \cup {"starting"}
  BY Names DEF Locking
<1>2. \A k \in Kinds : After(k) \subseteq Nils
  BY DEF Kinds, After, Nils
<1> QED
  BY <1>1, <1>2 DEF Sent

\* A step of goroutines that neither send nils nor take one, nor end or start a routine.
Bystander ==
    /\ \A x \in Callers : \/ pc'[x] = pc[x]
                          \/ {pc[x], pc'[x]} \subseteq Resetting
                          \/ x \in Stoppers /\ {pc[x], pc'[x]} \subseteq Resetting \cup {"idle"}
    /\ UNCHANGED <<target, updates, remoteKey>>
    /\ mu'.writer = mu.writer /\ peer'.pubkey = peer.pubkey
    /\ \A g \in Keys, k \in Kinds : /\ routine'[g][k] = "none" <=> routine[g][k] = "none"
                                    /\ routine'[g][k] = "exited" <=> routine[g][k] = "exited"
    /\ \A k \in Kinds : \/ queue'[k] = queue[k]
                        \/ \E m \in Message \cup {Packet} : queue'[k] = Append(queue[k], m)
                        \/ queue'[k] = <<>> /\ mu.writer = "none"
    /\ Alive
    /\ crash' = "nil flushed" => mu.writer = "none" /\ \E k \in Kinds : ~NoNil(queue[k])
    /\ Carrying'

\* Such a step keeps the invariant.
LEMMA BystanderKeeps ==
    ASSUME TypeOK, LifeInv, Bystander
    PROVE  LifeInv'
<1> USE Names
<1>1. /\ pc'["updater"] = "idle" <=> pc["updater"] = "idle"
      /\ pc'["updater"] \in Between <=> pc["updater"] \in Between
      /\ pc'["updater"] \in {"idle", "start", "starting"} <=> pc["updater"] \in {"idle", "start", "starting"}
  BY DEF Bystander, Resetting, Between
<1>2. Gen' = Gen
  BY <1>1 DEF Gen, Bystander
<1>3. \A x \in Callers : \A l \in Nils \cup {"starting", "done"} : pc'[x] = l <=> pc[x] = l
  BY DEF Bystander, Resetting, Nils
<1>4. \A k \in Kinds : After(k) \subseteq Nils
  BY DEF Kinds, After, Nils
<1>5. \A k \in Kinds : Sent(k)' <=> Sent(k)
  BY <1>3, <1>4 DEF Sent
<1>6. NodeStopped' <=> NodeStopped
  BY <1>3 DEF NodeStopped
<1>7. Locking'
  <2> SUFFICES ASSUME NEW x \in Callers, pc'[x] \in Nils \cup {"starting"} PROVE mu'.writer = x
    BY DEF Locking
  <2>1. pc[x] \in Nils \cup {"starting"}
    BY <1>3
  <2>2. mu.writer = x
    BY <2>1 DEF LifeInv, Locking
  <2> QED
    BY <2>2 DEF Bystander
<1>8. KeysInTurn'
  BY <1>1, <1>2 DEF LifeInv, KeysInTurn, Bystander
<1>9. Generations'
  <2> SUFFICES ASSUME NEW g \in Keys, NEW k \in Kinds
               PROVE  /\ g > Gen' <=> routine'[g][k] = "none"
                      /\ g < Gen' => routine'[g][k] = "exited"
                      /\ g = Gen' /\ pc'["updater"] \in Between => routine'[g][k] = "exited"
    BY DEF Generations
  <2>1. /\ routine'[g][k] = "none" <=> routine[g][k] = "none"
        /\ routine'[g][k] = "exited" <=> routine[g][k] = "exited"
    BY DEF Bystander
  <2>2. /\ g > Gen <=> routine[g][k] = "none"
        /\ g < Gen => routine[g][k] = "exited"
        /\ g = Gen /\ pc["updater"] \in Between => routine[g][k] = "exited"
    BY DEF LifeInv, Generations
  <2> QED
    BY <1>1, <1>2, <2>1, <2>2
<1>10. NoNilFlushed'
  <2> SUFFICES ASSUME crash' = "nil flushed" PROVE NodeStopped'
    BY DEF NoNilFlushed, NodeStopped
  <2>1. Alive /\ mu.writer = "none" /\ \E k \in Kinds : ~NoNil(queue[k])
    BY DEF Bystander
  <2>2. \A k \in Kinds : ~Sent(k)
    BY <2>1, NobodySends DEF LifeInv
  <2> QED
    BY <1>6, <2>1, <2>2 DEF LifeInv, NilsMatch
<1>11. NilsMatch'
  <2> SUFFICES ASSUME ~NodeStopped', NEW k \in Kinds
               PROVE  IF Sent(k)'
                      THEN pc'["updater"] \notin Between =>
                               IF routine'[Gen'][k] = "exited" THEN NoNil(queue'[k]) ELSE OneNil(queue'[k])
                      ELSE NoNil(queue'[k]) /\ (pc'["updater"] \notin Between => routine'[Gen'][k] # "exited")
    BY DEF NilsMatch
  <2>1. IF Sent(k)
        THEN pc["updater"] \notin Between =>
                 IF routine[Gen][k] = "exited" THEN NoNil(queue[k]) ELSE OneNil(queue[k])
        ELSE NoNil(queue[k]) /\ (pc["updater"] \notin Between => routine[Gen][k] # "exited")
    BY <1>6 DEF LifeInv, NilsMatch, Bystander
  <2>2. Gen \in Keys
    BY DEF LifeInv, KeysInTurn
  <2>3. routine'[Gen][k] = "exited" <=> routine[Gen][k] = "exited"
    BY <2>2 DEF Bystander
  <2>4. queue[k] \in Seq(Message \cup {Packet, Nil})
    BY DEF TypeOK
  <2>5. CASE queue'[k] = queue[k]
    BY <1>1, <1>2, <1>5, <2>1, <2>3, <2>5
  <2>6. ASSUME NEW m \in Message \cup {Packet}, queue'[k] = Append(queue[k], m)
        PROVE  /\ NoNil(queue[k]) => NoNil(queue'[k])
               /\ OneNil(queue[k]) => OneNil(queue'[k])
    <3>1. m # Nil
      BY Items
    <3> QED
      BY <2>4, <2>6, <3>1, NilQueues
  <2>7. ASSUME queue'[k] = <<>>, mu.writer = "none" PROVE ~Sent(k) /\ NoNil(queue'[k])
    BY <2>4, <2>7, NobodySends, NilQueues DEF LifeInv, NoNil
  <2> QED
    BY <1>1, <1>2, <1>5, <2>1, <2>3, <2>5, <2>6, <2>7 DEF Bystander
<1> QED
  BY <1>7, <1>8, <1>9, <1>10, <1>11 DEF LifeInv, Bystander

\* A step of a callback or a reader that changes nothing of Bystander but crash.
LEMMA QuietBystander ==
    ASSUME TypeOK, LifeInv, NEW x \in Procs \ Callers, NEW l, Goto(x, l) \/ UNCHANGED pc,
           x = "udp" => l # "handshake", Alive, crash' # "nil flushed",
           UNCHANGED <<target, updates, remoteKey, routine, reading>>,
           mu'.writer = mu.writer, peer'.pubkey = peer.pubkey,
           \A k \in Kinds : \/ queue'[k] = queue[k]
                            \/ \E m \in Message \cup {Packet} : queue'[k] = Append(queue[k], m)
    PROVE  Bystander
<1> USE Names
<1>1. \A y \in Callers : pc'[y] = pc[y]
  BY DEF Goto, TypeOK
<1>2. Carrying'
  BY DEF Goto, TypeOK, LifeInv, Carrying
<1> QED
  BY <1>1, <1>2 DEF Bystander

\* Stop begins, and ResetState of anyone.
LEMMA ResetBystander ==
    ASSUME TypeOK, LifeInv, NEW x \in Callers \cup Callbacks, ResetStep(x) \/ Stop(x)
    PROVE  Bystander
<1> USE Names
<1>0. pc \in [Procs -> Labels] /\ x \in Procs /\ x # "udp"
  BY DEF TypeOK, Callbacks
<1>1. Alive /\ UNCHANGED <<mu, target, routine, world>>
  BY DEF ResetStep, ResetState, ResetLocked, ResetRestore, Stop, At
<1>2. UNCHANGED <<updates, remoteKey, reading>>
  BY <1>1 DEF world
<1>3. \A y \in Procs : y # x => pc'[y] = pc[y]
  BY <1>0 DEF ResetStep, ResetState, ResetLocked, ResetRestore, Stop, StopBegin, Goto
<1>4. x \in Callers => \/ pc'[x] = pc[x]
                       \/ {pc[x], pc'[x]} \subseteq Resetting
                       \/ x \in Stoppers /\ {pc[x], pc'[x]} \subseteq Resetting \cup {"idle"}
  BY <1>0 DEF ResetStep, ResetState, ResetLocked, ResetRestore, Stop, StopBegin, Goto, At,
     AfterReset, Resetting
<1>5. \A y \in Callers : \/ pc'[y] = pc[y]
                         \/ {pc[y], pc'[y]} \subseteq Resetting
                         \/ y \in Stoppers /\ {pc[y], pc'[y]} \subseteq Resetting \cup {"idle"}
  BY <1>3, <1>4
<1>6. Carrying'
  BY <1>0, <1>2, <1>3 DEF LifeInv, Carrying
<1>p. peer \in Peer
  BY DEF TypeOK
<1>7. peer'.pubkey = peer.pubkey
  <2>1. CASE ResetState(x) \/ ResetRestore(x) \/ Stop(x)
    BY <1>p, <2>1 DEF ResetState, ResetRestore, Stop, StopBegin, Peer
  <2>2. CASE ResetLocked(x)
    <3>1. peer' = peer \/ peer' = Cleared(peer)
      BY <2>2 DEF ResetLocked
    <3>2. Cleared(peer).pubkey = peer.pubkey
      BY <1>p DEF Cleared, Peer
    <3> QED
      BY <3>1, <3>2
  <2> QED
    BY <2>1, <2>2 DEF ResetStep
<1>8. CASE ResetLocked(x)
  <2>1. mu.writer = "none"
    BY <1>8 DEF ResetLocked, Free
  <2>2. \A k \in Kinds : queue'[k] = queue[k] \/ queue'[k] = <<>>
    BY <1>8 DEF ResetLocked
  <2>3. crash' = "nil flushed" => \E k \in Kinds : ~NoNil(queue[k])
    BY <1>1, <1>8 DEF ResetLocked, NoNil, Alive
  <2> QED
    BY <1>1, <1>2, <1>5, <1>6, <1>7, <2>1, <2>2, <2>3 DEF Bystander
<1>9. CASE ~ResetLocked(x)
  <2>1. UNCHANGED <<queue, crash>>
    BY <1>9 DEF ResetStep, ResetState, ResetRestore, Stop
  <2> QED
    BY <1>1, <1>2, <1>5, <1>6, <1>7, <2>1 DEF Bystander, Alive
<1> QED
  BY <1>8, <1>9

\* TrySendHandshake.
LEMMA SendBystander ==
    ASSUME TypeOK, LifeInv, NEW x \in Callbacks \cup {"tun"}, SendStep(x)
    PROVE  Bystander
<1> USE Names
<1>1. x \in Procs \ Callers /\ x # "udp"
  BY DEF Callbacks
<1>2. Alive /\ UNCHANGED <<target, updates, remoteKey, routine, reading, queue, crash>>
  BY DEF SendStep, RequestPunch, PunchReturns, SendHandshake, At, world
<1>3. mu'.writer = mu.writer /\ peer'.pubkey = peer.pubkey
  BY ZenonT(60) DEF SendStep, RequestPunch, PunchReturns, SendHandshake, TypeOK, Peer
<1>4. \E l : Goto(x, l)
  BY DEF SendStep, RequestPunch, PunchReturns, SendHandshake
<1> QED
  BY <1>1, <1>2, <1>3, <1>4, QuietBystander DEF Alive

\* The two readers.
LEMMA ReaderBystander ==
    ASSUME TypeOK, LifeInv,
           \/ OutboundPacket \/ OutboundQueue \/ InboundPacket \/ HandshakeQueue \/ InboundQueue
           \/ \E m \in Arriving : OnHandshake(m)
    PROVE  Bystander
<1> USE Names
<1>k. "Handshake" \in Kinds /\ "Inbound" \in Kinds /\ "Outbound" \in Kinds
  BY DEF Kinds
<1>q. ASSUME NEW k \in Kinds, NEW m \in Message \cup {Packet}, Push(k, m)
      PROVE  \A j \in Kinds : \/ queue'[j] = queue[j]
                              \/ \E e \in Message \cup {Packet} : queue'[j] = Append(queue[j], e)
  BY <1>q DEF Push, TypeOK
<1>1. CASE OutboundPacket \/ InboundPacket
  <2>1. /\ Alive /\ UNCHANGED <<peer, mu, target, updates, remoteKey, routine, reading, queue, crash>>
        /\ \/ Goto("tun", "push") \/ Goto("udp", "data") \/ UNCHANGED pc
    BY <1>1 DEF OutboundPacket, InboundPacket, At
  <2> QED
    BY <2>1, QuietBystander DEF Alive
<1>2. CASE OutboundQueue
  <2>1. /\ Alive /\ UNCHANGED <<mu, target, updates, remoteKey, routine, reading, crash>>
        /\ \E l : Goto("tun", l)
    BY <1>2 DEF OutboundQueue, At, world
  <2>2. peer'.pubkey = peer.pubkey
    BY <1>2 DEF OutboundQueue, TypeOK, Peer
  <2>3. \A j \in Kinds : \/ queue'[j] = queue[j]
                         \/ \E e \in Message \cup {Packet} : queue'[j] = Append(queue[j], e)
    BY <1>2, <1>k, <1>q DEF OutboundQueue
  <2> QED
    BY <2>1, <2>2, <2>3, QuietBystander DEF Alive
<1>3. CASE InboundQueue
  <2>1. /\ Alive /\ UNCHANGED <<peer, mu, target, updates, remoteKey, routine, reading, crash>>
        /\ Goto("udp", "idle")
    BY <1>3 DEF InboundQueue, At, world
  <2>2. \A j \in Kinds : \/ queue'[j] = queue[j]
                         \/ \E e \in Message \cup {Packet} : queue'[j] = Append(queue[j], e)
    BY <1>3, <1>k, <1>q DEF InboundQueue
  <2> QED
    BY <2>1, <2>2, QuietBystander DEF Alive
<1>4. CASE HandshakeQueue
  <2>1. /\ Alive /\ UNCHANGED <<peer, mu, target, updates, remoteKey, routine, crash>>
        /\ Goto("udp", "idle") /\ pc["udp"] = "handshake"
    BY <1>4 DEF HandshakeQueue, At
  <2>2. reading \in Message
    BY <2>1 DEF LifeInv, Carrying, TypeOK
  <2>3. \A j \in Kinds : \/ queue'[j] = queue[j]
                         \/ \E e \in Message \cup {Packet} : queue'[j] = Append(queue[j], e)
    BY <1>4, <1>k, <1>q, <2>2 DEF HandshakeQueue
  <2>4. Carrying' /\ \A x \in Callers : pc'[x] = pc[x]
    BY <2>1 DEF Carrying, Goto, TypeOK
  <2> QED
    BY <2>1, <2>3, <2>4 DEF Bystander, Alive
<1>5. ASSUME NEW m \in Arriving, OnHandshake(m) PROVE Bystander
  <2>1. /\ Alive /\ UNCHANGED <<peer, mu, target, updates, remoteKey, routine, queue, crash>>
    BY <1>5 DEF OnHandshake, At
  <2>2. m # Nil
    BY <1>5, Items DEF Arriving, Nil
  <2>3. Carrying' /\ \A x \in Callers : pc'[x] = pc[x]
    BY <1>5, <2>2 DEF OnHandshake, Carrying, Goto, TypeOK, LifeInv
  <2> QED
    BY <2>1, <2>3 DEF Bystander, Alive
<1> QED
  BY <1>1, <1>2, <1>3, <1>4, <1>5

\* The timers and their callbacks.
LEMMA TimerBystander ==
    ASSUME TypeOK, LifeInv,
           (\E t \in Timers : Expire(t)) \/ (\E x \in Callbacks : Timeout(x))
    PROVE  Bystander
<1> USE Names
<1>1. ASSUME NEW t \in Timers, Expire(t) PROVE Bystander
  <2>1. Callback(t) \in Procs \ Callers /\ Callback(t) # "udp"
    BY DEF Callback, Timers, Callbacks
  <2>2. /\ Alive /\ UNCHANGED <<mu, target, updates, remoteKey, routine, reading, queue, crash>>
        /\ Goto(Callback(t), "begin")
    BY <1>1 DEF Expire, At
  <2>3. peer'.pubkey = peer.pubkey
    BY <1>1 DEF Expire, TypeOK, Peer
  <2> QED
    BY <2>1, <2>2, <2>3, QuietBystander DEF Alive
<1>2. ASSUME NEW x \in Callbacks, Alive, UNCHANGED <<mu, target, routine, crash, world>>, \E l : Goto(x, l),
             peer'.pubkey = peer.pubkey,
             \A k \in Kinds : \/ queue'[k] = queue[k]
                              \/ \E m \in Message \cup {Packet} : queue'[k] = Append(queue[k], m)
      PROVE  Bystander
  <2>1. x \in Procs \ Callers /\ x # "udp"
    BY DEF Callbacks
  <2> QED
    BY <1>2, <2>1, QuietBystander DEF Alive, world
<1>n. "HandshakeTimeout" \in Callbacks /\ "TXTimeout" \in Callbacks /\ "RXTimeout" \in Callbacks
  BY DEF Callbacks
<1>q. ASSUME NEW x, NEW p \in Peer, p.pubkey = peer.pubkey, RetryHandshake(x, p)
      PROVE  peer'.pubkey = peer.pubkey /\ \E l : Goto(x, l)
  BY <1>q DEF RetryHandshake, Peer
<1>3. CASE HandshakeTimeout
  <2> DEFINE p == [peer EXCEPT !.inTransport = FALSE]
  <2>1. \/ RetryHandshake("HandshakeTimeout", p)
        \/ (peer' = p \/ peer' = peer) /\ Goto("HandshakeTimeout", "idle")
    BY <1>3 DEF HandshakeTimeout
  <2>2. p \in Peer /\ p.pubkey = peer.pubkey
    BY DEF TypeOK, Peer
  <2> HIDE DEF p
  <2>3. peer'.pubkey = peer.pubkey /\ \E l : Goto("HandshakeTimeout", l)
    BY <1>q, <2>1, <2>2
  <2> QED
    BY <1>2, <1>3, <1>n, <2>3 DEF HandshakeTimeout, At
<1>4. CASE TXTimeout
  BY <1>2, <1>4, <1>n DEF TXTimeout, At
<1>5. CASE TXQueue
  <2>1. \A k \in Kinds : \/ queue'[k] = queue[k]
                         \/ \E m \in Message \cup {Packet} : queue'[k] = Append(queue[k], m)
    BY <1>5 DEF TXQueue, Push, TypeOK
  <2> QED
    BY <1>2, <1>5, <1>n, <2>1 DEF TXQueue, At
<1>6. CASE RXTimeout \/ RXTimeoutLock
  <2>1. peer'.pubkey = peer.pubkey
    BY <1>6 DEF RXTimeout, RXTimeoutLock, TypeOK, Peer
  <2>2. \E l : Goto("RXTimeout", l)
    BY <1>6 DEF RXTimeout, RXTimeoutLock
  <2> QED
    BY <1>2, <1>6, <1>n, <2>1, <2>2 DEF RXTimeout, RXTimeoutLock, At
<1>7. CASE RXTimeoutLocked
  <2>1. \/ RetryHandshake("RXTimeout", peer)
        \/ /\ peer' = [peer EXCEPT !.armed = @ \ {"receivedPacket", "handshakeSent"}]
           /\ Goto("RXTimeout", "cas")
    BY <1>7 DEF RXTimeoutLocked
  <2>2. peer \in Peer
    BY DEF TypeOK
  <2>3. peer'.pubkey = peer.pubkey /\ \E l : Goto("RXTimeout", l)
    BY <1>q, <2>1, <2>2 DEF Peer
  <2> QED
    BY <1>2, <1>7, <1>n, <2>3 DEF RXTimeoutLocked, At
<1>8. ASSUME NEW x \in Callbacks, ResetStep(x) \/ SendStep(x) PROVE Bystander
  BY <1>8, ResetBystander, SendBystander
<1> QED
  BY <1>1, <1>3, <1>4, <1>5, <1>6, <1>7, <1>8 DEF Timeout

\* The routines, between two receives.
LEMMA RoutineBystander ==
    ASSUME TypeOK, LifeInv, NEW g \in Keys, NEW k \in Kinds, Routine(g, k), ~Receive(g, k)
    PROVE  Bystander
<1>1. /\ Alive /\ UNCHANGED <<mu, pc, target, queue, world>>
      /\ crash' # "nil flushed"
  BY DEF Routine, UseAddress, Inbound, Outbound, HandshakeLock, HandshakeP2, FinishHandshake,
     RoutineAt, Crash, Alive
<1>p. peer \in Peer
  BY DEF TypeOK
<1>2. peer'.pubkey = peer.pubkey
  <2>1. CASE UseAddress(g, k) \/ Inbound(g) \/ Outbound(g) \/ HandshakeLock(g)
    BY <1>p, <2>1 DEF UseAddress, Inbound, Outbound, HandshakeLock, Peer
  <2>2. CASE HandshakeP2(g)
    BY <1>p, <2>2 DEF HandshakeP2, Peer
  <2>3. CASE FinishHandshake(g)
    <3>1. CASE ~peer.pendingLock
      BY <2>3, <3>1 DEF FinishHandshake
    <3>2. CASE peer.pendingLock
      BY <1>p, <2>3, <3>2 DEF FinishHandshake, Peer
    <3> QED
      BY <3>1, <3>2
  <2> QED
    BY <2>1, <2>2, <2>3 DEF Routine
<1>3. \/ UNCHANGED routine
      \/ \E j \in Kinds, l \in {"recv", "mu", "finish"} :
            routine[g][j] \in {"lock", "mu", "finish"} /\ Move(g, j, l)
  BY DEF Routine, UseAddress, Inbound, Outbound, HandshakeLock, HandshakeP2, FinishHandshake,
     RoutineAt, Kinds
<1>4. \A h \in Keys, j \in Kinds : /\ routine'[h][j] = "none" <=> routine[h][j] = "none"
                                   /\ routine'[h][j] = "exited" <=> routine[h][j] = "exited"
  <2>1. CASE UNCHANGED routine
    BY <2>1
  <2>2. ASSUME NEW i \in Kinds, NEW l \in {"recv", "mu", "finish"},
               routine[g][i] \in {"lock", "mu", "finish"}, Move(g, i, l),
               NEW h \in Keys, NEW j \in Kinds
        PROVE  /\ routine'[h][j] = "none" <=> routine[h][j] = "none"
               /\ routine'[h][j] = "exited" <=> routine[h][j] = "exited"
    <3>1. routine \in [Keys -> [Kinds -> {"none", "recv", "lock", "mu", "finish", "exited"}]]
      BY DEF TypeOK
    <3>2. routine'[h][j] = IF h = g /\ j = i THEN l ELSE routine[h][j]
      BY <2>2, <3>1 DEF Move
    <3> QED
      BY <2>2, <3>2
  <2> QED
    BY <1>3, <2>1, <2>2
<1>5. Carrying' /\ UNCHANGED <<updates, remoteKey>>
  BY <1>1 DEF LifeInv, Carrying, world
<1> QED
  BY <1>1, <1>2, <1>4, <1>5 DEF Bystander

\* A step of a Stop, from its lock to its wait, leaves the keys, the generations and the
\* reader of the socket alone.
LEMMA InsideStop ==
    ASSUME TypeOK, LifeInv, NEW x \in Callers, NEW l, Goto(x, l),
           pc[x] \notin {"idle"} \cup Between, l \notin {"idle"} \cup Between,
           UNCHANGED <<target, routine, world>>, peer'.pubkey = peer.pubkey
    PROVE  /\ pc'[x] = l /\ \A y \in Procs : y # x => pc'[y] = pc[y]
           /\ pc'["updater"] \in Between <=> pc["updater"] \in Between
           /\ Gen' = Gen /\ Gen \in Keys
           /\ KeysInTurn' /\ Generations' /\ Carrying'
<1> USE Names
<1>1. pc'[x] = l /\ \A y \in Procs : y # x => pc'[y] = pc[y]
  BY DEF Goto, TypeOK
<1>2. /\ pc'["updater"] = "idle" <=> pc["updater"] = "idle"
      /\ pc'["updater"] \in Between <=> pc["updater"] \in Between
      /\ pc'["updater"] \in {"idle", "start", "starting"} <=> pc["updater"] \in {"idle", "start", "starting"}
  BY <1>1 DEF Between
<1>3. Gen' = Gen
  BY <1>2 DEF Gen
<1>4. KeysInTurn' /\ Gen \in Keys
  BY <1>2, <1>3 DEF LifeInv, KeysInTurn, world
<1>5. Generations'
  BY <1>2, <1>3 DEF LifeInv, Generations
<1>6. Carrying'
  BY <1>1 DEF LifeInv, Carrying, world
<1> QED
  BY <1>1, <1>2, <1>3, <1>4, <1>5, <1>6

\* Whoever sends nils or waits for the routines is alone with mu.
LEMMA SenderAlone ==
    ASSUME LifeInv, NEW x \in Callers, pc[x] \in Nils \cup {"starting"}
    PROVE  mu.writer = x /\ \A y \in Callers : y # x => pc[y] \notin Nils \cup {"starting"}
BY DEF LifeInv, Locking

\* Stop takes mu: no nil is out yet.
LEMMA StopLockKeeps ==
    ASSUME TypeOK, LifeInv, NEW x \in Callers, StopLock(x)
    PROVE  LifeInv'
<1> USE Names
<1>1. /\ pc[x] = "lock" /\ mu.writer = "none" /\ Alive /\ Goto(x, "nil Handshake")
      /\ UNCHANGED <<peer, queue, target, routine, crash, world>>
  BY DEF StopLock, At, Free
<1>2. mu'.writer = x
  BY DEF StopLock, TypeOK
<1>3. /\ pc'[x] = "nil Handshake" /\ \A y \in Procs : y # x => pc'[y] = pc[y]
      /\ pc'["updater"] \in Between <=> pc["updater"] \in Between
      /\ Gen' = Gen /\ Gen \in Keys /\ KeysInTurn' /\ Generations' /\ Carrying'
  BY <1>1, InsideStop DEF Between
<1>4. /\ \A k \in Kinds : ~Sent(k)
      /\ \A y \in Callers : pc[y] \notin Nils \cup {"starting"}
  BY <1>1, NobodySends DEF LifeInv
<1>5. Locking'
  BY <1>2, <1>3, <1>4 DEF Locking
<1>6. \A k \in Kinds : After(k) \subseteq Nils /\ "nil Handshake" \notin After(k)
  BY DEF Kinds, After, Nils
<1>7. \A k \in Kinds : ~Sent(k)'
  BY <1>3, <1>4, <1>6 DEF Sent
<1>8. NodeStopped' <=> NodeStopped
  BY <1>1, <1>3 DEF NodeStopped
<1>9. NilsMatch'
  BY <1>1, <1>3, <1>4, <1>7, <1>8 DEF LifeInv, NilsMatch, Alive
<1>10. NoNilFlushed'
  BY <1>1 DEF NoNilFlushed, Alive
<1> QED
  BY <1>3, <1>5, <1>9, <1>10 DEF LifeInv

\* Stop sends the nil for routine k, the first one in that channel.
LEMMA StopSendKeeps ==
    ASSUME TypeOK, LifeInv, NEW x \in Callers, NEW k \in Kinds, StopSend(x, k)
    PROVE  LifeInv'
<1> USE Names
<1> DEFINE next == CASE k = "Handshake" -> "nil Inbound"
                     [] k = "Inbound"   -> "nil Outbound"
                     [] OTHER           -> "wait"
<1>1. /\ pc[x] = NilLabel(k) /\ Alive /\ Goto(x, next)
      /\ UNCHANGED <<peer, mu, target, routine, crash, world>>
  BY DEF StopSend, At
<1>2. /\ queue'[k] = Append(queue[k], Nil)
      /\ \A j \in Kinds : j # k => queue'[j] = queue[j]
  BY DEF StopSend, Push, TypeOK
<1>3. /\ NilLabel(k) \in Nils /\ next \in Nils
      /\ NilLabel(k) \notin After(k) /\ next \in After(k)
      /\ \A j \in Kinds : /\ After(j) \subseteq Nils
                          /\ j # k => (next \in After(j) <=> NilLabel(k) \in After(j))
  BY DEF Kinds, NilLabel, Nils, After
<1> HIDE DEF next
<1>4. Nils \cap ({"idle", "done"} \cup Between) = {}
  BY DEF Nils, Between
<1>5. /\ pc'[x] = next /\ \A y \in Procs : y # x => pc'[y] = pc[y]
      /\ pc'["updater"] \in Between <=> pc["updater"] \in Between
      /\ Gen' = Gen /\ Gen \in Keys /\ KeysInTurn' /\ Generations' /\ Carrying'
  <2>1. pc[x] \notin {"idle"} \cup Between /\ next \notin {"idle"} \cup Between
    BY <1>1, <1>3, <1>4
  <2> QED
    BY <1>1, <2>1, InsideStop
<1>6. mu.writer = x /\ \A y \in Callers : y # x => pc[y] \notin Nils \cup {"starting"}
  BY <1>1, <1>3, SenderAlone
<1>7. Locking'
  BY <1>1, <1>5, <1>6 DEF Locking
<1>8. NodeStopped' <=> NodeStopped
  BY <1>1, <1>3, <1>4, <1>5 DEF NodeStopped
<1>9. \A j \in Kinds : (Sent(j) <=> NilLabel(k) \in After(j)) /\ (Sent(j)' <=> next \in After(j))
  <2> SUFFICES ASSUME NEW j \in Kinds
               PROVE  (Sent(j) <=> NilLabel(k) \in After(j)) /\ (Sent(j)' <=> next \in After(j))
    OBVIOUS
  <2>1. \A y \in Callers : y # x => pc[y] \notin After(j) /\ pc'[y] \notin After(j)
    BY <1>3, <1>5, <1>6
  <2> QED
    BY <1>1, <1>5, <2>1 DEF Sent
<1>10. NilsMatch'
  <2> SUFFICES ASSUME ~NodeStopped', NEW j \in Kinds
               PROVE  IF Sent(j)'
                      THEN pc'["updater"] \notin Between =>
                               IF routine'[Gen'][j] = "exited" THEN NoNil(queue'[j]) ELSE OneNil(queue'[j])
                      ELSE NoNil(queue'[j]) /\ (pc'["updater"] \notin Between => routine'[Gen'][j] # "exited")
    BY DEF NilsMatch
  <2>1. IF Sent(j)
        THEN pc["updater"] \notin Between =>
                 IF routine[Gen][j] = "exited" THEN NoNil(queue[j]) ELSE OneNil(queue[j])
        ELSE NoNil(queue[j]) /\ (pc["updater"] \notin Between => routine[Gen][j] # "exited")
    BY <1>1, <1>8 DEF LifeInv, NilsMatch
  <2>2. CASE j = k
    <3>1. NoNil(queue[k]) /\ (pc["updater"] \notin Between => routine[Gen][k] # "exited")
      BY <1>3, <1>9, <2>1, <2>2
    <3>2. queue[k] \in Seq(Message \cup {Packet, Nil})
      BY DEF TypeOK
    <3>3. OneNil(queue'[k])
      BY <1>2, <3>1, <3>2, NilQueues
    <3> QED
      BY <1>1, <1>3, <1>5, <1>9, <2>2, <3>1, <3>3
  <2>3. CASE j # k
    BY <1>1, <1>2, <1>3, <1>5, <1>9, <2>1, <2>3
  <2> QED
    BY <2>2, <2>3
<1>11. NoNilFlushed'
  BY <1>1 DEF NoNilFlushed, Alive
<1> QED
  BY <1>5, <1>7, <1>10, <1>11 DEF LifeInv

\* The wait of Stop ends: the routines of the generation have taken the nils.
LEMMA StopWaitKeeps ==
    ASSUME TypeOK, LifeInv, NEW x \in Callers, StopWait(x)
    PROVE  LifeInv'
<1> USE Names
<1>1. pc[x] = "wait" /\ Alive /\ RoutinesDone /\ UNCHANGED <<queue, target, routine, world>>
  BY DEF StopWait, At
<1>2. mu.writer = x /\ \A y \in Callers : y # x => pc[y] \notin Nils \cup {"starting"}
  BY <1>1, SenderAlone DEF Nils
<1>3. CASE ~peer.pendingLock
  <2>1. UNCHANGED <<peer, mu, pc>> /\ crash' = "unlock of unlocked mutex"
    BY <1>3 DEF StopWait, Crash
  <2>2. Gen' = Gen
    BY <1>1, <2>1 DEF Gen
  <2>3. Locking' /\ KeysInTurn' /\ Carrying'
    BY <1>1, <2>1, <2>2 DEF LifeInv, Locking, KeysInTurn, Carrying, world
  <2>4. Generations'
    BY <1>1, <2>1, <2>2 DEF LifeInv, Generations
  <2>5. NilsMatch' /\ NoNilFlushed'
    BY <2>1 DEF NilsMatch, NoNilFlushed, Alive
  <2> QED
    BY <2>3, <2>4, <2>5 DEF LifeInv
<1>4. ASSUME peer.pendingLock, x \in Stoppers PROVE LifeInv'
  <2>1. Goto(x, "done") /\ crash' = "none"
    BY <1>1, <1>4 DEF StopWait, Alive
  <2>2. peer'.pubkey = peer.pubkey
    BY <1>4 DEF StopWait, TypeOK, Peer
  <2>3. /\ pc'[x] = "done" /\ \A y \in Procs : y # x => pc'[y] = pc[y]
        /\ KeysInTurn' /\ Generations' /\ Carrying'
    BY <1>1, <2>1, <2>2, InsideStop DEF Between
  <2>4. Locking'
    BY <1>2, <2>3 DEF Locking, Nils
  <2>5. NodeStopped' /\ NoNilFlushed'
    BY <1>4, <2>1, <2>3 DEF NodeStopped, NoNilFlushed
  <2> QED
    BY <2>3, <2>4, <2>5 DEF LifeInv, NilsMatch
<1>5. ASSUME peer.pendingLock, x = "updater" PROVE LifeInv'
  <2>1. /\ pc'["updater"] = "key" /\ \A y \in Procs : y # "updater" => pc'[y] = pc[y]
        /\ crash' = "none"
    BY <1>1, <1>5 DEF StopWait, Goto, Alive, TypeOK
  <2>2. peer'.pubkey = peer.pubkey
    BY <1>5 DEF StopWait, TypeOK, Peer
  <2>3. Gen' = Gen /\ Gen \in Keys
    BY <1>1, <1>5, <2>1 DEF Gen, LifeInv, KeysInTurn
  <2>4. KeysInTurn' /\ Carrying'
    BY <1>1, <1>5, <2>1, <2>2, <2>3 DEF LifeInv, KeysInTurn, Carrying, world
  <2>5. Locking'
    BY <1>2, <1>5, <2>1 DEF Locking, Nils
  <2>6. \A k \in Kinds : routine[Gen][k] = "exited"
    <3>1. ~(Gen > Gen)
      BY <2>3 DEF Keys
    <3> QED
      BY <1>1, <2>3, <3>1 DEF RoutinesDone, LifeInv, Generations
  <2>7. Generations'
    BY <1>1, <2>3, <2>6 DEF LifeInv, Generations
  <2>8. \A k \in Kinds : "wait" \in After(k) /\ After(k) \subseteq Nils /\ "key" \notin After(k)
    BY DEF Kinds, After, Nils
  <2>9. \A k \in Kinds : Sent(k) /\ ~Sent(k)'
    BY <1>1, <1>2, <1>5, <2>1, <2>8 DEF Sent
  <2>10. NodeStopped' <=> NodeStopped
    BY <2>1 DEF NodeStopped
  <2>11. NilsMatch'
    <3> SUFFICES ASSUME ~NodeStopped', NEW k \in Kinds PROVE NoNil(queue'[k])
      BY <2>1, <2>9 DEF NilsMatch, Between
    <3>1. pc["updater"] \notin Between
      BY <1>1, <1>5 DEF Between
    <3> QED
      BY <1>1, <2>6, <2>9, <2>10, <3>1 DEF LifeInv, NilsMatch
  <2>12. NoNilFlushed'
    BY <2>1 DEF NoNilFlushed
  <2> QED
    BY <2>4, <2>5, <2>7, <2>11, <2>12 DEF LifeInv
<1> QED
  BY <1>3, <1>4, <1>5 DEF Callers

\* Update takes the next key, which is never the one the peer has, and begins a Stop.
LEMMA UpdateKeeps ==
    ASSUME TypeOK, LifeInv, Update
    PROVE  LifeInv'
<1> USE Names
<1>1. /\ pc["updater"] = "idle" /\ Alive /\ mu.writer = "none" /\ updates # <<>>
      /\ target' = Head(updates) /\ updates' = Tail(updates)
      /\ UNCHANGED <<mu, queue, routine, crash, reading, remoteKey>>
  BY DEF Update, At, Readable
<1>2. /\ Gen = target /\ target \in Keys /\ peer.pubkey = target
      /\ Len(updates) = remoteKey - target
      /\ \A i \in 1..Len(updates) : updates[i] = target + i
  BY <1>1 DEF LifeInv, KeysInTurn, Gen, TypeOK
<1>3. /\ Len(updates) \in Nat \ {0} /\ Head(updates) = updates[1]
      /\ Len(Tail(updates)) = Len(updates) - 1
      /\ \A i \in 1..(Len(updates) - 1) : Tail(updates)[i] = updates[i + 1]
  <2>1. updates \in Seq(Keys)
    BY DEF TypeOK
  <2> QED
    BY <1>1, <2>1
<1>4. target' = target + 1 /\ target' # peer.pubkey /\ target \in Nat /\ remoteKey \in Nat
  BY <1>1, <1>2, <1>3 DEF Keys, TypeOK
<1>5. StopBegin("updater")
  BY <1>1, <1>4 DEF Update
<1>6. /\ pc'["updater"] = "cas" /\ \A y \in Procs : y # "updater" => pc'[y] = pc[y]
      /\ peer'.pubkey = peer.pubkey
  BY <1>5 DEF StopBegin, Goto, TypeOK, Peer
<1>7. Gen' = Gen
  BY <1>2, <1>4, <1>6 DEF Gen
<1>8. KeysInTurn'
  <2>1. Len(updates') = remoteKey' - target'
    BY <1>1, <1>2, <1>3, <1>4
  <2>2. ASSUME NEW i \in 1..Len(updates') PROVE updates'[i] = target' + i
    <3>1. i \in 1..(Len(updates) - 1) /\ i \in Nat /\ i + 1 \in 1..Len(updates)
      BY <1>1, <1>3
    <3>2. updates'[i] = updates[i + 1] /\ updates[i + 1] = target + (i + 1)
      BY <1>1, <1>2, <1>3, <3>1
    <3> QED
      BY <1>4, <3>1, <3>2
  <2>3. peer'.pubkey = target' - 1
    BY <1>2, <1>4, <1>6
  <2>4. Gen' \in Keys
    BY <1>2, <1>7
  <2> QED
    BY <1>6, <2>1, <2>2, <2>3, <2>4 DEF KeysInTurn
<1>9. /\ \A k \in Kinds : ~Sent(k)
      /\ \A y \in Callers : pc[y] \notin Nils \cup {"starting"}
  BY <1>1, NobodySends DEF LifeInv
<1>10. Locking' /\ Carrying'
  BY <1>1, <1>6, <1>9 DEF Locking, LifeInv, Carrying, Nils
<1>11. Generations'
  BY <1>1, <1>6, <1>7 DEF LifeInv, Generations, Between
<1>12. \A k \in Kinds : After(k) \subseteq Nils /\ "cas" \notin After(k)
  BY DEF Kinds, After, Nils
<1>13. \A k \in Kinds : ~Sent(k)'
  BY <1>6, <1>9, <1>12 DEF Sent
<1>14. NodeStopped' <=> NodeStopped
  BY <1>6 DEF NodeStopped
<1>15. pc["updater"] \notin Between
  BY <1>1 DEF Between
<1>16. NilsMatch'
  BY <1>1, <1>7, <1>9, <1>13, <1>14, <1>15 DEF LifeInv, NilsMatch
<1>17. NoNilFlushed'
  BY <1>1 DEF NoNilFlushed, Alive
<1> QED
  BY <1>8, <1>10, <1>11, <1>16, <1>17 DEF LifeInv

\* The key is set, and Start takes mu: the updater stays between two generations.
LEMMA BetweenKeeps ==
    ASSUME TypeOK, LifeInv, UpdateKey \/ Start
    PROVE  LifeInv'
<1> USE Names
<1>1. /\ pc["updater"] \in {"key", "start"} /\ Alive /\ mu.writer = "none"
      /\ UNCHANGED <<queue, target, routine, world>>
  BY DEF UpdateKey, Start, At, Free
<1>2. /\ \A k \in Kinds : ~Sent(k)
      /\ \A y \in Callers : pc[y] \notin Nils \cup {"starting"}
  BY <1>1, NobodySends DEF LifeInv
<1>3. /\ pc'["updater"] \in Between /\ \A y \in Procs : y # "updater" => pc'[y] = pc[y]
      /\ crash' # "nil flushed"
      /\ pc'["updater"] = "starting" => mu'.writer = "updater"
  <2>1. CASE UpdateKey
    BY <1>1, <2>1 DEF UpdateKey, Goto, Alive, TypeOK, Between
  <2>2. CASE Start
    <3>1. CASE peer.running
      BY <1>1, <2>2, <3>1 DEF Start, At, Crash, Between
    <3>2. CASE ~peer.running
      BY <1>1, <2>2, <3>2 DEF Start, Goto, Alive, TypeOK, Between
    <3> QED
      BY <3>1, <3>2
  <2> QED
    BY <2>1, <2>2
<1>4. peer'.pubkey = IF pc'["updater"] \in {"start", "starting"} THEN target ELSE target - 1
  <2>1. CASE UpdateKey
    BY <2>1 DEF UpdateKey, Goto, TypeOK, Peer
  <2>2. CASE Start
    <3>1. UNCHANGED peer /\ pc["updater"] = "start" /\ pc'["updater"] \in {"start", "starting"}
      BY <2>2 DEF Start, At, Goto, TypeOK
    <3> QED
      BY <3>1 DEF LifeInv, KeysInTurn
  <2> QED
    BY <2>1, <2>2
<1>5. Gen' = Gen /\ Gen \in Keys
  BY <1>1, <1>3 DEF Gen, Between, LifeInv, KeysInTurn
<1>6. pc["updater"] \in Between
  BY <1>1 DEF Between
<1>7. KeysInTurn' /\ Carrying'
  BY <1>1, <1>3, <1>4, <1>5 DEF LifeInv, KeysInTurn, Carrying, Between, world
<1>8. Generations'
  BY <1>1, <1>3, <1>5, <1>6 DEF LifeInv, Generations
<1>9. Locking'
  BY <1>2, <1>3 DEF Locking, Between, Nils
<1>10. \A k \in Kinds : After(k) \subseteq Nils /\ After(k) \cap Between = {}
  BY DEF Kinds, After, Nils, Between
<1>11. \A k \in Kinds : ~Sent(k)'
  BY <1>2, <1>3, <1>10 DEF Sent
<1>12. NodeStopped' <=> NodeStopped
  BY <1>3 DEF NodeStopped
<1>13. NilsMatch'
  BY <1>1, <1>2, <1>3, <1>11, <1>12 DEF LifeInv, NilsMatch
<1>14. NoNilFlushed'
  BY <1>3 DEF NoNilFlushed
<1> QED
  BY <1>7, <1>8, <1>9, <1>13, <1>14 DEF LifeInv

\* The next generation is the one counted by the keys, and finds channels without nils.
LEMMA StartKeeps ==
    ASSUME TypeOK, LifeInv, StartRoutines
    PROVE  LifeInv'
<1> USE Names
<1> DEFINE Fresh(h) == /\ routine[h]["Inbound"] = "none"
                       /\ \A i \in 1..(h - 1) : routine[i]["Inbound"] # "none"
           c == CHOOSE h \in Keys : Fresh(h)
<1>1. /\ pc["updater"] = "starting" /\ Alive
      /\ routine' = [routine EXCEPT ![c] = [k \in Kinds |-> "recv"]]
      /\ UNCHANGED <<queue, target, crash, world>>
  BY DEF StartRoutines, At
<1>2. /\ pc'["updater"] = "idle" /\ \A y \in Procs : y # "updater" => pc'[y] = pc[y]
      /\ peer'.pubkey = peer.pubkey
  BY DEF StartRoutines, Goto, TypeOK, Peer
<1>3. /\ Gen = target - 1 /\ Gen' = target /\ target \in Keys /\ Gen \in Keys
      /\ \A g \in Keys : g \in Nat /\ \A i \in 1..(g - 1) : i \in Keys
  <2>1. Gen = target - 1 /\ Gen' = target /\ target \in Keys /\ Gen \in Keys
    BY <1>1, <1>2 DEF Gen, LifeInv, KeysInTurn, TypeOK
  <2>2. \A g \in Keys : g \in Nat /\ \A i \in 1..(g - 1) : i \in Keys
    BY PeerLifecycleAssumption DEF PeerLifecycleAssumption, Keys
  <2> QED
    BY <2>1, <2>2
<1>4. \A g \in Keys, k \in Kinds :
        /\ g > target - 1 <=> routine[g][k] = "none"
        /\ g <= target - 1 => routine[g][k] = "exited"
  <2> SUFFICES ASSUME NEW g \in Keys, NEW k \in Kinds
               PROVE  /\ g > target - 1 <=> routine[g][k] = "none"
                      /\ g <= target - 1 => routine[g][k] = "exited"
    OBVIOUS
  <2>1. pc["updater"] \in Between
    BY <1>1 DEF Between
  <2>2. /\ g > Gen <=> routine[g][k] = "none"
        /\ g < Gen => routine[g][k] = "exited"
        /\ g = Gen => routine[g][k] = "exited"
    BY <2>1 DEF LifeInv, Generations
  <2> QED
    BY <1>3, <2>2 DEF Keys
<1>5. c = target
  <2>1. "Inbound" \in Kinds
    BY DEF Kinds
  <2>2. Fresh(target)
    BY <1>3, <1>4, <2>1
  <2>3. c \in Keys /\ Fresh(c)
    BY <1>3, <2>2
  <2> HIDE DEF c
  <2>4. c > target - 1
    BY <1>4, <2>1, <2>3
  <2>5. ~(c > target)
    BY <1>3, <1>4, <2>1, <2>3
  <2> QED
    BY <1>3, <2>3, <2>4, <2>5
<1> HIDE DEF c
<1>6. \A g \in Keys, k \in Kinds : routine'[g][k] = IF g = target THEN "recv" ELSE routine[g][k]
  BY <1>1, <1>5 DEF TypeOK
<1>7. mu.writer = "updater" /\ \A y \in Callers : y # "updater" => pc[y] \notin Nils \cup {"starting"}
  BY <1>1, SenderAlone
<1>8. \A k \in Kinds : /\ After(k) \subseteq Nils
                       /\ "starting" \notin After(k) /\ "idle" \notin After(k)
  BY DEF Kinds, After, Nils
<1>9. \A k \in Kinds : ~Sent(k) /\ ~Sent(k)'
  BY <1>1, <1>2, <1>7, <1>8 DEF Sent
<1>10. NodeStopped' <=> NodeStopped
  BY <1>2 DEF NodeStopped
<1>11. Locking' /\ Carrying'
  BY <1>1, <1>2, <1>7 DEF Locking, Nils, LifeInv, Carrying, world
<1>12. KeysInTurn'
  <2>1. peer.pubkey = target /\ Len(updates) = remoteKey - target
        /\ \A i \in 1..Len(updates) : updates[i] = target + i
    BY <1>1 DEF LifeInv, KeysInTurn
  <2> QED
    BY <1>1, <1>2, <1>3, <2>1 DEF KeysInTurn, world
<1>13. Generations'
  <2> SUFFICES ASSUME NEW g \in Keys, NEW k \in Kinds
               PROVE  /\ g > target <=> routine'[g][k] = "none"
                      /\ g < target => routine'[g][k] = "exited"
    BY <1>2, <1>3 DEF Generations, Between
  <2> QED
    BY <1>3, <1>4, <1>6
<1>14. NilsMatch'
  <2> SUFFICES ASSUME ~NodeStopped', NEW k \in Kinds
               PROVE  NoNil(queue'[k]) /\ routine'[Gen'][k] # "exited"
    BY <1>9 DEF NilsMatch
  <2>1. NoNil(queue[k])
    BY <1>1, <1>9, <1>10 DEF LifeInv, NilsMatch
  <2> QED
    BY <1>1, <1>3, <1>6, <2>1
<1>15. NoNilFlushed'
  BY <1>1 DEF NoNilFlushed, Alive
<1> QED
  BY <1>11, <1>12, <1>13, <1>14, <1>15 DEF LifeInv

\* A routine takes a message, or the nil that was meant for it.
LEMMA ReceiveKeeps ==
    ASSUME TypeOK, LifeInv, NEW g \in Keys, NEW k \in Kinds, Receive(g, k)
    PROVE  LifeInv'
<1> USE Names
<1>1. /\ routine[g][k] = "recv" /\ Alive /\ queue[k] # <<>>
      /\ UNCHANGED <<peer, mu, pc, target, world>>
  BY DEF Receive, RoutineAt
<1>2. /\ queue'[k] = Tail(queue[k]) /\ \A j \in Kinds : j # k => queue'[j] = queue[j]
      /\ queue[k] \in Seq(Message \cup {Packet, Nil})
  BY DEF Receive, TypeOK
<1>3. /\ crash' # "nil flushed"
      /\ \/ UNCHANGED routine /\ crash' # "none"
         \/ Head(queue[k]) = Nil /\ Move(g, k, "exited")
         \/ Head(queue[k]) # Nil /\ \E l \in {"lock", "mu"} : Move(g, k, l)
  BY <1>1 DEF Receive, Crash, Alive
<1>4. Gen' = Gen /\ Gen \in Keys
  BY <1>1 DEF Gen, LifeInv, KeysInTurn
<1>5. g = Gen /\ pc["updater"] \notin Between
  BY <1>1, <1>4 DEF LifeInv, Generations, Keys
<1>m. ASSUME NEW l, Move(g, k, l)
      PROVE  /\ routine'[g][k] = l
             /\ \A h \in Keys, j \in Kinds : ~(h = g /\ j = k) => routine'[h][j] = routine[h][j]
  <2>1. routine \in [Keys -> [Kinds -> {"none", "recv", "lock", "mu", "finish", "exited"}]]
    BY DEF TypeOK
  <2> QED
    BY <1>m, <2>1 DEF Move
<1>6. \A h \in Keys, j \in Kinds : ~(h = g /\ j = k) => routine'[h][j] = routine[h][j]
  BY <1>3, <1>m
<1>7. routine'[g][k] # "none" /\ (routine'[g][k] = "exited" => Head(queue[k]) = Nil)
  <2>1. CASE UNCHANGED routine
    BY <1>1, <2>1
  <2>2. CASE Head(queue[k]) = Nil /\ Move(g, k, "exited")
    BY <1>m, <2>2
  <2>3. ASSUME NEW l \in {"lock", "mu"}, Move(g, k, l)
        PROVE  routine'[g][k] \in {"lock", "mu"}
    BY <1>m, <2>3
  <2> QED
    BY <1>3, <2>1, <2>2, <2>3
<1>8. crash' = "none" => (routine'[g][k] = "exited" <=> Head(queue[k]) = Nil)
  BY <1>1, <1>3, <1>m
<1>9. Locking' /\ KeysInTurn' /\ Carrying'
  BY <1>1, <1>4 DEF LifeInv, Locking, KeysInTurn, Carrying, world
<1>10. Generations'
  <2> SUFFICES ASSUME NEW h \in Keys, NEW j \in Kinds
               PROVE  /\ h > Gen <=> routine'[h][j] = "none"
                      /\ h < Gen => routine'[h][j] = "exited"
    BY <1>1, <1>4, <1>5 DEF Generations
  <2>1. /\ h > Gen <=> routine[h][j] = "none"
        /\ h < Gen => routine[h][j] = "exited"
    BY DEF LifeInv, Generations
  <2>2. CASE h = g /\ j = k
    <3>1. ~(h > Gen) /\ ~(h < Gen)
      BY <1>4, <1>5, <2>2 DEF Keys
    <3> QED
      BY <1>7, <2>2, <3>1
  <2>3. CASE ~(h = g /\ j = k)
    BY <1>6, <2>1, <2>3
  <2> QED
    BY <2>2, <2>3
<1>11. \A j \in Kinds : Sent(j)' <=> Sent(j)
  BY <1>1 DEF Sent
<1>12. NodeStopped' <=> NodeStopped
  BY <1>1 DEF NodeStopped
<1>13. NilsMatch'
  <2> SUFFICES ASSUME Alive', ~NodeStopped', NEW j \in Kinds
               PROVE  IF Sent(j)
                      THEN IF routine'[Gen][j] = "exited" THEN NoNil(queue'[j]) ELSE OneNil(queue'[j])
                      ELSE NoNil(queue'[j]) /\ routine'[Gen][j] # "exited"
    BY <1>1, <1>4, <1>11 DEF NilsMatch
  <2>1. IF Sent(j)
        THEN IF routine[Gen][j] = "exited" THEN NoNil(queue[j]) ELSE OneNil(queue[j])
        ELSE NoNil(queue[j]) /\ routine[Gen][j] # "exited"
    BY <1>1, <1>5, <1>12 DEF LifeInv, NilsMatch
  <2>2. CASE j = k
    <3>1. routine'[Gen][k] = "exited" <=> Head(queue[k]) = Nil
      BY <1>5, <1>8 DEF Alive
    <3>2. CASE Sent(k)
      <4>1. OneNil(queue[k])
        BY <1>1, <1>5, <2>1, <2>2, <3>2
      <4>2. IF Head(queue[k]) = Nil THEN NoNil(Tail(queue[k])) ELSE OneNil(Tail(queue[k]))
        BY <1>1, <1>2, <4>1, NilQueues
      <4> QED
        BY <1>2, <2>2, <3>1, <3>2, <4>2
    <3>3. CASE ~Sent(k)
      <4>1. NoNil(queue[k])
        BY <2>1, <2>2, <3>3
      <4>2. NoNil(Tail(queue[k])) /\ Head(queue[k]) # Nil
        BY <1>1, <1>2, <4>1, NilQueues
      <4> QED
        BY <1>2, <2>2, <3>1, <3>3, <4>2
    <3> QED
      BY <3>2, <3>3
  <2>3. CASE j # k
    BY <1>2, <1>4, <1>6, <2>1, <2>3
  <2> QED
    BY <2>2, <2>3
<1>14. NoNilFlushed'
  BY <1>3 DEF NoNilFlushed
<1> QED
  BY <1>9, <1>10, <1>13, <1>14 DEF LifeInv

\* The remote node takes its next key, and the stream announces it.
LEMMA RestartKeeps ==
    ASSUME TypeOK, LifeInv, RemoteRestart
    PROVE  LifeInv'
<1>1. /\ UNCHANGED <<peer, mu, queue, pc, target, routine, crash, reading>>
      /\ remoteKey' = remoteKey + 1 /\ updates' = Append(updates, remoteKey + 1)
  BY DEF RemoteRestart
<1>2. Gen' = Gen
  BY <1>1 DEF Gen
<1>3. KeysInTurn'
  <2>1. /\ Len(updates) = remoteKey - target /\ Gen \in Keys
        /\ \A i \in 1..Len(updates) : updates[i] = target + i
        /\ peer.pubkey = IF pc["updater"] \in {"idle", "start", "starting"} THEN target ELSE target - 1
    BY DEF LifeInv, KeysInTurn
  <2>2. updates \in Seq(Keys) /\ remoteKey \in Nat /\ target \in Nat
    BY DEF TypeOK, Keys
  <2>3. /\ Len(updates') = Len(updates) + 1 /\ updates'[Len(updates) + 1] = remoteKey + 1
        /\ \A i \in 1..Len(updates) : updates'[i] = updates[i]
        /\ Len(updates) \in Nat
    BY <1>1, <2>2
  <2>4. Len(updates') = remoteKey' - target'
    BY <1>1, <2>1, <2>2, <2>3
  <2>5. ASSUME NEW i \in 1..Len(updates') PROVE updates'[i] = target' + i
    <3>1. CASE i \in 1..Len(updates)
      BY <1>1, <2>1, <2>3, <3>1
    <3>2. CASE i = Len(updates) + 1
      BY <1>1, <2>1, <2>2, <2>3, <3>2
    <3> QED
      BY <2>3, <3>1, <3>2
  <2> QED
    BY <1>1, <1>2, <2>1, <2>4, <2>5 DEF KeysInTurn
<1>4. Locking' /\ Carrying' /\ NoNilFlushed'
  BY <1>1 DEF LifeInv, Locking, Carrying, NoNilFlushed
<1>5. Generations'
  BY <1>1, <1>2 DEF LifeInv, Generations
<1>6. NilsMatch'
  BY <1>1, <1>2 DEF LifeInv, NilsMatch, Sent, NodeStopped, NoNil, OneNil, Alive
<1> QED
  BY <1>3, <1>4, <1>5, <1>6 DEF LifeInv

\* Every step of the peer, its routines and its environment keeps the invariant.
LEMMA StepLife == TypeOK /\ LifeInv /\ [Next]_vars => LifeInv'
<1> SUFFICES ASSUME TypeOK, LifeInv, [Next]_vars PROVE LifeInv'
  OBVIOUS
<1> USE Names
<1>1. CASE UNCHANGED vars
  <2>1. UNCHANGED <<peer, mu, queue, pc, target, routine, reading, remoteKey, updates, crash>>
    BY <1>1 DEF vars
  <2>2. Gen' = Gen
    BY <2>1 DEF Gen
  <2>3. Locking' /\ KeysInTurn' /\ Carrying' /\ NoNilFlushed'
    BY <2>1, <2>2 DEF LifeInv, Locking, KeysInTurn, Carrying, NoNilFlushed
  <2>4. Generations'
    BY <2>1, <2>2 DEF LifeInv, Generations
  <2>5. NilsMatch'
    BY <2>1, <2>2 DEF LifeInv, NilsMatch, Sent, NodeStopped, NoNil, OneNil, Alive
  <2> QED
    BY <2>3, <2>4, <2>5 DEF LifeInv
<1>2. CASE Environment
  <2>1. ASSUME NEW x \in Stoppers, Stop(x) PROVE LifeInv'
    BY <2>1, ResetBystander, BystanderKeeps
  <2>2. CASE RemoteRestart
    BY <2>2, RestartKeeps
  <2>3. CASE OutboundPacket \/ InboundPacket \/ \E m \in Arriving : OnHandshake(m)
    BY <2>3, ReaderBystander, BystanderKeeps
  <2>4. CASE \E t \in Timers : Expire(t)
    BY <2>4, TimerBystander, BystanderKeeps
  <2> QED
    BY <1>2, <2>1, <2>2, <2>3, <2>4 DEF Environment
<1>3. ASSUME NEW x \in Callers, Caller(x) PROVE LifeInv'
  <2>1. CASE StopStep(x)
    BY <2>1, StopLockKeeps, StopSendKeeps, StopWaitKeeps DEF StopStep
  <2>2. CASE ResetStep(x)
    BY <2>2, ResetBystander, BystanderKeeps
  <2>3. CASE Updater
    BY <2>3, UpdateKeeps, BetweenKeeps, StartKeeps DEF Updater
  <2> QED
    BY <1>3, <2>1, <2>2, <2>3 DEF Caller
<1>4. CASE \E x \in Callbacks : Timeout(x)
  BY <1>4, TimerBystander, BystanderKeeps
<1>5. CASE TunReader \/ UDPReader
  BY <1>5, ReaderBystander, SendBystander, BystanderKeeps DEF TunReader, UDPReader
<1>6. ASSUME NEW g \in Keys, NEW k \in Kinds, Routine(g, k) PROVE LifeInv'
  BY <1>6, RoutineBystander, ReceiveKeeps, BystanderKeeps
<1> QED
  BY <1>1, <1>2, <1>3, <1>4, <1>5, <1>6 DEF Next, Goroutines

\* A peer that was added and started, with the first key.
LEMMA InitLife == Init => LifeInv
<1> SUFFICES ASSUME Init PROVE LifeInv
  OBVIOUS
<1> USE Names
<1>1. pc["updater"] = "idle" /\ pc["udp"] = "idle" /\ \A x \in Callers : pc[x] = "idle"
  BY DEF Init
<1>2. Gen = 1 /\ 1 \in Keys
  BY <1>1, PeerLifecycleAssumption DEF Init, Gen, Keys, PeerLifecycleAssumption
<1>3. KeysInTurn
  <2>1. target = 1 /\ remoteKey = 1 /\ peer.pubkey = 1 /\ updates = <<>> /\ Len(updates) = 0
    BY DEF Init
  <2> QED
    BY <1>1, <1>2, <2>1 DEF KeysInTurn
<1>7. Locking /\ Carrying /\ NoNilFlushed
  BY <1>1 DEF Init, Locking, Carrying, NoNilFlushed, Nils
<1>4. Generations
  BY <1>1, <1>2 DEF Init, Generations, Keys, Between
<1>5. \A k \in Kinds : ~Sent(k) /\ NoNil(queue[k]) /\ routine[Gen][k] # "exited"
  <2>1. \A k \in Kinds : "idle" \notin After(k)
    BY DEF Kinds, After
  <2>2. \A k \in Kinds : ~Sent(k)
    BY <1>1, <2>1 DEF Sent
  <2>3. \A k \in Kinds : NoNil(queue[k]) /\ routine[Gen][k] = "recv"
    BY <1>2 DEF Init, NoNil
  <2> QED
    BY <2>2, <2>3
<1>6. NilsMatch
  BY <1>5 DEF NilsMatch
<1> QED
  BY <1>3, <1>4, <1>6, <1>7 DEF LifeInv

PeerInv == TypeInv /\ LifeInv

\* The invariant holds of every behaviour.
LEMMA PeerInvariant == Spec => []PeerInv
<1>1. Init => PeerInv
  BY InitType, InitLife, Names DEF Init, PeerInv, TypeInv, TunPlaces
<1>2. PeerInv /\ [Next]_vars => PeerInv'
  BY StepType, StepLife DEF PeerInv, TypeInv
<1> QED
  BY <1>1, <1>2, PTL DEF Spec

\* Stop, Start and the callbacks keep the routines apart: there is one generation of them
\* at a time, no channel overflows, and no ResetState dereferences the nil of a Stop
\* until the node itself has stopped the peer.
THEOREM RoutinesAreSound == Spec => []RoutinesSound
<1>1. PeerInv => RoutinesSound
  <2> SUFFICES ASSUME PeerInv PROVE RoutinesSound
    OBVIOUS
  <2>1. ASSUME NEW k \in Kinds, NEW g \in Keys, NEW h \in Keys,
               routine[g][k] \notin {"none", "exited"}, routine[h][k] \notin {"none", "exited"}
        PROVE  g = h
    <3>1. Gen \in Keys
      BY DEF PeerInv, LifeInv, KeysInTurn
    <3>2. ~(g > Gen) /\ ~(g < Gen) /\ ~(h > Gen) /\ ~(h < Gen)
      BY <2>1 DEF PeerInv, LifeInv, Generations
    <3> QED
      BY <3>1, <3>2 DEF Keys
  <2> QED
    BY <2>1 DEF PeerInv, TypeInv, LifeInv, RoutinesSound, OneGeneration
<1> QED
  BY <1>1, PeerInvariant, PTL

\* A peer that accepts packets while no Stop or Update is under way has all its routines.
THEOREM RunningIsServed == Spec => []RunningServed
<1>1. PeerInv => RunningServed
  <2> SUFFICES ASSUME PeerInv, Alive, NoStop PROVE \E g \in Keys : Serving(g)
    BY DEF RunningServed
  <2>1. Gen \in Keys
    BY DEF PeerInv, LifeInv, KeysInTurn
  <2>2. \A x \in Callers : pc[x] = "idle"
    BY DEF NoStop
  <2>3. ~NodeStopped /\ pc["updater"] \notin Between
    BY <2>2, Names DEF NodeStopped, Between
  <2>4. \A k \in Kinds : "idle" \notin After(k)
    BY DEF Kinds, After
  <2>5. \A k \in Kinds : ~Sent(k)
    BY <2>2, <2>4 DEF Sent
  <2>6. \A k \in Kinds : routine[Gen][k] # "exited"
    BY <2>3, <2>5 DEF PeerInv, LifeInv, NilsMatch
  <2>7. \A k \in Kinds : routine[Gen][k] # "none"
    <3>1. ~(Gen > Gen)
      BY <2>1 DEF Keys
    <3> QED
      BY <2>1, <3>1 DEF PeerInv, LifeInv, Generations
  <2> QED
    BY <2>1, <2>6, <2>7 DEF Serving
<1> QED
  BY <1>1, PeerInvariant, PTL

-----------------------------------------------------------------------------
(***************************************************************************)
(* A peer that is not running.  The invariant is inductive as it stands: a  *)
(* callback that reset the peer keeps its witness until it restores running.*)
(***************************************************************************)

\* A step that neither stops the peer nor moves a reset.
Onlooker ==
    /\ Alive' => Alive
    /\ peer'.running = peer.running /\ UNCHANGED was
    /\ \A x \in Callers : pc'[x] = pc[x]
    /\ \A x \in Callbacks : pc[x] \in {"reset", "restore"} => pc'[x] = pc[x]

\* Such a step leaves the reason for a peer that is not running in place.
LEMMA OnlookerKeeps ==
    ASSUME StoppedOnlyByReset, Onlooker
    PROVE  StoppedOnlyByReset'
<1> SUFFICES ASSUME Alive', ~peer'.running, NoStop'
             PROVE  \E x \in Callbacks : pc'[x] \in {"reset", "restore"} /\ was'[x]
  BY DEF StoppedOnlyByReset
<1>1. Alive /\ ~peer.running /\ NoStop
  BY DEF Onlooker, NoStop
<1>2. PICK x \in Callbacks : pc[x] \in {"reset", "restore"} /\ was[x]
  BY <1>1 DEF StoppedOnlyByReset
<1> QED
  BY <1>2 DEF Onlooker

\* Stop and Update end with the peer running, or are still under way.
LEMMA CallerStops ==
    ASSUME TypeOK, StoppedOnlyByReset, NEW x \in Callers, Caller(x) \/ Stop(x)
    PROVE  StoppedOnlyByReset'
<1> USE Names
<1>0. pc \in [Procs -> Labels] /\ x \in Procs /\ x \notin Callbacks /\ "updater" \in Callers /\ peer \in Peer
  BY DEF TypeOK, Callbacks, Callers
<1>1. ASSUME NEW y \in Callers, NEW l, Goto(y, l), l # "idle" PROVE ~NoStop'
  <2>1. pc'[y] = l
    BY <1>0, <1>1 DEF Goto
  <2> QED
    BY <1>1, <2>1 DEF NoStop
<1>2. CASE Stop(x)
  BY <1>1, <1>2 DEF Stop, StopBegin, StoppedOnlyByReset
<1>3. CASE StopLock(x)
  BY <1>1, <1>3 DEF StopLock, StoppedOnlyByReset
<1>4. ASSUME NEW k \in Kinds, StopSend(x, k) PROVE StoppedOnlyByReset'
  <2>1. \E l \in Nils : Goto(x, l)
    BY <1>4 DEF StopSend, Nils
  <2>2. \A l \in Nils : l # "idle"
    BY DEF Nils
  <2> QED
    BY <1>1, <2>1, <2>2 DEF StoppedOnlyByReset
<1>5. CASE StopWait(x)
  <2>1. CASE peer.pendingLock
    <3>1. Goto(x, "key") \/ Goto(x, "done")
      BY <1>5, <2>1 DEF StopWait
    <3> QED
      BY <1>1, <3>1 DEF StoppedOnlyByReset
  <2>2. CASE ~peer.pendingLock
    BY <1>5, <2>2 DEF StopWait, Crash, Alive, StoppedOnlyByReset
  <2> QED
    BY <2>1, <2>2
<1>6. CASE ResetState(x)
  BY <1>1, <1>6 DEF ResetState, StoppedOnlyByReset
<1>7. CASE ResetLocked(x)
  <2>1. crash' = "nil flushed" \/ Goto(x, "restore") \/ Goto(x, "lock")
    BY <1>7 DEF ResetLocked, Crash, AfterReset
  <2> QED
    BY <1>1, <2>1 DEF StoppedOnlyByReset, Alive
<1>8. CASE ResetRestore(x)
  <2>1. Goto(x, "lock")
    BY <1>8 DEF ResetRestore, AfterReset
  <2> QED
    BY <1>1, <2>1 DEF StoppedOnlyByReset
<1>9. CASE Update
  <2>1. CASE Head(updates) = peer.pubkey
    <3>1. Onlooker
      BY <1>9, <2>1 DEF Update, Onlooker, Alive
    <3> QED
      BY <3>1, OnlookerKeeps
  <2>2. CASE Head(updates) # peer.pubkey
    <3>1. Goto("updater", "cas")
      BY <1>9, <2>2 DEF Update, StopBegin
    <3> QED
      BY <1>0, <1>1, <3>1 DEF StoppedOnlyByReset
  <2> QED
    BY <2>1, <2>2
<1>10. CASE UpdateKey
  BY <1>0, <1>1, <1>10 DEF UpdateKey, StoppedOnlyByReset
<1>11. CASE Start
  <2>1. crash' = "already running" \/ Goto("updater", "starting")
    BY <1>11 DEF Start, Crash
  <2> QED
    BY <1>0, <1>1, <2>1 DEF StoppedOnlyByReset, Alive
<1>12. CASE StartRoutines
  <2>1. peer'.running = TRUE
    BY <1>0, <1>12 DEF StartRoutines, Peer
  <2> QED
    BY <2>1 DEF StoppedOnlyByReset
<1> QED
  BY <1>2, <1>3, <1>4, <1>5, <1>6, <1>7, <1>8, <1>9, <1>10, <1>11, <1>12
  DEF Caller, StopStep, ResetStep, Updater

\* A callback that resets the peer is itself the reason, or leaves the other one in place.
LEMMA CallbackResets ==
    ASSUME TypeOK, StoppedOnlyByReset, NEW x \in Callbacks, ResetStep(x)
    PROVE  StoppedOnlyByReset'
<1> USE Names
<1>0. /\ pc \in [Procs -> Labels] /\ was \in [Procs -> BOOLEAN] /\ peer \in Peer
      /\ x \in Procs /\ x \notin Callers /\ Alive
  BY DEF TypeOK, Callbacks, ResetStep, ResetState, ResetLocked, ResetRestore, At
<1>1. \A y \in Procs : y # x => pc'[y] = pc[y] /\ was'[y] = was[y]
  BY <1>0 DEF ResetStep, ResetState, ResetLocked, ResetRestore, Goto
<1> SUFFICES ASSUME Alive', ~peer'.running, NoStop'
             PROVE  \E y \in Callbacks : pc'[y] \in {"reset", "restore"} /\ was'[y]
  BY DEF StoppedOnlyByReset
<1>2. NoStop
  BY <1>0, <1>1 DEF NoStop
<1>3. \A y \in Callbacks : y \in Procs
  OBVIOUS
<1>4. CASE ResetState(x)
  <2>1. pc[x] = "cas" /\ pc'[x] = "reset" /\ was'[x] = peer.running
    BY <1>0, <1>4 DEF ResetState, At, Goto
  <2>2. CASE peer.running
    BY <2>1, <2>2
  <2>3. CASE ~peer.running
    <3>1. PICK y \in Callbacks : pc[y] \in {"reset", "restore"} /\ was[y]
      BY <1>0, <1>2, <2>3 DEF StoppedOnlyByReset
    <3>2. y # x
      BY <2>1, <3>1
    <3> QED
      BY <1>1, <1>3, <3>1, <3>2
  <2> QED
    BY <2>2, <2>3
<1>5. CASE ResetLocked(x)
  <2>1. peer' = Cleared(peer) /\ Goto(x, IF was[x] THEN "restore" ELSE AfterReset(x)) /\ UNCHANGED was
    BY <1>5 DEF ResetLocked, Crash, Alive
  <2>2. ~peer.running
    BY <1>0, <2>1 DEF Cleared, Peer
  <2>3. PICK y \in Callbacks : pc[y] \in {"reset", "restore"} /\ was[y]
    BY <1>0, <1>2, <2>2 DEF StoppedOnlyByReset
  <2>4. CASE y = x
    <3>1. pc'[x] = "restore" /\ was'[x]
      BY <1>0, <2>1, <2>3, <2>4 DEF Goto
    <3> QED
      BY <3>1
  <2>5. CASE y # x
    BY <1>1, <1>3, <2>3, <2>5
  <2> QED
    BY <2>4, <2>5
<1>6. CASE ResetRestore(x)
  BY <1>0, <1>6 DEF ResetRestore, Peer
<1> QED
  BY <1>4, <1>5, <1>6 DEF ResetStep

\* A goroutine that is not in a reset moves, and the peer keeps running or not.
LEMMA MoveOnlooker ==
    ASSUME TypeOK, Alive, NEW x \in Procs \ Callers, NEW l, Goto(x, l) \/ UNCHANGED pc,
           pc[x] \notin {"reset", "restore"}, peer'.running = peer.running, UNCHANGED was
    PROVE  Onlooker
<1> USE Names
<1>1. \A y \in Procs : y # x => pc'[y] = pc[y]
  BY DEF Goto, TypeOK
<1>2. Callbacks \subseteq Procs
  BY DEF Procs
<1> QED
  BY <1>1, <1>2 DEF Onlooker

\* TrySendHandshake, the timers and the callbacks outside ResetState.
LEMMA TimerOnlooker ==
    ASSUME TypeOK,
           \/ \E t \in Timers : Expire(t)
           \/ \E x \in Callbacks : Timeout(x) /\ ~ResetStep(x)
           \/ SendStep("tun")
    PROVE  Onlooker
<1> USE Names
<1>0. peer \in Peer
  BY DEF TypeOK
<1>n. /\ {"HandshakeTimeout", "TXTimeout", "RXTimeout"} \subseteq Procs \ Callers
      /\ "tun" \in Procs \ Callers /\ Callbacks \subseteq Procs \ Callers
  BY DEF Callbacks
<1>1. ASSUME NEW t \in Timers, Expire(t) PROVE Onlooker
  <2>1. Callback(t) \in Callbacks
    BY DEF Callback, Timers, Callbacks
  <2>2. /\ Alive /\ Goto(Callback(t), "begin") /\ UNCHANGED was
        /\ pc[Callback(t)] = "idle"
    BY <1>1 DEF Expire, At
  <2>3. peer'.running = peer.running
    BY <1>0, <1>1 DEF Expire, Peer
  <2> QED
    BY <1>n, <2>1, <2>2, <2>3, MoveOnlooker
<1>2. ASSUME NEW x \in Callbacks \cup {"tun"}, SendStep(x) PROVE Onlooker
  <2>1. /\ Alive /\ UNCHANGED was /\ pc[x] \notin {"reset", "restore"} /\ \E l : Goto(x, l)
    BY <1>2 DEF SendStep, RequestPunch, PunchReturns, SendHandshake, At
  <2>2. peer'.running = peer.running
    BY <1>0, <1>2 DEF SendStep, RequestPunch, PunchReturns, SendHandshake, Peer
  <2> QED
    BY <1>n, <2>1, <2>2, MoveOnlooker
<1>q. ASSUME NEW x, NEW p \in Peer, p.running = peer.running, RetryHandshake(x, p)
      PROVE  peer'.running = peer.running /\ \E l : Goto(x, l)
  BY <1>q DEF RetryHandshake, Peer
<1>3. CASE HandshakeTimeout
  <2> DEFINE p == [peer EXCEPT !.inTransport = FALSE]
  <2>1. /\ \/ RetryHandshake("HandshakeTimeout", p)
           \/ (peer' = p \/ peer' = peer) /\ Goto("HandshakeTimeout", "idle")
        /\ Alive /\ pc["HandshakeTimeout"] = "begin" /\ UNCHANGED was
    BY <1>3 DEF HandshakeTimeout, At
  <2>2. p \in Peer /\ p.running = peer.running
    BY <1>0 DEF Peer
  <2> HIDE DEF p
  <2>3. peer'.running = peer.running /\ \E l : Goto("HandshakeTimeout", l)
    BY <1>q, <2>1, <2>2
  <2> QED
    BY <1>n, <2>1, <2>3, MoveOnlooker
<1>4. CASE TXTimeout \/ TXQueue
  <2>1. /\ Alive /\ UNCHANGED <<peer, was>> /\ pc["TXTimeout"] \in {"begin", "push"}
        /\ \E l : Goto("TXTimeout", l)
    BY <1>4 DEF TXTimeout, TXQueue, At
  <2> QED
    BY <1>n, <2>1, MoveOnlooker
<1>5. CASE RXTimeout \/ RXTimeoutLock
  <2>1. /\ Alive /\ UNCHANGED was /\ pc["RXTimeout"] \in {"begin", "pending"}
        /\ \E l : Goto("RXTimeout", l)
    BY <1>5 DEF RXTimeout, RXTimeoutLock, At
  <2>2. peer'.running = peer.running
    BY <1>0, <1>5 DEF RXTimeout, RXTimeoutLock, Peer
  <2> QED
    BY <1>n, <2>1, <2>2, MoveOnlooker
<1>6. CASE RXTimeoutLocked
  <2>1. /\ \/ RetryHandshake("RXTimeout", peer)
           \/ /\ peer' = [peer EXCEPT !.armed = @ \ {"receivedPacket", "handshakeSent"}]
              /\ Goto("RXTimeout", "cas")
        /\ Alive /\ pc["RXTimeout"] = "locked" /\ UNCHANGED was
    BY <1>6 DEF RXTimeoutLocked, At
  <2>2. peer'.running = peer.running /\ \E l : Goto("RXTimeout", l)
    BY <1>0, <1>q, <2>1 DEF Peer
  <2> QED
    BY <1>n, <2>1, <2>2, MoveOnlooker
<1> QED
  BY <1>1, <1>2, <1>3, <1>4, <1>5, <1>6 DEF Timeout

\* The readers, the remote node and the routines.
LEMMA WorldOnlooker ==
    ASSUME TypeOK,
           \/ OutboundPacket \/ OutboundQueue \/ InboundPacket \/ HandshakeQueue \/ InboundQueue
           \/ (\E m \in Arriving : OnHandshake(m)) \/ RemoteRestart
           \/ \E g \in Keys, k \in Kinds : Routine(g, k)
    PROVE  Onlooker
<1> USE Names
<1>0. peer \in Peer
  BY DEF TypeOK
<1>1. CASE OutboundPacket \/ OutboundQueue
  <2>1. /\ Alive /\ UNCHANGED was /\ pc["tun"] \in {"idle", "push"}
        /\ (\E l : Goto("tun", l)) \/ UNCHANGED pc
    BY <1>1 DEF OutboundPacket, OutboundQueue, At
  <2>2. peer'.running = peer.running
    BY <1>0, <1>1 DEF OutboundPacket, OutboundQueue, Peer
  <2> QED
    BY <2>1, <2>2, MoveOnlooker
<1>2. CASE InboundPacket \/ HandshakeQueue \/ InboundQueue \/ \E m \in Arriving : OnHandshake(m)
  <2>1. /\ Alive /\ UNCHANGED <<peer, was>> /\ pc["udp"] \in {"idle", "handshake", "data"}
        /\ (\E l : Goto("udp", l)) \/ UNCHANGED pc
    BY <1>2 DEF InboundPacket, HandshakeQueue, InboundQueue, OnHandshake, At
  <2> QED
    BY <2>1, MoveOnlooker
<1>3. CASE RemoteRestart
  BY <1>3 DEF RemoteRestart, Onlooker
<1>4. ASSUME NEW g \in Keys, NEW k \in Kinds, Routine(g, k) PROVE Onlooker
  <2>1. Alive /\ UNCHANGED <<pc, was>>
    BY <1>4 DEF Routine, Receive, UseAddress, Inbound, Outbound, HandshakeLock, HandshakeP2,
       FinishHandshake, RoutineAt
  <2>2. peer'.running = peer.running
    <3>1. CASE Receive(g, k) \/ UseAddress(g, k) \/ Inbound(g) \/ Outbound(g) \/ HandshakeLock(g)
      BY <1>0, <3>1 DEF Receive, UseAddress, Inbound, Outbound, HandshakeLock, Peer
    <3>2. CASE HandshakeP2(g)
      BY <1>0, <3>2 DEF HandshakeP2, Peer
    <3>3. CASE FinishHandshake(g)
      <4>1. CASE ~peer.pendingLock
        BY <3>3, <4>1 DEF FinishHandshake
      <4>2. CASE peer.pendingLock
        BY <1>0, <3>3, <4>2, ZenonT(60) DEF FinishHandshake, Peer
      <4> QED
        BY <4>1, <4>2
    <3> QED
      BY <1>4, <3>1, <3>2, <3>3 DEF Routine
  <2> QED
    BY <2>1, <2>2, SMTT(30) DEF Onlooker
<1> QED
  BY <1>1, <1>2, <1>3, <1>4

\* While no Stop or Update is under way, the peer only stops accepting packets because a
\* callback is resetting it and will make it running again.
THEOREM StoppedByResetOnly == Spec => []StoppedOnlyByReset
<1>1. Init => StoppedOnlyByReset
  BY DEF Init, StoppedOnlyByReset
<1>2. TypeOK /\ StoppedOnlyByReset /\ [Next]_vars => StoppedOnlyByReset'
  <2> SUFFICES ASSUME TypeOK, StoppedOnlyByReset, [Next]_vars PROVE StoppedOnlyByReset'
    OBVIOUS
  <2>1. CASE UNCHANGED vars
    BY <2>1 DEF vars, StoppedOnlyByReset, NoStop, Alive
  <2>2. CASE Environment
    BY <2>2, CallerStops, TimerOnlooker, WorldOnlooker, OnlookerKeeps DEF Environment, Callers
  <2>3. CASE Goroutines
    BY <2>3, CallerStops, CallbackResets, TimerOnlooker, WorldOnlooker, OnlookerKeeps
    DEF Goroutines, TunReader, UDPReader
  <2> QED
    BY <2>1, <2>2, <2>3 DEF Next
<1> QED
  BY <1>1, <1>2, PeerTypeCorrect, PTL DEF Spec
===============================================================================
