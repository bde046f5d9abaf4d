------------------------------ MODULE PacketPath ------------------------------
(***************************************************************************)
(* The buffers of the packet path (node/queue.go) on their way through the  *)
(* readers (node/packets.go, node/node.go), the queues of one peer and its  *)
(* routines (node/peer.go, node/peer_transport.go), with what a reused      *)
(* buffer still holds.                                                      *)
(*                                                                         *)
(* A datagram is read over the first bytes of a buffer and Parse looks at   *)
(* the first HeaderLen bytes whatever was read, so a datagram shorter than  *)
(* a header is seen with the rest of what the buffer held.  Of the header   *)
(* only the type, whether the sender is in maps.id, and whether the last    *)
(* two bytes are HeaderPadding are kept; of a payload only which packet it  *)
(* is.  The session is the subject of Tunnel: decryption may fail or not.   *)
(***************************************************************************)
EXTENDS Naturals, Sequences, FiniteSets

CONSTANTS
    InBuffers,            \* identities of inbound buffers
    OutBuffers,           \* identities of outbound buffers
    NoBuffer,             \* no buffer in a hand
    Packets,              \* packets of the tun device for an address of the peer
    ChannelSize,          \* capacity of inbound and outbound
    HandshakeChannelSize, \* capacity of handshakes
    MaxDatagrams,         \* bound: datagrams read
    MaxPackets,           \* bound: packets read from the tun device
    MaxEvents             \* bound: timeouts, resets, stops

Buffers == InBuffers \cup OutBuffers
Queues  == {"inbound", "outbound", "handshakes"}
\* Who may hold a buffer: the two readers, the three routines, handshakeP2 for its
\* answer, TXTimeout, and TrySendHandshake (one at a time, under mu).
Hands   == {"udp", "tun", "Inbound", "Outbound", "Handshake", "answer", "TXTimeout", "initiation"}

ASSUME PacketPathAssumption ==
    /\ InBuffers \cap OutBuffers = {} /\ NoBuffer \notin Buffers
    /\ "zeros" \notin Packets /\ "other" \notin Packets /\ "empty" \notin Packets
    /\ ChannelSize \in Nat \ {0} /\ HandshakeChannelSize \in Nat \ {0}
    /\ MaxDatagrams \in Nat /\ MaxPackets \in Nat /\ MaxEvents \in Nat

\* What a datagram of the socket can look like to Parse.  The first two bytes of a
\* STUN response read as version 1, type Handshake; its random transaction number
\* may hold HeaderPadding.
Datagrams ==
    {d \in [type : {"Handshake", "Data", "Punch"}, known : BOOLEAN, padding : BOOLEAN, long : BOOLEAN] :
        \/ d.padding /\ d.long /\ (d.type = "Punch" => d.known)
        \/ ~d.padding /\ ~d.long /\ d.known /\ d.type # "Punch"
        \/ ~d.padding /\ d.long /\ ~d.known /\ d.type = "Handshake"}

VARIABLES
    inb,      \* inb[b]: what the inbound buffer b holds
    outb,     \* outb[b]: what the outbound buffer b holds
    pool,     \* pool[b]: how many times b is in its pool
    hand,     \* hand[h]: the buffer that h works on
    queue,    \* the channels of the peer
    pc,       \* where the two readers are
    running,  \* running of the peer
    state,    \* noise.state: 0, or 2 when the session is up
    pending,  \* pendingLock is held
    case,     \* the state that the Handshake routine read; 3 once it has pendingLock in case 2
    sent,     \* payloads that Outbound has sent
    dropped,  \* a buffer was abandoned: a full queue, or a handshake for a stopped peer
    spent     \* datagrams, packets and events so far

vars == <<inb, outb, pool, hand, queue, pc, running, state, pending, case, sent,
          dropped, spent>>

Cleared == [type |-> "None", known |-> FALSE, padding |-> FALSE, long |-> FALSE]
Blank   == [packet |-> "zeros", size |-> 0]

Init ==
    /\ inb = [b \in InBuffers |-> Cleared]
    /\ outb = [b \in OutBuffers |-> Blank]
    /\ pool = [b \in Buffers |-> 1]
    /\ hand = [h \in Hands |-> NoBuffer]
    /\ queue = [q \in Queues |-> <<>>]
    /\ pc = [r \in {"udp", "tun"} |-> "get"]
    /\ running = TRUE /\ case = 0
    /\ state \in {0, 2} /\ pending = (state = 0)
    /\ sent = {} /\ dropped = FALSE
    /\ spent = [datagrams |-> 0, packets |-> 0, events |-> 0]

-----------------------------------------------------------------------------
(* The pools.  They are sync.Pool: Get may take any buffer of the pool.  A   *)
(* buffer that New makes holds what a buffer that was put back holds, so a   *)
(* pool starts with all of its buffers, and New and the collector change     *)
(* nothing.                                                                 *)

Available(S) == {b \in S : pool[b] > 0}

\* GetInboundBuffer and GetOutboundBuffer, into a hand.
Get(h, b) ==
    /\ hand[h] = NoBuffer
    /\ hand' = [hand EXCEPT ![h] = b]
    /\ pool' = [pool EXCEPT ![b] = @ - 1]

Add(B) == pool' = [b \in Buffers |-> IF b \in B THEN pool[b] + 1 ELSE pool[b]]

\* Mutant: a buffer is put back as it is.
PutUnclearedInbound(B) == UNCHANGED inb

\* PutInboundBuffer clears what was read.
PutInboundBuffer(B) == inb' = [b \in InBuffers |-> IF b \in B THEN Cleared ELSE inb[b]]

\* Mutant: size is not reset.
PutSizedOutbound(B) ==
    outb' = [b \in OutBuffers |-> IF b \in B THEN [outb[b] EXCEPT !.packet = "zeros"] ELSE outb[b]]

\* PutOutboundBuffer clears the packet and its size.
PutOutboundBuffer(B) == outb' = [b \in OutBuffers |-> IF b \in B THEN Blank ELSE outb[b]]

\* Put the buffers B back, of either kind.
Put(B) == Add(B) /\ PutInboundBuffer(B) /\ PutOutboundBuffer(B)

Goto(r, label) == pc' = [pc EXCEPT ![r] = label]
Leave(h)       == hand' = [hand EXCEPT ![h] = NoBuffer]
Room(q) == Len(queue[q]) < IF q = "handshakes" THEN HandshakeChannelSize ELSE ChannelSize
Push(q, b) == queue' = [queue EXCEPT ![q] = Append(@, b)]

Event == spent.events < MaxEvents /\ spent' = [spent EXCEPT !.events = @ + 1]

contents == <<inb, outb>>
session  == <<running, state, pending, case, sent>>

-----------------------------------------------------------------------------
(* The UDP reader.                                                          *)

UDPGet(b) ==
    /\ b \in Available(InBuffers)
    /\ pc["udp"] = "get"
    /\ Get("udp", b)
    /\ Goto("udp", "read")
    /\ UNCHANGED <<contents, queue, session, dropped, spent>>

\* ReadFromUDP over the start of buffer.in.
Read(b, d) == IF d.long THEN d ELSE [d EXCEPT !.padding = inb[b].padding]

\* A failed read of either reader, which tries again.
ReadFails(r) ==
    /\ pc[r] = "read"
    /\ Event
    /\ Put({hand[r]}) /\ Leave(r) /\ Goto(r, "get")
    /\ UNCHANGED <<queue, session, dropped>>

\* OnUDPPacket returns the buffer itself: a header that does not parse (a STUN
\* message among them), a sender that is not known, a punch, a stopped peer.
ReturnedAtOnce(m) ==
    \/ ~m.padding
    \/ m.type = "Punch"
    \/ m.type \in {"Handshake", "Data"} /\ ~m.known
    \/ m.type = "Data" /\ ~running

\* A datagram is read and OnUDPPacket looks at it: back into the pool, abandoned, or
\* on to a queue of the peer.
OnUDPPacket(d) ==
    LET b == hand["udp"]
        m == Read(b, d)
    IN /\ pc["udp"] = "read"
       /\ spent.datagrams < MaxDatagrams
       /\ spent' = [spent EXCEPT !.datagrams = @ + 1]
       /\ \/ /\ ReturnedAtOnce(m)
             /\ Put({b}) /\ Leave("udp") /\ Goto("udp", "get")
             /\ UNCHANGED dropped
          \/ /\ ~ReturnedAtOnce(m)
             /\ inb' = [inb EXCEPT ![b] = m]
             /\ IF running
                THEN /\ Goto("udp", IF m.type = "Data" THEN "inbound" ELSE "handshakes")
                     /\ UNCHANGED <<hand, dropped>>
                ELSE /\ Leave("udp") /\ Goto("udp", "get")
                     /\ dropped' = TRUE
             /\ UNCHANGED <<outb, pool>>
       /\ UNCHANGED <<queue, session>>

\* peer.handshakes <- buffer, which waits for room.
SendHandshakes ==
    /\ pc["udp"] = "handshakes" /\ Room("handshakes")
    /\ Push("handshakes", hand["udp"])
    /\ Leave("udp") /\ Goto("udp", "get")
    /\ UNCHANGED <<contents, pool, session, dropped, spent>>

\* Mutant: the channel is taken to have room.
InboundPacketUnchecked ==
    /\ pc["udp"] = "inbound"
    /\ Push("inbound", hand["udp"])
    /\ Leave("udp") /\ Goto("udp", "get")
    /\ UNCHANGED <<contents, pool, session, dropped, spent>>

\* The select of InboundPacket: a full channel abandons the buffer.
InboundPacket ==
    /\ pc["udp"] = "inbound"
    /\ IF Room("inbound")
       THEN Push("inbound", hand["udp"]) /\ UNCHANGED dropped
       ELSE dropped' = TRUE /\ UNCHANGED queue
    /\ Leave("udp") /\ Goto("udp", "get")
    /\ UNCHANGED <<contents, pool, session, spent>>

-----------------------------------------------------------------------------
(* The reader of the tun device.                                            *)

TunGet(b) ==
    /\ b \in Available(OutBuffers)
    /\ pc["tun"] = "get"
    /\ Get("tun", b)
    /\ Goto("tun", "read")
    /\ UNCHANGED <<contents, queue, session, dropped, spent>>

\* tun.Read and OnTunnelPacket: a packet for the peer goes on, one that is not IPv4,
\* for this node, outside the network or for nobody goes back.
OnTunnelPacket(p) ==
    LET b == hand["tun"] IN
    /\ pc["tun"] = "read"
    /\ spent.packets < MaxPackets
    /\ spent' = [spent EXCEPT !.packets = @ + 1]
    /\ IF p \in Packets /\ running
       THEN /\ outb' = [outb EXCEPT ![b] = [packet |-> p, size |-> 1]]
            /\ Goto("tun", "outbound")
            /\ UNCHANGED <<inb, pool, hand>>
       ELSE Put({b}) /\ Leave("tun") /\ Goto("tun", "get")
    /\ UNCHANGED <<queue, session, dropped>>

\* The select of OutboundPacket, and whether a handshake is due.
OutboundPacket ==
    /\ pc["tun"] = "outbound"
    /\ IF Room("outbound")
       THEN Push("outbound", hand["tun"]) /\ UNCHANGED dropped
       ELSE dropped' = TRUE /\ UNCHANGED queue
    /\ Leave("tun")
    /\ Goto("tun", IF state = 0 THEN "try" ELSE "get")
    /\ UNCHANGED <<contents, pool, session, spent>>

\* TrySendHandshake takes a buffer for the initiation, in the tun reader or in a
\* callback, and handshakeP1 sends it and puts it back.
TrySendHandshake(b) ==
    /\ b \in Available(OutBuffers)
    /\ Get("initiation", b)
    /\ \/ pc["tun"] = "try" /\ Goto("tun", "get") /\ UNCHANGED spent
       \/ Event /\ UNCHANGED pc
    /\ UNCHANGED <<contents, queue, session, dropped>>

HandshakeP1 ==
    /\ hand["initiation"] # NoBuffer
    /\ Put({hand["initiation"]}) /\ Leave("initiation")
    /\ UNCHANGED <<queue, pc, session, dropped, spent>>

-----------------------------------------------------------------------------
(* The routines of the peer.                                                *)

Reads(k) == CASE k = "Inbound" -> "inbound" [] k = "Outbound" -> "outbound"
              [] k = "Handshake" -> "handshakes"

\* Mutant: no handshake message is read while the session is up.
ReceiveOnce(k) ==
    /\ k = "Handshake" => state = 0
    /\ hand[k] = NoBuffer /\ queue[Reads(k)] # <<>>
    /\ hand' = [hand EXCEPT ![k] = Head(queue[Reads(k)])]
    /\ queue' = [queue EXCEPT ![Reads(k)] = Tail(@)]
    /\ case' = IF k = "Handshake" THEN state ELSE case
    /\ UNCHANGED <<contents, pool, pc, running, state, pending, sent, dropped, spent>>

\* The next buffer of a queue, with the state that Handshake finds.
Receive(k) ==
    /\ hand[k] = NoBuffer /\ queue[Reads(k)] # <<>>
    /\ hand' = [hand EXCEPT ![k] = Head(queue[Reads(k)])]
    /\ queue' = [queue EXCEPT ![Reads(k)] = Tail(@)]
    /\ case' = IF k = "Handshake" THEN state ELSE case
    /\ UNCHANGED <<contents, pool, pc, running, state, pending, sent, dropped, spent>>

\* Mutant: a message that does not decrypt is forgotten.
InboundKept ==
    /\ hand["Inbound"] # NoBuffer /\ ~pending
    /\ \/ Put({hand["Inbound"]})
       \/ UNCHANGED <<contents, pool>>
    /\ Leave("Inbound")
    /\ UNCHANGED <<queue, pc, session, dropped, spent>>

\* The body of Inbound: it ends with the buffer put back, decrypted or not.
Inbound ==
    /\ hand["Inbound"] # NoBuffer /\ ~pending
    /\ Put({hand["Inbound"]}) /\ Leave("Inbound")
    /\ UNCHANGED <<queue, pc, session, dropped, spent>>

\* The body of Outbound: packet[:size] is sent, unless it cannot be encrypted.
Outbound ==
    LET b == hand["Outbound"]
        payload == IF outb[b].size = 0 THEN "empty" ELSE outb[b].packet
    IN /\ b # NoBuffer /\ ~pending
       /\ sent' = sent \cup {payload}
       /\ Put({b}) /\ Leave("Outbound")
       /\ UNCHANGED <<queue, pc, running, state, pending, case, dropped, spent>>

\* Case 2 of Handshake takes pendingLock.
HandshakeLock ==
    /\ hand["Handshake"] # NoBuffer /\ case = 2 /\ ~pending
    /\ pending' = TRUE /\ case' = 3
    /\ UNCHANGED <<contents, pool, hand, queue, pc, running, state, sent, dropped, spent>>

\* handshakeP2 of a responder takes a buffer for its answer.
HandshakeAnswer(b) ==
    /\ hand["Handshake"] # NoBuffer /\ case # 2
    /\ b \in Available(OutBuffers)
    /\ Get("answer", b)
    /\ UNCHANGED <<contents, queue, pc, session, dropped, spent>>

\* Mutant: Handshake puts the buffer back that handshakeP2 has put back.
HandshakePutsAgain ==
    LET B == {hand["Handshake"], hand["answer"]} \ {NoBuffer} IN
    /\ hand["Handshake"] # NoBuffer /\ case # 2
    /\ pool' = [b \in Buffers |-> pool[b] + IF b = hand["Handshake"] THEN 2
                                             ELSE IF b \in B THEN 1 ELSE 0]
    /\ PutInboundBuffer(B) /\ PutOutboundBuffer(B)
    /\ hand' = [hand EXCEPT !["Handshake"] = NoBuffer, !["answer"] = NoBuffer]
    /\ state' = 2 /\ pending' = FALSE
    /\ UNCHANGED <<queue, pc, running, case, sent, dropped, spent>>

\* The end of handshakeP2, of an initiator or with the answer sent, puts both
\* buffers back; Handshake then opens the session.
Handshake ==
    LET B == {hand["Handshake"], hand["answer"]} \ {NoBuffer} IN
    /\ hand["Handshake"] # NoBuffer /\ case # 2
    /\ Put(B)
    /\ hand' = [hand EXCEPT !["Handshake"] = NoBuffer, !["answer"] = NoBuffer]
    /\ state' = 2 /\ pending' = FALSE
    /\ UNCHANGED <<queue, pc, running, case, sent, dropped, spent>>

-----------------------------------------------------------------------------
(* Timers, resets and stops.                                                *)

\* TXTimeout takes a buffer for a keepalive if outbound is empty.
TXTimeout(b) ==
    /\ Event
    /\ queue["outbound"] = <<>>
    /\ b \in Available(OutBuffers)
    /\ Get("TXTimeout", b)
    /\ UNCHANGED <<contents, queue, pc, session, dropped>>

TXQueue ==
    /\ hand["TXTimeout"] # NoBuffer /\ Room("outbound")
    /\ Push("outbound", hand["TXTimeout"])
    /\ Leave("TXTimeout")
    /\ UNCHANGED <<contents, pool, pc, session, dropped, spent>>

\* RXTimeout takes pendingLock and forgets the state.
RXTimeout ==
    /\ Event
    /\ state = 2 /\ ~pending
    /\ state' = 0 /\ pending' = TRUE
    /\ UNCHANGED <<contents, pool, hand, queue, pc, running, case, sent, dropped>>

Queued == UNION {{queue[q][i] : i \in DOMAIN queue[q]} : q \in Queues}

\* ResetState, in a callback or in Stop: flushQueues puts back what waits.
ResetState(stop) ==
    /\ Event
    /\ Put(Queued)
    /\ queue' = [q \in Queues |-> <<>>]
    /\ state' = 0
    /\ running' = (running /\ ~stop)
    /\ UNCHANGED <<hand, pc, pending, case, sent, dropped>>

\* Start, once the routines of the stopped peer are gone.
Start ==
    /\ ~running /\ \A k \in {"Inbound", "Outbound", "Handshake"} : hand[k] = NoBuffer
    /\ running' = TRUE /\ pending' = TRUE
    /\ UNCHANGED <<contents, pool, hand, queue, pc, state, case, sent, dropped, spent>>

UDPReader == SendHandshakes \/ InboundPacket
HandshakeRoutine == Receive("Handshake") \/ HandshakeLock \/ Handshake

Next ==
    \/ \E b \in Buffers : UDPGet(b) \/ TunGet(b) \/ TrySendHandshake(b) \/ HandshakeAnswer(b)
                            \/ TXTimeout(b)
    \/ \E r \in {"udp", "tun"} : ReadFails(r)
    \/ \E d \in Datagrams : OnUDPPacket(d)
    \/ \E p \in Packets \cup {"other"} : OnTunnelPacket(p)
    \/ UDPReader \/ OutboundPacket \/ HandshakeP1
    \/ HandshakeRoutine \/ Receive("Inbound") \/ Receive("Outbound")
    \/ Inbound \/ Outbound \/ TXQueue \/ RXTimeout \/ Start
    \/ \E stop \in BOOLEAN : ResetState(stop)

Spec == Init /\ [][Next]_vars

\* The UDP reader and the Handshake routine go on when they can.
FairSpec == Spec /\ WF_vars(UDPReader) /\ WF_vars(HandshakeRoutine)

-----------------------------------------------------------------------------
(* Properties.                                                              *)

\* Every variable has its type and no channel holds more than it was made for.
TypeOK ==
    /\ inb \in [InBuffers -> [type : {"None", "Handshake", "Data", "Punch"}, known : BOOLEAN,
                              padding : BOOLEAN, long : BOOLEAN]]
    /\ outb \in [OutBuffers -> [packet : Packets \cup {"zeros", "other"}, size : {0, 1}]]
    /\ pool \in [Buffers -> 0..2]
    /\ hand \in [Hands -> Buffers \cup {NoBuffer}]
    /\ \A q \in Queues : Len(queue[q]) <= IF q = "handshakes" THEN HandshakeChannelSize
                                                            ELSE ChannelSize
    /\ pc["udp"] \in {"get", "read", "inbound", "handshakes"}
    /\ pc["tun"] \in {"get", "read", "outbound", "try"}
    /\ {running, pending, dropped} \subseteq BOOLEAN /\ state \in {0, 2} /\ case \in {0, 2, 3}
    /\ sent \subseteq Packets \cup {"zeros", "other", "empty"}

\* How many places have the buffer b.
Owners(b) ==
    pool[b] + Cardinality({h \in Hands : hand[h] = b})
        + Cardinality({x \in Queues \X (1..(ChannelSize + HandshakeChannelSize)) :
                          x[2] \in DOMAIN queue[x[1]] /\ queue[x[1]][x[2]] = b})

\* No buffer is in two places: a buffer put back twice, or put back and still used,
\* would carry the data of two peers.
SingleOwner == \A b \in Buffers : Owners(b) <= 1

\* Every path gives its buffer back, flushes and failed decryptions included; only a
\* full channel, and a handshake message for a peer that is not running, lose one.
NothingLost == ~dropped => \A b \in Buffers : Owners(b) >= 1

\* A routine never sees a datagram shorter than a header, which it would slice out
\* of bounds: Parse refuses it because the rest of the buffer was cleared.
LongEnough ==
    \A b \in InBuffers :
        (b \in Queued \/ b \in {hand["Inbound"], hand["Handshake"]}) => inb[b].long

\* Outbound sends what was read from the tun device or an empty keepalive, never the
\* rest of an earlier packet or bytes that nobody wrote.
OnlyWhatWasRead == sent \subseteq Packets \cup {"empty"}

\* What Put clears, or leaves, of a buffer never shows in its next use.
BuffersClean == TypeOK /\ LongEnough /\ OnlyWhatWasRead

\* The UDP reader, which serves all peers, is held up by the handshakes of one peer
\* only as long as the Handshake routine of that peer waits for a pendingLock that
\* RXTimeout took after the routine had found the session up.
ReaderReturns ==
    (pc["udp"] = "handshakes") ~>
        (pc["udp"] # "handshakes" \/ (hand["Handshake"] # NoBuffer /\ case = 2 /\ pending))
===============================================================================
