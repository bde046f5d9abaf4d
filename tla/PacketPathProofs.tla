--------------------------- MODULE PacketPathProofs ---------------------------
(***************************************************************************)
(* Theorems about PacketPath, for any number of buffers, any capacity of    *)
(* the channels and any number of datagrams, packets and events.            *)
(***************************************************************************)
EXTENDS PacketPath, Integers, FiniteSetTheorems, TLAPS

InHands  == {"udp", "Inbound", "Handshake"}
InQueues == {"inbound", "handshakes"}

\* Inbound buffers are where inbound buffers belong, and outbound ones likewise.
Sorted ==
    /\ queue \in [Queues -> Seq(Buffers)]
    /\ \A q \in Queues : \A i \in DOMAIN queue[q] :
          queue[q][i] \in IF q \in InQueues THEN InBuffers ELSE OutBuffers
    /\ hand \in [Hands -> Buffers \cup {NoBuffer}]
    /\ \A h \in Hands : hand[h] # NoBuffer => hand[h] \in IF h \in InHands THEN InBuffers ELSE OutBuffers

\* A buffer is in its pool once, or in one hand, or at one place of one queue.
OnePlace ==
    /\ pool \in [Buffers -> {0, 1}]
    /\ \A h \in Hands : hand[h] # NoBuffer => pool[hand[h]] = 0
    /\ \A h, k \in Hands : hand[h] = hand[k] /\ hand[h] # NoBuffer => h = k
    /\ \A q \in Queues : \A i \in DOMAIN queue[q] :
          pool[queue[q][i]] = 0 /\ \A h \in Hands : hand[h] # queue[q][i]
    /\ \A q, r \in Queues : \A i \in DOMAIN queue[q], j \in DOMAIN queue[r] :
          queue[q][i] = queue[r][j] => q = r /\ i = j

Somewhere(b) ==
    \/ pool[b] = 1
    \/ \E h \in Hands : hand[h] = b
    \/ \E q \in Queues : \E i \in DOMAIN queue[q] : queue[q][i] = b

SomePlace == ~dropped => \A b \in Buffers : Somewhere(b)

Places == Sorted /\ OnePlace /\ SomePlace

\* A reader has a buffer exactly from get to its queue.
Readers ==
    /\ pc \in [{"udp", "tun"} -> {"get", "read", "inbound", "handshakes", "outbound", "try"}]
    /\ pc["udp"] \in {"get", "read", "inbound", "handshakes"}
    /\ pc["tun"] \in {"get", "read", "outbound", "try"}
    /\ pc["udp"] # "get" => hand["udp"] # NoBuffer
    /\ pc["tun"] \in {"read", "outbound"} => hand["tun"] # NoBuffer

\* The routines that slice a header out of b, now or later.
Served(b) ==
    \/ \E q \in Queues : \E i \in DOMAIN queue[q] : queue[q][i] = b
    \/ b \in {hand["Inbound"], hand["Handshake"]}

\* A buffer in its pool was cleared; the reader's is until it has read, and what goes
\* on to a routine is a whole header.
Clean ==
    /\ inb \in [InBuffers -> [type : {"None", "Handshake", "Data", "Punch"}, known : BOOLEAN,
                              padding : BOOLEAN, long : BOOLEAN]]
    /\ outb \in [OutBuffers -> [packet : Packets \cup {"zeros", "other"}, size : {0, 1}]]
    /\ \A b \in InBuffers : pool[b] = 1 => inb[b] = Cleared
    /\ pc["udp"] = "read" => inb[hand["udp"]] = Cleared
    /\ pc["udp"] \in {"inbound", "handshakes"} => inb[hand["udp"]].long
    /\ \A b \in InBuffers : Served(b) => inb[b].long
    /\ \A b \in OutBuffers : outb[b].size = 1 => outb[b].packet \in Packets

Capacity(q) == IF q = "handshakes" THEN HandshakeChannelSize ELSE ChannelSize

Control ==
    /\ \A q \in Queues : Len(queue[q]) <= Capacity(q)
    /\ {running, pending, dropped} \subseteq BOOLEAN /\ state \in {0, 2} /\ case \in {0, 2, 3}
    /\ OnlyWhatWasRead

\* An inductive invariant for SingleOwner, NothingLost and BuffersClean.
PathInv == Places /\ Readers /\ Clean /\ Control

-----------------------------------------------------------------------------
(* How buffers move.                                                        *)

\* A buffer from its pool into a hand.
LEMMA GetMoves ==
    ASSUME Places, NEW h \in Hands, NEW b \in IF h \in InHands THEN InBuffers ELSE OutBuffers,
           pool[b] > 0, Get(h, b), UNCHANGED <<queue, dropped>>
    PROVE  Places' /\ (\A x \in Buffers : pool'[x] = 1 => pool[x] = 1)
           /\ pool[b] = 1 /\ hand'[h] = b /\ \A k \in Hands : k # h => hand'[k] = hand[k]
<1> USE PacketPathAssumption DEF Places
<1>1. b \in Buffers /\ b # NoBuffer
  BY DEF Buffers
<1>2. pool[b] = 1 /\ pool'[b] = 0 /\ (\A x \in Buffers : x # b => pool'[x] = pool[x]) /\ pool' \in [Buffers -> {0, 1}]
  BY <1>1 DEF Get, OnePlace
<1>3. /\ hand[h] = NoBuffer /\ hand'[h] = b /\ (\A k \in Hands : k # h => hand'[k] = hand[k])
      /\ hand' \in [Hands -> Buffers \cup {NoBuffer}]
  BY <1>1 DEF Get, Sorted
<1>4. Sorted'
  BY <1>3 DEF Sorted
<1>5. /\ \A k \in Hands : hand[k] # b
      /\ \A q \in Queues : \A i \in DOMAIN queue[q] : queue[q][i] # b
  BY <1>1, <1>2 DEF OnePlace
<1>6. \A q \in Queues : \A i \in DOMAIN queue[q] : queue[q][i] \in Buffers
  BY DEF Sorted
<1>7. OnePlace'
  <2>1. \A k \in Hands : hand'[k] # NoBuffer => pool'[hand'[k]] = 0
    BY <1>1, <1>2, <1>3, <1>5 DEF OnePlace, Sorted
  <2>2. \A k, l \in Hands : hand'[k] = hand'[l] /\ hand'[k] # NoBuffer => k = l
    BY <1>3, <1>5 DEF OnePlace
  <2>3. \A q \in Queues : \A i \in DOMAIN queue[q] :
          pool'[queue[q][i]] = 0 /\ \A k \in Hands : hand'[k] # queue[q][i]
    BY <1>2, <1>3, <1>5, <1>6 DEF OnePlace
  <2> QED
    BY <1>2, <2>1, <2>2, <2>3 DEF OnePlace
<1>8. SomePlace'
  BY <1>1, <1>2, <1>3 DEF SomePlace, Somewhere
<1> QED
  BY <1>2, <1>3, <1>4, <1>7, <1>8

\* The buffers of some hands back into their pools.
LEMMA PutMoves ==
    ASSUME Places, NEW H \in SUBSET Hands, NEW B, B = {hand[h] : h \in H} \ {NoBuffer}, Add(B),
           hand' = [h \in Hands |-> IF h \in H THEN NoBuffer ELSE hand[h]], UNCHANGED <<queue, dropped>>
    PROVE  Places' /\ B \subseteq Buffers /\ \A b \in Buffers : b \in B => pool'[b] = 1
<1> USE PacketPathAssumption DEF Places
<1>1. B \subseteq Buffers /\ (\A b \in B : pool[b] = 0 /\ \E h \in H : hand[h] = b) /\ NoBuffer \notin Buffers
  BY DEF Sorted, OnePlace
<1>2. /\ pool' \in [Buffers -> {0, 1}] /\ (\A b \in B : pool'[b] = 1)
      /\ \A b \in Buffers : b \notin B => pool'[b] = pool[b]
  BY <1>1 DEF Add, OnePlace
<1>3. \A h \in Hands : /\ h \in H => hand'[h] = NoBuffer
                       /\ h \notin H => hand'[h] = hand[h] /\ hand[h] \notin B
  BY <1>1 DEF OnePlace
<1>4. Sorted'
  <2>1. hand' \in [Hands -> Buffers \cup {NoBuffer}]
    BY DEF Sorted
  <2> QED
    BY <1>3, <2>1 DEF Sorted
<1>5. \A q \in Queues : \A i \in DOMAIN queue[q] : queue[q][i] \in Buffers /\ queue[q][i] \notin B
  BY <1>1 DEF Sorted, OnePlace
<1>6. OnePlace'
  <2>1. \A k \in Hands : hand'[k] # NoBuffer => pool'[hand'[k]] = 0
    BY <1>2, <1>3 DEF OnePlace, Sorted
  <2>2. \A k, l \in Hands : hand'[k] = hand'[l] /\ hand'[k] # NoBuffer => k = l
    BY <1>3 DEF OnePlace
  <2>3. \A q \in Queues : \A i \in DOMAIN queue[q] :
          pool'[queue[q][i]] = 0 /\ \A k \in Hands : hand'[k] # queue[q][i]
    BY <1>1, <1>2, <1>3, <1>5 DEF OnePlace
  <2> QED
    BY <1>2, <2>1, <2>2, <2>3 DEF OnePlace
<1>7. SomePlace'
  <2> SUFFICES ASSUME ~dropped, NEW b \in Buffers, b \notin B PROVE Somewhere(b)'
    BY <1>2 DEF SomePlace, Somewhere
  <2>1. Somewhere(b)
    BY DEF SomePlace
  <2>2. \A h \in Hands : hand[h] = b => hand'[h] = b
    BY <1>1, <1>3
  <2> QED
    BY <1>2, <2>1, <2>2 DEF Somewhere
<1> QED
  BY <1>1, <1>2, <1>4, <1>6, <1>7

\* A buffer that is abandoned.
LEMMA DropMoves ==
    ASSUME Places, NEW h \in Hands, Leave(h), UNCHANGED <<pool, queue>>, dropped' = TRUE
    PROVE  Places'
<1> USE PacketPathAssumption DEF Places
<1>1. /\ hand' \in [Hands -> Buffers \cup {NoBuffer}] /\ hand'[h] = NoBuffer
      /\ \A k \in Hands : k # h => hand'[k] = hand[k]
  BY DEF Leave, Sorted
<1>2. Sorted'
  BY <1>1 DEF Sorted
<1>3. NoBuffer \notin Buffers /\ \A q \in Queues : \A i \in DOMAIN queue[q] : queue[q][i] \in Buffers
  BY DEF Sorted
<1>4. OnePlace'
  BY <1>1, <1>3 DEF OnePlace
<1>5. SomePlace'
  BY DEF SomePlace
<1> QED
  BY <1>2, <1>4, <1>5

\* The effect of a send on a channel.
LEMMA Pushed ==
    ASSUME queue \in [Queues -> Seq(Buffers)], NEW q \in Queues, NEW b \in Buffers, Push(q, b)
    PROVE  LET n == Len(queue[q]) + 1 IN
           /\ queue' \in [Queues -> Seq(Buffers)]
           /\ Len(queue'[q]) = n
           /\ DOMAIN queue'[q] = DOMAIN queue[q] \cup {n} /\ n \notin DOMAIN queue[q]
           /\ queue'[q][n] = b /\ \A i \in DOMAIN queue[q] : queue'[q][i] = queue[q][i]
           /\ \A r \in Queues : r # q => queue'[r] = queue[r]
<1>1. queue[q] \in Seq(Buffers)
  OBVIOUS
<1>2. queue'[q] = Append(queue[q], b) /\ \A r \in Queues : r # q => queue'[r] = queue[r]
  BY DEF Push
<1>3. Append(queue[q], b) \in Seq(Buffers)
  BY <1>1
<1>4. queue' \in [Queues -> Seq(Buffers)]
  BY <1>3 DEF Push
<1> QED
  BY <1>1, <1>2, <1>4

\* A buffer from a hand to the end of a queue of its kind.
LEMMA PushMoves ==
    ASSUME Places, NEW h \in Hands, NEW q \in Queues, hand[h] # NoBuffer,
           (h \in InHands) <=> (q \in InQueues),
           Push(q, hand[h]), Leave(h), UNCHANGED <<pool, dropped>>
    PROVE  /\ Places' /\ Len(queue'[q]) = Len(queue[q]) + 1
           /\ \A r \in Queues : r # q => queue'[r] = queue[r]
           /\ \A b \in Buffers : Served(b)' => Served(b) \/ b = hand[h]
<1> USE PacketPathAssumption DEF Places
<1> DEFINE n == Len(queue[q]) + 1
           b == hand[h]
<1>1. b \in Buffers /\ queue \in [Queues -> Seq(Buffers)]
  BY DEF Sorted
<1>2. /\ queue' \in [Queues -> Seq(Buffers)]
      /\ Len(queue'[q]) = n
      /\ DOMAIN queue'[q] = DOMAIN queue[q] \cup {n} /\ n \notin DOMAIN queue[q]
      /\ queue'[q][n] = b /\ \A i \in DOMAIN queue[q] : queue'[q][i] = queue[q][i]
      /\ \A r \in Queues : r # q => queue'[r] = queue[r]
  BY <1>1, Pushed
<1>3. /\ hand' \in [Hands -> Buffers \cup {NoBuffer}] /\ hand'[h] = NoBuffer
      /\ \A k \in Hands : k # h => hand'[k] = hand[k]
  BY DEF Leave, Sorted
<1>4. b \in IF q \in InQueues THEN InBuffers ELSE OutBuffers
  BY DEF Sorted
<1>5. NoBuffer \notin Buffers /\ \A r \in Queues : \A i \in DOMAIN queue[r] : queue[r][i] \in Buffers /\ queue[r][i] # b
  BY DEF Sorted, OnePlace
<1>6. pool[b] = 0 /\ \A k \in Hands : k # h => hand[k] # b
  BY DEF OnePlace
<1> HIDE DEF n, b
<1>7. \A r \in Queues : \A i \in DOMAIN queue'[r] :
         \/ i \in DOMAIN queue[r] /\ queue'[r][i] = queue[r][i]
         \/ r = q /\ i = n /\ queue'[r][i] = b
  BY <1>2
<1>8. Sorted'
  <2>1. \A r \in Queues : \A i \in DOMAIN queue'[r] :
          queue'[r][i] \in IF r \in InQueues THEN InBuffers ELSE OutBuffers
    BY <1>4, <1>7 DEF Sorted
  <2>2. \A k \in Hands : hand'[k] # NoBuffer => hand'[k] \in IF k \in InHands THEN InBuffers ELSE OutBuffers
    BY <1>3 DEF Sorted
  <2> QED
    BY <1>2, <1>3, <2>1, <2>2 DEF Sorted
<1>9. OnePlace'
  <2>1. \A k \in Hands : hand'[k] # NoBuffer => pool[hand'[k]] = 0
    BY <1>3 DEF OnePlace
  <2>2. \A k, l \in Hands : hand'[k] = hand'[l] /\ hand'[k] # NoBuffer => k = l
    BY <1>3 DEF OnePlace
  <2>3. \A r \in Queues : \A i \in DOMAIN queue'[r] :
          pool[queue'[r][i]] = 0 /\ \A k \in Hands : hand'[k] # queue'[r][i]
    <3> SUFFICES ASSUME NEW r \in Queues, NEW i \in DOMAIN queue'[r]
                 PROVE  pool[queue'[r][i]] = 0 /\ \A k \in Hands : hand'[k] # queue'[r][i]
      OBVIOUS
    <3>1. CASE i \in DOMAIN queue[r] /\ queue'[r][i] = queue[r][i]
      BY <1>3, <1>5, <3>1 DEF OnePlace
    <3>2. CASE queue'[r][i] = b
      BY <1>1, <1>3, <1>5, <1>6, <3>2
    <3> QED
      BY <1>7, <3>1, <3>2
  <2>4. \A r, s \in Queues : \A i \in DOMAIN queue'[r], j \in DOMAIN queue'[s] :
          queue'[r][i] = queue'[s][j] => r = s /\ i = j
    BY <1>5, <1>7 DEF OnePlace
  <2> QED
    BY <2>1, <2>2, <2>3, <2>4 DEF OnePlace
<1>10. SomePlace'
  <2> SUFFICES ASSUME ~dropped, NEW x \in Buffers PROVE Somewhere(x)'
    BY DEF SomePlace
  <2>1. CASE x = b
    BY <1>2, <2>1 DEF Somewhere
  <2>2. CASE x # b
    <3>1. Somewhere(x)
      BY DEF SomePlace
    <3>2. \A k \in Hands : hand[k] = x => hand'[k] = x
      BY <1>3, <2>2 DEF b
    <3>3. \A r \in Queues : \A i \in DOMAIN queue[r] : i \in DOMAIN queue'[r] /\ queue'[r][i] = queue[r][i]
      BY <1>2
    <3> QED
      BY <3>1, <3>2, <3>3 DEF Somewhere
  <2> QED
    BY <2>1, <2>2
<1>11. \A x \in Buffers : Served(x)' => Served(x) \/ x = b
  BY <1>3, <1>5, <1>7 DEF Served, Hands
<1> QED
  BY <1>2, <1>8, <1>9, <1>10, <1>11 DEF n, b

\* The first buffer of a queue into the hand of the routine that reads it.
LEMMA ReceiveMoves ==
    ASSUME Places, NEW k \in {"Inbound", "Outbound", "Handshake"}, Receive(k)
    PROVE  /\ Places' /\ (\A q \in Queues : Len(queue'[q]) <= Len(queue[q]))
           /\ hand'[k] # NoBuffer /\ (\A h \in Hands : h # k => hand'[h] = hand[h])
           /\ \A b \in Buffers : Served(b)' => Served(b)
<1> USE PacketPathAssumption DEF Places
<1> DEFINE q == Reads(k)
           b == queue[q][1]
<1>1. q \in Queues /\ k \in Hands /\ ((k \in InHands) <=> (q \in InQueues))
  BY DEF Reads, Queues, Hands, InHands, InQueues
<1>2. /\ hand[k] = NoBuffer /\ queue[q] # <<>> /\ hand' = [hand EXCEPT ![k] = Head(queue[q])]
      /\ queue' = [queue EXCEPT ![q] = Tail(queue[q])] /\ UNCHANGED <<pool, dropped>>
  BY DEF Receive
<1>3. queue[q] \in Seq(Buffers) /\ Len(queue[q]) \in Nat
  BY <1>1 DEF Sorted
<1> HIDE DEF q
<1>4. /\ 1 \in DOMAIN queue[q] /\ Head(queue[q]) = b /\ b \in Buffers
      /\ Tail(queue[q]) \in Seq(Buffers) /\ Len(Tail(queue[q])) = Len(queue[q]) - 1
      /\ DOMAIN queue[q] = 1..Len(queue[q]) /\ DOMAIN Tail(queue[q]) = 1..(Len(queue[q]) - 1)
      /\ \A i \in 1..(Len(queue[q]) - 1) : Tail(queue[q])[i] = queue[q][i + 1]
  BY <1>2, <1>3
<1>5. /\ queue'[q] = Tail(queue[q]) /\ (\A r \in Queues : r # q => queue'[r] = queue[r])
      /\ queue' \in [Queues -> Seq(Buffers)]
  BY <1>1, <1>2, <1>4 DEF Sorted
<1>6. /\ hand'[k] = b /\ (\A h \in Hands : h # k => hand'[h] = hand[h])
      /\ hand' \in [Hands -> Buffers \cup {NoBuffer}]
  BY <1>1, <1>2, <1>4 DEF Sorted
<1> DEFINE from(r, i) == IF r = q THEN i + 1 ELSE i
<1>7. \A r \in Queues : \A i \in DOMAIN queue'[r] :
         /\ from(r, i) \in DOMAIN queue[r] /\ queue'[r][i] = queue[r][from(r, i)]
         /\ r = q => from(r, i) # 1 /\ i \in Int
  <2> SUFFICES ASSUME NEW r \in Queues, NEW i \in DOMAIN queue'[r]
               PROVE  /\ from(r, i) \in DOMAIN queue[r] /\ queue'[r][i] = queue[r][from(r, i)]
                      /\ r = q => from(r, i) # 1 /\ i \in Int
    OBVIOUS
  <2>1. CASE r = q
    <3>1. i \in 1..(Len(queue[q]) - 1)
      BY <1>4, <1>5, <2>1
    <3>2. i + 1 \in 1..Len(queue[q]) /\ i + 1 # 1 /\ i \in Int
      BY <1>3, <3>1
    <3> QED
      BY <1>4, <1>5, <2>1, <3>1, <3>2
  <2>2. CASE r # q
    BY <1>5, <2>2
  <2> QED
    BY <2>1, <2>2
<1>8. b \in (IF k \in InHands THEN InBuffers ELSE OutBuffers) /\ b # NoBuffer /\ NoBuffer \notin Buffers
      /\ pool[b] = 0 /\ \A h \in Hands : hand[h] # b
  BY <1>1, <1>4 DEF Sorted, OnePlace
<1> HIDE DEF b
<1>9. \A r \in Queues : \A i \in DOMAIN queue[r] : queue[r][i] = b => r = q /\ i = 1
  BY <1>1, <1>4 DEF OnePlace, b
<1>10. Sorted'
  <2>1. \A r \in Queues : \A i \in DOMAIN queue'[r] :
          queue'[r][i] \in IF r \in InQueues THEN InBuffers ELSE OutBuffers
    <3> HIDE DEF from
    <3> QED
      BY <1>7 DEF Sorted
  <2>2. \A h \in Hands : hand'[h] # NoBuffer => hand'[h] \in IF h \in InHands THEN InBuffers ELSE OutBuffers
    BY <1>6, <1>8 DEF Sorted
  <2> QED
    BY <1>5, <1>6, <2>1, <2>2 DEF Sorted
<1>11. \A r \in Queues : \A i \in DOMAIN queue'[r] : queue'[r][i] # b
  BY <1>7, <1>9
<1>12. OnePlace'
  <2>1. \A h \in Hands : hand'[h] # NoBuffer => pool[hand'[h]] = 0
    BY <1>6, <1>8 DEF OnePlace
  <2>2. \A h, l \in Hands : hand'[h] = hand'[l] /\ hand'[h] # NoBuffer => h = l
    BY <1>6, <1>8 DEF OnePlace
  <2>3. \A r \in Queues : \A i \in DOMAIN queue'[r] :
          pool[queue'[r][i]] = 0 /\ \A h \in Hands : hand'[h] # queue'[r][i]
    <3> HIDE DEF from
    <3> QED
      BY <1>6, <1>7, <1>11 DEF OnePlace
  <2>4. \A r, s \in Queues : \A i \in DOMAIN queue'[r], j \in DOMAIN queue'[s] :
          queue'[r][i] = queue'[s][j] => r = s /\ i = j
    <3> SUFFICES ASSUME NEW r \in Queues, NEW s \in Queues, NEW i \in DOMAIN queue'[r], NEW j \in DOMAIN queue'[s],
                        queue'[r][i] = queue'[s][j]
                 PROVE  r = s /\ i = j
      OBVIOUS
    <3>1. r = s /\ from(r, i) = from(s, j)
      <4> HIDE DEF from
      <4> QED
        BY <1>7 DEF OnePlace
    <3> QED
      BY <1>7, <3>1
  <2> QED
    BY <1>2, <2>1, <2>2, <2>3, <2>4 DEF OnePlace
<1>13. SomePlace'
  <2> SUFFICES ASSUME ~dropped, NEW x \in Buffers, x # b PROVE Somewhere(x)'
    BY <1>1, <1>2, <1>6 DEF SomePlace, Somewhere
  <2>1. Somewhere(x)
    BY DEF SomePlace
  <2>2. \A h \in Hands : hand[h] = x => hand'[h] = x
    BY <1>2, <1>6, PacketPathAssumption
  <2>3. ASSUME NEW r \in Queues, NEW i \in DOMAIN queue[r], queue[r][i] = x
        PROVE  \E j \in DOMAIN queue'[r] : queue'[r][j] = x
    <3>1. CASE r # q
      BY <1>5, <2>3, <3>1
    <3>2. CASE r = q
      <4>1. i \in 1..Len(queue[q]) /\ i # 1
        BY <1>4, <2>3, <3>2 DEF b
      <4>2. i - 1 \in 1..(Len(queue[q]) - 1) /\ (i - 1) + 1 = i
        BY <1>3, <4>1
      <4> QED
        BY <1>4, <1>5, <2>3, <3>2, <4>2
    <3> QED
      BY <3>1, <3>2
  <2> QED
    BY <1>2, <2>1, <2>2, <2>3 DEF Somewhere
<1>14. \A r \in Queues : Len(queue'[r]) <= Len(queue[r])
  <2> SUFFICES ASSUME NEW r \in Queues PROVE Len(queue'[r]) <= Len(queue[r])
    OBVIOUS
  <2>1. queue[r] \in Seq(Buffers) /\ Len(queue[r]) \in Nat
    BY DEF Sorted
  <2>2. CASE r = q
    <3>1. Len(queue'[r]) = Len(queue[r]) - 1
      BY <1>4, <1>5, <2>2
    <3> QED
      BY <2>1, <3>1
  <2>3. CASE r # q
    BY <1>5, <2>1, <2>3
  <2> QED
    BY <2>2, <2>3
<1>15. \A x \in Buffers : Served(x)' => Served(x)
  <2> SUFFICES ASSUME NEW x \in Buffers, Served(x)' PROVE Served(x)
    OBVIOUS
  <2>1. CASE \E r \in Queues : \E i \in DOMAIN queue'[r] : queue'[r][i] = x
    <3> HIDE DEF from
    <3> QED
      BY <1>7, <2>1 DEF Served
  <2>2. CASE x = b
    BY <1>1, <1>4, <2>2 DEF Served, b
  <2>3. CASE x # b /\ x \in {hand'["Inbound"], hand'["Handshake"]}
    BY <1>6, <2>3 DEF Served, Hands
  <2> QED
    BY <2>1, <2>2, <2>3 DEF Served
<1> QED
  BY <1>6, <1>8, <1>10, <1>12, <1>13, <1>14, <1>15

\* Everything that waits in a queue back into its pool.
LEMMA FlushMoves ==
    ASSUME Places, Add(Queued), queue' = [q \in Queues |-> <<>>], UNCHANGED <<hand, dropped>>
    PROVE  Places' /\ Queued \subseteq Buffers /\ \A b \in Buffers : b \in Queued => pool'[b] = 1
<1> USE PacketPathAssumption DEF Places
<1>1. \A b : b \in Queued <=> \E q \in Queues : \E i \in DOMAIN queue[q] : queue[q][i] = b
  BY DEF Queued
<1>2. Queued \subseteq Buffers /\ \A b \in Queued : pool[b] = 0 /\ \A h \in Hands : hand[h] # b
  BY <1>1 DEF Sorted, OnePlace
<1>3. /\ pool' \in [Buffers -> {0, 1}] /\ (\A b \in Queued : pool'[b] = 1)
      /\ \A b \in Buffers : b \notin Queued => pool'[b] = pool[b]
  BY <1>2 DEF Add, OnePlace
<1>4. queue' \in [Queues -> Seq(Buffers)] /\ \A q \in Queues : DOMAIN queue'[q] = {}
  OBVIOUS
<1>5. Sorted'
  BY <1>4 DEF Sorted
<1>6. \A h \in Hands : hand[h] # NoBuffer => hand[h] \in Buffers /\ hand[h] \notin Queued
  BY <1>2 DEF Sorted
<1>7. OnePlace'
  BY <1>3, <1>4, <1>6 DEF OnePlace
<1>8. SomePlace'
  BY <1>1, <1>3 DEF SomePlace, Somewhere
<1> QED
  BY <1>2, <1>3, <1>5, <1>7, <1>8

-----------------------------------------------------------------------------
(* What the buffers hold.                                                   *)

\* The UDP reader stays where it is, or starts again.
ReaderStays == pc'["udp"] = "get" \/ (pc'["udp"] = pc["udp"] /\ hand'["udp"] = hand["udp"])

\* A step that writes no buffer.
LEMMA KeepsContents ==
    ASSUME PathInv, UNCHANGED contents, \A b \in Buffers : pool'[b] = 1 => pool[b] = 1,
           \A b \in InBuffers : Served(b)' => Served(b) \/ inb[b].long,
           ReaderStays \/ (pc'["udp"] = "read" /\ inb[hand'["udp"]] = Cleared)
    PROVE  Clean'
<1>1. UNCHANGED <<inb, outb>>
  BY DEF contents
<1>2. \A b \in InBuffers : b \in Buffers
  BY DEF Buffers
<1>3. /\ pc'["udp"] = "read" => inb[hand'["udp"]] = Cleared
      /\ pc'["udp"] \in {"inbound", "handshakes"} => inb[hand'["udp"]].long
  BY DEF PathInv, Clean, ReaderStays
<1> QED
  BY <1>1, <1>2, <1>3 DEF PathInv, Clean

\* A step that puts buffers back: they are cleared, and nobody sees them.
LEMMA PutContents ==
    ASSUME PathInv, NEW B \in SUBSET Buffers, Put(B), Places', Readers', \A b \in B : pool'[b] = 1,
           \A b \in InBuffers : Served(b)' => Served(b), ReaderStays
    PROVE  Clean'
<1> USE PacketPathAssumption
<1>1. /\ \A b \in InBuffers : /\ b \in B => inb'[b] = Cleared
                              /\ b \notin B => inb'[b] = inb[b] /\ pool'[b] = pool[b]
      /\ \A b \in OutBuffers : /\ b \in B => outb'[b] = Blank
                               /\ b \notin B => outb'[b] = outb[b]
  BY DEF Put, Add, PutInboundBuffer, PutOutboundBuffer, Buffers
<1>2. /\ inb' \in [InBuffers -> [type : {"None", "Handshake", "Data", "Punch"}, known : BOOLEAN,
                              padding : BOOLEAN, long : BOOLEAN]]
      /\ outb' \in [OutBuffers -> [packet : Packets \cup {"zeros", "other"}, size : {0, 1}]]
  BY DEF PathInv, Clean, Put, PutInboundBuffer, PutOutboundBuffer, Cleared, Blank
<1>3. \A b \in InBuffers : pool'[b] = 1 => inb'[b] = Cleared
  BY <1>1 DEF PathInv, Clean
<1>4. pc'["udp"] # "get" => hand'["udp"] \in InBuffers /\ hand'["udp"] \notin B /\ pc'["udp"] = pc["udp"] /\ hand'["udp"] = hand["udp"]
  <2> SUFFICES ASSUME pc'["udp"] # "get"
               PROVE  hand'["udp"] \in InBuffers /\ hand'["udp"] \notin B /\ pc'["udp"] = pc["udp"] /\ hand'["udp"] = hand["udp"]
    OBVIOUS
  <2>1. hand'["udp"] # NoBuffer
    BY DEF Readers
  <2>2. hand'["udp"] \in InBuffers
    BY <2>1 DEF Places, Sorted, Hands, InHands
  <2>3. pool'[hand'["udp"]] = 0
    BY <2>1 DEF Places, OnePlace, Hands
  <2> QED
    BY <2>2, <2>3 DEF ReaderStays
<1>5. \A b \in InBuffers : Served(b)' => b \notin B
  <2> SUFFICES ASSUME NEW b \in InBuffers, Served(b)' PROVE pool'[b] = 0
    OBVIOUS
  <2>1. b # NoBuffer
    BY DEF Buffers
  <2> QED
    BY <2>1 DEF Served, Places, OnePlace, Hands
<1>6. \A b \in InBuffers : Served(b)' => inb'[b].long
  BY <1>1, <1>5 DEF PathInv, Clean
<1>7. /\ pc'["udp"] = "read" => inb'[hand'["udp"]] = Cleared
      /\ pc'["udp"] \in {"inbound", "handshakes"} => inb'[hand'["udp"]].long
  BY <1>1, <1>4 DEF PathInv, Clean
<1>8. \A b \in OutBuffers : outb'[b].size = 1 => outb'[b].packet \in Packets
  BY <1>1 DEF PathInv, Clean, Blank
<1> QED
  BY <1>2, <1>3, <1>6, <1>7, <1>8 DEF Clean

\* One hand puts its buffer back.
LEMMA HandPuts ==
    ASSUME PathInv, NEW h \in Hands, hand[h] # NoBuffer, Put({hand[h]}), Leave(h), Readers', Control',
           UNCHANGED <<queue, dropped>>, h = "udp" => pc'["udp"] = "get", h # "udp" => pc'["udp"] = pc["udp"]
    PROVE  PathInv'
<1> USE PacketPathAssumption
<1> DEFINE B == {hand[h]}
<1>1. Places /\ Add(B)
  BY DEF PathInv, Put
<1>2. B = {hand[k] : k \in {h}} \ {NoBuffer}
  OBVIOUS
<1>3. hand' = [k \in Hands |-> IF k \in {h} THEN NoBuffer ELSE hand[k]]
  BY <1>1 DEF Leave, Places, Sorted
<1>4. Places' /\ B \subseteq Buffers /\ \A b \in Buffers : b \in B => pool'[b] = 1
  <2> HIDE DEF B
  <2> QED
    BY <1>1, <1>2, <1>3, PutMoves
<1>5. \A b \in InBuffers : Served(b)' => Served(b)
  BY <1>3 DEF Served, Hands, Buffers
<1>6. ReaderStays
  BY <1>3 DEF ReaderStays, Hands
<1>7. Clean'
  BY <1>4, <1>5, <1>6, PutContents
<1> QED
  BY <1>4, <1>7 DEF PathInv

\* One hand takes a buffer.
LEMMA HandGets ==
    ASSUME PathInv, NEW h \in Hands, NEW b \in IF h \in InHands THEN InBuffers ELSE OutBuffers,
           pool[b] > 0, Get(h, b), UNCHANGED <<contents, queue, session, dropped>>,
           h \in {"udp", "tun", "answer", "TXTimeout", "initiation"},
           h = "udp" => pc' = [pc EXCEPT !["udp"] = "read"],
           h = "tun" => pc' = [pc EXCEPT !["tun"] = "read"],
           h \notin {"udp", "tun"} => pc' \in {pc, [pc EXCEPT !["tun"] = "get"]}
    PROVE  PathInv'
<1> USE PacketPathAssumption
<1>1. /\ Places' /\ (\A x \in Buffers : pool'[x] = 1 => pool[x] = 1)
      /\ pool[b] = 1 /\ hand'[h] = b /\ \A k \in Hands : k # h => hand'[k] = hand[k]
  BY GetMoves DEF PathInv
<1>2. b # NoBuffer
  BY DEF Buffers
<1>3. Readers'
  BY <1>1, <1>2 DEF PathInv, Readers, Hands
<1>4. Control'
  BY DEF PathInv, Control, session, OnlyWhatWasRead
<1>5. Clean'
  <2>1. \A x \in InBuffers : Served(x)' => Served(x)
    BY <1>1 DEF Served, Hands
  <2>2. CASE h = "udp"
    <3>1. inb[b] = Cleared /\ pc'["udp"] = "read" /\ hand'["udp"] = b
      BY <1>1, <2>2 DEF PathInv, Clean, Readers, InHands
    <3> QED
      BY <1>1, <2>1, <3>1, KeepsContents
  <2>3. CASE h # "udp"
    <3>1. ReaderStays
      BY <1>1, <2>3 DEF ReaderStays, Hands, PathInv, Readers
    <3> QED
      BY <1>1, <2>1, <3>1, KeepsContents
  <2> QED
    BY <2>2, <2>3
<1> QED
  BY <1>1, <1>3, <1>4, <1>5 DEF PathInv

\* A send on a channel with room.
LEMMA HandPushes ==
    ASSUME PathInv, NEW h \in {"udp", "tun", "TXTimeout"}, NEW q \in Queues, hand[h] # NoBuffer,
           (h \in InHands) <=> (q \in InQueues), Room(q), Push(q, hand[h]), Leave(h),
           UNCHANGED <<contents, pool, session, dropped>>,
           h = "udp" => pc["udp"] \in {"inbound", "handshakes"} /\ pc' = [pc EXCEPT !["udp"] = "get"],
           h = "tun" => \E label \in {"get", "try"} : pc' = [pc EXCEPT !["tun"] = label],
           h = "TXTimeout" => pc' = pc
    PROVE  PathInv'
<1> USE PacketPathAssumption
<1>0. h \in Hands
  BY DEF Hands
<1>1. /\ Places' /\ Len(queue'[q]) = Len(queue[q]) + 1
      /\ \A r \in Queues : r # q => queue'[r] = queue[r]
      /\ \A b \in Buffers : Served(b)' => Served(b) \/ b = hand[h]
  BY <1>0, PushMoves DEF PathInv
<1>2. hand'[h] = NoBuffer /\ \A k \in Hands : k # h => hand'[k] = hand[k]
  BY <1>0 DEF Leave, PathInv, Places, Sorted
<1>3. Readers'
  BY <1>2 DEF PathInv, Readers, Hands
<1>4. Control'
  <2>1. Len(queue[q]) \in Nat /\ Capacity(q) \in Nat
    BY DEF PathInv, Places, Sorted, Capacity
  <2>2. Len(queue'[q]) <= Capacity(q)
    BY <1>1, <2>1 DEF Room, Capacity
  <2>3. \A r \in Queues : Len(queue'[r]) <= Capacity(r)
    BY <1>1, <2>2 DEF PathInv, Control
  <2> QED
    BY <2>3 DEF PathInv, Control, session, OnlyWhatWasRead
<1>5. Clean'
  <2>1. ReaderStays
    BY <1>2 DEF ReaderStays, Hands, PathInv, Readers
  <2>2. \A b \in InBuffers : Served(b)' => Served(b) \/ inb[b].long
    <3> SUFFICES ASSUME NEW b \in InBuffers, b = hand[h] PROVE inb[b].long
      BY <1>1 DEF Buffers
    <3>1. h = "udp"
      BY <1>0 DEF PathInv, Places, Sorted, InHands
    <3> QED
      BY <3>1 DEF PathInv, Clean
  <2> QED
    BY <2>1, <2>2, KeepsContents
<1> QED
  BY <1>1, <1>3, <1>4, <1>5 DEF PathInv

\* What a datagram leaves in a cleared buffer: one shorter than a header is seen
\* without the padding.
Message == [type : {"None", "Handshake", "Data", "Punch"}, known : BOOLEAN, padding : BOOLEAN, long : BOOLEAN]

\* A cleared buffer shows nothing but the datagram that was read into it.
LEMMA ReadMessage ==
    ASSUME NEW b \in InBuffers, NEW d \in Datagrams, inb[b] = Cleared
    PROVE  /\ Read(b, d) \in Message
           /\ Read(b, d).padding => Read(b, d).long
           /\ Read(b, d).type \in {"Handshake", "Data", "Punch"}
<1>1. d \in Message /\ d.type \in {"Handshake", "Data", "Punch"}
  BY DEF Datagrams, Message
<1>2. CASE d.long
  BY <1>1, <1>2 DEF Read
<1>3. CASE ~d.long
  <2>1. Read(b, d) = [d EXCEPT !.padding = FALSE]
    BY <1>3 DEF Read, Cleared
  <2> QED
    BY <1>1, <2>1 DEF Message
<1> QED
  BY <1>2, <1>3

\* The UDP reader writes a buffer that nobody else has.
LEMMA ReaderWrites ==
    ASSUME PathInv, NEW b \in InBuffers, b = hand["udp"], NEW m \in Message, inb' = [inb EXCEPT ![b] = m],
           UNCHANGED <<outb, pool, queue>>, \A k \in Hands : k # "udp" => hand'[k] = hand[k],
           \/ pc'["udp"] = "get"
           \/ pc'["udp"] \in {"inbound", "handshakes"} /\ hand'["udp"] = b /\ m.long
    PROVE  Clean'
<1> USE PacketPathAssumption
<1>1. inb'[b] = m /\ (\A x \in InBuffers : x # b => inb'[x] = inb[x]) /\ inb' \in [InBuffers -> Message]
  BY DEF PathInv, Clean, Message
<1>2. b \in Buffers /\ b # NoBuffer
  BY DEF Buffers
<1>3. pool[b] = 0 /\ ~Served(b)
  BY <1>2 DEF PathInv, Places, OnePlace, Served, Hands
<1>4. \A x \in InBuffers : Served(x)' => Served(x)
  BY DEF Served, Hands
<1>5. \A x \in InBuffers : pool[x] = 1 => inb'[x] = Cleared
  BY <1>1, <1>3 DEF PathInv, Clean
<1>6. \A x \in InBuffers : Served(x)' => inb'[x].long
  BY <1>1, <1>3, <1>4 DEF PathInv, Clean
<1> QED
  BY <1>1, <1>5, <1>6 DEF PathInv, Clean, Message

\* A reader abandons its buffer, written or not.
LEMMA HandDrops ==
    ASSUME PathInv, NEW h \in {"udp", "tun"}, Leave(h), dropped' = TRUE,
           UNCHANGED <<pool, queue, session>>,
           h = "udp" => pc' = [pc EXCEPT !["udp"] = "get"],
           h = "tun" => \E label \in {"get", "try"} : pc' = [pc EXCEPT !["tun"] = label],
           UNCHANGED contents \/ Clean'
    PROVE  PathInv'
<1> USE PacketPathAssumption
<1>0. h \in Hands
  BY DEF Hands
<1>1. Places'
  BY <1>0, DropMoves DEF PathInv
<1>2. hand'[h] = NoBuffer /\ \A k \in Hands : k # h => hand'[k] = hand[k]
  BY <1>0 DEF Leave, PathInv, Places, Sorted
<1>3. Readers'
  BY <1>2 DEF PathInv, Readers, Hands
<1>4. Control'
  BY DEF PathInv, Control, session, OnlyWhatWasRead
<1>5. Clean'
  <2>1. \A x \in InBuffers : Served(x)' => Served(x)
    BY <1>2 DEF Served, Hands
  <2>2. ReaderStays
    BY <1>2 DEF ReaderStays, Hands, PathInv, Readers
  <2> QED
    BY <2>1, <2>2, KeepsContents
<1> QED
  BY <1>1, <1>3, <1>4, <1>5 DEF PathInv

-----------------------------------------------------------------------------
(* The steps.                                                               *)

\* Whoever takes a buffer for its own use.
LEMMA GetSteps ==
    ASSUME PathInv, NEW b \in Buffers
    PROVE  UDPGet(b) \/ TunGet(b) \/ TrySendHandshake(b) \/ HandshakeAnswer(b) \/ TXTimeout(b) => PathInv'
<1>0. {"udp", "tun", "initiation", "answer", "TXTimeout"} \subseteq Hands
  BY DEF Hands
<1>1. CASE UDPGet(b)
  BY <1>0, <1>1, HandGets DEF UDPGet, Available, Goto, InHands
<1>2. CASE TunGet(b)
  BY <1>0, <1>2, HandGets DEF TunGet, Available, Goto, InHands
<1>3. CASE TrySendHandshake(b)
  BY <1>0, <1>3, HandGets DEF TrySendHandshake, Available, Goto, InHands
<1>4. CASE HandshakeAnswer(b)
  BY <1>0, <1>4, HandGets DEF HandshakeAnswer, Available, InHands
<1>5. CASE TXTimeout(b)
  BY <1>0, <1>5, HandGets DEF TXTimeout, Available, InHands
<1> QED
  BY <1>1, <1>2, <1>3, <1>4, <1>5

\* The readers and the routines that put one buffer back.
LEMMA PutSteps ==
    ASSUME PathInv
    PROVE  /\ \A r \in {"udp", "tun"} : ReadFails(r) => PathInv'
           /\ HandshakeP1 \/ Inbound \/ Outbound => PathInv'
<1> USE PacketPathAssumption
<1>0. {"udp", "tun", "initiation", "Inbound", "Outbound"} \subseteq Hands
  BY DEF Hands
<1>1. ASSUME NEW r \in {"udp", "tun"}, ReadFails(r) PROVE PathInv'
  <2>1. hand[r] # NoBuffer /\ Put({hand[r]}) /\ Leave(r) /\ UNCHANGED <<queue, session, dropped>>
        /\ pc' = [pc EXCEPT ![r] = "get"]
    BY <1>1 DEF ReadFails, PathInv, Readers, Goto
  <2>2. Readers'
    BY <2>1, <1>0 DEF PathInv, Readers, Leave, Places, Sorted, Hands
  <2>3. Control'
    BY <2>1 DEF PathInv, Control, session, OnlyWhatWasRead
  <2>4. (r = "udp" => pc'["udp"] = "get") /\ (r # "udp" => pc'["udp"] = pc["udp"])
    BY <2>1 DEF PathInv, Readers
  <2> QED
    BY <1>0, <2>1, <2>2, <2>3, <2>4, HandPuts
<1>2. CASE HandshakeP1 \/ Inbound
  <2>1. PICK h \in {"initiation", "Inbound"} :
          hand[h] # NoBuffer /\ Put({hand[h]}) /\ Leave(h) /\ UNCHANGED <<queue, pc, session, dropped, spent>>
    BY <1>2 DEF HandshakeP1, Inbound
  <2>2. Readers'
    BY <2>1 DEF PathInv, Readers, Leave, Places, Sorted, Hands
  <2>3. Control'
    BY <2>1 DEF PathInv, Control, session, OnlyWhatWasRead
  <2> QED
    BY <1>0, <2>1, <2>2, <2>3, HandPuts
<1>3. CASE Outbound
  <2> DEFINE b == hand["Outbound"]
             payload == IF outb[b].size = 0 THEN "empty" ELSE outb[b].packet
  <2>1. b # NoBuffer /\ Put({b}) /\ Leave("Outbound") /\ sent' = sent \cup {payload}
        /\ UNCHANGED <<queue, pc, running, state, pending, case, dropped>>
    BY <1>3 DEF Outbound
  <2>2. Readers'
    BY <2>1 DEF PathInv, Readers, Leave, Places, Sorted, Hands
  <2>3. b \in OutBuffers
    BY <1>0, <2>1 DEF PathInv, Places, Sorted, InHands
  <2>4. payload \in Packets \cup {"empty"}
    BY <2>3 DEF PathInv, Clean
  <2>5. Control'
    BY <2>1, <2>4 DEF PathInv, Control, OnlyWhatWasRead
  <2> QED
    BY <1>0, <2>1, <2>2, <2>5, HandPuts
<1> QED
  BY <1>1, <1>2, <1>3

\* The end of a handshake puts back the message and the answer.
LEMMA HandshakeSteps ==
    ASSUME PathInv, Handshake
    PROVE  PathInv'
<1> USE PacketPathAssumption
<1> DEFINE H == {"Handshake", "answer"}
           B == {hand["Handshake"], hand["answer"]} \ {NoBuffer}
<1>1. /\ Put(B) /\ hand' = [hand EXCEPT !["Handshake"] = NoBuffer, !["answer"] = NoBuffer]
      /\ state' = 2 /\ pending' = FALSE /\ UNCHANGED <<queue, pc, running, case, sent, dropped>>
  BY DEF Handshake
<1>2. Places /\ Add(B) /\ H \in SUBSET Hands /\ UNCHANGED <<queue, dropped>>
  BY <1>1 DEF PathInv, Put, Hands
<1>3. B = {hand[h] : h \in H} \ {NoBuffer}
  OBVIOUS
<1>4. hand' = [h \in Hands |-> IF h \in H THEN NoBuffer ELSE hand[h]]
  BY <1>1, <1>2 DEF Places, Sorted
<1>5. Places' /\ B \subseteq Buffers /\ \A b \in Buffers : b \in B => pool'[b] = 1
  <2> HIDE DEF B, H
  <2> QED
    BY <1>2, <1>3, <1>4, PutMoves, ZenonT(60)
<1>6. Readers'
  BY <1>1, <1>4 DEF PathInv, Readers, Hands
<1>7. Control'
  BY <1>1 DEF PathInv, Control, OnlyWhatWasRead
<1>8. \A b \in InBuffers : Served(b)' => Served(b)
  BY <1>1, <1>4 DEF Served, Hands, Buffers
<1>9. ReaderStays
  BY <1>1, <1>4 DEF ReaderStays, Hands
<1>10. Clean'
  BY <1>1, <1>5, <1>6, <1>8, <1>9, PutContents
<1> QED
  BY <1>5, <1>6, <1>7, <1>10 DEF PathInv

\* OnUDPPacket: back into the pool, abandoned, or on to a queue.
LEMMA DatagramSteps ==
    ASSUME PathInv, NEW d \in Datagrams, OnUDPPacket(d)
    PROVE  PathInv'
<1> USE PacketPathAssumption
<1> DEFINE b == hand["udp"]
           m == Read(b, d)
<1>0. "udp" \in Hands /\ "udp" \in InHands
  BY DEF Hands, InHands
<1>1. pc["udp"] = "read" /\ b # NoBuffer /\ b \in InBuffers /\ inb[b] = Cleared /\ UNCHANGED <<queue, session>>
  BY <1>0 DEF OnUDPPacket, PathInv, Readers, Places, Sorted, Clean
<1>2. m \in Message /\ (m.padding => m.long)
  BY <1>1, ReadMessage
<1>3. CASE ReturnedAtOnce(m)
  <2>1. Put({b}) /\ Leave("udp") /\ pc' = [pc EXCEPT !["udp"] = "get"] /\ UNCHANGED dropped
    BY <1>3 DEF OnUDPPacket, Goto
  <2>2. Readers'
    BY <2>1 DEF PathInv, Readers, Leave, Places, Sorted, Hands
  <2>3. Control'
    BY <1>1, <2>1 DEF PathInv, Control, session, OnlyWhatWasRead
  <2>4. pc'["udp"] = "get"
    BY <2>1 DEF PathInv, Readers
  <2> QED
    BY <1>0, <1>1, <2>1, <2>2, <2>3, <2>4, HandPuts
<1>4. CASE ~ReturnedAtOnce(m) /\ running
  <2>1. /\ inb' = [inb EXCEPT ![b] = m] /\ UNCHANGED <<hand, dropped, outb, pool>>
        /\ pc' = [pc EXCEPT !["udp"] = IF m.type = "Data" THEN "inbound" ELSE "handshakes"]
    BY <1>4 DEF OnUDPPacket, Goto
  <2>2. m.long
    BY <1>2, <1>4 DEF ReturnedAtOnce
  <2>3. pc'["udp"] \in {"inbound", "handshakes"}
    BY <2>1 DEF PathInv, Readers
  <2> HIDE DEF m
  <2>4. Clean'
    BY <1>1, <1>2, <2>1, <2>2, <2>3, ReaderWrites
  <2>5. Places'
    BY <1>1, <2>1 DEF PathInv, Places, Sorted, OnePlace, SomePlace, Somewhere
  <2>6. Readers'
    BY <1>1, <2>1 DEF PathInv, Readers
  <2>7. Control'
    BY <1>1, <2>1 DEF PathInv, Control, session, OnlyWhatWasRead
  <2> QED
    BY <2>4, <2>5, <2>6, <2>7 DEF PathInv
<1>5. CASE ~ReturnedAtOnce(m) /\ ~running
  <2>1. /\ inb' = [inb EXCEPT ![b] = m] /\ UNCHANGED <<outb, pool>> /\ dropped' = TRUE
        /\ Leave("udp") /\ pc' = [pc EXCEPT !["udp"] = "get"]
    BY <1>5 DEF OnUDPPacket, Goto
  <2>2. pc'["udp"] = "get" /\ \A k \in Hands : k # "udp" => hand'[k] = hand[k]
    BY <2>1 DEF PathInv, Readers, Leave, Places, Sorted
  <2> HIDE DEF m
  <2>3. Clean'
    BY <1>1, <1>2, <2>1, <2>2, ReaderWrites
  <2> QED
    BY <1>1, <2>1, <2>3, HandDrops
<1> QED
  BY <1>3, <1>4, <1>5

\* OnTunnelPacket: back into the pool, or on to the queue.
LEMMA PacketSteps ==
    ASSUME PathInv, NEW p \in Packets \cup {"other"}, OnTunnelPacket(p)
    PROVE  PathInv'
<1> USE PacketPathAssumption
<1> DEFINE b == hand["tun"]
<1>0. "tun" \in Hands /\ "tun" \notin InHands
  BY DEF Hands, InHands
<1>1. b # NoBuffer /\ b \in OutBuffers /\ UNCHANGED <<queue, session, dropped>>
  BY <1>0 DEF OnTunnelPacket, PathInv, Readers, Places, Sorted
<1>2. CASE p \in Packets /\ running
  <2>1. /\ outb' = [outb EXCEPT ![b] = [packet |-> p, size |-> 1]]
        /\ pc' = [pc EXCEPT !["tun"] = "outbound"] /\ UNCHANGED <<inb, pool, hand>>
    BY <1>2 DEF OnTunnelPacket, Goto
  <2>2. Places'
    BY <1>1, <2>1 DEF PathInv, Places, Sorted, OnePlace, SomePlace, Somewhere
  <2>3. Readers'
    BY <1>1, <2>1 DEF PathInv, Readers
  <2>4. Control'
    BY <1>1, <2>1 DEF PathInv, Control, session, OnlyWhatWasRead
  <2>5. /\ outb' \in [OutBuffers -> [packet : Packets \cup {"zeros", "other"}, size : {0, 1}]]
        /\ \A x \in OutBuffers : outb'[x].size = 1 => outb'[x].packet \in Packets
    BY <1>1, <1>2, <2>1 DEF PathInv, Clean
  <2>6. pc'["udp"] = pc["udp"] /\ \A x \in InBuffers : Served(x)' => Served(x)
    BY <1>1, <2>1 DEF PathInv, Readers, Served
  <2>7. Clean'
    BY <2>1, <2>5, <2>6 DEF PathInv, Clean
  <2> QED
    BY <2>2, <2>3, <2>4, <2>7 DEF PathInv
<1>3. CASE ~(p \in Packets /\ running)
  <2>1. Put({b}) /\ Leave("tun") /\ pc' = [pc EXCEPT !["tun"] = "get"]
    BY <1>3 DEF OnTunnelPacket, Goto
  <2>2. Readers'
    BY <2>1 DEF PathInv, Readers, Leave, Places, Sorted, Hands
  <2>3. Control'
    BY <1>1, <2>1 DEF PathInv, Control, session, OnlyWhatWasRead
  <2>4. pc'["udp"] = pc["udp"]
    BY <2>1 DEF PathInv, Readers
  <2> QED
    BY <1>0, <1>1, <2>1, <2>2, <2>3, <2>4, HandPuts
<1> QED
  BY <1>2, <1>3

\* The sends on the channels of the peer, full or not.
LEMMA SendSteps ==
    ASSUME PathInv
    PROVE  UDPReader \/ OutboundPacket \/ TXQueue => PathInv'
<1> USE PacketPathAssumption
<1>0. {"inbound", "outbound", "handshakes"} \subseteq Queues
  BY DEF Queues
<1>1. CASE SendHandshakes
  <2>1. hand["udp"] # NoBuffer
    BY <1>1 DEF SendHandshakes, PathInv, Readers
  <2> QED
    BY <1>0, <1>1, <2>1, HandPushes DEF SendHandshakes, Goto, InHands, InQueues
<1>2. CASE InboundPacket /\ Room("inbound")
  <2>1. hand["udp"] # NoBuffer
    BY <1>2 DEF InboundPacket, PathInv, Readers
  <2> QED
    BY <1>0, <1>2, <2>1, HandPushes DEF InboundPacket, Goto, InHands, InQueues
<1>3. CASE InboundPacket /\ ~Room("inbound")
  BY <1>3, HandDrops DEF InboundPacket, Goto
<1>4. CASE OutboundPacket /\ Room("outbound")
  <2>1. hand["tun"] # NoBuffer
    BY <1>4 DEF OutboundPacket, PathInv, Readers
  <2> QED
    BY <1>0, <1>4, <2>1, HandPushes DEF OutboundPacket, Goto, InHands, InQueues
<1>5. CASE OutboundPacket /\ ~Room("outbound")
  BY <1>5, HandDrops DEF OutboundPacket, Goto
<1>6. CASE TXQueue
  BY <1>0, <1>6, HandPushes DEF TXQueue, InHands, InQueues
<1> QED
  BY <1>1, <1>2, <1>3, <1>4, <1>5, <1>6 DEF UDPReader

\* What changes neither hands nor contents: receiving, locks, resets, starts.
LEMMA RoutineSteps ==
    ASSUME PathInv
    PROVE  /\ \A k \in {"Inbound", "Outbound", "Handshake"} : Receive(k) => PathInv'
           /\ HandshakeLock \/ RXTimeout \/ Start \/ UNCHANGED vars => PathInv'
           /\ \A stop \in BOOLEAN : ResetState(stop) => PathInv'
<1> USE PacketPathAssumption
<1>1. ASSUME NEW k \in {"Inbound", "Outbound", "Handshake"}, Receive(k) PROVE PathInv'
  <2>1. /\ Places' /\ (\A q \in Queues : Len(queue'[q]) <= Len(queue[q]))
        /\ hand'[k] # NoBuffer /\ (\A h \in Hands : h # k => hand'[h] = hand[h])
        /\ \A b \in Buffers : Served(b)' => Served(b)
    BY <1>1, ReceiveMoves DEF PathInv
  <2>2. UNCHANGED <<contents, pool, pc, running, state, pending, sent, dropped>> /\ case' \in {case, state}
    BY <1>1 DEF Receive
  <2>3. Readers'
    BY <2>1, <2>2 DEF PathInv, Readers, Hands
  <2>4. Control'
    <3>1. \A q \in Queues : Len(queue'[q]) \in Nat /\ Len(queue[q]) \in Nat /\ Capacity(q) \in Nat
      BY <2>1 DEF PathInv, Places, Sorted, Capacity
    <3>2. \A q \in Queues : Len(queue'[q]) <= Capacity(q)
      BY <2>1, <3>1 DEF PathInv, Control
    <3> QED
      BY <2>2, <3>2 DEF PathInv, Control, OnlyWhatWasRead
  <2>5. Clean'
    <3>1. ReaderStays
      BY <2>1, <2>2 DEF ReaderStays, Hands
    <3>2. \A b \in InBuffers : Served(b)' => Served(b)
      BY <2>1 DEF Buffers
    <3> QED
      BY <2>2, <3>1, <3>2, KeepsContents
  <2> QED
    BY <2>1, <2>3, <2>4, <2>5 DEF PathInv
<1>2. ASSUME HandshakeLock \/ RXTimeout \/ Start \/ UNCHANGED vars PROVE PathInv'
  <2>1. UNCHANGED <<contents, pool, hand, queue, pc, sent, dropped>>
    BY <1>2 DEF HandshakeLock, RXTimeout, Start, vars, contents
  <2>2. running' \in BOOLEAN /\ pending' \in BOOLEAN /\ state' \in {0, 2} /\ case' \in {0, 2, 3}
    BY <1>2 DEF HandshakeLock, RXTimeout, Start, vars, PathInv, Control
  <2>3. Places'
    BY <2>1 DEF PathInv, Places, Sorted, OnePlace, SomePlace, Somewhere
  <2>4. Readers'
    BY <2>1 DEF PathInv, Readers
  <2>5. Control'
    BY <2>1, <2>2 DEF PathInv, Control, OnlyWhatWasRead
  <2>6. Clean'
    BY <2>1, KeepsContents DEF ReaderStays, Served
  <2> QED
    BY <2>3, <2>4, <2>5, <2>6 DEF PathInv
<1>3. ASSUME NEW stop \in BOOLEAN, ResetState(stop) PROVE PathInv'
  <2>1. /\ Put(Queued) /\ queue' = [q \in Queues |-> <<>>] /\ state' = 0 /\ running' = (running /\ ~stop)
        /\ UNCHANGED <<hand, pc, pending, case, sent, dropped>>
    BY <1>3 DEF ResetState
  <2>2. Places' /\ Queued \subseteq Buffers /\ \A b \in Buffers : b \in Queued => pool'[b] = 1
    BY <2>1, FlushMoves DEF PathInv, Put
  <2>3. Readers'
    BY <2>1 DEF PathInv, Readers
  <2>4. Control'
    <3>1. \A q \in Queues : Len(queue'[q]) <= Capacity(q)
      BY <2>1 DEF Capacity
    <3>2. running' \in BOOLEAN
      BY <2>1 DEF PathInv, Control
    <3> QED
      BY <2>1, <3>1, <3>2 DEF PathInv, Control, OnlyWhatWasRead
  <2>5. \A b \in InBuffers : Served(b)' => Served(b)
    BY <2>1 DEF Served
  <2>6. Clean'
    BY <2>1, <2>2, <2>3, <2>5, PutContents DEF ReaderStays
  <2> QED
    BY <2>2, <2>3, <2>4, <2>6 DEF PathInv
<1> QED
  BY <1>1, <1>2, <1>3

\* Every step of every reader and routine keeps the invariant.
LEMMA StepPath == PathInv /\ [Next]_vars => PathInv'
<1> SUFFICES ASSUME PathInv, [Next]_vars PROVE PathInv'
  OBVIOUS
<1> QED
  BY GetSteps, PutSteps, HandshakeSteps, DatagramSteps, PacketSteps, SendSteps, RoutineSteps
     DEF Next, HandshakeRoutine

\* At the beginning every buffer is in its pool.
LEMMA InitPath == Init => PathInv
<1> SUFFICES ASSUME Init PROVE PathInv
  OBVIOUS
<1> USE PacketPathAssumption DEF Init
<1>1. Places
  BY DEF Places, Sorted, OnePlace, SomePlace, Somewhere, Buffers
<1>2. Readers
  BY DEF Readers
<1>3. Clean
  <2>1. Cleared \in [type : {"None", "Handshake", "Data", "Punch"}, known : BOOLEAN, padding : BOOLEAN, long : BOOLEAN]
    BY DEF Cleared
  <2>2. Blank \in [packet : Packets \cup {"zeros", "other"}, size : {0, 1}] /\ Blank.size = 0
    BY DEF Blank
  <2>3. \A b \in InBuffers : ~Served(b)
    BY DEF Served, Queues, Hands, Buffers
  <2> QED
    BY <2>1, <2>2, <2>3 DEF Clean
<1>4. Control
  <2>1. \A q \in Queues : Len(queue[q]) <= Capacity(q)
    BY DEF Capacity
  <2>2. pending \in BOOLEAN
    BY Zenon
  <2> QED
    BY <2>1, <2>2 DEF Control, OnlyWhatWasRead
<1> QED
  BY <1>1, <1>2, <1>3, <1>4 DEF PathInv

-----------------------------------------------------------------------------
(* Counting.                                                                *)

\* A set without two elements.
LEMMA AtMostOne ==
    ASSUME NEW S, \A x, y \in S : x = y
    PROVE  /\ Cardinality(S) \in {0, 1}
           /\ Cardinality(S) = 1 <=> S # {}
<1>1. CASE S = {}
  BY <1>1, FS_EmptySet
<1>2. ASSUME NEW x \in S PROVE Cardinality(S) = 1
  <2>1. S = {x}
    OBVIOUS
  <2> QED
    BY <2>1, FS_Singleton
<1> QED
  BY <1>1, <1>2

\* Owners counts the one place of a buffer.
LEMMA OwnersCounts ==
    ASSUME PathInv, NEW b \in Buffers
    PROVE  Owners(b) <= 1 /\ (Somewhere(b) => Owners(b) >= 1)
<1> USE PacketPathAssumption
<1> DEFINE N == ChannelSize + HandshakeChannelSize
           H == {h \in Hands : hand[h] = b}
           Q == {x \in Queues \X (1..N) : x[2] \in DOMAIN queue[x[1]] /\ queue[x[1]][x[2]] = b}
<1>1. b # NoBuffer /\ pool[b] \in {0, 1}
  BY DEF PathInv, Places, OnePlace
<1>2. \A x, y \in H : x = y
  BY <1>1 DEF PathInv, Places, OnePlace
<1>3. \A x, y \in Q : x = y
  <2> SUFFICES ASSUME NEW x \in Q, NEW y \in Q PROVE x = y
    OBVIOUS
  <2>1. x[1] \in Queues /\ y[1] \in Queues /\ x = <<x[1], x[2]>> /\ y = <<y[1], y[2]>>
    OBVIOUS
  <2>2. x[1] = y[1] /\ x[2] = y[2]
    BY <2>1 DEF PathInv, Places, OnePlace
  <2> QED
    BY <2>1, <2>2
<1>4. H # {} => pool[b] = 0 /\ Q = {}
  BY <1>1 DEF PathInv, Places, OnePlace
<1>5. Q # {} => pool[b] = 0
  BY DEF PathInv, Places, OnePlace
<1>6. Somewhere(b) => pool[b] = 1 \/ H # {} \/ Q # {}
  <2> SUFFICES ASSUME NEW q \in Queues, NEW i \in DOMAIN queue[q], queue[q][i] = b PROVE <<q, i>> \in Q
    BY DEF Somewhere
  <2>1. queue[q] \in Seq(Buffers) /\ Len(queue[q]) \in Nat /\ Len(queue[q]) <= Capacity(q)
    BY DEF PathInv, Places, Sorted, Control
  <2>2. i \in 1..N
    BY <2>1 DEF Capacity
  <2> QED
    BY <2>2
<1>7. Owners(b) = pool[b] + Cardinality(H) + Cardinality(Q)
  BY DEF Owners
<1> HIDE DEF H, Q
<1>8. /\ Cardinality(H) \in {0, 1} /\ (Cardinality(H) = 1 <=> H # {})
      /\ Cardinality(Q) \in {0, 1} /\ (Cardinality(Q) = 1 <=> Q # {})
  BY <1>2, <1>3, AtMostOne
<1> QED
  BY <1>1, <1>4, <1>5, <1>6, <1>7, <1>8

-----------------------------------------------------------------------------

\* No buffer is ever in two places, so that none carries the data of two packets,
\* whatever the readers, the routines, the timers and the resets do.
THEOREM BuffersHaveOneOwner == Spec => []SingleOwner
<1>1. PathInv => SingleOwner
  BY OwnersCounts DEF SingleOwner
<1> QED
  BY <1>1, InitPath, StepPath, PTL DEF Spec

\* Until a full channel, or a handshake for a stopped peer, abandons one, no buffer is
\* lost: every path of OnUDPPacket, OnTunnelPacket, the routines and flushQueues puts
\* its buffer back.
THEOREM BuffersComeBack == Spec => []NothingLost
<1>1. PathInv => NothingLost
  BY OwnersCounts DEF NothingLost, PathInv, Places, SomePlace
<1> QED
  BY <1>1, InitPath, StepPath, PTL DEF Spec

\* What an earlier use left in a buffer never shows: no routine slices a header out of
\* a shorter datagram, and Outbound sends nothing that was not read or made empty.
THEOREM BuffersAreClean == Spec => []BuffersClean
<1>1. PathInv => BuffersClean
  <2> SUFFICES ASSUME PathInv PROVE BuffersClean
    OBVIOUS
  <2>1. LongEnough
    BY DEF PathInv, Clean, Served, LongEnough, Queued
  <2>2. TypeOK
    BY PacketPathAssumption DEF PathInv, Places, Sorted, OnePlace, Readers, Clean, Control, Capacity, OnlyWhatWasRead, TypeOK
  <2> QED
    BY <2>1, <2>2 DEF BuffersClean, PathInv, Control
<1> QED
  BY <1>1, InitPath, StepPath, PTL DEF Spec
===============================================================================
