------------------------- MODULE UpdateStreamsProofs -------------------------
(***************************************************************************)
(* Theorems about UpdateStreams, for any number of peers, streams and unary *)
(* calls.  Those about the types and the channel map hold with overlapping  *)
(* streams, database errors and restarts; the others name what they leave   *)
(* out.                                                                     *)
(***************************************************************************)
EXTENDS UpdateStreams, TLAPS

\* TypeOK is inductive as it stands.
LEMMA InitType == Init => TypeOK
<1> SUFFICES ASSUME Init PROVE TypeOK
  OBVIOUS
<1> USE UpdateStreamsAssumption DEF Init
<1>1. /\ out \in [Streams \cup Calls -> Sends \cup {NoSend}]
      /\ call \in [Calls -> CallRecord \cup {NoCall}]
  OBVIOUS
<1>2. /\ rows \subseteq Peers /\ connected \subseteq rows /\ expired \subseteq Peers
      /\ entry \in [Peers -> Streams \cup {None}] /\ closed \subseteq Streams
      /\ pc \in [Streams -> PC]
  BY DEF PC, Idle
<1>3. /\ left \in [Streams -> SUBSET Peers] /\ must \in [Streams -> SUBSET Peers]
      /\ view \in [Streams -> SUBSET Peers]
      /\ gone \subseteq Streams /\ dismissed \subseteq Streams
  OBVIOUS
<1>4. reaping \subseteq {c \in Calls : call[c] # NoCall} /\ down \in BOOLEAN
  OBVIOUS
<1>5. faults \in 0..MaxFaults /\ restarts \in 0..MaxRestarts
  <2>1. MaxFaults \in Nat /\ MaxRestarts \in Nat
    BY ONLY UpdateStreamsAssumption DEF UpdateStreamsAssumption
  <2> QED
    BY ONLY <2>1, Init DEF Init
<1> QED
  BY ONLY <1>1, <1>2, <1>3, <1>4, <1>5 DEF TypeOK

\* Every step of a handler, a unary call or the environment keeps the types.
LEMMA StepType == TypeOK /\ [Next]_vars => TypeOK'
<1> SUFFICES ASSUME TypeOK, [Next]_vars PROVE TypeOK'
  OBVIOUS
<1> USE UpdateStreamsAssumption
<1>1. ASSUME NEW s \in Streams, UpdateStream(s) PROVE TypeOK'
  <2>1. CASE GetPeerUpdateChannel(s)
    BY <2>1 DEF GetPeerUpdateChannel, TypeOK, db, ranges, clients, unary, Goto, PC, Opening
  <2>2. CASE PeerConnectedEvent(s)
    BY <2>2 DEF PeerConnectedEvent, RangeStart, Fault, TypeOK, chans, ranges, clients, unary, Goto, PC, Opening
  <2>3. CASE Announce(s)
    BY <2>3 DEF Announce, RangeVisit, TypeOK, db, chans, clients, unary, Sends, Updates, Update, NoSend
  <2>4. CASE Announced(s)
    BY <2>4 DEF Announced, TypeOK, db, chans, ranges, clients, unary, Goto, PC, Opening
  <2>5. CASE SendInitial(s)
    BY <2>5 DEF SendInitial, GetConnectedPeers, Fault, TypeOK, chans, ranges, unary, Goto, PC, Closing
  <2>6. CASE Return(s)
    BY <2>6 DEF Return, TypeOK, db, chans, ranges, clients, unary, Goto, PC, Closing
  <2>7. ASSUME NEW x \in Streams \cup Calls, Receive(s, x) PROVE TypeOK'
    BY <2>7 DEF Receive, Learn, TypeOK, db, chans, ranges, unary, NoSend, Sends, Updates
  <2>8. CASE RemoveChannel(s)
    BY <2>8 DEF RemoveChannel, DeletePeerUpdateChannel, TypeOK, db, clients, unary, Goto, PC, Closing
  <2>9. CASE ClearConnected(s)
    BY <2>9 DEF ClearConnected, Fault, TypeOK, chans, ranges, clients, unary, Goto, PC, Closing
  <2>10. CASE PeerDisconnectedEvent(s)
    BY <2>10 DEF PeerDisconnectedEvent, RangeStart, Fault, TypeOK, chans, ranges, clients, unary, Goto, PC, Closing, Idle
  <2>11. CASE Retract(s)
    BY <2>11 DEF Retract, RangeVisit, TypeOK, db, chans, clients, unary, Sends, Updates, Update, NoSend
  <2>12. CASE Retracted(s)
    BY <2>12 DEF Retracted, TypeOK, db, chans, ranges, clients, unary, Goto, PC, Idle
  <2> QED
    BY <1>1, <2>1, <2>2, <2>3, <2>4, <2>5, <2>6, <2>7, <2>8, <2>9, <2>10, <2>11, <2>12 DEF UpdateStream
<1>2. ASSUME NEW c \in Calls, UnaryCall(c) PROVE TypeOK'
  <2>1. CASE PunchSent(c)
    BY <2>1 DEF PunchSent, SendOver, TypeOK, db, chans, ranges, clients, CallRecord, NoCall
  <2>2. CASE LogoutPeer(c)
    BY <2>2 DEF LogoutPeer, SendOver, TypeOK, db, chans, ranges, clients, CallRecord, NoCall
  <2>3. CASE DeleteRow(c)
    BY <2>3 DEF DeleteRow, Fault, TypeOK, chans, ranges, clients, CallRecord, NoCall
  <2>4. CASE Reap(c)
    <3>0. call[c].peer \in Peers
      BY <2>4 DEF Reap, TypeOK, CallRecord
    <3>1. /\ entry' \in [Peers -> Streams \cup {None}]
          /\ closed' \subseteq Streams
          /\ must' \in [Streams -> SUBSET Peers]
      BY <2>4, <3>0 DEF Reap, DeletePeerUpdateChannel, TypeOK
    <3> QED
      BY <2>4, <3>1 DEF Reap, TypeOK, db, clients
  <2> QED
    BY <1>2, <2>1, <2>2, <2>3, <2>4 DEF UnaryCall
<1>3. ASSUME NEW s \in Streams, Open(s) \/ Refuse(s) \/ Leave(s) PROVE TypeOK'
  BY <1>3 DEF Open, Refuse, Leave, Fault, TypeOK, db, chans, ranges, clients, unary, Goto, PC, Opening, Idle
<1>4. ASSUME NEW c \in Calls, NEW p \in Peers, Punch(c, p) \/ Reauth(c, p) \/ DeletePeer(c, p) PROVE TypeOK'
  <2>1. ASSUME NEW type \in {"PUNCH", "LOGOUT"}, SendTo(c, p, type)
        PROVE  out' \in [Streams \cup Calls -> Sends \cup {NoSend}]
    BY <2>1 DEF SendTo, TypeOK, Sends, Updates, Update
  <2>2. ASSUME NEW k \in Kinds, NEW l \in {"sending", "sent"},
               call' = [call EXCEPT ![c] = [kind |-> k, peer |-> p, pc |-> l]], UNCHANGED reaping
        PROVE  /\ call' \in [Calls -> CallRecord \cup {NoCall}]
               /\ reaping' \subseteq {d \in Calls : call'[d] # NoCall}
    BY <2>2 DEF TypeOK, CallRecord, NoCall
  <2>3. /\ out' \in [Streams \cup Calls -> Sends \cup {NoSend}]
        /\ call' \in [Calls -> CallRecord \cup {NoCall}]
        /\ reaping' \subseteq {d \in Calls : call'[d] # NoCall}
    <3>1. CASE Punch(c, p)
      BY <3>1, <2>1, <2>2 DEF Punch, TypeOK
    <3>2. CASE Reauth(c, p)
      BY <3>2, <2>1, <2>2 DEF Reauth, TypeOK
    <3>3. CASE DeletePeer(c, p)
      BY <3>3, <2>1, <2>2 DEF DeletePeer, TypeOK
    <3> QED
      BY <1>4, <3>1, <3>2, <3>3
  <2>4. UNCHANGED <<db, chans, pc, ranges, clients, down, restarts>>
    BY <1>4 DEF Punch, Reauth, DeletePeer
  <2> QED
    BY <2>3, <2>4 DEF TypeOK, db, chans, ranges, clients
<1>5. ASSUME NEW p \in Peers, AuthExpires(p) \/ LoginPeer(p) PROVE TypeOK'
  BY <1>5 DEF AuthExpires, LoginPeer, TypeOK, chans, ranges, clients, unary
<1>6. ASSUME ProcessEnds, down' \in BOOLEAN, restarts' \in 0..MaxRestarts PROVE TypeOK'
  <2>1. /\ out' \in [Streams \cup Calls -> Sends \cup {NoSend}]
        /\ reaping' \subseteq {c \in Calls : call'[c] # NoCall}
    BY <1>6 DEF ProcessEnds
  <2>2. call' \in [Calls -> CallRecord \cup {NoCall}]
    BY <1>6 DEF ProcessEnds, TypeOK, CallRecord, NoCall
  <2>3. pc' \in [Streams -> PC] /\ entry' \in [Peers -> Streams \cup {None}]
    BY <1>6 DEF ProcessEnds, PC, Idle
  <2>4. must' \in [Streams -> SUBSET Peers] /\ left' \in [Streams -> SUBSET Peers]
    BY <1>6 DEF ProcessEnds
  <2> QED
    BY <1>6, <2>1, <2>2, <2>3, <2>4 DEF ProcessEnds, TypeOK, db, clients
<1>7. ASSUME NEW x \in Streams \cup Calls, Panic(x) PROVE TypeOK'
  BY <1>6, <1>7 DEF Panic, TypeOK
<1>8. CASE Restart
  <2>1. restarts' \in 0..MaxRestarts
    BY <1>8 DEF Restart, TypeOK
  <2> QED
    BY <1>6, <1>8, <2>1 DEF Restart
<1>9. CASE UNCHANGED vars
  BY <1>9 DEF TypeOK, vars, db, chans, ranges, clients, unary
<1> QED
  BY <1>1, <1>2, <1>3, <1>4, <1>5, <1>7, <1>8, <1>9 DEF Next, Serve, Request

\* Type correctness of the update streams: every variable keeps its type, and the
\* column connected is only ever set in rows that exist.
THEOREM StreamsTypeCorrect == Spec => []TypeOK
  BY InitType, StepType, PTL DEF Spec

-----------------------------------------------------------------------------
(* The channel map.                                                         *)

\* A call that has not stored its channel yet has an open one.
OpenUntilStored == \A s \in closed : pc[s] \notin {"new", "flagged"}

EntryInv == EntryLive /\ OpenUntilStored

\* What DeletePeerUpdateChannel does to the invariant, whoever calls it: it closes
\* a channel that was stored, and takes it out of the map in the same step.
LEMMA DeleteKeepsEntryInv ==
    ASSUME TypeOK, EntryInv, NEW p \in Peers, DeletePeerUpdateChannel(p), pc' \in [Streams -> PC],
           \A s \in Streams : pc'[s] = pc[s] \/ (Owner[s] = p /\ pc'[s] = "removed")
    PROVE  EntryInv'
<1> USE UpdateStreamsAssumption
<1>1. \A q \in Peers \ {p} : entry'[q] = entry[q] /\ (entry[q] # None => entry[q] # entry[p])
  BY DEF DeletePeerUpdateChannel, TypeOK, EntryInv, EntryLive
<1>2. entry'[p] = None
  BY DEF DeletePeerUpdateChannel, TypeOK
<1>3. EntryLive'
  BY <1>1, <1>2 DEF DeletePeerUpdateChannel, TypeOK, EntryInv, EntryLive
<1>4. OpenUntilStored'
  BY DEF DeletePeerUpdateChannel, TypeOK, EntryInv, EntryLive, OpenUntilStored
<1> QED
  BY <1>3, <1>4 DEF EntryInv

\* A step that leaves the map alone and moves calls forward inside the part of
\* UpdateStream that owns an entry, or outside of it, keeps the invariant.
LEMMA QuietKeepsEntryInv ==
    ASSUME TypeOK, EntryInv, UNCHANGED chans,
           \A s \in Streams : \/ pc'[s] = pc[s]
                              \/ pc'[s] \in {"announcing", "listing", "serving", "returning"}
                              \/ pc[s] \in {"removed", "cleared", "retracting"} /\ pc'[s] \notin {"new", "flagged"}
                              \/ pc[s] = "new"
    PROVE  EntryInv'
<1> USE UpdateStreamsAssumption
<1>1. EntryLive'
  BY DEF chans, TypeOK, EntryInv, EntryLive
<1>2. OpenUntilStored'
  BY DEF chans, TypeOK, EntryInv, OpenUntilStored
<1> QED
  BY <1>1, <1>2 DEF EntryInv

\* Every step keeps the map invariant.
LEMMA StepEntryInv == TypeOK /\ TypeOK' /\ EntryInv /\ [Next]_vars => EntryInv'
<1> SUFFICES ASSUME TypeOK, TypeOK', EntryInv, [Next]_vars PROVE EntryInv'
  OBVIOUS
<1> USE UpdateStreamsAssumption
<1>1. ASSUME NEW s \in Streams, UpdateStream(s) PROVE EntryInv'
  <2>1. CASE GetPeerUpdateChannel(s)
    BY <2>1 DEF GetPeerUpdateChannel, Goto, TypeOK, EntryInv, EntryLive, OpenUntilStored
  <2>2. CASE RemoveChannel(s)
    <3>1. Owner[s] \in Peers /\ pc' \in [Streams -> PC]
      BY DEF TypeOK
    <3>2. \A t \in Streams : pc'[t] = pc[t] \/ (Owner[t] = Owner[s] /\ pc'[t] = "removed")
      BY <2>2 DEF RemoveChannel, Goto, TypeOK
    <3> QED
      BY <2>2, <3>1, <3>2, DeleteKeepsEntryInv DEF RemoveChannel
  <2>3. CASE \/ PeerConnectedEvent(s) \/ Announce(s) \/ Announced(s) \/ SendInitial(s) \/ Return(s)
             \/ \E x \in Streams \cup Calls : Receive(s, x)
    <3>1. UNCHANGED chans
      BY <2>3 DEF PeerConnectedEvent, Announce, Announced, SendInitial, Return, Receive
    <3>2. \A t \in Streams : pc'[t] = pc[t] \/ pc'[t] \in {"announcing", "listing", "serving", "returning"}
      BY <2>3 DEF PeerConnectedEvent, Announce, Announced, SendInitial, Return, Receive, Goto, TypeOK
    <3> QED
      BY <3>1, <3>2, QuietKeepsEntryInv
  <2>4. CASE ClearConnected(s) \/ PeerDisconnectedEvent(s) \/ Retract(s) \/ Retracted(s)
    <3>1. UNCHANGED chans
      BY <2>4 DEF ClearConnected, PeerDisconnectedEvent, Retract, Retracted
    <3>2. \A t \in Streams : \/ pc'[t] = pc[t]
                             \/ pc[t] \in {"removed", "cleared", "retracting"} /\ pc'[t] \notin {"new", "flagged"}
      BY <2>4 DEF ClearConnected, PeerDisconnectedEvent, Retract, Retracted, Goto, TypeOK
    <3> QED
      BY <3>1, <3>2, QuietKeepsEntryInv
  <2> QED
    BY <1>1, <2>1, <2>2, <2>3, <2>4 DEF UpdateStream
<1>2. ASSUME NEW c \in Calls, UnaryCall(c) PROVE EntryInv'
  <2>1. CASE Reap(c)
    <3>1. call[c].peer \in Peers /\ UNCHANGED pc
      BY <2>1 DEF Reap, TypeOK, CallRecord
    <3>2. pc' \in [Streams -> PC]
      BY DEF TypeOK
    <3> QED
      BY <2>1, <3>1, <3>2, DeleteKeepsEntryInv DEF Reap
  <2>2. CASE PunchSent(c) \/ LogoutPeer(c) \/ DeleteRow(c)
    <3>1. UNCHANGED <<chans, pc>>
      BY <2>2 DEF PunchSent, LogoutPeer, DeleteRow
    <3> QED
      BY <3>1, QuietKeepsEntryInv
  <2> QED
    BY <1>2, <2>1, <2>2 DEF UnaryCall
<1>3. ASSUME NEW s \in Streams, Open(s) \/ Refuse(s) \/ Leave(s) PROVE EntryInv'
  <2>1. UNCHANGED chans
    BY <1>3 DEF Open, Refuse, Leave
  <2>2. \A t \in Streams : pc'[t] = pc[t] \/ pc[t] = "new"
    BY <1>3 DEF Open, Refuse, Leave, Goto, TypeOK
  <2> QED
    BY <2>1, <2>2, QuietKeepsEntryInv
<1>4. ASSUME NEW c \in Calls, NEW p \in Peers, Punch(c, p) \/ Reauth(c, p) \/ DeletePeer(c, p) PROVE EntryInv'
  <2>1. UNCHANGED <<chans, pc>>
    BY <1>4 DEF Punch, Reauth, DeletePeer
  <2> QED
    BY <2>1, QuietKeepsEntryInv
<1>5. ASSUME NEW p \in Peers, AuthExpires(p) \/ LoginPeer(p) PROVE EntryInv'
  <2>1. UNCHANGED <<chans, pc>>
    BY <1>5 DEF AuthExpires, LoginPeer
  <2> QED
    BY <2>1, QuietKeepsEntryInv
<1>6. ASSUME ProcessEnds PROVE EntryInv'
  BY <1>6 DEF ProcessEnds, TypeOK, EntryInv, EntryLive, OpenUntilStored
<1>7. CASE UNCHANGED vars
  <2>1. UNCHANGED <<chans, pc>>
    BY <1>7 DEF vars
  <2> QED
    BY <2>1, QuietKeepsEntryInv
<1> QED
  BY <1>1, <1>2, <1>3, <1>4, <1>5, <1>6, <1>7 DEF Next, Serve, Request, Panic, Restart

\* Every channel in peerChannels is open and belongs to a call of that peer that is
\* still there to read it, or is about to take it out: for any number of peers and
\* calls, with overlapping streams, failing accesses to the database, delayed
\* clean-ups and restarts.
THEOREM MapSafety == Spec => []EntryLive
<1>1. Init => EntryInv
  BY DEF Init, EntryInv, EntryLive, OpenUntilStored
<1>2. EntryInv => EntryLive
  BY DEF EntryInv
<1> QED
  BY <1>1, <1>2, StepEntryInv, StreamsTypeCorrect, PTL DEF Spec

-----------------------------------------------------------------------------
(***************************************************************************)
(* What the clients are told.  A node opens its next stream when the last   *)
(* one is cleaned up, and every access to the database succeeds; the unary  *)
(* calls, of all kinds, interleave with the handlers in any way.            *)
(***************************************************************************)

InTurn   == Overlap = FALSE
NoFaults == MaxFaults = 0

\* A peer has one call in progress.
OneStream ==
    \A s, t \in Streams :
        Owner[s] = Owner[t] /\ pc[s] \notin Idle /\ pc[t] \notin Idle => s = t

\* A handler sends its own events, each from its own place; unary calls send others.
SendsMatch ==
    /\ \A s \in Streams : out[s] # NoSend =>
          /\ out[s].msg.peer = Owner[s]
          /\ \/ pc[s] = "announcing" /\ out[s].msg.type = "CONNECT"
             \/ pc[s] = "retracting" /\ out[s].msg.type = "DISCONNECT"
    /\ \A c \in Calls : out[c] # NoSend => out[c].msg.type \in {"LOGOUT", "PUNCH"}

\* Between SetPeerConnected(true) and SetPeerConnected(false).
Flagged == Opening \cup {"serving", "returning", "removed"}

FlagsSet ==
    \A s \in Streams : pc[s] \in Flagged /\ Owner[s] \in rows => Owner[s] \in connected

FlagsClear ==
    ~down => \A p \in connected : \E s \in Streams : Owner[s] = p /\ pc[s] \in Flagged

\* What a step does to the progress of the calls.
LEMMA CallsMove ==
    ASSUME TypeOK, [Next]_vars
    PROVE  \/ UNCHANGED pc
           \/ ProcessEnds
           \/ \E s \in Streams : Open(s)
           \/ \E s \in Streams : Refuse(s)
           \/ \E s \in Streams : /\ pc[s] \notin Idle
                                 /\ \A t \in Streams : t # s => pc'[t] = pc[t]
<1> DEFINE Moved(s) == pc[s] \notin Idle /\ \A t \in Streams : t # s => pc'[t] = pc[t]
<1>1. ASSUME NEW s \in Streams, UpdateStream(s) PROVE UNCHANGED pc \/ Moved(s)
  <2>1. CASE \/ GetPeerUpdateChannel(s) \/ PeerConnectedEvent(s) \/ Announced(s)
             \/ SendInitial(s) \/ Return(s) \/ RemoveChannel(s)
    BY <2>1 DEF GetPeerUpdateChannel, PeerConnectedEvent, Announced, SendInitial, Return,
       RemoveChannel, Goto, TypeOK, Idle
  <2>2. CASE ClearConnected(s) \/ PeerDisconnectedEvent(s) \/ Retracted(s)
    BY <2>2 DEF ClearConnected, PeerDisconnectedEvent, Retracted, Goto, TypeOK, Idle
  <2>3. CASE Announce(s) \/ Retract(s) \/ \E x \in Streams \cup Calls : Receive(s, x)
    BY <2>3 DEF Announce, Retract, Receive
  <2> QED
    BY <1>1, <2>1, <2>2, <2>3 DEF UpdateStream
<1>2. ASSUME NEW c \in Calls, UnaryCall(c) PROVE UNCHANGED pc
  BY <1>2 DEF UnaryCall, PunchSent, LogoutPeer, DeleteRow, Reap
<1>3. CASE Request
  <2>1. ASSUME NEW s \in Streams, Leave(s) PROVE UNCHANGED pc
    BY <2>1 DEF Leave
  <2>2. ASSUME NEW c \in Calls, NEW p \in Peers, Punch(c, p) \/ Reauth(c, p) \/ DeletePeer(c, p)
        PROVE  UNCHANGED pc
    BY <2>2 DEF Punch, Reauth, DeletePeer
  <2>3. ASSUME NEW p \in Peers, AuthExpires(p) \/ LoginPeer(p) PROVE UNCHANGED pc
    BY <2>3 DEF AuthExpires, LoginPeer
  <2> QED
    BY <1>3, <2>1, <2>2, <2>3 DEF Request, Restart
<1>4. CASE UNCHANGED vars
  BY <1>4 DEF vars
<1> QED
  BY <1>1, <1>2, <1>3, <1>4 DEF Next, Serve, Panic

\* Nobody opens a second stream while the first is in progress.
LEMMA OneStreamStep ==
    ASSUME TypeOK, InTurn, OneStream, [Next]_vars
    PROVE  OneStream'
<1>1. CASE UNCHANGED pc
  BY <1>1 DEF OneStream
<1>2. CASE ProcessEnds
  BY <1>2 DEF OneStream, ProcessEnds, Idle
<1>3. ASSUME NEW s \in Streams, Open(s) PROVE OneStream'
  <2>1. \A t \in Streams : Owner[t] = Owner[s] => pc[t] \in Idle
    BY <1>3 DEF Open, InTurn
  <2>2. \A t \in Streams : t # s => pc'[t] = pc[t]
    BY <1>3 DEF Open, Goto, TypeOK
  <2> QED
    BY <2>1, <2>2 DEF OneStream
<1>4. ASSUME NEW s \in Streams, Refuse(s) PROVE OneStream'
  <2>1. pc'[s] \in Idle /\ \A t \in Streams : t # s => pc'[t] = pc[t]
    BY <1>4 DEF Refuse, Goto, TypeOK, Idle
  <2> QED
    BY <2>1 DEF OneStream
<1>5. ASSUME NEW s \in Streams, pc[s] \notin Idle, \A t \in Streams : t # s => pc'[t] = pc[t]
      PROVE  OneStream'
  BY <1>5 DEF OneStream
<1> QED
  BY <1>1, <1>2, <1>3, <1>4, <1>5, CallsMove

\* A step that leaves out alone moves no call away from a send.
LEMMA SendsStep ==
    ASSUME TypeOK, SendsMatch, [Next]_vars
    PROVE  SendsMatch'
<1> USE UpdateStreamsAssumption
<1>1. ASSUME UNCHANGED out, NEW s \in Streams, out[s] = NoSend,
             \A t \in Streams : t # s => pc'[t] = pc[t]
      PROVE  SendsMatch'
  BY <1>1 DEF SendsMatch
<1>2. ASSUME UNCHANGED out, UNCHANGED pc PROVE SendsMatch'
  BY <1>2 DEF SendsMatch
<1>3. ASSUME NEW x \in Streams \cup Calls, out' = [out EXCEPT ![x] = NoSend], UNCHANGED pc
      PROVE  SendsMatch'
  BY <1>3 DEF SendsMatch, TypeOK
<1>4. ASSUME NEW s \in Streams, UpdateStream(s) PROVE SendsMatch'
  <2>1. CASE \/ GetPeerUpdateChannel(s) \/ PeerConnectedEvent(s) \/ Announced(s)
             \/ SendInitial(s) \/ Return(s) \/ RemoveChannel(s) \/ ClearConnected(s)
             \/ PeerDisconnectedEvent(s) \/ Retracted(s)
    <3>1. UNCHANGED out /\ \A t \in Streams : t # s => pc'[t] = pc[t]
      BY <2>1 DEF GetPeerUpdateChannel, PeerConnectedEvent, Announced, SendInitial, Return,
         RemoveChannel, ClearConnected, PeerDisconnectedEvent, Retracted, Goto, TypeOK
    <3>2. out[s] = NoSend \/ (pc[s] # "announcing" /\ pc[s] # "retracting")
      BY <2>1 DEF GetPeerUpdateChannel, PeerConnectedEvent, Announced, SendInitial, Return,
         RemoveChannel, ClearConnected, PeerDisconnectedEvent, Retracted, RangeOver
    <3> QED
      BY <1>1, <3>1, <3>2 DEF SendsMatch
  <2>2. CASE Announce(s)
    <3>1. PICK p \in left[s] :
            out' = [out EXCEPT ![s] = [to |-> entry[p], msg |-> Update("CONNECT", Owner[s])]]
      BY <2>2 DEF Announce, RangeVisit
    <3>2. /\ \A x \in Streams \cup Calls : x # s => out'[x] = out[x]
          /\ out'[s].msg = Update("CONNECT", Owner[s])
      BY <3>1 DEF TypeOK
    <3>3. pc[s] = "announcing" /\ UNCHANGED pc
      BY <2>2 DEF Announce
    <3> QED
      BY <3>2, <3>3 DEF SendsMatch, Update
  <2>3. CASE Retract(s)
    <3>1. PICK p \in left[s] :
            out' = [out EXCEPT ![s] = [to |-> entry[p], msg |-> Update("DISCONNECT", Owner[s])]]
      BY <2>3 DEF Retract, RangeVisit
    <3>2. /\ \A x \in Streams \cup Calls : x # s => out'[x] = out[x]
          /\ out'[s].msg = Update("DISCONNECT", Owner[s])
      BY <3>1 DEF TypeOK
    <3>3. pc[s] = "retracting" /\ UNCHANGED pc
      BY <2>3 DEF Retract
    <3> QED
      BY <3>2, <3>3 DEF SendsMatch, Update
  <2>4. ASSUME NEW x \in Streams \cup Calls, Receive(s, x) PROVE SendsMatch'
    BY <1>3, <2>4 DEF Receive
  <2> QED
    BY <1>4, <2>1, <2>2, <2>3, <2>4 DEF UpdateStream
<1>5. ASSUME NEW c \in Calls, UnaryCall(c) PROVE SendsMatch'
  BY <1>2, <1>5 DEF UnaryCall, PunchSent, LogoutPeer, DeleteRow, Reap
<1>6. ASSUME NEW s \in Streams, Open(s) \/ Refuse(s) \/ Leave(s) PROVE SendsMatch'
  <2>1. CASE Leave(s)
    BY <1>2, <2>1 DEF Leave
  <2>2. CASE Open(s) \/ Refuse(s)
    <3>1. UNCHANGED out /\ pc[s] = "new" /\ \A t \in Streams : t # s => pc'[t] = pc[t]
      BY <2>2 DEF Open, Refuse, Goto, TypeOK
    <3>2. out[s] = NoSend
      BY <3>1 DEF SendsMatch
    <3> QED
      BY <1>1, <3>1, <3>2
  <2> QED
    BY <1>6, <2>1, <2>2
<1>7. ASSUME NEW c \in Calls, NEW p \in Peers, Punch(c, p) \/ Reauth(c, p) \/ DeletePeer(c, p)
      PROVE  SendsMatch'
  <2>1. ASSUME NEW type \in {"LOGOUT", "PUNCH"}, SendTo(c, p, type), UNCHANGED pc
        PROVE  SendsMatch'
    <3>1. /\ \A x \in Streams \cup Calls : x # c => out'[x] = out[x]
          /\ out'[c] = NoSend \/ out'[c].msg = Update(type, p)
      BY <2>1 DEF SendTo, TypeOK
    <3>2. \A s \in Streams : out'[s] = out[s]
      BY <3>1
    <3> QED
      BY <2>1, <3>1, <3>2 DEF SendsMatch, Update
  <2>2. UNCHANGED pc
    BY <1>7 DEF Punch, Reauth, DeletePeer
  <2>3. \/ UNCHANGED out
        \/ SendTo(c, p, "PUNCH") \/ SendTo(c, p, "LOGOUT")
    BY <1>7 DEF Punch, Reauth, DeletePeer
  <2> QED
    BY <1>2, <2>1, <2>2, <2>3
<1>8. ASSUME NEW p \in Peers, AuthExpires(p) \/ LoginPeer(p) PROVE SendsMatch'
  BY <1>2, <1>8 DEF AuthExpires, LoginPeer
<1>9. CASE ProcessEnds
  <2>1. \A x \in Streams \cup Calls : out'[x] = NoSend
    BY <1>9 DEF ProcessEnds
  <2> QED
    BY <2>1 DEF SendsMatch
<1>10. CASE UNCHANGED vars
  BY <1>2, <1>10 DEF vars
<1> QED
  BY <1>4, <1>5, <1>6, <1>7, <1>8, <1>9, <1>10 DEF Next, Serve, Request, Panic, Restart

\* No access to the database fails.
LEMMA NoFault ==
    ASSUME TypeOK, NoFaults
    PROVE  ~Fault
  BY DEF TypeOK, NoFaults, Fault

\* A step that neither sets nor clears a flag keeps every call on its side of the flag.
LEMMA FlagSteps ==
    ASSUME TypeOK, NoFaults, [Next]_vars
    PROVE  \/ /\ UNCHANGED <<connected, rows, down>>
              /\ \A t \in Streams : pc'[t] \in Flagged <=> pc[t] \in Flagged
           \/ \E s \in Streams : Open(s)
           \/ \E s \in Streams : ClearConnected(s)
           \/ \E c \in Calls : DeleteRow(c)
           \/ ProcessEnds /\ (down' \/ Restart)
<1> USE DEF Flagged, Opening, Closing, Idle
<1> DEFINE Same == /\ UNCHANGED <<connected, rows, down>>
                   /\ \A t \in Streams : pc'[t] \in Flagged <=> pc[t] \in Flagged
<1>1. ASSUME NEW s \in Streams, UpdateStream(s), ~ClearConnected(s) PROVE Same
  <2>1. CASE GetPeerUpdateChannel(s) \/ PeerConnectedEvent(s) \/ Announced(s)
    BY <2>1 DEF GetPeerUpdateChannel, PeerConnectedEvent, Announced, Goto, TypeOK, db
  <2>2. CASE SendInitial(s) \/ Return(s) \/ RemoveChannel(s)
    BY <2>2 DEF SendInitial, Return, RemoveChannel, Goto, TypeOK, db
  <2>3. CASE PeerDisconnectedEvent(s) \/ Retracted(s)
    BY <2>3 DEF PeerDisconnectedEvent, Retracted, Goto, TypeOK, db
  <2>4. CASE Announce(s) \/ Retract(s) \/ \E x \in Streams \cup Calls : Receive(s, x)
    BY <2>4 DEF Announce, Retract, Receive, db
  <2> QED
    BY <1>1, <2>1, <2>2, <2>3, <2>4 DEF UpdateStream
<1>2. ASSUME NEW c \in Calls, PunchSent(c) \/ LogoutPeer(c) \/ Reap(c) PROVE Same
  BY <1>2 DEF PunchSent, LogoutPeer, Reap, db
<1>3. ASSUME NEW s \in Streams, Refuse(s) \/ Leave(s) PROVE Same
  BY <1>3 DEF Refuse, Leave, Goto, TypeOK, db
<1>4. ASSUME NEW c \in Calls, NEW p \in Peers, Punch(c, p) \/ Reauth(c, p) \/ DeletePeer(c, p)
      PROVE  Same
  BY <1>4 DEF Punch, Reauth, DeletePeer, db
<1>5. ASSUME NEW p \in Peers, AuthExpires(p) \/ LoginPeer(p) PROVE Same
  BY <1>5 DEF AuthExpires, LoginPeer
<1>6. CASE UNCHANGED vars
  BY <1>6 DEF vars, db
<1>7. ASSUME NEW x \in Streams \cup Calls, Panic(x) PROVE ProcessEnds /\ down'
  BY <1>7 DEF Panic
<1> HIDE DEF Same
<1> QED
  BY <1>1, <1>2, <1>3, <1>4, <1>5, <1>6, <1>7 DEF Next, Serve, Request, UnaryCall, Restart, Same

\* A call in progress keeps its flag.
LEMMA FlagsSetStep ==
    ASSUME TypeOK, NoFaults, OneStream, FlagsSet, [Next]_vars
    PROVE  FlagsSet'
<1> USE UpdateStreamsAssumption
<1>1. CASE /\ UNCHANGED <<connected, rows, down>>
           /\ \A t \in Streams : pc'[t] \in Flagged <=> pc[t] \in Flagged
  BY <1>1 DEF FlagsSet
<1>2. ASSUME NEW s \in Streams, Open(s) PROVE FlagsSet'
  <2>1. /\ connected' = connected \cup {Owner[s]} /\ rows' = rows
        /\ \A t \in Streams : t # s => pc'[t] = pc[t]
    BY <1>2 DEF Open, Goto, TypeOK
  <2> QED
    BY <2>1 DEF FlagsSet
<1>3. ASSUME NEW s \in Streams, ClearConnected(s) PROVE FlagsSet'
  <2>1. /\ connected' = connected \ {Owner[s]} /\ rows' = rows
        /\ pc[s] = "removed" /\ pc'[s] = "cleared"
        /\ \A t \in Streams : t # s => pc'[t] = pc[t]
    BY <1>3, NoFault DEF ClearConnected, Goto, TypeOK
  <2>2. ASSUME NEW t \in Streams, pc'[t] \in Flagged, Owner[t] \in rows'
        PROVE  Owner[t] \in connected'
    <3>1. t # s /\ pc[t] \in Flagged
      BY <2>1, <2>2 DEF Flagged, Opening
    <3>2. Owner[t] # Owner[s]
      BY <2>1, <3>1 DEF OneStream, Flagged, Opening, Idle
    <3> QED
      BY <2>1, <2>2, <3>1, <3>2 DEF FlagsSet
  <2> QED
    BY <2>2 DEF FlagsSet
<1>4. ASSUME NEW c \in Calls, DeleteRow(c) PROVE FlagsSet'
  <2>1. /\ connected' = connected \ {call[c].peer} /\ rows' = rows \ {call[c].peer}
        /\ pc' = pc
    BY <1>4, NoFault DEF DeleteRow
  <2> QED
    BY <2>1 DEF FlagsSet
<1>5. CASE ProcessEnds
  BY <1>5 DEF ProcessEnds, FlagsSet, Flagged, Opening
<1> QED
  BY <1>1, <1>2, <1>3, <1>4, <1>5, FlagSteps

\* Without a restart a flag belongs to a call in progress.
LEMMA FlagsClearStep ==
    ASSUME TypeOK, NoFaults, MaxRestarts = 0, OneStream, FlagsClear, [Next]_vars
    PROVE  FlagsClear'
<1> USE UpdateStreamsAssumption
<1>1. CASE /\ UNCHANGED <<connected, rows, down>>
           /\ \A t \in Streams : pc'[t] \in Flagged <=> pc[t] \in Flagged
  BY <1>1 DEF FlagsClear
<1>2. ASSUME NEW s \in Streams, Open(s) PROVE FlagsClear'
  <2>1. /\ connected' = connected \cup {Owner[s]} /\ down' = down
        /\ pc[s] = "new" /\ pc'[s] = "flagged" /\ \A t \in Streams : t # s => pc'[t] = pc[t]
    BY <1>2 DEF Open, Goto, TypeOK
  <2>2. "new" \notin Flagged /\ "flagged" \in Flagged
    BY DEF Flagged, Opening
  <2> QED
    BY <2>1, <2>2 DEF FlagsClear
<1>3. ASSUME NEW s \in Streams, ClearConnected(s) PROVE FlagsClear'
  <2>1. /\ connected' = connected \ {Owner[s]} /\ down' = down
        /\ \A t \in Streams : t # s => pc'[t] = pc[t]
    BY <1>3, NoFault DEF ClearConnected, Goto, TypeOK
  <2> QED
    BY <2>1 DEF FlagsClear
<1>4. ASSUME NEW c \in Calls, DeleteRow(c) PROVE FlagsClear'
  <2>1. connected' = connected \ {call[c].peer} /\ pc' = pc /\ down' = down
    BY <1>4, NoFault DEF DeleteRow
  <2> QED
    BY <2>1 DEF FlagsClear
<1>5. ~Restart
  BY DEF Restart, TypeOK
<1> QED
  BY <1>1, <1>2, <1>3, <1>4, <1>5, FlagSteps DEF FlagsClear

\* The column connected is right whenever the controller is up: for any number of peers,
\* calls and unary calls in any order, as long as a node opens its streams one after the
\* other, the database answers and the controller is not restarted (SetPeerConnected in
\* UpdateStream and in its deferred clean-up).
THEOREM FlagsAreRight ==
    ASSUME InTurn, NoFaults, MaxRestarts = 0
    PROVE  Spec => []FlagsMatch
<1> DEFINE Inv == TypeOK /\ OneStream /\ FlagsSet /\ FlagsClear
<1>1. Init => Inv
  BY InitType DEF Init, OneStream, FlagsSet, FlagsClear, Flagged, Opening, Idle
<1>2. Inv /\ [Next]_vars => Inv'
  BY StepType, OneStreamStep, FlagsSetStep, FlagsClearStep
<1>3. Inv => FlagsMatch
  <2> SUFFICES ASSUME Inv, ~down
               PROVE  connected = {p \in rows : \E s \in Streams : Owner[s] = p /\ pc[s] \in Flagged}
    BY DEF FlagsMatch, Flagged
  <2> QED
    BY DEF TypeOK, FlagsSet, FlagsClear
<1> QED
  BY <1>1, <1>2, <1>3, PTL DEF Spec

\* A call that is being served and can be told; an event of t that s has still to get.
Heard(s)  == pc[s] = "serving" /\ Listening(s)
Due(t, s) == Owner[s] \in must[t] \/ (out[t] # NoSend /\ out[t].to = s)

\* While t announces itself, s knows of it or is yet to be told; afterwards it knows.
Told(s, t) ==
    Heard(s) /\ Owner[s] # Owner[t] /\ Owner[t] \in rows =>
        /\ pc[t] = "announcing" => Owner[t] \in view[s] \/ Due(t, s)
        /\ pc[t] \in {"listing", "serving", "returning"} => Owner[t] \in view[s]

\* While t takes its leave, s has forgotten it or is yet to be told.
Untold(s, t) ==
    Heard(s) /\ Owner[t] \in rows /\ pc[t] = "retracting" /\ Owner[t] \in view[s] => Due(t, s)

\* What is between s and t after a step that changes neither what s knows nor t.
LEMMA PairKept ==
    ASSUME NEW s \in Streams, NEW t \in Streams, Told(s, t), rows' \subseteq rows,
           Heard(s)' => Heard(s) /\ view'[s] = view[s] /\ (Due(t, s) => Due(t, s)'),
           pc'[t] = pc[t]
    PROVE  Told(s, t)' /\ (Untold(s, t) => Untold(s, t)')
<1>1. Told(s, t)'
  BY DEF Told
<1>2. Untold(s, t) => Untold(s, t)'
  BY DEF Untold
<1> QED
  BY <1>1, <1>2

\* A step of t that ends in a place where it owes nobody an event.
LEMMA PairFree ==
    ASSUME NEW s \in Streams, NEW t \in Streams,
           pc'[t] \notin {"announcing", "listing", "serving", "returning", "retracting"}
    PROVE  Told(s, t)' /\ Untold(s, t)'
  BY DEF Told, Untold

\* A call that is served has a channel, and is not the one that a Range is made for.
LEMMA StoredHeard ==
    ASSUME NEW s \in Streams, Heard(s)
    PROVE  entry[Owner[s]] = s /\ entry[Owner[s]] # None /\ Owner[s] \in Peers
  BY UpdateStreamsAssumption DEF Heard, Listening

\* A step that deletes the channel of a peer, moving only a call u of it, if any.
LEMMA PairDelete ==
    ASSUME TypeOK, NEW s \in Streams, NEW t \in Streams, Told(s, t), NEW p \in Peers,
           DeletePeerUpdateChannel(p), UNCHANGED <<rows, out, view>>,
           \A u \in Streams : pc'[u] = pc[u] \/ pc'[u] = "removed"
    PROVE  Told(s, t)' /\ (Untold(s, t) => Untold(s, t)')
<1> USE UpdateStreamsAssumption
<1>1. Heard(s)' => pc[s] = "serving" /\ entry'[Owner[s]] = s
  BY DEF Heard, Listening
<1>2. entry'[p] = None /\ \A q \in Peers : q # p => entry'[q] = entry[q]
  BY DEF DeletePeerUpdateChannel, TypeOK
<1>3. Heard(s)' => Heard(s) /\ Owner[s] # p
  BY <1>1, <1>2 DEF Heard, Listening
<1>4. must'[t] = must[t] \ {p}
  BY DEF DeletePeerUpdateChannel
<1>5. Heard(s)' => (Due(t, s) => Due(t, s)')
  BY <1>3, <1>4 DEF Due
<1>6. CASE pc'[t] = pc[t]
  BY <1>3, <1>5, <1>6, PairKept
<1>7. CASE pc'[t] = "removed"
  BY <1>7, PairFree
<1> QED
  BY <1>6, <1>7

\* An event begins: t is about to visit everyone who is heard.
LEMMA PairStart ==
    ASSUME TypeOK, OneStream, NEW s \in Streams, NEW t \in Streams, Told(s, t), NEW u \in Streams,
           PeerConnectedEvent(u) \/ PeerDisconnectedEvent(u), ~Fault
    PROVE  Told(s, t)' /\ (Untold(s, t) => Untold(s, t)')
<1> USE UpdateStreamsAssumption
<1>1. /\ rows' = rows /\ entry' = entry /\ out' = out /\ view' = view
      /\ \A v \in Streams : v # u => pc'[v] = pc[v]
      /\ pc[u] \notin Idle \cup {"serving"} /\ pc'[u] # "serving"
  BY DEF PeerConnectedEvent, PeerDisconnectedEvent, Goto, TypeOK, chans, clients, Idle
<1>2. Heard(s)' => Heard(s) /\ s # u
  BY <1>1 DEF Heard, Listening
<1>3. CASE t # u
  <2>1. must'[t] = must[t]
    BY <1>3 DEF PeerConnectedEvent, PeerDisconnectedEvent, RangeStart, TypeOK, ranges
  <2> QED
    BY <1>1, <1>2, <1>3, <2>1, PairKept DEF Due
<1>4. CASE t = u /\ Owner[u] \notin rows
  BY <1>1, <1>4 DEF Told, Untold
<1>5. CASE t = u /\ Owner[u] \in rows
  <2>1. RangeStart(u) /\ pc'[u] \in {"announcing", "retracting"}
    BY <1>5 DEF PeerConnectedEvent, PeerDisconnectedEvent, Goto, TypeOK
  <2>2. Heard(s) /\ s # u => Owner[s] # Owner[u]
    BY <1>1 DEF Heard, OneStream, Idle
  <2>3. must'[u] = {p \in Peers \ {Owner[u]} : entry[p] # None}
    BY <2>1 DEF RangeStart, TypeOK
  <2>4. Heard(s)' => Due(t, s)'
    BY <1>2, <1>5, <2>2, <2>3, StoredHeard DEF Due
  <2> QED
    BY <1>5, <2>1, <2>4 DEF Told, Untold
<1> QED
  BY <1>3, <1>4, <1>5

\* An event goes on: the next visit is on its way.
LEMMA PairVisit ==
    ASSUME TypeOK, NEW s \in Streams, NEW t \in Streams, Told(s, t), NEW u \in Streams,
           Announce(u) \/ Retract(u)
    PROVE  Told(s, t)' /\ (Untold(s, t) => Untold(s, t)')
<1> USE UpdateStreamsAssumption
<1>1. PICK p \in left[u] : /\ out' = [out EXCEPT ![u] = [to |-> entry[p], msg |-> out'[u].msg]]
                           /\ must' = [must EXCEPT ![u] = @ \ {p}]
                           /\ entry[p] # None
  BY DEF Announce, Retract, RangeVisit, TypeOK
<1>2. out[u] = NoSend /\ UNCHANGED <<rows, entry, view, pc>>
  BY DEF Announce, Retract, RangeVisit, db, chans, clients
<1>3. out'[u].to = entry[p] /\ out'[u] # NoSend /\ \A x \in Streams : x # u => out'[x] = out[x]
  <2>1. p \in Peers /\ entry[p] \in Streams
    BY <1>1 DEF TypeOK
  <2>2. out'[u] = [to |-> entry[p], msg |-> out'[u].msg]
    BY <1>1 DEF TypeOK
  <2>3. out'[u].to = entry[p] /\ NoSend.to = None
    BY <2>2 DEF NoSend
  <2>4. \A x \in Streams : x # u => out'[x] = out[x]
    BY <1>1 DEF TypeOK
  <2> QED
    BY <1>1, <2>3, <2>4
<1>4. must'[u] = must[u] \ {p} /\ \A x \in Streams : x # u => must'[x] = must[x]
  BY <1>1 DEF TypeOK
<1>5. Heard(s)' => Heard(s)
  BY <1>2 DEF Heard, Listening
<1>6. Heard(s) => (Due(t, s) => Due(t, s)')
  BY <1>2, <1>3, <1>4, StoredHeard DEF Due
<1> QED
  BY <1>2, <1>5, <1>6, PairKept

\* The loop of u receives an event, which is the one of its sender.
LEMMA PairReceive ==
    ASSUME TypeOK, OneStream, SendsMatch, NEW s \in Streams, NEW t \in Streams, Told(s, t),
           NEW u \in Streams, NEW x \in Streams \cup Calls, Receive(u, x)
    PROVE  Told(s, t)' /\ (Untold(s, t) => Untold(s, t)')
<1> USE UpdateStreamsAssumption
<1> DEFINE m == out[x].msg
<1>1. /\ out[x] # NoSend /\ out[x].to = u /\ out'[x] = NoSend
      /\ \A y \in Streams : y # x => out'[y] = out[y]
      /\ UNCHANGED <<rows, entry, must, pc>>
  BY DEF Receive, TypeOK, db, chans, ranges
<1>2. /\ \A v \in Streams : v # u => view'[v] = view[v]
      /\ m.type = "CONNECT" => view'[u] = view[u] \cup {m.peer}
      /\ m.type = "DISCONNECT" => view'[u] = view[u] \ {m.peer}
      /\ m.type \in {"LOGOUT", "PUNCH"} => view'[u] = view[u]
  BY DEF Receive, Learn, TypeOK
<1>3. Heard(s)' <=> Heard(s)
  BY <1>1 DEF Heard, Listening
<1>4. \/ x \in Calls /\ m.type \in {"LOGOUT", "PUNCH"}
      \/ x \in Streams /\ m.peer = Owner[x] /\ pc[x] = "announcing" /\ m.type = "CONNECT"
      \/ x \in Streams /\ m.peer = Owner[x] /\ pc[x] = "retracting" /\ m.type = "DISCONNECT"
  BY <1>1 DEF SendsMatch
<1> HIDE DEF m
<1>5. CASE s # u
  <2>1. Due(t, s) => Due(t, s)'
    BY <1>1, <1>5 DEF Due
  <2> QED
    BY <1>1, <1>2, <1>3, <1>5, <2>1, PairKept
<1>6. CASE s = u /\ x \in Calls /\ m.type \in {"LOGOUT", "PUNCH"}
  <2>1. t # x
    BY <1>6
  <2>2. Due(t, s) => Due(t, s)'
    BY <1>1, <2>1 DEF Due
  <2> QED
    BY <1>1, <1>2, <1>3, <1>6, <2>2, PairKept
<1>7. CASE s = u /\ x \in Streams /\ m.peer = Owner[x] /\ pc[x] = "announcing" /\ m.type = "CONNECT"
  <2>1. view'[s] = view[s] \cup {Owner[x]}
    BY <1>2, <1>7
  <2>2. t # x => (Due(t, s) => Due(t, s)')
    BY <1>1 DEF Due
  <2>3. Told(s, t)'
    BY <1>1, <1>3, <2>1, <2>2 DEF Told
  <2>4. pc[t] = "retracting" => Owner[t] # Owner[x]
    BY <1>7 DEF OneStream, Idle
  <2>5. Untold(s, t) => Untold(s, t)'
    BY <1>1, <1>3, <1>7, <2>1, <2>2, <2>4 DEF Untold
  <2> QED
    BY <2>3, <2>5
<1>8. CASE s = u /\ x \in Streams /\ m.peer = Owner[x] /\ pc[x] = "retracting" /\ m.type = "DISCONNECT"
  <2>1. view'[s] = view[s] \ {Owner[x]}
    BY <1>2, <1>8
  <2>2. t # x => (Due(t, s) => Due(t, s)')
    BY <1>1 DEF Due
  <2>3. pc[t] \in {"announcing", "listing", "serving", "returning"} => Owner[t] # Owner[x]
    BY <1>8 DEF OneStream, Idle
  <2>4. Told(s, t)'
    BY <1>1, <1>3, <2>1, <2>2, <2>3 DEF Told
  <2>5. Untold(s, t) => Untold(s, t)'
    BY <1>1, <1>3, <1>8, <2>1, <2>2 DEF Untold
  <2> QED
    BY <2>4, <2>5
<1> QED
  BY <1>4, <1>5, <1>6, <1>7, <1>8

\* The list is sent: it has every peer whose call is in progress, and no other.
LEMMA PairInitial ==
    ASSUME TypeOK, ~Fault, OneStream, FlagsSet, NEW s \in Streams, NEW t \in Streams, Told(s, t),
           NEW u \in Streams, SendInitial(u)
    PROVE  Told(s, t)' /\ (Untold(s, t) /\ FlagsClear /\ ~down => Untold(s, t)')
<1> USE UpdateStreamsAssumption
<1>1. /\ UNCHANGED <<rows, entry, must, out>>
      /\ pc[u] = "listing" /\ pc'[u] \in {"serving", "returning"}
      /\ pc'[u] = "serving" => view'[u] = connected \ {Owner[u]}
      /\ \A v \in Streams : v # u => pc'[v] = pc[v] /\ view'[v] = view[v]
  BY DEF SendInitial, GetConnectedPeers, Goto, TypeOK, chans, ranges
<1>2. Due(t, s) <=> Due(t, s)'
  BY <1>1 DEF Due
<1>3. CASE s # u
  <2>1. (Heard(s)' <=> Heard(s)) /\ view'[s] = view[s]
    BY <1>1, <1>3 DEF Heard, Listening
  <2>2. CASE t # u
    BY <1>1, <1>2, <2>1, <2>2, PairKept
  <2>3. CASE t = u
    BY <1>1, <1>2, <2>1, <2>3 DEF Told, Untold
  <2> QED
    BY <2>2, <2>3
<1>4. CASE s = u
  <2> SUFFICES ASSUME Heard(s)' PROVE Told(s, t)' /\ (FlagsClear /\ ~down => Untold(s, t)')
    BY DEF Told, Untold
  <2>1. view'[s] = connected \ {Owner[s]}
    BY <1>1, <1>4 DEF Heard
  <2>2. ASSUME Owner[s] # Owner[t], Owner[t] \in rows,
               pc'[t] \in {"announcing", "listing", "serving", "returning"}
        PROVE  Owner[t] \in view'[s]
    <3>1. pc[t] \in Flagged
      BY <1>1, <1>4, <2>2 DEF Flagged, Opening
    <3> QED
      BY <2>1, <2>2, <3>1 DEF FlagsSet
  <2>3. Told(s, t)'
    BY <1>1, <2>2 DEF Told
  <2>4. ASSUME FlagsClear, ~down, pc'[t] = "retracting", Owner[t] \in view'[s] PROVE FALSE
    <3>1. Owner[t] \in connected /\ pc[t] = "retracting"
      BY <1>1, <2>1, <2>4
    <3>2. PICK v \in Streams : Owner[v] = Owner[t] /\ pc[v] \in Flagged
      BY <2>4, <3>1 DEF FlagsClear
    <3>3. pc[v] \notin Idle /\ pc[v] # "retracting"
      BY <3>2 DEF Flagged, Opening, Idle
    <3> QED
      BY <3>1, <3>2, <3>3 DEF OneStream, Idle
  <2> QED
    BY <2>3, <2>4 DEF Untold
<1> QED
  BY <1>3, <1>4

\* Every step keeps what is between two calls.
LEMMA PairStep ==
    ASSUME TypeOK, NoFaults, OneStream, SendsMatch, FlagsSet, [Next]_vars,
           NEW s \in Streams, NEW t \in Streams, Told(s, t)
    PROVE  Told(s, t)' /\ (Untold(s, t) /\ (~down => FlagsClear) /\ (down => pc[s] \in Idle
                              /\ \A v \in Streams : pc[v] \in Idle) => Untold(s, t)')
<1> USE UpdateStreamsAssumption
<1> DEFINE Kept == Told(s, t)' /\ (Untold(s, t) => Untold(s, t)')
<1>0. ~Fault
  BY NoFault
\* Steps that change neither a view, nor the map, nor an event under way.
<1>1. ASSUME UNCHANGED <<entry, must, view, pc>>, rows' \subseteq rows,
             \A v \in Streams : out'[v] = out[v]
      PROVE  Kept
  BY <1>1, PairKept DEF Heard, Listening, Due
\* Steps of u that end in a place where it owes nobody an event.
<1>2. ASSUME NEW u \in Streams, UNCHANGED <<must, view, out, rows>>,
             \A v \in Streams : v # u => pc'[v] = pc[v],
             pc'[u] \notin {"announcing", "listing", "serving", "returning", "retracting"},
             \A v \in Streams : v # u /\ entry'[Owner[v]] = v => entry[Owner[v]] = v
      PROVE  Kept
  <2>1. CASE t = u
    BY <1>2, <2>1, PairFree
  <2>2. CASE t # u
    <3>1. Heard(s)' => Heard(s)
      BY <1>2 DEF Heard, Listening
    <3> QED
      BY <1>2, <2>2, <3>1, PairKept DEF Due
  <2> QED
    BY <2>1, <2>2
<1>3. ASSUME NEW u \in Streams, UpdateStream(u), ~SendInitial(u) PROVE Kept
  <2>1. CASE GetPeerUpdateChannel(u)
    BY <1>2, <2>1 DEF GetPeerUpdateChannel, Goto, TypeOK, db, ranges, clients
  <2>2. CASE PeerConnectedEvent(u) \/ PeerDisconnectedEvent(u)
    BY <1>0, <2>2, PairStart
  <2>3. CASE Announce(u) \/ Retract(u)
    BY <2>3, PairVisit
  <2>4. CASE Announced(u)
    <3>1. /\ UNCHANGED <<rows, entry, must, view, out>>
          /\ pc[u] = "announcing" /\ pc'[u] = "listing" /\ out[u] = NoSend /\ must[u] = {}
          /\ \A v \in Streams : v # u => pc'[v] = pc[v]
      BY <2>4 DEF Announced, RangeOver, Goto, TypeOK, db, chans, clients
    <3>2. (Heard(s)' => Heard(s)) /\ (Due(t, s) => Due(t, s)')
      BY <3>1 DEF Heard, Listening, Due
    <3>3. CASE t # u
      BY <3>1, <3>2, <3>3, PairKept
    <3>4. CASE t = u
      BY <3>1, <3>2, <3>4 DEF Told, Untold, Due
    <3> QED
      BY <3>3, <3>4
  <2>5. CASE Return(u)
    <3>1. /\ UNCHANGED <<rows, entry, must, out>>
          /\ pc[u] = "serving" /\ pc'[u] = "returning"
          /\ \A v \in Streams : v # u => pc'[v] = pc[v] /\ view'[v] = view[v]
      BY <2>5 DEF Return, Goto, TypeOK, db, chans, ranges
    <3>2. Heard(s)' => Heard(s) /\ s # u
      BY <3>1 DEF Heard, Listening
    <3>3. Due(t, s) => Due(t, s)'
      BY <3>1 DEF Due
    <3>4. CASE t # u
      BY <3>1, <3>2, <3>3, <3>4, PairKept
    <3>5. CASE t = u
      BY <3>1, <3>2, <3>3, <3>5 DEF Told, Untold
    <3> QED
      BY <3>4, <3>5
  <2>6. ASSUME NEW x \in Streams \cup Calls, Receive(u, x) PROVE Kept
    BY <2>6, PairReceive
  <2>7. CASE RemoveChannel(u)
    <3>1. DeletePeerUpdateChannel(Owner[u]) /\ UNCHANGED <<rows, out, view>>
      BY <2>7 DEF RemoveChannel, db, clients
    <3>2. \A v \in Streams : pc'[v] = pc[v] \/ pc'[v] = "removed"
      BY <2>7 DEF RemoveChannel, Goto, TypeOK
    <3>3. Owner[u] \in Peers
      OBVIOUS
    <3> QED
      BY <3>1, <3>2, <3>3, PairDelete
  <2>8. CASE ClearConnected(u) \/ Retracted(u)
    <3>1. /\ UNCHANGED <<rows, entry, must, view, out>>
          /\ pc'[u] \in {"cleared", "done"}
          /\ \A v \in Streams : v # u => pc'[v] = pc[v]
      BY <2>8 DEF ClearConnected, Retracted, Goto, TypeOK, db, chans, clients, ranges
    <3> QED
      BY <1>2, <3>1
  <2> QED
    BY <1>3, <2>1, <2>2, <2>3, <2>4, <2>5, <2>6, <2>7, <2>8 DEF UpdateStream
<1>4. ASSUME NEW c \in Calls, UnaryCall(c) PROVE Kept
  <2>1. CASE Reap(c)
    <3>1. call[c].peer \in Peers /\ DeletePeerUpdateChannel(call[c].peer)
      BY <2>1 DEF Reap, TypeOK, CallRecord
    <3>2. UNCHANGED <<rows, out, view, pc>>
      BY <2>1 DEF Reap, db, clients
    <3> QED
      BY <3>1, <3>2, PairDelete
  <2>2. CASE PunchSent(c) \/ LogoutPeer(c) \/ DeleteRow(c)
    <3>1. UNCHANGED <<entry, must, view, pc, out>> /\ rows' \subseteq rows
      BY <2>2 DEF PunchSent, LogoutPeer, DeleteRow, db, chans, ranges, clients
    <3> QED
      BY <1>1, <3>1
  <2> QED
    BY <1>4, <2>1, <2>2 DEF UnaryCall
<1>5. ASSUME NEW u \in Streams, Open(u) \/ Refuse(u) \/ Leave(u) PROVE Kept
  <2>1. CASE Leave(u)
    BY <1>1, <2>1 DEF Leave, db, chans, ranges
  <2>2. CASE Open(u) \/ Refuse(u)
    <3>1. /\ UNCHANGED <<rows, entry, must, view, out>>
          /\ pc'[u] \in {"flagged", "done"}
          /\ \A v \in Streams : v # u => pc'[v] = pc[v]
      BY <2>2 DEF Open, Refuse, Goto, TypeOK, chans, clients, ranges
    <3> QED
      BY <1>2, <3>1
  <2> QED
    BY <1>5, <2>1, <2>2
<1>6. ASSUME NEW c \in Calls, NEW p \in Peers, Punch(c, p) \/ Reauth(c, p) \/ DeletePeer(c, p)
      PROVE  Kept
  <2>1. UNCHANGED <<entry, must, view, pc, rows>>
    BY <1>6 DEF Punch, Reauth, DeletePeer, db, chans, ranges, clients
  <2>2. \A v \in Streams : out'[v] = out[v]
    BY <1>6 DEF Punch, Reauth, DeletePeer, SendTo, TypeOK
  <2> QED
    BY <1>1, <2>1, <2>2
<1>7. ASSUME NEW p \in Peers, AuthExpires(p) \/ LoginPeer(p) PROVE Kept
  BY <1>1, <1>7 DEF AuthExpires, LoginPeer, chans, ranges, clients
<1>8. ASSUME ProcessEnds PROVE Kept
  <2>1. pc'[s] # "serving"
    BY <1>8 DEF ProcessEnds
  <2> QED
    BY <2>1 DEF Told, Untold, Heard
<1>9. ASSUME UNCHANGED vars PROVE Kept
  BY <1>1, <1>9 DEF vars, db, chans, ranges, clients
<1>10. ASSUME NEW u \in Streams, SendInitial(u)
       PROVE  Told(s, t)' /\ (Untold(s, t) /\ FlagsClear /\ ~down => Untold(s, t)')
  BY <1>0, <1>10, PairInitial
<1>11. ASSUME NEW u \in Streams, SendInitial(u) PROVE pc[u] \notin Idle
  BY <1>11 DEF SendInitial, Idle
<1> HIDE DEF Kept
<1>12. Kept \/ \E u \in Streams : SendInitial(u)
  <2>1. CASE Serve
    <3>1. (\E x \in Streams \cup Calls : Panic(x)) => ProcessEnds
      BY DEF Panic
    <3> QED
      BY <2>1, <3>1, <1>3, <1>4, <1>8, Zenon DEF Serve
  <2>2. CASE Request
    <3>1. Restart => ProcessEnds
      BY DEF Restart
    <3> QED
      BY <2>2, <3>1, <1>5, <1>6, <1>7, <1>8, Zenon DEF Request
  <2> QED
    BY <1>9, <2>1, <2>2 DEF Next
<1> QED
  BY <1>10, <1>11, <1>12 DEF Kept

\* A client that is served knows of every peer whose connection has been announced, for
\* any number of peers, calls and restarts and every order of handlers and unary calls,
\* as long as a node opens its streams one after the other and the database answers:
\* UpdateStream stores its channel before it sends its event and reads the list.
THEOREM NoPeerIsMissed ==
    ASSUME InTurn, NoFaults
    PROVE  Spec => []NoMissedPeer
<1> DEFINE AllTold == \A s, t \in Streams : Told(s, t)
           Inv == TypeOK /\ OneStream /\ SendsMatch /\ FlagsSet /\ AllTold
<1>1. Init => Inv
  <2> SUFFICES ASSUME Init PROVE Inv
    OBVIOUS
  <2>1. \A s \in Streams : pc[s] = "new" /\ out[s] = NoSend
    BY DEF Init
  <2>2. \A c \in Calls : out[c] = NoSend
    BY DEF Init
  <2> QED
    BY <2>1, <2>2, InitType
    DEF OneStream, SendsMatch, FlagsSet, Told, Heard, Flagged, Opening, Idle
<1>2. Inv /\ [Next]_vars => Inv'
  <2> SUFFICES ASSUME Inv, [Next]_vars PROVE Inv'
    OBVIOUS
  <2>1. TypeOK' /\ OneStream' /\ SendsMatch' /\ FlagsSet'
    BY StepType, OneStreamStep, SendsStep, FlagsSetStep
  <2>2. AllTold'
    BY PairStep
  <2> QED
    BY <2>1, <2>2
<1>3. Inv => NoMissedPeer
  BY DEF NoMissedPeer, Told, Heard
<1> QED
  BY <1>1, <1>2, <1>3, PTL DEF Spec

\* After a panic, no call is in progress.
DownIdle == down => \A s \in Streams : pc[s] \in Idle

\* A peer is active while it has a call in progress.
Active(p) == \E t \in Streams : Owner[t] = p /\ pc[t] \notin Idle

\* Without a restart, the process stays down once it has panicked.
LEMMA DownStep ==
    ASSUME TypeOK, MaxRestarts = 0, DownIdle, [Next]_vars
    PROVE  DownIdle'
<1>1. ~Restart
  BY DEF Restart, TypeOK
<1>2. ProcessEnds => \A s \in Streams : pc'[s] \in Idle
  BY DEF ProcessEnds, Idle
<1>3. ProcessEnds \/ UNCHANGED down
  BY <1>1 DEF Next, Serve, Request, UpdateStream, UnaryCall, GetPeerUpdateChannel,
     PeerConnectedEvent, Announce, Announced, SendInitial, Receive, Return, RemoveChannel,
     ClearConnected, PeerDisconnectedEvent, Retract, Retracted, PunchSent, LogoutPeer,
     DeleteRow, Reap, Panic, Open, Refuse, Leave, Punch, Reauth, DeletePeer, AuthExpires,
     LoginPeer, vars
<1>4. down => ~\E s \in Streams : Open(s)
  BY DEF Open, Admitted
<1>5. ASSUME NEW s \in Streams, Refuse(s), down PROVE DownIdle'
  BY <1>5 DEF Refuse, Goto, TypeOK, Idle, DownIdle
<1> QED
  BY <1>2, <1>3, <1>4, <1>5, CallsMove DEF DownIdle

\* A peer whose call ends is known to nobody who is heard.
LEMMA GhostStep ==
    ASSUME TypeOK, NoFaults, OneStream, SendsMatch, FlagsClear, DownIdle, NoGhostPeer,
           \A s, t \in Streams : Untold(s, t), [Next]_vars
    PROVE  NoGhostPeer'
<1> USE UpdateStreamsAssumption
<1>0. ~Fault
  BY NoFault
<1>a. \A s \in Streams : Heard(s) => \A p \in view[s] \cap rows : Active(p)
  BY DEF NoGhostPeer, Heard, Active
<1>b. ASSUME \A s \in Streams : Heard(s)' => \A p \in view'[s] \cap rows' : Active(p)'
      PROVE  NoGhostPeer'
  BY <1>b DEF NoGhostPeer, Heard, Active
\* Steps after which the calls in progress are still in progress and know no more.
<1>1. ASSUME rows' \subseteq rows,
             \A s \in Streams : pc[s] \notin Idle => pc'[s] \notin Idle,
             \A s \in Streams : Heard(s)' => Heard(s) /\ view'[s] \subseteq view[s]
      PROVE  NoGhostPeer'
  <2>1. \A p : Active(p) => Active(p)'
    BY <1>1 DEF Active
  <2> QED
    BY <1>1, <1>a, <1>b, <2>1
<1>2. ASSUME NEW u \in Streams, UpdateStream(u) PROVE NoGhostPeer'
  <2>1. CASE GetPeerUpdateChannel(u)
    <3>1. rows' = rows /\ view' = view /\ \A s \in Streams : pc[s] \notin Idle => pc'[s] \notin Idle
      BY <2>1 DEF GetPeerUpdateChannel, Goto, TypeOK, db, clients, Idle
    <3>2. \A s \in Streams : Heard(s)' => Heard(s)
      BY <2>1 DEF GetPeerUpdateChannel, Goto, TypeOK, Heard, Listening
    <3> QED
      BY <1>1, <3>1, <3>2
  <2>2. CASE PeerConnectedEvent(u) \/ Announce(u) \/ Announced(u)
    <3>1. rows' = rows /\ view' = view /\ \A s \in Streams : pc[s] \notin Idle => pc'[s] \notin Idle
      BY <2>2 DEF PeerConnectedEvent, Announce, Announced, Goto, TypeOK, db, clients, Idle
    <3>2. \A s \in Streams : Heard(s)' => Heard(s)
      BY <2>2 DEF PeerConnectedEvent, Announce, Announced, Goto, TypeOK, Heard, Listening, chans
    <3> QED
      BY <1>1, <3>1, <3>2
  <2>3. CASE ClearConnected(u) \/ Retract(u)
    <3>1. rows' = rows /\ view' = view /\ \A s \in Streams : pc[s] \notin Idle => pc'[s] \notin Idle
      BY <2>3 DEF ClearConnected, Retract, Goto, TypeOK, db, clients, Idle
    <3>2. \A s \in Streams : Heard(s)' => Heard(s)
      BY <2>3 DEF ClearConnected, Retract, Goto, TypeOK, Heard, Listening, chans
    <3> QED
      BY <1>1, <3>1, <3>2
  <2>4. CASE Return(u) \/ RemoveChannel(u)
    <3>1. rows' = rows /\ \A s \in Streams : pc[s] \notin Idle => pc'[s] \notin Idle
      BY <2>4 DEF Return, RemoveChannel, Goto, TypeOK, db, Idle
    <3>2. \A s \in Streams : Heard(s)' => Heard(s) /\ view'[s] = view[s]
      BY <2>4 DEF Return, RemoveChannel, DeletePeerUpdateChannel, Goto, TypeOK, Heard, Listening,
         chans, clients
    <3> QED
      BY <1>1, <3>1, <3>2
  <2>5. CASE SendInitial(u)
    <3>1. /\ UNCHANGED <<rows, entry>> /\ pc[u] = "listing" /\ pc'[u] \in {"serving", "returning"}
          /\ pc'[u] = "serving" => view'[u] = connected \ {Owner[u]}
          /\ \A v \in Streams : v # u => pc'[v] = pc[v] /\ view'[v] = view[v]
      BY <1>0, <2>5 DEF SendInitial, GetConnectedPeers, Goto, TypeOK, chans, ranges
    <3>2. ~down
      BY <3>1 DEF DownIdle, Idle
    <3>3. \A p \in connected : Active(p)
      BY <3>2 DEF FlagsClear, Active, Flagged, Opening, Idle
    <3>4. \A p : Active(p) => Active(p)'
      BY <3>1 DEF Active, Idle
    <3>5. ASSUME NEW s \in Streams, Heard(s)', NEW p \in view'[s] \cap rows' PROVE Active(p)'
      <4>1. CASE s = u
        BY <3>1, <3>3, <3>4, <3>5, <4>1 DEF Heard
      <4>2. CASE s # u
        <5>1. Heard(s) /\ view'[s] = view[s]
          BY <3>1, <3>5, <4>2 DEF Heard, Listening
        <5> QED
          BY <1>a, <3>1, <3>4, <3>5, <5>1
      <4> QED
        BY <4>1, <4>2
    <3> QED
      BY <1>b, <3>5
  <2>6. ASSUME NEW x \in Streams \cup Calls, Receive(u, x) PROVE NoGhostPeer'
    <3> DEFINE m == out[x].msg
    <3>1. out[x] # NoSend /\ UNCHANGED <<rows, entry, pc>>
      BY <2>6 DEF Receive, db, chans
    <3>2. /\ \A v \in Streams : v # u => view'[v] = view[v]
          /\ m.type = "CONNECT" => view'[u] = view[u] \cup {m.peer}
          /\ m.type # "CONNECT" => view'[u] \subseteq view[u]
      BY <2>6 DEF Receive, Learn, TypeOK
    <3>3. m.type = "CONNECT" => Active(m.peer)
      BY <3>1 DEF SendsMatch, Active, Idle
    <3> HIDE DEF m
    <3>4. \A s \in Streams : \A p \in view'[s] : p \in view[s] \/ Active(p)
      BY <3>2, <3>3
    <3>5. \A p : Active(p) => Active(p)'
      BY <3>1 DEF Active
    <3>6. \A s \in Streams : Heard(s)' => Heard(s)
      BY <3>1 DEF Heard, Listening
    <3> QED
      BY <1>a, <1>b, <3>1, <3>4, <3>5, <3>6
  <2>7. CASE PeerDisconnectedEvent(u) \/ Retracted(u)
    <3>1. /\ UNCHANGED <<rows, entry, view>> /\ pc[u] # "serving" /\ pc'[u] # "serving"
          /\ \A v \in Streams : v # u => pc'[v] = pc[v]
      BY <2>7 DEF PeerDisconnectedEvent, Retracted, Goto, TypeOK, db, chans, clients
    <3>2. \A s \in Streams : Heard(s)' => Heard(s)
      BY <3>1 DEF Heard, Listening
    <3>3. ASSUME NEW s \in Streams, Heard(s), Owner[u] \in view[s] \cap rows
          PROVE  pc'[u] \notin Idle
      <4>1. CASE PeerDisconnectedEvent(u)
        BY <1>0, <3>3, <4>1 DEF PeerDisconnectedEvent, Goto, TypeOK, Idle
      <4>2. CASE Retracted(u)
        <5>1. pc[u] = "retracting" /\ must[u] = {} /\ out[u] = NoSend
          BY <4>2 DEF Retracted, RangeOver
        <5>2. Due(u, s)
          BY <3>3, <5>1 DEF Untold
        <5> QED
          BY <5>1, <5>2 DEF Due
      <4> QED
        BY <2>7, <4>1, <4>2
    <3>4. ASSUME NEW s \in Streams, Heard(s)', NEW p \in view'[s] \cap rows' PROVE Active(p)'
      <4>1. Heard(s) /\ p \in view[s] \cap rows /\ Active(p)
        BY <1>a, <3>1, <3>2, <3>4
      <4>2. PICK t \in Streams : Owner[t] = p /\ pc[t] \notin Idle
        BY <4>1 DEF Active
      <4> QED
        BY <3>1, <3>3, <4>1, <4>2 DEF Active
    <3> QED
      BY <1>b, <3>4
  <2> QED
    BY <1>2, <2>1, <2>2, <2>3, <2>4, <2>5, <2>6, <2>7 DEF UpdateStream
<1>3. ASSUME NEW c \in Calls, UnaryCall(c) PROVE NoGhostPeer'
  <2>1. rows' \subseteq rows /\ UNCHANGED <<view, pc>>
    BY <1>3 DEF UnaryCall, PunchSent, LogoutPeer, DeleteRow, Reap, db, clients
  <2>2. \A s \in Streams : Heard(s)' => Heard(s)
    <3>1. CASE PunchSent(c) \/ LogoutPeer(c) \/ DeleteRow(c)
      BY <3>1 DEF PunchSent, LogoutPeer, DeleteRow, chans, Heard, Listening
    <3>2. CASE Reap(c)
      BY <3>2 DEF Reap, DeletePeerUpdateChannel, TypeOK, Heard, Listening
    <3> QED
      BY <1>3, <3>1, <3>2 DEF UnaryCall
  <2> QED
    BY <1>1, <2>1, <2>2
<1>4. ASSUME NEW u \in Streams, Open(u) \/ Refuse(u) \/ Leave(u) PROVE NoGhostPeer'
  <2>1. UNCHANGED <<rows, view, entry>> /\ \A s \in Streams : pc[s] \notin Idle => pc'[s] = pc[s]
    BY <1>4 DEF Open, Refuse, Leave, Goto, TypeOK, db, clients, chans, Idle
  <2>2. \A s \in Streams : Heard(s)' => Heard(s)
    BY <1>4 DEF Open, Refuse, Leave, Goto, TypeOK, Heard, Listening, chans
  <2> QED
    BY <1>1, <2>1, <2>2
<1>5. ASSUME NEW c \in Calls, NEW p \in Peers, Punch(c, p) \/ Reauth(c, p) \/ DeletePeer(c, p)
      PROVE  NoGhostPeer'
  <2>1. UNCHANGED <<rows, view, entry, pc>>
    BY <1>5 DEF Punch, Reauth, DeletePeer, db, clients, chans
  <2> QED
    BY <1>1, <2>1 DEF Heard, Listening
<1>6. ASSUME NEW p \in Peers, AuthExpires(p) \/ LoginPeer(p) PROVE NoGhostPeer'
  <2>1. UNCHANGED <<rows, view, entry, pc>>
    BY <1>6 DEF AuthExpires, LoginPeer, clients, chans
  <2> QED
    BY <1>1, <2>1 DEF Heard, Listening
<1>7. CASE ProcessEnds
  <2>1. \A s \in Streams : pc'[s] # "serving"
    BY <1>7 DEF ProcessEnds
  <2> QED
    BY <2>1 DEF NoGhostPeer
<1>8. CASE UNCHANGED vars
  <2>1. UNCHANGED <<rows, view, entry, pc>>
    BY <1>8 DEF vars, db, clients, chans
  <2> QED
    BY <1>1, <2>1 DEF Heard, Listening
<1> QED
  BY <1>2, <1>3, <1>4, <1>5, <1>6, <1>7, <1>8 DEF Next, Serve, Request, Panic, Restart

\* A client that is served believes no peer connected that has no call in progress, for
\* any number of peers and calls and every order of handlers and unary calls, as long as
\* a node opens its streams one after the other, the database answers and the controller
\* is not restarted: the deferred clean-up clears the flag before it sends its event.
THEOREM NoPeerIsGhost ==
    ASSUME InTurn, NoFaults, MaxRestarts = 0
    PROVE  Spec => []NoGhostPeer
<1> DEFINE Base == TypeOK /\ OneStream /\ SendsMatch /\ FlagsSet
           Tell == \A s, t \in Streams : Told(s, t) /\ Untold(s, t)
           Inv == Base /\ FlagsClear /\ DownIdle /\ Tell /\ NoGhostPeer
<1>1. Init => Inv
  <2> SUFFICES ASSUME Init PROVE Inv
    OBVIOUS
  <2>1. \A s \in Streams : pc[s] = "new" /\ out[s] = NoSend
    BY DEF Init
  <2>2. (\A c \in Calls : out[c] = NoSend) /\ connected = {} /\ down = FALSE
    BY DEF Init
  <2>3. Base /\ FlagsClear /\ DownIdle
    BY <2>1, <2>2, InitType
    DEF OneStream, SendsMatch, FlagsSet, FlagsClear, DownIdle, Flagged, Opening, Idle
  <2>4. Tell /\ NoGhostPeer
    BY <2>1 DEF Told, Untold, Heard, NoGhostPeer
  <2> QED
    BY <2>3, <2>4
<1>2. Inv /\ [Next]_vars => Inv'
  <2> SUFFICES ASSUME Inv, [Next]_vars PROVE Inv'
    OBVIOUS
  <2>1. Base'
    BY StepType, OneStreamStep, SendsStep, FlagsSetStep
  <2>2. FlagsClear' /\ DownIdle'
    BY FlagsClearStep, DownStep
  <2>3. Tell'
    BY PairStep DEF DownIdle
  <2>4. NoGhostPeer'
    BY GhostStep
  <2> QED
    BY <2>1, <2>2, <2>3, <2>4
<1>3. Inv => NoGhostPeer
  OBVIOUS
<1> QED
  BY <1>1, <1>2, <1>3, PTL DEF Spec

-----------------------------------------------------------------------------
(* Channels that are closed under a call, and sends on closed channels.     *)

Live == Opening \cup {"serving"}

\* No call that still uses its channel has a closed one.
StillOpen == \A s \in closed : pc[s] \notin Live

\* Apart from the deferred clean-up, a step closes no channel while nobody is logged
\* out, and only a new call begins to use one.
LEMMA ClosingSteps ==
    ASSUME TypeOK, Kinds \subseteq {"punch"}, reaping = {}, [Next]_vars
    PROVE  /\ reaping' = {}
           /\ \/ \E s \in Streams : RemoveChannel(s)
              \/ closed' = closed /\ \A t \in Streams : pc'[t] \in Live => pc[t] \in Live \cup {"new"}
<1> USE DEF Live, Opening, Closing, Idle
<1> DEFINE Same == /\ reaping' = {} /\ closed' = closed
                   /\ \A t \in Streams : pc'[t] \in Live => pc[t] \in Live \cup {"new"}
<1>1. ASSUME NEW s \in Streams, UpdateStream(s), ~RemoveChannel(s) PROVE Same
  <2>1. CASE GetPeerUpdateChannel(s) \/ PeerConnectedEvent(s) \/ Announced(s)
    BY <2>1 DEF GetPeerUpdateChannel, PeerConnectedEvent, Announced, Goto, TypeOK, chans, unary
  <2>2. CASE SendInitial(s) \/ Return(s) \/ ClearConnected(s)
    BY <2>2 DEF SendInitial, Return, ClearConnected, Goto, TypeOK, chans, unary
  <2>3. CASE PeerDisconnectedEvent(s) \/ Retracted(s)
    BY <2>3 DEF PeerDisconnectedEvent, Retracted, Goto, TypeOK, chans, unary
  <2>4. CASE Announce(s) \/ Retract(s) \/ \E x \in Streams \cup Calls : Receive(s, x)
    BY <2>4 DEF Announce, Retract, Receive, chans, unary
  <2> QED
    BY <1>1, <2>1, <2>2, <2>3, <2>4 DEF UpdateStream
<1>2. ASSUME NEW s \in Streams, RemoveChannel(s) PROVE reaping' = {}
  BY <1>2 DEF RemoveChannel, unary
<1>3. ASSUME NEW c \in Calls, UnaryCall(c) PROVE Same
  <2>1. ~Reap(c)
    BY DEF Reap
  <2>2. ~LogoutPeer(c)
    BY DEF LogoutPeer, SendOver, TypeOK, CallRecord
  <2>3. CASE PunchSent(c) \/ DeleteRow(c)
    BY <2>3 DEF PunchSent, DeleteRow, chans
  <2> QED
    BY <1>3, <2>1, <2>2, <2>3 DEF UnaryCall
<1>4. ASSUME NEW s \in Streams, Open(s) \/ Refuse(s) \/ Leave(s) PROVE Same
  BY <1>4 DEF Open, Refuse, Leave, Goto, TypeOK, chans, unary
<1>5. ASSUME NEW c \in Calls, NEW p \in Peers, Punch(c, p) \/ Reauth(c, p) \/ DeletePeer(c, p)
      PROVE  Same
  BY <1>5 DEF Punch, Reauth, DeletePeer, chans
<1>6. ASSUME NEW p \in Peers, AuthExpires(p) \/ LoginPeer(p) PROVE Same
  BY <1>6 DEF AuthExpires, LoginPeer, chans, unary
<1>7. ASSUME ProcessEnds PROVE Same
  BY <1>7 DEF ProcessEnds
<1>8. ASSUME UNCHANGED vars PROVE Same
  BY <1>8 DEF vars, chans, unary
<1> HIDE DEF Same
<1>9. Same \/ \E s \in Streams : RemoveChannel(s)
  BY <1>1, <1>3, <1>4, <1>5, <1>6, <1>7, <1>8 DEF Next, Serve, Request, Panic, Restart
<1> QED
  BY <1>2, <1>9 DEF Same

\* While nobody is logged out, no call loses its channel before it is done with it, for
\* any number of peers, calls, restarts and database errors, as long as a node opens its
\* streams one after the other: the deferred DeletePeerUpdateChannel, which closes
\* whichever channel is in the map, closes that of its own call.
THEOREM NoChannelStolen ==
    ASSUME InTurn, Kinds \subseteq {"punch"}
    PROVE  Spec => []ClosedOnlyOnLogout
<1> DEFINE Inv == TypeOK /\ OneStream /\ EntryInv /\ reaping = {} /\ StillOpen
<1>1. Init => Inv
  BY InitType DEF Init, OneStream, EntryInv, EntryLive, OpenUntilStored, StillOpen, Idle
<1>2. Inv /\ [Next]_vars => Inv'
  <2> SUFFICES ASSUME Inv, [Next]_vars PROVE Inv'
    OBVIOUS
  <2>1. TypeOK' /\ OneStream' /\ EntryInv' /\ reaping' = {}
    BY StepType, OneStreamStep, StepEntryInv, ClosingSteps
  <2>2. CASE /\ closed' = closed
             /\ \A t \in Streams : pc'[t] \in Live => pc[t] \in Live \cup {"new"}
    BY <2>1, <2>2 DEF StillOpen, EntryInv, OpenUntilStored, TypeOK
  <2>3. ASSUME NEW s \in Streams, RemoveChannel(s) PROVE StillOpen'
    <3>1. /\ pc[s] = "returning" /\ pc'[s] = "removed"
          /\ \A t \in Streams : t # s => pc'[t] = pc[t]
          /\ closed' = closed \cup ({entry[Owner[s]]} \ {None})
      BY <2>3 DEF RemoveChannel, DeletePeerUpdateChannel, Goto, TypeOK
    <3>2. entry[Owner[s]] = None \/ entry[Owner[s]] = s
      BY <3>1, UpdateStreamsAssumption DEF OneStream, EntryInv, EntryLive, TypeOK, Idle
    <3> QED
      BY <3>1, <3>2 DEF StillOpen, TypeOK, Live, Opening
  <2> QED
    BY <2>1, <2>2, <2>3, ClosingSteps
<1>3. Inv => ClosedOnlyOnLogout
  BY DEF StillOpen, ClosedOnlyOnLogout, Live
<1> QED
  BY <1>1, <1>2, <1>3, PTL DEF Spec

\* The goroutines with something to do of their own accord.
BusyStream(s) == \/ pc[s] \notin Idle \cup {"serving"}
                 \/ pc[s] = "serving" /\ s \in gone \cup closed
BusyCall(c)   == call[c] # NoCall /\ call[c].pc # "done"
Busy          == {s \in Streams : BusyStream(s)} \cup {c \in Calls : BusyCall(c)}

OneBusy == \A x, y \in Busy : x = y

\* Whoever sends is busy, and sends to a call that waits in its loop.
SendersBusy ==
    \A x \in Streams \cup Calls : out[x] # NoSend =>
        /\ x \in Busy
        /\ out[x].to # x
        /\ pc[out[x].to] = "serving"

CallsSend == \A c \in Calls : out[c] # NoSend => call[c] # NoCall /\ call[c].pc = "sending"

\* An event is not sent to the peer that it is about.
LeftOthers == \A s \in Streams : Owner[s] \notin left[s]

QuietInv == ~down /\ OneBusy /\ SendersBusy /\ CallsSend /\ LeftOthers

\* Nobody is busy when the controller is at rest.
LEMMA RestIsQuiet ==
    ASSUME TypeOK, AtRest
    PROVE  Busy = {} /\ \A x \in Streams \cup Calls : out[x] = NoSend
  BY DEF AtRest, Busy, BusyStream, BusyCall

\* A step after which nobody sends and one goroutine at most is busy.
LEMMA QuietStep ==
    ASSUME NEW y, Busy' \subseteq {y}, \A x \in Streams \cup Calls : out'[x] = NoSend,
           ~down', LeftOthers'
    PROVE  QuietInv'
  BY DEF QuietInv, OneBusy, SendersBusy, CallsSend

\* An event goes to everyone but its subject.
LEMMA LeftStep ==
    ASSUME TypeOK, LeftOthers, [Next]_vars
    PROVE  LeftOthers'
<1> USE UpdateStreamsAssumption
<1>1. CASE UNCHANGED left
  BY <1>1 DEF LeftOthers
<1>2. ASSUME NEW s \in Streams, RangeStart(s) PROVE LeftOthers'
  BY <1>2 DEF RangeStart, LeftOthers, TypeOK
<1>3. ASSUME NEW s \in Streams, NEW type, RangeVisit(s, type) PROVE LeftOthers'
  BY <1>3 DEF RangeVisit, LeftOthers, TypeOK
<1>4. ASSUME NEW s \in Streams, left' = [left EXCEPT ![s] = {}] PROVE LeftOthers'
  BY <1>4 DEF LeftOthers, TypeOK
<1>5. CASE ProcessEnds
  BY <1>5 DEF ProcessEnds, LeftOthers
<1>6. ASSUME NEW s \in Streams, UpdateStream(s) PROVE LeftOthers'
  <2>1. CASE PeerConnectedEvent(s) \/ PeerDisconnectedEvent(s)
    BY <1>1, <1>2, <2>1 DEF PeerConnectedEvent, PeerDisconnectedEvent, ranges
  <2>2. CASE Announce(s) \/ Retract(s)
    BY <1>3, <2>2 DEF Announce, Retract
  <2>3. CASE Announced(s) \/ Retracted(s)
    BY <1>4, <2>3 DEF Announced, Retracted
  <2>4. CASE GetPeerUpdateChannel(s) \/ SendInitial(s) \/ Return(s) \/ RemoveChannel(s) \/ ClearConnected(s)
    BY <1>1, <2>4 DEF GetPeerUpdateChannel, SendInitial, Return, RemoveChannel, ClearConnected, ranges
  <2>5. CASE \E x \in Streams \cup Calls : Receive(s, x)
    BY <1>1, <2>5 DEF Receive, ranges
  <2> QED
    BY <1>6, <2>1, <2>2, <2>3, <2>4, <2>5 DEF UpdateStream
<1>7. ASSUME NEW c \in Calls, UnaryCall(c) PROVE UNCHANGED left
  BY <1>7 DEF UnaryCall, PunchSent, LogoutPeer, DeleteRow, Reap, ranges
<1>8. ASSUME NEW s \in Streams, Open(s) \/ Refuse(s) \/ Leave(s) PROVE UNCHANGED left
  BY <1>8 DEF Open, Refuse, Leave, ranges
<1>9. ASSUME NEW c \in Calls, NEW p \in Peers, Punch(c, p) \/ Reauth(c, p) \/ DeletePeer(c, p)
      PROVE  UNCHANGED left
  BY <1>9 DEF Punch, Reauth, DeletePeer, ranges
<1>10. ASSUME NEW p \in Peers, AuthExpires(p) \/ LoginPeer(p) PROVE UNCHANGED left
  BY <1>10 DEF AuthExpires, LoginPeer, ranges
<1>11. ASSUME UNCHANGED vars PROVE UNCHANGED left
  BY <1>11 DEF vars, ranges
<1> QED
  BY <1>1, <1>5, <1>6, <1>7, <1>8, <1>9, <1>10, <1>11 DEF Next, Serve, Request, Panic, Restart

\* The one that is busy is the only one that sends.
LEMMA OneSender ==
    ASSUME OneBusy, SendersBusy, NEW y \in Busy
    PROVE  /\ Busy = {y}
           /\ \A x \in Streams \cup Calls : x # y => out[x] = NoSend
  BY DEF OneBusy, SendersBusy

\* A handler takes a step of its own.
LEMMA HandlerQuiet ==
    ASSUME TypeOK, OneStream, SendsMatch, EntryInv, QuietInv, LeftOthers', NEW u \in Streams,
           UpdateStream(u), \A x \in Streams \cup Calls : ~Receive(u, x)
    PROVE  QuietInv'
<1> USE UpdateStreamsAssumption
<1>1. u \in Busy
  BY DEF UpdateStream, GetPeerUpdateChannel, PeerConnectedEvent, Announce, Announced, SendInitial,
     Return, RemoveChannel, ClearConnected, PeerDisconnectedEvent, Retract, Retracted, Busy,
     BusyStream, Idle
<1>2. Busy = {u} /\ \A x \in Streams \cup Calls : x # u => out[x] = NoSend
  BY <1>1, OneSender DEF QuietInv
<1>3. entry[Owner[u]] \in {None, u} \/ pc[u] # "returning"
  BY DEF OneStream, EntryInv, EntryLive, TypeOK, Idle
<1>4. /\ \A v \in Streams : v # u => pc'[v] = pc[v]
      /\ gone' = gone /\ call' = call /\ down' = down
  <2>1. CASE GetPeerUpdateChannel(u) \/ PeerConnectedEvent(u) \/ Announced(u) \/ SendInitial(u)
    BY <2>1 DEF GetPeerUpdateChannel, PeerConnectedEvent, Announced, SendInitial, Goto, TypeOK,
       clients, unary
  <2>2. CASE Return(u) \/ RemoveChannel(u) \/ ClearConnected(u)
    BY <2>2 DEF Return, RemoveChannel, ClearConnected, Goto, TypeOK, clients, unary
  <2>3. CASE PeerDisconnectedEvent(u) \/ Retracted(u) \/ Announce(u) \/ Retract(u)
    BY <2>3 DEF PeerDisconnectedEvent, Retracted, Announce, Retract, Goto, TypeOK, clients, unary
  <2> QED
    BY <2>1, <2>2, <2>3 DEF UpdateStream
<1>5. closed' \subseteq closed \cup {u}
  <2>1. CASE RemoveChannel(u)
    BY <1>3, <2>1 DEF RemoveChannel, DeletePeerUpdateChannel
  <2>2. CASE ~RemoveChannel(u)
    BY <2>2 DEF UpdateStream, GetPeerUpdateChannel, PeerConnectedEvent, Announce, Announced,
       SendInitial, Return, ClearConnected, PeerDisconnectedEvent, Retract, Retracted, chans
  <2> QED
    BY <2>1, <2>2
<1>6. Busy' \subseteq {u}
  <2>1. \A v \in Streams : v # u => (BusyStream(v)' => BusyStream(v))
    BY <1>4, <1>5 DEF BusyStream
  <2>2. \A c \in Calls : BusyCall(c)' => BusyCall(c)
    BY <1>4 DEF BusyCall
  <2> QED
    BY <1>2, <2>1, <2>2 DEF Busy
<1>7. CASE ~Announce(u) /\ ~Retract(u)
  <2>1. out' = out
    BY <1>7 DEF UpdateStream, GetPeerUpdateChannel, PeerConnectedEvent, Announced, SendInitial,
       Return, RemoveChannel, ClearConnected, PeerDisconnectedEvent, Retracted
  <2>2. out[u] = NoSend
    BY <1>7 DEF UpdateStream, GetPeerUpdateChannel, PeerConnectedEvent, Announced, SendInitial,
       Return, RemoveChannel, ClearConnected, PeerDisconnectedEvent, Retracted, RangeOver, SendsMatch
  <2> QED
    BY <1>2, <1>4, <1>6, <2>1, <2>2, QuietStep DEF QuietInv
<1>8. CASE Announce(u) \/ Retract(u)
  <2>1. PICK p \in left[u] :
          entry[p] # None /\ \E m : out' = [out EXCEPT ![u] = [to |-> entry[p], msg |-> m]]
    BY <1>8 DEF Announce, Retract, RangeVisit
  <2>2. p \in Peers /\ entry[p] \in Streams /\ p # Owner[u]
    BY <2>1 DEF TypeOK, QuietInv, LeftOthers
  <2>3. entry[p] # u /\ pc[entry[p]] \in {"stored", "announcing", "listing", "serving", "returning"}
    BY <2>1, <2>2 DEF EntryInv, EntryLive
  <2>4. pc[entry[p]] = "serving"
    BY <1>2, <2>2, <2>3 DEF Busy, BusyStream, Idle
  <2>5. /\ \A x \in Streams \cup Calls : x # u => out'[x] = NoSend
        /\ out'[u].to = entry[p]
    BY <1>2, <2>1 DEF TypeOK
  <2>6. UNCHANGED <<pc, gone, closed>>
    BY <1>8 DEF Announce, Retract, clients, chans
  <2>7. u \in Busy'
    BY <1>1, <2>6 DEF Busy, BusyStream
  <2>8. SendersBusy'
    BY <2>3, <2>4, <2>5, <2>6, <2>7 DEF SendersBusy
  <2>9. CallsSend'
    BY <2>5 DEF CallsSend
  <2> QED
    BY <1>4, <1>6, <2>8, <2>9 DEF QuietInv, OneBusy
<1> QED
  BY <1>7, <1>8

\* The loop of u receives: nobody becomes busy.
LEMMA ReceiveQuiet ==
    ASSUME TypeOK, QuietInv, LeftOthers', NEW u \in Streams, NEW x \in Streams \cup Calls,
           Receive(u, x)
    PROVE  QuietInv'
<1> USE UpdateStreamsAssumption
<1>1. /\ out' = [out EXCEPT ![x] = NoSend] /\ out[x] # NoSend
      /\ UNCHANGED <<pc, gone, closed, call, down>>
  BY DEF Receive, chans, unary
<1>2. x \in Busy
  BY <1>1 DEF QuietInv, SendersBusy
<1>3. Busy = {x} /\ \A y \in Streams \cup Calls : y # x => out[y] = NoSend
  BY <1>2, OneSender DEF QuietInv
<1>4. Busy' = Busy
  BY <1>1 DEF Busy, BusyStream, BusyCall
<1>5. \A y \in Streams \cup Calls : out'[y] = NoSend
  BY <1>1, <1>3 DEF TypeOK
<1> QED
  BY <1>1, <1>3, <1>4, <1>5, QuietStep DEF QuietInv

\* A unary call goes on, or a delayed clean-up closes a channel.
LEMMA UnaryQuiet ==
    ASSUME TypeOK, OneAtATime = TRUE, EntryInv, QuietInv, LeftOthers', NEW c \in Calls, UnaryCall(c)
    PROVE  QuietInv'
<1> USE UpdateStreamsAssumption
<1>1. CASE PunchSent(c) \/ LogoutPeer(c) \/ DeleteRow(c)
  <2>1. c \in Busy /\ out[c] = NoSend
    BY <1>1 DEF PunchSent, LogoutPeer, DeleteRow, SendOver, Busy, BusyCall, QuietInv, CallsSend
  <2>2. Busy = {c} /\ \A x \in Streams \cup Calls : out[x] = NoSend
    BY <2>1, OneSender DEF QuietInv
  <2>3. /\ UNCHANGED <<pc, gone, closed, out, down>>
        /\ \A d \in Calls : d # c => call'[d] = call[d]
    BY <1>1 DEF PunchSent, LogoutPeer, DeleteRow, TypeOK, chans, clients
  <2>4. Busy' \subseteq {c}
    BY <2>2, <2>3 DEF Busy, BusyStream, BusyCall
  <2> QED
    BY <2>2, <2>3, <2>4, QuietStep DEF QuietInv
<1>2. CASE Reap(c)
  <2>1. AtRest /\ call[c].peer \in Peers
    BY <1>2 DEF Reap, TypeOK, CallRecord
  <2>2. Busy = {} /\ \A x \in Streams \cup Calls : out[x] = NoSend
    BY <2>1, RestIsQuiet
  <2>3. /\ UNCHANGED <<pc, gone, out, call, down>>
        /\ closed' \subseteq closed \cup {entry[call[c].peer]}
    BY <1>2 DEF Reap, DeletePeerUpdateChannel, clients
  <2>4. Busy' \subseteq {entry[call[c].peer]}
    BY <2>2, <2>3 DEF Busy, BusyStream, BusyCall
  <2> QED
    BY <2>2, <2>3, <2>4, QuietStep DEF QuietInv
<1> QED
  BY <1>1, <1>2 DEF UnaryCall

\* A request arrives at a controller at rest.
LEMMA RequestQuiet ==
    ASSUME TypeOK, OneAtATime = TRUE, EntryInv, QuietInv, LeftOthers', Request
    PROVE  QuietInv'
<1> USE UpdateStreamsAssumption
<1>1. ASSUME Admitted PROVE AtRest /\ Busy = {} /\ \A x \in Streams \cup Calls : out[x] = NoSend
  BY <1>1, RestIsQuiet DEF Admitted
<1>2. ASSUME NEW u \in Streams, Open(u) \/ Refuse(u) \/ Leave(u) PROVE QuietInv'
  <2>1. Admitted /\ UNCHANGED <<out, call, closed, down>>
    BY <1>2 DEF Open, Refuse, Leave, unary, chans
  <2>2. \A v \in Streams : v # u => pc'[v] = pc[v] /\ (v \in gone' => v \in gone)
    BY <1>2 DEF Open, Refuse, Leave, Goto, TypeOK, clients
  <2>3. Busy' \subseteq {u}
    BY <1>1, <2>1, <2>2 DEF Busy, BusyStream, BusyCall
  <2> QED
    BY <1>1, <2>1, <2>3, QuietStep DEF QuietInv
<1>3. ASSUME NEW c \in Calls, NEW p \in Peers, Punch(c, p) \/ Reauth(c, p) \/ DeletePeer(c, p)
      PROVE  QuietInv'
  <2>1. Admitted /\ UNCHANGED <<pc, gone, closed, down>>
    BY <1>3 DEF Punch, Reauth, DeletePeer, clients, chans
  <2>2. PICK k, l : call' = [call EXCEPT ![c] = [kind |-> k, peer |-> p, pc |-> l]]
                    /\ l \in {"sending", "sent"} /\ (UNCHANGED out \/ l = "sending")
    BY <1>3 DEF Punch, Reauth, DeletePeer
  <2>3. call'[c] # NoCall /\ call'[c].pc = l /\ \A d \in Calls : d # c => call'[d] = call[d]
    BY <2>2 DEF TypeOK, NoCall
  <2>4. Busy' = {c}
    BY <1>1, <2>1, <2>2, <2>3 DEF Busy, BusyStream, BusyCall
  <2>5. UNCHANGED out \/ SendTo(c, p, "PUNCH") \/ SendTo(c, p, "LOGOUT")
    BY <1>3 DEF Punch, Reauth, DeletePeer
  <2>6. /\ \A x \in Streams \cup Calls : x # c => out'[x] = NoSend
        /\ out'[c] # NoSend => /\ l = "sending" /\ entry[p] # None
                               /\ out'[c].to = entry[p]
    BY <1>1, <2>1, <2>2, <2>5 DEF SendTo, TypeOK
  <2>7. entry[p] # None => entry[p] \in Streams /\ pc[entry[p]] = "serving"
    BY <1>1, <2>1 DEF AtRest, EntryInv, EntryLive, TypeOK, Idle
  <2>8. SendersBusy' /\ CallsSend'
    BY <2>1, <2>3, <2>4, <2>6, <2>7 DEF SendersBusy, CallsSend
  <2> QED
    BY <2>1, <2>4, <2>8 DEF QuietInv, OneBusy
<1>4. ASSUME NEW p \in Peers, AuthExpires(p) \/ LoginPeer(p) PROVE QuietInv'
  <2>1. UNCHANGED <<pc, gone, closed, out, call, down>>
    BY <1>4 DEF AuthExpires, LoginPeer, chans, clients, unary
  <2>2. Busy' = Busy
    BY <2>1 DEF Busy, BusyStream, BusyCall
  <2> QED
    BY <2>1, <2>2 DEF QuietInv, OneBusy, SendersBusy, CallsSend
<1>5. CASE Restart
  <2>1. /\ \A s \in Streams : pc'[s] \in Idle
        /\ \A x \in Streams \cup Calls : out'[x] = NoSend
        /\ ~down'
    BY <1>5 DEF Restart, ProcessEnds, Idle
  <2>2. \A c \in Calls : call'[c] = NoCall \/ call'[c].pc = "done"
    BY <1>5 DEF Restart, ProcessEnds, TypeOK, CallRecord
  <2>3. Busy' = {}
    BY <2>1, <2>2 DEF Busy, BusyStream, BusyCall, Idle
  <2> QED
    BY <2>1, <2>3, QuietStep
<1> QED
  BY <1>2, <1>3, <1>4, <1>5 DEF Request

\* Nobody sends on a closed channel, and the controller stays up, for any number of peers
\* and calls of every method, clean-ups ten seconds later, restarts and database errors,
\* as long as requests and clean-ups begin when the handlers are in their loops
\* and a node opens its streams one after the other.  The one goroutine that sends has
\* looked its channel up since then, and the reader of an entry of the map is in its loop.
THEOREM NoPanic ==
    ASSUME InTurn, OneAtATime = TRUE
    PROVE  Spec => []ControllerUp
<1> DEFINE Inv == TypeOK /\ OneStream /\ SendsMatch /\ EntryInv /\ QuietInv
<1>1. Init => Inv
  <2> SUFFICES ASSUME Init PROVE Inv
    OBVIOUS
  <2>1. /\ \A s \in Streams : pc[s] = "new" /\ left[s] = {}
        /\ \A c \in Calls : call[c] = NoCall
        /\ \A x \in Streams \cup Calls : out[x] = NoSend
        /\ closed = {} /\ ~down
    BY DEF Init
  <2>2. OneStream /\ SendsMatch
    BY <2>1 DEF OneStream, SendsMatch, Idle
  <2>3. EntryInv
    BY DEF Init, EntryInv, EntryLive, OpenUntilStored
  <2>4. QuietInv
    BY <2>1 DEF QuietInv, OneBusy, SendersBusy, CallsSend, LeftOthers, Busy, BusyStream, BusyCall, Idle
  <2> QED
    BY <2>2, <2>3, <2>4, InitType
<1>2. Inv /\ [Next]_vars => Inv'
  <2> SUFFICES ASSUME Inv, [Next]_vars PROVE Inv'
    OBVIOUS
  <2>1. TypeOK' /\ OneStream' /\ SendsMatch' /\ EntryInv' /\ LeftOthers'
    BY StepType, OneStreamStep, SendsStep, StepEntryInv, LeftStep DEF QuietInv
  <2>2. ASSUME NEW s \in Streams, UpdateStream(s) PROVE QuietInv'
    BY <2>1, <2>2, HandlerQuiet, ReceiveQuiet
  <2>3. ASSUME NEW c \in Calls, UnaryCall(c) PROVE QuietInv'
    BY <2>1, <2>3, UnaryQuiet
  <2>4. ASSUME NEW x \in Streams \cup Calls, Panic(x) PROVE FALSE
    <3>1. out[x] # NoSend /\ out[x].to \in closed
      BY <2>4 DEF Panic
    <3>2. x \in Busy /\ out[x].to # x /\ pc[out[x].to] = "serving"
      BY <3>1 DEF QuietInv, SendersBusy
    <3>3. out[x].to \in Busy
      BY <3>1, <3>2 DEF Busy, BusyStream, TypeOK
    <3> QED
      BY <3>2, <3>3 DEF QuietInv, OneBusy
  <2>5. CASE Request
    BY <2>1, <2>5, RequestQuiet
  <2>6. CASE UNCHANGED vars
    <3>1. UNCHANGED <<pc, gone, closed, out, call, down>>
      BY <2>6 DEF vars, chans, clients, unary
    <3>2. Busy' = Busy
      BY <3>1 DEF Busy, BusyStream, BusyCall
    <3>3. QuietInv'
      BY <2>1, <3>1, <3>2 DEF QuietInv, OneBusy, SendersBusy, CallsSend
    <3> QED
      BY <2>1, <3>3
  <2>7. QuietInv'
    BY <2>2, <2>3, <2>4, <2>5, <2>6 DEF Next, Serve
  <2> QED
    BY <2>1, <2>7
<1>3. Inv => ControllerUp
  BY DEF QuietInv, ControllerUp
<1> QED
  BY <1>1, <1>2, <1>3, PTL DEF Spec
===============================================================================
