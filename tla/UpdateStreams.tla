---------------------------- MODULE UpdateStreams ----------------------------
(***************************************************************************)
(* The controller's update streams (controller/peer_updates.go and          *)
(* GRPCServer.UpdateStream in controller/grpc_v1.go): every node that is up *)
(* keeps one open, and is told by it which peers are connected, which want  *)
(* a hole punched, and that it is logged out.                               *)
(*                                                                         *)
(* Each call of UpdateStream is a goroutine with an unbuffered channel that *)
(* it alone reads; peerChannels, a sync.Map, leads from the id of a peer to *)
(* the channel of its latest call.  Whoever has news for a peer sends on    *)
(* that channel and waits for the reader; a send on a closed channel is a   *)
(* panic, which nothing recovers.  One step is one access to the database   *)
(* or to the map, or one rendezvous on a channel.                           *)
(*                                                                         *)
(* Range promises less than a snapshot: a key that is in the map for the    *)
(* whole call is visited once, a key stored or deleted meanwhile may be     *)
(* visited or not, and the value is the one of the moment of the visit.     *)
(***************************************************************************)
EXTENDS Naturals

CONSTANTS
    Peers,        \* ids of the registered peers
    Streams,      \* calls of UpdateStream, each with its own channel
    Owner,        \* Owner[s]: the peer that makes the call s
    Calls,        \* calls of the unary methods
    Kinds,        \* the unary methods called: "punch", "reauth", "delete"
    None,         \* no channel
    Overlap,      \* may a node open a stream while its last one is cleaned up?
    OneAtATime,   \* do requests arrive only when the controller is at rest?
    MaxFaults,    \* bound: failing accesses to the database
    MaxRestarts   \* bound: restarts of the controller process

ASSUME UpdateStreamsAssumption ==
    /\ Owner \in [Streams -> Peers]
    /\ None \notin Streams
    /\ Streams \cap Calls = {}
    /\ Kinds \subseteq {"punch", "reauth", "delete"}
    /\ Overlap \in BOOLEAN
    /\ OneAtATime \in BOOLEAN
    /\ MaxFaults \in Nat
    /\ MaxRestarts \in Nat

VARIABLES
    rows,       \* the peers that have a row in the database
    connected,  \* those of them whose column connected is true
    expired,    \* the peers whose last authentication is 30 days old
    entry,      \* peerChannels: entry[p] is the call that made the channel
    closed,     \* the calls whose channel is closed
    pc,         \* pc[s]: how far the call s has come
    must,       \* must[s]: keys that the Range in progress still has to visit
    left,       \* left[s]: keys that it has not visited, present or not
    out,        \* out[x]: the update that goroutine x is sending
    gone,       \* the calls whose client has disconnected
    view,       \* view[s]: peers that the loop of s last told its client are connected
    dismissed,  \* the calls whose client was told to log out
    call,       \* call[c]: method, subject and progress of the unary call c
    reaping,    \* unary calls whose delayed DeletePeerUpdateChannel is due
    down,       \* has the process ended with a panic?
    faults,     \* number of failed accesses to the database
    restarts    \* number of restarts so far

db      == <<rows, connected, expired, faults>>
chans   == <<entry, closed>>
ranges  == <<must, left>>
clients == <<gone, view, dismissed>>
unary   == <<call, reaping>>
vars    == <<db, chans, pc, ranges, out, clients, unary, down, restarts>>

\* UpdateStream before it runs, after SetPeerConnected, GetPeerUpdateChannel,
\* inside and after PeerConnectedEvent, in its loop, on return, after each of
\* the three deferred calls, and when it has ended.
Idle    == {"new", "done"}
Opening == {"flagged", "stored", "announcing", "listing"}
Closing == {"returning", "removed", "cleared", "retracting"}
PC      == Idle \cup Opening \cup {"serving"} \cup Closing

Update(type, p) == [type |-> type, peer |-> p]
Updates == [type : {"CONNECT", "DISCONNECT", "LOGOUT", "PUNCH"}, peer : Peers]
NoSend  == [to |-> None]
Sends   == [to : Streams, msg : Updates]

NoCall     == [pc |-> "new"]
CallRecord == [kind : Kinds, peer : Peers, pc : {"sending", "sent", "done"}]

Init ==
    /\ rows = Peers
    /\ connected = {}
    /\ expired = {}
    /\ entry = [p \in Peers |-> None]
    /\ closed = {}
    /\ pc = [s \in Streams |-> "new"]
    /\ must = [s \in Streams |-> {}]
    /\ left = [s \in Streams |-> {}]
    /\ out = [x \in Streams \cup Calls |-> NoSend]
    /\ gone = {}
    /\ view = [s \in Streams |-> {}]
    /\ dismissed = {}
    /\ call = [c \in Calls |-> NoCall]
    /\ reaping = {}
    /\ down = FALSE
    /\ faults = 0
    /\ restarts = 0

AtRest ==
    /\ \A s \in Streams : pc[s] \in Idle \cup {"serving"}
    /\ \A s \in Streams : pc[s] = "serving" => s \notin gone \cup closed
    /\ \A x \in Streams \cup Calls : out[x] = NoSend
    /\ \A c \in Calls : call[c] = NoCall \/ call[c].pc = "done"

\* What clients may do next: everything, or one thing at a time.
Admitted == ~down /\ (OneAtATime => AtRest)

Goto(s, label) == pc' = [pc EXCEPT ![s] = label]

\* An access to the database fails (SQLITE_BUSY, an I/O error).
Fault == faults < MaxFaults /\ faults' = faults + 1

-----------------------------------------------------------------------------
(* The channel map.                                                         *)

\* Mutant: the channel is closed and its key stays in the map.
DeletePeerUpdateChannelKeepsKey(p) ==
    /\ closed' = closed \cup ({entry[p]} \ {None})
    /\ UNCHANGED <<entry, must>>

\* Mutant: every channel is closed, as CloseAllPeerUpdateChannels does.
DeletePeerUpdateChannelAll(p) ==
    /\ closed' = closed \cup ({entry[q] : q \in Peers} \ {None})
    /\ entry' = [q \in Peers |-> None]
    /\ must' = [s \in Streams |-> {}]

\* DeletePeerUpdateChannel: whichever channel is there now is closed.  A Range
\* in progress need not visit the key any more.
DeletePeerUpdateChannel(p) ==
    /\ entry' = [entry EXCEPT ![p] = None]
    /\ closed' = closed \cup ({entry[p]} \ {None})
    /\ must' = [s \in Streams |-> must[s] \ {p}]

\* Mutant: the event also goes to the peer that it is about.
RangeStartSelf(s) ==
    /\ must' = [must EXCEPT ![s] = {p \in Peers : entry[p] # None}]
    /\ left' = [left EXCEPT ![s] = Peers]

\* The keys an event of the peer p goes to: all but its own.
RangeStart(s) ==
    LET others == Peers \ {Owner[s]} IN
    /\ must' = [must EXCEPT ![s] = {p \in others : entry[p] # None}]
    /\ left' = [left EXCEPT ![s] = others]

\* Range calls its function with the next key and the channel stored for it.
RangeVisit(s, type) ==
    /\ out[s] = NoSend
    /\ \E p \in left[s] :
        /\ entry[p] # None
        /\ out' = [out EXCEPT ![s] = [to |-> entry[p], msg |-> Update(type, Owner[s])]]
        /\ must' = [must EXCEPT ![s] = @ \ {p}]
        /\ left' = [left EXCEPT ![s] = @ \ {p}]

RangeOver(s) == out[s] = NoSend /\ must[s] = {}

-----------------------------------------------------------------------------
(* GRPCServer.UpdateStream.                                                 *)

\* The checks pass and SetPeerConnected(peer, true) succeeds.
Open(s) ==
    LET p == Owner[s] IN
    /\ Admitted
    /\ pc[s] = "new"
    /\ p \in rows /\ p \notin expired
    /\ Overlap \/ \A t \in Streams : Owner[t] = p => pc[t] \in Idle
    /\ connected' = connected \cup {p}
    /\ Goto(s, "flagged")
    /\ UNCHANGED <<rows, expired, faults, chans, ranges, out, clients, unary, down, restarts>>

\* A check fails, or SetPeerConnected does: the call returns before the defer.
Refuse(s) ==
    /\ Admitted
    /\ pc[s] = "new"
    /\ \/ Owner[s] \notin rows \ expired /\ UNCHANGED faults
       \/ Fault
    /\ Goto(s, "done")
    /\ UNCHANGED <<rows, connected, expired, chans, ranges, out, clients, unary, down, restarts>>

GetPeerUpdateChannel(s) ==
    /\ pc[s] = "flagged"
    /\ entry' = [entry EXCEPT ![Owner[s]] = s]
    /\ Goto(s, "stored")
    /\ UNCHANGED <<db, closed, ranges, out, clients, unary, down, restarts>>

\* Mutant: the event is left out.
PeerConnectedEventSkipped(s) ==
    /\ pc[s] = "stored"
    /\ Goto(s, "listing")
    /\ UNCHANGED <<db, chans, ranges, out, clients, unary, down, restarts>>

\* PeerConnectedEvent looks the peer up, and does nothing when there is none.
PeerConnectedEvent(s) ==
    /\ pc[s] = "stored"
    /\ \/ /\ Owner[s] \in rows
          /\ RangeStart(s)
          /\ Goto(s, "announcing")
          /\ UNCHANGED faults
       \/ /\ \/ Owner[s] \notin rows /\ UNCHANGED faults
             \/ Fault
          /\ Goto(s, "listing")
          /\ UNCHANGED ranges
    /\ UNCHANGED <<rows, connected, expired, chans, out, clients, unary, down, restarts>>

Announce(s) ==
    /\ pc[s] = "announcing"
    /\ RangeVisit(s, "CONNECT")
    /\ UNCHANGED <<db, chans, pc, clients, unary, down, restarts>>

Announced(s) ==
    /\ pc[s] = "announcing"
    /\ RangeOver(s)
    /\ Goto(s, "listing")
    /\ left' = [left EXCEPT ![s] = {}]
    /\ UNCHANGED <<db, chans, must, out, clients, unary, down, restarts>>

\* The peers connected according to the database, without the one that asks.
GetConnectedPeers(p) == connected \ {p}

\* The INIT message, made from GetConnectedPeers, which may fail to be sent when
\* the client is gone.
SendInitial(s) ==
    /\ pc[s] = "listing"
    /\ \/ /\ view' = [view EXCEPT ![s] = GetConnectedPeers(Owner[s])]
          /\ Goto(s, "serving")
          /\ UNCHANGED faults
       \/ /\ \/ s \in gone /\ UNCHANGED faults
             \/ Fault
          /\ Goto(s, "returning")
          /\ UNCHANGED view
    /\ UNCHANGED <<rows, connected, expired, chans, ranges, out, gone, dismissed, unary, down, restarts>>

\* What an update adds to what the client knows.
Learn(s, m) ==
    /\ view' = [view EXCEPT ![s] = CASE m.type = "CONNECT"    -> @ \cup {m.peer}
                                     [] m.type = "DISCONNECT" -> @ \ {m.peer}
                                     [] OTHER                 -> @]
    /\ dismissed' = IF m.type = "LOGOUT" THEN dismissed \cup {s} ELSE dismissed

\* The loop receives what goroutine x sends and passes it on; an error of
\* stream.Send is only logged.
Receive(s, x) ==
    /\ pc[s] = "serving"
    /\ s \notin closed
    /\ out[x] # NoSend /\ out[x].to = s
    /\ Learn(s, out[x].msg)
    /\ out' = [out EXCEPT ![x] = NoSend]
    /\ UNCHANGED <<db, chans, pc, ranges, gone, unary, down, restarts>>

\* Mutant: the loop does not watch the context of the stream.
ReturnWhenClosed(s) ==
    /\ pc[s] = "serving"
    /\ s \in closed
    /\ Goto(s, "returning")
    /\ UNCHANGED <<db, chans, ranges, out, clients, unary, down, restarts>>

\* The loop ends: the client is gone or the channel closed.
Return(s) ==
    /\ pc[s] = "serving"
    /\ s \in gone \cup closed
    /\ Goto(s, "returning")
    /\ view' = [view EXCEPT ![s] = {}]
    /\ UNCHANGED <<db, chans, ranges, out, gone, dismissed, unary, down, restarts>>

\* Mutant: the channel stays in the map.
RemoveChannelSkipped(s) ==
    /\ pc[s] = "returning"
    /\ Goto(s, "removed")
    /\ UNCHANGED <<db, chans, ranges, out, clients, unary, down, restarts>>

\* The three deferred calls, one after the other.
RemoveChannel(s) ==
    /\ pc[s] = "returning"
    /\ DeletePeerUpdateChannel(Owner[s])
    /\ Goto(s, "removed")
    /\ UNCHANGED <<db, left, out, clients, unary, down, restarts>>

\* Mutant: the deferred call leaves the flag set.
ClearConnectedKeeps(s) ==
    /\ pc[s] = "removed"
    /\ Goto(s, "cleared")
    /\ UNCHANGED <<db, chans, ranges, out, clients, unary, down, restarts>>

\* The error of SetPeerConnected is dropped.
ClearConnected(s) ==
    /\ pc[s] = "removed"
    /\ \/ connected' = connected \ {Owner[s]} /\ UNCHANGED faults
       \/ Fault /\ UNCHANGED connected
    /\ Goto(s, "cleared")
    /\ UNCHANGED <<rows, expired, chans, ranges, out, clients, unary, down, restarts>>

\* Mutant: the event is left out.
PeerDisconnectedEventSkipped(s) ==
    /\ pc[s] = "cleared"
    /\ Goto(s, "done")
    /\ UNCHANGED <<db, chans, ranges, out, clients, unary, down, restarts>>

PeerDisconnectedEvent(s) ==
    /\ pc[s] = "cleared"
    /\ \/ /\ Owner[s] \in rows
          /\ RangeStart(s)
          /\ Goto(s, "retracting")
          /\ UNCHANGED faults
       \/ /\ \/ Owner[s] \notin rows /\ UNCHANGED faults
             \/ Fault
          /\ Goto(s, "done")
          /\ UNCHANGED ranges
    /\ UNCHANGED <<rows, connected, expired, chans, out, clients, unary, down, restarts>>

Retract(s) ==
    /\ pc[s] = "retracting"
    /\ RangeVisit(s, "DISCONNECT")
    /\ UNCHANGED <<db, chans, pc, clients, unary, down, restarts>>

Retracted(s) ==
    /\ pc[s] = "retracting"
    /\ RangeOver(s)
    /\ Goto(s, "done")
    /\ left' = [left EXCEPT ![s] = {}]
    /\ UNCHANGED <<db, chans, must, out, clients, unary, down, restarts>>

UpdateStream(s) ==
    \/ GetPeerUpdateChannel(s) \/ PeerConnectedEvent(s) \/ Announce(s) \/ Announced(s)
    \/ SendInitial(s) \/ Return(s) \/ \E x \in Streams \cup Calls : Receive(s, x)
    \/ RemoveChannel(s) \/ ClearConnected(s) \/ PeerDisconnectedEvent(s)
    \/ Retract(s) \/ Retracted(s)

-----------------------------------------------------------------------------
(* The unary methods that reach a stream.                                   *)

\* Mutant: the result of Load is used without a look at ok.
SendToUnchecked(c, p, type) ==
    out' = [out EXCEPT ![c] = [to |-> entry[p], msg |-> Update(type, p)]]

\* Load in PeerPunchRequest and PeerForcedLogoutEvent: send if there is a
\* channel now.
SendTo(c, p, type) ==
    out' = [out EXCEPT ![c] = IF entry[p] = None THEN NoSend
                              ELSE [to |-> entry[p], msg |-> Update(type, p)]]

\* Punch by some peer that passes the checks, for the peer p; nothing happens
\* when p has no row.
Punch(c, p) ==
    /\ Admitted
    /\ "punch" \in Kinds /\ call[c] = NoCall
    /\ rows \ expired # {}
    /\ call' = [call EXCEPT ![c] = [kind |-> "punch", peer |-> p, pc |-> "sending"]]
    /\ IF p \in rows THEN SendTo(c, p, "PUNCH") ELSE UNCHANGED out
    /\ UNCHANGED <<db, chans, pc, ranges, clients, reaping, down, restarts>>

\* LoginPeer of a peer whose authentication expired, without a valid token:
\* LogoutPeer starts with PeerForcedLogoutEvent.
Reauth(c, p) ==
    /\ Admitted
    /\ "reauth" \in Kinds /\ call[c] = NoCall
    /\ p \in rows /\ p \in expired
    /\ call' = [call EXCEPT ![c] = [kind |-> "reauth", peer |-> p, pc |-> "sending"]]
    /\ SendTo(c, p, "LOGOUT")
    /\ UNCHANGED <<db, chans, pc, ranges, clients, reaping, down, restarts>>

\* DeletePeer logs a connected peer out first.
DeletePeer(c, p) ==
    /\ Admitted
    /\ "delete" \in Kinds /\ call[c] = NoCall
    /\ p \in rows
    /\ \/ /\ p \in connected
          /\ call' = [call EXCEPT ![c] = [kind |-> "delete", peer |-> p, pc |-> "sending"]]
          /\ SendTo(c, p, "LOGOUT")
       \/ /\ p \notin connected
          /\ call' = [call EXCEPT ![c] = [kind |-> "delete", peer |-> p, pc |-> "sent"]]
          /\ UNCHANGED out
    /\ UNCHANGED <<db, chans, pc, ranges, clients, reaping, down, restarts>>

\* Has the send of c ended, or was there no channel?
SendOver(c) == call[c] # NoCall /\ call[c].pc = "sending" /\ out[c] = NoSend

PunchSent(c) ==
    /\ SendOver(c) /\ call[c].kind = "punch"
    /\ call' = [call EXCEPT ![c].pc = "done"]
    /\ UNCHANGED <<db, chans, pc, ranges, out, clients, reaping, down, restarts>>

\* The rest of LogoutPeer: the delayed clean-up is started; the update of the
\* row changes none of these columns, as gorm leaves out fields that are zero.
LogoutPeer(c) ==
    /\ SendOver(c) /\ call[c].kind # "punch"
    /\ reaping' = reaping \cup {c}
    /\ call' = [call EXCEPT ![c].pc = IF call[c].kind = "delete" THEN "sent" ELSE "done"]
    /\ UNCHANGED <<db, chans, pc, ranges, out, clients, down, restarts>>

\* db.DeletePeer, the end of DeletePeer.
DeleteRow(c) ==
    /\ call[c] # NoCall /\ call[c].pc = "sent"
    /\ \/ /\ rows' = rows \ {call[c].peer}
          /\ connected' = connected \ {call[c].peer}
          /\ UNCHANGED faults
       \/ Fault /\ UNCHANGED <<rows, connected>>
    /\ call' = [call EXCEPT ![c].pc = "done"]
    /\ UNCHANGED <<expired, chans, pc, ranges, out, clients, reaping, down, restarts>>

\* Ten seconds after LogoutPeer.
Reap(c) ==
    /\ c \in reaping
    /\ OneAtATime => AtRest
    /\ reaping' = reaping \ {c}
    /\ DeletePeerUpdateChannel(call[c].peer)
    /\ UNCHANGED <<db, pc, left, out, clients, call, down, restarts>>

UnaryCall(c) == PunchSent(c) \/ LogoutPeer(c) \/ DeleteRow(c) \/ Reap(c)

-----------------------------------------------------------------------------
(* Panics, and what happens outside the controller.                         *)

\* The process ends, and with it every goroutine and the map.
ProcessEnds ==
    /\ entry' = [p \in Peers |-> None]
    /\ pc' = [s \in Streams |-> IF pc[s] = "new" THEN "new" ELSE "done"]
    /\ must' = [s \in Streams |-> {}]
    /\ left' = [s \in Streams |-> {}]
    /\ out' = [x \in Streams \cup Calls |-> NoSend]
    /\ call' = [c \in Calls |-> IF call[c] = NoCall THEN NoCall
                                ELSE [call[c] EXCEPT !.pc = "done"]]
    /\ reaping' = {}
    /\ UNCHANGED <<db, closed, clients>>

\* A send on a closed channel.
Panic(x) ==
    /\ out[x] # NoSend /\ out[x].to \in closed
    /\ down' = TRUE
    /\ ProcessEnds
    /\ UNCHANGED restarts

\* The client of s cancels the stream (Node.Stop) or its connection breaks.
Leave(s) ==
    /\ Admitted
    /\ pc[s] \notin Idle
    /\ gone' = gone \cup {s}
    /\ UNCHANGED <<db, chans, pc, ranges, out, view, dismissed, unary, down, restarts>>

AuthExpires(p) ==
    /\ "reauth" \in Kinds
    /\ expired' = expired \cup {p}
    /\ UNCHANGED <<rows, connected, faults, chans, pc, ranges, out, clients, unary, down, restarts>>

\* LoginPeer with a valid token.  The row keeps its connected column: the false
\* that ProcessPeerLogin assigns is a zero value, which gorm leaves out.
LoginPeer(p) ==
    /\ Admitted
    /\ p \in rows \cap expired
    /\ expired' = expired \ {p}
    /\ UNCHANGED <<rows, connected, faults, chans, pc, ranges, out, clients, unary, down, restarts>>

\* The controller is stopped, or has panicked, and is started again.
Restart ==
    /\ restarts < MaxRestarts
    /\ OneAtATime => AtRest
    /\ restarts' = restarts + 1
    /\ down' = FALSE
    /\ ProcessEnds

Serve ==
    \/ \E s \in Streams : UpdateStream(s)
    \/ \E c \in Calls : UnaryCall(c)
    \/ \E x \in Streams \cup Calls : Panic(x)

Request ==
    \/ \E s \in Streams : Open(s) \/ Refuse(s) \/ Leave(s)
    \/ \E c \in Calls, p \in Peers : Punch(c, p) \/ Reauth(c, p) \/ DeletePeer(c, p)
    \/ \E p \in Peers : AuthExpires(p) \/ LoginPeer(p)
    \/ Restart

Next == Serve \/ Request

Spec == Init /\ [][Next]_vars

\* Goroutines of the controller are scheduled; nobody has to connect or leave.
FairSpec ==
    /\ Spec
    /\ \A s \in Streams : WF_vars(UpdateStream(s))
    /\ \A c \in Calls : WF_vars(UnaryCall(c))
    /\ \A x \in Streams \cup Calls : WF_vars(Panic(x))

-----------------------------------------------------------------------------
(* Properties.                                                              *)

\* Every variable has its type; in particular only peers with a row are marked
\* connected, and a goroutine sends to a call that exists.
TypeOK ==
    /\ rows \subseteq Peers
    /\ connected \subseteq rows
    /\ expired \subseteq Peers
    /\ entry \in [Peers -> Streams \cup {None}]
    /\ closed \subseteq Streams
    /\ pc \in [Streams -> PC]
    /\ left \in [Streams -> SUBSET Peers]
    /\ must \in [Streams -> SUBSET Peers]
    /\ out \in [Streams \cup Calls -> Sends \cup {NoSend}]
    /\ gone \subseteq Streams
    /\ view \in [Streams -> SUBSET Peers]
    /\ dismissed \subseteq Streams
    /\ call \in [Calls -> CallRecord \cup {NoCall}]
    /\ reaping \subseteq {c \in Calls : call[c] # NoCall}
    /\ down \in BOOLEAN
    /\ faults \in 0..MaxFaults
    /\ restarts \in 0..MaxRestarts

\* A handler that has its channel in the map.
Listening(s) == entry[Owner[s]] = s

\* Every entry of peerChannels belongs to a call of that peer that has not cleaned
\* up yet, and its channel is open: GetPeerUpdateChannel, the deferred clean-up,
\* a delayed one and overlapping calls never leave a channel behind without a
\* reader, or a closed one for the next event to panic on.
EntryLive ==
    \A p \in Peers : entry[p] # None =>
        /\ Owner[entry[p]] = p
        /\ entry[p] \notin closed
        /\ pc[entry[p]] \in {"stored", "announcing", "listing", "serving", "returning"}

\* A client that is being served knows of every peer whose connection has been
\* announced, whatever the order in which the two set their flags, stored their
\* channels, sent their events and read the list (UpdateStream, 188-212): none
\* falls between the list and the events.
NoMissedPeer ==
    \A s, t \in Streams :
        /\ pc[s] = "serving" /\ Listening(s)
        /\ pc[t] \in {"listing", "serving", "returning"}
        /\ Owner[s] # Owner[t] /\ Owner[t] \in rows
        => Owner[t] \in view[s]

\* A client that is being served believes no peer to be connected that has no
\* call in progress: a disconnection reaches everyone who was told, or will be
\* told by the list, of the connection.  (A peer that was deleted is announced to
\* nobody.)
NoGhostPeer ==
    \A s \in Streams : pc[s] = "serving" /\ Listening(s) =>
        \A p \in view[s] \cap rows : \E t \in Streams : Owner[t] = p /\ pc[t] \notin Idle

\* The column connected, which the list is made from, is set for exactly the peers
\* with a call between SetPeerConnected(true) and SetPeerConnected(false).
FlagsMatch ==
    ~down =>
    connected = {p \in rows : \E s \in Streams :
                    Owner[s] = p /\ pc[s] \in Opening \cup {"serving", "returning", "removed"}}

\* The channel of a call is closed under it only if its client was told to log
\* out: no other clean-up takes the channel of a call that is still serving.
ClosedOnlyOnLogout ==
    \A s \in closed : pc[s] \in Opening \cup {"serving"} => s \in dismissed

\* No goroutine sends on a closed channel, which would end the process and every
\* stream with it.
ControllerUp == ~down

\* A call whose client is gone comes to its end: it sends its event and cleans up.
GoneCleanedUp == \A s \in Streams : s \in gone ~> pc[s] = "done"

\* A call that has stored its channel gets to its loop, or ends: its CONNECT event
\* waits for nobody forever.
StreamServed == \A s \in Streams : pc[s] = "stored" ~> pc[s] \in {"serving", "done"}

\* Punch, LoginPeer and DeletePeer return.
CallsReturn == \A c \in Calls : call[c] # NoCall ~> call[c].pc = "done"
===============================================================================
