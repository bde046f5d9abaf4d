------------------------- MODULE NodeLifecycleProofs -------------------------
(***************************************************************************)
(* Theorems about NodeLifecycle, for any peers and however often the node   *)
(* is taken up and down, logged out and disconnected.                       *)
(***************************************************************************)
EXTENDS NodeLifecycle, TLAPS

Records  == 0..(MaxConnects + 1)
Messages == {m \in [type : {"CONNECT", "LOGOUT"},
                    peer : Peers \cup {CHOOSE p \in Peers : TRUE}, version : Records] :
                m.type = "CONNECT" => m.peer \in Peers}
Devices  == {"conn", "tun", "ctx"}
Streams  == [pc : {"none", "recv", "logout", "ended"}, msgs : Seq(Messages), open : BOOLEAN]

\* The types of the variables, those that TypeOK leaves open too.
FlagTypes ==
    /\ node \in [loggedIn : BOOLEAN, running : BOOLEAN, gen : 0..MaxUps, endpoint : 0..MaxNat]
    /\ cmd \in [pc : {"idle", "login", "run", "sleep", "store", "down"}, endpoint : 0..MaxNat]
    /\ stop \in [Actors -> {"no", "peers", "devices", "store", "logout"}]
DeviceTypes == live \in [conn : SUBSET Gens, tun : SUBSET Gens, ctx : SUBSET Gens]
ReaderTypes ==
    reader \in [Gens -> [pc : {"none", "read", "report", "ended"}, conn : 0..MaxUps,
                         endpoint : 0..MaxNat]]
TickerTypes == ticker \in [Gens -> [pc : {"none", "select", "ended"}, ctx : 0..MaxUps]]
StreamTypes == stream \in [Gens -> Streams]
PeerTypes == known \in [Peers -> Records] /\ serving \in [Peers -> BOOLEAN]
WorldTypes ==
    /\ ctl \in [loggedIn : BOOLEAN, endpoint : 0..MaxNat, version : [Peers -> Records],
                connected : SUBSET Peers]
    /\ nat \in 0..MaxNat
HistoryTypes ==
    /\ hist \in [mixed : BOOLEAN, failed : BOOLEAN, overtaken : BOOLEAN, left : SUBSET Peers]
    /\ crash \in {"none", "no response", "stream refused"}

\* A peer has no more records than there were connections.
CountTypes ==
    /\ spent \in [commands : Nat, connects : 0..MaxConnects, logouts : Nat, faults : Nat]
    /\ \A p \in Peers : ctl.version[p] <= spent.connects + 1

TypeInv == /\ FlagTypes /\ DeviceTypes /\ ReaderTypes /\ TickerTypes /\ StreamTypes
           /\ PeerTypes /\ WorldTypes /\ HistoryTypes /\ CountTypes

\* Where a Stop is that has not yet declared the node stopped.
InStop(a) == stop[a] \in {"peers", "devices", "store"}

\* While no Stop has met a Start or another Stop: the commander stops exactly in Down,
\* one actor at a time takes a running node down, and a stream that is about to
\* forget the login finds the node down.
Phases ==
    Alive =>
        /\ stop[0] # "logout"
        /\ stop[0] = "no" <=> cmd.pc # "down"
        /\ Starting => ~node.running
        /\ \A a \in Actors : InStop(a) =>
               node.running /\ ~Starting /\ \A b \in Actors : b # a => stop[b] = "no"
        /\ \A a \in Actors : stop[a] = "logout" => ~node.running /\ ~Starting

\* The devices of the last Start are open, from Start to Stop.
HasDevices == Starting \/ (node.running /\ \A a \in Actors : stop[a] # "store")
DevicesOpen ==
    Alive => \A d \in Devices : live[d] = IF HasDevices THEN {node.gen} ELSE {}

\* Only a node that is logged in runs.
MayRun == Alive /\ (Starting \/ node.running) => node.loggedIn /\ node.gen \in Gens

\* An inductive invariant for FlagsTruthful.
FlagsInv == TypeInv /\ Phases /\ DevicesOpen /\ MayRun

-----------------------------------------------------------------------------
\* The stream of the last Start has been opened and its context is not done.
Synced == Alive /\ HasDevices /\ (cmd.pc = "store" \/ node.running)

\* Message i of s announces p.
Announces(s, p, i) == s[i].type = "CONNECT" /\ s[i].peer = p

\* Of the messages s that are under way, the last one about p carries version v; when
\* there is none, k is that version if p is connected (c).
UpToDate(s, p, v, c, k) ==
    /\ \A i \in 1..Len(s) :
          Announces(s, p, i) /\ (\A j \in 1..Len(s) : j > i => ~Announces(s, p, j)) => s[i].version = v
    /\ (\A i \in 1..Len(s) : ~Announces(s, p, i)) /\ c => k = v

\* The record of a connected peer is known or under way.
RecordsArrive ==
    Synced /\ stream[node.gen].open =>
        \A p \in Peers :
            UpToDate(stream[node.gen].msgs, p, ctl.version[p], p \in ctl.connected, known[p])

\* A peer that the node knows runs, unless INIT left it out.
KnownServed ==
    Synced /\ (\A a \in Actors : stop[a] # "devices") =>
        \A p \in Peers : known[p] # 0 => serving[p] \/ p \in hist.left

\* Connected peers have a record.
RecordsExist == \A p \in Peers : ctl.version[p] # 0

\* Together with FlagsInv, an inductive invariant for PeersServed.
PeerParts == RecordsExist /\ RecordsArrive /\ KnownServed

-----------------------------------------------------------------------------
(* Types.                                                                   *)

\* The fields of the record live.
LEMMA LiveFields ==
    ASSUME live \in [conn : SUBSET Gens, tun : SUBSET Gens, ctx : SUBSET Gens]
    PROVE  /\ DOMAIN live = Devices
           /\ live.conn = live["conn"] /\ live.tun = live["tun"] /\ live.ctx = live["ctx"]
           /\ \A d \in Devices : live[d] \in SUBSET Gens
  BY DEF Devices

\* An assignment to all three devices.
LEMMA LiveType ==
    ASSUME NEW S(_), \A d \in Devices : S(d) \in SUBSET Gens
    PROVE  [d \in Devices |-> S(d)] \in [conn : SUBSET Gens, tun : SUBSET Gens, ctx : SUBSET Gens]
  BY DEF Devices

\* A message that is sent reaches some streams and leaves the others alone.
LEMMA SendType ==
    ASSUME TypeInv, NEW m \in Messages, Send(m)
    PROVE  stream' \in [Gens -> Streams]
<1> SUFFICES ASSUME NEW g \in Gens
             PROVE  (IF stream[g].open /\ g \in live.ctx
                     THEN [stream[g] EXCEPT !.msgs = Append(@, m)] ELSE stream[g]) \in Streams
  BY DEF Send
<1>1. stream[g] \in Streams
  BY DEF TypeInv, StreamTypes
<1> QED
  BY <1>1 DEF Streams

\* The first message of a stream is one, and so are the rest.
LEMMA Received1 ==
    ASSUME TypeInv, NEW g \in Gens, stream[g].msgs # <<>>
    PROVE  /\ stream[g].msgs \in Seq(Messages)
           /\ Head(stream[g].msgs) \in Messages /\ Tail(stream[g].msgs) \in Seq(Messages)
<1>1. stream[g] \in Streams
  BY DEF TypeInv, StreamTypes
<1> QED
  BY <1>1 DEF Streams

\* What TypeInv says of the variables is what TypeOK says.
LEMMA TypesOK == TypeInv => TypeOK
  BY DEF TypeInv, TypeOK, FlagTypes, DeviceTypes, ReaderTypes, TickerTypes, StreamTypes, PeerTypes,
     WorldTypes, HistoryTypes, Streams, Records

\* A variable that does not change keeps its type.
LEMMA TypesKept ==
    /\ FlagTypes /\ UNCHANGED <<node, cmd, stop>> => FlagTypes'
    /\ DeviceTypes /\ UNCHANGED live => DeviceTypes'
    /\ ReaderTypes /\ UNCHANGED reader => ReaderTypes'
    /\ TickerTypes /\ UNCHANGED ticker => TickerTypes'
    /\ StreamTypes /\ UNCHANGED stream => StreamTypes'
    /\ PeerTypes /\ UNCHANGED <<known, serving>> => PeerTypes'
    /\ WorldTypes /\ UNCHANGED <<ctl, nat>> => WorldTypes'
    /\ HistoryTypes /\ UNCHANGED <<hist, crash>> => HistoryTypes'
    /\ CountTypes /\ UNCHANGED <<ctl, spent>> => CountTypes'
  BY DEF FlagTypes, DeviceTypes, ReaderTypes, TickerTypes, StreamTypes, PeerTypes, WorldTypes,
     HistoryTypes, CountTypes

\* A counter that is not the one of connections.
LEMMA SpendType ==
    ASSUME CountTypes, NEW what \in {"commands", "logouts", "faults"}, NEW max \in Nat,
           Spend(what, max), ctl'.version = ctl.version
    PROVE  CountTypes'
<1>1. spent' = [spent EXCEPT ![what] = @ + 1]
  BY DEF Spend
<1>2. spent[what] \in Nat
  BY DEF CountTypes
<1>3. spent'.connects = spent.connects
  BY <1>1 DEF CountTypes
<1>4. spent' \in [commands : Nat, connects : 0..MaxConnects, logouts : Nat, faults : Nat]
  BY <1>1, <1>2 DEF CountTypes
<1> QED
  BY <1>3, <1>4 DEF CountTypes

\* What happened is noted.
LEMMA HistoryType ==
    ASSUME HistoryTypes, NEW b \in BOOLEAN
    PROVE  /\ hist' = [hist EXCEPT !.mixed = b] /\ UNCHANGED crash => HistoryTypes'
           /\ hist' = [hist EXCEPT !.overtaken = b] /\ UNCHANGED crash => HistoryTypes'
           /\ hist' = [hist EXCEPT !.failed = b] /\ UNCHANGED crash => HistoryTypes'
  BY DEF HistoryTypes

\* The command is idle again.
LEMMA CommandType ==
    /\ 0 \in 0..MaxNat
    /\ [pc |-> "idle", endpoint |-> 0] \in
         [pc : {"idle", "login", "run", "sleep", "store", "down"}, endpoint : 0..MaxNat]
<1>1. 0 \in 0..MaxNat
  BY NodeLifecycleAssumption
<1> QED
  BY <1>1

\* A stream with no messages under way.
LEMMA StreamType ==
    /\ <<>> \in Seq(Messages)
    /\ [pc |-> "recv", msgs |-> <<>>, open |-> TRUE] \in Streams
    /\ [pc |-> "ended", msgs |-> <<>>, open |-> FALSE] \in Streams
<1>1. <<>> \in Seq(Messages)
  OBVIOUS
<1> QED
  BY <1>1 DEF Streams

\* A disjunction is true or false.
LEMMA Disjunction == ASSUME NEW a, NEW b PROVE (a \/ b) \in BOOLEAN
  BY Zenon

\* The messages of a stream after a LOGOUT.
LEMMA LogoutReceived ==
    ASSUME TypeInv, NEW g \in Gens, HandleLogout(g)
    PROVE  /\ stream' \in [Gens -> Streams]
           /\ stream'[g].msgs = Tail(stream[g].msgs) /\ stream'[g].open = stream[g].open
           /\ \A h \in Gens : h # g => stream'[h] = stream[h]
<1> DEFINE s == [stream EXCEPT ![g].pc = "logout"]
<1>1. /\ s \in [Gens -> Streams] /\ s[g].msgs = stream[g].msgs /\ s[g].open = stream[g].open
      /\ \A h \in Gens : h # g => s[h] = stream[h]
  BY DEF TypeInv, StreamTypes, Streams
<1>2. stream' = [s EXCEPT ![g] = [s[g] EXCEPT !.msgs = Tail(s[g].msgs)]]
  BY Zenon DEF HandleLogout
<1>3. Tail(stream[g].msgs) \in Seq(Messages)
  BY Received1 DEF HandleLogout, Handles
<1> HIDE DEF s
<1> QED
  BY <1>1, <1>2, <1>3 DEF Streams

\* Every step keeps the types.
LEMMA TypeStep ==
    ASSUME TypeInv, [Next]_vars
    PROVE  TypeInv'
<1> USE NodeLifecycleAssumption, TypesKept DEF TypeInv
<1>1. CASE Login
  <2>1. FlagTypes'
    BY <1>1 DEF Login, FlagTypes
  <2> QED
    BY <1>1, <2>1, SpendType DEF Login, goroutines, peers, outside
<1>2. CASE LoginSucceeds
  <2>1. FlagTypes'
    BY <1>2, CommandType DEF LoginSucceeds, FlagTypes
  <2>2. WorldTypes' /\ ctl'.version = ctl.version
    BY <1>2 DEF LoginSucceeds, FlagTypes, WorldTypes
  <2>3. HistoryTypes'
    BY <1>2, HistoryType, Disjunction DEF LoginSucceeds
  <2>4. CountTypes'
    BY <1>2, <2>2 DEF LoginSucceeds, CountTypes
  <2> QED
    BY <1>2, <2>1, <2>2, <2>3, <2>4 DEF LoginSucceeds, goroutines, peers
<1>3. ASSUME NEW u \in BOOLEAN, LoginFails(u) PROVE TypeInv'
  <2>1. FlagTypes'
    BY <1>3, CommandType DEF LoginFails, FlagTypes
  <2>2. HistoryTypes'
    BY <1>3 DEF LoginFails, HistoryTypes
  <2> QED
    BY <1>3, <2>1, <2>2, SpendType DEF LoginFails, goroutines, peers, outside
<1>4. CASE Up
  <2>1. CASE ~(node.loggedIn /\ ~node.running)
    BY <1>4, <2>1, SpendType DEF Up, goroutines, peers, outside
  <2>2. CASE node.loggedIn /\ ~node.running
    <3>1. node.gen + 1 \in Gens /\ FlagTypes'
      BY <1>4, <2>2 DEF Up, FlagTypes, Gens
    <3>2. DeviceTypes'
      BY <1>4, <2>2, <3>1, LiveFields, LiveType DEF Up, DeviceTypes
    <3>3. HistoryTypes'
      BY <1>4, <2>2, HistoryType, Disjunction DEF Up
    <3> QED
      BY <1>4, <3>1, <3>2, <3>3, SpendType DEF Up, goroutines, peers, outside
  <2> QED
    BY <2>1, <2>2
<1>5. CASE RunFails
  <2>1. FlagTypes'
    BY <1>5 DEF RunFails, FlagTypes
  <2>2. DeviceTypes'
    BY <1>5, LiveFields, LiveType DEF RunFails, DeviceTypes
  <2> QED
    BY <1>5, <2>1, <2>2, SpendType DEF RunFails, goroutines, peers, outside
<1>6. CASE Run
  BY <1>6 DEF Run, FlagTypes, ReaderTypes, peers, outside
<1>7. CASE StartUpdateStream
  <2>1. CASE ~ctl.loggedIn
    BY <1>7, <2>1 DEF StartUpdateStream, HistoryTypes, peers, outside
  <2>2. CASE ctl.loggedIn
    <3>1. FlagTypes' /\ node.gen \in 0..MaxUps
      BY <1>7, <2>2 DEF StartUpdateStream, FlagTypes
    <3>2. StreamTypes'
      BY <1>7, <2>2, StreamType DEF StartUpdateStream, StreamTypes
    <3>3. TickerTypes'
      BY <1>7, <2>2, <3>1 DEF StartUpdateStream, TickerTypes
    <3>4. known' \in [Peers -> Records]
      BY <1>7, <2>2 DEF StartUpdateStream, PeerTypes, WorldTypes
    <3>5. serving' \in [Peers -> BOOLEAN]
      <4>1. serving' = [p \in Peers |-> serving[p] \/ p \in ctl.connected]
        BY <1>7, <2>2 DEF StartUpdateStream
      <4> QED
        BY <4>1, Zenon
    <3>6. HistoryTypes'
      BY <1>7, <2>2, ZenonT(60) DEF StartUpdateStream, HistoryTypes
    <3> QED
      BY <1>7, <3>1, <3>2, <3>3, <3>4, <3>5, <3>6 DEF StartUpdateStream, PeerTypes, outside
  <2> QED
    BY <2>1, <2>2
<1>8. CASE RunStore
  BY <1>8 DEF RunStore, FlagTypes, goroutines, peers, outside
<1>9. CASE Down
  <2>1. FlagTypes'
    BY <1>9 DEF Down, StopBegins, FlagTypes, Actors
  <2>2. HistoryTypes'
    BY <1>9, HistoryType, Disjunction DEF Down, StopBegins
  <2> QED
    BY <1>9, <2>1, <2>2, SpendType DEF Down, goroutines, peers, outside
<1>10. ASSUME NEW a \in Actors, StopStep(a) PROVE TypeInv'
  <2>1. CASE StopAllPeers(a)
    BY <2>1 DEF StopAllPeers, FlagTypes, PeerTypes, goroutines, outside
  <2>2. CASE StopDevices(a)
    BY <2>2, LiveFields, LiveType DEF StopDevices, FlagTypes, DeviceTypes, goroutines, peers, outside
  <2>3. CASE StopStore(a)
    BY <2>3 DEF StopStore, FlagTypes, goroutines, peers, outside
  <2> QED
    BY <1>10, <2>1, <2>2, <2>3 DEF StopStep
<1>11. ASSUME NEW g \in Gens, HandleConnectUpdate(g) PROVE TypeInv'
  <2> DEFINE m == Head(stream[g].msgs)
  <2>1. m \in Messages /\ m.type = "CONNECT" /\ Tail(stream[g].msgs) \in Seq(Messages)
    BY <1>11, Received1 DEF HandleConnectUpdate, Handles
  <2>2. m.peer \in Peers /\ m.version \in Records
    BY <2>1 DEF Messages
  <2>3. StreamTypes'
    BY <1>11, <2>1 DEF HandleConnectUpdate, Received, StreamTypes, Streams
  <2>4. known' \in [Peers -> Records]
    BY <1>11, <2>2 DEF HandleConnectUpdate, PeerTypes
  <2>5. serving' = [serving EXCEPT ![m.peer] = @ \/ known[m.peer] = 0]
    BY <1>11 DEF HandleConnectUpdate
  <2>6. (serving[m.peer] \/ known[m.peer] = 0) \in BOOLEAN
    BY Disjunction
  <2>7. serving' \in [Peers -> BOOLEAN]
    BY <2>5, <2>6 DEF PeerTypes
  <2> QED
    BY <1>11, <2>3, <2>4, <2>7 DEF HandleConnectUpdate, PeerTypes, outside
<1>12. ASSUME NEW g \in Gens, HandleLogout(g) PROVE TypeInv'
  <2>2. StreamTypes'
    BY <1>12, LogoutReceived DEF StreamTypes
  <2>3. FlagTypes'
    BY <1>12 DEF HandleLogout, StopBegins, FlagTypes
  <2>4. HistoryTypes'
    BY <1>12, HistoryType, Disjunction DEF HandleLogout, StopBegins
  <2> QED
    BY <1>12, <2>2, <2>3, <2>4 DEF HandleLogout, peers, outside
<1>13. ASSUME NEW g \in Gens, Logout(g) PROVE TypeInv'
  <2>1. FlagTypes'
    BY <1>13 DEF Logout, FlagTypes
  <2>2. StreamTypes'
    BY <1>13 DEF Logout, StreamTypes, Streams
  <2> QED
    BY <1>13, <2>1, <2>2 DEF Logout, peers, outside
<1>14. ASSUME NEW g \in Gens, StreamEnds(g) PROVE TypeInv'
  BY <1>14, StreamType DEF StreamEnds, StreamTypes, peers, outside
<1>15. ASSUME NEW g \in Gens, Reader(g) PROVE TypeInv'
  <2>1. CASE HandleStunMessage(g)
    <3>1. FlagTypes'
      BY <2>1 DEF HandleStunMessage, FlagTypes, WorldTypes
    <3>2. ReaderTypes'
      BY <2>1, ZenonT(60) DEF HandleStunMessage, ReaderTypes, WorldTypes
    <3> QED
      BY <2>1, <3>1, <3>2 DEF HandleStunMessage, peers, outside
  <2>2. ASSUME ReadAgain(g) PROVE ReaderTypes'
    BY <2>2 DEF ReadAgain, FlagTypes, ReaderTypes
  <2>3. CASE UpdateEndpoint(g)
    <3>1. reader[g].endpoint \in 0..MaxNat
      BY DEF ReaderTypes
    <3>2. WorldTypes' /\ ctl'.version = ctl.version
      BY <2>3, <3>1 DEF UpdateEndpoint, WorldTypes
    <3>3. HistoryTypes'
      BY <2>3, HistoryType, Disjunction DEF UpdateEndpoint
    <3>4. CountTypes'
      BY <2>3, <3>2 DEF UpdateEndpoint, CountTypes
    <3> QED
      BY <2>3, <2>2, <3>2, <3>3, <3>4 DEF UpdateEndpoint, peers
  <2>4. CASE UpdateEndpointFails(g)
    <3>1. HistoryTypes'
      BY <2>4, HistoryType DEF UpdateEndpointFails
    <3> QED
      BY <2>4, <2>2, <3>1, SpendType DEF UpdateEndpointFails, peers, outside
  <2>5. CASE ReaderEnds(g)
    BY <2>5 DEF ReaderEnds, ReaderTypes, peers, outside
  <2> QED
    BY <1>15, <2>1, <2>3, <2>4, <2>5 DEF Reader
<1>16. ASSUME NEW g \in Gens, Ticker(g) PROVE TypeInv'
  BY <1>16 DEF Ticker, StunRoutine, StunEnds, FlagTypes, TickerTypes, peers, outside
<1>17. ASSUME NEW p \in Peers, PeerConnects(p) PROVE TypeInv'
  <2> DEFINE m == [type |-> "CONNECT", peer |-> p, version |-> ctl.version[p] + 1]
  <2>1. spent["connects"] < MaxConnects /\ spent' = [spent EXCEPT !["connects"] = @ + 1]
    BY <1>17 DEF PeerConnects, Spend
  <2>2. /\ spent.connects \in Nat /\ spent.connects < MaxConnects
        /\ spent'.connects = spent.connects + 1
        /\ spent' \in [commands : Nat, connects : 0..MaxConnects, logouts : Nat, faults : Nat]
    BY <2>1 DEF CountTypes
  <2>3. ctl.version[p] \in Nat /\ ctl.version[p] + 1 \in Records
    BY <2>2 DEF CountTypes, WorldTypes, Records
  <2>4. m \in Messages
    BY <2>3 DEF Messages
  <2>5. StreamTypes'
    BY <1>17, <2>4, SendType DEF PeerConnects, StreamTypes
  <2>6. WorldTypes' /\ ctl'.version = [ctl.version EXCEPT ![p] = @ + 1]
    BY <1>17, <2>3 DEF PeerConnects, WorldTypes
  <2>7. CountTypes'
    BY <2>2, <2>6 DEF CountTypes, WorldTypes, Records
  <2> QED
    BY <1>17, <2>5, <2>6, <2>7 DEF PeerConnects, peers
<1>18. ASSUME NEW p \in Peers, PeerDisconnects(p) PROVE TypeInv'
  BY <1>18 DEF PeerDisconnects, WorldTypes, CountTypes, peers, goroutines
<1>19. CASE ForcedLogout
  <2> DEFINE m == [type |-> "LOGOUT", peer |-> CHOOSE p \in Peers : TRUE, version |-> 0]
  <2>1. m \in Messages
    BY DEF Messages, Records
  <2>2. StreamTypes'
    BY <1>19, <2>1, SendType DEF ForcedLogout, StreamTypes
  <2>3. WorldTypes' /\ ctl'.version = ctl.version
    BY <1>19 DEF ForcedLogout, WorldTypes
  <2> QED
    BY <1>19, <2>2, <2>3, SpendType DEF ForcedLogout, peers
<1>20. ASSUME NEW g \in Gens, StreamBreaks(g) PROVE TypeInv'
  <2>1. StreamTypes'
    BY <1>20, StreamType DEF StreamBreaks, StreamTypes, Streams
  <2> QED
    BY <1>20, <2>1, SpendType DEF StreamBreaks, peers, outside
<1>21. CASE NatMoves
  BY <1>21 DEF NatMoves, WorldTypes, CountTypes, peers, goroutines
<1>22. CASE UNCHANGED vars
  BY <1>22 DEF vars
<1> QED
  BY <1>1, <1>2, <1>3, <1>4, <1>5, <1>6, <1>7, <1>8, <1>9, <1>10, <1>11, <1>12, <1>13, <1>14,
     <1>15, <1>16, <1>17, <1>18, <1>19, <1>20, <1>21, <1>22
  DEF Next, World, Goroutines, Command, Stream, Actors

-----------------------------------------------------------------------------
(* Flags and devices.                                                       *)

FlagParts == Phases /\ DevicesOpen /\ MayRun

\* A step that neither begins nor ends a Start or a Stop.
QuietFlags ==
    /\ Alive' => Alive
    /\ UNCHANGED <<live, stop>>
    /\ node'.running = node.running /\ node'.gen = node.gen
    /\ node'.loggedIn = node.loggedIn \/ node'.loggedIn
    /\ cmd'.pc = cmd.pc \/ {cmd.pc, cmd'.pc} \subseteq {"idle", "login"}
                        \/ {cmd.pc, cmd'.pc} \subseteq {"run", "sleep", "store"}

\* A step that is quiet in this sense keeps what the flags say.
LEMMA QuietKeeps ==
    ASSUME FlagParts, QuietFlags
    PROVE  FlagParts'
<1> USE DEF FlagParts, QuietFlags
<1>1. Starting' <=> Starting
  BY DEF Starting
<1>2. cmd'.pc = "down" <=> cmd.pc = "down"
  OBVIOUS
<1>3. Phases'
  BY <1>1, <1>2 DEF Phases, InStop
<1>4. HasDevices' <=> HasDevices
  BY <1>1 DEF HasDevices
<1>5. DevicesOpen'
  BY <1>4 DEF DevicesOpen
<1>6. MayRun'
  BY <1>1 DEF MayRun
<1> QED
  BY <1>3, <1>5, <1>6

\* Who may be in Stop when the node is not running, and when it starts.
LEMMA NotStopping ==
    ASSUME TypeInv, FlagParts, Alive
    PROVE  /\ ~node.running => \A a \in Actors : stop[a] \in {"no", "logout"}
           /\ Starting => \A a \in Actors : stop[a] = "no"
           /\ node.running => \A a \in Actors : stop[a] # "logout"
  BY DEF FlagParts, Phases, InStop, TypeInv, FlagTypes

\* Up refuses, or opens the devices of a new generation before the node runs.
LEMMA UpFlags == ASSUME TypeInv, FlagParts, Up PROVE FlagParts'
<1>1. CASE ~(node.loggedIn /\ ~node.running)
  BY <1>1, QuietKeeps DEF Up, QuietFlags, Alive
<1>2. CASE node.loggedIn /\ ~node.running
  <2>1. /\ Alive /\ cmd.pc = "idle" /\ node.gen < MaxUps
        /\ node' = [node EXCEPT !.gen = node.gen + 1]
        /\ live' = [d \in DOMAIN live |-> live[d] \cup {node.gen + 1}]
        /\ cmd' = [cmd EXCEPT !.pc = "run"] /\ UNCHANGED <<stop, crash>>
        /\ hist' = [hist EXCEPT !.mixed = @ \/ Stopping]
    BY <1>2 DEF Up
  <2>2. /\ node'.gen = node.gen + 1 /\ node'.gen \in Gens
        /\ node'.running = node.running /\ node'.loggedIn = node.loggedIn
        /\ cmd'.pc = "run"
    BY <2>1, NodeLifecycleAssumption DEF TypeInv, FlagTypes, Gens
  <2>3. Starting' /\ ~Starting
    BY <2>1, <2>2 DEF Starting
  <2>4. Alive' => \A a \in Actors : stop[a] = "no"
    BY <2>1 DEF Alive, Stopping, TypeInv, HistoryTypes
  <2>5. \A d \in Devices : live'[d] = live[d] \cup {node'.gen}
    BY <2>1, <2>2, LiveFields DEF TypeInv, DeviceTypes
  <2>6. ~HasDevices /\ HasDevices'
    BY <1>2, <2>3 DEF HasDevices
  <2>7. Phases'
    BY <1>2, <2>1, <2>2, <2>3, <2>4 DEF Phases, InStop, Actors
  <2>8. DevicesOpen'
    BY <2>1, <2>5, <2>6 DEF DevicesOpen, FlagParts
  <2>9. MayRun'
    BY <1>2, <2>2 DEF MayRun
  <2> QED
    BY <2>7, <2>8, <2>9 DEF FlagParts
<1> QED
  BY <1>1, <1>2

\* An Up that fails closes what it had opened, and the node does not run.
LEMMA RunFailsFlags == ASSUME TypeInv, FlagParts, RunFails PROVE FlagParts'
<1>1. /\ Alive /\ cmd.pc = "run" /\ cmd' = [cmd EXCEPT !.pc = "idle"]
      /\ live' = [d \in DOMAIN live |-> live[d] \ {node.gen}]
      /\ UNCHANGED <<node, stop, crash, hist>>
  BY DEF RunFails
<1>2. cmd'.pc = "idle"
  BY <1>1 DEF TypeInv, FlagTypes
<1>3. Starting /\ ~Starting' /\ ~node.running
  BY <1>1, <1>2 DEF Starting, FlagParts, Phases
<1>4. HasDevices /\ ~HasDevices'
  BY <1>1, <1>3 DEF HasDevices
<1>5. \A d \in Devices : live'[d] = live[d] \ {node.gen}
  BY <1>1, LiveFields DEF TypeInv, DeviceTypes
<1>6. \A a \in Actors : stop[a] = "no"
  BY <1>1, <1>3, NotStopping
<1>7. Phases'
  BY <1>1, <1>2, <1>3, <1>6 DEF Phases, InStop, Actors
<1>8. DevicesOpen'
  BY <1>1, <1>4, <1>5 DEF DevicesOpen, FlagParts
<1>9. MayRun'
  BY <1>1, <1>3 DEF MayRun
<1> QED
  BY <1>7, <1>8, <1>9 DEF FlagParts

\* The node runs once its devices are open.
LEMMA RunStoreFlags == ASSUME TypeInv, FlagParts, RunStore PROVE FlagParts'
<1>1. /\ Alive /\ cmd.pc = "store" /\ cmd' = [cmd EXCEPT !.pc = "idle"]
      /\ node' = [node EXCEPT !.running = TRUE]
      /\ UNCHANGED <<live, stop, crash, hist>>
  BY DEF RunStore
<1>2. /\ cmd'.pc = "idle" /\ node'.running /\ node'.gen = node.gen
      /\ node'.loggedIn = node.loggedIn
  BY <1>1 DEF TypeInv, FlagTypes
<1>3. Starting /\ ~Starting'
  BY <1>1, <1>2 DEF Starting
<1>4. \A a \in Actors : stop[a] = "no"
  BY <1>1, <1>3, NotStopping
<1>5. HasDevices /\ HasDevices'
  BY <1>1, <1>2, <1>3, <1>4 DEF HasDevices
<1>6. Phases'
  BY <1>1, <1>2, <1>3, <1>4 DEF Phases, InStop, Actors
<1>7. DevicesOpen'
  BY <1>1, <1>2, <1>5 DEF DevicesOpen, FlagParts
<1>8. MayRun'
  BY <1>1, <1>2, <1>3 DEF MayRun, FlagParts
<1> QED
  BY <1>6, <1>7, <1>8 DEF FlagParts

\* A Stop begins, of the command or of a stream.
LEMMA StopFlags ==
    ASSUME TypeInv, FlagParts, Alive, NEW a \in Actors, node.running, StopBegins(a),
           UNCHANGED <<live, node, crash>>,
           a = 0 => cmd.pc = "idle" /\ cmd' = [cmd EXCEPT !.pc = "down"],
           a # 0 => UNCHANGED cmd
    PROVE  FlagParts'
<1>1. ~Starting
  BY DEF FlagParts, Phases
<1>2. stop' = [stop EXCEPT ![a] = "peers"] /\ hist' = [hist EXCEPT !.mixed = @ \/ Starting \/ Stopping]
  BY DEF StopBegins
<1>3. /\ stop'[a] = "peers" /\ \A b \in Actors : b # a => stop'[b] = stop[b]
      /\ a = 0 => cmd'.pc = "down"
  BY <1>2 DEF TypeInv, FlagTypes
<1>4. ~Starting'
  BY <1>1, <1>3 DEF Starting
<1>5. Alive' => \A b \in Actors : stop[b] = "no"
  BY <1>2 DEF Alive, Stopping, TypeInv, HistoryTypes
<1>6. Phases'
  <2> SUFFICES ASSUME Alive' PROVE Phases'
    BY DEF Phases
  <2>1. \A b \in Actors : b # a => stop'[b] = "no"
    BY <1>3, <1>5
  <2>2. 0 \in Actors /\ (a # 0 => cmd.pc # "down" /\ cmd'.pc = cmd.pc)
    BY <1>5 DEF Actors, FlagParts, Phases
  <2> QED
    BY <1>3, <1>4, <2>1, <2>2 DEF Phases, InStop
<1>7. Alive' => (HasDevices <=> HasDevices')
  BY <1>1, <1>3, <1>4, <1>5 DEF HasDevices
<1>8. DevicesOpen'
  BY <1>7 DEF DevicesOpen, FlagParts
<1>9. MayRun'
  BY DEF MayRun, FlagParts
<1> QED
  BY <1>6, <1>8, <1>9 DEF FlagParts

\* The steps of a Stop.
LEMMA StopStepFlags == ASSUME TypeInv, FlagParts, NEW a \in Actors, StopStep(a) PROVE FlagParts'
<1>1. Alive /\ InStop(a) /\ Alive' /\ 0 \in Actors
  BY DEF StopStep, StopAllPeers, StopDevices, StopStore, Alive, InStop, Actors
<1>2. node.running /\ ~Starting /\ \A b \in Actors : b # a => stop[b] = "no"
  BY <1>1 DEF FlagParts, Phases
<1>3. CASE StopAllPeers(a)
  <2>1. UNCHANGED <<node, live, cmd>> /\ stop[a] = "peers" /\ stop' = [stop EXCEPT ![a] = "devices"]
    BY <1>3 DEF StopAllPeers
  <2>2. stop'[a] = "devices" /\ \A b \in Actors : b # a => stop'[b] = "no"
    BY <1>2, <2>1 DEF TypeInv, FlagTypes
  <2>3. HasDevices /\ HasDevices'
    BY <1>2, <2>1, <2>2 DEF HasDevices
  <2>4. Phases'
    BY <1>1, <1>2, <2>1, <2>2 DEF Phases, InStop, Starting, FlagParts
  <2>5. DevicesOpen' /\ MayRun'
    BY <1>1, <1>2, <2>1, <2>3 DEF DevicesOpen, MayRun, FlagParts
  <2> QED
    BY <2>4, <2>5 DEF FlagParts
<1>4. CASE StopDevices(a)
  <2>1. /\ UNCHANGED <<node, cmd>> /\ stop[a] = "devices" /\ stop' = [stop EXCEPT ![a] = "store"]
        /\ live' = [d \in DOMAIN live |-> live[d] \ {node.gen}]
    BY <1>4 DEF StopDevices
  <2>2. stop'[a] = "store" /\ \A b \in Actors : b # a => stop'[b] = "no"
    BY <1>2, <2>1 DEF TypeInv, FlagTypes
  <2>3. HasDevices /\ ~HasDevices'
    BY <1>2, <2>1, <2>2 DEF HasDevices, Starting
  <2>4. \A d \in Devices : live'[d] = live[d] \ {node.gen}
    BY <2>1, LiveFields DEF TypeInv, DeviceTypes
  <2>5. Phases'
    BY <1>1, <1>2, <2>1, <2>2 DEF Phases, InStop, Starting, FlagParts
  <2>6. DevicesOpen'
    BY <1>1, <2>1, <2>3, <2>4 DEF DevicesOpen, FlagParts
  <2>7. MayRun'
    BY <1>1, <1>2, <2>1 DEF MayRun, FlagParts
  <2> QED
    BY <2>5, <2>6, <2>7 DEF FlagParts
<1>5. CASE StopStore(a)
  <2>1. /\ stop[a] = "store" /\ stop' = [stop EXCEPT ![a] = IF a = 0 THEN "no" ELSE "logout"]
        /\ node' = [node EXCEPT !.running = FALSE] /\ UNCHANGED live
        /\ a = 0 => cmd' = [cmd EXCEPT !.pc = "idle"]
        /\ a # 0 => cmd' = cmd
    BY <1>5 DEF StopStore
  <2>2. /\ stop'[a] = (IF a = 0 THEN "no" ELSE "logout") /\ \A b \in Actors : b # a => stop'[b] = "no"
        /\ ~node'.running /\ (a = 0 => cmd'.pc = "idle")
    BY <1>2, <2>1 DEF TypeInv, FlagTypes
  <2>3. ~HasDevices
    BY <1>2, <2>1 DEF HasDevices
  <2>4. ~Starting'
    BY <1>2, <2>1, <2>2 DEF Starting
  <2>5. Phases'
    BY <1>1, <1>2, <2>1, <2>2, <2>4 DEF Phases, InStop, FlagParts
  <2>6. DevicesOpen'
    BY <1>1, <2>1, <2>2, <2>3, <2>4 DEF DevicesOpen, FlagParts, HasDevices
  <2>7. MayRun'
    BY <2>2, <2>4 DEF MayRun
  <2> QED
    BY <2>5, <2>6, <2>7 DEF FlagParts
<1> QED
  BY <1>3, <1>4, <1>5 DEF StopStep

\* A forced logout begins a Stop of a running node, and ends with the node logged out.
LEMMA LogoutFlags ==
    ASSUME TypeInv, FlagParts, NEW g \in Gens, HandleLogout(g) \/ Logout(g)
    PROVE  FlagParts'
<1>1. g \in Actors /\ g # 0 /\ Alive
  BY NodeLifecycleAssumption DEF Actors, Gens, HandleLogout, Logout, Handles
<1>2. CASE HandleLogout(g) /\ node.running
  BY <1>1, <1>2, StopFlags DEF HandleLogout
<1>3. CASE HandleLogout(g) /\ ~node.running
  <2>1. /\ UNCHANGED <<node, live, cmd, crash>> /\ stop' = [stop EXCEPT ![g] = "logout"]
        /\ hist' = [hist EXCEPT !.mixed = @ \/ Starting]
    BY <1>3 DEF HandleLogout
  <2>2. stop'[g] = "logout" /\ \A b \in Actors : b # g => stop'[b] = stop[b]
    BY <1>1, <2>1 DEF TypeInv, FlagTypes
  <2>3. Alive' => ~Starting
    BY <2>1 DEF Alive, TypeInv, HistoryTypes
  <2>4. \A b \in Actors : stop[b] \in {"no", "logout"}
    BY <1>1, <1>3, NotStopping
  <2>5. Phases'
    BY <1>1, <1>3, <2>1, <2>2, <2>3, <2>4 DEF Phases, InStop, Starting, FlagParts, Actors
  <2>6. DevicesOpen'
    BY <1>1, <1>3, <2>1, <2>3 DEF DevicesOpen, FlagParts, HasDevices, Starting
  <2>7. MayRun'
    BY <1>1, <1>3, <2>1, <2>3 DEF MayRun, Starting
  <2> QED
    BY <2>5, <2>6, <2>7 DEF FlagParts
<1>4. CASE Logout(g)
  <2>1. /\ stop[g] = "logout" /\ stop' = [stop EXCEPT ![g] = "no"] /\ Alive'
        /\ node' = [node EXCEPT !.loggedIn = FALSE] /\ UNCHANGED <<live, cmd>>
    BY <1>1, <1>4 DEF Logout, Alive
  <2>2. ~node.running /\ ~Starting
    BY <1>1, <2>1 DEF FlagParts, Phases
  <2>3. node'.running = node.running /\ node'.gen = node.gen
    BY <2>1 DEF TypeInv, FlagTypes
  <2>4. stop'[g] = "no" /\ \A b \in Actors : b # g => stop'[b] = stop[b]
    BY <1>1, <2>1 DEF TypeInv, FlagTypes
  <2>5. Phases'
    BY <1>1, <2>1, <2>2, <2>3, <2>4 DEF Phases, InStop, Starting, FlagParts, Actors
  <2>6. DevicesOpen' /\ MayRun'
    BY <1>1, <2>1, <2>2, <2>3 DEF DevicesOpen, MayRun, FlagParts, HasDevices, Starting
  <2> QED
    BY <2>5, <2>6 DEF FlagParts
<1> QED
  BY <1>2, <1>3, <1>4

\* The steps that neither begin nor end a Start or a Stop.
LEMMA QuietSteps ==
    ASSUME TypeInv, FlagParts
    PROVE  /\ Login \/ LoginSucceeds \/ (\E u \in BOOLEAN : LoginFails(u)) => QuietFlags
           /\ Run \/ StartUpdateStream => QuietFlags
           /\ \A g \in Gens : HandleConnectUpdate(g) \/ StreamEnds(g) => QuietFlags
           /\ \A g \in Gens : Reader(g) \/ Ticker(g) \/ StreamBreaks(g) => QuietFlags
           /\ \A p \in Peers : PeerConnects(p) \/ PeerDisconnects(p) => QuietFlags
           /\ ForcedLogout \/ NatMoves \/ UNCHANGED vars => QuietFlags
<1> USE DEF QuietFlags, Alive
<1>1. CASE Login
  BY <1>1 DEF Login, TypeInv, FlagTypes
<1>2. CASE LoginSucceeds
  BY <1>2 DEF LoginSucceeds, TypeInv, FlagTypes, HistoryTypes
<1>3. ASSUME NEW u \in BOOLEAN, LoginFails(u) PROVE QuietFlags
  BY <1>3 DEF LoginFails, TypeInv, FlagTypes
<1>4. CASE Run
  BY <1>4 DEF Run, TypeInv, FlagTypes
<1>5. CASE StartUpdateStream
  BY <1>5 DEF StartUpdateStream, TypeInv, FlagTypes, HistoryTypes
<1>6. ASSUME NEW g \in Gens, HandleConnectUpdate(g) \/ StreamEnds(g) PROVE QuietFlags
  BY <1>6 DEF HandleConnectUpdate, Handles, StreamEnds
<1>7. ASSUME NEW g \in Gens, Reader(g) \/ Ticker(g) \/ StreamBreaks(g) PROVE QuietFlags
  BY <1>7 DEF Reader, HandleStunMessage, UpdateEndpoint, UpdateEndpointFails, ReaderEnds, Ticker, StunRoutine,
     StunEnds, StreamBreaks, TypeInv, FlagTypes, HistoryTypes
<1>8. ASSUME NEW p \in Peers, PeerConnects(p) \/ PeerDisconnects(p) PROVE QuietFlags
  BY <1>8 DEF PeerConnects, PeerDisconnects
<1>9. CASE ForcedLogout \/ NatMoves \/ UNCHANGED vars
  BY <1>9 DEF ForcedLogout, NatMoves, vars
<1> QED
  BY <1>1, <1>2, <1>3, <1>4, <1>5, <1>6, <1>7, <1>8, <1>9

\* Every step keeps the flags in line with the devices.
LEMMA FlagStep == ASSUME TypeInv, FlagParts, [Next]_vars PROVE FlagParts'
<1>1. CASE Up \/ RunFails \/ RunStore
  BY <1>1, UpFlags, RunFailsFlags, RunStoreFlags
<1>2. CASE Down
  <2>1. CASE node.running
    <3>1. StopBegins(0) /\ Alive /\ cmd.pc = "idle" /\ cmd' = [cmd EXCEPT !.pc = "down"] /\ UNCHANGED <<live, node, crash>>
      BY <1>2, <2>1 DEF Down
    <3> QED
      BY <2>1, <3>1, StopFlags DEF Actors
  <2>2. CASE ~node.running
    BY <1>2, <2>2, QuietKeeps DEF Down, QuietFlags, Alive
  <2> QED
    BY <2>1, <2>2
<1>3. ASSUME NEW a \in Actors, StopStep(a) PROVE FlagParts'
  BY <1>3, StopStepFlags
<1>4. ASSUME NEW g \in Gens, HandleLogout(g) \/ Logout(g) PROVE FlagParts'
  BY <1>4, LogoutFlags
<1>5. CASE QuietFlags
  BY <1>5, QuietKeeps
<1> QED
  BY <1>1, <1>2, <1>3, <1>4, <1>5, QuietSteps DEF Next, World, Goroutines, Command, Stream, Actors

\* A node that is down and idle, logged in, with no device open.
LEMMA InitFlags == Init => FlagsInv
<1> SUFFICES ASSUME Init PROVE FlagsInv
  OBVIOUS
<1> USE NodeLifecycleAssumption DEF Init
<1>1. FlagTypes /\ HistoryTypes
  BY DEF FlagTypes, HistoryTypes
<1>2. DeviceTypes /\ \A d \in Devices : live[d] = {}
  BY DEF DeviceTypes, Devices
<1>3. ReaderTypes /\ TickerTypes
  BY DEF ReaderTypes, TickerTypes
<1>4. StreamTypes
  BY StreamType DEF StreamTypes, Streams
<1>5. PeerTypes
  BY DEF PeerTypes, Records
<1>6. WorldTypes
  BY DEF WorldTypes, Records
<1>7. CountTypes
  BY DEF CountTypes
<1>8. Phases /\ MayRun
  BY DEF Phases, MayRun, InStop, Starting, Actors
<1>9. DevicesOpen
  BY <1>2 DEF DevicesOpen, HasDevices, Starting
<1> QED
  BY <1>1, <1>2, <1>3, <1>4, <1>5, <1>6, <1>7, <1>8, <1>9 DEF FlagsInv, TypeInv

\* The invariant says what FlagsTruthful says of a node between commands.
LEMMA FlagsFollow == FlagsInv => FlagsTruthful
<1> SUFFICES ASSUME FlagsInv PROVE FlagsTruthful
  OBVIOUS
<1> USE DEF FlagsInv
<1>1. TypeOK
  BY TypesOK
<1>2. ASSUME Idle PROVE HasDevices <=> node.running
  BY <1>2 DEF Idle, Stopping, HasDevices, Starting
<1>3. DevicesMatch
  BY <1>2, LiveFields DEF DevicesMatch, DevicesOpen, Idle, TypeInv, DeviceTypes
<1>4. LoggedOutStopped
  BY DEF LoggedOutStopped, MayRun, Idle
<1> QED
  BY <1>1, <1>3, <1>4 DEF FlagsTruthful

\* The inductive invariant of the flags holds in every behaviour.
LEMMA FlagsInvariant == Spec => []FlagsInv
<1>1. FlagsInv /\ [Next]_vars => FlagsInv'
  BY TypeStep, FlagStep DEF FlagsInv, FlagParts
<1> QED
  BY <1>1, InitFlags, PTL DEF Spec

\* However the node is taken up and down, however Start fails and whoever stops it,
\* between commands it has the devices of its last Start open exactly when running
\* says so, and it only runs while it is logged in (Start, Run, Stop, handleLogout).
THEOREM NodeFlagsTruthful == Spec => []FlagsTruthful
  BY FlagsInvariant, FlagsFollow, PTL

-----------------------------------------------------------------------------
(* Peers and their records.                                                 *)

\* A message is sent, about p or about something else.
LEMMA SentUpToDate ==
    ASSUME NEW s \in Seq(Messages), NEW m \in Messages, NEW p \in Peers, NEW v, NEW c, NEW k
    PROVE  /\ m.type = "CONNECT" /\ m.peer = p /\ m.version = v => UpToDate(Append(s, m), p, v, c, k)
           /\ ~(m.type = "CONNECT" /\ m.peer = p) /\ UpToDate(s, p, v, c, k) => UpToDate(Append(s, m), p, v, c, k)
<1> DEFINE t == Append(s, m)
<1>1. Len(s) \in Nat /\ Len(t) = Len(s) + 1 /\ t[Len(s) + 1] = m /\ \A i \in 1..Len(s) : t[i] = s[i]
  OBVIOUS
<1> HIDE DEF t
<1>2. \A i \in 1..Len(s) : Announces(t, p, i) <=> Announces(s, p, i)
  BY <1>1 DEF Announces
<1>3. Announces(t, p, Len(s) + 1) <=> m.type = "CONNECT" /\ m.peer = p
  BY <1>1 DEF Announces
<1>4. ASSUME m.type = "CONNECT", m.peer = p, m.version = v PROVE UpToDate(t, p, v, c, k)
  <2>1. Announces(t, p, Len(s) + 1) /\ Len(s) + 1 \in 1..Len(t)
    BY <1>1, <1>3, <1>4
  <2>2. ASSUME NEW i \in 1..Len(t), \A j \in 1..Len(t) : j > i => ~Announces(t, p, j)
        PROVE  t[i].version = v
    BY <1>1, <1>4, <2>1, <2>2
  <2> QED
    BY <2>1, <2>2 DEF UpToDate
<1>5. ASSUME ~(m.type = "CONNECT" /\ m.peer = p), UpToDate(s, p, v, c, k) PROVE UpToDate(t, p, v, c, k)
  <2>1. ~Announces(t, p, Len(s) + 1)
    BY <1>3, <1>5
  <2>2. ASSUME NEW i \in 1..Len(t), Announces(t, p, i), \A j \in 1..Len(t) : j > i => ~Announces(t, p, j)
        PROVE  t[i].version = v
    <3>1. i \in 1..Len(s) /\ Announces(s, p, i) /\ t[i] = s[i]
      BY <1>1, <1>2, <2>1, <2>2
    <3>2. \A j \in 1..Len(s) : j > i => ~Announces(s, p, j)
      BY <1>1, <1>2, <2>2
    <3> QED
      BY <1>5, <3>1, <3>2 DEF UpToDate
  <2>3. (\A i \in 1..Len(t) : ~Announces(t, p, i)) => \A i \in 1..Len(s) : ~Announces(s, p, i)
    BY <1>1, <1>2
  <2> QED
    BY <1>5, <2>2, <2>3 DEF UpToDate
<1> QED
  BY <1>4, <1>5 DEF t

\* The first message is taken off, about p or about something else.
LEMMA TakenUpToDate ==
    ASSUME NEW s \in Seq(Messages), s # <<>>, NEW p \in Peers, NEW v, NEW c, NEW k,
           UpToDate(s, p, v, c, k)
    PROVE  UpToDate(Tail(s), p, v, c, IF Announces(s, p, 1) THEN s[1].version ELSE k)
<1> DEFINE t == Tail(s)
           n == IF Announces(s, p, 1) THEN s[1].version ELSE k
<1>1. Len(s) \in Nat /\ Len(s) >= 1 /\ Len(t) = Len(s) - 1 /\ \A i \in 1..Len(t) : t[i] = s[i + 1]
  OBVIOUS
<1> HIDE DEF t
<1>2. \A i \in 1..Len(t) : Announces(t, p, i) <=> Announces(s, p, i + 1)
  BY <1>1 DEF Announces
<1>3. \A j \in 2..Len(s) : j - 1 \in 1..Len(t) /\ (j - 1) + 1 = j
  BY <1>1
<1>4. ASSUME NEW i \in 1..Len(t), Announces(t, p, i), \A j \in 1..Len(t) : j > i => ~Announces(t, p, j)
      PROVE  t[i].version = v
  <2>1. i + 1 \in 1..Len(s) /\ Announces(s, p, i + 1) /\ t[i] = s[i + 1]
    BY <1>1, <1>2, <1>4
  <2>2. ASSUME NEW j \in 1..Len(s), j > i + 1 PROVE ~Announces(s, p, j)
    <3>1. j \in 2..Len(s) /\ j - 1 > i
      BY <2>2
    <3> QED
      BY <1>2, <1>3, <1>4, <3>1
  <2> QED
    BY <2>1, <2>2 DEF UpToDate
<1>5. ASSUME \A i \in 1..Len(t) : ~Announces(t, p, i), c PROVE n = v
  <2>1. ASSUME NEW j \in 2..Len(s) PROVE ~Announces(s, p, j)
    <3>1. j - 1 \in 1..Len(t) /\ (j - 1) + 1 = j
      BY <1>3
    <3> QED
      BY <1>2, <1>5, <3>1
  <2>2. 1 \in 1..Len(s) /\ \A j \in 1..Len(s) : j > 1 => j \in 2..Len(s)
    BY <1>1
  <2>3. \A j \in 1..Len(s) : j = 1 \/ j \in 2..Len(s)
    BY <1>1
  <2> QED
    BY <1>5, <2>1, <2>2, <2>3 DEF UpToDate
<1> QED
  BY <1>4, <1>5 DEF UpToDate, t

\* Whoever has the devices has a context of its own, and no other context is left.
LEMMA SyncedContext ==
    ASSUME FlagsInv, Synced
    PROVE  Alive /\ live.ctx = {node.gen} /\ node.gen \in Gens
<1>1. live["ctx"] = {node.gen}
  BY DEF FlagsInv, DevicesOpen, Synced, Devices
<1>2. node.gen \in Gens
  BY DEF FlagsInv, MayRun, Synced, HasDevices
<1> QED
  BY <1>1, <1>2, LiveFields DEF FlagsInv, TypeInv, DeviceTypes, Synced

\* A step that leaves the peers alone, and takes nothing off the stream of the last
\* Start while it is open.
QuietPeers ==
    /\ UNCHANGED <<known, serving>>
    /\ hist'.left = hist.left
    /\ ctl'.version = ctl.version /\ ctl'.connected = ctl.connected
    /\ Synced' => Synced /\ node'.gen = node.gen
    /\ Synced' /\ stream'[node.gen].open =>
           stream[node.gen].open /\ stream'[node.gen].msgs = stream[node.gen].msgs
    /\ Synced' /\ (\A a \in Actors : stop'[a] # "devices") => \A a \in Actors : stop[a] # "devices"

\* A step that is quiet in this sense keeps every known peer served.
LEMMA QuietServed ==
    ASSUME PeerParts, QuietPeers
    PROVE  PeerParts'
<1> USE DEF PeerParts, QuietPeers
<1>1. RecordsExist'
  BY DEF RecordsExist
<1>2. RecordsArrive'
  <2> SUFFICES ASSUME Synced', stream'[node'.gen].open, NEW p \in Peers
               PROVE  UpToDate(stream'[node'.gen].msgs, p, ctl'.version[p], p \in ctl'.connected, known'[p])
    BY DEF RecordsArrive, UpToDate, Announces
  <2>1. Synced /\ node'.gen = node.gen /\ stream[node.gen].open /\ stream'[node.gen].msgs = stream[node.gen].msgs
    OBVIOUS
  <2>2. UpToDate(stream[node.gen].msgs, p, ctl.version[p], p \in ctl.connected, known[p])
    BY <2>1 DEF RecordsArrive
  <2> QED
    BY <2>1, <2>2
<1>3. KnownServed'
  BY DEF KnownServed
<1> QED
  BY <1>1, <1>2, <1>3

\* INIT names every connected peer with its record, and the rest is noted.
LEMMA SyncServed ==
    ASSUME FlagsInv, PeerParts, StartUpdateStream
    PROVE  PeerParts'
<1>1. RecordsExist'
  BY DEF PeerParts, RecordsExist, StartUpdateStream, outside
<1>2. Alive /\ cmd.pc = "sleep" /\ Starting
  BY DEF StartUpdateStream, Starting
<1>3. node.gen \in Gens /\ ~node.running /\ node' = node
  BY <1>2 DEF FlagsInv, MayRun, Phases, StartUpdateStream
<1>4. CASE ctl.loggedIn
  <2>1. /\ known' = [p \in Peers |-> IF p \in ctl.connected THEN ctl.version[p] ELSE known[p]]
        /\ serving' = [p \in Peers |-> serving[p] \/ p \in ctl.connected]
        /\ hist' = [hist EXCEPT !.left = {p \in Peers : known[p] # 0} \ ctl.connected]
        /\ stream' = [stream EXCEPT ![node.gen] = [pc |-> "recv", msgs |-> <<>>, open |-> TRUE]]
        /\ ctl' = ctl
    BY <1>4 DEF StartUpdateStream, outside
  <2>2. stream'[node.gen].msgs = <<>> /\ hist'.left = {p \in Peers : known[p] # 0} \ ctl.connected
    BY <1>3, <2>1 DEF FlagsInv, TypeInv, StreamTypes, HistoryTypes
  <2>3. RecordsArrive'
    BY <1>3, <2>1, <2>2 DEF RecordsArrive, UpToDate, Announces
  <2>4. ASSUME NEW p \in Peers, known'[p] # 0 PROVE serving'[p] \/ p \in hist'.left
    <3>1. CASE p \in ctl.connected
      BY <2>1, <3>1
    <3>2. CASE p \notin ctl.connected
      BY <2>1, <2>2, <2>4, <3>2
    <3> QED
      BY <3>1, <3>2
  <2>5. KnownServed'
    BY <2>4 DEF KnownServed
  <2> QED
    BY <1>1, <2>3, <2>5 DEF PeerParts
<1>5. CASE ~ctl.loggedIn
  <2>1. ~Synced'
    BY <1>2, <1>5 DEF StartUpdateStream, Synced, Alive
  <2> QED
    BY <1>1, <2>1 DEF PeerParts, RecordsArrive, KnownServed
<1> QED
  BY <1>4, <1>5

\* A CONNECT that is handled makes its record known and a new peer run.
LEMMA ConnectServed ==
    ASSUME FlagsInv, PeerParts, NEW g \in Gens, HandleConnectUpdate(g)
    PROVE  PeerParts'
<1> DEFINE m == Head(stream[g].msgs)
           s == stream[g].msgs
<1>1. /\ Alive /\ g \in live.ctx /\ s # <<>> /\ m.type = "CONNECT"
      /\ stream' = [stream EXCEPT ![g].msgs = Tail(@)]
      /\ known' = [known EXCEPT ![m.peer] = m.version]
      /\ serving' = [serving EXCEPT ![m.peer] = @ \/ known[m.peer] = 0]
      /\ UNCHANGED <<node, cmd, stop, ctl, crash, hist>>
  BY DEF HandleConnectUpdate, Handles, Received, outside
<1>2. s \in Seq(Messages) /\ m \in Messages /\ m = s[1]
  BY <1>1, Received1 DEF FlagsInv
<1>3. m.peer \in Peers
  BY <1>1, <1>2 DEF Messages
<1>4. RecordsExist'
  BY <1>1 DEF PeerParts, RecordsExist
<1>5. Synced' <=> Synced
  BY <1>1, SMTT(30) DEF Synced, HasDevices, Starting, Alive
<1>6. RecordsArrive'
  <2> SUFFICES ASSUME Synced', stream'[node'.gen].open, NEW p \in Peers
               PROVE  UpToDate(stream'[node'.gen].msgs, p, ctl'.version[p], p \in ctl'.connected, known'[p])
    BY DEF RecordsArrive, UpToDate, Announces
  <2>1. g = node.gen /\ Synced
    BY <1>1, <1>5, SyncedContext
  <2>2. stream'[g].msgs = Tail(s) /\ stream'[g].open = stream[g].open
    BY <1>1 DEF FlagsInv, TypeInv, StreamTypes, Streams
  <2>3. UpToDate(s, p, ctl.version[p], p \in ctl.connected, known[p])
    BY <1>1, <2>1, <2>2 DEF PeerParts, RecordsArrive
  <2>4. Announces(s, p, 1) <=> m.peer = p
    BY <1>1, <1>2 DEF Announces
  <2>5. known'[p] = IF Announces(s, p, 1) THEN s[1].version ELSE known[p]
    BY <1>1, <1>2, <1>3, <2>4 DEF FlagsInv, TypeInv, PeerTypes
  <2>6. UpToDate(Tail(s), p, ctl.version[p], p \in ctl.connected, known'[p])
    BY <1>1, <1>2, <2>3, <2>5, TakenUpToDate
  <2> QED
    BY <1>1, <2>1, <2>2, <2>6
<1>7. KnownServed'
  <2> SUFFICES ASSUME Synced, \A a \in Actors : stop[a] # "devices", NEW p \in Peers, known'[p] # 0
               PROVE  serving'[p] \/ p \in hist.left
    BY <1>1, <1>5 DEF KnownServed
  <2>1. CASE p = m.peer
    <3>1. serving'[p] = (serving[p] \/ known[p] = 0)
      BY <1>1, <1>3, <2>1 DEF FlagsInv, TypeInv, PeerTypes
    <3> QED
      BY <3>1 DEF PeerParts, KnownServed
  <2>2. CASE p # m.peer
    <3>1. serving'[p] = serving[p] /\ known'[p] = known[p]
      BY <1>1, <2>2 DEF FlagsInv, TypeInv, PeerTypes
    <3> QED
      BY <3>1 DEF PeerParts, KnownServed
  <2> QED
    BY <2>1, <2>2
<1> QED
  BY <1>4, <1>6, <1>7 DEF PeerParts

\* A LOGOUT that is handled while the node runs is taken off its stream.
LEMMA LogoutServed ==
    ASSUME FlagsInv, PeerParts, NEW g \in Gens, HandleLogout(g)
    PROVE  PeerParts'
<1> DEFINE s == stream[g].msgs
<1>1. /\ Alive /\ g \in live.ctx /\ s # <<>> /\ Head(s).type = "LOGOUT"
      /\ UNCHANGED <<node, cmd, known, serving, ctl, crash>>
  BY DEF HandleLogout, Handles, peers, outside
<1>2. hist'.left = hist.left
  BY DEF HandleLogout, StopBegins, FlagsInv, TypeInv, HistoryTypes
<1>3. ASSUME Synced' PROVE Synced /\ \A a \in Actors : stop[a] = "no"
  <2>1. CASE node.running
    <3>1. hist' = [hist EXCEPT !.mixed = @ \/ Starting \/ Stopping] /\ ~hist'.mixed
      BY <1>3, <2>1 DEF HandleLogout, StopBegins, Synced, Alive
    <3>2. ~Stopping
      BY <3>1 DEF FlagsInv, TypeInv, HistoryTypes
    <3> QED
      BY <1>1, <2>1, <3>2 DEF Stopping, Synced, HasDevices
  <2>2. CASE ~node.running
    <3>1. hist' = [hist EXCEPT !.mixed = @ \/ Starting] /\ ~hist'.mixed
      BY <1>3, <2>2 DEF HandleLogout, Synced, Alive
    <3>2. ~Starting
      BY <3>1 DEF FlagsInv, TypeInv, HistoryTypes
    <3> QED
      BY <1>1, <1>3, <2>2, <3>2 DEF Synced, Starting
  <2> QED
    BY <2>1, <2>2
<1>4. s \in Seq(Messages) /\ Head(s) = s[1]
  BY <1>1, Received1 DEF FlagsInv
<1>5. RecordsArrive'
  <2> SUFFICES ASSUME Synced', stream'[node'.gen].open, NEW p \in Peers
               PROVE  UpToDate(stream'[node'.gen].msgs, p, ctl'.version[p], p \in ctl'.connected, known'[p])
    BY DEF RecordsArrive, UpToDate, Announces
  <2>1. g = node.gen /\ Synced
    BY <1>1, <1>3, SyncedContext
  <2>2. stream'[g].msgs = Tail(s) /\ stream'[g].open = stream[g].open
    BY LogoutReceived DEF FlagsInv
  <2>3. UpToDate(s, p, ctl.version[p], p \in ctl.connected, known[p])
    BY <1>1, <2>1, <2>2 DEF PeerParts, RecordsArrive
  <2>4. ~Announces(s, p, 1)
    BY <1>1, <1>4 DEF Announces
  <2>5. UpToDate(Tail(s), p, ctl.version[p], p \in ctl.connected, known[p])
    BY <1>1, <1>4, <2>3, <2>4, TakenUpToDate
  <2> QED
    BY <1>1, <2>1, <2>2, <2>5
<1>6. KnownServed'
  BY <1>1, <1>2, <1>3 DEF PeerParts, KnownServed
<1> QED
  BY <1>1, <1>5, <1>6 DEF PeerParts, RecordsExist

\* A message that the controller sends reaches the stream of the last Start.
LEMMA SentToLast ==
    ASSUME FlagsInv, NEW m \in Messages, Send(m), Synced, stream[node.gen].open
    PROVE  /\ stream[node.gen].msgs \in Seq(Messages)
           /\ stream'[node.gen].msgs = Append(stream[node.gen].msgs, m) /\ stream'[node.gen].open
<1>1. node.gen \in Gens /\ node.gen \in live.ctx
  BY SyncedContext
<1>2. stream'[node.gen] = [stream[node.gen] EXCEPT !.msgs = Append(@, m)]
  BY <1>1 DEF Send
<1>3. stream[node.gen] \in Streams
  BY <1>1 DEF FlagsInv, TypeInv, StreamTypes
<1> QED
  BY <1>2, <1>3 DEF Streams

\* A stream that is not open gets no message.
LEMMA SentToOpen ==
    ASSUME FlagsInv, NEW m, Send(m), Synced, stream'[node.gen].open
    PROVE  stream[node.gen].open
<1>1. node.gen \in Gens
  BY SyncedContext
<1>2. stream[node.gen].open \/ stream'[node.gen] = stream[node.gen]
  BY <1>1 DEF Send
<1> QED
  BY <1>2

\* A peer connects and is announced, or disconnects, or the node is to be logged out.
LEMMA ControllerServed ==
    ASSUME FlagsInv, PeerParts, ForcedLogout \/ \E p \in Peers : PeerConnects(p) \/ PeerDisconnects(p)
    PROVE  PeerParts'
<1>1. /\ UNCHANGED <<node, live, cmd, stop, known, serving, crash, hist>>
      /\ Synced' <=> Synced
  BY DEF ForcedLogout, PeerConnects, PeerDisconnects, peers, Synced, HasDevices, Starting, Alive
<1>2. KnownServed'
  BY <1>1 DEF PeerParts, KnownServed
<1>3. ASSUME NEW q \in Peers, PeerConnects(q) PROVE RecordsExist' /\ RecordsArrive'
  <2> DEFINE m == [type |-> "CONNECT", peer |-> q, version |-> ctl.version[q] + 1]
  <2>1. Send(m) /\ ctl' = [ctl EXCEPT !.connected = @ \cup {q}, !.version[q] = @ + 1]
    BY <1>3 DEF PeerConnects
  <2>2. \A p \in Peers : ctl.version[p] \in Nat
    BY NodeLifecycleAssumption DEF FlagsInv, TypeInv, WorldTypes, Records
  <2>3. /\ ctl'.version[q] = ctl.version[q] + 1
        /\ \A p \in Peers : p # q => /\ ctl'.version[p] = ctl.version[p]
                                     /\ p \in ctl'.connected <=> p \in ctl.connected
    BY <2>1, <2>2 DEF FlagsInv, TypeInv, WorldTypes
  <2>4. m \in Messages
    <3>1. spent["connects"] < MaxConnects
      BY <1>3 DEF PeerConnects, Spend
    <3>2. ctl.version[q] + 1 \in Records
      BY <2>2, <3>1, NodeLifecycleAssumption DEF FlagsInv, TypeInv, CountTypes, Records
    <3> QED
      BY <3>2 DEF Messages
  <2>5. RecordsExist'
    BY <2>2, <2>3 DEF PeerParts, RecordsExist
  <2>6. RecordsArrive'
    <3> HIDE DEF m
    <3> SUFFICES ASSUME Synced', stream'[node'.gen].open, NEW p \in Peers
                 PROVE  UpToDate(stream'[node'.gen].msgs, p, ctl'.version[p], p \in ctl'.connected, known'[p])
      BY DEF RecordsArrive, UpToDate, Announces
    <3>1. Synced /\ stream[node.gen].open
      BY <1>1, <2>1, SentToOpen
    <3>2. /\ stream[node.gen].msgs \in Seq(Messages)
          /\ stream'[node.gen].msgs = Append(stream[node.gen].msgs, m)
      BY <2>1, <2>4, <3>1, SentToLast
    <3>3. UpToDate(stream[node.gen].msgs, p, ctl.version[p], p \in ctl.connected, known[p])
      BY <3>1 DEF PeerParts, RecordsArrive
    <3>4. m.type = "CONNECT" /\ m.peer = q /\ m.version = ctl.version[q] + 1
      BY DEF m
    <3>5. CASE p = q
      BY <1>1, <2>3, <2>4, <3>2, <3>4, <3>5, SentUpToDate
    <3>6. CASE p # q
      <4>1. UpToDate(Append(stream[node.gen].msgs, m), p, ctl.version[p], p \in ctl.connected, known[p])
        BY <2>4, <3>2, <3>3, <3>4, <3>6, SentUpToDate
      <4>2. ctl'.version[p] = ctl.version[p] /\ (p \in ctl'.connected <=> p \in ctl.connected) /\ known' = known
        BY <1>1, <2>3, <3>6
      <4> QED
        BY <1>1, <3>2, <4>1, <4>2 DEF UpToDate
    <3> QED
      BY <3>5, <3>6
  <2> QED
    BY <2>5, <2>6
<1>4. ASSUME NEW q \in Peers, PeerDisconnects(q) PROVE RecordsExist' /\ RecordsArrive'
  <2>1. ctl'.version = ctl.version /\ ctl'.connected \subseteq ctl.connected /\ stream' = stream
    BY <1>4 DEF PeerDisconnects, goroutines, FlagsInv, TypeInv, WorldTypes
  <2> QED
    BY <1>1, <2>1 DEF PeerParts, RecordsExist, RecordsArrive, UpToDate, Announces
<1>5. ASSUME ForcedLogout PROVE RecordsExist' /\ RecordsArrive'
  <2> DEFINE m == [type |-> "LOGOUT", peer |-> CHOOSE p \in Peers : TRUE, version |-> 0]
  <2>1. Send(m) /\ ctl' = [ctl EXCEPT !.loggedIn = FALSE]
    BY <1>5 DEF ForcedLogout
  <2>2. ctl'.version = ctl.version /\ ctl'.connected = ctl.connected
    BY <2>1 DEF FlagsInv, TypeInv, WorldTypes
  <2>3. m \in Messages /\ m.type = "LOGOUT"
    BY NodeLifecycleAssumption DEF Messages, Records
  <2> HIDE DEF m
  <2>4. RecordsArrive'
    <3> SUFFICES ASSUME Synced', stream'[node'.gen].open, NEW p \in Peers
                 PROVE  UpToDate(stream'[node'.gen].msgs, p, ctl'.version[p], p \in ctl'.connected, known'[p])
      BY DEF RecordsArrive, UpToDate, Announces
    <3>1. Synced /\ stream[node.gen].open
      BY <1>1, <2>1, SentToOpen
    <3>2. /\ stream[node.gen].msgs \in Seq(Messages)
          /\ stream'[node.gen].msgs = Append(stream[node.gen].msgs, m)
      BY <2>1, <2>3, <3>1, SentToLast
    <3>3. UpToDate(stream[node.gen].msgs, p, ctl.version[p], p \in ctl.connected, known[p])
      BY <3>1 DEF PeerParts, RecordsArrive
    <3>4. UpToDate(Append(stream[node.gen].msgs, m), p, ctl.version[p], p \in ctl.connected, known[p])
      BY <2>3, <3>2, <3>3, SentUpToDate
    <3> QED
      BY <1>1, <2>2, <3>2, <3>4
  <2> QED
    BY <2>2, <2>4 DEF PeerParts, RecordsExist
<1> QED
  BY <1>2, <1>3, <1>4, <1>5 DEF PeerParts

\* A Stop stops every peer, and the devices go next.
LEMMA StopServed ==
    ASSUME FlagsInv, PeerParts, NEW a \in Actors, StopAllPeers(a)
    PROVE  PeerParts'
<1>1. /\ stop[a] = "peers" /\ stop' = [stop EXCEPT ![a] = "devices"]
      /\ UNCHANGED <<node, cmd, stream, known, ctl, crash, hist>>
  BY DEF StopAllPeers, goroutines, outside
<1>2. stop'[a] = "devices" /\ \A b \in Actors : b # a => stop'[b] = stop[b]
  BY <1>1 DEF FlagsInv, TypeInv, FlagTypes
<1>3. Synced' => Synced
  BY <1>1, <1>2 DEF Synced, HasDevices, Starting, Alive
<1>4. RecordsArrive' /\ RecordsExist'
  BY <1>1, <1>3 DEF PeerParts, RecordsArrive, RecordsExist, UpToDate, Announces
<1>5. KnownServed'
  BY <1>2 DEF KnownServed
<1> QED
  BY <1>4, <1>5 DEF PeerParts

\* The steps that leave the peers alone.
LEMMA QuietPeerSteps ==
    ASSUME FlagsInv
    PROVE  /\ Login \/ LoginSucceeds \/ (\E u \in BOOLEAN : LoginFails(u)) => QuietPeers
           /\ Up \/ RunFails \/ Run \/ RunStore \/ Down => QuietPeers
           /\ \A a \in Actors : StopDevices(a) \/ StopStore(a) => QuietPeers
           /\ \A g \in Gens : Logout(g) \/ StreamEnds(g) \/ StreamBreaks(g) => QuietPeers
           /\ \A g \in Gens : Reader(g) \/ Ticker(g) => QuietPeers
           /\ NatMoves \/ UNCHANGED vars => QuietPeers
<1> USE DEF FlagsInv
<1> DEFINE Unseen ==
             /\ UNCHANGED <<known, serving>> /\ hist'.left = hist.left
             /\ ctl'.version = ctl.version /\ ctl'.connected = ctl.connected
<1>0. ASSUME Unseen, ~Synced' PROVE QuietPeers
  BY <1>0 DEF QuietPeers
<1>a. ASSUME Unseen, UNCHANGED <<stream, stop>>, Synced' => Synced /\ node'.gen = node.gen PROVE QuietPeers
  BY <1>a DEF QuietPeers
<1>1. ASSUME Login \/ LoginSucceeds \/ \E u \in BOOLEAN : LoginFails(u) PROVE QuietPeers
  <2>1. Unseen /\ UNCHANGED <<stream, stop>>
    BY <1>1, ZenonT(60) DEF Login, LoginSucceeds, LoginFails, goroutines, peers, outside, TypeInv, WorldTypes, HistoryTypes
  <2>2. /\ Alive /\ cmd.pc \in {"idle", "login"} /\ cmd'.pc \in {"idle", "login"}
        /\ node'.gen = node.gen /\ node'.running = node.running
    <3>1. Alive /\ cmd.pc \in {"idle", "login"} /\ cmd'.pc \in {"idle", "login"}
      <4>1. ASSUME LoginSucceeds PROVE Alive /\ cmd.pc = "login" /\ cmd' = [pc |-> "idle", endpoint |-> 0]
        BY <4>1, Zenon DEF LoginSucceeds
      <4>2. ASSUME Login PROVE Alive /\ cmd.pc = "idle" /\ cmd'.pc = "login"
        BY <4>2 DEF Login
      <4>3. ASSUME NEW u \in BOOLEAN, LoginFails(u) PROVE Alive /\ cmd.pc = "login" /\ cmd'.pc = "idle"
        BY <4>3 DEF LoginFails
      <4> QED
        BY <1>1, <4>1, <4>2, <4>3
    <3> QED
      BY <1>1, <3>1, QuietSteps DEF FlagParts, QuietFlags
  <2>3. Synced' => Synced
    BY <2>1, <2>2 DEF Synced, HasDevices, Starting
  <2> QED
    BY <1>a, <2>1, <2>2, <2>3
<1>2. ASSUME Up PROVE QuietPeers
  <2>1. Unseen /\ UNCHANGED <<stream, stop>>
    BY <1>2 DEF Up, goroutines, peers, outside, TypeInv, HistoryTypes
  <2>2. CASE node.loggedIn /\ ~node.running
    <3>1. cmd'.pc = "run" /\ ~node'.running
      BY <1>2, <2>2 DEF Up, TypeInv, FlagTypes
    <3> QED
      BY <1>0, <2>1, <3>1 DEF Synced
  <2>3. CASE ~(node.loggedIn /\ ~node.running)
    <3>1. UNCHANGED <<node, cmd, hist, crash>>
      BY <1>2, <2>3 DEF Up
    <3> QED
      BY <1>a, <2>1, <3>1 DEF Synced, HasDevices, Starting, Alive
  <2> QED
    BY <2>2, <2>3
<1>3. ASSUME RunFails \/ Run PROVE QuietPeers
  <2>1. Unseen /\ Alive /\ node' = node /\ Starting /\ cmd'.pc \in {"idle", "sleep"}
    BY <1>3 DEF RunFails, Run, goroutines, peers, outside, Starting, TypeInv, FlagTypes
  <2>2. ~node.running
    BY <2>1 DEF Phases
  <2> QED
    BY <1>0, <2>1, <2>2 DEF Synced
<1>4. ASSUME RunStore PROVE QuietPeers
  <2>1. Unseen /\ Alive /\ cmd.pc = "store" /\ UNCHANGED <<stream, stop>> /\ node'.gen = node.gen
    BY <1>4 DEF RunStore, goroutines, peers, outside, TypeInv, FlagTypes
  <2> QED
    BY <1>a, <2>1 DEF Synced, HasDevices, Starting
<1>5. ASSUME Down PROVE QuietPeers
  <2>1. Unseen /\ UNCHANGED <<stream, node>> /\ Alive /\ cmd.pc = "idle"
    BY <1>5 DEF Down, StopBegins, goroutines, peers, outside, TypeInv, HistoryTypes
  <2>2. CASE ~node.running
    BY <1>5, <1>0, <2>1, <2>2 DEF Down, Synced
  <2>3. CASE node.running
    <3>1. stop' = [stop EXCEPT ![0] = "peers"] /\ stop[0] = "no" /\ cmd'.pc = "down"
      BY <1>5, <2>1, <2>3 DEF Down, StopBegins, Phases, TypeInv, FlagTypes
    <3>2. \A a \in Actors : stop'[a] = stop[a] \/ stop[a] = "no"
      BY <3>1 DEF TypeInv, FlagTypes
    <3>3. Synced' => Synced
      BY <2>1, <2>3, <3>1, <3>2 DEF Synced, HasDevices, Starting
    <3> QED
      BY <2>1, <3>2, <3>3 DEF QuietPeers
  <2> QED
    BY <2>2, <2>3
<1>6. ASSUME NEW a \in Actors, StopDevices(a) \/ StopStore(a) PROVE QuietPeers
  <2>1. Unseen /\ Alive /\ InStop(a)
    BY <1>6 DEF StopDevices, StopStore, goroutines, peers, outside, InStop
  <2>2. node.running /\ ~Starting
    BY <2>1 DEF Phases
  <2>3. ~Starting'
    BY <1>6, <2>2 DEF StopDevices, StopStore, Starting, TypeInv, FlagTypes
  <2>4. ~HasDevices'
    BY <1>6, <2>3 DEF StopDevices, StopStore, HasDevices, TypeInv, FlagTypes
  <2> QED
    BY <1>0, <2>1, <2>4 DEF Synced
<1>7. ASSUME NEW g \in Gens, Logout(g) PROVE QuietPeers
  <2>1. Unseen /\ Alive /\ stop[g] = "logout" /\ g \in Actors /\ cmd' = cmd /\ node'.running = node.running
    BY <1>7 DEF Logout, peers, outside, Actors, TypeInv, FlagTypes
  <2>2. ~node.running /\ ~Starting
    BY <2>1 DEF Phases
  <2> QED
    BY <1>0, <2>1, <2>2 DEF Synced, Starting
<1>8. ASSUME NEW g \in Gens, StreamEnds(g) \/ StreamBreaks(g) PROVE QuietPeers
  <2>1. Unseen /\ UNCHANGED <<node, cmd, stop, crash, hist>>
    BY <1>8 DEF StreamEnds, StreamBreaks, peers, outside
  <2>2. ~stream'[g].open /\ \A h \in Gens : h # g => stream'[h] = stream[h]
    BY <1>8 DEF StreamEnds, StreamBreaks, TypeInv, StreamTypes, Streams
  <2>3. Synced' => Synced
    BY <2>1 DEF Synced, HasDevices, Starting, Alive
  <2>4. Synced => node.gen \in Gens
    BY SyncedContext
  <2> QED
    BY <2>1, <2>2, <2>3, <2>4 DEF QuietPeers
<1>9. ASSUME NEW g \in Gens, Reader(g) \/ Ticker(g) PROVE QuietPeers
  <2>1. Unseen /\ UNCHANGED <<stream, cmd, stop, crash>>
    BY <1>9 DEF Reader, HandleStunMessage, UpdateEndpoint, UpdateEndpointFails, ReaderEnds, Ticker, StunRoutine, StunEnds,
       peers, outside, TypeInv, HistoryTypes, WorldTypes
  <2>2. node'.gen = node.gen /\ node'.running = node.running /\ hist'.mixed = hist.mixed
    BY <1>9 DEF Reader, HandleStunMessage, UpdateEndpoint, UpdateEndpointFails, ReaderEnds, Ticker, StunRoutine, StunEnds,
       TypeInv, HistoryTypes, FlagTypes
  <2>3. Synced' => Synced
    BY <2>1, <2>2 DEF Synced, HasDevices, Starting, Alive
  <2> QED
    BY <1>a, <2>1, <2>2, <2>3
<1>10. ASSUME NatMoves \/ UNCHANGED vars PROVE QuietPeers
  <2>1. Unseen /\ UNCHANGED <<node, stream, cmd, stop, crash, hist>>
    BY <1>10 DEF NatMoves, vars, goroutines, peers
  <2> QED
    BY <1>a, <2>1 DEF Synced, HasDevices, Starting, Alive
<1> QED
  BY <1>1, <1>2, <1>3, <1>4, <1>5, <1>6, <1>7, <1>8, <1>9, <1>10

\* Every step keeps the peers and their records.
LEMMA PeerStep == ASSUME FlagsInv, PeerParts, [Next]_vars PROVE PeerParts'
<1>1. CASE QuietPeers
  BY <1>1, QuietServed
<1> QED
  BY <1>1, QuietPeerSteps, SyncServed, ConnectServed, LogoutServed, ControllerServed, StopServed
  DEF Next, World, Goroutines, Command, Stream, StopStep, Actors

\* When nothing is under way, the invariant says what PeersServed says.
LEMMA PeersFollow == FlagsInv /\ PeerParts => PeersServed
<1> SUFFICES ASSUME FlagsInv, PeerParts, Idle, node.running, stream[node.gen].open,
                    stream[node.gen].msgs = <<>>, NEW p \in ctl.connected
             PROVE  known[p] = ctl.version[p] /\ (serving[p] \/ p \in hist.left)
  BY DEF PeersServed
<1>1. Synced /\ \A a \in Actors : stop[a] = "no"
  BY DEF Synced, HasDevices, Idle, Stopping
<1>2. p \in Peers
  BY DEF FlagsInv, TypeInv, WorldTypes
<1>3. UpToDate(<<>>, p, ctl.version[p], p \in ctl.connected, known[p])
  BY <1>1, <1>2 DEF PeerParts, RecordsArrive
<1>4. known[p] = ctl.version[p]
  BY <1>3 DEF UpToDate
<1> QED
  BY <1>1, <1>2, <1>4 DEF PeerParts, KnownServed, RecordsExist

\* While the update stream is open and nothing is under way on it, the node has every
\* connected peer with its current record, and the peer runs unless the last INIT left
\* it out, however CONNECTs, forced logouts, broken streams and commands interleave
\* (handleInitialSync, handlePeerConnectUpdate, StopAllPeers).
THEOREM NodePeersServed == Spec => []PeersServed
<1>1. Init => PeerParts
  BY DEF Init, PeerParts, RecordsExist, RecordsArrive, KnownServed, Synced, Starting
<1>2. FlagsInv /\ PeerParts /\ [Next]_vars => PeerParts'
  BY PeerStep
<1> QED
  BY <1>1, <1>2, FlagsInvariant, PeersFollow, PTL DEF Spec
=============================================================================
