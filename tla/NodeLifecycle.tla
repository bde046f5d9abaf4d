---------------------------- MODULE NodeLifecycle ----------------------------
(***************************************************************************)
(* The life of a node: the commands Login, Up and Down (node/service.go),   *)
(* Start, Run and Stop (node/node.go), the goroutine of the update stream   *)
(* with the forced logout (node/grpcclient.go), and the discovery of the    *)
(* node's endpoint (node/stun.go).                                          *)
(*                                                                         *)
(* One command runs at a time; the goroutines of every Up that is still     *)
(* alive run beside it.  The fields conn, tun and runCtx are those of the   *)
(* last Start, and a goroutine of an earlier one that looks at them finds   *)
(* the new ones.  A peer is what the node knows of it, as a version of its  *)
(* record, and whether it is running; its own life is PeerLifecycle.        *)
(***************************************************************************)
EXTENDS Naturals, Sequences, FiniteSets

CONSTANTS
    Peers,       \* the other peers of the network
    MaxUps,      \* bound: successful calls of Start
    MaxCommands, \* bound: commands given
    MaxConnects, \* bound: new connections of the other peers
    MaxNat,      \* bound: addresses that the NAT gives the node in turn
    MaxLogouts,  \* bound: forced logouts
    MaxFaults    \* bound: lost answers, failed calls, broken streams

ASSUME NodeLifecycleAssumption ==
    /\ MaxUps \in Nat \ {0} /\ MaxCommands \in Nat /\ MaxConnects \in Nat
    /\ MaxNat \in Nat \ {0} /\ MaxLogouts \in Nat /\ MaxFaults \in Nat

Gens   == 1..MaxUps
Actors == Gens \cup {0}  \* who may call Stop: the commander is 0, a stream is its Up

VARIABLES
    node,     \* loggedIn, running, the Up that conn, tun and runCtx are from, the endpoint
    live,     \* the devices and contexts that are open
    cmd,      \* where the command is, and the endpoint that Login sends
    stop,     \* stop[a]: where actor a is in Stop
    reader,   \* reader[g]: the UDP reader of the g-th Up, its socket, and the endpoint it reports
    stream,   \* stream[g]: the stream goroutine of the g-th Up, and the messages under way
    ticker,   \* ticker[g]: the stunRoutine of the g-th Up, and the context it selects on
    known,    \* known[p]: the version of p in maps.id, 0 if there is none
    serving,  \* serving[p]: running of that peer
    ctl,      \* the controller: the login, the endpoint and the peers connected
    nat,      \* the address that the NAT gives the node
    crash,    \* why the process ended, or "none"
    hist,     \* what happened: a Stop beside a Start or another Stop (mixed), a report of
              \* the endpoint that failed or was overtaken, the peers that INIT left out
    spent     \* commands, connects, logouts and faults so far

vars == <<node, live, cmd, stop, reader, stream, ticker, known, serving, ctl, nat, 
          crash, hist, spent>>

\* The node has been up before, is logged in and down; the peers are connected, and
\* some of them are known from that time.
Init ==
    /\ node = [loggedIn |-> TRUE, running |-> FALSE, gen |-> 0, endpoint |-> 1]
    /\ live = [conn |-> {}, tun |-> {}, ctx |-> {}]
    /\ cmd = [pc |-> "idle", endpoint |-> 0]
    /\ stop = [a \in Actors |-> "no"]
    /\ reader = [g \in Gens |-> [pc |-> "none", conn |-> 0, endpoint |-> 0]]
    /\ stream = [g \in Gens |-> [pc |-> "none", msgs |-> <<>>, open |-> FALSE]]
    /\ ticker = [g \in Gens |-> [pc |-> "none", ctx |-> 0]]
    /\ known \in [Peers -> {0, 1}] /\ serving = [p \in Peers |-> FALSE]
    /\ ctl = [loggedIn |-> TRUE, endpoint |-> 1, version |-> [p \in Peers |-> 1],
              connected |-> Peers]
    /\ nat = 1 /\ crash = "none"
    /\ hist = [mixed |-> FALSE, failed |-> FALSE, overtaken |-> FALSE, left |-> {}]
    /\ spent = [commands |-> 0, connects |-> 0, logouts |-> 0, faults |-> 0]

-----------------------------------------------------------------------------
\* The process runs.  The model ends where a Stop has run beside a Start or another
\* Stop: the fields conn, tun and running are then those of either.
Alive == crash = "none" /\ ~hist.mixed

Spend(what, max) == spent[what] < max /\ spent' = [spent EXCEPT ![what] = @ + 1]

Starting == cmd.pc \in {"run", "sleep", "store"}
Stopping == \E a \in Actors : stop[a] # "no"

goroutines == <<reader, stream, ticker>>
peers      == <<known, serving>>
outside    == <<ctl, nat>>

-----------------------------------------------------------------------------
(* Login.                                                                   *)

\* The request carries the endpoint discovered so far.
Login ==
    /\ Alive /\ cmd.pc = "idle"
    /\ Spend("commands", MaxCommands)
    /\ cmd' = [pc |-> "login", endpoint |-> node.endpoint]
    /\ UNCHANGED <<node, live, stop, goroutines, peers, outside, crash, hist>>

\* ProcessPeerLogin leaves the endpoint as it is when the request has none.
LoginSucceeds ==
    /\ Alive /\ cmd.pc = "login"
    /\ ctl' = [ctl EXCEPT !.loggedIn = TRUE,
                          !.endpoint = IF cmd.endpoint = 0 THEN @ ELSE cmd.endpoint]
    /\ hist' = [hist EXCEPT !.overtaken = @ \/ cmd.endpoint \notin {0, node.endpoint}]
    /\ node' = [node EXCEPT !.loggedIn = TRUE]
    /\ cmd' = [pc |-> "idle", endpoint |-> 0]
    /\ UNCHANGED <<live, stop, goroutines, peers, nat, crash, spent>>

\* Unauthenticated asks for a token; any other status is not returned, and the
\* missing response is used.
LoginFails(unauthenticated) ==
    /\ Alive /\ cmd.pc = "login"
    /\ Spend("faults", MaxFaults)
    /\ cmd' = [pc |-> "idle", endpoint |-> 0]
    /\ crash' = IF unauthenticated THEN crash ELSE "no response"
    /\ UNCHANGED <<node, live, stop, goroutines, peers, outside, hist>>

-----------------------------------------------------------------------------
(* Up: Start and Run.                                                       *)

\* Mutant: Start does not look whether the node is running.
UpAgain ==
    LET g == node.gen + 1 IN
    /\ Alive /\ cmd.pc = "idle"
    /\ Spend("commands", MaxCommands)
    /\ node' = [node EXCEPT !.gen = g]
    /\ live' = [d \in DOMAIN live |-> live[d] \cup {g}]
    /\ cmd' = [cmd EXCEPT !.pc = "run"]
    /\ UNCHANGED <<stop, goroutines, peers, outside, crash, hist>>

\* Start up to Run: NewConn, NewTun and the context, which replace those of the last
\* Start.
Up ==
    LET g == node.gen + 1 IN
    /\ Alive /\ cmd.pc = "idle"
    /\ Spend("commands", MaxCommands)
    /\ IF node.loggedIn /\ ~node.running
       THEN /\ node.gen < MaxUps
            /\ node' = [node EXCEPT !.gen = g]
            /\ live' = [d \in DOMAIN live |-> live[d] \cup {g}]
            /\ cmd' = [cmd EXCEPT !.pc = "run"]
            /\ hist' = [hist EXCEPT !.mixed = @ \/ Stopping]
       ELSE UNCHANGED <<node, live, cmd, hist>>
    /\ UNCHANGED <<stop, goroutines, peers, outside, crash>>

\* Mutant: Start does not clean up after Run.
RunFailsOpen ==
    /\ Alive /\ cmd.pc = "run"
    /\ Spend("faults", MaxFaults)
    /\ live' = [live EXCEPT !.ctx = @ \ {node.gen}]
    /\ cmd' = [cmd EXCEPT !.pc = "idle"]
    /\ UNCHANGED <<node, stop, goroutines, peers, outside, crash, hist>>

\* A device cannot be made, or the address of the tun device or the first STUN
\* request fails: what was made is closed again.
RunFails ==
    /\ Alive /\ cmd.pc = "run"
    /\ Spend("faults", MaxFaults)
    /\ live' = [d \in DOMAIN live |-> live[d] \ {node.gen}]
    /\ cmd' = [cmd EXCEPT !.pc = "idle"]
    /\ UNCHANGED <<node, stop, goroutines, peers, outside, crash, hist>>

\* Run asks for the endpoint, starts the UDP reader and sleeps.
Run ==
    /\ Alive /\ cmd.pc = "run"
    /\ reader' = [reader EXCEPT ![node.gen] = [pc |-> "read", conn |-> node.gen, endpoint |-> 0]]
    /\ cmd' = [cmd EXCEPT !.pc = "sleep"]
    /\ UNCHANGED <<node, live, stop, stream, ticker, peers, outside, crash, hist, spent>>

\* UpdateStream and the first Recv; an error ends the process.  handleInitialSync adds
\* the peers that INIT names, those connected now, and starts them.
StartUpdateStream ==
    LET g == node.gen IN
    /\ Alive /\ cmd.pc = "sleep"
    /\ IF ctl.loggedIn
       THEN /\ known' = [p \in Peers |-> IF p \in ctl.connected THEN ctl.version[p] ELSE known[p]]
            /\ serving' = [p \in Peers |-> serving[p] \/ p \in ctl.connected]
            /\ hist' = [hist EXCEPT !.left = {p \in Peers : known[p] # 0} \ ctl.connected]
            /\ stream' = [stream EXCEPT ![g] = [pc |-> "recv", msgs |-> <<>>, open |-> TRUE]]
            /\ ticker' = [ticker EXCEPT ![g] = [pc |-> "select", ctx |-> g]]
            /\ cmd' = [cmd EXCEPT !.pc = "store"]
            /\ UNCHANGED crash
       ELSE crash' = "stream refused" /\ UNCHANGED <<stream, ticker, cmd, hist, peers>>
    /\ UNCHANGED <<node, live, stop, reader, outside, spent>>

\* Run ends.
RunStore ==
    /\ Alive /\ cmd.pc = "store"
    /\ node' = [node EXCEPT !.running = TRUE]
    /\ cmd' = [cmd EXCEPT !.pc = "idle"]
    /\ UNCHANGED <<live, stop, goroutines, peers, outside, crash, hist, spent>>

-----------------------------------------------------------------------------
(* Stop, of Down and of handleLogout.                                       *)

\* The two checks, and then the peers.
StopBegins(a) ==
    /\ stop' = [stop EXCEPT ![a] = "peers"]
    /\ hist' = [hist EXCEPT !.mixed = @ \/ Starting \/ Stopping]

Down ==
    /\ Alive /\ cmd.pc = "idle"
    /\ Spend("commands", MaxCommands)
    /\ IF node.running
       THEN /\ StopBegins(0)
            /\ cmd' = [cmd EXCEPT !.pc = "down"]
       ELSE UNCHANGED <<stop, hist, cmd>>
    /\ UNCHANGED <<node, live, goroutines, peers, outside, crash>>

StopAllPeers(a) ==
    /\ Alive /\ stop[a] = "peers"
    /\ serving' = [p \in Peers |-> FALSE]
    /\ stop' = [stop EXCEPT ![a] = "devices"]
    /\ UNCHANGED <<node, live, cmd, goroutines, known, outside, crash, hist, spent>>

\* Mutant: the context is not cancelled.
StopDevicesRunning(a) ==
    /\ Alive /\ stop[a] = "devices"
    /\ live' = [live EXCEPT !.conn = @ \ {node.gen}, !.tun = @ \ {node.gen}]
    /\ stop' = [stop EXCEPT ![a] = "store"]
    /\ UNCHANGED <<node, cmd, goroutines, peers, outside, crash, hist, spent>>

\* runCancel and the two calls of Close, on the fields as they are now.
StopDevices(a) ==
    /\ Alive /\ stop[a] = "devices"
    /\ live' = [d \in DOMAIN live |-> live[d] \ {node.gen}]
    /\ stop' = [stop EXCEPT ![a] = "store"]
    /\ UNCHANGED <<node, cmd, goroutines, peers, outside, crash, hist, spent>>

StopStore(a) ==
    /\ Alive /\ stop[a] = "store"
    /\ node' = [node EXCEPT !.running = FALSE]
    /\ stop' = [stop EXCEPT ![a] = IF a = 0 THEN "no" ELSE "logout"]
    /\ cmd' = IF a = 0 THEN [cmd EXCEPT !.pc = "idle"] ELSE cmd
    /\ UNCHANGED <<live, goroutines, peers, outside, crash, hist, spent>>

-----------------------------------------------------------------------------
(* The goroutine of the update stream.                                      *)

Handles(g) == Alive /\ stream[g].pc = "recv" /\ stream[g].open /\ g \in live.ctx
                 /\ stream[g].msgs # <<>>
Received(g) == stream' = [stream EXCEPT ![g].msgs = Tail(@)]

\* Mutant: Update takes nothing over.
ConnectUpdateIgnored(g) ==
    LET m == Head(stream[g].msgs) IN
    /\ Handles(g) /\ m.type = "CONNECT"
    /\ Received(g)
    /\ IF known[m.peer] = 0
       THEN /\ known' = [known EXCEPT ![m.peer] = m.version]
            /\ serving' = [serving EXCEPT ![m.peer] = TRUE]
       ELSE UNCHANGED peers
    /\ UNCHANGED <<node, live, cmd, stop, reader, ticker, outside, crash, hist, spent>>

\* handlePeerConnectUpdate: AddPeer and Start of a peer that is not in the map,
\* Update of one that is; Update starts a peer again only when its key is new.
HandleConnectUpdate(g) ==
    LET m == Head(stream[g].msgs) IN
    /\ Handles(g) /\ m.type = "CONNECT"
    /\ Received(g)
    /\ known' = [known EXCEPT ![m.peer] = m.version]
    /\ serving' = [serving EXCEPT ![m.peer] = @ \/ known[m.peer] = 0]
    /\ UNCHANGED <<node, live, cmd, stop, reader, ticker, outside, crash, hist, spent>>

\* Mutant: the node is logged out and goes on running.
HandleLogoutOnly(g) ==
    /\ Handles(g) /\ Head(stream[g].msgs).type = "LOGOUT"
    /\ stream' = [stream EXCEPT ![g].pc = "logout", ![g].msgs = Tail(@)]
    /\ stop' = [stop EXCEPT ![g] = "logout"]
    /\ hist' = [hist EXCEPT !.mixed = @ \/ Starting]
    /\ UNCHANGED <<node, live, cmd, reader, ticker, peers, outside, crash, spent>>

\* handleLogout: Stop, which does nothing to a node that is not running (yet).
HandleLogout(g) ==
    /\ Handles(g) /\ Head(stream[g].msgs).type = "LOGOUT"
    /\ stream' = [stream EXCEPT ![g].pc = "logout", ![g].msgs = Tail(@)]
    /\ IF node.running
       THEN StopBegins(g)
       ELSE /\ stop' = [stop EXCEPT ![g] = "logout"]
            /\ hist' = [hist EXCEPT !.mixed = @ \/ Starting]
    /\ UNCHANGED <<node, live, cmd, reader, ticker, peers, outside, crash, spent>>

\* Mutant: the logout is forgotten.
LogoutKept(g) ==
    /\ Alive /\ stop[g] = "logout"
    /\ stop' = [stop EXCEPT ![g] = "no"]
    /\ stream' = [stream EXCEPT ![g].pc = "recv"]
    /\ UNCHANGED <<node, live, cmd, reader, ticker, peers, outside, crash, hist, spent>>

\* loggedIn.Store(false), whether or not Stop had an error.
Logout(g) ==
    /\ Alive /\ stop[g] = "logout"
    /\ node' = [node EXCEPT !.loggedIn = FALSE]
    /\ stop' = [stop EXCEPT ![g] = "no"]
    /\ stream' = [stream EXCEPT ![g].pc = "recv"]
    /\ UNCHANGED <<live, cmd, reader, ticker, peers, outside, crash, hist, spent>>

\* Recv fails, or the context is done: the goroutine returns and nothing opens the
\* stream again.
StreamEnds(g) ==
    /\ Alive /\ stream[g].pc = "recv"
    /\ g \notin live.ctx \/ (~stream[g].open /\ stream[g].msgs = <<>>)
    /\ stream' = [stream EXCEPT ![g] = [pc |-> "ended", msgs |-> <<>>, open |-> FALSE]]
    /\ UNCHANGED <<node, live, cmd, stop, reader, ticker, peers, outside, crash, hist,
                   spent>>

-----------------------------------------------------------------------------
(* Endpoint discovery.                                                      *)

\* Back in ReadUDPPackets, which reads from node.conn as it is now.
ReadAgain(g) == reader' = [reader EXCEPT ![g] = [pc |-> "read", conn |-> node.gen, endpoint |-> 0]]

\* A STUN request of Run or of a stunRoutine is answered to the reader of the socket:
\* handleStunMessage remembers a new endpoint before it reports it.  An answer with
\* the endpoint that is known, and one that is lost, change nothing.
HandleStunMessage(g) ==
    /\ Alive /\ reader[g].pc = "read" /\ reader[g].conn \in live.conn
    /\ cmd.pc = "sleep" \/ \E t \in Gens : ticker[t].pc = "select"
    /\ node.endpoint # nat
    /\ node' = [node EXCEPT !.endpoint = nat]
    /\ reader' = [reader EXCEPT ![g].pc = "report", ![g].endpoint = nat]
    /\ UNCHANGED <<live, cmd, stop, stream, ticker, peers, outside, crash, hist, spent>>

\* Mutant: an endpoint is only reported by Login.
UpdateEndpointNot(g) ==
    /\ Alive /\ reader[g].pc = "report"
    /\ ReadAgain(g)
    /\ UNCHANGED <<node, live, cmd, stop, stream, ticker, peers, outside, crash, hist, spent>>

\* The call of UpdateEndpoint: the controller refuses it from a node that is not
\* logged in, and an error is only logged.
UpdateEndpoint(g) ==
    LET e == reader[g].endpoint IN
    /\ Alive /\ reader[g].pc = "report"
    /\ ReadAgain(g)
    /\ IF ctl.loggedIn
       THEN /\ ctl' = [ctl EXCEPT !.endpoint = e]
            /\ hist' = [hist EXCEPT !.overtaken = @ \/ e # node.endpoint]
       ELSE /\ hist' = [hist EXCEPT !.failed = TRUE]
            /\ UNCHANGED ctl
    /\ UNCHANGED <<node, live, cmd, stop, stream, ticker, peers, nat, crash, spent>>

UpdateEndpointFails(g) ==
    /\ Alive /\ reader[g].pc = "report"
    /\ Spend("faults", MaxFaults)
    /\ ReadAgain(g)
    /\ hist' = [hist EXCEPT !.failed = TRUE]
    /\ UNCHANGED <<node, live, cmd, stop, stream, ticker, peers, outside, crash>>

\* A reader whose socket is closed ends.
ReaderEnds(g) ==
    /\ Alive /\ reader[g].pc = "read" /\ reader[g].conn \notin live.conn
    /\ reader' = [reader EXCEPT ![g].pc = "ended"]
    /\ UNCHANGED <<node, live, cmd, stop, stream, ticker, peers, outside, crash, hist, spent>>

\* stunRoutine of an earlier Up: the ticker fires before the routine sees that its
\* context is done, and the next select is on the context of the new Up.
StunRoutine(g) ==
    /\ Alive /\ ticker[g].pc = "select" /\ ticker[g].ctx # node.gen
    /\ ticker' = [ticker EXCEPT ![g].ctx = node.gen]
    /\ UNCHANGED <<node, live, cmd, stop, reader, stream, peers, outside, crash, hist, spent>>

StunEnds(g) ==
    /\ Alive /\ ticker[g].pc = "select" /\ ticker[g].ctx \notin live.ctx
    /\ ticker' = [ticker EXCEPT ![g].pc = "ended"]
    /\ UNCHANGED <<node, live, cmd, stop, reader, stream, peers, outside, crash, hist, spent>>

-----------------------------------------------------------------------------
(* The controller, the other peers and the network.                         *)

\* Append to the messages of the streams that the controller has open.
Send(m) == stream' = [g \in Gens |-> IF stream[g].open /\ g \in live.ctx
                                     THEN [stream[g] EXCEPT !.msgs = Append(@, m)] ELSE stream[g]]

\* A peer connects, with a record that may have changed since.
PeerConnects(p) ==
    /\ Alive /\ p \notin ctl.connected
    /\ Spend("connects", MaxConnects)
    /\ ctl' = [ctl EXCEPT !.connected = @ \cup {p}, !.version[p] = @ + 1]
    /\ Send([type |-> "CONNECT", peer |-> p, version |-> ctl.version[p] + 1])
    /\ UNCHANGED <<node, live, cmd, stop, reader, ticker, peers, nat, crash, hist>>

\* The DISCONNECT that follows is ignored by HandleUpdate.
PeerDisconnects(p) ==
    /\ Alive /\ p \in ctl.connected
    /\ ctl' = [ctl EXCEPT !.connected = @ \ {p}]
    /\ UNCHANGED <<node, live, cmd, stop, goroutines, peers, nat, crash, hist, spent>>

\* The controller sends LOGOUT and closes the stream some time later.
ForcedLogout ==
    /\ Alive /\ ctl.loggedIn /\ \E g \in Gens : stream[g].open /\ g \in live.ctx
    /\ Spend("logouts", MaxLogouts)
    /\ ctl' = [ctl EXCEPT !.loggedIn = FALSE]
    /\ Send([type |-> "LOGOUT", peer |-> CHOOSE p \in Peers : TRUE, version |-> 0])
    /\ UNCHANGED <<node, live, cmd, stop, reader, ticker, peers, nat, crash, hist>>

StreamBreaks(g) ==
    /\ Alive /\ stream[g].open
    /\ Spend("faults", MaxFaults)
    /\ stream' = [stream EXCEPT ![g].open = FALSE, ![g].msgs = <<>>]
    /\ UNCHANGED <<node, live, cmd, stop, reader, ticker, peers, outside, crash, hist>>

NatMoves ==
    /\ Alive /\ nat < MaxNat
    /\ nat' = nat + 1
    /\ UNCHANGED <<node, live, cmd, stop, goroutines, peers, ctl, crash, hist, spent>>

-----------------------------------------------------------------------------
StopStep(a) == StopAllPeers(a) \/ StopDevices(a) \/ StopStore(a)

Command ==
    \/ LoginSucceeds \/ \E u \in BOOLEAN : LoginFails(u)
    \/ RunFails \/ Run \/ StartUpdateStream \/ RunStore
    \/ StopStep(0)
Stream(g) == HandleConnectUpdate(g) \/ HandleLogout(g) \/ StopStep(g) \/ Logout(g) \/ StreamEnds(g)
Reader(g) == HandleStunMessage(g) \/ UpdateEndpoint(g) \/ UpdateEndpointFails(g) \/ ReaderEnds(g)
Ticker(g) == StunRoutine(g) \/ StunEnds(g)

World ==
    \/ Login \/ Up \/ Down
    \/ \E p \in Peers : PeerConnects(p) \/ PeerDisconnects(p)
    \/ \E g \in Gens : StreamBreaks(g)
    \/ ForcedLogout \/ NatMoves

Goroutines == Command \/ \E g \in Gens : Stream(g) \/ Reader(g) \/ Ticker(g)

Next == World \/ Goroutines

Spec == Init /\ [][Next]_vars

\* While the command or a goroutine of the node can go on, one does: calls return, and
\* the STUN server answers in the end.  Nobody has to give a command or to connect.
FairSpec == Spec /\ WF_vars(Goroutines)

-----------------------------------------------------------------------------
(* Properties.                                                              *)

\* Every variable has its type.
TypeOK ==
    /\ node \in [loggedIn : BOOLEAN, running : BOOLEAN, gen : 0..MaxUps, endpoint : 0..MaxNat]
    /\ live \in [conn : SUBSET Gens, tun : SUBSET Gens, ctx : SUBSET Gens]
    /\ cmd.pc \in {"idle", "login", "run", "sleep", "store", "down"}
    /\ stop \in [Actors -> {"no", "peers", "devices", "store", "logout"}]
    /\ reader \in [Gens -> [pc : {"none", "read", "report", "ended"}, conn : 0..MaxUps,
                            endpoint : 0..MaxNat]]
    /\ \A g \in Gens : stream[g].pc \in {"none", "recv", "logout", "ended"}
    /\ ticker \in [Gens -> [pc : {"none", "select", "ended"}, ctx : 0..MaxUps]]
    /\ known \in [Peers -> 0..(MaxConnects + 1)] /\ serving \in [Peers -> BOOLEAN]
    /\ ctl.endpoint \in 0..MaxNat /\ ctl.connected \subseteq Peers
    /\ crash \in {"none", "no response", "stream refused"}

Idle == Alive /\ cmd.pc = "idle" /\ ~Stopping

\* Between commands a running node has the devices and the context of its last Start
\* open and no others, and a stopped node has none, however Start failed and whoever
\* stopped it.
DevicesMatch ==
    Idle => \A d \in DOMAIN live : live[d] = IF node.running THEN {node.gen} ELSE {}

\* A node that has been logged out, by the controller too, is not running.
LoggedOutStopped == Idle /\ ~node.loggedIn => ~node.running

\* Between commands the flags tell the truth: running about the devices, loggedIn
\* about whether the node may run.
FlagsTruthful == TypeOK /\ DevicesMatch /\ LoggedOutStopped

\* When the stream is open and nothing is under way on it, the node has every
\* connected peer with its current record, and the peer runs: except one that an
\* earlier Stop stopped and the last INIT did not name, which a CONNECT updates and
\* does not start.
PeersServed ==
    Idle /\ node.running /\ stream[node.gen].open /\ stream[node.gen].msgs = <<>> =>
        \A p \in ctl.connected :
            known[p] = ctl.version[p] /\ (serving[p] \/ p \in hist.left)

\* A LOGOUT that reaches a running node stops it and takes its login away.
LogoutStops ==
    (\E g \in Gens : Handles(g) /\ Head(stream[g].msgs).type = "LOGOUT" /\ node.running) ~>
        \/ ~node.running /\ ~node.loggedIn
        \/ stop[0] # "no" \/ (\A g \in Gens : ~stream[g].open) \/ ~Alive

\* The goroutines of a node that is stopped and stays stopped end: none waits for a
\* socket, a stream or a context that nobody closes.
StoppedDrains ==
    (Idle /\ ~node.running) ~>
        \/ \A g \in Gens : /\ reader[g].pc \in {"none", "ended"}
                          /\ stream[g].pc \in {"none", "ended"}
                          /\ ticker[g].pc \in {"none", "ended"}
        \/ cmd.pc # "idle" \/ ~Alive

\* The controller learns the address that the NAT gives a running node, unless a
\* report failed (it is not repeated) or was overtaken by an older one.
EndpointLearned ==
    (node.running /\ ctl.loggedIn /\ ctl.endpoint # nat) ~>
        \/ ctl.endpoint = nat
        \/ ~node.running \/ ~ctl.loggedIn \/ hist.failed \/ hist.overtaken \/ ~Alive
===============================================================================
