---------------------------- MODULE PluginBridge ----------------------------
(* The bridge between the backend (PluginBridgeGateway and its services)   *)
(* and the probe plugin inside one Minecraft server: dialling, handshake,  *)
(* reconnects, and what is sent over it in both directions.                *)
(*                                                                         *)
(* Every enabling of the plugin makes a new WebSocketBridge, which dials   *)
(* again whenever its connection closes.  A connection has an end in the   *)
(* plugin and one in the backend, and a stream of messages each way.  What *)
(* is sent before an end closes still arrives, unless the connection is    *)
(* cut: then nothing passes, and neither end is told.                      *)
(*                                                                         *)
(* Delays are not timed.  The probe's threads interleave: the one that     *)
(* reads a socket, the scheduler's, which dials, and the server's own.     *)
EXTENDS Naturals, Sequences

CONSTANTS
  Bridge,        \* WebSocketBridge objects; one that is over can stand for a new one
  Conn,          \* connections; likewise
  Action,        \* requests made by WhitelistActionService, which waits for a result
  Console,       \* requests of the other kinds, whose result nobody waits for
  NoBridge, NoConn,
  MaxSnapshots,  \* bound: snapshots taken
  MaxFaults      \* bound: cuts, failed dials, late handshakes, crashes and restarts

Request == Action \cup Console

ASSUME BridgeConstants == /\ NoBridge \notin Bridge
                          /\ NoConn \notin Conn
                          /\ MaxSnapshots \in Nat
                          /\ MaxFaults \in Nat

VARIABLES
  \* the plugin
  active,      \* the bridge of the runtime, or NoBridge
  compatible,  \* whether a bridge speaks the backend's protocol version
  stopped,     \* shutdownRequested of each bridge
  status,      \* its BridgeStatus
  client,      \* its client, unless that is closed
  timers,      \* how many reconnects its scheduler has pending
  dialling,    \* its connect has passed its checks, and has not dialled
  probeEnd,    \* the plugin's end of a connection: "closed", "dialling" or "open"
  owner,       \* the bridge that dialled a connection
  tasks,       \* the main thread's tasks: a request, and the bridge to answer on
  taken,       \* the number of the last snapshot
  \* the backend
  hostEnd,     \* its end: "closed", "pending" the handshake, "open" or "closing"
  registered,  \* connections in the table
  earlier,     \* for each of them, those that were registered before it
  latest,      \* the snapshot that SnapshotService holds, 0 for none
  request,     \* the progress of each request
  \* the network
  toHost, toProbe, cut, faults

bridgeVars == <<active, compatible, stopped, status, client, timers, dialling>>
probeVars == <<bridgeVars, probeEnd, owner, tasks, taken>>
tableVars == <<registered, earlier>>
serviceVars == <<latest, request>>
hostVars == <<hostEnd, tableVars, serviceVars>>
netVars == <<toHost, toProbe, cut>>
vars == <<probeVars, hostVars, netVars, faults>>

Init ==
  /\ active = NoBridge
  /\ compatible = [b \in Bridge |-> TRUE]
  /\ stopped = [b \in Bridge |-> TRUE]
  /\ status = [b \in Bridge |-> "UNAVAILABLE"]
  /\ client = [b \in Bridge |-> NoConn]
  /\ timers = [b \in Bridge |-> 0]
  /\ dialling = [b \in Bridge |-> FALSE]
  /\ probeEnd = [c \in Conn |-> "closed"]
  /\ owner = [c \in Conn |-> NoBridge]
  /\ tasks = {} /\ taken = 0
  /\ hostEnd = [c \in Conn |-> "closed"]
  /\ registered = {} /\ earlier = [c \in Conn |-> {}]
  /\ latest = 0
  /\ request = [r \in Request |-> "new"]
  /\ toHost = [c \in Conn |-> <<>>] /\ toProbe = [c \in Conn |-> <<>>]
  /\ cut = [c \in Conn |-> FALSE]
  /\ faults = MaxFaults

(***************************************************************************)
(* The network.                                                            *)
(***************************************************************************)

Msg(t) == [type |-> t]
SnapshotMsg(n) == [type |-> "snapshot", number |-> n]
CommandMsg(r) == [type |-> "command", of |-> r]
ResultMsg(r) == [type |-> "result", of |-> r]

\* The streams after an end has sent the messages ms.
SentToHost(c, ms) ==
  IF cut[c] \/ hostEnd[c] = "closed" THEN toHost[c] ELSE toHost[c] \o ms
SentToProbe(c, ms) ==
  IF cut[c] \/ probeEnd[c] = "closed" THEN toProbe[c] ELSE toProbe[c] \o ms

Arrives(stream, c, t) == stream[c] # <<>> /\ Head(stream[c]).type = t

Fault == faults > 0 /\ faults' = faults - 1

Cut(c) ==
  /\ ~cut[c] /\ <<probeEnd[c], hostEnd[c]>> # <<"closed", "closed">>
  /\ Fault
  /\ cut' = [cut EXCEPT ![c] = TRUE]
  /\ toHost' = [toHost EXCEPT ![c] = <<>>]
  /\ toProbe' = [toProbe EXCEPT ![c] = <<>>]
  /\ UNCHANGED <<probeVars, hostVars>>

(***************************************************************************)
(* The plugin: WebSocketBridge, and the runtime and router around it.      *)
(***************************************************************************)

IsFree(c) == probeEnd[c] = "closed" /\ hostEnd[c] = "closed"

\* connect, after its checks.
Dial(b, c) ==
  /\ IsFree(c)
  /\ probeEnd' = [probeEnd EXCEPT ![c] = "dialling"]
  /\ owner' = [owner EXCEPT ![c] = b]
  /\ cut' = [cut EXCEPT ![c] = FALSE]
  /\ client' = [client EXCEPT ![b] = c]
  /\ status' = [status EXCEPT ![b] = "CONNECTING"]

\* Nothing is left of a bridge that could act.
IsSpare(b) ==
  stopped[b] /\ ~dialling[b] /\ \A c \in Conn : owner[c] = b => probeEnd[c] = "closed"

\* enable makes a runtime, whose bridge connects at once.
Enable(b, c) ==
  /\ active = NoBridge
  /\ IsSpare(b)
  /\ Dial(b, c)
  /\ active' = b
  /\ stopped' = [stopped EXCEPT ![b] = FALSE]
  /\ \E v \in BOOLEAN : compatible' = [compatible EXCEPT ![b] = v]
  /\ UNCHANGED <<timers, dialling, tasks, taken, hostVars, toHost, toProbe, faults>>

\* Mutant: the client is left open.
DisableKeepsClient ==
  /\ active # NoBridge
  /\ active' = NoBridge
  /\ stopped' = [stopped EXCEPT ![active] = TRUE]
  /\ timers' = [timers EXCEPT ![active] = 0]
  /\ status' = [status EXCEPT ![active] = "UNAVAILABLE"]
  /\ tasks' = {}
  /\ UNCHANGED <<compatible, client, dialling, probeEnd, owner, taken, hostVars, netVars,
                 faults>>

\* disable and the bridge's disconnect; the server drops the plugin's tasks.
\* shutdownNow discards the timers, and does not stop a connect that is running.
Disable ==
  /\ active # NoBridge
  /\ LET b == active  c == client[active]  IN
     /\ active' = NoBridge
     /\ stopped' = [stopped EXCEPT ![b] = TRUE]
     /\ timers' = [timers EXCEPT ![b] = 0]
     /\ status' = [status EXCEPT ![b] = "UNAVAILABLE"]
     /\ client' = [client EXCEPT ![b] = NoConn]
     /\ IF c = NoConn THEN UNCHANGED <<probeEnd, toHost, toProbe>>
        ELSE /\ probeEnd' = [probeEnd EXCEPT ![c] = "closed"]
             /\ toProbe' = [toProbe EXCEPT ![c] = <<>>]
             /\ toHost' = [toHost EXCEPT ![c] = SentToHost(c, <<Msg("close")>>)]
  /\ tasks' = {}
  /\ UNCHANGED <<compatible, dialling, owner, taken, hostVars, cut, faults>>

\* Mutant: connect goes on only where it was never connected.
ReconnectDueAtFirst(b) ==
  /\ timers[b] > 0
  /\ timers' = [timers EXCEPT ![b] = @ - 1]
  /\ dialling' = [dialling EXCEPT ![b] = @ \/ status[b] = "UNAVAILABLE"]
  /\ UNCHANGED <<active, compatible, stopped, status, client, probeEnd, owner, tasks, taken,
                 hostVars, netVars, faults>>

\* A reconnect is due: connect up to the end of its checks.
ReconnectDue(b) ==
  /\ timers[b] > 0
  /\ timers' = [timers EXCEPT ![b] = @ - 1]
  /\ dialling' = [dialling EXCEPT ![b] = @ \/ status[b] \notin {"READY", "CONNECTING"}]
  /\ UNCHANGED <<active, compatible, stopped, status, client, probeEnd, owner, tasks, taken,
                 hostVars, netVars, faults>>

\* The rest of it: the bridge may have been stopped in between.
Reconnect(b, c) ==
  /\ dialling[b]
  /\ Dial(b, c)
  /\ dialling' = [dialling EXCEPT ![b] = FALSE]
  /\ UNCHANGED <<active, compatible, stopped, timers, tasks, taken, hostVars, toHost,
                 toProbe, faults>>

ProbeOpens(c) ==
  /\ Arrives(toProbe, c, "accept")
  /\ probeEnd' = [probeEnd EXCEPT ![c] = "open"]
  /\ status' = [status EXCEPT ![owner[c]] = "HANDSHAKING"]
  /\ toProbe' = [toProbe EXCEPT ![c] = Tail(@)]
  /\ toHost' = [toHost EXCEPT ![c] = SentToHost(c, <<Msg("handshake")>>)]
  /\ UNCHANGED <<active, compatible, stopped, client, timers, dialling, owner, tasks, taken,
                 hostVars, cut, faults>>

\* Mutant: a refusal schedules a reconnect, as the close that follows it does.
HandshakeAnsweredRetries(c) ==
  /\ \/ /\ Arrives(toProbe, c, "accepted")
        /\ status' = [status EXCEPT ![owner[c]] = "READY"]
        /\ UNCHANGED timers
     \/ /\ Arrives(toProbe, c, "refused")
        /\ status' = [status EXCEPT ![owner[c]] = "VERSION_MISMATCH"]
        /\ timers' = [timers EXCEPT ![owner[c]] = @ + 1]
  /\ toProbe' = [toProbe EXCEPT ![c] = Tail(@)]
  /\ UNCHANGED <<active, compatible, stopped, client, dialling, probeEnd, owner, tasks,
                 taken, hostVars, toHost, cut, faults>>

HandshakeAnswered(c) ==
  /\ \/ /\ Arrives(toProbe, c, "accepted")
        /\ status' = [status EXCEPT ![owner[c]] = "READY"]
     \/ /\ Arrives(toProbe, c, "refused")
        /\ status' = [status EXCEPT ![owner[c]] = "VERSION_MISMATCH"]
  /\ toProbe' = [toProbe EXCEPT ![c] = Tail(@)]
  /\ UNCHANGED <<active, compatible, stopped, client, timers, dialling, probeEnd, owner,
                 tasks, taken, hostVars, toHost, cut, faults>>

\* A command becomes a task of the main thread, which a disabled plugin is denied.
CommandArrives(c) ==
  /\ Arrives(toProbe, c, "command")
  /\ tasks' = IF status[owner[c]] = "READY" /\ active # NoBridge
              THEN tasks \cup {<<Head(toProbe[c]).of, owner[c]>>} ELSE tasks
  /\ toProbe' = [toProbe EXCEPT ![c] = Tail(@)]
  /\ UNCHANGED <<bridgeVars, probeEnd, owner, taken, hostVars, toHost, cut, faults>>

\* Retries are unlimited, and their delay is not modelled.
ScheduleReconnect(b) == timers' = [timers EXCEPT ![b] = @ + 1]

OnClose(c) ==
  LET b == owner[c]  IN
  /\ probeEnd' = [probeEnd EXCEPT ![c] = "closed"]
  /\ client' = [client EXCEPT ![b] = IF @ = c THEN NoConn ELSE @]
  /\ IF stopped[b]
     THEN /\ status' = [status EXCEPT ![b] = "UNAVAILABLE"]
          /\ UNCHANGED timers
     ELSE /\ status' = [status EXCEPT ![b] = "DISCONNECTED"]
          /\ ScheduleReconnect(b)
  /\ toProbe' = [toProbe EXCEPT ![c] = <<>>]
  /\ toHost' = [toHost EXCEPT ![c] = SentToHost(c, <<Msg("close")>>)]
  /\ UNCHANGED <<active, compatible, stopped, dialling, owner, tasks, taken, hostVars, cut>>

ProbeCloses(c) ==
  /\ Arrives(toProbe, c, "close") \/ Arrives(toProbe, c, "reset")
  /\ OnClose(c) /\ UNCHANGED faults

\* No answer to the pings for a minute, or to the dial.
ConnectionLost(c) ==
  /\ cut[c] /\ probeEnd[c] # "closed"
  /\ OnClose(c) /\ UNCHANGED faults

DialFails(c) ==
  /\ probeEnd[c] = "dialling" /\ hostEnd[c] = "closed" /\ toProbe[c] = <<>> /\ ~cut[c]
  /\ Fault
  /\ OnClose(c)

\* send: what is sent on a bridge that is not READY, or has no client, is dropped.
Send(b, m) ==
  toHost' = IF status[b] = "READY" /\ client[b] # NoConn
            THEN [toHost EXCEPT ![client[b]] = SentToHost(client[b], <<m>>)] ELSE toHost

\* Mutant: the answer is the command itself.
ExecuteEchoes(t) ==
  /\ t \in tasks
  /\ tasks' = tasks \ {t}
  /\ Send(t[2], CommandMsg(t[1]))
  /\ UNCHANGED <<bridgeVars, probeEnd, owner, taken, hostVars, toProbe, cut, faults>>

\* The main thread runs a command, and the router answers on its bridge.
Execute(t) ==
  /\ t \in tasks
  /\ tasks' = tasks \ {t}
  /\ Send(t[2], ResultMsg(t[1]))
  /\ UNCHANGED <<bridgeVars, probeEnd, owner, taken, hostVars, toProbe, cut, faults>>

\* The snapshot timer of the runtime.
TakeSnapshot ==
  /\ active # NoBridge /\ status[active] = "READY"
  /\ taken < MaxSnapshots
  /\ taken' = taken + 1
  /\ Send(active, SnapshotMsg(taken + 1))
  /\ UNCHANGED <<bridgeVars, probeEnd, owner, tasks, hostVars, toProbe, cut, faults>>

\* The Minecraft server's process is killed; the system closes its sockets.
ServerCrashes ==
  /\ active # NoBridge \/ \E c \in Conn : probeEnd[c] # "closed"
  /\ Fault
  /\ active' = NoBridge
  /\ stopped' = [b \in Bridge |-> TRUE]
  /\ status' = [b \in Bridge |-> "UNAVAILABLE"]
  /\ client' = [b \in Bridge |-> NoConn]
  /\ timers' = [b \in Bridge |-> 0]
  /\ dialling' = [b \in Bridge |-> FALSE]
  /\ probeEnd' = [c \in Conn |-> "closed"]
  /\ tasks' = {}
  /\ toProbe' = [c \in Conn |-> <<>>]
  /\ toHost' = [c \in Conn |-> IF probeEnd[c] = "closed" THEN toHost[c]
                               ELSE SentToHost(c, <<Msg("close")>>)]
  /\ UNCHANGED <<compatible, owner, taken, hostVars, cut>>

(***************************************************************************)
(* The backend: PluginBridgeGateway, PluginBridgeService, SnapshotService  *)
(* and WhitelistActionService.                                             *)
(***************************************************************************)

HostAccepts(c) ==
  /\ probeEnd[c] = "dialling" /\ hostEnd[c] = "closed" /\ toProbe[c] = <<>> /\ ~cut[c]
  /\ hostEnd' = [hostEnd EXCEPT ![c] = "pending"]
  /\ toProbe' = [toProbe EXCEPT ![c] = <<Msg("accept")>>]
  /\ UNCHANGED <<probeVars, tableVars, serviceVars, toHost, cut, faults>>

Register(c) ==
  /\ registered' = registered \cup {c}
  /\ earlier' = [earlier EXCEPT ![c] = registered]

Unregister(c) ==
  /\ registered' = registered \ {c}
  /\ earlier' = [d \in Conn |-> IF d = c THEN {} ELSE earlier[d] \ {c}]

\* HandshakeService.validate.
IsAccepted(c) == compatible[owner[c]]

\* Mutant: a connection is registered whatever the answer says.
HandshakeArrivesAnyway(c) ==
  /\ hostEnd[c] = "pending" /\ Arrives(toHost, c, "handshake")
  /\ toHost' = [toHost EXCEPT ![c] = Tail(@)]
  /\ toProbe' = [toProbe EXCEPT ![c] =
                   SentToProbe(c, <<Msg(IF IsAccepted(c) THEN "accepted" ELSE "refused")>>)]
  /\ hostEnd' = [hostEnd EXCEPT ![c] = "open"]
  /\ Register(c)
  /\ UNCHANGED <<probeVars, serviceVars, cut, faults>>

\* handleHandshake: the answer is sent, then the connection is registered or closed.
HandshakeArrives(c) ==
  /\ hostEnd[c] = "pending" /\ Arrives(toHost, c, "handshake")
  /\ toHost' = [toHost EXCEPT ![c] = Tail(@)]
  /\ IF IsAccepted(c)
     THEN /\ toProbe' = [toProbe EXCEPT ![c] = SentToProbe(c, <<Msg("accepted")>>)]
          /\ hostEnd' = [hostEnd EXCEPT ![c] = "open"]
          /\ Register(c)
     ELSE /\ toProbe' = [toProbe EXCEPT ![c] = SentToProbe(c, <<Msg("refused"), Msg("close")>>)]
          /\ hostEnd' = [hostEnd EXCEPT ![c] = "closing"]
          /\ UNCHANGED tableVars
  /\ UNCHANGED <<probeVars, serviceVars, cut, faults>>

\* Mutant: the handshake does not clear the timeout.
HandshakeTimesOutAnyway(c) ==
  /\ hostEnd[c] \in {"pending", "open"}
  /\ IF cut[c] THEN UNCHANGED faults ELSE Fault
  /\ hostEnd' = [hostEnd EXCEPT ![c] = "closing"]
  /\ toProbe' = [toProbe EXCEPT ![c] = SentToProbe(c, <<Msg("close")>>)]
  /\ UNCHANGED <<probeVars, tableVars, serviceVars, toHost, cut>>

\* Ten seconds without a handshake.
HandshakeTimesOut(c) ==
  /\ hostEnd[c] = "pending"
  /\ IF cut[c] THEN UNCHANGED faults ELSE Fault
  /\ hostEnd' = [hostEnd EXCEPT ![c] = "closing"]
  /\ toProbe' = [toProbe EXCEPT ![c] = SentToProbe(c, <<Msg("close")>>)]
  /\ UNCHANGED <<probeVars, tableVars, serviceVars, toHost, cut>>

OnSnapshot(n) == latest' = n

\* handleMessage: snapshots are stored, results are broadcast.
MessageArrives(c) ==
  /\ hostEnd[c] = "open" /\ c \in registered
  /\ \/ /\ Arrives(toHost, c, "snapshot")
        /\ OnSnapshot(Head(toHost[c]).number)
     \/ Arrives(toHost, c, "result") /\ UNCHANGED latest
  /\ toHost' = [toHost EXCEPT ![c] = Tail(@)]
  /\ UNCHANGED <<probeVars, hostEnd, tableVars, request, toProbe, cut, faults>>

\* The close of the other end is read; the connection stays in the table.
CloseArrives(c) ==
  /\ hostEnd[c] \in {"pending", "open"} /\ Arrives(toHost, c, "close")
  /\ hostEnd' = [hostEnd EXCEPT ![c] = "closing"]
  /\ toHost' = [toHost EXCEPT ![c] = Tail(@)]
  /\ UNCHANGED <<probeVars, tableVars, serviceVars, toProbe, cut, faults>>

\* The socket's close event.
Closed(c) ==
  /\ hostEnd' = [hostEnd EXCEPT ![c] = "closed"]
  /\ toHost' = [toHost EXCEPT ![c] = <<>>]
  /\ Unregister(c)
  /\ UNCHANGED <<probeVars, serviceVars, toProbe, cut, faults>>

HostCloses(c) == hostEnd[c] = "closing" /\ Closed(c)

\* The backend sends no pings: a cut is noticed when the system gives up on
\* something it has sent, if at all.
HostGivesUp(c) == cut[c] /\ hostEnd[c] \in {"pending", "open"} /\ Closed(c)

\* getConnectionByServerId: the first in the order of registration.
IsOldest(c) == c \in registered /\ earlier[c] = {}

\* sendToPlugin through it, if its socket is open.
Ask(r) ==
  /\ request[r] = "new"
  /\ \/ \E c \in Conn :
          /\ IsOldest(c) /\ hostEnd[c] = "open"
          /\ toProbe' = [toProbe EXCEPT ![c] = SentToProbe(c, <<CommandMsg(r)>>)]
          /\ request' = [request EXCEPT ![r] = "sent"]
     \/ /\ \A c \in Conn : IsOldest(c) => hostEnd[c] # "open"
        /\ request' = [request EXCEPT ![r] = "refused"]
        /\ UNCHANGED toProbe
  /\ UNCHANGED <<probeVars, hostEnd, tableVars, latest, toHost, cut, faults>>

\* Nothing else ends the wait of waitForResult.
ActionTimesOut(r) ==
  /\ r \in Action /\ request[r] = "sent"
  /\ request' = [request EXCEPT ![r] = "timedOut"]
  /\ UNCHANGED <<probeVars, hostEnd, tableVars, latest, netVars, faults>>

\* The backend's process ends and is started again.
HostRestarts ==
  /\ Fault
  /\ hostEnd' = [c \in Conn |-> "closed"]
  /\ registered' = {} /\ earlier' = [c \in Conn |-> {}]
  /\ latest' = 0
  /\ request' = [r \in Request |-> IF r \in Action /\ request[r] = "sent" THEN "lost" ELSE request[r]]
  /\ toHost' = [c \in Conn |-> <<>>]
  /\ toProbe' = [c \in Conn |-> IF hostEnd[c] = "closed" THEN toProbe[c]
                                ELSE SentToProbe(c, <<Msg("reset")>>)]
  /\ UNCHANGED <<probeVars, cut>>

(***************************************************************************)
(* The specification.                                                      *)
(***************************************************************************)

PluginStep ==
  \/ Disable \/ TakeSnapshot \/ ServerCrashes
  \/ \E b \in Bridge : ReconnectDue(b) \/ \E c \in Conn : Enable(b, c) \/ Reconnect(b, c)
  \/ \E c \in Conn : \/ ProbeOpens(c) \/ HandshakeAnswered(c) \/ CommandArrives(c)
                     \/ ProbeCloses(c) \/ ConnectionLost(c) \/ DialFails(c)
  \/ \E t \in tasks : Execute(t)

HostStep ==
  \/ HostRestarts
  \/ \E c \in Conn : \/ HostAccepts(c) \/ HandshakeArrives(c) \/ HandshakeTimesOut(c)
                     \/ MessageArrives(c) \/ CloseArrives(c) \/ HostCloses(c) \/ HostGivesUp(c)
  \/ \E r \in Request : Ask(r) \/ ActionTimesOut(r)

Next == PluginStep \/ HostStep \/ \E c \in Conn : Cut(c)

Spec == Init /\ [][Next]_vars

\* Timers fire, threads run, and what is sent over a connection that is not
\* cut arrives.  Nothing makes the backend notice a cut.
Fairness ==
  /\ \A b \in Bridge : WF_vars(ReconnectDue(b)) /\ WF_vars(\E c \in Conn : Reconnect(b, c))
  /\ \A c \in Conn :
       /\ WF_vars(ProbeOpens(c)) /\ WF_vars(HandshakeAnswered(c)) /\ WF_vars(CommandArrives(c))
       /\ WF_vars(ProbeCloses(c)) /\ WF_vars(ConnectionLost(c))
       /\ WF_vars(HostAccepts(c)) /\ WF_vars(HandshakeArrives(c)) /\ WF_vars(MessageArrives(c))
       /\ WF_vars(CloseArrives(c)) /\ WF_vars(HostCloses(c))

FairSpec == Spec /\ Fairness

(***************************************************************************)
(* Properties.                                                             *)
(***************************************************************************)

Status == {"UNAVAILABLE", "CONNECTING", "HANDSHAKING", "READY", "DISCONNECTED", "VERSION_MISMATCH"}
HostMsg == {Msg("handshake"), Msg("close")} \cup [type : {"snapshot"}, number : Nat]
             \cup [type : {"result"}, of : Request]
ProbeMsg == {Msg("accept"), Msg("accepted"), Msg("refused"), Msg("close"), Msg("reset")}
              \cup [type : {"command"}, of : Request]

\* The types.
BridgeTypeOK ==
  /\ active \in Bridge \cup {NoBridge}
  /\ compatible \in [Bridge -> BOOLEAN] /\ stopped \in [Bridge -> BOOLEAN]
  /\ status \in [Bridge -> Status]
  /\ client \in [Bridge -> Conn \cup {NoConn}]
  /\ timers \in [Bridge -> Nat] /\ dialling \in [Bridge -> BOOLEAN]
  /\ probeEnd \in [Conn -> {"closed", "dialling", "open"}]
  /\ owner \in [Conn -> Bridge \cup {NoBridge}]
  /\ tasks \subseteq Request \X Bridge /\ taken \in Nat
  /\ hostEnd \in [Conn -> {"closed", "pending", "open", "closing"}]
  /\ registered \subseteq Conn /\ earlier \in [Conn -> SUBSET Conn]
  /\ latest \in Nat
  /\ request \in [Request -> {"new", "sent", "refused", "timedOut", "lost"}]
  /\ toHost \in [Conn -> Seq(HostMsg)] /\ toProbe \in [Conn -> Seq(ProbeMsg)]
  /\ cut \in [Conn -> BOOLEAN]
  /\ faults \in 0..MaxFaults

IsUp(c) == probeEnd[c] # "closed"
IsReady(c) == IsUp(c) /\ status[owner[c]] = "READY"

\* The plugin has at most one connection, and none while a reconnect is due: its
\* bridges never dial side by side, whatever closes and whoever stops them. Only a
\* bridge that was stopped while it was dialling can have one besides.
OneLiveClient ==
  /\ \A c, d \in Conn : (IsUp(c) /\ IsUp(d) /\ ~stopped[owner[c]] /\ ~stopped[owner[d]]) => c = d
  /\ \A c \in Conn : (IsUp(c) /\ ~stopped[owner[c]])
                       => timers[owner[c]] = 0 /\ ~dialling[owner[c]] /\ client[owner[c]] = c

\* Both ends agree that a handshake has succeeded. While the plugin holds its bridge
\* READY, the backend has its connection open and in the table, so that a server that
\* looks connected in the game can be reached: only a cut, or a restart whose news is
\* on its way, is an excuse, and the timeout of the handshake is none. And a command
\* that reaches a bridge finds it READY, so that onMessage drops none: the answer to
\* the handshake is always ahead of the first command.
EndsAgree ==
  \A c \in Conn :
    /\ IsReady(c) => \/ c \in registered /\ hostEnd[c] = "open"
                     \/ cut[c]
                     \/ \E i \in DOMAIN toProbe[c] : toProbe[c][i].type = "reset"
    /\ Arrives(toProbe, c, "command") => status[owner[c]] = "READY"

\* The snapshot that is shown goes back in time only when the backend restarts or
\* while it still reads a connection the plugin has left: what comes over the one
\* in use is never older, however the two are delayed.
SnapshotsAdvance ==
  [][latest' < latest =>
       \/ latest' = 0
       \/ \E c \in registered : ~IsUp(c) /\ toHost'[c] # toHost[c]]_vars

\* When the plugin stays enabled and speaks the backend's version, it ends up READY
\* and in the table for good, through cuts, crashes and restarts on either side.
ServerIsReachedAgain ==
  \A b \in Bridge :
    <>[](active = b /\ compatible[b])
      => <>[](status[b] = "READY" /\ client[b] \in registered)
=============================================================================
