--------------------------- MODULE ProcessManager --------------------------
(* ProcessManagerService for one server: the map of managed processes, the *)
(* child processes they refer to, the chain of stop calls and the MC       *)
(* console session registered under the id 'mc:<server>'.                  *)
(*                                                                         *)
(* The n-th accepted start makes the n-th ManagedProcess object, and if it *)
(* gets that far the n-th console session and the n-th child; all three    *)
(* are called slot n.  The handlers start() installs on a child keep       *)
(* referring to the object of their own start, which a later start may     *)
(* have replaced in the map.                                               *)
(*                                                                         *)
(* An action is what the code does between two awaits.  Node delivers a    *)
(* child's 'spawn' or 'error' event in the turn of the event loop that     *)
(* spawned it, so Spawn* include the handler of that event.                *)
EXTENDS Naturals, Sequences, FiniteSets

CONSTANTS Caller,      \* who calls start and stop, each one call at a time
          MaxStarts,   \* bound: accepted starts in a behaviour
          PromptKill   \* TRUE: a child sent SIGKILL is gone before the wait for it ends

ASSUME MaxStartsIsNat == MaxStarts \in Nat
ASSUME PromptKillIsBoolean == PromptKill \in BOOLEAN

VARIABLES
  current,    \* processes.get(serverId), 0 when the map has no entry
  starts,     \* slots made so far
  state,      \* managed.state of each slot's object
  process,    \* managed.process: the slot of the child it refers to, 0 for null
  mcSession,  \* managed.mcSession: the slot of the session, 0 for null
  registered, \* the session the registry holds under 'mc:<server>', 0 for none
  life,       \* each child: not spawned, live, failed to spawn, gone
  killed,     \* child.killed: a SIGKILL was delivered to it
  asked,      \* children a stop has acted on
  crashed,    \* children whose exit emitted 'server.crashed'
  callPc,     \* where each caller's start or stop is
  target,     \* the object the caller's call works on
  result,     \* how the caller's last call ended
  stopLocks,  \* the chain of stop calls, the one that runs first
  host        \* the backend process: "up", "crashed" or "down"

objectVars == <<current, starts, state, process, mcSession, registered>>
childVars  == <<life, killed, asked, crashed>>
callVars   == <<callPc, target, result, stopLocks>>
processVars == <<objectVars, childVars, callVars, host>>

Slot == 1..MaxStarts

ServerState == {"none", "STARTING", "RUNNING", "STOPPING", "STOPPED", "CRASHED"}
WaitPc == {"waitStop", "waitForce", "waitKill", "waitJoin"}
StopPc == {"queuedStop", "queuedForce"} \cup WaitPc

ProcessInit ==
  /\ current = 0 /\ starts = 0 /\ registered = 0
  /\ state = [s \in Slot |-> "none"]
  /\ process = [s \in Slot |-> 0]
  /\ mcSession = [s \in Slot |-> 0]
  /\ life = [s \in Slot |-> "none"]
  /\ killed = [s \in Slot |-> FALSE]
  /\ asked = {} /\ crashed = {}
  /\ callPc = [c \in Caller |-> "idle"]
  /\ target = [c \in Caller |-> 0]
  /\ result = [c \in Caller |-> "none"]
  /\ stopLocks = <<>>
  /\ host = "up"

(***************************************************************************)
(* Helpers of the service.                                                 *)
(***************************************************************************)

\* stopWithTimeout's condition, read at each of its polls.
IsStopped(s) == process[s] = 0 \/ state[s] \in {"STOPPED", "CRASHED"}

\* recoverOrphanedProcess: what it leaves in the object's process and state.
RecoveredProcess(s) ==
  IF process[s] # 0 /\ killed[process[s]] THEN 0 ELSE process[s]

RecoveredState(s) ==
  IF \/ process[s] = 0 /\ state[s] \notin {"STOPPED", "CRASHED"}
     \/ process[s] # 0 /\ killed[process[s]]
  THEN "STOPPED" ELSE state[s]

\* The registry's entry after the object's console session is closed: the
\* session's 'exit' listener deletes whatever is registered under the id.
RegisteredAfterClose(s) == IF mcSession[s] = 0 THEN registered ELSE 0

\* child.kill('SIGKILL'): it reaches a live child and no other.
KilledBySignal(s) ==
  IF life[process[s]] = "live" THEN [killed EXCEPT ![process[s]] = TRUE] ELSE killed

CanAct(c, p) == host = "up" /\ callPc[c] = p

\* A promise of a call settles.
Return(c, outcome) ==
  /\ callPc' = [callPc EXCEPT ![c] = "idle"]
  /\ target' = [target EXCEPT ![c] = 0]
  /\ result' = [result EXCEPT ![c] = outcome]

(***************************************************************************)
(* start                                                                   *)
(***************************************************************************)

\* Mutant: a running server does not refuse a start.
BusyUnlessRunning(s) == RecoveredState(s) \in {"STARTING", "STOPPING"}

Busy(s) == RecoveredState(s) \in {"STARTING", "RUNNING", "STOPPING"}

\* The call is refused before it changes anything: its configuration is
\* incomplete, or the object in the map, once recovered, is in a busy state.
StartRefused(c, valid) ==
  /\ CanAct(c, "idle")
  /\ valid => current # 0 /\ Busy(current)
  /\ Return(c, "threw")
  /\ UNCHANGED <<objectVars, childVars, stopLocks, host>>

\* The new object replaces the one in the map.  It inherits the old process
\* reference; the old session is closed through the new object, so the old
\* one still refers to it.  A session id that is still taken makes it throw.
StartAccepted(c) ==
  LET new == starts + 1
      old == current
      oldProcess == IF old = 0 THEN 0 ELSE RecoveredProcess(old)
      stillRegistered == IF old = 0 THEN registered ELSE RegisteredAfterClose(old)
      created == stillRegistered = 0
  IN
  /\ CanAct(c, "idle")
  /\ starts < MaxStarts
  /\ old # 0 => ~Busy(old)
  /\ starts' = new
  /\ current' = new
  /\ state' = [s \in Slot |-> IF s = new THEN "STARTING"
                              ELSE IF s = old THEN RecoveredState(s) ELSE state[s]]
  /\ process' = [s \in Slot |-> IF s \in {old, new} THEN oldProcess ELSE process[s]]
  /\ mcSession' = [mcSession EXCEPT ![new] = IF created THEN new ELSE 0]
  /\ registered' = IF created THEN new ELSE stillRegistered
  /\ IF created
     THEN /\ callPc' = [callPc EXCEPT ![c] = "window"]
          /\ target' = [target EXCEPT ![c] = new]
          /\ result' = [result EXCEPT ![c] = "none"]
     ELSE Return(c, "threw")
  /\ UNCHANGED <<childVars, stopLocks, host>>

\* The awaits of start are over (probe injected, directory made, Java path
\* resolved) and spawn() throws.
SpawnThrows(c) ==
  LET s == target[c] IN
  /\ CanAct(c, "window")
  /\ state' = [state EXCEPT ![s] = "STOPPED"]
  /\ mcSession' = [mcSession EXCEPT ![s] = 0]
  /\ registered' = RegisteredAfterClose(s)
  /\ Return(c, "threw")
  /\ UNCHANGED <<current, starts, process, childVars, stopLocks, host>>

\* spawn() returns a child that runs: 'spawn' is delivered.
SpawnSucceeds(c) ==
  LET s == target[c] IN
  /\ CanAct(c, "window")
  /\ process' = [process EXCEPT ![s] = s]
  /\ life' = [life EXCEPT ![s] = "live"]
  /\ state' = [state EXCEPT ![s] = "RUNNING"]
  /\ Return(c, "ok")
  /\ UNCHANGED <<current, starts, mcSession, registered, killed, asked, crashed, stopLocks, host>>

\* Mutant: the error handler writes a phase that is no ServerState.
SpawnFailsAsPhase(c) ==
  LET s == target[c] IN
  /\ CanAct(c, "window")
  /\ process' = [process EXCEPT ![s] = s]
  /\ life' = [life EXCEPT ![s] = "failed"]
  /\ state' = [state EXCEPT ![s] = "FAILED"]
  /\ Return(c, "ok")
  /\ UNCHANGED <<current, starts, mcSession, registered, killed, asked, crashed, stopLocks, host>>

\* spawn() returns a child that never runs (no such program, no permission):
\* 'error' is delivered, 'exit' never will be, and start still succeeds.
SpawnFails(c) ==
  LET s == target[c] IN
  /\ CanAct(c, "window")
  /\ process' = [process EXCEPT ![s] = s]
  /\ life' = [life EXCEPT ![s] = "failed"]
  /\ state' = [state EXCEPT ![s] = "CRASHED"]
  /\ Return(c, "ok")
  /\ UNCHANGED <<current, starts, mcSession, registered, killed, asked, crashed, stopLocks, host>>

(***************************************************************************)
(* The child's 'exit' event.                                               *)
(***************************************************************************)

\* Mutant: the handler works on the object in the map, not on its own.
ChildExitOfCurrent(s) ==
  /\ host = "up"
  /\ life[s] = "live"
  /\ life' = [life EXCEPT ![s] = "gone"]
  /\ process' = [process EXCEPT ![current] = 0]
  /\ mcSession' = [mcSession EXCEPT ![current] = 0]
  /\ registered' = RegisteredAfterClose(current)
  /\ IF state[current] = "STOPPING"
     THEN /\ state' = [state EXCEPT ![current] = "STOPPED"]
          /\ UNCHANGED crashed
     ELSE /\ state' = [state EXCEPT ![current] = "CRASHED"]
          /\ crashed' = crashed \cup {s}
  /\ UNCHANGED <<current, starts, killed, asked, callVars, host>>

\* Mutant: only an exit that follows a stop updates the state.
ChildExitKeepsState(s) ==
  /\ host = "up"
  /\ life[s] = "live"
  /\ life' = [life EXCEPT ![s] = "gone"]
  /\ process' = [process EXCEPT ![s] = 0]
  /\ mcSession' = [mcSession EXCEPT ![s] = 0]
  /\ registered' = RegisteredAfterClose(s)
  /\ state' = [state EXCEPT ![s] = IF @ = "STOPPING" THEN "STOPPED" ELSE @]
  /\ UNCHANGED <<current, starts, killed, asked, crashed, callVars, host>>

\* The handler works on the object of the start that spawned the child.
ChildExit(s) ==
  /\ host = "up"
  /\ life[s] = "live"
  /\ life' = [life EXCEPT ![s] = "gone"]
  /\ process' = [process EXCEPT ![s] = 0]
  /\ mcSession' = [mcSession EXCEPT ![s] = 0]
  /\ registered' = RegisteredAfterClose(s)
  /\ IF state[s] = "STOPPING"
     THEN /\ state' = [state EXCEPT ![s] = "STOPPED"]
          /\ UNCHANGED crashed
     ELSE /\ state' = [state EXCEPT ![s] = "CRASHED"]
          /\ crashed' = crashed \cup {s}
  /\ UNCHANGED <<current, starts, killed, asked, callVars, host>>

(***************************************************************************)
(* stop                                                                    *)
(***************************************************************************)

\* stop: chain stopUnsafe on the promise stored for the server.  The stored
\* promise is never the one the finally callback compares with, so the chain
\* is never forgotten: stops run one after the other.
StopCall(c, force) ==
  /\ CanAct(c, "idle")
  /\ callPc' = [callPc EXCEPT ![c] = IF force THEN "queuedForce" ELSE "queuedStop"]
  /\ result' = [result EXCEPT ![c] = "none"]
  /\ stopLocks' = Append(stopLocks, c)
  /\ UNCHANGED <<objectVars, childVars, target, host>>

\* The head of the chain settles.  When it rejects, so does the copy of it
\* that stop() stored; unless another stop has chained on that copy nobody
\* handles it, and main.ts exits on an unhandled rejection.
StopSettles(c, outcome) ==
  /\ Return(c, outcome)
  /\ stopLocks' = Tail(stopLocks)
  /\ host' = IF outcome = "threw" /\ Len(stopLocks) = 1 THEN "crashed" ELSE host

\* The head of the chain rejects and its caller answers with a forced stop in
\* the same turn, which is in time to handle the stored copy.
StopAgain(c) ==
  /\ callPc' = [callPc EXCEPT ![c] = "queuedForce"]
  /\ target' = [target EXCEPT ![c] = 0]
  /\ stopLocks' = Append(Tail(stopLocks), c)
  /\ UNCHANGED <<result, host>>

AtHead(c) == stopLocks # <<>> /\ Head(stopLocks) = c

\* stopUnsafe with no object in the map.
StopNothing(c) ==
  /\ callPc[c] \in {"queuedStop", "queuedForce"} /\ host = "up" /\ AtHead(c)
  /\ current = 0
  /\ StopSettles(c, "ok")
  /\ UNCHANGED <<objectVars, childVars>>

\* stopUnsafe on an object without a process, be it stopped or in the middle
\* of its start: the object becomes STOPPED and its session is closed.
StopWithoutProcess(c) ==
  /\ callPc[c] \in {"queuedStop", "queuedForce"} /\ host = "up" /\ AtHead(c)
  /\ current # 0
  /\ process[current] = 0
  /\ state' = [state EXCEPT ![current] = IF @ = "CRASHED" THEN @ ELSE "STOPPED"]
  /\ mcSession' = [mcSession EXCEPT ![current] = 0]
  /\ registered' = RegisteredAfterClose(current)
  /\ StopSettles(c, "ok")
  /\ UNCHANGED <<current, starts, process, childVars>>

\* stopUnsafe on an object that is already STOPPING: only wait.
StopJoins(c) ==
  /\ callPc[c] \in {"queuedStop", "queuedForce"} /\ host = "up" /\ AtHead(c)
  /\ current # 0
  /\ process[current] # 0 /\ state[current] = "STOPPING"
  /\ callPc' = [callPc EXCEPT ![c] = "waitJoin"]
  /\ target' = [target EXCEPT ![c] = current]
  /\ UNCHANGED <<objectVars, childVars, result, stopLocks, host>>

\* Mutant: the state is left for the exit handler to change.
StopBeginsUnannounced(c, writable) ==
  /\ callPc[c] \in {"queuedStop", "queuedForce"} /\ host = "up" /\ AtHead(c)
  /\ current # 0
  /\ process[current] # 0 /\ state[current] # "STOPPING"
  /\ writable => life[process[current]] = "live"
  /\ killed' = IF callPc[c] = "queuedForce" \/ ~writable THEN KilledBySignal(current) ELSE killed
  /\ asked' = asked \cup {process[current]}
  /\ callPc' = [callPc EXCEPT ![c] = IF @ = "queuedForce" THEN "waitForce" ELSE "waitStop"]
  /\ target' = [target EXCEPT ![c] = current]
  /\ UNCHANGED <<objectVars, life, crashed, result, stopLocks, host>>

\* stopUnsafe proper: SIGKILL when forced or when stdin cannot be written,
\* else the console command 'stop'; then wait for the exit.
StopBegins(c, writable) ==
  /\ callPc[c] \in {"queuedStop", "queuedForce"} /\ host = "up" /\ AtHead(c)
  /\ current # 0
  /\ process[current] # 0 /\ state[current] # "STOPPING"
  /\ writable => life[process[current]] = "live"
  /\ state' = [state EXCEPT ![current] = "STOPPING"]
  /\ killed' = IF callPc[c] = "queuedForce" \/ ~writable THEN KilledBySignal(current) ELSE killed
  /\ asked' = asked \cup {process[current]}
  /\ callPc' = [callPc EXCEPT ![c] = IF @ = "queuedForce" THEN "waitForce" ELSE "waitStop"]
  /\ target' = [target EXCEPT ![c] = current]
  /\ UNCHANGED <<current, starts, process, mcSession, registered, life, crashed, result, stopLocks, host>>

\* A poll of stopWithTimeout finds the object stopped.
WaitEnds(c) ==
  /\ callPc[c] \in WaitPc /\ host = "up"
  /\ IsStopped(target[c])
  /\ StopSettles(c, "ok")
  /\ UNCHANGED <<objectVars, childVars>>

\* The wait times out on a child that was sent SIGKILL and has not exited
\* yet: awaitProcessStop counts it as stopped and the object stays STOPPING.
WaitTrustsKill(c) ==
  /\ callPc[c] \in WaitPc /\ host = "up"
  /\ ~IsStopped(target[c]) /\ killed[process[target[c]]]
  /\ PromptKill => life[process[target[c]]] # "live"
  /\ StopSettles(c, "ok")
  /\ UNCHANGED <<objectVars, childVars>>

\* Mutant: the second wait is the first one again.
WaitEscalatesForEver(c) ==
  /\ CanAct(c, "waitStop")
  /\ ~IsStopped(target[c]) /\ ~killed[process[target[c]]]
  /\ killed' = KilledBySignal(target[c])
  /\ UNCHANGED <<objectVars, life, asked, crashed, callVars, host>>

\* The wait after the console command times out: SIGKILL, and wait again.
WaitEscalates(c) ==
  /\ CanAct(c, "waitStop")
  /\ ~IsStopped(target[c]) /\ ~killed[process[target[c]]]
  /\ killed' = KilledBySignal(target[c])
  /\ callPc' = [callPc EXCEPT ![c] = "waitKill"]
  /\ UNCHANGED <<objectVars, life, asked, crashed, target, result, stopLocks, host>>

\* The last wait times out on a child that was not killed: the call rejects.
\* Only the stop that began the workflow declares the object STOPPED, and
\* leaves it referring to the child; a stop that joined changes nothing.
WaitGivesUp(c, again) ==
  LET s == target[c] IN
  /\ callPc[c] \in {"waitForce", "waitKill", "waitJoin"} /\ host = "up"
  /\ ~IsStopped(s) /\ ~killed[process[s]]
  /\ IF callPc[c] = "waitJoin"
     THEN UNCHANGED <<state, mcSession, registered>>
     ELSE /\ state' = [state EXCEPT ![s] = "STOPPED"]
          /\ mcSession' = [mcSession EXCEPT ![s] = 0]
          /\ registered' = RegisteredAfterClose(s)
  /\ IF again THEN StopAgain(c) ELSE StopSettles(c, "threw")
  /\ UNCHANGED <<current, starts, process, childVars>>

(***************************************************************************)
(* onModuleDestroy, at shutdown: a forced stop is issued for an object with *)
(* a process and not awaited, any other object's session is closed, and    *)
(* SessionRegistry's own onModuleDestroy drops what is left.               *)
(***************************************************************************)

\* Mutant: sessions are closed and no child is stopped.
ShutdownOfSessions ==
  /\ host = "up"
  /\ stopLocks # <<>> => callPc[Head(stopLocks)] \in WaitPc
  /\ host' = "down"
  /\ registered' = 0
  /\ mcSession' = [s \in Slot |-> IF s = current THEN 0 ELSE mcSession[s]]
  /\ UNCHANGED <<current, starts, state, process, childVars, callVars>>

\* A stop that is already waiting keeps the forced one out.
Shutdown ==
  /\ host = "up"
  /\ stopLocks # <<>> => callPc[Head(stopLocks)] \in WaitPc
  /\ host' = "down"
  /\ registered' = 0
  /\ IF current # 0 /\ process[current] # 0 /\ state[current] # "STOPPING" /\ stopLocks = <<>>
     THEN /\ state' = [state EXCEPT ![current] = "STOPPING"]
          /\ killed' = KilledBySignal(current)
          /\ asked' = asked \cup {process[current]}
     ELSE UNCHANGED <<state, killed, asked>>
  /\ mcSession' = [s \in Slot |-> IF s = current /\ process[s] = 0 THEN 0 ELSE mcSession[s]]
  /\ UNCHANGED <<current, starts, process, life, crashed, callVars>>

CallStep(c) ==
  \/ \E valid \in BOOLEAN : StartRefused(c, valid)
  \/ StartAccepted(c)
  \/ SpawnThrows(c)
  \/ SpawnSucceeds(c)
  \/ SpawnFails(c)
  \/ \E force \in BOOLEAN : StopCall(c, force)
  \/ StopNothing(c)
  \/ StopWithoutProcess(c)
  \/ StopJoins(c)
  \/ \E writable \in BOOLEAN : StopBegins(c, writable)
  \/ WaitEnds(c)
  \/ WaitTrustsKill(c)
  \/ WaitEscalates(c)
  \/ \E again \in BOOLEAN : WaitGivesUp(c, again)

ProcessNext ==
  \/ \E c \in Caller : CallStep(c)
  \/ \E s \in Slot : ChildExit(s)
  \/ Shutdown

ProcessSpec == ProcessInit /\ [][ProcessNext]_processVars

\* Timers fire and promises settle, and no caller stops again for ever.  A
\* child that is asked to stop need not exit by itself; one that is killed does.
ProcessFairness ==
  /\ \A c \in Caller :
       /\ WF_processVars(SpawnThrows(c) \/ SpawnSucceeds(c) \/ SpawnFails(c))
       /\ WF_processVars(StopNothing(c) \/ StopWithoutProcess(c) \/ StopJoins(c)
                           \/ \E writable \in BOOLEAN : StopBegins(c, writable))
       /\ WF_processVars(WaitEnds(c) \/ WaitTrustsKill(c) \/ WaitEscalates(c) \/ WaitGivesUp(c, FALSE))
       /\ SF_processVars(WaitGivesUp(c, FALSE))
  /\ \A s \in Slot : WF_processVars(killed[s] /\ ChildExit(s))

FairProcessSpec == ProcessSpec /\ ProcessFairness

(***************************************************************************)
(* Properties of every use of the service, overlapping calls included.     *)
(***************************************************************************)

\* The type invariant of the managed objects, the children and the calls.
ProcessTypeOK ==
  /\ current \in 0..MaxStarts /\ starts \in 0..MaxStarts /\ registered \in 0..MaxStarts
  /\ state \in [Slot -> ServerState]
  /\ process \in [Slot -> 0..MaxStarts]
  /\ mcSession \in [Slot -> 0..MaxStarts]
  /\ life \in [Slot -> {"none", "live", "failed", "gone"}]
  /\ killed \in [Slot -> BOOLEAN]
  /\ asked \in SUBSET Slot /\ crashed \in SUBSET Slot
  /\ callPc \in [Caller -> {"idle", "window"} \cup StopPc]
  /\ target \in [Caller -> 0..MaxStarts]
  /\ result \in [Caller -> {"none", "ok", "threw"}]
  /\ stopLocks \in Seq(Caller)
  /\ host \in {"up", "crashed", "down"}

\* RUNNING is never reported for an object whose child has exited, never
\* started, or been let go: the state the exit handler, the recovery of
\* orphans and the stop workflow each write never lags behind the child.
RunningHasLiveChild ==
  \A s \in Slot : state[s] = "RUNNING" => process[s] = s /\ life[s] = "live"

\* An object lets go of its live child only after a SIGKILL was delivered to
\* it: whatever starts, stops and late exits interleave, recovering an orphan
\* never abandons a child that nobody has killed.
LetGoOnlyWhenKilled ==
  \A s \in Slot : life[s] = "live" => process[s] = s \/ killed[s]

\* Every stop ends: no interleaving of stops, starts and exits leaves a
\* caller waiting, although the chain of stop calls is never cleared.
EveryStopEnds ==
  \A c \in Caller : (callPc[c] \in StopPc) ~> (callPc[c] = "idle" \/ host # "up")

(***************************************************************************)
(* Properties of a single caller, which is what the lifecycle engine's     *)
(* lock is meant to make of its operations.                                *)
(***************************************************************************)

\* At most one child of the server is live.
OneLiveChild ==
  \A s, t \in Slot : life[s] = "live" /\ life[t] = "live" => s = t

\* 'server.crashed', which starts the automatic restart, is never emitted for
\* a child the service was asked to stop.
CrashMeansUnasked == crashed \cap asked = {}

\* A running server can be reached through its console: the session that is
\* registered under its id is the one wired to its object.
ConsoleReachesServer ==
  \A s \in Slot : state[s] = "RUNNING" => current = s /\ registered = s /\ mcSession[s] = s

\* At shutdown no live child is left behind that nobody asked to stop.
ShutdownStopsChildren ==
  host = "down" => \A s \in Slot : life[s] = "live" => s \in asked

(***************************************************************************)
(* What the code says and does not do.                                     *)
(***************************************************************************)

\* A stop that fails is an error of that stop, which its caller handles.
HostSurvivesFailedStop == host # "crashed"
=============================================================================
