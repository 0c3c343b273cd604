----------------------------- MODULE Supervision ----------------------------
(* What acts on one server by itself: CrashRestartService (backoff, limit  *)
(* and cooldown), ScheduledStopService, the wiring of both by              *)
(* ProcessOrchestratorService, and the process HealthMonitorService polls. *)
(*                                                                         *)
(* The lifecycle engine is reduced to what LifecycleEngine establishes of  *)
(* it: requests run one at a time in the order they were made, a start of  *)
(* a RUNNING server is ignored, and a failed start leaves no child.        *)
(*                                                                         *)
(* Time is counted in ticks; a timer that is due fires before time goes on.*)
(* Idempotency keys other than the crash restart's do not collide.         *)
EXTENDS Naturals, Sequences

CONSTANTS
  MaxRuns,      \* bound: children spawned
  MaxRequests,  \* bound: starts, stops and schedules asked for by users
  Attempts,     \* policy.startRetryAttempts
  MaxRestarts,  \* config.maxRestarts
  BackoffMax,   \* BACKOFF_MAX in ticks, BACKOFF_BASE being one tick
  Cooldown,     \* COOLDOWN_MS in ticks
  Stable,       \* ticks of running after which the restart counter is reset
  Lead,         \* ticks between a scheduled stop's warning and the stop
  MaxDelay      \* bound: ticks until a scheduled stop

ASSUME PeriodsAreNat == /\ {MaxRuns, MaxRequests, MaxRestarts, MaxDelay} \subseteq Nat
                        /\ {Attempts, BackoffMax, Cooldown, Stable, Lead} \subseteq Nat \ {0}

VARIABLES
  phase,        \* the engine's phase
  queue,        \* requests to the engine, the one it works on first
  step,         \* what the engine is doing for it
  attempt,      \* process starts made for it
  run,          \* children spawned so far: the number of the latest, its pid
  child,        \* the latest child: "live", "dead" until its exit is delivered, "none"
  asked         \* managed.state is STOPPING

VARIABLES
  count,        \* restartStates: the restart counter
  sinceSuccess, \* ticks since lastSuccessfulRestart, at most Cooldown
  restarts,     \* armed restart timers
  stables,      \* armed timers that reset the counter
  monitored,    \* the child HealthMonitorService polls, 0 for none
  scheduled,    \* the schedule in ScheduledStopService's map, 0 for none
  timers,       \* armed timers of scheduled stops
  configured,   \* the server's configuration exists
  requests      \* user requests made

engineVars   == <<phase, queue, step, attempt, run, child, asked>>
restartVars  == <<count, sinceSuccess, restarts, stables>>
scheduleVars == <<scheduled, timers>>
supVars == <<engineVars, restartVars, monitored, scheduleVars, configured, requests>>

Request == [what : {"start", "stop"}, by : {"user", "crash", "schedule", "restart"}]

SupInit ==
  /\ phase = "none" /\ queue = <<>> /\ step = "waiting" /\ attempt = 0
  /\ run = 0 /\ child = "none" /\ asked = FALSE
  /\ count = 0 /\ sinceSuccess = Cooldown
  /\ restarts = {} /\ stables = {}
  /\ monitored = 0
  /\ scheduled = 0 /\ timers = {}
  /\ configured = TRUE /\ requests = 0

(***************************************************************************)
(* The engine and its process.                                             *)
(***************************************************************************)
Enqueue(what, by) == queue' = Append(queue, [what |-> what, by |-> by])

HeadIs(what, s) == queue # <<>> /\ Head(queue).what = what /\ step = s

AfterStop == Append(Tail(queue), [what |-> "start", by |-> "restart"])

\* Mutant: a scheduled restart whose stop failed goes no further.
SettleRestartsIfStopped(ok) ==
  /\ queue' = IF Head(queue) = [what |-> "stop", by |-> "restart"] /\ configured /\ child # "none"
              THEN AfterStop ELSE Tail(queue)
  /\ step' = "waiting"
  /\ attempt' = 0
  /\ sinceSuccess' = IF Head(queue).by = "crash" /\ ok THEN 0 ELSE sinceSuccess

\* The request the engine works on settles, and the service that made it goes
\* on: a restart after a crash records its success, and a scheduled restart,
\* whatever became of its stop, asks for its start.  Both read the database
\* without giving up the turn.
Settle(ok) ==
  /\ queue' = IF Head(queue) = [what |-> "stop", by |-> "restart"] /\ configured
              THEN AfterStop ELSE Tail(queue)
  /\ step' = "waiting"
  /\ attempt' = 0
  /\ sinceSuccess' = IF Head(queue).by = "crash" /\ ok THEN 0 ELSE sinceSuccess

KeepSupervisors == UNCHANGED <<count, restarts, stables, monitored,
                               scheduled, timers, configured, requests>>

StartIgnored ==
  /\ HeadIs("start", "waiting")
  /\ phase = "RUNNING"
  /\ Settle(TRUE)
  /\ KeepSupervisors
  /\ UNCHANGED <<phase, run, child, asked>>

StartRefused ==
  /\ HeadIs("start", "waiting")
  /\ phase # "RUNNING"
  /\ phase' = "FAILED"
  /\ Settle(FALSE)
  /\ KeepSupervisors
  /\ UNCHANGED <<run, child, asked>>

\* A child is spawned.  RUNNING is announced: the monitor polls the new child
\* and a timer is armed that will reset the restart counter.
Spawn ==
  /\ HeadIs("start", "waiting") \/ HeadIs("start", "cleaning")
  /\ step = "waiting" => phase # "RUNNING"
  /\ step = "cleaning" => child = "none" /\ attempt < Attempts
  /\ run < MaxRuns
  /\ phase' = "STARTING"
  /\ step' = "starting"
  /\ attempt' = attempt + 1
  /\ run' = run + 1
  /\ child' = "live"
  /\ asked' = FALSE
  /\ monitored' = run + 1
  /\ stables' = stables \cup {[run |-> run + 1, left |-> Stable]}
  /\ UNCHANGED <<queue, count, sinceSuccess, restarts, scheduleVars,
                 configured, requests>>

\* The ready line was seen; the child may have exited since.
StartReady ==
  /\ HeadIs("start", "starting")
  /\ phase' = "RUNNING"
  /\ Settle(TRUE)
  /\ KeepSupervisors
  /\ UNCHANGED <<run, child, asked>>

\* The ready timeout: a forced stop of what is left of the attempt.
StartNotReady ==
  /\ HeadIs("start", "starting")
  /\ step' = "cleaning"
  /\ asked' = (child # "none")
  /\ KeepSupervisors
  /\ UNCHANGED <<phase, queue, attempt, run, child, sinceSuccess>>

StartGivesUp ==
  /\ HeadIs("start", "cleaning")
  /\ child = "none" /\ attempt >= Attempts
  /\ phase' = "FAILED"
  /\ Settle(FALSE)
  /\ KeepSupervisors
  /\ UNCHANGED <<run, child, asked>>

StopIgnored ==
  /\ HeadIs("stop", "waiting")
  /\ phase \in {"none", "STOPPED"}
  /\ Settle(TRUE)
  /\ KeepSupervisors
  /\ UNCHANGED <<phase, run, child, asked>>

StopBegins ==
  /\ HeadIs("stop", "waiting")
  /\ phase \notin {"none", "STOPPED"}
  /\ phase' = "STOPPING"
  /\ step' = "stopping"
  /\ asked' = (child # "none")
  /\ KeepSupervisors
  /\ UNCHANGED <<queue, attempt, run, child, sinceSuccess>>

StopEnds ==
  /\ HeadIs("stop", "stopping")
  /\ child = "none"
  /\ phase' = "STOPPED"
  /\ Settle(TRUE)
  /\ KeepSupervisors
  /\ UNCHANGED <<run, child, asked>>

ChildDies ==
  /\ child = "live"
  /\ child' = "dead"
  /\ UNCHANGED <<phase, queue, step, attempt, run, asked, restartVars, monitored,
                 scheduleVars, configured, requests>>

(***************************************************************************)
(* CrashRestartService                                                     *)
(***************************************************************************)
\* Math.pow(2, n)
Doubled[n \in Nat] == IF n = 0 THEN 1 ELSE 2 * Doubled[n - 1]

\* Mutant: the delay doubles without limit.
BackoffUncapped(n) == Doubled[n - 1]

Backoff(n) == IF Doubled[n - 1] < BackoffMax THEN Doubled[n - 1] ELSE BackoffMax

\* handleCrash, with autoRestart on.
CrashHandled(exitCode) ==
  IF exitCode = "zero"
  THEN count' = 0 /\ UNCHANGED restarts
  ELSE IF sinceSuccess < Cooldown
  THEN UNCHANGED <<count, restarts>>
  ELSE /\ count' = count + 1
       /\ restarts' = IF count < MaxRestarts
                      THEN restarts \cup {[run |-> run, left |-> Backoff(count + 1)]}
                      ELSE restarts

\* onServerCrashed: there is no configuration any more or its autoRestart is
\* off, or the crash is handled.
CrashDelivered ==
  \/ UNCHANGED <<count, restarts>>
  \/ configured /\ \E exitCode \in {"zero", "other"} : CrashHandled(exitCode)

\* Mutant: the monitor goes on polling a process that was being stopped.
ExitKeepsMonitor ==
  /\ child = "dead"
  /\ child' = "none"
  /\ asked' = FALSE
  /\ monitored' = IF asked THEN monitored ELSE 0
  /\ IF asked THEN UNCHANGED <<count, restarts>> ELSE CrashDelivered
  /\ UNCHANGED <<phase, queue, step, attempt, run, sinceSuccess, stables,
                 scheduleVars, configured, requests>>

\* The exit is delivered: STOPPED or CRASHED is announced, which stops the
\* monitoring, and 'server.crashed' unless the process was being stopped.
ExitDelivered ==
  /\ child = "dead"
  /\ child' = "none"
  /\ asked' = FALSE
  /\ monitored' = 0
  /\ IF asked THEN UNCHANGED <<count, restarts>> ELSE CrashDelivered
  /\ UNCHANGED <<phase, queue, step, attempt, run, sinceSuccess, stables,
                 scheduleVars, configured, requests>>

RestartQueued == \E i \in DOMAIN queue : queue[i].by = "crash"

\* Mutant: every timer makes a request of its own.
RestartDueUnshared(t) ==
  /\ t \in restarts /\ t.left = 0
  /\ restarts' = restarts \ {t}
  /\ IF configured THEN Enqueue("start", "crash") ELSE UNCHANGED queue
  /\ sinceSuccess' = IF configured THEN sinceSuccess ELSE 0
  /\ UNCHANGED <<phase, step, attempt, run, child, asked, count, stables,
                 monitored, scheduleVars, configured, requests>>

\* The timer fires: the start callback starts the server, or shares the start
\* an earlier timer made.  Without a configuration it only returns, which
\* counts as a success.  The read of the configuration is part of the step.
RestartDue(t) ==
  /\ t \in restarts /\ t.left = 0
  /\ restarts' = restarts \ {t}
  /\ IF configured /\ ~RestartQueued THEN Enqueue("start", "crash") ELSE UNCHANGED queue
  /\ sinceSuccess' = IF configured THEN sinceSuccess ELSE 0
  /\ UNCHANGED <<phase, step, attempt, run, child, asked, count, stables,
                 monitored, scheduleVars, configured, requests>>

\* The reset timer fires: it asks for the state of the server, not of the run
\* that armed it.
StableDue(t) ==
  /\ t \in stables /\ t.left = 0
  /\ stables' = stables \ {t}
  /\ count' = IF child # "none" /\ ~asked THEN 0 ELSE count
  /\ UNCHANGED <<engineVars, sinceSuccess, restarts, monitored, scheduleVars,
                 configured, requests>>

(***************************************************************************)
(* HealthMonitorService                                                    *)
(***************************************************************************)

\* check finds the polled process dead and stops polling it.
HealthCheck ==
  /\ monitored # 0 /\ ~(monitored = run /\ child = "live")
  /\ monitored' = 0
  /\ UNCHANGED <<engineVars, restartVars, scheduleVars, configured, requests>>

(***************************************************************************)
(* ScheduledStopService and its events                                     *)
(***************************************************************************)

\* executeStop and the handler of the event it emits.
ExecuteStop(reason) == Enqueue("stop", reason)

\* Mutant: only the warning of the schedule is disarmed.
TimersButWarning(id) == {t \in timers : t.id # id \/ t.does # "warn"}

TimersAfterCancel(id) == {t \in timers : t.id # id}

\* schedule, with the cancel it begins with: the new timers, or the stop at
\* once when its time has passed.
Schedule(delay, reason) ==
  LET id == requests + 1
      kept == TimersAfterCancel(scheduled)
      warning == IF delay > Lead
                 THEN {[id |-> id, does |-> "warn", left |-> delay - Lead]} ELSE {}
  IN
  /\ requests < MaxRequests
  /\ requests' = id
  /\ reason = "restart" => configured
  /\ IF delay = 0
     THEN /\ scheduled' = 0
          /\ timers' = kept
          /\ ExecuteStop(reason)
     ELSE /\ scheduled' = id
          /\ timers' = kept \cup warning \cup {[id |-> id, does |-> reason, left |-> delay]}
          /\ UNCHANGED queue
  /\ UNCHANGED <<phase, step, attempt, run, child, asked, restartVars, monitored,
                 configured>>

Cancel ==
  /\ scheduled # 0
  /\ scheduled' = 0
  /\ timers' = TimersAfterCancel(scheduled)
  /\ UNCHANGED <<engineVars, restartVars, monitored, configured, requests>>

WarningDue(t) ==
  /\ t \in timers /\ t.left = 0 /\ t.does = "warn"
  /\ timers' = timers \ {t}
  /\ UNCHANGED <<engineVars, restartVars, monitored, scheduled, configured, requests>>

StopDue(t) ==
  /\ t \in timers /\ t.left = 0 /\ t.does # "warn"
  /\ timers' = timers \ {t}
  /\ scheduled' = 0
  /\ ExecuteStop(t.does)
  /\ UNCHANGED <<phase, step, attempt, run, child, asked, restartVars, monitored,
                 configured, requests>>

(***************************************************************************)
(* Users and time                                                          *)
(***************************************************************************)
UserRequest(what) ==
  /\ requests < MaxRequests
  /\ what = "start" => configured
  /\ requests' = requests + 1
  /\ Enqueue(what, "user")
  /\ UNCHANGED <<phase, step, attempt, run, child, asked, restartVars, monitored,
                 scheduleVars, configured>>

\* The server is deleted, which is refused while it has a process; its timers
\* stay.
DeleteServer ==
  /\ configured /\ child = "none"
  /\ configured' = FALSE
  /\ UNCHANGED <<engineVars, restartVars, monitored, scheduleVars, requests>>

Elapse(ts) == {[t EXCEPT !.left = @ - 1] : t \in ts}

Tick ==
  /\ \A t \in restarts \cup stables \cup timers : t.left > 0
  /\ restarts' = Elapse(restarts)
  /\ stables' = Elapse(stables)
  /\ timers' = Elapse(timers)
  /\ sinceSuccess' = IF sinceSuccess < Cooldown THEN sinceSuccess + 1 ELSE Cooldown
  /\ UNCHANGED <<engineVars, count, monitored, scheduled,
                 configured, requests>>

EngineStep ==
  \/ StartIgnored \/ StartRefused \/ Spawn \/ StartReady \/ StartNotReady \/ StartGivesUp
  \/ StopIgnored \/ StopBegins \/ StopEnds

SupNext ==
  \/ EngineStep
  \/ ChildDies \/ ExitDelivered
  \/ \E t \in restarts : RestartDue(t)
  \/ \E t \in stables : StableDue(t)
  \/ HealthCheck
  \/ \E delay \in 0..MaxDelay, reason \in {"schedule", "restart"} : Schedule(delay, reason)
  \/ Cancel
  \/ \E t \in timers : WarningDue(t) \/ StopDue(t)
  \/ \E what \in {"start", "stop"} : UserRequest(what)
  \/ DeleteServer
  \/ Tick

SupSpec == SupInit /\ [][SupNext]_supVars

\* The engine's operations end (EveryOperationEnds of LifecycleEngine), a
\* process that was asked to stop exits or is killed, and promises settle.
SupFairness ==
  /\ WF_supVars(EngineStep)
  /\ WF_supVars(asked /\ ChildDies)
  /\ WF_supVars(ExitDelivered)

FairSupSpec == SupSpec /\ SupFairness

(***************************************************************************)
(* Properties                                                              *)
(***************************************************************************)
Timer(does) == [id : 1..MaxRequests, does : does, left : 0..MaxDelay]

\* The type invariant.
SupTypeOK ==
  /\ phase \in {"none", "STARTING", "RUNNING", "STOPPING", "STOPPED", "FAILED"}
  /\ queue \in Seq(Request)
  /\ step \in {"waiting", "starting", "cleaning", "stopping"}
  /\ attempt \in 0..Attempts
  /\ run \in 0..MaxRuns
  /\ child \in {"live", "dead", "none"} /\ asked \in BOOLEAN
  /\ count \in 0..MaxRuns /\ sinceSuccess \in 0..Cooldown
  /\ restarts \subseteq [run : 1..MaxRuns, left : 0..BackoffMax]
  /\ stables \subseteq [run : 1..MaxRuns, left : 0..Stable]
  /\ monitored \in 0..MaxRuns
  /\ scheduled \in 0..MaxRequests
  /\ timers \subseteq Timer({"warn", "schedule", "restart"})
  /\ configured \in BOOLEAN /\ requests \in 0..MaxRequests

\* A cancelled or replaced schedule never stops the server and never warns of
\* it: the timers armed are those of the schedule in the map, one stop among
\* them, and its warning comes first.
ScheduleIsArmed ==
  /\ scheduled = 0 => timers = {}
  /\ scheduled # 0 =>
       \E t \in timers :
         /\ t.id = scheduled /\ t.does # "warn"
         /\ \A u \in timers \ {t} : u.id = scheduled /\ u.does = "warn" /\ u.left < t.left

\* The health monitor polls the server's process for as long as it lives, and
\* never one whose exit was delivered.
MonitorFollowsProcess ==
  /\ child = "live" => monitored = run
  /\ monitored # 0 => monitored = run /\ child # "none"

\* Crashes whose timers fire while a restart is under way share that restart.
RestartsShareOneStart ==
  \A i, j \in DOMAIN queue : queue[i].by = "crash" /\ queue[j].by = "crash" => i = j

StartOfRestart == \E i \in DOMAIN queue : queue[i] = [what |-> "start", by |-> "restart"]
StopOfRestart  == \E i \in DOMAIN queue : queue[i] = [what |-> "stop", by |-> "restart"]

\* The engine would retry a start that the bound MaxRuns does not allow.
AtBound == run = MaxRuns /\ step = "cleaning"

\* The stop of a scheduled restart is followed by a start, whether or not
\* there was anything to stop, unless the server has been deleted.
ScheduledRestartStarts == StopOfRestart ~> (StartOfRestart \/ ~configured \/ AtBound)

\* An automatic restart is skipped, which counts as a success, only if the
\* server is up: "Crash -> CrashRestartService (auto-restart with backoff)".
RestartRevivesServer ==
  [][StartIgnored /\ Head(queue).by = "crash" => child = "live"]_supVars
=============================================================================
