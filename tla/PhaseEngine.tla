----------------------------- MODULE PhaseEngine ----------------------------
(* PhaseEngineService: sessions that go through phases, each of which      *)
(* creates a batch of bots, with the session's row and its validation run. *)
(* It shares the fleet with the users of the bot controller.               *)
(*                                                                         *)
(* The database is read and written without giving up the turn, so a timer *)
(* or a request is one step up to the batch it creates.  A start makes a   *)
(* RunningSession; starts are numbered.  The server a batch is for may be  *)
(* RUNNING or not at any time.                                             *)
EXTENDS Fleet, Sequences

CONSTANTS
  Session,
  FromRun,   \* those started from a validation run, which have no row
  Phases,    \* Phases[s]: the bot counts of the session's phases
  MaxStarts  \* bound: starts of sessions

ASSUME PhasesAreCounts == /\ Phases \in [Session -> Seq(0..MaxBots)]
                          /\ FromRun \subseteq Session
                          /\ Session \cap Nat = {} /\ Session # {}
                          /\ MaxStarts \in Nat

VARIABLES
  starts,      \* starts so far
  sessionOf,   \* the session each start is of
  phase,       \* the phase whose timer is armed for a start, 0 for none
  running,     \* runningSessions: the session's latest start, 0 for none
  row,         \* the state in the session's row
  validation,  \* the state of each validation run: a start's, or one to start from
  backend      \* "up", or "down" after an unhandled rejection

sessionVars == <<starts, sessionOf, phase, running, row, validation>>
vars == <<fleetVars, sessionVars, backend>>

Start == 1..MaxStarts
Run == Start \cup FromRun

Init ==
  /\ FleetInit
  /\ starts = 0
  /\ sessionOf = [i \in Start |-> CHOOSE s \in Session : TRUE]
  /\ phase = [i \in Start |-> 0]
  /\ running = [s \in Session |-> 0]
  /\ row = [s \in Session |-> "CREATED"]
  /\ validation = [v \in Run |-> "pending"]
  /\ backend = "up"

(***************************************************************************)
(* Helpers.                                                                *)
(***************************************************************************)

\* updateState finds no row under the id startFromRun makes up.
SetRow(s, state) == row' = IF s \in FromRun THEN row ELSE [row EXCEPT ![s] = state]

\* A start makes a validation run of its own, unless it is one's start.
ValidationOf(i, s) == IF s \in FromRun THEN s ELSE i

\* executePhase for a phase there is, but for its timer: the batch is created
\* in the background, so a server that is not RUNNING rejects a promise nobody
\* handles, and the process exits.
ExecutePhase(s, p) ==
  \/ CreateBatch(Phases[s][p]) /\ UNCHANGED backend
  \/ backend' = "down" /\ UNCHANGED fleetVars

\* Mutant: the timer of the session's phase is left armed.
EndSessionArmed(s, timers, state, outcome) ==
  IF running[s] = 0
  THEN UNCHANGED <<fleetVars, running, row, validation>> /\ phase' = timers
  ELSE /\ phase' = timers
       /\ StopAll
       /\ running' = [running EXCEPT ![s] = 0]
       /\ SetRow(s, state)
       /\ validation' = [validation EXCEPT ![ValidationOf(running[s], s)] = outcome]

\* stop and fail, given the phase timers: they end the session's latest start,
\* if it has one, and stop every bot there is.
EndSession(s, timers, state, outcome) ==
  IF running[s] = 0
  THEN UNCHANGED <<fleetVars, running, row, validation>> /\ phase' = timers
  ELSE /\ phase' = [timers EXCEPT ![running[s]] = 0]
       /\ StopAll
       /\ running' = [running EXCEPT ![s] = 0]
       /\ SetRow(s, state)
       /\ validation' = [validation EXCEPT ![ValidationOf(running[s], s)] = outcome]

(***************************************************************************)
(* Operations and timers.                                                  *)
(***************************************************************************)

\* start and startFromRun up to executePhase: nothing looks at what the
\* session is doing, and a start under way is overwritten.
StartSession(s) ==
  LET i == starts + 1
      v == ValidationOf(i, s)
      started == [validation EXCEPT ![v] = IF @ = "pending" THEN "running" ELSE @]
  IN
  /\ starts < MaxStarts
  /\ starts' = i
  /\ sessionOf' = [sessionOf EXCEPT ![i] = s]
  /\ IF Phases[s] # <<>>
     THEN /\ ExecutePhase(s, 1)
          /\ phase' = [phase EXCEPT ![i] = 1]
          /\ running' = [running EXCEPT ![s] = i]
          /\ SetRow(s, "RUNNING")
          /\ validation' = started
     ELSE /\ StopAll
          /\ running' = [running EXCEPT ![s] = 0]
          /\ SetRow(s, "FINISHED")
          /\ validation' = [started EXCEPT ![v] = "completed"]
          /\ UNCHANGED <<phase, backend>>

\* Mutant: the timer is set again whatever the phase's number.
PhaseOverRearms(i) ==
  LET s == sessionOf[i] IN
  /\ phase[i] # 0
  /\ IF phase[i] < Len(Phases[s])
     THEN ExecutePhase(s, phase[i] + 1) /\ SetRow(s, "RUNNING") /\ UNCHANGED <<running, validation>>
     ELSE UNCHANGED <<fleetVars, backend, running, row, validation>>
  /\ phase' = [phase EXCEPT ![i] = @ + 1]
  /\ UNCHANGED <<starts, sessionOf>>

\* A phase is over: the next one begins, or the session is stopped.
PhaseOver(i) ==
  LET s == sessionOf[i] IN
  /\ phase[i] # 0
  /\ IF phase[i] < Len(Phases[s])
     THEN /\ ExecutePhase(s, phase[i] + 1)
          /\ phase' = [phase EXCEPT ![i] = @ + 1]
          /\ SetRow(s, "RUNNING")
          /\ UNCHANGED <<running, validation>>
     ELSE /\ EndSession(s, [phase EXCEPT ![i] = 0], "FINISHED", "completed")
          /\ UNCHANGED backend
  /\ UNCHANGED <<starts, sessionOf>>

StopSession(s) ==
  /\ EndSession(s, phase, "FINISHED", "completed")
  /\ UNCHANGED <<starts, sessionOf, backend>>

FailSession(s) ==
  /\ EndSession(s, phase, "FAILED", "failed")
  /\ UNCHANGED <<starts, sessionOf, backend>>

\* cancel of a validation run: its session goes on.
CancelRun(v) ==
  /\ v \in FromRun \cup (1..starts)
  /\ validation[v] \in {"pending", "running"}
  /\ validation' = [validation EXCEPT ![v] = "cancelled"]
  /\ UNCHANGED <<fleetVars, starts, sessionOf, phase, running, row, backend>>

\* A step of the fleet alone.
InFleet(step) == backend = "up" /\ step /\ UNCHANGED <<sessionVars, backend>>

Next ==
  \/ /\ backend = "up"
     /\ \/ \E s \in Session : StartSession(s) \/ StopSession(s) \/ FailSession(s)
        \/ \E i \in Start : PhaseOver(i)
        \/ \E v \in Run : CancelRun(v)
  \/ InFleet(UserStep)
  \/ InFleet(\E w \in Worker : WorkerStep(w))

Spec == Init /\ [][Next]_vars

\* The sweep finds a worker that hangs, a killed worker dies, and exits are
\* delivered.  A worker need not die of itself.
Fairness ==
  \A w \in Worker :
    /\ WF_vars(life[w] = "hung" /\ InFleet(HeartbeatKill(w)))
    /\ WF_vars(w \in killed /\ InFleet(Dies(w)))
    /\ WF_vars(InFleet(ExitDelivered(w)))

FairSpec == Spec /\ Fairness

(***************************************************************************)
(* Properties                                                              *)
(***************************************************************************)

\* The type invariant of the fleet and the sessions.
PhaseTypeOK ==
  /\ forked \in 0..MaxWorkers
  /\ life \in [Worker -> {"none", "live", "hung", "dead", "gone"}]
  /\ killed \subseteq Worker /\ pool \subseteq Worker /\ reported \subseteq Worker
  /\ batch \in [Worker -> 0..MaxWorkers]
  /\ drives \in [Worker -> SUBSET Bot] /\ taken \in [Worker -> SUBSET Bot]
  /\ assigned \in [Bot -> 0..MaxWorkers] /\ recent \in [Bot -> 0..MaxWorkers]
  /\ starts \in 0..MaxStarts
  /\ sessionOf \in [Start -> Session]
  /\ phase \in [Start -> Nat] /\ \A i \in Start : phase[i] <= Len(Phases[sessionOf[i]])
  /\ running \in [Session -> 0..starts]
  /\ row \in [Session -> {"CREATED", "RUNNING", "FINISHED", "FAILED"}]
  /\ validation \in [Run -> {"pending", "running", "completed", "failed", "cancelled"}]
  /\ backend \in {"up", "down"}

\* A pooled worker runs a bot that no command reaches only if a later batch
\* took the bot's name over, and a worker that no bot is assigned to stays
\* up only for that reason.
OutOfReachOnlyByTakeover ==
  \A w \in pool :
    /\ \A n \in drives[w] : assigned[n] = w \/ n \in taken[w]
    /\ taken[w] = {} => \E n \in Bot : assigned[n] = w

\* What the backend keeps of a worker goes with its exit, however it was
\* killed and whatever was heard of it since.
NothingOfTheGone ==
  /\ \A n \in Bot : \A w \in {assigned[n], recent[n]} \ {0} : life[w] \in {"live", "hung", "dead"}
  /\ \A w \in reported \cup pool \cup killed : life[w] \in {"live", "hung", "dead"}
  /\ pool \cap killed = {}

Superseded(i) == \E j \in i + 1..starts : sessionOf[j] = sessionOf[i]

\* A timer, a row or a validation run is left of a session that has ended
\* only if the session was started more than once.
LeftBehindOnlyByRestart ==
  /\ \A i \in 1..starts :
       /\ phase[i] # 0 => running[sessionOf[i]] = i \/ Superseded(i)
       /\ validation[ValidationOf(i, sessionOf[i])] = "running" =>
            running[sessionOf[i]] # 0 \/ Superseded(i)
  /\ \A s \in Session :
       row[s] = "RUNNING" => running[s] # 0 \/ \E i \in 1..starts : sessionOf[i] = s /\ Superseded(i)

\* A worker that was killed, or hangs, is finally forgotten: no report of it
\* is kept and no bot is assigned to it.
KilledWorkerIsForgotten ==
  \A w \in Worker :
    (w \in killed \/ life[w] = "hung") ~>
      (backend = "down" \/ [](w \notin reported /\ \A n \in Bot : w \notin {assigned[n], recent[n]}))
=============================================================================
