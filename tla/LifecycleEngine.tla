--------------------------- MODULE LifecycleEngine -------------------------
(* ServerLifecycleEngine with the lock it builds (OperationLock), the      *)
(* process manager it drives (ProcessManager) and StartReadyDetector, for  *)
(* one server.  Every operation is a caller of the process manager.        *)
(*                                                                         *)
(* An operation's program counter opPc names the await it is at.  What an  *)
(* async function does between two awaits is one action; the call of the   *)
(* process manager that ends such a stretch belongs to it.                 *)
EXTENDS OperationLock, Sequences

CONSTANTS MaxStarts, PromptKill,
          Attempts,   \* policy.startRetryAttempts
          Hooks,      \* the hook commands the server's configuration has
          LateCalls   \* TRUE: a call may come while an unfinished operation's
                      \* entry is missing from operationLocks

ASSUME AttemptsIsPositive == Attempts \in Nat \ {0}
ASSUME HooksAreHooks == Hooks \subseteq {"preStart", "postStart", "preStop", "postStop"}
ASSUME LateCallsIsBoolean == LateCalls \in BOOLEAN
ASSUME KillIsPromptOrNot == PromptKill \in BOOLEAN
ASSUME StartsAreBounded == MaxStarts \in Nat
ASSUME KeysNameActions == \A k \in Key : k.action \in {"start", "stop", "restart"}

VARIABLES
  phase,    \* engines.get(serverId).phase, "none" without an entry
  kind,     \* what each operation was asked to do
  opPc,     \* the await each operation is at
  attempt,  \* startWithRetry's counter
  waiter,   \* the operation whose waiter StartReadyDetector holds
  timers    \* the operations whose ready timeout is armed

VARIABLES current, starts, state, process, mcSession, registered, life, killed,
          asked, crashed, callPc, target, result, stopLocks, host

PM == INSTANCE ProcessManager WITH Caller <- Op

engineVars == <<phase, kind, opPc, attempt, waiter, timers>>
processVars == <<current, starts, state, process, mcSession, registered, life, killed,
                 asked, crashed, callPc, target, result, stopLocks, host>>
vars == <<lockVars, engineVars, processVars>>

Phase == {"none", "IDLE", "VALIDATING", "PRE_START", "STARTING", "POST_START",
          "RUNNING", "PRE_STOPPING", "STOPPING", "POST_STOPPING", "STOPPED", "FAILED"}

Kind == {"start", "stop", "forceStop", "restart"}

EngineInit ==
  /\ LockInit
  /\ PM!ProcessInit
  /\ phase = "none"
  /\ kind = [o \in Op |-> "none"]
  /\ opPc = [o \in Op |-> "none"]
  /\ attempt = [o \in Op |-> 0]
  /\ waiter = None
  /\ timers = {}

(***************************************************************************)
(* Parts shared by the actions.                                            *)
(***************************************************************************)
GoTo(o, pc) == opPc' = [opPc EXCEPT ![o] = pc]

At(o, pc) == host = "up" /\ stage[o] = "active" /\ opPc[o] = pc

\* The promise of the process manager's call has settled.
CallReturned(o) == callPc[o] = "idle"

\* The operation's promise settles, which runs the lock's finally block.
End(o, outcome) == Finish(o, outcome) /\ GoTo(o, "ended")

\* processManager.start, up to its first await or its throw.
CallStart(o) ==
  \/ PM!StartAccepted(o)
  \/ \E valid \in BOOLEAN : PM!StartRefused(o, valid)

\* The top of startWithRetry's loop.
TryStart(o) ==
  /\ phase' = "STARTING"
  /\ attempt' = [attempt EXCEPT ![o] = @ + 1]
  /\ CallStart(o)
  /\ GoTo(o, "starting")

\* The stretch of stopUnsafe from the preStop hook to processManager.stop.
CallStop(o) ==
  /\ phase' = "STOPPING"
  /\ PM!StopCall(o, kind[o] = "forceStop")
  /\ GoTo(o, "stopping")

KeepDetector == UNCHANGED <<waiter, timers>>

(***************************************************************************)
(* A request.                                                              *)
(***************************************************************************)
MapIsIntact == tail # None \/ \A p \in Op : ~Unfinished(p)

\* A key counts for one action, and a forced stop is a stop.
KeysOf(what) == {k \in Key : k.action = IF what = "forceStop" THEN "stop" ELSE what}

\* A call with no key, or with one that is not in flight.
Submit(o, what, k) ==
  /\ host = "up"
  /\ LateCalls \/ MapIsIntact
  /\ Call(o, k)
  /\ kind' = [kind EXCEPT ![o] = what]
  /\ GoTo(o, IF what = "start" THEN "startUnsafe"
             ELSE IF what = "restart" THEN "restart" ELSE "stopUnsafe")
  /\ UNCHANGED <<phase, attempt, waiter, timers, processVars>>

\* A call that is handed the promise of another's operation.
Share(o, k) ==
  /\ host = "up"
  /\ Join(o, k)
  /\ UNCHANGED <<engineVars, processVars>>

Admit(o) ==
  /\ host = "up"
  /\ Begin(o)
  /\ UNCHANGED <<engineVars, processVars>>

Release(o) ==
  /\ host = "up"
  /\ Forget(o)
  /\ UNCHANGED <<engineVars, processVars>>

(***************************************************************************)
(* startUnsafe and startWithRetry                                          *)
(***************************************************************************)
\* Mutant: a start of a running server is not ignored.
StartIgnoredUnlessRunning == phase \in {"STARTING", "PRE_STOPPING", "STOPPING", "POST_STOPPING"}

StartIgnored == phase \in {"RUNNING", "STARTING", "PRE_STOPPING", "STOPPING", "POST_STOPPING"}

\* A duplicate start, or one during a stop, returns as if it had succeeded.
IgnoreStart(o) ==
  /\ At(o, "startUnsafe")
  /\ StartIgnored
  /\ End(o, "done")
  /\ UNCHANGED <<phase, kind, attempt, waiter, timers, processVars>>

BeginStart(o) ==
  /\ At(o, "startUnsafe")
  /\ ~StartIgnored
  /\ phase' = "VALIDATING"
  /\ GoTo(o, "validating")
  /\ KeepDetector
  /\ UNCHANGED <<lockVars, kind, attempt, processVars>>

ValidationFails(o) ==
  /\ At(o, "validating")
  /\ phase' = "FAILED"
  /\ End(o, "failed")
  /\ KeepDetector
  /\ UNCHANGED <<kind, attempt, processVars>>

ValidationPasses(o) ==
  /\ At(o, "validating")
  /\ IF "preStart" \in Hooks
     THEN /\ phase' = "PRE_START"
          /\ GoTo(o, "preStart")
          /\ UNCHANGED <<attempt, processVars>>
     ELSE TryStart(o)
  /\ KeepDetector
  /\ UNCHANGED <<lockVars, kind>>

\* The hook's exit code is only logged.
PreStartHookEnds(o) ==
  /\ At(o, "preStart")
  /\ TryStart(o)
  /\ KeepDetector
  /\ UNCHANGED <<lockVars, kind>>

\* processManager.start has resolved: register a waiter under the server's id
\* in place of whichever is there, and arm its timeout.
AwaitReady(o) ==
  /\ At(o, "starting") /\ CallReturned(o)
  /\ result[o] = "ok"
  /\ waiter' = o
  /\ timers' = timers \cup {o}
  /\ GoTo(o, "ready")
  /\ UNCHANGED <<lockVars, phase, kind, attempt, processVars>>

\* Mutant: an attempt that failed is not cleaned up.
CleanUpNothing(o) == GoTo(o, "cleanUp") /\ UNCHANGED processVars

\* startWithRetry's catch block: a forced stop cleans up after the attempt,
\* whatever becomes of it.
CleanUp(o) == PM!StopCall(o, TRUE) /\ GoTo(o, "cleanUp")

StartThrew(o) ==
  /\ At(o, "starting") /\ CallReturned(o)
  /\ result[o] = "threw"
  /\ CleanUp(o)
  /\ UNCHANGED <<lockVars, phase, kind, attempt, waiter, timers>>

\* Mutant: one attempt too many.
RetryLaterOnceMore(o) ==
  /\ At(o, "cleanUp") /\ CallReturned(o)
  /\ attempt[o] <= Attempts
  /\ GoTo(o, "retryDelay")
  /\ UNCHANGED <<lockVars, phase, kind, attempt, waiter, timers, processVars>>

RetryLater(o) ==
  /\ At(o, "cleanUp") /\ CallReturned(o)
  /\ attempt[o] < Attempts
  /\ GoTo(o, "retryDelay")
  /\ UNCHANGED <<lockVars, phase, kind, attempt, waiter, timers, processVars>>

Retry(o) ==
  /\ At(o, "retryDelay")
  /\ TryStart(o)
  /\ KeepDetector
  /\ UNCHANGED <<lockVars, kind>>

StartGivesUp(o) ==
  /\ At(o, "cleanUp") /\ CallReturned(o)
  /\ attempt[o] >= Attempts
  /\ phase' = "FAILED"
  /\ End(o, "failed")
  /\ KeepDetector
  /\ UNCHANGED <<kind, attempt, processVars>>

\* The rest of startUnsafe once waitForReady has resolved with ready.
ServerIsReady(o) ==
  IF "postStart" \in Hooks
  THEN phase' = "POST_START" /\ GoTo(o, "postStart") /\ UNCHANGED lockVars
  ELSE phase' = "RUNNING" /\ End(o, "done")

PostStartHookEnds(o) ==
  /\ At(o, "postStart")
  /\ phase' = "RUNNING"
  /\ End(o, "done")
  /\ KeepDetector
  /\ UNCHANGED <<kind, attempt, processVars>>

(***************************************************************************)
(* StartReadyDetector.  finalizeWait resolves the waiter the map holds and *)
(* disarms that waiter's timeout; the timeout of a waiter that has been    *)
(* replaced stays armed and finalizes its replacement.                     *)
(***************************************************************************)

\* The child of the current start has run.  Its last output may be delivered
\* after its exit; the port was found free before the start, so what opens it
\* is that child.
HasSpoken == current # 0 /\ life[current] \in {"live", "gone"}

\* Mutant: the timeout of a resolved waiter stays armed.
ReadySignalKeepsTimer ==
  /\ host = "up" /\ waiter # None
  /\ HasSpoken
  /\ waiter' = None
  /\ ServerIsReady(waiter)
  /\ UNCHANGED <<kind, attempt, timers, processVars>>

\* The server prints its ready line or its port opens.
ReadySignal ==
  /\ host = "up" /\ waiter # None
  /\ HasSpoken
  /\ waiter' = None
  /\ timers' = timers \ {waiter}
  /\ ServerIsReady(waiter)
  /\ UNCHANGED <<kind, attempt, processVars>>

\* Mutant: the waiter is dropped and its promise never resolved.
ReadyTimeoutDropsWaiter(o) ==
  /\ host = "up" /\ o \in timers
  /\ waiter' = None
  /\ timers' = timers \ {o, waiter}
  /\ UNCHANGED <<lockVars, phase, kind, opPc, attempt, processVars>>

\* The timeout armed for o fires: the waiter in the map, if any, is resolved
\* as not ready, and the operation it belongs to cleans up.
ReadyTimeout(o) ==
  /\ host = "up" /\ o \in timers
  /\ waiter' = None
  /\ timers' = timers \ {o, waiter}
  /\ IF waiter # None THEN CleanUp(waiter) ELSE UNCHANGED <<opPc, processVars>>
  /\ UNCHANGED <<lockVars, phase, kind, attempt>>

(***************************************************************************)
(* stopUnsafe                                                              *)
(***************************************************************************)

\* A stop of a server the engine does not know or has stopped is a no-op.
StopIsNoOp == phase \in {"none", "STOPPED"}

IgnoreStop(o) ==
  /\ At(o, "stopUnsafe")
  /\ StopIsNoOp
  /\ End(o, "done")
  /\ UNCHANGED <<phase, kind, attempt, waiter, timers, processVars>>

BeginStop(o) ==
  /\ At(o, "stopUnsafe")
  /\ ~StopIsNoOp
  /\ IF "preStop" \in Hooks
     THEN /\ phase' = "PRE_STOPPING"
          /\ GoTo(o, "preStop")
          /\ UNCHANGED processVars
     ELSE CallStop(o)
  /\ UNCHANGED <<lockVars, kind, attempt, waiter, timers>>

PreStopHookEnds(o) ==
  /\ At(o, "preStop")
  /\ CallStop(o)
  /\ UNCHANGED <<lockVars, kind, attempt, waiter, timers>>

\* The end of stopUnsafe: a restart goes on with its start, a stop is done.
StopDone(o) ==
  /\ phase' = "STOPPED"
  /\ IF kind[o] = "restart"
     THEN GoTo(o, "startUnsafe") /\ UNCHANGED lockVars
     ELSE End(o, "done")

\* processManager.stop has resolved.
ProcessStopped(o) ==
  /\ At(o, "stopping") /\ CallReturned(o)
  /\ IF "postStop" \in Hooks
     THEN phase' = "POST_STOPPING" /\ GoTo(o, "postStop") /\ UNCHANGED lockVars
     ELSE StopDone(o)
  /\ UNCHANGED <<kind, attempt, waiter, timers, processVars>>

PostStopHookEnds(o) ==
  /\ At(o, "postStop")
  /\ StopDone(o)
  /\ UNCHANGED <<kind, attempt, waiter, timers, processVars>>

\* processManager.stop rejects: one more forced stop in the same turn, whose
\* own outcome is ignored, and the operation fails.
StopFails(o) ==
  /\ At(o, "stopping")
  /\ PM!WaitGivesUp(o, TRUE)
  /\ phase' = "FAILED"
  /\ GoTo(o, "stopCleanUp")
  /\ UNCHANGED <<lockVars, kind, attempt, waiter, timers>>

StopGivesUp(o) ==
  /\ At(o, "stopCleanUp") /\ CallReturned(o)
  /\ End(o, "failed")
  /\ UNCHANGED <<phase, kind, attempt, waiter, timers, processVars>>

(***************************************************************************)
(* restart: it fails without a known configuration, and stops the server   *)
(* first unless the phase says that nothing runs.                          *)
(***************************************************************************)
RestartUnknown(o) ==
  /\ At(o, "restart")
  /\ phase = "none"
  /\ End(o, "failed")
  /\ UNCHANGED <<phase, kind, attempt, waiter, timers, processVars>>

BeginRestart(o) ==
  /\ At(o, "restart")
  /\ phase # "none"
  /\ GoTo(o, IF phase \in {"FAILED", "STOPPED", "IDLE"} THEN "startUnsafe" ELSE "stopUnsafe")
  /\ UNCHANGED <<lockVars, phase, kind, attempt, waiter, timers, processVars>>

(***************************************************************************)
(* The process manager's own steps: its promises, and its children.        *)
(***************************************************************************)
ProcessStep(o) ==
  /\ \/ PM!SpawnThrows(o) \/ PM!SpawnSucceeds(o) \/ PM!SpawnFails(o)
     \/ PM!StopNothing(o) \/ PM!StopWithoutProcess(o) \/ PM!StopJoins(o)
     \/ \E writable \in BOOLEAN : PM!StopBegins(o, writable)
     \/ PM!WaitEnds(o) \/ PM!WaitTrustsKill(o) \/ PM!WaitEscalates(o)
     \/ opPc[o] # "stopping" /\ PM!WaitGivesUp(o, FALSE)
  /\ UNCHANGED <<lockVars, engineVars>>

ChildExits(s) == PM!ChildExit(s) /\ UNCHANGED <<lockVars, engineVars>>

OperationStep(o) ==
  \/ IgnoreStart(o) \/ BeginStart(o)
  \/ ValidationFails(o) \/ ValidationPasses(o) \/ PreStartHookEnds(o)
  \/ AwaitReady(o) \/ StartThrew(o) \/ RetryLater(o) \/ Retry(o) \/ StartGivesUp(o)
  \/ PostStartHookEnds(o)
  \/ IgnoreStop(o) \/ BeginStop(o) \/ PreStopHookEnds(o)
  \/ ProcessStopped(o) \/ PostStopHookEnds(o) \/ StopFails(o) \/ StopGivesUp(o)
  \/ RestartUnknown(o) \/ BeginRestart(o)

Next ==
  \/ \E o \in Op :
       \/ \E what \in Kind : \E k \in KeysOf(what) \cup {None} : Submit(o, what, k)
       \/ \E k \in Key : Share(o, k)
       \/ Admit(o) \/ Release(o)
       \/ OperationStep(o)
       \/ ProcessStep(o)
       \/ ReadyTimeout(o)
  \/ ReadySignal
  \/ \E s \in PM!Slot : ChildExits(s)

Spec == EngineInit /\ [][Next]_vars

\* Promises settle, hooks and validation end within their timeouts, timers
\* fire, and a killed child exits.  Nobody need call, no server need be ready.
Fairness ==
  /\ \A o \in Op :
       /\ WF_vars(Admit(o))
       /\ WF_vars(OperationStep(o))
       /\ WF_vars(ProcessStep(o))
       /\ WF_vars(ReadyTimeout(o))
  /\ \A s \in PM!Slot : WF_vars(killed[s] /\ ChildExits(s))

FairSpec == Spec /\ Fairness

(***************************************************************************)
(* Properties                                                              *)
(***************************************************************************)

\* The type invariant of the engine's own state.
EngineTypeOK ==
  /\ phase \in Phase
  /\ kind \in [Op -> Kind \cup {"none"}]
  /\ attempt \in [Op -> 0..Attempts]
  /\ waiter \in Op \cup {None}
  /\ timers \subseteq Op

Quiet == \A o \in Op : ~Unfinished(o)

\* The object in the map is RUNNING, has the live child of its own start, which
\* nobody asked to stop, and is wired to the session registered under its id.
ServerAnswers ==
  /\ current # 0 /\ current \notin asked
  /\ state[current] = "RUNNING" /\ life[current] = "live" /\ process[current] = current
  /\ registered = current /\ mcSession[current] = current

\* When no operation is under way the phase can be trusted: STOPPED and FAILED
\* mean that no child of the server is live, and RUNNING that its one child is
\* live and can be reached through its console, or that the exit of that child
\* was announced as a crash, or that the backend itself is down.
QuietPhaseIsTrue ==
  Quiet /\ host = "up" =>
    /\ phase \in {"none", "STOPPED", "FAILED"} => \A s \in PM!Slot : life[s] # "live"
    /\ phase = "RUNNING" => ServerAnswers \/ current \in crashed
    /\ phase \in {"none", "RUNNING", "STOPPED", "FAILED"}

LiveChildren == {s \in PM!Slot : life[s] = "live"}

MS == INSTANCE ManagedServer WITH phase <- phase, children <- Cardinality(LiveChildren)

\* The engine keeps ManagedServer's promise: it starts only what is down, never
\* has two live children, publishes RUNNING only at the end of a start, and
\* STOPPED or FAILED only when no child is left.
ImplementsManagedServer == MS!ServerSpec

\* The ready wait an operation is in is the detector's: no waiter is replaced
\* and none is resolved by the timeout of another.
WaiterIsOwn ==
  \A o \in Op : opPc[o] = "ready" => waiter = o /\ timers = {o}

\* RUNNING is entered only from STARTING or POST_START, as the comment in
\* lifecycle-engine.test.ts has it.
RunningFollowsStart ==
  [][phase' = "RUNNING" /\ phase # "RUNNING" => phase \in {"STARTING", "POST_START"}]_vars

\* A start is about to be made that the bound MaxStarts does not allow.
AtBound ==
  starts = MaxStarts /\ \E o \in Op : opPc[o] \in {"validating", "preStart", "retryDelay"}

\* Every accepted operation ends, unless the backend process dies first.
EveryOperationEnds ==
  \A o \in Op : (stage[o] = "queued") ~> (Settled(o) \/ host # "up" \/ AtBound)

WaiterReplaced == \E p \in Op : opPc[p] = "ready" /\ waiter # p

\* Every call is answered, also one that shares the operation of another, where
\* operations overlap because the lock lost its entry; unless the ready waiter of
\* one was replaced by another's: the detector forgets it and nothing resolves it.
OnlyReplacedWaitersHang ==
  \A o \in Op :
    stage[o] \in {"queued", "joined"}
      ~> (Answered(o) \/ host # "up" \/ AtBound \/ WaiterReplaced)
=============================================================================
