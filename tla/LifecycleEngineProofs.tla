----------------------- MODULE LifecycleEngineProofs -----------------------
(* Proofs about LifecycleEngine for any operations, hooks, attempts and    *)
(* bounds.  What the engine promises beyond its types rests on two things  *)
(* the code cannot promise: that no call comes while the lock has lost its *)
(* entry (~LateCalls), so that one operation is active at a time, and, for *)
(* what concerns children, that a killed one is gone in time (PromptKill). *)
EXTENDS LifecycleEngine, OperationLockProofs, FiniteSetTheorems

(***************************************************************************)
(* Types.                                                                  *)
(***************************************************************************)
EntryPc == {"startUnsafe", "stopUnsafe", "restart"}

MidPc == {"validating", "preStart", "starting", "ready", "cleanUp", "retryDelay", "postStart",
          "preStop", "stopping", "postStop", "stopCleanUp"}

\* An operation counts its attempts from zero and retries only while some
\* are left.
AttemptsCounted ==
  \A o \in Op :
    /\ opPc[o] \in EntryPc \cup {"none", "validating", "preStart", "preStop", "stopping",
                                 "postStop", "stopCleanUp"} => attempt[o] = 0
    /\ opPc[o] = "retryDelay" => attempt[o] < Attempts
    /\ stage[o] = "new" => attempt[o] = 0

TypeInv ==
  /\ EngineTypeOK
  /\ stage \in [Op -> Stage]
  /\ opPc \in [Op -> {"none", "ended"} \cup EntryPc \cup MidPc]
  /\ AttemptsCounted

\* The steps of an operation keep the types.
LEMMA OperationKeepsTypes ==
  ASSUME TypeInv, NEW o \in Op, OperationStep(o)
  PROVE  TypeInv'
<1> USE AttemptsIsPositive
<1> USE DEF TypeInv, EngineTypeOK, AttemptsCounted, EntryPc, MidPc, Phase, Kind, GoTo, At,
            End, Finish, Stage, lockVars
<1>1. CASE IgnoreStart(o) \/ BeginStart(o) \/ ValidationFails(o)
  BY <1>1 DEF IgnoreStart, BeginStart, ValidationFails, KeepDetector
<1>2. CASE ValidationPasses(o) \/ PreStartHookEnds(o) \/ Retry(o)
  BY <1>2 DEF ValidationPasses, PreStartHookEnds, Retry, TryStart, KeepDetector
<1>3. CASE AwaitReady(o)
  BY <1>3 DEF AwaitReady
<1>4. CASE StartThrew(o) \/ RetryLater(o)
  BY <1>4 DEF StartThrew, RetryLater, CleanUp
<1>5. CASE StartGivesUp(o) \/ PostStartHookEnds(o)
  BY <1>5 DEF StartGivesUp, PostStartHookEnds, KeepDetector
<1>6. CASE IgnoreStop(o) \/ BeginStop(o) \/ PreStopHookEnds(o)
  BY <1>6 DEF IgnoreStop, BeginStop, PreStopHookEnds, CallStop
<1>7. CASE ProcessStopped(o) \/ PostStopHookEnds(o)
  BY <1>7 DEF ProcessStopped, PostStopHookEnds, StopDone
<1>8. CASE StopFails(o) \/ StopGivesUp(o) \/ RestartUnknown(o) \/ BeginRestart(o)
  BY <1>8 DEF StopFails, StopGivesUp, RestartUnknown, BeginRestart
<1> QED
  BY <1>1, <1>2, <1>3, <1>4, <1>5, <1>6, <1>7, <1>8 DEF OperationStep

\* Every step keeps the types.
LEMMA TypeStep ==
  ASSUME TypeInv, [Next]_vars
  PROVE  TypeInv'
<1> USE DEF TypeInv, EngineTypeOK, AttemptsCounted, EntryPc, MidPc, Phase, Kind, GoTo, Stage,
            lockVars
<1>1. ASSUME NEW o \in Op, NEW what \in Kind, NEW k \in Key \cup {None}, Submit(o, what, k)
      PROVE TypeInv'
  BY <1>1 DEF Submit, Call, Enqueue
<1>8. ASSUME NEW o \in Op, Release(o) \/ \E k \in Key : Share(o, k) PROVE TypeInv'
  BY <1>8 DEF Release, Share, Forget, Join, engineVars
<1>2. ASSUME NEW o \in Op, Admit(o) \/ ProcessStep(o) PROVE TypeInv'
  BY <1>2 DEF Admit, Begin, ProcessStep, engineVars
<1>3. ASSUME NEW o \in Op, OperationStep(o) PROVE TypeInv'
  BY <1>3, OperationKeepsTypes
<1>4. ASSUME NEW o \in Op, ReadyTimeout(o) PROVE TypeInv'
  BY <1>4 DEF ReadyTimeout, CleanUp
<1>5. CASE ReadySignal
  BY <1>5 DEF ReadySignal, ServerIsReady, End, Finish
<1>6. ASSUME NEW s \in PM!Slot, ChildExits(s) PROVE TypeInv'
  BY <1>6 DEF ChildExits, engineVars
<1>7. CASE UNCHANGED vars
  BY <1>7 DEF vars, engineVars
<1> QED
  BY <1>1, <1>2, <1>3, <1>4, <1>5, <1>6, <1>7, <1>8 DEF Next, KeysOf

LEMMA TypeInit == EngineInit => TypeInv
BY AttemptsIsPositive
   DEF EngineInit, TypeInv, EngineTypeOK, AttemptsCounted, EntryPc, MidPc, Phase, Kind,
       LockInit, Stage

\* EngineTypeOK: the phase, the counters of attempts, the waiter and its
\* timeouts keep their types, whatever calls come and whatever overlaps.
THEOREM EngineTypes == Spec => []EngineTypeOK
<1>1. EngineInit => TypeInv
  BY TypeInit
<1>2. TypeInv /\ [Next]_vars => TypeInv'
  BY TypeStep
<1>3. TypeInv => EngineTypeOK
  BY DEF TypeInv
<1> QED
  BY <1>1, <1>2, <1>3, PTL DEF Spec

(***************************************************************************)
(* One operation at a time, where no call comes late.                      *)
(***************************************************************************)

\* The operations that are not settled are all in one chain.
OneChain ==
  \A o, p \in Op : Unfinished(o) /\ Unfinished(p) => root[o] = root[p]

Mid(o) == opPc[o] \in MidPc

\* An operation in its middle is active, so the lock keeps the others out.
MidIsActive == \A o \in Op : Mid(o) => stage[o] = "active"

\* The phase while the operation o is in its middle.
PhaseAt(o) ==
  /\ opPc[o] = "validating" => phase = "VALIDATING"
  /\ opPc[o] = "preStart" => phase = "PRE_START"
  /\ opPc[o] \in {"starting", "ready", "cleanUp", "retryDelay"} => phase = "STARTING"
  /\ opPc[o] = "postStart" => phase = "POST_START"
  /\ opPc[o] = "preStop" => phase = "PRE_STOPPING"
  /\ opPc[o] = "stopping" => phase = "STOPPING"
  /\ opPc[o] = "postStop" => phase = "POST_STOPPING"
  /\ opPc[o] = "stopCleanUp" => phase = "FAILED"

\* The phase while no operation is.
PhaseAtRest ==
  (\A o \in Op : ~Mid(o)) => phase \in {"none", "RUNNING", "STOPPED", "FAILED"}

\* The detector's waiter is the one operation at the ready wait.
WaiterLinks ==
  /\ \A o \in Op : opPc[o] = "ready" <=> waiter = o
  /\ timers = {o \in Op : waiter = o}

SerialInv ==
  /\ TypeInv /\ LockInv
  /\ OneChain /\ MidIsActive
  /\ \A o \in Op : PhaseAt(o)
  /\ PhaseAtRest
  /\ WaiterLinks

\* Of one chain at most one operation is active.
LEMMA OneActive ==
  ASSUME LockInv, OneChain, NEW o \in Op, NEW p \in Op,
         stage[o] = "active", stage[p] = "active"
  PROVE  o = p
<1>1. root[o] = root[p] /\ Placed(o) /\ Placed(p)
  BY DEF OneChain, Unfinished, LockInv, PlacesOK
<1>2. depth[o] \in Nat /\ depth[p] \in Nat
  BY DEF LockInv, LockTypeOK
<1>3. ~ (depth[o] < depth[p]) /\ ~ (depth[p] < depth[o])
  BY <1>1 DEF LockInv, BegunInOrder, Settled
<1> QED
  BY <1>1, <1>2, <1>3 DEF LockInv, OnePerPlace

\* While an operation is active no other is in its middle.
LEMMA OthersRest ==
  ASSUME SerialInv, NEW o \in Op, stage[o] = "active"
  PROVE  \A p \in Op : p # o => ~Mid(p)
BY OneActive DEF SerialInv, MidIsActive

\* What an operation's step does to the lock: nothing, or its end.
LEMMA OperationLocks ==
  ASSUME NEW o \in Op, OperationStep(o)
  PROVE  \/ UNCHANGED lockVars
         \/ (\E outcome \in {"done", "failed"} : Finish(o, outcome)) /\ GoTo(o, "ended")
<1>1. CASE IgnoreStart(o) \/ BeginStart(o) \/ ValidationFails(o) \/ ValidationPasses(o)
             \/ PreStartHookEnds(o)
  BY <1>1 DEF IgnoreStart, BeginStart, ValidationFails, ValidationPasses, PreStartHookEnds, End
<1>2. CASE AwaitReady(o) \/ StartThrew(o) \/ RetryLater(o) \/ Retry(o) \/ StartGivesUp(o)
             \/ PostStartHookEnds(o)
  BY <1>2 DEF AwaitReady, StartThrew, RetryLater, Retry, StartGivesUp, PostStartHookEnds, End
<1>3. CASE IgnoreStop(o) \/ BeginStop(o) \/ PreStopHookEnds(o) \/ ProcessStopped(o)
             \/ PostStopHookEnds(o)
  BY <1>3 DEF IgnoreStop, BeginStop, PreStopHookEnds, ProcessStopped, PostStopHookEnds,
              StopDone, End
<1>4. CASE StopFails(o) \/ StopGivesUp(o) \/ RestartUnknown(o) \/ BeginRestart(o)
  BY <1>4 DEF StopFails, StopGivesUp, RestartUnknown, BeginRestart, End
<1> QED
  BY <1>1, <1>2, <1>3, <1>4 DEF OperationStep

\* Where an operation's step leads, with the phase it leaves; the ready wait
\* is entered and left elsewhere but for AwaitReady.
LEMMA OperationMoves ==
  ASSUME SerialInv, NEW o \in Op, OperationStep(o)
  PROVE  /\ stage[o] = "active"
         /\ opPc[o] \notin {"none", "ended", "ready"}
         /\ \E pc \in {"ended"} \cup EntryPc \cup MidPc : GoTo(o, pc)
         /\ PhaseAt(o)'
         /\ ~Mid(o)' => phase' \in {"none", "RUNNING", "STOPPED", "FAILED"}
         /\ IF AwaitReady(o) THEN opPc'[o] = "ready" /\ waiter' = o /\ timers' = timers \cup {o}
            ELSE opPc'[o] # "ready" /\ UNCHANGED <<waiter, timers>>
<1> USE DEF SerialInv, TypeInv, EngineTypeOK, PhaseAt, PhaseAtRest, Mid, MidPc, EntryPc, GoTo, At, End
<1>0. stage[o] = "active"
  BY DEF OperationStep, IgnoreStart, BeginStart, ValidationFails, ValidationPasses,
         PreStartHookEnds, AwaitReady, StartThrew, RetryLater, Retry, StartGivesUp,
         PostStartHookEnds, IgnoreStop, BeginStop, PreStopHookEnds, ProcessStopped,
         PostStopHookEnds, StopFails, StopGivesUp, RestartUnknown, BeginRestart
<1>A. \A p \in Op : p # o => ~Mid(p)
  BY <1>0, OthersRest
<1>B. ~Mid(o) => phase \in {"none", "RUNNING", "STOPPED", "FAILED"}
  BY <1>A
<1>1. CASE IgnoreStart(o) \/ BeginStart(o) \/ ValidationFails(o)
  BY <1>0, <1>B, <1>1 DEF IgnoreStart, BeginStart, ValidationFails, KeepDetector, AwaitReady
<1>2. CASE ValidationPasses(o) \/ PreStartHookEnds(o) \/ Retry(o)
  BY <1>0, <1>2 DEF ValidationPasses, PreStartHookEnds, Retry, TryStart, KeepDetector, AwaitReady
<1>3. CASE AwaitReady(o)
  BY <1>0, <1>3 DEF AwaitReady
<1>4. CASE StartThrew(o) \/ RetryLater(o)
  BY <1>0, <1>4 DEF StartThrew, RetryLater, CleanUp, AwaitReady
<1>5. CASE StartGivesUp(o) \/ PostStartHookEnds(o)
  BY <1>0, <1>5 DEF StartGivesUp, PostStartHookEnds, KeepDetector, AwaitReady
<1>6. CASE IgnoreStop(o) \/ BeginStop(o) \/ PreStopHookEnds(o)
  BY <1>0, <1>B, <1>6 DEF IgnoreStop, BeginStop, PreStopHookEnds, CallStop, AwaitReady
<1>7. CASE ProcessStopped(o) \/ PostStopHookEnds(o)
  BY <1>0, <1>7 DEF ProcessStopped, PostStopHookEnds, StopDone, AwaitReady
<1>8. CASE StopFails(o) \/ StopGivesUp(o) \/ RestartUnknown(o) \/ BeginRestart(o)
  BY <1>0, <1>B, <1>8 DEF StopFails, StopGivesUp, RestartUnknown, BeginRestart, AwaitReady
<1> QED
  BY <1>1, <1>2, <1>3, <1>4, <1>5, <1>6, <1>7, <1>8 DEF OperationStep

\* Every step of the engine is a step of the lock, or leaves it alone.
LEMMA LockStep ==
  ASSUME TypeInv, [Next]_vars
  PROVE  [LockNext]_lockVars
<1>1. ASSUME NEW o \in Op, NEW what \in Kind, NEW k \in Key \cup {None}, Submit(o, what, k)
      PROVE  LockNext
  BY <1>1 DEF Submit, LockNext
<1>2. ASSUME NEW o \in Op, Admit(o) \/ Release(o) \/ \E k \in Key : Share(o, k) PROVE LockNext
  BY <1>2 DEF Admit, Release, Share, LockNext
<1>3. ASSUME NEW o \in Op, OperationStep(o) PROVE [LockNext]_lockVars
  BY <1>3, OperationLocks DEF LockNext
<1>4. CASE ReadySignal
  <2>1. waiter \in Op
    BY <1>4 DEF ReadySignal, TypeInv, EngineTypeOK
  <2> QED
    BY <1>4, <2>1 DEF ReadySignal, ServerIsReady, End, LockNext
<1>5. CASE \/ \E o \in Op : ProcessStep(o) \/ ReadyTimeout(o)
           \/ \E s \in PM!Slot : ChildExits(s)
           \/ UNCHANGED vars
  BY <1>5 DEF ProcessStep, ReadyTimeout, ChildExits, vars
<1> QED
  BY <1>1, <1>2, <1>3, <1>4, <1>5 DEF Next, KeysOf

\* The engine uses its lock as OperationLock has it, late calls or not, so that
\* what is proved of the lock holds in the engine.
THEOREM EngineKeepsLock == Spec => LockSpec
<1>1. EngineInit => LockInit /\ TypeInv
  BY TypeInit DEF EngineInit
<1>2. TypeInv /\ [Next]_vars => TypeInv' /\ [LockNext]_lockVars
  BY TypeStep, LockStep
<1> QED
  BY <1>1, <1>2, PTL DEF Spec, LockSpec

\* ChainExclusion: where the lock is used (withServerLock), with every await of
\* the operations it serialises, those of one chain never overlap.
THEOREM EngineOperationsExclude == Spec => []ChainExclusion
BY EngineKeepsLock, OperationsOfAChainExclude, PTL

\* A step of one active operation keeps the invariant if it keeps the types,
\* does no more to the lock than to settle the operation, and leaves a phase
\* and a waiter that fit.
LEMMA MoveKeepsSerial ==
  ASSUME SerialInv, TypeInv',
         NEW o \in Op, stage[o] = "active",
         NEW pc \in {"ended"} \cup EntryPc \cup MidPc, GoTo(o, pc),
         \/ UNCHANGED lockVars
         \/ (\E outcome \in {"done", "failed"} : Finish(o, outcome)) /\ pc = "ended",
         PhaseAt(o)',
         ~Mid(o)' => phase' \in {"none", "RUNNING", "STOPPED", "FAILED"},
         IF pc = "ready" THEN waiter' = o ELSE waiter' = None,
         timers' = IF pc = "ready" THEN {o} ELSE {}
  PROVE  SerialInv'
<1> USE NoneIsFresh
<1>1. LockInv'
  BY FinishKeepsInv, StutterKeepsInv DEF SerialInv
<1>2. /\ root' = root
      /\ \A p \in Op : Unfinished(p)' => Unfinished(p)
      /\ \A p \in Op : p # o => stage'[p] = stage[p]
      /\ pc # "ended" => stage'[o] = "active"
  BY DEF Finish, lockVars, Unfinished, SerialInv, TypeInv
<1>3. /\ \A p \in Op : p # o => opPc'[p] = opPc[p] /\ ~Mid(p)
      /\ opPc'[o] = pc
  BY OthersRest DEF GoTo, SerialInv, TypeInv
<1>4. OneChain'
  BY <1>2 DEF OneChain, SerialInv
<1>5. MidIsActive'
  BY <1>2, <1>3 DEF MidIsActive, SerialInv, Mid, MidPc
<1>6. (\A p \in Op : PhaseAt(p))' /\ PhaseAtRest'
  BY <1>3 DEF PhaseAt, PhaseAtRest, Mid, MidPc
<1>7. WaiterLinks'
  BY <1>3 DEF WaiterLinks, Mid, MidPc
<1> QED
  BY <1>1, <1>4, <1>5, <1>6, <1>7 DEF SerialInv

\* The waiter's operation is active, and nobody waits where there is none.
LEMMA WaiterWaits ==
  ASSUME SerialInv
  PROVE  /\ waiter # None => /\ waiter \in Op /\ stage[waiter] = "active"
                             /\ opPc[waiter] = "ready" /\ timers = {waiter}
                             /\ phase = "STARTING"
         /\ waiter = None => timers = {}
BY NoneIsFresh DEF SerialInv, TypeInv, EngineTypeOK, WaiterLinks, MidIsActive, Mid, MidPc, PhaseAt

LEMMA OperationKeepsSerial ==
  ASSUME SerialInv, NEW o \in Op, OperationStep(o)
  PROVE  SerialInv'
<1>1. TypeInv'
  BY OperationKeepsTypes DEF SerialInv
<1>2. waiter = None /\ timers = {}
  <2>1. ~ (waiter # None)
    BY OneActive, WaiterWaits, OperationMoves DEF SerialInv
  <2> QED  BY <2>1, WaiterWaits
<1>3. PICK pc \in {"ended"} \cup EntryPc \cup MidPc : GoTo(o, pc)
  BY OperationMoves
<1>4. opPc'[o] = pc
  BY <1>3 DEF GoTo, SerialInv, TypeInv
<1>5. \/ UNCHANGED lockVars
      \/ (\E outcome \in {"done", "failed"} : Finish(o, outcome)) /\ pc = "ended"
  <2>1. opPc' = [opPc EXCEPT ![o] = "ended"] => pc = "ended"
    BY <1>4 DEF SerialInv, TypeInv
  <2> QED
    BY <2>1, OperationLocks DEF GoTo
<1>6. /\ IF pc = "ready" THEN waiter' = o ELSE waiter' = None
      /\ timers' = IF pc = "ready" THEN {o} ELSE {}
  BY <1>2, <1>4, OperationMoves
<1> QED
  BY <1>1, <1>3, <1>5, <1>6, OperationMoves, MoveKeepsSerial

LEMMA DetectorKeepsSerial ==
  ASSUME SerialInv, TypeInv', ReadySignal \/ \E o \in Op : ReadyTimeout(o)
  PROVE  SerialInv'
<1>1. ASSUME NEW w \in Op, w = waiter, ReadySignal PROVE SerialInv'
  <2>1. /\ stage[w] = "active" /\ timers = {w}
        /\ waiter' = None /\ timers' = {}
    BY <1>1, NoneIsFresh, WaiterWaits DEF ReadySignal
  <2>2. CASE "postStart" \in Hooks
    <3>1. GoTo(w, "postStart") /\ phase' = "POST_START" /\ UNCHANGED lockVars
      BY <1>1, <2>2 DEF ReadySignal, ServerIsReady
    <3>2. PhaseAt(w)' /\ Mid(w)'
      BY <2>1, <3>1 DEF PhaseAt, Mid, MidPc, GoTo, SerialInv, TypeInv
    <3>3. "postStart" \in MidPc  BY DEF MidPc
    <3> QED
      BY <2>1, <3>1, <3>2, <3>3, MoveKeepsSerial
  <2>3. CASE "postStart" \notin Hooks
    <3>1. GoTo(w, "ended") /\ phase' = "RUNNING" /\ Finish(w, "done")
      BY <1>1, <2>3 DEF ReadySignal, ServerIsReady, End
    <3>2. PhaseAt(w)'
      BY <2>1, <3>1 DEF PhaseAt, GoTo, SerialInv, TypeInv
    <3> QED
      BY <2>1, <3>1, <3>2, MoveKeepsSerial
  <2> QED  BY <2>2, <2>3
<1>2. ASSUME NEW w \in Op, w = waiter, NEW o \in Op, ReadyTimeout(o) PROVE SerialInv'
  <2>1. stage[w] = "active" /\ timers = {w} /\ phase = "STARTING"
    BY <1>2, NoneIsFresh, WaiterWaits
  <2>2. /\ GoTo(w, "cleanUp") /\ UNCHANGED <<lockVars, phase>>
        /\ waiter' = None /\ timers' = {}
    BY <1>2, <2>1, NoneIsFresh DEF ReadyTimeout, CleanUp
  <2>3. PhaseAt(w)' /\ Mid(w)'
    BY <2>1, <2>2 DEF PhaseAt, Mid, MidPc, GoTo, SerialInv, TypeInv
  <2>4. "cleanUp" \in MidPc  BY DEF MidPc
  <2> QED
    BY <2>1, <2>2, <2>3, <2>4, MoveKeepsSerial
<1>3. waiter \in Op
  BY WaiterWaits DEF ReadySignal, ReadyTimeout
<1> QED
  BY <1>1, <1>2, <1>3

\* A call made while the map is intact joins the one chain, or begins one
\* when nothing is left of any other.
LEMMA SubmitKeepsSerial ==
  ASSUME ~LateCalls, SerialInv, TypeInv', NEW o \in Op, NEW what \in Kind,
         NEW k \in Key \cup {None}, Submit(o, what, k)
  PROVE  SerialInv'
<1> USE NoneIsFresh
<1>1. LockInv'
  BY CallKeepsInv DEF Submit, SerialInv
<1>2. /\ stage[o] = "new" /\ stage' = [stage EXCEPT ![o] = "queued"]
      /\ root' = [root EXCEPT ![o] = IF tail = None THEN o ELSE root[tail]]
      /\ tail = None => \A p \in Op : ~Unfinished(p)
      /\ UNCHANGED <<phase, waiter, timers>>
  BY DEF Submit, Call, Enqueue, MapIsIntact
<1>3. tail # None => tail \in Op /\ Unfinished(tail)
  BY DEF SerialInv, LockInv, TailIsLast, LockTypeOK
<1>4. \A p \in Op : p # o => opPc'[p] = opPc[p]
  BY DEF Submit, GoTo, SerialInv, TypeInv
<1>5. ~Mid(o) /\ ~Mid(o)'
  BY <1>2 DEF Submit, GoTo, SerialInv, TypeInv, MidIsActive, Mid, MidPc, Kind
<1>6. OneChain'
  BY <1>2, <1>3 DEF OneChain, Unfinished, SerialInv, TypeInv, LockInv, LockTypeOK
<1>7. MidIsActive'
  BY <1>2, <1>4, <1>5 DEF MidIsActive, Mid, SerialInv, TypeInv
<1>8. (\A p \in Op : PhaseAt(p))' /\ PhaseAtRest'
  BY <1>2, <1>4, <1>5 DEF PhaseAt, PhaseAtRest, Mid, MidPc, SerialInv
<1>9. WaiterLinks'
  BY <1>2, <1>4, <1>5 DEF WaiterLinks, Mid, MidPc, SerialInv
<1> QED
  BY <1>1, <1>6, <1>7, <1>8, <1>9 DEF SerialInv

\* A step that leaves the engine alone: it lets an operation in, or is about keys.
LEMMA ElseKeepsSerial ==
  ASSUME SerialInv, UNCHANGED engineVars,
         \/ UNCHANGED lockVars
         \/ \E o \in Op : Begin(o) \/ Forget(o) \/ \E k \in Key : Join(o, k)
  PROVE  SerialInv'
<1>1. LockInv'
  BY BeginKeepsInv, ForgetKeepsInv, JoinKeepsInv, StutterKeepsInv DEF SerialInv
<1>2. /\ root' = root /\ stage' \in [Op -> Stage]
      /\ \A p \in Op : /\ Unfinished(p)' <=> Unfinished(p)
                       /\ stage[p] = "active" => stage'[p] = "active"
                       /\ stage'[p] = "new" => stage[p] = "new"
  BY DEF Begin, Forget, Join, lockVars, Unfinished, SerialInv, TypeInv, Stage
<1> QED
  BY <1>1, <1>2 DEF SerialInv, TypeInv, EngineTypeOK, AttemptsCounted, OneChain, MidIsActive,
                    Mid, PhaseAt, PhaseAtRest, WaiterLinks, engineVars

LEMMA SerialInit == EngineInit => SerialInv
<1> SUFFICES ASSUME EngineInit PROVE SerialInv
  OBVIOUS
<1>1. LockInv
  BY LockInitInv DEF EngineInit
<1> QED
  BY <1>1, AttemptsIsPositive, NoneIsFresh
     DEF EngineInit, LockInit, SerialInv, TypeInv, EngineTypeOK, AttemptsCounted, OneChain,
         MidIsActive, Mid, PhaseAt, PhaseAtRest, WaiterLinks, Unfinished, EntryPc, MidPc, Phase,
         Kind, Stage

LEMMA SerialStep ==
  ASSUME ~LateCalls, SerialInv, [Next]_vars
  PROVE  SerialInv'
<1>1. TypeInv'
  BY TypeStep DEF SerialInv
<1>2. ASSUME NEW o \in Op, NEW what \in Kind, NEW k \in Key \cup {None}, Submit(o, what, k)
      PROVE SerialInv'
  BY <1>1, <1>2, SubmitKeepsSerial
<1>3. ASSUME NEW o \in Op, Admit(o) \/ ProcessStep(o) PROVE SerialInv'
  BY <1>3, ElseKeepsSerial DEF Admit, ProcessStep
<1>9. ASSUME NEW o \in Op, Release(o) \/ \E k \in Key : Share(o, k) PROVE SerialInv'
  BY <1>9, ElseKeepsSerial DEF Release, Share
<1>4. ASSUME NEW o \in Op, OperationStep(o) PROVE SerialInv'
  BY <1>4, OperationKeepsSerial
<1>5. ASSUME NEW o \in Op, ReadyTimeout(o) PROVE SerialInv'
  BY <1>1, <1>5, DetectorKeepsSerial
<1>6. CASE ReadySignal
  BY <1>1, <1>6, DetectorKeepsSerial
<1>7. ASSUME NEW s \in PM!Slot, ChildExits(s) PROVE SerialInv'
  BY <1>7, ElseKeepsSerial DEF ChildExits
<1>8. CASE UNCHANGED vars
  BY <1>8, ElseKeepsSerial DEF vars
<1> QED
  BY <1>2, <1>3, <1>4, <1>5, <1>6, <1>7, <1>8, <1>9 DEF Next, KeysOf

\* WaiterIsOwn: where no call comes late, the operation at the ready wait is
\* the one whose waiter and timeout the detector has (StartReadyDetector).
THEOREM WaitersAreOwn == ASSUME ~LateCalls PROVE Spec => []WaiterIsOwn
<1>1. SerialInv => WaiterIsOwn
  BY NoneIsFresh DEF SerialInv, WaiterIsOwn, WaiterLinks
<1>2. SerialInv /\ [Next]_vars => SerialInv'
  BY SerialStep
<1> QED
  BY <1>1, <1>2, SerialInit, PTL DEF Spec

\* RunningFollowsStart: where no call comes late, RUNNING is entered only at
\* the end of a start (the comment in lifecycle-engine.test.ts).
THEOREM RunningOnlyFromStart == ASSUME ~LateCalls PROVE Spec => RunningFollowsStart
<1>1. ASSUME SerialInv, [Next]_vars
      PROVE  [phase' = "RUNNING" /\ phase # "RUNNING" => phase \in {"STARTING", "POST_START"}]_vars
  <2>1. ASSUME NEW o \in Op, OperationStep(o), phase' = "RUNNING", phase # "RUNNING"
        PROVE  phase = "POST_START"
    BY <1>1, <2>1 DEF OperationStep, IgnoreStart, BeginStart, ValidationFails, ValidationPasses,
         PreStartHookEnds, AwaitReady, StartThrew, RetryLater, Retry, TryStart, StartGivesUp,
         PostStartHookEnds, IgnoreStop, BeginStop, CallStop, PreStopHookEnds, ProcessStopped,
         PostStopHookEnds, StopDone, StopFails, StopGivesUp, RestartUnknown, BeginRestart,
         At, SerialInv, PhaseAt
  <2>2. CASE ReadySignal
    BY <2>2, WaiterWaits, <1>1 DEF ReadySignal
  <2>3. CASE \/ \E o \in Op : \/ \E what \in Kind, k \in Key \cup {None} : Submit(o, what, k)
                              \/ \E k \in Key : Share(o, k)
                              \/ Admit(o) \/ Release(o) \/ ProcessStep(o) \/ ReadyTimeout(o)
             \/ \E s \in PM!Slot : ChildExits(s)
             \/ UNCHANGED vars
    <3>1. phase' = phase
      BY <2>3 DEF Submit, Share, Admit, Release, ProcessStep, ReadyTimeout, ChildExits, engineVars, vars
    <3> QED  BY <3>1
  <2> QED
    BY <1>1, <2>1, <2>2, <2>3 DEF Next, KeysOf
<1>2. SerialInv /\ [Next]_vars => SerialInv'
  BY SerialStep
<1> QED
  BY <1>1, <1>2, SerialInit, PTL DEF Spec, RunningFollowsStart

(***************************************************************************)
(* Children, where a killed one is gone before the wait for it ends.       *)
(***************************************************************************)
NoLive == \A s \in PM!Slot : life[s] # "live"

LiveIsRunning == \A s \in PM!Slot : life[s] = "live" => state[s] = "RUNNING"

\* No stop has acted on the child of the current start, if it has one: when it
\* exits, that is a crash.
Unasked ==
  /\ current # 0 /\ current \notin asked
  /\ LiveIsRunning
  /\ life[current] = "gone" => current \in crashed

\* The parts of the process manager's state that concern children.
ProcTypes ==
  /\ starts \in 0..MaxStarts /\ current \in 0..starts
  /\ state \in [PM!Slot -> PM!ServerState]
  /\ process \in [PM!Slot -> 0..MaxStarts]
  /\ life \in [PM!Slot -> {"none", "live", "failed", "gone"}]
  /\ killed \in [PM!Slot -> BOOLEAN]
  /\ callPc \in [Op -> {"idle", "window"} \cup PM!StopPc]
  /\ target \in [Op -> 0..MaxStarts]
  /\ result \in [Op -> {"none", "ok", "threw"}]

\* Slots beyond starts have no child, and nothing refers to a child that was
\* not spawned.
ChildrenKnown ==
  /\ \A s \in PM!Slot : /\ s > starts => life[s] = "none"
                        /\ process[s] # 0 => life[process[s]] # "none"
  /\ asked \subseteq {s \in PM!Slot : life[s] # "none"}

\* Only the child of the current object can be live.
LiveIsCurrent ==
  \A s \in PM!Slot :
    life[s] = "live" => s = current /\ process[s] = s /\ state[s] \in {"RUNNING", "STOPPING"}

\* The process manager's call the operation o has made.
CallAt(o) ==
  /\ callPc[o] # "idle" => opPc[o] \in {"starting", "cleanUp", "stopping", "stopCleanUp"}
  /\ callPc[o] = "window" => /\ opPc[o] = "starting"
                             /\ target[o] = current /\ current # 0 /\ life[current] = "none"
                             /\ NoLive
  /\ callPc[o] \in PM!StopPc => opPc[o] # "starting"
  /\ callPc[o] \in {"queuedStop", "queuedForce"} => LiveIsRunning
  /\ callPc[o] \in PM!WaitPc => target[o] = current /\ current # 0
  /\ callPc[o] \in {"waitForce", "waitKill"} => \A s \in PM!Slot : life[s] = "live" => killed[s]
  /\ callPc[o] = "waitJoin" => NoLive

\* The child while the operation o is in its middle.
ChildAt(o) ==
  /\ opPc[o] \in {"validating", "preStart", "retryDelay", "postStop"} => NoLive
  /\ opPc[o] \in {"cleanUp", "stopping", "stopCleanUp"} /\ CallReturned(o) => NoLive
  /\ opPc[o] = "starting" /\ CallReturned(o) => IF result[o] = "ok" THEN Unasked ELSE NoLive
  /\ opPc[o] \in {"ready", "postStart"} => Unasked
  /\ opPc[o] = "postStart" => HasSpoken
  /\ opPc[o] = "preStop" => LiveIsRunning

\* The child while no operation is.
ChildAtRest ==
  (\A o \in Op : ~Mid(o)) => IF phase = "RUNNING" THEN Unasked /\ HasSpoken ELSE NoLive

ChildInv ==
  /\ SerialInv /\ ProcTypes
  /\ ChildrenKnown /\ LiveIsCurrent
  /\ \A o \in Op : CallAt(o) /\ ChildAt(o)
  /\ ChildAtRest

\* A step of one active operation keeps the invariant if it leaves the others'
\* counters alone, and what it leaves fits where it leads.
LEMMA MoveKeepsChildren ==
  ASSUME ChildInv, SerialInv', NEW o \in Op, stage[o] = "active",
         \A p \in Op : p # o => opPc'[p] = opPc[p] /\ callPc'[p] = callPc[p],
         ProcTypes', ChildrenKnown', LiveIsCurrent', CallAt(o)', ChildAt(o)',
         ~Mid(o)' => IF phase' = "RUNNING" THEN Unasked' /\ HasSpoken' ELSE NoLive'
  PROVE  ChildInv'
<1>1. \A p \in Op : p # o => ~Mid(p)
  BY OthersRest DEF ChildInv
<1>2. \A p \in Op : p # o => callPc[p] = "idle"
  BY <1>1 DEF ChildInv, CallAt, Mid, MidPc
<1>3. ASSUME NEW p \in Op, p # o PROVE CallAt(p)' /\ ChildAt(p)'
  BY <1>1, <1>2, <1>3 DEF CallAt, ChildAt, Mid, MidPc, PM!StopPc, PM!WaitPc
<1>4. ChildAtRest'
  BY DEF ChildAtRest, Mid
<1> QED
  BY <1>3, <1>4 DEF ChildInv

\* What a step that leaves the process manager alone leaves true.
LEMMA ProcessStays ==
  ASSUME ChildInv, UNCHANGED processVars
  PROVE  /\ ProcTypes' /\ ChildrenKnown' /\ LiveIsCurrent'
         /\ NoLive => NoLive'
         /\ Unasked => Unasked'
         /\ HasSpoken => HasSpoken'
         /\ LiveIsRunning => LiveIsRunning'
         /\ callPc' = callPc
BY DEF ChildInv, processVars, ProcTypes, ChildrenKnown, LiveIsCurrent, NoLive, Unasked,
       HasSpoken, LiveIsRunning

\* What must hold of the child where an operation goes to pc without a call.
Fits(pc, ph) ==
  /\ pc # "starting"
  /\ pc \in {"validating", "preStart", "retryDelay", "postStop", "cleanUp", "stopping",
            "stopCleanUp"} => NoLive
  /\ pc \in {"ready", "postStart"} => Unasked
  /\ pc = "postStart" => HasSpoken
  /\ pc = "preStop" => LiveIsRunning
  /\ pc \notin MidPc => IF ph = "RUNNING" THEN Unasked /\ HasSpoken ELSE NoLive

\* An operation that moves on without the process manager keeps the invariant.
LEMMA QuietMove ==
  ASSUME ChildInv, SerialInv', UNCHANGED processVars,
         NEW o \in Op, stage[o] = "active", CallReturned(o),
         NEW pc \in {"ended"} \cup EntryPc \cup MidPc, GoTo(o, pc), Fits(pc, phase')
  PROVE  ChildInv'
<1>1. /\ \A p \in Op : p # o => opPc'[p] = opPc[p]
      /\ opPc'[o] = pc
  BY DEF ChildInv, SerialInv, TypeInv, GoTo
<1>2. CallAt(o)'
  BY <1>1, ProcessStays DEF CallAt, CallReturned, PM!StopPc, PM!WaitPc
<1>3. ChildAt(o)'
  BY <1>1, ProcessStays DEF ChildAt, Fits
<1>4. ~Mid(o)' => IF phase' = "RUNNING" THEN Unasked' /\ HasSpoken' ELSE NoLive'
  BY <1>1, ProcessStays DEF Mid, Fits
<1> QED
  BY <1>1, <1>2, <1>3, <1>4, ProcessStays, MoveKeepsChildren

\* The active operation has no call under way outside the four places where
\* it waits for one.
LEMMA ActiveChild ==
  ASSUME ChildInv, NEW o \in Op, stage[o] = "active"
  PROVE  /\ CallAt(o) /\ ChildAt(o) /\ PhaseAt(o)
         /\ opPc[o] \notin {"starting", "cleanUp", "stopping", "stopCleanUp"} => CallReturned(o)
         /\ ~Mid(o) => /\ phase \in {"none", "RUNNING", "STOPPED", "FAILED"}
                       /\ IF phase = "RUNNING" THEN Unasked /\ HasSpoken ELSE NoLive
<1>1. \A p \in Op : p # o => ~Mid(p)
  BY OthersRest DEF ChildInv
<1> QED
  BY <1>1 DEF ChildInv, SerialInv, PhaseAtRest, ChildAtRest, CallAt, CallReturned

\* The steps of an operation that call nothing of the process manager.
QuietStep(o) ==
  \/ IgnoreStart(o) \/ BeginStart(o) \/ ValidationFails(o)
  \/ ValidationPasses(o) /\ "preStart" \in Hooks
  \/ AwaitReady(o) \/ RetryLater(o) \/ StartGivesUp(o) \/ PostStartHookEnds(o)
  \/ IgnoreStop(o)
  \/ BeginStop(o) /\ "preStop" \in Hooks
  \/ ProcessStopped(o) \/ PostStopHookEnds(o) \/ StopGivesUp(o)
  \/ RestartUnknown(o) \/ BeginRestart(o)

LEMMA QuietStepKeepsChildren ==
  ASSUME ChildInv, SerialInv', NEW o \in Op, stage[o] = "active", QuietStep(o)
  PROVE  ChildInv'
<1> DEFINE Leads(pc) == GoTo(o, pc) /\ Fits(pc, phase') /\ UNCHANGED processVars /\ CallReturned(o)
<1> USE DEF At, End, PhaseAt, Fits, EntryPc, MidPc, Mid
<1>1. CASE IgnoreStart(o) \/ BeginStart(o) \/ ValidationFails(o)
  <2>1. \E pc \in {"ended", "validating"} : Leads(pc)
    BY <1>1, ActiveChild DEF IgnoreStart, BeginStart, StartIgnored, ValidationFails, ChildAt
  <2> QED  BY <2>1, QuietMove
<1>2. CASE ValidationPasses(o) /\ "preStart" \in Hooks
  <2>1. Leads("preStart")
    BY <1>2, ActiveChild DEF ValidationPasses, ChildAt
  <2> QED  BY <2>1, QuietMove
<1>3. CASE AwaitReady(o) \/ RetryLater(o)
  <2>1. \E pc \in {"ready", "retryDelay"} : Leads(pc)
    BY <1>3, ActiveChild DEF AwaitReady, RetryLater, ChildAt
  <2> QED  BY <2>1, QuietMove
<1>4. CASE StartGivesUp(o) \/ PostStartHookEnds(o)
  <2>1. Leads("ended")
    BY <1>4, ActiveChild DEF StartGivesUp, PostStartHookEnds, ChildAt
  <2> QED  BY <2>1, QuietMove
<1>5. CASE IgnoreStop(o) \/ (BeginStop(o) /\ "preStop" \in Hooks)
  <2>1. \E pc \in {"ended", "preStop"} : Leads(pc)
    BY <1>5, ActiveChild DEF IgnoreStop, StopIsNoOp, BeginStop, Unasked, NoLive, LiveIsRunning
  <2> QED  BY <2>1, QuietMove
<1>6. CASE ProcessStopped(o) \/ PostStopHookEnds(o)
  <2>1. \E pc \in {"ended", "postStop", "startUnsafe"} : Leads(pc)
    BY <1>6, ActiveChild DEF ProcessStopped, PostStopHookEnds, StopDone, ChildAt
  <2> QED  BY <2>1, QuietMove
<1>7. CASE StopGivesUp(o) \/ RestartUnknown(o) \/ BeginRestart(o)
  <2>1. \E pc \in {"ended", "startUnsafe", "stopUnsafe"} : Leads(pc)
    BY <1>7, ActiveChild DEF StopGivesUp, RestartUnknown, BeginRestart, ChildAt
  <2> QED  BY <2>1, QuietMove
<1> QED
  BY <1>1, <1>2, <1>3, <1>4, <1>5, <1>6, <1>7 DEF QuietStep

\* processManager.start, up to its first await: where no child is live, the
\* new slot's is the next, and a refused call leaves none either.
LEMMA TryStartKeepsChildren ==
  ASSUME ChildInv, SerialInv', NEW o \in Op, stage[o] = "active", CallReturned(o),
         NoLive, TryStart(o)
  PROVE  ChildInv'
<1> USE DEF ChildInv, ProcTypes
<1>1. /\ \A p \in Op : p # o => opPc'[p] = opPc[p]
      /\ opPc'[o] = "starting"
  BY DEF TryStart, GoTo, SerialInv, TypeInv
<1>2. Mid(o)'
  BY <1>1 DEF Mid, MidPc
<1>3. CASE \E valid \in BOOLEAN : PM!StartRefused(o, valid)
  <2>1. /\ \A p \in Op : p # o => callPc'[p] = callPc[p]
        /\ callPc'[o] = "idle" /\ result'[o] = "threw"
        /\ UNCHANGED <<current, starts, state, process, life, killed, asked, crashed>>
    BY <1>3 DEF PM!StartRefused, PM!Return, PM!objectVars, PM!childVars
  <2>2. ProcTypes' /\ ChildrenKnown' /\ LiveIsCurrent' /\ NoLive'
    BY <1>3, <2>1, StartsAreBounded
       DEF PM!StartRefused, PM!Return, ChildrenKnown, LiveIsCurrent, NoLive
  <2>3. CallAt(o)' /\ ChildAt(o)'
    BY <1>1, <2>1, <2>2 DEF CallAt, ChildAt, CallReturned, PM!StopPc, PM!WaitPc
  <2> QED
    BY <1>1, <1>2, <2>1, <2>2, <2>3, MoveKeepsChildren
<1>4. CASE PM!StartAccepted(o)
  <2>1. /\ starts < MaxStarts /\ starts' = starts + 1 /\ current' = starts + 1
        /\ starts + 1 \in PM!Slot
        /\ UNCHANGED <<life, killed, asked, crashed>>
    BY <1>4, StartsAreBounded DEF PM!StartAccepted, PM!childVars, PM!Slot
  <2>2. NoLive'
    BY <2>1 DEF NoLive
  <2>3. /\ process' \in [PM!Slot -> 0..MaxStarts]
        /\ \A s \in PM!Slot : process'[s] # 0 => \E r \in PM!Slot : process'[s] = process[r]
    <3>1. current # 0 => current \in PM!Slot
      BY StartsAreBounded DEF PM!Slot
    <3>2. PM!RecoveredProcess(current) \in {0, process[current]}
      BY DEF PM!RecoveredProcess
    <3>3. \E v \in {0} \cup {process[r] : r \in PM!Slot} :
            process' = [s \in PM!Slot |-> IF s \in {current, starts + 1} THEN v ELSE process[s]]
      BY <1>4, <3>1, <3>2 DEF PM!StartAccepted
    <3> QED  BY <3>3, StartsAreBounded
  <2>4. state' \in [PM!Slot -> PM!ServerState]
    <3>1. current # 0 => current \in PM!Slot
      BY StartsAreBounded DEF PM!Slot
    <3>2. current # 0 => PM!RecoveredState(current) \in PM!ServerState
      BY <3>1 DEF PM!RecoveredState, PM!ServerState
    <3>3. state' = [s \in PM!Slot |-> IF s = starts + 1 THEN "STARTING"
                      ELSE IF s = current THEN PM!RecoveredState(s) ELSE state[s]]
      BY <1>4 DEF PM!StartAccepted
    <3> QED  BY <3>2, <3>3, StartsAreBounded DEF PM!ServerState, PM!Slot
  <2>5. /\ callPc' \in [Op -> {"idle", "window"} \cup PM!StopPc]
        /\ target' \in [Op -> 0..MaxStarts]
        /\ result' \in [Op -> {"none", "ok", "threw"}]
        /\ \A p \in Op : p # o => callPc'[p] = callPc[p]
        /\ \/ callPc'[o] = "window" /\ target'[o] = current'
           \/ callPc'[o] = "idle" /\ result'[o] = "threw"
    <3>1. \/ /\ callPc' = [callPc EXCEPT ![o] = "window"]
             /\ target' = [target EXCEPT ![o] = starts + 1]
             /\ result' = [result EXCEPT ![o] = "none"]
          \/ PM!Return(o, "threw")
      BY <1>4 DEF PM!StartAccepted
    <3> QED  BY <2>1, <3>1, StartsAreBounded DEF PM!Return
  <2>6. ProcTypes'
    BY <2>1, <2>3, <2>4, <2>5, StartsAreBounded
  <2>7. ChildrenKnown'
    BY <2>1, <2>3 DEF ChildrenKnown, PM!Slot
  <2>8. life[starts + 1] = "none" /\ starts + 1 # 0
    BY <2>1, StartsAreBounded DEF ChildrenKnown
  <2>9. CallAt(o)' /\ ChildAt(o)' /\ LiveIsCurrent'
    BY <1>1, <2>1, <2>2, <2>5, <2>8
       DEF CallAt, ChildAt, CallReturned, LiveIsCurrent, NoLive, PM!StopPc, PM!WaitPc
  <2> QED
    BY <1>1, <1>2, <2>5, <2>6, <2>7, <2>9, MoveKeepsChildren
<1> QED
  BY <1>3, <1>4 DEF TryStart, CallStart

\* processManager.stop, which only queues the call.
LEMMA CallStopKeepsChildren ==
  ASSUME ChildInv, SerialInv', NEW o \in Op, stage[o] = "active", CallReturned(o),
         LiveIsRunning, NEW force \in BOOLEAN, PM!StopCall(o, force),
         NEW pc \in {"cleanUp", "stopping"}, GoTo(o, pc)
  PROVE  ChildInv'
<1> USE DEF ChildInv, ProcTypes
<1>1. /\ \A p \in Op : p # o => opPc'[p] = opPc[p] /\ callPc'[p] = callPc[p]
      /\ opPc'[o] = pc /\ callPc'[o] \in {"queuedStop", "queuedForce"}
      /\ UNCHANGED <<current, starts, state, process, life, killed, asked, crashed>>
  BY DEF PM!StopCall, GoTo, SerialInv, TypeInv, PM!objectVars, PM!childVars
<1>2. ProcTypes' /\ ChildrenKnown' /\ LiveIsCurrent' /\ LiveIsRunning'
  BY <1>1 DEF PM!StopCall, PM!StopPc, ChildrenKnown, LiveIsCurrent, LiveIsRunning
<1>3. CallAt(o)' /\ ChildAt(o)' /\ Mid(o)'
  BY <1>1, <1>2 DEF CallAt, ChildAt, CallReturned, Mid, MidPc, PM!WaitPc
<1> QED
  BY <1>1, <1>2, <1>3, MoveKeepsChildren

\* The last wait of a stop times out only where no child is live: a live one
\* would have been killed, and then the wait ends otherwise.
LEMMA GivesUpOnNone ==
  ASSUME ChildInv, NEW o \in Op, NEW again \in BOOLEAN, PM!WaitGivesUp(o, again)
  PROVE  /\ NoLive /\ NoLive' /\ ProcTypes' /\ ChildrenKnown' /\ LiveIsCurrent'
         /\ opPc[o] # "starting" /\ Mid(o)
         /\ \A p \in Op : p # o => callPc'[p] = callPc[p]
         /\ callPc'[o] = IF again THEN "queuedForce" ELSE "idle"
         /\ ~again => result'[o] = "threw"
<1> USE DEF ChildInv, ProcTypes
<1>1. CallAt(o) /\ callPc[o] \in {"waitForce", "waitKill", "waitJoin"}
  BY DEF PM!WaitGivesUp
<1>2. target[o] = current /\ current # 0 /\ opPc[o] \in {"cleanUp", "stopping", "stopCleanUp"}
  BY <1>1 DEF CallAt, PM!WaitPc, PM!StopPc
<1>3. NoLive
  BY <1>1, <1>2 DEF CallAt, NoLive, LiveIsCurrent, PM!WaitGivesUp
<1>4. /\ UNCHANGED <<current, starts, process, life, killed, asked, crashed>>
      /\ state' \in [PM!Slot -> PM!ServerState]
  BY DEF PM!WaitGivesUp, PM!childVars, PM!ServerState
<1>5. /\ callPc' \in [Op -> {"idle", "window"} \cup PM!StopPc]
      /\ target' \in [Op -> 0..MaxStarts]
      /\ result' \in [Op -> {"none", "ok", "threw"}]
      /\ \A p \in Op : p # o => callPc'[p] = callPc[p]
      /\ callPc'[o] = IF again THEN "queuedForce" ELSE "idle"
      /\ ~again => result'[o] = "threw"
  <2>1. CASE again
    <3>1. PM!StopAgain(o)
      BY <2>1 DEF PM!WaitGivesUp
    <3> QED  BY <2>1, <3>1, StartsAreBounded DEF PM!StopAgain, PM!StopPc
  <2>2. CASE ~again
    <3>1. PM!Return(o, "threw")
      BY <2>2 DEF PM!WaitGivesUp, PM!StopSettles
    <3> QED  BY <2>2, <3>1, StartsAreBounded DEF PM!Return
  <2> QED  BY <2>1, <2>2
<1> QED
  BY <1>2, <1>3, <1>4, <1>5 DEF NoLive, ChildrenKnown, LiveIsCurrent, Mid, MidPc

LEMMA StopFailsKeepsChildren ==
  ASSUME ChildInv, SerialInv', NEW o \in Op, stage[o] = "active", StopFails(o)
  PROVE  ChildInv'
<1>1. PM!WaitGivesUp(o, TRUE)
  BY DEF StopFails
<1>2. /\ \A p \in Op : p # o => opPc'[p] = opPc[p]
      /\ opPc'[o] = "stopCleanUp"
  BY DEF StopFails, GoTo, ChildInv, SerialInv, TypeInv
<1>3. CallAt(o)' /\ ChildAt(o)' /\ Mid(o)'
  BY <1>1, <1>2, GivesUpOnNone
     DEF CallAt, ChildAt, CallReturned, NoLive, LiveIsRunning, Mid, MidPc, PM!WaitPc
<1> QED
  BY <1>1, <1>2, <1>3, GivesUpOnNone, MoveKeepsChildren

\* Every step of an operation keeps the invariant.
LEMMA OperationKeepsChildren ==
  ASSUME ChildInv, SerialInv', NEW o \in Op, OperationStep(o)
  PROVE  ChildInv'
<1>1. stage[o] = "active"
  BY OperationMoves DEF ChildInv
<1>2. CASE QuietStep(o)
  BY <1>1, <1>2, QuietStepKeepsChildren
<1>3. CASE \/ ValidationPasses(o) /\ "preStart" \notin Hooks
           \/ PreStartHookEnds(o) \/ Retry(o)
  <2>1. TryStart(o) /\ NoLive /\ CallReturned(o)
    BY <1>1, <1>3, ActiveChild DEF ValidationPasses, PreStartHookEnds, Retry, At, ChildAt
  <2> QED  BY <1>1, <2>1, TryStartKeepsChildren
<1>4. CASE StartThrew(o)
  <2>1. PM!StopCall(o, TRUE) /\ GoTo(o, "cleanUp") /\ LiveIsRunning /\ CallReturned(o)
    BY <1>1, <1>4, ActiveChild DEF StartThrew, CleanUp, At, ChildAt, NoLive, LiveIsRunning
  <2> QED  BY <1>1, <2>1, CallStopKeepsChildren
<1>5. CASE (BeginStop(o) /\ "preStop" \notin Hooks) \/ PreStopHookEnds(o)
  <2>1. LiveIsRunning /\ CallReturned(o)
    BY <1>1, <1>5, ActiveChild DEF BeginStop, PreStopHookEnds, At, ChildAt, Mid, MidPc,
         Unasked, NoLive, LiveIsRunning
  <2>2. PM!StopCall(o, kind[o] = "forceStop") /\ GoTo(o, "stopping")
    BY <1>5 DEF BeginStop, PreStopHookEnds, CallStop
  <2> QED  BY <1>1, <2>1, <2>2, CallStopKeepsChildren
<1>6. CASE StopFails(o)
  BY <1>1, <1>6, StopFailsKeepsChildren
<1>7. CASE ValidationPasses(o) \/ BeginStop(o)
  BY <1>2, <1>3, <1>5, <1>7 DEF QuietStep
<1> QED
  BY <1>2, <1>3, <1>4, <1>5, <1>6, <1>7 DEF OperationStep, QuietStep

(***************************************************************************)
(* The steps of the process manager's calls, of children and of the rest.  *)
(***************************************************************************)

\* Only the active operation has a call under way.
LEMMA CallersActive ==
  ASSUME ChildInv, NEW o \in Op, callPc[o] # "idle"
  PROVE  stage[o] = "active" /\ Mid(o) /\ CallAt(o)
BY DEF ChildInv, SerialInv, MidIsActive, CallAt, Mid, MidPc

\* A step of a call keeps the invariant if its program counter, the objects
\* and the children it leaves fit.
LEMMA CallMoveKeepsChildren ==
  ASSUME ChildInv, SerialInv', NEW o \in Op, callPc[o] # "idle", opPc' = opPc,
         \A p \in Op : p # o => callPc'[p] = callPc[p],
         ProcTypes', ChildrenKnown', LiveIsCurrent', CallAt(o)', ChildAt(o)'
  PROVE  ChildInv'
<1>1. Mid(o)'
  BY CallersActive DEF Mid
<1> QED
  BY <1>1, CallersActive, MoveKeepsChildren

\* The spawn of the current start's child: it throws, works or fails.
LEMMA SpawnKeepsChildren ==
  ASSUME ChildInv, SerialInv', NEW o \in Op, opPc' = opPc,
         PM!SpawnThrows(o) \/ PM!SpawnSucceeds(o) \/ PM!SpawnFails(o)
  PROVE  ChildInv'
<1> USE DEF ChildInv, ProcTypes
<1>1. callPc[o] = "window"
  BY DEF PM!SpawnThrows, PM!SpawnSucceeds, PM!SpawnFails, PM!CanAct
<1>2. /\ target[o] = current /\ current \in PM!Slot /\ life[current] = "none" /\ NoLive
      /\ opPc[o] = "starting"
  BY <1>1, StartsAreBounded DEF CallAt, PM!Slot
<1>3. /\ callPc' \in [Op -> {"idle", "window"} \cup PM!StopPc]
      /\ target' \in [Op -> 0..MaxStarts]
      /\ result' \in [Op -> {"none", "ok", "threw"}]
      /\ \A p \in Op : p # o => callPc'[p] = callPc[p]
      /\ callPc'[o] = "idle"
      /\ result'[o] = IF PM!SpawnThrows(o) THEN "threw" ELSE "ok"
  <2>1. CASE PM!SpawnThrows(o)
    <3>1. PM!Return(o, "threw")
      BY <2>1 DEF PM!SpawnThrows
    <3> QED  BY <2>1, <3>1, StartsAreBounded DEF PM!Return
  <2>2. CASE ~PM!SpawnThrows(o)
    <3>1. PM!Return(o, "ok")
      BY <2>2 DEF PM!SpawnSucceeds, PM!SpawnFails
    <3> QED  BY <2>2, <3>1, StartsAreBounded DEF PM!Return
  <2> QED  BY <2>1, <2>2
<1>4. CASE PM!SpawnThrows(o)
  <2>1. /\ UNCHANGED <<current, starts, process, life, killed, asked, crashed>>
        /\ state' = [state EXCEPT ![current] = "STOPPED"]
    BY <1>2, <1>4 DEF PM!SpawnThrows, PM!childVars
  <2>2. ProcTypes' /\ ChildrenKnown' /\ LiveIsCurrent' /\ NoLive'
    BY <1>2, <1>3, <2>1 DEF ChildrenKnown, LiveIsCurrent, NoLive, PM!ServerState
  <2>3. CallAt(o)' /\ ChildAt(o)'
    BY <1>2, <1>3, <1>4, <2>2 DEF CallAt, ChildAt, CallReturned, PM!StopPc, PM!WaitPc
  <2> QED
    BY <1>1, <1>3, <2>2, <2>3, CallMoveKeepsChildren
<1>5. ASSUME NEW st \in PM!ServerState, NEW lf \in {"live", "failed"},
             lf = "live" => st = "RUNNING",
             process' = [process EXCEPT ![current] = current],
             life' = [life EXCEPT ![current] = lf],
             state' = [state EXCEPT ![current] = st],
             UNCHANGED <<current, starts, killed, asked, crashed>>, ~PM!SpawnThrows(o)
      PROVE  ChildInv'
  <2>1. ProcTypes'
    BY <1>2, <1>3, <1>5
  <2>2. ChildrenKnown' /\ LiveIsCurrent' /\ Unasked'
    BY <1>2, <1>5, StartsAreBounded
       DEF ChildrenKnown, LiveIsCurrent, Unasked, LiveIsRunning, NoLive, PM!Slot
  <2>3. CallAt(o)' /\ ChildAt(o)'
    BY <1>2, <1>3, <1>5, <2>2 DEF CallAt, ChildAt, CallReturned, PM!StopPc, PM!WaitPc
  <2> QED
    BY <1>1, <1>3, <2>1, <2>2, <2>3, CallMoveKeepsChildren
<1>6. CASE ~PM!SpawnThrows(o)
  BY <1>2, <1>5, <1>6 DEF PM!SpawnSucceeds, PM!SpawnFails, PM!ServerState
<1> QED
  BY <1>4, <1>6

\* A call of processManager.stop that settles does so where no child is live.
LEMMA SettleKeepsChildren ==
  ASSUME ChildInv, SerialInv', NEW o \in Op, opPc' = opPc, callPc[o] \in PM!StopPc,
         NEW outcome \in {"ok", "threw"}, PM!StopSettles(o, outcome),
         NoLive, UNCHANGED <<current, starts, process, life, killed, asked, crashed>>,
         state' \in [PM!Slot -> PM!ServerState]
  PROVE  ChildInv'
<1> USE DEF ChildInv, ProcTypes
<1>1. PM!Return(o, outcome)
  BY DEF PM!StopSettles
<1>2. /\ callPc' \in [Op -> {"idle", "window"} \cup PM!StopPc]
      /\ target' \in [Op -> 0..MaxStarts]
      /\ result' \in [Op -> {"none", "ok", "threw"}]
      /\ \A p \in Op : p # o => callPc'[p] = callPc[p]
      /\ callPc'[o] = "idle"
  BY <1>1, StartsAreBounded DEF PM!Return
<1>3. callPc[o] # "idle" /\ opPc[o] \in {"cleanUp", "stopping", "stopCleanUp"}
  BY DEF CallAt, PM!StopPc, PM!WaitPc
<1>4. ProcTypes' /\ ChildrenKnown' /\ LiveIsCurrent' /\ NoLive'
  BY <1>2 DEF ChildrenKnown, LiveIsCurrent, NoLive
<1>5. CallAt(o)' /\ ChildAt(o)'
  BY <1>2, <1>3, <1>4 DEF CallAt, ChildAt, PM!StopPc, PM!WaitPc
<1> QED
  BY <1>2, <1>3, <1>4, <1>5, CallMoveKeepsChildren

\* A stop finds nothing to stop, or only to wait for.
LEMMA StopFindsKeepsChildren ==
  ASSUME ChildInv, SerialInv', NEW o \in Op, opPc' = opPc,
         PM!StopNothing(o) \/ PM!StopWithoutProcess(o) \/ PM!StopJoins(o)
  PROVE  ChildInv'
<1> USE DEF ChildInv, ProcTypes
<1>1. callPc[o] \in {"queuedStop", "queuedForce"} /\ LiveIsRunning
  BY DEF PM!StopNothing, PM!StopWithoutProcess, PM!StopJoins, CallAt
<1>2. NoLive
  BY <1>1 DEF PM!StopNothing, PM!StopWithoutProcess, PM!StopJoins, LiveIsCurrent,
              LiveIsRunning, NoLive, PM!Slot
<1>3. CASE PM!StopNothing(o)
  BY <1>1, <1>2, <1>3, SettleKeepsChildren
     DEF PM!StopNothing, PM!objectVars, PM!childVars, PM!StopPc
<1>4. CASE PM!StopWithoutProcess(o)
  <2>1. /\ PM!StopSettles(o, "ok")
        /\ UNCHANGED <<current, starts, process, life, killed, asked, crashed>>
        /\ state' \in [PM!Slot -> PM!ServerState]
    BY <1>4 DEF PM!StopWithoutProcess, PM!childVars, PM!ServerState
  <2> QED  BY <1>1, <1>2, <2>1, SettleKeepsChildren DEF PM!StopPc
<1>5. CASE PM!StopJoins(o)
  <2>1. /\ callPc' = [callPc EXCEPT ![o] = "waitJoin"]
        /\ target' = [target EXCEPT ![o] = current] /\ current # 0
        /\ UNCHANGED <<current, starts, state, process, life, killed, asked, crashed, result>>
    BY <1>5 DEF PM!StopJoins, PM!objectVars, PM!childVars
  <2>2. ProcTypes' /\ ChildrenKnown' /\ LiveIsCurrent' /\ NoLive'
    BY <1>2, <2>1, StartsAreBounded DEF ChildrenKnown, LiveIsCurrent, NoLive, PM!StopPc, PM!WaitPc
  <2>3. opPc[o] \in {"cleanUp", "stopping", "stopCleanUp"}
    BY <1>1 DEF CallAt, PM!StopPc
  <2>4. CallAt(o)' /\ ChildAt(o)'
    BY <2>1, <2>2, <2>3 DEF CallAt, ChildAt, CallReturned, PM!StopPc, PM!WaitPc
  <2> QED
    BY <1>1, <2>1, <2>2, <2>4, CallMoveKeepsChildren
<1> QED
  BY <1>3, <1>4, <1>5

\* A stop acts on the child; when it is forced, a live child is killed.
LEMMA StopBeginsKeepsChildren ==
  ASSUME ChildInv, SerialInv', NEW o \in Op, opPc' = opPc,
         NEW writable \in BOOLEAN, PM!StopBegins(o, writable)
  PROVE  ChildInv'
<1> USE DEF ChildInv, ProcTypes
<1>1. /\ callPc[o] \in {"queuedStop", "queuedForce"} /\ current \in PM!Slot
      /\ process[current] \in PM!Slot
      /\ opPc[o] \in {"cleanUp", "stopping", "stopCleanUp"}
  BY StartsAreBounded DEF PM!StopBegins, CallAt, PM!StopPc, PM!Slot
<1>2. /\ callPc' = [callPc EXCEPT ![o] = IF @ = "queuedForce" THEN "waitForce" ELSE "waitStop"]
      /\ target' = [target EXCEPT ![o] = current]
      /\ state' = [state EXCEPT ![current] = "STOPPING"]
      /\ asked' = asked \cup {process[current]}
      /\ killed' \in {killed, [killed EXCEPT ![process[current]] = TRUE]}
      /\ callPc[o] = "queuedForce" /\ life[process[current]] = "live" => killed'[process[current]]
      /\ UNCHANGED <<current, starts, process, life, crashed, result>>
  BY <1>1 DEF PM!StopBegins, PM!KilledBySignal
<1>3. ProcTypes'
  <2>1. callPc' \in [Op -> {"idle", "window"} \cup PM!StopPc]
    BY <1>2 DEF PM!StopPc, PM!WaitPc
  <2>2. killed' \in [PM!Slot -> BOOLEAN]
    BY <1>1, <1>2
  <2>3. state' \in [PM!Slot -> PM!ServerState] /\ target' \in [Op -> 0..MaxStarts]
    BY <1>1, <1>2, StartsAreBounded DEF PM!ServerState
  <2> QED  BY <1>2, <2>1, <2>2, <2>3
<1>4. ChildrenKnown' /\ LiveIsCurrent'
  <2>1. life[process[current]] # "none" /\ current # 0
    BY <1>1, StartsAreBounded DEF ChildrenKnown, PM!Slot
  <2>2. ChildrenKnown'
    BY <1>1, <1>2, <2>1 DEF ChildrenKnown
  <2>3. LiveIsCurrent'
    BY <1>1, <1>2 DEF LiveIsCurrent
  <2> QED  BY <2>2, <2>3
<1>5. callPc[o] = "queuedForce" => \A s \in PM!Slot : life'[s] = "live" => killed'[s]
  BY <1>1, <1>2 DEF LiveIsCurrent
<1>6. CallAt(o)' /\ ChildAt(o)'
  BY <1>1, <1>2, <1>5, StartsAreBounded
     DEF CallAt, ChildAt, CallReturned, PM!StopPc, PM!WaitPc, PM!Slot
<1> QED
  BY <1>1, <1>2, <1>3, <1>4, <1>6, CallMoveKeepsChildren

\* A wait of a stop ends, or the child is killed and the wait begins anew.
LEMMA WaitKeepsChildren ==
  ASSUME PromptKill, ChildInv, SerialInv', NEW o \in Op, opPc' = opPc,
         \/ PM!WaitEnds(o) \/ PM!WaitTrustsKill(o) \/ PM!WaitEscalates(o)
         \/ PM!WaitGivesUp(o, FALSE)
  PROVE  ChildInv'
<1> USE DEF ChildInv, ProcTypes
<1>1. callPc[o] \in PM!WaitPc
  BY DEF PM!WaitEnds, PM!WaitTrustsKill, PM!WaitEscalates, PM!WaitGivesUp, PM!CanAct, PM!WaitPc
<1>2. /\ target[o] = current /\ current \in PM!Slot
      /\ opPc[o] \in {"cleanUp", "stopping", "stopCleanUp"} /\ callPc[o] \in PM!StopPc
  BY <1>1, StartsAreBounded DEF CallAt, PM!WaitPc, PM!StopPc, PM!Slot
<1>3. CASE PM!WaitEnds(o) \/ PM!WaitTrustsKill(o)
  <2>1. NoLive
    <3>1. CASE PM!WaitEnds(o)
      <4>1. current # 0
        BY <1>2, StartsAreBounded DEF PM!Slot
      <4> QED  BY <1>2, <3>1, <4>1 DEF PM!WaitEnds, PM!IsStopped, LiveIsCurrent, NoLive
    <3>2. CASE PM!WaitTrustsKill(o)
      <4>1. life[process[target[o]]] # "live"
        BY <3>2 DEF PM!WaitTrustsKill
      <4> QED  BY <1>2, <4>1 DEF LiveIsCurrent, NoLive
    <3> QED  BY <1>3, <3>1, <3>2
  <2>2. PM!StopSettles(o, "ok") /\ UNCHANGED <<PM!objectVars, PM!childVars>>
    BY <1>3 DEF PM!WaitEnds, PM!WaitTrustsKill
  <2> QED
    BY <1>2, <2>1, <2>2, SettleKeepsChildren DEF PM!objectVars, PM!childVars
<1>4. CASE PM!WaitEscalates(o)
  <2>1. /\ callPc' = [callPc EXCEPT ![o] = "waitKill"] /\ process[current] \in PM!Slot
        /\ UNCHANGED <<current, starts, state, process, life, asked, crashed, target, result>>
        /\ killed' = IF life[process[current]] = "live"
                     THEN [killed EXCEPT ![process[current]] = TRUE] ELSE killed
    BY <1>2, <1>4, StartsAreBounded
       DEF PM!WaitEscalates, PM!objectVars, PM!KilledBySignal, PM!IsStopped, PM!Slot
  <2>2. ProcTypes' /\ ChildrenKnown' /\ LiveIsCurrent'
    BY <2>1 DEF ChildrenKnown, LiveIsCurrent, PM!StopPc, PM!WaitPc
  <2>3. \A s \in PM!Slot : life'[s] = "live" => killed'[s]
    BY <1>2, <2>1 DEF LiveIsCurrent
  <2>4. CallAt(o)' /\ ChildAt(o)'
    BY <1>2, <2>1, <2>3, StartsAreBounded
       DEF CallAt, ChildAt, CallReturned, PM!StopPc, PM!WaitPc, PM!Slot
  <2>5. callPc[o] # "idle"
    BY <1>1 DEF PM!WaitPc
  <2> QED
    BY <2>1, <2>2, <2>4, <2>5, CallMoveKeepsChildren
<1>5. CASE PM!WaitGivesUp(o, FALSE)
  <2>1. callPc[o] # "idle"
    BY <1>1 DEF PM!WaitPc
  <2>2. CallAt(o)' /\ ChildAt(o)'
    BY <1>2, <1>5, GivesUpOnNone DEF CallAt, ChildAt, PM!StopPc, PM!WaitPc
  <2> QED
    BY <1>5, <2>1, <2>2, GivesUpOnNone, CallMoveKeepsChildren
<1> QED
  BY <1>3, <1>4, <1>5

LEMMA ProcessKeepsChildren ==
  ASSUME PromptKill, ChildInv, SerialInv', NEW o \in Op, ProcessStep(o)
  PROVE  ChildInv'
<1>1. opPc' = opPc
  BY DEF ProcessStep, engineVars
<1> QED
  BY <1>1, SpawnKeepsChildren, StopFindsKeepsChildren, StopBeginsKeepsChildren,
     WaitKeepsChildren DEF ProcessStep

\* A child exits: none is live any more, and if no stop acted on it, that is
\* a crash.
LEMMA ExitKeepsChildren ==
  ASSUME ChildInv, SerialInv', NEW s \in PM!Slot, ChildExits(s)
  PROVE  ChildInv'
<1> USE DEF ChildInv, ProcTypes
<1>1. /\ life[s] = "live" /\ s = current /\ current # 0
      /\ life' = [life EXCEPT ![s] = "gone"] /\ process' = [process EXCEPT ![s] = 0]
      /\ state' = [state EXCEPT ![s] = IF @ = "STOPPING" THEN "STOPPED" ELSE "CRASHED"]
      /\ state[s] # "STOPPING" => s \in crashed'
      /\ UNCHANGED <<current, starts, killed, asked, callPc, target, result, opPc, phase>>
  BY StartsAreBounded
     DEF ChildExits, PM!ChildExit, PM!callVars, LiveIsCurrent, engineVars, PM!Slot
<1>2. NoLive' /\ ~NoLive
  BY <1>1 DEF NoLive, LiveIsCurrent
<1>3. ProcTypes'
  BY <1>1, StartsAreBounded DEF PM!ServerState
<1>4. ChildrenKnown' /\ LiveIsCurrent' /\ LiveIsRunning'
  BY <1>1, <1>2, StartsAreBounded DEF ChildrenKnown, LiveIsCurrent, LiveIsRunning, NoLive, PM!Slot
<1>5. /\ Unasked => Unasked'
      /\ HasSpoken => HasSpoken'
  BY <1>1, <1>4 DEF Unasked, LiveIsRunning, HasSpoken
<1>6. ASSUME NEW o \in Op PROVE CallAt(o)' /\ ChildAt(o)'
  BY <1>1, <1>2, <1>4, <1>5 DEF CallAt, ChildAt, CallReturned, NoLive
<1>7. ChildAtRest'
  BY <1>1, <1>2, <1>5 DEF ChildAtRest, Mid
<1> QED
  BY <1>3, <1>4, <1>6, <1>7

\* The ready line of the child, or the timeout of the wait for it.
LEMMA DetectorKeepsChildren ==
  ASSUME ChildInv, SerialInv', ReadySignal \/ \E o \in Op : ReadyTimeout(o)
  PROVE  ChildInv'
<1>1. PICK w \in Op : w = waiter
  BY WaiterWaits DEF ChildInv, ReadySignal, ReadyTimeout
<1>2. stage[w] = "active" /\ opPc[w] = "ready" /\ w # None
  BY <1>1, NoneIsFresh, WaiterWaits DEF ChildInv
<1>3. CallReturned(w) /\ Unasked
  BY <1>2, ActiveChild DEF ChildAt
<1>4. CASE ReadySignal
  <2>1. HasSpoken /\ UNCHANGED processVars
    BY <1>4 DEF ReadySignal
  <2>2. \/ GoTo(w, "postStart")
        \/ GoTo(w, "ended") /\ phase' = "RUNNING"
    BY <1>1, <1>4 DEF ReadySignal, ServerIsReady, End
  <2>3. Fits("postStart", phase') /\ Fits("ended", "RUNNING")
    BY <1>3, <2>1 DEF Fits, MidPc
  <2> QED
    BY <1>2, <1>3, <2>1, <2>2, <2>3, QuietMove DEF MidPc
<1>5. ASSUME NEW o \in Op, ReadyTimeout(o) PROVE ChildInv'
  <2>1. PM!StopCall(w, TRUE) /\ GoTo(w, "cleanUp")
    BY <1>1, <1>2, <1>5 DEF ReadyTimeout, CleanUp
  <2> QED
    BY <1>2, <1>3, <2>1, CallStopKeepsChildren DEF Unasked
<1> QED
  BY <1>4, <1>5

\* Steps that leave the process manager, the phase and every operation in its
\* middle as they are.
LEMMA ElseKeepsChildren ==
  ASSUME ChildInv, SerialInv', UNCHANGED <<processVars, phase>>,
         \A p \in Op : opPc'[p] = opPc[p] \/ (~Mid(p) /\ opPc'[p] \notin MidPc)
  PROVE  ChildInv'
<1>1. \A p \in Op : Mid(p)' <=> Mid(p)
  BY DEF Mid
<1>2. UNCHANGED <<result, callPc, target, current, life, state, killed, asked, crashed>>
  BY DEF processVars
<1>3. ASSUME NEW p \in Op PROVE CallAt(p)' /\ ChildAt(p)'
  <2>1. CASE opPc'[p] = opPc[p]
    BY <1>2, <2>1 DEF ChildInv, CallAt, ChildAt, CallReturned, NoLive, LiveIsRunning, Unasked, HasSpoken
  <2>2. CASE ~Mid(p) /\ opPc'[p] \notin MidPc
    BY <1>2, <2>2
       DEF ChildInv, CallAt, ChildAt, CallReturned, Mid, MidPc, PM!StopPc, PM!WaitPc
  <2> QED  BY <2>1, <2>2
<1>4. ChildAtRest'
  BY <1>1, ProcessStays DEF ChildInv, ChildAtRest
<1> QED
  BY <1>3, <1>4, ProcessStays DEF ChildInv

LEMMA ChildInit == EngineInit => ChildInv
<1> SUFFICES ASSUME EngineInit PROVE ChildInv
  OBVIOUS
<1>1. SerialInv
  BY SerialInit
<1>2. ProcTypes
  BY StartsAreBounded DEF EngineInit, PM!ProcessInit, ProcTypes, PM!ServerState
<1>3. ChildrenKnown /\ LiveIsCurrent /\ NoLive
  BY DEF EngineInit, PM!ProcessInit, ChildrenKnown, LiveIsCurrent, NoLive
<1>4. (\A o \in Op : CallAt(o) /\ ChildAt(o)) /\ ChildAtRest
  BY <1>3 DEF EngineInit, PM!ProcessInit, CallAt, ChildAt, ChildAtRest, PM!StopPc, PM!WaitPc
<1> QED
  BY <1>1, <1>2, <1>3, <1>4 DEF ChildInv

LEMMA ChildStep ==
  ASSUME ~LateCalls, PromptKill, ChildInv, [Next]_vars
  PROVE  ChildInv'
<1>1. SerialInv'
  BY SerialStep DEF ChildInv
<1>2. ASSUME NEW o \in Op, NEW what \in Kind, NEW k \in Key \cup {None}, Submit(o, what, k)
      PROVE ChildInv'
  <2>1. ~Mid(o)
    BY <1>2 DEF Submit, Call, ChildInv, SerialInv, MidIsActive
  <2>2. \A p \in Op : opPc'[p] = IF p = o THEN opPc'[o] ELSE opPc[p]
    BY <1>2 DEF Submit, GoTo, ChildInv, SerialInv, TypeInv
  <2>3. opPc'[o] \notin MidPc
    BY <1>2 DEF Submit, GoTo, ChildInv, SerialInv, TypeInv, MidPc
  <2> QED
    BY <1>1, <1>2, <2>1, <2>2, <2>3, ElseKeepsChildren DEF Submit
<1>3. ASSUME NEW o \in Op, Admit(o) PROVE ChildInv'
  BY <1>1, <1>3, ElseKeepsChildren DEF Admit, engineVars
<1>10. ASSUME NEW o \in Op, Release(o) \/ \E k \in Key : Share(o, k) PROVE ChildInv'
  BY <1>1, <1>10, ElseKeepsChildren DEF Release, Share, engineVars
<1>4. ASSUME NEW o \in Op, OperationStep(o) PROVE ChildInv'
  BY <1>1, <1>4, OperationKeepsChildren
<1>5. ASSUME NEW o \in Op, ProcessStep(o) PROVE ChildInv'
  BY <1>1, <1>5, ProcessKeepsChildren
<1>6. ASSUME NEW o \in Op, ReadyTimeout(o) PROVE ChildInv'
  BY <1>1, <1>6, DetectorKeepsChildren
<1>7. CASE ReadySignal
  BY <1>1, <1>7, DetectorKeepsChildren
<1>8. ASSUME NEW s \in PM!Slot, ChildExits(s) PROVE ChildInv'
  BY <1>1, <1>8, ExitKeepsChildren
<1>9. CASE UNCHANGED vars
  BY <1>1, <1>9, ElseKeepsChildren DEF vars, engineVars
<1> QED
  BY <1>2, <1>3, <1>4, <1>5, <1>6, <1>7, <1>8, <1>9, <1>10 DEF Next, KeysOf

(***************************************************************************)
(* The engine implements ManagedServer.                                    *)
(***************************************************************************)
Children == Cardinality(LiveChildren)

\* What the number of live children is.
LEMMA ChildrenCounted ==
  /\ NoLive => Children = 0
  /\ \A s \in PM!Slot :
       life[s] = "live" /\ (\A r \in PM!Slot : life[r] = "live" => r = s) => Children = 1
<1>1. ASSUME NoLive PROVE Children = 0
  <2>1. LiveChildren = {}
    BY <1>1 DEF LiveChildren, NoLive
  <2> QED  BY <2>1, FS_EmptySet DEF Children
<1>2. ASSUME NEW s \in PM!Slot, life[s] = "live",
             \A r \in PM!Slot : life[r] = "live" => r = s
      PROVE  Children = 1
  <2>1. LiveChildren = {s}
    BY <1>2 DEF LiveChildren
  <2> QED  BY <2>1, FS_Singleton DEF Children
<1> QED
  BY <1>1, <1>2

\* The same children are counted while none is spawned and none exits.
LEMMA ChildrenStay ==
  ASSUME \A s \in PM!Slot : life'[s] = "live" <=> life[s] = "live"
  PROVE  Children' = Children
BY DEF Children, LiveChildren

\* An operation's step is a step of the promised server, or none.
LEMMA OperationImplements ==
  ASSUME ChildInv, NEW o \in Op, OperationStep(o)
  PROVE  [MS!ServerNext]_MS!serverVars
<1>1. stage[o] = "active"
  BY OperationMoves DEF ChildInv
<1>2. life' = life /\ Children' = Children
  <2>1. life' = life
    BY DEF OperationStep, IgnoreStart, BeginStart, ValidationFails, ValidationPasses,
           PreStartHookEnds, AwaitReady, StartThrew, CleanUp, RetryLater, Retry, StartGivesUp,
           PostStartHookEnds, IgnoreStop, BeginStop, CallStop, PreStopHookEnds, ProcessStopped,
           PostStopHookEnds, StopFails, StopGivesUp, RestartUnknown, BeginRestart, TryStart,
           CallStart, PM!StartAccepted, PM!StartRefused, PM!StopCall, PM!WaitGivesUp,
           PM!childVars, processVars
  <2> QED  BY <2>1, ChildrenStay
<1>3. /\ ChildAt(o) /\ PhaseAt(o)
      /\ ~Mid(o) => phase \in {"none", "RUNNING", "STOPPED", "FAILED"}
      /\ NoLive => Children = 0
  BY <1>1, ActiveChild, ChildrenCounted
<1> USE DEF At, PhaseAt, ChildAt, MS!serverVars, MS!Enter, Children
<1>4. CASE IgnoreStart(o) \/ AwaitReady(o) \/ StartThrew(o) \/ RetryLater(o) \/ IgnoreStop(o)
             \/ StopGivesUp(o) \/ RestartUnknown(o) \/ BeginRestart(o)
  BY <1>2, <1>4 DEF IgnoreStart, AwaitReady, StartThrew, RetryLater, IgnoreStop, StopGivesUp,
                    RestartUnknown, BeginRestart
<1>5. CASE BeginStart(o)
  <2>1. MS!Validate
    BY <1>2, <1>3, <1>5 DEF BeginStart, StartIgnored, Mid, MidPc, MS!Validate, MS!Down
  <2> QED  BY <2>1 DEF MS!ServerNext
<1>6. CASE ValidationFails(o) \/ StartGivesUp(o)
  <2>1. MS!GiveUp
    BY <1>2, <1>3, <1>6 DEF ValidationFails, StartGivesUp, MS!GiveUp
  <2> QED  BY <2>1 DEF MS!ServerNext
<1>7. CASE ValidationPasses(o) \/ PreStartHookEnds(o)
  <2>1. MS!RunPreStart \/ MS!EnterStart
    BY <1>2, <1>3, <1>7 DEF ValidationPasses, PreStartHookEnds, TryStart, MS!RunPreStart, MS!EnterStart
  <2> QED  BY <2>1 DEF MS!ServerNext
<1>8. CASE Retry(o)
  BY <1>2, <1>3, <1>8 DEF Retry, TryStart
<1>9. CASE PostStartHookEnds(o)
  <2>1. MS!PostStarted
    BY <1>2, <1>3, <1>9 DEF PostStartHookEnds, MS!PostStarted
  <2> QED  BY <2>1 DEF MS!ServerNext
<1>10. CASE BeginStop(o) \/ PreStopHookEnds(o)
  <2>1. MS!RunPreStop \/ MS!EnterStop
    BY <1>2, <1>3, <1>10 DEF BeginStop, StopIsNoOp, PreStopHookEnds, CallStop, Mid, MidPc,
                             MS!RunPreStop, MS!EnterStop
  <2> QED  BY <2>1 DEF MS!ServerNext
<1>11. CASE ProcessStopped(o) \/ PostStopHookEnds(o)
  <2>1. MS!Stopped \/ MS!PostStopped
    BY <1>2, <1>3, <1>11 DEF ProcessStopped, PostStopHookEnds, StopDone, MS!Stopped, MS!PostStopped
  <2> QED  BY <2>1 DEF MS!ServerNext
<1>12. CASE StopFails(o)
  <2>1. NoLive
    BY <1>12, GivesUpOnNone DEF StopFails
  <2>2. MS!StopGivesUp
    BY <1>2, <1>3, <1>12, <2>1 DEF StopFails, MS!StopGivesUp
  <2> QED  BY <2>2 DEF MS!ServerNext
<1> QED
  BY <1>4, <1>5, <1>6, <1>7, <1>8, <1>9, <1>10, <1>11, <1>12 DEF OperationStep

\* So is a step of a call of the process manager: it spawns a child, or
\* leaves their number alone.
LEMMA ProcessImplements ==
  ASSUME ChildInv, NEW o \in Op, ProcessStep(o)
  PROVE  [MS!ServerNext]_MS!serverVars
<1> USE DEF MS!serverVars, Children
<1>1. phase' = phase
  BY DEF ProcessStep, engineVars
<1>2. callPc[o] = "window" =>
        /\ target[o] = current /\ current \in PM!Slot /\ life[current] = "none" /\ NoLive
        /\ phase = "STARTING"
  BY StartsAreBounded DEF ChildInv, ProcTypes, CallAt, SerialInv, PhaseAt, PM!Slot
<1>3. CASE PM!SpawnSucceeds(o)
  <2>1. life' = [life EXCEPT ![current] = "live"] /\ callPc[o] = "window"
    BY <1>2, <1>3 DEF PM!SpawnSucceeds, PM!CanAct
  <2>2. \A r \in PM!Slot : life'[r] = "live" <=> r = current
    BY <1>2, <2>1 DEF NoLive, ChildInv, ProcTypes
  <2>3. Children = 0
    BY <1>2, <2>1, ChildrenCounted
  <2>4. LiveChildren' = {current}
    BY <1>2, <2>1, <2>2 DEF LiveChildren
  <2>5. Children' = 1
    BY <2>4, FS_Singleton
  <2>6. MS!Spawn
    BY <1>1, <1>2, <2>1, <2>3, <2>5 DEF MS!Spawn
  <2> QED  BY <2>6 DEF MS!ServerNext
<1>4. CASE ~PM!SpawnSucceeds(o)
  <2>1. \A r \in PM!Slot : life'[r] = "live" <=> life[r] = "live"
    <3>1. CASE PM!SpawnFails(o)
      BY <1>2, <3>1 DEF PM!SpawnFails, PM!CanAct, NoLive, ChildInv, ProcTypes
    <3>2. CASE ~PM!SpawnFails(o)
      BY <1>4, <3>2
         DEF ProcessStep, PM!SpawnThrows, PM!StopNothing, PM!StopWithoutProcess, PM!StopJoins,
             PM!StopBegins, PM!WaitEnds, PM!WaitTrustsKill, PM!WaitEscalates, PM!WaitGivesUp,
             PM!childVars
    <3> QED  BY <3>1, <3>2
  <2> QED  BY <1>1, <2>1, ChildrenStay
<1> QED
  BY <1>3, <1>4

\* Every step of the engine is a step of the promised server, or none.
LEMMA StepImplements ==
  ASSUME ChildInv, [Next]_vars
  PROVE  [MS!ServerNext]_MS!serverVars
<1> USE DEF MS!serverVars, Children
<1>1. ASSUME NEW o \in Op, OperationStep(o) PROVE [MS!ServerNext]_MS!serverVars
  BY <1>1, OperationImplements
<1>2. ASSUME NEW o \in Op, ProcessStep(o) PROVE [MS!ServerNext]_MS!serverVars
  BY <1>2, ProcessImplements
<1>3. CASE \/ \E o \in Op : \/ \E what \in Kind, k \in Key \cup {None} : Submit(o, what, k)
                            \/ \E k \in Key : Share(o, k)
                            \/ Admit(o) \/ Release(o) \/ ReadyTimeout(o)
           \/ UNCHANGED vars
  <2>1. life' = life /\ phase' = phase
    BY <1>3 DEF Submit, Share, Admit, Release, ReadyTimeout, CleanUp, PM!StopCall, PM!childVars, processVars,
                engineVars, vars
  <2> QED  BY <2>1, ChildrenStay
<1>4. CASE ReadySignal
  <2>1. life' = life /\ phase = "STARTING" /\ phase' \in {"POST_START", "RUNNING"}
    BY <1>4, WaiterWaits DEF ReadySignal, ServerIsReady, processVars, ChildInv
  <2>2. MS!Ready
    BY <2>1, ChildrenStay DEF MS!Ready, MS!Enter
  <2> QED  BY <2>2 DEF MS!ServerNext
<1>5. ASSUME NEW s \in PM!Slot, ChildExits(s) PROVE [MS!ServerNext]_MS!serverVars
  <2>1. /\ life[s] = "live" /\ phase' = phase
        /\ \A r \in PM!Slot : life[r] = "live" => r = s
        /\ \A r \in PM!Slot : life'[r] # "live"
    BY <1>5 DEF ChildExits, PM!ChildExit, engineVars, ChildInv, LiveIsCurrent, ProcTypes
  <2>2. Children = 1
    BY <2>1, ChildrenCounted
  <2>3. LiveChildren' = {}
    BY <2>1 DEF LiveChildren
  <2>4. Children' = 0
    BY <2>3, FS_EmptySet
  <2>5. MS!Exit
    BY <2>1, <2>2, <2>4 DEF MS!Exit
  <2> QED  BY <2>5 DEF MS!ServerNext
<1> QED
  BY <1>1, <1>2, <1>3, <1>4, <1>5 DEF Next, KeysOf

\* ImplementsManagedServer: the engine, with its lock, its process manager and
\* its ready detector, keeps the promise of ManagedServer; every step maps to
\* one of its steps or to a stutter.
THEOREM EngineImplementsServer ==
  ASSUME ~LateCalls, PromptKill PROVE Spec => ImplementsManagedServer
<1>1. EngineInit => MS!ServerInit
  <2> SUFFICES ASSUME EngineInit PROVE MS!ServerInit
    OBVIOUS
  <2>1. NoLive
    BY DEF EngineInit, PM!ProcessInit, NoLive
  <2> QED
    BY <2>1, ChildrenCounted DEF EngineInit, MS!ServerInit, Children
<1>2. ChildInv /\ [Next]_vars => ChildInv'
  BY ChildStep
<1>3. ChildInv /\ [Next]_vars => [MS!ServerNext]_MS!serverVars
  BY StepImplements
<1> QED
  BY <1>1, <1>2, <1>3, ChildInit, PTL DEF Spec, ImplementsManagedServer, MS!ServerSpec

(***************************************************************************)
(* The engine and ProcessManager.  PM's actions are steps of the engine or *)
(* parts of them; PMS is the same instance with what is proved of the      *)
(* process manager, and no overlap ever in its history.                    *)
(***************************************************************************)
PMS == INSTANCE ProcessManagerProofs WITH Caller <- Op, serial <- TRUE

LEMMA SameProcesses ==
  /\ PM!ProcessInit <=> PMS!ProcessInit
  /\ [PM!ProcessNext]_PM!processVars <=> [PMS!ProcessNext]_PMS!processVars
<1> USE DEF PM!Slot, PMS!Slot, PM!objectVars, PMS!objectVars, PM!childVars, PMS!childVars,
            PM!callVars, PMS!callVars
<1>1. PM!ProcessInit <=> PMS!ProcessInit
  BY DEF PM!ProcessInit, PMS!ProcessInit
<1>2. UNCHANGED PM!processVars <=> UNCHANGED PMS!processVars
  BY DEF PM!processVars, PMS!processVars
<1> USE DEF PM!CanAct, PMS!CanAct, PM!Return, PMS!Return, PM!IsStopped, PMS!IsStopped,
            PM!RegisteredAfterClose, PMS!RegisteredAfterClose, PM!KilledBySignal,
            PMS!KilledBySignal, PM!RecoveredState, PMS!RecoveredState, PM!RecoveredProcess,
            PMS!RecoveredProcess, PM!Busy, PMS!Busy, PM!AtHead, PMS!AtHead,
            PM!StopSettles, PMS!StopSettles, PM!StopAgain, PMS!StopAgain, PM!WaitPc, PMS!WaitPc
<1>3. PM!ProcessNext <=> PMS!ProcessNext
  BY DEF PM!ProcessNext, PMS!ProcessNext, PM!CallStep, PMS!CallStep,
         PM!StartRefused, PMS!StartRefused, PM!StartAccepted, PMS!StartAccepted,
         PM!SpawnThrows, PMS!SpawnThrows, PM!SpawnSucceeds, PMS!SpawnSucceeds,
         PM!SpawnFails, PMS!SpawnFails, PM!StopCall, PMS!StopCall,
         PM!StopNothing, PMS!StopNothing, PM!StopWithoutProcess, PMS!StopWithoutProcess,
         PM!StopJoins, PMS!StopJoins, PM!StopBegins, PMS!StopBegins,
         PM!WaitEnds, PMS!WaitEnds, PM!WaitTrustsKill, PMS!WaitTrustsKill,
         PM!WaitEscalates, PMS!WaitEscalates, PM!WaitGivesUp, PMS!WaitGivesUp,
         PM!ChildExit, PMS!ChildExit, PM!Shutdown, PMS!Shutdown
<1> QED
  BY <1>1, <1>2, <1>3

\* What an operation's step does to the process manager: nothing, or one step
\* of the operation's own call.
LEMMA OperationCalls ==
  ASSUME NEW o \in Op, OperationStep(o)
  PROVE  PM!CallStep(o) \/ UNCHANGED processVars
<1> USE DEF PM!CallStep
<1>1. CASE IgnoreStart(o) \/ BeginStart(o) \/ ValidationFails(o)
  BY <1>1 DEF IgnoreStart, BeginStart, ValidationFails
<1>2. CASE ValidationPasses(o) \/ PreStartHookEnds(o) \/ Retry(o)
  BY <1>2 DEF ValidationPasses, PreStartHookEnds, Retry, TryStart, CallStart
<1>3. CASE AwaitReady(o) \/ RetryLater(o) \/ StartGivesUp(o) \/ PostStartHookEnds(o)
  BY <1>3 DEF AwaitReady, RetryLater, StartGivesUp, PostStartHookEnds
<1>4. CASE StartThrew(o)
  BY <1>4 DEF StartThrew, CleanUp
<1>5. CASE BeginStop(o) \/ PreStopHookEnds(o)
  <2>1. PM!StopCall(o, kind[o] = "forceStop") \/ UNCHANGED processVars
    BY <1>5 DEF BeginStop, PreStopHookEnds, CallStop
  <2>2. (kind[o] = "forceStop") \in BOOLEAN
    OBVIOUS
  <2> QED
    BY <2>1, <2>2
<1>6. CASE IgnoreStop(o) \/ ProcessStopped(o) \/ PostStopHookEnds(o)
  BY <1>6 DEF IgnoreStop, ProcessStopped, PostStopHookEnds
<1>7. CASE StopFails(o)
  BY <1>7 DEF StopFails
<1>8. CASE StopGivesUp(o) \/ RestartUnknown(o) \/ BeginRestart(o)
  BY <1>8 DEF StopGivesUp, RestartUnknown, BeginRestart
<1> QED
  BY <1>1, <1>2, <1>3, <1>4, <1>5, <1>6, <1>7, <1>8 DEF OperationStep

LEMMA ProcessUse ==
  ASSUME TypeInv, [Next]_vars
  PROVE  [PM!ProcessNext]_PM!processVars
<1>1. ASSUME NEW o \in Op, OperationStep(o) \/ ProcessStep(o)
      PROVE  PM!CallStep(o) \/ UNCHANGED processVars
  BY <1>1, OperationCalls DEF ProcessStep, PM!CallStep
<1>2. ASSUME NEW o \in Op, ReadyTimeout(o)
      PROVE  (\E p \in Op : PM!CallStep(p)) \/ UNCHANGED processVars
  <2>1. CASE waiter = None
    BY <1>2, <2>1 DEF ReadyTimeout
  <2>2. CASE waiter # None
    <3>1. waiter \in Op
      BY <2>2 DEF TypeInv, EngineTypeOK
    <3>2. PM!StopCall(waiter, TRUE)
      BY <1>2, <2>2 DEF ReadyTimeout, CleanUp
    <3> QED
      BY <3>1, <3>2 DEF PM!CallStep
  <2> QED
    BY <2>1, <2>2
<1>3. CASE \/ \E o \in Op : \/ \E what \in Kind, k \in Key \cup {None} : Submit(o, what, k)
                            \/ \E k \in Key : Share(o, k)
                            \/ Admit(o) \/ Release(o)
           \/ ReadySignal
           \/ UNCHANGED vars
  <2>1. UNCHANGED processVars
    BY <1>3 DEF Submit, Share, Admit, Release, ReadySignal, vars
  <2> QED
    BY <2>1 DEF processVars, PM!processVars, PM!objectVars, PM!childVars, PM!callVars
<1>4. ASSUME NEW s \in PM!Slot, ChildExits(s) PROVE PM!ProcessNext
  BY <1>4 DEF ChildExits, PM!ProcessNext
<1>5. UNCHANGED processVars => UNCHANGED PM!processVars
  BY DEF processVars, PM!processVars, PM!objectVars, PM!childVars, PM!callVars
<1> QED
  BY <1>1, <1>2, <1>3, <1>4, <1>5 DEF Next, KeysOf, PM!ProcessNext

\* The engine drives its process manager as ProcessManager has it, whatever
\* operations overlap, so that what is proved of it holds in the engine.
THEOREM EngineKeepsProcesses == Spec => PM!ProcessSpec
<1>1. EngineInit => PM!ProcessInit /\ TypeInv
  BY TypeInit DEF EngineInit
<1>2. TypeInv /\ [Next]_vars => TypeInv' /\ [PM!ProcessNext]_PM!processVars
  BY TypeStep, ProcessUse
<1> QED
  BY <1>1, <1>2, PTL DEF Spec, PM!ProcessSpec

LEMMA SameSpec == PM!ProcessSpec => PMS!ProcessSpec
<1>1. PM!ProcessInit => PMS!ProcessInit
  BY SameProcesses
<1>2. [PM!ProcessNext]_PM!processVars => [PMS!ProcessNext]_PMS!processVars
  BY SameProcesses
<1> QED
  BY <1>1, <1>2, PTL DEF PM!ProcessSpec, PMS!ProcessSpec

\* RunningHasLiveChild and LetGoOnlyWhenKilled in the engine: no overlap of its
\* operations makes an object of processManager say RUNNING without its child,
\* or abandons a live child that nobody has killed.
THEOREM EngineAbandonsNoChild == Spec => [](PM!RunningHasLiveChild /\ PM!LetGoOnlyWhenKilled)
<1>1. PMS!ProcessInv => PM!RunningHasLiveChild /\ PM!LetGoOnlyWhenKilled
  BY DEF PMS!ProcessInv, PMS!RunningHasLiveChild, PMS!LetGoOnlyWhenKilled,
         PM!RunningHasLiveChild, PM!LetGoOnlyWhenKilled, PM!Slot, PMS!Slot
<1>2. PMS!ProcessSpec => []PMS!ProcessInv
  BY PMS!ProcessInvariant, StartsAreBounded, KillIsPromptOrNot
<1> QED
  BY <1>1, <1>2, EngineKeepsProcesses, SameSpec, PTL

\* What a process manager whose calls never overlap keeps.
ApartInv == PMS!SerialInv /\ PMS!KilledIsStopping

\* Only the active operation has a call, and where none has one every live
\* child is of a RUNNING object, hence not killed.
LEMMA CallsApart ==
  ASSUME ChildInv, PMS!KilledIsStopping
  PROVE  PMS!Serial
<1>1. \A o, p \in Op : callPc[o] # "idle" /\ callPc[p] # "idle" => o = p
  BY CallersActive, OneActive DEF ChildInv, SerialInv
<1>2. ASSUME \A o \in Op : callPc[o] = "idle" PROVE LiveIsRunning
  <2>1. CASE \E o \in Op : Mid(o)
    <3>1. PICK o \in Op : Mid(o)
      BY <2>1
    <3>2. CallReturned(o) /\ ChildAt(o)
      BY <1>2 DEF CallReturned, ChildInv
    <3> QED
      BY <3>1, <3>2 DEF Mid, MidPc, ChildAt, Unasked, NoLive, LiveIsRunning
  <2>2. CASE \A o \in Op : ~Mid(o)
    BY <2>2 DEF ChildInv, ChildAtRest, Unasked, NoLive, LiveIsRunning
  <2> QED
    BY <2>1, <2>2
<1> QED
  BY <1>1, <1>2 DEF PMS!Serial, PMS!KilledIsStopping, LiveIsRunning, PM!Slot, PMS!Slot

LEMMA ApartInit == EngineInit => ApartInv
<1> SUFFICES ASSUME EngineInit PROVE ApartInv
  OBVIOUS
<1>1. PMS!SerialInit
  BY SameProcesses DEF EngineInit, PMS!SerialInit
<1>2. PMS!SerialInv
  BY <1>1, PMS!SerialInitEstablishes, StartsAreBounded, KillIsPromptOrNot
<1>3. PMS!KilledIsStopping
  BY <1>1 DEF PMS!SerialInit, PMS!ProcessInit, PMS!KilledIsStopping
<1> QED
  BY <1>2, <1>3 DEF ApartInv

\* A step keeps it, and is one of a process manager whose calls never overlap,
\* if they do not overlap after it.
LEMMA ApartStep ==
  ASSUME ChildInv, ApartInv, [Next]_vars
  PROVE  /\ PMS!KilledIsStopping'
         /\ PMS!Serial' => PMS!SerialInv' /\ [PMS!SerialNext]_PMS!serialVars
<1>1. [PMS!ProcessNext]_PMS!processVars
  BY ProcessUse, SameProcesses DEF ChildInv, SerialInv
<1>2. /\ PMS!ProcessInv /\ PMS!ObjectShape /\ PMS!CallShape
  BY DEF ApartInv, PMS!SerialInv
<1>3. PMS!KilledIsStopping'
  BY <1>1, <1>2, PMS!KilledStops, StartsAreBounded, KillIsPromptOrNot DEF ApartInv
<1>4. ASSUME PMS!Serial' PROVE [PMS!SerialNext]_PMS!serialVars
  BY <1>1, <1>4 DEF PMS!SerialNext, PMS!serialVars
<1>5. ASSUME PMS!Serial' PROVE PMS!SerialInv'
  BY <1>4, <1>5, PMS!SerialStepKeeps, StartsAreBounded, KillIsPromptOrNot DEF ApartInv
<1> QED
  BY <1>3, <1>4, <1>5

\* The invariant of the engine with all it drives, where no call comes late
\* and a killed child is gone before the wait for it ends.
LEMMA WholeInvariant ==
  ASSUME ~LateCalls, PromptKill
  PROVE  Spec => [](ChildInv /\ ApartInv) /\ PMS!SerialSpec
<1>1. EngineInit => ChildInv /\ ApartInv /\ PMS!SerialInit
  BY ChildInit, ApartInit, SameProcesses DEF EngineInit, PMS!SerialInit
<1>2. ChildInv /\ [Next]_vars => ChildInv'
  BY ChildStep
<1>3. ChildInv /\ PMS!KilledIsStopping => PMS!Serial
  BY CallsApart
<1>4. ChildInv /\ ApartInv /\ [Next]_vars =>
        /\ PMS!KilledIsStopping'
        /\ PMS!Serial' => PMS!SerialInv' /\ [PMS!SerialNext]_PMS!serialVars
  BY ApartStep
<1>5. ApartInv <=> PMS!SerialInv /\ PMS!KilledIsStopping
  BY DEF ApartInv
<1> QED
  BY <1>1, <1>2, <1>3, <1>4, <1>5, PTL DEF Spec, PMS!SerialSpec

\* The lock does what it is for: where no call comes while it has lost its
\* entry, the engine's calls of processManager never overlap, and no killed
\* child outlives the call that killed it (withServerLock, awaitProcessStop).
THEOREM EngineCallsApart ==
  ASSUME ~LateCalls, PromptKill PROVE Spec => PMS!SerialSpec
BY WholeInvariant, PTL

\* What SerialProcess promises therefore holds in the engine: one live child at
\* most, a RUNNING server that its console reaches, and no crash, with the
\* automatic restart it sets off, reported for a child that was asked to stop.
THEOREM EngineServerIsOne ==
  ASSUME ~LateCalls, PromptKill
  PROVE  Spec => [](PM!OneLiveChild /\ PM!ConsoleReachesServer /\ PM!CrashMeansUnasked)
<1>1. PMS!SerialServerIsOne /\ PMS!SerialCrashMeansUnasked
        => PM!OneLiveChild /\ PM!ConsoleReachesServer /\ PM!CrashMeansUnasked
  BY DEF PMS!SerialServerIsOne, PMS!SerialCrashMeansUnasked, PMS!OneLiveChild,
         PMS!ConsoleReachesServer, PMS!CrashMeansUnasked, PM!OneLiveChild,
         PM!ConsoleReachesServer, PM!CrashMeansUnasked, PM!Slot, PMS!Slot
<1>2. PMS!SerialSpec => []PMS!SerialServerIsOne /\ []PMS!SerialCrashMeansUnasked
  BY PMS!ServerIsOne, PMS!CrashesAreUnasked, StartsAreBounded, KillIsPromptOrNot, PTL
<1> QED
  BY <1>1, <1>2, EngineCallsApart, PTL

\* QuietPhaseIsTrue: when no operation is under way, STOPPED and FAILED mean
\* that no child is live, and RUNNING that the phase the engine published
\* (setPhase), the object of the process manager, its child and its console
\* session agree, or that the child's exit was announced as a crash.
THEOREM QuietPhaseTold ==
  ASSUME ~LateCalls, PromptKill PROVE Spec => []QuietPhaseIsTrue
<1>1. ASSUME ChildInv, ApartInv, Unasked, HasSpoken, current \notin crashed
      PROVE  ServerAnswers
  <2>1. current \in PM!Slot /\ current # 0 /\ current \notin asked
    BY <1>1, StartsAreBounded DEF Unasked, ChildInv, ProcTypes, PM!Slot
  <2>2. life[current] = "live" /\ state[current] = "RUNNING"
    BY <1>1, <2>1 DEF Unasked, HasSpoken, LiveIsRunning
  <2>3. process[current] = current
    BY <1>1, <2>1, <2>2 DEF ChildInv, LiveIsCurrent
  <2>4. registered = current /\ mcSession[current] = current
    BY <1>1, <2>1, <2>2
       DEF ApartInv, PMS!SerialInv, PMS!ObjectShape, PMS!RunningIsReachable, PM!Slot, PMS!Slot
  <2> QED
    BY <2>1, <2>2, <2>3, <2>4 DEF ServerAnswers
<1>2. ASSUME ChildInv, ApartInv PROVE QuietPhaseIsTrue
  <2> SUFFICES ASSUME Quiet
               PROVE  /\ phase \in {"none", "RUNNING", "STOPPED", "FAILED"}
                      /\ phase # "RUNNING" => NoLive
                      /\ phase = "RUNNING" => ServerAnswers \/ current \in crashed
    BY DEF QuietPhaseIsTrue, NoLive
  <2>1. \A o \in Op : ~Mid(o)
    BY <1>2 DEF Quiet, Unfinished, ChildInv, SerialInv, MidIsActive
  <2> QED
    BY <1>1, <1>2, <2>1 DEF ChildInv, SerialInv, PhaseAtRest, ChildAtRest
<1> QED
  BY <1>2, WholeInvariant, PTL

(***************************************************************************)
(* No operation waits for nothing.                                         *)
(***************************************************************************)
\* An operation that is not settled is at one of its awaits, and where it has
\* called processManager.start and the call is over, the call has an outcome.
AwaitsKnown ==
  \A o \in Op :
    /\ Unfinished(o) => opPc[o] \in EntryPc \cup MidPc
    /\ opPc[o] = "starting" /\ CallReturned(o) => result[o] \in {"ok", "threw"}

\* What the operation waits for comes by itself: a hook, the validation and the
\* delay of a retry end; the ready wait is the detector's, with its timeout
\* armed; a start of the process manager is being made or has an outcome; a
\* stop is over, or is the first in the process manager's chain.
AwaitEnds(o) ==
  /\ opPc[o] \in EntryPc \cup MidPc
  /\ opPc[o] = "ready" => waiter = o /\ o \in timers
  /\ opPc[o] = "starting" =>
       callPc[o] = "window" \/ (CallReturned(o) /\ result[o] \in {"ok", "threw"})
  /\ opPc[o] \in {"cleanUp", "stopping", "stopCleanUp"} =>
       CallReturned(o) \/ (callPc[o] \in PM!StopPc /\ PM!AtHead(o))

\* Every request is answered, or waits in its chain for an operation that may
\* begin, or for one that is at an await which ends.
EveryRequestProceeds ==
  \A o \in Op :
    stage[o] # "new" =>
      \/ Answered(o)
      \/ \E p \in Op : /\ root[p] = root[sharedOp[o]] /\ depth[p] <= depth[sharedOp[o]]
                       /\ CanGoOn(p)
                       /\ stage[p] = "active" => AwaitEnds(p)

\* A call of the process manager leaves the other operations' calls alone.
LEMMA CallIsOwn ==
  ASSUME ProcTypes, NEW o \in Op, PM!CallStep(o), NEW p \in Op, p # o
  PROVE  callPc'[p] = callPc[p] /\ result'[p] = result[p]
<1> USE DEF ProcTypes, PM!Return
<1>1. ASSUME NEW valid \in BOOLEAN,
             \/ PM!StartRefused(o, valid) \/ PM!StartAccepted(o)
             \/ PM!SpawnThrows(o) \/ PM!SpawnSucceeds(o) \/ PM!SpawnFails(o)
      PROVE  callPc'[p] = callPc[p] /\ result'[p] = result[p]
  BY <1>1 DEF PM!StartRefused, PM!StartAccepted, PM!SpawnThrows, PM!SpawnSucceeds, PM!SpawnFails
<1>2. ASSUME NEW b \in BOOLEAN, PM!StopCall(o, b) \/ PM!StopBegins(o, b)
      PROVE  callPc'[p] = callPc[p] /\ result'[p] = result[p]
  BY <1>2 DEF PM!StopCall, PM!StopBegins
<1>3. CASE PM!StopNothing(o) \/ PM!StopWithoutProcess(o) \/ PM!StopJoins(o)
  BY <1>3 DEF PM!StopNothing, PM!StopWithoutProcess, PM!StopJoins, PM!StopSettles
<1>4. CASE PM!WaitEnds(o) \/ PM!WaitTrustsKill(o) \/ PM!WaitEscalates(o)
  BY <1>4 DEF PM!WaitEnds, PM!WaitTrustsKill, PM!WaitEscalates, PM!StopSettles
<1>5. ASSUME NEW again \in BOOLEAN, PM!WaitGivesUp(o, again)
      PROVE  callPc'[p] = callPc[p] /\ result'[p] = result[p]
  BY <1>5 DEF PM!WaitGivesUp, PM!StopSettles, PM!StopAgain
<1> QED
  BY <1>1, <1>2, <1>3, <1>4, <1>5 DEF PM!CallStep

\* A step of one operation keeps what is known of the awaits if it is so where
\* that operation goes.
LEMMA AwaitMoves ==
  ASSUME AwaitsKnown, NEW o \in Op,
         \A p \in Op : p # o => /\ opPc'[p] = opPc[p] /\ stage'[p] = stage[p]
                                /\ callPc'[p] = callPc[p] /\ result'[p] = result[p],
         Unfinished(o)' => opPc'[o] \in EntryPc \cup MidPc,
         opPc'[o] = "starting" /\ callPc'[o] = "idle" => result'[o] \in {"ok", "threw"}
  PROVE  AwaitsKnown'
BY DEF AwaitsKnown, Unfinished, CallReturned

\* Where a step of an operation leads it.
LEMMA OperationAwaits ==
  ASSUME ChildInv, AwaitsKnown, NEW o \in Op, OperationStep(o)
  PROVE  AwaitsKnown'
<1>0. /\ opPc \in [Op -> {"none", "ended"} \cup EntryPc \cup MidPc]
      /\ stage \in [Op -> Stage] /\ ProcTypes
  BY DEF ChildInv, SerialInv, TypeInv
<1>1. ASSUME NEW p \in Op, p # o
      PROVE  callPc'[p] = callPc[p] /\ result'[p] = result[p]
  BY <1>0, <1>1, OperationCalls, CallIsOwn DEF processVars
<1>2. /\ \A p \in Op : p # o => opPc'[p] = opPc[p] /\ stage'[p] = stage[p]
      /\ Unfinished(o)' => opPc'[o] \in EntryPc \cup MidPc
  <2> USE <1>0 DEF GoTo, End, Finish, EntryPc, MidPc, Unfinished, lockVars
  <2>1. CASE IgnoreStart(o) \/ BeginStart(o) \/ ValidationFails(o)
    BY <2>1 DEF IgnoreStart, BeginStart, ValidationFails
  <2>2. CASE ValidationPasses(o) \/ PreStartHookEnds(o) \/ Retry(o)
    BY <2>2 DEF ValidationPasses, PreStartHookEnds, Retry, TryStart
  <2>3. CASE AwaitReady(o) \/ StartThrew(o) \/ RetryLater(o)
    BY <2>3 DEF AwaitReady, StartThrew, RetryLater, CleanUp
  <2>4. CASE StartGivesUp(o) \/ PostStartHookEnds(o)
    BY <2>4 DEF StartGivesUp, PostStartHookEnds
  <2>5. CASE IgnoreStop(o) \/ BeginStop(o) \/ PreStopHookEnds(o)
    BY <2>5 DEF IgnoreStop, BeginStop, PreStopHookEnds, CallStop
  <2>6. CASE ProcessStopped(o) \/ PostStopHookEnds(o)
    BY <2>6 DEF ProcessStopped, PostStopHookEnds, StopDone
  <2>7. CASE StopFails(o) \/ StopGivesUp(o) \/ RestartUnknown(o) \/ BeginRestart(o)
    BY <2>7 DEF StopFails, StopGivesUp, RestartUnknown, BeginRestart
  <2> QED
    BY <2>1, <2>2, <2>3, <2>4, <2>5, <2>6, <2>7 DEF OperationStep
<1>3. ASSUME opPc'[o] = "starting", callPc'[o] = "idle" PROVE result'[o] \in {"ok", "threw"}
  <2>1. TryStart(o)
    BY <1>0, <1>3 DEF GoTo, End, At, OperationStep, IgnoreStart, BeginStart, ValidationFails,
       ValidationPasses, PreStartHookEnds, Retry, AwaitReady, StartThrew, RetryLater, CleanUp,
       StartGivesUp, PostStartHookEnds, IgnoreStop, BeginStop, PreStopHookEnds, CallStop,
       ProcessStopped, PostStopHookEnds, StopDone, StopFails, StopGivesUp, RestartUnknown,
       BeginRestart
  <2>2. result'[o] = "threw"
    BY <1>0, <1>3, <2>1
       DEF TryStart, CallStart, PM!StartAccepted, PM!StartRefused, PM!Return, ProcTypes
  <2> QED
    BY <2>2
<1> QED
  BY <1>1, <1>2, <1>3, AwaitMoves

\* What is known of the awaits stays known.
LEMMA AwaitsStep ==
  ASSUME ChildInv, AwaitsKnown, [Next]_vars
  PROVE  AwaitsKnown'
<1>0. /\ opPc \in [Op -> {"none", "ended"} \cup EntryPc \cup MidPc]
      /\ stage \in [Op -> Stage] /\ ProcTypes
  BY DEF ChildInv, SerialInv, TypeInv
<1>1. ASSUME NEW o \in Op, NEW what \in Kind, NEW k \in Key \cup {None}, Submit(o, what, k)
      PROVE  AwaitsKnown'
  BY <1>0, <1>1, AwaitMoves
     DEF Submit, Call, Enqueue, GoTo, EntryPc, MidPc, processVars, AwaitsKnown, CallReturned
<1>2. ASSUME NEW o \in Op, Admit(o) \/ Release(o) \/ \E k \in Key : Share(o, k)
      PROVE  AwaitsKnown'
  BY <1>0, <1>2
     DEF Admit, Begin, Release, Forget, Share, Join, engineVars, processVars, AwaitsKnown,
         CallReturned, Unfinished
<1>3. ASSUME NEW o \in Op, OperationStep(o) PROVE AwaitsKnown'
  BY <1>3, OperationAwaits
<1>4. ASSUME NEW o \in Op, ProcessStep(o) PROVE AwaitsKnown'
  <2>1. PM!CallStep(o)
    BY <1>4 DEF ProcessStep, PM!CallStep
  <2>2. UNCHANGED <<opPc, stage>>
    BY <1>4 DEF ProcessStep, lockVars, engineVars
  <2>3. callPc'[o] # "idle" \/ result'[o] \in {"ok", "threw"}
    BY <1>0, <1>4
       DEF ProcessStep, ProcTypes, PM!SpawnThrows, PM!SpawnSucceeds, PM!SpawnFails, PM!Return,
           PM!StopNothing, PM!StopWithoutProcess, PM!StopJoins, PM!StopBegins, PM!StopSettles,
           PM!WaitEnds, PM!WaitTrustsKill, PM!WaitEscalates, PM!WaitGivesUp
  <2>4. \A p \in Op : p # o => callPc'[p] = callPc[p] /\ result'[p] = result[p]
    BY <1>0, <2>1, CallIsOwn
  <2> QED
    BY <2>2, <2>3, <2>4, AwaitMoves DEF AwaitsKnown, Unfinished
<1>5. ASSUME NEW o \in Op, ReadyTimeout(o) PROVE AwaitsKnown'
  <2>1. CASE waiter = None
    <3>1. UNCHANGED <<opPc, stage, callPc, result>>
      BY <1>5, <2>1 DEF ReadyTimeout, lockVars, processVars
    <3> QED
      BY <3>1 DEF AwaitsKnown, Unfinished, CallReturned
  <2>2. CASE waiter # None
    <3>1. waiter \in Op
      BY <2>2 DEF ChildInv, SerialInv, TypeInv, EngineTypeOK
    <3>2. PM!StopCall(waiter, TRUE) /\ GoTo(waiter, "cleanUp") /\ UNCHANGED stage
      BY <1>5, <2>2 DEF ReadyTimeout, CleanUp, lockVars
    <3>3. \A p \in Op : p # waiter => callPc'[p] = callPc[p] /\ result'[p] = result[p]
      BY <1>0, <3>1, <3>2, CallIsOwn DEF PM!CallStep
    <3> QED
      BY <1>0, <3>1, <3>2, <3>3, AwaitMoves DEF GoTo, MidPc
  <2> QED
    BY <2>1, <2>2
<1>6. CASE ReadySignal
  <2>1. waiter \in Op
    BY <1>6 DEF ReadySignal, ChildInv, SerialInv, TypeInv, EngineTypeOK
  <2>2. /\ UNCHANGED <<callPc, result>>
        /\ \/ GoTo(waiter, "postStart") /\ UNCHANGED stage
           \/ GoTo(waiter, "ended") /\ stage' = [stage EXCEPT ![waiter] = "done"]
    BY <1>6 DEF ReadySignal, ServerIsReady, End, Finish, lockVars, processVars
  <2> QED
    BY <1>0, <2>1, <2>2, AwaitMoves DEF GoTo, MidPc, Unfinished
<1>7. ASSUME NEW s \in PM!Slot, ChildExits(s) PROVE AwaitsKnown'
  BY <1>7 DEF ChildExits, PM!ChildExit, PM!callVars, lockVars, engineVars, AwaitsKnown,
     Unfinished, CallReturned
<1>8. CASE UNCHANGED vars
  BY <1>8 DEF vars, lockVars, engineVars, processVars, AwaitsKnown, Unfinished, CallReturned
<1> QED
  BY <1>1, <1>2, <1>3, <1>4, <1>5, <1>6, <1>7, <1>8 DEF Next, KeysOf

\* The await of an active operation ends: the lock keeps other operations out
\* of the detector and out of the process manager's chain of stops.
LEMMA ActiveAwaitEnds ==
  ASSUME ChildInv, AwaitsKnown, PMS!StopsRunOneByOne, NEW o \in Op, stage[o] = "active"
  PROVE  AwaitEnds(o)
<1>1. opPc[o] \in EntryPc \cup MidPc
  BY DEF AwaitsKnown, Unfinished
<1>2. opPc[o] = "ready" => waiter = o /\ o \in timers
  BY DEF ChildInv, SerialInv, WaiterLinks
<1>3. callPc[o] \in {"idle", "window"} \cup PM!StopPc /\ CallAt(o)
  BY DEF ChildInv, ProcTypes
<1>4. ASSUME callPc[o] \in PM!StopPc PROVE PM!AtHead(o)
  <2>1. PICK h \in Op : PMS!AtHead(h) /\ callPc[h] \in PMS!StopPc
    BY <1>4 DEF PMS!StopsRunOneByOne, PM!StopPc, PMS!StopPc, PM!WaitPc, PMS!WaitPc
  <2>2. callPc[h] # "idle"
    BY <2>1 DEF PMS!StopPc, PMS!WaitPc
  <2>3. stage[h] = "active"
    BY <2>2, CallersActive
  <2>4. h = o
    BY <2>3, OneActive DEF ChildInv, SerialInv
  <2> QED
    BY <2>1, <2>4 DEF PM!AtHead, PMS!AtHead
<1>5. opPc[o] = "starting" =>
        callPc[o] = "window" \/ (CallReturned(o) /\ result[o] \in {"ok", "threw"})
  BY <1>3 DEF CallAt, AwaitsKnown, CallReturned
<1>6. opPc[o] \in {"cleanUp", "stopping", "stopCleanUp"} =>
        CallReturned(o) \/ (callPc[o] \in PM!StopPc /\ PM!AtHead(o))
  BY <1>3, <1>4 DEF CallAt, CallReturned
<1> QED
  BY <1>1, <1>2, <1>5, <1>6 DEF AwaitEnds

\* EveryRequestProceeds: of the requests that come while the lock has its entry
\* (withServerLock) none is ever left where nothing goes on, in the engine, the
\* lock, the detector or the process manager's chain of stops together.  That
\* what goes on also ends is EveryOperationEnds.
THEOREM EngineServesEveryRequest ==
  ASSUME ~LateCalls, PromptKill PROVE Spec => []EveryRequestProceeds
<1>1. EngineInit => AwaitsKnown
  BY DEF EngineInit, LockInit, AwaitsKnown, Unfinished
<1>2. ChildInv /\ AwaitsKnown /\ [Next]_vars => AwaitsKnown'
  BY AwaitsStep
<1>3. PMS!ProcessSpec => []PMS!StopsRunOneByOne
  BY PMS!StopsTakeTurns, StartsAreBounded, KillIsPromptOrNot
<1>4. ASSUME ChildInv, AwaitsKnown, PMS!StopsRunOneByOne, NobodyWaitsForNothing
      PROVE  EveryRequestProceeds
  BY <1>4, ActiveAwaitEnds DEF NobodyWaitsForNothing, EveryRequestProceeds
<1> QED
  BY <1>1, <1>2, <1>3, <1>4, WholeInvariant, EngineKeepsProcesses, SameSpec, EngineKeepsLock,
     LockServesEveryCall, PTL DEF Spec
=============================================================================
