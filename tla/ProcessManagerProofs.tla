------------------------ MODULE ProcessManagerProofs -----------------------
(* What holds of the process manager for any number of callers, whatever   *)
(* they overlap, and any number of starts: the objects' states are true to *)
(* the children, and no live child is let go unless it was killed; and     *)
(* what holds besides in the behaviours whose calls do not overlap.        *)
EXTENDS SerialProcess, Functions, TLAPS

(***************************************************************************)
(* The inductive invariant.  Beside the types it says that slots beyond    *)
(* starts are unused, which keeps a new start from touching an old child,  *)
(* and that a stop which waits is the head of the chain, so that ending it *)
(* removes its own entry.                                                  *)
(***************************************************************************)
SlotsInOrder ==
  /\ current \in 0..starts
  /\ \A c \in Caller : target[c] \in 0..starts
  /\ \A s \in Slot : s > starts => life[s] = "none"

WaiterIsHead == \A c \in Caller : callPc[c] \in WaitPc => AtHead(c)

ProcessInv ==
  /\ ProcessTypeOK
  /\ SlotsInOrder
  /\ WaiterIsHead
  /\ RunningHasLiveChild
  /\ LetGoOnlyWhenKilled

(***************************************************************************)
(* Lemmas about the parts the actions share.                               *)
(***************************************************************************)

\* A call that returns leaves the callers' records well formed and its own
\* program counter outside the waits.
LEMMA ReturnKeeps ==
  ASSUME ProcessTypeOK, SlotsInOrder,
         NEW c \in Caller, NEW outcome \in {"ok", "threw"}, Return(c, outcome)
  PROVE  /\ callPc' \in [Caller -> {"idle", "window"} \cup StopPc]
         /\ target' \in [Caller -> 0..MaxStarts]
         /\ result' \in [Caller -> {"none", "ok", "threw"}]
         /\ \A d \in Caller : target'[d] \in 0..starts
         /\ \A d \in Caller : callPc'[d] \in WaitPc => d # c /\ callPc[d] \in WaitPc
PROOF
  <1> USE MaxStartsIsNat
  <1>1. \A d \in Caller : target'[d] = IF d = c THEN 0 ELSE target[d]
    BY DEF Return, ProcessTypeOK
  <1>2. \A d \in Caller : callPc'[d] = IF d = c THEN "idle" ELSE callPc[d]
    BY DEF Return, ProcessTypeOK
  <1>3. starts \in 0..MaxStarts
    BY DEF ProcessTypeOK
  <1>4. \A d \in Caller : target'[d] \in 0..starts
    BY <1>1, <1>3 DEF SlotsInOrder
  <1> QED
    BY <1>2, <1>4 DEF Return, ProcessTypeOK, WaitPc

\* Ending the stop at the head of the chain keeps every waiting stop at its
\* head: the one that ends was the only one that could wait.
LEMMA SettlingKeeps ==
  ASSUME ProcessTypeOK, SlotsInOrder, WaiterIsHead,
         NEW c \in Caller, NEW outcome \in {"ok", "threw"},
         AtHead(c), StopSettles(c, outcome)
  PROVE  /\ stopLocks' \in Seq(Caller)
         /\ host \in {"up", "crashed", "down"} => host' \in {"up", "crashed", "down"}
         /\ \A d \in Caller : callPc'[d] \in WaitPc => FALSE
         /\ callPc' \in [Caller -> {"idle", "window"} \cup StopPc]
         /\ target' \in [Caller -> 0..MaxStarts]
         /\ result' \in [Caller -> {"none", "ok", "threw"}]
         /\ \A d \in Caller : target'[d] \in 0..starts
PROOF
  <1>1. stopLocks \in Seq(Caller) /\ stopLocks # <<>>
    BY DEF ProcessTypeOK, AtHead
  <1>2. stopLocks' \in Seq(Caller)
    BY <1>1 DEF StopSettles
  <1>3. Return(c, outcome)
    BY DEF StopSettles
  <1>4. \A d \in Caller : callPc'[d] \in WaitPc => FALSE
    BY <1>3, ReturnKeeps DEF WaiterIsHead, AtHead
  <1> QED
    BY <1>2, <1>3, <1>4, ReturnKeeps DEF StopSettles

\* So does a stop that rejects and is called again at once.
LEMMA AgainKeeps ==
  ASSUME ProcessTypeOK, SlotsInOrder, WaiterIsHead,
         NEW c \in Caller, callPc[c] \in WaitPc, StopAgain(c)
  PROVE  /\ stopLocks' \in Seq(Caller)
         /\ host' = host /\ result' = result
         /\ \A d \in Caller : callPc'[d] \in WaitPc => FALSE
         /\ callPc' \in [Caller -> {"idle", "window"} \cup StopPc]
         /\ target' \in [Caller -> 0..MaxStarts]
         /\ \A d \in Caller : target'[d] \in 0..starts
PROOF
  <1> USE MaxStartsIsNat
  <1>1. AtHead(c) /\ stopLocks \in Seq(Caller) /\ stopLocks # <<>>
    BY DEF ProcessTypeOK, AtHead, WaiterIsHead
  <1>2. stopLocks' \in Seq(Caller) /\ host' = host /\ result' = result
    BY <1>1 DEF StopAgain
  <1>3. \A d \in Caller : callPc'[d] = IF d = c THEN "queuedForce" ELSE callPc[d]
    BY DEF StopAgain, ProcessTypeOK
  <1>4. \A d \in Caller : callPc'[d] \in WaitPc => FALSE
    BY <1>1, <1>3 DEF WaiterIsHead, AtHead, WaitPc
  <1>5. callPc' \in [Caller -> {"idle", "window"} \cup StopPc]
    BY DEF StopAgain, ProcessTypeOK, StopPc
  <1>6. target' \in [Caller -> 0..MaxStarts] /\ \A d \in Caller : target'[d] \in 0..starts
    BY DEF StopAgain, ProcessTypeOK, SlotsInOrder
  <1> QED
    BY <1>2, <1>4, <1>5, <1>6

(***************************************************************************)
(* The invariant holds initially, and one lemma for each action.           *)
(***************************************************************************)
LEMMA InitEstablishes == ProcessInit => ProcessInv
PROOF
  <1> SUFFICES ASSUME ProcessInit PROVE ProcessInv
    OBVIOUS
  <1> USE MaxStartsIsNat
  <1>1. ProcessTypeOK
    BY DEF ProcessInit, ProcessTypeOK, ServerState, Slot
  <1>2. SlotsInOrder
    BY DEF ProcessInit, SlotsInOrder, Slot
  <1>3. WaiterIsHead
    BY DEF ProcessInit, WaiterIsHead, WaitPc
  <1>4. RunningHasLiveChild /\ LetGoOnlyWhenKilled
    BY DEF ProcessInit, RunningHasLiveChild, LetGoOnlyWhenKilled, Slot
  <1> QED
    BY <1>1, <1>2, <1>3, <1>4 DEF ProcessInv

\* Steps that leave the objects and the children alone keep what the
\* invariant says of them.
LEMMA ObjectsKept ==
  ASSUME ProcessInv, UNCHANGED <<objectVars, childVars>>
  PROVE  /\ RunningHasLiveChild' /\ LetGoOnlyWhenKilled'
         /\ current' \in 0..starts'
         /\ starts' = starts
         /\ \A s \in Slot : s > starts' => life'[s] = "none"
PROOF
  BY DEF ProcessInv, objectVars, childVars, RunningHasLiveChild, LetGoOnlyWhenKilled, SlotsInOrder

\* A refused start keeps the invariant: it changes the call only.
LEMMA RefusedKeeps ==
  ASSUME ProcessInv, NEW c \in Caller, NEW valid \in BOOLEAN, StartRefused(c, valid)
  PROVE  ProcessInv'
PROOF
  <1> USE DEF ProcessInv
  <1>1. Return(c, "threw") /\ UNCHANGED <<objectVars, childVars, stopLocks, host>>
    BY DEF StartRefused
  <1>2. ProcessTypeOK'
    BY <1>1, ReturnKeeps DEF ProcessTypeOK, objectVars, childVars
  <1>3. SlotsInOrder'
    BY <1>1, ReturnKeeps, ObjectsKept DEF SlotsInOrder
  <1>4. WaiterIsHead'
    BY <1>1, ReturnKeeps DEF WaiterIsHead, AtHead
  <1> QED
    BY <1>1, <1>2, <1>3, <1>4, ObjectsKept

\* A stop that settles and touches nothing but the chain.
LEMMA QuietSettlingKeeps ==
  ASSUME ProcessInv, NEW c \in Caller, NEW outcome \in {"ok", "threw"}, AtHead(c),
         StopSettles(c, outcome), UNCHANGED <<objectVars, childVars>>
  PROVE  ProcessInv'
PROOF
  <1> USE DEF ProcessInv
  <1>1. ProcessTypeOK'
    BY SettlingKeeps DEF ProcessTypeOK, objectVars, childVars
  <1>2. SlotsInOrder'
    BY SettlingKeeps, ObjectsKept DEF SlotsInOrder
  <1>3. WaiterIsHead'
    BY SettlingKeeps DEF WaiterIsHead
  <1> QED
    BY <1>1, <1>2, <1>3, ObjectsKept

\* An accepted start keeps it: the object it replaces lets go of a child only
\* if that one was killed.
LEMMA AcceptedKeeps ==
  ASSUME ProcessInv, NEW c \in Caller, StartAccepted(c)
  PROVE  ProcessInv'
PROOF
  <1> USE MaxStartsIsNat DEF ProcessInv
  <1> DEFINE new == starts + 1
             old == current
             oldProcess == IF old = 0 THEN 0 ELSE RecoveredProcess(old)
  <1>1. /\ starts' = new /\ current' = new
        /\ old # 0 => ~Busy(old)
        /\ state' = [s \in Slot |-> IF s = new THEN "STARTING"
                                    ELSE IF s = old THEN RecoveredState(s) ELSE state[s]]
        /\ process' = [s \in Slot |-> IF s \in {old, new} THEN oldProcess ELSE process[s]]
        /\ UNCHANGED <<life, killed, asked, crashed, stopLocks, host>>
        /\ callPc[c] = "idle"
    BY DEF StartAccepted, childVars, CanAct
  <1>2. new \in Slot /\ starts \in 0..MaxStarts /\ new \in 1..MaxStarts
    BY DEF StartAccepted, ProcessTypeOK, Slot
  <1>3. oldProcess \in 0..MaxStarts
    BY DEF ProcessTypeOK, RecoveredProcess, Slot
  <1>4. \A s \in Slot : RecoveredState(s) \in ServerState
    BY DEF ProcessTypeOK, RecoveredState, ServerState
  <1>5. mcSession' \in [Slot -> 0..MaxStarts] /\ registered' \in 0..MaxStarts
    BY <1>2 DEF StartAccepted, ProcessTypeOK, RegisteredAfterClose, Slot
  <1>6. /\ callPc' \in [Caller -> {"idle", "window"} \cup StopPc]
        /\ target' \in [Caller -> 0..MaxStarts]
        /\ result' \in [Caller -> {"none", "ok", "threw"}]
        /\ \A d \in Caller : target'[d] \in 0..new
        /\ \A d \in Caller : callPc'[d] \in WaitPc => callPc[d] \in WaitPc
    <2>1. CASE Return(c, "threw")
      <3>1. \A d \in Caller : target'[d] \in 0..starts
        BY <2>1, ReturnKeeps
      <3> QED
        BY <2>1, <3>1, <1>2, ReturnKeeps
    <2>2. CASE /\ callPc' = [callPc EXCEPT ![c] = "window"]
               /\ target' = [target EXCEPT ![c] = new]
               /\ result' = [result EXCEPT ![c] = "none"]
      <3>1. \A d \in Caller : target[d] \in 0..starts
        BY DEF SlotsInOrder
      <3>2. \A d \in Caller : target'[d] = IF d = c THEN new ELSE target[d]
        BY <2>2 DEF ProcessTypeOK
      <3>3. \A d \in Caller : target'[d] \in 0..new
        BY <3>1, <3>2, <1>2
      <3> QED
        BY <2>2, <3>3, <1>2 DEF ProcessTypeOK, WaitPc
    <2> QED
      BY <2>1, <2>2 DEF StartAccepted
  <1>7. ProcessTypeOK'
    <2>1. state' \in [Slot -> ServerState]
      BY <1>1, <1>4 DEF ProcessTypeOK, ServerState
    <2>2. process' \in [Slot -> 0..MaxStarts]
      BY <1>1, <1>3 DEF ProcessTypeOK
    <2> QED
      BY <1>1, <1>2, <1>5, <1>6, <2>1, <2>2 DEF ProcessTypeOK
  <1>8. SlotsInOrder'
    BY <1>1, <1>2, <1>6 DEF SlotsInOrder, Slot
  <1>9. WaiterIsHead'
    BY <1>1, <1>6 DEF WaiterIsHead, AtHead
  <1>10. RunningHasLiveChild'
    <2> SUFFICES ASSUME NEW s \in Slot, state'[s] = "RUNNING"
                 PROVE  process'[s] = s /\ life'[s] = "live"
      BY DEF RunningHasLiveChild
    <2>1. s # new
      BY <1>1
    <2>2. s # old
      BY <1>1, <2>1 DEF Busy, Slot
    <2> QED
      BY <1>1, <2>1, <2>2 DEF RunningHasLiveChild
  <1>11. LetGoOnlyWhenKilled'
    <2> SUFFICES ASSUME NEW s \in Slot, life[s] = "live"
                 PROVE  process'[s] = s \/ killed[s]
      BY <1>1 DEF LetGoOnlyWhenKilled
    <2>1. s # new
      BY <1>2 DEF SlotsInOrder, Slot
    <2>2. process[s] = s \/ killed[s]
      BY DEF LetGoOnlyWhenKilled
    <2>3. CASE s = old
      BY <1>1, <2>2, <2>3 DEF RecoveredProcess, Slot
    <2>4. CASE s # old
      BY <1>1, <2>1, <2>2, <2>4
    <2> QED
      BY <2>3, <2>4
  <1> QED
    BY <1>7, <1>8, <1>9, <1>10, <1>11

\* A spawn that throws keeps it: the object it leaves STOPPED has no child of
\* its own.
LEMMA SpawnThrowsKeeps ==
  ASSUME ProcessInv, NEW c \in Caller, SpawnThrows(c)
  PROVE  ProcessInv'
PROOF
  <1> USE MaxStartsIsNat DEF ProcessInv
  <1> DEFINE s == target[c]
  <1>1. /\ Return(c, "threw")
        /\ state' = [state EXCEPT ![s] = "STOPPED"]
        /\ mcSession' = [mcSession EXCEPT ![s] = 0]
        /\ registered' = RegisteredAfterClose(s)
        /\ UNCHANGED <<current, starts, process, life, killed, asked, crashed, stopLocks, host>>
    BY DEF SpawnThrows, childVars
  <1>2. ProcessTypeOK'
    <2>1. state' \in [Slot -> ServerState]
      BY <1>1 DEF ProcessTypeOK, ServerState
    <2>2. mcSession' \in [Slot -> 0..MaxStarts]
      <3>1. mcSession' = [mcSession EXCEPT ![s] = 0]
        BY <1>1
      <3>2. mcSession \in [Slot -> 0..MaxStarts] /\ 0 \in 0..MaxStarts
        BY DEF ProcessTypeOK
      <3> QED
        BY <3>1, <3>2
    <2>3. registered' \in 0..MaxStarts
      BY <1>1 DEF ProcessTypeOK, RegisteredAfterClose
    <2> QED
      BY <1>1, <2>1, <2>2, <2>3, ReturnKeeps DEF ProcessTypeOK
  <1>3. SlotsInOrder'
    BY <1>1, ReturnKeeps DEF SlotsInOrder
  <1>4. WaiterIsHead'
    BY <1>1, ReturnKeeps DEF WaiterIsHead, AtHead
  <1>5. RunningHasLiveChild' /\ LetGoOnlyWhenKilled'
    BY <1>1 DEF RunningHasLiveChild, LetGoOnlyWhenKilled, ProcessTypeOK
  <1> QED
    BY <1>2, <1>3, <1>4, <1>5

\* What both outcomes of a spawn that returns a child have in common.
LEMMA SpawnKeeps ==
  ASSUME ProcessInv, NEW c \in Caller, NEW st, NEW lf,
         (st = "RUNNING" /\ lf = "live") \/ (st = "CRASHED" /\ lf = "failed"),
         process' = [process EXCEPT ![target[c]] = target[c]],
         life' = [life EXCEPT ![target[c]] = lf],
         state' = [state EXCEPT ![target[c]] = st],
         Return(c, "ok"),
         UNCHANGED <<current, starts, mcSession, registered, killed, asked, crashed, stopLocks, host>>
  PROVE  ProcessInv'
PROOF
  <1> USE MaxStartsIsNat DEF ProcessInv
  <1> DEFINE s == target[c]
  <1>0. st \in ServerState /\ lf \in {"none", "live", "failed", "gone"}
    BY DEF ServerState
  <1>1. s \in 0..starts /\ s \in 0..MaxStarts /\ starts \in 0..MaxStarts
    BY DEF SlotsInOrder, ProcessTypeOK
  <1>2. ProcessTypeOK'
    <2>1. state' \in [Slot -> ServerState]
      BY <1>0 DEF ProcessTypeOK
    <2>2. life' \in [Slot -> {"none", "live", "failed", "gone"}]
      BY <1>0 DEF ProcessTypeOK
    <2>3. process' \in [Slot -> 0..MaxStarts]
      BY <1>1 DEF ProcessTypeOK
    <2> QED
      BY <2>1, <2>2, <2>3, ReturnKeeps DEF ProcessTypeOK
  <1>3. SlotsInOrder'
    <2>1. \A t \in Slot : t > starts' => life'[t] = "none"
      <3> SUFFICES ASSUME NEW t \in Slot, t > starts PROVE life'[t] = "none"
        OBVIOUS
      <3>1. t # s
        BY <1>1 DEF Slot
      <3> QED
        BY <3>1 DEF SlotsInOrder, ProcessTypeOK
    <2> QED
      BY <2>1, ReturnKeeps DEF SlotsInOrder
  <1>4. WaiterIsHead'
    BY ReturnKeeps DEF WaiterIsHead, AtHead
  <1>5. RunningHasLiveChild' /\ LetGoOnlyWhenKilled'
    BY DEF RunningHasLiveChild, LetGoOnlyWhenKilled, ProcessTypeOK
  <1> QED
    BY <1>2, <1>3, <1>4, <1>5

\* A child's exit keeps it: the object of its own start stops being RUNNING.
LEMMA ChildExitKeeps ==
  ASSUME ProcessInv, NEW s \in Slot, ChildExit(s)
  PROVE  ProcessInv'
PROOF
  <1> USE MaxStartsIsNat DEF ProcessInv
  <1>1. /\ life' = [life EXCEPT ![s] = "gone"]
        /\ process' = [process EXCEPT ![s] = 0]
        /\ mcSession' = [mcSession EXCEPT ![s] = 0]
        /\ registered' = RegisteredAfterClose(s)
        /\ life[s] = "live"
        /\ UNCHANGED <<current, starts, killed, asked, callPc, target, result, stopLocks, host>>
        /\ crashed' \in SUBSET Slot
        /\ \E st \in {"STOPPED", "CRASHED"} : state' = [state EXCEPT ![s] = st]
    BY DEF ChildExit, callVars, ProcessTypeOK
  <1>2. ProcessTypeOK'
    BY <1>1 DEF ProcessTypeOK, ServerState, RegisteredAfterClose, Slot
  <1>3. SlotsInOrder'
    BY <1>1 DEF SlotsInOrder, ProcessTypeOK
  <1>4. WaiterIsHead'
    BY <1>1 DEF WaiterIsHead, AtHead
  <1>5. RunningHasLiveChild' /\ LetGoOnlyWhenKilled'
    BY <1>1 DEF RunningHasLiveChild, LetGoOnlyWhenKilled, ProcessTypeOK
  <1> QED
    BY <1>2, <1>3, <1>4, <1>5

\* A call of stop keeps it: it is only queued.
LEMMA StopCallKeeps ==
  ASSUME ProcessInv, NEW c \in Caller, NEW force \in BOOLEAN, StopCall(c, force)
  PROVE  ProcessInv'
PROOF
  <1> USE DEF ProcessInv
  <1>1. /\ callPc' = [callPc EXCEPT ![c] = IF force THEN "queuedForce" ELSE "queuedStop"]
        /\ result' = [result EXCEPT ![c] = "none"]
        /\ stopLocks' = Append(stopLocks, c)
        /\ UNCHANGED <<objectVars, childVars, target, host>>
    BY DEF StopCall
  <1>2. stopLocks \in Seq(Caller)
    BY DEF ProcessTypeOK
  <1>3. stopLocks' \in Seq(Caller) /\ stopLocks' # <<>>
    BY <1>1, <1>2
  <1>4. stopLocks # <<>> => Head(stopLocks') = Head(stopLocks)
    BY <1>1, <1>2
  <1>5. ProcessTypeOK'
    BY <1>1, <1>3 DEF ProcessTypeOK, StopPc, objectVars, childVars
  <1>6. SlotsInOrder'
    BY <1>1, ObjectsKept DEF SlotsInOrder
  <1>7. WaiterIsHead'
    BY <1>1, <1>3, <1>4 DEF WaiterIsHead, AtHead, WaitPc, ProcessTypeOK
  <1> QED
    BY <1>1, <1>5, <1>6, <1>7, ObjectsKept

\* A stop that finds no process keeps it.
LEMMA StopWithoutProcessKeeps ==
  ASSUME ProcessInv, NEW c \in Caller, StopWithoutProcess(c)
  PROVE  ProcessInv'
PROOF
  <1> USE MaxStartsIsNat DEF ProcessInv
  <1>1. /\ AtHead(c) /\ StopSettles(c, "ok")
        /\ current # 0
        /\ mcSession' = [mcSession EXCEPT ![current] = 0]
        /\ registered' = RegisteredAfterClose(current)
        /\ UNCHANGED <<current, starts, process, life, killed, asked, crashed>>
        /\ state' = [state EXCEPT ![current] = IF @ = "CRASHED" THEN @ ELSE "STOPPED"]
    BY DEF StopWithoutProcess, childVars
  <1>2. ProcessTypeOK'
    <2>1. state' = [state EXCEPT ![current] = "CRASHED"] \/ state' = [state EXCEPT ![current] = "STOPPED"]
      BY <1>1 DEF ProcessTypeOK
    <2>2. state' \in [Slot -> ServerState]
      BY <2>1 DEF ProcessTypeOK, ServerState
    <2>3. mcSession' \in [Slot -> 0..MaxStarts]
      <3>1. mcSession' = [mcSession EXCEPT ![current] = 0]
        BY <1>1
      <3>2. mcSession \in [Slot -> 0..MaxStarts] /\ 0 \in 0..MaxStarts
        BY DEF ProcessTypeOK
      <3> QED
        BY <3>1, <3>2
    <2>4. registered' \in 0..MaxStarts
      BY <1>1 DEF ProcessTypeOK, RegisteredAfterClose
    <2> QED
      BY <1>1, <2>2, <2>3, <2>4, SettlingKeeps DEF ProcessTypeOK
  <1>3. SlotsInOrder'
    BY <1>1, SettlingKeeps DEF SlotsInOrder
  <1>4. WaiterIsHead'
    BY <1>1, SettlingKeeps DEF WaiterIsHead
  <1>5. RunningHasLiveChild' /\ LetGoOnlyWhenKilled'
    BY <1>1 DEF RunningHasLiveChild, LetGoOnlyWhenKilled, ProcessTypeOK
  <1> QED
    BY <1>2, <1>3, <1>4, <1>5

\* A stop that joins another keeps it.
LEMMA StopJoinsKeeps ==
  ASSUME ProcessInv, NEW c \in Caller, StopJoins(c)
  PROVE  ProcessInv'
PROOF
  <1> USE DEF ProcessInv
  <1>1. /\ AtHead(c)
        /\ callPc' = [callPc EXCEPT ![c] = "waitJoin"]
        /\ target' = [target EXCEPT ![c] = current]
        /\ UNCHANGED <<objectVars, childVars, result, stopLocks, host>>
    BY DEF StopJoins
  <1>2. ProcessTypeOK'
    BY <1>1 DEF ProcessTypeOK, StopPc, WaitPc, objectVars, childVars
  <1>3. SlotsInOrder'
    BY <1>1, ObjectsKept DEF SlotsInOrder, ProcessTypeOK
  <1>4. WaiterIsHead'
    BY <1>1 DEF WaiterIsHead, AtHead, ProcessTypeOK
  <1> QED
    BY <1>1, <1>2, <1>3, <1>4, ObjectsKept

\* A stop that begins keeps it: the object is no longer RUNNING and still
\* refers to its child.
LEMMA StopBeginsKeeps ==
  ASSUME ProcessInv, NEW c \in Caller, NEW writable \in BOOLEAN, StopBegins(c, writable)
  PROVE  ProcessInv'
PROOF
  <1> USE MaxStartsIsNat DEF ProcessInv
  <1>1. /\ AtHead(c)
        /\ current # 0 /\ process[current] # 0
        /\ state' = [state EXCEPT ![current] = "STOPPING"]
        /\ asked' = asked \cup {process[current]}
        /\ target' = [target EXCEPT ![c] = current]
        /\ UNCHANGED <<current, starts, process, mcSession, registered, life, crashed, result, stopLocks, host>>
    BY DEF StopBegins
  <1>2. process[current] \in Slot
    BY <1>1 DEF ProcessTypeOK, Slot
  <1>3. callPc' = [callPc EXCEPT ![c] = "waitForce"] \/ callPc' = [callPc EXCEPT ![c] = "waitStop"]
    BY DEF StopBegins, ProcessTypeOK
  <1>4. killed' = killed \/ killed' = [killed EXCEPT ![process[current]] = TRUE]
    BY DEF StopBegins, KilledBySignal
  <1>5. ProcessTypeOK'
    <2>1. callPc' \in [Caller -> {"idle", "window"} \cup StopPc]
      BY <1>3 DEF ProcessTypeOK, StopPc, WaitPc
    <2>2. killed' \in [Slot -> BOOLEAN] /\ asked' \in SUBSET Slot
      BY <1>1, <1>2, <1>4 DEF ProcessTypeOK
    <2>3. state' \in [Slot -> ServerState] /\ target' \in [Caller -> 0..MaxStarts]
      BY <1>1 DEF ProcessTypeOK, ServerState
    <2> QED
      BY <1>1, <2>1, <2>2, <2>3 DEF ProcessTypeOK
  <1>6. SlotsInOrder'
    BY <1>1 DEF SlotsInOrder, ProcessTypeOK
  <1>7. WaiterIsHead'
    BY <1>1, <1>3 DEF WaiterIsHead, AtHead, ProcessTypeOK
  <1>8. RunningHasLiveChild'
    BY <1>1 DEF RunningHasLiveChild, ProcessTypeOK
  <1>9. LetGoOnlyWhenKilled'
    BY <1>1, <1>4 DEF LetGoOnlyWhenKilled, ProcessTypeOK
  <1> QED
    BY <1>5, <1>6, <1>7, <1>8, <1>9

\* A wait that ends in a SIGKILL keeps it.
LEMMA WaitEscalatesKeeps ==
  ASSUME ProcessInv, NEW c \in Caller, WaitEscalates(c)
  PROVE  ProcessInv'
PROOF
  <1> USE DEF ProcessInv
  <1>1. /\ callPc[c] = "waitStop"
        /\ callPc' = [callPc EXCEPT ![c] = "waitKill"]
        /\ UNCHANGED <<objectVars, life, asked, crashed, target, result, stopLocks, host>>
    BY DEF WaitEscalates, CanAct
  <1>2. killed' = killed \/ killed' = [killed EXCEPT ![process[target[c]]] = TRUE]
    BY DEF WaitEscalates, KilledBySignal
  <1>3. ProcessTypeOK'
    BY <1>1, <1>2 DEF ProcessTypeOK, StopPc, WaitPc, objectVars
  <1>4. SlotsInOrder'
    BY <1>1 DEF SlotsInOrder, objectVars
  <1>5. WaiterIsHead'
    BY <1>1 DEF WaiterIsHead, AtHead, WaitPc, ProcessTypeOK
  <1>6. RunningHasLiveChild' /\ LetGoOnlyWhenKilled'
    BY <1>1, <1>2 DEF RunningHasLiveChild, LetGoOnlyWhenKilled, ProcessTypeOK, objectVars
  <1> QED
    BY <1>3, <1>4, <1>5, <1>6

\* A stop that gives up keeps it: the object is STOPPED and still refers to its
\* child.
LEMMA WaitGivesUpKeeps ==
  ASSUME ProcessInv, NEW c \in Caller, NEW again \in BOOLEAN, WaitGivesUp(c, again)
  PROVE  ProcessInv'
PROOF
  <1> USE MaxStartsIsNat DEF ProcessInv
  <1> DEFINE s == target[c]
  <1>1. /\ callPc[c] \in WaitPc
        /\ IF again THEN StopAgain(c) ELSE StopSettles(c, "threw")
        /\ UNCHANGED <<current, starts, process, life, killed, asked, crashed>>
        /\ \/ UNCHANGED <<state, mcSession, registered>>
           \/ /\ state' = [state EXCEPT ![s] = "STOPPED"]
              /\ mcSession' = [mcSession EXCEPT ![s] = 0]
              /\ registered' = RegisteredAfterClose(s)
    BY DEF WaitGivesUp, WaitPc, childVars
  <1>2. AtHead(c)
    BY <1>1 DEF WaiterIsHead
  <1>7. /\ stopLocks' \in Seq(Caller)
        /\ host' \in {"up", "crashed", "down"}
        /\ \A d \in Caller : callPc'[d] \in WaitPc => FALSE
        /\ callPc' \in [Caller -> {"idle", "window"} \cup StopPc]
        /\ target' \in [Caller -> 0..MaxStarts]
        /\ result' \in [Caller -> {"none", "ok", "threw"}]
        /\ \A d \in Caller : target'[d] \in 0..starts
    <2>1. CASE again
      BY <1>1, <2>1, AgainKeeps DEF ProcessTypeOK
    <2>2. CASE ~again
      BY <1>1, <1>2, <2>2, SettlingKeeps DEF ProcessTypeOK
    <2> QED
      BY <2>1, <2>2
  <1>3. ProcessTypeOK'
    <2>1. state' \in [Slot -> ServerState]
      BY <1>1 DEF ProcessTypeOK, ServerState
    <2>2. mcSession' \in [Slot -> 0..MaxStarts]
      <3>1. mcSession' = mcSession \/ mcSession' = [mcSession EXCEPT ![s] = 0]
        BY <1>1
      <3>2. mcSession \in [Slot -> 0..MaxStarts] /\ 0 \in 0..MaxStarts
        BY DEF ProcessTypeOK
      <3> QED
        BY <3>1, <3>2
    <2>3. registered' \in 0..MaxStarts
      BY <1>1 DEF ProcessTypeOK, RegisteredAfterClose
    <2> QED
      BY <1>1, <1>7, <2>1, <2>2, <2>3 DEF ProcessTypeOK
  <1>4. SlotsInOrder'
    BY <1>1, <1>7 DEF SlotsInOrder
  <1>5. WaiterIsHead'
    BY <1>1, <1>7 DEF WaiterIsHead
  <1>6. RunningHasLiveChild' /\ LetGoOnlyWhenKilled'
    BY <1>1 DEF RunningHasLiveChild, LetGoOnlyWhenKilled, ProcessTypeOK
  <1> QED
    BY <1>3, <1>4, <1>5, <1>6

\* The shutdown keeps it.
LEMMA ShutdownKeeps ==
  ASSUME ProcessInv, Shutdown
  PROVE  ProcessInv'
PROOF
  <1> USE MaxStartsIsNat DEF ProcessInv
  <1>1. /\ host' = "down" /\ registered' = 0
        /\ mcSession' = [s \in Slot |-> IF s = current /\ process[s] = 0 THEN 0 ELSE mcSession[s]]
        /\ UNCHANGED <<current, starts, process, life, crashed, callPc, target, result, stopLocks>>
    BY DEF Shutdown, callVars
  <1>2. \/ UNCHANGED <<state, killed, asked>>
        \/ /\ state' = [state EXCEPT ![current] = "STOPPING"]
           /\ killed' = killed \/ killed' = [killed EXCEPT ![process[current]] = TRUE]
           /\ process[current] \in Slot
           /\ asked' = asked \cup {process[current]}
    <2>1. CASE current # 0 /\ process[current] # 0 /\ state[current] # "STOPPING" /\ stopLocks = <<>>
      <3>1. process[current] \in Slot
        BY <2>1 DEF ProcessTypeOK, Slot
      <3> QED
        BY <2>1, <3>1 DEF Shutdown, KilledBySignal
    <2>2. CASE ~(current # 0 /\ process[current] # 0 /\ state[current] # "STOPPING" /\ stopLocks = <<>>)
      BY <2>2 DEF Shutdown
    <2> QED
      BY <2>1, <2>2
  <1>3. ProcessTypeOK'
    <2>1. state' \in [Slot -> ServerState] /\ killed' \in [Slot -> BOOLEAN] /\ asked' \in SUBSET Slot
      BY <1>2 DEF ProcessTypeOK, ServerState
    <2>2. mcSession' \in [Slot -> 0..MaxStarts]
      BY <1>1 DEF ProcessTypeOK
    <2> QED
      BY <1>1, <2>1, <2>2 DEF ProcessTypeOK
  <1>4. SlotsInOrder' /\ WaiterIsHead'
    BY <1>1 DEF SlotsInOrder, WaiterIsHead, AtHead
  <1>5. RunningHasLiveChild' /\ LetGoOnlyWhenKilled'
    BY <1>1, <1>2 DEF RunningHasLiveChild, LetGoOnlyWhenKilled, ProcessTypeOK
  <1> QED
    BY <1>3, <1>4, <1>5

(***************************************************************************)
(* The theorems.                                                           *)
(***************************************************************************)
LEMMA StepKeeps == ProcessInv /\ [ProcessNext]_processVars => ProcessInv'
PROOF
  <1> SUFFICES ASSUME ProcessInv, [ProcessNext]_processVars PROVE ProcessInv'
    OBVIOUS
  <1>1. ASSUME NEW c \in Caller, CallStep(c) PROVE ProcessInv'
    <2>1. ASSUME NEW valid \in BOOLEAN, StartRefused(c, valid) PROVE ProcessInv'
      BY <2>1, RefusedKeeps
    <2>2. CASE StartAccepted(c)
      BY <2>2, AcceptedKeeps
    <2>3. CASE SpawnThrows(c)
      BY <2>3, SpawnThrowsKeeps
    <2>4. CASE SpawnSucceeds(c)
      <3>1. /\ process' = [process EXCEPT ![target[c]] = target[c]]
            /\ life' = [life EXCEPT ![target[c]] = "live"]
            /\ state' = [state EXCEPT ![target[c]] = "RUNNING"]
            /\ Return(c, "ok")
            /\ UNCHANGED <<current, starts, mcSession, registered, killed, asked, crashed, stopLocks, host>>
        BY <2>4 DEF SpawnSucceeds
      <3> QED
        BY <3>1, SpawnKeeps
    <2>5. CASE SpawnFails(c)
      <3>1. /\ process' = [process EXCEPT ![target[c]] = target[c]]
            /\ life' = [life EXCEPT ![target[c]] = "failed"]
            /\ state' = [state EXCEPT ![target[c]] = "CRASHED"]
            /\ Return(c, "ok")
            /\ UNCHANGED <<current, starts, mcSession, registered, killed, asked, crashed, stopLocks, host>>
        BY <2>5 DEF SpawnFails
      <3> QED
        BY <3>1, SpawnKeeps
    <2>6. ASSUME NEW force \in BOOLEAN, StopCall(c, force) PROVE ProcessInv'
      BY <2>6, StopCallKeeps
    <2>7. CASE StopNothing(c)
      BY <2>7, QuietSettlingKeeps DEF StopNothing
    <2>8. CASE StopWithoutProcess(c)
      BY <2>8, StopWithoutProcessKeeps
    <2>9. CASE StopJoins(c)
      BY <2>9, StopJoinsKeeps
    <2>10. ASSUME NEW writable \in BOOLEAN, StopBegins(c, writable) PROVE ProcessInv'
      BY <2>10, StopBeginsKeeps
    <2>11. CASE WaitEnds(c) \/ WaitTrustsKill(c)
      BY <2>11, QuietSettlingKeeps DEF WaitEnds, WaitTrustsKill, ProcessInv, WaiterIsHead
    <2>12. CASE WaitEscalates(c)
      BY <2>12, WaitEscalatesKeeps
    <2>13. ASSUME NEW again \in BOOLEAN, WaitGivesUp(c, again) PROVE ProcessInv'
      BY <2>13, WaitGivesUpKeeps
    <2> QED
      BY <1>1, <2>1, <2>2, <2>3, <2>4, <2>5, <2>6, <2>7, <2>8, <2>9, <2>10, <2>11, <2>12, <2>13
      DEF CallStep
  <1>2. ASSUME NEW s \in Slot, ChildExit(s) PROVE ProcessInv'
    BY <1>2, ChildExitKeeps
  <1>3. CASE Shutdown
    BY <1>3, ShutdownKeeps
  <1>4. CASE UNCHANGED processVars
    BY <1>4 DEF processVars, objectVars, childVars, callVars, ProcessInv, ProcessTypeOK,
                SlotsInOrder, WaiterIsHead, AtHead, RunningHasLiveChild, LetGoOnlyWhenKilled
  <1> QED
    BY <1>1, <1>2, <1>3, <1>4 DEF ProcessNext

\* The inductive invariant of ProcessManagerService holds for any number of
\* callers and starts, however start, stop and exit handlers interleave.
THEOREM ProcessInvariant == ProcessSpec => []ProcessInv
PROOF
  BY InitEstablishes, StepKeeps, PTL DEF ProcessSpec

\* Managed objects, children, sessions and the chain of stops stay well typed.
THEOREM ProcessTypeCorrect == ProcessSpec => []ProcessTypeOK
PROOF
  BY ProcessInvariant, PTL DEF ProcessInv

\* An object never reports RUNNING without the live child of its own start:
\* the spawn, error and exit handlers, the recovery of orphans and the stop
\* workflow cannot be interleaved so that the state outlives the child.
THEOREM RunningIsTrue == ProcessSpec => []RunningHasLiveChild
PROOF
  BY ProcessInvariant, PTL DEF ProcessInv

\* A live child is let go of only once a SIGKILL was delivered to it.
THEOREM NoChildAbandoned == ProcessSpec => []LetGoOnlyWhenKilled
PROOF
  BY ProcessInvariant, PTL DEF ProcessInv

(***************************************************************************)
(* The chain of stops: each stop that has not returned is in it once.      *)
(***************************************************************************)
StopsQueued ==
  /\ IsInjective(stopLocks)
  /\ {c \in Caller : callPc[c] \in StopPc} = Range(stopLocks)

\* One stop at a time acts on the server, and a stop that waits its turn is
\* behind one that has not returned.
StopsRunOneByOne ==
  /\ \A c, d \in Caller : callPc[c] \in WaitPc /\ callPc[d] \in WaitPc => c = d
  /\ \A c \in Caller : callPc[c] \in StopPc =>
       \E h \in Caller : /\ AtHead(h) /\ callPc[h] \in StopPc
                         /\ callPc[c] \in WaitPc => h = c

\* The head leaves a chain whose links are different.
LEMMA HeadLeaves ==
  ASSUME NEW q \in Seq(Caller), q # <<>>, IsInjective(q)
  PROVE  /\ Tail(q) \in Seq(Caller) /\ IsInjective(Tail(q))
         /\ Range(Tail(q)) = Range(q) \ {Head(q)}
PROOF
  <1> DEFINE t == Tail(q)
  <1>1. /\ t \in Seq(Caller) /\ Len(q) \in Nat \ {0} /\ Len(t) = Len(q) - 1
        /\ DOMAIN q = 1..Len(q) /\ DOMAIN t = 1..Len(q) - 1
        /\ \A i \in 1..Len(q) - 1 : t[i] = q[i + 1]
        /\ Head(q) = q[1]
    OBVIOUS
  <1> HIDE DEF t
  <1>2. IsInjective(t)
    <2> SUFFICES ASSUME NEW i \in DOMAIN t, NEW j \in DOMAIN t, t[i] = t[j] PROVE i = j
      BY DEF IsInjective
    <2>1. i + 1 \in DOMAIN q /\ j + 1 \in DOMAIN q /\ q[i + 1] = q[j + 1]
      BY <1>1
    <2>2. i + 1 = j + 1
      BY <2>1 DEF IsInjective
    <2> QED
      BY <1>1, <2>2
  <1>3. ASSUME NEW x \in Range(t) PROVE x \in Range(q) \ {Head(q)}
    <2>1. PICK i \in DOMAIN t : x = t[i]
      BY DEF Range
    <2>2. i + 1 \in DOMAIN q /\ 1 \in DOMAIN q /\ x = q[i + 1] /\ i + 1 # 1
      BY <1>1, <2>1
    <2>3. q[i + 1] # q[1]
      BY <2>2 DEF IsInjective
    <2> QED
      BY <1>1, <2>2, <2>3 DEF Range
  <1>4. ASSUME NEW x \in Range(q), x # Head(q) PROVE x \in Range(t)
    <2>1. PICK i \in DOMAIN q : x = q[i]
      BY DEF Range
    <2>2. i - 1 \in DOMAIN t /\ t[i - 1] = x
      BY <1>1, <1>4, <2>1
    <2> QED
      BY <2>2 DEF Range
  <1> QED
    BY <1>1, <1>2, <1>3, <1>4 DEF t

\* A caller that is not in the chain joins it at its end.
LEMMA CallerJoins ==
  ASSUME NEW q \in Seq(Caller), NEW c \in Caller, IsInjective(q), c \notin Range(q)
  PROVE  IsInjective(Append(q, c)) /\ Range(Append(q, c)) = Range(q) \cup {c}
PROOF
  <1> DEFINE a == Append(q, c)
  <1>1. /\ Len(q) \in Nat /\ DOMAIN q = 1..Len(q) /\ DOMAIN a = 1..Len(q) + 1
        /\ a[Len(q) + 1] = c
        /\ \A i \in 1..Len(q) : a[i] = q[i]
        /\ \A i \in 1..Len(q) + 1 : i \in 1..Len(q) \/ i = Len(q) + 1
    OBVIOUS
  <1> HIDE DEF a
  <1>2. IsInjective(a)
    BY <1>1 DEF IsInjective, Range
  <1>3. Range(a) = Range(q) \cup {c}
    BY <1>1 DEF Range
  <1> QED
    BY <1>2, <1>3 DEF a

\* The head of the chain returns, or calls stop again at once.
LEMMA HeadReturns ==
  ASSUME ProcessInv, StopsQueued, NEW c \in Caller, NEW outcome \in {"ok", "threw"},
         AtHead(c), StopSettles(c, outcome) \/ StopAgain(c)
  PROVE  StopsQueued'
PROOF
  <1>1. stopLocks \in Seq(Caller) /\ stopLocks # <<>> /\ Head(stopLocks) = c
    BY DEF ProcessInv, ProcessTypeOK, AtHead
  <1>2. callPc \in [Caller -> {"idle", "window"} \cup StopPc]
    BY DEF ProcessInv, ProcessTypeOK
  <1>3. /\ Tail(stopLocks) \in Seq(Caller) /\ IsInjective(Tail(stopLocks))
        /\ Range(Tail(stopLocks)) = Range(stopLocks) \ {c}
    BY <1>1, HeadLeaves DEF StopsQueued
  <1>4. c \in Range(stopLocks)
    BY <1>1 DEF Range
  <1>5. CASE StopSettles(c, outcome)
    <2>1. stopLocks' = Tail(stopLocks) /\ callPc' = [callPc EXCEPT ![c] = "idle"]
      BY <1>5 DEF StopSettles, Return
    <2>2. {d \in Caller : callPc'[d] \in StopPc} = {d \in Caller : callPc[d] \in StopPc} \ {c}
      BY <1>2, <2>1 DEF StopPc, WaitPc
    <2> QED
      BY <1>3, <2>1, <2>2 DEF StopsQueued
  <1>6. CASE StopAgain(c)
    <2>1. stopLocks' = Append(Tail(stopLocks), c) /\ callPc' = [callPc EXCEPT ![c] = "queuedForce"]
      BY <1>6 DEF StopAgain
    <2>2. IsInjective(stopLocks') /\ Range(stopLocks') = (Range(stopLocks) \ {c}) \cup {c}
      BY <1>3, <2>1, CallerJoins
    <2>3. {d \in Caller : callPc'[d] \in StopPc} = {d \in Caller : callPc[d] \in StopPc} \cup {c}
      BY <1>2, <2>1 DEF StopPc, WaitPc
    <2> QED
      BY <1>4, <2>2, <2>3 DEF StopsQueued
  <1> QED
    BY <1>5, <1>6

\* A step of the caller c that leaves the chain alone and c where it was, in a
\* stop or in none.
LEMMA ChainStays ==
  ASSUME ProcessInv, StopsQueued, NEW c \in Caller, UNCHANGED stopLocks,
         \A d \in Caller : d # c => callPc'[d] = callPc[d],
         callPc'[c] \in StopPc <=> callPc[c] \in StopPc
  PROVE  StopsQueued'
PROOF
  <1>1. {d \in Caller : callPc'[d] \in StopPc} = {d \in Caller : callPc[d] \in StopPc}
    OBVIOUS
  <1> QED
    BY <1>1 DEF StopsQueued

LEMMA ChainStep == ProcessInv /\ StopsQueued /\ [ProcessNext]_processVars => StopsQueued'
PROOF
  <1> SUFFICES ASSUME ProcessInv, StopsQueued, [ProcessNext]_processVars PROVE StopsQueued'
    OBVIOUS
  <1>0. callPc \in [Caller -> {"idle", "window"} \cup StopPc] /\ stopLocks \in Seq(Caller)
    BY DEF ProcessInv, ProcessTypeOK
  <1>1. ASSUME NEW c \in Caller, CallStep(c) PROVE StopsQueued'
    <2>1. ASSUME NEW valid \in BOOLEAN,
                 StartRefused(c, valid) \/ StartAccepted(c) \/ SpawnThrows(c) \/ SpawnSucceeds(c)
                   \/ SpawnFails(c)
          PROVE  StopsQueued'
      <3>1. UNCHANGED stopLocks /\ callPc[c] \in {"idle", "window"}
        BY <2>1 DEF StartRefused, StartAccepted, SpawnThrows, SpawnSucceeds, SpawnFails, CanAct
      <3>2. callPc' = [callPc EXCEPT ![c] = "idle"] \/ callPc' = [callPc EXCEPT ![c] = "window"]
        BY <2>1 DEF StartRefused, StartAccepted, SpawnThrows, SpawnSucceeds, SpawnFails, Return
      <3> QED
        BY <1>0, <3>1, <3>2, ChainStays DEF StopPc, WaitPc
    <2>2. ASSUME NEW force \in BOOLEAN, StopCall(c, force) PROVE StopsQueued'
      <3>1. /\ callPc[c] = "idle" /\ stopLocks' = Append(stopLocks, c)
            /\ \/ callPc' = [callPc EXCEPT ![c] = "queuedForce"]
               \/ callPc' = [callPc EXCEPT ![c] = "queuedStop"]
        BY <2>2 DEF StopCall, CanAct
      <3>2. c \notin Range(stopLocks)
        BY <3>1 DEF StopsQueued, StopPc, WaitPc
      <3>3. IsInjective(stopLocks') /\ Range(stopLocks') = Range(stopLocks) \cup {c}
        BY <1>0, <3>1, <3>2, CallerJoins DEF StopsQueued
      <3>4. {d \in Caller : callPc'[d] \in StopPc} = {d \in Caller : callPc[d] \in StopPc} \cup {c}
        BY <1>0, <3>1 DEF StopPc, WaitPc
      <3> QED
        BY <3>3, <3>4 DEF StopsQueued
    <2>3. CASE StopNothing(c) \/ StopWithoutProcess(c)
      BY <2>3, HeadReturns DEF StopNothing, StopWithoutProcess
    <2>4. CASE StopJoins(c) \/ \E writable \in BOOLEAN : StopBegins(c, writable)
      <3>1. /\ UNCHANGED stopLocks /\ callPc[c] \in StopPc
            /\ \E pc \in WaitPc : callPc' = [callPc EXCEPT ![c] = pc]
        BY <1>0, <2>4 DEF StopJoins, StopBegins, StopPc, WaitPc
      <3> QED
        BY <1>0, <3>1, ChainStays DEF StopPc
    <2>5. CASE WaitEnds(c) \/ WaitTrustsKill(c)
      BY <2>5, HeadReturns DEF WaitEnds, WaitTrustsKill, ProcessInv, WaiterIsHead
    <2>6. CASE WaitEscalates(c)
      BY <1>0, <2>6, ChainStays DEF WaitEscalates, CanAct, StopPc, WaitPc
    <2>7. ASSUME NEW again \in BOOLEAN, WaitGivesUp(c, again) PROVE StopsQueued'
      <3>1. callPc[c] \in WaitPc
        BY <2>7 DEF WaitGivesUp, WaitPc
      <3>2. StopSettles(c, "threw") \/ StopAgain(c)
        BY <2>7 DEF WaitGivesUp
      <3> QED
        BY <3>1, <3>2, HeadReturns DEF ProcessInv, WaiterIsHead
    <2> QED
      BY <1>1, <2>1, <2>2, <2>3, <2>4, <2>5, <2>6, <2>7 DEF CallStep
  <1>2. CASE (\E s \in Slot : ChildExit(s)) \/ Shutdown \/ UNCHANGED processVars
    <2>1. UNCHANGED <<callPc, stopLocks>>
      BY <1>2 DEF ChildExit, Shutdown, processVars, callVars
    <2> QED
      BY <2>1 DEF StopsQueued
  <1> QED
    BY <1>1, <1>2 DEF ProcessNext

LEMMA ChainInvariant == ProcessSpec => []StopsQueued
PROOF
  <1>1. ProcessInit => StopsQueued
    BY DEF ProcessInit, StopsQueued, IsInjective, Range, StopPc, WaitPc
  <1> QED
    BY <1>1, ChainStep, ProcessInvariant, PTL DEF ProcessSpec

\* StopsRunOneByOne: however many callers stop the server, and whatever becomes
\* of their stops, no two wait on it at once (stop, the chain of promises in
\* stopLocks), and none waits behind a stop that has returned.
THEOREM StopsTakeTurns == ProcessSpec => []StopsRunOneByOne
PROOF
  <1>1. ProcessInv /\ StopsQueued => StopsRunOneByOne
    <2> SUFFICES ASSUME ProcessInv, StopsQueued PROVE StopsRunOneByOne
      OBVIOUS
    <2>1. \A c, d \in Caller : callPc[c] \in WaitPc /\ callPc[d] \in WaitPc => c = d
      BY DEF ProcessInv, WaiterIsHead, AtHead
    <2>2. ASSUME NEW c \in Caller, callPc[c] \in StopPc
          PROVE  \E h \in Caller : /\ AtHead(h) /\ callPc[h] \in StopPc
                                   /\ callPc[c] \in WaitPc => h = c
      <3>1. c \in Range(stopLocks) /\ stopLocks \in Seq(Caller)
        BY <2>2 DEF StopsQueued, ProcessInv, ProcessTypeOK
      <3>2. stopLocks # <<>> /\ Head(stopLocks) \in Caller /\ Head(stopLocks) \in Range(stopLocks)
        BY <3>1 DEF Range
      <3>3. AtHead(Head(stopLocks)) /\ callPc[Head(stopLocks)] \in StopPc
        BY <3>2 DEF AtHead, StopsQueued
      <3>4. callPc[c] \in WaitPc => Head(stopLocks) = c
        BY DEF ProcessInv, WaiterIsHead, AtHead
      <3> QED
        BY <3>2, <3>3, <3>4
    <2> QED
      BY <2>1, <2>2 DEF StopsRunOneByOne
  <1> QED
    BY <1>1, ChainInvariant, ProcessInvariant, PTL

(***************************************************************************)
(* The behaviours without overlap.  Their invariant says that everything   *)
(* alive belongs to the object in the map: its child, its session and the  *)
(* call that works on it.                                                  *)
(***************************************************************************)
NoneLive == \A s \in Slot : life[s] # "live"

LiveIsCurrent ==
  \A s \in Slot : life[s] = "live" =>
    /\ s = current /\ process[s] = s
    /\ state[s] = "RUNNING" \/ (state[s] = "STOPPING" /\ s \in asked)

RunningIsReachable ==
  \A s \in Slot : state[s] = "RUNNING" => registered = s /\ mcSession[s] = s /\ s \notin asked

ProcessIsOwn ==
  \A s \in Slot : process[s] # 0 =>
    life[process[s]] = "failed" \/ (process[s] = s /\ life[s] = "live")

AskedWereSpawned == \A s \in asked : life[s] # "none"

CrashesUnasked == \A s \in crashed : life[s] = "gone" /\ s \notin asked

RegisteredIsCurrent == registered # 0 => registered = current /\ mcSession[current] = current

WindowIsCurrent ==
  \A c \in Caller : callPc[c] = "window" =>
    /\ current # 0 /\ target[c] = current /\ life[current] = "none" /\ NoneLive
    /\ host = "up" => registered = current

WaitIsCurrent ==
  \A c \in Caller : callPc[c] \in WaitPc =>
    current # 0 /\ target[c] = current /\ state[current] # "RUNNING"

WaitHasKilled ==
  \A c \in Caller :
    callPc[c] \in {"waitForce", "waitKill"} /\ life[current] = "live" => killed[current]

DownAsked == host = "down" => \A s \in Slot : life[s] = "live" => s \in asked

ObjectShape ==
  /\ LiveIsCurrent /\ RunningIsReachable /\ ProcessIsOwn /\ AskedWereSpawned
  /\ CrashesUnasked /\ RegisteredIsCurrent /\ DownAsked

CallShape == WindowIsCurrent /\ WaitIsCurrent /\ WaitHasKilled

SerialInv == ProcessInv /\ (serial => Serial /\ ObjectShape /\ CallShape)

\* Without overlap a caller in a call is the only one in a call.
LEMMA OthersIdle ==
  ASSUME Serial, NEW c \in Caller, callPc[c] # "idle", NEW d \in Caller, d # c
  PROVE  callPc[d] = "idle"
PROOF
  BY DEF Serial

\* While no child is live no object is RUNNING.
LEMMA NoneRunning ==
  ASSUME ProcessInv, NoneLive, NEW s \in Slot
  PROVE  state[s] # "RUNNING"
PROOF
  BY DEF ProcessInv, NoneLive, RunningHasLiveChild

\* Closing the session of the object in the map clears the registry.
LEMMA ClosingClears ==
  ASSUME RegisteredIsCurrent, current # 0
  PROVE  RegisteredAfterClose(current) = 0
PROOF
  BY DEF RegisteredIsCurrent, RegisteredAfterClose

\* A step that leaves objects and children alone and keeps the backend from
\* going down keeps what is said of them.
LEMMA ShapeOfObjectsKept ==
  ASSUME ObjectShape, UNCHANGED <<objectVars, childVars>>, host' # "down"
  PROVE  ObjectShape'
PROOF
  BY DEF ObjectShape, objectVars, childVars, LiveIsCurrent, RunningIsReachable, ProcessIsOwn,
         AskedWereSpawned, CrashesUnasked, RegisteredIsCurrent, DownAsked

\* Nor can such a step spoil what is said of the calls, if all it does to them
\* is to leave callers outside the window and the waits.
LEMMA ShapeOfCallsKept ==
  ASSUME CallShape, UNCHANGED <<objectVars, childVars>>, host = "up",
         \A d \in Caller : callPc'[d] \in {"window"} \cup WaitPc =>
                             callPc'[d] = callPc[d] /\ target'[d] = target[d]
  PROVE  CallShape'
PROOF
  BY DEF CallShape, objectVars, childVars, WindowIsCurrent, WaitIsCurrent, WaitHasKilled,
         NoneLive, WaitPc

\* A caller that returns is outside; the others stay where they were.
LEMMA ReturnLeaves ==
  ASSUME ProcessTypeOK, NEW c \in Caller, NEW outcome, Return(c, outcome)
  PROVE  \A d \in Caller : callPc'[d] \in {"window"} \cup WaitPc =>
                             callPc'[d] = callPc[d] /\ target'[d] = target[d]
PROOF
  <1> SUFFICES ASSUME NEW d \in Caller, callPc'[d] \in {"window"} \cup WaitPc
               PROVE  callPc'[d] = callPc[d] /\ target'[d] = target[d]
    OBVIOUS
  <1>1. callPc'[d] = IF d = c THEN "idle" ELSE callPc[d]
    BY DEF Return, ProcessTypeOK
  <1>2. d # c
    BY <1>1 DEF WaitPc
  <1> QED
    BY <1>1, <1>2 DEF Return, ProcessTypeOK

\* So does one that stops again.
LEMMA AgainLeaves ==
  ASSUME ProcessTypeOK, NEW c \in Caller, StopAgain(c)
  PROVE  \A d \in Caller : callPc'[d] \in {"window"} \cup WaitPc =>
                             callPc'[d] = callPc[d] /\ target'[d] = target[d]
PROOF
  <1> SUFFICES ASSUME NEW d \in Caller, callPc'[d] \in {"window"} \cup WaitPc
               PROVE  callPc'[d] = callPc[d] /\ target'[d] = target[d]
    OBVIOUS
  <1>1. callPc'[d] = IF d = c THEN "queuedForce" ELSE callPc[d]
    BY DEF StopAgain, ProcessTypeOK
  <1>2. d # c
    BY <1>1 DEF WaitPc
  <1> QED
    BY <1>1, <1>2 DEF StopAgain, ProcessTypeOK

\* The steps of a call that do not touch the server keep the shape.
LEMMA QuietCallShape ==
  ASSUME ProcessInv, ObjectShape, CallShape, NEW c \in Caller, NEW valid \in BOOLEAN,
         NEW force \in BOOLEAN,
         \/ StartRefused(c, valid) \/ StopCall(c, force) \/ StopNothing(c)
         \/ WaitEnds(c) \/ WaitTrustsKill(c)
  PROVE  ObjectShape' /\ CallShape'
PROOF
  <1>1. /\ UNCHANGED <<objectVars, childVars>> /\ host = "up"
        /\ host' # "down"
    BY DEF StartRefused, StopCall, StopNothing, WaitEnds, WaitTrustsKill, CanAct, StopSettles
  <1>2. CASE StopCall(c, force)
    <2>1. \A d \in Caller : callPc'[d] = IF d = c THEN callPc'[c] ELSE callPc[d]
      BY <1>2 DEF StopCall, ProcessInv, ProcessTypeOK
    <2>2. callPc'[c] \in {"queuedForce", "queuedStop"}
      BY <1>2 DEF StopCall, ProcessInv, ProcessTypeOK
    <2>3. \A d \in Caller : callPc'[d] \in {"window"} \cup WaitPc =>
                              callPc'[d] = callPc[d] /\ target'[d] = target[d]
      BY <1>2, <2>1, <2>2 DEF StopCall, WaitPc
    <2> QED
      BY <1>1, <2>3, ShapeOfObjectsKept, ShapeOfCallsKept
  <1>3. CASE ~StopCall(c, force)
    <2>1. \E outcome : Return(c, outcome)
      BY <1>3 DEF StartRefused, StopNothing, WaitEnds, WaitTrustsKill, StopSettles
    <2> QED
      BY <1>1, <2>1, ReturnLeaves, ShapeOfObjectsKept, ShapeOfCallsKept DEF ProcessInv
  <1> QED
    BY <1>2, <1>3

\* An accepted start finds nothing alive, since a live child makes the old
\* object busy, and no session in its way.
LEMMA AcceptedShape ==
  ASSUME ProcessInv, Serial, ObjectShape, CallShape, Serial',
         NEW c \in Caller, StartAccepted(c)
  PROVE  ObjectShape' /\ CallShape'
PROOF
  <1> USE MaxStartsIsNat
  <1> DEFINE new == starts + 1
             still == IF current = 0 THEN registered ELSE RegisteredAfterClose(current)
             inherited == IF current = 0 THEN 0 ELSE RecoveredProcess(current)
  <1>1. /\ new \in Slot /\ current \in 0..starts /\ starts \in 0..MaxStarts
        /\ life[new] = "none" /\ host = "up" /\ callPc[c] = "idle"
    BY DEF StartAccepted, CanAct, ProcessInv, ProcessTypeOK, SlotsInOrder, Slot
  <1>2. still = 0
    BY ClosingClears DEF ObjectShape, RegisteredIsCurrent
  <1>3. /\ starts' = new /\ current' = new /\ registered' = new
        /\ state' = [s \in Slot |-> IF s = new THEN "STARTING"
                                    ELSE IF s = current THEN RecoveredState(s) ELSE state[s]]
        /\ process' = [s \in Slot |-> IF s \in {current, new} THEN inherited ELSE process[s]]
        /\ mcSession' = [mcSession EXCEPT ![new] = new]
        /\ callPc' = [callPc EXCEPT ![c] = "window"]
        /\ target' = [target EXCEPT ![c] = new]
        /\ UNCHANGED <<childVars, host>>
    BY <1>2 DEF StartAccepted
  <1>4. \A d \in Caller : callPc'[d] = IF d = c THEN "window" ELSE callPc[d]
    BY <1>3 DEF ProcessInv, ProcessTypeOK
  <1>5. \A d \in Caller : callPc[d] = "idle"
    BY <1>1, <1>4 DEF Serial
  <1>6. \A s \in Slot : killed[s] => life[s] # "live"
    BY <1>1, <1>5 DEF Serial
  <1>7. NoneLive
    <2> SUFFICES ASSUME NEW s \in Slot, life[s] = "live" PROVE FALSE
      BY DEF NoneLive
    <2>1. s = current /\ process[s] = s /\ state[s] \in {"RUNNING", "STOPPING"} /\ current # 0
      BY DEF ObjectShape, LiveIsCurrent, Slot
    <2>2. RecoveredState(current) = state[current]
      BY <1>6, <2>1 DEF RecoveredState
    <2> QED
      BY <2>1, <2>2 DEF StartAccepted, Busy
  <1>8. \A s \in Slot : state'[s] # "RUNNING"
    <2> SUFFICES ASSUME NEW s \in Slot PROVE state'[s] # "RUNNING"
      OBVIOUS
    <2>1. state[s] # "RUNNING"
      BY <1>7, NoneRunning
    <2>2. RecoveredState(s) # "RUNNING"
      BY <2>1 DEF RecoveredState
    <2> QED
      BY <1>3, <2>1, <2>2
  <1>9. \A s \in Slot : process[s] # 0 => life[process[s]] = "failed"
    BY <1>7 DEF ObjectShape, ProcessIsOwn, NoneLive
  <1>10. inherited # 0 => life[inherited] = "failed"
    BY <1>1, <1>9 DEF RecoveredProcess, Slot
  <1>11. ProcessIsOwn'
    <2> SUFFICES ASSUME NEW s \in Slot, process'[s] # 0 PROVE life[process'[s]] = "failed"
      BY <1>3 DEF ProcessIsOwn, childVars
    <2> HIDE DEF inherited
    <2> QED
      BY <1>3, <1>9, <1>10
  <1>12. ObjectShape'
    <2>1. mcSession'[new] = new
      BY <1>1, <1>3 DEF ProcessInv, ProcessTypeOK
    <2>2. RegisteredIsCurrent' /\ DownAsked'
      BY <1>1, <1>3, <2>1 DEF RegisteredIsCurrent, DownAsked
    <2>3. LiveIsCurrent' /\ RunningIsReachable'
      BY <1>3, <1>7, <1>8 DEF LiveIsCurrent, RunningIsReachable, NoneLive, childVars
    <2>4. AskedWereSpawned' /\ CrashesUnasked'
      BY <1>3 DEF ObjectShape, AskedWereSpawned, CrashesUnasked, childVars
    <2> QED
      BY <1>11, <2>2, <2>3, <2>4 DEF ObjectShape
  <1>13. CallShape'
    <2>1. \A d \in Caller : callPc'[d] \in {"window"} \cup WaitPc => d = c /\ callPc'[d] = "window"
      BY <1>4, <1>5 DEF WaitPc
    <2>2. target'[c] = new /\ NoneLive'
      BY <1>3, <1>7 DEF ProcessInv, ProcessTypeOK, NoneLive, childVars
    <2>3. WindowIsCurrent'
      BY <1>1, <1>3, <2>1, <2>2 DEF WindowIsCurrent, childVars, Slot
    <2>4. WaitIsCurrent' /\ WaitHasKilled'
      BY <2>1 DEF WaitIsCurrent, WaitHasKilled, WaitPc
    <2> QED
      BY <2>3, <2>4 DEF CallShape
  <1> QED
    BY <1>12, <1>13

\* After the return of the only caller in a call nobody is in one.
LEMMA NobodyLeft ==
  ASSUME ProcessTypeOK, Serial, NEW c \in Caller, callPc[c] # "idle", NEW outcome,
         Return(c, outcome)
  PROVE  CallShape'
PROOF
  <1>1. \A d \in Caller : callPc'[d] = IF d = c THEN "idle" ELSE callPc[d]
    BY DEF Return, ProcessTypeOK
  <1>2. \A d \in Caller : callPc'[d] = "idle"
    BY <1>1, OthersIdle
  <1> QED
    BY <1>2 DEF CallShape, WindowIsCurrent, WaitIsCurrent, WaitHasKilled, WaitPc

\* A spawn, whichever way it ends, is of the object in the map.
LEMMA SpawnShape ==
  ASSUME ProcessInv, Serial, ObjectShape, CallShape, NEW c \in Caller,
         SpawnThrows(c) \/ SpawnSucceeds(c) \/ SpawnFails(c)
  PROVE  ObjectShape' /\ CallShape'
PROOF
  <1> USE MaxStartsIsNat
  <1>1. /\ host = "up" /\ host' = "up" /\ callPc[c] = "window" /\ current' = current
        /\ asked' = asked /\ crashed' = crashed
        /\ Return(c, "ok") \/ Return(c, "threw")
    BY DEF SpawnThrows, SpawnSucceeds, SpawnFails, CanAct, childVars
  <1>2. /\ target[c] = current /\ current \in Slot /\ life[current] = "none"
        /\ NoneLive /\ registered = current /\ mcSession[current] = current
    BY <1>1 DEF CallShape, WindowIsCurrent, ProcessInv, ProcessTypeOK, ObjectShape,
                RegisteredIsCurrent, Slot
  <1>3. CallShape'
    BY <1>1, NobodyLeft DEF ProcessInv
  <1>4. \A s \in Slot : state[s] # "RUNNING"
    BY <1>2, NoneRunning
  <1>5. \A s \in Slot : process[s] # 0 => life[process[s]] = "failed" /\ process[s] # current
    BY <1>2 DEF ObjectShape, ProcessIsOwn, NoneLive
  <1>6. current \notin asked /\ current \notin crashed
    BY <1>2 DEF ObjectShape, AskedWereSpawned, CrashesUnasked
  <1>7. DownAsked'
    BY <1>1 DEF DownAsked
  <1>8. CASE SpawnThrows(c)
    <2>1. /\ registered' = 0 /\ process' = process /\ life' = life
          /\ \A s \in Slot : state'[s] # "RUNNING"
      BY <1>2, <1>4, <1>8, ClosingClears
      DEF SpawnThrows, ObjectShape, childVars, ProcessInv, ProcessTypeOK, Slot
    <2> QED
      BY <1>1, <1>2, <1>3, <1>7, <2>1
      DEF ObjectShape, LiveIsCurrent, RunningIsReachable, ProcessIsOwn, AskedWereSpawned,
          CrashesUnasked, RegisteredIsCurrent, NoneLive
  <1>9. CASE SpawnSucceeds(c) \/ SpawnFails(c)
    <2>1. PICK l \in {"live", "failed"} :
            /\ \A s \in Slot : life'[s] = IF s = current THEN l ELSE life[s]
            /\ \A s \in Slot : process'[s] = IF s = current THEN current ELSE process[s]
            /\ \A s \in Slot : state'[s] = IF s = current
                                           THEN IF l = "live" THEN "RUNNING" ELSE "CRASHED"
                                           ELSE state[s]
            /\ registered' = registered /\ mcSession' = mcSession
      BY <1>2, <1>9 DEF SpawnSucceeds, SpawnFails, ProcessInv, ProcessTypeOK
    <2>2. LiveIsCurrent' /\ RunningIsReachable'
      BY <1>1, <1>2, <1>4, <1>6, <2>1 DEF LiveIsCurrent, RunningIsReachable, NoneLive
    <2>3. ProcessIsOwn'
      <3> SUFFICES ASSUME NEW s \in Slot, process'[s] # 0
                   PROVE  life'[process'[s]] = "failed" \/ (process'[s] = s /\ life'[s] = "live")
        BY DEF ProcessIsOwn
      <3>1. CASE s = current
        BY <2>1, <3>1
      <3>2. CASE s # current
        <4>1. process'[s] = process[s] /\ process[s] \in Slot
          BY <2>1, <3>2 DEF ProcessInv, ProcessTypeOK, Slot
        <4> QED
          BY <1>5, <2>1, <4>1
      <3> QED
        BY <3>1, <3>2
    <2>4. AskedWereSpawned' /\ CrashesUnasked'
      BY <1>1, <1>6, <2>1
      DEF ObjectShape, AskedWereSpawned, CrashesUnasked, ProcessInv, ProcessTypeOK
    <2>5. RegisteredIsCurrent'
      BY <1>1, <1>2, <2>1 DEF RegisteredIsCurrent
    <2> QED
      BY <1>3, <1>7, <2>2, <2>3, <2>4, <2>5 DEF ObjectShape
  <1> QED
    BY <1>8, <1>9

\* A child that exits is that of the object in the map, which was running or
\* was asked to stop; its session goes with it.
LEMMA ChildExitShape ==
  ASSUME ProcessInv, ObjectShape, CallShape, NEW s \in Slot, ChildExit(s)
  PROVE  ObjectShape' /\ CallShape'
PROOF
  <1> USE MaxStartsIsNat
  <1>1. /\ s = current /\ process[s] = s /\ life[s] = "live" /\ current # 0
        /\ state[s] = "RUNNING" \/ (state[s] = "STOPPING" /\ s \in asked)
    BY DEF ChildExit, ObjectShape, LiveIsCurrent, Slot
  <1>2. /\ host = "up" /\ host' = "up" /\ current' = current /\ registered' = 0
        /\ UNCHANGED <<asked, killed, callPc, target>>
        /\ \A t \in Slot : life'[t] = IF t = s THEN "gone" ELSE life[t]
        /\ \A t \in Slot : process'[t] = IF t = s THEN 0 ELSE process[t]
    BY <1>1, ClosingClears
    DEF ChildExit, ObjectShape, callVars, ProcessInv, ProcessTypeOK
  <1>3. \A t \in Slot : t # s => life[t] # "live"
    BY <1>1 DEF ObjectShape, LiveIsCurrent
  <1>4. \A t \in Slot : state'[t] # "RUNNING"
    <2>1. \A t \in Slot : t # s => state[t] # "RUNNING" /\ state'[t] = state[t]
      BY <1>3 DEF ChildExit, ProcessInv, ProcessTypeOK, RunningHasLiveChild
    <2>2. state'[s] \in {"STOPPED", "CRASHED"}
      BY DEF ChildExit, ProcessInv, ProcessTypeOK
    <2> QED
      BY <2>1, <2>2
  <1>5. ProcessIsOwn'
    <2> SUFFICES ASSUME NEW t \in Slot, process'[t] # 0 PROVE life'[process'[t]] = "failed"
      BY DEF ProcessIsOwn
    <2>1. t # s /\ process'[t] = process[t] /\ process[t] # 0
      BY <1>2
    <2>2. life[process[t]] = "failed" /\ process[t] \in Slot
      BY <1>3, <2>1 DEF ObjectShape, ProcessIsOwn, ProcessInv, ProcessTypeOK, Slot
    <2>3. process[t] # s
      BY <1>1, <2>2
    <2> QED
      BY <1>2, <2>1, <2>2, <2>3
  <1>6. CrashesUnasked'
    <2>1. state[s] # "STOPPING" => s \notin asked
      BY <1>1 DEF ObjectShape, RunningIsReachable
    <2>2. \A t \in crashed' : (t = s /\ state[s] # "STOPPING") \/ t \in crashed
      BY DEF ChildExit
    <2> QED
      BY <1>1, <1>2, <2>1, <2>2 DEF ObjectShape, CrashesUnasked, ProcessInv, ProcessTypeOK
  <1>7. AskedWereSpawned'
    BY <1>2 DEF ObjectShape, AskedWereSpawned, ProcessInv, ProcessTypeOK
  <1>8. LiveIsCurrent' /\ RunningIsReachable' /\ RegisteredIsCurrent' /\ DownAsked'
    BY <1>2, <1>3, <1>4
    DEF LiveIsCurrent, RunningIsReachable, RegisteredIsCurrent, DownAsked
  <1>9. CallShape'
    <2>1. WindowIsCurrent'
      BY <1>1, <1>2 DEF CallShape, WindowIsCurrent, NoneLive
    <2>2. WaitIsCurrent' /\ WaitHasKilled'
      BY <1>1, <1>2, <1>4 DEF CallShape, WaitIsCurrent, WaitHasKilled
    <2> QED
      BY <2>1, <2>2 DEF CallShape
  <1> QED
    BY <1>5, <1>6, <1>7, <1>8, <1>9 DEF ObjectShape

\* A stop of an object without a process finds nothing alive.
LEMMA StopWithoutProcessShape ==
  ASSUME ProcessInv, Serial, ObjectShape, CallShape, NEW c \in Caller, StopWithoutProcess(c)
  PROVE  ObjectShape' /\ CallShape'
PROOF
  <1> USE MaxStartsIsNat
  <1>1. /\ host = "up" /\ host' # "down" /\ current # 0 /\ process[current] = 0
        /\ callPc[c] # "idle" /\ Return(c, "ok") /\ registered' = 0
        /\ UNCHANGED <<current, process, childVars>>
    BY ClosingClears DEF StopWithoutProcess, StopSettles, ObjectShape
  <1>2. CallShape'
    BY <1>1, NobodyLeft DEF ProcessInv
  <1>3. NoneLive
    BY <1>1 DEF ObjectShape, LiveIsCurrent, NoneLive, Slot
  <1>4. \A s \in Slot : state[s] # "RUNNING"
    BY <1>3, NoneRunning
  <1>5. \A s \in Slot : state'[s] # "RUNNING"
    BY <1>4 DEF StopWithoutProcess, ProcessInv, ProcessTypeOK
  <1> QED
    BY <1>1, <1>2, <1>3, <1>5
    DEF ObjectShape, LiveIsCurrent, RunningIsReachable, ProcessIsOwn, AskedWereSpawned,
        CrashesUnasked, RegisteredIsCurrent, DownAsked, NoneLive, childVars

\* What a step by the only caller in a call leaves to be shown of the calls.
LEMMA OnlyCaller ==
  ASSUME ProcessTypeOK, Serial, NEW c \in Caller, callPc[c] # "idle",
         \A d \in Caller : d # c => callPc'[d] = callPc[d],
         callPc'[c] \in WaitPc =>
           current' # 0 /\ target'[c] = current' /\ state'[current'] # "RUNNING",
         callPc'[c] \in {"waitForce", "waitKill"} /\ life'[current'] = "live" => killed'[current'],
         callPc'[c] # "window"
  PROVE  CallShape'
PROOF
  <1>1. \A d \in Caller : d # c => callPc'[d] = "idle"
    BY OthersIdle
  <1>2. WindowIsCurrent'
    BY <1>1 DEF WindowIsCurrent
  <1>3. WaitIsCurrent'
    BY <1>1 DEF WaitIsCurrent, WaitPc
  <1>4. WaitHasKilled'
    BY <1>1 DEF WaitHasKilled
  <1> QED
    BY <1>2, <1>3, <1>4 DEF CallShape

\* A stop that joins waits on the object in the map.
LEMMA StopJoinsShape ==
  ASSUME ProcessInv, Serial, ObjectShape, CallShape, NEW c \in Caller, StopJoins(c)
  PROVE  ObjectShape' /\ CallShape'
PROOF
  <1>1. /\ UNCHANGED <<objectVars, childVars>> /\ host' # "down" /\ callPc[c] # "idle"
        /\ current # 0 /\ state[current] = "STOPPING"
    BY DEF StopJoins
  <1>2. \A d \in Caller : callPc'[d] = IF d = c THEN "waitJoin" ELSE callPc[d]
    BY DEF StopJoins, ProcessInv, ProcessTypeOK
  <1>3. target'[c] = current
    BY DEF StopJoins, ProcessInv, ProcessTypeOK
  <1>4. UNCHANGED <<current, state>>
    BY <1>1 DEF objectVars
  <1>5. CallShape'
    <2>1. callPc'[c] = "waitJoin" /\ \A d \in Caller : d # c => callPc'[d] = callPc[d]
      BY <1>2
    <2> QED
      BY <1>1, <1>3, <1>4, <2>1, OnlyCaller DEF ProcessInv
  <1> QED
    BY <1>1, <1>5, ShapeOfObjectsKept

\* A stop that begins asks the one child that can be alive.
LEMMA StopBeginsShape ==
  ASSUME ProcessInv, Serial, ObjectShape, CallShape, NEW c \in Caller,
         NEW writable \in BOOLEAN, StopBegins(c, writable)
  PROVE  ObjectShape' /\ CallShape'
PROOF
  <1> USE MaxStartsIsNat
  <1>1. /\ callPc[c] \in {"queuedStop", "queuedForce"} /\ current \in Slot
        /\ process[current] # 0 /\ host = "up" /\ host' = "up"
        /\ UNCHANGED <<current, process, mcSession, registered, life, crashed>>
        /\ asked' = asked \cup {process[current]}
    BY DEF StopBegins, ProcessInv, ProcessTypeOK, Slot
  <1>2. \A s \in Slot : state'[s] = IF s = current THEN "STOPPING" ELSE state[s]
    BY <1>1 DEF StopBegins, ProcessInv, ProcessTypeOK
  <1>3. life[process[current]] \in {"failed", "live"}
    BY <1>1 DEF ObjectShape, ProcessIsOwn
  <1>4. \A s \in Slot : state'[s] # "RUNNING"
    <2> SUFFICES ASSUME NEW s \in Slot, state[s] = "RUNNING" PROVE s = current
      BY <1>2
    <2> QED
      BY DEF ProcessInv, RunningHasLiveChild, ObjectShape, LiveIsCurrent
  <1>5. LiveIsCurrent'
    BY <1>1, <1>2 DEF ObjectShape, LiveIsCurrent
  <1>6. AskedWereSpawned' /\ CrashesUnasked'
    BY <1>1, <1>3 DEF ObjectShape, AskedWereSpawned, CrashesUnasked
  <1>7. RunningIsReachable' /\ ProcessIsOwn' /\ RegisteredIsCurrent' /\ DownAsked'
    BY <1>1, <1>4
    DEF ObjectShape, RunningIsReachable, ProcessIsOwn, RegisteredIsCurrent, DownAsked
  <1>8. /\ \A d \in Caller : d # c => callPc'[d] = callPc[d]
        /\ callPc'[c] = IF callPc[c] = "queuedForce" THEN "waitForce" ELSE "waitStop"
        /\ target'[c] = current
    BY DEF StopBegins, ProcessInv, ProcessTypeOK
  <1>9. callPc[c] = "queuedForce" /\ life[current] = "live" => killed'[current]
    <2> SUFFICES ASSUME callPc[c] = "queuedForce", life[current] = "live" PROVE killed'[current]
      OBVIOUS
    <2>1. process[current] = current
      BY <1>1 DEF ObjectShape, LiveIsCurrent
    <2>2. killed' = KilledBySignal(current)
      BY DEF StopBegins
    <2> QED
      BY <1>1, <2>1, <2>2 DEF KilledBySignal, ProcessInv, ProcessTypeOK
  <1>10. CallShape'
    <2>1. callPc'[c] \in WaitPc /\ callPc'[c] # "window" /\ callPc[c] # "idle"
      BY <1>1, <1>8 DEF WaitPc
    <2>2. current' # 0 /\ target'[c] = current' /\ state'[current'] # "RUNNING"
      BY <1>1, <1>4, <1>8 DEF Slot
    <2>3. callPc'[c] \in {"waitForce", "waitKill"} /\ life'[current'] = "live" => killed'[current']
      BY <1>1, <1>8, <1>9
    <2> QED
      BY <1>8, <2>1, <2>2, <2>3, OnlyCaller DEF ProcessInv
  <1> QED
    BY <1>5, <1>6, <1>7, <1>10 DEF ObjectShape

\* A wait that escalates kills the one child that can be alive.
LEMMA WaitEscalatesShape ==
  ASSUME ProcessInv, Serial, ObjectShape, CallShape, NEW c \in Caller, WaitEscalates(c)
  PROVE  ObjectShape' /\ CallShape'
PROOF
  <1> USE MaxStartsIsNat
  <1>1. /\ callPc[c] = "waitStop" /\ target[c] = current /\ current \in Slot
        /\ state[current] # "RUNNING" /\ host = "up" /\ host' = "up"
        /\ UNCHANGED <<objectVars, life, asked, crashed, target>>
        /\ killed' = KilledBySignal(current)
    BY DEF WaitEscalates, CanAct, CallShape, WaitIsCurrent, WaitPc, ProcessInv, ProcessTypeOK, Slot
  <1>2. ObjectShape'
    BY <1>1
    DEF ObjectShape, objectVars, LiveIsCurrent, RunningIsReachable, ProcessIsOwn,
        AskedWereSpawned, CrashesUnasked, RegisteredIsCurrent, DownAsked
  <1>3. life[current] = "live" => killed'[current]
    <2> SUFFICES ASSUME life[current] = "live" PROVE killed'[current]
      OBVIOUS
    <2>1. process[current] = current
      BY <1>1 DEF ObjectShape, LiveIsCurrent
    <2> QED
      BY <1>1, <2>1 DEF KilledBySignal, ProcessInv, ProcessTypeOK
  <1>4. /\ \A d \in Caller : d # c => callPc'[d] = callPc[d]
        /\ callPc'[c] = "waitKill"
    BY DEF WaitEscalates, ProcessInv, ProcessTypeOK
  <1>5. CallShape'
    <2>1. current' # 0 /\ target'[c] = current' /\ state'[current'] # "RUNNING"
      BY <1>1 DEF objectVars, Slot
    <2>2. life'[current'] = "live" => killed'[current']
      BY <1>1, <1>3 DEF objectVars
    <2> QED
      BY <1>1, <1>4, <2>1, <2>2, OnlyCaller DEF ProcessInv
  <1> QED
    BY <1>2, <1>5

\* A wait that gives up after a kill gives up on a child that is not alive,
\* and one that joined changes nothing.
LEMMA WaitGivesUpShape ==
  ASSUME ProcessInv, Serial, ObjectShape, CallShape, NEW c \in Caller,
         NEW again \in BOOLEAN, WaitGivesUp(c, again)
  PROVE  ObjectShape' /\ CallShape'
PROOF
  <1> USE MaxStartsIsNat
  <1>1. /\ callPc[c] \in {"waitForce", "waitKill", "waitJoin"} /\ callPc[c] \in WaitPc
        /\ target[c] = current /\ current \in Slot /\ state[current] # "RUNNING"
        /\ process[current] # 0 /\ ~killed[process[current]]
    BY DEF WaitGivesUp, CallShape, WaitIsCurrent, WaitPc, IsStopped, ProcessInv,
           ProcessTypeOK, Slot
  <1>2. /\ host = "up" /\ host' # "down"
        /\ UNCHANGED <<current, starts, process, childVars>>
    BY DEF WaitGivesUp, StopAgain, StopSettles
  <1>3. \/ UNCHANGED <<state, mcSession, registered>>
        \/ /\ callPc[c] # "waitJoin"
           /\ state' = [state EXCEPT ![current] = "STOPPED"]
           /\ registered' = RegisteredAfterClose(current)
    BY <1>1 DEF WaitGivesUp
  <1>4. ObjectShape'
    <2>1. CASE UNCHANGED <<state, mcSession, registered>>
      BY <1>2, <2>1, ShapeOfObjectsKept DEF objectVars
    <2>2. CASE /\ callPc[c] # "waitJoin"
               /\ state' = [state EXCEPT ![current] = "STOPPED"]
               /\ registered' = RegisteredAfterClose(current)
      <3>1. NoneLive
        <4>1. life[current] = "live" => killed[current] /\ process[current] = current
          BY <1>1, <2>2 DEF CallShape, WaitHasKilled, ObjectShape, LiveIsCurrent
        <4> QED
          BY <1>1, <4>1 DEF ObjectShape, LiveIsCurrent, NoneLive
      <3>2. \A s \in Slot : state[s] # "RUNNING"
        BY <3>1, NoneRunning
      <3>3. \A s \in Slot : state'[s] # "RUNNING"
        BY <2>2, <3>2 DEF ProcessInv, ProcessTypeOK
      <3>4. registered' = 0
        BY <1>1, <2>2, ClosingClears DEF ObjectShape, Slot
      <3> QED
        BY <1>2, <3>1, <3>3, <3>4
        DEF ObjectShape, LiveIsCurrent, RunningIsReachable, ProcessIsOwn, AskedWereSpawned,
            CrashesUnasked, RegisteredIsCurrent, DownAsked, NoneLive, childVars
    <2> QED
      BY <1>3, <2>1, <2>2
  <1>5. CallShape'
    <2>1. /\ callPc'[c] \in {"idle", "queuedForce"}
          /\ \A d \in Caller : d # c => callPc'[d] = callPc[d]
      BY DEF WaitGivesUp, StopAgain, StopSettles, Return, ProcessInv, ProcessTypeOK
    <2>2. callPc'[c] \notin WaitPc /\ callPc[c] # "idle"
      BY <1>1, <2>1 DEF WaitPc
    <2> QED
      BY <1>1, <2>1, <2>2, OnlyCaller DEF ProcessInv, WaitPc
  <1> QED
    BY <1>4, <1>5

\* A shutdown finds the one child that can be alive already asked to stop, or
\* running with no stop under way, and then asks it.
LEMMA ShutdownShape ==
  ASSUME ProcessInv, ObjectShape, CallShape, Shutdown
  PROVE  ObjectShape' /\ CallShape'
PROOF
  <1> USE MaxStartsIsNat
  <1> DEFINE stops == /\ current # 0 /\ process[current] # 0 /\ state[current] # "STOPPING"
                      /\ stopLocks = <<>>
  <1>1. /\ host' = "down" /\ registered' = 0
        /\ UNCHANGED <<current, starts, process, life, crashed, callPc, target>>
    BY DEF Shutdown, callVars
  <1>2. CASE stops
    <2>1. /\ current \in Slot /\ process[current] \in Slot
          /\ \A s \in Slot : state'[s] = IF s = current THEN "STOPPING" ELSE state[s]
          /\ killed' = KilledBySignal(current) /\ asked' = asked \cup {process[current]}
      BY <1>2 DEF Shutdown, ProcessInv, ProcessTypeOK, Slot
    <2>2. life[process[current]] \in {"failed", "live"}
      BY <1>2, <2>1 DEF ObjectShape, ProcessIsOwn
    <2>3. \A s \in Slot : state'[s] # "RUNNING"
      BY <2>1 DEF ProcessInv, RunningHasLiveChild, ObjectShape, LiveIsCurrent
    <2>4. LiveIsCurrent'
      BY <1>1, <2>1 DEF ObjectShape, LiveIsCurrent
    <2>5. AskedWereSpawned' /\ CrashesUnasked'
      BY <1>1, <2>1, <2>2 DEF ObjectShape, AskedWereSpawned, CrashesUnasked
    <2>6. DownAsked'
      BY <2>3, <2>4 DEF LiveIsCurrent, DownAsked
    <2>7. \A s \in Slot : killed[s] => killed'[s]
      BY <2>1 DEF KilledBySignal, ProcessInv, ProcessTypeOK
    <2>8. ObjectShape'
      BY <1>1, <2>3, <2>4, <2>5, <2>6
      DEF ObjectShape, RunningIsReachable, ProcessIsOwn, RegisteredIsCurrent
    <2>9. CallShape'
      BY <1>1, <2>1, <2>3, <2>7
      DEF CallShape, WindowIsCurrent, WaitIsCurrent, WaitHasKilled, NoneLive, Slot
    <2> QED
      BY <2>8, <2>9
  <1>3. CASE ~stops
    <2>1. UNCHANGED <<state, killed, asked>>
      BY <1>3 DEF Shutdown
    <2>2. \A s \in Slot : state[s] # "RUNNING"
      <3> SUFFICES ASSUME NEW s \in Slot, state[s] = "RUNNING" PROVE FALSE
        OBVIOUS
      <3>1. s = current /\ process[s] = s /\ current # 0
        BY DEF ProcessInv, RunningHasLiveChild, ObjectShape, LiveIsCurrent, Slot
      <3>2. stopLocks # <<>>
        BY <1>3, <3>1
      <3>3. Head(stopLocks) \in Caller /\ callPc[Head(stopLocks)] \in WaitPc
        BY <3>2 DEF Shutdown, ProcessInv, ProcessTypeOK
      <3> QED
        BY <3>1, <3>3 DEF CallShape, WaitIsCurrent
    <2>3. ObjectShape'
      BY <1>1, <2>1, <2>2
      DEF ObjectShape, LiveIsCurrent, RunningIsReachable, ProcessIsOwn, AskedWereSpawned,
          CrashesUnasked, RegisteredIsCurrent, DownAsked
    <2>4. CallShape'
      BY <1>1, <2>1 DEF CallShape, WindowIsCurrent, WaitIsCurrent, WaitHasKilled, NoneLive
    <2> QED
      BY <2>3, <2>4
  <1> QED
    BY <1>2, <1>3

(***************************************************************************)
(* Who is killed.                                                          *)
(***************************************************************************)

\* A SIGKILL is delivered only to a child that was spawned, and by the time it
\* is, the child's object no longer says RUNNING.
KilledIsStopping ==
  \A s \in Slot : killed[s] =>
    life[s] \in {"live", "gone"} /\ (life[s] = "live" => state[s] # "RUNNING")

\* A signal to the child of the object in the map, which is not RUNNING by
\* the end of the step.
LEMMA SignalKeepsKilled ==
  ASSUME ProcessInv, ObjectShape, KilledIsStopping,
         current \in Slot, process[current] # 0,
         killed' = killed \/ killed' = KilledBySignal(current),
         life' = life, state'[current] # "RUNNING",
         \A s \in Slot : s # current => state'[s] = state[s]
  PROVE  KilledIsStopping'
PROOF
  <1> SUFFICES ASSUME NEW s \in Slot, killed'[s]
               PROVE  life[s] \in {"live", "gone"} /\ (life[s] = "live" => state'[s] # "RUNNING")
    BY DEF KilledIsStopping
  <1>1. life[s] = "live" => state'[s] # "RUNNING"
    BY DEF ObjectShape, LiveIsCurrent
  <1>2. killed[s] \/ life[s] = "live"
    BY DEF KilledBySignal, ProcessInv, ProcessTypeOK
  <1> QED
    BY <1>1, <1>2 DEF KilledIsStopping

\* A step that kills nobody keeps it where no object becomes RUNNING but that
\* of a child not yet spawned.
LEMMA NoSignalKeepsKilled ==
  ASSUME KilledIsStopping, killed' = killed,
         \A s \in Slot : life'[s] = life[s] \/ life[s] = "none" \/ life'[s] = "gone",
         \A s \in Slot : state'[s] = "RUNNING" => state[s] = "RUNNING" \/ life[s] = "none"
  PROVE  KilledIsStopping'
PROOF
  BY DEF KilledIsStopping

LEMMA KilledStops ==
  ASSUME ProcessInv, ObjectShape, CallShape, KilledIsStopping, [ProcessNext]_processVars
  PROVE  KilledIsStopping'
PROOF
  <1> USE MaxStartsIsNat
  <1>1. ASSUME NEW c \in Caller, CallStep(c) PROVE KilledIsStopping'
    <2>1. CASE \/ \E valid \in BOOLEAN : StartRefused(c, valid)
               \/ \E force \in BOOLEAN : StopCall(c, force)
               \/ StopNothing(c) \/ StopJoins(c) \/ WaitEnds(c) \/ WaitTrustsKill(c)
      <3>1. UNCHANGED <<objectVars, childVars>>
        BY <2>1 DEF StartRefused, StopCall, StopNothing, StopJoins, WaitEnds, WaitTrustsKill
      <3> QED
        BY <3>1, NoSignalKeepsKilled DEF objectVars, childVars
    <2>2. CASE StartAccepted(c)
      <3>1. UNCHANGED childVars
        BY <2>2 DEF StartAccepted
      <3>2. ASSUME NEW s \in Slot, state'[s] = "RUNNING" PROVE state[s] = "RUNNING"
        BY <2>2, <3>2 DEF StartAccepted, RecoveredState
      <3> QED
        BY <3>1, <3>2, NoSignalKeepsKilled DEF childVars
    <2>3. CASE SpawnThrows(c) \/ SpawnSucceeds(c) \/ SpawnFails(c)
      <3>1. callPc[c] = "window" /\ killed' = killed
        BY <2>3 DEF SpawnThrows, SpawnSucceeds, SpawnFails, CanAct, childVars
      <3>2. target[c] = current /\ life[current] = "none"
        BY <3>1 DEF CallShape, WindowIsCurrent
      <3>3. \A s \in Slot : s # current => life'[s] = life[s] /\ state'[s] = state[s]
        BY <2>3, <3>2
        DEF SpawnThrows, SpawnSucceeds, SpawnFails, childVars, ProcessInv, ProcessTypeOK
      <3> QED
        BY <3>1, <3>2, <3>3, NoSignalKeepsKilled
    <2>4. CASE StopWithoutProcess(c)
      BY <2>4, NoSignalKeepsKilled DEF StopWithoutProcess, childVars, ProcessInv, ProcessTypeOK
    <2>5. ASSUME NEW writable \in BOOLEAN, StopBegins(c, writable) PROVE KilledIsStopping'
      <3>1. /\ current \in Slot /\ process[current] # 0 /\ life' = life
            /\ killed' = killed \/ killed' = KilledBySignal(current)
            /\ state' = [state EXCEPT ![current] = "STOPPING"]
        BY <2>5 DEF StopBegins, ProcessInv, ProcessTypeOK, Slot
      <3>2. state'[current] # "RUNNING" /\ \A s \in Slot : s # current => state'[s] = state[s]
        BY <3>1 DEF ProcessInv, ProcessTypeOK
      <3> QED
        BY <3>1, <3>2, SignalKeepsKilled
    <2>6. CASE WaitEscalates(c)
      <3>1. target[c] = current /\ current \in Slot /\ state[current] # "RUNNING"
        BY <2>6 DEF WaitEscalates, CanAct, WaitPc, CallShape, WaitIsCurrent, ProcessInv,
                    ProcessTypeOK, Slot
      <3> QED
        BY <2>6, <3>1, SignalKeepsKilled DEF WaitEscalates, IsStopped, objectVars
    <2>7. ASSUME NEW again \in BOOLEAN, WaitGivesUp(c, again) PROVE KilledIsStopping'
      BY <2>7, NoSignalKeepsKilled DEF WaitGivesUp, childVars, ProcessInv, ProcessTypeOK
    <2> QED
      BY <1>1, <2>1, <2>2, <2>3, <2>4, <2>5, <2>6, <2>7 DEF CallStep
  <1>2. ASSUME NEW s \in Slot, ChildExit(s) PROVE KilledIsStopping'
    BY <1>2, NoSignalKeepsKilled DEF ChildExit, ProcessInv, ProcessTypeOK
  <1>3. CASE Shutdown
    <2>1. CASE killed' = killed /\ state' = state
      BY <1>3, <2>1, NoSignalKeepsKilled DEF Shutdown
    <2>2. CASE ~(killed' = killed /\ state' = state)
      <3>1. /\ current # 0 /\ process[current] # 0 /\ life' = life
            /\ killed' = KilledBySignal(current)
            /\ state' = [state EXCEPT ![current] = "STOPPING"]
        BY <1>3, <2>2 DEF Shutdown
      <3>2. current \in Slot
        BY <3>1 DEF ProcessInv, ProcessTypeOK, Slot
      <3>3. state'[current] # "RUNNING" /\ \A s \in Slot : s # current => state'[s] = state[s]
        BY <3>1, <3>2 DEF ProcessInv, ProcessTypeOK
      <3> QED
        BY <3>1, <3>2, <3>3, SignalKeepsKilled
    <2> QED
      BY <2>1, <2>2
  <1>4. CASE UNCHANGED processVars
    BY <1>4, NoSignalKeepsKilled DEF processVars, objectVars, childVars
  <1> QED
    BY <1>1, <1>2, <1>3, <1>4 DEF ProcessNext

(***************************************************************************)
(* The invariant of the behaviours without overlap.                        *)
(***************************************************************************)
LEMMA SerialInitEstablishes == SerialInit => SerialInv
PROOF
  <1> SUFFICES ASSUME SerialInit PROVE SerialInv
    OBVIOUS
  <1>1. ProcessInv
    BY InitEstablishes DEF SerialInit
  <1>2. Serial
    BY DEF SerialInit, ProcessInit, Serial
  <1>3. ObjectShape
    BY DEF SerialInit, ProcessInit, ObjectShape, LiveIsCurrent, RunningIsReachable,
           ProcessIsOwn, AskedWereSpawned, CrashesUnasked, RegisteredIsCurrent, DownAsked
  <1>4. CallShape
    BY DEF SerialInit, ProcessInit, CallShape, WindowIsCurrent, WaitIsCurrent, WaitHasKilled,
           WaitPc
  <1> QED
    BY <1>1, <1>2, <1>3, <1>4 DEF SerialInv

LEMMA SerialStepKeeps == SerialInv /\ [SerialNext]_serialVars => SerialInv'
PROOF
  <1> SUFFICES ASSUME SerialInv, [SerialNext]_serialVars PROVE SerialInv'
    OBVIOUS
  <1>1. ProcessInv'
    BY StepKeeps DEF SerialInv, SerialNext, serialVars
  <1>2. ASSUME serial'
        PROVE  Serial' /\ ObjectShape' /\ CallShape'
    <2>1. CASE UNCHANGED serialVars
      <3>1. UNCHANGED <<objectVars, childVars, callVars, host>> /\ serial
        BY <1>2, <2>1 DEF serialVars, processVars
      <3>2. Serial'
        BY <3>1 DEF SerialInv, Serial, callVars, childVars
      <3>3. ObjectShape'
        BY <3>1 DEF SerialInv, ObjectShape, objectVars, childVars, LiveIsCurrent,
                    RunningIsReachable, ProcessIsOwn, AskedWereSpawned, CrashesUnasked,
                    RegisteredIsCurrent, DownAsked
      <3>4. CallShape'
        BY <3>1 DEF SerialInv, CallShape, objectVars, childVars, callVars, WindowIsCurrent,
                    WaitIsCurrent, WaitHasKilled, NoneLive
      <3> QED
        BY <3>2, <3>3, <3>4
    <2>2. CASE SerialNext
      <3>1. ProcessNext /\ Serial' /\ ProcessInv /\ Serial /\ ObjectShape /\ CallShape
        BY <1>2, <2>2 DEF SerialNext, SerialInv
      <3>2. CASE \E c \in Caller : CallStep(c)
        <4>1. PICK c \in Caller : CallStep(c)
          BY <3>2
        <4>2. CASE \/ \E valid \in BOOLEAN : StartRefused(c, valid)
                   \/ \E force \in BOOLEAN : StopCall(c, force)
                   \/ StopNothing(c) \/ WaitEnds(c) \/ WaitTrustsKill(c)
          BY <3>1, <4>2, QuietCallShape
        <4>3. CASE StartAccepted(c)
          BY <3>1, <4>3, AcceptedShape
        <4>4. CASE SpawnThrows(c) \/ SpawnSucceeds(c) \/ SpawnFails(c)
          BY <3>1, <4>4, SpawnShape
        <4>5. CASE StopWithoutProcess(c)
          BY <3>1, <4>5, StopWithoutProcessShape
        <4>6. CASE StopJoins(c)
          BY <3>1, <4>6, StopJoinsShape
        <4>7. CASE \E writable \in BOOLEAN : StopBegins(c, writable)
          BY <3>1, <4>7, StopBeginsShape
        <4>8. CASE WaitEscalates(c)
          BY <3>1, <4>8, WaitEscalatesShape
        <4>9. CASE \E again \in BOOLEAN : WaitGivesUp(c, again)
          BY <3>1, <4>9, WaitGivesUpShape
        <4> QED
          BY <4>1, <4>2, <4>3, <4>4, <4>5, <4>6, <4>7, <4>8, <4>9, <3>1 DEF CallStep
      <3>3. CASE \E s \in Slot : ChildExit(s)
        BY <3>1, <3>3, ChildExitShape
      <3>4. CASE Shutdown
        BY <3>1, <3>4, ShutdownShape
      <3> QED
        BY <3>1, <3>2, <3>3, <3>4 DEF ProcessNext
    <2> QED
      BY <2>1, <2>2
  <1> QED
    BY <1>1, <1>2 DEF SerialInv

LEMMA SerialInvariant == SerialSpec => []SerialInv
PROOF
  <1> QED
    BY SerialInitEstablishes, SerialStepKeeps, PTL DEF SerialSpec

\* Without overlap at most one child is live and a RUNNING server answers on
\* the console registered under its id: start, stop and exit handler between
\* them never leave a second child or a stale session behind.
THEOREM ServerIsOne == SerialSpec => []SerialServerIsOne
PROOF
  <1>1. SerialInv => SerialServerIsOne
    <2> SUFFICES ASSUME SerialInv, serial PROVE OneLiveChild /\ ConsoleReachesServer
      BY DEF SerialServerIsOne
    <2>1. OneLiveChild
      BY DEF SerialInv, ObjectShape, LiveIsCurrent, OneLiveChild
    <2>2. ConsoleReachesServer
      BY DEF SerialInv, ObjectShape, LiveIsCurrent, RunningIsReachable, ConsoleReachesServer,
             ProcessInv, RunningHasLiveChild
    <2> QED
      BY <2>1, <2>2
  <1> QED
    BY <1>1, SerialInvariant, PTL

\* Without overlap the automatic restart is never set off by the exit of a
\* child that stop or the shutdown asked to stop.
THEOREM CrashesAreUnasked == SerialSpec => []SerialCrashMeansUnasked
PROOF
  <1>1. SerialInv => SerialCrashMeansUnasked
    BY DEF SerialInv, ObjectShape, CrashesUnasked, SerialCrashMeansUnasked, CrashMeansUnasked
  <1> QED
    BY <1>1, SerialInvariant, PTL

\* Without overlap the shutdown's one forced stop, or the stop that keeps it
\* out, has asked every child that is still live.
THEOREM ShutdownLeavesNone == SerialSpec => []SerialShutdownStopsChildren
PROOF
  <1>1. SerialInv => SerialShutdownStopsChildren
    BY DEF SerialInv, ObjectShape, DownAsked, SerialShutdownStopsChildren,
           ShutdownStopsChildren
  <1> QED
    BY <1>1, SerialInvariant, PTL
=============================================================================
