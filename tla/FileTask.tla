------------------------------ MODULE FileTask ------------------------------
(* What a file task promises to those who submit, cancel and await it.     *)
(* An upload has two writers of its row: the executor and the request that *)
(* submitted it.                                                           *)
EXTENDS Naturals

CONSTANTS Task, MaxAttempts

VARIABLES
  state,    \* of each task's row, "NONE" before it is submitted
  attempt,  \* the attempt in its row
  writers   \* who may still write to the row

taskVars == <<state, attempt, writers>>

Concluded == {"COMPLETED", "FAILED", "CANCELLED"}

TaskInit ==
  /\ state = [t \in Task |-> "NONE"]
  /\ attempt = [t \in Task |-> 1]
  /\ writers = [t \in Task |-> {}]

Submit(t) ==
  /\ state[t] = "NONE"
  /\ \/ /\ state' = [state EXCEPT ![t] = "COMPLETED"]
        /\ UNCHANGED writers
     \/ /\ state' = [state EXCEPT ![t] = "RUNNING"]
        /\ \E who \in {{"executor"}, {"executor", "request"}} : writers' = [writers EXCEPT ![t] = who]
  /\ UNCHANGED attempt

\* Another attempt of the executor.
Retry(t) ==
  /\ "executor" \in writers[t] /\ attempt[t] < MaxAttempts
  /\ state' = [state EXCEPT ![t] = "RUNNING"]
  /\ attempt' = [attempt EXCEPT ![t] = @ + 1]
  /\ UNCHANGED writers

\* A writer says how the task ended, and says nothing more.
Conclude(t, who) ==
  /\ who \in writers[t]
  /\ \E outcome \in {"COMPLETED", "FAILED"} : state' = [state EXCEPT ![t] = outcome]
  /\ writers' = [writers EXCEPT ![t] = @ \ {who}]
  /\ UNCHANGED attempt

\* A cancelled task is over for the executor, and stays what it is if it has ended.
Cancel(t) ==
  /\ state[t] # "NONE"
  /\ state' = [state EXCEPT ![t] = IF @ \in Concluded THEN @ ELSE "CANCELLED"]
  /\ writers' = [writers EXCEPT ![t] = @ \ {"executor"}]
  /\ UNCHANGED attempt

TaskNext ==
  \E t \in Task :
    \/ Submit(t) \/ Retry(t) \/ Cancel(t)
    \/ \E who \in {"executor", "request"} : Conclude(t, who)

\* Whoever works at a task concludes it or is cancelled.
TaskSpec ==
  /\ TaskInit /\ [][TaskNext]_taskVars
  /\ \A t \in Task : \A who \in {"executor", "request"} :
       (who \in writers[t]) ~> (who \notin writers[t])
=============================================================================
