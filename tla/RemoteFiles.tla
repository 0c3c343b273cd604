----------------------------- MODULE RemoteFiles ----------------------------
(* File tasks (FileTaskExecutor, FileTaskService and the request that      *)
(* submits an upload) and SSH terminals (SshTerminalService), which share  *)
(* the connections of the pool to one remote host.                         *)
(*                                                                         *)
(* The tasks' rows are read and written without giving up the turn.  An    *)
(* attempt is one SFTP operation here; it never releases its connection.   *)
(* A terminal has one session at a time; its shell, its output and the     *)
(* unified session it is shown by are left out.                            *)
EXTENDS SshPool

CONSTANTS
  Task,        \* file tasks
  Terminal,    \* terminal sessions
  Quota,       \* maxSessionsPerServer
  MaxAttempts, \* DEFAULT_RETRYABLE_MAX_ATTEMPTS
  Spare,       \* bound: connections that terminals leave to the tasks
  MaxRefs      \* bound: users counted on a connection when a terminal opens

ASSUME UsersAreKnown ==
  /\ User = (Task \X {"executor", "request"}) \cup (Terminal \X {"terminal"})
  /\ MaxAttempts \in Nat \ {0} /\ Quota \in Nat
  /\ Spare \in Nat /\ MaxRefs \in Nat

VARIABLES
  state,     \* of each task's row
  attempt,   \* the attempt in each task's row
  executor,  \* "idle", "working", "delayed" before a retry, "over"
  request,   \* an upload's own write: "none", "due", "working", "over"
  aborted,   \* tasks whose AbortController was fired
  shells     \* terminals with an open shell: sessions

remoteVars == <<state, attempt, executor, request, aborted, shells>>
vars == <<poolVars, remoteVars>>

Executor(t) == <<t, "executor">>
Request(t)  == <<t, "request">>
Shell(m)    == <<m, "terminal">>

Ended == {"COMPLETED", "FAILED", "CANCELLED"}

Init ==
  /\ PoolInit
  /\ state = [t \in Task |-> "NONE"]
  /\ attempt = [t \in Task |-> 1]
  /\ executor = [t \in Task |-> "idle"]
  /\ request = [t \in Task |-> "none"]
  /\ aborted = {} /\ shells = {}

(***************************************************************************)
(* Tasks.                                                                  *)
(***************************************************************************)

\* submit: a task that needs no remote operation completes in this turn; of
\* any other the first attempt begins, and an upload's request goes on.
Submit(t) ==
  /\ executor[t] = "idle"
  /\ \/ /\ state' = [state EXCEPT ![t] = "COMPLETED"]
        /\ executor' = [executor EXCEPT ![t] = "over"]
        /\ UNCHANGED <<poolVars, request>>
     \/ /\ GetConnection(Executor(t))
        /\ state' = [state EXCEPT ![t] = "RUNNING"]
        /\ executor' = [executor EXCEPT ![t] = "working"]
        /\ \E r \in {"none", "due"} : request' = [request EXCEPT ![t] = r]
  /\ UNCHANGED <<attempt, aborted, shells>>

\* An operation ends with a result, or its connection cannot be made.
OperationEnds(u, result) ==
  \/ Leave(u) /\ result \in {"ok", "transient", "permanent"}
  \/ ConnectFails(u) /\ result \in {"transient", "permanent"}

\* Mutant: one attempt too many.
RetriesOnceMore(t) == t \notin aborted /\ attempt[t] <= MaxAttempts

\* Mutant: a cancelled task is retried like any other.
RetriesUnasked(t) == attempt[t] < MaxAttempts

\* Whether a transient failure is followed by another attempt.
Retries(t) == t \notin aborted /\ attempt[t] < MaxAttempts

\* executeTask after an attempt.
AttemptEnds(t, result) ==
  /\ executor[t] = "working"
  /\ OperationEnds(Executor(t), result)
  /\ IF result = "transient" /\ Retries(t)
     THEN /\ state' = [state EXCEPT ![t] = "RUNNING"]
          /\ attempt' = [attempt EXCEPT ![t] = @ + 1]
          /\ executor' = [executor EXCEPT ![t] = "delayed"]
     ELSE /\ state' = [state EXCEPT ![t] = IF t \in aborted THEN @ ELSE
                         IF result = "ok" THEN "COMPLETED" ELSE "FAILED"]
          /\ executor' = [executor EXCEPT ![t] = "over"]
          /\ UNCHANGED attempt
  /\ UNCHANGED <<request, aborted, shells>>

\* The delay before a retry is over.
RetryDue(t) ==
  /\ executor[t] = "delayed"
  /\ GetConnection(Executor(t))
  /\ executor' = [executor EXCEPT ![t] = "working"]
  /\ UNCHANGED <<state, attempt, request, aborted, shells>>

\* cancel: the signal also ends a delay.
Cancel(t) ==
  /\ state[t] # "NONE"
  /\ aborted' = IF executor[t] \in {"working", "delayed"} THEN aborted \cup {t} ELSE aborted
  /\ executor' = [executor EXCEPT ![t] = IF @ = "delayed" THEN "over" ELSE @]
  /\ state' = [state EXCEPT ![t] = IF @ \in Ended THEN @ ELSE "CANCELLED"]
  /\ UNCHANGED <<poolVars, attempt, request, shells>>

\* The request that submitted an upload writes the file too: it asks for its
\* connection right after the executor.
RequestBegins(t) ==
  /\ request[t] = "due"
  /\ GetConnection(Request(t))
  /\ request' = [request EXCEPT ![t] = "working"]
  /\ UNCHANGED <<state, attempt, executor, aborted, shells>>

RequestEnds(t, result) ==
  /\ request[t] = "working"
  /\ OperationEnds(Request(t), result)
  /\ request' = [request EXCEPT ![t] = "over"]
  /\ state' = [state EXCEPT ![t] = IF result = "ok" THEN "COMPLETED" ELSE "FAILED"]
  /\ UNCHANGED <<attempt, executor, aborted, shells>>

(***************************************************************************)
(* Terminals.                                                              *)
(***************************************************************************)

\* createSession up to its await: the quota is compared with the shells that
\* are open.
OpenTerminal(m) ==
  /\ using[Shell(m)] = 0
  /\ Cardinality(shells) < Quota
  /\ Cardinality({c \in Client : link[c] = "none"}) > Spare
  /\ \A c \in Client : refs[c] < MaxRefs
  /\ GetConnection(Shell(m))
  /\ UNCHANGED remoteVars

\* The shell opens; or it does not, and the connection stays counted.
ShellOpens(m) ==
  /\ IsServed(Shell(m)) /\ m \notin shells
  /\ shells' = shells \cup {m}
  /\ UNCHANGED <<poolVars, state, attempt, executor, request, aborted>>

ShellFails(m) ==
  /\ m \notin shells
  /\ Leave(Shell(m)) \/ ConnectFails(Shell(m))
  /\ UNCHANGED remoteVars

\* The shell exits, fails, is idle for too long or is closed: cleanup.
TerminalEnds(m) ==
  /\ m \in shells
  /\ Release(Shell(m))
  /\ shells' = shells \ {m}
  /\ UNCHANGED <<state, attempt, executor, request, aborted>>

(***************************************************************************)
(* Next-state relation and fairness.                                       *)
(***************************************************************************)

Result == {"ok", "transient", "permanent"}

TaskStep(t) ==
  \/ Submit(t) \/ RetryDue(t) \/ Cancel(t) \/ RequestBegins(t)
  \/ \E result \in Result : AttemptEnds(t, result) \/ RequestEnds(t, result)

TerminalStep(m) == OpenTerminal(m) \/ ShellOpens(m) \/ ShellFails(m) \/ TerminalEnds(m)

Next ==
  \/ \E t \in Task : TaskStep(t)
  \/ \E m \in Terminal : TerminalStep(m)
  \/ PoolStep /\ UNCHANGED remoteVars

Spec == Init /\ [][Next]_vars

\* A connection is made or fails, an operation ends, and a delay is over, each
\* by a timeout if not before.
Fairness ==
  \A t \in Task :
    /\ WF_vars(\E result \in Result : AttemptEnds(t, result))
    /\ WF_vars(RetryDue(t))
    /\ WF_vars(RequestBegins(t))
    /\ WF_vars(\E result \in Result : RequestEnds(t, result))

FairSpec == Spec /\ Fairness

(***************************************************************************)
(* Properties                                                              *)
(***************************************************************************)

\* The type invariant of the pool, the tasks and the terminals.
RemoteTypeOK ==
  /\ link \in [Client -> {"none", "connecting", "open", "ended", "lost"}]
  /\ alive \subseteq Client
  /\ refs \in [Client -> Nat]
  /\ list \in [List -> SUBSET Client]
  /\ current \in List \cup {0}
  /\ using \in [User -> Client \cup {0}] /\ into \in [User -> List \cup {0}]
  /\ overwritten \in BOOLEAN
  /\ state \in [Task -> {"NONE", "RUNNING"} \cup Ended]
  /\ attempt \in [Task -> 1..MaxAttempts]
  /\ executor \in [Task -> {"idle", "working", "delayed", "over"}]
  /\ request \in [Task -> {"none", "due", "working", "over"}]
  /\ aborted \subseteq Task /\ shells \subseteq Terminal

\* The users of a connection are counted, and the pool never ends one that
\* somebody uses, in whatever order connections are made, lost and checked.
InUseStaysOpen ==
  \A c \in Client :
    LET users == {u \in User : using[u] = c /\ IsServed(u)} IN
    /\ Cardinality(users) <= refs[c]
    /\ users # {} => link[c] # "ended"

\* Until two calls store lists that lack an entry of each other's, the pool
\* holds every open connection, and takes only open ones for alive.
PoolKnowsItsConnections ==
  overwritten \/ \A c \in Client : link[c] = "open" <=> c \in Entries \cap alive

\* Who may still write to a task's row.
Writing(t) ==
  {w \in {"executor"} : executor[t] \in {"working", "delayed"} /\ t \notin aborted}
    \cup {w \in {"request"} : request[t] \in {"due", "working"}}

Promise == INSTANCE FileTask WITH writers <- [t \in Task |-> Writing(t)]

\* Attempts, cancellation and the two writers of an upload keep the promise:
\* no attempt begins after a cancel, a task nobody works at has ended for
\* good, and every task ends.
ImplementsFileTask == Promise!TaskSpec
=============================================================================
