--------------------------- MODULE ManagedServer ---------------------------
(* What the lifecycle engine promises of one server, whatever its process  *)
(* manager, hooks, retries and ready detection do: the phase the engine    *)
(* publishes (ServerLifecyclePhase) and the number of live children.       *)
(* LifecycleEngine is checked to implement this specification.             *)
EXTENDS Naturals

VARIABLES phase,     \* the phase of the server's engine, "none" before its first start
          children   \* how many of the server's child processes are live

serverVars == <<phase, children>>

Down == {"none", "STOPPED", "FAILED"}

ServerInit == phase = "none" /\ children = 0

Enter(p) == phase' = p /\ UNCHANGED children

\* A start begins only on a server that is down, and spawns one child at a
\* time, each after the one before it is gone.
Validate     == phase \in Down /\ Enter("VALIDATING")
RunPreStart  == phase = "VALIDATING" /\ Enter("PRE_START")
EnterStart   == phase \in {"VALIDATING", "PRE_START"} /\ Enter("STARTING")
Spawn        == phase = "STARTING" /\ children = 0 /\ children' = 1 /\ UNCHANGED phase

\* Whether the child that was seen ready is still live is not known here; a
\* start is given up only without one.
Ready        == phase = "STARTING" /\ \E p \in {"POST_START", "RUNNING"} : Enter(p)
PostStarted  == phase = "POST_START" /\ Enter("RUNNING")
GiveUp       == phase \in {"VALIDATING", "STARTING"} /\ children = 0 /\ Enter("FAILED")

\* A stop ends, well or badly, only when no child is live.
RunPreStop   == phase \in {"RUNNING", "FAILED"} /\ Enter("PRE_STOPPING")
EnterStop    == phase \in {"RUNNING", "FAILED", "PRE_STOPPING"} /\ Enter("STOPPING")
Stopped      == phase = "STOPPING" /\ children = 0 /\ \E p \in {"POST_STOPPING", "STOPPED"} : Enter(p)
PostStopped  == phase = "POST_STOPPING" /\ Enter("STOPPED")
StopGivesUp  == phase = "STOPPING" /\ children = 0 /\ Enter("FAILED")

\* A child may exit at any time; the phase does not follow it.
Exit         == children = 1 /\ children' = 0 /\ UNCHANGED phase

ServerNext ==
  \/ Validate \/ RunPreStart \/ EnterStart \/ Spawn
  \/ Ready \/ PostStarted \/ GiveUp
  \/ RunPreStop \/ EnterStop \/ Stopped \/ PostStopped \/ StopGivesUp
  \/ Exit

ServerSpec == ServerInit /\ [][ServerNext]_serverVars
=============================================================================
