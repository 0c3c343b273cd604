---------------------------- MODULE SerialProcess ---------------------------
(* ProcessManager with a history: whether its calls have overlapped, or a  *)
(* killed child has outlived the wait for it.  The behaviours in which     *)
(* neither happens are the ones the engine's lock makes, and promise more. *)
EXTENDS ProcessManager

VARIABLE serial \* history: no calls overlapped, and no killed child outlived its wait

Serial ==
  /\ \A c, d \in Caller : callPc[c] # "idle" /\ callPc[d] # "idle" => c = d
  /\ host = "up" /\ (\A c \in Caller : callPc[c] = "idle") =>
       \A s \in Slot : killed[s] => life[s] # "live"

serialVars == <<processVars, serial>>

SerialInit == ProcessInit /\ serial = TRUE
SerialNext == ProcessNext /\ serial' = (serial /\ Serial')
SerialSpec == SerialInit /\ [][SerialNext]_serialVars
FairSerialSpec == SerialSpec /\ ProcessFairness

\* At most one child of the server is live, and a running server can be
\* reached through its console.
SerialServerIsOne == serial => OneLiveChild /\ ConsoleReachesServer

\* 'server.crashed', which starts the automatic restart, is never emitted for
\* a child the service was asked to stop.
SerialCrashMeansUnasked == serial => CrashMeansUnasked

\* At shutdown no live child is left behind that nobody asked to stop.
SerialShutdownStopsChildren == serial => ShutdownStopsChildren
=============================================================================
