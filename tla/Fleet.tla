-------------------------------- MODULE Fleet -------------------------------
(* The bot workers of one server as the backend sees them: WorkerPool-     *)
(* Service (the processes), BotOrchestratorService (which worker drives    *)
(* which bot) and BotStateService (what the workers reported last).        *)
(*                                                                         *)
(* Workers are numbered in the order they are forked, and are external:    *)
(* what one does with its bots is BotConnector.  Here it runs the names it *)
(* was told to create and not to stop, reports, hangs, dies.  Batches use  *)
(* one name prefix, so equal indexes are equal names.  A worker's messages *)
(* are read before its exit.  What a report says, and the list of stopped  *)
(* bots it is archived in for display, are left out.                       *)
EXTENDS Naturals

CONSTANTS
  MaxWorkers,  \* bound: workers forked
  MaxBots,     \* bound: bots of a batch
  PerWorker    \* MAX_BOTS_PER_WORKER

ASSUME FleetSizesAreNat == /\ MaxWorkers \in Nat /\ MaxBots \in Nat
                           /\ PerWorker \in Nat \ {0}

VARIABLES
  forked,    \* workers forked so far
  life,      \* "none", "live", "hung", "dead" until the exit is delivered, "gone"
  killed,    \* workers with an exit to come that were sent SIGTERM, SIGKILL to follow
  pool,      \* WorkerPoolService.workers
  batch,     \* the batch a worker was forked for, named by its first worker
  drives,    \* the bots the worker was told to create and not to stop
  taken,     \* history: those of them a later batch took the names of
  assigned,  \* assignments: the worker of each bot, 0 for none
  recent,    \* recentAssignments
  reported   \* workerStates: the workers a report is kept of

processVars == <<forked, life, killed, pool, batch, drives, taken>>
fleetVars == <<processVars, assigned, recent, reported>>

Worker == 1..MaxWorkers
Bot    == 1..MaxBots

Running(w) == life[w] \in {"live", "hung"}

FleetInit ==
  /\ forked = 0
  /\ life = [w \in Worker |-> "none"]
  /\ killed = {} /\ pool = {}
  /\ batch = [w \in Worker |-> 0]
  /\ drives = [w \in Worker |-> {}] /\ taken = [w \in Worker |-> {}]
  /\ assigned = [n \in Bot |-> 0] /\ recent = [n \in Bot |-> 0]
  /\ reported = {}

(***************************************************************************)
(* Helpers.                                                                *)
(***************************************************************************)

\* The number of workers forked before the one that takes the n-th bot.
Chunk(n) == forked + (n - 1) \div PerWorker

\* Mutant: no SIGKILL follows, so that a worker that hangs survives.
KillGently(ws) ==
  /\ pool' = pool \ ws
  /\ killed' = killed \cup {w \in pool \cap ws : life[w] = "live"}

\* pool.kill: SIGTERM now, SIGKILL later, and forgotten at once.
Kill(ws) ==
  /\ pool' = pool \ ws
  /\ killed' = killed \cup (pool \cap ws)

\* Mutant: only what is assigned to the worker is cleared.
ForgetAssigned(w) ==
  /\ assigned' = [n \in Bot |-> IF assigned[n] = w THEN 0 ELSE assigned[n]]
  /\ UNCHANGED recent

\* handleWorkerExit's loops over both maps.
Forget(w) ==
  /\ assigned' = [n \in Bot |-> IF assigned[n] = w THEN 0 ELSE assigned[n]]
  /\ recent' = [n \in Bot |-> IF recent[n] = w THEN 0 ELSE recent[n]]

(***************************************************************************)
(* BotOrchestratorService.                                                 *)
(***************************************************************************)

\* createBotBatch on a server that is RUNNING: a new worker for every
\* PerWorker names, whoever has those names so far.
CreateBatch(count) ==
  LET last == IF count = 0 THEN forked ELSE Chunk(count) + 1
      new  == forked + 1..last
      names(w) == {n \in 1..count : Chunk(n) + 1 = w}
  IN
  /\ last <= MaxWorkers
  /\ forked' = last
  /\ life' = [w \in Worker |-> IF w \in new THEN "live" ELSE life[w]]
  /\ pool' = pool \cup new
  /\ batch' = [w \in Worker |-> IF w \in new THEN forked + 1 ELSE batch[w]]
  /\ drives' = [w \in Worker |-> IF w \in new THEN names(w) ELSE drives[w]]
  /\ taken' = [w \in Worker |-> taken[w] \cup (drives[w] \cap (1..count))]
  /\ assigned' = [n \in Bot |-> IF n <= count THEN Chunk(n) + 1 ELSE assigned[n]]
  /\ recent' = [n \in Bot |-> IF n <= count THEN 0 ELSE recent[n]]
  /\ UNCHANGED <<killed, reported>>

\* Mutant: a worker left without a bot is not shut down.
StopBotsOnly(names) ==
  LET found == {n \in names : assigned[n] # 0} IN
  /\ drives' = [w \in Worker |-> IF w \in pool THEN drives[w] \ {n \in found : assigned[n] = w}
                                               ELSE drives[w]]
  /\ assigned' = [n \in Bot |-> IF n \in found THEN 0 ELSE assigned[n]]
  /\ recent' = [n \in Bot |-> IF n \in found THEN assigned[n] ELSE recent[n]]
  /\ UNCHANGED <<forked, life, killed, pool, batch, taken, reported>>

\* stopBots: each worker is told the names assigned to it, and one that is
\* left without any is killed and its report dropped.
StopBots(names) ==
  LET found   == {n \in names : assigned[n] # 0}
      emptied == {w \in Worker : /\ \E n \in found : assigned[n] = w
                                 /\ \A n \in Bot : assigned[n] = w => n \in found}
  IN
  /\ drives' = [w \in Worker |-> IF w \in pool THEN drives[w] \ {n \in found : assigned[n] = w}
                                               ELSE drives[w]]
  /\ assigned' = [n \in Bot |-> IF n \in found THEN 0 ELSE assigned[n]]
  /\ recent' = [n \in Bot |-> IF n \in found THEN assigned[n] ELSE recent[n]]
  /\ Kill(emptied)
  /\ reported' = reported \ emptied
  /\ UNCHANGED <<forked, life, batch, taken>>

StopBatch(b) == StopBots({n \in Bot : assigned[n] # 0 /\ batch[assigned[n]] = b})

\* stopAll: every pooled worker is told to shut down and killed; the workers
\* that were killed before are left to their exits.
StopAll ==
  /\ Kill(pool)
  /\ assigned' = [n \in Bot |-> 0]
  /\ reported' = reported \ pool
  /\ UNCHANGED <<forked, life, batch, drives, taken, recent>>

(***************************************************************************)
(* The workers and what is heard of them.                                  *)
(***************************************************************************)

\* A report arrives, also one that was sent before the worker was killed,
\* hung or died.
Report(w) ==
  /\ Running(w) \/ life[w] = "dead"
  /\ reported' = reported \cup {w}
  /\ UNCHANGED <<processVars, assigned, recent>>

Hang(w) ==
  /\ life[w] = "live"
  /\ life' = [life EXCEPT ![w] = "hung"]
  /\ UNCHANGED <<forked, killed, pool, batch, drives, taken, assigned, recent, reported>>

\* A worker dies: of itself, of SIGTERM, or, hung, of SIGKILL.
Dies(w) ==
  /\ life[w] = "live" \/ (life[w] = "hung" /\ w \in killed)
  /\ life' = [life EXCEPT ![w] = "dead"]
  /\ UNCHANGED <<forked, killed, pool, batch, drives, taken, assigned, recent, reported>>

\* heartbeatSweep: nothing was heard of a worker for too long.  Its bots
\* stay assigned until its exit.
HeartbeatKill(w) ==
  /\ w \in pool
  /\ Kill({w})
  /\ UNCHANGED <<forked, life, batch, drives, taken, assigned, recent, reported>>

\* The exit is delivered; nothing is left of the worker.
ExitDelivered(w) ==
  /\ life[w] = "dead"
  /\ life' = [life EXCEPT ![w] = "gone"]
  /\ pool' = pool \ {w}
  /\ killed' = killed \ {w}
  /\ Forget(w)
  /\ reported' = reported \ {w}
  /\ drives' = [drives EXCEPT ![w] = {}]
  /\ taken' = [taken EXCEPT ![w] = {}]
  /\ batch' = [batch EXCEPT ![w] = 0]
  /\ UNCHANGED forked

WorkerStep(w) == Report(w) \/ Hang(w) \/ Dies(w) \/ HeartbeatKill(w) \/ ExitDelivered(w)

UserStep ==
  \/ \E count \in 1..MaxBots : CreateBatch(count)
  \/ \E names \in SUBSET Bot : StopBots(names)
  \/ \E b \in 1..forked : StopBatch(b)
  \/ StopAll
=============================================================================
