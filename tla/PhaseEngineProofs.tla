-------------------------- MODULE PhaseEngineProofs -------------------------
(* Proofs about the fleet of bot workers and the sessions that use it, for *)
(* every number of workers, bots, sessions and starts.                     *)
EXTENDS PhaseEngine, TLAPS

(***************************************************************************)
(* How the names of a batch are dealt out to workers.                      *)
(***************************************************************************)

\* What integer division returns.
LEMMA DivIs ==
  ASSUME NEW a \in Nat, NEW p \in Nat \ {0}
  PROVE  /\ a \div p \in Nat
         /\ p * (a \div p) <= a
         /\ a < p * (a \div p) + p
BY SMT

\* Division keeps the order.
LEMMA DivMono ==
  ASSUME NEW a \in Nat, NEW b \in Nat, NEW p \in Nat \ {0}, a <= b
  PROVE  a \div p <= b \div p
<1> DEFINE x == a \div p
           y == b \div p
<1>1. p * x < p * y + p /\ x \in Nat /\ y \in Nat  BY DivIs
<1>2. ASSUME x > y PROVE FALSE
  <2>1. x >= y + 1  BY <1>1, <1>2
  <2>2. p * x >= p * (y + 1)  BY <2>1, <1>1
  <2> QED  BY <2>2, <1>1
<1> QED  BY <1>1, <1>2

\* Division undoes multiplication.
LEMMA DivMul ==
  ASSUME NEW k \in Nat, NEW p \in Nat \ {0}
  PROVE  (k * p) \div p = k
<1> DEFINE y == (k * p) \div p
<1>1. k * p \in Nat  OBVIOUS
<1>2. p * y <= k * p /\ k * p < p * y + p /\ y \in Nat  BY <1>1, DivIs
<1>3. ASSUME y < k PROVE FALSE
  <2>1. k >= y + 1  BY <1>2, <1>3
  <2>2. p * k >= p * (y + 1)  BY <2>1, <1>2
  <2> QED  BY <2>2, <1>2
<1>4. ASSUME y > k PROVE FALSE
  <2>1. y >= k + 1  BY <1>2, <1>4
  <2>2. p * y >= p * (k + 1)  BY <2>1, <1>2
  <2> QED  BY <2>2, <1>2
<1> QED  BY <1>2, <1>3, <1>4

\* A batch's names go to new workers only, and each of those gets one.
LEMMA BatchIsDealt ==
  ASSUME forked \in Nat, NEW count \in Nat \ {0}
  PROVE  /\ Chunk(count) \in Nat /\ Chunk(count) >= forked
         /\ \A n \in 1..count : Chunk(n) + 1 \in forked + 1..Chunk(count) + 1
         /\ \A w \in forked + 1..Chunk(count) + 1 : \E n \in 1..count : Chunk(n) + 1 = w
<1> USE FleetSizesAreNat
<1> DEFINE k == (count - 1) \div PerWorker
<1>1. count - 1 \in Nat  OBVIOUS
<1>2. k \in Nat /\ PerWorker * k <= count - 1  BY <1>1, DivIs
<1>3. Chunk(count) = forked + k  BY DEF Chunk
<1>4. ASSUME NEW n \in 1..count PROVE Chunk(n) + 1 \in forked + 1..Chunk(count) + 1
  <2>1. n - 1 \in Nat /\ n - 1 <= count - 1  OBVIOUS
  <2>2. (n - 1) \div PerWorker \in Nat /\ (n - 1) \div PerWorker <= k  BY <2>1, <1>1, DivIs, DivMono
  <2> HIDE DEF k
  <2> QED  BY <2>2, <1>2, <1>3 DEF Chunk
<1>5. ASSUME NEW w \in forked + 1..Chunk(count) + 1 PROVE \E n \in 1..count : Chunk(n) + 1 = w
  <2> DEFINE j == w - 1 - forked
  <2>1. j \in Nat /\ j <= k  BY <1>2, <1>3
  <2>2. j * PerWorker <= PerWorker * k  BY <2>1, <1>2
  <2>3. j * PerWorker \in Nat /\ j * PerWorker <= count - 1  BY <2>1, <2>2, <1>1, <1>2
  <2>4. (j * PerWorker) \div PerWorker = j  BY <2>1, DivMul
  <2> DEFINE n == j * PerWorker + 1
  <2>5. n \in 1..count /\ n - 1 = j * PerWorker  BY <2>3
  <2>6. Chunk(n) + 1 = w  BY <2>4, <2>5, <2>1 DEF Chunk
  <2> QED  BY <2>5, <2>6
<1> QED  BY <1>2, <1>3, <1>4, <1>5

(***************************************************************************)
(* The fleet.                                                              *)
(***************************************************************************)

\* The fleet's part of the type invariant.
FleetType ==
  /\ forked \in 0..MaxWorkers
  /\ life \in [Worker -> {"none", "live", "hung", "dead", "gone"}]
  /\ killed \subseteq Worker /\ pool \subseteq Worker /\ reported \subseteq Worker
  /\ batch \in [Worker -> 0..MaxWorkers]
  /\ drives \in [Worker -> SUBSET Bot] /\ taken \in [Worker -> SUBSET Bot]
  /\ assigned \in [Bot -> 0..MaxWorkers] /\ recent \in [Bot -> 0..MaxWorkers]

\* Workers to come are blank, and a worker is assigned only what it was told
\* to create: without it a batch could take a worker's last assignment
\* without taking over anything it runs.
FleetLinks ==
  /\ \A w \in Worker : w > forked => life[w] = "none"
  /\ \A n \in Bot : assigned[n] # 0 => n \in drives[assigned[n]]

FleetInv == FleetType /\ FleetLinks /\ NothingOfTheGone /\ OutOfReachOnlyByTakeover

\* What CreateBatch does, with the workers it forks named.
LEMMA BatchKeeps ==
  ASSUME FleetInv, NEW count \in 0..MaxBots, CreateBatch(count)
  PROVE  FleetInv'
<1> USE FleetSizesAreNat
<1> DEFINE last == IF count = 0 THEN forked ELSE Chunk(count) + 1
           new == forked + 1..last
           names(w) == {n \in 1..count : Chunk(n) + 1 = w}
<1>1. /\ last \in forked..MaxWorkers
      /\ \A n \in 1..count : Chunk(n) + 1 \in new
      /\ \A w \in new : \E n \in 1..count : Chunk(n) + 1 = w
  <2>1. CASE count = 0
    BY <2>1 DEF CreateBatch, FleetInv, FleetType
  <2>2. CASE count # 0
    <3>1. forked \in Nat /\ count \in Nat \ {0}  BY <2>2 DEF FleetInv, FleetType
    <3>2. last = Chunk(count) + 1 /\ last <= MaxWorkers  BY <2>2 DEF CreateBatch
    <3> QED  BY <3>1, <3>2, BatchIsDealt
  <2> QED  BY <2>1, <2>2
<1>2. /\ forked' = last
      /\ life' = [w \in Worker |-> IF w \in new THEN "live" ELSE life[w]]
      /\ pool' = pool \cup new
      /\ batch' = [w \in Worker |-> IF w \in new THEN forked + 1 ELSE batch[w]]
      /\ drives' = [w \in Worker |-> IF w \in new THEN names(w) ELSE drives[w]]
      /\ taken' = [w \in Worker |-> taken[w] \cup (drives[w] \cap (1..count))]
      /\ assigned' = [n \in Bot |-> IF n <= count THEN Chunk(n) + 1 ELSE assigned[n]]
      /\ recent' = [n \in Bot |-> IF n <= count THEN 0 ELSE recent[n]]
      /\ UNCHANGED <<killed, reported>>
  BY DEF CreateBatch
<1> HIDE DEF last
<1>3. new \subseteq Worker /\ forked \in 0..MaxWorkers /\ 1..count \subseteq Bot
  BY <1>1 DEF FleetInv, FleetType, Worker, Bot
<1>4. \A n \in Bot : n <= count => n \in 1..count  BY DEF Bot
<1>5. FleetType'
  <2>1. forked' \in 0..MaxWorkers  BY <1>1, <1>2, <1>3
  <2>2. life' \in [Worker -> {"none", "live", "hung", "dead", "gone"}]
    BY <1>2 DEF FleetInv, FleetType
  <2>3. killed' \subseteq Worker /\ pool' \subseteq Worker /\ reported' \subseteq Worker
    BY <1>2, <1>3 DEF FleetInv, FleetType
  <2>4. ASSUME NEW w \in new PROVE forked + 1 \in 0..MaxWorkers
    <3>1. w \in forked + 1..last /\ last \in 0..MaxWorkers  BY <1>1, <1>3
    <3> QED  BY <3>1, <1>3
  <2>5. batch' \in [Worker -> 0..MaxWorkers]
    BY <1>2, <2>4 DEF FleetInv, FleetType
  <2>6. \A w \in Worker : names(w) \subseteq Bot  BY <1>3
  <2> HIDE DEF names
  <2>7. drives' \in [Worker -> SUBSET Bot]  BY <1>2, <2>6 DEF FleetInv, FleetType
  <2>8. taken' \in [Worker -> SUBSET Bot]  BY <1>2 DEF FleetInv, FleetType
  <2>9. ASSUME NEW n \in Bot, n <= count PROVE Chunk(n) + 1 \in 0..MaxWorkers
    <3>1. Chunk(n) + 1 \in Worker  BY <2>9, <1>1, <1>3, <1>4
    <3> QED  BY <3>1 DEF Worker
  <2>10. assigned' \in [Bot -> 0..MaxWorkers]  BY <1>2, <2>9 DEF FleetInv, FleetType
  <2>11. recent' \in [Bot -> 0..MaxWorkers]  BY <1>2 DEF FleetInv, FleetType
  <2> QED  BY <2>1, <2>2, <2>3, <2>5, <2>7, <2>8, <2>10, <2>11 DEF FleetType
<1>6. ASSUME NEW w \in new PROVE life[w] = "none"
  <2>1. w \in Worker  BY <1>3
  <2>2. last \in Nat /\ forked \in Nat  BY <1>1, <1>3
  <2>3. w > forked  BY <2>2
  <2> QED  BY <2>1, <2>3 DEF FleetInv, FleetLinks
<1>7. ASSUME NEW n \in Bot, assigned[n] # 0
      PROVE  assigned[n] \in Worker /\ assigned[n] \notin new
  <2>1. assigned[n] \in 0..MaxWorkers  BY DEF FleetInv, FleetType
  <2>2. life[assigned[n]] \in {"live", "hung", "dead"}  BY <1>7 DEF FleetInv, NothingOfTheGone
  <2>3. assigned[n] \in Worker  BY <2>1, <1>7 DEF Worker
  <2>4. assigned[n] \notin new  BY <2>2, <1>6
  <2> QED  BY <2>3, <2>4
<1>8. FleetLinks'
  <2>1. ASSUME NEW w \in Worker, w > forked' PROVE life'[w] = "none"
    BY <2>1, <1>1, <1>2 DEF FleetInv, FleetType, FleetLinks, Worker
  <2>2. ASSUME NEW n \in Bot, assigned'[n] # 0 PROVE n \in drives'[assigned'[n]]
    <3>1. CASE n <= count
      BY <3>1, <1>1, <1>2, <1>3, <1>4
    <3>2. CASE ~ (n <= count)
      BY <3>2, <2>2, <1>2, <1>7 DEF FleetInv, FleetLinks
    <3> QED  BY <3>1, <3>2
  <2> QED  BY <2>1, <2>2 DEF FleetLinks
<1>9. NothingOfTheGone'
  <2>1. ASSUME NEW w \in Worker, life[w] \in {"live", "hung", "dead"}
        PROVE  life'[w] \in {"live", "hung", "dead"}
    BY <2>1, <1>2
  <2>2. \A w \in new : life'[w] = "live"  BY <1>2, <1>3
  <2>3. ASSUME NEW n \in Bot, NEW w \in {assigned'[n], recent'[n]} \ {0}
        PROVE  life'[w] \in {"live", "hung", "dead"}
    <3>1. CASE w \in new  BY <3>1, <2>2
    <3>2. CASE w \notin new
      <4>1. w \in {assigned[n], recent[n]} \ {0}  BY <3>2, <2>3, <1>1, <1>2, <1>4
      <4>2. w \in Worker  BY <4>1 DEF FleetInv, FleetType, Worker
      <4> QED  BY <4>1, <4>2, <2>1 DEF FleetInv, NothingOfTheGone
    <3> QED  BY <3>1, <3>2
  <2>4. ASSUME NEW w \in reported' \cup pool' \cup killed'
        PROVE  life'[w] \in {"live", "hung", "dead"}
    BY <2>1, <2>2, <1>2 DEF FleetInv, FleetType, NothingOfTheGone
  <2>5. pool' \cap killed' = {}
    BY <1>2, <1>6 DEF FleetInv, NothingOfTheGone
  <2> QED  BY <2>3, <2>4, <2>5 DEF NothingOfTheGone
<1>10. OutOfReachOnlyByTakeover'
  <2>1. ASSUME NEW w \in new
        PROVE  /\ \A n \in drives'[w] : assigned'[n] = w
               /\ \E n \in Bot : assigned'[n] = w
    <3>1. drives'[w] = names(w)  BY <1>2, <1>3
    <3>2. \A n \in names(w) : n \in Bot /\ n <= count /\ Chunk(n) + 1 = w  BY <1>3
    <3>3. \A n \in names(w) : assigned'[n] = w  BY <3>2, <1>2
    <3>4. \E n \in 1..count : Chunk(n) + 1 = w  BY <1>1
    <3> QED  BY <3>1, <3>2, <3>3, <3>4
  <2>2. ASSUME NEW w \in pool, w \notin new
        PROVE  /\ \A n \in drives'[w] : assigned'[n] = w \/ n \in taken'[w]
               /\ taken'[w] = {} => \E n \in Bot : assigned'[n] = w
    <3>1. w \in Worker  BY DEF FleetInv, FleetType
    <3>2. drives'[w] = drives[w] /\ taken'[w] = taken[w] \cup (drives[w] \cap (1..count))
      BY <2>2, <3>1, <1>2
    <3>3. drives[w] \subseteq Bot  BY <3>1 DEF FleetInv, FleetType
    <3>4. ASSUME NEW n \in drives[w] PROVE assigned'[n] = w \/ n \in taken'[w]
      <4>1. CASE n <= count  BY <4>1, <3>2, <3>3, <1>4
      <4>2. CASE ~ (n <= count)
        BY <4>2, <3>2, <3>3, <1>2 DEF FleetInv, OutOfReachOnlyByTakeover
      <4> QED  BY <4>1, <4>2
    <3>5. ASSUME taken'[w] = {} PROVE \E n \in Bot : assigned'[n] = w
      <4>1. PICK n \in Bot : assigned[n] = w
        BY <3>2, <3>5 DEF FleetInv, OutOfReachOnlyByTakeover
      <4>2. n \in drives[w]  BY <4>1, <3>1 DEF FleetInv, FleetLinks, Worker
      <4>3. ~ (n <= count)  BY <4>2, <3>2, <3>5, <1>4
      <4> QED  BY <4>1, <4>3, <1>2
    <3> QED  BY <3>2, <3>4, <3>5
  <2> QED  BY <2>1, <2>2, <1>2 DEF OutOfReachOnlyByTakeover
<1> QED  BY <1>5, <1>8, <1>9, <1>10 DEF FleetInv

\* Stopping names: what a pooled worker no longer has assigned it is told to
\* stop, and a worker left with none leaves the pool.
LEMMA StopKeeps ==
  ASSUME FleetInv, NEW names \in SUBSET Bot, StopBots(names)
  PROVE  FleetInv'
<1> USE FleetSizesAreNat
<1> DEFINE found == {n \in names : assigned[n] # 0}
           emptied == {w \in Worker : /\ \E n \in found : assigned[n] = w
                                      /\ \A n \in Bot : assigned[n] = w => n \in found}
           told(w) == drives[w] \ {n \in found : assigned[n] = w}
<1>1. /\ drives' = [w \in Worker |-> IF w \in pool THEN told(w) ELSE drives[w]]
      /\ assigned' = [n \in Bot |-> IF n \in found THEN 0 ELSE assigned[n]]
      /\ recent' = [n \in Bot |-> IF n \in found THEN assigned[n] ELSE recent[n]]
      /\ pool' = pool \ emptied
      /\ killed' = killed \cup (pool \cap emptied)
      /\ reported' = reported \ emptied
      /\ UNCHANGED <<forked, life, batch, taken>>
  BY DEF StopBots, Kill
<1>2. found \subseteq Bot /\ emptied \subseteq Worker  OBVIOUS
<1>3. \A n \in found : assigned[n] # 0 /\ assigned[n] \in Worker
  BY <1>2 DEF FleetInv, FleetType, Worker
<1>4. \A w \in Worker : told(w) \subseteq drives[w]  OBVIOUS
<1>5. \A w \in Worker : \A n \in drives[w] : n \in told(w) \/ (n \in found /\ assigned[n] = w)
  OBVIOUS
<1>6. \A w \in Worker, n \in Bot : n \in told(w) => ~ (n \in found /\ assigned[n] = w)
  OBVIOUS
<1>7. \A w \in Worker : w \notin emptied /\ (\E n \in found : assigned[n] = w) =>
        \E n \in Bot : assigned[n] = w /\ n \notin found
  OBVIOUS
<1> HIDE DEF found, emptied, told
<1>8. FleetType'
  <2>1. drives' \in [Worker -> SUBSET Bot]  BY <1>1, <1>4 DEF FleetInv, FleetType
  <2>2. assigned' \in [Bot -> 0..MaxWorkers]  BY <1>1 DEF FleetInv, FleetType
  <2>3. recent' \in [Bot -> 0..MaxWorkers]  BY <1>1 DEF FleetInv, FleetType
  <2>4. killed' \subseteq Worker /\ pool' \subseteq Worker /\ reported' \subseteq Worker
    BY <1>1 DEF FleetInv, FleetType
  <2> QED  BY <1>1, <2>1, <2>2, <2>3, <2>4 DEF FleetInv, FleetType
<1>9. FleetLinks'
  <2>1. ASSUME NEW n \in Bot, assigned'[n] # 0 PROVE n \in drives'[assigned'[n]]
    <3>1. n \notin found /\ assigned'[n] = assigned[n]  BY <1>1, <2>1
    <3>2. n \in drives[assigned[n]] /\ assigned[n] \in Worker
      BY <3>1, <2>1 DEF FleetInv, FleetType, FleetLinks, Worker
    <3> QED  BY <3>1, <3>2, <1>1, <1>5
  <2> QED  BY <1>1, <2>1 DEF FleetInv, FleetLinks
<1>10. NothingOfTheGone'
  <2>1. ASSUME NEW n \in Bot, NEW w \in {assigned'[n], recent'[n]} \ {0}
        PROVE  life'[w] \in {"live", "hung", "dead"}
    <3>1. w \in {assigned[n], recent[n]} \ {0}  BY <1>1
    <3> QED  BY <3>1, <1>1 DEF FleetInv, NothingOfTheGone
  <2>2. ASSUME NEW w \in reported' \cup pool' \cup killed'
        PROVE  life'[w] \in {"live", "hung", "dead"}
    BY <1>1 DEF FleetInv, NothingOfTheGone
  <2>3. pool' \cap killed' = {}  BY <1>1 DEF FleetInv, NothingOfTheGone
  <2> QED  BY <2>1, <2>2, <2>3 DEF NothingOfTheGone
<1>11. OutOfReachOnlyByTakeover'
  <2> SUFFICES ASSUME NEW w \in pool'
               PROVE  /\ \A n \in drives'[w] : assigned'[n] = w \/ n \in taken'[w]
                      /\ taken'[w] = {} => \E n \in Bot : assigned'[n] = w
    BY DEF OutOfReachOnlyByTakeover
  <2>1. w \in pool /\ w \in Worker /\ w \notin emptied  BY <1>1 DEF FleetInv, FleetType
  <2>2. drives'[w] = told(w) /\ taken' = taken  BY <2>1, <1>1
  <2>3. ASSUME NEW n \in told(w) PROVE assigned'[n] = w \/ n \in taken'[w]
    <3>1. n \in drives[w] /\ n \in Bot  BY <2>1, <1>4 DEF FleetInv, FleetType
    <3>2. assigned[n] = w \/ n \in taken[w]
      BY <3>1, <2>1 DEF FleetInv, OutOfReachOnlyByTakeover
    <3>3. ~ (n \in found /\ assigned[n] = w)  BY <3>1, <2>1, <1>6
    <3> QED  BY <3>1, <3>2, <3>3, <2>2, <1>1
  <2>4. ASSUME taken'[w] = {} PROVE \E n \in Bot : assigned'[n] = w
    <3>1. PICK n \in Bot : assigned[n] = w
      BY <2>1, <2>2, <2>4 DEF FleetInv, OutOfReachOnlyByTakeover
    <3>2. PICK m \in Bot : assigned[m] = w /\ m \notin found  BY <3>1, <2>1, <1>7
    <3> QED  BY <3>2, <1>1
  <2> QED  BY <2>2, <2>3, <2>4
<1> QED  BY <1>8, <1>9, <1>10, <1>11 DEF FleetInv

\* After a stop of everything the pool is empty and nothing is assigned.
LEMMA StopAllKeeps ==
  ASSUME FleetInv, StopAll
  PROVE  FleetInv'
<1>1. /\ pool' = {}
      /\ killed' = killed \cup pool
      /\ assigned' = [n \in Bot |-> 0]
      /\ reported' = reported \ pool
      /\ UNCHANGED <<forked, life, batch, drives, taken, recent>>
  BY DEF StopAll, Kill
<1>2. FleetType'
  BY <1>1, FleetSizesAreNat DEF FleetInv, FleetType
<1>3. FleetLinks'
  BY <1>1 DEF FleetInv, FleetLinks
<1>4. NothingOfTheGone'
  BY <1>1 DEF FleetInv, NothingOfTheGone
<1>5. OutOfReachOnlyByTakeover'
  BY <1>1 DEF OutOfReachOnlyByTakeover
<1> QED  BY <1>2, <1>3, <1>4, <1>5 DEF FleetInv

\* Nothing a worker does, or that is done about a worker, breaks the links.
LEMMA WorkerKeeps ==
  ASSUME FleetInv, NEW w \in Worker, WorkerStep(w)
  PROVE  FleetInv'
<1>1. CASE Report(w)
  BY <1>1 DEF Report, Running, processVars, FleetInv, FleetType, FleetLinks,
     NothingOfTheGone, OutOfReachOnlyByTakeover
<1>2. CASE Hang(w)
  BY <1>2 DEF Hang, FleetInv, FleetType, FleetLinks, NothingOfTheGone, OutOfReachOnlyByTakeover
<1>3. CASE Dies(w)
  BY <1>3 DEF Dies, FleetInv, FleetType, FleetLinks, NothingOfTheGone, OutOfReachOnlyByTakeover
<1>4. CASE HeartbeatKill(w)
  BY <1>4 DEF HeartbeatKill, Kill, FleetInv, FleetType, FleetLinks, NothingOfTheGone,
     OutOfReachOnlyByTakeover
<1>5. CASE ExitDelivered(w)
  <2>1. /\ life' = [life EXCEPT ![w] = "gone"]
        /\ pool' = pool \ {w} /\ killed' = killed \ {w} /\ reported' = reported \ {w}
        /\ assigned' = [n \in Bot |-> IF assigned[n] = w THEN 0 ELSE assigned[n]]
        /\ recent' = [n \in Bot |-> IF recent[n] = w THEN 0 ELSE recent[n]]
        /\ drives' = [drives EXCEPT ![w] = {}]
        /\ taken' = [taken EXCEPT ![w] = {}]
        /\ batch' = [batch EXCEPT ![w] = 0]
        /\ forked' = forked
        /\ life[w] = "dead"
    BY <1>5 DEF ExitDelivered, Forget
  <2>2. FleetType'
    BY <2>1, FleetSizesAreNat DEF FleetInv, FleetType, Worker
  <2>3. FleetLinks'
    <3>1. ASSUME NEW n \in Bot, assigned'[n] # 0 PROVE n \in drives'[assigned'[n]]
      <4>1. assigned'[n] = assigned[n] /\ assigned[n] # w /\ assigned[n] # 0  BY <2>1, <3>1
      <4>2. n \in drives[assigned[n]] /\ assigned[n] \in Worker
        BY <4>1 DEF FleetInv, FleetType, FleetLinks, Worker
      <4>3. drives'[assigned[n]] = drives[assigned[n]]
        BY <4>1, <4>2, <2>1 DEF FleetInv, FleetType
      <4> QED  BY <4>1, <4>2, <4>3
    <3>2. ASSUME NEW v \in Worker, v > forked' PROVE life'[v] = "none"
      BY <3>2, <2>1 DEF FleetInv, FleetType, FleetLinks
    <3> QED  BY <3>1, <3>2 DEF FleetLinks
  <2>4. NothingOfTheGone'
    <3>1. ASSUME NEW v, v # w PROVE life'[v] = life[v]
      BY <3>1, <2>1 DEF FleetInv, FleetType
    <3>2. ASSUME NEW n \in Bot, NEW v \in {assigned'[n], recent'[n]} \ {0}
          PROVE  life'[v] \in {"live", "hung", "dead"}
      <4>1. v # w /\ v \in {assigned[n], recent[n]} \ {0}
        BY <3>2, <2>1 DEF Worker
      <4> QED  BY <4>1, <3>1 DEF FleetInv, NothingOfTheGone
    <3>3. ASSUME NEW v \in reported' \cup pool' \cup killed'
          PROVE  life'[v] \in {"live", "hung", "dead"}
      BY <3>1, <3>3, <2>1 DEF FleetInv, NothingOfTheGone
    <3>4. pool' \cap killed' = {}  BY <2>1 DEF FleetInv, NothingOfTheGone
    <3> QED  BY <3>2, <3>3, <3>4 DEF NothingOfTheGone
  <2>5. OutOfReachOnlyByTakeover'
    <3> SUFFICES ASSUME NEW v \in pool'
                 PROVE  /\ \A n \in drives'[v] : assigned'[n] = v \/ n \in taken'[v]
                        /\ taken'[v] = {} => \E n \in Bot : assigned'[n] = v
      BY DEF OutOfReachOnlyByTakeover
    <3>1. v \in pool /\ v # w /\ v \in Worker  BY <2>1 DEF FleetInv, FleetType
    <3>2. drives'[v] = drives[v] /\ taken'[v] = taken[v] /\ drives[v] \subseteq Bot
      BY <3>1, <2>1 DEF FleetInv, FleetType
    <3>3. \A n \in Bot : assigned[n] = v => assigned'[n] = v  BY <3>1, <2>1
    <3> QED  BY <3>1, <3>2, <3>3 DEF FleetInv, OutOfReachOnlyByTakeover
  <2> QED  BY <2>2, <2>3, <2>4, <2>5 DEF FleetInv
<1> QED  BY <1>1, <1>2, <1>3, <1>4, <1>5 DEF WorkerStep

\* A fleet without workers.
LEMMA FleetStarts ==
  FleetInit => FleetInv
<1> SUFFICES ASSUME FleetInit PROVE FleetInv
  OBVIOUS
<1> USE FleetSizesAreNat
<1>1. FleetType  BY DEF FleetInit, FleetType
<1>2. FleetLinks  BY DEF FleetInit, FleetLinks
<1>3. NothingOfTheGone  BY DEF FleetInit, NothingOfTheGone
<1>4. OutOfReachOnlyByTakeover  BY DEF FleetInit, OutOfReachOnlyByTakeover
<1> QED  BY <1>1, <1>2, <1>3, <1>4 DEF FleetInv

(***************************************************************************)
(* The sessions.                                                           *)
(***************************************************************************)

\* The sessions' part of the type invariant.
SessionType ==
  /\ starts \in 0..MaxStarts
  /\ sessionOf \in [Start -> Session]
  /\ phase \in [Start -> Nat]
  /\ \A i \in Start : phase[i] <= Len(Phases[sessionOf[i]])
  /\ running \in [Session -> 0..starts]
  /\ row \in [Session -> {"CREATED", "RUNNING", "FINISHED", "FAILED"}]
  /\ validation \in [Run -> {"pending", "running", "completed", "failed", "cancelled"}]
  /\ backend \in {"up", "down"}

\* A running session is its latest start: without it an end could end a
\* start that a later one superseded.
PhaseLinks ==
  /\ \A i \in Start : phase[i] # 0 => i <= starts
  /\ \A s \in Session : running[s] # 0 =>
       /\ sessionOf[running[s]] = s
       /\ \A i \in 1..starts : sessionOf[i] = s => i <= running[s]
  /\ \A s \in FromRun : row[s] = "CREATED"

SessionInv == SessionType /\ PhaseLinks /\ LeftBehindOnlyByRestart

\* A batch for a phase there is is one the fleet can be asked for.
LEMMA PhaseCounts ==
  ASSUME NEW s \in Session, NEW p \in Nat, p # 0, p <= Len(Phases[s])
  PROVE  Phases[s][p] \in 0..MaxBots
<1> DEFINE Count == 0..MaxBots
<1>1. Phases[s] \in Seq(Count)  BY PhasesAreCounts
<1> HIDE DEF Count
<1>2. Len(Phases[s]) \in Nat /\ p \in 1..Len(Phases[s])  BY <1>1
<1>3. Phases[s][p] \in Count  BY <1>1, <1>2
<1> QED  BY <1>3 DEF Count

\* The validation runs of different starts differ unless they are of one session.
LEMMA RunsDiffer ==
  ASSUME NEW s \in Session, NEW t \in Session, NEW i \in Start, NEW j \in Start,
         i # j, s # t
  PROVE  ValidationOf(i, s) # ValidationOf(j, t)
BY PhasesAreCounts DEF ValidationOf, Start

\* A start's validation run is one.
LEMMA RunIsRun ==
  ASSUME NEW s \in Session, NEW i \in Start
  PROVE  ValidationOf(i, s) \in Run
BY DEF ValidationOf, Run

\* What SetRow leaves in the rows.
LEMMA RowIs ==
  ASSUME SessionInv, NEW s \in Session, NEW state \in {"RUNNING", "FINISHED", "FAILED"},
         SetRow(s, state)
  PROVE  /\ row' \in [Session -> {"CREATED", "RUNNING", "FINISHED", "FAILED"}]
         /\ \A t \in FromRun : row'[t] = "CREATED"
         /\ \A t \in Session : t # s => row'[t] = row[t]
         /\ row'[s] \in {"CREATED", state}
<1>1. /\ row \in [Session -> {"CREATED", "RUNNING", "FINISHED", "FAILED"}]
      /\ \A t \in FromRun : row[t] = "CREATED"
  BY DEF SessionInv, SessionType, PhaseLinks
<1>2. CASE s \in FromRun
  BY <1>1, <1>2 DEF SetRow
<1>3. CASE s \notin FromRun
  BY <1>1, <1>3, PhasesAreCounts DEF SetRow
<1> QED  BY <1>2, <1>3

\* Ending a session: the start that ends is its latest, so what is left of
\* the session belongs to starts that were superseded.
LEMMA EndKeeps ==
  ASSUME SessionInv, NEW s \in Session, NEW timers \in [Start -> Nat],
         NEW state \in {"FINISHED", "FAILED"}, NEW outcome \in {"completed", "failed"},
         \A i \in Start : timers[i] \in {0, phase[i]},
         EndSession(s, timers, state, outcome),
         UNCHANGED <<starts, sessionOf, backend>>
  PROVE  SessionInv'
<1>1. /\ starts \in 0..MaxStarts /\ starts \in Nat /\ MaxStarts \in Nat
      /\ sessionOf \in [Start -> Session] /\ running \in [Session -> 0..starts]
      /\ validation \in [Run -> {"pending", "running", "completed", "failed", "cancelled"}]
      /\ phase \in [Start -> Nat]
      /\ 1..starts \subseteq Start
  <2>1. MaxStarts \in Nat  BY PhasesAreCounts
  <2> QED  BY <2>1 DEF SessionInv, SessionType, Start
<1> DEFINE cut(f) == \A i \in Start : f[i] <= Len(Phases[sessionOf[i]])
<1>0. ASSUME NEW f \in [Start -> Nat], \A i \in Start : f[i] \in {0, phase[i]} PROVE cut(f)
  <2> SUFFICES ASSUME NEW i \in Start PROVE f[i] <= Len(Phases[sessionOf[i]])
    OBVIOUS
  <2>1. phase[i] <= Len(Phases[sessionOf[i]]) /\ sessionOf[i] \in Session
    BY <1>1 DEF SessionInv, SessionType
  <2>2. Len(Phases[sessionOf[i]]) \in Nat  BY <2>1, PhasesAreCounts
  <2> QED  BY <2>1, <2>2, <1>0
<1>2. CASE running[s] = 0
  <2>1. UNCHANGED <<running, row, validation>> /\ phase' = timers
    BY <1>2 DEF EndSession
  <2>2. SessionType'
    BY <2>1, <1>0, <1>1 DEF SessionInv, SessionType
  <2>3. PhaseLinks'
    BY <2>1, <1>1 DEF SessionInv, PhaseLinks
  <2>4. LeftBehindOnlyByRestart'
    BY <2>1, <1>1 DEF SessionInv, LeftBehindOnlyByRestart, Superseded
  <2> QED  BY <2>2, <2>3, <2>4 DEF SessionInv
<1>3. CASE running[s] # 0
  <2> DEFINE r == running[s]
             v == ValidationOf(r, s)
  <2>1. /\ phase' = [timers EXCEPT ![r] = 0]
        /\ running' = [running EXCEPT ![s] = 0]
        /\ SetRow(s, state)
        /\ validation' = [validation EXCEPT ![v] = outcome]
    BY <1>3 DEF EndSession
  <2>2. r \in 1..starts /\ r \in Start  BY <1>1, <1>3
  <2>3. /\ sessionOf[r] = s
        /\ \A i \in 1..starts : sessionOf[i] = s => i <= r
    BY <1>3 DEF SessionInv, PhaseLinks
  <2>4. v \in Run  BY <2>2, RunIsRun
  <2>5. /\ row' \in [Session -> {"CREATED", "RUNNING", "FINISHED", "FAILED"}]
        /\ \A t \in FromRun : row'[t] = "CREATED"
        /\ \A t \in Session : t # s => row'[t] = row[t]
        /\ row'[s] \in {"CREATED", state}
    BY <2>1, RowIs
  <2>6. /\ \A i \in Start : phase'[i] \in {0, phase[i]}
        /\ phase'[r] = 0 /\ phase' \in [Start -> Nat]
    BY <2>1, <2>2
  <2>7. /\ \A t \in Session : t # s => running'[t] = running[t]
        /\ running'[s] = 0 /\ running' \in [Session -> 0..starts]
    BY <2>1, <1>1
  <2>8. /\ \A u \in Run : validation'[u] \in {outcome, validation[u]}
        /\ validation'[v] = outcome
        /\ validation' \in [Run -> {"pending", "running", "completed", "failed", "cancelled"}]
    BY <2>1, <2>4, <1>1
  <2>9. SessionType'
    <3>1. cut(phase')  BY <1>0, <2>6
    <3> QED  BY <3>1, <1>1, <2>5, <2>6, <2>7, <2>8 DEF SessionInv, SessionType
  <2>10. PhaseLinks'
    BY <2>5, <2>6, <2>7, <1>1 DEF SessionInv, PhaseLinks
  <2>11. ASSUME NEW i \in 1..starts, sessionOf[i] = s, i # r PROVE Superseded(i)
    <3>1. r \in i + 1..starts  BY <2>11, <2>2, <2>3
    <3> QED  BY <3>1, <2>3, <2>11 DEF Superseded
  <2>12. \A i \in 1..starts : Superseded(i) => Superseded(i)'
    BY DEF Superseded
  <2>13. LeftBehindOnlyByRestart'
    <3>1. ASSUME NEW i \in 1..starts
          PROVE  /\ phase'[i] # 0 => running'[sessionOf[i]] = i \/ Superseded(i)
                 /\ validation'[ValidationOf(i, sessionOf[i])] = "running" =>
                      running'[sessionOf[i]] # 0 \/ Superseded(i)
      <4>1. i \in Start /\ sessionOf[i] \in Session /\ ValidationOf(i, sessionOf[i]) \in Run
        BY <1>1, RunIsRun
      <4>2. CASE sessionOf[i] # s
        BY <4>1, <4>2, <2>6, <2>7, <2>8 DEF SessionInv, LeftBehindOnlyByRestart
      <4>3. CASE sessionOf[i] = s /\ i # r  BY <4>3, <2>11
      <4>4. CASE sessionOf[i] = s /\ i = r  BY <4>4, <2>6, <2>8
      <4> QED  BY <4>2, <4>3, <4>4
    <3>2. ASSUME NEW t \in Session, row'[t] = "RUNNING"
          PROVE  running'[t] # 0 \/ \E i \in 1..starts : sessionOf[i] = t /\ Superseded(i)
      <4>1. t # s  BY <3>2, <2>5
      <4> QED  BY <4>1, <3>2, <2>5, <2>7 DEF SessionInv, LeftBehindOnlyByRestart
    <3> QED  BY <3>1, <3>2, <2>12 DEF LeftBehindOnlyByRestart, ValidationOf
  <2> QED  BY <2>9, <2>10, <2>13 DEF SessionInv
<1> QED  BY <1>2, <1>3

\* A start supersedes the earlier ones of its session, and leaves nothing
\* when there is no phase to go through.
LEMMA StartKeeps ==
  ASSUME SessionInv, NEW s \in Session, StartSession(s)
  PROVE  SessionInv'
<1> DEFINE i == starts + 1
           v == ValidationOf(i, s)
           started == [validation EXCEPT ![v] = IF @ = "pending" THEN "running" ELSE @]
           Outcomes == {"pending", "running", "completed", "failed", "cancelled"}
<1>1. /\ starts \in Nat /\ MaxStarts \in Nat /\ starts < MaxStarts
      /\ sessionOf \in [Start -> Session] /\ running \in [Session -> 0..starts]
      /\ validation \in [Run -> Outcomes]
      /\ phase \in [Start -> Nat]
      /\ i \in Start /\ 1..starts \subseteq Start
  <2>1. MaxStarts \in Nat  BY PhasesAreCounts
  <2>2. starts < MaxStarts  BY DEF StartSession
  <2> QED  BY <2>1, <2>2 DEF SessionInv, SessionType, Start
<1>2. starts' = i /\ sessionOf' = [sessionOf EXCEPT ![i] = s]
  BY DEF StartSession
<1>3. /\ sessionOf' \in [Start -> Session] /\ sessionOf'[i] = s
      /\ \A j \in Start : j # i => sessionOf'[j] = sessionOf[j]
      /\ starts' \in 0..MaxStarts
      /\ \A j \in 1..starts' : j = i \/ j \in 1..starts
      /\ \A j \in 1..starts : j < i
  BY <1>1, <1>2
<1>4. v \in Run /\ started \in [Run -> Outcomes]
  BY <1>1, RunIsRun
<1>5. \A u \in Run : u # v => started[u] = validation[u]
  BY <1>1, <1>4
<1>6. phase[i] = 0
  BY <1>1 DEF SessionInv, PhaseLinks
<1>7. ASSUME NEW j \in Start, j # i PROVE phase[j] <= Len(Phases[sessionOf'[j]])
  BY <1>3, <1>7 DEF SessionInv, SessionType
<1>8. Len(Phases[s]) \in Nat /\ (Phases[s] # <<>> => Len(Phases[s]) >= 1)
  BY PhasesAreCounts
<1>9. ASSUME NEW j \in 1..starts
      PROVE  /\ sessionOf[j] = s => Superseded(j)'
             /\ Superseded(j) => Superseded(j)'
  <2>1. j \in Start /\ j # i /\ i \in j + 1..starts'  BY <1>1, <1>2, <1>3
  <2>2. \A k \in j + 1..starts : k \in j + 1..starts' /\ k \in Start /\ k # i
    BY <1>1, <1>2 DEF Start
  <2> QED  BY <2>1, <2>2, <1>3 DEF Superseded
<1>10. ASSUME NEW j \in 1..starts, sessionOf[j] # s
       PROVE  /\ ValidationOf(j, sessionOf[j]) \in Run
              /\ ValidationOf(j, sessionOf[j]) # v
  <2>1. j \in Start /\ sessionOf[j] \in Session /\ j # i  BY <1>1, <1>3
  <2> QED  BY <2>1, <1>1, <1>10, RunsDiffer, RunIsRun
<1> HIDE DEF v, started, i
<1>11. ASSUME /\ \A j \in Start : j # i => phase'[j] = phase[j]
              /\ phase' \in [Start -> Nat] /\ phase'[i] <= Len(Phases[s])
              /\ phase'[i] # 0 => running'[s] = i
              /\ running' \in [Session -> 0..i]
              /\ running'[s] \in {0, i}
              /\ \A t \in Session : t # s => running'[t] = running[t]
              /\ validation' \in [Run -> Outcomes]
              /\ \A u \in Run : u # v => validation'[u] = validation[u]
              /\ validation'[v] = "running" => running'[s] # 0
              /\ SetRow(s, IF running'[s] = 0 THEN "FINISHED" ELSE "RUNNING")
              /\ backend' \in {"up", "down"}
       PROVE  SessionInv'
  <2> DEFINE state == IF running'[s] = 0 THEN "FINISHED" ELSE "RUNNING"
  <2>1. /\ row' \in [Session -> {"CREATED", "RUNNING", "FINISHED", "FAILED"}]
        /\ \A t \in FromRun : row'[t] = "CREATED"
        /\ \A t \in Session : t # s => row'[t] = row[t]
        /\ row'[s] \in {"CREATED", state}
    <3>1. state \in {"RUNNING", "FINISHED", "FAILED"}  OBVIOUS
    <3>2. SetRow(s, state)  BY <1>11
    <3> HIDE DEF state
    <3> QED  BY <3>1, <3>2, RowIs
  <2>2. SessionType'
    <3>1. ASSUME NEW j \in Start PROVE phase'[j] <= Len(Phases[sessionOf'[j]])
      BY <1>3, <1>7, <1>11
    <3> QED  BY <3>1, <2>1, <1>2, <1>3, <1>11 DEF SessionType
  <2>3. PhaseLinks'
    <3>1. ASSUME NEW j \in Start, phase'[j] # 0 PROVE j <= starts'
      <4>1. CASE j = i  BY <4>1, <1>2, <1>1 DEF i
      <4>2. CASE j # i
        <5>1. j <= starts  BY <4>2, <3>1, <1>11 DEF SessionInv, PhaseLinks
        <5> QED  BY <5>1, <1>1, <1>2 DEF i, Start
      <4> QED  BY <4>1, <4>2
    <3>2. ASSUME NEW t \in Session, running'[t] # 0
          PROVE  /\ sessionOf'[running'[t]] = t
                 /\ \A j \in 1..starts' : sessionOf'[j] = t => j <= running'[t]
      <4>1. CASE t = s
        <5>1. running'[t] = i  BY <4>1, <3>2, <1>11
        <5> QED  BY <4>1, <5>1, <1>2, <1>3
      <4>2. CASE t # s
        <5>1. running'[t] = running[t] /\ running[t] \in 1..starts  BY <4>2, <3>2, <1>1, <1>11
        <5>2. running[t] # i /\ running[t] \in Start  BY <5>1, <1>1, <1>3
        <5>3. \A j \in 1..starts' : sessionOf'[j] = t => j \in 1..starts /\ sessionOf[j] = t
          BY <4>2, <1>1, <1>3
        <5> QED  BY <5>1, <5>2, <5>3, <1>3, <3>2 DEF SessionInv, PhaseLinks
      <4> QED  BY <4>1, <4>2
    <3> QED  BY <3>1, <3>2, <2>1 DEF PhaseLinks
  <2>4. ASSUME NEW j \in 1..starts'
        PROVE  /\ phase'[j] # 0 => running'[sessionOf'[j]] = j \/ Superseded(j)'
               /\ validation'[ValidationOf(j, sessionOf'[j])] = "running" =>
                    running'[sessionOf'[j]] # 0 \/ Superseded(j)'
    <3>1. CASE j = i  BY <3>1, <1>3, <1>11 DEF v
    <3>2. CASE j # i /\ sessionOf[j] = s  BY <3>2, <1>3, <1>9
    <3>3. CASE j # i /\ sessionOf[j] # s
      <4>1. j \in 1..starts /\ j \in Start /\ sessionOf[j] \in Session  BY <3>3, <1>1, <1>3
      <4>2. sessionOf'[j] = sessionOf[j] /\ phase'[j] = phase[j]  BY <4>1, <3>3, <1>3, <1>11
      <4>3. running'[sessionOf[j]] = running[sessionOf[j]]  BY <4>1, <3>3, <1>11
      <4>4. validation'[ValidationOf(j, sessionOf[j])] = validation[ValidationOf(j, sessionOf[j])]
        BY <4>1, <3>3, <1>10, <1>11
      <4>5. /\ phase[j] # 0 => running[sessionOf[j]] = j \/ Superseded(j)
            /\ validation[ValidationOf(j, sessionOf[j])] = "running" =>
                 running[sessionOf[j]] # 0 \/ Superseded(j)
        BY <4>1 DEF SessionInv, LeftBehindOnlyByRestart
      <4> QED  BY <4>1, <4>2, <4>3, <4>4, <4>5, <1>9
    <3> QED  BY <3>1, <3>2, <3>3
  <2>5. ASSUME NEW t \in Session, row'[t] = "RUNNING"
        PROVE  running'[t] # 0 \/ \E j \in 1..starts' : sessionOf'[j] = t /\ Superseded(j)'
    <3>1. CASE t = s  BY <3>1, <2>5, <2>1
    <3>2. CASE t # s
      <4>1. row[t] = "RUNNING" /\ running'[t] = running[t]  BY <3>2, <2>1, <2>5, <1>11
      <4>2. CASE running[t] # 0  BY <4>1, <4>2
      <4>3. CASE \E j \in 1..starts : sessionOf[j] = t /\ Superseded(j)
        <5>1. PICK j \in 1..starts : sessionOf[j] = t /\ Superseded(j)  BY <4>3
        <5>2. j \in 1..starts' /\ sessionOf'[j] = t  BY <5>1, <1>1, <1>2, <1>3 DEF i
        <5> QED  BY <5>1, <5>2, <1>9
      <4> QED  BY <4>1, <4>2, <4>3 DEF SessionInv, LeftBehindOnlyByRestart
    <3> QED  BY <3>1, <3>2
  <2> QED  BY <2>2, <2>3, <2>4, <2>5 DEF SessionInv, LeftBehindOnlyByRestart, ValidationOf
<1>12. CASE Phases[s] # <<>>
  <2>1. /\ ExecutePhase(s, 1) /\ phase' = [phase EXCEPT ![i] = 1]
        /\ running' = [running EXCEPT ![s] = i]
        /\ SetRow(s, "RUNNING") /\ validation' = started
    BY <1>12 DEF StartSession, i, v, started
  <2>2. backend' \in {"up", "down"}
    BY <2>1 DEF ExecutePhase, SessionInv, SessionType
  <2>3. i # 0 /\ i \in Nat  BY <1>1 DEF i
  <2>4. running' \in [Session -> 0..i] /\ running'[s] = i
        /\ \A t \in Session : t # s => running'[t] = running[t]
    BY <2>1, <2>3, <1>1 DEF i
  <2>5. phase' \in [Start -> Nat] /\ phase'[i] = 1
        /\ \A j \in Start : j # i => phase'[j] = phase[j]
    BY <2>1, <1>1
  <2>6. 1 <= Len(Phases[s])  BY <1>8, <1>12
  <2> QED  BY <2>1, <2>2, <2>3, <2>4, <2>5, <2>6, <1>4, <1>5, <1>11
<1>13. CASE Phases[s] = <<>>
  <2>1. /\ running' = [running EXCEPT ![s] = 0]
        /\ SetRow(s, "FINISHED") /\ validation' = [started EXCEPT ![v] = "completed"]
        /\ UNCHANGED <<phase, backend>>
    BY <1>13 DEF StartSession, i, v, started
  <2>2. backend' \in {"up", "down"}  BY <2>1 DEF SessionInv, SessionType
  <2>3. i # 0 /\ i \in Nat  BY <1>1 DEF i
  <2>4. running' \in [Session -> 0..i] /\ running'[s] = 0
        /\ \A t \in Session : t # s => running'[t] = running[t]
    BY <2>1, <2>3, <1>1 DEF i
  <2>5. /\ validation' \in [Run -> Outcomes] /\ validation'[v] = "completed"
        /\ \A u \in Run : u # v => validation'[u] = validation[u]
    BY <2>1, <1>4, <1>5
  <2>6. phase'[i] = 0 /\ 0 <= Len(Phases[s])  BY <2>1, <1>6, <1>8
  <2> QED  BY <2>1, <2>2, <2>4, <2>5, <2>6, <1>1, <1>11
<1> QED  BY <1>12, <1>13

\* A phase that is over: the next one belongs to the same start, which the
\* row of a session that has ended names only if a later start was made.
LEMMA PhaseOverKeeps ==
  ASSUME SessionInv, NEW i \in Start, PhaseOver(i)
  PROVE  SessionInv'
<1> DEFINE s == sessionOf[i]
<1>1. /\ starts \in Nat /\ sessionOf \in [Start -> Session]
      /\ phase \in [Start -> Nat] /\ running \in [Session -> 0..starts]
      /\ s \in Session /\ UNCHANGED <<starts, sessionOf>>
      /\ phase[i] # 0 /\ i \in 1..starts
  <2>1. /\ MaxStarts \in Nat /\ phase[i] # 0 /\ UNCHANGED <<starts, sessionOf>>
    BY PhasesAreCounts DEF PhaseOver
  <2>2. i <= starts /\ i \in Start  BY <2>1 DEF SessionInv, PhaseLinks
  <2> QED  BY <2>1, <2>2 DEF SessionInv, SessionType, Start
<1>2. Len(Phases[s]) \in Nat  BY <1>1, PhasesAreCounts
<1> HIDE DEF s
<1>3. CASE phase[i] < Len(Phases[s])
  <2>1. /\ ExecutePhase(s, phase[i] + 1)
        /\ phase' = [phase EXCEPT ![i] = @ + 1]
        /\ SetRow(s, "RUNNING")
        /\ UNCHANGED <<running, validation>>
    BY <1>3 DEF PhaseOver, s
  <2>2. backend' \in {"up", "down"}
    BY <2>1 DEF ExecutePhase, SessionInv, SessionType
  <2>3. /\ row' \in [Session -> {"CREATED", "RUNNING", "FINISHED", "FAILED"}]
        /\ \A t \in FromRun : row'[t] = "CREATED"
        /\ \A t \in Session : t # s => row'[t] = row[t]
    BY <2>1, <1>1, RowIs
  <2>4. /\ phase' \in [Start -> Nat] /\ phase'[i] = phase[i] + 1
        /\ \A j \in Start : j # i => phase'[j] = phase[j]
    BY <2>1, <1>1
  <2>5. SessionType'
    <3>1. ASSUME NEW j \in Start PROVE phase'[j] <= Len(Phases[sessionOf[j]])
      <4>1. CASE j = i  BY <4>1, <2>4, <1>1, <1>2, <1>3 DEF s
      <4>2. CASE j # i  BY <4>2, <2>4 DEF SessionInv, SessionType
      <4> QED  BY <4>1, <4>2
    <3> QED  BY <3>1, <2>1, <2>2, <2>3, <2>4, <1>1 DEF SessionInv, SessionType
  <2>6. PhaseLinks'
    <3>1. ASSUME NEW j \in Start, phase'[j] # 0 PROVE j <= starts
      <4>1. CASE j = i  BY <4>1, <1>1
      <4>2. CASE j # i  BY <4>2, <3>1, <2>4 DEF SessionInv, PhaseLinks
      <4> QED  BY <4>1, <4>2
    <3> QED  BY <3>1, <2>1, <2>3, <1>1 DEF SessionInv, PhaseLinks
  <2>7. running[s] = i \/ Superseded(i)
    BY <1>1 DEF SessionInv, LeftBehindOnlyByRestart, s
  <2>8. ASSUME NEW j \in Start, phase'[j] # 0
        PROVE  j = i \/ phase[j] # 0
    BY <2>8, <2>4
  <2>9. ASSUME NEW j \in 1..starts
        PROVE  phase'[j] # 0 => running[sessionOf[j]] = j \/ Superseded(j)
    <3>1. j \in Start  BY <2>9, PhasesAreCounts DEF SessionInv, SessionType, Start
    <3>2. CASE j = i  BY <3>2, <2>7 DEF s
    <3>3. CASE j # i  BY <3>1, <3>3, <2>4 DEF SessionInv, LeftBehindOnlyByRestart
    <3> QED  BY <3>2, <3>3
  <2>10. ASSUME NEW t \in Session, row'[t] = "RUNNING"
         PROVE  running[t] # 0 \/ \E j \in 1..starts : sessionOf[j] = t /\ Superseded(j)
    <3>1. CASE t = s
      <4>1. running[t] # 0 \/ Superseded(i)  BY <3>1, <2>7, <1>1
      <4> QED  BY <3>1, <4>1, <1>1 DEF s
    <3>2. CASE t # s  BY <3>2, <2>10, <2>3 DEF SessionInv, LeftBehindOnlyByRestart
    <3> QED  BY <3>1, <3>2
  <2> QED
    BY <2>1, <2>5, <2>6, <2>9, <2>10, <1>1
       DEF SessionInv, LeftBehindOnlyByRestart, Superseded, ValidationOf
<1>4. CASE ~ (phase[i] < Len(Phases[s]))
  <2> DEFINE timers == [phase EXCEPT ![i] = 0]
  <2>1. EndSession(s, timers, "FINISHED", "completed") /\ UNCHANGED backend
    BY <1>4 DEF PhaseOver, s
  <2>2. timers \in [Start -> Nat] /\ \A j \in Start : timers[j] \in {0, phase[j]}
    BY <1>1
  <2> HIDE DEF timers
  <2> QED  BY <2>1, <2>2, <1>1, EndKeeps
<1> QED  BY <1>3, <1>4

\* Cancelling a validation run only ends it.
LEMMA CancelKeeps ==
  ASSUME SessionInv, NEW v \in Run, CancelRun(v)
  PROVE  SessionInv'
<1>1. /\ validation' = [validation EXCEPT ![v] = "cancelled"]
      /\ UNCHANGED <<starts, sessionOf, phase, running, row, backend>>
  BY DEF CancelRun
<1>2. /\ validation' \in [Run -> {"pending", "running", "completed", "failed", "cancelled"}]
      /\ \A u \in Run : validation'[u] = "running" => validation[u] = "running"
  BY <1>1 DEF SessionInv, SessionType
<1>3. SessionType'  BY <1>1, <1>2 DEF SessionInv, SessionType
<1>4. PhaseLinks'  BY <1>1 DEF SessionInv, PhaseLinks
<1>5. ASSUME NEW i \in 1..starts PROVE ValidationOf(i, sessionOf[i]) \in Run
  <2>1. i \in Start /\ sessionOf[i] \in Session
    BY PhasesAreCounts DEF SessionInv, SessionType, Start
  <2> QED  BY <2>1, RunIsRun
<1>6. LeftBehindOnlyByRestart'
  BY <1>1, <1>2, <1>5 DEF SessionInv, LeftBehindOnlyByRestart, Superseded, ValidationOf
<1> QED  BY <1>3, <1>4, <1>6 DEF SessionInv

\* A step that leaves the sessions alone.
LEMMA SessionsAlone ==
  ASSUME SessionInv, UNCHANGED <<sessionVars, backend>>
  PROVE  SessionInv'
BY DEF sessionVars, SessionInv, SessionType, PhaseLinks, LeftBehindOnlyByRestart, Superseded,
   ValidationOf

(***************************************************************************)
(* The whole.                                                              *)
(***************************************************************************)

PhaseInv == FleetInv /\ SessionInv

\* A step that leaves the fleet alone.
LEMMA FleetAlone ==
  ASSUME FleetInv, UNCHANGED fleetVars
  PROVE  FleetInv'
BY DEF fleetVars, processVars, FleetInv, FleetType, FleetLinks, NothingOfTheGone,
   OutOfReachOnlyByTakeover

\* The batch of a phase, or the rejection that ends the backend.
LEMMA ExecuteKeepsFleet ==
  ASSUME FleetInv, NEW s \in Session, NEW p \in Nat, p # 0, p <= Len(Phases[s]),
         ExecutePhase(s, p)
  PROVE  FleetInv'
<1>1. CASE CreateBatch(Phases[s][p])  BY <1>1, PhaseCounts, BatchKeeps
<1>2. CASE UNCHANGED fleetVars  BY <1>2, FleetAlone
<1> QED  BY <1>1, <1>2 DEF ExecutePhase

\* No step of the sessions, the users or the workers breaks the invariant.
LEMMA PhaseStep ==
  PhaseInv /\ [Next]_vars => PhaseInv'
<1> SUFFICES ASSUME PhaseInv, [Next]_vars PROVE PhaseInv'
  OBVIOUS
<1> USE DEF PhaseInv
<1>1. ASSUME NEW s \in Session, StartSession(s) PROVE PhaseInv'
  <2>1. SessionInv'  BY <1>1, StartKeeps
  <2>2. CASE Phases[s] # <<>>
    <3>1. ExecutePhase(s, 1)  BY <1>1, <2>2 DEF StartSession
    <3>2. 1 <= Len(Phases[s])  BY <2>2, PhasesAreCounts
    <3> QED  BY <3>1, <3>2, <2>1, ExecuteKeepsFleet
  <2>3. CASE Phases[s] = <<>>
    <3>1. StopAll  BY <1>1, <2>3 DEF StartSession
    <3> QED  BY <3>1, <2>1, StopAllKeeps
  <2> QED  BY <2>2, <2>3
<1>2. ASSUME NEW s \in Session, NEW timers, NEW state, NEW outcome,
             EndSession(s, timers, state, outcome)
      PROVE  FleetInv'
  BY <1>2, StopAllKeeps, FleetAlone DEF EndSession
<1>3. ASSUME NEW s \in Session, StopSession(s) \/ FailSession(s) PROVE PhaseInv'
  <2>1. phase \in [Start -> Nat]  BY DEF SessionInv, SessionType
  <2>2. CASE StopSession(s)
    <3>1. EndSession(s, phase, "FINISHED", "completed") /\ UNCHANGED <<starts, sessionOf, backend>>
      BY <2>2 DEF StopSession
    <3> QED  BY <3>1, <2>1, <1>2, EndKeeps
  <2>3. CASE FailSession(s)
    <3>1. EndSession(s, phase, "FAILED", "failed") /\ UNCHANGED <<starts, sessionOf, backend>>
      BY <2>3 DEF FailSession
    <3> QED  BY <3>1, <2>1, <1>2, EndKeeps
  <2> QED  BY <1>3, <2>2, <2>3
<1>4. ASSUME NEW i \in Start, PhaseOver(i) PROVE PhaseInv'
  <2>1. SessionInv'  BY <1>4, PhaseOverKeeps
  <2>2. phase[i] \in Nat /\ sessionOf[i] \in Session  BY DEF SessionInv, SessionType
  <2>3. CASE phase[i] < Len(Phases[sessionOf[i]])
    <3>1. ExecutePhase(sessionOf[i], phase[i] + 1)  BY <1>4, <2>3 DEF PhaseOver
    <3>2. Len(Phases[sessionOf[i]]) \in Nat  BY <2>2, PhasesAreCounts
    <3>3. phase[i] + 1 \in Nat /\ phase[i] + 1 # 0 /\ phase[i] + 1 <= Len(Phases[sessionOf[i]])
      BY <2>2, <2>3, <3>2
    <3> QED  BY <3>1, <3>3, <2>1, <2>2, ExecuteKeepsFleet
  <2>4. CASE ~ (phase[i] < Len(Phases[sessionOf[i]]))
    <3>1. EndSession(sessionOf[i], [phase EXCEPT ![i] = 0], "FINISHED", "completed")
      BY <1>4, <2>4 DEF PhaseOver
    <3> QED  BY <3>1, <2>1, <2>2, <1>2
  <2> QED  BY <2>3, <2>4
<1>5. ASSUME NEW v \in Run, CancelRun(v) PROVE PhaseInv'
  <2>1. UNCHANGED fleetVars  BY <1>5 DEF CancelRun
  <2> QED  BY <2>1, <1>5, CancelKeeps, FleetAlone
<1>6. CASE InFleet(UserStep)
  <2>1. SessionInv'  BY <1>6, SessionsAlone DEF InFleet
  <2>2. UserStep  BY <1>6 DEF InFleet
  <2>3. ASSUME NEW count \in 1..MaxBots, CreateBatch(count) PROVE FleetInv'
    <3>1. count \in 0..MaxBots  BY FleetSizesAreNat
    <3> QED  BY <3>1, <2>3, BatchKeeps
  <2>4. ASSUME NEW b, StopBatch(b) PROVE FleetInv'
    <3> DEFINE names == {n \in Bot : assigned[n] # 0 /\ batch[assigned[n]] = b}
    <3>1. StopBots(names) /\ names \in SUBSET Bot  BY <2>4 DEF StopBatch
    <3> HIDE DEF names
    <3> QED  BY <3>1, StopKeeps
  <2> QED  BY <2>1, <2>2, <2>3, <2>4, StopKeeps, StopAllKeeps DEF UserStep
<1>7. CASE InFleet(\E w \in Worker : WorkerStep(w))
  <2>1. SessionInv'  BY <1>7, SessionsAlone DEF InFleet
  <2>2. PICK w \in Worker : WorkerStep(w)  BY <1>7 DEF InFleet
  <2> QED  BY <2>1, <2>2, WorkerKeeps
<1>8. CASE UNCHANGED vars
  <2>1. UNCHANGED fleetVars /\ UNCHANGED <<sessionVars, backend>>  BY <1>8 DEF vars
  <2> QED  BY <2>1, FleetAlone, SessionsAlone
<1> QED  BY <1>1, <1>3, <1>4, <1>5, <1>6, <1>7, <1>8 DEF Next

\* It holds at first.
LEMMA PhaseStarts ==
  Init => PhaseInv
<1> SUFFICES ASSUME Init PROVE PhaseInv
  OBVIOUS
<1>1. FleetInv  BY FleetStarts DEF Init
<1>2. (CHOOSE s \in Session : TRUE) \in Session  BY PhasesAreCounts
<1>3. \A i \in Start : phase[i] = 0 /\ Len(Phases[sessionOf[i]]) \in Nat
  BY <1>2, PhasesAreCounts DEF Init
<1>4. SessionType
  BY <1>2, <1>3, PhasesAreCounts DEF Init, SessionType
<1>5. PhaseLinks  BY <1>3, PhasesAreCounts DEF Init, PhaseLinks
<1>6. LeftBehindOnlyByRestart  BY DEF Init, LeftBehindOnlyByRestart
<1> QED  BY <1>1, <1>4, <1>5, <1>6 DEF PhaseInv, SessionInv

\* The invariant holds of every behaviour.
LEMMA PhaseAlways ==
  Spec => []PhaseInv
BY PhaseStarts, PhaseStep, PTL DEF Spec

\* The variables of fleet and sessions keep their types and their bounds: no
\* phase timer is armed beyond a session's last phase.
THEOREM PhaseTypes == Spec => []PhaseTypeOK
<1>1. PhaseInv => PhaseTypeOK
  BY DEF PhaseInv, FleetInv, FleetType, SessionInv, SessionType, PhaseTypeOK
<1> QED  BY <1>1, PhaseAlways, PTL

\* Of a worker whose exit was delivered nothing is kept: no assignment, no
\* report, no place in the pool.
THEOREM GoneIsForgotten == Spec => []NothingOfTheGone
<1>1. PhaseInv => NothingOfTheGone  BY DEF PhaseInv, FleetInv
<1> QED  BY <1>1, PhaseAlways, PTL

\* A bot a pooled worker runs is assigned to it unless a later batch took its
\* name over, however many workers, batches and sessions there are.
THEOREM ReachUntilTakeover == Spec => []OutOfReachOnlyByTakeover
<1>1. PhaseInv => OutOfReachOnlyByTakeover  BY DEF PhaseInv, FleetInv
<1> QED  BY <1>1, PhaseAlways, PTL

\* An armed timer, a running row or a running validation run is left of a
\* session that has ended only if the session was started more than once.
THEOREM LeftBehindByRestart == Spec => []LeftBehindOnlyByRestart
<1>1. PhaseInv => LeftBehindOnlyByRestart  BY DEF PhaseInv, SessionInv
<1> QED  BY <1>1, PhaseAlways, PTL

(***************************************************************************)
(* The safety half of KilledWorkerIsForgotten.                             *)
(***************************************************************************)

\* Every process there is, hung and dead ones included, is in the pool, where
\* the sweep finds it, or was sent the signals that end it.
NoWorkerEscapes ==
  \A w \in Worker : life[w] \in {"live", "hung", "dead"} <=> w \in pool \cup killed

\* All that sessions, timers and users do to the fleet is one of these.
LEMMA FleetStepIs ==
  ASSUME [Next]_vars
  PROVE  \/ \E count : CreateBatch(count)
         \/ \E names : StopBots(names)
         \/ StopAll
         \/ \E w \in Worker : WorkerStep(w)
         \/ UNCHANGED fleetVars
<1>1. ASSUME NEW s, NEW timers, NEW state, NEW outcome, EndSession(s, timers, state, outcome)
      PROVE  StopAll \/ UNCHANGED fleetVars
  BY <1>1 DEF EndSession
<1>2. ASSUME NEW s, NEW p, ExecutePhase(s, p)
      PROVE  (\E count : CreateBatch(count)) \/ UNCHANGED fleetVars
  BY <1>2 DEF ExecutePhase
<1>3. ASSUME NEW s \in Session, StartSession(s) \/ StopSession(s) \/ FailSession(s)
      PROVE  (\E count : CreateBatch(count)) \/ StopAll \/ UNCHANGED fleetVars
  BY <1>1, <1>2, <1>3 DEF StartSession, StopSession, FailSession
<1>4. ASSUME NEW i \in Start, PhaseOver(i)
      PROVE  (\E count : CreateBatch(count)) \/ StopAll \/ UNCHANGED fleetVars
  BY <1>1, <1>2, <1>4 DEF PhaseOver
<1>5. ASSUME NEW v \in Run, CancelRun(v) PROVE UNCHANGED fleetVars
  BY <1>5 DEF CancelRun
<1>6. ASSUME InFleet(UserStep)
      PROVE  (\E count : CreateBatch(count)) \/ (\E names : StopBots(names)) \/ StopAll
  BY <1>6 DEF InFleet, UserStep, StopBatch
<1>7. ASSUME InFleet(\E w \in Worker : WorkerStep(w)) PROVE \E w \in Worker : WorkerStep(w)
  BY <1>7 DEF InFleet
<1> QED
  BY <1>3, <1>4, <1>5, <1>6, <1>7 DEF Next, vars

\* A kill moves workers from the pool to the killed, and a fork adds to both.
LEMMA EscapeStep ==
  ASSUME FleetInv, NoWorkerEscapes, [Next]_vars
  PROVE  NoWorkerEscapes'
<1> USE DEF FleetInv, FleetType, NoWorkerEscapes
<1>1. ASSUME NEW ws, Kill(ws), UNCHANGED life PROVE NoWorkerEscapes'
  BY <1>1 DEF Kill
<1>2. ASSUME NEW count, CreateBatch(count) PROVE NoWorkerEscapes'
  <2>1. PICK new \in SUBSET Worker : /\ life' = [w \in Worker |-> IF w \in new THEN "live" ELSE life[w]]
                                     /\ pool' = pool \cup new /\ killed' = killed
    <3> DEFINE last == IF count = 0 THEN forked ELSE Chunk(count) + 1
    <3>1. /\ life' = [w \in Worker |-> IF w \in forked + 1..last THEN "live" ELSE life[w]]
          /\ pool' = pool \cup (forked + 1..last) /\ killed' = killed
          /\ last <= MaxWorkers /\ forked' = last
      BY <1>2 DEF CreateBatch
    <3>2. forked + 1..last \in SUBSET Worker
      BY <3>1, FleetSizesAreNat DEF Worker
    <3> QED
      BY <3>1, <3>2
  <2> QED
    BY <2>1
<1>3. ASSUME NEW names, StopBots(names) PROVE NoWorkerEscapes'
  BY <1>1, <1>3 DEF StopBots
<1>4. CASE StopAll
  BY <1>1, <1>4 DEF StopAll
<1>5. ASSUME NEW w \in Worker, WorkerStep(w) PROVE NoWorkerEscapes'
  <2>1. CASE Report(w)
    BY <2>1 DEF Report, processVars
  <2>2. CASE Hang(w) \/ Dies(w)
    BY <2>2 DEF Hang, Dies
  <2>3. CASE HeartbeatKill(w)
    BY <2>3, <1>1 DEF HeartbeatKill
  <2>4. CASE ExitDelivered(w)
    BY <2>4 DEF ExitDelivered
  <2> QED
    BY <1>5, <2>1, <2>2, <2>3, <2>4 DEF WorkerStep
<1>6. CASE UNCHANGED fleetVars
  BY <1>6 DEF fleetVars, processVars
<1> QED
  BY <1>2, <1>3, <1>4, <1>5, <1>6, FleetStepIs

\* However sessions, users and the sweep overlap, no worker process is left
\* that is neither in the pool nor about to be killed.
THEOREM EveryWorkerIsKnown == Spec => []NoWorkerEscapes
<1>1. Init => NoWorkerEscapes
  BY DEF Init, FleetInit, NoWorkerEscapes
<1>2. PhaseInv => FleetInv
  BY DEF PhaseInv
<1> QED
  BY <1>1, <1>2, EscapeStep, PhaseAlways, PTL DEF Spec
=============================================================================
