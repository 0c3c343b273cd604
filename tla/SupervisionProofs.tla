-------------------------- MODULE SupervisionProofs -------------------------
(* Supervision's invariants and the backoff, for every limit, delay and       *)
(* number of runs and requests.                                             *)
EXTENDS Supervision, WellFoundedInduction, TLAPS

(***************************************************************************)
(* The health monitor.                                                     *)
(***************************************************************************)
MonitorInv ==
  /\ run \in Nat
  /\ child \in {"live", "dead", "none"}
  /\ MonitorFollowsProcess

\* No step of any service breaks the relation: only Spawn makes a child live,
\* and it monitors that child.
LEMMA MonitorStep == MonitorInv /\ [SupNext]_supVars => MonitorInv'
<1> SUFFICES ASSUME MonitorInv, [SupNext]_supVars PROVE MonitorInv'
  OBVIOUS
<1> USE DEF MonitorInv, MonitorFollowsProcess
<1>1. CASE StartIgnored \/ StartRefused \/ StartReady \/ StartNotReady \/ StartGivesUp
           \/ StopIgnored \/ StopBegins \/ StopEnds
  BY <1>1 DEF StartIgnored, StartRefused, StartReady, StartNotReady, StartGivesUp,
              StopIgnored, StopBegins, StopEnds, KeepSupervisors
<1>2. CASE Spawn
  BY <1>2 DEF Spawn
<1>3. CASE ChildDies
  BY <1>3 DEF ChildDies
<1>4. CASE ExitDelivered
  BY <1>4 DEF ExitDelivered
<1>6. ASSUME NEW t, RestartDue(t) \/ StableDue(t) \/ WarningDue(t) \/ StopDue(t)
      PROVE  MonitorInv'
  BY <1>6 DEF RestartDue, StableDue, WarningDue, StopDue, engineVars
<1>7. CASE HealthCheck
  BY <1>7 DEF HealthCheck, engineVars
<1>8. ASSUME NEW delay, NEW reason, Schedule(delay, reason)
      PROVE  MonitorInv'
  BY <1>8 DEF Schedule
<1>9. CASE Cancel \/ DeleteServer \/ Tick
  BY <1>9 DEF Cancel, DeleteServer, Tick, engineVars
<1>10. ASSUME NEW what, UserRequest(what)
       PROVE  MonitorInv'
  BY <1>10 DEF UserRequest
<1>11. CASE UNCHANGED supVars
  BY <1>11 DEF supVars, engineVars
<1> QED
  BY <1>1, <1>2, <1>3, <1>4, <1>6, <1>7, <1>8, <1>9, <1>10, <1>11
     DEF SupNext, EngineStep

\* The health monitor polls the server's process for as long as it lives, and
\* no process whose exit was delivered.
THEOREM MonitoringIsRight == SupSpec => []MonitorFollowsProcess
<1>1. SupInit => MonitorInv
  BY DEF SupInit, MonitorInv, MonitorFollowsProcess
<1>2. MonitorInv => MonitorFollowsProcess
  BY DEF MonitorInv
<1> QED
  BY <1>1, <1>2, MonitorStep, PTL DEF SupSpec

(***************************************************************************)
(* Scheduled stops.  Ids grow with every request, so a new schedule's      *)
(* timers are never taken for an old one's.                                *)
(***************************************************************************)
ArmedTimer == [id : Nat, does : {"warn", "schedule", "restart"}, left : Nat]

ScheduleInv ==
  /\ requests \in Nat
  /\ scheduled \in 0..requests
  /\ timers \subseteq ArmedTimer
  /\ ScheduleIsArmed

\* A schedule or a cancellation disarms every timer there is.
LEMMA CancelDisarmsAll ==
  ScheduleInv => TimersAfterCancel(scheduled) = {}
  BY DEF ScheduleInv, ScheduleIsArmed, TimersAfterCancel

\* Schedule leaves nothing armed, or one stop with its warning before it.
LEMMA ScheduleKeeps ==
  ASSUME ScheduleInv, NEW delay \in 0..MaxDelay, NEW reason \in {"schedule", "restart"},
         Schedule(delay, reason)
  PROVE  ScheduleInv'
<1>0. MaxDelay \in Nat /\ Lead \in Nat \ {0}
  BY PeriodsAreNat
<1> DEFINE id == requests + 1
           stop == [id |-> id, does |-> reason, left |-> delay]
           warn == [id |-> id, does |-> "warn", left |-> delay - Lead]
<1>1. requests' = id /\ id \in Nat /\ id # 0
  BY DEF Schedule, ScheduleInv
<1>2. CASE delay = 0
  <2>1. scheduled' = 0 /\ timers' = {}
    BY <1>2, CancelDisarmsAll DEF Schedule
  <2> QED
    BY <1>1, <2>1 DEF ScheduleInv, ScheduleIsArmed
<1>3. CASE delay # 0
  <2>1. scheduled' = id
    BY <1>3 DEF Schedule
  <2>2. timers' = (IF delay > Lead THEN {warn} ELSE {}) \cup {stop}
    BY <1>3, CancelDisarmsAll DEF Schedule
  <2>3. stop \in ArmedTimer /\ (delay > Lead => warn \in ArmedTimer /\ warn.left < stop.left)
    BY <1>0, <1>1 DEF ArmedTimer
  <2>4. timers' \subseteq ArmedTimer
    BY <2>2, <2>3
  <2>5. ScheduleIsArmed'
    <3>1. stop \in timers' /\ stop.id = scheduled' /\ stop.does # "warn"
      BY <2>1, <2>2
    <3>2. \A u \in timers' \ {stop} : u.id = scheduled' /\ u.does = "warn" /\ u.left < stop.left
      BY <2>1, <2>2, <2>3
    <3> QED
      BY <3>1, <3>2, <2>1, <1>1 DEF ScheduleIsArmed
  <2> QED
    BY <1>1, <2>1, <2>4, <2>5 DEF ScheduleInv
<1> QED
  BY <1>2, <1>3

\* The stop's own timer is the last: when it fires, no warning is left.
LEMMA StopDueKeeps ==
  ASSUME ScheduleInv, NEW t \in timers, StopDue(t)
  PROVE  ScheduleInv'
<1>1. PICK s \in timers : /\ s.id = scheduled /\ s.does # "warn"
                          /\ \A u \in timers \ {s} :
                               u.id = scheduled /\ u.does = "warn" /\ u.left < s.left
  BY DEF ScheduleInv, ScheduleIsArmed
<1>2. t = s
  BY <1>1 DEF StopDue
<1>3. \A u \in timers : u.left \in Nat
  BY DEF ScheduleInv, ArmedTimer
<1>4. timers \ {t} = {}
  BY <1>1, <1>2, <1>3 DEF StopDue
<1> QED
  BY <1>4 DEF StopDue, ScheduleInv, ScheduleIsArmed

\* A warning leaves the stop it belongs to armed.
LEMMA WarningDueKeeps ==
  ASSUME ScheduleInv, NEW t \in timers, WarningDue(t)
  PROVE  ScheduleInv'
<1>1. PICK s \in timers : /\ s.id = scheduled /\ s.does # "warn"
                          /\ \A u \in timers \ {s} :
                               u.id = scheduled /\ u.does = "warn" /\ u.left < s.left
  BY DEF ScheduleInv, ScheduleIsArmed
<1>2. s \in timers' /\ scheduled' = scheduled /\ requests' = requests /\ timers' \subseteq timers
  BY <1>1 DEF WarningDue
<1>3. ScheduleIsArmed'
  BY <1>1, <1>2 DEF ScheduleIsArmed, ScheduleInv
<1> QED
  BY <1>2, <1>3 DEF ScheduleInv

\* Time passes for the stop and for its warning alike.
LEMMA TickKeeps ==
  ASSUME ScheduleInv, Tick
  PROVE  ScheduleInv'
<1> DEFINE later(t) == [t EXCEPT !.left = @ - 1]
<1>1. timers' = {later(t) : t \in timers} /\ scheduled' = scheduled /\ requests' = requests
  BY DEF Tick, Elapse
<1>2. \A t \in timers : /\ later(t) \in ArmedTimer
                        /\ later(t).id = t.id /\ later(t).does = t.does
                        /\ later(t).left = t.left - 1
                        /\ t.left \in Nat
  BY DEF Tick, ScheduleInv, ArmedTimer
<1>3. timers' \subseteq ArmedTimer
  BY <1>1, <1>2
<1>4. CASE scheduled = 0
  BY <1>1, <1>3, <1>4 DEF ScheduleInv, ScheduleIsArmed
<1>5. CASE scheduled # 0
  <2>1. PICK s \in timers : /\ s.id = scheduled /\ s.does # "warn"
                            /\ \A u \in timers \ {s} :
                                 u.id = scheduled /\ u.does = "warn" /\ u.left < s.left
    BY <1>5 DEF ScheduleInv, ScheduleIsArmed
  <2>2. later(s) \in timers' /\ later(s).id = scheduled' /\ later(s).does # "warn"
    BY <1>1, <1>2, <2>1
  <2>3. ASSUME NEW v \in timers' \ {later(s)}
        PROVE  v.id = scheduled' /\ v.does = "warn" /\ v.left < later(s).left
    <3>1. PICK u \in timers : v = later(u)
      BY <1>1
    <3>2. u # s
      BY <3>1, <2>3
    <3>3. v.id = u.id /\ v.does = u.does /\ v.left = u.left - 1 /\ u.left \in Nat
      BY <1>2, <3>1
    <3>4. later(s).left = s.left - 1 /\ s.left \in Nat
      BY <1>2, <2>1
    <3>5. u.id = scheduled /\ u.does = "warn" /\ u.left < s.left
      BY <2>1, <3>2
    <3> HIDE DEF later
    <3> QED
      BY <3>3, <3>4, <3>5, <1>1
  <2> HIDE DEF later
  <2> QED
    BY <1>1, <1>3, <1>5, <2>2, <2>3 DEF ScheduleInv, ScheduleIsArmed
<1> QED
  BY <1>4, <1>5

\* Every step keeps the invariant of the schedule.
LEMMA ScheduleStep == ScheduleInv /\ [SupNext]_supVars => ScheduleInv'
<1> SUFFICES ASSUME ScheduleInv, [SupNext]_supVars PROVE ScheduleInv'
  OBVIOUS
<1> DEFINE Same == UNCHANGED <<scheduled, timers>> /\ requests' \in {requests, requests + 1}
<1>0. Same => ScheduleInv'
  BY DEF ScheduleInv, ScheduleIsArmed
<1>1. CASE EngineStep
  BY <1>0, <1>1 DEF EngineStep, StartIgnored, StartRefused, StartReady, StartNotReady,
     StartGivesUp, StopIgnored, StopBegins, StopEnds, Spawn, KeepSupervisors, scheduleVars
<1>2. CASE ChildDies \/ ExitDelivered \/ HealthCheck \/ DeleteServer
  BY <1>0, <1>2 DEF ChildDies, ExitDelivered, HealthCheck, DeleteServer, scheduleVars
<1>4. ASSUME NEW t, RestartDue(t) \/ StableDue(t)
      PROVE  ScheduleInv'
  BY <1>0, <1>4 DEF RestartDue, StableDue, scheduleVars
<1>5. ASSUME NEW delay \in 0..MaxDelay, NEW reason \in {"schedule", "restart"},
             Schedule(delay, reason)
      PROVE  ScheduleInv'
  BY <1>5, ScheduleKeeps
<1>6. CASE Cancel
  <2>1. scheduled' = 0 /\ timers' = {} /\ requests' = requests
    BY <1>6, CancelDisarmsAll DEF Cancel
  <2> QED
    BY <2>1 DEF ScheduleInv, ScheduleIsArmed
<1>7. ASSUME NEW t \in timers, WarningDue(t) \/ StopDue(t)
      PROVE  ScheduleInv'
  BY <1>7, WarningDueKeeps, StopDueKeeps
<1>8. ASSUME NEW what, UserRequest(what)
      PROVE  ScheduleInv'
  BY <1>0, <1>8 DEF UserRequest, scheduleVars
<1>9. CASE Tick
  BY <1>9, TickKeeps
<1>10. CASE UNCHANGED supVars
  BY <1>0, <1>10 DEF supVars, scheduleVars
<1> QED
  BY <1>1, <1>2, <1>4, <1>5, <1>6, <1>7, <1>8, <1>9, <1>10 DEF SupNext

\* A cancelled or replaced schedule never stops the server and never warns of
\* it, and a warning comes before its stop.
THEOREM SchedulesAreArmed == SupSpec => []ScheduleIsArmed
<1>1. SupInit => ScheduleInv
  BY DEF SupInit, ScheduleInv, ScheduleIsArmed
<1>2. ScheduleInv => ScheduleIsArmed
  BY DEF ScheduleInv
<1> QED
  BY <1>1, <1>2, ScheduleStep, PTL DEF SupSpec

(***************************************************************************)
(* Automatic restarts share one start.                                     *)
(***************************************************************************)
QueueInv ==
  /\ queue \in Seq(Request)
  /\ RestartsShareOneStart

\* The queue loses its first request, and keeps the order of the rest.
LEMMA TailKeeps ==
  ASSUME QueueInv, queue # <<>>
  PROVE  /\ Tail(queue) \in Seq(Request)
         /\ \A i, j \in DOMAIN Tail(queue) :
              Tail(queue)[i].by = "crash" /\ Tail(queue)[j].by = "crash" => i = j
<1>1. queue \in Seq(Request) /\ Len(queue) \in Nat \ {0}
  BY DEF QueueInv
<1>2. /\ Tail(queue) \in Seq(Request)
      /\ Len(Tail(queue)) = Len(queue) - 1
      /\ \A i \in 1..Len(queue) - 1 : Tail(queue)[i] = queue[i + 1]
  BY <1>1
<1>3. DOMAIN queue = 1..Len(queue) /\ DOMAIN Tail(queue) = 1..Len(queue) - 1
  BY <1>1, <1>2
<1>4. ASSUME NEW i \in 1..Len(queue) - 1, NEW j \in 1..Len(queue) - 1,
             Tail(queue)[i].by = "crash", Tail(queue)[j].by = "crash"
      PROVE  i = j
  <2>1. i + 1 \in DOMAIN queue /\ j + 1 \in DOMAIN queue
    BY <1>1, <1>3
  <2>2. queue[i + 1].by = "crash" /\ queue[j + 1].by = "crash"
    BY <1>2, <1>4
  <2>3. i + 1 = j + 1
    BY <2>1, <2>2 DEF QueueInv, RestartsShareOneStart
  <2> QED
    BY <2>3
<1> QED
  BY <1>2, <1>3, <1>4

\* A request is added to a queue without two of the crash restart, and is not
\* a second one.
LEMMA AppendKeeps ==
  ASSUME NEW q \in Seq(Request), NEW r \in Request,
         \A i, j \in DOMAIN q : q[i].by = "crash" /\ q[j].by = "crash" => i = j,
         r.by = "crash" => \A i \in DOMAIN q : q[i].by # "crash"
  PROVE  /\ Append(q, r) \in Seq(Request)
         /\ \A i, j \in DOMAIN Append(q, r) :
              Append(q, r)[i].by = "crash" /\ Append(q, r)[j].by = "crash" => i = j
<1>1. /\ Append(q, r) \in Seq(Request)
      /\ Len(q) \in Nat
      /\ DOMAIN q = 1..Len(q)
      /\ DOMAIN Append(q, r) = 1..Len(q) + 1
      /\ Append(q, r)[Len(q) + 1] = r
      /\ \A i \in 1..Len(q) : Append(q, r)[i] = q[i]
  OBVIOUS
<1>2. \A i \in 1..Len(q) + 1 : i \in 1..Len(q) \/ i = Len(q) + 1
  BY <1>1
<1> QED
  BY <1>1, <1>2

\* A request of the engine settles.
LEMMA SettleKeeps ==
  ASSUME QueueInv, queue # <<>>, NEW ok, Settle(ok)
  PROVE  QueueInv'
<1>1. CASE queue' = Tail(queue)
  BY <1>1, TailKeeps DEF QueueInv, RestartsShareOneStart
<1>2. CASE queue' = AfterStop
  <2>1. [what |-> "start", by |-> "restart"] \in Request
    BY DEF Request
  <2> QED
    BY <1>2, <2>1, TailKeeps, AppendKeeps DEF QueueInv, RestartsShareOneStart, AfterStop
<1> QED
  BY <1>1, <1>2 DEF Settle

\* A request that is not the crash restart's is made.
LEMMA EnqueueKeeps ==
  ASSUME QueueInv, NEW what \in {"start", "stop"}, NEW by \in {"user", "schedule", "restart"},
         Enqueue(what, by)
  PROVE  QueueInv'
<1>1. [what |-> what, by |-> by] \in Request /\ by # "crash"
  BY DEF Request
<1> QED
  BY <1>1, AppendKeeps DEF Enqueue, QueueInv, RestartsShareOneStart

LEMMA QueueStep == QueueInv /\ ScheduleInv /\ [SupNext]_supVars => QueueInv'
<1> SUFFICES ASSUME QueueInv, ScheduleInv, [SupNext]_supVars PROVE QueueInv'
  OBVIOUS
<1>0. UNCHANGED queue => QueueInv'
  BY DEF QueueInv, RestartsShareOneStart
<1>1. CASE StartIgnored \/ StartRefused \/ StartReady \/ StartGivesUp \/ StopIgnored \/ StopEnds
  BY <1>1, SettleKeeps DEF StartIgnored, StartRefused, StartReady, StartGivesUp, StopIgnored,
     StopEnds, HeadIs
<1>2. CASE Spawn \/ StartNotReady \/ StopBegins \/ ChildDies \/ ExitDelivered
  BY <1>0, <1>2 DEF Spawn, StartNotReady, StopBegins, ChildDies, ExitDelivered
<1>3. ASSUME NEW t, RestartDue(t) PROVE QueueInv'
  <2>1. CASE UNCHANGED queue
    BY <1>0, <2>1
  <2>2. CASE ~RestartQueued /\ Enqueue("start", "crash")
    <3>1. [what |-> "start", by |-> "crash"] \in Request
      BY DEF Request
    <3>2. \A i \in DOMAIN queue : queue[i].by # "crash"
      BY <2>2 DEF RestartQueued
    <3> QED
      BY <2>2, <3>1, <3>2, AppendKeeps DEF Enqueue, QueueInv, RestartsShareOneStart
  <2> QED
    BY <1>3, <2>1, <2>2 DEF RestartDue
<1>4. ASSUME NEW delay, NEW reason \in {"schedule", "restart"}, Schedule(delay, reason)
      PROVE  QueueInv'
  BY <1>0, <1>4, EnqueueKeeps DEF Schedule, ExecuteStop
<1>5. ASSUME NEW t \in timers, StopDue(t) PROVE QueueInv'
  <2>1. t.does \in {"schedule", "restart"}
    BY <1>5 DEF StopDue, ScheduleInv, ArmedTimer
  <2> QED
    BY <1>5, <2>1, EnqueueKeeps DEF StopDue, ExecuteStop
<1>6. ASSUME NEW what \in {"start", "stop"}, UserRequest(what) PROVE QueueInv'
  BY <1>6, EnqueueKeeps DEF UserRequest
<1>7. ASSUME NEW t, StableDue(t) \/ WarningDue(t) PROVE QueueInv'
  BY <1>0, <1>7 DEF StableDue, WarningDue, engineVars
<1>8. CASE HealthCheck \/ Cancel \/ DeleteServer \/ Tick \/ UNCHANGED supVars
  BY <1>0, <1>8 DEF HealthCheck, Cancel, DeleteServer, Tick, supVars, engineVars
<1> QED
  BY <1>1, <1>2, <1>3, <1>4, <1>5, <1>6, <1>7, <1>8 DEF SupNext, EngineStep

\* However many crashes arm a timer and whenever they fire, at most one start
\* of theirs is with the engine.
THEOREM RestartsShare == SupSpec => []RestartsShareOneStart
<1>1. SupInit => QueueInv /\ ScheduleInv
  BY DEF SupInit, QueueInv, RestartsShareOneStart, ScheduleInv, ScheduleIsArmed
<1>2. QueueInv /\ ScheduleInv /\ [SupNext]_supVars => (QueueInv /\ ScheduleInv)'
  BY QueueStep, ScheduleStep
<1>3. QueueInv => RestartsShareOneStart
  BY DEF QueueInv
<1> QED
  BY <1>1, <1>2, <1>3, PTL DEF SupSpec

(***************************************************************************)
(* The backoff of the crash restart.                                       *)
(***************************************************************************)
\* A set of natural numbers that has an element has a least one: what the
\* proofs below have for an induction.
LEMMA HasLeast ==
  ASSUME NEW T \in SUBSET Nat, T # {}
  PROVE  \E x \in T : \A y \in T : x <= y
<1>1. PICK x \in T : \A y \in T : ~(<<y, x>> \in OpToRel(<, Nat))
  BY NatLessThanWellFounded, WFMin
<1>2. ASSUME NEW y \in T PROVE x <= y
  <2>1. <<y, x>> \in Nat \X Nat
    OBVIOUS
  <2>2. ~(y < x)
    BY <1>1, <2>1 DEF OpToRel
  <2> QED
    BY <2>2
<1> QED
  BY <1>2

\* The tables of the first n + 1 powers of two.
Powers(n) ==
  {g \in [0..n -> Nat] : \A i \in 0..n : g[i] = IF i = 0 THEN 1 ELSE 2 * g[i - 1]}

\* There is one for every n ...
LEMMA PowersExist == \A n \in Nat : Powers(n) # {}
<1> DEFINE T == {n \in Nat : Powers(n) = {}}
<1> SUFFICES ASSUME T # {} PROVE FALSE
  OBVIOUS
<1>1. PICK n \in T : \A k \in T : n <= k
  BY HasLeast
<1>2. CASE n = 0
  <2>1. [i \in 0..0 |-> 1] \in Powers(0)
    BY DEF Powers
  <2> QED
    BY <1>1, <1>2, <2>1
<1>3. CASE n # 0
  <2>1. n - 1 \in Nat /\ n - 1 \notin T /\ n \in Nat
    BY <1>1, <1>3
  <2>2. PICK g : g \in Powers(n - 1)
    BY <2>1
  <2> DEFINE h == [i \in 0..n |-> IF i = n THEN 2 * g[n - 1] ELSE g[i]]
  <2>3. /\ g \in [0..n-1 -> Nat]
        /\ \A i \in 0..n-1 : g[i] = IF i = 0 THEN 1 ELSE 2 * g[i - 1]
    BY <2>2 DEF Powers
  <2>4. h \in [0..n -> Nat]
    BY <2>1, <2>3
  <2>5. ASSUME NEW i \in 0..n PROVE h[i] = IF i = 0 THEN 1 ELSE 2 * h[i - 1]
    BY <1>3, <2>1, <2>3
  <2> QED
    BY <1>1, <2>4, <2>5 DEF Powers
<1> QED
  BY <1>2, <1>3

\* ... and agrees with every longer one.
LEMMA PowersAgree ==
  ASSUME NEW n \in Nat, NEW m \in Nat, NEW g \in Powers(n), NEW h \in Powers(m),
         NEW k \in Nat, k <= n, k <= m
  PROVE  g[k] = h[k]
<1> DEFINE T == {i \in 0..k : g[i] # h[i]}
<1> SUFFICES ASSUME T # {} PROVE FALSE
  OBVIOUS
<1>1. PICK i \in T : \A j \in T : i <= j
  <2>1. T \in SUBSET Nat
    OBVIOUS
  <2> HIDE DEF T
  <2> QED
    BY <2>1, HasLeast
<1>2. i \in 0..n /\ i \in 0..m /\ i \in Nat /\ g[i] # h[i]
  BY <1>1
<1>3. CASE i = 0
  BY <1>2, <1>3 DEF Powers
<1>4. CASE i # 0
  <2>1. i - 1 \in 0..k /\ i - 1 \notin T
    BY <1>1, <1>4
  <2>2. g[i - 1] = h[i - 1]
    BY <2>1
  <2> QED
    BY <1>2, <1>4, <2>2 DEF Powers
<1> QED
  BY <1>3, <1>4

\* The recursive definition has what it asks for: the last entries of the
\* tables satisfy it.
LEMMA DoubledDef ==
  Doubled = [n \in Nat |-> IF n = 0 THEN 1 ELSE 2 * Doubled[n - 1]]
<1> DEFINE table(n) == CHOOSE g : g \in Powers(n)
           f == [n \in Nat |-> table(n)[n]]
<1>1. \A n \in Nat : table(n) \in Powers(n)
  BY PowersExist
<1>2. ASSUME NEW n \in Nat PROVE f[n] = IF n = 0 THEN 1 ELSE 2 * f[n - 1]
  <2>1. table(n)[n] = IF n = 0 THEN 1 ELSE 2 * table(n)[n - 1]
    <3> HIDE DEF table
    <3>1. table(n) \in Powers(n)
      BY <1>1
    <3> QED
      BY <3>1 DEF Powers
  <2>2. ASSUME n # 0 PROVE table(n)[n - 1] = table(n - 1)[n - 1]
    <3>1. n - 1 \in Nat /\ n - 1 <= n
      BY <2>2
    <3>. HIDE DEF table
    <3> QED
      BY <1>1, <3>1, PowersAgree
  <2> HIDE DEF table
  <2> QED
    BY <2>1, <2>2
<1>3. f = [n \in Nat |-> IF n = 0 THEN 1 ELSE 2 * f[n - 1]]
  <2> DEFINE e == [n \in Nat |-> IF n = 0 THEN 1 ELSE 2 * f[n - 1]]
  <2>1. \A n \in Nat : f[n] = e[n]
    BY <1>2
  <2> QED
    BY <2>1
<1> HIDE DEF f
<1> QED
  BY <1>3 DEF Doubled

\* The powers of two are natural numbers.
LEMMA DoubledType == \A n \in Nat : Doubled[n] \in Nat \ {0}
<1> DEFINE T == {n \in Nat : Doubled[n] \notin Nat \ {0}}
<1> SUFFICES ASSUME T # {} PROVE FALSE
  OBVIOUS
<1>0. \A n \in Nat : Doubled[n] = IF n = 0 THEN 1 ELSE 2 * Doubled[n - 1]
  BY DoubledDef
<1>1. PICK n \in T : \A j \in T : n <= j
  BY HasLeast
<1>2. CASE n = 0
  BY <1>0, <1>1, <1>2
<1>3. CASE n # 0
  <2>1. n - 1 \in Nat /\ n - 1 \notin T
    BY <1>1, <1>3
  <2> QED
    BY <1>0, <1>1, <1>3, <2>1
<1> QED
  BY <1>2, <1>3

\* The delay before a restart is one tick for the first crash, doubles with
\* every further crash, and stays at its limit once it has reached it.
THEOREM BackoffDoubles ==
  /\ Backoff(1) = 1
  /\ \A n \in Nat \ {0} :
       /\ Backoff(n) \in 1..BackoffMax
       /\ Backoff(n + 1) = IF 2 * Backoff(n) < BackoffMax THEN 2 * Backoff(n) ELSE BackoffMax
<1>0. BackoffMax \in Nat \ {0}
  BY PeriodsAreNat
<1>1. \A n \in Nat : Doubled[n] = IF n = 0 THEN 1 ELSE 2 * Doubled[n - 1]
  BY DoubledDef
<1>2. Backoff(1) = 1
  BY <1>0, <1>1 DEF Backoff
<1>3. ASSUME NEW n \in Nat \ {0}
      PROVE  /\ Backoff(n) \in 1..BackoffMax
             /\ Backoff(n + 1) = IF 2 * Backoff(n) < BackoffMax
                                 THEN 2 * Backoff(n) ELSE BackoffMax
  <2>1. Doubled[n] = 2 * Doubled[n - 1]
    BY <1>1
  <2>2. Doubled[n - 1] \in Nat \ {0}
    BY DoubledType
  <2>3. Backoff(n) = IF Doubled[n - 1] < BackoffMax THEN Doubled[n - 1] ELSE BackoffMax
    BY DEF Backoff
  <2>4. Backoff(n + 1) = IF Doubled[n] < BackoffMax THEN Doubled[n] ELSE BackoffMax
    BY DEF Backoff
  <2> QED
    BY <1>0, <2>1, <2>2, <2>3, <2>4
<1> QED
  BY <1>2, <1>3

(***************************************************************************)
(* Types.                                                                  *)
(***************************************************************************)
\* Only exits are counted, and each run has one.
CountInv == count <= run /\ (child # "none" => count < run)

\* Attempts are counted within one start.
AttemptInv == step \in {"waiting", "stopping"} => attempt = 0

EngineTypes ==
  /\ phase \in {"none", "STARTING", "RUNNING", "STOPPING", "STOPPED", "FAILED"}
  /\ step \in {"waiting", "starting", "cleaning", "stopping"}
  /\ attempt \in 0..Attempts
  /\ run \in 0..MaxRuns
  /\ child \in {"live", "dead", "none"} /\ asked \in BOOLEAN

RestartTypes ==
  /\ count \in Nat /\ sinceSuccess \in 0..Cooldown
  /\ restarts \subseteq [run : 1..MaxRuns, left : 0..BackoffMax]
  /\ stables \subseteq [run : 1..MaxRuns, left : 0..Stable]
  /\ monitored \in 0..MaxRuns

ScheduleTypes ==
  /\ scheduled \in 0..MaxRequests
  /\ timers \subseteq Timer({"warn", "schedule", "restart"})
  /\ configured \in BOOLEAN /\ requests \in 0..MaxRequests

SupTypeInv == EngineTypes /\ RestartTypes /\ ScheduleTypes /\ CountInv /\ AttemptInv

\* Timers that have ticks left keep their types as one of them passes.
LEMMA ElapseKeeps ==
  ASSUME NEW m \in Nat, NEW n \in Nat, NEW ts \in SUBSET [run : 1..n, left : 0..m],
         \A t \in ts : t.left > 0
  PROVE  Elapse(ts) \subseteq [run : 1..n, left : 0..m]
<1>1. ASSUME NEW t \in ts
      PROVE  [t EXCEPT !.left = @ - 1] \in [run : 1..n, left : 0..m]
  BY <1>1
<1> QED
  BY <1>1 DEF Elapse

\* The steps of the engine, which counts attempts and runs.
LEMMA EngineStepTypes ==
  ASSUME SupTypeInv, EngineStep
  PROVE  SupTypeInv'
<1> USE PeriodsAreNat DEF SupTypeInv, EngineTypes, RestartTypes, ScheduleTypes, CountInv, AttemptInv
<1>1. CASE StartIgnored \/ StartRefused \/ StartReady \/ StartGivesUp \/ StopIgnored \/ StopEnds
  <2>1. /\ phase' \in {phase, "RUNNING", "FAILED", "STOPPED"} /\ step' = "waiting" /\ attempt' = 0
        /\ sinceSuccess' \in {0, sinceSuccess}
    BY <1>1 DEF StartIgnored, StartRefused, StartReady, StartGivesUp, StopIgnored, StopEnds, Settle
  <2>2. UNCHANGED <<run, child, asked, count, restarts, stables, monitored, scheduled, timers,
                    configured, requests>>
    BY <1>1 DEF StartIgnored, StartRefused, StartReady, StartGivesUp, StopIgnored, StopEnds,
       KeepSupervisors
  <2> QED
    BY <2>1, <2>2
<1>2. CASE Spawn
  <2>1. run + 1 \in 1..MaxRuns /\ Stable \in Nat
    BY <1>2 DEF Spawn
  <2>2. stables' \subseteq [run : 1..MaxRuns, left : 0..Stable]
    BY <1>2, <2>1 DEF Spawn
  <2>3. attempt + 1 \in 0..Attempts
    BY <1>2 DEF Spawn, HeadIs
  <2>4. asked' \in BOOLEAN
    BY <1>2 DEF Spawn
  <2>5. EngineTypes' /\ AttemptInv'
    BY <1>2, <2>1, <2>3, <2>4 DEF Spawn
  <2>6. ScheduleTypes'
    BY <1>2 DEF Spawn, scheduleVars
  <2>7. RestartTypes'
    BY <1>2, <2>1, <2>2 DEF Spawn
  <2>8. CountInv'
    BY <1>2 DEF Spawn
  <2> QED
    BY <2>5, <2>6, <2>7, <2>8
<1>3. CASE StartNotReady
  BY <1>3 DEF StartNotReady, KeepSupervisors
<1>4. CASE StopBegins
  BY <1>4 DEF StopBegins, KeepSupervisors, HeadIs
<1> QED
  BY <1>1, <1>2, <1>3, <1>4 DEF EngineStep

\* The delivery of an exit, which a crash restart may count.
LEMMA ExitTypes ==
  ASSUME SupTypeInv, ExitDelivered
  PROVE  SupTypeInv'
<1> USE PeriodsAreNat DEF SupTypeInv
<1>1. EngineTypes' /\ ScheduleTypes' /\ AttemptInv' /\ sinceSuccess' = sinceSuccess
      /\ stables' = stables /\ monitored' = 0
  BY DEF ExitDelivered, EngineTypes, ScheduleTypes, AttemptInv, scheduleVars
<1>2. run \in 1..MaxRuns /\ count + 1 <= run /\ count \in Nat /\ run' = run /\ child' = "none"
  BY DEF ExitDelivered, EngineTypes, RestartTypes, CountInv
<1>3. count' \in {0, count, count + 1}
  BY DEF ExitDelivered, CrashDelivered, CrashHandled
<1>4. restarts' \subseteq [run : 1..MaxRuns, left : 0..BackoffMax]
  <2>1. Backoff(count + 1) \in 0..BackoffMax
    BY <1>2, BackoffDoubles
  <2>2. restarts' \in {restarts, restarts \cup {[run |-> run, left |-> Backoff(count + 1)]}}
    BY DEF ExitDelivered, CrashDelivered, CrashHandled
  <2> QED
    BY <1>2, <2>1, <2>2 DEF RestartTypes
<1>5. CountInv'
  BY <1>2, <1>3 DEF CountInv
<1>6. RestartTypes'
  BY <1>1, <1>2, <1>3, <1>4 DEF RestartTypes
<1> QED
  BY <1>1, <1>5, <1>6

\* A schedule's timers are armed within its delay.
LEMMA ScheduleStepTypes ==
  ASSUME SupTypeInv, NEW delay \in 0..MaxDelay, NEW reason \in {"schedule", "restart"},
         Schedule(delay, reason)
  PROVE  SupTypeInv'
<1> USE PeriodsAreNat DEF SupTypeInv
<1> DEFINE id == requests + 1
           stop == [id |-> id, does |-> reason, left |-> delay]
           warn == [id |-> id, does |-> "warn", left |-> delay - Lead]
<1>1. /\ EngineTypes' /\ RestartTypes' /\ CountInv' /\ AttemptInv'
      /\ configured' = configured /\ requests' = id
  BY DEF Schedule, EngineTypes, RestartTypes, CountInv, AttemptInv, restartVars
<1>2. id \in 1..MaxRequests
  BY DEF Schedule, ScheduleTypes
<1>3. scheduled' \in {0, id}
  BY DEF Schedule
<1>4. stop \in Timer({"warn", "schedule", "restart"})
  BY <1>2 DEF Timer
<1>5. delay > Lead => warn \in Timer({"warn", "schedule", "restart"})
  BY <1>2 DEF Timer
<1>6. timers' \subseteq timers \cup {stop} \cup (IF delay > Lead THEN {warn} ELSE {})
  BY DEF Schedule, TimersAfterCancel
<1>7. timers' \subseteq Timer({"warn", "schedule", "restart"})
  BY <1>4, <1>5, <1>6 DEF ScheduleTypes
<1> QED
  BY <1>1, <1>2, <1>3, <1>7 DEF ScheduleTypes

\* A tick passes for every timer, none of which is due.
LEMMA TickTypes ==
  ASSUME SupTypeInv, Tick
  PROVE  SupTypeInv'
<1> USE PeriodsAreNat DEF SupTypeInv
<1>1. EngineTypes' /\ CountInv' /\ AttemptInv' /\ count' = count /\ monitored' = monitored
      /\ scheduled' = scheduled /\ configured' = configured /\ requests' = requests
  BY DEF Tick, EngineTypes, CountInv, AttemptInv, engineVars
<1>2. restarts' \subseteq [run : 1..MaxRuns, left : 0..BackoffMax]
  BY ElapseKeeps DEF Tick, RestartTypes
<1>3. stables' \subseteq [run : 1..MaxRuns, left : 0..Stable]
  BY ElapseKeeps DEF Tick, RestartTypes
<1>4. sinceSuccess' \in 0..Cooldown
  BY DEF Tick, RestartTypes
<1>5. timers' \subseteq Timer({"warn", "schedule", "restart"})
  <2>1. ASSUME NEW t \in timers
        PROVE  [t EXCEPT !.left = @ - 1] \in Timer({"warn", "schedule", "restart"})
    BY DEF Tick, ScheduleTypes, Timer
  <2> QED
    BY <2>1 DEF Tick, Elapse
<1>6. RestartTypes' /\ ScheduleTypes'
  BY <1>1, <1>2, <1>3, <1>4, <1>5 DEF RestartTypes, ScheduleTypes
<1> QED
  BY <1>1, <1>6

LEMMA SupTypeStep == SupTypeInv /\ [SupNext]_supVars => SupTypeInv'
<1> SUFFICES ASSUME SupTypeInv, [SupNext]_supVars PROVE SupTypeInv'
  OBVIOUS
<1> DEFINE Parts == EngineTypes /\ RestartTypes /\ ScheduleTypes /\ CountInv /\ AttemptInv
<1>0. Parts /\ (Parts' => SupTypeInv')
  BY DEF SupTypeInv
<1> USE PeriodsAreNat DEF EngineTypes, RestartTypes, ScheduleTypes, CountInv, AttemptInv
<1>1. CASE EngineStep
  BY <1>1, EngineStepTypes
<1>2. CASE ChildDies \/ HealthCheck
  BY <1>0, <1>2 DEF ChildDies, HealthCheck, engineVars, restartVars, scheduleVars
<1>10. CASE Cancel \/ DeleteServer
  <2>1. configured' \in BOOLEAN
    BY <1>0, <1>10 DEF Cancel, DeleteServer
  <2> QED
    BY <1>0, <1>10, <2>1 DEF Cancel, DeleteServer, TimersAfterCancel, engineVars, restartVars,
       scheduleVars
<1>3. CASE ExitDelivered
  BY <1>3, ExitTypes
<1>4. ASSUME NEW t, RestartDue(t) \/ StableDue(t) PROVE SupTypeInv'
  BY <1>0, <1>4 DEF RestartDue, StableDue, engineVars, scheduleVars
<1>5. ASSUME NEW delay \in 0..MaxDelay, NEW reason \in {"schedule", "restart"},
             Schedule(delay, reason)
      PROVE  SupTypeInv'
  BY <1>5, ScheduleStepTypes
<1>6. ASSUME NEW t, WarningDue(t) \/ StopDue(t) PROVE SupTypeInv'
  BY <1>0, <1>6 DEF WarningDue, StopDue, engineVars, restartVars
<1>7. ASSUME NEW what, UserRequest(what) PROVE SupTypeInv'
  BY <1>0, <1>7 DEF UserRequest, restartVars, scheduleVars
<1>8. CASE Tick
  BY <1>8, TickTypes
<1>9. CASE UNCHANGED supVars
  BY <1>0, <1>9 DEF supVars, engineVars, restartVars, scheduleVars
<1> QED
  BY <1>1, <1>2, <1>3, <1>4, <1>5, <1>6, <1>7, <1>8, <1>9, <1>10 DEF SupNext

\* The variables keep their types: an engine never makes more attempts than
\* its policy allows, no crash is counted that no run had, and every timer is
\* armed for a delay within its limit, the backoff's among them.
THEOREM SupTypes == SupSpec => []SupTypeOK
<1> DEFINE Inv == SupTypeInv /\ QueueInv /\ ScheduleInv
<1>1. SupInit => Inv
  <2> SUFFICES ASSUME SupInit PROVE Inv
    OBVIOUS
  <2>1. QueueInv /\ ScheduleInv
    BY DEF SupInit, QueueInv, RestartsShareOneStart, ScheduleInv, ScheduleIsArmed
  <2>2. SupTypeInv
    <3>0. asked \in BOOLEAN
      BY DEF SupInit
    <3>1. EngineTypes /\ CountInv /\ AttemptInv
      BY <3>0, PeriodsAreNat DEF SupInit, EngineTypes, CountInv, AttemptInv
    <3>2. RestartTypes /\ ScheduleTypes
      BY PeriodsAreNat DEF SupInit, RestartTypes, ScheduleTypes
    <3> QED
      BY <3>1, <3>2 DEF SupTypeInv
  <2> QED
    BY <2>1, <2>2
<1>2. Inv /\ [SupNext]_supVars => Inv'
  BY SupTypeStep, QueueStep, ScheduleStep
<1>3. Inv => SupTypeOK
  <2> SUFFICES ASSUME Inv PROVE SupTypeOK
    OBVIOUS
  <2>1. count \in 0..MaxRuns
    BY PeriodsAreNat DEF SupTypeInv, EngineTypes, RestartTypes, CountInv
  <2> QED
    BY <2>1 DEF SupTypeInv, EngineTypes, RestartTypes, ScheduleTypes, QueueInv, SupTypeOK
<1> QED
  BY <1>1, <1>2, <1>3, PTL DEF SupSpec

(***************************************************************************)
(* The safety half of ScheduledRestartStarts.                              *)
(***************************************************************************)

\* The engine works on a request of the queue, of the kind its step is of.
WorksOnHead ==
  /\ step \in {"starting", "cleaning"} => queue # <<>> /\ Head(queue).what = "start"
  /\ step = "stopping" => queue # <<>> /\ Head(queue).what = "stop"

\* Whoever waits for a process to be gone has asked it to go.
GoneIfAsked == step \in {"cleaning", "stopping"} /\ child # "none" => asked

NoRequestWaitsForNothing == WorksOnHead /\ GoneIfAsked

\* A request that is added to the queue does not change the head it has.
LEMMA AppendKeepsHead ==
  ASSUME NEW q \in Seq(Request), NEW r, q # <<>>
  PROVE  Append(q, r) # <<>> /\ Head(Append(q, r)) = Head(q)
OBVIOUS

\* No step makes the engine wait for what will not come.
LEMMA WaitStep == QueueInv /\ NoRequestWaitsForNothing /\ [SupNext]_supVars => NoRequestWaitsForNothing'
<1> SUFFICES ASSUME QueueInv, NoRequestWaitsForNothing, [SupNext]_supVars
             PROVE  NoRequestWaitsForNothing'
  OBVIOUS
<1> USE DEF NoRequestWaitsForNothing, WorksOnHead, GoneIfAsked
<1>0. ASSUME UNCHANGED <<step, child, asked>>,
             UNCHANGED queue \/ \E what, by : Enqueue(what, by)
      PROVE  NoRequestWaitsForNothing'
  BY <1>0, AppendKeepsHead DEF Enqueue, QueueInv
<1>1. CASE StartIgnored \/ StartRefused \/ StartReady \/ StartGivesUp \/ StopIgnored \/ StopEnds
  BY <1>1 DEF StartIgnored, StartRefused, StartReady, StartGivesUp, StopIgnored, StopEnds, Settle
<1>2. CASE Spawn \/ StartNotReady \/ StopBegins
  BY <1>2 DEF Spawn, StartNotReady, StopBegins, HeadIs, KeepSupervisors
<1>3. CASE ChildDies \/ ExitDelivered
  BY <1>3 DEF ChildDies, ExitDelivered
<1>4. ASSUME NEW t, RestartDue(t) \/ StableDue(t) \/ WarningDue(t) \/ StopDue(t)
      PROVE  NoRequestWaitsForNothing'
  BY <1>0, <1>4 DEF RestartDue, StableDue, WarningDue, StopDue, ExecuteStop, engineVars
<1>5. ASSUME NEW delay, NEW reason, Schedule(delay, reason) PROVE NoRequestWaitsForNothing'
  BY <1>0, <1>5 DEF Schedule, ExecuteStop
<1>6. ASSUME NEW what, UserRequest(what) PROVE NoRequestWaitsForNothing'
  BY <1>0, <1>6 DEF UserRequest
<1>7. CASE HealthCheck \/ Cancel \/ DeleteServer \/ Tick \/ UNCHANGED supVars
  BY <1>0, <1>7 DEF HealthCheck, Cancel, DeleteServer, Tick, supVars, engineVars
<1> QED
  BY <1>1, <1>2, <1>3, <1>4, <1>5, <1>6, <1>7 DEF SupNext, EngineStep

\* Crash, schedule and user requests in any order: the engine is at work on
\* one of them, and a process whose end it waits for was asked to stop.
THEOREM RequestsAreServed == SupSpec => []NoRequestWaitsForNothing
<1>1. SupInit => QueueInv /\ ScheduleInv /\ NoRequestWaitsForNothing
  BY DEF SupInit, QueueInv, RestartsShareOneStart, ScheduleInv, ScheduleIsArmed,
         NoRequestWaitsForNothing, WorksOnHead, GoneIfAsked
<1> QED
  BY <1>1, QueueStep, ScheduleStep, WaitStep, PTL DEF SupSpec

\* The stop of a scheduled restart leaves the queue only for its start, or
\* when the server has been deleted.
RestartAsksForStart == [][StopOfRestart /\ ~StopOfRestart' => StartOfRestart' \/ ~configured]_supVars

\* A request that is not the head is still there after the head has settled,
\* and after another was added.
LEMMA RequestStays ==
  ASSUME NEW q \in Seq(Request), NEW i \in DOMAIN q
  PROVE  /\ i # 1 => \E j \in DOMAIN Tail(q) : Tail(q)[j] = q[i]
         /\ \A r \in Request : \E j \in DOMAIN Append(q, r) : Append(q, r)[j] = q[i]
<1>1. q # <<>> /\ Len(q) \in Nat \ {0} /\ i \in 1..Len(q)
  OBVIOUS
<1>2. ASSUME i # 1 PROVE \E j \in DOMAIN Tail(q) : Tail(q)[j] = q[i]
  <2>1. i - 1 \in 1..Len(q) - 1 /\ DOMAIN Tail(q) = 1..Len(q) - 1 /\ Tail(q)[i - 1] = q[i]
    BY <1>1, <1>2
  <2> QED
    BY <2>1
<1>3. ASSUME NEW r \in Request PROVE \E j \in DOMAIN Append(q, r) : Append(q, r)[j] = q[i]
  <2>1. i \in DOMAIN Append(q, r) /\ Append(q, r)[i] = q[i]
    BY <1>1
  <2> QED
    BY <2>1
<1> QED
  BY <1>2, <1>3

\* Whatever becomes of the stop of a scheduled restart, ignored, failed or done,
\* the start that belongs to it is asked for in the same step.
THEOREM ScheduledRestartsGoOn == SupSpec => RestartAsksForStart
<1> DEFINE start == [what |-> "start", by |-> "restart"]
           stop == [what |-> "stop", by |-> "restart"]
<1>1. SupInit => QueueInv /\ ScheduleInv
  BY DEF SupInit, QueueInv, RestartsShareOneStart, ScheduleInv, ScheduleIsArmed
<1>2. QueueInv /\ ScheduleInv /\ [SupNext]_supVars =>
        [StopOfRestart /\ ~StopOfRestart' => StartOfRestart' \/ ~configured]_supVars
  <2> SUFFICES ASSUME QueueInv, ScheduleInv, SupNext, StopOfRestart, ~StopOfRestart', configured
               PROVE  StartOfRestart'
    OBVIOUS
  <2>1. queue \in Seq(Request) /\ start \in Request
    BY DEF QueueInv, Request
  <2>2. PICK i \in DOMAIN queue : queue[i] = stop
    BY DEF StopOfRestart
  <2>3. queue' # queue
    BY DEF StopOfRestart
  <2>4. ~ \E what, by : [what |-> what, by |-> by] \in Request /\ Enqueue(what, by)
    <3> SUFFICES ASSUME NEW what, NEW by, [what |-> what, by |-> by] \in Request, Enqueue(what, by)
                 PROVE  FALSE
      OBVIOUS
    <3>1. \E j \in DOMAIN Append(queue, [what |-> what, by |-> by]) :
            Append(queue, [what |-> what, by |-> by])[j] = queue[i]
      BY <2>1, <2>2, RequestStays
    <3>2. \E j \in DOMAIN queue' : queue'[j] = stop
      BY <2>2, <3>1 DEF Enqueue
    <3> QED
      BY <3>2 DEF StopOfRestart
  <2>5. ASSUME NEW ok, Settle(ok) PROVE StartOfRestart'
    <3>1. queue # <<>> /\ Tail(queue) \in Seq(Request)
      BY <2>1, <2>2
    <3>2. ASSUME i # 1 PROVE FALSE
      <4>1. PICK j \in DOMAIN Tail(queue) : Tail(queue)[j] = stop
        BY <2>1, <2>2, <3>2, RequestStays
      <4>2. queue' = Tail(queue) \/ queue' = Append(Tail(queue), start)
        BY <2>5 DEF Settle, AfterStop
      <4>3. \E k \in DOMAIN Append(Tail(queue), start) : Append(Tail(queue), start)[k] = Tail(queue)[j]
        BY <2>1, <3>1, RequestStays
      <4>4. \E k \in DOMAIN queue' : queue'[k] = stop
        BY <4>1, <4>2, <4>3
      <4> QED
        BY <4>4 DEF StopOfRestart
    <3>3. Head(queue) = stop
      BY <2>1, <2>2, <3>2
    <3>4. queue' = Append(Tail(queue), start)
      BY <2>5, <3>3 DEF Settle, AfterStop
    <3>5. Len(Tail(queue)) + 1 \in DOMAIN queue' /\ queue'[Len(Tail(queue)) + 1] = start
      BY <2>1, <3>1, <3>4
    <3> QED
      BY <3>5 DEF StartOfRestart
  <2>6. CASE EngineStep
    BY <2>3, <2>5, <2>6 DEF EngineStep, StartIgnored, StartRefused, StartReady, StartGivesUp,
       StopIgnored, StopEnds, Spawn, StartNotReady, StopBegins
  <2>7. CASE ChildDies \/ ExitDelivered \/ HealthCheck \/ Cancel \/ DeleteServer \/ Tick
    BY <2>3, <2>7 DEF ChildDies, ExitDelivered, HealthCheck, Cancel, DeleteServer, Tick, engineVars
  <2>8. ASSUME NEW t, RestartDue(t) \/ StableDue(t) \/ WarningDue(t) PROVE FALSE
    BY <2>3, <2>4, <2>8 DEF RestartDue, StableDue, WarningDue, engineVars, Request
  <2>9. ASSUME NEW t \in timers, StopDue(t) PROVE FALSE
    BY <2>4, <2>9 DEF StopDue, ExecuteStop, ScheduleInv, ArmedTimer, Request
  <2>10. ASSUME NEW delay, NEW reason \in {"schedule", "restart"}, Schedule(delay, reason)
         PROVE  FALSE
    BY <2>3, <2>4, <2>10 DEF Schedule, ExecuteStop, Request
  <2>11. ASSUME NEW what \in {"start", "stop"}, UserRequest(what) PROVE FALSE
    BY <2>4, <2>11 DEF UserRequest, Request
  <2> QED
    BY <2>6, <2>7, <2>8, <2>9, <2>10, <2>11 DEF SupNext
<1> QED
  BY <1>1, <1>2, QueueStep, ScheduleStep, PTL DEF SupSpec, RestartAsksForStart
=============================================================================
