------------------------ MODULE OperationLockProofs ------------------------
(* Proofs about OperationLock for any set of calls and any set of keys.    *)
EXTENDS OperationLock, WellFoundedInduction, TLAPS

(***************************************************************************)
(* The inductive invariant.  ChainExclusion alone is not inductive: Begin  *)
(* looks only at the one promise the operation was chained on, so the      *)
(* invariant must know that the chain is a chain, each link one deeper     *)
(* than its predecessor and no place taken twice, and that whatever the    *)
(* map holds is the last link of its chain.                                *)
(***************************************************************************)
Placed(o) == root[o] # None

\* Exactly the calls that run an operation have a place in a chain, and the
\* operation a chain is named after is in it.
PlacesOK ==
  \A o \in Op :
    /\ Placed(o) <=> stage[o] \notin {"new", "joined"}
    /\ Placed(o) => root[root[o]] = root[o]

\* An operation's predecessor is the previous link of its chain.
LinksOK ==
  \A o \in Op :
    /\ Placed(o) /\ depth[o] # 0 => waitsFor[o] # None
    /\ waitsFor[o] # None => /\ Placed(o)
                             /\ root[waitsFor[o]] = root[o]
                             /\ depth[o] = depth[waitsFor[o]] + 1

\* No two operations have the same place in the same chain.
OnePerPlace ==
  \A o, p \in Op :
    Placed(o) /\ root[o] = root[p] /\ depth[o] = depth[p] => o = p

\* The map holds the last link of a chain, and that operation is unfinished.
TailIsLast ==
  tail # None =>
    /\ Unfinished(tail)
    /\ \A o \in Op : root[o] = root[tail] => depth[o] <= depth[tail]

\* Once an operation has begun, everything before it in its chain has settled.
BegunInOrder ==
  \A o, p \in Op :
    /\ Placed(o) /\ root[o] = root[p] /\ depth[o] < depth[p]
    /\ stage[p] # "queued"
    => Settled(o)

LockInv ==
  /\ LockTypeOK
  /\ PlacesOK
  /\ LinksOK
  /\ OnePerPlace
  /\ TailIsLast
  /\ BegunInOrder
  /\ SingleFlight

-----------------------------------------------------------------------------
\* An empty lock satisfies the invariant.
LEMMA LockInitInv == LockInit => LockInv
BY NoneIsFresh
   DEF LockInit, LockInv, LockTypeOK, PlacesOK, LinksOK, OnePerPlace, TailIsLast,
       BegunInOrder, SingleFlight, Placed, Unfinished, Settled, Stage

\* A new operation takes the place after the tail, or the head of a new chain.
LEMMA CallKeepsInv ==
  ASSUME LockInv, NEW o \in Op, NEW k \in Key \cup {None}, Call(o, k)
  PROVE  LockInv'
<1> USE NoneIsFresh
<1> USE DEF LockInv, Call, Enqueue
<1>1. LockTypeOK'
  BY DEF LockTypeOK, Stage
<1>2. ~Placed(o) /\ \A p \in Op : Placed(p) => root[p] # o
  BY DEF PlacesOK, Placed, LockTypeOK
<1>3. tail # None => tail # o /\ tail \in Op /\ Placed(tail)
  BY DEF TailIsLast, Unfinished, PlacesOK, Placed, LockTypeOK
<1>4. PlacesOK'
  BY <1>2, <1>3 DEF PlacesOK, Placed, LockTypeOK
<1>5. LinksOK'
  BY <1>2, <1>3 DEF LinksOK, Placed, LockTypeOK
<1>6. OnePerPlace'
  BY <1>2, <1>3 DEF OnePerPlace, TailIsLast, Placed, LockTypeOK
<1>7. TailIsLast'
  BY <1>2, <1>3 DEF TailIsLast, Placed, Unfinished, LockTypeOK
<1>8. BegunInOrder'
  BY <1>2, <1>3 DEF BegunInOrder, TailIsLast, Placed, Settled, LockTypeOK
<1>9. SingleFlight'
  BY DEF SingleFlight, Unfinished, LockTypeOK
<1> QED
  BY <1>1, <1>4, <1>5, <1>6, <1>7, <1>8, <1>9

\* A call that joins another's operation changes no chain.
LEMMA JoinKeepsInv ==
  ASSUME LockInv, NEW o \in Op, NEW k \in Key, Join(o, k)
  PROVE  LockInv'
<1> USE NoneIsFresh
<1> USE DEF LockInv, Join
<1>1. LockTypeOK'
  BY DEF LockTypeOK, Stage
<1>2. PlacesOK' /\ LinksOK' /\ OnePerPlace'
  BY DEF PlacesOK, LinksOK, OnePerPlace, Placed, LockTypeOK
<1>3. TailIsLast' /\ BegunInOrder' /\ SingleFlight'
  BY DEF TailIsLast, BegunInOrder, SingleFlight, PlacesOK, Placed, Unfinished, Settled, LockTypeOK
<1> QED
  BY <1>1, <1>2, <1>3

\* Begin is where the chain's order is earned: the predecessor has settled, and
\* whatever is before the predecessor had settled when the predecessor began.
LEMMA BeginKeepsInv ==
  ASSUME LockInv, NEW o \in Op, Begin(o)
  PROVE  LockInv'
<1> USE NoneIsFresh
<1> USE DEF LockInv, Begin
<1>1. LockTypeOK'
  BY DEF LockTypeOK, Stage
<1>2. PlacesOK' /\ LinksOK' /\ OnePerPlace' /\ TailIsLast' /\ SingleFlight'
  BY DEF PlacesOK, LinksOK, OnePerPlace, TailIsLast, SingleFlight, Placed, Unfinished, LockTypeOK
<1>3. ASSUME NEW p \in Op, Placed(p), root[p] = root[o], depth[p] < depth[o]
      PROVE  Settled(p)
  <2>1. waitsFor[o] \in Op /\ Settled(waitsFor[o])
    BY <1>3 DEF LinksOK, PreviousSettled, Placed, LockTypeOK
  <2>2. root[waitsFor[o]] = root[o] /\ depth[o] = depth[waitsFor[o]] + 1
    BY <2>1 DEF LinksOK, LockTypeOK
  <2>3. CASE p = waitsFor[o]
    BY <2>1, <2>3
  <2>4. CASE p # waitsFor[o]
    <3>1. depth[p] \in Nat /\ depth[o] \in Nat /\ depth[waitsFor[o]] \in Nat
      BY <2>1 DEF LockTypeOK
    <3>2. depth[p] # depth[waitsFor[o]]
      BY <1>3, <2>1, <2>2, <2>4 DEF OnePerPlace
    <3>3. depth[p] < depth[waitsFor[o]]
      BY <1>3, <2>2, <3>1, <3>2
    <3>4. stage[waitsFor[o]] # "queued"
      BY <2>1 DEF Settled
    <3> QED
      BY <1>3, <2>1, <2>2, <3>3, <3>4 DEF BegunInOrder
  <2> QED
    BY <2>3, <2>4
<1>4. BegunInOrder'
  BY <1>3 DEF BegunInOrder, Placed, Settled, LockTypeOK
<1> QED
  BY <1>1, <1>2, <1>4

\* An operation that settles, well or badly, and the deletion of the map entry
\* keep the invariant.
LEMMA FinishKeepsInv ==
  ASSUME LockInv, NEW o \in Op, NEW outcome \in {"done", "failed"}, Finish(o, outcome)
  PROVE  LockInv'
<1> USE NoneIsFresh
<1> USE DEF LockInv, Finish
<1>1. LockTypeOK'
  BY DEF LockTypeOK, Stage
<1>2. PlacesOK' /\ LinksOK' /\ OnePerPlace' /\ TailIsLast'
  BY DEF PlacesOK, LinksOK, OnePerPlace, TailIsLast, Placed, LockTypeOK
<1>3. BegunInOrder' /\ SingleFlight'
  BY DEF BegunInOrder, SingleFlight, Placed, Settled, Unfinished, LockTypeOK
<1> QED
  BY <1>1, <1>2, <1>3

\* Forgetting the key of a settled operation keeps the invariant.
LEMMA ForgetKeepsInv ==
  ASSUME LockInv, NEW o \in Op, Forget(o)
  PROVE  LockInv'
<1> USE NoneIsFresh
<1> USE DEF LockInv, Forget
<1>1. LockTypeOK'
  BY DEF LockTypeOK
<1>2. PlacesOK' /\ LinksOK' /\ OnePerPlace' /\ TailIsLast' /\ BegunInOrder'
  BY DEF PlacesOK, LinksOK, OnePerPlace, TailIsLast, BegunInOrder, Placed, Unfinished, Settled
<1>3. SingleFlight'
  BY DEF SingleFlight, Unfinished, Settled, LockTypeOK
<1> QED
  BY <1>1, <1>2, <1>3

\* So does a step that leaves the lock alone.
LEMMA StutterKeepsInv == LockInv /\ UNCHANGED lockVars => LockInv'
BY DEF LockInv, lockVars, LockTypeOK, PlacesOK, LinksOK, OnePerPlace, TailIsLast,
       BegunInOrder, SingleFlight, Placed, Unfinished, Settled

\* The strengthened invariant holds in every behaviour of the lock.
THEOREM LockInvariant == LockSpec => []LockInv
<1>1. LockInv /\ [LockNext]_lockVars => LockInv'
  <2> SUFFICES ASSUME LockInv, [LockNext]_lockVars PROVE LockInv'
    OBVIOUS
  <2>1. CASE UNCHANGED lockVars
    BY <2>1, StutterKeepsInv
  <2>2. ASSUME NEW o \in Op, NEW k \in Key \cup {None}, Call(o, k) PROVE LockInv'
    BY <2>2, CallKeepsInv
  <2>3. ASSUME NEW o \in Op, NEW k \in Key, Join(o, k) PROVE LockInv'
    BY <2>3, JoinKeepsInv
  <2>4. ASSUME NEW o \in Op, Begin(o) PROVE LockInv'
    BY <2>4, BeginKeepsInv
  <2>5. ASSUME NEW o \in Op, NEW outcome \in {"done", "failed"}, Finish(o, outcome)
        PROVE  LockInv'
    BY <2>5, FinishKeepsInv
  <2>6. ASSUME NEW o \in Op, Forget(o) PROVE LockInv'
    BY <2>6, ForgetKeepsInv
  <2> QED
    BY <2>1, <2>2, <2>3, <2>4, <2>5, <2>6 DEF LockNext
<1> QED
  BY LockInitInv, <1>1, PTL DEF LockSpec

\* LockTypeOK: the two maps and every call keep their types.
THEOREM LockTypeCorrect == LockSpec => []LockTypeOK
<1>1. LockInv => LockTypeOK
  BY DEF LockInv
<1> QED
  BY <1>1, LockInvariant, PTL

\* ChainExclusion: two operations of one chain never overlap, for any number
\* of calls (withServerLock), whether the earlier ones succeed or fail.
THEOREM OperationsOfAChainExclude == LockSpec => []ChainExclusion
<1>1. LockInv => ChainExclusion
  BY DEF LockInv, ChainExclusion, BegunInOrder, Placed, Unfinished, Settled
<1> QED
  BY <1>1, LockInvariant, PTL

\* SingleFlight: one unfinished operation per idempotency key, for any number
\* of callers giving it (withIdempotentOperation).
THEOREM OneOperationPerKey == LockSpec => []SingleFlight
<1>1. LockInv => SingleFlight
  BY DEF LockInv
<1> QED
  BY <1>1, LockInvariant, PTL

(***************************************************************************)
(* Nobody waits for nothing: what ChainExclusion costs a caller is only    *)
(* the time of those before it.                                            *)
(***************************************************************************)
\* A call is handed the promise of an operation that was placed in a chain.
SharedOK ==
  /\ \A k \in Key : inFlight[k] # None => Placed(inFlight[k])
  /\ \A o \in Op : /\ Placed(o) => sharedOp[o] = o
                   /\ stage[o] = "joined" => sharedOp[o] # None /\ Placed(sharedOp[o])

\* The operation can go on: its action is running, or what it was chained on
\* has settled and its own turn has come.
CanGoOn(o) == stage[o] = "active" \/ (stage[o] = "queued" /\ PreviousSettled(o))

\* Every call that was made is answered, or waits for an operation of a chain
\* in which one can go on: itself, or one before it.
NobodyWaitsForNothing ==
  \A o \in Op :
    stage[o] # "new" =>
      \/ Answered(o)
      \/ /\ sharedOp[o] # None /\ Placed(sharedOp[o])
         /\ \E p \in Op : /\ root[p] = root[sharedOp[o]] /\ depth[p] <= depth[sharedOp[o]]
                          /\ CanGoOn(p)

\* A set of natural numbers that has an element has a least one.
LEMMA LeastDepth ==
  ASSUME NEW T \in SUBSET Nat, T # {}
  PROVE  \E x \in T : \A y \in T : x <= y
<1>1. PICK x \in T : \A y \in T : ~(<<y, x>> \in OpToRel(<, Nat))
  BY NatLessThanWellFounded, WFMin
<1>2. ASSUME NEW y \in T PROVE x <= y
  <2>1. <<y, x>> \in Nat \X Nat
    OBVIOUS
  <2>2. ~(y < x)
    BY <1>1, <2>1 DEF OpToRel
  <2> QED
    BY <2>2
<1> QED
  BY <1>2

\* No step takes an operation out of its chain, and a call is only ever handed
\* the promise of one that is in a chain.
LEMMA SharedStep == LockInv /\ SharedOK /\ [LockNext]_lockVars => SharedOK'
<1> SUFFICES ASSUME LockInv, SharedOK, [LockNext]_lockVars PROVE SharedOK'
  OBVIOUS
<1> USE NoneIsFresh
<1>0. LockTypeOK /\ PlacesOK
  BY DEF LockInv
<1>1. CASE UNCHANGED lockVars
  BY <1>1 DEF SharedOK, Placed, lockVars
<1>2. ASSUME NEW o \in Op, NEW k \in Key \cup {None}, Call(o, k) PROVE SharedOK'
  <2>1. tail # None => tail \in Op /\ root[tail] # None
    BY DEF LockInv, TailIsLast, Unfinished, PlacesOK, Placed, LockTypeOK
  <2>2. Placed(o)' /\ sharedOp'[o] = o /\ stage'[o] = "queued" /\ ~Placed(o)
    BY <1>0, <1>2, <2>1 DEF Call, Enqueue, LockTypeOK, PlacesOK, Placed
  <2>3. ASSUME NEW p \in Op, p # o
        PROVE  sharedOp'[p] = sharedOp[p] /\ stage'[p] = stage[p] /\ root'[p] = root[p]
    BY <1>0, <1>2, <2>3 DEF Call, Enqueue, LockTypeOK
  <2>4. \A p \in Op : Placed(p) => Placed(p)'
    BY <2>2, <2>3 DEF Placed
  <2>5. \A j \in Key : inFlight'[j] \in {inFlight[j], o}
    BY <1>0, <1>2 DEF Call, LockTypeOK
  <2>6. \A j \in Key : inFlight'[j] # None => Placed(inFlight[j])'
    BY <1>0, <2>2, <2>4, <2>5 DEF SharedOK, LockTypeOK, Placed
  <2>7. ASSUME NEW p \in Op
        PROVE  /\ Placed(p)' => sharedOp'[p] = p
               /\ stage'[p] = "joined" => sharedOp'[p] # None /\ root'[sharedOp'[p]] # None
    <3>1. CASE p = o
      BY <2>2, <3>1
    <3>2. CASE p # o
      BY <1>0, <2>3, <2>4, <3>2 DEF SharedOK, Placed, LockTypeOK
    <3> QED
      BY <3>1, <3>2
  <2> QED
    BY <2>2, <2>4, <2>5, <2>7, <1>0 DEF SharedOK, Placed, LockTypeOK
<1>3. ASSUME NEW o \in Op, NEW k \in Key, Join(o, k) PROVE SharedOK'
  BY <1>0, <1>3 DEF Join, SharedOK, Placed, LockTypeOK, PlacesOK
<1>4. ASSUME NEW o \in Op, Begin(o) PROVE SharedOK'
  BY <1>0, <1>4 DEF Begin, SharedOK, Placed, LockTypeOK
<1>5. ASSUME NEW o \in Op, NEW outcome \in {"done", "failed"}, Finish(o, outcome) PROVE SharedOK'
  BY <1>0, <1>5 DEF Finish, SharedOK, Placed, LockTypeOK
<1>6. ASSUME NEW o \in Op, Forget(o) PROVE SharedOK'
  BY <1>0, <1>6 DEF Forget, SharedOK, Placed, LockTypeOK
<1> QED
  BY <1>1, <1>2, <1>3, <1>4, <1>5, <1>6 DEF LockNext

\* Of the unfinished operations of a chain the first can go on: either it is
\* running, or what it was chained on has settled.
LEMMA FirstCanGoOn ==
  ASSUME LockInv, NEW o \in Op, Unfinished(o)
  PROVE  \E p \in Op : root[p] = root[o] /\ depth[p] <= depth[o] /\ CanGoOn(p)
<1> USE NoneIsFresh
<1>0. LockTypeOK /\ PlacesOK /\ LinksOK
  BY DEF LockInv
<1> DEFINE Rest == {p \in Op : root[p] = root[o] /\ Unfinished(p)}
           Depths == {depth[p] : p \in Rest}
<1>1. Depths \in SUBSET Nat /\ depth[o] \in Depths
  BY <1>0 DEF LockTypeOK
<1>2. PICK d \in Depths : \A e \in Depths : d <= e
  <2> HIDE DEF Depths
  <2> QED
    BY <1>1, LeastDepth
<1>3. PICK p \in Rest : d = depth[p]
  BY <1>2
<1>4. /\ p \in Op /\ root[p] = root[o] /\ depth[p] <= depth[o] /\ Unfinished(p)
  BY <1>1, <1>2, <1>3
<1>5. CASE stage[p] = "active"
  BY <1>4, <1>5 DEF CanGoOn
<1>6. CASE stage[p] = "queued" /\ waitsFor[p] # None
  <2>1. waitsFor[p] \in Op
    BY <1>0, <1>4, <1>6 DEF LockTypeOK
  <2>2. root[waitsFor[p]] = root[p] /\ depth[p] = depth[waitsFor[p]] + 1 /\ Placed(p)
    BY <1>0, <1>4, <1>6 DEF LinksOK
  <2>3. waitsFor[p] \notin Rest
    <3>1. SUFFICES ASSUME waitsFor[p] \in Rest PROVE FALSE
      OBVIOUS
    <3>2. d <= depth[waitsFor[p]]
      BY <1>2, <3>1
    <3> QED
      BY <3>2, <1>0, <1>3, <2>1, <2>2 DEF LockTypeOK
  <2>4. ~Unfinished(waitsFor[p]) /\ Placed(waitsFor[p])
    BY <1>4, <2>1, <2>2, <2>3 DEF Placed
  <2>5. Settled(waitsFor[p])
    BY <1>0, <2>1, <2>4 DEF PlacesOK, LockTypeOK, Stage, Unfinished, Settled
  <2> QED
    BY <1>4, <1>6, <2>5 DEF CanGoOn, PreviousSettled
<1>7. CASE stage[p] = "queued" /\ waitsFor[p] = None
  BY <1>4, <1>7 DEF CanGoOn, PreviousSettled
<1> QED
  BY <1>4, <1>5, <1>6, <1>7 DEF Unfinished

\* NobodyWaitsForNothing: for any number of calls and however the earlier ones
\* end, withServerLock leaves no caller behind an operation that cannot go on.
THEOREM LockServesEveryCall == LockSpec => []NobodyWaitsForNothing
<1>1. LockInit => SharedOK
  BY NoneIsFresh DEF LockInit, SharedOK, Placed
<1>2. LockInv /\ SharedOK => NobodyWaitsForNothing
  <2> SUFFICES ASSUME LockInv, SharedOK, NEW o \in Op, stage[o] # "new", ~Answered(o)
               PROVE  /\ sharedOp[o] # None /\ Placed(sharedOp[o])
                      /\ \E p \in Op : /\ root[p] = root[sharedOp[o]]
                                       /\ depth[p] <= depth[sharedOp[o]]
                                       /\ CanGoOn(p)
    BY DEF NobodyWaitsForNothing
  <2>0. LockTypeOK /\ PlacesOK
    BY DEF LockInv
  <2>1. stage[o] # "joined" => Placed(o)
    BY <2>0 DEF PlacesOK
  <2>2. sharedOp[o] # None /\ Placed(sharedOp[o])
    BY <2>1, NoneIsFresh DEF SharedOK
  <2>3. sharedOp[o] \in Op
    BY <2>0, <2>2 DEF LockTypeOK
  <2>4. Unfinished(sharedOp[o])
    BY <2>0, <2>2, <2>3 DEF Answered, PlacesOK, LockTypeOK, Stage, Unfinished, Settled
  <2> QED
    BY <2>2, <2>3, <2>4, FirstCanGoOn
<1> QED
  BY <1>1, <1>2, SharedStep, LockInvariant, PTL DEF LockSpec
=============================================================================
