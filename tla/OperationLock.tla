--------------------------- MODULE OperationLock ---------------------------
(* The per-server serialisation of lifecycle operations in                 *)
(* ServerLifecycleEngine (lifecycle-engine.service.ts): withServerLock and *)
(* withIdempotentOperation, for one server.  Both maps of the code are     *)
(* keyed by the server's id, so two servers share no state here.           *)
(*                                                                         *)
(* A call is one request to start, stop or restart.  It either joins the   *)
(* in-flight promise of its idempotency key or becomes an operation of its *)
(* own, chained on the promise stored in operationLocks.                   *)
EXTENDS Naturals, FiniteSets

CONSTANTS Op,      \* the calls a behaviour may make
          Key,     \* normalised keys 'server::action::key'
          None     \* "no promise", "no key"

ASSUME NoneIsFresh == None \notin Op \cup Key

VARIABLES
  stage,     \* how far each call's promise has got
  waitsFor,  \* previous: the promise the call was chained on
  tail,      \* operationLocks.get(serverId)
  keyOf,     \* the idempotency key a call gave, None without one
  inFlight,  \* idempotentOperations, by key
  sharedOp,  \* the operation whose promise a call was handed
  root,      \* history: the operation that found the map empty and began the chain
  depth      \* history: the call's place in its chain

lockVars == <<stage, waitsFor, tail, keyOf, inFlight, sharedOp, root, depth>>

Stage == {"new", "queued", "active", "done", "failed", "joined"}

Settled(o)    == stage[o] \in {"done", "failed"}
Unfinished(o) == stage[o] \in {"queued", "active"}

LockInit ==
  /\ stage = [o \in Op |-> "new"]
  /\ waitsFor = [o \in Op |-> None]
  /\ tail = None
  /\ keyOf = [o \in Op |-> None]
  /\ inFlight = [k \in Key |-> None]
  /\ sharedOp = [o \in Op |-> None]
  /\ root = [o \in Op |-> None]
  /\ depth = [o \in Op |-> 0]

(***************************************************************************)
(* The mutual exclusion the engine builds from promises.                   *)
(***************************************************************************)

\* withServerLock: chain on whatever promise the map holds and store the new one.
Enqueue(o) ==
  /\ stage' = [stage EXCEPT ![o] = "queued"]
  /\ waitsFor' = [waitsFor EXCEPT ![o] = tail]
  /\ tail' = o
  /\ root' = [root EXCEPT ![o] = IF tail = None THEN o ELSE root[tail]]
  /\ depth' = [depth EXCEPT ![o] = IF tail = None THEN 0 ELSE depth[tail] + 1]

\* Mutants: chaining on the predecessor's begin, and on its success only.
PreviousBegun(o)     == waitsFor[o] # None => stage[waitsFor[o]] # "queued"
PreviousSucceeded(o) == waitsFor[o] # None => stage[waitsFor[o]] = "done"

\* The promise a call was chained on has settled; a rejection is swallowed by
\* previous.catch, so a failed predecessor lets its successor in as well.
PreviousSettled(o) == waitsFor[o] # None => Settled(waitsFor[o])

\* Mutant: the key is not looked up before it is set.
CallUnchecked(o, k) ==
  /\ stage[o] = "new"
  /\ Enqueue(o)
  /\ keyOf' = [keyOf EXCEPT ![o] = k]
  /\ inFlight' = IF k = None THEN inFlight ELSE [inFlight EXCEPT ![k] = o]
  /\ sharedOp' = [sharedOp EXCEPT ![o] = o]

\* Mutant: the map is given the key in place of the promise.
CallStoresKey(o, k) ==
  /\ stage[o] = "new"
  /\ k # None => inFlight[k] = None
  /\ Enqueue(o)
  /\ keyOf' = [keyOf EXCEPT ![o] = k]
  /\ inFlight' = IF k = None THEN inFlight ELSE [inFlight EXCEPT ![k] = k]
  /\ sharedOp' = [sharedOp EXCEPT ![o] = o]

\* withIdempotentOperation without a usable key, or with one that is not in
\* flight: the call runs an operation of its own.
Call(o, k) ==
  /\ stage[o] = "new"
  /\ k # None => inFlight[k] = None
  /\ Enqueue(o)
  /\ keyOf' = [keyOf EXCEPT ![o] = k]
  /\ inFlight' = IF k = None THEN inFlight ELSE [inFlight EXCEPT ![k] = o]
  /\ sharedOp' = [sharedOp EXCEPT ![o] = o]

\* withIdempotentOperation with a key in flight: the caller is handed the
\* existing promise and no operation is queued.
Join(o, k) ==
  /\ stage[o] = "new"
  /\ inFlight[k] # None
  /\ stage' = [stage EXCEPT ![o] = "joined"]
  /\ keyOf' = [keyOf EXCEPT ![o] = k]
  /\ sharedOp' = [sharedOp EXCEPT ![o] = inFlight[k]]
  /\ UNCHANGED <<waitsFor, tail, inFlight, root, depth>>

Begin(o) ==
  /\ stage[o] = "queued"
  /\ PreviousSettled(o)
  /\ stage' = [stage EXCEPT ![o] = "active"]
  /\ UNCHANGED <<waitsFor, tail, keyOf, inFlight, sharedOp, root, depth>>

\* The action's promise settles and the finally block deletes the server's
\* entry, whichever operation's promise the entry holds by then.
Finish(o, outcome) ==
  /\ stage[o] = "active"
  /\ stage' = [stage EXCEPT ![o] = outcome]
  /\ tail' = None
  /\ UNCHANGED <<waitsFor, keyOf, inFlight, sharedOp, root, depth>>

\* The finally callback of withIdempotentOperation runs after the promise has
\* settled; until then a caller with the same key still gets the settled one.
Forget(o) ==
  /\ Settled(o)
  /\ keyOf[o] # None
  /\ inFlight[keyOf[o]] = o
  /\ inFlight' = [inFlight EXCEPT ![keyOf[o]] = None]
  /\ UNCHANGED <<stage, waitsFor, tail, keyOf, sharedOp, root, depth>>

LockNext ==
  \E o \in Op :
    \/ \E k \in Key \cup {None} : Call(o, k)
    \/ \E k \in Key : Join(o, k)
    \/ Begin(o)
    \/ \E outcome \in {"done", "failed"} : Finish(o, outcome)
    \/ Forget(o)

LockSpec == LockInit /\ [][LockNext]_lockVars

(***************************************************************************)
(* What the lock promises.                                                 *)
(***************************************************************************)

\* The type invariant of the lock's two maps and of the calls' promises.
LockTypeOK ==
  /\ stage \in [Op -> Stage]
  /\ waitsFor \in [Op -> Op \cup {None}]
  /\ tail \in Op \cup {None}
  /\ keyOf \in [Op -> Key \cup {None}]
  /\ inFlight \in [Key -> Op \cup {None}]
  /\ sharedOp \in [Op -> Op \cup {None}]
  /\ root \in [Op -> Op \cup {None}]
  /\ depth \in [Op -> Nat]

\* Two operations of one chain never overlap, however the earlier ones end:
\* a later one is still queued while an earlier one is unfinished.  This is
\* what withServerLock delivers; nothing relates operations of two chains.
ChainExclusion ==
  \A o, p \in Op :
    /\ root[o] # None /\ root[o] = root[p]
    /\ depth[o] < depth[p]
    /\ Unfinished(o)
    => stage[p] = "queued"

\* At most one unfinished operation per idempotency key, and it is the one
\* the map holds: a caller can only join an operation that is its key's.
SingleFlight ==
  \A o \in Op :
    Unfinished(o) /\ keyOf[o] # None => inFlight[keyOf[o]] = o

Answered(o) == sharedOp[o] # None /\ Settled(sharedOp[o])

=============================================================================
