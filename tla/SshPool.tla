------------------------------- MODULE SshPool ------------------------------
(* SshPoolService for one remote host.                                     *)
(*                                                                         *)
(* getConnection awaits a connection with the list of entries it has read, *)
(* and stores that list when it goes on, while the health check stores a   *)
(* list of its own: lists are objects here, of which the pool holds one.   *)
(* Which of several idle or equally busy entries is found first, and what  *)
(* time an entry was last used, are left open.                             *)
EXTENDS Naturals, FiniteSets

CONSTANTS
  User,        \* those who ask for connections
  Limit,       \* MAX_CONNECTIONS_PER_SERVER
  MaxClients,  \* bound: connections made
  MaxLists     \* bound: lists at once, two more than users are enough

ASSUME PoolSizesAreNat ==
  Limit \in Nat \ {0} /\ MaxClients \in Nat /\ MaxLists \in Nat /\ IsFiniteSet(User)

VARIABLES
  link,        \* "none", "connecting", "open", "ended" by the pool, "lost" otherwise
  alive,       \* the entries taken for alive
  refs,        \* refCount of each entry
  list,        \* the entries in each list
  current,     \* the list in pools, 0 for none
  using,       \* the connection a user waits for or has, 0 for none
  into,        \* the list a waiting user has read, 0 for one of its own
  overwritten  \* history: a list was replaced by one that lacks some entry

poolVars == <<link, alive, refs, list, current, using, into, overwritten>>

Client == 1..MaxClients
List   == 1..MaxLists

PoolInit ==
  /\ link = [c \in Client |-> "none"]
  /\ alive = {}
  /\ refs = [c \in Client |-> 0]
  /\ list = [l \in List |-> {}]
  /\ current = 0
  /\ using = [u \in User |-> 0] /\ into = [u \in User |-> 0]
  /\ overwritten = FALSE

(***************************************************************************)
(* Helpers.                                                                *)
(***************************************************************************)

\* What pools.get finds, or an empty list.
Entries == IF current = 0 THEN {} ELSE list[current]

IsWaiting(u) == using[u] # 0 /\ link[using[u]] = "connecting"
IsServed(u)  == using[u] # 0 /\ link[using[u]] # "connecting"

\* The lists nobody refers to: each new list is one of them.
FreeLists == List \ ({current} \cup {into[u] : u \in User})

\* client.end() of entries the pool drops.
End(cs) == link' = [c \in Client |-> IF c \in cs /\ link[c] = "open" THEN "ended" ELSE link[c]]

\* pools.set with the list l, or pools.delete where l is 0; a list nobody
\* refers to is garbage.
Store(l, entries) ==
  /\ list' = [k \in List |->
       IF k = l THEN entries ELSE IF \E u \in User : into[u] = k THEN list[k] ELSE {}]
  /\ current' = l

NextFree(l) == l \in FreeLists /\ \A k \in FreeLists : l <= k

(***************************************************************************)
(* getConnection up to its await, if it comes to one.                      *)
(***************************************************************************)

\* An entry is handed out again.
Reuse(u, c) ==
  /\ refs' = [refs EXCEPT ![c] = @ + 1]
  /\ using' = [using EXCEPT ![u] = c]
  /\ UNCHANGED <<link, alive, list, current, into, overwritten>>

\* A connection is under way, for the list l.
Connect(u, c, l) ==
  /\ link[c] = "none" /\ \A d \in Client : d < c => link[d] # "none"
  /\ link' = [link EXCEPT ![c] = "connecting"]
  /\ using' = [using EXCEPT ![u] = c]
  /\ into' = [into EXCEPT ![u] = l]
  /\ UNCHANGED <<alive, refs, overwritten>>

Idle == {c \in Entries : c \in alive /\ refs[c] = 0}

GetConnection(u) ==
  /\ using[u] = 0
  /\ \/ \E c \in Idle : Reuse(u, c)
     \/ /\ Idle = {} /\ Cardinality(Entries) < Limit
        /\ \E c \in Client : Connect(u, c, current)
        /\ UNCHANGED <<list, current>>
     \/ /\ Idle = {} /\ Cardinality(Entries) >= Limit
        /\ \E c \in Entries \cap alive :
             /\ \A d \in Entries \cap alive : refs[c] <= refs[d]
             /\ Reuse(u, c)
     \/ /\ Cardinality(Entries) >= Limit /\ Entries \cap alive = {}
        /\ Store(0, {})   \* destroyServer
        /\ \E c \in Client : Connect(u, c, 0)

(***************************************************************************)
(* getConnection after its await, and the other operations.                *)
(***************************************************************************)

\* The connection is ready: its entry goes into the list that was read.
Connected(u) ==
  /\ IsWaiting(u)
  /\ link' = [link EXCEPT ![using[u]] = "open"]
  /\ alive' = alive \cup {using[u]}
  /\ refs' = [refs EXCEPT ![using[u]] = 1]
  /\ into' = [into EXCEPT ![u] = 0]
  /\ LET read == IF into[u] = 0 THEN {} ELSE list[into[u]] IN
     /\ \E l \in List : /\ l = into[u] \/ (into[u] = 0 /\ NextFree(l))
                        /\ Store(l, read \cup {using[u]})
     /\ overwritten' = (overwritten \/ ~ (Entries \subseteq read))
  /\ UNCHANGED using

ConnectFails(u) ==
  /\ IsWaiting(u)
  /\ link' = [link EXCEPT ![using[u]] = "lost"]
  /\ using' = [using EXCEPT ![u] = 0]
  /\ into' = [into EXCEPT ![u] = 0]
  /\ UNCHANGED <<alive, refs, list, current, overwritten>>

\* A user is done with its connection without a release.
Leave(u) ==
  /\ IsServed(u)
  /\ using' = [using EXCEPT ![u] = 0]
  /\ UNCHANGED <<link, alive, refs, list, current, into, overwritten>>

\* release, of an entry the pool still finds.
Release(u) ==
  /\ IsServed(u)
  /\ refs' = [c \in Client |->
       IF c = using[u] /\ c \in Entries /\ refs[c] > 0 THEN refs[c] - 1 ELSE refs[c]]
  /\ using' = [using EXCEPT ![u] = 0]
  /\ UNCHANGED <<link, alive, list, current, into, overwritten>>

\* Mutant: nothing listens for the connection's close.
LostUnnoticed(c) ==
  /\ link[c] = "open"
  /\ link' = [link EXCEPT ![c] = "lost"]
  /\ UNCHANGED <<alive, refs, list, current, using, into, overwritten>>

\* A connection closes, of itself: markDead, of an entry the pool still finds.
Lost(c) ==
  /\ link[c] = "open"
  /\ link' = [link EXCEPT ![c] = "lost"]
  /\ alive' = alive \ ({c} \cap Entries)
  /\ UNCHANGED <<refs, list, current, using, into, overwritten>>

\* Mutant: whatever has not been used for long is closed.
HealthCheckOfAll(old) ==
  LET kept == (Entries \cap alive) \ old IN
  /\ current # 0
  /\ old \subseteq Entries \cap alive
  /\ alive' = alive \ old
  /\ End(Entries \ kept)
  /\ IF kept = {} THEN Store(0, {}) ELSE \E l \in List : NextFree(l) /\ Store(l, kept)
  /\ UNCHANGED <<refs, using, into, overwritten>>

\* healthCheck, which finds the entries in old idle for too long.
HealthCheck(old) ==
  LET kept == (Entries \cap alive) \ old IN
  /\ current # 0
  /\ old \subseteq Idle
  /\ alive' = alive \ old
  /\ End(Entries \ kept)
  /\ IF kept = {} THEN Store(0, {}) ELSE \E l \in List : NextFree(l) /\ Store(l, kept)
  /\ UNCHANGED <<refs, using, into, overwritten>>

PoolStep ==
  \/ \E u \in User : Connected(u)
  \/ \E c \in Client : Lost(c)
  \/ \E old \in SUBSET Entries : HealthCheck(old)
=============================================================================
