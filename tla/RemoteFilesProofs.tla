-------------------------- MODULE RemoteFilesProofs -------------------------
(* Proofs about the SSH pool and its users, for every number of tasks,     *)
(* terminals, connections, lists and attempts.                             *)
EXTENDS RemoteFiles, FiniteSetTheorems, TLAPS

(***************************************************************************)
(* The pool.                                                               *)
(***************************************************************************)

\* The pool's part of the type invariant.
PoolType ==
  /\ link \in [Client -> {"none", "connecting", "open", "ended", "lost"}]
  /\ alive \subseteq Client
  /\ refs \in [Client -> Nat]
  /\ list \in [List -> SUBSET Client]
  /\ current \in List \cup {0}
  /\ using \in [User -> Client \cup {0}] /\ into \in [User -> List \cup {0}]
  /\ overwritten \in BOOLEAN

\* Nobody waits for another's connection; a listed entry was connected once;
\* what was not ended is alive, and what is alive was not ended.  Without the
\* last a lost entry could be closed by a check under its users.
PoolLinks ==
  /\ \A u \in User : using[u] # 0 => link[using[u]] \notin {"none", "ended"}
  /\ \A u, v \in User : IsWaiting(u) /\ using[u] = using[v] => u = v
  /\ \A l \in List : \A c \in list[l] : link[c] \notin {"none", "connecting"}
  /\ \A c \in Client : link[c] = "open" => c \in alive
  /\ \A c \in alive : link[c] \in {"open", "lost"}

\* The other half of PoolKnowsItsConnections: what is alive is listed.
PoolListed ==
  overwritten \/ \A c \in alive : link[c] = "open" /\ c \in Entries

\* The users that have the connection c.
Users(c) == {u \in User : using[u] = c /\ IsServed(u)}

PoolCounts == \A c \in Client : Cardinality(Users(c)) <= refs[c]

PoolInv == PoolType /\ PoolLinks /\ PoolListed /\ PoolCounts

\* There are finitely many users of a connection.
LEMMA UsersAreFinite ==
  ASSUME NEW c
  PROVE  IsFiniteSet(Users(c)) /\ Cardinality(Users(c)) \in Nat
<1>1. Users(c) \in SUBSET User  BY DEF Users
<1>2. IsFiniteSet(Users(c))  BY <1>1, PoolSizesAreNat, FS_Subset
<1> QED  BY <1>2, FS_CardinalityType

\* Nobody comes to a connection whose count does not shrink.
LEMMA NobodyComes ==
  ASSUME NEW c, NEW U, NEW m \in Nat, NEW n \in Nat,
         Cardinality(Users(c)) <= m, U \subseteq Users(c), m <= n
  PROVE  Cardinality(U) <= n
<1>1. U \in SUBSET Users(c)  OBVIOUS
<1>2. IsFiniteSet(Users(c))  BY UsersAreFinite
<1>3. IsFiniteSet(U) /\ Cardinality(U) <= Cardinality(Users(c))  BY <1>1, <1>2, FS_Subset
<1>4. Cardinality(U) \in Nat  BY <1>3, FS_CardinalityType
<1>5. Cardinality(Users(c)) \in Nat  BY UsersAreFinite
<1> QED  BY <1>3, <1>4, <1>5

\* A connection counted zero has no users.
LEMMA IdleIsUnused ==
  ASSUME PoolInv, NEW c \in Client, refs[c] = 0
  PROVE  Users(c) = {}
<1>1. Cardinality(Users(c)) <= 0  BY DEF PoolInv, PoolCounts
<1>2. Cardinality(Users(c)) = 0  BY <1>1, UsersAreFinite
<1> QED  BY <1>2, UsersAreFinite, FS_EmptySet

\* An entry handed out again is one the pool takes for alive.
LEMMA ReuseKeeps ==
  ASSUME PoolInv, NEW u \in User, using[u] = 0, NEW c \in Entries \cap alive, Reuse(u, c)
  PROVE  PoolInv'
<1> USE DEF PoolInv
<1>1. /\ refs' = [refs EXCEPT ![c] = @ + 1]
      /\ using' = [using EXCEPT ![u] = c]
      /\ UNCHANGED <<link, alive, list, current, into, overwritten>>
  BY DEF Reuse
<1>2. c \in Client /\ link[c] \in {"open", "lost"} /\ c # 0
  <2>1. c \in Client  BY DEF PoolType
  <2> QED  BY <2>1 DEF PoolLinks, Client
<1>3. /\ using'[u] = c /\ \A v \in User : v # u => using'[v] = using[v]
      /\ refs'[c] = refs[c] + 1 /\ \A d \in Client : d # c => refs'[d] = refs[d]
  BY <1>1, <1>2 DEF PoolType
<1>4. PoolType'  BY <1>1, <1>2 DEF PoolType
<1>5. PoolLinks'
  <2>1. ASSUME NEW v \in User, NEW w \in User, IsWaiting(v)', using'[v] = using'[w]
        PROVE  v = w
    <3>1. v # u /\ w # u  BY <2>1, <1>1, <1>2, <1>3 DEF IsWaiting
    <3> QED  BY <3>1, <2>1, <1>1, <1>3 DEF IsWaiting, PoolLinks
  <2>2. ASSUME NEW v \in User, using'[v] # 0 PROVE link'[using'[v]] \notin {"none", "ended"}
    BY <2>2, <1>1, <1>2, <1>3 DEF PoolLinks
  <2> QED  BY <1>1, <2>1, <2>2 DEF PoolLinks
<1>6. PoolListed'  BY <1>1 DEF PoolListed, Entries
<1>7. PoolCounts'
  <2> SUFFICES ASSUME NEW d \in Client PROVE Cardinality(Users(d)') <= refs'[d]
    BY DEF PoolCounts
  <2>1. Cardinality(Users(d)) <= refs[d] /\ refs[d] \in Nat  BY DEF PoolCounts, PoolType
  <2>2. CASE d # c
    <3>1. Users(d)' \subseteq Users(d)
      BY <2>2, <1>1, <1>3 DEF Users, IsServed
    <3> QED  BY <3>1, <2>1, <2>2, <1>3, NobodyComes
  <2>3. CASE d = c
    <3>1. Users(d)' \subseteq Users(d) \cup {u} /\ u \notin Users(d)
      BY <2>3, <1>1, <1>2, <1>3 DEF Users, IsServed
    <3>2. IsFiniteSet(Users(d)) /\ Cardinality(Users(d)) \in Nat  BY UsersAreFinite
    <3>3. /\ IsFiniteSet(Users(d) \cup {u})
          /\ Cardinality(Users(d) \cup {u}) = Cardinality(Users(d)) + 1
      BY <3>1, <3>2, FS_AddElement
    <3>4. IsFiniteSet(Users(d)') /\ Cardinality(Users(d)') <= Cardinality(Users(d)) + 1
      BY <3>1, <3>3, FS_Subset
    <3>5. Cardinality(Users(d)') \in Nat  BY <3>4, FS_CardinalityType
    <3> QED  BY <3>2, <3>4, <3>5, <2>1, <2>3, <1>3
  <2> QED  BY <2>2, <2>3
<1> QED  BY <1>4, <1>5, <1>6, <1>7

\* A new connection is nobody else's; with the lists as they are, or dropped.
LEMMA ConnectKeeps ==
  ASSUME PoolInv, NEW u \in User, using[u] = 0, NEW c \in Client, NEW l \in List \cup {0},
         Connect(u, c, l),
         \/ UNCHANGED <<list, current>>
         \/ Store(0, {}) /\ Entries \cap alive = {}
  PROVE  PoolInv'
<1> USE DEF PoolInv
<1>1. /\ link[c] = "none" /\ link' = [link EXCEPT ![c] = "connecting"]
      /\ using' = [using EXCEPT ![u] = c]
      /\ into' = [into EXCEPT ![u] = l]
      /\ UNCHANGED <<alive, refs, overwritten>>
  BY DEF Connect
<1>2. /\ link'[c] = "connecting" /\ \A d \in Client : d # c => link'[d] = link[d]
      /\ using'[u] = c /\ \A v \in User : v # u => using'[v] = using[v]
      /\ c # 0 /\ \A v \in User : using[v] # c
  BY <1>1 DEF PoolType, PoolLinks, Client
<1>3. /\ list' \in [List -> SUBSET Client] /\ current' \in List \cup {0}
      /\ \A k \in List : list'[k] \subseteq list[k]
      /\ (overwritten \/ alive = {} \/ Entries' = Entries)
  <2>1. CASE UNCHANGED <<list, current>>  BY <2>1 DEF PoolType, Entries
  <2>2. CASE Store(0, {}) /\ Entries \cap alive = {}
    <3>1. list' = [k \in List |->
            IF k = 0 THEN {} ELSE IF \E v \in User : into[v] = k THEN list[k] ELSE {}]
          /\ current' = 0
      BY <2>2 DEF Store
    <3>2. overwritten \/ alive = {}  BY <2>2 DEF PoolListed
    <3> QED  BY <3>1, <3>2 DEF PoolType
  <2> QED  BY <2>1, <2>2
<1>4. PoolType'  BY <1>1, <1>2, <1>3 DEF PoolType
<1>5. PoolLinks'
  <2>1. ASSUME NEW v \in User, NEW w \in User, IsWaiting(v)', using'[v] = using'[w]
        PROVE  v = w
    <3>1. CASE v = u \/ w = u  BY <3>1, <2>1, <1>2
    <3>2. CASE v # u /\ w # u
      <4>1. using'[v] = using[v] /\ using'[w] = using[w] /\ using[v] # 0 /\ using[v] \in Client
        BY <3>2, <2>1, <1>2 DEF IsWaiting, PoolType
      <4> QED  BY <4>1, <2>1, <1>2 DEF IsWaiting, PoolLinks
    <3> QED  BY <3>1, <3>2
  <2>2. ASSUME NEW v \in User, using'[v] # 0 PROVE link'[using'[v]] \notin {"none", "ended"}
    BY <2>2, <1>2 DEF PoolLinks, PoolType
  <2>3. ASSUME NEW k \in List, NEW d \in list'[k] PROVE link'[d] \notin {"none", "connecting"}
    BY <1>1, <1>2, <1>3 DEF PoolLinks, PoolType
  <2>4. \A d \in Client : link'[d] = "open" => d \in alive'  BY <1>1, <1>2 DEF PoolLinks
  <2>5. \A d \in alive' : link'[d] \in {"open", "lost"}  BY <1>1, <1>2 DEF PoolLinks, PoolType
  <2> QED  BY <2>1, <2>2, <2>3, <2>4, <2>5 DEF PoolLinks
<1>6. PoolListed'  BY <1>1, <1>2, <1>3 DEF PoolListed, PoolType
<1>7. PoolCounts'
  <2> SUFFICES ASSUME NEW d \in Client PROVE Cardinality(Users(d)') <= refs'[d]
    BY DEF PoolCounts
  <2>1. Users(d)' \subseteq Users(d)
    BY <1>1, <1>2 DEF Users, IsServed
  <2>2. Cardinality(Users(d)) <= refs[d] /\ refs[d] \in Nat  BY DEF PoolCounts, PoolType
  <2> QED  BY <2>1, <2>2, <1>1, NobodyComes
<1> QED  BY <1>4, <1>5, <1>6, <1>7

\* Whatever getConnection does before its await.
LEMMA GetKeeps ==
  ASSUME PoolInv, NEW u \in User, GetConnection(u)
  PROVE  PoolInv'
<1>1. using[u] = 0  BY DEF GetConnection
<1>2. current \in List \cup {0} /\ Entries \subseteq Client
  BY DEF PoolInv, PoolType, Entries
<1>3. ASSUME NEW c \in Idle, Reuse(u, c) PROVE PoolInv'
  BY <1>1, <1>3, ReuseKeeps DEF Idle
<1>4. ASSUME NEW c \in Client, Connect(u, c, current), UNCHANGED <<list, current>> PROVE PoolInv'
  BY <1>1, <1>2, <1>4, ConnectKeeps
<1>5. ASSUME NEW c \in Client, Connect(u, c, 0), Store(0, {}), Entries \cap alive = {}
      PROVE  PoolInv'
  BY <1>1, <1>5, ConnectKeeps
<1> QED  BY <1>1, <1>3, <1>4, <1>5, ReuseKeeps DEF GetConnection

\* A connection that is made comes to one user only, and into its list.
LEMMA ConnectedKeeps ==
  ASSUME PoolInv, NEW u \in User, Connected(u)
  PROVE  PoolInv'
<1> USE DEF PoolInv
<1> DEFINE c == using[u]
           read == IF into[u] = 0 THEN {} ELSE list[into[u]]
<1>1. PICK l \in List : Store(l, read \cup {c})
  BY DEF Connected
<1>2. /\ IsWaiting(u)
      /\ link' = [link EXCEPT ![c] = "open"]
      /\ alive' = alive \cup {c}
      /\ refs' = [refs EXCEPT ![c] = 1]
      /\ into' = [into EXCEPT ![u] = 0]
      /\ overwritten' = (overwritten \/ ~ (Entries \subseteq read))
      /\ UNCHANGED using
  BY DEF Connected
<1>3. c \in Client /\ c # 0 /\ link[c] = "connecting" /\ \A v \in User : using[v] = c => v = u
  BY <1>2 DEF IsWaiting, PoolType, PoolLinks
<1>4. /\ link'[c] = "open" /\ \A d \in Client : d # c => link'[d] = link[d]
      /\ refs'[c] = 1 /\ \A d \in Client : d # c => refs'[d] = refs[d]
  BY <1>2, <1>3 DEF PoolType
<1>5. read \subseteq Client /\ \A d \in read : link[d] \notin {"none", "connecting"}
  BY DEF PoolType, PoolLinks
<1>6. /\ list' = [k \in List |->
           IF k = l THEN read \cup {c}
           ELSE IF \E v \in User : into[v] = k THEN list[k] ELSE {}]
      /\ current' = l /\ l # 0
  BY <1>1 DEF Store, List
<1> HIDE DEF c, read
<1>7. Entries' = read \cup {c}  BY <1>6 DEF Entries
<1>8. \A k \in List : list'[k] \subseteq list[k] \/ list'[k] = read \cup {c}
  BY <1>6
<1>9. PoolType'
  <2>1. list' \in [List -> SUBSET Client]  BY <1>3, <1>5, <1>6 DEF PoolType
  <2> QED  BY <2>1, <1>2, <1>3, <1>6 DEF PoolType
<1>10. PoolLinks'
  <2>1. ASSUME NEW v \in User, NEW w \in User, IsWaiting(v)', using'[v] = using'[w]
        PROVE  v = w
    <3>1. using[v] # c /\ using[v] # 0 /\ using[v] \in Client
      BY <2>1, <1>2, <1>4 DEF IsWaiting, PoolType
    <3> QED  BY <3>1, <2>1, <1>2, <1>4 DEF IsWaiting, PoolLinks
  <2>2. ASSUME NEW v \in User, using'[v] # 0 PROVE link'[using'[v]] \notin {"none", "ended"}
    <3>1. using[v] \in Client /\ link[using[v]] \notin {"none", "ended"}
      BY <2>2, <1>2 DEF PoolType, PoolLinks
    <3> QED  BY <3>1, <1>2, <1>4
  <2>3. ASSUME NEW k \in List, NEW d \in list'[k] PROVE link'[d] \notin {"none", "connecting"}
    <3>1. CASE d = c  BY <3>1, <1>4
    <3>2. CASE d # c
      <4>1. d \in Client /\ link[d] \notin {"none", "connecting"}
        BY <3>2, <1>5, <1>8 DEF PoolType, PoolLinks
      <4> QED  BY <3>2, <4>1, <1>4
    <3> QED  BY <3>1, <3>2
  <2>4. \A d \in Client : link'[d] = "open" => d \in alive'  BY <1>2, <1>4 DEF PoolLinks
  <2>5. \A d \in alive' : link'[d] \in {"open", "lost"}  BY <1>2, <1>4 DEF PoolLinks, PoolType
  <2> QED  BY <2>1, <2>2, <2>3, <2>4, <2>5 DEF PoolLinks
<1>11. PoolListed'  BY <1>2, <1>4, <1>7 DEF PoolListed, PoolType
<1>12. PoolCounts'
  <2> SUFFICES ASSUME NEW d \in Client PROVE Cardinality(Users(d)') <= refs'[d]
    BY DEF PoolCounts
  <2>1. CASE d # c
    <3>1. Users(d)' \subseteq Users(d)
      BY <2>1, <1>2, <1>4 DEF Users, IsServed
    <3>2. Cardinality(Users(d)) <= refs[d] /\ refs[d] \in Nat  BY DEF PoolCounts, PoolType
    <3> QED  BY <3>1, <3>2, <2>1, <1>4, NobodyComes
  <2>2. CASE d = c
    <3>1. Users(d)' \subseteq {u}  BY <2>2, <1>2, <1>3 DEF Users
    <3>2. IsFiniteSet({u}) /\ Cardinality({u}) = 1  BY FS_Singleton
    <3>3. Cardinality(Users(d)') <= 1  BY <3>1, <3>2, FS_Subset
    <3> QED  BY <3>3, <2>2, <1>4
  <2> QED  BY <2>1, <2>2
<1> QED  BY <1>9, <1>10, <1>11, <1>12

\* A connection that fails was waited for by one user only.
LEMMA FailKeeps ==
  ASSUME PoolInv, NEW u \in User, ConnectFails(u)
  PROVE  PoolInv'
<1> USE DEF PoolInv
<1> DEFINE c == using[u]
<1>1. /\ IsWaiting(u)
      /\ link' = [link EXCEPT ![c] = "lost"]
      /\ using' = [using EXCEPT ![u] = 0]
      /\ into' = [into EXCEPT ![u] = 0]
      /\ UNCHANGED <<alive, refs, list, current, overwritten>>
  BY DEF ConnectFails
<1>2. c \in Client /\ c # 0 /\ link[c] = "connecting" /\ \A v \in User : using[v] = c => v = u
  BY <1>1 DEF IsWaiting, PoolType, PoolLinks
<1> HIDE DEF c
<1>3. /\ link'[c] = "lost" /\ \A d \in Client : d # c => link'[d] = link[d]
      /\ using'[u] = 0 /\ \A v \in User : v # u => using'[v] = using[v] /\ using[v] # c
  BY <1>1, <1>2 DEF PoolType
<1>4. PoolType'  BY <1>1, <1>2 DEF PoolType
<1>5. PoolLinks'
  <2>1. ASSUME NEW v \in User, NEW w \in User, IsWaiting(v)', using'[v] = using'[w]
        PROVE  v = w
    <3>1. v # u /\ w # u /\ using[v] \in Client
      BY <2>1, <1>3 DEF IsWaiting, PoolType
    <3> QED  BY <3>1, <2>1, <1>3 DEF IsWaiting, PoolLinks
  <2>2. ASSUME NEW v \in User, using'[v] # 0 PROVE link'[using'[v]] \notin {"none", "ended"}
    BY <2>2, <1>3 DEF PoolType, PoolLinks
  <2>3. \A k \in List : \A d \in list'[k] : link'[d] \notin {"none", "connecting"}
    BY <1>1, <1>3 DEF PoolType, PoolLinks
  <2>4. \A d \in Client : link'[d] = "open" => d \in alive'  BY <1>1, <1>3 DEF PoolLinks
  <2>5. \A d \in alive' : link'[d] \in {"open", "lost"}  BY <1>1, <1>3 DEF PoolLinks, PoolType
  <2> QED  BY <2>1, <2>2, <2>3, <2>4, <2>5 DEF PoolLinks
<1>6. PoolListed'
  BY <1>1, <1>2, <1>3 DEF PoolListed, PoolLinks, PoolType, Entries
<1>7. PoolCounts'
  <2> SUFFICES ASSUME NEW d \in Client PROVE Cardinality(Users(d)') <= refs'[d]
    BY DEF PoolCounts
  <2>1. Users(d)' \subseteq Users(d)
    BY <1>1, <1>3 DEF Users, IsServed, Client
  <2>2. Cardinality(Users(d)) <= refs[d] /\ refs[d] \in Nat  BY DEF PoolCounts, PoolType
  <2> QED  BY <2>1, <2>2, <1>1, NobodyComes
<1> QED  BY <1>4, <1>5, <1>6, <1>7

\* A user that leaves, with or without a release.
LEMMA LeaveKeeps ==
  ASSUME PoolInv, NEW u \in User, Leave(u) \/ Release(u)
  PROVE  PoolInv'
<1> USE DEF PoolInv
<1> DEFINE c == using[u]
<1>1. /\ IsServed(u)
      /\ using' = [using EXCEPT ![u] = 0]
      /\ UNCHANGED <<link, alive, list, current, into, overwritten>>
  BY DEF Leave, Release
<1>2. c \in Client /\ c # 0 /\ link[c] # "connecting"
  BY <1>1 DEF IsServed, PoolType
<1>3. using'[u] = 0 /\ \A v \in User : v # u => using'[v] = using[v]
  BY <1>1 DEF PoolType
<1>4. /\ refs' \in [Client -> Nat]
      /\ \A d \in Client : d # c => refs'[d] = refs[d]
      /\ refs'[c] = refs[c] \/ (refs[c] > 0 /\ refs'[c] = refs[c] - 1)
  <2>1. CASE Leave(u)  BY <2>1 DEF Leave, PoolType
  <2>2. CASE Release(u)
    <3>1. refs' = [d \in Client |->
            IF d = c /\ d \in Entries /\ refs[d] > 0 THEN refs[d] - 1 ELSE refs[d]]
      BY <2>2 DEF Release
    <3> QED  BY <3>1, <1>2 DEF PoolType
  <2> QED  BY <2>1, <2>2
<1> HIDE DEF c
<1>5. PoolType'  BY <1>1, <1>4 DEF PoolType
<1>6. PoolLinks'
  <2>1. ASSUME NEW v \in User, NEW w \in User, IsWaiting(v)', using'[v] = using'[w]
        PROVE  v = w
    <3>1. v # u /\ w # u  BY <2>1, <1>3 DEF IsWaiting
    <3> QED  BY <3>1, <2>1, <1>1, <1>3 DEF IsWaiting, PoolLinks
  <2>2. ASSUME NEW v \in User, using'[v] # 0 PROVE link'[using'[v]] \notin {"none", "ended"}
    BY <2>2, <1>1, <1>3 DEF PoolLinks
  <2> QED  BY <1>1, <2>1, <2>2 DEF PoolLinks
<1>7. PoolListed'  BY <1>1 DEF PoolListed, Entries
<1>8. PoolCounts'
  <2> SUFFICES ASSUME NEW d \in Client PROVE Cardinality(Users(d)') <= refs'[d]
    BY DEF PoolCounts
  <2>1. Cardinality(Users(d)) <= refs[d] /\ refs[d] \in Nat  BY DEF PoolCounts, PoolType
  <2>2. CASE d # c
    <3>1. Users(d)' \subseteq Users(d)
      BY <1>1, <1>3 DEF Users, IsServed, Client
    <3> QED  BY <3>1, <2>1, <2>2, <1>4, NobodyComes
  <2>3. CASE d = c
    <3>1. Users(d)' \subseteq Users(d) \ {u} /\ u \in Users(d)
      BY <2>3, <1>1, <1>2, <1>3 DEF Users, IsServed, c
    <3>2. IsFiniteSet(Users(d)) /\ Cardinality(Users(d)) \in Nat  BY UsersAreFinite
    <3>3. /\ IsFiniteSet(Users(d) \ {u})
          /\ Cardinality(Users(d) \ {u}) = Cardinality(Users(d)) - 1
      BY <3>1, <3>2, FS_RemoveElement
    <3>4. IsFiniteSet(Users(d)') /\ Cardinality(Users(d)') <= Cardinality(Users(d)) - 1
      BY <3>1, <3>3, FS_Subset
    <3>5. Cardinality(Users(d)') \in Nat  BY <3>4, FS_CardinalityType
    <3>6. refs'[d] \in Nat /\ refs'[d] >= refs[d] - 1  BY <1>4, <2>1, <2>3
    <3> QED  BY <3>2, <3>4, <3>5, <3>6, <2>1
  <2> QED  BY <2>2, <2>3
<1> QED  BY <1>5, <1>6, <1>7, <1>8

\* A connection that closes of itself.
LEMMA LostKeeps ==
  ASSUME PoolInv, NEW c \in Client, Lost(c)
  PROVE  PoolInv'
<1> USE DEF PoolInv
<1>1. /\ link[c] = "open" /\ link' = [link EXCEPT ![c] = "lost"]
      /\ alive' = alive \ ({c} \cap Entries)
      /\ UNCHANGED <<refs, list, current, using, into, overwritten>>
  BY DEF Lost
<1>2. link'[c] = "lost" /\ \A d \in Client : d # c => link'[d] = link[d]
  BY <1>1 DEF PoolType
<1>3. PoolType'  BY <1>1 DEF PoolType
<1>4. PoolLinks'
  <2>1. ASSUME NEW v \in User, NEW w \in User, IsWaiting(v)', using'[v] = using'[w]
        PROVE  v = w
    <3>1. using[v] \in Client /\ using[v] # c  BY <2>1, <1>1, <1>2 DEF IsWaiting, PoolType
    <3> QED  BY <3>1, <2>1, <1>1, <1>2 DEF IsWaiting, PoolLinks
  <2>2. ASSUME NEW v \in User, using'[v] # 0 PROVE link'[using'[v]] \notin {"none", "ended"}
    BY <2>2, <1>1, <1>2 DEF PoolLinks, PoolType
  <2>3. \A k \in List : \A d \in list'[k] : link'[d] \notin {"none", "connecting"}
    BY <1>1, <1>2 DEF PoolLinks, PoolType
  <2>4. \A d \in Client : link'[d] = "open" => d \in alive'  BY <1>1, <1>2 DEF PoolLinks
  <2>5. \A d \in alive' : link'[d] \in {"open", "lost"}  BY <1>1, <1>2 DEF PoolLinks, PoolType
  <2> QED  BY <2>1, <2>2, <2>3, <2>4, <2>5 DEF PoolLinks
<1>5. PoolListed'
  <2>1. overwritten \/ (c \in alive => c \in Entries)  BY DEF PoolListed
  <2>2. Entries' = Entries  BY <1>1 DEF Entries
  <2> QED  BY <2>1, <2>2, <1>1, <1>2 DEF PoolListed, PoolType
<1>6. PoolCounts'
  <2> SUFFICES ASSUME NEW d \in Client PROVE Cardinality(Users(d)') <= refs'[d]
    BY DEF PoolCounts
  <2>1. Users(d)' \subseteq Users(d)
    BY <1>1, <1>2 DEF Users, IsServed
  <2>2. Cardinality(Users(d)) <= refs[d] /\ refs[d] \in Nat  BY DEF PoolCounts, PoolType
  <2> QED  BY <2>1, <2>2, <1>1, NobodyComes
<1> QED  BY <1>3, <1>4, <1>5, <1>6

\* The health check ends what nobody uses, and keeps the rest of its list.
LEMMA HealthKeeps ==
  ASSUME PoolInv, NEW old \in SUBSET Entries, HealthCheck(old)
  PROVE  PoolInv'
<1> USE DEF PoolInv
<1> DEFINE kept == (Entries \cap alive) \ old
<1>1. /\ old \subseteq alive /\ old \subseteq Idle
      /\ alive' = alive \ old
      /\ link' = [c \in Client |->
           IF c \in Entries \ kept /\ link[c] = "open" THEN "ended" ELSE link[c]]
      /\ UNCHANGED <<refs, using, into, overwritten>>
  BY DEF HealthCheck, Idle, End
<1>2. Entries \subseteq Client  BY DEF Entries, PoolType
<1>3. /\ list' \in [List -> SUBSET Client] /\ current' \in List \cup {0}
      /\ \A k \in List : list'[k] \subseteq list[k] \/ list'[k] = kept
      /\ Entries' = kept
  <2>1. ASSUME NEW l \in List \cup {0}, Store(l, kept), l = 0 => kept = {}
        PROVE  /\ list' \in [List -> SUBSET Client] /\ current' \in List \cup {0}
               /\ \A k \in List : list'[k] \subseteq list[k] \/ list'[k] = kept
               /\ Entries' = kept
    <3>1. /\ list' = [k \in List |-> IF k = l THEN kept ELSE
               IF \E v \in User : into[v] = k THEN list[k] ELSE {}]
          /\ current' = l
      BY <2>1 DEF Store
    <3>2. kept \subseteq Client  BY <1>2
    <3> HIDE DEF kept
    <3>3. list' \in [List -> SUBSET Client]  BY <3>1, <3>2 DEF PoolType
    <3>4. \A k \in List : list'[k] \subseteq list[k] \/ list'[k] = kept  BY <3>1
    <3>5. Entries' = kept  BY <3>1, <2>1 DEF Entries
    <3> QED  BY <3>1, <3>3, <3>4, <3>5
  <2>2. CASE kept = {}  BY <2>1, <2>2 DEF HealthCheck
  <2>3. CASE kept # {}
    <3>1. PICK l \in List : Store(l, kept)  BY <2>3 DEF HealthCheck
    <3>2. l # 0 /\ l \in List \cup {0}  BY DEF List
    <3> HIDE DEF kept
    <3> QED  BY <3>1, <3>2, <2>1
  <2> QED  BY <2>2, <2>3
<1>4. ASSUME NEW d \in Client PROVE /\ link'[d] = "connecting" <=> link[d] = "connecting"
                                    /\ link'[d] = "none" <=> link[d] = "none"
                                    /\ link'[d] = link[d] \/ link'[d] = "ended"
  BY <1>1
<1>5. PoolType'
  <2>1. link' \in [Client -> {"none", "connecting", "open", "ended", "lost"}]
    BY <1>1 DEF PoolType
  <2> QED  BY <2>1, <1>1, <1>3 DEF PoolType
<1>6. PoolLinks'
  <2>1. ASSUME NEW v \in User, NEW w \in User, IsWaiting(v)', using'[v] = using'[w]
        PROVE  v = w
    <3>1. using[v] # 0 /\ using[v] \in Client  BY <2>1, <1>1 DEF IsWaiting, PoolType
    <3> QED  BY <3>1, <2>1, <1>1, <1>4 DEF IsWaiting, PoolLinks
  <2>2. ASSUME NEW v \in User, using'[v] # 0 PROVE link'[using'[v]] \notin {"none", "ended"}
    <3> DEFINE c == using[v]
    <3>1. c \in Client /\ c # 0 /\ link[c] \notin {"none", "ended"} /\ using'[v] = c
      BY <2>2, <1>1 DEF PoolType, PoolLinks
    <3>2. ASSUME link'[c] = "ended" PROVE FALSE
      <4>1. link[c] = "open" /\ c \in Entries \ kept  BY <3>1, <3>2, <1>1
      <4>2. c \in old  BY <4>1, <3>1 DEF PoolLinks
      <4>3. refs[c] = 0  BY <4>2, <1>1 DEF Idle
      <4>4. v \in Users(c)  BY <3>1, <4>1 DEF Users, IsServed
      <4> QED  BY <3>1, <4>3, <4>4, IdleIsUnused
    <3> QED  BY <3>1, <3>2, <1>4
  <2>3. ASSUME NEW k \in List, NEW d \in list'[k] PROVE link'[d] \notin {"none", "connecting"}
    <3>1. \E j \in List : d \in list[j]  BY <1>3 DEF Entries, PoolType
    <3>2. d \in Client /\ link[d] \notin {"none", "connecting"}
      BY <3>1 DEF PoolType, PoolLinks
    <3> QED  BY <3>2, <1>4
  <2>4. ASSUME NEW d \in Client, link'[d] = "open" PROVE d \in alive'
    <3>1. link[d] = "open" /\ d \notin Entries \ kept  BY <2>4, <1>1
    <3>2. d \in alive  BY <3>1 DEF PoolLinks
    <3> QED  BY <3>1, <3>2, <1>1
  <2>5. ASSUME NEW d \in alive' PROVE link'[d] \in {"open", "lost"}
    <3>1. d \in alive /\ d \in Client /\ d \notin Entries \ kept  BY <1>1 DEF PoolType
    <3> QED  BY <3>1, <1>1 DEF PoolLinks
  <2> QED  BY <2>1, <2>2, <2>3, <2>4, <2>5 DEF PoolLinks
<1>7. PoolListed'
  <2>1. ASSUME ~ overwritten, NEW d \in alive' PROVE link'[d] = "open" /\ d \in kept
    <3>1. d \in alive /\ d \notin old /\ d \in Client  BY <1>1 DEF PoolType
    <3>2. link[d] = "open" /\ d \in Entries  BY <3>1, <2>1 DEF PoolListed
    <3> QED  BY <3>1, <3>2, <1>1
  <2> QED  BY <2>1, <1>1, <1>3 DEF PoolListed
<1>8. PoolCounts'
  <2> SUFFICES ASSUME NEW d \in Client PROVE Cardinality(Users(d)') <= refs'[d]
    BY DEF PoolCounts
  <2>1. Users(d)' \subseteq Users(d)
    BY <1>1, <1>4 DEF Users, IsServed
  <2>2. Cardinality(Users(d)) <= refs[d] /\ refs[d] \in Nat  BY DEF PoolCounts, PoolType
  <2> QED  BY <2>1, <2>2, <1>1, NobodyComes
<1> QED  BY <1>5, <1>6, <1>7, <1>8

(***************************************************************************)
(* The tasks.                                                              *)
(***************************************************************************)

\* The types of the tasks and the terminals.
TaskType ==
  /\ state \in [Task -> {"NONE", "RUNNING"} \cup Ended]
  /\ attempt \in [Task -> 1..MaxAttempts]
  /\ executor \in [Task -> {"idle", "working", "delayed", "over"}]
  /\ request \in [Task -> {"none", "due", "working", "over"}]
  /\ aborted \subseteq Task /\ shells \subseteq Terminal

\* A task is submitted once, and one whose signal was fired is not waiting
\* for another attempt: a retry after a cancel would break the promise.
TaskLinks ==
  \A t \in Task :
    /\ executor[t] = "idle" <=> state[t] = "NONE"
    /\ executor[t] = "idle" => request[t] = "none" /\ t \notin aborted
    /\ executor[t] = "delayed" => t \notin aborted

TaskInv == TaskType /\ TaskLinks

RemoteInv == PoolInv /\ TaskInv

\* A step of the pool alone keeps the tasks, and the other way round.
LEMMA TasksAlone ==
  ASSUME TaskInv, UNCHANGED remoteVars
  PROVE  TaskInv'
BY DEF remoteVars, TaskInv, TaskType, TaskLinks

LEMMA PoolAlone ==
  ASSUME PoolInv, UNCHANGED poolVars
  PROVE  PoolInv'
BY DEF poolVars, PoolInv, PoolType, PoolLinks, PoolListed, PoolCounts, Users, IsWaiting,
   IsServed, Entries

\* Every part of a task and every terminal is a user of the pool.
LEMMA UsersAre ==
  /\ \A t \in Task : Executor(t) \in User /\ Request(t) \in User
  /\ \A m \in Terminal : Shell(m) \in User
BY UsersAreKnown DEF Executor, Request, Shell

\* What a step of a task does to the pool.
LEMMA TaskKeepsPool ==
  ASSUME PoolInv, NEW t \in Task, TaskStep(t)
  PROVE  PoolInv'
<1>1. ASSUME NEW u \in User, NEW result, OperationEnds(u, result) PROVE PoolInv'
  BY <1>1, LeaveKeeps, FailKeeps DEF OperationEnds
<1>2. CASE Submit(t)
  BY <1>2, UsersAre, GetKeeps, PoolAlone DEF Submit
<1>3. CASE RetryDue(t)
  BY <1>3, UsersAre, GetKeeps DEF RetryDue
<1>4. CASE Cancel(t)
  BY <1>4, PoolAlone DEF Cancel
<1>5. CASE RequestBegins(t)
  BY <1>5, UsersAre, GetKeeps DEF RequestBegins
<1>6. ASSUME NEW result, AttemptEnds(t, result) PROVE PoolInv'
  BY <1>6, <1>1, UsersAre DEF AttemptEnds
<1>7. ASSUME NEW result, RequestEnds(t, result) PROVE PoolInv'
  BY <1>7, <1>1, UsersAre DEF RequestEnds
<1> QED  BY <1>2, <1>3, <1>4, <1>5, <1>6, <1>7 DEF TaskStep

\* What a step of a terminal does to the pool.
LEMMA TerminalKeepsPool ==
  ASSUME PoolInv, NEW m \in Terminal, TerminalStep(m)
  PROVE  PoolInv'
<1>1. CASE OpenTerminal(m)
  BY <1>1, UsersAre, GetKeeps DEF OpenTerminal
<1>2. CASE ShellOpens(m)
  BY <1>2, PoolAlone DEF ShellOpens
<1>3. CASE ShellFails(m)
  BY <1>3, UsersAre, LeaveKeeps, FailKeeps DEF ShellFails
<1>4. CASE TerminalEnds(m)
  BY <1>4, UsersAre, LeaveKeeps DEF TerminalEnds
<1> QED  BY <1>1, <1>2, <1>3, <1>4 DEF TerminalStep

\* What a step of a task does to the tasks.
LEMMA TaskKeepsTasks ==
  ASSUME TaskInv, NEW t \in Task, TaskStep(t)
  PROVE  TaskInv'
<1> USE DEF TaskInv, TaskType, TaskLinks, Ended
<1>0. MaxAttempts \in Nat \ {0}  BY UsersAreKnown
<1>1. CASE Submit(t)
  BY <1>1 DEF Submit
<1>2. CASE RetryDue(t)
  BY <1>2 DEF RetryDue
<1>3. CASE Cancel(t)
  BY <1>3 DEF Cancel
<1>4. CASE RequestBegins(t)
  BY <1>4 DEF RequestBegins
<1>5. ASSUME NEW result, AttemptEnds(t, result) PROVE TaskInv'
  <2>1. /\ executor[t] = "working" /\ state[t] # "NONE"
        /\ UNCHANGED <<request, aborted, shells>>
    BY <1>5 DEF AttemptEnds
  <2>2. CASE result = "transient" /\ Retries(t)
    <3>1. /\ t \notin aborted /\ attempt[t] < MaxAttempts
          /\ state' = [state EXCEPT ![t] = "RUNNING"]
          /\ attempt' = [attempt EXCEPT ![t] = @ + 1]
          /\ executor' = [executor EXCEPT ![t] = "delayed"]
      BY <1>5, <2>2 DEF AttemptEnds, Retries
    <3>2. attempt' \in [Task -> 1..MaxAttempts]  BY <3>1, <1>0
    <3> QED  BY <3>1, <3>2, <2>1
  <2>3. CASE ~ (result = "transient" /\ Retries(t))
    <3>1. /\ state' = [state EXCEPT ![t] = IF t \in aborted THEN @ ELSE
                         IF result = "ok" THEN "COMPLETED" ELSE "FAILED"]
          /\ executor' = [executor EXCEPT ![t] = "over"]
          /\ UNCHANGED attempt
      BY <1>5, <2>3 DEF AttemptEnds
    <3> QED  BY <3>1, <2>1
  <2> QED  BY <2>2, <2>3
<1>6. ASSUME NEW result, RequestEnds(t, result) PROVE TaskInv'
  BY <1>6 DEF RequestEnds
<1> QED  BY <1>1, <1>2, <1>3, <1>4, <1>5, <1>6 DEF TaskStep

\* What a step of a terminal does to the tasks.
LEMMA TerminalKeepsTasks ==
  ASSUME TaskInv, NEW m \in Terminal, TerminalStep(m)
  PROVE  TaskInv'
BY TasksAlone DEF TerminalStep, OpenTerminal, ShellOpens, ShellFails, TerminalEnds,
   TaskInv, TaskType, TaskLinks

(***************************************************************************)
(* The whole.                                                              *)
(***************************************************************************)

\* No step breaks the invariant.
LEMMA RemoteStep ==
  RemoteInv /\ [Next]_vars => RemoteInv'
<1> SUFFICES ASSUME RemoteInv, [Next]_vars PROVE RemoteInv'
  OBVIOUS
<1> USE DEF RemoteInv
<1>1. ASSUME NEW t \in Task, TaskStep(t) PROVE RemoteInv'
  BY <1>1, TaskKeepsPool, TaskKeepsTasks
<1>2. ASSUME NEW m \in Terminal, TerminalStep(m) PROVE RemoteInv'
  BY <1>2, TerminalKeepsPool, TerminalKeepsTasks
<1>3. CASE PoolStep /\ UNCHANGED remoteVars
  <2>1. PoolInv'  BY <1>3, ConnectedKeeps, LostKeeps, HealthKeeps DEF PoolStep
  <2> QED  BY <1>3, <2>1, TasksAlone
<1>4. CASE UNCHANGED vars
  <2>1. UNCHANGED poolVars /\ UNCHANGED remoteVars  BY <1>4 DEF vars
  <2> QED  BY <2>1, PoolAlone, TasksAlone
<1> QED  BY <1>1, <1>2, <1>3, <1>4 DEF Next

\* It holds at first.
LEMMA RemoteStarts ==
  Init => RemoteInv
<1> SUFFICES ASSUME Init PROVE RemoteInv
  OBVIOUS
<1> USE DEF Init, PoolInit
<1>1. PoolType  BY DEF PoolType
<1>2. PoolLinks  BY DEF PoolLinks, IsWaiting
<1>3. PoolListed  BY DEF PoolListed
<1>4. ASSUME NEW c \in Client PROVE Cardinality(Users(c)) <= refs[c]
  <2>1. Users(c) = {}  BY DEF Users, Client
  <2>2. Cardinality(Users(c)) = 0  BY <2>1, FS_EmptySet
  <2> QED  BY <2>2
<1>5. TaskInv
  <2>1. MaxAttempts \in Nat \ {0}  BY UsersAreKnown
  <2> QED  BY <2>1 DEF TaskInv, TaskType, TaskLinks
<1> QED  BY <1>1, <1>2, <1>3, <1>4, <1>5 DEF RemoteInv, PoolInv, PoolCounts

\* The invariant holds of every behaviour.
LEMMA RemoteAlways ==
  Spec => []RemoteInv
BY RemoteStarts, RemoteStep, PTL DEF Spec

\* The variables of pool, tasks and terminals keep their types: no task is
\* attempted more often than it may be.
THEOREM RemoteTypes == Spec => []RemoteTypeOK
<1>1. RemoteInv => RemoteTypeOK
  BY DEF RemoteInv, PoolInv, PoolType, TaskInv, TaskType, RemoteTypeOK
<1> QED  BY <1>1, RemoteAlways, PTL

\* The users of a connection never outnumber its count, and the pool ends no
\* connection that somebody uses, for every limit and every number of users.
THEOREM UsedStaysOpen == Spec => []InUseStaysOpen
<1>1. RemoteInv => InUseStaysOpen
  <2> SUFFICES ASSUME RemoteInv, NEW c \in Client
               PROVE  /\ Cardinality(Users(c)) <= refs[c]
                      /\ Users(c) # {} => link[c] # "ended"
    BY DEF InUseStaysOpen, Users
  <2>1. Cardinality(Users(c)) <= refs[c]  BY DEF RemoteInv, PoolInv, PoolCounts
  <2>2. ASSUME NEW u \in Users(c) PROVE link[c] # "ended"
    <3>1. u \in User /\ using[u] = c /\ c # 0  BY DEF Users, IsServed
    <3> QED  BY <3>1 DEF RemoteInv, PoolInv, PoolLinks
  <2> QED  BY <2>1, <2>2
<1> QED  BY <1>1, RemoteAlways, PTL

\* As long as no list was stored over another's entry, the pool holds every
\* open connection and takes only open ones for alive.
THEOREM PoolIsComplete == Spec => []PoolKnowsItsConnections
<1>1. RemoteInv => PoolKnowsItsConnections
  BY DEF RemoteInv, PoolInv, PoolLinks, PoolListed, PoolKnowsItsConnections
<1> QED  BY <1>1, RemoteAlways, PTL

(***************************************************************************)
(* The promise of a file task, but for its liveness.                       *)
(***************************************************************************)

\* A step of a task is one of the promise, or is none of its business.
LEMMA TaskStepKeepsPromise ==
  ASSUME RemoteInv, NEW t \in Task, TaskStep(t)
  PROVE  [Promise!TaskNext]_(Promise!taskVars)
<1> DEFINE writers == [x \in Task |-> Writing(x)]
<1> USE DEF RemoteInv, TaskInv, TaskType
<1>0. executor[t] = "idle" <=> state[t] = "NONE"
  BY DEF TaskLinks
<1>1. writers' = [x \in Task |-> Writing(x)']
  OBVIOUS
<1>2. ASSUME \A x \in Task : Writing(x)' = Writing(x) PROVE writers' = writers
  BY <1>1, <1>2
<1>3. ASSUME NEW W, Writing(t)' = W, \A x \in Task : x # t => Writing(x)' = Writing(x)
      PROVE  writers' = [writers EXCEPT ![t] = W]
  BY <1>1, <1>3
<1>4. CASE Submit(t)
  <2>1. /\ executor[t] = "idle" /\ state[t] = "NONE" /\ request[t] = "none" /\ t \notin aborted
        /\ UNCHANGED <<attempt, aborted>>
    BY <1>4 DEF Submit, TaskLinks
  <2>2. CASE state' = [state EXCEPT ![t] = "COMPLETED"]
             /\ executor' = [executor EXCEPT ![t] = "over"] /\ UNCHANGED request
    <3>1. \A x \in Task : Writing(x)' = Writing(x)  BY <2>1, <2>2 DEF Writing
    <3>2. writers' = writers  BY <3>1, <1>2
    <3> QED  BY <2>1, <2>2, <3>2 DEF Promise!TaskNext, Promise!Submit
  <2>3. ASSUME NEW r \in {"none", "due"},
               state' = [state EXCEPT ![t] = "RUNNING"],
               executor' = [executor EXCEPT ![t] = "working"],
               request' = [request EXCEPT ![t] = r]
        PROVE  Promise!TaskNext
    <3> DEFINE who == {"executor"} \cup {w \in {"request"} : r = "due"}
    <3>1. Writing(t)' = who /\ who \in {{"executor"}, {"executor", "request"}}
      BY <2>1, <2>3 DEF Writing
    <3>2. \A x \in Task : x # t => Writing(x)' = Writing(x)  BY <2>1, <2>3 DEF Writing
    <3>3. writers' = [writers EXCEPT ![t] = who]  BY <3>1, <3>2, <1>3
    <3> HIDE DEF who, writers
    <3>4. Promise!Submit(t)
      BY <2>1, <2>3, <3>1, <3>3 DEF Promise!Submit, writers
    <3> QED  BY <3>4 DEF Promise!TaskNext
  <2> QED  BY <1>4, <2>2, <2>3 DEF Submit
<1>5. CASE RetryDue(t)
  <2>1. /\ executor[t] = "delayed" /\ executor' = [executor EXCEPT ![t] = "working"]
        /\ UNCHANGED <<state, attempt, request, aborted>>
    BY <1>5 DEF RetryDue
  <2>2. \A x \in Task : Writing(x)' = Writing(x)  BY <2>1 DEF Writing
  <2> QED  BY <2>1, <2>2, <1>2 DEF Promise!taskVars
<1>6. CASE RequestBegins(t)
  <2>1. /\ request[t] = "due" /\ request' = [request EXCEPT ![t] = "working"]
        /\ UNCHANGED <<state, attempt, executor, aborted>>
    BY <1>6 DEF RequestBegins
  <2>2. \A x \in Task : Writing(x)' = Writing(x)  BY <2>1 DEF Writing
  <2> QED  BY <2>1, <2>2, <1>2 DEF Promise!taskVars
<1>7. CASE Cancel(t)
  <2>1. /\ state[t] # "NONE" /\ executor[t] # "idle"
        /\ aborted' = IF executor[t] \in {"working", "delayed"} THEN aborted \cup {t} ELSE aborted
        /\ executor' = [executor EXCEPT ![t] = IF @ = "delayed" THEN "over" ELSE @]
        /\ state' = [state EXCEPT ![t] = IF @ \in Ended THEN @ ELSE "CANCELLED"]
        /\ UNCHANGED <<attempt, request>>
    BY <1>7, <1>0 DEF Cancel
  <2>2. Writing(t)' = Writing(t) \ {"executor"}  BY <2>1 DEF Writing
  <2>3. \A x \in Task : x # t => Writing(x)' = Writing(x)  BY <2>1 DEF Writing
  <2>4. writers' = [writers EXCEPT ![t] = Writing(t) \ {"executor"}]  BY <2>2, <2>3, <1>3
  <2>5. Promise!Cancel(t)
    BY <2>1, <2>4 DEF Promise!Cancel, Promise!Concluded, Ended
  <2> QED  BY <2>5 DEF Promise!TaskNext
<1>8. ASSUME NEW result, AttemptEnds(t, result) PROVE [Promise!TaskNext]_(Promise!taskVars)
  <2>1. executor[t] = "working" /\ UNCHANGED <<request, aborted>>
    BY <1>8 DEF AttemptEnds
  <2>2. CASE result = "transient" /\ Retries(t)
    <3>1. /\ t \notin aborted /\ attempt[t] < MaxAttempts
          /\ state' = [state EXCEPT ![t] = "RUNNING"]
          /\ attempt' = [attempt EXCEPT ![t] = @ + 1]
          /\ executor' = [executor EXCEPT ![t] = "delayed"]
      BY <1>8, <2>2 DEF AttemptEnds, Retries
    <3>2. \A x \in Task : Writing(x)' = Writing(x)  BY <2>1, <3>1 DEF Writing
    <3>3. writers' = writers /\ "executor" \in writers[t]
      BY <2>1, <3>1, <3>2, <1>2 DEF Writing
    <3>4. Promise!Retry(t)  BY <3>1, <3>3 DEF Promise!Retry
    <3> QED  BY <3>4 DEF Promise!TaskNext
  <2>3. CASE ~ (result = "transient" /\ Retries(t))
    <3>1. /\ state' = [state EXCEPT ![t] = IF t \in aborted THEN @ ELSE
                         IF result = "ok" THEN "COMPLETED" ELSE "FAILED"]
          /\ executor' = [executor EXCEPT ![t] = "over"]
          /\ UNCHANGED attempt
      BY <1>8, <2>3 DEF AttemptEnds
    <3>2. \A x \in Task : x # t => Writing(x)' = Writing(x)  BY <2>1, <3>1 DEF Writing
    <3>3. CASE t \in aborted
      <4>1. Writing(t)' = Writing(t)  BY <2>1, <3>1, <3>3 DEF Writing
      <4>2. writers' = writers  BY <4>1, <3>2, <1>2
      <4>3. state' = state  BY <3>1, <3>3
      <4> QED  BY <4>2, <4>3, <3>1 DEF Promise!taskVars
    <3>4. CASE t \notin aborted
      <4>1. Writing(t)' = Writing(t) \ {"executor"} /\ "executor" \in Writing(t)
        BY <2>1, <3>1, <3>4 DEF Writing
      <4>2. writers' = [writers EXCEPT ![t] = Writing(t) \ {"executor"}]  BY <4>1, <3>2, <1>3
      <4>3. \E outcome \in {"COMPLETED", "FAILED"} : state' = [state EXCEPT ![t] = outcome]
        BY <3>1, <3>4
      <4>4. Promise!Conclude(t, "executor")
        BY <4>1, <4>2, <4>3, <3>1 DEF Promise!Conclude
      <4> QED  BY <4>4 DEF Promise!TaskNext
    <3> QED  BY <3>3, <3>4
  <2> QED  BY <2>2, <2>3
<1>9. ASSUME NEW result, RequestEnds(t, result) PROVE [Promise!TaskNext]_(Promise!taskVars)
  <2>1. /\ request[t] = "working" /\ request' = [request EXCEPT ![t] = "over"]
        /\ state' = [state EXCEPT ![t] = IF result = "ok" THEN "COMPLETED" ELSE "FAILED"]
        /\ UNCHANGED <<attempt, executor, aborted>>
    BY <1>9 DEF RequestEnds
  <2>2. Writing(t)' = Writing(t) \ {"request"} /\ "request" \in Writing(t)
    BY <2>1 DEF Writing
  <2>3. \A x \in Task : x # t => Writing(x)' = Writing(x)  BY <2>1 DEF Writing
  <2>4. writers' = [writers EXCEPT ![t] = Writing(t) \ {"request"}]  BY <2>2, <2>3, <1>3
  <2>5. \E outcome \in {"COMPLETED", "FAILED"} : state' = [state EXCEPT ![t] = outcome]
    BY <2>1
  <2>6. Promise!Conclude(t, "request")
    BY <2>1, <2>2, <2>4, <2>5 DEF Promise!Conclude
  <2> QED  BY <2>6 DEF Promise!TaskNext
<1> QED  BY <1>4, <1>5, <1>6, <1>7, <1>8, <1>9 DEF TaskStep

\* The rest changes nothing a task promises about.
LEMMA OthersKeepPromise ==
  ASSUME UNCHANGED <<state, attempt, executor, request, aborted>>
  PROVE  UNCHANGED Promise!taskVars
BY DEF Promise!taskVars, Writing

\* Whatever attempts fail, whenever a task is cancelled and whichever of an
\* upload's two writers is first, the tasks behave as FileTask says: no attempt
\* begins after a cancel or beyond the last one, and each writer concludes once.
THEOREM TasksKeepPromise ==
  Spec => Promise!TaskInit /\ [][Promise!TaskNext]_(Promise!taskVars)
<1>1. Init => Promise!TaskInit
  BY DEF Init, Promise!TaskInit, Writing
<1>2. RemoteInv /\ [Next]_vars => [Promise!TaskNext]_(Promise!taskVars)
  <2> SUFFICES ASSUME RemoteInv, [Next]_vars PROVE [Promise!TaskNext]_(Promise!taskVars)
    OBVIOUS
  <2>1. ASSUME NEW t \in Task, TaskStep(t) PROVE [Promise!TaskNext]_(Promise!taskVars)
    BY <2>1, TaskStepKeepsPromise
  <2>2. ASSUME NEW m \in Terminal, TerminalStep(m) PROVE UNCHANGED Promise!taskVars
    <3>1. UNCHANGED <<state, attempt, executor, request, aborted>>
      BY <2>2 DEF TerminalStep, OpenTerminal, ShellOpens, ShellFails, TerminalEnds, remoteVars
    <3> QED  BY <3>1, OthersKeepPromise
  <2>3. CASE UNCHANGED remoteVars
    BY <2>3, OthersKeepPromise DEF remoteVars
  <2> QED  BY <2>1, <2>2, <2>3 DEF Next, vars
<1> QED  BY <1>1, <1>2, RemoteAlways, PTL DEF Spec

(***************************************************************************)
(* Nobody works at a task, or has a shell, without a connection.           *)
(***************************************************************************)

\* A task that is RUNNING is retried after a delay or written by somebody who
\* has a connection, or waits for one, and will still say how it ended. An open
\* shell has its connection.
EveryTaskGoesOn ==
  /\ \A t \in Task : state[t] = "RUNNING" =>
       \/ executor[t] = "delayed"
       \/ executor[t] = "working" /\ t \notin aborted /\ using[Executor(t)] # 0
       \/ request[t] = "due"
       \/ request[t] = "working" /\ using[Request(t)] # 0
  /\ \A m \in Terminal : m \in shells => using[Shell(m)] # 0

\* Whoever works has a connection, and nobody else is a user of the pool.
WorkersAreUsers ==
  /\ \A t \in Task : /\ executor[t] = "working" <=> using[Executor(t)] # 0
                     /\ request[t] = "working" <=> using[Request(t)] # 0
                     /\ state[t] = "RUNNING" => Writing(t) # {}
  /\ \A m \in Terminal : m \in shells => using[Shell(m)] # 0 /\ link[using[Shell(m)]] # "connecting"

\* The parts of tasks, and the terminals, are different users.
LEMMA UsersDiffer ==
  /\ \A t, x \in Task : Executor(t) # Request(x) /\ (t # x => Executor(t) # Executor(x))
                        /\ (t # x => Request(t) # Request(x))
  /\ \A t \in Task, m \in Terminal : Shell(m) \notin {Executor(t), Request(t)}
  /\ \A m, n \in Terminal : m # n => Shell(m) # Shell(n)
BY DEF Executor, Request, Shell

\* A user that gets a connection, or gives one up, leaves the others theirs.
LEMMA UsingChanges ==
  ASSUME PoolInv, NEW u \in User
  PROVE  /\ GetConnection(u) =>
              /\ using[u] = 0 /\ using'[u] # 0
              /\ \A v \in User : v # u => using'[v] = using[v]
              /\ \A c \in Client : link'[c] = "connecting" => link[c] \in {"none", "connecting"}
         /\ (Leave(u) \/ ConnectFails(u) \/ Release(u)) =>
              /\ using'[u] = 0
              /\ \A v \in User : v # u => using'[v] = using[v]
              /\ \A c \in Client : link'[c] = "connecting" => link[c] = "connecting"
<1> USE DEF PoolInv, PoolType, Client
<1>1. ASSUME NEW c \in Client, Reuse(u, c) \/ \E l : Connect(u, c, l)
      PROVE  /\ using'[u] # 0
             /\ \A v \in User : v # u => using'[v] = using[v]
             /\ \A d \in Client : link'[d] = "connecting" => link[d] \in {"none", "connecting"}
  <2>1. c # 0
    BY PoolSizesAreNat
  <2>2. CASE Reuse(u, c)
    BY <2>1, <2>2 DEF Reuse
  <2>3. ASSUME NEW l, Connect(u, c, l)
        PROVE  /\ using' = [using EXCEPT ![u] = c] /\ link' = [link EXCEPT ![c] = "connecting"]
               /\ link[c] = "none"
    BY <2>3 DEF Connect
  <2> HIDE DEF Client
  <2> QED
    BY <1>1, <2>1, <2>2, <2>3
<1>2. ASSUME GetConnection(u)
      PROVE  using[u] = 0 /\ \E c \in Client : Reuse(u, c) \/ \E l : Connect(u, c, l)
  BY <1>2 DEF GetConnection, Idle, Entries
<1>3. ASSUME Leave(u) \/ ConnectFails(u) \/ Release(u)
      PROVE  /\ using'[u] = 0
             /\ \A v \in User : v # u => using'[v] = using[v]
             /\ \A c \in Client : link'[c] = "connecting" => link[c] = "connecting"
  BY <1>3 DEF Leave, ConnectFails, Release
<1> QED
  BY <1>1, <1>2, <1>3

\* What a step of a task does to those who work.
LEMMA TaskStepKeepsUsers ==
  ASSUME RemoteInv, WorkersAreUsers, NEW t \in Task, TaskStep(t)
  PROVE  WorkersAreUsers'
<1> USE DEF RemoteInv, TaskInv, TaskType, Ended
<1> DEFINE e == Executor(t)
           r == Request(t)
<1>0. e \in User /\ r \in User /\ e # r
  BY UsersAre, UsersDiffer
<1>1. ASSUME NEW u \in {e, r}, \A v \in User : v # u => using'[v] = using[v],
             \A c \in Client : link'[c] = "connecting" => link[c] \in {"none", "connecting"},
             shells' = shells
      PROVE  /\ \A x \in Task : x # t => /\ using'[Executor(x)] = using[Executor(x)]
                                         /\ using'[Request(x)] = using[Request(x)]
             /\ \A m \in Terminal : m \in shells' =>
                  using'[Shell(m)] # 0 /\ link'[using'[Shell(m)]] # "connecting"
  <2>1. \A x \in Task : x # t => Executor(x) \in User \ {u} /\ Request(x) \in User \ {u}
    BY UsersAre, UsersDiffer
  <2>2. \A m \in Terminal : Shell(m) \in User \ {u}
    BY UsersAre, UsersDiffer
  <2>3. \A v \in User : using[v] # 0 => using[v] \in Client /\ link[using[v]] # "none"
    BY DEF PoolInv, PoolType, PoolLinks
  <2> QED
    BY <1>1, <2>1, <2>2, <2>3 DEF WorkersAreUsers
<1>2. ASSUME \A x \in Task : x # t => /\ using'[Executor(x)] = using[Executor(x)]
                                      /\ using'[Request(x)] = using[Request(x)],
             \A x \in Task : x # t => /\ executor'[x] = executor[x] /\ request'[x] = request[x]
                                      /\ state'[x] = state[x] /\ (x \in aborted' <=> x \in aborted),
             \A m \in Terminal : m \in shells' =>
                  using'[Shell(m)] # 0 /\ link'[using'[Shell(m)]] # "connecting",
             executor'[t] = "working" <=> using'[e] # 0,
             request'[t] = "working" <=> using'[r] # 0,
             state'[t] = "RUNNING" => \/ executor'[t] \in {"working", "delayed"} /\ t \notin aborted'
                                      \/ request'[t] \in {"due", "working"}
      PROVE  WorkersAreUsers'
  BY <1>2 DEF WorkersAreUsers, Writing
<1>3. /\ executor[t] = "working" <=> using[e] # 0
      /\ request[t] = "working" <=> using[r] # 0
      /\ state[t] = "RUNNING" => \/ executor[t] \in {"working", "delayed"} /\ t \notin aborted
                                 \/ request[t] \in {"due", "working"}
  BY DEF WorkersAreUsers, Writing
<1>4. CASE UNCHANGED <<poolVars, shells>>
  <2>1. /\ UNCHANGED <<using, link, shells>>
        /\ Submit(t) \/ Cancel(t)
    BY <1>4, <1>0, UsingChanges
       DEF poolVars, TaskStep, RetryDue, RequestBegins, AttemptEnds, RequestEnds, OperationEnds,
           Leave, ConnectFails, IsServed, IsWaiting
  <2>2. \A m \in Terminal : m \in shells' =>
          using'[Shell(m)] # 0 /\ link'[using'[Shell(m)]] # "connecting"
    BY <2>1 DEF WorkersAreUsers
  <2> QED
    BY <1>0, <1>2, <1>3, <2>1, <2>2, UsingChanges DEF Submit, Cancel, TaskLinks
<1>5. CASE Submit(t) /\ GetConnection(e)
  <2>0. ~ UNCHANGED poolVars
    BY <1>0, <1>5, UsingChanges DEF poolVars, PoolInv
  <2>1. /\ state[t] = "NONE" /\ request[t] = "none" /\ t \notin aborted
        /\ state' = [state EXCEPT ![t] = "RUNNING"]
        /\ executor' = [executor EXCEPT ![t] = "working"]
        /\ \E q \in {"none", "due"} : request' = [request EXCEPT ![t] = q]
        /\ UNCHANGED <<attempt, aborted, shells>>
    BY <1>5, <2>0 DEF Submit, TaskLinks
  <2> QED
    BY <1>0, <1>1, <1>2, <1>3, <1>5, <2>1, UsingChanges
<1>6. CASE RetryDue(t)
  BY <1>0, <1>1, <1>2, <1>3, <1>6, UsingChanges DEF RetryDue
<1>7. CASE RequestBegins(t)
  BY <1>0, <1>1, <1>2, <1>3, <1>7, UsingChanges DEF RequestBegins
<1>8. ASSUME NEW result, AttemptEnds(t, result) PROVE WorkersAreUsers'
  BY <1>0, <1>1, <1>2, <1>3, <1>8, UsingChanges DEF AttemptEnds, OperationEnds, Retries
<1>9. ASSUME NEW result, RequestEnds(t, result) PROVE WorkersAreUsers'
  BY <1>0, <1>1, <1>2, <1>3, <1>9, UsingChanges DEF RequestEnds, OperationEnds
<1>10. CASE Cancel(t)
  BY <1>4, <1>10 DEF Cancel
<1> QED
  BY <1>4, <1>5, <1>6, <1>7, <1>8, <1>9, <1>10 DEF TaskStep, Submit

\* What a step of a terminal, or of the pool, does to them.
LEMMA OtherStepKeepsUsers ==
  ASSUME RemoteInv, WorkersAreUsers,
         (\E m \in Terminal : TerminalStep(m)) \/ (PoolStep /\ UNCHANGED remoteVars)
  PROVE  WorkersAreUsers'
<1> USE DEF RemoteInv
<1>1. UNCHANGED <<state, executor, request, aborted>>
  BY DEF TerminalStep, OpenTerminal, ShellOpens, ShellFails, TerminalEnds, remoteVars
<1>2. \A v \in User : using[v] # 0 => using[v] \in Client /\ link[using[v]] # "none"
  BY DEF PoolInv, PoolType, PoolLinks
<1>3. ASSUME \A t \in Task : using'[Executor(t)] = using[Executor(t)] /\ using'[Request(t)] = using[Request(t)],
             \A m \in Terminal : m \in shells' => using'[Shell(m)] # 0 /\ link'[using'[Shell(m)]] # "connecting"
      PROVE  WorkersAreUsers'
  BY <1>1, <1>3 DEF WorkersAreUsers, Writing
<1>4. ASSUME NEW m \in Terminal, TerminalStep(m) PROVE WorkersAreUsers'
  <2> DEFINE u == Shell(m)
  <2>0. u \in User /\ \A t \in Task : Executor(t) \in User \ {u} /\ Request(t) \in User \ {u}
    BY UsersAre, UsersDiffer
  <2>1. \A n \in Terminal : n # m => Shell(n) \in User \ {u}
    BY UsersAre, UsersDiffer
  <2>2. CASE ShellOpens(m)
    <3>1. UNCHANGED <<using, link>> /\ shells' = shells \cup {m} /\ IsServed(u)
      BY <2>2 DEF ShellOpens, poolVars
    <3> QED
      BY <3>1, <1>3 DEF WorkersAreUsers, IsServed
  <2>3. ASSUME \A v \in User : v # u => using'[v] = using[v],
               \A c \in Client : link'[c] = "connecting" => link[c] \in {"none", "connecting"},
               shells' \subseteq shells, m \notin shells'
        PROVE  WorkersAreUsers'
    <3>1. ASSUME NEW n \in Terminal, n \in shells'
          PROVE  using'[Shell(n)] # 0 /\ link'[using'[Shell(n)]] # "connecting"
      <4>1. n # m /\ using'[Shell(n)] = using[Shell(n)]
        BY <2>1, <2>3, <3>1
      <4>2. using[Shell(n)] # 0 /\ link[using[Shell(n)]] # "connecting"
        BY <2>3, <3>1 DEF WorkersAreUsers
      <4> QED
        BY <4>1, <4>2, <1>2, <2>3, UsersAre
    <3> QED
      BY <3>1, <1>3, <2>0, <2>3
  <2>4. CASE OpenTerminal(m)
    <3>1. using[u] = 0 /\ GetConnection(u) /\ shells' = shells
      BY <2>4 DEF OpenTerminal, remoteVars
    <3>2. m \notin shells
      BY <3>1 DEF WorkersAreUsers
    <3> QED
      BY <2>0, <2>3, <3>1, <3>2, UsingChanges
  <2>5. CASE ShellFails(m)
    <3>1. m \notin shells /\ (Leave(u) \/ ConnectFails(u)) /\ shells' = shells
      BY <2>5 DEF ShellFails, remoteVars
    <3> QED
      BY <2>0, <2>3, <3>1, UsingChanges
  <2>6. CASE TerminalEnds(m)
    <3>1. Release(u) /\ shells' = shells \ {m}
      BY <2>6 DEF TerminalEnds
    <3> QED
      BY <2>0, <2>3, <3>1, UsingChanges
  <2> QED
    BY <1>4, <2>2, <2>4, <2>5, <2>6 DEF TerminalStep
<1>5. CASE PoolStep /\ UNCHANGED remoteVars
  <2>1. UNCHANGED using
    BY <1>5 DEF PoolStep, Connected, Lost, HealthCheck
  <2>2. \A c \in Client : link'[c] = "connecting" => link[c] = "connecting"
    BY <1>5 DEF PoolStep, Connected, Lost, HealthCheck, End, IsWaiting, PoolInv, PoolType
  <2>3. shells' = shells
    BY <1>5 DEF remoteVars
  <2> QED
    BY <1>2, <1>3, <2>1, <2>2, <2>3, UsersAre DEF WorkersAreUsers
<1> QED
  BY <1>4, <1>5

\* However attempts, cancels, lost connections and full pools interleave, a task
\* that is RUNNING is never left behind: somebody still has to say how it ended.
THEOREM TasksGoOn == Spec => []EveryTaskGoesOn
<1>1. Init => WorkersAreUsers
  BY UsersAre DEF Init, PoolInit, WorkersAreUsers
<1>2. RemoteInv /\ WorkersAreUsers /\ [Next]_vars => WorkersAreUsers'
  <2>1. ASSUME WorkersAreUsers, UNCHANGED vars PROVE WorkersAreUsers'
    BY <2>1 DEF WorkersAreUsers, Writing, vars, poolVars, remoteVars
  <2> QED
    BY <2>1, TaskStepKeepsUsers, OtherStepKeepsUsers DEF Next
<1>3. RemoteInv /\ WorkersAreUsers => EveryTaskGoesOn
  BY DEF WorkersAreUsers, EveryTaskGoesOn, Writing, RemoteInv, TaskInv, TaskType
<1> QED
  BY <1>1, <1>2, <1>3, RemoteAlways, PTL DEF Spec
=============================================================================
