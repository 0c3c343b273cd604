------------------------- MODULE BotConnectorProofs -------------------------
(* What BotConnector keeps for every option, limit and number of            *)
(* connections, deaths and commands, and every order of its timers.         *)
EXTENDS BotConnector, TLAPS

\* Connections are made one after the other: those to come are untouched.
\* A name without an entry has had no connection.
BotInv ==
  /\ BotTypeOK
  /\ \A b \in Conn : b > current => link[b] = "none" /\ b \notin wired
  /\ state = "none" <=> current = 0
  /\ OneConnection
  /\ StoppedIsAtRest

\* The initial states satisfy the invariant.
LEMMA InitBot == BotInit => BotInv
<1> SUFFICES ASSUME BotInit PROVE BotInv
  OBVIOUS
<1>1. MaxConnects \in Nat /\ MaxCommands \in Nat /\ MaxRetries \in Nat
  BY LimitsAreNat
<1>2. BotTypeOK
  <2>1. link \in [Conn -> {"none", "connecting", "alive", "dead", "lost", "closed"}]
    BY DEF BotInit
  <2>2. orphans \in [Kind -> Nat]
    BY DEF BotInit
  <2>3. failures \in 0..MaxRetries \cup {None} /\ commands \in 0..MaxCommands
        /\ current \in 0..MaxConnects
    BY <1>1 DEF BotInit
  <2> QED
    BY <2>1, <2>2, <2>3 DEF BotInit, BotTypeOK
<1>3. OneConnection /\ StoppedIsAtRest
  BY DEF BotInit, OneConnection, StoppedIsAtRest
<1> QED
  BY <1>2, <1>3 DEF BotInv, BotInit

\* connect leaves only the new connection wired and up.
LEMMA ConnectKeeps ==
  ASSUME BotInv, Connect
  PROVE  /\ state' = "CONNECTING" /\ current' \in 1..MaxConnects
         /\ link' \in [Conn -> {"none", "connecting", "alive", "dead", "lost", "closed"}]
         /\ wired' \subseteq Conn
         /\ failures' \in 0..MaxRetries \cup {None}
         /\ \A b \in Conn : b > current' => link'[b] = "none" /\ b \notin wired'
         /\ OneConnection'
<1>0. MaxConnects \in Nat /\ MaxRetries \in Nat /\ current \in 0..MaxConnects
  BY LimitsAreNat DEF BotInv, BotTypeOK
<1>1. current' = current + 1 /\ current' \in Conn /\ state' = "CONNECTING"
  BY <1>0 DEF Connect, Conn
<1>2. wired' = (wired \ {current}) \cup {current + 1}
  BY DEF Connect, ReplaceConnection
<1>3. link' = [c \in Conn |-> IF c = current THEN "closed"
                              ELSE IF c = current + 1 THEN "connecting" ELSE link[c]]
  BY DEF Connect, ReplaceConnection
<1>4. link' \in [Conn -> {"none", "connecting", "alive", "dead", "lost", "closed"}]
  BY <1>3 DEF BotInv, BotTypeOK
<1>5. wired' \subseteq Conn /\ failures' \in 0..MaxRetries \cup {None}
  BY <1>0, <1>1, <1>2 DEF BotInv, BotTypeOK, Connect
<1>6. ASSUME NEW b \in Conn, b > current'
      PROVE  link'[b] = "none" /\ b \notin wired'
  <2>1. b > current /\ b # current /\ b # current + 1
    BY <1>0, <1>1, <1>6 DEF Conn
  <2> QED
    BY <2>1, <1>2, <1>3 DEF BotInv
<1>7. ASSUME NEW b \in Conn, b \in wired' \/ link'[b] \in {"connecting", "alive", "dead"}
      PROVE  b = current'
  <2>1. CASE b = current
    BY <2>1, <1>0, <1>1, <1>2, <1>3, <1>7
  <2>2. CASE b # current /\ b # current + 1
    BY <2>2, <1>2, <1>3, <1>7 DEF BotInv, OneConnection
  <2> QED
    BY <2>1, <2>2, <1>1
<1> QED
  BY <1>1, <1>4, <1>5, <1>6, <1>7 DEF OneConnection, Conn

\* attemptReconnect only counts a failure and arms a timer.
LEMMA AttemptKeeps ==
  ASSUME BotInv, AttemptReconnect
  PROVE  /\ failures' \in 0..MaxRetries \cup {None}
         /\ tracked' \in Kind \cup {"none"}
         /\ orphans' \in [Kind -> Nat]
         /\ failures = None => failures' = None /\ tracked' = tracked
<1>0. MaxRetries \in Nat /\ failures \in 0..MaxRetries \cup {None}
      /\ tracked \in Kind \cup {"none"} /\ orphans \in [Kind -> Nat]
  BY LimitsAreNat DEF BotInv, BotTypeOK
<1>1. CASE failures = None \/ failures >= MaxRetries
  BY <1>0, <1>1 DEF AttemptReconnect, Kind
<1>2. CASE ~(failures = None \/ failures >= MaxRetries)
  <2>1. failures' = failures + 1 /\ tracked' = "reconnect"
        /\ orphans' = IF tracked = "none" THEN orphans ELSE [orphans EXCEPT ![tracked] = @ + 1]
    BY <1>2 DEF AttemptReconnect
  <2>2. failures + 1 \in 0..MaxRetries
    BY <1>0, <1>2
  <2>3. orphans' \in [Kind -> Nat]
    BY <1>0, <2>1
  <2> QED
    BY <1>2, <2>1, <2>2, <2>3 DEF Kind
<1> QED
  BY <1>1, <1>2

\* A death arms a timer or suspends; the bot is DEAD, not STOPPED.
LEMMA DeathKeeps ==
  ASSUME BotInv, DieAndRecover
  PROVE  /\ state' = "DEAD" /\ recent' \in Nat /\ deathCount' \in Nat
         /\ suspended' \in BOOLEAN /\ respawns' \in Nat
         /\ tracked' \in Kind \cup {"none"}
         /\ UNCHANGED <<failures, orphans>>
<1>0. recent \in Nat /\ deathCount \in Nat /\ suspended \in BOOLEAN /\ respawns \in Nat
      /\ tracked \in Kind \cup {"none"}
  BY DEF BotInv, BotTypeOK
<1>1. PICK n \in 1..(recent + 1) :
        /\ recent' = n
        /\ IF n >= RapidDeathMax
           THEN suspended' = TRUE /\ tracked' = "rapid" /\ UNCHANGED respawns
           ELSE /\ respawns' = IF AutoRespawn /\ ~suspended THEN respawns + 1 ELSE respawns
                /\ UNCHANGED <<suspended, tracked>>
  BY DEF DieAndRecover
<1>2. state' = "DEAD" /\ deathCount' = deathCount + 1 /\ UNCHANGED <<failures, orphans>>
  BY DEF DieAndRecover
<1>3. recent' \in Nat /\ deathCount' \in Nat
  BY <1>0, <1>1, <1>2
<1>4. CASE n >= RapidDeathMax
  BY <1>0, <1>1, <1>2, <1>3, <1>4 DEF Kind
<1>5. CASE ~(n >= RapidDeathMax)
  <2>1. respawns' \in Nat /\ suspended' \in BOOLEAN /\ tracked' \in Kind \cup {"none"}
    BY <1>0, <1>1, <1>5
  <2> QED
    BY <1>2, <1>3, <2>1
<1> QED
  BY <1>4, <1>5

\* A change of one connection that does not revive it keeps what is said of
\* all connections.
LEMMA LinkKeeps ==
  ASSUME BotInv, NEW b \in Conn, NEW c \in {"alive", "dead", "lost", "closed"},
         link[b] # "none", c \in {"alive", "dead"} => ~Over(link[b]),
         LinkBecomes(b, c), current' = current, wired' \in {wired, wired \ {b}}
  PROVE  /\ link' \in [Conn -> {"none", "connecting", "alive", "dead", "lost", "closed"}]
         /\ wired' \subseteq Conn
         /\ \A d \in Conn : d > current' => link'[d] = "none" /\ d \notin wired'
         /\ OneConnection'
         /\ state = "STOPPED" => wired' = {} /\ Over(link'[current'])
<1>0. link \in [Conn -> {"none", "connecting", "alive", "dead", "lost", "closed"}]
      /\ wired \subseteq Conn /\ current \in 0..MaxConnects /\ MaxConnects \in Nat
  BY LimitsAreNat DEF BotInv, BotTypeOK
<1>1. link' = [link EXCEPT ![b] = c]
  BY DEF LinkBecomes
<1>2. link' \in [Conn -> {"none", "connecting", "alive", "dead", "lost", "closed"}]
  BY <1>0, <1>1
<1>3. wired' \subseteq wired
  OBVIOUS
<1>4. \A d \in Conn : d > current' => link'[d] = "none" /\ d \notin wired'
  BY <1>0, <1>1, <1>3 DEF BotInv
<1>5. OneConnection'
  <2> SUFFICES ASSUME NEW d \in Conn,
                      d \in wired' \/ link'[d] \in {"connecting", "alive", "dead"}
               PROVE  d = current
    BY DEF OneConnection
  <2>1. d \in wired \/ link[d] \in {"connecting", "alive", "dead"}
    BY <1>0, <1>1, <1>3 DEF Over
  <2> QED
    BY <2>1 DEF BotInv, OneConnection
<1>6. ASSUME state = "STOPPED" PROVE wired' = {} /\ Over(link'[current'])
  <2>1. wired = {} /\ Over(link[current])
    BY <1>6 DEF BotInv, StoppedIsAtRest
  <2>2. current \in Conn
    BY <1>0, <1>6 DEF BotInv, Conn
  <2> QED
    BY <2>1, <2>2, <1>0, <1>1, <1>3 DEF Over
<1> QED
  BY <1>0, <1>2, <1>3, <1>4, <1>5, <1>6

\* What a step that leaves the connections alone has to show: the rest of the
\* types, and that a stopped bot stays at rest.
LEMMA SameLinks ==
  ASSUME BotInv, UNCHANGED <<current, link, wired>>,
         state' \in {"none", "CONNECTING", "SPAWNED", "DEAD", "DISCONNECTED", "STOPPED"},
         state' = "none" <=> state = "none",
         state' = "STOPPED" => /\ state = "STOPPED"
                               /\ UNCHANGED <<tracked, failures, suspended>>,
         failures' \in 0..MaxRetries \cup {None}, tracked' \in Kind \cup {"none"},
         orphans' \in [Kind -> Nat], recent' \in Nat, deathCount' \in Nat,
         suspended' \in BOOLEAN, ends' \in Nat, respawns' \in Nat, creating' \in Nat,
         commands' \in 0..MaxCommands
  PROVE  BotInv'
<1>1. BotTypeOK'
  BY DEF BotInv, BotTypeOK
<1>2. OneConnection' /\ StoppedIsAtRest'
  BY DEF BotInv, OneConnection, StoppedIsAtRest, Over
<1> QED
  BY <1>1, <1>2 DEF BotInv

\* Every event of a connection keeps the invariant.
LEMMA EventKeeps ==
  ASSUME BotInv, NEW b \in Conn,
         \/ Spawned(b) \/ Died(b) \/ Respawned(b) \/ Kicked(b) \/ Dropped(b) \/ Ended(b)
         \/ \E lost \in BOOLEAN : Errored(b, lost)
  PROVE  BotInv'
<1>0. BotTypeOK /\ StoppedIsAtRest /\ (state = "none" <=> current = 0)
  BY DEF BotInv
<1> DEFINE Linked ==
      /\ link' \in [Conn -> {"none", "connecting", "alive", "dead", "lost", "closed"}]
      /\ wired' \subseteq Conn
      /\ \A d \in Conn : d > current' => link'[d] = "none" /\ d \notin wired'
      /\ OneConnection'
      /\ state = "STOPPED" => wired' = {} /\ Over(link'[current'])
<1> DEFINE Answered ==
      /\ state' \in {"none", "CONNECTING", "SPAWNED", "DEAD", "DISCONNECTED", "STOPPED"}
      /\ state' = "none" <=> state = "none"
      /\ state' = "STOPPED" => state = "STOPPED" /\ UNCHANGED <<tracked, failures, suspended>>
      /\ failures' \in 0..MaxRetries \cup {None} /\ tracked' \in Kind \cup {"none"}
      /\ orphans' \in [Kind -> Nat] /\ recent' \in Nat /\ deathCount' \in Nat
      /\ suspended' \in BOOLEAN /\ ends' \in Nat /\ respawns' \in Nat
      /\ UNCHANGED <<current, creating, commands>>
<1>1. ASSUME Linked, Answered PROVE BotInv'
  <2>1. BotTypeOK'
    BY <1>0, <1>1 DEF BotTypeOK
  <2>2. StoppedIsAtRest'
    BY <1>0, <1>1 DEF StoppedIsAtRest
  <2> QED
    BY <1>0, <1>1, <2>1, <2>2 DEF BotInv
<1>2. b \in wired => state # "none"
  BY <1>0 DEF BotInv, BotTypeOK, Conn, OneConnection
<1>3. ASSUME AttemptReconnect
      PROVE  /\ failures' \in 0..MaxRetries \cup {None} /\ tracked' \in Kind \cup {"none"}
             /\ orphans' \in [Kind -> Nat]
  BY <1>3, AttemptKeeps
<1>4. CASE Spawned(b)
  <2>1. Linked
    BY <1>4, LinkKeeps DEF Spawned, Over, LinkBecomes
  <2>2. state # "STOPPED" \/ b \notin wired
    BY <1>0 DEF StoppedIsAtRest
  <2>3. Answered
    BY <1>0, <1>2, <1>4, <2>2, LimitsAreNat DEF Spawned, BotTypeOK, deathVars, None
  <2> QED
    BY <1>1, <2>1, <2>3
<1>5. CASE Died(b)
  <2>1. Linked
    BY <1>5, LinkKeeps DEF Died, Over
  <2>2. CASE b \in wired /\ state \notin {"DEAD", "STOPPED"}
    <3>1. DieAndRecover
      BY <1>5, <2>2 DEF Died
    <3>2. Answered
      BY <1>0, <1>2, <1>5, <2>2, <3>1, DeathKeeps DEF Died, BotTypeOK
    <3> QED
      BY <1>1, <2>1, <3>2
  <2>3. CASE ~(b \in wired /\ state \notin {"DEAD", "STOPPED"})
    <3>1. Answered
      BY <1>0, <1>5, <2>3 DEF Died, Unaffected, deathVars, BotTypeOK
    <3> QED
      BY <1>1, <2>1, <3>1
  <2> QED
    BY <2>2, <2>3
<1>6. CASE Respawned(b)
  <2>1. wired' \in {wired, wired \ {b}} /\ current' = current /\ link[b] = "dead"
        /\ (LinkBecomes(b, "closed") \/ LinkBecomes(b, "alive"))
    BY <1>6 DEF Respawned
  <2>2. Linked
    BY <2>1, LinkKeeps DEF Over
  <2>3. Answered
    BY <1>0, <1>6 DEF Respawned, deathVars, BotTypeOK
  <2> QED
    BY <1>1, <2>2, <2>3
<1>7. CASE Kicked(b)
  <2>1. Linked
    BY <1>7, LinkKeeps DEF Kicked, Over
  <2>2. Answered
    BY <1>0, <1>3, <1>7 DEF Kicked, Disconnected, Unaffected, deathVars, BotTypeOK
  <2> QED
    BY <1>1, <2>1, <2>2
<1>8. CASE Dropped(b)
  <2>1. Linked
    BY <1>8, LinkKeeps DEF Dropped, Over
  <2>2. Answered
    BY <1>0, <1>8 DEF Dropped, timerVars, BotTypeOK
  <2> QED
    BY <1>1, <2>1, <2>2
<1>9. CASE Ended(b)
  <2>1. Linked
    BY <1>9, LinkKeeps DEF Ended, Over
  <2>2. Answered
    BY <1>0, <1>9 DEF Ended, deathVars, BotTypeOK
  <2> QED
    BY <1>1, <2>1, <2>2
<1>10. ASSUME NEW lost \in BOOLEAN, Errored(b, lost)
       PROVE  BotInv'
  <2>1. Answered
    BY <1>0, <1>3, <1>10 DEF Errored, Disconnected, Unaffected, deathVars, BotTypeOK
  <2>2. CASE lost
    <3>1. Linked
      BY <1>10, <2>2, LinkKeeps DEF Errored, Over
    <3> QED
      BY <1>1, <2>1, <3>1
  <2>3. CASE ~lost
    <3>1. UNCHANGED <<current, link, wired>>
      BY <1>10, <2>3 DEF Errored
    <3>2. Linked
      BY <3>1 DEF BotInv, BotTypeOK, OneConnection, StoppedIsAtRest
    <3> QED
      BY <1>1, <2>1, <3>2
  <2> QED
    BY <2>2, <2>3
<1> QED
  BY <1>4, <1>5, <1>6, <1>7, <1>8, <1>9, <1>10

\* What connect has to be joined with: the types of what it leaves alone.
LEMMA Connected ==
  ASSUME BotInv, Connect, tracked' \in Kind \cup {"none"}, orphans' \in [Kind -> Nat],
         recent' \in Nat, deathCount' \in Nat, suspended' \in BOOLEAN, ends' \in Nat,
         respawns' \in Nat, creating' \in Nat, commands' \in 0..MaxCommands
  PROVE  BotInv'
<1>1. /\ state' = "CONNECTING" /\ current' \in 1..MaxConnects
      /\ link' \in [Conn -> {"none", "connecting", "alive", "dead", "lost", "closed"}]
      /\ wired' \subseteq Conn /\ failures' \in 0..MaxRetries \cup {None}
      /\ \A b \in Conn : b > current' => link'[b] = "none" /\ b \notin wired'
      /\ OneConnection'
  BY ConnectKeeps
<1>2. current' # 0 /\ current' \in 0..MaxConnects
  BY <1>1, LimitsAreNat
<1>3. BotTypeOK'
  BY <1>1, <1>2 DEF BotTypeOK
<1>4. StoppedIsAtRest'
  BY <1>1 DEF StoppedIsAtRest
<1> QED
  BY <1>1, <1>2, <1>3, <1>4 DEF BotInv

\* An orphan that fires is one less, and the timer it untracks one more.
LEMMA OrphansCounted ==
  ASSUME orphans \in [Kind -> Nat], tracked \in Kind \cup {"none"}, NEW k \in Kind, orphans[k] > 0,
         orphans' = [j \in Kind |-> orphans[j] + (IF j = tracked THEN 1 ELSE 0)
                                              - (IF j = k THEN 1 ELSE 0)]
  PROVE  orphans' \in [Kind -> Nat]
<1>1. ASSUME NEW j \in Kind
      PROVE  orphans[j] + (IF j = tracked THEN 1 ELSE 0) - (IF j = k THEN 1 ELSE 0) \in Nat
  <2>1. orphans[j] \in Nat /\ (j = k => orphans[j] > 0)
    OBVIOUS
  <2> QED
    BY <2>1
<1> QED
  BY <1>1

\* Every timer keeps the invariant.
LEMMA TimerKeeps ==
  ASSUME BotInv,
         \/ \E void \in BOOLEAN : EndDue(void)
         \/ RespawnDue \/ TrackedDue \/ CreateDue
         \/ \E k \in Kind : OrphanDue(k)
  PROVE  BotInv'
<1>0. BotTypeOK
  BY DEF BotInv
<1>1. ASSUME NEW k \in Kind, TimerCallback(k), tracked' = "none", orphans' \in [Kind -> Nat]
      PROVE  BotInv'
  <2>1. recent' \in Nat /\ suspended' \in BOOLEAN
        /\ UNCHANGED <<deathCount, respawns, ends, creating, commands>>
    <3>1. UNCHANGED <<deathCount, respawns, ends, creating, commands>>
      BY <1>1 DEF TimerCallback
    <3>2. CASE k = "rapid"
      <4>1. suspended' = FALSE /\ recent' = 0
        BY <1>1, <3>2 DEF TimerCallback
      <4> QED
        BY <3>1, <4>1
    <3>3. CASE k # "rapid"
      <4>1. suspended' = suspended /\ recent' = recent
        BY <1>1, <3>3 DEF TimerCallback
      <4> QED
        BY <1>0, <3>1, <4>1 DEF BotTypeOK
    <3> QED
      BY <3>2, <3>3
  <2>2. CASE Connect
    BY <1>0, <1>1, <2>1, <2>2, Connected DEF BotTypeOK
  <2>3. CASE k # "reconnect" /\ state = "STOPPED" /\ UNCHANGED <<state, current, link, wired, failures>>
    <3>1. tracked = "none" /\ ~suspended /\ failures = None
      BY <2>3 DEF BotInv, StoppedIsAtRest
    <3>2. suspended' = suspended
      BY <1>1, <3>1, <1>0 DEF TimerCallback, BotTypeOK
    <3> QED
      BY <1>0, <1>1, <2>1, <2>3, <3>1, <3>2, SameLinks DEF BotTypeOK
  <2> QED
    BY <1>1, <2>2, <2>3 DEF TimerCallback
<1>2. ASSUME NEW void \in BOOLEAN, EndDue(void)
      PROVE  BotInv'
  <2>1. ends' \in Nat /\ UNCHANGED <<current, link, wired, creating, commands>>
    BY <1>0, <1>2 DEF EndDue, BotTypeOK
  <2>2. CASE Unaffected /\ UNCHANGED deathVars
    BY <1>0, <2>1, <2>2, SameLinks DEF Unaffected, deathVars, BotTypeOK
  <2>3. CASE state \notin {"none", "STOPPED"} /\ DieAndRecover
    BY <1>0, <2>1, <2>3, DeathKeeps, SameLinks DEF BotTypeOK
  <2>4. CASE state \notin {"none", "STOPPED"} /\ Disconnected /\ UNCHANGED deathVars
    BY <1>0, <2>1, <2>4, AttemptKeeps, SameLinks DEF Disconnected, deathVars, BotTypeOK
  <2> QED
    BY <1>2, <2>2, <2>3, <2>4 DEF EndDue
<1>3. CASE RespawnDue
  <2>1. respawns' \in Nat
        /\ UNCHANGED <<state, current, link, wired, recent, deathCount, suspended, ends, creating, commands>>
    BY <1>0, <1>3 DEF RespawnDue, BotTypeOK
  <2>2. CASE state = "DEAD" /\ AttemptReconnect
    BY <1>0, <2>1, <2>2, AttemptKeeps, SameLinks DEF BotTypeOK
  <2>3. CASE UNCHANGED <<failures, tracked, orphans>>
    BY <1>0, <2>1, <2>3, SameLinks DEF BotTypeOK
  <2> QED
    BY <1>3, <2>2, <2>3 DEF RespawnDue
<1>4. CASE TrackedDue
  BY <1>0, <1>1, <1>4 DEF TrackedDue, BotTypeOK
<1>5. CASE CreateDue
  BY <1>0, <1>5, Connected DEF CreateDue, deathVars, BotTypeOK
<1>6. ASSUME NEW k \in Kind, OrphanDue(k)
      PROVE  BotInv'
  <2>1. orphans' \in [Kind -> Nat]
    BY <1>0, <1>6, OrphansCounted DEF OrphanDue, BotTypeOK
  <2> QED
    BY <1>1, <1>6, <2>1 DEF OrphanDue
<1> QED
  BY <1>2, <1>3, <1>4, <1>5, <1>6

\* Every command of the server keeps the invariant.
LEMMA CommandKeeps ==
  ASSUME BotInv, CreateBots \/ StopBots \/ ForceRespawn
  PROVE  BotInv'
<1>0. BotTypeOK /\ (state = "none" <=> current = 0) /\ StoppedIsAtRest
  BY DEF BotInv
<1>1. ASSUME Command PROVE commands' \in 0..MaxCommands
  BY <1>0, <1>1, LimitsAreNat DEF Command, BotTypeOK
<1>2. CASE CreateBots
  BY <1>0, <1>1, <1>2, SameLinks DEF CreateBots, deathVars, BotTypeOK
<1>3. CASE StopBots
  <2>0. /\ commands' \in 0..MaxCommands /\ tracked' = "none" /\ failures' = None
        /\ recent' = 0 /\ suspended' = FALSE
        /\ UNCHANGED <<current, deathCount, orphans, ends, respawns, creating>>
    BY <1>1, <1>3 DEF StopBots
  <2>1. CASE current = 0
    <3>1. UNCHANGED <<state, wired, link>>
      BY <1>3, <2>1 DEF StopBots
    <3> QED
      BY <1>0, <2>0, <2>1, <3>1, SameLinks DEF BotTypeOK
  <2>2. CASE current # 0
    <3>1. state' = "STOPPED" /\ wired' = wired \ {current} /\ LinkBecomes(current, "closed")
      BY <1>3, <2>2 DEF StopBots
    <3>2. current \in Conn /\ current \in 0..MaxConnects
      BY <1>0, <2>2, LimitsAreNat DEF BotTypeOK, Conn
    <3>3. link' = [link EXCEPT ![current] = "closed"]
      BY <3>1 DEF LinkBecomes
    <3>4. link' \in [Conn -> {"none", "connecting", "alive", "dead", "lost", "closed"}]
          /\ link'[current'] = "closed"
          /\ \A b \in Conn : b # current => link'[b] = link[b]
      BY <1>0, <2>0, <3>2, <3>3 DEF BotTypeOK
    <3>5. wired' = {}
      BY <3>1 DEF BotInv, OneConnection, BotTypeOK
    <3>6. BotTypeOK'
      BY <1>0, <2>0, <3>1, <3>2, <3>4, <3>5 DEF BotTypeOK
    <3>7. OneConnection' /\ StoppedIsAtRest'
      BY <2>0, <3>4, <3>5 DEF BotInv, OneConnection, StoppedIsAtRest, Over
    <3>8. \A b \in Conn : b > current' => link'[b] = "none" /\ b \notin wired'
      BY <2>0, <3>2, <3>4, <3>5 DEF BotInv, Conn
    <3> QED
      BY <2>0, <2>2, <3>1, <3>6, <3>7, <3>8 DEF BotInv
  <2> QED
    BY <2>1, <2>2
<1>4. CASE ForceRespawn
  <2>0. /\ commands' \in 0..MaxCommands /\ recent' = 0 /\ suspended' = FALSE
        /\ UNCHANGED <<deathCount, orphans, ends, respawns, creating>>
    BY <1>1, <1>4 DEF ForceRespawn
  <2>1. CASE Writable(current)
    <3>1. state' = "SPAWNED" /\ UNCHANGED <<current, link, wired, failures, tracked>>
      BY <1>4, <2>1 DEF ForceRespawn
    <3>2. state # "none"
      BY <1>0, <2>1 DEF Writable
    <3> QED
      BY <1>0, <2>0, <3>1, <3>2, SameLinks DEF BotTypeOK
  <2>2. CASE UNCHANGED <<state, current, link, wired, failures, tracked>>
    BY <1>0, <2>0, <2>2, SameLinks DEF BotTypeOK, StoppedIsAtRest
  <2>3. CASE Connect /\ tracked' = "none"
    BY <1>0, <2>0, <2>3, Connected DEF BotTypeOK
  <2> QED
    BY <1>4, <2>1, <2>2, <2>3 DEF ForceRespawn
<1> QED
  BY <1>2, <1>3, <1>4

\* Every step keeps the invariant.
LEMMA BotInvariant == BotSpec => []BotInv
<1>1. BotInit => BotInv
  BY InitBot
<1>2. BotInv /\ [BotNext]_botVars => BotInv'
  <2>1. ASSUME BotInv, BotNext PROVE BotInv'
    BY <2>1, EventKeeps, TimerKeeps, CommandKeeps DEF BotNext
  <2>2. ASSUME BotInv, UNCHANGED botVars PROVE BotInv'
    <3>1. BotTypeOK'
      BY <2>2 DEF BotInv, BotTypeOK, botVars, timerVars
    <3>2. OneConnection' /\ StoppedIsAtRest'
      BY <2>2 DEF BotInv, OneConnection, StoppedIsAtRest, botVars, timerVars, Over
    <3> QED
      BY <2>2, <3>1, <3>2 DEF BotInv, botVars
  <2> QED
    BY <2>1, <2>2
<1> QED
  BY <1>1, <1>2, PTL DEF BotSpec

\* The types of the connector hold for every option and limit: the strategy
\* never counts more than maxRetries failures, and no count of timers goes
\* below zero.
THEOREM BotTypeCorrect == BotSpec => []BotTypeOK
BY BotInvariant, PTL DEF BotInv

\* Whatever timers overtake each other, orphans included, a bot has one
\* connection: the connector never logs in beside itself.
THEOREM OneConnectionAtATime == BotSpec => []OneConnection
BY BotInvariant, PTL DEF BotInv

\* A stopped bot is off the server, and nothing tracked, suspended or counted
\* of it is left.
THEOREM StoppedBotRests == BotSpec => []StoppedIsAtRest
BY BotInvariant, PTL DEF BotInv

(***************************************************************************)
(* The safety half of DisconnectedBotReturns.                              *)
(***************************************************************************)

\* Every bot that has an entry and was not stopped has a strategy: without it
\* attemptReconnect would do nothing, and the bot stay DISCONNECTED.
StrategyKept == ReconnectEnabled /\ failures = None => state \in {"none", "STOPPED"}

ReturnIsArmed == ReconnectEnabled /\ state = "DISCONNECTED" => tracked # "none"

ReturnInv == StrategyKept /\ ReturnIsArmed

\* attemptReconnect of a bot that has a strategy tracks a timer.
LEMMA AttemptArms ==
  ASSUME AttemptReconnect, failures # None, MaxRetries \in Nat, failures \in Nat
  PROVE  tracked' # "none" /\ failures' # None
BY DEF AttemptReconnect, None

\* connect makes a strategy, and the bot is connecting.
LEMMA ConnectArms ==
  ASSUME Connect
  PROVE  state' = "CONNECTING" /\ (ReconnectEnabled => failures' # None)
BY DEF Connect, None

\* No step leaves a bot DISCONNECTED without a timer.
LEMMA ReturnStep ==
  ASSUME BotInv, ReturnInv, BotNext
  PROVE  ReturnInv'
<1> SUFFICES ASSUME ReconnectEnabled
             PROVE  /\ failures' = None => state' \in {"none", "STOPPED"}
                    /\ state' = "DISCONNECTED" => tracked' # "none"
  BY DEF ReturnInv, StrategyKept, ReturnIsArmed
<1>0. /\ failures = None => state \in {"none", "STOPPED"}
      /\ state = "DISCONNECTED" => tracked # "none"
      /\ failures \in 0..MaxRetries \cup {None} /\ MaxRetries \in Nat
  BY LimitsAreNat DEF ReturnInv, StrategyKept, ReturnIsArmed, BotInv, BotTypeOK
<1>1. ASSUME Disconnected, state \notin {"none", "STOPPED"}
      PROVE  failures' # None /\ state' = "DISCONNECTED" /\ tracked' # "none"
  BY <1>0, <1>1, AttemptArms DEF Disconnected
<1>2. ASSUME DieAndRecover PROVE state' = "DEAD" /\ failures' = failures
  BY <1>2 DEF DieAndRecover
<1>3. ASSUME NEW b \in Conn, b \in wired PROVE state \notin {"none", "STOPPED"}
  <2>1. current \in Nat
    BY LimitsAreNat DEF BotInv, BotTypeOK
  <2> QED
    BY <2>1, <1>3 DEF BotInv, StoppedIsAtRest, Conn
<1>4. ASSUME NEW b \in Conn,
             \/ Spawned(b) \/ Died(b) \/ Respawned(b) \/ Kicked(b) \/ Dropped(b) \/ Ended(b)
             \/ \E lost \in BOOLEAN : Errored(b, lost)
      PROVE  /\ failures' = None => state' \in {"none", "STOPPED"}
             /\ state' = "DISCONNECTED" => tracked' # "none"
  <2>1. CASE Spawned(b)
    BY <1>0, <1>3, <2>1 DEF Spawned, None
  <2>2. CASE Died(b)
    BY <1>0, <1>2, <1>3, <2>2 DEF Died, Unaffected
  <2>3. CASE Respawned(b)
    BY <1>0, <2>3 DEF Respawned
  <2>4. CASE Kicked(b) \/ \E lost \in BOOLEAN : Errored(b, lost)
    BY <1>0, <1>1, <2>4 DEF Kicked, Errored, Unaffected
  <2>5. CASE Dropped(b) \/ Ended(b)
    BY <1>0, <2>5 DEF Dropped, Ended, timerVars
  <2> QED
    BY <1>4, <2>1, <2>2, <2>3, <2>4, <2>5
<1>5. CASE \E void \in BOOLEAN : EndDue(void)
  BY <1>0, <1>1, <1>2, <1>5 DEF EndDue, Unaffected
<1>6. CASE RespawnDue
  <2>1. UNCHANGED state
    BY <1>6 DEF RespawnDue
  <2>2. CASE state = "DEAD" /\ AttemptReconnect
    BY <1>0, <2>1, <2>2, AttemptArms
  <2>3. CASE UNCHANGED <<failures, tracked, orphans>>
    BY <1>0, <2>1, <2>3
  <2> QED
    BY <1>6, <2>2, <2>3 DEF RespawnDue
<1>7. CASE TrackedDue \/ \E k \in Kind : OrphanDue(k)
  <2>1. PICK k \in Kind : TimerCallback(k)
    BY <1>7 DEF TrackedDue, OrphanDue, BotInv, BotTypeOK
  <2>2. CASE Connect
    BY <2>2, ConnectArms
  <2>3. CASE ~Connect
    BY <1>0, <2>1, <2>3 DEF TimerCallback
  <2> QED
    BY <2>2, <2>3
<1>8. CASE CreateDue
  BY <1>8, ConnectArms DEF CreateDue
<1>9. CASE CreateBots
  BY <1>0, <1>9 DEF CreateBots
<1>10. CASE StopBots
  BY <1>10 DEF StopBots, BotInv
<1>11. CASE ForceRespawn
  <2>1. CASE Writable(current)
    <3>1. state' = "SPAWNED" /\ failures' = failures /\ current # 0
      BY <1>11, <2>1 DEF ForceRespawn, Writable
    <3>2. state \notin {"none", "STOPPED"}
      BY <2>1, <3>1 DEF Writable, BotInv, StoppedIsAtRest, Over
    <3> QED
      BY <1>0, <3>1, <3>2
  <2>2. CASE Connect
    BY <2>2, ConnectArms
  <2>3. CASE UNCHANGED <<state, current, link, wired, failures, tracked>>
    BY <1>0, <2>3
  <2> QED
    BY <1>11, <2>1, <2>2, <2>3 DEF ForceRespawn
<1> QED
  BY <1>4, <1>5, <1>6, <1>7, <1>8, <1>9, <1>10, <1>11 DEF BotNext

\* A bot that lost its connection has a reconnect timer armed and tracked,
\* whatever kicks, errors and timers came before: it waits for nothing else.
THEOREM DisconnectedBotIsDue == BotSpec => []ReturnIsArmed
<1>1. BotInit => ReturnInv
  BY DEF BotInit, ReturnInv, StrategyKept, ReturnIsArmed
<1>2. BotInv /\ ReturnInv /\ [BotNext]_botVars => ReturnInv'
  <2>1. ASSUME ReturnInv, UNCHANGED botVars PROVE ReturnInv'
    BY <2>1 DEF ReturnInv, StrategyKept, ReturnIsArmed, botVars, timerVars
  <2> QED
    BY <2>1, ReturnStep
<1>3. ReturnInv => ReturnIsArmed
  BY DEF ReturnInv
<1> QED
  BY <1>1, <1>2, <1>3, BotInvariant, PTL DEF BotSpec
=============================================================================
