---------------------------- MODULE BotConnector ----------------------------
(* BotConnector of the bot worker, for one bot name: the connections it    *)
(* makes one after the other, the listeners it wires to them, and every    *)
(* timer it arms.  Only the latest reconnect timer is tracked in           *)
(* reconnectTimers; a timer whose entry was overwritten or removed stays   *)
(* armed (an orphan), and the delayed end, respawn and creation timers     *)
(* were never tracked.                                                     *)
(*                                                                         *)
(* Timers are not timed: any armed timer may fire next, which covers every *)
(* delay, jitter and backoff.  DEBUGGING, which every guard treats as      *)
(* SPAWNED, is not told apart from it.                                     *)
EXTENDS Integers, FiniteSets

CONSTANTS
  ReconnectEnabled, AutoRespawn,   \* ConnectOptions
  MaxRetries,                      \* reconnectMaxRetries
  RapidDeathMax,                   \* RAPID_DEATH_MAX
  MaxConnects, MaxDeaths, MaxCommands   \* bounds

ASSUME OptionsAreBoolean == {ReconnectEnabled, AutoRespawn} \subseteq BOOLEAN
ASSUME LimitsAreNat == /\ {MaxRetries, MaxConnects, MaxDeaths, MaxCommands} \subseteq Nat
                       /\ RapidDeathMax \in Nat \ {0}

VARIABLES
  state,      \* registry.get(name).state, "none" without an entry
  current,    \* the connection registry.get(name).bot is, counted from 1
  link,       \* each connection, the player's life in the game included
  wired,      \* connections that have this connector's listeners
  failures,   \* the reconnect strategy's counter, None without a strategy
  recent,     \* deathTimestamps within the window when last filtered
  deathCount, \* info.deathCount
  suspended,  \* autoRespawnSuspended
  tracked,    \* the reconnect timer in reconnectTimers, by what it does
  orphans,    \* how many untracked reconnect timers of each kind are armed
  ends,       \* armed 500 ms timers of 'end' events
  respawns,   \* armed respawn timers
  creating,   \* staggered creations not yet made
  commands    \* commands given by the server

None == -1   \* no strategy

deathVars == <<recent, deathCount, suspended, respawns>>
timerVars == <<tracked, orphans, ends, respawns, creating>>
botVars == <<state, current, link, wired, failures, recent, deathCount, suspended,
             timerVars, commands>>

Kind == {"reconnect", "exhausted", "rapid"}
Conn == 1..MaxConnects

BotInit ==
  /\ state = "none" /\ current = 0
  /\ link = [b \in Conn |-> "none"]
  /\ wired = {}
  /\ failures = None /\ recent = 0 /\ deathCount = 0 /\ suspended = FALSE
  /\ tracked = "none" /\ orphans = [k \in Kind |-> 0]
  /\ ends = 0 /\ respawns = 0 /\ creating = 0
  /\ commands = 0

(***************************************************************************)
(* Helpers of the class.                                                   *)
(***************************************************************************)
Over(c) == c \in {"lost", "closed"}
Writable(b) == b # 0 /\ link[b] \in {"alive", "dead"}

\* Mutant: the previous connection keeps its listeners and is not quit.
CloseNothing(b) == wired' = wired \cup {b + 1} /\ link' = [link EXCEPT ![b + 1] = "connecting"]

\* Remove the listeners of connection b and quit it; wire the next one.
ReplaceConnection(b) ==
  /\ wired' = (wired \ {b}) \cup {b + 1}
  /\ link' = [c \in Conn |-> IF c = b THEN "closed"
                             ELSE IF c = b + 1 THEN "connecting" ELSE link[c]]

\* connect, but for the reconnect timer it clears.
Connect ==
  /\ current < MaxConnects
  /\ current' = current + 1
  /\ ReplaceConnection(current)
  /\ state' = "CONNECTING"
  /\ failures' = IF ReconnectEnabled THEN 0 ELSE failures

\* Mutant: one retry too many.
AttemptReconnectOnceMore ==
  IF failures = None
  THEN UNCHANGED <<failures, tracked, orphans>>
  ELSE IF failures > MaxRetries
  THEN tracked' = "exhausted" /\ UNCHANGED <<failures, orphans>>
  ELSE /\ failures' = failures + 1
       /\ tracked' = "reconnect"
       /\ orphans' = IF tracked = "none" THEN orphans ELSE [orphans EXCEPT ![tracked] = @ + 1]

\* attemptReconnect: the timer of a retry is armed over the one that is
\* tracked, that of the long cooldown instead of it.
AttemptReconnect ==
  IF failures = None
  THEN UNCHANGED <<failures, tracked, orphans>>
  ELSE IF failures >= MaxRetries
  THEN tracked' = "exhausted" /\ UNCHANGED <<failures, orphans>>
  ELSE /\ failures' = failures + 1
       /\ tracked' = "reconnect"
       /\ orphans' = IF tracked = "none" THEN orphans ELSE [orphans EXCEPT ![tracked] = @ + 1]

\* The bot is dead: handleDeathRecovery.  Deaths that have left the window
\* are filtered out now.  Too many suspend the respawn for a long cooldown.
DieAndRecover ==
  /\ state' = "DEAD"
  /\ deathCount' = deathCount + 1
  /\ \E n \in 1..(recent + 1) :
       /\ recent' = n
       /\ IF n >= RapidDeathMax
          THEN /\ suspended' = TRUE
               /\ tracked' = "rapid"
               /\ UNCHANGED respawns
          ELSE /\ respawns' = IF AutoRespawn /\ ~suspended THEN respawns + 1 ELSE respawns
               /\ UNCHANGED <<suspended, tracked>>
  /\ UNCHANGED <<failures, orphans>>

Disconnected == state' = "DISCONNECTED" /\ AttemptReconnect

Unaffected == UNCHANGED <<state, failures, tracked, orphans>>

(***************************************************************************)
(* What the game server and the network do, and the listeners' answer.     *)
(***************************************************************************)
LinkBecomes(b, c) == link' = [link EXCEPT ![b] = c]

\* 'spawn', listened to once.
Spawned(b) ==
  /\ link[b] = "connecting"
  /\ LinkBecomes(b, "alive")
  /\ IF b \in wired
     THEN /\ state' = "SPAWNED"
          /\ failures' = IF failures = None THEN None ELSE 0
     ELSE UNCHANGED <<state, failures>>
  /\ UNCHANGED <<current, wired, deathVars, tracked, orphans, ends, creating, commands>>

\* 'health' at 0 with the 'death' that follows it.
Died(b) ==
  /\ deathCount < MaxDeaths
  /\ link[b] = "alive"
  /\ LinkBecomes(b, "dead")
  /\ IF b \in wired /\ state \notin {"DEAD", "STOPPED"}
     THEN DieAndRecover
     ELSE Unaffected /\ UNCHANGED deathVars
  /\ UNCHANGED <<current, wired, ends, creating, commands>>

\* 'respawn': a bot whose respawn is suspended is made to quit.
Respawned(b) ==
  /\ link[b] = "dead"
  /\ IF b \in wired /\ state = "DEAD" /\ suspended
     THEN /\ LinkBecomes(b, "closed")
          /\ wired' = wired \ {b}
          /\ UNCHANGED state
     ELSE /\ LinkBecomes(b, "alive")
          /\ state' = IF b \in wired /\ state = "DEAD" THEN "SPAWNED" ELSE state
          /\ UNCHANGED wired
  /\ UNCHANGED <<current, failures, deathVars, tracked, orphans, ends, creating, commands>>

\* Mutant: the reconnect is left to the 'end' that follows.
KickedLeftToEnd(b) ==
  /\ link[b] \in {"connecting", "alive", "dead"}
  /\ LinkBecomes(b, "lost")
  /\ state' = IF b \in wired /\ state \notin {"none", "DEAD", "STOPPED"} THEN "DISCONNECTED" ELSE state
  /\ UNCHANGED <<current, wired, failures, deathVars, tracked, orphans, ends, creating, commands>>

\* 'kicked'.  A bot that is already DISCONNECTED attempts once more.
Kicked(b) ==
  /\ link[b] \in {"connecting", "alive", "dead"}
  /\ LinkBecomes(b, "lost")
  /\ IF b \in wired /\ state \notin {"none", "DEAD", "STOPPED"}
     THEN Disconnected
     ELSE Unaffected
  /\ UNCHANGED <<current, wired, deathVars, ends, creating, commands>>

\* 'error' of the bot or of its client, which may or may not cost the link.
Errored(b, lost) ==
  /\ link[b] \in {"connecting", "alive", "dead"}
  /\ IF lost THEN LinkBecomes(b, "lost") ELSE UNCHANGED link
  /\ IF b \in wired /\ state \notin {"none", "STOPPED", "DISCONNECTED", "DEAD"}
     THEN Disconnected
     ELSE Unaffected
  /\ UNCHANGED <<current, wired, deathVars, ends, creating, commands>>

Dropped(b) ==
  /\ link[b] \in {"connecting", "alive", "dead"}
  /\ LinkBecomes(b, "lost")
  /\ UNCHANGED <<state, current, wired, failures, recent, deathCount, suspended, timerVars, commands>>

\* 'end' of a lost connection arms a timer that names the bot only.
Ended(b) ==
  /\ link[b] = "lost"
  /\ LinkBecomes(b, "closed")
  /\ ends' = IF b \in wired THEN ends + 1 ELSE ends
  /\ UNCHANGED <<state, current, wired, failures, deathVars, tracked, orphans, creating, commands>>

(***************************************************************************)
(* Timers                                                                  *)
(***************************************************************************)

\* The 500 ms after an 'end' are over, of this connection or of an earlier one.
EndDue(void) ==
  /\ ends > 0
  /\ ends' = ends - 1
  /\ IF state \in {"none", "STOPPED", "DISCONNECTED", "DEAD"}
     THEN Unaffected /\ UNCHANGED deathVars
     ELSE IF void \/ recent > 0
     THEN DieAndRecover
     ELSE Disconnected /\ UNCHANGED deathVars
  /\ UNCHANGED <<current, link, wired, creating, commands>>

\* Mutant: a respawn is attempted in the game although the link is gone.
RespawnDueInGame ==
  /\ respawns > 0
  /\ respawns' = respawns - 1
  /\ UNCHANGED <<state, current, link, wired, failures, recent, deathCount, suspended,
                 tracked, orphans, ends, creating, commands>>

\* The respawn timer: respawn in the game if the link is up, else reconnect.
RespawnDue ==
  /\ respawns > 0
  /\ respawns' = respawns - 1
  /\ IF ~suspended /\ state = "DEAD" /\ ~Writable(current)
     THEN AttemptReconnect
     ELSE UNCHANGED <<failures, tracked, orphans>>
  /\ UNCHANGED <<state, current, link, wired, recent, deathCount, suspended, ends, creating, commands>>

\* What the callback of a reconnect timer does once its entry is gone.
TimerCallback(k) ==
  /\ IF k = "rapid" THEN suspended' = FALSE /\ recent' = 0 ELSE UNCHANGED <<suspended, recent>>
  /\ IF k = "reconnect" \/ state # "STOPPED"
     THEN Connect
     ELSE UNCHANGED <<state, current, link, wired, failures>>
  /\ UNCHANGED <<deathCount, respawns, ends, creating, commands>>

TrackedDue ==
  /\ tracked # "none"
  /\ TimerCallback(tracked)
  /\ tracked' = "none"
  /\ UNCHANGED orphans

\* An orphan removes the entry of the tracked timer, which becomes an orphan.
OrphanDue(k) ==
  /\ orphans[k] > 0
  /\ TimerCallback(k)
  /\ tracked' = "none"
  /\ orphans' = [j \in Kind |-> orphans[j] + (IF j = tracked THEN 1 ELSE 0)
                                           - (IF j = k THEN 1 ELSE 0)]

\* The staggered creation: connect, which clears the tracked timer.
CreateDue ==
  /\ creating > 0
  /\ creating' = creating - 1
  /\ Connect
  /\ tracked' = "none"
  /\ UNCHANGED <<deathVars, orphans, ends, commands>>

(***************************************************************************)
(* Commands of the server.                                                 *)
(***************************************************************************)
Command == commands < MaxCommands /\ commands' = commands + 1

CreateBots ==
  /\ Command
  /\ creating' = creating + 1
  /\ UNCHANGED <<state, current, link, wired, failures, deathVars, tracked, orphans, ends>>

\* Mutant: the reconnect timer is left armed.
StopBotsKeepsTimer ==
  /\ Command
  /\ failures' = None /\ recent' = 0 /\ suspended' = FALSE
  /\ IF current # 0
     THEN /\ state' = "STOPPED"
          /\ wired' = wired \ {current}
          /\ LinkBecomes(current, "closed")
     ELSE UNCHANGED <<state, wired, link>>
  /\ UNCHANGED <<current, deathCount, timerVars>>

\* disconnect: nothing to do for a bot that has not been created yet.
StopBots ==
  /\ Command
  /\ tracked' = "none"
  /\ failures' = None /\ recent' = 0 /\ suspended' = FALSE
  /\ IF current # 0
     THEN /\ state' = "STOPPED"
          /\ wired' = wired \ {current}
          /\ LinkBecomes(current, "closed")
     ELSE UNCHANGED <<state, wired, link>>
  /\ UNCHANGED <<current, deathCount, orphans, ends, respawns, creating>>

\* forceRespawn: in the game if the link is up; else connect with the stored
\* options, which a stopped bot has no more.
ForceRespawn ==
  /\ Command
  /\ suspended' = FALSE /\ recent' = 0
  /\ IF Writable(current)
     THEN state' = "SPAWNED" /\ UNCHANGED <<current, link, wired, failures, tracked>>
     ELSE IF state \in {"none", "STOPPED"}
     THEN UNCHANGED <<state, current, link, wired, failures, tracked>>
     ELSE Connect /\ tracked' = "none"
  /\ UNCHANGED <<deathCount, orphans, ends, respawns, creating>>

BotNext ==
  \/ \E b \in Conn :
       \/ Spawned(b) \/ Died(b) \/ Respawned(b) \/ Kicked(b) \/ Dropped(b) \/ Ended(b)
       \/ \E lost \in BOOLEAN : Errored(b, lost)
  \/ \E void \in BOOLEAN : EndDue(void)
  \/ RespawnDue \/ TrackedDue \/ CreateDue
  \/ \E k \in Kind : OrphanDue(k)
  \/ CreateBots \/ StopBots \/ ForceRespawn

BotSpec == BotInit /\ [][BotNext]_botVars

\* Armed timers fire, a lost connection ends, and a dead player on an open
\* connection is respawned by the game.
BotFairness ==
  /\ WF_botVars(\E void \in BOOLEAN : EndDue(void))
  /\ WF_botVars(RespawnDue)
  /\ WF_botVars(TrackedDue)
  /\ \A k \in Kind : WF_botVars(OrphanDue(k))
  /\ WF_botVars(CreateDue)
  /\ \A b \in Conn : WF_botVars(Ended(b)) /\ WF_botVars(Respawned(b))

FairBotSpec == BotSpec /\ BotFairness

(***************************************************************************)
(* Properties                                                              *)
(***************************************************************************)

\* The type invariant.
BotTypeOK ==
  /\ state \in {"none", "CONNECTING", "SPAWNED", "DEAD", "DISCONNECTED", "STOPPED"}
  /\ current \in 0..MaxConnects
  /\ link \in [Conn -> {"none", "connecting", "alive", "dead", "lost", "closed"}]
  /\ wired \subseteq Conn
  /\ failures \in 0..MaxRetries \cup {None}
  /\ recent \in Nat /\ deathCount \in Nat /\ suspended \in BOOLEAN
  /\ tracked \in Kind \cup {"none"}
  /\ orphans \in [Kind -> Nat]
  /\ ends \in Nat /\ respawns \in Nat /\ creating \in Nat /\ commands \in 0..MaxCommands

\* A bot never logs in beside itself: whatever timers, kicks and commands do,
\* only the latest connection may be up or have listeners.
OneConnection ==
  \A b \in Conn : b \in wired \/ link[b] \in {"connecting", "alive", "dead"} => b = current

\* A stopped bot is at rest: it is off the server and nothing tracked,
\* suspended or remembered of it is left to act on it.
StoppedIsAtRest ==
  state = "STOPPED" =>
    /\ wired = {} /\ Over(link[current])
    /\ tracked = "none" /\ failures = None /\ ~suspended

AtBound == current = MaxConnects

\* A bot that lost its connection gets another or is stopped, however often
\* retries fail and however its timers overtake each other.
DisconnectedBotReturns ==
  (ReconnectEnabled /\ state = "DISCONNECTED") ~> (state # "DISCONNECTED" \/ AtBound)

\* A dead bot whose connection goes down before its respawn timer fires is
\* reconnected, unless its respawn has been suspended.
DeadBotReconnects ==
  (ReconnectEnabled /\ state = "DEAD" /\ ~suspended /\ respawns > 0 /\ Over(link[current]))
    ~> (state # "DEAD" \/ AtBound)

\* A dead bot comes back or is stopped: "Skip if dead - death handler manages
\* its own recovery".
DeadBotRecovers ==
  (ReconnectEnabled /\ AutoRespawn /\ state = "DEAD") ~> (state # "DEAD" \/ AtBound)
=============================================================================
