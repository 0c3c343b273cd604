------------------------- MODULE PluginBridgeProofs -------------------------
(* Proofs about the plugin bridge, for any bridges, connections, requests, *)
(* snapshots and faults.                                                   *)
EXTENDS PluginBridge, SequenceTheorems, TLAPS

(***************************************************************************)
(* Streams.                                                                *)
(***************************************************************************)

\* A message of type t is in a stream.
Has(s, t) == \E i \in 1..Len(s) : s[i].type = t

\* Every command in a stream is behind the answer that accepts the handshake.
Behind(s) == \A i \in 1..Len(s) :
               s[i].type = "command" => \E j \in 1..Len(s) : j < i /\ s[j].type = "accepted"

LEMMA HasNone == \A t : ~Has(<<>>, t)
BY DEF Has

\* What is in a stream after more was sent.
LEMMA HasMore ==
  ASSUME NEW S, NEW s \in Seq(S), NEW e \in Seq(S), NEW t
  PROVE  Has(s \o e, t) <=> Has(s, t) \/ Has(e, t)
<1>1. /\ Len(s) \in Nat /\ Len(e) \in Nat /\ Len(s \o e) = Len(s) + Len(e)
      /\ \A i \in 1 .. Len(s) + Len(e) :
           (s \o e)[i] = IF i <= Len(s) THEN s[i] ELSE e[i - Len(s)]
  BY ConcatProperties, LenProperties
<1>2. ASSUME Has(s \o e, t) PROVE Has(s, t) \/ Has(e, t)
  <2>1. PICK i \in 1 .. Len(s) + Len(e) : (s \o e)[i].type = t
    BY <1>1, <1>2 DEF Has
  <2>2. CASE i <= Len(s)
    BY <1>1, <2>1, <2>2 DEF Has
  <2>3. CASE ~ (i <= Len(s))
    <3>1. i - Len(s) \in 1..Len(e) /\ e[i - Len(s)].type = t
      BY <1>1, <2>1, <2>3
    <3> QED  BY <3>1 DEF Has
  <2> QED  BY <2>2, <2>3
<1>3. ASSUME Has(s, t) PROVE Has(s \o e, t)
  <2>1. PICK i \in 1..Len(s) : s[i].type = t
    BY <1>3 DEF Has
  <2>2. i \in 1..Len(s \o e) /\ (s \o e)[i] = s[i]
    BY <1>1, <2>1
  <2> QED  BY <2>1, <2>2 DEF Has
<1>4. ASSUME Has(e, t) PROVE Has(s \o e, t)
  <2>1. PICK i \in 1..Len(e) : e[i].type = t
    BY <1>4 DEF Has
  <2>2. i + Len(s) \in 1..Len(s \o e) /\ (s \o e)[i + Len(s)] = e[i]
    BY <1>1, <2>1
  <2> QED  BY <2>1, <2>2 DEF Has
<1> QED  BY <1>2, <1>3, <1>4

\* What is in a stream is at its head or in its tail.
LEMMA HasHead ==
  ASSUME NEW S, NEW s \in Seq(S), s # <<>>, NEW t
  PROVE  Has(s, t) <=> Head(s).type = t \/ Has(Tail(s), t)
<1>1. /\ Len(s) \in Nat \ {0} /\ Len(Tail(s)) = Len(s) - 1 /\ Head(s) = s[1]
      /\ \A i \in 1 .. Len(Tail(s)) : Tail(s)[i] = s[i + 1]
  BY HeadTailProperties, EmptySeq
<1>2. ASSUME Has(s, t), Head(s).type # t PROVE Has(Tail(s), t)
  <2>1. PICK i \in 1..Len(s) : s[i].type = t
    BY <1>2 DEF Has
  <2>2. i - 1 \in 1..Len(Tail(s)) /\ Tail(s)[i - 1] = s[i]
    BY <1>1, <1>2, <2>1
  <2> QED  BY <2>1, <2>2 DEF Has
<1>3. ASSUME Has(Tail(s), t) PROVE Has(s, t)
  <2>1. PICK i \in 1..Len(Tail(s)) : Tail(s)[i].type = t
    BY <1>3 DEF Has
  <2>2. i + 1 \in 1..Len(s) /\ s[i + 1] = Tail(s)[i]
    BY <1>1, <2>1
  <2> QED  BY <2>1, <2>2 DEF Has
<1>4. ASSUME Head(s).type = t PROVE Has(s, t)
  BY <1>1, <1>4 DEF Has
<1> QED  BY <1>2, <1>3, <1>4

\* Commands stay behind the answer while something else is read, ...
LEMMA BehindTail ==
  ASSUME NEW S, NEW s \in Seq(S), s # <<>>, Head(s).type # "accepted", Behind(s)
  PROVE  Behind(Tail(s))
<1>1. /\ Len(s) \in Nat \ {0} /\ Len(Tail(s)) = Len(s) - 1 /\ Head(s) = s[1]
      /\ \A i \in 1 .. Len(Tail(s)) : Tail(s)[i] = s[i + 1]
  BY HeadTailProperties, EmptySeq
<1>2. ASSUME NEW i \in 1..Len(Tail(s)), Tail(s)[i].type = "command"
      PROVE  \E j \in 1..Len(Tail(s)) : j < i /\ Tail(s)[j].type = "accepted"
  <2>1. i + 1 \in 1..Len(s) /\ s[i + 1].type = "command"
    BY <1>1, <1>2
  <2>2. PICK j \in 1..Len(s) : j < i + 1 /\ s[j].type = "accepted"
    BY <2>1 DEF Behind
  <2>3. j # 1
    BY <1>1, <2>2
  <2>4. j - 1 \in 1..Len(Tail(s)) /\ j - 1 < i /\ Tail(s)[j - 1].type = "accepted"
    BY <1>1, <2>2, <2>3
  <2> QED  BY <2>4
<1> QED  BY <1>2 DEF Behind

\* ... and none is at the head.
LEMMA BehindHead ==
  ASSUME NEW S, NEW s \in Seq(S), s # <<>>, Behind(s)
  PROVE  Head(s).type # "command"
<1>1. Len(s) \in Nat \ {0} /\ Head(s) = s[1]
  BY EmptySeq
<1> QED  BY <1>1 DEF Behind

LEMMA BehindNone == \A s : ~Has(s, "command") => Behind(s)
BY DEF Behind, Has

\* A command is sent behind the answer, or what is sent holds no command.
LEMMA BehindMore ==
  ASSUME NEW S, NEW s \in Seq(S), NEW e \in Seq(S), Behind(s),
         Has(s, "accepted") \/ ~Has(e, "command")
  PROVE  Behind(s \o e)
<1>1. /\ Len(s) \in Nat /\ Len(e) \in Nat /\ Len(s \o e) = Len(s) + Len(e)
      /\ \A i \in 1 .. Len(s) + Len(e) :
           (s \o e)[i] = IF i <= Len(s) THEN s[i] ELSE e[i - Len(s)]
  BY ConcatProperties, LenProperties
<1>2. ASSUME NEW i \in 1..Len(s \o e), (s \o e)[i].type = "command"
      PROVE  \E j \in 1..Len(s \o e) : j < i /\ (s \o e)[j].type = "accepted"
  <2>1. CASE i <= Len(s)
    <3>1. PICK j \in 1..Len(s) : j < i /\ s[j].type = "accepted"
      BY <1>1, <1>2, <2>1 DEF Behind
    <3>2. j \in 1..Len(s \o e) /\ (s \o e)[j] = s[j]
      BY <1>1, <3>1
    <3> QED  BY <3>1, <3>2
  <2>2. CASE ~ (i <= Len(s))
    <3>1. i - Len(s) \in 1..Len(e) /\ e[i - Len(s)].type = "command"
      BY <1>1, <1>2, <2>2
    <3>2. PICK j \in 1..Len(s) : s[j].type = "accepted"
      BY <3>1 DEF Has
    <3>3. j \in 1..Len(s \o e) /\ (s \o e)[j] = s[j] /\ j < i
      BY <1>1, <2>2, <3>2
    <3> QED  BY <3>2, <3>3
  <2> QED  BY <2>1, <2>2
<1> QED  BY <1>2 DEF Behind

\* Only the first message of a stream may be of type t.
OnlyFirst(s, t) == \A i \in 1..Len(s) : s[i].type = t => i = 1

LEMMA OnlyFirstMore ==
  ASSUME NEW S, NEW s \in Seq(S), NEW e \in Seq(S), NEW t, OnlyFirst(s, t), ~Has(e, t)
  PROVE  OnlyFirst(s \o e, t)
<1>1. /\ Len(s) \in Nat /\ Len(e) \in Nat /\ Len(s \o e) = Len(s) + Len(e)
      /\ \A i \in 1 .. Len(s) + Len(e) :
           (s \o e)[i] = IF i <= Len(s) THEN s[i] ELSE e[i - Len(s)]
  BY ConcatProperties, LenProperties
<1>2. ASSUME NEW i \in 1 .. Len(s) + Len(e), (s \o e)[i].type = t PROVE i = 1
  <2>1. CASE i <= Len(s)
    BY <1>1, <1>2, <2>1 DEF OnlyFirst
  <2>2. CASE ~ (i <= Len(s))
    <3>1. i - Len(s) \in 1..Len(e) /\ e[i - Len(s)].type = t
      BY <1>1, <1>2, <2>2
    <3> QED  BY <3>1 DEF Has
  <2> QED  BY <2>1, <2>2
<1> QED  BY <1>1, <1>2 DEF OnlyFirst

LEMMA OnlyFirstTail ==
  ASSUME NEW S, NEW s \in Seq(S), s # <<>>, NEW t, OnlyFirst(s, t)
  PROVE  ~Has(Tail(s), t)
<1>1. /\ Len(s) \in Nat \ {0} /\ Len(Tail(s)) = Len(s) - 1
      /\ \A i \in 1 .. Len(Tail(s)) : Tail(s)[i] = s[i + 1]
  BY HeadTailProperties, EmptySeq
<1>2. ASSUME NEW i \in 1..Len(Tail(s)), Tail(s)[i].type = t PROVE FALSE
  <2>1. i + 1 \in 1..Len(s) /\ s[i + 1].type = t /\ i + 1 # 1
    BY <1>1, <1>2
  <2> QED  BY <2>1 DEF OnlyFirst
<1> QED  BY <1>2 DEF Has

LEMMA OnlyFirstShort ==
  ASSUME NEW t PROVE OnlyFirst(<<>>, t) /\ \A m : OnlyFirst(<<m>>, t)
BY DEF OnlyFirst

LEMMA HasOne == ASSUME NEW m, NEW t PROVE Has(<<m>>, t) <=> m.type = t
BY DEF Has

LEMMA HasTwo == ASSUME NEW m, NEW n, NEW t PROVE Has(<<m, n>>, t) <=> m.type = t \/ n.type = t
<1>1. /\ Len(<<m, n>>) = 2 /\ <<m, n>>[1] = m /\ <<m, n>>[2] = n
  OBVIOUS
<1>2. 1..2 = {1, 2}  OBVIOUS
<1> QED  BY <1>1, <1>2 DEF Has

(***************************************************************************)
(* Types, and who is whose client.                                         *)
(***************************************************************************)
LEMMA HostMessages ==
  /\ <<>> \in Seq(HostMsg)
  /\ <<Msg("close")>> \in Seq(HostMsg) /\ <<Msg("handshake")>> \in Seq(HostMsg)
  /\ \A r \in Request : <<ResultMsg(r)>> \in Seq(HostMsg)
  /\ \A n \in Nat : <<SnapshotMsg(n)>> \in Seq(HostMsg)
  /\ \A m \in HostMsg : m.type = "snapshot" => m.number \in Nat
<1>1. /\ Msg("close") \in HostMsg /\ Msg("handshake") \in HostMsg
      /\ \A r \in Request : ResultMsg(r) \in HostMsg
      /\ \A n \in Nat : SnapshotMsg(n) \in HostMsg
      /\ \A m \in HostMsg : m.type = "snapshot" => m.number \in Nat
  BY DEF HostMsg, Msg, ResultMsg, SnapshotMsg
<1> QED  BY <1>1

LEMMA ProbeMessages ==
  /\ <<>> \in Seq(ProbeMsg)
  /\ \A t \in {"accept", "accepted", "refused", "close", "reset"} : <<Msg(t)>> \in Seq(ProbeMsg)
  /\ <<Msg("refused"), Msg("close")>> \in Seq(ProbeMsg)
  /\ \A r \in Request : <<CommandMsg(r)>> \in Seq(ProbeMsg)
  /\ \A m \in ProbeMsg : m.type = "command" => m.of \in Request
<1>1. /\ \A t \in {"accept", "accepted", "refused", "close", "reset"} : Msg(t) \in ProbeMsg
      /\ \A r \in Request : CommandMsg(r) \in ProbeMsg
      /\ \A m \in ProbeMsg : m.type = "command" => m.of \in Request
  BY DEF ProbeMsg, Msg, CommandMsg
<1> QED  BY <1>1

\* A stream is one of messages after more was sent, ...
LEMMA Sends ==
  ASSUME BridgeTypeOK, NEW c \in Conn
  PROVE  /\ \A ms \in Seq(HostMsg) : SentToHost(c, ms) \in Seq(HostMsg)
         /\ \A ms \in Seq(ProbeMsg) : SentToProbe(c, ms) \in Seq(ProbeMsg)
BY ConcatProperties DEF BridgeTypeOK, SentToHost, SentToProbe

\* ... and after one was read.
LEMMA Reads ==
  ASSUME BridgeTypeOK, NEW c \in Conn
  PROVE  /\ toHost[c] # <<>> => Head(toHost[c]) \in HostMsg /\ Tail(toHost[c]) \in Seq(HostMsg)
         /\ toProbe[c] # <<>> => Head(toProbe[c]) \in ProbeMsg /\ Tail(toProbe[c]) \in Seq(ProbeMsg)
BY HeadTailProperties DEF BridgeTypeOK

\* A connection that is up and the client of its bridge are each other's; a
\* bridge that has one has no reconnect to come, and one that is not active has
\* no timer; what was sent to a closed end is gone.
ClientLinks ==
  /\ \A c \in Conn : IsUp(c) => owner[c] \in Bridge /\ client[owner[c]] = c
  /\ \A b \in Bridge : client[b] # NoConn => IsUp(client[b]) /\ owner[client[b]] = b
  /\ \A b \in Bridge : (timers[b] # 0 \/ dialling[b]) => client[b] = NoConn
  /\ \A b \in Bridge : timers[b] # 0 => timers[b] = 1 /\ ~dialling[b] /\ ~stopped[b]
  /\ \A b \in Bridge : stopped[b] <=> active # b
  /\ \A c \in Conn : ~IsUp(c) => toProbe[c] = <<>>

LinkInv == BridgeTypeOK /\ ClientLinks

LEMMA FaultTypes == BridgeTypeOK /\ Fault => faults' \in 0..MaxFaults
BY BridgeConstants DEF BridgeTypeOK, Fault

\* Only an end that is up has something to read.
LEMMA ReaderIsUp ==
  ASSUME LinkInv, NEW c \in Conn, toProbe[c] # <<>>
  PROVE  IsUp(c) /\ owner[c] \in Bridge /\ client[owner[c]] = c
BY DEF LinkInv, ClientLinks

LEMMA DialKeepsLinks ==
  ASSUME LinkInv, NEW b \in Bridge, NEW c \in Conn, Enable(b, c) \/ Reconnect(b, c)
  PROVE  LinkInv'
<1> USE BridgeConstants
<1>1. IsFree(c) /\ client[b] = NoConn
  BY DEF Enable, Reconnect, Dial, IsFree, IsSpare, LinkInv, ClientLinks, BridgeTypeOK, IsUp
<1>2. BridgeTypeOK'
  <2>1. CASE Enable(b, c)
    <3>1. compatible' \in [Bridge -> BOOLEAN]
      BY <2>1 DEF Enable, LinkInv, BridgeTypeOK
    <3> QED
      BY <2>1, <3>1 DEF Enable, Dial, LinkInv, BridgeTypeOK, Status, hostVars, tableVars, serviceVars
  <2>2. CASE Reconnect(b, c)
    BY <2>2 DEF Reconnect, Dial, LinkInv, BridgeTypeOK, Status, hostVars, tableVars, serviceVars
  <2> QED  BY <2>1, <2>2
<1>3. ClientLinks'
  <2>1. CASE Enable(b, c)
    BY <1>1, <2>1 DEF Enable, Dial, IsSpare, IsFree, LinkInv, ClientLinks, BridgeTypeOK, IsUp
  <2>2. CASE Reconnect(b, c)
    BY <1>1, <2>2 DEF Reconnect, Dial, IsFree, LinkInv, ClientLinks, BridgeTypeOK, IsUp
  <2> QED  BY <2>1, <2>2
<1> QED  BY <1>2, <1>3 DEF LinkInv

LEMMA CloseKeepsLinks ==
  ASSUME LinkInv, NEW c \in Conn, ProbeCloses(c) \/ ConnectionLost(c) \/ DialFails(c)
  PROVE  LinkInv'
<1> USE BridgeConstants
<1>1. OnClose(c) /\ faults' \in 0..MaxFaults
  BY FaultTypes DEF ProbeCloses, ConnectionLost, DialFails, LinkInv, BridgeTypeOK
<1>2. IsUp(c) /\ owner[c] \in Bridge /\ client[owner[c]] = c
  BY DEF ProbeCloses, ConnectionLost, DialFails, Arrives, IsUp, LinkInv, ClientLinks
<1>3. SentToHost(c, <<Msg("close")>>) \in Seq(HostMsg)
  BY Sends, HostMessages DEF LinkInv
<1>4. /\ status' \in [Bridge -> Status] /\ timers' \in [Bridge -> Nat]
      /\ client' = [client EXCEPT ![owner[c]] = NoConn]
      /\ IF stopped[owner[c]] THEN timers' = timers
         ELSE timers' = [timers EXCEPT ![owner[c]] = 1]
  <2>1. timers[owner[c]] = 0
    BY <1>2, BridgeConstants DEF LinkInv, ClientLinks
  <2>2. CASE stopped[owner[c]]
    BY <1>1, <1>2, <2>2 DEF OnClose, LinkInv, BridgeTypeOK, Status
  <2>3. CASE ~stopped[owner[c]]
    <3>1. /\ status' = [status EXCEPT ![owner[c]] = "DISCONNECTED"]
          /\ timers' = [timers EXCEPT ![owner[c]] = timers[owner[c]] + 1]
          /\ client' = [client EXCEPT ![owner[c]] = NoConn]
      BY <1>1, <1>2, <2>3 DEF OnClose, ScheduleReconnect
    <3>2. timers[owner[c]] + 1 = 1
      BY <2>1
    <3>3. timers' = [timers EXCEPT ![owner[c]] = 1]
      BY <3>1, <3>2
    <3>4. status' \in [Bridge -> Status]
      BY <3>1 DEF LinkInv, BridgeTypeOK, Status
    <3>5. timers' \in [Bridge -> Nat]
      BY <3>3 DEF LinkInv, BridgeTypeOK
    <3> QED
      BY <2>3, <3>1, <3>3, <3>4, <3>5
  <2> QED  BY <2>2, <2>3
<1>5. /\ probeEnd' = [probeEnd EXCEPT ![c] = "closed"]
      /\ toProbe' = [toProbe EXCEPT ![c] = <<>>]
      /\ toHost' = [toHost EXCEPT ![c] = SentToHost(c, <<Msg("close")>>)]
      /\ UNCHANGED <<active, compatible, stopped, dialling, owner, tasks, taken, hostVars, cut>>
  BY <1>1 DEF OnClose
<1>6. BridgeTypeOK'
  BY <1>1, <1>2, <1>3, <1>4, <1>5, ProbeMessages
     DEF LinkInv, BridgeTypeOK, hostVars, tableVars, serviceVars
<1>7. ClientLinks'
  <2> USE <1>2, <1>4, <1>5 DEF LinkInv, ClientLinks, BridgeTypeOK, IsUp
  <2>1. \A d \in Conn : IsUp(d)' => IsUp(d) /\ owner[d] # owner[c]
    OBVIOUS
  <2>2. \A b \in Bridge : timers'[b] # 0 => timers'[b] = 1 /\ ~dialling[b] /\ ~stopped[b]
    <3>1. ~dialling[owner[c]]
      OBVIOUS
    <3> QED  BY <3>1
  <2>3. \A b \in Bridge : client'[b] # NoConn => b # owner[c] /\ client'[b] = client[b]
    OBVIOUS
  <2>4. \A b \in Bridge : client'[b] # NoConn => IsUp(client[b])' /\ owner'[client'[b]] = b
    <3> TAKE b \in Bridge
    <3> HAVE client'[b] # NoConn
    <3>1. client'[b] = client[b] /\ client[b] \in Conn /\ owner[client[b]] = b /\ b # owner[c]
      BY <2>3
    <3>2. client[b] # c /\ IsUp(client[b])
      BY <2>3, <3>1
    <3>3. probeEnd'[client[b]] # "closed" /\ owner' = owner
      BY <3>1, <3>2
    <3>4. IsUp(client[b])'
      BY <3>1, <3>3
    <3> QED  BY <3>1, <3>3, <3>4
  <2>5. \A d \in Conn : IsUp(d)' => owner'[d] \in Bridge /\ client'[owner'[d]] = d
    BY <2>1
  <2>6. \A b \in Bridge : (timers'[b] # 0 \/ dialling'[b]) => client'[b] = NoConn
    OBVIOUS
  <2>7. \A d \in Conn : ~IsUp(d)' => toProbe'[d] = <<>>
    OBVIOUS
  <2> QED  BY <2>2, <2>4, <2>5, <2>6, <2>7
<1> QED  BY <1>6, <1>7 DEF LinkInv

LEMMA DisableKeepsLinks ==
  ASSUME LinkInv, Disable
  PROVE  LinkInv'
<1> USE BridgeConstants
<1>1. active \in Bridge /\ (client[active] # NoConn => client[active] \in Conn)
  BY DEF Disable, LinkInv, BridgeTypeOK
<1>2. client[active] # NoConn => SentToHost(client[active], <<Msg("close")>>) \in Seq(HostMsg)
  BY <1>1, Sends, HostMessages DEF LinkInv
<1>3. BridgeTypeOK'
  BY <1>1, <1>2, ProbeMessages
     DEF Disable, LinkInv, BridgeTypeOK, Status, hostVars, tableVars, serviceVars
<1>4. ClientLinks'
  BY <1>1 DEF Disable, LinkInv, ClientLinks, BridgeTypeOK, IsUp
<1> QED  BY <1>3, <1>4 DEF LinkInv

LEMMA CrashKeepsLinks ==
  ASSUME LinkInv, ServerCrashes
  PROVE  LinkInv'
<1> USE BridgeConstants
<1>1. toHost' \in [Conn -> Seq(HostMsg)]
  BY Sends, HostMessages DEF ServerCrashes, LinkInv, BridgeTypeOK
<1>2. BridgeTypeOK'
  BY <1>1, ProbeMessages, FaultTypes
     DEF ServerCrashes, LinkInv, BridgeTypeOK, Status, hostVars, tableVars, serviceVars
<1>3. ClientLinks'
  BY DEF ServerCrashes, LinkInv, ClientLinks, BridgeTypeOK, IsUp
<1> QED  BY <1>2, <1>3 DEF LinkInv

\* Nothing changes in the plugin but statuses, tasks and what it reads and sends.
LEMMA QuietKeepsLinks ==
  ASSUME LinkInv, UNCHANGED <<active, compatible, stopped, client, timers, dialling, owner>>,
         BridgeTypeOK',
         \A d \in Conn : IsUp(d)' = IsUp(d) /\ (~IsUp(d) => toProbe'[d] = toProbe[d])
  PROVE  LinkInv'
BY DEF LinkInv, ClientLinks, IsUp, BridgeTypeOK

LEMMA ReconnectKeepsLinks ==
  ASSUME LinkInv, NEW b \in Bridge, ReconnectDue(b)
  PROVE  LinkInv'
<1> USE BridgeConstants
<1>1. timers[b] = 1 /\ client[b] = NoConn /\ timers' = [timers EXCEPT ![b] = 0]
  <2>1. timers[b] = 1 /\ client[b] = NoConn
    BY DEF ReconnectDue, LinkInv, ClientLinks, BridgeTypeOK
  <2>2. timers[b] - 1 = 0
    BY <2>1
  <2> QED  BY <2>1, <2>2 DEF ReconnectDue
<1>2. BridgeTypeOK'
  BY <1>1 DEF ReconnectDue, LinkInv, BridgeTypeOK, hostVars, tableVars, serviceVars, netVars
<1>3. ClientLinks'
  BY <1>1 DEF ReconnectDue, LinkInv, ClientLinks, BridgeTypeOK, IsUp, netVars
<1> QED  BY <1>2, <1>3 DEF LinkInv

\* What the plugin reads from a connection.
LEMMA PluginReadsKeepsLinks ==
  ASSUME LinkInv, NEW c \in Conn, ProbeOpens(c) \/ HandshakeAnswered(c) \/ CommandArrives(c)
  PROVE  LinkInv'
<1>1. /\ toProbe[c] # <<>> /\ IsUp(c) /\ owner[c] \in Bridge
      /\ Head(toProbe[c]) \in ProbeMsg /\ Tail(toProbe[c]) \in Seq(ProbeMsg)
  BY ReaderIsUp, Reads DEF ProbeOpens, HandshakeAnswered, CommandArrives, Arrives, LinkInv
<1>2. SentToHost(c, <<Msg("handshake")>>) \in Seq(HostMsg)
  BY Sends, HostMessages DEF LinkInv
<1>3. CASE ProbeOpens(c)
  <2>1. BridgeTypeOK'
    BY <1>1, <1>2, <1>3
       DEF ProbeOpens, LinkInv, BridgeTypeOK, Status, hostVars, tableVars, serviceVars
  <2> QED  BY <1>1, <1>3, <2>1, QuietKeepsLinks DEF ProbeOpens, IsUp, LinkInv, BridgeTypeOK
<1>4. CASE HandshakeAnswered(c)
  <2>1. BridgeTypeOK'
    BY <1>1, <1>4
       DEF HandshakeAnswered, LinkInv, BridgeTypeOK, Status, hostVars, tableVars, serviceVars
  <2> QED  BY <1>1, <1>4, <2>1, QuietKeepsLinks DEF HandshakeAnswered, IsUp, LinkInv, BridgeTypeOK
<1>5. CASE CommandArrives(c)
  <2>1. Head(toProbe[c]).of \in Request
    BY <1>1, <1>5, ProbeMessages DEF CommandArrives, Arrives
  <2>2. BridgeTypeOK'
    BY <1>1, <1>5, <2>1
       DEF CommandArrives, LinkInv, BridgeTypeOK, hostVars, tableVars, serviceVars, bridgeVars
  <2> QED  BY <1>1, <1>5, <2>2, QuietKeepsLinks
              DEF CommandArrives, IsUp, LinkInv, BridgeTypeOK, bridgeVars
<1> QED  BY <1>3, <1>4, <1>5

\* What the plugin sends over its client.
LEMMA PluginSendsKeepsLinks ==
  ASSUME LinkInv, TakeSnapshot \/ \E t \in tasks : Execute(t)
  PROVE  LinkInv'
<1>1. ASSUME NEW b \in Bridge, NEW m, <<m>> \in Seq(HostMsg), Send(b, m)
      PROVE  toHost' \in [Conn -> Seq(HostMsg)]
  <2>1. client[b] # NoConn => SentToHost(client[b], <<m>>) \in Seq(HostMsg)
    BY <1>1, Sends DEF LinkInv, BridgeTypeOK
  <2> QED  BY <1>1, <2>1 DEF Send, LinkInv, BridgeTypeOK
<1>2. CASE TakeSnapshot
  <2>1. active \in Bridge /\ taken + 1 \in Nat /\ <<SnapshotMsg(taken + 1)>> \in Seq(HostMsg)
    BY <1>2, HostMessages DEF TakeSnapshot, LinkInv, BridgeTypeOK
  <2>2. toHost' \in [Conn -> Seq(HostMsg)]
    BY <1>1, <1>2, <2>1 DEF TakeSnapshot
  <2>3. BridgeTypeOK'
    BY <1>2, <2>1, <2>2
       DEF TakeSnapshot, LinkInv, BridgeTypeOK, bridgeVars, hostVars, tableVars, serviceVars
  <2> QED  BY <1>2, <2>3, QuietKeepsLinks DEF TakeSnapshot, IsUp, bridgeVars
<1>3. CASE \E t \in tasks : Execute(t)
  <2>1. PICK t \in tasks : Execute(t)
    BY <1>3
  <2>2. t[1] \in Request /\ t[2] \in Bridge /\ <<ResultMsg(t[1])>> \in Seq(HostMsg)
    BY HostMessages DEF LinkInv, BridgeTypeOK
  <2>3. toHost' \in [Conn -> Seq(HostMsg)]
    BY <1>1, <2>1, <2>2 DEF Execute
  <2>4. BridgeTypeOK'
    BY <2>1, <2>3
       DEF Execute, LinkInv, BridgeTypeOK, bridgeVars, hostVars, tableVars, serviceVars
  <2> QED  BY <2>1, <2>4, QuietKeepsLinks DEF Execute, IsUp, bridgeVars
<1> QED  BY <1>2, <1>3

\* The backend writes only to ends that are up.
LEMMA HostKeepsLinks ==
  ASSUME LinkInv, probeVars' = probeVars, BridgeTypeOK',
         \A d \in Conn : ~IsUp(d) => toProbe'[d] = toProbe[d]
  PROVE  LinkInv'
BY QuietKeepsLinks DEF probeVars, bridgeVars, IsUp

LEMMA WrittenIfUp ==
  ASSUME NEW c \in Conn, NEW ms, SentToProbe(c, ms) # toProbe[c]
  PROVE  IsUp(c)
BY DEF SentToProbe, IsUp

LEMMA ConnectionStepKeepsLinks ==
  ASSUME LinkInv, NEW c \in Conn,
         \/ HostAccepts(c) \/ HandshakeArrives(c) \/ HandshakeTimesOut(c) \/ MessageArrives(c)
         \/ CloseArrives(c) \/ HostCloses(c) \/ HostGivesUp(c) \/ Cut(c)
  PROVE  LinkInv'
<1> DEFINE Writes == \A d \in Conn : ~IsUp(d) => toProbe'[d] = toProbe[d]
<1> USE BridgeConstants
<1>1. toHost[c] # <<>> => Head(toHost[c]) \in HostMsg /\ Tail(toHost[c]) \in Seq(HostMsg)
  BY Reads DEF LinkInv
<1>2. \A ms \in Seq(ProbeMsg) : SentToProbe(c, ms) \in Seq(ProbeMsg)
  BY Sends DEF LinkInv
<1>3. probeVars' = probeVars
  BY DEF HostAccepts, HandshakeArrives, HandshakeTimesOut, MessageArrives, CloseArrives,
         HostCloses, HostGivesUp, Closed, Cut
<1>4. CASE HostAccepts(c)
  <2>1. BridgeTypeOK'
    BY <1>3, <1>4, ProbeMessages
       DEF HostAccepts, LinkInv, BridgeTypeOK, probeVars, bridgeVars, tableVars, serviceVars
  <2>2. Writes
    BY <1>4 DEF HostAccepts, IsUp, LinkInv, BridgeTypeOK
  <2> QED  BY <1>3, <2>1, <2>2, HostKeepsLinks
<1>5. CASE HandshakeArrives(c)
  <2>1. /\ SentToProbe(c, <<Msg("accepted")>>) \in Seq(ProbeMsg)
        /\ SentToProbe(c, <<Msg("refused"), Msg("close")>>) \in Seq(ProbeMsg)
    BY <1>2, ProbeMessages
  <2>2. ASSUME IsAccepted(c) PROVE BridgeTypeOK'
    <3>1. /\ toHost' = [toHost EXCEPT ![c] = Tail(@)]
          /\ toProbe' = [toProbe EXCEPT ![c] = SentToProbe(c, <<Msg("accepted")>>)]
          /\ hostEnd' = [hostEnd EXCEPT ![c] = "open"]
          /\ registered' = registered \cup {c}
          /\ earlier' = [earlier EXCEPT ![c] = registered]
      BY <1>5, <2>2, Zenon DEF HandshakeArrives, Register
    <3> QED
      BY <1>1, <1>3, <1>5, <2>1, <3>1
         DEF HandshakeArrives, Arrives, LinkInv, BridgeTypeOK, probeVars, bridgeVars, serviceVars
  <2>3. ASSUME ~IsAccepted(c) PROVE BridgeTypeOK'
    <3>1. /\ toHost' = [toHost EXCEPT ![c] = Tail(@)]
          /\ toProbe' = [toProbe EXCEPT ![c] = SentToProbe(c, <<Msg("refused"), Msg("close")>>)]
          /\ hostEnd' = [hostEnd EXCEPT ![c] = "closing"]
          /\ UNCHANGED tableVars
      BY <1>5, <2>3, Zenon DEF HandshakeArrives
    <3> QED
      BY <1>1, <1>3, <1>5, <2>1, <3>1
         DEF HandshakeArrives, Arrives, LinkInv, BridgeTypeOK, probeVars, bridgeVars, serviceVars,
             tableVars
  <2>4. BridgeTypeOK'
    BY <2>2, <2>3
  <2>5. Writes
    BY <1>5, WrittenIfUp DEF HandshakeArrives, LinkInv, BridgeTypeOK
  <2> QED  BY <1>3, <2>4, <2>5, HostKeepsLinks
<1>6. CASE HandshakeTimesOut(c)
  <2>1. SentToProbe(c, <<Msg("close")>>) \in Seq(ProbeMsg)
    BY <1>2, ProbeMessages
  <2>2. faults' \in 0..MaxFaults
    BY <1>6, FaultTypes DEF HandshakeTimesOut, LinkInv, BridgeTypeOK
  <2>3. BridgeTypeOK'
    BY <1>3, <1>6, <2>1, <2>2
       DEF HandshakeTimesOut, LinkInv, BridgeTypeOK, probeVars, bridgeVars, tableVars, serviceVars
  <2>4. Writes
    BY <1>6, WrittenIfUp DEF HandshakeTimesOut, LinkInv, BridgeTypeOK
  <2> QED  BY <1>3, <2>3, <2>4, HostKeepsLinks
<1>7. CASE MessageArrives(c)
  <2>1. latest' \in Nat
    BY <1>1, <1>7, HostMessages DEF MessageArrives, Arrives, OnSnapshot, LinkInv, BridgeTypeOK
  <2>2. BridgeTypeOK'
    BY <1>1, <1>3, <1>7, <2>1
       DEF MessageArrives, Arrives, LinkInv, BridgeTypeOK, probeVars, bridgeVars, tableVars
  <2> QED  BY <1>3, <1>7, <2>2, HostKeepsLinks DEF MessageArrives
<1>8. CASE CloseArrives(c)
  <2>1. BridgeTypeOK'
    BY <1>1, <1>3, <1>8
       DEF CloseArrives, Arrives, LinkInv, BridgeTypeOK, probeVars, bridgeVars, tableVars,
           serviceVars
  <2> QED  BY <1>3, <1>8, <2>1, HostKeepsLinks DEF CloseArrives
<1>9. CASE HostCloses(c) \/ HostGivesUp(c)
  <2>1. Closed(c)
    BY <1>9 DEF HostCloses, HostGivesUp
  <2>2. earlier' \in [Conn -> SUBSET Conn] /\ registered' \subseteq Conn
    BY <2>1 DEF Closed, Unregister, LinkInv, BridgeTypeOK
  <2>3. BridgeTypeOK'
    BY <1>3, <2>1, <2>2, HostMessages
       DEF Closed, LinkInv, BridgeTypeOK, probeVars, bridgeVars, serviceVars
  <2> QED  BY <1>3, <2>1, <2>3, HostKeepsLinks DEF Closed
<1>10. CASE Cut(c)
  <2>1. BridgeTypeOK'
    BY <1>3, <1>10, HostMessages, ProbeMessages, FaultTypes
       DEF Cut, LinkInv, BridgeTypeOK, probeVars, bridgeVars, hostVars, tableVars, serviceVars
  <2>2. ClientLinks'
    BY <1>3, <1>10 DEF Cut, LinkInv, ClientLinks, BridgeTypeOK, IsUp, probeVars, bridgeVars
  <2> QED  BY <2>1, <2>2 DEF LinkInv
<1> QED  BY <1>4, <1>5, <1>6, <1>7, <1>8, <1>9, <1>10

LEMMA RequestKeepsLinks ==
  ASSUME LinkInv, NEW r \in Request, Ask(r) \/ ActionTimesOut(r)
  PROVE  LinkInv'
<1>1. probeVars' = probeVars
  BY DEF Ask, ActionTimesOut
<1>2. /\ toProbe' \in [Conn -> Seq(ProbeMsg)]
      /\ \A d \in Conn : ~IsUp(d) => toProbe'[d] = toProbe[d]
  <2>1. CASE \E c \in Conn : toProbe' = [toProbe EXCEPT ![c] = SentToProbe(c, <<CommandMsg(r)>>)]
    <3>1. PICK c \in Conn : toProbe' = [toProbe EXCEPT ![c] = SentToProbe(c, <<CommandMsg(r)>>)]
      BY <2>1
    <3>2. SentToProbe(c, <<CommandMsg(r)>>) \in Seq(ProbeMsg)
      BY Sends, ProbeMessages DEF LinkInv
    <3> QED  BY <3>1, <3>2, WrittenIfUp DEF LinkInv, BridgeTypeOK
  <2>2. CASE toProbe' = toProbe
    BY <2>2 DEF LinkInv, BridgeTypeOK
  <2> QED  BY <2>1, <2>2 DEF Ask, ActionTimesOut, netVars
<1>3. request' \in [Request -> {"new", "sent", "refused", "timedOut", "lost"}]
  BY DEF Ask, ActionTimesOut, LinkInv, BridgeTypeOK
<1>4. BridgeTypeOK'
  BY <1>1, <1>2, <1>3
     DEF Ask, ActionTimesOut, LinkInv, BridgeTypeOK, probeVars, bridgeVars, tableVars, netVars
<1> QED  BY <1>1, <1>2, <1>4, HostKeepsLinks

LEMMA RestartKeepsLinks ==
  ASSUME LinkInv, HostRestarts
  PROVE  LinkInv'
<1>1. \A c \in Conn : SentToProbe(c, <<Msg("reset")>>) \in Seq(ProbeMsg)
  BY Sends, ProbeMessages DEF LinkInv
<1>2. BridgeTypeOK'
  BY <1>1, HostMessages, FaultTypes
     DEF HostRestarts, LinkInv, BridgeTypeOK, probeVars, bridgeVars
<1>3. \A d \in Conn : ~IsUp(d) => toProbe'[d] = toProbe[d]
  BY WrittenIfUp DEF HostRestarts
<1> QED  BY <1>2, <1>3, HostKeepsLinks DEF HostRestarts

LEMMA LinksStart == Init => LinkInv
<1> SUFFICES ASSUME Init PROVE LinkInv  OBVIOUS
<1>1. BridgeTypeOK
  BY BridgeConstants, HostMessages, ProbeMessages DEF Init, BridgeTypeOK, Status
<1>2. ClientLinks
  BY BridgeConstants DEF Init, ClientLinks, IsUp
<1> QED  BY <1>1, <1>2 DEF LinkInv

LEMMA LinksStep == LinkInv /\ [Next]_vars => LinkInv'
<1> SUFFICES ASSUME LinkInv, [Next]_vars PROVE LinkInv'  OBVIOUS
<1>1. CASE PluginStep
  BY <1>1, DisableKeepsLinks, PluginSendsKeepsLinks, CrashKeepsLinks, ReconnectKeepsLinks,
     DialKeepsLinks, PluginReadsKeepsLinks, CloseKeepsLinks DEF PluginStep
<1>2. CASE HostStep
  BY <1>2, RestartKeepsLinks, ConnectionStepKeepsLinks, RequestKeepsLinks DEF HostStep
<1>3. CASE \E c \in Conn : Cut(c)
  BY <1>3, ConnectionStepKeepsLinks
<1>4. CASE UNCHANGED vars
  BY <1>4 DEF vars, probeVars, bridgeVars, hostVars, tableVars, serviceVars, netVars,
              LinkInv, BridgeTypeOK, ClientLinks, IsUp
<1> QED  BY <1>1, <1>2, <1>3, <1>4 DEF Next

\* The links between bridges and connections hold in every state.
THEOREM BridgeLinks == Spec => []LinkInv
BY LinksStart, LinksStep, PTL DEF Spec

\* Every variable of the bridge has its type: what arrives is what can be read.
THEOREM BridgeTypes == Spec => []BridgeTypeOK
<1>1. LinkInv => BridgeTypeOK  BY DEF LinkInv
<1> QED  BY <1>1, BridgeLinks, PTL

\* The plugin has at most one live connection, whatever closes, is disabled or
\* crashes, and whenever reconnects come due (WebSocketBridge's connect, onClose
\* and disconnect).
THEOREM BridgeHasOneClient == Spec => []OneLiveClient
<1>1. LinkInv => OneLiveClient
  <2> SUFFICES ASSUME LinkInv PROVE OneLiveClient  OBVIOUS
  <2>1. \A c, d \in Conn :
          (IsUp(c) /\ IsUp(d) /\ ~stopped[owner[c]] /\ ~stopped[owner[d]]) => c = d
    BY DEF LinkInv, ClientLinks
  <2>2. \A c \in Conn : (IsUp(c) /\ ~stopped[owner[c]])
          => timers[owner[c]] = 0 /\ ~dialling[owner[c]] /\ client[owner[c]] = c
    BY BridgeConstants DEF LinkInv, ClientLinks
  <2> QED  BY <2>1, <2>2 DEF OneLiveClient
<1> QED  BY <1>1, BridgeLinks, PTL

(***************************************************************************)
(* The handshake, on one connection.                                       *)
(***************************************************************************)

\* What a closed end, or a connection that is cut, leaves in its streams.
StreamEnds(c) ==
  /\ hostEnd[c] = "closed" => toHost[c] = <<>>
  /\ cut[c] => toHost[c] = <<>> /\ toProbe[c] = <<>>
  /\ IsUp(c) => ~Has(toHost[c], "close")
  /\ probeEnd[c] = "dialling" => ~Has(toHost[c], "handshake")

NoAnswer(s) == ~Has(s, "accepted") /\ ~Has(s, "refused") /\ ~Has(s, "command")

\* How far a connection that is up has come with its handshake.
HandshakeStage(c) ==
  /\ probeEnd[c] = "dialling" =>
       /\ status[owner[c]] # "READY" /\ hostEnd[c] # "open"
       /\ NoAnswer(toProbe[c]) /\ OnlyFirst(toProbe[c], "accept")
  /\ probeEnd[c] = "open" => ~Has(toProbe[c], "accept")
  /\ hostEnd[c] = "pending" /\ IsUp(c) => status[owner[c]] # "READY" /\ NoAnswer(toProbe[c])
  /\ hostEnd[c] = "open" /\ IsUp(c) /\ ~cut[c] =>
       /\ c \in registered /\ ~Has(toProbe[c], "refused")
       /\ status[owner[c]] = "READY" \/ Has(toProbe[c], "accepted")

\* Where the handshake was accepted, the connection is registered, or the plugin
\* will hear, or can find out, that it is over.
Accepted(c) ==
  IsUp(c) /\ (status[owner[c]] = "READY" \/ Has(toProbe[c], "accepted"))
    => (c \in registered /\ hostEnd[c] = "open") \/ cut[c] \/ Has(toProbe[c], "reset")

\* Commands come behind the answer that accepts the handshake.
CommandsOrdered(c) ==
  IsUp(c) => /\ Has(toProbe[c], "command") => ~Has(toProbe[c], "refused")
             /\ status[owner[c]] = "READY" \/ Behind(toProbe[c])

ConnInv(c) == StreamEnds(c) /\ HandshakeStage(c) /\ Accepted(c) /\ CommandsOrdered(c)

BridgeInv == LinkInv /\ \A c \in Conn : ConnInv(c)

\* A step that has nothing to do with a connection.
Stays(d) ==
  /\ probeEnd'[d] = probeEnd[d] /\ hostEnd'[d] = hostEnd[d] /\ cut'[d] = cut[d]
  /\ toHost'[d] = toHost[d] /\ toProbe'[d] = toProbe[d]
  /\ d \in registered <=> d \in registered'
  /\ IsUp(d) => owner'[d] = owner[d] /\ status'[owner[d]] = status[owner[d]]

LEMMA StaysKeepsConn ==
  ASSUME NEW d \in Conn, ConnInv(d), Stays(d)
  PROVE  ConnInv(d)'
BY DEF Stays, ConnInv, StreamEnds, HandshakeStage, Accepted, CommandsOrdered, IsUp, NoAnswer

\* What has been sent to the plugin, ...
LEMMA ProbeGets ==
  ASSUME LinkInv, NEW c \in Conn, NEW e \in Seq(ProbeMsg)
  PROVE  /\ \A t : Has(SentToProbe(c, e), t)
                   <=> Has(toProbe[c], t) \/ (~cut[c] /\ IsUp(c) /\ Has(e, t))
         /\ Behind(toProbe[c]) /\ (Has(toProbe[c], "accepted") \/ ~Has(e, "command"))
              => Behind(SentToProbe(c, e))
         /\ OnlyFirst(toProbe[c], "accept") /\ ~Has(e, "accept")
              => OnlyFirst(SentToProbe(c, e), "accept")
         /\ cut[c] \/ ~IsUp(c) => SentToProbe(c, e) = toProbe[c]
<1>1. toProbe[c] \in Seq(ProbeMsg)
  BY DEF LinkInv, BridgeTypeOK
<1>2. CASE cut[c] \/ probeEnd[c] = "closed"
  BY <1>2 DEF SentToProbe, IsUp
<1>3. CASE ~cut[c] /\ IsUp(c)
  <2>1. SentToProbe(c, e) = toProbe[c] \o e
    BY <1>3 DEF SentToProbe, IsUp
  <2>2. \A t : Has(toProbe[c] \o e, t) <=> Has(toProbe[c], t) \/ Has(e, t)
    BY <1>1, HasMore
  <2>3. Behind(toProbe[c]) /\ (Has(toProbe[c], "accepted") \/ ~Has(e, "command"))
          => Behind(toProbe[c] \o e)
    BY <1>1, BehindMore
  <2>4. OnlyFirst(toProbe[c], "accept") /\ ~Has(e, "accept") => OnlyFirst(toProbe[c] \o e, "accept")
    BY <1>1, OnlyFirstMore
  <2> QED  BY <1>3, <2>1, <2>2, <2>3, <2>4
<1> QED  BY <1>2, <1>3 DEF IsUp

\* ... and to the backend.
LEMMA HostGets ==
  ASSUME LinkInv, NEW c \in Conn, NEW e \in Seq(HostMsg)
  PROVE  /\ \A t : Has(SentToHost(c, e), t) => Has(toHost[c], t) \/ Has(e, t)
         /\ cut[c] \/ hostEnd[c] = "closed" => SentToHost(c, e) = toHost[c]
<1>1. toHost[c] \in Seq(HostMsg)
  BY DEF LinkInv, BridgeTypeOK
<1>2. \A t : Has(toHost[c] \o e, t) <=> Has(toHost[c], t) \/ Has(e, t)
  BY <1>1, HasMore
<1> QED  BY <1>2 DEF SentToHost

\* What the plugin has still to read once it has read the first message.
LEMMA ProbeReads ==
  ASSUME LinkInv, NEW c \in Conn, toProbe[c] # <<>>
  PROVE  /\ \A t : Has(toProbe[c], t) <=> Head(toProbe[c]).type = t \/ Has(Tail(toProbe[c]), t)
         /\ OnlyFirst(toProbe[c], "accept") => ~Has(Tail(toProbe[c]), "accept")
         /\ Behind(toProbe[c]) => Head(toProbe[c]).type # "command"
<1>1. toProbe[c] \in Seq(ProbeMsg)
  BY DEF LinkInv, BridgeTypeOK
<1>2. \A t : Has(toProbe[c], t) <=> Head(toProbe[c]).type = t \/ Has(Tail(toProbe[c]), t)
  BY <1>1, HasHead
<1>3. OnlyFirst(toProbe[c], "accept") => ~Has(Tail(toProbe[c]), "accept")
  BY <1>1, OnlyFirstTail
<1>4. Behind(toProbe[c]) => Head(toProbe[c]).type # "command"
  BY <1>1, BehindHead
<1> QED  BY <1>2, <1>3, <1>4

LEMMA HostReads ==
  ASSUME LinkInv, NEW c \in Conn, toHost[c] # <<>>
  PROVE  \A t : Has(toHost[c], t) <=> Head(toHost[c]).type = t \/ Has(Tail(toHost[c]), t)
<1>1. toHost[c] \in Seq(HostMsg)
  BY DEF LinkInv, BridgeTypeOK
<1> QED  BY <1>1, HasHead

\* What the messages are that are sent together.
LEMMA Sent ==
  /\ \A t, u : Has(<<Msg(u)>>, t) <=> t = u
  /\ \A t : Has(<<Msg("refused"), Msg("close")>>, t) <=> t \in {"refused", "close"}
  /\ \A r, t : Has(<<CommandMsg(r)>>, t) <=> t = "command"
  /\ \A r, t : Has(<<ResultMsg(r)>>, t) <=> t = "result"
  /\ \A n, t : Has(<<SnapshotMsg(n)>>, t) <=> t = "snapshot"
<1>1. /\ \A u : Msg(u).type = u
      /\ \A r : CommandMsg(r).type = "command" /\ ResultMsg(r).type = "result"
      /\ \A n : SnapshotMsg(n).type = "snapshot"
  BY DEF Msg, CommandMsg, ResultMsg, SnapshotMsg
<1>2. \A t, u : Has(<<Msg(u)>>, t) <=> t = u
  BY <1>1, HasOne
<1>3. \A t : Has(<<Msg("refused"), Msg("close")>>, t) <=> t \in {"refused", "close"}
  BY <1>1, HasTwo
<1>4. \A r, t : /\ Has(<<CommandMsg(r)>>, t) <=> t = "command"
                /\ Has(<<ResultMsg(r)>>, t) <=> t = "result"
  BY <1>1, HasOne
<1>5. \A n, t : Has(<<SnapshotMsg(n)>>, t) <=> t = "snapshot"
  BY <1>1, HasOne
<1> QED  BY <1>2, <1>3, <1>4, <1>5

\* Two connections that are up are not those of one bridge.
LEMMA OthersClient ==
  ASSUME LinkInv, NEW c \in Conn, NEW d \in Conn, IsUp(c), IsUp(d), c # d
  PROVE  owner[c] # owner[d]
BY DEF LinkInv, ClientLinks

LEMMA DialKeepsConn ==
  ASSUME BridgeInv, NEW b \in Bridge, NEW c \in Conn, Enable(b, c) \/ Reconnect(b, c),
         NEW d \in Conn
  PROVE  ConnInv(d)'
<1> USE BridgeConstants DEF BridgeInv
<1>1. Dial(b, c) /\ UNCHANGED <<hostVars, toHost, toProbe>>
  BY DEF Enable, Reconnect
<1>2. client[b] = NoConn
  BY DEF Enable, Reconnect, Dial, IsFree, IsSpare, LinkInv, ClientLinks, BridgeTypeOK, IsUp
<1>3. CASE d # c
  <2>1. IsUp(d) => owner[d] \in Bridge /\ owner[d] # b
    BY <1>2 DEF LinkInv, ClientLinks
  <2>2. Stays(d)
    BY <1>1, <1>3, <2>1 DEF Dial, Stays, LinkInv, BridgeTypeOK, hostVars, tableVars
  <2> QED  BY <2>2, StaysKeepsConn
<1>4. CASE d = c
  <2>1. toHost[c] = <<>> /\ toProbe[c] = <<>> /\ hostEnd[c] = "closed"
    BY <1>1 DEF Dial, IsFree, LinkInv, ClientLinks, IsUp, ConnInv, StreamEnds
  <2>2. /\ probeEnd'[c] = "dialling" /\ hostEnd'[c] = "closed" /\ owner'[c] = b
        /\ status'[b] = "CONNECTING" /\ toHost'[c] = <<>> /\ toProbe'[c] = <<>>
    BY <1>1, <2>1 DEF Dial, LinkInv, BridgeTypeOK, hostVars
  <2>3. Behind(<<>>) /\ OnlyFirst(<<>>, "accept") /\ \A t : ~Has(<<>>, t)
    BY HasNone, BehindNone, OnlyFirstShort
  <2> QED
    BY <1>4, <2>2, <2>3
       DEF ConnInv, StreamEnds, HandshakeStage, Accepted, CommandsOrdered, IsUp, NoAnswer
<1> QED  BY <1>3, <1>4

\* An end of the plugin is closed.
LEMMA ClosedKeepsConn ==
  ASSUME BridgeInv, NEW c \in Conn,
         probeEnd' = [probeEnd EXCEPT ![c] = "closed"],
         toProbe' = [toProbe EXCEPT ![c] = <<>>],
         toHost' = [toHost EXCEPT ![c] = SentToHost(c, <<Msg("close")>>)],
         UNCHANGED <<hostEnd, cut>>
  PROVE  ConnInv(c)'
<1> USE DEF BridgeInv
<1>1. cut[c] \/ hostEnd[c] = "closed" => SentToHost(c, <<Msg("close")>>) = toHost[c]
  BY HostGets, HostMessages
<1>2. /\ probeEnd'[c] = "closed" /\ toProbe'[c] = <<>>
      /\ toHost'[c] = SentToHost(c, <<Msg("close")>>)
  BY DEF LinkInv, BridgeTypeOK
<1> QED
  BY <1>1, <1>2
     DEF ConnInv, StreamEnds, HandshakeStage, Accepted, CommandsOrdered, IsUp

LEMMA CloseKeepsConn ==
  ASSUME BridgeInv, NEW c \in Conn, ProbeCloses(c) \/ ConnectionLost(c) \/ DialFails(c),
         NEW d \in Conn
  PROVE  ConnInv(d)'
<1> USE DEF BridgeInv
<1>1. OnClose(c)
  BY DEF ProbeCloses, ConnectionLost, DialFails
<1>2. IsUp(c) /\ owner[c] \in Bridge
  BY DEF ProbeCloses, ConnectionLost, DialFails, Arrives, IsUp, LinkInv, ClientLinks
<1>3. CASE d # c
  <2>1. IsUp(d) => owner[d] \in Bridge /\ owner[d] # owner[c]
    BY <1>2, <1>3, OthersClient DEF LinkInv, ClientLinks
  <2>2. \E v : status' = [status EXCEPT ![owner[c]] = v]
    BY <1>1 DEF OnClose
  <2>3. Stays(d)
    BY <1>1, <1>3, <2>1, <2>2 DEF OnClose, Stays, LinkInv, BridgeTypeOK, hostVars, tableVars
  <2> QED  BY <2>3, StaysKeepsConn
<1>4. CASE d = c
  BY <1>1, <1>4, ClosedKeepsConn DEF OnClose, hostVars
<1> QED  BY <1>3, <1>4

LEMMA DisableKeepsConn ==
  ASSUME BridgeInv, Disable, NEW d \in Conn
  PROVE  ConnInv(d)'
<1> USE DEF BridgeInv
<1>1. active \in Bridge
  BY DEF Disable, LinkInv, BridgeTypeOK
<1>2. CASE d # client[active]
  <2>1. IsUp(d) => owner[d] \in Bridge /\ owner[d] # active
    BY <1>2 DEF LinkInv, ClientLinks
  <2>2. Stays(d)
    BY <1>1, <1>2, <2>1 DEF Disable, Stays, LinkInv, BridgeTypeOK, hostVars, tableVars
  <2> QED  BY <2>2, StaysKeepsConn
<1>3. CASE d = client[active]
  BY <1>3, ClosedKeepsConn, BridgeConstants DEF Disable, hostVars
<1> QED  BY <1>2, <1>3

LEMMA CrashKeepsConn ==
  ASSUME BridgeInv, ServerCrashes, NEW d \in Conn
  PROVE  ConnInv(d)'
<1> USE DEF BridgeInv
<1>1. cut[d] \/ hostEnd[d] = "closed" => SentToHost(d, <<Msg("close")>>) = toHost[d]
  BY HostGets, HostMessages
<1>2. /\ probeEnd'[d] = "closed" /\ toProbe'[d] = <<>>
      /\ toHost'[d] = toHost[d] \/ toHost'[d] = SentToHost(d, <<Msg("close")>>)
      /\ UNCHANGED <<hostEnd, cut>>
  BY DEF ServerCrashes, hostVars
<1> QED
  BY <1>1, <1>2
     DEF ConnInv, StreamEnds, HandshakeStage, Accepted, CommandsOrdered, IsUp

LEMMA ReconnectKeepsConn ==
  ASSUME BridgeInv, NEW b \in Bridge, ReconnectDue(b), NEW d \in Conn
  PROVE  ConnInv(d)'
<1>1. Stays(d)
  BY DEF ReconnectDue, Stays, hostVars, tableVars, netVars
<1> QED  BY <1>1, StaysKeepsConn DEF BridgeInv

LEMMA PluginReadsKeepsConn ==
  ASSUME BridgeInv, NEW c \in Conn, ProbeOpens(c) \/ HandshakeAnswered(c) \/ CommandArrives(c),
         NEW d \in Conn
  PROVE  ConnInv(d)'
<1> USE DEF BridgeInv
<1>1. /\ toProbe[c] # <<>> /\ toProbe'[c] = Tail(toProbe[c])
      /\ \A e \in Conn : e # c => toProbe'[e] = toProbe[e] /\ toHost'[e] = toHost[e]
      /\ \A e \in Conn : e # c => probeEnd'[e] = probeEnd[e]
      /\ status' = status \/ \E v : status' = [status EXCEPT ![owner[c]] = v]
      /\ UNCHANGED <<owner, hostEnd, registered, cut>>
  BY DEF ProbeOpens, HandshakeAnswered, CommandArrives, Arrives, LinkInv, BridgeTypeOK, hostVars,
         tableVars, bridgeVars
<1>2. IsUp(c) /\ owner[c] \in Bridge /\ ~cut[c]
  BY <1>1, ReaderIsUp DEF ConnInv, StreamEnds
<1>3. /\ \A t : Has(toProbe[c], t) <=> Head(toProbe[c]).type = t \/ Has(Tail(toProbe[c]), t)
      /\ OnlyFirst(toProbe[c], "accept") => ~Has(Tail(toProbe[c]), "accept")
      /\ Behind(toProbe[c]) => Head(toProbe[c]).type # "command"
  BY <1>1, ProbeReads
<1>4. Head(toProbe[c]).type # "accepted" /\ Behind(toProbe[c]) => Behind(Tail(toProbe[c]))
  BY <1>1, BehindTail DEF LinkInv, BridgeTypeOK
<1>5. ~Has(Tail(toProbe[c]), "command") => Behind(Tail(toProbe[c]))
  BY BehindNone
<1>6. CASE d # c
  <2>1. IsUp(d) => owner[d] \in Bridge /\ owner[d] # owner[c]
    BY <1>2, <1>6, OthersClient DEF LinkInv, ClientLinks
  <2>2. Stays(d)
    BY <1>1, <1>6, <2>1 DEF Stays, LinkInv, BridgeTypeOK
  <2> QED  BY <2>2, StaysKeepsConn
<1>7. CASE d = c /\ ProbeOpens(c)
  <2>1. /\ probeEnd'[c] = "open" /\ status'[owner[c]] = "HANDSHAKING"
        /\ toHost'[c] = SentToHost(c, <<Msg("handshake")>>) /\ Head(toProbe[c]).type = "accept"
    BY <1>2, <1>7 DEF ProbeOpens, Arrives, LinkInv, BridgeTypeOK
  <2>2. /\ Has(SentToHost(c, <<Msg("handshake")>>), "close") => Has(toHost[c], "close")
        /\ hostEnd[c] = "closed" => SentToHost(c, <<Msg("handshake")>>) = toHost[c]
    BY HostGets, HostMessages, Sent
  <2>3. probeEnd[c] = "dialling"
    BY <1>2, <1>3, <2>1 DEF ConnInv, HandshakeStage, IsUp, LinkInv, BridgeTypeOK
  <2> QED
    BY <1>1, <1>2, <1>3, <1>5, <1>7, <2>1, <2>2, <2>3
       DEF ConnInv, StreamEnds, HandshakeStage, Accepted, CommandsOrdered, IsUp, NoAnswer
<1>8. CASE d = c /\ HandshakeAnswered(c)
  <2>1. probeEnd' = probeEnd /\ toHost' = toHost
    BY <1>8 DEF HandshakeAnswered
  <2>2. CASE Head(toProbe[c]).type = "accepted"
    <3>1. status'[owner[c]] = "READY"
      BY <1>2, <1>8, <2>2 DEF HandshakeAnswered, Arrives, LinkInv, BridgeTypeOK
    <3> QED
      BY <1>1, <1>2, <1>3, <1>8, <2>1, <2>2, <3>1
         DEF ConnInv, StreamEnds, HandshakeStage, Accepted, CommandsOrdered, IsUp, NoAnswer
  <2>3. CASE Head(toProbe[c]).type = "refused"
    <3>1. status'[owner[c]] = "VERSION_MISMATCH"
      BY <1>2, <1>8, <2>3 DEF HandshakeAnswered, Arrives, LinkInv, BridgeTypeOK
    <3> QED
      BY <1>1, <1>2, <1>3, <1>5, <1>8, <2>1, <2>3, <3>1
         DEF ConnInv, StreamEnds, HandshakeStage, Accepted, CommandsOrdered, IsUp, NoAnswer
  <2> QED  BY <1>8, <2>2, <2>3 DEF HandshakeAnswered, Arrives
<1>9. CASE d = c /\ CommandArrives(c)
  <2>1. /\ probeEnd' = probeEnd /\ toHost' = toHost /\ status' = status
        /\ Head(toProbe[c]).type = "command"
    BY <1>9 DEF CommandArrives, Arrives, bridgeVars
  <2>2. status[owner[c]] = "READY"
    BY <1>2, <1>3, <2>1 DEF ConnInv, CommandsOrdered
  <2> QED
    BY <1>1, <1>2, <1>3, <1>9, <2>1, <2>2
       DEF ConnInv, StreamEnds, HandshakeStage, Accepted, CommandsOrdered, IsUp, NoAnswer
<1> QED  BY <1>6, <1>7, <1>8, <1>9

LEMMA PluginSendsKeepsConn ==
  ASSUME BridgeInv, TakeSnapshot \/ \E t \in tasks : Execute(t), NEW d \in Conn
  PROVE  ConnInv(d)'
<1> USE DEF BridgeInv
<1>1. \E e \in Seq(HostMsg) :
        /\ \A t \in {"close", "handshake"} : ~Has(e, t)
        /\ toHost'[d] = toHost[d] \/ toHost'[d] = SentToHost(d, e)
  <2>1. CASE TakeSnapshot
    <3>1. <<SnapshotMsg(taken + 1)>> \in Seq(HostMsg)
      BY HostMessages DEF LinkInv, BridgeTypeOK
    <3>2. toHost'[d] = toHost[d] \/ toHost'[d] = SentToHost(d, <<SnapshotMsg(taken + 1)>>)
      BY <2>1 DEF TakeSnapshot, Send, LinkInv, BridgeTypeOK
    <3> QED  BY <3>1, <3>2, Sent
  <2>2. ASSUME NEW u \in tasks, Execute(u)
        PROVE  \E e \in Seq(HostMsg) :
                 /\ \A t \in {"close", "handshake"} : ~Has(e, t)
                 /\ toHost'[d] = toHost[d] \/ toHost'[d] = SentToHost(d, e)
    <3>1. <<ResultMsg(u[1])>> \in Seq(HostMsg)
      BY HostMessages DEF LinkInv, BridgeTypeOK
    <3>2. toHost'[d] = toHost[d] \/ toHost'[d] = SentToHost(d, <<ResultMsg(u[1])>>)
      BY <2>2 DEF Execute, Send, LinkInv, BridgeTypeOK
    <3> QED  BY <3>1, <3>2, Sent
  <2> QED  BY <2>1, <2>2
<1>2. PICK e \in Seq(HostMsg) :
        /\ \A t \in {"close", "handshake"} : ~Has(e, t)
        /\ toHost'[d] = toHost[d] \/ toHost'[d] = SentToHost(d, e)
  BY <1>1
<1>3. /\ \A t : Has(SentToHost(d, e), t) => Has(toHost[d], t) \/ Has(e, t)
      /\ cut[d] \/ hostEnd[d] = "closed" => SentToHost(d, e) = toHost[d]
  BY HostGets
<1>4. UNCHANGED <<bridgeVars, probeEnd, owner, hostVars, toProbe, cut>>
  BY DEF TakeSnapshot, Execute
<1> QED
  BY <1>2, <1>3, <1>4
     DEF ConnInv, StreamEnds, HandshakeStage, Accepted, CommandsOrdered, IsUp, NoAnswer, bridgeVars,
         hostVars, tableVars

\* The backend's steps on another connection.
LEMMA OthersStay ==
  ASSUME BridgeInv, NEW c \in Conn, NEW d \in Conn, d # c,
         \/ HostAccepts(c) \/ HandshakeArrives(c) \/ HandshakeTimesOut(c) \/ MessageArrives(c)
         \/ CloseArrives(c) \/ HostCloses(c) \/ HostGivesUp(c) \/ Cut(c)
  PROVE  ConnInv(d)'
<1>1. probeVars' = probeVars
  BY DEF HostAccepts, HandshakeArrives, HandshakeTimesOut, MessageArrives, CloseArrives,
         HostCloses, HostGivesUp, Closed, Cut
<1>2. hostEnd'[d] = hostEnd[d] /\ cut'[d] = cut[d]
  BY DEF HostAccepts, HandshakeArrives, HandshakeTimesOut, MessageArrives, CloseArrives,
         HostCloses, HostGivesUp, Closed, Cut, BridgeInv, LinkInv, BridgeTypeOK, hostVars
<1>3. toHost'[d] = toHost[d] /\ toProbe'[d] = toProbe[d]
  BY DEF HostAccepts, HandshakeArrives, HandshakeTimesOut, MessageArrives, CloseArrives,
         HostCloses, HostGivesUp, Closed, Cut, BridgeInv, LinkInv, BridgeTypeOK
<1>4. d \in registered <=> d \in registered'
  BY DEF HostAccepts, HandshakeArrives, HandshakeTimesOut, MessageArrives, CloseArrives,
         HostCloses, HostGivesUp, Closed, Cut, Register, Unregister, hostVars, tableVars
<1>5. Stays(d)
  BY <1>1, <1>2, <1>3, <1>4 DEF Stays, probeVars, bridgeVars
<1> QED  BY <1>5, StaysKeepsConn DEF BridgeInv

LEMMA ConnectionStepKeepsConn ==
  ASSUME BridgeInv, NEW c \in Conn,
         \/ HostAccepts(c) \/ HandshakeArrives(c) \/ HandshakeTimesOut(c) \/ MessageArrives(c)
         \/ CloseArrives(c) \/ HostCloses(c) \/ HostGivesUp(c) \/ Cut(c)
  PROVE  ConnInv(c)'
<1> USE DEF BridgeInv
<1>1. probeEnd' = probeEnd /\ owner' = owner /\ status' = status
  BY DEF HostAccepts, HandshakeArrives, HandshakeTimesOut, MessageArrives, CloseArrives,
         HostCloses, HostGivesUp, Closed, Cut, probeVars, bridgeVars
<1>2. toHost[c] # <<>> => \A t : Has(toHost[c], t)
                                <=> Head(toHost[c]).type = t \/ Has(Tail(toHost[c]), t)
  BY HostReads
<1>3. (\A t : ~Has(<<>>, t)) /\ Behind(<<>>) /\ OnlyFirst(<<>>, "accept")
  BY HasNone, BehindNone, OnlyFirstShort
<1>4. \A m : OnlyFirst(<<m>>, "accept")
  BY OnlyFirstShort
<1>5. ~Has(toProbe[c], "command") => Behind(toProbe[c])
  BY BehindNone
<1> USE DEF ConnInv, StreamEnds, HandshakeStage, Accepted, CommandsOrdered, IsUp, NoAnswer
<1>6. CASE HostAccepts(c)
  <2>1. /\ probeEnd[c] = "dialling" /\ hostEnd'[c] = "pending" /\ ~cut[c]
        /\ toProbe'[c] = <<Msg("accept")>> /\ UNCHANGED <<toHost, cut>>
    BY <1>6 DEF HostAccepts, LinkInv, BridgeTypeOK
  <2>2. \A t : Has(toProbe'[c], t) <=> t = "accept"
    BY <2>1, Sent
  <2>3. Behind(toProbe'[c]) /\ OnlyFirst(toProbe'[c], "accept")
    BY <1>4, <2>1, <2>2, BehindNone
  <2> QED  BY <1>1, <2>1, <2>2, <2>3
<1>7. CASE HandshakeArrives(c)
  <2>1. /\ hostEnd[c] = "pending" /\ toHost[c] # <<>> /\ Head(toHost[c]).type = "handshake"
        /\ toHost'[c] = Tail(toHost[c]) /\ cut' = cut
    BY <1>7 DEF HandshakeArrives, Arrives, LinkInv, BridgeTypeOK
  <2>2. probeEnd[c] # "dialling" /\ ~cut[c]
    BY <1>2, <2>1
  <2>3. ASSUME IsAccepted(c) PROVE ConnInv(c)'
    <3>1. /\ toProbe'[c] = SentToProbe(c, <<Msg("accepted")>>)
          /\ hostEnd'[c] = "open" /\ c \in registered'
      <4>1. /\ toProbe' = [toProbe EXCEPT ![c] = SentToProbe(c, <<Msg("accepted")>>)]
            /\ hostEnd' = [hostEnd EXCEPT ![c] = "open"]
            /\ registered' = registered \cup {c}
        BY <1>7, <2>3, Zenon DEF HandshakeArrives, Register
      <4> QED  BY <4>1 DEF LinkInv, BridgeTypeOK
    <3>2. /\ <<Msg("accepted")>> \in Seq(ProbeMsg)
          /\ \A t : Has(<<Msg("accepted")>>, t) <=> t = "accepted"
      BY ProbeMessages, Sent
    <3>3. /\ \A t : Has(SentToProbe(c, <<Msg("accepted")>>), t)
                   <=> Has(toProbe[c], t) \/ (~cut[c] /\ IsUp(c) /\ t = "accepted")
          /\ Behind(toProbe[c]) => Behind(SentToProbe(c, <<Msg("accepted")>>))
          /\ OnlyFirst(toProbe[c], "accept")
               => OnlyFirst(SentToProbe(c, <<Msg("accepted")>>), "accept")
          /\ cut[c] \/ ~IsUp(c) => SentToProbe(c, <<Msg("accepted")>>) = toProbe[c]
      BY <3>2, ProbeGets
    <3>4. StreamEnds(c)' /\ HandshakeStage(c)'
      BY <1>1, <1>2, <2>1, <2>2, <3>1, <3>3
    <3>5. Accepted(c)' /\ CommandsOrdered(c)'
      BY <1>1, <1>5, <2>1, <2>2, <3>1, <3>3
    <3> QED  BY <3>4, <3>5
  <2>4. ASSUME ~IsAccepted(c) PROVE ConnInv(c)'
    <3>1. /\ toProbe'[c] = SentToProbe(c, <<Msg("refused"), Msg("close")>>)
          /\ hostEnd'[c] = "closing" /\ registered' = registered
      <4>1. /\ toProbe' = [toProbe EXCEPT ![c] = SentToProbe(c, <<Msg("refused"), Msg("close")>>)]
            /\ hostEnd' = [hostEnd EXCEPT ![c] = "closing"]
            /\ UNCHANGED tableVars
        BY <1>7, <2>4, Zenon DEF HandshakeArrives
      <4> QED  BY <4>1 DEF LinkInv, BridgeTypeOK, tableVars
    <3>2. /\ <<Msg("refused"), Msg("close")>> \in Seq(ProbeMsg)
          /\ \A t : Has(<<Msg("refused"), Msg("close")>>, t) <=> t \in {"refused", "close"}
      BY ProbeMessages, Sent
    <3>3. /\ \A t : Has(SentToProbe(c, <<Msg("refused"), Msg("close")>>), t)
                   <=> Has(toProbe[c], t) \/ (~cut[c] /\ IsUp(c) /\ t \in {"refused", "close"})
          /\ Behind(toProbe[c]) => Behind(SentToProbe(c, <<Msg("refused"), Msg("close")>>))
          /\ OnlyFirst(toProbe[c], "accept")
               => OnlyFirst(SentToProbe(c, <<Msg("refused"), Msg("close")>>), "accept")
          /\ cut[c] \/ ~IsUp(c) => SentToProbe(c, <<Msg("refused"), Msg("close")>>) = toProbe[c]
      <4>1. /\ ~Has(<<Msg("refused"), Msg("close")>>, "accept")
            /\ ~Has(<<Msg("refused"), Msg("close")>>, "command")
        BY <3>2
      <4>2. \A t : Has(SentToProbe(c, <<Msg("refused"), Msg("close")>>), t)
                    <=> \/ Has(toProbe[c], t)
                        \/ ~cut[c] /\ IsUp(c) /\ Has(<<Msg("refused"), Msg("close")>>, t)
        BY <3>2, ProbeGets
      <4>3. /\ Behind(toProbe[c]) => Behind(SentToProbe(c, <<Msg("refused"), Msg("close")>>))
            /\ OnlyFirst(toProbe[c], "accept")
                 => OnlyFirst(SentToProbe(c, <<Msg("refused"), Msg("close")>>), "accept")
            /\ cut[c] \/ ~IsUp(c) => SentToProbe(c, <<Msg("refused"), Msg("close")>>) = toProbe[c]
        BY <3>2, <4>1, ProbeGets
      <4> QED  BY <3>2, <4>2, <4>3
    <3>4. StreamEnds(c)' /\ HandshakeStage(c)'
      BY <1>1, <1>2, <2>1, <2>2, <3>1, <3>3
    <3>5. Accepted(c)' /\ CommandsOrdered(c)'
      BY <1>1, <1>5, <2>1, <2>2, <3>1, <3>3
    <3> QED  BY <3>4, <3>5
  <2> QED  BY <2>3, <2>4
<1>8. CASE HandshakeTimesOut(c)
  <2> DEFINE e == <<Msg("close")>>
  <2>1. hostEnd[c] = "pending" /\ hostEnd'[c] = "closing" /\ toProbe'[c] = SentToProbe(c, e)
    BY <1>8 DEF HandshakeTimesOut, LinkInv, BridgeTypeOK
  <2>2. UNCHANGED <<toHost, cut, registered>>
    BY <1>8 DEF HandshakeTimesOut, tableVars
  <2>3. e \in Seq(ProbeMsg) /\ \A t : Has(e, t) <=> t = "close"
    BY ProbeMessages, Sent
  <2> HIDE DEF e
  <2>4. CASE cut[c] \/ ~IsUp(c)
    <3>1. SentToProbe(c, e) = toProbe[c]
      BY <2>3, <2>4, ProbeGets
    <3>2. toProbe'[c] = toProbe[c]
      BY <2>1, <3>1
    <3> QED  BY <1>1, <2>1, <2>2, <2>4, <3>2
  <2>5. CASE ~cut[c] /\ IsUp(c)
    <3>1. \A t : Has(SentToProbe(c, e), t) <=> Has(toProbe[c], t) \/ t = "close"
      BY <2>3, <2>5, ProbeGets
    <3>2. Behind(SentToProbe(c, e))
      BY <1>5, <2>1, <2>3, <2>5, ProbeGets
    <3>3. OnlyFirst(toProbe[c], "accept") => OnlyFirst(SentToProbe(c, e), "accept")
      BY <2>3, ProbeGets
    <3> QED  BY <1>1, <2>1, <2>2, <2>5, <3>1, <3>2, <3>3
  <2> QED  BY <2>4, <2>5
<1>9. CASE MessageArrives(c)
  <2>1. /\ toHost[c] # <<>> /\ toHost'[c] = Tail(toHost[c]) /\ hostEnd[c] = "open"
        /\ UNCHANGED <<hostEnd, registered, toProbe, cut>>
    BY <1>9 DEF MessageArrives, Arrives, LinkInv, BridgeTypeOK, tableVars
  <2> QED  BY <1>1, <1>2, <2>1
<1>10. CASE CloseArrives(c)
  <2>1. /\ toHost[c] # <<>> /\ Head(toHost[c]).type = "close" /\ toHost'[c] = Tail(toHost[c])
        /\ hostEnd'[c] = "closing" /\ UNCHANGED <<registered, toProbe, cut>>
    BY <1>10 DEF CloseArrives, Arrives, LinkInv, BridgeTypeOK, tableVars
  <2>2. probeEnd[c] = "closed" /\ ~cut[c]
    BY <1>2, <2>1
  <2> QED  BY <1>1, <2>1, <2>2
<1>11. CASE HostCloses(c) \/ HostGivesUp(c)
  <2>1. /\ hostEnd[c] = "closing" \/ cut[c]
        /\ UNCHANGED <<toProbe, cut>>
    BY <1>11 DEF HostCloses, HostGivesUp, Closed, LinkInv, BridgeTypeOK
  <2>2. hostEnd'[c] = "closed" /\ toHost'[c] = <<>>
    BY <1>11 DEF HostCloses, HostGivesUp, Closed, LinkInv, BridgeTypeOK
  <2> QED  BY <1>1, <1>3, <2>1, <2>2
<1>12. CASE Cut(c)
  <2>1. cut'[c] /\ toHost'[c] = <<>> /\ toProbe'[c] = <<>> /\ UNCHANGED <<hostEnd, registered>>
    BY <1>12 DEF Cut, LinkInv, BridgeTypeOK, hostVars, tableVars
  <2> QED  BY <1>1, <1>3, <2>1
<1> QED  BY <1>6, <1>7, <1>8, <1>9, <1>10, <1>11, <1>12

LEMMA RequestKeepsConn ==
  ASSUME BridgeInv, NEW r \in Request, Ask(r) \/ ActionTimesOut(r), NEW d \in Conn
  PROVE  ConnInv(d)'
<1> USE DEF BridgeInv
<1>1. UNCHANGED <<probeEnd, owner, status, hostEnd, registered, toHost, cut>>
  BY DEF Ask, ActionTimesOut, probeVars, bridgeVars, tableVars, netVars
<1>2. CASE toProbe'[d] = toProbe[d]
  <2>1. Stays(d)
    BY <1>1, <1>2 DEF Stays
  <2> QED  BY <2>1, StaysKeepsConn
<1>3. CASE hostEnd[d] = "open" /\ toProbe'[d] = SentToProbe(d, <<CommandMsg(r)>>)
  <2>1. <<CommandMsg(r)>> \in Seq(ProbeMsg) /\ \A t : Has(<<CommandMsg(r)>>, t) <=> t = "command"
    BY ProbeMessages, Sent
  <2>2. \A t : Has(toProbe'[d], t) <=> Has(toProbe[d], t) \/ (~cut[d] /\ IsUp(d) /\ t = "command")
    <3>1. \A t : Has(SentToProbe(d, <<CommandMsg(r)>>), t)
                  <=> Has(toProbe[d], t) \/ (~cut[d] /\ IsUp(d) /\ Has(<<CommandMsg(r)>>, t))
      BY <2>1, ProbeGets
    <3> QED  BY <1>3, <2>1, <3>1
  <2>3. Behind(toProbe[d]) /\ Has(toProbe[d], "accepted") => Behind(toProbe'[d])
    BY <1>3, <2>1, ProbeGets
  <2>4. cut[d] \/ ~IsUp(d) => toProbe'[d] = toProbe[d]
    BY <1>3 DEF SentToProbe, IsUp
  <2> QED
    BY <1>1, <1>3, <2>2, <2>3, <2>4
       DEF ConnInv, StreamEnds, HandshakeStage, Accepted, CommandsOrdered, IsUp, NoAnswer
<1>4. \/ toProbe'[d] = toProbe[d]
      \/ hostEnd[d] = "open" /\ toProbe'[d] = SentToProbe(d, <<CommandMsg(r)>>)
  <2>1. \/ toProbe' = toProbe
        \/ \E c \in Conn : /\ hostEnd[c] = "open"
                          /\ toProbe' = [toProbe EXCEPT ![c] = SentToProbe(c, <<CommandMsg(r)>>)]
    BY DEF Ask, ActionTimesOut, netVars
  <2> QED  BY <2>1 DEF LinkInv, BridgeTypeOK
<1> QED  BY <1>2, <1>3, <1>4

LEMMA RestartKeepsConn ==
  ASSUME BridgeInv, HostRestarts, NEW d \in Conn
  PROVE  ConnInv(d)'
<1> USE DEF BridgeInv
<1>1. /\ hostEnd'[d] = "closed" /\ toHost'[d] = <<>> /\ registered' = {}
      /\ UNCHANGED <<probeEnd, owner, status, cut>>
      /\ toProbe'[d] = IF hostEnd[d] = "closed" THEN toProbe[d]
                       ELSE SentToProbe(d, <<Msg("reset")>>)
  BY DEF HostRestarts, probeVars, bridgeVars
<1>2. <<Msg("reset")>> \in Seq(ProbeMsg) /\ \A t : Has(<<Msg("reset")>>, t) <=> t = "reset"
  BY ProbeMessages, Sent
<1>3. /\ \A t : Has(SentToProbe(d, <<Msg("reset")>>), t)
               <=> Has(toProbe[d], t) \/ (~cut[d] /\ IsUp(d) /\ t = "reset")
      /\ Behind(toProbe[d]) => Behind(SentToProbe(d, <<Msg("reset")>>))
      /\ OnlyFirst(toProbe[d], "accept") => OnlyFirst(SentToProbe(d, <<Msg("reset")>>), "accept")
  BY <1>2, ProbeGets
<1>4. cut[d] => SentToProbe(d, <<Msg("reset")>>) = toProbe[d]
  BY DEF SentToProbe
<1>5. \A t : ~Has(<<>>, t)
  BY HasNone
<1> QED
  BY <1>1, <1>3, <1>4, <1>5
     DEF ConnInv, StreamEnds, HandshakeStage, Accepted, CommandsOrdered, IsUp, NoAnswer

LEMMA BridgeStart == Init => BridgeInv
<1> SUFFICES ASSUME Init, NEW d \in Conn PROVE ConnInv(d)
  BY LinksStart DEF BridgeInv
<1>1. \A t : ~Has(<<>>, t)
  BY HasNone
<1> QED
  BY <1>1 DEF Init, ConnInv, StreamEnds, HandshakeStage, Accepted, CommandsOrdered, IsUp

LEMMA BridgeStep == BridgeInv /\ [Next]_vars => BridgeInv'
<1> SUFFICES ASSUME BridgeInv, [Next]_vars, NEW d \in Conn PROVE ConnInv(d)'
  BY LinksStep DEF BridgeInv
<1>1. CASE PluginStep
  BY <1>1, DisableKeepsConn, PluginSendsKeepsConn, CrashKeepsConn, ReconnectKeepsConn,
     DialKeepsConn, PluginReadsKeepsConn, CloseKeepsConn DEF PluginStep
<1>2. CASE HostStep
  BY <1>2, RestartKeepsConn, ConnectionStepKeepsConn, OthersStay, RequestKeepsConn DEF HostStep
<1>3. CASE \E c \in Conn : Cut(c)
  BY <1>3, ConnectionStepKeepsConn, OthersStay
<1>4. CASE UNCHANGED vars
  <2>1. Stays(d)
    BY <1>4 DEF Stays, vars, probeVars, bridgeVars, hostVars, tableVars, netVars
  <2> QED  BY <2>1, StaysKeepsConn DEF BridgeInv
<1> QED  BY <1>1, <1>2, <1>3, <1>4 DEF Next

\* A bridge that is READY is in the backend's table, unless the connection is cut or
\* the backend has restarted; and a command finds its bridge READY (handleHandshake,
\* the handshake's timeout, onMessage).
THEOREM BridgeEndsAgree == Spec => []EndsAgree
<1>1. BridgeInv => EndsAgree
  <2> SUFFICES ASSUME BridgeInv, NEW c \in Conn
               PROVE  /\ IsReady(c) => \/ c \in registered /\ hostEnd[c] = "open"
                                       \/ cut[c]
                                       \/ \E i \in DOMAIN toProbe[c] : toProbe[c][i].type = "reset"
                      /\ Arrives(toProbe, c, "command") => status[owner[c]] = "READY"
    BY DEF EndsAgree
  <2>1. DOMAIN toProbe[c] = 1..Len(toProbe[c])
    BY DEF BridgeInv, LinkInv, BridgeTypeOK
  <2>2. IsReady(c) => \/ c \in registered /\ hostEnd[c] = "open"
                      \/ cut[c]
                      \/ \E i \in DOMAIN toProbe[c] : toProbe[c][i].type = "reset"
    BY <2>1 DEF BridgeInv, ConnInv, Accepted, IsReady, Has
  <2>3. ASSUME Arrives(toProbe, c, "command") PROVE status[owner[c]] = "READY"
    <3>1. IsUp(c)
      BY <2>3, ReaderIsUp DEF BridgeInv, Arrives
    <3>2. ~Behind(toProbe[c])
      BY <2>3, ProbeReads DEF BridgeInv, Arrives
    <3> QED  BY <3>1, <3>2 DEF BridgeInv, ConnInv, CommandsOrdered
  <2> QED  BY <2>2, <2>3
<1>2. Spec => []BridgeInv
  BY BridgeStart, BridgeStep, PTL DEF Spec
<1> QED  BY <1>1, <1>2, PTL

(***************************************************************************)
(* Snapshots.                                                              *)
(***************************************************************************)

\* The numbers of the snapshots in a stream, and their order.
Snaps(s) == {s[i].number : i \in {j \in 1..Len(s) : s[j].type = "snapshot"}}
Rising(s) == \A i, j \in 1..Len(s) :
               (i < j /\ s[i].type = "snapshot" /\ s[j].type = "snapshot")
                 => s[i].number < s[j].number

\* Snapshots are numbered as they are taken. Only the active bridge's client carries
\* new ones, and they are newer than what is shown and what is left over elsewhere.
SnapInv ==
  /\ latest <= taken
  /\ \A c \in Conn : Rising(toHost[c]) /\ \A n \in Snaps(toHost[c]) : n <= taken
  /\ \A c \in Conn : IsUp(c) => \A n \in Snaps(toHost[c]) :
       /\ owner[c] = active /\ latest <= n
       /\ \A d \in Conn : d # c => \A m \in Snaps(toHost[d]) : m < n

LEMMA SnapsNat == ASSUME NEW s \in Seq(HostMsg) PROVE Snaps(s) \subseteq Nat
<1>1. ASSUME NEW i \in 1..Len(s), s[i].type = "snapshot" PROVE s[i].number \in Nat
  <2>1. s[i] \in HostMsg
    BY ElementOfSeq
  <2> QED  BY <1>1, <2>1, HostMessages
<1> QED  BY <1>1 DEF Snaps

LEMMA SnapsNone ==
  /\ Snaps(<<>>) = {} /\ Rising(<<>>)
  /\ \A s : ~Has(s, "snapshot") => Snaps(s) = {} /\ Rising(s)
<1>1. \A s : ~Has(s, "snapshot") => Snaps(s) = {} /\ Rising(s)
  BY DEF Has, Snaps, Rising
<1> QED  BY <1>1, HasNone

LEMMA SnapsOne ==
  ASSUME NEW n \in Nat PROVE Snaps(<<SnapshotMsg(n)>>) = {n} /\ Rising(<<SnapshotMsg(n)>>)
<1>1. /\ Len(<<SnapshotMsg(n)>>) = 1 /\ <<SnapshotMsg(n)>>[1].type = "snapshot"
      /\ <<SnapshotMsg(n)>>[1].number = n
  BY DEF SnapshotMsg
<1>2. 1..1 = {1}  OBVIOUS
<1>3. Snaps(<<SnapshotMsg(n)>>) = {n}
  BY <1>1, <1>2 DEF Snaps
<1>4. Rising(<<SnapshotMsg(n)>>)
  BY <1>1, <1>2 DEF Rising
<1> QED  BY <1>3, <1>4

LEMMA SnapsMore ==
  ASSUME NEW s \in Seq(HostMsg), NEW e \in Seq(HostMsg), Rising(s), Rising(e),
         \A n \in Snaps(s), m \in Snaps(e) : n < m
  PROVE  Snaps(s \o e) \subseteq Snaps(s) \cup Snaps(e) /\ Rising(s \o e)
<1>1. /\ Len(s) \in Nat /\ Len(e) \in Nat /\ Len(s \o e) = Len(s) + Len(e)
      /\ \A i \in 1 .. Len(s) + Len(e) :
           (s \o e)[i] = IF i <= Len(s) THEN s[i] ELSE e[i - Len(s)]
  BY ConcatProperties, LenProperties
<1>2. ASSUME NEW i \in 1 .. Len(s) + Len(e), (s \o e)[i].type = "snapshot"
      PROVE  \/ i <= Len(s) /\ (s \o e)[i] = s[i] /\ s[i].number \in Snaps(s)
             \/ i > Len(s) /\ (s \o e)[i] = e[i - Len(s)] /\ i - Len(s) \in 1..Len(e)
                  /\ e[i - Len(s)].number \in Snaps(e)
  <2>1. CASE i <= Len(s)
    <3>1. i \in 1..Len(s) /\ (s \o e)[i] = s[i]
      BY <1>1, <2>1
    <3> QED  BY <1>2, <2>1, <3>1 DEF Snaps
  <2>2. CASE ~ (i <= Len(s))
    <3>1. i > Len(s) /\ (s \o e)[i] = e[i - Len(s)] /\ i - Len(s) \in 1..Len(e)
      BY <1>1, <2>2
    <3> QED  BY <1>2, <3>1 DEF Snaps
  <2> QED  BY <2>1, <2>2
<1>3. Snaps(s \o e) \subseteq Snaps(s) \cup Snaps(e)
  <2>1. SUFFICES ASSUME NEW i \in 1 .. Len(s) + Len(e), (s \o e)[i].type = "snapshot"
                 PROVE  (s \o e)[i].number \in Snaps(s) \cup Snaps(e)
    BY <1>1 DEF Snaps
  <2> QED  BY <1>2, <2>1
<1>4. ASSUME NEW i \in 1 .. Len(s) + Len(e), NEW j \in 1 .. Len(s) + Len(e), i < j,
             (s \o e)[i].type = "snapshot", (s \o e)[j].type = "snapshot"
      PROVE  (s \o e)[i].number < (s \o e)[j].number
  <2>1. CASE j <= Len(s)
    BY <1>1, <1>4, <2>1 DEF Rising
  <2>2. CASE i > Len(s)
    <3>1. /\ i - Len(s) \in 1..Len(e) /\ j - Len(s) \in 1..Len(e) /\ i - Len(s) < j - Len(s)
          /\ (s \o e)[i] = e[i - Len(s)] /\ (s \o e)[j] = e[j - Len(s)]
      BY <1>1, <1>4, <2>2
    <3> QED  BY <1>4, <3>1 DEF Rising
  <2>3. CASE i <= Len(s) /\ j > Len(s)
    <3>1. (s \o e)[i].number \in Snaps(s)
      BY <1>1, <1>2, <1>4, <2>3
    <3>2. (s \o e)[j].number \in Snaps(e)
      BY <1>1, <1>2, <1>4, <2>3
    <3> QED  BY <3>1, <3>2
  <2> QED  BY <1>1, <2>1, <2>2, <2>3
<1>5. Rising(s \o e)
  BY <1>1, <1>4 DEF Rising
<1> QED  BY <1>3, <1>5

LEMMA SnapsTail ==
  ASSUME NEW s \in Seq(HostMsg), s # <<>>, Rising(s)
  PROVE  /\ Snaps(Tail(s)) \subseteq Snaps(s) /\ Rising(Tail(s))
         /\ Head(s).type = "snapshot" => /\ Head(s).number \in Snaps(s)
                                        /\ \A n \in Snaps(Tail(s)) : Head(s).number < n
<1>1. /\ Len(s) \in Nat \ {0} /\ Len(Tail(s)) = Len(s) - 1 /\ Head(s) = s[1]
      /\ \A i \in 1 .. Len(Tail(s)) : Tail(s)[i] = s[i + 1] /\ i + 1 \in 1..Len(s)
  BY HeadTailProperties, EmptySeq
<1>2. Snaps(Tail(s)) \subseteq Snaps(s)
  BY <1>1 DEF Snaps
<1>3. Rising(Tail(s))
  <2>1. SUFFICES ASSUME NEW i \in 1..Len(Tail(s)), NEW j \in 1..Len(Tail(s)), i < j,
                        Tail(s)[i].type = "snapshot", Tail(s)[j].type = "snapshot"
                 PROVE  Tail(s)[i].number < Tail(s)[j].number
    BY DEF Rising
  <2>2. i + 1 < j + 1 /\ Tail(s)[i] = s[i + 1] /\ Tail(s)[j] = s[j + 1]
    BY <1>1, <2>1
  <2> QED  BY <1>1, <2>1, <2>2 DEF Rising
<1>4. ASSUME Head(s).type = "snapshot"
      PROVE  Head(s).number \in Snaps(s) /\ \A n \in Snaps(Tail(s)) : Head(s).number < n
  <2>1. Head(s).number \in Snaps(s)
    BY <1>1, <1>4 DEF Snaps
  <2>2. ASSUME NEW i \in 1..Len(Tail(s)), Tail(s)[i].type = "snapshot"
        PROVE  Head(s).number < Tail(s)[i].number
    <3>1. 1 < i + 1 /\ 1 \in 1..Len(s)
      BY <1>1
    <3> QED  BY <1>1, <1>4, <2>2, <3>1 DEF Rising
  <2> QED  BY <2>1, <2>2 DEF Snaps
<1> QED  BY <1>2, <1>3, <1>4

\* A step that adds no snapshot to any stream, and shows none.
LEMMA FewerSnaps ==
  ASSUME LinkInv, LinkInv', SnapInv, taken' = taken, latest' <= latest,
         \A c \in Conn : Snaps(toHost'[c]) \subseteq Snaps(toHost[c]) /\ Rising(toHost'[c]),
         \A c \in Conn : IsUp(c)' /\ Snaps(toHost'[c]) # {}
                           => IsUp(c) /\ owner'[c] = owner[c] /\ active' = active
  PROVE  SnapInv'
<1>1. latest \in Nat /\ latest' \in Nat /\ taken \in Nat
  BY DEF LinkInv, BridgeTypeOK
<1>2. \A c \in Conn : Snaps(toHost[c]) \subseteq Nat
  BY SnapsNat DEF LinkInv, BridgeTypeOK
<1>3. latest' <= taken' /\ \A c \in Conn : \A n \in Snaps(toHost'[c]) : n <= taken'
  BY <1>1, <1>2 DEF SnapInv
<1>4. ASSUME NEW c \in Conn, IsUp(c)', NEW n \in Snaps(toHost'[c])
      PROVE  /\ owner'[c] = active' /\ latest' <= n
             /\ \A d \in Conn : d # c => \A m \in Snaps(toHost'[d]) : m < n
  <2>1. n \in Snaps(toHost[c]) /\ n \in Nat /\ IsUp(c) /\ owner'[c] = owner[c] /\ active' = active
    BY <1>2, <1>4
  <2>2. /\ owner[c] = active /\ latest <= n
        /\ \A d \in Conn : d # c => \A m \in Snaps(toHost[d]) : m < n
    BY <2>1 DEF SnapInv
  <2> QED  BY <1>1, <2>1, <2>2
<1> QED  BY <1>3, <1>4 DEF SnapInv

\* A stream after something else was sent over it, ...
LEMMA NoSnapSent ==
  ASSUME LinkInv, SnapInv, NEW c \in Conn, NEW e \in Seq(HostMsg), ~Has(e, "snapshot")
  PROVE  /\ Snaps(SentToHost(c, e)) \subseteq Snaps(toHost[c])
         /\ Rising(SentToHost(c, e))
<1>1. Snaps(e) = {} /\ Rising(e)
  BY SnapsNone
<1>2. toHost[c] \in Seq(HostMsg) /\ Rising(toHost[c])
  BY DEF LinkInv, BridgeTypeOK, SnapInv
<1>3. Snaps(toHost[c] \o e) \subseteq Snaps(toHost[c]) \cup Snaps(e) /\ Rising(toHost[c] \o e)
  BY <1>1, <1>2, SnapsMore
<1> QED  BY <1>1, <1>2, <1>3 DEF SentToHost

\* ... and after something was read.
LEMMA SnapRead ==
  ASSUME LinkInv, SnapInv, NEW c \in Conn, toHost[c] # <<>>
  PROVE  /\ Snaps(Tail(toHost[c])) \subseteq Snaps(toHost[c]) /\ Rising(Tail(toHost[c]))
         /\ Head(toHost[c]).type = "snapshot"
              => /\ Head(toHost[c]).number \in Snaps(toHost[c])
                 /\ \A n \in Snaps(Tail(toHost[c])) : Head(toHost[c]).number < n
BY SnapsTail DEF LinkInv, BridgeTypeOK, SnapInv

LEMMA PluginStepKeepsSnaps ==
  ASSUME BridgeInv, LinkInv', SnapInv, PluginStep, ~TakeSnapshot
  PROVE  SnapInv' /\ latest' = latest
<1> USE DEF BridgeInv
<1>1. latest' = latest /\ taken' = taken /\ latest' <= latest
  <2>1. latest' = latest /\ taken' = taken
    BY DEF PluginStep, Disable, ServerCrashes, ReconnectDue, Enable, Reconnect, ProbeOpens,
           HandshakeAnswered, CommandArrives, ProbeCloses, ConnectionLost, DialFails, OnClose,
           Execute, hostVars, serviceVars
  <2> QED  BY <2>1 DEF LinkInv, BridgeTypeOK
<1>2. ASSUME NEW c \in Conn
      PROVE  Snaps(toHost'[c]) \subseteq Snaps(toHost[c]) /\ Rising(toHost'[c])
  <2>1. \/ toHost'[c] = toHost[c]
        \/ \E e \in Seq(HostMsg) : toHost'[c] = SentToHost(c, e) /\ ~Has(e, "snapshot")
    <3>1. \/ toHost'[c] = toHost[c]
          \/ toHost'[c] = SentToHost(c, <<Msg("close")>>)
          \/ toHost'[c] = SentToHost(c, <<Msg("handshake")>>)
          \/ \E t \in tasks : toHost'[c] = SentToHost(c, <<ResultMsg(t[1])>>)
      <4> USE DEF LinkInv, BridgeTypeOK
      <4>1. CASE \E b \in Bridge : \/ ReconnectDue(b)
                                  \/ \E d \in Conn : Enable(b, d) \/ Reconnect(b, d)
        BY <4>1 DEF ReconnectDue, Enable, Reconnect, netVars
      <4>2. CASE Disable
        BY <4>2 DEF Disable
      <4>3. CASE ServerCrashes
        BY <4>3 DEF ServerCrashes
      <4>4. CASE \E d \in Conn : ProbeOpens(d) \/ HandshakeAnswered(d) \/ CommandArrives(d)
        BY <4>4 DEF ProbeOpens, HandshakeAnswered, CommandArrives
      <4>5. CASE \E d \in Conn : ProbeCloses(d) \/ ConnectionLost(d) \/ DialFails(d)
        BY <4>5 DEF ProbeCloses, ConnectionLost, DialFails, OnClose
      <4>6. CASE \E t \in tasks : Execute(t)
        <5>1. PICK t \in tasks : Execute(t)
          BY <4>6
        <5> DEFINE to == client[t[2]]
        <5>2. \/ toHost' = toHost
              \/ toHost' = [toHost EXCEPT ![to] = SentToHost(to, <<ResultMsg(t[1])>>)]
          BY <5>1 DEF Execute, Send
        <5>3. \/ toHost' = toHost
              \/ \E k : toHost' = [toHost EXCEPT ![k] = SentToHost(k, <<ResultMsg(t[1])>>)]
          BY <5>2
        <5>4. toHost'[c] = toHost[c] \/ toHost'[c] = SentToHost(c, <<ResultMsg(t[1])>>)
          <6>1. CASE toHost' = toHost
            BY <6>1
          <6>2. ASSUME NEW k, toHost' = [toHost EXCEPT ![k] = SentToHost(k, <<ResultMsg(t[1])>>)]
                PROVE  toHost'[c] = toHost[c] \/ toHost'[c] = SentToHost(c, <<ResultMsg(t[1])>>)
            <7>1. CASE k = c
              BY <6>2, <7>1
            <7>2. CASE k # c
              BY <6>2, <7>2
            <7> QED  BY <7>1, <7>2
          <6> QED  BY <5>3, <6>1, <6>2
        <5> QED  BY <5>4
      <4> QED  BY <4>1, <4>2, <4>3, <4>4, <4>5, <4>6 DEF PluginStep
    <3>2. /\ <<Msg("close")>> \in Seq(HostMsg) /\ ~Has(<<Msg("close")>>, "snapshot")
          /\ <<Msg("handshake")>> \in Seq(HostMsg) /\ ~Has(<<Msg("handshake")>>, "snapshot")
      BY HostMessages, Sent
    <3>3. \A t \in tasks : /\ <<ResultMsg(t[1])>> \in Seq(HostMsg)
                          /\ ~Has(<<ResultMsg(t[1])>>, "snapshot")
      BY HostMessages, Sent DEF LinkInv, BridgeTypeOK
    <3> QED  BY <3>1, <3>2, <3>3
  <2> QED  BY <2>1, NoSnapSent DEF SnapInv
<1>3. ASSUME NEW c \in Conn, IsUp(c)', Snaps(toHost'[c]) # {}
      PROVE  IsUp(c) /\ owner'[c] = owner[c] /\ active' = active
  <2>1. Snaps(toHost[c]) # {}
    BY <1>2, <1>3
  <2>2. CASE \E b \in Bridge, d \in Conn : Enable(b, d) \/ Reconnect(b, d)
    <3>1. PICK b \in Bridge, d \in Conn : Enable(b, d) \/ Reconnect(b, d)
      BY <2>2
    <3>2. hostEnd[d] = "closed" /\ probeEnd' = [probeEnd EXCEPT ![d] = "dialling"]
          /\ owner' = [owner EXCEPT ![d] = b]
      BY <3>1 DEF Enable, Reconnect, Dial, IsFree
    <3>3. c # d
      BY <2>1, <3>2, SnapsNone DEF ConnInv, StreamEnds
    <3>4. IsUp(c) /\ owner'[c] = owner[c] /\ owner[c] \in Bridge
      BY <1>3, <3>2, <3>3 DEF LinkInv, ClientLinks, BridgeTypeOK, IsUp
    <3>5. active # NoBridge
      BY <2>1, <3>4, BridgeConstants DEF SnapInv
    <3> QED  BY <3>1, <3>4, <3>5 DEF Enable, Reconnect
  <2>3. CASE Disable
    <3>1. IsUp(c) /\ c # client[active]
      BY <1>3, <2>3, BridgeConstants DEF Disable, LinkInv, BridgeTypeOK, IsUp
    <3>2. owner[c] = active
      BY <2>1, <3>1 DEF SnapInv
    <3> QED  BY <3>1, <3>2 DEF LinkInv, ClientLinks
  <2>4. CASE ServerCrashes
    BY <1>3, <2>4 DEF ServerCrashes, IsUp
  <2>5. CASE \/ \E b \in Bridge : ReconnectDue(b)
             \/ \E d \in Conn : \/ ProbeOpens(d) \/ HandshakeAnswered(d) \/ CommandArrives(d)
                              \/ ProbeCloses(d) \/ ConnectionLost(d) \/ DialFails(d)
             \/ \E t \in tasks : Execute(t)
    <3>1. owner' = owner /\ active' = active
      BY <2>5 DEF ReconnectDue, ProbeOpens, HandshakeAnswered, CommandArrives, ProbeCloses,
                  ConnectionLost, DialFails, OnClose, Execute, bridgeVars
    <3>2. IsUp(c)
      <4>1. CASE \E d \in Conn : ProbeOpens(d)
        BY <1>3, <4>1, ReaderIsUp DEF ProbeOpens, Arrives, IsUp, LinkInv, BridgeTypeOK
      <4>2. CASE probeEnd' = probeEnd
        BY <1>3, <4>2 DEF IsUp
      <4>3. CASE \E d \in Conn : probeEnd' = [probeEnd EXCEPT ![d] = "closed"]
        BY <1>3, <4>3 DEF IsUp, LinkInv, BridgeTypeOK
      <4> QED
        BY <2>5, <4>1, <4>2, <4>3
           DEF ReconnectDue, HandshakeAnswered, CommandArrives, ProbeCloses, ConnectionLost,
               DialFails, OnClose, Execute
    <3> QED  BY <3>1, <3>2
  <2> QED  BY <2>2, <2>3, <2>4, <2>5 DEF PluginStep
<1> QED  BY <1>1, <1>2, <1>3, FewerSnaps

LEMMA SnapshotKeepsSnaps ==
  ASSUME BridgeInv, LinkInv', SnapInv, TakeSnapshot
  PROVE  SnapInv' /\ latest' = latest
<1> USE DEF BridgeInv
<1> DEFINE c == client[active]
           e == <<SnapshotMsg(taken + 1)>>
<1>1. /\ latest \in Nat /\ taken \in Nat /\ taken' = taken + 1 /\ latest' = latest
      /\ UNCHANGED <<active, client, probeEnd, owner>> /\ active \in Bridge
  BY DEF TakeSnapshot, LinkInv, BridgeTypeOK, bridgeVars, hostVars, serviceVars
<1>2. \A d \in Conn : Snaps(toHost[d]) \subseteq Nat
  BY SnapsNat DEF LinkInv, BridgeTypeOK
<1>3. e \in Seq(HostMsg) /\ Snaps(e) = {taken + 1} /\ Rising(e)
  BY <1>1, HostMessages, SnapsOne
<1> HIDE DEF e
<1>4. ASSUME NEW d \in Conn
      PROVE  /\ Rising(toHost'[d])
             /\ \/ Snaps(toHost'[d]) \subseteq Snaps(toHost[d])
                \/ d = c /\ IsUp(c) /\ owner[c] = active
                    /\ Snaps(toHost'[d]) \subseteq Snaps(toHost[d]) \cup {taken + 1}
  <2>1. \/ toHost'[d] = toHost[d]
        \/ d = c /\ c # NoConn /\ toHost'[d] = toHost[d] \o e
    <3>1. \/ toHost' = toHost
          \/ c # NoConn /\ toHost' = [toHost EXCEPT ![c] = SentToHost(c, e)]
      BY DEF TakeSnapshot, Send, e
    <3>2. toHost'[d] = toHost[d] \/ (d = c /\ c # NoConn /\ toHost'[d] = SentToHost(d, e))
      BY <3>1 DEF LinkInv, BridgeTypeOK
    <3>3. SentToHost(d, e) = toHost[d] \/ SentToHost(d, e) = toHost[d] \o e
      BY DEF SentToHost
    <3> QED  BY <3>2, <3>3
  <2>2. CASE toHost'[d] = toHost[d]
    BY <2>2 DEF SnapInv
  <2>3. CASE d = c /\ c # NoConn /\ toHost'[d] = toHost[d] \o e
    <3>1. IsUp(c) /\ owner[c] = active
      BY <1>1, <2>3 DEF LinkInv, ClientLinks
    <3>2. ASSUME NEW n \in Snaps(toHost[d]), NEW m \in Snaps(e) PROVE n < m
      <4>1. n \in Nat /\ n <= taken /\ m = taken + 1
        BY <1>2, <1>3 DEF SnapInv
      <4> QED  BY <1>1, <4>1
    <3>3. toHost[d] \in Seq(HostMsg) /\ Rising(toHost[d])
      BY DEF LinkInv, BridgeTypeOK, SnapInv
    <3>4. Snaps(toHost[d] \o e) \subseteq Snaps(toHost[d]) \cup Snaps(e) /\ Rising(toHost[d] \o e)
      BY <1>3, <3>2, <3>3, SnapsMore
    <3> QED  BY <1>3, <2>3, <3>1, <3>4
  <2> QED  BY <2>1, <2>2, <2>3
<1>5. ASSUME NEW d \in Conn, NEW n \in Snaps(toHost'[d])
      PROVE  /\ n \in Nat /\ n <= taken + 1
             /\ \/ n \in Snaps(toHost[d]) /\ n <= taken
                \/ n = taken + 1 /\ d = c /\ owner[c] = active
  <2>1. CASE n \in Snaps(toHost[d])
    <3>1. n \in Nat /\ n <= taken
      BY <1>2, <2>1 DEF SnapInv
    <3> QED  BY <1>1, <2>1, <3>1
  <2>2. CASE n \notin Snaps(toHost[d])
    <3>1. n = taken + 1 /\ d = c /\ owner[c] = active
      BY <1>4, <1>5, <2>2
    <3> QED  BY <1>1, <3>1
  <2> QED  BY <2>1, <2>2
<1>6. ASSUME NEW d \in Conn, IsUp(d), NEW n \in Snaps(toHost'[d])
      PROVE  /\ owner[d] = active /\ latest <= n
             /\ \A f \in Conn : f # d => \A m \in Snaps(toHost'[f]) : m < n
  <2>1. CASE n \in Snaps(toHost[d]) /\ n <= taken
    <3>1. owner[d] = active /\ latest <= n
      BY <1>6, <2>1 DEF SnapInv
    <3>2. d = c
      BY <1>6, <3>1 DEF LinkInv, ClientLinks
    <3>3. ASSUME NEW f \in Conn, f # d, NEW m \in Snaps(toHost'[f]) PROVE m < n
      <4>1. m \in Snaps(toHost[f])
        BY <1>5, <3>2, <3>3
      <4> QED  BY <1>6, <2>1, <3>3, <4>1 DEF SnapInv
    <3> QED  BY <3>1, <3>3
  <2>2. CASE n = taken + 1 /\ d = c /\ owner[c] = active
    <3>1. latest <= n
      BY <1>1, <2>2 DEF SnapInv
    <3>2. ASSUME NEW f \in Conn, f # d, NEW m \in Snaps(toHost'[f]) PROVE m < n
      <4>1. m \in Nat /\ m <= taken
        BY <1>5, <2>2, <3>2
      <4> QED  BY <1>1, <2>2, <4>1
    <3> QED  BY <2>2, <3>1, <3>2
  <2> QED  BY <1>5, <1>6, <2>1, <2>2
<1>7. latest' <= taken'
  BY <1>1 DEF SnapInv
<1> QED  BY <1>1, <1>4, <1>5, <1>6, <1>7 DEF SnapInv, IsUp

LEMMA MessageKeepsSnaps ==
  ASSUME BridgeInv, LinkInv', SnapInv, NEW c \in Conn, MessageArrives(c)
  PROVE  /\ SnapInv'
         /\ latest' < latest => ~IsUp(c) /\ toHost'[c] # toHost[c]
<1> USE DEF BridgeInv
<1>1. /\ toHost[c] # <<>> /\ toHost'[c] = Tail(toHost[c])
      /\ \A d \in Conn : d # c => toHost'[d] = toHost[d]
      /\ UNCHANGED <<active, probeEnd, owner, taken>>
  BY DEF MessageArrives, Arrives, LinkInv, BridgeTypeOK, probeVars, bridgeVars
<1>2. \A d \in Conn : Snaps(toHost'[d]) \subseteq Snaps(toHost[d]) /\ Rising(toHost'[d])
  BY <1>1, SnapRead DEF SnapInv
<1>3. CASE latest' = latest
  <2>1. latest' <= latest /\ ~ (latest' < latest)
    BY <1>3 DEF LinkInv, BridgeTypeOK
  <2> QED  BY <1>1, <1>2, <2>1, FewerSnaps DEF IsUp
<1>4. CASE Head(toHost[c]).type = "snapshot" /\ latest' = Head(toHost[c]).number
  <2> DEFINE h == Head(toHost[c]).number
  <2>1. /\ h \in Snaps(toHost[c]) /\ h \in Nat /\ latest \in Nat /\ taken \in Nat
        /\ \A n \in Snaps(toHost'[c]) : h < n
        /\ \A d \in Conn : Snaps(toHost[d]) \subseteq Nat
    BY <1>1, <1>4, SnapRead, SnapsNat DEF LinkInv, BridgeTypeOK
  <2> HIDE DEF h
  <2>2. latest' = h
    BY <1>4 DEF h
  <2>3. h <= taken
    BY <2>1 DEF SnapInv
  <2>4. latest' < latest => ~IsUp(c)
    BY <2>1, <2>2 DEF SnapInv
  <2>5. toHost'[c] # toHost[c]
    <3>1. toHost[c] \in Seq(HostMsg)
      BY DEF LinkInv, BridgeTypeOK
    <3>2. Len(toHost[c]) \in Nat \ {0} /\ Len(Tail(toHost[c])) = Len(toHost[c]) - 1
      BY <1>1, <3>1, HeadTailProperties, EmptySeq
    <3>3. Len(Tail(toHost[c])) # Len(toHost[c])
      BY <3>2
    <3>4. Tail(toHost[c]) # toHost[c]
      BY <3>3
    <3> QED  BY <1>1, <3>4
  <2>6. ASSUME NEW d \in Conn, IsUp(d), NEW n \in Snaps(toHost'[d])
        PROVE  /\ owner[d] = active /\ h <= n
               /\ \A f \in Conn : f # d => \A m \in Snaps(toHost'[f]) : m < n
    <3>1. n \in Snaps(toHost[d]) /\ n \in Nat
      BY <1>2, <2>1, <2>6
    <3>2. owner[d] = active /\ \A f \in Conn : f # d => \A m \in Snaps(toHost[f]) : m < n
      BY <2>6, <3>1 DEF SnapInv
    <3>3. h <= n
      <4>1. CASE d = c
        BY <2>1, <2>6, <3>1, <4>1
      <4>2. CASE d # c
        BY <2>1, <3>1, <3>2, <4>2
      <4> QED  BY <4>1, <4>2
    <3> QED  BY <1>2, <3>2, <3>3
  <2>7. \A d \in Conn : Rising(toHost'[d]) /\ \A n \in Snaps(toHost'[d]) : n <= taken
    BY <1>2 DEF SnapInv
  <2> QED  BY <1>1, <2>2, <2>3, <2>4, <2>5, <2>6, <2>7 DEF SnapInv, IsUp
<1> QED  BY <1>3, <1>4 DEF MessageArrives, Arrives, OnSnapshot

LEMMA OtherStepKeepsSnaps ==
  ASSUME BridgeInv, LinkInv', SnapInv,
         \/ HostStep /\ ~\E c \in Conn : MessageArrives(c)
         \/ \E c \in Conn : Cut(c)
  PROVE  SnapInv' /\ (latest' = latest \/ latest' = 0)
<1> USE DEF BridgeInv
<1>1. /\ latest' = latest \/ latest' = 0
      /\ UNCHANGED <<active, probeEnd, owner, taken>>
  BY DEF HostStep, HostRestarts, HostAccepts, HandshakeArrives, HandshakeTimesOut, CloseArrives,
         HostCloses, HostGivesUp, Closed, Ask, ActionTimesOut, Cut, probeVars, bridgeVars, hostVars,
         serviceVars
<1>2. latest' <= latest
  BY <1>1 DEF LinkInv, BridgeTypeOK
<1>3. ASSUME NEW d \in Conn
      PROVE  Snaps(toHost'[d]) \subseteq Snaps(toHost[d]) /\ Rising(toHost'[d])
  <2>1. \/ toHost'[d] = toHost[d]
        \/ toHost'[d] = <<>>
        \/ toHost[d] # <<>> /\ toHost'[d] = Tail(toHost[d])
    <3> USE DEF LinkInv, BridgeTypeOK
    <3>1. CASE \E r \in Request : Ask(r) \/ ActionTimesOut(r)
      BY <3>1 DEF Ask, ActionTimesOut, netVars
    <3>5. CASE HostRestarts
      BY <3>5 DEF HostRestarts
    <3>2. CASE \E c \in Conn : HandshakeArrives(c) \/ CloseArrives(c)
      BY <3>2 DEF HandshakeArrives, CloseArrives, Arrives
    <3>3. CASE \E c \in Conn : HostAccepts(c) \/ HandshakeTimesOut(c)
      BY <3>3 DEF HostAccepts, HandshakeTimesOut
    <3>4. CASE \E c \in Conn : HostCloses(c) \/ HostGivesUp(c) \/ Cut(c)
      BY <3>4 DEF HostCloses, HostGivesUp, Closed, Cut
    <3> QED  BY <3>1, <3>2, <3>3, <3>4, <3>5 DEF HostStep
  <2> QED  BY <2>1, SnapRead, SnapsNone DEF SnapInv
<1> QED  BY <1>1, <1>2, <1>3, FewerSnaps DEF IsUp

\* What is shown does not go back while the backend reads the plugin's connection: the
\* newest snapshots are always on the client of the active bridge (onSnapshot, which
\* compares no numbers, and the plugin's snapshot timer).
THEOREM BridgeSnapshotsAdvance == Spec => SnapshotsAdvance
<1> DEFINE Goes == latest' < latest =>
                     \/ latest' = 0
                     \/ \E c \in registered : ~IsUp(c) /\ toHost'[c] # toHost[c]
<1>1. Init => SnapInv
  <2> SUFFICES ASSUME Init PROVE SnapInv  OBVIOUS
  <2> QED  BY SnapsNone DEF Init, SnapInv
<1>2. ASSUME BridgeInv, LinkInv', SnapInv, [Next]_vars
      PROVE  SnapInv' /\ [Goes]_vars
  <2>1. latest \in Nat
    BY <1>2 DEF BridgeInv, LinkInv, BridgeTypeOK
  <2>2. CASE PluginStep
    <3>1. SnapInv' /\ latest' = latest
      BY <1>2, <2>2, PluginStepKeepsSnaps, SnapshotKeepsSnaps
    <3> QED  BY <2>1, <3>1
  <2>3. CASE \E c \in Conn : MessageArrives(c)
    <3>1. PICK c \in Conn : MessageArrives(c)
      BY <2>3
    <3>2. c \in registered
      BY <3>1 DEF MessageArrives
    <3> QED  BY <1>2, <3>1, <3>2, MessageKeepsSnaps
  <2>4. CASE (HostStep /\ ~\E c \in Conn : MessageArrives(c)) \/ \E c \in Conn : Cut(c)
    <3>1. SnapInv' /\ (latest' = latest \/ latest' = 0)
      BY <1>2, <2>4, OtherStepKeepsSnaps
    <3> QED  BY <2>1, <3>1
  <2>5. CASE UNCHANGED vars
    BY <1>2, <2>5 DEF vars, probeVars, bridgeVars, hostVars, serviceVars, netVars, SnapInv, IsUp
  <2> QED  BY <1>2, <2>2, <2>3, <2>4, <2>5 DEF Next
<1>3. Spec => []BridgeInv
  BY BridgeStart, BridgeStep, PTL DEF Spec
<1>4. SnapshotsAdvance <=> [][Goes]_vars
  BY DEF SnapshotsAdvance
<1> QED  BY <1>1, <1>2, <1>3, <1>4, BridgeLinks, PTL DEF Spec

(***************************************************************************)
(* The plugin never gives up: the safety half of ServerIsReachedAgain.     *)
(***************************************************************************)

\* A bridge that is in use and has no connection is DISCONNECTED, so that its
\* timer's connect passes the checks, and has such a timer or is dialling.
DialIsDue ==
  \A b \in Bridge : ~stopped[b] /\ client[b] = NoConn =>
    status[b] = "DISCONNECTED" /\ (timers[b] # 0 \/ dialling[b])

NeverGivesUp ==
  \A b \in Bridge : ~stopped[b] =>
    \/ \E c \in Conn : IsUp(c) /\ owner[c] = b
    \/ dialling[b]
    \/ timers[b] # 0 /\ status[b] \notin {"READY", "CONNECTING"}

\* What the plugin reads is read from the client of its bridge.
LEMMA ReadsKeepDialling ==
  ASSUME LinkInv, DialIsDue, NEW c \in Conn,
         ProbeOpens(c) \/ HandshakeAnswered(c) \/ CommandArrives(c)
  PROVE  DialIsDue'
<1>1. IsUp(c) /\ owner[c] \in Bridge /\ client[owner[c]] = c /\ c # NoConn
  BY ReaderIsUp, BridgeConstants
     DEF ProbeOpens, HandshakeAnswered, CommandArrives, Arrives
<1>2. /\ UNCHANGED <<stopped, client, timers, dialling>>
      /\ \A b \in Bridge : b # owner[c] => status'[b] = status[b]
  BY <1>1 DEF ProbeOpens, HandshakeAnswered, CommandArrives, bridgeVars, LinkInv, BridgeTypeOK
<1> QED
  BY <1>1, <1>2 DEF DialIsDue

\* A close that finds its bridge in use arms a timer.
LEMMA CloseKeepsDialling ==
  ASSUME LinkInv, DialIsDue, NEW c \in Conn,
         ProbeCloses(c) \/ ConnectionLost(c) \/ DialFails(c)
  PROVE  DialIsDue'
<1>1. OnClose(c) /\ IsUp(c) /\ owner[c] \in Bridge /\ client[owner[c]] = c
  BY DEF ProbeCloses, ConnectionLost, DialFails, Arrives, IsUp, LinkInv, ClientLinks
<1>2. UNCHANGED <<stopped, dialling>>
  BY <1>1 DEF OnClose
<1>3. ASSUME NEW b \in Bridge, b # owner[c], ~stopped[b]
      PROVE  client'[b] = client[b] /\ status'[b] = status[b] /\ timers'[b] = timers[b]
  BY <1>1, <1>3 DEF OnClose, ScheduleReconnect, LinkInv, BridgeTypeOK
<1>4. ASSUME ~stopped[owner[c]]
      PROVE  status'[owner[c]] = "DISCONNECTED" /\ timers'[owner[c]] # 0
  <2>1. /\ status' = [status EXCEPT ![owner[c]] = "DISCONNECTED"]
        /\ timers' = [timers EXCEPT ![owner[c]] = timers[owner[c]] + 1]
    BY <1>1, <1>4 DEF OnClose, ScheduleReconnect
  <2>2. timers[owner[c]] \in Nat
    BY <1>1 DEF LinkInv, BridgeTypeOK
  <2> QED
    BY <1>1, <2>1, <2>2 DEF LinkInv, BridgeTypeOK
<1> QED
  BY <1>1, <1>2, <1>3, <1>4 DEF DialIsDue

\* No step leaves a bridge in use without a connection and without a dial.
LEMMA DiallingStep == LinkInv /\ DialIsDue /\ [Next]_vars => DialIsDue'
<1> SUFFICES ASSUME LinkInv, DialIsDue, [Next]_vars PROVE DialIsDue'
  OBVIOUS
<1> USE BridgeConstants
<1>1. ASSUME UNCHANGED <<stopped, client, timers, dialling, status>> PROVE DialIsDue'
  BY <1>1 DEF DialIsDue
<1>2. ASSUME NEW b \in Bridge, NEW c \in Conn, Enable(b, c) \/ Reconnect(b, c)
      PROVE  DialIsDue'
  <2>1. client' = [client EXCEPT ![b] = c] /\ c # NoConn
    BY <1>2 DEF Enable, Reconnect, Dial
  <2>2. client'[b] # NoConn
    BY <2>1 DEF LinkInv, BridgeTypeOK
  <2>3. ASSUME NEW d \in Bridge, d # b
        PROVE  /\ client'[d] = client[d] /\ status'[d] = status[d] /\ timers'[d] = timers[d]
               /\ stopped'[d] = stopped[d] /\ dialling'[d] = dialling[d]
    BY <1>2, <2>3 DEF Enable, Reconnect, Dial, LinkInv, BridgeTypeOK
  <2> QED
    BY <2>2, <2>3 DEF DialIsDue
<1>3. CASE Disable
  BY <1>3 DEF Disable, DialIsDue, LinkInv, BridgeTypeOK
<1>4. CASE ServerCrashes
  BY <1>4 DEF ServerCrashes, DialIsDue
<1>5. ASSUME NEW b \in Bridge, ReconnectDue(b) PROVE DialIsDue'
  <2>1. ~stopped[b] /\ client[b] = NoConn
    BY <1>5 DEF ReconnectDue, LinkInv, ClientLinks, BridgeTypeOK
  <2>2. dialling' = [dialling EXCEPT ![b] = TRUE]
    BY <1>5, <2>1 DEF ReconnectDue, DialIsDue, LinkInv, BridgeTypeOK
  <2> QED
    BY <1>5, <2>1, <2>2 DEF ReconnectDue, DialIsDue, LinkInv, BridgeTypeOK
<1>6. CASE TakeSnapshot \/ \E t \in tasks : Execute(t)
  BY <1>1, <1>6 DEF TakeSnapshot, Execute, bridgeVars
<1>7. CASE HostStep \/ \E c \in Conn : Cut(c)
  <2>1. UNCHANGED probeVars
    BY <1>7 DEF HostStep, HostRestarts, HostAccepts, HandshakeArrives, HandshakeTimesOut,
                MessageArrives, CloseArrives, HostCloses, HostGivesUp, Closed, Ask,
                ActionTimesOut, Cut
  <2> QED
    BY <1>1, <2>1 DEF probeVars, bridgeVars
<1>8. CASE UNCHANGED vars
  BY <1>1, <1>8 DEF vars, probeVars, bridgeVars
<1> QED
  BY <1>2, <1>3, <1>4, <1>5, <1>6, <1>7, <1>8, ReadsKeepDialling, CloseKeepsDialling
     DEF Next, PluginStep

\* A plugin that is enabled is connected, dials, or has a reconnect armed that
\* will not be turned away: no order of closes, cuts, refusals, crashes and
\* restarts leaves it waiting for nothing.
THEOREM BridgeNeverGivesUp == Spec => []NeverGivesUp
<1>1. Init => DialIsDue
  BY DEF Init, DialIsDue
<1>2. LinkInv /\ DialIsDue => NeverGivesUp
  <2> SUFFICES ASSUME LinkInv, DialIsDue, NEW b \in Bridge, ~stopped[b]
               PROVE  \/ \E c \in Conn : IsUp(c) /\ owner[c] = b
                      \/ dialling[b]
                      \/ timers[b] # 0 /\ status[b] \notin {"READY", "CONNECTING"}
    BY DEF NeverGivesUp
  <2> QED
    BY DEF LinkInv, ClientLinks, BridgeTypeOK, DialIsDue
<1> QED
  BY <1>1, <1>2, BridgeLinks, DiallingStep, PTL DEF Spec
=============================================================================
