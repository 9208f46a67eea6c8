------------------------- MODULE RelayClientsProofs -------------------------
(***************************************************************************)
(* Theorems about the client registry, for any set of endpoints, any       *)
(* number of connections and any channel capacity: its order and contents, *)
(* the shutdown, the sent_to lists, the statuses, the routes of a client   *)
(* and the metric of inactive ones, whichever runtime runs the tasks.      *)
(***************************************************************************)
EXTENDS RelayClients, OrderFacts, FiniteSetTheorems

USE ConnAssumption, SizeAssumption

-----------------------------------------------------------------------------
(***************************************************************************)
(* Facts about the operators.                                              *)
(***************************************************************************)
\* Both kinds of message belong to the message type.
LEMMA MessageType ==
  /\ \A e \in Endpoint : EndpointGone(e) \in Message
  /\ \A s \in Status : StatusMsg(s) \in Message
  BY DEF EndpointGone, StatusMsg, Message

\* Queueing a message respects the channel's type and capacity.
LEMMA QueuedType ==
  ASSUME TypeOK, NEW c \in Conn, NEW m \in Message
  PROVE  /\ Queued(c, m) \in [Conn -> Seq(Message)]
         /\ \A d \in Conn : Len(Queued(c, m)[d]) <= ChannelCapacity
<1>1. message_queue \in [Conn -> Seq(Message)]
  BY DEF TypeOK
<1>2. \A d \in Conn : Len(message_queue[d]) <= ChannelCapacity
  BY DEF TypeOK
<1>3. CASE CanQueueMessage(c)
  <2>1. Queued(c, m) = [message_queue EXCEPT ![c] = Append(@, m)]
    BY <1>3 DEF Queued
  <2>2. Len(message_queue[c]) < ChannelCapacity
    BY <1>3 DEF CanQueueMessage
  <2>3. /\ Append(message_queue[c], m) \in Seq(Message)
        /\ Len(Append(message_queue[c], m)) = Len(message_queue[c]) + 1
    BY <1>1
  <2>4. Len(message_queue[c]) \in Nat
    BY <1>1
  <2> QED BY <1>1, <1>2, <2>1, <2>2, <2>3, <2>4
<1>4. CASE ~CanQueueMessage(c)
  BY <1>1, <1>2, <1>4 DEF Queued
<1> QED BY <1>3, <1>4

\* Dropping the last element of a stack.
LEMMA FrontOf ==
  ASSUME NEW S, NEW s \in Seq(S), s # <<>>
  PROVE  /\ s[Len(s)] \in S
         /\ SubSeq(s, 1, Len(s) - 1) \in Seq(S)
         /\ DOMAIN SubSeq(s, 1, Len(s) - 1) = 1..(Len(s) - 1)
         /\ \A i \in 1..(Len(s) - 1) : SubSeq(s, 1, Len(s) - 1)[i] = s[i]
<1>1. Len(s) \in Nat /\ Len(s) > 0
  OBVIOUS
<1> QED BY <1>1

\* Pushing onto a stack.
LEMMA PushOnto ==
  ASSUME NEW S, NEW s \in Seq(S), NEW x \in S
  PROVE  /\ Append(s, x) \in Seq(S)
         /\ Len(s) \in Nat
         /\ DOMAIN s = 1..Len(s)
         /\ DOMAIN Append(s, x) = 1..(Len(s) + 1)
         /\ \A i \in 1..Len(s) : Append(s, x)[i] = s[i]
         /\ Append(s, x)[Len(s) + 1] = x
  OBVIOUS

\* r is what remains of s without c: the others, in order, and not c if ids are unique.
Remains(r, s, c) ==
  \E f \in [DOMAIN r -> DOMAIN s] :
    /\ \A i \in DOMAIN r : r[i] = s[f[i]]
    /\ \A i, j \in DOMAIN r : i < j => f[i] < f[j]
    /\ \A k \in DOMAIN s : s[k] # c => \E i \in DOMAIN r : f[i] = k
    /\ (\A i, j \in DOMAIN s : s[i] = s[j] => i = j) => \A i \in DOMAIN r : r[i] # c

\* retain() keeps the others, in order, and drops the connection if it occurs once.
LEMMA RetainIsSubsequence ==
  ASSUME NEW S, NEW s \in Seq(S), NEW c
  PROVE  Retain(s, c) \in Seq(S) /\ Remains(Retain(s, c), s, c)
<1>1. CASE c \in Elements(s)
  <2> DEFINE at == CHOOSE i \in DOMAIN s : s[i] = c
             f == [i \in 1..(Len(s) - 1) |-> IF i < at THEN i ELSE i + 1]
             r == [i \in 1..(Len(s) - 1) |-> s[IF i < at THEN i ELSE i + 1]]
  <2>1. at \in DOMAIN s /\ s[at] = c
    BY <1>1 DEF Elements
  <2>2. Len(s) \in Nat /\ DOMAIN s = 1..Len(s) /\ Len(s) >= 1
    BY <2>1
  <2>3. Retain(s, c) = r
    BY <1>1 DEF Retain
  <2> HIDE DEF at
  <2>4. \A i \in 1..(Len(s) - 1) : (IF i < at THEN i ELSE i + 1) \in 1..Len(s)
    BY <2>1, <2>2
  <2>5. r \in Seq(S) /\ DOMAIN r = 1..(Len(s) - 1)
    <3>1. \A i \in 1..(Len(s) - 1) : s[IF i < at THEN i ELSE i + 1] \in S
      BY <2>2, <2>4
    <3>2. Len(s) - 1 \in Nat
      BY <2>2
    <3> QED BY <3>1, <3>2
  <2>6. /\ f \in [DOMAIN r -> DOMAIN s]
        /\ \A i \in DOMAIN r : r[i] = s[f[i]]
        /\ \A i, j \in DOMAIN r : i < j => f[i] < f[j]
    BY <2>2, <2>4, <2>1
  <2>7. ASSUME NEW k \in DOMAIN s, s[k] # c
        PROVE  \E i \in DOMAIN r : f[i] = k
    <3>1. CASE k < at
      <4>1. k \in DOMAIN r /\ f[k] = k
        BY <3>1, <2>1, <2>2
      <4> QED BY <4>1
    <3>2. CASE k > at
      <4>1. k - 1 \in DOMAIN r /\ f[k - 1] = k
        BY <3>2, <2>1, <2>2
      <4> QED BY <4>1
    <3> QED BY <3>1, <3>2, <2>1, <2>2, <2>7
  <2>8. ASSUME \A i, j \in DOMAIN s : s[i] = s[j] => i = j, NEW i \in DOMAIN r
        PROVE  r[i] # c
    <3>1. f[i] \in DOMAIN s /\ f[i] # at /\ r[i] = s[f[i]]
      BY <2>6, <2>2, <2>1
    <3> QED BY <3>1, <2>8, <2>1
  <2> HIDE DEF f, r
  <2>9. /\ \A k \in DOMAIN s : s[k] # c => \E i \in DOMAIN r : f[i] = k
        /\ (\A i, j \in DOMAIN s : s[i] = s[j] => i = j) => \A i \in DOMAIN r : r[i] # c
    BY <2>7, <2>8
  <2>10. Remains(r, s, c)
    BY ONLY <2>6, <2>9 DEF Remains
  <2> QED BY <2>3, <2>5, <2>10
<1>2. CASE c \notin Elements(s)
  <2> DEFINE f == [i \in DOMAIN s |-> i]
  <2>1. Retain(s, c) = s
    BY <1>2 DEF Retain
  <2>2. \A i \in DOMAIN s : s[i] # c
    BY <1>2 DEF Elements
  <2>3. f \in [DOMAIN s -> DOMAIN s] /\ \A i \in DOMAIN s : f[i] = i
    OBVIOUS
  <2> QED BY <2>1, <2>2, <2>3 DEF Remains
<1> QED BY <1>1, <1>2

-----------------------------------------------------------------------------
(***************************************************************************)
(* Type correctness.                                                       *)
(***************************************************************************)
\* Every listed connection is a connection.
LEMMA ListedType ==
  ASSUME TypeOK, NEW e \in Endpoint
  PROVE  Listed(e) \subseteq Conn
<1>1. clients[e].active \in Conn \cup {NoConn} /\ clients[e].inactive \in Seq(Conn)
  BY DEF TypeOK
<1>2. Elements(clients[e].inactive) \subseteq Conn
  BY <1>1 DEF Elements
<1> QED BY <1>1, <1>2 DEF Listed

LEMMA InitType == Init => TypeOK
  BY DEF Init, TypeOK, NoEntry, ActorStates, Status, Healthy

\* Sending a status keeps the types of what it changes.
LEMMA TrySendHealthType ==
  ASSUME TypeOK, NEW c \in Conn, NEW s \in Status, TrySendHealth(c, s)
  PROVE  /\ message_queue' \in [Conn -> Seq(Message)]
         /\ \A d \in Conn : Len(message_queue'[d]) <= ChannelCapacity
         /\ statusLost' \in [Conn -> BOOLEAN]
<1>1. StatusMsg(s) \in Message
  BY MessageType
<1>2. /\ message_queue' \in [Conn -> Seq(Message)]
      /\ \A d \in Conn : Len(message_queue'[d]) <= ChannelCapacity
  BY <1>1, QueuedType DEF TrySendHealth
<1>3. statusLost' \in [Conn -> BOOLEAN]
  BY DEF TypeOK, TrySendHealth, CanQueueMessage
<1> QED BY <1>2, <1>3

LEMMA NextType == TypeOK /\ [Next]_vars => TypeOK'
<1> SUFFICES ASSUME TypeOK, [Next]_vars PROVE TypeOK'
  OBVIOUS
<1> USE DEF registryVars, queueVars, historyVars
<1>1. ASSUME NEW c \in Conn, ClientNew(c) PROVE TypeOK'
  BY <1>1 DEF TypeOK, ClientNew, ActorStates, RunningStates
<1>2. ASSUME NEW c \in Conn, RegisterInsert(c) PROVE TypeOK'
  <2> DEFINE e == EndpointOf[c]
  <2>1. e \in Endpoint /\ clients[e].active \in Conn \cup {NoConn}
                       /\ clients[e].inactive \in Seq(Conn)
    BY DEF TypeOK
  <2>2. Listed(e) \subseteq Conn
    BY <2>1, ListedType
  <2>3. older' \in [Conn -> SUBSET Conn] /\ reg' \in [Conn -> {"absent", "spawned", "inserted"}]
    BY <1>2, <2>2 DEF TypeOK, RegisterInsert
  <2>4. CASE clients[e] = NoEntry
    <3>1. clients' = [clients EXCEPT ![e] = [active |-> c, inactive |-> <<>>]]
          /\ UNCHANGED <<inactive_metric, message_queue, statusLost>>
      BY <1>2, <2>4 DEF RegisterInsert, NoEntry
    <3> QED BY <1>2, <2>1, <2>3, <3>1 DEF TypeOK, RegisterInsert
  <2>5. CASE clients[e].active # NoConn
    <3>1. /\ clients' = [clients EXCEPT ![e] =
                [active |-> c, inactive |-> Append(@.inactive, clients[e].active)]]
          /\ TrySendHealth(clients[e].active, SameEndpointIdConnected)
          /\ inactive_metric' = inactive_metric + 1
      BY <1>2, <2>5 DEF RegisterInsert, NoEntry
    <3>2. clients[e].active \in Conn
      BY <2>1, <2>5
    <3>3. Append(clients[e].inactive, clients[e].active) \in Seq(Conn)
      BY <2>1, <3>2
    <3>4. clients' \in [Endpoint -> [active : Conn \cup {NoConn}, inactive : Seq(Conn)]]
      BY <2>1, <3>1, <3>3 DEF TypeOK
    <3>5. /\ message_queue' \in [Conn -> Seq(Message)]
          /\ \A d \in Conn : Len(message_queue'[d]) <= ChannelCapacity
          /\ statusLost' \in [Conn -> BOOLEAN]
      BY <3>1, <3>2, TrySendHealthType DEF Status
    <3>6. UNCHANGED <<sent_to, actor, done, packet_queue, sending, notify_peers, shutdown,
                      told, routes, goneMissed, overtaken, late, atShutdown>>
      BY <1>2 DEF RegisterInsert
    <3>7. inactive_metric' \in Int
      BY <3>1 DEF TypeOK
    <3> QED BY <2>3, <3>4, <3>5, <3>6, <3>7 DEF TypeOK
  <2> QED BY <1>2, <2>4, <2>5 DEF RegisterInsert
<1>3. ASSUME NEW c \in Conn, StreamFails(c) PROVE TypeOK'
  BY <1>3 DEF TypeOK, StreamFails, ActorStates, RunningStates
<1>4. ASSUME NEW c \in Conn, RecordSentTo(c) PROVE TypeOK'
  BY <1>4 DEF TypeOK, RecordSentTo, ActorStates, RunningStates
<1>5. ASSUME NEW c \in Conn, WritePacket(c) PROVE TypeOK'
  BY <1>5 DEF TypeOK, WritePacket, ActorStates, RunningStates
<1>6. ASSUME NEW c \in Conn, PollMessages(c) PROVE TypeOK'
  BY <1>6 DEF TypeOK, PollMessages, ActorStates, RunningStates
<1>7. ASSUME NEW c \in Conn, WriteMessage(c) PROVE TypeOK'
  <2> DEFINE m == Head(message_queue[c])
  <2>1. m \in Message /\ Tail(message_queue[c]) \in Seq(Message)
        /\ Len(Tail(message_queue[c])) <= ChannelCapacity
    BY <1>7 DEF TypeOK, WriteMessage
  <2>2. (m[1] = "Status" => m[2] \in Status) /\ (m[1] = "EndpointGone" => m[2] \in Endpoint)
    BY <2>1 DEF Message
  <2>3. LearnStatus(c, m) \in [Conn -> Status]
    BY <2>2 DEF TypeOK, LearnStatus
  <2>4. LearnGone(c, m) \in [Conn -> SUBSET Endpoint]
    BY <2>2 DEF TypeOK, LearnGone
  <2>5. Overtakes(c, m) \in [Conn -> SUBSET Endpoint]
    BY <2>2 DEF TypeOK, Overtakes
  <2> QED BY <1>7, <2>1, <2>3, <2>4, <2>5 DEF TypeOK, WriteMessage, ActorStates, RunningStates
<1>8. ASSUME NEW c \in Conn, NoMessages(c) PROVE TypeOK'
  BY <1>8 DEF TypeOK, NoMessages, ActorStates, RunningStates
<1>9. ASSUME NEW c \in Conn, Cancelled(c) PROVE TypeOK'
  BY <1>9 DEF TypeOK, Cancelled, ActorStates, RunningStates
<1>10. ASSUME NEW c \in Conn, Unregister(c) PROVE TypeOK'
  <2> DEFINE e == EndpointOf[c]
  <2>1. e \in Endpoint /\ clients[e].active \in Conn \cup {NoConn}
                       /\ clients[e].inactive \in Seq(Conn)
    BY DEF TypeOK
  <2>2. actor' \in [Conn -> ActorStates] /\ late' \in [Conn -> BOOLEAN]
    BY <1>10 DEF TypeOK, Unregister, ActorStates
  <2>3. InactiveRemoved => inactive_metric' \in Int
    BY DEF TypeOK, InactiveRemoved
  <2>4. CASE Promote(c, e)
    <3>1. clients[e].inactive[Len(clients[e].inactive)] \in Conn
          /\ SubSeq(clients[e].inactive, 1, Len(clients[e].inactive) - 1) \in Seq(Conn)
      BY <2>1, <2>4, FrontOf DEF Promote
    <3>2. clients' \in [Endpoint -> [active : Conn \cup {NoConn}, inactive : Seq(Conn)]]
      BY <2>1, <2>4, <3>1 DEF TypeOK, Promote
    <3>3. /\ message_queue' \in [Conn -> Seq(Message)]
          /\ \A d \in Conn : Len(message_queue'[d]) <= ChannelCapacity
          /\ statusLost' \in [Conn -> BOOLEAN]
      BY <2>4, <3>1, TrySendHealthType DEF Promote, Status
    <3> QED BY <1>10, <2>2, <2>3, <2>4, <3>2, <3>3 DEF TypeOK, Unregister, Promote
  <2>5. CASE RemoveEntry(c, e)
    BY <1>10, <2>1, <2>2, <2>5 DEF TypeOK, Unregister, RemoveEntry, NoEntry
  <2>6. CASE RetainOthers(c, e)
    <3>1. Retain(clients[e].inactive, c) \in Seq(Conn)
      BY <2>1, RetainIsSubsequence
    <3>2. clients' \in [Endpoint -> [active : Conn \cup {NoConn}, inactive : Seq(Conn)]]
      BY <2>1, <2>6, <3>1 DEF TypeOK, RetainOthers
    <3> QED BY <1>10, <2>2, <2>3, <2>6, <3>2 DEF TypeOK, Unregister, RetainOthers
  <2>7. CASE NothingToRemove(e)
    BY <1>10, <2>2, <2>7 DEF TypeOK, Unregister, NothingToRemove
  <2> QED BY <1>10, <2>4, <2>5, <2>6, <2>7 DEF Unregister
<1>11. ASSUME NEW c \in Conn, ActorEnd(c) PROVE TypeOK'
  BY <1>11 DEF TypeOK, ActorEnd, ActorStates, Status, Healthy
<1>12. ASSUME NEW c \in Conn, NEW peer \in Endpoint, NotifyPeer(c, peer) PROVE TypeOK'
  <2> DEFINE e == EndpointOf[c]
             d == clients[peer].active
             given == d # NoConn /\ CanQueueMessage(d)
  <2>1. e \in Endpoint /\ d \in Conn \cup {NoConn}
    BY DEF TypeOK
  <2>2. /\ message_queue' \in [Conn -> Seq(Message)]
        /\ \A x \in Conn : Len(message_queue'[x]) <= ChannelCapacity
    <3>1. CASE given
      BY <1>12, <2>1, <3>1, MessageType, QueuedType DEF NotifyPeer
    <3>2. CASE ~given
      BY <1>12, <3>2 DEF NotifyPeer, TypeOK
    <3> QED BY <3>1, <3>2
  <2>3. goneMissed' \in [Conn -> SUBSET Endpoint]
    BY <1>12, <2>1 DEF TypeOK, NotifyPeer
  <2>4. notify_peers' \in [Conn -> SUBSET Endpoint]
    BY <1>12 DEF TypeOK, NotifyPeer
  <2> QED BY <1>12, <2>2, <2>3, <2>4 DEF TypeOK, NotifyPeer
<1>13. ASSUME NEW c \in Conn, NEW dst \in Destination, SendPacketQueued(c, dst) PROVE TypeOK'
  <2> DEFINE d == clients[dst].active
  <2>1. dst \in Endpoint /\ d \in Conn
    BY <1>13 DEF TypeOK, SendPacketQueued
  <2>2. /\ packet_queue' \in [Conn -> Seq(Endpoint)]
        /\ \A x \in Conn : Len(packet_queue'[x]) <= ChannelCapacity
    <3>1. /\ Append(packet_queue[d], EndpointOf[c]) \in Seq(Endpoint)
          /\ Len(Append(packet_queue[d], EndpointOf[c])) = Len(packet_queue[d]) + 1
          /\ Len(packet_queue[d]) \in Nat
      BY <2>1 DEF TypeOK
    <3> QED BY <1>13, <2>1, <3>1 DEF TypeOK, SendPacketQueued
  <2> QED BY <1>13, <2>1, <2>2 DEF TypeOK, SendPacketQueued, ActorStates, RunningStates
<1>14. ASSUME NEW c \in Conn, NEW dst \in Destination, SendPacketClosed(c, dst) PROVE TypeOK'
  BY <1>14 DEF TypeOK, SendPacketClosed
<1>15. ASSUME NEW e \in Endpoint, Disconnect(e) PROVE TypeOK'
  <2>1. done' \in [Conn -> BOOLEAN]
    BY <1>15 DEF TypeOK, Disconnect, Cancel
  <2> QED BY <1>15, <2>1 DEF TypeOK, Disconnect
<1>16. CASE ShutdownBegin
  <2>1. UNION {Listed(e) : e \in Endpoint} \subseteq Conn
    BY ListedType
  <2> QED BY <1>16, <2>1 DEF TypeOK, ShutdownBegin
<1>17. CASE ShutdownCancel
  <2>1. done' \in [Conn -> BOOLEAN]
    BY <1>17 DEF TypeOK, ShutdownCancel, Cancel
  <2> QED BY <1>17, <2>1 DEF TypeOK, ShutdownCancel
<1>18. CASE ShutdownReturn
  BY <1>18 DEF TypeOK, ShutdownReturn
<1>19. ASSUME NEW e \in Endpoint, ShutdownCollect(e) PROVE TypeOK'
  BY <1>19 DEF TypeOK, ShutdownCollect
<1>20. ASSUME NEW e \in Endpoint, ShutdownRemove(e) PROVE TypeOK'
  <2>1. Listed(e) \subseteq Conn
    BY ListedType
  <2>2. clients' \in [Endpoint -> [active : Conn \cup {NoConn}, inactive : Seq(Conn)]]
    BY <1>20 DEF TypeOK, ShutdownRemove, NoEntry
  <2>3. shutdown' \in [stage : {"up", "collect", "remove", "await", "down"},
                       unvisited : SUBSET Endpoint, keys : SUBSET Endpoint,
                       awaited : SUBSET Conn]
    BY <1>20, <2>1 DEF TypeOK, ShutdownRemove
  <2> QED BY <1>20, <2>2, <2>3 DEF TypeOK, ShutdownRemove
<1>21. CASE UNCHANGED vars
  BY <1>21 DEF TypeOK, vars
<1> QED BY <1>1, <1>2, <1>3, <1>4, <1>5, <1>6, <1>7, <1>8, <1>9, <1>10, <1>11, <1>12, <1>13,
           <1>14, <1>15, <1>16, <1>17, <1>18, <1>19, <1>20, <1>21
        DEF Next, ActorStep, ShutdownStep

\* Every variable keeps its type, and both channels of every connection stay
\* within Config::channel_capacity, in every behaviour of the registry.
THEOREM TypeCorrect == Spec => []TypeOK
<1>1. Init => TypeOK
  BY InitType
<1>2. TypeOK /\ [Next]_vars => TypeOK'
  BY NextType
<1> QED BY <1>1, <1>2, PTL DEF Spec

-----------------------------------------------------------------------------
(***************************************************************************)
(* The registry's inductive invariant.  RunningIsListed and                *)
(* DeadEntriesAreLate need the order of the stack (a connection must not   *)
(* occur twice, or removing it would leave a copy behind) and the fact     *)
(* that an actor which overtook register() is remembered as late.          *)
(***************************************************************************)
LateIsRecorded ==
  \A c \in Conn : reg[c] = "spawned" /\ actor[c] \in {"notify", "exited"} => late[c]

RegistryInv ==
  /\ MostRecentIsActive
  /\ RunningIsListed
  /\ DeadEntriesAreLate
  /\ LateIsRecorded

LEMMA InitRegistry == Init => RegistryInv
<1> SUFFICES ASSUME Init PROVE RegistryInv
  OBVIOUS
<1>1. \A e \in Endpoint : clients[e].active = NoConn /\ clients[e].inactive = <<>>
  BY DEF Init, NoEntry
<1>2. \A e \in Endpoint : Listed(e) = {}
  BY <1>1 DEF Listed, Elements
<1>3. MostRecentIsActive
  BY <1>1, <1>2 DEF MostRecentIsActive
<1>4. RunningIsListed /\ DeadEntriesAreLate /\ LateIsRecorded
  BY <1>2 DEF Init, RunningIsListed, DeadEntriesAreLate, LateIsRecorded
<1> QED BY <1>3, <1>4 DEF RegistryInv

\* A step that leaves the registry alone and moves actors only between running
\* states keeps the invariant.
LEMMA RegistryFrame ==
  ASSUME RegistryInv,
         UNCHANGED <<clients, reg, older, late>>,
         shutdown'.awaited = shutdown.awaited,
         \A c \in Conn : \/ actor'[c] = actor[c]
                         \/ actor[c] \in RunningStates /\ actor'[c] \in RunningStates
  PROVE  RegistryInv'
<1>1. \A e \in Endpoint : Listed(e)' = Listed(e)
  BY DEF Listed, Elements
<1>2. MostRecentIsActive'
  BY <1>1 DEF RegistryInv, MostRecentIsActive
<1>3. \A c \in Conn : EndpointOf[c] \in Endpoint
  OBVIOUS
<1>4. \A s \in {"notify", "exited"} : s \notin RunningStates
  BY DEF RunningStates
<1>5. RunningIsListed'
  BY <1>1, <1>3 DEF RegistryInv, RunningIsListed
<1>6. DeadEntriesAreLate' /\ LateIsRecorded'
  BY <1>1, <1>3, <1>4 DEF RegistryInv, DeadEntriesAreLate, LateIsRecorded
<1> QED BY <1>2, <1>5, <1>6 DEF RegistryInv

\* A listed connection is registered under its own endpoint.
LEMMA ListedOwn ==
  ASSUME TypeOK, MostRecentIsActive, NEW e \in Endpoint, NEW c \in Listed(e)
  PROVE  c \in Conn /\ EndpointOf[c] = e /\ reg[c] = "inserted"
  BY ListedType DEF MostRecentIsActive

LEMMA ClientNewRegistry ==
  ASSUME TypeOK, RegistryInv, NEW c \in Conn, ClientNew(c)
  PROVE  RegistryInv'
<1> USE DEF registryVars, queueVars
<1>1. UNCHANGED <<clients, shutdown>>
  BY DEF ClientNew
<1>2. \A e \in Endpoint : Listed(e)' = Listed(e)
  BY <1>1 DEF Listed, Elements
<1>3. \A e \in Endpoint : c \notin Listed(e)
  BY ListedOwn DEF ClientNew, Fresh, RegistryInv
<1>4. \A d \in Conn : d # c => reg'[d] = reg[d] /\ actor'[d] = actor[d] /\ late'[d] = late[d]
  BY DEF ClientNew, TypeOK
<1>5. reg'[c] = "spawned" /\ actor'[c] = "select"
  BY DEF ClientNew, TypeOK
<1>6. MostRecentIsActive'
  <2> SUFFICES ASSUME NEW e \in Endpoint
               PROVE  LET s == clients[e].inactive IN
                 /\ clients[e].active = NoConn => s = <<>>
                 /\ \A d \in Listed(e) : EndpointOf[d] = e /\ reg'[d] = "inserted"
                 /\ \A i, j \in DOMAIN s : i < j => s[i] \in older'[s[j]] /\ s[i] # s[j]
                 /\ clients[e].active # NoConn =>
                      \A i \in DOMAIN s : s[i] \in older'[clients[e].active]
                                          /\ s[i] # clients[e].active
    BY <1>1, <1>2 DEF MostRecentIsActive
  <2> DEFINE s == clients[e].inactive
  <2>1. \A i \in DOMAIN s : s[i] \in Listed(e)
    BY DEF Listed, Elements
  <2>2. \A d \in Listed(e) : d \in Conn /\ d # c
    BY <1>3, ListedType
  <2>3. clients[e].active # NoConn => clients[e].active \in Listed(e)
    BY DEF Listed
  <2>4. \A d \in Conn : \A x : x \in older[d] /\ x # c => x \in older'[d]
    BY DEF ClientNew
  <2> HIDE DEF s
  <2> QED BY <1>4, <2>1, <2>2, <2>3, <2>4 DEF RegistryInv, MostRecentIsActive, s
<1>7. RunningIsListed'
  BY <1>1, <1>2, <1>4, <1>5 DEF RegistryInv, RunningIsListed
<1>8. DeadEntriesAreLate' /\ LateIsRecorded'
  BY <1>2, <1>4, <1>5 DEF RegistryInv, DeadEntriesAreLate, LateIsRecorded
<1> QED BY <1>6, <1>7, <1>8 DEF RegistryInv

LEMMA RegisterInsertRegistry ==
  ASSUME TypeOK, RegistryInv, NEW c \in Conn, RegisterInsert(c)
  PROVE  RegistryInv'
<1> DEFINE e == EndpointOf[c]
           s == clients[e].inactive
<1>1. e \in Endpoint /\ clients[e].active \in Conn \cup {NoConn} /\ s \in Seq(Conn)
  BY DEF TypeOK
<1>2. UNCHANGED <<actor, late, shutdown>>
  BY DEF RegisterInsert
<1>3. /\ reg' = [reg EXCEPT ![c] = "inserted"]
      /\ older' = [older EXCEPT ![c] = Listed(e)]
  BY DEF RegisterInsert
<1>4. reg[c] = "spawned"
  BY DEF RegisterInsert
<1>5. \A f \in Endpoint : c \notin Listed(f)
  BY <1>4, ListedOwn DEF RegistryInv
<1>6. \A f \in Endpoint : f # e => clients'[f] = clients[f]
  BY <1>1 DEF RegisterInsert, TypeOK
<1>7. /\ clients'[e].active = c
      /\ \/ clients[e].active = NoConn /\ s = <<>> /\ clients'[e].inactive = <<>>
         \/ clients[e].active # NoConn /\ clients'[e].inactive = Append(s, clients[e].active)
  <2>1. CASE clients[e] = NoEntry
    BY <1>1, <2>1 DEF RegisterInsert, TypeOK, NoEntry
  <2>2. CASE clients[e].active # NoConn
    BY <1>1, <2>2 DEF RegisterInsert, TypeOK, NoEntry
  <2> QED BY <2>1, <2>2 DEF RegisterInsert
<1> DEFINE t == clients'[e].inactive
<1>8. /\ t \in Seq(Conn)
      /\ \A i \in DOMAIN t : \/ i \in DOMAIN s /\ t[i] = s[i]
                             \/ clients[e].active # NoConn /\ t[i] = clients[e].active
                                /\ i = Len(s) + 1
      /\ \A i \in DOMAIN s : i \in DOMAIN t /\ t[i] = s[i]
      /\ clients[e].active # NoConn => Len(s) + 1 \in DOMAIN t /\ t[Len(s) + 1] = clients[e].active
  <2>1. CASE clients[e].active = NoConn
    BY <1>1, <1>7, <2>1
  <2>2. CASE clients[e].active # NoConn
    <3>1. t = Append(s, clients[e].active) /\ clients[e].active \in Conn
      BY <1>1, <1>7, <2>2
    <3>2. /\ t \in Seq(Conn) /\ Len(s) \in Nat /\ DOMAIN s = 1..Len(s)
          /\ DOMAIN t = 1..(Len(s) + 1)
          /\ \A i \in 1..Len(s) : t[i] = s[i]
          /\ t[Len(s) + 1] = clients[e].active
      BY <1>1, <3>1, PushOnto
    <3> HIDE DEF s, t
    <3> QED BY <2>2, <3>2
  <2> QED BY <2>1, <2>2
<1>9. /\ \A i \in DOMAIN s : s[i] \in Listed(e)
      /\ clients[e].active # NoConn => clients[e].active \in Listed(e)
      /\ \A x \in Listed(e) : (\E i \in DOMAIN s : s[i] = x) \/ x = clients[e].active
  BY DEF Listed, Elements
<1>10. Listed(e)' = Listed(e) \cup {c}
  <2>1. Listed(e)' = {t[i] : i \in DOMAIN t} \cup {c}
    BY <1>7 DEF Listed, Elements
  <2> HIDE DEF t, s
  <2>2. {t[i] : i \in DOMAIN t} = Listed(e)
    <3>1. {t[i] : i \in DOMAIN t} \subseteq Listed(e)
      BY <1>8, <1>9
    <3>2. ASSUME NEW x \in Listed(e) PROVE \E i \in DOMAIN t : x = t[i]
      <4>1. x # NoConn
        BY <1>1, ListedType
      <4> QED BY <1>8, <1>9, <4>1
    <3> QED BY <3>1, <3>2
  <2> QED BY <2>1, <2>2
<1>11. \A f \in Endpoint : f # e => Listed(f)' = Listed(f)
  BY <1>6 DEF Listed, Elements
<1>12. \A x \in Listed(e) : x \in Conn /\ x # c
  BY <1>1, <1>5, ListedType
<1>13. \A d \in Conn : d # c => older'[d] = older[d] /\ reg'[d] = reg[d]
  BY <1>3 DEF TypeOK
<1>14. older'[c] = Listed(e) /\ reg'[c] = "inserted"
  BY <1>3 DEF TypeOK
<1>15. MostRecentIsActive'
  <2> SUFFICES ASSUME NEW f \in Endpoint
               PROVE  LET u == clients'[f].inactive IN
                 /\ clients'[f].active = NoConn => u = <<>>
                 /\ \A d \in Listed(f)' : EndpointOf[d] = f /\ reg'[d] = "inserted"
                 /\ \A i, j \in DOMAIN u : i < j => u[i] \in older'[u[j]] /\ u[i] # u[j]
                 /\ clients'[f].active # NoConn =>
                      \A i \in DOMAIN u : u[i] \in older'[clients'[f].active]
                                          /\ u[i] # clients'[f].active
    BY DEF MostRecentIsActive
  <2>1. CASE f = e
    <3>1. clients'[e].active # NoConn
      BY <1>7
    <3>2. \A d \in Listed(e)' : EndpointOf[d] = e /\ reg'[d] = "inserted"
      BY <1>1, <1>10, <1>12, <1>13, <1>14, ListedOwn DEF RegistryInv
    <3>3. \A i \in DOMAIN t : t[i] \in Listed(e)
      BY <1>8, <1>9
    <3>4. \A i, j \in DOMAIN t : i < j => t[i] \in older[t[j]] /\ t[i] # t[j]
      <4> SUFFICES ASSUME NEW i \in DOMAIN t, NEW j \in DOMAIN t, i < j
                   PROVE  t[i] \in older[t[j]] /\ t[i] # t[j]
        OBVIOUS
      <4>1. Len(s) \in Nat /\ DOMAIN s = 1..Len(s) /\ i \in Nat /\ j \in Nat
        BY <1>1, <1>8
      <4>2. i \in DOMAIN s /\ t[i] = s[i]
        BY <1>8, <4>1
      <4>3. CASE j \in DOMAIN s
        BY <1>1, <1>8, <4>2, <4>3 DEF RegistryInv, MostRecentIsActive
      <4>4. CASE clients[e].active # NoConn /\ t[j] = clients[e].active
        BY <1>1, <4>2, <4>4 DEF RegistryInv, MostRecentIsActive
      <4> QED BY <1>8, <4>3, <4>4
    <3> HIDE DEF t
    <3>5. \A i, j \in DOMAIN t : i < j => t[i] \in older'[t[j]] /\ t[i] # t[j]
      BY <1>12, <1>13, <3>3, <3>4
    <3>6. \A i \in DOMAIN t : t[i] \in older'[c] /\ t[i] # c
      BY <1>12, <1>14, <3>3
    <3> QED BY <2>1, <1>7, <3>1, <3>2, <3>5, <3>6 DEF t
  <2>2. CASE f # e
    <3> DEFINE u == clients[f].inactive
    <3>1. \A x \in Listed(f) : x \in Conn /\ x # c /\ EndpointOf[x] = f /\ reg[x] = "inserted"
      BY <1>5, ListedOwn DEF RegistryInv
    <3>2. /\ \A i \in DOMAIN u : u[i] \in Listed(f)
          /\ clients[f].active # NoConn => clients[f].active \in Listed(f)
      BY DEF Listed, Elements
    <3>3. clients'[f] = clients[f] /\ Listed(f)' = Listed(f)
      BY <2>2, <1>6, <1>11
    <3> HIDE DEF u
    <3> QED BY <1>13, <3>1, <3>2, <3>3 DEF RegistryInv, MostRecentIsActive, u
  <2> QED BY <2>1, <2>2
<1>16. \A d \in Conn : d \in Listed(EndpointOf[d]) => d \in Listed(EndpointOf[d])'
  BY <1>10, <1>11
<1>17. \A d \in Conn : d # c => (d \in Listed(EndpointOf[d])' => d \in Listed(EndpointOf[d]))
  BY <1>10, <1>11
<1>18. RunningIsListed'
  BY <1>2, <1>10, <1>13, <1>16 DEF RegistryInv, RunningIsListed
<1>19. DeadEntriesAreLate' /\ LateIsRecorded'
  BY <1>2, <1>4, <1>13, <1>14, <1>17 DEF RegistryInv, DeadEntriesAreLate, LateIsRecorded
<1> QED BY <1>15, <1>18, <1>19 DEF RegistryInv

\* What unregister() does to the connections of its endpoint.
LEMMA UnregisterListed ==
  ASSUME TypeOK, RegistryInv, NEW c \in Conn, Unregister(c)
  PROVE  LET e == EndpointOf[c] IN
         /\ \A f \in Endpoint : f # e => clients'[f] = clients[f]
         /\ Listed(e)' = Listed(e) \ {c}
         /\ \E g \in [DOMAIN clients'[e].inactive -> DOMAIN clients[e].inactive] :
              /\ \A i \in DOMAIN clients'[e].inactive :
                   clients'[e].inactive[i] = clients[e].inactive[g[i]]
              /\ \A i, j \in DOMAIN clients'[e].inactive : i < j => g[i] < g[j]
              /\ \/ clients'[e].active = NoConn /\ clients'[e].inactive = <<>>
                 \/ /\ clients'[e].active = clients[e].active
                    /\ clients[e].active # NoConn
                 \/ \E k \in DOMAIN clients[e].inactive :
                      /\ clients'[e].active = clients[e].inactive[k]
                      /\ \A i \in DOMAIN clients'[e].inactive : g[i] < k
<1> DEFINE e == EndpointOf[c]
           s == clients[e].inactive
           t == clients'[e].inactive
<1>1. e \in Endpoint /\ clients[e].active \in Conn \cup {NoConn} /\ s \in Seq(Conn)
  BY DEF TypeOK
<1>2. /\ clients[e].active = NoConn => s = <<>>
      /\ \A i, j \in DOMAIN s : i < j => s[i] # s[j]
      /\ clients[e].active # NoConn => \A i \in DOMAIN s : s[i] # clients[e].active
  BY <1>1 DEF RegistryInv, MostRecentIsActive
<1>3. Len(s) \in Nat /\ DOMAIN s = 1..Len(s)
  BY <1>1
<1>4. \A i, j \in DOMAIN s : s[i] = s[j] => i = j
  BY <1>2, <1>3
<1>5. \A f \in Endpoint : f # e => clients'[f] = clients[f]
  BY <1>1 DEF Unregister, Promote, RemoveEntry, RetainOthers, NothingToRemove, TypeOK
<1>6. CASE Promote(c, e)
  <2>1. s # <<>> /\ clients[e].active = c
    BY <1>6 DEF Promote
  <2>2. clients'[e] = [active |-> s[Len(s)], inactive |-> SubSeq(s, 1, Len(s) - 1)]
    BY <1>1, <1>6 DEF Promote, TypeOK
  <2>3. /\ t = SubSeq(s, 1, Len(s) - 1) /\ clients'[e].active = s[Len(s)]
        /\ s[Len(s)] \in Conn
        /\ DOMAIN t = 1..(Len(s) - 1)
        /\ \A i \in 1..(Len(s) - 1) : t[i] = s[i]
        /\ Len(s) >= 1
    BY <1>1, <1>3, <2>1, <2>2, FrontOf
  <2> DEFINE g == [i \in DOMAIN t |-> i]
  <2>4. Listed(e)' = Listed(e) \ {c}
    <3>1. Listed(e)' = {t[i] : i \in 1..(Len(s) - 1)} \cup {s[Len(s)]}
      BY <2>3 DEF Listed, Elements
    <3>2. Listed(e) = {s[i] : i \in 1..Len(s)} \cup {c}
      BY <1>3, <2>1 DEF Listed, Elements
    <3> HIDE DEF s, t, e
    <3>3. {t[i] : i \in 1..(Len(s) - 1)} \cup {s[Len(s)]} = {s[i] : i \in 1..Len(s)}
      BY <1>3, <2>3
    <3>4. c \notin {s[i] : i \in 1..Len(s)}
      BY <1>2, <1>3, <2>1
    <3> QED BY <3>1, <3>2, <3>3, <3>4
  <2>5. /\ g \in [DOMAIN t -> DOMAIN s]
        /\ \A i \in DOMAIN t : t[i] = s[g[i]] /\ g[i] < Len(s)
        /\ \A i, j \in DOMAIN t : i < j => g[i] < g[j]
        /\ Len(s) \in DOMAIN s
    BY <1>3, <2>3
  <2> HIDE DEF s, t, g
  <2> QED BY <1>5, <2>3, <2>4, <2>5 DEF s, t
<1>7. CASE RemoveEntry(c, e)
  <2>1. s = <<>> /\ clients[e].active = c /\ clients'[e] = NoEntry
    BY <1>1, <1>7 DEF RemoveEntry, TypeOK
  <2>2. t = <<>> /\ clients'[e].active = NoConn
    BY <2>1 DEF NoEntry
  <2>3. Listed(e)' = Listed(e) \ {c}
    BY <2>1, <2>2 DEF Listed, Elements
  <2> DEFINE g == [i \in DOMAIN t |-> 1]
  <2>4. DOMAIN t = {} /\ g \in [DOMAIN t -> DOMAIN s]
    <3>1. DOMAIN t = {}
      BY <2>2
    <3> HIDE DEF s, t
    <3> QED BY <3>1
  <2> HIDE DEF g, s, t
  <2>5. \E h \in [DOMAIN t -> DOMAIN s] :
          /\ \A i \in DOMAIN t : t[i] = s[h[i]]
          /\ \A i, j \in DOMAIN t : i < j => h[i] < h[j]
    BY <2>4
  <2> QED BY <1>5, <2>1, <2>2, <2>3, <2>5 DEF s, t
<1>8. CASE RetainOthers(c, e)
  <2>1. clients[e].active # NoConn /\ clients[e].active # c
    BY <1>8 DEF RetainOthers
  <2>2. clients'[e] = [active |-> clients[e].active, inactive |-> Retain(s, c)]
    BY <1>1, <1>8 DEF RetainOthers, TypeOK
  <2>3. t = Retain(s, c) /\ clients'[e].active = clients[e].active
    BY <2>2
  <2>4. PICK g \in [DOMAIN t -> DOMAIN s] :
              /\ \A i \in DOMAIN t : t[i] = s[g[i]]
              /\ \A i, j \in DOMAIN t : i < j => g[i] < g[j]
              /\ \A k \in DOMAIN s : s[k] # c => \E i \in DOMAIN t : g[i] = k
              /\ \A i \in DOMAIN t : t[i] # c
    <3> HIDE DEF s, t
    <3>1. Remains(t, s, c)
      BY <1>1, <2>3, RetainIsSubsequence
    <3> QED BY <1>4, <3>1 DEF Remains
  <2>5. Listed(e)' = Listed(e) \ {c}
    <3>1. Listed(e)' = {t[i] : i \in DOMAIN t} \cup {clients[e].active}
      BY <2>1, <2>3 DEF Listed, Elements
    <3>2. Listed(e) = {s[i] : i \in DOMAIN s} \cup {clients[e].active}
      BY <2>1 DEF Listed, Elements
    <3> HIDE DEF s, t
    <3>3. {t[i] : i \in DOMAIN t} = {s[i] : i \in DOMAIN s} \ {c}
      BY <2>4
    <3> QED BY <2>1, <3>1, <3>2, <3>3
  <2> QED BY <1>5, <2>1, <2>3, <2>4, <2>5
<1>9. CASE NothingToRemove(e)
  <2>1. clients[e].active = NoConn /\ s = <<>> /\ clients' = clients
    BY <1>2, <1>9 DEF NothingToRemove
  <2>2. t = <<>> /\ clients'[e].active = NoConn
    BY <2>1
  <2>3. Listed(e) = {} /\ Listed(e)' = {}
    BY <2>1, <2>2 DEF Listed, Elements
  <2> DEFINE g == [i \in DOMAIN t |-> 1]
  <2>4. DOMAIN t = {} /\ g \in [DOMAIN t -> DOMAIN s]
    <3>1. DOMAIN t = {}
      BY <2>2
    <3> HIDE DEF s, t
    <3> QED BY <3>1
  <2> HIDE DEF g, s, t
  <2>5. \E h \in [DOMAIN t -> DOMAIN s] :
          /\ \A i \in DOMAIN t : t[i] = s[h[i]]
          /\ \A i, j \in DOMAIN t : i < j => h[i] < h[j]
    BY <2>4
  <2> QED BY <1>5, <2>1, <2>2, <2>3, <2>5 DEF s, t
<1> QED BY <1>6, <1>7, <1>8, <1>9 DEF Unregister

LEMMA UnregisterRegistry ==
  ASSUME TypeOK, RegistryInv, NEW c \in Conn, Unregister(c)
  PROVE  RegistryInv'
<1> DEFINE e == EndpointOf[c]
           s == clients[e].inactive
           t == clients'[e].inactive
<1>1. e \in Endpoint /\ s \in Seq(Conn)
  BY DEF TypeOK
<1>2. UNCHANGED <<reg, older, shutdown>>
  BY DEF Unregister
<1>3. \A d \in Conn : d # c => actor'[d] = actor[d] /\ late'[d] = late[d]
  BY DEF Unregister, TypeOK
<1>4. actor'[c] = "notify" /\ late'[c] = (reg[c] = "spawned")
  BY DEF Unregister, TypeOK
<1>5. \A f \in Endpoint : f # e => clients'[f] = clients[f]
  BY UnregisterListed
<1>6. Listed(e)' = Listed(e) \ {c}
  BY UnregisterListed
<1>7. \A f \in Endpoint : f # e => Listed(f)' = Listed(f)
  BY <1>5 DEF Listed, Elements
<1>8. MostRecentIsActive'
  <2> SUFFICES ASSUME NEW f \in Endpoint
               PROVE  LET u == clients'[f].inactive IN
                 /\ clients'[f].active = NoConn => u = <<>>
                 /\ \A d \in Listed(f)' : EndpointOf[d] = f /\ reg'[d] = "inserted"
                 /\ \A i, j \in DOMAIN u : i < j => u[i] \in older'[u[j]] /\ u[i] # u[j]
                 /\ clients'[f].active # NoConn =>
                      \A i \in DOMAIN u : u[i] \in older'[clients'[f].active]
                                          /\ u[i] # clients'[f].active
    BY DEF MostRecentIsActive
  <2>1. \A d \in Listed(f)' : EndpointOf[d] = f /\ reg'[d] = "inserted"
    BY <1>2, <1>6, <1>7 DEF RegistryInv, MostRecentIsActive
  <2>2. CASE f = e
    <3>1. PICK g \in [DOMAIN t -> DOMAIN s] :
              /\ \A i \in DOMAIN t : t[i] = s[g[i]]
              /\ \A i, j \in DOMAIN t : i < j => g[i] < g[j]
              /\ \/ clients'[e].active = NoConn /\ t = <<>>
                 \/ clients'[e].active = clients[e].active /\ clients[e].active # NoConn
                 \/ \E k \in DOMAIN s :
                      clients'[e].active = s[k] /\ \A i \in DOMAIN t : g[i] < k
      BY UnregisterListed
    <3>2. \A i, j \in DOMAIN s : i < j => s[i] \in older[s[j]] /\ s[i] # s[j]
      BY <1>1 DEF RegistryInv, MostRecentIsActive
    <3>3. clients[e].active # NoConn =>
            \A i \in DOMAIN s : s[i] \in older[clients[e].active] /\ s[i] # clients[e].active
      BY <1>1 DEF RegistryInv, MostRecentIsActive
    <3>4. \A k \in DOMAIN s : s[k] # NoConn
      BY <1>1
    <3> HIDE DEF s, t
    <3>5. \A i, j \in DOMAIN t : i < j => t[i] \in older[t[j]] /\ t[i] # t[j]
      BY <3>1, <3>2
    <3>6. clients'[e].active = NoConn => t = <<>>
      BY <3>1, <3>4
    <3>7. clients'[e].active # NoConn =>
            \A i \in DOMAIN t : t[i] \in older[clients'[e].active] /\ t[i] # clients'[e].active
      BY <3>1, <3>2, <3>3
    <3> QED BY <1>2, <2>1, <2>2, <3>5, <3>6, <3>7 DEF t
  <2>3. CASE f # e
    BY <1>2, <1>5, <2>1, <2>3 DEF RegistryInv, MostRecentIsActive
  <2> QED BY <2>2, <2>3
<1>9. \A d \in Conn : d \in Listed(EndpointOf[d])' <=> d \in Listed(EndpointOf[d]) /\ d # c
  BY <1>1, <1>6, <1>7
<1>10. "notify" \notin RunningStates
  BY DEF RunningStates
<1>11. RunningIsListed'
  BY <1>2, <1>3, <1>4, <1>9, <1>10 DEF RegistryInv, RunningIsListed
<1>12. DeadEntriesAreLate' /\ LateIsRecorded'
  BY <1>2, <1>3, <1>4, <1>9 DEF RegistryInv, DeadEntriesAreLate, LateIsRecorded
<1> QED BY <1>8, <1>11, <1>12 DEF RegistryInv

LEMMA ActorEndRegistry ==
  ASSUME TypeOK, RegistryInv, NEW c \in Conn, ActorEnd(c)
  PROVE  RegistryInv'
<1> USE DEF registryVars
<1>1. UNCHANGED <<clients, reg, late, shutdown>>
  BY DEF ActorEnd
<1>2. \A e \in Endpoint : Listed(e)' = Listed(e)
  BY <1>1 DEF Listed, Elements
<1>3. actor[c] = "notify" /\ actor'[c] = "exited" /\ \A d \in Conn : d # c => actor'[d] = actor[d]
  BY DEF ActorEnd, TypeOK
<1>4. \A e \in Endpoint : c \in Listed(e) => late[c]
  BY <1>3, ListedOwn DEF RegistryInv, DeadEntriesAreLate
<1>5. /\ \A d \in Conn : d # c => older'[d] = older[d]
      /\ late[c] => older'[c] = older[c]
  BY DEF ActorEnd, TypeOK
<1>6. MostRecentIsActive'
  <2>1. \A e \in Endpoint : \A d \in Listed(e) : older'[d] = older[d]
    BY <1>4, <1>5, ListedType
  <2>2. \A e \in Endpoint :
          /\ \A i \in DOMAIN clients[e].inactive : clients[e].inactive[i] \in Listed(e)
          /\ clients[e].active # NoConn => clients[e].active \in Listed(e)
    BY DEF Listed, Elements
  <2> QED BY <1>1, <1>2, <2>1, <2>2 DEF RegistryInv, MostRecentIsActive
<1>7. RunningIsListed' /\ DeadEntriesAreLate' /\ LateIsRecorded'
  BY <1>1, <1>2, <1>3
     DEF RegistryInv, RunningIsListed, DeadEntriesAreLate, LateIsRecorded, RunningStates
<1> QED BY <1>6, <1>7 DEF RegistryInv

LEMMA ShutdownRemoveRegistry ==
  ASSUME TypeOK, RegistryInv, NEW e \in Endpoint, ShutdownRemove(e)
  PROVE  RegistryInv'
<1> USE DEF queueVars, historyVars
<1>1. UNCHANGED <<reg, actor, older, late>>
  BY DEF ShutdownRemove
<1>2. clients'[e].active = NoConn /\ clients'[e].inactive = <<>>
  BY DEF ShutdownRemove, NoEntry, TypeOK
<1>3. \A f \in Endpoint : f # e => clients'[f] = clients[f]
  BY DEF ShutdownRemove, TypeOK
<1>4. Listed(e)' = {} /\ \A f \in Endpoint : f # e => Listed(f)' = Listed(f)
  BY <1>2, <1>3 DEF Listed, Elements
<1>5. shutdown'.awaited = shutdown.awaited \cup Listed(e)
  BY DEF ShutdownRemove, TypeOK
<1>6. MostRecentIsActive'
  BY <1>1, <1>2, <1>3, <1>4 DEF RegistryInv, MostRecentIsActive
<1>7. \A c \in Conn : EndpointOf[c] \in Endpoint
  OBVIOUS
<1>8. RunningIsListed' /\ DeadEntriesAreLate' /\ LateIsRecorded'
  BY <1>1, <1>4, <1>5, <1>7 DEF RegistryInv, RunningIsListed, DeadEntriesAreLate, LateIsRecorded
<1> QED BY <1>6, <1>8 DEF RegistryInv

LEMMA ShutdownReturnRegistry ==
  ASSUME TypeOK, RegistryInv, ShutdownReturn
  PROVE  RegistryInv'
<1> USE DEF registryVars, queueVars, historyVars
<1>1. UNCHANGED <<clients, reg, actor, older, late>>
  BY DEF ShutdownReturn
<1>2. \A e \in Endpoint : Listed(e)' = Listed(e)
  BY <1>1 DEF Listed, Elements
<1>3. \A c \in shutdown.awaited : actor[c] = "exited"
  BY DEF ShutdownReturn
<1>4. MostRecentIsActive' /\ DeadEntriesAreLate' /\ LateIsRecorded'
  BY <1>1, <1>2 DEF RegistryInv, MostRecentIsActive, DeadEntriesAreLate, LateIsRecorded
<1>5. RunningIsListed'
  BY <1>1, <1>2, <1>3 DEF RegistryInv, RunningIsListed, RunningStates
<1> QED BY <1>4, <1>5 DEF RegistryInv

LEMMA NextRegistry == TypeOK /\ RegistryInv /\ [Next]_vars => RegistryInv'
<1> SUFFICES ASSUME TypeOK, RegistryInv, [Next]_vars PROVE RegistryInv'
  OBVIOUS
<1> USE DEF registryVars, queueVars, historyVars
<1>1. ASSUME NEW c \in Conn,
             \/ StreamFails(c) \/ RecordSentTo(c) \/ WritePacket(c) \/ PollMessages(c)
             \/ WriteMessage(c) \/ NoMessages(c) \/ Cancelled(c)
             \/ \E peer \in Endpoint : NotifyPeer(c, peer)
             \/ \E dst \in Destination : SendPacketQueued(c, dst) \/ SendPacketClosed(c, dst)
      PROVE  RegistryInv'
  <2>1. UNCHANGED <<clients, reg, older, late, shutdown>>
    BY <1>1 DEF StreamFails, RecordSentTo, WritePacket, PollMessages, WriteMessage, NoMessages,
                Cancelled, NotifyPeer, SendPacketQueued, SendPacketClosed
  <2>2. \A d \in Conn : \/ actor'[d] = actor[d]
                        \/ actor[d] \in RunningStates /\ actor'[d] \in RunningStates
    BY <1>1 DEF StreamFails, RecordSentTo, WritePacket, PollMessages, WriteMessage, NoMessages,
                Cancelled, NotifyPeer, SendPacketQueued, SendPacketClosed, RunningStates, TypeOK
  <2> QED BY <2>1, <2>2, RegistryFrame
<1>2. ASSUME \/ \E e \in Endpoint : Disconnect(e) \/ ShutdownCollect(e)
             \/ ShutdownBegin \/ ShutdownCancel \/ UNCHANGED vars
      PROVE  RegistryInv'
  <2>1. UNCHANGED <<clients, reg, older, late, actor>> /\ shutdown'.awaited = shutdown.awaited
    BY <1>2 DEF Disconnect, ShutdownCollect, ShutdownBegin, ShutdownCancel, vars, TypeOK
  <2> QED BY <2>1, RegistryFrame
<1>3. ASSUME NEW c \in Conn, ClientNew(c) \/ RegisterInsert(c) \/ Unregister(c) \/ ActorEnd(c)
      PROVE  RegistryInv'
  BY <1>3, ClientNewRegistry, RegisterInsertRegistry, UnregisterRegistry, ActorEndRegistry
<1>4. ASSUME NEW e \in Endpoint, ShutdownRemove(e) PROVE RegistryInv'
  BY <1>4, ShutdownRemoveRegistry
<1>5. CASE ShutdownReturn
  BY <1>5, ShutdownReturnRegistry
<1> QED BY <1>1, <1>2, <1>3, <1>4, <1>5 DEF Next, ActorStep, ShutdownStep

THEOREM RegistryInvariant == Spec => []RegistryInv
<1>1. Init => TypeOK /\ RegistryInv
  BY InitType, InitRegistry
<1>2. TypeOK /\ RegistryInv /\ [Next]_vars => (TypeOK /\ RegistryInv)'
  BY NextType, NextRegistry
<1> QED BY <1>1, <1>2, PTL DEF Spec

\* Whatever connections of an endpoint come and go, they are stacked in the
\* order of registration: the newest one is the one that receives.
THEOREM MostRecentIsActiveHolds == Spec => []MostRecentIsActive
<1>1. RegistryInv => MostRecentIsActive
  BY DEF RegistryInv
<1> QED BY <1>1, RegistryInvariant, PTL

\* A registered connection stays in the registry for as long as its actor runs.
THEOREM RunningIsListedHolds == Spec => []RunningIsListed
<1>1. RegistryInv => RunningIsListed
  BY DEF RegistryInv
<1> QED BY <1>1, RegistryInvariant, PTL

\* The race between register() and a short-lived actor is the only source of
\* dead entries.
THEOREM DeadEntriesAreLateHolds == Spec => []DeadEntriesAreLate
<1>1. RegistryInv => DeadEntriesAreLate
  BY DEF RegistryInv
<1> QED BY <1>1, RegistryInvariant, PTL

-----------------------------------------------------------------------------
(***************************************************************************)
(* The current-thread runtime.  There register() is not interrupted, so no *)
(* actor overtakes it.                                                     *)
(***************************************************************************)
NeverLate == \A c \in Conn : ~late[c]

\* An actor that runs between two tasks' sections finds no register() half done.
LEMMA NoHalfRegistration ==
  ASSUME ~MultiThread, TypeOK, NEW c \in Conn, Scheduled(<<"actor", c>>)
  PROVE  reg[c] # "spawned"
<1>1. MidSection \subseteq {<<"actor", c>>}
  BY DEF Scheduled
<1>2. reg[c] = "spawned" => <<"register", c>> \in MidSection
  BY DEF MidSection
<1>3. <<"register", c>> # <<"actor", c>>
  OBVIOUS
<1> QED BY <1>1, <1>2, <1>3

LEMMA NextNeverLate ==
  ASSUME ~MultiThread, TypeOK, NeverLate, [Next]_vars
  PROVE  NeverLate'
<1> USE DEF historyVars, NeverLate
<1>1. ASSUME NEW c \in Conn, ClientNew(c) PROVE NeverLate'
  BY <1>1 DEF ClientNew, TypeOK
<1>2. ASSUME NEW c \in Conn, Unregister(c) PROVE NeverLate'
  <2>1. reg[c] # "spawned"
    BY <1>2, NoHalfRegistration DEF Unregister
  <2> QED BY <1>2, <2>1 DEF Unregister, TypeOK
<1>3. ASSUME UNCHANGED late PROVE NeverLate'
  BY <1>3
<1>4. ASSUME NEW c \in Conn,
             \/ RegisterInsert(c) \/ ActorEnd(c)
             \/ StreamFails(c) \/ RecordSentTo(c) \/ WritePacket(c) \/ PollMessages(c)
             \/ WriteMessage(c) \/ NoMessages(c) \/ Cancelled(c)
             \/ \E peer \in Endpoint : NotifyPeer(c, peer)
             \/ \E dst \in Destination : SendPacketQueued(c, dst) \/ SendPacketClosed(c, dst)
      PROVE  UNCHANGED late
  BY <1>4 DEF RegisterInsert, ActorEnd, StreamFails, RecordSentTo, WritePacket, PollMessages,
              WriteMessage, NoMessages, Cancelled, NotifyPeer, SendPacketQueued, SendPacketClosed
<1>5. ASSUME \/ \E e \in Endpoint : Disconnect(e) \/ ShutdownCollect(e) \/ ShutdownRemove(e)
             \/ ShutdownBegin \/ ShutdownCancel \/ ShutdownReturn \/ UNCHANGED vars
      PROVE  UNCHANGED late
  BY <1>5 DEF Disconnect, ShutdownCollect, ShutdownRemove, ShutdownBegin, ShutdownCancel,
              ShutdownReturn, vars
<1> QED BY <1>1, <1>2, <1>3, <1>4, <1>5 DEF Next, ActorStep, ShutdownStep

\* A connection on its way into the registry has been given an actor.
HasActor == \A c \in Conn : reg[c] # "absent" => actor[c] # "none"

LEMMA NextHasActor ==
  ASSUME TypeOK, HasActor, [Next]_vars
  PROVE  HasActor'
<1> USE DEF registryVars, queueVars, historyVars, HasActor
<1>1. ASSUME NEW c \in Conn,
             \/ StreamFails(c) \/ RecordSentTo(c) \/ WritePacket(c) \/ PollMessages(c)
             \/ WriteMessage(c) \/ NoMessages(c) \/ Cancelled(c) \/ Unregister(c) \/ ActorEnd(c)
             \/ \E peer \in Endpoint : NotifyPeer(c, peer)
             \/ \E dst \in Destination : SendPacketQueued(c, dst) \/ SendPacketClosed(c, dst)
      PROVE  HasActor'
  <2>1. UNCHANGED reg
    BY <1>1 DEF StreamFails, RecordSentTo, WritePacket, PollMessages, WriteMessage, NoMessages,
                Cancelled, Unregister, ActorEnd, NotifyPeer, SendPacketQueued, SendPacketClosed
  <2>2. \A d \in Conn : actor'[d] = actor[d] \/ actor'[d] # "none"
    BY <1>1 DEF StreamFails, RecordSentTo, WritePacket, PollMessages, WriteMessage, NoMessages,
                Cancelled, Unregister, ActorEnd, NotifyPeer, SendPacketQueued, SendPacketClosed,
                TypeOK
  <2> QED BY <2>1, <2>2
<1>2. ASSUME NEW c \in Conn, ClientNew(c) PROVE HasActor'
  BY <1>2 DEF ClientNew, TypeOK
<1>3. ASSUME NEW c \in Conn, RegisterInsert(c) PROVE HasActor'
  BY <1>3 DEF RegisterInsert, TypeOK
<1>4. ASSUME \/ \E e \in Endpoint : Disconnect(e) \/ ShutdownCollect(e) \/ ShutdownRemove(e)
             \/ ShutdownBegin \/ ShutdownCancel \/ ShutdownReturn \/ UNCHANGED vars
      PROVE  HasActor'
  BY <1>4 DEF Disconnect, ShutdownCollect, ShutdownRemove, ShutdownBegin, ShutdownCancel,
              ShutdownReturn, vars
<1> QED BY <1>1, <1>2, <1>3, <1>4 DEF Next, ActorStep, ShutdownStep

\* On the current-thread runtime every registered connection has a running
\* actor: the dead entries of the multi-threaded runtime cannot occur.
THEOREM ListedAreConnectedHolds == Spec => []ListedAreConnected
<1>1. CASE MultiThread
  <2>1. ListedAreConnected
    BY <1>1 DEF ListedAreConnected
  <2> QED BY <2>1, PTL
<1>2. CASE ~MultiThread
  <2> DEFINE Inv == TypeOK /\ RegistryInv /\ NeverLate /\ HasActor
  <2>1. Init => Inv
    BY InitType, InitRegistry DEF Init, NeverLate, HasActor
  <2>2. Inv /\ [Next]_vars => Inv'
    <3> SUFFICES ASSUME Inv, [Next]_vars PROVE Inv'
      OBVIOUS
    <3>1. TypeOK' /\ RegistryInv' /\ NeverLate' /\ HasActor'
      BY <1>2, NextType, NextRegistry, NextNeverLate, NextHasActor
    <3> QED BY <3>1
  <2>3. Inv => ListedAreConnected
    BY ListedOwn DEF RegistryInv, DeadEntriesAreLate, NeverLate, HasActor, ListedAreConnected,
       TypeOK, ActorStates
  <2> QED BY <2>1, <2>2, <2>3, PTL DEF Spec
<1> QED BY <1>1, <1>2

-----------------------------------------------------------------------------
(***************************************************************************)
(* Steps that leave the registry alone, for the invariants below.          *)
(***************************************************************************)
\* The actor goes on running, or it ends, and the registry does not change.
ServeStep(c) ==
  \/ StreamFails(c) \/ RecordSentTo(c) \/ WritePacket(c) \/ PollMessages(c)
  \/ WriteMessage(c) \/ NoMessages(c) \/ Cancelled(c)
  \/ \E dst \in Destination : SendPacketQueued(c, dst) \/ SendPacketClosed(c, dst)

LEMMA ServeFrame ==
  ASSUME TypeOK, NEW c \in Conn, ServeStep(c)
  PROVE  /\ UNCHANGED <<clients, reg, older, late, shutdown, atShutdown, inactive_metric,
                        notify_peers, statusLost>>
         /\ \A d \in Conn \ {c} : actor'[d] = actor[d]
         /\ actor[c] \in RunningStates /\ actor'[c] \in RunningStates
<1> USE DEF registryVars, queueVars, historyVars
<1>1. UNCHANGED <<clients, reg, older, late, shutdown, atShutdown, inactive_metric, notify_peers,
                  statusLost>>
  BY DEF ServeStep, StreamFails, RecordSentTo, WritePacket, PollMessages, WriteMessage,
         NoMessages, Cancelled, SendPacketQueued, SendPacketClosed
<1>2. /\ \A d \in Conn \ {c} : actor'[d] = actor[d]
      /\ actor[c] \in RunningStates /\ actor'[c] \in RunningStates
  BY DEF ServeStep, StreamFails, RecordSentTo, WritePacket, PollMessages, WriteMessage,
         NoMessages, Cancelled, SendPacketQueued, SendPacketClosed, RunningStates, TypeOK
<1> QED BY <1>1, <1>2

\* Next, with the steps that serve a client taken together.
LEMMA NextCases ==
  ASSUME [Next]_vars
  PROVE  \/ \E c \in Conn : \/ ClientNew(c) \/ RegisterInsert(c) \/ ServeStep(c)
                            \/ Unregister(c) \/ ActorEnd(c)
                            \/ \E peer \in Endpoint : NotifyPeer(c, peer)
         \/ \E e \in Endpoint : Disconnect(e) \/ ShutdownCollect(e) \/ ShutdownRemove(e)
         \/ ShutdownBegin \/ ShutdownCancel \/ ShutdownReturn \/ UNCHANGED vars
BY DEF Next, ActorStep, ShutdownStep, ServeStep

-----------------------------------------------------------------------------
(***************************************************************************)
(* Clients::shutdown.  Between its call and its return every connection    *)
(* that was registered and still runs is on its way to being awaited: its  *)
(* endpoint has not been visited yet, or is a key that was found, or the   *)
(* connection has been taken out of the map.                               *)
(***************************************************************************)
OnItsWay(c) ==
  /\ shutdown.stage = "collect" => EndpointOf[c] \in shutdown.unvisited \cup shutdown.keys
  /\ shutdown.stage = "remove" => EndpointOf[c] \in shutdown.keys \/ c \in shutdown.awaited
  /\ shutdown.stage = "await" => c \in shutdown.awaited
  /\ shutdown.stage # "down"

ShutdownInv ==
  /\ shutdown.stage \in {"up", "collect"} => shutdown.awaited = {}
  /\ \A c \in atShutdown : reg[c] = "inserted" /\ (actor[c] \in RunningStates => OnItsWay(c))

\* Connections only stop running, or are new ones.
LEMMA ShutdownFrame ==
  ASSUME ShutdownInv, UNCHANGED shutdown,
         \A c \in atShutdown' : /\ c \in atShutdown
                                /\ reg[c] = "inserted" => reg'[c] = "inserted"
                                /\ actor'[c] \in RunningStates => actor[c] \in RunningStates
  PROVE  ShutdownInv'
BY DEF ShutdownInv, OnItsWay

\* A registered connection that runs makes its endpoint a key of the map.
LEMMA RunningHasEntry ==
  ASSUME TypeOK, RegistryInv, NEW c \in Conn, reg[c] = "inserted", actor[c] \in RunningStates,
         c \notin shutdown.awaited
  PROVE  c \in Listed(EndpointOf[c]) /\ clients[EndpointOf[c]].active # NoConn
<1>1. c \in Listed(EndpointOf[c]) BY DEF RegistryInv, RunningIsListed
<1>2. clients[EndpointOf[c]].active = NoConn => Listed(EndpointOf[c]) = {}
  BY DEF RegistryInv, MostRecentIsActive, Listed, Elements
<1> QED BY <1>1, <1>2

LEMMA CollectShutdown ==
  ASSUME TypeOK, RegistryInv, ShutdownInv, NEW e \in Endpoint, ShutdownCollect(e)
  PROVE  ShutdownInv'
<1> USE DEF registryVars, queueVars, historyVars
<1>1. UNCHANGED <<clients, reg, actor, atShutdown>> BY DEF ShutdownCollect
<1>2. /\ shutdown.stage = "collect" /\ shutdown'.awaited = shutdown.awaited
      /\ shutdown'.unvisited = shutdown.unvisited \ {e}
      /\ shutdown'.keys = IF clients[e].active = NoConn THEN shutdown.keys
                                                        ELSE shutdown.keys \cup {e}
      /\ \/ shutdown'.stage = "collect"
         \/ shutdown'.stage = "remove" /\ shutdown'.unvisited = {}
  BY DEF ShutdownCollect, TypeOK
<1>3. shutdown.awaited = {} BY <1>2 DEF ShutdownInv
<1>4. ASSUME NEW c \in atShutdown, actor[c] \in RunningStates PROVE OnItsWay(c)'
  <2>1. c \in Conn /\ reg[c] = "inserted" BY DEF TypeOK, ShutdownInv
  <2>2. EndpointOf[c] = e => clients[e].active # NoConn
    BY <1>3, <1>4, <2>1, RunningHasEntry
  <2>3. EndpointOf[c] \in shutdown.unvisited \cup shutdown.keys
    BY <1>2, <1>4 DEF ShutdownInv, OnItsWay
  <2>4. EndpointOf[c] \in shutdown'.unvisited \cup shutdown'.keys
    BY <1>2, <2>2, <2>3
  <2> QED BY <1>2, <2>4 DEF OnItsWay
<1> QED BY <1>1, <1>2, <1>3, <1>4 DEF ShutdownInv

LEMMA RemoveShutdown ==
  ASSUME TypeOK, RegistryInv, ShutdownInv, NEW e \in Endpoint, ShutdownRemove(e)
  PROVE  ShutdownInv'
<1> USE DEF registryVars, queueVars, historyVars
<1>1. UNCHANGED <<reg, actor, atShutdown>> BY DEF ShutdownRemove
<1>2. /\ shutdown.stage = "remove" /\ shutdown'.stage = "remove"
      /\ shutdown'.keys = shutdown.keys \ {e}
      /\ shutdown'.awaited = shutdown.awaited \cup Listed(e)
  BY DEF ShutdownRemove, TypeOK
<1>3. ASSUME NEW c \in atShutdown, actor[c] \in RunningStates PROVE OnItsWay(c)'
  <2>1. c \in Conn /\ reg[c] = "inserted" BY DEF TypeOK, ShutdownInv
  <2>2. c \in shutdown.awaited \/ c \in Listed(EndpointOf[c])
    BY <1>3, <2>1, RunningHasEntry
  <2>3. EndpointOf[c] \in shutdown.keys \/ c \in shutdown.awaited
    BY <1>2, <1>3 DEF ShutdownInv, OnItsWay
  <2> QED BY <1>2, <2>2, <2>3 DEF OnItsWay
<1> QED BY <1>1, <1>2, <1>3 DEF ShutdownInv

LEMMA NextShutdown == TypeOK /\ RegistryInv /\ ShutdownInv /\ [Next]_vars => ShutdownInv'
<1> SUFFICES ASSUME TypeOK, RegistryInv, ShutdownInv, [Next]_vars PROVE ShutdownInv'
  OBVIOUS
<1> USE DEF registryVars, queueVars, historyVars
<1>0. atShutdown \subseteq Conn BY DEF TypeOK
<1>1. ASSUME NEW c \in Conn, ClientNew(c) PROVE ShutdownInv'
  <2>1. UNCHANGED shutdown /\ atShutdown' = atShutdown \ {c} BY <1>1 DEF ClientNew
  <2>2. \A d \in Conn \ {c} : reg'[d] = reg[d] /\ actor'[d] = actor[d]
    BY <1>1 DEF ClientNew, TypeOK
  <2> QED BY <1>0, <2>1, <2>2, ShutdownFrame
<1>2. ASSUME NEW c \in Conn, ServeStep(c) PROVE ShutdownInv'
  <2>1. UNCHANGED <<reg, shutdown, atShutdown>> BY <1>2, ServeFrame
  <2>2. \A d \in Conn : actor'[d] = actor[d] \/ actor[d] \in RunningStates
    BY <1>2, ServeFrame
  <2> QED BY <1>0, <2>1, <2>2, ShutdownFrame
<1>3. ASSUME NEW c \in Conn,
             \/ RegisterInsert(c) \/ Unregister(c) \/ ActorEnd(c)
             \/ \E peer \in Endpoint : NotifyPeer(c, peer)
      PROVE  ShutdownInv'
  <2>1. UNCHANGED <<shutdown, atShutdown>>
    BY <1>3 DEF RegisterInsert, Unregister, ActorEnd, NotifyPeer
  <2>2. \A d \in Conn : reg[d] = "inserted" => reg'[d] = "inserted"
    BY <1>3 DEF RegisterInsert, Unregister, ActorEnd, NotifyPeer, TypeOK
  <2>3. \A d \in Conn : actor'[d] = actor[d] \/ actor'[d] \in {"notify", "exited"}
    BY <1>3 DEF RegisterInsert, Unregister, ActorEnd, NotifyPeer, TypeOK
  <2>4. \A s \in {"notify", "exited"} : s \notin RunningStates BY DEF RunningStates
  <2> QED BY <1>0, <2>1, <2>2, <2>3, <2>4, ShutdownFrame
<1>4. ASSUME NEW e \in Endpoint, Disconnect(e) PROVE ShutdownInv'
  BY <1>4, ShutdownFrame DEF Disconnect
<1>5. ASSUME NEW e \in Endpoint, ShutdownCollect(e) \/ ShutdownRemove(e) PROVE ShutdownInv'
  BY <1>5, CollectShutdown, RemoveShutdown
<1>6. CASE ShutdownBegin
  <2>1. UNCHANGED <<reg, actor>> /\ atShutdown' = UNION {Listed(e) : e \in Endpoint}
    BY <1>6 DEF ShutdownBegin
  <2>2. /\ shutdown.stage = "up" /\ shutdown'.stage = "collect"
        /\ shutdown'.unvisited = Endpoint /\ shutdown'.awaited = shutdown.awaited
    BY <1>6 DEF ShutdownBegin, TypeOK
  <2>3. \A c \in atShutdown' : c \in Conn /\ reg[c] = "inserted"
    BY <2>1, ListedOwn DEF RegistryInv
  <2>4. \A c \in atShutdown' : OnItsWay(c)' BY <2>2, <2>3 DEF OnItsWay
  <2> QED BY <2>1, <2>2, <2>3, <2>4 DEF ShutdownInv
<1>7. CASE ShutdownCancel
  <2>1. UNCHANGED <<reg, actor, atShutdown>> BY <1>7 DEF ShutdownCancel
  <2>2. /\ shutdown.stage = "remove" /\ shutdown.keys = {} /\ shutdown'.stage = "await"
        /\ shutdown'.awaited = shutdown.awaited
    BY <1>7 DEF ShutdownCancel, TypeOK
  <2> QED BY <2>1, <2>2 DEF ShutdownInv, OnItsWay
<1>8. CASE ShutdownReturn
  <2>1. UNCHANGED <<reg, actor, atShutdown>> BY <1>8 DEF ShutdownReturn
  <2>2. /\ shutdown.stage = "await" /\ shutdown'.stage = "down"
        /\ \A c \in shutdown.awaited : actor[c] = "exited"
    BY <1>8 DEF ShutdownReturn, TypeOK
  <2>3. \A c \in atShutdown : actor[c] \notin RunningStates
    BY <2>2 DEF ShutdownInv, OnItsWay, RunningStates
  <2> QED BY <2>1, <2>2, <2>3 DEF ShutdownInv
<1>9. CASE UNCHANGED vars
  BY <1>9, ShutdownFrame DEF vars
<1> QED BY <1>1, <1>2, <1>3, <1>4, <1>5, <1>6, <1>7, <1>8, <1>9, NextCases

LEMMA ShutdownInvariant == Spec => [](TypeOK /\ RegistryInv /\ ShutdownInv)
<1>1. Init => ShutdownInv BY DEF Init, ShutdownInv
<1> QED BY <1>1, InitType, InitRegistry, NextType, NextRegistry, NextShutdown, PTL DEF Spec

\* When shutdown() returns, every connection that was registered at its call has stopped,
\* although the map is walked and emptied entry by entry while others come and go.
THEOREM ShutdownStopsClientsHolds == Spec => []ShutdownStopsClients
<1>1. ShutdownInv => ShutdownStopsClients
  BY DEF ShutdownInv, OnItsWay, ShutdownStopsClients
<1> QED BY <1>1, ShutdownInvariant, PTL

-----------------------------------------------------------------------------
(***************************************************************************)
(* The sent_to lists.  An actor belongs to a connection that register()    *)
(* knows of; a connection that leaves therefore finds its entry, clears    *)
(* the list with it, or leaves another connection behind that will.        *)
(***************************************************************************)
HasReg == \A c \in Conn : actor[c] # "none" => reg[c] # "absent"

\* Some connection of e will still unregister.
Kept(e) ==
  \E c \in Conn : /\ EndpointOf[c] = e
                  /\ c \in Listed(e) \/ reg[c] = "spawned" \/ actor[c] \in RunningStates

LEMMA NextHasReg == TypeOK /\ HasReg /\ [Next]_vars => HasReg'
<1> SUFFICES ASSUME TypeOK, HasReg, [Next]_vars PROVE HasReg'
  OBVIOUS
<1> USE DEF registryVars, queueVars, historyVars
<1>1. ASSUME NEW c \in Conn, ClientNew(c) \/ RegisterInsert(c) PROVE HasReg'
  BY <1>1 DEF ClientNew, RegisterInsert, TypeOK, HasReg
<1>2. ASSUME NEW c \in Conn, ServeStep(c) PROVE HasReg'
  <2>1. "none" \notin RunningStates BY DEF RunningStates
  <2> QED BY <1>2, <2>1, ServeFrame DEF HasReg
<1>3. ASSUME NEW c \in Conn,
             \/ Unregister(c) \/ ActorEnd(c) \/ \E peer \in Endpoint : NotifyPeer(c, peer)
      PROVE  HasReg'
  BY <1>3 DEF Unregister, ActorEnd, NotifyPeer, TypeOK, HasReg
<1>4. ASSUME \/ \E e \in Endpoint : Disconnect(e) \/ ShutdownCollect(e) \/ ShutdownRemove(e)
             \/ ShutdownBegin \/ ShutdownCancel \/ ShutdownReturn \/ UNCHANGED vars
      PROVE  HasReg'
  BY <1>4 DEF Disconnect, ShutdownCollect, ShutdownRemove, ShutdownBegin, ShutdownCancel,
              ShutdownReturn, vars, HasReg
<1> QED BY <1>1, <1>2, <1>3, <1>4, NextCases

\* A step after which nothing is listed less, and nobody has stopped, keeps a connection.
LEMMA KeptFrame ==
  ASSUME NEW e \in Endpoint, Kept(e), Listed(e) \subseteq Listed(e)',
         \A c \in Conn : reg[c] = "spawned" => reg'[c] = "spawned" \/ c \in Listed(EndpointOf[c])',
         \A c \in Conn : actor[c] \in RunningStates => actor'[c] \in RunningStates
  PROVE  Kept(e)'
BY DEF Kept

\* The connection that register() inserts is the active one.
LEMMA InsertListed ==
  ASSUME TypeOK, NEW c \in Conn, RegisterInsert(c)
  PROVE  /\ c \in Listed(EndpointOf[c])'
         /\ \A e \in Endpoint : Listed(e) \subseteq Listed(e)'
         /\ Listed(EndpointOf[c])' \subseteq Listed(EndpointOf[c]) \cup {c}
<1> DEFINE e == EndpointOf[c]
           s == clients[e].inactive
<1>1. e \in Endpoint /\ clients[e].active \in Conn \cup {NoConn} /\ s \in Seq(Conn)
  BY DEF TypeOK
<1>2. CASE clients[e] = NoEntry
  <2>1. clients' = [clients EXCEPT ![e] = [active |-> c, inactive |-> <<>>]]
    BY <1>2 DEF RegisterInsert, NoEntry
  <2>2. /\ clients'[e].active = c /\ clients'[e].inactive = <<>>
        /\ \A f \in Endpoint \ {e} : clients'[f] = clients[f]
    BY <1>1, <2>1 DEF TypeOK
  <2>3. Listed(e) = {} BY <1>2 DEF Listed, Elements, NoEntry
  <2>4. c \in Listed(e)' BY <2>2 DEF Listed
  <2>6. Listed(e)' \subseteq {c} BY <2>2 DEF Listed, Elements
  <2>5. \A f \in Endpoint \ {e} : Listed(f)' = Listed(f) BY <2>2 DEF Listed, Elements
  <2> QED BY <2>3, <2>4, <2>5, <2>6
<1>3. CASE clients[e].active # NoConn
  <2>1. clients' = [clients EXCEPT ![e] =
                      [active |-> c, inactive |-> Append(@.inactive, clients[e].active)]]
    BY <1>3 DEF RegisterInsert, NoEntry
  <2>2. /\ clients'[e].active = c /\ clients'[e].inactive = Append(s, clients[e].active)
        /\ \A f \in Endpoint \ {e} : clients'[f] = clients[f]
    BY <1>1, <2>1 DEF TypeOK
  <2>3. Elements(Append(s, clients[e].active)) = Elements(s) \cup {clients[e].active}
    <3>1. clients[e].active \in Conn BY <1>1, <1>3
    <3>2. /\ DOMAIN s = 1..Len(s) /\ Len(s) \in Nat
          /\ DOMAIN Append(s, clients[e].active) = 1..(Len(s) + 1)
          /\ \A i \in 1..Len(s) : Append(s, clients[e].active)[i] = s[i]
          /\ Append(s, clients[e].active)[Len(s) + 1] = clients[e].active
      BY <1>1, <3>1, PushOnto
    <3> HIDE DEF s, e
    <3> QED BY <3>2 DEF Elements
  <2>4. c \in Listed(e)' BY <2>2 DEF Listed
  <2>5. Listed(e) \subseteq Listed(e)'
    <3>1. Listed(e) \subseteq Elements(s) \cup {clients[e].active} BY DEF Listed
    <3>2. Elements(Append(s, clients[e].active)) \subseteq Listed(e)' BY <2>2 DEF Listed
    <3> QED BY <2>3, <3>1, <3>2
  <2>6. \A f \in Endpoint \ {e} : Listed(f)' = Listed(f) BY <2>2 DEF Listed, Elements
  <2>7. Listed(e)' \subseteq Listed(e) \cup {c}
    <3>1. Listed(e)' \subseteq Elements(Append(s, clients[e].active)) \cup {c} BY <2>2 DEF Listed
    <3>2. Elements(s) \cup {clients[e].active} \subseteq Listed(e) BY <1>3 DEF Listed
    <3> QED BY <2>3, <3>1, <3>2
  <2> QED BY <2>4, <2>5, <2>6, <2>7
<1> QED BY <1>2, <1>3 DEF RegisterInsert

LEMMA UnregisterSentTo ==
  ASSUME TypeOK, RegistryInv, ShutdownInv, HasReg, SentToNotLeaked, shutdown.stage = "up",
         NEW c \in Conn, Unregister(c), NEW e \in Endpoint, sent_to'[e] # {}
  PROVE  Kept(e)'
<1> DEFINE o == EndpointOf[c]
<1>1. o \in Endpoint /\ shutdown.awaited = {} /\ actor[c] = "exiting" /\ reg' = reg
  BY DEF ShutdownInv, Unregister
<1>2. \A d \in Conn \ {c} : actor'[d] = actor[d]
  BY DEF Unregister, TypeOK
<1>3. sent_to[e] # {}
  BY <1>1 DEF Unregister, Promote, RemoveEntry, RetainOthers, NothingToRemove, TypeOK
<1>4. PICK d \in Conn : /\ EndpointOf[d] = e
                        /\ d \in Listed(e) \/ reg[d] = "spawned" \/ actor[d] \in RunningStates
  BY <1>3 DEF SentToNotLeaked
<1>5. CASE e # o
  <2>1. Listed(e)' = Listed(e) BY <1>5, UnregisterListed DEF Listed, Elements
  <2> QED BY <1>1, <1>2, <1>4, <1>5, <2>1 DEF Kept
<1>6. CASE e = o
  <2>1. Listed(o)' = Listed(o) \ {c} BY UnregisterListed
  <2>2. ASSUME NEW x \in Listed(o), x # c PROVE Kept(e)'
    <3>1. x \in Conn /\ EndpointOf[x] = o BY <1>1, ListedOwn DEF RegistryInv
    <3> QED BY <1>6, <2>1, <2>2, <3>1 DEF Kept
  <2>3. CASE Promote(c, o)
    <3>1. clients[o].inactive # <<>> /\ clients[o].inactive \in Seq(Conn) /\ clients[o].active = c
      BY <2>3, <1>1 DEF Promote, TypeOK
    <3>2. Len(clients[o].inactive) \in DOMAIN clients[o].inactive BY <3>1
    <3>3. \A i \in DOMAIN clients[o].inactive :
            clients[o].inactive[i] # c /\ clients[o].inactive[i] \in Listed(o)
      BY <1>1, <3>1 DEF RegistryInv, MostRecentIsActive, Listed, Elements
    <3> QED BY <2>2, <3>2, <3>3
  <2>4. CASE RemoveEntry(c, o)
    BY <1>6, <1>1, <2>4 DEF RemoveEntry, TypeOK
  <2>5. CASE RetainOthers(c, o)
    BY <2>2, <2>5 DEF RetainOthers, Listed
  <2>6. CASE NothingToRemove(o)
    <3>1. ~ (reg[c] = "inserted")
      BY <1>1, <2>6, RunningHasEntry DEF NothingToRemove, RunningStates
    <3>2. reg[c] # "absent" BY <1>1 DEF HasReg
    <3>3. reg[c] = "spawned" BY <3>1, <3>2 DEF TypeOK
    <3> QED BY <1>1, <1>6, <3>3 DEF Kept
  <2> QED BY <2>3, <2>4, <2>5, <2>6 DEF Unregister
<1> QED BY <1>5, <1>6

LEMMA NextSentTo ==
  ASSUME TypeOK, RegistryInv, ShutdownInv, HasReg, SentToNotLeaked, [Next]_vars
  PROVE  SentToNotLeaked'
<1> SUFFICES ASSUME shutdown'.stage = "up", NEW e \in Endpoint, sent_to'[e] # {} PROVE Kept(e)'
  BY DEF SentToNotLeaked, Kept
<1> USE DEF registryVars, queueVars, historyVars
<1>0. shutdown.stage = "up" => (sent_to[e] # {} => Kept(e)) BY DEF SentToNotLeaked, Kept
<1>00. clients' = clients => Listed(e)' = Listed(e) BY DEF Listed, Elements
<1>1. ASSUME NEW c \in Conn, ClientNew(c) PROVE Kept(e)'
  <2>1. UNCHANGED <<clients, sent_to, shutdown>> BY <1>1 DEF ClientNew
  <2>2. /\ reg'[c] = "spawned" /\ actor'[c] \in RunningStates
        /\ \A d \in Conn \ {c} : reg'[d] = reg[d] /\ actor'[d] = actor[d]
    BY <1>1 DEF ClientNew, TypeOK, RunningStates
  <2> QED BY <1>0, <1>00, <2>1, <2>2, KeptFrame
<1>2. ASSUME NEW c \in Conn, RegisterInsert(c) PROVE Kept(e)'
  <2>1. UNCHANGED <<sent_to, shutdown, actor>> BY <1>2 DEF RegisterInsert
  <2>2. \A d \in Conn \ {c} : reg'[d] = reg[d] BY <1>2 DEF RegisterInsert, TypeOK
  <2> QED BY <1>0, <1>2, <2>1, <2>2, InsertListed, KeptFrame
<1>3. ASSUME NEW c \in Conn, ServeStep(c) PROVE Kept(e)'
  <2>1. UNCHANGED <<clients, reg, shutdown>> BY <1>3, ServeFrame
  <2>2. /\ \A d \in Conn \ {c} : actor'[d] = actor[d]
        /\ actor[c] \in RunningStates /\ actor'[c] \in RunningStates
    BY <1>3, ServeFrame
  <2>3. sent_to'[e] = sent_to[e] \/ e = EndpointOf[c]
    BY <1>3 DEF ServeStep, StreamFails, RecordSentTo, WritePacket, PollMessages, WriteMessage,
                NoMessages, Cancelled, SendPacketQueued, SendPacketClosed, TypeOK
  <2>4. CASE e = EndpointOf[c] BY <2>2, <2>4 DEF Kept
  <2>5. CASE sent_to'[e] = sent_to[e] BY <1>0, <1>00, <2>1, <2>2, <2>5, KeptFrame
  <2> QED BY <2>3, <2>4, <2>5
<1>4. ASSUME NEW c \in Conn, Unregister(c) PROVE Kept(e)'
  BY <1>4, UnregisterSentTo DEF Unregister
<1>5. ASSUME NEW c \in Conn, ActorEnd(c) \/ \E peer \in Endpoint : NotifyPeer(c, peer)
      PROVE  Kept(e)'
  <2>1. UNCHANGED <<clients, sent_to, reg, shutdown>> BY <1>5 DEF ActorEnd, NotifyPeer
  <2>2. \A d \in Conn : actor[d] \in RunningStates => actor'[d] \in RunningStates
    BY <1>5 DEF ActorEnd, NotifyPeer, RunningStates, TypeOK
  <2> QED BY <1>0, <1>00, <2>1, <2>2, KeptFrame
<1>6. ASSUME \/ \E f \in Endpoint : Disconnect(f)
             \/ UNCHANGED vars
      PROVE  Kept(e)'
  <2>1. UNCHANGED <<clients, sent_to, reg, shutdown, actor>> BY <1>6 DEF Disconnect, vars
  <2> QED BY <1>0, <1>00, <2>1, KeptFrame
<1>7. ASSUME \/ \E f \in Endpoint : ShutdownCollect(f) \/ ShutdownRemove(f)
             \/ ShutdownBegin \/ ShutdownCancel \/ ShutdownReturn
      PROVE  FALSE
  BY <1>7 DEF ShutdownCollect, ShutdownRemove, ShutdownBegin, ShutdownCancel, ShutdownReturn,
              TypeOK
<1> QED BY <1>1, <1>2, <1>3, <1>4, <1>5, <1>6, <1>7, NextCases

\* The list of an endpoint's peers never outlives its connections, on either runtime and
\* however register() and unregister() of its connections interleave with packets on the way.
THEOREM SentToNotLeakedHolds == Spec => []SentToNotLeaked
<1>1. Init => HasReg /\ SentToNotLeaked BY DEF Init, HasReg, SentToNotLeaked
<1>2. /\ TypeOK /\ RegistryInv /\ ShutdownInv /\ HasReg /\ SentToNotLeaked /\ [Next]_vars
      => (HasReg /\ SentToNotLeaked)'
  BY NextHasReg, NextSentTo
<1> QED BY <1>1, <1>2, ShutdownInvariant, PTL DEF Spec

-----------------------------------------------------------------------------
(***************************************************************************)
(* The status a client was told last.  Until it is inserted, and after its *)
(* end, it has been sent nothing.                                          *)
(***************************************************************************)
Statuses(q) == {i \in DOMAIN q : q[i][1] = "Status"}

\* The last status of queue q, or t if there is none.
Latest(q, t) ==
  IF Statuses(q) = {} THEN t
  ELSE q[CHOOSE i \in Statuses(q) : \A j \in Statuses(q) : j <= i][2]

LEMMA LastStatusIsLatest ==
  ASSUME NEW c \in Conn
  PROVE  /\ LastStatus(c) = Latest(message_queue[c], told[c])
         /\ LastStatus(c)' = Latest(message_queue'[c], told'[c])
BY DEF LastStatus, Latest, Statuses

\* Any status behind which there is no other is the latest.
LEMMA LatestAt ==
  ASSUME NEW q \in Seq(Message), NEW t, NEW i \in Statuses(q), \A j \in Statuses(q) : j <= i
  PROVE  Latest(q, t) = q[i][2]
<1> DEFINE k == CHOOSE x \in Statuses(q) : \A j \in Statuses(q) : j <= x
<1>1. k \in Statuses(q) /\ \A j \in Statuses(q) : j <= k OBVIOUS
<1>2. Statuses(q) \subseteq Nat BY DEF Statuses
<1> HIDE DEF k
<1>3. k = i BY <1>1, <1>2
<1>4. Latest(q, t) = q[k][2] BY DEF Latest, k
<1> QED BY <1>3, <1>4

LEMMA SomeLatest ==
  ASSUME NEW q \in Seq(Message), Statuses(q) # {}
  PROVE  \E i \in Statuses(q) : \A j \in Statuses(q) : j <= i
<1>1. Len(q) \in Nat /\ Statuses(q) \in SUBSET (1..Len(q)) BY DEF Statuses
<1> QED BY <1>1, LastIndex

\* A status put at the end is the latest; another message does not matter.
LEMMA LatestAppend ==
  ASSUME NEW q \in Seq(Message), NEW t, NEW m \in Message
  PROVE  /\ m[1] = "Status" => Latest(Append(q, m), t) = m[2]
         /\ m[1] # "Status" => Latest(Append(q, m), t) = Latest(q, t)
<1> DEFINE r == Append(q, m)
<1>1. /\ r \in Seq(Message) /\ DOMAIN q = 1..Len(q) /\ Len(q) \in Nat
      /\ DOMAIN r = 1..(Len(q) + 1)
      /\ \A i \in 1..Len(q) : r[i] = q[i]
      /\ r[Len(q) + 1] = m
  BY PushOnto
<1> HIDE DEF r
<1>2. ASSUME m[1] = "Status" PROVE Latest(r, t) = m[2]
  <2>1. Len(q) + 1 \in Statuses(r) BY <1>1, <1>2 DEF Statuses
  <2>2. \A j \in Statuses(r) : j <= Len(q) + 1 BY <1>1 DEF Statuses
  <2> QED BY <1>1, <2>1, <2>2, LatestAt
<1>3. ASSUME m[1] # "Status" PROVE Latest(r, t) = Latest(q, t)
  <2>1. Statuses(r) = Statuses(q) BY <1>1, <1>3 DEF Statuses
  <2>2. CASE Statuses(q) = {} BY <2>1, <2>2 DEF Latest
  <2>3. CASE Statuses(q) # {}
    <3>1. PICK i \in Statuses(q) : \A j \in Statuses(q) : j <= i BY <2>3, SomeLatest
    <3>2. r[i] = q[i] BY <1>1 DEF Statuses
    <3>3. Latest(q, t) = q[i][2] BY <3>1, LatestAt
    <3>4. Latest(r, t) = r[i][2] BY <1>1, <2>1, <3>1, LatestAt
    <3> QED BY <3>2, <3>3, <3>4
  <2> QED BY <2>2, <2>3
<1> QED BY <1>2, <1>3 DEF r

\* Writing the first message to the client leaves the latest status what it was.
LEMMA LatestTail ==
  ASSUME NEW q \in Seq(Message), q # <<>>, NEW t, NEW u,
         u = IF Head(q)[1] = "Status" THEN Head(q)[2] ELSE t
  PROVE  Latest(Tail(q), u) = Latest(q, t)
<1> DEFINE r == Tail(q)
<1>1. /\ r \in Seq(Message) /\ DOMAIN q = 1..Len(q) /\ Len(q) \in Nat /\ Len(q) >= 1
      /\ DOMAIN r = 1..(Len(q) - 1)
      /\ \A i \in 1..(Len(q) - 1) : r[i] = q[i + 1]
      /\ Head(q) = q[1]
  OBVIOUS
<1> SUFFICES Latest(r, u) = Latest(q, t)
  OBVIOUS
<1> HIDE DEF r
<1>2. \A i \in 1..(Len(q) - 1) : i \in Statuses(r) <=> i + 1 \in Statuses(q)
  BY <1>1 DEF Statuses
<1>2a. Statuses(r) \subseteq 1..(Len(q) - 1) /\ Statuses(q) \subseteq 1..Len(q)
  BY <1>1 DEF Statuses
<1>3. CASE Statuses(r) = {}
  <2>1. Latest(r, u) = u BY <1>3 DEF Latest
  <2>2. \A i \in Statuses(q) : i = 1
    <3> SUFFICES ASSUME NEW i \in Statuses(q), i # 1 PROVE FALSE OBVIOUS
    <3>1. i - 1 \in 1..(Len(q) - 1) /\ (i - 1) + 1 = i BY <1>1, <1>2a
    <3> QED BY <1>2, <1>3, <3>1
  <2>3. CASE Head(q)[1] = "Status"
    <3>1. 1 \in Statuses(q) BY <1>1, <2>3 DEF Statuses
    <3>2. Latest(q, t) = q[1][2] BY <2>2, <3>1, LatestAt
    <3> QED BY <1>1, <2>1, <2>3, <3>2
  <2>4. CASE Head(q)[1] # "Status"
    <3>1. Statuses(q) = {} BY <1>1, <2>2, <2>4 DEF Statuses
    <3> QED BY <2>1, <2>4, <3>1 DEF Latest
  <2> QED BY <2>3, <2>4
<1>4. CASE Statuses(r) # {}
  <2>1. PICK i \in Statuses(r) : \A j \in Statuses(r) : j <= i BY <1>1, <1>4, SomeLatest
  <2>2. i \in 1..(Len(q) - 1) /\ i + 1 \in Statuses(q) /\ r[i] = q[i + 1]
    BY <1>1, <1>2, <1>2a, <2>1
  <2>3. \A j \in Statuses(q) : j <= i + 1
    <3> SUFFICES ASSUME NEW j \in Statuses(q) PROVE j <= i + 1 OBVIOUS
    <3>1. CASE j = 1 BY <2>2, <3>1
    <3>2. CASE j # 1
      <4>1. j - 1 \in 1..(Len(q) - 1) /\ (j - 1) + 1 = j BY <1>1, <1>2a, <3>2
      <4>2. j - 1 \in Statuses(r) BY <1>2, <4>1
      <4>3. j - 1 <= i BY <2>1, <4>2
      <4> QED BY <2>2, <4>1, <4>3
    <3> QED BY <3>1, <3>2
  <2>4. Latest(q, t) = q[i + 1][2] BY <2>2, <2>3, LatestAt
  <2>5. Latest(r, u) = r[i][2] BY <1>1, <2>1, LatestAt
  <2> QED BY <2>2, <2>4, <2>5
<1> QED BY <1>3, <1>4

Quiet == \A c \in Conn :
  reg[c] = "spawned" \/ actor[c] \in {"none", "exited"} => message_queue[c] = <<>> /\ told[c] = Healthy

\* What StatusMatchesRole says of one connection.
Told(c) ==
  c \in Listed(EndpointOf[c]) /\ ~statusLost[c] /\ ~Closed(c)
    => (LastStatus(c) = Healthy <=> clients[EndpointOf[c]].active = c)

LEMMA ToldFrame ==
  ASSUME NEW c \in Conn, Told(c), LastStatus(c)' = LastStatus(c), statusLost'[c] = statusLost[c],
         c \in Listed(EndpointOf[c])' => c \in Listed(EndpointOf[c]), Closed(c) => Closed(c)',
         clients'[EndpointOf[c]].active = c <=> clients[EndpointOf[c]].active = c
  PROVE  Told(c)'
BY DEF Told

\* What a queued message does to its queue and to the others.
LEMMA QueuedAt ==
  ASSUME TypeOK, NEW o \in Conn, NEW m \in Message, message_queue' = Queued(o, m)
  PROVE  /\ \A d \in Conn \ {o} : message_queue'[d] = message_queue[d]
         /\ CanQueueMessage(o) => message_queue'[o] = Append(message_queue[o], m)
         /\ ~CanQueueMessage(o) => message_queue'[o] = message_queue[o]
BY DEF TypeOK, Queued

\* A listed connection is none of those that have been sent nothing, unless it has ended
\* and its queue is closed.
LEMMA ListedIsServed ==
  ASSUME TypeOK, RegistryInv, HasActor, NEW e \in Endpoint, NEW o \in Listed(e)
  PROVE  /\ o \in Conn /\ reg[o] = "inserted" /\ actor[o] # "none"
         /\ actor[o] = "exited" => ~CanQueueMessage(o)
BY ListedOwn DEF RegistryInv, HasActor, CanQueueMessage, Closed

\* The effect of try_send_health on the connection it is meant for.
LEMMA HealthAt ==
  ASSUME TypeOK, NEW o \in Conn, NEW s \in Status, TrySendHealth(o, s), UNCHANGED told
  PROVE  /\ \A d \in Conn \ {o} : /\ message_queue'[d] = message_queue[d]
                                  /\ statusLost'[d] = statusLost[d]
                                  /\ LastStatus(d)' = LastStatus(d)
         /\ statusLost'[o] \/ LastStatus(o)' = s
         /\ ~CanQueueMessage(o) => message_queue'[o] = message_queue[o]
<1>1. /\ \A d \in Conn \ {o} : message_queue'[d] = message_queue[d]
      /\ CanQueueMessage(o) => message_queue'[o] = Append(message_queue[o], StatusMsg(s))
      /\ ~CanQueueMessage(o) => message_queue'[o] = message_queue[o]
  BY MessageType, QueuedAt DEF TrySendHealth
<1>2. \A d \in Conn \ {o} : statusLost'[d] = statusLost[d] BY DEF TrySendHealth, TypeOK
<1>3. \A d \in Conn \ {o} : LastStatus(d)' = LastStatus(d)
  BY <1>1, LastStatusIsLatest
<1>4. CASE CanQueueMessage(o)
  <2>1. StatusMsg(s) \in Message /\ StatusMsg(s)[1] = "Status" /\ StatusMsg(s)[2] = s
    BY MessageType DEF StatusMsg
  <2>2. message_queue[o] \in Seq(Message) BY DEF TypeOK
  <2>3. Latest(Append(message_queue[o], StatusMsg(s)), told[o]) = s
    BY <2>1, <2>2, LatestAppend
  <2> QED BY <1>1, <1>2, <1>3, <1>4, <2>3, LastStatusIsLatest
<1>5. CASE ~CanQueueMessage(o)
  BY <1>1, <1>2, <1>3, <1>5 DEF TrySendHealth, TypeOK
<1> QED BY <1>4, <1>5

RoleInv == Quiet /\ StatusMatchesRole

LEMMA ServeRole ==
  ASSUME TypeOK, RegistryInv, RoleInv, NEW c \in Conn, ServeStep(c)
  PROVE  RoleInv'
<1>1. UNCHANGED <<clients, reg, statusLost>> BY ServeFrame
<1>2. /\ \A d \in Conn \ {c} : actor'[d] = actor[d]
      /\ actor[c] \in RunningStates /\ actor'[c] \in RunningStates
  BY ServeFrame
<1>3. "none" \notin RunningStates /\ "exited" \notin RunningStates BY DEF RunningStates
<1>4. UNCHANGED <<message_queue, told>> \/ WriteMessage(c)
  BY DEF ServeStep, StreamFails, RecordSentTo, WritePacket, PollMessages, NoMessages, Cancelled,
         SendPacketQueued, SendPacketClosed, queueVars, historyVars
<1>5. /\ \A d \in Conn : LastStatus(d)' = LastStatus(d)
      /\ \A d \in Conn : message_queue[d] = <<>> =>
           message_queue'[d] = message_queue[d] /\ told'[d] = told[d]
  <2>1. CASE UNCHANGED <<message_queue, told>> BY <2>1, LastStatusIsLatest
  <2>2. CASE WriteMessage(c)
    <3> DEFINE q == message_queue[c]
    <3>1. q \in Seq(Message) /\ q # <<>> BY <2>2 DEF TypeOK, WriteMessage
    <3>2. /\ message_queue'[c] = Tail(q)
          /\ told'[c] = IF Head(q)[1] = "Status" THEN Head(q)[2] ELSE told[c]
          /\ \A d \in Conn \ {c} : message_queue'[d] = message_queue[d] /\ told'[d] = told[d]
      BY <2>2 DEF TypeOK, WriteMessage, LearnStatus
    <3>3. Latest(Tail(q), told'[c]) = Latest(q, told[c])
      <4> HIDE DEF q
      <4> QED BY <3>1, <3>2, LatestTail
    <3>5. LastStatus(c)' = LastStatus(c) BY <3>2, <3>3, LastStatusIsLatest
    <3>6. \A d \in Conn \ {c} : LastStatus(d)' = LastStatus(d) BY <3>2, LastStatusIsLatest
    <3> QED BY <3>1, <3>2, <3>5, <3>6
  <2> QED BY <1>4, <2>1, <2>2
<1>6. Quiet' BY <1>1, <1>2, <1>3, <1>5 DEF RoleInv, Quiet
<1>7. \A d \in Conn : Told(d)'
  <2> SUFFICES ASSUME NEW d \in Conn PROVE Told(d)' OBVIOUS
  <2>1. Told(d) BY DEF RoleInv, StatusMatchesRole, Told
  <2>2. Closed(d)' <=> Closed(d) BY <1>2, <1>3 DEF Closed
  <2>3. Listed(EndpointOf[d])' = Listed(EndpointOf[d]) BY <1>1 DEF Listed, Elements
  <2> QED BY <1>1, <1>5, <2>1, <2>2, <2>3, ToldFrame
<1> QED BY <1>6, <1>7 DEF RoleInv, StatusMatchesRole, Told

LEMMA NotifyRole ==
  ASSUME TypeOK, RegistryInv, HasActor, RoleInv, NEW c \in Conn, NEW peer \in Endpoint,
         NotifyPeer(c, peer)
  PROVE  RoleInv'
<1> USE DEF registryVars
<1> DEFINE m == EndpointGone(EndpointOf[c])
<1>1. UNCHANGED <<clients, reg, statusLost, actor, told>> BY DEF NotifyPeer
<1>2. /\ \A d \in Conn : LastStatus(d)' = LastStatus(d)
      /\ \A d \in Conn : reg[d] = "spawned" \/ actor[d] \in {"none", "exited"}
                           => message_queue'[d] = message_queue[d]
  <2>1. CASE UNCHANGED message_queue BY <1>1, <2>1, LastStatusIsLatest
  <2>2. CASE ~ UNCHANGED message_queue
    <3>1. PICK o \in Conn : /\ o = clients[peer].active /\ CanQueueMessage(o)
                            /\ message_queue' = Queued(o, m)
      BY <2>2 DEF NotifyPeer, TypeOK
    <3>2. o \in Listed(peer) BY <3>1 DEF Listed
    <3>3. reg[o] = "inserted" /\ actor[o] # "none" /\ actor[o] # "exited"
      BY <3>1, <3>2, ListedIsServed
    <3>4. m \in Message /\ m[1] # "Status" BY MessageType DEF EndpointGone
    <3> HIDE DEF m
    <3>5. /\ \A d \in Conn \ {o} : message_queue'[d] = message_queue[d]
          /\ message_queue'[o] = Append(message_queue[o], m)
      BY <3>1, <3>4, QueuedAt
    <3>6. message_queue[o] \in Seq(Message) BY DEF TypeOK
    <3>7. LastStatus(o)' = LastStatus(o)
      <4>1. Latest(Append(message_queue[o], m), told[o]) = Latest(message_queue[o], told[o])
        BY <3>4, <3>6, LatestAppend
      <4>2. message_queue'[o] = Append(message_queue[o], m) /\ told'[o] = told[o]
        BY <1>1, <3>5
      <4> QED BY <4>1, <4>2, LastStatusIsLatest
    <3>8. \A d \in Conn \ {o} : LastStatus(d)' = LastStatus(d)
      BY <1>1, <3>5, LastStatusIsLatest
    <3> QED BY <3>3, <3>5, <3>7, <3>8
  <2> QED BY <2>1, <2>2
<1>3. Quiet' BY <1>1, <1>2 DEF RoleInv, Quiet
<1>4. \A d \in Conn : Told(d)'
  <2> SUFFICES ASSUME NEW d \in Conn PROVE Told(d)' OBVIOUS
  <2>1. Told(d) BY DEF RoleInv, StatusMatchesRole, Told
  <2>2. Closed(d)' <=> Closed(d) BY <1>1 DEF Closed
  <2>3. Listed(EndpointOf[d])' = Listed(EndpointOf[d]) BY <1>1 DEF Listed, Elements
  <2> QED BY <1>1, <1>2, <2>1, <2>2, <2>3, ToldFrame
<1> QED BY <1>3, <1>4 DEF RoleInv, StatusMatchesRole, Told

LEMMA InsertRole ==
  ASSUME TypeOK, RegistryInv, HasActor, RoleInv, NEW c \in Conn, RegisterInsert(c)
  PROVE  RoleInv'
<1> DEFINE e == EndpointOf[c]
           Displaced(old) ==
             /\ old = {clients[e].active} \ {NoConn}
             /\ \A d \in Conn \ old : /\ message_queue'[d] = message_queue[d]
                                      /\ statusLost'[d] = statusLost[d]
                                      /\ LastStatus(d)' = LastStatus(d)
             /\ \A d \in old : /\ d \in Listed(e) /\ d # c
                               /\ statusLost'[d] \/ LastStatus(d)' # Healthy
                               /\ ~CanQueueMessage(d) => message_queue'[d] = message_queue[d]
<1>1. e \in Endpoint /\ reg[c] = "spawned" /\ UNCHANGED <<actor, told>>
  BY DEF RegisterInsert
<1>2. reg'[c] = "inserted" /\ \A d \in Conn \ {c} : reg'[d] = reg[d]
  BY DEF RegisterInsert, TypeOK
<1>3. clients'[e].active = c /\ \A f \in Endpoint \ {e} : clients'[f] = clients[f]
  BY <1>1 DEF RegisterInsert, TypeOK
<1>4. \A f \in Endpoint \ {e} : Listed(f)' = Listed(f) BY <1>3 DEF Listed, Elements
<1>5. Listed(e)' \subseteq Listed(e) \cup {c} BY InsertListed
<1>6. c \notin Listed(e) BY <1>1, ListedOwn DEF RegistryInv
<1>7. message_queue[c] = <<>> /\ told[c] = Healthy BY <1>1 DEF RoleInv, Quiet
\* The connection that was active, if there was one, is told or it missed its status.
<1>8. \E old \in SUBSET Conn : Displaced(old)
  <2>1. CASE clients[e] = NoEntry
    <3>1. clients[e].active = NoConn /\ UNCHANGED <<message_queue, statusLost>>
      BY <2>1 DEF RegisterInsert, NoEntry
    <3>2. \A d \in Conn : LastStatus(d)' = LastStatus(d) BY <1>1, <3>1, LastStatusIsLatest
    <3>3. Displaced({}) BY <3>1, <3>2
    <3> HIDE DEF Displaced
    <3> QED BY <3>3
  <2>2. CASE clients[e].active # NoConn
    <3>1. PICK o \in Conn : o = clients[e].active /\ TrySendHealth(o, SameEndpointIdConnected)
      BY <1>1, <2>2 DEF RegisterInsert, NoEntry, TypeOK
    <3>2. SameEndpointIdConnected \in Status /\ SameEndpointIdConnected # Healthy
      BY DEF Status, SameEndpointIdConnected, Healthy
    <3>3. o \in Listed(e) /\ o # c BY <1>6, <2>2, <3>1 DEF Listed
    <3>4. /\ \A d \in Conn \ {o} : /\ message_queue'[d] = message_queue[d]
                                   /\ statusLost'[d] = statusLost[d]
                                   /\ LastStatus(d)' = LastStatus(d)
          /\ statusLost'[o] \/ LastStatus(o)' = SameEndpointIdConnected
          /\ ~CanQueueMessage(o) => message_queue'[o] = message_queue[o]
      BY <1>1, <3>1, <3>2, HealthAt
    <3>5. {o} = {clients[e].active} \ {NoConn} BY <2>2, <3>1
    <3>6. Displaced({o}) BY <3>2, <3>3, <3>4, <3>5
    <3> HIDE DEF Displaced
    <3> QED BY <3>6
  <2> QED BY <2>1, <2>2 DEF RegisterInsert
<1>9. PICK old \in SUBSET Conn : Displaced(old)
  BY <1>8
<1>10. Quiet'
  <2>1. \A d \in old : /\ reg[d] = "inserted" /\ actor[d] # "none"
                       /\ actor[d] = "exited" => message_queue'[d] = message_queue[d]
    BY <1>1, <1>9, ListedIsServed
  <2> QED BY <1>1, <1>2, <1>9, <2>1 DEF RoleInv, Quiet
<1>11. \A d \in Conn : Told(d)'
  <2> SUFFICES ASSUME NEW d \in Conn PROVE Told(d)' OBVIOUS
  <2>1. Told(d) /\ (Closed(d)' <=> Closed(d))
    BY <1>1 DEF RoleInv, StatusMatchesRole, Told, Closed
  <2>2. CASE EndpointOf[d] # e
    <3>1. d \notin old BY <1>1, <1>9, <2>2, ListedOwn DEF RegistryInv
    <3>2. clients'[EndpointOf[d]] = clients[EndpointOf[d]]
          /\ Listed(EndpointOf[d])' = Listed(EndpointOf[d])
      BY <1>3, <1>4, <2>2
    <3> QED BY <1>9, <2>1, <3>1, <3>2, ToldFrame
  <2>3. CASE d = c
    <3>1. LastStatus(c) = Healthy
      <4>1. Statuses(<<>>) = {} BY DEF Statuses
      <4>2. LastStatus(c) = Latest(<<>>, Healthy) BY <1>7, LastStatusIsLatest
      <4> QED BY <4>1, <4>2 DEF Latest
    <3>2. LastStatus(c)' = Healthy BY <1>9, <3>1
    <3> QED BY <1>3, <2>3, <3>2 DEF Told
  <2>4. CASE EndpointOf[d] = e /\ d # c /\ d \in Listed(e)
    <3>1. CASE d \in old BY <1>3, <1>9, <2>4, <3>1 DEF Told
    <3>2. CASE d \notin old
      <4>1. clients[e].active # d BY <1>9, <3>2
      <4>2. clients'[e].active # d BY <1>3, <2>4
      <4> QED BY <1>9, <2>1, <2>4, <3>2, <4>1, <4>2, ToldFrame
    <3> QED BY <3>1, <3>2
  <2>5. CASE EndpointOf[d] = e /\ d # c /\ d \notin Listed(e)
    BY <1>5, <2>5 DEF Told
  <2> QED BY <2>2, <2>3, <2>4, <2>5
<1> QED BY <1>10, <1>11 DEF RoleInv, StatusMatchesRole, Told

LEMMA PromoteRole ==
  ASSUME TypeOK, RegistryInv, HasActor, RoleInv, NEW c \in Conn, Unregister(c),
         Promote(c, EndpointOf[c])
  PROVE  \A d \in Conn : Told(d)' /\ (message_queue'[d] = message_queue[d]
                                        \/ (reg[d] = "inserted" /\ actor[d] \notin {"none", "exited"}))
<1> DEFINE e == EndpointOf[c]
           s == clients[e].inactive
<1>1. e \in Endpoint /\ s \in Seq(Conn) /\ s # <<>> /\ clients[e].active = c
  BY DEF Promote, TypeOK
<1>2. UNCHANGED told BY DEF Unregister
<1>3. PICK o \in Conn : o = s[Len(s)] /\ TrySendHealth(o, Healthy)
  BY <1>1, FrontOf DEF Promote
<1>4. clients'[e].active = o /\ \A f \in Endpoint \ {e} : clients'[f] = clients[f]
  BY <1>1, <1>3 DEF Promote, TypeOK
<1>5. Listed(e)' = Listed(e) \ {c} BY UnregisterListed
<1>6. \A f \in Endpoint \ {e} : Listed(f)' = Listed(f) BY <1>4 DEF Listed, Elements
<1>7. o \in Listed(e)
  <2>1. Len(s) \in DOMAIN s BY <1>1
  <2> QED BY <1>3, <2>1 DEF Listed, Elements
<1>8. Healthy \in Status BY DEF Status
<1>9. /\ \A d \in Conn \ {o} : /\ message_queue'[d] = message_queue[d]
                               /\ statusLost'[d] = statusLost[d]
                               /\ LastStatus(d)' = LastStatus(d)
      /\ statusLost'[o] \/ LastStatus(o)' = Healthy
      /\ ~CanQueueMessage(o) => message_queue'[o] = message_queue[o]
  BY <1>2, <1>3, <1>8, HealthAt
<1>10. /\ reg[o] = "inserted" /\ actor[o] # "none" /\ EndpointOf[o] = e
       /\ actor[o] = "exited" => ~CanQueueMessage(o)
  BY <1>1, <1>7, ListedIsServed, ListedOwn DEF RegistryInv
<1> HIDE DEF s
<1> SUFFICES ASSUME NEW d \in Conn PROVE Told(d)'
  BY <1>9, <1>10
<1>11. Told(d) /\ (Closed(d) => Closed(d)')
  BY DEF RoleInv, StatusMatchesRole, Told, Closed, Unregister, TypeOK
<1>12. CASE EndpointOf[d] # e
  <2>1. d # o BY <1>10, <1>12
  <2>2. /\ clients'[EndpointOf[d]] = clients[EndpointOf[d]]
        /\ Listed(EndpointOf[d])' = Listed(EndpointOf[d])
    BY <1>4, <1>6, <1>12
  <2> QED BY <1>9, <1>11, <2>1, <2>2, ToldFrame
<1>13. CASE d = o BY <1>4, <1>9, <1>10, <1>13 DEF Told
<1>14. CASE EndpointOf[d] = e /\ d # o /\ d # c
  <2>1. clients[e].active # d /\ clients'[e].active # d BY <1>1, <1>4, <1>14
  <2> QED BY <1>5, <1>9, <1>11, <1>14, <2>1, ToldFrame
<1>15. CASE d = c BY <1>5, <1>15 DEF Told
<1> QED BY <1>12, <1>13, <1>14, <1>15

LEMMA UnregisterRole ==
  ASSUME TypeOK, RegistryInv, HasActor, RoleInv, NEW c \in Conn, Unregister(c)
  PROVE  RoleInv'
<1> DEFINE e == EndpointOf[c]
<1>1. UNCHANGED <<reg, told>> /\ e \in Endpoint BY DEF Unregister
<1>2. actor'[c] = "notify" /\ \A d \in Conn \ {c} : actor'[d] = actor[d]
  BY DEF Unregister, TypeOK
<1>3. \A d \in Conn : Told(d)' /\ (message_queue'[d] = message_queue[d]
                                     \/ (reg[d] = "inserted" /\ actor[d] \notin {"none", "exited"}))
  <2>1. CASE Promote(c, e) BY <2>1, PromoteRole
  <2>2. CASE RemoveEntry(c, e) \/ RetainOthers(c, e) \/ NothingToRemove(e)
    <3>1. UNCHANGED <<message_queue, statusLost>>
      BY <2>2 DEF RemoveEntry, RetainOthers, NothingToRemove
    <3>2. \A d \in Conn : LastStatus(d)' = LastStatus(d) BY <1>1, <3>1, LastStatusIsLatest
    <3>3. /\ \A f \in Endpoint \ {e} : clients'[f] = clients[f]
          /\ Listed(e)' = Listed(e) \ {c}
      BY UnregisterListed
    <3>4. \A f \in Endpoint \ {e} : Listed(f)' = Listed(f) BY <3>3 DEF Listed, Elements
    <3>5. \A d \in Conn : d # c => (clients'[e].active = d <=> clients[e].active = d)
      BY <1>1, <2>2 DEF RemoveEntry, RetainOthers, NothingToRemove, NoEntry, TypeOK
    <3> SUFFICES ASSUME NEW d \in Conn PROVE Told(d)' BY <3>1
    <3>6. Told(d) /\ (Closed(d) => Closed(d)')
      BY <1>2 DEF RoleInv, StatusMatchesRole, Told, Closed, Unregister
    <3>7. CASE d = c BY <3>3, <3>7 DEF Told
    <3>8. CASE d # c /\ EndpointOf[d] = e BY <3>1, <3>2, <3>3, <3>5, <3>6, <3>8, ToldFrame
    <3>9. CASE d # c /\ EndpointOf[d] # e
      BY <3>1, <3>2, <3>3, <3>4, <3>6, <3>9, ToldFrame
    <3> QED BY <3>7, <3>8, <3>9
  <2> QED BY <2>1, <2>2 DEF Unregister
<1>4. Quiet' BY <1>1, <1>2, <1>3 DEF RoleInv, Quiet
<1> QED BY <1>3, <1>4 DEF RoleInv, StatusMatchesRole, Told

LEMMA OtherRole ==
  ASSUME TypeOK, RegistryInv, RoleInv,
         \/ \E c \in Conn : ClientNew(c) \/ ActorEnd(c)
         \/ \E e \in Endpoint : Disconnect(e) \/ ShutdownCollect(e) \/ ShutdownRemove(e)
         \/ ShutdownBegin \/ ShutdownCancel \/ ShutdownReturn \/ UNCHANGED vars
  PROVE  RoleInv'
<1> USE DEF registryVars, queueVars, historyVars
<1>0. \A d \in Conn : Told(d) BY DEF RoleInv, StatusMatchesRole, Told
<1>1. ASSUME NEW c \in Conn, ClientNew(c) PROVE RoleInv'
  <2>1. UNCHANGED <<clients, message_queue, told, statusLost>> BY <1>1 DEF ClientNew
  <2>2. /\ \A d \in Conn \ {c} : reg'[d] = reg[d] /\ actor'[d] = actor[d]
        /\ actor[c] \in {"none", "exited"} /\ c \notin Listed(EndpointOf[c])
    BY <1>1 DEF ClientNew, Fresh, TypeOK
  <2>3. Quiet' BY <2>1, <2>2 DEF RoleInv, Quiet
  <2>4. \A d \in Conn : Listed(EndpointOf[d])' = Listed(EndpointOf[d])
    BY <2>1 DEF Listed, Elements
  <2>5. \A d \in Conn : LastStatus(d)' = LastStatus(d) BY <2>1, LastStatusIsLatest
  <2>6. ASSUME NEW d \in Conn PROVE Told(d)'
    <3>1. CASE d = c BY <2>2, <2>4, <3>1 DEF Told
    <3>2. CASE d # c
      <4>1. Closed(d) => Closed(d)' BY <2>2, <3>2 DEF Closed
      <4> QED BY <1>0, <2>1, <2>4, <2>5, <3>2, <4>1, ToldFrame
    <3> QED BY <3>1, <3>2
  <2> QED BY <2>3, <2>6 DEF RoleInv, StatusMatchesRole, Told
<1>2. ASSUME NEW c \in Conn, ActorEnd(c) PROVE RoleInv'
  <2>1. UNCHANGED <<clients, reg>> BY <1>2 DEF ActorEnd
  <2>2. /\ actor'[c] = "exited" /\ message_queue'[c] = <<>> /\ told'[c] = Healthy
        /\ \A d \in Conn \ {c} : /\ actor'[d] = actor[d] /\ message_queue'[d] = message_queue[d]
                                 /\ told'[d] = told[d] /\ statusLost'[d] = statusLost[d]
    BY <1>2 DEF ActorEnd, TypeOK
  <2>3. Quiet' BY <2>1, <2>2 DEF RoleInv, Quiet
  <2>4. \A d \in Conn : Listed(EndpointOf[d])' = Listed(EndpointOf[d])
    BY <2>1 DEF Listed, Elements
  <2>5. \A d \in Conn \ {c} : LastStatus(d)' = LastStatus(d) BY <2>2, LastStatusIsLatest
  <2>6. ASSUME NEW d \in Conn PROVE Told(d)'
    <3>1. CASE d = c BY <2>2, <3>1 DEF Told, Closed
    <3>2. CASE d # c
      <4>1. Closed(d) => Closed(d)' BY <2>2, <3>2 DEF Closed
      <4> QED BY <1>0, <2>1, <2>2, <2>4, <2>5, <3>2, <4>1, ToldFrame
    <3> QED BY <3>1, <3>2
  <2> QED BY <2>3, <2>6 DEF RoleInv, StatusMatchesRole, Told
<1>3. ASSUME \/ \E e \in Endpoint : Disconnect(e) \/ ShutdownCollect(e) \/ ShutdownRemove(e)
             \/ ShutdownBegin \/ ShutdownCancel \/ ShutdownReturn \/ UNCHANGED vars
      PROVE  RoleInv'
  <2>1. UNCHANGED <<reg, actor, message_queue, told, statusLost>>
    BY <1>3 DEF Disconnect, ShutdownCollect, ShutdownRemove, ShutdownBegin, ShutdownCancel,
                ShutdownReturn, vars
  <2>2. \A f \in Endpoint : clients'[f] = clients[f] \/ clients'[f] = NoEntry
    BY <1>3 DEF Disconnect, ShutdownCollect, ShutdownRemove, ShutdownBegin, ShutdownCancel,
                ShutdownReturn, vars, TypeOK
  <2>3. Quiet' BY <2>1 DEF RoleInv, Quiet
  <2>4. \A d \in Conn : LastStatus(d)' = LastStatus(d) BY <2>1, LastStatusIsLatest
  <2>5. ASSUME NEW d \in Conn PROVE Told(d)'
    <3>1. Closed(d) => Closed(d)' BY <2>1 DEF Closed
    <3>2. CASE clients'[EndpointOf[d]] = clients[EndpointOf[d]]
      <4>1. Listed(EndpointOf[d])' = Listed(EndpointOf[d]) BY <3>2 DEF Listed, Elements
      <4> QED BY <1>0, <2>1, <2>4, <3>1, <3>2, <4>1, ToldFrame
    <3>3. CASE clients'[EndpointOf[d]] = NoEntry
      <4>1. Listed(EndpointOf[d])' = {} BY <3>3 DEF Listed, Elements, NoEntry
      <4> QED BY <4>1 DEF Told
    <3> QED BY <2>2, <3>2, <3>3
  <2> QED BY <2>3, <2>5 DEF RoleInv, StatusMatchesRole, Told
<1> QED BY <1>1, <1>2, <1>3

\* The last status a client was sent, or will read next, tells its place in the registry, on
\* either runtime and for any number of connections, unless the channel could not take it.
THEOREM StatusMatchesRoleHolds == Spec => []StatusMatchesRole
<1> DEFINE Inv == TypeOK /\ RegistryInv /\ HasActor /\ RoleInv
<1>1. Init => Inv
  <2> SUFFICES ASSUME Init PROVE RoleInv
    BY InitType, InitRegistry DEF Init, HasActor
  <2>1. \A c \in Conn : Listed(EndpointOf[c]) = {}
    BY DEF Init, NoEntry, Listed, Elements
  <2>2. StatusMatchesRole BY <2>1 DEF StatusMatchesRole
  <2>3. Quiet BY DEF Init, Quiet
  <2> QED BY <2>2, <2>3 DEF RoleInv
<1>2. Inv /\ [Next]_vars => Inv'
  <2> SUFFICES ASSUME Inv, [Next]_vars PROVE Inv' OBVIOUS
  <2>1. TypeOK' /\ RegistryInv' /\ HasActor' BY NextType, NextRegistry, NextHasActor
  <2>2. RoleInv'
    <3>1. ASSUME NEW c \in Conn,
                 \/ RegisterInsert(c) \/ ServeStep(c) \/ Unregister(c)
                 \/ \E peer \in Endpoint : NotifyPeer(c, peer)
          PROVE  RoleInv'
      BY <3>1, InsertRole, ServeRole, UnregisterRole, NotifyRole
    <3> QED BY <3>1, OtherRole, NextCases
  <2> QED BY <2>1, <2>2
<1>3. Inv => StatusMatchesRole BY DEF RoleInv
<1> QED BY <1>1, <1>2, <1>3, PTL DEF Spec

-----------------------------------------------------------------------------
(***************************************************************************)
(* The routes of a client.  Packets and messages are in two queues: a      *)
(* packet queued between the actor's look at the packets and its look at   *)
(* the messages is overtaken by the notice that its sender has gone.       *)
(***************************************************************************)
Delivery(c) ==
  /\ sending[c] # NoEndpoint => actor[c] = "record"
  /\ notify_peers[c] # {} => actor[c] = "notify"
  /\ actor[c] \in {"none", "exited"} => routes[c] = {} /\ packet_queue[c] = <<>>

\* The notification of e that client d, which believes e reachable, has yet to get.
OnList(d, e) == EndpointOf[d] \in sent_to[e]

OnTheWay(d, e) ==
  \E c \in Conn : /\ EndpointOf[c] = e
                  /\ sending[c] = EndpointOf[d] \/ EndpointOf[d] \in notify_peers[c]

InQueue(d, e) == EndpointGone(e) \in Elements(message_queue[d])

Promised(d, e) ==
  \/ OnList(d, e) \/ OnTheWay(d, e) \/ InQueue(d, e)
  \/ e \in goneMissed[d] \/ e \in overtaken[d]

Believed(d, e) ==
  /\ actor[d] \in {"select", "record", "messages"}
  /\ e \in routes[d] \cup Elements(packet_queue[d])

DeliveryInv ==
  /\ \A c \in Conn : Delivery(c)
  /\ \A d \in Conn, e \in Endpoint : Believed(d, e) => Promised(d, e)

\* Queues only grow at their end.
LEMMA ElementsAppend ==
  ASSUME NEW S, NEW q \in Seq(S), NEW m \in S
  PROVE  Elements(Append(q, m)) = Elements(q) \cup {m}
<1>1. /\ DOMAIN q = 1..Len(q) /\ Len(q) \in Nat /\ DOMAIN Append(q, m) = 1..(Len(q) + 1)
      /\ \A i \in 1..Len(q) : Append(q, m)[i] = q[i]
      /\ Append(q, m)[Len(q) + 1] = m
  BY PushOnto
<1> QED BY <1>1 DEF Elements

LEMMA ElementsTail ==
  ASSUME NEW S, NEW q \in Seq(S), q # <<>>
  PROVE  Elements(q) = Elements(Tail(q)) \cup {Head(q)}
<1> DEFINE r == Tail(q)
<1>1. /\ DOMAIN q = 1..Len(q) /\ Len(q) \in Nat /\ Len(q) >= 1
      /\ DOMAIN r = 1..(Len(q) - 1)
      /\ \A i \in 1..(Len(q) - 1) : r[i] = q[i + 1]
      /\ Head(q) = q[1]
  OBVIOUS
<1> HIDE DEF r
<1>2. \A x \in Elements(r) : x \in Elements(q)
  <2> SUFFICES ASSUME NEW i \in DOMAIN r PROVE r[i] \in Elements(q) BY DEF Elements
  <2>1. i + 1 \in DOMAIN q /\ r[i] = q[i + 1] BY <1>1
  <2> QED BY <2>1 DEF Elements
<1>3. \A x \in Elements(q) : x \in Elements(r) \/ x = q[1]
  <2> SUFFICES ASSUME NEW i \in DOMAIN q, i # 1 PROVE q[i] \in Elements(r) BY DEF Elements
  <2>1. i - 1 \in DOMAIN r /\ r[i - 1] = q[i] BY <1>1
  <2> QED BY <2>1 DEF Elements
<1>4. q[1] \in Elements(q) BY <1>1 DEF Elements
<1> QED BY <1>1, <1>2, <1>3, <1>4 DEF r

\* A promise stays one if nothing is taken away from where it is kept.
LEMMA PromisedFrame ==
  ASSUME NEW d \in Conn, NEW e \in Endpoint, Promised(d, e),
         OnList(d, e) => Promised(d, e)',
         \A c \in Conn : \/ sending'[c] = sending[c] /\ notify_peers[c] \subseteq notify_peers'[c]
                         \/ sending[c] = NoEndpoint /\ notify_peers[c] \subseteq notify_peers'[c],
         Elements(message_queue[d]) \subseteq Elements(message_queue'[d]),
         e \in goneMissed[d] => e \in goneMissed'[d],
         e \in overtaken[d] => e \in overtaken'[d]
  PROVE  Promised(d, e)'
<1>1. EndpointOf[d] # NoEndpoint OBVIOUS
<1>2. OnTheWay(d, e) => OnTheWay(d, e)' BY <1>1 DEF OnTheWay
<1>3. InQueue(d, e) => InQueue(d, e)' BY DEF InQueue
<1> QED BY <1>2, <1>3 DEF Promised

\* register() and unregister() add to the message queues and take nothing away.
LEMMA HealthKeepsQueues ==
  ASSUME TypeOK, NEW o \in Conn, NEW s \in Status, TrySendHealth(o, s)
  PROVE  \A d \in Conn : Elements(message_queue[d]) \subseteq Elements(message_queue'[d])
<1>1. StatusMsg(s) \in Message BY MessageType
<1>2. /\ \A d \in Conn \ {o} : message_queue'[d] = message_queue[d]
      /\ CanQueueMessage(o) => message_queue'[o] = Append(message_queue[o], StatusMsg(s))
      /\ ~CanQueueMessage(o) => message_queue'[o] = message_queue[o]
  BY <1>1, QueuedAt DEF TrySendHealth
<1>3. message_queue[o] \in Seq(Message) BY DEF TypeOK
<1>4. Elements(Append(message_queue[o], StatusMsg(s))) = Elements(message_queue[o]) \cup {StatusMsg(s)}
  BY <1>1, <1>3, ElementsAppend
<1> QED BY <1>2, <1>4

LEMMA InsertDelivery ==
  ASSUME TypeOK, DeliveryInv, NEW c \in Conn, RegisterInsert(c)
  PROVE  DeliveryInv'
<1>1. UNCHANGED <<sent_to, actor, packet_queue, sending, notify_peers, routes, goneMissed, overtaken>>
  BY DEF RegisterInsert
<1>2. \A d \in Conn : Elements(message_queue[d]) \subseteq Elements(message_queue'[d])
  <2>1. CASE UNCHANGED message_queue BY <2>1
  <2>2. CASE ~ UNCHANGED message_queue
    <3>1. PICK o \in Conn : TrySendHealth(o, SameEndpointIdConnected)
      BY <2>2 DEF RegisterInsert, TypeOK
    <3> QED BY <3>1, HealthKeepsQueues DEF Status
  <2> QED BY <2>1, <2>2
<1>3. \A d \in Conn : Delivery(d)' BY <1>1 DEF DeliveryInv, Delivery
<1>4. ASSUME NEW d \in Conn, NEW e \in Endpoint, Believed(d, e)' PROVE Promised(d, e)'
  <2>1. Believed(d, e) BY <1>1, <1>4 DEF Believed, Elements
  <2>2. Promised(d, e) BY <2>1 DEF DeliveryInv
  <2>3. OnList(d, e) => Promised(d, e)' BY <1>1 DEF OnList, Promised
  <2> QED BY <1>1, <1>2, <2>2, <2>3, PromisedFrame
<1> QED BY <1>3, <1>4 DEF DeliveryInv

LEMMA UnregisterDelivery ==
  ASSUME TypeOK, DeliveryInv, NEW c \in Conn, Unregister(c)
  PROVE  DeliveryInv'
<1> DEFINE o == EndpointOf[c]
<1>1. UNCHANGED <<packet_queue, sending, routes, goneMissed, overtaken>> /\ o \in Endpoint
  BY DEF Unregister
<1>2. /\ actor[c] = "exiting" /\ actor'[c] = "notify"
      /\ \A d \in Conn \ {c} : actor'[d] = actor[d]
  BY DEF Unregister, TypeOK
<1>3. notify_peers[c] = {} /\ sending[c] = NoEndpoint BY <1>2 DEF DeliveryInv, Delivery
<1>4. \A d \in Conn \ {c} : notify_peers'[d] = notify_peers[d]
  BY DEF Unregister, Promote, RemoveEntry, RetainOthers, NothingToRemove, TypeOK
<1>5. \A e \in Endpoint : \/ sent_to'[e] = sent_to[e]
                          \/ e = o /\ notify_peers'[c] = sent_to[e]
  BY <1>1 DEF Unregister, Promote, RemoveEntry, RetainOthers, NothingToRemove, TypeOK
<1>6. \A d \in Conn : Elements(message_queue[d]) \subseteq Elements(message_queue'[d])
  <2>1. CASE UNCHANGED message_queue BY <2>1
  <2>2. CASE ~ UNCHANGED message_queue
    <3>1. Promote(c, o)
      BY <2>2 DEF Unregister, RemoveEntry, RetainOthers, NothingToRemove
    <3>2. clients[o].inactive[Len(clients[o].inactive)] \in Conn
      BY <1>1, <3>1, FrontOf DEF Promote, TypeOK
    <3>3. PICK x \in Conn : TrySendHealth(x, Healthy) BY <3>1, <3>2 DEF Promote
    <3> QED BY <3>3, HealthKeepsQueues DEF Status
  <2> QED BY <2>1, <2>2
<1>7. \A d \in Conn : Delivery(d)' BY <1>1, <1>2, <1>3, <1>4 DEF DeliveryInv, Delivery
<1>8. ASSUME NEW d \in Conn, NEW e \in Endpoint, Believed(d, e)' PROVE Promised(d, e)'
  <2>1. Believed(d, e) BY <1>1, <1>2, <1>8 DEF Believed, Elements
  <2>2. Promised(d, e) BY <2>1 DEF DeliveryInv
  <2>3. OnList(d, e) => Promised(d, e)' BY <1>5 DEF OnList, OnTheWay, Promised
  <2> QED BY <1>1, <1>3, <1>4, <1>6, <2>2, <2>3, PromisedFrame
<1> QED BY <1>7, <1>8 DEF DeliveryInv

LEMMA NotifyDelivery ==
  ASSUME TypeOK, DeliveryInv, NEW c \in Conn, NEW peer \in Endpoint, NotifyPeer(c, peer)
  PROVE  DeliveryInv'
<1> USE DEF registryVars
<1> DEFINE o == EndpointOf[c]
<1>1. UNCHANGED <<sent_to, actor, packet_queue, sending, routes, overtaken>> /\ o \in Endpoint
  BY DEF NotifyPeer
<1>2. /\ notify_peers'[c] = notify_peers[c] \ {peer}
      /\ \A d \in Conn \ {c} : notify_peers'[d] = notify_peers[d]
  BY DEF NotifyPeer, TypeOK
<1>3. \A d \in Conn : goneMissed[d] \subseteq goneMissed'[d] BY DEF NotifyPeer
<1>4. \A d \in Conn : /\ Elements(message_queue[d]) \subseteq Elements(message_queue'[d])
                      /\ EndpointOf[d] = peer => InQueue(d, o)' \/ o \in goneMissed'[d]
  <2> DEFINE given == clients[peer].active # NoConn /\ CanQueueMessage(clients[peer].active)
  <2>1. CASE given
    <3>1. PICK x \in Conn : x = clients[peer].active /\ message_queue' = Queued(x, EndpointGone(o))
      BY <2>1 DEF NotifyPeer, TypeOK
    <3>2. EndpointGone(o) \in Message /\ message_queue[x] \in Seq(Message)
      BY <1>1, MessageType DEF TypeOK
    <3>3. /\ \A d \in Conn \ {x} : message_queue'[d] = message_queue[d]
          /\ message_queue'[x] = Append(message_queue[x], EndpointGone(o))
      BY <2>1, <3>1, <3>2, QueuedAt
    <3>4. Elements(message_queue'[x]) = Elements(message_queue[x]) \cup {EndpointGone(o)}
      BY <3>2, <3>3, ElementsAppend
    <3>5. \A d \in Conn : EndpointOf[d] = peer /\ d # x => o \in goneMissed'[d]
      BY <3>1 DEF NotifyPeer
    <3> QED BY <3>3, <3>4, <3>5 DEF InQueue
  <2>2. CASE ~given
    <3>1. UNCHANGED message_queue BY <2>2 DEF NotifyPeer
    <3>2. \A d \in Conn : EndpointOf[d] = peer => o \in goneMissed'[d] BY <2>2 DEF NotifyPeer
    <3> QED BY <3>1, <3>2
  <2> QED BY <2>1, <2>2
<1>5. \A d \in Conn : Delivery(d)' BY <1>1, <1>2 DEF DeliveryInv, Delivery
<1>6. ASSUME NEW d \in Conn, NEW e \in Endpoint, Believed(d, e)' PROVE Promised(d, e)'
  <2>1. Believed(d, e) BY <1>1, <1>6 DEF Believed, Elements
  <2>2. Promised(d, e) BY <2>1 DEF DeliveryInv
  <2>3. OnList(d, e) => Promised(d, e)' BY <1>1 DEF OnList, Promised
  <2>4. CASE EndpointOf[d] = peer /\ e = o BY <1>4, <2>4 DEF Promised
  <2>5. CASE ~ (EndpointOf[d] = peer /\ e = o)
    <3>1. OnTheWay(d, e) => OnTheWay(d, e)' BY <1>1, <1>2, <2>5 DEF OnTheWay
    <3>2. InQueue(d, e) => InQueue(d, e)' BY <1>4 DEF InQueue
    <3> QED BY <1>1, <1>3, <2>2, <2>3, <3>1, <3>2 DEF Promised
  <2> QED BY <2>4, <2>5
<1> QED BY <1>5, <1>6 DEF DeliveryInv

LEMMA SendDelivery ==
  ASSUME TypeOK, RegistryInv, HasActor, DeliveryInv, NEW c \in Conn, NEW dst \in Destination,
         SendPacketQueued(c, dst)
  PROVE  DeliveryInv'
<1> USE DEF registryVars
<1> DEFINE o == EndpointOf[c]
<1>1. UNCHANGED <<sent_to, message_queue, notify_peers, routes>> /\ o \in Endpoint /\ dst \in Endpoint
  BY DEF SendPacketQueued
<1>2. PICK x \in Conn : x = clients[dst].active /\ actor[x] # "exited"
  BY <1>1 DEF SendPacketQueued, Closed, TypeOK
<1>3. /\ actor[c] = "select" /\ actor'[c] = "record"
      /\ \A d \in Conn \ {c} : actor'[d] = actor[d]
      /\ sending'[c] = dst /\ \A d \in Conn \ {c} : sending'[d] = sending[d]
      /\ packet_queue'[x] = Append(packet_queue[x], o)
      /\ \A d \in Conn \ {x} : /\ packet_queue'[d] = packet_queue[d]
                               /\ goneMissed'[d] = goneMissed[d] /\ overtaken'[d] = overtaken[d]
      /\ goneMissed'[x] = goneMissed[x] \ {o} /\ overtaken'[x] = overtaken[x] \ {o}
  BY <1>2 DEF SendPacketQueued, TypeOK
<1>4. x \in Listed(dst) BY <1>2 DEF Listed
<1>5. EndpointOf[x] = dst /\ reg[x] = "inserted" BY <1>1, <1>4, ListedOwn DEF RegistryInv
<1>6. sending[c] = NoEndpoint BY <1>3 DEF DeliveryInv, Delivery
<1>7. Elements(packet_queue'[x]) = Elements(packet_queue[x]) \cup {o}
  <2>1. packet_queue[x] \in Seq(Endpoint) BY DEF TypeOK
  <2> QED BY <1>1, <1>3, <2>1, ElementsAppend
<1>8. ASSUME actor[x] # "none" PROVE \A d \in Conn : Delivery(d)'
  BY <1>1, <1>2, <1>3, <1>8 DEF DeliveryInv, Delivery
<1>9. ASSUME NEW d \in Conn, NEW e \in Endpoint, Believed(d, e)' PROVE Promised(d, e)'
  <2>1. CASE d = x /\ e = o
    BY <1>3, <1>5, <2>1 DEF Promised, OnTheWay
  <2>2. CASE ~ (d = x /\ e = o)
    <3>1. actor[d] \in {"select", "record", "messages"} BY <1>3, <1>9 DEF Believed
    <3>2. Believed(d, e) BY <1>1, <1>3, <1>7, <1>9, <2>2, <3>1 DEF Believed
    <3>3. Promised(d, e) BY <3>2 DEF DeliveryInv
    <3>4. OnList(d, e) => Promised(d, e)' BY <1>1 DEF OnList, Promised
    <3> QED BY <1>1, <1>3, <1>6, <2>2, <3>3, <3>4, PromisedFrame
  <2> QED BY <2>1, <2>2
<1> QED BY <1>5, <1>8, <1>9 DEF DeliveryInv, HasActor

LEMMA RecordDelivery ==
  ASSUME TypeOK, DeliveryInv, NEW c \in Conn, RecordSentTo(c)
  PROVE  DeliveryInv'
<1> USE DEF queueVars, historyVars
<1> DEFINE o == EndpointOf[c]
<1>1. /\ UNCHANGED <<message_queue, packet_queue, notify_peers, routes, goneMissed, overtaken>>
      /\ o \in Endpoint
  BY DEF RecordSentTo
<1>2. /\ actor[c] = "record" /\ actor'[c] = "select"
      /\ \A d \in Conn \ {c} : actor'[d] = actor[d] /\ sending'[d] = sending[d]
      /\ sending'[c] = NoEndpoint
      /\ sent_to'[o] = sent_to[o] \cup {sending[c]}
      /\ \A e \in Endpoint \ {o} : sent_to'[e] = sent_to[e]
  BY <1>1 DEF RecordSentTo, TypeOK
<1>3. \A d \in Conn : Delivery(d)' BY <1>1, <1>2 DEF DeliveryInv, Delivery
<1>4. ASSUME NEW d \in Conn, NEW e \in Endpoint, Believed(d, e)' PROVE Promised(d, e)'
  <2>1. Believed(d, e) BY <1>1, <1>2, <1>4 DEF Believed, Elements
  <2>2. Promised(d, e) BY <2>1 DEF DeliveryInv
  <2>3. OnList(d, e) => OnList(d, e)' BY <1>2 DEF OnList
  <2>4. OnTheWay(d, e) => OnTheWay(d, e)' \/ OnList(d, e)' BY <1>1, <1>2 DEF OnTheWay, OnList
  <2>5. InQueue(d, e) => InQueue(d, e)' BY <1>1 DEF InQueue, Elements
  <2> QED BY <1>1, <2>2, <2>3, <2>4, <2>5 DEF Promised
<1> QED BY <1>3, <1>4 DEF DeliveryInv

LEMMA WriteMessageDelivery ==
  ASSUME TypeOK, DeliveryInv, NEW c \in Conn, WriteMessage(c)
  PROVE  DeliveryInv'
<1> USE DEF registryVars
<1> DEFINE q == message_queue[c]
           m == Head(q)
<1>1. UNCHANGED <<sent_to, packet_queue, sending, notify_peers, goneMissed>> BY DEF WriteMessage
<1>2. /\ actor[c] = "messages" /\ actor'[c] = "select"
      /\ \A d \in Conn \ {c} : /\ actor'[d] = actor[d] /\ message_queue'[d] = message_queue[d]
                               /\ routes'[d] = routes[d]
      /\ message_queue'[c] = Tail(q) /\ q # <<>> /\ q \in Seq(Message)
      /\ routes'[c] = IF m[1] = "EndpointGone" THEN routes[c] \ {m[2]} ELSE routes[c]
  BY DEF WriteMessage, LearnGone, TypeOK
<1>3. Elements(q) = Elements(Tail(q)) \cup {m} BY <1>2, ElementsTail
<1>4. /\ \A d \in Conn : overtaken[d] \subseteq overtaken'[d]
      /\ \A e \in Elements(packet_queue[c]) : m[1] = "EndpointGone" /\ m[2] = e => e \in overtaken'[c]
  BY DEF WriteMessage, Overtakes, TypeOK
<1> HIDE DEF q, m
<1>5. \A d \in Conn : Delivery(d)' BY <1>1, <1>2 DEF DeliveryInv, Delivery
<1>6. ASSUME NEW d \in Conn, NEW e \in Endpoint, Believed(d, e)' PROVE Promised(d, e)'
  <2>1. Believed(d, e) BY <1>1, <1>2, <1>6 DEF Believed, Elements
  <2>2. Promised(d, e) BY <2>1 DEF DeliveryInv
  <2>3. OnList(d, e) => Promised(d, e)' BY <1>1 DEF OnList, Promised
  <2>4. CASE d # c
    BY <1>1, <1>2, <1>4, <2>2, <2>3, <2>4, PromisedFrame
  <2>5. CASE d = c /\ m = EndpointGone(e)
    <3>1. m[1] = "EndpointGone" /\ m[2] = e BY <2>5 DEF EndpointGone
    <3>2. e \notin routes'[c] BY <1>2, <3>1
    <3>3. e \in Elements(packet_queue[c]) BY <1>1, <1>6, <2>5, <3>2 DEF Believed, Elements
    <3> QED BY <1>4, <2>5, <3>1, <3>3 DEF Promised
  <2>6. CASE d = c /\ m # EndpointGone(e)
    <3>1. InQueue(c, e) => InQueue(c, e)' BY <1>2, <1>3, <2>6 DEF InQueue, q
    <3>2. OnTheWay(d, e) => OnTheWay(d, e)' BY <1>1 DEF OnTheWay
    <3> QED BY <1>1, <1>4, <2>2, <2>3, <2>6, <3>1, <3>2 DEF Promised
  <2> QED BY <2>4, <2>5, <2>6
<1> QED BY <1>5, <1>6 DEF DeliveryInv

LEMMA OtherDelivery ==
  ASSUME TypeOK, DeliveryInv,
         \/ \E c \in Conn : \/ ClientNew(c) \/ ActorEnd(c) \/ StreamFails(c) \/ WritePacket(c)
                            \/ PollMessages(c) \/ NoMessages(c) \/ Cancelled(c)
                            \/ \E dst \in Destination : SendPacketClosed(c, dst)
         \/ \E e \in Endpoint : Disconnect(e) \/ ShutdownCollect(e) \/ ShutdownRemove(e)
         \/ ShutdownBegin \/ ShutdownCancel \/ ShutdownReturn \/ UNCHANGED vars
  PROVE  DeliveryInv'
<1> USE DEF registryVars, queueVars, historyVars
\* Nothing is promised less; who believes more is somebody else's doing.
<1>0. ASSUME UNCHANGED <<sent_to, sending, notify_peers>>,
             NEW c \in Conn,
             \A d \in Conn \ {c} : /\ actor'[d] = actor[d] /\ packet_queue'[d] = packet_queue[d]
                                   /\ message_queue'[d] = message_queue[d]
                                   /\ routes'[d] = routes[d] /\ goneMissed'[d] = goneMissed[d]
                                   /\ overtaken'[d] = overtaken[d],
             Delivery(c)',
             \A e \in Endpoint : Believed(c, e)' => /\ Believed(c, e)
                                                   /\ message_queue'[c] = message_queue[c]
                                                   /\ goneMissed'[c] = goneMissed[c]
                                                   /\ overtaken'[c] = overtaken[c]
      PROVE  DeliveryInv'
  <2>1. \A d \in Conn : Delivery(d)' BY <1>0 DEF DeliveryInv, Delivery
  <2>2. ASSUME NEW d \in Conn, NEW e \in Endpoint, Believed(d, e)' PROVE Promised(d, e)'
    <3>1. /\ Believed(d, e) /\ message_queue'[d] = message_queue[d]
          /\ goneMissed'[d] = goneMissed[d] /\ overtaken'[d] = overtaken[d]
      BY <1>0, <2>2 DEF Believed
    <3>2. Promised(d, e) BY <3>1 DEF DeliveryInv
    <3>3. OnList(d, e) => Promised(d, e)' BY <1>0 DEF OnList, Promised
    <3> QED BY <1>0, <3>1, <3>2, <3>3, PromisedFrame
  <2> QED BY <2>1, <2>2 DEF DeliveryInv
<1>1. ASSUME NEW c \in Conn, ClientNew(c) PROVE DeliveryInv'
  <2>1. UNCHANGED <<sent_to, sending, notify_peers, packet_queue, message_queue, routes, goneMissed,
                    overtaken>>
    BY <1>1 DEF ClientNew
  <2>2. /\ actor[c] \in {"none", "exited"} /\ actor'[c] = "select"
        /\ \A d \in Conn \ {c} : actor'[d] = actor[d]
    BY <1>1 DEF ClientNew, Fresh, TypeOK
  <2>3. /\ routes[c] = {} /\ packet_queue[c] = <<>> /\ sending[c] = NoEndpoint
        /\ notify_peers[c] = {}
    BY <2>2 DEF DeliveryInv, Delivery
  <2>4. Delivery(c)' BY <2>1, <2>2, <2>3 DEF Delivery
  <2>5. \A e \in Endpoint : ~ Believed(c, e)' BY <2>1, <2>3 DEF Believed, Elements
  <2> QED BY <1>0, <2>1, <2>2, <2>4, <2>5
<1>2. ASSUME NEW c \in Conn, ActorEnd(c) PROVE DeliveryInv'
  <2>1. UNCHANGED <<sent_to, sending, notify_peers>> BY <1>2 DEF ActorEnd
  <2>2. /\ actor[c] = "notify" /\ actor'[c] = "exited" /\ notify_peers[c] = {}
        /\ routes'[c] = {} /\ packet_queue'[c] = <<>>
        /\ \A d \in Conn \ {c} : /\ actor'[d] = actor[d] /\ packet_queue'[d] = packet_queue[d]
                                 /\ message_queue'[d] = message_queue[d]
                                 /\ routes'[d] = routes[d] /\ goneMissed'[d] = goneMissed[d]
                                 /\ overtaken'[d] = overtaken[d]
    BY <1>2 DEF ActorEnd, TypeOK
  <2>3. sending[c] = NoEndpoint BY <2>2 DEF DeliveryInv, Delivery
  <2>4. Delivery(c)' BY <2>1, <2>2, <2>3 DEF Delivery
  <2>5. \A e \in Endpoint : ~ Believed(c, e)' BY <2>2 DEF Believed
  <2> QED BY <1>0, <2>1, <2>2, <2>4, <2>5
<1>3. ASSUME NEW c \in Conn, WritePacket(c) PROVE DeliveryInv'
  <2>1. UNCHANGED <<sent_to, sending, notify_peers, actor, message_queue, goneMissed, overtaken>>
    BY <1>3 DEF WritePacket
  <2>2. /\ actor[c] = "select" /\ packet_queue[c] \in Seq(Endpoint) /\ packet_queue[c] # <<>>
        /\ packet_queue'[c] = Tail(packet_queue[c])
        /\ routes'[c] = routes[c] \cup {Head(packet_queue[c])}
        /\ \A d \in Conn \ {c} : packet_queue'[d] = packet_queue[d] /\ routes'[d] = routes[d]
    BY <1>3 DEF WritePacket, TypeOK
  <2>3. Elements(packet_queue[c]) = Elements(Tail(packet_queue[c])) \cup {Head(packet_queue[c])}
    BY <2>2, ElementsTail
  <2>4. Delivery(c)' BY <2>1, <2>2 DEF DeliveryInv, Delivery
  <2>5. \A e \in Endpoint : Believed(c, e)' => Believed(c, e) BY <2>1, <2>2, <2>3 DEF Believed
  <2> QED BY <1>0, <2>1, <2>2, <2>4, <2>5
<1>4. ASSUME NEW c \in Conn, \/ StreamFails(c) \/ PollMessages(c) \/ NoMessages(c) \/ Cancelled(c)
      PROVE  DeliveryInv'
  <2>1. UNCHANGED <<sent_to, sending, notify_peers, packet_queue, message_queue, routes, goneMissed,
                    overtaken>>
    BY <1>4 DEF StreamFails, PollMessages, NoMessages, Cancelled
  <2>2. /\ actor[c] \in {"select", "messages"} /\ actor'[c] \in {"select", "messages", "exiting"}
        /\ \A d \in Conn \ {c} : actor'[d] = actor[d]
    BY <1>4 DEF StreamFails, PollMessages, NoMessages, Cancelled, TypeOK
  <2>3. sending[c] = NoEndpoint /\ notify_peers[c] = {} BY <2>2 DEF DeliveryInv, Delivery
  <2>4. Delivery(c)' BY <2>1, <2>2, <2>3 DEF Delivery
  <2>5. \A e \in Endpoint : Believed(c, e)' => Believed(c, e)
    BY <2>1, <2>2 DEF Believed
  <2> QED BY <1>0, <2>1, <2>2, <2>4, <2>5
<1>5. ASSUME \/ \E c \in Conn, dst \in Destination : SendPacketClosed(c, dst)
             \/ \E e \in Endpoint : Disconnect(e) \/ ShutdownCollect(e) \/ ShutdownRemove(e)
             \/ ShutdownBegin \/ ShutdownCancel \/ ShutdownReturn \/ UNCHANGED vars
      PROVE  DeliveryInv'
  <2>1. UNCHANGED <<actor, sent_to, sending, notify_peers, packet_queue, message_queue, routes,
                    goneMissed, overtaken>>
    BY <1>5 DEF SendPacketClosed, Disconnect, ShutdownCollect, ShutdownRemove, ShutdownBegin,
                ShutdownCancel, ShutdownReturn, vars
  <2> QED BY <2>1 DEF DeliveryInv, Delivery, Believed, Promised, OnList, OnTheWay, InQueue, Elements
<1> QED BY <1>1, <1>2, <1>3, <1>4, <1>5

\* A client that believes an endpoint reachable will hear of its end, wherever the packets, the
\* sent_to list and the notification are at the moment, unless the notice overtook packets.
THEOREM ToldOrOvertakenHolds == Spec => []ToldOrOvertaken
<1> DEFINE Inv == TypeOK /\ RegistryInv /\ HasActor /\ DeliveryInv
<1>1. Init => Inv
  <2> SUFFICES ASSUME Init PROVE DeliveryInv
    BY InitType, InitRegistry DEF Init, HasActor
  <2>1. \A c \in Conn : Delivery(c) BY DEF Init, Delivery
  <2>2. \A d \in Conn, e \in Endpoint : ~ Believed(d, e) BY DEF Init, Believed
  <2> QED BY <2>1, <2>2 DEF DeliveryInv
<1>2. Inv /\ [Next]_vars => Inv'
  <2> SUFFICES ASSUME Inv, [Next]_vars PROVE Inv' OBVIOUS
  <2>1. TypeOK' /\ RegistryInv' /\ HasActor' BY NextType, NextRegistry, NextHasActor
  <2>2. DeliveryInv'
    <3>1. ASSUME NEW c \in Conn,
                 \/ RegisterInsert(c) \/ Unregister(c)
                 \/ \E peer \in Endpoint : NotifyPeer(c, peer)
          PROVE  DeliveryInv'
      BY <3>1, InsertDelivery, UnregisterDelivery, NotifyDelivery
    <3>2. ASSUME NEW c \in Conn, ServeStep(c) PROVE DeliveryInv'
      BY <3>2, SendDelivery, RecordDelivery, WriteMessageDelivery, OtherDelivery DEF ServeStep
    <3> QED BY <3>1, <3>2, OtherDelivery, NextCases
  <2> QED BY <2>1, <2>2
<1>3. Inv => ToldOrOvertaken
  <2> SUFFICES ASSUME Inv, NEW d \in Conn, NEW e \in Reachable(d)
               PROVE  WillBeTold(d, e) \/ e \in overtaken[d]
    BY DEF ToldOrOvertaken
  <2>1. Believed(d, e) BY DEF Reachable, Believed
  <2>2. e \in Endpoint
    <3>1. routes[d] \subseteq Endpoint /\ packet_queue[d] \in Seq(Endpoint) BY DEF TypeOK
    <3>2. Elements(packet_queue[d]) \subseteq Endpoint BY <3>1 DEF Elements
    <3> QED BY <2>1, <3>1, <3>2 DEF Believed
  <2>3. Promised(d, e) BY <2>1, <2>2 DEF DeliveryInv
  <2> QED BY <2>3 DEF Promised, OnList, OnTheWay, InQueue, WillBeTold
<1> QED BY <1>1, <1>2, <1>3, PTL DEF Spec

-----------------------------------------------------------------------------
(***************************************************************************)
(* The metric of inactive clients.  The counter of removed clients moves   *)
(* also when the connection that unregisters is not in the registry yet,   *)
(* once for every such connection.  That connection can then never leave   *)
(* the registry: it stays late, and the metric stays one too low.          *)
(***************************************************************************)
\* The places on the stacks of inactive connections.
Places == UNION {{e} \X DOMAIN clients[e].inactive : e \in Endpoint}

LateConns == {c \in Conn : late[c]}

LateStays ==
  \A c \in Conn : late[c] =>
    /\ actor[c] \in {"notify", "exited"}
    /\ shutdown.stage = "up" => reg[c] = "spawned" \/ c \in Listed(EndpointOf[c])

\* The difference m of the counters lies between these bounds.
Between(places, lates, m) ==
  /\ IsFiniteSet(places) /\ IsFiniteSet(lates)
  /\ Cardinality(places) - Cardinality(lates) <= m
  /\ m <= Cardinality(places)

MetricInv == shutdown.stage = "up" => Between(Places, LateConns, inactive_metric)

\* Who is late stays so until shutdown().
LEMMA NextLateStays ==
  ASSUME TypeOK, RegistryInv, LateStays, [Next]_vars
  PROVE  LateStays'
<1> USE DEF registryVars, queueVars, historyVars
<1>0. UNCHANGED <<clients, late, reg, actor, shutdown>> => LateStays' BY DEF LateStays, Listed
<1>1. ASSUME NEW c \in Conn, ClientNew(c) PROVE LateStays'
  <2>1. UNCHANGED <<clients, shutdown>> BY <1>1 DEF ClientNew
  <2>2. ~late'[c] /\ \A d \in Conn \ {c} : /\ late'[d] = late[d] /\ reg'[d] = reg[d]
                                         /\ actor'[d] = actor[d]
    BY <1>1 DEF ClientNew, TypeOK
  <2> QED BY <2>1, <2>2 DEF LateStays, Listed
<1>2. ASSUME NEW c \in Conn, RegisterInsert(c) PROVE LateStays'
  <2>1. UNCHANGED <<late, actor, shutdown>> BY <1>2 DEF RegisterInsert
  <2>2. \A d \in Conn \ {c} : reg'[d] = reg[d] BY <1>2 DEF RegisterInsert, TypeOK
  <2>3. c \in Listed(EndpointOf[c])' /\ \A e \in Endpoint : Listed(e) \subseteq Listed(e)'
    BY <1>2, InsertListed
  <2> QED BY <2>1, <2>2, <2>3 DEF LateStays
<1>3. ASSUME NEW c \in Conn, ServeStep(c) PROVE LateStays'
  <2>1. UNCHANGED <<clients, late, reg, shutdown>> BY <1>3, ServeFrame
  <2>2. /\ \A d \in Conn \ {c} : actor'[d] = actor[d]
        /\ actor[c] \in RunningStates
    BY <1>3, ServeFrame
  <2>3. ~late[c] BY <2>2 DEF LateStays, RunningStates
  <2>4. \A e : Listed(e)' = Listed(e) BY <2>1 DEF Listed
  <2> QED BY <2>1, <2>2, <2>3, <2>4 DEF LateStays
<1>4. ASSUME NEW c \in Conn, Unregister(c) PROVE LateStays'
  <2>1. UNCHANGED <<reg, shutdown>> BY <1>4 DEF Unregister
  <2>2. /\ actor'[c] = "notify"
        /\ late'[c] => reg[c] = "spawned"
        /\ \A d \in Conn \ {c} : late'[d] = late[d] /\ actor'[d] = actor[d]
    BY <1>4 DEF Unregister, TypeOK
  <2>3. \A f \in Endpoint : f # EndpointOf[c] => clients'[f] = clients[f]
    BY <1>4, UnregisterListed
  <2>4. Listed(EndpointOf[c])' = Listed(EndpointOf[c]) \ {c} BY <1>4, UnregisterListed
  <2>5. \A d \in Conn \ {c} : d \in Listed(EndpointOf[d]) => d \in Listed(EndpointOf[d])'
    BY <2>3, <2>4 DEF Listed
  <2> QED BY <2>1, <2>2, <2>5 DEF LateStays
<1>5. ASSUME NEW c \in Conn, ActorEnd(c) PROVE LateStays'
  <2>1. UNCHANGED <<clients, late, reg, shutdown>> BY <1>5 DEF ActorEnd
  <2>2. actor'[c] = "exited" /\ \A d \in Conn \ {c} : actor'[d] = actor[d]
    BY <1>5 DEF ActorEnd, TypeOK
  <2>3. \A e : Listed(e)' = Listed(e) BY <2>1 DEF Listed
  <2> QED BY <2>1, <2>2, <2>3 DEF LateStays
<1>6. ASSUME \/ \E c \in Conn, peer \in Endpoint : NotifyPeer(c, peer)
             \/ \E e \in Endpoint : Disconnect(e)
             \/ UNCHANGED vars
      PROVE  LateStays'
  BY <1>0, <1>6 DEF NotifyPeer, Disconnect, vars
<1>7. ASSUME \/ \E e \in Endpoint : ShutdownCollect(e) \/ ShutdownRemove(e)
             \/ ShutdownBegin \/ ShutdownCancel \/ ShutdownReturn
      PROVE  LateStays'
  <2>1. shutdown'.stage # "up" /\ UNCHANGED <<late, actor>>
    BY <1>7 DEF ShutdownCollect, ShutdownRemove, ShutdownBegin, ShutdownCancel, ShutdownReturn,
                TypeOK
  <2> QED BY <2>1 DEF LateStays
<1> QED BY <1>1, <1>2, <1>3, <1>4, <1>5, <1>6, <1>7, NextCases

\* A stack that grows or shrinks by one adds or removes one place.
LEMMA PlacesChange ==
  ASSUME NEW e \in Endpoint, \A f \in Endpoint \ {e} : clients'[f] = clients[f],
         NEW n \in Nat
  PROVE  /\ DOMAIN clients[e].inactive = 1..n /\ DOMAIN clients'[e].inactive = 1..(n + 1)
              => Places' = Places \cup {<<e, n + 1>>} /\ <<e, n + 1>> \notin Places
         /\ DOMAIN clients[e].inactive = 1..(n + 1) /\ DOMAIN clients'[e].inactive = 1..n
              => Places' = Places \ {<<e, n + 1>>} /\ <<e, n + 1>> \in Places
<1>1. 1..(n + 1) = 1..n \cup {n + 1} /\ n + 1 \notin 1..n OBVIOUS
<1> DEFINE D(f) == DOMAIN clients[f].inactive
           E(f) == DOMAIN clients'[f].inactive
<1>2. \A f \in Endpoint \ {e} : E(f) = D(f) OBVIOUS
<1>3. Places = UNION {{f} \X D(f) : f \in Endpoint} /\ Places' = UNION {{f} \X E(f) : f \in Endpoint}
  BY DEF Places
<1> HIDE DEF D, E
<1>4. \A p : /\ p \in Places <=> \E f \in Endpoint : \E i \in D(f) : p = <<f, i>>
             /\ p \in Places' <=> \E f \in Endpoint : \E i \in E(f) : p = <<f, i>>
  BY <1>3
<1> HIDE DEF Places
<1>5. ASSUME D(e) = 1..n, E(e) = 1..n \cup {n + 1}
      PROVE  Places' = Places \cup {<<e, n + 1>>} /\ <<e, n + 1>> \notin Places
  BY <1>1, <1>2, <1>4, <1>5
<1>6. ASSUME D(e) = 1..n \cup {n + 1}, E(e) = 1..n
      PROVE  Places' = Places \ {<<e, n + 1>>} /\ <<e, n + 1>> \in Places
  BY <1>1, <1>2, <1>4, <1>6
<1> QED BY <1>1, <1>5, <1>6 DEF D, E

\* clients_inactive_removed counts the removal of a place.
LEMMA MetricRemoved ==
  ASSUME TypeOK, Between(Places, LateConns, inactive_metric), InactiveRemoved, NEW p \in Places,
         Places' = Places \ {p}, LateConns' = LateConns
  PROVE  Between(Places, LateConns, inactive_metric)'
<1>1. /\ IsFiniteSet(Places) /\ IsFiniteSet(LateConns)
      /\ Cardinality(Places) - Cardinality(LateConns) <= inactive_metric
      /\ inactive_metric <= Cardinality(Places)
  BY DEF Between
<1>2. /\ Cardinality(Places) \in Nat /\ Cardinality(Places) # 0
      /\ Cardinality(LateConns) \in Nat
  BY <1>1, FS_CardinalityType, FS_EmptySet
<1>3. IsFiniteSet(Places') /\ Cardinality(Places') = Cardinality(Places) - 1
  BY <1>1, FS_RemoveElement
<1>4. /\ inactive_metric \in Int /\ MaxLag \in Nat
      /\ inactive_metric = -MaxLag => inactive_metric' = inactive_metric
      /\ inactive_metric # -MaxLag => inactive_metric' = inactive_metric - 1
  BY SizeAssumption DEF InactiveRemoved, TypeOK
<1>5. /\ Cardinality(Places') - Cardinality(LateConns) <= inactive_metric'
      /\ inactive_metric' <= Cardinality(Places')
  BY <1>1, <1>2, <1>3, <1>4
<1> QED BY <1>1, <1>3, <1>5 DEF Between

\* It also counts a connection that is not there, which is then late.
LEMMA MetricMissed ==
  ASSUME TypeOK, Between(Places, LateConns, inactive_metric), InactiveRemoved \/ UNCHANGED inactive_metric,
         NEW c \in Conn, c \notin LateConns, Places' = Places, LateConns' = LateConns \cup {c}
  PROVE  Between(Places, LateConns, inactive_metric)'
<1>1. /\ IsFiniteSet(Places) /\ IsFiniteSet(LateConns)
      /\ Cardinality(Places) - Cardinality(LateConns) <= inactive_metric
      /\ inactive_metric <= Cardinality(Places)
  BY DEF Between
<1>2. Cardinality(Places) \in Nat /\ Cardinality(LateConns) \in Nat
  BY <1>1, FS_CardinalityType
<1>3. IsFiniteSet(LateConns') /\ Cardinality(LateConns') = Cardinality(LateConns) + 1
  BY <1>1, FS_AddElement
<1>4. inactive_metric \in Int /\ inactive_metric' \in {inactive_metric, inactive_metric - 1}
  BY DEF InactiveRemoved, TypeOK
<1>5. /\ Cardinality(Places) - Cardinality(LateConns') <= inactive_metric'
      /\ inactive_metric' <= Cardinality(Places)
  BY <1>1, <1>2, <1>3, <1>4
<1> QED BY <1>1, <1>3, <1>5 DEF Between

LEMMA InsertMetric ==
  ASSUME TypeOK, RegistryInv, MetricInv, NEW c \in Conn, RegisterInsert(c)
  PROVE  MetricInv'
<1> DEFINE e == EndpointOf[c]
           s == clients[e].inactive
<1>1. /\ e \in Endpoint /\ s \in Seq(Conn) /\ clients[e].active \in Conn \cup {NoConn}
      /\ shutdown' = shutdown
  BY DEF TypeOK, RegisterInsert
<1>2. \A f \in Endpoint \ {e} : clients'[f] = clients[f] BY <1>1 DEF RegisterInsert, TypeOK
<1>3. LateConns' = LateConns BY DEF RegisterInsert, LateConns
<1>4. CASE clients[e] = NoEntry
  <2>1. /\ clients' = [clients EXCEPT ![e] = [active |-> c, inactive |-> <<>>]]
        /\ UNCHANGED inactive_metric
    BY <1>4 DEF RegisterInsert, NoEntry
  <2>2. \A f \in Endpoint : clients'[f].inactive = clients[f].inactive
    BY <1>1, <1>2, <1>4, <2>1 DEF NoEntry, TypeOK
  <2>3. Places' = Places BY <2>2 DEF Places
  <2> QED BY <1>1, <1>3, <2>1, <2>3 DEF MetricInv, Between
<1>5. CASE clients[e].active # NoConn
  <2>1. /\ clients' = [clients EXCEPT ![e] =
              [active |-> c, inactive |-> Append(@.inactive, clients[e].active)]]
        /\ inactive_metric' = inactive_metric + 1
    BY <1>5 DEF RegisterInsert, NoEntry
  <2>2. clients'[e].inactive = Append(s, clients[e].active) /\ clients[e].active \in Conn
    BY <1>1, <1>5, <2>1 DEF TypeOK
  <2>3. /\ Len(s) \in Nat /\ DOMAIN s = 1..Len(s)
        /\ DOMAIN clients'[e].inactive = 1..(Len(s) + 1)
    BY <1>1, <2>2, PushOnto
  <2>4. Places' = Places \cup {<<e, Len(s) + 1>>} /\ <<e, Len(s) + 1>> \notin Places
    <3>1. \A n \in Nat : n = Len(s) => Places' = Places \cup {<<e, n + 1>>} /\ <<e, n + 1>> \notin Places
      BY <1>1, <1>2, <2>3, PlacesChange
    <3> QED BY <2>3, <3>1
  <2>5. ASSUME Between(Places, LateConns, inactive_metric)
        PROVE  Between(Places, LateConns, inactive_metric)'
    <3>1. /\ IsFiniteSet(Places) /\ IsFiniteSet(LateConns)
          /\ Cardinality(Places) - Cardinality(LateConns) <= inactive_metric
          /\ inactive_metric <= Cardinality(Places)
      BY <2>5 DEF Between
    <3>2. Cardinality(Places) \in Nat /\ Cardinality(LateConns) \in Nat /\ inactive_metric \in Int
      BY <3>1, FS_CardinalityType DEF TypeOK
    <3>3. IsFiniteSet(Places') /\ Cardinality(Places') = Cardinality(Places) + 1
      BY <2>4, <3>1, FS_AddElement
    <3>4. /\ Cardinality(Places') - Cardinality(LateConns) <= inactive_metric'
          /\ inactive_metric' <= Cardinality(Places')
      BY <2>1, <3>1, <3>2, <3>3
    <3> QED BY <1>3, <3>1, <3>3, <3>4 DEF Between
  <2> QED BY <1>1, <2>5 DEF MetricInv
<1> QED BY <1>4, <1>5 DEF RegisterInsert

LEMMA UnregisterMetric ==
  ASSUME TypeOK, RegistryInv, ShutdownInv, HasReg, LateStays, MetricInv, NEW c \in Conn,
         Unregister(c), shutdown.stage = "up"
  PROVE  Between(Places, LateConns, inactive_metric)'
<1> DEFINE e == EndpointOf[c]
           s == clients[e].inactive
<1>1. /\ e \in Endpoint /\ s \in Seq(Conn) /\ shutdown.awaited = {} /\ actor[c] = "exiting"
      /\ Between(Places, LateConns, inactive_metric)
  BY DEF TypeOK, Unregister, ShutdownInv, MetricInv
<1>2. \A f \in Endpoint \ {e} : clients'[f] = clients[f] BY UnregisterListed
<1>3. ~late[c] BY <1>1 DEF LateStays
<1>4. /\ reg[c] = "inserted" => LateConns' = LateConns
      /\ reg[c] = "spawned" => LateConns' = LateConns \cup {c}
  <2>1. late' = [late EXCEPT ![c] = (reg[c] = "spawned")] BY DEF Unregister
  <2>2. late'[c] = (reg[c] = "spawned") /\ \A d \in Conn \ {c} : late'[d] = late[d]
    BY <2>1 DEF TypeOK
  <2> QED BY <1>3, <2>2 DEF LateConns
<1>5. Len(s) \in Nat /\ DOMAIN s = 1..Len(s) BY <1>1
<1>6. ASSUME s # <<>>, DOMAIN clients'[e].inactive = 1..(Len(s) - 1), InactiveRemoved,
             LateConns' = LateConns
      PROVE  Between(Places, LateConns, inactive_metric)'
  <2>0. Len(s) - 1 \in Nat BY <1>1, <1>6
  <2>1. PICK n \in Nat : n = Len(s) - 1 BY <2>0
  <2>2. DOMAIN clients[e].inactive = 1..(n + 1) /\ DOMAIN clients'[e].inactive = 1..n
    BY <1>5, <1>6, <2>1
  <2>3. Places' = Places \ {<<e, n + 1>>} /\ <<e, n + 1>> \in Places
    BY <1>1, <1>2, <2>1, <2>2, PlacesChange
  <2> QED BY <1>1, <1>6, <2>3, MetricRemoved
<1>7. CASE reg[c] = "inserted"
  <2>1. c \in Listed(e) /\ clients[e].active # NoConn
    BY <1>1, <1>7, RunningHasEntry DEF RunningStates
  <2>2. CASE Promote(c, e)
    <3>1. s # <<>> /\ InactiveRemoved BY <2>2 DEF Promote
    <3>2. clients'[e].inactive = SubSeq(s, 1, Len(s) - 1) BY <1>1, <2>2 DEF Promote, TypeOK
    <3>3. DOMAIN clients'[e].inactive = 1..(Len(s) - 1) BY <1>1, <3>1, <3>2, FrontOf
    <3> QED BY <1>4, <1>6, <1>7, <3>1, <3>3
  <2>3. CASE RemoveEntry(c, e)
    <3>1. s = <<>> /\ clients'[e] = NoEntry /\ UNCHANGED inactive_metric
      BY <1>1, <2>3 DEF RemoveEntry, TypeOK
    <3>2. \A f \in Endpoint : clients'[f].inactive = clients[f].inactive
      BY <1>2, <3>1 DEF NoEntry
    <3>3. Places' = Places BY <3>2 DEF Places
    <3> QED BY <1>1, <1>4, <1>7, <3>1, <3>3 DEF Between
  <2>4. CASE RetainOthers(c, e)
    <3>1. c \in Elements(s) BY <2>1, <2>4 DEF RetainOthers, Listed
    <3>2. clients'[e].inactive = Retain(s, c) /\ InactiveRemoved
      BY <1>1, <2>4 DEF RetainOthers, TypeOK
    <3>3. DOMAIN Retain(s, c) = 1..(Len(s) - 1) BY <3>1 DEF Retain
    <3>4. s # <<>> BY <3>1 DEF Elements
    <3> QED BY <1>4, <1>6, <1>7, <3>2, <3>3, <3>4
  <2>5. ~ NothingToRemove(e) BY <2>1 DEF NothingToRemove
  <2> QED BY <2>2, <2>3, <2>4, <2>5 DEF Unregister
<1>8. CASE reg[c] = "spawned"
  <2>1. c \notin Listed(e) BY <1>1, <1>8, ListedOwn DEF RegistryInv
  <2>2. clients[e].active # c /\ c \notin Elements(s) BY <2>1 DEF Listed
  <2>3. RetainOthers(c, e) \/ NothingToRemove(e) BY <2>2 DEF Unregister, Promote, RemoveEntry
  <2>4. InactiveRemoved \/ UNCHANGED inactive_metric
    BY <2>3 DEF RetainOthers, NothingToRemove
  <2>5. clients'[e].inactive = s
    <3>1. CASE RetainOthers(c, e)
      BY <1>1, <2>2, <3>1 DEF RetainOthers, Retain, TypeOK
    <3>2. CASE NothingToRemove(e) BY <3>2 DEF NothingToRemove
    <3> QED BY <2>3, <3>1, <3>2
  <2>6. \A f \in Endpoint : clients'[f].inactive = clients[f].inactive BY <1>2, <2>5
  <2>7. Places' = Places BY <2>6 DEF Places
  <2>8. c \notin LateConns BY <1>3 DEF LateConns
  <2> QED BY <1>1, <1>4, <1>8, <2>4, <2>7, <2>8, MetricMissed
<1> QED BY <1>1, <1>7, <1>8 DEF HasReg, TypeOK

LEMMA NextMetric ==
  ASSUME TypeOK, RegistryInv, ShutdownInv, HasReg, LateStays, MetricInv, [Next]_vars
  PROVE  MetricInv'
<1> USE DEF registryVars, queueVars, historyVars
<1>0. UNCHANGED <<clients, inactive_metric, shutdown>> /\ LateConns' = LateConns => MetricInv'
  BY DEF MetricInv, Places, Between
<1>1. ASSUME NEW c \in Conn, ClientNew(c) PROVE MetricInv'
  <2>1. CASE shutdown.stage = "up"
    <3>1. ~late[c] BY <1>1, <2>1 DEF ClientNew, Fresh, LateStays
    <3>2. ~late'[c] /\ \A d \in Conn \ {c} : late'[d] = late[d] BY <1>1 DEF ClientNew, TypeOK
    <3>3. LateConns' = LateConns BY <3>1, <3>2 DEF LateConns
    <3> QED BY <1>0, <1>1, <3>3 DEF ClientNew
  <2>2. CASE shutdown.stage # "up" BY <1>1, <2>2 DEF ClientNew, MetricInv
  <2> QED BY <2>1, <2>2
<1>2. ASSUME NEW c \in Conn, RegisterInsert(c) PROVE MetricInv' BY <1>2, InsertMetric
<1>3. ASSUME NEW c \in Conn, ServeStep(c) PROVE MetricInv'
  <2>1. UNCHANGED <<clients, inactive_metric, shutdown, late>> BY <1>3, ServeFrame
  <2> QED BY <1>0, <2>1 DEF LateConns
<1>4. ASSUME NEW c \in Conn, Unregister(c) PROVE MetricInv'
  BY <1>4, UnregisterMetric DEF MetricInv, Unregister
<1>5. ASSUME \/ \E c \in Conn : ActorEnd(c) \/ \E peer \in Endpoint : NotifyPeer(c, peer)
             \/ \E e \in Endpoint : Disconnect(e)
             \/ UNCHANGED vars
      PROVE  MetricInv'
  <2>1. UNCHANGED <<clients, inactive_metric, shutdown, late>>
    BY <1>5 DEF ActorEnd, NotifyPeer, Disconnect, vars
  <2> QED BY <1>0, <2>1 DEF LateConns
<1>6. ASSUME \/ \E e \in Endpoint : ShutdownCollect(e) \/ ShutdownRemove(e)
             \/ ShutdownBegin \/ ShutdownCancel \/ ShutdownReturn
      PROVE  MetricInv'
  <2>1. shutdown'.stage # "up"
    BY <1>6 DEF ShutdownCollect, ShutdownRemove, ShutdownBegin, ShutdownCancel, ShutdownReturn,
                TypeOK
  <2> QED BY <2>1 DEF MetricInv
<1> QED BY <1>1, <1>2, <1>3, <1>4, <1>5, <1>6, NextCases

\* Until shutdown(), and on either runtime, the difference of the two counters is never above
\* the number of inactive connections, and below it by no more than the number of connections
\* that unregistered before they were inserted.
THEOREM MetricOffByLateHolds == Spec => []MetricOffByLate
<1> DEFINE Inv == HasReg /\ LateStays /\ MetricInv
<1>1. Init => Inv
  <2> SUFFICES ASSUME Init PROVE LateStays /\ MetricInv BY DEF Init, HasReg
  <2>1. \A e \in Endpoint : clients[e].inactive = <<>> BY DEF Init, NoEntry
  <2>2. Places = {} BY <2>1 DEF Places
  <2>3. LateConns = {} /\ LateStays BY DEF Init, LateConns, LateStays
  <2>4. IsFiniteSet({}) /\ Cardinality({}) = 0 BY FS_EmptySet
  <2> QED BY <2>2, <2>3, <2>4 DEF Init, MetricInv, Between
<1>2. TypeOK /\ RegistryInv /\ ShutdownInv /\ Inv /\ [Next]_vars => Inv'
  BY NextHasReg, NextLateStays, NextMetric
<1>3. TypeOK /\ Inv => MetricOffByLate
  <2> SUFFICES ASSUME TypeOK, Inv, shutdown.stage = "up"
               PROVE  inactive_metric \in (InactiveCount - Cardinality(LateConns))..InactiveCount
    BY DEF MetricOffByLate, LateConns
  <2>1. /\ IsFiniteSet(Places) /\ IsFiniteSet(LateConns)
        /\ Cardinality(Places) - Cardinality(LateConns) <= inactive_metric
        /\ inactive_metric <= Cardinality(Places)
    BY DEF MetricInv, Between
  <2>2. Cardinality(Places) \in Nat /\ Cardinality(LateConns) \in Nat /\ inactive_metric \in Int
    BY <2>1, FS_CardinalityType DEF TypeOK
  <2>3. InactiveCount = Cardinality(Places) BY DEF InactiveCount, Places
  <2> QED BY <2>1, <2>2, <2>3
<1> QED BY <1>1, <1>2, <1>3, ShutdownInvariant, PTL DEF Spec
=============================================================================
