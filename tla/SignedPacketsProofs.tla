------------------------ MODULE SignedPacketsProofs -------------------------
(***************************************************************************)
(* Theorems about the packet store, for any keys, packets, requests,       *)
(* capacities, eviction time and number of restarts.                       *)
(***************************************************************************)
EXTENDS SignedPackets, SequenceTheorems, TLAPS

USE StoreAssumption

-----------------------------------------------------------------------------
(***************************************************************************)
(* Messages and tables.                                                    *)
(***************************************************************************)
\* What each kind of message carries.
LEMMA MessageFields ==
  ASSUME NEW m \in Message
  PROVE  /\ m.kind \in {"Upsert", "Get", "Snapshot", "CheckExpired"}
         /\ m.kind = "Upsert" => m \in Request /\ m.packet \in Packet /\ m.from \in Client \cup {None}
         /\ m.kind = "Get" => m \in Request /\ m.key \in Key /\ m.from \in Client \cup {None}
         /\ m.kind = "CheckExpired" => m.time \in Time /\ m.key \in Key
  BY DEF Message, Request, Snapshot

\* The messages that are sent have their type.
LEMMA MessageTypes ==
  /\ Snapshot \in Message
  /\ Request \subseteq Message
  /\ \A t \in Time, k \in Key : CheckExpired(t, k) \in Message
  /\ \A c \in Client, p \in Packet : Upsert(c, p) \in Request
  /\ \A c \in Client, k \in Key : Get(c, k) \in Request
  BY DEF Message, Request, Snapshot, CheckExpired, Upsert, Get

\* The states of a request that are not messages.
LEMMA IdleWaiting ==
  Idle \notin Request /\ Waiting \notin Request /\ Idle # Waiting
  BY DEF Idle, Waiting, Request

\* A packet's fields.
LEMMA PacketFields ==
  ASSUME NEW p \in Packet
  PROVE  p.key \in Key /\ p.time \in Time /\ p.time \in Nat /\ p.body \in Nat /\ p # None
  BY DEF Time

\* Storing a packet under its key, and removing a row, keep the table a table.
LEMMA TableUpdates ==
  ASSUME NEW f \in PacketTable
  PROVE  /\ \A p \in Packet : [f EXCEPT ![p.key] = p] \in PacketTable
         /\ \A k \in Key : [f EXCEPT ![k] = None] \in PacketTable
         /\ \A k \in Key : f[k] # None => f[k] \in Packet /\ f[k].key = k
  BY PacketFields DEF PacketTable

\* The expiry time is a number that grows with the clock.
LEMMA ExpiryTimeType ==
  ASSUME now \in Time
  PROVE  ExpiryTime \in Nat /\ (ExpiryTime > 0 => ExpiryTime = now - Eviction)
  BY DEF ExpiryTime, Time

-----------------------------------------------------------------------------
(***************************************************************************)
(* Type correctness.                                                       *)
(***************************************************************************)
\* Init: everything is empty.
LEMMA InitType == Init => TypeOK
<1> SUFFICES ASSUME Init PROVE TypeOK
  OBVIOUS
<1>1. packets \in PacketTable /\ index \in SUBSET (Time \X Key)
  BY DEF Init, PacketTable
<1>2. committed \in [packets : PacketTable, index : SUBSET (Time \X Key)]
  BY <1>1 DEF Init
<1>3. now \in Time /\ inbox \in Seq(Message) /\ Len(inbox) <= InboxCapacity
  BY DEF Init, Time
<1>4. client \in [Client -> Request \cup {Idle, Waiting}] /\ handled \in 0..MaxBatch /\ restarts \in 0..MaxRestarts
  BY DEF Init
<1>5. committed = [packets |-> packets, index |-> index] /\ todo \in SUBSET (Time \X Key)
  BY DEF Init
<1>6. /\ actor = "idle" /\ evict = "ask" /\ owner = "open" /\ cancelled = FALSE
  BY DEF Init
<1> QED BY <1>1, <1>2, <1>3, <1>4, <1>5, <1>6 DEF TypeOK

\* The head of the inbox is a message, and the rest of it stays within the capacity.
LEMMA InboxHead ==
  ASSUME TypeOK, inbox # <<>>
  PROVE  Head(inbox) \in Message /\ Tail(inbox) \in Seq(Message) /\ Len(Tail(inbox)) <= InboxCapacity
<1>1. Len(Tail(inbox)) = Len(inbox) - 1 /\ Head(inbox) \in Message /\ Tail(inbox) \in Seq(Message)
  BY HeadTailProperties DEF TypeOK
<1> QED BY <1>1 DEF TypeOK

\* A send appends within the capacity.
LEMMA InboxAppend ==
  ASSUME TypeOK, CanSend, NEW m \in Message
  PROVE  Append(inbox, m) \in Seq(Message) /\ Len(Append(inbox, m)) <= InboxCapacity
<1>1. Append(inbox, m) \in Seq(Message) /\ Len(Append(inbox, m)) = Len(inbox) + 1
  BY AppendProperties DEF TypeOK
<1> QED BY <1>1 DEF TypeOK, CanSend

\* handle_message keeps the types of what it may change.
LEMMA HandleType ==
  ASSUME TypeOK, HandleMessage
  PROVE  TypeOK'
<1>1. /\ Head(inbox) \in Message /\ inbox' \in Seq(Message) /\ Len(inbox') <= InboxCapacity
      /\ handled' \in 0..MaxBatch /\ actor = "batch" /\ actor' = "batch"
      /\ UNCHANGED <<committed, now, cancelled, owner, restarts>>
  BY InboxHead DEF HandleMessage, TypeOK, process
<1> DEFINE m == Head(inbox)
<1>2. /\ packets' \in PacketTable /\ index' \in SUBSET (Time \X Key)
      /\ client' \in [Client -> Request \cup {Idle, Waiting}]
      /\ evict' \in {"ask", "wait", "range", "scan", "sleep", "ended"}
      /\ todo' \in SUBSET (Time \X Key)
  <2>1. Reply => (m.kind \in {"Upsert", "Get"} => client' \in [Client -> Request \cup {Idle, Waiting}])
    BY <1>1, MessageFields DEF TypeOK, Reply
  <2>2. CASE HandleGet
    BY <2>1, <2>2 DEF HandleGet, TypeOK, tables, eviction
  <2>3. CASE HandleUpsert
    <3>1. m.packet \in Packet /\ m.kind = "Upsert"
      BY <2>3, <1>1, MessageFields DEF HandleUpsert
    <3>2. ASSUME Store(m.packet)
          PROVE  packets' \in PacketTable /\ index' \in SUBSET (Time \X Key)
      <4>1. packets' = [packets EXCEPT ![m.packet.key] = m.packet] /\ packets \in PacketTable
        BY <3>2 DEF Store, TypeOK
      <4>2. packets' \in PacketTable
        BY <4>1, <3>1, TableUpdates
      <4>3. <<m.packet.time, m.packet.key>> \in Time \X Key
        BY <3>1, PacketFields
      <4>4. index' \in SUBSET (Time \X Key)
        BY <3>2, <4>3 DEF Store, TypeOK
      <4> QED BY <4>2, <4>4
    <3>3. packets' \in PacketTable /\ index' \in SUBSET (Time \X Key)
      BY <2>3, <3>1, <3>2 DEF HandleUpsert, TypeOK, tables
    <3> QED BY <2>3, <3>1, <3>3, <2>1 DEF HandleUpsert, TypeOK, eviction
  <2>4. CASE HandleCheckExpired
    <3>1. m.key \in Key
      BY <2>4, <1>1, MessageFields DEF HandleCheckExpired
    <3> QED BY <2>4, <3>1, TableUpdates DEF HandleCheckExpired, TypeOK, eviction
  <2>5. CASE TakeSnapshot
    BY <2>5 DEF TakeSnapshot, TypeOK, tables, eviction
  <2> QED BY <2>2, <2>3, <2>4, <2>5 DEF HandleMessage
<1> QED BY <1>1, <1>2 DEF TypeOK

\* The actor's steps keep the types.
LEMMA ActorType ==
  ASSUME TypeOK, ActorNext
  PROVE  TypeOK'
<1>1. CASE ActorSnapshot
  BY <1>1, InboxHead DEF ActorSnapshot, TakeSnapshot, TypeOK, tables, eviction, process
<1>2. CASE BeginBatch
  BY <1>2 DEF BeginBatch, TypeOK, tables, eviction, process
<1>3. CASE HandleMessage
  BY <1>3, HandleType
<1>4. CASE EndBatch
  BY <1>4 DEF EndBatch, Commit, TypeOK, tables, eviction, process
<1>5. CASE ActorCancelled
  BY <1>5 DEF ActorCancelled, Commit, TypeOK, tables, eviction, process
<1>6. CASE ActorDrained
  BY <1>6 DEF ActorDrained, TypeOK, tables, eviction, process
<1>7. CASE ActorFails
  BY <1>7 DEF ActorFails, TypeOK, tables, eviction
<1> QED BY <1>1, <1>2, <1>3, <1>4, <1>5, <1>6, <1>7 DEF ActorNext

\* The eviction thread's steps keep the types.
LEMMA EvictType ==
  ASSUME TypeOK, EvictNext
  PROVE  TypeOK'
<1>1. CASE EvictAsk
  BY <1>1, InboxAppend, MessageTypes DEF EvictAsk, TypeOK, tables, process
<1>2. ASSUME NEW unread \in SUBSET todo, EvictRange(unread) PROVE TypeOK'
  BY <1>2 DEF EvictRange, TypeOK, tables, process
<1>3. CASE EvictSend
  <2>1. PICK e \in todo : inbox' = Append(inbox, CheckExpired(e[1], e[2])) /\ todo' = todo \ {e}
    BY <1>3 DEF EvictSend
  <2>2. CheckExpired(e[1], e[2]) \in Message
    BY MessageTypes DEF TypeOK
  <2>3. inbox' \in Seq(Message) /\ Len(inbox') <= InboxCapacity
    BY <2>1, <2>2, <1>3, InboxAppend DEF EvictSend
  <2> QED BY <1>3, <2>1, <2>3 DEF EvictSend, TypeOK, tables, process
<1>4. CASE EvictScanned \/ EvictAgain \/ EvictCancelled
  BY <1>4 DEF EvictScanned, EvictAgain, EvictCancelled, TypeOK, tables, process
<1>5. CASE EvictFails
  BY <1>5 DEF EvictFails, TypeOK, tables
<1> QED BY <1>1, <1>2, <1>3, <1>4, <1>5 DEF EvictNext

\* A request's steps keep the types.
LEMMA ClientType ==
  ASSUME TypeOK, NEW c \in Client, ClientNext(c)
  PROVE  TypeOK'
<1>1. ASSUME NEW m \in Request, Begin(c, m) PROVE TypeOK'
  BY <1>1 DEF Begin, TypeOK, tables, eviction, process
<1>2. CASE Send(c)
  <2>1. client[c] \in Message
    BY <1>2, MessageTypes DEF Send, TypeOK
  <2>2. inbox' \in Seq(Message) /\ Len(inbox') <= InboxCapacity
    BY <1>2, <2>1, InboxAppend DEF Send
  <2> QED BY <1>2, <2>2 DEF Send, TypeOK, tables, eviction, process
<1>3. CASE RequestFails(c)
  BY <1>3 DEF RequestFails, TypeOK, tables, eviction, process
<1>4. CASE Hangup(c)
  <2> DEFINE g(i) == IF inbox[i].kind \in {"Upsert", "Get"} /\ inbox[i].from = c
                       THEN [inbox[i] EXCEPT !.from = None] ELSE inbox[i]
  <2>1. ASSUME NEW i \in 1..Len(inbox) PROVE g(i) \in Message
    <3>1. inbox[i] \in Message
      BY DEF TypeOK
    <3>2. CASE inbox[i].kind \in {"Upsert", "Get"}
      BY <3>1, <3>2, MessageFields DEF Request, Message
    <3> QED BY <3>1, <3>2
  <2>2. inbox' = [i \in 1..Len(inbox) |-> g(i)] /\ Len(inbox) \in Nat
    BY <1>4 DEF Hangup, TypeOK
  <2> HIDE DEF g
  <2>3. inbox' \in Seq(Message) /\ Len(inbox') = Len(inbox)
    BY <2>1, <2>2
  <2> QED BY <1>4, <2>3 DEF Hangup, TypeOK, tables, eviction, process
<1> QED BY <1>1, <1>2, <1>3, <1>4, MessageTypes DEF ClientNext

\* The channel is gone with the actor, and the actor before the store.
Ends ==
  /\ actor = "ended" => inbox = <<>>
  /\ owner \in {"joinEvict", "down"} => actor = "ended"

\* What happens to the process keeps the types.
LEMMA ProcessType ==
  ASSUME TypeOK, Ends, Tick \/ Drop \/ Join \/ Crash \/ Open
  PROVE  TypeOK'
<1>1. CASE Tick
  BY <1>1 DEF Tick, TypeOK, Time, tables, eviction, process
<1>2. CASE Drop
  BY <1>2 DEF Drop, TypeOK, tables, eviction
<1>3. CASE Join
  BY <1>3 DEF Join, TypeOK, tables, eviction
<1>4. CASE Crash
  <2>1. committed = [packets |-> committed.packets, index |-> committed.index]
    BY DEF TypeOK
  <2>2. /\ packets' \in PacketTable /\ index' \in SUBSET (Time \X Key)
        /\ committed' = [packets |-> packets', index |-> index']
    BY <1>4, <2>1 DEF Crash, TypeOK
  <2>3. client' \in [Client -> Request \cup {Idle, Waiting}] /\ inbox' = <<>> /\ handled' \in 0..MaxBatch
    BY <1>4 DEF Crash
  <2>4. inbox' \in Seq(Message) /\ Len(inbox') <= InboxCapacity
    BY <2>3
  <2> QED BY <1>4, <2>2, <2>3, <2>4 DEF Crash, TypeOK
<1>5. CASE Open
  <2>1. now' \in Time
    BY <1>5 DEF Open, TypeOK, Time
  <2>2. committed = [packets |-> packets, index |-> index]
    BY <1>5 DEF Open, TypeOK, Ends
  <2>3. restarts' \in 0..MaxRestarts
    BY <1>5 DEF Open, TypeOK
  <2>4. UNCHANGED <<packets, index, committed, inbox, handled, todo, client>>
    BY <1>5 DEF Open, tables
  <2>5. actor' = "idle" /\ evict' = "ask" /\ owner' = "open" /\ cancelled' = FALSE
    BY <1>5 DEF Open
  <2> QED BY <2>1, <2>2, <2>3, <2>4, <2>5 DEF TypeOK
<1> QED BY <1>1, <1>2, <1>3, <1>4, <1>5

\* The actor ends with its channel, and before the store is gone.
LEMMA EndsStep ==
  ASSUME TypeOK, Ends, [Next]_vars
  PROVE  Ends'
<1>1. CASE ActorNext
  <2>1. CASE ActorSnapshot \/ HandleMessage
    BY <2>1 DEF ActorSnapshot, HandleMessage, Ends, process
  <2>2. CASE BeginBatch \/ EndBatch \/ ActorCancelled \/ ActorDrained
    BY <2>2 DEF BeginBatch, EndBatch, ActorCancelled, ActorDrained, Ends, process
  <2>3. CASE ActorFails
    BY <2>3 DEF ActorFails, Ends
  <2> QED BY <1>1, <2>1, <2>2, <2>3 DEF ActorNext
<1>2. CASE EvictNext
  BY <1>2 DEF EvictNext, EvictAsk, EvictRange, EvictSend, EvictScanned, EvictAgain, EvictFails,
              EvictCancelled, CanSend, Ends, process
<1>3. ASSUME NEW c \in Client, ClientNext(c) PROVE Ends'
  <2>1. CASE Hangup(c)
    BY <2>1 DEF Hangup, Ends, process, TypeOK
  <2>2. CASE ~Hangup(c)
    BY <1>3, <2>2 DEF ClientNext, Begin, Send, RequestFails, CanSend, Ends, process
  <2> QED BY <2>1, <2>2
<1>4. CASE Tick \/ Drop \/ Join \/ Crash \/ Open
  BY <1>4 DEF Tick, Drop, Join, Crash, Open, Ends, process, TypeOK
<1>5. CASE UNCHANGED vars
  BY <1>5 DEF vars, Ends
<1> QED BY <1>1, <1>2, <1>3, <1>4, <1>5 DEF Next

\* Types and ends hold together.
LEMMA TypeStep ==
  ASSUME TypeOK, Ends, [Next]_vars
  PROVE  TypeOK'
<1>1. CASE UNCHANGED vars
  BY <1>1 DEF TypeOK, vars
<1> QED BY <1>1, ActorType, EvictType, ClientType, ProcessType DEF Next

(***************************************************************************)
(* Every variable keeps its type: rows are stored under their own key, the *)
(* channel and the batch keep their limits, and outside of a batch the     *)
(* file holds what the actor sees (Actor::run0).                           *)
(***************************************************************************)
THEOREM StoreTypes == Spec => []TypeOK
<1>1. Init => TypeOK /\ Ends
  BY InitType DEF Init, Ends
<1>2. TypeOK /\ Ends /\ [Next]_vars => (TypeOK /\ Ends)'
  BY TypeStep, EndsStep
<1> QED BY <1>1, <1>2, PTL DEF Spec

-----------------------------------------------------------------------------
(***************************************************************************)
(* The index covers the packets.  A CheckExpired removes its entry without *)
(* looking at it, so it must never name the entry of a packet that stays:  *)
(* what the eviction thread found was expired then, and the clock only     *)
(* goes on while its message lives.                                        *)
(***************************************************************************)
Late ==
  /\ \A i \in 1..Len(inbox) : inbox[i].kind = "CheckExpired" => inbox[i].time < ExpiryTime
  /\ evict = "scan" => \A e \in todo : e[1] < ExpiryTime

\* The expiry time does not go back within a process.
LEMMA ExpiryGrows ==
  ASSUME TypeOK, TypeOK', now' >= now
  PROVE  ExpiryTime' >= ExpiryTime /\ ExpiryTime \in Nat /\ ExpiryTime' \in Nat
<1>1. now \in Nat /\ now' \in Nat /\ Eviction \in Nat
  BY DEF TypeOK, Time
<1>2. ASSUME NEW a \in Nat, NEW b \in Nat, NEW n \in Nat, b >= a
      PROVE  /\ (IF b > n THEN b - n ELSE 0) >= (IF a > n THEN a - n ELSE 0)
             /\ (IF b > n THEN b - n ELSE 0) \in Nat
  BY ONLY <1>2
<1>3. ExpiryTime' = IF now' > Eviction THEN now' - Eviction ELSE 0
  BY DEF ExpiryTime
<1>4. ExpiryTime' >= ExpiryTime
  BY <1>1, <1>2, <1>3 DEF ExpiryTime
<1>5. ExpiryTime \in Nat
  BY ExpiryTimeType DEF TypeOK
<1>6. ExpiryTime' \in Nat
  BY <1>1, <1>2, <1>3
<1> QED BY <1>4, <1>5, <1>6

\* Messages appended to the inbox that are late keep the inbox late.
LEMMA LateAppend ==
  ASSUME TypeOK, Late, NEW m \in Message, m.kind = "CheckExpired" => m.time < ExpiryTime,
         inbox' = Append(inbox, m), ExpiryTime' = ExpiryTime
  PROVE  \A i \in 1..Len(inbox') : inbox'[i].kind = "CheckExpired" => inbox'[i].time < ExpiryTime'
<1>1. /\ Len(inbox') = Len(inbox) + 1 /\ Len(inbox) \in Nat
      /\ \A i \in 1..Len(inbox) : inbox'[i] = inbox[i]
      /\ inbox'[Len(inbox) + 1] = m
  BY AppendProperties DEF TypeOK
<1> SUFFICES ASSUME NEW i \in 1..Len(inbox'), inbox'[i].kind = "CheckExpired"
             PROVE  inbox'[i].time < ExpiryTime'
  OBVIOUS
<1>2. CASE i \in 1..Len(inbox)
  BY <1>1, <1>2 DEF Late
<1>3. CASE i = Len(inbox) + 1
  BY <1>1, <1>3
<1> QED BY <1>1, <1>2, <1>3

\* So does taking the head.
LEMMA LateTail ==
  ASSUME TypeOK, Late, inbox # <<>>, inbox' = Tail(inbox), ExpiryTime' = ExpiryTime
  PROVE  /\ \A i \in 1..Len(inbox') : inbox'[i].kind = "CheckExpired" => inbox'[i].time < ExpiryTime'
         /\ Head(inbox).kind = "CheckExpired" => Head(inbox).time < ExpiryTime
<1>1. /\ Len(inbox') = Len(inbox) - 1 /\ Len(inbox) \in Nat /\ Len(inbox) >= 1
      /\ \A i \in 1..Len(inbox') : inbox'[i] = inbox[i + 1]
      /\ Head(inbox) = inbox[1]
  BY HeadTailProperties DEF TypeOK
<1>2. ASSUME NEW i \in 1..Len(inbox') PROVE i + 1 \in 1..Len(inbox)
  BY <1>1
<1> QED BY <1>1, <1>2 DEF Late

\* Every step keeps what is on its way late.
LEMMA LateStep ==
  ASSUME TypeOK, TypeOK', Ends, Late, [Next]_vars
  PROVE  Late'
<1>1. CASE ActorSnapshot \/ HandleMessage
  <2>1. inbox # <<>> /\ inbox' = Tail(inbox) /\ now' = now
    BY <1>1 DEF ActorSnapshot, HandleMessage
  <2>2. evict' = "scan" => evict = "scan" /\ todo' = todo
    BY <1>1 DEF ActorSnapshot, HandleMessage, HandleGet, HandleUpsert, HandleCheckExpired, TakeSnapshot,
                eviction
  <2>3. ExpiryTime' = ExpiryTime
    BY <2>1 DEF ExpiryTime
  <2> QED BY <2>1, <2>2, <2>3, LateTail DEF Late
<1>2. CASE BeginBatch \/ EndBatch \/ ActorCancelled \/ ActorDrained \/ ActorFails
  BY <1>2 DEF BeginBatch, EndBatch, ActorCancelled, ActorDrained, ActorFails, Late, eviction, ExpiryTime
<1>3. CASE EvictAsk
  <2>1. ExpiryTime' = ExpiryTime /\ evict' = "wait" /\ Snapshot.kind # "CheckExpired"
    BY <1>3 DEF EvictAsk, ExpiryTime, Snapshot
  <2> QED BY <1>3, <2>1, MessageTypes, LateAppend DEF EvictAsk, Late
<1>4. ASSUME NEW unread \in SUBSET todo, EvictRange(unread) PROVE Late'
  BY <1>4 DEF EvictRange, Late, ExpiryTime
<1>5. CASE EvictSend
  <2>1. PICK e \in todo : inbox' = Append(inbox, CheckExpired(e[1], e[2])) /\ todo' = todo \ {e}
    BY <1>5 DEF EvictSend
  <2>2. CheckExpired(e[1], e[2]) \in Message
    BY MessageTypes DEF TypeOK
  <2>3. ExpiryTime' = ExpiryTime /\ evict = "scan" /\ CheckExpired(e[1], e[2]).time < ExpiryTime
    BY <1>5 DEF EvictSend, ExpiryTime, CheckExpired, Late
  <2> QED BY <1>5, <2>1, <2>2, <2>3, LateAppend DEF EvictSend, Late
<1>6. CASE EvictScanned \/ EvictAgain \/ EvictFails \/ EvictCancelled
  BY <1>6 DEF EvictScanned, EvictAgain, EvictFails, EvictCancelled, Late, ExpiryTime
<1>7. ASSUME NEW c \in Client, ClientNext(c) PROVE Late'
  <2>1. ExpiryTime' = ExpiryTime /\ evict' = evict /\ todo' = todo
    BY <1>7 DEF ClientNext, Begin, Send, RequestFails, Hangup, ExpiryTime, eviction
  <2>2. CASE inbox' = inbox
    BY <2>1, <2>2 DEF Late
  <2>3. CASE Send(c)
    <3>1. client[c] \in Request /\ client[c] \in Message /\ client[c].kind # "CheckExpired"
      BY <2>3, MessageTypes DEF Send, TypeOK, Request
    <3> QED BY <2>1, <2>3, <3>1, LateAppend DEF Send, Late
  <2>4. CASE Hangup(c)
    <3>1. Len(inbox') = Len(inbox)
      BY <2>4 DEF Hangup, TypeOK
    <3>2. ASSUME NEW i \in 1..Len(inbox), inbox'[i].kind = "CheckExpired"
          PROVE  inbox'[i] = inbox[i]
      <4>1. inbox[i] \in Message
        BY DEF TypeOK
      <4>2. inbox'[i] = IF inbox[i].kind \in {"Upsert", "Get"} /\ inbox[i].from = c
                          THEN [inbox[i] EXCEPT !.from = None] ELSE inbox[i]
        BY <2>4 DEF Hangup, TypeOK
      <4>3. CASE inbox[i].kind \in {"Upsert", "Get"}
        BY <3>2, <4>1, <4>2, <4>3, MessageFields DEF Request
      <4> QED BY <4>2, <4>3
    <3> QED BY <2>1, <3>1, <3>2 DEF Late
  <2> QED BY <1>7, <2>2, <2>3, <2>4 DEF ClientNext, Begin, RequestFails
<1>8. CASE Tick
  <2>1. now' >= now /\ UNCHANGED <<inbox, evict, todo>>
    BY <1>8 DEF Tick, eviction, TypeOK, Time
  <2>2. ExpiryTime' >= ExpiryTime /\ ExpiryTime \in Nat /\ ExpiryTime' \in Nat
    BY <2>1, ExpiryGrows
  <2>3. \A i \in 1..Len(inbox) : inbox[i] \in Message
    BY DEF TypeOK
  <2>4. \A i \in 1..Len(inbox) : inbox[i].kind = "CheckExpired" => inbox[i].time \in Nat
    BY <2>3, MessageFields DEF Time
  <2>5. \A e \in todo : e[1] \in Nat
    BY DEF TypeOK, Time
  <2> QED BY <2>1, <2>2, <2>4, <2>5 DEF Late
<1>9. CASE Drop \/ Join
  BY <1>9 DEF Drop, Join, Late, ExpiryTime, eviction
<1>10. CASE Crash \/ Open
  BY <1>10 DEF Crash, Open, Late, Ends
<1>11. CASE UNCHANGED vars
  BY <1>11 DEF vars, Late, ExpiryTime
<1> QED BY <1>1, <1>2, <1>3, <1>4, <1>5, <1>6, <1>7, <1>8, <1>9, <1>10, <1>11
        DEF Next, ActorNext, EvictNext

\* A message that is handled leaves the index covering the packets.
LEMMA HandleCovers ==
  ASSUME TypeOK, Late, IndexCovers, HandleMessage
  PROVE  Covers(packets', index')
<1>1. Head(inbox) \in Message /\ (Head(inbox).kind = "CheckExpired" => Head(inbox).time < ExpiryTime)
  <2>1. inbox # <<>> /\ Head(inbox) = inbox[1] /\ 1 \in 1..Len(inbox)
    BY DEF HandleMessage, TypeOK
  <2> QED BY <2>1, InboxHead DEF Late
<1>2. CASE UNCHANGED tables
  BY <1>2 DEF IndexCovers, tables
<1>3. CASE HandleUpsert /\ ~UNCHANGED tables
  <2> DEFINE p == Head(inbox).packet
  <2>1. p \in Packet /\ Store(p)
    BY <1>1, <1>3, MessageFields DEF HandleUpsert
  <2>2. packets' = [packets EXCEPT ![p.key] = p] /\ p.key \in Key /\ packets \in [Key -> Packet \cup {None}]
    BY <2>1, PacketFields DEF Store, TypeOK, PacketTable
  <2> SUFFICES ASSUME NEW k \in Key, packets'[k] # None
               PROVE  <<packets'[k].time, k>> \in index'
    BY DEF Covers
  <2>3. CASE k = p.key
    BY <2>1, <2>2, <2>3 DEF Store
  <2>4. CASE k # p.key
    BY <2>1, <2>2, <2>4 DEF Store, IndexCovers, Covers
  <2> QED BY <2>3, <2>4
<1>4. CASE HandleCheckExpired
  <2> DEFINE m == Head(inbox)
  <2>1. m.key \in Key /\ m.time < ExpiryTime /\ m.time \in Nat
    BY <1>1, <1>4, MessageFields DEF HandleCheckExpired, Time
  <2>2. packets \in [Key -> Packet \cup {None}] /\ index' = index \ {<<m.time, m.key>>}
    BY <1>4 DEF HandleCheckExpired, TypeOK, PacketTable
  <2> SUFFICES ASSUME NEW k \in Key, packets'[k] # None
               PROVE  <<packets'[k].time, k>> \in index'
    BY DEF Covers
  <2>3. packets'[k] = packets[k] /\ (k = m.key => ~(packets[k].time < ExpiryTime))
    BY <1>4, <2>1, <2>2 DEF HandleCheckExpired
  <2>4. <<packets[k].time, k>> \in index
    BY <2>3 DEF IndexCovers, Covers
  <2>5. <<packets[k].time, k>> # <<m.time, m.key>>
    BY <2>1, <2>3
  <2> QED BY <2>2, <2>3, <2>4, <2>5
<1> QED BY <1>2, <1>3, <1>4 DEF HandleMessage, HandleGet, TakeSnapshot

(***************************************************************************)
(* In the transaction and in the file, every stored packet has its index   *)
(* entry: no packet escapes the eviction, however upserts, snapshots and   *)
(* the CheckExpired messages of an earlier scan interleave, and wherever a *)
(* crash cuts them off (handle_message, evict_task_inner).                 *)
(***************************************************************************)
THEOREM IndexCoversHolds == Spec => []IndexCovers
<1> DEFINE Inv == TypeOK /\ Ends /\ Late /\ IndexCovers
<1>1. Init => Inv
  <2> SUFFICES ASSUME Init PROVE Inv
    OBVIOUS
  <2>1. \A k \in Key : packets[k] = None /\ committed.packets[k] = None
    BY DEF Init
  <2>2. Ends /\ Late
    BY DEF Init, Ends, Late
  <2> QED BY <2>1, <2>2, InitType DEF IndexCovers, Covers
<1>2. ASSUME Inv, [Next]_vars PROVE Inv'
  <2>1. TypeOK' /\ Ends' /\ Late'
    BY <1>2, TypeStep, EndsStep, LateStep
  <2>2. IndexCovers'
    <3>1. HandleMessage => IndexCovers'
      BY <1>2, HandleCovers DEF HandleMessage, IndexCovers, Covers
    <3>2. UNCHANGED <<packets, index, committed>> => IndexCovers'
      BY <1>2 DEF IndexCovers, Covers
    <3>3. Commit /\ UNCHANGED <<packets, index>> => IndexCovers'
      BY <1>2 DEF IndexCovers, Covers, Commit
    <3>4. packets' = committed.packets /\ index' = committed.index /\ committed' = committed => IndexCovers'
      BY <1>2 DEF IndexCovers, Covers
    <3>5. CASE ActorNext
      BY <3>1, <3>2, <3>3, <3>4, <3>5
         DEF ActorNext, ActorSnapshot, TakeSnapshot, BeginBatch, EndBatch, ActorCancelled, ActorDrained,
             ActorFails, tables
    <3>6. CASE EvictNext
      BY <3>2, <3>6 DEF EvictNext, EvictAsk, EvictRange, EvictSend, EvictScanned, EvictAgain, EvictFails,
                        EvictCancelled, tables
    <3>7. ASSUME NEW c \in Client, ClientNext(c) PROVE IndexCovers'
      BY <3>2, <3>7 DEF ClientNext, Begin, Send, RequestFails, Hangup, tables
    <3>8. CASE Tick \/ Drop \/ Join \/ Open
      BY <3>2, <3>8 DEF Tick, Drop, Join, Open, tables
    <3>9. CASE Crash
      BY <3>4, <3>9 DEF Crash
    <3>10. CASE UNCHANGED vars
      BY <3>2, <3>10 DEF vars
    <3> QED BY <1>2, <3>5, <3>6, <3>7, <3>8, <3>9, <3>10 DEF Next
  <2> QED BY <2>1, <2>2
<1>3. Inv => IndexCovers
  OBVIOUS
<1> QED BY <1>1, <1>2, <1>3, PTL DEF Spec

-----------------------------------------------------------------------------
(***************************************************************************)
(* The refinement.                                                         *)
(***************************************************************************)
\* A message that is handled is a put, an eviction or nothing to the abstract store.
LEMMA HandleImplements ==
  ASSUME TypeOK, HandleMessage
  PROVE  Abstract!Next \/ UNCHANGED <<packets, committed.packets, now>>
<1>1. Head(inbox) \in Message /\ UNCHANGED <<committed, now>> /\ packets \in PacketTable
  BY InboxHead DEF HandleMessage, TypeOK
<1>2. CASE HandleUpsert /\ ~UNCHANGED tables
  <2> DEFINE p == Head(inbox).packet
  <2>1. p \in Packet /\ Store(p) /\ ~(packets[p.key] # None /\ MoreRecentThan(packets[p.key], p))
    BY <1>1, <1>2, MessageFields DEF HandleUpsert
  <2>2. packets[p.key] = None \/ Abstract!AsRecent(p, packets[p.key])
    <3>1. p.time \in Nat /\ p.body \in Nat /\ p.key \in Key
      BY <2>1, PacketFields
    <3>2. CASE packets[p.key] # None
      <4>1. packets[p.key] \in Packet
        BY <1>1, <3>1, <3>2, TableUpdates
      <4>2. packets[p.key].time \in Nat /\ packets[p.key].body \in Nat
        BY <4>1, PacketFields
      <4> QED BY <2>1, <3>1, <3>2, <4>2 DEF MoreRecentThan, Abstract!AsRecent
    <3> QED BY <3>2
  <2>3. Abstract!Put(p)
    BY <1>1, <2>1, <2>2 DEF Store, Abstract!Put
  <2> QED BY <2>1, <2>3 DEF Abstract!Next
<1>3. CASE HandleCheckExpired
  <2> DEFINE k == Head(inbox).key
  <2>1. k \in Key
    BY <1>1, <1>3, MessageFields DEF HandleCheckExpired
  <2>2. CASE packets[k] # None /\ packets[k].time < ExpiryTime
    <3>1. packets[k].time \in Nat /\ now \in Nat /\ ExpiryTime \in Nat
      BY <1>1, <2>1, <2>2, TableUpdates, PacketFields, ExpiryTimeType DEF TypeOK, Time
    <3>2. packets[k].time + Eviction < now
      BY <2>2, <3>1 DEF ExpiryTime
    <3>3. Abstract!Expire(k)
      BY <1>1, <1>3, <2>2, <3>2 DEF HandleCheckExpired, Abstract!Expire
    <3> QED BY <2>1, <3>3 DEF Abstract!Next
  <2>3. CASE ~(packets[k] # None /\ packets[k].time < ExpiryTime)
    BY <1>1, <1>3, <2>3 DEF HandleCheckExpired
  <2> QED BY <2>2, <2>3
<1>4. CASE UNCHANGED tables
  BY <1>1, <1>4 DEF tables
<1> QED BY <1>2, <1>3, <1>4 DEF HandleMessage, HandleGet, TakeSnapshot

(***************************************************************************)
(* The store implements the abstract packet store: what callers see only   *)
(* moves forward until it expires, and a crash or a failed transaction     *)
(* falls back to the last commit as a whole (Actor::run0, handle_message). *)
(***************************************************************************)
THEOREM ImplementsStoreHolds == Spec => ImplementsStore
<1>1. Init => Abstract!Init
  BY DEF Init, Abstract!Init
<1>2. ASSUME TypeOK, TypeOK', [Next]_vars
      PROVE  [Abstract!Next]_<<packets, committed.packets, now>>
  <2>1. CASE ActorNext
    <3>1. CASE HandleMessage
      BY <1>2, <3>1, HandleImplements
    <3>2. CASE EndBatch \/ ActorCancelled
      <4>1. committed'.packets = packets /\ UNCHANGED <<packets, now>>
        BY <3>2 DEF EndBatch, ActorCancelled, Commit, tables
      <4> QED BY <4>1 DEF Abstract!Next, Abstract!Save
    <3>3. CASE ActorFails
      <4>1. packets' = committed.packets /\ UNCHANGED <<committed, now>>
        BY <3>3 DEF ActorFails
      <4> QED BY <4>1 DEF Abstract!Next, Abstract!Lose
    <3>4. CASE ActorSnapshot \/ BeginBatch \/ ActorDrained
      BY <3>4 DEF ActorSnapshot, TakeSnapshot, BeginBatch, ActorDrained, tables
    <3> QED BY <2>1, <3>1, <3>2, <3>3, <3>4 DEF ActorNext
  <2>2. CASE EvictNext
    BY <2>2 DEF EvictNext, EvictAsk, EvictRange, EvictSend, EvictScanned, EvictAgain, EvictFails,
                EvictCancelled, tables
  <2>3. ASSUME NEW c \in Client, ClientNext(c)
        PROVE  UNCHANGED <<packets, committed, now>>
    BY <2>3 DEF ClientNext, Begin, Send, RequestFails, Hangup, tables
  <2>4. CASE Tick \/ Open
    <3>1. now' \in 0..MaxTime /\ UNCHANGED <<packets, committed>>
      BY <1>2, <2>4 DEF Tick, Open, tables, TypeOK, Time
    <3> QED BY <3>1 DEF Abstract!Next, Abstract!Clock
  <2>5. CASE Crash
    <3>1. packets' = committed.packets /\ UNCHANGED <<committed, now>>
      BY <2>5 DEF Crash
    <3> QED BY <3>1 DEF Abstract!Next, Abstract!Lose
  <2>6. CASE Drop \/ Join \/ UNCHANGED vars
    BY <2>6 DEF Drop, Join, vars, tables
  <2> QED BY <1>2, <2>1, <2>2, <2>3, <2>4, <2>5, <2>6 DEF Next
<1> QED BY <1>1, <1>2, StoreTypes, PTL DEF Spec, ImplementsStore, Abstract!Spec
=============================================================================
