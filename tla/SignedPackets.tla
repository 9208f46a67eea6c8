--------------------------- MODULE SignedPackets ----------------------------
(***************************************************************************)
(* The packet store of iroh-dns-server (store/signed_packets.rs).  One     *)
(* actor thread owns the database and handles messages in batches, one     *)
(* write transaction each.  An eviction thread asks it for a snapshot of   *)
(* the update-time index and sends one CheckExpired for every entry that   *)
(* is too old.  Requests of the HTTP and DNS servers upsert and get.       *)
(*                                                                         *)
(* The message that opens a batch is pushed back and received again; here  *)
(* it stays at the head of the inbox.  The order the index is scanned in   *)
(* and what is done with a packet that was read are left open.             *)
(***************************************************************************)
EXTENDS Integers, Sequences

CONSTANTS
  Key,           \* public keys
  Packet,        \* signed packets: [key, time, body]
  Client,        \* requests being served at the same time
  None,
  MaxTime,       \* bound: the clock stops here
  Eviction,      \* Options::eviction, in clock units
  InboxCapacity, \* 1024 in the code
  MaxBatch,      \* Options::max_batch_size
  MaxRestarts,   \* bound: times the process is started again
  MayFail        \* database operations may fail

Time == 0..MaxTime

ASSUME StoreAssumption ==
  /\ MaxTime \in Nat /\ Eviction \in Nat
  /\ InboxCapacity \in Nat \ {0} /\ MaxBatch \in Nat \ {0}
  /\ MaxRestarts \in Nat /\ MayFail \in BOOLEAN
  /\ Packet \subseteq [key : Key, time : Time, body : Nat]
  /\ None \notin Packet /\ None \notin Client

VARIABLES
  packets,   \* signed-packets-1, as the open transaction (or the next one) sees it
  index,     \* update-time-1, the same
  committed, \* what the database file holds
  now,       \* Timestamp::now
  inbox,     \* the channel into the actor
  actor,     \* the actor thread: "idle", "batch" or "ended"
  handled,   \* messages handled in the open batch
  evict,     \* the eviction thread
  todo,      \* its snapshot of the index, then the entries it has not sent yet
  cancelled, \* the cancellation token
  owner,     \* the SignedPacketStore handle
  restarts,  \* times the process was started again
  client     \* requests: idle, the message they send, or waiting for the answer

tables == <<packets, index>>
eviction == <<evict, todo>>
process == <<cancelled, owner, restarts>>
vars == <<packets, index, committed, now, inbox, actor, handled, evict, todo,
          cancelled, owner, restarts, client>>

Upsert(c, p) == [kind |-> "Upsert", from |-> c, packet |-> p]
Get(c, k) == [kind |-> "Get", from |-> c, key |-> k]
Snapshot == [kind |-> "Snapshot"]
CheckExpired(t, k) == [kind |-> "CheckExpired", time |-> t, key |-> k]

\* What a request is doing when it has no message to send.
Idle == [kind |-> "Idle"]
Waiting == [kind |-> "Waiting"]

Init ==
  /\ packets = [k \in Key |-> None]
  /\ index = {}
  /\ committed = [packets |-> packets, index |-> index]
  /\ now = 0
  /\ inbox = <<>> /\ actor = "idle" /\ handled = 0
  /\ evict = "ask" /\ todo = {}
  /\ cancelled = FALSE /\ owner = "open" /\ restarts = 0
  /\ client = [c \in Client |-> Idle]

\* SignedPacket::more_recent_than.
MoreRecentThan(p, q) == p.time > q.time \/ (p.time = q.time /\ p.body > q.body)

\* What is older than this has expired; the subtraction saturates.
ExpiryTime == IF now > Eviction THEN now - Eviction ELSE 0

\* mpsc: a send needs a free slot and a receiver.
CanSend == actor # "ended" /\ Len(inbox) < InboxCapacity

(***************************************************************************)
(* The actor.                                                              *)
(***************************************************************************)
\* A snapshot is of the committed tables, also while a transaction is open.
TakeSnapshot ==
  /\ Head(inbox).kind = "Snapshot"
  /\ IF evict = "wait"
       THEN evict' = "range" /\ todo' = committed.index
       ELSE UNCHANGED eviction
  /\ UNCHANGED <<tables, client>>

\* run0: a snapshot outside of a batch needs no transaction.
ActorSnapshot ==
  /\ actor = "idle" /\ inbox # <<>>
  /\ TakeSnapshot
  /\ inbox' = Tail(inbox)
  /\ UNCHANGED <<committed, now, actor, handled, process>>

\* run0: any other message opens a batch.
BeginBatch ==
  /\ actor = "idle" /\ inbox # <<>> /\ Head(inbox).kind # "Snapshot"
  /\ actor' = "batch" /\ handled' = 0
  /\ UNCHANGED <<tables, committed, now, inbox, eviction, process, client>>

\* The request whose message is at the head gets its answer.
Reply ==
  client' = IF Head(inbox).from = None THEN client ELSE [client EXCEPT ![Head(inbox).from] = Idle]

HandleGet ==
  /\ Head(inbox).kind = "Get"
  /\ Reply
  /\ UNCHANGED <<tables, eviction>>

\* Mutant for IndexCovers: the new entry is inserted before the old one is removed.
InsertThenRemove(p) ==
  LET old == packets[p.key]
  IN /\ packets' = [packets EXCEPT ![p.key] = p]
     /\ index' = (index \cup {<<p.time, p.key>>})
                   \ (IF old = None THEN {} ELSE {<<old.time, p.key>>})

\* The row and its index entry replace the old ones, which must be removed first.
Store(p) ==
  LET old == packets[p.key]
  IN /\ packets' = [packets EXCEPT ![p.key] = p]
     /\ index' = (IF old = None THEN index ELSE index \ {<<old.time, p.key>>})
                   \cup {<<p.time, p.key>>}

\* Mutant for ImplementsStore: packets of the same time are not compared.
UpsertByTime ==
  /\ Head(inbox).kind = "Upsert"
  /\ LET p == Head(inbox).packet
         old == packets[p.key]
     IN IF old # None /\ old.time > p.time THEN UNCHANGED tables ELSE Store(p)
  /\ Reply
  /\ UNCHANGED eviction

HandleUpsert ==
  /\ Head(inbox).kind = "Upsert"
  /\ LET p == Head(inbox).packet
         old == packets[p.key]
     IN IF old # None /\ MoreRecentThan(old, p)
          THEN UNCHANGED tables
          ELSE Store(p)
  /\ Reply
  /\ UNCHANGED eviction

\* Mutant for ExpiredRemoved: an entry without a packet is left alone.
OnlyFound ==
  /\ Head(inbox).kind = "CheckExpired"
  /\ LET k == Head(inbox).key
         p == packets[k]
     IN IF p = None
          THEN UNCHANGED tables
          ELSE /\ index' = index \ {<<Head(inbox).time, k>>}
               /\ packets' = IF p.time < ExpiryTime THEN [packets EXCEPT ![k] = None] ELSE packets
  /\ UNCHANGED <<eviction, client>>

\* Whatever the packet has become, the entry that was found goes; the packet only if it is expired itself.
HandleCheckExpired ==
  /\ Head(inbox).kind = "CheckExpired"
  /\ LET k == Head(inbox).key
         p == packets[k]
     IN /\ index' = index \ {<<Head(inbox).time, k>>}
        /\ packets' = IF p # None /\ p.time < ExpiryTime
                        THEN [packets EXCEPT ![k] = None] ELSE packets
  /\ UNCHANGED <<eviction, client>>

HandleMessage ==
  /\ actor = "batch" /\ inbox # <<>> /\ handled < MaxBatch
  /\ HandleGet \/ HandleUpsert \/ HandleCheckExpired \/ TakeSnapshot
  /\ inbox' = Tail(inbox) /\ handled' = handled + 1
  /\ UNCHANGED <<committed, now, actor, process>>

Commit == committed' = [packets |-> packets, index |-> index]

\* The batch is full, or max_batch_time has passed.
EndBatch ==
  /\ actor = "batch"
  /\ Commit /\ actor' = "idle" /\ handled' = 0
  /\ UNCHANGED <<tables, now, inbox, eviction, process, client>>

\* The receiver goes with the actor, and the messages in it.
ActorCancelled ==
  /\ actor = "batch" /\ cancelled
  /\ Commit /\ actor' = "ended" /\ handled' = 0 /\ inbox' = <<>>
  /\ UNCHANGED <<tables, now, eviction, process, client>>

\* recv returns None: both senders are gone.
ActorDrained ==
  /\ actor = "idle" /\ inbox = <<>> /\ owner # "open" /\ evict = "ended"
  /\ actor' = "ended"
  /\ UNCHANGED <<tables, committed, now, inbox, handled, eviction, process, client>>

\* A database error: the transaction is dropped without a commit.
ActorFails ==
  /\ MayFail
  /\ actor = "batch" \/ (actor = "idle" /\ inbox # <<>>)
  /\ actor' = "ended" /\ handled' = 0 /\ inbox' = <<>> /\ cancelled' = TRUE
  /\ packets' = committed.packets /\ index' = committed.index
  /\ UNCHANGED <<committed, now, eviction, owner, restarts, client>>

(***************************************************************************)
(* The eviction thread.                                                    *)
(***************************************************************************)
EvictAsk ==
  /\ evict = "ask" /\ CanSend
  /\ inbox' = Append(inbox, Snapshot) /\ evict' = "wait"
  /\ UNCHANGED <<tables, committed, now, actor, handled, todo, process, client>>

\* The entries of the snapshot that are expired by now; those that cannot be read are skipped.
EvictRange(unread) ==
  /\ evict = "range" /\ (unread # {} => MayFail)
  /\ evict' = "scan" /\ todo' = {e \in todo : e[1] < ExpiryTime} \ unread
  /\ UNCHANGED <<tables, committed, now, inbox, actor, handled, process, client>>

EvictSend ==
  /\ evict = "scan" /\ CanSend
  /\ \E e \in todo :
       /\ inbox' = Append(inbox, CheckExpired(e[1], e[2]))
       /\ todo' = todo \ {e}
  /\ UNCHANGED <<tables, committed, now, actor, handled, evict, process, client>>

EvictScanned ==
  /\ evict = "scan" /\ todo = {}
  /\ evict' = "sleep"
  /\ UNCHANGED <<tables, committed, now, inbox, actor, handled, todo, process, client>>

\* eviction_interval has passed.
EvictAgain ==
  /\ evict = "sleep"
  /\ evict' = "ask"
  /\ UNCHANGED <<tables, committed, now, inbox, actor, handled, todo, process, client>>

\* The actor is gone, or the index cannot be read: the store is shut down.
EvictFails ==
  /\ \/ actor = "ended" /\ (evict \in {"ask", "wait"} \/ (evict = "scan" /\ todo # {}))
     \/ MayFail /\ evict = "range"
  /\ evict' = "ended" /\ todo' = {} /\ cancelled' = TRUE
  /\ UNCHANGED <<tables, committed, now, inbox, actor, handled, owner, restarts, client>>

\* run_until_cancelled drops the task wherever it waits.
EvictCancelled ==
  /\ evict # "ended" /\ cancelled
  /\ evict' = "ended" /\ todo' = {}
  /\ UNCHANGED <<tables, committed, now, inbox, actor, handled, process, client>>

(***************************************************************************)
(* Requests.                                                               *)
(***************************************************************************)
\* A request begins; its handler holds the store.
Begin(c, m) ==
  /\ owner = "open" /\ client[c] = Idle
  /\ client' = [client EXCEPT ![c] = m]
  /\ UNCHANGED <<tables, committed, now, inbox, actor, handled, eviction, process>>

\* upsert and get: the message is sent, with the channel for the answer.
Send(c) ==
  /\ client[c] \notin {Idle, Waiting} /\ CanSend
  /\ inbox' = Append(inbox, client[c])
  /\ client' = [client EXCEPT ![c] = Waiting]
  /\ UNCHANGED <<tables, committed, now, actor, handled, eviction, process>>

\* The channel is closed, or the message was dropped with it.
RequestFails(c) ==
  /\ actor = "ended" /\ client[c] # Idle
  /\ client' = [client EXCEPT ![c] = Idle]
  /\ UNCHANGED <<tables, committed, now, inbox, actor, handled, eviction, process>>

\* The HTTP connection is closed: its handler is dropped where it waits, its message stays.
Hangup(c) ==
  /\ client[c] # Idle
  /\ client' = [client EXCEPT ![c] = Idle]
  /\ inbox' = [i \in DOMAIN inbox |->
                 IF inbox[i].kind \in {"Upsert", "Get"} /\ inbox[i].from = c
                   THEN [inbox[i] EXCEPT !.from = None] ELSE inbox[i]]
  /\ UNCHANGED <<tables, committed, now, actor, handled, eviction, process>>

(***************************************************************************)
(* The process.                                                            *)
(***************************************************************************)
Tick ==
  /\ now < MaxTime
  /\ now' = now + 1
  /\ UNCHANGED <<tables, committed, inbox, actor, handled, eviction, process, client>>

\* Mutant for DropReturns: the token is not cancelled.
DropHandle ==
  /\ owner = "open" /\ \A c \in Client : client[c] = Idle
  /\ owner' = "joinActor"
  /\ UNCHANGED <<tables, committed, now, inbox, actor, handled, eviction, cancelled, restarts, client>>

\* Drop for SignedPacketStore: no request holds it any more; then its fields are dropped in order.
Drop ==
  /\ owner = "open" /\ \A c \in Client : client[c] = Idle
  /\ owner' = "joinActor" /\ cancelled' = TRUE
  /\ UNCHANGED <<tables, committed, now, inbox, actor, handled, eviction, restarts, client>>

\* Drop for IoThread.
Join ==
  /\ \/ owner = "joinActor" /\ actor = "ended" /\ owner' = "joinEvict"
     \/ owner = "joinEvict" /\ evict = "ended" /\ owner' = "down"
  /\ UNCHANGED <<tables, committed, now, inbox, actor, handled, eviction, cancelled, restarts, client>>

\* The process dies; nothing but the database file is left.
Crash ==
  /\ owner # "down" /\ restarts < MaxRestarts
  /\ owner' = "down" /\ actor' = "ended" /\ evict' = "ended" /\ cancelled' = FALSE
  /\ packets' = committed.packets /\ index' = committed.index
  /\ inbox' = <<>> /\ handled' = 0 /\ todo' = {}
  /\ client' = [c \in Client |-> Idle]
  /\ UNCHANGED <<committed, now, restarts>>

\* SignedPacketStore::open, in a process whose clock may have been set back.
Open ==
  /\ owner = "down" /\ restarts < MaxRestarts
  /\ restarts' = restarts + 1
  /\ owner' = "open" /\ actor' = "idle" /\ evict' = "ask" /\ cancelled' = FALSE
  /\ now' \in 0..now
  /\ UNCHANGED <<tables, committed, inbox, handled, todo, client>>

ActorNext ==
  \/ ActorSnapshot \/ BeginBatch \/ HandleMessage \/ EndBatch
  \/ ActorCancelled \/ ActorDrained \/ ActorFails

EvictNext ==
  \/ EvictAsk \/ EvictSend \/ EvictScanned \/ EvictAgain \/ EvictFails \/ EvictCancelled
  \/ \E unread \in SUBSET todo : EvictRange(unread)

ClientNext(c) ==
  \/ \E p \in Packet : Begin(c, Upsert(c, p))
  \/ \E k \in Key : Begin(c, Get(c, k))
  \/ Send(c) \/ RequestFails(c) \/ Hangup(c)

Next ==
  \/ ActorNext \/ EvictNext
  \/ \E c \in Client : ClientNext(c)
  \/ Tick \/ Drop \/ Join \/ Crash \/ Open

Spec == Init /\ [][Next]_vars

(***************************************************************************)
(* Both threads run, timers fire, select! takes every branch that is ready *)
(* again and again, the channel serves its senders in order, the index is  *)
(* not unreadable every time, the clock goes on.  Nobody has to begin a    *)
(* request.                                                                *)
(***************************************************************************)
Fairness ==
  /\ WF_vars(ActorSnapshot \/ BeginBatch \/ EndBatch \/ ActorDrained)
  /\ SF_vars(HandleMessage) /\ SF_vars(ActorCancelled)
  /\ SF_vars(EvictRange({})) /\ WF_vars(EvictScanned \/ EvictAgain)
  /\ SF_vars(EvictAsk \/ EvictSend) /\ WF_vars(EvictCancelled)
  /\ WF_vars(Tick) /\ WF_vars(Join)

FairSpec == Spec /\ Fairness

-----------------------------------------------------------------------------

Request == [kind : {"Upsert"}, from : Client \cup {None}, packet : Packet]
           \cup [kind : {"Get"}, from : Client \cup {None}, key : Key]
Message == Request \cup {Snapshot} \cup [kind : {"CheckExpired"}, time : Time, key : Key]

PacketTable == {f \in [Key -> Packet \cup {None}] : \A k \in Key : f[k] # None => f[k].key = k}

(***************************************************************************)
(* Type correctness; rows are stored under their own key, the channel and  *)
(* the batch keep their limits, and outside of a batch nothing is          *)
(* uncommitted.                                                            *)
(***************************************************************************)
TypeOK ==
  /\ packets \in PacketTable /\ index \in SUBSET (Time \X Key)
  /\ committed \in [packets : PacketTable, index : SUBSET (Time \X Key)]
  /\ now \in Time
  /\ inbox \in Seq(Message) /\ Len(inbox) <= InboxCapacity
  /\ actor \in {"idle", "batch", "ended"} /\ handled \in 0..MaxBatch
  /\ evict \in {"ask", "wait", "range", "scan", "sleep", "ended"}
  /\ todo \in SUBSET (Time \X Key)
  /\ cancelled \in BOOLEAN /\ owner \in {"open", "joinActor", "joinEvict", "down"}
  /\ restarts \in 0..MaxRestarts
  /\ client \in [Client -> Request \cup {Idle, Waiting}]
  /\ actor # "batch" => committed = [packets |-> packets, index |-> index]

(***************************************************************************)
(* Every stored packet has its entry in the update-time index, in the      *)
(* transaction and in the file: an upsert that replaces a packet (with the *)
(* same time perhaps) and a CheckExpired that was sent before it (handle_  *)
(* message) leave no packet the eviction would never find.                 *)
(***************************************************************************)
Covers(rows, entries) == \A k \in Key : rows[k] # None => <<rows[k].time, k>> \in entries

IndexCovers == Covers(packets, index) /\ Covers(committed.packets, committed.index)

(***************************************************************************)
(* The actor, its batches and the eviction implement the abstract packet   *)
(* store: a packet is replaced only by one that is as recent, goes only    *)
(* once it has expired, and a crash takes back to the last commit, all of  *)
(* it (handle_message, run0).                                              *)
(***************************************************************************)
Abstract == INSTANCE PacketStore WITH durable <- committed.packets
ImplementsStore == Abstract!Spec

(***************************************************************************)
(* An expired packet, and an index entry left behind by one, is removed    *)
(* from the store in the end, unless the store is shut down (evict_task).  *)
(***************************************************************************)
ExpiredRemoved ==
  \A e \in {<<p.time, p.key>> : p \in Packet} :
    (e \in index /\ e[1] < ExpiryTime) ~> (e \notin index \/ cancelled \/ owner # "open")

\* Dropping the store ends both threads and returns, in whatever state they are (Drop).
DropReturns == (owner = "joinActor") ~> (owner = "down")

=============================================================================
