---------------------------- MODULE RelayClients ----------------------------
(***************************************************************************)
(* The relay server's registry of connected clients (Clients in            *)
(* iroh-relay/src/server/clients.rs) together with the per-connection      *)
(* actor (Actor in iroh-relay/src/server/client.rs) that reads and writes  *)
(* one client's stream.                                                    *)
(*                                                                         *)
(* One endpoint may hold several connections.  The newest one is active    *)
(* and receives; the older ones are kept on a stack and take over again    *)
(* when the newer ones leave.                                              *)
(*                                                                         *)
(* Tasks of the runtime interleave at the granularity of the locks the     *)
(* code takes.  MultiThread says which tokio runtime runs the server: the  *)
(* relay binary uses the multi-threaded one, the repository's tests the    *)
(* current-thread one, in which a task is not preempted between awaits.    *)
(***************************************************************************)
EXTENDS Integers, Sequences, FiniteSets

CONSTANTS
  Endpoint,         \* endpoint ids
  Conn,             \* connection slots; a slot is reused once its connection is forgotten
  EndpointOf,       \* the authenticated endpoint of every connection
  NoConn,           \* no connection
  NoEndpoint,       \* no endpoint
  ChannelCapacity,  \* Config::channel_capacity
  MultiThread,      \* TRUE iff tasks run in parallel
  Destination,      \* bound: the endpoints clients address their datagrams to
  ShutdownAllowed,  \* whether the embedding server calls Clients::shutdown
  MaxLag            \* bound: how far below zero the inactive metric is followed

ASSUME ConnAssumption ==
  /\ EndpointOf \in [Conn -> Endpoint]
  /\ NoConn \notin Conn
  /\ NoEndpoint \notin Endpoint
ASSUME SizeAssumption ==
  /\ ChannelCapacity \in Nat \ {0}
  /\ MaxLag \in Nat
  /\ MultiThread \in BOOLEAN
  /\ ShutdownAllowed \in BOOLEAN
  /\ Destination \subseteq Endpoint

VARIABLES
  clients,         \* Inner::clients: endpoint -> active connection and stack of inactive ones
  sent_to,         \* Inner::sent_to: endpoint -> endpoints it has sent packets to
  reg,             \* progress of Clients::register for a connection
  actor,           \* program counter of the connection's actor
  done,            \* Client::done: the cancellation token
  packet_queue,    \* sources of the packets waiting for the client
  message_queue,   \* other messages waiting for the client
  sending,         \* destination of a packet queued but not yet recorded in sent_to
  notify_peers,    \* peers the unregistering actor still has to notify
  inactive_metric, \* clients_inactive_added - clients_inactive_removed
  shutdown         \* Clients::shutdown: stage, endpoints to visit, keys found, clients awaited

(***************************************************************************)
(* What has been observed so far; no guard of the system reads these.      *)
(***************************************************************************)
VARIABLES
  told,        \* last status written to the client's stream
  routes,      \* endpoints the written frames make the client believe reachable
  statusLost,  \* the latest status for the client could not be queued
  goneMissed,  \* endpoints whose EndpointGone the connection was not given
  overtaken,   \* endpoints whose EndpointGone was written before packets of theirs
  late,        \* the actor unregistered before register() had inserted its client
  older,       \* connections of the endpoint registered when this one was inserted
  atShutdown   \* connections in the registry when shutdown() was called

registryVars == <<clients, sent_to, inactive_metric>>
queueVars    == <<packet_queue, message_queue>>
historyVars  == <<told, routes, statusLost, goneMissed, overtaken, late, older, atShutdown>>
vars == <<clients, sent_to, reg, actor, done, packet_queue, message_queue, sending,
          notify_peers, inactive_metric, shutdown, told, routes, statusLost,
          goneMissed, overtaken, late, older, atShutdown>>

Healthy == "Healthy"
SameEndpointIdConnected == "SameEndpointIdConnected"
Status == {Healthy, SameEndpointIdConnected}

EndpointGone(e) == <<"EndpointGone", e>>
StatusMsg(s)    == <<"Status", s>>
Message == ({"EndpointGone"} \X Endpoint) \cup ({"Status"} \X Status)

NoEntry == [active |-> NoConn, inactive |-> <<>>]

RunningStates == {"select", "record", "messages", "exiting"}
ActorStates   == RunningStates \cup {"none", "notify", "exited"}

Elements(s) == {s[i] : i \in DOMAIN s}

\* The connections registered for endpoint e.
Listed(e) == Elements(clients[e].inactive) \cup ({clients[e].active} \ {NoConn})

-----------------------------------------------------------------------------
(***************************************************************************)
(* Scheduling.  A task that is between two awaits is in mid section; on    *)
(* the current-thread runtime no other task runs until it is through.      *)
(***************************************************************************)
MidSection ==
  {<<"register", c>> : c \in {x \in Conn : reg[x] = "spawned"}}
  \cup {<<"actor", c>> :
          c \in {x \in Conn : actor[x] \in {"record", "messages", "exiting", "notify"}}}
  \cup {<<"shutdown", NoConn>> :
          s \in {x \in {"collect", "remove"} : shutdown.stage = x}}

Scheduled(task) == MultiThread \/ MidSection \subseteq {task}

\* Holding a reference into a map entry holds the read lock of its shard:
\* nobody may change the entry of e while a packet to e is being recorded.
Unlocked(e) == \A c \in Conn : sending[c] # e

-----------------------------------------------------------------------------
(***************************************************************************)
(* The bounded channels of a client.  Its receivers are dropped when the   *)
(* actor's task ends.                                                      *)
(***************************************************************************)
Closed(c) == actor[c] = "exited"

CanQueueMessage(c) == ~Closed(c) /\ Len(message_queue[c]) < ChannelCapacity

Queued(c, m) == IF CanQueueMessage(c) THEN [message_queue EXCEPT ![c] = Append(@, m)]
                                      ELSE message_queue

\* Client::try_send_health, its result ignored by every caller.
TrySendHealth(c, status) ==
  /\ message_queue' = Queued(c, StatusMsg(status))
  /\ statusLost' = [statusLost EXCEPT ![c] = ~CanQueueMessage(c)]

-----------------------------------------------------------------------------
(***************************************************************************)
(* Clients::register.  Client::new spawns the actor, and only then is the  *)
(* client put into the map.                                                *)
(***************************************************************************)
\* A slot stands for a new connection once nothing refers to the old one.
Fresh(c) ==
  /\ actor[c] \in {"none", "exited"}
  /\ reg[c] # "spawned"
  /\ c \notin Listed(EndpointOf[c])
  /\ c \notin shutdown.awaited

ClientNew(c) ==
  /\ Scheduled(<<"register", c>>)
  /\ Fresh(c)
  /\ reg' = [reg EXCEPT ![c] = "spawned"]
  /\ actor' = [actor EXCEPT ![c] = "select"]
  /\ done' = [done EXCEPT ![c] = FALSE]
  /\ late' = [late EXCEPT ![c] = FALSE]
  /\ older' = [d \in Conn |-> older[d] \ {c}]
  /\ atShutdown' = atShutdown \ {c}
  /\ UNCHANGED <<registryVars, queueVars, sending, notify_peers, shutdown, told, routes,
                 statusLost, goneMissed, overtaken>>

RegisterInsert(c) ==
  LET e == EndpointOf[c] IN
  /\ Scheduled(<<"register", c>>)
  /\ reg[c] = "spawned"
  /\ Unlocked(e)
  /\ reg' = [reg EXCEPT ![c] = "inserted"]
  /\ older' = [older EXCEPT ![c] = Listed(e)]
  /\ \/ /\ clients[e] = NoEntry
        /\ clients' = [clients EXCEPT ![e] = [active |-> c, inactive |-> <<>>]]
        /\ UNCHANGED <<inactive_metric, message_queue, statusLost>>
     \/ LET old_client == clients[e].active IN
        /\ old_client # NoConn
        /\ clients' = [clients EXCEPT ![e] =
             [active |-> c, inactive |-> Append(@.inactive, old_client)]]
        /\ TrySendHealth(old_client, SameEndpointIdConnected)
        /\ inactive_metric' = inactive_metric + 1
  /\ UNCHANGED <<sent_to, actor, done, packet_queue, sending, notify_peers, shutdown,
                 told, routes, goneMissed, overtaken, late, atShutdown>>

-----------------------------------------------------------------------------
(***************************************************************************)
(* Clients::unregister, run by the actor of c once its loop has ended.     *)
(***************************************************************************)
\* Variant: retain() keeps everything.
RetainAll(inactive, c) == inactive

\* inactive.retain(|client| client.connection_id() != c); ids occur at most once.
Retain(inactive, c) ==
  IF c \in Elements(inactive)
  THEN LET at == CHOOSE i \in DOMAIN inactive : inactive[i] = c
       IN  [i \in 1..(Len(inactive) - 1) |-> inactive[IF i < at THEN i ELSE i + 1]]
  ELSE inactive

\* clients_inactive_removed.inc(), followed down to the bound -MaxLag.
InactiveRemoved == inactive_metric' = IF inactive_metric = -MaxLag THEN inactive_metric
                                                              ELSE inactive_metric - 1

\* Variant: the oldest inactive connection is promoted.
PromoteOldest(c, e) ==
  LET first == clients[e].inactive[1] IN
  /\ clients[e].active = c
  /\ clients[e].inactive # <<>>
  /\ InactiveRemoved
  /\ clients' = [clients EXCEPT ![e] = [active |-> first, inactive |-> Tail(@.inactive)]]
  /\ TrySendHealth(first, Healthy)
  /\ UNCHANGED <<sent_to, notify_peers>>

\* Variant: the promoted connection is not told, and the metric not updated.
PromoteSilently(c, e) ==
  /\ clients[e].active = c
  /\ clients[e].inactive # <<>>
  /\ clients' = [clients EXCEPT ![e] =
       [active |-> @.inactive[Len(@.inactive)],
        inactive |-> SubSeq(@.inactive, 1, Len(@.inactive) - 1)]]
  /\ UNCHANGED <<sent_to, notify_peers, message_queue, statusLost, inactive_metric>>

\* The active connection leaves and the most recent inactive one takes over.
Promote(c, e) ==
  LET last == clients[e].inactive[Len(clients[e].inactive)] IN
  /\ clients[e].active = c
  /\ clients[e].inactive # <<>>
  /\ InactiveRemoved
  /\ clients' = [clients EXCEPT ![e] =
       [active |-> last, inactive |-> SubSeq(@.inactive, 1, Len(@.inactive) - 1)]]
  /\ TrySendHealth(last, Healthy)
  /\ UNCHANGED <<sent_to, notify_peers>>

\* Variant: the entry is removed although inactive connections remain.
RemoveEntryAlways(c, e) ==
  /\ clients[e].active = c
  /\ notify_peers' = [notify_peers EXCEPT ![c] = sent_to[e]]
  /\ sent_to' = [sent_to EXCEPT ![e] = {}]
  /\ clients' = [clients EXCEPT ![e] = NoEntry]
  /\ UNCHANGED <<inactive_metric, message_queue, statusLost>>

\* Variant: the list of peers is read but not removed.
RemoveEntryKeepSentTo(c, e) ==
  /\ clients[e].active = c
  /\ clients[e].inactive = <<>>
  /\ notify_peers' = [notify_peers EXCEPT ![c] = sent_to[e]]
  /\ clients' = [clients EXCEPT ![e] = NoEntry]
  /\ UNCHANGED <<sent_to, inactive_metric, message_queue, statusLost>>

\* Variant: the list of peers is dropped and nobody is notified.
RemoveEntryQuietly(c, e) ==
  /\ clients[e].active = c
  /\ clients[e].inactive = <<>>
  /\ sent_to' = [sent_to EXCEPT ![e] = {}]
  /\ clients' = [clients EXCEPT ![e] = NoEntry]
  /\ UNCHANGED <<notify_peers, inactive_metric, message_queue, statusLost>>

\* The last connection of the endpoint leaves; its peers are to be told.
RemoveEntry(c, e) ==
  /\ clients[e].active = c
  /\ clients[e].inactive = <<>>
  /\ notify_peers' = [notify_peers EXCEPT ![c] = sent_to[e]]
  /\ sent_to' = [sent_to EXCEPT ![e] = {}]
  /\ clients' = [clients EXCEPT ![e] = NoEntry]
  /\ UNCHANGED <<inactive_metric, message_queue, statusLost>>

\* Another connection is active.  The metric moves whether or not c was found.
RetainOthers(c, e) ==
  /\ clients[e].active \notin {c, NoConn}
  /\ clients' = [clients EXCEPT ![e] =
       [active |-> @.active, inactive |-> Retain(@.inactive, c)]]
  /\ InactiveRemoved
  /\ UNCHANGED <<sent_to, notify_peers, message_queue, statusLost>>

NothingToRemove(e) ==
  /\ clients[e].active = NoConn
  /\ UNCHANGED <<clients, sent_to, inactive_metric, notify_peers, message_queue, statusLost>>

Unregister(c) ==
  LET e == EndpointOf[c] IN
  /\ Scheduled(<<"actor", c>>)
  /\ actor[c] = "exiting"
  /\ Unlocked(e)
  /\ actor' = [actor EXCEPT ![c] = "notify"]
  /\ late' = [late EXCEPT ![c] = (reg[c] = "spawned")]
  /\ Promote(c, e) \/ RemoveEntry(c, e) \/ RetainOthers(c, e) \/ NothingToRemove(e)
  /\ UNCHANGED <<reg, done, packet_queue, sending, shutdown, told, routes, goneMissed,
                 overtaken, older, atShutdown>>

\* One turn of the notification loop, after the entry's lock is released.
\* Only the peer's active connection is given the message.
NotifyPeer(c, peer) ==
  LET e == EndpointOf[c]
      d == clients[peer].active
      given == d # NoConn /\ CanQueueMessage(d)
  IN
  /\ Scheduled(<<"actor", c>>)
  /\ actor[c] = "notify"
  /\ peer \in notify_peers[c]
  /\ notify_peers' = [notify_peers EXCEPT ![c] = @ \ {peer}]
  /\ message_queue' = IF given THEN Queued(d, EndpointGone(e)) ELSE message_queue
  /\ goneMissed' = [x \in Conn |->
       IF EndpointOf[x] = peer /\ ~(given /\ x = d) THEN goneMissed[x] \cup {e}
                                                  ELSE goneMissed[x]]
  /\ UNCHANGED <<registryVars, reg, actor, done, packet_queue, sending, shutdown, told,
                 routes, statusLost, overtaken, late, older, atShutdown>>

\* unregister() returned: the guard and the receivers are dropped, the task ends.
\* What this client was told no longer matters.
ActorEnd(c) ==
  /\ Scheduled(<<"actor", c>>)
  /\ actor[c] = "notify"
  /\ notify_peers[c] = {}
  /\ actor' = [actor EXCEPT ![c] = "exited"]
  /\ packet_queue' = [packet_queue EXCEPT ![c] = <<>>]
  /\ message_queue' = [message_queue EXCEPT ![c] = <<>>]
  /\ told' = [told EXCEPT ![c] = Healthy]
  /\ routes' = [routes EXCEPT ![c] = {}]
  /\ statusLost' = [statusLost EXCEPT ![c] = FALSE]
  /\ goneMissed' = [goneMissed EXCEPT ![c] = {}]
  /\ overtaken' = [overtaken EXCEPT ![c] = {}]
  /\ older' = [older EXCEPT ![c] = IF late[c] THEN @ ELSE {}]
  /\ UNCHANGED <<registryVars, reg, done, sending, notify_peers, shutdown, late, atShutdown>>

-----------------------------------------------------------------------------
(***************************************************************************)
(* The actor's select loop.  It is biased: cancellation is looked at       *)
(* first, then the stream, then packets, then other messages.              *)
(***************************************************************************)
\* A datagram frame arrives on c's stream: Clients::send_packet.  Without a
\* registered client for dst, or with its queue full, the packet is dropped
\* and nothing changes.
SendPacketQueued(c, dst) ==
  LET d == clients[dst].active IN
  /\ Scheduled(<<"actor", c>>)
  /\ actor[c] = "select"
  /\ ~done[c]
  /\ d # NoConn
  /\ ~Closed(d)
  /\ Len(packet_queue[d]) < ChannelCapacity
  /\ packet_queue' = [packet_queue EXCEPT ![d] = Append(@, EndpointOf[c])]
  /\ sending' = [sending EXCEPT ![c] = dst]
  /\ actor' = [actor EXCEPT ![c] = "record"]
  /\ goneMissed' = [goneMissed EXCEPT ![d] = @ \ {EndpointOf[c]}]
  /\ overtaken' = [overtaken EXCEPT ![d] = @ \ {EndpointOf[c]}]
  /\ UNCHANGED <<registryVars, reg, done, message_queue, notify_peers, shutdown, told,
                 routes, statusLost, late, older, atShutdown>>

\* The receiver is gone: "pruning connection" cancels its token.
SendPacketClosed(c, dst) ==
  LET d == clients[dst].active IN
  /\ Scheduled(<<"actor", c>>)
  /\ actor[c] = "select"
  /\ ~done[c]
  /\ d # NoConn
  /\ Closed(d)
  /\ done' = [done EXCEPT ![d] = TRUE]
  /\ UNCHANGED <<registryVars, reg, actor, queueVars, sending, notify_peers, shutdown,
                 historyVars>>

\* sent_to.entry(src).or_default().insert(dst), then the entry lock is released.
RecordSentTo(c) ==
  /\ Scheduled(<<"actor", c>>)
  /\ actor[c] = "record"
  /\ sent_to' = [sent_to EXCEPT ![EndpointOf[c]] = @ \cup {sending[c]}]
  /\ sending' = [sending EXCEPT ![c] = NoEndpoint]
  /\ actor' = [actor EXCEPT ![c] = "select"]
  /\ UNCHANGED <<clients, inactive_metric, reg, done, queueVars, notify_peers, shutdown,
                 historyVars>>

\* A packet from the queue is written to the client.
WritePacket(c) ==
  /\ Scheduled(<<"actor", c>>)
  /\ actor[c] = "select"
  /\ ~done[c]
  /\ packet_queue[c] # <<>>
  /\ packet_queue' = [packet_queue EXCEPT ![c] = Tail(@)]
  /\ routes' = [routes EXCEPT ![c] = @ \cup {Head(packet_queue[c])}]
  /\ UNCHANGED <<registryVars, reg, actor, done, message_queue, sending, notify_peers,
                 shutdown, told, statusLost, goneMissed, overtaken, late, older, atShutdown>>

\* The packet queue was polled and is empty; the message queue is polled next.
PollMessages(c) ==
  /\ Scheduled(<<"actor", c>>)
  /\ actor[c] = "select"
  /\ ~done[c]
  /\ packet_queue[c] = <<>>
  /\ actor' = [actor EXCEPT ![c] = "messages"]
  /\ UNCHANGED <<registryVars, reg, done, queueVars, sending, notify_peers, shutdown,
                 historyVars>>

\* The effect of a written message on what the client knows.
LearnStatus(c, m) == IF m[1] = "Status" THEN [told EXCEPT ![c] = m[2]] ELSE told
LearnGone(c, m) ==
  IF m[1] = "EndpointGone" THEN [routes EXCEPT ![c] = @ \ {m[2]}] ELSE routes

\* An EndpointGone is written while packets of that endpoint are still queued.
Overtakes(c, m) ==
  IF m[1] = "EndpointGone" /\ m[2] \in Elements(packet_queue[c])
  THEN [overtaken EXCEPT ![c] = @ \cup {m[2]}] ELSE overtaken

WriteMessage(c) ==
  LET m == Head(message_queue[c]) IN
  /\ Scheduled(<<"actor", c>>)
  /\ actor[c] = "messages"
  /\ message_queue[c] # <<>>
  /\ message_queue' = [message_queue EXCEPT ![c] = Tail(@)]
  /\ told' = LearnStatus(c, m)
  /\ routes' = LearnGone(c, m)
  /\ overtaken' = Overtakes(c, m)
  /\ actor' = [actor EXCEPT ![c] = "select"]
  /\ UNCHANGED <<registryVars, reg, done, packet_queue, sending, notify_peers, shutdown,
                 statusLost, goneMissed, late, older, atShutdown>>

NoMessages(c) ==
  /\ Scheduled(<<"actor", c>>)
  /\ actor[c] = "messages"
  /\ message_queue[c] = <<>>
  /\ actor' = [actor EXCEPT ![c] = "select"]
  /\ UNCHANGED <<registryVars, reg, done, queueVars, sending, notify_peers, shutdown,
                 historyVars>>

\* The loop ends because the token is cancelled.
Cancelled(c) ==
  /\ Scheduled(<<"actor", c>>)
  /\ actor[c] = "select"
  /\ done[c]
  /\ actor' = [actor EXCEPT ![c] = "exiting"]
  /\ UNCHANGED <<registryVars, reg, done, queueVars, sending, notify_peers, shutdown,
                 historyVars>>

\* The loop ends on its own: the stream terminated, a frame could not be read
\* or written in time, or a ping went unanswered.  A packet or message that was
\* being written is lost with the connection.
StreamFails(c) ==
  /\ Scheduled(<<"actor", c>>)
  /\ actor[c] = "select"
  /\ ~done[c]
  /\ actor' = [actor EXCEPT ![c] = "exiting"]
  /\ UNCHANGED <<registryVars, reg, done, queueVars, sending, notify_peers, shutdown,
                 historyVars>>

-----------------------------------------------------------------------------
(***************************************************************************)
(* Clients::disconnect and Clients::shutdown.                              *)
(***************************************************************************)
Cancel(cs) == done' = [c \in Conn |-> done[c] \/ c \in cs]

\* disconnect(e, Some(id)) cancels one connection, disconnect(e, None) all.
Disconnect(e) ==
  /\ MultiThread \/ MidSection = {}
  /\ Listed(e) # {}
  /\ \/ \E c \in Listed(e) : Cancel({c})
     \/ Cancel(Listed(e))
  /\ UNCHANGED <<registryVars, reg, actor, queueVars, sending, notify_peers, shutdown,
                 historyVars>>

ShutdownTask == <<"shutdown", NoConn>>

ShutdownBegin ==
  /\ Scheduled(ShutdownTask)
  /\ ShutdownAllowed
  /\ shutdown.stage = "up"
  /\ shutdown' = [shutdown EXCEPT !.stage = "collect", !.unvisited = Endpoint]
  /\ atShutdown' = UNION {Listed(e) : e \in Endpoint}
  /\ UNCHANGED <<registryVars, reg, actor, done, queueVars, sending, notify_peers, told,
                 routes, statusLost, goneMissed, overtaken, late, older>>

\* clients.iter() walks the map shard by shard, not as one snapshot.
ShutdownCollect(e) ==
  /\ Scheduled(ShutdownTask)
  /\ shutdown.stage = "collect"
  /\ e \in shutdown.unvisited
  /\ shutdown' = [shutdown EXCEPT
       !.unvisited = @ \ {e},
       !.keys = IF clients[e].active = NoConn THEN @ ELSE @ \cup {e},
       !.stage = IF shutdown.unvisited = {e} THEN "remove" ELSE @]
  /\ UNCHANGED <<registryVars, reg, actor, done, queueVars, sending, notify_peers,
                 historyVars>>

\* Takes one entry out of the map; shutdown_all() will await its clients.
ShutdownRemove(e) ==
  /\ Scheduled(ShutdownTask)
  /\ shutdown.stage = "remove"
  /\ e \in shutdown.keys
  /\ Unlocked(e)
  /\ shutdown' = [shutdown EXCEPT !.keys = @ \ {e}, !.awaited = @ \cup Listed(e)]
  /\ clients' = [clients EXCEPT ![e] = NoEntry]
  /\ UNCHANGED <<sent_to, inactive_metric, reg, actor, done, queueVars, sending,
                 notify_peers, historyVars>>

\* Variant: the clients are awaited without being cancelled.
ShutdownAwaitOnly ==
  /\ Scheduled(ShutdownTask)
  /\ shutdown.stage = "remove"
  /\ shutdown.keys = {}
  /\ shutdown' = [shutdown EXCEPT !.stage = "await"]
  /\ UNCHANGED <<registryVars, reg, actor, done, queueVars, sending, notify_peers,
                 historyVars>>

\* join_all polls every Client::shutdown once, which cancels its token.
ShutdownCancel ==
  /\ Scheduled(ShutdownTask)
  /\ shutdown.stage = "remove"
  /\ shutdown.keys = {}
  /\ shutdown' = [shutdown EXCEPT !.stage = "await"]
  /\ Cancel(shutdown.awaited)
  /\ UNCHANGED <<registryVars, reg, actor, queueVars, sending, notify_peers, historyVars>>

\* Variant: the first client to finish ends the wait.
ShutdownReturnEarly ==
  /\ Scheduled(ShutdownTask)
  /\ shutdown.stage = "await"
  /\ shutdown.awaited = {} \/ \E c \in shutdown.awaited : actor[c] = "exited"
  /\ shutdown' = [shutdown EXCEPT !.stage = "down", !.awaited = {}]
  /\ UNCHANGED <<registryVars, reg, actor, done, queueVars, sending, notify_peers,
                 historyVars>>

ShutdownReturn ==
  /\ Scheduled(ShutdownTask)
  /\ shutdown.stage = "await"
  /\ \A c \in shutdown.awaited : actor[c] = "exited"
  /\ shutdown' = [shutdown EXCEPT !.stage = "down", !.awaited = {}]
  /\ UNCHANGED <<registryVars, reg, actor, done, queueVars, sending, notify_peers,
                 historyVars>>

-----------------------------------------------------------------------------
Init ==
  /\ clients = [e \in Endpoint |-> NoEntry]
  /\ sent_to = [e \in Endpoint |-> {}]
  /\ reg = [c \in Conn |-> "absent"]
  /\ actor = [c \in Conn |-> "none"]
  /\ done = [c \in Conn |-> FALSE]
  /\ packet_queue = [c \in Conn |-> <<>>]
  /\ message_queue = [c \in Conn |-> <<>>]
  /\ sending = [c \in Conn |-> NoEndpoint]
  /\ notify_peers = [c \in Conn |-> {}]
  /\ inactive_metric = 0
  /\ shutdown = [stage |-> "up", unvisited |-> {}, keys |-> {}, awaited |-> {}]
  /\ told = [c \in Conn |-> Healthy]
  /\ routes = [c \in Conn |-> {}]
  /\ statusLost = [c \in Conn |-> FALSE]
  /\ goneMissed = [c \in Conn |-> {}]
  /\ overtaken = [c \in Conn |-> {}]
  /\ late = [c \in Conn |-> FALSE]
  /\ older = [c \in Conn |-> {}]
  /\ atShutdown = {}

ActorStep(c) ==
  \/ RecordSentTo(c) \/ WritePacket(c) \/ PollMessages(c) \/ WriteMessage(c)
  \/ NoMessages(c) \/ Cancelled(c) \/ Unregister(c) \/ ActorEnd(c)
  \/ \E peer \in Endpoint : NotifyPeer(c, peer)

ShutdownStep ==
  \/ ShutdownCancel \/ ShutdownReturn
  \/ \E e \in Endpoint : ShutdownCollect(e) \/ ShutdownRemove(e)

Next ==
  \/ \E c \in Conn : ClientNew(c) \/ RegisterInsert(c) \/ StreamFails(c) \/ ActorStep(c)
  \/ \E c \in Conn, dst \in Destination : SendPacketQueued(c, dst) \/ SendPacketClosed(c, dst)
  \/ \E e \in Endpoint : Disconnect(e)
  \/ ShutdownBegin
  \/ ShutdownStep

\* A task that can run is eventually run (WF); a task waiting for the write lock
\* of a map entry is eventually granted it, however many packets are sent to that
\* endpoint meanwhile (SF).  Clients and callers of the API promise nothing.
Fairness ==
  /\ \A c \in Conn : WF_vars(ActorStep(c))
  /\ \A c \in Conn : SF_vars(RegisterInsert(c)) /\ SF_vars(Unregister(c))
  /\ \A e \in Endpoint : SF_vars(ShutdownRemove(e))
  /\ WF_vars(ShutdownStep)

Spec == Init /\ [][Next]_vars
FairSpec == Spec /\ Fairness

-----------------------------------------------------------------------------
TypeOK ==
  /\ clients \in [Endpoint -> [active : Conn \cup {NoConn}, inactive : Seq(Conn)]]
  /\ sent_to \in [Endpoint -> SUBSET Endpoint]
  /\ reg \in [Conn -> {"absent", "spawned", "inserted"}]
  /\ actor \in [Conn -> ActorStates]
  /\ done \in [Conn -> BOOLEAN]
  /\ packet_queue \in [Conn -> Seq(Endpoint)]
  /\ message_queue \in [Conn -> Seq(Message)]
  /\ \A c \in Conn : Len(packet_queue[c]) <= ChannelCapacity
  /\ \A c \in Conn : Len(message_queue[c]) <= ChannelCapacity
  /\ sending \in [Conn -> Endpoint \cup {NoEndpoint}]
  /\ \A c \in Conn : actor[c] = "record" => sending[c] \in Endpoint
  /\ notify_peers \in [Conn -> SUBSET Endpoint]
  /\ inactive_metric \in Int
  /\ shutdown \in [stage : {"up", "collect", "remove", "await", "down"},
                   unvisited : SUBSET Endpoint, keys : SUBSET Endpoint,
                   awaited : SUBSET Conn]
  /\ told \in [Conn -> Status]
  /\ routes \in [Conn -> SUBSET Endpoint]
  /\ statusLost \in [Conn -> BOOLEAN]
  /\ goneMissed \in [Conn -> SUBSET Endpoint]
  /\ overtaken \in [Conn -> SUBSET Endpoint]
  /\ late \in [Conn -> BOOLEAN]
  /\ older \in [Conn -> SUBSET Conn]
  /\ atShutdown \in SUBSET Conn

\* The connections of an endpoint are stacked in the order in which register()
\* inserted them, without repetition, and all belong to the endpoint: whoever
\* leaves, "the most-recent inactive client becomes active again".
MostRecentIsActive ==
  \A e \in Endpoint :
    LET s == clients[e].inactive IN
    /\ clients[e].active = NoConn => s = <<>>
    /\ \A c \in Listed(e) : EndpointOf[c] = e /\ reg[c] = "inserted"
    /\ \A i, j \in DOMAIN s : i < j => s[i] \in older[s[j]] /\ s[i] # s[j]
    /\ clients[e].active # NoConn =>
         \A i \in DOMAIN s : s[i] \in older[clients[e].active] /\ s[i] # clients[e].active

\* Whatever other connections of the endpoint come and go, a connection that
\* register() inserted stays in the registry until its own actor unregisters
\* it or shutdown() takes it out.
RunningIsListed ==
  \A c \in Conn :
    reg[c] = "inserted" /\ actor[c] \in RunningStates /\ c \notin shutdown.awaited
      => c \in Listed(EndpointOf[c])

\* The only way for a client whose actor has unregistered to be in the registry
\* is that the actor ran to its end between Client::new and the insertion.
DeadEntriesAreLate ==
  \A c \in Conn :
    c \in Listed(EndpointOf[c]) /\ actor[c] \in {"notify", "exited"} => late[c]

\* On the current-thread runtime the registry lists no connection whose actor
\* has unregistered: "the list of all currently connected clients" is just that.
ListedAreConnected ==
  ~MultiThread =>
    \A e \in Endpoint : \A c \in Listed(e) : actor[c] \in RunningStates

\* The last status queued for or written to a client tells its place in the
\* registry, unless its channel could not take the message.
LastStatus(c) ==
  LET statuses == {i \in DOMAIN message_queue[c] : message_queue[c][i][1] = "Status"}
  IN  IF statuses = {} THEN told[c]
      ELSE message_queue[c][CHOOSE i \in statuses : \A j \in statuses : j <= i][2]
StatusMatchesRole ==
  \A c \in Conn :
    c \in Listed(EndpointOf[c]) /\ ~statusLost[c] /\ ~Closed(c)
      => (LastStatus(c) = Healthy <=> clients[EndpointOf[c]].active = c)

\* Somebody will, or did, tell d that endpoint e has gone: d's endpoint is on e's
\* sent_to list, or a leaving connection of e is about to notify it, or the
\* EndpointGone is in d's queue, or the one notification there was missed it.
WillBeTold(d, e) ==
  \/ EndpointOf[d] \in sent_to[e]
  \/ \E c \in Conn : /\ EndpointOf[c] = e
                     /\ sending[c] = EndpointOf[d] \/ EndpointOf[d] \in notify_peers[c]
  \/ EndpointGone(e) \in Elements(message_queue[d])
  \/ e \in goneMissed[d]

\* The endpoints that a running client believes reachable, or will by packets in its queue.
Reachable(d) ==
  IF actor[d] \in {"select", "record", "messages"} THEN routes[d] \cup Elements(packet_queue[d]) ELSE {}

\* A client that has been sent, or is about to be sent, packets of an endpoint will
\* be told when it goes: the notice stands behind the packets, because messages are
\* polled after packets (run_inner).
ReceiversAreTold ==
  \A d \in Conn : \A e \in Reachable(d) : WillBeTold(d, e)

\* What is left of it where tasks run in parallel: a client that is not told was told
\* too early, by a notice that overtook packets queued after it had been passed over.
ToldOrOvertaken ==
  \A d \in Conn : \A e \in Reachable(d) : WillBeTold(d, e) \/ e \in overtaken[d]

\* The sent_to list of an endpoint does not outlive its connections: it is empty
\* unless one of them is registered, about to be, or has yet to unregister.
SentToNotLeaked ==
  shutdown.stage = "up" =>
    \A e \in Endpoint : sent_to[e] # {} =>
      \E c \in Conn : /\ EndpointOf[c] = e
                      /\ \/ c \in Listed(e)
                         \/ reg[c] = "spawned"
                         \/ actor[c] \in RunningStates

\* "The number of inactive clients at any time is clients_inactive_added -
\* clients_inactive_removed" (metrics.rs), before shutdown() empties the map.
InactiveCount == Cardinality(UNION {{e} \X DOMAIN clients[e].inactive : e \in Endpoint})
MetricCountsInactive ==
  shutdown.stage = "up" => inactive_metric = InactiveCount

\* What is left of it where tasks run in parallel: the metric is never above the
\* count, and below it by at most one for every connection whose actor unregistered
\* before register() inserted it.
MetricOffByLate ==
  shutdown.stage = "up" =>
    inactive_metric \in (InactiveCount - Cardinality({c \in Conn : late[c]}))..InactiveCount

\* Once shutdown() has returned, no connection that was in the registry when
\* it was called is still running, although the map is walked and emptied
\* entry by entry while connections come and go.
ShutdownStopsClients ==
  shutdown.stage = "down" =>
    \A c \in atShutdown : actor[c] \notin RunningStates

-----------------------------------------------------------------------------
\* shutdown() returns.
ShutdownReturns == (shutdown.stage = "collect") ~> (shutdown.stage = "down")

\* "The list of all currently connected clients": a connection whose actor has
\* ended leaves the registry.
EndedLeaveRegistry ==
  \A c \in Conn : (actor[c] = "exited") ~> (c \notin Listed(EndpointOf[c]))
=============================================================================
