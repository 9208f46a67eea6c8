# Verification of nexalink-tunnel

Nexalink Tunnel is a TCP port forwarder built on its own copy of iroh: QUIC connections
between endpoints that are known by their public keys, hole punched where possible and carried by
relay servers where not. This directory holds TLA+ models of the parts in which several tasks share
state, the TLC configurations that check them on small instances, and TLAPS proofs of the most
important properties for every instance.

`PROJECT.json` lists components, runs, mutants (a variant of a definition for every property, under
which the property fails), the source lines each definition models, findings, hazards and theorems.

## The system

| Component | State | Operations | Hard because |
|---|---|---|---|
| Relay client registry and connection actors (`iroh-relay/src/server/clients.rs`, `client.rs`) | per endpoint: active connection and a stack of older ones; `sent_to`; per connection: packet and message queues, cancellation token | register, unregister, disconnect, send_packet, shutdown; the actor's select loop | tasks of all connections change the maps between each other's lock sections; queues are bounded and `try_send` drops; an actor may end while it is being registered |
| Remote map (`iroh/src/socket/remote_map.rs`, loop of `remote_state.rs`) | one actor per remote, map of senders, inboxes, join set | send_to_actor, resolve_remote, add_connection, cleanup, network change, shutdown; lookups by readers | actors stop when idle while messages are on the way, and are restarted with what was left |
| Remote paths (`remote_state.rs`, `path_state.rs`, `biased_rtt_path_selector.rs`) | address set with statuses, paths of every connection, selected path, waiting requests | resolve, lookup items, path events, connections opened and closed, pruning | statuses are shared by connections; events arrive late; limits |
| Tunnel (`iroh/examples/tunnel-send.rs`, `tunnel-listen.rs`) | cached connection behind an RwLock, semaphores, retries | get_connection, invalidate_connection, open, bridge; accept, whitelist, bridge to the local service | a lock held across a dial, shared invalidation, bounded retries, permits |
| Relay connections of an endpoint (`socket/transports/relay/actor.rs`) | active relays, home relay and its status, inboxes and datagram queues, ping and inactivity timers, backoff | dial, connected loop, set home relay, route a datagram, check connections, reap, close | status writes race home changes; an actor ends for inactivity while it is being made the home relay |
| Socket actor (`iroh/src/socket.rs`) | wanted update, reporter lock, last report, pending notice to QUIC | schedule_run, try_run, every branch of the actor's select | a done signal sent before the lock is free; wanted updates replace each other; a notice waits for a route; every `get()` of the interfaces takes a change away from `updated()` |
| Protocol router and the end of an endpoint (`iroh/src/protocol.rs`, `socket.rs`, `runtime.rs`) | tokens, task handles, accept futures, protocols | accept, Router::shutdown, Endpoint::close, abort, drop | any future may be dropped where it waits; two closers wait for one actor |
| Publishing an endpoint's data (`socket.rs`, `address_lookup.rs`, `address_lookup/pkarr.rs`) | direct addresses and user data, last published data, the publisher's watchable, its service | publish_my_addr, add, publish, clear; send, retry, republish | two threads publish; a lost answer does not mean a lost request |
| DNS server packet store (`iroh-dns-server/src/store/signed_packets.rs`) | packet and update-time tables, open transaction, inbox | upsert, get, snapshot, check expired, drop, restart | eviction works on old snapshots; answers precede the commit; two threads end each other |
| DNS server zone cache (`iroh-dns-server/src/store.rs`) | zone cache, DHT cache | put, resolve, insert | caching what was read before a publish |
| Net report (`iroh/src/net_report.rs`, `reportgen.rs`, `probes.rs`) | report history, last report, kept QAD connections, probes under way | full and incremental reports, their ends, timeouts and drops | hysteresis over a history that dropped reports leave holes in |
| Relay server tasks (`iroh-relay/src/server.rs`, `http_server.rs`, `quic.rs`, `protos/handshake.rs`) | supervisor, HTTP and QUIC tasks, tokens, handshake, access guard | accept, upgrade, handshake, register, shutdown, drop | tasks end each other; a detached task outlives the join set |
| Path watcher and holepunching (`remote_state.rs`, `path_watcher.rs`) | path list, broadcast of events, NAT traversal rounds | record_*, close, trigger | a slow reader loses events |
| Relay rate limiter (`streams.rs`), DNS resolver (`iroh-dns/src/dns.rs`) | token bucket; current resolver | consume; op, reset | refill arithmetic; a reset during a call |
| DNS front ends, endpoint API, transports, keys and encodings, command lines | none of their own that tasks share | | |

How they interact: the tunnel calls `Endpoint::connect`, which asks the socket actor, through the
remote map, to resolve the remote; the remote's actor looks up addresses, is given the connection and
selects its path. Datagrams that go by relay pass through the relay connection actors to a relay server,
whose registry forwards them to the peer's active connection. The socket actor asks the net report client which relay
answers best, hands that relay to the relay actor as the home relay, makes the direct addresses and publishes
them; the DNS server stores what was published and answers the lookups of others.

What makes each modelled component correct:

- registry: the newest connection of an endpoint is the active one; nobody connected is forgotten, nobody
  gone is kept; a client is told its place and the departure of peers; shutdown stops everyone;
- remote map: a message accepted for a remote is handled once, in order, across restarts; requests are
  answered; the map lists the running tasks;
- remote paths: a request does not wait when an address is known; pruning keeps what is useful; the selected
  path is one that works;
- tunnel: one dial at a time; a TCP connection is not given up while the server can be reached; limits
  hold; nothing waits for ever;
- packet store: the packet of a key only moves forward until it expires; a crash falls back to one commit as a
  whole; what has expired is found by the eviction and removed; dropping the store returns;
- relay connections: the home relay has an actor that knows it is the home relay, and its published status is true;
- socket actor: direct addresses catch up with the interfaces and the port mapping; QUIC is told of every network change;
- close: a router shutdown that returned left nothing running; a close that began ends;
- publishing and zone cache: what was published last is what the server has, and what it serves;
- net report: the preferred relay answered and is not much slower than another; a report without any answer is not trusted twice;
- relay server: access control hears of the end of every connection it admitted; a shutdown returns, and what it awaited is gone.

## The models

### RelayClients

`clients`, `sent_to`, the queues and `done` are the fields of `Inner` and `Client`. The place of a connection
in `register()` (`reg`) and in its actor's loop (`actor`) are program counters: `register()` is `ClientNew` (which spawns
the actor) and `RegisterInsert`; the actor's loop is `WritePacket`, `WriteMessage`, `PollMessages`, `SendPacketQueued`,
`RecordSentTo`, and so on; its end is `Unregister`, one `NotifyPeer` per peer and `ActorEnd`. Each is one
section under a lock of the code's `DashMap`. `send_packet` holds the destination's entry while it records
`sent_to`, which `Unlocked` models. `shutdown()` collects the keys, removes entry by entry, cancels and awaits.
Messages are data only as far as the client can tell them apart: status, peer gone, and the source of a packet.

`MultiThread` distinguishes the two tokio runtimes: on the current-thread one (the tests') a task is not interrupted
between awaits, on the multi-threaded one (the relay binary's) it is. All runs of this module are multi-threaded.

Two claims of the repository fail there, and a run of their own shows how: `ReceiversAreTold` (`relay_overtaken`) and `MetricCountsInactive` (`relay_metric`). What is left of them is
checked and proved for both runtimes: `ToldOrOvertaken` names the one way in which a receiver misses a departure, an `EndpointGone` written while packets of that endpoint are queued (`overtaken`), and
`MetricOffByLate` bounds the error by the connections that were inserted after their actor had unregistered (`late`).

A read, write or pong failure is one step, `StreamFails`; what is left of the ping timer is that it may end the actor.

### RemoteMap and OrderedInbox

`OrderedInbox` is what the map promises: per remote a queue, messages accepted at the end, handled from the
front, and nothing after the shutdown. `RemoteMap` has the socket actor (`sock`: its place in `Actor::run` and `send_to_actor`),
readers that hold a sender from the shared map (`reader`), and the incarnations of `RemoteStateActor` (`st`, `initial`, `inbox`).
An actor's end is three steps: `ActorBreak` (idle or cancelled; the loop's other two breaks, for a dropped sender of the direct addresses or of the inbox, need the socket to be gone, which is after the cancellation), `ActorClose` (`inbox.close()`) and `ActorDrain` (`recv_many`); the
socket actor then joins it and starts another with the leftover, in `JoinAndRestart` or `JoinOther` while a send waits,
or in `Cleanup`. On the multi-threaded runtime a send is two steps, taking a slot and writing, as in tokio's bounded channel.
What the actor does with a message is abstracted in `remote` to what decides idleness and answers: number of connections,
requests waiting, whether an address is known, a path selected, a lookup running.

`ImplementsInbox` states the refinement: the abstract queue of a remote is everything in flight to it, over all
incarnations (`Queues`).

### RemotePaths

The data that RemoteMap abstracts, for one remote: `status` of every address, which closed before which, the
paths each connection knows (`conn`) beside the ones noq has (`live`), `selected`, and `pending` requests.
`PathOpens`, `PathLost` and `ConnectionLost` are noq's; the actor's handlers follow at any later time. Each handler is whole: `AddConnection` registers path 0, or finds the connection dead, or alive without path 0; inserting
answers the waiting requests and prunes, a path event selects again and closes redundant paths. Round-trip times are replaced by a
choice among the paths of the best kind, the biased order of relay and direct paths is kept.

### TunnelSession

`pc` follows a task through `forward_tcp_over_iroh`; `cache` and `writer` are `active_conn` and its write lock, held
from `LockWrite` to `DialOk` or `DialFails`. `handler` and `stream` are the server's `ProxyHandler::accept` and its bridge tasks.
The whitelist's verdict is chosen once, in `TunnelInit`. Connections may be lost at any moment, and close when their last handle is
dropped. `FirstFrame` makes the stream known to the server, which QUIC does with the first bytes and not with `open_bi`. `OpenOk` takes no
account of stream credit: `open_bi` waits when the peer's limit of concurrent streams is used up, which two tasks do not reach.

### SignedPackets and PacketStore

`PacketStore` is what the store promises: one packet per key, replaced only by one that is as recent, gone only when expired, and a
durable copy that a crash falls back to. `SignedPackets` is the implementation. `packets` and `index` are the two tables as the open write transaction sees
them, `committed` is what the database file holds; outside of a batch they agree. `actor` is the loop of `Actor::run0`: `ActorSnapshot` and `BeginBatch` by
the kind of the first message, `HandleMessage` with one handler per kind, and a commit in `EndBatch` or `ActorCancelled`. The code pushes the
message that opens a batch back and receives it again; in the model it stays at the head of the inbox. `evict` and `todo` are the eviction thread: it asks for
a snapshot, picks the entries that are expired by then, and sends one `CheckExpired` each; in between the actor may upsert, evict and commit anything.
`EvictRange(unread)` covers the entries the code skips because they cannot be read. A request (`client`) is a message to send, a wait for the answer, or a hang-up
after which its message is still handled. `Drop` cancels and joins the actor, then the eviction thread. `Crash` keeps only the file, and
`Open` may find a clock that was set back. `ActorFails` and `EvictFails` are the database errors. `Message::Remove`, which only tests send, is left out, and the
order in which the index is scanned is open.

`ImplementsStore` states the refinement, with the committed packets as the durable copy.

### RelayTransport

`active`, `unjoined` and `boss` are `RelayActor` (its table of handles, its join set, and its place in the loop, in `set_home_relay`, in
`check_connections` or in a send that waits); `task`, `isHome` and `state` are the `ActiveRelayActor` of each relay, through backoff, dial, `run_connected`
and `run_sending`. `set_status` is two steps, `StatusGet` and `StatusSet`: it compares the home relay's URL and then sets the watchable, and `RelayActor` may set another home relay
in between. `overwritten` records that; nothing is claimed afterwards. An actor that stops while connected is "stopping" during `client_sink.close()`, which has no timeout, with its inbox and queue open and unread, until `SinkClosed`.
The 3 s that the close of the transport gives `close_all_active_relays` are one step: the actors have ended or are dropped. Datagrams are counted, the frames that carry them are not modelled.

### SocketActor

`want`, `reporter` and `done` are `DirectAddrUpdateState`: a run takes the reporter's lock, and its task reports, sends `run_done` and only then releases. Each branch of the
actor's `select!` is an action: `ReStunTick`, `PortmapChanged`, `HandleRelayMapChange`, `HandleDirectAddrRefresh`, `HandleNetReportReport`, `DirectAddrDone`,
`HandleNetworkChange`, `PollNotify`. The direct addresses are kept as `stale`, the sources that changed since they were made. A report equal to the last does not
wake the watcher (`differs`).

`unseen` is a state of the interfaces that the actor's watcher has not returned. `updated()` at `socket.rs:1598` returns it, and so does every `get()` on the same watcher: in `re_stun`, in the branch of a finished
report, in `has_usable_network`, in the notice to QUIC and where the direct addresses are collected (`GetInterfaces`). Whichever comes first clears `unseen`, and a change taken by another branch never reaches `handle_network_change`: `LinkChangeIsHandled` is refuted
by the run `socket_swallowed`. `quicBehind` observes whether QUIC has been notified since the last change. What holds all the same: with relays the direct addresses catch up, because each of these branches leads to a report or the next tick does
(`DirectAddrsCatchUp`; without relays the report is empty, may equal the last one, and then nothing is made anew), and a notice that waits for a default route is given in the end (`QuicIsTold`).

### EndpointClose

`call` is the place of each `Endpoint::close` and `Router::shutdown`, the accept loop being one more caller of `close`. A close cancels `at_close_start`, drains the connections, takes and awaits the
actor's handle, shuts the runtime down and sets `closed`; a second close that finds the token cancelled returns at once. `CloseDropped`, `ShutdownDropped`, `RouterDropped` and `EndpointDropped` drop a future or a handle where it is.
`handler` are the accept futures, which may panic; a panic ends the loop. A panic in a protocol's `shutdown` (`ProtocolPanics`) ends the loop's task without closing the endpoint, and a
`Router::shutdown` that waits for it returns the error (`ShutdownFails`).

### AddressPublish

`thread` are the two threads that may be in `publish_my_addr`, each reading addresses, user data and publishing at its own time. `service`, `underway`, `ok` and `stamp` are
`PublisherService`; a request may be stored although the client got an error, and may arrive after its retry. On the server, `PutUpsert` and `PutRemove` are the put handler, `query` the queries that read the store and
cache what they read. `crossed` says of what is cached that a newer packet was in the store when the query cached it; a removal from the cache clears it. A packet that does not parse is not cached. The packet store is one cell, as `PacketStore` specifies it; it may evict.

### NetReport

`gen` is the report under way, `qad` and `https` its probes, `kept` the QAD connections kept between reports, `history` the reports of the last minutes. `Plans`, `HaveEnoughReports`, `BestRecent`, `Sticks` and
`Preferred` are the functions of the code on them. `QadRelay` are the relays that are asked by QAD, the first `MAX_RELAYS` (5) or none without a QUIC client, and `HttpsProbes` says
whether that probe is enabled; the proofs are for any of both. Latencies may be zero (`rtt().unwrap_or_default()`). A report without latencies prefers no relay, but the socket then keeps its home relay (`socket.rs:1967`). A report may be dropped with its future at any point, and then leaves no report but leaves `nextFull` and the connections as they are.

### RelayServer

The tasks around the registry: `supervisor`, `httpTask`, `quicTask` and `sideTask` with their tokens, the connection tasks of the HTTP server's join set (`conn`), the task that an
upgrade detaches (`upgrade`; `NotEstablished` is every end of a connection without one), both sides of the handshake, and the guard that tells access control of a connection's end. The registry and client actors are reduced to `registry` and `relayed`; RelayClients
has their detail. Any of the tasks may panic: a panic in the task that the supervisor joins first is resumed there (`SupervisorPanics`), which drops everything that it holds. `Server::shutdown` waits for the metrics server (`MetricsStopped`) before the supervisor.

### Sums

The components above share no variables with each other, and TLC's time is bounded, so several are checked in one run over their sum: a variable (`part` or `half`) chosen in the
initial state says which of them moves, and the others stay in their initial states. The reachable states are the disjoint union of those of the parts, and each property speaks of its own part. `MCRelays` holds the
registry on the multi-threaded runtime and the relay transport; `MCParts` the net report, the publication, the remotes on the multi-threaded runtime and the paths; `MCRelay`, under fairness, the registry's shutdown and the relay server;
`MCTasks`, under fairness, the remote map on one thread and the tunnel; `MCEndpoint`, under fairness, the socket actor and the close. No action under fairness is enabled in the initial state of
its part, so that a resting part contradicts no fairness condition.

## Runs

| Run | Instance | Shows |
|---|---|---|
| `relays_safety` | multi-threaded, 3 connections of one endpoint (symmetric), or one with a peer it sends to; transport with 2 relays, 1 peer | stack order, nobody running lost, dead entries only by late insertion, statuses, receivers told or overtaken, no `sent_to` left behind, metric off by late insertions; home relay served and its status true |
| `relay_stops` | multi-threaded, 2 endpoints, 1 connection each; relay server with 1 connection; fair | shutdown of the registry returns and has stopped what it found; access guard, what a server's shutdown leaves, and that it returns |
| `relay_ended_race` | multi-threaded, 2 connections, fair | **violation**: an ended client stays registered |
| `relay_overtaken` | multi-threaded, a sender and a receiver | **violation**: `EndpointGone` overtakes a packet |
| `relay_metric` | multi-threaded, 2 connections of one endpoint | **violation**: the counters' difference is not the number of inactive clients |
| `tasks_order` | current thread, 1 remote, a reader, shutdown; tunnel with 2 tasks, 2 attempts each, 1 server permit; fair | nothing lost or reordered; refinement of `OrderedInbox`; requests answered, sends return, shutdown ends tasks; one dial at a time, giving up, everything ends and is served |
| `remote_lost` | multi-threaded | **violation**: an accepted message is lost |
| `paths_prune` | limits 2 and 1 | **violation**: the most recently closed address is pruned |
| `dns_store` | 1 key, 3 packets (2 of one time), 1 request, 1 restart, database errors, fair | packets are in the index; refinement of `PacketStore`; the expired are removed; `Drop` returns |
| `parts_safety` | 2 relays, 2 families, latencies 4 and 6, 2 past reports; 2 versions, 2 packets, 1 query; 2 remotes on the multi-threaded runtime; 2 connections, an address with two local paths, one more, a relay | preferred relay, blank reports; publication and zone cache; waiting requests have their lookup; selection, waiting, pruning |
| `endpoint_live` | 2 changes of the network; 2 callers, 2 incoming connections, 1 protocol; fair | direct addresses catch up, a waiting notice reaches QUIC, a router shutdown is complete, a close ends |
| `socket_swallowed` | 1 change of the network, fair | **violation**: QUIC is never told of a link change |

The largest, `relays_safety` and `parts_safety`, have about 930,000 and 900,000 distinct states.

**Bounds.** Channel capacities are 1, so that full queues and failed `try_send`s are common. A relay connection slot is reused after its
connection is forgotten, so registrations go on without end; the metric is followed down to `-MaxLag`. `StackOrPeer` restricts `relays_safety` to a stack of three by itself or a pair of
endpoints, since all four connections together are beyond TLC; that a second connection of the sender clears the list while the first records (the stack with a peer) is left to the proofs. Remote map messages are numbered up
to `MaxMessages` (2), enough for one to reach an actor that is stopping and one to follow it; there are at least as many
incarnations as messages can start. Path limits are 1 and 2 instead of 10 and 30. In the tunnel `MaxDials` is tasks times
attempts, which is the most that can happen, so that this bound never stops a task. The client's own semaphore has as many permits as
there are tasks in the run: contention for it needs a third task, which is beyond TLC here with two attempts each;
the proofs do not depend on it. In the packet store time ends at 3, which
lets every packet expire with `Eviction` 0; inbox 1 and batches of up to 2 make full queues and batches that mix upserts and evictions; keys never meet in a handler, so one
key is enough, while its packets of equal and later time give all outcomes of the comparison. `BeforeOverwrite` leaves out the states after a `set_status` has overwritten a newer home relay: the two properties of
the relay connections make no claim there. Two relays are enough for one to become the home relay while the other still holds it. The latencies 4 and 6 lie on the two sides of the two-thirds
rule. `MaxChanges` 2 lets a second change of the network arrive while the first is being reported; the inbox of messages is a set, as messages of one kind are handled alike. Two callers and the accept loop make three closers, two of whom find the work
of the first half done. `CHECK_DEADLOCK FALSE` is used where the messages, actors, changes or tasks of an instance run out.

**Fairness.** Runnable tasks run, which tokio's scheduler provides (weak fairness of each task's steps). `relay_stops` also uses strong fairness
for the three writers of a map entry: readers hold an entry's lock only inside one call, and the lock is granted. In `tasks_order`
address lookups end and timers fire; nothing is assumed of callers, connections or the network. The relay server's tasks run, and a client's actor that is ending completes its last flush: the code sets no
timeout on it, but what it flushes was written under the write timeout, and the flush is taken to end; clients need not do anything. In its tunnel
`Endpoint::connect` returns (QUIC's own timeouts) and bridges end (their TCP connection or the idle timeout ends them); the arrival of TCP connections and
their first bytes are not fair. In `dns_store` both threads run and timers fire; `select!` takes a branch that is ready again and again (strong fairness of `HandleMessage` and
`ActorCancelled`), tokio's channel serves waiting senders in order (strong fairness of `EvictAsk` and `EvictSend`), the index is not unreadable every time, and the clock
goes on. Requests need not begin, end or be sent. In `endpoint_live` and `socket_swallowed` the socket actor's branches are taken when they stay ready, the re-STUN timer fires while addresses are out of date, a report ends (it has its own timeouts), and among
infinitely many reports some differ from the one before (strong fairness of `Reported(TRUE)`): a watcher is silent about an equal report, and latencies are never equal for ever. A close that has begun
goes on while its future is polled, the socket's actor stops when told to, protocols return from `shutdown` or panic; nobody has to call `close` or `shutdown`.

## Findings

1. `relay_ended_race`: `Client::new` spawns the actor before `register()` inserts the client. If the stream ends at once, `unregister()` finds nothing,
   and the insertion that follows is never undone. `DeadEntriesAreLateHolds` proves that this race is the only source of
   such entries, and `ListedAreConnectedHolds` that the current-thread runtime does not have it.
2. `remote_lost`: after `inbox.close()` the actor takes `inbox.len()` messages. A sender with a slot may write after that; its `send` has
   returned `Ok` and the message is gone. `NothingLostHolds` proves that with atomic sends (the current-thread runtime) nothing is lost.
3. `paths_prune`: the comment says that the most recently closed addresses are kept; `split_off` keeps the others. `test_prune_keeps_most_recent_inactive` has 20 closed addresses, of which 10 are kept in both readings;
   `test_prune_mixed_must_and_can_prune` (`path_state.rs:443`) has 15 and asserts that 5 are left, as the code does it, while its comment speaks of removing 5.
4. `relay_overtaken`: an actor that has found its packet queue empty and has yet to look at its messages may be given a packet and then the `EndpointGone`; it writes the notification first and then the packet, and its client keeps a route
   to an endpoint that is gone, which `protos/common.rs:37` says the notification is to prevent. `ToldOrOvertakenHolds` proves that this is the only way.
5. `relay_metric`: an actor that ends before `register()` has inserted it counts a removed inactive client whenever another connection is active, so the difference of the counters that `metrics.rs:96` calls "the number of inactive clients at any
   time" may become negative. `MetricOffByLateHolds` proves the bound.
6. `socket_swallowed`: a link change that the periodic tick, a finished report, a port mapping or a poll gets from the watcher is never handled by `handle_network_change`, which its comment says "is triggered when the netmon actor detects a change"; QUIC and the remotes are not told.
   Without relays the direct addresses may stay as they were too.

Met on the way, and shown by no run of their own (paths under `iroh/src` unless they say otherwise):

- A second `Router::shutdown` returns before the first is done, and a shutdown next to a `close` of the application may return before the endpoint is closed. `ShutdownIsComplete` is stated for the
  call that waited for the loop, with that exception.
- `ShutdownState::closed` (`socket.rs:291`) is documented as set only when the actor is no longer running; `abort`, and a close after its 100 ms are over, set it when the actor has only been told to stop. `ClosedIsFinal` says what does hold.
- `Server::shutdown` (`iroh-relay/src/server.rs:876`) "returns once all server tasks have stopped"; when the QUIC server or a side task ends first, the supervisor drops the HTTP server's handle, which aborts it, and clients run on. Upgrades
  that register after the clients were collected run on as well. `GracefulStops` names both exceptions.
- `set_status` may overwrite a newer home relay (`socket/transports/relay/actor.rs:984`), and a query may cache a zone that a put has just replaced (`iroh-dns-server/src/store.rs:122`). The properties hold
  until then, and TLC reaches both.
- "If an update is scheduled while another one is running, remember that and start a new one when the current one has finished" (`socket.rs:703`): `run_done` is sent before the task releases the reporter, so `try_run` may find it locked, and the wanted update
  waits for the next tick or change. `DirectAddrsCatchUp` says that the addresses are right in the end, with that delay.
- When the eviction task of the packet store fails it cancels the token to shut down the actor (`iroh-dns-server/src/store/signed_packets.rs:430`), but the actor looks at the token only inside a batch, so an idle one serves on without
  evictions. `ExpiredRemoved` therefore excludes a cancelled store.

Hard to test as well, but without a property, since the data they turn on is abstracted: redundant IP paths closed against a selection made over all connections (`socket/remote_map/remote_state.rs:704`); `invalidate_connection` emptying
the cache whatever it holds by then, a bridge's task that writes only what the local program sends, and `try_join` dropping the other direction at an error (`iroh/examples/tunnel-send.rs:126`, `:266`, `:254`); a wanted minor update that replaces a major one
(`socket.rs:764`); two threads whose publications cross (`socket.rs:672`).

## Proofs

All proofs are invariance proofs: an inductive invariant holds initially and is preserved by every action, and implies the property.
They hold for all values of the constants that satisfy the `ASSUME`s of the modules (sizes positive, "no connection" is not a connection, and so on).

- **RelayClientsProofs.** `TypeCorrect` first. `RegistryInv` relates four pieces of state: the stack is in the order of the ghost `older`
  without repetition, what is listed has been inserted, what has been inserted and still runs is listed (unless shutdown took it), and a listed
  connection whose actor unregistered was inserted late. None of these is inductive alone: promoting a stacked connection keeps the order
  only because it is listed once. The current-thread result adds that there `late` never becomes true.
  On top of it, one invariant per property. `ShutdownInv` (`ShutdownStopsClients`): from the call of `shutdown` to its return, a registered connection that still runs is on its way to being awaited (`OnItsWay`): its
  endpoint is not visited yet, is a key that was found, or the connection is among the awaited. `Kept` (`SentToNotLeaked`): who records a packet runs, and who leaves last clears the list. `RoleInv` (`StatusMatchesRole`): the last status of the queue,
  or the one told, follows the role through every queueing and every read, and a connection that is not yet inserted has been sent nothing (`Quiet`). `DeliveryInv` (`ToldOrOvertaken`): whoever queues a packet goes on to record it
  or finds it recorded, whoever takes a list goes on to notify everyone on it, and a notification that is read while packets are queued is recorded as overtaking. `MetricInv` (`MetricOffByLate`): every step that moves the metric moves the places of the stacks by one, as finite sets,
  except that of a connection that is late, which stays late until it is forgotten (`LateStays`). None of these assumes a runtime.
- **RemoteMapProofs.** `MapInv` (`SendersAreTasks`): the map lists exactly the live tasks, because only the socket actor starts and joins them and a waiting
  send points at the listed one. `QueueInv` and `QueueStep` for `NothingLost` and `ImplementsInbox`: every step of the detailed specification leaves the
  abstract queues alone, appends an accepted message, takes the handled one from the front, or is the shutdown; restarting moves messages within a queue without changing it.
  Both theorems assume `~MultiThread`, and finding 2 shows why. `ResolveInv` (`WaitingIsLookedUp`): a request waits only at an actor that is running and without
  an address, and then a lookup runs.
- **RemotePathsProofs.** `PathInv` is the type invariant with the two invariants proved; `KeepsUseful` is an action property, by lemmas on what pruning may remove. `SelectedWorks` speaks of settled states only; `SelectionInv` says what holds between
  events: an open connection has a path, and the selected path is one that some connection lists, or a connection has been closed, or what the connections list is no longer live, so that there was nothing to select.
- **TunnelSessionProofs.** `TunnelInv` strengthens `GivesUpOnlyWhenDown` to a count: a task that is about to use the cache has met at most as many failures as
  there are faulty dials other than the cached one. The lock invariant makes sure that a dial finds the cache empty, so that its failure is a new one; the
  handle invariant, that a connection in a task's hand is not closed for want of handles.
- **SignedPacketsProofs.** `IndexCovers` is not inductive: `CheckExpired` deletes the entry it names without looking. The strengthening says that every `CheckExpired` in the inbox, and every entry
  the eviction thread has still to send, is older than the expiry time, which only grows while the process runs; so when the entry is that of the stored packet, the packet
  is expired and goes with it. What is not running holds no messages, so a restart with an earlier clock starts afresh. `ImplementsStoreHolds` goes through
  the actions: each one is a step of `PacketStore` or leaves its variables alone.
- **ShutdownProofs**, on RelayServer and EndpointClose. `GuardIsHeld` needs the places of a handshake in order: what has been admitted is where the guard is, the client's side is confirmed only by a frame that was sent after the answer was checked, and an actor
  exists only after registration. `GracefulStops` needs where a running client is known: in the registry, among those a shutdown awaits, or registered after the collection.
  `ShutdownIsComplete` needs the loop's own order (protocols down before its close, accept futures joined or aborted before its end), and `SomebodyCloses`: once the endpoint is closing and not closed, some call is in
  `close` or was dropped there. `ClosedIsFinal` needs what has happened at each place of a close.
- **PartsProofs**, on AddressPublish, RelayTransport, NetReport and the composition MCParts. `SuccessIsStored` needs that timestamps order all packets and tell them apart (`StampInv`), that the packet under way has the last timestamp and the data last seen (`UnderwayInv`), and that after a success the stored packet is that
  one, while nothing is on its way once it has been evicted (`SuccessInv`). `StaleOnlyIfCrossed` needs `InsertingInv`: a put that is still to empty the cache is not newer than what is stored, so the last of several to do so leaves the cache empty or right; and `ReadInv`: what a query has read is what is
  stored, or older than that and than all that is on its way to an emptied store.
  `TransportInv` (`HomeIsServed`, `HomeStatusIsTrue`): `HomeIsServed` speaks of the moments at which RelayActor is in its loop, the invariant of those in between as well. `PlacesInv`: whatever runs has a handle, a handle without a task is yet to be joined, and an ended actor leaves nothing behind;
  `HandleInv`: the home relay has a handle, and while the actors are being told, it is the relay they are told of; `BelievesInv`: whoever has been told takes itself for the home relay exactly if it is. What an actor believes is the last message about
  the home relay in its inbox, or else its own flag, so reading, sending and starting with an empty inbox are lemmas on the last message of a queue.
  `NetInv` (`PreferredIsGood`, `BlankIsChecked`): there is at most one last report with at most one preferred relay, the history has room for the report under way, and that report was planned from the last report that is still there (`AskedInv`).
  `PreferredIsGood` then follows from the arithmetic of the hysteresis, with the least recent latency taken of a set that is not empty. `PartsTypeCorrect` is the sum: every part keeps its invariant whether it moves or another does.
- **OrderFacts.** A set of naturals that is not empty has a least element, a set of indices a last one: from the well-foundedness of `<`, for the lemmas on queues and latencies.

Every invariant and every action property of the passing runs has its theorem. Model-checked only: liveness (`ShutdownReturns`, `ResolveAnswered`, `SendReturns`, `ShutdownEndsTasks`, `ServerStops`, `TasksEnd`, `StreamsServed`, `ExpiredRemoved`, `DropReturns`, `DirectAddrsCatchUp`, `QuicIsTold`, `CloseFinishes`; and the violations), which needs
fairness and `ENABLED`, out of the prover's reach. Proved only, as its part of a run is taken by deeper properties: `ListedAreConnected`, `SendersAreTasks`, `ClosedIsFinal`.

## Not modelled

Cryptography, encodings, TLS, HTTP, the QUIC implementation noq (its events appear as external actions) and packet I/O. Time is replaced by choice: a timer may fire
whenever it is armed. Round-trip times, NAT traversal rounds and `pending_open_paths` are left out of RemotePaths, the frames of the bridge out of TunnelSession, the bytes of
rows and the `TXT` content of packets out of SignedPackets, public addresses and mapping variation out of NetReport, address filters and resolving out of AddressPublish. Of the components in the table,
the path watcher with holepunching, the rate limiter, the DNS resolver, the front ends, the endpoint API, the transports, keys and encodings, and the command lines have no module. The definitions map about an
eighth of the implementation's lines: the greater part of the rest is builders, wrappers, data types, encodings, error enums and tests inside the source files, which keep no state that tasks share.

## Plan

1. done: RelayClients, RemoteMap with OrderedInbox, RemotePaths, TunnelSession, SignedPackets with PacketStore, each with its runs and proofs.
2. done: RelayTransport, SocketActor, EndpointClose, AddressPublish with the zone cache, NetReport, RelayServer; the sums that check them; proofs for EndpointClose, AddressPublish, RelayServer, RelayTransport and NetReport.
3. Holepunching and path watcher, refining RemotePaths; composition of RemoteMap and RemotePaths (RemoteMap's `remote` as the abstraction of the path state), and of RelayServer with RelayClients.
4. Bridge frames of the tunnel; the token bucket as a pure algorithm against a reference definition.
5. Proofs: done for every invariant and action property that a run checks. SocketActor has none to prove: a wanted update may be left behind with no run under way and no `run_done` to come (the signal is sent before the lock is free), and a
   report that times out changes nothing, so that only the next tick helps, which is a matter of liveness. Next: the refinements of item 3, and the modules of item 4 as they come.
