--------------------------- MODULE TunnelSession ----------------------------
(***************************************************************************)
(* The port forwarding tunnel (iroh/examples/tunnel-send.rs and            *)
(* tunnel-listen.rs).  On the client every accepted TCP connection is a    *)
(* task that takes a permit, gets the one cached connection to the server  *)
(* or dials it under the write lock, opens a stream and bridges; a failed  *)
(* stream empties the cache, and the task tries again.  On the server one  *)
(* handler per connection checks the whitelist, accepts streams, waits for *)
(* a permit for each, and hands it to a task that connects to the local    *)
(* service and bridges.                                                    *)
(*                                                                         *)
(* What the bridges carry is not modelled; they may end at any time.       *)
(***************************************************************************)
EXTENDS Integers, FiniteSets

CONSTANTS
  Task,        \* TCP connections the client accepts
  Nobody,        \* no connection, no task
  MaxRetries,  \* MAX_RETRIES, 10 in the code
  ClientLimit, \* permits of the client's semaphore, 2000 in the code
  ServerLimit, \* permits of the server's semaphore, 2000 in the code
  MaxDials     \* bound: calls of Endpoint::connect

ASSUME TunnelAssumption ==
  /\ MaxRetries \in Nat \ {0} /\ ClientLimit \in Nat \ {0} /\ ServerLimit \in Nat \ {0}
  /\ MaxDials \in Nat
  /\ Nobody \notin Task /\ Nobody \notin 1..MaxDials

\* Dials are numbered in the order they end in; a connection is known by its dial.
Conn == 1..MaxDials

VARIABLES
  pc,       \* where a task is in forward_tcp_over_iroh
  retries,  \* its retries
  used,     \* the connection it got, and has its stream on
  cache,    \* TunnelSession::active_conn
  writer,   \* the task that holds the write lock of active_conn across the dial
  link,     \* external: what became of a dial
  allowed,  \* the client is on the server's whitelist, or the whitelist is empty
  handler,  \* server: ProxyHandler::accept for a connection
  stream    \* server: the stream of a task

client == <<pc, retries, used, cache, writer>>
server == <<handler, stream>>
tunnelVars == <<pc, retries, used, cache, writer, link, allowed, handler, stream>>

TunnelInit ==
  /\ pc = [t \in Task |-> "idle"]
  /\ retries = [t \in Task |-> 0]
  /\ used = [t \in Task |-> Nobody]
  /\ cache = Nobody
  /\ writer = Nobody
  /\ link = [c \in Conn |-> "new"]
  /\ allowed \in BOOLEAN
  /\ handler = [c \in Conn |-> "none"]
  /\ stream = [t \in Task |-> "none"]

(***************************************************************************)
(* Client.                                                                 *)
(***************************************************************************)
\* main: a TCP connection is accepted and its task spawned.
AcceptTcp(t) ==
  /\ pc[t] = "idle"
  /\ pc' = [pc EXCEPT ![t] = "permit"]
  /\ UNCHANGED <<retries, used, cache, writer, link, allowed, server>>

\* The tasks that hold a permit: _permit lives as long as the task.
Holding == {t \in Task : pc[t] \in {"get", "write", "dial", "open", "invalidate", "backoff", "bridge"}}

\* limiter.acquire_owned; the TCP connection may be broken by then (set_nodelay fails).
AcquirePermit(t) ==
  /\ pc[t] = "permit"
  /\ Cardinality(Holding) < ClientLimit
  /\ \/ /\ pc' = [pc EXCEPT ![t] = "get"]
        /\ retries' = [retries EXCEPT ![t] = 1]
     \/ /\ pc' = [pc EXCEPT ![t] = "ended"]
        /\ UNCHANGED retries
  /\ UNCHANGED <<used, cache, writer, link, allowed, server>>

\* The task goes on with the cached connection.
TakeCached(t) ==
  /\ cache # Nobody
  /\ used' = [used EXCEPT ![t] = cache]
  /\ pc' = [pc EXCEPT ![t] = "open"]
  /\ UNCHANGED writer

\* get_connection, under the read lock, which is released before the write lock is taken.
ReadCache(t) ==
  /\ pc[t] = "get"
  /\ writer = Nobody
  /\ \/ TakeCached(t)
     \/ cache = Nobody /\ pc' = [pc EXCEPT ![t] = "write"] /\ UNCHANGED <<used, writer>>
  /\ UNCHANGED <<retries, cache, link, allowed, server>>

\* Variant: the read guard is kept while the write lock is awaited.
LockWriteReading(t) ==
  /\ pc[t] = "write"
  /\ writer = Nobody
  /\ \A u \in Task : pc[u] # "write"
  /\ writer' = t /\ pc' = [pc EXCEPT ![t] = "dial"] /\ UNCHANGED used
  /\ UNCHANGED <<retries, cache, link, allowed, server>>

\* Variant: the cache is not looked at again under the write lock.
LockWriteUnchecked(t) ==
  /\ pc[t] = "write"
  /\ writer = Nobody
  /\ writer' = t /\ pc' = [pc EXCEPT ![t] = "dial"] /\ UNCHANGED used
  /\ UNCHANGED <<retries, cache, link, allowed, server>>

\* get_connection, under the write lock: another task may have dialled meanwhile.
LockWrite(t) ==
  /\ pc[t] = "write"
  /\ writer = Nobody
  /\ \/ TakeCached(t)
     \/ cache = Nobody /\ writer' = t /\ pc' = [pc EXCEPT ![t] = "dial"] /\ UNCHANGED used
  /\ UNCHANGED <<retries, cache, link, allowed, server>>

NextDial(c) == link[c] = "new" /\ \A d \in Conn : d < c => link[d] # "new"

\* endpoint.connect succeeds; the connection is cached and the lock released.
DialOk(t, c) ==
  /\ pc[t] = "dial"
  /\ NextDial(c)
  /\ link' = [link EXCEPT ![c] = "up"]
  /\ cache' = c
  /\ used' = [used EXCEPT ![t] = c]
  /\ writer' = Nobody
  /\ pc' = [pc EXCEPT ![t] = "open"]
  /\ UNCHANGED <<retries, allowed, server>>

\* ... or fails: the task gives up or waits, with the lock released.
DialFails(t, c) ==
  /\ pc[t] = "dial"
  /\ NextDial(c)
  /\ link' = [link EXCEPT ![c] = "refused"]
  /\ writer' = Nobody
  /\ pc' = [pc EXCEPT ![t] = IF retries[t] >= MaxRetries THEN "failed" ELSE "backoff"]
  /\ UNCHANGED <<retries, used, cache, allowed, server>>

\* conn.open_bi
OpenOk(t) ==
  /\ pc[t] = "open"
  /\ link[used[t]] = "up"
  /\ pc' = [pc EXCEPT ![t] = "bridge"]
  /\ stream' = [stream EXCEPT ![t] = "opened"]
  /\ UNCHANGED <<retries, used, cache, writer, link, allowed, handler>>

\* Variant: the cache is kept when a stream cannot be opened.
OpenFailsQuietly(t) ==
  /\ pc[t] = "open"
  /\ link[used[t]] # "up"
  /\ pc' = [pc EXCEPT ![t] = IF retries[t] >= MaxRetries THEN "failed" ELSE "backoff"]
  /\ UNCHANGED <<retries, used, cache, writer, link, allowed, server>>

OpenFails(t) ==
  /\ pc[t] = "open"
  /\ link[used[t]] # "up"
  /\ pc' = [pc EXCEPT ![t] = IF retries[t] >= MaxRetries THEN "failed" ELSE "invalidate"]
  /\ UNCHANGED <<retries, used, cache, writer, link, allowed, server>>

\* invalidate_connection: whatever is cached by now, under the write lock.
Invalidate(t) ==
  /\ pc[t] = "invalidate"
  /\ writer = Nobody
  /\ cache' = Nobody
  /\ pc' = [pc EXCEPT ![t] = "backoff"]
  /\ UNCHANGED <<retries, used, writer, link, allowed, server>>

\* The delay is over; the loop starts again.
Backoff(t) ==
  /\ pc[t] = "backoff"
  /\ pc' = [pc EXCEPT ![t] = "get"]
  /\ retries' = [retries EXCEPT ![t] = @ + 1]
  /\ UNCHANGED <<used, cache, writer, link, allowed, server>>

\* compress_and_forward writes its first frame.  Only then does the server learn of the stream;
\* the local program may wait for the service to speak first.
FirstFrame(t) ==
  /\ pc[t] = "bridge"
  /\ stream[t] = "opened"
  /\ link[used[t]] = "up"
  /\ stream' = [stream EXCEPT ![t] = "sent"]
  /\ UNCHANGED <<pc, retries, used, cache, writer, link, allowed, handler>>

\* bridge_compressed returns, and the task with it; the stream is finished if it was not.
BridgeEnds(t) ==
  /\ pc[t] = "bridge"
  /\ pc' = [pc EXCEPT ![t] = "ended"]
  /\ stream' = IF stream[t] = "opened" /\ link[used[t]] = "up"
               THEN [stream EXCEPT ![t] = "sent"] ELSE stream
  /\ UNCHANGED <<retries, used, cache, writer, link, allowed, handler>>

ClientStep(t) ==
  \/ AcquirePermit(t) \/ ReadCache(t) \/ LockWrite(t)
  \/ \E c \in Conn : DialOk(t, c) \/ DialFails(t, c)
  \/ OpenOk(t) \/ OpenFails(t) \/ Invalidate(t) \/ Backoff(t) \/ BridgeEnds(t)

(***************************************************************************)
(* Server.                                                                 *)
(***************************************************************************)
\* ProxyHandler::accept up to its loop: the whitelist.
HandleConnection(c) ==
  /\ handler[c] = "none"
  /\ link[c] = "up"
  /\ \/ /\ allowed
        /\ handler' = [handler EXCEPT ![c] = "accept"]
        /\ UNCHANGED link
     \/ /\ ~ allowed
        /\ handler' = [handler EXCEPT ![c] = "gone"]
        /\ link' = [link EXCEPT ![c] = "rejected"]
  /\ UNCHANGED <<client, allowed, stream>>

\* accept_bi: the handler then waits for a permit for this stream.
AcceptBi(t) ==
  /\ stream[t] = "sent"
  /\ handler[used[t]] = "accept"
  /\ handler' = [handler EXCEPT ![used[t]] = "permit"]
  /\ stream' = [stream EXCEPT ![t] = "accepted"]
  /\ UNCHANGED <<client, link, allowed>>

\* Variant: the handler returns after a stream.
SpawnAndReturn(t) ==
  /\ stream[t] = "accepted"
  /\ Cardinality({u \in Task : stream[u] = "local"}) < ServerLimit
  /\ handler' = [handler EXCEPT ![used[t]] = "gone"]
  /\ stream' = [stream EXCEPT ![t] = "local"]
  /\ UNCHANGED <<client, link, allowed>>

\* concurrency_limiter.acquire_owned, and the stream's task is spawned with the permit.
SpawnBridge(t) ==
  /\ stream[t] = "accepted"
  /\ Cardinality({u \in Task : stream[u] = "local"}) < ServerLimit
  /\ handler' = [handler EXCEPT ![used[t]] = "accept"]
  /\ stream' = [stream EXCEPT ![t] = "local"]
  /\ UNCHANGED <<client, link, allowed>>

\* bridge_streams_to_local returns: the bridge is over, or MAX_LOCAL_RETRIES attempts to
\* reach the local service failed; the permit was held all the time.
BridgeToLocal(t) ==
  /\ stream[t] = "local"
  /\ stream' = [stream EXCEPT ![t] = "over"]
  /\ UNCHANGED <<client, link, allowed, handler>>

\* accept_bi fails, which ends the handler.
HandlerEnds(c) ==
  /\ handler[c] = "accept"
  /\ link[c] # "up"
  /\ handler' = [handler EXCEPT ![c] = "gone"]
  /\ UNCHANGED <<client, link, allowed, stream>>

ServerStep(t) == AcceptBi(t) \/ SpawnBridge(t) \/ BridgeToLocal(t)

(***************************************************************************)
(* External: the connections of iroh.                                      *)
(***************************************************************************)
InUse(c) == cache = c \/ \E t \in Task : used[t] = c /\ pc[t] \in {"open", "invalidate", "bridge"}

\* An idle timeout, the server gone, an error.
LinkLost(c) ==
  /\ link[c] = "up"
  /\ link' = [link EXCEPT ![c] = "lost"]
  /\ UNCHANGED <<client, allowed, server>>

\* The last handle of a connection is dropped, which closes it.
LinkDropped(c) ==
  /\ link[c] = "up"
  /\ ~ InUse(c)
  /\ link' = [link EXCEPT ![c] = "dropped"]
  /\ UNCHANGED <<client, allowed, server>>

LinkStep == \E c \in Conn : LinkLost(c) \/ LinkDropped(c)

TunnelNext ==
  \/ \E t \in Task : AcceptTcp(t) \/ FirstFrame(t) \/ ClientStep(t) \/ ServerStep(t)
  \/ \E c \in Conn : HandleConnection(c) \/ HandlerEnds(c)
  \/ LinkStep

TunnelSpec == TunnelInit /\ [][TunnelNext]_tunnelVars

\* Every task that can go on goes on.  Weak fairness is enough although locks and permits
\* come and go: a task takes them a bounded number of times, so that whoever waits finds them
\* free for good in the end.  Endpoint::connect returns, and bridges end.
TunnelFairness ==
  /\ \A t \in Task : WF_tunnelVars(ClientStep(t)) /\ WF_tunnelVars(ServerStep(t))
  /\ \A c \in Conn : WF_tunnelVars(HandleConnection(c))

FairTunnelSpec == TunnelSpec /\ TunnelFairness

(***************************************************************************)
(* Properties.                                                             *)
(***************************************************************************)
\* Types of the variables.
TunnelTypeOK ==
  /\ pc \in [Task -> {"idle", "permit", "get", "write", "dial", "open", "invalidate", "backoff",
                      "bridge", "ended", "failed"}]
  /\ retries \in [Task -> 0..MaxRetries]
  /\ used \in [Task -> Conn \cup {Nobody}]
  /\ cache \in Conn \cup {Nobody}
  /\ writer \in Task \cup {Nobody}
  /\ link \in [Conn -> {"new", "up", "refused", "rejected", "lost", "dropped"}]
  /\ allowed \in BOOLEAN
  /\ handler \in [Conn -> {"none", "accept", "permit", "gone"}]
  /\ stream \in [Task -> {"none", "opened", "sent", "accepted", "local", "over"}]

\* The dials that did not bring a connection, or one that did not last.
Faulty == {c \in Conn : link[c] \in {"refused", "rejected", "lost"}}

\* A TCP connection is given up only after MAX_RETRIES different dials have failed, however
\* the tasks share, lose and invalidate connections: no task meets the same dead connection
\* twice, and none is failed by a connection that another task's invalidate_connection took
\* out of the cache.
GivesUpOnlyWhenDown ==
  \A t \in Task : pc[t] = "failed" => Cardinality(Faulty) >= MaxRetries

\* Whoever dials holds the write lock, alone, and nothing is cached then: two tasks never
\* dial at once, and a dial never replaces a cached connection.
DialsAlone ==
  \A t \in Task : pc[t] = "dial" <=> writer = t /\ cache = Nobody

\* Every accepted TCP connection ends: the lock held across the dial, the permits and the
\* retries never leave a task waiting for ever.
TasksEnd == \A t \in Task : pc[t] = "permit" ~> pc[t] \in {"ended", "failed"}

\* A stream the server knows of gets its bridge to the local service unless its connection went down:
\* the handler that waits for a permit goes on accepting.
StreamsServed ==
  \A t \in Task :
    stream[t] = "sent" ~>
      stream[t] \in {"local", "over"} \/ (used[t] \in Conn /\ link[used[t]] # "up")
=============================================================================
