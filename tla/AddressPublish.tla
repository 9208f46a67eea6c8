--------------------------- MODULE AddressPublish ---------------------------
(***************************************************************************)
(* How an endpoint's data gets from the socket to a DNS answer:            *)
(* publish_my_addr and set_user_data_for_address_lookup (socket.rs),       *)
(* AddressLookupServices (address_lookup.rs), the PkarrPublisher and its   *)
(* PublisherService (address_lookup/pkarr.rs), and on the server the put   *)
(* handler and ZoneStore with its ZoneCache (store.rs).                    *)
(*                                                                         *)
(* One endpoint and its key.  Data is a pair of versions; the packet store *)
(* is one cell, as PacketStore promises.  Optional values are sets of at   *)
(* most one element.                                                       *)
(***************************************************************************)
EXTENDS Naturals, FiniteSets

CONSTANTS
  MaxVersion, \* bound: changes of the addresses, and of the user data
  MaxStamp,   \* bound: packets that are signed
  Resolver,   \* DNS queries being served at the same time
  Dht         \* mainline fallback is configured

ASSUME PublishAssumption == MaxVersion \in Nat /\ MaxStamp \in Nat /\ Dht \in BOOLEAN

VARIABLES
  current,   \* the endpoint's addresses and user data
  thread,    \* calls of publish_my_addr, on the socket's actor and on the application's thread
  lastData,  \* AddressLookupServices::last_data
  adding,    \* add_boxed of the publisher: "no", "published" or "added"; "cleared" after clear
  watch,     \* PkarrPublisher::watchable
  fresh,     \* PublisherService has seen its value
  service,   \* PublisherService: "get", "sending", "waiting" or "ended"
  underway,  \* the packet it is sending
  ok,        \* its last attempt succeeded
  stamp,     \* timestamps used so far
  requests,  \* packets on their way to the server
  stored,    \* the server's packet for this key
  inserting, \* packets stored by put whose key is still to be removed from the cache
  cache,     \* ZoneCache::cache
  dhtCache,  \* ZoneCache::dht_cache, the stamp of the packet
  query,     \* the queries
  crossed    \* history: what is cached was read before a newer packet was stored, and cached after that

endpoint == <<current, thread, lastData, adding, watch>>
publisher == <<fresh, service, underway, ok, stamp>>
dnsServer == <<requests, stored, inserting, cache, dhtCache, query, crossed>>
publishVars == <<endpoint, publisher, dnsServer>>

Thread == {"actor", "app"}
IdleThread == [pc |-> "idle", addrs |-> 0, user |-> 0]
IdleQuery == [pc |-> "idle", packet |-> {}]

PublishInit ==
  /\ current = [addrs |-> 0, user |-> 0]
  /\ thread = [t \in Thread |-> IdleThread]
  /\ lastData = {} /\ adding = "no" /\ watch = {}
  /\ fresh = TRUE /\ service = "get" /\ underway = {} /\ ok = FALSE /\ stamp = 0
  /\ requests = {} /\ stored = {} /\ inserting = {} /\ cache = {} /\ dhtCache = {}
  /\ query = [r \in Resolver |-> IdleQuery] /\ crossed = FALSE

(***************************************************************************)
(* The endpoint.                                                           *)
(***************************************************************************)
\* The direct addresses or the home relay change, or the user data does; the thread goes on to publish.
ChangeData(t) ==
  /\ thread[t].pc = "idle"
  /\ \/ t = "actor" /\ current.addrs < MaxVersion /\ current' = [current EXCEPT !.addrs = @ + 1]
     \/ t = "app" /\ current.user < MaxVersion /\ current' = [current EXCEPT !.user = @ + 1]
  /\ thread' = [thread EXCEPT ![t].pc = "addrs"]
  /\ UNCHANGED <<lastData, adding, watch, publisher, dnsServer>>

\* publish_my_addr reads the home relay and the addresses, then the user data.
ReadAddrs(t) ==
  /\ thread[t].pc = "addrs"
  /\ thread' = [thread EXCEPT ![t].pc = "user", ![t].addrs = current.addrs]
  /\ UNCHANGED <<current, lastData, adding, watch, publisher, dnsServer>>

\* Without any data nothing is published.
ReadUser(t) ==
  /\ thread[t].pc = "user"
  /\ thread' = [thread EXCEPT ![t] = IF thread[t].addrs = 0 /\ current.user = 0 THEN IdleThread
                                     ELSE [@ EXCEPT !.pc = "publish", !.user = current.user]]
  /\ UNCHANGED <<current, lastData, adding, watch, publisher, dnsServer>>

\* Watchable::set.
SetWatch(data) ==
  /\ watch' = {data}
  /\ fresh' = (fresh /\ watch = {data})

\* AddressLookupServices::publish: first the services there are, then last_data.
PublishData(t) ==
  /\ thread[t].pc = "publish"
  /\ IF adding = "added" THEN SetWatch([addrs |-> thread[t].addrs, user |-> thread[t].user])
     ELSE UNCHANGED <<watch, fresh>>
  /\ thread' = [thread EXCEPT ![t].pc = "last"]
  /\ UNCHANGED <<current, lastData, adding, service, underway, ok, stamp, dnsServer>>

KeepLast(t) ==
  /\ thread[t].pc = "last"
  /\ lastData' = {[addrs |-> thread[t].addrs, user |-> thread[t].user]}
  /\ thread' = [thread EXCEPT ![t] = IdleThread]
  /\ UNCHANGED <<current, adding, watch, publisher, dnsServer>>

\* add_boxed: the last data is published on the new service, which is then added.
AddService ==
  /\ adding = "no"
  /\ adding' = "published"
  /\ IF lastData = {} THEN UNCHANGED <<watch, fresh>> ELSE \E data \in lastData : SetWatch(data)
  /\ UNCHANGED <<current, thread, lastData, service, underway, ok, stamp, dnsServer>>

PushService ==
  /\ adding = "published"
  /\ adding' = "added"
  /\ UNCHANGED <<current, thread, lastData, watch, publisher, dnsServer>>

\* clear, when the endpoint closes: the service is dropped, and its task aborted.
ClearServices ==
  /\ adding = "added"
  /\ adding' = "cleared" /\ service' = "ended" /\ underway' = {}
  /\ UNCHANGED <<current, thread, lastData, watch, fresh, ok, stamp, dnsServer>>

(***************************************************************************)
(* PublisherService.                                                       *)
(***************************************************************************)
\* The top of the loop: what there is is signed and sent.
SendCurrent ==
  /\ service = "get"
  /\ IF watch = {} THEN service' = "waiting" /\ UNCHANGED <<underway, stamp, requests>>
     ELSE /\ stamp < MaxStamp
          /\ stamp' = stamp + 1 /\ service' = "sending"
          /\ underway' = {[stamp |-> stamp + 1, data |-> data] : data \in watch}
          /\ requests' = requests \cup underway'
  /\ fresh' = TRUE
  /\ UNCHANGED <<endpoint, ok, stored, inserting, cache, dhtCache, query, crossed>>

\* The request fails for the client, whether it reaches the server or not.
SendFails ==
  /\ service = "sending"
  /\ service' = "waiting" /\ ok' = FALSE /\ underway' = {}
  /\ requests' \in {requests, requests \ underway}
  /\ UNCHANGED <<endpoint, fresh, stamp, stored, inserting, cache, dhtCache, query, crossed>>

\* The data changed, or the time to retry or to republish has come.
WakeUp ==
  /\ service = "waiting"
  /\ ~fresh \/ watch # {}
  /\ service' = "get"
  /\ UNCHANGED <<endpoint, fresh, underway, ok, stamp, dnsServer>>

(***************************************************************************)
(* The server.                                                             *)
(***************************************************************************)
Newer(p, q) == p.stamp > q.stamp
\* Mutant for SuccessIsStored: the timestamps are not compared.
IsNewestAlways(p) == TRUE

IsNewest(p) == \A q \in stored : Newer(p, q)

\* put and insert: the upsert; a packet that is not the newest ends there.
PutUpsert(p) ==
  /\ p \in requests
  /\ requests' = requests \ {p}
  /\ IF IsNewest(p)
       THEN /\ stored' = {p} /\ inserting' = inserting \cup {p}
            /\ UNCHANGED <<service, underway, ok>>
       ELSE /\ UNCHANGED <<stored, inserting>>
            /\ IF p \in underway THEN service' = "waiting" /\ ok' = TRUE /\ underway' = {}
               ELSE UNCHANGED <<service, underway, ok>>
  /\ UNCHANGED <<endpoint, fresh, stamp, cache, dhtCache, query, crossed>>

\* Mutant for StaleOnlyIfCrossed: the zone stays in the cache.
PutKeepsCache(p) ==
  /\ p \in inserting
  /\ inserting' = inserting \ {p}
  /\ IF p \in underway THEN service' = "waiting" /\ ok' = TRUE /\ underway' = {}
     ELSE UNCHANGED <<service, underway, ok>>
  /\ UNCHANGED <<endpoint, fresh, stamp, requests, stored, cache, dhtCache, query, crossed>>

\* insert: the removal from both caches, and the answer to the client.
PutRemove(p) ==
  /\ p \in inserting
  /\ inserting' = inserting \ {p} /\ cache' = {} /\ dhtCache' = {} /\ crossed' = FALSE
  /\ IF p \in underway THEN service' = "waiting" /\ ok' = TRUE /\ underway' = {}
     ELSE UNCHANGED <<service, underway, ok>>
  /\ UNCHANGED <<endpoint, fresh, stamp, requests, stored, query>>

Ask(r, pc, packet) == query' = [query EXCEPT ![r] = [pc |-> pc, packet |-> packet]]

\* resolve: no zone in the caches, or one that lacks the record; a zone that has it answers and nothing changes.
Resolve(r) ==
  /\ query[r].pc = "idle"
  /\ Ask(r, "store", {})
  /\ UNCHANGED <<endpoint, publisher, requests, stored, inserting, cache, dhtCache, crossed>>

\* resolve: the store's answer; without one the DHT is asked, if there is one.
ReadStore(r) ==
  /\ query[r].pc = "store"
  /\ IF stored # {} THEN Ask(r, "cache", stored)
     ELSE IF Dht THEN Ask(r, "dht", {})
     ELSE query' = [query EXCEPT ![r] = IdleQuery]
  /\ UNCHANGED <<endpoint, publisher, requests, stored, inserting, cache, dhtCache, crossed>>

\* insert_and_resolve: a newer zone in the cache is kept, and a packet that does not parse is not cached.
CacheZone(r) ==
  /\ query[r].pc = "cache"
  /\ \/ /\ \A p \in query[r].packet, q \in cache : ~Newer(q, p)
        /\ cache' = query[r].packet
        /\ crossed' = \E p \in query[r].packet, q \in stored : Newer(q, p)
     \/ UNCHANGED <<cache, crossed>>
  /\ query' = [query EXCEPT ![r] = IdleQuery]
  /\ UNCHANGED <<endpoint, publisher, requests, stored, inserting, dhtCache>>

\* insert_and_resolve_dht: whatever the DHT has, older than what this server was given.
CacheDht(r) ==
  /\ query[r].pc = "dht"
  /\ dhtCache' \in {dhtCache, {0}}
  /\ query' = [query EXCEPT ![r] = IdleQuery]
  /\ UNCHANGED <<endpoint, publisher, requests, stored, inserting, cache, crossed>>

\* DHT_CACHE_TTL is over, the cache is full, or the packet store evicts the packet, days after any request.
Forget ==
  /\ \/ dhtCache # {} /\ dhtCache' = {} /\ UNCHANGED <<cache, stored, crossed>>
     \/ cache # {} /\ cache' = {} /\ crossed' = FALSE /\ UNCHANGED <<dhtCache, stored>>
     \/ stored # {} /\ requests = {} /\ inserting = {} /\ stored' = {} /\ UNCHANGED <<cache, dhtCache, crossed>>
  /\ UNCHANGED <<endpoint, publisher, requests, inserting, query>>

PublishNext ==
  \/ AddService \/ PushService \/ ClearServices \/ SendCurrent \/ SendFails \/ WakeUp \/ Forget
  \/ \E t \in Thread : ChangeData(t) \/ ReadAddrs(t) \/ ReadUser(t) \/ PublishData(t) \/ KeepLast(t)
  \/ \E p \in requests : PutUpsert(p)
  \/ \E p \in inserting : PutRemove(p)
  \/ \E r \in Resolver : Resolve(r) \/ ReadStore(r) \/ CacheZone(r) \/ CacheDht(r)

PublishSpec == PublishInit /\ [][PublishNext]_publishVars

Data == [addrs : 0..MaxVersion, user : 0..MaxVersion]
SignedPacket == [stamp : 1..MaxStamp, data : Data]
ThreadState == [pc : {"idle", "addrs", "user", "publish", "last"}, addrs : 0..MaxVersion, user : 0..MaxVersion]
QueryState == [pc : {"idle", "store", "cache", "dht"}, packet : SUBSET SignedPacket]
AtMostOne(s) == \A x, y \in s : x = y

PublishTypeOK ==
  /\ current \in Data /\ crossed \in BOOLEAN
  /\ thread \in [Thread -> ThreadState]
  /\ lastData \subseteq Data /\ watch \subseteq Data /\ AtMostOne(lastData) /\ AtMostOne(watch)
  /\ adding \in {"no", "published", "added", "cleared"}
  /\ fresh \in BOOLEAN /\ service \in {"get", "sending", "waiting", "ended"} /\ ok \in BOOLEAN
  /\ stamp \in 0..MaxStamp
  /\ underway \subseteq SignedPacket /\ stored \subseteq SignedPacket /\ cache \subseteq SignedPacket
  /\ AtMostOne(underway) /\ AtMostOne(stored) /\ AtMostOne(cache)
  /\ requests \subseteq SignedPacket /\ inserting \subseteq SignedPacket /\ dhtCache \subseteq {0}
  /\ query \in [Resolver -> QueryState]

(***************************************************************************)
(* When the service waits after a success with nothing new to send, the    *)
(* server has stored that data, and no older request still on its way can  *)
(* replace it: retries, lost answers and late requests are ordered by the  *)
(* packets' timestamps.                                                    *)
(***************************************************************************)
SuccessIsStored ==
  (service = "waiting" /\ ok /\ fresh) =>
    /\ \A p \in stored : {p.data} = watch
    /\ stored # {} => \A p \in requests, q \in stored : ~Newer(p, q)

(***************************************************************************)
(* The cache serves an older packet than the store has only while its      *)
(* removal is under way, or if a query cached that very packet after the   *)
(* newer one was stored, having read it before (put's removal and resolve  *)
(* take the cache's lock apart from the store's transaction).              *)
(***************************************************************************)
StaleOnlyIfCrossed ==
  (cache # {} /\ stored # {} /\ inserting = {} /\ ~crossed) => cache = stored

=============================================================================
