----------------------------- MODULE PartsProofs -----------------------------
(***************************************************************************)
(* Theorems about three parts of an endpoint that share no state: its      *)
(* relay connections (RelayTransport), its net report client (NetReport)   *)
(* and the publication of its addresses (AddressPublish), and about the    *)
(* last two together with the remotes and the paths, as MCParts composes   *)
(* them.                                                                   *)
(***************************************************************************)
EXTENDS RelayTransport, MCParts, RemoteMapProofs, RemotePathsProofs, OrderFacts, FiniteSetTheorems

(***************************************************************************)
(* The publication of addresses, for any number of changes, packets and    *)
(* queries.  The argument for SuccessIsStored is about timestamps: each    *)
(* is used once, the request under way has the latest, and so the packet   *)
(* that is answered with success can be replaced by none that is still on  *)
(* its way.                                                                *)
(***************************************************************************)
\* No packet is newer than the last one that was signed, and each timestamp is used once.
StampInv ==
  /\ \A p \in requests \cup stored \cup inserting : p.stamp <= stamp
  /\ \A p, q \in requests : p.stamp = q.stamp => p = q
  /\ \A p \in requests, q \in stored : p.stamp # q.stamp

\* What is being removed from the caches was stored, and is not newer than what is stored.
InsertingInv ==
  \A p \in inserting :
    /\ stored # {}
    /\ \A q \in stored : p.stamp <= q.stamp /\ (p.stamp = q.stamp => p = q)

\* The request under way carries the last timestamp, and the data that the service last saw.
UnderwayInv ==
  /\ service # "sending" => underway = {}
  /\ \A p \in underway : p.stamp = stamp /\ (fresh => watch = {p.data})
  /\ watch = {} => ~ok /\ underway = {}

\* After a success, the last packet is stored until it is evicted, and then nothing is on its way.
SuccessInv ==
  service = "waiting" /\ ok =>
    /\ \A q \in stored : q.stamp = stamp /\ (fresh => watch = {q.data})
    /\ stored = {} => requests = {}

\* The queries hold at most one packet.
QueryInv == \A r \in Resolver : AtMostOne(query[r].packet)

\* What a query has read is what is stored, or older than that and than what is on its way to an empty store.
ReadInv ==
  \A r \in Resolver : \A p \in query[r].packet :
    /\ p.stamp <= stamp
    /\ \A q \in stored : p.stamp < q.stamp \/ p = q
    /\ stored = {} => \A q \in requests : p.stamp < q.stamp

PublishInv ==
  /\ PublishTypeOK /\ QueryInv /\ ReadInv /\ StampInv
  /\ InsertingInv /\ UnderwayInv /\ SuccessInv /\ StaleOnlyIfCrossed

-----------------------------------------------------------------------------
LEMMA PublishInitially == PublishInit => PublishInv
<1> SUFFICES ASSUME PublishInit PROVE PublishInv OBVIOUS
<1> USE PublishAssumption DEF PublishInit
<1>1. PublishTypeOK
  <2>1. IdleThread \in ThreadState BY DEF IdleThread, ThreadState
  <2>2. IdleQuery \in QueryState BY DEF IdleQuery, QueryState
  <2>3. current \in Data BY DEF Data
  <2>4. thread \in [Thread -> ThreadState] /\ query \in [Resolver -> QueryState] BY <2>1, <2>2
  <2>5. stamp \in 0..MaxStamp OBVIOUS
  <2>6. AtMostOne(lastData) /\ AtMostOne(watch) /\ AtMostOne(underway) /\ AtMostOne(stored) /\ AtMostOne(cache)
    BY DEF AtMostOne
  <2> QED BY <2>3, <2>4, <2>5, <2>6 DEF PublishTypeOK
<1>2. QueryInv /\ ReadInv /\ StampInv /\ InsertingInv /\ UnderwayInv /\ SuccessInv /\ StaleOnlyIfCrossed
  BY DEF QueryInv, ReadInv, StampInv, InsertingInv, UnderwayInv, SuccessInv, StaleOnlyIfCrossed, AtMostOne, IdleQuery
<1> QED BY <1>1, <1>2 DEF PublishInv

\* The steps of the endpoint: only the data that the service sees changes.
LEMMA EndpointStep ==
  ASSUME PublishInv,
         \/ AddService \/ PushService \/ ClearServices
         \/ \E t \in Thread : ChangeData(t) \/ ReadAddrs(t) \/ ReadUser(t) \/ PublishData(t) \/ KeepLast(t)
  PROVE  PublishInv'
<1> USE PublishAssumption DEF PublishInv, dnsServer, publisher
<1>1. PublishTypeOK'
  <2> USE DEF PublishTypeOK, AtMostOne
  <2>1. CASE AddService BY <2>1 DEF AddService, SetWatch
  <2>2. CASE PushService \/ ClearServices BY <2>2 DEF PushService, ClearServices
  <2>3. ASSUME NEW t \in Thread, ChangeData(t) PROVE PublishTypeOK'
    <3>1. current' \in Data BY <2>3 DEF ChangeData, Data
    <3>2. thread' \in [Thread -> ThreadState] BY <2>3 DEF ChangeData, ThreadState
    <3> QED BY <2>3, <3>1, <3>2 DEF ChangeData
  <2>4. ASSUME NEW t \in Thread, ReadAddrs(t) PROVE PublishTypeOK'
    <3>1. thread' \in [Thread -> ThreadState] BY <2>4 DEF ReadAddrs, ThreadState, Data
    <3> QED BY <2>4, <3>1 DEF ReadAddrs
  <2>5. ASSUME NEW t \in Thread, ReadUser(t) PROVE PublishTypeOK'
    <3>1. thread' \in [Thread -> ThreadState]
      <4>1. IdleThread \in ThreadState BY DEF IdleThread, ThreadState
      <4>2. thread[t] \in ThreadState /\ current.user \in 0..MaxVersion BY DEF Data
      <4>3. [thread[t] EXCEPT !.pc = "publish", !.user = current.user] \in ThreadState
        <5> HIDE DEF PublishTypeOK, PublishInv
        <5> QED BY <4>2 DEF ThreadState
      <4> QED BY <2>5, <4>1, <4>3 DEF ReadUser
    <3> QED BY <2>5, <3>1 DEF ReadUser
  <2>6. ASSUME NEW t \in Thread, PublishData(t) PROVE PublishTypeOK'
    <3>1. [addrs |-> thread[t].addrs, user |-> thread[t].user] \in Data BY DEF ThreadState, Data
    <3>2. thread' \in [Thread -> ThreadState] BY <2>6 DEF PublishData, ThreadState
    <3> QED BY <2>6, <3>1, <3>2 DEF PublishData, SetWatch
  <2>7. ASSUME NEW t \in Thread, KeepLast(t) PROVE PublishTypeOK'
    <3>1. [addrs |-> thread[t].addrs, user |-> thread[t].user] \in Data BY DEF ThreadState, Data
    <3>2. IdleThread \in ThreadState BY DEF IdleThread, ThreadState
    <3> QED BY <2>7, <3>1, <3>2 DEF KeepLast
  <2> QED BY <2>1, <2>2, <2>3, <2>4, <2>5, <2>6, <2>7
<1>2. UNCHANGED <<dnsServer, stamp, ok>>
  BY DEF AddService, PushService, ClearServices, ChangeData, ReadAddrs, ReadUser, PublishData, KeepLast
<1>3. \/ UNCHANGED <<service, underway>>
      \/ service' = "ended" /\ underway' = {}
  BY DEF AddService, PushService, ClearServices, ChangeData, ReadAddrs, ReadUser, PublishData, KeepLast
<1>4. \/ UNCHANGED <<watch, fresh>>
      \/ watch' # {} /\ (fresh' => fresh /\ watch' = watch)
  <2>1. CASE AddService BY <2>1 DEF AddService, SetWatch
  <2>2. CASE PushService \/ ClearServices BY <2>2 DEF PushService, ClearServices
  <2>3. ASSUME NEW t \in Thread, ChangeData(t) \/ ReadAddrs(t) \/ ReadUser(t) \/ KeepLast(t)
        PROVE  UNCHANGED <<watch, fresh>>
    BY <2>3 DEF ChangeData, ReadAddrs, ReadUser, KeepLast
  <2>4. ASSUME NEW t \in Thread, PublishData(t)
        PROVE  UNCHANGED <<watch, fresh>> \/ (watch' # {} /\ (fresh' => fresh /\ watch' = watch))
    BY <2>4 DEF PublishData, SetWatch
  <2> QED BY <2>1, <2>2, <2>3, <2>4
<1>5. QueryInv' /\ ReadInv' /\ StampInv' /\ InsertingInv' /\ StaleOnlyIfCrossed'
  BY <1>2 DEF QueryInv, ReadInv, StampInv, InsertingInv, StaleOnlyIfCrossed
<1>6. UnderwayInv' /\ SuccessInv'
  BY <1>2, <1>3, <1>4 DEF UnderwayInv, SuccessInv, PublishTypeOK
<1> QED BY <1>1, <1>5, <1>6

\* The publisher's steps.
LEMMA PublisherStep ==
  ASSUME PublishInv, SendCurrent \/ SendFails \/ WakeUp
  PROVE  PublishInv'
<1> USE PublishAssumption DEF PublishInv, endpoint, dnsServer
<1>1. CASE SendCurrent
  <2>1. PublishTypeOK' BY <1>1 DEF SendCurrent, PublishTypeOK, AtMostOne, SignedPacket
  <2>2. StampInv' BY <1>1 DEF SendCurrent, StampInv, PublishTypeOK, AtMostOne, SignedPacket
  <2>3. UnderwayInv' /\ SuccessInv' BY <1>1 DEF SendCurrent, UnderwayInv, SuccessInv, PublishTypeOK, AtMostOne
  <2>4. QueryInv' /\ InsertingInv' /\ StaleOnlyIfCrossed'
    BY <1>1 DEF SendCurrent, QueryInv, InsertingInv, StaleOnlyIfCrossed
  <2>5. ReadInv'
    <3>1. UNCHANGED <<query, stored>> /\ stamp' \in {stamp, stamp + 1} BY <1>1 DEF SendCurrent
    <3>2. \A q \in requests' : q \in requests \/ (q.stamp = stamp + 1 /\ stamp' = stamp + 1)
      BY <1>1 DEF SendCurrent
    <3> SUFFICES ASSUME NEW r \in Resolver, NEW p \in query[r].packet
                 PROVE  /\ p.stamp <= stamp'
                        /\ \A q \in stored : p.stamp < q.stamp \/ p = q
                        /\ stored = {} => \A q \in requests' : p.stamp < q.stamp
      BY <3>1 DEF ReadInv
    <3>3. p.stamp \in Nat /\ stamp \in Nat BY DEF PublishTypeOK, QueryState, SignedPacket
    <3>4. p.stamp <= stamp /\ \A q \in stored : p.stamp < q.stamp \/ p = q BY DEF ReadInv
    <3>5. stored = {} => \A q \in requests : p.stamp < q.stamp BY DEF ReadInv
    <3> QED BY <3>1, <3>2, <3>3, <3>4, <3>5
  <2> QED BY <2>1, <2>2, <2>3, <2>4, <2>5
<1>2. CASE SendFails
  <2>1. PublishTypeOK' BY <1>2 DEF SendFails, PublishTypeOK, AtMostOne
  <2>2. StampInv' /\ UnderwayInv' /\ SuccessInv' BY <1>2 DEF SendFails, StampInv, UnderwayInv, SuccessInv
  <2>3. QueryInv' /\ ReadInv' /\ InsertingInv' /\ StaleOnlyIfCrossed'
    BY <1>2 DEF SendFails, QueryInv, ReadInv, InsertingInv, StaleOnlyIfCrossed
  <2> QED BY <2>1, <2>2, <2>3
<1>3. CASE WakeUp
  BY <1>3 DEF WakeUp, PublishTypeOK, AtMostOne, StampInv, UnderwayInv, SuccessInv, QueryInv, ReadInv,
              InsertingInv, StaleOnlyIfCrossed
<1> QED BY <1>1, <1>2, <1>3

\* put: a packet that is stored is newer than all before it, and the one under way is always stored.
LEMMA PutStep ==
  ASSUME PublishInv, NEW p, PutUpsert(p) \/ PutRemove(p)
  PROVE  PublishInv'
<1> USE PublishAssumption DEF PublishInv, endpoint
<1>1. CASE PutUpsert(p)
  <2>1. PublishTypeOK' BY <1>1 DEF PutUpsert, PublishTypeOK, AtMostOne
  <2>2. /\ p \in requests /\ requests' = requests \ {p}
        /\ \/ IsNewest(p) /\ stored' = {p} /\ inserting' = inserting \cup {p} /\ UNCHANGED <<service, underway, ok>>
           \/ ~IsNewest(p) /\ UNCHANGED <<stored, inserting>>
        /\ UNCHANGED <<watch, fresh, stamp, cache, query, crossed>>
    BY <1>1 DEF PutUpsert
  <2>3. p.stamp \in Nat /\ stamp \in Nat /\ \A q \in stored : q.stamp \in Nat
    BY <2>2 DEF PublishTypeOK, SignedPacket
  <2>4. \A q \in inserting : q.stamp \in Nat BY DEF PublishTypeOK, SignedPacket
  <2>5. StampInv' BY <2>2, <2>3 DEF StampInv
  <2>6. InsertingInv' BY <2>2, <2>3, <2>4 DEF InsertingInv, IsNewest, Newer
  <2>7. p \in underway => IsNewest(p)
    BY <2>2, <2>3 DEF StampInv, UnderwayInv, IsNewest, Newer
  <2>8. UNCHANGED <<service, underway, ok>> BY <1>1, <2>7 DEF PutUpsert
  <2>9. UnderwayInv' BY <2>2, <2>8 DEF UnderwayInv
  <2>10. SuccessInv'
    <3>1. service = "waiting" /\ ok => ~IsNewest(p)
      BY <2>2, <2>3 DEF SuccessInv, StampInv, IsNewest, Newer
    <3> QED BY <2>2, <2>8, <3>1 DEF SuccessInv
  <2>11. QueryInv' /\ StaleOnlyIfCrossed' BY <2>2 DEF QueryInv, StaleOnlyIfCrossed
  <2>12. ReadInv'
    <3> SUFFICES ASSUME NEW r \in Resolver, NEW x \in query[r].packet
                 PROVE  /\ x.stamp <= stamp
                        /\ \A q \in stored' : x.stamp < q.stamp \/ x = q
                        /\ stored' = {} => \A q \in requests' : x.stamp < q.stamp
      BY <2>2 DEF ReadInv
    <3>1. x.stamp \in Nat BY DEF PublishTypeOK, QueryState, SignedPacket
    <3>2. x.stamp <= stamp /\ \A q \in stored : x.stamp < q.stamp \/ x = q BY DEF ReadInv
    <3>3. stored = {} => \A q \in requests : x.stamp < q.stamp BY DEF ReadInv
    <3>4. IsNewest(p) => x.stamp < p.stamp
      <4>1. CASE stored = {} BY <2>2, <3>3, <4>1
      <4>2. CASE stored # {} BY <2>3, <3>1, <3>2, <4>2 DEF IsNewest, Newer
      <4> QED BY <4>1, <4>2
    <3> QED BY <2>2, <3>2, <3>3, <3>4
  <2> QED BY <2>1, <2>5, <2>6, <2>9, <2>10, <2>11, <2>12
<1>2. CASE PutRemove(p)
  <2>1. PublishTypeOK' BY <1>2 DEF PutRemove, PublishTypeOK, AtMostOne
  <2>2. StampInv' /\ InsertingInv' /\ QueryInv' /\ ReadInv' /\ StaleOnlyIfCrossed'
    BY <1>2 DEF PutRemove, StampInv, InsertingInv, QueryInv, ReadInv, StaleOnlyIfCrossed
  <2>3. CASE p \in underway
    <3>1. /\ service' = "waiting" /\ ok' = TRUE /\ underway' = {}
          /\ UNCHANGED <<watch, fresh, stamp, requests, stored>>
      BY <1>2, <2>3 DEF PutRemove
    <3>2. \A q \in stored : q = p
      <4> SUFFICES ASSUME NEW q \in stored PROVE q = p OBVIOUS
      <4>1. p \in inserting BY <1>2 DEF PutRemove
      <4>2. p.stamp \in Nat /\ q.stamp \in Nat BY <4>1 DEF PublishTypeOK, SignedPacket
      <4>3. p.stamp = stamp /\ q.stamp <= stamp BY <2>3 DEF UnderwayInv, StampInv
      <4>4. p.stamp <= q.stamp /\ (p.stamp = q.stamp => p = q) BY <4>1 DEF InsertingInv
      <4> QED BY <4>2, <4>3, <4>4
    <3>3. stored # {} BY <1>2 DEF PutRemove, InsertingInv
    <3>4. p.stamp = stamp /\ (fresh => watch = {p.data}) /\ watch # {} BY <2>3 DEF UnderwayInv
    <3>5. UnderwayInv' BY <3>1, <3>4 DEF UnderwayInv
    <3>6. SuccessInv' BY <3>1, <3>2, <3>3, <3>4 DEF SuccessInv
    <3> QED BY <2>1, <2>2, <3>5, <3>6
  <2>4. CASE p \notin underway
    <3>1. UNCHANGED <<service, ok, underway, watch, fresh, stamp, requests, stored>> BY <1>2, <2>4 DEF PutRemove
    <3>2. UnderwayInv' /\ SuccessInv' BY <3>1 DEF UnderwayInv, SuccessInv
    <3> QED BY <2>1, <2>2, <3>2
  <2> QED BY <2>3, <2>4
<1> QED BY <1>1, <1>2

\* The queries and what is forgotten.
LEMMA ServeStep ==
  ASSUME PublishInv, Forget \/ \E r \in Resolver : Resolve(r) \/ ReadStore(r) \/ CacheZone(r) \/ CacheDht(r)
  PROVE  PublishInv'
<1> USE PublishAssumption DEF PublishInv, endpoint, publisher
<1>1. UNCHANGED <<endpoint, publisher, requests, inserting>>
  BY DEF Forget, Resolve, ReadStore, CacheZone, CacheDht
<1>2. stored' = stored \/ (stored' = {} /\ requests = {} /\ inserting = {})
  BY DEF Forget, Resolve, ReadStore, CacheZone, CacheDht
<1>3. StampInv' /\ InsertingInv' /\ UnderwayInv' /\ SuccessInv'
  BY <1>1, <1>2 DEF StampInv, InsertingInv, UnderwayInv, SuccessInv
<1>4. CASE Forget
  <2>1. PublishTypeOK' BY <1>1, <1>4 DEF Forget, PublishTypeOK, AtMostOne
  <2>2. QueryInv' /\ StaleOnlyIfCrossed' BY <1>4 DEF Forget, QueryInv, StaleOnlyIfCrossed
  <2>3. ReadInv' BY <1>1, <1>2, <1>4 DEF Forget, ReadInv
  <2> QED BY <1>3, <2>1, <2>2, <2>3
<1>5. ASSUME NEW r \in Resolver, Resolve(r) \/ ReadStore(r) PROVE PublishInv'
  <2>1. PublishTypeOK'
    <3>1. query' \in [Resolver -> QueryState]
      BY <1>5 DEF Resolve, ReadStore, Ask, PublishTypeOK, IdleQuery, QueryState
    <3> QED BY <1>1, <1>5, <3>1 DEF Resolve, ReadStore, PublishTypeOK
  <2>2. QueryInv' BY <1>5 DEF Resolve, ReadStore, Ask, QueryInv, PublishTypeOK, QueryState, AtMostOne, IdleQuery
  <2>3. StaleOnlyIfCrossed' BY <1>5 DEF Resolve, ReadStore, StaleOnlyIfCrossed
  <2>4. ReadInv'
    <3>1. UNCHANGED <<stamp, stored, requests>> BY <1>5 DEF Resolve, ReadStore
    <3>2. \A k \in Resolver : query'[k].packet \in {query[k].packet, {}, stored}
      BY <1>5 DEF Resolve, ReadStore, Ask, IdleQuery, PublishTypeOK, QueryState
    <3>3. \A x, y \in stored : x = y /\ x.stamp <= stamp BY DEF PublishTypeOK, AtMostOne, StampInv
    <3> SUFFICES ASSUME NEW k \in Resolver, NEW x \in query'[k].packet
                 PROVE  /\ x.stamp <= stamp
                        /\ \A q \in stored : x.stamp < q.stamp \/ x = q
                        /\ stored = {} => \A q \in requests : x.stamp < q.stamp
      BY <3>1 DEF ReadInv
    <3>4. CASE x \in stored BY <3>3, <3>4
    <3>5. CASE x \in query[k].packet BY <3>5 DEF ReadInv
    <3> QED BY <3>2, <3>4, <3>5
  <2> QED BY <1>3, <2>1, <2>2, <2>3, <2>4
<1>6. ASSUME NEW r \in Resolver, CacheZone(r) PROVE PublishInv'
  <2>1. PublishTypeOK'
    <3>1. query' \in [Resolver -> QueryState] BY <1>6 DEF CacheZone, PublishTypeOK, IdleQuery, QueryState
    <3>2. query[r].packet \subseteq SignedPacket /\ AtMostOne(query[r].packet)
      BY DEF PublishTypeOK, QueryState, QueryInv
    <3>3. cache' \subseteq SignedPacket /\ AtMostOne(cache') BY <1>6, <3>2 DEF CacheZone, PublishTypeOK
    <3> QED BY <1>1, <1>6, <3>1, <3>3 DEF CacheZone, PublishTypeOK
  <2>2. QueryInv' BY <1>6 DEF CacheZone, QueryInv, PublishTypeOK, QueryState, AtMostOne, IdleQuery
  <2>3. StaleOnlyIfCrossed'
    <3>1. stored' = stored /\ inserting' = inserting BY <1>6 DEF CacheZone
    <3>2. CASE UNCHANGED <<cache, crossed>> BY <3>1, <3>2 DEF StaleOnlyIfCrossed
    <3>3. CASE /\ cache' = query[r].packet
               /\ crossed' = \E p \in query[r].packet, q \in stored : Newer(q, p)
      <4> SUFFICES ASSUME cache' # {}, stored # {}, ~crossed' PROVE cache' = stored
        BY <3>1 DEF StaleOnlyIfCrossed
      <4>1. \A p \in query[r].packet, q \in stored : p.stamp < q.stamp \/ p = q BY DEF ReadInv
      <4>2. \A p \in query[r].packet, q \in stored : ~Newer(q, p) BY <3>3
      <4>3. \A p \in query[r].packet, q \in stored : p.stamp \in Nat /\ q.stamp \in Nat
        BY DEF PublishTypeOK, QueryState, SignedPacket
      <4>4. \A p \in query[r].packet, q \in stored : p = q BY <4>1, <4>2, <4>3 DEF Newer
      <4> QED BY <3>3, <4>4
    <3> QED BY <1>6, <3>2, <3>3 DEF CacheZone
  <2>4. ReadInv' BY <1>1, <1>6 DEF CacheZone, ReadInv, PublishTypeOK, QueryState, IdleQuery
  <2> QED BY <1>3, <2>1, <2>2, <2>3, <2>4
<1>7. ASSUME NEW r \in Resolver, CacheDht(r) PROVE PublishInv'
  <2>1. PublishTypeOK'
    <3>1. query' \in [Resolver -> QueryState] BY <1>7 DEF CacheDht, PublishTypeOK, IdleQuery, QueryState
    <3> QED BY <1>1, <1>7, <3>1 DEF CacheDht, PublishTypeOK
  <2>2. QueryInv' BY <1>7 DEF CacheDht, QueryInv, PublishTypeOK, QueryState, AtMostOne, IdleQuery
  <2>3. StaleOnlyIfCrossed' BY <1>7 DEF CacheDht, StaleOnlyIfCrossed
  <2>4. ReadInv' BY <1>1, <1>7 DEF CacheDht, ReadInv, PublishTypeOK, QueryState, IdleQuery
  <2> QED BY <1>3, <2>1, <2>2, <2>3, <2>4
<1> QED BY <1>4, <1>5, <1>6, <1>7

LEMMA PublishStep == PublishInv /\ [PublishNext]_publishVars => PublishInv'
<1> SUFFICES ASSUME PublishInv, [PublishNext]_publishVars PROVE PublishInv' OBVIOUS
<1>1. CASE UNCHANGED publishVars
  BY <1>1 DEF publishVars, endpoint, publisher, dnsServer, PublishInv, PublishTypeOK, QueryInv, ReadInv,
              StampInv, InsertingInv, UnderwayInv, SuccessInv, StaleOnlyIfCrossed
<1>2. CASE PublishNext BY <1>2, EndpointStep, PublisherStep, PutStep, ServeStep DEF PublishNext
<1> QED BY <1>1, <1>2

LEMMA PublishInvariant == PublishSpec => []PublishInv
BY PublishInitially, PublishStep, PTL DEF PublishSpec

(***************************************************************************)
(* Every variable of the publication keeps its type.                       *)
(***************************************************************************)
THEOREM PublishTypeCorrect == PublishSpec => []PublishTypeOK
<1>1. PublishInv => PublishTypeOK BY DEF PublishInv
<1> QED BY <1>1, PublishInvariant, PTL

(***************************************************************************)
(* PublisherService against the server's put: after a success with nothing *)
(* new to send, the server holds that data, and no request still on its    *)
(* way replaces it.                                                        *)
(***************************************************************************)
THEOREM SuccessIsStoredHolds == PublishSpec => []SuccessIsStored
<1>1. PublishInv => SuccessIsStored
  <2> SUFFICES ASSUME PublishInv, service = "waiting", ok, fresh
               PROVE  /\ \A p \in stored : {p.data} = watch
                      /\ stored # {} => \A p \in requests, q \in stored : ~Newer(p, q)
    BY DEF SuccessIsStored
  <2>1. \A q \in stored : q.stamp = stamp /\ watch = {q.data} BY DEF PublishInv, SuccessInv
  <2>2. ASSUME NEW p \in requests, NEW q \in stored PROVE ~Newer(p, q)
    <3>1. p.stamp <= stamp /\ q.stamp = stamp BY <2>1 DEF PublishInv, StampInv
    <3>2. p.stamp \in Nat /\ stamp \in Nat BY PublishAssumption DEF PublishInv, PublishTypeOK, SignedPacket
    <3> QED BY <3>1, <3>2 DEF Newer
  <2> QED BY <2>1, <2>2
<1> QED BY <1>1, PublishInvariant, PTL

(***************************************************************************)
(* ZoneStore: the cache is older than the store only during a removal, or  *)
(* after a query that crossed a put.                                       *)
(***************************************************************************)
THEOREM StaleOnlyIfCrossedHolds == PublishSpec => []StaleOnlyIfCrossed
<1>1. PublishInv => StaleOnlyIfCrossed BY DEF PublishInv
<1> QED BY <1>1, PublishInvariant, PTL

(***************************************************************************)
(* The relay connections of an endpoint.                                   *)
(***************************************************************************)
\* Where the tasks are: an ended one has nothing left, every other one has a handle, a handle without a task
\* is one that join_next has yet to return, and a status is only written where there is one to write.
PlacesInv ==
  /\ \A u \in RelayUrl : task[u] = "off" => relayInbox[u] = <<>> /\ isHome[u] = FALSE
  /\ \A u \in RelayUrl : task[u] # "off" => u \in active
  /\ boss.pc # "done" /\ unjoined = 0 => \A u \in active : task[u] # "off"
  /\ matched \subseteq {u \in RelayUrl : task[u] \in DOMAIN Published}

\* The home relay has a handle; while RelayActor tells the actors it is the relay that they are told of.
HandleInv ==
  ~overwritten /\ home # {} =>
    /\ boss.pc = "tell" => boss.url = HomeUrl
    /\ boss.pc \notin {"tell", "done"} => HomeUrl \subseteq active

\* Who an actor thinks is at home, at any time: while RelayActor tells them, those it has told already.
BelievesInv ==
  ~overwritten /\ home # {} /\ boss.pc # "done" =>
    \A u \in RelayUrl :
      (task[u] # "off" /\ ~(boss.pc = "tell" /\ u \in boss.todo)) => (Believes(u) <=> u \in HomeUrl)

TransportInv == RelayTypeOK /\ PlacesInv /\ HandleInv /\ BelievesInv /\ HomeStatusIsTrue

-----------------------------------------------------------------------------
(***************************************************************************)
(* The last message about the home relay in an inbox.                      *)
(***************************************************************************)
HomeMessages(q) == {i \in DOMAIN q : q[i] # "check"}

\* The last message of inbox q about the home relay, or t if there is none.
LastTold(q, t) ==
  IF HomeMessages(q) = {} THEN t
  ELSE q[CHOOSE i \in HomeMessages(q) : \A j \in HomeMessages(q) : j <= i]

\* What an actor takes itself for now, as the message that says so.
RoleMessage(flag) == IF flag = TRUE THEN "home" ELSE "away"

LEMMA BelievesIsLastTold ==
  ASSUME NEW u \in RelayUrl, isHome \in [RelayUrl -> BOOLEAN], isHome' \in [RelayUrl -> BOOLEAN]
  PROVE  /\ Believes(u) <=> LastTold(relayInbox[u], RoleMessage(isHome[u])) = "home"
         /\ Believes(u)' <=> LastTold(relayInbox'[u], RoleMessage(isHome'[u])) = "home"
<1>1. ASSUME HomeMessages(relayInbox[u]) = {}
      PROVE  Believes(u) <=> LastTold(relayInbox[u], RoleMessage(isHome[u])) = "home"
  <2>1. Believes(u) = isHome[u] BY <1>1 DEF Believes, HomeMessages
  <2>2. LastTold(relayInbox[u], RoleMessage(isHome[u])) = RoleMessage(isHome[u]) BY <1>1 DEF LastTold
  <2>3. RoleMessage(isHome[u]) = "home" <=> isHome[u] = TRUE BY DEF RoleMessage
  <2>4. isHome[u] \in BOOLEAN OBVIOUS
  <2>5. Believes(u) <=> isHome[u] = TRUE BY Zenon, <2>1, <2>4
  <2> QED BY <2>2, <2>3, <2>5
<1>2. ASSUME HomeMessages(relayInbox[u]) # {}
      PROVE  Believes(u) <=> LastTold(relayInbox[u], RoleMessage(isHome[u])) = "home"
  BY <1>2 DEF Believes, HomeMessages, LastTold
<1>3. ASSUME HomeMessages(relayInbox'[u]) = {}
      PROVE  Believes(u)' <=> LastTold(relayInbox'[u], RoleMessage(isHome'[u])) = "home"
  <2>1. Believes(u)' = isHome'[u] BY <1>3 DEF Believes, HomeMessages
  <2>2. LastTold(relayInbox'[u], RoleMessage(isHome'[u])) = RoleMessage(isHome'[u]) BY <1>3 DEF LastTold
  <2>3. RoleMessage(isHome'[u]) = "home" <=> isHome'[u] = TRUE BY DEF RoleMessage
  <2>4. isHome'[u] \in BOOLEAN OBVIOUS
  <2>5. Believes(u)' <=> isHome'[u] = TRUE BY Zenon, <2>1, <2>4
  <2> QED BY <2>2, <2>3, <2>5
<1>4. ASSUME HomeMessages(relayInbox'[u]) # {}
      PROVE  Believes(u)' <=> LastTold(relayInbox'[u], RoleMessage(isHome'[u])) = "home"
  BY <1>4 DEF Believes, HomeMessages, LastTold
<1>5. Believes(u) <=> LastTold(relayInbox[u], RoleMessage(isHome[u])) = "home" BY <1>1, <1>2
<1>6. Believes(u)' <=> LastTold(relayInbox'[u], RoleMessage(isHome'[u])) = "home" BY <1>3, <1>4
<1> QED BY <1>5, <1>6

\* Any message about the home relay behind which there is no other is the last.
LEMMA LastToldAt ==
  ASSUME NEW q \in Seq(ActiveRelayMessage), NEW t, NEW i \in HomeMessages(q), \A j \in HomeMessages(q) : j <= i
  PROVE  LastTold(q, t) = q[i]
<1> DEFINE k == CHOOSE x \in HomeMessages(q) : \A j \in HomeMessages(q) : j <= x
<1>1. k \in HomeMessages(q) /\ \A j \in HomeMessages(q) : j <= k OBVIOUS
<1>2. HomeMessages(q) \subseteq Nat BY DEF HomeMessages
<1> HIDE DEF k
<1>3. k = i BY <1>1, <1>2
<1>4. LastTold(q, t) = q[k] BY DEF LastTold, k
<1> QED BY <1>3, <1>4

LEMMA SomeLastTold ==
  ASSUME NEW q \in Seq(ActiveRelayMessage), HomeMessages(q) # {}
  PROVE  \E i \in HomeMessages(q) : \A j \in HomeMessages(q) : j <= i
<1>1. Len(q) \in Nat /\ HomeMessages(q) \in SUBSET (1..Len(q)) BY DEF HomeMessages
<1> QED BY <1>1, LastIndex

\* A message about the home relay put at the end is the last; a check of the connection does not matter.
LEMMA LastToldAppend ==
  ASSUME NEW q \in Seq(ActiveRelayMessage), NEW t, NEW m \in ActiveRelayMessage
  PROVE  /\ m # "check" => LastTold(Append(q, m), t) = m
         /\ m = "check" => LastTold(Append(q, m), t) = LastTold(q, t)
<1> DEFINE r == Append(q, m)
<1>1. /\ r \in Seq(ActiveRelayMessage) /\ DOMAIN q = 1..Len(q) /\ Len(q) \in Nat
      /\ DOMAIN r = 1..(Len(q) + 1)
      /\ \A i \in 1..Len(q) : r[i] = q[i]
      /\ r[Len(q) + 1] = m
  OBVIOUS
<1> HIDE DEF r
<1>2. ASSUME m # "check" PROVE LastTold(r, t) = m
  <2>1. Len(q) + 1 \in HomeMessages(r) BY <1>1, <1>2 DEF HomeMessages
  <2>2. \A j \in HomeMessages(r) : j <= Len(q) + 1 BY <1>1 DEF HomeMessages
  <2> QED BY <1>1, <2>1, <2>2, LastToldAt
<1>3. ASSUME m = "check" PROVE LastTold(r, t) = LastTold(q, t)
  <2>1. HomeMessages(r) = HomeMessages(q) BY <1>1, <1>3 DEF HomeMessages
  <2>2. CASE HomeMessages(q) = {} BY <2>1, <2>2 DEF LastTold
  <2>3. CASE HomeMessages(q) # {}
    <3>1. PICK i \in HomeMessages(q) : \A j \in HomeMessages(q) : j <= i BY <2>3, SomeLastTold
    <3>2. r[i] = q[i] BY <1>1 DEF HomeMessages
    <3>3. LastTold(q, t) = q[i] BY <3>1, LastToldAt
    <3>4. LastTold(r, t) = r[i] BY <1>1, <2>1, <3>1, LastToldAt
    <3> QED BY <3>2, <3>3, <3>4
  <2> QED BY <2>2, <2>3
<1> QED BY <1>2, <1>3 DEF r

\* Reading the first message leaves what the actor will believe what it was.
LEMMA LastToldTail ==
  ASSUME NEW q \in Seq(ActiveRelayMessage), q # <<>>, NEW t, NEW n,
         n = IF Head(q) # "check" THEN Head(q) ELSE t
  PROVE  LastTold(Tail(q), n) = LastTold(q, t)
<1> DEFINE r == Tail(q)
<1>1. /\ r \in Seq(ActiveRelayMessage) /\ DOMAIN q = 1..Len(q) /\ Len(q) \in Nat /\ Len(q) >= 1
      /\ DOMAIN r = 1..(Len(q) - 1)
      /\ \A i \in 1..(Len(q) - 1) : r[i] = q[i + 1]
      /\ Head(q) = q[1]
  OBVIOUS
<1> SUFFICES LastTold(r, n) = LastTold(q, t)
  OBVIOUS
<1> HIDE DEF r
<1>2. \A i \in 1..(Len(q) - 1) : i \in HomeMessages(r) <=> i + 1 \in HomeMessages(q)
  BY <1>1 DEF HomeMessages
<1>2a. HomeMessages(r) \subseteq 1..(Len(q) - 1) /\ HomeMessages(q) \subseteq 1..Len(q)
  BY <1>1 DEF HomeMessages
<1>3. CASE HomeMessages(r) = {}
  <2>1. LastTold(r, n) = n BY <1>3 DEF LastTold
  <2>2. \A i \in HomeMessages(q) : i = 1
    <3> SUFFICES ASSUME NEW i \in HomeMessages(q), i # 1 PROVE FALSE OBVIOUS
    <3>1. i - 1 \in 1..(Len(q) - 1) /\ (i - 1) + 1 = i BY <1>1, <1>2a
    <3> QED BY <1>2, <1>3, <3>1
  <2>3. CASE Head(q) # "check"
    <3>1. 1 \in HomeMessages(q) BY <1>1, <2>3 DEF HomeMessages
    <3>2. LastTold(q, t) = q[1] BY <2>2, <3>1, LastToldAt
    <3> QED BY <1>1, <2>1, <2>3, <3>2
  <2>4. CASE Head(q) = "check"
    <3>1. HomeMessages(q) = {} BY <1>1, <2>2, <2>4 DEF HomeMessages
    <3> QED BY <2>1, <2>4, <3>1 DEF LastTold
  <2> QED BY <2>3, <2>4
<1>4. CASE HomeMessages(r) # {}
  <2>1. PICK i \in HomeMessages(r) : \A j \in HomeMessages(r) : j <= i BY <1>1, <1>4, SomeLastTold
  <2>2. i \in 1..(Len(q) - 1) /\ i + 1 \in HomeMessages(q) /\ r[i] = q[i + 1]
    BY <1>1, <1>2, <1>2a, <2>1
  <2>3. \A j \in HomeMessages(q) : j <= i + 1
    <3> SUFFICES ASSUME NEW j \in HomeMessages(q) PROVE j <= i + 1 OBVIOUS
    <3>1. CASE j = 1 BY <2>2, <3>1
    <3>2. CASE j # 1
      <4>1. j - 1 \in 1..(Len(q) - 1) /\ (j - 1) + 1 = j BY <1>1, <1>2a, <3>2
      <4>2. j - 1 \in HomeMessages(r) BY <1>2, <4>1
      <4>3. j - 1 <= i BY <2>1, <4>2
      <4> QED BY <2>2, <4>1, <4>3
    <3> QED BY <3>1, <3>2
  <2>4. LastTold(q, t) = q[i + 1] BY <2>2, <2>3, LastToldAt
  <2>5. LastTold(r, n) = r[i] BY <1>1, <2>1, LastToldAt
  <2> QED BY <2>2, <2>4, <2>5
<1> QED BY <1>3, <1>4

-----------------------------------------------------------------------------
LEMMA TransportInitially == RelayInit => TransportInv
<1> SUFFICES ASSUME RelayInit PROVE TransportInv OBVIOUS
<1> USE RelayAssumption DEF RelayInit
<1>1. RelayTypeOK
  <2>1. task \in [RelayUrl -> Place] BY DEF Place
  <2>2. state \in [RelayUrl -> ConnState] BY DEF NewConnState, ConnState
  <2>3. relayInbox \in [RelayUrl -> Seq(ActiveRelayMessage)] /\ \A u \in RelayUrl : Len(relayInbox[u]) <= RelayInbox
    OBVIOUS
  <2>4. boss \in BossState BY DEF Loop, BossState
  <2>5. home \subseteq HomeRelay /\ (\A h, i \in home : h = i) /\ matched \subseteq RelayUrl /\ active \subseteq RelayUrl
    OBVIOUS
  <2>6. isHome \in [RelayUrl -> BOOLEAN] /\ unjoined \in Nat /\ stuck \subseteq RelayUrl /\ overwritten \in BOOLEAN
    OBVIOUS
  <2>7. queued \in [RelayUrl -> 0..SendQueue] OBVIOUS
  <2> QED BY ONLY <2>1, <2>2, <2>3, <2>4, <2>5, <2>6, <2>7 DEF RelayTypeOK
<1>2. PlacesInv /\ HandleInv /\ BelievesInv /\ HomeStatusIsTrue
  BY DEF PlacesInv, HandleInv, BelievesInv, HomeStatusIsTrue
<1> QED BY <1>1, <1>2 DEF TransportInv

\* The types, under the steps of an ActiveRelayActor.
LEMMA ActorTypeStep ==
  ASSUME RelayTypeOK, PlacesInv, NEW u \in RelayUrl, ActiveRelayNext(u)
  PROVE  RelayTypeOK'
<1> USE RelayAssumption DEF RelayTypeOK, homeWatch, places, channels, Goto
<1>0. Place = {"connecting", "dialed", "promoted", "failed", "off", "dialing", "connected", "sending", "backoff",
              "stopping"}
  BY DEF Place, Published
<1>1. CASE StatusGet(u) \/ StatusSet(u)
  <2>1. task[u] \in {"connecting", "dialed", "promoted", "failed"}
    BY <1>1 DEF StatusGet, StatusSet, PlacesInv, Published
  <2>2. AfterPublish(u) \in Place /\ Published[task[u]] \in RelayStatus
    BY <1>0, <2>1 DEF AfterPublish, Published, RelayStatus
  <2>3. NewConnState \in ConnState /\ [url |-> u, state |-> Published[task[u]]] \in HomeRelay
    BY <2>2 DEF NewConnState, ConnState, HomeRelay
  <2>4. CASE StatusGet(u)
    <3>1. CASE u \in HomeUrl BY <2>4, <3>1 DEF StatusGet
    <3>2. CASE u \notin HomeUrl BY <2>2, <2>3, <2>4, <3>2 DEF StatusGet, Publish
    <3> QED BY <3>1, <3>2
  <2>5. CASE StatusSet(u) BY <2>2, <2>3, <2>5 DEF StatusSet, Publish
  <2> QED BY <1>1, <2>4, <2>5
<1>2. CASE BackoffOver(u) \/ DialOk(u) \/ DialFails(u) \/ SendingDone(u)
  BY <1>0, <1>2 DEF BackoffOver, DialOk, DialFails, SendingDone
<1>3. CASE Flush(u)
  BY <1>3 DEF Flush
<1>4. CASE RelayReceive(u)
  <2>1. relayInbox' \in [RelayUrl -> Seq(ActiveRelayMessage)] /\ \A x \in RelayUrl : Len(relayInbox'[x]) <= RelayInbox
    BY <1>4 DEF RelayReceive, HandleSetHomeRelay, HandleCheckConnection
  <2>2. CASE HandleSetHomeRelay(u)
    BY <1>0, <1>4, <2>1, <2>2 DEF RelayReceive, HandleSetHomeRelay
  <2>3. CASE HandleCheckConnection(u)
    <3>0. UNCHANGED <<homeWatch, active, unjoined, queued, boss, stuck, isHome>>
      BY <1>4, <2>3 DEF RelayReceive, HandleCheckConnection
    <3>1. CASE UNCHANGED state /\ (UNCHANGED task \/ Goto(u, "sending"))
      BY <1>0, <2>1, <3>0, <3>1
    <3>2. CASE Fail(u)
      <4>1. state' \in [RelayUrl -> ConnState] BY <3>2 DEF Fail, ConnState
      <4> QED BY <1>0, <2>1, <3>0, <3>2, <4>1 DEF Fail
    <3> QED BY <2>3, <3>1, <3>2 DEF HandleCheckConnection
  <2> QED BY <1>4, <2>2, <2>3 DEF RelayReceive
<1>5. CASE StartSending(u)
  <2>1. queued' \in [RelayUrl -> 0..SendQueue] BY <1>5 DEF StartSending
  <2> QED BY <1>0, <1>5, <2>1 DEF StartSending
<1>6. CASE HandleRelayMsg(u)
  <2>1. state' \in [RelayUrl -> ConnState]
    <3>1. CASE \E p \in Peer : HandleDatagrams(u, p)
      <4>1. PICK p \in Peer : state' = [state EXCEPT ![u].present = @ \cup {p}] BY <3>1 DEF HandleDatagrams
      <4> QED BY <4>1 DEF ConnState
    <3>2. CASE \E p \in state[u].present : state' = [state EXCEPT ![u].present = @ \ {p}]
      <4>1. PICK p : state' = [state EXCEPT ![u].present = @ \ {p}] BY <3>2
      <4> QED BY <4>1 DEF ConnState
    <3> QED BY <1>6, <3>1, <3>2 DEF HandleRelayMsg
  <2> QED BY <1>6, <2>1 DEF HandleRelayMsg
<1>7. CASE ConnectionFails(u)
  BY <1>0, <1>7 DEF ConnectionFails, Fail, ConnState
<1>8. CASE ActorStops(u) \/ SinkClosed(u)
  <2>1. state' \in [RelayUrl -> ConnState]
    <3>1. state' = [state EXCEPT ![u] = NewConnState]
      <4>1. CASE SinkClosed(u) BY <4>1 DEF SinkClosed, End
      <4>2. CASE ActorStops(u) BY <4>2 DEF ActorStops, End
      <4> QED BY <1>8, <4>1, <4>2
    <3>2. NewConnState \in ConnState BY DEF NewConnState, ConnState
    <3> QED BY <3>1, <3>2
  <2>2. CASE End(u) BY <1>0, <1>8, <2>1, <2>2 DEF ActorStops, SinkClosed, End
  <2>3. CASE ~End(u)
    <3>1. ActorStops(u) /\ task[u] # "dialing"
      <4>1. ~SinkClosed(u) BY <2>3 DEF SinkClosed
      <4>2. ActorStops(u) BY <1>8, <4>1
      <4>3. task[u] = "dialing" => End(u) BY <4>2 DEF ActorStops
      <4> QED BY <2>3, <4>2, <4>3
    <3>2. /\ task' = [task EXCEPT ![u] = "stopping"]
          /\ UNCHANGED <<home, matched, overwritten, isHome, unjoined, relayInbox, queued, active, boss, stuck>>
      BY <3>1 DEF ActorStops
    <3> QED BY <1>0, <2>1, <3>2
  <2> QED BY <2>2, <2>3
<1> QED BY <1>1, <1>2, <1>3, <1>4, <1>5, <1>6, <1>7, <1>8 DEF ActiveRelayNext

\* The handle of a relay, and what RelayActor sends, keep the types.
LEMMA HandleTypes ==
  ASSUME RelayTypeOK, NEW handles \in SUBSET RelayUrl, NEW u \in RelayUrl, ActiveRelayHandle(handles, u)
  PROVE  /\ active' \subseteq RelayUrl /\ task' \in [RelayUrl -> Place]
         /\ relayInbox' \in [RelayUrl -> Seq(ActiveRelayMessage)]
         /\ \A x \in RelayUrl : Len(relayInbox'[x]) <= RelayInbox
<1> USE RelayAssumption DEF RelayTypeOK, ActiveRelayHandle, Goto
<1>1. active' \subseteq RelayUrl OBVIOUS
<1>2. "connecting" \in Place BY DEF Place, Published
<1>3. task' \in [RelayUrl -> Place] BY <1>2
<1>4. <<"home">> \in Seq(ActiveRelayMessage) /\ Len(<<"home">>) = 1 BY DEF ActiveRelayMessage
<1>5. <<>> \in Seq(ActiveRelayMessage) /\ Len(<<>>) = 0 OBVIOUS
<1>6. relayInbox' \in [RelayUrl -> Seq(ActiveRelayMessage)] /\ \A x \in RelayUrl : Len(relayInbox'[x]) <= RelayInbox
  <2>1. CASE u \in handles BY <2>1
  <2>2. CASE u \notin handles
    <3> DEFINE q == IF u \in HomeUrl THEN <<"home">> ELSE <<>>
    <3>1. q \in Seq(ActiveRelayMessage) /\ Len(q) <= 1 BY <1>4, <1>5
    <3>2. relayInbox' = [relayInbox EXCEPT ![u] = q] BY <2>2
    <3> HIDE DEF q
    <3> QED BY <3>1, <3>2
  <2> QED BY <2>1, <2>2
<1> QED BY <1>1, <1>3, <1>6

LEMMA SendTypes ==
  ASSUME RelayTypeOK, NEW u \in RelayUrl, NEW m \in ActiveRelayMessage, SendTo(u, m)
  PROVE  RelayTypeOK'
<1> USE RelayAssumption DEF RelayTypeOK, SendTo, homeWatch, places
<1>1. boss' \in BossState BY DEF BossState
<1>2. relayInbox' \in [RelayUrl -> Seq(ActiveRelayMessage)] /\ \A x \in RelayUrl : Len(relayInbox'[x]) <= RelayInbox
  <2>1. CASE task[u] = "off" BY <2>1
  <2>2. CASE task[u] # "off"
    <3> DEFINE q == Append(relayInbox[u], m)
    <3>1. Len(relayInbox[u]) < RelayInbox /\ relayInbox' = [relayInbox EXCEPT ![u] = q] BY <2>2
    <3>2. q \in Seq(ActiveRelayMessage) /\ Len(q) = Len(relayInbox[u]) + 1 OBVIOUS
    <3>3. Len(relayInbox[u]) \in Nat OBVIOUS
    <3> HIDE DEF q
    <3> QED BY <3>1, <3>2, <3>3
  <2> QED BY <2>1, <2>2
<1> QED BY <1>1, <1>2

LEMMA EnqueueTypes ==
  ASSUME RelayTypeOK, NEW u \in RelayUrl, Enqueue(u)
  PROVE  queued' \in [RelayUrl -> 0..SendQueue] /\ stuck' \subseteq RelayUrl
<1> USE RelayAssumption DEF RelayTypeOK, Enqueue
<1>1. CASE task[u] # "off" /\ queued[u] < SendQueue
  <2>1. queued[u] \in Nat /\ queued[u] + 1 \in 0..SendQueue BY <1>1
  <2> QED BY <1>1, <2>1
<1>2. CASE ~(task[u] # "off" /\ queued[u] < SendQueue) BY <1>2
<1> QED BY <1>1, <1>2

LEMMA LoopType == Loop \in BossState
BY DEF Loop, BossState

\* The types, under the steps of RelayActor.
LEMMA RelayActorTypeStep ==
  ASSUME RelayTypeOK, RelayActorNext
  PROVE  RelayTypeOK'
<1>0. /\ home \subseteq HomeRelay /\ HomeUrl \subseteq RelayUrl
      /\ boss.url \subseteq RelayUrl /\ boss.todo \subseteq RelayUrl
  BY DEF RelayTypeOK, HomeUrl, HomeRelay, BossState
<1>1. CASE JoinAndReap
  <2> DEFINE handles == {u \in active : task[u] # "off"}
  <2>1. UNCHANGED <<homeWatch, isHome, queued, state, boss, stuck>> /\ unjoined' \in Nat
    BY <1>1 DEF JoinAndReap, RelayTypeOK
  <2>2. CASE home = {} BY <1>1, <2>1, <2>2 DEF JoinAndReap, RelayTypeOK, homeWatch
  <2>3. CASE home # {}
    <3>1. PICK u \in HomeUrl : ActiveRelayHandle(handles, u) BY <1>1, <2>3 DEF JoinAndReap
    <3>2. handles \in SUBSET RelayUrl /\ u \in RelayUrl BY <1>0 DEF RelayTypeOK
    <3> HIDE DEF handles
    <3> QED BY <2>1, <3>1, <3>2, HandleTypes DEF RelayTypeOK, homeWatch
  <2> QED BY <2>2, <2>3
<1>2. CASE EnsureHome
  <2>1. PICK u \in boss.url : ActiveRelayHandle(active, u) BY <1>2 DEF EnsureHome
  <2>2. active \in SUBSET RelayUrl /\ u \in RelayUrl BY <1>0 DEF RelayTypeOK
  <2> QED BY <1>2, <2>1, <2>2, HandleTypes, LoopType DEF EnsureHome, RelayTypeOK, homeWatch
<1>3. CASE CheckConnections
  <2>1. boss' \in BossState BY <1>3 DEF CheckConnections, Loop, BossState, RelayTypeOK
  <2> QED BY <1>3, <2>1 DEF CheckConnections, RelayTypeOK, homeWatch, places, channels
<1>4. CASE CheckDone
  BY <1>4, LoopType DEF CheckDone, RelayTypeOK, homeWatch, places, channels
<1>5. CASE NoRoute
  <2>1. PICK u \in boss.url : ActiveRelayHandle(active, u) /\ queued' = [queued EXCEPT ![u] = 1] BY <1>5 DEF NoRoute
  <2>2. active \in SUBSET RelayUrl /\ u \in RelayUrl BY <1>0 DEF RelayTypeOK
  <2>3. queued' \in [RelayUrl -> 0..SendQueue] BY <2>1, <2>2, RelayAssumption DEF RelayTypeOK
  <2> QED BY <1>5, <2>1, <2>2, <2>3, HandleTypes, LoopType DEF NoRoute, RelayTypeOK, homeWatch
<1>6. CASE CloseAllActiveRelays
  <2>1. boss' \in BossState BY <1>6 DEF CloseAllActiveRelays, Loop, BossState
  <2>2. state' \in [RelayUrl -> ConnState] BY <1>6 DEF CloseAllActiveRelays, NewConnState, ConnState
  <2>3. task' \in [RelayUrl -> Place] BY <1>6 DEF CloseAllActiveRelays, Place
  <2>4. relayInbox' \in [RelayUrl -> Seq(ActiveRelayMessage)] /\ \A x \in RelayUrl : Len(relayInbox'[x]) <= RelayInbox
    BY <1>6, RelayAssumption DEF CloseAllActiveRelays
  <2>5. queued' \in [RelayUrl -> 0..SendQueue] BY <1>6, RelayAssumption DEF CloseAllActiveRelays
  <2>6. isHome' \in [RelayUrl -> BOOLEAN] /\ unjoined' \in Nat /\ matched' \subseteq RelayUrl /\ stuck' \subseteq RelayUrl
    BY <1>6 DEF CloseAllActiveRelays
  <2>7. UNCHANGED <<home, overwritten, active>> BY <1>6 DEF CloseAllActiveRelays
  <2> QED BY <2>1, <2>2, <2>3, <2>4, <2>5, <2>6, <2>7 DEF RelayTypeOK
<1>7. ASSUME NEW preferred \in {{}} \cup {{u} : u \in RelayUrl}, RelaysOnNetworkChange(preferred)
      PROVE  RelayTypeOK'
  <2>1. preferred \subseteq RelayUrl /\ \A u, v \in preferred : u = v OBVIOUS
  <2>2. boss' \in BossState BY <1>7, <2>1 DEF RelaysOnNetworkChange, Loop, BossState, RelayTypeOK
  <2>3. home' \subseteq HomeRelay /\ \A h, i \in home' : h = i
    BY <1>7, <2>1 DEF RelaysOnNetworkChange, HomeRelay, RelayStatus
  <2> QED BY <1>7, <2>2, <2>3 DEF RelaysOnNetworkChange, RelayTypeOK, places, channels
<1>8. ASSUME NEW u \in RelayUrl, TellHome(u) \/ CheckOne(u) PROVE RelayTypeOK'
  <2>1. "home" \in ActiveRelayMessage /\ "away" \in ActiveRelayMessage /\ "check" \in ActiveRelayMessage
    BY DEF ActiveRelayMessage
  <2> QED BY <1>8, <2>1, SendTypes DEF TellHome, CheckOne
<1>9. ASSUME NEW u \in RelayUrl, SendDatagram(u) PROVE RelayTypeOK'
  BY <1>9, EnqueueTypes DEF SendDatagram, RelayTypeOK, homeWatch, places
<1>10. ASSUME NEW u \in RelayUrl, RouteAnswer(u) PROVE RelayTypeOK'
  <2>1. queued' \in [RelayUrl -> 0..SendQueue] /\ stuck' \subseteq RelayUrl
    BY <1>10, EnqueueTypes DEF RouteAnswer, RelayTypeOK
  <2>2. boss' \in BossState
    <3>1. boss \in BossState BY DEF RelayTypeOK
    <3>2. [boss EXCEPT !.todo = @ \ {u}] \in BossState BY <3>1 DEF BossState
    <3> QED BY <1>10, <3>2, LoopType DEF RouteAnswer
  <2> QED BY <1>10, <2>1, <2>2 DEF RouteAnswer, RelayTypeOK, homeWatch, places
<1>11. ASSUME NEW u \in RelayUrl, Unstuck(u) PROVE RelayTypeOK'
  <2>1. queued' \in [RelayUrl -> 0..SendQueue]
    <3>1. CASE queued[u] < SendQueue
      <4>1. queued[u] \in Nat /\ queued[u] + 1 \in 0..SendQueue BY <3>1, RelayAssumption DEF RelayTypeOK
      <4> QED BY <1>11, <4>1 DEF Unstuck, RelayTypeOK
    <3>2. CASE ~(queued[u] < SendQueue) BY <1>11, <3>2 DEF Unstuck, RelayTypeOK
    <3> QED BY <3>1, <3>2
  <2> QED BY <1>11, <2>1 DEF Unstuck, RelayTypeOK, homeWatch, places
<1>12. ASSUME NEW u \in RelayUrl, NEW p \in Peer, AskRoutes(u, p) PROVE RelayTypeOK'
  <2>1. boss' \in BossState BY <1>12 DEF AskRoutes, BossState, RelayTypeOK
  <2> QED BY <1>12, <2>1 DEF AskRoutes, RelayTypeOK, homeWatch, places, channels
<1> QED BY <1>1, <1>2, <1>3, <1>4, <1>5, <1>6, <1>7, <1>8, <1>9, <1>10, <1>11, <1>12 DEF RelayActorNext

-----------------------------------------------------------------------------
\* An ActiveRelayActor that moves has a task, and leaves the other actors and RelayActor alone.
LEMMA ActorFrame ==
  ASSUME RelayTypeOK, PlacesInv, NEW u \in RelayUrl, ActiveRelayNext(u)
  PROVE  /\ task[u] # "off" /\ u \in active /\ UNCHANGED <<active, boss, stuck>>
         /\ \A x \in RelayUrl \ {u} :
              task'[x] = task[x] /\ isHome'[x] = isHome[x] /\ relayInbox'[x] = relayInbox[x]
<1> USE DEF homeWatch, places, channels, Goto, RelayTypeOK
<1>1. CASE StatusGet(u) \/ StatusSet(u)
  BY <1>1 DEF StatusGet, StatusSet, Publish, PlacesInv, Published
<1>2. CASE BackoffOver(u) \/ DialOk(u) \/ DialFails(u) \/ SendingDone(u) \/ Flush(u) \/ StartSending(u)
  BY <1>2 DEF BackoffOver, DialOk, DialFails, SendingDone, Flush, StartSending, PlacesInv
<1>3. CASE RelayReceive(u)
  BY <1>3 DEF RelayReceive, HandleSetHomeRelay, HandleCheckConnection, Fail, PlacesInv
<1>4. CASE HandleRelayMsg(u) \/ ConnectionFails(u)
  BY <1>4 DEF HandleRelayMsg, ConnectionFails, Fail, PlacesInv
<1>5. CASE ActorStops(u) \/ SinkClosed(u)
  BY <1>5 DEF ActorStops, SinkClosed, End, PlacesInv
<1> QED BY <1>1, <1>2, <1>3, <1>4, <1>5 DEF ActiveRelayNext

\* PlacesInv, under the steps of an ActiveRelayActor.
LEMMA ActorPlaces ==
  ASSUME RelayTypeOK, PlacesInv, NEW u \in RelayUrl, ActiveRelayNext(u)
  PROVE  PlacesInv'
<1>0. /\ task[u] # "off" /\ u \in active /\ UNCHANGED <<active, boss, stuck>>
      /\ \A x \in RelayUrl \ {u} :
           task'[x] = task[x] /\ isHome'[x] = isHome[x] /\ relayInbox'[x] = relayInbox[x]
  BY ActorFrame
<1>0a. unjoined \in Nat /\ task \in [RelayUrl -> Place] /\ isHome \in [RelayUrl -> BOOLEAN]
       /\ relayInbox \in [RelayUrl -> Seq(ActiveRelayMessage)] /\ active \subseteq RelayUrl
  BY DEF RelayTypeOK
<1>1. CASE task'[u] # "off" /\ unjoined' = unjoined /\ matched' \subseteq {x \in RelayUrl : task'[x] \in DOMAIN Published}
  BY <1>0, <1>0a, <1>1 DEF PlacesInv
<1>2. CASE task'[u] = "off" /\ unjoined' = unjoined + 1 /\ relayInbox'[u] = <<>> /\ isHome'[u] = FALSE
           /\ matched' \subseteq {x \in RelayUrl : task'[x] \in DOMAIN Published}
  BY <1>0, <1>0a, <1>2 DEF PlacesInv
<1> USE DEF homeWatch, places, channels, Goto
<1>3. CASE StatusGet(u) /\ u \in HomeUrl
  BY <1>1, <1>3, <1>0, <1>0a DEF StatusGet, PlacesInv
<1>4. CASE (StatusGet(u) /\ u \notin HomeUrl) \/ StatusSet(u)
  <2>1. task[u] \in {"connecting", "dialed", "promoted", "failed"}
    BY <1>4 DEF StatusGet, StatusSet, PlacesInv, Published
  <2>2. Publish(u) /\ matched' = matched \ {u} BY <1>4 DEF StatusGet, StatusSet
  <2>3. AfterPublish(u) # "off" BY <2>1 DEF AfterPublish
  <2> QED BY <1>0, <1>0a, <1>1, <2>2, <2>3 DEF Publish, PlacesInv
<1>5. CASE BackoffOver(u) \/ DialOk(u) \/ DialFails(u) \/ SendingDone(u) \/ StartSending(u) \/ ConnectionFails(u)
  <2>1. u \notin matched
    BY <1>5 DEF BackoffOver, DialOk, DialFails, SendingDone, StartSending, ConnectionFails, PlacesInv, Published
  <2> QED BY <1>0, <1>0a, <1>1, <1>5, <2>1
      DEF BackoffOver, DialOk, DialFails, SendingDone, StartSending, ConnectionFails, Fail, PlacesInv
<1>6. CASE Flush(u) \/ HandleRelayMsg(u)
  BY <1>0, <1>1, <1>6 DEF Flush, HandleRelayMsg, PlacesInv
<1>7. CASE RelayReceive(u)
  <2>1. u \notin matched BY <1>7 DEF RelayReceive, PlacesInv, Published
  <2>2. task'[u] # "off"
    BY <1>0a, <1>7 DEF RelayReceive, HandleSetHomeRelay, HandleCheckConnection, Fail
  <2> QED BY <1>0, <1>0a, <1>1, <1>7, <2>1, <2>2 DEF RelayReceive, PlacesInv
<1>8. CASE (ActorStops(u) /\ task[u] = "dialing") \/ SinkClosed(u)
  <2>1. u \notin matched BY <1>8 DEF SinkClosed, PlacesInv, Published
  <2>2. End(u) /\ UNCHANGED matched BY <1>8 DEF ActorStops, SinkClosed
  <2> QED BY <1>0, <1>0a, <1>2, <2>1, <2>2 DEF End, PlacesInv
<1>9. CASE ActorStops(u) /\ task[u] # "dialing"
  <2>1. u \notin matched BY <1>9 DEF ActorStops, PlacesInv, Published
  <2>2. task'[u] = "stopping" /\ UNCHANGED <<matched, unjoined>> BY <1>0a, <1>9 DEF ActorStops
  <2> QED BY <1>0, <1>0a, <1>1, <2>1, <2>2 DEF PlacesInv
<1> QED BY <1>3, <1>4, <1>5, <1>6, <1>7, <1>8, <1>9 DEF ActiveRelayNext

\* What active_relay_handle does when a relay without a handle has no task: to the tasks,
LEMMA HandleTasks ==
  ASSUME RelayTypeOK, PlacesInv, NEW handles \in SUBSET RelayUrl, NEW u \in RelayUrl,
         ActiveRelayHandle(handles, u), u \notin handles => task[u] = "off"
  PROVE  /\ active' = handles \cup {u}
         /\ \A x \in RelayUrl : (x # u \/ u \in handles) => task'[x] = task[x]
         /\ u \notin handles => task'[u] = "connecting"
BY DEF RelayTypeOK, ActiveRelayHandle, Goto, PlacesInv

\* to the inbox of the relay,
LEMMA HandleInbox ==
  ASSUME RelayTypeOK, NEW handles \in SUBSET RelayUrl, NEW u \in RelayUrl, u \notin handles,
         ActiveRelayHandle(handles, u)
  PROVE  relayInbox'[u] = IF u \in HomeUrl THEN <<"home">> ELSE <<>>
BY DEF RelayTypeOK, ActiveRelayHandle

\* and to what is already there.
LEMMA HandleFrame ==
  ASSUME RelayTypeOK, PlacesInv, NEW handles \in SUBSET RelayUrl, NEW u \in RelayUrl,
         ActiveRelayHandle(handles, u), u \notin handles => task[u] = "off"
  PROVE  /\ \A x \in RelayUrl : (x # u \/ u \in handles) => relayInbox'[x] = relayInbox[x]
         /\ \A x \in RelayUrl : task[x] # "off" => task'[x] = task[x] /\ relayInbox'[x] = relayInbox[x]
         /\ \A x \in RelayUrl : task'[x] = "off" => task[x] = "off" /\ relayInbox'[x] = <<>>
         /\ UNCHANGED matched => matched' \subseteq {x \in RelayUrl : task'[x] \in DOMAIN Published}
BY DEF RelayTypeOK, ActiveRelayHandle, Goto, PlacesInv, Published

\* PlacesInv, under the steps of RelayActor.
LEMMA RelayActorPlaces ==
  ASSUME RelayTypeOK, PlacesInv, RelayActorNext
  PROVE  PlacesInv'
<1>0. /\ HomeUrl \subseteq RelayUrl /\ boss.url \subseteq RelayUrl /\ active \subseteq RelayUrl
      /\ unjoined \in Nat /\ task \in [RelayUrl -> Place] /\ relayInbox \in [RelayUrl -> Seq(ActiveRelayMessage)]
  BY DEF RelayTypeOK, HomeUrl, HomeRelay, BossState
<1>1. CASE JoinAndReap
  <2> DEFINE handles == {u \in active : task[u] # "off"}
  <2>1. UNCHANGED <<home, matched, isHome, boss>> /\ boss.pc = "loop"
    BY <1>1 DEF JoinAndReap, AtLoop, homeWatch
  <2>2. CASE home = {} BY <1>0, <1>1, <2>1, <2>2 DEF JoinAndReap, PlacesInv
  <2>3. CASE home # {}
    <3>1. PICK u \in HomeUrl : ActiveRelayHandle(handles, u) BY <1>1, <2>3 DEF JoinAndReap
    <3>2. handles \in SUBSET RelayUrl /\ u \in RelayUrl BY <1>0
    <3>3. u \notin handles => task[u] = "off" BY <3>2 DEF PlacesInv
    <3>4. \A x \in handles : task[x] # "off" OBVIOUS
    <3>5. \A x \in RelayUrl : task[x] # "off" => x \in handles BY DEF PlacesInv
    <3> HIDE DEF handles
    <3>6. (\A x \in RelayUrl : task'[x] = "off" => relayInbox'[x] = <<>> /\ isHome'[x] = FALSE)
          /\ matched' \subseteq {x \in RelayUrl : task'[x] \in DOMAIN Published}
      BY <2>1, <3>1, <3>2, <3>3, HandleFrame DEF PlacesInv
    <3>7. (\A x \in RelayUrl : task'[x] # "off" => x \in active') /\ \A x \in active' : task'[x] # "off"
      <4>1. /\ active' = handles \cup {u}
            /\ \A x \in RelayUrl : (x # u \/ u \in handles) => task'[x] = task[x]
            /\ u \notin handles => task'[u] = "connecting"
        BY <3>1, <3>2, <3>3, HandleTasks
      <4> QED BY <3>2, <3>4, <3>5, <4>1
    <3> QED BY <3>6, <3>7 DEF PlacesInv
  <2> QED BY <2>2, <2>3
<1>2. CASE EnsureHome \/ NoRoute
  <2>1. PICK u \in boss.url : ActiveRelayHandle(active, u) BY <1>2 DEF EnsureHome, NoRoute
  <2>2. active \in SUBSET RelayUrl /\ u \in RelayUrl BY <1>0
  <2>3. u \notin active => task[u] = "off" BY <2>2 DEF PlacesInv
  <2>4. UNCHANGED <<matched, isHome, unjoined>> /\ boss.pc # "done"
    BY <1>2 DEF EnsureHome, NoRoute, homeWatch
  <2>5. (\A x \in RelayUrl : task'[x] = "off" => relayInbox'[x] = <<>> /\ isHome'[x] = FALSE)
        /\ matched' \subseteq {x \in RelayUrl : task'[x] \in DOMAIN Published}
    BY <2>1, <2>2, <2>3, <2>4, HandleFrame DEF PlacesInv
  <2>5a. /\ active' = active \cup {u}
         /\ \A x \in RelayUrl : (x # u \/ u \in active) => task'[x] = task[x]
         /\ u \notin active => task'[u] = "connecting"
    BY <2>1, <2>2, <2>3, HandleTasks
  <2>6. \A x \in RelayUrl : task'[x] # "off" => x \in active'
    <3>1. \A x \in RelayUrl : task[x] # "off" => x \in active BY DEF PlacesInv
    <3> QED BY <1>0, <2>2, <2>5a, <3>1
  <2>7. unjoined' = 0 => \A x \in active' : task'[x] # "off"
    <3>1. unjoined = 0 => \A x \in active : task[x] # "off" BY <2>4 DEF PlacesInv
    <3> QED BY <1>0, <2>2, <2>4, <2>5a, <3>1
  <2> QED BY <2>5, <2>6, <2>7 DEF PlacesInv
<1>3. CASE CloseAllActiveRelays
  <2>1. boss'.pc = "done" BY <1>3 DEF CloseAllActiveRelays, Loop
  <2> QED BY <1>3, <2>1 DEF CloseAllActiveRelays, PlacesInv
<1>4. ASSUME UNCHANGED <<matched, places, relayInbox>>, boss.pc # "done" PROVE PlacesInv'
  BY <1>4 DEF PlacesInv, places
<1>5. CASE CheckConnections \/ CheckDone
  BY <1>4, <1>5 DEF CheckConnections, CheckDone, AtLoop, homeWatch, channels
<1>6. ASSUME NEW preferred \in {{}} \cup {{u} : u \in RelayUrl}, RelaysOnNetworkChange(preferred) PROVE PlacesInv'
  BY <1>4, <1>6 DEF RelaysOnNetworkChange, AtLoop, channels
<1>7. ASSUME NEW u \in RelayUrl, TellHome(u) \/ CheckOne(u) PROVE PlacesInv'
  <2>1. PICK m : SendTo(u, m) BY <1>7 DEF TellHome, CheckOne
  <2>2. UNCHANGED <<matched, places>> /\ boss.pc # "done" BY <1>7, <2>1 DEF SendTo, homeWatch, TellHome, CheckOne
  <2>3. \A x \in RelayUrl : task[x] = "off" => relayInbox'[x] = relayInbox[x] BY <1>0, <2>1 DEF SendTo
  <2> QED BY <2>2, <2>3 DEF PlacesInv, places
<1>8. ASSUME NEW u \in RelayUrl, SendDatagram(u) \/ RouteAnswer(u) \/ Unstuck(u) PROVE PlacesInv'
  BY <1>4, <1>8 DEF SendDatagram, RouteAnswer, Unstuck, AtLoop, homeWatch
<1>9. ASSUME NEW u \in RelayUrl, NEW p \in Peer, AskRoutes(u, p) PROVE PlacesInv'
  BY <1>4, <1>9 DEF AskRoutes, AtLoop, homeWatch, channels
<1> QED BY <1>1, <1>2, <1>3, <1>5, <1>6, <1>7, <1>8, <1>9 DEF RelayActorNext

-----------------------------------------------------------------------------
\* An actor writes the status of its own relay, or of none, unless it overwrites the home relay.
LEMMA ActorHome ==
  ASSUME RelayTypeOK, PlacesInv, NEW u \in RelayUrl, ActiveRelayNext(u), ~overwritten'
  PROVE  ~overwritten /\ HomeUrl' = HomeUrl /\ (home' # {} => home # {})
<1>1. CASE UNCHANGED home /\ UNCHANGED overwritten BY <1>1 DEF HomeUrl
<1>2. CASE StatusSet(u)
  <2>1. ~overwritten /\ u \in HomeUrl BY <1>2 DEF StatusSet, RelayTypeOK
  <2>2. \A h \in home : h.url = u BY <2>1 DEF HomeUrl, RelayTypeOK
  <2>3. HomeUrl = {u} BY <2>1, <2>2 DEF HomeUrl
  <2>4. HomeUrl' = {u} BY <1>2 DEF StatusSet, HomeUrl
  <2> QED BY <2>1, <2>3, <2>4 DEF HomeUrl
<1>3. CASE ~StatusSet(u)
  <2>1. UNCHANGED home /\ UNCHANGED overwritten
    BY <1>3 DEF ActiveRelayNext, StatusGet, BackoffOver, DialOk, DialFails, Flush, RelayReceive, StartSending,
                SendingDone, HandleRelayMsg, ConnectionFails, ActorStops, SinkClosed, homeWatch
  <2> QED BY <1>1, <2>1
<1> QED BY <1>2, <1>3

\* HandleInv, step by step.
LEMMA HandleStep ==
  ASSUME RelayTypeOK, PlacesInv, HandleInv, RelayNext
  PROVE  HandleInv'
<1> SUFFICES ASSUME ~overwritten', home' # {}
             PROVE  /\ boss'.pc = "tell" => boss'.url = HomeUrl'
                    /\ boss'.pc \notin {"tell", "done"} => HomeUrl' \subseteq active'
  BY DEF HandleInv, HomeUrl
<1>0. /\ HomeUrl \subseteq RelayUrl /\ boss \in BossState /\ boss.url \subseteq RelayUrl
      /\ \A x, y \in HomeUrl : x = y
  BY DEF RelayTypeOK, HomeUrl, HomeRelay, BossState
<1>1. ASSUME NEW u \in RelayUrl, ActiveRelayNext(u)
      PROVE  /\ boss'.pc = "tell" => boss'.url = HomeUrl'
             /\ boss'.pc \notin {"tell", "done"} => HomeUrl' \subseteq active'
  <2>1. UNCHANGED <<active, boss>> BY <1>1, ActorFrame
  <2>2. ~overwritten /\ HomeUrl' = HomeUrl /\ home # {} BY <1>1, ActorHome
  <2> QED BY <2>1, <2>2 DEF HandleInv
<1>2. CASE JoinAndReap
  <2>1. boss' = boss /\ boss.pc = "loop" /\ HomeUrl' = HomeUrl /\ home' = home
    BY <1>2 DEF JoinAndReap, AtLoop, HomeUrl, homeWatch
  <2>2. PICK u \in HomeUrl : u \in active' BY <1>2, <2>1 DEF JoinAndReap, ActiveRelayHandle
  <2> QED BY <1>0, <2>1, <2>2
<1>3. CASE EnsureHome
  <2>1. ~overwritten /\ boss.pc = "tell" /\ boss'.pc = "loop" /\ HomeUrl' = HomeUrl /\ home' = home
    BY <1>3 DEF EnsureHome, HomeUrl, homeWatch, Loop
  <2>2. PICK u \in boss.url : u \in active' BY <1>3 DEF EnsureHome, ActiveRelayHandle
  <2>3. boss.url = HomeUrl BY <2>1 DEF HandleInv
  <2> QED BY <1>0, <2>1, <2>2, <2>3
<1>4. CASE NoRoute
  <2>1. ~overwritten /\ boss.pc = "route" /\ boss'.pc = "loop" /\ HomeUrl' = HomeUrl /\ home' = home
    BY <1>4 DEF NoRoute, HomeUrl, homeWatch, Loop
  <2>2. active \subseteq active' BY <1>4 DEF NoRoute, ActiveRelayHandle
  <2> QED BY <2>1, <2>2 DEF HandleInv
<1>5. CASE CloseAllActiveRelays
  BY <1>5 DEF CloseAllActiveRelays, Loop
<1>6. ASSUME NEW preferred \in {{}} \cup {{u} : u \in RelayUrl}, RelaysOnNetworkChange(preferred)
      PROVE  boss'.pc = "tell" /\ boss'.url = HomeUrl'
  <2>1. preferred # {} BY <1>6 DEF RelaysOnNetworkChange
  <2>2. boss'.pc = "tell" /\ boss'.url = preferred BY <1>6, <2>1 DEF RelaysOnNetworkChange, Loop
  <2>3. HomeUrl' = preferred BY <1>6, <2>1 DEF RelaysOnNetworkChange, HomeUrl
  <2> QED BY <2>2, <2>3
<1>7. ASSUME NEW u \in RelayUrl, TellHome(u) \/ CheckOne(u)
      PROVE  /\ boss'.pc = "tell" => boss'.url = HomeUrl'
             /\ boss'.pc \notin {"tell", "done"} => HomeUrl' \subseteq active'
  <2>1. boss'.pc = boss.pc /\ boss'.url = boss.url /\ UNCHANGED <<home, overwritten, active>>
    BY <1>0, <1>7 DEF TellHome, CheckOne, SendTo, homeWatch, places, BossState
  <2> QED BY <2>1 DEF HandleInv, HomeUrl
<1>8. ASSUME UNCHANGED <<home, overwritten, active>>, boss.pc \notin {"tell", "done"}, boss'.pc # "tell"
      PROVE  /\ boss'.pc = "tell" => boss'.url = HomeUrl'
             /\ boss'.pc \notin {"tell", "done"} => HomeUrl' \subseteq active'
  BY <1>8 DEF HandleInv, HomeUrl
<1>9. CASE CheckConnections \/ CheckDone
  <2>1. boss.pc \in {"loop", "check"} /\ boss'.pc \in {"loop", "check"}
    <3>1. CASE CheckConnections
      <4>1. boss.pc = "loop" /\ boss' = [Loop EXCEPT !.pc = "check", !.todo = active] BY <3>1 DEF CheckConnections, AtLoop
      <4>2. boss'.pc = "check" BY <4>1 DEF Loop
      <4> QED BY <4>1, <4>2
    <3>2. CASE CheckDone BY <3>2 DEF CheckDone, Loop
    <3> QED BY <1>9, <3>1, <3>2
  <2>2. UNCHANGED <<home, overwritten, active>> BY <1>9 DEF CheckConnections, CheckDone, homeWatch, places
  <2> QED BY <1>8, <2>1, <2>2
<1>10. ASSUME NEW u \in RelayUrl, SendDatagram(u) \/ Unstuck(u)
      PROVE  /\ boss'.pc = "tell" => boss'.url = HomeUrl'
             /\ boss'.pc \notin {"tell", "done"} => HomeUrl' \subseteq active'
  BY <1>8, <1>10 DEF SendDatagram, Unstuck, AtLoop, homeWatch, places
<1>11. ASSUME NEW u \in RelayUrl, RouteAnswer(u)
      PROVE  /\ boss'.pc = "tell" => boss'.url = HomeUrl'
             /\ boss'.pc \notin {"tell", "done"} => HomeUrl' \subseteq active'
  <2>1. boss'.pc \in {"route", "loop"} BY <1>0, <1>11 DEF RouteAnswer, Loop, BossState
  <2> QED BY <1>8, <1>11, <2>1 DEF RouteAnswer, homeWatch, places
<1>12. ASSUME NEW u \in RelayUrl, NEW p \in Peer, AskRoutes(u, p)
      PROVE  /\ boss'.pc = "tell" => boss'.url = HomeUrl'
             /\ boss'.pc \notin {"tell", "done"} => HomeUrl' \subseteq active'
  BY <1>8, <1>12 DEF AskRoutes, AtLoop, homeWatch, places
<1>13. CASE RelayActorNext
  BY <1>2, <1>3, <1>4, <1>5, <1>6, <1>7, <1>9, <1>10, <1>11, <1>12, <1>13 DEF RelayActorNext
<1> QED BY <1>1, <1>13 DEF RelayNext

-----------------------------------------------------------------------------
LEMMA BelievesSame ==
  ASSUME RelayTypeOK, RelayTypeOK', NEW u \in RelayUrl, relayInbox'[u] = relayInbox[u], isHome'[u] = isHome[u]
  PROVE  Believes(u)' <=> Believes(u)
BY BelievesIsLastTold DEF RelayTypeOK

\* Reading a message changes nothing of what an actor will believe.
LEMMA ReceiveBelieves ==
  ASSUME RelayTypeOK, RelayTypeOK', NEW u \in RelayUrl, RelayReceive(u)
  PROVE  Believes(u)' <=> Believes(u)
<1> DEFINE q == relayInbox[u]
<1>1. q \in Seq(ActiveRelayMessage) /\ q # <<>> /\ relayInbox'[u] = Tail(q)
  BY DEF RelayTypeOK, RelayReceive, HandleSetHomeRelay, HandleCheckConnection
<1>2. RoleMessage(isHome'[u]) = IF Head(q) # "check" THEN Head(q) ELSE RoleMessage(isHome[u])
  <2>1. CASE HandleSetHomeRelay(u)
    <3>1. Head(q) = "home" \/ Head(q) = "away" BY <2>1 DEF HandleSetHomeRelay
    <3>2. isHome'[u] = (Head(q) = "home") BY <2>1 DEF HandleSetHomeRelay, RelayTypeOK
    <3> HIDE DEF q
    <3>3. CASE Head(q) = "home" BY <3>2, <3>3 DEF RoleMessage
    <3>4. CASE Head(q) = "away"
      <4>1. isHome'[u] = FALSE BY <3>2, <3>4
      <4> QED BY <3>4, <4>1 DEF RoleMessage
    <3> QED BY <3>1, <3>3, <3>4
  <2>2. CASE HandleCheckConnection(u)
    BY <2>2 DEF HandleCheckConnection
  <2> QED BY <2>1, <2>2 DEF RelayReceive
<1> HIDE DEF q
<1>3. LastTold(Tail(q), RoleMessage(isHome'[u])) = LastTold(q, RoleMessage(isHome[u]))
  BY <1>1, <1>2, LastToldTail
<1> QED BY <1>1, <1>3, BelievesIsLastTold DEF RelayTypeOK, q

\* A message is put at the end of the inbox of an actor that runs.
LEMMA SendBelieves ==
  ASSUME RelayTypeOK, RelayTypeOK', NEW u \in RelayUrl, NEW m \in ActiveRelayMessage, SendTo(u, m)
  PROVE  /\ task[u] # "off" /\ m # "check" => (Believes(u)' <=> m = "home")
         /\ task[u] # "off" /\ m = "check" => (Believes(u)' <=> Believes(u))
         /\ \A x \in RelayUrl \ {u} : Believes(x)' <=> Believes(x)
<1>1. UNCHANGED isHome /\ relayInbox \in [RelayUrl -> Seq(ActiveRelayMessage)] BY DEF SendTo, places, RelayTypeOK
<1>2. ASSUME task[u] # "off"
      PROVE  /\ m # "check" => (Believes(u)' <=> m = "home")
             /\ m = "check" => (Believes(u)' <=> Believes(u))
  <2>1. relayInbox'[u] = Append(relayInbox[u], m) /\ relayInbox[u] \in Seq(ActiveRelayMessage)
    BY <1>1, <1>2 DEF SendTo
  <2>2. /\ m # "check" => LastTold(Append(relayInbox[u], m), RoleMessage(isHome[u])) = m
        /\ m = "check" => LastTold(Append(relayInbox[u], m), RoleMessage(isHome[u]))
                            = LastTold(relayInbox[u], RoleMessage(isHome[u]))
    BY <2>1, LastToldAppend
  <2> QED BY <1>1, <2>1, <2>2, BelievesIsLastTold DEF RelayTypeOK
<1>3. ASSUME NEW x \in RelayUrl \ {u} PROVE Believes(x)' <=> Believes(x)
  <2>1. relayInbox'[x] = relayInbox[x] BY <1>1 DEF SendTo
  <2> QED BY <1>1, <2>1, BelievesSame
<1> QED BY <1>2, <1>3

\* An actor that has just been started for the home relay believes so, another does not.
LEMMA FreshBelieves ==
  ASSUME RelayTypeOK, RelayTypeOK', PlacesInv, NEW handles \in SUBSET RelayUrl, NEW u \in RelayUrl, u \notin handles,
         task[u] = "off", UNCHANGED isHome, ActiveRelayHandle(handles, u)
  PROVE  Believes(u)' <=> u \in HomeUrl
<1>1. relayInbox'[u] = IF u \in HomeUrl THEN <<"home">> ELSE <<>> BY HandleInbox
<1>2. isHome'[u] = FALSE BY DEF PlacesInv
<1>3. RoleMessage(isHome'[u]) = "away" BY <1>2 DEF RoleMessage
<1>4. CASE u \in HomeUrl
  <2>1. <<"home">> \in Seq(ActiveRelayMessage) /\ 1 \in HomeMessages(<<"home">>) /\ <<"home">>[1] = "home"
    BY DEF HomeMessages, ActiveRelayMessage
  <2>2. \A j \in HomeMessages(<<"home">>) : j <= 1 BY DEF HomeMessages
  <2>3. LastTold(<<"home">>, "away") = "home" BY <2>1, <2>2, LastToldAt
  <2> QED BY <1>1, <1>3, <1>4, <2>3, BelievesIsLastTold DEF RelayTypeOK
<1>5. CASE u \notin HomeUrl
  <2>1. LastTold(<<>>, "away") = "away" BY DEF LastTold, HomeMessages
  <2> QED BY <1>1, <1>3, <1>5, <2>1, BelievesIsLastTold DEF RelayTypeOK
<1> QED BY <1>4, <1>5

\* BelievesInv, step by step.
LEMMA BelievesStep ==
  ASSUME RelayTypeOK, RelayTypeOK', PlacesInv, HandleInv, BelievesInv, RelayNext
  PROVE  BelievesInv'
<1> SUFFICES ASSUME ~overwritten', home' # {}, boss'.pc # "done", NEW x \in RelayUrl, task'[x] # "off",
                    ~(boss'.pc = "tell" /\ x \in boss'.todo)
             PROVE  Believes(x)' <=> x \in HomeUrl'
  BY DEF BelievesInv
<1>0. /\ HomeUrl \subseteq RelayUrl /\ boss \in BossState /\ boss.url \subseteq RelayUrl
      /\ active \in SUBSET RelayUrl /\ \A y, z \in HomeUrl : y = z
  BY DEF RelayTypeOK, HomeUrl, HomeRelay, BossState
<1>1. ASSUME NEW u \in RelayUrl, ActiveRelayNext(u)
      PROVE  Believes(x)' <=> x \in HomeUrl'
  <2>1. UNCHANGED boss /\ task[u] # "off"
        /\ (x # u => task'[x] = task[x] /\ isHome'[x] = isHome[x] /\ relayInbox'[x] = relayInbox[x])
    BY <1>1, ActorFrame
  <2>2. ~overwritten /\ HomeUrl' = HomeUrl /\ home # {} BY <1>1, ActorHome
  <2>3. task[x] # "off" BY <2>1
  <2>4. Believes(x) <=> x \in HomeUrl BY <2>1, <2>2, <2>3 DEF BelievesInv
  <2>5. Believes(x)' <=> Believes(x)
    <3>1. CASE x # u BY <2>1, <3>1, BelievesSame
    <3>2. CASE x = u /\ RelayReceive(u) BY <3>2, ReceiveBelieves
    <3>3. CASE x = u /\ End(u) BY <3>3 DEF End, Goto, RelayTypeOK
    <3>4. CASE x = u /\ ~RelayReceive(u) /\ ~End(u)
      <4>1. UNCHANGED isHome /\ UNCHANGED relayInbox
        BY <1>1, <3>4 DEF ActiveRelayNext, StatusGet, StatusSet, Publish, BackoffOver, DialOk, DialFails, Flush,
                          StartSending, SendingDone, HandleRelayMsg, ConnectionFails, ActorStops, SinkClosed, SinkClosed, places, channels
      <4> QED BY <4>1, BelievesSame
    <3> QED BY <3>1, <3>2, <3>3, <3>4
  <2> QED BY <2>2, <2>4, <2>5
\* The steps of RelayActor that start an actor or none.
<1>2. ASSUME NEW handles \in SUBSET RelayUrl, NEW u \in RelayUrl, ActiveRelayHandle(handles, u),
             u \notin handles => task[u] = "off", UNCHANGED isHome, UNCHANGED home, UNCHANGED overwritten,
             boss.pc # "done", ~(boss.pc = "tell" /\ x \in boss.todo)
      PROVE  Believes(x)' <=> x \in HomeUrl'
  <2>1. HomeUrl' = HomeUrl BY <1>2 DEF HomeUrl
  <2>2. CASE x = u /\ u \notin handles BY <1>2, <2>1, <2>2, FreshBelieves
  <2>3. CASE ~(x = u /\ u \notin handles)
    <3>1. task'[x] = task[x] BY <1>2, <2>3, HandleTasks
    <3>2. relayInbox'[x] = relayInbox[x] BY <1>2, <2>3, HandleFrame
    <3>3. Believes(x) <=> x \in HomeUrl BY <1>2, <3>1 DEF BelievesInv
    <3> QED BY <1>2, <2>1, <3>2, <3>3, BelievesSame
  <2> QED BY <2>2, <2>3
<1>3. CASE JoinAndReap
  <2> DEFINE handles == {u \in active : task[u] # "off"}
  <2>1. UNCHANGED <<home, overwritten, isHome>> /\ boss.pc = "loop"
    BY <1>3 DEF JoinAndReap, AtLoop, homeWatch
  <2>2. PICK u \in HomeUrl : ActiveRelayHandle(handles, u) BY <1>3, <2>1 DEF JoinAndReap
  <2>3. handles \in SUBSET RelayUrl /\ u \in RelayUrl BY <1>0
  <2>4. u \notin handles => task[u] = "off" BY <2>3 DEF PlacesInv
  <2> HIDE DEF handles
  <2> QED BY <1>2, <2>1, <2>2, <2>3, <2>4
<1>4. CASE EnsureHome \/ NoRoute
  <2>1. UNCHANGED <<home, overwritten, isHome>> /\ boss.pc # "done" /\ boss.todo = {}
    BY <1>4 DEF EnsureHome, NoRoute, homeWatch
  <2>2. PICK u \in boss.url : ActiveRelayHandle(active, u) BY <1>4 DEF EnsureHome, NoRoute
  <2>3. u \in RelayUrl BY <1>0
  <2>4. u \notin active => task[u] = "off" BY <2>3 DEF PlacesInv
  <2> QED BY <1>0, <1>2, <2>1, <2>2, <2>3, <2>4
<1>5. CASE CloseAllActiveRelays
  BY <1>5 DEF CloseAllActiveRelays, Loop
<1>6. ASSUME NEW preferred \in {{}} \cup {{u} : u \in RelayUrl}, RelaysOnNetworkChange(preferred)
      PROVE  FALSE
  <2>1. preferred # {} BY <1>6 DEF RelaysOnNetworkChange
  <2>2. boss'.pc = "tell" /\ boss'.todo = active BY <1>6, <2>1 DEF RelaysOnNetworkChange, Loop
  <2>3. task' = task BY <1>6 DEF RelaysOnNetworkChange, places
  <2> QED BY <2>2, <2>3 DEF PlacesInv
<1>7. ASSUME NEW u \in RelayUrl, TellHome(u) PROVE Believes(x)' <=> x \in HomeUrl'
  <2> DEFINE m == IF u \in boss.url THEN "home" ELSE "away"
  <2>1. m \in ActiveRelayMessage /\ m # "check" /\ (m = "home" <=> u \in boss.url) BY DEF ActiveRelayMessage
  <2>2. SendTo(u, m) /\ boss.pc = "tell" BY <1>7 DEF TellHome
  <2>3. UNCHANGED <<home, overwritten, task>> /\ boss'.pc = "tell" /\ boss'.todo = boss.todo \ {u}
    BY <1>0, <2>2 DEF SendTo, homeWatch, places, BossState
  <2>4. HomeUrl' = HomeUrl /\ boss.url = HomeUrl BY <2>2, <2>3 DEF HandleInv, HomeUrl
  <2> HIDE DEF m
  <2>5. CASE x = u BY <2>1, <2>2, <2>3, <2>4, <2>5, SendBelieves
  <2>6. CASE x # u
    <3>1. Believes(x)' <=> Believes(x) BY <2>1, <2>2, <2>6, SendBelieves
    <3>2. Believes(x) <=> x \in HomeUrl BY <2>2, <2>3, <2>6 DEF BelievesInv
    <3> QED BY <2>4, <3>1, <3>2
  <2> QED BY <2>5, <2>6
<1>8. ASSUME NEW u \in RelayUrl, CheckOne(u) PROVE Believes(x)' <=> x \in HomeUrl'
  <2>1. "check" \in ActiveRelayMessage BY DEF ActiveRelayMessage
  <2>2. SendTo(u, "check") /\ boss.pc = "check" BY <1>8 DEF CheckOne
  <2>3. UNCHANGED <<home, overwritten, task>> BY <2>2 DEF SendTo, homeWatch, places
  <2>4. Believes(x)' <=> Believes(x) BY <2>1, <2>2, <2>3, SendBelieves
  <2>5. Believes(x) <=> x \in HomeUrl BY <2>2, <2>3 DEF BelievesInv
  <2> QED BY <2>3, <2>4, <2>5 DEF HomeUrl
<1>9. ASSUME UNCHANGED <<home, overwritten, task, isHome, relayInbox>>, boss.pc \notin {"tell", "done"}
      PROVE  Believes(x)' <=> x \in HomeUrl'
  <2>1. Believes(x)' <=> Believes(x) BY <1>9, BelievesSame
  <2>2. Believes(x) <=> x \in HomeUrl BY <1>9 DEF BelievesInv
  <2> QED BY <1>9, <2>1, <2>2 DEF HomeUrl
<1>10. CASE CheckConnections \/ CheckDone
  BY <1>9, <1>10 DEF CheckConnections, CheckDone, AtLoop, homeWatch, places, channels
<1>11. ASSUME NEW u \in RelayUrl, SendDatagram(u) \/ Unstuck(u) \/ RouteAnswer(u)
       PROVE  Believes(x)' <=> x \in HomeUrl'
  BY <1>9, <1>11 DEF SendDatagram, Unstuck, RouteAnswer, AtLoop, homeWatch, places
<1>12. ASSUME NEW u \in RelayUrl, NEW p \in Peer, AskRoutes(u, p)
       PROVE  Believes(x)' <=> x \in HomeUrl'
  BY <1>9, <1>12 DEF AskRoutes, AtLoop, homeWatch, places, channels
<1>13. CASE RelayActorNext
  BY <1>3, <1>4, <1>5, <1>6, <1>7, <1>8, <1>10, <1>11, <1>12, <1>13 DEF RelayActorNext
<1> QED BY <1>1, <1>13 DEF RelayNext

-----------------------------------------------------------------------------
\* The inbox q holds the news that its actor is at home.
HasNews(q) == \E i \in DOMAIN q : q[i] = "home"

LEMMA NewsAppend ==
  ASSUME NEW q \in Seq(ActiveRelayMessage), NEW m \in ActiveRelayMessage, HasNews(q) \/ m = "home"
  PROVE  HasNews(Append(q, m))
<1>1. CASE m = "home"
  <2>1. Len(q) + 1 \in DOMAIN Append(q, m) /\ Append(q, m)[Len(q) + 1] = m OBVIOUS
  <2> QED BY <1>1, <2>1 DEF HasNews
<1>2. CASE HasNews(q)
  <2>1. PICK i \in DOMAIN q : q[i] = "home" BY <1>2 DEF HasNews
  <2>2. i \in DOMAIN Append(q, m) /\ Append(q, m)[i] = q[i] OBVIOUS
  <2> QED BY <2>1, <2>2 DEF HasNews
<1> QED BY <1>1, <1>2

LEMMA NewsTail ==
  ASSUME NEW q \in Seq(ActiveRelayMessage), q # <<>>, Head(q) # "home", HasNews(q)
  PROVE  HasNews(Tail(q))
<1>1. PICK i \in DOMAIN q : q[i] = "home" BY DEF HasNews
<1>2. i # 1 BY <1>1
<1>3. i - 1 \in DOMAIN Tail(q) /\ Tail(q)[i - 1] = q[i] BY <1>2
<1> QED BY <1>1, <1>3 DEF HasNews

\* The two parts of HomeStatusIsTrue, for a home relay.
Truthful(h) ==
  h.state = "Connected" =>
    \/ task[h.url] \in {"connected", "sending", "promoted", "failed", "connecting", "stopping"}
    \/ task[h.url] = "off" /\ unjoined > 0
Informed(h) ==
  (task[h.url] \in {"connected", "sending"} /\ h.state # "Connected") =>
    HasNews(relayInbox[h.url]) \/ (boss.pc = "tell" /\ h.url \in boss.todo)

\* HomeStatusIsTrue, under the steps of an ActiveRelayActor.
LEMMA ActorStatusStep ==
  ASSUME RelayTypeOK, RelayTypeOK', PlacesInv, NEW u \in RelayUrl, ActiveRelayNext(u),
         NEW h \in home', ~overwritten', \A g \in home : Truthful(g) /\ Informed(g)
  PROVE  Truthful(h)' /\ Informed(h)'
<1>0. /\ task \in [RelayUrl -> Place] /\ relayInbox \in [RelayUrl -> Seq(ActiveRelayMessage)] /\ unjoined \in Nat
      /\ h.url \in RelayUrl /\ home' \subseteq HomeRelay
  BY DEF RelayTypeOK, HomeRelay
<1>1. /\ task[u] # "off" /\ UNCHANGED boss
      /\ (h.url # u => task'[h.url] = task[h.url] /\ relayInbox'[h.url] = relayInbox[h.url])
  BY <1>0, ActorFrame
<1>2. CASE StatusSet(u)
  <2>1. task[u] \in {"connecting", "dialed", "promoted", "failed"} BY <1>2 DEF StatusSet, PlacesInv, Published
  <2>2. h.url = u /\ h.state = Published[task[u]] BY <1>2 DEF StatusSet
  <2>3. task'[u] = AfterPublish(u) BY <1>0, <1>2 DEF StatusSet, Publish, Goto
  <2>4. h.state = "Connected" <=> task'[u] = "connected" BY <2>1, <2>2, <2>3 DEF Published, AfterPublish
  <2>5. task'[u] # "sending" BY <2>1, <2>3 DEF AfterPublish
  <2> QED BY <2>2, <2>4, <2>5 DEF Truthful, Informed
<1>3. CASE ~StatusSet(u)
  <2>1. h \in home
    BY <1>3 DEF ActiveRelayNext, StatusGet, BackoffOver, DialOk, DialFails, Flush, RelayReceive, StartSending,
                SendingDone, HandleRelayMsg, ConnectionFails, ActorStops, SinkClosed, homeWatch
  <2>2. Truthful(h) /\ Informed(h) BY <2>1
  <2>3. unjoined' = unjoined \/ unjoined' = unjoined + 1
    BY <1>3 DEF ActiveRelayNext, StatusGet, Publish, BackoffOver, DialOk, DialFails, Flush, RelayReceive, StartSending,
                SendingDone, HandleRelayMsg, ConnectionFails, ActorStops, SinkClosed, End, places
  <2>4. CASE h.url # u BY <1>0, <1>1, <2>2, <2>3, <2>4 DEF Truthful, Informed
  <2>5. CASE h.url = u
    <3> USE DEF homeWatch, places, channels, Goto
    <3>1. CASE task'[u] = task[u] /\ relayInbox'[u] = relayInbox[u]
      BY <1>0, <1>1, <2>2, <2>3, <2>5, <3>1 DEF Truthful, Informed
    <3>2. CASE StatusGet(u) \/ Flush(u) \/ HandleRelayMsg(u)
      <4>1. StatusGet(u) => u \in HomeUrl BY <2>1, <2>5 DEF HomeUrl
      <4> QED BY <3>1, <3>2, <4>1 DEF StatusGet, Flush, HandleRelayMsg
    <3>3. CASE task'[u] \in {"connecting", "failed", "promoted"}
      BY <2>5, <3>3 DEF Truthful, Informed
    <3>4. CASE BackoffOver(u) \/ DialFails(u) \/ ConnectionFails(u)
      BY <1>0, <3>3, <3>4 DEF BackoffOver, DialFails, ConnectionFails, Fail
    <3>5. CASE DialOk(u)
      <4>1. task[u] = "dialing" /\ task'[u] = "dialed" BY <1>0, <3>5 DEF DialOk
      <4> QED BY <2>2, <2>5, <4>1 DEF Truthful, Informed
    <3>6. CASE StartSending(u) \/ SendingDone(u)
      <4>1. /\ task[u] \in {"connected", "sending"} /\ task'[u] \in {"connected", "sending"}
            /\ relayInbox' = relayInbox
        BY <1>0, <3>6 DEF StartSending, SendingDone
      <4> QED BY <1>1, <2>2, <2>5, <4>1 DEF Truthful, Informed
    <3>7. CASE ActorStops(u) \/ SinkClosed(u)
      <4>1. (task'[u] = "off" /\ unjoined' > 0) \/ task'[u] = "stopping"
        BY <1>0, <3>7 DEF ActorStops, SinkClosed, End
      <4> QED BY <2>5, <4>1 DEF Truthful, Informed
    <3>8. CASE RelayReceive(u)
      <4>1. relayInbox[u] # <<>> /\ relayInbox'[u] = Tail(relayInbox[u]) /\ relayInbox[u] \in Seq(ActiveRelayMessage)
        BY <1>0, <3>8 DEF RelayReceive, HandleSetHomeRelay, HandleCheckConnection
      <4>2. CASE Head(relayInbox[u]) = "home" /\ task[u] = "connected"
        <5>1. task'[u] = "promoted"
          BY <1>0, <3>8, <4>2 DEF RelayReceive, HandleSetHomeRelay, HandleCheckConnection
        <5> QED BY <3>3, <5>1
      <4>3. CASE task[u] = "dialing"
        <5>1. task'[u] = "dialing"
          BY <1>0, <3>8, <4>3 DEF RelayReceive, HandleSetHomeRelay, HandleCheckConnection
        <5> QED BY <2>2, <2>5, <4>3, <5>1 DEF Truthful, Informed
      <4>4. CASE Head(relayInbox[u]) # "home" /\ task[u] = "connected"
        <5>1. task'[u] \in {"connected", "sending", "failed"}
          BY <1>0, <3>8, <4>4 DEF RelayReceive, HandleSetHomeRelay, HandleCheckConnection, Fail
        <5>2. HasNews(relayInbox[u]) => HasNews(relayInbox'[u]) BY <4>1, <4>4, NewsTail
        <5> QED BY <1>1, <2>2, <2>5, <4>4, <5>1, <5>2 DEF Truthful, Informed
      <4> QED BY <3>8, <4>2, <4>3, <4>4 DEF RelayReceive
    <3> QED BY <1>3, <3>2, <3>4, <3>5, <3>6, <3>7, <3>8 DEF ActiveRelayNext
  <2> QED BY <2>4, <2>5
<1> QED BY <1>2, <1>3

\* HomeStatusIsTrue, under the steps of RelayActor.
LEMMA RelayActorStatusStep ==
  ASSUME RelayTypeOK, RelayTypeOK', PlacesInv, HandleInv, RelayActorNext,
         NEW h \in home', ~overwritten', boss'.pc # "done",
         boss.pc # "done" /\ ~overwritten => \A g \in home : Truthful(g) /\ Informed(g)
  PROVE  Truthful(h)' /\ Informed(h)'
<1>0. /\ task \in [RelayUrl -> Place] /\ relayInbox \in [RelayUrl -> Seq(ActiveRelayMessage)] /\ unjoined \in Nat
      /\ h.url \in RelayUrl /\ boss \in BossState /\ boss.url \subseteq RelayUrl /\ HomeUrl \subseteq RelayUrl
      /\ active \in SUBSET RelayUrl
  BY DEF RelayTypeOK, HomeRelay, BossState, HomeUrl
\* A relay that has a task keeps it and its inbox, whatever is started.
<1>1. ASSUME NEW handles \in SUBSET RelayUrl, NEW u \in RelayUrl, ActiveRelayHandle(handles, u),
             u \notin handles => task[u] = "off", h \in home, ~overwritten, boss.pc # "done",
             ~(boss.pc = "tell" /\ h.url \in boss.todo),
             task[h.url] = "off" => (h.url = u /\ u \notin handles) \/ unjoined' = unjoined
      PROVE  Truthful(h)' /\ Informed(h)'
  <2>1. Truthful(h) /\ Informed(h) BY <1>1
  <2>2. task[h.url] # "off" => task'[h.url] = task[h.url] /\ relayInbox'[h.url] = relayInbox[h.url]
    BY <1>0, <1>1, HandleFrame
  <2>3. CASE task[h.url] # "off" BY <1>1, <2>1, <2>2, <2>3 DEF Truthful, Informed
  <2>4. CASE h.url = u /\ u \notin handles
    <3>1. task'[h.url] = "connecting" BY <1>1, <2>4, HandleTasks
    <3> QED BY <3>1 DEF Truthful, Informed
  <2>5. CASE task[h.url] = "off" /\ ~(h.url = u /\ u \notin handles)
    <3>1. task'[h.url] = task[h.url] BY <1>0, <1>1, <2>5, HandleTasks
    <3> QED BY <1>1, <2>1, <2>5, <3>1 DEF Truthful, Informed
  <2> QED BY <2>3, <2>4, <2>5
<1>2. CASE JoinAndReap
  <2> DEFINE handles == {u \in active : task[u] # "off"}
  <2>1. h \in home /\ ~overwritten /\ boss.pc = "loop" BY <1>2 DEF JoinAndReap, AtLoop, homeWatch
  <2>2. PICK u \in HomeUrl : ActiveRelayHandle(handles, u) BY <1>2, <2>1 DEF JoinAndReap
  <2>3. handles \in SUBSET RelayUrl /\ u \in RelayUrl BY <1>0
  <2>4. u \notin handles => task[u] = "off" BY <2>3 DEF PlacesInv
  <2>5. h.url = u BY <2>1, <2>2 DEF HomeUrl, RelayTypeOK
  <2>6. task[h.url] = "off" => u \notin handles BY <2>5
  <2> HIDE DEF handles
  <2> QED BY <1>1, <2>1, <2>2, <2>3, <2>4, <2>5, <2>6
<1>3. CASE EnsureHome \/ NoRoute
  <2>1. h \in home /\ ~overwritten /\ boss.pc # "done" /\ boss.todo = {} /\ unjoined' = unjoined
    BY <1>3 DEF EnsureHome, NoRoute, homeWatch
  <2>2. PICK u \in boss.url : ActiveRelayHandle(active, u) BY <1>3 DEF EnsureHome, NoRoute
  <2>3. u \in RelayUrl BY <1>0
  <2>4. u \notin active => task[u] = "off" BY <2>3 DEF PlacesInv
  <2> QED BY <1>0, <1>1, <2>1, <2>2, <2>3, <2>4
<1>4. CASE CloseAllActiveRelays
  BY <1>4 DEF CloseAllActiveRelays, Loop
<1>5. ASSUME NEW preferred \in {{}} \cup {{u} : u \in RelayUrl}, RelaysOnNetworkChange(preferred)
      PROVE  Truthful(h)' /\ Informed(h)'
  <2>1. preferred # {} BY <1>5 DEF RelaysOnNetworkChange
  <2>2. boss'.pc = "tell" /\ boss'.todo = active BY <1>5, <2>1 DEF RelaysOnNetworkChange, Loop
  <2>3. task' = task BY <1>5 DEF RelaysOnNetworkChange, places
  <2>4. h.state = "Connecting" BY <1>5, <2>1 DEF RelaysOnNetworkChange
  <2>5. task[h.url] # "off" => h.url \in active BY <1>0 DEF PlacesInv
  <2> QED BY <2>2, <2>3, <2>4, <2>5 DEF Truthful, Informed
<1>6. ASSUME NEW u \in RelayUrl, TellHome(u) PROVE Truthful(h)' /\ Informed(h)'
  <2> DEFINE m == IF u \in boss.url THEN "home" ELSE "away"
  <2>1. m \in ActiveRelayMessage /\ (u \in boss.url => m = "home") BY DEF ActiveRelayMessage
  <2>2. SendTo(u, m) /\ boss.pc = "tell" BY <1>6 DEF TellHome
  <2>3. UNCHANGED <<home, overwritten, task, unjoined>> /\ boss'.pc = "tell" /\ boss'.todo = boss.todo \ {u}
    BY <1>0, <2>2 DEF SendTo, homeWatch, places, BossState
  <2>4. Truthful(h) /\ Informed(h) BY <2>2, <2>3
  <2>5. h.url \in boss.url BY <2>2, <2>3 DEF HandleInv, HomeUrl
  <2> HIDE DEF m
  <2>6. Truthful(h)' BY <2>3, <2>4 DEF Truthful
  <2>7. CASE h.url = u /\ task[u] # "off"
    <3>1. relayInbox'[u] = Append(relayInbox[u], m) BY <1>0, <2>2, <2>7 DEF SendTo
    <3>2. HasNews(relayInbox'[u]) BY <1>0, <2>1, <2>5, <2>7, <3>1, NewsAppend
    <3> QED BY <2>6, <2>7, <3>2 DEF Informed
  <2>8. CASE h.url # u
    <3>1. relayInbox'[h.url] = relayInbox[h.url] BY <1>0, <2>2, <2>8 DEF SendTo
    <3> QED BY <2>2, <2>3, <2>4, <2>6, <2>8, <3>1 DEF Informed
  <2>9. CASE h.url = u /\ task[u] = "off" BY <2>3, <2>6, <2>9 DEF Informed
  <2> QED BY <2>7, <2>8, <2>9
<1>7. ASSUME NEW u \in RelayUrl, CheckOne(u) PROVE Truthful(h)' /\ Informed(h)'
  <2>1. "check" \in ActiveRelayMessage BY DEF ActiveRelayMessage
  <2>2. SendTo(u, "check") /\ boss.pc = "check" BY <1>7 DEF CheckOne
  <2>3. UNCHANGED <<home, overwritten, task, unjoined>> BY <2>2 DEF SendTo, homeWatch, places
  <2>4. Truthful(h) /\ Informed(h) BY <2>2, <2>3
  <2>5. HasNews(relayInbox[h.url]) => HasNews(relayInbox'[h.url])
    <3>1. CASE relayInbox'[h.url] = relayInbox[h.url] BY <3>1
    <3>2. CASE relayInbox'[h.url] # relayInbox[h.url]
      <4>1. relayInbox'[h.url] = Append(relayInbox[h.url], "check") BY <1>0, <2>2, <3>2 DEF SendTo
      <4> QED BY <1>0, <2>1, <4>1, NewsAppend
    <3> QED BY <3>1, <3>2
  <2> QED BY <2>2, <2>3, <2>4, <2>5 DEF Truthful, Informed
<1>8. ASSUME UNCHANGED <<home, overwritten, task, unjoined, relayInbox>>, boss.pc \notin {"tell", "done"}
      PROVE  Truthful(h)' /\ Informed(h)'
  <2>1. Truthful(h) /\ Informed(h) BY <1>8
  <2> QED BY <1>8, <2>1 DEF Truthful, Informed
<1>9. CASE CheckConnections \/ CheckDone
  BY <1>8, <1>9 DEF CheckConnections, CheckDone, AtLoop, homeWatch, places, channels
<1>10. ASSUME NEW u \in RelayUrl, SendDatagram(u) \/ Unstuck(u) \/ RouteAnswer(u)
       PROVE  Truthful(h)' /\ Informed(h)'
  BY <1>8, <1>10 DEF SendDatagram, Unstuck, RouteAnswer, AtLoop, homeWatch, places
<1>11. ASSUME NEW u \in RelayUrl, NEW p \in Peer, AskRoutes(u, p)
       PROVE  Truthful(h)' /\ Informed(h)'
  BY <1>8, <1>11 DEF AskRoutes, AtLoop, homeWatch, places, channels
<1> QED BY <1>2, <1>3, <1>4, <1>5, <1>6, <1>7, <1>9, <1>10, <1>11 DEF RelayActorNext

LEMMA StatusIsTrueFor ==
  HomeStatusIsTrue <=> \A h \in home : boss.pc # "done" /\ ~overwritten => Truthful(h) /\ Informed(h)
BY DEF HomeStatusIsTrue, Truthful, Informed, HasNews

LEMMA TransportStep == TransportInv /\ [RelayNext]_relayVars => TransportInv'
<1> SUFFICES ASSUME TransportInv, [RelayNext]_relayVars PROVE TransportInv' OBVIOUS
<1> USE DEF TransportInv
<1>1. CASE UNCHANGED relayVars
  <2>1. UNCHANGED <<home, matched, overwritten, active, task, isHome, state, relayInbox, queued, unjoined, boss, stuck>>
    BY <1>1 DEF relayVars, homeWatch, places, channels
  <2>2. RelayTypeOK' /\ PlacesInv' /\ HandleInv' /\ HomeStatusIsTrue'
    BY <2>1 DEF RelayTypeOK, PlacesInv, HandleInv, HomeUrl, HomeStatusIsTrue
  <2>3. BelievesInv'
    <3>1. \A u \in RelayUrl : Believes(u)' <=> Believes(u) BY <2>1, <2>2, BelievesSame
    <3> QED BY <2>1, <3>1 DEF BelievesInv, HomeUrl
  <2> QED BY <2>2, <2>3
<1>2. CASE RelayNext
  <2>1. RelayTypeOK' BY <1>2, ActorTypeStep, RelayActorTypeStep DEF RelayNext
  <2>2. PlacesInv' BY <1>2, ActorPlaces, RelayActorPlaces DEF RelayNext
  <2>3. HandleInv' BY <1>2, HandleStep
  <2>4. BelievesInv' BY <1>2, <2>1, BelievesStep
  <2>5. \A g \in home : boss.pc # "done" /\ ~overwritten => Truthful(g) /\ Informed(g) BY StatusIsTrueFor
  <2>6. \A h \in home' : boss'.pc # "done" /\ ~overwritten' => Truthful(h)' /\ Informed(h)'
    <3> SUFFICES ASSUME NEW h \in home', boss'.pc # "done", ~overwritten' PROVE Truthful(h)' /\ Informed(h)'
      OBVIOUS
    <3>1. CASE RelayActorNext BY <2>1, <2>5, <3>1, RelayActorStatusStep
    <3>2. ASSUME NEW u \in RelayUrl, ActiveRelayNext(u) PROVE Truthful(h)' /\ Informed(h)'
      <4>1. UNCHANGED boss /\ ~overwritten BY <3>2, ActorFrame, ActorHome
      <4>2. \A g \in home : Truthful(g) /\ Informed(g) BY <2>5, <4>1
      <4> QED BY <2>1, <3>2, <4>2, ActorStatusStep
    <3> QED BY <1>2, <3>1, <3>2 DEF RelayNext
  <2>7. HomeStatusIsTrue' BY <2>6 DEF HomeStatusIsTrue, Truthful, Informed, HasNews
  <2> QED BY <2>1, <2>2, <2>3, <2>4, <2>7
<1> QED BY <1>1, <1>2

LEMMA TransportInvariant == RelaySpec => []TransportInv
BY TransportInitially, TransportStep, PTL DEF RelaySpec

(***************************************************************************)
(* The relay connections keep their types: the inboxes and the datagram    *)
(* queues of the ActiveRelayActors never exceed their capacities, and the  *)
(* HomeRelayWatch holds at most one relay.                                 *)
(***************************************************************************)
THEOREM RelayTypeCorrect == RelaySpec => []RelayTypeOK
<1>1. TransportInv => RelayTypeOK BY DEF TransportInv
<1> QED BY <1>1, TransportInvariant, PTL

(***************************************************************************)
(* Whenever RelayActor is back in its loop, the home relay has an actor    *)
(* that takes itself for the home relay, or is about to, and no other      *)
(* actor does, for any number of relays and any length of the inboxes,     *)
(* unless a set_status overwrote a newer home relay.                       *)
(***************************************************************************)
THEOREM HomeIsServedHolds == RelaySpec => []HomeIsServed
<1>1. TransportInv => HomeIsServed
  <2> SUFFICES ASSUME TransportInv, boss.pc = "loop", home # {}, ~overwritten
               PROVE  /\ HomeUrl \subseteq active
                      /\ unjoined = 0 => \A u \in active : task[u] # "off" /\ (Believes(u) <=> u \in HomeUrl)
    BY DEF HomeIsServed
  <2>1. HomeUrl \subseteq active BY DEF TransportInv, HandleInv
  <2>2. ASSUME unjoined = 0, NEW u \in active PROVE task[u] # "off" /\ (Believes(u) <=> u \in HomeUrl)
    <3>1. u \in RelayUrl /\ task[u] # "off" BY <2>2 DEF TransportInv, RelayTypeOK, PlacesInv
    <3> QED BY <3>1 DEF TransportInv, BelievesInv
  <2> QED BY <2>1, <2>2
<1> QED BY <1>1, TransportInvariant, PTL

(***************************************************************************)
(* The status that HomeRelayWatch publishes tells the truth, however the   *)
(* reads and writes of set_status, the changes of the home relay and the   *)
(* ends of the actors interleave, unless a set_status overwrote a newer    *)
(* home relay.                                                             *)
(***************************************************************************)
THEOREM HomeStatusIsTrueHolds == RelaySpec => []HomeStatusIsTrue
<1>1. TransportInv => HomeStatusIsTrue BY DEF TransportInv
<1> QED BY <1>1, TransportInvariant, PTL

(***************************************************************************)
(* The net report client, for any number of relays, any latencies and any  *)
(* number of recent reports.                                               *)
(***************************************************************************)
\* The latencies of a report, and of a relay in a past one.
Latencies == UNION {[S -> Latency] : S \in SUBSET Key}
PastLatencies == UNION {[S -> Latency] : S \in SUBSET ProbedRelay}

LastReport == [silent : BOOLEAN, preferred : SUBSET ProbedRelay, trap : BOOLEAN]

Generation == [pc : {"idle", "qad", "probes"}, full : BOOLEAN, have : SUBSET Family, lat : Latencies,
               check : BOOLEAN, portal : BOOLEAN, asked : BOOLEAN]

\* What Reports holds: at most one last report, with at most one preferred relay, and room in the history
\* for the report under way.
ReportsInv ==
  /\ nextFull \in BOOLEAN /\ blank \in BOOLEAN
  /\ lastReport \subseteq LastReport /\ \A l, m \in lastReport : l = m
  /\ \A l \in lastReport : \A u, v \in l.preferred : u = v
  /\ history \in Seq(PastLatencies) /\ Len(history) <= MaxHistory
  /\ gen.pc # "idle" => Len(history) < MaxHistory

\* What the report under way and QadConns hold.
ProbesInv ==
  /\ gen \in Generation
  /\ qad \subseteq Family \X ProbedRelay /\ https \in [ProbedRelay -> 0..Attempts]
  /\ kept \in [Family -> SUBSET QadConn] /\ \A f \in Family : \A c, d \in kept[f] : c = d

\* A report asks by HTTPS when there is no last report, or the last one was blank.
AskedInv ==
  /\ \A l \in lastReport : l.silent = blank
  /\ gen.pc # "idle" => gen.asked = Plans(lastReport)

NetInv == ReportsInv /\ ProbesInv /\ AskedInv

-----------------------------------------------------------------------------
\* The least element of a set of naturals.
LEMMA MinIsLeast ==
  ASSUME NEW S \in SUBSET Nat, S # {}
  PROVE  Min(S) \in S /\ \A y \in S : Min(S) <= y
<1>1. \E x \in S : \A y \in S : x <= y BY NatMin
<1> QED BY <1>1 DEF Min

LEMMA FunctionOf ==
  ASSUME NEW K, NEW V, NEW f
  PROVE  f \in UNION {[S -> V] : S \in SUBSET K} <=> (f \in [DOMAIN f -> V] /\ DOMAIN f \subseteq K)
<1>1. ASSUME f \in UNION {[S -> V] : S \in SUBSET K} PROVE f \in [DOMAIN f -> V] /\ DOMAIN f \subseteq K
  <2>1. PICK S \in SUBSET K : f \in [S -> V] BY <1>1
  <2>2. DOMAIN f = S BY <2>1
  <2> QED BY <2>1, <2>2
<1>2. ASSUME f \in [DOMAIN f -> V], DOMAIN f \subseteq K PROVE f \in UNION {[S -> V] : S \in SUBSET K}
  BY <1>2
<1> QED BY <1>1, <1>2

LEMMA LatenciesAre ==
  ASSUME NEW lat
  PROVE  lat \in Latencies <=> (lat \in [DOMAIN lat -> Latency] /\ DOMAIN lat \subseteq Key)
BY FunctionOf DEF Latencies

LEMMA PastLatenciesAre ==
  ASSUME NEW lat
  PROVE  lat \in PastLatencies <=> (lat \in [DOMAIN lat -> Latency] /\ DOMAIN lat \subseteq ProbedRelay)
BY FunctionOf DEF PastLatencies

LEMMA NoLatencies ==
  /\ <<>> \in Latencies /\ DOMAIN <<>> = {}
  /\ \A lat \in Latencies : lat = <<>> <=> DOMAIN lat = {}
<1>1. DOMAIN <<>> = {} OBVIOUS
<1>2. <<>> = [k \in {} |-> 0] OBVIOUS
<1>3. <<>> \in [{} -> Latency] BY <1>2
<1>4. <<>> \in Latencies BY <1>3 DEF Latencies
<1>5. ASSUME NEW lat \in Latencies, DOMAIN lat = {} PROVE lat = <<>>
  <2>1. lat = [k \in {} |-> lat[k]] BY <1>5, LatenciesAre
  <2> QED BY <1>2, <2>1
<1> QED BY <1>1, <1>4, <1>5

LEMMA LatencyIsNat == Latency \subseteq Nat
BY NetReportAssumption

\* update_relay.
LEMMA UpdateTypes ==
  ASSUME NEW lat \in Latencies, NEW key \in Key, NEW d \in Latency
  PROVE  UpdateRelay(lat, key, d) \in Latencies
<1> DEFINE new == UpdateRelay(lat, key, d)
<1>1. lat \in [DOMAIN lat -> Latency] /\ DOMAIN lat \subseteq Key BY LatenciesAre
<1>2. DOMAIN new = DOMAIN lat \cup {key} BY DEF UpdateRelay
<1>3. ASSUME NEW k \in DOMAIN lat \cup {key}
      PROVE  (IF k # key THEN lat[k] ELSE IF key \in DOMAIN lat THEN Min({lat[key], d}) ELSE d) \in Latency
  <2>1. CASE k # key BY <1>1, <1>3, <2>1
  <2>2. CASE k = key /\ key \notin DOMAIN lat BY <2>2
  <2>3. CASE k = key /\ key \in DOMAIN lat
    <3>1. {lat[key], d} \in SUBSET Latency BY <1>1, <2>3
    <3>2. Min({lat[key], d}) \in {lat[key], d} BY <3>1, LatencyIsNat, MinIsLeast
    <3> QED BY <2>3, <3>1, <3>2
  <2> QED BY <2>1, <2>2, <2>3
<1>4. new \in [DOMAIN new -> Latency] BY <1>2, <1>3 DEF UpdateRelay
<1> QED BY <1>1, <1>2, <1>4, LatenciesAre

\* RelayLatencies::get.
LEMMA BestLatencyIs ==
  ASSUME NEW lat \in Latencies
  PROVE  /\ BestLatency(lat) \in PastLatencies
         /\ DOMAIN BestLatency(lat) = Alive(lat)
         /\ \A k \in DOMAIN lat : k[2] \in Alive(lat) /\ BestLatency(lat)[k[2]] <= lat[k]
<1>1. lat \in [DOMAIN lat -> Latency] /\ DOMAIN lat \subseteq Key BY LatenciesAre
<1>2. DOMAIN BestLatency(lat) = Alive(lat) BY DEF BestLatency
<1>3. Alive(lat) \subseteq ProbedRelay BY <1>1 DEF Alive, Key
<1> DEFINE Of(u) == {lat[k] : k \in {x \in DOMAIN lat : x[2] = u}}
<1>4. \A u \in Alive(lat) : Of(u) \in SUBSET Latency /\ Of(u) # {} BY <1>1 DEF Alive
<1>5. \A u \in Alive(lat) : BestLatency(lat)[u] = Min(Of(u)) BY DEF BestLatency
<1>6. \A k \in DOMAIN lat : k[2] \in Alive(lat) /\ lat[k] \in Of(k[2]) BY DEF Alive
<1> HIDE DEF Of
<1>7. \A u \in Alive(lat) : Min(Of(u)) \in Of(u) /\ \A y \in Of(u) : Min(Of(u)) <= y
  <2> SUFFICES ASSUME NEW u \in Alive(lat) PROVE Min(Of(u)) \in Of(u) /\ \A y \in Of(u) : Min(Of(u)) <= y
    OBVIOUS
  <2>1. Of(u) \in SUBSET Nat /\ Of(u) # {} BY <1>4, LatencyIsNat
  <2> QED BY <2>1, MinIsLeast
<1>8. \A u \in Alive(lat) : BestLatency(lat)[u] \in Latency BY <1>4, <1>5, <1>7
<1>9. BestLatency(lat) \in [DOMAIN BestLatency(lat) -> Latency] BY <1>2, <1>8 DEF BestLatency
<1>10. BestLatency(lat) \in PastLatencies BY <1>2, <1>3, <1>9, PastLatenciesAre
<1> QED BY <1>2, <1>5, <1>6, <1>7, <1>10

-----------------------------------------------------------------------------
LEMMA NetInitially == NetInit => NetInv
<1> SUFFICES ASSUME NetInit PROVE NetInv OBVIOUS
<1> USE NetReportAssumption DEF NetInit
<1>1. NoGen \in Generation BY NoLatencies DEF NoGen, Generation
<1>2. https \in [ProbedRelay -> 0..Attempts] BY DEF NoProbes
<1>3. ProbesInv BY <1>1, <1>2 DEF ProbesInv
<1>4. gen.pc = "idle" BY DEF NoGen
<1>5. ReportsInv
  <2>1. history \in Seq(PastLatencies) /\ Len(history) = 0 OBVIOUS
  <2>2. nextFull \in BOOLEAN /\ blank \in BOOLEAN /\ lastReport = {} OBVIOUS
  <2> QED BY <1>4, <2>1, <2>2 DEF ReportsInv
<1> QED BY <1>3, <1>4, <1>5 DEF NetInv, AskedInv

LEMMA NoProbesType == NoProbes \in [ProbedRelay -> 0..Attempts] /\ NoGen \in Generation /\ NoGen.pc = "idle"
BY NetReportAssumption, NoLatencies DEF NoProbes, NoGen, Generation

\* The last report's preferred relay, as a set of at most one.
OldPreferred == UNION {l.preferred : l \in lastReport}

LEMMA OldPreferredIs ==
  ASSUME ReportsInv
  PROVE  OldPreferred \subseteq ProbedRelay /\ \A u, v \in OldPreferred : u = v
<1>1. \A l \in lastReport : l.preferred \subseteq ProbedRelay BY DEF ReportsInv, LastReport
<1>2. ASSUME NEW u \in OldPreferred, NEW v \in OldPreferred PROVE u = v
  <2>1. PICK l \in lastReport : u \in l.preferred BY DEF OldPreferred
  <2>2. PICK m \in lastReport : v \in m.preferred BY DEF OldPreferred
  <2>3. l = m BY DEF ReportsInv
  <2> QED BY <2>1, <2>2, <2>3 DEF ReportsInv
<1> QED BY <1>1, <1>2 DEF OldPreferred

\* The choice: nothing without latencies, else a best relay, or the old one when it answers and is good enough.
LEMMA PreferredIs ==
  ASSUME NEW lat, NEW preferred \in Preferred(lat)
  PROVE  \/ lat = <<>> /\ preferred = {}
         \/ /\ lat # <<>>
            /\ \E u \in BestRelay(history, lat) :
                 \/ preferred = {u}
                 \/ /\ preferred = OldPreferred
                    /\ \E old \in OldPreferred : Sticks(lat, old, BestRecent(history, lat, u))
<1>1. CASE lat = <<>> BY <1>1 DEF Preferred
<1>2. CASE lat # <<>>
  <2>1. PICK u \in BestRelay(history, lat) :
          preferred = IF \E old \in OldPreferred : old # u /\ Sticks(lat, old, BestRecent(history, lat, u))
                        THEN OldPreferred ELSE {u}
    BY <1>2 DEF Preferred, OldPreferred
  <2> QED BY <1>2, <2>1
<1> QED BY <1>1, <1>2

LEMMA FinishStep ==
  ASSUME NetInv, NEW lat \in Latencies, gen.pc # "idle", Finish(lat), UNCHANGED nextFull
  PROVE  ReportsInv' /\ AskedInv' /\ gen' = NoGen /\ qad' = {} /\ https' = NoProbes
<1>1. PICK preferred \in Preferred(lat) :
        lastReport' = {[silent |-> lat = <<>>, preferred |-> preferred, trap |-> gen.portal /\ UdpAnswers(lat) = {}]}
  BY DEF Finish
<1> DEFINE l == [silent |-> lat = <<>>, preferred |-> preferred, trap |-> gen.portal /\ UdpAnswers(lat) = {}]
<1>2. preferred \subseteq ProbedRelay /\ \A u, v \in preferred : u = v
  <2>1. BestRelay(history, lat) \subseteq ProbedRelay
    BY LatenciesAre DEF BestRelay, Alive, Key
  <2> QED BY <2>1, PreferredIs, OldPreferredIs DEF NetInv
<1>3. l \in LastReport BY <1>2 DEF LastReport
<1>4. l.preferred = preferred /\ l.silent = (lat = <<>>) OBVIOUS
<1>5. lastReport' = {l} BY <1>1
<1> HIDE DEF l
<1>6. history' \in Seq(PastLatencies) /\ Len(history') = Len(history) + 1
  BY BestLatencyIs DEF Finish, NetInv, ReportsInv
<1>7. gen' = NoGen /\ qad' = {} /\ https' = NoProbes /\ blank' = (lat = <<>>) BY DEF Finish
<1>8. gen'.pc = "idle" BY <1>7, NoProbesType
<1>9. Len(history) \in Nat /\ Len(history) < MaxHistory BY DEF NetInv, ReportsInv
<1>10. ReportsInv'
  <2>1. nextFull' \in BOOLEAN /\ blank' \in BOOLEAN BY <1>7 DEF NetInv, ReportsInv
  <2>2. lastReport' \subseteq LastReport /\ (\A a, b \in lastReport' : a = b)
        /\ \A a \in lastReport' : \A u, v \in a.preferred : u = v
    BY <1>2, <1>3, <1>4, <1>5
  <2>3. Len(history') <= MaxHistory BY <1>6, <1>9, NetReportAssumption
  <2> QED BY <1>6, <1>8, <2>1, <2>2, <2>3 DEF ReportsInv
<1>11. AskedInv' BY <1>4, <1>5, <1>7, <1>8 DEF AskedInv
<1> QED BY <1>7, <1>10, <1>11

\* StartReport: the latencies of the connections that are kept.
LEMMA StartStep ==
  ASSUME NetInv, NEW major \in BOOLEAN, NEW have \in SUBSET Family, StartReport(major, have)
  PROVE  NetInv'
<1> DEFINE full == major \/ nextFull \/ \E l \in lastReport : l.trap
           last == IF full THEN {} ELSE lastReport
           conns == [f \in Family |-> IF full THEN {} ELSE kept[f]]
<1>1. /\ gen.pc = "idle" /\ Len(history) < MaxHistory
      /\ nextFull' = (nextFull /\ ~full) /\ lastReport' = last
      /\ qad' = SpawnQadProbes(have, conns)
      /\ https' = [u \in ProbedRelay |-> IF Plans(last) THEN Attempts ELSE 0]
      /\ kept' = conns /\ UNCHANGED <<history, blank>>
  BY DEF StartReport
<1>2. PICK rtt \in [Current(conns) -> Latency] :
        gen' = [pc |-> "qad", full |-> full, have |-> have, check |-> last = {}, portal |-> FALSE,
                asked |-> Plans(last),
                lat |-> [k \in {x \in Current(conns) \X ProbedRelay : \E c \in conns[x[1]] : c.url = x[2]} |-> rtt[k[1]]]]
  BY DEF StartReport
<1>3. full \in BOOLEAN OBVIOUS
<1>4. last = {} \/ last = lastReport OBVIOUS
<1>5. conns \in [Family -> SUBSET QadConn] /\ \A f \in Family : \A c, d \in conns[f] : c = d
  BY DEF NetInv, ProbesInv
<1>6. Current(conns) \subseteq Family BY DEF Current
<1>7. Plans(last) \in BOOLEAN BY DEF Plans
<1> HIDE DEF full, last, conns
<1>8. gen'.lat \in Latencies
  <2> DEFINE K == {x \in Current(conns) \X ProbedRelay : \E c \in conns[x[1]] : c.url = x[2]}
  <2>1. gen'.lat = [k \in K |-> rtt[k[1]]] BY <1>2
  <2>2. K \subseteq Key BY <1>6 DEF Key
  <2>3. \A k \in K : k[1] \in Current(conns) OBVIOUS
  <2> HIDE DEF K
  <2>4. gen'.lat \in [K -> Latency] BY <2>1, <2>3
  <2> QED BY <2>2, <2>4 DEF Latencies
<1>9. gen' \in Generation /\ gen'.pc = "qad" /\ gen'.asked = Plans(last)
  BY <1>2, <1>3, <1>7, <1>8 DEF Generation
<1>10. ProbesInv'
  <2>1. qad' \subseteq Family \X ProbedRelay BY <1>1, <1>6, NetReportAssumption DEF SpawnQadProbes
  <2>2. https' \in [ProbedRelay -> 0..Attempts] BY <1>1, NetReportAssumption
  <2> QED BY <1>1, <1>5, <1>9, <2>1, <2>2 DEF ProbesInv
<1>11. ReportsInv' BY <1>1, <1>4 DEF NetInv, ReportsInv
<1>12. AskedInv' BY <1>1, <1>4, <1>9 DEF NetInv, AskedInv
<1> QED BY <1>10, <1>11, <1>12 DEF NetInv

\* A step that changes neither the reports nor the plan.
LEMMA ReportsSame ==
  ASSUME NetInv, UNCHANGED <<nextFull, lastReport, history, blank>>,
         gen'.pc # "idle" => gen.pc # "idle" /\ gen'.asked = gen.asked
  PROVE  ReportsInv' /\ AskedInv'
BY DEF NetInv, ReportsInv, AskedInv

\* The places of the report under way change, and its latencies, by an answer.
LEMMA GenUpdated ==
  ASSUME ProbesInv, NEW key \in Key, NEW d \in Latency, gen' = [gen EXCEPT !.lat = UpdateRelay(@, key, d)]
  PROVE  gen' \in Generation /\ gen'.pc = gen.pc /\ gen'.asked = gen.asked
<1>1. gen \in Generation /\ gen.lat \in Latencies BY DEF ProbesInv, Generation
<1>2. UpdateRelay(gen.lat, key, d) \in Latencies BY <1>1, UpdateTypes
<1> QED BY <1>1, <1>2 DEF Generation

\* The connections that are kept, each changed by an operator that keeps its type.
LEMMA KeptOne ==
  ASSUME ProbesInv, NEW f \in Family, NEW S \in SUBSET QadConn, \A c, d \in S : c = d, kept' = [kept EXCEPT ![f] = S]
  PROVE  kept' \in [Family -> SUBSET QadConn] /\ \A g \in Family : \A c, d \in kept'[g] : c = d
BY DEF ProbesInv

\* The QAD probes.
LEMMA QadStep ==
  ASSUME NetInv, NEW f \in Family, NEW u \in ProbedRelay,
         QadFailed(f, u) \/ \E d \in Latency : QadJoined(f, u, d)
  PROVE  NetInv'
<1>0. ReportsInv /\ ProbesInv /\ AskedInv BY DEF NetInv
<1>1. qad' \subseteq Family \X ProbedRelay /\ https' \in [ProbedRelay -> 0..Attempts]
      /\ UNCHANGED <<nextFull, lastReport, history, blank>>
  BY <1>0 DEF QadJoined, QadFailed, ProbesInv
<1>2. CASE QadFailed(f, u)
  <2>1. gen' = gen /\ kept' = kept BY <1>2 DEF QadFailed
  <2> QED BY <1>0, <1>1, <2>1, ReportsSame DEF NetInv, ProbesInv
<1>3. ASSUME NEW d \in Latency, QadJoined(f, u, d) PROVE NetInv'
  <2>1. <<f, u>> \in Key BY DEF Key
  <2>2. gen' \in Generation /\ gen'.pc = gen.pc /\ gen'.asked = gen.asked
    BY <1>0, <1>3, <2>1, GenUpdated DEF QadJoined
  <2> DEFINE S == {[url |-> u, seen |-> FALSE, watched |-> TRUE, young |-> TRUE]}
  <2>3. S \in SUBSET QadConn /\ \A c, e \in S : c = e BY DEF QadConn
  <2>4. kept' = kept \/ kept' = [kept EXCEPT ![f] = S] BY <1>3 DEF QadJoined
  <2> HIDE DEF S
  <2>5. kept' \in [Family -> SUBSET QadConn] /\ \A g \in Family : \A c, e \in kept'[g] : c = e
    <3>1. CASE kept' = kept BY <1>0, <3>1 DEF ProbesInv
    <3>2. CASE kept' = [kept EXCEPT ![f] = S] BY <1>0, <2>3, <3>2, KeptOne
    <3> QED BY <2>4, <3>1, <3>2
  <2>6. gen'.pc # "idle" => gen.pc # "idle" /\ gen'.asked = gen.asked BY <2>2
  <2> QED BY <1>1, <2>2, <2>5, <2>6, ReportsSame DEF NetInv, ProbesInv
<1> QED BY <1>2, <1>3

\* QAD ends: the tokens are cancelled, and the report is made or goes on.
LEMMA QadEndStep ==
  ASSUME NetInv, QadEnds
  PROVE  NetInv'
<1>0. ReportsInv /\ ProbesInv /\ AskedInv /\ gen \in Generation /\ gen.lat \in Latencies /\ gen.pc = "qad"
  BY DEF NetInv, ProbesInv, Generation, QadEnds
<1>1. kept' \in [Family -> SUBSET QadConn] /\ \A g \in Family : \A c, d \in kept'[g] : c = d
  <2> DEFINE New(c) == [c EXCEPT !.watched = @ /\ (qad = {} \/ ~c.young), !.young = FALSE]
  <2>1. kept' = [f \in Family |-> {New(c) : c \in kept[f]}] BY DEF QadEnds
  <2>2. \A c \in QadConn : New(c) \in QadConn
    <3> SUFFICES ASSUME NEW c \in QadConn PROVE New(c) \in QadConn OBVIOUS
    <3>1. (c.watched /\ (qad = {} \/ ~c.young)) \in BOOLEAN OBVIOUS
    <3> QED BY <3>1 DEF QadConn
  <2> HIDE DEF New
  <2> QED BY <1>0, <2>1, <2>2 DEF ProbesInv
<1>2. CASE Finish(gen.lat)
  <2>1. ReportsInv' /\ AskedInv' /\ gen' = NoGen /\ qad' = {} /\ https' = NoProbes
    BY <1>0, <1>2, FinishStep DEF QadEnds
  <2> QED BY <1>1, <2>1, NoProbesType DEF NetInv, ProbesInv
<1>3. CASE gen' = [gen EXCEPT !.pc = "probes"] /\ qad' = {} /\ UNCHANGED <<lastReport, history, https, blank>>
  <2>1. gen' \in Generation /\ gen'.asked = gen.asked BY <1>0, <1>3 DEF Generation
  <2>2. ReportsInv' /\ AskedInv' BY <1>0, <1>3, <2>1, ReportsSame DEF QadEnds
  <2> QED BY <1>0, <1>1, <1>3, <2>1, <2>2 DEF NetInv, ProbesInv
<1> QED BY <1>2, <1>3 DEF QadEnds

\* The HTTPS probes, and the ends of reportgen.
LEMMA ProbeStep ==
  ASSUME NetInv,
         \/ \E u \in ProbedRelay : ProbeFailed(u) \/ \E d \in Latency : ProbeFinished(u, d)
         \/ \E found \in BOOLEAN : PortalChecked(found)
         \/ ReportgenEnds \/ ReportgenTimesOut
  PROVE  NetInv'
<1>0. /\ ReportsInv /\ ProbesInv /\ AskedInv /\ gen \in Generation /\ gen.lat \in Latencies
      /\ https \in [ProbedRelay -> 0..Attempts]
  BY DEF NetInv, ProbesInv, Generation
<1>1. ASSUME NEW lat \in Latencies, Finish(lat), gen.pc = "probes", UNCHANGED <<nextFull, kept>> PROVE NetInv'
  <2>1. ReportsInv' /\ AskedInv' /\ gen' = NoGen /\ qad' = {} /\ https' = NoProbes
    BY <1>1, FinishStep
  <2> QED BY <1>0, <1>1, <2>1, NoProbesType DEF NetInv, ProbesInv
<1>2. CASE ReportgenEnds \/ ReportgenTimesOut
  BY <1>0, <1>1, <1>2 DEF ReportgenEnds, ReportgenTimesOut
<1>3. ASSUME NEW u \in ProbedRelay, https[u] > 0
      PROVE  [https EXCEPT ![u] = @ - 1] \in [ProbedRelay -> 0..Attempts]
  <2>1. https[u] - 1 \in 0..Attempts BY <1>0, <1>3, NetReportAssumption
  <2> QED BY <1>0, <2>1
<1>4. ASSUME NEW u \in ProbedRelay, ProbeFailed(u) PROVE NetInv'
  <2>1. https' \in [ProbedRelay -> 0..Attempts] BY <1>3, <1>4 DEF ProbeFailed
  <2> QED BY <1>0, <1>4, <2>1, ReportsSame DEF ProbeFailed, NetInv, ProbesInv
<1>5. ASSUME NEW u \in ProbedRelay, NEW d \in Latency, ProbeFinished(u, d) PROVE NetInv'
  <2> DEFINE lat == UpdateRelay(gen.lat, <<"https", u>>, d)
  <2>1. <<"https", u>> \in Key BY DEF Key
  <2>2. lat \in Latencies BY <1>0, <2>1, UpdateTypes
  <2>3. gen.pc = "probes" /\ https[u] > 0 /\ UNCHANGED <<nextFull, kept>> BY <1>5 DEF ProbeFinished
  <2>4. CASE Finish(lat)
    <3> HIDE DEF lat
    <3> QED BY <1>1, <2>2, <2>3, <2>4
  <2>5. CASE gen' = [gen EXCEPT !.lat = lat] /\ https' = [https EXCEPT ![u] = @ - 1]
             /\ UNCHANGED <<lastReport, history, qad, blank>>
    <3> HIDE DEF lat
    <3>1. gen' \in Generation /\ gen'.pc = gen.pc /\ gen'.asked = gen.asked BY <1>0, <2>2, <2>5 DEF Generation
    <3>2. https' \in [ProbedRelay -> 0..Attempts] BY <1>3, <2>3, <2>5
    <3>3. ReportsInv' /\ AskedInv' BY <2>3, <2>5, <3>1, ReportsSame
    <3> QED BY <1>0, <2>3, <2>5, <3>1, <3>2, <3>3 DEF NetInv, ProbesInv
  <2> QED BY <1>5, <2>4, <2>5 DEF ProbeFinished
<1>6. ASSUME NEW found \in BOOLEAN, PortalChecked(found) PROVE NetInv'
  <2>1. gen' \in Generation /\ gen'.pc = gen.pc /\ gen'.asked = gen.asked
    BY <1>0, <1>6 DEF PortalChecked, Generation
  <2>2. ReportsInv' /\ AskedInv' BY <1>6, <2>1, ReportsSame DEF PortalChecked
  <2> QED BY <1>0, <1>6, <2>1, <2>2 DEF PortalChecked, NetInv, ProbesInv
<1> QED BY <1>2, <1>4, <1>5, <1>6

\* The kept connections, the clock, and a report that is dropped.
LEMMA BetweenStep ==
  ASSUME NetInv,
         \/ \E f \in Family : KeptClosed(f) \/ \E d \in Latency : Observed(f, d)
         \/ ReportDropped \/ HistoryAges
  PROVE  NetInv'
<1>0. ReportsInv /\ ProbesInv /\ AskedInv /\ gen \in Generation BY DEF NetInv, ProbesInv
<1>1. ASSUME NEW f \in Family, KeptClosed(f) PROVE NetInv'
  <2>1. kept' \in [Family -> SUBSET QadConn] /\ \A g \in Family : \A c, d \in kept'[g] : c = d
    <3>1. kept' = [kept EXCEPT ![f] = {}] BY <1>1 DEF KeptClosed
    <3> QED BY <1>0, <3>1, KeptOne
  <2>2. UNCHANGED <<nextFull, lastReport, history, gen, qad, https, blank>> BY <1>1 DEF KeptClosed
  <2>3. ReportsInv' /\ AskedInv' BY <2>2, ReportsSame
  <2> QED BY <1>0, <2>1, <2>2, <2>3 DEF NetInv, ProbesInv
<1>2. ASSUME NEW f \in Family, NEW d \in Latency, Observed(f, d) PROVE NetInv'
  <2>1. PICK c \in kept[f] :
          /\ kept' = [kept EXCEPT ![f] = {[c EXCEPT !.seen = TRUE]}]
          /\ gen' = IF gen.pc = "probes" THEN [gen EXCEPT !.lat = UpdateRelay(@, <<f, c.url>>, d)] ELSE gen
    BY <1>2 DEF Observed
  <2>2. c \in QadConn BY <1>0 DEF ProbesInv
  <2>3. [c EXCEPT !.seen = TRUE] \in QadConn /\ <<f, c.url>> \in Key BY <2>2 DEF QadConn, Key
  <2>4. kept' \in [Family -> SUBSET QadConn] /\ \A g \in Family : \A a, b \in kept'[g] : a = b
    <3> DEFINE S == {[c EXCEPT !.seen = TRUE]}
    <3>1. S \in SUBSET QadConn /\ (\A a, b \in S : a = b) /\ kept' = [kept EXCEPT ![f] = S] BY <2>1, <2>3
    <3> HIDE DEF S
    <3> QED BY <1>0, <3>1, KeptOne
  <2>5. gen' \in Generation /\ gen'.pc = gen.pc /\ gen'.asked = gen.asked
    <3>1. CASE gen.pc = "probes" BY <1>0, <2>1, <2>3, <3>1, GenUpdated
    <3>2. CASE gen.pc # "probes" BY <1>0, <2>1, <3>2
    <3> QED BY <3>1, <3>2
  <2>6. UNCHANGED <<nextFull, lastReport, history, qad, https, blank>> BY <1>2 DEF Observed
  <2>7. ReportsInv' /\ AskedInv' BY <2>5, <2>6, ReportsSame
  <2> QED BY <1>0, <2>4, <2>5, <2>6, <2>7 DEF NetInv, ProbesInv
<1>3. CASE ReportDropped
  <2>1. kept' \in [Family -> SUBSET QadConn] /\ \A g \in Family : \A c, d \in kept'[g] : c = d
    <3> DEFINE New(c) == [c EXCEPT !.young = FALSE]
    <3>1. kept' = [f \in Family |-> {New(c) : c \in kept[f]}] BY <1>3 DEF ReportDropped
    <3>2. \A c \in QadConn : New(c) \in QadConn BY DEF QadConn
    <3> HIDE DEF New
    <3> QED BY <1>0, <3>1, <3>2 DEF ProbesInv
  <2>2. gen' = NoGen /\ qad' = {} /\ https' = NoProbes /\ UNCHANGED <<nextFull, lastReport, history, blank>>
    BY <1>3 DEF ReportDropped
  <2>3. ReportsInv' /\ AskedInv' BY <2>2, NoProbesType, ReportsSame
  <2> QED BY <2>1, <2>2, <2>3, NoProbesType DEF NetInv, ProbesInv
<1>4. CASE HistoryAges
  <2>1. history' \in Seq(PastLatencies) /\ Len(history') = Len(history) - 1 /\ Len(history) \in Nat
    BY <1>0, <1>4 DEF HistoryAges, ReportsInv
  <2>2. Len(history') <= MaxHistory BY <1>0, <2>1, NetReportAssumption DEF ReportsInv
  <2>3. gen.pc = "idle" /\ UNCHANGED <<nextFull, lastReport, gen, qad, https, kept, blank>> BY <1>4 DEF HistoryAges
  <2> QED BY <1>0, <2>1, <2>2, <2>3 DEF NetInv, ReportsInv, ProbesInv, AskedInv
<1> QED BY <1>1, <1>2, <1>3, <1>4

LEMMA NetStep == NetInv /\ [NetNext]_netVars => NetInv'
<1> SUFFICES ASSUME NetInv, [NetNext]_netVars PROVE NetInv' OBVIOUS
<1>1. CASE UNCHANGED netVars
  BY <1>1 DEF netVars, NetInv, ReportsInv, ProbesInv, AskedInv
<1>2. CASE NetNext
  BY <1>2, StartStep, QadStep, QadEndStep, ProbeStep, BetweenStep DEF NetNext
<1> QED BY <1>1, <1>2

LEMMA NetInvariant == NetSpec => []NetInv
BY NetInitially, NetStep, PTL DEF NetSpec

-----------------------------------------------------------------------------
\* Only the end of a report adds to the history.
LEMMA ReportMade ==
  ASSUME NetInv, NetNext, Reports
  PROVE  \E lat \in Latencies : Finish(lat)
<1>0. gen \in Generation /\ gen.lat \in Latencies BY DEF NetInv, ProbesInv, Generation
<1>1. gen.pc # "idle" /\ gen'.pc = "idle" /\ history' # history BY DEF Reports
<1>2. CASE QadEnds
  <2>1. Finish(gen.lat) BY <1>1, <1>2 DEF QadEnds
  <2> QED BY <1>0, <2>1
<1>3. CASE ReportgenEnds \/ ReportgenTimesOut
  BY <1>0, <1>3 DEF ReportgenEnds, ReportgenTimesOut
<1>4. ASSUME NEW u \in ProbedRelay, NEW d \in Latency, ProbeFinished(u, d) PROVE \E lat \in Latencies : Finish(lat)
  <2> DEFINE lat == UpdateRelay(gen.lat, <<"https", u>>, d)
  <2>1. <<"https", u>> \in Key BY DEF Key
  <2>2. lat \in Latencies BY <1>0, <2>1, UpdateTypes
  <2>3. Finish(lat) BY <1>1, <1>4 DEF ProbeFinished
  <2> HIDE DEF lat
  <2> QED BY <2>2, <2>3
<1>5. history' = history \/ gen.pc = "idle" \/ (\E u \in ProbedRelay, d \in Latency : ProbeFinished(u, d))
      \/ QadEnds \/ ReportgenEnds \/ ReportgenTimesOut
  BY DEF NetNext, StartReport, Observed, QadJoined, KeptClosed, QadFailed, ProbeFailed, PortalChecked, ReportDropped,
         HistoryAges
<1> QED BY <1>1, <1>2, <1>3, <1>4, <1>5

\* The latency that the iteration meets last belongs to a relay that answered, and is not its best one or is.
LEMMA LastLatencyIs ==
  ASSUME NEW lat \in Latencies, NEW u, LastLatency(lat, u) # 0
  PROVE  u \in Alive(lat) /\ LastLatency(lat, u) \in Nat /\ BestLatency(lat)[u] <= LastLatency(lat, u)
<1>1. \E k \in DOMAIN lat : k[2] = u /\ LastLatency(lat, u) = lat[k]
  <2>1. <<"v6", u>>[2] = u /\ <<"v4", u>>[2] = u /\ <<"https", u>>[2] = u OBVIOUS
  <2> QED BY <2>1 DEF LastLatency
<1>2. PICK k \in DOMAIN lat : k[2] = u /\ LastLatency(lat, u) = lat[k] BY <1>1
<1>3. lat[k] \in Latency BY LatenciesAre
<1> QED BY <1>2, <1>3, BestLatencyIs, LatencyIsNat

\* The latencies of relay u in the reports of past, and the best of them with the current one.
RecentOf(past, u) == {past[i][u] : i \in {j \in DOMAIN past : u \in DOMAIN past[j]}}

LEMMA RecentIs ==
  ASSUME NetInv, NEW lat \in Latencies, NEW u \in Alive(lat)
  PROVE  /\ BestRecent(history, lat, u) \in Nat
         /\ RecentOf(Append(history, BestLatency(lat)), u) = {BestLatency(lat)[u]} \cup RecentOf(history, u)
         /\ BestRecent(history, lat, u) = Min(RecentOf(Append(history, BestLatency(lat)), u))
<1> DEFINE Bs == BestLatency(lat)
           new == Append(history, Bs)
<1>1. Bs \in PastLatencies /\ DOMAIN Bs = Alive(lat) BY BestLatencyIs
<1>2. history \in Seq(PastLatencies) BY DEF NetInv, ReportsInv
<1> SUFFICES /\ BestRecent(history, lat, u) \in Nat
             /\ RecentOf(new, u) = {Bs[u]} \cup RecentOf(history, u)
             /\ BestRecent(history, lat, u) = Min(RecentOf(new, u))
  OBVIOUS
<1>2a. BestRecent(history, lat, u) = Min({Bs[u]} \cup RecentOf(history, u)) BY DEF BestRecent, RecentOf
<1> HIDE DEF Bs
<1>3. /\ DOMAIN history = 1..Len(history) /\ Len(history) \in Nat /\ DOMAIN new = 1..(Len(history) + 1)
      /\ new[Len(history) + 1] = Bs /\ \A i \in 1..Len(history) : new[i] = history[i]
      /\ \A i \in 1..Len(history) : history[i] \in PastLatencies
  BY <1>1, <1>2
<1> HIDE DEF new
<1>4. RecentOf(new, u) = {Bs[u]} \cup RecentOf(history, u)
  <2>1. ASSUME NEW x \in RecentOf(new, u) PROVE x \in {Bs[u]} \cup RecentOf(history, u)
    <3>1. PICK i \in DOMAIN new : u \in DOMAIN new[i] /\ x = new[i][u] BY DEF RecentOf
    <3>2. CASE i = Len(history) + 1 BY <1>3, <3>1, <3>2
    <3>3. CASE i # Len(history) + 1
      <4>1. i \in DOMAIN history /\ new[i] = history[i] BY <1>3, <3>3
      <4> QED BY <3>1, <4>1 DEF RecentOf
    <3> QED BY <3>2, <3>3
  <2>2. Bs[u] \in RecentOf(new, u)
    <3>1. Len(history) + 1 \in DOMAIN new /\ new[Len(history) + 1] = Bs BY <1>3
    <3>2. u \in DOMAIN Bs BY <1>1
    <3> QED BY <3>1, <3>2 DEF RecentOf
  <2>3. ASSUME NEW x \in RecentOf(history, u) PROVE x \in RecentOf(new, u)
    <3>1. PICK i \in DOMAIN history : u \in DOMAIN history[i] /\ x = history[i][u] BY DEF RecentOf
    <3>2. i \in DOMAIN new /\ new[i] = history[i] BY <1>3
    <3> QED BY <3>1, <3>2 DEF RecentOf
  <2> QED BY <2>1, <2>2, <2>3
<1>5. {Bs[u]} \cup RecentOf(history, u) \in SUBSET Nat
  <2>1. Bs[u] \in Latency BY <1>1, PastLatenciesAre
  <2>2. ASSUME NEW x \in RecentOf(history, u) PROVE x \in Latency
    <3>1. PICK i \in DOMAIN history : u \in DOMAIN history[i] /\ x = history[i][u] BY DEF RecentOf
    <3>2. history[i] \in PastLatencies BY <1>3
    <3> QED BY <3>1, <3>2, PastLatenciesAre
  <2> QED BY <2>1, <2>2, LatencyIsNat
<1>6. Min({Bs[u]} \cup RecentOf(history, u)) \in Nat
  <2>1. {Bs[u]} \cup RecentOf(history, u) # {} OBVIOUS
  <2>2. Min({Bs[u]} \cup RecentOf(history, u)) \in {Bs[u]} \cup RecentOf(history, u) BY <1>5, <2>1, MinIsLeast
  <2> QED BY <1>5, <2>2
<1> QED BY <1>2a, <1>4, <1>6

LEMMA OneOrNone ==
  ASSUME NEW S, \A x, y \in S : x = y
  PROVE  Cardinality(S) = (IF S = {} THEN 0 ELSE 1)
<1>1. CASE S = {} BY <1>1, FS_EmptySet
<1>2. CASE S # {}
  <2>1. PICK x \in S : TRUE BY <1>2
  <2>2. S = {x} BY <2>1
  <2> QED BY <1>2, <2>2, FS_Singleton
<1> QED BY <1>1, <1>2

\* What PreferredIsGood says of a report with latencies lat and its preferred relay.
LEMMA ChoiceIsGood ==
  ASSUME NetInv, NEW lat \in Latencies, NEW preferred \in Preferred(lat)
  PROVE  /\ Cardinality(preferred) = IF Alive(lat) = {} THEN 0 ELSE 1
         /\ \A u \in preferred :
              /\ u \in Alive(lat)
              /\ \A v \in Alive(lat) :
                   \/ BestRecent(history, lat, u) <= BestRecent(history, lat, v)
                   \/ BestRecent(history, lat, v) > (BestLatency(lat)[u] \div 3) * 2
<1>1. lat = <<>> <=> Alive(lat) = {}
  <2>1. lat = <<>> <=> DOMAIN lat = {} BY NoLatencies
  <2> QED BY <2>1 DEF Alive
<1>2. CASE lat = <<>>
  <2>1. preferred = {} BY <1>2, PreferredIs
  <2> QED BY <1>1, <1>2, <2>1, OneOrNone
<1>3. CASE lat # <<>>
  <2>1. PICK w \in BestRelay(history, lat) :
          \/ preferred = {w}
          \/ /\ preferred = OldPreferred
             /\ \E old \in OldPreferred : Sticks(lat, old, BestRecent(history, lat, w))
    BY <1>3, PreferredIs
  <2>2. w \in Alive(lat) /\ \A v \in Alive(lat) : BestRecent(history, lat, w) <= BestRecent(history, lat, v)
    BY DEF BestRelay
  <2>3. CASE preferred = {w}
    <3>1. Cardinality(preferred) = 1 BY <2>3, FS_Singleton
    <3> QED BY <1>1, <1>3, <2>2, <2>3, <3>1
  <2>4. CASE preferred = OldPreferred /\ \E old \in OldPreferred : Sticks(lat, old, BestRecent(history, lat, w))
    <3>1. PICK old \in OldPreferred : Sticks(lat, old, BestRecent(history, lat, w)) BY <2>4
    <3>2. preferred = {old} BY <2>4, <3>1, OldPreferredIs DEF NetInv
    <3>3. LastLatency(lat, old) # 0 /\ BestRecent(history, lat, w) > (LastLatency(lat, old) \div 3) * 2
      BY <3>1 DEF Sticks
    <3>4. old \in Alive(lat) /\ LastLatency(lat, old) \in Nat /\ BestLatency(lat)[old] <= LastLatency(lat, old)
      BY <3>3, LastLatencyIs
    <3>5. BestLatency(lat)[old] \in Nat
      <4>1. BestLatency(lat)[old] \in Latency BY <3>4, BestLatencyIs, PastLatenciesAre
      <4> QED BY <4>1, LatencyIsNat
    <3>6. ASSUME NEW v \in Alive(lat) PROVE BestRecent(history, lat, v) > (BestLatency(lat)[old] \div 3) * 2
      <4>1. BestRecent(history, lat, v) \in Nat /\ BestRecent(history, lat, w) \in Nat BY <2>2, RecentIs
      <4>2. BestRecent(history, lat, w) <= BestRecent(history, lat, v) BY <2>2
      <4>3. BestLatency(lat)[old] \div 3 <= LastLatency(lat, old) \div 3 BY <3>4, <3>5
      <4>4. BestLatency(lat)[old] \div 3 \in Nat /\ LastLatency(lat, old) \div 3 \in Nat BY <3>4, <3>5
      <4> QED BY <3>3, <4>1, <4>2, <4>3, <4>4
    <3>7. Cardinality(preferred) = 1 BY <3>2, FS_Singleton
    <3> QED BY <1>1, <1>3, <3>2, <3>4, <3>6, <3>7
  <2> QED BY <2>1, <2>3, <2>4
<1> QED BY <1>2, <1>3

LEMMA NetTypes == NetInv => NetTypeOK
<1> SUFFICES ASSUME NetInv PROVE NetTypeOK OBVIOUS
<1>1. Cardinality(lastReport) <= 1 BY OneOrNone DEF NetInv, ReportsInv
<1>2. \A f \in Family : Cardinality(kept[f]) <= 1 /\ kept[f] \subseteq QadConn
  BY OneOrNone DEF NetInv, ProbesInv
<1>3. \A l \in lastReport : l.silent \in BOOLEAN /\ l.preferred \subseteq ProbedRelay /\ l.trap \in BOOLEAN
  BY DEF NetInv, ReportsInv, LastReport
<1>4. \A i \in DOMAIN history :
        DOMAIN history[i] \subseteq ProbedRelay /\ \A u \in DOMAIN history[i] : history[i][u] \in Latency
  <2> SUFFICES ASSUME NEW i \in DOMAIN history
               PROVE  DOMAIN history[i] \subseteq ProbedRelay /\ \A u \in DOMAIN history[i] : history[i][u] \in Latency
    OBVIOUS
  <2>1. history[i] \in PastLatencies BY DEF NetInv, ReportsInv
  <2> QED BY <2>1, PastLatenciesAre
<1>5. gen \in Generation /\ gen.lat \in Latencies BY DEF NetInv, ProbesInv, Generation
<1>6. DOMAIN gen.lat \subseteq Key /\ \A k \in DOMAIN gen.lat : gen.lat[k] \in Latency BY <1>5, LatenciesAre
<1>7. gen.pc \in {"idle", "qad", "probes"} /\ gen.have \subseteq Family
      /\ {gen.full, gen.check, gen.portal, gen.asked} \subseteq BOOLEAN
  BY <1>5 DEF Generation
<1>8. /\ nextFull \in BOOLEAN /\ blank \in BOOLEAN /\ Len(history) <= MaxHistory
      /\ qad \subseteq Family \X ProbedRelay /\ https \in [ProbedRelay -> 0..Attempts]
  BY DEF NetInv, ReportsInv, ProbesInv
<1> QED BY <1>1, <1>2, <1>3, <1>4, <1>6, <1>7, <1>8 DEF NetTypeOK

(***************************************************************************)
(* The net report client keeps its types: one last report, one connection  *)
(* of each family, and no more recent reports than MAX_AGE leaves.         *)
(***************************************************************************)
THEOREM NetTypeCorrect == NetSpec => []NetTypeOK
BY NetTypes, NetInvariant, PTL

(***************************************************************************)
(* Whenever some relay answered, a relay that answered is preferred, and   *)
(* none of the others was recently faster than two thirds of its latency   *)
(* unless it is the best itself, for any relays, latencies and history.    *)
(***************************************************************************)
THEOREM PreferredIsGoodHolds == NetSpec => PreferredIsGood
<1> DEFINE now == history'[Len(history')]
           recent(u) == Min({history'[i][u] : i \in {j \in DOMAIN history' : u \in DOMAIN history'[j]}})
           Good == \A l \in lastReport' :
                     /\ Cardinality(l.preferred) = IF DOMAIN now = {} THEN 0 ELSE 1
                     /\ \A u \in l.preferred :
                          /\ u \in DOMAIN now
                          /\ \A v \in DOMAIN now : recent(u) <= recent(v) \/ recent(v) > (now[u] \div 3) * 2
<1>1. ASSUME NetInv, NetNext, Reports PROVE Good
  <2>1. PICK lat \in Latencies : Finish(lat) BY <1>1, ReportMade
  <2>2. PICK preferred \in Preferred(lat) : \A l \in lastReport' : l.preferred = preferred
    BY <2>1 DEF Finish
  <2>3. history' = Append(history, BestLatency(lat)) /\ history \in Seq(PastLatencies) BY <1>1, <2>1 DEF Finish, NetInv, ReportsInv
  <2>4. BestLatency(lat) \in PastLatencies /\ DOMAIN BestLatency(lat) = Alive(lat) BY BestLatencyIs
  <2>5. now = BestLatency(lat)
    <3>1. Len(history') = Len(history) + 1 /\ Append(history, BestLatency(lat))[Len(history) + 1] = BestLatency(lat)
      BY <2>3, <2>4
    <3> QED BY <2>3, <3>1
  <2>6. \A u \in Alive(lat) : recent(u) = BestRecent(history, lat, u)
    <3> SUFFICES ASSUME NEW u \in Alive(lat) PROVE recent(u) = BestRecent(history, lat, u) OBVIOUS
    <3>1. recent(u) = Min(RecentOf(history', u)) BY DEF RecentOf
    <3>2. BestRecent(history, lat, u) = Min(RecentOf(Append(history, BestLatency(lat)), u)) BY <1>1, RecentIs
    <3> QED BY <2>3, <3>1, <3>2
  <2> HIDE DEF now, recent
  <2> QED BY <1>1, <2>2, <2>4, <2>5, <2>6, ChoiceIsGood
<1>2. NetInv /\ [NetNext]_netVars => [Reports => Good]_netVars BY <1>1
<1> QED BY <1>2, NetInvariant, PTL DEF NetSpec, PreferredIsGood

(***************************************************************************)
(* Of two reports in a row without any latency, the second has asked every *)
(* relay by HTTPS, if HTTPS probes are enabled, also when reports are      *)
(* dropped between the two.                                                *)
(***************************************************************************)
THEOREM BlankIsCheckedHolds == NetSpec => BlankIsChecked
<1>1. ASSUME NetInv, Reports, blank, HttpsProbes PROVE gen.asked
  <2>1. gen.asked = Plans(lastReport) /\ gen.asked \in BOOLEAN
    BY <1>1 DEF NetInv, AskedInv, Reports, ProbesInv, Generation
  <2>2. \A l \in lastReport : l.silent BY <1>1 DEF NetInv, AskedInv, ReportsInv
  <2>3. Plans(lastReport) BY <1>1, <2>2 DEF Plans
  <2> QED BY <2>1, <2>3
<1>2. NetInv /\ [NetNext]_netVars => [(HttpsProbes /\ Reports /\ blank /\ blank') => gen.asked]_netVars BY <1>1
<1> QED BY <1>2, NetInvariant, PTL DEF NetSpec, BlankIsChecked

(***************************************************************************)
(* The parts together, as TLC runs them: each keeps its invariant, whether *)
(* it moves or another one does.                                           *)
(***************************************************************************)
PartsInv ==
  /\ part \in {"report", "publish", "remotes", "paths"}
  /\ NetInv /\ PublishInv /\ TypeOK /\ PathInv

LEMMA PartsStep ==
  PartsInv /\ [PartsNext]_<<part, netVars, publishVars, vars, pathVars>> => PartsInv'
<1> SUFFICES ASSUME PartsInv, [PartsNext]_<<part, netVars, publishVars, vars, pathVars>> PROVE PartsInv' OBVIOUS
<1>1. /\ part' = part
      /\ [NetNext]_netVars /\ [PublishNext]_publishVars /\ [Next]_vars /\ [PathsNext]_pathVars
  BY DEF PartsNext
<1>2. NetInv' BY <1>1, NetStep DEF PartsInv
<1>3. PublishInv' BY <1>1, PublishStep DEF PartsInv
<1>4. TypeOK' BY <1>1, TypeStep DEF PartsInv
<1>5. PathInv' BY <1>1, PathStep DEF PartsInv
<1> QED BY <1>1, <1>2, <1>3, <1>4, <1>5 DEF PartsInv

\* What the invariants of the parts say of the types.
LEMMA PartsTypes == PartsInv => PartsTypeOK
<1> SUFFICES ASSUME PartsInv PROVE PartsTypeOK OBVIOUS
<1>1. NetTypeOK BY NetTypes DEF PartsInv
<1>2. PublishTypeOK BY DEF PartsInv, PublishInv
<1>3. PathsTypeOK BY DEF PartsInv, PathInv
<1>4. TypeOK /\ part \in {"report", "publish", "remotes", "paths"} BY DEF PartsInv
<1> QED BY <1>1, <1>2, <1>3, <1>4 DEF PartsTypeOK

(***************************************************************************)
(* Every variable of the four parts keeps its type, for every value of     *)
(* their constants: queues and channels keep their capacities, optional    *)
(* values have at most one element.                                        *)
(***************************************************************************)
THEOREM PartsTypeCorrect == PartsSpec => []PartsTypeOK
<1>1. PartsInit => PartsInv
  BY NetInitially, PublishInitially, InitType, PathInit DEF PartsInit, PartsInv
<1> QED BY <1>1, PartsStep, PartsTypes, PTL DEF PartsSpec
=============================================================================
