------------------------ MODULE TunnelSessionProofs -------------------------
(***************************************************************************)
(* Proofs about TunnelSession, for any number of tasks and dials and any   *)
(* limits.  The point of the inductive invariant is the count of failures: *)
(* a task that is about to use the cached connection has met fewer         *)
(* failures than there are faulty dials other than that connection, so a   *)
(* failure of it is a failure that the task has not met before.            *)
(***************************************************************************)
EXTENDS TunnelSession, FiniteSetTheorems, TLAPS

\* The link of a connection somebody has a handle of.
Kept == {"up", "rejected", "lost"}

\* The faulty dials apart from x.
Others(x) == Cardinality(Faulty \ {x})

\* The write lock.
LockInv == DialsAlone /\ (writer # Nobody => cache = Nobody)

\* Connections that can still be used.
HandleOf(t) == pc[t] = "open" => used[t] \in Conn /\ link[used[t]] \in Kept

HandleInv ==
  /\ cache # Nobody => link[cache] \in Kept
  /\ \A t \in Task : HandleOf(t)

\* The failures a task has met.
CountOf(t) ==
  /\ pc[t] \in {"get", "write", "dial"} => retries[t] - 1 <= Others(cache)
  /\ pc[t] = "open" => retries[t] - 1 <= Others(used[t])
  /\ pc[t] = "invalidate" => retries[t] <= Cardinality(Faulty) /\ retries[t] < MaxRetries
  /\ pc[t] = "backoff" => retries[t] <= Others(cache) /\ retries[t] < MaxRetries
  /\ pc[t] = "failed" => Cardinality(Faulty) >= MaxRetries

CountInv == \A t \in Task : CountOf(t)

TunnelInv == TunnelTypeOK /\ LockInv /\ HandleInv /\ CountInv

-----------------------------------------------------------------------------
\* Counting: sets of dials are finite, smaller sets have fewer elements, and taking out an
\* element takes one away.
LEMMA DialSets ==
  /\ \A S \in SUBSET Conn : IsFiniteSet(S) /\ Cardinality(S) \in Nat
  /\ \A S \in SUBSET Conn, R \in SUBSET Conn : R \subseteq S => Cardinality(R) <= Cardinality(S)
  /\ \A S \in SUBSET Conn, c \in Conn : c \in S => Cardinality(S) = Cardinality(S \ {c}) + 1
<1>1. IsFiniteSet(Conn) BY FS_Interval, TunnelAssumption DEF Conn
<1>2. ASSUME NEW S \in SUBSET Conn PROVE IsFiniteSet(S) /\ Cardinality(S) \in Nat
  BY <1>1, FS_Subset, FS_CardinalityType
<1>3. ASSUME NEW S \in SUBSET Conn, NEW R \in SUBSET Conn, R \subseteq S
      PROVE  Cardinality(R) <= Cardinality(S)
  BY <1>2, <1>3, FS_Subset
<1>4. ASSUME NEW S \in SUBSET Conn, NEW c \in Conn, c \in S
      PROVE  Cardinality(S) = Cardinality(S \ {c}) + 1
  <2>1. Cardinality(S \ {c}) = Cardinality(S) - 1 BY <1>2, <1>4, FS_RemoveElement
  <2>2. Cardinality(S) \in Nat /\ Cardinality(S \ {c}) \in Nat BY <1>2
  <2> QED BY <2>1, <2>2
<1> QED BY <1>2, <1>3, <1>4

LEMMA TunnelStart == TunnelInit => TunnelInv
<1> SUFFICES ASSUME TunnelInit PROVE TunnelInv OBVIOUS
<1>1. TunnelTypeOK
  <2>1. allowed \in BOOLEAN BY Zenon DEF TunnelInit
  <2>2. retries \in [Task -> 0..MaxRetries] BY TunnelAssumption DEF TunnelInit
  <2> QED BY <2>1, <2>2 DEF TunnelInit, TunnelTypeOK
<1>2. LockInv BY TunnelAssumption DEF TunnelInit, LockInv, DialsAlone
<1>3. HandleInv BY DEF TunnelInit, HandleInv, HandleOf
<1>4. CountInv BY DEF TunnelInit, CountInv, CountOf
<1> QED BY <1>1, <1>2, <1>3, <1>4 DEF TunnelInv

-----------------------------------------------------------------------------
\* The server's steps but the first, and a first frame, leave client and links alone.
LEMMA TunnelServer ==
  ASSUME TunnelInv,
         \/ \E t \in Task : ServerStep(t) \/ FirstFrame(t)
         \/ \E c \in Conn : HandlerEnds(c)
  PROVE  TunnelInv'
<1>1. UNCHANGED <<pc, retries, used, cache, writer, link, allowed>>
  BY DEF ServerStep, AcceptBi, SpawnBridge, BridgeToLocal, FirstFrame, HandlerEnds, client
<1>2. handler' \in [Conn -> {"none", "accept", "permit", "gone"}]
  <2>1. ASSUME NEW t \in Task, ServerStep(t) \/ FirstFrame(t)
        PROVE  \/ handler' = handler
               \/ \E v \in {"accept", "permit"} : handler' = [handler EXCEPT ![used[t]] = v]
    BY <2>1 DEF ServerStep, AcceptBi, SpawnBridge, BridgeToLocal, FirstFrame
  <2>2. ASSUME NEW c \in Conn, HandlerEnds(c) PROVE handler' = [handler EXCEPT ![c] = "gone"]
    BY <2>2 DEF HandlerEnds
  <2> QED BY <2>1, <2>2 DEF TunnelInv, TunnelTypeOK
<1>3. stream' \in [Task -> {"none", "opened", "sent", "accepted", "local", "over"}]
  <2>1. ASSUME NEW t \in Task, ServerStep(t) \/ FirstFrame(t)
        PROVE  \E v \in {"sent", "accepted", "local", "over"} : stream' = [stream EXCEPT ![t] = v]
    BY <2>1 DEF ServerStep, AcceptBi, SpawnBridge, BridgeToLocal, FirstFrame
  <2>2. ASSUME NEW c \in Conn, HandlerEnds(c) PROVE stream' = stream
    BY <2>2 DEF HandlerEnds
  <2> QED BY <2>1, <2>2 DEF TunnelInv, TunnelTypeOK
<1>4. TunnelTypeOK' BY <1>1, <1>2, <1>3 DEF TunnelInv, TunnelTypeOK
<1>5. LockInv' BY <1>1 DEF TunnelInv, LockInv, DialsAlone
<1>6. HandleInv' BY <1>1 DEF TunnelInv, HandleInv, HandleOf
<1>7. CountInv' BY <1>1 DEF TunnelInv, CountInv, CountOf, Others, Faulty
<1> QED BY <1>4, <1>5, <1>6, <1>7 DEF TunnelInv

-----------------------------------------------------------------------------
\* A step of one task that changes neither link nor cache leaves the others' counts alone.
LEMMA OneTask ==
  ASSUME TunnelInv, NEW t \in Task, UNCHANGED <<link, cache>>,
         \A u \in Task \ {t} : pc'[u] = pc[u] /\ retries'[u] = retries[u] /\ used'[u] = used[u],
         HandleOf(t)', CountOf(t)'
  PROVE  HandleInv' /\ CountInv'
<1>1. ASSUME NEW u \in Task \ {t} PROVE HandleOf(u)'
  BY <1>1 DEF TunnelInv, HandleInv, HandleOf
<1>2. ASSUME NEW u \in Task \ {t} PROVE CountOf(u)'
  BY <1>2 DEF TunnelInv, CountInv, CountOf, Others, Faulty
<1>3. HandleInv' BY <1>1 DEF TunnelInv, HandleInv
<1>4. CountInv' BY <1>2 DEF CountInv
<1> QED BY <1>3, <1>4

\* What the counts of the step's task are made of.
LEMMA CountTypes ==
  ASSUME TunnelTypeOK
  PROVE  /\ Faulty \in SUBSET Conn
         /\ Cardinality(Faulty) \in Nat
         /\ \A x : Others(x) \in Nat /\ Others(x) <= Cardinality(Faulty)
         /\ \A c \in Faulty : Cardinality(Faulty) = Others(c) + 1
         /\ \A x : x \notin Faulty => Others(x) = Cardinality(Faulty)
<1>1. Faulty \in SUBSET Conn BY DEF Faulty
<1>2. \A x : Faulty \ {x} \in SUBSET Conn /\ Faulty \ {x} \subseteq Faulty BY <1>1
<1>3. \A x : x \notin Faulty => Faulty \ {x} = Faulty OBVIOUS
<1> HIDE DEF Faulty
<1> QED BY <1>1, <1>2, <1>3, DialSets DEF Others

LEMMA TunnelAccept ==
  ASSUME TunnelInv, NEW t \in Task, AcceptTcp(t) \/ AcquirePermit(t)
  PROVE  TunnelInv'
<1>1. TunnelTypeOK'
  BY TunnelAssumption DEF AcceptTcp, AcquirePermit, TunnelInv, TunnelTypeOK, server
<1>2. LockInv' BY DEF AcceptTcp, AcquirePermit, TunnelInv, LockInv, DialsAlone, TunnelTypeOK
<1>3. pc[t] \in {"idle", "permit"} /\ pc'[t] \in {"permit", "get", "ended"}
  BY DEF AcceptTcp, AcquirePermit, TunnelInv, TunnelTypeOK
<1>4. pc'[t] = "get" => retries'[t] = 1
  BY DEF AcceptTcp, AcquirePermit, TunnelInv, TunnelTypeOK
<1>5. HandleOf(t)' BY <1>3 DEF HandleOf
<1>6. UNCHANGED <<link, cache>> BY DEF AcceptTcp, AcquirePermit
<1>7. CountOf(t)'
  <2>1. Others(cache) \in Nat BY CountTypes DEF TunnelInv
  <2>2. Others(cache)' = Others(cache) BY <1>6 DEF Others, Faulty
  <2> QED BY <1>3, <1>4, <2>1, <2>2 DEF CountOf
<1>8. \A u \in Task \ {t} : pc'[u] = pc[u] /\ retries'[u] = retries[u] /\ used'[u] = used[u]
  BY DEF AcceptTcp, AcquirePermit, TunnelInv, TunnelTypeOK
<1> QED BY <1>1, <1>2, <1>5, <1>6, <1>7, <1>8, OneTask DEF TunnelInv

LEMMA TunnelGet ==
  ASSUME TunnelInv, NEW t \in Task, ReadCache(t) \/ LockWrite(t)
  PROVE  TunnelInv'
<1>1. TunnelTypeOK' BY DEF ReadCache, LockWrite, TakeCached, TunnelInv, TunnelTypeOK, server
<1>2. LockInv'
  BY TunnelAssumption DEF ReadCache, LockWrite, TakeCached, TunnelInv, LockInv, DialsAlone, TunnelTypeOK
<1>3. /\ pc[t] \in {"get", "write"} /\ UNCHANGED <<link, cache, retries>>
      /\ pc'[t] \in {"write", "dial"} \/ (pc'[t] = "open" /\ used'[t] = cache /\ cache # Nobody)
  BY DEF ReadCache, LockWrite, TakeCached, TunnelInv, TunnelTypeOK
<1>4. HandleOf(t)' BY <1>3 DEF HandleOf, TunnelInv, TunnelTypeOK, HandleInv
<1>5. CountOf(t)'
  <2>1. retries[t] - 1 <= Others(cache) BY <1>3 DEF TunnelInv, CountInv, CountOf
  <2>2. Faulty' = Faulty BY <1>3 DEF Faulty
  <2>3. Others(cache)' = Others(cache) BY <1>3, <2>2 DEF Others
  <2>4. pc'[t] = "open" => Others(used[t])' = Others(cache) BY <1>3, <2>2 DEF Others
  <2> QED BY <1>3, <2>1, <2>3, <2>4 DEF CountOf
<1>6. \A u \in Task \ {t} : pc'[u] = pc[u] /\ retries'[u] = retries[u] /\ used'[u] = used[u]
  BY DEF ReadCache, LockWrite, TakeCached, TunnelInv, TunnelTypeOK
<1> QED BY <1>1, <1>2, <1>3, <1>4, <1>5, <1>6, OneTask DEF TunnelInv

LEMMA TunnelOpen ==
  ASSUME TunnelInv, NEW t \in Task, OpenOk(t) \/ OpenFails(t) \/ BridgeEnds(t)
  PROVE  TunnelInv'
<1>1. TunnelTypeOK' BY DEF OpenOk, OpenFails, BridgeEnds, TunnelInv, TunnelTypeOK, server
<1>2. LockInv' BY DEF OpenOk, OpenFails, BridgeEnds, TunnelInv, LockInv, DialsAlone, TunnelTypeOK
<1>3. UNCHANGED <<link, cache, retries, used>> BY DEF OpenOk, OpenFails, BridgeEnds
<1>4. pc'[t] \in {"bridge", "ended"} \/ OpenFails(t)
  BY DEF OpenOk, BridgeEnds, TunnelInv, TunnelTypeOK
<1>5. HandleOf(t)' BY <1>4 DEF HandleOf, OpenFails, TunnelInv, TunnelTypeOK
<1>6. CountOf(t)'
  <2>1. CASE pc'[t] \in {"bridge", "ended"} BY <2>1 DEF CountOf
  <2>2. CASE OpenFails(t)
    <3>1. used[t] \in Faulty
      BY <2>2 DEF OpenFails, TunnelInv, HandleInv, HandleOf, Kept, Faulty
    <3>2. retries[t] - 1 <= Others(used[t])
      BY <2>2 DEF OpenFails, TunnelInv, CountInv, CountOf
    <3>3. retries[t] \in Int /\ MaxRetries \in Int
      BY TunnelAssumption DEF TunnelInv, TunnelTypeOK
    <3>4. retries[t] <= Cardinality(Faulty)
      BY <3>1, <3>2, <3>3, CountTypes DEF TunnelInv
    <3>5. Faulty' = Faulty /\ retries'[t] = retries[t] BY <1>3 DEF Faulty
    <3>6. pc'[t] = IF retries[t] >= MaxRetries THEN "failed" ELSE "invalidate"
      BY <2>2 DEF OpenFails, TunnelInv, TunnelTypeOK
    <3>7. Cardinality(Faulty) \in Int BY CountTypes DEF TunnelInv
    <3> HIDE DEF Faulty
    <3> QED BY <3>3, <3>4, <3>5, <3>6, <3>7 DEF CountOf
  <2> QED BY <1>4, <2>1, <2>2
<1>7. \A u \in Task \ {t} : pc'[u] = pc[u] /\ retries'[u] = retries[u] /\ used'[u] = used[u]
  BY DEF OpenOk, OpenFails, BridgeEnds, TunnelInv, TunnelTypeOK
<1> QED BY <1>1, <1>2, <1>3, <1>5, <1>6, <1>7, OneTask DEF TunnelInv

LEMMA TunnelBackoff ==
  ASSUME TunnelInv, NEW t \in Task, Backoff(t)
  PROVE  TunnelInv'
<1>0. retries[t] \in 0..MaxRetries /\ retries[t] < MaxRetries /\ retries[t] <= Others(cache)
  BY DEF Backoff, TunnelInv, TunnelTypeOK, CountInv, CountOf
<1>1. TunnelTypeOK'
  <2>1. retries' \in [Task -> 0..MaxRetries]
    BY <1>0, TunnelAssumption DEF Backoff, TunnelInv, TunnelTypeOK
  <2> QED BY <2>1 DEF Backoff, TunnelInv, TunnelTypeOK, server
<1>2. LockInv' BY DEF Backoff, TunnelInv, LockInv, DialsAlone, TunnelTypeOK
<1>3. /\ UNCHANGED <<link, cache, used>> /\ pc'[t] = "get" /\ retries'[t] = retries[t] + 1
  BY DEF Backoff, TunnelInv, TunnelTypeOK
<1>4. HandleOf(t)' BY <1>3 DEF HandleOf
<1>5. CountOf(t)'
  <2>1. Others(cache)' = Others(cache) BY <1>3 DEF Others, Faulty
  <2>2. Others(cache) \in Nat BY CountTypes DEF TunnelInv
  <2> QED BY <1>0, <1>3, <2>1, <2>2, TunnelAssumption DEF CountOf
<1>6. \A u \in Task \ {t} : pc'[u] = pc[u] /\ retries'[u] = retries[u] /\ used'[u] = used[u]
  BY DEF Backoff, TunnelInv, TunnelTypeOK
<1> QED BY <1>1, <1>2, <1>3, <1>4, <1>5, <1>6, OneTask DEF TunnelInv
-----------------------------------------------------------------------------
\* A dial that becomes faulty only adds to every count.
LEMMA MoreFaults ==
  ASSUME TunnelTypeOK, Faulty \subseteq Faulty'
  PROVE  /\ Cardinality(Faulty') \in Nat
         /\ Cardinality(Faulty) <= Cardinality(Faulty')
         /\ \A x : /\ Cardinality(Faulty' \ {x}) \in Nat
                   /\ Others(x) <= Cardinality(Faulty' \ {x})
<1>1. Faulty \in SUBSET Conn /\ Faulty' \in SUBSET Conn BY DEF Faulty
<1>2. \A x : /\ Faulty \ {x} \in SUBSET Conn /\ Faulty' \ {x} \in SUBSET Conn
             /\ Faulty \ {x} \subseteq Faulty' \ {x}
  BY <1>1
<1> HIDE DEF Faulty
<1> QED BY <1>1, <1>2, DialSets DEF Others

\* Links change, tasks do not.
LEMMA TunnelLink ==
  ASSUME TunnelInv, NEW c \in Conn, HandleConnection(c) \/ LinkLost(c) \/ LinkDropped(c)
  PROVE  TunnelInv'
<1>1. UNCHANGED <<pc, retries, used, cache, writer, allowed, stream>>
  BY DEF HandleConnection, LinkLost, LinkDropped, client, server
<1>2. TunnelTypeOK'
  <2>1. link' \in [Conn -> {"new", "up", "refused", "rejected", "lost", "dropped"}]
    BY DEF HandleConnection, LinkLost, LinkDropped, TunnelInv, TunnelTypeOK
  <2>2. handler' \in [Conn -> {"none", "accept", "permit", "gone"}]
    BY DEF HandleConnection, LinkLost, LinkDropped, TunnelInv, TunnelTypeOK, server
  <2> QED BY <1>1, <2>1, <2>2 DEF TunnelInv, TunnelTypeOK
<1>3. LockInv' BY <1>1 DEF TunnelInv, LockInv, DialsAlone
<1>4. \A d \in Conn : link[d] \in Kept /\ InUse(d) => link'[d] \in Kept
  BY DEF HandleConnection, LinkLost, LinkDropped, Kept, TunnelInv, TunnelTypeOK
<1>5. HandleInv'
  <2>1. cache # Nobody => cache \in Conn /\ InUse(cache) BY DEF TunnelInv, TunnelTypeOK, InUse
  <2>2. cache' # Nobody => link'[cache'] \in Kept
    BY <1>1, <1>4, <2>1 DEF TunnelInv, HandleInv
  <2>3. ASSUME NEW t \in Task PROVE HandleOf(t)'
    <3>1. pc[t] = "open" => used[t] \in Conn /\ InUse(used[t]) /\ link[used[t]] \in Kept
      BY DEF TunnelInv, HandleInv, HandleOf, InUse
    <3> QED BY <1>1, <1>4, <3>1 DEF HandleOf
  <2> QED BY <2>2, <2>3 DEF HandleInv
<1>6. Faulty \subseteq Faulty'
  BY DEF HandleConnection, LinkLost, LinkDropped, Faulty, TunnelInv, TunnelTypeOK
<1>7. CountInv'
  <2> SUFFICES ASSUME NEW t \in Task PROVE CountOf(t)' BY DEF CountInv
  <2>1. CountOf(t) BY DEF TunnelInv, CountInv
  <2>2. retries[t] \in Int /\ MaxRetries \in Int BY TunnelAssumption DEF TunnelInv, TunnelTypeOK
  <2>3. /\ Cardinality(Faulty) <= Cardinality(Faulty')
        /\ Cardinality(Faulty) \in Nat /\ Cardinality(Faulty') \in Nat
    BY <1>6, MoreFaults, CountTypes DEF TunnelInv
  <2>4. /\ Others(cache) <= Others(cache)' /\ Others(used[t]) <= Others(used[t])'
        /\ Others(cache) \in Nat /\ Others(cache)' \in Nat
        /\ Others(used[t]) \in Nat /\ Others(used[t])' \in Nat
    <3>1. /\ Others(cache)' = Cardinality(Faulty' \ {cache})
          /\ Others(used[t])' = Cardinality(Faulty' \ {used[t]})
      BY <1>1 DEF Others
    <3> QED BY <1>6, <3>1, MoreFaults, CountTypes DEF TunnelInv
  <2> HIDE DEF Faulty
  <2> QED BY <1>1, <2>1, <2>2, <2>3, <2>4 DEF CountOf
<1> QED BY <1>2, <1>3, <1>5, <1>7 DEF TunnelInv

\* invalidate_connection and a successful dial change the cache, to something that is not
\* faulty.
LEMMA TunnelCache ==
  ASSUME TunnelInv, NEW t \in Task, Invalidate(t) \/ \E c \in Conn : DialOk(t, c)
  PROVE  TunnelInv'
<1>1. TunnelTypeOK' BY DEF Invalidate, DialOk, NextDial, TunnelInv, TunnelTypeOK, server
<1>2. LockInv'
  BY TunnelAssumption DEF Invalidate, DialOk, TunnelInv, LockInv, DialsAlone, TunnelTypeOK
<1>3. /\ \A d \in Conn : link[d] \in Kept => link'[d] = link[d]
      /\ cache' # Nobody => cache' \in Conn /\ link'[cache'] = "up"
      /\ Faulty' = Faulty
  BY DEF Invalidate, DialOk, NextDial, TunnelInv, TunnelTypeOK, Kept, Faulty
<1>4. \A u \in Task \ {t} : pc'[u] = pc[u] /\ retries'[u] = retries[u] /\ used'[u] = used[u]
  BY DEF Invalidate, DialOk, TunnelInv, TunnelTypeOK
<1>5. /\ retries'[t] = retries[t]
      /\ \/ pc[t] = "invalidate" /\ pc'[t] = "backoff"
         \/ pc[t] = "dial" /\ pc'[t] = "open" /\ used'[t] = cache' /\ cache' # Nobody
  BY TunnelAssumption DEF Invalidate, DialOk, TunnelInv, TunnelTypeOK, Conn
<1>6. HandleInv'
  <2>1. ASSUME NEW u \in Task PROVE HandleOf(u)'
    BY <1>3, <1>4, <1>5 DEF TunnelInv, HandleInv, HandleOf, Kept
  <2> QED BY <1>3, <2>1 DEF HandleInv, Kept
<1>7. /\ Others(cache)' = Cardinality(Faulty)
      /\ \A u \in Task : Others(used'[u]) = Others(used[u])'
  <2>1. cache' \notin Faulty
    <3>1. cache' \notin Faulty'
      BY <1>3, TunnelAssumption DEF Faulty, Conn
    <3> QED BY <1>3, <3>1
  <2>2. Others(cache)' = Cardinality(Faulty \ {cache'}) BY <1>3 DEF Others
  <2>3. Faulty \ {cache'} = Faulty BY <2>1
  <2>4. \A u \in Task : Others(used[u])' = Cardinality(Faulty \ {used'[u]}) BY <1>3 DEF Others
  <2> HIDE DEF Faulty
  <2> QED BY <2>2, <2>3, <2>4 DEF Others
<1>8. CountInv'
  <2> SUFFICES ASSUME NEW u \in Task PROVE CountOf(u)' BY DEF CountInv
  <2>1. CountOf(u) BY DEF TunnelInv, CountInv
  <2>2. retries[u] \in Int /\ MaxRetries \in Int BY TunnelAssumption DEF TunnelInv, TunnelTypeOK
  <2>3. /\ Cardinality(Faulty) \in Nat /\ Others(cache) \in Nat
        /\ Others(cache) <= Cardinality(Faulty)
    BY CountTypes DEF TunnelInv
  <2>4. CASE u # t
    <3>1. pc'[u] = pc[u] /\ retries'[u] = retries[u] /\ used'[u] = used[u] BY <1>4, <2>4
    <3>2. Others(used[u])' = Others(used[u]) BY <1>7, <3>1
    <3>3. Cardinality(Faulty)' = Cardinality(Faulty) BY <1>3
    <3> HIDE DEF Faulty
    <3> QED BY <1>7, <2>1, <2>2, <2>3, <3>1, <3>2, <3>3 DEF CountOf
  <2>5. CASE u = t
    <3>1. pc'[t] = "open" => Others(used[t])' = Cardinality(Faulty)
      <4>1. Others(used[t])' = Cardinality(Faulty' \ {used'[t]}) BY DEF Others
      <4>2. Others(cache)' = Cardinality(Faulty' \ {cache'}) BY DEF Others
      <4> QED BY <1>5, <1>7, <4>1, <4>2
    <3> HIDE DEF Faulty
    <3> QED BY <1>5, <1>7, <2>1, <2>2, <2>3, <2>5, <3>1 DEF CountOf
  <2> QED BY <2>4, <2>5
<1> QED BY <1>1, <1>2, <1>6, <1>8 DEF TunnelInv

\* A dial that fails is a failure its task has not met before.
LEMMA TunnelDialFails ==
  ASSUME TunnelInv, NEW t \in Task, NEW c \in Conn, DialFails(t, c)
  PROVE  TunnelInv'
<1>1. TunnelTypeOK' BY DEF DialFails, NextDial, TunnelInv, TunnelTypeOK, server
<1>2. LockInv'
  BY TunnelAssumption DEF DialFails, TunnelInv, LockInv, DialsAlone, TunnelTypeOK
<1>3. /\ cache = Nobody /\ cache' = Nobody /\ UNCHANGED <<retries, used>>
      /\ pc[t] = "dial"
      /\ pc'[t] = IF retries[t] >= MaxRetries THEN "failed" ELSE "backoff"
      /\ \A u \in Task \ {t} : pc'[u] = pc[u]
  BY DEF DialFails, TunnelInv, LockInv, DialsAlone, TunnelTypeOK
<1>4. c \notin Faulty /\ Faulty' = Faulty \cup {c}
  BY DEF DialFails, NextDial, Faulty, TunnelInv, TunnelTypeOK
<1>5. HandleInv'
  <2>1. \A d \in Conn : link[d] \in Kept => link'[d] = link[d]
    BY DEF DialFails, NextDial, TunnelInv, TunnelTypeOK, Kept
  <2>2. ASSUME NEW u \in Task PROVE HandleOf(u)'
    BY <1>3, <2>1 DEF TunnelInv, HandleInv, HandleOf
  <2> QED BY <1>3, <2>2 DEF HandleInv
<1>6. /\ Cardinality(Faulty) \in Nat /\ Cardinality(Faulty') = Cardinality(Faulty) + 1
      /\ Others(cache) = Cardinality(Faulty) /\ Others(cache)' = Cardinality(Faulty')
  <2>1. Faulty \in SUBSET Conn /\ Faulty' \in SUBSET Conn BY DEF Faulty
  <2>2. Faulty' \ {c} = Faulty /\ c \in Faulty' BY <1>4
  <2>3. Nobody \notin Faulty /\ Nobody \notin Faulty' BY <2>1, TunnelAssumption DEF Conn
  <2>4. Faulty \ {cache} = Faulty /\ Faulty' \ {cache'} = Faulty' BY <1>3, <2>3
  <2>5. Others(cache)' = Cardinality(Faulty' \ {cache'}) BY DEF Others
  <2> HIDE DEF Faulty
  <2> QED BY <2>1, <2>2, <2>4, <2>5, DialSets DEF Others
<1>7. CountInv'
  <2> SUFFICES ASSUME NEW u \in Task PROVE CountOf(u)' BY DEF CountInv
  <2>1. CountOf(u) BY DEF TunnelInv, CountInv
  <2>2. retries[u] \in Int /\ MaxRetries \in Int BY TunnelAssumption DEF TunnelInv, TunnelTypeOK
  <2>3. /\ Others(used[u]) \in Nat /\ Others(used[u])' \in Nat
        /\ Others(used[u]) <= Others(used[u])'
    <3>1. Others(used[u])' = Cardinality(Faulty' \ {used[u]}) BY <1>3 DEF Others
    <3>2. Faulty \subseteq Faulty' BY <1>4
    <3> QED BY <3>1, <3>2, MoreFaults, CountTypes DEF TunnelInv
  <2>4. CASE u # t
    <3>1. pc'[u] = pc[u] /\ retries'[u] = retries[u] BY <1>3, <2>4
    <3> HIDE DEF Faulty
    <3> QED BY <1>6, <2>1, <2>2, <2>3, <3>1 DEF CountOf
  <2>5. CASE u = t
    <3>1. retries'[t] = retries[t] BY <1>3
    <3> HIDE DEF Faulty
    <3> QED BY <1>3, <1>6, <2>1, <2>2, <2>5, <3>1 DEF CountOf
  <2> QED BY <2>4, <2>5
<1> QED BY <1>1, <1>2, <1>5, <1>7 DEF TunnelInv

-----------------------------------------------------------------------------
LEMMA TunnelStep == TunnelInv /\ [TunnelNext]_tunnelVars => TunnelInv'
<1> SUFFICES ASSUME TunnelInv, [TunnelNext]_tunnelVars PROVE TunnelInv' OBVIOUS
<1>1. CASE UNCHANGED tunnelVars
  <2>1. UNCHANGED <<pc, retries, used, cache, writer, link, allowed, handler, stream>>
    BY <1>1 DEF tunnelVars
  <2>2. TunnelTypeOK' BY <2>1 DEF TunnelInv, TunnelTypeOK
  <2>3. LockInv' BY <2>1 DEF TunnelInv, LockInv, DialsAlone
  <2>4. HandleInv' BY <2>1 DEF TunnelInv, HandleInv, HandleOf
  <2>5. CountInv' BY <2>1 DEF TunnelInv, CountInv, CountOf, Others, Faulty
  <2> QED BY <2>2, <2>3, <2>4, <2>5 DEF TunnelInv
<1>2. ASSUME NEW t \in Task, AcceptTcp(t) \/ ClientStep(t) PROVE TunnelInv'
  BY <1>2, TunnelAccept, TunnelGet, TunnelOpen, TunnelBackoff, TunnelCache, TunnelDialFails
     DEF ClientStep
<1>3. ASSUME NEW c \in Conn, HandleConnection(c) \/ LinkLost(c) \/ LinkDropped(c)
      PROVE  TunnelInv'
  BY <1>3, TunnelLink
<1>4. CASE \/ \E t \in Task : ServerStep(t) \/ FirstFrame(t)
           \/ \E c \in Conn : HandlerEnds(c)
  BY <1>4, TunnelServer
<1> QED BY <1>1, <1>2, <1>3, <1>4 DEF TunnelNext, LinkStep

\* The inductive invariant holds throughout.
THEOREM TunnelInvHolds == TunnelSpec => []TunnelInv
BY TunnelStart, TunnelStep, PTL DEF TunnelSpec

\* The tunnel's variables keep their types; in particular no task exceeds MAX_RETRIES.
THEOREM TunnelTypes == TunnelSpec => []TunnelTypeOK
<1>1. TunnelInv => TunnelTypeOK BY DEF TunnelInv
<1> QED BY <1>1, TunnelInvHolds, PTL

\* Two tasks of tunnel-send never dial at once, and none dials over a cached connection.
THEOREM DialsAloneHolds == TunnelSpec => []DialsAlone
<1>1. TunnelInv => DialsAlone BY DEF TunnelInv, LockInv
<1> QED BY <1>1, TunnelInvHolds, PTL

\* forward_tcp_over_iroh gives up only after MAX_RETRIES different dials have failed, for any
\* number of tasks that share and invalidate the cached connection.
THEOREM GivesUpOnlyWhenDownHolds == TunnelSpec => []GivesUpOnlyWhenDown
<1>1. TunnelInv => GivesUpOnlyWhenDown
  BY DEF TunnelInv, CountInv, CountOf, GivesUpOnlyWhenDown
<1> QED BY <1>1, TunnelInvHolds, PTL
=============================================================================
