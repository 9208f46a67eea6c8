---------------------------- MODULE PacketStore -----------------------------
(***************************************************************************)
(* What SignedPacketStore promises its callers: one packet per key, which  *)
(* only moves forward until it expires, and a durable copy of the whole    *)
(* that a crash falls back to.                                             *)
(***************************************************************************)
EXTENDS Integers

CONSTANTS Key, Packet, None, MaxTime, Eviction

VARIABLES
  packets, \* what a get returns
  durable, \* what a crash leaves
  now

Init ==
  /\ packets = [k \in Key |-> None]
  /\ durable = packets
  /\ now = 0

AsRecent(p, q) == p.time > q.time \/ (p.time = q.time /\ p.body >= q.body)

\* An upsert that is accepted.
Put(p) ==
  /\ packets[p.key] = None \/ AsRecent(p, packets[p.key])
  /\ packets' = [packets EXCEPT ![p.key] = p]
  /\ UNCHANGED <<durable, now>>

\* A packet is evicted, never before its time.
Expire(k) ==
  /\ packets[k] # None /\ packets[k].time + Eviction < now
  /\ packets' = [packets EXCEPT ![k] = None]
  /\ UNCHANGED <<durable, now>>

Save == durable' = packets /\ UNCHANGED <<packets, now>>

Lose == packets' = durable /\ UNCHANGED <<durable, now>>

\* Time passes, and may jump back with a restart.
Clock == now' \in 0..MaxTime /\ UNCHANGED <<packets, durable>>

Next ==
  \/ \E p \in Packet : Put(p)
  \/ \E k \in Key : Expire(k)
  \/ Save \/ Lose \/ Clock

Spec == Init /\ [][Next]_<<packets, durable, now>>
=============================================================================
