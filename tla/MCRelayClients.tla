--------------------------- MODULE MCRelayClients ---------------------------
(***************************************************************************)
(* Instances of RelayClients for TLC: endpoint a may hold three (stack) or *)
(* two connections at a time, endpoint b one.                              *)
(***************************************************************************)
EXTENDS RelayClients, TLC

CONSTANTS a, b, a1, a2, a3, b1

OneEndpoint == {a}
TwoEndpoints == {a, b}
StackConns == {a1, a2, a3}
StackAndPeer == {a1, a2, a3, b1}
PairConns == {a1, b1}
StackPair == {a1, a2}
OwnerInPair == [c \in StackPair |-> a]
OwnerOfAll == [c \in StackAndPeer |-> IF c = b1 THEN b ELSE a]
OwnerOfPair == [c \in PairConns |-> IF c = b1 THEN b ELSE a]
StackSymmetry == Permutations(StackConns)
NoDestination == {}
OnlyB == {b}

\* Up to three connections of a by themselves, or one of a that sends to b.
StackOrPeer == actor[b1] = "none" \/ Cardinality({c \in StackConns : actor[c] # "none"}) <= 1
=============================================================================
