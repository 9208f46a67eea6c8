----------------------------- MODULE OrderFacts -----------------------------
(***************************************************************************)
(* Least and greatest elements, for the proofs about queues (the last      *)
(* message of a kind) and about latencies (the least of a set).  They are  *)
(* derived from the well-foundedness of < on the naturals.                 *)
(***************************************************************************)
EXTENDS Naturals, WellFoundedInduction, TLAPS

\* A set of naturals that is not empty has a least element.
LEMMA NatMin ==
  ASSUME NEW S \in SUBSET Nat, S # {}
  PROVE  \E x \in S : \A y \in S : x <= y
<1>1. PICK x \in S : \A y \in S : ~ (<<y, x>> \in OpToRel(<, Nat))
  BY NatLessThanWellFounded, WFMin
<1>2. \A y \in S : y \in Nat /\ x \in Nat
  OBVIOUS
<1>3. \A y \in S : ~ (y < x)
  BY Zenon, <1>1, <1>2 DEF OpToRel
<1>4. \A y \in S : x <= y
  BY ONLY <1>2, <1>3, SMT
<1> QED BY <1>4, Zenon

\* A set of indices of a sequence that is not empty has a last one.
LEMMA LastIndex ==
  ASSUME NEW n \in Nat, NEW S \in SUBSET (1..n), S # {}
  PROVE  \E x \in S : \A y \in S : y <= x
<1> DEFINE B == {m \in Nat : \A y \in S : y <= m}
<1>1. n \in B
  OBVIOUS
<1>2. PICK m \in B : \A y \in B : m <= y
  BY <1>1, NatMin
<1>3. m \in S
  <2> SUFFICES ASSUME m \notin S PROVE FALSE
    OBVIOUS
  <2>1. PICK y \in S : TRUE
    OBVIOUS
  <2>2. y \in 1..n /\ y <= m
    OBVIOUS
  <2>3. m - 1 \in B
    BY <1>2, <2>2
  <2> QED BY <1>2, <2>2, <2>3
<1> QED BY <1>2, <1>3
=============================================================================
