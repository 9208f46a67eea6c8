-------------------------- MODULE MCSignedPackets ---------------------------
(***************************************************************************)
(* An instance of SignedPackets for TLC.                                   *)
(***************************************************************************)
EXTENDS SignedPackets

CONSTANTS k1, c1

OneKey == {k1}
OneClient == {c1}

\* Two packets of one time, and one of a later time.
ThreePackets == [key : {k1}, time : {1}, body : {1, 2}] \cup [key : {k1}, time : {2}, body : {1}]
=============================================================================
