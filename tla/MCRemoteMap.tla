---------------------------- MODULE MCRemoteMap -----------------------------
(***************************************************************************)
(* Instances of RemoteMap for TLC.                                         *)
(***************************************************************************)
EXTENDS RemoteMap

CONSTANTS e1, a1, a2, a3, a4, r1

OneEndpoint == {e1}
TwoActors == {a1, a2}
FourActors == {a1, a2, a3, a4}
OneReader == {r1}

AllKinds == SocketKind \cup ReaderKind \cup {"NetworkChange"}
=============================================================================
