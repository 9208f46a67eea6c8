--------------------------- MODULE MCRemotePaths ----------------------------
(***************************************************************************)
(* An instance of RemotePaths for TLC: one connection and two direct       *)
(* addresses, each reached by one path.                                    *)
(***************************************************************************)
EXTENDS RemotePaths

CONSTANTS A, B, a1, b1, x

DirectPaths == {a1, b1}
DirectAddrs == {A, B}
Nothing == {}
OneConn == {x}

\* The remote address of each path.
MCRemoteOf == [t \in DirectPaths |-> IF t = a1 THEN A ELSE B]
=============================================================================
