------------------------------- MODULE MCParts -------------------------------
(***************************************************************************)
(* Instances for TLC of four parts of an endpoint that share no state: its *)
(* net report client, the publication of its addresses, the actors of two  *)
(* remotes on the multi-threaded runtime, and the paths to one remote.     *)
(* One of them moves, the others stay in their initial states.             *)
(***************************************************************************)
EXTENDS NetReport, AddressPublish, RemoteMap, RemotePaths, TLC

CONSTANTS x1, x2, A, B, R, p1, p2, p3

VARIABLE part  \* the part that moves

\* Relay servers in the first part, remotes in the third, connections in the last.
Two == {x1, x2}
Families == {"v4", "v6"}
Latencies46 == {4, 6}

\* The direct address A is reached from two local addresses, R is the remote's relay.
Paths == {p1, p2, p3}
PathTo == [t \in Paths |-> IF t = p3 THEN R ELSE A]

PartsInit ==
  /\ part \in {"report", "publish", "remotes", "paths"}
  /\ NetInit /\ PublishInit /\ Init /\ PathsInit

PartsNext ==
  /\ UNCHANGED part
  /\ \/ part = "report" /\ NetNext /\ UNCHANGED <<publishVars, vars, pathVars>>
     \/ part = "publish" /\ PublishNext /\ UNCHANGED <<netVars, vars, pathVars>>
     \/ part = "remotes" /\ Next /\ UNCHANGED <<netVars, publishVars, pathVars>>
     \/ part = "paths" /\ PathsNext /\ UNCHANGED <<netVars, publishVars, vars>>

PartsSpec == PartsInit /\ [][PartsNext]_<<part, netVars, publishVars, vars, pathVars>>

\* The members of Two, and the two paths to A, are interchangeable.
PartsSymmetry == Permutations(Two) \cup Permutations({p1, p2})

(***************************************************************************)
(* Every variable of the parts keeps its type: queues and channels their   *)
(* capacities, optional values at most one element.                        *)
(***************************************************************************)
PartsTypeOK ==
  CASE part = "report" -> NetTypeOK
    [] part = "publish" -> PublishTypeOK
    [] part = "remotes" -> TypeOK
    [] part = "paths" -> PathsTypeOK

=============================================================================
