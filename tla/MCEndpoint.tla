----------------------------- MODULE MCEndpoint ------------------------------
(***************************************************************************)
(* Instances for TLC, with fairness, of two parts of an endpoint: the      *)
(* direct addresses of its socket, and its close together with that of its *)
(* router.  One of them moves, the other stays in its initial state.       *)
(***************************************************************************)
EXTENDS SocketActor, EndpointClose

VARIABLE part  \* the part that moves

EndpointInit ==
  /\ part \in {"addresses", "close"}
  /\ SocketInit /\ CloseInit
  /\ part = "close" => usable /\ relayMapEmpty

EndpointNext ==
  /\ UNCHANGED part
  /\ \/ part = "addresses" /\ SocketActorNext /\ UNCHANGED closeVars
     \/ part = "close" /\ CloseNext /\ UNCHANGED socketVars

\* No action under fairness is enabled in the initial state of its part.
EndpointSpec ==
  /\ EndpointInit /\ [][EndpointNext]_<<part, socketVars, closeVars>>
  /\ SocketFairness /\ CloseFairness

=============================================================================
