------------------------------ MODULE MCTasks --------------------------------
(***************************************************************************)
(* Instances for TLC, with fairness, of two sets of tasks that wait for    *)
(* one another: the actors of the remotes of an endpoint, and the tasks of *)
(* the two ends of a tunnel.  One of them moves, the other stays in its    *)
(* initial state.                                                          *)
(***************************************************************************)
EXTENDS MCRemoteMap, TunnelSession

VARIABLE part  \* the part that moves

TasksInit ==
  /\ part \in {"remotes", "tunnel"}
  /\ Init /\ TunnelInit
  /\ part = "remotes" => allowed

TasksNext ==
  /\ UNCHANGED part
  /\ \/ part = "remotes" /\ Next /\ UNCHANGED tunnelVars
     \/ part = "tunnel" /\ TunnelNext /\ UNCHANGED vars

\* No action under fairness is enabled in the initial state of its part.
TasksSpec ==
  /\ TasksInit /\ [][TasksNext]_<<part, vars, tunnelVars>>
  /\ Fairness /\ TunnelFairness

=============================================================================
