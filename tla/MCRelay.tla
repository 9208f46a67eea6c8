------------------------------- MODULE MCRelay -------------------------------
(***************************************************************************)
(* Instances for TLC, with fairness, of how a relay server stops: the      *)
(* shutdown of its registry of clients, and the server's tasks with their  *)
(* handshakes.  One of them moves, the other stays in its initial state.   *)
(***************************************************************************)
EXTENDS MCRelayClients, RelayServer

VARIABLE half  \* the half that moves

HalvesInit == half \in {"clients", "server"} /\ Init /\ RelayServerInit

HalvesNext ==
  /\ UNCHANGED half
  /\ \/ half = "clients" /\ Next /\ UNCHANGED relayServerVars
     \/ half = "server" /\ RelayServerNext /\ UNCHANGED vars

\* No action under fairness is enabled in the initial state of its half.
HalvesSpec ==
  /\ HalvesInit /\ [][HalvesNext]_<<half, vars, relayServerVars>>
  /\ Fairness /\ RelayServerFairness

=============================================================================
