------------------------------- MODULE MCRelays ------------------------------
(***************************************************************************)
(* Instances for TLC of the two sides of the relay connections: the        *)
(* registry of clients of a relay server, and the relay transport of an    *)
(* endpoint.  One of them moves, the other stays in its initial state.     *)
(***************************************************************************)
EXTENDS MCRelayClients, RelayTransport

CONSTANTS u1, u2

VARIABLE part  \* the part that moves

TwoRelays == {u1, u2}

RelaysInit == part \in {"registry", "transport"} /\ Init /\ RelayInit

RelaysNext ==
  /\ UNCHANGED part
  /\ \/ part = "registry" /\ Next /\ UNCHANGED relayVars
     \/ part = "transport" /\ RelayNext /\ UNCHANGED vars

RelaysSpec == RelaysInit /\ [][RelaysNext]_<<part, vars, relayVars>>

\* The connections of a are interchangeable, and so are the relays, which are swapped along with two connections.
RelaysSymmetry ==
  {p @@ [u \in TwoRelays |-> IF \E c \in StackConns : \A d \in StackConns : p[d] = d <=> d = c
                            THEN CHOOSE v \in TwoRelays : v # u ELSE u] : p \in Permutations(StackConns)}

\* Nothing is claimed of the states after a set_status has overwritten a newer home relay.
BeforeOverwrite == ~overwritten

=============================================================================
