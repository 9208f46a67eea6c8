---------------------------- MODULE OrderedInbox ----------------------------
(***************************************************************************)
(* What a caller of the remote map may rely on, with no actor in sight: a  *)
(* message a send accepted waits in the queue of its remote endpoint, the  *)
(* queue is served in the order of acceptance, each message is handled     *)
(* once, and messages are only given up when the socket shuts down.        *)
(***************************************************************************)
EXTENDS Sequences

CONSTANTS Endpoint, Message

VARIABLES pending, handled, open

vars == <<pending, handled, open>>

Init == /\ pending = [e \in Endpoint |-> <<>>]
        /\ handled = [e \in Endpoint |-> <<>>]
        /\ open = TRUE

\* One message is accepted for every endpoint of S.
Accept(S, m) ==
  /\ open
  /\ pending' = [e \in Endpoint |-> IF e \in S THEN Append(pending[e], m) ELSE pending[e]]
  /\ UNCHANGED <<handled, open>>

\* The oldest message of e is handled.
Handle(e) ==
  /\ pending[e] # <<>>
  /\ pending' = [pending EXCEPT ![e] = Tail(@)]
  /\ handled' = [handled EXCEPT ![e] = Append(@, Head(pending[e]))]
  /\ UNCHANGED open

\* The socket is gone, and what was still waiting with it.
Shut == /\ open
        /\ open' = FALSE
        /\ pending' = [e \in Endpoint |-> <<>>]
        /\ UNCHANGED handled

Next == \/ \E S \in SUBSET Endpoint, m \in Message : Accept(S, m)
        \/ \E e \in Endpoint : Handle(e)
        \/ Shut

Spec == Init /\ [][Next]_vars
=============================================================================
