--------------------------- MODULE RelayTransport ---------------------------
(***************************************************************************)
(* The relay connections of an endpoint (transports/relay/actor.rs):       *)
(* RelayActor, one ActiveRelayActor per relay server in use, and the       *)
(* HomeRelayWatch they share.                                              *)
(*                                                                         *)
(* Timers may fire whenever they are armed.  Datagrams are counted, not    *)
(* carried; of the remote endpoints only the routes are kept.  Optional    *)
(* values are sets of at most one element.                                 *)
(***************************************************************************)
EXTENDS Naturals, Sequences

CONSTANTS
  RelayUrl,  \* relay servers
  Peer,      \* remote endpoints
  RelayInbox, \* capacity of an actor's inbox, 64 in the code
  SendQueue   \* capacity of an actor's datagram queue, 64 in the code

ASSUME RelayAssumption == RelayInbox \in Nat \ {0} /\ SendQueue \in Nat \ {0}

VARIABLES
  home,       \* HomeRelayWatch: at most one [url, state]
  matched,    \* actors inside set_status, between the get with its comparison and the set
  overwritten, \* history: the set of a set_status replaced another home relay
  active,     \* RelayActor::active_relays
  task,       \* the place of each ActiveRelayActor; "off" when there is none
  isHome,     \* ActiveRelayActor::is_home_relay
  state,      \* ConnectedRelayState of each actor
  relayInbox, \* messages to each actor
  queued,     \* datagrams queued to each actor
  unjoined,   \* ended tasks that join_next has not returned yet
  boss,       \* what RelayActor is doing
  stuck       \* the actor that datagram_send_fut waits for

homeWatch == <<home, matched, overwritten>>
places == <<active, task, isHome, unjoined>>
channels == <<relayInbox, queued>>
relayVars == <<homeWatch, places, channels, state, boss, stuck>>

Loop == [pc |-> "loop", url |-> {}, peer |-> {}, todo |-> {}]
NewConnState == [established |-> FALSE, present |-> {}]

RelayInit ==
  /\ home = {} /\ matched = {} /\ overwritten = FALSE
  /\ active = {} /\ task = [u \in RelayUrl |-> "off"] /\ unjoined = 0
  /\ isHome = [u \in RelayUrl |-> FALSE] /\ state = [u \in RelayUrl |-> NewConnState]
  /\ relayInbox = [u \in RelayUrl |-> <<>>] /\ queued = [u \in RelayUrl |-> 0]
  /\ boss = Loop /\ stuck = {}

HomeUrl == {h.url : h \in home}

(***************************************************************************)
(* ActiveRelayActor.                                                       *)
(***************************************************************************)
Goto(u, place) == task' = [task EXCEPT ![u] = place]

\* Where an actor writes a status, and which one.
Published == [connecting |-> "Connecting", dialed |-> "Connected",
              promoted |-> "Connected", failed |-> "Disconnected"]

\* run: after a failure the actor waits, unless the connection was established.
AfterPublish(u) ==
  CASE task[u] = "connecting" -> "dialing"
    [] task[u] \in {"dialed", "promoted"} -> "connected"
    [] task[u] = "failed" -> IF state[u].established THEN "connecting" ELSE "backoff"

\* run: after a failure the connection's state is dropped.
Publish(u) ==
  /\ Goto(u, AfterPublish(u))
  /\ state' = IF task[u] = "failed" THEN [state EXCEPT ![u] = NewConnState] ELSE state
  /\ UNCHANGED <<active, isHome, unjoined, channels, boss, stuck>>

\* set_status: get, and the comparison.
StatusGet(u) ==
  /\ task[u] \in DOMAIN Published /\ u \notin matched
  /\ IF u \in HomeUrl
       THEN /\ matched' = matched \cup {u}
            /\ UNCHANGED <<places, channels, state, boss, stuck>>
       ELSE UNCHANGED matched /\ Publish(u)
  /\ UNCHANGED <<home, overwritten>>

\* set_status: set.
StatusSet(u) ==
  /\ u \in matched
  /\ home' = {[url |-> u, state |-> Published[task[u]]]}
  /\ matched' = matched \ {u}
  /\ overwritten' = (overwritten \/ u \notin HomeUrl)
  /\ Publish(u)

BackoffOver(u) ==
  /\ task[u] = "backoff"
  /\ Goto(u, "connecting")
  /\ UNCHANGED <<homeWatch, active, isHome, unjoined, channels, state, boss, stuck>>

\* dial_relay completes.
DialOk(u) ==
  /\ task[u] = "dialing"
  /\ Goto(u, "dialed")
  /\ UNCHANGED <<homeWatch, active, isHome, unjoined, channels, state, boss, stuck>>

DialFails(u) ==
  /\ task[u] = "dialing"
  /\ Goto(u, "failed")
  /\ UNCHANGED <<homeWatch, active, isHome, unjoined, channels, state, boss, stuck>>

\* send_datagram_flush: what could not be delivered is dropped.
Flush(u) ==
  /\ task[u] = "dialing" /\ queued[u] > 0
  /\ queued' = [queued EXCEPT ![u] = 0]
  /\ UNCHANGED <<homeWatch, places, relayInbox, state, boss, stuck>>

\* run_connected returns an error, which tells whether a pong had come; the pong matters only here and is
\* decided here.
Fail(u) ==
  /\ Goto(u, "failed")
  /\ \E pong \in BOOLEAN : state' = [state EXCEPT ![u] = [established |-> pong, present |-> {}]]

\* Mutant for HomeStatusIsTrue: a connected actor that becomes the home relay publishes nothing.
HandleSetHomeQuietly(u) ==
  /\ relayInbox[u] # <<>> /\ Head(relayInbox[u]) \in {"home", "away"}
  /\ isHome' = [isHome EXCEPT ![u] = Head(relayInbox[u]) = "home"]
  /\ UNCHANGED <<task, state>>

\* SetHomeRelay: a connected actor that becomes the home relay publishes its status.
HandleSetHomeRelay(u) ==
  /\ relayInbox[u] # <<>> /\ Head(relayInbox[u]) \in {"home", "away"}
  /\ isHome' = [isHome EXCEPT ![u] = Head(relayInbox[u]) = "home"]
  /\ IF task[u] = "connected" /\ Head(relayInbox[u]) = "home" THEN Goto(u, "promoted") ELSE UNCHANGED task
  /\ UNCHANGED state

\* CheckConnection: while dialling nothing; else a ping, or the end of the connection when its local address is gone.
HandleCheckConnection(u) ==
  /\ relayInbox[u] # <<>> /\ Head(relayInbox[u]) = "check"
  /\ \/ task[u] = "dialing" /\ UNCHANGED <<task, state>>
     \/ task[u] = "connected" /\ Goto(u, "sending") /\ UNCHANGED state
     \/ task[u] = "connected" /\ Fail(u)
  /\ UNCHANGED isHome

RelayReceive(u) ==
  /\ task[u] \in {"dialing", "connected"}
  /\ HandleSetHomeRelay(u) \/ HandleCheckConnection(u)
  /\ relayInbox' = [relayInbox EXCEPT ![u] = Tail(@)]
  /\ UNCHANGED <<homeWatch, active, unjoined, queued, boss, stuck>>

\* A pong is owed, a ping is due, or a batch of datagrams is sent.
StartSending(u) ==
  /\ task[u] = "connected"
  /\ Goto(u, "sending")
  /\ queued' \in {queued, [queued EXCEPT ![u] = 0]}
  /\ UNCHANGED <<homeWatch, active, isHome, unjoined, relayInbox, state, boss, stuck>>

\* run_sending returns Ok: sent, stopped, or inactive.
SendingDone(u) ==
  /\ task[u] = "sending"
  /\ Goto(u, "connected")
  /\ UNCHANGED <<homeWatch, active, isHome, unjoined, channels, state, boss, stuck>>

\* A sender's route is registered, unless it is also that of the last datagram, when nothing changes.
HandleDatagrams(u, p) == state' = [state EXCEPT ![u].present = @ \cup {p}]

\* handle_relay_msg: datagrams and EndpointGone; of Pong see Fail, the others change nothing here.
HandleRelayMsg(u) ==
  /\ task[u] \in {"sending", "connected"}
  /\ \/ \E p \in Peer : HandleDatagrams(u, p)
     \/ \E p \in state[u].present : state' = [state EXCEPT ![u].present = @ \ {p}]
  /\ UNCHANGED <<homeWatch, places, channels, boss, stuck>>

\* The stream ends, a write fails or takes too long, or a ping is not answered.
ConnectionFails(u) ==
  /\ task[u] \in {"sending", "connected"}
  /\ Fail(u)
  /\ UNCHANGED <<homeWatch, active, isHome, unjoined, channels, boss, stuck>>

\* The task is over: its receivers are dropped.
End(u) ==
  /\ Goto(u, "off") /\ unjoined' = unjoined + 1
  /\ isHome' = [isHome EXCEPT ![u] = FALSE] /\ state' = [state EXCEPT ![u] = NewConnState]
  /\ relayInbox' = [relayInbox EXCEPT ![u] = <<>>] /\ queued' = [queued EXCEPT ![u] = 0]

\* Inactive and not the home relay; the selects are biased, so they have nothing else to do then
\* (while dialling the actor does not read its datagrams).  A connection is closed first, for
\* which the actor waits with its receivers open and unread.
ActorStops(u) ==
  /\ task[u] \in {"dialing", "connected"}
  /\ ~isHome[u] /\ relayInbox[u] = <<>> /\ (task[u] = "connected" => queued[u] = 0)
  /\ IF task[u] = "dialing" THEN End(u)
     ELSE /\ Goto(u, "stopping")
          /\ state' = [state EXCEPT ![u] = NewConnState]
          /\ UNCHANGED <<isHome, unjoined, channels>>
  /\ UNCHANGED <<homeWatch, active, boss, stuck>>

\* client_sink.close() returns.
SinkClosed(u) ==
  /\ task[u] = "stopping"
  /\ End(u)
  /\ UNCHANGED <<homeWatch, active, boss, stuck>>

(***************************************************************************)
(* RelayActor.                                                             *)
(***************************************************************************)
\* active_relay_handle: an actor is started unless there is one; it is told when it is the home relay.
ActiveRelayHandle(handles, u) ==
  /\ active' = handles \cup {u}
  /\ IF u \in handles THEN UNCHANGED <<task, relayInbox>>
     ELSE Goto(u, "connecting")
          /\ relayInbox' = [relayInbox EXCEPT ![u] = IF u \in HomeUrl THEN <<"home">> ELSE <<>>]

\* The select loop is biased: cancellation, then the tasks that ended (unjoined), then messages and datagrams.
\* A task that ends while the select is being polled is taken to end after it: no branch depends on it but
\* a send to it, which drops the datagram either way.
AtLoop == boss.pc = "loop"

\* Mutant for HomeIsServed: the home relay is not started again.
ReapOnly ==
  /\ AtLoop /\ unjoined > 0
  /\ unjoined' = unjoined - 1
  /\ active' = {u \in active : task[u] # "off"}
  /\ UNCHANGED <<homeWatch, task, isHome, channels, state, boss, stuck>>

\* join_next and reap_active_relays.
JoinAndReap ==
  /\ AtLoop /\ unjoined > 0
  /\ unjoined' = unjoined - 1
  /\ LET handles == {u \in active : task[u] # "off"}
     IN IF home = {} THEN active' = handles /\ UNCHANGED <<task, relayInbox>>
        ELSE \E u \in HomeUrl : ActiveRelayHandle(handles, u)
  /\ UNCHANGED <<homeWatch, isHome, queued, state, boss, stuck>>

\* on_network_change with the preferred relay of a report.
RelaysOnNetworkChange(preferred) ==
  /\ AtLoop /\ unjoined = 0 /\ preferred # HomeUrl
  /\ IF preferred = {}
       THEN home' = {} /\ UNCHANGED boss
       ELSE /\ home' = {[url |-> u, state |-> "Connecting"] : u \in preferred}
            /\ boss' = [Loop EXCEPT !.pc = "tell", !.url = preferred, !.todo = active]
  /\ UNCHANGED <<matched, overwritten, places, channels, state, stuck>>

\* RelayActor's sends to all actors: a full inbox is waited for, a closed one skipped.
SendTo(u, msg) ==
  /\ u \in boss.todo
  /\ IF task[u] = "off" THEN UNCHANGED relayInbox
     ELSE Len(relayInbox[u]) < RelayInbox /\ relayInbox' = [relayInbox EXCEPT ![u] = Append(@, msg)]
  /\ boss' = [boss EXCEPT !.todo = @ \ {u}]
  /\ UNCHANGED <<homeWatch, places, queued, state, stuck>>

\* set_home_relay tells every actor whether it is the home relay.
TellHome(u) == boss.pc = "tell" /\ SendTo(u, IF u \in boss.url THEN "home" ELSE "away")

\* set_home_relay, when all are told.
EnsureHome ==
  /\ boss.pc = "tell" /\ boss.todo = {}
  /\ \E u \in boss.url : ActiveRelayHandle(active, u)
  /\ boss' = Loop
  /\ UNCHANGED <<homeWatch, isHome, unjoined, queued, state, stuck>>

\* send_check_connection, after a rebind or a network change.
CheckConnections ==
  /\ AtLoop /\ unjoined = 0 /\ active # {}
  /\ boss' = [Loop EXCEPT !.pc = "check", !.todo = active]
  /\ UNCHANGED <<homeWatch, places, channels, state, stuck>>

CheckOne(u) == boss.pc = "check" /\ SendTo(u, "check")

CheckDone ==
  /\ boss.pc = "check" /\ boss.todo = {}
  /\ boss' = Loop
  /\ UNCHANGED <<homeWatch, places, channels, state, stuck>>

\* try_send_datagram's last part.
Enqueue(u) ==
  IF task[u] = "off" THEN UNCHANGED <<queued, stuck>>
  ELSE IF queued[u] < SendQueue
         THEN queued' = [queued EXCEPT ![u] = @ + 1] /\ UNCHANGED stuck
         ELSE stuck' = {u} /\ UNCHANGED queued

\* try_send_datagram: the actor of the item's relay, if there is one.
SendDatagram(u) ==
  /\ AtLoop /\ unjoined = 0 /\ stuck = {} /\ u \in active
  /\ Enqueue(u)
  /\ UNCHANGED <<homeWatch, places, relayInbox, state, boss>>

\* active_relay_handle_for_endpoint: otherwise every actor is asked for the endpoint.
AskRoutes(u, p) ==
  /\ AtLoop /\ unjoined = 0 /\ stuck = {} /\ u \notin active
  /\ boss' = [pc |-> "route", url |-> {u}, peer |-> {p}, todo |-> active]
  /\ UNCHANGED <<homeWatch, places, channels, state, stuck>>

\* HasEndpointRoute, answered wherever the actor reads its priority inbox; an ended one gives no answer.
RouteAnswer(u) ==
  /\ boss.pc = "route" /\ u \in boss.todo
  /\ \/ /\ task[u] \in {"connected", "sending"} /\ boss.peer \subseteq state[u].present
        /\ Enqueue(u) /\ boss' = Loop
     \/ /\ task[u] \in {"dialing", "off"} \/ (task[u] \in {"connected", "sending"} /\ ~(boss.peer \subseteq state[u].present))
        /\ boss' = [boss EXCEPT !.todo = @ \ {u}] /\ UNCHANGED <<queued, stuck>>
  /\ UNCHANGED <<homeWatch, places, relayInbox, state>>

\* Nobody knows the endpoint: an actor is started for the item's relay.
NoRoute ==
  /\ boss.pc = "route" /\ boss.todo = {}
  /\ \E u \in boss.url : ActiveRelayHandle(active, u) /\ queued' = [queued EXCEPT ![u] = 1]
  /\ boss' = Loop
  /\ UNCHANGED <<homeWatch, isHome, unjoined, state, stuck>>

\* datagram_send_fut completes.
Unstuck(u) ==
  /\ AtLoop /\ unjoined = 0 /\ u \in stuck
  /\ \/ task[u] = "off" /\ UNCHANGED queued
     \/ task[u] # "off" /\ queued[u] < SendQueue /\ queued' = [queued EXCEPT ![u] = @ + 1]
  /\ stuck' = {}
  /\ UNCHANGED <<homeWatch, places, relayInbox, state, boss>>

\* The socket is closed, whatever RelayActor is doing, and close_all_active_relays ends every task or gives up on it.
CloseAllActiveRelays ==
  /\ boss.pc # "done"
  /\ task' = [u \in RelayUrl |-> "off"] /\ unjoined' = 0 /\ matched' = {}
  /\ isHome' = [u \in RelayUrl |-> FALSE] /\ state' = [u \in RelayUrl |-> NewConnState]
  /\ relayInbox' = [u \in RelayUrl |-> <<>>] /\ queued' = [u \in RelayUrl |-> 0]
  /\ boss' = [Loop EXCEPT !.pc = "done"] /\ stuck' = {}
  /\ UNCHANGED <<home, overwritten, active>>

ActiveRelayNext(u) ==
  \/ StatusGet(u) \/ StatusSet(u) \/ BackoffOver(u)
  \/ DialOk(u) \/ DialFails(u) \/ Flush(u) \/ RelayReceive(u)
  \/ StartSending(u) \/ SendingDone(u) \/ HandleRelayMsg(u) \/ ConnectionFails(u)
  \/ ActorStops(u) \/ SinkClosed(u)

RelayActorNext ==
  \/ JoinAndReap \/ EnsureHome \/ CheckConnections \/ CheckDone \/ NoRoute
  \/ CloseAllActiveRelays
  \/ \E preferred \in {{}} \cup {{u} : u \in RelayUrl} : RelaysOnNetworkChange(preferred)
  \/ \E u \in RelayUrl : TellHome(u) \/ CheckOne(u) \/ SendDatagram(u) \/ RouteAnswer(u) \/ Unstuck(u)
  \/ \E u \in RelayUrl, p \in Peer : AskRoutes(u, p)

RelayNext == RelayActorNext \/ \E u \in RelayUrl : ActiveRelayNext(u)

RelaySpec == RelayInit /\ [][RelayNext]_relayVars

Place == DOMAIN Published \cup {"off", "dialing", "connected", "sending", "backoff", "stopping"}
ActiveRelayMessage == {"home", "away", "check"}
RelayStatus == {"Connecting", "Connected", "Disconnected"}
HomeRelay == [url : RelayUrl, state : RelayStatus]
ConnState == [established : BOOLEAN, present : SUBSET Peer]
BossState == [pc : {"loop", "tell", "check", "route", "done"}, url : SUBSET RelayUrl,
              peer : SUBSET Peer, todo : SUBSET RelayUrl]

RelayTypeOK ==
  /\ home \subseteq HomeRelay /\ \A h, i \in home : h = i
  /\ matched \subseteq RelayUrl /\ active \subseteq RelayUrl
  /\ task \in [RelayUrl -> Place] /\ isHome \in [RelayUrl -> BOOLEAN] /\ unjoined \in Nat
  /\ state \in [RelayUrl -> ConnState]
  /\ \A u \in RelayUrl : Len(relayInbox[u]) <= RelayInbox
  /\ relayInbox \in [RelayUrl -> Seq(ActiveRelayMessage)]
  /\ queued \in [RelayUrl -> 0..SendQueue]
  /\ boss \in BossState /\ stuck \subseteq RelayUrl /\ overwritten \in BOOLEAN

\* What an actor will think of itself once it has read its inbox.
Believes(u) ==
  LET told == {i \in DOMAIN relayInbox[u] : relayInbox[u][i] # "check"}
  IN IF told = {} THEN isHome[u]
     ELSE relayInbox[u][CHOOSE i \in told : \A j \in told : j <= i] = "home"

(***************************************************************************)
(* Whenever RelayActor is back in its loop, the home relay has an actor    *)
(* that takes itself for the home relay or has it in its inbox, or has     *)
(* ended and is yet to be joined, and no other actor does (set_home_relay, *)
(* reap_active_relays against the actors' inactivity timers), unless a     *)
(* set_status overwrote a newer home relay between its get and its set.    *)
(***************************************************************************)
HomeIsServed ==
  (boss.pc = "loop" /\ home # {} /\ ~overwritten) =>
    /\ HomeUrl \subseteq active
    /\ unjoined = 0 => \A u \in active : task[u] # "off" /\ (Believes(u) <=> u \in HomeUrl)

(***************************************************************************)
(* The published status tells the truth: Connected only while the home     *)
(* relay's actor is connected or has yet to publish what has happened, or  *)
(* is ending or has ended and will be replaced; and an actor that is       *)
(* connected has published it or will be told to; again unless a           *)
(* set_status overwrote a newer home relay (set_status of ActiveRelayActor *)
(* against set of RelayActor).                                             *)
(***************************************************************************)
HomeStatusIsTrue ==
  \A h \in home : (boss.pc # "done" /\ ~overwritten) =>
    /\ h.state = "Connected" =>
         \/ task[h.url] \in {"connected", "sending", "promoted", "failed", "connecting", "stopping"}
         \/ task[h.url] = "off" /\ unjoined > 0
    /\ (task[h.url] \in {"connected", "sending"} /\ h.state # "Connected") =>
         \/ \E i \in DOMAIN relayInbox[h.url] : relayInbox[h.url][i] = "home"
         \/ boss.pc = "tell" /\ h.url \in boss.todo

=============================================================================
