--------------------------- MODULE ShutdownProofs ---------------------------
(***************************************************************************)
(* Theorems about the two ends of a life: how the relay server accepts and *)
(* stops its connections (RelayServer), and how an endpoint is closed      *)
(* (EndpointClose).                                                        *)
(***************************************************************************)
EXTENDS RelayServer, EndpointClose, TLAPS

(***************************************************************************)
(* The relay server, for any number of connections.  A guard is held where *)
(* it should be because the handshake of a connection goes through its     *)
(* places in one order only: the invariant says, place by place, what has  *)
(* happened before.  A graceful shutdown leaves nobody running because a   *)
(* client is in the registry, then among those that are awaited, or came   *)
(* after they were collected.                                              *)
(***************************************************************************)
\* Nothing is known of a connection before it is accepted, and no handshake begins before the upgrade.
Untouched(c) ==
  /\ client[c] = "idle" => conn[c] = "none" /\ upgrade[c] = "none" /\ toClient[c] = "none"
  /\ conn[c] = "establishing" => upgrade[c] = "none"

\* The handshake's places in their order.
InOrder(c) ==
  /\ upgrade[c] \in {"authorize", "confirm", "register"} => proof[c].signed = TRUE
  /\ relayed[c] # "none" => upgrade[c] = "done"
  /\ toClient[c] = "confirms" => guard[c] # "none" /\ proof[c].signed = TRUE

\* GuardIsHeld for one connection.
GuardOf(c) ==
  /\ guard[c] = "held" <=> (upgrade[c] \in {"confirm", "register"} \/ relayed[c] \in {"running", "aborted"})
  /\ client[c] = "confirmed" => guard[c] # "none" /\ proof[c].signed

HandshakeInv == \A c \in Link : Untouched(c) /\ InOrder(c) /\ GuardOf(c)

\* Where a client that runs is known of, as the HTTP server goes through its end.
KnownOf(c) ==
  relayed[c] = "running" =>
    /\ httpTask = "accepting" => c \in registry
    /\ httpTask = "clients" => c \in draining \cup afterCollect
    /\ httpTask = "ended" => c \in afterCollect

KnownInv == \A c \in Link : KnownOf(c)

ServerInv == RelayServerTypeOK /\ HandshakeInv /\ KnownInv

-----------------------------------------------------------------------------
LEMMA ServerInit == RelayServerInit => ServerInv
<1> SUFFICES ASSUME RelayServerInit PROVE ServerInv OBVIOUS
<1>1. RelayServerTypeOK
  <2>1. NoProof \in Proof BY DEF Proof, NoProof
  <2> QED BY <2>1 DEF RelayServerInit, RelayServerTypeOK
<1>2. HandshakeInv BY DEF RelayServerInit, HandshakeInv, Untouched, InOrder, GuardOf
<1>3. KnownInv BY DEF RelayServerInit, KnownInv, KnownOf
<1> QED BY <1>1, <1>2, <1>3 DEF ServerInv

\* Each action of the server's tasks and of a connection keeps the types.
LEMMA TypeStep == RelayServerTypeOK /\ [RelayServerNext]_relayServerVars => RelayServerTypeOK'
<1> SUFFICES ASSUME RelayServerTypeOK, [RelayServerNext]_relayServerVars PROVE RelayServerTypeOK' OBVIOUS
<1> USE DEF RelayServerTypeOK, serverTasks, handshake, clientsParts, Set
<1>1. CASE HttpBreaks BY <1>1 DEF HttpBreaks
<1>2. CASE HttpEnds BY <1>2 DEF HttpEnds
<1>3. CASE QuicCloses \/ QuicEnds BY <1>3 DEF QuicCloses, QuicEnds
<1>4. CASE SupervisorWakes BY <1>4 DEF SupervisorWakes, AbortHttp, DropHttp
<1>5. CASE SupervisorEnds \/ MetricsStopped \/ ServerShutdownReturns
  BY <1>5 DEF SupervisorEnds, MetricsStopped, ServerShutdownReturns
<1>6. CASE SideTaskEnds \/ ServerShutdown
  <2>1. CASE SideTaskEnds BY <2>1 DEF SideTaskEnds
  <2>2. CASE ServerShutdown BY <2>2 DEF ServerShutdown
  <2> QED BY <1>6, <2>1, <2>2
<1>7. CASE ServerDropped BY <1>7 DEF ServerDropped, AbortHttp, DropHttp
<1>8. ASSUME NEW c \in Link, AcceptConnection(c) PROVE RelayServerTypeOK' BY <1>8 DEF AcceptConnection
<1>9. ASSUME NEW c \in Link, NotEstablished(c) \/ Upgraded(c) PROVE RelayServerTypeOK'
  BY <1>9 DEF NotEstablished, Upgraded
<1>10. ASSUME NEW c \in Link, CheckHeader(c) PROVE RelayServerTypeOK' BY <1>10 DEF CheckHeader
<1>11. ASSUME NEW c \in Link, CheckAnswer(c) PROVE RelayServerTypeOK' BY <1>11 DEF CheckAnswer
<1>12. ASSUME NEW c \in Link, Admit(c) \/ Deny(c) \/ Confirm(c) PROVE RelayServerTypeOK'
  BY <1>12 DEF Admit, Deny, Confirm
<1>13. ASSUME NEW c \in Link, HandshakeFails(c) PROVE RelayServerTypeOK' BY <1>13 DEF HandshakeFails, DropGuard
<1>14. ASSUME NEW c \in Link, Register(c) PROVE RelayServerTypeOK' BY <1>14 DEF Register
<1>15. ASSUME NEW c \in Link, ClientReads(c) PROVE RelayServerTypeOK' BY <1>15 DEF ClientReads
<1>16. ASSUME NEW c \in Link, ClientLeaves(c) PROVE RelayServerTypeOK' BY <1>16 DEF ClientLeaves
<1>17. ASSUME NEW c \in Link, RelayedEnds(c) PROVE RelayServerTypeOK' BY <1>17 DEF RelayedEnds, DropGuard
<1>18. CASE SupervisorPanics BY <1>18 DEF SupervisorPanics, AbortHttp, DropHttp
<1>19. CASE HttpPanics BY <1>19 DEF HttpPanics, DropHttp
<1>20. CASE UNCHANGED relayServerVars BY <1>20 DEF relayServerVars
<1> QED
  BY <1>1, <1>2, <1>3, <1>4, <1>5, <1>6, <1>7, <1>8, <1>9, <1>10, <1>11, <1>12, <1>13, <1>14, <1>15, <1>16,
     <1>17, <1>18, <1>19, <1>20 DEF RelayServerNext, ServerTaskStep, HandshakeStep

\* Each action keeps what the invariant says of one connection d.
LEMMA ConnectionStep ==
  ASSUME NEW d \in Link, RelayServerTypeOK, HandshakeInv, KnownInv, [RelayServerNext]_relayServerVars
  PROVE  (Untouched(d) /\ InOrder(d) /\ GuardOf(d) /\ KnownOf(d))'
<1>0. Untouched(d) /\ InOrder(d) /\ GuardOf(d) /\ KnownOf(d) BY DEF HandshakeInv, KnownInv
<1> DEFINE Goal == (Untouched(d) /\ InOrder(d) /\ GuardOf(d) /\ KnownOf(d))'
<1> USE <1>0 DEF RelayServerTypeOK, Untouched, InOrder, GuardOf, KnownOf, serverTasks, handshake, clientsParts, Set
<1>1. CASE HttpBreaks BY <1>1 DEF HttpBreaks
<1>2. CASE HttpEnds BY <1>2 DEF HttpEnds
<1>3. CASE QuicCloses \/ QuicEnds BY <1>3 DEF QuicCloses, QuicEnds
<1>4. CASE SupervisorWakes BY <1>4 DEF SupervisorWakes, AbortHttp, DropHttp
<1>5. CASE SupervisorEnds \/ MetricsStopped \/ ServerShutdownReturns
  BY <1>5 DEF SupervisorEnds, MetricsStopped, ServerShutdownReturns
<1>6. CASE SideTaskEnds \/ ServerShutdown BY <1>6 DEF SideTaskEnds, ServerShutdown
<1>7. CASE ServerDropped BY <1>7 DEF ServerDropped, AbortHttp, DropHttp
<1>8. ASSUME NEW c \in Link, AcceptConnection(c) PROVE Goal BY <1>8 DEF AcceptConnection
<1>9. ASSUME NEW c \in Link, NotEstablished(c) \/ Upgraded(c) PROVE Goal BY <1>9 DEF NotEstablished, Upgraded
<1>10. ASSUME NEW c \in Link, CheckHeader(c) PROVE Goal BY <1>10 DEF CheckHeader
<1>11. ASSUME NEW c \in Link, CheckAnswer(c) PROVE Goal BY <1>11 DEF CheckAnswer
<1>12. ASSUME NEW c \in Link, Admit(c) \/ Deny(c) \/ Confirm(c) PROVE Goal BY <1>12 DEF Admit, Deny, Confirm
<1>13. ASSUME NEW c \in Link, HandshakeFails(c) PROVE Goal BY <1>13 DEF HandshakeFails, DropGuard
<1>14. ASSUME NEW c \in Link, Register(c) PROVE Goal BY <1>14 DEF Register
<1>15. ASSUME NEW c \in Link, ClientReads(c) PROVE Goal BY <1>15 DEF ClientReads
<1>16. ASSUME NEW c \in Link, ClientLeaves(c) PROVE Goal BY <1>16 DEF ClientLeaves
<1>17. ASSUME NEW c \in Link, RelayedEnds(c) PROVE Goal BY <1>17 DEF RelayedEnds, DropGuard
<1>18. CASE SupervisorPanics BY <1>18 DEF SupervisorPanics, AbortHttp, DropHttp
<1>19. CASE HttpPanics BY <1>19 DEF HttpPanics, DropHttp
<1>20. CASE UNCHANGED relayServerVars BY <1>20 DEF relayServerVars
<1> QED
  BY <1>1, <1>2, <1>3, <1>4, <1>5, <1>6, <1>7, <1>8, <1>9, <1>10, <1>11, <1>12, <1>13, <1>14, <1>15, <1>16,
     <1>17, <1>18, <1>19, <1>20 DEF RelayServerNext, ServerTaskStep, HandshakeStep

LEMMA ServerStep == ServerInv /\ [RelayServerNext]_relayServerVars => ServerInv'
<1> SUFFICES ASSUME ServerInv, [RelayServerNext]_relayServerVars PROVE ServerInv' OBVIOUS
<1>1. RelayServerTypeOK' BY TypeStep DEF ServerInv
<1>2. \A d \in Link : (Untouched(d) /\ InOrder(d) /\ GuardOf(d) /\ KnownOf(d))' BY ConnectionStep DEF ServerInv
<1> QED BY <1>1, <1>2 DEF ServerInv, HandshakeInv, KnownInv

LEMMA ServerInvariant == RelayServerSpec => []ServerInv
BY ServerInit, ServerStep, PTL DEF RelayServerSpec

-----------------------------------------------------------------------------
(***************************************************************************)
(* Every variable of the relay server's tasks keeps its type.              *)
(***************************************************************************)
THEOREM ServerTypeCorrect == RelayServerSpec => []RelayServerTypeOK
<1>1. ServerInv => RelayServerTypeOK BY DEF ServerInv
<1> QED BY <1>1, ServerInvariant, PTL

(***************************************************************************)
(* OnDisconnectGuard: access control is told of the end of a connection    *)
(* that it admitted, once and not before; and whoever was confirmed had    *)
(* proved its key.                                                         *)
(***************************************************************************)
THEOREM GuardIsHeldHolds == RelayServerSpec => []GuardIsHeld
<1>1. ServerInv => GuardIsHeld BY DEF ServerInv, HandshakeInv, GuardOf, GuardIsHeld
<1> QED BY <1>1, ServerInvariant, PTL

(***************************************************************************)
(* Server::shutdown: when the HTTP server has ended by itself, the only    *)
(* clients that run registered after Clients::shutdown had collected.      *)
(***************************************************************************)
THEOREM GracefulStopsHolds == RelayServerSpec => []GracefulStops
<1>1. ServerInv => GracefulStops BY DEF ServerInv, KnownInv, KnownOf, GracefulStops
<1> QED BY <1>1, ServerInvariant, PTL

(***************************************************************************)
(* The end of an endpoint, for any number of callers, incoming connections *)
(* and protocols.  What a shutdown that returned may rely on was           *)
(* established by other calls: the invariant follows the close from place  *)
(* to place, says who is still closing while the endpoint is not closed,   *)
(* and what the router's loop has done by each of its places.              *)
(***************************************************************************)
\* What a call of close has done, or found done, by each of its places.
PlaceOf(c) ==
  /\ call[c] \in {"draining", "joining", "runtime", "waiting", "returned"} => closing
  /\ call[c] \in {"joining", "runtime", "waiting"} => endClosed /\ actorTask = "taken"
  /\ call[c] = "waiting" => runtime # "open"
  /\ call[c] = "shut" => loop = "ended"

\* Places of a call that closes the endpoint or gave up on it.
Responsible == CloseAwaits \cup {"runtime", "dropped"}

\* While an endpoint is closing and not closed, somebody is about to close it or was dropped.
SomebodyCloses == closing => closed \/ \E d \in Closer : call[d] \in Responsible

\* The router's loop by its places.
LoopInv ==
  /\ loop \in {"closing", "ended"} => down = Protocol
  /\ loop = "ended" => call[RouterLoop] = "returned" /\ \A i \in Incoming : handler[i] \in {"none", "joined"}

CloseInv == CloseTypeOK /\ ClosedIsFinal /\ (\A c \in Closer : PlaceOf(c)) /\ SomebodyCloses /\ LoopInv

-----------------------------------------------------------------------------
LEMMA CloseInitially == CloseInit => CloseInv
<1> SUFFICES ASSUME CloseInit PROVE CloseInv OBVIOUS
<1>1. CloseTypeOK BY DEF CloseInit, CloseTypeOK
<1>2. ClosedIsFinal /\ SomebodyCloses /\ LoopInv BY DEF CloseInit, ClosedIsFinal, SomebodyCloses, LoopInv
<1>3. \A c \in Closer : PlaceOf(c) BY DEF CloseInit, PlaceOf
<1> QED BY <1>1, <1>2, <1>3 DEF CloseInv

\* Each action keeps the types.
LEMMA CloseTypeStep == CloseTypeOK /\ [CloseNext]_closeVars => CloseTypeOK'
<1> SUFFICES ASSUME CloseTypeOK, [CloseNext]_closeVars PROVE CloseTypeOK' OBVIOUS
<1> USE DEF CloseTypeOK, socketParts, routerParts, Place
<1>1. ASSUME NEW c \in Closer, Close(c) PROVE CloseTypeOK'
  <2>1. CASE CloseCheck(c) \/ CloseStart(c) BY <2>1 DEF CloseCheck, CloseStart
  <2>2. CASE Drained(c) \/ ActorJoined(c) BY <2>2 DEF Drained, ActorJoined
  <2>3. CASE RuntimeShutdown(c) \/ CloseReturns(c) BY <2>3 DEF RuntimeShutdown, CloseReturns
  <2> QED BY <1>1, <2>1, <2>2, <2>3 DEF Close
<1>2. ASSUME NEW c \in Caller, CloseDropped(c) PROVE CloseTypeOK' BY <1>2 DEF CloseDropped, DropClose, Closer
<1>3. ASSUME NEW c \in Caller,
             ShutdownCheck(c) \/ RouterCancel(c) \/ RouterReturns(c) \/ ShutdownFails(c)
      PROVE  CloseTypeOK'
  BY <1>3 DEF ShutdownCheck, RouterCancel, RouterReturns, ShutdownFails, Closer
<1>4. ASSUME NEW c \in Caller, ShutdownDropped(c) PROVE CloseTypeOK' BY <1>4 DEF ShutdownDropped, AbortLoop, LoopGone
<1>5. CASE RouterDropped BY <1>5 DEF RouterDropped, AbortLoop, LoopGone, Closer
<1>6. CASE EndpointDropped BY <1>6 DEF EndpointDropped, LoopGone
<1>7. CASE SocketStops \/ RuntimeGone BY <1>7 DEF SocketStops, RuntimeGone
<1>8. CASE LoopBreaks \/ CancelHandlers \/ LoopEnds BY <1>8 DEF LoopBreaks, CancelHandlers, LoopEnds
<1>9. ASSUME NEW i \in Incoming, Accept(i) \/ HandlerEnds(i) \/ JoinNext(i) PROVE CloseTypeOK'
  BY <1>9 DEF Accept, HandlerEnds, JoinNext
<1>10. ASSUME NEW p \in Protocol, ProtocolDown(p) \/ ProtocolPanics(p) PROVE CloseTypeOK'
  BY <1>10 DEF ProtocolDown, ProtocolPanics
<1>11. CASE UNCHANGED closeVars BY <1>11 DEF closeVars
<1> QED BY <1>1, <1>2, <1>3, <1>4, <1>5, <1>6, <1>7, <1>8, <1>9, <1>10, <1>11 DEF CloseNext

\* Each action keeps what close has done, call by call.
LEMMA PlaceStep ==
  ASSUME NEW e \in Closer, CloseInv, CloseTypeOK', [CloseNext]_closeVars
  PROVE  ClosedIsFinal' /\ PlaceOf(e)'
<1> DEFINE Goal == ClosedIsFinal' /\ PlaceOf(e)'
<1> USE DEF CloseInv, CloseTypeOK, ClosedIsFinal, PlaceOf, LoopInv, socketParts, routerParts, Place
<1>1. ASSUME NEW c \in Closer, Close(c) PROVE Goal
  <2>1. CASE CloseCheck(c) \/ CloseStart(c) BY <2>1 DEF CloseCheck, CloseStart
  <2>2. CASE Drained(c) \/ ActorJoined(c) BY <2>2 DEF Drained, ActorJoined
  <2>3. CASE RuntimeShutdown(c) \/ CloseReturns(c) BY <2>3 DEF RuntimeShutdown, CloseReturns
  <2> QED BY <1>1, <2>1, <2>2, <2>3 DEF Close
<1>2. ASSUME NEW c \in Caller, CloseDropped(c) PROVE Goal BY <1>2 DEF CloseDropped, DropClose, Closer
<1>3. ASSUME NEW c \in Caller,
             ShutdownCheck(c) \/ RouterCancel(c) \/ RouterReturns(c) \/ ShutdownFails(c)
      PROVE  Goal
  BY <1>3 DEF ShutdownCheck, RouterCancel, RouterReturns, ShutdownFails, Closer
<1>4. ASSUME NEW c \in Caller, ShutdownDropped(c) PROVE Goal BY <1>4 DEF ShutdownDropped, AbortLoop, LoopGone
<1>5. CASE RouterDropped BY <1>5 DEF RouterDropped, AbortLoop, LoopGone, Closer
<1>6. CASE EndpointDropped BY <1>6 DEF EndpointDropped, LoopGone
<1>7. CASE SocketStops \/ RuntimeGone BY <1>7 DEF SocketStops, RuntimeGone
<1>8. CASE LoopBreaks \/ CancelHandlers \/ LoopEnds BY <1>8 DEF LoopBreaks, CancelHandlers, LoopEnds
<1>9. ASSUME NEW i \in Incoming, Accept(i) \/ HandlerEnds(i) \/ JoinNext(i) PROVE Goal
  BY <1>9 DEF Accept, HandlerEnds, JoinNext
<1>10. ASSUME NEW p \in Protocol, ProtocolDown(p) \/ ProtocolPanics(p) PROVE Goal
  BY <1>10 DEF ProtocolDown, ProtocolPanics
<1>11. CASE UNCHANGED closeVars BY <1>11 DEF closeVars
<1> QED BY <1>1, <1>2, <1>3, <1>4, <1>5, <1>6, <1>7, <1>8, <1>9, <1>10, <1>11 DEF CloseNext

\* Whoever closes goes on to close, closes, or is dropped.
LEMMA ResponsibleStep ==
  ASSUME CloseInv, CloseTypeOK', [CloseNext]_closeVars
  PROVE  SomebodyCloses'
<1> USE DEF CloseInv, CloseTypeOK, SomebodyCloses, Responsible, CloseAwaits, socketParts, routerParts, Place
<1>1. ASSUME NEW c \in Closer, Close(c) PROVE SomebodyCloses'
  <2>1. CASE CloseCheck(c) BY <2>1 DEF CloseCheck
  <2>2. CASE CloseStart(c) BY <2>2 DEF CloseStart
  <2>3. CASE Drained(c) BY <2>3 DEF Drained
  <2>4. CASE ActorJoined(c) BY <2>4 DEF ActorJoined
  <2>5. CASE RuntimeShutdown(c) BY <2>5 DEF RuntimeShutdown
  <2>6. CASE CloseReturns(c) BY <2>6 DEF CloseReturns
  <2> QED BY <1>1, <2>1, <2>2, <2>3, <2>4, <2>5, <2>6 DEF Close
<1>2. ASSUME NEW c \in Caller, CloseDropped(c) PROVE SomebodyCloses' BY <1>2 DEF CloseDropped, DropClose, Closer
<1>3. ASSUME NEW c \in Caller,
             ShutdownCheck(c) \/ RouterCancel(c) \/ RouterReturns(c) \/ ShutdownFails(c)
      PROVE  SomebodyCloses'
  BY <1>3 DEF ShutdownCheck, RouterCancel, RouterReturns, ShutdownFails, Closer
<1>4. ASSUME NEW c \in Caller, ShutdownDropped(c) PROVE SomebodyCloses'
  BY <1>4 DEF ShutdownDropped, AbortLoop, LoopGone, Closer
<1>5. CASE RouterDropped BY <1>5 DEF RouterDropped, AbortLoop, LoopGone, Closer
<1>6. CASE EndpointDropped BY <1>6 DEF EndpointDropped, LoopGone
<1>7. CASE SocketStops \/ RuntimeGone BY <1>7 DEF SocketStops, RuntimeGone
<1>8. CASE LoopBreaks \/ CancelHandlers \/ LoopEnds BY <1>8 DEF LoopBreaks, CancelHandlers, LoopEnds
<1>9. ASSUME NEW i \in Incoming, Accept(i) \/ HandlerEnds(i) \/ JoinNext(i) PROVE SomebodyCloses'
  BY <1>9 DEF Accept, HandlerEnds, JoinNext
<1>10. ASSUME NEW p \in Protocol, ProtocolDown(p) \/ ProtocolPanics(p) PROVE SomebodyCloses'
  BY <1>10 DEF ProtocolDown, ProtocolPanics
<1>11. CASE UNCHANGED closeVars BY <1>11 DEF closeVars
<1> QED BY <1>1, <1>2, <1>3, <1>4, <1>5, <1>6, <1>7, <1>8, <1>9, <1>10, <1>11 DEF CloseNext

\* Each action keeps what the loop has done.
LEMMA LoopStep ==
  ASSUME CloseInv, CloseTypeOK', [CloseNext]_closeVars
  PROVE  LoopInv'
<1> USE CloseAssumption DEF CloseInv, CloseTypeOK, LoopInv, socketParts, routerParts, Place
<1>1. ASSUME NEW c \in Closer, Close(c) PROVE LoopInv'
  <2>1. CASE CloseCheck(c) \/ CloseStart(c) BY <2>1 DEF CloseCheck, CloseStart, Closer
  <2>2. CASE Drained(c) \/ ActorJoined(c) BY <2>2 DEF Drained, ActorJoined, Closer
  <2>3. CASE RuntimeShutdown(c) \/ CloseReturns(c) BY <2>3 DEF RuntimeShutdown, CloseReturns, Closer
  <2> QED BY <1>1, <2>1, <2>2, <2>3 DEF Close
<1>2. ASSUME NEW c \in Caller, CloseDropped(c) PROVE LoopInv' BY <1>2 DEF CloseDropped, DropClose, Closer
<1>3. ASSUME NEW c \in Caller,
             ShutdownCheck(c) \/ RouterCancel(c) \/ RouterReturns(c) \/ ShutdownFails(c)
      PROVE  LoopInv'
  BY <1>3 DEF ShutdownCheck, RouterCancel, RouterReturns, ShutdownFails, Closer
<1>4. ASSUME NEW c \in Caller, ShutdownDropped(c) PROVE LoopInv'
  BY <1>4 DEF ShutdownDropped, AbortLoop, LoopGone, Closer, CloseAwaits
<1>5. CASE RouterDropped BY <1>5 DEF RouterDropped, AbortLoop, LoopGone, Closer, CloseAwaits
<1>6. CASE EndpointDropped BY <1>6 DEF EndpointDropped, LoopGone, Closer
<1>7. CASE SocketStops \/ RuntimeGone BY <1>7 DEF SocketStops, RuntimeGone
<1>8. CASE LoopBreaks \/ CancelHandlers \/ LoopEnds BY <1>8 DEF LoopBreaks, CancelHandlers, LoopEnds
<1>9. ASSUME NEW i \in Incoming, Accept(i) \/ HandlerEnds(i) \/ JoinNext(i) PROVE LoopInv'
  BY <1>9 DEF Accept, HandlerEnds, JoinNext
<1>10. ASSUME NEW p \in Protocol, ProtocolDown(p) \/ ProtocolPanics(p) PROVE LoopInv'
  BY <1>10 DEF ProtocolDown, ProtocolPanics
<1>11. CASE UNCHANGED closeVars BY <1>11 DEF closeVars
<1> QED BY <1>1, <1>2, <1>3, <1>4, <1>5, <1>6, <1>7, <1>8, <1>9, <1>10, <1>11 DEF CloseNext

LEMMA CloseInvariant == CloseSpec => []CloseInv
<1>1. CloseInv /\ [CloseNext]_closeVars => CloseInv'
  <2> SUFFICES ASSUME CloseInv, [CloseNext]_closeVars PROVE CloseInv' OBVIOUS
  <2>1. CloseTypeOK' BY CloseTypeStep DEF CloseInv
  <2>2. \A e \in Closer : ClosedIsFinal' /\ PlaceOf(e)' BY <2>1, PlaceStep
  <2>3. SomebodyCloses' BY <2>1, ResponsibleStep
  <2>4. LoopInv' BY <2>1, LoopStep
  <2> QED BY <2>1, <2>2, <2>3, <2>4 DEF CloseInv, Closer
<1> QED BY <1>1, CloseInitially, PTL DEF CloseSpec

-----------------------------------------------------------------------------
(***************************************************************************)
(* Every variable of a router and its endpoint keeps its type.             *)
(***************************************************************************)
THEOREM CloseTypeCorrect == CloseSpec => []CloseTypeOK
<1>1. CloseInv => CloseTypeOK BY DEF CloseInv
<1> QED BY <1>1, CloseInvariant, PTL

(***************************************************************************)
(* EndpointInner::close and abort in any interleaving, with futures        *)
(* dropped in the middle: closed is set only when both tokens are          *)
(* cancelled, the actor's handle is gone and the runtime is cancelled.     *)
(***************************************************************************)
THEOREM ClosedIsFinalHolds == CloseSpec => []ClosedIsFinal
<1>1. CloseInv => ClosedIsFinal BY DEF CloseInv
<1> QED BY <1>1, CloseInvariant, PTL

(***************************************************************************)
(* Router::shutdown: when the call that waited for the loop returns, the   *)
(* protocols are shut down, no accept future is left, and the endpoint is  *)
(* closed or another call is closing it or was dropped.                    *)
(***************************************************************************)
THEOREM ShutdownIsCompleteHolds == CloseSpec => []ShutdownIsComplete
<1>1. CloseInv => ShutdownIsComplete
  <2> SUFFICES ASSUME CloseInv, NEW c \in Caller, call[c] = "shut"
               PROVE  /\ down = Protocol /\ closing
                      /\ \A i \in Incoming : handler[i] \in {"none", "joined"}
                      /\ closed \/ \E d \in Caller : call[d] \in CloseAwaits \cup {"runtime", "dropped"}
    BY DEF ShutdownIsComplete
  <2>1. loop = "ended" BY DEF CloseInv, PlaceOf, Closer
  <2>2. down = Protocol /\ call[RouterLoop] = "returned" /\ \A i \in Incoming : handler[i] \in {"none", "joined"}
    BY <2>1 DEF CloseInv, LoopInv
  <2>3. closing BY <2>2 DEF CloseInv, PlaceOf, Closer
  <2>4. closed \/ \E d \in Caller : call[d] \in CloseAwaits \cup {"runtime", "dropped"}
    BY <2>2, <2>3 DEF CloseInv, SomebodyCloses, Responsible, CloseAwaits, Closer
  <2> QED BY <2>2, <2>3, <2>4
<1> QED BY <1>1, CloseInvariant, PTL

=============================================================================
