---------------------------- MODULE EndpointClose ----------------------------
(***************************************************************************)
(* The end of an endpoint: the accept loop of a Router and its shutdown    *)
(* (protocol.rs), EndpointInner::close, abort and drop (socket.rs), and    *)
(* the Runtime that holds the QUIC drivers (runtime.rs).                   *)
(*                                                                         *)
(* Any call may run next to any other, and its future may be dropped where *)
(* it waits.  The router's loop calls close like an application.           *)
(***************************************************************************)
EXTENDS Naturals, FiniteSets

CONSTANTS
  Caller,   \* calls of Router::shutdown or Endpoint::close by applications
  Incoming, \* incoming connections
  Protocol, \* registered protocol handlers
  RouterLoop \* the accept loop, as a caller of close

ASSUME CloseAssumption == RouterLoop \notin Caller

VARIABLES
  call,       \* what each caller is doing
  closing,    \* ShutdownState::at_close_start
  endClosed,  \* ShutdownState::at_endpoint_closed
  closed,     \* ShutdownState::closed
  actorTask,  \* EndpointInner::actor_task: "held", or "taken"
  socketActor, \* the socket's actor: "running", "aborted" or "stopped"
  runtime,    \* Runtime: "open", "cancelled", or "gone" with all its tasks
  loop,       \* what the router's loop is doing
  routerToken, \* Router::cancel_token
  loopTask,   \* Router::task: "held", or "taken"
  handler,    \* the task of each incoming connection
  down        \* protocols whose shutdown has returned

socketParts == <<closing, endClosed, closed, actorTask, socketActor, runtime>>
routerParts == <<loop, routerToken, loopTask, handler, down>>
closeVars == <<call, socketParts, routerParts>>

Closer == Caller \cup {RouterLoop}

\* The loop's task is over: it returned, was aborted, or panicked.
LoopGone == {"ended", "aborted", "panicked"}

CloseInit ==
  /\ call = [c \in Closer |-> "idle"]
  /\ closing = FALSE /\ endClosed = FALSE /\ closed = FALSE
  /\ actorTask = "held" /\ socketActor = "running" /\ runtime = "open"
  /\ loop = "accepting" /\ routerToken = FALSE /\ loopTask = "held"
  /\ handler = [i \in Incoming |-> "none"] /\ down = {}

Place(c, place) == call' = [call EXCEPT ![c] = place]

(***************************************************************************)
(* EndpointInner::close.                                                   *)
(***************************************************************************)
\* The first check; the loop only calls close when it is there.
CloseCheck(c) ==
  /\ call[c] = "idle" /\ (c = RouterLoop => loop = "closing")
  /\ Place(c, IF closed \/ closing THEN "returned" ELSE "starting")
  /\ UNCHANGED <<socketParts, routerParts>>

\* at_close_start.cancel, the removal of the lookup services, and the close of all connections.
CloseStart(c) ==
  /\ call[c] = "starting"
  /\ closing' = TRUE
  /\ Place(c, "draining")
  /\ UNCHANGED <<endClosed, closed, actorTask, socketActor, runtime, routerParts>>

\* wait_all_draining returns; the actors are cancelled and the actor's handle taken.
Drained(c) ==
  /\ call[c] = "draining"
  /\ endClosed' = TRUE /\ actorTask' = "taken"
  /\ Place(c, IF actorTask = "held" THEN "joining" ELSE "runtime")
  /\ UNCHANGED <<closing, closed, socketActor, runtime, routerParts>>

\* The actor has ended, or is aborted when 100 ms are over.
ActorJoined(c) ==
  /\ call[c] = "joining"
  /\ socketActor' = IF socketActor = "running" THEN "aborted" ELSE socketActor
  /\ Place(c, "runtime")
  /\ UNCHANGED <<closing, endClosed, closed, actorTask, runtime, routerParts>>

\* Mutant for CloseFinishes: the runtime's tasks are waited for but not cancelled.
RuntimeAwaited(c) ==
  /\ call[c] = "runtime"
  /\ Place(c, "waiting")
  /\ UNCHANGED <<socketParts, routerParts>>

\* Runtime::shutdown: cancel, and wait for the tasks.
RuntimeShutdown(c) ==
  /\ call[c] = "runtime"
  /\ runtime' = IF runtime = "open" THEN "cancelled" ELSE runtime
  /\ Place(c, "waiting")
  /\ UNCHANGED <<closing, endClosed, closed, actorTask, socketActor, routerParts>>

CloseReturns(c) ==
  /\ call[c] = "waiting" /\ runtime = "gone"
  /\ closed' = TRUE
  /\ Place(c, "returned")
  /\ UNCHANGED <<closing, endClosed, actorTask, socketActor, runtime, routerParts>>

Close(c) ==
  \/ CloseCheck(c) \/ CloseStart(c) \/ Drained(c) \/ ActorJoined(c)
  \/ RuntimeShutdown(c) \/ CloseReturns(c)

\* Where a call of close waits.
CloseAwaits == {"draining", "joining", "waiting"}

\* The future of a close is dropped, and with it the handle of the actor that it waits for.
DropClose(c) ==
  /\ call[c] \in CloseAwaits
  /\ socketActor' = IF call[c] = "joining" /\ socketActor = "running" THEN "aborted" ELSE socketActor
  /\ Place(c, "dropped")

CloseDropped(c) ==
  /\ DropClose(c)
  /\ UNCHANGED <<closing, endClosed, closed, actorTask, runtime, routerParts>>

\* The last clone of the endpoint is dropped: abort, unless a close has begun.
EndpointDropped ==
  /\ loop \in LoopGone
  /\ \A c \in Closer : call[c] \in {"idle", "returned", "dropped", "shut", "failed", "early"}
  /\ ~closed
  /\ IF closing THEN UNCHANGED <<closing, endClosed, closed, runtime>>
     ELSE /\ closing' = TRUE /\ endClosed' = TRUE /\ closed' = TRUE
          /\ runtime' = IF runtime = "open" THEN "cancelled" ELSE runtime
  /\ actorTask' = "taken" /\ socketActor' = IF socketActor = "running" THEN "aborted" ELSE socketActor
  /\ call' = [c \in Closer |-> IF call[c] = "idle" THEN "gone" ELSE call[c]]
  /\ UNCHANGED routerParts

\* The actor's loop ends with its token, an aborted actor where it waits next.
SocketStops ==
  /\ socketActor = "aborted" \/ (socketActor = "running" /\ endClosed)
  /\ socketActor' = "stopped"
  /\ UNCHANGED <<call, closing, endClosed, closed, actorTask, runtime, routerParts>>

RuntimeGone ==
  /\ runtime = "cancelled"
  /\ runtime' = "gone"
  /\ UNCHANGED <<call, closing, endClosed, closed, actorTask, socketActor, routerParts>>

(***************************************************************************)
(* The router's loop.                                                      *)
(***************************************************************************)
Unjoined == {i \in Incoming : handler[i] \in {"done", "panicked"}}

\* The select is biased: cancellation, then tasks that ended, then new connections.
Accept(i) ==
  /\ loop = "accepting" /\ ~routerToken /\ Unjoined = {} /\ ~closing
  /\ handler[i] = "none"
  /\ handler' = [handler EXCEPT ![i] = "running"]
  /\ UNCHANGED <<call, socketParts, loop, routerToken, loopTask, down>>

\* handle_connection returns, or the handler panics.
HandlerEnds(i) ==
  /\ handler[i] = "running"
  /\ \E result \in {"done", "panicked"} : handler' = [handler EXCEPT ![i] = result]
  /\ UNCHANGED <<call, socketParts, loop, routerToken, loopTask, down>>

\* join_next: a panic ends the loop.
JoinNext(i) ==
  /\ loop = "accepting" /\ ~routerToken /\ i \in Unjoined
  /\ loop' = IF handler[i] = "panicked" THEN "handlers" ELSE loop
  /\ handler' = [handler EXCEPT ![i] = "joined"]
  /\ UNCHANGED <<call, socketParts, routerToken, loopTask, down>>

\* Cancelled, or the endpoint no longer accepts.
LoopBreaks ==
  /\ loop = "accepting" /\ (routerToken \/ (Unjoined = {} /\ closing))
  /\ loop' = "handlers"
  /\ UNCHANGED <<call, socketParts, routerToken, loopTask, handler, down>>

\* ProtocolMap::shutdown: all handlers at once.
ProtocolDown(p) ==
  /\ loop = "handlers" /\ p \notin down
  /\ down' = down \cup {p}
  /\ UNCHANGED <<call, socketParts, loop, routerToken, loopTask, handler>>

\* A handler's shutdown panics, and with it the loop's task: its guard cancels the token and its
\* tasks are aborted, but the endpoint is not closed.
ProtocolPanics(p) ==
  /\ loop = "handlers" /\ p \notin down
  /\ loop' = "panicked" /\ routerToken' = TRUE
  /\ handler' = [i \in Incoming |-> IF handler[i] = "none" THEN "none" ELSE "joined"]
  /\ UNCHANGED <<call, socketParts, loopTask, down>>

\* Mutant for ShutdownIsComplete: the handlers are not waited for.
CancelHandlersAtOnce ==
  /\ loop = "handlers"
  /\ loop' = "closing"
  /\ handler' = [i \in Incoming |-> IF handler[i] = "running" THEN "done" ELSE handler[i]]
  /\ UNCHANGED <<call, socketParts, routerToken, loopTask, down>>

\* All are down: the remaining accept futures are cancelled, then the endpoint is closed.
CancelHandlers ==
  /\ loop = "handlers" /\ down = Protocol
  /\ loop' = "closing"
  /\ handler' = [i \in Incoming |-> IF handler[i] = "running" THEN "done" ELSE handler[i]]
  /\ UNCHANGED <<call, socketParts, routerToken, loopTask, down>>

\* The close has returned: the tasks are joined and the loop's guard cancels the token.
LoopEnds ==
  /\ loop = "closing" /\ call[RouterLoop] = "returned"
  /\ loop' = "ended" /\ routerToken' = TRUE
  /\ handler' = [i \in Incoming |-> IF handler[i] = "none" THEN "none" ELSE "joined"]
  /\ UNCHANGED <<call, socketParts, loopTask, down>>

\* The loop's handle is dropped: where the loop waits next its future goes, and the close in it, its guard
\* and its tasks.  place: what becomes of the call c that held the handle.
AbortLoop(c, place) ==
  /\ call[RouterLoop] \notin {"starting", "runtime"}
  /\ loop' = IF loop \in LoopGone THEN loop ELSE "aborted"
  /\ routerToken' = TRUE
  /\ handler' = [i \in Incoming |-> IF handler[i] = "none" THEN "none" ELSE "joined"]
  /\ call' = [d \in Closer |-> IF d = c THEN place
                              ELSE IF d = RouterLoop /\ call[d] \in CloseAwaits THEN "dropped" ELSE call[d]]
  /\ socketActor' = IF call[RouterLoop] = "joining" /\ socketActor = "running" THEN "aborted" ELSE socketActor
  /\ UNCHANGED <<closing, endClosed, closed, actorTask, runtime, down>>

(***************************************************************************)
(* Router::shutdown.                                                       *)
(***************************************************************************)
ShutdownCheck(c) ==
  /\ c \in Caller /\ call[c] = "idle"
  /\ Place(c, IF routerToken THEN "early" ELSE "cancelling")
  /\ UNCHANGED <<socketParts, routerParts>>

\* The token is cancelled and the task taken.
RouterCancel(c) ==
  /\ call[c] = "cancelling"
  /\ routerToken' = TRUE /\ loopTask' = "taken"
  /\ Place(c, IF loopTask = "held" THEN "shutting" ELSE "early")
  /\ UNCHANGED <<socketParts, loop, handler, down>>

RouterReturns(c) ==
  /\ call[c] = "shutting" /\ loop = "ended"
  /\ Place(c, "shut")
  /\ UNCHANGED <<socketParts, routerParts>>

\* The loop's task panicked: the JoinError is the call's result.
ShutdownFails(c) ==
  /\ call[c] = "shutting" /\ loop = "panicked"
  /\ Place(c, "failed")
  /\ UNCHANGED <<socketParts, routerParts>>

\* The future is dropped, and with it the handle of the task.
ShutdownDropped(c) ==
  /\ call[c] = "shutting"
  /\ AbortLoop(c, "dropped")
  /\ UNCHANGED loopTask

\* The last clone of the router is dropped.
RouterDropped ==
  /\ loopTask = "held" /\ \A c \in Caller : call[c] # "cancelling"
  /\ loopTask' = "taken"
  /\ AbortLoop(RouterLoop, IF call[RouterLoop] \in {"idle", "returned"} THEN call[RouterLoop] ELSE "dropped")

CloseNext ==
  \/ EndpointDropped \/ SocketStops \/ RuntimeGone
  \/ LoopBreaks \/ CancelHandlers \/ LoopEnds \/ RouterDropped
  \/ \E c \in Closer : Close(c)
  \/ \E c \in Caller : CloseDropped(c) \/ ShutdownCheck(c) \/ RouterCancel(c)
                       \/ RouterReturns(c) \/ ShutdownFails(c) \/ ShutdownDropped(c)
  \/ \E i \in Incoming : Accept(i) \/ HandlerEnds(i) \/ JoinNext(i)
  \/ \E p \in Protocol : ProtocolDown(p) \/ ProtocolPanics(p)

CloseSpec == CloseInit /\ [][CloseNext]_closeVars

\* Calls that have begun go on, the loop runs, protocols shut down or panic, cancelled tasks end.
CloseFairness ==
  /\ WF_closeVars(SocketStops) /\ WF_closeVars(RuntimeGone)
  /\ WF_closeVars(LoopBreaks \/ CancelHandlers \/ LoopEnds \/ \E i \in Incoming : JoinNext(i))
  /\ \A c \in Closer : WF_closeVars((call[c] # "idle" \/ c = RouterLoop) /\ Close(c))
  /\ \A c \in Caller : WF_closeVars(RouterCancel(c) \/ RouterReturns(c) \/ ShutdownFails(c))
  /\ \A p \in Protocol : WF_closeVars(ProtocolDown(p) \/ ProtocolPanics(p))

CloseTypeOK ==
  /\ call \in [Closer -> {"idle", "starting", "draining", "joining", "runtime", "waiting", "returned",
                          "dropped", "cancelling", "shutting", "shut", "failed", "early", "gone"}]
  /\ {closing, endClosed, closed, routerToken} \subseteq BOOLEAN
  /\ actorTask \in {"held", "taken"} /\ socketActor \in {"running", "aborted", "stopped"}
  /\ runtime \in {"open", "cancelled", "gone"}
  /\ loop \in {"accepting", "handlers", "closing", "ended", "aborted", "panicked"} /\ loopTask \in {"held", "taken"}
  /\ handler \in [Incoming -> {"none", "running", "done", "panicked", "joined"}]
  /\ down \subseteq Protocol

(***************************************************************************)
(* What Router::shutdown promises to the call that waited for the loop:    *)
(* when it returns, all protocol handlers are shut down, no accept future  *)
(* is left, and the endpoint is closing; and it is closed, unless another  *)
(* call had begun to close it.                                             *)
(***************************************************************************)
ShutdownIsComplete ==
  \A c \in Caller : call[c] = "shut" =>
    /\ down = Protocol /\ closing
    /\ \A i \in Incoming : handler[i] \in {"none", "joined"}
    /\ closed \/ \E d \in Caller : call[d] \in CloseAwaits \cup {"runtime", "dropped"}

(***************************************************************************)
(* closed is set only when both tokens are cancelled and the actor has     *)
(* stopped or been told to, its handle gone (close and abort in any        *)
(* interleaving, with futures dropped in the middle).                      *)
(***************************************************************************)
ClosedIsFinal ==
  closed => closing /\ endClosed /\ actorTask = "taken" /\ runtime # "open"

(***************************************************************************)
(* A close that has begun comes to its end unless somebody dropped a       *)
(* future on the way, and so does a shutdown, though with an error when    *)
(* the loop panicked: nobody waits for anybody for ever.                   *)
(***************************************************************************)
Dropped == loop = "aborted" \/ \E c \in Closer : call[c] = "dropped"
CloseFinishes ==
  /\ closing ~> (closed \/ Dropped)
  /\ \A c \in Caller : (call[c] = "shutting") ~> (call[c] \in {"shut", "failed"} \/ Dropped)

=============================================================================
