----------------------------- MODULE RelayServer -----------------------------
(***************************************************************************)
(* The relay server around its registry of clients: relay_supervisor and   *)
(* Server::shutdown (server.rs), the HTTP server's loop, its connection    *)
(* tasks and the task that an upgrade detaches (http_server.rs), the QUIC  *)
(* address discovery server (quic.rs), and both sides of the handshake     *)
(* (protos/handshake.rs).                                                  *)
(*                                                                         *)
(* The registry and the clients' actors are those of RelayClients, reduced *)
(* to who is registered and whose actor runs.                              *)
(***************************************************************************)
EXTENDS Naturals

CONSTANT Link  \* connections to the HTTP server

VARIABLES
  server,     \* the application's Server: "held", "metrics" and "stopping" in shutdown, "returned" or "dropped"
  supervisor, \* relay_supervisor
  sideTask,   \* the tasks of the JoinSet: captive portal service and ACME
  quicTask, quicToken,
  httpTask, httpToken,
  conn,       \* the task of each connection in the HTTP server's JoinSet
  upgrade,    \* the detached task of each connection
  toClient, toServer, \* the handshake frame on its way, or "none"
  client,     \* the client side of each connection
  proof,      \* what the client can prove: its header's key material, its signature
  guard,      \* OnDisconnectGuard of each connection
  relayed,    \* the client actor of each connection
  registry,   \* connections in Clients
  draining,   \* connections that Clients::shutdown awaits
  afterCollect        \* history: connections registered after Clients::shutdown had collected

serverTasks == <<server, supervisor, sideTask, quicTask, quicToken, httpTask, httpToken>>
handshake == <<upgrade, toClient, toServer, client, proof, guard>>
clientsParts == <<relayed, registry, draining, afterCollect>>
relayServerVars == <<serverTasks, conn, handshake, clientsParts>>

\* header: "invalid", of the "same" key material on both ends, or of "other" or missing; signed: with the right key.
Proof == [header : {"invalid", "same", "other"}, signed : BOOLEAN]
NoProof == [header |-> "other", signed |-> FALSE]

\* Server::spawn.
RelayServerInit ==
  /\ server = "held" /\ supervisor = "select" /\ sideTask = "running"
  /\ quicTask = "accepting" /\ quicToken = FALSE /\ httpTask = "accepting" /\ httpToken = FALSE
  /\ conn = [c \in Link |-> "none"] /\ upgrade = [c \in Link |-> "none"]
  /\ toClient = [c \in Link |-> "none"] /\ toServer = [c \in Link |-> "none"]
  /\ client = [c \in Link |-> "idle"] /\ proof = [c \in Link |-> NoProof]
  /\ guard = [c \in Link |-> "none"] /\ relayed = [c \in Link |-> "none"]
  /\ registry = {} /\ draining = {} /\ afterCollect = {}

Set(f, c, value) == [f EXCEPT ![c] = value]

\* Drop for OnDisconnectGuard: access control is told of the end.
DropGuard(c) == guard' = IF guard[c] = "held" THEN Set(guard, c, "dropped") ELSE guard

(***************************************************************************)
(* Connections.                                                            *)
(***************************************************************************)
\* The loop accepts, unless it is cancelled.
AcceptConnection(c) ==
  /\ httpTask = "accepting" /\ ~httpToken /\ client[c] = "idle"
  /\ conn' = Set(conn, c, "establishing") /\ client' = Set(client, c, "await")
  /\ \E p \in Proof : proof' = Set(proof, c, p)
  /\ UNCHANGED <<serverTasks, upgrade, toClient, toServer, guard, clientsParts>>

\* handle_connection ends without an upgrade: establish_timeout, an error of TLS or HTTP, an ACME
\* validation, or other requests only.  They differ in what is logged and counted.
NotEstablished(c) ==
  /\ conn[c] = "establishing"
  /\ conn' = Set(conn, c, "ended") /\ client' = Set(client, c, "gone")
  /\ UNCHANGED <<serverTasks, upgrade, toClient, toServer, proof, guard, clientsParts>>

\* handle_relay_ws_upgrade: the detached task has the stream, and the connection's own task ends.
Upgraded(c) ==
  /\ conn[c] = "establishing"
  /\ conn' = Set(conn, c, "ended") /\ upgrade' = Set(upgrade, c, "header")
  /\ UNCHANGED <<serverTasks, toClient, toServer, client, proof, guard, clientsParts>>

\* serverside: the header's proof, or a challenge.
CheckHeader(c) ==
  /\ upgrade[c] = "header"
  /\ \/ proof[c].header = "invalid" /\ upgrade' = Set(upgrade, c, "failed") /\ UNCHANGED toClient
     \/ proof[c].header = "same" /\ proof[c].signed /\ upgrade' = Set(upgrade, c, "authorize") /\ UNCHANGED toClient
     \/ /\ proof[c].header = "other" \/ (proof[c].header = "same" /\ ~proof[c].signed)
        /\ upgrade' = Set(upgrade, c, "challenge") /\ toClient' = Set(toClient, c, "challenge")
  /\ UNCHANGED <<serverTasks, conn, toServer, client, proof, guard, clientsParts>>

\* serverside: the client's answer to the challenge.
CheckAnswer(c) ==
  /\ upgrade[c] = "challenge" /\ toServer[c] = "answer"
  /\ toServer' = Set(toServer, c, "none")
  /\ IF proof[c].signed THEN upgrade' = Set(upgrade, c, "authorize") /\ UNCHANGED toClient
     ELSE upgrade' = Set(upgrade, c, "failed") /\ toClient' = Set(toClient, c, "denies")
  /\ UNCHANGED <<serverTasks, conn, client, proof, guard, clientsParts>>

\* authorize_with: AccessControl::on_connect decides.
Admit(c) ==
  /\ upgrade[c] = "authorize"
  /\ upgrade' = Set(upgrade, c, "confirm") /\ guard' = Set(guard, c, "held")
  /\ UNCHANGED <<serverTasks, conn, toClient, toServer, client, proof, clientsParts>>

Deny(c) ==
  /\ upgrade[c] = "authorize"
  /\ upgrade' = Set(upgrade, c, "failed") /\ toClient' = Set(toClient, c, "denies")
  /\ UNCHANGED <<serverTasks, conn, toServer, client, proof, guard, clientsParts>>

\* Mutant for GuardIsHeld: the guard is gone once the client is told.
ConfirmForgetsGuard(c) ==
  /\ upgrade[c] = "confirm"
  /\ upgrade' = Set(upgrade, c, "register") /\ toClient' = Set(toClient, c, "confirms")
  /\ guard' = Set(guard, c, "dropped")
  /\ UNCHANGED <<serverTasks, conn, toServer, client, proof, clientsParts>>

\* SuccessfulAuthentication::accept.
Confirm(c) ==
  /\ upgrade[c] = "confirm"
  /\ upgrade' = Set(upgrade, c, "register") /\ toClient' = Set(toClient, c, "confirms")
  /\ UNCHANGED <<serverTasks, conn, toServer, client, proof, guard, clientsParts>>

\* The upgraded stream is refused, or a read or a write of the handshake fails.
HandshakeFails(c) ==
  /\ upgrade[c] \in {"header", "challenge", "confirm"}
  /\ upgrade' = Set(upgrade, c, "failed")
  /\ DropGuard(c)
  /\ UNCHANGED <<serverTasks, conn, toClient, toServer, client, proof, clientsParts>>

\* Clients::register.
Register(c) ==
  /\ upgrade[c] = "register"
  /\ upgrade' = Set(upgrade, c, "done")
  /\ relayed' = Set(relayed, c, "running") /\ registry' = registry \cup {c}
  /\ afterCollect' = IF httpTask = "accepting" THEN afterCollect ELSE afterCollect \cup {c}
  /\ UNCHANGED <<serverTasks, conn, toClient, toServer, client, proof, guard, draining>>

\* clientside: the next frame.
ClientReads(c) ==
  /\ client[c] \in {"await", "answered"} /\ toClient[c] # "none"
  /\ toClient' = Set(toClient, c, "none")
  /\ IF toClient[c] = "challenge"
       THEN toServer' = Set(toServer, c, "answer") /\ client' = Set(client, c, "answered")
       ELSE UNCHANGED toServer /\ client' = Set(client, c, IF toClient[c] = "confirms" THEN "confirmed" ELSE "denied")
  /\ UNCHANGED <<serverTasks, conn, upgrade, proof, guard, clientsParts>>

ClientLeaves(c) ==
  /\ client[c] \in {"await", "answered", "confirmed", "denied"}
  /\ client' = Set(client, c, "gone")
  /\ UNCHANGED <<serverTasks, conn, upgrade, toClient, toServer, proof, guard, clientsParts>>

\* The actor of a client must end: the client is gone, it is shut down, or its handle was dropped.
Ending(c) == relayed[c] = "aborted" \/ client[c] = "gone" \/ c \in draining

\* It ends, then or after an error or a missing pong.
RelayedEnds(c) ==
  /\ relayed[c] \in {"running", "aborted"}
  /\ relayed' = Set(relayed, c, "exited") /\ DropGuard(c)
  /\ registry' = registry \ {c}
  /\ UNCHANGED <<serverTasks, conn, upgrade, toClient, toServer, client, proof, draining, afterCollect>>

(***************************************************************************)
(* The HTTP and the QUIC server.                                           *)
(***************************************************************************)
\* Mutant for GracefulStops: the clients are not shut down.
HttpBreaksOnly ==
  /\ httpTask = "accepting" /\ httpToken
  /\ httpTask' = "clients"
  /\ UNCHANGED <<server, supervisor, sideTask, quicTask, quicToken, httpToken, conn, handshake, clientsParts>>

\* The loop ends and Clients::shutdown collects the clients.
HttpBreaks ==
  /\ httpTask = "accepting" /\ httpToken
  /\ httpTask' = "clients"
  /\ draining' = registry /\ registry' = {}
  /\ UNCHANGED <<server, supervisor, sideTask, quicTask, quicToken, httpToken, conn, handshake, relayed, afterCollect>>

\* All of them have ended; the connection tasks are aborted and joined.
HttpEnds ==
  /\ httpTask = "clients" /\ \A c \in draining : relayed[c] = "exited"
  /\ httpTask' = "ended" /\ draining' = {}
  /\ conn' = [c \in Link |-> IF conn[c] = "none" THEN "none" ELSE "ended"]
  /\ client' = [c \in Link |-> IF conn[c] = "establishing" THEN "gone" ELSE client[c]]
  /\ UNCHANGED <<server, supervisor, sideTask, quicTask, quicToken, httpToken, upgrade, toClient, toServer, proof,
                 guard, relayed, registry, afterCollect>>

\* The task of a server is over, by itself.
Over(task) == task \in {"ended", "panicked"}

\* The HTTP task's future is dropped where it is: its connection tasks go, and the clients that it was
\* awaiting.  place: "aborted" or "panicked".
DropHttp(place) ==
  /\ httpTask' = IF Over(httpTask) THEN httpTask ELSE place
  /\ conn' = [c \in Link |-> IF conn[c] = "none" THEN "none" ELSE "ended"]
  /\ client' = [c \in Link |-> IF conn[c] = "establishing" THEN "gone" ELSE client[c]]
  /\ relayed' = [c \in Link |-> IF c \in draining /\ relayed[c] = "running" THEN "aborted" ELSE relayed[c]]
  /\ draining' = {}
  /\ UNCHANGED <<upgrade, toClient, toServer, proof, guard, registry, afterCollect>>

AbortHttp == DropHttp("aborted")

\* The loop joins a connection task that panicked, and panics.
HttpPanics ==
  /\ httpTask = "accepting" /\ ~httpToken
  /\ DropHttp("panicked")
  /\ UNCHANGED <<server, supervisor, sideTask, quicTask, quicToken, httpToken>>

QuicCloses ==
  /\ quicTask = "accepting" /\ quicToken
  /\ quicTask' = "closing"
  /\ UNCHANGED <<server, supervisor, sideTask, quicToken, httpTask, httpToken, conn, handshake, clientsParts>>

\* wait_idle and the connection tasks; or the endpoint failed, or the task panics.
QuicEnds ==
  /\ quicTask \in {"accepting", "closing"}
  /\ quicTask' \in {"ended", "panicked"}
  /\ UNCHANGED <<server, supervisor, sideTask, quicToken, httpTask, httpToken, conn, handshake, clientsParts>>

\* A task of the JoinSet ends or panics.
SideTaskEnds ==
  /\ sideTask = "running"
  /\ sideTask' \in {"ended", "panicked"}
  /\ UNCHANGED <<server, supervisor, quicTask, quicToken, httpTask, httpToken, conn, handshake, clientsParts>>

(***************************************************************************)
(* relay_supervisor and Server.                                            *)
(***************************************************************************)
\* How the first task in the biased select is over.
FirstOver == IF Over(sideTask) THEN sideTask ELSE IF Over(quicTask) THEN quicTask ELSE httpTask

\* A task has returned: the HTTP server is cancelled and dropped, the QUIC server cancelled.
SupervisorWakes ==
  /\ supervisor = "select" /\ FirstOver = "ended"
  /\ supervisor' = "quic" /\ httpToken' = TRUE /\ quicToken' = TRUE
  /\ AbortHttp
  /\ UNCHANGED <<server, sideTask, quicTask>>

\* A task has panicked: the panic is resumed, and all that the supervisor holds is dropped.
SupervisorPanics ==
  /\ supervisor = "select" /\ FirstOver = "panicked"
  /\ supervisor' = "ended" /\ sideTask' = "ended" /\ quicTask' = "ended"
  /\ AbortHttp
  /\ UNCHANGED <<server, quicToken, httpToken>>

SupervisorEnds ==
  /\ supervisor = "quic" /\ Over(quicTask)
  /\ supervisor' = "ended" /\ sideTask' = "ended"
  /\ UNCHANGED <<server, quicTask, quicToken, httpTask, httpToken, conn, handshake, clientsParts>>

\* Mutant for ServerStops: the supervisor is waited for, but no server is told to stop.
ServerShutdownWaits ==
  /\ server = "held"
  /\ server' = "metrics"
  /\ UNCHANGED <<supervisor, sideTask, quicTask, quicToken, httpTask, httpToken, conn, handshake, clientsParts>>

\* Server::shutdown up to its first await: the handles' tokens are cancelled.
ServerShutdown ==
  /\ server = "held"
  /\ server' = "metrics" /\ httpToken' = TRUE /\ quicToken' = TRUE
  /\ UNCHANGED <<supervisor, sideTask, quicTask, httpTask, conn, handshake, clientsParts>>

\* The metrics server, if there is one, has shut down.
MetricsStopped ==
  /\ server = "metrics"
  /\ server' = "stopping"
  /\ UNCHANGED <<supervisor, sideTask, quicTask, quicToken, httpTask, httpToken, conn, handshake, clientsParts>>

ServerShutdownReturns ==
  /\ server = "stopping" /\ supervisor = "ended"
  /\ server' = "returned"
  /\ UNCHANGED <<supervisor, sideTask, quicTask, quicToken, httpTask, httpToken, conn, handshake, clientsParts>>

\* The Server is dropped, or the future of its shutdown: everything it owns is aborted.
ServerDropped ==
  /\ server \in {"held", "metrics", "stopping"}
  /\ server' = "dropped" /\ supervisor' = "ended" /\ sideTask' = "ended" /\ quicTask' = "ended"
  /\ AbortHttp
  /\ UNCHANGED <<quicToken, httpToken>>

HandshakeStep(c) ==
  \/ CheckHeader(c) \/ CheckAnswer(c) \/ Admit(c) \/ Deny(c) \/ Confirm(c)
  \/ HandshakeFails(c) \/ Register(c)

ServerTaskStep ==
  \/ HttpBreaks \/ HttpEnds \/ QuicCloses \/ SupervisorWakes \/ SupervisorPanics \/ SupervisorEnds
  \/ MetricsStopped \/ ServerShutdownReturns

RelayServerNext ==
  \/ ServerTaskStep \/ HttpPanics \/ QuicEnds \/ SideTaskEnds \/ ServerShutdown \/ ServerDropped
  \/ \E c \in Link : \/ AcceptConnection(c) \/ NotEstablished(c) \/ Upgraded(c) \/ HandshakeStep(c)
                     \/ ClientReads(c) \/ ClientLeaves(c) \/ RelayedEnds(c)

RelayServerSpec == RelayServerInit /\ [][RelayServerNext]_relayServerVars

\* The server's tasks run; clients may stall for ever.  What an actor flushes when it ends was written
\* under the write timeout, and the flush is taken to end.
RelayServerFairness ==
  /\ WF_relayServerVars(ServerTaskStep) /\ WF_relayServerVars(quicToken /\ QuicEnds)
  /\ \A c \in Link : WF_relayServerVars(Ending(c) /\ RelayedEnds(c))

RelayServerTypeOK ==
  /\ server \in {"held", "metrics", "stopping", "returned", "dropped"}
  /\ supervisor \in {"select", "quic", "ended"}
  /\ sideTask \in {"running", "ended", "panicked"} /\ quicTask \in {"accepting", "closing", "ended", "panicked"}
  /\ httpTask \in {"accepting", "clients", "ended", "aborted", "panicked"} /\ {quicToken, httpToken} \subseteq BOOLEAN
  /\ conn \in [Link -> {"none", "establishing", "ended"}]
  /\ upgrade \in [Link -> {"none", "header", "challenge", "authorize", "confirm", "register", "done", "failed"}]
  /\ toClient \in [Link -> {"none", "challenge", "confirms", "denies"}] /\ toServer \in [Link -> {"none", "answer"}]
  /\ client \in [Link -> {"idle", "await", "answered", "confirmed", "denied", "gone"}] /\ proof \in [Link -> Proof]
  /\ guard \in [Link -> {"none", "held", "dropped"}] /\ relayed \in [Link -> {"none", "running", "aborted", "exited"}]
  /\ registry \subseteq Link /\ draining \subseteq Link /\ afterCollect \subseteq Link

(***************************************************************************)
(* Access control is told of the end of every connection it admitted,      *)
(* once, and not before: an OnDisconnectGuard is held exactly while the    *)
(* handshake is completed or the client's actor runs; and a client that    *)
(* was confirmed had proved its key.                                       *)
(***************************************************************************)
GuardIsHeld ==
  \A c \in Link :
    /\ guard[c] = "held" <=> (upgrade[c] \in {"confirm", "register"} \/ relayed[c] \in {"running", "aborted"})
    /\ client[c] = "confirmed" => guard[c] # "none" /\ proof[c].signed

(***************************************************************************)
(* When Server::shutdown returns after the HTTP server has ended by        *)
(* itself, no client's actor runs except one whose handshake was still     *)
(* going on when Clients::shutdown collected the clients.                  *)
(***************************************************************************)
GracefulStops ==
  (server = "returned" /\ httpTask = "ended") => \A c \in Link \ afterCollect : relayed[c] # "running"

(***************************************************************************)
(* Server::shutdown returns unless its future is dropped, whatever the     *)
(* clients do and whichever task fails first.                              *)
(***************************************************************************)
ServerStops == (server = "metrics") ~> (server \in {"returned", "dropped"})

=============================================================================
