----------------------------- MODULE RemoteMap ------------------------------
(***************************************************************************)
(* iroh/src/socket/remote_map.rs and the main loop of the RemoteStateActor *)
(* (remote_map/remote_state.rs): one actor per remote endpoint, started on *)
(* the first message to it, stopped when idle, and started again when a    *)
(* message reached its inbox while it was stopping.                        *)
(*                                                                         *)
(* Three kinds of tasks take part.  The socket actor owns the map: it      *)
(* starts actors, sends to them, and joins the tasks that ended.  Readers  *)
(* (the QUIC driver sending datagrams, callers of remote_info) look a      *)
(* sender up in the shared read-only map and use it later.  The actors     *)
(* themselves end when idle, whoever is about to send to them.             *)
(***************************************************************************)
EXTENDS Integers, Sequences, FiniteSets

CONSTANTS
  Endpoint,        \* remote endpoint ids
  Actor,           \* incarnations of RemoteStateActor, each used once
  Reader,          \* tasks holding a ReadOnlyMap of the senders
  None,            \* no sender in the map
  InboxCapacity,   \* mpsc::channel(16) in RemoteStateActor::start
  MultiThread,     \* TRUE: tasks run on several threads
  ShutdownAllowed, \* TRUE: the endpoint may be closed
  Kinds,           \* the kinds of messages sent in this instance
  MaxMessages      \* bound: messages sent in a behaviour

ASSUME NoneAssumption == None \notin Actor
ASSUME CapacityAssumption == InboxCapacity \in Nat \ {0}
ASSUME FlagAssumption == MultiThread \in BOOLEAN /\ ShutdownAllowed \in BOOLEAN
ASSUME BoundAssumption == MaxMessages \in Nat

VARIABLES
  senders,    \* RemoteMap::senders, shared with the readers
  st,         \* where the task of an actor is in RemoteStateActor::run
  owner,      \* the endpoint an actor was started for
  initial,    \* initial_msgs the actor has not handled yet
  inbox,      \* its channel; once terminated, the leftover messages it returned
  remote,     \* what decides whether it is idle, and the requests it owes an answer
  sock,       \* the socket actor's place in Actor::run and send_to_actor
  reader,     \* a reader's place between looking a sender up and sending
  cancelled,  \* the shutdown token (at_endpoint_closed)
  sent,       \* number of messages sent so far, which numbers them
  accepted,   \* history: messages a send to e returned Ok for, in channel order
  handled,    \* history: messages handled for e, in order
  answered    \* history: requests that got their reply

vars == <<senders, st, owner, initial, inbox, remote, sock, reader, cancelled,
          sent, accepted, handled, answered>>

(***************************************************************************)
(* Data.                                                                   *)
(***************************************************************************)
\* The messages the socket actor sends, and those of the readers.
SocketKind == {"ResolveEmpty", "ResolveAddrs", "AddConnection"}
ReaderKind == {"SendDatagram", "RemoteInfo"}

\* RemoteStateMessage; "ResolveEmpty" is a ResolveRemote that carries no address.
Message == [n : 0..MaxMessages, kind : SocketKind \cup ReaderKind \cup {"NetworkChange"}]

\* A task that is not sending; one that wants to send m to the channel of a, for e.
At(pc) == [pc |-> pc, to |-> None, for |-> None, msg |-> [n |-> 0, kind |-> "NetworkChange"]]
Sending(a, e, m) == [pc |-> "send", to |-> a, for |-> e, msg |-> m]
Moved(task, pc) == [pc |-> pc, to |-> task.to, for |-> task.for, msg |-> task.msg]

\* The next message of kind k.
Fresh(k) == [n |-> sent + 1, kind |-> k]

\* A new actor knows nothing of its remote (RemoteStateActor::new).
NewRemote == [conns |-> 0, pending |-> {}, known |-> FALSE, selected |-> FALSE, lookup |-> FALSE]

\* The task is in the JoinSet: running, or ended and not joined yet.
Live(a) == st[a] \in {"run", "breaking", "closed", "terminated"}

\* The channel of a takes messages: inbox.close() has not been called.
Open(a) == st[a] \in {"run", "breaking"}

\* Tasks between taking a channel slot of a and writing the message to it.
Permits(a) == {r \in Reader : reader[r].pc = "permit" /\ reader[r].to = a}

HasRoom(a) ==
  Len(inbox[a]) + Cardinality(Permits(a))
    + (IF sock.pc = "permit" /\ sock.to = a THEN 1 ELSE 0) < InboxCapacity

\* RemoteStateActor::is_idle
IsIdle(a) == remote[a].conns = 0 /\ inbox[a] = <<>> /\ remote[a].pending = {}

\* On a single-threaded runtime nobody runs between an actor's break and the end
\* of its task: there is no await that yields in between.
Scheduled(a) == MultiThread \/ \A b \in Actor \ {a} : st[b] \notin {"breaking", "closed"}
SocketScheduled == MultiThread \/ \A b \in Actor : st[b] \notin {"breaking", "closed"}

Init ==
  /\ senders = [e \in Endpoint |-> None]
  /\ st = [a \in Actor |-> "unused"]
  /\ owner = [a \in Actor |-> None]
  /\ initial = [a \in Actor |-> <<>>]
  /\ inbox = [a \in Actor |-> <<>>]
  /\ remote = [a \in Actor |-> NewRemote]
  /\ sock = At("select")
  /\ reader = [r \in Reader |-> At("idle")]
  /\ cancelled = FALSE
  /\ sent = 0
  /\ accepted = [e \in Endpoint |-> <<>>]
  /\ handled = [e \in Endpoint |-> <<>>]
  /\ answered = {}

(***************************************************************************)
(* The socket actor: RemoteMap::send_to_actor and cleanup.                 *)
(***************************************************************************)
\* The end of an arm of the select!: while !shutdown_token.is_cancelled().
AfterArm == At(IF cancelled THEN "exit" ELSE "select")

\* get_or_insert_with: the sender in the map, or that of an actor started now.
SendToActor(e, k) ==
  /\ SocketScheduled
  /\ sock.pc = "select"
  /\ sent < MaxMessages
  /\ sent' = sent + 1
  /\ \/ /\ senders[e] # None
        /\ sock' = Sending(senders[e], e, Fresh(k))
        /\ UNCHANGED <<senders, st, owner>>
     \/ /\ senders[e] = None
        /\ \E a \in Actor :
             /\ st[a] = "unused"
             /\ st' = [st EXCEPT ![a] = "run"]
             /\ owner' = [owner EXCEPT ![a] = e]
             /\ senders' = [senders EXCEPT ![e] = a]
             /\ sock' = Sending(a, e, Fresh(k))
  /\ UNCHANGED <<initial, inbox, remote, reader, cancelled, accepted, handled, answered>>

\* The message is in the channel, unless the receiver has taken its last look at it.
Deliver(a, m) ==
  /\ accepted' = [accepted EXCEPT ![owner[a]] = Append(@, m)]
  /\ inbox' = IF st[a] \in {"run", "breaking", "closed"}
              THEN [inbox EXCEPT ![a] = Append(@, m)] ELSE inbox

\* sender.send(message).await once there is room.  The slot and the message are two
\* steps of the channel; only other threads can see the first without the second.
SocketSend ==
  /\ SocketScheduled
  /\ sock.pc = "send"
  /\ Open(sock.to)
  /\ HasRoom(sock.to)
  /\ \/ /\ MultiThread
        /\ sock' = Moved(sock, "permit")
        /\ UNCHANGED <<inbox, accepted>>
     \/ /\ ~MultiThread
        /\ Deliver(sock.to, sock.msg)
        /\ sock' = AfterArm
  /\ UNCHANGED <<senders, st, owner, initial, remote, reader, cancelled, sent, handled, answered>>

SocketPush ==
  /\ sock.pc = "permit"
  /\ Deliver(sock.to, sock.msg)
  /\ sock' = AfterArm
  /\ UNCHANGED <<senders, st, owner, initial, remote, reader, cancelled, sent, handled, answered>>

\* SendError: the actor is terminating.
SocketSendFails ==
  /\ SocketScheduled
  /\ sock.pc = "send"
  /\ ~Open(sock.to)
  /\ sock' = Moved(sock, "join")
  /\ UNCHANGED <<senders, st, owner, initial, inbox, remote, reader, cancelled, sent,
                 accepted, handled, answered>>

\* remove_or_restart_actor, for a task a that was joined.
RemoveOrRestart(a, msgs) ==
  /\ inbox' = [inbox EXCEPT ![a] = <<>>]
  /\ \/ /\ msgs = <<>>
        /\ senders' = [senders EXCEPT ![owner[a]] = None]
        /\ st' = [st EXCEPT ![a] = "joined"]
        /\ UNCHANGED <<owner, initial>>
     \/ /\ msgs # <<>>
        /\ \E b \in Actor :
             /\ st[b] = "unused"
             /\ st' = [st EXCEPT ![a] = "joined", ![b] = "run"]
             /\ owner' = [owner EXCEPT ![b] = owner[a]]
             /\ initial' = [initial EXCEPT ![b] = msgs]
             /\ senders' = [senders EXCEPT ![owner[a]] = b]

\* Variant: the message goes in front of the messages left over.
MessageFirst(a) ==
  /\ SocketScheduled
  /\ sock.pc = "join"
  /\ st[a] = "terminated"
  /\ owner[a] = sock.for
  /\ RemoveOrRestart(a, <<sock.msg>> \o inbox[a])
  /\ accepted' = [accepted EXCEPT ![owner[a]] = Append(@, sock.msg)]
  /\ sock' = AfterArm
  /\ UNCHANGED <<remote, reader, cancelled, sent, handled, answered>>

\* send_to_actor after a failed send: the task that stopped has been joined, and
\* restarts with what it left over followed by the message.
JoinAndRestart(a) ==
  /\ SocketScheduled
  /\ sock.pc = "join"
  /\ st[a] = "terminated"
  /\ owner[a] = sock.for
  /\ RemoveOrRestart(a, Append(inbox[a], sock.msg))
  /\ accepted' = [accepted EXCEPT ![owner[a]] = Append(@, sock.msg)]
  /\ sock' = AfterArm
  /\ UNCHANGED <<remote, reader, cancelled, sent, handled, answered>>

\* Variant: the id of the joined task is not compared.
JoinAny(a) ==
  /\ SocketScheduled
  /\ sock.pc = "join"
  /\ st[a] = "terminated"
  /\ RemoveOrRestart(a, inbox[a])
  /\ UNCHANGED <<remote, sock, reader, cancelled, sent, accepted, handled, answered>>

\* ... while other tasks that ended are cleaned up on the way.
JoinOther(a) ==
  /\ SocketScheduled
  /\ sock.pc = "join"
  /\ st[a] = "terminated"
  /\ owner[a] # sock.for
  /\ RemoveOrRestart(a, inbox[a])
  /\ UNCHANGED <<remote, sock, reader, cancelled, sent, accepted, handled, answered>>

\* The cleanup() arm of the socket actor's select!; it returns once an actor is removed.
Cleanup(a) ==
  /\ SocketScheduled
  /\ sock.pc = "select"
  /\ st[a] = "terminated"
  /\ RemoveOrRestart(a, inbox[a])
  /\ sock' = IF inbox[a] = <<>> THEN AfterArm ELSE sock
  /\ UNCHANGED <<remote, reader, cancelled, sent, accepted, handled, answered>>

\* on_network_change: try_send to every actor in the map; a full or closed inbox is skipped.
OnNetworkChange ==
  LET takes(a) == Open(a) /\ HasRoom(a) IN
  /\ "NetworkChange" \in Kinds
  /\ SocketScheduled
  /\ sock.pc = "select"
  /\ sent < MaxMessages
  /\ sent' = sent + 1
  /\ accepted' = [e \in Endpoint |->
                    IF senders[e] # None /\ takes(senders[e])
                    THEN Append(accepted[e], Fresh("NetworkChange")) ELSE accepted[e]]
  /\ inbox' = [a \in Actor |->
                 IF (\E e \in Endpoint : senders[e] = a) /\ takes(a)
                 THEN Append(inbox[a], Fresh("NetworkChange")) ELSE inbox[a]]
  /\ sock' = AfterArm
  /\ UNCHANGED <<senders, st, owner, initial, remote, reader, cancelled, handled, answered>>

\* Endpoint::close cancels at_endpoint_closed.
Cancel ==
  /\ ShutdownAllowed
  /\ ~cancelled
  /\ cancelled' = TRUE
  /\ UNCHANGED <<senders, st, owner, initial, inbox, remote, sock, reader, sent,
                 accepted, handled, answered>>

\* Variant: the tasks are detached rather than aborted.
ExitDetached ==
  /\ SocketScheduled
  /\ sock.pc \in {"select", "exit"}
  /\ cancelled
  /\ sock' = At("gone")
  /\ UNCHANGED <<senders, st, owner, initial, inbox, remote, reader, cancelled, sent,
                 accepted, handled, answered>>

\* The socket actor returns and drops the map, whose JoinSet aborts the tasks.
SocketExit ==
  /\ SocketScheduled
  /\ sock.pc \in {"select", "exit"}
  /\ cancelled
  /\ sock' = At("gone")
  /\ st' = [a \in Actor |-> IF Live(a) THEN "joined" ELSE st[a]]
  /\ UNCHANGED <<senders, owner, initial, inbox, remote, reader, cancelled, sent,
                 accepted, handled, answered>>
(***************************************************************************)
(* Readers: try_send_remote_state_msg and Socket::remote_info.             *)
(***************************************************************************)
\* remote_actors.get(&id): the sender is cloned out of the shared map.
ReaderGet(r, e, k) ==
  /\ SocketScheduled
  /\ reader[r].pc = "idle"
  /\ senders[e] # None
  /\ sent < MaxMessages
  /\ sent' = sent + 1
  /\ reader' = [reader EXCEPT ![r] = Sending(senders[e], e, Fresh(k))]
  /\ UNCHANGED <<senders, st, owner, initial, inbox, remote, sock, cancelled,
                 accepted, handled, answered>>

ReaderSend(r) ==
  /\ SocketScheduled
  /\ reader[r].pc = "send"
  /\ Open(reader[r].to)
  /\ HasRoom(reader[r].to)
  /\ \/ /\ MultiThread
        /\ reader' = [reader EXCEPT ![r] = Moved(@, "permit")]
        /\ UNCHANGED <<inbox, accepted>>
     \/ /\ ~MultiThread
        /\ Deliver(reader[r].to, reader[r].msg)
        /\ reader' = [reader EXCEPT ![r] = At("idle")]
  /\ UNCHANGED <<senders, st, owner, initial, remote, sock, cancelled, sent, handled, answered>>

ReaderPush(r) ==
  /\ reader[r].pc = "permit"
  /\ Deliver(reader[r].to, reader[r].msg)
  /\ reader' = [reader EXCEPT ![r] = At("idle")]
  /\ UNCHANGED <<senders, st, owner, initial, remote, sock, cancelled, sent, handled, answered>>

\* A closed channel fails either send; a full one only try_send, which drops the datagram.
ReaderFails(r) ==
  /\ SocketScheduled
  /\ reader[r].pc = "send"
  /\ \/ ~Open(reader[r].to)
     \/ ~HasRoom(reader[r].to) /\ reader[r].msg.kind = "SendDatagram"
  /\ reader' = [reader EXCEPT ![r] = At("idle")]
  /\ UNCHANGED <<senders, st, owner, initial, inbox, remote, sock, cancelled, sent,
                 accepted, handled, answered>>

(***************************************************************************)
(* RemoteStateActor::run.                                                  *)
(***************************************************************************)
\* ResolveRemote: insert_multiple answers the waiting requests if it makes the set of
\* paths non-empty, resolve_remote answers or queues this one, trigger_address_lookup
\* starts a lookup unless a path is selected or a lookup is running.  The set of paths is
\* below MAX_NON_RELAY_PATHS here, so that none is pruned (RemotePaths is about pruning).
HandleResolve(a, m, addrs) ==
  LET known == remote[a].known \/ addrs IN
  /\ remote' = [remote EXCEPT ![a] =
       [conns    |-> @.conns,
        pending  |-> IF known THEN {} ELSE @.pending \cup {m.n},
        known    |-> known,
        selected |-> @.selected,
        lookup   |-> @.lookup \/ ~@.selected]]
  /\ answered' = IF known THEN answered \cup remote[a].pending \cup {m.n} ELSE answered

\* What the paths of n connections leave: one that opened is inserted, which answers the
\* waiting requests, and the selector may choose among those known (select_path).
AfterPaths(a, n, opened, chosen) ==
  [conns    |-> n,
   pending  |-> IF opened THEN {} ELSE remote[a].pending,
   known    |-> remote[a].known \/ opened,
   selected |-> remote[a].selected \/ chosen,
   lookup   |-> remote[a].lookup]

\* AddConnection: path 0 is registered if the connection is still open.
HandleAddConnection(a, m, opened, chosen) ==
  /\ chosen => remote[a].known \/ opened
  /\ remote' = [remote EXCEPT ![a] = AfterPaths(a, remote[a].conns + 1, opened, chosen)]
  /\ answered' = answered \cup {m.n} \cup (IF opened THEN remote[a].pending ELSE {})

\* handle_message
HandleMessage(a, m) ==
  \/ m.kind = "ResolveEmpty" /\ HandleResolve(a, m, FALSE)
  \/ m.kind = "ResolveAddrs" /\ HandleResolve(a, m, TRUE)
  \/ m.kind = "AddConnection" /\ \E opened, chosen \in BOOLEAN : HandleAddConnection(a, m, opened, chosen)
  \/ m.kind = "RemoteInfo" /\ answered' = answered \cup {m.n} /\ UNCHANGED remote
  \/ m.kind \in {"SendDatagram", "NetworkChange"} /\ UNCHANGED <<answered, remote>>

\* for msg in initial_msgs, before the loop and whatever the shutdown token says.
ActorInitial(a) ==
  /\ Scheduled(a)
  /\ st[a] = "run"
  /\ initial[a] # <<>>
  /\ HandleMessage(a, Head(initial[a]))
  /\ initial' = [initial EXCEPT ![a] = Tail(@)]
  /\ handled' = [handled EXCEPT ![owner[a]] = Append(@, Head(initial[a]))]
  /\ UNCHANGED <<senders, st, owner, inbox, sock, reader, cancelled, sent, accepted>>

\* The actor is in its loop, and the biased select! gets past the shutdown arm.
InLoop(a) == Scheduled(a) /\ st[a] = "run" /\ initial[a] = <<>> /\ ~cancelled

ActorRecv(a) ==
  /\ InLoop(a)
  /\ inbox[a] # <<>>
  /\ HandleMessage(a, Head(inbox[a]))
  /\ inbox' = [inbox EXCEPT ![a] = Tail(@)]
  /\ handled' = [handled EXCEPT ![owner[a]] = Append(@, Head(inbox[a]))]
  /\ UNCHANGED <<senders, st, owner, initial, sock, reader, cancelled, sent, accepted>>

\* handle_path_event: Established registers the path, Abandoned leaves the address known;
\* both select a path.
ActorPathEvent(a, opened, chosen) ==
  /\ InLoop(a)
  /\ inbox[a] = <<>>
  /\ remote[a].conns > 0
  /\ chosen => remote[a].known \/ opened
  /\ remote' = [remote EXCEPT ![a] = AfterPaths(a, remote[a].conns, opened, chosen)]
  /\ answered' = answered \cup (IF opened THEN remote[a].pending ELSE {})
  /\ UNCHANGED <<senders, st, owner, initial, inbox, sock, reader, cancelled, sent,
                 accepted, handled>>

\* handle_connection_close; the last connection takes the selected path with it.
ActorConnectionClosed(a) ==
  /\ InLoop(a)
  /\ inbox[a] = <<>>
  /\ remote[a].conns > 0
  /\ remote' = [remote EXCEPT ![a] =
       [conns |-> @.conns - 1, pending |-> @.pending, known |-> @.known,
        selected |-> @.selected /\ @.conns > 1, lookup |-> @.lookup]]
  /\ UNCHANGED <<senders, st, owner, initial, inbox, sock, reader, cancelled, sent,
                 accepted, handled, answered>>

\* Variant: the end of the lookup stream leaves the requests waiting.
EndQuietly(a, found) ==
  /\ InLoop(a)
  /\ inbox[a] = <<>>
  /\ remote[a].lookup
  /\ remote' = [remote EXCEPT ![a] =
       [conns |-> @.conns, pending |-> IF found THEN {} ELSE @.pending,
        known |-> @.known \/ found, selected |-> @.selected, lookup |-> found]]
  /\ answered' = IF found THEN answered \cup remote[a].pending ELSE answered
  /\ UNCHANGED <<senders, st, owner, initial, inbox, sock, reader, cancelled, sent,
                 accepted, handled>>

\* handle_address_lookup_item: an item with addresses, or the end of the stream, with or
\* without an error.  Either way the waiting requests are answered.
ActorLookup(a, found) ==
  /\ InLoop(a)
  /\ inbox[a] = <<>>
  /\ remote[a].lookup
  /\ remote' = [remote EXCEPT ![a] =
       [conns |-> @.conns, pending |-> {}, known |-> @.known \/ found,
        selected |-> @.selected, lookup |-> found]]
  /\ answered' = answered \cup remote[a].pending
  /\ UNCHANGED <<senders, st, owner, initial, inbox, sock, reader, cancelled, sent,
                 accepted, handled>>

\* Variant: the idle timeout ends the actor without a last look at is_idle.
BreakBusy(a) ==
  /\ Scheduled(a)
  /\ st[a] = "run"
  /\ initial[a] = <<>>
  /\ cancelled \/ inbox[a] = <<>>
  /\ st' = [st EXCEPT ![a] = "breaking"]
  /\ UNCHANGED <<senders, owner, initial, inbox, remote, sock, reader, cancelled, sent,
                 accepted, handled, answered>>

\* The loop ends: shutdown, or the idle timeout with is_idle still true.  That the sender of the direct
\* addresses or every sender of the inbox is gone takes the socket to be gone first, after a shutdown.
ActorBreak(a) ==
  /\ Scheduled(a)
  /\ st[a] = "run"
  /\ initial[a] = <<>>
  /\ cancelled \/ IsIdle(a)
  /\ st' = [st EXCEPT ![a] = "breaking"]
  /\ UNCHANGED <<senders, owner, initial, inbox, remote, sock, reader, cancelled, sent,
                 accepted, handled, answered>>

\* inbox.close()
ActorClose(a) ==
  /\ Scheduled(a)
  /\ st[a] = "breaking"
  /\ st' = [st EXCEPT ![a] = "closed"]
  /\ UNCHANGED <<senders, owner, initial, inbox, remote, sock, reader, cancelled, sent,
                 accepted, handled, answered>>

\* Variant: the messages still in the inbox are dropped with it.
DropLeftover(a) ==
  /\ Scheduled(a)
  /\ st[a] = "closed"
  /\ st' = [st EXCEPT ![a] = "terminated"]
  /\ inbox' = [inbox EXCEPT ![a] = <<>>]
  /\ remote' = [remote EXCEPT ![a] = NewRemote]
  /\ UNCHANGED <<senders, owner, initial, sock, reader, cancelled, sent,
                 accepted, handled, answered>>

\* inbox.recv_many(.., inbox.len()): the messages there are returned to the map, and
\* the actor is dropped with the requests it has not answered.
ActorDrain(a) ==
  /\ Scheduled(a)
  /\ st[a] = "closed"
  /\ st' = [st EXCEPT ![a] = "terminated"]
  /\ remote' = [remote EXCEPT ![a] = NewRemote]
  /\ UNCHANGED <<senders, owner, initial, inbox, sock, reader, cancelled, sent,
                 accepted, handled, answered>>

(***************************************************************************)
(* The system.                                                             *)
(***************************************************************************)
SocketNext ==
  \/ \E e \in Endpoint, k \in SocketKind \cap Kinds : SendToActor(e, k)
  \/ SocketSend
  \/ SocketPush
  \/ SocketSendFails
  \/ \E a \in Actor : JoinAndRestart(a) \/ JoinOther(a) \/ Cleanup(a)
  \/ OnNetworkChange
  \/ SocketExit

ReaderNext(r) ==
  \/ \E e \in Endpoint, k \in ReaderKind \cap Kinds : ReaderGet(r, e, k)
  \/ ReaderSend(r)
  \/ ReaderPush(r)
  \/ ReaderFails(r)

ActorNext(a) ==
  \/ ActorInitial(a)
  \/ ActorRecv(a)
  \/ ActorConnectionClosed(a)
  \/ \E opened, chosen \in BOOLEAN : ActorPathEvent(a, opened, chosen)
  \/ \E found \in BOOLEAN : ActorLookup(a, found)
  \/ ActorBreak(a)
  \/ ActorClose(a)
  \/ ActorDrain(a)

Next ==
  \/ SocketNext
  \/ \E r \in Reader : ReaderNext(r)
  \/ \E a \in Actor : ActorNext(a)
  \/ Cancel

Spec == Init /\ [][Next]_vars

\* Tasks that are runnable run; timers fire; address lookups end.  When messages,
\* connections and shutdowns come is up to the environment.
Fairness ==
  /\ WF_vars(SocketSend) /\ WF_vars(SocketPush) /\ WF_vars(SocketSendFails)
  /\ WF_vars(SocketExit)
  /\ \A a \in Actor :
       /\ WF_vars(JoinAndRestart(a)) /\ WF_vars(JoinOther(a)) /\ WF_vars(Cleanup(a))
       /\ WF_vars(ActorInitial(a)) /\ WF_vars(ActorRecv(a))
       /\ WF_vars(\E found \in BOOLEAN : ActorLookup(a, found))
       /\ WF_vars(ActorBreak(a)) /\ WF_vars(ActorClose(a)) /\ WF_vars(ActorDrain(a))
  /\ \A r \in Reader : WF_vars(ReaderSend(r)) /\ WF_vars(ReaderPush(r)) /\ WF_vars(ReaderFails(r))

FairSpec == Spec /\ Fairness

(***************************************************************************)
(* Properties.                                                             *)
(***************************************************************************)
SockState == [pc  : {"select", "send", "permit", "join", "exit", "gone"},
              to  : Actor \cup {None}, for : Endpoint \cup {None}, msg : Message]
ReaderState == [pc  : {"idle", "send", "permit"},
                to  : Actor \cup {None}, for : Endpoint \cup {None}, msg : Message]
RemoteState == [conns : Nat, pending : SUBSET Nat, known : BOOLEAN, selected : BOOLEAN,
                lookup : BOOLEAN]

\* Types of the variables.
TypeOK ==
  /\ senders \in [Endpoint -> Actor \cup {None}]
  /\ st \in [Actor -> {"unused", "run", "breaking", "closed", "terminated", "joined"}]
  /\ owner \in [Actor -> Endpoint \cup {None}]
  /\ initial \in [Actor -> Seq(Message)]
  /\ inbox \in [Actor -> Seq(Message)]
  /\ remote \in [Actor -> RemoteState]
  /\ sock \in SockState
  /\ reader \in [Reader -> ReaderState]
  /\ cancelled \in BOOLEAN
  /\ sent \in Nat
  /\ accepted \in [Endpoint -> Seq(Message)]
  /\ handled \in [Endpoint -> Seq(Message)]
  /\ answered \in SUBSET Nat

\* While the map exists it lists exactly the tasks of its JoinSet, one per endpoint: no
\* cleanup reaps the sender of a newer actor, and no two actors serve one remote
\* (send_to_actor's "a later cleanup does not reap a newly created sender again").
SendersAreTasks ==
  sock.pc # "gone" =>
    \A a \in Actor : Live(a) <=> \E e \in Endpoint : senders[e] = a /\ owner[a] = e

\* What waits for e: the messages its actor has not handled, then those in its inbox.
InFlight(e) ==
  IF sock.pc = "gone" \/ senders[e] = None THEN <<>>
  ELSE initial[senders[e]] \o inbox[senders[e]]

Queues == [e \in Endpoint |-> InFlight(e)]

\* A message whose send succeeded is handled once and in channel order, across any number
\* of actors ending and restarting: nothing is lost between is_idle and the last recv_many
\* ("There might be a race ..., so we pull out all messages that are left over").
NothingLost ==
  sock.pc # "gone" => \A e \in Endpoint : accepted[e] = handled[e] \o Queues[e]

\* A resolve request never waits in an actor without an address lookup under way to
\* answer it, and an actor never leaves its loop with one waiting unless shut down.
WaitingIsLookedUp ==
  \A a \in Actor : remote[a].pending # {} =>
    \/ st[a] = "run" /\ remote[a].lookup
    \/ cancelled

\* The map implements the ordered inbox, as long as channel sends are atomic.
Abstract == INSTANCE OrderedInbox WITH
  pending <- Queues, open <- sock.pc # "gone"

\* Every message accepted for e is handled in order and only once (the abstract inbox).
ImplementsInbox == Abstract!Spec

\* Every resolve request that a channel accepted is answered, unless the endpoint closes
\* (resolve_remote's "which may never happen and thus is a bug if it does").
ResolveAnswered ==
  \A n \in 1..MaxMessages :
    (\E e \in Endpoint : \E i \in DOMAIN accepted[e] :
        accepted[e][i].n = n /\ accepted[e][i].kind \in {"ResolveEmpty", "ResolveAddrs"})
      ~> (n \in answered \/ cancelled)

\* send_to_actor returns: the socket actor is back at its select!, or shutting down.
SendReturns == sock.pc # "select" ~> sock.pc = "select" \/ cancelled

\* A shutdown ends the socket actor and every actor task.
ShutdownEndsTasks == cancelled ~> \A a \in Actor : ~Live(a)
=============================================================================
