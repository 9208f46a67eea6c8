-------------------------- MODULE RemoteMapProofs ---------------------------
(***************************************************************************)
(* Theorems about the remote map, for any sets of endpoints, actors and    *)
(* readers, any inbox capacity and any number of messages.                 *)
(***************************************************************************)
EXTENDS RemoteMap, SequenceTheorems, TLAPS

USE NoneAssumption, BoundAssumption

-----------------------------------------------------------------------------
(***************************************************************************)
(* Facts about queues.                                                     *)
(***************************************************************************)
\* Appending to the last of three queues appends to the whole.
LEMMA AppendLast ==
  ASSUME NEW S, NEW s \in Seq(S), NEW t \in Seq(S), NEW m \in S
  PROVE  s \o Append(t, m) = Append(s \o t, m)
<1>1. /\ Append(t, m) = t \o <<m>>
      /\ s \o t \in Seq(S)
      /\ <<m>> \in Seq(S)
  BY AppendIsConcat, ConcatProperties
<1>2. Append(s \o t, m) = (s \o t) \o <<m>>
  BY <1>1, AppendIsConcat
<1> QED BY <1>1, <1>2, ConcatAssociative

\* Moving the head of a queue to the end of another leaves their concatenation alone.
LEMMA MoveHead ==
  ASSUME NEW S, NEW s \in Seq(S), NEW t \in Seq(S), t # <<>>
  PROVE  /\ Head(t) \in S /\ Tail(t) \in Seq(S)
         /\ Append(s, Head(t)) \o Tail(t) = s \o t
<1>1. /\ Head(t) \in S
      /\ Tail(t) \in Seq(S)
      /\ Len(Tail(t)) = Len(t) - 1
      /\ \A i \in 1..Len(Tail(t)) : Tail(t)[i] = t[i + 1]
      /\ Head(t) = t[1]
  BY HeadTailProperties
<1>2. t = <<Head(t)>> \o Tail(t)
  <2> DEFINE u == <<Head(t)>> \o Tail(t)
  <2>1. <<Head(t)>> \in Seq(S) /\ Len(<<Head(t)>>) = 1 /\ <<Head(t)>>[1] = Head(t)
    BY <1>1
  <2>2. /\ u \in Seq(S)
        /\ Len(u) = 1 + Len(Tail(t))
        /\ \A i \in 1..(1 + Len(Tail(t))) :
              u[i] = IF i <= 1 THEN <<Head(t)>>[i] ELSE Tail(t)[i - 1]
    BY <1>1, <2>1, ConcatProperties
  <2>3. Len(t) \in Nat /\ Len(u) = Len(t)
    BY <1>1, <2>2
  <2> HIDE DEF u
  <2>4. ASSUME NEW i \in 1..Len(t) PROVE u[i] = t[i]
    <3>1. CASE i = 1
      BY <3>1, <2>1, <2>2, <2>3, <1>1
    <3>2. CASE i # 1
      <4>1. i - 1 \in 1..Len(Tail(t)) /\ i \in 1..(1 + Len(Tail(t))) /\ ~(i <= 1)
        BY <3>2, <2>3, <1>1
      <4>2. u[i] = Tail(t)[i - 1]
        BY <2>2, <4>1
      <4>3. Tail(t)[i - 1] = t[(i - 1) + 1]
        BY <1>1, <4>1
      <4>4. (i - 1) + 1 = i
        BY <2>3
      <4> QED BY <4>2, <4>3, <4>4
    <3> QED BY <3>1, <3>2
  <2>5. Len(t) = Len(u) /\ \A i \in 1..Len(t) : t[i] = u[i]
    BY <2>3, <2>4
  <2>6. t = u
    BY ONLY <2>2, <2>5, t \in Seq(S), SeqEqual
  <2> QED BY <2>6 DEF u
<1>3. Append(s, Head(t)) = s \o <<Head(t)>> /\ <<Head(t)>> \in Seq(S)
  BY <1>1, AppendIsConcat
<1>4. (s \o <<Head(t)>>) \o Tail(t) = s \o (<<Head(t)>> \o Tail(t))
  BY <1>1, <1>3, ConcatAssociative
<1> QED BY <1>1, <1>2, <1>3, <1>4

\* Taking the head of a queue in front of another takes it from the whole.
LEMMA HeadOfConcat ==
  ASSUME NEW S, NEW t \in Seq(S), NEW u \in Seq(S), t # <<>>
  PROVE  /\ t \o u # <<>>
         /\ Head(t \o u) = Head(t)
         /\ Tail(t \o u) = Tail(t) \o u
<1>1. /\ t \o u \in Seq(S)
      /\ Len(t \o u) = Len(t) + Len(u)
      /\ \A i \in 1..(Len(t) + Len(u)) :
            (t \o u)[i] = IF i <= Len(t) THEN t[i] ELSE u[i - Len(t)]
  BY ConcatProperties
<1>2. Len(t) \in Nat /\ Len(u) \in Nat /\ Len(t) >= 1
  OBVIOUS
<1>3. t \o u # <<>>
  BY <1>1, <1>2
<1>4. Head(t \o u) = Head(t)
  BY <1>1, <1>2, <1>3, HeadTailProperties
<1>5. /\ Tail(t) \in Seq(S) /\ Len(Tail(t)) = Len(t) - 1
      /\ \A i \in 1..Len(Tail(t)) : Tail(t)[i] = t[i + 1]
  BY HeadTailProperties
<1>6. /\ Tail(t \o u) \in Seq(S) /\ Len(Tail(t \o u)) = Len(t \o u) - 1
      /\ \A i \in 1..Len(Tail(t \o u)) : Tail(t \o u)[i] = (t \o u)[i + 1]
  BY <1>1, <1>3, HeadTailProperties
<1>7. /\ Tail(t) \o u \in Seq(S) /\ Len(Tail(t) \o u) = Len(Tail(t)) + Len(u)
      /\ \A i \in 1..(Len(Tail(t)) + Len(u)) :
            (Tail(t) \o u)[i] = IF i <= Len(Tail(t)) THEN Tail(t)[i] ELSE u[i - Len(Tail(t))]
  BY <1>5, ConcatProperties
<1> DEFINE n == Len(t) - 1 + Len(u)
           x == Tail(t \o u)
           y == Tail(t) \o u
<1>8. Len(x) = n /\ Len(y) = n /\ n \in Nat
  BY <1>1, <1>2, <1>5, <1>6, <1>7
<1>9. ASSUME NEW i \in 1..n PROVE x[i] = y[i]
  <2>1. i \in Nat /\ i + 1 \in 1..(Len(t) + Len(u)) /\ i \in 1..(Len(Tail(t)) + Len(u)) /\ i \in 1..Len(x)
    BY <1>8, <1>2, <1>5
  <2>2. x[i] = (t \o u)[i + 1]
    BY <1>6, <2>1
  <2>3. (t \o u)[i + 1] = IF i + 1 <= Len(t) THEN t[i + 1] ELSE u[(i + 1) - Len(t)]
    BY <1>1, <2>1
  <2>4. y[i] = IF i <= Len(Tail(t)) THEN Tail(t)[i] ELSE u[i - Len(Tail(t))]
    BY <1>7, <2>1
  <2>5. CASE i + 1 <= Len(t)
    <3>1. i <= Len(Tail(t)) /\ i \in 1..Len(Tail(t))
      BY <2>5, <2>1, <1>2, <1>5
    <3> QED BY <2>5, <3>1, <2>2, <2>3, <2>4, <1>5
  <2>6. CASE ~(i + 1 <= Len(t))
    <3>1. ~(i <= Len(Tail(t))) /\ i - Len(Tail(t)) = (i + 1) - Len(t)
      BY <2>6, <2>1, <1>2, <1>5
    <3> QED BY <2>6, <3>1, <2>2, <2>3, <2>4
  <2> QED BY <2>5, <2>6
<1>10. x = y
  <2>1. x \in Seq(S) /\ y \in Seq(S) /\ Len(x) = Len(y) /\ \A i \in 1..Len(x) : x[i] = y[i]
    BY <1>6, <1>7, <1>8, <1>9
  <2> HIDE DEF x, y
  <2> QED BY <2>1, SeqEqual
<1> QED BY <1>3, <1>4, <1>10

-----------------------------------------------------------------------------
(***************************************************************************)
(* Type correctness.                                                       *)
(***************************************************************************)
\* The next message is a message.
LEMMA FreshType ==
  ASSUME TypeOK, sent < MaxMessages, NEW k \in SocketKind \cup ReaderKind \cup {"NetworkChange"}
  PROVE  Fresh(k) \in Message /\ sent + 1 \in Nat
  BY DEF TypeOK, Fresh, Message

\* The places of the socket actor and of a reader.
LEMMA PlaceType ==
  ASSUME TypeOK
  PROVE  /\ AfterArm \in SockState
         /\ At("gone") \in SockState
         /\ At("idle") \in ReaderState
         /\ \A pc \in {"permit", "join"} : Moved(sock, pc) \in SockState
         /\ \A r \in Reader : Moved(reader[r], "permit") \in ReaderState
         /\ \A a \in Actor, e \in Endpoint, m \in Message :
              Sending(a, e, m) \in SockState /\ Sending(a, e, m) \in ReaderState
<1>1. [n |-> 0, kind |-> "NetworkChange"] \in Message
  BY DEF Message
<1>2. AfterArm \in SockState /\ At("gone") \in SockState /\ At("idle") \in ReaderState
  BY <1>1 DEF AfterArm, At, SockState, ReaderState
<1>3. /\ \A pc \in {"permit", "join"} : Moved(sock, pc) \in SockState
      /\ \A r \in Reader : Moved(reader[r], "permit") \in ReaderState
  BY DEF Moved, SockState, ReaderState, TypeOK
<1>4. \A a \in Actor, e \in Endpoint, m \in Message :
              Sending(a, e, m) \in SockState /\ Sending(a, e, m) \in ReaderState
  BY DEF Sending, SockState, ReaderState
<1> QED BY <1>2, <1>3, <1>4

\* Delivering a message keeps the channel and the history well-typed.
LEMMA DeliverType ==
  ASSUME TypeOK, NEW a, NEW m \in Message, Deliver(a, m)
  PROVE  /\ inbox' \in [Actor -> Seq(Message)]
         /\ accepted' \in [Endpoint -> Seq(Message)]
<1>1. /\ inbox \in [Actor -> Seq(Message)] /\ accepted \in [Endpoint -> Seq(Message)]
      /\ \A s \in Seq(Message) : Append(s, m) \in Seq(Message)
  BY AppendProperties DEF TypeOK
<1>2. \A x : x \in Actor => Append(inbox[x], m) \in Seq(Message)
  BY <1>1
<1>3. \A x : x \in Endpoint => Append(accepted[x], m) \in Seq(Message)
  BY <1>1
<1>4. \A x : [inbox EXCEPT ![x] = Append(@, m)] \in [Actor -> Seq(Message)]
  BY <1>1, <1>2
<1>5. \A x : [accepted EXCEPT ![x] = Append(@, m)] \in [Endpoint -> Seq(Message)]
  BY <1>1, <1>3
<1> QED BY <1>1, <1>4, <1>5 DEF Deliver

\* Removing or restarting an actor keeps the map and the tasks well-typed.
LEMMA RemoveOrRestartType ==
  ASSUME TypeOK, NEW a \in Actor, NEW msgs \in Seq(Message), RemoveOrRestart(a, msgs)
  PROVE  /\ senders' \in [Endpoint -> Actor \cup {None}]
         /\ st' \in [Actor -> {"unused", "run", "breaking", "closed", "terminated", "joined"}]
         /\ owner' \in [Actor -> Endpoint \cup {None}]
         /\ initial' \in [Actor -> Seq(Message)]
         /\ inbox' \in [Actor -> Seq(Message)]
<1>1. <<>> \in Seq(Message)
  OBVIOUS
<1>2. inbox' \in [Actor -> Seq(Message)]
  BY <1>1 DEF TypeOK, RemoveOrRestart
<1>3. CASE msgs = <<>>
  BY <1>2, <1>3 DEF TypeOK, RemoveOrRestart
<1>4. CASE msgs # <<>>
  <2>1. PICK b \in Actor : /\ st' = [st EXCEPT ![a] = "joined", ![b] = "run"]
                           /\ owner' = [owner EXCEPT ![b] = owner[a]]
                           /\ initial' = [initial EXCEPT ![b] = msgs]
                           /\ senders' = [senders EXCEPT ![owner[a]] = b]
    BY <1>4 DEF RemoveOrRestart
  <2> QED BY <1>2, <2>1 DEF TypeOK
<1> QED BY <1>3, <1>4

\* The state after a path opened or was selected is well-typed.
LEMMA AfterPathsType ==
  ASSUME TypeOK, NEW a \in Actor, NEW n \in Nat, NEW opened \in BOOLEAN, NEW chosen \in BOOLEAN
  PROVE  AfterPaths(a, n, opened, chosen) \in RemoteState
<1>1. remote[a] \in RemoteState
  BY DEF TypeOK
<1>2. /\ remote[a].pending \in SUBSET Nat /\ remote[a].known \in BOOLEAN
      /\ remote[a].selected \in BOOLEAN /\ remote[a].lookup \in BOOLEAN
  BY <1>1 DEF RemoteState
<1>3. (IF opened THEN {} ELSE remote[a].pending) \in SUBSET Nat
  BY <1>2
<1> QED BY <1>2, <1>3 DEF AfterPaths, RemoteState

\* Handling a message keeps the actor's state well-typed.
LEMMA HandleMessageType ==
  ASSUME TypeOK, NEW a \in Actor, NEW m \in Message, HandleMessage(a, m)
  PROVE  remote' \in [Actor -> RemoteState] /\ answered' \in SUBSET Nat
<1>1. /\ remote[a] \in RemoteState /\ remote \in [Actor -> RemoteState]
      /\ answered \in SUBSET Nat /\ m.n \in Nat
      /\ remote[a].pending \in SUBSET Nat
  BY DEF TypeOK, RemoteState, Message
<1>2. \A c \in Nat, p \in SUBSET Nat, k, s, l \in BOOLEAN :
        [remote EXCEPT ![a] = [conns |-> c, pending |-> p, known |-> k, selected |-> s, lookup |-> l]]
          \in [Actor -> RemoteState]
  BY <1>1 DEF RemoteState
<1>3. ASSUME NEW addrs \in BOOLEAN, HandleResolve(a, m, addrs)
      PROVE  remote' \in [Actor -> RemoteState] /\ answered' \in SUBSET Nat
  <2> DEFINE known == remote[a].known \/ addrs
             p == IF known THEN {} ELSE remote[a].pending \cup {m.n}
             l == remote[a].lookup \/ ~remote[a].selected
  <2>1. /\ known \in BOOLEAN /\ l \in BOOLEAN /\ remote[a].selected \in BOOLEAN
        /\ remote[a].conns \in Nat
    BY <1>1 DEF RemoteState
  <2>2. p \in SUBSET Nat
    BY <1>1
  <2>3. remote' = [remote EXCEPT ![a] = [conns |-> remote[a].conns, pending |-> p,
            known |-> known, selected |-> remote[a].selected, lookup |-> l]]
    BY <1>1, <1>3 DEF HandleResolve
  <2>4. answered' \in SUBSET Nat
    BY <1>1, <1>3 DEF HandleResolve
  <2> HIDE DEF known, p, l
  <2> QED BY <1>2, <2>1, <2>2, <2>3, <2>4
<1>4. ASSUME NEW opened \in BOOLEAN, NEW chosen \in BOOLEAN, HandleAddConnection(a, m, opened, chosen)
      PROVE  remote' \in [Actor -> RemoteState] /\ answered' \in SUBSET Nat
  <2>1. remote[a].conns + 1 \in Nat
    BY <1>1 DEF RemoteState
  <2>2. AfterPaths(a, remote[a].conns + 1, opened, chosen) \in RemoteState
    BY <2>1, AfterPathsType
  <2>3. remote' = [remote EXCEPT ![a] = AfterPaths(a, remote[a].conns + 1, opened, chosen)]
    BY <1>4 DEF HandleAddConnection
  <2>4. answered' \in SUBSET Nat
    BY <1>1, <1>4 DEF HandleAddConnection
  <2> QED BY <1>1, <2>2, <2>3, <2>4
<1>5. m.kind = "ResolveEmpty" /\ HandleResolve(a, m, FALSE)
        => remote' \in [Actor -> RemoteState] /\ answered' \in SUBSET Nat
  BY <1>3
<1>6. m.kind = "ResolveAddrs" /\ HandleResolve(a, m, TRUE)
        => remote' \in [Actor -> RemoteState] /\ answered' \in SUBSET Nat
  BY <1>3
<1> QED BY <1>1, <1>4, <1>5, <1>6 DEF HandleMessage

\* Every step keeps the types.
LEMMA TypeStep ==
  ASSUME TypeOK, [Next]_vars
  PROVE  TypeOK'
<1> USE DEF TypeOK
<1>1. ASSUME NEW e \in Endpoint, NEW k \in SocketKind \cap Kinds, SendToActor(e, k)
      PROVE  TypeOK'
  <2>1. Fresh(k) \in Message /\ sent + 1 \in Nat
    BY <1>1, FreshType DEF SendToActor
  <2>2. CASE senders[e] # None
    <3>1. senders[e] \in Actor /\ sock' = Sending(senders[e], e, Fresh(k))
      BY <1>1, <2>2 DEF SendToActor
    <3>2. sock' \in SockState
      BY <2>1, <3>1, PlaceType
    <3> QED BY <1>1, <2>1, <2>2, <3>2 DEF SendToActor
  <2>3. CASE senders[e] = None
    <3>1. PICK a \in Actor : /\ st' = [st EXCEPT ![a] = "run"]
                             /\ owner' = [owner EXCEPT ![a] = e]
                             /\ senders' = [senders EXCEPT ![e] = a]
                             /\ sock' = Sending(a, e, Fresh(k))
      BY <1>1, <2>3 DEF SendToActor
    <3>2. sock' \in SockState
      BY <2>1, <3>1, PlaceType
    <3> QED BY <1>1, <2>1, <3>1, <3>2 DEF SendToActor
  <2> QED BY <2>2, <2>3
<1>2. CASE SocketSend
  <2>1. CASE MultiThread
    BY <1>2, <2>1, PlaceType DEF SocketSend
  <2>2. CASE ~MultiThread
    <3>1. Deliver(sock.to, sock.msg) /\ Open(sock.to) /\ sock.msg \in Message
      BY <1>2, <2>2 DEF SocketSend, SockState
    <3>2. inbox' \in [Actor -> Seq(Message)] /\ accepted' \in [Endpoint -> Seq(Message)]
      BY <3>1, DeliverType
    <3> QED BY <1>2, <2>2, <3>2, PlaceType DEF SocketSend
  <2> QED BY <2>1, <2>2
<1>3. CASE SocketPush
  <2>1. Deliver(sock.to, sock.msg) /\ sock.msg \in Message
    BY <1>3 DEF SocketPush, SockState
  <2>2. inbox' \in [Actor -> Seq(Message)] /\ accepted' \in [Endpoint -> Seq(Message)]
    BY <2>1, DeliverType
  <2> QED BY <1>3, <2>2, PlaceType DEF SocketPush
<1>4. CASE SocketSendFails
  BY <1>4, PlaceType DEF SocketSendFails
<1>5. ASSUME NEW a \in Actor, JoinAndRestart(a)
      PROVE  TypeOK'
  <2>1. sock.msg \in Message /\ Append(inbox[a], sock.msg) \in Seq(Message)
    BY DEF SockState
  <2>2. accepted' \in [Endpoint -> Seq(Message)]
    <3>1. \A x : x \in Endpoint => Append(accepted[x], sock.msg) \in Seq(Message)
      BY <2>1
    <3>2. accepted' = [accepted EXCEPT ![owner[a]] = Append(@, sock.msg)]
      BY <1>5 DEF JoinAndRestart
    <3> QED BY <3>1, <3>2
  <2>3. RemoveOrRestart(a, Append(inbox[a], sock.msg))
    BY <1>5 DEF JoinAndRestart
  <2>4. /\ senders' \in [Endpoint -> Actor \cup {None}]
        /\ st' \in [Actor -> {"unused", "run", "breaking", "closed", "terminated", "joined"}]
        /\ owner' \in [Actor -> Endpoint \cup {None}]
        /\ initial' \in [Actor -> Seq(Message)]
        /\ inbox' \in [Actor -> Seq(Message)]
    BY <2>1, <2>3, RemoveOrRestartType
  <2> QED BY <1>5, <2>2, <2>4, PlaceType DEF JoinAndRestart
<1>6. ASSUME NEW a \in Actor, JoinOther(a) \/ Cleanup(a)
      PROVE  TypeOK'
  <2>1. inbox[a] \in Seq(Message) /\ RemoveOrRestart(a, inbox[a])
    BY <1>6 DEF JoinOther, Cleanup
  <2>2. /\ senders' \in [Endpoint -> Actor \cup {None}]
        /\ st' \in [Actor -> {"unused", "run", "breaking", "closed", "terminated", "joined"}]
        /\ owner' \in [Actor -> Endpoint \cup {None}]
        /\ initial' \in [Actor -> Seq(Message)]
        /\ inbox' \in [Actor -> Seq(Message)]
    BY <2>1, RemoveOrRestartType
  <2> QED BY <1>6, <2>2, PlaceType DEF JoinOther, Cleanup
<1>7. CASE OnNetworkChange
  <2>1. Fresh("NetworkChange") \in Message /\ sent + 1 \in Nat
    BY <1>7, FreshType DEF OnNetworkChange
  <2>2. inbox' \in [Actor -> Seq(Message)] /\ accepted' \in [Endpoint -> Seq(Message)]
    BY <1>7, <2>1 DEF OnNetworkChange
  <2> QED BY <1>7, <2>1, <2>2, PlaceType DEF OnNetworkChange
<1>8. CASE SocketExit
  BY <1>8, PlaceType DEF SocketExit
<1>9. ASSUME NEW r \in Reader, NEW e \in Endpoint, NEW k \in ReaderKind \cap Kinds, ReaderGet(r, e, k)
      PROVE  TypeOK'
  <2>1. Fresh(k) \in Message /\ sent + 1 \in Nat
    BY <1>9, FreshType DEF ReaderGet
  <2>2. senders[e] \in Actor
    BY <1>9 DEF ReaderGet
  <2> QED BY <1>9, <2>1, <2>2, PlaceType DEF ReaderGet
<1>10. ASSUME NEW r \in Reader, ReaderSend(r) \/ ReaderPush(r) \/ ReaderFails(r)
       PROVE  TypeOK'
  <2>1. reader[r].msg \in Message
    BY DEF ReaderState
  <2>2. inbox' \in [Actor -> Seq(Message)] /\ accepted' \in [Endpoint -> Seq(Message)]
    <3>1. CASE Deliver(reader[r].to, reader[r].msg)
      BY <2>1, <3>1, DeliverType
    <3>2. CASE UNCHANGED <<inbox, accepted>>
      BY <3>2
    <3> QED BY <1>10, <3>1, <3>2 DEF ReaderSend, ReaderPush, ReaderFails
  <2>3. At("idle") \in ReaderState /\ Moved(reader[r], "permit") \in ReaderState
    BY PlaceType
  <2>4. reader' \in [Reader -> ReaderState]
    BY <1>10, <2>3 DEF ReaderSend, ReaderPush, ReaderFails
  <2>5. UNCHANGED <<senders, st, owner, initial, remote, sock, cancelled, sent, handled, answered>>
    BY <1>10 DEF ReaderSend, ReaderPush, ReaderFails
  <2> QED BY <2>2, <2>4, <2>5
<1>11. ASSUME NEW a \in Actor, ActorInitial(a) \/ ActorRecv(a)
       PROVE  TypeOK'
  <2>1. CASE ActorInitial(a)
    <3>1. Head(initial[a]) \in Message /\ Tail(initial[a]) \in Seq(Message)
      BY <2>1, HeadTailProperties DEF ActorInitial
    <3>2. remote' \in [Actor -> RemoteState] /\ answered' \in SUBSET Nat
      BY <2>1, <3>1, HandleMessageType DEF ActorInitial
    <3>3. \A x : x \in Endpoint => Append(handled[x], Head(initial[a])) \in Seq(Message)
      BY <3>1
    <3>4. handled' = [handled EXCEPT ![owner[a]] = Append(@, Head(initial[a]))]
      BY <2>1 DEF ActorInitial
    <3>5. handled' \in [Endpoint -> Seq(Message)]
      BY <3>3, <3>4
    <3> QED BY <2>1, <3>1, <3>2, <3>5 DEF ActorInitial
  <2>2. CASE ActorRecv(a)
    <3>1. Head(inbox[a]) \in Message /\ Tail(inbox[a]) \in Seq(Message)
      BY <2>2, HeadTailProperties DEF ActorRecv
    <3>2. remote' \in [Actor -> RemoteState] /\ answered' \in SUBSET Nat
      BY <2>2, <3>1, HandleMessageType DEF ActorRecv
    <3>3. \A x : x \in Endpoint => Append(handled[x], Head(inbox[a])) \in Seq(Message)
      BY <3>1
    <3>4. handled' = [handled EXCEPT ![owner[a]] = Append(@, Head(inbox[a]))]
      BY <2>2 DEF ActorRecv
    <3>5. handled' \in [Endpoint -> Seq(Message)]
      BY <3>3, <3>4
    <3> QED BY <2>2, <3>1, <3>2, <3>5 DEF ActorRecv
  <2> QED BY <1>11, <2>1, <2>2
<1>12. ASSUME NEW a \in Actor, ActorConnectionClosed(a)
       PROVE  TypeOK'
  BY <1>12 DEF ActorConnectionClosed, RemoteState
<1>13. ASSUME NEW a \in Actor, NEW found \in BOOLEAN, ActorLookup(a, found)
       PROVE  TypeOK'
  <2>1. remote[a] \in RemoteState /\ remote[a].pending \in SUBSET Nat
    BY DEF RemoteState
  <2>2. remote' \in [Actor -> RemoteState]
    BY <1>13, <2>1 DEF ActorLookup, RemoteState
  <2> QED BY <1>13, <2>1, <2>2 DEF ActorLookup
<1>17. ASSUME NEW a \in Actor, NEW opened \in BOOLEAN, NEW chosen \in BOOLEAN,
              ActorPathEvent(a, opened, chosen)
       PROVE  TypeOK'
  <2>1. remote[a].conns \in Nat /\ remote[a].pending \in SUBSET Nat
    BY DEF RemoteState
  <2>2. AfterPaths(a, remote[a].conns, opened, chosen) \in RemoteState
    BY <2>1, AfterPathsType
  <2> QED BY <1>17, <2>1, <2>2 DEF ActorPathEvent
<1>14. ASSUME NEW a \in Actor, ActorBreak(a) \/ ActorClose(a) \/ ActorDrain(a)
       PROVE  TypeOK'
  <2>1. NewRemote \in RemoteState
    BY DEF NewRemote, RemoteState
  <2>2. CASE ActorBreak(a)
    BY <2>2 DEF ActorBreak
  <2>3. CASE ActorClose(a)
    BY <2>3 DEF ActorClose
  <2>4. CASE ActorDrain(a)
    BY <2>4, <2>1 DEF ActorDrain
  <2> QED BY <1>14, <2>2, <2>3, <2>4
<1>15. CASE Cancel
  BY <1>15 DEF Cancel
<1>16. CASE UNCHANGED vars
  BY <1>16 DEF vars
<1> QED
  BY <1>1, <1>2, <1>3, <1>4, <1>5, <1>6, <1>7, <1>8, <1>9, <1>10, <1>11, <1>12, <1>13,
     <1>14, <1>15, <1>16, <1>17 DEF Next, SocketNext, ReaderNext, ActorNext

\* The initial state is well-typed.
LEMMA InitType == Init => TypeOK
<1>1. [n |-> 0, kind |-> "NetworkChange"] \in Message
    BY DEF Message
<1>2. At("select") \in SockState /\ At("idle") \in ReaderState
    BY <1>1 DEF At, SockState, ReaderState
<1>3. NewRemote \in RemoteState
    BY DEF NewRemote, RemoteState
<1>4. <<>> \in Seq(Message)
    OBVIOUS
<1> SUFFICES ASSUME Init PROVE TypeOK
    OBVIOUS
<1>5. /\ senders \in [Endpoint -> Actor \cup {None}]
      /\ st \in [Actor -> {"unused", "run", "breaking", "closed", "terminated", "joined"}]
      /\ owner \in [Actor -> Endpoint \cup {None}]
      /\ cancelled \in BOOLEAN /\ sent \in Nat /\ answered \in SUBSET Nat
    BY DEF Init
<1>6. /\ initial \in [Actor -> Seq(Message)] /\ inbox \in [Actor -> Seq(Message)]
      /\ accepted \in [Endpoint -> Seq(Message)] /\ handled \in [Endpoint -> Seq(Message)]
    BY <1>4 DEF Init
<1>7. /\ remote \in [Actor -> RemoteState] /\ sock \in SockState
      /\ reader \in [Reader -> ReaderState]
    BY <1>2, <1>3 DEF Init
<1> QED BY <1>5, <1>6, <1>7 DEF TypeOK

\* The variables of the map keep their types in every behaviour of the code.
THEOREM TypeCorrect == Spec => []TypeOK
<1> QED BY InitType, TypeStep, PTL DEF Spec

-----------------------------------------------------------------------------
(***************************************************************************)
(* The map and the tasks.                                                  *)
(***************************************************************************)
\* A task that is about to send, or waits to join: its target was started for an endpoint.
Targets(task) ==
  task.pc \in {"send", "permit", "join"} =>
    task.to \in Actor /\ st[task.to] # "unused" /\ owner[task.to] \in Endpoint

\* Tasks of the JoinSet are in the map under their endpoint, and the map lists only them;
\* no task outlives the socket actor; an actor not started yet has no messages.
MapInv ==
  /\ sock.pc # "gone" =>
       /\ \A a \in Actor : Live(a) => owner[a] \in Endpoint /\ senders[owner[a]] = a
       /\ \A e \in Endpoint : senders[e] # None => Live(senders[e]) /\ owner[senders[e]] = e
  /\ sock.pc = "gone" => \A a \in Actor : ~Live(a)
  /\ \A e \in Endpoint : senders[e] # None => st[senders[e]] # "unused" /\ owner[senders[e]] = e
  /\ \A a \in Actor : st[a] = "unused" => initial[a] = <<>> /\ inbox[a] = <<>>
  /\ sock.pc \in {"send", "permit", "join"} => sock.for \in Endpoint
  /\ Targets(sock)
  /\ \A r \in Reader : Targets(reader[r])

\* A step that starts, ends and moves no task keeps the invariant, if it sends nothing new.
LEMMA MapSame ==
  ASSUME TypeOK, TypeOK', MapInv, UNCHANGED <<senders, st, owner>>,
         sock.pc # "gone" <=> sock'.pc # "gone",
         \A a \in Actor : st[a] = "unused" => initial'[a] = initial[a] /\ inbox'[a] = inbox[a],
         Targets(sock)', sock'.pc \in {"send", "permit", "join"} => sock'.for \in Endpoint,
         \A r \in Reader : Targets(reader[r])'
  PROVE  MapInv'
  BY DEF MapInv, Live, TypeOK

\* remove_or_restart_actor keeps the map and the tasks in step.
LEMMA MapRemoveOrRestart ==
  ASSUME TypeOK, TypeOK', MapInv, NEW a \in Actor, NEW msgs \in Seq(Message),
         st[a] = "terminated", RemoveOrRestart(a, msgs),
         sock.pc # "gone", sock'.pc # "gone",
         sock' = sock \/ sock'.pc \notin {"send", "permit", "join"},
         UNCHANGED reader
  PROVE  MapInv'
<1> DEFINE e == owner[a]
<1>1. e \in Endpoint /\ senders[e] = a /\ Live(a)
  BY DEF MapInv, Live
<1>2. \A x \in Actor : st'[x] = "unused" => st[x] = "unused" /\ x # a
  BY DEF TypeOK, RemoveOrRestart
<1>3. \A x \in Actor : st'[x] = "unused" => initial'[x] = <<>> /\ inbox'[x] = <<>>
  <2>1. CASE msgs = <<>>
    BY <1>2, <2>1 DEF TypeOK, RemoveOrRestart, MapInv
  <2>2. CASE msgs # <<>>
    <3>1. PICK b \in Actor : /\ st' = [st EXCEPT ![a] = "joined", ![b] = "run"]
                             /\ initial' = [initial EXCEPT ![b] = msgs]
                             /\ inbox' = [inbox EXCEPT ![a] = <<>>]
                             /\ st[b] = "unused"
      BY <2>2 DEF RemoveOrRestart
    <3> QED BY <1>2, <3>1 DEF TypeOK, MapInv
  <2> QED BY <2>1, <2>2
<1>4. \A x \in Actor : /\ owner[x] \in Endpoint => owner'[x] \in Endpoint
                       /\ st[x] # "unused" => st'[x] # "unused"
  BY <1>1 DEF TypeOK, RemoveOrRestart
<1>5. /\ Targets(sock)' /\ \A r \in Reader : Targets(reader[r])'
      /\ sock'.pc \in {"send", "permit", "join"} => sock'.for \in Endpoint
  <2>1. /\ Targets(sock) /\ \A r \in Reader : Targets(reader[r])
        /\ sock.pc \in {"send", "permit", "join"} => sock.for \in Endpoint
    BY DEF MapInv
  <2>2. Targets(sock)'
    BY <1>4, <2>1 DEF Targets
  <2>3. \A r \in Reader : Targets(reader[r])'
    BY <1>4, <2>1 DEF Targets
  <2> QED BY <2>1, <2>2, <2>3
<1>6. /\ \A x \in Actor : Live(x)' => owner'[x] \in Endpoint /\ senders'[owner'[x]] = x
      /\ \A f \in Endpoint : senders'[f] # None => Live(senders[f])' /\ owner'[senders'[f]] = f
  <2>1. CASE msgs = <<>>
    <3>1. /\ senders' = [senders EXCEPT ![e] = None] /\ st' = [st EXCEPT ![a] = "joined"]
          /\ owner' = owner
      BY <2>1 DEF RemoveOrRestart
    <3> HIDE DEF e
    <3>2. \A x \in Actor : Live(x)' => Live(x) /\ x # a
      BY <3>1 DEF Live, TypeOK
    <3>3. \A x \in Actor : Live(x) /\ x # a => owner[x] \in Endpoint /\ senders[owner[x]] = x /\ owner[x] # e
      BY <1>1 DEF MapInv
    <3>4. \A x \in Actor : Live(x)' => owner'[x] \in Endpoint /\ senders'[owner'[x]] = x
      BY <3>1, <3>2, <3>3 DEF TypeOK
    <3>5. ASSUME NEW f \in Endpoint, senders'[f] # None
          PROVE  Live(senders[f])' /\ owner'[senders'[f]] = f
      <4>1. f # e /\ senders'[f] = senders[f]
        BY <3>1, <3>5 DEF TypeOK
      <4>2. Live(senders[f]) /\ owner[senders[f]] = f /\ senders[f] \in Actor
        BY <4>1, <3>5 DEF MapInv, TypeOK
      <4>3. senders[f] # a
        BY <4>1, <4>2 DEF e
      <4> QED BY <4>1, <4>2, <4>3, <3>1 DEF Live, TypeOK
    <3> QED BY <3>4, <3>5
  <2>2. CASE msgs # <<>>
    <3>1. PICK b \in Actor : /\ st' = [st EXCEPT ![a] = "joined", ![b] = "run"]
                             /\ owner' = [owner EXCEPT ![b] = e]
                             /\ senders' = [senders EXCEPT ![e] = b]
                             /\ st[b] = "unused"
      BY <2>2 DEF RemoveOrRestart
    <3>2. b # a /\ ~Live(b)
      BY <3>1 DEF Live
    <3>3. senders'[e] = b /\ owner'[b] = e /\ Live(b)'
      BY <3>1, <3>2, <1>1 DEF Live, TypeOK
    <3> HIDE DEF e
    <3>4. ASSUME NEW x \in Actor, Live(x)'
          PROVE  owner'[x] \in Endpoint /\ senders'[owner'[x]] = x
      <4>1. CASE x = b
        BY <4>1, <3>3, <1>1
      <4>2. CASE x # b
        <5>1. Live(x) /\ x # a /\ owner'[x] = owner[x]
          BY <4>2, <3>4, <3>1 DEF Live, TypeOK
        <5>2. owner[x] \in Endpoint /\ senders[owner[x]] = x
          BY <5>1 DEF MapInv
        <5>3. owner[x] # e
          BY <5>1, <5>2, <1>1
        <5> QED BY <5>1, <5>2, <5>3, <3>1 DEF TypeOK
      <4> QED BY <4>1, <4>2
    <3>5. ASSUME NEW f \in Endpoint, senders'[f] # None
          PROVE  Live(senders[f])' /\ owner'[senders'[f]] = f
      <4>1. CASE f = e
        BY <4>1, <3>3
      <4>2. CASE f # e
        <5>1. senders'[f] = senders[f]
          BY <3>1, <4>2 DEF TypeOK
        <5>2. Live(senders[f]) /\ owner[senders[f]] = f /\ senders[f] \in Actor
          BY <5>1, <3>5 DEF MapInv, TypeOK
        <5>3. senders[f] # a /\ senders[f] # b
          BY <5>2, <4>2, <3>2 DEF e
        <5> QED BY <5>1, <5>2, <5>3, <3>1 DEF Live, TypeOK
      <4> QED BY <4>1, <4>2
    <3> QED BY <3>4, <3>5
  <2> QED BY <2>1, <2>2
<1>7. \A f \in Endpoint : senders'[f] # None => st'[senders'[f]] # "unused" /\ owner'[senders'[f]] = f
  BY <1>6 DEF Live
<1> QED BY <1>3, <1>5, <1>6, <1>7 DEF MapInv

\* Where the socket actor goes after an arm, and where nobody sends.
LEMMA AfterArmPlace ==
  /\ AfterArm.pc \in {"select", "exit"}
  /\ At("gone").pc = "gone"
  /\ At("idle").pc = "idle"
  /\ \A t, pc : Moved(t, pc).pc = pc /\ Moved(t, pc).to = t.to /\ Moved(t, pc).for = t.for
  /\ \A a, e, m : Sending(a, e, m).to = a /\ Sending(a, e, m).for = e /\ Sending(a, e, m).pc = "send"
  BY DEF AfterArm, At, Moved, Sending

\* Every step keeps the map and the tasks in step.
LEMMA MapStep ==
  ASSUME TypeOK, TypeOK', MapInv, [Next]_vars
  PROVE  MapInv'
<1>0. /\ Targets(sock) /\ \A r \in Reader : Targets(reader[r])
      /\ sock.pc \in {"send", "permit", "join"} => sock.for \in Endpoint
  BY DEF MapInv
<1>1. ASSUME NEW e \in Endpoint, NEW k \in SocketKind \cap Kinds, SendToActor(e, k)
      PROVE  MapInv'
  <2>1. sock.pc = "select" /\ UNCHANGED <<initial, inbox, reader>>
    BY <1>1 DEF SendToActor
  <2>2. CASE senders[e] # None
    <3>1. sock' = Sending(senders[e], e, Fresh(k)) /\ UNCHANGED <<senders, st, owner>>
      BY <1>1, <2>2 DEF SendToActor
    <3>2. senders[e] \in Actor /\ Live(senders[e]) /\ owner[senders[e]] = e
      BY <2>1, <2>2 DEF MapInv, TypeOK
    <3>3. Targets(sock)' /\ sock'.for \in Endpoint /\ sock'.pc = "send"
      BY <3>1, <3>2, AfterArmPlace DEF Targets, Live
    <3>4. \A r \in Reader : Targets(reader[r])'
      BY <1>0, <2>1, <3>1 DEF Targets
    <3> QED BY <2>1, <3>1, <3>3, <3>4, MapSame
  <2>3. CASE senders[e] = None
    <3>1. PICK a \in Actor : /\ st[a] = "unused"
                             /\ st' = [st EXCEPT ![a] = "run"]
                             /\ owner' = [owner EXCEPT ![a] = e]
                             /\ senders' = [senders EXCEPT ![e] = a]
                             /\ sock' = Sending(a, e, Fresh(k))
      BY <1>1, <2>3 DEF SendToActor
    <3>2. Targets(sock)' /\ sock'.for \in Endpoint /\ sock'.pc = "send"
      BY <3>1, AfterArmPlace DEF Targets, TypeOK
    <3>3. \A r \in Reader : Targets(reader[r])'
      BY <1>0, <2>1, <3>1 DEF Targets, TypeOK
    <3>4. \A x \in Actor : st'[x] = "unused" => initial'[x] = <<>> /\ inbox'[x] = <<>>
      BY <2>1, <3>1 DEF MapInv, TypeOK
    <3>5. ASSUME NEW x \in Actor, Live(x)'
          PROVE  owner'[x] \in Endpoint /\ senders'[owner'[x]] = x
      <4>1. CASE x = a
        BY <4>1, <3>1 DEF TypeOK
      <4>2. CASE x # a
        <5>1. Live(x) /\ owner'[x] = owner[x]
          BY <4>2, <3>5, <3>1 DEF Live, TypeOK
        <5>2. owner[x] \in Endpoint /\ senders[owner[x]] = x
          BY <5>1, <2>1 DEF MapInv
        <5>3. owner[x] # e
          BY <5>2, <2>3
        <5> QED BY <5>1, <5>2, <5>3, <3>1 DEF TypeOK
      <4> QED BY <4>1, <4>2
    <3>6. ASSUME NEW f \in Endpoint, senders'[f] # None
          PROVE  Live(senders[f])' /\ owner'[senders'[f]] = f
      <4>1. CASE f = e
        BY <4>1, <3>1 DEF Live, TypeOK
      <4>2. CASE f # e
        <5>1. senders'[f] = senders[f]
          BY <4>2, <3>1 DEF TypeOK
        <5>2. Live(senders[f]) /\ owner[senders[f]] = f /\ senders[f] \in Actor
          BY <5>1, <3>6, <2>1 DEF MapInv, TypeOK
        <5>3. senders[f] # a
          BY <5>2, <3>1 DEF Live
        <5> QED BY <5>1, <5>2, <5>3, <3>1 DEF Live, TypeOK
      <4> QED BY <4>1, <4>2
    <3>7. \A f \in Endpoint : senders'[f] # None => st'[senders'[f]] # "unused" /\ owner'[senders'[f]] = f
      BY <3>6 DEF Live
    <3> QED BY <3>2, <3>3, <3>4, <3>5, <3>6, <3>7 DEF MapInv
  <2> QED BY <2>2, <2>3
<1>2. CASE SocketSend \/ SocketPush \/ SocketSendFails
  <2>1. sock.pc \in {"send", "permit"} /\ UNCHANGED <<senders, st, owner, initial, reader>>
    BY <1>2 DEF SocketSend, SocketPush, SocketSendFails
  <2>2. sock' \in {AfterArm, Moved(sock, "permit"), Moved(sock, "join")}
    BY <1>2 DEF SocketSend, SocketPush, SocketSendFails
  <2>3. \/ inbox' = inbox
        \/ inbox' = [inbox EXCEPT ![sock.to] = Append(@, sock.msg)]
    BY <1>2 DEF SocketSend, SocketPush, SocketSendFails, Deliver
  <2>4. \A x \in Actor : st[x] = "unused" => inbox'[x] = inbox[x]
    BY <1>0, <2>1, <2>3 DEF Targets, TypeOK
  <2>5. sock'.pc # "gone" /\ Targets(sock)' /\ (sock'.pc \in {"send", "permit", "join"} => sock'.for \in Endpoint)
    BY <1>0, <2>1, <2>2, AfterArmPlace DEF Targets
  <2>6. \A r \in Reader : Targets(reader[r])'
    BY <1>0, <2>1 DEF Targets
  <2> QED BY <2>1, <2>4, <2>5, <2>6, MapSame
<1>3. ASSUME NEW a \in Actor, JoinAndRestart(a) \/ JoinOther(a) \/ Cleanup(a)
      PROVE  MapInv'
  <2>1. PICK msgs \in Seq(Message) : RemoveOrRestart(a, msgs)
    <3>1. inbox[a] \in Seq(Message) /\ Append(inbox[a], sock.msg) \in Seq(Message)
      BY DEF TypeOK, SockState
    <3> QED BY <1>3, <3>1 DEF JoinAndRestart, JoinOther, Cleanup
  <2>2. /\ st[a] = "terminated" /\ sock.pc # "gone" /\ UNCHANGED reader
        /\ sock' \in {sock, AfterArm}
    BY <1>3 DEF JoinAndRestart, JoinOther, Cleanup
  <2>3. sock'.pc # "gone" /\ (sock' = sock \/ sock'.pc \notin {"send", "permit", "join"})
    BY <2>2, AfterArmPlace
  <2> QED BY <2>1, <2>2, <2>3, MapRemoveOrRestart
<1>4. CASE OnNetworkChange
  <2>1. /\ sock.pc = "select" /\ sock' = AfterArm
        /\ UNCHANGED <<senders, st, owner, initial, reader>>
    BY <1>4 DEF OnNetworkChange
  <2>2. ASSUME NEW x \in Actor, st[x] = "unused" PROVE inbox'[x] = inbox[x]
    BY <1>4, <2>2 DEF OnNetworkChange, Open
  <2>3. sock'.pc \in {"select", "exit"} /\ Targets(sock)'
    BY <2>1, AfterArmPlace DEF Targets
  <2>4. \A r \in Reader : Targets(reader[r])'
    BY <1>0, <2>1 DEF Targets
  <2> QED BY <2>1, <2>2, <2>3, <2>4, MapSame
<1>5. CASE SocketExit
  <2>1. /\ sock' = At("gone") /\ st' = [a \in Actor |-> IF Live(a) THEN "joined" ELSE st[a]]
        /\ UNCHANGED <<senders, owner, initial, inbox, reader>>
    BY <1>5 DEF SocketExit
  <2>2. \A a \in Actor : /\ ~Live(a)'
                         /\ st'[a] = "unused" <=> st[a] = "unused"
    BY <2>1 DEF Live, TypeOK
  <2>3. \A r \in Reader : Targets(reader[r])'
    BY <1>0, <2>1, <2>2 DEF Targets
  <2>4. sock'.pc = "gone" /\ Targets(sock)'
    BY <2>1, AfterArmPlace DEF Targets
  <2>5. \A e \in Endpoint : senders'[e] # None => st'[senders'[e]] # "unused" /\ owner'[senders'[e]] = e
    BY <2>1, <2>2 DEF MapInv, TypeOK
  <2> QED BY <2>1, <2>2, <2>3, <2>4, <2>5 DEF MapInv
<1>6. ASSUME NEW r \in Reader, ReaderNext(r)
      PROVE  MapInv'
  <2>1. UNCHANGED <<senders, st, owner, initial, sock>>
    BY <1>6 DEF ReaderNext, ReaderGet, ReaderSend, ReaderPush, ReaderFails
  <2>2. CASE \E e \in Endpoint, k \in ReaderKind \cap Kinds : ReaderGet(r, e, k)
    <3>1. PICK e \in Endpoint, k \in ReaderKind \cap Kinds : ReaderGet(r, e, k)
      BY <2>2
    <3>2. /\ senders[e] # None /\ reader' = [reader EXCEPT ![r] = Sending(senders[e], e, Fresh(k))]
          /\ UNCHANGED inbox
      BY <3>1 DEF ReaderGet
    <3>3. senders[e] \in Actor /\ st[senders[e]] # "unused" /\ owner[senders[e]] = e
      BY <3>2 DEF MapInv, TypeOK
    <3>4. \A q \in Reader : Targets(reader[q])'
      BY <1>0, <2>1, <3>2, <3>3, AfterArmPlace DEF Targets, TypeOK
    <3>5. Targets(sock)'
      BY <1>0, <2>1 DEF Targets
    <3> QED BY <1>0, <2>1, <3>2, <3>4, <3>5, MapSame
  <2>3. CASE ReaderSend(r) \/ ReaderPush(r) \/ ReaderFails(r)
    <3>1. reader[r].pc \in {"send", "permit"}
      BY <2>3 DEF ReaderSend, ReaderPush, ReaderFails
    <3>2. \/ inbox' = inbox
          \/ inbox' = [inbox EXCEPT ![reader[r].to] = Append(@, reader[r].msg)]
      BY <2>3 DEF ReaderSend, ReaderPush, ReaderFails, Deliver
    <3>3. \A x \in Actor : st[x] = "unused" => inbox'[x] = inbox[x]
      BY <1>0, <3>1, <3>2 DEF Targets, TypeOK
    <3>4. \E t \in {At("idle"), Moved(reader[r], "permit")} : reader' = [reader EXCEPT ![r] = t]
      BY <2>3 DEF ReaderSend, ReaderPush, ReaderFails
    <3>5. \A q \in Reader : Targets(reader[q])'
      BY <1>0, <2>1, <3>1, <3>4, AfterArmPlace DEF Targets, TypeOK
    <3>6. Targets(sock)'
      BY <1>0, <2>1 DEF Targets
    <3> QED BY <1>0, <2>1, <3>3, <3>5, <3>6, MapSame
  <2> QED BY <1>6, <2>2, <2>3 DEF ReaderNext
<1>7. ASSUME NEW a \in Actor, ActorNext(a)
      PROVE  MapInv'
  <2>1. UNCHANGED <<senders, owner, sock, reader>>
    BY <1>7 DEF ActorNext, ActorInitial, ActorRecv, ActorConnectionClosed, ActorPathEvent, ActorLookup,
                ActorBreak, ActorClose, ActorDrain
  <2>2. /\ st[a] \in {"run", "breaking", "closed"}
        /\ \E x \in {"run", "breaking", "closed", "terminated"} : st' = [st EXCEPT ![a] = x]
    <3>1. CASE st[a] = "run" /\ UNCHANGED st
      BY <3>1 DEF TypeOK
    <3>2. CASE ActorBreak(a) \/ ActorClose(a) \/ ActorDrain(a)
      BY <3>2 DEF ActorBreak, ActorClose, ActorDrain
    <3> QED BY <1>7, <3>1, <3>2 DEF ActorNext, ActorInitial, ActorRecv, ActorConnectionClosed,
                                    ActorPathEvent, ActorLookup, InLoop
  <2>3. \A x \in Actor : /\ Live(x)' <=> Live(x)
                         /\ st'[x] = "unused" <=> st[x] = "unused"
    BY <2>2 DEF Live, TypeOK
  <2>4. \A x \in Actor : st[x] = "unused" => initial'[x] = initial[x] /\ inbox'[x] = inbox[x]
    BY <1>7, <2>2 DEF ActorNext, ActorInitial, ActorRecv, ActorConnectionClosed, ActorPathEvent, ActorLookup,
                      ActorBreak, ActorClose, ActorDrain, TypeOK
  <2>5. Targets(sock)' /\ \A r \in Reader : Targets(reader[r])'
    BY <1>0, <2>1, <2>3 DEF Targets
  <2>6. \A e \in Endpoint : senders[e] # None =>
          (Live(senders[e])' <=> Live(senders[e])) /\ (st'[senders[e]] = "unused" <=> st[senders[e]] = "unused")
    BY <2>1, <2>3 DEF TypeOK
  <2> QED BY <1>0, <2>1, <2>3, <2>4, <2>5, <2>6 DEF MapInv
<1>8. CASE Cancel \/ UNCHANGED vars
  <2>1. UNCHANGED <<senders, st, owner, initial, inbox, sock, reader>>
    BY <1>8 DEF Cancel, vars
  <2>2. Targets(sock)' /\ \A r \in Reader : Targets(reader[r])'
    BY <1>0, <2>1 DEF Targets
  <2> QED BY <1>0, <2>1, <2>2, MapSame
<1> QED
  BY <1>1, <1>2, <1>3, <1>4, <1>5, <1>6, <1>7, <1>8 DEF Next, SocketNext

\* Types and the map, together.
LEMMA MapInvariant == Spec => [](TypeOK /\ MapInv)
<1>1. Init => MapInv
  BY DEF Init, MapInv, Live, Targets, At
<1>2. TypeOK /\ MapInv /\ [Next]_vars => (TypeOK /\ MapInv)'
  BY TypeStep, MapStep
<1>3. Init => TypeOK
  BY InitType
<1> QED BY <1>1, <1>2, <1>3, PTL DEF Spec

\* Whatever the runtime, the map lists exactly the actor tasks that have not been joined,
\* one per endpoint: no cleanup takes the sender of a newer actor out of the map.
THEOREM SendersAreTasksHolds == Spec => []SendersAreTasks
<1>1. TypeOK /\ MapInv => SendersAreTasks
  BY DEF TypeOK, MapInv, SendersAreTasks
<1> QED BY <1>1, MapInvariant, PTL

-----------------------------------------------------------------------------
(***************************************************************************)
(* The queues, when channel sends are atomic.                              *)
(***************************************************************************)
\* Nobody is between taking a slot and writing to it, and an actor that left its loop
\* has handled its initial messages.
QueueInv ==
  /\ sock.pc # "permit" /\ \A r \in Reader : reader[r].pc # "permit"
  /\ \A a \in Actor : st[a] \in {"breaking", "closed", "terminated"} => initial[a] = <<>>

LEMMA QueueInvStep ==
  ASSUME ~MultiThread, TypeOK, TypeOK', MapInv, QueueInv, [Next]_vars
  PROVE  QueueInv'
<1>1. ASSUME NEW e \in Endpoint, NEW k \in SocketKind \cap Kinds, SendToActor(e, k)
      PROVE  QueueInv'
  <2>1. sock'.pc = "send"
    BY <1>1, AfterArmPlace DEF SendToActor
  <2>2. \A a \in Actor : st'[a] = st[a] \/ st'[a] = "run"
    BY <1>1 DEF SendToActor, TypeOK
  <2> QED BY <1>1, <2>1, <2>2 DEF SendToActor, QueueInv
<1>2. CASE SocketSend \/ SocketPush \/ SocketSendFails \/ OnNetworkChange
  <2>1. sock'.pc # "permit"
    BY <1>2, AfterArmPlace DEF SocketSend, SocketPush, SocketSendFails, OnNetworkChange, QueueInv
  <2> QED BY <1>2, <2>1 DEF SocketSend, SocketPush, SocketSendFails, OnNetworkChange, QueueInv
<1>3. ASSUME NEW a \in Actor, NEW msgs, RemoveOrRestart(a, msgs), UNCHANGED reader,
             sock' \in {sock, AfterArm}
      PROVE  QueueInv'
  <2>1. sock'.pc # "permit"
    BY <1>3, AfterArmPlace DEF QueueInv
  <2>2. CASE msgs = <<>>
    BY <1>3, <2>1, <2>2 DEF RemoveOrRestart, QueueInv, TypeOK
  <2>3. CASE msgs # <<>>
    <3>1. PICK b \in Actor : /\ st' = [st EXCEPT ![a] = "joined", ![b] = "run"]
                             /\ initial' = [initial EXCEPT ![b] = msgs]
      BY <1>3, <2>3 DEF RemoveOrRestart
    <3> QED BY <1>3, <2>1, <3>1 DEF QueueInv, TypeOK
  <2> QED BY <2>2, <2>3
<1>4. ASSUME NEW a \in Actor, JoinAndRestart(a) \/ JoinOther(a) \/ Cleanup(a)
      PROVE  QueueInv'
  BY <1>3, <1>4 DEF JoinAndRestart, JoinOther, Cleanup
<1>5. CASE SocketExit
  BY <1>5, AfterArmPlace DEF SocketExit, QueueInv, Live
<1>6. ASSUME NEW r \in Reader, ReaderNext(r)
      PROVE  QueueInv'
  <2>1. \E t : t.pc # "permit" /\ reader' = [reader EXCEPT ![r] = t]
    <3>1. At("idle").pc # "permit" /\ \A a, e, m : Sending(a, e, m).pc # "permit"
      BY AfterArmPlace
    <3> QED BY <1>6, <3>1 DEF ReaderNext, ReaderGet, ReaderSend, ReaderPush, ReaderFails, QueueInv
  <2>2. \A q \in Reader : reader'[q].pc # "permit"
    BY <2>1 DEF QueueInv, TypeOK
  <2> QED BY <1>6, <2>2 DEF ReaderNext, ReaderGet, ReaderSend, ReaderPush, ReaderFails, QueueInv
<1>7. ASSUME NEW a \in Actor, ActorInitial(a) \/ ActorRecv(a)
      PROVE  QueueInv'
  BY <1>7 DEF ActorInitial, ActorRecv, QueueInv, TypeOK
<1>8. ASSUME NEW a \in Actor,
             \/ ActorConnectionClosed(a)
             \/ \E opened, chosen \in BOOLEAN : ActorPathEvent(a, opened, chosen)
             \/ \E found \in BOOLEAN : ActorLookup(a, found)
      PROVE  QueueInv'
  BY <1>8 DEF ActorConnectionClosed, ActorPathEvent, ActorLookup, QueueInv
<1>9. ASSUME NEW a \in Actor, ActorBreak(a) \/ ActorClose(a) \/ ActorDrain(a)
      PROVE  QueueInv'
  <2>1. CASE ActorBreak(a)
    BY <2>1 DEF ActorBreak, QueueInv, TypeOK
  <2>2. CASE ActorClose(a)
    BY <2>2 DEF ActorClose, QueueInv, TypeOK
  <2>3. CASE ActorDrain(a)
    BY <2>3 DEF ActorDrain, QueueInv, TypeOK
  <2> QED BY <1>9, <2>1, <2>2, <2>3
<1>10. CASE Cancel \/ UNCHANGED vars
  BY <1>10 DEF Cancel, vars, QueueInv
<1> QED
  BY <1>1, <1>2, <1>4, <1>5, <1>6, <1>7, <1>8, <1>9, <1>10 DEF Next, SocketNext, ActorNext

\* The four things a step can do to the queues.
Quiet == /\ UNCHANGED <<Queues, handled, accepted>>
         /\ sock'.pc = "gone" <=> sock.pc = "gone"

Took(S, m) ==
  /\ sock.pc # "gone" /\ sock'.pc # "gone"
  /\ Queues' = [e \in Endpoint |-> IF e \in S THEN Append(Queues[e], m) ELSE Queues[e]]
  /\ accepted' = [e \in Endpoint |-> IF e \in S THEN Append(accepted[e], m) ELSE accepted[e]]
  /\ UNCHANGED handled

Did(e) ==
  /\ sock.pc # "gone" /\ sock'.pc # "gone"
  /\ Queues[e] # <<>>
  /\ Queues' = [Queues EXCEPT ![e] = Tail(@)]
  /\ handled' = [handled EXCEPT ![e] = Append(@, Head(Queues[e]))]
  /\ UNCHANGED accepted

GaveUp == /\ sock.pc # "gone" /\ sock'.pc = "gone"
          /\ UNCHANGED <<handled, accepted>>

QueueStep ==
  \/ Quiet
  \/ \E S \in SUBSET Endpoint, m \in Message : Took(S, m)
  \/ \E e \in Endpoint : Did(e)
  \/ GaveUp

\* The queues, before and after a step, in terms of the actors' messages.
LEMMA QueuesAre ==
  /\ Queues = [e \in Endpoint |-> Queues[e]]
  /\ sock.pc # "gone" => \A e \in Endpoint :
       Queues[e] = IF senders[e] = None THEN <<>> ELSE initial[senders[e]] \o inbox[senders[e]]
  /\ sock.pc = "gone" => \A e \in Endpoint : Queues[e] = <<>>
  BY DEF Queues, InFlight

LEMMA QueuesWillBe ==
  /\ Queues' = [e \in Endpoint |-> Queues'[e]]
  /\ sock'.pc # "gone" => \A e \in Endpoint :
       Queues'[e] = IF senders'[e] = None THEN <<>> ELSE initial'[senders'[e]] \o inbox'[senders'[e]]
  /\ sock'.pc = "gone" => \A e \in Endpoint : Queues'[e] = <<>>
  BY DEF Queues, InFlight

\* What waits for an endpoint is a queue of messages.
LEMMA QueuesType ==
  ASSUME TypeOK
  PROVE  Queues \in [Endpoint -> Seq(Message)]
<1>1. ASSUME NEW e \in Endpoint PROVE Queues[e] \in Seq(Message)
  <2>1. CASE sock.pc = "gone" \/ senders[e] = None
    <3>1. Queues[e] = <<>>
      BY <2>1, QueuesAre
    <3> QED BY <3>1
  <2>2. CASE sock.pc # "gone" /\ senders[e] # None
    <3>1. senders[e] \in Actor
      BY <2>2 DEF TypeOK
    <3>2. initial[senders[e]] \in Seq(Message) /\ inbox[senders[e]] \in Seq(Message)
      BY <3>1 DEF TypeOK
    <3>3. initial[senders[e]] \o inbox[senders[e]] \in Seq(Message)
      BY <3>2, ConcatProperties
    <3> QED BY <2>2, <3>3, QueuesAre
  <2> QED BY <2>1, <2>2
<1> QED BY <1>1, QueuesAre

\* A step that touches neither the map, the messages nor the histories is quiet.
LEMMA QuietStep ==
  ASSUME UNCHANGED <<senders, initial, inbox, handled, accepted>>,
         sock'.pc = "gone" <=> sock.pc = "gone"
  PROVE  QueueStep
  BY DEF QueueStep, Quiet, Queues, InFlight

\* A message delivered to an actor that still receives goes to the end of its endpoint's queue.
LEMMA DeliverTakes ==
  ASSUME TypeOK, TypeOK', MapInv, NEW a \in Actor, NEW m \in Message, Open(a), Deliver(a, m),
         UNCHANGED <<senders, initial, handled>>, sock.pc # "gone", sock'.pc # "gone"
  PROVE  QueueStep
<1>1. Live(a) /\ st[a] \in {"run", "breaking", "closed"}
  BY DEF Open, Live
<1>2. PICK e \in Endpoint : owner[a] = e /\ senders[e] = a
  BY <1>1 DEF MapInv
<1>3. /\ accepted' = [accepted EXCEPT ![e] = Append(@, m)]
      /\ inbox' = [inbox EXCEPT ![a] = Append(@, m)]
  BY <1>1, <1>2 DEF Deliver
<1>4. \A f \in Endpoint \ {e} : senders[f] # a
  BY <1>1, <1>2 DEF MapInv, TypeOK
<1>5. /\ initial[a] \in Seq(Message) /\ inbox[a] \in Seq(Message)
      /\ inbox'[a] = Append(inbox[a], m) /\ \A b \in Actor \ {a} : inbox'[b] = inbox[b]
  BY <1>3 DEF TypeOK
<1>v. \A f \in Endpoint :
        Queues[f] = IF senders[f] = None THEN <<>> ELSE initial[senders[f]] \o inbox[senders[f]]
  <2>1. sock.pc # "gone"
    OBVIOUS
  <2> QED BY ONLY <2>1, QueuesAre
<1>w. \A f \in Endpoint :
        Queues'[f] = IF senders[f] = None THEN <<>> ELSE initial[senders[f]] \o inbox'[senders[f]]
  <2>1. senders' = senders /\ initial' = initial
    OBVIOUS
  <2>2. sock'.pc # "gone"
    OBVIOUS
  <2> QED BY ONLY <2>1, <2>2, QueuesWillBe
<1>6. initial[a] \o Append(inbox[a], m) = Append(initial[a] \o inbox[a], m)
  <2>1. \A s, t \in Seq(Message) : \A x \in Message : s \o Append(t, x) = Append(s \o t, x)
    BY AppendLast
  <2> QED BY <1>5, <2>1
<1>7. Queues'[e] = Append(Queues[e], m)
  <2>1. Queues[e] = initial[a] \o inbox[a]
    BY <1>2, QueuesAre
  <2>2. Queues'[e] = initial[a] \o Append(inbox[a], m)
    BY <1>2, <1>5, <1>w
  <2> QED BY <1>6, <2>1, <2>2
<1>8. ASSUME NEW f \in Endpoint \ {e} PROVE Queues'[f] = Queues[f]
  <2>1. senders[f] # None => inbox'[senders[f]] = inbox[senders[f]]
    BY <1>4, <1>5 DEF TypeOK
  <2> QED BY <2>1, <1>v, <1>w
<1>9. Queues' = [f \in Endpoint |-> IF f \in {e} THEN Append(Queues[f], m) ELSE Queues[f]]
  BY <1>7, <1>8, QueuesWillBe
<1>10. accepted' = [f \in Endpoint |-> IF f \in {e} THEN Append(accepted[f], m) ELSE accepted[f]]
  BY <1>3 DEF TypeOK
<1>11. Took({e}, m)
  BY <1>9, <1>10 DEF Took
<1> QED BY <1>11 DEF QueueStep

\* What the restart of an ended actor leaves: msgs for its endpoint, the rest as it was.
LEMMA RestartLeaves ==
  ASSUME TypeOK, TypeOK', MapInv, QueueInv, NEW a \in Actor, NEW msgs \in Seq(Message),
         st[a] = "terminated", RemoveOrRestart(a, msgs), sock.pc # "gone", sock'.pc # "gone"
  PROVE  \E e \in Endpoint : /\ e = owner[a]
                             /\ Queues[e] = inbox[a]
                             /\ Queues' = [Queues EXCEPT ![e] = msgs]
<1>1. PICK e \in Endpoint : owner[a] = e /\ senders[e] = a
  BY DEF MapInv, Live
<1>2. initial[a] = <<>> /\ inbox[a] \in Seq(Message) /\ a # None
  BY DEF QueueInv, TypeOK
<1>3. \A s \in Seq(Message) : s \o <<>> = s /\ <<>> \o s = s
  BY ConcatEmptySeq
<1>v. \A f \in Endpoint :
        Queues[f] = IF senders[f] = None THEN <<>> ELSE initial[senders[f]] \o inbox[senders[f]]
  <2>1. sock.pc # "gone"
    OBVIOUS
  <2> QED BY ONLY <2>1, QueuesAre
<1>w. \A f \in Endpoint :
        Queues'[f] = IF senders'[f] = None THEN <<>> ELSE initial'[senders'[f]] \o inbox'[senders'[f]]
  <2>1. sock'.pc # "gone"
    OBVIOUS
  <2> QED BY ONLY <2>1, QueuesWillBe
<1>4. Queues[e] = inbox[a]
  BY <1>1, <1>2, <1>3, <1>v
<1>5. Queues'[e] = msgs /\ \A f \in Endpoint \ {e} : Queues'[f] = Queues[f]
  <2>1. CASE msgs = <<>>
    <3>1. senders' = [senders EXCEPT ![e] = None] /\ initial' = initial /\ inbox' = [inbox EXCEPT ![a] = <<>>]
      BY <1>1, <2>1 DEF RemoveOrRestart
    <3>2. Queues'[e] = <<>>
      BY <3>1, <1>w DEF TypeOK
    <3>3. ASSUME NEW f \in Endpoint \ {e} PROVE Queues'[f] = Queues[f]
      <4>1. senders'[f] = senders[f] /\ senders[f] # a
        BY <1>1, <3>1 DEF TypeOK, MapInv
      <4>2. senders[f] # None => inbox'[senders[f]] = inbox[senders[f]]
        BY <3>1, <4>1 DEF TypeOK
      <4> QED BY <3>1, <4>1, <4>2, <1>v, <1>w
    <3> QED BY <2>1, <3>2, <3>3
  <2>2. CASE msgs # <<>>
    <3>1. PICK b \in Actor : /\ st[b] = "unused"
                             /\ initial' = [initial EXCEPT ![b] = msgs]
                             /\ senders' = [senders EXCEPT ![e] = b]
                             /\ inbox' = [inbox EXCEPT ![a] = <<>>]
      BY <1>1, <2>2 DEF RemoveOrRestart
    <3>2. b # a /\ inbox[b] = <<>> /\ b # None
      BY <3>1 DEF MapInv
    <3>3. senders'[e] = b /\ initial'[b] = msgs /\ inbox'[b] = <<>>
      BY <3>1, <3>2 DEF TypeOK
    <3>4. Queues'[e] = msgs
      BY <3>2, <3>3, <1>3, <1>w
    <3>5. ASSUME NEW f \in Endpoint \ {e} PROVE Queues'[f] = Queues[f]
      <4>1. senders'[f] = senders[f] /\ senders[f] # a
        BY <1>1, <3>1 DEF TypeOK, MapInv
      <4>2. senders[f] # None => senders[f] # b /\ senders[f] \in Actor
        BY <3>1 DEF MapInv, TypeOK
      <4>3. senders[f] # None => /\ inbox'[senders[f]] = inbox[senders[f]]
                                 /\ initial'[senders[f]] = initial[senders[f]]
        BY <3>1, <4>1, <4>2 DEF TypeOK
      <4> QED BY <4>1, <4>3, <1>v, <1>w
    <3> QED BY <3>4, <3>5
  <2> QED BY <2>1, <2>2
<1>6. Queues' = [Queues EXCEPT ![e] = msgs]
  BY <1>5, QueuesAre, QueuesWillBe
<1> QED BY <1>1, <1>4, <1>6

\* An actor that takes a message takes the oldest one of its endpoint.
LEMMA HandleDoes ==
  ASSUME TypeOK, TypeOK', MapInv, QueueInv, NEW a \in Actor, ActorInitial(a) \/ ActorRecv(a)
  PROVE  QueueStep
<1>1. st[a] = "run" /\ UNCHANGED <<senders, st, owner, sock, accepted>>
  BY DEF ActorInitial, ActorRecv, InLoop
<1>2. sock.pc # "gone" /\ sock'.pc # "gone" /\ a # None
  BY <1>1 DEF MapInv, Live
<1>3. PICK e \in Endpoint : owner[a] = e /\ senders[e] = a
  BY <1>1, <1>2 DEF MapInv, Live
<1>4. \A f \in Endpoint \ {e} : senders[f] # a
  BY <1>2, <1>3 DEF MapInv, TypeOK
<1>v. \A f \in Endpoint :
        Queues[f] = IF senders[f] = None THEN <<>> ELSE initial[senders[f]] \o inbox[senders[f]]
  BY ONLY <1>2, QueuesAre
<1>w. \A f \in Endpoint :
        Queues'[f] = IF senders[f] = None THEN <<>> ELSE initial'[senders[f]] \o inbox'[senders[f]]
  BY ONLY <1>1, <1>2, QueuesWillBe
<1>5. initial[a] \in Seq(Message) /\ inbox[a] \in Seq(Message)
  BY DEF TypeOK
<1>6. /\ Queues[e] # <<>> /\ Queues'[e] = Tail(Queues[e])
      /\ handled' = [handled EXCEPT ![e] = Append(@, Head(Queues[e]))]
      /\ \A b \in Actor \ {a} : initial'[b] = initial[b] /\ inbox'[b] = inbox[b]
  <2>1. CASE ActorInitial(a)
    <3>1. /\ initial[a] # <<>> /\ initial' = [initial EXCEPT ![a] = Tail(@)] /\ inbox' = inbox
          /\ handled' = [handled EXCEPT ![e] = Append(@, Head(initial[a]))]
      BY <2>1, <1>3 DEF ActorInitial
    <3>2. /\ initial[a] \o inbox[a] # <<>> /\ Head(initial[a] \o inbox[a]) = Head(initial[a])
          /\ Tail(initial[a] \o inbox[a]) = Tail(initial[a]) \o inbox[a]
      BY <1>5, <3>1, HeadOfConcat
    <3>3. /\ initial'[a] = Tail(initial[a])
          /\ \A b \in Actor \ {a} : initial'[b] = initial[b] /\ inbox'[b] = inbox[b]
      BY <3>1 DEF TypeOK
    <3>4. Queues[e] = initial[a] \o inbox[a] /\ Queues'[e] = Tail(initial[a]) \o inbox[a]
      BY <1>2, <1>3, <3>1, <3>3, <1>v, <1>w
    <3> QED BY <3>1, <3>2, <3>3, <3>4
  <2>2. CASE ActorRecv(a)
    <3>1. /\ inbox[a] # <<>> /\ inbox' = [inbox EXCEPT ![a] = Tail(@)] /\ initial' = initial
          /\ handled' = [handled EXCEPT ![e] = Append(@, Head(inbox[a]))] /\ initial[a] = <<>>
      BY <2>2, <1>3 DEF ActorRecv, InLoop
    <3>2. Tail(inbox[a]) \in Seq(Message)
      BY <1>5, <3>1, HeadTailProperties
    <3>3. initial[a] \o inbox[a] = inbox[a] /\ initial[a] \o Tail(inbox[a]) = Tail(inbox[a])
      <4>1. \A s \in Seq(Message) : <<>> \o s = s
        BY ConcatEmptySeq
      <4> QED BY <4>1, <3>1, <3>2, <1>5
    <3>4. /\ inbox'[a] = Tail(inbox[a])
          /\ \A b \in Actor \ {a} : initial'[b] = initial[b] /\ inbox'[b] = inbox[b]
      BY <3>1 DEF TypeOK
    <3>5. Queues[e] = inbox[a]
      BY <1>2, <1>3, <3>3, <1>v
    <3>6. Queues'[e] = initial'[a] \o inbox'[a]
      BY <1>2, <1>3, <1>w
    <3>7. Queues'[e] = Tail(inbox[a])
      BY <3>1, <3>3, <3>4, <3>6
    <3> QED BY <3>1, <3>4, <3>5, <3>7
  <2> QED BY <2>1, <2>2
<1>7. ASSUME NEW f \in Endpoint \ {e} PROVE Queues'[f] = Queues[f]
  <2>1. senders[f] # None => senders[f] \in Actor \ {a}
    BY <1>4 DEF TypeOK
  <2> QED BY <2>1, <1>6, <1>v, <1>w
<1>8. Queues' = [Queues EXCEPT ![e] = Tail(@)]
  BY <1>6, <1>7, QueuesAre, QueuesWillBe
<1>9. Did(e)
  BY <1>1, <1>2, <1>6, <1>8 DEF Did
<1> QED BY <1>9 DEF QueueStep

\* send_to_actor's lookup leaves the queues alone: an actor it starts has no messages yet.
LEMMA StartIsQuiet ==
  ASSUME TypeOK, TypeOK', MapInv, NEW e \in Endpoint, NEW k, SendToActor(e, k)
  PROVE  QueueStep
<1>1. sock.pc # "gone" /\ sock'.pc # "gone" /\ UNCHANGED <<initial, inbox, accepted, handled>>
  BY AfterArmPlace DEF SendToActor
<1>2. CASE UNCHANGED senders
  BY <1>1, <1>2, QuietStep
<1>3. CASE senders' # senders
  <2>1. PICK a \in Actor : st[a] = "unused" /\ senders' = [senders EXCEPT ![e] = a] /\ senders[e] = None
    BY <1>3 DEF SendToActor
  <2>2. senders'[e] = a /\ a # None /\ \A f \in Endpoint \ {e} : senders'[f] = senders[f]
    BY <2>1 DEF TypeOK
  <2>3. initial[a] = <<>> /\ inbox[a] = <<>>
    BY <2>1 DEF MapInv
  <2>v. \A f \in Endpoint :
          Queues[f] = IF senders[f] = None THEN <<>> ELSE initial[senders[f]] \o inbox[senders[f]]
    BY ONLY <1>1, QueuesAre
  <2>w. \A f \in Endpoint :
          Queues'[f] = IF senders'[f] = None THEN <<>> ELSE initial[senders'[f]] \o inbox[senders'[f]]
    BY ONLY <1>1, QueuesWillBe
  <2>4. Queues[e] = <<>>
    BY <2>1, <2>v
  <2>5. Queues'[e] = initial[a] \o inbox[a]
    BY <2>2, <2>w
  <2>6. <<>> \o <<>> = <<>>
    BY EmptySeq, ConcatEmptySeq
  <2>7. Queues'[e] = <<>>
    BY <2>3, <2>5, <2>6
  <2>8. \A f \in Endpoint \ {e} : Queues'[f] = Queues[f]
    BY <2>2, <2>v, <2>w
  <2>9. Queues' = Queues
    BY <2>4, <2>7, <2>8, QueuesAre, QueuesWillBe
  <2> QED BY <1>1, <2>9 DEF QueueStep, Quiet
<1> QED BY <1>2, <1>3

\* A network change goes to the end of the queues of the actors that take it.
LEMMA NetworkChangeTakes ==
  ASSUME TypeOK, TypeOK', MapInv, OnNetworkChange
  PROVE  QueueStep
<1> DEFINE takes(a) == Open(a) /\ HasRoom(a)
           S == {e \in Endpoint : senders[e] # None /\ takes(senders[e])}
           m == Fresh("NetworkChange")
<1>1. /\ sock.pc # "gone" /\ sock'.pc # "gone" /\ m \in Message
      /\ UNCHANGED <<senders, initial, handled>>
  BY AfterArmPlace, FreshType DEF OnNetworkChange
<1>2. accepted' = [e \in Endpoint |-> IF e \in S THEN Append(accepted[e], m) ELSE accepted[e]]
  BY DEF OnNetworkChange
<1>3. ASSUME NEW e \in Endpoint, senders[e] # None
      PROVE  inbox'[senders[e]] = IF takes(senders[e]) THEN Append(inbox[senders[e]], m)
                                  ELSE inbox[senders[e]]
  BY <1>3 DEF OnNetworkChange, TypeOK
<1> HIDE DEF m, takes
<1>v. \A f \in Endpoint :
        Queues[f] = IF senders[f] = None THEN <<>> ELSE initial[senders[f]] \o inbox[senders[f]]
  BY ONLY <1>1, QueuesAre
<1>w. \A f \in Endpoint :
        Queues'[f] = IF senders[f] = None THEN <<>> ELSE initial[senders[f]] \o inbox'[senders[f]]
  BY ONLY <1>1, QueuesWillBe
<1>4. ASSUME NEW e \in Endpoint
      PROVE  Queues'[e] = IF e \in S THEN Append(Queues[e], m) ELSE Queues[e]
  <2>1. CASE senders[e] = None
    BY <2>1, <1>v, <1>w
  <2>2. CASE senders[e] # None /\ ~takes(senders[e])
    BY <2>2, <1>3, <1>v, <1>w
  <2>3. CASE senders[e] # None /\ takes(senders[e])
    <3>1. PICK a \in Actor : a = senders[e] /\ a # None
      BY <2>3 DEF TypeOK
    <3>2. initial[a] \in Seq(Message) /\ inbox[a] \in Seq(Message)
      BY DEF TypeOK
    <3>3. inbox'[a] = Append(inbox[a], m)
      BY <1>3, <2>3, <3>1
    <3>4. \A s, t \in Seq(Message) : \A x \in Message : s \o Append(t, x) = Append(s \o t, x)
      BY AppendLast
    <3>5. initial[a] \o inbox'[a] = Append(initial[a] \o inbox[a], m)
      BY <1>1, <3>2, <3>3, <3>4
    <3>6. Queues[e] = initial[a] \o inbox[a] /\ Queues'[e] = initial[a] \o inbox'[a]
      BY <3>1, <1>v, <1>w
    <3> QED BY <2>3, <3>5, <3>6
  <2> QED BY <2>1, <2>2, <2>3
<1> HIDE DEF S
<1>5. Queues' = [e \in Endpoint |-> IF e \in S THEN Append(Queues[e], m) ELSE Queues[e]]
  BY <1>4, QueuesWillBe
<1>6. Took(S, m)
  BY <1>1, <1>2, <1>5 DEF Took
<1>7. S \in SUBSET Endpoint
  BY DEF S
<1> QED BY <1>1, <1>6, <1>7 DEF QueueStep

\* Joining an ended actor moves what it left over to its successor, followed by the
\* message whose send failed, if any.
LEMMA JoinTakes ==
  ASSUME TypeOK, TypeOK', MapInv, QueueInv, NEW a \in Actor,
         JoinAndRestart(a) \/ JoinOther(a) \/ Cleanup(a)
  PROVE  QueueStep
<1>1. /\ st[a] = "terminated" /\ sock.pc # "gone" /\ sock'.pc # "gone" /\ UNCHANGED handled
      /\ inbox[a] \in Seq(Message) /\ sock.msg \in Message
  BY AfterArmPlace DEF JoinAndRestart, JoinOther, Cleanup, TypeOK, SockState
<1>t. Queues \in [Endpoint -> Seq(Message)]
  BY QueuesType
<1>2. CASE JoinAndRestart(a)
  <2>1. Append(inbox[a], sock.msg) \in Seq(Message)
    BY <1>1
  <2>2. RemoveOrRestart(a, Append(inbox[a], sock.msg))
    BY <1>2 DEF JoinAndRestart
  <2>3. PICK e \in Endpoint : /\ e = owner[a] /\ Queues[e] = inbox[a]
                              /\ Queues' = [Queues EXCEPT ![e] = Append(inbox[a], sock.msg)]
    <3> DEFINE msgs == Append(inbox[a], sock.msg)
    <3>1. msgs \in Seq(Message) /\ RemoveOrRestart(a, msgs)
      BY <2>1, <2>2
    <3> HIDE DEF msgs
    <3>2. \E e \in Endpoint : e = owner[a] /\ Queues[e] = inbox[a] /\ Queues' = [Queues EXCEPT ![e] = msgs]
      BY <1>1, <3>1, RestartLeaves
    <3> QED BY <3>2 DEF msgs
  <2>4. accepted' = [accepted EXCEPT ![e] = Append(@, sock.msg)]
    BY <1>2, <2>3 DEF JoinAndRestart
  <2>5. accepted' = [f \in Endpoint |-> IF f \in {e} THEN Append(accepted[f], sock.msg) ELSE accepted[f]]
    BY <2>4 DEF TypeOK
  <2>6. Queues' = [f \in Endpoint |-> IF f \in {e} THEN Append(Queues[f], sock.msg) ELSE Queues[f]]
    BY <2>3, <1>t
  <2>7. Took({e}, sock.msg)
    BY <1>1, <2>5, <2>6 DEF Took
  <2> QED BY <1>1, <2>7 DEF QueueStep
<1>3. CASE JoinOther(a) \/ Cleanup(a)
  <2>1. RemoveOrRestart(a, inbox[a]) /\ UNCHANGED accepted
    BY <1>3 DEF JoinOther, Cleanup
  <2>2. PICK e \in Endpoint : Queues[e] = inbox[a] /\ Queues' = [Queues EXCEPT ![e] = inbox[a]]
    BY <1>1, <2>1, RestartLeaves
  <2>3. Queues' = Queues
    BY <2>2, <1>t
  <2> QED BY <1>1, <2>1, <2>3 DEF QueueStep, Quiet
<1> QED BY <1>2, <1>3

\* Every step of the system does one of the four things to the queues.
LEMMA EveryQueueStep ==
  ASSUME ~MultiThread, TypeOK, TypeOK', MapInv, QueueInv, [Next]_vars
  PROVE  QueueStep
<1>1. ASSUME NEW e \in Endpoint, NEW k \in SocketKind \cap Kinds, SendToActor(e, k)
      PROVE  QueueStep
  BY <1>1, StartIsQuiet
<1>2. CASE SocketSend
  <2>1. /\ sock.to \in Actor /\ sock.msg \in Message
    BY <1>2 DEF SocketSend, MapInv, Targets, TypeOK, SockState
  <2>2. /\ Open(sock.to) /\ Deliver(sock.to, sock.msg) /\ UNCHANGED <<senders, initial, handled>>
        /\ sock.pc # "gone" /\ sock'.pc # "gone"
    BY <1>2, AfterArmPlace DEF SocketSend
  <2>3. PICK a \in Actor : a = sock.to
    BY <2>1
  <2> QED BY <2>1, <2>2, <2>3, DeliverTakes
<1>3. ASSUME NEW r \in Reader, ReaderSend(r)
      PROVE  QueueStep
  <2>1. /\ reader[r].to \in Actor /\ reader[r].msg \in Message
    BY <1>3 DEF ReaderSend, MapInv, Targets, TypeOK, ReaderState
  <2>2. PICK a \in Actor : a = reader[r].to
    BY <2>1
  <2>3. /\ Open(a) /\ Deliver(a, reader[r].msg) /\ UNCHANGED <<senders, initial, handled, sock>>
    BY <1>3, <2>2 DEF ReaderSend
  <2>4. sock.pc # "gone" /\ sock'.pc # "gone"
    BY <2>3 DEF MapInv, Open, Live
  <2> QED BY <2>1, <2>3, <2>4, DeliverTakes
<1>4. ~SocketPush /\ \A r \in Reader : ~ReaderPush(r)
  BY DEF SocketPush, ReaderPush, QueueInv
<1>5. CASE SocketSendFails
  BY <1>5, AfterArmPlace, QuietStep DEF SocketSendFails
<1>6. ASSUME NEW r \in Reader,
             ReaderFails(r) \/ \E e \in Endpoint, k \in ReaderKind \cap Kinds : ReaderGet(r, e, k)
      PROVE  QueueStep
  BY <1>6, QuietStep DEF ReaderFails, ReaderGet
<1>7. ASSUME NEW a \in Actor, JoinAndRestart(a) \/ JoinOther(a) \/ Cleanup(a)
      PROVE  QueueStep
  BY <1>7, JoinTakes
<1>8. CASE OnNetworkChange
  BY <1>8, NetworkChangeTakes
<1>9. CASE SocketExit
  BY <1>9, AfterArmPlace DEF SocketExit, QueueStep, GaveUp
<1>10. ASSUME NEW a \in Actor, ActorInitial(a) \/ ActorRecv(a)
       PROVE  QueueStep
  BY <1>10, HandleDoes
<1>11. ASSUME NEW a \in Actor,
              \/ ActorConnectionClosed(a) \/ ActorBreak(a) \/ ActorClose(a) \/ ActorDrain(a)
              \/ \E opened, chosen \in BOOLEAN : ActorPathEvent(a, opened, chosen)
              \/ \E found \in BOOLEAN : ActorLookup(a, found)
       PROVE  QueueStep
  BY <1>11, QuietStep
  DEF ActorConnectionClosed, ActorPathEvent, ActorBreak, ActorClose, ActorDrain, ActorLookup
<1>12. CASE Cancel \/ UNCHANGED vars
  BY <1>12, QuietStep DEF Cancel, vars
<1> QED
  BY <1>1, <1>2, <1>3, <1>4, <1>5, <1>6, <1>7, <1>8, <1>9, <1>10, <1>11, <1>12
  DEF Next, SocketNext, ReaderNext, ActorNext

\* What a step does to the queues keeps accepted = handled \o Queues.
LEMMA QueueStepKeeps ==
  ASSUME TypeOK, TypeOK', NothingLost, QueueStep
  PROVE  NothingLost'
<1>t. /\ Queues \in [Endpoint -> Seq(Message)]
      /\ handled \in [Endpoint -> Seq(Message)]
      /\ accepted \in [Endpoint -> Seq(Message)]
  BY QueuesType DEF TypeOK
<1>1. CASE Quiet
  BY <1>1 DEF Quiet, NothingLost
<1>2. ASSUME NEW S \in SUBSET Endpoint, NEW m \in Message, Took(S, m)
      PROVE  NothingLost'
  <2>1. SUFFICES ASSUME NEW e \in Endpoint PROVE accepted'[e] = handled'[e] \o Queues'[e]
    BY DEF NothingLost
  <2>2. accepted[e] = handled[e] \o Queues[e]
    BY <1>2 DEF Took, NothingLost
  <2>3. /\ accepted'[e] = IF e \in S THEN Append(accepted[e], m) ELSE accepted[e]
        /\ Queues'[e] = IF e \in S THEN Append(Queues[e], m) ELSE Queues[e]
        /\ handled' = handled
    BY <1>2 DEF Took
  <2>4. \A s, t \in Seq(Message) : \A x \in Message : s \o Append(t, x) = Append(s \o t, x)
    BY AppendLast
  <2>5. handled[e] \o Append(Queues[e], m) = Append(handled[e] \o Queues[e], m)
    BY <2>4, <1>t
  <2> QED BY <2>2, <2>3, <2>5
<1>3. ASSUME NEW e \in Endpoint, Did(e)
      PROVE  NothingLost'
  <2>1. SUFFICES ASSUME NEW f \in Endpoint PROVE accepted'[f] = handled'[f] \o Queues'[f]
    BY DEF NothingLost
  <2>2. accepted[f] = handled[f] \o Queues[f]
    BY <1>3 DEF Did, NothingLost
  <2>3. /\ Queues[e] # <<>>
        /\ accepted' = accepted
        /\ Queues'[f] = IF f = e THEN Tail(Queues[e]) ELSE Queues[f]
        /\ handled'[f] = IF f = e THEN Append(handled[e], Head(Queues[e])) ELSE handled[f]
    BY <1>3, <1>t DEF Did
  <2>4. \A s, t \in Seq(Message) : t # <<>> => Append(s, Head(t)) \o Tail(t) = s \o t
    BY MoveHead
  <2>5. Append(handled[e], Head(Queues[e])) \o Tail(Queues[e]) = handled[e] \o Queues[e]
    BY <2>3, <2>4, <1>t
  <2> QED BY <2>2, <2>3, <2>5
<1>4. CASE GaveUp
  BY <1>4 DEF GaveUp, NothingLost
<1> QED BY <1>1, <1>2, <1>3, <1>4 DEF QueueStep

\* Initially there is no queue and nothing to lose.
LEMMA InitQueues ==
  ASSUME Init
  PROVE  QueueInv /\ NothingLost /\ Abstract!Init
<1>1. sock.pc # "gone" /\ sock.pc # "permit" /\ \A r \in Reader : reader[r].pc # "permit"
  BY DEF Init, At
<1>2. /\ senders = [e \in Endpoint |-> None] /\ accepted = [e \in Endpoint |-> <<>>]
      /\ handled = [e \in Endpoint |-> <<>>] /\ \A a \in Actor : st[a] = "unused"
  BY DEF Init
<1>3. QueueInv
  BY <1>1, <1>2 DEF QueueInv
<1>4. \A e \in Endpoint : Queues[e] = <<>>
  BY <1>1, <1>2, QueuesAre
<1>5. Queues = [e \in Endpoint |-> <<>>]
  BY <1>4, QueuesAre
<1>6. <<>> \o <<>> = <<>>
  BY EmptySeq, ConcatEmptySeq
<1>7. NothingLost
  BY <1>2, <1>4, <1>6 DEF NothingLost
<1>8. Abstract!Init
  BY <1>1, <1>2, <1>5 DEF Abstract!Init
<1> QED BY <1>3, <1>7, <1>8

\* The invariant the queue theorems rest on.
LEMMA QueueInvariant ==
  ASSUME ~MultiThread
  PROVE  Spec => [](TypeOK /\ MapInv /\ QueueInv /\ NothingLost)
<1>1. TypeOK /\ TypeOK' /\ MapInv /\ QueueInv /\ NothingLost /\ [Next]_vars
        => QueueInv' /\ NothingLost'
  BY QueueInvStep, EveryQueueStep, QueueStepKeeps
<1>2. Init => QueueInv /\ NothingLost
  BY InitQueues
<1> QED BY <1>1, <1>2, MapInvariant, PTL DEF Spec

\* With atomic channel sends (the current-thread runtime) no accepted message is lost,
\* reordered or handled twice, however often the actors end and restart.
THEOREM NothingLostHolds ==
  ASSUME ~MultiThread
  PROVE  Spec => []NothingLost
  BY QueueInvariant, PTL

\* What a step does to the queues is a step of the ordered inbox.
LEMMA QueueStepMaps ==
  ASSUME TypeOK, QueueStep
  PROVE  [Abstract!Next]_(Abstract!vars)
<1>t. Queues \in [Endpoint -> Seq(Message)]
  BY QueuesType
<1>1. CASE Quiet
  BY <1>1 DEF Quiet, Abstract!vars
<1>2. ASSUME NEW S \in SUBSET Endpoint, NEW m \in Message, Took(S, m)
      PROVE  Abstract!Next
  BY <1>2 DEF Took, Abstract!Next, Abstract!Accept
<1>3. ASSUME NEW e \in Endpoint, Did(e)
      PROVE  Abstract!Next
  BY <1>3 DEF Did, Abstract!Next, Abstract!Handle
<1>4. CASE GaveUp
  <2>1. Queues' = [e \in Endpoint |-> <<>>]
    BY <1>4, QueuesWillBe DEF GaveUp
  <2> QED BY <1>4, <2>1 DEF GaveUp, Abstract!Next, Abstract!Shut
<1> QED BY <1>1, <1>2, <1>3, <1>4 DEF QueueStep

\* With atomic channel sends the remote map and its actors implement the ordered inbox.
THEOREM ImplementsInboxHolds ==
  ASSUME ~MultiThread
  PROVE  Spec => ImplementsInbox
<1>1. TypeOK /\ TypeOK' /\ MapInv /\ QueueInv /\ [Next]_vars
        => [Abstract!Next]_(Abstract!vars)
  BY EveryQueueStep, QueueStepMaps
<1>2. Init => Abstract!Init
  BY InitQueues
<1> QED BY <1>1, <1>2, QueueInvariant, PTL DEF Spec, ImplementsInbox, Abstract!Spec
-----------------------------------------------------------------------------
(***************************************************************************)
(* Resolve requests.                                                       *)
(***************************************************************************)
\* A selected path is a known one, so a request that finds no known path starts a lookup.
ResolveInv ==
  /\ \A a \in Actor : remote[a].selected => remote[a].known
  /\ WaitingIsLookedUp

\* Handling a message leaves no request waiting without a lookup.
LEMMA HandleKeepsResolve ==
  ASSUME TypeOK, ResolveInv, NEW a \in Actor, NEW m, st[a] = "run", HandleMessage(a, m),
         UNCHANGED <<st, cancelled>>
  PROVE  ResolveInv'
<1>1. PICK rec \in RemoteState :
        rec = remote[a] /\ (rec.selected => rec.known) /\ (rec.pending # {} => rec.lookup \/ cancelled)
  BY DEF TypeOK, ResolveInv, WaitingIsLookedUp
<1>2. \E new : /\ remote' = [remote EXCEPT ![a] = new]
               /\ new.selected => new.known
               /\ new.pending # {} => new.lookup \/ cancelled
  <2>1. ASSUME NEW addrs \in BOOLEAN, HandleResolve(a, m, addrs)
        PROVE  <1>2
    <3> DEFINE known == rec.known \/ addrs
               new == [conns |-> rec.conns, pending |-> IF known THEN {} ELSE rec.pending \cup {m.n},
                       known |-> known, selected |-> rec.selected,
                       lookup |-> rec.lookup \/ ~rec.selected]
    <3>1. remote' = [remote EXCEPT ![a] = new]
      BY <1>1, <2>1 DEF HandleResolve, TypeOK
    <3>2. (new.selected => new.known) /\ (new.pending # {} => new.lookup)
      BY <1>1
    <3> QED BY <3>1, <3>2
  <2>2. ASSUME NEW opened \in BOOLEAN, NEW chosen \in BOOLEAN, HandleAddConnection(a, m, opened, chosen)
        PROVE  <1>2
    <3> DEFINE new == AfterPaths(a, rec.conns + 1, opened, chosen)
    <3>1. remote' = [remote EXCEPT ![a] = new] /\ (chosen => rec.known \/ opened)
      BY <1>1, <2>2 DEF HandleAddConnection
    <3>2. (new.selected => new.known) /\ (new.pending # {} => new.lookup \/ cancelled)
      BY <1>1, <3>1 DEF AfterPaths
    <3> QED BY <3>1, <3>2
  <2>3. CASE UNCHANGED remote
    <3>1. remote' = [remote EXCEPT ![a] = rec]
      BY <1>1, <2>3 DEF TypeOK
    <3> QED BY <1>1, <3>1
  <2> QED BY <2>1, <2>2, <2>3 DEF HandleMessage
<1> QED BY <1>2 DEF ResolveInv, WaitingIsLookedUp, TypeOK

LEMMA ResolveStep ==
  ASSUME TypeOK, ResolveInv, [Next]_vars
  PROVE  ResolveInv'
<1>1. ASSUME NEW a \in Actor, ActorInitial(a) \/ ActorRecv(a)
      PROVE  ResolveInv'
  <2>1. st[a] = "run" /\ UNCHANGED <<st, cancelled>> /\ \E m : HandleMessage(a, m)
    BY <1>1 DEF ActorInitial, ActorRecv, InLoop
  <2> QED BY <2>1, HandleKeepsResolve
<1>2. ASSUME NEW a \in Actor,
             ActorConnectionClosed(a) \/ \E found \in BOOLEAN : ActorLookup(a, found)
      PROVE  ResolveInv'
  <2>1. CASE ActorConnectionClosed(a)
    <3> DEFINE new == [conns |-> remote[a].conns - 1, pending |-> remote[a].pending,
                       known |-> remote[a].known,
                       selected |-> remote[a].selected /\ remote[a].conns > 1,
                       lookup |-> remote[a].lookup]
    <3>1. remote' = [remote EXCEPT ![a] = new] /\ UNCHANGED <<st, cancelled>>
      BY <2>1 DEF ActorConnectionClosed, TypeOK
    <3>2. /\ new.selected => remote[a].selected /\ new.known = remote[a].known
          /\ new.pending = remote[a].pending /\ new.lookup = remote[a].lookup
      OBVIOUS
    <3> HIDE DEF new
    <3>3. new.selected => new.known
      BY <3>2 DEF ResolveInv
    <3> QED BY <3>1, <3>2, <3>3 DEF ResolveInv, WaitingIsLookedUp, TypeOK
  <2>2. ASSUME NEW found \in BOOLEAN, ActorLookup(a, found)
        PROVE  ResolveInv'
    <3> DEFINE new == [conns |-> remote[a].conns, pending |-> {}, known |-> remote[a].known \/ found,
                       selected |-> remote[a].selected, lookup |-> found]
    <3>1. remote' = [remote EXCEPT ![a] = new] /\ UNCHANGED <<st, cancelled>>
      BY <2>2 DEF ActorLookup, TypeOK
    <3>2. (new.selected => new.known) /\ new.pending = {}
      BY DEF ResolveInv
    <3> HIDE DEF new
    <3> QED BY <3>1, <3>2 DEF ResolveInv, WaitingIsLookedUp, TypeOK
  <2> QED BY <1>2, <2>1, <2>2
<1>10. ASSUME NEW a \in Actor, NEW opened \in BOOLEAN, NEW chosen \in BOOLEAN,
              ActorPathEvent(a, opened, chosen)
       PROVE  ResolveInv'
  <2> DEFINE new == AfterPaths(a, remote[a].conns, opened, chosen)
  <2>1. /\ remote' = [remote EXCEPT ![a] = new] /\ (chosen => remote[a].known \/ opened)
        /\ UNCHANGED <<st, cancelled>> /\ st[a] = "run"
    BY <1>10 DEF ActorPathEvent, InLoop
  <2>2. (remote[a].selected => remote[a].known) /\ (remote[a].pending # {} => remote[a].lookup \/ cancelled)
    BY <2>1 DEF ResolveInv, WaitingIsLookedUp
  <2>3. (new.selected => new.known) /\ (new.pending # {} => new.lookup \/ cancelled)
    BY <2>1, <2>2 DEF AfterPaths
  <2> HIDE DEF new
  <2> QED BY <2>1, <2>3 DEF ResolveInv, WaitingIsLookedUp, TypeOK
<1>3. ASSUME NEW a \in Actor, ActorBreak(a) \/ ActorClose(a)
      PROVE  ResolveInv'
  BY <1>3 DEF ActorBreak, ActorClose, IsIdle, ResolveInv, WaitingIsLookedUp, TypeOK
<1>4. ASSUME NEW a \in Actor, ActorDrain(a)
      PROVE  ResolveInv'
  <2>1. NewRemote.pending = {} /\ ~NewRemote.selected
    BY DEF NewRemote
  <2> QED BY <1>4, <2>1 DEF ActorDrain, ResolveInv, WaitingIsLookedUp, TypeOK
<1>5. ASSUME NEW a \in Actor, JoinAndRestart(a) \/ JoinOther(a) \/ Cleanup(a)
      PROVE  ResolveInv'
  <2>1. st[a] = "terminated" /\ UNCHANGED <<remote, cancelled>> /\ \E msgs : RemoveOrRestart(a, msgs)
    BY <1>5 DEF JoinAndRestart, JoinOther, Cleanup
  <2>2. \A b \in Actor \ {a} : st'[b] = st[b] \/ (st'[b] = "run" /\ st[b] = "unused")
    <3>1. CASE st' = [st EXCEPT ![a] = "joined"]
      BY <3>1 DEF TypeOK
    <3>2. CASE \E b \in Actor : st[b] = "unused" /\ st' = [st EXCEPT ![a] = "joined", ![b] = "run"]
      BY <3>2 DEF TypeOK
    <3> QED BY <2>1, <3>1, <3>2 DEF RemoveOrRestart
  <2> QED BY <2>1, <2>2 DEF ResolveInv, WaitingIsLookedUp
<1>6. ASSUME NEW e \in Endpoint, NEW k \in SocketKind \cap Kinds, SendToActor(e, k)
      PROVE  ResolveInv'
  <2>1. UNCHANGED <<remote, cancelled>> /\ \A a \in Actor : st'[a] = st[a] \/ st'[a] = "run"
    BY <1>6 DEF SendToActor, TypeOK
  <2>2. \A a \in Actor : st[a] = "run" => st'[a] = "run"
    BY <2>1
  <2> QED BY <2>1, <2>2 DEF ResolveInv, WaitingIsLookedUp
<1>7. CASE SocketExit \/ Cancel
  BY <1>7 DEF SocketExit, Cancel, ResolveInv, WaitingIsLookedUp
<1>8. CASE SocketSend \/ SocketPush \/ SocketSendFails \/ OnNetworkChange \/ UNCHANGED vars
  BY <1>8 DEF SocketSend, SocketPush, SocketSendFails, OnNetworkChange, vars, ResolveInv,
              WaitingIsLookedUp
<1>9. ASSUME NEW r \in Reader, ReaderNext(r)
      PROVE  ResolveInv'
  BY <1>9 DEF ReaderNext, ReaderGet, ReaderSend, ReaderPush, ReaderFails, ResolveInv, WaitingIsLookedUp
<1> QED
  BY <1>1, <1>2, <1>3, <1>4, <1>5, <1>6, <1>7, <1>8, <1>9, <1>10 DEF Next, SocketNext, ActorNext

\* A waiting resolve request always has an address lookup under way that will answer it,
\* and no actor ends with a request waiting, except on shutdown.
THEOREM WaitingIsLookedUpHolds == Spec => []WaitingIsLookedUp
<1>1. Init => ResolveInv
  BY DEF Init, ResolveInv, WaitingIsLookedUp, NewRemote
<1>2. TypeOK /\ ResolveInv /\ [Next]_vars => ResolveInv'
  BY ResolveStep
<1>3. ResolveInv => WaitingIsLookedUp
  BY DEF ResolveInv
<1> QED BY <1>1, <1>2, <1>3, TypeCorrect, PTL DEF Spec
=============================================================================
