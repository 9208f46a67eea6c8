---------------------------- MODULE RemotePaths -----------------------------
(***************************************************************************)
(* The paths a RemoteStateActor knows for one remote endpoint              *)
(* (iroh/src/socket/remote_map/remote_state.rs and remote_state/           *)
(* path_state.rs): the set of addresses with their status, the open paths  *)
(* of each connection, the selected path, pruning, and the requests that   *)
(* wait for an address.                                                    *)
(*                                                                         *)
(* The QUIC stack noq is external: it opens and loses paths on its own,    *)
(* and the actor learns of it later, from an event.  What it knows, conn,  *)
(* may therefore differ from what is, live.  One actor step is one         *)
(* handler, with the select_path it ends with.                             *)
(***************************************************************************)
EXTENDS Integers, FiniteSets, FiniteSetsExt

CONSTANTS
  Tuple,       \* network paths (transports::FourTuple)
  Addr,        \* remote addresses (transports::Addr)
  RemoteOf,    \* the remote address of a network path
  Relay,       \* the addresses reached through a relay
  Conn,        \* connections to the remote, each used once
  Client,      \* the connections this endpoint dialled
  NoPath,      \* no selected path
  MaxNonRelay, \* MAX_NON_RELAY_PATHS, 30 in the code
  MaxInactive, \* MAX_INACTIVE_NON_RELAY_PATHS, 10 in the code
  MaxPending,  \* bound: requests waiting at a time
  MaxItem      \* bound: addresses in one request or lookup item

ASSUME RemoteAssumption == RemoteOf \in [Tuple -> Addr]
ASSUME SubsetAssumption == Relay \subseteq Addr /\ Client \subseteq Conn
ASSUME NonePathAssumption == NoPath \notin Tuple
ASSUME LimitAssumption == MaxNonRelay \in Nat \ {0} /\ MaxInactive \in Nat \ {0}
ASSUME PathBoundAssumption == MaxPending \in Nat /\ MaxItem \in Nat

VARIABLES
  status,    \* RemotePathState::paths: PathStatus of an address, or "absent"
  before,    \* of an inactive address: the addresses closed before it that are inactive too
  pending,   \* number of pending_resolve_requests
  conn,      \* RemoteStateActor::connections: life of a connection and its ConnectionState::paths
  selected,  \* State::selected_path
  lookup,    \* address_lookup_stream is Some
  live       \* external: the paths noq has open

pathVars == <<status, before, pending, conn, selected, lookup, live>>

NewConn == [st |-> "new", paths |-> {}]

\* In the map of connections; "dead" when noq has closed it and the actor does not know yet.
Listed(c) == conn[c].st \in {"open", "dead"}

IsIp(t) == RemoteOf[t] \notin Relay

Present(s) == {a \in Addr : s[a] # "absent"}

PathsInit ==
  /\ status = [a \in Addr |-> "absent"]
  /\ before = [a \in Addr |-> {}]
  /\ pending = 0
  /\ conn = [c \in Conn |-> NewConn]
  /\ selected = NoPath
  /\ lookup = FALSE
  /\ live = [c \in Conn |-> {}]

(***************************************************************************)
(* RemotePathState.                                                        *)
(***************************************************************************)
Primary(s) == Present(s) \ Relay
Inactive(s) == {a \in Primary(s) : s[a] = "inactive"}

\* Variant: untested addresses are pruned with the failed ones.
FailedOrUnknown(s) == {a \in Primary(s) : s[a] \in {"unusable", "unknown"}}

Failed(s) == {a \in Primary(s) : s[a] = "unusable"}

\* split_off(len - MAX_INACTIVE_NON_RELAY_PATHS) of the inactive paths, newest first:
\* what is split off, and pruned, are the MaxInactive that were closed first.
OldInactive(s, b) == {a \in Inactive(s) : Cardinality(b[a] \cap Inactive(s)) < MaxInactive}

\* prune_non_relay_paths: the sets it may remove (which ones of only failed paths is up to
\* the order of the hash map).
MustPrune(s, b) ==
  IF Cardinality(Primary(s)) < MaxNonRelay THEN {{}}
  ELSE IF Failed(s) = Present(s) THEN kSubset(Cardinality(Failed(s)) - MaxNonRelay, Failed(s))
  ELSE {Failed(s) \cup OldInactive(s, b)}

\* The set of paths after an insertion, pruned.
PrunePaths(s, b) ==
  \E gone \in MustPrune(s, b) :
    /\ status' = [a \in Addr |-> IF a \in gone THEN "absent" ELSE s[a]]
    /\ before' = [a \in Addr |-> IF a \in gone THEN {} ELSE b[a] \ gone]

\* Variant: requests are only answered by a path that opens.
InsertQuietly(S) ==
  LET s == [a \in Addr |-> IF a \in S /\ status[a] = "absent" THEN "unknown" ELSE status[a]] IN
  /\ PrunePaths(s, before)
  /\ pending' = pending

\* insert_multiple: waiting requests are answered if the set was empty and is no more.
InsertMultiple(S) ==
  LET s == [a \in Addr |-> IF a \in S /\ status[a] = "absent" THEN "unknown" ELSE status[a]] IN
  /\ PrunePaths(s, before)
  /\ pending' = IF Present(status) = {} /\ S # {} THEN 0 ELSE pending

\* insert_open_path
InsertOpenPath(a) ==
  /\ PrunePaths([status EXCEPT ![a] = "open"],
                [x \in Addr |-> IF x = a THEN {} ELSE before[x] \ {a}])
  /\ pending' = 0

\* abandoned_path: an address that was open becomes the most recently closed one.
AbandonedPath(a) ==
  LET inactive == {x \in Addr : status[x] = "inactive"} \ {a} IN
  \/ /\ status[a] \in {"open", "inactive"}
     /\ status' = [status EXCEPT ![a] = "inactive"]
     /\ before' = [x \in Addr |-> IF x = a THEN inactive ELSE before[x] \ {a}]
  \/ /\ status[a] \in {"unusable", "unknown"}
     /\ status' = [status EXCEPT ![a] = "unusable"]
     /\ UNCHANGED before
  \/ status[a] = "absent" /\ UNCHANGED <<status, before>>

(***************************************************************************)
(* Path selection.                                                         *)
(***************************************************************************)
\* PathSelectionContext::paths with readable stats; k are the connections, l the live paths.
\* A connection that closed counts as long as its handle can be upgraded.
Candidates(k, l) ==
  {UNION {k[c].paths \cap l[c] : c \in {d \in Conn : k[d].st \in sts}} :
     sts \in {{"open"}, {"open", "dead"}}}

\* BiasedRttPathSelector::select: the primary tier wins over the relays; within a tier the
\* round-trip times decide, which are not modelled.  Nothing to choose from: no change.
Best(cs) ==
  LET ip == {t \in cs : IsIp(t)} IN
  IF cs = {} THEN {selected} ELSE IF ip # {} THEN ip ELSE cs

Selections(k, l) == UNION {Best(cs) : cs \in Candidates(k, l)}

\* apply_selected_path on one connection: a client that knows of several IP paths closes
\* all of them but the selected one.
Redundant(k, l, c, sel) ==
  IF c \in Client /\ k[c].st = "open" /\ Cardinality({t \in k[c].paths : IsIp(t)}) > 1
  THEN {t \in k[c].paths \cap l[c] : IsIp(t) /\ t # sel} ELSE {}

\* What may stay open of the paths of c: noq refuses to close the last one.
Kept(k, l, c, sel) ==
  LET rest == l[c] \ Redundant(k, l, c, sel) IN
  IF rest # {} \/ l[c] = {} THEN {rest} ELSE {{t} : t \in l[c]}

\* select_path: selection, then apply_selected_path.
SelectPath(k, l) ==
  /\ conn' = k
  /\ selected' \in Selections(k, l)
  /\ IF selected' = NoPath THEN live' = l
     ELSE LET kept(c) == Kept(k, l, c, selected') IN
          live' \in {f \in [Conn -> UNION {kept(c) : c \in Conn}] : \A c \in Conn : f[c] \in kept(c)}

(***************************************************************************)
(* Handlers of the actor.                                                  *)
(***************************************************************************)
\* The addresses that come in one message or item.
Items == {S \in SUBSET Addr : Cardinality(S) <= MaxItem}

\* handle_msg_resolve_remote: insert_multiple, resolve_remote, trigger_address_lookup.
ResolveRemote(S) ==
  /\ pending < MaxPending
  /\ LET s == [a \in Addr |-> IF a \in S /\ status[a] = "absent" THEN "unknown" ELSE status[a]] IN
     PrunePaths(s, before)
  /\ pending' = (IF Present(status) = {} /\ S # {} THEN 0 ELSE pending)
                  + (IF Present(status') = {} THEN 1 ELSE 0)
  /\ lookup' = (lookup \/ selected = NoPath)
  /\ UNCHANGED <<conn, selected, live>>

\* handle_address_lookup_item with addresses.
LookupItem(S) ==
  /\ lookup
  /\ InsertMultiple(S)
  /\ UNCHANGED <<conn, selected, lookup, live>>

\* ... and the end of the stream: address_lookup_finished.
LookupFinished ==
  /\ lookup
  /\ lookup' = FALSE
  /\ pending' = 0
  /\ UNCHANGED <<status, before, conn, selected, live>>

\* handle_msg_add_connection, for a connection whose path 0 is t, or whose path 0 is gone: it goes
\* on over another path t, of which the event is under way, or it has closed.
AddConnection(c, t) ==
  /\ conn[c].st = "new"
  /\ \/ /\ InsertOpenPath(RemoteOf[t])
        /\ SelectPath([conn EXCEPT ![c] = [st |-> "open", paths |-> {t}]],
                      [live EXCEPT ![c] = {t}])
     \/ /\ SelectPath([conn EXCEPT ![c] = [st |-> "open", paths |-> {}]],
                      [live EXCEPT ![c] = {t}])
        /\ UNCHANGED <<status, before, pending>>
     \/ /\ SelectPath([conn EXCEPT ![c] = [st |-> "dead", paths |-> {}]], live)
        /\ UNCHANGED <<status, before, pending>>
  /\ UNCHANGED lookup

\* handle_path_event: Established, for a path noq still has.
Established(c, t) ==
  /\ Listed(c)
  /\ t \in live[c] \ conn[c].paths
  /\ InsertOpenPath(RemoteOf[t])
  /\ SelectPath([conn EXCEPT ![c] = [st |-> @.st, paths |-> @.paths \cup {t}]], live)
  /\ UNCHANGED lookup

\* Variant: no new path is selected when one is abandoned.
AbandonedNoSelect(c, t) ==
  LET k == [conn EXCEPT ![c] = [st |-> @.st, paths |-> @.paths \ {t}]] IN
  /\ Listed(c)
  /\ t \in conn[c].paths \ live[c]
  /\ IF \E u \in k[c].paths : RemoteOf[u] = RemoteOf[t]
     THEN UNCHANGED <<status, before>> ELSE AbandonedPath(RemoteOf[t])
  /\ conn' = k
  /\ UNCHANGED <<pending, selected, lookup, live>>

\* handle_path_event: Abandoned.  The address is abandoned unless this connection has
\* another path to it; the connection may be closed already, if its handle is still held.
Abandoned(c, t) ==
  LET k == [conn EXCEPT ![c] = [st |-> @.st, paths |-> @.paths \ {t}]] IN
  /\ Listed(c)
  /\ t \in conn[c].paths \ live[c]
  /\ IF \E u \in k[c].paths : RemoteOf[u] = RemoteOf[t]
     THEN UNCHANGED <<status, before>> ELSE AbandonedPath(RemoteOf[t])
  /\ SelectPath(k, live)
  /\ UNCHANGED <<pending, lookup>>

\* handle_connection_close; the last connection clears the selected path.
ConnectionClosed(c) ==
  /\ conn[c].st = "dead"
  /\ conn' = [conn EXCEPT ![c] = [st |-> "closed", paths |-> {}]]
  /\ selected' = IF \E d \in Conn \ {c} : Listed(d) THEN selected ELSE NoPath
  /\ live' = [live EXCEPT ![c] = {}]
  /\ UNCHANGED <<status, before, pending, lookup>>

(***************************************************************************)
(* External: noq.                                                          *)
(***************************************************************************)
\* A path is validated: dialled by the client, holepunched, or opened by the peer.  One that
\* was lost comes back, under a new id, once the actor has handled the event of the loss.
PathOpens(c, t) ==
  /\ conn[c].st = "open"
  /\ t \notin live[c] \cup conn[c].paths
  /\ live' = [live EXCEPT ![c] = @ \cup {t}]
  /\ UNCHANGED <<status, before, pending, conn, selected, lookup>>

\* A path is abandoned: idle timeout, or the peer closed it.  The last one takes the
\* connection with it.
PathLost(c, t) ==
  /\ conn[c].st = "open"
  /\ t \in live[c]
  /\ live[c] # {t}
  /\ live' = [live EXCEPT ![c] = @ \ {t}]
  /\ UNCHANGED <<status, before, pending, conn, selected, lookup>>

\* A connection closes.  Events of its paths that are under way may still reach the actor;
\* no more of them follow.
ConnectionLost(c) ==
  /\ conn[c].st = "open"
  /\ conn' = [conn EXCEPT ![c] = [st |-> "dead", paths |-> @.paths]]
  /\ UNCHANGED <<status, before, pending, selected, lookup, live>>

ActorStep ==
  \/ \E S \in Items : ResolveRemote(S) \/ LookupItem(S)
  \/ LookupFinished
  \/ \E c \in Conn, t \in Tuple : AddConnection(c, t) \/ Established(c, t) \/ Abandoned(c, t)
  \/ \E c \in Conn : ConnectionClosed(c)

NoqStep ==
  \E c \in Conn :
    \/ \E t \in Tuple : PathOpens(c, t) \/ PathLost(c, t)
    \/ ConnectionLost(c)

PathsNext == ActorStep \/ NoqStep

PathsSpec == PathsInit /\ [][PathsNext]_pathVars

(***************************************************************************)
(* Properties.                                                             *)
(***************************************************************************)
\* Types of the variables.
PathsTypeOK ==
  /\ status \in [Addr -> {"absent", "unknown", "open", "inactive", "unusable"}]
  /\ before \in [Addr -> SUBSET Addr]
  /\ pending \in 0..MaxPending
  /\ conn \in [Conn -> [st : {"new", "open", "dead", "closed"}, paths : SUBSET Tuple]]
  /\ selected \in Tuple \cup {NoPath}
  /\ lookup \in BOOLEAN
  /\ live \in [Conn -> SUBSET Tuple]

\* A resolve request waits only while no address at all is known (resolve_remote's "Sends
\* back on `tx` once a possible path to the remote is known"), whichever handler learns one.
WaitingMeansNoPaths == pending > 0 => Present(status) = {}

\* A selected path without a connection would keep address lookup from ever starting.
SelectedNeedsConnection == selected # NoPath => \E c \in Conn : Listed(c)

\* Once the events are handled the selected path is one some connection has, as long as no
\* connection has been closed ("**We expect this path to work.** If we become aware this
\* path is broken then it is set back to `None`").  The close of one connection among
\* several does not select again.
Settled == \A c \in Conn : conn[c].st # "new" => conn[c].st = "open" /\ conn[c].paths = live[c]
SelectedWorks == Settled /\ selected # NoPath => \E c \in Conn : selected \in live[c]

\* Pruning keeps the addresses that are open, untested or relays ("Keeps paths that are
\* open or of unknown status", "We currently only prune non-relay paths").
KeepsUseful ==
  [][\A a \in Addr : status[a] \in {"open", "unknown"} \/ (a \in Relay /\ status[a] # "absent")
        => status'[a] # "absent"]_pathVars

\* "Keeps [`MAX_INACTIVE_NON_RELAY_PATHS`] of the most recently closed paths".
KeepsRecentlyClosed ==
  [][\A a \in Inactive(status) :
        Cardinality({b \in Inactive(status) : a \in before[b]}) < MaxInactive
          => status'[a] # "absent"]_pathVars

=============================================================================
