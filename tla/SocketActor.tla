----------------------------- MODULE SocketActor -----------------------------
(***************************************************************************)
(* The actor of an endpoint's socket (socket.rs): DirectAddrUpdateState,   *)
(* which runs one net report at a time, the direct addresses made from the *)
(* reports, and the notice of network changes to the QUIC stack.           *)
(*                                                                         *)
(* What the direct addresses are made of is kept as the set of sources     *)
(* that changed since they were last made.  Several messages of a kind are *)
(* handled like one.  Optional values are sets of at most one element.     *)
(*                                                                         *)
(* local_interfaces_watcher.get() also marks the interfaces' state as      *)
(* seen: updated() then returns only for a later one.                      *)
(***************************************************************************)
EXTENDS Naturals

CONSTANTS
  DoneCapacity,  \* capacity of run_done, 8 in the code
  MaxChanges     \* bound: changes of links, port mapping, relay map and configured addresses

ASSUME SocketAssumption ==
  DoneCapacity \in Nat \ {0} /\ MaxChanges \in Nat

VARIABLES
  unseen,    \* local_interfaces_watcher has a state that neither get() nor updated() has returned
  usable,    \* has_usable_network
  relayMapEmpty,
  actorMsgs, \* kinds of messages in the actor's channel
  portmapped, \* a change of the port mapping that the actor has not seen
  want,      \* DirectAddrUpdateState::want_update
  reporter,  \* net_reporter: "free", or the place of the task that holds it
  why,       \* the reason of that task
  done,      \* messages in run_done
  netReport, \* Socket::net_report: whether there is a report, and the reason
  changed,   \* the actor's watcher of it has a value to return
  stale,     \* sources that changed since the direct addresses were made
  pending,   \* call_notify_quic_network_change
  token,     \* "open", or "closing" once at_close_start is cancelled
  actorRuns, \* the loop of Actor::run
  changes    \* changes so far

VARIABLE
  quicBehind \* observed: the links changed after QUIC was last notified; no guard reads it

links == <<unseen, usable, quicBehind>>
environment == <<relayMapEmpty, actorMsgs, portmapped, changes>>
reports == <<reporter, why, netReport, changed>>
socketVars == <<links, environment, want, reports, done, stale, pending, token, actorRuns>>

Reason == {"None", "Periodic", "PortmapUpdated", "LinkChangeMajor", "LinkChangeMinor", "RelayMapChange"}
Source == {"links", "portmap", "configured"}

SocketInit ==
  /\ unseen = FALSE /\ usable \in BOOLEAN /\ quicBehind = FALSE
  /\ relayMapEmpty \in BOOLEAN /\ actorMsgs = {} /\ portmapped = FALSE /\ changes = 0
  /\ want = {} /\ reporter = "free" /\ why = "None" /\ done = 0
  /\ netReport = [some |-> FALSE, why |-> "None"] /\ changed = FALSE
  /\ stale = {} /\ pending = {}
  /\ token = "open" /\ actorRuns = TRUE

(***************************************************************************)
(* DirectAddrUpdateState.                                                  *)
(***************************************************************************)
\* Mutant for DirectAddrsCatchUp: the contents of two reports are not compared.
SetReportByReason(some, reason, differs) ==
  LET value == [some |-> some, why |-> reason]
  IN /\ netReport' = value
     /\ changed' = (changed \/ value # netReport)

\* Watchable::set notifies the watchers of a different value only; differs: of the contents of two reports.
SetNetReport(some, reason, differs) ==
  LET value == [some |-> some, why |-> reason]
  IN /\ netReport' = value
     /\ changed' = (changed \/ differs \/ value # netReport)

\* try_lock_owned.
Free == reporter = "free"

\* run: nothing when closing, an empty report without relays, else a task with the reporter.
Run(reason) ==
  \/ token # "open" /\ UNCHANGED reports
  \/ /\ token = "open" /\ relayMapEmpty
     /\ SetNetReport(FALSE, reason, FALSE)
     /\ UNCHANGED <<reporter, why>>
  \/ /\ token = "open" /\ ~relayMapEmpty
     /\ reporter' = "reporting" /\ why' = reason
     /\ UNCHANGED <<netReport, changed>>

ScheduleRun(reason) ==
  \/ Free /\ Run(reason) /\ UNCHANGED want
  \/ ~Free /\ want' = {reason} /\ UNCHANGED reports

\* try_run.
TryRun ==
  \/ Free /\ want # {} /\ (\E reason \in want : Run(reason)) /\ want' = {}
  \/ (~Free \/ want = {}) /\ UNCHANGED <<want, reports>>

\* The task's get_report returns, or takes longer than NET_REPORT_TIMEOUT.
Reported(differs) ==
  /\ reporter = "reporting" /\ token = "open"
  /\ SetNetReport(TRUE, why, differs)
  /\ reporter' = "finished"
  /\ UNCHANGED <<links, environment, want, why, done, stale, pending, token, actorRuns>>

ReportEnds ==
  /\ reporter = "reporting"
  /\ reporter' = "finished"
  /\ UNCHANGED <<links, environment, want, why, done, netReport, changed, stale, pending, token, actorRuns>>

\* The task's run_done.send, which waits for room as long as there is a receiver.
SendDone ==
  /\ reporter = "finished" /\ (done < DoneCapacity \/ ~actorRuns)
  /\ reporter' = "sent" /\ done' = IF actorRuns THEN done + 1 ELSE done
  /\ UNCHANGED <<links, environment, want, why, netReport, changed, stale, pending, token, actorRuns>>

\* The task ends and releases the reporter.
Release ==
  /\ reporter = "sent"
  /\ reporter' = "free" /\ why' = "None"
  /\ UNCHANGED <<links, environment, want, done, netReport, changed, stale, pending, token, actorRuns>>

(***************************************************************************)
(* The branches of the actor's select.                                     *)
(***************************************************************************)
\* local_interfaces_watcher.get().
GetInterfaces == unseen' = FALSE /\ UNCHANGED <<usable, quicBehind>>

\* re_stun.
ReStun(reason) == GetInterfaces /\ ScheduleRun(reason)

ReStunTick ==
  /\ actorRuns
  /\ ReStun("Periodic")
  /\ UNCHANGED <<environment, done, stale, pending, token, actorRuns>>

PortmapChanged ==
  /\ actorRuns /\ portmapped
  /\ portmapped' = FALSE
  /\ ReStun("PortmapUpdated")
  /\ UNCHANGED <<relayMapEmpty, actorMsgs, changes, done, stale, pending, token, actorRuns>>

\* The message arm: RelayMapChange.
HandleRelayMapChange ==
  /\ actorRuns /\ "RelayMapChange" \in actorMsgs
  /\ actorMsgs' = actorMsgs \ {"RelayMapChange"}
  /\ ReStun("RelayMapChange")
  /\ UNCHANGED <<relayMapEmpty, portmapped, changes, done, stale, pending, token, actorRuns>>

\* update_direct_addresses: from all their sources, the interfaces by get().
UpdateDirectAddresses == GetInterfaces /\ stale' = {}

\* The message arm: DirectAddrRefresh makes the direct addresses from the last report.
HandleDirectAddrRefresh ==
  /\ actorRuns /\ "DirectAddrRefresh" \in actorMsgs
  /\ actorMsgs' = actorMsgs \ {"DirectAddrRefresh"}
  /\ UpdateDirectAddresses
  /\ UNCHANGED <<relayMapEmpty, portmapped, changes, want, reports, done, pending, token, actorRuns>>

\* handle_net_report_report.
HandleNetReportReport ==
  /\ actorRuns /\ changed
  /\ changed' = FALSE
  /\ UpdateDirectAddresses
  /\ UNCHANGED <<environment, want, reporter, why, done, netReport, pending, token, actorRuns>>

\* A run is done: the next one, if wanted.
DirectAddrDone ==
  /\ actorRuns /\ done > 0
  /\ done' = done - 1
  /\ GetInterfaces /\ TryRun
  /\ UNCHANGED <<environment, stale, pending, token, actorRuns>>

\* The more severe of a pending notice and a change.
IsMajor(notices, major) == major \/ \E p \in notices : p.major

\* notify_quic_network_change.
NotifyQuic == quicBehind' = FALSE /\ pending' = {}

\* handle_network_change's last part: QUIC is told now, or polled for a default route.
NotifyOrWait(major) ==
  \/ usable /\ NotifyQuic
  \/ /\ ~usable /\ UNCHANGED quicBehind
     /\ pending' = IF pending = {} THEN {[major |-> major, expired |-> FALSE]}
                   ELSE {[p EXCEPT !.major = IsMajor(pending, major)] : p \in pending}

\* handle_network_change, when updated() returns.  major: how the state differs from the last one
\* that updated() returned, which is up to the network.
HandleNetworkChange ==
  /\ actorRuns /\ unseen
  /\ unseen' = FALSE /\ UNCHANGED usable
  /\ \E major \in BOOLEAN :
       /\ ScheduleRun(IF major THEN "LinkChangeMajor" ELSE "LinkChangeMinor")
       /\ NotifyOrWait(major)
  /\ UNCHANGED <<environment, done, stale, token, actorRuns>>

\* Mutant for QuicIsTold: the wait has no end.
PollForNetwork ==
  /\ actorRuns /\ pending # {}
  /\ unseen' = FALSE /\ UNCHANGED usable
  /\ \/ usable /\ NotifyQuic
     \/ ~usable /\ UNCHANGED <<pending, quicBehind>>
  /\ UNCHANGED <<environment, want, reports, done, stale, token, actorRuns>>

\* The poll: QUIC is told when there is a network or the wait is over, else the timer is set again.
\* has_usable_network() gets the interfaces either way.
PollNotify ==
  /\ actorRuns /\ pending # {}
  /\ unseen' = FALSE /\ UNCHANGED usable
  /\ LET now == usable \/ \E p \in pending : p.expired IN
     \/ now /\ NotifyQuic
     \/ ~now /\ UNCHANGED <<pending, quicBehind>>
  /\ UNCHANGED <<environment, want, reports, done, stale, token, actorRuns>>

\* MAX_WAIT is over.
WaitExpires ==
  /\ pending # {}
  /\ pending' = {[p EXCEPT !.expired = TRUE] : p \in pending}
  /\ UNCHANGED <<links, environment, want, reports, done, stale, token, actorRuns>>

\* at_endpoint_closed is cancelled after at_close_start: the loop ends, and the receivers with it.
ActorEnds ==
  /\ actorRuns /\ token = "closing"
  /\ actorRuns' = FALSE /\ done' = 0 /\ actorMsgs' = {} /\ pending' = {}
  /\ UNCHANGED <<links, relayMapEmpty, portmapped, changes, want, reports, stale, token>>

CloseStarts ==
  /\ token = "open" /\ token' = "closing"
  /\ UNCHANGED <<links, environment, want, reports, done, stale, pending, actorRuns>>

(***************************************************************************)
(* The surroundings.                                                       *)
(***************************************************************************)
\* What happens to a closing endpoint is left out.
Change == token = "open" /\ changes < MaxChanges /\ changes' = changes + 1

\* netmon reports another state.
LinkChange ==
  /\ Change
  /\ unseen' = TRUE /\ usable' \in BOOLEAN /\ quicBehind' = TRUE
  /\ stale' = stale \cup {"links"}
  /\ UNCHANGED <<relayMapEmpty, actorMsgs, portmapped, want, reports, done, pending, token, actorRuns>>

\* The port mapper's external address changes.
PortmapChange ==
  /\ Change
  /\ portmapped' = TRUE /\ stale' = stale \cup {"portmap"}
  /\ UNCHANGED <<links, relayMapEmpty, actorMsgs, want, reports, done, pending, token, actorRuns>>

\* A message is sent after the change it is about; the caller may be dropped before it is.
Sends(msg) == actorMsgs' \in {actorMsgs, actorMsgs \cup (IF actorRuns THEN {msg} ELSE {})}

\* insert_relay and remove_relay.
ChangeRelayMap ==
  /\ Change
  /\ relayMapEmpty' \in BOOLEAN
  /\ Sends("RelayMapChange")
  /\ UNCHANGED <<links, portmapped, want, reports, done, stale, pending, token, actorRuns>>

\* add_external_addr and remove_external_addr.
ChangeConfigured ==
  /\ Change
  /\ stale' = stale \cup {"configured"}
  /\ Sends("DirectAddrRefresh")
  /\ UNCHANGED <<links, relayMapEmpty, portmapped, want, reports, done, pending, token, actorRuns>>

ActorBranch ==
  \/ ReStunTick \/ PortmapChanged \/ HandleRelayMapChange \/ HandleDirectAddrRefresh
  \/ HandleNetReportReport \/ DirectAddrDone \/ HandleNetworkChange \/ PollNotify \/ ActorEnds

ReportTask == (\E differs \in BOOLEAN : Reported(differs)) \/ ReportEnds \/ SendDone \/ Release

SocketActorNext ==
  \/ ActorBranch \/ ReportTask \/ WaitExpires \/ CloseStarts
  \/ LinkChange \/ PortmapChange \/ ChangeRelayMap \/ ChangeConfigured

\* Every branch of the select that stays ready is taken; not every report times out or equals the last.
SocketFairness ==
  /\ WF_socketVars(stale # {} /\ ReStunTick) /\ WF_socketVars(PortmapChanged)
  /\ WF_socketVars(HandleNetworkChange)
  /\ WF_socketVars(HandleNetReportReport) /\ WF_socketVars(DirectAddrDone)
  /\ WF_socketVars(PollNotify) /\ WF_socketVars(WaitExpires)
  /\ SF_socketVars(Reported(TRUE)) /\ WF_socketVars(ReportTask)

SocketSpec == SocketInit /\ [][SocketActorNext]_socketVars
FairSocketSpec == SocketSpec /\ SocketFairness

SocketTypeOK ==
  /\ {unseen, usable, quicBehind} \subseteq BOOLEAN /\ relayMapEmpty \in BOOLEAN
  /\ actorMsgs \subseteq {"RelayMapChange", "DirectAddrRefresh"} /\ portmapped \in BOOLEAN
  /\ want \subseteq Reason /\ (\A r, s \in want : r = s)
  /\ reporter \in {"free", "reporting", "finished", "sent"} /\ why \in Reason /\ done \in 0..DoneCapacity
  /\ netReport \in [some : BOOLEAN, why : Reason] /\ changed \in BOOLEAN
  /\ stale \subseteq Source
  /\ pending \subseteq [major : BOOLEAN, expired : BOOLEAN] /\ (\A p, q \in pending : p = q)
  /\ token \in {"open", "closing"} /\ actorRuns \in BOOLEAN
  /\ changes \in 0..MaxChanges

(***************************************************************************)
(* With a relay, once nothing changes any more, the direct addresses are   *)
(* made from the current interfaces and port mapping, or the socket is     *)
(* closed: although a report equal to the last one is not noticed, a       *)
(* wanted update may be replaced or left, and another branch may take the  *)
(* change of the interfaces.  (Without one, an empty report that is equal  *)
(* to the last one leaves them as they are.)                               *)
(***************************************************************************)
DirectAddrsCatchUp ==
  \A source \in {"links", "portmap"} :
    (source \in stale) ~> (source \notin stale \/ relayMapEmpty \/ token # "open")

(***************************************************************************)
(* Once handle_network_change waits for a default route, QUIC is notified  *)
(* of the links as they then are, even if no default route ever appears    *)
(* and changes keep coming (PendingNetworkChangeNotify::expired), or the   *)
(* socket is closed.                                                       *)
(***************************************************************************)
QuicIsTold == (pending # {}) ~> (~quicBehind \/ token # "open")

(***************************************************************************)
(* "Handles a change detected in the local network conditions.  This is    *)
(* triggered when the netmon actor detects a change in the local network   *)
(* interfaces, assigned IP addresses and routes" (handle_network_change):  *)
(* QUIC is notified of every link change, or the socket is closed.         *)
(***************************************************************************)
LinkChangeIsHandled == quicBehind ~> (~quicBehind \/ token # "open")

=============================================================================
