------------------------------ MODULE NetReport ------------------------------
(***************************************************************************)
(* The net report client of an endpoint (net_report.rs, reportgen.rs,      *)
(* probes.rs, report.rs): full and incremental reports, the probes of a    *)
(* report, the QAD connections kept between reports, and the choice of the *)
(* preferred relay from the recent reports.                                *)
(*                                                                         *)
(* Latencies are a function of the probes that answered.  A past report is *)
(* kept as the best latency of each relay.  The public addresses that QAD  *)
(* finds are left out.  Optional values are sets of at most one element.   *)
(***************************************************************************)
EXTENDS Integers, Sequences, FiniteSets, FiniteSetsExt

CONSTANTS
  ProbedRelay, \* the relay map
  QadRelay,    \* its first MAX_RELAYS relays; none without a QUIC client
  HttpsProbes, \* HTTPS is one of the enabled protocols
  Family,      \* address families with QAD, in the code {"v4", "v6"}
  Latency,     \* latencies, zero when noq has no round-trip time of the path
  Attempts,    \* HTTPS probes of a relay, 3 in the code
  MaxHistory   \* bound: reports younger than MAX_AGE

ASSUME NetReportAssumption ==
  /\ QadRelay \subseteq ProbedRelay /\ HttpsProbes \in BOOLEAN
  /\ Family \subseteq {"v4", "v6"} /\ Latency \subseteq Nat
  /\ Attempts \in Nat \ {0} /\ MaxHistory \in Nat \ {0}

VARIABLES
  nextFull,   \* Reports::next_full
  lastReport, \* Reports::last
  history,    \* Reports::prev, oldest first
  gen,        \* the report under way
  qad,        \* its QAD probes that have not been joined
  https,      \* its HTTPS probes that have not been received, of each relay
  kept,       \* QadConns, of each family
  blank       \* history: the last report that was made has no latencies

netVars == <<nextFull, lastReport, history, gen, qad, https, kept, blank>>

NoProbes == [u \in ProbedRelay |-> 0]
NoGen == [pc |-> "idle", full |-> FALSE, have |-> {}, lat |-> <<>>, check |-> FALSE, portal |-> FALSE,
          asked |-> FALSE]

NetInit ==
  /\ nextFull = TRUE /\ lastReport = {} /\ history = <<>>
  /\ gen = NoGen /\ qad = {} /\ https = NoProbes
  /\ kept = [f \in Family |-> {}] /\ blank = FALSE

(***************************************************************************)
(* Latencies.                                                              *)
(***************************************************************************)
\* update_relay: the faster one is kept.
UpdateRelay(lat, key, d) ==
  [k \in DOMAIN lat \cup {key} |->
     IF k # key THEN lat[k] ELSE IF key \in DOMAIN lat THEN Min({lat[key], d}) ELSE d]

Alive(lat) == {k[2] : k \in DOMAIN lat}

\* RelayLatencies::get, of every relay that is there.
BestLatency(lat) == [u \in Alive(lat) |-> Min({lat[k] : k \in {x \in DOMAIN lat : x[2] = u}})]

\* merge, of the recent reports and the current one; of one relay.
BestRecent(past, lat, u) ==
  Min({BestLatency(lat)[u]} \cup {past[i][u] : i \in {j \in DOMAIN past : u \in DOMAIN past[j]}})

\* The latency of a relay that the iteration over a report meets last, or zero.
LastLatency(lat, u) ==
  IF <<"v6", u>> \in DOMAIN lat THEN lat[<<"v6", u>>]
  ELSE IF <<"v4", u>> \in DOMAIN lat THEN lat[<<"v4", u>>]
  ELSE IF <<"https", u>> \in DOMAIN lat THEN lat[<<"https", u>>] ELSE 0

Answers(lat, probe) == Cardinality({k \in DOMAIN lat : k[1] = probe})
UdpAnswers(lat) == {k \in DOMAIN lat : k[1] # "https"}

\* have_enough_reports.
HaveEnoughReports(lat) ==
  \/ /\ gen.have # {} /\ \A f \in gen.have : Answers(lat, f) >= 1
     /\ gen.full => Cardinality({k \in DOMAIN lat : k[1] \in gen.have}) > Cardinality(gen.have)
  \/ Answers(lat, "https") >= Cardinality(ProbedRelay)

(***************************************************************************)
(* add_report_history_and_set_preferred_relay.                             *)
(***************************************************************************)
\* The best of the relays that answered; ties are broken by the order of the maps, which is left open.
BestRelay(past, lat) ==
  {u \in Alive(lat) : \A v \in Alive(lat) : BestRecent(past, lat, u) <= BestRecent(past, lat, v)}

\* Mutant for PreferredIsGood: the old relay is kept without asking whether it answered.
SticksAlways(lat, old, best) == best > (LastLatency(lat, old) \div 3) * 2

\* The old relay is kept when it still answers and the new one is not much better.
Sticks(lat, old, best) ==
  LastLatency(lat, old) # 0 /\ best > (LastLatency(lat, old) \div 3) * 2

Preferred(lat) ==
  IF lat = <<>> THEN {{}}
  ELSE {IF \E old \in UNION {l.preferred : l \in lastReport} :
              old # u /\ Sticks(lat, old, BestRecent(history, lat, u))
          THEN UNION {l.preferred : l \in lastReport}
          ELSE {u} : u \in BestRelay(history, lat)}

\* The report is made, and its tasks end.
Finish(lat) ==
  /\ \E preferred \in Preferred(lat) :
       lastReport' = {[silent |-> lat = <<>>, preferred |-> preferred, trap |-> gen.portal /\ UdpAnswers(lat) = {}]}
  /\ history' = Append(history, BestLatency(lat))
  /\ blank' = (lat = <<>>)
  /\ gen' = NoGen /\ qad' = {} /\ https' = NoProbes

(***************************************************************************)
(* get_report.                                                             *)
(***************************************************************************)
\* Mutant for BlankIsChecked: no HTTPS probes after any report.
PlanNothing(last) == HttpsProbes /\ last = {}

\* ProbePlan: no HTTPS probes after a report with latencies.
Plans(last) == HttpsProbes /\ (last = {} \/ \E l \in last : l.silent)

\* current_v4 and current_v6: families whose kept connection has an observed address.
Current(conns) == {f \in Family : \E c \in conns[f] : c.seen}

\* spawn_qad_probes: the probes of the families without one.
SpawnQadProbes(have, conns) == (have \ Current(conns)) \X QadRelay

\* major, or the last full report is too old; or a captive portal without UDP.
StartReport(major, have) ==
  LET full == major \/ nextFull \/ \E l \in lastReport : l.trap
      last == IF full THEN {} ELSE lastReport
      conns == [f \in Family |-> IF full THEN {} ELSE kept[f]]
  IN /\ gen.pc = "idle" /\ Len(history) < MaxHistory
     /\ nextFull' = (nextFull /\ ~full) /\ lastReport' = last
     /\ \E rtt \in [Current(conns) -> Latency] :
          gen' = [pc |-> "qad", full |-> full, have |-> have, check |-> last = {}, portal |-> FALSE,
                  asked |-> Plans(last),
                  lat |-> [k \in {x \in Current(conns) \X ProbedRelay : \E c \in conns[x[1]] : c.url = x[2]} |-> rtt[k[1]]]]
     /\ qad' = SpawnQadProbes(have, conns)
     /\ https' = [u \in ProbedRelay |-> IF Plans(last) THEN Attempts ELSE 0]
     /\ kept' = conns
     /\ UNCHANGED <<history, blank>>

\* spawn_qad_probes: enough reports, and an answer or failure of every family.
QadEnough ==
  /\ Cardinality(UdpAnswers(gen.lat)) >= Min({Cardinality(ProbedRelay), 3})
  /\ \A f \in gen.have : ~({f} \X QadRelay \subseteq qad)

\* Mutant for PartsTypeOK: the connections of the later probes are kept too.
QadJoinedKeepsAll(f, u, d) ==
  /\ gen.pc = "qad" /\ <<f, u>> \in qad /\ ~QadEnough
  /\ qad' = qad \ {<<f, u>>}
  /\ gen' = [gen EXCEPT !.lat = UpdateRelay(@, <<f, u>>, d)]
  /\ kept' = [kept EXCEPT ![f] = @ \cup {[url |-> u, seen |-> FALSE, watched |-> TRUE, young |-> TRUE]}]
  /\ UNCHANGED <<nextFull, lastReport, history, https, blank>>

\* join_next: the first connection of a family is kept, and its observer's task runs.
QadJoined(f, u, d) ==
  /\ gen.pc = "qad" /\ <<f, u>> \in qad /\ ~QadEnough
  /\ qad' = qad \ {<<f, u>>}
  /\ gen' = [gen EXCEPT !.lat = UpdateRelay(@, <<f, u>>, d)]
  /\ kept' = IF kept[f] # {} THEN kept
             ELSE [kept EXCEPT ![f] = {[url |-> u, seen |-> FALSE, watched |-> TRUE, young |-> TRUE]}]
  /\ UNCHANGED <<nextFull, lastReport, history, https, blank>>

\* Of a probe that fails or takes longer than PROBES_TIMEOUT only the family's pending flag is cleared.
QadFailed(f, u) ==
  /\ gen.pc = "qad" /\ <<f, u>> \in qad /\ ~QadEnough
  /\ qad' = qad \ {<<f, u>>}
  /\ UNCHANGED <<nextFull, lastReport, history, gen, https, kept, blank>>

\* After QAD: the tokens that are cancelled early are also those of this report's observers.
QadEnds ==
  /\ gen.pc = "qad" /\ (qad = {} \/ QadEnough)
  /\ kept' = [f \in Family |->
                {[c EXCEPT !.watched = @ /\ (qad = {} \/ ~c.young), !.young = FALSE] : c \in kept[f]}]
  /\ IF HaveEnoughReports(gen.lat) THEN Finish(gen.lat)
     ELSE gen' = [gen EXCEPT !.pc = "probes"] /\ qad' = {} /\ UNCHANGED <<lastReport, history, https, blank>>
  /\ UNCHANGED nextFull

\* An HTTPS probe of reportgen.
ProbeFinished(u, d) ==
  /\ gen.pc = "probes" /\ https[u] > 0
  /\ LET lat == UpdateRelay(gen.lat, <<"https", u>>, d)
     IN IF HaveEnoughReports(lat) THEN Finish(lat)
        ELSE /\ gen' = [gen EXCEPT !.lat = lat] /\ https' = [https EXCEPT ![u] = @ - 1]
             /\ UNCHANGED <<lastReport, history, qad, blank>>
  /\ UNCHANGED <<nextFull, kept>>

ProbeFailed(u) ==
  /\ gen.pc = "probes" /\ https[u] > 0
  /\ https' = [https EXCEPT ![u] = @ - 1]
  /\ UNCHANGED <<nextFull, lastReport, history, gen, qad, kept, blank>>

\* The captive portal check, of a full report.
PortalChecked(found) ==
  /\ gen.pc = "probes" /\ gen.check
  /\ gen' = [gen EXCEPT !.check = FALSE, !.portal = found]
  /\ UNCHANGED <<nextFull, lastReport, history, qad, https, kept, blank>>

\* All tasks of reportgen are joined.
ReportgenEnds ==
  /\ gen.pc = "probes" /\ ~gen.check /\ https = NoProbes
  /\ Finish(gen.lat)
  /\ UNCHANGED <<nextFull, kept>>

\* OVERALL_REPORT_TIMEOUT.
ReportgenTimesOut ==
  /\ gen.pc = "probes" /\ (gen.check \/ https # NoProbes)
  /\ Finish(gen.lat)
  /\ UNCHANGED <<nextFull, kept>>

\* NET_REPORT_TIMEOUT of the socket's task, or its cancellation: the future of get_report is dropped.
ReportDropped ==
  /\ gen.pc # "idle"
  /\ gen' = NoGen /\ qad' = {} /\ https' = NoProbes
  /\ kept' = [f \in Family |-> {[c EXCEPT !.young = FALSE] : c \in kept[f]}]
  /\ UNCHANGED <<nextFull, lastReport, history, blank>>

(***************************************************************************)
(* The kept connections and the clock.                                     *)
(***************************************************************************)
\* The observer of a kept connection sees an address, which a report reads from its stream during the probes.
\* What no report reads comes between reports or, when the observer may be about to end, during QAD.
Observed(f, d) ==
  /\ \E c \in kept[f] :
       /\ c.watched /\ (gen.pc = "qad" => c.young)
       /\ kept' = [kept EXCEPT ![f] = {[c EXCEPT !.seen = TRUE]}]
       /\ gen' = IF gen.pc = "probes" THEN [gen EXCEPT !.lat = UpdateRelay(@, <<f, c.url>>, d)] ELSE gen
  /\ UNCHANGED <<nextFull, lastReport, history, qad, https, blank>>

\* close_reason: seen before the next report's probes.
KeptClosed(f) ==
  /\ gen.pc = "idle" /\ kept[f] # {}
  /\ kept' = [kept EXCEPT ![f] = {}]
  /\ UNCHANGED <<nextFull, lastReport, history, gen, qad, https, blank>>

\* The oldest report is older than MAX_AGE; nothing reads the history while a report is under way.
HistoryAges ==
  /\ gen.pc = "idle" /\ history # <<>>
  /\ history' = Tail(history)
  /\ UNCHANGED <<nextFull, lastReport, gen, qad, https, kept, blank>>

NetNext ==
  \/ \E major \in BOOLEAN, have \in SUBSET Family : StartReport(major, have)
  \/ \E f \in Family, d \in Latency : Observed(f, d) \/ \E u \in ProbedRelay : QadJoined(f, u, d)
  \/ \E f \in Family : KeptClosed(f) \/ \E u \in ProbedRelay : QadFailed(f, u)
  \/ \E u \in ProbedRelay : ProbeFailed(u) \/ \E d \in Latency : ProbeFinished(u, d)
  \/ \E found \in BOOLEAN : PortalChecked(found)
  \/ QadEnds \/ ReportgenEnds \/ ReportgenTimesOut \/ ReportDropped \/ HistoryAges

NetSpec == NetInit /\ [][NetNext]_netVars

Key == (Family \cup {"https"}) \X ProbedRelay
QadConn == [url : ProbedRelay, seen : BOOLEAN, watched : BOOLEAN, young : BOOLEAN]

NetTypeOK ==
  /\ nextFull \in BOOLEAN /\ blank \in BOOLEAN
  /\ Cardinality(lastReport) <= 1
  /\ \A l \in lastReport : l.silent \in BOOLEAN /\ l.preferred \subseteq ProbedRelay /\ l.trap \in BOOLEAN
  /\ Len(history) <= MaxHistory
  /\ \A i \in DOMAIN history :
       DOMAIN history[i] \subseteq ProbedRelay /\ \A u \in DOMAIN history[i] : history[i][u] \in Latency
  /\ gen.pc \in {"idle", "qad", "probes"}
  /\ DOMAIN gen.lat \subseteq Key /\ (\A k \in DOMAIN gen.lat : gen.lat[k] \in Latency) /\ gen.have \subseteq Family
  /\ {gen.full, gen.check, gen.portal, gen.asked} \subseteq BOOLEAN
  /\ qad \subseteq Family \X ProbedRelay /\ https \in [ProbedRelay -> 0..Attempts]
  /\ \A f \in Family : /\ Cardinality(kept[f]) <= 1
                       /\ kept[f] \subseteq QadConn

\* A report is made by this step.
Reports == gen.pc # "idle" /\ lastReport' # {} /\ gen'.pc = "idle" /\ history' # history

(***************************************************************************)
(* Whenever some relay answered, a relay that answered is preferred, and   *)
(* none of the others that answered was recently faster than two thirds of *)
(* its current latency unless it has the best recent latency itself        *)
(* (full, incremental and dropped reports in any order).                   *)
(***************************************************************************)
PreferredIsGood ==
  [][Reports =>
       LET now == history'[Len(history')]
           recent(u) == Min({history'[i][u] : i \in {j \in DOMAIN history' : u \in DOMAIN history'[j]}})
       IN \A l \in lastReport' :
            /\ Cardinality(l.preferred) = IF DOMAIN now = {} THEN 0 ELSE 1
            /\ \A u \in l.preferred :
                 /\ u \in DOMAIN now
                 /\ \A v \in DOMAIN now : recent(u) <= recent(v) \/ recent(v) > (now[u] \div 3) * 2]_netVars

(***************************************************************************)
(* Reports do not stay without latencies because QAD is blocked: of two in *)
(* a row without any, the second has asked every relay by HTTPS, if HTTPS  *)
(* probes are enabled (also when reports are dropped between the two).     *)
(* The socket keeps its home relay meanwhile.                              *)
(***************************************************************************)
BlankIsChecked ==
  [][(HttpsProbes /\ Reports /\ blank /\ blank') => gen.asked]_netVars

=============================================================================
