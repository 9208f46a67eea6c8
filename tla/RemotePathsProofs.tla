------------------------- MODULE RemotePathsProofs --------------------------
(***************************************************************************)
(* Proofs about RemotePaths, for any set of paths, addresses and           *)
(* connections and any limits.  The first two invariants hold for          *)
(* any number of connections and are inductive together with the types:    *)
(* what can go wrong with several connections (see the violation runs)     *)
(* touches neither the waiting requests nor the last close.  The third,    *)
(* that the selected path works, needs what select_path leaves between two *)
(* events.                                                                 *)
(***************************************************************************)
EXTENDS RemotePaths, TLAPS

Statuses == {"absent", "unknown", "open", "inactive", "unusable"}

ConnStates == [st : {"new", "open", "dead", "closed"}, paths : SUBSET Tuple]

-----------------------------------------------------------------------------
\* Pruning only ever removes addresses: prune_non_relay_paths keeps the type of the path set
\* and adds nothing to it.
LEMMA PruneOnlyRemoves ==
  ASSUME NEW s \in [Addr -> Statuses], NEW b \in [Addr -> SUBSET Addr], PrunePaths(s, b)
  PROVE  /\ status' \in [Addr -> Statuses]
         /\ before' \in [Addr -> SUBSET Addr]
         /\ Present(status') \subseteq Present(s)
<1>1. PICK gone \in MustPrune(s, b) :
        /\ status' = [a \in Addr |-> IF a \in gone THEN "absent" ELSE s[a]]
        /\ before' = [a \in Addr |-> IF a \in gone THEN {} ELSE b[a] \ gone]
  BY DEF PrunePaths
<1>2. status' \in [Addr -> Statuses]
  BY <1>1 DEF Statuses
<1>3. before' \in [Addr -> SUBSET Addr]
  BY <1>1
<1>4. Present(status') \subseteq Present(s)
  BY <1>1 DEF Present
<1> QED BY <1>2, <1>3, <1>4

\* apply_selected_path closes paths but never the last one of a connection.
LEMMA KeptPaths ==
  ASSUME NEW k \in [Conn -> ConnStates], NEW l \in [Conn -> SUBSET Tuple], NEW c \in Conn,
         NEW sel, NEW ps \in Kept(k, l, c, sel)
  PROVE  ps \subseteq l[c] /\ (l[c] # {} => ps # {})
<1> DEFINE rest == l[c] \ Redundant(k, l, c, sel)
<1>1. CASE rest # {} \/ l[c] = {}
  BY <1>1 DEF Kept
<1>2. CASE ~ (rest # {} \/ l[c] = {})
  <2>1. PICK t \in l[c] : ps = {t} BY <1>2 DEF Kept
  <2> QED BY <2>1
<1> QED BY <1>1, <1>2

\* The paths that stay open after select_path are, of every connection, ones that may be kept.
LEMMA SelectKeeps ==
  ASSUME NEW k \in [Conn -> ConnStates], NEW l \in [Conn -> SUBSET Tuple], SelectPath(k, l)
  PROVE  /\ live' \in [Conn -> SUBSET Tuple]
         /\ \A c \in Conn : live'[c] \subseteq l[c] /\ (l[c] # {} => live'[c] # {})
<1>1. CASE selected' = NoPath BY <1>1 DEF SelectPath
<1>2. CASE selected' # NoPath
  <2> DEFINE kept(c) == Kept(k, l, c, selected')
             All == UNION {kept(c) : c \in Conn}
  <2>1. live' \in [Conn -> All] /\ \A c \in Conn : live'[c] \in kept(c)
    BY <1>2 DEF SelectPath
  <2>2. \A c \in Conn : live'[c] \subseteq l[c] /\ (l[c] # {} => live'[c] # {})
    BY <2>1, KeptPaths
  <2> HIDE DEF kept, All
  <2>3. live' \in [Conn -> SUBSET Tuple] BY <2>1, <2>2
  <2> QED BY <2>2, <2>3
<1> QED BY <1>1, <1>2

\* select_path keeps the types of connections, selected path and open paths, and changes
\* nothing else.
LEMMA SelectTypes ==
  ASSUME PathsTypeOK, NEW k \in [Conn -> ConnStates], NEW l \in [Conn -> SUBSET Tuple],
         SelectPath(k, l)
  PROVE  /\ conn' = k
         /\ selected' \in Tuple \cup {NoPath}
         /\ live' \in [Conn -> SUBSET Tuple]
<1>1. \A cs \in Candidates(k, l) : cs \subseteq Tuple
  BY DEF Candidates, ConnStates
<1>2. \A cs \in Candidates(k, l) : Best(cs) \subseteq Tuple \cup {NoPath}
  BY <1>1 DEF Best, PathsTypeOK
<1>3. selected' \in Tuple \cup {NoPath}
  BY <1>2 DEF SelectPath, Selections
<1>4. live' \in [Conn -> SUBSET Tuple]
  BY SelectKeeps
<1> QED BY <1>3, <1>4 DEF SelectPath

-----------------------------------------------------------------------------
\* What the steps of the actor preserve.
PathInv == PathsTypeOK /\ WaitingMeansNoPaths /\ SelectedNeedsConnection

LEMMA PathInit == PathsInit => PathInv
<1> SUFFICES ASSUME PathsInit PROVE PathInv OBVIOUS
<1>1. PathsTypeOK
  <2>1. lookup \in BOOLEAN BY Zenon DEF PathsInit
  <2>2. pending \in 0..MaxPending BY PathBoundAssumption DEF PathsInit
  <2> QED BY <2>1, <2>2 DEF PathsInit, PathsTypeOK, NewConn
<1>2. pending = 0 /\ selected = NoPath BY DEF PathsInit
<1>3. WaitingMeansNoPaths BY <1>2 DEF WaitingMeansNoPaths
<1>4. SelectedNeedsConnection BY <1>2 DEF SelectedNeedsConnection
<1> QED BY <1>1, <1>3, <1>4 DEF PathInv

\* The new addresses of a request or a lookup item, before pruning.
Inserted(S) == [a \in Addr |-> IF a \in S /\ status[a] = "absent" THEN "unknown" ELSE status[a]]

LEMMA InsertedType ==
  ASSUME PathsTypeOK, NEW S \in SUBSET Addr
  PROVE  /\ Inserted(S) \in [Addr -> Statuses]
         /\ S = {} => Present(Inserted(S)) = Present(status)
BY DEF PathsTypeOK, Inserted, Statuses, Present

LEMMA PathResolve ==
  ASSUME PathInv, NEW S \in Items, ResolveRemote(S)
  PROVE  PathInv'
<1>1. S \in SUBSET Addr BY DEF Items
<1>2. PrunePaths(Inserted(S), before) BY DEF ResolveRemote, Inserted
<1>3. /\ status' \in [Addr -> Statuses]
      /\ before' \in [Addr -> SUBSET Addr]
      /\ Present(status') \subseteq Present(Inserted(S))
      /\ S = {} => Present(Inserted(S)) = Present(status)
  BY <1>1, <1>2, PruneOnlyRemoves, InsertedType DEF PathInv, PathsTypeOK
<1>4. pending' \in 0..MaxPending /\ (pending' > 0 => Present(status') = {})
  <2>1. pending \in 0..MaxPending /\ pending < MaxPending
    BY DEF PathInv, PathsTypeOK, ResolveRemote
  <2>2. pending > 0 => Present(status) = {} BY DEF PathInv, WaitingMeansNoPaths
  <2>3. pending' = (IF Present(status) = {} /\ S # {} THEN 0 ELSE pending)
                     + (IF Present(status') = {} THEN 1 ELSE 0)
    BY DEF ResolveRemote
  <2>4. pending > 0 /\ S = {} => Present(status') = {} BY <1>3, <2>2
  <2> QED BY <2>1, <2>2, <2>3, <2>4, PathBoundAssumption
<1>5. PathsTypeOK'
  BY <1>3, <1>4 DEF PathInv, PathsTypeOK, ResolveRemote, Statuses
<1> QED BY <1>4, <1>5 DEF PathInv, WaitingMeansNoPaths, SelectedNeedsConnection, ResolveRemote, Listed

LEMMA PathLookupItem ==
  ASSUME PathInv, NEW S \in Items, LookupItem(S)
  PROVE  PathInv'
<1>1. S \in SUBSET Addr BY DEF Items
<1>2. PrunePaths(Inserted(S), before) BY DEF LookupItem, InsertMultiple, Inserted
<1>3. /\ status' \in [Addr -> Statuses]
      /\ before' \in [Addr -> SUBSET Addr]
      /\ Present(status') \subseteq Present(Inserted(S))
      /\ S = {} => Present(Inserted(S)) = Present(status)
  BY <1>1, <1>2, PruneOnlyRemoves, InsertedType DEF PathInv, PathsTypeOK
<1>4. pending' \in 0..MaxPending /\ (pending' > 0 => Present(status') = {})
  <2>1. pending \in 0..MaxPending BY DEF PathInv, PathsTypeOK
  <2>2. pending > 0 => Present(status) = {} BY DEF PathInv, WaitingMeansNoPaths
  <2>3. pending' = IF Present(status) = {} /\ S # {} THEN 0 ELSE pending
    BY DEF LookupItem, InsertMultiple
  <2>4. pending > 0 /\ S = {} => Present(status') = {} BY <1>3, <2>2
  <2> QED BY <2>1, <2>2, <2>3, <2>4, PathBoundAssumption
<1>5. PathsTypeOK'
  BY <1>3, <1>4 DEF PathInv, PathsTypeOK, LookupItem, Statuses
<1> QED BY <1>4, <1>5 DEF PathInv, WaitingMeansNoPaths, SelectedNeedsConnection, LookupItem, Listed

-----------------------------------------------------------------------------
\* insert_open_path leaves nobody waiting.
LEMMA OpenedType ==
  ASSUME PathsTypeOK, NEW a \in Addr, InsertOpenPath(a)
  PROVE  status' \in [Addr -> Statuses] /\ before' \in [Addr -> SUBSET Addr] /\ pending' = 0
<1> DEFINE s == [status EXCEPT ![a] = "open"]
           b == [x \in Addr |-> IF x = a THEN {} ELSE before[x] \ {a}]
<1>1. s \in [Addr -> Statuses] /\ b \in [Addr -> SUBSET Addr]
  BY DEF PathsTypeOK, Statuses
<1>2. PrunePaths(s, b) /\ pending' = 0 BY DEF InsertOpenPath
<1> HIDE DEF s, b
<1> QED BY <1>1, <1>2, PruneOnlyRemoves

\* A step that ends in select_path with a connection listed keeps the invariant, provided
\* nobody starts to wait.
LEMMA PathSelected ==
  ASSUME PathInv, NEW k \in [Conn -> ConnStates], NEW l \in [Conn -> SUBSET Tuple],
         NEW c \in Conn, k[c].st \in {"open", "dead"}, SelectPath(k, l),
         status' \in [Addr -> Statuses], before' \in [Addr -> SUBSET Addr],
         pending' \in 0..MaxPending, lookup' \in BOOLEAN, WaitingMeansNoPaths'
  PROVE  PathInv'
<1>1. conn' = k /\ selected' \in Tuple \cup {NoPath} /\ live' \in [Conn -> SUBSET Tuple]
  BY SelectTypes DEF PathInv
<1>2. PathsTypeOK' BY <1>1 DEF PathsTypeOK, Statuses, ConnStates
<1>3. SelectedNeedsConnection' BY <1>1 DEF SelectedNeedsConnection, Listed
<1> QED BY <1>2, <1>3 DEF PathInv

LEMMA PathAddConnection ==
  ASSUME PathInv, NEW c \in Conn, NEW t \in Tuple, AddConnection(c, t)
  PROVE  PathInv'
<1> DEFINE k(st, ps) == [conn EXCEPT ![c] = [st |-> st, paths |-> ps]]
<1>0. conn \in [Conn -> ConnStates] /\ live \in [Conn -> SUBSET Tuple] /\ RemoteOf[t] \in Addr
  BY RemoteAssumption DEF PathInv, PathsTypeOK, ConnStates
<1>1. CASE InsertOpenPath(RemoteOf[t]) /\ SelectPath(k("open", {t}), [live EXCEPT ![c] = {t}])
  <2>1. status' \in [Addr -> Statuses] /\ before' \in [Addr -> SUBSET Addr] /\ pending' = 0
    BY <1>0, <1>1, OpenedType DEF PathInv
  <2>2. k("open", {t}) \in [Conn -> ConnStates] /\ k("open", {t})[c].st = "open"
    BY <1>0 DEF ConnStates
  <2>3. [live EXCEPT ![c] = {t}] \in [Conn -> SUBSET Tuple] BY <1>0
  <2>4. lookup' \in BOOLEAN BY DEF PathInv, PathsTypeOK, AddConnection
  <2>5. pending' \in 0..MaxPending /\ WaitingMeansNoPaths'
    BY <2>1, PathBoundAssumption DEF WaitingMeansNoPaths
  <2> HIDE DEF k
  <2> QED BY <1>1, <2>1, <2>2, <2>3, <2>4, <2>5, PathSelected
<1>2. CASE SelectPath(k("dead", {}), live) /\ UNCHANGED <<status, before, pending>>
  <2>1. status' \in [Addr -> Statuses] /\ before' \in [Addr -> SUBSET Addr]
    BY <1>2 DEF PathInv, PathsTypeOK, Statuses
  <2>2. k("dead", {}) \in [Conn -> ConnStates] /\ k("dead", {})[c].st = "dead"
    BY <1>0 DEF ConnStates
  <2>4. lookup' \in BOOLEAN BY DEF PathInv, PathsTypeOK, AddConnection
  <2>5. pending' \in 0..MaxPending /\ WaitingMeansNoPaths'
    BY <1>2 DEF PathInv, PathsTypeOK, WaitingMeansNoPaths
  <2> HIDE DEF k
  <2> QED BY <1>0, <1>2, <2>1, <2>2, <2>4, <2>5, PathSelected
<1>3. CASE SelectPath(k("open", {}), [live EXCEPT ![c] = {t}]) /\ UNCHANGED <<status, before, pending>>
  <2>1. status' \in [Addr -> Statuses] /\ before' \in [Addr -> SUBSET Addr]
    BY <1>3 DEF PathInv, PathsTypeOK, Statuses
  <2>2. k("open", {}) \in [Conn -> ConnStates] /\ k("open", {})[c].st = "open"
    BY <1>0 DEF ConnStates
  <2>3. [live EXCEPT ![c] = {t}] \in [Conn -> SUBSET Tuple] BY <1>0
  <2>4. lookup' \in BOOLEAN BY DEF PathInv, PathsTypeOK, AddConnection
  <2>5. pending' \in 0..MaxPending /\ WaitingMeansNoPaths'
    BY <1>3 DEF PathInv, PathsTypeOK, WaitingMeansNoPaths
  <2> HIDE DEF k
  <2> QED BY <1>3, <2>1, <2>2, <2>3, <2>4, <2>5, PathSelected
<1> QED BY <1>1, <1>2, <1>3 DEF AddConnection

LEMMA PathEstablished ==
  ASSUME PathInv, NEW c \in Conn, NEW t \in Tuple, Established(c, t)
  PROVE  PathInv'
<1> DEFINE k == [conn EXCEPT ![c] = [st |-> @.st, paths |-> @.paths \cup {t}]]
<1>0. conn \in [Conn -> ConnStates] /\ live \in [Conn -> SUBSET Tuple] /\ RemoteOf[t] \in Addr
  BY RemoteAssumption DEF PathInv, PathsTypeOK, ConnStates
<1>1. status' \in [Addr -> Statuses] /\ before' \in [Addr -> SUBSET Addr] /\ pending' = 0
  BY <1>0, OpenedType DEF PathInv, Established
<1>2. k \in [Conn -> ConnStates] /\ k[c].st \in {"open", "dead"}
  BY <1>0 DEF ConnStates, Established, Listed
<1>3. lookup' \in BOOLEAN BY DEF PathInv, PathsTypeOK, Established
<1>4. pending' \in 0..MaxPending /\ WaitingMeansNoPaths'
  BY <1>1, PathBoundAssumption DEF WaitingMeansNoPaths
<1>5. SelectPath(k, live) BY DEF Established
<1> HIDE DEF k
<1> QED BY <1>0, <1>1, <1>2, <1>3, <1>4, <1>5, PathSelected

LEMMA PathAbandoned ==
  ASSUME PathInv, NEW c \in Conn, NEW t \in Tuple, Abandoned(c, t)
  PROVE  PathInv'
<1> DEFINE k == [conn EXCEPT ![c] = [st |-> @.st, paths |-> @.paths \ {t}]]
           a == RemoteOf[t]
<1>0. conn \in [Conn -> ConnStates] /\ live \in [Conn -> SUBSET Tuple] /\ a \in Addr
  BY RemoteAssumption DEF PathInv, PathsTypeOK, ConnStates
<1>1. AbandonedPath(a) \/ UNCHANGED <<status, before>>
  BY DEF Abandoned
<1>2. /\ status' \in [Addr -> Statuses] /\ before' \in [Addr -> SUBSET Addr]
      /\ Present(status) = {} => Present(status') = {}
  <2>1. status \in [Addr -> Statuses] /\ before \in [Addr -> SUBSET Addr]
    BY DEF PathInv, PathsTypeOK, Statuses
  <2> HIDE DEF a
  <2> QED BY <1>0, <1>1, <2>1 DEF AbandonedPath, Statuses, Present
<1>3. k \in [Conn -> ConnStates] /\ k[c].st \in {"open", "dead"}
  BY <1>0 DEF ConnStates, Abandoned, Listed
<1>4. lookup' \in BOOLEAN /\ pending' = pending BY DEF PathInv, PathsTypeOK, Abandoned
<1>5. pending' \in 0..MaxPending /\ WaitingMeansNoPaths'
  BY <1>2, <1>4 DEF PathInv, PathsTypeOK, WaitingMeansNoPaths
<1>6. SelectPath(k, live) BY DEF Abandoned
<1> HIDE DEF k
<1> QED BY <1>0, <1>2, <1>3, <1>4, <1>5, <1>6, PathSelected

-----------------------------------------------------------------------------
LEMMA PathClosed ==
  ASSUME PathInv, NEW c \in Conn, ConnectionClosed(c)
  PROVE  PathInv'
<1>1. PathsTypeOK'
  <2>1. conn' \in [Conn -> [st : {"new", "open", "dead", "closed"}, paths : SUBSET Tuple]]
    BY DEF PathInv, PathsTypeOK, ConnectionClosed
  <2>2. live' \in [Conn -> SUBSET Tuple] /\ selected' \in Tuple \cup {NoPath}
    BY DEF PathInv, PathsTypeOK, ConnectionClosed
  <2> QED BY <2>1, <2>2 DEF PathInv, PathsTypeOK, ConnectionClosed
<1>2. ASSUME NEW d \in Conn \ {c}, Listed(d) PROVE Listed(d)'
  BY <1>2 DEF Listed, ConnectionClosed, PathInv, PathsTypeOK
<1>3. SelectedNeedsConnection'
  <2>1. CASE \E d \in Conn \ {c} : Listed(d)
    BY <2>1, <1>2 DEF SelectedNeedsConnection
  <2>2. CASE ~ \E d \in Conn \ {c} : Listed(d)
    BY <2>2 DEF SelectedNeedsConnection, ConnectionClosed
  <2> QED BY <2>1, <2>2
<1> QED BY <1>1, <1>3 DEF PathInv, WaitingMeansNoPaths, ConnectionClosed

\* The steps of noq.
LEMMA PathOther ==
  ASSUME PathInv, NEW c \in Conn,
         \/ \E t \in Tuple : PathOpens(c, t) \/ PathLost(c, t)
         \/ ConnectionLost(c)
  PROVE  PathInv'
<1>2. ASSUME NEW t \in Tuple, PathOpens(c, t) \/ PathLost(c, t) PROVE PathInv'
  BY <1>2 DEF PathOpens, PathLost, PathInv, PathsTypeOK, WaitingMeansNoPaths,
     SelectedNeedsConnection, Listed
<1>3. CASE ConnectionLost(c)
  <2>1. PathsTypeOK' BY <1>3 DEF ConnectionLost, PathInv, PathsTypeOK
  <2>2. ASSUME NEW d \in Conn, Listed(d) PROVE Listed(d)'
    BY <1>3, <2>2 DEF Listed, ConnectionLost, PathInv, PathsTypeOK
  <2>3. SelectedNeedsConnection'
    BY <1>3, <2>2 DEF ConnectionLost, SelectedNeedsConnection, PathInv
  <2> QED BY <1>3, <2>1, <2>3 DEF PathInv, ConnectionLost, WaitingMeansNoPaths
<1> QED BY <1>2, <1>3

LEMMA PathLookupFinished ==
  ASSUME PathInv, LookupFinished
  PROVE  PathInv'
<1>1. pending' = 0 /\ lookup' = FALSE /\ UNCHANGED <<status, before, conn, selected, live>>
  BY DEF LookupFinished
<1>2. PathsTypeOK'
  <2>1. lookup' \in BOOLEAN BY <1>1, Zenon
  <2>2. pending' \in 0..MaxPending BY <1>1, PathBoundAssumption
  <2> QED BY <1>1, <2>1, <2>2 DEF PathInv, PathsTypeOK
<1>3. WaitingMeansNoPaths' BY <1>1 DEF WaitingMeansNoPaths
<1>4. SelectedNeedsConnection' BY <1>1 DEF PathInv, SelectedNeedsConnection, Listed
<1> QED BY <1>2, <1>3, <1>4 DEF PathInv

LEMMA PathStep == PathInv /\ [PathsNext]_pathVars => PathInv'
<1> SUFFICES ASSUME PathInv, [PathsNext]_pathVars PROVE PathInv' OBVIOUS
<1>1. CASE UNCHANGED pathVars
  BY <1>1 DEF pathVars, PathInv, PathsTypeOK, WaitingMeansNoPaths, SelectedNeedsConnection, Listed, Present
<1>2. CASE ActorStep
  BY <1>2, PathResolve, PathLookupItem, PathLookupFinished, PathAddConnection, PathEstablished,
     PathAbandoned, PathClosed DEF ActorStep
<1>3. CASE NoqStep
  BY <1>3, PathOther DEF NoqStep
<1> QED BY <1>1, <1>2, <1>3 DEF PathsNext

-----------------------------------------------------------------------------
\* The inductive invariant holds throughout.
THEOREM PathInvHolds == PathsSpec => []PathInv
BY PathInit, PathStep, PTL DEF PathsSpec

\* Path set, connections, selected path and waiting requests keep their types.
THEOREM PathTypes == PathsSpec => []PathsTypeOK
<1>1. PathInv => PathsTypeOK BY DEF PathInv
<1> QED BY <1>1, PathInvHolds, PTL

\* A resolve request waits only while the path set is empty: every handler of the actor that
\* adds an address, and pruning when it empties the set, keeps resolve_remote's promise.
THEOREM WaitingMeansNoPathsHolds == PathsSpec => []WaitingMeansNoPaths
<1>1. PathInv => WaitingMeansNoPaths BY DEF PathInv
<1> QED BY <1>1, PathInvHolds, PTL

\* handle_connection_close never leaves a selected path when the last connection is gone.
THEOREM SelectedNeedsConnectionHolds == PathsSpec => []SelectedNeedsConnection
<1>1. PathInv => SelectedNeedsConnection BY DEF PathInv
<1> QED BY <1>1, PathInvHolds, PTL
-----------------------------------------------------------------------------
\* An address worth keeping: open, untested, or a relay.
Useful(s, a) == s[a] \in {"open", "unknown"} \/ (a \in Relay /\ s[a] # "absent")

KeepsUsefulStep == \A a \in Addr : Useful(status, a) => status'[a] # "absent"

\* What prune_non_relay_paths removes is a direct address that failed or was closed.
LEMMA PrunedAreUseless ==
  ASSUME NEW s \in [Addr -> Statuses], NEW b \in [Addr -> SUBSET Addr],
         NEW gone \in MustPrune(s, b), NEW a \in gone
  PROVE  ~ Useful(s, a)
<1>1. gone \subseteq Failed(s) \cup Inactive(s)
  <2>1. \A n, S : kSubset(n, S) \subseteq SUBSET S BY DEF kSubset
  <2>2. OldInactive(s, b) \subseteq Inactive(s) BY DEF OldInactive
  <2> QED BY <2>1, <2>2 DEF MustPrune
<1>2. a \in Addr \ Relay /\ s[a] \in {"unusable", "inactive"}
  BY <1>1 DEF Failed, Inactive, Primary, Present
<1> QED BY <1>2 DEF Useful

LEMMA PruneKeepsUseful ==
  ASSUME PathsTypeOK, NEW s \in [Addr -> Statuses], NEW b \in [Addr -> SUBSET Addr],
         PrunePaths(s, b), \A a \in Addr : Useful(status, a) => Useful(s, a)
  PROVE  KeepsUsefulStep
<1>1. PICK gone \in MustPrune(s, b) :
        status' = [a \in Addr |-> IF a \in gone THEN "absent" ELSE s[a]]
  BY DEF PrunePaths
<1>2. SUFFICES ASSUME NEW a \in Addr, Useful(status, a) PROVE status'[a] # "absent"
  BY DEF KeepsUsefulStep
<1>3. Useful(s, a) BY <1>2
<1>4. a \notin gone BY <1>3, PrunedAreUseless
<1>5. status'[a] = s[a] BY <1>1, <1>4
<1> QED BY <1>3, <1>5 DEF Useful

LEMMA InsertKeepsUseful ==
  ASSUME PathsTypeOK, NEW S \in SUBSET Addr, PrunePaths(Inserted(S), before)
  PROVE  KeepsUsefulStep
<1>1. Inserted(S) \in [Addr -> Statuses] /\ before \in [Addr -> SUBSET Addr]
  BY InsertedType DEF PathsTypeOK
<1>2. \A a \in Addr : Useful(status, a) => Useful(Inserted(S), a)
  BY DEF Useful, Inserted, PathsTypeOK
<1> QED BY <1>1, <1>2, PruneKeepsUseful

LEMMA OpenKeepsUseful ==
  ASSUME PathsTypeOK, NEW o \in Addr, InsertOpenPath(o)
  PROVE  KeepsUsefulStep
<1> DEFINE s == [status EXCEPT ![o] = "open"]
           b == [x \in Addr |-> IF x = o THEN {} ELSE before[x] \ {o}]
<1>1. s \in [Addr -> Statuses] /\ b \in [Addr -> SUBSET Addr]
  BY DEF PathsTypeOK, Statuses
<1>2. \A a \in Addr : Useful(status, a) => Useful(s, a)
  BY DEF Useful, PathsTypeOK
<1>3. PrunePaths(s, b) BY DEF InsertOpenPath
<1> HIDE DEF s, b
<1> QED BY <1>1, <1>2, <1>3, PruneKeepsUseful

LEMMA StepKeepsUseful ==
  ASSUME PathsTypeOK, [PathsNext]_pathVars
  PROVE  KeepsUsefulStep
<1>0. status' = status => KeepsUsefulStep
  BY DEF KeepsUsefulStep, Useful
<1>1. ASSUME NEW S \in Items, ResolveRemote(S) \/ LookupItem(S) PROVE KeepsUsefulStep
  <2>1. PrunePaths(Inserted(S), before)
    BY <1>1 DEF ResolveRemote, LookupItem, InsertMultiple, Inserted
  <2> QED BY <2>1, InsertKeepsUseful DEF Items
<1>2. ASSUME NEW c \in Conn, NEW t \in Tuple, AddConnection(c, t) \/ Established(c, t)
      PROVE  KeepsUsefulStep
  <2>1. InsertOpenPath(RemoteOf[t]) \/ status' = status
    BY <1>2 DEF AddConnection, Established
  <2>2. RemoteOf[t] \in Addr BY RemoteAssumption
  <2> QED BY <1>0, <2>1, <2>2, OpenKeepsUseful
<1>3. ASSUME NEW c \in Conn, NEW t \in Tuple, Abandoned(c, t) PROVE KeepsUsefulStep
  <2> DEFINE o == RemoteOf[t]
  <2>1. AbandonedPath(o) \/ status' = status BY <1>3 DEF Abandoned
  <2>2. status \in [Addr -> Statuses] BY DEF PathsTypeOK, Statuses
  <2> HIDE DEF o
  <2> QED BY <2>1, <2>2 DEF AbandonedPath, KeepsUsefulStep, Useful
<1>4. ASSUME \/ LookupFinished \/ UNCHANGED pathVars \/ NoqStep
             \/ \E c \in Conn : ConnectionClosed(c)
      PROVE  KeepsUsefulStep
  BY <1>0, <1>4 DEF LookupFinished, pathVars, NoqStep, PathOpens, PathLost, ConnectionLost, ConnectionClosed
<1> QED BY <1>1, <1>2, <1>3, <1>4 DEF PathsNext, ActorStep

\* Pruning never removes an address that is open, untested or a relay, whatever the limits
\* and however many connections insert addresses.
THEOREM KeepsUsefulHolds == PathsSpec => KeepsUseful
<1>1. PathsTypeOK /\ [PathsNext]_pathVars =>
        [\A a \in Addr : status[a] \in {"open", "unknown"} \/ (a \in Relay /\ status[a] # "absent")
            => status'[a] # "absent"]_pathVars
  BY StepKeepsUseful DEF KeepsUsefulStep, Useful
<1> QED BY <1>1, PathTypes, PTL DEF PathsSpec, KeepsUseful

-----------------------------------------------------------------------------
\* What is true of the selected path between two events.  A connection that is open has a
\* path.  Once a connection has closed nothing is promised; until then the selected path is
\* one that some connection lists, or there was nothing to select from.
Closed(k) == \E c \in Conn : k[c].st \in {"dead", "closed"}

HasPath(k, l) == \A c \in Conn : k[c].st = "open" => l[c] # {}

Chosen(k, sel) == \E c \in Conn : k[c].st = "open" /\ sel \in k[c].paths

NoChoice(k, l) == \A c \in Conn : k[c].st = "open" => k[c].paths \cap l[c] = {}

SelectionInv ==
  /\ HasPath(conn, live)
  /\ selected # NoPath => Closed(conn) \/ Chosen(conn, selected) \/ NoChoice(conn, live)

\* Whatever select_path chooses is listed, unless it had no path to choose.
LEMMA SelectedIsChosen ==
  ASSUME NEW k \in [Conn -> ConnStates], NEW l \in [Conn -> SUBSET Tuple], SelectPath(k, l)
  PROVE  Closed(k) \/ Chosen(k, selected') \/ NoChoice(k, l)
<1> DEFINE Of(sts) == UNION {k[c].paths \cap l[c] : c \in {d \in Conn : k[d].st \in sts}}
<1>1. PICK cs \in Candidates(k, l) : selected' \in Best(cs)
  BY DEF SelectPath, Selections
<1>2. PICK sts \in {{"open"}, {"open", "dead"}} : cs = Of(sts)
  BY <1>1 DEF Candidates
<1>3. CASE cs = {}
  <2>1. ASSUME NEW c \in Conn, k[c].st = "open" PROVE k[c].paths \cap l[c] = {}
    <3>1. k[c].st \in sts BY <1>2, <2>1
    <3> QED BY <1>2, <1>3, <3>1
  <2> QED BY <2>1 DEF NoChoice
<1>4. CASE cs # {}
  <2>1. selected' \in cs BY <1>1, <1>4 DEF Best
  <2>2. PICK c \in Conn : k[c].st \in sts /\ selected' \in k[c].paths \cap l[c]
    BY <1>2, <2>1
  <2>3. k[c].st = "open" \/ k[c].st = "dead" BY <1>2, <2>2
  <2> QED BY <2>2, <2>3 DEF Closed, Chosen
<1> QED BY <1>3, <1>4

LEMMA SelectionSelected ==
  ASSUME NEW k \in [Conn -> ConnStates], NEW l \in [Conn -> SUBSET Tuple],
         SelectPath(k, l), HasPath(k, l)
  PROVE  SelectionInv'
<1>1. conn' = k BY DEF SelectPath
<1>2. \A c \in Conn : live'[c] \subseteq l[c] /\ (l[c] # {} => live'[c] # {})
  BY SelectKeeps
<1>3. HasPath(k, live') BY <1>2 DEF HasPath
<1>4. NoChoice(k, l) => NoChoice(k, live') BY <1>2 DEF NoChoice
<1> QED BY <1>1, <1>3, <1>4, SelectedIsChosen DEF SelectionInv, Closed, Chosen, NoChoice, HasPath

LEMMA SelectionAddConnection ==
  ASSUME PathsTypeOK, SelectionInv, NEW c \in Conn, NEW t \in Tuple, AddConnection(c, t)
  PROVE  SelectionInv'
<1> DEFINE k(st, ps) == [conn EXCEPT ![c] = [st |-> st, paths |-> ps]]
           l == [live EXCEPT ![c] = {t}]
<1>0. conn \in [Conn -> ConnStates] /\ live \in [Conn -> SUBSET Tuple]
  BY DEF PathsTypeOK, ConnStates
<1>1. CASE SelectPath(k("open", {t}), l)
  <2>1. k("open", {t}) \in [Conn -> ConnStates] /\ l \in [Conn -> SUBSET Tuple]
    BY <1>0 DEF ConnStates
  <2>2. HasPath(k("open", {t}), l) BY <1>0 DEF HasPath, SelectionInv, ConnStates
  <2> HIDE DEF k, l
  <2> QED BY <1>1, <2>1, <2>2, SelectionSelected
<1>2. CASE SelectPath(k("dead", {}), live)
  <2>1. k("dead", {}) \in [Conn -> ConnStates] BY <1>0 DEF ConnStates
  <2>2. HasPath(k("dead", {}), live) BY <1>0 DEF HasPath, SelectionInv, ConnStates
  <2> HIDE DEF k, l
  <2> QED BY <1>0, <1>2, <2>1, <2>2, SelectionSelected
<1>3. CASE SelectPath(k("open", {}), l)
  <2>1. k("open", {}) \in [Conn -> ConnStates] /\ l \in [Conn -> SUBSET Tuple]
    BY <1>0 DEF ConnStates
  <2>2. HasPath(k("open", {}), l) BY <1>0 DEF HasPath, SelectionInv, ConnStates
  <2> HIDE DEF k, l
  <2> QED BY <1>3, <2>1, <2>2, SelectionSelected
<1> QED BY <1>1, <1>2, <1>3 DEF AddConnection

LEMMA SelectionEvent ==
  ASSUME PathsTypeOK, SelectionInv, NEW c \in Conn, NEW t \in Tuple,
         Established(c, t) \/ Abandoned(c, t)
  PROVE  SelectionInv'
<1> DEFINE k(ps) == [conn EXCEPT ![c] = [st |-> @.st, paths |-> ps]]
<1>0. conn \in [Conn -> ConnStates] /\ live \in [Conn -> SUBSET Tuple]
  BY DEF PathsTypeOK, ConnStates
<1>1. PICK ps \in SUBSET Tuple : SelectPath(k(ps), live)
  <2>1. conn[c].paths \cup {t} \in SUBSET Tuple /\ conn[c].paths \ {t} \in SUBSET Tuple
    BY <1>0 DEF ConnStates
  <2>2. CASE Established(c, t)
    <3>1. SelectPath(k(conn[c].paths \cup {t}), live) BY <2>2 DEF Established
    <3> QED BY <2>1, <3>1
  <2>3. CASE Abandoned(c, t)
    <3>1. SelectPath(k(conn[c].paths \ {t}), live) BY <2>3 DEF Abandoned
    <3> QED BY <2>1, <3>1
  <2> QED BY <2>2, <2>3
<1>2. k(ps) \in [Conn -> ConnStates] BY <1>0 DEF ConnStates
<1>3. \A d \in Conn : k(ps)[d].st = conn[d].st BY <1>0 DEF ConnStates
<1>4. HasPath(k(ps), live) BY <1>3 DEF HasPath, SelectionInv
<1> HIDE DEF k
<1> QED BY <1>0, <1>1, <1>2, <1>4, SelectionSelected

LEMMA SelectionClosed ==
  ASSUME PathsTypeOK, SelectionInv, NEW c \in Conn, ConnectionClosed(c) \/ ConnectionLost(c)
  PROVE  SelectionInv'
<1>1. PICK st \in {"dead", "closed"} : \E ps : conn' = [conn EXCEPT ![c] = [st |-> st, paths |-> ps]]
  BY DEF ConnectionClosed, ConnectionLost
<1>2. conn'[c].st = st /\ \A d \in Conn \ {c} : conn'[d] = conn[d] BY <1>1 DEF PathsTypeOK
<1>3. \A d \in Conn \ {c} : live'[d] = live[d] BY DEF PathsTypeOK, ConnectionClosed, ConnectionLost
<1>4. HasPath(conn', live') BY <1>2, <1>3 DEF HasPath, SelectionInv
<1>5. Closed(conn') BY <1>2 DEF Closed
<1> QED BY <1>4, <1>5 DEF SelectionInv, HasPath, Closed

LEMMA SelectionPaths ==
  ASSUME PathsTypeOK, SelectionInv, NEW c \in Conn, NEW t \in Tuple, PathOpens(c, t) \/ PathLost(c, t)
  PROVE  SelectionInv'
<1>1. conn' = conn /\ selected' = selected BY DEF PathOpens, PathLost
<1>2. \A d \in Conn : /\ live[d] # {} => live'[d] # {}
                      /\ conn[d].paths \cap live'[d] \subseteq conn[d].paths \cap live[d]
  BY DEF PathsTypeOK, PathOpens, PathLost
<1>3. HasPath(conn, live') BY <1>2 DEF HasPath, SelectionInv
<1>4. NoChoice(conn, live) => NoChoice(conn, live') BY <1>2 DEF NoChoice
<1> QED BY <1>1, <1>3, <1>4 DEF SelectionInv, HasPath, NoChoice, Closed, Chosen

LEMMA SelectionStep == PathsTypeOK /\ SelectionInv /\ [PathsNext]_pathVars => SelectionInv'
<1> SUFFICES ASSUME PathsTypeOK, SelectionInv, [PathsNext]_pathVars PROVE SelectionInv' OBVIOUS
<1>1. UNCHANGED <<conn, selected, live>> => SelectionInv'
  BY DEF SelectionInv, HasPath, NoChoice, Closed, Chosen
<1>2. CASE LookupFinished \/ UNCHANGED pathVars
  BY <1>1, <1>2 DEF LookupFinished, pathVars
<1>3. ASSUME NEW S \in Items, ResolveRemote(S) \/ LookupItem(S) PROVE SelectionInv'
  BY <1>1, <1>3 DEF ResolveRemote, LookupItem
<1> QED BY <1>2, <1>3, SelectionAddConnection, SelectionEvent, SelectionClosed, SelectionPaths
  DEF PathsNext, ActorStep, NoqStep

\* As long as no connection has closed, and once the events are handled, the selected path is
\* one that some connection has: whatever noq opened and lost in between, and whichever paths
\* apply_selected_path closed, of any number of connections.
THEOREM SelectedWorksHolds == PathsSpec => []SelectedWorks
<1>1. PathsInit => SelectionInv BY DEF PathsInit, SelectionInv, HasPath, NewConn
<1>2. PathsTypeOK /\ SelectionInv /\ SelectedNeedsConnection => SelectedWorks
  <2> SUFFICES ASSUME PathsTypeOK, SelectionInv, SelectedNeedsConnection, Settled, selected # NoPath
               PROVE  \E c \in Conn : selected \in live[c]
    BY DEF SelectedWorks
  <2>1. PICK o \in Conn : Listed(o) BY DEF SelectedNeedsConnection
  <2>2. conn[o].st = "open" /\ conn[o].paths = live[o] BY <2>1 DEF Listed, Settled
  <2>3. live[o] # {} BY <2>2 DEF SelectionInv, HasPath
  <2>4. ~ NoChoice(conn, live) BY <2>2, <2>3 DEF NoChoice
  <2>5. ~ Closed(conn) BY DEF Closed, Settled
  <2>6. PICK c \in Conn : conn[c].st = "open" /\ selected \in conn[c].paths
    BY <2>4, <2>5 DEF SelectionInv, Chosen
  <2> QED BY <2>6 DEF Settled
<1> QED BY <1>1, <1>2, SelectionStep, PathTypes, SelectedNeedsConnectionHolds, PTL DEF PathsSpec
=============================================================================
