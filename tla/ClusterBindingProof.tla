------------------------ MODULE ClusterBindingProof ------------------------
(***************************************************************************)
(* For any number of endpoints, clusters, tracking rows and concurrent     *)
(* transactions, over any legacy data: a synchronised endpoint's ownership *)
(* is exclusive, no step makes an ambiguity, the lock order admits no      *)
(* deadlock but around a ring of legacy links, and the transactions        *)
(* implement the abstract ownership specification.                         *)
(***************************************************************************)
EXTENDS ClusterBinding, TLAPS

(* Only the three writers and the ordinary saves and deletions touch rows. *)
LEMMA RowsChange ==
    ASSUME [Next]_vars
    PROVE  \/ UNCHANGED rows
           \/ \E x \in Txs : WriteSync(x) \/ WritePreflight(x) \/ WriteTrack(x)
           \/ Ordinary
<1>1. CASE UNCHANGED vars
  BY <1>1 DEF vars, rows
<1>2. ASSUME NEW x \in Txs, Start(x) PROVE UNCHANGED rows
  BY <1>2 DEF Start, LockEndpointSync, LockEndpointPreflight, BeginTrack
<1>3. ASSUME NEW x \in Txs, Proceed(x)
      PROVE  UNCHANGED rows \/ WriteSync(x) \/ WritePreflight(x) \/ WriteTrack(x)
  BY <1>3 DEF Proceed, LockEndpointTrack, LockCoreSync, LockCorePreflight, LockCoreTrack, Refuse
<1> QED
  BY <1>1, <1>2, <1>3 DEF Next

(***************************************************************************)
(* Types.                                                                  *)
(***************************************************************************)

Tx == {Idle} \cup Running

Track == [ep : Endpoints \cup {None}, core : Cores \cup {None}, name : Names \cup {None}]

LEMMA IdleType == Idle \in Tx
BY DEF Idle, Running, Tx, Kinds

LEMMA TxFields ==
    ASSUME TypeOK, NEW x \in Txs
    PROVE  /\ tx[x].at \in {"idle", "begun", "endpoint", "link", "locked"}
           /\ tx[x].kind \in Kinds
           /\ tx[x].ep \in Endpoints \cup {None} /\ tx[x].core \in Cores \cup {None}
           /\ tx[x].row \in Tracks \cup {None} /\ tx[x].name \in Names \cup {None}
           /\ tx[x].at # "idle" => tx[x] \in Running
BY DEF TypeOK, Running, Idle, Kinds

LEMMA EndType ==
    ASSUME tx \in [Txs -> Tx], NEW x \in Txs, End(x)
    PROVE  tx' \in [Txs -> Tx]
BY IdleType DEF End

(* The row the preflight picks is one of the endpoint's, or none yet.      *)
LEMMA PreflightRowIn ==
    ASSUME TypeOK, NEW e, NEW n, NEW t \in PreflightRow(e, n)
    PROVE  t = None \/ (t \in Tracks /\ track[t].ep = e)
BY DEF PreflightRow, Linked, Named, TracksOf

LEMMA LinkOfIn ==
    ASSUME TypeOK, NEW t \in Tracks \cup {None}
    PROVE  LinkOf(t) \in Cores \cup {None}
BY DEF TypeOK, LinkOf

(* A step that starts a transaction or takes a lock keeps tx well typed.   *)
LEMMA StartType ==
    ASSUME TypeOK, NEW x \in Txs, Start(x)
    PROVE  tx' \in [Txs -> Tx]
<1>0. tx \in [Txs -> Tx] /\ track \in [Tracks -> Track]
      /\ cluster \in [Endpoints -> Cores \cup {None}]
  BY DEF TypeOK, Tx, Track
<1>1. ASSUME NEW e \in Endpoints, NEW n \in Names, LockEndpointSync(x, e, n)
      PROVE  tx' \in [Txs -> Tx]
  <2> DEFINE w == [Idle EXCEPT !.ep = e, !.name = n]
  <2>1. [w EXCEPT !.at = "locked"] \in Tx
    BY DEF Idle, Running, Tx, Kinds
  <2>2. ASSUME NEW c \in Cores PROVE [w EXCEPT !.at = "endpoint", !.core = c] \in Tx
    BY DEF Idle, Running, Tx, Kinds
  <2>3. (IF cluster[e] # None THEN {cluster[e]} ELSE LegacyCluster(e)) \subseteq Cores
    BY <1>0 DEF LegacyCluster
  <2>4. \/ tx' = [tx EXCEPT ![x] = [w EXCEPT !.at = "locked"]]
        \/ \E c \in Cores : tx' = [tx EXCEPT ![x] = [w EXCEPT !.at = "endpoint", !.core = c]]
    BY <1>1, <2>3 DEF LockEndpointSync
  <2> HIDE DEF w
  <2> QED
    BY <1>0, <2>1, <2>2, <2>4
<1>2. ASSUME NEW e \in Endpoints, NEW n \in Names, LockEndpointPreflight(x, e, n)
      PROVE  tx' \in [Txs -> Tx]
  <2> DEFINE w == [Idle EXCEPT !.kind = "preflight", !.ep = e, !.name = n]
  <2>1. ASSUME NEW a \in {"endpoint", "locked"}, NEW c \in Cores \cup {None},
               NEW t \in Tracks \cup {None}
        PROVE  [w EXCEPT !.at = a, !.core = c, !.row = t] \in Tx
    BY DEF Idle, Running, Tx, Kinds
  <2>2. ASSUME NEW c \in Cores PROVE [w EXCEPT !.at = "endpoint", !.core = c] \in Tx
    BY DEF Idle, Running, Tx, Kinds
  <2>3. \/ /\ cluster[e] \in Cores
           /\ tx' = [tx EXCEPT ![x] = [w EXCEPT !.at = "endpoint", !.core = cluster[e]]]
        \/ \E t \in PreflightRow(e, n) :
             tx' = [tx EXCEPT ![x] =
                     [w EXCEPT !.at = IF LinkOf(t) = None THEN "locked" ELSE "endpoint",
                               !.core = LinkOf(t), !.row = t]]
    BY <1>2, <1>0 DEF LockEndpointPreflight
  <2> HIDE DEF w
  <2>4. ASSUME NEW t \in PreflightRow(e, n)
        PROVE  [w EXCEPT !.at = IF LinkOf(t) = None THEN "locked" ELSE "endpoint",
                         !.core = LinkOf(t), !.row = t] \in Tx
    <3>1. t \in Tracks \cup {None}
      BY PreflightRowIn
    <3>2. LinkOf(t) \in Cores \cup {None}
      BY <3>1, LinkOfIn
    <3> QED
      BY <2>1, <3>1, <3>2
  <2> QED
    BY <1>0, <2>2, <2>3, <2>4
<1>3. ASSUME NEW t \in Tracks, NEW e \in Endpoints, NEW c \in Cores \cup {None},
             NEW n \in Names, BeginTrack(x, t, e, c, n)
      PROVE  tx' \in [Txs -> Tx]
  <2>1. [kind |-> "track", at |-> "begun", ep |-> e, core |-> c, name |-> n, row |-> t] \in Tx
    BY DEF Tx, Running, Kinds
  <2> QED
    BY <1>3, <2>1, <1>0 DEF BeginTrack
<1> QED
  BY <1>1, <1>2, <1>3 DEF Start

LEMMA ProceedType ==
    ASSUME TypeOK, NEW x \in Txs, Proceed(x)
    PROVE  tx' \in [Txs -> Tx]
<1>0. tx \in [Txs -> Tx]
  BY DEF TypeOK, Tx
<1>r. ASSUME tx[x].at # "idle", NEW a \in {"endpoint", "link", "locked"},
             NEW t \in Tracks \cup {None}
      PROVE  /\ [tx EXCEPT ![x].at = a] \in [Txs -> Tx]
             /\ [tx EXCEPT ![x].row = t, ![x].at = a] \in [Txs -> Tx]
  <2>1. tx[x] \in Running
    BY <1>r, TxFields
  <2>2. [tx[x] EXCEPT !.at = a] \in Tx
    BY <2>1 DEF Running, Tx
  <2>3. [tx[x] EXCEPT !.row = t, !.at = a] \in Tx
    BY <2>1 DEF Running, Tx
  <2> QED
    BY <2>2, <2>3, <1>0
<1>1. CASE LockEndpointTrack(x)
  BY <1>1, <1>r DEF LockEndpointTrack
<1>2. CASE LockCoreSync(x) \/ LockCoreTrack(x)
  BY <1>2, <1>r DEF LockCoreSync, LockCoreTrack
<1>3. CASE WriteSync(x) \/ WritePreflight(x) \/ WriteTrack(x) \/ Refuse(x)
  BY <1>3, <1>0, EndType DEF WriteSync, WritePreflight, WriteTrack, Refuse
<1>4. CASE LockCorePreflight(x)
  <2>1. PICK t \in Tracks \cup {None}, a \in {"locked", "link"} :
          tx' = [tx EXCEPT ![x].row = t, ![x].at = a]
    <3>1. PICK t \in IF tx[x].row # None THEN {tx[x].row} ELSE PreflightRow(tx[x].ep, tx[x].name) :
            tx' = [tx EXCEPT ![x].row = t,
                             ![x].at = IF LinkOf(t) \in {None, tx[x].core} THEN "locked" ELSE "link"]
      BY <1>4 DEF LockCorePreflight
    <3>2. t \in Tracks \cup {None}
      BY TxFields, PreflightRowIn
    <3> QED
      BY <3>1, <3>2
  <2> QED
    BY <1>4, <2>1, <1>r DEF LockCorePreflight
<1> QED
  BY <1>1, <1>2, <1>3, <1>4 DEF Proceed

(* The rows _tracking may pick.                                            *)
LEMMA TrackingRowIn ==
    ASSUME NEW e, NEW c, NEW n, NEW t \in TrackingRow(e, c, n)
    PROVE  t \in Tracks /\ track[t].ep \in {e, None}
BY DEF TrackingRow, Linked, Named, TracksOf, Exists

(* What a committing synchronize_cluster has checked and written.          *)
LEMMA WriteSyncEffect ==
    ASSUME TypeOK, NEW x \in Txs, WriteSync(x)
    PROVE  \E c \in Cores, t \in Tracks :
             LET e == tx[x].ep IN
             /\ (tx[x].core = None /\ native[c] = "unused") \/ tx[x].core = c
             /\ track[t].ep \in {e, None} /\ track[t].core \in {None, c}
             /\ Unclaimed(e, c)
             /\ \A u \in TracksOf(e) \ {t} : track[u].core \in {None, c}
             /\ native' = [native EXCEPT ![c] = "live"]
             /\ cluster' = [cluster EXCEPT ![e] = c]
             /\ track' = [track EXCEPT ![t] = [ep |-> e, core |-> c, name |-> tx[x].name]]
             /\ sidecar' = [sidecar EXCEPT ![c] = [row |-> TRUE, link |-> t]]
             /\ present' = present /\ synced' = synced \cup {e}
<1> DEFINE C == IF tx[x].core # None THEN {tx[x].core}
                ELSE {d \in Cores : native[d] = "unused"}
<1>1. PICK c \in C : \E t \in TrackingRow(tx[x].ep, c, tx[x].name) :
        /\ track[t].core \in {None, c}
        /\ Unclaimed(tx[x].ep, c)
        /\ \A u \in TracksOf(tx[x].ep) \ {t} : track[u].core \in {None, c}
        /\ native' = [native EXCEPT ![c] = "live"]
        /\ cluster' = [cluster EXCEPT ![tx[x].ep] = c]
        /\ track' = [track EXCEPT ![t] =
                        [ep |-> tx[x].ep, core |-> c, name |-> tx[x].name]]
        /\ sidecar' = [sidecar EXCEPT ![c] = [row |-> TRUE, link |-> t]]
  BY DEF WriteSync
<1>2. PICK t \in TrackingRow(tx[x].ep, c, tx[x].name) :
        /\ track[t].core \in {None, c}
        /\ Unclaimed(tx[x].ep, c)
        /\ \A u \in TracksOf(tx[x].ep) \ {t} : track[u].core \in {None, c}
        /\ native' = [native EXCEPT ![c] = "live"]
        /\ cluster' = [cluster EXCEPT ![tx[x].ep] = c]
        /\ track' = [track EXCEPT ![t] =
                        [ep |-> tx[x].ep, core |-> c, name |-> tx[x].name]]
        /\ sidecar' = [sidecar EXCEPT ![c] = [row |-> TRUE, link |-> t]]
  BY <1>1
<1>3. t \in Tracks /\ track[t].ep \in {tx[x].ep, None}
  BY TrackingRowIn
<1>4. tx \in [Txs -> Tx]
  BY DEF TypeOK, Tx
<1>5. c \in Cores /\ ((tx[x].core = None /\ native[c] = "unused") \/ tx[x].core = c)
  BY TxFields
<1>6. present' = present /\ synced' = synced \cup {tx[x].ep}
  BY DEF WriteSync
<1> QED
  BY <1>2, <1>3, <1>5, <1>6

(* What a save of a tracking row without a permit may do to the row: it    *)
(* keeps its endpoint and its link, or drops the link.                     *)
LEMMA WriteRowEffect ==
    ASSUME TypeOK, NEW x \in Txs, WritePreflight(x) \/ WriteTrack(x)
    PROVE  /\ UNCHANGED <<present, cluster, native, sidecar, synced>>
           /\ track' \in [Tracks -> Track]
           /\ UNCHANGED track \/ \E t \in Tracks :
                LET e == tx[x].ep
                    k == track'[t].core IN
                /\ \A u \in Tracks \ {t} : track'[u] = track[u]
                /\ track'[t].ep = e /\ track[t].ep \in {e, None}
                /\ k \in {None, track[t].core}
                /\ k # None => /\ cluster[e] \in {None, k}
                               /\ Unclaimed(e, k)
                               /\ \A u \in TracksOf(e) \ {t} : track[u].core \in {None, k}
<1>0. tx \in [Txs -> Tx] /\ track \in [Tracks -> Track]
  BY DEF TypeOK, Tx, Track
<1>1. CASE WritePreflight(x)
  <2>1. PICK t \in IF tx[x].row # None THEN {tx[x].row} ELSE {u \in Tracks : ~Exists(u)} :
          /\ ValidTracking(t, tx[x].ep, track[t].core, tx[x].name)
          /\ track' = [track EXCEPT ![t].ep = tx[x].ep, ![t].name = tx[x].name]
    BY <1>1 DEF WritePreflight
  <2>2. t \in Tracks
    BY TxFields
  <2>3. /\ track' \in [Tracks -> Track]
        /\ track'[t].core = track[t].core /\ track'[t].ep = tx[x].ep
        /\ \A u \in Tracks \ {t} : track'[u] = track[u]
    BY <2>1, <2>2, <1>0, TxFields DEF Track
  <2> QED
    BY <1>1, <2>1, <2>2, <2>3 DEF WritePreflight, ValidTracking, Exists
<1>2. CASE WriteTrack(x)
  <2> DEFINE w == tx[x]
  <2>1. /\ ValidTracking(w.row, w.ep, w.core, w.name)
        /\ track' = [track EXCEPT ![w.row] = [ep |-> w.ep, core |-> w.core, name |-> w.name]]
        /\ UNCHANGED <<present, cluster, native, sidecar, synced>>
    BY <1>2 DEF WriteTrack
  <2>2. w \in Tx
    BY <1>0
  <2>3. track' \in [Tracks -> Track]
    BY <2>1, <2>2, <1>0, TxFields DEF Track
  <2>4. CASE w.row \notin Tracks
    BY <2>1, <2>3, <2>4, <1>0
  <2>5. CASE w.row \in Tracks
    <3>1. track'[w.row] = [ep |-> w.ep, core |-> w.core, name |-> w.name]
      BY <2>1, <2>5, <1>0
    <3>2. \A u \in Tracks \ {w.row} : track'[u] = track[u]
      BY <2>1, <1>0
    <3> QED
      BY <2>1, <2>3, <2>5, <3>1, <3>2 DEF ValidTracking, Exists
  <2> QED
    BY <2>4, <2>5
<1> QED
  BY <1>1, <1>2

LEMMA OrdinaryType ==
    ASSUME TypeOK, Ordinary
    PROVE  TypeOK'
<1>1. ASSUME NEW e \in Endpoints, NEW c \in Cores \cup {None}, SaveEndpoint(e, c) PROVE TypeOK'
  BY <1>1 DEF SaveEndpoint, TypeOK
<1>2. ASSUME NEW c \in Cores, NEW t \in Tracks \cup {None}, SaveSidecar(c, t) PROVE TypeOK'
  BY <1>2 DEF SaveSidecar, TypeOK
<1>3. ASSUME NEW c \in Cores, DeleteCluster(c) PROVE TypeOK'
  BY <1>3 DEF DeleteCluster, TypeOK, NoSidecar
<1>4. ASSUME NEW c \in Cores, DeleteSidecar(c) PROVE TypeOK'
  BY <1>4 DEF DeleteSidecar, TypeOK, NoSidecar
<1>5. ASSUME NEW t \in Tracks, DeleteTrack(t) PROVE TypeOK'
  BY <1>5 DEF DeleteTrack, TypeOK, NoTrack, Unlink
<1>6. ASSUME NEW e \in Endpoints, DeleteEndpoint(e) PROVE TypeOK'
  BY <1>6 DEF DeleteEndpoint, TypeOK, NoTrack, Unlink
<1> QED
  BY <1>1, <1>2, <1>3, <1>4, <1>5, <1>6 DEF Ordinary

LEMMA NextType ==
    ASSUME TypeOK, [Next]_vars
    PROVE  TypeOK'
<1>1. ASSUME NEW x \in Txs, Start(x) PROVE TypeOK'
  <2>1. tx' \in [Txs -> Tx]
    BY <1>1, StartType
  <2>2. UNCHANGED rows
    BY <1>1 DEF Start, LockEndpointSync, LockEndpointPreflight, BeginTrack
  <2> QED
    BY <2>1, <2>2 DEF TypeOK, Tx, rows
<1>2. ASSUME NEW x \in Txs, Proceed(x) PROVE TypeOK'
  <2>1. tx' \in [Txs -> Tx]
    BY <1>2, ProceedType
  <2>2. CASE UNCHANGED rows
    BY <2>1, <2>2 DEF TypeOK, Tx, rows
  <2>3. CASE WriteSync(x)
    <3>1. PICK c \in Cores, t \in Tracks :
             /\ native' = [native EXCEPT ![c] = "live"]
             /\ cluster' = [cluster EXCEPT ![tx[x].ep] = c]
             /\ track' = [track EXCEPT ![t] =
                            [ep |-> tx[x].ep, core |-> c, name |-> tx[x].name]]
             /\ sidecar' = [sidecar EXCEPT ![c] = [row |-> TRUE, link |-> t]]
             /\ present' = present /\ synced' = synced \cup {tx[x].ep}
      BY <2>3, WriteSyncEffect
    <3>2. tx[x] \in Running
      BY <2>3, TxFields DEF WriteSync
    <3>3. track' \in [Tracks -> Track] /\ synced' \subseteq Endpoints
      BY <3>1, <3>2 DEF TypeOK, Track, Running
    <3> QED
      BY <3>1, <3>3, <2>1 DEF TypeOK, Tx, Track
  <2>4. CASE WritePreflight(x) \/ WriteTrack(x)
    BY <2>1, <2>4, WriteRowEffect DEF TypeOK, Tx, Track
  <2>5. UNCHANGED rows \/ WriteSync(x) \/ WritePreflight(x) \/ WriteTrack(x)
    BY <1>2 DEF Proceed, LockEndpointTrack, LockCoreSync, LockCorePreflight, LockCoreTrack, Refuse
  <2> QED
    BY <2>2, <2>3, <2>4, <2>5
<1>3. CASE UNCHANGED vars
  BY <1>3 DEF TypeOK, vars
<1> QED
  BY <1>1, <1>2, <1>3, OrdinaryType DEF Next

LEMMA BackfilledType ==
    ASSUME NEW retained \in [Endpoints -> Cores \cup {None}]
    PROVE  Backfilled(retained) \in [Endpoints -> Cores \cup {None}]
BY DEF Backfilled, LegacyCluster

LEMMA InitType == Init => TypeOK
<1> SUFFICES ASSUME Init PROVE TypeOK
  OBVIOUS
<1>1. cluster \in [Endpoints -> Cores \cup {None}]
  <2>1. PICK retained \in [Endpoints -> {c \in Cores : native[c] = "live"} \cup {None}] :
          cluster = Backfilled(retained)
    BY DEF Init
  <2>2. retained \in [Endpoints -> Cores \cup {None}]
    OBVIOUS
  <2> QED
    BY <2>1, <2>2, BackfilledType
<1>2. tx \in [Txs -> Tx]
  BY IdleType DEF Init
<1>3. track \in [Tracks -> Track]
  BY DEF Init, NoTrack, Track
<1>4. sidecar \in [Cores -> [row : BOOLEAN, link : Tracks \cup {None}]]
  <2>1. NoSidecar \in [row : BOOLEAN, link : Tracks \cup {None}]
    BY DEF NoSidecar
  <2>2. [row : {TRUE}, link : Tracks \cup {None}] \subseteq [row : BOOLEAN, link : Tracks \cup {None}]
    OBVIOUS
  <2>3. sidecar \in [Cores -> {NoSidecar} \cup [row : {TRUE}, link : Tracks \cup {None}]]
    BY DEF Init
  <2> QED
    BY <2>1, <2>2, <2>3
<1> QED
  BY <1>1, <1>2, <1>3, <1>4 DEF Init, TypeOK, Tx, Track

(* Every row, link and transaction keeps the type the models declare.      *)
THEOREM TypeCorrect == Spec => []TypeOK
BY InitType, NextType, PTL DEF Spec

(***************************************************************************)
(* Locking.  A synchronisation decides under the endpoint's lock which      *)
(* cluster it will claim and writes it two steps later, a preflight selects *)
(* a tracking row and writes it later; Locking says what of such decisions  *)
(* the locks keep true in between.                                          *)
(***************************************************************************)

\* What synchronize_cluster read of its endpoint, and of its cluster, still holds.
SyncKnows(x) ==
    Holding(x) /\ tx[x].kind = "sync" =>
        /\ cluster[tx[x].ep] \in {None, tx[x].core}
        /\ tx[x].at = "locked" /\ tx[x].core # None => native[tx[x].core] = "live"

\* What a preflight read of its endpoint and of its tracking row still holds.
PreflightKnows(x) ==
    Holding(x) /\ tx[x].kind = "preflight" =>
        /\ tx[x].row # None => track[tx[x].row].ep = tx[x].ep
        /\ tx[x].at = "endpoint" /\ tx[x].row = None => tx[x].core = cluster[tx[x].ep]
        /\ tx[x].at = "endpoint" /\ tx[x].row # None => tx[x].core = track[tx[x].row].core
        /\ tx[x].at = "endpoint" => tx[x].core # None
        /\ tx[x].at = "link" => /\ tx[x].core = cluster[tx[x].ep] /\ tx[x].core # None
                                /\ tx[x].row # None
                                /\ track[tx[x].row].core \notin {None, tx[x].core}

Knows(x) == SyncKnows(x) /\ PreflightKnows(x) /\ (tx[x].at = "link" => tx[x].kind = "preflight")

Locking ==
    /\ \A x, y \in Txs : Holding(x) /\ Holding(y) /\ tx[x].ep = tx[y].ep => x = y
    /\ \A x \in Txs : Holding(x) => tx[x].ep \in present
    /\ \A x \in Txs : Knows(x)
    /\ \A e \in Endpoints \ present : cluster[e] = None

LEMMA InitLocking == Init => Locking
BY DEF Init, Locking, Holding, Knows, SyncKnows, PreflightKnows, Idle

(* A transaction that takes its endpoint's lock was the only one to.       *)
LEMMA LockTaken ==
    ASSUME TypeOK, Locking, NEW x \in Txs, UNCHANGED rows,
           tx' \in [Txs -> Tx],
           \A y \in Txs \ {x} : tx'[y] = tx[y],
           tx'[x].ep \in present,
           \A y \in Txs \ {x} : Holding(y) => tx[y].ep # tx'[x].ep,
           Knows(x)'
    PROVE  Locking'
<1>1. \A y \in Txs \ {x} : Holding(y)' = Holding(y) /\ Knows(y)' = Knows(y)
  BY DEF Holding, Knows, SyncKnows, PreflightKnows, rows
<1> QED
  BY <1>1 DEF Locking, Holding, rows

LEMMA StartLocking ==
    ASSUME TypeOK, TypeOK', Locking, NEW x \in Txs, Start(x)
    PROVE  Locking'
<1>0. tx \in [Txs -> Tx] /\ tx' \in [Txs -> Tx]
      /\ cluster \in [Endpoints -> Cores \cup {None}]
  BY DEF TypeOK, Tx
<1>1. ASSUME NEW e \in Endpoints, NEW n \in Names, LockEndpointSync(x, e, n) PROVE Locking'
  <2>1. /\ tx'[x].ep = e /\ tx'[x].kind = "sync" /\ tx'[x].at \in {"endpoint", "locked"}
        /\ cluster[e] \in {None, tx'[x].core}
        /\ tx'[x].at = "locked" => tx'[x].core = None
    <3> DEFINE w == [[Idle EXCEPT !.ep = e, !.name = n] EXCEPT !.at = "locked"]
               v(c) == [[Idle EXCEPT !.ep = e, !.name = n] EXCEPT !.at = "endpoint", !.core = c]
    <3>1. w.ep = e /\ w.kind = "sync" /\ w.at = "locked" /\ w.core = None
      BY DEF Idle
    <3>2. ASSUME NEW c
          PROVE  v(c).ep = e /\ v(c).kind = "sync" /\ v(c).at = "endpoint" /\ v(c).core = c
      BY DEF Idle
    <3>3. \/ cluster[e] = None /\ tx' = [tx EXCEPT ![x] = w]
          \/ \E c \in IF cluster[e] # None THEN {cluster[e]} ELSE LegacyCluster(e) :
                tx' = [tx EXCEPT ![x] = v(c)]
      BY <1>1 DEF LockEndpointSync
    <3> HIDE DEF w, v
    <3>4. \/ cluster[e] = None /\ tx'[x] = w
          \/ \E c : cluster[e] \in {None, c} /\ tx'[x] = v(c)
      BY <3>3, <1>0
    <3> QED
      BY <3>1, <3>2, <3>4
  <2>2. UNCHANGED rows /\ \A y \in Txs \ {x} : tx'[y] = tx[y]
    BY <1>1, <1>0 DEF LockEndpointSync
  <2>3. Knows(x)'
    BY <2>1, <2>2 DEF Knows, SyncKnows, PreflightKnows, rows
  <2>4. \A y \in Txs \ {x} : Holding(y) => tx[y].ep # e
    BY <1>1 DEF LockEndpointSync, EndpointFree, HoldsEndpoint, Holding
  <2> QED
    BY <1>0, <1>1, <2>1, <2>2, <2>3, <2>4, LockTaken DEF LockEndpointSync
<1>2. ASSUME NEW e \in Endpoints, NEW n \in Names, LockEndpointPreflight(x, e, n) PROVE Locking'
  <2> DEFINE w == [Idle EXCEPT !.kind = "preflight", !.ep = e, !.name = n]
             v == [w EXCEPT !.at = "endpoint", !.core = cluster[e]]
             u(t) == [w EXCEPT !.at = IF LinkOf(t) = None THEN "locked" ELSE "endpoint",
                               !.core = LinkOf(t), !.row = t]
  <2>a. v.ep = e /\ v.kind = "preflight" /\ v.at = "endpoint" /\ v.core = cluster[e] /\ v.row = None
    BY DEF Idle
  <2>b. ASSUME NEW t
        PROVE  /\ u(t).ep = e /\ u(t).kind = "preflight" /\ u(t).core = LinkOf(t) /\ u(t).row = t
               /\ u(t).at = IF LinkOf(t) = None THEN "locked" ELSE "endpoint"
    BY DEF Idle
  <2>c. \/ cluster[e] # None /\ tx' = [tx EXCEPT ![x] = v]
        \/ \E t \in PreflightRow(e, n) : tx' = [tx EXCEPT ![x] = u(t)]
    BY <1>2 DEF LockEndpointPreflight
  <2> HIDE DEF u, v, w
  <2>d. \/ cluster[e] # None /\ tx'[x] = v
        \/ \E t \in PreflightRow(e, n) : tx'[x] = u(t)
    BY <2>c, <1>0
  <2>1. tx'[x].ep = e /\ tx'[x].kind = "preflight" /\ tx'[x].at # "link"
    BY <2>a, <2>b, <2>d
  <2>2. UNCHANGED rows /\ \A y \in Txs \ {x} : tx'[y] = tx[y]
    BY <1>2, <1>0 DEF LockEndpointPreflight
  <2>e. ASSUME cluster[e] # None, tx'[x] = v PROVE PreflightKnows(x)'
    BY <2>a, <2>e, <2>2 DEF PreflightKnows, rows
  <2>f. ASSUME NEW t \in PreflightRow(e, n), tx'[x] = u(t) PROVE PreflightKnows(x)'
    <3>1. t # None => track[t].ep = e
      BY PreflightRowIn
    <3>2. t = None => LinkOf(t) = None
      BY DEF LinkOf
    <3>3. t # None => LinkOf(t) = track[t].core
      BY DEF LinkOf
    <3> QED
      BY <2>b, <2>f, <2>2, <3>1, <3>2, <3>3 DEF PreflightKnows, rows
  <2>3. Knows(x)'
    BY <2>1, <2>d, <2>e, <2>f DEF Knows, SyncKnows
  <2>4. \A y \in Txs \ {x} : Holding(y) => tx[y].ep # e
    BY <1>2 DEF LockEndpointPreflight, EndpointFree, HoldsEndpoint, Holding
  <2> QED
    BY <1>0, <1>2, <2>1, <2>2, <2>3, <2>4, LockTaken DEF LockEndpointPreflight
<1>3. ASSUME NEW t \in Tracks, NEW e \in Endpoints, NEW c \in Cores \cup {None},
             NEW n \in Names, BeginTrack(x, t, e, c, n)
      PROVE  Locking'
  <2>1. tx'[x].at = "begun"
    BY <1>3, <1>0 DEF BeginTrack
  <2>2. UNCHANGED rows /\ \A y \in Txs \ {x} : tx'[y] = tx[y]
    BY <1>3, <1>0 DEF BeginTrack
  <2> QED
    BY <2>1, <2>2 DEF Locking, Holding, Knows, SyncKnows, PreflightKnows, rows
<1> QED
  BY <1>1, <1>2, <1>3 DEF Start

(* A transaction that ends lets go of its locks.                           *)
LEMMA EndHolds ==
    ASSUME tx \in [Txs -> Tx], NEW x \in Txs, End(x)
    PROVE  ~Holding(x)' /\ \A y \in Txs \ {x} : tx'[y] = tx[y]
BY DEF End, Idle, Holding

(* A commit for endpoint tx[x].ep leaves other endpoints, and what the     *)
(* preflights that hold them know, alone.                                  *)
LEMMA OthersKeep ==
    ASSUME TypeOK, Locking, NEW x \in Txs, Holding(x),
           \A y \in Txs \ {x} : tx'[y] = tx[y],
           \A y \in Txs \ {x} : Holding(y) => cluster'[tx[y].ep] = cluster[tx[y].ep],
           \A t \in Tracks : track[t].ep \in Endpoints \ {tx[x].ep} => track'[t] = track[t]
    PROVE  \A y \in Txs \ {x} : PreflightKnows(y)'
<1> SUFFICES ASSUME NEW y \in Txs \ {x}, Holding(y), tx[y].kind = "preflight"
             PROVE  PreflightKnows(y)'
  BY DEF PreflightKnows, Holding
<1>1. tx[y].ep \in Endpoints \ {tx[x].ep} /\ PreflightKnows(y)
  BY DEF Locking, Knows, TypeOK
<1>2. tx[y].row # None => track'[tx[y].row] = track[tx[y].row]
  BY <1>1, TxFields DEF PreflightKnows, TypeOK
<1> QED
  BY <1>1, <1>2 DEF PreflightKnows, Holding

LEMMA ProceedLocking ==
    ASSUME TypeOK, TypeOK', Locking, NEW x \in Txs, Proceed(x)
    PROVE  Locking'
<1>0. tx \in [Txs -> Tx] /\ tx' \in [Txs -> Tx]
      /\ cluster \in [Endpoints -> Cores \cup {None}] /\ present \subseteq Endpoints
      /\ native \in [Cores -> {"unused", "live", "gone"}]
  BY DEF TypeOK, Tx
<1>1. CASE LockEndpointTrack(x)
  <2>1. tx'[x].ep = tx[x].ep /\ tx'[x].kind = "track" /\ tx'[x].at # "link"
    BY <1>1, <1>0 DEF LockEndpointTrack, Tx, Running, Idle
  <2>2. UNCHANGED rows /\ \A y \in Txs \ {x} : tx'[y] = tx[y]
    BY <1>1, <1>0 DEF LockEndpointTrack
  <2>3. Knows(x)'
    BY <2>1 DEF Knows, SyncKnows, PreflightKnows
  <2>4. \A y \in Txs \ {x} : Holding(y) => tx[y].ep # tx'[x].ep
    BY <1>1, <2>1 DEF LockEndpointTrack, EndpointFree, HoldsEndpoint, Holding
  <2> QED
    BY <1>0, <1>1, <2>1, <2>2, <2>3, <2>4, LockTaken DEF LockEndpointTrack
<1>2. CASE LockCoreSync(x) \/ LockCoreTrack(x)
  <2>1. /\ tx[x].at = "endpoint" /\ native[tx[x].core] = "live"
        /\ tx'[x] = [tx[x] EXCEPT !.at = "locked"]
        /\ UNCHANGED rows /\ \A y \in Txs \ {x} : tx'[y] = tx[y]
    BY <1>2, <1>0 DEF LockCoreSync, LockCoreTrack
  <2>2. /\ tx'[x].ep = tx[x].ep /\ tx'[x].kind = tx[x].kind /\ tx'[x].core = tx[x].core
        /\ tx[x].kind \in {"sync", "track"} /\ tx'[x].at = "locked"
    BY <1>2, <2>1, <1>0 DEF LockCoreSync, LockCoreTrack, Tx, Running, Idle
  <2>3. Knows(x)' /\ Holding(x)
    BY <2>1, <2>2 DEF Knows, SyncKnows, PreflightKnows, Holding, Locking, rows
  <2>4. \A y \in Txs \ {x} : Holding(y) => tx[y].ep # tx'[x].ep
    BY <2>2, <2>3 DEF Locking
  <2>5. tx'[x].ep \in present
    BY <2>2, <2>3 DEF Locking
  <2> QED
    BY <1>0, <2>1, <2>3, <2>4, <2>5, LockTaken
<1>3. CASE Refuse(x)
  <2>1. ~Holding(x)' /\ \A y \in Txs \ {x} : tx'[y] = tx[y]
    BY <1>3, <1>0, EndHolds DEF Refuse
  <2> QED
    BY <1>3, <2>1 DEF Refuse, Locking, Knows, SyncKnows, PreflightKnows, Holding, rows
<1>4. CASE WritePreflight(x) \/ WriteTrack(x)
  <2>0. Holding(x)
    BY <1>4 DEF WritePreflight, WriteTrack, Holding
  <2>1. ~Holding(x)' /\ \A y \in Txs \ {x} : tx'[y] = tx[y]
    BY <1>4, <1>0, EndHolds DEF WritePreflight, WriteTrack
  <2>2. UNCHANGED <<present, cluster, native>>
    BY <1>4, WriteRowEffect
  <2>3. \A t \in Tracks : track[t].ep \in Endpoints \ {tx[x].ep} => track'[t] = track[t]
    BY <1>4, WriteRowEffect, DistinctConstants
  <2>4. \A y \in Txs \ {x} : Knows(y)'
    <3>1. \A y \in Txs \ {x} : PreflightKnows(y)'
      BY <2>0, <2>1, <2>2, <2>3, OthersKeep
    <3> QED
      BY <2>1, <2>2, <3>1 DEF Locking, Knows, SyncKnows, Holding
  <2> QED
    BY <2>1, <2>2, <2>4 DEF Locking, Knows, SyncKnows, PreflightKnows, Holding
<1>5. CASE WriteSync(x)
  <2>0. PICK e : e = tx[x].ep
    OBVIOUS
  <2>1. ~Holding(x)' /\ \A y \in Txs \ {x} : tx'[y] = tx[y]
    BY <1>5, <1>0, EndHolds DEF WriteSync
  <2>2. PICK c \in Cores, t \in Tracks :
          /\ native' = [native EXCEPT ![c] = "live"]
          /\ cluster' = [cluster EXCEPT ![e] = c]
          /\ track[t].ep \in {e, None}
          /\ track' = [track EXCEPT ![t] = [ep |-> e, core |-> c, name |-> tx[x].name]]
          /\ present' = present
    BY <2>0, <1>5, WriteSyncEffect
  <2>t. \A u \in Tracks : track[u].ep \in Endpoints \ {e} => track'[u] = track[u]
    BY <2>2, DistinctConstants DEF TypeOK
  <2>3. Holding(x) /\ e \in present
    BY <2>0, <1>5 DEF WriteSync, Holding, Locking
  <2>4. \A y \in Txs \ {x} : Holding(y) => tx[y].ep # e /\ tx[y].ep \in Endpoints
    BY <2>0, <2>3, <1>0 DEF Locking
  <2>5. \A y \in Txs \ {x} : Holding(y) => cluster'[tx[y].ep] = cluster[tx[y].ep]
    BY <2>2, <2>4, <1>0
  <2>6. \A y \in Txs \ {x} : tx[y].core # None /\ native[tx[y].core] = "live"
                                => native'[tx[y].core] = "live"
    BY <2>2, <1>0, TxFields
  <2>7. \A y \in Txs \ {x} : Knows(y)'
    <3>1. \A y \in Txs \ {x} : PreflightKnows(y)'
      BY <2>0, <2>1, <2>2, <2>3, <2>5, <2>t, OthersKeep
    <3>2. \A y \in Txs \ {x} : SyncKnows(y)'
      BY <2>1, <2>5, <2>6 DEF Locking, Knows, SyncKnows, Holding
    <3> QED
      BY <2>1, <3>1, <3>2 DEF Locking, Knows
  <2>8. \A d \in Endpoints \ present' : cluster'[d] = None
    BY <2>2, <2>3, <1>0 DEF Locking
  <2>9. Knows(x)'
    BY <2>1 DEF Knows, SyncKnows, PreflightKnows, Holding
  <2> QED
    BY <2>1, <2>2, <2>7, <2>8, <2>9 DEF Locking, Holding
<1>6. CASE LockCorePreflight(x)
  <2>0. tx[x].kind = "preflight" /\ tx[x].at = "endpoint" /\ Holding(x) /\ PreflightKnows(x)
    BY <1>6 DEF LockCorePreflight, Holding, Locking, Knows
  <2>1. PICK t \in IF tx[x].row # None THEN {tx[x].row} ELSE PreflightRow(tx[x].ep, tx[x].name) :
          tx' = [tx EXCEPT ![x].row = t,
                           ![x].at = IF LinkOf(t) \in {None, tx[x].core} THEN "locked" ELSE "link"]
    BY <1>6 DEF LockCorePreflight
  <2>2. UNCHANGED rows /\ \A y \in Txs \ {x} : tx'[y] = tx[y]
    BY <1>6, <2>1, <1>0 DEF LockCorePreflight
  <2>3. /\ tx'[x].ep = tx[x].ep /\ tx'[x].kind = "preflight" /\ tx'[x].core = tx[x].core
        /\ tx'[x].row = t
        /\ tx'[x].at = IF LinkOf(t) \in {None, tx[x].core} THEN "locked" ELSE "link"
    BY <2>0, <2>1, <1>0 DEF Tx, Running, Idle
  <2>4. t # None => track[t].ep = tx[x].ep
    BY <2>0, <2>1, PreflightRowIn DEF PreflightKnows
  <2>5. t # None => LinkOf(t) = track[t].core
    BY DEF LinkOf
  <2>6. t = None => LinkOf(t) = None
    BY DEF LinkOf
  <2>7. PreflightKnows(x)'
    <3>1. CASE LinkOf(t) \in {None, tx[x].core}
      BY <2>2, <2>3, <2>4, <3>1 DEF PreflightKnows, rows
    <3>2. CASE LinkOf(t) \notin {None, tx[x].core}
      <4>1. t # None /\ track[t].core \notin {None, tx[x].core}
        BY <2>5, <2>6, <3>2
      <4>2. tx[x].row = None
        BY <2>0, <2>1, <4>1 DEF PreflightKnows
      <4>3. tx[x].core = cluster[tx[x].ep] /\ tx[x].core # None
        BY <2>0, <4>2 DEF PreflightKnows
      <4> QED
        BY <2>2, <2>3, <2>4, <3>2, <4>1, <4>3 DEF PreflightKnows, rows
    <3> QED
      BY <3>1, <3>2
  <2>8. Knows(x)'
    BY <2>3, <2>7 DEF Knows, SyncKnows
  <2>9. tx'[x].ep \in present /\ \A y \in Txs \ {x} : Holding(y) => tx[y].ep # tx'[x].ep
    BY <2>0, <2>3 DEF Locking
  <2> QED
    BY <1>0, <2>2, <2>8, <2>9, LockTaken
<1> QED
  BY <1>1, <1>2, <1>3, <1>4, <1>5, <1>6 DEF Proceed

(* Saves and deletions wait for the locks they need, so they leave what a  *)
(* synchronisation knows alone.                                            *)
LEMMA OrdinaryLocking ==
    ASSUME TypeOK, Locking, Ordinary
    PROVE  Locking'
<1>0. /\ cluster \in [Endpoints -> Cores \cup {None}] /\ present \subseteq Endpoints
      /\ native \in [Cores -> {"unused", "live", "gone"}] /\ tx \in [Txs -> Tx]
      /\ track \in [Tracks -> Track]
  BY DEF TypeOK, Tx, Track
<1>k. ASSUME UNCHANGED tx, NEW x \in Txs,
             Holding(x) => cluster'[tx[x].ep] = cluster[tx[x].ep],
             Holding(x) /\ tx[x].kind = "preflight" /\ tx[x].row # None
                => track'[tx[x].row] = track[tx[x].row]
      PROVE  PreflightKnows(x)'
  BY <1>k DEF Locking, Knows, PreflightKnows, Holding
<1>r. ASSUME NEW x \in Txs, Holding(x), tx[x].kind = "preflight", tx[x].row # None
      PROVE  tx[x].row \in Tracks /\ track[tx[x].row].ep = tx[x].ep /\ tx[x].ep \in Endpoints
  BY <1>r, <1>0, TxFields DEF Locking, Knows, PreflightKnows
<1>1. ASSUME UNCHANGED <<tx, native>>, NEW e \in Endpoints, EndpointFree(e),
             present' \in {present \cup {e}, present \ {e}},
             cluster' = [cluster EXCEPT ![e] = cluster'[e]],
             cluster'[e] \in {None, cluster[e]}, e \notin present' => cluster'[e] = None,
             \A t \in Tracks : track[t].ep # e => track'[t] = track[t]
      PROVE  Locking'
  <2>1. \A x \in Txs : Holding(x)' = Holding(x) /\ (Holding(x) => tx[x].ep # e)
    BY <1>1 DEF Holding, EndpointFree, HoldsEndpoint
  <2>2. \A d \in Endpoints \ {e} : cluster'[d] = cluster[d]
    BY <1>1, <1>0
  <2>3. \A x \in Txs : Holding(x) => tx[x].ep \in present /\ tx[x].ep \in present'
                                     /\ tx[x].ep \in Endpoints
    BY <1>1, <2>1, <1>0 DEF Locking
  <2>4. \A x \in Txs : Knows(x)'
    <3>1. \A x \in Txs : SyncKnows(x)'
      BY <1>1, <2>1, <2>2, <2>3 DEF Locking, Knows, SyncKnows, Holding
    <3>2. \A x \in Txs : PreflightKnows(x)'
      BY <1>1, <1>k, <1>r, <2>1, <2>2, <2>3
    <3> QED
      BY <1>1, <3>1, <3>2 DEF Locking, Knows
  <2>5. \A d \in Endpoints \ present' : cluster'[d] = None
    BY <1>1, <2>2 DEF Locking
  <2> QED
    BY <1>1, <2>1, <2>3, <2>4, <2>5 DEF Locking
<1>2. ASSUME NEW e \in Endpoints, NEW c \in Cores \cup {None}, SaveEndpoint(e, c) PROVE Locking'
  BY <1>1, <1>2, <1>0 DEF SaveEndpoint
<1>3. ASSUME NEW e \in Endpoints, DeleteEndpoint(e) PROVE Locking'
  <2>1. \A t \in Tracks : track[t].ep # e => track'[t] = track[t]
    BY <1>3, <1>0 DEF DeleteEndpoint
  <2> QED
    BY <1>1, <1>3, <2>1, <1>0 DEF DeleteEndpoint
<1>4. ASSUME NEW c \in Cores, DeleteCluster(c) PROVE Locking'
  <2>1. \A x \in Txs : tx[x].at = "locked" => tx[x].core # c
    BY <1>4 DEF DeleteCluster, CoreFree, HoldsCore
  <2>h. \A x \in Txs : Holding(x) => tx[x].ep \in Endpoints
    BY <1>0 DEF Locking
  <2>e. \A x \in Txs : Holding(x) => cluster'[tx[x].ep] = cluster[tx[x].ep]
    BY <1>4, <2>h, <1>0 DEF DeleteCluster, EndpointFree, HoldsEndpoint
  <2>2. \A x \in Txs : SyncKnows(x)'
    <3> SUFFICES ASSUME NEW x \in Txs, Holding(x), tx[x].kind = "sync"
                 PROVE  /\ cluster'[tx[x].ep] \in {None, tx[x].core}
                        /\ tx[x].at = "locked" /\ tx[x].core # None
                             => native'[tx[x].core] = "live"
      BY <1>4 DEF DeleteCluster, SyncKnows, Holding
    <3>1. tx[x].core \in Cores \cup {None}
      BY <1>0, TxFields
    <3>2. cluster[tx[x].ep] \in {None, tx[x].core}
          /\ (tx[x].at = "locked" /\ tx[x].core # None => native[tx[x].core] = "live")
      BY DEF Locking, Knows, SyncKnows
    <3> QED
      BY <1>4, <2>1, <2>e, <3>1, <3>2, <1>0 DEF DeleteCluster
  <2>3. ASSUME NEW x \in Txs PROVE PreflightKnows(x)'
    <3>1. ASSUME Holding(x), tx[x].kind = "preflight", tx[x].row # None
          PROVE  track'[tx[x].row] = track[tx[x].row]
      <4>1. tx[x].row \in Tracks /\ ~TrackFree(tx[x].row)
        BY <3>1, <1>r DEF TrackFree, HoldsTrack
      <4> QED
        BY <1>4, <4>1, <1>0 DEF DeleteCluster
    <3> QED
      BY <1>4, <1>k, <2>e, <3>1 DEF DeleteCluster
  <2>4. \A x \in Txs : Knows(x)'
    BY <1>4, <2>2, <2>3 DEF DeleteCluster, Locking, Knows
  <2>5. \A d \in Endpoints \ present' : cluster'[d] = None
    BY <1>4 DEF DeleteCluster, Locking
  <2> QED
    BY <1>4, <2>4, <2>5 DEF DeleteCluster, Locking, Holding
<1>5. ASSUME UNCHANGED <<present, cluster, native, track, tx>> PROVE Locking'
  BY <1>5 DEF Locking, Knows, SyncKnows, PreflightKnows, Holding
<1>6. ASSUME NEW t \in Tracks, DeleteTrack(t) PROVE Locking'
  <2>1. ASSUME NEW x \in Txs PROVE PreflightKnows(x)'
    <3>1. ASSUME Holding(x), tx[x].kind = "preflight", tx[x].row # None
          PROVE  track'[tx[x].row] = track[tx[x].row]
      <4>1. tx[x].row \in Tracks /\ ~TrackFree(tx[x].row)
        BY <3>1, <1>r DEF TrackFree, HoldsTrack
      <4> QED
        BY <1>6, <4>1, <1>0 DEF DeleteTrack
    <3> QED
      BY <1>6, <1>k, <3>1 DEF DeleteTrack
  <2> QED
    BY <1>6, <2>1 DEF DeleteTrack, Locking, Knows, SyncKnows, Holding
<1> QED
  BY <1>2, <1>3, <1>4, <1>5, <1>6 DEF Ordinary, SaveSidecar, DeleteSidecar

LEMMA LockingStep == TypeOK /\ Locking /\ [Next]_vars => Locking'
<1> SUFFICES ASSUME TypeOK, Locking, [Next]_vars PROVE Locking'
  OBVIOUS
<1>1. TypeOK'
  BY NextType
<1>2. CASE UNCHANGED vars
  BY <1>2 DEF vars, Locking, Knows, SyncKnows, PreflightKnows, Holding
<1> QED
  BY <1>1, <1>2, StartLocking, ProceedLocking, OrdinaryLocking DEF Next

LEMMA LockingHolds == Spec => []Locking
BY InitLocking, LockingStep, TypeCorrect, PTL DEF Spec

(***************************************************************************)
(* Exclusive ownership of synchronised endpoints.  With types and Locking,  *)
(* the facts about their rows are inductive: every writer repeats the       *)
(* checks under its locks.                                                  *)
(***************************************************************************)

Agreement == SyncedIsExclusive /\ SidecarAgrees /\ synced \subseteq present

LEMMA InitAgreement == Init => Agreement
BY DEF Init, Agreement, SyncedIsExclusive, SidecarAgrees

(* The claims a step leaves behind, endpoint by endpoint.                  *)
LEMMA SyncClaims ==
    ASSUME TypeOK, NEW x \in Txs, WriteSync(x), NEW e, e = tx[x].ep
    PROVE  \E c \in Cores :
             /\ \A d \in Endpoints \ {e} : /\ cluster'[d] = cluster[d]
                                           /\ LinkedCores(d)' \subseteq LinkedCores(d)
                                           /\ cluster[d] # c /\ c \notin LinkedCores(d)
             /\ e \in Endpoints => cluster'[e] = c /\ LinkedCores(e)' \subseteq {c}
<1>0. track \in [Tracks -> Track] /\ cluster \in [Endpoints -> Cores \cup {None}]
  BY DEF TypeOK, Track
<1>p. PICK c \in Cores, t \in Tracks :
             /\ track[t].ep \in {e, None}
             /\ Unclaimed(e, c)
             /\ \A u \in TracksOf(e) \ {t} : track[u].core \in {None, c}
             /\ cluster' = [cluster EXCEPT ![e] = c]
             /\ track' = [track EXCEPT ![t] = [ep |-> e, core |-> c, name |-> tx[x].name]]
  BY WriteSyncEffect
<1>1. \A u \in Tracks \ {t} : track'[u] = track[u]
  BY <1>0, <1>p
<1>2. track'[t].ep = e /\ track'[t].core = c
  BY <1>0, <1>p
<1>3. ASSUME NEW d \in Endpoints \ {e}
      PROVE  LinkedCores(d)' \subseteq LinkedCores(d)
  BY <1>1, <1>2 DEF LinkedCores, TracksOf
<1>4. LinkedCores(e)' \subseteq {c}
  BY <1>1, <1>2, <1>p DEF LinkedCores, TracksOf
<1> QED
  BY <1>0, <1>p, <1>3, <1>4 DEF Unclaimed

LEMMA RowClaims ==
    ASSUME TypeOK, NEW x \in Txs, NEW t \in Tracks, NEW e, e = tx[x].ep,
           track' \in [Tracks -> Track],
           \A u \in Tracks \ {t} : track'[u] = track[u],
           track'[t].ep = e, track[t].ep \in {e, None},
           track'[t].core \in {None, track[t].core},
           track'[t].core # None =>
               /\ cluster[e] \in {None, track'[t].core}
               /\ Unclaimed(e, track'[t].core)
               /\ \A u \in TracksOf(e) \ {t} : track[u].core \in {None, track'[t].core}
    PROVE  /\ \A d \in Endpoints \ {e} : LinkedCores(d)' \subseteq LinkedCores(d)
           /\ \/ LinkedCores(e)' \subseteq LinkedCores(e)
              \/ \E c \in Cores : /\ LinkedCores(e)' = {c} /\ cluster[e] \in {None, c}
                                  /\ Unclaimed(e, c)
<1>0. track \in [Tracks -> Track]
  BY DEF TypeOK, Track
<1>1. ASSUME NEW d \in Endpoints \ {e}
      PROVE  LinkedCores(d)' \subseteq LinkedCores(d)
  BY DEF LinkedCores, TracksOf
<1>2. CASE track'[t].core = None
  BY <1>1, <1>2 DEF LinkedCores, TracksOf
<1>3. CASE track'[t].core # None
  <2>1. track'[t].core \in Cores
    BY <1>3 DEF Track
  <2>2. LinkedCores(e)' = {track'[t].core}
    BY <1>3 DEF LinkedCores, TracksOf
  <2> QED
    BY <1>1, <1>3, <2>1, <2>2
<1> QED
  BY <1>2, <1>3

(* Saves and deletions only ever remove claims.                            *)
LEMMA OrdinaryClaims ==
    ASSUME TypeOK, Ordinary
    PROVE  \A e \in Endpoints : /\ cluster'[e] \in {None, cluster[e]}
                                /\ LinkedCores(e)' \subseteq LinkedCores(e)
<1>0. track \in [Tracks -> Track] /\ cluster \in [Endpoints -> Cores \cup {None}]
  BY DEF TypeOK, Track
<1>q. ASSUME UNCHANGED track PROVE \A e \in Endpoints : LinkedCores(e)' = LinkedCores(e)
  BY <1>q DEF LinkedCores, TracksOf
<1>1. ASSUME NEW e \in Endpoints, NEW c \in Cores \cup {None}, SaveEndpoint(e, c)
      PROVE  \A d \in Endpoints : cluster'[d] \in {None, cluster[d]} /\ UNCHANGED track
  BY <1>1, <1>0 DEF SaveEndpoint
<1>2. ASSUME NEW c \in Cores, \/ \E t \in Tracks \cup {None} : SaveSidecar(c, t)
                              \/ DeleteSidecar(c)
      PROVE  UNCHANGED <<cluster, track>>
  BY <1>2 DEF SaveSidecar, DeleteSidecar
<1>3. ASSUME NEW c \in Cores, DeleteCluster(c), NEW e \in Endpoints
      PROVE  /\ cluster'[e] \in {None, cluster[e]}
             /\ LinkedCores(e)' \subseteq LinkedCores(e)
  <2>1. \A t \in Tracks : track'[t].ep = track[t].ep /\ track'[t].core \in {None, track[t].core}
    BY <1>3, <1>0 DEF DeleteCluster, Track
  <2> QED
    BY <1>3, <2>1 DEF DeleteCluster, LinkedCores, TracksOf
<1>4. ASSUME NEW u \in Tracks, DeleteTrack(u), NEW e \in Endpoints
      PROVE  UNCHANGED cluster /\ LinkedCores(e)' \subseteq LinkedCores(e)
  <2>1. \A t \in Tracks : track'[t] = track[t] \/ track'[t].core = None
    BY <1>4, <1>0 DEF DeleteTrack, NoTrack
  <2> QED
    BY <1>4, <2>1 DEF DeleteTrack, LinkedCores, TracksOf
<1>5. ASSUME NEW d \in Endpoints, DeleteEndpoint(d), NEW e \in Endpoints
      PROVE  /\ cluster'[e] \in {None, cluster[e]}
             /\ LinkedCores(e)' \subseteq LinkedCores(e)
  <2>1. \A t \in Tracks : track'[t] = track[t] \/ track'[t].core = None
    BY <1>5, <1>0 DEF DeleteEndpoint, NoTrack
  <2>2. cluster'[e] \in {None, cluster[e]}
    BY <1>5, <1>0 DEF DeleteEndpoint
  <2> QED
    BY <2>1, <2>2 DEF LinkedCores, TracksOf
<1> QED
  BY <1>q, <1>1, <1>2, <1>3, <1>4, <1>5 DEF Ordinary

LEMMA SyncedPresent ==
    ASSUME TypeOK, Locking, synced \subseteq present, [Next]_vars
    PROVE  synced' \subseteq present'
<1>1. CASE UNCHANGED rows
  BY <1>1 DEF rows
<1>2. ASSUME NEW x \in Txs, WriteSync(x) PROVE synced' \subseteq present'
  BY <1>2 DEF WriteSync, Locking, Holding
<1>3. ASSUME NEW x \in Txs, WritePreflight(x) \/ WriteTrack(x) PROVE UNCHANGED <<synced, present>>
  BY <1>3 DEF WritePreflight, WriteTrack
<1>4. CASE Ordinary
  BY <1>4 DEF Ordinary, SaveEndpoint, SaveSidecar, DeleteCluster, DeleteSidecar, DeleteTrack,
              DeleteEndpoint
<1> QED
  BY <1>1, <1>2, <1>3, <1>4, RowsChange

(* What saves and deletions leave of a synchronised endpoint.              *)
LEMMA OrdinarySynced ==
    ASSUME TypeOK, synced \subseteq present, Ordinary
    PROVE  synced' \subseteq synced /\ \A e \in synced' : cluster'[e] = cluster[e]
<1>0. cluster \in [Endpoints -> Cores \cup {None}] /\ synced \subseteq Endpoints
  BY DEF TypeOK
<1>1. ASSUME NEW d \in Endpoints, NEW c \in Cores \cup {None}, SaveEndpoint(d, c)
      PROVE  synced' = synced /\ \A e \in synced : cluster'[e] = cluster[e]
  BY <1>1, <1>0 DEF SaveEndpoint
<1>2. ASSUME NEW c \in Cores, DeleteCluster(c)
      PROVE  synced' \subseteq synced /\ \A e \in synced' : cluster'[e] = cluster[e]
  BY <1>2, <1>0 DEF DeleteCluster
<1>3. ASSUME NEW d \in Endpoints, DeleteEndpoint(d)
      PROVE  synced' \subseteq synced /\ \A e \in synced' : cluster'[e] = cluster[e]
  BY <1>3, <1>0 DEF DeleteEndpoint
<1> QED
  BY <1>1, <1>2, <1>3 DEF Ordinary, SaveSidecar, DeleteSidecar, DeleteTrack

LEMMA SyncedStep ==
    ASSUME TypeOK, TypeOK', Agreement, [Next]_vars
    PROVE  SyncedIsExclusive'
<1>0. cluster \in [Endpoints -> Cores \cup {None}] /\ synced \subseteq Endpoints
  BY DEF TypeOK
<1>a. SyncedIsExclusive /\ synced \subseteq present
  BY DEF Agreement
<1>1. CASE UNCHANGED rows
  BY <1>1, <1>a DEF rows, SyncedIsExclusive, Unclaimed, LinkedCores, TracksOf
<1>2. ASSUME NEW x \in Txs, WriteSync(x) PROVE SyncedIsExclusive'
  <2>0. PICK e : e = tx[x].ep
    OBVIOUS
  <2>2. PICK c \in Cores :
             /\ \A d \in Endpoints \ {e} : /\ cluster'[d] = cluster[d]
                                           /\ LinkedCores(d)' \subseteq LinkedCores(d)
                                           /\ cluster[d] # c /\ c \notin LinkedCores(d)
             /\ e \in Endpoints => cluster'[e] = c /\ LinkedCores(e)' \subseteq {c}
    BY <2>0, <1>2, SyncClaims
  <2>3. synced' = synced \cup {e} /\ e \in Endpoints
    BY <1>2, <2>0 DEF WriteSync, TypeOK
  <2> QED
    BY <2>2, <2>3, <1>a, <1>0, DistinctConstants DEF SyncedIsExclusive, Unclaimed
<1>3. ASSUME NEW x \in Txs, WritePreflight(x) \/ WriteTrack(x) PROVE SyncedIsExclusive'
  <2>0. PICK e : e = tx[x].ep
    OBVIOUS
  <2>1. UNCHANGED <<cluster, synced>>
    BY <1>3, WriteRowEffect
  <2>2. CASE UNCHANGED track
    BY <1>a, <2>1, <2>2 DEF SyncedIsExclusive, Unclaimed, LinkedCores, TracksOf
  <2>3. CASE ~UNCHANGED track
    <3>1. /\ \A d \in Endpoints \ {e} : LinkedCores(d)' \subseteq LinkedCores(d)
          /\ \/ LinkedCores(e)' \subseteq LinkedCores(e)
             \/ \E c \in Cores : /\ LinkedCores(e)' = {c} /\ cluster[e] \in {None, c}
                                 /\ Unclaimed(e, c)
      BY <2>0, <1>3, <2>3, WriteRowEffect, RowClaims
    <3> QED
      BY <1>0, <1>a, <2>1, <3>1 DEF SyncedIsExclusive, Unclaimed
  <2> QED
    BY <2>2, <2>3
<1>4. CASE Ordinary
  BY <1>0, <1>a, <1>4, OrdinaryClaims, OrdinarySynced DEF SyncedIsExclusive, Unclaimed
<1> QED
  BY <1>1, <1>2, <1>3, <1>4, RowsChange

LEMMA SidecarStep ==
    ASSUME TypeOK, TypeOK', Agreement, [Next]_vars
    PROVE  SidecarAgrees'
<1>0. /\ cluster \in [Endpoints -> Cores \cup {None}] /\ track \in [Tracks -> Track]
      /\ sidecar \in [Cores -> [row : BOOLEAN, link : Tracks \cup {None}]]
      /\ synced \subseteq Endpoints
  BY DEF TypeOK, Track
<1>a. SidecarAgrees /\ synced \subseteq present /\ \A e \in synced : cluster[e] \in Cores
  BY <1>0 DEF Agreement, SyncedIsExclusive
<1>1. CASE UNCHANGED rows
  BY <1>1, <1>a DEF rows, SidecarAgrees
<1>2. ASSUME NEW x \in Txs, WriteSync(x) PROVE SidecarAgrees'
  <2>0. PICK e : e = tx[x].ep
    OBVIOUS
  <2>1. PICK c \in Cores, t \in Tracks :
             /\ track[t].ep \in {e, None}
             /\ Unclaimed(e, c)
             /\ cluster' = [cluster EXCEPT ![e] = c]
             /\ track' = [track EXCEPT ![t] = [ep |-> e, core |-> c, name |-> tx[x].name]]
             /\ sidecar' = [sidecar EXCEPT ![c] = [row |-> TRUE, link |-> t]]
             /\ synced' = synced \cup {e}
    BY <2>0, <1>2, WriteSyncEffect
  <2> SUFFICES ASSUME NEW d \in synced', NEW u \in Tracks,
                      sidecar'[cluster'[d]].link = u
               PROVE  track'[u].ep = d /\ track'[u].core \in {None, cluster'[d]}
    BY DEF SidecarAgrees
  <2>d. d \in Endpoints
    BY DEF TypeOK
  <2>2. CASE d = e
    BY <2>1, <2>2, <2>d, <1>0
  <2>3. CASE d # e
    <3>1. cluster'[d] = cluster[d] /\ cluster[d] # c /\ d \in synced /\ cluster[d] \in Cores
      BY <2>1, <2>3, <2>d, <1>0, <1>a DEF Unclaimed
    <3>2. sidecar'[cluster[d]] = sidecar[cluster[d]]
      BY <2>1, <3>1, <1>0
    <3>3. track[u].ep = d /\ track[u].core \in {None, cluster[d]}
      BY <1>a, <3>1, <3>2 DEF SidecarAgrees
    <3>4. u # t
      BY <2>1, <2>3, <2>d, <3>3, DistinctConstants
    <3> QED
      BY <2>1, <3>1, <3>3, <3>4, <1>0
  <2> QED
    BY <2>2, <2>3
<1>3. ASSUME NEW x \in Txs, WritePreflight(x) \/ WriteTrack(x) PROVE SidecarAgrees'
  <2>1. UNCHANGED <<cluster, sidecar, synced>>
    BY <1>3, WriteRowEffect
  <2>2. \A t \in Tracks : track[t].ep \in Endpoints =>
            track'[t].ep = track[t].ep /\ track'[t].core \in {None, track[t].core}
    BY <1>3, WriteRowEffect, DistinctConstants
  <2> QED
    BY <1>0, <1>a, <2>1, <2>2 DEF SidecarAgrees
<1>4. CASE Ordinary
  <2>o. synced' \subseteq synced /\ \A e \in synced' : cluster'[e] = cluster[e] /\ cluster[e] \in Cores
    BY <1>4, <1>a, OrdinarySynced
  <2>1. ASSUME NEW e \in Endpoints, NEW c \in Cores \cup {None}, SaveEndpoint(e, c)
        PROVE  SidecarAgrees'
    BY <2>1, <2>o, <1>0, <1>a DEF SaveEndpoint, SidecarAgrees
  <2>2. ASSUME NEW c \in Cores, NEW t \in Tracks \cup {None}, SaveSidecar(c, t)
        PROVE  SidecarAgrees'
    BY <2>2, <2>o, <1>0, <1>a DEF SaveSidecar, SidecarAgrees
  <2>3. ASSUME NEW c \in Cores, DeleteSidecar(c) PROVE SidecarAgrees'
    BY <2>3, <2>o, <1>0, <1>a, DistinctConstants DEF DeleteSidecar, SidecarAgrees, NoSidecar
  <2>4. ASSUME NEW c \in Cores, DeleteCluster(c) PROVE SidecarAgrees'
    <3>1. \A t \in Tracks : track'[t].ep = track[t].ep /\ track'[t].core \in {None, track[t].core}
      BY <2>4, <1>0 DEF DeleteCluster, Track
    <3>2. \A e \in synced' : sidecar'[cluster[e]] = sidecar[cluster[e]]
      BY <2>4, <2>o, <1>0 DEF DeleteCluster
    <3> QED
      BY <2>o, <3>1, <3>2, <1>a DEF SidecarAgrees
  <2>5. ASSUME NEW t \in Tracks, DeleteTrack(t) PROVE SidecarAgrees'
    <3>1. \A c \in Cores : \/ sidecar'[c].link = sidecar[c].link /\ sidecar[c].link # t
                           \/ sidecar'[c].link = None
      BY <2>5, <1>0 DEF DeleteTrack, Unlink
    <3>2. \A u \in Tracks : u # t => track'[u] = track[u]
      BY <2>5, <1>0 DEF DeleteTrack
    <3> QED
      BY <2>o, <3>1, <3>2, <1>0, <1>a, DistinctConstants DEF SidecarAgrees
  <2>6. ASSUME NEW e \in Endpoints, DeleteEndpoint(e) PROVE SidecarAgrees'
    <3>1. \A c \in Cores : \/ sidecar'[c].link = sidecar[c].link /\ sidecar[c].link \notin TracksOf(e)
                           \/ sidecar'[c].link = None
      BY <2>6, <1>0 DEF DeleteEndpoint, Unlink
    <3>2. \A u \in Tracks \ TracksOf(e) : track'[u] = track[u]
      BY <2>6, <1>0 DEF DeleteEndpoint, TracksOf
    <3> QED
      BY <2>o, <3>1, <3>2, <1>0, <1>a, DistinctConstants DEF SidecarAgrees
  <2> QED
    BY <1>4, <2>1, <2>2, <2>3, <2>4, <2>5, <2>6 DEF Ordinary
<1> QED
  BY <1>1, <1>2, <1>3, <1>4, RowsChange

LEMMA AgreementStep == TypeOK /\ Locking /\ Agreement /\ [Next]_vars => Agreement'
<1> SUFFICES ASSUME TypeOK, Locking, Agreement, [Next]_vars PROVE Agreement'
  OBVIOUS
<1>1. TypeOK'
  BY NextType
<1>2. synced' \subseteq present'
  BY SyncedPresent DEF Agreement
<1> QED
  BY <1>1, <1>2, SyncedStep, SidecarStep DEF Agreement

LEMMA AgreementHolds == Spec => []Agreement
BY InitAgreement, AgreementStep, TypeCorrect, LockingHolds, PTL DEF Spec

(* A synchronised cluster has one owner in every relation, whatever legacy *)
(* rows surround it: save(), the preflight and synchronize_cluster never   *)
(* let a second endpoint near it.                                          *)
THEOREM OwnershipIsExclusive == Spec => []SyncedIsExclusive
<1>1. Agreement => SyncedIsExclusive
  BY DEF Agreement
<1> QED
  BY <1>1, AgreementHolds, PTL

(* The sync-state sidecar of a synchronised cluster vouches only for the   *)
(* owner's tracking row.                                                   *)
THEOREM SidecarsAgree == Spec => []SidecarAgrees
<1>1. Agreement => SidecarAgrees
  BY DEF Agreement
<1> QED
  BY <1>1, AgreementHolds, PTL

(***************************************************************************)
(* No step makes an ambiguity.                                             *)
(***************************************************************************)

NoneAdded ==
    /\ \A d, e \in Endpoints : d # e =>
            Claims(d)' \cap Claims(e)' \subseteq Claims(d) \cap Claims(e)
    /\ \A e \in Endpoints : \A b, c \in Cores :
            b # c /\ {b, c} \subseteq Claims(e)' => {b, c} \subseteq Claims(e)

(* Steps under which every endpoint's claims shrink, but for one endpoint   *)
(* that ends up with a single claim nobody else has.                       *)
LEMMA ShrinkingClaims ==
    ASSUME NEW e,
           \A d \in Endpoints \ {e} : Claims(d)' \subseteq Claims(d),
           e \in Endpoints =>
              \/ Claims(e)' \subseteq Claims(e)
              \/ \E c \in Cores : /\ Claims(e)' \subseteq {c}
                                  /\ \A d \in Endpoints \ {e} : c \notin Claims(d)
    PROVE  NoneAdded
BY DEF NoneAdded

LEMMA AmbiguityStep ==
    ASSUME TypeOK, TypeOK', [Next]_vars
    PROVE  NoneAdded
<1>0. cluster \in [Endpoints -> Cores \cup {None}]
  BY DEF TypeOK
<1>1. CASE UNCHANGED rows
  BY <1>1 DEF rows, NoneAdded, Claims, LinkedCores, TracksOf
<1>2. ASSUME NEW x \in Txs, WriteSync(x) PROVE NoneAdded
  <2>0. PICK e : e = tx[x].ep
    OBVIOUS
  <2>2. PICK c \in Cores :
             /\ \A d \in Endpoints \ {e} : /\ cluster'[d] = cluster[d]
                                           /\ LinkedCores(d)' \subseteq LinkedCores(d)
                                           /\ cluster[d] # c /\ c \notin LinkedCores(d)
             /\ e \in Endpoints => cluster'[e] = c /\ LinkedCores(e)' \subseteq {c}
    BY <2>0, <1>2, SyncClaims
  <2>3. \A d \in Endpoints \ {e} : Claims(d)' \subseteq Claims(d) /\ c \notin Claims(d)
    BY <2>2 DEF Claims
  <2>4. e \in Endpoints => Claims(e)' \subseteq {c}
    BY <2>2 DEF Claims
  <2> QED
    BY <2>3, <2>4, ShrinkingClaims
<1>3. ASSUME NEW x \in Txs, WritePreflight(x) \/ WriteTrack(x) PROVE NoneAdded
  <2>0. PICK e : e = tx[x].ep
    OBVIOUS
  <2>1. UNCHANGED cluster
    BY <1>3, WriteRowEffect
  <2>2. CASE UNCHANGED track
    BY <2>1, <2>2 DEF NoneAdded, Claims, LinkedCores, TracksOf
  <2>3. CASE ~UNCHANGED track
    <3>1. /\ \A d \in Endpoints \ {e} : LinkedCores(d)' \subseteq LinkedCores(d)
          /\ \/ LinkedCores(e)' \subseteq LinkedCores(e)
             \/ \E c \in Cores : /\ LinkedCores(e)' = {c} /\ cluster[e] \in {None, c}
                                 /\ Unclaimed(e, c)
      BY <2>0, <1>3, <2>3, WriteRowEffect, RowClaims
    <3>2. \A d \in Endpoints \ {e} : Claims(d)' \subseteq Claims(d)
      BY <2>1, <3>1 DEF Claims
    <3>3. CASE LinkedCores(e)' \subseteq LinkedCores(e)
      BY <2>1, <3>2, <3>3, ShrinkingClaims DEF Claims
    <3>4. ASSUME NEW c \in Cores, LinkedCores(e)' = {c}, cluster[e] \in {None, c},
                 Unclaimed(e, c)
          PROVE  NoneAdded
      <4>1. Claims(e)' \subseteq {c}
        BY <2>1, <3>4 DEF Claims
      <4>2. \A d \in Endpoints \ {e} : c \notin Claims(d)
        BY <3>4 DEF Claims, Unclaimed
      <4> QED
        BY <3>2, <4>1, <4>2, ShrinkingClaims
    <3> QED
      BY <3>1, <3>3, <3>4
  <2> QED
    BY <2>2, <2>3
<1>4. CASE Ordinary
  <2>1. \A d \in Endpoints : Claims(d)' \subseteq Claims(d)
    BY <1>4, OrdinaryClaims DEF Claims
  <2> QED
    BY <2>1 DEF NoneAdded
<1> QED
  BY <1>1, <1>2, <1>3, <1>4, RowsChange

(* Whatever the interleaving of synchronisation, preflight, forms and      *)
(* deletions, an ambiguity between endpoints is legacy data, never made.   *)
THEOREM AmbiguityIsLegacy == Spec => NoNewAmbiguity
<1>1. TypeOK /\ TypeOK' /\ [Next]_vars => NoneAdded
  BY AmbiguityStep
<1>2. TypeOK /\ TypeOK' /\ [Next]_vars => [NoneAdded]_<<cluster, track>>
  BY <1>1
<1> QED
  BY <1>2, TypeCorrect, PTL DEF Spec, NoNewAmbiguity, NoneAdded

(***************************************************************************)
(* The lock order.                                                         *)
(***************************************************************************)

(* A transaction that holds all its locks waits for nobody; one that holds *)
(* an endpoint waits only for one that also holds a cluster, and one that  *)
(* holds nothing only for one that holds an endpoint.  So if everybody     *)
(* waits, some preflights hold the clusters that others of them need: the  *)
(* tracking rows of the endpoints they lock link in a ring.                *)
THEOREM LockOrderIsSafe == Spec => []NoDeadlock
<1>1. TypeOK /\ Locking => NoDeadlock
  <2> SUFFICES ASSUME TypeOK, Locking, NEW x \in Txs, tx[x].at # "idle",
                      \A y \in Txs : tx[y].at # "idle" => Waiting(y)
               PROVE  Ring
    BY DEF NoDeadlock
  <2> DEFINE L == {y \in Txs : tx[y].at = "link"}
             D == {tx[y].ep : y \in L}
  <2>1. \A y \in Txs : tx[y].at # "locked"
    BY DEF Waiting
  <2>2. ASSUME NEW y \in Txs, tx[y].at = "endpoint" PROVE L # {}
    BY <2>1, <2>2 DEF Waiting, CoreFree, HoldsCore
  <2>3. ASSUME NEW y \in Txs, tx[y].at = "begun" PROVE L # {}
    <3>1. PICK z \in Txs : Holding(z)
      BY <2>3 DEF Waiting, EndpointFree, HoldsEndpoint
    <3> QED
      BY <2>1, <2>2, <3>1 DEF Holding
  <2>4. L # {}
    BY <2>1, <2>2, <2>3, TxFields DEF TypeOK
  <2>5. ASSUME NEW y \in L
        PROVE  /\ tx[y].ep \in Endpoints /\ cluster[tx[y].ep] = tx[y].core /\ tx[y].core # None
               /\ track[tx[y].row].core \in LinkedCores(tx[y].ep)
               /\ track[tx[y].row].core # tx[y].core
    <3>1. Holding(y) /\ PreflightKnows(y) /\ tx[y].kind = "preflight" /\ tx[y].ep \in present
      BY DEF Locking, Knows, Holding
    <3>2. tx[y].row \in Tracks /\ tx[y].ep \in Endpoints
      BY <3>1, TxFields DEF PreflightKnows, TypeOK
    <3> QED
      BY <3>1, <3>2 DEF PreflightKnows, LinkedCores, TracksOf
  <2>6. ASSUME NEW y \in L
        PROVE  \E z \in L : tx[z].core = track[tx[y].row].core
    BY <2>1 DEF Waiting, CoreFree, HoldsCore
  <2>7. ASSUME NEW e \in D
        PROVE  e \in Endpoints /\ cluster[e] # None
               /\ \E d \in D \ {e} : cluster[d] \in LinkedCores(e)
    <3>1. PICK y \in L : e = tx[y].ep
      OBVIOUS
    <3>2. PICK z \in L : tx[z].core = track[tx[y].row].core
      BY <2>6
    <3>3. tx[z].ep \in D /\ cluster[tx[z].ep] = track[tx[y].row].core
      BY <2>5, <3>2
    <3> QED
      BY <2>5, <3>1, <3>3
  <2>8. D \in SUBSET Endpoints /\ D # {}
    BY <2>4, <2>7
  <2> QED
    BY <2>7, <2>8 DEF Ring
<1> QED
  BY <1>1, TypeCorrect, LockingHolds, PTL

(***************************************************************************)
(* Refinement.                                                             *)
(***************************************************************************)

gone == (Endpoints \ present) \cup {c \in Cores : native[c] = "gone"}

(* The backfill gives a cluster only to an endpoint without one, and only  *)
(* one nobody owns or links to: owners stay unique.                        *)
LEMMA BackfilledUnique ==
    ASSUME NEW retained \in [Endpoints -> Cores \cup {None}],
           \A d, e \in Endpoints : d # e /\ retained[d] # None => retained[d] # retained[e],
           NEW d \in Endpoints, NEW e \in Endpoints, d # e,
           Backfilled(retained)[d] # None
    PROVE  Backfilled(retained)[d] # Backfilled(retained)[e]
<1> DEFINE free(f) == {c \in LegacyCluster(f) : \A g \in Endpoints \ {f} : retained[g] # c}
<1>1. ASSUME NEW f \in Endpoints
      PROVE  \/ Backfilled(retained)[f] = retained[f]
             \/ Backfilled(retained)[f] \in free(f)
  BY DEF Backfilled
<1>2. \A f \in Endpoints : \A c \in free(f) :
         /\ c \in LinkedCores(f) /\ \A g \in Endpoints \ {f} : retained[g] # c /\ c \notin LinkedCores(g)
  BY DEF LegacyCluster
<1> HIDE DEF free
<1> QED
  BY <1>1, <1>2

LEMMA InitOwnership == Init => Ownership!Init
<1> SUFFICES ASSUME Init PROVE Ownership!Init
  OBVIOUS
<1>1. TypeOK
  BY InitType
<1>2. PICK retained \in [Endpoints -> {c \in Cores : native[c] = "live"} \cup {None}] :
          /\ \A d, e \in Endpoints : d # e /\ retained[d] # None => retained[d] # retained[e]
          /\ cluster = Backfilled(retained)
  BY DEF Init
<1>3. retained \in [Endpoints -> Cores \cup {None}]
  OBVIOUS
<1>4. \A d, e \in Endpoints : d # e /\ cluster[d] # None => cluster[d] # cluster[e]
  BY <1>2, <1>3, BackfilledUnique
<1>5. \A c \in Cores : \A d, e \in Ownership!Owners(c) : d = e
  BY <1>4, DistinctConstants DEF Ownership!Owners
<1> QED
  BY <1>1, <1>5 DEF Ownership!Init, TypeOK

LEMMA OwnershipStep ==
    ASSUME TypeOK, Locking, [Next]_vars
    PROVE  Ownership!Next \/ UNCHANGED <<cluster, gone>>
<1>0. /\ cluster \in [Endpoints -> Cores \cup {None}] /\ present \subseteq Endpoints
      /\ native \in [Cores -> {"unused", "live", "gone"}] /\ tx \in [Txs -> Tx]
  BY DEF TypeOK, Tx
<1>1. CASE UNCHANGED rows
  BY <1>1 DEF rows, gone
<1>2. ASSUME NEW x \in Txs, WriteSync(x)
      PROVE  Ownership!Next \/ UNCHANGED <<cluster, gone>>
  <2>0. PICK e : e = tx[x].ep
    OBVIOUS
  <2>1. PICK c \in Cores :
          /\ (tx[x].core = None /\ native[c] = "unused") \/ tx[x].core = c
          /\ Unclaimed(e, c)
          /\ native' = [native EXCEPT ![c] = "live"]
          /\ cluster' = [cluster EXCEPT ![e] = c]
          /\ present' = present
    BY <2>0, <1>2, WriteSyncEffect
  <2>2. e \in Endpoints /\ SyncKnows(x) /\ Holding(x) /\ tx[x].kind = "sync" /\ tx[x].at = "locked"
    BY <2>0, <1>2, <1>0 DEF WriteSync, Holding, Locking, Knows
  <2>3. cluster[e] \in {None, c} /\ native[c] # "gone"
    BY <2>0, <2>1, <2>2, DistinctConstants DEF SyncKnows
  <2>4. UNCHANGED gone
    BY <2>1, <2>3, <1>0 DEF gone
  <2>5. CASE cluster[e] = c
    BY <2>1, <2>2, <2>4, <2>5, <1>0
  <2>6. CASE cluster[e] = None
    <3>1. Ownership!Owners(c) = {}
      BY <2>1, <2>6, DistinctConstants DEF Ownership!Owners, Unclaimed
    <3>2. c \notin gone
      BY <2>3, DistinctConstants DEF gone
    <3>3. Ownership!Claim(e, c)
      BY <2>1, <2>4, <2>6, <3>1, <3>2 DEF Ownership!Claim, gone
    <3> QED
      BY <2>2, <3>3 DEF Ownership!Next
  <2> QED
    BY <2>3, <2>5, <2>6
<1>3. ASSUME NEW x \in Txs, WritePreflight(x) \/ WriteTrack(x)
      PROVE  UNCHANGED <<cluster, gone>>
  BY <1>3, WriteRowEffect DEF gone
<1>4. ASSUME NEW e \in Endpoints, NEW c \in Cores \cup {None}, SaveEndpoint(e, c)
      PROVE  Ownership!Next \/ UNCHANGED <<cluster, gone>>
  <2>1. cluster' = cluster
    BY <1>4, <1>0 DEF SaveEndpoint, Locking
  <2>2. CASE e \in present
    BY <1>4, <2>1, <2>2 DEF SaveEndpoint, gone
  <2>3. CASE e \notin present
    <3>1. gone' = gone \ {e} /\ cluster[e] = None
      BY <1>4, <2>3, <1>0, DistinctConstants DEF SaveEndpoint, gone, Locking
    <3>2. Ownership!Reinsert(e)
      BY <2>1, <3>1 DEF Ownership!Reinsert, gone
    <3> QED
      BY <3>2 DEF Ownership!Next
  <2> QED
    BY <2>2, <2>3
<1>5. ASSUME NEW c \in Cores, DeleteCluster(c) PROVE Ownership!Next
  <2>1. gone' = gone \cup {c}
    BY <1>5, <1>0 DEF DeleteCluster, gone
  <2>2. Ownership!DeleteCluster(c)
    BY <1>5, <2>1 DEF DeleteCluster, Ownership!DeleteCluster, gone
  <2> QED
    BY <2>2 DEF Ownership!Next
<1>6. ASSUME NEW e \in Endpoints, DeleteEndpoint(e) PROVE Ownership!Next
  <2>1. gone' = gone \cup {e}
    BY <1>6, <1>0, DistinctConstants DEF DeleteEndpoint, gone
  <2>2. Ownership!DeleteEndpoint(e)
    BY <1>6, <2>1 DEF DeleteEndpoint, Ownership!DeleteEndpoint, gone
  <2> QED
    BY <2>2 DEF Ownership!Next
<1>7. ASSUME UNCHANGED <<present, cluster, native>> PROVE UNCHANGED <<cluster, gone>>
  BY <1>7 DEF gone
<1>8. CASE Ordinary
  BY <1>8, <1>4, <1>5, <1>6, <1>7 DEF Ordinary, SaveSidecar, DeleteSidecar, DeleteTrack
<1> QED
  BY <1>1, <1>2, <1>3, <1>8, RowsChange

(* Locks, checks and cascades together implement "claimed once, released   *)
(* only by deletion".                                                      *)
THEOREM BindingImplementsOwnership == Spec => ImplementsOwnership
<1>1. TypeOK /\ Locking /\ [Next]_vars => [Ownership!Next]_<<cluster, gone>>
  BY OwnershipStep
<1> QED
  BY <1>1, LockingHolds, InitOwnership, TypeCorrect, PTL DEF Spec, ImplementsOwnership, Ownership!Spec, gone
=============================================================================
