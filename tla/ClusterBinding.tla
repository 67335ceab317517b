--------------------------- MODULE ClusterBinding ---------------------------
(***************************************************************************)
(* Which native NetBox cluster belongs to which Proxmox endpoint.  Three   *)
(* relations say so: ProxmoxEndpoint.netbox_cluster, the tracking rows     *)
(* (ProxmoxCluster) and the cluster's sync-state sidecar.  Every writer    *)
(* runs in a transaction that locks the endpoint's row, then the native    *)
(* cluster's, validates, writes and commits; a refusal rolls back.  A      *)
(* transaction's own writes are seen by nobody before it commits, so each  *)
(* one is a step per lock it may wait for and one step that validates,     *)
(* writes and commits.  Deletions and ordinary saves are one step.         *)
(***************************************************************************)
EXTENDS Naturals, FiniteSets

CONSTANTS Endpoints, Cores, Tracks, Names,
          Txs,      \* database connections, each runs one transaction at a time
          None

ASSUME DistinctConstants ==
    /\ None \notin Endpoints \cup Cores \cup Tracks \cup Names
    /\ Endpoints \cap Cores = {}

VARIABLES
    present,  \* endpoints whose row exists
    cluster,  \* ProxmoxEndpoint.netbox_cluster
    native,   \* core cluster -> "unused", "live" or "gone" (pks are not reused)
    track,    \* tracking row -> its endpoint (None: no row), core and name
    sidecar,  \* core cluster -> [row, link]: ProxboxClusterSyncState
    tx,       \* connection -> the transaction it runs
    synced    \* history: endpoints whose binding synchronize_cluster committed

vars == <<present, cluster, native, track, sidecar, tx, synced>>
rows == <<present, cluster, native, track, sidecar, synced>>

Kinds == {"sync", "preflight", "track"}

NoTrack == [ep |-> None, core |-> None, name |-> None]
NoSidecar == [row |-> FALSE, link |-> None]

\* at: "idle", "begun" (a caller's instance, to be saved), "endpoint" (holds the
\* endpoint row, waits for core), "link" (a preflight that holds core and waits
\* for another one its tracking row links to), "locked" (holds all it needs).
Idle == [kind |-> "sync", at |-> "idle", ep |-> None, core |-> None,
         name |-> None, row |-> None]

Running == [kind : Kinds, at : {"begun", "endpoint", "link", "locked"}, ep : Endpoints,
            core : Cores \cup {None}, name : Names, row : Tracks \cup {None}]

TypeOK ==
    /\ present \subseteq Endpoints
    /\ cluster \in [Endpoints -> Cores \cup {None}]
    /\ native \in [Cores -> {"unused", "live", "gone"}]
    /\ track \in [Tracks -> [ep : Endpoints \cup {None},
                             core : Cores \cup {None}, name : Names \cup {None}]]
    /\ sidecar \in [Cores -> [row : BOOLEAN, link : Tracks \cup {None}]]
    /\ tx \in [Txs -> {Idle} \cup Running]
    /\ synced \subseteq Endpoints

-----------------------------------------------------------------------------
(* Row locks (SELECT ... FOR UPDATE, held until the transaction ends).     *)

Holding(x) == tx[x].at \in {"endpoint", "link", "locked"}

HoldsEndpoint(x, e) == Holding(x) /\ tx[x].ep = e
\* Mutant: ProxmoxCluster.save locks the native cluster before the endpoint.
HoldsCore_CoreFirst(x, c) == tx[x].at \in {"begun", "link", "locked"} /\ tx[x].core = c
HoldsCore(x, c) == tx[x].at \in {"link", "locked"} /\ tx[x].core = c
\* The preflight locks the tracking row it has selected; a save of a tracking
\* row and synchronize_cluster write theirs in their last step.
HoldsTrack(x, t) == Holding(x) /\ tx[x].kind = "preflight" /\ tx[x].row = t

\* Mutant: synchronize_cluster reads the endpoint without FOR UPDATE.
EndpointFree_NoLock(e) == TRUE
EndpointFree(e) == \A x \in Txs : ~HoldsEndpoint(x, e)
CoreFree(c) == \A x \in Txs : ~HoldsCore(x, c)
TrackFree(t) == \A x \in Txs : ~HoldsTrack(x, t)

\* Whether x is queued for a row that another transaction has locked.
Waiting(x) ==
    \/ tx[x].at = "begun" /\ ~EndpointFree(tx[x].ep)
    \/ tx[x].at = "endpoint" /\ ~CoreFree(tx[x].core)
    \/ tx[x].at = "link" /\ ~CoreFree(track[tx[x].row].core)

-----------------------------------------------------------------------------
(* Who claims what.                                                        *)

Exists(t) == track[t].ep # None
TracksOf(e) == {t \in Tracks : track[t].ep = e}
Linked(e, c) == {t \in TracksOf(e) : track[t].core = c}
LinkedCores(e) == {track[t].core : t \in TracksOf(e)} \ {None}
Named(e, n) == {t \in TracksOf(e) : track[t].name = n}

\* No other endpoint owns c, and no other endpoint's tracking row links to it.
Unclaimed(e, c) == \A d \in Endpoints \ {e} : cluster[d] # c /\ c \notin LinkedCores(d)

\* legacy_cluster_id: the one core e's tracking rows agree on, nobody else's.
LegacyCluster(e) == {c \in Cores : /\ LinkedCores(e) = {c}
                                   /\ \A d \in Endpoints \ {e} : c \notin LinkedCores(d)}

\* The data migration over tracking rows that link as they did and owners that
\* an earlier upgrade left in the column: an owner stays, and an endpoint
\* without a cluster is bound if its pair is unambiguous in both relations.
Backfilled(retained) ==
    LET free(e) == {c \in LegacyCluster(e) : \A d \in Endpoints \ {e} : retained[d] # c}
    IN  [e \in Endpoints |-> IF retained[e] # None \/ free(e) = {} THEN retained[e]
                             ELSE CHOOSE c \in free(e) : TRUE]

-----------------------------------------------------------------------------
(* Transactions end by committing or by being refused.                     *)

End(x) == tx' = [tx EXCEPT ![x] = Idle]

\* A disabled endpoint, a missing permission, a validation or integrity error, a
\* row that is gone, or the database ending a wait it finds circular: the
\* exception rolls everything back.  A mode that writes nothing ends like this too.
Refuse(x) == tx[x].at # "idle" /\ End(x) /\ UNCHANGED rows

-----------------------------------------------------------------------------
(* synchronize_cluster.                                                    *)

\* With the endpoint row locked: its own cluster, else the legacy one, else a
\* cluster to create.  Ambiguous legacy links are refused.
LockEndpointSync(x, e, n) ==
    LET w == [Idle EXCEPT !.ep = e, !.name = n] IN
    /\ tx[x].at = "idle" /\ e \in present /\ EndpointFree(e)
    /\ \/ \E c \in IF cluster[e] # None THEN {cluster[e]} ELSE LegacyCluster(e) :
            tx' = [tx EXCEPT ![x] = [w EXCEPT !.at = "endpoint", !.core = c]]
       \/ /\ cluster[e] = None /\ LinkedCores(e) = {}
          /\ tx' = [tx EXCEPT ![x] = [w EXCEPT !.at = "locked"]]
    /\ UNCHANGED rows

LockCoreSync(x) ==
    LET e == tx[x].ep
        c == tx[x].core IN
    /\ tx[x].kind = "sync" /\ tx[x].at = "endpoint" /\ CoreFree(c)
    /\ native[c] = "live"
    /\ Unclaimed(e, c) /\ LinkedCores(e) \subseteq {c}
    /\ tx' = [tx EXCEPT ![x].at = "locked"]
    /\ UNCHANGED rows

\* _tracking: the linked row, else the row of that name, else a new one.
TrackingRow(e, c, n) ==
    IF Linked(e, c) # {}
    THEN {t \in Linked(e, c) : Linked(e, c) = {t} /\ Named(e, n) \subseteq {t}}
    ELSE IF Named(e, n) # {} THEN Named(e, n) ELSE {t \in Tracks : ~Exists(t)}

WriteSync(x) ==
    LET e == tx[x].ep
        n == tx[x].name IN
    /\ tx[x].kind = "sync" /\ tx[x].at = "locked"
    /\ \E c \in IF tx[x].core # None THEN {tx[x].core}
                ELSE {d \in Cores : native[d] = "unused"} :
       \E t \in TrackingRow(e, c, n) :
        /\ \A d \in Endpoints \ {e} : cluster[d] # c
        /\ track[t].core \in {None, c}
        /\ Unclaimed(e, c)
        /\ \A u \in TracksOf(e) \ {t} : track[u].core \in {None, c}
        /\ sidecar[c].link \in {None, t}
        /\ native' = [native EXCEPT ![c] = "live"]
        /\ cluster' = [cluster EXCEPT ![e] = c]
        /\ track' = [track EXCEPT ![t] = [ep |-> e, core |-> c, name |-> n]]
        /\ sidecar' = [sidecar EXCEPT ![c] = [row |-> TRUE, link |-> t]]
    /\ synced' = synced \cup {e}
    /\ End(x)
    /\ UNCHANGED present

-----------------------------------------------------------------------------
(* The sync job's preflight (_sync_cluster_record), and ProxmoxCluster.save.*)

\* The row the preflight updates: linked to the endpoint's cluster, or named;
\* None if it will insert one.  Two candidates are refused.
PreflightRow(e, n) ==
    IF cluster[e] # None /\ Linked(e, cluster[e]) # {}
    THEN {t \in Linked(e, cluster[e]) :
            Linked(e, cluster[e]) = {t} /\ Named(e, n) \subseteq {t}}
    ELSE IF Named(e, n) # {} THEN Named(e, n) ELSE {None}

LinkOf(t) == IF t = None THEN None ELSE track[t].core

\* The endpoint's own cluster is locked before a tracking row is selected; an
\* unbound endpoint selects at once, and the save locks what the row links to.
LockEndpointPreflight(x, e, n) ==
    LET w == [Idle EXCEPT !.kind = "preflight", !.ep = e, !.name = n] IN
    /\ tx[x].at = "idle" /\ e \in present /\ EndpointFree(e)
    /\ \/ /\ cluster[e] # None
          /\ tx' = [tx EXCEPT ![x] = [w EXCEPT !.at = "endpoint", !.core = cluster[e]]]
       \/ /\ cluster[e] = None
          /\ \E t \in PreflightRow(e, n) :
                tx' = [tx EXCEPT ![x] =
                        [w EXCEPT !.at = IF LinkOf(t) = None THEN "locked" ELSE "endpoint",
                                  !.core = LinkOf(t), !.row = t]]
    /\ UNCHANGED rows

\* A selected row that links elsewhere makes the save lock a second cluster,
\* and only then refuse.
LockCorePreflight(x) ==
    LET w == tx[x] IN
    /\ w.kind = "preflight" /\ w.at = "endpoint"
    /\ CoreFree(w.core) /\ native[w.core] = "live"
    /\ \E t \in IF w.row # None THEN {w.row} ELSE PreflightRow(w.ep, w.name) :
          tx' = [tx EXCEPT ![x].row = t,
                           ![x].at = IF LinkOf(t) \in {None, w.core} THEN "locked" ELSE "link"]
    /\ UNCHANGED rows

\* Mutant: the two foreign keys are swapped.
BeginTrack_Swapped(x, t, e, c, n) ==
    /\ tx[x].at = "idle"
    /\ tx' = [tx EXCEPT ![x] = [kind |-> "track", at |-> "begun", ep |-> c,
                                core |-> e, name |-> n, row |-> t]]
    /\ UNCHANGED rows

\* A tracking row written by a form or the API: a new one, or a loaded copy that
\* may be stale by the time it is saved.  The caller may carry any link.
BeginTrack(x, t, e, c, n) ==
    /\ tx[x].at = "idle" /\ track[t].ep \in {None, e}
    /\ tx' = [tx EXCEPT ![x] = [kind |-> "track", at |-> "begun", ep |-> e,
                                core |-> c, name |-> n, row |-> t]]
    /\ UNCHANGED rows

LockEndpointTrack(x) ==
    /\ tx[x].kind = "track" /\ tx[x].at = "begun" /\ EndpointFree(tx[x].ep)
    /\ tx[x].ep \in present
    /\ tx' = [tx EXCEPT ![x].at = IF tx[x].core = None THEN "locked" ELSE "endpoint"]
    /\ UNCHANGED rows

LockCoreTrack(x) ==
    /\ tx[x].kind = "track" /\ tx[x].at = "endpoint"
    /\ CoreFree(tx[x].core) /\ native[tx[x].core] = "live"
    /\ tx' = [tx EXCEPT ![x].at = "locked"]
    /\ UNCHANGED rows

\* Mutant: save() no longer validates the claim, only the row's identity.
ValidTracking_NoClaims(t, e, c, n) ==
    (Exists(t) => track[t].ep = e) /\ Named(e, n) \subseteq {t}

\* _validate_binding without a permit, for row t to become [e, c, n]: the row
\* keeps its endpoint, its link is kept or cleared, and a kept link is refused
\* while anything else claims it or the endpoint claims something else.
ValidTracking(t, e, c, n) ==
    /\ Exists(t) => track[t].ep = e
    /\ c \in {None, track[t].core}
    /\ c # None => /\ cluster[e] \in {None, c}
                   /\ Unclaimed(e, c)
                   /\ \A u \in TracksOf(e) \ {t} : track[u].core \in {None, c}
    /\ Named(e, n) \subseteq {t}

WritePreflight(x) ==
    LET e == tx[x].ep
        n == tx[x].name IN
    /\ tx[x].kind = "preflight" /\ tx[x].at = "locked"
    /\ \E t \in IF tx[x].row # None THEN {tx[x].row} ELSE {u \in Tracks : ~Exists(u)} :
        /\ ValidTracking(t, e, track[t].core, n)
        /\ track' = [track EXCEPT ![t].ep = e, ![t].name = n]
    /\ End(x)
    /\ UNCHANGED <<present, cluster, native, sidecar, synced>>

WriteTrack(x) ==
    LET w == tx[x] IN
    /\ w.kind = "track" /\ w.at = "locked"
    /\ ValidTracking(w.row, w.ep, w.core, w.name)
    /\ track' = [track EXCEPT ![w.row] = [ep |-> w.ep, core |-> w.core, name |-> w.name]]
    /\ End(x)
    /\ UNCHANGED <<present, cluster, native, sidecar, synced>>

-----------------------------------------------------------------------------
(* Ordinary saves of the endpoint and of the sidecar keep the locked row's  *)
(* link; deletions follow the on_delete of each relation.                   *)

\* Mutant: _preserve_cluster_binding is not called: the carried link is written.
SaveEndpoint_Carried(e, c) ==
    /\ EndpointFree(e)
    /\ present' = present \cup {e}
    /\ cluster' = [cluster EXCEPT ![e] = c]
    /\ UNCHANGED <<native, track, sidecar, tx, synced>>

\* save_bound_endpoint: a save of a loaded or new instance that carries link c.
SaveEndpoint(e, c) ==
    /\ EndpointFree(e)
    /\ e \notin present => c = None
    /\ present' = present \cup {e}
    /\ cluster' = [cluster EXCEPT ![e] = IF e \in present THEN cluster[e] ELSE None]
    /\ UNCHANGED <<native, track, sidecar, tx, synced>>

\* Mutant: the sidecar's link is an ordinary field.
SaveSidecar_Carried(c, t) ==
    /\ native[c] = "live" /\ CoreFree(c)
    /\ sidecar' = [sidecar EXCEPT ![c] = [row |-> TRUE, link |-> t]]
    /\ UNCHANGED <<present, cluster, native, track, tx, synced>>

\* ProxboxClusterSyncState.save of a loaded or new instance that carries link t.
SaveSidecar(c, t) ==
    /\ native[c] = "live" /\ CoreFree(c)
    /\ ~sidecar[c].row => t = None
    /\ sidecar' = [sidecar EXCEPT ![c].row = TRUE]
    /\ UNCHANGED <<present, cluster, native, track, tx, synced>>

\* Deleting a native cluster nulls both links to it and cascades its sidecar.
DeleteCluster(c) ==
    /\ native[c] = "live" /\ CoreFree(c)
    /\ \A e \in Endpoints : cluster[e] = c => EndpointFree(e)
    /\ \A t \in Tracks : track[t].core = c => TrackFree(t)
    /\ native' = [native EXCEPT ![c] = "gone"]
    /\ cluster' = [e \in Endpoints |-> IF cluster[e] = c THEN None ELSE cluster[e]]
    /\ track' = [t \in Tracks |-> IF track[t].core = c
                                  THEN [track[t] EXCEPT !.core = None] ELSE track[t]]
    /\ sidecar' = [sidecar EXCEPT ![c] = NoSidecar]
    /\ synced' = {e \in synced : cluster[e] # c}
    /\ UNCHANGED <<present, tx>>

Unlink(T) == [c \in Cores |-> IF sidecar[c].link \in T
                              THEN [sidecar[c] EXCEPT !.link = None] ELSE sidecar[c]]

DeleteTrack(t) ==
    /\ Exists(t) /\ TrackFree(t)
    /\ track' = [track EXCEPT ![t] = NoTrack]
    /\ sidecar' = Unlink({t})
    /\ UNCHANGED <<present, cluster, native, tx, synced>>

DeleteEndpoint(e) ==
    /\ e \in present /\ EndpointFree(e)
    /\ present' = present \ {e}
    /\ cluster' = [cluster EXCEPT ![e] = None]
    /\ track' = [t \in Tracks |-> IF track[t].ep = e THEN NoTrack ELSE track[t]]
    /\ sidecar' = Unlink(TracksOf(e))
    /\ synced' = synced \ {e}
    /\ UNCHANGED <<native, tx>>

DeleteSidecar(c) ==
    /\ sidecar[c].row
    /\ sidecar' = [sidecar EXCEPT ![c] = NoSidecar]
    /\ UNCHANGED <<present, cluster, native, track, tx, synced>>

-----------------------------------------------------------------------------
\* Tracking rows and sidecars as older releases left them, and owners as an
\* earlier upgrade did: the columns' own constraints are all that is known.
Init ==
    /\ present = Endpoints
    /\ native \in [Cores -> {"unused", "live"}]
    /\ track \in [Tracks -> {NoTrack} \cup [ep : Endpoints, core : Cores \cup {None},
                                            name : Names]]
    /\ \A t \in Tracks : /\ track[t].core # None => native[track[t].core] = "live"
                         /\ Exists(t) => Named(track[t].ep, track[t].name) = {t}
    /\ \E retained \in [Endpoints -> {c \in Cores : native[c] = "live"} \cup {None}] :
          /\ \A d, e \in Endpoints : d # e /\ retained[d] # None => retained[d] # retained[e]
          /\ cluster = Backfilled(retained)
    /\ sidecar \in [Cores -> {NoSidecar} \cup [row : {TRUE}, link : Tracks \cup {None}]]
    /\ \A c \in Cores : /\ sidecar[c].row => native[c] = "live"
                        /\ sidecar[c].link # None => Exists(sidecar[c].link)
    /\ tx = [x \in Txs |-> Idle]
    /\ synced = {}

Start(x) ==
    \/ \E e \in Endpoints, n \in Names :
        LockEndpointSync(x, e, n) \/ LockEndpointPreflight(x, e, n)
    \/ \E t \in Tracks, e \in Endpoints, c \in Cores \cup {None}, n \in Names :
        BeginTrack(x, t, e, c, n)

Proceed(x) ==
    \/ LockEndpointTrack(x) \/ LockCoreSync(x) \/ LockCorePreflight(x) \/ LockCoreTrack(x)
    \/ WriteSync(x) \/ WritePreflight(x) \/ WriteTrack(x)
    \/ Refuse(x)

Ordinary ==
    \/ \E e \in Endpoints, c \in Cores \cup {None} : SaveEndpoint(e, c)
    \/ \E c \in Cores, t \in Tracks \cup {None} : SaveSidecar(c, t)
    \/ \E c \in Cores : DeleteCluster(c) \/ DeleteSidecar(c)
    \/ \E t \in Tracks : DeleteTrack(t)
    \/ \E e \in Endpoints : DeleteEndpoint(e)

Next == (\E x \in Txs : Start(x) \/ Proceed(x)) \/ Ordinary

Spec == Init /\ [][Next]_vars

-----------------------------------------------------------------------------
(* Properties.                                                             *)

\* From the commit of synchronize_cluster on, and until its cluster or its row
\* is deleted, an endpoint is the only one that has anything to do with its
\* cluster, in either relation, and has nothing to do with another.  The legacy
\* data around it may be ambiguous, and no database constraint says this of the
\* tracking rows: the lock order and the checks repeated under the locks do
\* (cluster_binding.py, proxmox_cluster.py).
SyncedIsExclusive ==
    \A e \in synced : /\ cluster[e] # None
                      /\ Unclaimed(e, cluster[e])
                      /\ LinkedCores(e) \subseteq {cluster[e]}

\* The sidecar of a synchronised cluster never vouches for a tracking row of
\* another endpoint or of another cluster, whatever legacy sidecars link to
\* (_sidecar, ProxboxClusterSyncState.save).
SidecarAgrees ==
    \A e \in synced : \A t \in Tracks :
        sidecar[cluster[e]].link = t
            => track[t].ep = e /\ track[t].core \in {None, cluster[e]}

\* The native clusters an endpoint has anything to do with.
Claims(e) == LinkedCores(e) \cup ({cluster[e]} \ {None})

\* Legacy data may be ambiguous (two endpoints that claim one cluster, or one
\* endpoint that claims two) and synchronisation refuses it; whatever the
\* interleaving, no writer ever makes an ambiguity that was not there.
NoNewAmbiguity ==
    [][/\ \A d, e \in Endpoints : d # e =>
            Claims(d)' \cap Claims(e)' \subseteq Claims(d) \cap Claims(e)
       /\ \A e \in Endpoints : \A b, c \in Cores :
            b # c /\ {b, c} \subseteq Claims(e)' => {b, c} \subseteq Claims(e)
      ]_<<cluster, track>>

\* Endpoints that own clusters which tracking rows of each other link to, all
\* round: retained owners may be left like this.
Ring == \E D \in SUBSET Endpoints :
            /\ D # {}
            /\ \A e \in D : cluster[e] # None
                           /\ \E d \in D \ {e} : cluster[d] \in LinkedCores(e)

\* Synchronisation, preflight and tracking saves lock the endpoint, then the
\* native cluster, then tracking rows (sync_cluster.py:94), and are never all
\* waiting for each other.  The second cluster that a preflight may have to lock
\* is out of order, but closes a circle only around a ring of legacy links.
NoDeadlock ==
    (\E x \in Txs : tx[x].at # "idle") =>
        Ring \/ \E x \in Txs : tx[x].at # "idle" /\ ~Waiting(x)

\* Ownership is claimed once and never reassigned.
Ownership == INSTANCE ClusterOwnership WITH
    owned <- cluster,
    gone <- (Endpoints \ present) \cup {c \in Cores : native[c] = "gone"}
ImplementsOwnership == Ownership!Spec
=============================================================================
