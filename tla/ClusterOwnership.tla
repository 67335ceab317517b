-------------------------- MODULE ClusterOwnership --------------------------
(***************************************************************************)
(* What cluster synchronisation promises: every native cluster has at most *)
(* one owning endpoint and an endpoint owns at most one cluster; a cluster *)
(* nobody owns may be claimed, and ownership ends only when the cluster or *)
(* the endpoint is deleted.  It is never handed from one to another.       *)
(***************************************************************************)
CONSTANTS Endpoints, Cores, None

VARIABLES owned,    \* endpoint -> the cluster it owns, or None
          gone      \* the clusters and endpoints that have been deleted

Owners(c) == {e \in Endpoints : owned[e] = c}

Init == /\ owned \in [Endpoints -> Cores \cup {None}]
        /\ gone \in SUBSET (Endpoints \cup Cores)
        /\ \A c \in Cores : \A d, e \in Owners(c) : d = e

Claim(e, c) == /\ owned[e] = None /\ Owners(c) = {} /\ c \notin gone
               /\ owned' = [owned EXCEPT ![e] = c]
               /\ UNCHANGED gone

DeleteCluster(c) == /\ gone' = gone \cup {c}
                    /\ owned' = [e \in Endpoints |->
                                    IF owned[e] = c THEN None ELSE owned[e]]

DeleteEndpoint(e) == /\ gone' = gone \cup {e}
                     /\ owned' = [owned EXCEPT ![e] = None]

\* A save of an instance of a deleted endpoint inserts the row again.
Reinsert(e) == /\ gone' = gone \ {e} /\ owned[e] = None
               /\ UNCHANGED owned

Next == \/ \E e \in Endpoints, c \in Cores : Claim(e, c)
        \/ \E c \in Cores : DeleteCluster(c)
        \/ \E e \in Endpoints : DeleteEndpoint(e) \/ Reinsert(e)

Spec == Init /\ [][Next]_<<owned, gone>>
=============================================================================
