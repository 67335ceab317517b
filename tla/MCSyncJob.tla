----------------------------- MODULE MCSyncJob -----------------------------
(* Instances of SyncJob: plugin settings with and without isolation, and    *)
(* requests for all endpoints, for a guest on them, or for chosen objects.  *)
EXTENDS SyncJob, TLC

Isolating == [isolate |-> TRUE, loaded |-> TRUE, policy |-> "fail", templates |-> TRUE]
Plain == [Isolating EXCEPT !.isolate = FALSE]
Unloaded == [Isolating EXCEPT !.loaded = FALSE]
Acknowledging == [Isolating EXCEPT !.policy = "acknowledge", !.templates = FALSE]

AllConfigs == {Isolating, Plain, Unloaded, Acknowledging}
OneConfig == {Isolating}
TwoConfigs == {Isolating, Unloaded}

All(kind) == [kind |-> kind, ids |-> {}]
AllRequests == {All("staged"), All("targeted"), All("batch"),
                [kind |-> "staged", ids |-> Endpoints]}
StagedAll == {All("staged")}
BothPaths == {All("staged"), All("batch")}

AnyEndpoint == Permutations(Endpoints)
=============================================================================
