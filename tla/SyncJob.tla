------------------------------ MODULE SyncJob ------------------------------
(***************************************************************************)
(* ProxboxSyncJob: one run of the Proxmox -> NetBox synchronisation, from  *)
(* the enqueue of its NetBox Job row to the row's terminal status.         *)
(*                                                                         *)
(* The run claims the row, resolves branch isolation, provisions a branch, *)
(* proves the backend key and the backend's write identity, runs either    *)
(* the selected-object batch or the local phases followed by the SSE       *)
(* stages, persists what happened and merges the branch.  Around it the    *)
(* operator edits settings and endpoints, the branch changes under it, the *)
(* deadline passes, the web request that enqueued it saves the row late,   *)
(* and the worker may be killed.                                           *)
(***************************************************************************)
EXTENDS Naturals, FiniteSets

CONSTANTS Endpoints,    \* ProxmoxEndpoint rows
          NoEndpoint,   \* endpoint_id None of a whole-run scope failure
          Tenant,       \* the tenant column a batch run fills in
          Requests,     \* inputs of enqueue()
          Configs,      \* plugin settings the operator saves
          MaxAttempts,  \* BACKEND_KEY_RETRY_MAX_ATTEMPTS
          MaxEdits      \* bound on operator edits and worker deaths

Kinds == {"cluster", "firewall", "datacenter", "vm_template"}
Phase == Kinds \X Endpoints
Request == [kind : {"staged", "targeted", "batch"}, ids : SUBSET Endpoints]
Config == [isolate : BOOLEAN, loaded : BOOLEAN, policy : {"fail", "acknowledge"},
           templates : BOOLEAN]

ASSUME SyncJobAssumption ==
    /\ NoEndpoint \notin Endpoints
    /\ Tenant \notin Endpoints
    /\ Requests \subseteq Request
    /\ Configs \subseteq Config
    /\ MaxAttempts \in Nat \ {0}
    /\ MaxEdits \in Nat

VARIABLES
    settings,  \* ProxboxPluginSettings, and whether netbox_branching is loaded
    enabled,   \* ProxmoxEndpoint rows with enabled=True
    expired,   \* the executable part of the job's deadline is used up
    slot,      \* whose NetBox credentials proxbox-api holds
    branch,    \* the run's isolation branch
    main,      \* what the run wrote into the main schema
    inBranch,  \* what the run wrote into its branch
    web,       \* the request that runs enqueue()
    request,   \* the keyword arguments in the RQ payload
    run,       \* the execution of run()
    mem,       \* job.data on the worker's Job instance
    db,        \* the data column of the Job row
    status,    \* the status column of the Job row
    raced,     \* history: enqueue() saved the row after the run had claimed it
    edits

vars == <<settings, enabled, expired, slot, branch, main, inBranch, web, request,
          run, mem, db, status, raced, edits>>

Data == [owner : BOOLEAN,                           \* sync_owner = "rq_job"
         branch : BOOLEAN,                          \* identity of the branch
         passed : SUBSET Phase,                     \* local_phases by status
         warned : SUBSET Phase,
         ran : SUBSET Endpoints,                    \* endpoints whose stages ran
         failed : SUBSET (Endpoints \cup {NoEndpoint}), \* failed endpoint-scopes
         batch : {"none", "ok", "failed"},
         isolation : BOOLEAN,                       \* a branch-isolation failure
         disposition : {"none", "local", "sse", "no_changes"},
         response : {"none", "partial", "final"}]

NoData == [owner |-> FALSE, branch |-> FALSE, passed |-> {}, warned |-> {},
           ran |-> {}, failed |-> {}, batch |-> "none", isolation |-> FALSE,
           disposition |-> "none", response |-> "none"]

Pc == {"idle", "config", "create", "initial", "key", "preflight", "batch",
       "batched", "batch_persist", "activate", "local", "sse", "stage", "backfill", "persist",
       "classify", "conflicts", "merge", "finally", "done", "dead"}

Run == [pc : Pc,
        isolated : BOOLEAN,        \* branch_config is not None
        policy : {"fail", "acknowledge"},
        attempt : 1..MaxAttempts,
        keyed : BOOLEAN,           \* the stored key authenticated
        kind : Kinds,              \* the local phase
        endpoints : SUBSET Endpoints, \* state.endpoint_ids
        scopes : SUBSET Endpoints, \* endpoint scopes of the SSE run or the batch
        todo : SUBSET Endpoints,
        passed : SUBSET Phase,     \* state.phases
        warned : SUBSET Phase,
        ran : SUBSET Endpoints,    \* stages_out
        skipped : SUBSET Endpoints,
        failed : SUBSET (Endpoints \cup {NoEndpoint}),
        batch : {"none", "ok", "failed"},
        verdict : {"none", "completed", "errored"}]

Idle == [pc |-> "idle", isolated |-> FALSE, policy |-> "fail", attempt |-> 1,
         keyed |-> FALSE, kind |-> "cluster", endpoints |-> {}, scopes |-> {},
         todo |-> {}, passed |-> {}, warned |-> {}, ran |-> {}, skipped |-> {},
         failed |-> {}, batch |-> "none", verdict |-> "none"]

Slots == {"none", "foreign", "stale", "ours"}
Branch == [status : {"none", "failed", "ready", "taken", "other", "merged"},
           conflicts : BOOLEAN]

TypeOK ==
    /\ settings \in Config
    /\ enabled \in SUBSET Endpoints
    /\ expired \in BOOLEAN
    /\ slot \in Slots
    /\ branch \in Branch
    /\ main \in SUBSET (Endpoints \cup {Tenant})
    /\ inBranch \in SUBSET Endpoints
    /\ web \in {"enqueue", "queued", "saved"}
    /\ request \in Request
    /\ run \in Run
    /\ run.pc = "finally" => run.verdict # "none"
    /\ mem \in Data
    /\ db \in Data
    /\ status \in {"pending", "running", "completed", "errored"}
    /\ raced \in BOOLEAN
    /\ edits \in 0..MaxEdits

Init ==
    /\ settings \in Configs
    /\ enabled \in SUBSET Endpoints
    /\ expired = FALSE
    /\ slot \in Slots
    /\ branch = [status |-> "none", conflicts |-> FALSE]
    /\ main = {} /\ inBranch = {}
    /\ web = "enqueue"
    /\ request \in Requests
    /\ run = Idle
    /\ mem = NoData /\ db = NoData
    /\ status = "pending"
    /\ raced = FALSE
    /\ edits = 0

environment == <<settings, enabled, expired, web, request, raced, edits>>
inventory == <<branch, main, inBranch>>

-----------------------------------------------------------------------------
(* The web request.  super().enqueue() creates the row and hands the job to *)
(* RQ; the parameters are saved after that, over whatever data holds by     *)
(* then.                                                                    *)
enqueue ==
    /\ web = "enqueue"
    /\ web' = "queued"
    /\ UNCHANGED <<settings, enabled, expired, slot, inventory, request, run, mem,
                   db, status, raced, edits>>

_persist_enqueued_sync_params ==
    /\ web = "queued"
    /\ web' = "saved"
    /\ db' = NoData
    /\ raced' = (run.pc # "idle")
    /\ UNCHANGED <<settings, enabled, expired, slot, inventory, request, run, mem,
                   status, edits>>

-----------------------------------------------------------------------------
(* The operator, the branch and the clock. *)
Edit == edits < MaxEdits /\ edits' = edits + 1

SaveSettings ==
    /\ Edit
    /\ settings' \in Configs
    /\ UNCHANGED <<enabled, expired, slot, inventory, web, request, run, mem, db,
                   status, raced>>

ToggleEndpoint(e) ==
    /\ Edit
    /\ enabled' = IF e \in enabled THEN enabled \ {e} ELSE enabled \cup {e}
    /\ UNCHANGED <<settings, expired, slot, inventory, web, request, run, mem, db,
                   status, raced>>

(* Someone merges the open branch outside the run, with what it holds by    *)
(* then, or archives or breaks it.                                          *)
BranchTaken ==
    /\ Edit
    /\ branch.status = "ready"
    /\ \/ /\ inBranch # {}
          /\ branch' = [branch EXCEPT !.status = "taken"]
          /\ main' = main \cup inBranch
       \/ /\ branch' = [branch EXCEPT !.status = "other"]
          /\ UNCHANGED main
    /\ UNCHANGED <<settings, enabled, expired, slot, inBranch, web, request, run,
                   mem, db, status, raced>>

(* A change on main conflicts with one in the branch.                       *)
ConflictAppears ==
    /\ Edit
    /\ branch.status = "ready" /\ inBranch # {}
    /\ branch' = [branch EXCEPT !.conflicts = TRUE]
    /\ UNCHANGED <<settings, enabled, expired, slot, main, inBranch, web, request,
                   run, mem, db, status, raced>>

Deadline ==
    /\ run.pc \notin {"idle", "config", "done", "dead"}
    /\ ~expired /\ expired' = TRUE
    /\ UNCHANGED <<settings, enabled, slot, inventory, web, request, run, mem, db,
                   status, raced, edits>>

WorkerKilled ==
    /\ Edit
    /\ run.pc \notin {"idle", "done", "dead"}
    /\ run' = [run EXCEPT !.pc = "dead"]
    /\ UNCHANGED <<settings, enabled, expired, slot, inventory, web, request, mem,
                   db, status, raced>>

-----------------------------------------------------------------------------
(* What the handlers share. *)
Goto(pc) == run' = [run EXCEPT !.pc = pc]
Raise == run' = [run EXCEPT !.pc = "finally", !.verdict = "errored"]
Save(data) == mem' = data /\ db' = data

(* _record_branching_failure appends to the data of the Job instance.       *)
_record_branching_failure_Fresh == Save([NoData EXCEPT !.isolation = TRUE])
_record_branching_failure == Save([mem EXCEPT !.isolation = TRUE])

RefuseIsolation ==
    /\ _record_branching_failure
    /\ Raise

(* Rows written for one endpoint land in the active branch, or in main; a   *)
(* pass over unchanged inventory writes nothing.                            *)
Write_FallsBack(rows) ==
    /\ inBranch' = IF branch.status = "ready" THEN inBranch \cup rows ELSE inBranch
    /\ main' = IF branch.status = "ready" THEN main ELSE main \cup rows
    /\ UNCHANGED branch
Write(rows) ==
    /\ inBranch' = IF run.isolated THEN inBranch \cup rows ELSE inBranch
    /\ main' = IF run.isolated THEN main ELSE main \cup rows
    /\ UNCHANGED branch

Selected == IF request.ids = {} THEN enabled ELSE enabled \cap request.ids

_local_failure_disposition(warned) ==
    IF run.isolated /\ warned # {} THEN "local" ELSE "none"

_sse_failure_disposition_SseOnly(warned) ==
    IF run.isolated /\ warned = {} THEN "sse" ELSE "none"

_sse_failure_disposition(warned) ==
    IF run.isolated /\ warned = {} THEN "sse" ELSE _local_failure_disposition(warned)

(* _sync_data_with_branch and _persist_staged_result.                       *)
StagedData(response, ran, failed, disposition) ==
    [NoData EXCEPT !.branch = run.isolated, !.passed = run.passed,
                   !.warned = run.warned, !.ran = ran, !.failed = failed,
                   !.disposition = disposition, !.response = response]

-----------------------------------------------------------------------------
(* run(): claim, settings snapshot, branch, initial data. *)
_claim_rq_sync_ownership ==
    /\ run.pc = "idle" /\ web # "enqueue"
    /\ Save([db EXCEPT !.owner = TRUE])
    /\ Goto("config")
    /\ status' = "running"
    /\ UNCHANGED <<environment, slot, inventory>>

(* Settings that cannot be read, or that ask for isolation the installation *)
(* cannot give, end the run: uncertainty is not permission to write main.   *)
_resolve_branching_config ==
    /\ run.pc = "config"
    /\ \E readable \in BOOLEAN :
        \/ /\ readable /\ (settings.isolate => settings.loaded)
           /\ run' = [run EXCEPT !.pc = "create", !.isolated = settings.isolate,
                                 !.policy = settings.policy]
           /\ UNCHANGED <<mem, db>>
        \/ /\ ~readable \/ (settings.isolate /\ ~settings.loaded)
           /\ RefuseIsolation
    /\ UNCHANGED <<environment, slot, inventory, status>>

(* Provisioning fails, times out or yields no schema id; the Branch row     *)
(* stays behind.                                                            *)
_create_sync_branch ==
    /\ run.pc = "create"
    /\ \/ /\ Goto("initial")
          /\ branch' = IF run.isolated THEN [branch EXCEPT !.status = "ready"] ELSE branch
          /\ UNCHANGED <<mem, db>>
       \/ /\ run.isolated
          /\ RefuseIsolation
          /\ branch' = [branch EXCEPT !.status = "failed"]
    /\ UNCHANGED <<environment, slot, main, inBranch, status>>

_persist_initial_sync_data ==
    /\ run.pc = "initial"
    /\ Save([NoData EXCEPT !.branch = run.isolated])
    /\ Goto("key")
    /\ UNCHANGED <<environment, slot, inventory, status>>

-----------------------------------------------------------------------------
(* _require_backend_key: verify, retry a transient failure, give up on a    *)
(* permanent one or out of attempts, or meet the deadline.                  *)
KeyVerified ==
    /\ run.pc = "key" /\ ~expired
    /\ run' = [run EXCEPT !.pc = "preflight", !.keyed = TRUE]
    /\ UNCHANGED <<environment, slot, inventory, mem, db, status>>

KeyRetried_OffByOne ==
    /\ run.pc = "key" /\ ~expired
    /\ run.attempt <= MaxAttempts
    /\ run' = [run EXCEPT !.attempt = @ + 1]
    /\ UNCHANGED <<environment, slot, inventory, mem, db, status>>

KeyRetried_Resets ==
    /\ run.pc = "key" /\ ~expired
    /\ run' = [run EXCEPT !.attempt = IF @ = MaxAttempts THEN 1 ELSE @ + 1]
    /\ UNCHANGED <<environment, slot, inventory, mem, db, status>>

KeyRetried ==
    /\ run.pc = "key" /\ ~expired
    /\ run.attempt < MaxAttempts
    /\ run' = [run EXCEPT !.attempt = @ + 1]
    /\ UNCHANGED <<environment, slot, inventory, mem, db, status>>

KeyRefused ==
    /\ run.pc = "key" /\ ~expired
    /\ Raise
    /\ UNCHANGED <<environment, slot, inventory, mem, db, status>>

KeyDeadline ==
    /\ run.pc = "key" /\ expired
    /\ Save(StagedData("partial", {}, {}, "none"))
    /\ Raise
    /\ UNCHANGED <<environment, slot, inventory, status>>

(* _ensure_backend_endpoints.  pushed says which of the enabled NetBox      *)
(* endpoints proxbox-api accepted, listed whether its rows could be read    *)
(* back; a push whose answer was lost leaves our row without the local      *)
(* fingerprint that vouches for it.                                         *)
_verify_netbox_endpoint_push_Trusting(pushed, listed, held) ==
    pushed # "none" /\ (pushed # "all" /\ listed => held = "ours")

_verify_netbox_endpoint_push(pushed, listed, held) ==
    \/ pushed = "all"
    \/ pushed = "some" /\ (listed => held = "ours")
    \/ pushed = "failed" /\ listed /\ held = "ours"

(* A staged run reads its endpoint ids here, once for all local phases.     *)
Preflighted ==
    run' = IF request.kind = "batch"
           THEN [run EXCEPT !.pc = "batch"]
           ELSE [run EXCEPT !.pc = "activate", !.endpoints = Selected, !.todo = Selected]

_ensure_backend_endpoints ==
    /\ run.pc = "preflight" /\ ~expired
    /\ \E pushed \in {"none", "failed", "some", "all"}, listed, lost \in BOOLEAN :
        LET held == CASE pushed \in {"some", "all"} -> "ours"
                      [] pushed = "failed" /\ lost /\ slot # "ours" -> "stale"
                      [] OTHER -> slot
        IN /\ slot' = held
           /\ IF _verify_netbox_endpoint_push(pushed, listed, held)
              THEN Preflighted
              ELSE Raise
    /\ UNCHANGED <<environment, inventory, mem, db, status>>

MissingBackend ==
    /\ run.pc = "preflight"
    /\ Raise
    /\ UNCHANGED <<environment, slot, inventory, mem, db, status>>

PreflightDeadline ==
    /\ run.pc = "preflight" /\ expired
    /\ Preflighted
    /\ UNCHANGED <<environment, slot, inventory, mem, db, status>>

-----------------------------------------------------------------------------
(* The selected-object batch.  No call of it looks at the deadline.  Tenant *)
(* rules are applied by the plugin itself, outside activate_sync_branch.    *)
_resolve_batch_endpoint_scope ==
    /\ run.pc = "batch"
    /\ Raise
    /\ UNCHANGED <<environment, slot, inventory, mem, db, status>>

(* Objects run concurrently; an exception of one ends the batch after what  *)
(* the others have written.                                                 *)
_execute_batch_sync ==
    /\ run.pc = "batch"
    /\ \E scope \in SUBSET Selected \ {{}}, tenant \in BOOLEAN :
        /\ \E rows \in SUBSET scope :
            /\ inBranch' = IF run.isolated THEN inBranch \cup rows ELSE inBranch
            /\ main' = main \cup (IF run.isolated THEN {} ELSE rows)
                            \cup (IF tenant THEN {Tenant} ELSE {})
        /\ \/ \E result \in {"ok", "failed"} :
                run' = [run EXCEPT !.pc = "batched", !.batch = result, !.scopes = scope]
           \/ Raise
    /\ UNCHANGED <<environment, slot, branch, mem, db, status>>

(* _backfill_sync_state_endpoints activates the branch again, before the    *)
(* results of the run are persisted, and binds the sync-state rows of the   *)
(* run's endpoints; without a usable map from plugin to backend endpoint    *)
(* ids it is skipped.  It may raise after some of its writes.               *)
Backfill(map, pc) ==
    \/ /\ ~map
       /\ Goto(pc)
       /\ UNCHANGED <<inventory, mem, db>>
    \/ /\ map /\ run.isolated
       /\ RefuseIsolation
       /\ UNCHANGED inventory
    \/ /\ map
       /\ run.isolated => branch.status = "ready"
       /\ \E rows \in SUBSET run.scopes : Write(rows)
       /\ Goto(pc) \/ Raise
       /\ UNCHANGED <<mem, db>>

BatchBackfill ==
    /\ run.pc = "batched"
    /\ Backfill(TRUE, "batch_persist")
    /\ UNCHANGED <<environment, slot, status>>

_persist_batch_result_PartialIsFine ==
    /\ run.pc = "batch_persist"
    /\ Save([NoData EXCEPT !.branch = run.isolated, !.batch = run.batch,
                           !.response = "final"])
    /\ Goto("conflicts")
    /\ UNCHANGED <<environment, slot, inventory, status>>

_persist_batch_result ==
    /\ run.pc = "batch_persist"
    /\ Save([NoData EXCEPT !.branch = run.isolated, !.batch = run.batch,
                           !.response = "final"])
    /\ IF run.batch = "failed" THEN Raise ELSE Goto("conflicts")
    /\ UNCHANGED <<environment, slot, inventory, status>>

-----------------------------------------------------------------------------
(* The local phases.  A phase activates the branch once, then runs over the *)
(* endpoints read after the preflight, and is checkpointed at its end.  The *)
(* activation fails for a branch that is not READY, and may for others.     *)
SkipsTemplates == run.kind = "vm_template" /\ ~settings.templates

activate_sync_branch ==
    /\ run.pc = "activate"
    /\ \/ /\ SkipsTemplates
          /\ run' = [run EXCEPT !.pc = "local", !.todo = {}]
          /\ UNCHANGED <<mem, db>>
       \/ /\ ~SkipsTemplates
          /\ run.isolated => branch.status = "ready"
          /\ Goto("local")
          /\ UNCHANGED <<mem, db>>
       \/ /\ ~SkipsTemplates /\ run.isolated
          /\ RefuseIsolation
    /\ UNCHANGED <<environment, slot, inventory, status>>

LocalEndpoint(e) ==
    /\ run.pc = "local" /\ e \in run.todo /\ ~expired
    /\ run' = [run EXCEPT !.todo = @ \ {e}, !.passed = @ \cup {<<run.kind, e>>}]
    /\ \E rows \in SUBSET ({e} \cap enabled) : Write(rows)
    /\ UNCHANGED <<environment, slot, mem, db, status>>

(* The service reports a failure, or firewall and datacenter turn its       *)
(* exception into one.                                                      *)
LocalEndpointFails(e) ==
    /\ run.pc = "local" /\ e \in run.todo /\ ~expired
    /\ run' = [run EXCEPT !.todo = @ \ {e}, !.warned = @ \cup {<<run.kind, e>>}]
    /\ \E rows \in SUBSET ({e} \cap enabled) : Write(rows)
    /\ UNCHANGED <<environment, slot, mem, db, status>>

LocalEndpointRaises(e) ==
    /\ run.pc = "local" /\ e \in run.todo /\ ~expired
    /\ run.kind \in {"cluster", "vm_template"}
    /\ Raise
    /\ \E rows \in SUBSET ({e} \cap enabled) : Write(rows)
    /\ UNCHANGED <<environment, slot, mem, db, status>>

_record_local_deadline_phases ==
    /\ run.pc = "local" /\ run.todo # {} /\ expired
    /\ run' = [run EXCEPT !.todo = {}, !.warned = @ \cup {<<run.kind, e>> : e \in run.todo}]
    /\ UNCHANGED <<environment, slot, inventory, mem, db, status>>

NextKind ==
    CASE run.kind = "cluster" -> "firewall"
      [] run.kind = "firewall" -> "datacenter"
      [] OTHER -> "vm_template"

_extend_and_checkpoint_local_phases ==
    /\ run.pc = "local" /\ run.todo = {}
    /\ Save(StagedData("partial", {}, {}, _local_failure_disposition(run.warned)))
    /\ IF run.kind = "vm_template" \/ request.kind = "targeted"
       THEN Goto("sse")
       ELSE run' = [run EXCEPT !.pc = "activate", !.kind = NextKind,
                               !.todo = run.endpoints]
    /\ UNCHANGED <<environment, slot, inventory, status>>

-----------------------------------------------------------------------------
(* The SSE stages, one endpoint scope after another.  The scopes are read   *)
(* from the database again here.                                            *)
_deadline_sse_stages ==
    /\ run.pc = "sse" /\ expired
    /\ run' = [run EXCEPT !.pc = "persist", !.failed = Selected]
    /\ UNCHANGED <<environment, slot, inventory, mem, db, status>>

_run_all_stages_sync ==
    /\ run.pc = "sse" /\ ~expired
    /\ run' = IF Selected = {}
              THEN [run EXCEPT !.pc = "backfill", !.failed = {NoEndpoint}]
              ELSE [run EXCEPT !.pc = "stage", !.scopes = Selected, !.todo = Selected]
    /\ UNCHANGED <<environment, slot, inventory, mem, db, status>>

AfterScope(e) == IF run.todo = {e} THEN "backfill" ELSE "stage"

(* Every required stage of e finished; failed optional ones were skipped.   *)
EndpointStages(e) ==
    /\ run.pc = "stage" /\ e \in run.todo /\ ~expired
    /\ run' = [run EXCEPT !.pc = AfterScope(e), !.todo = @ \ {e}, !.ran = @ \cup {e}]
    /\ \E rows \in SUBSET {e} : Write(rows)
    /\ UNCHANGED <<environment, slot, mem, db, status>>

(* All selected stages of e are disabled by their sync modes.               *)
EndpointSkipped(e) ==
    /\ run.pc = "stage" /\ e \in run.todo /\ ~expired
    /\ run' = [run EXCEPT !.pc = AfterScope(e), !.todo = @ \ {e}, !.skipped = @ \cup {e}]
    /\ UNCHANGED <<environment, slot, inventory, mem, db, status>>

(* e has no backend id, or a required stage failed after its retries.       *)
EndpointFails(e) ==
    /\ run.pc = "stage" /\ e \in run.todo /\ ~expired
    /\ run' = [run EXCEPT !.pc = AfterScope(e), !.todo = @ \ {e}, !.failed = @ \cup {e}]
    /\ \E rows \in SUBSET {e} : Write(rows)
    /\ UNCHANGED <<environment, slot, mem, db, status>>

_record_deadline_endpoints ==
    /\ run.pc = "stage" /\ expired
    /\ run' = [run EXCEPT !.pc = "backfill", !.todo = {}, !.failed = @ \cup run.todo]
    /\ UNCHANGED <<environment, slot, inventory, mem, db, status>>

(* Any other exception out of the stages, RQ's hard timeout included.       *)
StagesRaise ==
    /\ run.pc = "stage" \/ (run.pc = "sse" /\ ~expired)
    /\ Save(StagedData("partial", {}, {}, _sse_failure_disposition(run.warned)))
    /\ Raise
    /\ \E rows \in {{}} \cup {{e} : e \in run.todo} : Write(rows)
    /\ UNCHANGED <<environment, slot, status>>

-----------------------------------------------------------------------------
(* _finish_staged_sync: backfill, persist, read back, classify. *)
StagedBackfill ==
    /\ run.pc = "backfill"
    /\ \E map \in {run.ran # {}, run.scopes # {}} : Backfill(map, "persist")
    /\ UNCHANGED <<environment, slot, status>>

_persist_staged_result ==
    /\ run.pc = "persist"
    /\ Save(StagedData("final", run.ran, run.failed,
              IF run.failed # {} THEN _sse_failure_disposition(run.warned)
                                 ELSE _local_failure_disposition(run.warned)))
    /\ Goto("classify")
    /\ UNCHANGED <<environment, slot, inventory, status>>

(* _raise_for_failed_endpoint_scopes, _raise_for_failed_local_phases.       *)
MustRaise_ScopesOnly == run.failed # {}
MustRaise == run.failed # {} \/ run.warned # {}

Classify ==
    /\ run.pc = "classify"
    /\ mem' = db
    /\ IF MustRaise THEN Raise ELSE Goto("conflicts")
    /\ UNCHANGED <<environment, slot, inventory, db, status>>

(* _merge_sync_branch and merge_branch. *)
Complete == run' = [run EXCEPT !.pc = "finally", !.verdict = "completed"]

branch_has_conflicts ==
    /\ run.pc = "conflicts"
    /\ \/ /\ ~run.isolated
          /\ Complete
          /\ UNCHANGED <<mem, db>>
       \/ /\ run.isolated /\ branch.conflicts /\ run.policy = "fail"
          /\ RefuseIsolation
       \/ /\ run.isolated /\ (branch.conflicts => run.policy = "acknowledge")
          /\ Goto("merge")
          /\ UNCHANGED <<mem, db>>
    /\ UNCHANGED <<environment, slot, inventory, status>>

(* Branch.merge() reaches MERGED, or returns READY when nothing changed.    *)
Merged ==
    /\ branch.status = "ready" /\ inBranch # {}
    /\ branch' = [branch EXCEPT !.status = "merged"]
    /\ main' = main \cup inBranch

MergeSucceeds ==
    /\ run.pc = "merge"
    /\ \/ /\ Merged
          /\ UNCHANGED <<mem, db>>
       \/ /\ branch.status = "ready" /\ inBranch = {}
          /\ Save([mem EXCEPT !.disposition = "no_changes"])
          /\ UNCHANGED <<branch, main>>
    /\ Complete
    /\ UNCHANGED <<environment, slot, inBranch, status>>

(* The branch is not READY, merge() raises, or merge() succeeds and its     *)
(* outcome cannot be read back.                                             *)
MergeFails ==
    /\ run.pc = "merge"
    /\ RefuseIsolation
    /\ Merged \/ UNCHANGED <<branch, main>>
    /\ UNCHANGED <<environment, slot, inBranch, status>>

(* finally: _release_rq_sync_ownership, then the job framework saves the    *)
(* whole row with its terminal status.                                      *)
Finish_MergesAnyway ==
    /\ run.pc = "finally"
    /\ Save([mem EXCEPT !.owner = FALSE])
    /\ status' = run.verdict
    /\ Goto("done")
    /\ Merged \/ UNCHANGED <<branch, main>>
    /\ UNCHANGED <<environment, slot, inBranch>>

Finish ==
    /\ run.pc = "finally"
    /\ Save([mem EXCEPT !.owner = FALSE])
    /\ status' = run.verdict
    /\ Goto("done")
    /\ UNCHANGED <<environment, slot, inventory>>

-----------------------------------------------------------------------------
Begin == _claim_rq_sync_ownership \/ _resolve_branching_config
            \/ _create_sync_branch \/ _persist_initial_sync_data
_require_backend_key == KeyVerified \/ KeyRetried \/ KeyRefused \/ KeyDeadline
Bootstrap == _ensure_backend_endpoints \/ MissingBackend \/ PreflightDeadline
Batch == _resolve_batch_endpoint_scope \/ _execute_batch_sync \/ BatchBackfill
            \/ _persist_batch_result
Local == activate_sync_branch \/ _record_local_deadline_phases
            \/ _extend_and_checkpoint_local_phases
            \/ \E e \in Endpoints : LocalEndpoint(e) \/ LocalEndpointFails(e)
                                     \/ LocalEndpointRaises(e)
Stages == _deadline_sse_stages \/ _run_all_stages_sync \/ _record_deadline_endpoints
            \/ StagesRaise
            \/ \E e \in Endpoints : EndpointStages(e) \/ EndpointSkipped(e)
                                     \/ EndpointFails(e)
Conclude == StagedBackfill \/ _persist_staged_result \/ Classify
            \/ branch_has_conflicts \/ MergeSucceeds \/ MergeFails \/ Finish

Worker == Begin \/ _require_backend_key \/ Bootstrap \/ Batch \/ Local \/ Stages \/ Conclude
Web == enqueue \/ _persist_enqueued_sync_params
Outside == SaveSettings \/ (\E e \in Endpoints : ToggleEndpoint(e)) \/ BranchTaken
            \/ ConflictAppears \/ Deadline \/ WorkerKilled

Next == Worker \/ Web \/ Outside

Spec == Init /\ [][Next]_vars
FairSpec == Spec /\ WF_vars(Worker) /\ WF_vars(Web)

-----------------------------------------------------------------------------
(* Properties. *)
Staged == request.kind # "batch"
RequiredKinds == IF request.kind = "targeted" THEN {"cluster"}
                 ELSE {"cluster", "firewall", "datacenter"}

(* What a run writes stays out of main until its branch is merged, by the   *)
(* run or by someone else: with isolation resolved at the start, no phase,  *)
(* stage, backfill or failure path falls back to main, not even once the    *)
(* branch was taken from under it (activate_sync_branch,                    *)
(* netbox_branch_schema_id).  Tenant rules of the batch path, which write   *)
(* main directly, are the exception.                                        *)
Isolated ==
    run.isolated /\ branch.status # "merged" =>
        main \subseteq {Tenant} \cup (IF branch.status = "taken" THEN inBranch ELSE {})

(* A branch is merged only after everything the run set out to do has been  *)
(* done: the key verified, each local phase of each endpoint passed, every  *)
(* endpoint scope run or disabled by its modes, no object of a batch failed *)
(* (_raise_for_failed_endpoint_scopes, _raise_for_failed_local_phases,      *)
(* _raise_for_batch_failures come before _merge_sync_branch).               *)
MergedIsComplete ==
    branch.status = "merged" =>
        /\ run.isolated /\ run.keyed
        /\ run.failed = {} /\ run.warned = {} /\ run.batch # "failed"
        /\ Staged => /\ \A k \in RequiredKinds, e \in run.endpoints :
                            <<k, e>> \in run.passed
                     /\ run.scopes \subseteq run.ran \cup run.skipped
        /\ ~Staged => run.batch = "ok"

(* A staged run writes inventory only through a backend that holds this     *)
(* NetBox's current credentials and accepted the stored key; after a failed *)
(* push that has to be shown by what the backend lists                      *)
(* (_verify_netbox_endpoint_push), and a preflight cut off by the deadline  *)
(* must not let a later phase write.                                        *)
WritesAreOurs ==
    Staged /\ main \cup inBranch # {} => slot = "ours" /\ run.keyed

(* The verdict on the row and the evidence on the row agree: a completed    *)
(* job carries a final response without a failure, an errored job whose     *)
(* final response was saved carries the failure.                            *)
VerdictMatchesEvidence ==
    ~raced =>
        /\ status = "completed" =>
              /\ db.response = "final" /\ ~db.isolation
              /\ db.failed = {} /\ db.warned = {} /\ db.batch # "failed"
        /\ status = "errored" /\ db.response = "final" =>
              db.isolation \/ db.failed # {} \/ db.warned # {} \/ db.batch = "failed"

(* When the results of an isolated staged run fail it, the row tells the    *)
(* operator that the branch was left open, and it never says so of a merged *)
(* branch (_sse_failure_disposition, _local_failure_disposition).           *)
LeftOpenIsRecorded ==
    /\ (/\ status = "errored" /\ ~raced /\ run.isolated
        /\ db.failed # {} \/ db.warned # {})
          => db.disposition \in {"local", "sse"}
    /\ db.disposition # "none" => branch.status # "merged"

(* Local-phase evidence that was checkpointed is never dropped by a later   *)
(* checkpoint, an SSE exception, an isolation failure, the final result or  *)
(* the release of the row; only enqueue()'s own late save can.              *)
EvidenceGrows ==
    [][~raced' /\ db.response # "none" =>
         db.passed \subseteq db'.passed /\ db.warned \subseteq db'.warned]_vars

(* Isolation as a whole (SyncPublication): the run works where it decided   *)
(* to at its start, it moves its branch into main in one step and only      *)
(* after none of its phases, scopes or objects failed (_merge_sync_branch   *)
(* comes last), never a branch that someone else has merged already, and no *)
(* exit, by return, exception, deadline or death of the worker, writes or   *)
(* publishes anything afterwards.                                           *)
Spoiled == run.failed # {} \/ run.warned # {} \/ run.batch = "failed"
Mode ==
    IF run.pc \in {"idle", "config"} THEN "undecided"
    ELSE IF branch.status = "merged" THEN "published"
    ELSE IF run.pc \in {"finally", "done", "dead"} THEN "closed"
    ELSE IF run.isolated THEN "private" ELSE "direct"
Publication == INSTANCE SyncPublication WITH
    mode <- Mode, public <- main, private <- inBranch, spoiled <- Spoiled,
    taken <- (branch.status = "taken")
ImplementsPublication == Publication!Spec

(* Every run that starts ends: the key retries, the endpoint loops and the  *)
(* deadline paths leave no way to wait forever.                             *)
RunEnds == web = "queued" ~> run.pc \in {"done", "dead"}

-----------------------------------------------------------------------------
(* The inductive invariant. *)
Early == {"idle", "config", "create", "initial", "key", "preflight", "batch"}
Keyed == {"preflight", "batch", "batched", "batch_persist", "activate", "local",
          "sse", "stage", "backfill", "persist", "classify"}
StagedPc == {"activate", "local", "sse", "stage", "backfill", "persist", "classify"}

KindsBefore(kind) ==
    {k \in Kinds : \/ k = "cluster" /\ kind # "cluster"
                   \/ k = "firewall" /\ kind \in {"datacenter", "vm_template"}
                   \/ k = "datacenter" /\ kind = "vm_template"}

Covered(kinds, endpoints) ==
    \A k \in kinds, e \in endpoints : <<k, e>> \in run.passed \cup run.warned

(* Nothing is written before the preflight, and an unisolated run has no    *)
(* branch to write to.                                                      *)
NothingEarly ==
    /\ run.pc \in Early => main = {} /\ inBranch = {}
    /\ run.pc \in {"idle", "config"} => ~run.isolated
    /\ run.pc \in {"idle", "config", "create"} => branch.status = "none"
    /\ ~run.isolated => inBranch = {} /\ branch.status # "merged"

(* Which of the two paths the run is on, and the key it holds there.        *)
OnPath ==
    /\ run.pc \in StagedPc => Staged /\ run.batch = "none"
    /\ run.pc \in {"batch", "batched", "batch_persist"} => ~Staged
    /\ run.pc \in Early => run.batch = "none"
    /\ ~Staged \/ run.pc \in Early => run.failed = {} /\ run.warned = {}
    /\ run.pc \in {"batched", "batch_persist"} => run.batch # "none"
    /\ run.pc \in Keyed => run.keyed

(* Past the preflight the backend is ours, or no time is left to write.     *)
OursOrLate ==
    /\ run.pc \in {"activate", "local", "sse"} => slot = "ours" \/ expired
    /\ run.pc = "stage" \/ (run.pc = "backfill" /\ run.scopes # {}) => slot = "ours"

(* Each finished local phase has a result for each endpoint, and each       *)
(* endpoint scope left behind has an outcome.                               *)
Accounted ==
    /\ run.pc \in Early => run.kind = "cluster"
    /\ run.pc \in {"activate", "local"} =>
          /\ request.kind = "targeted" => run.kind = "cluster"
          /\ Covered(KindsBefore(run.kind), run.endpoints)
    /\ run.pc = "activate" => run.todo = run.endpoints
    /\ run.pc = "local" /\ run.kind # "vm_template" =>
          Covered({run.kind}, run.endpoints \ run.todo)
    /\ run.pc = "sse" => run.todo = {}
    /\ run.pc \in {"sse", "stage", "backfill", "persist", "classify"} =>
          Covered(RequiredKinds, run.endpoints)
    /\ run.pc \in Early \cup {"activate", "local", "sse"} => run.scopes = {}
    /\ run.pc = "stage" =>
          run.scopes \subseteq run.ran \cup run.skipped \cup run.failed \cup run.todo
    /\ run.pc \in {"backfill", "persist", "classify"} =>
          run.scopes \subseteq run.ran \cup run.skipped \cup run.failed

(* All that MergedIsComplete asks of a merged run.                          *)
RunIsComplete ==
    /\ run.keyed
    /\ run.failed = {} /\ run.warned = {} /\ run.batch # "failed"
    /\ Staged => /\ \A k \in RequiredKinds, e \in run.endpoints : <<k, e>> \in run.passed
                 /\ run.scopes \subseteq run.ran \cup run.skipped
    /\ ~Staged => run.batch = "ok"

CompleteBeforeMerge ==
    /\ run.pc \in {"conflicts", "merge"} => RunIsComplete
    /\ run.pc = "merge" => run.isolated
    /\ branch.status = "merged" =>
          run.isolated /\ RunIsComplete /\ run.pc \in {"finally", "done", "dead"}

(* Isolation, identity and completeness in a form every step preserves:     *)
(* the facts about the run that the merge and the writes rest on.           *)
Inductive ==
    /\ NothingEarly
    /\ OnPath
    /\ OursOrLate
    /\ Accounted
    /\ CompleteBeforeMerge
    /\ Isolated
    /\ WritesAreOurs
=============================================================================
