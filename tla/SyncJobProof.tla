---------------------------- MODULE SyncJobProof ----------------------------
(***************************************************************************)
(* For any set of endpoints, requests and settings: a run of the sync job  *)
(* is typed, writes nothing to main before it merges its branch, writes    *)
(* inventory only through a backend it has proved, and merges only         *)
(* complete work; and the Job row it leaves behind tells what happened:    *)
(* its status, its response, the disposition of the branch, and every      *)
(* local phase that was ever checkpointed.  As a whole the run implements  *)
(* the publication of SyncPublication.                                     *)
(***************************************************************************)
EXTENDS SyncJob, TLAPS

(* The updates of the run and of the row's data that handlers share.        *)
LEMMA GotoTyped ==
    ASSUME run \in Run, NEW p \in Pc
    PROVE  [run EXCEPT !.pc = p] \in Run
BY DEF Run

LEMMA RaiseTyped ==
    ASSUME run \in Run, Raise
    PROVE  run' \in Run
BY DEF Run, Raise, Pc

LEMMA PreflightedTyped ==
    ASSUME run \in Run, Selected \in SUBSET Endpoints, Preflighted
    PROVE  run' \in Run
<1>1. CASE request.kind = "batch"
  BY <1>1 DEF Preflighted, Run, Pc
<1>2. CASE request.kind # "batch"
  BY <1>2 DEF Preflighted, Run, Pc
<1> QED
  BY <1>1, <1>2

LEMMA StagedTyped ==
    ASSUME run \in Run,
           NEW response \in {"none", "partial", "final"},
           NEW ran \in SUBSET Endpoints,
           NEW failed \in SUBSET (Endpoints \cup {NoEndpoint}),
           NEW disposition \in {"none", "local", "sse", "no_changes"}
    PROVE  StagedData(response, ran, failed, disposition) \in Data
BY DEF Run, Data, NoData, StagedData

LEMMA BackfillTyped ==
    ASSUME run \in Run, branch \in Branch, main \in SUBSET (Endpoints \cup {Tenant}),
           inBranch \in SUBSET Endpoints, NEW map, NEW p, Backfill(map, p)
    PROVE  /\ branch' \in Branch /\ main' \in SUBSET (Endpoints \cup {Tenant})
           /\ inBranch' \in SUBSET Endpoints
<1>1. CASE UNCHANGED inventory
  BY <1>1 DEF inventory
<1>2. ASSUME NEW rows \in SUBSET run.scopes, Write(rows)
      PROVE  /\ branch' \in Branch /\ main' \in SUBSET (Endpoints \cup {Tenant})
             /\ inBranch' \in SUBSET Endpoints
  <2>1. rows \in SUBSET Endpoints
    BY DEF Run
  <2> QED
    BY <1>2, <2>1 DEF Write
<1> QED
  BY <1>1, <1>2 DEF Backfill

LEMMA DispositionTyped ==
    ASSUME NEW warned
    PROVE  /\ _local_failure_disposition(warned) \in {"none", "local", "sse", "no_changes"}
           /\ _sse_failure_disposition(warned) \in {"none", "local", "sse", "no_changes"}
BY DEF _local_failure_disposition, _sse_failure_disposition


(* Every handler leaves the run, the row's data and the stores well typed,  *)
(* for any number of endpoints, key attempts and operator edits.            *)
THEOREM TypeCorrect == Spec => []TypeOK
<1>1. Init => TypeOK
  <2> SUFFICES ASSUME Init PROVE TypeOK
    OBVIOUS
  <2>1. run \in Run
    BY SyncJobAssumption DEF Init, Idle, Run, Pc, Kinds
  <2>2. mem \in Data /\ db \in Data
    BY DEF Init, NoData, Data
  <2>3. run.pc = "idle"
    BY DEF Init, Idle
  <2>4. branch \in Branch
    BY DEF Init, Branch
  <2>5. settings \in Config /\ request \in Request /\ edits \in 0..MaxEdits
    BY SyncJobAssumption DEF Init
  <2> QED
    BY <2>1, <2>2, <2>3, <2>4, <2>5 DEF Init, TypeOK
<1>2. TypeOK /\ [Next]_vars => TypeOK'
  <2> SUFFICES ASSUME TypeOK, [Next]_vars PROVE TypeOK'
    OBVIOUS
  <2>0. /\ run \in Run /\ mem \in Data /\ db \in Data /\ branch \in Branch
        /\ settings \in Config /\ request \in Request
        /\ run.pc = "finally" => run.verdict # "none"
    BY DEF TypeOK
  <2>s. Selected \in SUBSET Endpoints
    BY DEF TypeOK, Selected, Request
  <2>r. run.ran \in SUBSET Endpoints /\ run.failed \in SUBSET (Endpoints \cup {NoEndpoint})
    BY <2>0 DEF Run
  <2>1. CASE _claim_rq_sync_ownership
    <3>1. run' \in Run
      BY <2>1, <2>0, <2>s DEF _claim_rq_sync_ownership, Goto, Run, Pc
    <3>2. run'.pc = "finally" => run'.verdict # "none"
      BY <2>1, <2>0 DEF _claim_rq_sync_ownership, Goto, Run
    <3>3. mem' \in Data /\ db' \in Data
      BY <2>1, <2>0 DEF _claim_rq_sync_ownership, Save, Data
    <3> QED
      BY <2>1, <3>1, <3>2, <3>3, <2>0, <2>s, SyncJobAssumption DEF _claim_rq_sync_ownership, TypeOK, environment, inventory
  <2>2. CASE _resolve_branching_config
    <3>1. [run EXCEPT !.pc = "create", !.isolated = settings.isolate, !.policy = settings.policy] \in Run
      BY <2>0 DEF Config, Run, Pc
    <3>2. run' \in Run
      BY <2>2, <3>1, <2>0, RaiseTyped DEF _resolve_branching_config, RefuseIsolation
    <3>3. run'.pc = "finally" => run'.verdict # "none"
      BY <2>2, <2>0 DEF _resolve_branching_config, RefuseIsolation, Raise, Config, Run
    <3>4. mem' \in Data /\ db' \in Data
      BY <2>2, <2>0 DEF _resolve_branching_config, RefuseIsolation, _record_branching_failure, Save, Data
    <3> QED
      BY <2>2, <3>2, <3>3, <3>4, <2>0, <2>s, SyncJobAssumption DEF _resolve_branching_config, TypeOK, environment, inventory
  <2>3. CASE _create_sync_branch
    <3>1. branch' \in Branch
      BY <2>3, <2>0 DEF _create_sync_branch, Branch, inventory
    <3>2. run' \in Run
      BY <2>3, <2>0, GotoTyped, RaiseTyped DEF _create_sync_branch, RefuseIsolation, Goto, Pc
    <3>3. run'.pc = "finally" => run'.verdict # "none"
      BY <2>3, <2>0 DEF _create_sync_branch, RefuseIsolation, Raise, Goto, Run
    <3>4. mem' \in Data /\ db' \in Data
      BY <2>3, <2>0 DEF _create_sync_branch, RefuseIsolation, _record_branching_failure, Save, Data
    <3> QED
      BY <2>3, <3>1, <3>2, <3>3, <3>4, <2>0, <2>s, SyncJobAssumption DEF _create_sync_branch, TypeOK, environment, inventory
  <2>4. CASE _persist_initial_sync_data
    <3>1. run' \in Run
      BY <2>4, <2>0, <2>s DEF _persist_initial_sync_data, Goto, Run, Pc
    <3>2. run'.pc = "finally" => run'.verdict # "none"
      BY <2>4, <2>0 DEF _persist_initial_sync_data, Goto, Run
    <3>3. mem' \in Data /\ db' \in Data
      BY <2>4, <2>0 DEF _persist_initial_sync_data, Save, NoData, Data, Run
    <3> QED
      BY <2>4, <3>1, <3>2, <3>3, <2>0, <2>s, SyncJobAssumption DEF _persist_initial_sync_data, TypeOK, environment, inventory
  <2>5. CASE KeyVerified
    <3>1. run' \in Run
      BY <2>5, <2>0, <2>s DEF KeyVerified, Run, Pc
    <3>2. run'.pc = "finally" => run'.verdict # "none"
      BY <2>5, <2>0 DEF KeyVerified, Run
    <3> QED
      BY <2>5, <3>1, <3>2, <2>0, <2>s, SyncJobAssumption DEF KeyVerified, TypeOK, environment, inventory
  <2>6. CASE KeyRetried
    <3>1. run' \in Run
      BY <2>6, <2>0, SyncJobAssumption DEF KeyRetried, Run
    <3>2. run'.pc = "finally" => run'.verdict # "none"
      BY <2>6, <2>0 DEF KeyRetried, Run
    <3> QED
      BY <2>6, <3>1, <3>2, <2>0, <2>s, SyncJobAssumption DEF KeyRetried, TypeOK, environment, inventory
  <2>7. CASE KeyRefused
    <3>1. run' \in Run
      BY <2>7, <2>0, <2>s DEF KeyRefused, Raise, Run, Pc
    <3>2. run'.pc = "finally" => run'.verdict # "none"
      BY <2>7, <2>0 DEF KeyRefused, Raise, Run
    <3> QED
      BY <2>7, <3>1, <3>2, <2>0, <2>s, SyncJobAssumption DEF KeyRefused, TypeOK, environment, inventory
  <2>8. CASE KeyDeadline
    <3>1. run' \in Run
      BY <2>8, <2>0, <2>s DEF KeyDeadline, Raise, Run, Pc
    <3>2. run'.pc = "finally" => run'.verdict # "none"
      BY <2>8, <2>0 DEF KeyDeadline, Raise, Run
    <3>3. mem' \in Data /\ db' \in Data
      BY <2>8, <2>0, <2>r, StagedTyped DEF KeyDeadline, Save
    <3> QED
      BY <2>8, <3>1, <3>2, <3>3, <2>0, <2>s, SyncJobAssumption DEF KeyDeadline, TypeOK, environment, inventory
  <2>9. CASE _ensure_backend_endpoints
    <3>1. run' \in Run
      BY <2>9, <2>0, <2>s, PreflightedTyped, RaiseTyped DEF _ensure_backend_endpoints
    <3>2. run'.pc = "finally" => run'.verdict # "none"
      BY <2>9, <2>0 DEF _ensure_backend_endpoints, Preflighted, Raise, Run
    <3> QED
      BY <2>9, <3>1, <3>2, <2>0, <2>s, SyncJobAssumption DEF _ensure_backend_endpoints, Slots, TypeOK, environment, inventory
  <2>10. CASE MissingBackend
    <3>1. run' \in Run
      BY <2>10, <2>0, <2>s DEF MissingBackend, Raise, Run, Pc
    <3>2. run'.pc = "finally" => run'.verdict # "none"
      BY <2>10, <2>0 DEF MissingBackend, Raise, Run
    <3> QED
      BY <2>10, <3>1, <3>2, <2>0, <2>s, SyncJobAssumption DEF MissingBackend, TypeOK, environment, inventory
  <2>11. CASE PreflightDeadline
    <3>1. run' \in Run
      BY <2>11, <2>0, <2>s, PreflightedTyped DEF PreflightDeadline
    <3>2. run'.pc = "finally" => run'.verdict # "none"
      BY <2>11, <2>0 DEF PreflightDeadline, Preflighted, Run
    <3> QED
      BY <2>11, <3>1, <3>2, <2>0, <2>s, SyncJobAssumption DEF PreflightDeadline, TypeOK, environment, inventory
  <2>12. CASE _resolve_batch_endpoint_scope
    <3>1. run' \in Run
      BY <2>12, <2>0, <2>s DEF _resolve_batch_endpoint_scope, Raise, Run, Pc
    <3>2. run'.pc = "finally" => run'.verdict # "none"
      BY <2>12, <2>0 DEF _resolve_batch_endpoint_scope, Raise, Run
    <3> QED
      BY <2>12, <3>1, <3>2, <2>0, <2>s, SyncJobAssumption DEF _resolve_batch_endpoint_scope, TypeOK, environment, inventory
  <2>13. CASE _execute_batch_sync
    <3>0. ASSUME NEW scope \in SUBSET Selected, NEW result \in {"ok", "failed"}
          PROVE  [run EXCEPT !.pc = "batched", !.batch = result, !.scopes = scope] \in Run
      BY <2>0, <2>s DEF Run, Pc
    <3>r. \/ Raise
          \/ \E scope \in SUBSET Selected, result \in {"ok", "failed"} :
                run' = [run EXCEPT !.pc = "batched", !.batch = result, !.scopes = scope]
      BY <2>13 DEF _execute_batch_sync
    <3>1. run' \in Run
      BY <2>0, <3>0, <3>r, RaiseTyped
    <3>2. run'.pc = "finally" => run'.verdict # "none"
      BY <2>13, <2>0 DEF _execute_batch_sync, Raise, Run
    <3> QED
      BY <2>13, <3>1, <3>2, <2>0, <2>s, SyncJobAssumption DEF _execute_batch_sync, TypeOK, environment, inventory
  <2>14. CASE BatchBackfill
    <3>1. run' \in Run
      BY <2>14, <2>0, GotoTyped, RaiseTyped DEF BatchBackfill, Backfill, RefuseIsolation, Goto, Pc
    <3>2. run'.pc = "finally" => run'.verdict # "none"
      BY <2>14, <2>0 DEF BatchBackfill, Backfill, RefuseIsolation, Raise, Goto, Run
    <3>3. mem' \in Data /\ db' \in Data
      BY <2>14, <2>0 DEF BatchBackfill, Backfill, RefuseIsolation, _record_branching_failure, Save, Data
    <3>4. branch' \in Branch /\ main' \in SUBSET (Endpoints \cup {Tenant}) /\ inBranch' \in SUBSET Endpoints
      BY <2>14, <2>0, BackfillTyped DEF BatchBackfill, TypeOK
    <3> QED
      BY <2>14, <3>1, <3>2, <3>3, <3>4, <2>0, <2>s, SyncJobAssumption DEF BatchBackfill, TypeOK, environment
  <2>15. CASE _persist_batch_result
    <3>1. run' \in Run
      BY <2>15, <2>0, GotoTyped, RaiseTyped DEF _persist_batch_result, Goto, Pc
    <3>2. run'.pc = "finally" => run'.verdict # "none"
      BY <2>15, <2>0 DEF _persist_batch_result, Raise, Goto, Run
    <3>3. mem' \in Data /\ db' \in Data
      BY <2>15, <2>0 DEF _persist_batch_result, Save, NoData, Data, Run
    <3> QED
      BY <2>15, <3>1, <3>2, <3>3, <2>0, <2>s, SyncJobAssumption DEF _persist_batch_result, TypeOK, environment, inventory
  <2>16. CASE activate_sync_branch
    <3>1. [run EXCEPT !.pc = "local", !.todo = {}] \in Run
      BY <2>0 DEF Run, Pc
    <3>2. run' \in Run
      BY <2>16, <3>1, <2>0, GotoTyped, RaiseTyped DEF activate_sync_branch, RefuseIsolation, Goto, Pc
    <3>3. run'.pc = "finally" => run'.verdict # "none"
      BY <2>16, <2>0 DEF activate_sync_branch, RefuseIsolation, Raise, Goto, Run
    <3>4. mem' \in Data /\ db' \in Data
      BY <2>16, <2>0 DEF activate_sync_branch, RefuseIsolation, _record_branching_failure, Save, Data
    <3> QED
      BY <2>16, <3>2, <3>3, <3>4, <2>0, <2>s, SyncJobAssumption DEF activate_sync_branch, TypeOK, environment, inventory
  <2>17. CASE _record_local_deadline_phases
    <3>1. {<<run.kind, e>> : e \in run.todo} \subseteq Phase
      BY <2>0 DEF Run, Phase
    <3>2. run' \in Run
      BY <2>17, <3>1, <2>0 DEF _record_local_deadline_phases, Run
    <3>3. run'.pc = "finally" => run'.verdict # "none"
      BY <2>17, <2>0 DEF _record_local_deadline_phases, Phase, Run
    <3> QED
      BY <2>17, <3>2, <3>3, <2>0, <2>s, SyncJobAssumption DEF _record_local_deadline_phases, TypeOK, environment, inventory
  <2>18. CASE _extend_and_checkpoint_local_phases
    <3>1. [run EXCEPT !.pc = "activate", !.kind = NextKind, !.todo = run.endpoints] \in Run
      BY <2>0 DEF NextKind, Kinds, Run, Pc
    <3>2. run' \in Run
      BY <2>18, <3>1, <2>0, GotoTyped DEF _extend_and_checkpoint_local_phases, Goto, Pc
    <3>3. run'.pc = "finally" => run'.verdict # "none"
      BY <2>18, <2>0 DEF _extend_and_checkpoint_local_phases, Goto, NextKind, Kinds, Run
    <3>4. mem' \in Data /\ db' \in Data
      BY <2>18, <2>0, <2>r, StagedTyped, DispositionTyped DEF _extend_and_checkpoint_local_phases, Save
    <3> QED
      BY <2>18, <3>2, <3>3, <3>4, <2>0, <2>s, SyncJobAssumption DEF _extend_and_checkpoint_local_phases, TypeOK, environment, inventory
  <2>19. ASSUME NEW e \in Endpoints, LocalEndpoint(e) PROVE TypeOK'
    <3>1. <<run.kind, e>> \in Phase
      BY <2>0 DEF Run, Phase
    <3>2. run' \in Run
      BY <2>19, <3>1, <2>0 DEF LocalEndpoint, Run
    <3>3. run'.pc = "finally" => run'.verdict # "none"
      BY <2>19, <2>0 DEF LocalEndpoint, Phase, Run
    <3> QED
      BY <2>19, <3>2, <3>3, <2>0, <2>s, SyncJobAssumption DEF LocalEndpoint, Write, TypeOK, environment, inventory
  <2>20. ASSUME NEW e \in Endpoints, LocalEndpointFails(e) PROVE TypeOK'
    <3>1. <<run.kind, e>> \in Phase
      BY <2>0 DEF Run, Phase
    <3>2. run' \in Run
      BY <2>20, <3>1, <2>0 DEF LocalEndpointFails, Run
    <3>3. run'.pc = "finally" => run'.verdict # "none"
      BY <2>20, <2>0 DEF LocalEndpointFails, Phase, Run
    <3> QED
      BY <2>20, <3>2, <3>3, <2>0, <2>s, SyncJobAssumption DEF LocalEndpointFails, Write, TypeOK, environment, inventory
  <2>21. ASSUME NEW e \in Endpoints, LocalEndpointRaises(e) PROVE TypeOK'
    <3>1. run' \in Run
      BY <2>21, <2>0, <2>s DEF LocalEndpointRaises, Raise, Run, Pc
    <3>2. run'.pc = "finally" => run'.verdict # "none"
      BY <2>21, <2>0 DEF LocalEndpointRaises, Raise, Run
    <3> QED
      BY <2>21, <3>1, <3>2, <2>0, <2>s, SyncJobAssumption DEF LocalEndpointRaises, Write, TypeOK, environment, inventory
  <2>22. CASE _deadline_sse_stages
    <3>1. run' \in Run
      BY <2>22, <2>0, <2>s DEF _deadline_sse_stages, Run, Pc
    <3>2. run'.pc = "finally" => run'.verdict # "none"
      BY <2>22, <2>0 DEF _deadline_sse_stages, Run
    <3> QED
      BY <2>22, <3>1, <3>2, <2>0, <2>s, SyncJobAssumption DEF _deadline_sse_stages, TypeOK, environment, inventory
  <2>23. CASE _run_all_stages_sync
    <3>1. run' \in Run
      BY <2>23, <2>0, <2>s DEF _run_all_stages_sync, Run, Pc
    <3>2. run'.pc = "finally" => run'.verdict # "none"
      BY <2>23, <2>0 DEF _run_all_stages_sync, Run
    <3> QED
      BY <2>23, <3>1, <3>2, <2>0, <2>s, SyncJobAssumption DEF _run_all_stages_sync, TypeOK, environment, inventory
  <2>24. CASE _record_deadline_endpoints
    <3>1. run' \in Run
      BY <2>24, <2>0, <2>s DEF _record_deadline_endpoints, Run, Pc
    <3>2. run'.pc = "finally" => run'.verdict # "none"
      BY <2>24, <2>0 DEF _record_deadline_endpoints, Run
    <3> QED
      BY <2>24, <3>1, <3>2, <2>0, <2>s, SyncJobAssumption DEF _record_deadline_endpoints, TypeOK, environment, inventory
  <2>25. CASE StagesRaise
    <3>1. run.todo \in SUBSET Endpoints
      BY <2>0 DEF Run
    <3>2. run' \in Run
      BY <2>25, <2>0, <2>s DEF StagesRaise, Raise, Run, Pc
    <3>3. run'.pc = "finally" => run'.verdict # "none"
      BY <2>25, <2>0 DEF StagesRaise, Raise, Run
    <3>4. mem' \in Data /\ db' \in Data
      BY <2>25, <2>0, <2>r, StagedTyped, DispositionTyped DEF StagesRaise, Save
    <3> QED
      BY <2>25, <3>1, <3>2, <3>3, <3>4, <2>0, <2>s, SyncJobAssumption DEF StagesRaise, Write, TypeOK, environment, inventory
  <2>26. ASSUME NEW e \in Endpoints, EndpointStages(e) PROVE TypeOK'
    <3>1. run' \in Run
      BY <2>26, <2>0, <2>s DEF EndpointStages, AfterScope, Run, Pc
    <3>2. run'.pc = "finally" => run'.verdict # "none"
      BY <2>26, <2>0 DEF EndpointStages, AfterScope, Run
    <3> QED
      BY <2>26, <3>1, <3>2, <2>0, <2>s, SyncJobAssumption DEF EndpointStages, Write, TypeOK, environment, inventory
  <2>27. ASSUME NEW e \in Endpoints, EndpointSkipped(e) PROVE TypeOK'
    <3>1. run' \in Run
      BY <2>27, <2>0, <2>s DEF EndpointSkipped, AfterScope, Run, Pc
    <3>2. run'.pc = "finally" => run'.verdict # "none"
      BY <2>27, <2>0 DEF EndpointSkipped, AfterScope, Run
    <3> QED
      BY <2>27, <3>1, <3>2, <2>0, <2>s, SyncJobAssumption DEF EndpointSkipped, TypeOK, environment, inventory
  <2>28. ASSUME NEW e \in Endpoints, EndpointFails(e) PROVE TypeOK'
    <3>1. run' \in Run
      BY <2>28, <2>0, <2>s DEF EndpointFails, AfterScope, Run, Pc
    <3>2. run'.pc = "finally" => run'.verdict # "none"
      BY <2>28, <2>0 DEF EndpointFails, AfterScope, Run
    <3> QED
      BY <2>28, <3>1, <3>2, <2>0, <2>s, SyncJobAssumption DEF EndpointFails, Write, TypeOK, environment, inventory
  <2>29. CASE StagedBackfill
    <3>1. run' \in Run
      BY <2>29, <2>0, GotoTyped, RaiseTyped DEF StagedBackfill, Backfill, RefuseIsolation, Goto, Pc
    <3>2. run'.pc = "finally" => run'.verdict # "none"
      BY <2>29, <2>0 DEF StagedBackfill, Backfill, RefuseIsolation, Raise, Goto, Run
    <3>3. mem' \in Data /\ db' \in Data
      BY <2>29, <2>0 DEF StagedBackfill, Backfill, RefuseIsolation, _record_branching_failure, Save, Data
    <3>4. branch' \in Branch /\ main' \in SUBSET (Endpoints \cup {Tenant}) /\ inBranch' \in SUBSET Endpoints
      BY <2>29, <2>0, BackfillTyped DEF StagedBackfill, TypeOK
    <3> QED
      BY <2>29, <3>1, <3>2, <3>3, <3>4, <2>0, <2>s, SyncJobAssumption DEF StagedBackfill, TypeOK, environment
  <2>30. CASE _persist_staged_result
    <3>1. run' \in Run
      BY <2>30, <2>0, <2>s DEF _persist_staged_result, Goto, Run, Pc
    <3>2. run'.pc = "finally" => run'.verdict # "none"
      BY <2>30, <2>0 DEF _persist_staged_result, Goto, Run
    <3>3. mem' \in Data /\ db' \in Data
      BY <2>30, <2>0, <2>r, StagedTyped, DispositionTyped DEF _persist_staged_result, Save
    <3> QED
      BY <2>30, <3>1, <3>2, <3>3, <2>0, <2>s, SyncJobAssumption DEF _persist_staged_result, TypeOK, environment, inventory
  <2>31. CASE Classify
    <3>1. run' \in Run
      BY <2>31, <2>0, GotoTyped, RaiseTyped DEF Classify, Goto, Pc
    <3>2. run'.pc = "finally" => run'.verdict # "none"
      BY <2>31, <2>0 DEF Classify, Raise, Goto, Run
    <3>3. mem' \in Data /\ db' \in Data
      BY <2>31, <2>0 DEF Classify, Data
    <3> QED
      BY <2>31, <3>1, <3>2, <3>3, <2>0, <2>s, SyncJobAssumption DEF Classify, TypeOK, environment, inventory
  <2>32. CASE branch_has_conflicts
    <3>1. [run EXCEPT !.pc = "finally", !.verdict = "completed"] \in Run
      BY <2>0 DEF Run, Pc
    <3>2. run' \in Run
      BY <2>32, <3>1, <2>0, GotoTyped, RaiseTyped DEF branch_has_conflicts, RefuseIsolation, Goto, Complete, Pc
    <3>3. run'.pc = "finally" => run'.verdict # "none"
      BY <2>32, <2>0 DEF branch_has_conflicts, RefuseIsolation, Raise, Goto, Complete, Run
    <3>4. mem' \in Data /\ db' \in Data
      BY <2>32, <2>0 DEF branch_has_conflicts, RefuseIsolation, _record_branching_failure, Save, Data
    <3> QED
      BY <2>32, <3>2, <3>3, <3>4, <2>0, <2>s, SyncJobAssumption DEF branch_has_conflicts, TypeOK, environment, inventory
  <2>33. CASE MergeSucceeds
    <3>1. branch' \in Branch
      BY <2>33, <2>0 DEF MergeSucceeds, Branch, Merged, inventory
    <3>2. run' \in Run
      BY <2>33, <2>0, <2>s DEF MergeSucceeds, Complete, Run, Pc
    <3>3. run'.pc = "finally" => run'.verdict # "none"
      BY <2>33, <2>0 DEF MergeSucceeds, Complete, Run
    <3>4. mem' \in Data /\ db' \in Data
      BY <2>33, <2>0 DEF MergeSucceeds, Save, Data
    <3> QED
      BY <2>33, <3>1, <3>2, <3>3, <3>4, <2>0, <2>s, SyncJobAssumption DEF MergeSucceeds, Merged, TypeOK, environment, inventory
  <2>34. CASE MergeFails
    <3>1. branch' \in Branch
      BY <2>34, <2>0 DEF MergeFails, Branch, Merged, inventory
    <3>2. run' \in Run
      BY <2>34, <2>0, <2>s DEF MergeFails, RefuseIsolation, Raise, Run, Pc
    <3>3. run'.pc = "finally" => run'.verdict # "none"
      BY <2>34, <2>0 DEF MergeFails, RefuseIsolation, Raise, Run
    <3>4. mem' \in Data /\ db' \in Data
      BY <2>34, <2>0 DEF MergeFails, RefuseIsolation, _record_branching_failure, Save, Data
    <3> QED
      BY <2>34, <3>1, <3>2, <3>3, <3>4, <2>0, <2>s, SyncJobAssumption DEF MergeFails, Merged, TypeOK, environment, inventory
  <2>35. CASE Finish
    <3>1. run' \in Run
      BY <2>35, <2>0, <2>s DEF Finish, Goto, Run, Pc
    <3>2. run'.pc = "finally" => run'.verdict # "none"
      BY <2>35, <2>0 DEF Finish, Goto, Run
    <3>3. mem' \in Data /\ db' \in Data
      BY <2>35, <2>0 DEF Finish, Save, Data
    <3>4. status' \in {"completed", "errored"}
      BY <2>35, <2>0 DEF Finish, Run
    <3> QED
      BY <2>35, <3>1, <3>2, <3>3, <3>4, <2>0, <2>s, SyncJobAssumption DEF Finish, TypeOK, environment, inventory
  <2>36. CASE enqueue
    BY <2>36, <2>0, SyncJobAssumption DEF enqueue, TypeOK, environment, inventory
  <2>37. CASE _persist_enqueued_sync_params
    <3>1. mem' \in Data /\ db' \in Data
      BY <2>37, <2>0 DEF _persist_enqueued_sync_params, NoData, Data
    <3> QED
      BY <2>37, <3>1, <2>0, <2>s, SyncJobAssumption DEF _persist_enqueued_sync_params, TypeOK, environment, inventory
  <2>38. CASE SaveSettings
    BY <2>38, <2>0, SyncJobAssumption DEF SaveSettings, Edit, TypeOK, environment, inventory
  <2>39. ASSUME NEW e \in Endpoints, ToggleEndpoint(e) PROVE TypeOK'
    BY <2>39, <2>0, SyncJobAssumption DEF ToggleEndpoint, Edit, TypeOK, environment, inventory
  <2>40. CASE BranchTaken
    <3>1. branch' \in Branch
      BY <2>40, <2>0 DEF BranchTaken, Edit, Branch, inventory
    <3> QED
      BY <2>40, <3>1, <2>0, <2>s, SyncJobAssumption DEF BranchTaken, Edit, TypeOK, environment, inventory
  <2>41. CASE ConflictAppears
    <3>1. branch' \in Branch
      BY <2>41, <2>0 DEF ConflictAppears, Edit, Branch, inventory
    <3> QED
      BY <2>41, <3>1, <2>0, <2>s, SyncJobAssumption DEF ConflictAppears, Edit, TypeOK, environment, inventory
  <2>42. CASE Deadline
    BY <2>42, <2>0, SyncJobAssumption DEF Deadline, TypeOK, environment, inventory
  <2>43. CASE WorkerKilled
    <3>1. run' \in Run
      BY <2>43, <2>0, <2>s DEF WorkerKilled, Run, Pc
    <3>2. run'.pc = "finally" => run'.verdict # "none"
      BY <2>43, <2>0 DEF WorkerKilled, Run
    <3> QED
      BY <2>43, <3>1, <3>2, <2>0, <2>s, SyncJobAssumption DEF WorkerKilled, Edit, TypeOK, environment, inventory
  <2>u. CASE UNCHANGED vars
    BY <2>u DEF TypeOK, vars
  <2> QED
    BY <2>1, <2>2, <2>3, <2>4, <2>5, <2>6, <2>7, <2>8, <2>9, <2>10, <2>11, <2>12, <2>13, <2>14, <2>15, <2>16, <2>17, <2>18, <2>19, <2>20, <2>21, <2>22, <2>23, <2>24, <2>25, <2>26, <2>27, <2>28, <2>29, <2>30, <2>31, <2>32, <2>33, <2>34, <2>35, <2>36, <2>37, <2>38, <2>39, <2>40, <2>41, <2>42, <2>43, <2>u DEF Next, Worker, Web, Outside, Begin,
       _require_backend_key, Bootstrap, Batch, Local, Stages, Conclude
<1> QED
  BY <1>1, <1>2, PTL DEF Spec

-----------------------------------------------------------------------------
(* A step seen through the fields of the run that Inductive reads.          *)
Kept ==
    /\ run'.isolated = run.isolated /\ run'.keyed = run.keyed /\ run'.kind = run.kind
    /\ run'.endpoints = run.endpoints /\ run'.scopes = run.scopes /\ run'.todo = run.todo
    /\ run'.passed = run.passed /\ run'.warned = run.warned /\ run'.ran = run.ran
    /\ run'.skipped = run.skipped /\ run'.failed = run.failed /\ run'.batch = run.batch

(* What the world around the run looks like stays as it is.                 *)
Still ==
    /\ branch'.status = branch.status /\ main' = main /\ inBranch' = inBranch
    /\ slot' = slot /\ request' = request /\ expired' = expired

(* A write of the run goes to its branch or to main, never to both.         *)
Written ==
    /\ branch'.status = branch.status /\ slot' = slot /\ request' = request
    /\ expired' = expired
    /\ run.isolated => main' = main /\ inBranch \subseteq inBranch'
    /\ ~run.isolated => inBranch' = inBranch

LEMMA GotoMoves ==
    ASSUME run \in Run, NEW p, Goto(p)
    PROVE  Kept /\ run'.pc = p
BY DEF Goto, Run, Kept

LEMMA RaiseMoves ==
    ASSUME run \in Run, Raise \/ Complete
    PROVE  Kept /\ run'.pc = "finally"
BY DEF Raise, Complete, Run, Kept

LEMMA WriteWrites ==
    ASSUME NEW rows, Write(rows), UNCHANGED <<slot, request, expired>>
    PROVE  Written
BY DEF Write, Written

LEMMA BackfillWrites ==
    ASSUME NEW map, NEW p, Backfill(map, p), UNCHANGED <<slot, request, expired>>
    PROVE  Written
<1>1. CASE UNCHANGED inventory
  BY <1>1 DEF Written, inventory
<1>2. ASSUME NEW rows, Write(rows) PROVE Written
  BY <1>2, WriteWrites
<1> QED
  BY <1>1, <1>2 DEF Backfill

(* A step that changes nothing of all this, or only lets the deadline pass. *)
LEMMA Frame ==
    ASSUME Inductive, Kept, run'.pc = run.pc, branch'.status = branch.status, main' = main,
           inBranch' = inBranch, slot' = slot, request' = request, expired => expired'
    PROVE  Inductive'
<1>1. NothingEarly' /\ OnPath' /\ OursOrLate'
  BY DEF Inductive, Kept, NothingEarly, OnPath, OursOrLate, Staged
<1>2. Accounted'
  BY DEF Inductive, Kept, Accounted, Covered, RequiredKinds
<1>3. CompleteBeforeMerge' /\ Isolated' /\ WritesAreOurs'
  BY DEF Inductive, Kept, CompleteBeforeMerge, RunIsComplete, Isolated, WritesAreOurs,
         Staged, RequiredKinds
<1> QED
  BY <1>1, <1>2, <1>3 DEF Inductive

(* The end of a run, by return, exception or death of the worker, asks for  *)
(* nothing that did not hold before.                                        *)
LEMMA Exit ==
    ASSUME Inductive, Kept, Still, run'.pc \in {"finally", "done", "dead"}
    PROVE  Inductive'
<1>1. NothingEarly' /\ OnPath' /\ OursOrLate' /\ Accounted'
  BY DEF Inductive, Kept, Still, NothingEarly, OnPath, OursOrLate, Accounted, Staged, Early,
         Keyed, StagedPc
<1>2. CompleteBeforeMerge' /\ Isolated' /\ WritesAreOurs'
  BY DEF Inductive, Kept, Still, CompleteBeforeMerge, RunIsComplete, Isolated,
         WritesAreOurs, Staged, RequiredKinds
<1> QED
  BY <1>1, <1>2 DEF Inductive

LEMMA _claim_rq_sync_ownership_Inductive ==
    ASSUME TypeOK, Inductive, _claim_rq_sync_ownership
    PROVE  Inductive'
<1>0. run \in Run
  BY DEF TypeOK
<1>1. Kept /\ run'.pc = "config" /\ run.pc = "idle"
  BY <1>0, GotoMoves DEF _claim_rq_sync_ownership
<1>2. Still
  BY DEF _claim_rq_sync_ownership, Still, environment, inventory
<1>11. NothingEarly' /\ OnPath' /\ OursOrLate'
  BY <1>1, <1>2 DEF Still, Kept, Inductive, NothingEarly, OnPath, OursOrLate, Staged, Early,
         Keyed, StagedPc
<1>12. Accounted'
  BY <1>1, <1>2 DEF Still, Kept, Inductive, Accounted, RequiredKinds, Early
<1>13. CompleteBeforeMerge'
  BY <1>1, <1>2 DEF Still, Kept, Inductive, CompleteBeforeMerge, RunIsComplete,
         RequiredKinds, Staged
<1>14. Isolated' /\ WritesAreOurs'
  BY <1>1, <1>2 DEF Still, Kept, Inductive, Isolated, WritesAreOurs, Staged
<1> QED
  BY <1>11, <1>12, <1>13, <1>14 DEF Inductive

LEMMA _resolve_branching_config_Inductive ==
    ASSUME TypeOK, Inductive, _resolve_branching_config
    PROVE  Inductive'
<1>0. run \in Run
  BY DEF TypeOK
<1>1. \/ Kept /\ run'.pc = "finally"
      \/ /\ run'.pc = "create" /\ run'.isolated = settings.isolate /\ run'.keyed = run.keyed
         /\ run'.kind = run.kind /\ run'.endpoints = run.endpoints /\ run'.scopes = run.scopes
         /\ run'.todo = run.todo /\ run'.passed = run.passed /\ run'.warned = run.warned
         /\ run'.ran = run.ran /\ run'.skipped = run.skipped /\ run'.failed = run.failed
         /\ run'.batch = run.batch
         /\ run.pc = "config"
  BY <1>0, RaiseMoves DEF _resolve_branching_config, RefuseIsolation, Run
<1>2. Still
  BY DEF _resolve_branching_config, Still, environment, inventory
<1>3. CASE Kept /\ run'.pc = "finally"
  BY <1>2, <1>3, Exit
<1>4. CASE ~(Kept /\ run'.pc = "finally")
  <2>1. NothingEarly' /\ OnPath' /\ OursOrLate'
    BY <1>1, <1>2, <1>4 DEF Still, Kept, Inductive, NothingEarly, OnPath, OursOrLate,
           Staged, Early, Keyed, StagedPc
  <2>2. Accounted'
    BY <1>1, <1>2, <1>4 DEF Still, Kept, Inductive, Accounted, RequiredKinds, Early
  <2>3. CompleteBeforeMerge'
    BY <1>1, <1>2, <1>4 DEF Still, Kept, Inductive, CompleteBeforeMerge, RunIsComplete,
           RequiredKinds, Staged
  <2>4. Isolated' /\ WritesAreOurs'
    BY <1>1, <1>2, <1>4 DEF Still, Kept, Inductive, Isolated, WritesAreOurs, NothingEarly,
           OnPath, CompleteBeforeMerge, Staged, Early
  <2> QED
    BY <2>1, <2>2, <2>3, <2>4 DEF Inductive
<1> QED
  BY <1>3, <1>4

LEMMA _create_sync_branch_Inductive ==
    ASSUME TypeOK, Inductive, _create_sync_branch
    PROVE  Inductive'
<1>0. run \in Run
  BY DEF TypeOK
<1>1. Kept /\ run'.pc \in {"initial", "finally"} /\ run.pc = "create"
  BY <1>0, GotoMoves, RaiseMoves DEF _create_sync_branch, RefuseIsolation
<1>2. /\ branch'.status # "merged" /\ main' = main /\ inBranch' = inBranch
      /\ slot' = slot /\ request' = request /\ expired' = expired
  BY DEF _create_sync_branch, environment, TypeOK, Branch, Inductive, NothingEarly
<1>11. NothingEarly' /\ OnPath' /\ OursOrLate'
  BY <1>1, <1>2 DEF Kept, Inductive, NothingEarly, OnPath, OursOrLate, Staged, Early, Keyed,
         StagedPc
<1>12. Accounted'
  BY <1>1, <1>2 DEF Kept, Inductive, Accounted, RequiredKinds, Early
<1>13. CompleteBeforeMerge'
  BY <1>1, <1>2 DEF Kept, Inductive, CompleteBeforeMerge, RunIsComplete, RequiredKinds,
         Staged
<1>14. Isolated' /\ WritesAreOurs'
  BY <1>1, <1>2 DEF Kept, Inductive, Isolated, WritesAreOurs, NothingEarly,
         CompleteBeforeMerge, Staged
<1> QED
  BY <1>11, <1>12, <1>13, <1>14 DEF Inductive

LEMMA _persist_initial_sync_data_Inductive ==
    ASSUME TypeOK, Inductive, _persist_initial_sync_data
    PROVE  Inductive'
<1>0. run \in Run
  BY DEF TypeOK
<1>1. Kept /\ run'.pc = "key" /\ run.pc = "initial"
  BY <1>0, GotoMoves DEF _persist_initial_sync_data
<1>2. Still
  BY DEF _persist_initial_sync_data, Still, environment, inventory
<1>11. NothingEarly' /\ OnPath' /\ OursOrLate'
  BY <1>1, <1>2 DEF Still, Kept, Inductive, NothingEarly, OnPath, OursOrLate, Staged, Early,
         Keyed, StagedPc
<1>12. Accounted'
  BY <1>1, <1>2 DEF Still, Kept, Inductive, Accounted, RequiredKinds, Early
<1>13. CompleteBeforeMerge'
  BY <1>1, <1>2 DEF Still, Kept, Inductive, CompleteBeforeMerge, RunIsComplete,
         RequiredKinds, Staged
<1>14. Isolated' /\ WritesAreOurs'
  BY <1>1, <1>2 DEF Still, Kept, Inductive, Isolated, WritesAreOurs, Staged
<1> QED
  BY <1>11, <1>12, <1>13, <1>14 DEF Inductive

LEMMA KeyVerified_Inductive ==
    ASSUME TypeOK, Inductive, KeyVerified
    PROVE  Inductive'
<1>0. run \in Run
  BY DEF TypeOK
<1>1. /\ run'.pc = "preflight" /\ run'.keyed = TRUE /\ run'.isolated = run.isolated
      /\ run'.kind = run.kind /\ run'.endpoints = run.endpoints /\ run'.scopes = run.scopes
      /\ run'.todo = run.todo /\ run'.passed = run.passed /\ run'.warned = run.warned
      /\ run'.ran = run.ran /\ run'.skipped = run.skipped /\ run'.failed = run.failed
      /\ run'.batch = run.batch
      /\ run.pc = "key"
  BY <1>0 DEF KeyVerified, Run
<1>2. Still
  BY DEF KeyVerified, Still, environment, inventory
<1>11. NothingEarly' /\ OnPath' /\ OursOrLate'
  BY <1>1, <1>2 DEF Still, Kept, Inductive, NothingEarly, OnPath, OursOrLate, Staged, Early,
         Keyed, StagedPc
<1>12. Accounted'
  BY <1>1, <1>2 DEF Still, Kept, Inductive, Accounted, RequiredKinds, Early
<1>13. CompleteBeforeMerge'
  BY <1>1, <1>2 DEF Still, Kept, Inductive, CompleteBeforeMerge, RunIsComplete,
         RequiredKinds, Staged
<1>14. Isolated' /\ WritesAreOurs'
  BY <1>1, <1>2 DEF Still, Kept, Inductive, Isolated, WritesAreOurs, Staged
<1> QED
  BY <1>11, <1>12, <1>13, <1>14 DEF Inductive

LEMMA KeyRefused_Inductive ==
    ASSUME TypeOK, Inductive, KeyRefused
    PROVE  Inductive'
<1>0. run \in Run
  BY DEF TypeOK
<1>1. Kept /\ run'.pc \in {"finally", "done", "dead"}
  BY <1>0, GotoMoves, RaiseMoves DEF KeyRefused
<1>2. Still
  BY DEF KeyRefused, Still, environment, inventory
<1> QED
  BY <1>1, <1>2, Exit

LEMMA KeyDeadline_Inductive ==
    ASSUME TypeOK, Inductive, KeyDeadline
    PROVE  Inductive'
<1>0. run \in Run
  BY DEF TypeOK
<1>1. Kept /\ run'.pc \in {"finally", "done", "dead"}
  BY <1>0, GotoMoves, RaiseMoves DEF KeyDeadline
<1>2. Still
  BY DEF KeyDeadline, Still, environment, inventory
<1> QED
  BY <1>1, <1>2, Exit

LEMMA MissingBackend_Inductive ==
    ASSUME TypeOK, Inductive, MissingBackend
    PROVE  Inductive'
<1>0. run \in Run
  BY DEF TypeOK
<1>1. Kept /\ run'.pc \in {"finally", "done", "dead"}
  BY <1>0, GotoMoves, RaiseMoves DEF MissingBackend
<1>2. Still
  BY DEF MissingBackend, Still, environment, inventory
<1> QED
  BY <1>1, <1>2, Exit

LEMMA _resolve_batch_endpoint_scope_Inductive ==
    ASSUME TypeOK, Inductive, _resolve_batch_endpoint_scope
    PROVE  Inductive'
<1>0. run \in Run
  BY DEF TypeOK
<1>1. Kept /\ run'.pc \in {"finally", "done", "dead"}
  BY <1>0, GotoMoves, RaiseMoves DEF _resolve_batch_endpoint_scope
<1>2. Still
  BY DEF _resolve_batch_endpoint_scope, Still, environment, inventory
<1> QED
  BY <1>1, <1>2, Exit

(* After the preflight a staged run has a proved backend, or no time left.  *)
LEMMA Preflighted_Inductive ==
    ASSUME TypeOK, Inductive, run.pc = "preflight", Preflighted, slot' = "ours" \/ expired,
           branch' = branch, main' = main, inBranch' = inBranch, request' = request,
           expired' = expired
    PROVE  Inductive'
<1>0. run \in Run
  BY DEF TypeOK
<1>1. \/ Kept /\ run'.pc = "batch" /\ request.kind = "batch"
      \/ /\ run'.pc = "activate" /\ run'.endpoints = Selected /\ run'.todo = Selected
         /\ run'.isolated = run.isolated /\ run'.keyed = run.keyed /\ run'.kind = run.kind
         /\ run'.scopes = run.scopes /\ run'.passed = run.passed /\ run'.warned = run.warned
         /\ run'.ran = run.ran /\ run'.skipped = run.skipped /\ run'.failed = run.failed
         /\ run'.batch = run.batch
         /\ request.kind # "batch"
  BY <1>0 DEF Preflighted, Run, Kept
<1>2. main = {} /\ inBranch = {} /\ branch.status # "merged"
  BY DEF Inductive, NothingEarly, CompleteBeforeMerge, Early
<1>3. run.kind = "cluster"
  BY DEF Inductive, Accounted, Early
<1>11. NothingEarly' /\ OnPath' /\ OursOrLate'
  BY <1>1, <1>2, <1>3 DEF Kept, Inductive, NothingEarly, OnPath, OursOrLate, Staged, Early,
         Keyed, StagedPc
<1>12. Accounted'
  BY <1>1, <1>2, <1>3 DEF Kept, Inductive, Accounted, OnPath, Covered, KindsBefore,
         RequiredKinds, Staged, Early, StagedPc
<1>13. CompleteBeforeMerge'
  BY <1>1, <1>2, <1>3 DEF Kept, Inductive, CompleteBeforeMerge, RunIsComplete,
         RequiredKinds, Staged
<1>14. Isolated' /\ WritesAreOurs'
  BY <1>1, <1>2, <1>3 DEF Kept, Inductive, Isolated, WritesAreOurs, Staged
<1> QED
  BY <1>11, <1>12, <1>13, <1>14 DEF Inductive

LEMMA _ensure_backend_endpoints_Inductive ==
    ASSUME TypeOK, Inductive, _ensure_backend_endpoints
    PROVE  Inductive'
<1>0. run \in Run
  BY DEF TypeOK
<1>1. PICK pushed \in {"none", "failed", "some", "all"}, listed \in BOOLEAN, lost \in BOOLEAN :
        LET held == CASE pushed \in {"some", "all"} -> "ours"
                      [] pushed = "failed" /\ lost /\ slot # "ours" -> "stale"
                      [] OTHER -> slot
        IN /\ slot' = held
           /\ IF _verify_netbox_endpoint_push(pushed, listed, held)
              THEN Preflighted
              ELSE Raise
  BY DEF _ensure_backend_endpoints
<1>2. Raise \/ (Preflighted /\ slot' = "ours")
  BY <1>1 DEF _verify_netbox_endpoint_push
<1>3. run.pc = "preflight" /\ branch' = branch /\ main' = main /\ inBranch' = inBranch
      /\ request' = request /\ expired' = expired
  BY DEF _ensure_backend_endpoints, environment, inventory
<1>4. CASE Preflighted /\ slot' = "ours"
  BY <1>3, <1>4, Preflighted_Inductive
<1>5. CASE Raise
  <2>0. Kept /\ run'.pc = "finally"
    BY <1>0, <1>5, RaiseMoves
  <2>s. main = {} /\ inBranch = {} /\ branch.status # "merged"
    BY <1>3 DEF Inductive, NothingEarly, CompleteBeforeMerge, Early
  <2>1. NothingEarly' /\ OnPath' /\ OursOrLate'
    BY <2>0, <2>s, <1>3 DEF Kept, Inductive, NothingEarly, OnPath, OursOrLate, Staged,
           Early, Keyed, StagedPc
  <2>2. Accounted'
    BY <2>0, <2>s, <1>3 DEF Kept, Inductive, Accounted, RequiredKinds, Early
  <2>3. CompleteBeforeMerge'
    BY <2>0, <2>s, <1>3 DEF Kept, Inductive, CompleteBeforeMerge, RunIsComplete,
           RequiredKinds, Staged
  <2>4. Isolated' /\ WritesAreOurs'
    BY <2>0, <2>s, <1>3 DEF Kept, Inductive, Isolated, WritesAreOurs, Staged
  <2> QED
    BY <2>1, <2>2, <2>3, <2>4 DEF Inductive
<1> QED
  BY <1>2, <1>4, <1>5

LEMMA PreflightDeadline_Inductive ==
    ASSUME TypeOK, Inductive, PreflightDeadline
    PROVE  Inductive'
BY Preflighted_Inductive DEF PreflightDeadline, environment, inventory

LEMMA _execute_batch_sync_Inductive ==
    ASSUME TypeOK, Inductive, _execute_batch_sync
    PROVE  Inductive'
<1>0. run \in Run
  BY DEF TypeOK
<1>1. \/ Raise
      \/ \E scope \in SUBSET Selected, result \in {"ok", "failed"} :
            run' = [run EXCEPT !.pc = "batched", !.batch = result, !.scopes = scope]
  BY DEF _execute_batch_sync
<1>2. /\ run'.isolated = run.isolated
      /\ run'.keyed = run.keyed /\ run'.kind = run.kind /\ run'.endpoints = run.endpoints
      /\ run'.todo = run.todo /\ run'.passed = run.passed
      /\ run'.warned = run.warned /\ run'.ran = run.ran /\ run'.skipped = run.skipped
      /\ run'.failed = run.failed
      /\ run.pc = "batch"
      /\ run'.pc = "finally" \/ (run'.pc = "batched" /\ run'.batch # "none")
  BY <1>0, <1>1 DEF _execute_batch_sync, Raise, Run
<1>3. /\ branch' = branch /\ slot' = slot /\ request' = request /\ expired' = expired
      /\ ~run.isolated => inBranch' = inBranch
      /\ run.isolated => main' \subseteq main \cup {Tenant} /\ inBranch \subseteq inBranch'
  BY DEF _execute_batch_sync, environment
<1>11. NothingEarly' /\ OnPath' /\ OursOrLate'
  BY <1>2, <1>3 DEF Kept, Inductive, NothingEarly, OnPath, OursOrLate, Staged, Early, Keyed,
         StagedPc
<1>12. Accounted'
  BY <1>2, <1>3 DEF Kept, Inductive, Accounted, RequiredKinds, Early
<1>13. CompleteBeforeMerge'
  BY <1>2, <1>3 DEF Kept, Inductive, CompleteBeforeMerge, RunIsComplete, RequiredKinds,
         Staged
<1>14. Isolated' /\ WritesAreOurs'
  BY <1>2, <1>3 DEF Kept, Inductive, Isolated, WritesAreOurs, OnPath, Staged, Early
<1> QED
  BY <1>11, <1>12, <1>13, <1>14 DEF Inductive

LEMMA BatchBackfill_Inductive ==
    ASSUME TypeOK, Inductive, BatchBackfill
    PROVE  Inductive'
<1>0. run \in Run
  BY DEF TypeOK
<1>1. Kept /\ run'.pc \in {"batch_persist", "finally"} /\ run.pc = "batched"
  BY <1>0, GotoMoves, RaiseMoves DEF BatchBackfill, Backfill, RefuseIsolation
<1>2. Written
  BY BackfillWrites DEF BatchBackfill, environment
<1>11. NothingEarly' /\ OnPath' /\ OursOrLate'
  BY <1>1, <1>2 DEF Written, Kept, Inductive, NothingEarly, OnPath, OursOrLate, Staged,
         Early, Keyed, StagedPc
<1>12. Accounted'
  BY <1>1, <1>2 DEF Written, Kept, Inductive, Accounted, RequiredKinds, Early
<1>13. CompleteBeforeMerge'
  BY <1>1, <1>2 DEF Written, Kept, Inductive, CompleteBeforeMerge, RunIsComplete,
         RequiredKinds, Staged
<1>14. Isolated' /\ WritesAreOurs'
  BY <1>1, <1>2 DEF Written, Kept, Inductive, Isolated, WritesAreOurs, OnPath, Staged, Early
<1> QED
  BY <1>11, <1>12, <1>13, <1>14 DEF Inductive

LEMMA _persist_batch_result_Inductive ==
    ASSUME TypeOK, Inductive, _persist_batch_result
    PROVE  Inductive'
<1>0. run \in Run
  BY DEF TypeOK
<1>b. run.pc = "batch_persist" => run.batch \in {"ok", "failed"}
  BY <1>0 DEF Run, Inductive, OnPath
<1>1. /\ Kept /\ run.pc = "batch_persist"
      /\ \/ run'.pc = "finally"
         \/ run'.pc = "conflicts" /\ run.batch = "ok"
  BY <1>0, <1>b, GotoMoves, RaiseMoves DEF _persist_batch_result
<1>2. Still
  BY DEF _persist_batch_result, Still, environment, inventory
<1>3. CASE run'.pc = "finally"
  BY <1>1, <1>2, <1>3, Exit
<1>4. CASE run'.pc = "conflicts"
  <2>1. NothingEarly' /\ OnPath' /\ OursOrLate'
    BY <1>1, <1>2, <1>4 DEF Still, Kept, Inductive, NothingEarly, OnPath, OursOrLate,
           Staged, Early, Keyed, StagedPc
  <2>2. Accounted'
    BY <1>1, <1>2, <1>4 DEF Still, Kept, Inductive, Accounted, RequiredKinds, Early
  <2>3. CompleteBeforeMerge'
    BY <1>1, <1>2, <1>4 DEF Still, Kept, Inductive, CompleteBeforeMerge, RunIsComplete,
           OnPath, RequiredKinds, Staged, Keyed
  <2>4. Isolated' /\ WritesAreOurs'
    BY <1>1, <1>2, <1>4 DEF Still, Kept, Inductive, Isolated, WritesAreOurs, Staged
  <2> QED
    BY <2>1, <2>2, <2>3, <2>4 DEF Inductive
<1> QED
  BY <1>1, <1>3, <1>4

LEMMA activate_sync_branch_Inductive ==
    ASSUME TypeOK, Inductive, activate_sync_branch
    PROVE  Inductive'
<1>0. run \in Run
  BY DEF TypeOK
<1>1. \/ Kept /\ run'.pc = "finally"
      \/ Kept /\ run'.pc = "local"
      \/ /\ run'.pc = "local" /\ run'.todo = {} /\ run'.isolated = run.isolated
         /\ run'.keyed = run.keyed /\ run'.kind = run.kind /\ run'.endpoints = run.endpoints
         /\ run'.scopes = run.scopes /\ run'.passed = run.passed /\ run'.warned = run.warned
         /\ run'.ran = run.ran /\ run'.skipped = run.skipped /\ run'.failed = run.failed
         /\ run'.batch = run.batch
         /\ run.kind = "vm_template"
  BY <1>0, GotoMoves, RaiseMoves DEF activate_sync_branch, RefuseIsolation, SkipsTemplates, Run
<1>2. Still
  BY DEF activate_sync_branch, Still, environment, inventory
<1>3. run.pc = "activate"
  BY DEF activate_sync_branch
<1>4. CASE Kept /\ run'.pc = "finally"
  BY <1>2, <1>4, Exit
<1>5. CASE ~(Kept /\ run'.pc = "finally")
  <2>1. NothingEarly' /\ OnPath' /\ OursOrLate'
    BY <1>1, <1>2, <1>3, <1>5 DEF Still, Kept, Inductive, NothingEarly, OnPath, OursOrLate,
           Staged, Early, Keyed, StagedPc
  <2>2. Accounted'
    BY <1>1, <1>2, <1>3, <1>5 DEF Still, Kept, Inductive, Accounted, Covered, RequiredKinds,
           Early, StagedPc
  <2>3. CompleteBeforeMerge'
    BY <1>1, <1>2, <1>3, <1>5 DEF Still, Kept, Inductive, CompleteBeforeMerge,
           RunIsComplete, RequiredKinds, Staged
  <2>4. Isolated' /\ WritesAreOurs'
    BY <1>1, <1>2, <1>3, <1>5 DEF Still, Kept, Inductive, Isolated, WritesAreOurs, Staged
  <2> QED
    BY <2>1, <2>2, <2>3, <2>4 DEF Inductive
<1> QED
  BY <1>4, <1>5

LEMMA _record_local_deadline_phases_Inductive ==
    ASSUME TypeOK, Inductive, _record_local_deadline_phases
    PROVE  Inductive'
<1>0. run \in Run
  BY DEF TypeOK
<1>1. /\ run'.pc = "local" /\ run'.todo = {} /\ run'.warned = run.warned \cup {<<run.kind, e>> : e \in run.todo}
      /\ run'.isolated = run.isolated /\ run'.keyed = run.keyed /\ run'.kind = run.kind
      /\ run'.endpoints = run.endpoints /\ run'.scopes = run.scopes /\ run'.passed = run.passed
      /\ run'.ran = run.ran /\ run'.skipped = run.skipped /\ run'.failed = run.failed
      /\ run'.batch = run.batch
      /\ run.pc = "local"
  BY <1>0 DEF _record_local_deadline_phases, Run
<1>2. Still
  BY DEF _record_local_deadline_phases, Still, environment, inventory
<1>11. NothingEarly' /\ OnPath' /\ OursOrLate'
  BY <1>1, <1>2 DEF Still, Kept, Inductive, NothingEarly, OnPath, OursOrLate, Staged, Early,
         Keyed, StagedPc
<1>12. Accounted'
  BY <1>1, <1>2 DEF Still, Kept, Inductive, Accounted, Covered, RequiredKinds, Early,
         StagedPc
<1>13. CompleteBeforeMerge'
  BY <1>1, <1>2 DEF Still, Kept, Inductive, CompleteBeforeMerge, RunIsComplete,
         RequiredKinds, Staged
<1>14. Isolated' /\ WritesAreOurs'
  BY <1>1, <1>2 DEF Still, Kept, Inductive, Isolated, WritesAreOurs, Staged
<1> QED
  BY <1>11, <1>12, <1>13, <1>14 DEF Inductive

LEMMA LocalEndpoint_Inductive ==
    ASSUME TypeOK, Inductive, NEW e \in Endpoints, LocalEndpoint(e)
    PROVE  Inductive'
<1>0. run \in Run
  BY DEF TypeOK
<1>1. /\ run'.pc = "local" /\ run'.todo = run.todo \ {e} /\ run'.passed = run.passed \cup {<<run.kind, e>>}
      /\ run'.isolated = run.isolated /\ run'.keyed = run.keyed /\ run'.kind = run.kind
      /\ run'.endpoints = run.endpoints /\ run'.scopes = run.scopes /\ run'.warned = run.warned
      /\ run'.ran = run.ran /\ run'.skipped = run.skipped /\ run'.failed = run.failed
      /\ run'.batch = run.batch
      /\ run.pc = "local"
      /\ ~expired
  BY <1>0 DEF LocalEndpoint, Run
<1>2. Written
  BY WriteWrites DEF LocalEndpoint, environment
<1>11. NothingEarly' /\ OnPath' /\ OursOrLate'
  BY <1>1, <1>2 DEF Written, Kept, Inductive, NothingEarly, OnPath, OursOrLate, Staged,
         Early, Keyed, StagedPc
<1>12. Accounted'
  BY <1>1, <1>2 DEF Written, Kept, Inductive, Accounted, Covered, RequiredKinds, Early,
         StagedPc
<1>13. CompleteBeforeMerge'
  BY <1>1, <1>2 DEF Written, Kept, Inductive, CompleteBeforeMerge, RunIsComplete,
         RequiredKinds, Staged
<1>14. Isolated' /\ WritesAreOurs'
  BY <1>1, <1>2 DEF Written, Kept, Inductive, Isolated, WritesAreOurs, OnPath, OursOrLate,
         Staged, Early, Keyed
<1> QED
  BY <1>11, <1>12, <1>13, <1>14 DEF Inductive

LEMMA LocalEndpointFails_Inductive ==
    ASSUME TypeOK, Inductive, NEW e \in Endpoints, LocalEndpointFails(e)
    PROVE  Inductive'
<1>0. run \in Run
  BY DEF TypeOK
<1>1. /\ run'.pc = "local" /\ run'.todo = run.todo \ {e} /\ run'.warned = run.warned \cup {<<run.kind, e>>}
      /\ run'.isolated = run.isolated /\ run'.keyed = run.keyed /\ run'.kind = run.kind
      /\ run'.endpoints = run.endpoints /\ run'.scopes = run.scopes /\ run'.passed = run.passed
      /\ run'.ran = run.ran /\ run'.skipped = run.skipped /\ run'.failed = run.failed
      /\ run'.batch = run.batch
      /\ run.pc = "local"
      /\ ~expired
  BY <1>0 DEF LocalEndpointFails, Run
<1>2. Written
  BY WriteWrites DEF LocalEndpointFails, environment
<1>11. NothingEarly' /\ OnPath' /\ OursOrLate'
  BY <1>1, <1>2 DEF Written, Kept, Inductive, NothingEarly, OnPath, OursOrLate, Staged,
         Early, Keyed, StagedPc
<1>12. Accounted'
  BY <1>1, <1>2 DEF Written, Kept, Inductive, Accounted, Covered, RequiredKinds, Early,
         StagedPc
<1>13. CompleteBeforeMerge'
  BY <1>1, <1>2 DEF Written, Kept, Inductive, CompleteBeforeMerge, RunIsComplete,
         RequiredKinds, Staged
<1>14. Isolated' /\ WritesAreOurs'
  BY <1>1, <1>2 DEF Written, Kept, Inductive, Isolated, WritesAreOurs, OnPath, OursOrLate,
         Staged, Early, Keyed
<1> QED
  BY <1>11, <1>12, <1>13, <1>14 DEF Inductive

LEMMA LocalEndpointRaises_Inductive ==
    ASSUME TypeOK, Inductive, NEW e \in Endpoints, LocalEndpointRaises(e)
    PROVE  Inductive'
<1>0. run \in Run
  BY DEF TypeOK
<1>1. Kept /\ run'.pc = "finally" /\ run.pc = "local" /\ ~expired
  BY <1>0, RaiseMoves DEF LocalEndpointRaises
<1>2. Written
  BY WriteWrites DEF LocalEndpointRaises, environment
<1>11. NothingEarly' /\ OnPath' /\ OursOrLate'
  BY <1>1, <1>2 DEF Written, Kept, Inductive, NothingEarly, OnPath, OursOrLate, Staged,
         Early, Keyed, StagedPc
<1>12. Accounted'
  BY <1>1, <1>2 DEF Written, Kept, Inductive, Accounted, RequiredKinds, Early
<1>13. CompleteBeforeMerge'
  BY <1>1, <1>2 DEF Written, Kept, Inductive, CompleteBeforeMerge, RunIsComplete,
         RequiredKinds, Staged
<1>14. Isolated' /\ WritesAreOurs'
  BY <1>1, <1>2 DEF Written, Kept, Inductive, Isolated, WritesAreOurs, OnPath, OursOrLate,
         Staged, Early, Keyed
<1> QED
  BY <1>11, <1>12, <1>13, <1>14 DEF Inductive

LEMMA StagesRaise_Inductive ==
    ASSUME TypeOK, Inductive, StagesRaise
    PROVE  Inductive'
<1>0. run \in Run
  BY DEF TypeOK
<1>1. Kept /\ run'.pc = "finally" /\ (run.pc = "stage" \/ (run.pc = "sse" /\ ~expired))
  BY <1>0, RaiseMoves DEF StagesRaise
<1>2. Written
  BY WriteWrites DEF StagesRaise, environment
<1>11. NothingEarly' /\ OnPath' /\ OursOrLate'
  BY <1>1, <1>2 DEF Written, Kept, Inductive, NothingEarly, OnPath, OursOrLate, Staged,
         Early, Keyed, StagedPc
<1>12. Accounted'
  BY <1>1, <1>2 DEF Written, Kept, Inductive, Accounted, RequiredKinds, Early
<1>13. CompleteBeforeMerge'
  BY <1>1, <1>2 DEF Written, Kept, Inductive, CompleteBeforeMerge, RunIsComplete,
         RequiredKinds, Staged
<1>14. Isolated' /\ WritesAreOurs'
  BY <1>1, <1>2 DEF Written, Kept, Inductive, Isolated, WritesAreOurs, OnPath, OursOrLate,
         Staged, Early, Keyed
<1> QED
  BY <1>11, <1>12, <1>13, <1>14 DEF Inductive

LEMMA _extend_and_checkpoint_local_phases_Inductive ==
    ASSUME TypeOK, Inductive, _extend_and_checkpoint_local_phases
    PROVE  Inductive'
<1>0. run \in Run
  BY DEF TypeOK
<1>1. run.pc = "local" /\ run.todo = {} /\ run.kind \in Kinds
  BY <1>0 DEF _extend_and_checkpoint_local_phases, Run
<1>2. run.kind = "vm_template" \/ request.kind = "targeted" => Kept /\ run'.pc = "sse"
  BY <1>0, GotoMoves DEF _extend_and_checkpoint_local_phases
<1>3. ~(run.kind = "vm_template" \/ request.kind = "targeted") =>
        run' = [run EXCEPT !.pc = "activate", !.kind = NextKind, !.todo = run.endpoints]
  BY DEF _extend_and_checkpoint_local_phases
<1>4. ~(run.kind = "vm_template" \/ request.kind = "targeted") =>
      /\ run'.pc = "activate" /\ run'.kind = NextKind /\ run'.todo = run.endpoints
      /\ run'.isolated = run.isolated /\ run'.keyed = run.keyed /\ run'.endpoints = run.endpoints
      /\ run'.scopes = run.scopes /\ run'.passed = run.passed /\ run'.warned = run.warned
      /\ run'.ran = run.ran /\ run'.skipped = run.skipped /\ run'.failed = run.failed
      /\ run'.batch = run.batch
  BY <1>0, <1>3 DEF Run
<1>5. Still
  BY DEF _extend_and_checkpoint_local_phases, Still, environment, inventory
<1>6. NextKind = CASE run.kind = "cluster" -> "firewall" [] run.kind = "firewall" -> "datacenter"
                   [] OTHER -> "vm_template"
  BY DEF NextKind
<1>11. NothingEarly' /\ OnPath' /\ OursOrLate'
  BY <1>1, <1>2, <1>4, <1>5, <1>6 DEF Still, Kept, Inductive, NothingEarly, OnPath,
         OursOrLate, Staged, Early, Keyed, StagedPc
<1>12. Accounted'
  BY <1>1, <1>2, <1>4, <1>5, <1>6 DEF Still, Kept, Inductive, Accounted, OnPath,
         NothingEarly, Covered, KindsBefore, Kinds, RequiredKinds, Staged, Early, StagedPc
<1>13. CompleteBeforeMerge'
  BY <1>1, <1>2, <1>4, <1>5, <1>6 DEF Still, Kept, Inductive, CompleteBeforeMerge,
         RunIsComplete, RequiredKinds, Staged
<1>14. Isolated' /\ WritesAreOurs'
  BY <1>1, <1>2, <1>4, <1>5, <1>6 DEF Still, Kept, Inductive, Isolated, WritesAreOurs,
         Staged
<1> QED
  BY <1>11, <1>12, <1>13, <1>14 DEF Inductive

LEMMA _deadline_sse_stages_Inductive ==
    ASSUME TypeOK, Inductive, _deadline_sse_stages
    PROVE  Inductive'
<1>0. run \in Run
  BY DEF TypeOK
<1>1. /\ run'.pc = "persist" /\ run'.failed = Selected /\ run'.isolated = run.isolated
      /\ run'.keyed = run.keyed /\ run'.kind = run.kind /\ run'.endpoints = run.endpoints
      /\ run'.scopes = run.scopes /\ run'.todo = run.todo /\ run'.passed = run.passed
      /\ run'.warned = run.warned /\ run'.ran = run.ran /\ run'.skipped = run.skipped
      /\ run'.batch = run.batch
      /\ run.pc = "sse"
  BY <1>0 DEF _deadline_sse_stages, Run
<1>2. Still
  BY DEF _deadline_sse_stages, Still, environment, inventory
<1>11. NothingEarly' /\ OnPath' /\ OursOrLate'
  BY <1>1, <1>2 DEF Still, Kept, Inductive, NothingEarly, OnPath, OursOrLate, Staged, Early,
         Keyed, StagedPc
<1>12. Accounted'
  BY <1>1, <1>2 DEF Still, Kept, Inductive, Accounted, Covered, RequiredKinds, Early,
         StagedPc
<1>13. CompleteBeforeMerge'
  BY <1>1, <1>2 DEF Still, Kept, Inductive, CompleteBeforeMerge, RunIsComplete,
         RequiredKinds, Staged
<1>14. Isolated' /\ WritesAreOurs'
  BY <1>1, <1>2 DEF Still, Kept, Inductive, Isolated, WritesAreOurs, Staged
<1> QED
  BY <1>11, <1>12, <1>13, <1>14 DEF Inductive

LEMMA _run_all_stages_sync_Inductive ==
    ASSUME TypeOK, Inductive, _run_all_stages_sync
    PROVE  Inductive'
<1>0. run \in Run
  BY DEF TypeOK
<1>1. \/ /\ run'.pc = "backfill" /\ run'.failed = {NoEndpoint} /\ run'.isolated = run.isolated
         /\ run'.keyed = run.keyed /\ run'.kind = run.kind /\ run'.endpoints = run.endpoints
         /\ run'.scopes = run.scopes /\ run'.todo = run.todo /\ run'.passed = run.passed
         /\ run'.warned = run.warned /\ run'.ran = run.ran /\ run'.skipped = run.skipped
         /\ run'.batch = run.batch
      \/ /\ run'.pc = "stage" /\ run'.scopes = Selected /\ run'.todo = Selected
         /\ run'.isolated = run.isolated /\ run'.keyed = run.keyed /\ run'.kind = run.kind
         /\ run'.endpoints = run.endpoints /\ run'.passed = run.passed /\ run'.warned = run.warned
         /\ run'.ran = run.ran /\ run'.skipped = run.skipped /\ run'.failed = run.failed
         /\ run'.batch = run.batch
  BY <1>0 DEF _run_all_stages_sync, Run
<1>2. Still
  BY DEF _run_all_stages_sync, Still, environment, inventory
<1>3. run.pc = "sse" /\ ~expired
  BY DEF _run_all_stages_sync
<1>11. NothingEarly' /\ OnPath' /\ OursOrLate'
  BY <1>1, <1>2, <1>3 DEF Still, Kept, Inductive, NothingEarly, OnPath, OursOrLate, Staged,
         Early, Keyed, StagedPc
<1>12. Accounted'
  BY <1>1, <1>2, <1>3 DEF Still, Kept, Inductive, Accounted, Covered, RequiredKinds, Early,
         StagedPc
<1>13. CompleteBeforeMerge'
  BY <1>1, <1>2, <1>3 DEF Still, Kept, Inductive, CompleteBeforeMerge, RunIsComplete,
         RequiredKinds, Staged
<1>14. Isolated' /\ WritesAreOurs'
  BY <1>1, <1>2, <1>3 DEF Still, Kept, Inductive, Isolated, WritesAreOurs, Staged
<1> QED
  BY <1>11, <1>12, <1>13, <1>14 DEF Inductive

LEMMA EndpointStages_Inductive ==
    ASSUME TypeOK, Inductive, NEW e \in Endpoints, EndpointStages(e)
    PROVE  Inductive'
<1>0. run \in Run
  BY DEF TypeOK
<1>1. /\ run'.pc = AfterScope(e) /\ run'.todo = run.todo \ {e} /\ run'.ran = run.ran \cup {e}
      /\ run'.isolated = run.isolated /\ run'.keyed = run.keyed /\ run'.kind = run.kind
      /\ run'.endpoints = run.endpoints /\ run'.scopes = run.scopes /\ run'.passed = run.passed
      /\ run'.warned = run.warned /\ run'.skipped = run.skipped /\ run'.failed = run.failed
      /\ run'.batch = run.batch
      /\ run.pc = "stage"
      /\ e \in run.todo
  BY <1>0 DEF EndpointStages, Run
<1>2. Written
  BY WriteWrites DEF EndpointStages, environment
<1>3. \/ AfterScope(e) = "stage"
      \/ AfterScope(e) = "backfill" /\ run.todo = {e}
  BY DEF AfterScope
<1>11. NothingEarly' /\ OnPath' /\ OursOrLate'
  BY <1>1, <1>2, <1>3 DEF Written, Kept, Inductive, NothingEarly, OnPath, OursOrLate,
         Staged, Early, Keyed, StagedPc
<1>12. Accounted'
  BY <1>1, <1>2, <1>3 DEF Written, Kept, Inductive, Accounted, Covered, RequiredKinds,
         Early, StagedPc
<1>13. CompleteBeforeMerge'
  BY <1>1, <1>2, <1>3 DEF Written, Kept, Inductive, CompleteBeforeMerge, RunIsComplete,
         RequiredKinds, Staged
<1>14. Isolated' /\ WritesAreOurs'
  BY <1>1, <1>2, <1>3 DEF Written, Kept, Inductive, Isolated, WritesAreOurs, OnPath,
         OursOrLate, Staged, Early, Keyed
<1> QED
  BY <1>11, <1>12, <1>13, <1>14 DEF Inductive

LEMMA EndpointSkipped_Inductive ==
    ASSUME TypeOK, Inductive, NEW e \in Endpoints, EndpointSkipped(e)
    PROVE  Inductive'
<1>0. run \in Run
  BY DEF TypeOK
<1>1. /\ run'.pc = AfterScope(e) /\ run'.todo = run.todo \ {e} /\ run'.skipped = run.skipped \cup {e}
      /\ run'.isolated = run.isolated /\ run'.keyed = run.keyed /\ run'.kind = run.kind
      /\ run'.endpoints = run.endpoints /\ run'.scopes = run.scopes /\ run'.passed = run.passed
      /\ run'.warned = run.warned /\ run'.ran = run.ran /\ run'.failed = run.failed
      /\ run'.batch = run.batch
      /\ run.pc = "stage"
      /\ e \in run.todo
  BY <1>0 DEF EndpointSkipped, Run
<1>2. Still
  BY DEF EndpointSkipped, Still, environment, inventory
<1>3. \/ AfterScope(e) = "stage"
      \/ AfterScope(e) = "backfill" /\ run.todo = {e}
  BY DEF AfterScope
<1>11. NothingEarly' /\ OnPath' /\ OursOrLate'
  BY <1>1, <1>2, <1>3 DEF Still, Kept, Inductive, NothingEarly, OnPath, OursOrLate, Staged,
         Early, Keyed, StagedPc
<1>12. Accounted'
  BY <1>1, <1>2, <1>3 DEF Still, Kept, Inductive, Accounted, Covered, RequiredKinds, Early,
         StagedPc
<1>13. CompleteBeforeMerge'
  BY <1>1, <1>2, <1>3 DEF Still, Kept, Inductive, CompleteBeforeMerge, RunIsComplete,
         RequiredKinds, Staged
<1>14. Isolated' /\ WritesAreOurs'
  BY <1>1, <1>2, <1>3 DEF Still, Kept, Inductive, Isolated, WritesAreOurs, Staged
<1> QED
  BY <1>11, <1>12, <1>13, <1>14 DEF Inductive

LEMMA EndpointFails_Inductive ==
    ASSUME TypeOK, Inductive, NEW e \in Endpoints, EndpointFails(e)
    PROVE  Inductive'
<1>0. run \in Run
  BY DEF TypeOK
<1>1. /\ run'.pc = AfterScope(e) /\ run'.todo = run.todo \ {e} /\ run'.failed = run.failed \cup {e}
      /\ run'.isolated = run.isolated /\ run'.keyed = run.keyed /\ run'.kind = run.kind
      /\ run'.endpoints = run.endpoints /\ run'.scopes = run.scopes /\ run'.passed = run.passed
      /\ run'.warned = run.warned /\ run'.ran = run.ran /\ run'.skipped = run.skipped
      /\ run'.batch = run.batch
      /\ run.pc = "stage"
      /\ e \in run.todo
  BY <1>0 DEF EndpointFails, Run
<1>2. Written
  BY WriteWrites DEF EndpointFails, environment
<1>3. \/ AfterScope(e) = "stage"
      \/ AfterScope(e) = "backfill" /\ run.todo = {e}
  BY DEF AfterScope
<1>11. NothingEarly' /\ OnPath' /\ OursOrLate'
  BY <1>1, <1>2, <1>3 DEF Written, Kept, Inductive, NothingEarly, OnPath, OursOrLate,
         Staged, Early, Keyed, StagedPc
<1>12. Accounted'
  BY <1>1, <1>2, <1>3 DEF Written, Kept, Inductive, Accounted, Covered, RequiredKinds,
         Early, StagedPc
<1>13. CompleteBeforeMerge'
  BY <1>1, <1>2, <1>3 DEF Written, Kept, Inductive, CompleteBeforeMerge, RunIsComplete,
         RequiredKinds, Staged
<1>14. Isolated' /\ WritesAreOurs'
  BY <1>1, <1>2, <1>3 DEF Written, Kept, Inductive, Isolated, WritesAreOurs, OnPath,
         OursOrLate, Staged, Early, Keyed
<1> QED
  BY <1>11, <1>12, <1>13, <1>14 DEF Inductive

LEMMA _record_deadline_endpoints_Inductive ==
    ASSUME TypeOK, Inductive, _record_deadline_endpoints
    PROVE  Inductive'
<1>0. run \in Run
  BY DEF TypeOK
<1>1. /\ run'.pc = "backfill" /\ run'.todo = {} /\ run'.failed = run.failed \cup run.todo
      /\ run'.isolated = run.isolated /\ run'.keyed = run.keyed /\ run'.kind = run.kind
      /\ run'.endpoints = run.endpoints /\ run'.scopes = run.scopes /\ run'.passed = run.passed
      /\ run'.warned = run.warned /\ run'.ran = run.ran /\ run'.skipped = run.skipped
      /\ run'.batch = run.batch
      /\ run.pc = "stage"
  BY <1>0 DEF _record_deadline_endpoints, Run
<1>2. Still
  BY DEF _record_deadline_endpoints, Still, environment, inventory
<1>11. NothingEarly' /\ OnPath' /\ OursOrLate'
  BY <1>1, <1>2 DEF Still, Kept, Inductive, NothingEarly, OnPath, OursOrLate, Staged, Early,
         Keyed, StagedPc
<1>12. Accounted'
  BY <1>1, <1>2 DEF Still, Kept, Inductive, Accounted, Covered, RequiredKinds, Early,
         StagedPc
<1>13. CompleteBeforeMerge'
  BY <1>1, <1>2 DEF Still, Kept, Inductive, CompleteBeforeMerge, RunIsComplete,
         RequiredKinds, Staged
<1>14. Isolated' /\ WritesAreOurs'
  BY <1>1, <1>2 DEF Still, Kept, Inductive, Isolated, WritesAreOurs, Staged
<1> QED
  BY <1>11, <1>12, <1>13, <1>14 DEF Inductive

LEMMA StagedBackfill_Inductive ==
    ASSUME TypeOK, Inductive, StagedBackfill
    PROVE  Inductive'
<1>0. run \in Run
  BY DEF TypeOK
<1>1. Kept /\ run'.pc \in {"persist", "finally"} /\ run.pc = "backfill"
  BY <1>0, GotoMoves, RaiseMoves DEF StagedBackfill, Backfill, RefuseIsolation
<1>2. Written
  BY BackfillWrites DEF StagedBackfill, environment
<1>3. (main' = main /\ inBranch' = inBranch) \/ run.scopes # {}
  <2>1. CASE UNCHANGED inventory
    BY <2>1 DEF inventory
  <2>2. ASSUME NEW rows \in SUBSET run.scopes, Write(rows)
        PROVE  (main' = main /\ inBranch' = inBranch) \/ run.scopes # {}
    BY <2>2 DEF Write
  <2> QED
    BY <2>1, <2>2 DEF StagedBackfill, Backfill
<1>11. NothingEarly' /\ OnPath' /\ OursOrLate'
  BY <1>1, <1>2 DEF Written, Kept, Inductive, NothingEarly, OnPath, OursOrLate, Staged,
         Early, Keyed, StagedPc
<1>12. Accounted'
  BY <1>1, <1>2 DEF Written, Kept, Inductive, Accounted, Covered, RequiredKinds, Early,
         StagedPc
<1>13. CompleteBeforeMerge'
  BY <1>1, <1>2 DEF Written, Kept, Inductive, CompleteBeforeMerge, RunIsComplete,
         RequiredKinds, Staged
<1>14. Isolated' /\ WritesAreOurs'
  BY <1>1, <1>2, <1>3 DEF Written, Kept, Inductive, Isolated, WritesAreOurs, OnPath,
         OursOrLate, Staged, Keyed
<1> QED
  BY <1>11, <1>12, <1>13, <1>14 DEF Inductive

LEMMA _persist_staged_result_Inductive ==
    ASSUME TypeOK, Inductive, _persist_staged_result
    PROVE  Inductive'
<1>0. run \in Run
  BY DEF TypeOK
<1>1. Kept /\ run'.pc = "classify" /\ run.pc = "persist"
  BY <1>0, GotoMoves DEF _persist_staged_result
<1>2. Still
  BY DEF _persist_staged_result, Still, environment, inventory
<1>11. NothingEarly' /\ OnPath' /\ OursOrLate'
  BY <1>1, <1>2 DEF Still, Kept, Inductive, NothingEarly, OnPath, OursOrLate, Staged, Early,
         Keyed, StagedPc
<1>12. Accounted'
  BY <1>1, <1>2 DEF Still, Kept, Inductive, Accounted, Covered, RequiredKinds, Early,
         StagedPc
<1>13. CompleteBeforeMerge'
  BY <1>1, <1>2 DEF Still, Kept, Inductive, CompleteBeforeMerge, RunIsComplete,
         RequiredKinds, Staged
<1>14. Isolated' /\ WritesAreOurs'
  BY <1>1, <1>2 DEF Still, Kept, Inductive, Isolated, WritesAreOurs, Staged
<1> QED
  BY <1>11, <1>12, <1>13, <1>14 DEF Inductive

LEMMA Classify_Inductive ==
    ASSUME TypeOK, Inductive, Classify
    PROVE  Inductive'
<1>0. run \in Run
  BY DEF TypeOK
<1>1. /\ Kept /\ run.pc = "classify"
      /\ \/ run'.pc = "finally"
         \/ run'.pc = "conflicts" /\ run.failed = {} /\ run.warned = {}
  BY <1>0, GotoMoves, RaiseMoves DEF Classify, MustRaise
<1>2. Still
  BY DEF Classify, Still, environment, inventory
<1>3. CASE run'.pc = "finally"
  BY <1>1, <1>2, <1>3, Exit
<1>4. CASE run'.pc = "conflicts"
  <2>1. NothingEarly' /\ OnPath' /\ OursOrLate'
    BY <1>1, <1>2, <1>4 DEF Still, Kept, Inductive, NothingEarly, OnPath, OursOrLate,
           Staged, Early, Keyed, StagedPc
  <2>2. Accounted'
    BY <1>1, <1>2, <1>4 DEF Still, Kept, Inductive, Accounted, RequiredKinds, Early
  <2>3. CompleteBeforeMerge'
    BY <1>1, <1>2, <1>4 DEF Still, Kept, Inductive, CompleteBeforeMerge, RunIsComplete,
           Accounted, OnPath, Covered, RequiredKinds, Staged, Early, Keyed, StagedPc
  <2>4. Isolated' /\ WritesAreOurs'
    BY <1>1, <1>2, <1>4 DEF Still, Kept, Inductive, Isolated, WritesAreOurs, Staged
  <2> QED
    BY <2>1, <2>2, <2>3, <2>4 DEF Inductive
<1> QED
  BY <1>1, <1>3, <1>4

LEMMA branch_has_conflicts_Inductive ==
    ASSUME TypeOK, Inductive, branch_has_conflicts
    PROVE  Inductive'
<1>0. run \in Run
  BY DEF TypeOK
<1>1. /\ Kept /\ run.pc = "conflicts"
      /\ \/ run'.pc = "finally"
         \/ run'.pc = "merge" /\ run.isolated
  BY <1>0, GotoMoves, RaiseMoves DEF branch_has_conflicts, RefuseIsolation
<1>2. Still
  BY DEF branch_has_conflicts, Still, environment, inventory
<1>3. CASE run'.pc = "finally"
  BY <1>1, <1>2, <1>3, Exit
<1>4. CASE run'.pc = "merge"
  <2>1. NothingEarly' /\ OnPath' /\ OursOrLate'
    BY <1>1, <1>2, <1>4 DEF Still, Kept, Inductive, NothingEarly, OnPath, OursOrLate,
           Staged, Early, Keyed, StagedPc
  <2>2. Accounted'
    BY <1>1, <1>2, <1>4 DEF Still, Kept, Inductive, Accounted, RequiredKinds, Early
  <2>3. CompleteBeforeMerge'
    BY <1>1, <1>2, <1>4 DEF Still, Kept, Inductive, CompleteBeforeMerge, RunIsComplete,
           RequiredKinds, Staged
  <2>4. Isolated' /\ WritesAreOurs'
    BY <1>1, <1>2, <1>4 DEF Still, Kept, Inductive, Isolated, WritesAreOurs, Staged
  <2> QED
    BY <2>1, <2>2, <2>3, <2>4 DEF Inductive
<1> QED
  BY <1>1, <1>3, <1>4

(* The merge moves complete work of an isolated run into main.              *)
LEMMA Merge_Inductive ==
    ASSUME TypeOK, Inductive, MergeSucceeds \/ MergeFails
    PROVE  Inductive'
<1>0. run \in Run /\ branch \in Branch
  BY DEF TypeOK
<1>1. Kept /\ run'.pc = "finally" /\ run.pc = "merge"
  BY <1>0, RaiseMoves DEF MergeSucceeds, MergeFails, RefuseIsolation
<1>2. /\ inBranch' = inBranch /\ slot' = slot /\ request' = request /\ expired' = expired
      /\ Merged \/ (branch' = branch /\ main' = main)
  BY DEF MergeSucceeds, MergeFails, environment
<1>3. CASE branch' = branch /\ main' = main
  BY <1>1, <1>2, <1>3, Exit DEF Still
<1>4. CASE Merged
  <2>0. branch'.status = "merged" /\ inBranch # {} /\ main' = main \cup inBranch
    BY <1>0, <1>4 DEF Merged, Branch
  <2>1. NothingEarly' /\ OnPath' /\ OursOrLate'
    BY <1>1, <1>2, <2>0 DEF Kept, Inductive, NothingEarly, OnPath, OursOrLate, Staged,
           Early, Keyed, StagedPc
  <2>2. Accounted'
    BY <1>1, <1>2, <2>0 DEF Kept, Inductive, Accounted, RequiredKinds, Early
  <2>3. CompleteBeforeMerge'
    BY <1>1, <1>2, <2>0 DEF Kept, Inductive, CompleteBeforeMerge, RunIsComplete,
           RequiredKinds, Staged
  <2>4. Isolated' /\ WritesAreOurs'
    BY <1>1, <1>2, <2>0 DEF Kept, Inductive, Isolated, WritesAreOurs, Staged
  <2> QED
    BY <2>1, <2>2, <2>3, <2>4 DEF Inductive
<1> QED
  BY <1>2, <1>3, <1>4

LEMMA Finish_Inductive ==
    ASSUME TypeOK, Inductive, Finish
    PROVE  Inductive'
<1>0. run \in Run
  BY DEF TypeOK
<1>1. Kept /\ run'.pc \in {"finally", "done", "dead"}
  BY <1>0, GotoMoves, RaiseMoves DEF Finish
<1>2. Still
  BY DEF Finish, Still, environment, inventory
<1> QED
  BY <1>1, <1>2, Exit

LEMMA WorkerKilled_Inductive ==
    ASSUME TypeOK, Inductive, WorkerKilled
    PROVE  Inductive'
<1>0. run \in Run
  BY DEF TypeOK
<1>1. Kept /\ run'.pc = "dead"
  BY <1>0 DEF WorkerKilled, Run, Kept
<1>2. Still
  BY DEF WorkerKilled, Still, environment, inventory
<1> QED
  BY <1>1, <1>2, Exit

(* Edits of settings, endpoints and conflicts, the web request, the clock   *)
(* and a key retry touch nothing the invariant reads.                       *)
LEMMA Outside_Inductive ==
    ASSUME TypeOK, Inductive,
           \/ enqueue \/ _persist_enqueued_sync_params \/ SaveSettings
           \/ \E e \in Endpoints : ToggleEndpoint(e)
           \/ ConflictAppears \/ Deadline \/ KeyRetried
    PROVE  Inductive'
<1>0. run \in Run /\ branch \in Branch
  BY DEF TypeOK
<1>1. Kept /\ run'.pc = run.pc
  BY <1>0 DEF enqueue, _persist_enqueued_sync_params, SaveSettings, ToggleEndpoint,
         ConflictAppears, Deadline, KeyRetried, Kept, Run
<1>2. branch'.status = branch.status
  BY <1>0 DEF enqueue, _persist_enqueued_sync_params, SaveSettings, ToggleEndpoint,
         ConflictAppears, Deadline, KeyRetried, inventory, Branch
<1>3. /\ main' = main /\ inBranch' = inBranch /\ slot' = slot /\ request' = request
      /\ expired => expired'
  BY DEF enqueue, _persist_enqueued_sync_params, SaveSettings, ToggleEndpoint,
         ConflictAppears, Deadline, KeyRetried, inventory, environment
<1> QED
  BY <1>1, <1>2, <1>3, Frame

LEMMA BranchTaken_Inductive ==
    ASSUME TypeOK, Inductive, BranchTaken
    PROVE  Inductive'
<1>0. branch \in Branch
  BY DEF TypeOK
<1>1. /\ branch.status = "ready"
      /\ \/ branch'.status = "other" /\ main' = main
         \/ branch'.status = "taken" /\ inBranch # {} /\ main' = main \cup inBranch
  BY <1>0 DEF BranchTaken, Branch
<1>2. /\ run' = run /\ inBranch' = inBranch /\ slot' = slot
      /\ request' = request /\ expired' = expired
  BY DEF BranchTaken
<1>3. NothingEarly' /\ OnPath' /\ OursOrLate'
  BY <1>1, <1>2 DEF Inductive, NothingEarly, OnPath, OursOrLate, Staged
<1>4. Accounted' /\ CompleteBeforeMerge' /\ Isolated' /\ WritesAreOurs'
  BY <1>1, <1>2 DEF Inductive, Accounted, Covered, RequiredKinds, CompleteBeforeMerge,
         RunIsComplete, Isolated, WritesAreOurs, Staged
<1> QED
  BY <1>3, <1>4 DEF Inductive

(* The inductive invariant of the run: the parts of Inductive support each  *)
(* other over every handler, edit, deadline and death.                      *)
THEOREM InductiveHolds == Spec => []Inductive
<1>1. Init => Inductive
  <2> SUFFICES ASSUME Init PROVE Inductive
    OBVIOUS
  <2>0. /\ run.pc = "idle" /\ ~run.isolated /\ run.scopes = {} /\ run.batch = "none"
        /\ run.failed = {} /\ run.warned = {} /\ run.kind = "cluster"
        /\ branch.status = "none" /\ main = {} /\ inBranch = {}
    BY DEF Init, Idle
  <2>1. NothingEarly /\ OnPath /\ OursOrLate
    BY <2>0 DEF NothingEarly, OnPath, OursOrLate, Early, Keyed, StagedPc
  <2>2. Accounted /\ CompleteBeforeMerge /\ Isolated /\ WritesAreOurs
    BY <2>0 DEF Accounted, CompleteBeforeMerge, Isolated, WritesAreOurs, Early
  <2> QED
    BY <2>1, <2>2 DEF Inductive
<1>2. TypeOK /\ Inductive /\ [Next]_vars => Inductive'
  <2> SUFFICES ASSUME TypeOK, Inductive, [Next]_vars PROVE Inductive'
    OBVIOUS
  <2>1. CASE Begin
    BY <2>1, _claim_rq_sync_ownership_Inductive, _resolve_branching_config_Inductive,
       _create_sync_branch_Inductive, _persist_initial_sync_data_Inductive DEF Begin
  <2>2. CASE _require_backend_key
    BY <2>2, KeyVerified_Inductive, KeyRefused_Inductive, KeyDeadline_Inductive, Outside_Inductive DEF _require_backend_key
  <2>3. CASE Bootstrap
    BY <2>3, _ensure_backend_endpoints_Inductive, MissingBackend_Inductive,
       PreflightDeadline_Inductive DEF Bootstrap
  <2>4. CASE Batch
    BY <2>4, _resolve_batch_endpoint_scope_Inductive, _execute_batch_sync_Inductive,
       BatchBackfill_Inductive, _persist_batch_result_Inductive DEF Batch
  <2>5. CASE Local
    BY <2>5, activate_sync_branch_Inductive, _record_local_deadline_phases_Inductive,
       _extend_and_checkpoint_local_phases_Inductive, LocalEndpoint_Inductive,
       LocalEndpointFails_Inductive, LocalEndpointRaises_Inductive DEF Local
  <2>6. CASE Stages
    BY <2>6, _deadline_sse_stages_Inductive, _run_all_stages_sync_Inductive,
       _record_deadline_endpoints_Inductive, StagesRaise_Inductive, EndpointStages_Inductive,
       EndpointSkipped_Inductive, EndpointFails_Inductive DEF Stages
  <2>7. CASE Conclude
    BY <2>7, StagedBackfill_Inductive, _persist_staged_result_Inductive, Classify_Inductive,
       branch_has_conflicts_Inductive, Merge_Inductive, Finish_Inductive DEF Conclude
  <2>8. CASE Web
    BY <2>8, Outside_Inductive DEF Web
  <2>9. CASE Outside
    BY <2>9, Outside_Inductive, BranchTaken_Inductive, WorkerKilled_Inductive DEF Outside
  <2>10. CASE UNCHANGED vars
    BY <2>10, Frame DEF vars, Kept
  <2> QED
    BY <2>1, <2>2, <2>3, <2>4, <2>5, <2>6, <2>7, <2>8, <2>9, <2>10 DEF Next, Worker
<1> QED
  BY <1>1, <1>2, TypeCorrect, PTL DEF Spec

(* Fail closed: once branch isolation is resolved, nothing of the run but a *)
(* tenant reaches main before the merge (activate_sync_branch).             *)
THEOREM IsolationHolds == Spec => []Isolated
<1>1. Inductive => Isolated
  BY DEF Inductive
<1> QED
  BY <1>1, InductiveHolds, PTL

(* A merged branch holds complete work: no failed phase, scope or object    *)
(* gets past the raises before _merge_sync_branch.                          *)
THEOREM MergeSound == Spec => []MergedIsComplete
<1>1. Inductive => MergedIsComplete
  BY DEF Inductive, CompleteBeforeMerge, RunIsComplete, MergedIsComplete
<1> QED
  BY <1>1, InductiveHolds, PTL

(* A staged run writes only through a backend that holds this NetBox's      *)
(* credentials, whichever push was lost and wherever the deadline fell.     *)
THEOREM IdentityHolds == Spec => []WritesAreOurs
<1>1. Inductive => WritesAreOurs
  BY DEF Inductive
<1> QED
  BY <1>1, InductiveHolds, PTL
-----------------------------------------------------------------------------
(* The evidence on the row.  Unsaved are the steps before the first save of *)
(* a response, Working those before its final one.                          *)
Unsaved == {"idle", "config", "create", "initial", "key", "preflight", "batch",
            "batched", "batch_persist"}
Working == Unsaved \cup {"activate", "local", "sse", "stage", "backfill", "persist"}

(* The status column follows the run, and stays behind when it is killed.   *)
StatusFollows ==
    /\ run.pc = "idle" => status = "pending"
    /\ run.pc \notin {"idle", "done"} => status = "running"
    /\ run.pc = "done" => status = run.verdict

(* The worker's copy of the data and the column are equal but for a late    *)
(* save of enqueue().                                                       *)
Synced ==
    /\ run.pc = "idle" => mem = NoData /\ db = NoData
    /\ ~raced => mem = db

(* No data claims a local phase that the run has no result of.              *)
Within ==
    \A d \in {mem, db} : d.passed \subseteq run.passed /\ d.warned \subseteq run.warned

(* A disposition is recorded only of a branch that is not merged and that   *)
(* no later step of the run will merge.                                     *)
Disposed ==
    \A d \in {mem, db} : d.disposition # "none" =>
        /\ branch.status # "merged"
        /\ run.pc \notin {"conflicts", "merge"}
        /\ run.pc = "classify" => run.failed # {} \/ run.warned # {}

(* Left open by what d reports, d says so.                                  *)
TellsOpen(d) ==
    run.isolated /\ (d.failed # {} \/ d.warned # {}) => d.disposition \in {"local", "sse"}

(* Until the final response is saved nothing on the row looks like one.     *)
Provisional ==
    /\ run.pc \in Unsaved => mem.response = "none" /\ db.response = "none"
    /\ run.pc \in Working => mem.response # "final" /\ mem.failed = {} /\ TellsOpen(mem)

Clean(d) ==
    /\ d.response = "final" /\ ~d.isolation
    /\ d.failed = {} /\ d.warned = {} /\ d.batch # "failed"

(* From then on the data is what the run goes by.                           *)
Concluded ==
    ~raced =>
        /\ run.pc = "classify" =>
              /\ mem.response = "final" /\ ~mem.isolation /\ mem.batch # "failed"
              /\ mem.failed = run.failed /\ mem.warned = run.warned /\ TellsOpen(mem)
        /\ run.pc \in {"conflicts", "merge"} => Clean(mem)
        /\ run.pc \in {"finally", "done"} /\ run.verdict = "completed" => Clean(mem)
        /\ run.pc \in {"finally", "done"} /\ run.verdict = "errored" =>
              /\ TellsOpen(mem)
              /\ mem.response = "final" =>
                    mem.isolation \/ mem.failed # {} \/ mem.warned # {} \/ mem.batch = "failed"

(* What the row says of the run, in a form every step preserves.            *)
Evidence ==
    /\ StatusFollows
    /\ Synced
    /\ Within
    /\ Disposed
    /\ Provisional
    /\ Concluded

(* A step that leaves the data, the status and a merged branch alone and    *)
(* forgets no result.                                                       *)
Untold ==
    /\ mem' = mem /\ db' = db /\ raced' = raced /\ status' = status
    /\ branch'.status = "merged" => branch.status = "merged"
    /\ run.passed \subseteq run'.passed /\ run.warned \subseteq run'.warned
    /\ run'.isolated = run.isolated

LEMMA Progress_Evidence ==
    ASSUME Evidence, Untold,
           run.pc \in Working \ {"idle"}, run'.pc \in Working \ {"idle"},
           run'.pc \in Unsaved => run.pc \in Unsaved
    PROVE  Evidence'
<1>1. StatusFollows' /\ Synced'
  BY DEF Evidence, Untold, StatusFollows, Synced, Working, Unsaved
<1>2. Within'
  BY DEF Evidence, Untold, Within
<1>3. Disposed'
  BY DEF Evidence, Untold, Disposed, Working, Unsaved
<1>4. Provisional'
  BY DEF Evidence, Untold, Provisional, TellsOpen
<1>5. Concluded'
  BY DEF Concluded, Working, Unsaved
<1> QED
  BY <1>1, <1>2, <1>3, <1>4, <1>5 DEF Evidence

(* Nothing moves but what no conjunct reads.                                *)
LEMMA Still_Evidence ==
    ASSUME Evidence, Untold, run'.pc = run.pc, run'.failed = run.failed,
           run'.warned = run.warned, run'.verdict = run.verdict
    PROVE  Evidence'
<1>1. StatusFollows' /\ Synced'
  BY DEF Evidence, Untold, StatusFollows, Synced
<1>2. Within'
  BY DEF Evidence, Untold, Within
<1>3. Disposed'
  BY DEF Evidence, Untold, Disposed
<1>4. Provisional' /\ Concluded'
  BY DEF Evidence, Untold, Provisional, Concluded, TellsOpen, Clean
<1> QED
  BY <1>1, <1>2, <1>3, <1>4 DEF Evidence

(* An exception before the final response leaves the last checkpoint.       *)
LEMMA Raise_Evidence ==
    ASSUME Evidence, Untold, run.pc \in Working \ {"idle"}, run'.pc = "finally",
           run'.verdict = "errored"
    PROVE  Evidence'
<1>1. StatusFollows' /\ Synced'
  BY DEF Evidence, Untold, StatusFollows, Synced, Working, Unsaved
<1>2. Within'
  BY DEF Evidence, Untold, Within
<1>3. Disposed'
  BY DEF Evidence, Untold, Disposed
<1>4. Provisional'
  BY DEF Provisional, Working, Unsaved
<1>5. Concluded'
  BY DEF Evidence, Untold, Provisional, Concluded, TellsOpen
<1> QED
  BY <1>1, <1>2, <1>3, <1>4, <1>5 DEF Evidence

(* A save that is not the final response, by a run that goes on or raises.  *)
LEMMA Checkpoint_Evidence ==
    ASSUME Evidence, NEW d, Save(d), d.response # "final", d.failed = {}, TellsOpen(d),
           d.passed \subseteq run.passed, d.warned \subseteq run.warned,
           branch'.status # "merged", raced' = raced, status' = status,
           run'.passed = run.passed, run'.warned = run.warned,
           run'.isolated = run.isolated, run.pc \in Working \ {"idle"},
           \/ run'.pc = "finally" /\ run'.verdict = "errored"
           \/ /\ run'.pc \in Working \ {"idle"}
              /\ run'.pc \in Unsaved => d.response = "none"
    PROVE  Evidence'
<1>0. mem' = d /\ db' = d
  BY DEF Save
<1>1. StatusFollows' /\ Synced'
  BY <1>0 DEF Evidence, StatusFollows, Synced, Working, Unsaved
<1>2. Within'
  BY <1>0 DEF Within
<1>3. Disposed'
  BY <1>0 DEF Disposed, Working, Unsaved
<1>4. Provisional'
  BY <1>0 DEF Provisional, TellsOpen, Working, Unsaved
<1>5. Concluded'
  BY <1>0 DEF Concluded, TellsOpen, Working, Unsaved
<1> QED
  BY <1>1, <1>2, <1>3, <1>4, <1>5 DEF Evidence

(* An isolation failure is appended to what the worker holds.               *)
LEMMA Refuse_Evidence ==
    ASSUME TypeOK, Inductive, Evidence, RefuseIsolation, raced' = raced, status' = status,
           run.pc \in (Working \ {"idle"}) \cup {"conflicts", "merge"},
           branch'.status = "merged" => branch.status = "merged" \/ run.pc = "merge"
    PROVE  Evidence'
<1>0. mem \in Data /\ run \in Run
  BY DEF TypeOK
<1> DEFINE d == [mem EXCEPT !.isolation = TRUE]
<1>1. /\ d.isolation /\ d.passed = mem.passed /\ d.warned = mem.warned
      /\ d.failed = mem.failed /\ d.disposition = mem.disposition
      /\ d.response = mem.response
  BY <1>0 DEF Data
<1>2. mem' = d /\ db' = d
  BY DEF RefuseIsolation, _record_branching_failure, Save
<1>3. Kept /\ run'.pc = "finally" /\ run'.verdict = "errored"
  BY <1>0, RaiseMoves DEF RefuseIsolation, Raise, Run
<1> HIDE DEF d
<1>4. StatusFollows' /\ Synced'
  BY <1>2, <1>3 DEF Evidence, StatusFollows, Synced, Working, Unsaved
<1>5. Within'
  BY <1>1, <1>2, <1>3 DEF Evidence, Within, Kept
<1>6. Disposed'
  BY <1>1, <1>2, <1>3 DEF Evidence, Disposed
<1>7. Provisional'
  BY <1>3 DEF Provisional, Working, Unsaved
<1>8. raced \/ TellsOpen(mem)
  BY DEF Evidence, Provisional, Concluded, Clean, TellsOpen
<1>9. Concluded'
  BY <1>1, <1>2, <1>3, <1>8 DEF Concluded, TellsOpen, Kept
<1> QED
  BY <1>4, <1>5, <1>6, <1>7, <1>9 DEF Evidence

(* The steps of a run at work that save nothing.                            *)
EndpointStep(e) ==
    \/ LocalEndpoint(e) \/ LocalEndpointFails(e)
    \/ EndpointStages(e) \/ EndpointSkipped(e) \/ EndpointFails(e)
RunStep ==
    \/ KeyVerified \/ KeyRetried \/ PreflightDeadline
    \/ _record_local_deadline_phases \/ _deadline_sse_stages \/ _run_all_stages_sync
    \/ _record_deadline_endpoints
    \/ \E e \in Endpoints : EndpointStep(e)

LEMMA Work_Evidence ==
    ASSUME TypeOK, Inductive, Evidence, RunStep
    PROVE  Evidence'
<1>0. run \in Run
  BY DEF TypeOK
<1> DEFINE Onward == /\ run.pc \in Working \ {"idle"} /\ run'.pc \in Working \ {"idle"}
                     /\ run'.pc \in Unsaved => run.pc \in Unsaved
<1>1. ASSUME KeyVerified PROVE Untold /\ Onward
  BY <1>0, <1>1 DEF KeyVerified, inventory, environment, Untold, Run,
         Working, Unsaved
<1>2. ASSUME KeyRetried PROVE Untold /\ Onward
  BY <1>0, <1>2 DEF KeyRetried, inventory, environment, Untold, Run,
         Working, Unsaved
<1>3. ASSUME PreflightDeadline PROVE Untold /\ Onward
  BY <1>0, <1>3 DEF PreflightDeadline, Preflighted, inventory, environment, Untold, Run,
         Working, Unsaved
<1>5. ASSUME _record_local_deadline_phases PROVE Untold /\ Onward
  BY <1>0, <1>5 DEF _record_local_deadline_phases, inventory, environment, Untold, Run,
         Working, Unsaved
<1>6. ASSUME _deadline_sse_stages PROVE Untold /\ Onward
  BY <1>0, <1>6 DEF _deadline_sse_stages, inventory, environment, Untold, Run,
         Working, Unsaved
<1>7. ASSUME _run_all_stages_sync PROVE Untold /\ Onward
  BY <1>0, <1>7 DEF _run_all_stages_sync, inventory, environment, Untold, Run,
         Working, Unsaved
<1>8. ASSUME _record_deadline_endpoints PROVE Untold /\ Onward
  BY <1>0, <1>8 DEF _record_deadline_endpoints, inventory, environment, Untold, Run,
         Working, Unsaved
<1>9. ASSUME NEW e \in Endpoints, LocalEndpoint(e) PROVE Untold /\ Onward
  BY <1>0, <1>9 DEF LocalEndpoint, Write, environment, Untold, Run,
         Working, Unsaved
<1>10. ASSUME NEW e \in Endpoints, LocalEndpointFails(e) PROVE Untold /\ Onward
  BY <1>0, <1>10 DEF LocalEndpointFails, Write, environment, Untold, Run,
         Working, Unsaved
<1>11. ASSUME NEW e \in Endpoints, EndpointStages(e) PROVE Untold /\ Onward
  BY <1>0, <1>11 DEF EndpointStages, Write, AfterScope, environment, Untold, Run,
         Working, Unsaved
<1>12. ASSUME NEW e \in Endpoints, EndpointSkipped(e) PROVE Untold /\ Onward
  BY <1>0, <1>12 DEF EndpointSkipped, AfterScope, inventory, environment, Untold, Run,
         Working, Unsaved
<1>13. ASSUME NEW e \in Endpoints, EndpointFails(e) PROVE Untold /\ Onward
  BY <1>0, <1>13 DEF EndpointFails, Write, AfterScope, environment, Untold, Run,
         Working, Unsaved
<1> HIDE DEF Onward
<1>14. Untold /\ Onward
  <2>1. ASSUME NEW e \in Endpoints, EndpointStep(e) PROVE Untold /\ Onward
    BY <2>1, <1>9, <1>10, <1>11, <1>12, <1>13 DEF EndpointStep
  <2> QED
    BY <2>1, <1>1, <1>2, <1>3, <1>5, <1>6, <1>7, <1>8 DEF RunStep
<1> QED
  BY <1>14, Progress_Evidence DEF Onward

(* The exceptions that save nothing.                                        *)
LEMMA Raises_Evidence ==
    ASSUME TypeOK, Inductive, Evidence,
           \/ KeyRefused \/ MissingBackend \/ _resolve_batch_endpoint_scope
           \/ \E e \in Endpoints : LocalEndpointRaises(e)
    PROVE  Evidence'
<1>0. run \in Run
  BY DEF TypeOK
<1>1. /\ mem' = mem /\ db' = db /\ raced' = raced /\ status' = status /\ branch' = branch
      /\ run.pc \in {"key", "preflight", "batch", "local"} /\ Raise
  BY DEF KeyRefused, MissingBackend, _resolve_batch_endpoint_scope, LocalEndpointRaises,
         Write, environment, inventory
<1>2. Kept /\ run'.pc = "finally" /\ run'.verdict = "errored"
  BY <1>0, <1>1, RaiseMoves DEF Raise, Run
<1>3. Untold
  BY <1>1, <1>2 DEF Untold, Kept
<1>4. run.pc \in Working \ {"idle"}
  BY <1>1 DEF Working, Unsaved
<1> QED
  BY <1>2, <1>3, <1>4, Raise_Evidence

LEMMA _execute_batch_sync_Evidence ==
    ASSUME TypeOK, Inductive, Evidence, _execute_batch_sync
    PROVE  Evidence'
<1>0. run \in Run
  BY DEF TypeOK
<1>1. /\ mem' = mem /\ db' = db /\ raced' = raced /\ status' = status /\ branch' = branch
      /\ run.pc = "batch"
      /\ \/ Raise
         \/ \E scope \in SUBSET Selected, result \in {"ok", "failed"} :
               run' = [run EXCEPT !.pc = "batched", !.batch = result, !.scopes = scope]
  BY DEF _execute_batch_sync, environment
<1>2. /\ run'.passed = run.passed /\ run'.warned = run.warned
      /\ run'.isolated = run.isolated
      /\ run'.pc = "batched" \/ (run'.pc = "finally" /\ run'.verdict = "errored")
  BY <1>0, <1>1 DEF Raise, Run
<1>3. Untold
  BY <1>1, <1>2 DEF Untold
<1>4. run.pc \in Working \ {"idle"} /\ run.pc \in Unsaved
  BY <1>1 DEF Working, Unsaved
<1>5. CASE run'.pc = "batched"
  BY <1>3, <1>4, <1>5, Progress_Evidence DEF Working, Unsaved
<1> QED
  BY <1>2, <1>3, <1>4, <1>5, Raise_Evidence

LEMMA _ensure_backend_endpoints_Evidence ==
    ASSUME TypeOK, Inductive, Evidence, _ensure_backend_endpoints
    PROVE  Evidence'
<1>0. run \in Run
  BY DEF TypeOK
<1>1. /\ mem' = mem /\ db' = db /\ raced' = raced /\ status' = status /\ branch' = branch
      /\ run.pc = "preflight" /\ (Preflighted \/ Raise)
  BY DEF _ensure_backend_endpoints, environment, inventory
<1>2. run.pc \in Working \ {"idle"} /\ run.pc \in Unsaved
  BY <1>1 DEF Working, Unsaved
<1>3. CASE Raise
  <2>1. Kept /\ run'.pc = "finally" /\ run'.verdict = "errored"
    BY <1>0, <1>3, RaiseMoves DEF Raise, Run
  <2>2. Untold
    BY <1>1, <2>1 DEF Untold, Kept
  <2> QED
    BY <1>2, <2>1, <2>2, Raise_Evidence
<1>4. CASE Preflighted
  <2>1. /\ run'.pc \in {"batch", "activate"} /\ run'.passed = run.passed
        /\ run'.warned = run.warned /\ run'.isolated = run.isolated
    BY <1>0, <1>4 DEF Preflighted, Run
  <2>2. Untold
    BY <1>1, <2>1 DEF Untold
  <2>3. run'.pc \in Working \ {"idle"}
    BY <2>1 DEF Working, Unsaved
  <2> QED
    BY <1>2, <2>2, <2>3, Progress_Evidence
<1> QED
  BY <1>1, <1>3, <1>4

(* The steps that go on or refuse for the branch.                           *)
LEMMA _resolve_branching_config_Evidence ==
    ASSUME TypeOK, Inductive, Evidence, _resolve_branching_config
    PROVE  Evidence'
<1>0. run \in Run
  BY DEF TypeOK
<1>1. /\ raced' = raced /\ status' = status /\ branch' = branch /\ run.pc = "config"
  BY DEF _resolve_branching_config, environment, inventory
<1>2. CASE RefuseIsolation
  BY <1>1, <1>2, Refuse_Evidence DEF Working, Unsaved
<1>3. CASE ~RefuseIsolation
  <2>1. /\ run'.pc = "create" /\ run'.passed = run.passed /\ run'.warned = run.warned
        /\ mem' = mem /\ db' = db
    BY <1>0, <1>3 DEF _resolve_branching_config, Run
  <2>2. mem.warned = {} /\ mem.failed = {}
    <3>1. run.warned = {}
      BY <1>1 DEF Inductive, OnPath, Early
    <3> QED
      BY <3>1, <1>1 DEF Evidence, Within, Provisional, Working, Unsaved
  <2>3. StatusFollows' /\ Synced' /\ Within' /\ Disposed'
    BY <1>1, <2>1 DEF Evidence, StatusFollows, Synced, Within, Disposed
  <2>4. Provisional' /\ Concluded'
    BY <1>1, <2>1, <2>2 DEF Evidence, Provisional, Concluded, TellsOpen, Working, Unsaved
  <2> QED
    BY <2>3, <2>4 DEF Evidence
<1> QED
  BY <1>2, <1>3

LEMMA _create_sync_branch_Evidence ==
    ASSUME TypeOK, Inductive, Evidence, _create_sync_branch
    PROVE  Evidence'
<1>0. run \in Run /\ branch \in Branch
  BY DEF TypeOK
<1>1. /\ raced' = raced /\ status' = status /\ run.pc = "create"
      /\ branch'.status # "merged"
  BY <1>0 DEF _create_sync_branch, environment, Branch, Inductive, NothingEarly
<1>2. CASE RefuseIsolation
  BY <1>1, <1>2, Refuse_Evidence DEF Working, Unsaved
<1>3. CASE ~RefuseIsolation
  <2>1. Kept /\ run'.pc = "initial" /\ mem' = mem /\ db' = db
    BY <1>0, <1>3, GotoMoves DEF _create_sync_branch
  <2>2. Untold
    BY <1>1, <2>1 DEF Untold, Kept
  <2> QED
    BY <1>1, <2>1, <2>2, Progress_Evidence DEF Working, Unsaved
<1> QED
  BY <1>2, <1>3

LEMMA Backfill_Evidence ==
    ASSUME TypeOK, Inductive, Evidence, BatchBackfill \/ StagedBackfill
    PROVE  Evidence'
<1>0. run \in Run
  BY DEF TypeOK
<1>1. /\ raced' = raced /\ status' = status /\ branch' = branch
      /\ run.pc \in {"batched", "backfill"}
  BY DEF BatchBackfill, StagedBackfill, Backfill, Write, environment, inventory
<1>2. CASE RefuseIsolation
  BY <1>1, <1>2, Refuse_Evidence DEF Working, Unsaved
<1>3. CASE ~RefuseIsolation
  <2>1. /\ mem' = mem /\ db' = db
        /\ \/ Raise
           \/ run.pc = "batched" /\ Goto("batch_persist")
           \/ run.pc = "backfill" /\ Goto("persist")
    BY <1>3 DEF BatchBackfill, StagedBackfill, Backfill
  <2>2. Kept
    BY <1>0, <2>1, GotoMoves, RaiseMoves
  <2>3. Untold
    BY <1>1, <2>1, <2>2 DEF Untold, Kept
  <2>4. CASE Raise
    <3>1. run'.pc = "finally" /\ run'.verdict = "errored"
      BY <1>0, <2>4 DEF Raise, Run
    <3> QED
      BY <1>1, <2>3, <3>1, Raise_Evidence DEF Working, Unsaved
  <2>5. CASE ~Raise
    <3>1. /\ run.pc = "batched" => run'.pc = "batch_persist"
          /\ run.pc = "backfill" => run'.pc = "persist"
      BY <1>0, <2>1, <2>5, GotoMoves
    <3> QED
      BY <1>1, <2>3, <3>1, Progress_Evidence DEF Working, Unsaved
  <2> QED
    BY <2>4, <2>5
<1> QED
  BY <1>2, <1>3

LEMMA activate_sync_branch_Evidence ==
    ASSUME TypeOK, Inductive, Evidence, activate_sync_branch
    PROVE  Evidence'
<1>0. run \in Run
  BY DEF TypeOK
<1>1. raced' = raced /\ status' = status /\ branch' = branch /\ run.pc = "activate"
  BY DEF activate_sync_branch, environment, inventory
<1>2. CASE RefuseIsolation
  BY <1>1, <1>2, Refuse_Evidence DEF Working, Unsaved
<1>3. CASE ~RefuseIsolation
  <2>1. /\ run'.passed = run.passed /\ run'.warned = run.warned
        /\ run'.isolated = run.isolated /\ run'.pc = "local" /\ mem' = mem /\ db' = db
    BY <1>0, <1>3 DEF activate_sync_branch, Goto, Run
  <2>2. Untold
    BY <1>1, <2>1 DEF Untold
  <2> QED
    BY <1>1, <2>1, <2>2, Progress_Evidence DEF Working, Unsaved
<1> QED
  BY <1>2, <1>3

(* The claim saves what enqueue() left, which is nothing.                   *)
LEMMA _claim_rq_sync_ownership_Evidence ==
    ASSUME TypeOK, Inductive, Evidence, _claim_rq_sync_ownership
    PROVE  Evidence'
<1>0. run \in Run /\ db = NoData
  BY DEF TypeOK, Evidence, Synced, _claim_rq_sync_ownership
<1>1. Kept /\ run'.pc = "config" /\ status' = "running" /\ raced' = raced
  BY <1>0, GotoMoves DEF _claim_rq_sync_ownership, environment
<1>2. mem' = db' /\ db' = [NoData EXCEPT !.owner = TRUE]
  BY <1>0 DEF _claim_rq_sync_ownership, Save
<1>3. /\ db'.passed = {} /\ db'.warned = {} /\ db'.failed = {}
      /\ db'.disposition = "none" /\ db'.response = "none"
  BY <1>2 DEF NoData
<1>4. StatusFollows' /\ Synced'
  BY <1>1, <1>2 DEF StatusFollows, Synced
<1>5. Within' /\ Disposed'
  BY <1>2, <1>3 DEF Within, Disposed
<1>6. Provisional' /\ Concluded'
  BY <1>1, <1>2, <1>3 DEF Provisional, Concluded, TellsOpen, Working, Unsaved
<1> QED
  BY <1>4, <1>5, <1>6 DEF Evidence

LEMMA StagedFields ==
    ASSUME NEW response, NEW ran, NEW failed, NEW disposition
    PROVE  LET d == StagedData(response, ran, failed, disposition)
           IN /\ d.response = response /\ d.failed = failed /\ d.disposition = disposition
              /\ d.passed = run.passed /\ d.warned = run.warned /\ d.batch = "none"
              /\ ~d.isolation
BY DEF StagedData, NoData

LEMMA _persist_initial_sync_data_Evidence ==
    ASSUME TypeOK, Inductive, Evidence, _persist_initial_sync_data
    PROVE  Evidence'
<1>0. run \in Run
  BY DEF TypeOK
<1>1. /\ Kept /\ run'.pc = "key" /\ status' = status /\ raced' = raced
      /\ run.pc = "initial" /\ branch' = branch
  BY <1>0, GotoMoves DEF _persist_initial_sync_data, environment, inventory
<1> DEFINE d == [NoData EXCEPT !.branch = run.isolated]
<1>2. d.response = "none" /\ d.failed = {} /\ d.passed = {} /\ d.warned = {}
  BY DEF NoData
<1>3. Save(d)
  BY DEF _persist_initial_sync_data
<1> HIDE DEF d
<1>4. branch'.status # "merged"
  BY <1>1 DEF Inductive, CompleteBeforeMerge
<1> QED
  BY <1>1, <1>2, <1>3, <1>4, Checkpoint_Evidence DEF Kept, TellsOpen, Working, Unsaved

LEMMA KeyDeadline_Evidence ==
    ASSUME TypeOK, Inductive, Evidence, KeyDeadline
    PROVE  Evidence'
<1>0. run \in Run
  BY DEF TypeOK
<1>1. /\ Kept /\ run'.pc = "finally" /\ run'.verdict = "errored" /\ status' = status
      /\ raced' = raced /\ run.pc = "key" /\ branch' = branch
  BY <1>0, RaiseMoves DEF KeyDeadline, Raise, Run, environment, inventory
<1> DEFINE d == StagedData("partial", {}, {}, "none")
<1>2. d.response = "partial" /\ d.failed = {} /\ d.passed = run.passed /\ d.warned = run.warned
  BY StagedFields
<1>3. Save(d)
  BY DEF KeyDeadline
<1> HIDE DEF d
<1>4. branch'.status # "merged" /\ run.warned = {}
  BY <1>1 DEF Inductive, CompleteBeforeMerge, OnPath, Early
<1> QED
  BY <1>1, <1>2, <1>3, <1>4, Checkpoint_Evidence DEF Kept, TellsOpen, Working, Unsaved

LEMMA _extend_and_checkpoint_local_phases_Evidence ==
    ASSUME TypeOK, Inductive, Evidence, _extend_and_checkpoint_local_phases
    PROVE  Evidence'
<1>0. run \in Run
  BY DEF TypeOK
<1>1. /\ run'.passed = run.passed /\ run'.warned = run.warned /\ run'.isolated = run.isolated
      /\ run'.pc \in {"activate", "sse"} /\ status' = status
      /\ raced' = raced /\ run.pc = "local" /\ branch' = branch
  BY <1>0 DEF _extend_and_checkpoint_local_phases, Goto, Run, environment, inventory
<1> DEFINE d == StagedData("partial", {}, {}, _local_failure_disposition(run.warned))
<1>2. /\ d.response = "partial" /\ d.failed = {} /\ d.passed = run.passed
      /\ d.warned = run.warned /\ d.disposition = _local_failure_disposition(run.warned)
  BY StagedFields
<1>3. Save(d)
  BY DEF _extend_and_checkpoint_local_phases
<1> HIDE DEF d
<1>4. branch'.status # "merged"
  BY <1>1 DEF Inductive, CompleteBeforeMerge
<1>5. TellsOpen(d)
  BY <1>2 DEF TellsOpen, _local_failure_disposition
<1> QED
  BY <1>1, <1>2, <1>3, <1>4, <1>5, Checkpoint_Evidence DEF Working, Unsaved

LEMMA StagesRaise_Evidence ==
    ASSUME TypeOK, Inductive, Evidence, StagesRaise
    PROVE  Evidence'
<1>0. run \in Run
  BY DEF TypeOK
<1>1. /\ Kept /\ run'.pc = "finally" /\ run'.verdict = "errored" /\ status' = status
      /\ raced' = raced /\ run.pc \in {"sse", "stage"} /\ branch' = branch
  BY <1>0, RaiseMoves DEF StagesRaise, Raise, Run, Write, environment
<1> DEFINE d == StagedData("partial", {}, {}, _sse_failure_disposition(run.warned))
<1>2. /\ d.response = "partial" /\ d.failed = {} /\ d.passed = run.passed
      /\ d.warned = run.warned /\ d.disposition = _sse_failure_disposition(run.warned)
  BY StagedFields
<1>3. Save(d)
  BY DEF StagesRaise
<1> HIDE DEF d
<1>4. branch'.status # "merged"
  BY <1>1 DEF Inductive, CompleteBeforeMerge
<1>5. TellsOpen(d)
  BY <1>2 DEF TellsOpen, _sse_failure_disposition, _local_failure_disposition
<1> QED
  BY <1>1, <1>2, <1>3, <1>4, <1>5, Checkpoint_Evidence DEF Kept, Working, Unsaved

(* The final response of a batch, and of the stages.                        *)
LEMMA _persist_batch_result_Evidence ==
    ASSUME TypeOK, Inductive, Evidence, _persist_batch_result
    PROVE  Evidence'
<1>0. run \in Run
  BY DEF TypeOK
<1>1. /\ Kept /\ status' = status /\ raced' = raced /\ run.pc = "batch_persist"
      /\ \/ run'.pc = "conflicts" /\ run.batch # "failed"
         \/ run'.pc = "finally" /\ run'.verdict = "errored" /\ run.batch = "failed"
  BY <1>0, GotoMoves, RaiseMoves DEF _persist_batch_result, Raise, Run, environment
<1> DEFINE d == [NoData EXCEPT !.branch = run.isolated, !.batch = run.batch,
                               !.response = "final"]
<1>2. /\ d.response = "final" /\ d.failed = {} /\ d.passed = {} /\ d.warned = {}
      /\ d.disposition = "none" /\ d.batch = run.batch /\ ~d.isolation
  BY DEF NoData
<1>3. mem' = d /\ db' = d
  BY DEF _persist_batch_result, Save
<1> HIDE DEF d
<1>4. StatusFollows' /\ Synced'
  BY <1>1, <1>3 DEF Evidence, StatusFollows, Synced
<1>5. Within' /\ Disposed'
  BY <1>2, <1>3 DEF Within, Disposed
<1>6. Provisional' /\ Concluded'
  BY <1>1, <1>2, <1>3 DEF Provisional, Concluded, Clean, TellsOpen, Working, Unsaved
<1> QED
  BY <1>4, <1>5, <1>6 DEF Evidence

LEMMA _persist_staged_result_Evidence ==
    ASSUME TypeOK, Inductive, Evidence, _persist_staged_result
    PROVE  Evidence'
<1>0. run \in Run
  BY DEF TypeOK
<1>1. /\ Kept /\ status' = status /\ raced' = raced /\ run.pc = "persist"
      /\ run'.pc = "classify" /\ branch' = branch
  BY <1>0, GotoMoves DEF _persist_staged_result, environment, inventory
<1> DEFINE how == IF run.failed # {} THEN _sse_failure_disposition(run.warned)
                                     ELSE _local_failure_disposition(run.warned)
           d == StagedData("final", run.ran, run.failed, how)
<1>2. /\ d.response = "final" /\ d.failed = run.failed /\ d.passed = run.passed
      /\ d.warned = run.warned /\ d.disposition = how /\ d.batch = "none" /\ ~d.isolation
  BY StagedFields
<1>3. mem' = d /\ db' = d
  BY DEF _persist_staged_result, Save
<1>4. /\ run.isolated /\ (run.failed # {} \/ run.warned # {}) => how \in {"local", "sse"}
      /\ run.failed = {} /\ run.warned = {} => how = "none"
  BY DEF _sse_failure_disposition, _local_failure_disposition
<1>5. branch'.status # "merged"
  BY <1>1 DEF Inductive, CompleteBeforeMerge
<1> HIDE DEF how, d
<1>6. StatusFollows' /\ Synced'
  BY <1>1, <1>3 DEF Evidence, StatusFollows, Synced
<1>7. Within' /\ Disposed'
  BY <1>1, <1>2, <1>3, <1>4, <1>5 DEF Within, Disposed, Kept
<1>8. Provisional' /\ Concluded'
  BY <1>1, <1>2, <1>3, <1>4 DEF Provisional, Concluded, TellsOpen, Working, Unsaved, Kept
<1> QED
  BY <1>6, <1>7, <1>8 DEF Evidence

LEMMA Classify_Evidence ==
    ASSUME TypeOK, Inductive, Evidence, Classify
    PROVE  Evidence'
<1>0. run \in Run
  BY DEF TypeOK
<1>1. /\ Kept /\ status' = status /\ raced' = raced /\ run.pc = "classify"
      /\ mem' = db /\ db' = db /\ branch' = branch
      /\ \/ run'.pc = "conflicts" /\ run.failed = {} /\ run.warned = {}
         \/ /\ run'.pc = "finally" /\ run'.verdict = "errored"
            /\ run.failed # {} \/ run.warned # {}
  BY <1>0, GotoMoves, RaiseMoves
     DEF Classify, MustRaise, Raise, Run, environment, inventory
<1>2. StatusFollows' /\ Synced'
  BY <1>1 DEF Evidence, StatusFollows, Synced
<1>3. Within' /\ Disposed'
  BY <1>1 DEF Evidence, Within, Disposed, Kept
<1>4. Provisional'
  BY <1>1 DEF Provisional, Working, Unsaved
<1>5. Concluded'
  BY <1>1 DEF Evidence, Synced, Concluded, Clean, TellsOpen, Kept
<1> QED
  BY <1>2, <1>3, <1>4, <1>5 DEF Evidence

LEMMA branch_has_conflicts_Evidence ==
    ASSUME TypeOK, Inductive, Evidence, branch_has_conflicts
    PROVE  Evidence'
<1>0. run \in Run
  BY DEF TypeOK
<1>1. /\ status' = status /\ raced' = raced /\ run.pc = "conflicts" /\ branch' = branch
  BY DEF branch_has_conflicts, environment, inventory
<1>2. CASE RefuseIsolation
  BY <1>1, <1>2, Refuse_Evidence
<1>3. CASE ~RefuseIsolation
  <2>1. /\ Kept /\ mem' = mem /\ db' = db
        /\ \/ run'.pc = "merge"
           \/ run'.pc = "finally" /\ run'.verdict = "completed"
    BY <1>0, <1>3, GotoMoves, RaiseMoves DEF branch_has_conflicts, Complete, Run
  <2>2. StatusFollows' /\ Synced'
    BY <1>1, <2>1 DEF Evidence, StatusFollows, Synced
  <2>3. Within' /\ Disposed'
    BY <1>1, <2>1 DEF Evidence, Within, Disposed, Kept
  <2>4. Provisional' /\ Concluded'
    BY <1>1, <2>1 DEF Evidence, Provisional, Concluded, Clean, Working, Unsaved
  <2> QED
    BY <2>2, <2>3, <2>4 DEF Evidence
<1> QED
  BY <1>2, <1>3

LEMMA MergeSucceeds_Evidence ==
    ASSUME TypeOK, Inductive, Evidence, MergeSucceeds
    PROVE  Evidence'
<1>0. run \in Run /\ mem \in Data
  BY DEF TypeOK
<1>1. /\ Kept /\ run'.pc = "finally" /\ run'.verdict = "completed"
      /\ status' = status /\ raced' = raced /\ run.pc = "merge"
  BY <1>0, RaiseMoves DEF MergeSucceeds, Complete, Run, environment
<1>2. CASE mem' = mem /\ db' = db
  <2>1. StatusFollows' /\ Synced'
    BY <1>1, <1>2 DEF Evidence, StatusFollows, Synced
  <2>2. Within' /\ Disposed'
    BY <1>1, <1>2 DEF Evidence, Within, Disposed, Kept
  <2>3. Provisional' /\ Concluded'
    BY <1>1, <1>2 DEF Evidence, Provisional, Concluded, Clean, Working, Unsaved
  <2> QED
    BY <2>1, <2>2, <2>3 DEF Evidence
<1>3. CASE ~(mem' = mem /\ db' = db)
  <2> DEFINE d == [mem EXCEPT !.disposition = "no_changes"]
  <2>1. mem' = d /\ db' = d /\ branch' = branch /\ branch.status = "ready"
    BY <1>3 DEF MergeSucceeds, Save
  <2>2. /\ d.passed = mem.passed /\ d.warned = mem.warned /\ d.failed = mem.failed
        /\ d.response = mem.response /\ d.isolation = mem.isolation /\ d.batch = mem.batch
    BY <1>0 DEF Data
  <2> HIDE DEF d
  <2>3. StatusFollows' /\ Synced'
    BY <1>1, <2>1 DEF Evidence, StatusFollows, Synced
  <2>4. Within' /\ Disposed'
    BY <1>1, <2>1, <2>2 DEF Evidence, Within, Disposed, Kept
  <2>5. Provisional' /\ Concluded'
    BY <1>1, <2>1, <2>2 DEF Evidence, Provisional, Concluded, Clean, Working, Unsaved
  <2> QED
    BY <2>3, <2>4, <2>5 DEF Evidence
<1> QED
  BY <1>2, <1>3

LEMMA Finish_Evidence ==
    ASSUME TypeOK, Inductive, Evidence, Finish
    PROVE  Evidence'
<1>0. run \in Run /\ mem \in Data
  BY DEF TypeOK
<1>1. /\ Kept /\ run'.pc = "done" /\ run'.verdict = run.verdict /\ branch' = branch
      /\ status' = run.verdict /\ raced' = raced /\ run.pc = "finally"
  BY <1>0, GotoMoves DEF Finish, Goto, Run, environment, inventory
<1> DEFINE d == [mem EXCEPT !.owner = FALSE]
<1>2. mem' = d /\ db' = d
  BY DEF Finish, Save
<1>3. /\ d.passed = mem.passed /\ d.warned = mem.warned /\ d.failed = mem.failed
      /\ d.response = mem.response /\ d.isolation = mem.isolation /\ d.batch = mem.batch
      /\ d.disposition = mem.disposition
  BY <1>0 DEF Data
<1> HIDE DEF d
<1>4. StatusFollows' /\ Synced'
  BY <1>1, <1>2 DEF StatusFollows, Synced
<1>5. Within' /\ Disposed'
  BY <1>1, <1>2, <1>3 DEF Evidence, Within, Disposed, Kept
<1>6. Provisional' /\ Concluded'
  BY <1>1, <1>2, <1>3 DEF Evidence, Provisional, Concluded, Clean, TellsOpen, Kept, Working,
         Unsaved
<1> QED
  BY <1>4, <1>5, <1>6 DEF Evidence

(* enqueue()'s own save clears the column; the run that was already under   *)
(* way is marked.                                                           *)
LEMMA _persist_enqueued_sync_params_Evidence ==
    ASSUME TypeOK, Inductive, Evidence, _persist_enqueued_sync_params
    PROVE  Evidence'
<1>1. /\ run' = run /\ mem' = mem /\ db' = NoData /\ status' = status /\ branch' = branch
      /\ raced' = (run.pc # "idle")
  BY DEF _persist_enqueued_sync_params, inventory
<1>2. db'.passed = {} /\ db'.warned = {} /\ db'.disposition = "none" /\ db'.response = "none"
  BY <1>1 DEF NoData
<1>3. StatusFollows' /\ Synced'
  BY <1>1 DEF Evidence, StatusFollows, Synced
<1>4. Within' /\ Disposed'
  BY <1>1, <1>2 DEF Evidence, Within, Disposed
<1>5. Provisional' /\ Concluded'
  BY <1>1, <1>2 DEF Evidence, Provisional, Concluded, TellsOpen
<1> QED
  BY <1>3, <1>4, <1>5 DEF Evidence

LEMMA WorkerKilled_Evidence ==
    ASSUME TypeOK, Inductive, Evidence, WorkerKilled
    PROVE  Evidence'
<1>0. run \in Run
  BY DEF TypeOK
<1>1. /\ Kept /\ run'.pc = "dead" /\ run.pc \notin {"idle", "done", "dead"}
      /\ mem' = mem /\ db' = db /\ status' = status /\ raced' = raced /\ branch' = branch
  BY <1>0 DEF WorkerKilled, Run, Kept, inventory
<1>2. StatusFollows' /\ Synced' /\ Within' /\ Disposed'
  BY <1>1 DEF Evidence, StatusFollows, Synced, Within, Disposed, Kept
<1>3. Provisional' /\ Concluded'
  BY <1>1 DEF Provisional, Concluded, Working, Unsaved
<1> QED
  BY <1>2, <1>3 DEF Evidence

LEMMA Outside_Evidence ==
    ASSUME TypeOK, Inductive, Evidence,
           \/ enqueue \/ SaveSettings \/ (\E e \in Endpoints : ToggleEndpoint(e))
           \/ BranchTaken \/ ConflictAppears \/ Deadline \/ UNCHANGED vars
    PROVE  Evidence'
<1>0. branch \in Branch
  BY DEF TypeOK
<1>1. run' = run /\ mem' = mem /\ db' = db /\ status' = status /\ raced' = raced
  BY DEF enqueue, SaveSettings, ToggleEndpoint, BranchTaken, ConflictAppears, Deadline, vars
<1>2. branch'.status = "merged" => branch.status = "merged"
  BY <1>0 DEF enqueue, SaveSettings, ToggleEndpoint, BranchTaken, ConflictAppears, Deadline,
         inventory, vars, Branch
<1> QED
  BY <1>1, <1>2, Still_Evidence DEF Untold

(* What the row says is inductive together with what the run has done.      *)
THEOREM EvidenceHolds == Spec => []Evidence
<1>1. Init => Evidence
  <2> SUFFICES ASSUME Init PROVE Evidence
    OBVIOUS
  <2>0. run.pc = "idle" /\ mem = NoData /\ db = NoData /\ status = "pending"
    BY DEF Init, Idle
  <2>1. StatusFollows /\ Synced /\ Within /\ Disposed
    BY <2>0 DEF StatusFollows, Synced, Within, Disposed, NoData
  <2>2. Provisional /\ Concluded
    BY <2>0 DEF Provisional, Concluded, TellsOpen, NoData
  <2> QED
    BY <2>1, <2>2 DEF Evidence
<1>2. TypeOK /\ Inductive /\ Evidence /\ [Next]_vars => Evidence'
  <2> SUFFICES ASSUME TypeOK, Inductive, Evidence, [Next]_vars PROVE Evidence'
    OBVIOUS
  <2>1. CASE Begin
    BY <2>1, _claim_rq_sync_ownership_Evidence, _resolve_branching_config_Evidence,
       _create_sync_branch_Evidence, _persist_initial_sync_data_Evidence DEF Begin
  <2>2. CASE _require_backend_key
    BY <2>2, Work_Evidence, Raises_Evidence, KeyDeadline_Evidence
       DEF _require_backend_key, RunStep
  <2>3. CASE Bootstrap
    BY <2>3, _ensure_backend_endpoints_Evidence, Raises_Evidence, Work_Evidence
       DEF Bootstrap, RunStep
  <2>4. CASE Batch
    BY <2>4, Raises_Evidence, _execute_batch_sync_Evidence, Backfill_Evidence,
       _persist_batch_result_Evidence DEF Batch
  <2>5. CASE Local
    BY <2>5, activate_sync_branch_Evidence, Work_Evidence, Raises_Evidence,
       _extend_and_checkpoint_local_phases_Evidence DEF Local, RunStep, EndpointStep
  <2>6. CASE Stages
    BY <2>6, Work_Evidence, StagesRaise_Evidence DEF Stages, RunStep, EndpointStep
  <2>7. CASE Conclude
    <3>1. CASE MergeFails
      <4>1. /\ RefuseIsolation /\ raced' = raced /\ status' = status /\ run.pc = "merge"
        BY <3>1 DEF MergeFails, environment
      <4> QED
        BY <4>1, Refuse_Evidence
    <3> QED
      BY <2>7, <3>1, Backfill_Evidence, _persist_staged_result_Evidence, Classify_Evidence,
         branch_has_conflicts_Evidence, MergeSucceeds_Evidence, Finish_Evidence DEF Conclude
  <2>8. CASE Web
    BY <2>8, Outside_Evidence, _persist_enqueued_sync_params_Evidence DEF Web
  <2>9. CASE Outside
    BY <2>9, Outside_Evidence, WorkerKilled_Evidence DEF Outside
  <2>10. CASE UNCHANGED vars
    BY <2>10, Outside_Evidence
  <2> QED
    BY <2>1, <2>2, <2>3, <2>4, <2>5, <2>6, <2>7, <2>8, <2>9, <2>10 DEF Next, Worker
<1> QED
  BY <1>1, <1>2, TypeCorrect, InductiveHolds, PTL DEF Spec

(* The terminal status of the row and the response saved on it agree,       *)
(* whichever handler ended the run, as long as enqueue() did not save late. *)
THEOREM VerdictHolds == Spec => []VerdictMatchesEvidence
<1>1. TypeOK /\ Evidence => VerdictMatchesEvidence
  <2> SUFFICES ASSUME TypeOK, Evidence, ~raced, status \in {"completed", "errored"}
               PROVE  /\ status = "completed" => Clean(db)
                      /\ status = "errored" /\ db.response = "final" =>
                            \/ db.isolation \/ db.failed # {} \/ db.warned # {}
                            \/ db.batch = "failed"
    BY DEF VerdictMatchesEvidence, Clean
  <2>1. run.pc = "done" /\ status = run.verdict /\ mem = db
    BY DEF Evidence, StatusFollows, Synced
  <2> QED
    BY <2>1 DEF Evidence, Concluded
<1> QED
  BY <1>1, TypeCorrect, EvidenceHolds, PTL

(* A failed isolated run says that its branch was left open, and no row     *)
(* says so of a branch that was merged, even after a late save.             *)
THEOREM LeftOpenHolds == Spec => []LeftOpenIsRecorded
<1>1. TypeOK /\ Evidence => LeftOpenIsRecorded
  <2> SUFFICES ASSUME TypeOK, Evidence PROVE LeftOpenIsRecorded
    OBVIOUS
  <2>1. db.disposition # "none" => branch.status # "merged"
    BY DEF Evidence, Disposed
  <2>2. ASSUME status = "errored", ~raced, run.isolated, db.failed # {} \/ db.warned # {}
        PROVE  db.disposition \in {"local", "sse"}
    <3>1. run.pc = "done" /\ run.verdict = "errored" /\ mem = db
      BY <2>2 DEF Evidence, StatusFollows, Synced
    <3> QED
      BY <2>2, <3>1 DEF Evidence, Concluded, TellsOpen
  <2> QED
    BY <2>1, <2>2 DEF LeftOpenIsRecorded
<1> QED
  BY <1>1, TypeCorrect, EvidenceHolds, PTL

(* One step of EvidenceGrows.                                               *)
Keeps ==
    ~raced' /\ db.response # "none" =>
        db.passed \subseteq db'.passed /\ db.warned \subseteq db'.warned

(* Every save carries on the evidence the column already holds: it is made  *)
(* from the run's results, from the worker's copy, or before there is any.  *)
LEMMA SavesKeep ==
    ASSUME TypeOK, Inductive, Evidence, Next
    PROVE  Keeps
<1>0. run \in Run /\ mem \in Data /\ db \in Data
  BY DEF TypeOK
<1>1. CASE db' = db
  BY <1>1 DEF Keeps
<1>2. CASE RefuseIsolation /\ raced' = raced
  <2>1. db'.passed = mem.passed /\ db'.warned = mem.warned
    BY <1>0, <1>2 DEF RefuseIsolation, _record_branching_failure, Save, Data
  <2> QED
    BY <1>2, <2>1 DEF Keeps, Evidence, Synced
<1>3. ASSUME NEW response, NEW ran, NEW failed, NEW disposition,
             Save(StagedData(response, ran, failed, disposition))
      PROVE  Keeps
  <2>1. db'.passed = run.passed /\ db'.warned = run.warned
    BY <1>3, StagedFields DEF Save
  <2> QED
    BY <2>1 DEF Keeps, Evidence, Within
<1>4. CASE run.pc \in {"idle", "initial", "batch_persist"}
  BY <1>4 DEF Keeps, Evidence, Provisional, Unsaved
<1>5. CASE Finish
  <2>1. db'.passed = mem.passed /\ db'.warned = mem.warned /\ raced' = raced
    BY <1>0, <1>5 DEF Finish, Save, Data, environment
  <2> QED
    BY <2>1 DEF Keeps, Evidence, Synced
<1>6. CASE MergeSucceeds
  <2>1. raced' = raced
    BY <1>6 DEF MergeSucceeds, environment
  <2>2. CASE Save([mem EXCEPT !.disposition = "no_changes"])
    <3>1. db'.passed = mem.passed /\ db'.warned = mem.warned
      BY <1>0, <2>2 DEF Save, Data
    <3> QED
      BY <2>1, <3>1 DEF Keeps, Evidence, Synced
  <2> QED
    BY <1>1, <1>6, <2>2 DEF MergeSucceeds
<1>7. CASE _persist_enqueued_sync_params
  BY <1>4, <1>7 DEF _persist_enqueued_sync_params, Keeps
<1>8. CASE Begin
  BY <1>1, <1>2, <1>4, <1>8 DEF Begin, _claim_rq_sync_ownership, _resolve_branching_config,
     _create_sync_branch, _persist_initial_sync_data, environment
<1>9. CASE _require_backend_key \/ Bootstrap
  BY <1>1, <1>3, <1>9 DEF _require_backend_key, Bootstrap, KeyVerified, KeyRetried,
     KeyRefused, KeyDeadline, _ensure_backend_endpoints, MissingBackend, PreflightDeadline
<1>10. CASE Batch
  BY <1>1, <1>2, <1>4, <1>10 DEF Batch, _resolve_batch_endpoint_scope, _execute_batch_sync,
     BatchBackfill, Backfill, _persist_batch_result, environment
<1>11. CASE Local
  <2>1. CASE activate_sync_branch
    BY <1>1, <1>2, <2>1 DEF activate_sync_branch, environment
  <2>2. CASE _extend_and_checkpoint_local_phases
    BY <1>3, <2>2 DEF _extend_and_checkpoint_local_phases
  <2>3. CASE _record_local_deadline_phases
    BY <1>1, <2>3 DEF _record_local_deadline_phases
  <2>4. ASSUME NEW e \in Endpoints,
               LocalEndpoint(e) \/ LocalEndpointFails(e) \/ LocalEndpointRaises(e)
        PROVE  Keeps
    BY <1>1, <2>4 DEF LocalEndpoint, LocalEndpointFails, LocalEndpointRaises
  <2> QED
    BY <1>11, <2>1, <2>2, <2>3, <2>4 DEF Local
<1>12. CASE Stages
  <2>1. CASE StagesRaise
    BY <1>3, <2>1 DEF StagesRaise
  <2>2. CASE _deadline_sse_stages \/ _run_all_stages_sync \/ _record_deadline_endpoints
    BY <1>1, <2>2 DEF _deadline_sse_stages, _run_all_stages_sync, _record_deadline_endpoints
  <2>3. ASSUME NEW e \in Endpoints,
               EndpointStages(e) \/ EndpointSkipped(e) \/ EndpointFails(e)
        PROVE  Keeps
    BY <1>1, <2>3 DEF EndpointStages, EndpointSkipped, EndpointFails
  <2> QED
    BY <1>12, <2>1, <2>2, <2>3 DEF Stages
<1>13. CASE Conclude
  <2>1. CASE StagedBackfill \/ Classify \/ branch_has_conflicts \/ MergeFails
    BY <1>1, <1>2, <2>1 DEF StagedBackfill, Backfill, Classify, branch_has_conflicts,
       MergeFails, environment
  <2>2. CASE _persist_staged_result
    BY <1>3, <2>2 DEF _persist_staged_result
  <2> QED
    BY <1>13, <2>1, <2>2, <1>5, <1>6 DEF Conclude
<1>14. CASE enqueue \/ Outside
  BY <1>1, <1>14 DEF enqueue, Outside, SaveSettings, ToggleEndpoint, BranchTaken,
     ConflictAppears, Deadline, WorkerKilled
<1> QED
  BY <1>7, <1>8, <1>9, <1>10, <1>11, <1>12, <1>13, <1>14 DEF Next, Worker, Web

(* Checkpointed local-phase evidence survives every later save of the run.  *)
THEOREM EvidenceKept == Spec => EvidenceGrows
<1>1. TypeOK /\ Inductive /\ Evidence /\ [Next]_vars =>
        [~raced' /\ db.response # "none" =>
           db.passed \subseteq db'.passed /\ db.warned \subseteq db'.warned]_vars
  BY SavesKeep DEF Keeps
<1> QED
  BY <1>1, TypeCorrect, InductiveHolds, EvidenceHolds, PTL DEF Spec, EvidenceGrows

-----------------------------------------------------------------------------
(* The run as an isolated publication.  Busy are the steps at which the run *)
(* has decided where it works and has not ended, Unfailed those before its  *)
(* first endpoint scope.                                                    *)
Ended == {"finally", "done", "dead"}
Busy == Pc \ ({"idle", "config"} \cup Ended)
Unfailed == Early \cup {"activate", "local", "sse"}

(* The list of failed scopes starts empty: the deadline record, which       *)
(* replaces it, has no failure to lose.                                     *)
FailuresStartEmpty == run.pc \in Unfailed => run.failed = {}

Taken == branch.status = "taken"
Abstract == <<Mode, main, inBranch, Spoiled, Taken>>
Publishes == Publication!Next \/ UNCHANGED Abstract

(* A step of a busy run that forgets no failure and merges no branch.       *)
MovesOn ==
    /\ run.pc \in Busy /\ run'.pc \in Busy \cup Ended
    /\ run'.isolated = run.isolated
    /\ branch'.status = "merged" => branch.status = "merged"
    /\ Taken' = Taken
    /\ Spoiled => Spoiled'
    /\ run'.pc \in Unfailed => run.pc \in Unfailed /\ run'.failed = run.failed

LEMMA BusyMode ==
    ASSUME Inductive, run.pc \in Busy
    PROVE  /\ branch.status # "merged"
           /\ run.isolated => Mode = "private"
           /\ ~run.isolated => Mode = "direct"
<1>1. branch.status # "merged"
  BY DEF Inductive, CompleteBeforeMerge, Busy, Ended
<1> QED
  BY <1>1 DEF Mode, Busy, Ended

(* Where the rows and the tenant of a piece of work go.                     *)
Lands(rows, tenant) ==
    /\ main' = main \cup tenant \cup (IF run.isolated THEN {} ELSE rows)
    /\ inBranch' = inBranch \cup (IF run.isolated THEN rows ELSE {})

LEMMA WorkIsWork ==
    ASSUME Inductive, MovesOn, NEW rows \in SUBSET Endpoints, NEW tenant \in SUBSET {Tenant},
           Lands(rows, tenant)
    PROVE  Publishes
<1>1. branch'.status # "merged"
  BY BusyMode DEF MovesOn
<1>2. Mode' = Mode \/ Mode' = "closed"
  BY <1>1, BusyMode DEF MovesOn, Mode, Busy, Ended
<1>3. Mode \in {"direct", "private"}
  BY BusyMode DEF MovesOn
<1>4. main' = main \cup tenant \cup (IF Mode = "direct" THEN rows ELSE {})
  BY BusyMode DEF MovesOn, Lands
<1>5. inBranch' = inBranch \cup (IF Mode = "private" THEN rows ELSE {})
  BY BusyMode DEF MovesOn, Lands
<1>6. Publication!Work(rows, tenant)
  BY <1>2, <1>3, <1>4, <1>5 DEF Publication!Work, MovesOn, Taken
<1> QED
  BY <1>6 DEF Publishes, Publication!Next

LEMMA QuietIsWork ==
    ASSUME Inductive, MovesOn, main' = main, inBranch' = inBranch
    PROVE  Publishes
<1>1. Lands({}, {})
  BY DEF Lands
<1>2. {} \in SUBSET Endpoints /\ {} \in SUBSET {Tenant}
  OBVIOUS
<1> QED
  BY <1>1, <1>2, WorkIsWork

LEMMA WriteIsWork ==
    ASSUME Inductive, MovesOn, NEW rows \in SUBSET Endpoints, Write(rows)
    PROVE  Publishes
<1>1. Lands(rows, {})
  BY DEF Lands, Write
<1>2. {} \in SUBSET {Tenant}
  OBVIOUS
<1> QED
  BY <1>1, <1>2, WorkIsWork

(* The steps that only move the run, and those that end it.                 *)
LEMMA KeptMovesOn ==
    ASSUME Kept, run.pc \in Busy, run'.pc \in Busy \cup Ended,
           branch'.status = "merged" => branch.status = "merged", Taken' = Taken,
           run'.pc \in Unfailed => run.pc \in Unfailed
    PROVE  MovesOn
BY DEF Kept, MovesOn, Spoiled

(* The step of the run that settles isolation, or refuses it.               *)
LEMMA DecisionIsDecide ==
    ASSUME TypeOK, Inductive, _claim_rq_sync_ownership \/ _resolve_branching_config
    PROVE  Publishes /\ (FailuresStartEmpty => FailuresStartEmpty')
<1>0. run \in Run
  BY DEF TypeOK
<1>1. branch.status = "none" /\ branch' = branch /\ main' = main /\ inBranch' = inBranch
  BY DEF _claim_rq_sync_ownership, _resolve_branching_config, inventory, Inductive, NothingEarly
<1>2. /\ run.pc \in {"idle", "config"} /\ run'.pc \in {"config", "finally", "create"}
      /\ run'.failed = run.failed /\ run'.warned = run.warned /\ run'.batch = run.batch
  BY <1>0 DEF _claim_rq_sync_ownership, _resolve_branching_config, Goto, RefuseIsolation,
     Raise, Run
<1>3. Spoiled' = Spoiled
  BY <1>2 DEF Spoiled
<1>4. Mode = "undecided" /\ Mode' \in {"undecided", "closed", "private", "direct"}
  BY <1>1, <1>2 DEF Mode
<1>5. FailuresStartEmpty => FailuresStartEmpty'
  BY <1>2 DEF FailuresStartEmpty, Unfailed, Early
<1>6. CASE Mode' = "undecided"
  BY <1>1, <1>3, <1>4, <1>5, <1>6 DEF Publishes, Abstract, Taken
<1>7. CASE Mode' # "undecided"
  <2>1. Publication!Decide
    BY <1>1, <1>3, <1>4, <1>7 DEF Publication!Decide
  <2> QED
    BY <1>5, <2>1 DEF Publishes, Publication!Next
<1> QED
  BY <1>6, <1>7

(* Any other step that leaves both inventories alone.                       *)
LEMMA BeginMovesOn ==
    ASSUME TypeOK, Inductive, _create_sync_branch \/ _persist_initial_sync_data
    PROVE  MovesOn /\ main' = main /\ inBranch' = inBranch
<1>0. run \in Run /\ branch \in Branch
  BY DEF TypeOK
<1>1. Kept /\ run.pc \in {"create", "initial"} /\ run'.pc \in {"initial", "key", "finally"}
  BY <1>0, GotoMoves, RaiseMoves DEF _create_sync_branch, _persist_initial_sync_data,
     RefuseIsolation
<1>2. /\ main' = main /\ inBranch' = inBranch
      /\ branch'.status = "merged" => branch.status = "merged"
      /\ Taken' = Taken
  BY <1>0 DEF _create_sync_branch, _persist_initial_sync_data, inventory, Branch, Taken,
     Inductive, NothingEarly
<1> QED
  BY <1>1, <1>2, KeptMovesOn DEF Taken, Busy, Ended, Pc, Unfailed, Early

LEMMA KeyMovesOn ==
    ASSUME TypeOK, _require_backend_key \/ Bootstrap
    PROVE  MovesOn /\ main' = main /\ inBranch' = inBranch
<1>0. run \in Run
  BY DEF TypeOK
<1>1. branch' = branch /\ main' = main /\ inBranch' = inBranch
  BY DEF _require_backend_key, KeyVerified, KeyRetried, KeyRefused, KeyDeadline, Bootstrap,
     _ensure_backend_endpoints, MissingBackend, PreflightDeadline, inventory
<1>2. /\ run.pc \in {"key", "preflight"}
      /\ run'.pc \in {"key", "preflight", "batch", "activate", "finally"}
      /\ run'.isolated = run.isolated /\ run'.failed = run.failed
      /\ run'.warned = run.warned /\ run'.batch = run.batch
  <2>1. CASE _require_backend_key
    BY <1>0, <2>1 DEF _require_backend_key, KeyVerified, KeyRetried, KeyRefused, KeyDeadline,
       Raise, Run
  <2>2. CASE Bootstrap
    <3>1. run.pc = "preflight" /\ (Raise \/ Preflighted)
      BY <2>2 DEF Bootstrap, _ensure_backend_endpoints, MissingBackend, PreflightDeadline
    <3> QED
      BY <1>0, <3>1 DEF Raise, Preflighted, Run
  <2> QED
    BY <2>1, <2>2
<1> QED
  BY <1>1, <1>2 DEF MovesOn, Taken, Spoiled, Busy, Ended, Pc, Unfailed, Early

LEMMA BatchMovesOn ==
    ASSUME TypeOK, _resolve_batch_endpoint_scope \/ _persist_batch_result
    PROVE  MovesOn /\ main' = main /\ inBranch' = inBranch
<1>0. run \in Run
  BY DEF TypeOK
<1>1. branch' = branch /\ main' = main /\ inBranch' = inBranch
  BY DEF _resolve_batch_endpoint_scope, _persist_batch_result, inventory
<1>2. /\ Kept /\ run.pc \in {"batch", "batch_persist"}
      /\ run'.pc \in {"conflicts", "finally"}
  BY <1>0, GotoMoves, RaiseMoves DEF _resolve_batch_endpoint_scope, _persist_batch_result
<1> QED
  BY <1>1, <1>2, KeptMovesOn DEF Taken, Busy, Ended, Pc, Unfailed, Early

(* The batch itself may fail, and assigns tenants in main.                  *)
LEMMA BatchIsWork ==
    ASSUME TypeOK, Inductive, _execute_batch_sync
    PROVE  MovesOn /\ Publishes
<1>0. run \in Run /\ enabled \in SUBSET Endpoints
  BY DEF TypeOK
<1>1. PICK scope \in SUBSET Selected \ {{}}, tenant \in BOOLEAN :
        /\ \E rows \in SUBSET scope :
            /\ inBranch' = IF run.isolated THEN inBranch \cup rows ELSE inBranch
            /\ main' = main \cup (IF run.isolated THEN {} ELSE rows)
                            \cup (IF tenant THEN {Tenant} ELSE {})
        /\ \/ \E result \in {"ok", "failed"} :
                run' = [run EXCEPT !.pc = "batched", !.batch = result, !.scopes = scope]
           \/ Raise
  BY DEF _execute_batch_sync
<1>2. PICK rows \in SUBSET scope :
        /\ inBranch' = IF run.isolated THEN inBranch \cup rows ELSE inBranch
        /\ main' = main \cup (IF run.isolated THEN {} ELSE rows)
                        \cup (IF tenant THEN {Tenant} ELSE {})
  BY <1>1
<1>3. rows \in SUBSET Endpoints
  BY <1>0 DEF Selected
<1>4. run.pc = "batch" /\ run.batch = "none" /\ branch' = branch
  BY DEF _execute_batch_sync, Inductive, OnPath, Early
<1>5. /\ run'.pc \in {"batched", "finally"} /\ run'.isolated = run.isolated
      /\ run'.failed = run.failed /\ run'.warned = run.warned
  BY <1>0, <1>1 DEF Raise, Run
<1>6. MovesOn
  BY <1>4, <1>5 DEF MovesOn, Taken, Spoiled, Busy, Ended, Pc, Unfailed, Early
<1>7. PICK t \in SUBSET {Tenant} : t = IF tenant THEN {Tenant} ELSE {}
  OBVIOUS
<1>8. Lands(rows, t)
  BY <1>2, <1>7 DEF Lands
<1> QED
  BY <1>3, <1>6, <1>8, WorkIsWork

(* The backfill writes like a stage, in the run's branch or in main.        *)
LEMMA BackfillIsWork ==
    ASSUME TypeOK, Inductive, BatchBackfill \/ StagedBackfill
    PROVE  MovesOn /\ Publishes
<1>0. run \in Run
  BY DEF TypeOK
<1>1. PICK rows \in SUBSET Endpoints : Write(rows)
  <2>1. CASE UNCHANGED inventory
    <3>1. Write({})
      BY <2>1 DEF Write, inventory
    <3> QED
      BY <3>1
  <2>2. ASSUME NEW rows \in SUBSET run.scopes, Write(rows)
        PROVE  \E r \in SUBSET Endpoints : Write(r)
    <3>1. rows \in SUBSET Endpoints
      BY <1>0 DEF Run
    <3> QED
      BY <2>2, <3>1
  <2> QED
    BY <2>1, <2>2 DEF BatchBackfill, StagedBackfill, Backfill
<1>2. branch' = branch
  BY <1>1 DEF Write
<1>3. /\ Kept /\ run.pc \in {"batched", "backfill"}
      /\ run'.pc \in {"batch_persist", "persist", "finally"}
  BY <1>0, GotoMoves, RaiseMoves DEF BatchBackfill, StagedBackfill, Backfill, RefuseIsolation
<1>4. MovesOn
  BY <1>2, <1>3, KeptMovesOn DEF Taken, Busy, Ended, Pc, Unfailed, Early
<1> QED
  BY <1>1, <1>4, WriteIsWork

LEMMA LocalMovesOn ==
    ASSUME TypeOK, activate_sync_branch \/ _record_local_deadline_phases
                     \/ _extend_and_checkpoint_local_phases
    PROVE  MovesOn /\ main' = main /\ inBranch' = inBranch
<1>0. run \in Run
  BY DEF TypeOK
<1>1. branch' = branch /\ main' = main /\ inBranch' = inBranch
  BY DEF activate_sync_branch, _record_local_deadline_phases,
     _extend_and_checkpoint_local_phases, inventory
<1>2. /\ run.pc \in {"activate", "local"} /\ run'.pc \in {"activate", "local", "sse", "finally"}
      /\ run'.isolated = run.isolated /\ run'.failed = run.failed
      /\ run.warned \subseteq run'.warned /\ run'.batch = run.batch
  <2>1. CASE activate_sync_branch
    BY <1>0, <2>1 DEF activate_sync_branch, Goto, RefuseIsolation, Raise, Run
  <2>2. CASE _record_local_deadline_phases
    BY <1>0, <2>2 DEF _record_local_deadline_phases, Run
  <2>3. CASE _extend_and_checkpoint_local_phases
    BY <1>0, <2>3 DEF _extend_and_checkpoint_local_phases, Goto, Run
  <2> QED
    BY <2>1, <2>2, <2>3
<1> QED
  BY <1>1, <1>2 DEF MovesOn, Taken, Spoiled, Busy, Ended, Pc, Unfailed, Early

LEMMA LocalIsWork ==
    ASSUME TypeOK, Inductive, NEW e \in Endpoints,
           LocalEndpoint(e) \/ LocalEndpointFails(e) \/ LocalEndpointRaises(e)
    PROVE  MovesOn /\ Publishes
<1>0. run \in Run
  BY DEF TypeOK
<1>1. PICK rows \in SUBSET ({e} \cap enabled) : Write(rows)
  BY DEF LocalEndpoint, LocalEndpointFails, LocalEndpointRaises
<1>2. rows \in SUBSET Endpoints /\ branch' = branch
  BY <1>1 DEF Write
<1>3. /\ run.pc = "local" /\ run'.pc \in {"local", "finally"}
      /\ run'.isolated = run.isolated /\ run'.failed = run.failed
      /\ run.warned \subseteq run'.warned /\ run'.batch = run.batch
  BY <1>0 DEF LocalEndpoint, LocalEndpointFails, LocalEndpointRaises, Raise, Run
<1>4. MovesOn
  BY <1>2, <1>3 DEF MovesOn, Taken, Spoiled, Busy, Ended, Pc, Unfailed, Early
<1> QED
  BY <1>1, <1>2, <1>4, WriteIsWork

(* The deadline record replaces the list of failed scopes, which is empty   *)
(* until then.                                                              *)
LEMMA StagesMoveOn ==
    ASSUME TypeOK, FailuresStartEmpty,
           _deadline_sse_stages \/ _run_all_stages_sync \/ _record_deadline_endpoints
    PROVE  MovesOn /\ main' = main /\ inBranch' = inBranch
<1>0. run \in Run
  BY DEF TypeOK
<1>1. branch' = branch /\ main' = main /\ inBranch' = inBranch
  BY DEF _deadline_sse_stages, _run_all_stages_sync, _record_deadline_endpoints, inventory
<1>2. /\ run.pc \in {"sse", "stage"} /\ run'.pc \in {"persist", "backfill", "stage"}
      /\ run'.isolated = run.isolated /\ run.failed \subseteq run'.failed
      /\ run'.warned = run.warned /\ run'.batch = run.batch
  <2>1. run.pc = "sse" => run.failed = {}
    BY DEF FailuresStartEmpty, Unfailed
  <2>2. CASE _deadline_sse_stages
    BY <1>0, <2>1, <2>2 DEF _deadline_sse_stages, Run
  <2>3. CASE _run_all_stages_sync
    BY <1>0, <2>1, <2>3 DEF _run_all_stages_sync, Run
  <2>4. CASE _record_deadline_endpoints
    BY <1>0, <2>4 DEF _record_deadline_endpoints, Run
  <2> QED
    BY <2>2, <2>3, <2>4
<1> QED
  BY <1>1, <1>2 DEF MovesOn, Taken, Spoiled, Busy, Ended, Pc, Unfailed, Early

LEMMA StagesAreWork ==
    ASSUME TypeOK, Inductive,
           StagesRaise \/ \E e \in Endpoints : EndpointStages(e) \/ EndpointSkipped(e)
                                                \/ EndpointFails(e)
    PROVE  MovesOn /\ Publishes
<1>0. run \in Run
  BY DEF TypeOK
<1>1. PICK rows \in SUBSET Endpoints : Write(rows)
  <2>1. CASE StagesRaise
    <3>1. PICK rows \in {{}} \cup {{e} : e \in run.todo} : Write(rows)
      BY <2>1 DEF StagesRaise
    <3>2. run.todo \subseteq Endpoints
      BY <1>0 DEF Run
    <3>3. rows \subseteq Endpoints
      BY <3>1, <3>2
    <3> QED
      BY <3>1, <3>3
  <2>2. ASSUME NEW e \in Endpoints, EndpointStages(e) \/ EndpointFails(e)
        PROVE  \E rows \in SUBSET Endpoints : Write(rows)
    BY <2>2 DEF EndpointStages, EndpointFails
  <2>3. ASSUME NEW e \in Endpoints, EndpointSkipped(e)
        PROVE  \E rows \in SUBSET Endpoints : Write(rows)
    <3>1. Write({})
      BY <2>3 DEF EndpointSkipped, Write, inventory
    <3> QED
      BY <3>1
  <2> QED
    BY <2>1, <2>2, <2>3
<1>2. branch' = branch
  BY <1>1 DEF Write
<1>3. /\ run.pc \in {"sse", "stage"} /\ run'.pc \in {"backfill", "stage", "finally"}
      /\ run'.isolated = run.isolated /\ run.failed \subseteq run'.failed
      /\ run'.warned = run.warned /\ run'.batch = run.batch
  <2>1. CASE StagesRaise
    BY <1>0, <2>1 DEF StagesRaise, Raise, Run
  <2>2. ASSUME NEW e \in Endpoints,
               EndpointStages(e) \/ EndpointSkipped(e) \/ EndpointFails(e)
        PROVE  /\ run.pc = "stage" /\ run'.pc \in {"backfill", "stage"}
               /\ run'.isolated = run.isolated /\ run.failed \subseteq run'.failed
               /\ run'.warned = run.warned /\ run'.batch = run.batch
    <3>1. AfterScope(e) \in {"backfill", "stage"}
      BY DEF AfterScope
    <3>2. CASE EndpointStages(e)
      BY <1>0, <3>1, <3>2 DEF EndpointStages, Run
    <3>3. CASE EndpointSkipped(e)
      BY <1>0, <3>1, <3>3 DEF EndpointSkipped, Run
    <3>4. CASE EndpointFails(e)
      BY <1>0, <3>1, <3>4 DEF EndpointFails, Run
    <3> QED
      BY <2>2, <3>2, <3>3, <3>4
  <2> QED
    BY <2>1, <2>2
<1>4. MovesOn
  BY <1>2, <1>3 DEF MovesOn, Taken, Spoiled, Busy, Ended, Pc, Unfailed, Early
<1> QED
  BY <1>1, <1>4, WriteIsWork

LEMMA ConclusionMovesOn ==
    ASSUME TypeOK, _persist_staged_result \/ Classify \/ branch_has_conflicts
    PROVE  MovesOn /\ main' = main /\ inBranch' = inBranch
<1>0. run \in Run
  BY DEF TypeOK
<1>1. branch' = branch /\ main' = main /\ inBranch' = inBranch
  BY DEF _persist_staged_result, Classify, branch_has_conflicts, inventory
<1>2. /\ Kept /\ run.pc \in {"persist", "classify", "conflicts"}
      /\ run'.pc \in {"classify", "conflicts", "merge", "finally"}
  BY <1>0, GotoMoves, RaiseMoves DEF _persist_staged_result, Classify,
     branch_has_conflicts, RefuseIsolation
<1> QED
  BY <1>1, <1>2, KeptMovesOn DEF Taken, Busy, Ended, Pc, Unfailed, Early

(* The merge publishes the whole branch of a run without a failure, or      *)
(* leaves main alone.                                                       *)
LEMMA MergePublishes ==
    ASSUME TypeOK, Inductive, MergeSucceeds \/ MergeFails
    PROVE  Publishes /\ run'.pc = "finally"
<1>0. run \in Run /\ branch \in Branch
  BY DEF TypeOK
<1>1. Kept /\ run.pc = "merge" /\ run'.pc = "finally" /\ inBranch' = inBranch
  BY <1>0, RaiseMoves DEF MergeSucceeds, MergeFails, RefuseIsolation
<1>2. CASE Merged
  <2>1. run.isolated /\ ~Spoiled
    BY <1>1 DEF Inductive, CompleteBeforeMerge, RunIsComplete, Spoiled
  <2>2. Mode = "private"
    BY <1>1, <2>1, BusyMode DEF Busy, Ended, Pc
  <2>3. Mode' = "published"
    BY <1>0, <1>1, <1>2 DEF Merged, Mode, Branch
  <2>4. Spoiled' = Spoiled
    BY <1>1 DEF Kept, Spoiled
  <2>6. branch.status = "ready" /\ branch'.status = "merged"
    BY <1>0, <1>2 DEF Merged, Branch
  <2>5. Publication!Publish
    BY <1>1, <1>2, <2>1, <2>2, <2>3, <2>4, <2>6 DEF Publication!Publish, Merged
  <2> QED
    BY <1>1, <2>5 DEF Publishes, Publication!Next
<1>3. CASE branch' = branch /\ main' = main
  <2>1. MovesOn
    BY <1>1, <1>3, KeptMovesOn DEF Taken, Busy, Ended, Pc, Unfailed, Early
  <2> QED
    BY <1>1, <1>3, <2>1, QuietIsWork
<1> QED
  BY <1>2, <1>3 DEF MergeSucceeds, MergeFails

(* After its end a run only releases the row.                               *)
LEMMA FinishPublishesNothing ==
    ASSUME TypeOK, Finish
    PROVE  Publishes /\ run'.pc = "done"
<1>0. run \in Run
  BY DEF TypeOK
<1>1. Kept /\ run.pc = "finally" /\ run'.pc = "done"
  BY <1>0, GotoMoves DEF Finish
<1>2. branch' = branch /\ main' = main /\ inBranch' = inBranch
  BY DEF Finish, inventory
<1>3. Mode' = Mode /\ Spoiled' = Spoiled
  BY <1>1, <1>2 DEF Mode, Spoiled, Kept
<1> QED
  BY <1>1, <1>2, <1>3 DEF Publishes, Abstract, Taken

(* A worker that dies closes its run wherever it stands, and publishes      *)
(* nothing it had not.                                                      *)
LEMMA DeathPublishesNothing ==
    ASSUME TypeOK, Inductive, WorkerKilled
    PROVE  Publishes /\ run'.pc = "dead"
<1>0. run \in Run
  BY DEF TypeOK
<1>1. Kept /\ run.pc \notin {"idle", "done", "dead"} /\ run'.pc = "dead"
  BY <1>0 DEF WorkerKilled, Kept, Run
<1>2. branch' = branch /\ main' = main /\ inBranch' = inBranch
  BY DEF WorkerKilled, inventory
<1>3. Spoiled' = Spoiled
  BY <1>1 DEF Spoiled, Kept
<1>4. CASE run.pc = "config"
  <2>1. branch.status = "none"
    BY <1>4 DEF Inductive, NothingEarly
  <2>2. Mode = "undecided" /\ Mode' = "closed"
    BY <1>1, <1>2, <1>4, <2>1 DEF Mode
  <2>3. Publication!Decide
    BY <1>2, <1>3, <2>2 DEF Publication!Decide
  <2> QED
    BY <1>1, <2>3 DEF Publishes, Publication!Next
<1>5. CASE run.pc = "finally"
  <2>1. Mode' = Mode
    BY <1>1, <1>2, <1>5 DEF Mode
  <2> QED
    BY <1>1, <1>2, <1>3, <2>1 DEF Publishes, Abstract, Taken
<1>6. CASE run.pc \in Busy
  <2>1. MovesOn
    BY <1>1, <1>2, <1>6, KeptMovesOn DEF Taken, Ended, Unfailed, Early
  <2> QED
    BY <1>1, <1>2, <2>1, QuietIsWork
<1>7. run.pc \in Pc
  BY <1>0 DEF Run
<1> QED
  BY <1>1, <1>4, <1>5, <1>6, <1>7 DEF Busy, Ended

(* What happens outside the worker touches neither the run nor what it      *)
(* wrote, and merges nothing in its name.                                   *)
LEMMA OutsidePublishesNothing ==
    ASSUME TypeOK, Web \/ SaveSettings \/ (\E e \in Endpoints : ToggleEndpoint(e))
                     \/ ConflictAppears \/ Deadline
    PROVE  UNCHANGED Abstract /\ run' = run
<1>1. run' = run /\ main' = main /\ inBranch' = inBranch
  BY DEF Web, enqueue, _persist_enqueued_sync_params, SaveSettings, ToggleEndpoint,
     ConflictAppears, Deadline, inventory
<1>2. branch'.status = branch.status
  <2>0. branch \in Branch
    BY DEF TypeOK
  <2>1. CASE ConflictAppears
    BY <2>0, <2>1 DEF ConflictAppears, Branch
  <2>2. CASE branch' = branch
    BY <2>2
  <2> QED
    BY <2>1, <2>2 DEF Web, enqueue, _persist_enqueued_sync_params, SaveSettings,
       ToggleEndpoint, Deadline, inventory
<1>3. Mode' = Mode /\ Spoiled' = Spoiled
  BY <1>1, <1>2 DEF Mode, Spoiled
<1> QED
  BY <1>1, <1>2, <1>3 DEF Abstract, Taken

(* Somebody else's merge is the operator's, not a publication of the run.   *)
LEMMA TakingIsTake ==
    ASSUME TypeOK, Inductive, BranchTaken
    PROVE  Publishes /\ run' = run
<1>0. branch \in Branch
  BY DEF TypeOK
<1>1. run' = run /\ inBranch' = inBranch /\ branch.status = "ready"
  BY DEF BranchTaken
<1>2. branch'.status # "merged" /\ Spoiled' = Spoiled
  BY <1>0, <1>1 DEF BranchTaken, Branch, Spoiled
<1>3. Mode' = Mode
  BY <1>1, <1>2 DEF Mode
<1>4. CASE main' = main /\ branch'.status = "other"
  BY <1>1, <1>2, <1>3, <1>4 DEF Publishes, Abstract, Taken
<1>5. CASE inBranch # {} /\ main' = main \cup inBranch /\ branch'.status = "taken"
  <2>1. run.isolated /\ run.pc \notin Early
    BY <1>5 DEF Inductive, NothingEarly
  <2>2. Mode \in {"private", "closed"}
    BY <1>1, <2>1 DEF Mode, Early
  <2>3. Publication!Take
    BY <1>1, <1>2, <1>3, <1>5, <2>2 DEF Publication!Take
  <2> QED
    BY <1>1, <2>3 DEF Publishes, Publication!Next
<1> QED
  BY <1>0, <1>4, <1>5 DEF BranchTaken, Branch

LEMMA MovesOnStartsEmpty ==
    ASSUME FailuresStartEmpty, MovesOn
    PROVE  FailuresStartEmpty'
BY DEF FailuresStartEmpty, MovesOn

(* Every step of the job is a step of the publication or invisible in it.   *)
LEMMA PublicationStep ==
    ASSUME TypeOK, Inductive, FailuresStartEmpty, [Next]_vars
    PROVE  Publishes /\ FailuresStartEmpty'
<1>1. CASE Begin
  BY <1>1, DecisionIsDecide, BeginMovesOn, QuietIsWork, MovesOnStartsEmpty DEF Begin
<1>2. CASE _require_backend_key \/ Bootstrap
  BY <1>2, KeyMovesOn, QuietIsWork, MovesOnStartsEmpty
<1>3. CASE Batch
  BY <1>3, BatchMovesOn, BatchIsWork, BackfillIsWork, QuietIsWork, MovesOnStartsEmpty
     DEF Batch
<1>4. CASE Local
  BY <1>4, LocalMovesOn, LocalIsWork, QuietIsWork, MovesOnStartsEmpty DEF Local
<1>5. CASE Stages
  BY <1>5, StagesMoveOn, StagesAreWork, QuietIsWork, MovesOnStartsEmpty DEF Stages
<1>6. CASE MergeSucceeds \/ MergeFails \/ Finish \/ WorkerKilled
  BY <1>6, MergePublishes, FinishPublishesNothing, DeathPublishesNothing
     DEF FailuresStartEmpty, Unfailed, Early
<1>7. CASE Conclude
  BY <1>6, <1>7, BackfillIsWork, ConclusionMovesOn, QuietIsWork, MovesOnStartsEmpty
     DEF Conclude
<1>8. CASE Web \/ Outside
  <2>1. CASE UNCHANGED Abstract /\ run' = run
    BY <2>1 DEF Publishes, FailuresStartEmpty
  <2>2. CASE BranchTaken
    BY <2>2, TakingIsTake DEF FailuresStartEmpty
  <2> QED
    BY <1>6, <1>8, <2>1, <2>2, OutsidePublishesNothing DEF Outside
<1>9. CASE UNCHANGED vars
  BY <1>9 DEF vars, Publishes, Abstract, Taken, Mode, Spoiled, FailuresStartEmpty
<1> QED
  BY <1>1, <1>2, <1>3, <1>4, <1>5, <1>7, <1>8, <1>9 DEF Next, Worker

(* The sync job implements SyncPublication: whatever fails, times out, is   *)
(* edited or dies around it, a run works where it decided to, publishes the *)
(* whole of its branch in one step or nothing, never after a failure, and   *)
(* writes nothing once it has ended (run(), _merge_sync_branch).            *)
THEOREM SyncImplementsPublication == Spec => ImplementsPublication
<1>1. Init => Publication!Init /\ FailuresStartEmpty
  BY DEF Init, Idle, Publication!Init, Mode, Spoiled, FailuresStartEmpty
<1>2. TypeOK /\ Inductive /\ FailuresStartEmpty /\ [Next]_vars =>
        /\ FailuresStartEmpty'
        /\ [Publication!Next]_<<Mode, main, inBranch, Spoiled, branch.status = "taken">>
  BY PublicationStep DEF Publishes, Abstract, Taken
<1> QED
  BY <1>1, <1>2, TypeCorrect, InductiveHolds, PTL
     DEF Spec, ImplementsPublication, Publication!Spec
=============================================================================
