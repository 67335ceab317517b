--------------------------- MODULE ApplyJobProof ---------------------------
(***************************************************************************)
(* For every branch: the apply path is typed and the verdict on the row is *)
(* sound, also when diffs of the branch share a result key.                *)
(***************************************************************************)
EXTENDS ApplyJob, TLAPS

(* What the record types need to be expanded to.                            *)
LEMMA ReportType ==
    ASSUME run \in Run, NEW d \in Diffs, NEW s \in Status
    PROVE  Report(d, s) \subseteq Results
BY ApplyJobAssumption DEF Run, Report, Results

LEMMA GrantedType ==
    ASSUME run \in Run, perms \in SUBSET Ops
    PROVE  Granted \in SUBSET Ops
BY DEF Run, Granted

(* Every type a handler writes is the declared one: the row stays a row and *)
(* the run a run, for any set of diffs, keys and cancel POSTs.              *)
THEOREM TypeCorrect == Spec => []TypeOK
<1>1. Init => TypeOK
  <2> SUFFICES ASSUME Init PROVE TypeOK
    OBVIOUS
  <2>0. NoResults \in Results
    BY DEF NoResults, Results
  <2>1. row \in Row
    BY <2>0 DEF Init, Row
  <2>2. run \in Run
    BY <2>0 DEF Init, Run, Ops
  <2>3. cancel \in [Cancels -> Cancel]
    BY <2>0 DEF Init, Cancel
  <2>4. perms \in SUBSET Ops
    BY ApplyJobAssumption DEF Init, VmDiffs
  <2> QED
    BY <2>1, <2>2, <2>3, <2>4, ApplyJobAssumption DEF Init, TypeOK, Settings
<1>2. TypeOK /\ [Next]_vars => TypeOK'
  <2> SUFFICES ASSUME TypeOK, [Next]_vars PROVE TypeOK'
    OBVIOUS
  <2>0. /\ settings \in Settings /\ perms \in SUBSET Ops /\ row \in Row /\ run \in Run
        /\ run.pc \in {"sent", "recorded"} => run.at \in Diffs
        /\ cancel \in [Cancels -> Cancel] /\ faults \in 0..MaxFaults
    BY DEF TypeOK
  <2>g. Granted \in SUBSET Ops
    BY <2>0, GrantedType
  <2>1. ASSUME NEW m \in BOOLEAN, SaveSettings(m) PROVE TypeOK'
    BY <2>1, <2>0 DEF SaveSettings, TypeOK, outside, Settings
  <2>25. ASSUME NEW o \in BOOLEAN, NEW b \in BOOLEAN, SaveBranchIntent(o, b) PROVE TypeOK'
    BY <2>25, <2>0 DEF SaveBranchIntent, TypeOK, outside, Settings
  <2>2. ASSUME NEW p \in SUBSET Ops, RevokePermissions(p) PROVE TypeOK'
    BY <2>2, <2>0 DEF RevokePermissions, TypeOK, outside
  <2>3. CASE DeleteBranch
    BY <2>3, <2>0 DEF DeleteBranch, TypeOK, outside
  <2>4. CASE validate_proxmox_intent
    BY <2>4, <2>0 DEF validate_proxmox_intent, TypeOK, outside
  <2>5. CASE handle_branch_merged
    <3>1. row' \in Row
      BY <2>5, <2>0 DEF handle_branch_merged, Row, JobState
    <3>2. run' \in Run
      BY <2>5, <2>0 DEF handle_branch_merged, Run
    <3>3. run'.pc \in {"sent", "recorded"} => run'.at \in Diffs
      BY <2>5, <2>0 DEF handle_branch_merged, Run
    <3> QED BY <2>5, <2>0, <3>1, <3>2, <3>3, ApplyJobAssumption DEF handle_branch_merged, TypeOK, outside
  <2>6. CASE enqueue
    <3>1. run' \in Run
      BY <2>6, <2>0 DEF enqueue, Run
    <3>2. run'.pc \in {"sent", "recorded"} => run'.at \in Diffs
      BY <2>6, <2>0 DEF enqueue, Run
    <3> QED BY <2>6, <2>0, <3>1, <3>2, ApplyJobAssumption DEF enqueue, TypeOK, outside
  <2>7. CASE Start
    <3>1. row' \in Row
      BY <2>7, <2>0 DEF Start, Row, JobState
    <3>2. run' \in Run
      BY <2>7, <2>0 DEF Start, VmDiffs, Run
    <3>3. run'.pc \in {"sent", "recorded"} => run'.at \in Diffs
      BY <2>7, <2>0 DEF Start, Run
    <3> QED BY <2>7, <2>0, <3>1, <3>2, <3>3, ApplyJobAssumption DEF Start, TypeOK, outside
  <2>8. CASE Finish
    <3>1. _state_from_results(run.results) \in JobState /\ run.results \in Results
      BY <2>0 DEF _state_from_results, JobState, Run
    <3>2. row' \in Row
      BY <2>8, <2>0, <3>1 DEF Finish, Row
    <3>3. run' \in Run
      BY <2>8, <2>0 DEF Finish, Run
    <3>4. run'.pc \in {"sent", "recorded"} => run'.at \in Diffs
      BY <2>8, <2>0 DEF Finish, Run
    <3> QED BY <2>8, <2>0, <3>2, <3>3, <3>4, ApplyJobAssumption DEF Finish, TypeOK, outside
  <2>9. ASSUME NEW d \in Diffs, FailLocally(d) PROVE TypeOK'
    <3>1. Report(d, "failed") \subseteq Results /\ Report(d, "skipped") \subseteq Results
      BY <2>0, ReportType DEF Status
    <3>2. run' \in Run
      BY <2>9, <2>0, <3>1 DEF FailLocally, NextDiff, Run
    <3>3. run'.pc \in {"sent", "recorded"} => run'.at \in Diffs
      BY <2>9, <2>0 DEF FailLocally, Run
    <3> QED BY <2>9, <2>0, <3>2, <3>3, ApplyJobAssumption DEF FailLocally, TypeOK, outside
  <2>10. ASSUME NEW d \in Diffs, SkipUnneeded(d) PROVE TypeOK'
    <3>1. Report(d, "failed") \subseteq Results /\ Report(d, "skipped") \subseteq Results
      BY <2>0, ReportType DEF Status
    <3>2. run' \in Run
      BY <2>10, <2>0, <3>1 DEF SkipUnneeded, NextDiff, Run
    <3>3. run'.pc \in {"sent", "recorded"} => run'.at \in Diffs
      BY <2>10, <2>0 DEF SkipUnneeded, Run
    <3> QED BY <2>10, <2>0, <3>2, <3>3, ApplyJobAssumption DEF SkipUnneeded, TypeOK, outside
  <2>11. ASSUME NEW d \in Diffs, SkipDenied(d) PROVE TypeOK'
    <3>1. Report(d, "failed") \subseteq Results /\ Report(d, "skipped") \subseteq Results
      BY <2>0, ReportType DEF Status
    <3>2. run' \in Run
      BY <2>11, <2>0, <3>1, <2>g DEF SkipDenied, NextDiff, Run
    <3>3. run'.pc \in {"sent", "recorded"} => run'.at \in Diffs
      BY <2>11, <2>0 DEF SkipDenied, Run
    <3> QED BY <2>11, <2>0, <3>2, <3>3, ApplyJobAssumption DEF SkipDenied, TypeOK, outside
  <2>12. ASSUME NEW d \in Diffs, _call_apply_endpoint(d) PROVE TypeOK'
    <3>1. run' \in Run
      BY <2>12, <2>0, <2>g DEF _call_apply_endpoint, NextDiff, Run
    <3>2. run'.pc \in {"sent", "recorded"} => run'.at \in Diffs
      BY <2>12, <2>0 DEF _call_apply_endpoint, Run
    <3> QED BY <2>12, <2>0, <3>1, <3>2, ApplyJobAssumption DEF _call_apply_endpoint, TypeOK, outside
  <2>13. ASSUME NEW d \in Diffs, _deletion_identity(d) PROVE TypeOK'
    <3>1. Report(d, "failed") \subseteq Results /\ Report(d, "skipped") \subseteq Results
      BY <2>0, ReportType DEF Status
    <3>2. run' \in Run
      BY <2>13, <2>0, <3>1, <2>g DEF _deletion_identity, NextDiff, Run
    <3>3. run'.pc \in {"sent", "recorded"} => run'.at \in Diffs
      BY <2>13, <2>0 DEF _deletion_identity, Run
    <3> QED BY <2>13, <2>0, <3>2, <3>3, ApplyJobAssumption DEF _deletion_identity, TypeOK, outside
  <2>14. ASSUME NEW d \in Diffs, RequestDeletion(d) PROVE TypeOK'
    <3>1. run' \in Run
      BY <2>14, <2>0, <2>g DEF RequestDeletion, NextDiff, Run
    <3>2. run'.pc \in {"sent", "recorded"} => run'.at \in Diffs
      BY <2>14, <2>0 DEF RequestDeletion, Run
    <3> QED BY <2>14, <2>0, <3>1, <3>2, ApplyJobAssumption DEF RequestDeletion, TypeOK, outside
  <2>15. ASSUME NEW s \in {"applied", "failed"}, AnswerApplied(s) PROVE TypeOK'
    <3>1. run.at \in Diffs => Report(run.at, s) \subseteq Results
      BY <2>0, ReportType DEF Status, SuccessStatus
    <3>2. run' \in Run
      BY <2>15, <2>0, <3>1 DEF AnswerApplied, Run
    <3>3. run'.pc \in {"sent", "recorded"} => run'.at \in Diffs
      BY <2>15, <2>0 DEF AnswerApplied, Run
    <3> QED BY <2>15, <2>0, <3>2, <3>3, ApplyJobAssumption DEF AnswerApplied, TypeOK, outside
  <2>16. ASSUME NEW s \in {"failed", "skipped"}, AnswerOther(s) PROVE TypeOK'
    <3>1. run.at \in Diffs => Report(run.at, s) \subseteq Results
      BY <2>0, ReportType DEF Status, SuccessStatus
    <3>2. run' \in Run
      BY <2>16, <2>0, <3>1 DEF AnswerOther, Run
    <3>3. run'.pc \in {"sent", "recorded"} => run'.at \in Diffs
      BY <2>16, <2>0 DEF AnswerOther, Run
    <3> QED BY <2>16, <2>0, <3>2, <3>3, ApplyJobAssumption DEF AnswerOther, TypeOK, outside
  <2>17. ASSUME NEW s \in {"delete-pending-approval", "failed"}, DeletionReported(s) PROVE TypeOK'
    <3>1. run.at \in Diffs => Report(run.at, s) \subseteq Results
      BY <2>0, ReportType DEF Status, SuccessStatus
    <3>2. run' \in Run
      BY <2>17, <2>0, <3>1 DEF DeletionReported, Run
    <3>3. run'.pc \in {"sent", "recorded"} => run'.at \in Diffs
      BY <2>17, <2>0 DEF DeletionReported, Run
    <3> QED BY <2>17, <2>0, <3>2, <3>3, ApplyJobAssumption DEF DeletionReported, TypeOK, outside
  <2>18. ASSUME NEW found \in SUBSET FirewallDiffs, firewall_changediffs(found) PROVE TypeOK'
    <3>1. run' \in Run
      BY <2>18, <2>0 DEF firewall_changediffs, FirewallDiffs, Run
    <3>2. run'.pc \in {"sent", "recorded"} => run'.at \in Diffs
      BY <2>18, <2>0 DEF firewall_changediffs, Run
    <3> QED BY <2>18, <2>0, <3>1, <3>2, ApplyJobAssumption DEF firewall_changediffs, TypeOK, outside
  <2>19. CASE EnqueueFails
    <3>1. run' \in Run
      BY <2>19, <2>0 DEF EnqueueFails, Run
    <3>2. run'.pc \in {"sent", "recorded"} => run'.at \in Diffs
      BY <2>19, <2>0 DEF EnqueueFails, Run
    <3> QED BY <2>19, <2>0, <3>1, <3>2, ApplyJobAssumption DEF EnqueueFails, TypeOK, outside, Fault
  <2>20. CASE Abort
    <3>1. row' \in Row
      BY <2>20, <2>0 DEF Abort, Row, JobState
    <3>2. run' \in Run
      BY <2>20, <2>0 DEF Abort, Run
    <3>3. run'.pc \in {"sent", "recorded"} => run'.at \in Diffs
      BY <2>20, <2>0 DEF Abort, Run
    <3> QED BY <2>20, <2>0, <3>1, <3>2, <3>3, ApplyJobAssumption DEF Abort, TypeOK, outside, Fault
  <2>21. CASE WorkerDies
    <3>1. run' \in Run
      BY <2>21, <2>0 DEF WorkerDies, Run
    <3>2. run'.pc \in {"sent", "recorded"} => run'.at \in Diffs
      BY <2>21, <2>0 DEF WorkerDies, Run
    <3> QED BY <2>21, <2>0, <3>1, <3>2, ApplyJobAssumption DEF WorkerDies, TypeOK, outside, Fault
  <2>22. ASSUME NEW c \in Cancels, CancelLoad(c) PROVE TypeOK'
    <3>1. cancel' \in [Cancels -> Cancel]
      BY <2>22, <2>0 DEF CancelLoad, Row, Cancel
    <3> QED BY <2>22, <2>0, <3>1, ApplyJobAssumption DEF CancelLoad, TypeOK, outside
  <2>23. ASSUME NEW c \in Cancels, CancelSave(c) PROVE TypeOK'
    <3>1. row' \in Row
      BY <2>23, <2>0 DEF CancelSave, Cancel, Row, JobState
    <3>2. cancel' \in [Cancels -> Cancel]
      BY <2>23, <2>0 DEF CancelSave, Cancel
    <3> QED BY <2>23, <2>0, <3>1, <3>2, ApplyJobAssumption DEF CancelSave, TypeOK, outside
  <2>24. CASE UNCHANGED vars
    BY <2>24 DEF vars, TypeOK
  <2> QED
    BY <2>1, <2>2, <2>3, <2>4, <2>5, <2>6, <2>7, <2>8, <2>9, <2>10, <2>11, <2>12, <2>13, <2>14, <2>15, <2>16, <2>17, <2>18, <2>19, <2>20, <2>21, <2>22, <2>23, <2>24, <2>25
       DEF Next, Worker
<1> QED BY <1>1, <1>2, PTL DEF Spec

-----------------------------------------------------------------------------
(* The loop's bookkeeping.                                                  *)

(* Finishing a diff with an entry that is true of it keeps every entry      *)
(* founded: it may replace the entry of another diff, which then has a key  *)
(* in common with this one.                                                 *)
LEMMA SettleDiff ==
    ASSUME TypeOK, Founded,
           NEW d \in Diffs, NEW s \in Status,
           d \in run.seen, d \in run.todo \/ d = run.at,
           run.at = NoDiff \/ run.at = d,
           run'.results \in Report(d, s), run'.todo = run.todo \ {d},
           run'.seen = run.seen, run'.at = NoDiff, run'.firewall = run.firewall,
           run'.pc = "loop",
           applied \subseteq applied', requests \subseteq requests',
           s \in SuccessStatus => d \in applied' \cup requests',
           stamped' \subseteq stamped \cup {d},
           d \in stamped' => s = "applied"
    PROVE  Founded'
<1>0. run \in Run /\ run.results \in Results /\ run.seen \subseteq Diffs
  BY DEF TypeOK, Run
<1>1. Finished' = Finished \cup {d} /\ d \notin Finished /\ Finished \subseteq Diffs
  BY <1>0, ApplyJobAssumption DEF Finished, Founded
<1>2. PICK key \in KeysOf[d] : run'.results = [run.results EXCEPT ![key] = s]
  BY DEF Report
<1>3. /\ key \in Keys /\ run'.results[key] = s /\ s # "none"
      /\ \A k \in Keys \ {key} : run'.results[k] = run.results[k]
  BY <1>0, <1>2, ApplyJobAssumption DEF Results, Status, SuccessStatus
<1>4. \A e \in Diffs : KeysOf[e] \subseteq Keys
  BY ApplyJobAssumption
<1>5. \A e \in Finished' : \E k \in KeysOf[e] : run'.results[k] # "none"
  BY <1>1, <1>2, <1>3, <1>4 DEF Founded
<1>6. \A k \in Keys : run'.results[k] \in SuccessStatus =>
         \E e \in Finished' : k \in KeysOf[e] /\ e \in applied' \cup requests'
  BY <1>1, <1>2, <1>3 DEF Founded
<1>7. stamped' \subseteq Finished'
  BY <1>1 DEF Founded
<1>8. ASSUME NEW e \in stamped'
      PROVE  \E k \in KeysOf[e] :
                run'.results[k] = "applied" \/ \E f \in Finished' \ {e} : k \in KeysOf[f]
  <2>1. CASE e = d
    BY <2>1, <1>2, <1>3
  <2>2. CASE e # d
    <3>1. e \in stamped /\ e \in Finished
      BY <2>2 DEF Founded
    <3>2. PICK k \in KeysOf[e] :
             run.results[k] = "applied" \/ \E f \in Finished \ {e} : k \in KeysOf[f]
      BY <3>1 DEF Founded
    <3>3. CASE k = key
      BY <3>3, <2>2, <1>1, <1>2
    <3>4. CASE k # key
      BY <3>4, <3>1, <3>2, <1>1, <1>3, <1>4
    <3> QED BY <3>3, <3>4
  <2> QED BY <2>1, <2>2
<1> QED BY <1>5, <1>6, <1>7, <1>8 DEF Founded, VmDiffs

(* Before the final save the row carries nothing of the run.                *)
LEMMA RowIdle ==
    ASSUME RowFromRun, run.pc \notin {"none", "done"}, row' = row, cancel' = cancel,
           branch' = branch, run'.pc \notin {"none", "enqueue", "queued"}
    PROVE  RowFromRun'
BY DEF RowFromRun, NoResults

(* Steps that touch neither the run, the row, a cancel nor a diff.          *)
LEMMA Frame ==
    ASSUME Inductive, run' = run, row' = row, cancel' = cancel,
           applied' = applied, requests' = requests, stamped' = stamped,
           branch' \in {"open", "permitted"} => branch \in {"open", "permitted"}
    PROVE  Inductive'
BY DEF Inductive, Founded, RowFromRun, Finished, VmDiffs, NoResults, _state_from_results, Accomplished

LEMMA InductiveInit == Init => Inductive
BY DEF Init, Inductive, Founded, RowFromRun, Finished, NoResults, SuccessStatus

LEMMA InductiveStep ==
    ASSUME TypeOK, Inductive, [Next]_vars
    PROVE  Inductive'
<1>0. Founded /\ RowFromRun
  BY DEF Inductive
<1>t. /\ run \in Run /\ run.seen \subseteq Diffs /\ row \in Row
      /\ run.pc \in {"sent", "recorded"} => run.at \in Diffs
  BY DEF TypeOK, Run
<1>1. ASSUME NEW m \in BOOLEAN, SaveSettings(m) PROVE Inductive'
  BY <1>1, Frame DEF SaveSettings, outside
<1>25. ASSUME NEW o \in BOOLEAN, NEW b \in BOOLEAN, SaveBranchIntent(o, b) PROVE Inductive'
  BY <1>25, Frame DEF SaveBranchIntent, outside
<1>2. ASSUME NEW p \in SUBSET Ops, RevokePermissions(p) PROVE Inductive'
  BY <1>2, Frame DEF RevokePermissions, outside
<1>3. CASE DeleteBranch
  BY <1>3, Frame DEF DeleteBranch, outside
<1>4. CASE validate_proxmox_intent
  BY <1>4, Frame DEF validate_proxmox_intent, outside
<1>5. CASE handle_branch_merged
  <2>1. /\ run.pc = "none" /\ run.seen = {} /\ run.at = NoDiff /\ row.results = NoResults
        /\ row.state # "succeeded"
    BY <1>0, <1>5 DEF handle_branch_merged, RowFromRun, Founded
  <2>2. CASE Eligible
    <3>1. /\ run' = [run EXCEPT !.pc = "enqueue"] /\ row' = [row EXCEPT !.state = "queued"]
          /\ branch' = "merged" /\ UNCHANGED <<cancel, applied, requests, stamped>>
      BY <1>5, <2>2 DEF handle_branch_merged, outside
    <3>2. /\ run'.pc = "enqueue" /\ run'.seen = {} /\ run'.todo = run.todo
          /\ run'.at = NoDiff /\ run'.firewall = run.firewall
          /\ run'.results = run.results
      BY <3>1, <2>1, <1>t DEF Run
    <3>3. row'.results = NoResults /\ row'.state = "queued"
      BY <3>1, <2>1, <1>t DEF Row
    <3>4. Founded'
      BY <3>1, <3>2, <2>1, <1>0 DEF Founded, Finished
    <3>5. RowFromRun'
      BY <3>1, <3>2, <3>3, <1>0 DEF RowFromRun, NoResults
    <3> QED BY <3>4, <3>5 DEF Inductive
  <2>3. CASE ~Eligible
    <3>1. UNCHANGED <<run, row, cancel, applied, requests, stamped>> /\ branch' = "merged"
      BY <1>5, <2>3 DEF handle_branch_merged, outside
    <3> QED BY <3>1, Frame
  <2> QED BY <2>2, <2>3
<1>6. CASE enqueue
  <2>1. /\ run' = [run EXCEPT !.pc = "queued"]
        /\ UNCHANGED <<row, cancel, branch, applied, requests, stamped>>
    BY <1>6 DEF enqueue, outside
  <2>2. /\ run'.pc = "queued" /\ run'.seen = run.seen /\ run'.todo = run.todo
        /\ run'.at = run.at /\ run'.firewall = run.firewall
        /\ run'.results = run.results
    BY <2>1, <1>t DEF Run
  <2>3. run.pc = "enqueue"
    BY <1>6 DEF enqueue
  <2>4. Founded'
    BY <2>1, <2>2, <2>3, <1>0 DEF Founded, Finished
  <2>5. RowFromRun'
    BY <2>1, <2>2, <2>3, <1>0 DEF RowFromRun, NoResults
  <2> QED BY <2>4, <2>5 DEF Inductive
<1>7. CASE EnqueueFails
  <2>1. /\ run' = [run EXCEPT !.pc = "none"]
        /\ UNCHANGED <<row, cancel, branch, applied, requests, stamped>>
    BY <1>7 DEF EnqueueFails, outside
  <2>2. /\ run'.pc = "none" /\ run'.seen = run.seen /\ run'.todo = run.todo
        /\ run'.at = run.at /\ run'.firewall = run.firewall
        /\ run'.results = run.results
    BY <2>1, <1>t DEF Run
  <2>3. run.pc = "enqueue"
    BY <1>7 DEF EnqueueFails
  <2>4. Founded'
    BY <2>1, <2>2, <2>3, <1>0 DEF Founded, Finished
  <2>5. RowFromRun'
    BY <2>1, <2>2, <2>3, <1>0 DEF RowFromRun, NoResults
  <2> QED BY <2>4, <2>5 DEF Inductive
<1>8. CASE WorkerDies
  <2>1. /\ run' = [run EXCEPT !.pc = "dead"]
        /\ UNCHANGED <<row, cancel, branch, applied, requests, stamped>>
    BY <1>8 DEF WorkerDies, outside
  <2>2. /\ run'.pc = "dead" /\ run'.seen = run.seen /\ run'.todo = run.todo
        /\ run'.at = run.at /\ run'.firewall = run.firewall
        /\ run'.results = run.results
    BY <2>1, <1>t DEF Run
  <2>3. run.pc \in {"queued", "loop", "sent", "recorded"}
    BY <1>8 DEF WorkerDies
  <2>4. Founded'
    BY <2>1, <2>2, <2>3, <1>0 DEF Founded, Finished
  <2>5. RowFromRun'
    BY <2>1, <2>2, <2>3, <1>0, RowIdle
  <2> QED BY <2>4, <2>5 DEF Inductive
<1>9. CASE Start
  <2> DEFINE found == IF branch = "merged" THEN VmDiffs ELSE {}
  <2>1. /\ run.pc = "queued" /\ row' = [row EXCEPT !.state = "running"]
        /\ run'.pc = "loop" /\ run'.todo = found /\ run'.seen = found
        /\ run'.at = run.at /\ run'.firewall = run.firewall
        /\ run'.results = run.results
        /\ UNCHANGED <<cancel, branch, applied, requests, stamped>>
    BY <1>9, <1>t DEF Start, Run, outside
  <2>2. /\ row.results = NoResults /\ row'.results = NoResults
        /\ row'.state = "running" /\ run.at = NoDiff
    BY <2>1, <1>0, <1>t DEF RowFromRun, Founded, Row
  <2>3. stamped = {}
    BY <2>1, <1>0 DEF Founded, RowFromRun, Finished
  <2>4. Finished' = {} /\ \A k \in Keys : run.results[k] \notin SuccessStatus
    BY <2>1, <1>0 DEF Founded, RowFromRun, Finished
  <2>5. Founded'
    BY <2>1, <2>2, <2>3, <2>4, <1>0 DEF Founded, VmDiffs
  <2>6. RowFromRun'
    BY <2>1, <2>2, <1>0 DEF RowFromRun, NoResults
  <2> QED BY <2>5, <2>6 DEF Inductive
<1>10. ASSUME NEW d \in Diffs, FailLocally(d) PROVE Inductive'
  <2>1. /\ run.pc = "loop" /\ d \in run.todo
        /\ run'.pc = "loop" /\ run'.todo = run.todo \ {d} /\ run'.seen = run.seen
        /\ run'.at = run.at /\ run'.firewall = run.firewall
        /\ run'.results \in Report(d, "failed")
        /\ UNCHANGED <<row, cancel, branch, applied, requests, stamped>>
    BY <1>10, <1>t DEF FailLocally, NextDiff, Run, outside
  <2>2. run.at = NoDiff /\ d \in run.seen /\ d \notin stamped
    BY <2>1, <1>0 DEF Founded, Finished
  <2>3. Founded'
    BY <2>1, <2>2, <1>0, SettleDiff DEF Status, SuccessStatus
  <2>4. RowFromRun'
    BY <2>1, <1>0, RowIdle
  <2> QED BY <2>3, <2>4 DEF Inductive
<1>11. ASSUME NEW d \in Diffs, SkipUnneeded(d) PROVE Inductive'
  <2>1. /\ run.pc = "loop" /\ d \in run.todo
        /\ run'.pc = "loop" /\ run'.todo = run.todo \ {d} /\ run'.seen = run.seen
        /\ run'.at = run.at /\ run'.firewall = run.firewall
        /\ run'.results \in Report(d, "skipped")
        /\ UNCHANGED <<row, cancel, branch, applied, requests, stamped>>
    BY <1>11, <1>t DEF SkipUnneeded, NextDiff, Run, outside
  <2>2. run.at = NoDiff /\ d \in run.seen /\ d \notin stamped
    BY <2>1, <1>0 DEF Founded, Finished
  <2>3. Founded'
    BY <2>1, <2>2, <1>0, SettleDiff DEF Status, SuccessStatus
  <2>4. RowFromRun'
    BY <2>1, <1>0, RowIdle
  <2> QED BY <2>3, <2>4 DEF Inductive
<1>12. ASSUME NEW d \in Diffs, SkipDenied(d) PROVE Inductive'
  <2>1. /\ run.pc = "loop" /\ d \in run.todo
        /\ run'.pc = "loop" /\ run'.todo = run.todo \ {d} /\ run'.seen = run.seen
        /\ run'.at = run.at /\ run'.firewall = run.firewall
        /\ run'.results \in Report(d, "skipped")
        /\ UNCHANGED <<row, cancel, branch, applied, requests, stamped>>
    BY <1>12, <1>t DEF SkipDenied, NextDiff, Run, outside
  <2>2. run.at = NoDiff /\ d \in run.seen /\ d \notin stamped
    BY <2>1, <1>0 DEF Founded, Finished
  <2>3. Founded'
    BY <2>1, <2>2, <1>0, SettleDiff DEF Status, SuccessStatus
  <2>4. RowFromRun'
    BY <2>1, <1>0, RowIdle
  <2> QED BY <2>3, <2>4 DEF Inductive
<1>13. ASSUME NEW d \in Diffs, _deletion_identity(d) PROVE Inductive'
  <2>1. /\ run.pc = "loop" /\ d \in run.todo
        /\ run'.pc = "loop" /\ run'.todo = run.todo \ {d} /\ run'.seen = run.seen
        /\ run'.at = run.at /\ run'.firewall = run.firewall
        /\ run'.results \in Report(d, "failed")
        /\ UNCHANGED <<row, cancel, branch, applied, requests, stamped>>
    BY <1>13, <1>t DEF _deletion_identity, NextDiff, Run, outside
  <2>2. run.at = NoDiff /\ d \in run.seen /\ d \notin stamped
    BY <2>1, <1>0 DEF Founded, Finished
  <2>3. Founded'
    BY <2>1, <2>2, <1>0, SettleDiff DEF Status, SuccessStatus
  <2>4. RowFromRun'
    BY <2>1, <1>0, RowIdle
  <2> QED BY <2>3, <2>4 DEF Inductive
<1>14. ASSUME NEW d \in Diffs, _call_apply_endpoint(d) PROVE Inductive'
  <2>1. /\ run.pc = "loop" /\ d \in run.todo
        /\ run'.pc = "sent" /\ run'.todo = run.todo \ {d} /\ run'.seen = run.seen
        /\ run'.at = d /\ run'.firewall = run.firewall /\ run'.results = run.results
        /\ UNCHANGED <<row, cancel, branch, applied, requests, stamped>>
    BY <1>14, <1>t DEF _call_apply_endpoint, NextDiff, Run, outside
  <2>2. run.at = NoDiff /\ d \in run.seen /\ Finished' = Finished
    BY <2>1, <1>0, ApplyJobAssumption, <1>t DEF Founded, Finished
  <2>3. Founded'
    BY <2>1, <2>2, <1>0, ApplyJobAssumption DEF Founded, VmDiffs
  <2>4. RowFromRun'
    BY <2>1, <1>0, RowIdle
  <2> QED BY <2>3, <2>4 DEF Inductive
<1>15. ASSUME NEW d \in Diffs, RequestDeletion(d) PROVE Inductive'
  <2>1. /\ run.pc = "loop" /\ d \in run.todo
        /\ run'.pc = "recorded" /\ run'.todo = run.todo \ {d} /\ run'.seen = run.seen
        /\ run'.at = d /\ run'.firewall = run.firewall /\ run'.results = run.results
        /\ UNCHANGED <<row, cancel, branch, applied, stamped>>
        /\ requests' = requests \cup {d}
    BY <1>15, <1>t DEF RequestDeletion, NextDiff, Run, outside
  <2>2. run.at = NoDiff /\ d \in run.seen /\ Finished' = Finished
    BY <2>1, <1>0, ApplyJobAssumption, <1>t DEF Founded, Finished
  <2>3. Founded'
    BY <2>1, <2>2, <1>0, ApplyJobAssumption DEF Founded, VmDiffs
  <2>4. RowFromRun'
    BY <2>1, <1>0, RowIdle
  <2> QED BY <2>3, <2>4 DEF Inductive
<1>16. ASSUME NEW s \in {"applied", "failed"}, AnswerApplied(s) PROVE Inductive'
  <2>1. /\ run.pc = "sent" /\ run'.pc = "loop" /\ run'.todo = run.todo
        /\ run'.seen = run.seen /\ run'.at = NoDiff /\ run'.firewall = run.firewall
        /\ run'.results \in Report(run.at, s)
        /\ UNCHANGED <<row, cancel, branch, requests>>
        /\ applied' = applied \cup {run.at} /\ stamped' \subseteq stamped \cup {run.at}
        /\ s = "failed" => stamped' = stamped
    BY <1>16, <1>t DEF AnswerApplied, Run, outside
  <2>2. /\ run.at \in Diffs /\ run.at \in run.seen /\ run.at \notin run.todo
        /\ run.at \notin stamped
        /\ run.pc = "recorded" => run.at \in requests
    BY <2>1, <1>0, <1>t, ApplyJobAssumption DEF Founded, Finished
  <2>3. Founded'
    BY <2>1, <2>2, <1>0, SettleDiff DEF Status, SuccessStatus
  <2>4. RowFromRun'
    BY <2>1, <1>0, RowIdle
  <2> QED BY <2>3, <2>4 DEF Inductive
<1>17. ASSUME NEW s \in {"failed", "skipped"}, AnswerOther(s) PROVE Inductive'
  <2>1. /\ run.pc = "sent" /\ run'.pc = "loop" /\ run'.todo = run.todo
        /\ run'.seen = run.seen /\ run'.at = NoDiff /\ run'.firewall = run.firewall
        /\ run'.results \in Report(run.at, s)
        /\ UNCHANGED <<row, cancel, branch, applied, requests, stamped>>
    BY <1>17, <1>t DEF AnswerOther, Run, outside
  <2>2. /\ run.at \in Diffs /\ run.at \in run.seen /\ run.at \notin run.todo
        /\ run.at \notin stamped
        /\ run.pc = "recorded" => run.at \in requests
    BY <2>1, <1>0, <1>t, ApplyJobAssumption DEF Founded, Finished
  <2>3. Founded'
    BY <2>1, <2>2, <1>0, SettleDiff DEF Status, SuccessStatus
  <2>4. RowFromRun'
    BY <2>1, <1>0, RowIdle
  <2> QED BY <2>3, <2>4 DEF Inductive
<1>18. ASSUME NEW s \in {"delete-pending-approval", "failed"}, DeletionReported(s) PROVE Inductive'
  <2>1. /\ run.pc = "recorded" /\ run'.pc = "loop" /\ run'.todo = run.todo
        /\ run'.seen = run.seen /\ run'.at = NoDiff /\ run'.firewall = run.firewall
        /\ run'.results \in Report(run.at, s)
        /\ UNCHANGED <<row, cancel, branch, applied, requests, stamped>>
    BY <1>18, <1>t DEF DeletionReported, Run, outside
  <2>2. /\ run.at \in Diffs /\ run.at \in run.seen /\ run.at \notin run.todo
        /\ run.at \notin stamped
        /\ run.pc = "recorded" => run.at \in requests
    BY <2>1, <1>0, <1>t, ApplyJobAssumption DEF Founded, Finished
  <2>3. Founded'
    BY <2>1, <2>2, <1>0, SettleDiff DEF Status, SuccessStatus
  <2>4. RowFromRun'
    BY <2>1, <1>0, RowIdle
  <2> QED BY <2>3, <2>4 DEF Inductive
<1>19. ASSUME NEW found \in SUBSET FirewallDiffs, firewall_changediffs(found)
      PROVE Inductive'
  <2>1. /\ run.pc = "loop" /\ run.todo = {} /\ ~run.firewall
        /\ run'.pc = "loop" /\ run'.todo = found /\ run'.seen = run.seen \cup found
        /\ run'.at = run.at /\ run'.firewall /\ run'.results = run.results
        /\ UNCHANGED <<row, cancel, branch, applied, requests, stamped>>
    BY <1>19, <1>t DEF firewall_changediffs, Run, outside
  <2>2. run.at = NoDiff /\ run.seen \cap found = {}
    BY <2>1, <1>0 DEF Founded, FirewallDiffs
  <2>3. Finished' = Finished
    BY <2>1, <2>2, <1>t, ApplyJobAssumption DEF Finished
  <2>4. Founded'
    BY <2>1, <2>2, <2>3, <1>0 DEF Founded
  <2>5. RowFromRun'
    BY <2>1, <1>0, RowIdle
  <2> QED BY <2>4, <2>5 DEF Inductive
<1>20. CASE Finish
  <2>1. /\ run.pc = "loop" /\ run.todo = {}
        /\ run' = [run EXCEPT !.pc = "done"]
        /\ row'.state = _state_from_results(run.results)
        /\ row'.results = run.results /\ ~row'.cancelled
        /\ UNCHANGED <<cancel, branch, applied, requests, stamped>>
    BY <1>20 DEF Finish, outside
  <2>2. /\ run'.pc = "done" /\ run'.seen = run.seen /\ run'.todo = run.todo
        /\ run'.at = run.at /\ run'.firewall = run.firewall
        /\ run'.results = run.results
    BY <2>1, <1>t DEF Run
  <2>3. Founded'
    BY <2>1, <2>2, <1>0 DEF Founded, Finished
  <2>4. Finished = run.seen
    BY <2>1, <1>0, <1>t, ApplyJobAssumption DEF Founded, Finished
  <2>5. ASSUME row'.state = "succeeded" PROVE \A d \in run.seen : Accomplished(d)
    <3>1. \A k \in Keys : run.results[k] # "none" => run.results[k] \in SuccessStatus
      BY <2>1, <2>5 DEF _state_from_results
    <3>2. ASSUME NEW d \in run.seen PROVE Accomplished(d)
      <4>1. PICK k \in KeysOf[d] : run.results[k] # "none"
        BY <2>4, <1>0 DEF Founded
      <4>2. k \in Keys /\ run.results[k] \in SuccessStatus
        BY <4>1, <3>1, <1>t, ApplyJobAssumption
      <4>3. PICK e \in run.seen : k \in KeysOf[e] /\ e \in applied \cup requests
        BY <4>2, <2>4, <1>0 DEF Founded
      <4> QED BY <4>1, <4>3 DEF Accomplished, Shares
    <3> QED BY <3>2
  <2>6. RowFromRun'
    BY <2>1, <2>2, <2>5, <1>0 DEF RowFromRun, NoResults, _state_from_results, Accomplished
  <2> QED BY <2>3, <2>6 DEF Inductive
<1>21. CASE Abort
  <2>1. /\ run.pc = "loop" /\ run' = [run EXCEPT !.pc = "done"]
        /\ row' = [row EXCEPT !.state = "failed"]
        /\ UNCHANGED <<cancel, branch, applied, requests, stamped>>
    BY <1>21 DEF Abort, outside
  <2>2. /\ run'.pc = "done" /\ run'.seen = run.seen /\ run'.todo = run.todo
        /\ run'.at = run.at /\ run'.firewall = run.firewall
        /\ run'.results = run.results
        /\ row'.results = row.results /\ row'.state = "failed"
    BY <2>1, <1>t DEF Run, Row
  <2>3. Founded'
    BY <2>1, <2>2, <1>0 DEF Founded, Finished
  <2>4. RowFromRun'
    BY <2>1, <2>2, <1>0 DEF RowFromRun, NoResults
  <2> QED BY <2>3, <2>4 DEF Inductive
<1>22. ASSUME NEW c \in Cancels, CancelLoad(c) PROVE Inductive'
  <2>1. /\ row.state \in {"queued", "running"}
        /\ cancel' = [cancel EXCEPT ![c] = [pc |-> "loaded", results |-> row.results]]
        /\ UNCHANGED <<run, row, branch, applied, requests, stamped>>
    BY <1>22 DEF CancelLoad, outside
  <2>2. row.results = NoResults
    BY <2>1, <1>0 DEF RowFromRun, _state_from_results
  <2>3. \A e \in Cancels : cancel'[e].results = NoResults
    BY <2>1, <2>2, <1>0 DEF RowFromRun, TypeOK
  <2>4. Founded'
    BY <2>1, <1>0 DEF Founded, Finished
  <2>5. RowFromRun'
    BY <2>1, <2>3, <1>0 DEF RowFromRun, NoResults, _state_from_results
  <2> QED BY <2>4, <2>5 DEF Inductive
<1>23. ASSUME NEW c \in Cancels, CancelSave(c) PROVE Inductive'
  <2>1. /\ row' = [state |-> "failed", results |-> cancel[c].results, cancelled |-> TRUE]
        /\ cancel' = [cancel EXCEPT ![c].pc = "done"]
        /\ UNCHANGED <<run, branch, applied, requests, stamped>>
    BY <1>23 DEF CancelSave, outside
  <2>2. row'.state = "failed" /\ row'.results = NoResults
    BY <2>1, <1>0 DEF RowFromRun
  <2>3. \A e \in Cancels : cancel'[e].results = cancel[e].results
    BY <2>1 DEF TypeOK, Cancel
  <2>4. Founded'
    BY <2>1, <1>0 DEF Founded, Finished
  <2>5. RowFromRun'
    BY <2>1, <2>2, <2>3, <1>0 DEF RowFromRun, NoResults
  <2> QED BY <2>4, <2>5 DEF Inductive
<1>24. CASE UNCHANGED vars
  BY <1>24, Frame DEF vars
<1> QED
  BY <1>1, <1>2, <1>3, <1>4, <1>5, <1>6, <1>7, <1>8, <1>9, <1>10, <1>11, <1>12, <1>13, <1>14, <1>15, <1>16, <1>17, <1>18, <1>19, <1>20, <1>21, <1>22, <1>23, <1>24, <1>25
     DEF Next, Worker

-----------------------------------------------------------------------------
(* The strengthening holds throughout, whichever keys the diffs have.       *)
THEOREM Bookkeeping == Spec => []Inductive
<1>1. TypeOK /\ Inductive /\ [Next]_vars => Inductive'
  BY InductiveStep
<1> QED BY <1>1, InductiveInit, TypeCorrect, PTL DEF Spec

(* The final save of ProxmoxApplyJob.run never claims success for a diff    *)
(* that was neither applied nor filed for deletion, however the loop, the   *)
(* settings and a cancel interleave, unless a diff with a key in common     *)
(* was.                                                                     *)
THEOREM VerdictSound == Spec => []SucceededMeansDone
<1>1. Inductive => SucceededMeansDone
  BY DEF Inductive, RowFromRun, SucceededMeansDone
<1> QED BY <1>1, Bookkeeping, PTL

(* A failed verdict of the job itself leaves no guest stamped as applied,   *)
(* but for one whose entry another diff with its key has replaced.          *)
THEOREM FailureUnstamped == Spec => []FailedMeansUnstamped
<1>1. TypeOK /\ Inductive => FailedMeansUnstamped
  <2> SUFFICES ASSUME TypeOK, Inductive, row.state = "failed", row.results # NoResults,
                      NEW d \in stamped
               PROVE  \E e \in run.seen \ {d} : Shares(d, e)
    BY DEF FailedMeansUnstamped
  <2>1. _state_from_results(run.results) = "failed"
    BY DEF Inductive, RowFromRun
  <2> DEFINE seen == {run.results[k] : k \in Keys} \ {"none"}
  <2>2. "applied" \notin seen
    <3>1. SUFFICES ASSUME "applied" \in seen PROVE FALSE
      OBVIOUS
    <3>2. seen # {"failed"}
      BY <3>1
    <3> QED BY <2>1, <3>2 DEF _state_from_results
  <2>3. PICK k \in KeysOf[d] :
           run.results[k] = "applied" \/ \E e \in Finished \ {d} : k \in KeysOf[e]
    BY DEF Inductive, Founded
  <2>4. k \in Keys
    BY ApplyJobAssumption DEF TypeOK
  <2>5. run.results[k] # "applied"
    BY <2>2, <2>4
  <2> QED BY <2>3, <2>5 DEF Finished, Shares
<1> QED BY <1>1, Bookkeeping, TypeCorrect, PTL

=============================================================================
