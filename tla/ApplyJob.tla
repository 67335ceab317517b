------------------------------ MODULE ApplyJob ------------------------------
(***************************************************************************)
(* The intent path from a branch merge to Proxmox: the merge validator,    *)
(* the post_merge receiver that creates a ProxmoxApplyJob row and enqueues *)
(* the RQ job, the job's loop over the branch's ChangeDiffs, and the       *)
(* cancel view that edits the same row from the web.                       *)
(*                                                                         *)
(* One merge of one branch is followed.  Per-diff results are collected in *)
(* the job's memory and reach the row in one save at the end; the cancel   *)
(* view reads the row and saves three of its columns without a lock.       *)
(***************************************************************************)
EXTENDS Naturals, FiniteSets

CONSTANTS Diffs,      \* ChangeDiffs of the branch, one per guest or firewall object
          OpOf,       \* what classify_diff makes of each one
          Keys,       \* keys of per_vm_results
          KeysOf,     \* the keys a diff's entry may be written under
          NoDiff,
          Cancels,    \* POSTs to the cancel view
          MaxFaults   \* bound on enqueue failures, aborts and worker deaths

Ops == {"create", "update", "delete", "firewall"}

ASSUME ApplyJobAssumption ==
    /\ OpOf \in [Diffs -> Ops]
    /\ KeysOf \in [Diffs -> SUBSET Keys]
    /\ \A d \in Diffs : KeysOf[d] # {}
    /\ NoDiff \notin Diffs
    /\ MaxFaults \in Nat

(* A diff goes by its ChangeDiff identifier until its payload is built, then *)
(* by its VMID, or else by the primary key of its VM; a deletion computes    *)
(* the key again from the snapshot.  VMIDs repeat between clusters and may   *)
(* equal a primary key, so two diffs can have a key in common.               *)
Shares(d, e) == KeysOf[d] \cap KeysOf[e] # {}

VARIABLES
    settings,  \* master flag, the branch's opt-in and destroy confirmation
    perms,     \* intent permissions of the user who merges
    branch,    \* "open", "permitted", "merged", "deleted"
    row,       \* the ProxmoxApplyJob row
    run,       \* the RQ job
    cancel,    \* the cancel POSTs in progress
    sent,      \* diffs whose POST /intent/apply left the plugin
    applied,   \* diffs the backend reported as applied
    requests,  \* diffs that have a DeletionRequest row
    stamped,   \* objects marked applied (guest intent) or active (firewall)
    faults

vars == <<settings, perms, branch, row, run, cancel, sent, applied, requests,
          stamped, faults>>

VmDiffs == {d \in Diffs : OpOf[d] # "firewall"}
FirewallDiffs == Diffs \ VmDiffs

Settings == [master : BOOLEAN, optIn : BOOLEAN, destroy : BOOLEAN]
SuccessStatus == {"applied", "delete-pending-approval"}
Status == SuccessStatus \cup {"failed", "skipped"}
Results == [Keys -> Status \cup {"none"}]
NoResults == [k \in Keys |-> "none"]

JobState == {"queued", "running", "succeeded", "failed", "partial"}
Row == [state : JobState \cup {"absent"}, results : Results, cancelled : BOOLEAN]
Run == [pc : {"none", "enqueue", "queued", "loop", "sent", "recorded", "done", "dead"},
        firewall : BOOLEAN,            \* the second loop
        todo : SUBSET Diffs,           \* ChangeDiffs of the loop not yet begun
        seen : SUBSET Diffs,           \* ChangeDiffs the two queries returned
        at : Diffs \cup {NoDiff},      \* the one being applied
        destroy : BOOLEAN,             \* destroy_confirmed as read by run()
        perms : SUBSET Ops,            \* permissions cached on the actor
        asked : BOOLEAN,               \* has_perm was called, the cache is filled
        results : Results]
Cancel == [pc : {"new", "loaded", "done"}, results : Results]

(* The type invariant; while a call is out the loop stands at a diff.       *)
TypeOK ==
    /\ settings \in Settings
    /\ perms \in SUBSET Ops
    /\ branch \in {"open", "permitted", "merged", "deleted"}
    /\ row \in Row
    /\ run \in Run
    /\ run.pc \in {"sent", "recorded"} => run.at \in Diffs
    /\ cancel \in [Cancels -> Cancel]
    /\ sent \in SUBSET Diffs
    /\ applied \in SUBSET Diffs
    /\ requests \in SUBSET Diffs
    /\ stamped \in SUBSET Diffs
    /\ faults \in 0..MaxFaults

Init ==
    /\ settings \in Settings
    /\ perms \in SUBSET {OpOf[d] : d \in VmDiffs}
    /\ branch = "open"
    /\ row = [state |-> "absent", results |-> NoResults, cancelled |-> FALSE]
    /\ run = [pc |-> "none", firewall |-> FALSE, todo |-> {}, seen |-> {},
              at |-> NoDiff, destroy |-> FALSE, perms |-> {}, asked |-> FALSE,
              results |-> NoResults]
    /\ cancel = [c \in Cancels |-> [pc |-> "new", results |-> NoResults]]
    /\ sent = {} /\ applied = {} /\ requests = {} /\ stamped = {}
    /\ faults = 0

outside == <<sent, applied, requests, stamped>>

Fault == faults < MaxFaults /\ faults' = faults + 1

-----------------------------------------------------------------------------
(* Administrators.                                                          *)

(* The master flag, in the plugin's settings.                               *)
SaveSettings(master) ==
    /\ master # settings.master
    /\ settings' = [settings EXCEPT !.master = master]
    /\ UNCHANGED <<perms, branch, row, run, cancel, outside, faults>>

(* The branch's own opt-in and destroy confirmation.                        *)
SaveBranchIntent(optIn, destroy) ==
    /\ <<optIn, destroy>> # <<settings.optIn, settings.destroy>>
    /\ settings' = [settings EXCEPT !.optIn = optIn, !.destroy = destroy]
    /\ UNCHANGED <<perms, branch, row, run, cancel, outside, faults>>

RevokePermissions(p) ==
    /\ p \subseteq perms /\ p # perms
    /\ perms' = p
    /\ UNCHANGED <<settings, branch, row, run, cancel, outside, faults>>

(* The ChangeDiffs of a deleted branch go with it; the apply row stays.     *)
DeleteBranch ==
    /\ branch = "merged"
    /\ branch' = "deleted"
    /\ UNCHANGED <<settings, perms, row, run, cancel, outside, faults>>

-----------------------------------------------------------------------------
(* From the merge request to the queue.                                     *)

(* netbox-branching asks the validator just before it merges.  Out of the   *)
(* intent path it permits; in it, a delete needs the destroy confirmation   *)
(* and proxbox-api may refuse the plan (no step).                           *)
validate_proxmox_intent ==
    /\ branch = "open"
    /\ settings.master /\ settings.optIn /\ (\E d \in Diffs : OpOf[d] = "delete")
          => settings.destroy
    /\ branch' = "permitted"
    /\ UNCHANGED <<settings, perms, row, run, cancel, outside, faults>>

(* The receiver's three early returns.  Only guest diffs are counted.       *)
Eligible == settings.master /\ settings.optIn /\ VmDiffs # {}

(* The merge commits and post_merge fires; an eligible branch gets a queued *)
(* row, whose RQ job is enqueued next.                                      *)
handle_branch_merged ==
    /\ branch = "permitted"
    /\ branch' = "merged"
    /\ IF Eligible
       THEN /\ row' = [row EXCEPT !.state = "queued"]
            /\ run' = [run EXCEPT !.pc = "enqueue"]
       ELSE UNCHANGED <<row, run>>
    /\ UNCHANGED <<settings, perms, cancel, outside, faults>>

enqueue ==
    /\ run.pc = "enqueue"
    /\ run' = [run EXCEPT !.pc = "queued"]
    /\ UNCHANGED <<settings, perms, branch, row, cancel, outside, faults>>

(* The queue is unreachable: the receiver logs the exception and returns,   *)
(* leaving a queued row that no job will ever run.                          *)
EnqueueFails ==
    /\ run.pc = "enqueue"
    /\ Fault
    /\ run' = [run EXCEPT !.pc = "none"]
    /\ UNCHANGED <<settings, perms, branch, row, cancel, outside>>

-----------------------------------------------------------------------------
(* The RQ job.                                                              *)

(* run() marks the row running whatever its state, and reads the destroy    *)
(* confirmation and the guest diffs once.  Neither the master flag nor the  *)
(* opt-in is read again.                                                    *)
Start ==
    /\ run.pc = "queued"
    /\ row' = [row EXCEPT !.state = "running"]
    /\ LET found == IF branch = "merged" THEN VmDiffs ELSE {}
       IN  run' = [run EXCEPT !.pc = "loop", !.todo = found, !.seen = found,
                              !.destroy = settings.destroy /\ branch = "merged"]
    /\ UNCHANGED <<settings, perms, branch, cancel, outside, faults>>

(* has_perm reads the actor's permissions once and caches them.             *)
Granted == IF run.asked THEN run.perms ELSE perms

(* The loop takes up one more ChangeDiff.                                   *)
NextDiff(d) == run.pc = "loop" /\ d \in run.todo

(* The entry the loop writes for the diff replaces whatever its key held.   *)
Report(d, status) == {[run.results EXCEPT ![key] = status] : key \in KeysOf[d]}

(* A diff settled without a call: the guest cannot be resolved or its       *)
(* payload cannot be built.                                                 *)
FailLocally(d) ==
    /\ NextDiff(d)
    /\ \E results \in Report(d, "failed") :
          run' = [run EXCEPT !.todo = @ \ {d}, !.results = results]
    /\ UNCHANGED <<settings, perms, branch, row, cancel, outside, faults>>

(* An unconfirmed delete, an update without a change, or a firewall object  *)
(* the backend cannot write: skipped before any permission is asked.        *)
SkipUnneeded(d) ==
    /\ NextDiff(d)
    /\ \/ OpOf[d] = "delete" /\ ~run.destroy
       \/ OpOf[d] \in {"update", "firewall"}
    /\ \E results \in Report(d, "skipped") :
          run' = [run EXCEPT !.todo = @ \ {d}, !.results = results]
    /\ UNCHANGED <<settings, perms, branch, row, cancel, outside, faults>>

SkipDenied(d) ==
    /\ NextDiff(d)
    /\ OpOf[d] # "firewall" /\ OpOf[d] \notin Granted
    /\ OpOf[d] = "delete" => run.destroy
    /\ \E results \in Report(d, "skipped") :
          run' = [run EXCEPT !.todo = @ \ {d}, !.results = results,
                             !.perms = Granted, !.asked = TRUE]
    /\ UNCHANGED <<settings, perms, branch, row, cancel, outside, faults>>

(* POST /intent/apply.  A firewall diff needs no permission.                *)
_call_apply_endpoint(d) ==
    /\ NextDiff(d)
    /\ OpOf[d] # "delete"
    /\ OpOf[d] = "firewall" \/ OpOf[d] \in Granted
    /\ sent' = sent \cup {d}
    /\ run' = [run EXCEPT !.pc = "sent", !.todo = @ \ {d}, !.at = d,
                          !.perms = IF OpOf[d] = "firewall" THEN @ ELSE Granted,
                          !.asked = @ \/ OpOf[d] # "firewall"]
    /\ UNCHANGED <<settings, perms, branch, row, cancel, applied, requests, stamped,
                   faults>>

(* A reported success is stamped on the guest, best effort; for a firewall  *)
(* object the save may raise, and the entry becomes a failure.              *)
AnswerApplied(status) ==
    /\ run.pc = "sent"
    /\ status \in {"applied"} \cup (IF OpOf[run.at] = "firewall" THEN {"failed"} ELSE {})
    /\ applied' = applied \cup {run.at}
    /\ stamped' \in {stamped, stamped \cup {run.at}}
    /\ status = "failed" => stamped' = stamped
    /\ \E results \in Report(run.at, status) :
          run' = [run EXCEPT !.pc = "loop", !.at = NoDiff, !.results = results]
    /\ UNCHANGED <<settings, perms, branch, row, cancel, sent, requests, faults>>

(* Any other answer, and any exception of the call: timeouts and lost       *)
(* answers included, so the backend may have applied the diff.              *)
AnswerOther(status) ==
    /\ run.pc = "sent"
    /\ \E results \in Report(run.at, status) :
          run' = [run EXCEPT !.pc = "loop", !.at = NoDiff, !.results = results]
    /\ UNCHANGED <<settings, perms, branch, row, cancel, outside, faults>>

(* A confirmed, permitted delete whose snapshot names no VMID, node or name *)
(* is a failure ...                                                         *)
_deletion_identity(d) ==
    /\ NextDiff(d)
    /\ OpOf[d] = "delete" /\ run.destroy /\ "delete" \in Granted
    /\ \E results \in Report(d, "failed") :
          run' = [run EXCEPT !.todo = @ \ {d}, !.results = results,
                             !.perms = Granted, !.asked = TRUE]
    /\ UNCHANGED <<settings, perms, branch, row, cancel, outside, faults>>

(* ... any other becomes a DeletionRequest row, and then a pending entry    *)
(* unless the tagging call raises.                                          *)
RequestDeletion(d) ==
    /\ NextDiff(d)
    /\ OpOf[d] = "delete" /\ run.destroy /\ "delete" \in Granted
    /\ requests' = requests \cup {d}
    /\ run' = [run EXCEPT !.pc = "recorded", !.todo = @ \ {d}, !.at = d,
                          !.perms = Granted, !.asked = TRUE]
    /\ UNCHANGED <<settings, perms, branch, row, cancel, sent, applied, stamped,
                   faults>>

DeletionReported(status) ==
    /\ run.pc = "recorded"
    /\ \E results \in Report(run.at, status) :
          run' = [run EXCEPT !.pc = "loop", !.at = NoDiff, !.results = results]
    /\ UNCHANGED <<settings, perms, branch, row, cancel, outside, faults>>

(* The second loop; a query that fails for one model drops its rows.        *)
firewall_changediffs(found) ==
    /\ run.pc = "loop" /\ ~run.firewall /\ run.todo = {}
    /\ branch # "merged" => found = {}
    /\ run' = [run EXCEPT !.firewall = TRUE, !.todo = found, !.seen = @ \cup found]
    /\ UNCHANGED <<settings, perms, branch, row, cancel, outside, faults>>

(* Mutant of _state_from_results: a skipped diff counts as a success.       *)
_state_from_results_SkippedIsFine(results) ==
    LET seen == {results[k] : k \in Keys} \ {"none"}
    IN  CASE seen \subseteq SuccessStatus \cup {"skipped"} -> "succeeded"
          [] seen = {"failed"} -> "failed"
          [] OTHER -> "partial"

(* Mutant of _state_from_results: a verdict the model does not know.        *)
_state_from_results_Unknown(results) ==
    IF {results[k] : k \in Keys} \subseteq {"none"} THEN "empty" ELSE "partial"

(* Mutant of _state_from_results: one failure fails the whole run.          *)
_state_from_results_AnyFails(results) ==
    LET seen == {results[k] : k \in Keys} \ {"none"}
    IN  CASE seen \subseteq SuccessStatus -> "succeeded"
          [] "failed" \in seen -> "failed"
          [] OTHER -> "partial"

(* The verdict on the collected entries; no entry at all is a success.      *)
_state_from_results(results) ==
    LET seen == {results[k] : k \in Keys} \ {"none"}
    IN  CASE seen \subseteq SuccessStatus -> "succeeded"
          [] seen = {"failed"} -> "failed"
          [] OTHER -> "partial"

(* The final save replaces results and state, whatever the row holds.       *)
Finish ==
    /\ run.pc = "loop" /\ run.firewall /\ run.todo = {}
    /\ row' = [state |-> _state_from_results(run.results), results |-> run.results,
               cancelled |-> FALSE]
    /\ run' = [run EXCEPT !.pc = "done"]
    /\ UNCHANGED <<settings, perms, branch, cancel, outside, faults>>

(* Mutant of Abort: the outer handler logs and leaves the row running.      *)
Abort_NoSave ==
    /\ run.pc = "loop"
    /\ Fault
    /\ run' = [run EXCEPT !.pc = "done"]
    /\ UNCHANGED <<settings, perms, branch, row, cancel, outside>>

(* The outer except, reached from between two diffs (a failed query, the    *)
(* RQ timeout): the row is failed and the collected results are dropped.    *)
Abort ==
    /\ run.pc = "loop"
    /\ Fault
    /\ row' = [row EXCEPT !.state = "failed"]
    /\ run' = [run EXCEPT !.pc = "done"]
    /\ UNCHANGED <<settings, perms, branch, cancel, outside>>

(* The worker is killed; nothing restarts the job.                          *)
WorkerDies ==
    /\ run.pc \in {"queued", "loop", "sent", "recorded"}
    /\ Fault
    /\ run' = [run EXCEPT !.pc = "dead"]
    /\ UNCHANGED <<settings, perms, branch, row, cancel, outside>>

-----------------------------------------------------------------------------
(* The cancel view.                                                         *)

CancelLoad(c) ==
    /\ cancel[c].pc = "new"
    /\ row.state \in {"queued", "running"}
    /\ cancel' = [cancel EXCEPT ![c] = [pc |-> "loaded", results |-> row.results]]
    /\ UNCHANGED <<settings, perms, branch, row, run, outside, faults>>

(* save(update_fields=[state, finished_at, per_vm_results]) of the copy     *)
(* read earlier, plus the _cancelled entry.                                 *)
CancelSave(c) ==
    /\ cancel[c].pc = "loaded"
    /\ row' = [state |-> "failed", results |-> cancel[c].results, cancelled |-> TRUE]
    /\ cancel' = [cancel EXCEPT ![c].pc = "done"]
    /\ UNCHANGED <<settings, perms, branch, run, outside, faults>>

-----------------------------------------------------------------------------
Worker ==
    \/ enqueue \/ Start \/ Finish
    \/ \E d \in Diffs : \/ FailLocally(d) \/ SkipUnneeded(d) \/ SkipDenied(d)
                        \/ _call_apply_endpoint(d)
                        \/ _deletion_identity(d) \/ RequestDeletion(d)
    \/ \E s \in {"applied", "failed"} : AnswerApplied(s)
    \/ \E s \in {"failed", "skipped"} : AnswerOther(s)
    \/ \E s \in {"delete-pending-approval", "failed"} : DeletionReported(s)
    \/ \E found \in SUBSET FirewallDiffs : firewall_changediffs(found)

Next ==
    \/ \E master \in BOOLEAN : SaveSettings(master)
    \/ \E optIn, destroy \in BOOLEAN : SaveBranchIntent(optIn, destroy)
    \/ \E p \in SUBSET Ops : RevokePermissions(p)
    \/ DeleteBranch
    \/ validate_proxmox_intent \/ handle_branch_merged
    \/ Worker
    \/ EnqueueFails \/ Abort \/ WorkerDies
    \/ \E c \in Cancels : CancelLoad(c) \/ CancelSave(c)

Spec == Init /\ [][Next]_vars

(* The RQ worker keeps working; users and administrators may do nothing.    *)
FairSpec == Spec /\ WF_vars(Worker) /\ \A c \in Cancels : WF_vars(CancelSave(c))

-----------------------------------------------------------------------------
(* Properties.                                                              *)

Settled == row.state \in {"succeeded", "failed", "partial"}

(* Proxmox holds the diff, or one whose entry may stand for it.             *)
Accomplished(d) == \E e \in run.seen : Shares(d, e) /\ e \in applied \cup requests

(* A row that reads succeeded means what it says: every diff the run found  *)
(* was reported applied by proxbox-api or became a deletion request, in     *)
(* whatever order the entries were written and whatever a concurrent cancel *)
(* saved.  Only a diff with the result key of one that was may be missing,  *)
(* since the later entry of the two replaces the earlier.                   *)
SucceededMeansDone ==
    row.state = "succeeded" => \A d \in run.seen : Accomplished(d)

(* A run that ended with its own failed verdict has marked no guest as      *)
(* applied and no firewall object as active, but for one whose entry the    *)
(* failure of another diff with its key has replaced.                       *)
FailedMeansUnstamped ==
    row.state = "failed" /\ ~row.cancelled /\ row.results # NoResults
        => \A d \in stamped : \E e \in run.seen \ {d} : Shares(d, e)

(* docs/design/netbox-to-proxmox-intent.md: "the apply job re-checks at     *)
(* runtime" that the master flag is set.  A flag switched off while the job *)
(* waits in the queue, and left off, keeps the job from sending anything.   *)
MasterFlagRechecked == [](run.pc = "queued" /\ []~settings.master => [](sent = {}))

(* The strengthening the proofs rest on.  The entries collected so far are  *)
(* founded: under a key of every diff the loops have finished there is one, *)
(* a success entry stands for a diff of that key that was applied or        *)
(* requested, and a stamp for an applied entry or one replaced since.       *)
Finished == run.seen \ (run.todo \cup {run.at})

Founded ==
    /\ run.todo \subseteq run.seen
    /\ run.at # NoDiff => run.at \in run.seen \ run.todo
    /\ run.at # NoDiff => run.pc \in {"sent", "recorded", "dead"}
    /\ run.pc = "recorded" => run.at \in requests
    /\ ~run.firewall => run.seen \subseteq VmDiffs
    /\ \A d \in Finished : \E k \in KeysOf[d] : run.results[k] # "none"
    /\ \A k \in Keys : run.results[k] \in SuccessStatus =>
          \E e \in Finished : k \in KeysOf[e] /\ e \in applied \cup requests
    /\ stamped \subseteq Finished
    /\ \A d \in stamped : \E k \in KeysOf[d] :
          run.results[k] = "applied" \/ \E e \in Finished \ {d} : k \in KeysOf[e]

(* Only a finished run leaves results or a success on the row, and what a   *)
(* cancel read before that carries none.                                    *)
RowFromRun ==
    /\ branch \in {"open", "permitted"} => run.pc = "none"
    /\ run.pc \in {"none", "enqueue", "queued"} => run.seen = {}
    /\ row.results # NoResults =>
          /\ run.pc = "done" /\ ~row.cancelled
          /\ row.results = run.results
          /\ row.state = _state_from_results(run.results)
    /\ row.state = "succeeded" =>
          /\ run.pc = "done"
          /\ \A d \in run.seen : Accomplished(d)
    /\ \A c \in Cancels : cancel[c].results = NoResults

Inductive == Founded /\ RowFromRun

(* A row that was queued does not stay queued or running forever, unless    *)
(* the enqueue failed or the worker was killed.                             *)
RowSettles ==
    row.state \in {"queued", "running"} ~> Settled \/ run.pc \in {"none", "dead"}

=============================================================================
