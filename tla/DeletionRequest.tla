-------------------------- MODULE DeletionRequest --------------------------
(***************************************************************************)
(* The safe-delete workflow: a branch merge asks for the deletion of a     *)
(* guest, the apply job records a DeletionRequest row, a second user       *)
(* approves or rejects it in the UI, a TTL sweep rejects the stale ones,   *)
(* and one executor job per approval POSTs the DELETE to proxbox-api.      *)
(*                                                                         *)
(* No writer of a row takes a lock: each one reads the row, tests what it  *)
(* read, and saves a few columns later.  Every such handler is therefore   *)
(* split at its reads and writes of the database, and a handler that is    *)
(* refused (403, form errors) changes nothing and is not a step.           *)
(***************************************************************************)
EXTENDS Naturals, FiniteSets

CONSTANTS Requests,     \* DeletionRequest rows, one per DELETE diff of a branch
          Users,        \* NetBox users
          Authorizers,  \* users holding authorize_deletion_request
          Requesters,   \* users holding intent_delete_vm / intent_delete_lxc
          Posts,        \* approve and reject POSTs; the executor job that an
                        \* approve POST enqueues is named after it
          NoUser,       \* a NULL user foreign key
          NoRequest,
          MaxCrashes    \* bound on deaths of web and RQ workers

ASSUME DeletionRequestAssumption ==
    /\ Authorizers \subseteq Users
    /\ Requesters \subseteq Users
    /\ NoUser \notin Users
    /\ NoRequest \notin Requests
    /\ MaxCrashes \in Nat

VARIABLES
    settings,  \* plugin settings and the branch's destroy confirmation
    users,     \* user accounts that exist
    asked,     \* who merged the branch that deletes the guest
    row,       \* the DeletionRequest table
    tagged,    \* guests carrying proxbox-pending-deletion
    post,      \* the approve/reject handlers in progress
    job,       \* the executor jobs
    sweep,     \* rows the running TTL sweep has loaded and not yet saved
    crashes

vars == <<settings, users, asked, row, tagged, post, job, sweep, crashes>>

(* DeletionRequest.State; "absent" is a row that is not in the table yet. *)
State == {"pending", "approved", "rejected", "executing", "succeeded", "failed"}
RowState == State \cup {"absent"}
MaybeUser == Users \cup {NoUser}

Settings == [master : BOOLEAN, destroyConfirmed : BOOLEAN, selfApprove : BOOLEAN]
Row  == [state : RowState, requested_by : MaybeUser, authorizer : MaybeUser]
Post == [pc : {"new", "checked", "cleaned", "saved", "done", "dead"},
         op : {"none", "approve", "reject"},
         user : MaybeUser, req : Requests \cup {NoRequest},
         requested_by : MaybeUser,   \* as read into the handler's instance
         selfOk : BOOLEAN]           \* ghost: the setting when full_clean() passed
Job  == [pc : {"none", "queued", "loaded", "executing", "posted", "done", "dead"},
         requested_by : MaybeUser, authorizer : MaybeUser,  \* as read by run()
         sent : BOOLEAN,                                    \* the DELETE left
         answer : {"none", "ok", "error"}]

(* The type invariant. *)
TypeOK ==
    /\ settings \in Settings
    /\ users \in SUBSET Users
    /\ asked \in [Requests -> MaybeUser]
    /\ row \in [Requests -> Row]
    /\ tagged \in SUBSET Requests
    /\ post \in [Posts -> Post]
    /\ job \in [Posts -> Job]
    /\ sweep \in SUBSET Requests
    /\ crashes \in 0..MaxCrashes

Init ==
    /\ settings \in Settings
    /\ users = Users
    /\ asked = [r \in Requests |-> NoUser]
    /\ row = [r \in Requests |->
                 [state |-> "absent", requested_by |-> NoUser, authorizer |-> NoUser]]
    /\ tagged = {}
    /\ post = [p \in Posts |->
                 [pc |-> "new", op |-> "none", user |-> NoUser, req |-> NoRequest,
                  requested_by |-> NoUser, selfOk |-> FALSE]]
    /\ job = [p \in Posts |->
                 [pc |-> "none", requested_by |-> NoUser, authorizer |-> NoUser,
                  sent |-> FALSE, answer |-> "none"]]
    /\ sweep = {}
    /\ crashes = 0

(* The rule behind the view's check, DeletionRequest.clean() and the       *)
(* executor's own check: a NULL on either side never matches.              *)
SelfApprovalBlocked(authorizer, requestedBy) ==
    authorizer # NoUser /\ authorizer = requestedBy /\ ~settings.selfApprove

SetState(r, s) == row' = [row EXCEPT ![r].state = s]

-----------------------------------------------------------------------------
(* Administrators: settings, the branch's intent card, user accounts.      *)

SaveSettings(s) ==
    /\ s # settings
    /\ settings' = s
    /\ UNCHANGED <<users, asked, row, tagged, post, job, sweep, crashes>>

(* Deleting a user NULLs both foreign keys (on_delete=SET_NULL).            *)
DeleteUser(u) ==
    /\ u \in users
    /\ users' = users \ {u}
    /\ row' = [r \in Requests |->
                 [row[r] EXCEPT
                    !.requested_by = IF @ = u THEN NoUser ELSE @,
                    !.authorizer   = IF @ = u THEN NoUser ELSE @]]
    /\ UNCHANGED <<settings, asked, tagged, post, job, sweep, crashes>>

-----------------------------------------------------------------------------
(* Asking for the deletion.                                                 *)

(* The post_merge receiver queues an apply job for an opted-in branch while *)
(* the master flag is on.                                                   *)
handle_branch_merged(r, u) ==
    /\ asked[r] = NoUser
    /\ u \in users
    /\ settings.master
    /\ asked' = [asked EXCEPT ![r] = u]
    /\ UNCHANGED <<settings, users, row, tagged, post, job, sweep, crashes>>

(* Mutant of CreateRequest: the requester is not recorded on the row.       *)
CreateRequest_NoRequester(r) ==
    /\ row[r].state = "absent"
    /\ settings.destroyConfirmed
    /\ asked[r] \in users \cap Requesters
    /\ row' = [row EXCEPT ![r].state = "pending"]
    /\ tagged' \in {tagged, tagged \cup {r}}
    /\ UNCHANGED <<settings, users, asked, post, job, sweep, crashes>>

(* The DELETE branch of the apply job: destroy confirmation and permission  *)
(* are tested here, the master flag is not; tagging is best effort.         *)
CreateRequest(r) ==
    /\ row[r].state = "absent"
    /\ settings.destroyConfirmed
    /\ asked[r] \in users \cap Requesters
    /\ row' = [row EXCEPT ![r] = [state |-> "pending", requested_by |-> asked[r],
                                  authorizer |-> NoUser]]
    /\ tagged' \in {tagged, tagged \cup {r}}
    /\ UNCHANGED <<settings, users, asked, post, job, sweep, crashes>>

-----------------------------------------------------------------------------
(* The approve and reject views.                                            *)

(* Mutant of Load: the view forgets to refuse a row that is not pending.    *)
Load_AnyState(p, op, u, r) ==
    /\ post[p].pc = "new"
    /\ u \in users \cap Authorizers
    /\ row[r].state # "absent"
    /\ post' = [post EXCEPT ![p] =
                  [@ EXCEPT !.pc = "checked", !.op = op, !.user = u, !.req = r,
                            !.requested_by = row[r].requested_by]]
    /\ UNCHANGED <<settings, users, asked, row, tagged, job, sweep, crashes>>

(* Both views load the row and refuse any state but pending.                *)
Load(p, op, u, r) ==
    /\ post[p].pc = "new"
    /\ u \in users \cap Authorizers
    /\ row[r].state = "pending"
    /\ post' = [post EXCEPT ![p] =
                  [@ EXCEPT !.pc = "checked", !.op = op, !.user = u, !.req = r,
                            !.requested_by = row[r].requested_by]]
    /\ UNCHANGED <<settings, users, asked, row, tagged, job, sweep, crashes>>

ApproveCheck(p, u, r) ==
    /\ ~SelfApprovalBlocked(u, row[r].requested_by)
    /\ Load(p, "approve", u, r)

RejectCheck(p, u, r) == Load(p, "reject", u, r)

(* Mutant of CleanPasses: the instance is not cleaned before the save.      *)
CleanPasses_NoClean(p) == post[p].user \in users

(* full_clean() looks both users of the loaded instance up again and        *)
(* repeats the self-approval test with the setting as it is now.            *)
CleanPasses(p) ==
    /\ post[p].user \in users
    /\ post[p].requested_by \in users \cup {NoUser}
    /\ ~SelfApprovalBlocked(post[p].user, post[p].requested_by)

ApproveClean(p) ==
    /\ post[p].pc = "checked" /\ post[p].op = "approve"
    /\ CleanPasses(p)
    /\ post' = [post EXCEPT ![p] =
                  [@ EXCEPT !.pc = "cleaned", !.selfOk = settings.selfApprove]]
    /\ UNCHANGED <<settings, users, asked, row, tagged, job, sweep, crashes>>

(* save(update_fields=[authorizer, state, approved_at]): the state column   *)
(* is written whatever it holds by now, and the setting is not read again.  *)
ApproveSave(p) ==
    /\ post[p].pc = "cleaned"
    /\ post[p].user \in users
    /\ row' = [row EXCEPT ![post[p].req] =
                 [@ EXCEPT !.state = "approved", !.authorizer = post[p].user]]
    /\ post' = [post EXCEPT ![p].pc = "saved"]
    /\ UNCHANGED <<settings, users, asked, tagged, job, sweep, crashes>>

(* A ValidationError of full_clean(), or an IntegrityError of the save when *)
(* the authorizer's account went in between: the request ends in a 500.     *)
ApproveAbort(p) ==
    /\ \/ post[p].pc = "checked" /\ post[p].op = "approve" /\ ~CleanPasses(p)
       \/ post[p].pc = "cleaned" /\ post[p].user \notin users
    /\ post' = [post EXCEPT ![p].pc = "dead"]
    /\ UNCHANGED <<settings, users, asked, row, tagged, job, sweep, crashes>>

(* DeletionExecutorJob.enqueue, after the row is saved.                     *)
Enqueue(p) ==
    /\ post[p].pc = "saved"
    /\ post' = [post EXCEPT ![p].pc = "done"]
    /\ job' = [job EXCEPT ![p].pc = "queued"]
    /\ UNCHANGED <<settings, users, asked, row, tagged, sweep, crashes>>

RejectSave(p) ==
    /\ post[p].pc = "checked" /\ post[p].op = "reject"
    /\ IF post[p].user \in users
       THEN /\ row' = [row EXCEPT ![post[p].req] =
                        [@ EXCEPT !.state = "rejected", !.authorizer = post[p].user]]
            /\ post' = [post EXCEPT ![p].pc = "done"]
       ELSE /\ post' = [post EXCEPT ![p].pc = "dead"]
            /\ UNCHANGED row
    /\ UNCHANGED <<settings, users, asked, tagged, job, sweep, crashes>>

-----------------------------------------------------------------------------
(* auto_reject_expired_deletion_requests(): the queryset is loaded whole,   *)
(* then each row is saved and untagged (best effort).                       *)

SweepLoad(expired) ==
    /\ sweep = {} /\ expired # {}
    /\ \A r \in expired : row[r].state = "pending"
    /\ sweep' = expired
    /\ UNCHANGED <<settings, users, asked, row, tagged, post, job, crashes>>

SweepSave(r) ==
    /\ r \in sweep
    /\ sweep' = sweep \ {r}
    /\ SetState(r, "rejected")
    /\ tagged' \in {tagged, tagged \ {r}}
    /\ UNCHANGED <<settings, users, asked, post, job, crashes>>

-----------------------------------------------------------------------------
(* DeletionExecutorJob.run                                                  *)

SetJob(p, pc) == job' = [job EXCEPT ![p].pc = pc]

(* Load the row; any state but approved ends the job without a write.       *)
ExecLoad(p) ==
    LET r == post[p].req IN
    /\ job[p].pc = "queued"
    /\ job' = [job EXCEPT ![p] =
                 IF row[r].state = "approved"
                 THEN [@ EXCEPT !.pc = "loaded",
                                !.requested_by = row[r].requested_by,
                                !.authorizer = row[r].authorizer]
                 ELSE [@ EXCEPT !.pc = "done"]]
    /\ UNCHANGED <<settings, users, asked, row, tagged, post, sweep, crashes>>

(* The third self-approval check, then the claim by saving EXECUTING.       *)
ExecMark(p) ==
    /\ job[p].pc = "loaded"
    /\ IF SelfApprovalBlocked(job[p].authorizer, job[p].requested_by)
       THEN SetState(post[p].req, "failed") /\ SetJob(p, "done")
       ELSE SetState(post[p].req, "executing") /\ SetJob(p, "executing")
    /\ UNCHANGED <<settings, users, asked, tagged, post, sweep, crashes>>

(* Mutant of ExecFail: the exception is logged and not saved.               *)
ExecFail_LogOnly(p) ==
    /\ job[p].pc = "executing"
    /\ SetJob(p, "done")
    /\ UNCHANGED <<settings, users, asked, row, tagged, post, sweep, crashes>>

(* No backend configured, no URL, or the authorizer row is gone: FAILED.    *)
ExecFail(p) ==
    /\ job[p].pc = "executing"
    /\ SetState(post[p].req, "failed")
    /\ SetJob(p, "done")
    /\ UNCHANGED <<settings, users, asked, tagged, post, sweep, crashes>>

(* POST /intent/deletion-requests/<pk>/execute leaves for proxbox-api.      *)
ExecPost(p) ==
    /\ job[p].pc = "executing"
    /\ job[p].authorizer \in users \cup {NoUser}
    /\ job' = [job EXCEPT ![p] = [@ EXCEPT !.pc = "posted", !.sent = TRUE]]
    /\ UNCHANGED <<settings, users, asked, row, tagged, post, sweep, crashes>>

(* Mutants of ExecAnswer: the status code is not looked at; the row is      *)
(* given a state outside DeletionRequest.State.                             *)
ExecAnswer_AnyStatus(p, answer) ==
    /\ job[p].pc = "posted"
    /\ SetState(post[p].req, "succeeded")
    /\ job' = [job EXCEPT ![p] = [@ EXCEPT !.pc = "done", !.answer = answer]]
    /\ UNCHANGED <<settings, users, asked, tagged, post, sweep, crashes>>

ExecAnswer_UnknownState(p, answer) ==
    /\ job[p].pc = "posted"
    /\ SetState(post[p].req, IF answer = "ok" THEN "executed" ELSE "failed")
    /\ job' = [job EXCEPT ![p] = [@ EXCEPT !.pc = "done", !.answer = answer]]
    /\ UNCHANGED <<settings, users, asked, tagged, post, sweep, crashes>>

(* A 2xx saves SUCCEEDED; any other status, timeout or exception FAILED.    *)
ExecAnswer(p, answer) ==
    /\ job[p].pc = "posted"
    /\ SetState(post[p].req, IF answer = "ok" THEN "succeeded" ELSE "failed")
    /\ job' = [job EXCEPT ![p] = [@ EXCEPT !.pc = "done", !.answer = answer]]
    /\ UNCHANGED <<settings, users, asked, tagged, post, sweep, crashes>>

-----------------------------------------------------------------------------
(* A web worker or an RQ worker dies (or the enqueue raises): whatever it   *)
(* had not written is lost, and nothing resumes it.                         *)

Crash == crashes < MaxCrashes /\ crashes' = crashes + 1

PostCrash(p) ==
    /\ Crash
    /\ post[p].pc \in {"checked", "cleaned", "saved"}
    /\ post' = [post EXCEPT ![p].pc = IF @ = "saved" THEN "done" ELSE "dead"]
    /\ UNCHANGED <<settings, users, asked, row, tagged, job, sweep>>

JobCrash(p) ==
    /\ Crash
    /\ job[p].pc \in {"loaded", "executing", "posted"}
    /\ SetJob(p, "dead")
    /\ UNCHANGED <<settings, users, asked, row, tagged, post, sweep>>

SweepCrash ==
    /\ Crash
    /\ sweep # {}
    /\ sweep' = {}
    /\ UNCHANGED <<settings, users, asked, row, tagged, post, job>>

-----------------------------------------------------------------------------
PostStep(p) ==
    \/ ApproveClean(p) \/ ApproveSave(p) \/ ApproveAbort(p) \/ Enqueue(p)
    \/ RejectSave(p)

JobStep(p) ==
    \/ ExecLoad(p) \/ ExecMark(p) \/ ExecFail(p) \/ ExecPost(p)
    \/ \E answer \in {"ok", "error"} : ExecAnswer(p, answer)

Next ==
    \/ \E s \in Settings : SaveSettings(s)
    \/ \E u \in Users : DeleteUser(u)
    \/ \E r \in Requests, u \in Users : handle_branch_merged(r, u)
    \/ \E r \in Requests : CreateRequest(r)
    \/ \E p \in Posts, u \in Users, r \in Requests :
          ApproveCheck(p, u, r) \/ RejectCheck(p, u, r)
    \/ \E p \in Posts : PostStep(p) \/ JobStep(p) \/ PostCrash(p) \/ JobCrash(p)
    \/ \E expired \in SUBSET Requests : SweepLoad(expired)
    \/ \E r \in Requests : SweepSave(r)
    \/ SweepCrash

Spec == Init /\ [][Next]_vars

(* A handler that has started is scheduled until it ends, the RQ worker     *)
(* takes what is queued, and the sweep's loop runs on.  Nothing forces a    *)
(* user, an administrator or the sweep's own schedule.                      *)
Fairness ==
    /\ \A p \in Posts : WF_vars(PostStep(p)) /\ WF_vars(JobStep(p))
    /\ \A r \in Requests : WF_vars(SweepSave(r))

FairSpec == Spec /\ Fairness

-----------------------------------------------------------------------------
(* Properties.                                                              *)

Approved(p) == post[p].op = "approve" /\ post[p].pc \in {"saved", "done"}
Cleared(p)  == Approved(p) \/ post[p].pc = "cleaned"
JobLive(p)  == job[p].pc \in {"queued", "loaded", "executing", "posted"}

(* Four eyes: every DELETE that left for proxbox-api was approved by a user *)
(* other than the one who asked for it, or self-approval was allowed when   *)
(* that approval was cleaned for its save.  The approver is the one whose   *)
(* POST enqueued this very job, so no approval is spent twice.              *)
FourEyes ==
    \A p \in Posts : job[p].sent =>
        /\ Approved(p)
        /\ post[p].user \in Authorizers
        /\ post[p].user # asked[post[p].req] \/ post[p].selfOk

(* A row never says succeeded unless an executor job of that row got a 2xx, *)
(* whatever other handlers wrote to the row meanwhile.                      *)
SucceededWasAnswered ==
    \A r \in Requests : row[r].state = "succeeded" =>
        \E p \in Posts : post[p].req = r /\ job[p].answer = "ok"

(* The three facts that make FourEyes inductive.  Where a handler and its   *)
(* job stand: a job exists only for a finished approval, nothing is sent    *)
(* before the claim, and only a finished job has an answer.                 *)
HandlerShape ==
    \A p \in Posts :
        /\ post[p].pc = "new" => post[p].op = "none"
        /\ post[p].pc # "new" => post[p].req \in Requests /\ post[p].user \in Authorizers
        /\ post[p].pc \in {"cleaned", "saved"} => post[p].op = "approve"
        /\ job[p].pc # "none" => post[p].pc = "done" /\ post[p].op = "approve"
        /\ job[p].pc \in {"none", "queued", "loaded", "executing"} => ~job[p].sent
        /\ job[p].pc # "done" => job[p].answer = "none"

(* What a row, or a handler's copy of it, says of the requester: the truth, *)
(* or the requester's account is gone and can approve nothing any more.     *)
RecordedOrGone(u, r) == u = asked[r] \/ asked[r] \notin users

RequesterKnown ==
    /\ \A r \in Requests : row[r].state # "absent" =>
          asked[r] # NoUser /\ RecordedOrGone(row[r].requested_by, r)
    /\ \A p \in Posts : post[p].pc # "new" =>
          /\ row[post[p].req].state # "absent"
          /\ RecordedOrGone(post[p].requested_by, post[p].req)
    /\ \A r \in sweep : row[r].state # "absent"

ApprovalsValid ==
    \A p \in Posts : Cleared(p) =>
        post[p].user # asked[post[p].req] \/ post[p].selfOk

(* The inductive invariant behind FourEyes and SucceededWasAnswered.        *)
Inductive ==
    TypeOK /\ HandlerShape /\ RequesterKnown /\ ApprovalsValid
           /\ SucceededWasAnswered

(* A row that reached rejected, succeeded or failed, with no handler, sweep *)
(* or executor still holding an earlier copy of it, is settled.             *)
Settled(r) ==
    /\ row[r].state \in {"rejected", "succeeded", "failed"}
    /\ r \notin sweep
    /\ \A p \in Posts : post[p].req = r =>
          post[p].pc \notin {"checked", "cleaned", "saved"} /\ ~JobLive(p)

(* A settled row is final: no later request re-approves or re-executes it.  *)
SettledIsFinal ==
    [][\A r \in Requests : Settled(r) =>
          Settled(r)' /\ row'[r].state = row[r].state]_vars

(* Without crashes an approved row never stays approved or executing: its   *)
(* executor takes it to the end.                                            *)
ApprovedSettles ==
    \A r \in Requests :
        (row[r].state \in {"approved", "executing"}) ~> Settled(r)

-----------------------------------------------------------------------------
(* The workflow implements FourEyes: an approval grants when full_clean()   *)
(* has passed, the only place where the rule is tested with the users'      *)
(* accounts in hand; the grant is spent when the POST leaves.               *)

GrantOf(p) ==
    IF Cleared(p)
    THEN [st |-> IF job[p].sent THEN "spent" ELSE "valid",
          req |-> post[p].req, user |-> post[p].user]
    ELSE [st |-> "none", req |-> NoRequest, user |-> NoUser]

Promise == INSTANCE FourEyes WITH
    selfApprove <- settings.selfApprove,
    asked <- asked,
    grant <- [p \in Posts |-> GrantOf(p)]

(* Every behaviour of the workflow is one of FourEyes: a DELETE without a   *)
(* grant, on a grant already spent, or on one that the asker gave while     *)
(* self-approval was off cannot come out of any interleaving of views,      *)
(* sweeps, executors and crashes.  Two grants for one request, and so two   *)
(* DELETEs, can: FourEyes allows it, as the code does.                      *)
ImplementsFourEyes == Promise!Spec

=============================================================================
