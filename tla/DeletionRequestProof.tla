----------------------- MODULE DeletionRequestProof -----------------------
(***************************************************************************)
(* Proofs about DeletionRequest for every set of rows, users and POSTs and *)
(* every number of crashes.                                                *)
(***************************************************************************)
EXTENDS DeletionRequest, TLAPS

(* Every step keeps every variable in its type.                             *)
LEMMA TypeStep == TypeOK /\ HandlerShape /\ [Next]_vars => TypeOK'
<1> SUFFICES ASSUME TypeOK, HandlerShape, [Next]_vars PROVE TypeOK'
    OBVIOUS
<1> USE DeletionRequestAssumption DEF TypeOK
<1>r. \A r \in Requests, s \in RowState : [row[r] EXCEPT !.state = s] \in Row
    BY DEF Row
<1>p. \A p \in Posts, pc \in {"new", "checked", "cleaned", "saved", "done", "dead"} :
        [post[p] EXCEPT !.pc = pc] \in Post
    BY DEF Post
<1>j. \A p \in Posts,
         pc \in {"none", "queued", "loaded", "executing", "posted", "done", "dead"} :
        [job[p] EXCEPT !.pc = pc] \in Job
    BY DEF Job
<1>q. \A p \in Posts : /\ post[p].pc # "new" => post[p].req \in Requests
                       /\ job[p].pc # "none" => post[p].pc # "new"
    BY DEF HandlerShape
<1>1. ASSUME NEW s \in Settings, SaveSettings(s) PROVE TypeOK'
    BY <1>1 DEF SaveSettings
<1>2. ASSUME NEW u \in Users, DeleteUser(u) PROVE TypeOK'
  <2>1. ASSUME NEW r \in Requests PROVE row'[r] \in Row
      BY <1>2 DEF DeleteUser, Row, MaybeUser
  <2> QED BY <1>2, <2>1 DEF DeleteUser
<1>3. ASSUME NEW r \in Requests, NEW u \in Users, handle_branch_merged(r, u)
      PROVE TypeOK'
    BY <1>3 DEF handle_branch_merged, MaybeUser
<1>4. ASSUME NEW r \in Requests, CreateRequest(r) PROVE TypeOK'
    BY <1>4 DEF CreateRequest, Row, RowState, State, MaybeUser
<1>5. ASSUME NEW p \in Posts, NEW u \in Users, NEW r \in Requests,
             ApproveCheck(p, u, r) \/ RejectCheck(p, u, r)
      PROVE TypeOK'
  <2>1. PICK op \in {"approve", "reject"} : Load(p, op, u, r)
      BY <1>5 DEF ApproveCheck, RejectCheck
  <2>2. [post[p] EXCEPT !.pc = "checked", !.op = op, !.user = u, !.req = r,
                        !.requested_by = row[r].requested_by] \in Post
      BY DEF Post, Row, MaybeUser
  <2> QED BY <2>1, <2>2 DEF Load
<1>6. ASSUME NEW p \in Posts, PostStep(p) PROVE TypeOK'
  <2>1. CASE ApproveSave(p)
    <3>1. [row[post[p].req] EXCEPT
            !.state = "approved", !.authorizer = post[p].user] \in Row
      <4>1. post[p].req \in Requests /\ post[p].user \in MaybeUser
          BY <1>q, <2>1 DEF ApproveSave, Post
      <4>2. row[post[p].req] \in Row
          BY <4>1
      <4> QED BY <4>1, <4>2 DEF Row, RowState, State
    <3> QED BY <2>1, <3>1, <1>p DEF ApproveSave
  <2>2. CASE ApproveAbort(p)
      BY <2>2, <1>p DEF ApproveAbort
  <2>3. CASE Enqueue(p)
      BY <2>3, <1>p, <1>j DEF Enqueue
  <2>4. CASE RejectSave(p)
    <3>1. [row[post[p].req] EXCEPT
            !.state = "rejected", !.authorizer = post[p].user] \in Row
      <4>1. post[p].req \in Requests /\ post[p].user \in MaybeUser
          BY <1>q, <2>4 DEF RejectSave, Post
      <4>2. row[post[p].req] \in Row
          BY <4>1
      <4> QED BY <4>1, <4>2 DEF Row, RowState, State
    <3> QED BY <2>4, <3>1, <1>p DEF RejectSave
  <2>5. CASE ApproveClean(p)
    <3>1. [post[p] EXCEPT !.pc = "cleaned", !.selfOk = settings.selfApprove] \in Post
        BY DEF Post, Settings
    <3> QED BY <2>5, <3>1 DEF ApproveClean
  <2> QED BY <1>6, <2>1, <2>2, <2>3, <2>4, <2>5 DEF PostStep
<1>7. ASSUME NEW p \in Posts, JobStep(p) PROVE TypeOK'
  <2>1. CASE ExecLoad(p)
    <3>1. [job[p] EXCEPT !.pc = "loaded",
                           !.requested_by = row[post[p].req].requested_by,
                           !.authorizer = row[post[p].req].authorizer] \in Job
        BY <1>q, <2>1 DEF ExecLoad, Job, Row
    <3> QED BY <2>1, <3>1, <1>j DEF ExecLoad
  <2>2. CASE ExecMark(p)
    <3>1. post[p].req \in Requests
        BY <2>2, <1>q DEF ExecMark
    <3>2. PICK st \in {"failed", "executing"}, pc \in {"done", "executing"} :
            SetState(post[p].req, st) /\ SetJob(p, pc)
        BY <2>2, Zenon DEF ExecMark
    <3>3. row' \in [Requests -> Row]
        BY <3>1, <3>2, <1>r DEF SetState, RowState, State
    <3>4. job' \in [Posts -> Job]
        BY <3>2, <1>j DEF SetJob
    <3> QED BY <2>2, <3>3, <3>4 DEF ExecMark
  <2>3. CASE ExecFail(p)
      BY <2>3, <1>q, <1>r, <1>j DEF ExecFail, SetState, SetJob, RowState, State
  <2>4. CASE ExecPost(p)
    <3>1. [job[p] EXCEPT !.pc = "posted", !.sent = TRUE] \in Job
        BY DEF Job
    <3> QED BY <2>4, <3>1 DEF ExecPost
  <2>5. ASSUME NEW answer \in {"ok", "error"}, ExecAnswer(p, answer)
        PROVE TypeOK'
    <3>1. [job[p] EXCEPT !.pc = "done", !.answer = answer] \in Job
        BY DEF Job
    <3> QED BY <2>5, <3>1, <1>q, <1>r DEF ExecAnswer, SetState, RowState, State
  <2> QED BY <1>7, <2>1, <2>2, <2>3, <2>4, <2>5 DEF JobStep
<1>8. ASSUME NEW p \in Posts, PostCrash(p) \/ JobCrash(p) PROVE TypeOK'
  <2>1. crashes + 1 \in 0..MaxCrashes \/ ~(crashes < MaxCrashes)
      OBVIOUS
  <2>2. CASE PostCrash(p)
    <3>1. [post[p] EXCEPT !.pc = IF @ = "saved" THEN "done" ELSE "dead"] \in Post
        BY DEF Post
    <3> QED BY <2>1, <2>2, <3>1 DEF PostCrash, Crash
  <2>3. CASE JobCrash(p)
      BY <2>1, <2>3, <1>j DEF JobCrash, SetJob, Crash
  <2> QED BY <1>8, <2>2, <2>3
<1>9. ASSUME NEW expired \in SUBSET Requests, SweepLoad(expired) PROVE TypeOK'
    BY <1>9 DEF SweepLoad
<1>10. ASSUME NEW r \in Requests, SweepSave(r) PROVE TypeOK'
    BY <1>10, <1>r DEF SweepSave, SetState, RowState, State
<1>11. CASE SweepCrash
    BY <1>11 DEF SweepCrash, Crash
<1>12. CASE UNCHANGED vars
    BY <1>12 DEF vars
<1> QED
    BY <1>1, <1>2, <1>3, <1>4, <1>5, <1>6, <1>7, <1>8, <1>9, <1>10, <1>11, <1>12
       DEF Next


(* The steps that neither a view handler nor an executor job takes leave    *)
(* both tables of handlers alone.                                           *)
LEMMA OtherSteps ==
    ASSUME [Next]_vars
    PROVE  \/ UNCHANGED <<post, job>>
           \/ \E p \in Posts, u \in Users, r \in Requests :
                 ApproveCheck(p, u, r) \/ RejectCheck(p, u, r)
           \/ \E p \in Posts : PostStep(p) \/ JobStep(p) \/ PostCrash(p) \/ JobCrash(p)
BY DEF Next, vars, SaveSettings, DeleteUser, handle_branch_merged, CreateRequest,
       SweepLoad, SweepSave, SweepCrash

(* HandlerShape is preserved by every step.                                 *)
LEMMA ShapeStep == TypeOK /\ HandlerShape /\ [Next]_vars => HandlerShape'
<1> SUFFICES ASSUME TypeOK, HandlerShape, [Next]_vars PROVE HandlerShape'
    OBVIOUS
<1>0. post \in [Posts -> Post] /\ job \in [Posts -> Job]
    BY DEF TypeOK
<1>1. CASE UNCHANGED <<post, job>>
    BY <1>1 DEF HandlerShape
<1>2. ASSUME NEW p \in Posts, NEW u \in Users, NEW r \in Requests,
             ApproveCheck(p, u, r) \/ RejectCheck(p, u, r)
      PROVE HandlerShape'
  <2>1. PICK op \in {"approve", "reject"} : Load(p, op, u, r)
      BY <1>2 DEF ApproveCheck, RejectCheck
  <2> QED BY <1>0, <2>1 DEF Load, HandlerShape, Post
<1>3. ASSUME NEW p \in Posts, PostStep(p) PROVE HandlerShape'
  <2>1. CASE ApproveSave(p)
      BY <1>0, <2>1 DEF ApproveSave, HandlerShape, Post
  <2>2. CASE ApproveAbort(p)
      BY <1>0, <2>2 DEF ApproveAbort, HandlerShape, Post
  <2>3. CASE Enqueue(p)
      BY <1>0, <2>3 DEF Enqueue, HandlerShape, Post, Job
  <2>4. CASE RejectSave(p)
      BY <1>0, <2>4 DEF RejectSave, HandlerShape, Post
  <2>5. CASE ApproveClean(p)
      BY <1>0, <2>5 DEF ApproveClean, HandlerShape, Post
  <2> QED BY <1>3, <2>1, <2>2, <2>3, <2>4, <2>5 DEF PostStep
<1>4. ASSUME NEW p \in Posts, JobStep(p) PROVE HandlerShape'
  <2>1. CASE ExecLoad(p)
      BY <1>0, <2>1 DEF ExecLoad, HandlerShape, Job
  <2>2. CASE ExecMark(p)
      BY <1>0, <2>2 DEF ExecMark, SetJob, HandlerShape, Job
  <2>3. CASE ExecFail(p)
      BY <1>0, <2>3 DEF ExecFail, SetJob, HandlerShape, Job
  <2>4. CASE ExecPost(p)
      BY <1>0, <2>4 DEF ExecPost, HandlerShape, Job
  <2>5. ASSUME NEW answer \in {"ok", "error"}, ExecAnswer(p, answer)
        PROVE HandlerShape'
      BY <1>0, <2>5 DEF ExecAnswer, HandlerShape, Job
  <2> QED BY <1>4, <2>1, <2>2, <2>3, <2>4, <2>5 DEF JobStep
<1>5. ASSUME NEW p \in Posts, PostCrash(p) \/ JobCrash(p) PROVE HandlerShape'
    BY <1>0, <1>5 DEF PostCrash, JobCrash, SetJob, HandlerShape, Post, Job
<1> QED BY <1>1, <1>2, <1>3, <1>4, <1>5, OtherSteps

(* Apart from the creation of a row and the deletion of a user, no step     *)
(* makes or unmakes a row or touches its requester.                         *)
RowsKept ==
    \A r \in Requests : /\ row'[r].requested_by = row[r].requested_by
                        /\ row'[r].state = "absent" <=> row[r].state = "absent"

LEMMA RowWrites ==
    ASSUME TypeOK, HandlerShape, RequesterKnown, [Next]_vars
    PROVE  \/ \E u \in Users : DeleteUser(u)
           \/ \E r \in Requests : CreateRequest(r)
           \/ RowsKept
<1>0. row \in [Requests -> Row]
    BY DEF TypeOK
<1>1. ASSUME UNCHANGED row PROVE RowsKept
    BY <1>1 DEF RowsKept
<1>2. ASSUME NEW p \in Posts, NEW s \in State,
             job[p].pc # "none", SetState(post[p].req, s)
      PROVE  RowsKept
  <2>1. post[p].req \in Requests /\ row[post[p].req].state # "absent"
      BY <1>2 DEF HandlerShape, RequesterKnown
  <2> QED BY <1>0, <1>2, <2>1 DEF SetState, RowsKept, Row, State
<1>3. ASSUME NEW p \in Posts, PostStep(p) PROVE RowsKept
  <2>1. CASE ApproveSave(p)
    <3>1. post[p].req \in Requests /\ row[post[p].req].state # "absent"
        BY <2>1 DEF ApproveSave, HandlerShape, RequesterKnown
    <3> QED BY <1>0, <2>1, <3>1 DEF ApproveSave, RowsKept, Row
  <2>2. CASE RejectSave(p)
    <3>1. post[p].req \in Requests /\ row[post[p].req].state # "absent"
        BY <2>2 DEF RejectSave, HandlerShape, RequesterKnown
    <3>2. CASE post[p].user \in users
      <4>1. row' = [row EXCEPT ![post[p].req] =
                      [@ EXCEPT !.state = "rejected", !.authorizer = post[p].user]]
          BY <2>2, <3>2 DEF RejectSave
      <4> QED BY <1>0, <3>1, <4>1 DEF RowsKept, Row
    <3>3. CASE post[p].user \notin users
        BY <1>1, <2>2, <3>3 DEF RejectSave
    <3> QED BY <3>2, <3>3
  <2>3. CASE ApproveClean(p) \/ ApproveAbort(p) \/ Enqueue(p)
      BY <2>3, <1>1 DEF ApproveClean, ApproveAbort, Enqueue
  <2> QED BY <1>3, <2>1, <2>2, <2>3 DEF PostStep
<1>4. ASSUME NEW p \in Posts, JobStep(p) PROVE RowsKept
  <2>1. CASE ExecLoad(p) \/ ExecPost(p)
      BY <2>1, <1>1 DEF ExecLoad, ExecPost
  <2>2. CASE ExecMark(p)
      BY <2>2, <1>2 DEF ExecMark, State
  <2>3. CASE ExecFail(p)
      BY <2>3, <1>2 DEF ExecFail, State
  <2>4. ASSUME NEW answer \in {"ok", "error"}, ExecAnswer(p, answer)
        PROVE RowsKept
      BY <2>4, <1>2 DEF ExecAnswer, State
  <2> QED BY <1>4, <2>1, <2>2, <2>3, <2>4 DEF JobStep
<1>5. ASSUME NEW r \in Requests, SweepSave(r) PROVE RowsKept
  <2>1. row[r].state # "absent"
      BY <1>5 DEF SweepSave, RequesterKnown
  <2> QED BY <1>0, <1>5, <2>1 DEF SweepSave, SetState, RowsKept, Row
<1>6. ASSUME NEW p \in Posts, NEW u \in Users, NEW r \in Requests,
             ApproveCheck(p, u, r) \/ RejectCheck(p, u, r)
      PROVE  UNCHANGED row
    BY <1>6 DEF ApproveCheck, RejectCheck, Load
<1>7. ASSUME NEW p \in Posts, PostCrash(p) \/ JobCrash(p) PROVE UNCHANGED row
    BY <1>7 DEF PostCrash, JobCrash
<1> QED
    BY <1>1, <1>3, <1>4, <1>5, <1>6, <1>7
       DEF Next, vars, SaveSettings, handle_branch_merged, SweepLoad, SweepCrash

(* Users only disappear, and an asker once recorded stays.                  *)
LEMMA AskersStay ==
    ASSUME TypeOK, [Next]_vars
    PROVE  /\ users' \subseteq users
           /\ \A r \in Requests : asked[r] # NoUser => asked'[r] = asked[r]
BY DEF TypeOK, Next, vars, SaveSettings, DeleteUser, handle_branch_merged,
       CreateRequest, ApproveCheck, RejectCheck, Load, PostStep, ApproveClean,
       ApproveSave, ApproveAbort, Enqueue, RejectSave, JobStep, ExecLoad, ExecMark, ExecFail,
       ExecPost, ExecAnswer, PostCrash, JobCrash, SweepLoad, SweepSave, SweepCrash

(* What rows and handlers know of the requester is preserved.               *)
LEMMA RequesterStep ==
    TypeOK /\ HandlerShape /\ RequesterKnown /\ [Next]_vars => RequesterKnown'
<1> SUFFICES ASSUME TypeOK, HandlerShape, RequesterKnown, [Next]_vars
             PROVE  RequesterKnown'
    OBVIOUS
<1>0. /\ row \in [Requests -> Row] /\ asked \in [Requests -> MaybeUser]
      /\ post \in [Posts -> Post] /\ sweep \subseteq Requests
    BY DEF TypeOK
<1>a. ASSUME NEW r \in Requests, NEW u, row[r].state # "absent", RecordedOrGone(u, r)
      PROVE  asked'[r] # NoUser /\ (u = asked'[r] \/ asked'[r] \notin users')
    BY <1>a, AskersStay DEF RecordedOrGone, RequesterKnown
<1>b. ASSUME NEW r \in Requests, row[r].state # "absent"
      PROVE  row'[r].state # "absent"
  <2>1. ASSUME NEW u \in Users, DeleteUser(u) PROVE row'[r].state # "absent"
      BY <1>0, <1>b, <2>1 DEF DeleteUser, Row
  <2>2. ASSUME NEW x \in Requests, CreateRequest(x) PROVE row'[r].state # "absent"
      BY <1>0, <1>b, <2>2 DEF CreateRequest
  <2>3. CASE RowsKept
      BY <1>b, <2>3 DEF RowsKept
  <2> QED BY <2>1, <2>2, <2>3, RowWrites
<1>1. ASSUME NEW r \in Requests, row'[r].state # "absent"
      PROVE  asked'[r] # NoUser /\ RecordedOrGone(row[r].requested_by, r)'
  <2>1. ASSUME NEW u \in Users, DeleteUser(u)
        PROVE  asked'[r] # NoUser /\ RecordedOrGone(row[r].requested_by, r)'
    <3>1. row[r].state # "absent"
        BY <1>0, <1>1, <2>1 DEF DeleteUser, Row
    <3>2. row'[r].requested_by = IF row[r].requested_by = u THEN NoUser
                                 ELSE row[r].requested_by
        BY <1>0, <2>1 DEF DeleteUser, Row
    <3> QED BY <2>1, <3>1, <3>2 DEF DeleteUser, RequesterKnown, RecordedOrGone
  <2>2. ASSUME NEW x \in Requests, CreateRequest(x)
        PROVE  asked'[r] # NoUser /\ RecordedOrGone(row[r].requested_by, r)'
    <3>1. CASE r = x
        BY <1>0, <2>2, <3>1, DeletionRequestAssumption
           DEF CreateRequest, RecordedOrGone, TypeOK
    <3>2. CASE r # x
        BY <1>0, <1>1, <2>2, <3>2 DEF CreateRequest, RequesterKnown, RecordedOrGone
    <3> QED BY <3>1, <3>2
  <2>3. CASE RowsKept
    <3>1. row[r].state # "absent" /\ row'[r].requested_by = row[r].requested_by
        BY <1>1, <2>3 DEF RowsKept
    <3> QED BY <3>1, <1>a DEF RequesterKnown, RecordedOrGone
  <2> QED BY <2>1, <2>2, <2>3, RowWrites
<1>2. ASSUME NEW p \in Posts, post'[p].pc # "new"
      PROVE  /\ row'[post'[p].req].state # "absent"
             /\ RecordedOrGone(post[p].requested_by, post[p].req)'
  <2>1. CASE post[p].pc # "new" /\ post'[p].req = post[p].req
             /\ post'[p].requested_by = post[p].requested_by
      BY <2>1, <1>a, <1>b DEF RequesterKnown, HandlerShape, RecordedOrGone
  <2>2. ASSUME NEW q \in Posts, NEW u \in Users, NEW r \in Requests,
               ApproveCheck(q, u, r) \/ RejectCheck(q, u, r)
        PROVE  /\ row'[post'[p].req].state # "absent"
               /\ RecordedOrGone(post[p].requested_by, post[p].req)'
    <3>1. PICK op \in {"approve", "reject"} : Load(q, op, u, r)
        BY <2>2 DEF ApproveCheck, RejectCheck
    <3>2. CASE p = q
      <4>1. /\ post'[p].req = r /\ post'[p].requested_by = row[r].requested_by
            /\ row[r].state # "absent" /\ row' = row
          BY <1>0, <3>1, <3>2 DEF Load, Post
      <4> QED BY <4>1, <1>a DEF RequesterKnown, RecordedOrGone
    <3>3. CASE p # q
        BY <1>0, <1>2, <2>1, <3>1, <3>3 DEF Load
    <3> QED BY <3>2, <3>3
  <2>3. ASSUME NEW q \in Posts, PostStep(q) \/ JobStep(q) \/ PostCrash(q) \/ JobCrash(q)
        PROVE  post[p].pc # "new" /\ post'[p].req = post[p].req
               /\ post'[p].requested_by = post[p].requested_by
    <3>1. CASE PostStep(q)
      <4>1. CASE ApproveSave(q)
          BY <1>0, <1>2, <4>1 DEF ApproveSave, Post
      <4>2. CASE ApproveAbort(q) \/ Enqueue(q)
          BY <1>0, <1>2, <4>2 DEF ApproveAbort, Enqueue, Post
      <4>4. CASE ApproveClean(q)
          BY <1>0, <1>2, <4>4 DEF ApproveClean, Post
      <4>3. CASE RejectSave(q)
        <5>1. PICK pc \in {"done", "dead"} : post' = [post EXCEPT ![q].pc = pc]
            BY <4>3 DEF RejectSave
        <5> QED BY <1>0, <1>2, <4>3, <5>1 DEF RejectSave, Post
      <4> QED BY <3>1, <4>1, <4>2, <4>3, <4>4 DEF PostStep
    <3>2. CASE JobStep(q) \/ JobCrash(q)
        BY <1>2, <3>2 DEF JobStep, ExecLoad, ExecMark, ExecFail, ExecPost,
                          ExecAnswer, JobCrash
    <3>3. CASE PostCrash(q)
        BY <1>0, <1>2, <3>3 DEF PostCrash, Post
    <3> QED BY <2>3, <3>1, <3>2, <3>3
  <2>4. CASE UNCHANGED <<post, job>>
      BY <1>2, <2>1, <2>4
  <2> QED BY <2>1, <2>2, <2>3, <2>4, OtherSteps
<1>3. ASSUME NEW r \in sweep' PROVE row'[r].state # "absent"
  <2>1. CASE r \in sweep
      BY <1>0, <1>b, <2>1 DEF RequesterKnown
  <2>2. CASE r \notin sweep
    <3>1. PICK expired \in SUBSET Requests : SweepLoad(expired)
        BY <1>3, <2>2
           DEF Next, vars, SaveSettings, DeleteUser, handle_branch_merged,
               CreateRequest, ApproveCheck, RejectCheck, Load, PostStep,
               ApproveClean, ApproveSave, ApproveAbort, Enqueue, RejectSave, JobStep,
               ExecLoad, ExecMark, ExecFail, ExecPost, ExecAnswer, PostCrash, JobCrash,
               SweepSave, SweepCrash
    <3> QED BY <1>3, <3>1 DEF SweepLoad
  <2> QED BY <2>1, <2>2
<1> QED BY <1>1, <1>2, <1>3 DEF RequesterKnown

(* A handler keeps the row, user and operation it started with, only        *)
(* ApproveClean clears an approval, and a cleared one stays cleared unless  *)
(* its handler ends before the save.                                        *)
ComesToNothing(p) == post[p].pc = "cleaned" /\ post'[p].pc = "dead"

LEMMA PostFixed ==
    ASSUME TypeOK, HandlerShape, [Next]_vars, NEW p \in Posts
    PROVE  /\ post[p].pc # "new" =>
                /\ post'[p].pc # "new" /\ post'[p].req = post[p].req
                /\ post'[p].user = post[p].user /\ post'[p].op = post[p].op
           /\ Cleared(p) =>
                /\ Cleared(p)' \/ ComesToNothing(p)
                /\ post'[p].selfOk = post[p].selfOk
           /\ Cleared(p)' => Cleared(p) \/ ApproveClean(p)
<1> USE DEF Cleared, Approved, ComesToNothing
<1>0. post \in [Posts -> Post]
    BY DEF TypeOK
<1>1. CASE UNCHANGED post
    BY <1>1
<1>2. CASE \E q \in Posts, u \in Users, r \in Requests :
              ApproveCheck(q, u, r) \/ RejectCheck(q, u, r)
  <2>1. PICK q \in Posts, u \in Users, r \in Requests, op \in {"approve", "reject"} :
          Load(q, op, u, r)
      BY <1>2 DEF ApproveCheck, RejectCheck
  <2> QED BY <1>0, <2>1 DEF Load, HandlerShape, Post
<1>3. CASE \E q \in Posts : PostStep(q)
  <2>1. PICK q \in Posts : PostStep(q)
      BY <1>3
  <2>2. CASE ApproveSave(q)
      BY <1>0, <2>2 DEF ApproveSave, HandlerShape, Post
  <2>3. CASE ApproveAbort(q)
      BY <1>0, <2>3 DEF ApproveAbort, HandlerShape, Post
  <2>4. CASE Enqueue(q)
      BY <1>0, <2>4 DEF Enqueue, HandlerShape, Post
  <2>5. CASE RejectSave(q)
    <3>1. PICK pc \in {"done", "dead"} : post' = [post EXCEPT ![q].pc = pc]
        BY <2>5 DEF RejectSave
    <3> QED BY <1>0, <2>5, <3>1 DEF RejectSave, HandlerShape, Post
  <2>6. CASE ApproveClean(q)
      BY <1>0, <2>6 DEF ApproveClean, HandlerShape, Post
  <2> QED BY <2>1, <2>2, <2>3, <2>4, <2>5, <2>6 DEF PostStep
<1>4. ASSUME NEW q \in Posts, JobStep(q) \/ JobCrash(q) PROVE UNCHANGED post
    BY <1>4 DEF JobStep, ExecLoad, ExecMark, ExecFail, ExecPost, ExecAnswer, JobCrash
<1>5. CASE \E q \in Posts : PostCrash(q)
    BY <1>0, <1>5 DEF PostCrash, HandlerShape, Post
<1> QED BY <1>1, <1>2, <1>3, <1>4, <1>5, OtherSteps

(* A cleared approval was not given by the asker, or self-approval was      *)
(* allowed: full_clean() ran on what the handler read, and an asker it did  *)
(* not see recorded has no account left to approve with.                    *)
LEMMA ApprovalsStep ==
    TypeOK /\ HandlerShape /\ RequesterKnown /\ ApprovalsValid /\ [Next]_vars
        => ApprovalsValid'
<1> SUFFICES ASSUME TypeOK, HandlerShape, RequesterKnown, ApprovalsValid,
                    [Next]_vars, NEW p \in Posts, Cleared(p)'
             PROVE  (post[p].user # asked[post[p].req] \/ post[p].selfOk)'
    BY DEF ApprovalsValid
<1>1. CASE Cleared(p)
  <2>1. /\ post'[p].user = post[p].user /\ post'[p].req = post[p].req
        /\ post'[p].selfOk = post[p].selfOk /\ post[p].req \in Requests
        /\ asked'[post[p].req] = asked[post[p].req]
      BY <1>1, PostFixed, AskersStay DEF Cleared, Approved, HandlerShape, RequesterKnown
  <2> QED BY <1>1, <2>1 DEF ApprovalsValid
<1>2. CASE ApproveClean(p)
  <2>1. /\ post'[p].user = post[p].user /\ post'[p].req = post[p].req
        /\ post'[p].selfOk = settings.selfApprove /\ asked' = asked
      BY <1>2 DEF ApproveClean, TypeOK, Post
  <2>2. /\ post[p].user \in users /\ post[p].user # NoUser
        /\ RecordedOrGone(post[p].requested_by, post[p].req)
      BY <1>2, DeletionRequestAssumption
         DEF ApproveClean, CleanPasses, TypeOK, RequesterKnown
  <2>3. CASE settings.selfApprove
      BY <2>1, <2>3
  <2>4. CASE ~settings.selfApprove
      BY <1>2, <2>1, <2>2, <2>4
         DEF ApproveClean, CleanPasses, SelfApprovalBlocked, RecordedOrGone
  <2> QED BY <2>3, <2>4
<1> QED BY <1>1, <1>2, PostFixed

(* A DELETE that left stays sent, and an answer stays.                      *)
LEMMA JobFixed ==
    ASSUME TypeOK, HandlerShape, [Next]_vars, NEW p \in Posts
    PROVE  /\ job[p].sent => job'[p].sent
           /\ job'[p].sent => job[p].sent \/ ExecPost(p)
           /\ job[p].answer = "ok" => job'[p].answer = "ok"
<1>0. job \in [Posts -> Job]
    BY DEF TypeOK
<1>1. CASE UNCHANGED job
    BY <1>1
<1>2. CASE \E q \in Posts : JobStep(q)
  <2>1. PICK q \in Posts : JobStep(q)
      BY <1>2
  <2>2. CASE ExecLoad(q)
      BY <1>0, <2>2 DEF ExecLoad, HandlerShape, Job
  <2>3. CASE ExecMark(q)
    <3>1. PICK pc \in {"done", "executing"} : SetJob(q, pc)
        BY <2>3 DEF ExecMark
    <3> QED BY <1>0, <3>1 DEF SetJob, Job
  <2>4. CASE ExecFail(q)
      BY <1>0, <2>4 DEF ExecFail, SetJob, Job
  <2>5. CASE ExecPost(q)
      BY <1>0, <2>5 DEF ExecPost, Job
  <2>6. ASSUME NEW answer \in {"ok", "error"}, ExecAnswer(q, answer)
        PROVE  /\ job[p].sent => job'[p].sent
               /\ job'[p].sent => job[p].sent
               /\ job[p].answer = "ok" => job'[p].answer = "ok"
      BY <1>0, <2>6 DEF ExecAnswer, HandlerShape, Job
  <2> QED BY <2>1, <2>2, <2>3, <2>4, <2>5, <2>6 DEF JobStep
<1>3. CASE \E q \in Posts : JobCrash(q)
    BY <1>0, <1>3 DEF JobCrash, SetJob, Job
<1>4. CASE \E q \in Posts : PostStep(q)
  <2>1. PICK q \in Posts : PostStep(q)
      BY <1>4
  <2>2. CASE Enqueue(q)
      BY <1>0, <2>2 DEF Enqueue, Job
  <2>3. CASE ~Enqueue(q)
      BY <1>1, <2>1, <2>3
         DEF PostStep, ApproveClean, ApproveSave, ApproveAbort, RejectSave
  <2> QED BY <2>2, <2>3
<1>5. ASSUME NEW q \in Posts, PostCrash(q) PROVE UNCHANGED job
    BY <1>5 DEF PostCrash
<1>6. ASSUME NEW q \in Posts, NEW u \in Users, NEW r \in Requests,
             ApproveCheck(q, u, r) \/ RejectCheck(q, u, r)
      PROVE  UNCHANGED job
    BY <1>6 DEF ApproveCheck, RejectCheck, Load
<1> QED BY <1>1, <1>2, <1>3, <1>4, <1>5, <1>6, OtherSteps

(* Only a 2xx answer to the row's own executor makes a row succeeded.       *)
LEMMA SucceededWrites ==
    ASSUME TypeOK, HandlerShape, [Next]_vars,
           NEW r \in Requests, row'[r].state = "succeeded"
    PROVE  \/ row[r].state = "succeeded"
           \/ \E p \in Posts : post[p].req = r /\ ExecAnswer(p, "ok")
<1>0. row \in [Requests -> Row]
    BY DEF TypeOK
<1>1. CASE UNCHANGED row
    BY <1>1
<1>2. ASSUME NEW x \in Requests, NEW s, s # "succeeded", SetState(x, s)
      PROVE  row[r].state = "succeeded"
    BY <1>0, <1>2 DEF SetState, Row
<1>3. ASSUME NEW p \in Posts, JobStep(p)
      PROVE  \/ row[r].state = "succeeded"
             \/ post[p].req = r /\ ExecAnswer(p, "ok")
  <2>1. post[p].req \in Requests
      BY <1>3 DEF JobStep, ExecLoad, ExecMark, ExecFail, ExecPost, ExecAnswer,
                  HandlerShape
  <2>2. CASE ExecLoad(p) \/ ExecPost(p)
      BY <2>2 DEF ExecLoad, ExecPost
  <2>3. CASE ExecMark(p)
      BY <2>1, <2>3, <1>2 DEF ExecMark
  <2>4. CASE ExecFail(p)
      BY <2>1, <2>4, <1>2 DEF ExecFail
  <2>5. CASE ExecAnswer(p, "error")
      BY <2>1, <2>5, <1>2 DEF ExecAnswer
  <2>6. CASE ExecAnswer(p, "ok")
      BY <1>0, <2>1, <2>6 DEF ExecAnswer, SetState, Row
  <2> QED BY <1>3, <2>2, <2>3, <2>4, <2>5, <2>6 DEF JobStep
<1>4. ASSUME NEW p \in Posts, PostStep(p) PROVE row[r].state = "succeeded"
  <2>1. CASE ApproveSave(p)
      BY <1>0, <2>1 DEF ApproveSave, HandlerShape, Row
  <2>2. CASE RejectSave(p)
    <3>1. CASE post[p].user \in users
      <4>1. row' = [row EXCEPT ![post[p].req] =
                      [@ EXCEPT !.state = "rejected", !.authorizer = post[p].user]]
          BY <2>2, <3>1 DEF RejectSave
      <4> QED BY <1>0, <4>1 DEF Row
    <3>2. CASE post[p].user \notin users
        BY <2>2, <3>2 DEF RejectSave
    <3> QED BY <3>1, <3>2
  <2>3. CASE ApproveClean(p) \/ ApproveAbort(p) \/ Enqueue(p)
      BY <2>3 DEF ApproveClean, ApproveAbort, Enqueue
  <2> QED BY <1>4, <2>1, <2>2, <2>3 DEF PostStep
<1>5. ASSUME NEW u \in Users, DeleteUser(u) PROVE row[r].state = "succeeded"
    BY <1>0, <1>5 DEF DeleteUser, Row
<1>6. ASSUME NEW x \in Requests, CreateRequest(x) PROVE row[r].state = "succeeded"
    BY <1>0, <1>6 DEF CreateRequest
<1>7. ASSUME NEW x \in Requests, SweepSave(x) PROVE row[r].state = "succeeded"
    BY <1>2, <1>7 DEF SweepSave
<1>8. ASSUME NEW p \in Posts, NEW u \in Users, NEW x \in Requests,
             ApproveCheck(p, u, x) \/ RejectCheck(p, u, x)
      PROVE  UNCHANGED row
    BY <1>8 DEF ApproveCheck, RejectCheck, Load
<1>9. ASSUME NEW p \in Posts, PostCrash(p) \/ JobCrash(p) PROVE UNCHANGED row
    BY <1>9 DEF PostCrash, JobCrash
<1> QED
    BY <1>1, <1>3, <1>4, <1>5, <1>6, <1>7, <1>8, <1>9
       DEF Next, vars, SaveSettings, handle_branch_merged, SweepLoad, SweepCrash

(* The inductive invariant holds at the start and is kept by every step.    *)
LEMMA InductiveInit == Init => Inductive
<1> SUFFICES ASSUME Init PROVE Inductive
    OBVIOUS
<1>1. TypeOK
    BY DeletionRequestAssumption
       DEF Init, TypeOK, Settings, Row, Post, Job, RowState, State, MaybeUser
<1>2. HandlerShape /\ RequesterKnown /\ ApprovalsValid /\ SucceededWasAnswered
    BY DEF Init, HandlerShape, RequesterKnown, ApprovalsValid, Cleared, Approved,
           SucceededWasAnswered
<1> QED BY <1>1, <1>2 DEF Inductive

LEMMA InductiveStep == Inductive /\ [Next]_vars => Inductive'
<1> SUFFICES ASSUME Inductive, [Next]_vars PROVE Inductive'
    OBVIOUS
<1> USE DEF Inductive
<1>1. TypeOK' /\ HandlerShape' /\ RequesterKnown' /\ ApprovalsValid'
    BY TypeStep, ShapeStep, RequesterStep, ApprovalsStep
<1>2. SucceededWasAnswered'
  <2> SUFFICES ASSUME NEW r \in Requests, row'[r].state = "succeeded"
               PROVE  \E p \in Posts : post'[p].req = r /\ job'[p].answer = "ok"
      BY DEF SucceededWasAnswered
  <2>1. CASE row[r].state = "succeeded"
    <3>1. PICK p \in Posts : post[p].req = r /\ job[p].answer = "ok"
        BY <2>1 DEF SucceededWasAnswered
    <3>2. post[p].pc # "new"
        BY <3>1 DEF HandlerShape
    <3> QED BY <3>1, <3>2, PostFixed, JobFixed
  <2>2. CASE \E p \in Posts : post[p].req = r /\ ExecAnswer(p, "ok")
    <3>1. PICK p \in Posts : post[p].req = r /\ ExecAnswer(p, "ok")
        BY <2>2
    <3>2. job'[p].answer = "ok" /\ post' = post
        BY <3>1 DEF ExecAnswer, TypeOK, Job
    <3> QED BY <3>1, <3>2
  <2> QED BY <2>1, <2>2, SucceededWrites
<1> QED BY <1>1, <1>2

LEMMA InductiveHolds == Spec => []Inductive
BY InductiveInit, InductiveStep, PTL DEF Spec

(* Type correctness of the workflow.                                        *)
THEOREM TypeCorrect == Spec => []TypeOK
<1>1. Inductive => TypeOK
    BY DEF Inductive
<1> QED BY <1>1, InductiveHolds, PTL

(* Four eyes, for any number of rows, users, racing POSTs and crashes: a    *)
(* DELETE only leaves on the approval of an authorizer who did not ask for  *)
(* it, or under self-approval as the setting stood at the approval.         *)
THEOREM FourEyesHolds == Spec => []FourEyes
<1>1. Inductive => FourEyes
    BY DEF Inductive, FourEyes, HandlerShape, ApprovalsValid, Cleared, Approved,
           TypeOK, Job
<1> QED BY <1>1, InductiveHolds, PTL

(* The succeeded state of a row is never made up by a racing writer.        *)
THEOREM SucceededIsTrue == Spec => []SucceededWasAnswered
<1>1. Inductive => SucceededWasAnswered
    BY DEF Inductive
<1> QED BY <1>1, InductiveHolds, PTL

-----------------------------------------------------------------------------
(* A step out of a settled row: nobody holds an earlier copy, so only an    *)
(* account deletion can still touch the row, and it leaves the state alone. *)
LEMMA SettledStep ==
    ASSUME Inductive, [Next]_vars, NEW r \in Requests, Settled(r)
    PROVE  Settled(r)' /\ row'[r].state = row[r].state
<1> DEFINE Goal == Settled(r)' /\ row'[r].state = row[r].state
<1> SUFFICES Goal
    OBVIOUS
<1>0. /\ row \in [Requests -> Row] /\ post \in [Posts -> Post]
      /\ job \in [Posts -> Job] /\ HandlerShape
    BY DEF Inductive, TypeOK
<1>1. ASSUME row'[r].state = row[r].state, r \notin sweep', UNCHANGED <<post, job>>
      PROVE  Goal
    BY <1>1 DEF Settled, JobLive
(* A handler or job of another row.                                         *)
<1>2. ASSUME NEW p \in Posts, post'[p].req # r, row'[r].state = row[r].state,
             UNCHANGED sweep,
             \A q \in Posts \ {p} : post'[q] = post[q] /\ job'[q] = job[q]
      PROVE  Goal
    BY <1>2 DEF Settled, JobLive
<1>3. ASSUME NEW p \in Posts, PostStep(p) PROVE Goal
  <2>1. /\ post[p].pc \in {"checked", "cleaned", "saved"}
        /\ UNCHANGED sweep
        /\ \A q \in Posts \ {p} : post'[q] = post[q] /\ job'[q] = job[q]
      BY <1>0, <1>3
         DEF PostStep, ApproveClean, ApproveSave, ApproveAbort, Enqueue, RejectSave
  <2>2. post[p].req # r /\ post'[p].req = post[p].req /\ post[p].req \in Requests
      BY <2>1, PostFixed DEF Settled, Inductive, HandlerShape
  <2>3. row'[r] = row[r]
      BY <1>0, <1>3, <2>2
         DEF PostStep, ApproveClean, ApproveSave, ApproveAbort, Enqueue, RejectSave
  <2> QED BY <1>2, <2>1, <2>2, <2>3
<1>4. ASSUME NEW p \in Posts, JobStep(p) PROVE Goal
  <2>1. /\ JobLive(p) /\ UNCHANGED <<sweep, post>>
        /\ \A q \in Posts \ {p} : job'[q] = job[q]
      BY <1>0, <1>4 DEF JobStep, ExecLoad, ExecMark, ExecFail, ExecPost,
                        ExecAnswer, SetJob, JobLive
  <2>2. post[p].req # r /\ post[p].req \in Requests
      BY <2>1, <1>0 DEF Settled, HandlerShape, JobLive
  <2>3. row'[r] = row[r]
      BY <1>0, <1>4, <2>2 DEF JobStep, ExecLoad, ExecMark, ExecFail, ExecPost,
                              ExecAnswer, SetState
  <2> QED BY <1>2, <2>1, <2>2, <2>3
<1>5. ASSUME NEW p \in Posts, NEW u \in Users, NEW x \in Requests,
             ApproveCheck(p, u, x) \/ RejectCheck(p, u, x)
      PROVE  Goal
  <2>1. PICK op \in {"approve", "reject"} : Load(p, op, u, x)
      BY <1>5 DEF ApproveCheck, RejectCheck
  <2>2. x # r
      BY <2>1 DEF Load, Settled
  <2>3. post'[p].req = x
      BY <1>0, <2>1 DEF Load, Post
  <2> QED BY <1>0, <1>2, <2>1, <2>2, <2>3 DEF Load
<1>6. ASSUME NEW p \in Posts, PostCrash(p) PROVE Goal
  <2>1. post[p].req # r /\ post'[p].req = post[p].req
      BY <1>6, PostFixed DEF PostCrash, Settled, Inductive
  <2> QED BY <1>0, <1>2, <1>6, <2>1 DEF PostCrash
<1>7. ASSUME NEW p \in Posts, JobCrash(p) PROVE Goal
  <2>1. post[p].req # r
      BY <1>7 DEF JobCrash, Settled, JobLive
  <2> QED BY <1>0, <1>2, <1>7, <2>1 DEF JobCrash, SetJob
<1>8. ASSUME NEW u \in Users, DeleteUser(u) PROVE Goal
    BY <1>0, <1>1, <1>8 DEF DeleteUser, Row, Settled
<1>9. ASSUME NEW x \in Requests, CreateRequest(x) PROVE Goal
    BY <1>0, <1>1, <1>9 DEF CreateRequest, Settled
<1>10. ASSUME NEW expired \in SUBSET Requests, SweepLoad(expired) PROVE Goal
    BY <1>1, <1>10 DEF SweepLoad, Settled
<1>11. ASSUME NEW x \in Requests, SweepSave(x) PROVE Goal
    BY <1>0, <1>1, <1>11 DEF SweepSave, SetState, Settled
<1>12. ASSUME UNCHANGED <<row, sweep, post, job>> PROVE Goal
    BY <1>1, <1>12 DEF Settled
<1>13. CASE SweepCrash
    BY <1>1, <1>13 DEF SweepCrash
<1> QED
    BY <1>3, <1>4, <1>5, <1>6, <1>7, <1>8, <1>9, <1>10, <1>11, <1>12, <1>13
       DEF Next, vars, SaveSettings, handle_branch_merged

(* A settled row is final, for any number of racing handlers.               *)
THEOREM SettledFinal == Spec => SettledIsFinal
<1>1. Inductive /\ [Next]_vars =>
        [\A r \in Requests : Settled(r) =>
            Settled(r)' /\ row'[r].state = row[r].state]_vars
    BY SettledStep
<1> QED BY <1>1, InductiveHolds, PTL DEF Spec, SettledIsFinal

-----------------------------------------------------------------------------
(* The refinement of FourEyes.  A step that does not clear an approval of   *)
(* p, send its DELETE or end its handler before the save leaves the grant   *)
(* of p as it was.                                                          *)
LEMMA GrantKept ==
    ASSUME Inductive, [Next]_vars, NEW p \in Posts,
           ~ApproveClean(p), ~ExecPost(p), ~ComesToNothing(p)
    PROVE  GrantOf(p)' = GrantOf(p)
<1>1. /\ Cleared(p)' <=> Cleared(p)
      /\ Cleared(p) => post'[p].req = post[p].req /\ post'[p].user = post[p].user
      /\ job'[p].sent <=> job[p].sent
    BY PostFixed, JobFixed DEF Inductive, Cleared, Approved
<1>2. CASE Cleared(p)
    BY <1>1, <1>2 DEF GrantOf
<1>3. CASE ~Cleared(p)
    BY <1>1, <1>3 DEF GrantOf
<1> QED BY <1>2, <1>3

LEMMA RefineInit == Init => Promise!Init
BY DEF Init, Promise!Init, Promise!NoGrant, Settings, GrantOf, Cleared, Approved

LEMMA RefineStep ==
    Inductive /\ [Next]_vars => [Promise!Next]_(Promise!vars)
<1> SUFFICES ASSUME Inductive, [Next]_vars
             PROVE  Promise!Next \/ UNCHANGED Promise!vars
    OBVIOUS
<1> DEFINE grant == [p \in Posts |-> GrantOf(p)]
<1>0. /\ settings \in Settings /\ asked \in [Requests -> MaybeUser]
      /\ post \in [Posts -> Post] /\ job \in [Posts -> Job] /\ HandlerShape
    BY DEF Inductive, TypeOK
<1>1. ASSUME NEW p \in Posts, ApproveClean(p)
      PROVE  Promise!Grant(p, post[p].req, post[p].user)
  <2>1. ~Cleared(p) /\ ~job[p].sent /\ post[p].req \in Requests
      BY <1>0, <1>1 DEF ApproveClean, Cleared, Approved, HandlerShape
  <2>2. /\ Cleared(p)' /\ job' = job /\ asked' = asked /\ settings' = settings
        /\ post'[p].req = post[p].req /\ post'[p].user = post[p].user
        /\ post'[p].selfOk = settings.selfApprove
      BY <1>0, <1>1 DEF ApproveClean, Cleared, Post
  <2>3. GrantOf(p)' = [st |-> "valid", req |-> post[p].req, user |-> post[p].user]
      BY <2>1, <2>2 DEF GrantOf
  <2>4. \A q \in Posts \ {p} : GrantOf(q)' = GrantOf(q)
      BY <1>0, <1>1 DEF ApproveClean, GrantOf, Cleared, Approved
  <2>5. post[p].user # asked[post[p].req] \/ settings.selfApprove
      BY <2>2, ApprovalsStep DEF Inductive, ApprovalsValid
  <2>6. asked[post[p].req] # NoUser
      BY <1>1, <2>1 DEF ApproveClean, Inductive, RequesterKnown
  <2>7. GrantOf(p) = Promise!NoGrant
      BY <2>1 DEF GrantOf, Promise!NoGrant
  <2>8. grant' = [grant EXCEPT ![p] = [st |-> "valid", req |-> post[p].req,
                                       user |-> post[p].user]]
      BY <2>3, <2>4
  <2> QED BY <2>2, <2>5, <2>6, <2>7, <2>8 DEF Promise!Grant
<1>2. ASSUME NEW p \in Posts, ExecPost(p) PROVE Promise!Delete(p)
  <2>1. Approved(p) /\ ~job[p].sent
      BY <1>0, <1>2 DEF ExecPost, HandlerShape, Approved
  <2>2. job'[p].sent /\ post' = post /\ asked' = asked /\ settings' = settings
      BY <1>0, <1>2 DEF ExecPost, Job
  <2>3. GrantOf(p)' = [GrantOf(p) EXCEPT !.st = "spent"] /\ GrantOf(p).st = "valid"
      BY <2>1, <2>2 DEF GrantOf, Cleared, Approved
  <2>4. \A q \in Posts \ {p} : GrantOf(q)' = GrantOf(q)
      BY <1>0, <1>2 DEF ExecPost, GrantOf, Cleared, Approved
  <2>5. grant' = [grant EXCEPT ![p].st = "spent"]
      BY <2>3, <2>4
  <2> QED BY <2>2, <2>3, <2>5 DEF Promise!Delete
<1>5. ASSUME NEW p \in Posts, ComesToNothing(p) PROVE Promise!Withdraw(p)
  <2>1. /\ post' = [post EXCEPT ![p].pc = "dead"]
        /\ job' = job /\ asked' = asked /\ settings' = settings
    <3>1. ASSUME NEW q \in Posts, PostStep(q) \/ PostCrash(q), post'[p] # post[p]
          PROVE  p = q /\ (ApproveAbort(p) \/ PostCrash(p))
        BY <1>0, <1>5, <3>1
           DEF ComesToNothing, PostStep, ApproveClean, ApproveSave, ApproveAbort,
               Enqueue, RejectSave, PostCrash, HandlerShape, Post
    <3>2. ASSUME NEW q \in Posts, JobStep(q) \/ JobCrash(q) PROVE post' = post
        BY <3>2 DEF JobStep, ExecLoad, ExecMark, ExecFail, ExecPost, ExecAnswer,
                    JobCrash
    <3>3. ASSUME NEW q \in Posts, NEW u \in Users, NEW r \in Requests,
                 ApproveCheck(q, u, r) \/ RejectCheck(q, u, r)
          PROVE  post'[p] = post[p]
      <4>1. PICK op \in {"approve", "reject"} : Load(q, op, u, r)
          BY <3>3 DEF ApproveCheck, RejectCheck
      <4> QED BY <1>0, <1>5, <4>1 DEF Load, ComesToNothing
    <3>4. ApproveAbort(p) \/ PostCrash(p)
        BY <1>5, <3>1, <3>2, <3>3, OtherSteps DEF ComesToNothing
    <3>5. CASE ApproveAbort(p)
        BY <3>5 DEF ApproveAbort
    <3>6. CASE PostCrash(p)
        BY <1>0, <1>5, <3>6 DEF PostCrash, ComesToNothing
    <3> QED BY <3>4, <3>5, <3>6
  <2>2. Cleared(p) /\ ~job[p].sent /\ ~Cleared(p)'
      BY <1>0, <1>5, <2>1 DEF ComesToNothing, Cleared, Approved, HandlerShape
  <2>3. GrantOf(p).st = "valid" /\ GrantOf(p)' = Promise!NoGrant
      BY <2>2 DEF GrantOf, Promise!NoGrant
  <2>4. \A q \in Posts \ {p} : GrantOf(q)' = GrantOf(q)
      BY <1>0, <2>1 DEF GrantOf, Cleared, Approved
  <2>5. grant' = [grant EXCEPT ![p] = Promise!NoGrant]
      BY <2>3, <2>4
  <2> QED BY <2>1, <2>3, <2>5 DEF Promise!Withdraw
<1>3. ASSUME \A p \in Posts : ~ApproveClean(p) /\ ~ExecPost(p) /\ ~ComesToNothing(p)
      PROVE  Promise!Next \/ UNCHANGED Promise!vars
  <2>1. grant' = grant
      BY <1>3, GrantKept
  <2>2. ASSUME NEW s \in Settings, SaveSettings(s) PROVE Promise!ChangePolicy
      BY <2>1, <2>2 DEF SaveSettings, Settings, Promise!ChangePolicy
  <2>3. ASSUME NEW r \in Requests, NEW u \in Users, handle_branch_merged(r, u)
        PROVE  Promise!Ask(r, u)
      BY <2>1, <2>3 DEF handle_branch_merged, Promise!Ask
  <2>4. CASE UNCHANGED <<settings, asked>>
      BY <2>1, <2>4 DEF Promise!vars
  <2>5. \/ \E s \in Settings : SaveSettings(s)
        \/ \E r \in Requests, u \in Users : handle_branch_merged(r, u)
        \/ UNCHANGED <<settings, asked>>
      BY DEF Next, vars, DeleteUser, CreateRequest, ApproveCheck, RejectCheck, Load,
             PostStep, ApproveClean, ApproveSave, ApproveAbort, Enqueue, RejectSave,
             JobStep, ExecLoad, ExecMark, ExecFail, ExecPost, ExecAnswer, PostCrash, JobCrash,
             SweepLoad, SweepSave, SweepCrash
  <2> QED BY <2>2, <2>3, <2>4, <2>5 DEF Promise!Next
<1>4. ASSUME NEW p \in Posts, ApproveClean(p)
      PROVE  post[p].req \in Requests /\ post[p].user \in Authorizers
    BY <1>0, <1>4 DEF ApproveClean, HandlerShape
<1> QED BY <1>1, <1>2, <1>3, <1>4, <1>5 DEF Promise!Next

(* The workflow implements the four-eyes promise: every behaviour of views, *)
(* sweep, executors and crashes is a behaviour of FourEyes.                 *)
THEOREM WorkflowImplementsFourEyes == Spec => ImplementsFourEyes
<1>1. Init => Promise!Init
    BY RefineInit
<1>2. Inductive /\ [Next]_vars => [Promise!Next]_(Promise!vars)
    BY RefineStep
<1> QED BY <1>1, <1>2, InductiveHolds, PTL DEF Spec, ImplementsFourEyes, Promise!Spec
=============================================================================
