# A TLA+ model of netbox-proxbox

netbox-proxbox is a NetBox plugin. It mirrors Proxmox inventory into NetBox
(synchronisation), turns approved NetBox branches into Proxmox operations
(intent), and talks to both through a separate service, proxbox-api. The plugin
runs in three kinds of process that share a database and little else: web
workers handling requests, RQ workers running jobs, and threads or loops of
their own (a WebSocket client, a scheduler). Nearly all of its difficult
behaviour comes from that: each process reads a row, decides, and writes later,
often without a lock, while others do the same.

The models follow the code under `src/netbox_proxbox/`. `PROJECT.json` gives,
for every definition that models code, the lines it stands for; definitions keep
the source's names where TLA+ allows it.

| Module | What it is |
| --- | --- |
| `DeletionRequest` | the safe-delete workflow, from the branch merge to the DELETE |
| `FourEyes` | what that workflow promises, as an abstract specification |
| `ApplyJob` | the intent path: merge validator, `post_merge` receiver, `ProxmoxApplyJob`, cancel view |
| `SyncJob` | one run of `ProxboxSyncJob`, from `enqueue()` to the terminal status |
| `SyncPublication` | what branch isolation promises of such a run, as an abstract specification |
| `ClusterBinding` | which native cluster belongs to which Proxmox endpoint: the transactions that write it and their locks |
| `ClusterOwnership` | what those transactions promise, as an abstract specification |
| `EndpointPush` | approval of a connection and the delivery of an endpoint with its credentials to proxbox-api |
| `BackendKey` | how the row of proxbox-api itself comes to be trusted with an API key |
| `WebSocketClient` | the background WebSocket client, its command queue and the sync buttons |
| `MC…` | the instances TLC checks, with one `.cfg` per question |
| `…Proof` | theorems about the modules above, checked by TLAPS |

To repeat the checks: `tlc -config DeletionSafety.cfg MCDeletionRequest` (and so
on for the runs below), `tlapm SyncJobProof.tla`.

## Inventory

### Components that are modelled

**Safe delete** (`models/deletion_request.py`, `views/deletion_requests.py`,
`intent/deletion_executor.py`, the TTL sweep and the part of
`intent/apply_job.py` that creates rows). State: a `DeletionRequest` row with a
state and two nullable user columns, a tag on the guest, and whatever each
handler read into memory. Operations: create, approve, reject, sweep, execute.
Hard: no handler locks the row, so approve, reject, sweep and executor interleave
between their read and their save; user accounts may be deleted meanwhile; a
worker may die between two saves. Correct when: no guest is deleted on its
asker's own approval (unless allowed at that moment), no approval is used twice,
a row does not claim a success nobody reported, finished rows stay finished,
approved rows get finished.

**Intent apply** (`intent/merge_validator.py`, `signal_receivers.py`,
`intent/apply_job.py`, the cancel view). State: the `ProxmoxApplyJob` row, the
results in the job's memory, what was sent, applied, requested and stamped.
Hard: results reach the row in one save at the end; the cancel view saves a
copy of the row it read earlier; settings, permissions and the branch change
under the job; an exception can leave the loop half-way; two diffs may report
under one key. Correct when: the verdict on the row is true of what was done, a
failed run leaves nothing marked as applied, both up to a shared key, and every
queued row is settled.

**Sync job** (`jobs.py`, `sync_stages.py`, `sync_ownership.py`,
`services/branch_lifecycle.py`, `services/sync_deadline.py`). State: the Job row's `data` and `status`, the worker's
copy of `data`, the run's progress, the isolation branch, the credentials the
backend holds, and what was written to main or to the branch. Hard: a dozen ways
to fail, each of which must keep the evidence gathered so far, must not merge and
must not fall back to main; a deadline that may pass between any two steps;
endpoints and settings edited during the run; the web request saving the row
after the worker took it. Correct when: an isolated run leaves main alone until
it merges, only a complete run merges, nothing is written through a backend that
may belong to another NetBox, the row tells the truth, and every run ends.

**Cluster ownership** (`services/cluster_binding.py`, `services/sync_cluster.py`,
`models/proxmox_cluster.py`, `models/sync_state.py`). State: one foreign key and two
kinds of row that say the same thing. Hard: five writers, legacy data that may be
ambiguous, owners that the migration keeps although they are, instances loaded
before a lock and saved after it, cascading deletions, several row locks per
transaction. Correct when: from its first synchronisation on an endpoint is the only
one with its cluster and the three relations agree on it, no writer adds an
ambiguity, no two transactions wait for each other.

**Connection approval and endpoint push** (`services/connection_authority.py`,
`models/proxmox_endpoint.py`, `views/backend_sync.py`, `signals.py`, the preflight
of `jobs.py`). State: the endpoint's row with its approval, the address it
points to, the backend's rows, a cache of recent pushes. Hard: the address
changes without a save of the row, forms are saved late, several processes push
at once, answers are lost, the backend may hold duplicates. Correct when:
credentials reach only targets an operator reviewed, an approval is never
revived, and the backend ends up with what the approved row says.

**Backend key** (`services/backend_key_adoption.py`,
`services/endpoint_autoconfiguration.py`, `models/fastapi_endpoint.py`,
`proxbox_fix_tokens`). State: the row of proxbox-api (key, connection columns,
fingerprint of the target the key was proven at) and the keys each backend
accepts. Hard: a backend without keys accepts the first one it is sent, from
whoever comes first; a key may be generated in a transaction that rolls back;
saves, startup threads and the command overlap. Correct when: a trusted row's
key was accepted by exactly that target, a generated key is committed before
a backend learns it, startups do not create competing rows, and stale saves
change nothing.

**WebSocket client** (`websocket_client.py`). State: one worker task and the tasks
it replaced, the registered connection and what is known of its peer, a bounded
queue, the latch of each sync button with its run id, the message buffer. Hard: web
threads and an event loop share it under a lock that is released at each await;
the endpoint may be edited or the worker replaced while a command is queued, in a
task's hands or on the wire; the peer may reject the newer message format, and the
command is then sent again. Correct when: a command runs at most once and only at
the endpoint it was authorised for, an active run keeps its button, and a
client's cursor separates its run from the previous one.

How they interact: a branch merge starts an apply job; the apply job creates
deletion requests, which the safe-delete workflow carries out. `ApplyJob` has
the creation of a request as one of the outcomes of a diff (`requests`), and
`DeletionRequest` begins with the merge and that creation. A sync run's preflight
pushes endpoints (`EndpointPush`) and verifies the stored key (`BackendKey`); its
cluster phase is a writer of `ClusterBinding`; `SyncJob` has the outcomes of
each. The WebSocket client reconnects when the row of `BackendKey` changes.

### Components that are not modelled yet

| Component | State and hard part | What would make it correct |
| --- | --- | --- |
| SSE stage execution (`sync_stages.py`) | attempts, retry class, delay, deadline | bounded by both limits; a permanent refusal is not retried |
| Sync-mode cascade | modes of endpoint and object types | no child mode is more active than its parent |
| Selected-object scope, backfill | backend ids of selected objects | an object is only synced from the endpoint it belongs to |
| Job stream (`views/job_stream.py`) | polling observer of the Job row | the terminal event agrees with the row |
| Scheduler (`proxbox_scheduler/`) | tick loop | no overlap, outcome of an invocation is true |
| Service monitoring | due times, pending executions | one pending collection per endpoint |
| Encryption recovery | encrypted columns, two keys | every value stays readable |
| OpenBao | secrets in two stores | a secret is in at least one of them |

The content of the inventory (which fields a reconciliation writes, intent
payloads, tenant rules) is data to every property here. Serializers, forms,
tables, templates, GraphQL, migrations, the command-line client, browser code,
documentation and deployment files keep no protocol state.

## The models and the code

### DeletionRequest and FourEyes

Each handler is split where it touches the database: `ApproveCheck` is the load
and the tests of the approve view, `ApproveClean` its `full_clean`, which reads the
self-approval setting, `ApproveSave` the save, `Enqueue` the RQ enqueue, and
`ApproveAbort` the errors of the clean and of the save; the executor is `ExecLoad`, `ExecMark` (its claim),
`ExecPost` and `ExecAnswer`. A handler keeps what it read (`post[p].requested_by`,
`job[p].authorizer`), because the code tests its instance and not the table. The
saves name `update_fields`, so a save changes only those columns. Deleting an
account sets both user columns to NULL, and a NULL never matches in the
self-approval rule. `selfOk` and `asked` are history: the setting that an
approval's `full_clean` read, and who merged the branch. The backend's answer is any of
success, refusal or no answer.

`FourEyes` has no rows, queues or crashes: somebody asks, an authorizer grants,
a DELETE spends a grant, and a grant may be withdrawn unused. The mapping lets an
approval grant at its `full_clean`, where the code decides, withdraws the grant if the
approval goes no further, and spends it when the POST leaves. This is one DELETE per
grant and not per request: two approvals that both read *pending* are two grants.

### ApplyJob

One merge of one branch. `OpOf` says what `classify_diff` makes of each
ChangeDiff and `KeysOf` under which keys its result may be stored. Nothing makes these
distinct: `_vm_key` is the VMID, which repeats across clusters and after a delete and
recreate, or else a primary key that may equal another guest's VMID. An entry then
overwrites the other diff's, so the properties are stated up to a shared key
(`Shares`, `Accomplished`). The loop takes the diffs of a kind in any order; a diff fails locally, is skipped, is sent and
answered, or is filed as a deletion request. `Abort` is the outer `except`, which
writes only the state and the end time; `WorkerDies` leaves the row as it is. The
cancel view is a load and a later save of `state`, `finished_at` and
`per_vm_results`.

### SyncJob and SyncPublication

The pc of `run` is the place in `ProxboxSyncJob.run()`; the actions carry the names
of the functions they model (`_claim_rq_sync_ownership`,
`_resolve_branching_config`, `_create_sync_branch`, `_persist_initial_sync_data`,
`_require_backend_key`, `_ensure_backend_endpoints`, `_execute_batch_sync`,
`activate_sync_branch`, the local phases, `_run_all_stages_sync`,
`_persist_staged_result`, …). `mem` is `job.data` on the worker's instance and
`db` the column: each `save` in the code copies one to the other, and a failure
before the save leaves them apart. A local phase or an endpoint's stages succeed,
fail or are skipped, and their writes go to the branch if the run is isolated
and to main if not; a failing endpoint may have written part of its data, and so may
a batch or a backfill that ends in an exception. Settings that cannot be read end the run
in `_resolve_branching_config`. A branch somebody else merges (`BranchTaken`)
takes what it holds to main.
`slot` is whose NetBox credentials the backend holds: nobody's, another NetBox's,
outdated ones of ours, or ours. `raced` records that `enqueue()` saved the row
after the run had claimed it.

`expired` may become true at any moment and is looked at where the code compares
the clock with the deadline. External, and modelled from how the plugin uses
them: proxbox-api's answers, netbox_branching's branch status, conflicts and
merge, and RQ.

`SyncPublication` knows no phases, deadlines or rows: a run decides once whether it works
in main or in private, does pieces of work that may fail, and ends; private work
becomes public all at once, unless part of it failed, and nothing happens after the
end. An operator may take the private work and publish it unfinished (`Take`), and the
run then publishes nothing itself. The mapping reads the mode off the pc, `run.isolated` and the status of the branch, and calls a
run spoiled when it has a failed scope, a warned phase or a failed batch. Tenants
written by a batch are public at once here too, as in the code.

### ClusterBinding and ClusterOwnership

`cluster[e]` is `ProxmoxEndpoint.netbox_cluster`, `track[t]` a `ProxmoxCluster` row
and `sidecar[c]` the cluster's sync state. A transaction locks the endpoint's row, then
the native cluster's, and then validates, writes and commits in one step, since
nobody sees its writes before. A preflight also locks the tracking row it has
selected, on the way, and where that row links to another cluster than the endpoint's
it waits for a second one (`at = "link"`); `Refuse` is any error, which rolls back. `WriteSync` is
`synchronize_cluster`, `WritePreflight` the job's record of a cluster,
`WriteTrack` a save of a tracking row from an instance that was filled in before
the locks (`BeginTrack`). `SaveEndpoint` and `SaveSidecar` are ordinary saves, which
carry a protected link over from the locked row. Deletions cascade as the foreign
keys say. Initially tracking rows, links of sidecars and owners are limited only by the
columns' constraints (the owner column is unique), to which migration 0107 adds the
owners it can tell and keeps the rest, ambiguous ones included. `synced` is
history: the endpoints that `synchronize_cluster` has committed, until a deletion. The
statements about ownership are about those; of all others the model promises only that
nothing becomes more ambiguous than it was.
`ClusterOwnership` has neither locks nor tracking rows: a cluster nobody owns may
be claimed, and ownership ends by a deletion.

### EndpointPush

One `ProxmoxEndpoint` row. Its target is `<<configuration, address>>`: the
configuration is saved with the row, the address is the value of an IPAddress
object that anybody may edit. `Open` loads an instance and its address, `Save` takes
the row lock and carries the approval over or blanks it, `Commit` and `Rollback` end the
transaction; `Approve` is the protected approval, `Delete` and `Toggle` the
deletion and the bulk edits. After a commit, and in each preflight, a process pushes:
`Prepare` rereads, tests the approval, resolves the credentials and builds the payload,
`Recheck` tests the approval a second time and looks at the cache, and either may
`Refuse`; `List`, `Resolve`, `Revoke`, `Confirm` find the backend's rows that claim the endpoint and disable
duplicates; `Send` tests the approval again and applies the payload at the backend,
its answer possibly lost; `Remember` writes the cache and `RecordPushed`, later and under
the row lock, the column; `RecordReceipt`, `Erase`, `RecordGrant` are the other updates
of the row, each of its own columns. A preflight takes one listing for all endpoints
and skips what it shows to be held already. `Holds` compares the connection columns as
one value, so that the model skips no push that the code makes; an authority error
let out of that comparison (`jobs.py:1076`) is one of the failures of `Fail`.

### BackendKey

A step is a database statement or short transaction, or an HTTP request. `Load` is the
instance of a form or REST request with its optimistic-lock signature, `Submit` the
save up to the gate (`prepare_backend_key_transition`), which decides between
refusing, keeping, deferring to discovery and checking the key; the check is
`Status`, then `Authenticate` or `Register`, shared with discovery and with the
command. From the gate to `Commit` the save holds the lock of its row and of the
IPAddress it uses. Discovery is `Discover` (which freezes the target), `Probe`, then
`Create` and `Insert` for a row of its own, `Generate` and `Refresh` for one without a
key, and `Record`, whose WHERE clause names every column. `Abandon` is any failure at
any point. `Generate` also has the branch for a caller with a transaction of its own
(`mode = "nested"`): the key is written under the row lock, `Commit` makes it durable, and
only then does discovery go on. No caller in the repository opens one. A save may
submit an explicitly empty key (`Blank`), which is not the same as leaving the key
alone. `auto` marks the rows that discovery inserted; a form that inserts a
deleted one again makes an operator's row of it, which `OneDiscoveredRow` does not count. `Elsewhere` is another NetBox or an administrator changing the
backend's keys. `durable` and `proven` are history.

A ciphertext stands for its key, so two encryptions of one key compare equal here
and not in the code, which lets more saves through the optimistic lock than the
code does. A target with a domain keeps no address here; in the code the fallback
address is part of its fingerprint.

### WebSocketClient

A web thread's step is a critical section of `websocket_lock`; a task's step is the code
between two awaits, or between two critical sections. `Request`, `Load`, `Start`,
`Context`, `Dispatch`, `Probe`, `Queue` are a POST: it selects an endpoint, loads its
credentials (and stops the worker if the endpoint was disabled meanwhile), ensures a
worker, takes the identity of whatever worker of that endpoint then runs, asks whether the peer supports
run ids, latches the button and queues the command. A task connects, and for each command rechecks
trust (`Recheck`), takes it (`Take`), asks for the capability (`Ask`), tests trust and formats
(`Format`) and sends; `Receive` publishes a frame, and `Rejected` and `Resend` handle a
peer that refuses the envelope. `cancel` is *asked* when `cancel()` was called and *due*
once the task has reached an await, where it ends (`Close`). `runs` is history: the
identity a command was authorised for, how often and to whom it was sent, and
how its button came free.

## Runs


| Run | Instance | Shows |
| --- | --- | --- |
| `deletion_safety` | 1 row, asker who may also authorize, second authorizer, 2 POSTs, sweep, 1 crash | `FourEyes`, `SucceededWasAnswered`, `SettledIsFinal`, and the refinement `ImplementsFourEyes` |
| `deletion_liveness` | 1 row, 2 POSTs, no crash | `ApprovedSettles`: an approved or executing row is settled |
| `apply_job` | one update, one delete, one firewall diff, two of which may share a result key, 1 cancel, 1 fault | `SucceededMeansDone`, `FailedMeansUnstamped`, `RowSettles` |
| `apply_master_flag` | one update | TLC *violates* `MasterFlagRechecked`: see the disagreements below |
| `sync_one` | 1 endpoint, every request and configuration, 2 edits or deaths | `Isolated`, `WritesAreOurs`, `VerdictMatchesEvidence`, `EvidenceGrows`, the refinement `ImplementsPublication` |
| `sync_two` | 2 endpoints, staged and isolated, 1 edit or death | `MergedIsComplete`, `LeftOpenIsRecorded` |
| `sync_liveness` | 1 endpoint, both paths, isolating and failing configurations | `RunEnds` |
| `cluster_binding` | 2 endpoints, clusters, tracking rows, names and connections, any legacy data and retained owners, one tracking row edited at a time | `SyncedIsExclusive`, `SidecarAgrees`, `NoNewAmbiguity`, `NoDeadlock`, the refinement `ImplementsOwnership` |
| `endpoint_push` | 2 configurations (one with a domain and a broken binding), addresses, credentials, backend ids and processes, 3 operator actions | `DisclosedIsReviewed`, `ApprovalIsExact` |
| `endpoint_push_live` | 1 configuration that asks for the SSH binding, 2 backend ids and processes, 2 operator actions, 1 fault | `Converges`: the backend ends up with the approved row, or with all duplicates disabled |
| `backend_key` | 2 sets of columns (one by domain, one by address; discovery may write either), addresses, submitted and generated keys, rows and processes, 3 edits | `TrustedIsProven`, `GeneratedIsDurable`, `OneDiscoveredRow`, `NoLostUpdate` |
| `websocket_client` | 2 endpoints, tasks, accepted commands and connections, 1 button, a queue of 1, 1 edit, 1 frame of another's | `SentOnceToAuthorised`, `RunningIsLatched`, `CursorSeparatesRuns`, `RefusedStaysLegacy` |

Why the bounds are enough for what they check. All races on a deletion row are
between two handlers holding a copy of it; with two POSTs there are two approvals,
two rejections or one of each, together with the sweep and up to two executors.
Two users are the asker and the other. In the apply job each kind of diff has
its own branch of the loop, so one diff of each kind gives every mixture of outcomes;
results meet only under a key, and two diffs that may report under one key or under
two show both what a collision does and that nothing else does it. In the sync job one endpoint already
has every path through the run, and two are needed where results of several
endpoints are combined (a merge must wait for all of them); two edits allow one
change and its reversal, or a change followed by a death. `MaxAttempts = 2` has a
retry and an exhausted retry. POSTs and endpoints are interchangeable, hence the
symmetry sets; the liveness runs use none. The sync runs, and the apply runs,
end in a state without successor because only one run is followed, so they do
not check for deadlock; `deletion_*` does, since settings may always be saved.

In `cluster_binding` two endpoints, clusters and connections are what an ambiguity, a
handover or a circular wait needs; names and rows come in pairs so that a row
may be found by its link or by its name. `MaxEdits = 1` keeps one of the two
transactions a synchronisation or a preflight while a tracking row is edited by hand. In `endpoint_push` two values of each
kind tell the loaded, the saved and the sent version apart, and three operator
actions allow an edit and its approval under a push that started before both. Its
faults are in the liveness run; the safety run has lost answers in effect, because
a process may stop being scheduled after `Send`. In `backend_key` two processes overlap in
every pair of save, discovery and command; three edits allow a save, a
startup or command, and one change from outside between them. In
`websocket_client` two accepted commands and two connections suffice for a
command to outlive its worker or its connection and for a late frame to meet the
next run; the queue of one is full with one command. `backend_key` and
`websocket_client` stop when their bounds are spent and so do not check for deadlock;
`NoDeadlock` states the absence of a circular wait in `cluster_binding`, but for one case:
the second cluster of a preflight is locked out of order, and preflights of endpoints
that own clusters which tracking rows of each other link to, all round (`Ring`), can
wait for each other. Legacy data can be like that, and PostgreSQL then aborts one.

Fairness. An RQ worker that has taken a job keeps executing it, a web worker that
has begun a request finishes it, and the sweep saves the rows it loaded; so steps
of started handlers and jobs are weakly fair. In the sync job the worker and the
enqueuing request are fair, which also says that a queued job is eventually taken
by a worker. In the endpoint push every step of a process that has begun is weakly
fair, and preflights recur, because the sync job is scheduled periodically; lost
answers, crashes and exhausted budgets are bounded by `MaxFaults`, which is what
"eventually they stop" means in `Converges`. No fairness is assumed of users, administrators, the clock, the
branch or crashes: a pending row may stay pending for ever, and `RunEnds` and
`RowSettles` exempt a worker that was killed.

## Where the code and its documentation disagree

The models behave as the code does in these places, where a document or comment
says otherwise. For one of them a run is kept, `apply_master_flag`, whose property
states what the document says.

- an approve that tested the row earlier overwrites a reject saved since, and the
  row is executed (`views/deletion_requests.py:104`; `:38` says both are "only
  valid in the pending state");
- a queued job runs after the master flag was switched off
  (`intent/apply_job.py:296`; `docs/design/netbox-to-proxmox-intent.md:34`: "the apply
  job re-checks at runtime"), which is the counterexample of `apply_master_flag`;
- two diffs with one result key leave one entry: a job may be *succeeded* although one
  of them failed, or *failed* although the object of one is stamped
  (`intent/apply_job.py:203`);
- `docs/user-guide/cluster-nodes.md:190` tells users to set the tracking row's cluster by
  script or PATCH, which the save refuses: a new link needs the permit that only the
  protected synchronisation has (`models/proxmox_cluster.py:119`);
- tenant rules of a batch write main outside the branch, also when the batch fails
  (`sync_stages.py:618`; `docs/features/scheduled-sync.md:173`), which is why
  `Isolated` exempts them;
- two approvals that both read *pending* enqueue two executors, and both send the
  DELETE (`intent/deletion_executor.py:110`);
- neither the master flag nor the destroy confirmation is read again before the
  DELETE (`intent/deletion_executor.py:118`; `docs/operations/deletion-requests.md:29`);
- a worker that dies after its claim leaves *executing* for good
  (`intent/deletion_executor.py:128`);
- a job cancelled while queued still starts (`intent/apply_job.py:298`;
  `docs/operations/netbox-to-proxmox.md:250`);
- a run whose diffs were all skipped ends as *partial* (`intent/apply_job.py:220`);
- an exception outside the loop's handler, or a cancel that read the row earlier,
  loses the results of diffs that were sent (`intent/apply_job.py:623`);
- a branch that changes only firewall objects is planned, merged and never applied
  (`signal_receivers.py:78`);
- a staged run that meets its deadline with no endpoint enabled completes
  (`jobs.py:2659`; the comment at `sync_stages.py:1402`);
- a batch goes on after a preflight that the deadline cut off (`jobs.py:1144`);
- an endpoint disabled after the stage loop began is still contacted
  (`sync_stages.py:1440`);
- `enqueue()` can save its parameters over the recorded reason of a run that
  already failed (`jobs.py:2797`);
- a run without changes leaves its branch open (`services/branch_lifecycle.py:386`),
  and a conflict that appears after the check is merged (`:348`);
- the initial data replaces the ownership record (`jobs.py:1777`);
- a backfill that fails comes before the batch's per-object results are saved
  (`jobs.py:1927`);
- a deletion is said to be blocked until proxbox-api confirms that its grant is
  revoked (`models/proxmox_endpoint.py:879`, `docs/developer/endpoint-sync.md:259`), but
  a push already on its way, or the save of a stale instance, grants again after
  the check;
- a recorded fingerprint is said not to drift (`views/backend_sync.py:1502`), but two pushes
  that overtake each other, or a lost answer, leave the row saying one thing and the
  backend holding another until the next preflight; a stale full save also
  overwrites receipts (`docs/developer/endpoint-sync.md:660`);
- after generating a key, discovery rereads the row and uses its current key with the
  target frozen before (`services/endpoint_autoconfiguration.py:437`; `:279` says
  one target is frozen "across probe and credential check"): a key an operator has
  just saved for another target is sent to the old one, and the row then becomes
  untrusted;
- a command that a task has taken and not yet sent when it is cancelled or
  disconnected is never sent, and its button stays latched until the idle timeout
  (`websocket_client.py:1052`); a full queue answers 202 all the same;
- trust lost by the task of an old worker releases the buttons of runs of the
  worker that replaced it (`docs/developer/streaming-protocol.md:275`).

## Proofs

TLAPS checks the theorems for every value of the constants that satisfies the
`ASSUME` of the module: any number of rows, users, POSTs, diffs, endpoints,
requests, edits and crashes.

**DeletionRequestProof.** `TypeCorrect`, `FourEyesHolds`, `SucceededIsTrue`,
`SettledFinal`, and `WorkflowImplementsFourEyes`. `FourEyes` alone is not
inductive: the executor compares the columns it read, and those say less than
who asked, because deleting an account erases them. The invariant adds
`HandlerShape` (a job exists only for a finished approval and sends nothing
before its claim), `RequesterKnown` (a row or a copy of it names the asker, or
the asker's account is gone and can approve nothing) and `ApprovalsValid` (an
approval that was saved was valid when it was saved). The refinement follows by
the same invariant, one step per action.

**ApplyJobProof.** `VerdictSound` and `FailureUnstamped`, with `TypeCorrect` and
`Bookkeeping` under them, for any assignment of result keys to diffs. `Founded` says
that each diff the loop has finished has an entry under one of its keys, that a success
entry stands for a finished diff of that key which was applied or requested, and that
a stamped object still has its *applied* entry or shares the key with another finished
diff; `RowFromRun` says that only a finished run puts results or a success on the row
and that a cancel never read any. Where keys are distinct the two theorems say of each
diff what they say of its key.

**SyncJobProof.** `TypeCorrect`, `IsolationHolds`, `MergeSound`, `IdentityHolds`
from `InductiveHolds`. The invariant says what is known at each place of the run:
`NothingEarly` (nothing written, no branch, before its time), `OnPath` (which of the
two paths, with the key), `OursOrLate` (past the preflight the backend is ours or
no time is left), `Accounted` (every finished phase and scope has an outcome for
every endpoint), `CompleteBeforeMerge`. `Accounted` carries the loops: without it
a merge could follow an endpoint that was never visited. There is one lemma per
action; actions that leave the run's bookkeeping alone, or only end the run,
share the lemmas `Frame` and `Exit`.

`VerdictHolds`, `LeftOpenHolds` and `EvidenceKept` are about the job row and need a second
invariant, `Evidence` (`EvidenceHolds`): the status column follows the run
(`StatusFollows`); the worker's copy of the data and the column differ only after a late
save of `enqueue()` (`Synced`); neither claims a phase that the run has no result of
(`Within`); a disposition is recorded only of a branch that will not be merged (`Disposed`);
nothing looks like a final response before it is saved (`Provisional`), and from then on
the data is what the verdict was built from (`Concluded`). The response is saved in one step
and the verdict in a later one, so neither property is inductive alone. `EvidenceKept` is
an action theorem.

`SyncImplementsPublication` is the refinement, from `Inductive` and one fact more,
`FailuresStartEmpty`: the deadline record *replaces* the list of failed scopes, which would
forget a failure if it could be reached with one. A step of a busy run that forgets no
failure and merges nothing (`MovesOn`) is a piece of work, wherever its rows land
(`WorkIsWork`); the rest are the decision, the merge, the release of the row and the
death of the worker, which may fall between the merge and the release.

**ClusterBindingProof.** `TypeCorrect`, `OwnershipIsExclusive`, `SidecarsAgree`,
`AmbiguityIsLegacy`, `LockOrderIsSafe`, `BindingImplementsOwnership`, over any legacy rows
and retained owners. Exclusiveness and agreement of synchronised endpoints are inductive
only together (`Agreement`): a new owner is checked against the tracking rows and a new
tracking row against the owners. They need `Locking`: an endpoint has one holder, who
finds its row, its owner and its tracking row as they were when it locked. The absence
of a circular wait follows from it too: a transaction that holds a cluster and waits for
another is a preflight whose endpoint owns the first and has a row linked to the second,
so a circle of such waits is a `Ring`.

**EndpointPushProof.** `TypeCorrect`, `OnlyReviewedTargets`, `ApprovalNeverRevived`. The
invariant is `Provenance`: each instance a process holds was committed once, every approval it
carries was given, a payload was built from such an instance and for an approved
target, and a save that holds the row lock carries the approval of the row it will
overwrite. `Fine` states it per process, over the histories, so that it survives every
step of another process (`FineGrows`).

**BackendKeyProof.** `TypeCorrect`, `TrustProven`, `GeneratedDurable`, `DiscoveredOnce` and
`UpdatesKept`, for any number of processes, rows, keys and connection columns. The
invariant has a part per piece of state. `Fine` is what a process knows by itself: the key
of a check is the one that will be stored, or that of a row that was committed; a
proof in hand is one a backend gave, for this target and this key. `RowPart` says that a
stored fingerprint is the proof of the stored key: `TrustedIsProven` speaks of the
address of the moment and is not inductive without it. `LockPart` says that a save under
its row lock still sees the row it loaded, that no two hold one lock, and that an
insertion of discovery's is alone, under a primary key nobody else has, while no row
is discovery's own. `UpdatesKept` is an action theorem and follows from `LockPart` and the
conditional updates.

**WebSocketClientProof.** `TypeCorrect`, `SentOnceHolds`, `LatchHolds`, `CursorHolds` and
`LegacyHolds` from one invariant (`InvHolds`), for any number of endpoints, keys, buttons,
tasks, web threads, POSTs, connections and frames. Each property needs facts of
the others' subject:

- *at most once*: `Places` (a command is in the queue once, or with one task) and `Unsent`
  (nobody has run what is queued or in hand, nor an envelope whose peer may still reject
  it). The resend after a rejection is safe because of `Delivered`: a rejection that
  names a run, or a plain-text one, is under way only from a peer that runs no envelope;
- *the button*: `Claims` says that a tagged command owns its button already while it is
  queued or in hand, since it starts to run under that claim. A terminal that releases
  the button is the last word on its run (`ReleasedUnguarded`), which again rests on
  `Delivered`; a discard or a downgrade touches only the button of the run it is about
  (`DroppedSpares`, `DowngradeSpares`);
- *the cursor*: `Newest`, only the last accepted run is ever latched, so whatever ends
  later than a cursor is that run or a later one;
- *the rejection*: `Sessions`, connections are numbered and the cache speaks of the
  registered one, so an answer accepted by `Ask` is about a connection that has not refused.

Steps of one task share `RelayInv` (or `TaskMoves`, `ButtonsInv`), steps of web threads
`CalmInv`; a send (`ExecutesInv`), an accepted POST (`Accepted_Inv`) and a frame put on its way
(`DeliverInv`) have proofs of their own. The model's assumptions about proxbox-api (which
frames it sends, and that a peer either runs an envelope or rejects it) are assumptions
of these theorems as well.

Only model-checked: liveness (`ApprovedSettles`, `RowSettles`, `RunEnds`, `Converges`),
which rests on fairness and is outside the prover's reach. Every invariant, action
property and refinement that a run checks is also a theorem.

## What the models leave out

- A row owned by a foreign `sync_owner`: no code in the repository writes one, so
  the claim is never refused.
- ORM errors at an arbitrary `save`; the models have those failures that the code
  handles, and the death of a worker at any point.
- RQ's `JobTimeoutException` caught inside a stage as an ordinary failure; the
  model's deadline is the plugin's own.
- Another NetBox overwriting the backend's slot in the middle of a run. The code
  verifies the slot once, and the theorem on `WritesAreOurs` is about that.
- A branch that loses its *ready* status is noticed where the code looks at it:
  on activation and at the merge.
- In `EndpointPush`: the NetBoxEndpoint twin of the push, and the resolvers of
  backend ids that other requests use; `allow_writes` is treated as the Packer flag.
- In `ClusterBinding`: the locks that a deletion and a save of a sidecar take on their own
  rows, each held for a single step here. `NoDeadlock` is about synchronisation, preflight
  and tracking saves.
- In `BackendKey`: keys kept in OpenBao, a stored key that cannot be decrypted, saves
  that name some of the columns, an endpoint with both a domain and a fallback address,
  and discovery of the NetBoxEndpoint. The requests
  that use a trusted key are not modelled either: the test of trust and the
  construction of the URL read the address separately.
- In `WebSocketClient`: plain-text rejections from a peer that supports run ids (the
  documentation has only old ones send them, `docs/developer/streaming-protocol.md:315`), the paging of buffered messages, the parsing of cursors, permissions,
  and buttons other than the full update.
- Result texts, timings, progress percentages, log lines.

## Plan

Next, in this order:

1. `SyncStage`: attempts of one SSE stage, retry classes, capped delays and
   the deadline; the sync-mode cascade as pure operators checked against a
   reference definition. It refines the per-endpoint outcomes `SyncJob` assumes.
2. `BatchScope`: pinning of selected objects to backend ids, its refusals, and the
   endpoint backfill of sync states.
3. `EncryptionRecovery`: the rotation that verifies every value before it rewrites
   one, against writers that hold the old key.
4. `Scheduler`, `ServiceMonitoring`, `JobStream`, OpenBao.
5. A composition of `ApplyJob` with `DeletionRequest` over a shared row.
