---------------------------- MODULE WebSocketClient ----------------------------
(***************************************************************************)
(* websocket_client.py in one NetBox process: web threads that start the   *)
(* worker and POST sync commands, worker tasks on one event loop that      *)
(* authenticate, relay the queued commands and publish what the backend    *)
(* sends, and the sync buttons that let one run start at a time.           *)
(*                                                                         *)
(* A web thread's step is one critical section of websocket_lock; a task's *)
(* step is the code between two awaits, or between two such sections.      *)
(***************************************************************************)
EXTENDS Naturals, Sequences

CONSTANTS
    Endpoints,  \* primary keys of FastAPIEndpoint rows, a set of naturals
    Enabled,    \* the endpoints that are eligible at first
    Keys,       \* trusted target and API key of an endpoint
    Kinds,      \* sync buttons
    Tasks,      \* worker tasks on the event loop, running or being cancelled
    Users,      \* web threads
    None,
    MaxRuns,    \* bound: accepted POSTs
    MaxConns,   \* bound: authenticated connections
    MaxEdits,   \* bound: edits of endpoints, and saves that stop the worker
    MaxFrames,  \* bound: frames the backend sends
    MaxQueue    \* _MAX_MESSAGE_QUEUE_SIZE

Idents == Endpoints \X Keys
Runs == 1..MaxRuns
Conns == 1..MaxConns
Foreign == MaxRuns + 1   \* the run id of somebody else's run

ASSUME ConstantsAssumption ==
    /\ Endpoints \subseteq Nat
    /\ Kinds \subseteq {"devices", "virtual-machines", "full-update"}
    /\ MaxRuns \in Nat /\ MaxConns \in Nat /\ MaxEdits \in Nat
    /\ MaxFrames \in Nat /\ MaxQueue \in Nat
    /\ None \notin Idents \cup Tasks \cup (Idents \X Conns)
    /\ {"off", "bare"} \cap Keys = {}

VARIABLES
    db,         \* endpoint rows: not eligible, without a trusted key, or the key
    worker,     \* websocket_task: a task, or None
    workerId,   \* websocket_task_identity
    connection, \* websocket_connection_identity
    cap,        \* _ws_capability_cache for the registered connection
    queue,      \* message_queue
    button,     \* ws_sync_button_state: the run a button is latched for, or 0
    tagged,     \* whether ws_sync_run_id holds that run's id
    quiet,      \* SYNC_LATCH_IDLE_TIMEOUT_SEC have passed without activity
    task,
    user,
    inbox,      \* frames on their way from the backend, per task
    running,    \* the backend's active runs
    accepted,   \* POSTs accepted so far
    conns,      \* connections opened so far
    edits,
    frames,
    runs,       \* history: what is known of each accepted POST
    refused     \* history: connections whose peer was seen to reject a run id

state == <<worker, workerId, connection, cap, queue, button, tagged, quiet>>
history == <<runs, refused>>
bounds == <<accepted, conns, edits, frames>>
vars == <<db, state, task, user, inbox, running, bounds, history>>

---------------------------------------------------------------------------
(***************************************************************************)
(* A queued command is the run it belongs to; runs[n] holds its button,    *)
(* the identity that authorised it, whether it was tagged, and the cursor  *)
(* the client got: a position in the message buffer, that is, the runs     *)
(* whose terminal was buffered before it.  Then what became of it: how     *)
(* often it was sent to be run and to whom, and whether its button was     *)
(* released by a terminal, or by the idle timeout or trust loss.           *)
(***************************************************************************)
NoRun == [kind |-> None, id |-> None, tagged |-> FALSE, cursor |-> {},
          sent |-> 0, to |-> {}, ended |-> FALSE, excused |-> FALSE]

NoTask == [pc |-> "none", id |-> None, cancel |-> "no", conn |-> 0,
           peer |-> None, hand |-> 0, supports |-> FALSE, pending |-> 0]

NoUser == [pc |-> "idle", kind |-> None, id |-> None, conn |-> None, tag |-> FALSE]

Ended == {n \in Runs : runs[n].ended}

(* _load_websocket_credentials with an expected identity.                  *)
Trusted(id) == db[id[1]] = id[2]

(* ws_sync_run_id[k], and the run_id of a queued command; 0 is Python None.*)
RunId(k) == IF tagged[k] THEN button[k] ELSE 0
TagOf(n) == IF runs[n].tagged THEN n ELSE 0

(* _active_correlated_run_ids *)
ActiveRunIds == {RunId(k) : k \in Kinds} \ {0}

(* The buttons _release_command_locked releases for a set of commands.     *)
Dropped(ns) == {k \in Kinds : \E n \in ns : runs[n].kind = k /\ RunId(k) = TagOf(n)}

Release(ks) ==
    /\ button' = [k \in Kinds |-> IF k \in ks THEN 0 ELSE button[k]]
    /\ tagged' = [k \in Kinds |-> tagged[k] /\ k \notin ks]

Queued == {queue[i] : i \in 1..Len(queue)}

(***************************************************************************)
(* cancel() is carried out on the loop: a task that is running, or about   *)
(* to be woken, still goes on to its next await, where it ends.            *)
(***************************************************************************)
Set(w, t) == task' = [task EXCEPT ![w] = [t EXCEPT !.cancel = IF @ = "asked" THEN "due" ELSE @]]
Goto(w, pc) == Set(w, [task[w] EXCEPT !.pc = pc])
Resumes(w) == task[w].cancel # "due"
Leave(u) == user' = [user EXCEPT ![u] = NoUser]

---------------------------------------------------------------------------
Init ==
    /\ \E k \in Keys : db = [e \in Endpoints |-> IF e \in Enabled THEN k ELSE "off"]
    /\ worker = None /\ workerId = None /\ connection = None /\ cap = "none"
    /\ queue = <<>>
    /\ button = [k \in Kinds |-> 0] /\ tagged = [k \in Kinds |-> FALSE]
    /\ quiet = FALSE
    /\ task = [w \in Tasks |-> NoTask]
    /\ user = [u \in Users |-> NoUser]
    /\ inbox = [w \in Tasks |-> <<>>]
    /\ running = {}
    /\ accepted = 0 /\ conns = 0 /\ edits = 0 /\ frames = 0
    /\ runs = [n \in Runs |-> NoRun] /\ refused = {}

---------------------------------------------------------------------------
(* Web threads.                                                            *)

(* Cancels the worker, if it still runs, while other fields of tasks stay. *)
Cancelled(tasks) ==
    [w \in Tasks |-> IF w = worker /\ tasks[w].pc # "none"
                     THEN [tasks[w] EXCEPT !.cancel = "asked"] ELSE tasks[w]]

(* stop_websocket for endpoint e: commands that were never sent lose their *)
(* buttons, the worker is cancelled and its connection forgotten.          *)
Stop(e) ==
    IF workerId = None \/ (workerId # None /\ workerId[1] # e)
    THEN UNCHANGED <<state, task>>
    ELSE /\ worker' = None /\ workerId' = None
         /\ task' = Cancelled(task)
         /\ IF connection # None /\ connection[1][1] = e
            THEN connection' = None /\ cap' = "none"
            ELSE UNCHANGED <<connection, cap>>
         /\ Release(Dropped(Queued)) /\ queue' = <<>>
         /\ UNCHANGED quiet

(* The worker's endpoint is saved in this process: post_save stops it.     *)
Save(e) ==
    /\ edits < MaxEdits /\ workerId # None /\ workerId[1] = e
    /\ Stop(e)
    /\ edits' = edits + 1
    /\ UNCHANGED <<db, user, inbox, running, accepted, conns, frames, history>>

(* The saved row is committed, here or by another NetBox process.          *)
Commit(e) ==
    /\ edits < MaxEdits
    /\ \E v \in (Keys \cup {"off", "bare"}) \ {db[e]} : db' = [db EXCEPT ![e] = v]
    /\ edits' = edits + 1
    /\ UNCHANGED <<state, task, user, inbox, running, accepted, conns, frames, history>>

(* _ensure_worker selects the first eligible endpoint.                     *)
Request(u, k) ==
    /\ user[u].pc = "idle" /\ accepted < MaxRuns
    /\ \E e \in Endpoints :
           /\ db[e] # "off" /\ \A f \in Endpoints : f < e => db[f] = "off"
           /\ user' = [user EXCEPT ![u] =
                           [NoUser EXCEPT !.pc = "load", !.kind = k, !.id = <<e, "bare">>]]
    /\ UNCHANGED <<db, state, task, inbox, running, bounds, history>>

(* start_websocket loads its credentials: there are none when the row is   *)
(* no longer eligible or has no trusted key.                               *)
Load(u) ==
    /\ user[u].pc = "load"
    /\ LET e == user[u].id[1]
       IN  user' = [user EXCEPT ![u].pc = "start",
                                ![u].id = <<e, IF db[e] = "off" THEN "bare" ELSE db[e]>>]
    /\ UNCHANGED <<db, state, task, inbox, running, bounds, history>>

(***************************************************************************)
(* start_websocket after the credentials: without them the worker stops; a *)
(* worker of the same identity stays; any other is cancelled, its queue    *)
(* discarded and a new one started.  A poll (GET) goes no further.         *)
(***************************************************************************)
Start(u) ==
    /\ user[u].pc = "start"
    /\ LET id == user[u].id
           alive == worker # None /\ task[worker].pc # "none"
           stays == alive /\ workerId = id
       IN  \/ /\ id[2] = "bare"
              /\ Stop(id[1]) /\ Leave(u)
           \/ /\ id[2] # "bare"
              /\ IF stays THEN UNCHANGED <<state, task>>
                 ELSE /\ \E w \in Tasks :
                             /\ task[w].pc = "none"
                             /\ task' = [Cancelled(task) EXCEPT ![w] =
                                             [NoTask EXCEPT !.pc = "connect", !.id = id]]
                             /\ worker' = w
                      /\ workerId' = id
                      /\ IF workerId = None THEN UNCHANGED <<queue, button, tagged>>
                         ELSE Release(Dropped(Queued)) /\ queue' = <<>>
                      /\ UNCHANGED <<connection, cap, quiet>>
              /\ user' = [user EXCEPT ![u] =
                             IF user[u].kind = None THEN NoUser
                             ELSE [user[u] EXCEPT !.pc = "context"]]
    /\ UNCHANGED <<db, inbox, running, bounds, history>>

(* What a POST takes from worker id of its endpoint, whoever started it:   *)
(* its connection, and the cached capability when there is one.            *)
Context(u, id) ==
    LET own == connection # None /\ connection[1] = id
    IN  [user[u] EXCEPT !.id = id,
                        !.conn = IF own THEN connection ELSE None,
                        !.tag = own /\ cap = "yes",
                        !.pc = IF own /\ cap = "none" THEN "probe" ELSE "queue"]

(* _command_dispatch_context: refused when the endpoint has no worker now. *)
Dispatch(u) ==
    /\ user[u].pc = "context"
    /\ IF workerId # None /\ workerId[1] = user[u].id[1]
       THEN user' = [user EXCEPT ![u] = Context(u, workerId)]
       ELSE Leave(u)
    /\ UNCHANGED <<db, state, task, inbox, running, bounds, history>>

(* The probe is answered: a rejection that arrived meanwhile wins, and the *)
(* answer for another connection is not kept.                              *)
Probe(u) ==
    /\ user[u].pc = "probe"
    /\ \E yes \in BOOLEAN :
           LET valid == connection = user[u].conn /\ cap # "rejected"
           IN  /\ cap' = IF valid THEN (IF yes THEN "yes" ELSE "no") ELSE cap
               /\ user' = [user EXCEPT ![u].pc = "queue", ![u].tag = valid /\ yes]
    /\ UNCHANGED <<db, worker, workerId, connection, queue, button, tagged, quiet,
                   task, inbox, running, bounds, history>>

(* _expire_idle_sync_latch_locked: every latched button, with its run.     *)
Idle == quiet /\ \E k \in Kinds : button[k] # 0

Latched == {n \in Runs : \E k \in Kinds : button[k] = n}

Fits_OffByOne == Len(queue) <= MaxQueue

(* send_message *)
Fits == Len(queue) < MaxQueue

Cursor_OffByOne(n) == Ended \ {n - 1}

(* format_message_cursor(_last_sequence), handed to the client of run n.   *)
Cursor(n) == Ended

(***************************************************************************)
(* _queue_sync_command: refused when the worker or the connection of the   *)
(* context was replaced, or while any button is latched and not idle.  A   *)
(* full queue drops the command and the button stays latched without id.   *)
(***************************************************************************)
Queue(u) ==
    /\ user[u].pc = "queue"
    /\ Leave(u)
    /\ LET k == user[u].kind
           n == accepted + 1
           open == Idle \/ \A b \in Kinds : button[b] = 0
       IN  IF /\ workerId = user[u].id
              /\ user[u].conn = None \/ connection = user[u].conn
              /\ open /\ n \in Runs
           THEN /\ button' = [b \in Kinds |-> IF b = k THEN n ELSE 0]
                /\ tagged' = [b \in Kinds |-> b = k /\ Fits /\ user[u].tag]
                /\ queue' = IF Fits THEN Append(queue, n) ELSE queue
                /\ quiet' = FALSE /\ accepted' = n
                /\ runs' = [m \in Runs |->
                       IF m = n
                       THEN [NoRun EXCEPT !.kind = k, !.id = workerId, !.cursor = Cursor(n),
                                          !.tagged = Fits /\ user[u].tag]
                       ELSE [runs[m] EXCEPT !.excused = @ \/ m \in Latched]]
           ELSE UNCHANGED <<button, tagged, queue, quiet, accepted, runs>>
    /\ UNCHANGED <<db, worker, workerId, connection, cap, task, inbox, running, conns,
                   edits, frames, refused>>

(* Time: the idle timeout and the lifetime of a cached capability.         *)
TimePasses ==
    /\ ~quiet /\ \E k \in Kinds : button[k] # 0
    /\ quiet' = TRUE
    /\ UNCHANGED <<db, worker, workerId, connection, cap, queue, button, tagged,
                   task, user, inbox, running, bounds, history>>

CapabilityExpires ==
    /\ cap \in {"yes", "no"}
    /\ cap' = "none"
    /\ UNCHANGED <<db, worker, workerId, connection, queue, button, tagged, quiet,
                   task, user, inbox, running, bounds, history>>

---------------------------------------------------------------------------
(* The worker task: websocket_client and _connect_and_relay.               *)

Session(w) == <<task[w].id, task[w].conn>>

(* _close_connection_session; positive answers for the identity go too.    *)
CloseSession(w) ==
    IF connection = Session(w) THEN connection' = None /\ cap' = "none"
    ELSE /\ cap' = IF cap = "yes" /\ connection # None /\ connection[1] = task[w].id
                   THEN "none" ELSE cap
         /\ UNCHANGED connection

(***************************************************************************)
(* The loop checks the trust, shakes hands, checks again, sends the key    *)
(* and registers the session; peer is whether this backend understands run *)
(* ids.  Lost trust ends the worker.                                       *)
(***************************************************************************)
Connect(w) ==
    /\ task[w].pc = "connect" /\ Resumes(w) /\ conns < MaxConns
    /\ IF Trusted(task[w].id)
       THEN /\ \E p \in {"modern", "legacy"} :
                   Set(w, [task[w] EXCEPT !.pc = "relay", !.conn = conns + 1, !.peer = p])
            /\ conns' = conns + 1
            /\ connection' = <<task[w].id, conns + 1>> /\ cap' = "none"
       ELSE Set(w, NoTask) /\ UNCHANGED <<conns, connection, cap>>
    /\ UNCHANGED <<db, worker, workerId, queue, button, tagged, quiet, user, inbox,
                   running, accepted, edits, frames, history>>

(* A refused handshake (401, 403, a redirect) ends the worker, and so does *)
(* a cancellation; after any other failure it is tried again.              *)
ConnectFails(w) ==
    /\ task[w].pc = "connect"
    /\ Set(w, NoTask)
    /\ UNCHANGED <<db, state, user, inbox, running, bounds, history>>

(* _active_pending_envelope: only while its run still owns its button.     *)
Pending(w) ==
    LET n == task[w].pending
    IN  IF n # 0 /\ button[runs[n].kind] = n /\ tagged[runs[n].kind] THEN n ELSE 0

(* _require_transmission_trust between two reads, before a command is      *)
(* formatted, or before a rejected one is sent again.                      *)
TrustLost(w) ==
    /\ task[w].pc \in {"relay", "trust", "rejected"} /\ Resumes(w)
    /\ ~Trusted(task[w].id) /\ Goto(w, "lost")
    /\ UNCHANGED <<db, state, user, inbox, running, bounds, history>>

(* The same check before a command is taken from the queue.                *)
Recheck(w) ==
    /\ task[w].pc = "relay" /\ Resumes(w)
    /\ Trusted(task[w].id) /\ Pending(w) = 0 /\ queue # <<>>
    /\ Set(w, [task[w] EXCEPT !.pc = "take", !.pending = 0])
    /\ UNCHANGED <<db, state, user, inbox, running, bounds, history>>

Bound(w, n) == runs[n].id = task[w].id

(* get_nowait: a concurrent discard may have emptied the queue.            *)
Take(w) ==
    /\ task[w].pc = "take"
    /\ IF queue = <<>> THEN Goto(w, "relay") /\ UNCHANGED queue
       ELSE /\ queue' = Tail(queue)
            /\ Set(w, [task[w] EXCEPT !.hand = Head(queue), !.supports = FALSE,
                   !.pc = IF Bound(w, Head(queue)) /\ runs[Head(queue)].tagged
                          THEN "ask" ELSE "trust"])
    /\ UNCHANGED <<db, worker, workerId, connection, cap, button, tagged, quiet,
                   user, inbox, running, bounds, history>>

(* _backend_supports_ws_run_id with refresh for a tagged command.          *)
Ask(w) ==
    /\ task[w].pc = "ask" /\ Resumes(w)
    /\ \E yes \in BOOLEAN :
           LET valid == connection = Session(w) /\ cap # "rejected"
           IN  /\ cap' = IF valid THEN (IF yes THEN "yes" ELSE "no") ELSE cap
               /\ Set(w, [task[w] EXCEPT !.pc = "trust", !.supports = valid /\ yes])
    /\ UNCHANGED <<db, worker, workerId, connection, queue, button, tagged, quiet,
                   user, inbox, running, bounds, history>>

(* _downgrade_queued_run: while run n owns its button, it loses its id and *)
(* the client is told.                                                     *)
Owns(n) == button[runs[n].kind] = n /\ tagged[runs[n].kind]

Downgrade(n) ==
    IF Owns(n)
    THEN /\ tagged' = [tagged EXCEPT ![runs[n].kind] = FALSE]
         /\ quiet' = FALSE
    ELSE UNCHANGED <<tagged, quiet>>

(***************************************************************************)
(* _require_transmission_trust and _command_for_worker: a command of       *)
(* another identity is dropped and its button released; a tagged one goes  *)
(* out as an envelope only if the backend supports it, and is otherwise    *)
(* downgraded first.                                                       *)
(***************************************************************************)
Format(w) ==
    /\ task[w].pc = "trust" /\ Resumes(w) /\ Trusted(task[w].id)
    /\ LET n == task[w].hand
           plain == ~task[w].supports
       IN  IF ~Bound(w, n)
           THEN /\ Release(Dropped({n})) /\ UNCHANGED quiet
                /\ Set(w, [task[w] EXCEPT !.pc = "relay", !.hand = 0])
           ELSE /\ IF runs[n].tagged /\ plain THEN Downgrade(n)
                   ELSE UNCHANGED <<tagged, quiet>>
                /\ Set(w, [task[w] EXCEPT !.pc = "send", !.supports = FALSE,
                                          !.pending = IF plain THEN 0 ELSE n])
                /\ UNCHANGED button
    /\ UNCHANGED <<db, worker, workerId, connection, cap, queue, user, inbox, running,
                   bounds, history>>

Frame(type, object, run) == [type |-> type, object |-> object, run |-> run]

(* The backend starts run n, with its id when it came in an envelope.      *)
Executes(w, n, id) ==
    /\ running' = running \cup {[run |-> n, conn |-> task[w].conn, id |-> id]}
    /\ runs' = [runs EXCEPT ![n].sent = @ + 1, ![n].to = @ \cup {task[w].id}]

(* websocket.send: an older peer rejects an envelope, in plain text or by  *)
(* its id.                                                                 *)
Send(w) ==
    /\ task[w].pc = "send"
    /\ LET n == task[w].hand
           envelope == task[w].pending = n
       IN  \/ /\ envelope => task[w].peer = "modern"
              /\ Executes(w, n, IF envelope THEN n ELSE 0)
              /\ UNCHANGED inbox
           \/ /\ envelope /\ task[w].peer = "legacy"
              /\ \E f \in {Frame("text", None, 0), Frame("reject", None, n)} :
                     inbox' = [inbox EXCEPT ![w] = Append(@, f)]
              /\ UNCHANGED <<running, runs>>
    /\ Set(w, [task[w] EXCEPT !.pc = "relay", !.hand = 0])
    /\ UNCHANGED <<db, state, user, bounds, refused>>

(* _fail_active_syncs_for_trust_loss, whoever the buttons belong to.       *)
FailActive(w) ==
    /\ task[w].pc = "lost"
    /\ LET held == {k \in Kinds : button[k] # 0}
       IN  /\ Release(held)
           /\ quiet' = (quiet /\ held = {})
    /\ runs' = [n \in Runs |-> [runs[n] EXCEPT !.excused = @ \/ n \in Latched]]
    /\ Goto(w, "closing")
    /\ UNCHANGED <<db, worker, workerId, connection, cap, queue, user, inbox, running,
                   bounds, refused>>

(* Awaits at which a cancellation or an exception reaches the task.        *)
Awaiting == {"relay", "ask", "trust", "send", "rejected", "resend"}

(* After trust loss; or when the connection breaks or a check raises, in   *)
(* which case the command in hand is lost and the worker connects again;   *)
(* or when the task was cancelled.                                         *)
Close(w) ==
    /\ \/ task[w].pc = "closing" /\ Set(w, NoTask)
       \/ task[w].pc \in Awaiting /\ Resumes(w)
          /\ Set(w, [NoTask EXCEPT !.pc = "connect", !.id = task[w].id,
                                   !.cancel = task[w].cancel])
       \/ task[w].pc \in Awaiting /\ task[w].cancel # "no" /\ Set(w, NoTask)
    /\ CloseSession(w)
    /\ inbox' = [inbox EXCEPT ![w] = <<>>]
    /\ UNCHANGED <<db, worker, workerId, queue, button, tagged, quiet, user,
                   running, bounds, history>>

---------------------------------------------------------------------------
(* Backend frames.                                                         *)

(* _candidate_buttons *)
Candidates(f) ==
    {k \in Kinds :
        \/ f.object = "device" /\ k = "devices"
        \/ f.object = "virtual_machine" /\ k \in {"virtual-machines", "full-update"}
        \/ f.object = "full-update" /\ k = "full-update"}

RunMatches_AnyRun(f, k) == k = "full-update" /\ RunId(k) # 0 => f.object = "full-update"

(* _run_matches_button: a tagged full update waits for its aggregate.      *)
RunMatches(f, k) ==
    /\ f.run = RunId(k)
    /\ f.run # 0 /\ k = "full-update" => f.object = "full-update"

ReleasedBy(f) ==
    {k \in Candidates(f) : f.type = "end" /\ button[k] # 0 /\ RunMatches(f, k)}

(* _message_marks_sync_activity; a malformed frame is only buffered.       *)
Active(f) == f.type # "malformed" /\ (ActiveRunIds = {} \/ f.run \in ActiveRunIds)

(* publish_backend_message: release and append in one critical section.    *)
Publish(f) ==
    /\ Release(ReleasedBy(f))
    /\ quiet' = (quiet /\ ~Active(f))
    /\ runs' = [n \in Runs |-> IF \E k \in ReleasedBy(f) : button[k] = n
                               THEN [runs[n] EXCEPT !.ended = TRUE] ELSE runs[n]]

Rejects_AnyRun(f, n) == f.type \in {"text", "reject"}

(* _is_invalid_command_frame *)
Rejects(f, n) == f.type = "text" \/ (f.type = "reject" /\ f.run = n)

(* _handle_connected_response *)
Receive(w) ==
    /\ task[w].pc = "relay" /\ Resumes(w) /\ inbox[w] # <<>>
    /\ inbox' = [inbox EXCEPT ![w] = Tail(@)]
    /\ LET f == Head(inbox[w])
           n == Pending(w)
       IN  IF n # 0 /\ Rejects(f, n)
           THEN /\ Set(w, [task[w] EXCEPT !.pc = "rejected", !.pending = n])
                /\ UNCHANGED <<button, tagged, quiet, runs>>
           ELSE /\ Publish(f)
                /\ Set(w, [task[w] EXCEPT !.pending = IF f.run = n THEN 0 ELSE n])
    /\ UNCHANGED <<db, worker, workerId, connection, cap, queue, user, running, bounds,
                   refused>>

Negative_Expiring == "no"

(* _mark_connection_capability_negative: an answer that never expires and  *)
(* that no later probe replaces.                                           *)
Negative == "rejected"

(***************************************************************************)
(* The envelope was rejected and the endpoint is still trusted: the        *)
(* connection is legacy from now on, and the command is sent bare if its   *)
(* run still owns the button.                                              *)
(***************************************************************************)
Rejected(w) ==
    /\ task[w].pc = "rejected" /\ Resumes(w) /\ Trusted(task[w].id)
    /\ cap' = IF connection = Session(w) THEN Negative ELSE cap
    /\ refused' = refused \cup {task[w].conn}
    /\ Downgrade(task[w].pending)
    /\ Set(w, [task[w] EXCEPT !.pending = 0,
           !.hand = IF Owns(task[w].pending) THEN task[w].pending ELSE 0,
           !.pc = IF Owns(task[w].pending) THEN "resend" ELSE "relay"])
    /\ UNCHANGED <<db, worker, workerId, connection, queue, button, user, inbox, running,
                   bounds, runs>>

Resend(w) ==
    /\ task[w].pc = "resend"
    /\ Executes(w, task[w].hand, 0)
    /\ Set(w, [task[w] EXCEPT !.pc = "relay", !.hand = 0])
    /\ UNCHANGED <<db, state, user, inbox, bounds, refused>>

(* What the backend may send on an open connection: progress and stage     *)
(* terminals of the runs it received there, the terminal of one that ends, *)
(* and whatever it broadcasts of other clients' runs.  A modern backend    *)
(* rejects in JSON frames only: a plain-text rejection is an old backend's *)
(* (docs/developer/streaming-protocol.md) and has no owner to compare.     *)
EndObject(kind) ==
    CASE kind = "devices" -> "device"
      [] kind = "virtual-machines" -> "virtual_machine"
      [] OTHER -> "full-update"

Objects == {EndObject(k) : k \in Kinds} \cup {"virtual_machine"}

OwnFrames(r) ==
    {Frame("progress", None, r.id)}
    \cup {Frame("end", o, r.id) : o \in
             {x \in {"device", "virtual_machine"} : runs[r.run].kind = "full-update"}}

Broadcast ==
    {Frame("end", o, i) : o \in Objects, i \in {0, Foreign}}
    \cup {Frame("reject", None, i) : i \in {0, Foreign}}
    \cup {Frame("malformed", None, 0)}

Deliver(w, f) ==
    /\ task[w].conn # 0 /\ frames < MaxFrames
    /\ frames' = frames + 1
    /\ inbox' = [inbox EXCEPT ![w] = Append(@, f)]

Here(w) == {r \in running : r.conn = task[w].conn}

Emit(w) ==
    /\ \E f \in Broadcast \cup UNION {OwnFrames(r) : r \in Here(w)} : Deliver(w, f)
    /\ UNCHANGED <<db, state, task, user, running, accepted, conns, edits, history>>

(* A run ends with its terminal; an untagged full update has none but that *)
(* of its virtual-machine stage.  One that ends in silence just sends      *)
(* nothing more.                                                           *)
Finish(w) ==
    /\ \E r \in Here(w) :
           LET kind == runs[r.run].kind
           IN  /\ running' = running \ {r}
               /\ Deliver(w, Frame("end", IF r.id = 0 /\ kind = "full-update"
                                          THEN "virtual_machine" ELSE EndObject(kind), r.id))
    /\ UNCHANGED <<db, state, task, user, accepted, conns, edits, history>>

---------------------------------------------------------------------------
TaskStep(w) ==
    \/ Connect(w) \/ ConnectFails(w) \/ TrustLost(w) \/ Recheck(w) \/ Take(w) \/ Ask(w)
    \/ Format(w) \/ Send(w) \/ FailActive(w) \/ Close(w)
    \/ Receive(w) \/ Rejected(w) \/ Resend(w)

UserStep(u) == Load(u) \/ Start(u) \/ Dispatch(u) \/ Probe(u) \/ Queue(u)

Next ==
    \/ \E e \in Endpoints : Save(e) \/ Commit(e)
    \/ \E u \in Users : UserStep(u) \/ \E k \in Kinds \cup {None} : Request(u, k)
    \/ \E w \in Tasks : TaskStep(w) \/ Emit(w) \/ Finish(w)
    \/ TimePasses \/ CapabilityExpires

Spec == Init /\ [][Next]_vars

---------------------------------------------------------------------------
TaskSteps == {"none", "connect", "relay", "take", "ask", "trust", "send",
              "lost", "closing", "rejected", "resend"}

(* Types; what a command in hand or a pending envelope refers to exists,   *)
(* and a task is connected exactly while it relays.                        *)
TypeOK ==
    /\ db \in [Endpoints -> Keys \cup {"off", "bare"}]
    /\ worker \in Tasks \cup {None} /\ workerId \in Idents \cup {None}
    /\ connection \in (Idents \X Conns) \cup {None}
    /\ cap \in {"none", "yes", "no", "rejected"}
    /\ queue \in Seq(Runs) /\ Len(queue) <= MaxQueue
    /\ button \in [Kinds -> Runs \cup {0}] /\ tagged \in [Kinds -> BOOLEAN]
    /\ quiet \in BOOLEAN
    /\ task \in [Tasks -> [pc : TaskSteps, id : Idents \cup {None}, cancel : {"no", "asked", "due"},
                           conn : Conns \cup {0}, peer : {"modern", "legacy", None},
                           hand : Runs \cup {0}, supports : BOOLEAN,
                           pending : Runs \cup {0}]]
    /\ user \in [Users -> [pc : {"idle", "load", "start", "context", "probe", "queue"},
                           kind : Kinds \cup {None},
                           id : (Endpoints \X (Keys \cup {"bare"})) \cup {None},
                           conn : (Idents \X Conns) \cup {None}, tag : BOOLEAN]]
    /\ \A w \in Tasks :
           /\ task[w].pc # "none" => task[w].id # None
           /\ task[w].conn # 0 <=> task[w].pc \notin {"none", "connect"}
           /\ task[w].pc \in {"ask", "trust", "send", "resend"} => task[w].hand # 0
           /\ task[w].pc = "rejected" => task[w].pending # 0
           /\ \A n \in {task[w].hand, task[w].pending} \ {0} : runs[n] # NoRun
    /\ \A n \in Queued : runs[n] # NoRun
    /\ \A k \in Kinds : button[k] # 0 => runs[button[k]].kind = k

(***************************************************************************)
(* "A command can never reach a different endpoint after the worker is     *)
(* stopped or replaced", and "foreign, malformed, and late rejection       *)
(* frames never replay a command": whatever the workers, connections and   *)
(* rejections, a command is run at most once, and only by the identity     *)
(* that authorised it.                                                     *)
(***************************************************************************)
SentOnceToAuthorised ==
    \A n \in Runs : runs[n].sent <= 1 /\ runs[n].to \subseteq {runs[n].id}

(***************************************************************************)
(* A run the backend works on under its run id keeps its button latched,   *)
(* so no second run starts, until its own terminal, the idle timeout or    *)
(* trust loss: no other run's terminal and no discarded command of another *)
(* run releases it.                                                        *)
(***************************************************************************)
RunningIsLatched ==
    \A r \in running :
        r.id # 0 => button[runs[r.run].kind] = r.run \/ runs[r.run].excused

(***************************************************************************)
(* publish_backend_message and _queue_sync_command: the cursor given to a  *)
(* client separates its run from the earlier ones: a terminal that         *)
(* released an earlier run's button lies before it, and the run's own one  *)
(* after it.  A run given up by the idle timeout or on trust loss has no   *)
(* such terminal, and what it still sends may be read later.               *)
(***************************************************************************)
CursorSeparatesRuns ==
    \A n \in Ended, m \in Runs :
        /\ n \notin runs[n].cursor
        /\ m > n /\ runs[m] # NoRun => n \in runs[m].cursor

(***************************************************************************)
(* "An envelope rejection recorded while a probe is in flight overrides    *)
(* that probe's result": later commands on that connection remain legacy.  *)
(***************************************************************************)
RefusedStaysLegacy ==
    \A w \in Tasks :
        task[w].pc = "send" /\ task[w].pending = task[w].hand => task[w].conn \notin refused
====
