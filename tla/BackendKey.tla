------------------------------ MODULE BackendKey ------------------------------
(***************************************************************************)
(* How a FastAPIEndpoint row comes to be trusted with an API key: saves    *)
(* through the model's key gate, discovery after a commit or at startup,   *)
(* and proxbox_fix_tokens, against proxbox-api backends whose keys others  *)
(* change too.  A row is trusted while it is enabled and its stored        *)
(* fingerprint is that of the target its columns name now.                 *)
(*                                                                         *)
(* A step is one database statement or short transaction, or one HTTP      *)
(* request.  A save holds its row lock, and the lock of the IPAddress it   *)
(* uses, from the gate to the end of the outermost transaction.            *)
(***************************************************************************)
EXTENDS Naturals

CONSTANTS
    Cfgs,         \* what the connection columns of a row may say
    Named,        \* those that reach the backend by its domain, not by address
    Discoverable, \* those discovery may write for a row of its own
    Addresses,    \* values of the IPAddress the other columns point to
    Submitted,    \* API keys operators retain and submit
    Procs,        \* requests, startup threads and commands
    Blank,        \* the token is assigned, but empty
    Null,
    MaxRows,      \* bound: rows inserted
    MaxGenerated, \* bound: keys the plugin generates
    MaxEdits      \* bound: what operators and others change

Pks == 1..MaxRows
Generated == 1..MaxGenerated
Keys == Submitted \cup Generated

ASSUME ConstantsAssumption ==
    /\ Named \subseteq Cfgs /\ Discoverable \subseteq Cfgs
    /\ MaxRows \in Nat \ {0} /\ MaxGenerated \in Nat /\ MaxEdits \in Nat
    /\ Submitted \cap Generated = {} /\ Blank \notin Keys \cup {Null}
    /\ Null \notin Cfgs \cup Addresses \cup Keys \cup (Cfgs \X (Addresses \cup {Null}))

VARIABLES
    row,        \* FastAPIEndpoint rows, as committed
    addr,       \* the IPAddress's value
    keys,       \* the keys each target's backend accepts
    proc,
    issued,     \* primary keys issued so far
    generated,  \* keys generated so far
    edits,
    durable,    \* history: generated keys that were ever committed
    proven      \* history: the targets and keys a backend was seen to accept

vars == <<row, addr, keys, proc, issued, generated, edits, durable, proven>>

---------------------------------------------------------------------------
(* backend_key_target and backend_key_target_fingerprint of columns c.     *)
Target(c, a) == <<c, IF c \in Named THEN Null ELSE a>>

Targets == {Target(c, a) : c \in Cfgs, a \in Addresses}

NoRow == [enabled |-> FALSE, cfg |-> Null, key |-> Null, fp |-> Null, auto |-> FALSE]

Rows == [enabled : BOOLEAN, cfg : Cfgs, key : Keys \cup {Null},
         fp : Targets \cup {Null}, auto : BOOLEAN]

(* backend_key_runtime_is_trusted *)
Trusted(r) == r.enabled /\ r.fp # Null /\ r.fp = Target(r.cfg, addr)

(***************************************************************************)
(* A process: the row it loaded (its optimistic-lock signature) and its    *)
(* primary key, or 0 for a row still to be inserted; the row its           *)
(* transaction will write, and whether it inserts it; whether a save,      *)
(* discovery (nested when its caller has a transaction open) or the        *)
(* command is at work; the key and target of the check in progress; and    *)
(* the target of a proof the command brings.  A row is auto if discovery   *)
(* inserted it; one that a form inserts again is the operator's.           *)
(***************************************************************************)
Idle == [pc |-> "idle", mode |-> Null, pk |-> 0, old |-> NoRow, new |-> NoRow,
         ins |-> FALSE, cand |-> Null, to |-> Null, proof |-> Null]

Set(p, q) == proc' = [proc EXCEPT ![p] = q]
Leave(p) == Set(p, Idle)

(* A save that passed the gate, or discovery that stored a key inside its  *)
(* caller's transaction, until the transaction ends.                       *)
InSave(q) == \/ q.mode = "save" /\ q.pc \in {"status", "keys", "register", "write"}
             \/ q.mode = "nested" /\ q.pc = "write"

Locked(pk) == \E p \in Procs : InSave(proc[p]) /\ proc[p].pk = pk /\ ~proc[p].ins
AddressLocked ==
    \E p \in Procs :
        /\ (InSave(proc[p]) /\ proc[p].mode = "save") \/ proc[p].pc = "insert"
        /\ proc[p].new.cfg \notin Named

Existing == {pk \in Pks : row[pk] # NoRow}

(***************************************************************************)
(* At first there is no row, or one from an older release: it may have a   *)
(* key but was never proven.                                               *)
(***************************************************************************)
Init ==
    /\ addr \in Addresses
    /\ keys \in [Targets -> {{}} \cup {{k} : k \in Submitted}]
    /\ proc = [p \in Procs |-> Idle]
    /\ \/ row = [pk \in Pks |-> NoRow] /\ issued = 0
       \/ /\ issued = 1
          /\ \E c \in Cfgs, k \in Submitted \cup {Null} :
                 row = [pk \in Pks |->
                           IF pk = 1 THEN [NoRow EXCEPT !.enabled = TRUE, !.cfg = c, !.key = k]
                           ELSE NoRow]
    /\ generated = 0 /\ edits = 0 /\ durable = {} /\ proven = {}

---------------------------------------------------------------------------
(* Saves.                                                                  *)

(* The add form, the edit form or the REST update loads its instance.      *)
Load(p) ==
    /\ proc[p].pc = "idle" /\ edits < MaxEdits
    /\ \/ \E pk \in Existing :
              Set(p, [Idle EXCEPT !.pc = "form", !.mode = "save", !.pk = pk, !.old = row[pk]])
       \/ issued < MaxRows /\ Set(p, [Idle EXCEPT !.pc = "form", !.mode = "save"])
    /\ edits' = edits + 1
    /\ UNCHANGED <<row, addr, keys, issued, generated, durable, proven>>

(* prepare_backend_key_transition: the locked row is not the one loaded.   *)
Stale(p) ==
    LET q == proc[p]
    IN  q.pk # 0 /\ row[q.pk] # NoRow /\ row[q.pk] # q.old

(* plan_backend_key_transition *)
Preflight(prev, cfg, key) ==
    \/ prev = NoRow \/ ~prev.enabled
    \/ key # prev.key
    \/ cfg # prev.cfg \/ prev.fp # Target(cfg, addr)

Defers_Never(supplied) == FALSE

(* A save without an explicit key leaves the check to discovery.           *)
Defers(supplied) == supplied \in {Null, Blank}

ProofMatches_AnyTarget(q, to) == q.proof # Null

(* backend_key_proof_matches: a proof is for one target.                   *)
ProofMatches(q, to) == q.proof = to

(***************************************************************************)
(* save and prepare_backend_key_transition, under the row lock, for new    *)
(* columns c, enabled or not, and a key that may be submitted.  A row that *)
(* is gone is inserted again.  Disabled rows keep their key unchecked, and *)
(* enabled ones whose key and target are proven already stay as they are;  *)
(* without a submitted key the row becomes pending, with the key it has or *)
(* a generated one, and so it does when a blank key is submitted for one   *)
(* that has a key; a submitted key is checked first, unless the command    *)
(* brought the proof for this target.                                      *)
(***************************************************************************)
Gate(p, c, on, supplied) ==
    LET q == proc[p]
        prev == IF q.pk = 0 THEN NoRow ELSE row[q.pk]
        key == IF supplied \in {Null, Blank} THEN prev.key ELSE supplied
        checks == on /\ (Preflight(prev, c, key) \/ (supplied = Blank /\ key # Null))
        generates == checks /\ key = Null
        cand == IF generates THEN generated + 1 ELSE key
        to == Target(c, addr)
        begun == [q EXCEPT !.mode = "save", !.pk = IF @ = 0 THEN issued + 1 ELSE @,
                           !.ins = (prev = NoRow), !.cand = cand, !.to = to,
                           !.new = [prev EXCEPT !.cfg = c, !.enabled = on]]
        keyed == [begun EXCEPT !.new.key = cand]
    IN  /\ issued' = IF q.pk = 0 THEN issued + 1 ELSE issued
        /\ generated' = IF generates THEN generated + 1 ELSE generated
        /\ generates => cand \in Generated
        /\ \/ ~checks /\ Set(p, [begun EXCEPT !.pc = "write"])
           \/ checks /\ Defers(supplied)
              /\ Set(p, [keyed EXCEPT !.pc = "write", !.new.fp = Null])
           \/ checks /\ ~Defers(supplied) /\ ProofMatches(q, to)
              /\ Set(p, [keyed EXCEPT !.pc = "write", !.new.fp = to])
           \/ checks /\ ~Defers(supplied) /\ ~ProofMatches(q, to)
              /\ Set(p, [keyed EXCEPT !.pc = "status"])

(* A key on a disabled row, other than its own, is refused.                *)
Admissible(p, on, supplied) ==
    LET q == proc[p]
        prev == IF q.pk = 0 THEN NoRow ELSE row[q.pk]
    IN  on \/ supplied \in {Null, prev.key} \/ (supplied = Blank /\ prev.key = Null)

Submit(p) ==
    /\ proc[p].pc = "form" /\ ~Locked(proc[p].pk)
    /\ \E c \in Cfgs, on \in BOOLEAN, supplied \in Submitted \cup {Null, Blank} :
           /\ proc[p].pk = 0 => issued < MaxRows
           /\ IF Stale(p) \/ ~Admissible(p, on, supplied)
              THEN Leave(p) /\ UNCHANGED <<issued, generated>>
              ELSE Gate(p, c, on, supplied)
    /\ UNCHANGED <<row, addr, keys, edits, durable, proven>>

(* The command submits the row's own key with the proof it has.            *)
Adopt(p) ==
    /\ proc[p].pc = "adopt" /\ ~Locked(proc[p].pk)
    /\ LET q == proc[p]
       IN  IF Stale(p) THEN Leave(p) /\ UNCHANGED <<issued, generated>>
           ELSE Gate(p, q.old.cfg, q.old.enabled, q.old.key)
    /\ UNCHANGED <<row, addr, keys, edits, durable, proven>>

(***************************************************************************)
(* The outermost transaction commits; a pending row's discovery is an      *)
(* on_commit callback.  An insertion fails if the primary key was taken    *)
(* meanwhile, and so does the command's, which may only update.            *)
(***************************************************************************)
Commit(p) ==
    /\ proc[p].pc = "write"
    /\ LET q == proc[p]
       IN  IF q.ins /\ (row[q.pk] # NoRow \/ q.proof # Null)
           THEN Leave(p) /\ UNCHANGED <<row, durable>>
           ELSE /\ row' = [row EXCEPT ![q.pk] = q.new]
                /\ durable' = durable \cup ({q.new.key} \cap Generated)
                /\ Set(p, IF q.new.enabled /\ q.new.fp = Null
                          THEN [Idle EXCEPT !.pc = "discover"] ELSE Idle)
    /\ UNCHANGED <<addr, keys, issued, generated, edits, proven>>

(* Anything fails: a transaction rolls back, discovery gives up, a process *)
(* dies.                                                                   *)
Abandon(p) ==
    /\ proc[p].pc # "idle"
    /\ Leave(p)
    /\ UNCHANGED <<row, addr, keys, issued, generated, edits, durable, proven>>

---------------------------------------------------------------------------
(* adopt_backend_key_at_url and inspect_backend_key_at_url.                *)

(* GET /auth/bootstrap-status.  The command, which had only inspected,     *)
(* asks again before it bootstraps.                                        *)
Status(p) ==
    /\ proc[p].pc = "status"
    /\ LET q == proc[p]
       IN  \/ keys[q.to] # {} /\ Set(p, [q EXCEPT !.pc = "keys"])
           \/ keys[q.to] = {} /\ q.mode = "command" /\ Set(p, [q EXCEPT !.mode = "bootstrap"])
           \/ keys[q.to] = {} /\ q.mode # "command" /\ Set(p, [q EXCEPT !.pc = "register"])
    /\ UNCHANGED <<row, addr, keys, issued, generated, edits, durable, proven>>

(* The proof: a save may write, discovery records it, the command goes on  *)
(* to the gate, unless it only confirmed a trusted row's key.              *)
Proved(p) ==
    LET q == proc[p]
    IN  Set(p, CASE q.mode = "save" -> [q EXCEPT !.pc = "write", !.new.fp = q.to]
                 [] q.mode = "discovery" -> [q EXCEPT !.pc = "record"]
                 [] q.mode = "command" /\ q.old.fp # Null -> Idle
                 [] OTHER -> [q EXCEPT !.pc = "adopt", !.proof = q.to])

Accepts(p) == proc[p].cand \in keys[proc[p].to]

(* GET /auth/keys with the candidate. *)
Authenticate(p) ==
    /\ proc[p].pc = "keys"
    /\ IF Accepts(p)
       THEN Proved(p) /\ proven' = proven \cup {<<proc[p].to, proc[p].cand>>}
       ELSE Leave(p) /\ UNCHANGED proven
    /\ UNCHANGED <<row, addr, keys, issued, generated, edits, durable>>

(* POST /auth/register-key: 201 while the backend has no key, otherwise    *)
(* 409; the answer may be lost.                                            *)
Register(p) ==
    /\ proc[p].pc = "register"
    /\ IF keys[proc[p].to] = {}
       THEN /\ keys' = [keys EXCEPT ![proc[p].to] = {proc[p].cand}]
            /\ proven' = proven \cup {<<proc[p].to, proc[p].cand>>}
            /\ Proved(p) \/ Leave(p)
       ELSE Leave(p) /\ UNCHANGED <<keys, proven>>
    /\ UNCHANGED <<row, addr, issued, generated, edits, durable>>

---------------------------------------------------------------------------
(* autoconfigure_fastapi_endpoint.                                         *)

Startup(p) ==
    /\ proc[p].pc = "idle" /\ edits < MaxEdits
    /\ Set(p, [Idle EXCEPT !.pc = "discover"])
    /\ edits' = edits + 1
    /\ UNCHANGED <<row, addr, keys, issued, generated, durable, proven>>

(* Blocked by several rows, skipped for a disabled one, done for a trusted *)
(* one; otherwise the row and its target are frozen.                       *)
Discover(p) ==
    /\ proc[p].pc = "discover"
    /\ \/ /\ Existing = {}
          /\ Set(p, [Idle EXCEPT !.pc = "probe", !.mode = "discovery"])
       \/ \E pk \in Existing :
              /\ Existing = {pk} /\ row[pk].enabled /\ (row[pk].key = Null \/ ~Trusted(row[pk]))
              /\ Set(p, [Idle EXCEPT !.pc = "probe", !.mode = "discovery", !.pk = pk,
                             !.old = row[pk], !.cand = row[pk].key,
                             !.to = Target(row[pk].cfg, addr)])
       \/ /\ \E pk \in Existing :
                 Existing # {pk} \/ ~row[pk].enabled \/ (row[pk].key # Null /\ Trusted(row[pk]))
          /\ Leave(p)
    /\ UNCHANGED <<row, addr, keys, issued, generated, edits, durable, proven>>

(* discover_live_backend_url: a healthy backend answers at the target.     *)
Probe(p) ==
    /\ proc[p].pc = "probe"
    /\ Set(p, [proc[p] EXCEPT !.pc = IF proc[p].pk = 0 THEN "create"
                                     ELSE IF proc[p].cand = Null THEN "generate" ELSE "status"])
    /\ UNCHANGED <<row, addr, keys, issued, generated, edits, durable, proven>>

Vacant_Assumed == TRUE

(* Under the advisory lock: is there still no row?                         *)
Vacant == Existing = {}

(* Discovery's own row: pending, with a generated key.                     *)
Create(p) ==
    /\ proc[p].pc = "create"
    /\ \A o \in Procs : proc[o].pc # "insert"
    /\ IF Vacant
       THEN /\ issued < MaxRows /\ generated < MaxGenerated
            /\ issued' = issued + 1 /\ generated' = generated + 1
            /\ \E c \in Discoverable :
                   Set(p, [proc[p] EXCEPT !.pc = "insert", !.pk = issued + 1,
                       !.new = [enabled |-> TRUE, cfg |-> c, key |-> generated + 1,
                                fp |-> Null, auto |-> TRUE]])
       ELSE Set(p, [Idle EXCEPT !.pc = "discover"]) /\ UNCHANGED <<issued, generated>>
    /\ UNCHANGED <<row, addr, keys, edits, durable, proven>>

Insert(p) ==
    /\ proc[p].pc = "insert"
    /\ row' = [row EXCEPT ![proc[p].pk] = proc[p].new]
    /\ durable' = durable \cup {proc[p].new.key}
    /\ Set(p, [Idle EXCEPT !.pc = "discover"])
    /\ UNCHANGED <<addr, keys, issued, generated, edits, proven>>

Unchanged_Ignored(p) == row[proc[p].pk] # NoRow

(* The WHERE clause of both updates: every column is as it was read.       *)
Unchanged(p) == row[proc[p].pk] = proc[p].old

(***************************************************************************)
(* A row without a key gets a generated one, committed at once; or, inside *)
(* a transaction of the caller, with that transaction, after which         *)
(* discovery starts again.                                                 *)
(***************************************************************************)
Generate(p) ==
    /\ proc[p].pc = "generate" /\ ~Locked(proc[p].pk) /\ generated < MaxGenerated
    /\ generated' = generated + 1
    /\ \/ /\ Unchanged(p)
          /\ row' = [row EXCEPT ![proc[p].pk].key = generated + 1]
          /\ durable' = durable \cup {generated + 1}
          /\ Set(p, [proc[p] EXCEPT !.pc = "refresh"])
       \/ /\ Unchanged(p)
          /\ Set(p, [proc[p] EXCEPT !.pc = "write", !.mode = "nested", !.ins = FALSE,
                         !.new = [proc[p].old EXCEPT !.key = generated + 1]])
          /\ UNCHANGED <<row, durable>>
       \/ ~Unchanged(p) /\ Leave(p) /\ UNCHANGED <<row, durable>>
    /\ UNCHANGED <<addr, keys, issued, edits, proven>>

Readable_Assumed(r) == TRUE

Readable(r) == r.key # Null

(* refresh_from_db: the key and the columns are read again, the frozen     *)
(* target is not.                                                          *)
Refresh(p) ==
    /\ proc[p].pc = "refresh"
    /\ LET now == row[proc[p].pk]
       IN  IF Readable(now)
           THEN Set(p, [proc[p] EXCEPT !.pc = "status", !.old = now, !.cand = now.key])
           ELSE Leave(p)
    /\ UNCHANGED <<row, addr, keys, issued, generated, edits, durable, proven>>

(* The proven fingerprint is stored if the row did not change meanwhile.   *)
Record(p) ==
    /\ proc[p].pc = "record" /\ ~Locked(proc[p].pk)
    /\ row' = IF Unchanged(p) THEN [row EXCEPT ![proc[p].pk].fp = proc[p].to] ELSE row
    /\ Leave(p)
    /\ UNCHANGED <<addr, keys, issued, generated, edits, durable, proven>>

---------------------------------------------------------------------------
(* proxbox_fix_tokens --fix: an enabled row with a key, trusted or never   *)
(* proven, is inspected, and bootstrapped if the backend has no key.       *)
Fix(p) ==
    /\ proc[p].pc = "idle" /\ edits < MaxEdits
    /\ \E pk \in Existing :
           /\ row[pk].enabled /\ row[pk].key # Null
           /\ row[pk].fp = Null \/ Trusted(row[pk])
           /\ Set(p, [Idle EXCEPT !.pc = "status", !.mode = "command", !.pk = pk,
                          !.old = row[pk], !.cand = row[pk].key,
                          !.to = Target(row[pk].cfg, addr)])
    /\ edits' = edits + 1
    /\ UNCHANGED <<row, addr, keys, issued, generated, durable, proven>>

(* An operator deletes a row; destructive recovery clears an unreadable    *)
(* key; the IPAddress is edited; the backend's keys are changed by others. *)
Delete(pk) ==
    /\ edits < MaxEdits /\ pk \in Existing /\ ~Locked(pk)
    /\ row' = [row EXCEPT ![pk] = NoRow]
    /\ edits' = edits + 1
    /\ UNCHANGED <<addr, keys, proc, issued, generated, durable, proven>>

Recovered(r) == [r EXCEPT !.key = Null, !.fp = Null, !.enabled = FALSE]

Reset(pk) ==
    /\ edits < MaxEdits /\ pk \in Existing /\ ~Locked(pk) /\ row[pk].key # Null
    /\ row' = [row EXCEPT ![pk] = Recovered(row[pk])]
    /\ edits' = edits + 1
    /\ UNCHANGED <<addr, keys, proc, issued, generated, durable, proven>>

Readdress ==
    /\ edits < MaxEdits /\ ~AddressLocked
    /\ addr' \in Addresses \ {addr}
    /\ edits' = edits + 1
    /\ UNCHANGED <<row, keys, proc, issued, generated, durable, proven>>

Elsewhere(t) ==
    /\ edits < MaxEdits
    /\ \E s \in {{}} \cup {{k} : k \in Submitted} :
           s # keys[t] /\ keys' = [keys EXCEPT ![t] = s]
    /\ edits' = edits + 1
    /\ UNCHANGED <<row, addr, proc, issued, generated, durable, proven>>

---------------------------------------------------------------------------
SaveStep(p) == Load(p) \/ Submit(p) \/ Adopt(p) \/ Commit(p) \/ Abandon(p)
CheckStep(p) == Status(p) \/ Authenticate(p) \/ Register(p)
DiscoveryStep(p) ==
    \/ Startup(p) \/ Discover(p) \/ Probe(p) \/ Create(p) \/ Insert(p)
    \/ Generate(p) \/ Refresh(p) \/ Record(p)

Next ==
    \/ \E p \in Procs : SaveStep(p) \/ CheckStep(p) \/ DiscoveryStep(p) \/ Fix(p)
    \/ \E pk \in Pks : Delete(pk) \/ Reset(pk)
    \/ Readdress
    \/ \E t \in Targets : Elsewhere(t)

Spec == Init /\ [][Next]_vars

---------------------------------------------------------------------------
Steps == {"idle", "form", "adopt", "status", "keys", "register", "write", "discover",
          "probe", "create", "insert", "generate", "refresh", "record"}

(* Types; and a check in progress has its key and target, a save its row.  *)
TypeOK ==
    /\ row \in [Pks -> Rows \cup {NoRow}]
    /\ addr \in Addresses /\ keys \in [Targets -> SUBSET Keys]
    /\ issued \in 0..MaxRows /\ generated \in 0..MaxGenerated /\ edits \in 0..MaxEdits
    /\ durable \subseteq Generated /\ proven \subseteq Targets \X Keys
    /\ proc \in [Procs -> [pc : Steps,
                           mode : {"save", "discovery", "nested", "command", "bootstrap", Null},
                           pk : 0..MaxRows, old : Rows \cup {NoRow}, new : Rows \cup {NoRow},
                           ins : BOOLEAN, cand : Keys \cup {Null}, to : Targets \cup {Null},
                           proof : Targets \cup {Null}]]
    /\ \A p \in Procs :
           /\ proc[p].pc \in {"status", "keys", "register", "record"} =>
                  proc[p].pk # 0 /\ proc[p].cand # Null /\ proc[p].to # Null
           /\ proc[p].pc \in {"write", "insert"} => proc[p].pk # 0 /\ proc[p].new \in Rows

(***************************************************************************)
(* "Persist only candidates authenticated by the shared fail-closed gate": *)
(* a trusted row's key was accepted by a backend at exactly the target the *)
(* row names now, whatever saves, discoveries, commands, resets and        *)
(* address changes overlapped.                                             *)
(***************************************************************************)
TrustedIsProven ==
    \A pk \in Existing :
        Trusted(row[pk]) => <<Target(row[pk].cfg, addr), row[pk].key>> \in proven

(***************************************************************************)
(* "Never disclose a key generated by this transaction before its local    *)
(* encrypted copy is durable": a generated key a backend holds was         *)
(* committed here first, so that no rollback could lose it.                *)
(***************************************************************************)
GeneratedIsDurable == \A t \in Targets : keys[t] \cap Generated \subseteq durable

(***************************************************************************)
(* The advisory lock "prevents multiple web/RQ startup processes from      *)
(* creating competing singleton rows": of the rows discovery inserted, at  *)
(* most one is left at any time.                                           *)
(***************************************************************************)
OneDiscoveredRow ==
    \A a, b \in Existing : row[a].auto /\ row[b].auto => a = b

(***************************************************************************)
(* "A stale model instance cannot overwrite a newer key or target": a row  *)
(* that changes, other than by deletion or recovery, is changed by a       *)
(* process that had read exactly what it replaces.                         *)
(***************************************************************************)
NoLostUpdate ==
    [][\A pk \in Existing :
          row'[pk] \notin {row[pk], NoRow, Recovered(row[pk])} =>
              \E p \in Procs :
                  proc'[p] # proc[p] /\ proc[p].pk = pk /\ proc[p].old = row[pk]]_vars
====
