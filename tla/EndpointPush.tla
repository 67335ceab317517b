------------------------------ MODULE EndpointPush ------------------------------
(***************************************************************************)
(* Connection approval and the delivery of one ProxmoxEndpoint row, with   *)
(* its credentials, to the proxbox-api backend: ordinary saves from stale  *)
(* forms, the protected approval, bulk toggles and deletion on the NetBox  *)
(* side (services/connection_authority.py); the after-commit hook          *)
(* (signals.py) and the sync preflight (jobs.py) as pushers of             *)
(* views/backend_sync.py against a backend whose answers may be lost.      *)
(*                                                                         *)
(* What connection_target_fingerprint hashes is <<configuration, address>>:*)
(* the configuration is saved with the row, the address belongs to an      *)
(* IPAddress object that anybody may edit without saving the endpoint.     *)
(***************************************************************************)
EXTENDS Naturals, FiniteSets

CONSTANTS
    Cfgs,       \* connection configurations (domain, port, user, SSH authority)
    Named,      \* those with a domain: the address is then never dialled
    Bakes,      \* those that ask for the Cloud Image SSH binding
    Broken,     \* those whose binding is incomplete or fails verification
    Addresses,  \* values of the linked IPAddress
    Creds,      \* API credentials
    Ids,        \* backend row ids
    Procs,      \* web requests, hooks and sync jobs
    Blank,      \* an empty fingerprint column
    None,       \* no row, no instance, no listing, no cached push
    MaxEdits,   \* bound: operator actions
    MaxFaults   \* bound: failed or lost requests, crashes, exhausted budgets,
                \* and pushes without the preflight's listing

ASSUME BoundsAssumption == MaxEdits \in Nat /\ MaxFaults \in Nat

VARIABLES
    row,        \* the committed ProxmoxEndpoint row
    address,    \* the committed value of its IPAddress
    backend,    \* proxbox-api's rows that end in (nb:<pk>), by id
    cache,      \* the recent-push record in Django's cache
    proc,       \* what each process is doing
    held,       \* history: every <<cfg, cred, packer>> the row has held
    cleared,    \* history: every target an operator has approved
    edits,
    faults

vars == <<row, address, backend, cache, proc, held, cleared, edits, faults>>

---------------------------------------------------------------------------
Targets == Cfgs \X Addresses

Rows == [cfg : Cfgs, stamp : Targets \cup {Blank}, enabled : BOOLEAN,
         packer : BOOLEAN, cred : Creds, pushed : Creds \cup {Blank},
         granted : BOOLEAN, receipt : Cfgs \cup {Blank}]

BackendRows == [cfg : Cfgs, ip : Addresses, cred : Creds, enabled : BOOLEAN,
                packer : BOOLEAN, ssh : Cfgs \cup {Blank}]

Bodies == [cfg : Cfgs, ip : Addresses, cred : Creds, packer : BOOLEAN,
           ssh : {"bind", "clear", "keep"}]

Listings == [Ids -> BackendRows \cup {None}]

ASSUME SetsAssumption ==
    /\ Named \subseteq Cfgs
    /\ Bakes \subseteq Cfgs
    /\ Broken \subseteq Bakes
    /\ Blank \notin Cfgs \cup Creds \cup (Cfgs \X Addresses)
    /\ None \notin Rows \cup BackendRows \cup Bodies \cup Listings

(***************************************************************************)
(* An idle process.  inst is the instance a process loaded and ip the      *)
(* address that instance fetched; seen the preflight's shared listing, and *)
(* shared whether there was one; ids the backend rows found to claim the   *)
(* endpoint; plan what will be sent and body the full payload.             *)
(***************************************************************************)
Idle == [pc |-> "idle", inst |-> None, ip |-> None, shared |-> FALSE,
         seen |-> None, ids |-> {}, plan |-> "full", body |-> None]

Goto(p, pc) == proc' = [proc EXCEPT ![p].pc = pc]
End(p) == proc' = [proc EXCEPT ![p] = Idle]

(* save_bound_endpoint keeps the row locked until its transaction ends, so *)
(* every other write of the row waits.                                     *)
Unlocked == \A p \in Procs : proc[p].pc # "saving"

(* _proxmox_connection_target: the domain when there is one.               *)
Dials(cfg, ip) == IF cfg \in Named THEN <<cfg, None>> ELSE <<None, ip>>

Claims(listing) == {i \in Ids : listing[i] # None}

---------------------------------------------------------------------------
(* The payload.                                                            *)

PackerAllowed(e) == e.enabled /\ e.packer

(***************************************************************************)
(* _proxmox_backend_payload for the instance e with address ip: the Packer *)
(* grant crosses only when every gate is open and the binding verifies; a  *)
(* binding that is no longer wanted is cleared only when a receipt shows   *)
(* that this plugin sent it.                                               *)
(***************************************************************************)
Payload(e, ip) ==
    LET wanted == PackerAllowed(e) /\ e.cfg \in Bakes
    IN  [cfg |-> e.cfg, ip |-> ip, cred |-> e.cred,
         packer |-> PackerAllowed(e) /\ e.cfg \notin Broken,
         ssh |-> IF wanted /\ e.cfg \notin Broken THEN "bind"
                 ELSE IF e.receipt # Blank THEN "clear" ELSE "keep"]

Approved_AnyStamp(e, ip) == e.enabled /\ e.stamp # Blank

(***************************************************************************)
(* approved_connection_allows_secrets: the instance is enabled and its     *)
(* stamp is its own target, the address is still the live one, and the     *)
(* persisted row agrees with all of it.                                    *)
(***************************************************************************)
Approved(e, ip) ==
    /\ e.enabled /\ e.stamp = <<e.cfg, ip>> /\ ip = address
    /\ row # None
    /\ row.enabled /\ row.stamp = <<e.cfg, ip>> /\ row.cfg = e.cfg

(***************************************************************************)
(* backend_holds_proxmox_endpoint on the shared listing.  The columns it   *)
(* compares (target, user, access methods, TLS, tuning) are the part of a  *)
(* configuration that the listing returns; two configurations that differ  *)
(* only in an SSH authority that is not sent count as different here,      *)
(* which makes the model skip less often than the code.                    *)
(***************************************************************************)
Holds(e, ip, listing) ==
    \E i \in Ids :
        LET b == listing[i]
            want == Payload(e, ip)
        IN  /\ Claims(listing) = {i}
            /\ Dials(b.cfg, b.ip) = Dials(e.cfg, ip)
            /\ b.enabled /\ b.cfg = want.cfg /\ b.packer = want.packer
            /\ want.ssh = "bind" => b.ssh = want.cfg
            /\ want.ssh = "clear" => b.ssh = Blank
            /\ e.pushed = want.cred

---------------------------------------------------------------------------
Init ==
    /\ \E cfg \in Cfgs, cred \in Creds, packer \in BOOLEAN :
           /\ row = [cfg |-> cfg, stamp |-> Blank, enabled |-> TRUE,
                     packer |-> packer, cred |-> cred, pushed |-> Blank,
                     granted |-> FALSE, receipt |-> Blank]
           /\ held = {<<cfg, cred, packer>>}
    /\ address \in Addresses
    /\ backend = [i \in Ids |-> None]
    /\ cache = None
    /\ proc = [p \in Procs |-> Idle]
    /\ cleared = {}
    /\ edits = 0
    /\ faults = 0

---------------------------------------------------------------------------
(* NetBox: operators.                                                      *)

(* A form, an API request or the review of the target loads the row.       *)
Open(p) ==
    /\ proc[p].pc = "idle" /\ row # None /\ edits < MaxEdits
    /\ proc' = [proc EXCEPT ![p] =
                    [Idle EXCEPT !.pc = "open", !.inst = row, !.ip = address]]
    /\ edits' = edits + 1
    /\ UNCHANGED <<row, address, backend, cache, held, cleared, faults>>

(* The fields an operator may change; a full save writes all of them.      *)
Edited(e) ==
    {[e EXCEPT !.cfg = c] : c \in Cfgs} \cup {[e EXCEPT !.cred = c] : c \in Creds}
    \cup {[e EXCEPT !.packer = b] : b \in BOOLEAN}
    \cup {[e EXCEPT !.enabled = b] : b \in BOOLEAN}

Save_KeepsInstance(p) ==
    /\ proc[p].pc = "open" /\ Unlocked
    /\ \E e \in Edited(proc[p].inst) :
           proc' = [proc EXCEPT ![p].pc = "saving", ![p].inst = e]
    /\ cache' = None
    /\ UNCHANGED <<row, address, backend, held, cleared, edits, faults>>

(***************************************************************************)
(* save_bound_endpoint up to persist: the approval is read again under the *)
(* row lock, every other column comes from the instance.  A row deleted    *)
(* meanwhile is inserted again, without approval.  post_save forgets the   *)
(* recent push before the transaction ends.                                *)
(***************************************************************************)
Save(p) ==
    /\ proc[p].pc = "open" /\ Unlocked
    /\ \E e \in Edited(proc[p].inst) :
           proc' = [proc EXCEPT ![p].pc = "saving", ![p].inst =
                        [e EXCEPT !.stamp = IF row = None THEN Blank ELSE row.stamp]]
    /\ cache' = None
    /\ UNCHANGED <<row, address, backend, held, cleared, edits, faults>>

Commit(p) ==
    /\ proc[p].pc = "saving"
    /\ row' = proc[p].inst
    /\ held' = held \cup {<<row'.cfg, row'.cred, row'.packer>>}
    /\ proc' = [proc EXCEPT ![p] = [Idle EXCEPT !.pc = "committed"]]
    /\ UNCHANGED <<address, backend, cache, cleared, edits, faults>>

(* A rolled-back save runs no after-commit hook.                           *)
Rollback(p) ==
    /\ proc[p].pc = "saving"
    /\ End(p)
    /\ UNCHANGED <<row, address, backend, cache, held, cleared, edits, faults>>

Approve_Unreviewed(p) ==
    /\ proc[p].pc = "open" /\ Unlocked
    /\ row # None
    /\ row' = [row EXCEPT !.stamp = <<proc[p].inst.cfg, proc[p].ip>>]
    /\ cleared' = cleared \cup {<<row.cfg, address>>}
    /\ cache' = None
    /\ proc' = [proc EXCEPT ![p] = [Idle EXCEPT !.pc = "committed"]]
    /\ UNCHANGED <<address, backend, held, edits, faults>>

(***************************************************************************)
(* approve_connection_target: the fingerprint that was reviewed must be    *)
(* the one of the locked row; only the approval is written, and its save   *)
(* runs the same hook.                                                     *)
(***************************************************************************)
Approve(p) ==
    /\ proc[p].pc = "open" /\ Unlocked
    /\ row # None /\ <<row.cfg, address>> = <<proc[p].inst.cfg, proc[p].ip>>
    /\ row' = [row EXCEPT !.stamp = <<row.cfg, address>>]
    /\ cleared' = cleared \cup {<<row.cfg, address>>}
    /\ cache' = None
    /\ proc' = [proc EXCEPT ![p] = [Idle EXCEPT !.pc = "committed"]]
    /\ UNCHANGED <<address, backend, held, edits, faults>>

(* The request is refused, or the form is never submitted.                 *)
Leave(p) ==
    /\ proc[p].pc = "open"
    /\ End(p)
    /\ UNCHANGED <<row, address, backend, cache, held, cleared, edits, faults>>

(* The delete views and the API look at the instance they loaded.          *)
Delete(p) ==
    /\ proc[p].pc = "open" /\ Unlocked
    /\ ~proc[p].inst.packer /\ ~proc[p].inst.granted
    /\ row' = None
    /\ End(p)
    /\ UNCHANGED <<address, backend, cache, held, cleared, edits, faults>>

(* Bulk enable and disable update the flag of rows without a grant and     *)
(* run no hook.                                                            *)
Toggle ==
    /\ row # None /\ Unlocked /\ edits < MaxEdits
    /\ ~row.packer /\ ~row.granted
    /\ row' = [row EXCEPT !.enabled = ~row.enabled]
    /\ edits' = edits + 1
    /\ UNCHANGED <<address, backend, cache, proc, held, cleared, faults>>

(* Somebody edits the IPAddress object the endpoint points at.             *)
Readdress ==
    /\ edits < MaxEdits
    /\ \E a \in Addresses \ {address} : address' = a
    /\ edits' = edits + 1
    /\ UNCHANGED <<row, backend, cache, proc, held, cleared, faults>>

---------------------------------------------------------------------------
(* Pushers.                                                                *)

(* The after-commit hook reads the committed row again.                    *)
Reread(p) ==
    /\ proc[p].pc = "committed"
    /\ IF row = None THEN End(p)
       ELSE proc' = [proc EXCEPT ![p].pc = "loaded", ![p].inst = row]
    /\ UNCHANGED <<row, address, backend, cache, held, cleared, edits, faults>>

(* _push_proxmox_endpoints lists the backend once, for all endpoints.      *)
PreflightList(p) ==
    /\ proc[p].pc = "idle"
    /\ proc' = [proc EXCEPT ![p] =
                    [Idle EXCEPT !.pc = "listed", !.shared = TRUE, !.seen = backend]]
    /\ UNCHANGED <<row, address, backend, cache, held, cleared, edits, faults>>

(* A push without a shared listing: the preflight's failed, or a view (the *)
(* status card, the dashboard, the VM configuration) pushes by itself.     *)
PushAlone(p) ==
    /\ proc[p].pc = "idle" /\ faults < MaxFaults
    /\ proc' = [proc EXCEPT ![p] = [Idle EXCEPT !.pc = "listed"]]
    /\ faults' = faults + 1
    /\ UNCHANGED <<row, address, backend, cache, held, cleared, edits>>

(* The query of the loop runs after the listing and takes enabled rows.    *)
PreflightLoad(p) ==
    /\ proc[p].pc = "listed"
    /\ IF row # None /\ row.enabled
       THEN proc' = [proc EXCEPT ![p].pc = "loaded", ![p].inst = row]
       ELSE End(p)
    /\ UNCHANGED <<row, address, backend, cache, held, cleared, edits, faults>>

(* The soft budget is used up and the listing shows the row as current.    *)
SkipHeld(p) ==
    /\ proc[p].pc = "loaded" /\ proc[p].shared /\ faults < MaxFaults
    /\ Approved(proc[p].inst, address)
    /\ Holds(proc[p].inst, address, proc[p].seen)
    /\ End(p)
    /\ faults' = faults + 1
    /\ UNCHANGED <<row, address, backend, cache, held, cleared, edits>>

(* Where a push goes on when it is not refused: to its own listing, or     *)
(* straight to the rows of the preflight's.                                *)
Locate(p, plan, ip, body) ==
    proc' = [proc EXCEPT ![p] =
        [@ EXCEPT !.ip = ip, !.plan = plan, !.body = body, !.seen = None,
                  !.ids = IF proc[p].shared THEN Claims(proc[p].seen) ELSE {},
                  !.pc = IF proc[p].shared THEN "resolve" ELSE "list"]]

CacheHit_Always(q, body) == cache # None /\ cache.body = body

(* _prepare_proxmox_push consults the cache only without a listing.        *)
CacheHit(q, body) == ~q.shared /\ cache # None /\ cache.body = body

(* ConnectionAuthorityError before any request: only the binding there is  *)
(* a receipt for is revoked.                                               *)
Refuse(p, ip) ==
    IF proc[p].inst.receipt = Blank THEN End(p) ELSE Locate(p, "clear", ip, None)

(***************************************************************************)
(* sync_proxmox_endpoint_to_backend up to the payload: a disabled row only *)
(* has its policy revoked; for an approved one the credentials are         *)
(* resolved and the body is built from the instance.                       *)
(***************************************************************************)
Prepare(p) ==
    /\ proc[p].pc = "loaded"
    /\ LET e == proc[p].inst
       IN  \/ /\ ~e.enabled
              /\ Locate(p, "policy", address, None)
           \/ /\ e.enabled /\ ~Approved(e, address)
              /\ Refuse(p, address)
           \/ /\ e.enabled /\ Approved(e, address)
              /\ proc' = [proc EXCEPT ![p] =
                     [@ EXCEPT !.pc = "built", !.ip = address,
                               !.body = Payload(e, address)]]
    /\ UNCHANGED <<row, address, backend, cache, held, cleared, edits, faults>>

(***************************************************************************)
(* The second require_approved_connection of _proxmox_backend_payload, on  *)
(* the address the instance has fetched.  Then a push remembered in the    *)
(* cache is confirmed instead of repeated, unless a listing is at hand.    *)
(***************************************************************************)
Recheck(p) ==
    /\ proc[p].pc = "built"
    /\ LET q == proc[p]
       IN  \/ ~Approved(q.inst, q.ip) /\ Refuse(p, q.ip)
           \/ /\ Approved(q.inst, q.ip)
              /\ IF CacheHit(q, q.body)
                 THEN proc' = [proc EXCEPT ![p] =
                          [@ EXCEPT !.pc = "confirm", !.ids = {cache.id}]]
                 ELSE Locate(p, "full", q.ip, q.body)
    /\ UNCHANGED <<row, address, backend, cache, held, cleared, edits, faults>>

(* _confirmed_cached_proxmox_row: the id must still dial the same host.    *)
Confirm(p) ==
    /\ proc[p].pc = "confirm"
    /\ \E i \in proc[p].ids :
           IF backend[i] # None
              /\ Dials(backend[i].cfg, backend[i].ip) = Dials(proc[p].inst.cfg, proc[p].ip)
           THEN End(p) /\ UNCHANGED cache
           ELSE /\ cache' = None
                /\ proc' = [proc EXCEPT ![p].pc = "list", ![p].ids = {}]
    /\ UNCHANGED <<row, address, backend, held, cleared, edits, faults>>

List(p) ==
    /\ proc[p].pc = "list"
    /\ proc' = [proc EXCEPT ![p].pc = "resolve", ![p].ids = Claims(backend)]
    /\ UNCHANGED <<row, address, backend, cache, held, cleared, edits, faults>>

(* Revocation of the managed binding once the approval is gone: a push     *)
(* that listed for itself lists again.                                     *)
FallBack(p) ==
    IF proc[p].inst.receipt = Blank THEN End(p)
    ELSE proc' = [proc EXCEPT ![p].plan = "clear", ![p].body = None,
                      ![p].pc = IF proc[p].shared THEN "resolve" ELSE "list"]

(***************************************************************************)
(* The rows found decide: several are all revoked and the push refused; a  *)
(* full push asks for the approval again immediately before it is sent.    *)
(***************************************************************************)
Resolve(p) ==
    /\ proc[p].pc = "resolve"
    /\ LET several == Cardinality(proc[p].ids) > 1
           plan == proc[p].plan
           absent == proc[p].ids = {}
       IN  \/ several /\ Goto(p, "revoke")
           \/ ~several /\ plan = "policy" /\ absent /\ Goto(p, "grant")
           \/ ~several /\ plan = "clear" /\ absent /\ End(p)
           \/ ~several /\ plan # "full" /\ ~absent /\ Goto(p, "send")
           \/ /\ ~several /\ plan = "full" /\ Approved(proc[p].inst, proc[p].ip)
              /\ Goto(p, IF proc[p].body.ssh = "bind" THEN "receipt" ELSE "send")
           \/ /\ ~several /\ plan = "full" /\ ~Approved(proc[p].inst, proc[p].ip)
              /\ FallBack(p)
    /\ UNCHANGED <<row, address, backend, cache, held, cleared, edits, faults>>

(* _revoke_duplicate_proxmox_rows: each is attempted, then the push fails. *)
Revoke(p) ==
    /\ proc[p].pc = "revoke"
    /\ \E i \in proc[p].ids :
           /\ backend' = [backend EXCEPT ![i].enabled = FALSE, ![i].packer = FALSE]
           /\ IF proc[p].ids = {i} THEN End(p)
              ELSE proc' = [proc EXCEPT ![p].ids = @ \ {i}]
    /\ UNCHANGED <<row, address, cache, held, cleared, edits, faults>>

(* _record_cloud_image_ssh_binding_fingerprint: ownership of the binding   *)
(* is committed before the binding is sent; without a row it is not sent.  *)
RecordReceipt(p) ==
    /\ proc[p].pc = "receipt" /\ Unlocked
    /\ IF row = None THEN End(p) /\ UNCHANGED row
       ELSE /\ row' = [row EXCEPT !.receipt = proc[p].body.cfg]
            /\ Goto(p, "send")
    /\ UNCHANGED <<address, backend, cache, held, cleared, edits, faults>>

(* What a request leaves in the backend row i.                             *)
Applied(q, i) ==
    LET old == backend[i]
        clears == \/ q.plan = "clear"
                  \/ q.plan = "policy" /\ q.inst.receipt # Blank
    IN  IF q.plan = "full"
        THEN [cfg |-> q.body.cfg, ip |-> q.body.ip, cred |-> q.body.cred,
              enabled |-> TRUE, packer |-> q.body.packer,
              ssh |-> IF q.body.ssh = "bind" THEN q.body.cfg
                      ELSE IF q.body.ssh = "clear" \/ old = None THEN Blank
                      ELSE old.ssh]
        ELSE [old EXCEPT !.packer = FALSE,
                         !.enabled = @ /\ q.plan = "clear",
                         !.ssh = IF clears THEN Blank ELSE @]

AfterSend_Remembers(q) ==
    IF (q.plan # "full" /\ q.inst.receipt # Blank) \/ (q.plan = "full" /\ q.body.ssh = "clear")
    THEN "erase" ELSE "remember"

(* What is recorded once the request has been answered, in this order.     *)
AfterSend(q) ==
    IF \/ q.plan = "clear"
       \/ q.plan = "policy" /\ q.inst.receipt # Blank
       \/ q.plan = "full" /\ q.body.ssh = "clear"
    THEN "erase"
    ELSE IF q.plan = "full" THEN "remember" ELSE "grant"

(* The PUT to the row found, or the POST of a new one, takes effect.       *)
Send(p) ==
    /\ proc[p].pc = "send"
    /\ \E i \in Ids :
           /\ proc[p].ids \subseteq {i}
           /\ proc[p].ids = {} => backend[i] = None
           /\ backend' = [backend EXCEPT ![i] = Applied(proc[p], i)]
           /\ proc' = [proc EXCEPT ![p].ids = {i}, ![p].pc = AfterSend(proc[p])]
    /\ UNCHANGED <<row, address, cache, held, cleared, edits, faults>>

(* _erase_cloud_image_ssh_binding_fingerprint: only the receipt that was   *)
(* read at the start of the push.                                          *)
Erase(p) ==
    /\ proc[p].pc = "erase" /\ Unlocked
    /\ row' = IF row # None /\ row.receipt = proc[p].inst.receipt
              THEN [row EXCEPT !.receipt = Blank] ELSE row
    /\ \/ proc[p].plan = "clear" /\ End(p)
       \/ proc[p].plan = "policy" /\ Goto(p, "grant")
       \/ proc[p].plan = "full" /\ Goto(p, "remember")
    /\ UNCHANGED <<address, backend, cache, held, cleared, edits, faults>>

(* _cache_successful_proxmox_push: the cache first, under no lock.         *)
Remember(p) ==
    /\ proc[p].pc = "remember"
    /\ \E i \in proc[p].ids : cache' = [body |-> proc[p].body, id |-> i]
    /\ Goto(p, "note")
    /\ UNCHANGED <<row, address, backend, held, cleared, edits, faults>>

(* Then the column, which waits for a save that holds the row.             *)
RecordPushed(p) ==
    /\ proc[p].pc = "note" /\ Unlocked
    /\ row' = IF row = None THEN row ELSE [row EXCEPT !.pushed = proc[p].body.cred]
    /\ Goto(p, "grant")
    /\ UNCHANGED <<address, backend, cache, held, cleared, edits, faults>>

(* _record_confirmed_packer_template_authorization.                        *)
RecordGrant(p) ==
    /\ proc[p].pc = "grant" /\ Unlocked
    /\ row' = IF row = None THEN row
              ELSE [row EXCEPT !.granted = proc[p].plan = "full" /\ proc[p].body.packer]
    /\ End(p)
    /\ UNCHANGED <<address, backend, cache, held, cleared, edits, faults>>

(* A request that fails before or after it took effect, a blocked backend  *)
(* key, the hard ceiling, a crash, or the ConnectionAuthorityError that    *)
(* backend_holds_proxmox_endpoint lets out of the preflight when the       *)
(* approval goes between its two tests: the push simply ends.              *)
Fail(p) ==
    /\ proc[p].pc \notin {"idle", "open", "saving", "revoke"} /\ faults < MaxFaults
    /\ End(p)
    /\ faults' = faults + 1
    /\ UNCHANGED <<row, address, backend, cache, held, cleared, edits>>

(* One duplicate rejects its revocation; the others are still attempted.   *)
FailRevoke(p) ==
    /\ proc[p].pc = "revoke" /\ faults < MaxFaults
    /\ \E i \in proc[p].ids :
           IF proc[p].ids = {i} THEN End(p)
           ELSE proc' = [proc EXCEPT ![p].ids = @ \ {i}]
    /\ faults' = faults + 1
    /\ UNCHANGED <<row, address, backend, cache, held, cleared, edits>>

(* PROXMOX_ENDPOINT_PUSH_CACHE_TTL passes.                                 *)
Expire ==
    /\ cache # None
    /\ cache' = None
    /\ UNCHANGED <<row, address, backend, proc, held, cleared, edits, faults>>

---------------------------------------------------------------------------
(* What a process does once it has started.                                *)
Finish(p) ==
    \/ Save(p) \/ Commit(p) \/ Rollback(p) \/ Approve(p) \/ Leave(p) \/ Delete(p)
    \/ Reread(p) \/ PreflightLoad(p) \/ Prepare(p) \/ Recheck(p) \/ Confirm(p)
    \/ List(p) \/ Resolve(p) \/ Revoke(p) \/ RecordReceipt(p) \/ Send(p) \/ Erase(p)
    \/ Remember(p) \/ RecordPushed(p) \/ RecordGrant(p)

Next ==
    \/ \E p \in Procs : \/ Open(p) \/ PreflightList(p) \/ PushAlone(p)
                         \/ Finish(p) \/ SkipHeld(p) \/ Fail(p) \/ FailRevoke(p)
    \/ Toggle \/ Readdress \/ Expire

Spec == Init /\ [][Next]_vars

(***************************************************************************)
(* Requests and jobs run to their end, and the scheduled synchronisation   *)
(* preflights the endpoint again and again.                                *)
(***************************************************************************)
FairSpec ==
    /\ Spec
    /\ \A p \in Procs : WF_vars(Finish(p)) /\ WF_vars(PreflightList(p))

---------------------------------------------------------------------------
Steps == {"idle", "open", "saving", "committed", "listed", "loaded", "built",
          "confirm", "list", "resolve", "revoke", "receipt", "send", "erase",
          "remember", "note", "grant"}

Processes == [pc : Steps, inst : Rows \cup {None}, ip : Addresses \cup {None},
              shared : BOOLEAN, seen : Listings \cup {None}, ids : SUBSET Ids,
              plan : {"full", "clear", "policy"}, body : Bodies \cup {None}]

(* What a process carries from one request to the next.                    *)
Carries(q) ==
    /\ q.pc \notin {"idle", "committed", "listed"} => q.inst # None
    /\ q.pc \in {"committed", "listed", "loaded", "built", "confirm", "receipt",
                  "remember", "note"} => q.plan = "full"
    /\ q.plan = "full" /\ q.pc \in {"built", "confirm", "list", "resolve", "receipt",
           "send", "erase", "remember", "note", "grant"} => q.body # None
    /\ q.plan # "full" /\ q.pc = "send" => q.ids # {}
    /\ q.pc \in {"committed", "listed", "loaded", "built"} /\ q.shared => q.seen # None
    /\ q.pc = "built" => q.ip \in Addresses

(* Rows, backend rows, the cache and what every process carries; the       *)
(* backend rows a push is about to change are still there.                 *)
TypeOK ==
    /\ row \in Rows \cup {None}
    /\ address \in Addresses
    /\ backend \in Listings
    /\ cache \in [body : Bodies, id : Ids] \cup {None}
    /\ proc \in [Procs -> Processes]
    /\ \A p \in Procs :
           /\ Carries(proc[p])
           /\ proc[p].seen # None => Claims(proc[p].seen) \subseteq Claims(backend)
           /\ proc[p].pc # "confirm" => proc[p].ids \subseteq Claims(backend)
    /\ held \subseteq Cfgs \X Creds \X BOOLEAN
    /\ cleared \subseteq Targets
    /\ edits \in 0..MaxEdits /\ faults \in 0..MaxFaults

(***************************************************************************)
(* Whatever interleaving of stale saves, readdressing, approvals and       *)
(* pushes: the backend only ever holds credentials for a target that an    *)
(* operator approved, together with credentials the row held for that very *)
(* configuration, and a Packer grant only if that row version asked for it *)
(* (require_approved_connection before and after the payload is built and  *)
(* before it is sent; "rolled-back ... policy is never granted remotely",  *)
(* signals.py).                                                            *)
(***************************************************************************)
DisclosedIsReviewed ==
    \A i \in Ids : backend[i] # None =>
        LET b == backend[i] IN
        /\ <<b.cfg, b.ip>> \in cleared
        /\ \E k \in BOOLEAN : <<b.cfg, b.cred, k>> \in held
        /\ b.packer => <<b.cfg, b.cred, TRUE>> \in held

(***************************************************************************)
(* The approval of a row changes only to the target the row has at that    *)
(* moment, by a request that reviewed that target; an ordinary save never  *)
(* brings an older approval back, and a row inserted again after its       *)
(* deletion has none (save_bound_endpoint, approve_connection_target).     *)
(***************************************************************************)
ApprovalIsExact ==
    [][row' # None =>
           \/ row # None /\ row'.stamp = row.stamp
           \/ row = None /\ row'.stamp = Blank
           \/ /\ row'.stamp = <<row'.cfg, address>>
              /\ \E p \in Procs : /\ proc[p].pc = "open"
                                   /\ <<proc[p].inst.cfg, proc[p].ip>> = row'.stamp]_vars

(***************************************************************************)
(* Why: every instance that a process can push was read from the committed *)
(* row, every approval it carries was given, and a payload is built only   *)
(* from such an instance; and a save holds, under its lock, the approval   *)
(* of the row it will overwrite.                                           *)
(***************************************************************************)
Known(e) == <<e.cfg, e.cred, e.packer>> \in held
Given(e) == e.stamp # Blank => e.stamp \in cleared

Provenance ==
    /\ row # None => Known(row) /\ Given(row)
    /\ \A p \in Procs :
           LET q == proc[p] IN
           /\ q.inst # None => Given(q.inst) /\ (q.pc # "saving" => Known(q.inst))
           /\ q.body # None =>
                  /\ <<q.body.cfg, q.body.ip>> \in cleared
                  /\ \E k \in BOOLEAN : <<q.body.cfg, q.body.cred, k>> \in held
                  /\ q.body.packer => <<q.body.cfg, q.body.cred, TRUE>> \in held
           /\ q.pc = "saving" =>
                  /\ q.inst.stamp = (IF row = None THEN Blank ELSE row.stamp)
                  /\ \A r \in Procs \ {p} : proc[r].pc # "saving"

(* The backend's rows say what a push of the current row would say, or     *)
(* they are duplicates and all of them are disabled.                       *)
Settled ==
    row # None /\ Approved(row, address) =>
        LET want == Payload(row, address) IN
        \/ \E i \in Ids :
               LET b == backend[i] IN
               /\ Claims(backend) = {i}
               /\ b.enabled /\ <<b.cfg, b.ip, b.cred, b.packer>>
                                = <<want.cfg, want.ip, want.cred, want.packer>>
               /\ want.ssh = "bind" => b.ssh = want.cfg
               /\ want.ssh = "clear" => b.ssh = Blank
        \/ /\ Cardinality(Claims(backend)) > 1
           /\ \A i \in Claims(backend) : ~backend[i].enabled /\ ~backend[i].packer

(***************************************************************************)
(* Once edits, lost answers and exhausted budgets stop, the preflights     *)
(* bring the backend to the approved row for good, whatever older pushes,  *)
(* caches and listings were still under way.                               *)
(***************************************************************************)
Converges == <>[]Settled
====
