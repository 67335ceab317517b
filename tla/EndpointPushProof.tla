---------------------------- MODULE EndpointPushProof ----------------------------
(***************************************************************************)
(* Proofs about EndpointPush for any number of processes, backend rows,    *)
(* configurations and credentials and for any bounds.  The inductive       *)
(* invariant is TypeOK, Provenance and DisclosedIsReviewed together; it is *)
(* handled in five parts, one per piece of state, because a step touches   *)
(* at most one process and usually one other part.                         *)
(***************************************************************************)
EXTENDS EndpointPush, TLAPS

(* What Provenance and TypeOK say of a process whose value is q, when C    *)
(* are the backend rows, H the row versions held and K the approvals given.*)
Fine(q, C, H, K) ==
    /\ q \in Processes
    /\ Carries(q)
    /\ q.seen # None => Claims(q.seen) \subseteq C
    /\ q.pc # "confirm" => q.ids \subseteq C
    /\ q.inst # None => /\ q.inst.stamp # Blank => q.inst.stamp \in K
                        /\ q.pc # "saving" => <<q.inst.cfg, q.inst.cred, q.inst.packer>> \in H
    /\ q.body # None => /\ <<q.body.cfg, q.body.ip>> \in K
                        /\ \E k \in BOOLEAN : <<q.body.cfg, q.body.cred, k>> \in H
                        /\ q.body.packer => <<q.body.cfg, q.body.cred, TRUE>> \in H

ProcPart == /\ proc \in [Procs -> Processes]
            /\ \A p \in Procs : Fine(proc[p], Claims(backend), held, cleared)
RowPart == row \in Rows \cup {None} /\ (row # None => Known(row) /\ Given(row))
BackPart == backend \in Listings /\ DisclosedIsReviewed
LockPart == \A p \in Procs : proc[p].pc = "saving" =>
                /\ proc[p].inst.stamp = (IF row = None THEN Blank ELSE row.stamp)
                /\ \A r \in Procs \ {p} : proc[r].pc # "saving"
RestPart == /\ address \in Addresses
            /\ cache \in [body : Bodies, id : Ids] \cup {None}
            /\ held \subseteq Cfgs \X Creds \X BOOLEAN
            /\ cleared \subseteq Targets
            /\ edits \in 0..MaxEdits /\ faults \in 0..MaxFaults

IInv == ProcPart /\ RowPart /\ BackPart /\ LockPart /\ RestPart

(* The parts together are the invariants the model states.                 *)
LEMMA PartsGive == IInv => TypeOK /\ Provenance /\ DisclosedIsReviewed
  BY DEF IInv, ProcPart, RowPart, BackPart, LockPart, RestPart, Fine, TypeOK, Provenance,
         Known, Given

(* What is fine stays fine when rows, versions and approvals are added.    *)
LEMMA FineGrows ==
  ASSUME NEW q, NEW C, NEW H, NEW K, NEW C2, NEW H2, NEW K2,
         C \subseteq C2, H \subseteq H2, K \subseteq K2, Fine(q, C, H, K)
  PROVE  Fine(q, C2, H2, K2)
  BY DEF Fine

(* A step of one process that leaves a fine value there.                   *)
LEMMA OneProcess ==
  ASSUME ProcPart, NEW p \in Procs, NEW q,
         proc' = [proc EXCEPT ![p] = q],
         Fine(q, Claims(backend'), held', cleared'),
         Claims(backend) \subseteq Claims(backend'), held \subseteq held',
         cleared \subseteq cleared'
  PROVE  ProcPart'
  <1>1. q \in Processes
    BY DEF Fine
  <1>2. proc' \in [Procs -> Processes]
    BY <1>1 DEF ProcPart
  <1>3. ASSUME NEW r \in Procs
        PROVE  Fine(proc'[r], Claims(backend'), held', cleared')
    <2>1. CASE r = p
      BY <2>1 DEF ProcPart
    <2>2. CASE r # p
      <3>1. proc'[r] = proc[r] /\ Fine(proc[r], Claims(backend), held, cleared)
        BY <2>2 DEF ProcPart
      <3> QED BY <3>1, FineGrows
    <2> QED BY <2>1, <2>2
  <1> QED BY <1>2, <1>3 DEF ProcPart

(* A step that changes no process and only adds.                           *)
LEMMA NoProcess ==
  ASSUME ProcPart, proc' = proc, backend' = backend, held \subseteq held',
         cleared \subseteq cleared'
  PROVE  ProcPart'
  <1>1. ASSUME NEW r \in Procs
        PROVE  Fine(proc'[r], Claims(backend'), held', cleared')
    <2>1. Fine(proc[r], Claims(backend), held, cleared)
      BY DEF ProcPart
    <2> QED BY <2>1, FineGrows
  <1> QED BY <1>1 DEF ProcPart

(* The lock part survives a step that neither starts a save nor changes    *)
(* the approval while one is under way.                                    *)
LEMMA NoNewSave ==
  ASSUME ProcPart, LockPart, NEW p \in Procs, NEW q,
         proc' = [proc EXCEPT ![p] = q], q.pc # "saving",
         row' = row \/ Unlocked
  PROVE  LockPart'
  <1> SUFFICES ASSUME NEW r \in Procs, proc'[r].pc = "saving"
               PROVE  /\ proc'[r].inst.stamp = (IF row' = None THEN Blank ELSE row'.stamp)
                      /\ \A t \in Procs \ {r} : proc'[t].pc # "saving"
    BY DEF LockPart
  <1>1. r # p /\ proc'[r] = proc[r] /\ proc[r].pc = "saving"
    BY DEF ProcPart
  <1>2. row' = row
    BY <1>1 DEF Unlocked
  <1>3. \A t \in Procs \ {r} : proc'[t].pc # "saving"
    BY <1>1 DEF LockPart, ProcPart
  <1> QED BY <1>1, <1>2, <1>3 DEF LockPart

LEMMA IdleIsFine == \A C, H, K : Fine(Idle, C, H, K) /\ Idle.pc # "saving"
  BY DEF Fine, Idle, Processes, Carries, Steps

LEMMA RowFields ==
  ASSUME NEW e \in Rows
  PROVE  /\ e # None /\ e.cfg \in Cfgs /\ e.stamp \in Targets \cup {Blank}
         /\ e.enabled \in BOOLEAN /\ e.packer \in BOOLEAN /\ e.cred \in Creds
         /\ e.pushed \in Creds \cup {Blank} /\ e.granted \in BOOLEAN
         /\ e.receipt \in Cfgs \cup {Blank}
  BY SetsAssumption DEF Rows

(* A payload built from an instance is a payload.                          *)
LEMMA PayloadType ==
  ASSUME NEW e \in Rows, NEW ip \in Addresses
  PROVE  /\ Payload(e, ip) \in Bodies /\ Payload(e, ip) # None
         /\ Payload(e, ip).cfg = e.cfg /\ Payload(e, ip).ip = ip
         /\ Payload(e, ip).cred = e.cred
         /\ Payload(e, ip).packer => e.packer
  <1>1. /\ e.cfg \in Cfgs /\ e.cred \in Creds /\ e.packer \in BOOLEAN
        /\ e.enabled \in BOOLEAN
    BY RowFields
  <1>2. (PackerAllowed(e) /\ e.cfg \notin Broken) \in BOOLEAN
    BY <1>1 DEF PackerAllowed
  <1>3. Payload(e, ip) \in Bodies
    BY <1>1, <1>2 DEF Payload, Bodies
  <1>4. /\ Payload(e, ip).cfg = e.cfg /\ Payload(e, ip).ip = ip
        /\ Payload(e, ip).cred = e.cred
    BY DEF Payload
  <1>5. Payload(e, ip).packer => e.packer
    BY <1>1 DEF Payload, PackerAllowed
  <1> QED BY <1>3, <1>4, <1>5, SetsAssumption

-----------------------------------------------------------------------------
LEMMA InitHolds == Init => IInv
  <1> SUFFICES ASSUME Init PROVE IInv
    OBVIOUS
  <1>1. PICK cfg \in Cfgs, cred \in Creds, packer \in BOOLEAN :
           /\ row = [cfg |-> cfg, stamp |-> Blank, enabled |-> TRUE,
                     packer |-> packer, cred |-> cred, pushed |-> Blank,
                     granted |-> FALSE, receipt |-> Blank]
           /\ held = {<<cfg, cred, packer>>}
    BY DEF Init
  <1>2. RowPart
    BY <1>1 DEF RowPart, Rows, Known, Given
  <1>3. ProcPart
    <2>1. Idle \in Processes
      BY DEF Idle, Processes, Steps
    <2> QED BY <2>1, IdleIsFine DEF Init, ProcPart
  <1>4. BackPart
    BY DEF Init, BackPart, Listings, DisclosedIsReviewed
  <1>5. LockPart
    BY IdleIsFine DEF Init, LockPart
  <1>6. RestPart
    BY <1>1, BoundsAssumption DEF Init, RestPart
  <1> QED BY <1>2, <1>3, <1>4, <1>5, <1>6 DEF IInv

-----------------------------------------------------------------------------
CacheType == cache \in [body : Bodies, id : Ids] \cup {None}
Counters == edits \in 0..MaxEdits /\ faults \in 0..MaxFaults

(* A step that only moves one process, to a fine value.                    *)
LEMMA QuietStep ==
  ASSUME IInv, NEW p \in Procs, NEW q,
         proc' = [proc EXCEPT ![p] = q], q.pc # "saving",
         Fine(q, Claims(backend), held, cleared),
         UNCHANGED <<row, address, backend, held, cleared>>,
         CacheType', Counters'
  PROVE  IInv'
  <1>1. ProcPart'
    BY OneProcess DEF IInv
  <1>2. LockPart'
    BY NoNewSave DEF IInv
  <1>3. RowPart' /\ BackPart'
    BY DEF IInv, RowPart, BackPart, Known, Given, DisclosedIsReviewed
  <1>4. RestPart'
    BY DEF IInv, RestPart, CacheType, Counters
  <1> QED BY <1>1, <1>2, <1>3, <1>4 DEF IInv

LEMMA QuietEnd ==
  ASSUME IInv, NEW p \in Procs, End(p),
         UNCHANGED <<row, address, backend, held, cleared>>, CacheType', Counters'
  PROVE  IInv'
  BY QuietStep, IdleIsFine DEF End

(* A step that writes the row while no save is under way.                  *)
LEMMA RowStep ==
  ASSUME IInv, Unlocked, NEW p \in Procs, NEW q,
         proc' = [proc EXCEPT ![p] = q], q.pc # "saving",
         Fine(q, Claims(backend), held, cleared),
         RowPart', held' = held, cleared \subseteq cleared', cleared' \subseteq Targets,
         UNCHANGED <<address, backend, edits, faults>>, CacheType'
  PROVE  IInv'
  <1>1. ProcPart'
    <2>1. Fine(q, Claims(backend'), held', cleared')
      BY FineGrows
    <2> QED BY <2>1, OneProcess DEF IInv
  <1>2. LockPart'
    BY NoNewSave DEF IInv
  <1>3. BackPart'
    BY DEF IInv, BackPart, DisclosedIsReviewed
  <1>4. RestPart'
    BY DEF IInv, RestPart, CacheType
  <1> QED BY <1>1, <1>2, <1>3, <1>4 DEF IInv

(* The type of the parts a step leaves alone.                              *)
LEMMA Kept ==
  ASSUME IInv
  PROVE  /\ (cache' = cache => CacheType') /\ (cache' = None => CacheType')
         /\ (UNCHANGED <<edits, faults>> => Counters')
         /\ (edits < MaxEdits /\ edits' = edits + 1 /\ faults' = faults => Counters')
         /\ (faults < MaxFaults /\ faults' = faults + 1 /\ edits' = edits => Counters')
  BY BoundsAssumption DEF IInv, RestPart, CacheType, Counters

(* What is known of a process before its step.                             *)
LEMMA Before ==
  ASSUME IInv, NEW p \in Procs
  PROVE  /\ proc[p] \in Processes
         /\ Fine(proc[p], Claims(backend), held, cleared)
         /\ address \in Addresses /\ held \subseteq Cfgs \X Creds \X BOOLEAN
         /\ row # None => /\ row \in Rows
                          /\ <<row.cfg, row.cred, row.packer>> \in held
                          /\ row.stamp # Blank => row.stamp \in cleared
  BY DEF IInv, ProcPart, RestPart, RowPart, Known, Given

(* A process that has just read the committed row, or the backend.         *)
LEMMA FreshIsFine ==
  ASSUME IInv, row # None, NEW q \in Processes, q.inst = row, Carries(q), q.body = None,
         q.pc # "confirm" => q.ids \subseteq Claims(backend),
         q.seen # None => Claims(q.seen) \subseteq Claims(backend)
  PROVE  Fine(q, Claims(backend), held, cleared)
  BY DEF IInv, RowPart, Known, Given, Fine

LEMMA OpenKeeps ==
  ASSUME IInv, NEW p \in Procs, Open(p)
  PROVE  IInv'
  <1> DEFINE q == [Idle EXCEPT !.pc = "open", !.inst = row, !.ip = address]
  <1>1. q \in Processes /\ q.inst = row /\ Carries(q) /\ q.body = None /\ q.ids = {}
        /\ q.seen = None /\ q.pc = "open"
    BY Before DEF Open, Idle, Processes, Carries, Steps
  <1>2. Fine(q, Claims(backend), held, cleared)
    BY <1>1, FreshIsFine DEF Open
  <1>3. proc' = [proc EXCEPT ![p] = q]
    BY DEF Open
  <1>4. UNCHANGED <<row, address, backend, held, cleared>> /\ CacheType' /\ Counters'
    BY Kept DEF Open
  <1> HIDE DEF q
  <1> QED BY <1>1, <1>2, <1>3, <1>4, QuietStep

LEMMA LeaveKeeps ==
  ASSUME IInv, NEW p \in Procs, Leave(p) \/ Rollback(p)
  PROVE  IInv'
  BY Kept, QuietEnd DEF Leave, Rollback

LEMMA RereadKeeps ==
  ASSUME IInv, NEW p \in Procs, Reread(p)
  PROVE  IInv'
  <1>0. UNCHANGED <<row, address, backend, held, cleared>> /\ CacheType' /\ Counters'
    BY Kept DEF Reread
  <1>1. CASE row = None
    BY <1>0, <1>1, QuietEnd DEF Reread
  <1>2. CASE row # None
    <2> DEFINE q == [proc[p] EXCEPT !.pc = "loaded", !.inst = row]
    <2>1. /\ q \in Processes /\ q.inst = row /\ q.pc = "loaded" /\ q.seen = proc[p].seen
          /\ q.ids = proc[p].ids /\ q.body = proc[p].body /\ q.plan = proc[p].plan
          /\ q.shared = proc[p].shared
      BY <1>2, Before DEF Processes, Steps
    <2>2. proc' = [proc EXCEPT ![p] = q]
      BY <1>2, Before DEF Reread, IInv, ProcPart
    <2>3. Fine(q, Claims(backend), held, cleared)
      BY <1>2, <2>1, Before DEF Fine, Carries, Reread
    <2> HIDE DEF q
    <2> QED BY <1>0, <2>1, <2>2, <2>3, QuietStep
  <1> QED BY <1>1, <1>2

LEMMA PreflightKeeps ==
  ASSUME IInv, NEW p \in Procs, PreflightList(p) \/ PushAlone(p)
  PROVE  IInv'
  <1> DEFINE a == [Idle EXCEPT !.pc = "listed", !.shared = TRUE, !.seen = backend]
             b == [Idle EXCEPT !.pc = "listed"]
  <1>0. UNCHANGED <<row, address, backend, held, cleared>> /\ CacheType' /\ Counters'
    BY Kept DEF PreflightList, PushAlone
  <1>1. backend # None
    BY SetsAssumption DEF IInv, BackPart
  <1>11. /\ a \in Processes /\ a.inst = None /\ a.body = None /\ a.ids = {}
        /\ a.seen = backend /\ a.pc = "listed" /\ Carries(a)
    BY <1>1 DEF Idle, Processes, Steps, Carries, IInv, BackPart
  <1>2. /\ b \in Processes /\ b.inst = None /\ b.body = None /\ b.ids = {}
        /\ b.seen = None /\ b.pc = "listed" /\ Carries(b)
    BY DEF Idle, Processes, Steps, Carries
  <1>3. proc' = [proc EXCEPT ![p] = a] \/ proc' = [proc EXCEPT ![p] = b]
    BY DEF PreflightList, PushAlone
  <1> HIDE DEF a, b
  <1>4. Fine(a, Claims(backend), held, cleared) /\ Fine(b, Claims(backend), held, cleared)
    BY <1>11, <1>2 DEF Fine
  <1> QED BY <1>0, <1>11, <1>2, <1>3, <1>4, QuietStep

LEMMA PreflightLoadKeeps ==
  ASSUME IInv, NEW p \in Procs, PreflightLoad(p)
  PROVE  IInv'
  <1>0. UNCHANGED <<row, address, backend, held, cleared>> /\ CacheType' /\ Counters'
    BY Kept DEF PreflightLoad
  <1>1. CASE ~(row # None /\ row.enabled)
    BY <1>0, <1>1, QuietEnd DEF PreflightLoad
  <1>2. CASE row # None /\ row.enabled
    <2> DEFINE q == [proc[p] EXCEPT !.pc = "loaded", !.inst = row]
    <2>1. /\ q \in Processes /\ q.inst = row /\ q.pc = "loaded" /\ q.seen = proc[p].seen
          /\ q.ids = proc[p].ids /\ q.body = proc[p].body /\ q.plan = proc[p].plan
          /\ q.shared = proc[p].shared
      BY <1>2, Before DEF Processes, Steps
    <2>2. proc' = [proc EXCEPT ![p] = q]
      BY <1>2, Before DEF PreflightLoad, IInv, ProcPart
    <2>3. Fine(q, Claims(backend), held, cleared)
      BY <1>2, <2>1, Before DEF Fine, Carries, PreflightLoad
    <2> HIDE DEF q
    <2> QED BY <1>0, <2>1, <2>2, <2>3, QuietStep
  <1> QED BY <1>1, <1>2

LEMMA SkipOrFailKeeps ==
  ASSUME IInv, NEW p \in Procs, SkipHeld(p) \/ Fail(p)
  PROVE  IInv'
  BY Kept, QuietEnd DEF SkipHeld, Fail

-----------------------------------------------------------------------------
(* A push that goes on to locate the backend rows.                         *)
LEMMA LocateKeeps ==
  ASSUME IInv, NEW p \in Procs, proc[p].pc \in {"loaded", "built"}, NEW plan,
         NEW ip \in Addresses, NEW body, Locate(p, plan, ip, body),
         plan \in {"full", "clear", "policy"}, body \in Bodies \cup {None},
         plan = "full" => body # None,
         body # None => /\ <<body.cfg, body.ip>> \in cleared
                        /\ \E k \in BOOLEAN : <<body.cfg, body.cred, k>> \in held
                        /\ body.packer => <<body.cfg, body.cred, TRUE>> \in held,
         UNCHANGED <<row, address, backend, cache, held, cleared, edits, faults>>
  PROVE  IInv'
  <1> DEFINE q == [proc[p] EXCEPT !.ip = ip, !.plan = plan, !.body = body, !.seen = None,
                      !.ids = IF proc[p].shared THEN Claims(proc[p].seen) ELSE {},
                      !.pc = IF proc[p].shared THEN "resolve" ELSE "list"]
  <1>1. proc' = [proc EXCEPT ![p] = q]
    BY DEF Locate
  <1>3. /\ q \in Processes /\ q.inst = proc[p].inst /\ q.plan = plan /\ q.body = body
        /\ q.seen = None /\ q.ids = (IF proc[p].shared THEN Claims(proc[p].seen) ELSE {})
        /\ q.pc = (IF proc[p].shared THEN "resolve" ELSE "list")
    BY Before DEF Processes, Steps, Claims
  <1> HIDE DEF q
  <1>4. q.ids \subseteq Claims(backend)
    BY <1>3, Before DEF Fine, Carries
  <1>5. Fine(q, Claims(backend), held, cleared)
    BY <1>3, <1>4, Before DEF Fine, Carries
  <1> QED BY <1>1, <1>3, <1>5, Kept, QuietStep

LEMMA RefuseKeeps ==
  ASSUME IInv, NEW p \in Procs, proc[p].pc \in {"loaded", "built"}, NEW ip \in Addresses,
         Refuse(p, ip),
         UNCHANGED <<row, address, backend, cache, held, cleared, edits, faults>>
  PROVE  IInv'
  <1>1. CASE End(p)
    BY <1>1, Kept, QuietEnd
  <1>2. CASE Locate(p, "clear", ip, None)
    BY <1>2, LocateKeeps
  <1> QED BY <1>1, <1>2 DEF Refuse

LEMMA PrepareKeeps ==
  ASSUME IInv, NEW p \in Procs, Prepare(p)
  PROVE  IInv'
  <1>0. /\ UNCHANGED <<row, address, backend, cache, held, cleared, edits, faults>>
        /\ proc[p].pc = "loaded"
    BY DEF Prepare
  <1>1. PICK e : e = proc[p].inst
    OBVIOUS
  <1>2. /\ e \in Rows /\ <<e.cfg, e.cred, e.packer>> \in held
        /\ e.stamp # Blank => e.stamp \in cleared
    BY <1>0, <1>1, Before DEF Fine, Carries, Processes
  <1>3. PICK body : body = Payload(e, address)
    OBVIOUS
  <1>4. address \in Addresses
    BY Before
  <1>5. /\ body \in Bodies /\ body # None /\ body.cfg = e.cfg /\ body.ip = address
        /\ body.cred = e.cred /\ (body.packer => e.packer)
    BY <1>2, <1>3, <1>4, PayloadType
  <1>6. CASE Locate(p, "policy", address, None)
    BY <1>0, <1>4, <1>6, LocateKeeps
  <1>7. CASE Refuse(p, address)
    BY <1>0, <1>4, <1>7, RefuseKeeps
  <1>8. CASE /\ Approved(e, address)
             /\ proc' = [proc EXCEPT ![p] =
                   [@ EXCEPT !.pc = "built", !.ip = address, !.body = body]]
    <2> DEFINE q == [proc[p] EXCEPT !.pc = "built", !.ip = address, !.body = body]
    <2>1. e.stamp = <<e.cfg, address>> /\ e.cfg \in Cfgs /\ e.packer \in BOOLEAN
      BY <1>2, <1>8, RowFields DEF Approved
    <2>2. <<body.cfg, body.ip>> \in cleared
      BY <2>1, <1>2, <1>4, <1>5, SetsAssumption
    <2>3. /\ \E k \in BOOLEAN : <<body.cfg, body.cred, k>> \in held
          /\ body.packer => <<body.cfg, body.cred, TRUE>> \in held
      BY <2>1, <1>2, <1>5
    <2>4. /\ q \in Processes /\ q.inst = proc[p].inst /\ q.pc = "built" /\ q.ip = address
          /\ q.body = body /\ q.plan = proc[p].plan /\ q.seen = proc[p].seen
          /\ q.shared = proc[p].shared /\ q.ids = proc[p].ids
      BY <1>4, <1>5, Before DEF Processes, Steps
    <2>5. proc' = [proc EXCEPT ![p] = q]
      BY <1>8
    <2> HIDE DEF q
    <2>6. Fine(q, Claims(backend), held, cleared)
      BY <2>2, <2>3, <2>4, <1>0, <1>4, <1>5, Before DEF Fine, Carries
    <2> QED BY <1>0, <2>4, <2>5, <2>6, Kept, QuietStep
  <1> QED BY <1>0, <1>1, <1>3, <1>6, <1>7, <1>8 DEF Prepare

LEMMA RecheckKeeps ==
  ASSUME IInv, NEW p \in Procs, Recheck(p)
  PROVE  IInv'
  <1>0. /\ UNCHANGED <<row, address, backend, cache, held, cleared, edits, faults>>
        /\ proc[p].pc = "built"
    BY DEF Recheck
  <1>1. /\ proc[p].ip \in Addresses /\ proc[p].plan = "full"
        /\ proc[p].body \in Bodies /\ proc[p].body # None
        /\ <<proc[p].body.cfg, proc[p].body.ip>> \in cleared
        /\ \E k \in BOOLEAN : <<proc[p].body.cfg, proc[p].body.cred, k>> \in held
        /\ proc[p].body.packer => <<proc[p].body.cfg, proc[p].body.cred, TRUE>> \in held
    BY <1>0, Before DEF Fine, Carries, Processes
  <1>2. CASE Refuse(p, proc[p].ip)
    BY <1>0, <1>1, <1>2, RefuseKeeps
  <1>3. CASE Locate(p, "full", proc[p].ip, proc[p].body)
    BY <1>0, <1>1, <1>3, LocateKeeps
  <1>4. CASE /\ CacheHit(proc[p], proc[p].body)
             /\ proc' = [proc EXCEPT ![p] = [@ EXCEPT !.pc = "confirm", !.ids = {cache.id}]]
    <2> DEFINE q == [proc[p] EXCEPT !.pc = "confirm", !.ids = {cache.id}]
    <2>1. cache.id \in Ids
      BY <1>4 DEF CacheHit, IInv, RestPart
    <2>2. /\ q \in Processes /\ q.inst = proc[p].inst /\ q.pc = "confirm"
          /\ q.body = proc[p].body /\ q.plan = proc[p].plan /\ q.seen = proc[p].seen
          /\ q.shared = proc[p].shared
      BY <2>1, Before DEF Processes, Steps
    <2>3. proc' = [proc EXCEPT ![p] = q]
      BY <1>4
    <2> HIDE DEF q
    <2>4. Fine(q, Claims(backend), held, cleared)
      BY <2>2, <1>0, <1>1, Before DEF Fine, Carries
    <2> QED BY <1>0, <2>2, <2>3, <2>4, Kept, QuietStep
  <1> QED BY <1>2, <1>3, <1>4 DEF Recheck

LEMMA ConfirmKeeps ==
  ASSUME IInv, NEW p \in Procs, Confirm(p)
  PROVE  IInv'
  <1>0. /\ UNCHANGED <<row, address, backend, held, cleared, edits, faults>>
        /\ proc[p].pc = "confirm" /\ (cache' = cache \/ cache' = None)
    BY DEF Confirm
  <1>1. CASE End(p)
    BY <1>0, <1>1, Kept, QuietEnd
  <1>2. CASE proc' = [proc EXCEPT ![p].pc = "list", ![p].ids = {}]
    <2> DEFINE q == [proc[p] EXCEPT !.pc = "list", !.ids = {}]
    <2>1. /\ q \in Processes /\ q.inst = proc[p].inst /\ q.pc = "list" /\ q.ids = {}
          /\ q.body = proc[p].body /\ q.plan = proc[p].plan /\ q.seen = proc[p].seen
          /\ q.shared = proc[p].shared
      BY Before DEF Processes, Steps
    <2>2. proc' = [proc EXCEPT ![p] = q]
      BY <1>2 DEF IInv, ProcPart
    <2> HIDE DEF q
    <2>3. Fine(q, Claims(backend), held, cleared)
      BY <2>1, <1>0, Before DEF Fine, Carries
    <2> QED BY <1>0, <2>1, <2>2, <2>3, Kept, QuietStep
  <1> QED BY <1>1, <1>2 DEF Confirm

LEMMA ListKeeps ==
  ASSUME IInv, NEW p \in Procs, List(p)
  PROVE  IInv'
  <1> DEFINE q == [proc[p] EXCEPT !.pc = "resolve", !.ids = Claims(backend)]
  <1>0. /\ UNCHANGED <<row, address, backend, cache, held, cleared, edits, faults>>
        /\ proc[p].pc = "list"
    BY DEF List
  <1>1. /\ q \in Processes /\ q.inst = proc[p].inst /\ q.pc = "resolve"
        /\ q.ids = Claims(backend) /\ q.body = proc[p].body /\ q.plan = proc[p].plan
        /\ q.seen = proc[p].seen /\ q.shared = proc[p].shared
    BY Before DEF Processes, Steps, Claims
  <1>2. proc' = [proc EXCEPT ![p] = q]
    BY DEF List, IInv, ProcPart
  <1> HIDE DEF q
  <1>3. Fine(q, Claims(backend), held, cleared)
    BY <1>0, <1>1, Before DEF Fine, Carries
  <1> QED BY <1>0, <1>1, <1>2, <1>3, Kept, QuietStep

(* A process that moves on with everything it carries.                     *)
LEMMA GotoIsFine ==
  ASSUME IInv, NEW p \in Procs, NEW pc, Goto(p, pc), pc \in Steps \ {"saving"},
         proc[p].pc \notin {"confirm", "saving"},
         Carries([proc[p] EXCEPT !.pc = pc])
  PROVE  \E q : /\ proc' = [proc EXCEPT ![p] = q] /\ q.pc # "saving"
               /\ Fine(q, Claims(backend), held, cleared)
  <1> DEFINE q == [proc[p] EXCEPT !.pc = pc]
  <1>1. /\ q \in Processes /\ q.inst = proc[p].inst /\ q.pc = pc
        /\ q.ids = proc[p].ids /\ q.body = proc[p].body /\ q.plan = proc[p].plan
        /\ q.seen = proc[p].seen /\ q.shared = proc[p].shared /\ Carries(q)
    BY Before DEF Processes
  <1>2. proc' = [proc EXCEPT ![p] = q]
    BY DEF Goto, IInv, ProcPart
  <1> HIDE DEF q
  <1>3. Fine(q, Claims(backend), held, cleared)
    BY <1>1, Before DEF Fine
  <1> QED BY <1>1, <1>2, <1>3

LEMMA GotoKeeps ==
  ASSUME IInv, NEW p \in Procs, NEW pc, Goto(p, pc), pc \in Steps \ {"saving"},
         proc[p].pc \notin {"confirm", "saving"},
         Carries([proc[p] EXCEPT !.pc = pc]),
         UNCHANGED <<row, address, backend, cache, held, cleared, edits, faults>>
  PROVE  IInv'
  <1>1. PICK q : /\ proc' = [proc EXCEPT ![p] = q] /\ q.pc # "saving"
                 /\ Fine(q, Claims(backend), held, cleared)
    BY GotoIsFine
  <1> QED BY <1>1, Kept, QuietStep

LEMMA FallBackKeeps ==
  ASSUME IInv, NEW p \in Procs, FallBack(p), proc[p].pc = "resolve",
         UNCHANGED <<row, address, backend, cache, held, cleared, edits, faults>>
  PROVE  IInv'
  <1>1. CASE End(p)
    BY <1>1, Kept, QuietEnd
  <1>2. CASE ~End(p)
    <2> DEFINE q == [proc[p] EXCEPT !.plan = "clear", !.body = None,
                        !.pc = IF proc[p].shared THEN "resolve" ELSE "list"]
    <2>1. /\ q \in Processes /\ q.inst = proc[p].inst
          /\ q.pc = (IF proc[p].shared THEN "resolve" ELSE "list")
          /\ q.ids = proc[p].ids /\ q.body = None /\ q.plan = "clear"
          /\ q.seen = proc[p].seen /\ q.shared = proc[p].shared
      BY Before DEF Processes, Steps
    <2>2. proc' = [proc EXCEPT ![p] = q]
      BY <1>2 DEF FallBack, IInv, ProcPart
    <2> HIDE DEF q
    <2>3. Fine(q, Claims(backend), held, cleared)
      BY <2>1, Before DEF Fine, Carries
    <2> QED BY <2>1, <2>2, <2>3, Kept, QuietStep
  <1> QED BY <1>1, <1>2

LEMMA ResolveKeeps ==
  ASSUME IInv, NEW p \in Procs, Resolve(p)
  PROVE  IInv'
  <1>0. /\ UNCHANGED <<row, address, backend, cache, held, cleared, edits, faults>>
        /\ proc[p].pc = "resolve"
    BY DEF Resolve
  <1>1. proc[p] \in Processes /\ Carries(proc[p])
    BY Before DEF Fine
  <1>2. ASSUME NEW pc, Goto(p, pc), pc \in {"revoke", "grant", "send", "receipt"},
               pc = "receipt" => proc[p].plan = "full",
               pc = "send" /\ proc[p].plan # "full" => proc[p].ids # {}
        PROVE  IInv'
    <2>1. Carries([proc[p] EXCEPT !.pc = pc])
      BY <1>0, <1>1, <1>2 DEF Carries, Processes
    <2> QED BY <1>0, <1>2, <2>1, GotoKeeps DEF Steps
  <1>3. CASE End(p)
    BY <1>0, <1>3, Kept, QuietEnd
  <1>4. CASE FallBack(p)
    BY <1>0, <1>4, FallBackKeeps
  <1> QED BY <1>2, <1>3, <1>4 DEF Resolve

LEMMA FailRevokeKeeps ==
  ASSUME IInv, NEW p \in Procs, FailRevoke(p)
  PROVE  IInv'
  <1>0. /\ UNCHANGED <<row, address, backend, cache, held, cleared, edits>>
        /\ proc[p].pc = "revoke" /\ faults < MaxFaults /\ faults' = faults + 1
    BY DEF FailRevoke
  <1>1. CASE End(p)
    BY <1>0, <1>1, Kept, QuietEnd
  <1>2. CASE \E i \in proc[p].ids : proc' = [proc EXCEPT ![p].ids = @ \ {i}]
    <2>1. PICK i \in proc[p].ids : proc' = [proc EXCEPT ![p].ids = @ \ {i}]
      BY <1>2
    <2> DEFINE q == [proc[p] EXCEPT !.ids = proc[p].ids \ {i}]
    <2>2. /\ q \in Processes /\ q.inst = proc[p].inst /\ q.pc = "revoke"
          /\ q.ids = proc[p].ids \ {i} /\ q.body = proc[p].body /\ q.plan = proc[p].plan
          /\ q.seen = proc[p].seen /\ q.shared = proc[p].shared
      BY <1>0, Before DEF Processes
    <2>3. proc' = [proc EXCEPT ![p] = q]
      BY <2>1 DEF IInv, ProcPart
    <2> HIDE DEF q
    <2>4. Fine(q, Claims(backend), held, cleared)
      BY <1>0, <2>2, Before DEF Fine, Carries
    <2> QED BY <1>0, <2>2, <2>3, <2>4, Kept, QuietStep
  <1> QED BY <1>1, <1>2 DEF FailRevoke

-----------------------------------------------------------------------------
(* Steps that change the backend.                                          *)

Reviewed(b) == /\ <<b.cfg, b.ip>> \in cleared
               /\ \E k \in BOOLEAN : <<b.cfg, b.cred, k>> \in held
               /\ b.packer => <<b.cfg, b.cred, TRUE>> \in held

(* One backend row is replaced by a reviewed one.                          *)
LEMMA BackStep ==
  ASSUME IInv, NEW p \in Procs, NEW q, NEW i \in Ids, NEW b \in BackendRows, Reviewed(b),
         backend' = [backend EXCEPT ![i] = b],
         proc' = [proc EXCEPT ![p] = q], q.pc # "saving",
         Fine(q, Claims(backend'), held, cleared),
         UNCHANGED <<row, address, cache, held, cleared, edits, faults>>
  PROVE  IInv'
  <1>1. b # None
    BY SetsAssumption
  <1>2. backend' \in Listings
    BY DEF IInv, BackPart, Listings
  <1>3. Claims(backend) \subseteq Claims(backend')
    BY <1>1 DEF Claims, IInv, BackPart, Listings
  <1>4. DisclosedIsReviewed'
    <2> SUFFICES ASSUME NEW j \in Ids, backend'[j] # None
                 PROVE  /\ <<backend'[j].cfg, backend'[j].ip>> \in cleared
                        /\ \E k \in BOOLEAN : <<backend'[j].cfg, backend'[j].cred, k>> \in held
                        /\ backend'[j].packer =>
                              <<backend'[j].cfg, backend'[j].cred, TRUE>> \in held
      BY DEF DisclosedIsReviewed
    <2>1. CASE j = i
      BY <2>1 DEF Reviewed, IInv, BackPart, Listings
    <2>2. CASE j # i
      BY <2>2 DEF IInv, BackPart, Listings, DisclosedIsReviewed
    <2> QED BY <2>1, <2>2
  <1>5. ProcPart'
    BY <1>3, OneProcess DEF IInv
  <1>6. LockPart'
    BY NoNewSave DEF IInv
  <1>7. RowPart' /\ RestPart'
    BY DEF IInv, RowPart, RestPart, Known, Given
  <1> QED BY <1>2, <1>4, <1>5, <1>6, <1>7 DEF IInv, BackPart

LEMMA ClaimsGrow ==
  ASSUME IInv, NEW i \in Ids, NEW b \in BackendRows, backend' = [backend EXCEPT ![i] = b]
  PROVE  Claims(backend) \subseteq Claims(backend') /\ i \in Claims(backend')
  BY SetsAssumption DEF Claims, IInv, BackPart, Listings

LEMMA RevokeKeeps ==
  ASSUME IInv, NEW p \in Procs, Revoke(p)
  PROVE  IInv'
  <1>0. /\ UNCHANGED <<row, address, cache, held, cleared, edits, faults>>
        /\ proc[p].pc = "revoke"
    BY DEF Revoke
  <1>1. PICK i \in proc[p].ids :
           /\ backend' = [backend EXCEPT ![i].enabled = FALSE, ![i].packer = FALSE]
           /\ IF proc[p].ids = {i} THEN End(p)
              ELSE proc' = [proc EXCEPT ![p].ids = @ \ {i}]
    BY DEF Revoke
  <1>2. i \in Ids /\ backend[i] # None /\ backend[i] \in BackendRows
    BY <1>0, <1>1, Before DEF Fine, Claims, IInv, BackPart, Listings
  <1>3. PICK b : b = [backend[i] EXCEPT !.enabled = FALSE, !.packer = FALSE]
    OBVIOUS
  <1>4. /\ b \in BackendRows /\ b.cfg = backend[i].cfg /\ b.ip = backend[i].ip
        /\ b.cred = backend[i].cred /\ b.packer = FALSE
    BY <1>2, <1>3 DEF BackendRows
  <1>5. Reviewed(b)
    BY <1>2, <1>4 DEF Reviewed, IInv, BackPart, DisclosedIsReviewed
  <1>6. backend' = [backend EXCEPT ![i] = b]
    BY <1>1, <1>2, <1>3 DEF IInv, BackPart, Listings
  <1>7. CASE End(p)
    BY <1>0, <1>2, <1>4, <1>5, <1>6, <1>7, IdleIsFine, BackStep DEF End
  <1>8. CASE proc' = [proc EXCEPT ![p].ids = @ \ {i}]
    <2> DEFINE q == [proc[p] EXCEPT !.ids = proc[p].ids \ {i}]
    <2>1. /\ q \in Processes /\ q.inst = proc[p].inst /\ q.pc = "revoke"
          /\ q.ids = proc[p].ids \ {i} /\ q.body = proc[p].body /\ q.plan = proc[p].plan
          /\ q.seen = proc[p].seen /\ q.shared = proc[p].shared
      BY <1>0, Before DEF Processes
    <2>2. proc' = [proc EXCEPT ![p] = q]
      BY <1>8 DEF IInv, ProcPart
    <2> HIDE DEF q
    <2>3. Fine(q, Claims(backend), held, cleared)
      BY <1>0, <2>1, Before DEF Fine, Carries
    <2>4. Fine(q, Claims(backend'), held, cleared)
      BY <2>3, <1>2, <1>4, <1>6, ClaimsGrow, FineGrows
    <2> QED BY <1>0, <1>2, <1>4, <1>5, <1>6, <2>1, <2>2, <2>4, BackStep
  <1> QED BY <1>1, <1>7, <1>8

(* A request leaves a reviewed row behind.                                 *)
LEMMA AppliedIsReviewed ==
  ASSUME IInv, NEW p \in Procs, NEW i \in Ids, proc[p].pc = "send",
         proc[p].ids \subseteq {i}
  PROVE  Applied(proc[p], i) \in BackendRows /\ Reviewed(Applied(proc[p], i))
  <1>1. PICK q : q = proc[p]
    OBVIOUS
  <1>2. q \in Processes /\ Carries(q) /\ Fine(q, Claims(backend), held, cleared)
        /\ q.pc = "send"
    BY <1>1, Before DEF Fine
  <1>3. backend[i] \in BackendRows \cup {None}
    BY DEF IInv, BackPart, Listings
  <1>4. CASE q.plan = "full"
    <2>1. q.body \in Bodies /\ q.body # None
      BY <1>2, <1>4 DEF Carries, Processes
    <2>2. PICK z : z = (IF q.body.ssh = "bind" THEN q.body.cfg
                        ELSE IF q.body.ssh = "clear" \/ backend[i] = None THEN Blank
                        ELSE backend[i].ssh)
      OBVIOUS
    <2>3. z \in Cfgs \cup {Blank}
      BY <2>1, <2>2, <1>3 DEF Bodies, BackendRows
    <2>4. Applied(q, i) = [cfg |-> q.body.cfg, ip |-> q.body.ip, cred |-> q.body.cred,
                           enabled |-> TRUE, packer |-> q.body.packer, ssh |-> z]
      BY <1>4, <2>2 DEF Applied
    <2>5. Applied(q, i) \in BackendRows
      BY <2>1, <2>3, <2>4 DEF Bodies, BackendRows
    <2>6. Reviewed(Applied(q, i))
      BY <1>2, <2>1, <2>4 DEF Reviewed, Fine
    <2> QED BY <1>1, <2>5, <2>6
  <1>5. CASE q.plan # "full"
    <2>1. backend[i] # None /\ backend[i] \in BackendRows
      <3>1. q.ids = {i}
        BY <1>1, <1>2, <1>5 DEF Carries
      <3> QED BY <3>1, <1>2, <1>3 DEF Fine, Claims
    <2>2. PICK z, y : /\ z \in Cfgs \cup {Blank} /\ y \in BOOLEAN
                      /\ Applied(q, i) = [backend[i] EXCEPT !.packer = FALSE,
                                             !.enabled = y, !.ssh = z]
      <3>1. PICK y : y = (backend[i].enabled /\ q.plan = "clear")
        OBVIOUS
      <3>2. PICK z : z = (IF q.plan = "clear" \/ (q.plan = "policy" /\ q.inst.receipt # Blank)
                          THEN Blank ELSE backend[i].ssh)
        OBVIOUS
      <3>3. y \in BOOLEAN /\ z \in Cfgs \cup {Blank}
        BY <3>1, <3>2, <2>1 DEF BackendRows
      <3>4. Applied(q, i) = [backend[i] EXCEPT !.packer = FALSE, !.enabled = y, !.ssh = z]
        BY <3>1, <3>2, <2>1, <1>5 DEF Applied, BackendRows
      <3> QED BY <3>3, <3>4
    <2>3. /\ Applied(q, i) \in BackendRows
          /\ Applied(q, i).cfg = backend[i].cfg /\ Applied(q, i).ip = backend[i].ip
          /\ Applied(q, i).cred = backend[i].cred /\ Applied(q, i).packer = FALSE
      BY <2>1, <2>2 DEF BackendRows
    <2>4. Reviewed(Applied(q, i))
      BY <2>1, <2>3 DEF Reviewed, IInv, BackPart, DisclosedIsReviewed
    <2> QED BY <1>1, <2>3, <2>4
  <1> QED BY <1>4, <1>5

LEMMA SendKeeps ==
  ASSUME IInv, NEW p \in Procs, Send(p)
  PROVE  IInv'
  <1>0. /\ UNCHANGED <<row, address, cache, held, cleared, edits, faults>>
        /\ proc[p].pc = "send"
    BY DEF Send
  <1>1. PICK i \in Ids :
           /\ proc[p].ids \subseteq {i}
           /\ backend' = [backend EXCEPT ![i] = Applied(proc[p], i)]
           /\ proc' = [proc EXCEPT ![p].ids = {i}, ![p].pc = AfterSend(proc[p])]
    BY DEF Send
  <1>2. PICK b : b = Applied(proc[p], i)
    OBVIOUS
  <1>3. b \in BackendRows /\ Reviewed(b) /\ backend' = [backend EXCEPT ![i] = b]
    BY <1>0, <1>1, <1>2, AppliedIsReviewed
  <1> DEFINE q == [proc[p] EXCEPT !.ids = {i}, !.pc = AfterSend(proc[p])]
  <1>4. /\ AfterSend(proc[p]) \in {"erase", "remember", "grant"}
        /\ AfterSend(proc[p]) = "remember" => proc[p].plan = "full"
    BY Before DEF AfterSend, Processes
  <1>5. /\ q \in Processes /\ q.inst = proc[p].inst /\ q.pc = AfterSend(proc[p])
        /\ q.ids = {i} /\ q.body = proc[p].body /\ q.plan = proc[p].plan
        /\ q.seen = proc[p].seen /\ q.shared = proc[p].shared
    BY <1>4, Before DEF Processes, Steps
  <1>6. proc' = [proc EXCEPT ![p] = q]
    BY <1>1 DEF IInv, ProcPart
  <1> HIDE DEF q
  <1>7. i \in Claims(backend') /\ Claims(backend) \subseteq Claims(backend')
    BY <1>3, ClaimsGrow
  <1>8. Fine(q, Claims(backend'), held, cleared)
    BY <1>0, <1>4, <1>5, <1>7, Before DEF Fine, Carries
  <1> QED BY <1>0, <1>3, <1>4, <1>5, <1>6, <1>8, BackStep

-----------------------------------------------------------------------------
(* Steps that change the row.                                              *)

(* A column that neither identifies the version nor approves it.           *)
LEMMA BookkeepingColumn ==
  ASSUME IInv, UNCHANGED <<held, cleared>>, row # None => row' \in Rows,
         row # None => /\ row'.cfg = row.cfg /\ row'.cred = row.cred
                       /\ row'.packer = row.packer /\ row'.stamp = row.stamp,
         row = None => row' = None
  PROVE  RowPart'
  BY DEF IInv, RowPart, Known, Given

LEMMA Column ==
  ASSUME IInv, row # None
  PROVE  /\ \A v \in Cfgs \cup {Blank} :
               LET e == [row EXCEPT !.receipt = v] IN
               /\ e \in Rows /\ e.cfg = row.cfg /\ e.cred = row.cred
               /\ e.packer = row.packer /\ e.stamp = row.stamp
         /\ \A v \in Creds \cup {Blank} :
               LET e == [row EXCEPT !.pushed = v] IN
               /\ e \in Rows /\ e.cfg = row.cfg /\ e.cred = row.cred
               /\ e.packer = row.packer /\ e.stamp = row.stamp
         /\ \A v \in BOOLEAN :
               LET e == [row EXCEPT !.granted = v] IN
               /\ e \in Rows /\ e.cfg = row.cfg /\ e.cred = row.cred
               /\ e.packer = row.packer /\ e.stamp = row.stamp
         /\ \A v \in BOOLEAN :
               LET e == [row EXCEPT !.enabled = v] IN
               /\ e \in Rows /\ e.cfg = row.cfg /\ e.cred = row.cred
               /\ e.packer = row.packer /\ e.stamp = row.stamp
  <1>1. row \in Rows
    BY DEF IInv, RowPart
  <1> QED BY <1>1 DEF Rows

LEMMA ReceiptKeeps ==
  ASSUME IInv, NEW p \in Procs, RecordReceipt(p)
  PROVE  IInv'
  <1>0. /\ UNCHANGED <<address, backend, cache, held, cleared, edits, faults>>
        /\ proc[p].pc = "receipt" /\ Unlocked
    BY DEF RecordReceipt
  <1>1. CASE row = None
    BY <1>0, <1>1, Kept, QuietEnd DEF RecordReceipt
  <1>2. CASE row # None
    <2>1. /\ proc[p] \in Processes /\ Carries(proc[p]) /\ proc[p].plan = "full"
          /\ proc[p].body \in Bodies
      BY <1>0, Before DEF Fine, Carries, Processes
    <2>2. row' = [row EXCEPT !.receipt = proc[p].body.cfg] /\ Goto(p, "send")
      BY <1>2 DEF RecordReceipt
    <2>3. proc[p].body.cfg \in Cfgs \cup {Blank}
      BY <2>1 DEF Bodies
    <2>4. RowPart'
      BY <1>0, <1>2, <2>2, <2>3, Column, BookkeepingColumn
    <2>5. Carries([proc[p] EXCEPT !.pc = "send"])
      BY <1>0, <2>1 DEF Carries, Processes
    <2>6. PICK q : /\ proc' = [proc EXCEPT ![p] = q] /\ q.pc # "saving"
                   /\ Fine(q, Claims(backend), held, cleared)
      BY <1>0, <2>2, <2>5, GotoIsFine DEF Steps
    <2>7. cleared' \subseteq Targets /\ CacheType'
      BY <1>0, Kept DEF IInv, RestPart
    <2> QED BY <1>0, <2>4, <2>6, <2>7, RowStep
  <1> QED BY <1>1, <1>2

LEMMA EraseKeeps ==
  ASSUME IInv, NEW p \in Procs, Erase(p)
  PROVE  IInv'
  <1>0. /\ UNCHANGED <<address, backend, cache, held, cleared, edits, faults>>
        /\ proc[p].pc = "erase" /\ Unlocked
        /\ row' = IF row # None /\ row.receipt = proc[p].inst.receipt
                  THEN [row EXCEPT !.receipt = Blank] ELSE row
    BY DEF Erase
  <1>1. RowPart'
    <2>1. CASE row # None /\ row' = [row EXCEPT !.receipt = Blank]
      BY <1>0, <2>1, Column, BookkeepingColumn
    <2>2. CASE row' = row
      BY <1>0, <2>2 DEF IInv, RowPart, Known, Given
    <2> QED BY <1>0, <2>1, <2>2
  <1>2. cleared' \subseteq Targets /\ CacheType'
    BY <1>0, Kept DEF IInv, RestPart
  <1>3. proc[p] \in Processes /\ Carries(proc[p])
    BY Before DEF Fine
  <1>4. CASE proc[p].plan = "clear"
    BY <1>0, <1>1, <1>2, <1>4, IdleIsFine, RowStep DEF Erase, End
  <1>5. CASE proc[p].plan # "clear"
    <2>1. PICK pc : /\ Goto(p, pc) /\ pc \in {"grant", "remember"}
                    /\ pc = "remember" => proc[p].plan = "full"
      BY <1>3, <1>5 DEF Erase, Processes
    <2>2. Carries([proc[p] EXCEPT !.pc = pc])
      BY <1>0, <1>3, <2>1 DEF Carries, Processes
    <2>3. PICK q : /\ proc' = [proc EXCEPT ![p] = q] /\ q.pc # "saving"
                   /\ Fine(q, Claims(backend), held, cleared)
      BY <1>0, <2>1, <2>2, GotoIsFine DEF Steps
    <2> QED BY <1>0, <1>1, <1>2, <2>3, RowStep
  <1> QED BY <1>4, <1>5

LEMMA RememberKeeps ==
  ASSUME IInv, NEW p \in Procs, Remember(p)
  PROVE  IInv'
  <1>0. /\ UNCHANGED <<row, address, backend, held, cleared, edits, faults>>
        /\ proc[p].pc = "remember" /\ Goto(p, "note")
    BY DEF Remember
  <1>1. /\ proc[p] \in Processes /\ Carries(proc[p]) /\ proc[p].plan = "full"
        /\ proc[p].body \in Bodies
    BY <1>0, Before DEF Fine, Carries, Processes
  <1>2. CacheType'
    <2>1. PICK i \in proc[p].ids : cache' = [body |-> proc[p].body, id |-> i]
      BY DEF Remember
    <2>2. i \in Ids
      BY <1>1, <2>1 DEF Processes
    <2> QED BY <1>1, <2>1, <2>2 DEF CacheType
  <1>3. Carries([proc[p] EXCEPT !.pc = "note"])
    BY <1>0, <1>1 DEF Carries, Processes
  <1>4. PICK q : /\ proc' = [proc EXCEPT ![p] = q] /\ q.pc # "saving"
                 /\ Fine(q, Claims(backend), held, cleared)
    BY <1>0, <1>3, GotoIsFine DEF Steps
  <1> QED BY <1>0, <1>2, <1>4, Kept, QuietStep

LEMMA PushedKeeps ==
  ASSUME IInv, NEW p \in Procs, RecordPushed(p)
  PROVE  IInv'
  <1>0. /\ UNCHANGED <<address, backend, cache, held, cleared, edits, faults>>
        /\ proc[p].pc = "note" /\ Unlocked /\ Goto(p, "grant")
        /\ row' = IF row = None THEN row ELSE [row EXCEPT !.pushed = proc[p].body.cred]
    BY DEF RecordPushed
  <1>1. /\ proc[p] \in Processes /\ Carries(proc[p]) /\ proc[p].plan = "full"
        /\ proc[p].body \in Bodies
    BY <1>0, Before DEF Fine, Carries, Processes
  <1>2. proc[p].body.cred \in Creds
    BY <1>1 DEF Bodies
  <1>3. RowPart'
    <2>1. CASE row = None
      BY <1>0, <2>1 DEF IInv, RowPart, Known, Given
    <2>2. CASE row # None
      BY <1>0, <1>2, <2>2, Column, BookkeepingColumn
    <2> QED BY <2>1, <2>2
  <1>4. cleared' \subseteq Targets /\ CacheType'
    BY <1>0, Kept DEF IInv, RestPart
  <1>5. Carries([proc[p] EXCEPT !.pc = "grant"])
    BY <1>0, <1>1 DEF Carries, Processes
  <1>6. PICK q : /\ proc' = [proc EXCEPT ![p] = q] /\ q.pc # "saving"
                 /\ Fine(q, Claims(backend), held, cleared)
    BY <1>0, <1>5, GotoIsFine DEF Steps
  <1> QED BY <1>0, <1>3, <1>4, <1>6, RowStep

LEMMA GrantKeeps ==
  ASSUME IInv, NEW p \in Procs, RecordGrant(p)
  PROVE  IInv'
  <1>0. /\ UNCHANGED <<address, backend, cache, held, cleared, edits, faults>>
        /\ Unlocked /\ End(p)
    BY DEF RecordGrant
  <1>1. PICK v : v = (proc[p].plan = "full" /\ proc[p].body.packer)
    OBVIOUS
  <1>2. v \in BOOLEAN
    BY <1>1
  <1>3. row' = IF row = None THEN row ELSE [row EXCEPT !.granted = v]
    BY <1>1 DEF RecordGrant
  <1>4. RowPart'
    <2>1. CASE row = None
      BY <1>0, <1>3, <2>1 DEF IInv, RowPart, Known, Given
    <2>2. CASE row # None
      BY <1>0, <1>2, <1>3, <2>2, Column, BookkeepingColumn
    <2> QED BY <2>1, <2>2
  <1>5. cleared' \subseteq Targets /\ CacheType'
    BY <1>0, Kept DEF IInv, RestPart
  <1> QED BY <1>0, <1>4, <1>5, IdleIsFine, RowStep DEF End

LEMMA DeleteKeeps ==
  ASSUME IInv, NEW p \in Procs, Delete(p)
  PROVE  IInv'
  <1>1. /\ UNCHANGED <<address, backend, cache, held, cleared, edits, faults>>
        /\ Unlocked /\ End(p) /\ row' = None
    BY DEF Delete
  <1>2. RowPart'
    BY <1>1 DEF RowPart
  <1>3. cleared' \subseteq Targets /\ CacheType'
    BY <1>1, Kept DEF IInv, RestPart
  <1> QED BY <1>1, <1>2, <1>3, IdleIsFine, RowStep DEF End

(* The value of a process whose save or approval has committed.            *)
LEMMA CommittedIsFine ==
  LET q == [Idle EXCEPT !.pc = "committed"]
  IN  q.pc # "saving" /\ \A C, H, K : Fine(q, C, H, K)
  BY DEF Fine, Idle, Processes, Carries, Steps

LEMMA ApproveKeeps ==
  ASSUME IInv, NEW p \in Procs, Approve(p)
  PROVE  IInv'
  <1>1. /\ UNCHANGED <<address, backend, held, edits, faults>> /\ cache' = None
        /\ Unlocked /\ row # None
        /\ row' = [row EXCEPT !.stamp = <<row.cfg, address>>]
        /\ cleared' = cleared \cup {<<row.cfg, address>>}
        /\ proc' = [proc EXCEPT ![p] = [Idle EXCEPT !.pc = "committed"]]
    BY DEF Approve
  <1>2. row \in Rows /\ address \in Addresses /\ row.cfg \in Cfgs
    BY <1>1, Before, RowFields
  <1>3. <<row.cfg, address>> \in Targets
    BY <1>2 DEF Targets
  <1>4. /\ row' \in Rows /\ row'.cfg = row.cfg /\ row'.cred = row.cred
        /\ row'.packer = row.packer /\ row'.stamp = <<row.cfg, address>>
    BY <1>1, <1>2, <1>3 DEF Rows
  <1>5. RowPart'
    BY <1>1, <1>4 DEF RowPart, Known, Given, IInv
  <1>6. cleared \subseteq cleared' /\ cleared' \subseteq Targets /\ CacheType'
    BY <1>1, <1>3, Kept DEF IInv, RestPart
  <1> QED BY <1>1, <1>5, <1>6, CommittedIsFine, RowStep

LEMMA SaveKeeps ==
  ASSUME IInv, NEW p \in Procs, Save(p)
  PROVE  IInv'
  <1>1. /\ UNCHANGED <<row, address, backend, held, cleared, edits, faults>> /\ cache' = None
        /\ proc[p].pc = "open" /\ Unlocked
    BY DEF Save
  <1>2. PICK st : st = (IF row = None THEN Blank ELSE row.stamp)
    OBVIOUS
  <1>3. PICK e \in Edited(proc[p].inst) :
           proc' = [proc EXCEPT ![p].pc = "saving", ![p].inst = [e EXCEPT !.stamp = st]]
    BY <1>2 DEF Save
  <1>4. proc[p] \in Processes /\ Carries(proc[p]) /\ proc[p].inst \in Rows
    BY <1>1, Before DEF Fine, Carries, Processes
  <1>5. e \in Rows
    BY <1>3, <1>4 DEF Edited, Rows
  <1>6. st \in Targets \cup {Blank} /\ (st # Blank => st \in cleared)
    BY <1>2, Before, RowFields
  <1>7. PICK f : f = [e EXCEPT !.stamp = st]
    OBVIOUS
  <1>8. f \in Rows /\ f.stamp = st
    BY <1>5, <1>6, <1>7 DEF Rows
  <1> DEFINE q == [proc[p] EXCEPT !.pc = "saving", !.inst = f]
  <1>9. /\ q \in Processes /\ q.inst = f /\ q.pc = "saving"
        /\ q.ids = proc[p].ids /\ q.body = proc[p].body /\ q.plan = proc[p].plan
        /\ q.seen = proc[p].seen /\ q.shared = proc[p].shared
    BY <1>4, <1>8 DEF Processes, Steps
  <1>10. proc' = [proc EXCEPT ![p] = q]
    BY <1>3, <1>7 DEF IInv, ProcPart
  <1> HIDE DEF q
  <1>11. Fine(q, Claims(backend), held, cleared)
    <2>1. f # None
      BY <1>8, RowFields
    <2>2. Carries(q)
      BY <1>9, <2>1 DEF Carries
    <2> QED BY <1>1, <1>6, <1>8, <1>9, <2>2, Before DEF Fine
  <1>12. ProcPart'
    BY <1>1, <1>10, <1>11, OneProcess DEF IInv
  <1>13. LockPart'
    <2> SUFFICES ASSUME NEW r \in Procs, proc'[r].pc = "saving"
                 PROVE  /\ proc'[r].inst.stamp = (IF row' = None THEN Blank ELSE row'.stamp)
                        /\ \A t \in Procs \ {r} : proc'[t].pc # "saving"
      BY DEF LockPart
    <2>1. \A t \in Procs \ {p} : proc'[t] = proc[t] /\ proc[t].pc # "saving"
      BY <1>1, <1>10 DEF Unlocked, IInv, ProcPart
    <2>2. r = p /\ proc'[p] = q
      BY <1>10, <2>1 DEF IInv, ProcPart
    <2> QED BY <1>1, <1>2, <1>8, <1>9, <2>1, <2>2
  <1>14. RowPart' /\ BackPart' /\ RestPart'
    BY <1>1 DEF IInv, RowPart, BackPart, RestPart, Known, Given, DisclosedIsReviewed
  <1> QED BY <1>12, <1>13, <1>14 DEF IInv

LEMMA CommitKeeps ==
  ASSUME IInv, NEW p \in Procs, Commit(p)
  PROVE  IInv'
  <1>1. /\ UNCHANGED <<address, backend, cache, cleared, edits, faults>>
        /\ proc[p].pc = "saving" /\ row' = proc[p].inst
        /\ held' = held \cup {<<row'.cfg, row'.cred, row'.packer>>}
        /\ proc' = [proc EXCEPT ![p] = [Idle EXCEPT !.pc = "committed"]]
    BY DEF Commit
  <1>2. proc[p].inst \in Rows /\ (proc[p].inst.stamp # Blank => proc[p].inst.stamp \in cleared)
    BY <1>1, Before DEF Fine, Carries, Processes
  <1>3. row' \in Rows /\ row'.cfg \in Cfgs /\ row'.cred \in Creds /\ row'.packer \in BOOLEAN
    BY <1>1, <1>2, RowFields
  <1>4. RowPart'
    BY <1>1, <1>2, <1>3 DEF RowPart, Known, Given
  <1>5. ProcPart'
    BY <1>1, CommittedIsFine, OneProcess DEF IInv
  <1>6. LockPart'
    <2>1. \A t \in Procs : proc'[t].pc # "saving"
      <3>1. [Idle EXCEPT !.pc = "committed"].pc # "saving"
        BY CommittedIsFine
      <3> QED BY <1>1, <3>1 DEF IInv, ProcPart, LockPart
    <2> QED BY <2>1 DEF LockPart
  <1>7. BackPart'
    BY <1>1 DEF IInv, BackPart, DisclosedIsReviewed
  <1>8. RestPart'
    BY <1>1, <1>3 DEF IInv, RestPart
  <1> QED BY <1>4, <1>5, <1>6, <1>7, <1>8 DEF IInv

LEMMA OutsideKeeps ==
  ASSUME IInv, Toggle \/ Readdress \/ Expire
  PROVE  IInv'
  <1>1. UNCHANGED <<backend, proc, held, cleared>>
    BY DEF Toggle, Readdress, Expire
  <1>2. ProcPart' /\ BackPart'
    BY <1>1, NoProcess DEF IInv, BackPart, DisclosedIsReviewed
  <1>3. RestPart'
    BY <1>1, BoundsAssumption DEF IInv, RestPart, Toggle, Readdress, Expire
  <1>4. CASE Toggle
    <2>1. row # None /\ Unlocked /\ row' = [row EXCEPT !.enabled = ~row.enabled]
      BY <1>4 DEF Toggle
    <2>2. (~row.enabled) \in BOOLEAN
      OBVIOUS
    <2>3. RowPart'
      BY <1>1, <2>1, <2>2, Column, BookkeepingColumn
    <2>4. LockPart'
      BY <1>1, <2>1 DEF Unlocked, LockPart
    <2> QED BY <1>2, <1>3, <2>3, <2>4 DEF IInv
  <1>5. CASE Readdress \/ Expire
    <2>1. row' = row
      BY <1>5 DEF Readdress, Expire
    <2>2. RowPart' /\ LockPart'
      BY <1>1, <2>1 DEF IInv, RowPart, LockPart, Known, Given
    <2> QED BY <1>2, <1>3, <2>2 DEF IInv
  <1> QED BY <1>4, <1>5

LEMMA StepKeeps == IInv /\ [Next]_vars => IInv'
  <1> SUFFICES ASSUME IInv, [Next]_vars PROVE IInv'
    OBVIOUS
  <1>1. ASSUME NEW p \in Procs, Finish(p) PROVE IInv'
    BY <1>1, SaveKeeps, CommitKeeps, LeaveKeeps, ApproveKeeps, DeleteKeeps, RereadKeeps,
       PreflightLoadKeeps, PrepareKeeps, RecheckKeeps, ConfirmKeeps, ListKeeps, ResolveKeeps, RevokeKeeps,
       ReceiptKeeps, SendKeeps, EraseKeeps, RememberKeeps, PushedKeeps,
       GrantKeeps DEF Finish
  <1>2. ASSUME NEW p \in Procs,
               \/ Open(p) \/ PreflightList(p) \/ PushAlone(p)
               \/ SkipHeld(p) \/ Fail(p) \/ FailRevoke(p)
        PROVE  IInv'
    BY <1>2, OpenKeeps, PreflightKeeps, SkipOrFailKeeps, FailRevokeKeeps
  <1>3. CASE Toggle \/ Readdress \/ Expire
    BY <1>3, OutsideKeeps
  <1>4. CASE UNCHANGED vars
    BY <1>4 DEF vars, IInv, ProcPart, RowPart, BackPart, LockPart, RestPart, Known, Given,
                DisclosedIsReviewed
  <1> QED BY <1>1, <1>2, <1>3, <1>4 DEF Next

LEMMA Always == Spec => []IInv
  BY InitHolds, StepKeeps, PTL DEF Spec

(* Every row, backend row, cached push and process keeps its type, and a   *)
(* push never changes a backend row that is not there.                     *)
THEOREM TypeCorrect == Spec => []TypeOK
  BY Always, PartsGive, PTL

(* The backend only ever holds credentials for approved targets, paired    *)
(* with a configuration that the row really had, whatever saves,           *)
(* readdressings, approvals and pushes interleave.                         *)
THEOREM OnlyReviewedTargets == Spec => []DisclosedIsReviewed
  BY Always, PartsGive, PTL

(* No ordinary save forges or revives an approval: it changes only in a    *)
(* request that reviewed the target the row has at that moment.            *)
THEOREM ApprovalNeverRevived == Spec => ApprovalIsExact
  <1> DEFINE A == row' # None =>
           \/ row # None /\ row'.stamp = row.stamp
           \/ row = None /\ row'.stamp = Blank
           \/ /\ row'.stamp = <<row'.cfg, address>>
              /\ \E p \in Procs : /\ proc[p].pc = "open"
                                   /\ <<proc[p].inst.cfg, proc[p].ip>> = row'.stamp
  <1>1. ASSUME IInv, [Next]_vars PROVE [A]_vars
    <2>1. ASSUME NEW p \in Procs, Commit(p) PROVE A
      <3>1. proc[p].pc = "saving" /\ row' = proc[p].inst
        BY <2>1 DEF Commit
      <3> QED BY <1>1, <3>1 DEF IInv, LockPart
    <2>2. ASSUME NEW p \in Procs, Approve(p) PROVE A
      <3>1. /\ proc[p].pc = "open" /\ row # None
            /\ <<row.cfg, address>> = <<proc[p].inst.cfg, proc[p].ip>>
            /\ row' = [row EXCEPT !.stamp = <<row.cfg, address>>]
        BY <2>2 DEF Approve
      <3>2. row \in Rows
        BY <1>1, <3>1 DEF IInv, RowPart
      <3>3. row'.stamp = <<row.cfg, address>> /\ row'.cfg = row.cfg
        BY <3>1, <3>2 DEF Rows
      <3> QED BY <3>1, <3>3
    <2>3. ASSUME row # None, row' # None,
                 \/ Toggle
                 \/ \E p \in Procs : \/ RecordReceipt(p) \/ Erase(p)
                                     \/ RecordPushed(p) \/ RecordGrant(p)
          PROVE  A
      <3>1. row \in Rows
        BY <1>1, <2>3 DEF IInv, RowPart
      <3>2. row'.stamp = row.stamp
        BY <2>3, <3>1 DEF Toggle, RecordReceipt, Erase, RecordPushed, RecordGrant, Rows
      <3> QED BY <2>3, <3>2
    <2>4. ASSUME row = None,
                 \/ Toggle
                 \/ \E p \in Procs : \/ RecordReceipt(p) \/ Erase(p)
                                     \/ RecordPushed(p) \/ RecordGrant(p)
          PROVE  A
      BY <2>4 DEF Toggle, RecordReceipt, Erase, RecordPushed, RecordGrant
    <2>5. ASSUME row' = None PROVE A
      BY <2>5
    <2>6. ASSUME row' = row PROVE A
      BY <2>6
    <2>7. ASSUME NEW p \in Procs, Finish(p) PROVE A
      <3>1. CASE Commit(p) \/ Approve(p)
        BY <3>1, <2>1, <2>2
      <3>2. CASE Delete(p)
        BY <3>2, <2>5 DEF Delete
      <3>3. CASE RecordReceipt(p) \/ Erase(p) \/ RecordPushed(p) \/ RecordGrant(p)
        BY <3>3, <2>3, <2>4, <2>5
      <3>4. CASE \/ Save(p) \/ Rollback(p) \/ Leave(p) \/ Reread(p) \/ PreflightLoad(p)
                 \/ Prepare(p) \/ Recheck(p) \/ Confirm(p) \/ List(p) \/ Resolve(p)
                 \/ Revoke(p) \/ Send(p) \/ Remember(p)
        <4>1. row' = row
          BY <3>4 DEF Save, Rollback, Leave, Reread, PreflightLoad, Prepare, Recheck, Confirm,
                      List, Resolve, Revoke, Send, Remember
        <4> QED BY <4>1, <2>6
      <3> QED BY <2>7, <3>1, <3>2, <3>3, <3>4 DEF Finish
    <2>8. ASSUME NEW p \in Procs,
                 \/ Open(p) \/ PreflightList(p) \/ PushAlone(p)
                 \/ SkipHeld(p) \/ Fail(p) \/ FailRevoke(p)
          PROVE  A
      <3>1. row' = row
        BY <2>8 DEF Open, PreflightList, PushAlone, SkipHeld, Fail, FailRevoke
      <3> QED BY <3>1, <2>6
    <2>9. CASE Toggle
      BY <2>9, <2>3, <2>4, <2>5
    <2>10. CASE Readdress \/ Expire
      <3>1. row' = row
        BY <2>10 DEF Readdress, Expire
      <3> QED BY <3>1, <2>6
    <2> HIDE DEF A
    <2> QED BY <1>1, <2>7, <2>8, <2>9, <2>10 DEF Next
  <1>2. [][A]_vars => ApprovalIsExact
    BY PTL DEF ApprovalIsExact
  <1> HIDE DEF A
  <1> QED BY <1>1, <1>2, Always, PTL DEF Spec
====
