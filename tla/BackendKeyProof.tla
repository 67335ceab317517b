---------------------------- MODULE BackendKeyProof ----------------------------
(***************************************************************************)
(* Proofs about BackendKey for any number of processes, rows, keys and     *)
(* connection columns and for any bounds.  The inductive invariant has a   *)
(* part per piece of state: what is known of a process by itself, given    *)
(* the histories (Fine); of a stored row; of the backends' keys; and what  *)
(* row locks, fresh primary keys and the advisory lock guarantee.          *)
(***************************************************************************)
EXTENDS BackendKey, TLAPS

Checking == {"status", "keys", "register"}

Processes == [pc : Steps, mode : {"save", "discovery", "nested", "command", "bootstrap", Null},
              pk : 0..MaxRows, old : Rows \cup {NoRow}, new : Rows \cup {NoRow},
              ins : BOOLEAN, cand : Keys \cup {Null}, to : Targets \cup {Null},
              proof : Targets \cup {Null}]

(* A generated key that may be disclosed is one that was committed.        *)
Safe(k, D) == k \in Generated => k \in D

(* What is known of a process whose value is q, when P are the proofs, D   *)
(* the committed keys and I the last primary key issued.  A row that was   *)
(* loaded was committed; the key of a check is the one that will be        *)
(* stored, or the loaded row's; a proof in hand is in P.                   *)
Fine(q, P, D, I) ==
    /\ q \in Processes
    /\ q.pk <= I
    /\ Safe(q.old.key, D)
    /\ q.pc \in Checking \cup {"record"} =>
           /\ q.pk # 0 /\ q.cand # Null /\ q.to # Null /\ Safe(q.cand, D)
    /\ q.pc \in Checking /\ q.mode = "save" => q.new \in Rows /\ q.new.key = q.cand
    /\ q.pc \in Checking \cup {"record", "probe"} /\ q.mode # "save" /\ q.pk # 0 =>
           q.old \in Rows /\ q.cand = q.old.key /\ q.to # Null
    /\ q.pc \in {"generate", "refresh", "probe"} => q.mode = "discovery"
    /\ q.pc \in {"generate", "refresh"} => q.pk # 0 /\ q.to # Null
    /\ q.pc = "generate" => q.old \in Rows /\ q.old.key = Null
    /\ q.pc = "record" => q.mode = "discovery" /\ <<q.to, q.cand>> \in P
    /\ q.pc = "adopt" => /\ q.pk # 0 /\ q.old \in Rows /\ q.old.key # Null
                         /\ q.proof # Null /\ <<q.proof, q.old.key>> \in P
    /\ q.pc = "form" => q.proof = Null
    /\ q.pc = "write" => /\ q.mode \in {"save", "nested"}
                         /\ q.new.fp # Null => <<q.new.fp, q.new.key>> \in P
    /\ q.pc = "insert" => q.new.fp = Null /\ q.new.key \in Generated
    /\ q.pc \in {"write", "insert"} => q.pk # 0 /\ q.new \in Rows

ProcPart == /\ proc \in [Procs -> Processes]
            /\ \A p \in Procs : Fine(proc[p], proven, durable, issued)

(* A stored fingerprint is a proof of the stored key, and the stored key   *)
(* was committed.                                                          *)
Known(r, P, D) == /\ r.fp # Null => <<r.fp, r.key>> \in P
                  /\ Safe(r.key, D)

RowPart == /\ row \in [Pks -> Rows \cup {NoRow}]
           /\ \A pk \in Pks : Known(row[pk], proven, durable)
           /\ \A pk \in Pks : pk > issued => row[pk] = NoRow

KeyPart == keys \in [Targets -> SUBSET Keys] /\ GeneratedIsDurable

RestPart == /\ addr \in Addresses
            /\ issued \in 0..MaxRows /\ generated \in 0..MaxGenerated
            /\ edits \in 0..MaxEdits
            /\ durable \subseteq Generated /\ proven \subseteq Targets \X Keys

Holds(q) == InSave(q) /\ ~q.ins

(* A save under a row lock still sees the row it loaded, and no two hold   *)
(* one lock; a primary key issued to discovery is nobody else's; while     *)
(* discovery is inserting, it is alone and there is no row of its own.     *)
LockPart ==
    /\ \A p \in Procs : Holds(proc[p]) =>
           proc[p].old # NoRow /\ row[proc[p].pk] = proc[p].old
    /\ \A p \in Procs : InSave(proc[p]) =>
           proc[p].pk # 0 /\ (proc[p].new.auto => ~proc[p].ins /\ proc[p].old.auto)
    /\ \A p, o \in Procs : Holds(proc[p]) /\ Holds(proc[o]) /\ p # o => proc[p].pk # proc[o].pk
    /\ \A p, o \in Procs : proc[p].pc = "insert" /\ p # o =>
           proc[o].pc # "insert" /\ proc[o].pk # proc[p].pk
    /\ \A p \in Procs : proc[p].pc = "insert" =>
           row[proc[p].pk] = NoRow /\ \A pk \in Pks : ~row[pk].auto
    /\ \A a, b \in Pks : row[a].auto /\ row[b].auto => a = b

IInv == ProcPart /\ RowPart /\ KeyPart /\ RestPart /\ LockPart

---------------------------------------------------------------------------
(* Facts about rows, targets and keys.                                     *)

LEMMA NoRowFacts ==
  /\ NoRow \notin Rows /\ NoRow.key = Null /\ NoRow.fp = Null
  /\ NoRow.auto = FALSE /\ NoRow.enabled = FALSE /\ NoRow.cfg = Null
  BY ConstantsAssumption DEF NoRow, Rows

LEMMA Bounds ==
  /\ MaxRows \in Nat /\ MaxGenerated \in Nat /\ MaxEdits \in Nat
  /\ 0 \in 0..MaxRows /\ 1 \in 0..MaxRows
  <1>1. MaxRows \in Nat \ {0} /\ MaxGenerated \in Nat /\ MaxEdits \in Nat
    BY ConstantsAssumption
  <1> QED BY <1>1

LEMMA Counters ==
  ASSUME RestPart
  PROVE  /\ issued \in Nat /\ generated \in Nat /\ edits \in Nat
         /\ issued <= MaxRows /\ generated <= MaxGenerated /\ edits <= MaxEdits
  BY Bounds DEF RestPart

LEMMA NullFacts == Null \notin Keys /\ Null \notin Targets /\ Null \notin Generated /\ Null \notin Cfgs
  BY ConstantsAssumption DEF Keys, Targets, Target

LEMMA TargetType ==
  ASSUME NEW c \in Cfgs, NEW a \in Addresses
  PROVE  Target(c, a) \in Targets /\ Target(c, a) # Null
  BY NullFacts DEF Targets

LEMMA RowFields ==
  ASSUME NEW r \in Rows \cup {NoRow}
  PROVE  /\ r.enabled \in BOOLEAN /\ r.auto \in BOOLEAN /\ r.key \in Keys \cup {Null}
         /\ r.fp \in Targets \cup {Null} /\ (r \in Rows <=> r # NoRow)
         /\ r # NoRow => r.cfg \in Cfgs
  BY NoRowFacts DEF Rows, NoRow

LEMMA PartsGive == IInv => TypeOK /\ TrustedIsProven /\ GeneratedIsDurable /\ OneDiscoveredRow
  <1> SUFFICES ASSUME IInv PROVE TypeOK /\ TrustedIsProven /\ GeneratedIsDurable /\ OneDiscoveredRow
    OBVIOUS
  <1>1. TypeOK
    BY DEF IInv, ProcPart, RowPart, KeyPart, RestPart, Fine, TypeOK, Processes, Checking
  <1>2. TrustedIsProven
    BY DEF IInv, RowPart, Known, TrustedIsProven, Trusted, Existing
  <1>3. OneDiscoveredRow
    BY DEF IInv, LockPart, OneDiscoveredRow, Existing
  <1> QED BY <1>1, <1>2, <1>3 DEF IInv, KeyPart

---------------------------------------------------------------------------
(* Steps of one process.                                                   *)

LEMMA FineGrows ==
  ASSUME NEW q, NEW P, NEW D, NEW I \in Nat, NEW P2, NEW D2, NEW I2 \in Nat,
         P \subseteq P2, D \subseteq D2, I <= I2, Fine(q, P, D, I)
  PROVE  Fine(q, P2, D2, I2)
  <1>1. q.pk \in Nat
    BY ConstantsAssumption DEF Fine, Processes
  <1>2. q.pk <= I2
    BY <1>1 DEF Fine
  <1> QED BY <1>2 DEF Fine, Safe

Grows == proven \subseteq proven' /\ durable \subseteq durable' /\ issued <= issued'

LEMMA OneProcess ==
  ASSUME ProcPart, RestPart, RestPart', Grows, NEW p \in Procs, NEW q,
         proc' = [proc EXCEPT ![p] = q], Fine(q, proven', durable', issued')
  PROVE  ProcPart'
  <1>0. issued \in Nat /\ issued' \in Nat
    BY ConstantsAssumption DEF RestPart
  <1>1. q \in Processes
    BY DEF Fine
  <1>2. proc' \in [Procs -> Processes]
    BY <1>1 DEF ProcPart
  <1>3. ASSUME NEW r \in Procs PROVE Fine(proc'[r], proven', durable', issued')
    <2>1. CASE r = p
      BY <2>1 DEF ProcPart
    <2>2. CASE r # p
      <3>1. proc'[r] = proc[r] /\ Fine(proc[r], proven, durable, issued)
        BY <2>2 DEF ProcPart
      <3> QED BY <1>0, <3>1, FineGrows DEF Grows
    <2> QED BY <2>1, <2>2
  <1> QED BY <1>2, <1>3 DEF ProcPart

(* A row that is known stays known.                                        *)
LEMMA RowsGrow ==
  ASSUME RowPart, Grows, RestPart, RestPart', row' = row
  PROVE  RowPart'
  BY ConstantsAssumption DEF RowPart, Known, Safe, Grows, RestPart, Pks

LEMMA IdleIsFine ==
  ASSUME NEW P, NEW D, NEW I \in Nat
  PROVE  /\ Fine(Idle, P, D, I) /\ ~InSave(Idle) /\ Idle.pc # "insert" /\ Idle.pk = 0
         /\ Fine([Idle EXCEPT !.pc = "discover"], P, D, I)
         /\ ~InSave([Idle EXCEPT !.pc = "discover"])
  <1> DEFINE d == [Idle EXCEPT !.pc = "discover"]
  <1>1. Idle \in Processes /\ d \in Processes
    <2>1. 0 \in 0..MaxRows
      BY ConstantsAssumption
    <2>2. Idle \in Processes
      BY <2>1 DEF Idle, Processes, Steps
    <2>3. "discover" \in Steps
      BY DEF Steps
    <2> QED BY <2>2, <2>3 DEF Processes
  <1>2. /\ Idle.pc = "idle" /\ d.pc = "discover" /\ Idle.pk = 0 /\ d.pk = 0
        /\ Idle.old = NoRow /\ d.old = NoRow
    BY DEF Idle
  <1>3. Safe(NoRow.key, D)
    BY NoRowFacts, NullFacts DEF Safe
  <1>4. Fine(Idle, P, D, I)
    BY <1>1, <1>2, <1>3 DEF Fine, Checking
  <1>5. Fine(d, P, D, I)
    BY <1>1, <1>2, <1>3 DEF Fine, Checking
  <1> QED BY <1>2, <1>4, <1>5 DEF InSave

(* The lock part survives a step that changes no row and takes no lock.    *)
LEMMA QuietLock ==
  ASSUME ProcPart, LockPart, row' = row, NEW p \in Procs, NEW q,
         proc' = [proc EXCEPT ![p] = q], q.pc # "insert",
         q.pk = 0 \/ q.pk = proc[p].pk \/ row[q.pk] # NoRow,
         InSave(q) => /\ InSave(proc[p]) /\ q.pk = proc[p].pk /\ q.old = proc[p].old
                      /\ q.ins = proc[p].ins /\ q.new.auto = proc[p].new.auto
  PROVE  LockPart'
  <1>0. proc'[p] = q /\ \A o \in Procs : o # p => proc'[o] = proc[o]
    BY DEF ProcPart
  <1>z. \A o \in Procs : proc[o].pc = "insert" => proc[o].pk # 0
    BY DEF ProcPart, Fine
  <1>h. \A o \in Procs : /\ Holds(proc'[o]) => /\ Holds(proc[o]) /\ proc'[o].pk = proc[o].pk
                                               /\ proc'[o].old = proc[o].old
                         /\ InSave(proc'[o]) => /\ InSave(proc[o]) /\ proc'[o].pk = proc[o].pk
                                                /\ proc'[o].old = proc[o].old
                                                /\ proc'[o].ins = proc[o].ins
                                                /\ proc'[o].new.auto = proc[o].new.auto
    BY <1>0 DEF Holds
  <1>i. \A o \in Procs : proc'[o].pc = "insert" => o # p /\ proc'[o] = proc[o]
    BY <1>0
  <1>1. \A o \in Procs : Holds(proc'[o]) => proc'[o].old # NoRow /\ row'[proc'[o].pk] = proc'[o].old
    BY <1>h DEF LockPart
  <1>2. \A o \in Procs : InSave(proc'[o]) =>
           proc'[o].pk # 0 /\ (proc'[o].new.auto => ~proc'[o].ins /\ proc'[o].old.auto)
    BY <1>h DEF LockPart
  <1>3. \A o, r \in Procs : Holds(proc'[o]) /\ Holds(proc'[r]) /\ o # r => proc'[o].pk # proc'[r].pk
    BY <1>h DEF LockPart
  <1>4. \A o, r \in Procs : proc'[o].pc = "insert" /\ o # r =>
           proc'[r].pc # "insert" /\ proc'[r].pk # proc'[o].pk
    <2> TAKE o, r \in Procs
    <2> HAVE proc'[o].pc = "insert" /\ o # r
    <2>1. o # p /\ proc'[o] = proc[o] /\ proc[o].pk # 0 /\ row[proc[o].pk] = NoRow
      BY <1>i, <1>z DEF LockPart
    <2>2. CASE r = p
      <3>1. proc[p].pk # proc[o].pk
        BY <2>1, <2>2 DEF LockPart
      <3> QED BY <2>1, <2>2, <3>1, <1>0
    <2>3. CASE r # p
      BY <2>1, <2>3, <1>0 DEF LockPart
    <2> QED BY <2>2, <2>3
  <1>5. \A o \in Procs : proc'[o].pc = "insert" =>
           row'[proc'[o].pk] = NoRow /\ \A pk \in Pks : ~row'[pk].auto
    BY <1>i DEF LockPart
  <1>6. \A a, b \in Pks : row'[a].auto /\ row'[b].auto => a = b
    BY DEF LockPart
  <1> QED BY <1>1, <1>2, <1>3, <1>4, <1>5, <1>6 DEF LockPart

(* A step of one process that changes no row.                              *)
LEMMA QuietStep ==
  ASSUME IInv, RestPart', KeyPart', Grows, row' = row, NEW p \in Procs, NEW q,
         proc' = [proc EXCEPT ![p] = q], Fine(q, proven', durable', issued'),
         q.pc # "insert", q.pk = 0 \/ q.pk = proc[p].pk \/ row[q.pk] # NoRow,
         InSave(q) => /\ InSave(proc[p]) /\ q.pk = proc[p].pk /\ q.old = proc[p].old
                      /\ q.ins = proc[p].ins /\ q.new.auto = proc[p].new.auto
  PROVE  IInv'
  <1>1. ProcPart'
    BY OneProcess DEF IInv
  <1>2. RowPart'
    BY RowsGrow DEF IInv
  <1>3. LockPart'
    BY QuietLock DEF IInv
  <1> QED BY <1>1, <1>2, <1>3 DEF IInv

LEMMA KeysKept ==
  ASSUME KeyPart, UNCHANGED <<keys, durable>>
  PROVE  KeyPart'
  BY DEF KeyPart, GeneratedIsDurable

(* The process ends, or goes on to discovery, and nothing else changes.    *)
LEMMA QuietEnd ==
  ASSUME IInv, NEW p \in Procs, row' = row, RestPart', UNCHANGED <<keys, durable>>, Grows,
         \/ proc' = [proc EXCEPT ![p] = Idle]
         \/ proc' = [proc EXCEPT ![p] = [Idle EXCEPT !.pc = "discover"]]
  PROVE  IInv'
  <1>1. KeyPart'
    BY KeysKept DEF IInv
  <1>2. issued' \in Nat
    BY ConstantsAssumption DEF RestPart
  <1>3. CASE proc' = [proc EXCEPT ![p] = Idle]
    BY <1>1, <1>2, <1>3, IdleIsFine, QuietStep
  <1>4. CASE proc' = [proc EXCEPT ![p] = [Idle EXCEPT !.pc = "discover"]]
    <2>1. [Idle EXCEPT !.pc = "discover"].pc # "insert" /\ [Idle EXCEPT !.pc = "discover"].pk = 0
      BY DEF Idle
    <2> QED BY <1>1, <1>2, <1>4, <2>1, IdleIsFine, QuietStep
  <1> QED BY <1>3, <1>4

LEMMA RestKept ==
  ASSUME RestPart, UNCHANGED <<addr, issued, generated, durable, proven>>,
         edits' = edits \/ (edits < MaxEdits /\ edits' = edits + 1)
  PROVE  RestPart' /\ Grows
  BY ConstantsAssumption DEF RestPart, Grows

(* What a process reads of a row.                                          *)
LEMMA Reads ==
  ASSUME IInv, NEW pk \in Pks
  PROVE  /\ row[pk] \in Rows \cup {NoRow} /\ Safe(row[pk].key, durable)
         /\ row[pk] # NoRow => row[pk] \in Rows /\ pk <= issued /\ row[pk].cfg \in Cfgs
         /\ pk \in 0..MaxRows /\ pk # 0
         /\ row[pk].key \in Keys \cup {Null}
  <1>1. row[pk] \in Rows \cup {NoRow} /\ Safe(row[pk].key, durable)
        /\ (pk > issued => row[pk] = NoRow)
    BY DEF IInv, RowPart, Known
  <1>2. pk \in 1..MaxRows /\ issued \in 0..MaxRows /\ MaxRows \in Nat
    BY ConstantsAssumption DEF IInv, RestPart, Pks
  <1>3. pk \in 0..MaxRows /\ pk # 0 /\ (pk <= issued \/ pk > issued)
    BY <1>2
  <1> QED BY <1>1, <1>3, RowFields

LEMMA InitHolds == Init => IInv
  <1> SUFFICES ASSUME Init PROVE IInv
    OBVIOUS
  <1>0. MaxRows \in Nat \ {0} /\ MaxGenerated \in Nat /\ MaxEdits \in Nat
    BY ConstantsAssumption
  <1>1. RestPart
    <2>1. addr \in Addresses /\ generated = 0 /\ edits = 0 /\ durable = {} /\ proven = {}
      BY DEF Init
    <2>2. issued = 0 \/ issued = 1
      BY DEF Init
    <2>4. issued \in 0..MaxRows
      BY <2>2, Bounds
    <2>3. 0 \in 0..MaxGenerated /\ 0 \in 0..MaxEdits
      BY <1>0
    <2> QED BY <2>1, <2>3, <2>4 DEF RestPart
  <1>2. ProcPart
    BY IdleIsFine, ConstantsAssumption, <1>1 DEF Init, ProcPart, RestPart, Fine
  <1>3. RowPart /\ \A pk \in Pks : ~row[pk].auto
    <2>1. CASE row = [pk \in Pks |-> NoRow] /\ issued = 0
      BY <2>1, NoRowFacts, NullFacts DEF RowPart, Known, Safe
    <2>2. ASSUME NEW c \in Cfgs, NEW k \in Submitted \cup {Null}, issued = 1,
                 row = [pk \in Pks |->
                           IF pk = 1 THEN [NoRow EXCEPT !.enabled = TRUE, !.cfg = c, !.key = k]
                           ELSE NoRow]
          PROVE  RowPart /\ \A pk \in Pks : ~row[pk].auto
      <3> DEFINE r == [NoRow EXCEPT !.enabled = TRUE, !.cfg = c, !.key = k]
      <3>1. r \in Rows /\ r.fp = Null /\ r.key = k /\ ~r.auto
        BY DEF NoRow, Rows, Keys
      <3>2. Safe(k, durable)
        BY ConstantsAssumption, NullFacts DEF Safe
      <3>3. \A pk \in Pks : pk > issued => pk # 1
        BY <2>2 DEF Pks
      <3> HIDE DEF r
      <3>4. \A pk \in Pks : row[pk] = r \/ row[pk] = NoRow
        BY <2>2 DEF r
      <3>5. \A pk \in Pks : pk # 1 => row[pk] = NoRow
        BY <2>2
      <3>6. row \in [Pks -> Rows \cup {NoRow}]
        BY <2>2, <3>1 DEF r
      <3> QED BY <3>1, <3>2, <3>3, <3>4, <3>5, <3>6, NoRowFacts, NullFacts DEF RowPart, Known, Safe
    <2> QED BY <2>1, <2>2 DEF Init
  <1>4. KeyPart
    <2>1. \A k \in Submitted : {k} \cap Generated = {} /\ {k} \subseteq Keys
      BY ConstantsAssumption DEF Keys
    <2>2. keys \in [Targets -> {{}} \cup {{k} : k \in Submitted}]
      BY DEF Init
    <2>3. \A t \in Targets : keys[t] \cap Generated = {} /\ keys[t] \subseteq Keys
      BY <2>1, <2>2
    <2> QED BY <2>2, <2>3 DEF KeyPart, GeneratedIsDurable
  <1>5. LockPart
    BY <1>3 DEF Init, LockPart, Holds, InSave, Idle
  <1> QED BY <1>1, <1>2, <1>3, <1>4, <1>5 DEF IInv

---------------------------------------------------------------------------
(* Actions that change no row.                                             *)

LEMMA LoadKeeps ==
  ASSUME IInv, NEW p \in Procs, Load(p)
  PROVE  IInv'
  <1>1. RestPart' /\ Grows
    BY RestKept DEF IInv, Load
  <1>2. KeyPart'
    BY KeysKept DEF IInv, Load
  <1>3. issued' \in Nat /\ issued' = issued /\ durable' = durable /\ row' = row
    BY Counters DEF IInv, Load
  <1>4. ASSUME NEW pk \in Existing,
               Set(p, [Idle EXCEPT !.pc = "form", !.mode = "save", !.pk = pk, !.old = row[pk]])
        PROVE  IInv'
    <2> DEFINE q == [Idle EXCEPT !.pc = "form", !.mode = "save", !.pk = pk, !.old = row[pk]]
    <2>1. pk \in Pks /\ row[pk] # NoRow
      BY DEF Existing
    <2>2. q \in Processes
      BY <2>1, Reads DEF Idle, Processes, Steps
    <2>3. q.pc = "form" /\ q.pk = pk /\ q.old = row[pk] /\ q.proof = Null
      BY DEF Idle
    <2> HIDE DEF q
    <2>4. Fine(q, proven', durable', issued')
      BY <2>1, <2>2, <2>3, <1>3, Reads DEF Fine, Checking
    <2>5. proc' = [proc EXCEPT ![p] = q]
      BY <1>4 DEF Set, q
    <2> QED BY <2>1, <2>3, <2>4, <2>5, <1>1, <1>2, <1>3, QuietStep DEF InSave
  <1>5. ASSUME Set(p, [Idle EXCEPT !.pc = "form", !.mode = "save"])
        PROVE  IInv'
    <2> DEFINE q == [Idle EXCEPT !.pc = "form", !.mode = "save"]
    <2>1. q \in Processes
      BY Bounds DEF Idle, Processes, Steps
    <2>2. q.pc = "form" /\ q.pk = 0 /\ q.old = NoRow /\ q.proof = Null
      BY DEF Idle
    <2>3. proc' = [proc EXCEPT ![p] = q]
      BY <1>5 DEF Set
    <2> HIDE DEF q
    <2>4. Fine(q, proven', durable', issued')
      BY <2>1, <2>2, <1>3, NoRowFacts, NullFacts DEF Fine, Checking, Safe
    <2> QED BY <2>2, <2>3, <2>4, <1>1, <1>2, <1>3, QuietStep DEF InSave
  <1> QED BY <1>4, <1>5 DEF Load

LEMMA AbandonKeeps ==
  ASSUME IInv, NEW p \in Procs, Abandon(p)
  PROVE  IInv'
  BY RestKept, QuietEnd DEF IInv, Abandon, Leave, Set

LEMMA StatusKeeps ==
  ASSUME IInv, NEW p \in Procs, Status(p)
  PROVE  IInv'
  <1>1. RestPart' /\ Grows
    BY RestKept DEF IInv, Status
  <1>2. KeyPart'
    BY KeysKept DEF IInv, Status
  <1>f. Fine(proc[p], proven, durable, issued) /\ proc[p].pc = "status"
    BY DEF IInv, ProcPart, Status
  <1>3. PICK q : /\ proc' = [proc EXCEPT ![p] = q]
                 /\ \/ q = [proc[p] EXCEPT !.pc = "keys"]
                    \/ q = [proc[p] EXCEPT !.mode = "bootstrap"] /\ proc[p].mode = "command"
                    \/ q = [proc[p] EXCEPT !.pc = "register"]
    BY DEF Status, Set
  <1>4. /\ q \in Processes /\ q.pc \in Checking
        /\ q.mode = "save" <=> proc[p].mode = "save"
        /\ q.pk = proc[p].pk /\ q.old = proc[p].old /\ q.new = proc[p].new
        /\ q.cand = proc[p].cand /\ q.to = proc[p].to /\ q.ins = proc[p].ins
    BY <1>f, <1>3 DEF Fine, Processes, Steps, Checking
  <1>5. Fine(q, proven', durable', issued')
    BY <1>f, <1>4 DEF Fine, Checking, Status
  <1>6. InSave(q) => InSave(proc[p])
    BY <1>4, <1>f DEF InSave, Checking
  <1> QED BY <1>1, <1>2, <1>3, <1>4, <1>5, <1>6, QuietStep DEF Status, Checking

(* The process of a check whose key the backend has been seen to accept.   *)
LEMMA ProvedKeeps ==
  ASSUME IInv, NEW p \in Procs, proc[p].pc \in Checking, Proved(p), RestPart', KeyPart', Grows,
         UNCHANGED <<row, durable, issued>>, <<proc[p].to, proc[p].cand>> \in proven'
  PROVE  IInv'
  <1> DEFINE o == proc[p]
  <1>f. Fine(o, proven', durable', issued')
    BY FineGrows, Counters DEF IInv, ProcPart, Grows
  <1>c. issued' \in Nat
    BY Counters DEF IInv
  <1>o. o \in Processes /\ o.pk # 0 /\ o.cand # Null /\ o.to \in Targets
    BY <1>f DEF Fine, Processes
  <1>1. CASE o.mode = "save"
    <2> DEFINE n == [o.new EXCEPT !.fp = o.to]
               q == [o EXCEPT !.pc = "write", !.new.fp = o.to]
    <2>1. o.new \in Rows /\ o.new.key = o.cand
      BY <1>1, <1>f DEF Fine
    <2>2. n \in Rows /\ n.key = o.cand /\ n.fp = o.to /\ n.auto = o.new.auto
      BY <2>1, <1>o DEF Rows
    <2> HIDE DEF n
    <2>3. /\ q.pc = "write" /\ q.new = n /\ q.mode = o.mode /\ q.pk = o.pk /\ q.old = o.old
          /\ q.ins = o.ins /\ q \in Processes
      BY <1>o, <2>2 DEF Processes, Steps, n
    <2>4. proc' = [proc EXCEPT ![p] = q]
      BY <1>1 DEF Proved, Set
    <2> HIDE DEF q
    <2>5. Fine(q, proven', durable', issued')
      BY <1>f, <1>1, <1>o, <2>2, <2>3 DEF Fine, Checking
    <2>6. InSave(o)
      BY <1>1 DEF InSave, Checking
    <2> QED BY <2>2, <2>3, <2>4, <2>5, <2>6, QuietStep
  <1>2. CASE o.mode = "discovery"
    <2> DEFINE q == [o EXCEPT !.pc = "record"]
    <2>1. proc' = [proc EXCEPT ![p] = q]
      BY <1>2 DEF Proved, Set
    <2>2. /\ q.pc = "record" /\ q.mode = o.mode /\ q.pk = o.pk /\ q.old = o.old
          /\ q.cand = o.cand /\ q.to = o.to /\ q \in Processes
      BY <1>o DEF Processes, Steps
    <2> HIDE DEF q
    <2>3. Fine(q, proven', durable', issued')
      BY <1>f, <1>2, <1>o, <2>2 DEF Fine, Checking
    <2> QED BY <2>1, <2>2, <2>3, QuietStep DEF InSave
  <1>3. CASE o.mode \notin {"save", "discovery"}
    <2>1. CASE o.mode = "command" /\ o.old.fp # Null
      <3>1. proc' = [proc EXCEPT ![p] = Idle]
        BY <2>1 DEF Proved, Set
      <3>2. Idle.pc # "insert" /\ Idle.pk = 0
        BY DEF Idle
      <3> QED BY <1>c, <3>1, <3>2, IdleIsFine, QuietStep
    <2>2. CASE ~(o.mode = "command" /\ o.old.fp # Null)
      <3> DEFINE q == [o EXCEPT !.pc = "adopt", !.proof = o.to]
      <3>1. proc' = [proc EXCEPT ![p] = q]
        BY <1>3, <2>2 DEF Proved, Set
      <3>2. /\ q.pc = "adopt" /\ q.mode = o.mode /\ q.pk = o.pk /\ q.old = o.old
            /\ q.proof = o.to /\ q \in Processes
        BY <1>o DEF Processes, Steps
      <3> HIDE DEF q
      <3>3. Fine(q, proven', durable', issued')
        BY <1>f, <1>3, <1>o, <3>2, NullFacts DEF Fine, Checking
      <3> QED BY <3>1, <3>2, <3>3, QuietStep DEF InSave
    <2> QED BY <2>1, <2>2
  <1> QED BY <1>1, <1>2, <1>3

LEMMA CheckFacts ==
  ASSUME IInv, NEW p \in Procs, proc[p].pc \in Checking
  PROVE  /\ proc[p].to \in Targets /\ proc[p].cand \in Keys /\ Safe(proc[p].cand, durable)
  BY DEF IInv, ProcPart, Fine, Processes

LEMMA ProvenGrows ==
  ASSUME RestPart, NEW t \in Targets, NEW k \in Keys, proven' = proven \cup {<<t, k>>},
         UNCHANGED <<addr, issued, generated, edits, durable>>
  PROVE  RestPart' /\ Grows
  BY Counters DEF RestPart, Grows

LEMMA AuthenticateKeeps ==
  ASSUME IInv, NEW p \in Procs, Authenticate(p)
  PROVE  IInv'
  <1>1. CASE Accepts(p)
    <2>1. proc[p].pc \in Checking
      BY DEF Authenticate, Checking
    <2>2. RestPart' /\ Grows
      BY <1>1, <2>1, CheckFacts, ProvenGrows DEF IInv, Authenticate
    <2>3. KeyPart'
      BY KeysKept DEF IInv, Authenticate
    <2> QED BY <1>1, <2>1, <2>2, <2>3, ProvedKeeps DEF Authenticate
  <1>2. CASE ~Accepts(p)
    <2>1. RestPart' /\ Grows
      BY <1>2, RestKept DEF IInv, Authenticate
    <2> QED BY <1>2, <2>1, QuietEnd DEF Authenticate, Leave, Set
  <1> QED BY <1>1, <1>2

LEMMA RegisterKeeps ==
  ASSUME IInv, NEW p \in Procs, Register(p)
  PROVE  IInv'
  <1>1. CASE keys[proc[p].to] = {}
    <2> DEFINE t == proc[p].to  k == proc[p].cand
    <2>1. proc[p].pc \in Checking
      BY DEF Register, Checking
    <2>c. t \in Targets /\ k \in Keys /\ Safe(k, durable)
      BY <2>1, CheckFacts
    <2>2. RestPart' /\ Grows
      BY <1>1, <2>c, ProvenGrows DEF IInv, Register
    <2>3. KeyPart'
      <3>1. keys' = [keys EXCEPT ![t] = {k}] /\ durable' = durable
        BY <1>1 DEF Register
      <3> HIDE DEF t, k
      <3> QED BY <3>1, <2>c DEF IInv, KeyPart, GeneratedIsDurable, Safe
    <2>4. UNCHANGED <<row, durable, issued>> /\ <<t, k>> \in proven'
      BY <1>1 DEF Register
    <2>5. CASE Proved(p)
      BY <2>1, <2>2, <2>3, <2>4, <2>5, ProvedKeeps
    <2>6. CASE Leave(p)
      <3>1. proc' = [proc EXCEPT ![p] = Idle] /\ Idle.pc # "insert" /\ Idle.pk = 0
        BY <2>6 DEF Leave, Set, Idle
      <3>2. issued' \in Nat
        BY Counters, <2>4 DEF IInv
      <3> QED BY <2>2, <2>3, <2>4, <3>1, <3>2, IdleIsFine, QuietStep
    <2> QED BY <1>1, <2>5, <2>6 DEF Register
  <1>2. CASE keys[proc[p].to] # {}
    <2>1. RestPart' /\ Grows
      BY <1>2, RestKept DEF IInv, Register
    <2> QED BY <1>2, <2>1, QuietEnd DEF Register, Leave, Set
  <1> QED BY <1>1, <1>2

LEMMA StartupKeeps ==
  ASSUME IInv, NEW p \in Procs, Startup(p)
  PROVE  IInv'
  BY RestKept, QuietEnd DEF IInv, Startup, Set

(* What a process reads when it freezes a row and its target.              *)
LEMMA FrozenRow ==
  ASSUME IInv, NEW pk \in Existing
  PROVE  /\ pk \in Pks /\ row[pk] \in Rows /\ pk <= issued /\ pk \in 0..MaxRows /\ pk # 0
         /\ Safe(row[pk].key, durable) /\ row[pk].key \in Keys \cup {Null}
         /\ Target(row[pk].cfg, addr) \in Targets /\ Target(row[pk].cfg, addr) # Null
  <1>1. pk \in Pks /\ row[pk] # NoRow
    BY DEF Existing
  <1>2. addr \in Addresses
    BY DEF IInv, RestPart
  <1> QED BY <1>1, <1>2, Reads, TargetType

LEMMA DiscoverKeeps ==
  ASSUME IInv, NEW p \in Procs, Discover(p)
  PROVE  IInv'
  <1>1. RestPart' /\ Grows /\ KeyPart' /\ row' = row
    BY RestKept, KeysKept DEF IInv, Discover
  <1>2. /\ issued' \in Nat /\ issued' = issued /\ durable' = durable /\ proven' = proven
    BY Counters DEF IInv, Discover
  <1>3. CASE Set(p, [Idle EXCEPT !.pc = "probe", !.mode = "discovery"])
    <2> DEFINE q == [Idle EXCEPT !.pc = "probe", !.mode = "discovery"]
    <2>1. q \in Processes
      BY Bounds DEF Idle, Processes, Steps
    <2>2. q.pc = "probe" /\ q.pk = 0 /\ q.old = NoRow /\ q.mode = "discovery"
      BY DEF Idle
    <2>3. proc' = [proc EXCEPT ![p] = q]
      BY <1>3 DEF Set
    <2> HIDE DEF q
    <2>4. Fine(q, proven', durable', issued')
      BY <2>1, <2>2, <1>2, NoRowFacts, NullFacts DEF Fine, Checking, Safe
    <2> QED BY <2>2, <2>3, <2>4, <1>1, QuietStep DEF InSave
  <1>4. ASSUME NEW pk \in Existing,
               Set(p, [Idle EXCEPT !.pc = "probe", !.mode = "discovery", !.pk = pk,
                           !.old = row[pk], !.cand = row[pk].key,
                           !.to = Target(row[pk].cfg, addr)])
        PROVE  IInv'
    <2> DEFINE t == Target(row[pk].cfg, addr)
               q == [Idle EXCEPT !.pc = "probe", !.mode = "discovery", !.pk = pk,
                         !.old = row[pk], !.cand = row[pk].key, !.to = t]
    <2>1. proc' = [proc EXCEPT ![p] = q]
      BY <1>4 DEF Set
    <2>2. t \in Targets /\ t # Null
      BY FrozenRow
    <2> HIDE DEF t
    <2>3. q \in Processes
      BY <2>2, FrozenRow, Bounds DEF Idle, Processes, Steps
    <2>4. /\ q.pc = "probe" /\ q.pk = pk /\ q.old = row[pk] /\ q.cand = row[pk].key
          /\ q.to = t /\ q.mode = "discovery"
      BY DEF Idle
    <2> HIDE DEF q
    <2>5. Fine(q, proven', durable', issued')
      BY <2>2, <2>3, <2>4, <1>2, FrozenRow DEF Fine, Checking
    <2>6. row[q.pk] # NoRow
      BY <2>4 DEF Existing
    <2> QED BY <2>1, <2>4, <2>5, <2>6, <1>1, QuietStep DEF InSave
  <1>5. CASE Leave(p)
    BY <1>1, <1>5, QuietEnd DEF Leave, Set, Discover
  <1> QED BY <1>3, <1>4, <1>5 DEF Discover

LEMMA ProbeKeeps ==
  ASSUME IInv, NEW p \in Procs, Probe(p)
  PROVE  IInv'
  <1> DEFINE o == proc[p]
             pc == IF o.pk = 0 THEN "create" ELSE IF o.cand = Null THEN "generate" ELSE "status"
             q == [o EXCEPT !.pc = pc]
  <1>1. RestPart' /\ Grows /\ KeyPart' /\ row' = row
    BY RestKept, KeysKept DEF IInv, Probe
  <1>2. Fine(o, proven', durable', issued') /\ o.pc = "probe"
    BY DEF IInv, ProcPart, Probe
  <1>3. proc' = [proc EXCEPT ![p] = q]
    BY DEF Probe, Set
  <1>4. o \in Processes /\ o.mode = "discovery"
    BY <1>2 DEF Fine
  <1>5. /\ pc \in Steps
        /\ o.pk = 0 => pc = "create"
        /\ o.pk # 0 /\ o.cand = Null => pc = "generate"
        /\ o.pk # 0 /\ o.cand # Null => pc = "status"
    BY DEF Steps
  <1> HIDE DEF pc
  <1>6. /\ q \in Processes /\ q.pc = pc /\ q.mode = o.mode /\ q.pk = o.pk /\ q.old = o.old
        /\ q.cand = o.cand /\ q.to = o.to
    BY <1>4, <1>5 DEF Processes
  <1> HIDE DEF q
  <1>7. Fine(q, proven', durable', issued')
    BY <1>2, <1>4, <1>5, <1>6 DEF Fine, Checking
  <1>8. q.pc # "insert" /\ ~InSave(q)
    BY <1>4, <1>5, <1>6 DEF InSave
  <1> QED BY <1>1, <1>3, <1>6, <1>7, <1>8, QuietStep

LEMMA RefreshKeeps ==
  ASSUME IInv, NEW p \in Procs, Refresh(p)
  PROVE  IInv'
  <1> DEFINE o == proc[p]  now == row[o.pk]
  <1>1. RestPart' /\ Grows /\ KeyPart' /\ row' = row
    BY RestKept, KeysKept DEF IInv, Refresh
  <1>2. /\ Fine(o, proven', durable', issued') /\ o.pc = "refresh"
        /\ durable' = durable /\ issued' = issued
    BY DEF IInv, ProcPart, Refresh
  <1>3. o \in Processes /\ o.mode = "discovery" /\ o.pk # 0 /\ o.to # Null
    BY <1>2 DEF Fine
  <1>4. CASE Readable(now)
    <2> DEFINE q == [o EXCEPT !.pc = "status", !.old = now, !.cand = now.key]
    <2>1. proc' = [proc EXCEPT ![p] = q]
      BY <1>4 DEF Refresh, Set
    <2>2. o.pk \in Pks
      <3>1. o.pk \in 0..MaxRows
        BY <1>3 DEF Processes
      <3> QED BY <3>1, <1>3, Bounds DEF Pks
    <2>3. now # NoRow /\ now.key # Null
      BY <1>4, NoRowFacts DEF Readable
    <2>4. now \in Rows /\ Safe(now.key, durable) /\ now.key \in Keys
      BY <2>2, <2>3, Reads
    <2> HIDE DEF now
    <2>5. /\ q \in Processes /\ q.pc = "status" /\ q.mode = o.mode /\ q.pk = o.pk /\ q.old = now
          /\ q.cand = now.key /\ q.to = o.to
      BY <1>3, <2>4 DEF Processes, Steps
    <2> HIDE DEF q
    <2>6. Fine(q, proven', durable', issued')
      BY <1>2, <1>3, <2>3, <2>4, <2>5 DEF Fine, Checking
    <2> QED BY <1>1, <1>3, <2>1, <2>5, <2>6, QuietStep DEF InSave
  <1>5. CASE ~Readable(now)
    BY <1>1, <1>5, QuietEnd DEF Refresh, Leave, Set
  <1> QED BY <1>4, <1>5

LEMMA FixKeeps ==
  ASSUME IInv, NEW p \in Procs, Fix(p)
  PROVE  IInv'
  <1>1. RestPart' /\ Grows /\ KeyPart' /\ row' = row
    BY RestKept, KeysKept DEF IInv, Fix
  <1>2. /\ issued' \in Nat /\ issued' = issued /\ durable' = durable /\ proven' = proven
    BY Counters DEF IInv, Fix
  <1>3. PICK pk \in Existing :
           /\ row[pk].key # Null
           /\ Set(p, [Idle EXCEPT !.pc = "status", !.mode = "command", !.pk = pk,
                          !.old = row[pk], !.cand = row[pk].key,
                          !.to = Target(row[pk].cfg, addr)])
    BY DEF Fix
  <1> DEFINE t == Target(row[pk].cfg, addr)
             q == [Idle EXCEPT !.pc = "status", !.mode = "command", !.pk = pk,
                       !.old = row[pk], !.cand = row[pk].key, !.to = t]
  <1>4. proc' = [proc EXCEPT ![p] = q]
    BY <1>3 DEF Set
  <1>5. t \in Targets /\ t # Null
    BY FrozenRow
  <1> HIDE DEF t
  <1>6. q \in Processes
    BY <1>5, FrozenRow, Bounds DEF Idle, Processes, Steps
  <1>7. /\ q.pc = "status" /\ q.pk = pk /\ q.old = row[pk] /\ q.cand = row[pk].key
        /\ q.to = t /\ q.mode = "command"
    BY DEF Idle
  <1> HIDE DEF q
  <1>8. Fine(q, proven', durable', issued')
    BY <1>2, <1>3, <1>5, <1>6, <1>7, FrozenRow DEF Fine, Checking
  <1>9. row[q.pk] # NoRow
    BY <1>7 DEF Existing
  <1> QED BY <1>1, <1>4, <1>7, <1>8, <1>9, QuietStep DEF InSave

---------------------------------------------------------------------------
(* The gate: a save takes its locks.                                       *)

LEMMA LockTaken ==
  ASSUME ProcPart, LockPart, row' = row, NEW p \in Procs, NEW q,
         proc' = [proc EXCEPT ![p] = q], q.pc # "insert", q.pk # 0,
         ~q.ins => q.old # NoRow /\ row[q.pk] = q.old,
         ~q.ins => \A o \in Procs \ {p} : Holds(proc[o]) => proc[o].pk # q.pk,
         \A o \in Procs \ {p} : proc[o].pc = "insert" => proc[o].pk # q.pk,
         q.new.auto => ~q.ins /\ q.old.auto
  PROVE  LockPart'
  <1>0. proc'[p] = q /\ \A o \in Procs : o # p => proc'[o] = proc[o]
    BY DEF ProcPart
  <1>i. \A o \in Procs : proc'[o].pc = "insert" => o # p /\ proc'[o] = proc[o]
    BY <1>0
  <1>1. \A o \in Procs : Holds(proc'[o]) => proc'[o].old # NoRow /\ row'[proc'[o].pk] = proc'[o].old
    BY <1>0 DEF LockPart, Holds
  <1>2. \A o \in Procs : InSave(proc'[o]) =>
           proc'[o].pk # 0 /\ (proc'[o].new.auto => ~proc'[o].ins /\ proc'[o].old.auto)
    BY <1>0 DEF LockPart
  <1>3. \A o, r \in Procs : Holds(proc'[o]) /\ Holds(proc'[r]) /\ o # r => proc'[o].pk # proc'[r].pk
    <2> TAKE o, r \in Procs
    <2> HAVE Holds(proc'[o]) /\ Holds(proc'[r]) /\ o # r
    <2>1. CASE o = p
      BY <2>1, <1>0 DEF Holds
    <2>2. CASE r = p
      BY <2>2, <1>0 DEF Holds
    <2>3. CASE o # p /\ r # p
      BY <2>3, <1>0 DEF LockPart
    <2> QED BY <2>1, <2>2, <2>3
  <1>4. \A o, r \in Procs : proc'[o].pc = "insert" /\ o # r =>
           proc'[r].pc # "insert" /\ proc'[r].pk # proc'[o].pk
    <2> TAKE o, r \in Procs
    <2> HAVE proc'[o].pc = "insert" /\ o # r
    <2>1. o # p /\ proc'[o] = proc[o] /\ proc[o].pc = "insert"
      BY <1>i
    <2>2. CASE r = p
      BY <2>1, <2>2, <1>0
    <2>3. CASE r # p
      BY <2>1, <2>3, <1>0 DEF LockPart
    <2> QED BY <2>2, <2>3
  <1>5. \A o \in Procs : proc'[o].pc = "insert" =>
           row'[proc'[o].pk] = NoRow /\ \A pk \in Pks : ~row'[pk].auto
    BY <1>i DEF LockPart
  <1>6. \A a, b \in Pks : row'[a].auto /\ row'[b].auto => a = b
    BY DEF LockPart
  <1> QED BY <1>1, <1>2, <1>3, <1>4, <1>5, <1>6 DEF LockPart

(* The row a save starts from, and the primary key it will use.            *)
Before(p) == IF proc[p].pk = 0 THEN NoRow ELSE row[proc[p].pk]
KeyOf(p) == IF proc[p].pk = 0 THEN issued + 1 ELSE proc[p].pk

LEMMA BeforeFacts ==
  ASSUME IInv, NEW p \in Procs, ~Stale(p), proc[p].pk = 0 => issued < MaxRows
  PROVE  /\ Before(p) \in Rows \cup {NoRow}
         /\ Before(p).fp # Null => <<Before(p).fp, Before(p).key>> \in proven
         /\ Safe(Before(p).key, durable)
         /\ Before(p) # NoRow => proc[p].pk # 0 /\ Before(p) = proc[p].old /\ row[proc[p].pk] = Before(p)
         /\ KeyOf(p) \in 0..MaxRows /\ KeyOf(p) # 0
         /\ proc[p].pk # 0 => KeyOf(p) = proc[p].pk /\ proc[p].pk \in Pks
         /\ proc[p].pk = 0 => KeyOf(p) = issued + 1
  <1>1. proc[p].pk \in 0..MaxRows
    BY DEF IInv, ProcPart, Processes
  <1>2. proc[p].pk # 0 => proc[p].pk \in Pks
    BY <1>1, Bounds DEF Pks
  <1>3. CASE proc[p].pk = 0
    <2>1. Before(p) = NoRow /\ KeyOf(p) = issued + 1
      BY <1>3 DEF Before, KeyOf
    <2>2. issued + 1 \in 0..MaxRows /\ issued + 1 # 0
      BY <1>3, Counters, Bounds DEF IInv
    <2> QED BY <1>3, <2>1, <2>2, NoRowFacts, NullFacts DEF Safe
  <1>4. CASE proc[p].pk # 0
    <2>1. Before(p) = row[proc[p].pk] /\ KeyOf(p) = proc[p].pk
      BY <1>4 DEF Before, KeyOf
    <2>2. /\ row[proc[p].pk] \in Rows \cup {NoRow} /\ Known(row[proc[p].pk], proven, durable)
      BY <1>2, <1>4 DEF IInv, RowPart
    <2>3. row[proc[p].pk] # NoRow => row[proc[p].pk] = proc[p].old
      BY <1>4 DEF Stale
    <2> QED BY <1>1, <1>2, <1>4, <2>1, <2>2, <2>3 DEF Known
  <1> QED BY <1>3, <1>4

(* What a process may be once the gate has let it through.                 *)
LEMMA GateEnd ==
  ASSUME IInv, NEW p \in Procs, proc[p].pc \in {"form", "adopt"},
         ~Stale(p), ~Locked(proc[p].pk), proc[p].pk = 0 => issued < MaxRows,
         UNCHANGED <<row, keys, durable, proven>>, RestPart',
         issued' = IF proc[p].pk = 0 THEN issued + 1 ELSE issued,
         NEW q \in Processes, proc' = [proc EXCEPT ![p] = q],
         q.mode = "save", q.pk = KeyOf(p), q.old = proc[p].old,
         q.ins = (Before(p) = NoRow), q.new \in Rows, q.new.auto = Before(p).auto,
         \/ q.pc = "write" /\ (q.new.fp # Null => <<q.new.fp, q.new.key>> \in proven)
         \/ /\ q.pc = "status" /\ q.cand # Null /\ q.to # Null
            /\ Safe(q.cand, durable) /\ q.new.key = q.cand
  PROVE  IInv'
  <1>1. Grows /\ issued' \in Nat /\ issued \in Nat
    BY Counters DEF IInv, Grows
  <1>2. KeyPart'
    BY KeysKept DEF IInv
  <1>3. RowPart'
    BY <1>1, RowsGrow DEF IInv
  <1>4. Fine(proc[p], proven, durable, issued)
    BY DEF IInv, ProcPart
  <1>5. q.pk <= issued' /\ q.pk # 0
    <2>1. CASE proc[p].pk = 0
      <3>1. q.pk = issued + 1 /\ q.pk # 0 /\ issued' = issued + 1
        BY <2>1, BeforeFacts
      <3> QED BY <3>1, <1>1
    <2>2. CASE proc[p].pk # 0
      BY <2>2, <1>4, BeforeFacts DEF Fine
    <2> QED BY <2>1, <2>2
  <1>6. Fine(q, proven', durable', issued')
    BY <1>4, <1>5 DEF Fine, Checking
  <1>7. ProcPart'
    BY <1>1, <1>6, OneProcess DEF IInv
  <1>8. ~q.ins => /\ q.old # NoRow /\ row[q.pk] = q.old
                  /\ \A o \in Procs \ {p} : Holds(proc[o]) => proc[o].pk # q.pk
    BY BeforeFacts DEF Locked, Holds
  <1>9. \A o \in Procs \ {p} : proc[o].pc = "insert" => proc[o].pk # q.pk
    <2> SUFFICES ASSUME NEW o \in Procs \ {p}, proc[o].pc = "insert" PROVE proc[o].pk # q.pk
      OBVIOUS
    <2>1. proc[p].pk # proc[o].pk
      BY DEF IInv, LockPart
    <2>2. proc[o].pk <= issued /\ proc[o].pk \in 0..MaxRows
      BY DEF IInv, ProcPart, Fine, Processes
    <2>3. CASE proc[p].pk = 0
      <3>1. q.pk = issued + 1
        BY <2>3, BeforeFacts
      <3> QED BY <2>2, <3>1, <1>1, Bounds
    <2>4. CASE proc[p].pk # 0
      BY <2>1, <2>4, BeforeFacts
    <2> QED BY <2>3, <2>4
  <1>10. q.new.auto => ~q.ins /\ q.old.auto
    BY BeforeFacts, NoRowFacts
  <1>11. LockPart'
    BY <1>5, <1>8, <1>9, <1>10, LockTaken DEF IInv
  <1> QED BY <1>2, <1>3, <1>7, <1>11 DEF IInv

LEMMA GateKeeps ==
  ASSUME IInv, NEW p \in Procs, proc[p].pc \in {"form", "adopt"},
         ~Stale(p), ~Locked(proc[p].pk), proc[p].pk = 0 => issued < MaxRows,
         NEW c \in Cfgs, NEW on \in BOOLEAN, NEW supplied \in Keys \cup {Null, Blank},
         Safe(supplied, durable), proc[p].pc = "adopt" => supplied = proc[p].old.key,
         Gate(p, c, on, supplied), UNCHANGED <<row, addr, keys, edits, durable, proven>>
  PROVE  IInv'
  <1> DEFINE o == proc[p]
             prev == Before(p)
             key == IF supplied \in {Null, Blank} THEN prev.key ELSE supplied
             checks == on /\ (Preflight(prev, c, key) \/ (supplied = Blank /\ key # Null))
             generates == checks /\ key = Null
             cand == IF generates THEN generated + 1 ELSE key
             to == Target(c, addr)
             npk == KeyOf(p)
             first == [prev EXCEPT !.cfg = c, !.enabled = on]
             begun == [o EXCEPT !.mode = "save", !.pk = npk, !.ins = (prev = NoRow),
                                !.cand = cand, !.to = to, !.new = first]
             keyed == [begun EXCEPT !.new.key = cand]
  <1>f. Fine(o, proven, durable, issued) /\ o \in Processes
    BY DEF IInv, ProcPart, Fine
  <1>b. /\ prev \in Rows \cup {NoRow} /\ npk \in 0..MaxRows /\ Safe(prev.key, durable)
        /\ prev.fp # Null => <<prev.fp, prev.key>> \in proven
    BY BeforeFacts
  <1>k. key \in Keys \cup {Null} /\ Safe(key, durable)
    BY <1>b, RowFields
  <1>t. to \in Targets /\ to # Null
    BY TargetType DEF IInv, RestPart
  <1>1. /\ issued' = IF o.pk = 0 THEN issued + 1 ELSE issued
        /\ generated' = IF generates THEN generated + 1 ELSE generated
        /\ generates => cand \in Generated
        /\ \/ ~checks /\ Set(p, [begun EXCEPT !.pc = "write"])
           \/ checks /\ Defers(supplied)
              /\ Set(p, [keyed EXCEPT !.pc = "write", !.new.fp = Null])
           \/ checks /\ ~Defers(supplied) /\ ProofMatches(o, to)
              /\ Set(p, [keyed EXCEPT !.pc = "write", !.new.fp = to])
           \/ checks /\ ~Defers(supplied) /\ ~ProofMatches(o, to)
              /\ Set(p, [keyed EXCEPT !.pc = "status"])
    BY DEF Gate, Before, KeyOf
  <1>g. cand \in Keys \cup {Null} /\ (~generates => cand = key) /\ (generates => supplied \in {Null, Blank})
    BY <1>1, <1>k DEF Keys
  <1>r. RestPart'
    <2>1. issued' \in 0..MaxRows
      BY <1>1, Counters, Bounds DEF IInv
    <2>2. generated' \in 0..MaxGenerated
      <3>1. CASE generates
        <4>1. generated' = generated + 1 /\ generated + 1 \in 1..MaxGenerated
          BY <1>1, <3>1 DEF Generated
        <4> QED BY <4>1, Bounds
      <3>2. CASE ~generates
        BY <1>1, <3>2 DEF IInv, RestPart
      <3> QED BY <3>1, <3>2
    <2> QED BY <2>1, <2>2 DEF IInv, RestPart
  <1>n. /\ first \in Rows /\ first.key = prev.key /\ first.fp = prev.fp /\ first.auto = prev.auto
    <2>1. first = [prev EXCEPT !.cfg = c, !.enabled = on]
      OBVIOUS
    <2> HIDE DEF first, prev
    <2>2. prev \in Rows \cup {NoRow}
      BY <1>b
    <2>3. CASE prev = NoRow
      <3>1. first = [NoRow EXCEPT !.cfg = c, !.enabled = on]
        BY <2>1, <2>3
      <3> QED BY <2>3, <3>1 DEF NoRow, Rows
    <2>4. CASE prev \in Rows
      BY <2>1, <2>4 DEF Rows
    <2> QED BY <2>2, <2>3, <2>4
  <1>i. issued' = IF o.pk = 0 THEN issued + 1 ELSE issued
    BY <1>1
  <1>s. ~Defers(supplied) => key = supplied /\ key # Null
    BY DEF Defers
  <1>ng. ~Defers(supplied) => ~generates
    BY <1>s
  <1> HIDE DEF first, cand, to, npk, key, checks, generates, prev
  <1>p. npk = KeyOf(p) /\ prev = Before(p)
    BY DEF npk, prev
  <1>q. /\ keyed \in Processes /\ keyed.mode = "save" /\ keyed.pk = npk /\ keyed.old = o.old
        /\ keyed.ins = (prev = NoRow) /\ keyed.cand = cand /\ keyed.to = to
        /\ keyed.new \in Rows /\ keyed.new.key = cand /\ keyed.new.auto = first.auto
    <2> DEFINE n == [first EXCEPT !.key = cand]
    <2>1. n \in Rows /\ n.key = cand /\ n.auto = first.auto
      BY <1>n, <1>g DEF Rows
    <2>2. begun \in Processes /\ begun.new = first
      BY <1>f, <1>b, <1>n, <1>g, <1>t DEF Processes
    <2>3. keyed.new = n
      BY <2>2 DEF Processes
    <2> HIDE DEF n
    <2> QED BY <1>f, <1>b, <1>n, <1>g, <1>t, <2>1, <2>3 DEF Processes
  <1>2. CASE Set(p, [begun EXCEPT !.pc = "write"])
    <2> DEFINE q == [begun EXCEPT !.pc = "write"]
    <2>1. /\ q \in Processes /\ q.pc = "write" /\ q.mode = "save" /\ q.pk = npk /\ q.old = o.old
          /\ q.ins = (prev = NoRow) /\ q.new = first
      BY <1>f, <1>b, <1>n, <1>g, <1>t DEF Processes, Steps
    <2>2. proc' = [proc EXCEPT ![p] = q]
      BY <1>2 DEF Set
    <2> HIDE DEF q
    <2> QED BY <1>i, <1>r, <1>n, <1>b, <1>p, <2>1, <2>2, GateEnd
  <1> HIDE DEF keyed
  <1>3. CASE Set(p, [keyed EXCEPT !.pc = "write", !.new.fp = Null])
    <2> DEFINE n == [keyed.new EXCEPT !.fp = Null]
               q == [keyed EXCEPT !.pc = "write", !.new.fp = Null]
    <2>n. n \in Rows /\ n.fp = Null /\ n.auto = first.auto
      BY <1>q DEF Rows
    <2>m. q.new = n
      BY <1>q DEF Processes
    <2> HIDE DEF n
    <2>1. /\ q \in Processes /\ q.pc = "write" /\ q.mode = "save" /\ q.pk = npk /\ q.old = o.old
          /\ q.ins = (prev = NoRow)
      BY <1>q, <2>n, <2>m DEF Processes, Steps
    <2>2. proc' = [proc EXCEPT ![p] = q]
      BY <1>3 DEF Set
    <2> HIDE DEF q
    <2> QED BY <1>i, <1>r, <1>n, <1>b, <1>p, <2>n, <2>m, <2>1, <2>2, GateEnd
  <1>4. CASE ProofMatches(o, to) /\ ~Defers(supplied)
             /\ Set(p, [keyed EXCEPT !.pc = "write", !.new.fp = to])
    <2> DEFINE n == [keyed.new EXCEPT !.fp = to]
               q == [keyed EXCEPT !.pc = "write", !.new.fp = to]
    <2>n. n \in Rows /\ n.fp = to /\ n.key = cand /\ n.auto = first.auto
      BY <1>q, <1>t DEF Rows
    <2>m. q.new = n
      BY <1>q DEF Processes
    <2>a. <<to, cand>> \in proven
      <3>1. o.proof = to /\ ~Defers(supplied)
        BY <1>4 DEF ProofMatches
      <3>2. o.pc = "adopt"
        BY <3>1, <1>f, <1>t DEF Fine
      <3>3. <<to, o.old.key>> \in proven /\ supplied = o.old.key
        BY <3>1, <3>2, <1>f DEF Fine
      <3> QED BY <3>1, <3>3, <1>s, <1>ng, <1>g
    <2> HIDE DEF n
    <2>1. /\ q \in Processes /\ q.pc = "write" /\ q.mode = "save" /\ q.pk = npk /\ q.old = o.old
          /\ q.ins = (prev = NoRow)
      BY <1>q, <2>n, <2>m DEF Processes, Steps
    <2>2. proc' = [proc EXCEPT ![p] = q]
      BY <1>4 DEF Set
    <2> HIDE DEF q
    <2> QED BY <1>i, <1>r, <1>n, <1>b, <1>p, <2>n, <2>m, <2>a, <2>1, <2>2, GateEnd
  <1>5. CASE ~Defers(supplied) /\ Set(p, [keyed EXCEPT !.pc = "status"])
    <2> DEFINE q == [keyed EXCEPT !.pc = "status"]
    <2>a. cand = key /\ cand # Null /\ Safe(cand, durable)
      BY <1>5, <1>s, <1>ng, <1>g, <1>k
    <2>1. /\ q \in Processes /\ q.pc = "status" /\ q.mode = "save" /\ q.pk = npk /\ q.old = o.old
          /\ q.ins = (prev = NoRow) /\ q.cand = cand /\ q.to = to /\ q.new = keyed.new
      BY <1>q DEF Processes, Steps
    <2>2. proc' = [proc EXCEPT ![p] = q]
      BY <1>5 DEF Set
    <2> HIDE DEF q
    <2>3. /\ q.new \in Rows /\ q.new.auto = Before(p).auto /\ q.new.key = q.cand
          /\ q.cand # Null /\ q.to # Null /\ Safe(q.cand, durable)
      BY <1>q, <1>n, <1>p, <1>t, <2>a, <2>1
    <2> QED BY <1>i, <1>r, <1>n, <1>b, <1>p, <2>1, <2>2, <2>3, GateEnd
  <1> QED BY <1>1, <1>2, <1>3, <1>4, <1>5

LEMMA SubmitKeeps ==
  ASSUME IInv, NEW p \in Procs, Submit(p)
  PROVE  IInv'
  <1>1. CASE Leave(p) /\ UNCHANGED <<issued, generated>>
    BY <1>1, RestKept, QuietEnd DEF IInv, Submit, Leave, Set
  <1>2. ASSUME NEW c \in Cfgs, NEW on \in BOOLEAN, NEW supplied \in Submitted \cup {Null, Blank},
               proc[p].pk = 0 => issued < MaxRows, ~Stale(p), Gate(p, c, on, supplied)
        PROVE  IInv'
    <2>1. supplied \in Keys \cup {Null, Blank} /\ Safe(supplied, durable)
      BY ConstantsAssumption, NullFacts DEF Safe, Keys
    <2> QED BY <1>2, <2>1, GateKeeps DEF Submit
  <1> QED BY <1>1, <1>2 DEF Submit

LEMMA AdoptKeeps ==
  ASSUME IInv, NEW p \in Procs, Adopt(p)
  PROVE  IInv'
  <1>1. CASE Stale(p)
    BY <1>1, RestKept, QuietEnd DEF IInv, Adopt, Leave, Set
  <1>2. CASE ~Stale(p)
    <2> DEFINE r == proc[p].old
    <2>1. r \in Rows /\ Safe(r.key, durable) /\ proc[p].pk # 0
      BY DEF IInv, ProcPart, Fine, Adopt
    <2>2. r.cfg \in Cfgs /\ r.enabled \in BOOLEAN /\ r.key \in Keys \cup {Null}
      BY <2>1 DEF Rows
    <2> QED BY <1>2, <2>1, <2>2, GateKeeps DEF Adopt
  <1> QED BY <1>1, <1>2

---------------------------------------------------------------------------
(* Discovery begins its insertion; then the steps that change a row.       *)

LEMMA CreateKeeps ==
  ASSUME IInv, NEW p \in Procs, Create(p)
  PROVE  IInv'
  <1>1. CASE Vacant
    <2>1. PICK c \in Discoverable :
             proc' = [proc EXCEPT ![p] =
                 [proc[p] EXCEPT !.pc = "insert", !.pk = issued + 1,
                      !.new = [enabled |-> TRUE, cfg |-> c, key |-> generated + 1,
                               fp |-> Null, auto |-> TRUE]]]
      BY <1>1 DEF Create, Set
    <2> DEFINE n == [enabled |-> TRUE, cfg |-> c, key |-> generated + 1,
                     fp |-> Null, auto |-> TRUE]
               q == [proc[p] EXCEPT !.pc = "insert", !.pk = issued + 1, !.new = n]
    <2>2. /\ issued < MaxRows /\ generated < MaxGenerated /\ issued' = issued + 1
          /\ generated' = generated + 1
          /\ UNCHANGED <<row, addr, keys, edits, durable, proven>>
          /\ \A o \in Procs : proc[o].pc # "insert"
      BY <1>1 DEF Create
    <2>3. issued \in Nat /\ generated \in Nat /\ MaxRows \in Nat /\ MaxGenerated \in Nat
      BY Counters, Bounds DEF IInv
    <2>4. /\ issued + 1 \in 0..MaxRows /\ issued + 1 # 0 /\ issued <= issued'
          /\ generated + 1 \in 0..MaxGenerated /\ generated + 1 \in Generated
          /\ issued + 1 <= issued' /\ issued + 1 \in Pks
      BY <2>2, <2>3 DEF Generated, Pks
    <2>5. RestPart' /\ Grows
      BY <2>2, <2>4 DEF IInv, RestPart, Grows
    <2>6. KeyPart'
      BY <2>2, KeysKept DEF IInv
    <2>7. RowPart'
      BY <2>2, <2>5, RowsGrow DEF IInv
    <2>8. n \in Rows /\ n.fp = Null /\ n.key \in Generated
      <3>1. c \in Cfgs /\ generated + 1 \in Keys
        BY <2>4, ConstantsAssumption DEF Keys
      <3> QED BY <3>1, <2>4 DEF Rows
    <2> HIDE DEF n
    <2>9. Fine(proc[p], proven', durable', issued')
      BY <2>2, <2>3, <2>4, FineGrows DEF IInv, ProcPart
    <2>10. /\ q \in Processes /\ q.pc = "insert" /\ q.pk = issued + 1 /\ q.new = n
           /\ q.old = proc[p].old
      <3>1. proc[p] \in Processes
        BY <2>9 DEF Fine
      <3> QED BY <3>1, <2>4, <2>8 DEF Processes, Steps
    <2>11. proc' = [proc EXCEPT ![p] = q]
      BY <2>1 DEF n
    <2> HIDE DEF q
    <2>12. Fine(q, proven', durable', issued')
      BY <2>4, <2>8, <2>9, <2>10 DEF Fine, Checking
    <2>13. ProcPart'
      BY <2>5, <2>11, <2>12, OneProcess DEF IInv
    <2>14. \A pk \in Pks : row[pk] = NoRow /\ ~row[pk].auto
      BY <1>1, NoRowFacts DEF Vacant, Existing
    <2>15. LockPart'
      <3>0. proc'[p] = q /\ \A o \in Procs : o # p => proc'[o] = proc[o]
        BY <2>11 DEF IInv, ProcPart
      <3>1. ~InSave(q) /\ \A o \in Procs : InSave(proc'[o]) => o # p /\ proc'[o] = proc[o]
        BY <2>10, <3>0 DEF InSave
      <3>2. \A o \in Procs : proc'[o].pc = "insert" => o = p
        BY <2>2, <3>0
      <3>3. \A o \in Procs : o # p => proc'[o].pk # issued + 1
        <4> TAKE o \in Procs
        <4> HAVE o # p
        <4>1. proc'[o] = proc[o] /\ proc[o].pk <= issued /\ proc[o].pk \in 0..MaxRows
          BY <3>0 DEF IInv, ProcPart, Fine, Processes
        <4> QED BY <4>1, <2>3
      <3>4. row' = row
        BY <2>2
      <3>5. \A o, r \in Procs : proc'[o].pc = "insert" /\ o # r =>
               proc'[r].pc # "insert" /\ proc'[r].pk # proc'[o].pk
        BY <3>0, <3>2, <3>3, <2>10
      <3>6. \A o \in Procs : proc'[o].pc = "insert" =>
               row'[proc'[o].pk] = NoRow /\ \A pk \in Pks : ~row'[pk].auto
        BY <3>0, <3>2, <3>4, <2>4, <2>10, <2>14
      <3>7. \A a, b \in Pks : row'[a].auto /\ row'[b].auto => a = b
        BY <3>4, <2>14
      <3>8. /\ \A o \in Procs : Holds(proc'[o]) => proc'[o].old # NoRow /\ row'[proc'[o].pk] = proc'[o].old
            /\ \A o, r \in Procs : Holds(proc'[o]) /\ Holds(proc'[r]) /\ o # r => proc'[o].pk # proc'[r].pk
        BY <3>1, <3>4 DEF IInv, LockPart, Holds
      <3>9. \A o \in Procs : InSave(proc'[o]) =>
               proc'[o].pk # 0 /\ (proc'[o].new.auto => ~proc'[o].ins /\ proc'[o].old.auto)
        BY <3>1 DEF IInv, LockPart
      <3> QED BY <3>5, <3>6, <3>7, <3>8, <3>9 DEF LockPart
    <2> QED BY <2>5, <2>6, <2>7, <2>13, <2>15 DEF IInv
  <1>2. CASE ~Vacant
    <2>1. RestPart' /\ Grows
      BY <1>2, RestKept DEF IInv, Create
    <2> QED BY <1>2, <2>1, QuietEnd DEF Create, Set
  <1> QED BY <1>1, <1>2

LEMMA RowChanged ==
  ASSUME RowPart, RestPart, RestPart', Grows, NEW k \in Pks, k <= issued,
         NEW r \in Rows \cup {NoRow}, Known(r, proven', durable'),
         row' = [row EXCEPT ![k] = r]
  PROVE  RowPart'
  <1>1. row' \in [Pks -> Rows \cup {NoRow}]
    BY DEF RowPart
  <1>2. \A j \in Pks : row'[j] = IF j = k THEN r ELSE row[j]
    BY DEF RowPart
  <1>3. \A j \in Pks : Known(row'[j], proven', durable')
    BY <1>2 DEF RowPart, Known, Safe, Grows
  <1>4. ASSUME NEW j \in Pks, j > issued' PROVE row'[j] = NoRow
    <2>1. issued \in Nat /\ issued' \in Nat /\ issued <= issued' /\ j \in Nat /\ k \in Nat
      BY Counters, Bounds DEF Grows, RestPart, Pks
    <2>2. j > issued /\ j # k
      BY <1>4, <2>1
    <2> QED BY <1>2, <2>2 DEF RowPart
  <1> QED BY <1>1, <1>3, <1>4 DEF RowPart

(* A row that nobody else has locked changes, by a process that is done    *)
(* with it, or by somebody else.                                           *)
LEMMA LockReleased ==
  ASSUME ProcPart, RowPart, LockPart, NEW k \in Pks, NEW r, row' = [row EXCEPT ![k] = r],
         \A o \in Procs : \/ proc'[o] = proc[o]
                          \/ /\ ~InSave(proc'[o]) /\ proc'[o].pc # "insert"
                             /\ proc'[o].pk = 0 \/ proc'[o].pk = proc[o].pk,
         \A o \in Procs : proc'[o] = proc[o] /\ Holds(proc[o]) => proc[o].pk # k,
         \A o \in Procs : proc'[o] = proc[o] /\ proc[o].pc = "insert" =>
                              proc[o].pk # 0 /\ proc[o].pk # k /\ ~r.auto,
         r.auto => \A j \in Pks : j # k => ~row[j].auto
  PROVE  LockPart'
  <1>1. \A j \in Pks : row'[j] = IF j = k THEN r ELSE row[j]
    BY DEF RowPart
  <1>2. \A o \in Procs : proc[o].pk # 0 /\ proc[o].pk # k => row'[proc[o].pk] = row[proc[o].pk]
    <2>1. \A o \in Procs : proc[o].pk \in 0..MaxRows
      BY DEF ProcPart, Processes
    <2>2. \A o \in Procs : proc[o].pk # 0 => proc[o].pk \in Pks
      BY <2>1, Bounds DEF Pks
    <2> QED BY <1>1, <2>2
  <1>3. \A o \in Procs : InSave(proc'[o]) \/ proc'[o].pc = "insert" => proc'[o] = proc[o]
    OBVIOUS
  <1>4. \A o \in Procs : Holds(proc'[o]) => proc'[o].old # NoRow /\ row'[proc'[o].pk] = proc'[o].old
    BY <1>2, <1>3 DEF LockPart, Holds
  <1>5. \A o \in Procs : InSave(proc'[o]) =>
           proc'[o].pk # 0 /\ (proc'[o].new.auto => ~proc'[o].ins /\ proc'[o].old.auto)
    BY <1>3 DEF LockPart
  <1>6. \A o, e \in Procs : Holds(proc'[o]) /\ Holds(proc'[e]) /\ o # e => proc'[o].pk # proc'[e].pk
    BY <1>3 DEF LockPart, Holds
  <1>7. \A o, e \in Procs : proc'[o].pc = "insert" /\ o # e =>
           proc'[e].pc # "insert" /\ proc'[e].pk # proc'[o].pk
    BY <1>3 DEF LockPart
  <1>8. \A o \in Procs : proc'[o].pc = "insert" =>
           row'[proc'[o].pk] = NoRow /\ \A pk \in Pks : ~row'[pk].auto
    BY <1>1, <1>2, <1>3 DEF LockPart
  <1>9. \A a, b \in Pks : row'[a].auto /\ row'[b].auto => a = b
    BY <1>1 DEF LockPart
  <1> QED BY <1>4, <1>5, <1>6, <1>7, <1>8, <1>9 DEF LockPart

(* What a save in its last step, or an insertion, knows.                   *)
LEMMA WriteFacts ==
  ASSUME IInv, NEW p \in Procs, proc[p].pc \in {"write", "insert"}
  PROVE  /\ proc[p].pk \in Pks /\ proc[p].pk <= issued /\ proc[p].new \in Rows
         /\ proc[p].new.fp # Null => <<proc[p].new.fp, proc[p].new.key>> \in proven
         /\ proc[p].new.key \in Keys \cup {Null}
         /\ proc[p].pc = "write" => InSave(proc[p])
         /\ proc[p].pc = "insert" => proc[p].new.key \in Generated
  <1>1. Fine(proc[p], proven, durable, issued)
    BY DEF IInv, ProcPart
  <1>2. proc[p].pk # 0 /\ proc[p].pk \in 0..MaxRows /\ proc[p].new \in Rows
    BY <1>1 DEF Fine, Processes
  <1>3. proc[p].pk \in Pks
    BY <1>2, Bounds DEF Pks
  <1>4. proc[p].new.key \in Keys \cup {Null}
    BY <1>2 DEF Rows
  <1> QED BY <1>1, <1>2, <1>3, <1>4 DEF Fine, InSave

(* A process that is done leaves the others as they were.                  *)
LEMMA Done ==
  ASSUME ProcPart, NEW p \in Procs, proc[p].pc \notin {"idle", "discover"},
         \/ proc' = [proc EXCEPT ![p] = Idle]
         \/ proc' = [proc EXCEPT ![p] = [Idle EXCEPT !.pc = "discover"]]
  PROVE  /\ \A o \in Procs : \/ proc'[o] = proc[o]
                             \/ /\ ~InSave(proc'[o]) /\ proc'[o].pc # "insert"
                                /\ proc'[o].pk = 0 \/ proc'[o].pk = proc[o].pk
         /\ \A o \in Procs : proc'[o] = proc[o] => o # p
  <1> DEFINE d == [Idle EXCEPT !.pc = "discover"]
  <1>1. /\ Idle.pc = "idle" /\ Idle.pk = 0 /\ ~InSave(Idle)
        /\ d.pc = "discover" /\ d.pk = 0 /\ ~InSave(d)
    BY DEF Idle, InSave
  <1>2. \A o \in Procs : o # p => proc'[o] = proc[o]
    BY DEF ProcPart
  <1>3. proc'[p] = Idle \/ proc'[p] = d
    BY DEF ProcPart
  <1> HIDE DEF d
  <1> QED BY <1>1, <1>2, <1>3

LEMMA DoneIsFine ==
  ASSUME IInv, RestPart', Grows, NEW p \in Procs,
         \/ proc' = [proc EXCEPT ![p] = Idle]
         \/ proc' = [proc EXCEPT ![p] = [Idle EXCEPT !.pc = "discover"]]
  PROVE  ProcPart'
  <1>1. issued' \in Nat
    BY Bounds DEF RestPart
  <1>2. CASE proc' = [proc EXCEPT ![p] = Idle]
    BY <1>1, <1>2, IdleIsFine, OneProcess DEF IInv
  <1>3. CASE proc' = [proc EXCEPT ![p] = [Idle EXCEPT !.pc = "discover"]]
    BY <1>1, <1>3, IdleIsFine, OneProcess DEF IInv
  <1> QED BY <1>2, <1>3

(* More generated keys are durable.                                        *)
LEMMA DurableGrows ==
  ASSUME RestPart, NEW s \in SUBSET Generated, durable' = durable \cup s,
         UNCHANGED <<addr, issued, edits, proven>>, generated' \in 0..MaxGenerated
  PROVE  RestPart' /\ Grows
  BY Counters DEF RestPart, Grows

LEMMA KeysDurable ==
  ASSUME KeyPart, keys' = keys, durable \subseteq durable'
  PROVE  KeyPart'
  BY DEF KeyPart, GeneratedIsDurable

LEMMA CommitKeeps ==
  ASSUME IInv, NEW p \in Procs, Commit(p)
  PROVE  IInv'
  <1> DEFINE o == proc[p]  k == o.pk  r == o.new
  <1>0. proc[p].pc = "write"
    BY DEF Commit
  <1>1. CASE o.ins /\ (row[k] # NoRow \/ o.proof # Null)
    <2>1. /\ proc' = [proc EXCEPT ![p] = Idle]
          /\ UNCHANGED <<row, addr, keys, issued, generated, edits, durable, proven>>
      BY <1>1 DEF Commit, Leave, Set
    <2>2. RestPart' /\ Grows
      BY <2>1, RestKept DEF IInv
    <2> QED BY <2>1, <2>2, QuietEnd
  <1>2. CASE ~(o.ins /\ (row[k] # NoRow \/ o.proof # Null))
    <2>1. /\ row' = [row EXCEPT ![k] = r] /\ durable' = durable \cup ({r.key} \cap Generated)
          /\ \/ proc' = [proc EXCEPT ![p] = Idle]
             \/ proc' = [proc EXCEPT ![p] = [Idle EXCEPT !.pc = "discover"]]
          /\ UNCHANGED <<addr, keys, issued, generated, edits, proven>>
      BY <1>2 DEF Commit, Set
    <2>2. /\ k \in Pks /\ k <= issued /\ r \in Rows /\ InSave(o)
          /\ r.fp # Null => <<r.fp, r.key>> \in proven
      BY <1>0, WriteFacts
    <2>3. RestPart' /\ Grows
      <3>1. generated' \in 0..MaxGenerated
        BY <2>1 DEF IInv, RestPart
      <3> QED BY <2>1, <3>1, DurableGrows DEF IInv
    <2>4. KeyPart'
      BY <2>1, KeysDurable DEF IInv
    <2>5. ProcPart'
      BY <2>1, <2>3, DoneIsFine
    <2>6. Known(r, proven', durable')
      BY <2>1, <2>2 DEF Known, Safe
    <2>7. RowPart'
      BY <2>1, <2>2, <2>3, <2>6, RowChanged DEF IInv
    <2>8. /\ \A e \in Procs : \/ proc'[e] = proc[e]
                              \/ /\ ~InSave(proc'[e]) /\ proc'[e].pc # "insert"
                                 /\ proc'[e].pk = 0 \/ proc'[e].pk = proc[e].pk
          /\ \A e \in Procs : proc'[e] = proc[e] => e # p
      BY <1>0, <2>1, Done DEF IInv
    <2>9. \A e \in Procs : e # p /\ Holds(proc[e]) => proc[e].pk # k
      <3> TAKE e \in Procs
      <3> HAVE e # p /\ Holds(proc[e])
      <3>1. CASE o.ins
        <4>1. row[k] = NoRow
          BY <1>2, <3>1
        <4> QED BY <4>1 DEF IInv, LockPart
      <3>2. CASE ~o.ins
        BY <3>2, <2>2 DEF IInv, LockPart, Holds
      <3> QED BY <3>1, <3>2
    <2>10. r.auto => row[k].auto
      BY <2>2 DEF IInv, LockPart, Holds
    <2>11. \A e \in Procs : e # p /\ proc[e].pc = "insert" => proc[e].pk # k /\ ~r.auto /\ proc[e].pk # 0
      <3> TAKE e \in Procs
      <3> HAVE e # p /\ proc[e].pc = "insert"
      <3>1. proc[e].pk # k /\ \A j \in Pks : ~row[j].auto
        BY DEF IInv, LockPart
      <3>2. proc[e].pk # 0
        BY DEF IInv, ProcPart, Fine
      <3> QED BY <2>2, <2>10, <3>1, <3>2
    <2>12. r.auto => \A j \in Pks : j # k => ~row[j].auto
      BY <2>2, <2>10 DEF IInv, LockPart
    <2>13. LockPart'
      <3> HIDE DEF k, r
      <3>1. \A e \in Procs : proc'[e] = proc[e] /\ Holds(proc[e]) => proc[e].pk # k
        BY <2>8, <2>9
      <3>2. \A e \in Procs : proc'[e] = proc[e] /\ proc[e].pc = "insert" =>
                                 proc[e].pk # 0 /\ proc[e].pk # k /\ ~r.auto
        BY <2>8, <2>11
      <3>3. ProcPart /\ RowPart /\ LockPart /\ k \in Pks /\ row' = [row EXCEPT ![k] = r]
        BY <2>1, <2>2 DEF IInv
      <3> QED BY <2>8, <2>12, <3>1, <3>2, <3>3, LockReleased
    <2> QED BY <2>3, <2>4, <2>5, <2>7, <2>13 DEF IInv
  <1> QED BY <1>1, <1>2

LEMMA InsertKeeps ==
  ASSUME IInv, NEW p \in Procs, Insert(p)
  PROVE  IInv'
  <1> DEFINE o == proc[p]  k == o.pk  r == o.new
  <1>0. proc[p].pc = "insert"
    BY DEF Insert
  <1>1. /\ row' = [row EXCEPT ![k] = r] /\ durable' = durable \cup {r.key}
        /\ proc' = [proc EXCEPT ![p] = [Idle EXCEPT !.pc = "discover"]]
        /\ UNCHANGED <<addr, keys, issued, generated, edits, proven>>
    BY DEF Insert, Set
  <1>2. /\ k \in Pks /\ k <= issued /\ r \in Rows /\ r.key \in Generated
        /\ r.fp # Null => <<r.fp, r.key>> \in proven
    BY <1>0, WriteFacts
  <1>3. RestPart' /\ Grows
    <2>1. generated' \in 0..MaxGenerated
      BY <1>1 DEF IInv, RestPart
    <2> QED BY <1>1, <1>2, <2>1, DurableGrows DEF IInv
  <1>4. KeyPart'
    BY <1>1, KeysDurable DEF IInv
  <1>5. ProcPart'
    BY <1>1, <1>3, DoneIsFine
  <1>6. Known(r, proven', durable')
    BY <1>1, <1>2 DEF Known, Safe
  <1>7. RowPart'
    BY <1>1, <1>2, <1>3, <1>6, RowChanged DEF IInv
  <1>8. /\ \A e \in Procs : \/ proc'[e] = proc[e]
                            \/ /\ ~InSave(proc'[e]) /\ proc'[e].pc # "insert"
                               /\ proc'[e].pk = 0 \/ proc'[e].pk = proc[e].pk
        /\ \A e \in Procs : proc'[e] = proc[e] => e # p
    BY <1>0, <1>1, Done DEF IInv
  <1>9. row[k] = NoRow /\ \A j \in Pks : ~row[j].auto
    BY <1>0 DEF IInv, LockPart
  <1>10. \A e \in Procs : e # p => proc[e].pc # "insert" /\ (Holds(proc[e]) => proc[e].pk # k)
    BY <1>0, <1>9 DEF IInv, LockPart
  <1>11. LockPart'
    <2> HIDE DEF k, r
    <2>1. /\ \A e \in Procs : proc'[e] = proc[e] /\ Holds(proc[e]) => proc[e].pk # k
          /\ \A e \in Procs : proc'[e] = proc[e] /\ proc[e].pc = "insert" =>
                                  proc[e].pk # 0 /\ proc[e].pk # k /\ ~r.auto
          /\ r.auto => \A j \in Pks : j # k => ~row[j].auto
      BY <1>8, <1>9, <1>10
    <2>2. ProcPart /\ RowPart /\ LockPart /\ k \in Pks /\ row' = [row EXCEPT ![k] = r]
      BY <1>1, <1>2 DEF IInv
    <2> QED BY <1>8, <2>1, <2>2, LockReleased
  <1> QED BY <1>3, <1>4, <1>5, <1>7, <1>11 DEF IInv

(* A row discovery has read, changed while it is unlocked.                 *)
LEMMA UnlockedRow ==
  ASSUME IInv, NEW k \in Existing, ~Locked(k)
  PROVE  /\ \A e \in Procs : Holds(proc[e]) => proc[e].pk # k
         /\ \A e \in Procs : proc[e].pc = "insert" =>
                proc[e].pk # 0 /\ proc[e].pk # k /\ ~row[k].auto
         /\ row[k].auto => \A j \in Pks : j # k => ~row[j].auto
  <1>1. k \in Pks /\ row[k] # NoRow
    BY DEF Existing
  <1>2. \A e \in Procs : Holds(proc[e]) => proc[e].pk # k
    BY DEF Holds, Locked
  <1>3. \A e \in Procs : proc[e].pc = "insert" => row[proc[e].pk] = NoRow /\ ~row[k].auto
    BY <1>1 DEF IInv, LockPart
  <1>4. \A e \in Procs : proc[e].pc = "insert" => proc[e].pk # 0
    BY DEF IInv, ProcPart, Fine
  <1>5. row[k].auto => \A j \in Pks : j # k => ~row[j].auto
    BY <1>1 DEF IInv, LockPart
  <1> QED BY <1>1, <1>2, <1>3, <1>4, <1>5

LEMMA GenerateKeeps ==
  ASSUME IInv, NEW p \in Procs, Generate(p)
  PROVE  IInv'
  <1> DEFINE o == proc[p]  k == o.pk
  <1>c. generated \in Nat /\ MaxGenerated \in Nat
    BY Counters, Bounds DEF IInv
  <1>g. generated + 1 \in Generated /\ generated + 1 \in 0..MaxGenerated /\ generated' = generated + 1
    BY <1>c DEF Generate, Generated
  <1>f. /\ Fine(o, proven, durable, issued) /\ o.pc = "generate" /\ o \in Processes
        /\ o.old \in Rows /\ o.old.key = Null /\ k # 0 /\ o.to # Null /\ o.mode = "discovery"
    BY DEF IInv, ProcPart, Fine, Generate
  <1>u. ASSUME Unchanged(p)
        PROVE  k \in Pks /\ row[k] = o.old /\ k \in Existing /\ k <= issued /\ row[k].fp = Null
    <2>1. k \in 0..MaxRows /\ k <= issued
      BY <1>f DEF Fine, Processes
    <2>2. k \in Pks
      BY <1>f, <2>1, Bounds DEF Pks
    <2>3. row[k] = o.old /\ k \in Existing
      BY <1>u, <1>f, <2>2, NoRowFacts DEF Unchanged, Existing
    <2>4. row[k].fp = Null
      BY <1>f, <2>2, <2>3, NullFacts DEF IInv, RowPart, Known, RestPart
    <2> QED BY <2>1, <2>2, <2>3, <2>4
  <1> DEFINE r == [row[k] EXCEPT !.key = generated + 1]
             q == [o EXCEPT !.pc = "refresh"]
             n == [o EXCEPT !.pc = "write", !.mode = "nested", !.ins = FALSE,
                            !.new = [o.old EXCEPT !.key = generated + 1]]
  <1>1. CASE /\ Unchanged(p) /\ row' = [row EXCEPT ![k].key = generated + 1]
             /\ durable' = durable \cup {generated + 1} /\ Set(p, q)
    <2>1. /\ row' = [row EXCEPT ![k] = r] /\ durable' = durable \cup {generated + 1}
          /\ proc' = [proc EXCEPT ![p] = q]
          /\ UNCHANGED <<addr, keys, issued, edits, proven>>
      BY <1>1 DEF Generate, Set
    <2>2. k \in Pks /\ row[k] = o.old /\ k \in Existing /\ k <= issued
      BY <1>1, <1>u
    <2>3. RestPart' /\ Grows
      BY <1>g, <2>1, DurableGrows DEF IInv
    <2>4. KeyPart'
      BY <2>1, KeysDurable DEF IInv
    <2>5. row[k].fp = Null
      BY <1>1, <1>u
    <2>6. r \in Rows /\ r.fp = Null /\ r.key = generated + 1 /\ r.auto = row[k].auto
      <3>1. generated + 1 \in Keys
        BY <1>g DEF Keys
      <3> QED BY <3>1, <1>f, <2>2, <2>5 DEF Rows
    <2> HIDE DEF r
    <2>7. Known(r, proven', durable')
      BY <2>1, <2>6 DEF Known, Safe
    <2>8. RowPart'
      BY <2>1, <2>2, <2>3, <2>6, <2>7, RowChanged DEF IInv
    <2>9. q \in Processes /\ q.pc = "refresh" /\ q.pk = k /\ q.mode = "discovery" /\ q.to = o.to
          /\ q.old = o.old
      BY <1>f DEF Processes, Steps
    <2> HIDE DEF q
    <2>10. Fine(o, proven', durable', issued')
      BY <1>f, <2>1, <2>3, Counters, FineGrows DEF IInv, Grows
    <2>11. Fine(q, proven', durable', issued')
      BY <1>f, <2>9, <2>10 DEF Fine, Checking
    <2>12. ProcPart'
      BY <2>1, <2>3, <2>11, OneProcess DEF IInv
    <2>13. \A e \in Procs : \/ proc'[e] = proc[e]
                            \/ /\ ~InSave(proc'[e]) /\ proc'[e].pc # "insert"
                               /\ proc'[e].pk = 0 \/ proc'[e].pk = proc[e].pk
      BY <2>1, <2>9 DEF IInv, ProcPart, InSave
    <2>14. LockPart'
      <3>1. ~Locked(k)
        BY DEF Generate
      <3> HIDE DEF k
      <3>2. /\ \A e \in Procs : proc'[e] = proc[e] /\ Holds(proc[e]) => proc[e].pk # k
            /\ \A e \in Procs : proc'[e] = proc[e] /\ proc[e].pc = "insert" =>
                                    proc[e].pk # 0 /\ proc[e].pk # k /\ ~r.auto
            /\ r.auto => \A j \in Pks : j # k => ~row[j].auto
        BY <2>2, <2>6, <3>1, UnlockedRow
      <3>3. ProcPart /\ RowPart /\ LockPart /\ k \in Pks /\ row' = [row EXCEPT ![k] = r]
        BY <2>1, <2>2 DEF IInv
      <3> QED BY <2>13, <3>2, <3>3, LockReleased
    <2> QED BY <2>3, <2>4, <2>8, <2>12, <2>14 DEF IInv
  <1>2. CASE Leave(p) /\ UNCHANGED <<row, durable>>
    <2>1. /\ proc' = [proc EXCEPT ![p] = Idle]
          /\ UNCHANGED <<row, addr, keys, issued, edits, durable, proven>>
      BY <1>2 DEF Generate, Leave, Set
    <2>2. RestPart' /\ Grows
      BY <1>g, <2>1, Counters DEF IInv, RestPart, Grows
    <2> QED BY <2>1, <2>2, QuietEnd
  <1>3. CASE Unchanged(p) /\ Set(p, n) /\ UNCHANGED <<row, durable>>
    <2>1. /\ proc' = [proc EXCEPT ![p] = n]
          /\ UNCHANGED <<row, addr, keys, issued, edits, durable, proven>>
      BY <1>3 DEF Generate, Set
    <2>2. k \in Pks /\ row[k] = o.old /\ k \in Existing /\ o.old.fp = Null
      BY <1>3, <1>u
    <2>3. RestPart' /\ Grows
      BY <1>g, <2>1, Counters DEF IInv, RestPart, Grows
    <2>4. /\ [o.old EXCEPT !.key = generated + 1] \in Rows
          /\ [o.old EXCEPT !.key = generated + 1].fp = Null
          /\ [o.old EXCEPT !.key = generated + 1].auto = o.old.auto
      <3>1. generated + 1 \in Keys
        BY <1>g DEF Keys
      <3> QED BY <3>1, <1>f, <2>2 DEF Rows
    <2>5. /\ n \in Processes /\ n.pc = "write" /\ n.mode = "nested" /\ n.pk = k /\ n.ins = FALSE
          /\ n.old = o.old /\ n.new \in Rows /\ n.new.fp = Null /\ n.new.auto = o.old.auto
      BY <1>f, <2>4 DEF Processes, Steps
    <2> HIDE DEF n
    <2>6. Fine(n, proven', durable', issued')
      BY <1>f, <2>1, <2>5 DEF Fine, Checking
    <2>7. ProcPart'
      BY <2>1, <2>3, <2>6, OneProcess DEF IInv
    <2>8. /\ \A e \in Procs \ {p} : Holds(proc[e]) => proc[e].pk # n.pk
          /\ \A e \in Procs \ {p} : proc[e].pc = "insert" => proc[e].pk # n.pk
      <3>1. ~Locked(k)
        BY DEF Generate
      <3> QED BY <2>2, <2>5, <3>1, UnlockedRow
    <2>9. n.old # NoRow /\ row[n.pk] = n.old /\ n.pk # 0
      BY <1>f, <2>2, <2>5, NoRowFacts
    <2>10. LockPart'
      <3>1. ProcPart /\ LockPart /\ row' = row /\ proc' = [proc EXCEPT ![p] = n]
        BY <2>1 DEF IInv
      <3>2. n.pc # "insert" /\ n.pk # 0 /\ (n.new.auto => ~n.ins /\ n.old.auto)
        BY <2>5, <2>9
      <3> QED BY <2>8, <2>9, <3>1, <3>2, LockTaken
    <2>11. RowPart'
      BY <2>1, <2>3, RowsGrow DEF IInv
    <2>12. KeyPart'
      BY <2>1, KeysKept DEF IInv
    <2> QED BY <2>3, <2>7, <2>10, <2>11, <2>12 DEF IInv
  <1> QED BY <1>1, <1>2, <1>3 DEF Generate

LEMMA RecordKeeps ==
  ASSUME IInv, NEW p \in Procs, Record(p)
  PROVE  IInv'
  <1> DEFINE o == proc[p]  k == o.pk  r == [row[k] EXCEPT !.fp = o.to]
  <1>f. /\ Fine(o, proven, durable, issued) /\ o.pc = "record" /\ o \in Processes
        /\ o.old \in Rows /\ o.cand = o.old.key /\ k # 0 /\ o.to \in Targets
        /\ <<o.to, o.cand>> \in proven
    BY DEF IInv, ProcPart, Fine, Record, Processes
  <1>1. /\ proc' = [proc EXCEPT ![p] = Idle]
        /\ UNCHANGED <<addr, keys, issued, generated, edits, durable, proven>>
    BY DEF Record, Leave, Set
  <1>2. RestPart' /\ Grows
    BY <1>1, RestKept DEF IInv
  <1>3. CASE ~Unchanged(p)
    BY <1>1, <1>2, <1>3, QuietEnd DEF Record
  <1>4. CASE Unchanged(p)
    <2>1. row' = [row EXCEPT ![k] = r]
      BY <1>4 DEF Record
    <2>2. k \in Pks /\ row[k] = o.old /\ k \in Existing /\ k <= issued
      <3>1. k \in 0..MaxRows /\ k <= issued
        BY <1>f DEF Fine, Processes
      <3>2. k \in Pks
        BY <1>f, <3>1, Bounds DEF Pks
      <3> QED BY <1>4, <1>f, <3>1, <3>2, NoRowFacts DEF Unchanged, Existing
    <2>3. KeyPart'
      BY <1>1, KeysKept DEF IInv
    <2>4. r \in Rows /\ r.fp = o.to /\ r.key = row[k].key /\ r.auto = row[k].auto
      BY <1>f, <2>2 DEF Rows
    <2> HIDE DEF r
    <2>5. Known(r, proven', durable')
      BY <1>1, <1>f, <2>2, <2>4 DEF Known, IInv, RowPart
    <2>6. RowPart'
      BY <1>2, <2>1, <2>2, <2>4, <2>5, RowChanged DEF IInv
    <2>7. ProcPart'
      BY <1>1, <1>2, DoneIsFine
    <2>8. \A e \in Procs : \/ proc'[e] = proc[e]
                           \/ /\ ~InSave(proc'[e]) /\ proc'[e].pc # "insert"
                              /\ proc'[e].pk = 0 \/ proc'[e].pk = proc[e].pk
      BY <1>1, <1>f, Done DEF IInv
    <2>9. LockPart'
      <3>1. ~Locked(k)
        BY DEF Record
      <3> HIDE DEF k
      <3>2. /\ \A e \in Procs : proc'[e] = proc[e] /\ Holds(proc[e]) => proc[e].pk # k
            /\ \A e \in Procs : proc'[e] = proc[e] /\ proc[e].pc = "insert" =>
                                    proc[e].pk # 0 /\ proc[e].pk # k /\ ~r.auto
            /\ r.auto => \A j \in Pks : j # k => ~row[j].auto
        BY <2>2, <2>4, <3>1, UnlockedRow
      <3>3. ProcPart /\ RowPart /\ LockPart /\ k \in Pks /\ row' = [row EXCEPT ![k] = r]
        BY <2>1, <2>2 DEF IInv
      <3> QED BY <2>8, <3>2, <3>3, LockReleased
    <2> QED BY <1>2, <2>3, <2>6, <2>7, <2>9 DEF IInv
  <1> QED BY <1>3, <1>4

---------------------------------------------------------------------------
(* Deletion, recovery, and what others change.                             *)

LEMMA RowTaken ==
  ASSUME IInv, RestPart', Grows, UNCHANGED <<keys, proc, durable, proven, issued>>,
         NEW k \in Existing, ~Locked(k), NEW r \in Rows \cup {NoRow},
         r.key = Null, r.fp = Null, r.auto => row[k].auto, row' = [row EXCEPT ![k] = r]
  PROVE  IInv'
  <1>1. k \in Pks /\ k <= issued
    BY FrozenRow
  <1>2. Known(r, proven', durable')
    BY NullFacts DEF Known, Safe
  <1>3. RowPart'
    BY <1>1, <1>2, RowChanged DEF IInv
  <1>4. KeyPart'
    BY KeysKept DEF IInv
  <1>5. ProcPart'
    BY DEF IInv, ProcPart
  <1>6. LockPart'
    <2>1. \A e \in Procs : proc'[e] = proc[e]
      OBVIOUS
    <2>2. /\ \A e \in Procs : proc'[e] = proc[e] /\ Holds(proc[e]) => proc[e].pk # k
          /\ \A e \in Procs : proc'[e] = proc[e] /\ proc[e].pc = "insert" =>
                                  proc[e].pk # 0 /\ proc[e].pk # k /\ ~r.auto
          /\ r.auto => \A j \in Pks : j # k => ~row[j].auto
      BY UnlockedRow
    <2>3. ProcPart /\ RowPart /\ LockPart
      BY DEF IInv
    <2> QED BY <1>1, <2>1, <2>2, <2>3, LockReleased
  <1> QED BY <1>3, <1>4, <1>5, <1>6 DEF IInv

LEMMA DeleteKeeps ==
  ASSUME IInv, NEW pk \in Pks, Delete(pk)
  PROVE  IInv'
  <1>1. RestPart' /\ Grows
    BY RestKept DEF IInv, Delete
  <1>2. /\ pk \in Existing /\ ~Locked(pk) /\ row' = [row EXCEPT ![pk] = NoRow]
        /\ UNCHANGED <<keys, proc, durable, proven, issued>>
    BY DEF Delete
  <1> QED BY <1>1, <1>2, NoRowFacts, RowTaken

LEMMA ResetKeeps ==
  ASSUME IInv, NEW pk \in Pks, Reset(pk)
  PROVE  IInv'
  <1> DEFINE r == [row[pk] EXCEPT !.key = Null, !.fp = Null, !.enabled = FALSE]
  <1>1. RestPart' /\ Grows
    BY RestKept DEF IInv, Reset
  <1>2. /\ pk \in Existing /\ ~Locked(pk) /\ UNCHANGED <<keys, proc, durable, proven, issued>>
    BY DEF Reset
  <1>3. row[pk] \in Rows
    BY <1>2, FrozenRow
  <1>4. r \in Rows /\ r.key = Null /\ r.fp = Null /\ r.auto = row[pk].auto
    BY <1>3 DEF Rows
  <1>5. row' = [row EXCEPT ![pk] = r]
    BY DEF Reset, Recovered
  <1> HIDE DEF r
  <1> QED BY <1>1, <1>2, <1>4, <1>5, RowTaken

LEMMA StatesKept ==
  ASSUME IInv, UNCHANGED <<row, proc, issued, durable, proven>>, RestPart', KeyPart'
  PROVE  IInv'
  <1>1. ProcPart'
    BY DEF IInv, ProcPart
  <1>2. RowPart'
    BY DEF IInv, RowPart
  <1>3. LockPart'
    BY DEF IInv, LockPart
  <1> QED BY <1>1, <1>2, <1>3 DEF IInv

LEMMA EditsKept ==
  ASSUME RestPart, edits < MaxEdits, edits' = edits + 1, addr' \in Addresses,
         UNCHANGED <<issued, generated, durable, proven>>
  PROVE  RestPart'
  <1>1. edits' \in 0..MaxEdits
    BY Counters, Bounds
  <1> QED BY <1>1 DEF RestPart

LEMMA ReaddressKeeps == IInv /\ Readdress => IInv'
  <1> SUFFICES ASSUME IInv, Readdress PROVE IInv'
    OBVIOUS
  <1>1. RestPart'
    BY EditsKept DEF IInv, Readdress
  <1>2. KeyPart'
    BY KeysKept DEF IInv, Readdress
  <1> QED BY <1>1, <1>2, StatesKept DEF Readdress

LEMMA ElsewhereKeeps ==
  ASSUME IInv, NEW t \in Targets, Elsewhere(t)
  PROVE  IInv'
  <1>1. RestPart'
    <2>1. addr \in Addresses
      BY DEF IInv, RestPart
    <2> QED BY <2>1, EditsKept DEF IInv, Elsewhere
  <1>2. KeyPart'
    <2>1. PICK s \in {{}} \cup {{k} : k \in Submitted} : keys' = [keys EXCEPT ![t] = s]
      BY DEF Elsewhere
    <2>2. s \subseteq Keys /\ s \cap Generated = {}
      BY ConstantsAssumption DEF Keys
    <2>3. keys \in [Targets -> SUBSET Keys] /\ durable' = durable
          /\ \A u \in Targets : keys[u] \cap Generated \subseteq durable
      BY DEF IInv, KeyPart, GeneratedIsDurable, Elsewhere
    <2>4. keys' \in [Targets -> SUBSET Keys] /\ \A u \in Targets : keys'[u] = IF u = t THEN s ELSE keys[u]
      BY <2>1, <2>2, <2>3
    <2> QED BY <2>2, <2>3, <2>4 DEF KeyPart, GeneratedIsDurable
  <1> QED BY <1>1, <1>2, StatesKept DEF Elsewhere

---------------------------------------------------------------------------
LEMMA StepKeeps == IInv /\ [Next]_vars => IInv'
  <1> SUFFICES ASSUME IInv, [Next]_vars PROVE IInv'
    OBVIOUS
  <1>1. ASSUME NEW p \in Procs, SaveStep(p) PROVE IInv'
    BY <1>1, LoadKeeps, SubmitKeeps, AdoptKeeps, CommitKeeps, AbandonKeeps DEF SaveStep
  <1>2. ASSUME NEW p \in Procs, CheckStep(p) PROVE IInv'
    BY <1>2, StatusKeeps, AuthenticateKeeps, RegisterKeeps DEF CheckStep
  <1>3. ASSUME NEW p \in Procs, DiscoveryStep(p) PROVE IInv'
    BY <1>3, StartupKeeps, DiscoverKeeps, ProbeKeeps, CreateKeeps, InsertKeeps, GenerateKeeps,
       RefreshKeeps, RecordKeeps DEF DiscoveryStep
  <1>4. CASE UNCHANGED vars
    BY <1>4 DEF vars, IInv, ProcPart, RowPart, KeyPart, RestPart, LockPart, GeneratedIsDurable
  <1> QED BY <1>1, <1>2, <1>3, <1>4, FixKeeps, DeleteKeeps, ResetKeeps, ReaddressKeeps,
             ElsewhereKeeps DEF Next

LEMMA Invariance == Spec => []IInv
  BY InitHolds, StepKeeps, PTL DEF Spec

(* Every variable keeps its type, whatever saves, discoveries, commands,   *)
(* deletions, recoveries and changes elsewhere interleave.                 *)
THEOREM TypeCorrect == Spec => []TypeOK
  BY Invariance, PartsGive, PTL

(* A row that backend_key_runtime_is_trusted accepts has a key its backend *)
(* was seen to accept, at exactly the target the row names now.            *)
THEOREM TrustProven == Spec => []TrustedIsProven
  BY Invariance, PartsGive, PTL

(* A generated key that some backend accepts was committed here first.     *)
THEOREM GeneratedDurable == Spec => []GeneratedIsDurable
  BY Invariance, PartsGive, PTL

(* Startup processes never leave two rows of discovery's own.              *)
THEOREM DiscoveredOnce == Spec => []OneDiscoveredRow
  BY Invariance, PartsGive, PTL

---------------------------------------------------------------------------
(* What NoLostUpdate says of one step.                                     *)
ReplacesWhatItRead ==
    \A pk \in Existing :
        row'[pk] \notin {row[pk], NoRow, Recovered(row[pk])} =>
            \E p \in Procs : proc'[p] # proc[p] /\ proc[p].pk = pk /\ proc[p].old = row[pk]

(* Process p changes row k, which it had read.                             *)
LEMMA ReadBefore ==
  ASSUME IInv, NEW p \in Procs, NEW q, NEW r, proc' = [proc EXCEPT ![p] = q],
         q.pc # proc[p].pc, row' = [row EXCEPT ![proc[p].pk] = r],
         proc[p].pk \in Existing => row[proc[p].pk] = proc[p].old
  PROVE  ReplacesWhatItRead
  <1>1. proc'[p] # proc[p]
    BY DEF IInv, ProcPart
  <1>2. \A pk \in Existing : pk # proc[p].pk => row'[pk] = row[pk]
    BY DEF IInv, RowPart, Existing
  <1> QED BY <1>1, <1>2 DEF ReplacesWhatItRead

LEMMA RowsSame == row' = row => ReplacesWhatItRead
  BY DEF ReplacesWhatItRead

LEMMA StepReplaces == IInv /\ [Next]_vars => [ReplacesWhatItRead]_vars
  <1> SUFFICES ASSUME IInv, [Next]_vars PROVE ReplacesWhatItRead \/ UNCHANGED vars
    OBVIOUS
  <1>p. Idle.pc = "idle" /\ [Idle EXCEPT !.pc = "discover"].pc = "discover"
    BY DEF Idle
  <1>1. ASSUME NEW p \in Procs, Commit(p) PROVE ReplacesWhatItRead
    <2> DEFINE o == proc[p]
    <2>1. o.pc = "write" /\ InSave(o)
      BY <1>1, WriteFacts DEF Commit
    <2>2. CASE o.ins /\ (row[o.pk] # NoRow \/ o.proof # Null)
      BY <1>1, <2>2, RowsSame DEF Commit
    <2>3. CASE ~(o.ins /\ (row[o.pk] # NoRow \/ o.proof # Null))
      <3>1. o.pk \in Existing => row[o.pk] = o.old
        BY <2>1, <2>3 DEF IInv, LockPart, Holds, Existing
      <3>2. /\ row' = [row EXCEPT ![o.pk] = o.new]
            /\ \/ proc' = [proc EXCEPT ![p] = Idle]
               \/ proc' = [proc EXCEPT ![p] = [Idle EXCEPT !.pc = "discover"]]
        BY <1>1, <2>3 DEF Commit, Set
      <3> QED BY <1>p, <2>1, <3>1, <3>2, ReadBefore
    <2> QED BY <2>2, <2>3
  <1>2. ASSUME NEW p \in Procs, Insert(p) PROVE ReplacesWhatItRead
    <2>1. proc[p].pc = "insert" /\ row[proc[p].pk] = NoRow
      BY <1>2 DEF Insert, IInv, LockPart
    <2> QED BY <1>2, <1>p, <2>1, ReadBefore DEF Insert, Set, Existing
  <1>3. ASSUME NEW p \in Procs, Generate(p) PROVE ReplacesWhatItRead
    <2>1. CASE /\ Unchanged(p) /\ row' = [row EXCEPT ![proc[p].pk].key = generated + 1]
               /\ Set(p, [proc[p] EXCEPT !.pc = "refresh"])
      <3>1. [proc[p] EXCEPT !.pc = "refresh"].pc = "refresh" /\ proc[p].pc = "generate"
        BY <1>3 DEF Generate, IInv, ProcPart, Processes
      <3>2. /\ row' = [row EXCEPT ![proc[p].pk] = [row[proc[p].pk] EXCEPT !.key = generated + 1]]
            /\ proc' = [proc EXCEPT ![p] = [proc[p] EXCEPT !.pc = "refresh"]]
        BY <2>1 DEF Set
      <3> QED BY <2>1, <3>1, <3>2, ReadBefore DEF Unchanged
    <2>2. CASE row' = row
      BY <2>2, RowsSame
    <2> QED BY <1>3, <2>1, <2>2 DEF Generate
  <1>4. ASSUME NEW p \in Procs, Record(p) PROVE ReplacesWhatItRead
    <2>1. CASE Unchanged(p)
      <3>1. /\ row' = [row EXCEPT ![proc[p].pk] = [row[proc[p].pk] EXCEPT !.fp = proc[p].to]]
            /\ proc' = [proc EXCEPT ![p] = Idle] /\ proc[p].pc = "record"
        BY <1>4, <2>1 DEF Record, Leave, Set
      <3> QED BY <1>p, <2>1, <3>1, ReadBefore DEF Unchanged
    <2>2. CASE ~Unchanged(p)
      BY <1>4, <2>2, RowsSame DEF Record
    <2> QED BY <2>1, <2>2
  <1>5. ASSUME NEW pk \in Pks, Delete(pk) PROVE ReplacesWhatItRead
    BY <1>5 DEF Delete, ReplacesWhatItRead, Existing, IInv, RowPart
  <1>6. ASSUME NEW pk \in Pks, Reset(pk) PROVE ReplacesWhatItRead
    BY <1>6 DEF Reset, ReplacesWhatItRead, Existing, IInv, RowPart
  <1>7. ASSUME NEW p \in Procs,
               \/ Load(p) \/ Submit(p) \/ Adopt(p) \/ Abandon(p) \/ Status(p) \/ Authenticate(p)
               \/ Register(p) \/ Startup(p) \/ Discover(p) \/ Probe(p) \/ Create(p) \/ Refresh(p)
               \/ Fix(p)
        PROVE  ReplacesWhatItRead
    BY <1>7, RowsSame DEF Load, Submit, Adopt, Abandon, Status, Authenticate, Register, Startup,
                          Discover, Probe, Create, Refresh, Fix
  <1>8. ASSUME Readdress \/ \E t \in Targets : Elsewhere(t) PROVE ReplacesWhatItRead
    BY <1>8, RowsSame DEF Readdress, Elsewhere
  <1> QED BY <1>1, <1>2, <1>3, <1>4, <1>5, <1>6, <1>7, <1>8
          DEF Next, SaveStep, CheckStep, DiscoveryStep

(* A stored key, fingerprint or target is replaced only by a process that  *)
(* had read exactly what it replaces: the row lock of a save with its      *)
(* optimistic signature, and discovery's conditional updates.              *)
THEOREM UpdatesKept == Spec => NoLostUpdate
  <1>1. IInv /\ [Next]_vars => [ReplacesWhatItRead]_vars
    BY StepReplaces
  <1>2. Spec => [][ReplacesWhatItRead]_vars
    BY <1>1, Invariance, PTL DEF Spec
  <1> QED BY <1>2 DEF NoLostUpdate, ReplacesWhatItRead
====
