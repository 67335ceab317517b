------------------------ MODULE WebSocketClientProof ------------------------
(***************************************************************************)
(* For any number of endpoints, keys, buttons, tasks, web threads, POSTs,  *)
(* connections and frames: a command is run at most once and only where it *)
(* was authorised, a run keeps its button, a cursor separates two runs,    *)
(* and a connection that rejected a run id is never sent one again.        *)
(***************************************************************************)
EXTENDS WebSocketClient, TLAPS

---------------------------------------------------------------------------
(* Sequences, as the queue and the inboxes use them.                       *)
Items(s) == {s[i] : i \in 1..Len(s)}
Distinct(s) == \A i, j \in 1..Len(s) : s[i] = s[j] => i = j

LEMMA AppendItems ==
    ASSUME NEW S, NEW s \in Seq(S), NEW x \in S
    PROVE  /\ Append(s, x) \in Seq(S) /\ Len(Append(s, x)) = Len(s) + 1
           /\ Items(Append(s, x)) = Items(s) \cup {x}
           /\ Distinct(s) /\ x \notin Items(s) => Distinct(Append(s, x))
<1>1. /\ Append(s, x) \in Seq(S) /\ Len(Append(s, x)) = Len(s) + 1 /\ Len(s) \in Nat
      /\ \A i \in 1..Len(s) : Append(s, x)[i] = s[i]
      /\ Append(s, x)[Len(s) + 1] = x
  OBVIOUS
<1>2. Items(Append(s, x)) = Items(s) \cup {x}
  BY <1>1 DEF Items
<1>3. Distinct(s) /\ x \notin Items(s) => Distinct(Append(s, x))
  <2>1. ASSUME Distinct(s), x \notin Items(s),
               NEW i \in 1..(Len(s) + 1), NEW j \in 1..(Len(s) + 1),
               Append(s, x)[i] = Append(s, x)[j]
        PROVE  i = j
    <3>1. \A m \in 1..(Len(s) + 1) : m \in 1..Len(s) \/ m = Len(s) + 1
      BY <1>1
    <3>2. \A m \in 1..Len(s) : s[m] # x
      BY <2>1 DEF Items
    <3> QED
      BY <1>1, <2>1, <3>1, <3>2 DEF Distinct
  <2> QED
    BY <1>1, <2>1 DEF Distinct
<1> QED
  BY <1>1, <1>2, <1>3

LEMMA TailItems ==
    ASSUME NEW S, NEW s \in Seq(S), s # <<>>
    PROVE  /\ Head(s) \in S /\ Head(s) \in Items(s)
           /\ Tail(s) \in Seq(S) /\ Len(Tail(s)) <= Len(s)
           /\ Items(Tail(s)) \subseteq Items(s)
           /\ Distinct(s) => Distinct(Tail(s)) /\ Head(s) \notin Items(Tail(s))
<1>1. /\ Len(s) \in Nat \ {0} /\ Head(s) = s[1] /\ s[1] \in S
      /\ Tail(s) \in Seq(S) /\ Len(Tail(s)) = Len(s) - 1
      /\ \A i \in 1..(Len(s) - 1) : Tail(s)[i] = s[i + 1]
  OBVIOUS
<1>2. \A i \in 1..(Len(s) - 1) : i + 1 \in 1..Len(s) /\ i + 1 # 1
  BY <1>1
<1>3. Head(s) \in Items(s)
  BY <1>1 DEF Items
<1>4. Items(Tail(s)) \subseteq Items(s)
  BY <1>1, <1>2 DEF Items
<1>5. ASSUME Distinct(s) PROVE Distinct(Tail(s)) /\ Head(s) \notin Items(Tail(s))
  <2>1. ASSUME NEW i \in 1..(Len(s) - 1), NEW j \in 1..(Len(s) - 1), s[i + 1] = s[j + 1]
        PROVE  i = j
    <3>1. i + 1 = j + 1
      BY <1>2, <1>5, <2>1 DEF Distinct
    <3> QED
      BY <1>1, <3>1
  <2>2. Distinct(Tail(s))
    BY <1>1, <2>1 DEF Distinct
  <2>3. ASSUME NEW i \in 1..(Len(s) - 1) PROVE s[i + 1] # s[1]
    BY <1>1, <1>2, <1>5 DEF Distinct
  <2>4. Head(s) \notin Items(Tail(s))
    BY <1>1, <2>3 DEF Items
  <2> QED
    BY <2>2, <2>4
<1> QED
  BY <1>1, <1>3, <1>4, <1>5

LEMMA EmptyItems == Items(<<>>) = {} /\ Distinct(<<>>) /\ \A S : <<>> \in Seq(S)
<1>1. Len(<<>>) = 0 /\ \A S : <<>> \in Seq(S)
  OBVIOUS
<1> QED
  BY <1>1 DEF Items, Distinct

---------------------------------------------------------------------------
(* The inductive invariant.                                                *)
TaskRecord == [pc : TaskSteps, id : Idents \cup {None}, cancel : {"no", "asked", "due"},
               conn : Conns \cup {0}, peer : {"modern", "legacy", None},
               hand : Runs \cup {0}, supports : BOOLEAN, pending : Runs \cup {0}]
UserRecord == [pc : {"idle", "load", "start", "context", "probe", "queue"}, kind : Kinds \cup {None},
               id : (Endpoints \X (Keys \cup {"bare"})) \cup {None},
               conn : (Idents \X Conns) \cup {None}, tag : BOOLEAN]
Frames == [type : {"text", "reject", "progress", "end", "malformed"},
           object : {"device", "virtual_machine", "full-update", None},
           run : Runs \cup {0, Foreign}]
RunRecord == [kind : Kinds \cup {None}, id : Idents \cup {None}, tagged : BOOLEAN,
              cursor : SUBSET Runs, sent : {0, 1}, to : SUBSET Idents,
              ended : BOOLEAN, excused : BOOLEAN]
BackendRun == [run : Runs, conn : Conns, id : Runs \cup {0}]

(* What the web threads and the operator write.                            *)
WebTyped ==
    /\ db \in [Endpoints -> Keys \cup {"off", "bare"}]
    /\ worker \in Tasks \cup {None} /\ workerId \in Idents \cup {None}
    /\ user \in [Users -> UserRecord]
    /\ quiet \in BOOLEAN
    /\ \A u \in Users :
           /\ user[u].pc \in {"load", "start"} => user[u].id \in Endpoints \X (Keys \cup {"bare"})
           /\ user[u].pc \in {"context", "probe", "queue"} =>
                 user[u].kind \in Kinds \ {None} /\ user[u].id \in Idents

(* What the tasks and the backend write.                                   *)
LinkTyped ==
    /\ task \in [Tasks -> TaskRecord]
    /\ conns \in 0..MaxConns
    /\ connection \in (Idents \X Conns) \cup {None}
    /\ cap \in {"none", "yes", "no", "rejected"}
    /\ inbox \in [Tasks -> Seq(Frames)]
    /\ refused \subseteq Conns

(* Commands: a run is known up to the last POST accepted.                  *)
RunsTyped ==
    /\ queue \in Seq(Runs) /\ Len(queue) <= MaxQueue
    /\ button \in [Kinds -> Runs \cup {0}] /\ tagged \in [Kinds -> BOOLEAN]
    /\ running \subseteq BackendRun
    /\ accepted \in 0..MaxRuns
    /\ runs \in [Runs -> RunRecord]
    /\ \A n \in Runs :
           IF n <= accepted THEN runs[n].kind \in Kinds \ {None} /\ runs[n].id \in Idents
                            ELSE runs[n] = NoRun
    /\ \A n \in Queued : n <= accepted

(* What a task carries at each of its awaits: the command in hand, and the *)
(* envelope it has an answer to come for, both bound to its identity.      *)
Carried(t) == {t.hand, t.pending} \ {0}

Fit(t, last, rs) ==
    /\ t.pc # "none" => t.id # None
    /\ t.conn # 0 <=> t.pc \notin {"none", "connect"}
    /\ t.pc \in {"ask", "trust", "send", "resend"} => t.hand # 0
    /\ t.pc \in {"none", "connect", "relay", "take", "rejected"} => t.hand = 0
    /\ t.pc \in {"none", "connect", "take", "ask", "trust", "resend"} => t.pending = 0
    /\ t.pc = "send" => t.pending \in {0, t.hand}
    /\ t.pc = "rejected" => t.pending # 0 /\ t.peer = "legacy"
    /\ \A n \in Carried(t) : n <= last
    /\ t.pc \in {"ask", "send", "resend"} => rs[t.hand].id = t.id
    /\ t.pc = "ask" \/ (t.pc = "trust" /\ t.supports) =>
           rs[t.hand].id = t.id /\ rs[t.hand].tagged
    /\ t.pending # 0 => rs[t.pending].id = t.id /\ rs[t.pending].tagged

Shapes ==
    \A w \in Tasks : /\ Fit(task[w], accepted, runs)
                     /\ task[w].conn = 0 => inbox[w] = <<>>

(* A command is in one place: in the queue once, or with one task.         *)
Places ==
    /\ \A v, w \in Tasks : v # w => Carried(task[v]) \cap Carried(task[w]) = {}
    /\ \A w \in Tasks : Carried(task[w]) \cap Items(queue) = {}
    /\ Distinct(queue)

(* Nobody runs it before it is sent: not while it is in the queue or in    *)
(* hand, and not while a rejection of its envelope may come.               *)
Open(t) == {t.hand} \cup {n \in {t.pending} : t.peer = "legacy"}

Unsent ==
    /\ \A n \in Items(queue) : runs[n].sent = 0
    /\ \A w \in Tasks : \A n \in Open(task[w]) \ {0} : runs[n].sent = 0
    /\ \A r \in running : runs[r.run].sent = 1
    /\ \A r, q \in running : r.run = q.run => r = q
    /\ \A r \in running : r.id # 0 => r.id = r.run /\ runs[r.run].tagged
    /\ \A n \in Runs : runs[n].to \subseteq {runs[n].id}

(* A rejection comes only from a peer that runs no envelope, and only the  *)
(* terminal of a run that is over, or of a stage, is under way.            *)
Genuine(f, peer, rs, active) ==
    /\ f.type = "text" \/ (f.type = "reject" /\ f.run \in Runs) => peer = "legacy"
    /\ f.type = "end" /\ f.run \in Runs =>
          /\ rs[f.run].sent = 1
          /\ \/ rs[f.run].kind = "full-update" /\ f.object # "full-update"
             \/ \A r \in active : r.run # f.run

Delivered == \A w \in Tasks : \A f \in Items(inbox[w]) : Genuine(f, task[w].peer, runs, running)

(* A tagged command that is on its way or running owns its button, unless  *)
(* the idle timeout or a loss of trust took it.                            *)
Claim(n) == Owns(n) \/ runs[n].excused

Guard(t) ==
    {n \in {t.hand} : t.pc \in {"ask", "trust"} \/ (t.pc = "send" /\ t.pending = t.hand)}

Guarded(n) ==
    \/ n \in Items(queue)
    \/ \E w \in Tasks : n \in Guard(task[w])
    \/ \E r \in running : r.run = n /\ r.id # 0

Claims == \A n \in Runs : Guarded(n) /\ runs[n].tagged => Claim(n)

(* Connections are numbered; the registered one is its task's; once it has *)
(* refused a run id the cache says so and no envelope is on its way there. *)
Enveloping(t) ==
    \/ t.pc = "trust" /\ t.supports
    \/ t.pc = "send" /\ t.pending = t.hand

Sessions ==
    /\ \A w \in Tasks : task[w].conn <= conns
    /\ \A v, w \in Tasks : v # w /\ task[v].conn = task[w].conn => task[w].conn = 0
    /\ \A c \in refused : c <= conns
    /\ connection # None =>
          /\ connection[2] <= conns
          /\ \A w \in Tasks : task[w].conn = connection[2] => connection[1] = task[w].id
          /\ connection[2] \in refused => cap = "rejected"
    /\ \A w \in Tasks : Enveloping(task[w]) => task[w].conn \notin refused

(* Only the newest run is latched, and cursors count what has ended.       *)
Newest ==
    /\ \A k \in Kinds : /\ button[k] \in {0, accepted}
                        /\ button[k] # 0 => runs[button[k]].kind = k
    /\ \A n \in Runs : /\ \A m \in runs[n].cursor : m < n
                       /\ runs[n].ended => n <= accepted
    /\ \A n, m \in Runs : runs[n].ended /\ n < m /\ m <= accepted => n \in runs[m].cursor

Inv == WebTyped /\ LinkTyped /\ RunsTyped /\ Shapes /\ Places /\ Unsent /\ Delivered
          /\ Claims /\ Sessions /\ Newest

---------------------------------------------------------------------------
(* The invariant gives the properties.                                     *)
LEMMA QueuedItems == Queued = Items(queue)
BY DEF Queued, Items

LEMMA InvTypeOK == Inv => TypeOK
<1> SUFFICES ASSUME Inv PROVE TypeOK
  OBVIOUS
<1> USE DEF Inv
<1>1. /\ db \in [Endpoints -> Keys \cup {"off", "bare"}]
      /\ worker \in Tasks \cup {None} /\ workerId \in Idents \cup {None}
      /\ connection \in (Idents \X Conns) \cup {None}
      /\ cap \in {"none", "yes", "no", "rejected"}
      /\ queue \in Seq(Runs) /\ Len(queue) <= MaxQueue
      /\ button \in [Kinds -> Runs \cup {0}] /\ tagged \in [Kinds -> BOOLEAN]
      /\ quiet \in BOOLEAN
      /\ task \in [Tasks -> TaskRecord] /\ user \in [Users -> UserRecord]
  BY DEF WebTyped, LinkTyped, RunsTyped
<1>2. \A n \in Runs : n <= accepted => runs[n] # NoRun
  BY DEF RunsTyped, NoRun
<1>3. ASSUME NEW w \in Tasks
      PROVE  /\ task[w].pc # "none" => task[w].id # None
             /\ task[w].conn # 0 <=> task[w].pc \notin {"none", "connect"}
             /\ task[w].pc \in {"ask", "trust", "send", "resend"} => task[w].hand # 0
             /\ task[w].pc = "rejected" => task[w].pending # 0
             /\ \A n \in {task[w].hand, task[w].pending} \ {0} : runs[n] # NoRun
  <2>1. Fit(task[w], accepted, runs) /\ task[w] \in TaskRecord
    BY <1>1 DEF Shapes
  <2>2. task[w].hand \in Runs \cup {0} /\ task[w].pending \in Runs \cup {0}
    BY <2>1 DEF TaskRecord
  <2> QED
    BY <1>2, <2>1, <2>2 DEF Fit, Carried
<1>4. \A n \in Queued : runs[n] # NoRun
  <2>1. \A n \in Queued : n \in Runs
    BY <1>1 DEF Queued
  <2> QED
    BY <1>2, <2>1 DEF RunsTyped
<1>5. \A k \in Kinds : button[k] # 0 => runs[button[k]].kind = k
  BY DEF Newest
<1> HIDE DEF Inv
<1> QED
  BY <1>1, <1>3, <1>4, <1>5 DEF TypeOK, TaskRecord, UserRecord

LEMMA InvSentOnce == Inv => SentOnceToAuthorised
BY DEF Inv, RunsTyped, RunRecord, Unsent, SentOnceToAuthorised

LEMMA InvLatched == Inv => RunningIsLatched
<1> SUFFICES ASSUME Inv, NEW r \in running, r.id # 0
             PROVE  button[runs[r.run].kind] = r.run \/ runs[r.run].excused
  BY DEF RunningIsLatched
<1>1. r.run \in Runs
  BY DEF Inv, RunsTyped, BackendRun
<1>2. Guarded(r.run) /\ runs[r.run].tagged
  BY DEF Inv, Unsent, Guarded
<1> QED
  BY <1>1, <1>2 DEF Inv, Claims, Claim, Owns

LEMMA InvCursor == Inv => CursorSeparatesRuns
<1> SUFFICES ASSUME Inv, NEW n \in Runs, runs[n].ended, NEW m \in Runs
             PROVE  /\ n \notin runs[n].cursor
                    /\ m > n /\ runs[m] # NoRun => n \in runs[m].cursor
  BY DEF CursorSeparatesRuns, Ended
<1>1. n \notin runs[n].cursor
  <2>1. n \in runs[n].cursor => n < n
    BY DEF Inv, Newest
  <2>2. ~(n < n)
    BY DEF Runs
  <2> QED
    BY <2>1, <2>2
<1>2. ASSUME m > n, runs[m] # NoRun PROVE n \in runs[m].cursor
  <2>1. m <= accepted
    BY <1>2 DEF Inv, RunsTyped
  <2>2. n < m
    BY <1>2
  <2> QED
    BY <2>1, <2>2 DEF Inv, Newest
<1> QED
  BY <1>1, <1>2

LEMMA InvRefused == Inv => RefusedStaysLegacy
BY DEF Inv, Sessions, Enveloping, RefusedStaysLegacy

---------------------------------------------------------------------------
(* How each part survives a step that changes little of what it reads.     *)

(* Two tasks that differ at most in how far a cancellation has come.       *)
Alike(s, t) ==
    /\ s.pc = t.pc /\ s.id = t.id /\ s.conn = t.conn /\ s.peer = t.peer
    /\ s.hand = t.hand /\ s.supports = t.supports /\ s.pending = t.pending

LEMMA AlikeReads ==
    ASSUME NEW s, NEW t, Alike(s, t)
    PROVE  /\ Carried(s) = Carried(t) /\ Open(s) = Open(t) /\ Guard(s) = Guard(t)
           /\ Enveloping(s) <=> Enveloping(t)
BY DEF Alike, Carried, Open, Guard, Enveloping

(* A step of one task.                                                     *)
Others(w) == \A v \in Tasks \ {w} : task'[v] = task[v]

LEMMA SetTask ==
    ASSUME task \in [Tasks -> TaskRecord], NEW w \in Tasks, NEW t \in TaskRecord, Set(w, t)
    PROVE  task' \in [Tasks -> TaskRecord] /\ Others(w) /\ Alike(task'[w], t)
<1> DEFINE s == [t EXCEPT !.cancel = IF @ = "asked" THEN "due" ELSE @]
<1>1. s \in TaskRecord /\ Alike(s, t)
  BY DEF TaskRecord, Alike
<1>2. task' = [task EXCEPT ![w] = s]
  BY DEF Set
<1> HIDE DEF s
<1> QED
  BY <1>1, <1>2 DEF Others

(* What every step keeps of the runs there were.                           *)
RunsKept ==
    /\ accepted <= accepted'
    /\ \A n \in Runs : n <= accepted =>
          /\ runs'[n].kind = runs[n].kind /\ runs'[n].id = runs[n].id
          /\ runs'[n].tagged = runs[n].tagged

LEMMA FitKept ==
    ASSUME RunsTyped, accepted' \in 0..MaxRuns, RunsKept,
           NEW s \in TaskRecord, NEW t, Alike(t, s), Fit(s, accepted, runs)
    PROVE  Fit(t, accepted', runs')
<1>1. t.hand \in Runs \cup {0} /\ t.pending \in Runs \cup {0}
  BY DEF Alike, TaskRecord
<1>2. \A n \in Carried(t) : n <= accepted
  BY DEF Fit, Alike, Carried
<1>3. \A n \in Carried(t) : n <= accepted'
  <2> SUFFICES ASSUME NEW n \in Carried(t) PROVE n <= accepted'
    OBVIOUS
  <2>1. n \in Runs /\ n <= accepted
    BY <1>1, <1>2 DEF Carried
  <2> QED
    BY <2>1 DEF RunsTyped, RunsKept, Runs
<1>4. \A n \in Carried(t) : runs'[n].id = runs[n].id /\ runs'[n].tagged = runs[n].tagged
  BY <1>1, <1>2 DEF Carried, RunsKept
<1>5. /\ t.hand # 0 => t.hand \in Carried(t)
      /\ t.pending # 0 => t.pending \in Carried(t)
  BY DEF Carried
<1> QED
  BY <1>3, <1>4, <1>5 DEF Fit, Alike, Carried

LEMMA InRuns ==
    ASSUME LinkTyped, RunsTyped
    PROVE  /\ Items(queue) \subseteq Runs
           /\ \A w \in Tasks : /\ Carried(task[w]) \subseteq Runs
                               /\ Open(task[w]) \ {0} \subseteq Runs
                               /\ task[w] \in TaskRecord
           /\ \A r \in running : r.run \in Runs /\ r.conn \in Conns /\ r.id \in Runs \cup {0}
           /\ 0 \notin Runs /\ 0 \notin Conns
<1>1. Items(queue) \subseteq Runs
  BY DEF RunsTyped, Items
<1>2. \A w \in Tasks : task[w] \in TaskRecord
  BY DEF LinkTyped
<1>3. \A r \in running : r.run \in Runs /\ r.conn \in Conns /\ r.id \in Runs \cup {0}
  BY DEF RunsTyped, BackendRun
<1>4. 0 \notin Runs /\ 0 \notin Conns
  BY DEF Runs, Conns
<1> QED
  BY <1>1, <1>2, <1>3, <1>4 DEF Carried, Open, TaskRecord

LEMMA ShapesKept ==
    ASSUME LinkTyped, RunsTyped, Shapes, accepted' \in 0..MaxRuns, RunsKept,
           \A v \in Tasks : /\ Alike(task'[v], task[v]) \/ Fit(task'[v], accepted', runs')
                            /\ task'[v].conn = 0 => inbox'[v] = <<>>
    PROVE  Shapes'
<1>1. ASSUME NEW v \in Tasks PROVE Fit(task'[v], accepted', runs')
  <2>1. task[v] \in TaskRecord /\ Fit(task[v], accepted, runs)
    BY InRuns DEF Shapes
  <2>2. CASE Alike(task'[v], task[v])
    BY <2>1, <2>2, FitKept
  <2> QED
    BY <2>2
<1> QED
  BY <1>1 DEF Shapes

(* The queue stays or is emptied.                                          *)
LEMMA QueueKept ==
    ASSUME queue' \in {queue, <<>>}
    PROVE  Items(queue') \subseteq Items(queue) /\ (Distinct(queue) => Distinct(queue'))
BY EmptyItems

LEMMA PlacesKept ==
    ASSUME Places, Items(queue') \subseteq Items(queue), Distinct(queue'),
           \A v \in Tasks : Carried(task'[v]) \subseteq Carried(task[v])
    PROVE  Places'
<1>1. \A v, w \in Tasks : v # w => Carried(task'[v]) \cap Carried(task'[w]) = {}
  BY DEF Places
<1>2. \A w \in Tasks : Carried(task'[w]) \cap Items(queue') = {}
  BY DEF Places
<1> QED
  BY <1>1, <1>2 DEF Places

(* The fields of a run that only a POST or a send sets.                    *)
SentKept ==
    \A n \in Runs : /\ runs'[n].kind = runs[n].kind /\ runs'[n].id = runs[n].id
                    /\ runs'[n].tagged = runs[n].tagged /\ runs'[n].sent = runs[n].sent
                    /\ runs'[n].to = runs[n].to /\ runs'[n].cursor = runs[n].cursor

LEMMA UnsentKept ==
    ASSUME LinkTyped, RunsTyped, Unsent, Items(queue') \subseteq Items(queue), SentKept,
           \A v \in Tasks : Open(task'[v]) \ {0} \subseteq Open(task[v]) \cup Items(queue),
           running' \subseteq running
    PROVE  Unsent'
<1>0. /\ Items(queue) \subseteq Runs
      /\ \A w \in Tasks : Open(task[w]) \ {0} \subseteq Runs
      /\ \A r \in running : r.run \in Runs
  BY InRuns
<1>1. \A n \in Items(queue') : runs'[n].sent = 0
  BY <1>0 DEF Unsent, SentKept
<1>2. \A w \in Tasks : \A n \in Open(task'[w]) \ {0} : runs'[n].sent = 0
  BY <1>0 DEF Unsent, SentKept
<1>3. /\ \A r \in running' : runs'[r.run].sent = 1
      /\ \A r, q \in running' : r.run = q.run => r = q
      /\ \A r \in running' : r.id # 0 => r.id = r.run /\ runs'[r.run].tagged
  BY <1>0 DEF Unsent, SentKept
<1>4. \A n \in Runs : runs'[n].to \subseteq {runs'[n].id}
  BY DEF Unsent, SentKept
<1> QED
  BY <1>1, <1>2, <1>3, <1>4 DEF Unsent

LEMMA DeliveredKept ==
    ASSUME SentKept,
           \A v \in Tasks : \A f \in Items(inbox'[v]) :
               Genuine(f, task'[v].peer, runs, running')
    PROVE  Delivered'
<1> SUFFICES ASSUME NEW v \in Tasks, NEW f \in Items(inbox'[v])
             PROVE  Genuine(f, task'[v].peer, runs', running')
  BY DEF Delivered
<1>1. Genuine(f, task'[v].peer, runs, running')
  OBVIOUS
<1> QED
  BY <1>1 DEF Genuine, SentKept

LEMMA GuardedKept ==
    ASSUME running' \subseteq running, Items(queue') \subseteq Items(queue),
           \A v \in Tasks : Guard(task'[v]) \subseteq Guard(task[v]) \cup Items(queue)
    PROVE  \A n \in Runs : Guarded(n)' => Guarded(n)
BY DEF Guarded

LEMMA ClaimsKept ==
    ASSUME Claims,
           \A n \in Runs : runs'[n].tagged = runs[n].tagged,
           \A n \in Runs : Guarded(n)' => Guarded(n),
           \A n \in Runs : Guarded(n)' /\ Guarded(n) /\ runs[n].tagged /\ Claim(n) => Claim(n)'
    PROVE  Claims'
<1> SUFFICES ASSUME NEW n \in Runs, Guarded(n)', runs'[n].tagged PROVE Claim(n)'
  BY DEF Claims
<1>1. Guarded(n) /\ runs[n].tagged
  OBVIOUS
<1> QED
  BY <1>1 DEF Claims

(* Unchanged buttons.                                                      *)
LEMMA ClaimSame ==
    ASSUME button' = button, tagged' = tagged, runs' = runs, NEW n, Claim(n)
    PROVE  Claim(n)'
BY DEF Claim, Owns

LEMMA SessionsKept ==
    ASSUME LinkTyped, Sessions, conns' = conns, refused' = refused,
           connection' \in {connection, None},
           connection' = connection /\ cap = "rejected" => cap' = "rejected",
           \A v \in Tasks : \/ task'[v].conn = 0
                            \/ task'[v].conn = task[v].conn /\ task'[v].id = task[v].id,
           \A v \in Tasks : Enveloping(task'[v]) => task'[v].conn \notin refused
    PROVE  Sessions'
<1>0. conns \in Nat /\ 0 <= conns
  BY DEF LinkTyped
<1>1. \A w \in Tasks : task'[w].conn <= conns'
  BY <1>0 DEF Sessions
<1>2. \A v, w \in Tasks : v # w /\ task'[v].conn = task'[w].conn => task'[w].conn = 0
  BY DEF Sessions
<1>3. \A c \in refused' : c <= conns'
  BY DEF Sessions
<1>4. ASSUME connection' # None
      PROVE  /\ connection'[2] <= conns'
             /\ \A w \in Tasks : task'[w].conn = connection'[2] => connection'[1] = task'[w].id
             /\ connection'[2] \in refused' => cap' = "rejected"
  <2>1. connection' = connection /\ connection[2] \in Conns /\ connection[2] # 0
    BY <1>4 DEF LinkTyped, Conns
  <2> QED
    BY <1>4, <2>1 DEF Sessions
<1> QED
  BY <1>1, <1>2, <1>3, <1>4 DEF Sessions

LEMMA NewestKept ==
    ASSUME RunsTyped, Newest, SentKept, accepted' = accepted,
           \A k \in Kinds : button'[k] \in {0, button[k]},
           \A n \in Runs : runs'[n].ended = runs[n].ended
    PROVE  Newest'
<1>1. \A k \in Kinds : /\ button'[k] \in {0, accepted}
                       /\ button'[k] # 0 => runs'[button'[k]].kind = k
  BY DEF Newest, SentKept, RunsTyped
<1>2. \A n \in Runs : /\ \A m \in runs'[n].cursor : m < n
                      /\ runs'[n].ended => n <= accepted
  BY DEF Newest, SentKept
<1>3. \A n, m \in Runs : runs'[n].ended /\ n < m /\ m <= accepted => n \in runs'[m].cursor
  BY DEF Newest, SentKept
<1> QED
  BY <1>1, <1>2, <1>3 DEF Newest

(* A task that goes on without sending or taking anything.                 *)
Aside == <<db, worker, workerId, queue, button, tagged, quiet, user, running, accepted,
           conns, runs, refused>>

LEMMA TaskMoves ==
    ASSUME Inv, NEW w \in Tasks, NEW t \in TaskRecord, Set(w, t), UNCHANGED Aside,
           Fit(t, accepted, runs),
           Carried(t) \subseteq Carried(task[w]), Open(t) \ {0} \subseteq Open(task[w]),
           Guard(t) \subseteq Guard(task[w]), Enveloping(t) => t.conn \notin refused,
           \/ t.conn = 0 /\ inbox' = [inbox EXCEPT ![w] = <<>>]
           \/ /\ t.conn = task[w].conn /\ t.id = task[w].id /\ t.peer = task[w].peer
              /\ inbox' = inbox,
           connection' \in {connection, None}, cap' \in {"none", "yes", "no", "rejected"},
           connection' = connection /\ cap = "rejected" => cap' = "rejected"
    PROVE  Inv'
<1>0. LinkTyped /\ RunsTyped
  BY DEF Inv
<1>1. task' \in [Tasks -> TaskRecord] /\ Others(w) /\ Alike(task'[w], t)
  BY <1>0, SetTask DEF LinkTyped
<1>2. /\ Carried(task'[w]) = Carried(t) /\ Open(task'[w]) = Open(t)
      /\ Guard(task'[w]) = Guard(t) /\ (Enveloping(task'[w]) <=> Enveloping(t))
      /\ task'[w].conn = t.conn /\ task'[w].id = t.id /\ task'[w].peer = t.peer
  BY <1>1, AlikeReads DEF Alike
<1>3. inbox' \in [Tasks -> Seq(Frames)]
  BY <1>0, EmptyItems DEF LinkTyped
<1>4. \A v \in Tasks \ {w} : inbox'[v] = inbox[v]
  BY <1>0 DEF LinkTyped
<1>5. WebTyped' /\ RunsTyped'
  BY <1>0 DEF Inv, Aside, WebTyped, RunsTyped, Queued
<1>6. LinkTyped'
  BY <1>0, <1>1, <1>3 DEF Aside, LinkTyped
<1>7. SentKept /\ RunsKept /\ accepted' \in 0..MaxRuns
  BY <1>0 DEF Aside, SentKept, RunsKept, RunsTyped
<1>8. Shapes'
  <2>1. Fit(task'[w], accepted', runs')
    BY <1>0, <1>1, <1>7, FitKept
  <2>2. task'[w].conn = 0 => inbox'[w] = <<>>
    BY <1>0, <1>2 DEF Inv, Shapes, LinkTyped
  <2>3. \A v \in Tasks : /\ Alike(task'[v], task[v]) \/ Fit(task'[v], accepted', runs')
                         /\ task'[v].conn = 0 => inbox'[v] = <<>>
    <3> SUFFICES ASSUME NEW v \in Tasks, v # w
                 PROVE  Alike(task'[v], task[v]) /\ (task'[v].conn = 0 => inbox'[v] = <<>>)
      BY <2>1, <2>2
    <3>1. task'[v] = task[v] /\ inbox'[v] = inbox[v]
      BY <1>1, <1>4 DEF Others
    <3> QED
      BY <3>1 DEF Inv, Shapes, Alike
  <2> QED
    BY <1>0, <1>7, <2>3, ShapesKept DEF Inv
<1>9. queue' = queue /\ running' = running /\ button' = button /\ tagged' = tagged
      /\ runs' = runs /\ accepted' = accepted /\ conns' = conns /\ refused' = refused
  BY DEF Aside
<1>10. /\ \A v \in Tasks : Carried(task'[v]) \subseteq Carried(task[v])
       /\ \A v \in Tasks : Open(task'[v]) \ {0} \subseteq Open(task[v])
       /\ \A v \in Tasks : Guard(task'[v]) \subseteq Guard(task[v])
  <2>1. \A v \in Tasks \ {w} : task'[v] = task[v]
    BY <1>1 DEF Others
  <2> QED
    BY <1>2, <2>1
<1>11. Places'
  BY <1>9, <1>10, PlacesKept DEF Inv, Places
<1>12. Unsent'
  BY <1>0, <1>7, <1>9, <1>10, UnsentKept DEF Inv
<1>13. Delivered'
  <2>1. \A v \in Tasks : \/ Items(inbox'[v]) = {}
                         \/ inbox'[v] = inbox[v] /\ task'[v].peer = task[v].peer
    BY <1>0, <1>1, <1>2, <1>4, EmptyItems DEF LinkTyped, Others
  <2>2. \A v \in Tasks : \A f \in Items(inbox'[v]) :
           Genuine(f, task'[v].peer, runs, running')
    BY <1>9, <2>1 DEF Inv, Delivered
  <2> QED
    BY <1>7, <2>2, DeliveredKept
<1>14. Claims'
  <2>1. \A n \in Runs : Guarded(n)' /\ Guarded(n) /\ runs[n].tagged /\ Claim(n) => Claim(n)'
    BY <1>9, ClaimSame
  <2> QED
    BY <1>9, <1>10, <2>1, GuardedKept, ClaimsKept DEF Inv
<1>15. Sessions'
  <2>1. \A v \in Tasks : \/ task'[v].conn = 0
                         \/ task'[v].conn = task[v].conn /\ task'[v].id = task[v].id
    BY <1>1, <1>2 DEF Others
  <2>2. \A v \in Tasks : Enveloping(task'[v]) => task'[v].conn \notin refused
    <3>1. Enveloping(task'[w]) => task'[w].conn \notin refused
      BY <1>2
    <3>2. \A v \in Tasks \ {w} : Enveloping(task'[v]) => task'[v].conn \notin refused
      BY <1>1 DEF Others, Inv, Sessions
    <3> QED
      BY <3>1, <3>2
  <2> QED
    BY <1>0, <1>9, <2>1, <2>2, SessionsKept DEF Inv
<1>16. Newest'
  BY <1>0, <1>7, <1>9, NewestKept DEF Inv
<1> QED
  BY <1>5, <1>6, <1>8, <1>11, <1>12, <1>13, <1>14, <1>15, <1>16 DEF Inv

---------------------------------------------------------------------------
(* The steps of a task.                                                    *)

(* A task without a connection carries nothing.                            *)
Bare(t) == t.pc \in {"none", "connect"} /\ t.conn = 0 /\ t.hand = 0 /\ t.pending = 0

LEMMA BareFits ==
    ASSUME NEW t \in TaskRecord, Bare(t), t.pc # "none" => t.id # None
    PROVE  /\ Fit(t, accepted, runs) /\ Carried(t) = {} /\ Open(t) \ {0} = {}
           /\ Guard(t) = {} /\ ~Enveloping(t)
BY DEF Bare, Fit, Carried, Open, Guard, Enveloping

LEMMA BareNoTask ==
    /\ NoTask \in TaskRecord /\ Bare(NoTask) /\ NoTask.pc = "none"
    /\ \A id \in Idents, c \in {"no", "asked", "due"} :
          LET t == [NoTask EXCEPT !.pc = "connect", !.id = id, !.cancel = c]
          IN  t \in TaskRecord /\ Bare(t) /\ t.id = id
    /\ \A id \in Idents :
          LET t == [NoTask EXCEPT !.pc = "connect", !.id = id]
          IN  t \in TaskRecord /\ Bare(t) /\ t.id = id
BY DEF NoTask, TaskRecord, TaskSteps, Bare

LEMMA IdentsNotNone == \A id \in Idents : id # None
BY ConstantsAssumption

LEMMA TaskIdent ==
    ASSUME Inv, NEW w \in Tasks, task[w].pc # "none"
    PROVE  task[w].id \in Idents
<1>1. task[w] \in TaskRecord /\ Fit(task[w], accepted, runs)
  BY InRuns DEF Inv, Shapes
<1> QED
  BY <1>1 DEF TaskRecord, Fit

LEMMA SessionNotNone ==
    ASSUME Inv, NEW w \in Tasks, task[w].pc \notin {"none", "connect"}
    PROVE  Session(w) # None
<1>1. task[w] \in TaskRecord /\ Fit(task[w], accepted, runs)
  BY InRuns DEF Inv, Shapes
<1>2. task[w].id \in Idents /\ task[w].conn \in Conns
  BY <1>1, TaskIdent DEF Fit, TaskRecord
<1>3. Session(w) \in Idents \X Conns
  BY <1>2 DEF Session
<1> QED
  BY <1>3, ConstantsAssumption

(* The end of a task, and the end of its connection.                       *)
LEMMA EndsInv ==
    ASSUME Inv, NEW w \in Tasks, NEW t \in TaskRecord, Bare(t), t.pc # "none" => t.id # None,
           Set(w, t), UNCHANGED Aside, inbox' = [inbox EXCEPT ![w] = <<>>],
           connection' \in {connection, None}, cap' \in {"none", "yes", "no", "rejected"},
           connection' = connection /\ cap = "rejected" => cap' = "rejected"
    PROVE  Inv'
<1>1. /\ Fit(t, accepted, runs) /\ Carried(t) = {} /\ Open(t) \ {0} = {}
      /\ Guard(t) = {} /\ ~Enveloping(t) /\ t.conn = 0
  BY BareFits DEF Bare
<1> QED
  BY <1>1, TaskMoves

LEMMA NoInbox ==
    ASSUME Inv, NEW w \in Tasks, task[w].conn = 0
    PROVE  inbox = [inbox EXCEPT ![w] = <<>>]
BY DEF Inv, Shapes, LinkTyped

LEMMA ConnectFails_Inv ==
    ASSUME Inv, NEW w \in Tasks, ConnectFails(w)
    PROVE  Inv'
<1>1. task[w].conn = 0
  BY DEF ConnectFails, Inv, Shapes, Fit
<1>2. /\ Set(w, NoTask) /\ UNCHANGED Aside /\ inbox' = inbox /\ connection' = connection
      /\ cap' = cap
  BY DEF ConnectFails, Aside, state, bounds, history
<1>3. cap' \in {"none", "yes", "no", "rejected"}
  BY <1>2 DEF Inv, LinkTyped
<1> QED
  BY <1>1, <1>2, <1>3, NoInbox, BareNoTask, EndsInv

LEMMA Close_Inv ==
    ASSUME Inv, NEW w \in Tasks, Close(w)
    PROVE  Inv'
<1>0. LinkTyped /\ task[w] \in TaskRecord
  BY InRuns DEF Inv
<1>1. /\ UNCHANGED Aside /\ inbox' = [inbox EXCEPT ![w] = <<>>]
  BY DEF Close, Aside, bounds, history
<1>2. /\ connection' \in {connection, None} /\ cap' \in {"none", "yes", "no", "rejected"}
      /\ connection' = connection /\ cap = "rejected" => cap' = "rejected"
  <2>1. Session(w) # None
    BY SessionNotNone DEF Close, Awaiting
  <2> QED
    BY <1>0, <2>1 DEF Close, CloseSession, LinkTyped
<1>3. CASE Set(w, NoTask)
  BY <1>1, <1>2, <1>3, BareNoTask, EndsInv
<1>4. CASE task[w].pc \in Awaiting /\ Set(w, [NoTask EXCEPT !.pc = "connect", !.id = task[w].id,
                                                  !.cancel = task[w].cancel])
  <2>1. task[w].id \in Idents /\ task[w].cancel \in {"no", "asked", "due"}
    BY <1>0, <1>4, TaskIdent DEF Awaiting, TaskRecord
  <2> DEFINE t == [NoTask EXCEPT !.pc = "connect", !.id = task[w].id, !.cancel = task[w].cancel]
  <2>2. t \in TaskRecord /\ Bare(t) /\ t.id # None
    BY <2>1, BareNoTask, IdentsNotNone
  <2>3. Set(w, t)
    BY <1>4
  <2> HIDE DEF t
  <2> QED
    BY <1>1, <1>2, <2>2, <2>3, EndsInv
<1> QED
  BY <1>3, <1>4 DEF Close

(* A task that goes on to another await with what it carries, or less.     *)
LEMMA TrustLost_Inv ==
    ASSUME Inv, NEW w \in Tasks, TrustLost(w)
    PROVE  Inv'
<1>0. LinkTyped /\ task[w] \in TaskRecord /\ Fit(task[w], accepted, runs)
  BY InRuns DEF Inv, Shapes
<1> DEFINE t == [task[w] EXCEPT !.pc = "lost"]
<1>1. /\ t \in TaskRecord /\ t.pc = "lost" /\ t.id = task[w].id /\ t.conn = task[w].conn
      /\ t.peer = task[w].peer /\ t.hand = task[w].hand /\ t.pending = task[w].pending
      /\ t.supports = task[w].supports
  BY <1>0 DEF TaskRecord, TaskSteps
<1>2. /\ Set(w, t) /\ UNCHANGED Aside /\ inbox' = inbox /\ connection' = connection
      /\ cap' = cap /\ task[w].pc \in {"relay", "trust", "rejected"}
  BY DEF TrustLost, Goto, Aside, state, bounds, history
<1>3. cap' \in {"none", "yes", "no", "rejected"}
  BY <1>2 DEF Inv, LinkTyped
<1> HIDE DEF t
<1>4. Fit(t, accepted, runs)
  BY <1>0, <1>1, <1>2 DEF Fit, Carried
<1>5. /\ Carried(t) = Carried(task[w]) /\ Open(t) = Open(task[w]) /\ Guard(t) = {}
      /\ ~Enveloping(t)
  BY <1>1 DEF Carried, Open, Guard, Enveloping
<1> QED
  BY <1>1, <1>2, <1>3, <1>4, <1>5, TaskMoves

LEMMA Recheck_Inv ==
    ASSUME Inv, NEW w \in Tasks, Recheck(w)
    PROVE  Inv'
<1>0. LinkTyped /\ task[w] \in TaskRecord /\ Fit(task[w], accepted, runs)
  BY InRuns DEF Inv, Shapes
<1> DEFINE t == [task[w] EXCEPT !.pc = "take", !.pending = 0]
<1>1. /\ t \in TaskRecord /\ t.pc = "take" /\ t.id = task[w].id /\ t.conn = task[w].conn
      /\ t.peer = task[w].peer /\ t.hand = task[w].hand /\ t.pending = 0
  BY <1>0 DEF TaskRecord, TaskSteps
<1>2. /\ Set(w, t) /\ UNCHANGED Aside /\ inbox' = inbox /\ connection' = connection
      /\ cap' = cap /\ task[w].pc = "relay"
  BY DEF Recheck, Aside, state, bounds, history
<1>3. cap' \in {"none", "yes", "no", "rejected"}
  BY <1>2 DEF Inv, LinkTyped
<1> HIDE DEF t
<1>4. Fit(t, accepted, runs)
  BY <1>0, <1>1, <1>2 DEF Fit, Carried
<1>5. /\ Carried(t) \subseteq Carried(task[w]) /\ Open(t) \ {0} \subseteq Open(task[w])
      /\ Guard(t) = {} /\ ~Enveloping(t)
  BY <1>1 DEF Carried, Open, Guard, Enveloping
<1> QED
  BY <1>1, <1>2, <1>3, <1>4, <1>5, TaskMoves

LEMMA Ask_Inv ==
    ASSUME Inv, NEW w \in Tasks, Ask(w)
    PROVE  Inv'
<1>0. LinkTyped /\ task[w] \in TaskRecord /\ Fit(task[w], accepted, runs)
  BY InRuns DEF Inv, Shapes
<1> DEFINE valid == connection = Session(w) /\ cap # "rejected"
<1>1. PICK yes \in BOOLEAN :
          /\ cap' = IF valid THEN (IF yes THEN "yes" ELSE "no") ELSE cap
          /\ Set(w, [task[w] EXCEPT !.pc = "trust", !.supports = valid /\ yes])
  BY DEF Ask
<1> DEFINE t == [task[w] EXCEPT !.pc = "trust", !.supports = valid /\ yes]
<1>2. /\ t \in TaskRecord /\ t.pc = "trust" /\ t.id = task[w].id /\ t.conn = task[w].conn
      /\ t.peer = task[w].peer /\ t.hand = task[w].hand /\ t.pending = task[w].pending
      /\ t.supports => valid
  BY <1>0 DEF TaskRecord, TaskSteps
<1>3. /\ UNCHANGED Aside /\ inbox' = inbox /\ connection' = connection
      /\ task[w].pc = "ask"
  BY DEF Ask, Aside, bounds, history
<1>4. /\ cap' \in {"none", "yes", "no", "rejected"}
      /\ cap = "rejected" => cap' = "rejected"
  BY <1>0, <1>1 DEF LinkTyped
<1>5. t.supports => t.conn \notin refused
  <2>1. SUFFICES ASSUME t.supports, t.conn \in refused PROVE FALSE
    OBVIOUS
  <2>2. connection = <<task[w].id, task[w].conn>> /\ cap # "rejected"
    BY <1>2, <2>1 DEF Session
  <2>3. connection # None /\ connection[2] = task[w].conn
    BY <1>3, <2>2, SessionNotNone DEF Session
  <2> QED
    BY <1>2, <2>1, <2>2, <2>3 DEF Inv, Sessions
<1>6. Set(w, t)
  BY <1>1
<1> HIDE DEF t, valid
<1>7. Fit(t, accepted, runs)
  BY <1>0, <1>2, <1>3 DEF Fit, Carried
<1>8. /\ Carried(t) = Carried(task[w]) /\ Open(t) = Open(task[w])
      /\ Guard(t) = Guard(task[w]) /\ (Enveloping(t) => t.conn \notin refused)
  BY <1>2, <1>3, <1>5 DEF Carried, Open, Guard, Enveloping
<1> QED
  BY <1>2, <1>3, <1>4, <1>6, <1>7, <1>8, TaskMoves

---------------------------------------------------------------------------
(* What the steps that send, take and release have in common.              *)
LEMMA FitAlike ==
    ASSUME NEW s, NEW t, Alike(s, t), NEW last, NEW rs, Fit(t, last, rs)
    PROVE  Fit(s, last, rs)
BY DEF Alike, Fit, Carried

LEMMA OneTask ==
    ASSUME Inv, NEW w \in Tasks, NEW t \in TaskRecord, Set(w, t)
    PROVE  /\ task' \in [Tasks -> TaskRecord] /\ Others(w) /\ Alike(task'[w], t)
           /\ Carried(task'[w]) = Carried(t) /\ Open(task'[w]) = Open(t)
           /\ Guard(task'[w]) = Guard(t) /\ (Enveloping(task'[w]) <=> Enveloping(t))
           /\ task'[w].conn = t.conn /\ task'[w].id = t.id /\ task'[w].peer = t.peer
<1>1. task' \in [Tasks -> TaskRecord] /\ Others(w) /\ Alike(task'[w], t)
  BY SetTask DEF Inv, LinkTyped
<1> QED
  BY <1>1, AlikeReads DEF Alike

LEMMA ShapesOne ==
    ASSUME Inv, NEW w \in Tasks, NEW t \in TaskRecord, Set(w, t), Fit(t, accepted', runs'),
           t.conn = 0 => inbox'[w] = <<>>, \A v \in Tasks \ {w} : inbox'[v] = inbox[v],
           RunsKept, accepted' \in 0..MaxRuns
    PROVE  Shapes'
<1>1. Others(w) /\ Alike(task'[w], t) /\ task'[w].conn = t.conn
  BY OneTask
<1>2. Fit(task'[w], accepted', runs') /\ (task'[w].conn = 0 => inbox'[w] = <<>>)
  BY <1>1, FitAlike
<1>3. ASSUME NEW v \in Tasks \ {w}
      PROVE  Alike(task'[v], task[v]) /\ (task'[v].conn = 0 => inbox'[v] = <<>>)
  <2>1. task'[v] = task[v] /\ inbox'[v] = inbox[v]
    BY <1>1 DEF Others
  <2> QED
    BY <2>1 DEF Inv, Shapes, Alike
<1>4. \A v \in Tasks : /\ Alike(task'[v], task[v]) \/ Fit(task'[v], accepted', runs')
                       /\ task'[v].conn = 0 => inbox'[v] = <<>>
  BY <1>2, <1>3
<1> QED
  BY <1>4, ShapesKept DEF Inv

LEMMA GuardCarried ==
    ASSUME Inv, NEW w \in Tasks
    PROVE  /\ Guard(task[w]) \subseteq Carried(task[w])
           /\ Guard(task[w]) \subseteq Open(task[w]) \ {0}
           /\ task[w].hand # 0 => task[w].hand \in Carried(task[w])
           /\ task[w].pending # 0 => task[w].pending \in Carried(task[w])
           /\ Carried(task[w]) \subseteq Runs /\ \A n \in Carried(task[w]) : n <= accepted
<1>1. Fit(task[w], accepted, runs) /\ Carried(task[w]) \subseteq Runs
  BY InRuns DEF Inv, Shapes
<1> QED
  BY <1>1 DEF Fit, Guard, Carried, Open

(* A guarded command is known; one that is not sent is in one place only.  *)
LEMMA GuardedKnown ==
    ASSUME Inv, NEW n \in Runs, Guarded(n)
    PROVE  n <= accepted /\ runs[n].kind \in Kinds
<1>1. n <= accepted
  <2>1. CASE n \in Items(queue)
    BY <2>1, QueuedItems DEF Inv, RunsTyped
  <2>2. CASE \E w \in Tasks : n \in Guard(task[w])
    BY <2>2, GuardCarried
  <2>3. CASE \E r \in running : r.run = n
    <3>1. runs[n].sent = 1
      BY <2>3 DEF Inv, Unsent
    <3>2. runs[n] # NoRun
      BY <3>1 DEF NoRun
    <3> QED
      BY <3>2 DEF Inv, RunsTyped
  <2> QED
    BY <2>1, <2>2, <2>3 DEF Guarded
<1> QED
  BY <1>1 DEF Inv, RunsTyped

(* What task w carries unsent is guarded by nobody else.                   *)
LEMMA CarriedAlone ==
    ASSUME Inv, NEW w \in Tasks, NEW n \in Carried(task[w]), n \in Open(task[w]),
           Items(queue') \subseteq Items(queue), running' \subseteq running,
           Others(w), n \notin Guard(task'[w])
    PROVE  ~Guarded(n)'
<1>1. n \notin Items(queue')
  BY DEF Inv, Places
<1>2. \A v \in Tasks \ {w} : n \notin Guard(task'[v])
  <2> SUFFICES ASSUME NEW v \in Tasks \ {w}, n \in Guard(task'[v]) PROVE FALSE
    OBVIOUS
  <2>1. n \in Carried(task[v])
    BY GuardCarried DEF Others
  <2> QED
    BY <2>1 DEF Inv, Places
<1>3. \A r \in running' : r.run # n
  <2>1. runs[n].sent = 0
    BY DEF Carried, Inv, Unsent
  <2> QED
    BY <2>1 DEF Inv, Unsent
<1> QED
  BY <1>1, <1>2, <1>3 DEF Guarded

(* The buttons that a release or a downgrade for other runs leaves alone.  *)
LEMMA DroppedSpares ==
    ASSUME Inv, NEW ns \in SUBSET Runs, Release(Dropped(ns)), runs' = runs,
           NEW n \in Runs, n \notin ns, runs[n].kind \in Kinds, Claim(n)
    PROVE  Claim(n)'
<1>1. CASE runs[n].excused
  BY <1>1 DEF Claim
<1>2. CASE Owns(n)
  <2> DEFINE k == runs[n].kind
  <2>1. button[k] = n /\ tagged[k] /\ RunId(k) = n /\ k \in Kinds
    BY <1>2 DEF Owns, RunId
  <2>2. k \notin Dropped(ns)
    <3>1. \A m \in ns : TagOf(m) \in {m, 0}
      BY DEF TagOf
    <3>2. n # 0
      BY DEF Runs
    <3> QED
      BY <2>1, <3>1, <3>2 DEF Dropped
  <2>3. button'[k] = button[k] /\ tagged'[k]
    BY <2>1, <2>2 DEF Release
  <2> QED
    BY <2>1, <2>3 DEF Claim, Owns
<1> QED
  BY <1>1, <1>2 DEF Claim

LEMMA ReleaseTyped ==
    ASSUME RunsTyped, NEW ks, Release(ks)
    PROVE  /\ button' \in [Kinds -> Runs \cup {0}] /\ tagged' \in [Kinds -> BOOLEAN]
           /\ \A k \in Kinds : button'[k] \in {0, button[k]}
BY DEF RunsTyped, Release

LEMMA DowngradeSpares ==
    ASSUME RunsTyped, NEW m, Downgrade(m), button' = button,
           \A i \in Runs : runs'[i].kind = runs[i].kind /\ runs'[i].excused = runs[i].excused,
           NEW n \in Runs, n # m, runs[n].kind \in Kinds, Claim(n)
    PROVE  Claim(n)'
<1>1. CASE runs[n].excused
  BY <1>1 DEF Claim
<1>2. CASE Owns(n)
  <2>1. tagged'[runs[n].kind]
    <3>1. CASE Owns(m)
      <4>1. runs[m].kind # runs[n].kind
        BY <1>2, <3>1 DEF Owns
      <4> QED
        BY <1>2, <3>1, <4>1 DEF Downgrade, Owns, RunsTyped
    <3> QED
      BY <1>2, <3>1 DEF Downgrade, Owns
  <2> QED
    BY <1>2, <2>1 DEF Claim, Owns
<1> QED
  BY <1>1, <1>2 DEF Claim

LEMMA DowngradeTyped ==
    ASSUME RunsTyped, NEW m, Downgrade(m), quiet \in BOOLEAN
    PROVE  tagged' \in [Kinds -> BOOLEAN] /\ quiet' \in BOOLEAN
BY DEF RunsTyped, Downgrade

(* A step of one task that starts no run: what is left to show is that     *)
(* guarded commands keep their buttons, and the parts it is about.         *)
Web == <<db, worker, workerId, user, running, accepted>>

LEMMA RelayInv ==
    ASSUME Inv, NEW w \in Tasks, NEW t \in TaskRecord, Set(w, t), UNCHANGED Web,
           quiet' \in BOOLEAN, LinkTyped', RunsTyped', Sessions', Newest', SentKept,
           Fit(t, accepted, runs), t.conn = 0 => inbox'[w] = <<>>,
           Items(queue') \subseteq Items(queue), Distinct(queue'),
           Carried(t) \subseteq Carried(task[w]) \cup (Items(queue) \ Items(queue')),
           Open(t) \ {0} \subseteq Open(task[w]) \cup Items(queue),
           Guard(t) \subseteq Guard(task[w]) \cup Items(queue),
           \A f \in Items(inbox'[w]) : Genuine(f, t.peer, runs, running),
           \A v \in Tasks \ {w} : inbox'[v] = inbox[v],
           \A n \in Runs : Guarded(n)' /\ Guarded(n) /\ runs[n].tagged /\ Claim(n) => Claim(n)'
    PROVE  Inv'
<1>0. LinkTyped /\ RunsTyped /\ running' = running /\ accepted' = accepted
  BY DEF Inv, Web
<1>1. /\ Others(w) /\ Carried(task'[w]) = Carried(t) /\ Open(task'[w]) = Open(t)
      /\ Guard(task'[w]) = Guard(t) /\ task'[w].peer = t.peer
  BY OneTask
<1>2. \A v \in Tasks \ {w} : task'[v] = task[v]
  BY <1>1 DEF Others
<1>3. WebTyped'
  BY DEF Inv, Web, WebTyped
<1>4. Shapes'
  <2>1. RunsKept /\ accepted' \in 0..MaxRuns
    BY <1>0 DEF SentKept, RunsKept, RunsTyped
  <2>2. Alike(t, t)
    BY DEF Alike
  <2>3. Fit(t, accepted', runs')
    BY <1>0, <2>1, <2>2, FitKept
  <2> QED
    BY <2>1, <2>3, ShapesOne
<1>5. Places'
  <2>1. /\ \A v \in Tasks : Carried(task[v]) \cap Items(queue) = {}
        /\ \A u, v \in Tasks : u # v => Carried(task[u]) \cap Carried(task[v]) = {}
    BY DEF Inv, Places
  <2>2. \A v \in Tasks \ {w} : Carried(task'[v]) \cap Carried(task'[w]) = {}
    BY <1>1, <1>2, <2>1
  <2>3. \A v \in Tasks : Carried(task'[v]) \cap Items(queue') = {}
    <3>1. Carried(task'[w]) \cap Items(queue') = {}
      BY <1>1, <2>1
    <3>2. \A v \in Tasks \ {w} : Carried(task'[v]) \cap Items(queue') = {}
      BY <1>2, <2>1
    <3> QED
      BY <3>1, <3>2
  <2>4. \A u, v \in Tasks : u # v => Carried(task'[u]) \cap Carried(task'[v]) = {}
    <3> SUFFICES ASSUME NEW u \in Tasks, NEW v \in Tasks, u # v
                 PROVE  Carried(task'[u]) \cap Carried(task'[v]) = {}
      OBVIOUS
    <3>1. CASE u = w
      BY <2>2, <3>1
    <3>2. CASE v = w
      BY <2>2, <3>2
    <3>3. CASE u # w /\ v # w
      BY <1>2, <2>1, <3>3
    <3> QED
      BY <3>1, <3>2, <3>3
  <2> QED
    BY <2>3, <2>4 DEF Places
<1>6. Unsent'
  <2>1. \A v \in Tasks : Open(task'[v]) \ {0} \subseteq Open(task[v]) \cup Items(queue)
    BY <1>1, <1>2
  <2> QED
    BY <1>0, <2>1, UnsentKept DEF Inv
<1>7. Delivered'
  <2>1. \A f \in Items(inbox'[w]) : Genuine(f, task'[w].peer, runs, running')
    BY <1>0, <1>1
  <2>2. \A v \in Tasks \ {w} : \A f \in Items(inbox'[v]) :
           Genuine(f, task'[v].peer, runs, running')
    BY <1>0, <1>2 DEF Inv, Delivered
  <2>3. \A v \in Tasks : \A f \in Items(inbox'[v]) :
           Genuine(f, task'[v].peer, runs, running')
    BY <2>1, <2>2
  <2> QED
    BY <2>3, DeliveredKept
<1>8. Claims'
  <2>1. \A v \in Tasks : Guard(task'[v]) \subseteq Guard(task[v]) \cup Items(queue)
    BY <1>1, <1>2
  <2>2. \A n \in Runs : Guarded(n)' => Guarded(n)
    BY <1>0, <2>1, GuardedKept
  <2>3. \A n \in Runs : runs'[n].tagged = runs[n].tagged
    BY DEF SentKept
  <2> QED
    BY <2>2, <2>3, ClaimsKept DEF Inv
<1> QED
  BY <1>3, <1>4, <1>5, <1>6, <1>7, <1>8 DEF Inv

LEMMA Connect_Inv ==
    ASSUME Inv, NEW w \in Tasks, Connect(w)
    PROVE  Inv'
<1>0. LinkTyped /\ RunsTyped /\ task[w] \in TaskRecord /\ Fit(task[w], accepted, runs)
  BY InRuns DEF Inv, Shapes
<1>1. /\ task[w].pc = "connect" /\ task[w].conn = 0 /\ task[w].id \in Idents
      /\ conns < MaxConns /\ inbox' = inbox /\ inbox[w] = <<>>
  BY <1>0, TaskIdent DEF Connect, Inv, Shapes, Fit
<1>2. CASE ~Trusted(task[w].id)
  <2>1. /\ Set(w, NoTask) /\ UNCHANGED Aside /\ connection' = connection /\ cap' = cap
    BY <1>2 DEF Connect, Aside, history
  <2>2. cap' \in {"none", "yes", "no", "rejected"}
    BY <1>0, <2>1 DEF LinkTyped
  <2> QED
    BY <1>1, <2>1, <2>2, NoInbox, BareNoTask, EndsInv
<1>3. CASE Trusted(task[w].id)
  <2>1. PICK p \in {"modern", "legacy"} :
            Set(w, [task[w] EXCEPT !.pc = "relay", !.conn = conns + 1, !.peer = p])
    BY <1>3 DEF Connect
  <2>2. conns' = conns + 1 /\ connection' = <<task[w].id, conns + 1>> /\ cap' = "none"
    BY <1>3 DEF Connect
  <2>3. conns + 1 \in Conns /\ conns + 1 \in 0..MaxConns /\ conns \in Nat
    BY <1>0, <1>1, ConstantsAssumption DEF LinkTyped, Conns
  <2> DEFINE t == [task[w] EXCEPT !.pc = "relay", !.conn = conns + 1, !.peer = p]
  <2>4. /\ t \in TaskRecord /\ t.pc = "relay" /\ t.conn = conns + 1 /\ t.peer = p
        /\ t.id = task[w].id /\ t.hand = task[w].hand /\ t.pending = task[w].pending
        /\ t.supports = task[w].supports
    BY <1>0, <2>3 DEF TaskRecord, TaskSteps
  <2>5. Set(w, t)
    BY <2>1
  <2> HIDE DEF t
  <2>6. UNCHANGED <<Web, queue, button, tagged, quiet, runs, refused>>
    BY DEF Connect, Web, history
  <2>7. /\ Fit(t, accepted, runs) /\ Carried(t) \subseteq Carried(task[w])
        /\ Open(t) \ {0} = {} /\ Guard(t) = {} /\ ~Enveloping(t) /\ t.conn # 0
    <3>1. t.hand = 0 /\ t.pending = 0 /\ t.id # None /\ t.conn # 0
      BY <1>0, <1>1, <2>3, <2>4, IdentsNotNone DEF Fit, Conns
    <3> QED
      BY <2>4, <3>1 DEF Fit, Carried, Open, Guard, Enveloping
  <2>8. /\ task' \in [Tasks -> TaskRecord] /\ Others(w) /\ task'[w].conn = conns + 1
        /\ task'[w].id = task[w].id /\ ~Enveloping(task'[w])
    BY <2>4, <2>5, <2>7, OneTask
  <2>9. LinkTyped'
    <3>1. connection' \in Idents \X Conns
      BY <1>1, <2>2, <2>3
    <3> QED
      BY <1>0, <1>1, <2>2, <2>3, <2>6, <2>8, <3>1 DEF LinkTyped
  <2>10. RunsTyped' /\ SentKept
    BY <1>0, <2>6 DEF RunsTyped, Queued, Web, SentKept
  <2>11. Newest'
    BY <2>6 DEF Inv, Newest, Web
  <2>12. Sessions'
    <3>1. /\ \A v \in Tasks : task[v].conn <= conns /\ task[v].conn \in Nat
          /\ \A c \in refused : c <= conns /\ c \in Nat
      BY <1>0 DEF Inv, Sessions, LinkTyped, TaskRecord, Conns
    <3>2. \A v \in Tasks \ {w} : /\ task'[v] = task[v] /\ task'[v].conn <= conns
                                 /\ task'[v].conn # conns + 1
      BY <2>3, <2>8, <3>1 DEF Others
    <3>3. conns + 1 \notin refused
      BY <2>3, <3>1
    <3>4. \A v \in Tasks : task'[v].conn <= conns'
      BY <2>2, <2>3, <2>8, <3>1, <3>2
    <3>5. \A u, v \in Tasks : u # v /\ task'[u].conn = task'[v].conn => task'[v].conn = 0
      <4>1. \A u, v \in Tasks \ {w} : u # v /\ task'[u].conn = task'[v].conn => task'[v].conn = 0
        BY <3>2 DEF Inv, Sessions
      <4> QED
        BY <2>8, <3>2, <4>1
    <3>6. \A c \in refused' : c <= conns'
      BY <2>2, <2>3, <2>6, <3>1
    <3>7. /\ connection'[2] <= conns'
          /\ \A v \in Tasks : task'[v].conn = connection'[2] => connection'[1] = task'[v].id
          /\ connection'[2] \notin refused'
      BY <2>2, <2>3, <2>6, <2>8, <3>2, <3>3
    <3>8. \A v \in Tasks : Enveloping(task'[v]) => task'[v].conn \notin refused'
      BY <2>6, <2>8, <3>2 DEF Inv, Sessions
    <3> QED
      BY <3>4, <3>5, <3>6, <3>7, <3>8 DEF Sessions
  <2>13. \A n \in Runs : Claim(n) => Claim(n)'
    BY <2>6, ClaimSame
  <2>14. quiet' \in BOOLEAN /\ Distinct(queue') /\ Items(queue') = Items(queue)
         /\ Items(inbox'[w]) = {} /\ UNCHANGED Web
    BY <1>1, <2>6, EmptyItems DEF Inv, WebTyped, Places
  <2> QED
    BY <1>1, <2>4, <2>5, <2>7, <2>9, <2>10, <2>11, <2>12, <2>13, <2>14, RelayInv
<1> QED
  BY <1>2, <1>3

LEMMA Take_Inv ==
    ASSUME Inv, NEW w \in Tasks, Take(w)
    PROVE  Inv'
<1>0. LinkTyped /\ RunsTyped /\ task[w] \in TaskRecord /\ Fit(task[w], accepted, runs)
  BY InRuns DEF Inv, Shapes
<1>1. /\ task[w].pc = "take" /\ inbox' = inbox /\ connection' = connection /\ cap' = cap
      /\ UNCHANGED <<Web, button, tagged, quiet, conns, runs, refused>>
      /\ cap' \in {"none", "yes", "no", "rejected"}
  BY <1>0 DEF Take, Web, bounds, history, LinkTyped
<1>2. task[w].hand = 0 /\ task[w].pending = 0 /\ task[w].conn # 0
  BY <1>0, <1>1 DEF Fit
<1>3. CASE queue = <<>>
  <2> DEFINE t == [task[w] EXCEPT !.pc = "relay"]
  <2>1. /\ t \in TaskRecord /\ t.pc = "relay" /\ t.id = task[w].id /\ t.conn = task[w].conn
        /\ t.peer = task[w].peer /\ t.hand = 0 /\ t.pending = 0
    BY <1>0, <1>2 DEF TaskRecord, TaskSteps
  <2>2. Set(w, t) /\ UNCHANGED Aside
    BY <1>1, <1>3 DEF Take, Goto, Aside, Web
  <2> HIDE DEF t
  <2>3. Fit(t, accepted, runs) /\ Carried(t) = {} /\ Open(t) \ {0} = {} /\ Guard(t) = {}
        /\ ~Enveloping(t)
    BY <1>0, <1>1, <1>2, <2>1 DEF Fit, Carried, Open, Guard, Enveloping
  <2> QED
    BY <1>1, <2>1, <2>2, <2>3, TaskMoves
<1>4. CASE queue # <<>>
  <2> DEFINE n == Head(queue)
             t == [task[w] EXCEPT !.hand = n, !.supports = FALSE,
                       !.pc = IF Bound(w, n) /\ runs[n].tagged THEN "ask" ELSE "trust"]
  <2>1. /\ n \in Runs /\ n \in Items(queue) /\ queue' = Tail(queue) /\ queue' \in Seq(Runs)
        /\ Len(queue') <= Len(queue) /\ Items(queue') \subseteq Items(queue)
        /\ Distinct(queue') /\ n \notin Items(queue')
    <3>1. queue' = Tail(queue) /\ queue \in Seq(Runs) /\ Distinct(queue)
      BY <1>0, <1>4 DEF Take, RunsTyped, Inv, Places
    <3> QED
      BY <1>4, <3>1, TailItems
  <2>2. n # 0 /\ n <= accepted
    BY <1>0, <2>1, QueuedItems DEF Runs, RunsTyped
  <2>3. /\ t \in TaskRecord /\ t.pc \in {"ask", "trust"} /\ t.id = task[w].id
        /\ t.conn = task[w].conn /\ t.peer = task[w].peer /\ t.hand = n /\ t.pending = 0
        /\ ~t.supports /\ (t.pc = "ask" => runs[n].id = t.id /\ runs[n].tagged)
    BY <1>0, <1>2, <2>1 DEF TaskRecord, TaskSteps, Bound
  <2>4. Set(w, t)
    BY <1>4 DEF Take
  <2> HIDE DEF t, n
  <2>5. /\ Fit(t, accepted, runs) /\ Carried(t) = {n} /\ Open(t) \ {0} = {n} /\ Guard(t) = {n}
        /\ ~Enveloping(t)
    BY <1>0, <1>1, <1>2, <2>2, <2>3 DEF Fit, Carried, Open, Guard, Enveloping
  <2>6. /\ task' \in [Tasks -> TaskRecord] /\ Others(w) /\ task'[w].conn = task[w].conn
        /\ task'[w].id = task[w].id /\ ~Enveloping(task'[w])
    BY <2>3, <2>4, <2>5, OneTask
  <2>7. LinkTyped'
    BY <1>0, <1>1, <2>6 DEF LinkTyped
  <2>8. RunsTyped' /\ SentKept
    <3>1. \A m \in Items(queue') : m <= accepted
      BY <1>0, <2>1, QueuedItems DEF RunsTyped
    <3>2. \A m \in Queued' : m <= accepted
      BY <3>1 DEF Queued, Items
    <3>3. Len(queue') <= MaxQueue
      BY <1>0, <2>1, ConstantsAssumption DEF RunsTyped
    <3> QED
      BY <1>0, <1>1, <2>1, <3>2, <3>3 DEF RunsTyped, Web, SentKept
  <2>9. Newest'
    BY <1>1 DEF Inv, Newest, Web
  <2>10. Sessions'
    <3>1. \A v \in Tasks : task'[v].conn = task[v].conn /\ task'[v].id = task[v].id
      BY <2>6 DEF Others
    <3>2. \A v \in Tasks : Enveloping(task'[v]) => task'[v].conn \notin refused
      BY <2>6 DEF Others, Inv, Sessions
    <3> QED
      BY <1>0, <1>1, <3>1, <3>2, SessionsKept DEF Inv
  <2>11. \A m \in Runs : Claim(m) => Claim(m)'
    BY <1>1, ClaimSame
  <2>12. /\ quiet' \in BOOLEAN /\ UNCHANGED Web
         /\ \A f \in Items(inbox'[w]) : Genuine(f, t.peer, runs, running)
    BY <1>1, <2>3 DEF Inv, WebTyped, Delivered
  <2> QED
    BY <1>1, <1>2, <2>1, <2>3, <2>4, <2>5, <2>7, <2>8, <2>9, <2>10, <2>11, <2>12, RelayInv
<1> QED
  BY <1>3, <1>4

(* A step of one task that leaves queue, inboxes and connection alone, and *)
(* takes buttons only from runs that nobody guards any more.               *)
LEMMA ButtonsInv ==
    ASSUME Inv, NEW w \in Tasks, NEW t \in TaskRecord, Set(w, t),
           UNCHANGED <<Web, queue, connection, cap, conns, refused, inbox>>,
           quiet' \in BOOLEAN, Fit(t, accepted, runs), SentKept,
           button' \in [Kinds -> Runs \cup {0}], tagged' \in [Kinds -> BOOLEAN],
           \A k \in Kinds : button'[k] \in {0, button[k]},
           runs' \in [Runs -> RunRecord],
           \A n \in Runs : ~(n <= accepted) => runs'[n] = NoRun,
           \A n \in Runs : runs'[n].ended = runs[n].ended,
           t.conn = task[w].conn, t.id = task[w].id, t.peer = task[w].peer,
           Carried(t) \subseteq Carried(task[w]), Open(t) \ {0} \subseteq Open(task[w]),
           Guard(t) \subseteq Guard(task[w]), Enveloping(t) => t.conn \notin refused,
           \A n \in Runs : Guarded(n)' /\ Guarded(n) /\ runs[n].tagged /\ Claim(n) => Claim(n)'
    PROVE  Inv'
<1>0. LinkTyped /\ RunsTyped /\ task[w] \in TaskRecord
  BY InRuns DEF Inv
<1>1. /\ task' \in [Tasks -> TaskRecord] /\ Others(w) /\ task'[w].conn = task[w].conn
      /\ task'[w].id = task[w].id /\ (Enveloping(task'[w]) <=> Enveloping(t))
  BY OneTask
<1>2. LinkTyped'
  BY <1>0, <1>1 DEF LinkTyped
<1>3. RunsTyped'
  <2>1. \A n \in Runs : n <= accepted => runs'[n].kind \in Kinds \ {None} /\ runs'[n].id \in Idents
    BY <1>0 DEF RunsTyped, SentKept
  <2> QED
    BY <1>0, <2>1 DEF RunsTyped, Web, Queued
<1>4. Newest'
  BY <1>0, NewestKept DEF Inv, Web
<1>5. Sessions'
  <2>1. \A v \in Tasks : task'[v].conn = task[v].conn /\ task'[v].id = task[v].id
    BY <1>1 DEF Others
  <2>2. \A v \in Tasks : Enveloping(task'[v]) => task'[v].conn \notin refused
    <3>1. \A v \in Tasks \ {w} : Enveloping(task'[v]) => task'[v].conn \notin refused
      BY <1>1 DEF Others, Inv, Sessions
    <3>2. Enveloping(task'[w]) => task'[w].conn \notin refused
      BY <1>1
    <3> QED
      BY <3>1, <3>2
  <2> QED
    BY <1>0, <2>1, <2>2, SessionsKept DEF Inv
<1>6. /\ Distinct(queue') /\ (t.conn = 0 => inbox'[w] = <<>>) /\ UNCHANGED Web
      /\ \A f \in Items(inbox'[w]) : Genuine(f, t.peer, runs, running)
  BY DEF Inv, Places, Shapes, Delivered
<1> QED
  BY <1>2, <1>3, <1>4, <1>5, <1>6, RelayInv

LEMMA Format_Inv ==
    ASSUME Inv, NEW w \in Tasks, Format(w)
    PROVE  Inv'
<1>0. LinkTyped /\ RunsTyped /\ task[w] \in TaskRecord /\ Fit(task[w], accepted, runs)
  BY InRuns DEF Inv, Shapes
<1>1. /\ task[w].pc = "trust" /\ runs' = runs /\ running' = running /\ queue' = queue
      /\ UNCHANGED <<Web, queue, connection, cap, conns, refused, inbox>>
  BY DEF Format, Web, bounds, history
<1>2. PICK n \in Runs : /\ n = task[w].hand /\ n # 0 /\ n <= accepted
                      /\ task[w].pending = 0 /\ task[w].conn # 0
                      /\ n \in Carried(task[w]) /\ n \in Open(task[w])
                      /\ Carried(task[w]) = {n}
  BY <1>0, <1>1 DEF Fit, Carried, Open, TaskRecord
<1>3. /\ SentKept /\ runs' \in [Runs -> RunRecord]
      /\ \A m \in Runs : ~(m <= accepted) => runs'[m] = NoRun
      /\ \A m \in Runs : runs'[m].ended = runs[m].ended
  BY <1>0, <1>1 DEF SentKept, RunsTyped
<1>4. CASE ~Bound(w, n)
  <2> DEFINE t == [task[w] EXCEPT !.pc = "relay", !.hand = 0]
  <2>1. /\ t \in TaskRecord /\ t.pc = "relay" /\ t.id = task[w].id /\ t.conn = task[w].conn
        /\ t.peer = task[w].peer /\ t.hand = 0 /\ t.pending = 0
    BY <1>0, <1>2 DEF TaskRecord, TaskSteps
  <2>2. Release(Dropped({n})) /\ quiet' = quiet /\ Set(w, t)
    BY <1>2, <1>4 DEF Format
  <2> HIDE DEF t
  <2>3. Fit(t, accepted, runs) /\ Carried(t) = {} /\ Open(t) \ {0} = {} /\ Guard(t) = {}
        /\ ~Enveloping(t)
    BY <1>0, <1>1, <1>2, <2>1 DEF Fit, Carried, Open, Guard, Enveloping
  <2>4. Others(w) /\ Guard(task'[w]) = {}
    BY <2>1, <2>2, <2>3, OneTask
  <2>5. ~Guarded(n)'
    BY <1>1, <1>2, <2>4, CarriedAlone
  <2>6. \A m \in Runs : Guarded(m)' /\ Guarded(m) /\ runs[m].tagged /\ Claim(m) => Claim(m)'
    <3> SUFFICES ASSUME NEW m \in Runs, Guarded(m)', Guarded(m), Claim(m) PROVE Claim(m)'
      OBVIOUS
    <3>1. m \notin {n} /\ runs[m].kind \in Kinds /\ {n} \in SUBSET Runs
      BY <1>2, <2>5, GuardedKnown
    <3> QED
      BY <1>1, <2>2, <3>1, DroppedSpares
  <2>7. /\ quiet' \in BOOLEAN /\ button' \in [Kinds -> Runs \cup {0}]
        /\ tagged' \in [Kinds -> BOOLEAN] /\ \A k \in Kinds : button'[k] \in {0, button[k]}
    BY <1>0, <2>2, ReleaseTyped DEF Inv, WebTyped
  <2> QED
    BY <1>1, <1>3, <2>1, <2>2, <2>3, <2>6, <2>7, ButtonsInv
<1>5. CASE Bound(w, n)
  <2> DEFINE plain == ~task[w].supports
             t == [task[w] EXCEPT !.pc = "send", !.supports = FALSE,
                                  !.pending = IF plain THEN 0 ELSE n]
  <2>1. /\ t \in TaskRecord /\ t.pc = "send" /\ t.id = task[w].id /\ t.conn = task[w].conn
        /\ t.peer = task[w].peer /\ t.hand = n /\ ~t.supports
        /\ t.pending = IF plain THEN 0 ELSE n
    BY <1>0, <1>2 DEF TaskRecord, TaskSteps
  <2>2. /\ IF runs[n].tagged /\ plain THEN Downgrade(n) ELSE UNCHANGED <<tagged, quiet>>
        /\ Set(w, t) /\ button' = button
    BY <1>2, <1>5 DEF Format
  <2>3. ~plain => runs[n].id = task[w].id /\ runs[n].tagged
    BY <1>0, <1>1, <1>2 DEF Fit
  <2>4. runs[n].id = task[w].id
    BY <1>5 DEF Bound
  <2>5. ~plain => task[w].conn \notin refused
    BY <1>1 DEF Inv, Sessions, Enveloping
  <2> HIDE DEF t
  <2>6. /\ Fit(t, accepted, runs) /\ Carried(t) = {n} /\ Open(t) \ {0} = {n}
        /\ Guard(t) = (IF plain THEN {} ELSE {n})
        /\ (Enveloping(t) => t.conn \notin refused) /\ Guard(task[w]) = {n}
    BY <1>0, <1>1, <1>2, <2>1, <2>3, <2>4, <2>5 DEF Fit, Carried, Open, Guard, Enveloping
  <2>7. Others(w) /\ Guard(task'[w]) = Guard(t)
    BY <2>1, <2>2, OneTask
  <2>8. \A m \in Runs : Guarded(m)' /\ Guarded(m) /\ runs[m].tagged /\ Claim(m) => Claim(m)'
    <3> SUFFICES ASSUME NEW m \in Runs, Guarded(m)', Guarded(m), runs[m].tagged, Claim(m)
                 PROVE  Claim(m)'
      OBVIOUS
    <3>1. CASE runs[n].tagged /\ plain
      <4>1. ~Guarded(n)'
        BY <1>1, <1>2, <2>6, <2>7, <3>1, CarriedAlone
      <4>2. m # n /\ runs[m].kind \in Kinds /\ Downgrade(n)
        BY <2>2, <3>1, <4>1, GuardedKnown
      <4>3. \A i \in Runs : runs'[i].kind = runs[i].kind /\ runs'[i].excused = runs[i].excused
        BY <1>1
      <4> QED
        BY <1>0, <2>2, <4>2, <4>3, DowngradeSpares
    <3>2. CASE ~(runs[n].tagged /\ plain)
      BY <1>1, <2>2, <3>2, ClaimSame
    <3> QED
      BY <3>1, <3>2
  <2>9. /\ quiet' \in BOOLEAN /\ button' \in [Kinds -> Runs \cup {0}]
        /\ tagged' \in [Kinds -> BOOLEAN] /\ \A k \in Kinds : button'[k] \in {0, button[k]}
    BY <1>0, <2>2, DowngradeTyped DEF Inv, WebTyped, RunsTyped
  <2>10. Carried(t) \subseteq Carried(task[w]) /\ Open(t) \ {0} \subseteq Open(task[w])
         /\ Guard(t) \subseteq Guard(task[w])
    BY <1>2, <2>6
  <2> QED
    BY <1>1, <1>3, <2>1, <2>2, <2>6, <2>8, <2>9, <2>10, ButtonsInv
<1> QED
  BY <1>4, <1>5

LEMMA FailActive_Inv ==
    ASSUME Inv, NEW w \in Tasks, FailActive(w)
    PROVE  Inv'
<1>0. LinkTyped /\ RunsTyped /\ task[w] \in TaskRecord /\ Fit(task[w], accepted, runs)
  BY InRuns DEF Inv, Shapes
<1>1. /\ task[w].pc = "lost" /\ Release({k \in Kinds : button[k] # 0}) /\ quiet' \in BOOLEAN
      /\ runs' = [n \in Runs |-> [runs[n] EXCEPT !.excused = @ \/ n \in Latched]]
      /\ UNCHANGED <<Web, queue, connection, cap, conns, refused, inbox>>
  BY DEF FailActive, Web, bounds, Inv, WebTyped
<1> DEFINE t == [task[w] EXCEPT !.pc = "closing"]
<1>2. /\ t \in TaskRecord /\ t.pc = "closing" /\ t.id = task[w].id /\ t.conn = task[w].conn
      /\ t.peer = task[w].peer /\ t.hand = task[w].hand /\ t.pending = task[w].pending
  BY <1>0 DEF TaskRecord, TaskSteps
<1>3. Set(w, t)
  BY DEF FailActive, Goto
<1> HIDE DEF t
<1>4. /\ Fit(t, accepted, runs) /\ Carried(t) = Carried(task[w]) /\ Open(t) = Open(task[w])
      /\ Guard(t) = {} /\ ~Enveloping(t)
  BY <1>0, <1>1, <1>2 DEF Fit, Carried, Open, Guard, Enveloping
<1>5. \A n \in Runs : /\ runs[n] \in RunRecord
                      /\ runs'[n] = [runs[n] EXCEPT !.excused = @ \/ n \in Latched]
  BY <1>0, <1>1 DEF RunsTyped
<1>6. /\ SentKept /\ runs' \in [Runs -> RunRecord]
      /\ \A n \in Runs : runs'[n].ended = runs[n].ended
      /\ \A n \in Runs : runs'[n].excused = (runs[n].excused \/ n \in Latched)
  <2>1. \A r \in RunRecord : \A x \in BOOLEAN : [r EXCEPT !.excused = x] \in RunRecord
    BY DEF RunRecord
  <2>2. \A n \in Runs : (runs[n].excused \/ n \in Latched) \in BOOLEAN
    OBVIOUS
  <2>3. \A n \in Runs : runs'[n] \in RunRecord
    BY <1>5, <2>1, <2>2
  <2> QED
    BY <1>1, <1>5, <2>3 DEF SentKept, RunRecord
<1>7. \A n \in Runs : ~(n <= accepted) => runs'[n] = NoRun
  <2> SUFFICES ASSUME NEW n \in Runs, ~(n <= accepted) PROVE runs'[n] = NoRun
    OBVIOUS
  <2>1. runs[n] = NoRun
    BY <1>0 DEF RunsTyped
  <2>2. n \notin Latched
    <3>1. n # 0 /\ n # accepted
      BY <1>0 DEF Runs, RunsTyped
    <3> QED
      BY <3>1 DEF Latched, Inv, Newest
  <2>3. (runs[n].excused \/ n \in Latched) = FALSE
    BY <2>1, <2>2 DEF NoRun
  <2>4. [NoRun EXCEPT !.excused = FALSE] = NoRun
    <3>1. \A r \in RunRecord : r.excused = FALSE => [r EXCEPT !.excused = FALSE] = r
      BY DEF RunRecord
    <3>2. NoRun \in RunRecord /\ NoRun.excused = FALSE
      BY DEF NoRun, RunRecord
    <3> QED
      BY <3>1, <3>2
  <2> QED
    BY <1>5, <2>1, <2>3, <2>4
<1>8. \A n \in Runs : Guarded(n) /\ Claim(n) => Claim(n)'
  <2> SUFFICES ASSUME NEW n \in Runs, Guarded(n), Claim(n) PROVE runs'[n].excused
    BY DEF Claim
  <2>1. runs[n].kind \in Kinds
    BY GuardedKnown
  <2>2. Owns(n) => n \in Latched
    BY <2>1 DEF Owns, Latched
  <2> QED
    BY <1>6, <2>2 DEF Claim
<1>9. /\ button' \in [Kinds -> Runs \cup {0}] /\ tagged' \in [Kinds -> BOOLEAN]
      /\ \A k \in Kinds : button'[k] \in {0, button[k]}
  BY <1>0, <1>1, ReleaseTyped
<1> QED
  BY <1>1, <1>2, <1>3, <1>4, <1>6, <1>7, <1>8, <1>9, ButtonsInv

(* The command in hand is sent to be run: with its id only as an envelope  *)
(* to a peer that understands it.                                          *)
LEMMA ExecutesInv ==
    ASSUME Inv, NEW w \in Tasks, task[w].pc \in {"send", "resend"}, NEW id \in Runs \cup {0},
           Executes(w, task[w].hand, id),
           task[w].pending # 0 => task[w].peer = "modern" /\ id = task[w].hand,
           id # 0 => task[w].pc = "send" /\ task[w].pending = task[w].hand /\ id = task[w].hand,
           Set(w, [task[w] EXCEPT !.pc = "relay", !.hand = 0]), inbox' = inbox,
           UNCHANGED <<db, state, user, accepted, conns, refused>>
    PROVE  Inv'
<1>0. LinkTyped /\ RunsTyped /\ task[w] \in TaskRecord /\ Fit(task[w], accepted, runs)
  BY InRuns DEF Inv, Shapes
<1>1. PICK n \in Runs : n = task[w].hand
  BY <1>0 DEF Fit, TaskRecord
<1>2. /\ n # 0 /\ n <= accepted /\ task[w].id \in Idents /\ runs[n].id = task[w].id
      /\ n \in Carried(task[w]) /\ n \in Open(task[w]) /\ runs[n].sent = 0
      /\ task[w].conn \in Conns /\ (id # 0 => runs[n].tagged /\ id = n)
      /\ task[w].pending \in {0, n}
  <2>1. n # 0 /\ n \in Carried(task[w]) /\ n \in Open(task[w])
    BY <1>0, <1>1 DEF Fit, Carried, Open
  <2>2. runs[n].sent = 0
    BY <2>1 DEF Inv, Unsent
  <2> QED
    BY <1>0, <1>1, <2>1, <2>2, TaskIdent DEF Fit, TaskRecord
<1> DEFINE t == [task[w] EXCEPT !.pc = "relay", !.hand = 0]
<1>3. /\ t \in TaskRecord /\ t.pc = "relay" /\ t.id = task[w].id /\ t.conn = task[w].conn
      /\ t.peer = task[w].peer /\ t.hand = 0 /\ t.pending = task[w].pending /\ Set(w, t)
  BY <1>0 DEF TaskRecord, TaskSteps
<1> HIDE DEF t
<1>4. /\ Fit(t, accepted, runs) /\ Carried(t) \subseteq Carried(task[w])
      /\ Open(t) \ {0} = {} /\ Guard(t) = {} /\ ~Enveloping(t)
  BY <1>0, <1>2, <1>3 DEF Fit, Carried, Open, Guard, Enveloping
<1>5. /\ task' \in [Tasks -> TaskRecord] /\ Others(w) /\ task'[w].conn = task[w].conn
      /\ task'[w].id = task[w].id /\ task'[w].peer = task[w].peer
      /\ Carried(task'[w]) \subseteq Carried(task[w]) /\ Open(task'[w]) \ {0} = {}
      /\ Guard(task'[w]) = {} /\ ~Enveloping(task'[w])
  BY <1>3, <1>4, OneTask
<1>6. \A v \in Tasks \ {w} : task'[v] = task[v]
  BY <1>5 DEF Others
<1> DEFINE b == [run |-> n, conn |-> task[w].conn, id |-> id]
<1>7. b \in BackendRun /\ b.run = n /\ b.id = id /\ running' = running \cup {b}
  BY <1>1, <1>2 DEF BackendRun, Executes
<1> HIDE DEF b
<1>8. /\ \A m \in Runs \ {n} : runs'[m] = runs[m]
      /\ runs' \in [Runs -> RunRecord]
      /\ runs'[n].kind = runs[n].kind /\ runs'[n].id = runs[n].id
      /\ runs'[n].tagged = runs[n].tagged /\ runs'[n].cursor = runs[n].cursor
      /\ runs'[n].ended = runs[n].ended /\ runs'[n].excused = runs[n].excused
      /\ runs'[n].sent = 1 /\ runs'[n].to = runs[n].to \cup {task[w].id}
  <2>1. runs[n] \in RunRecord
    BY <1>0 DEF RunsTyped
  <2> DEFINE r == [runs[n] EXCEPT !.sent = @ + 1, !.to = @ \cup {task[w].id}]
  <2>2. runs' = [runs EXCEPT ![n] = r]
    BY <1>1 DEF Executes
  <2>3. /\ r \in RunRecord /\ r.kind = runs[n].kind /\ r.id = runs[n].id
        /\ r.tagged = runs[n].tagged /\ r.cursor = runs[n].cursor
        /\ r.ended = runs[n].ended /\ r.excused = runs[n].excused
        /\ r.sent = 1 /\ r.to = runs[n].to \cup {task[w].id}
    <3> DEFINE x == runs[n].sent + 1
               y == runs[n].to \cup {task[w].id}
    <3>1. x = 1 /\ y \in SUBSET Idents
      BY <1>2, <2>1 DEF RunRecord
    <3>2. r = [runs[n] EXCEPT !.sent = x, !.to = y]
      OBVIOUS
    <3> HIDE DEF x, y, r
    <3>3. /\ r \in RunRecord /\ r.kind = runs[n].kind /\ r.id = runs[n].id
          /\ r.tagged = runs[n].tagged /\ r.cursor = runs[n].cursor
          /\ r.ended = runs[n].ended /\ r.excused = runs[n].excused
          /\ r.sent = x /\ r.to = y
      BY <2>1, <3>1, <3>2 DEF RunRecord
    <3> QED
      BY <3>1, <3>3 DEF y
  <2> HIDE DEF r
  <2> QED
    BY <1>0, <2>2, <2>3 DEF RunsTyped
<1>9. \A m \in Runs : /\ runs'[m].kind = runs[m].kind /\ runs'[m].id = runs[m].id
                      /\ runs'[m].tagged = runs[m].tagged /\ runs'[m].cursor = runs[m].cursor
                      /\ runs'[m].ended = runs[m].ended /\ runs'[m].excused = runs[m].excused
  BY <1>8
<1>10. /\ queue' = queue /\ button' = button /\ tagged' = tagged /\ accepted' = accepted
       /\ connection' = connection /\ cap' = cap /\ conns' = conns /\ refused' = refused
       /\ worker' = worker /\ workerId' = workerId /\ quiet' = quiet /\ db' = db /\ user' = user
  BY DEF state
<1>11. WebTyped' /\ LinkTyped'
  BY <1>0, <1>5, <1>10 DEF Inv, WebTyped, LinkTyped
<1>12. RunsTyped'
  <2>1. \A m \in Runs :
           IF m <= accepted THEN runs'[m].kind \in Kinds \ {None} /\ runs'[m].id \in Idents
                            ELSE runs'[m] = NoRun
    BY <1>0, <1>2, <1>8 DEF RunsTyped
  <2>2. running' \subseteq BackendRun
    BY <1>0, <1>7 DEF RunsTyped
  <2> QED
    BY <1>0, <1>8, <1>10, <2>1, <2>2 DEF RunsTyped, Queued
<1>13. Shapes'
  <2>1. RunsKept /\ accepted' \in 0..MaxRuns
    BY <1>0, <1>9, <1>10 DEF RunsKept, RunsTyped
  <2>2. Alike(t, t)
    BY DEF Alike
  <2>3. Fit(t, accepted', runs')
    BY <1>0, <1>3, <1>4, <2>1, <2>2, FitKept
  <2>4. t.conn = 0 => inbox'[w] = <<>>
    BY <1>3 DEF Inv, Shapes
  <2> QED
    BY <1>3, <2>1, <2>3, <2>4, ShapesOne
<1>14. Places'
  <2>1. \A v \in Tasks : Carried(task'[v]) \subseteq Carried(task[v])
    BY <1>5, <1>6
  <2> QED
    BY <1>10, <2>1, PlacesKept DEF Inv, Places
<1>15. Unsent'
  <2>0. Items(queue) \subseteq Runs /\ \A r \in running : r.run \in Runs
    BY <1>0, InRuns
  <2>1. \A m \in Items(queue') : runs'[m].sent = 0
    <3>1. n \notin Items(queue)
      BY <1>2 DEF Inv, Places
    <3> QED
      BY <1>8, <1>10, <2>0, <3>1 DEF Inv, Unsent
  <2>2. \A v \in Tasks : \A m \in Open(task'[v]) \ {0} : runs'[m].sent = 0
    <3> SUFFICES ASSUME NEW v \in Tasks \ {w}, NEW m \in Open(task[v]) \ {0}
                 PROVE  runs'[m].sent = 0
      BY <1>5, <1>6
    <3>1. m \in Carried(task[v]) /\ m \in Runs
      BY <1>0, InRuns DEF Open, Carried
    <3>2. m # n
      BY <1>2, <3>1 DEF Inv, Places
    <3> QED
      BY <1>8, <3>1, <3>2 DEF Inv, Unsent
  <2>3. \A r \in running : r.run # n /\ runs'[r.run] = runs[r.run]
    BY <1>2, <1>8, <2>0 DEF Inv, Unsent
  <2>4. /\ \A r \in running' : runs'[r.run].sent = 1
        /\ \A r, q \in running' : r.run = q.run => r = q
        /\ \A r \in running' : r.id # 0 => r.id = r.run /\ runs'[r.run].tagged
    BY <1>2, <1>7, <1>8, <2>3 DEF Inv, Unsent
  <2>5. \A m \in Runs : runs'[m].to \subseteq {runs'[m].id}
    BY <1>2, <1>8 DEF Inv, Unsent
  <2> QED
    BY <2>1, <2>2, <2>4, <2>5 DEF Unsent
<1>16. Delivered'
  <2> SUFFICES ASSUME NEW v \in Tasks, NEW f \in Items(inbox[v])
               PROVE  Genuine(f, task'[v].peer, runs', running')
    BY DEF Delivered
  <2>1. Genuine(f, task[v].peer, runs, running) /\ task'[v].peer = task[v].peer
    BY <1>5, <1>6 DEF Inv, Delivered
  <2>2. f.type = "end" /\ f.run \in Runs => f.run # n
    BY <1>2, <2>1 DEF Genuine
  <2> QED
    BY <1>7, <1>8, <2>1, <2>2 DEF Genuine
<1>17. Claims'
  <2>1. \A m \in Runs : Guarded(m)' => Guarded(m)
    <3> SUFFICES ASSUME NEW m \in Runs, Guarded(m)' PROVE Guarded(m)
      OBVIOUS
    <3>1. CASE m \in Items(queue')
      BY <1>10, <3>1 DEF Guarded
    <3>2. CASE \E v \in Tasks : m \in Guard(task'[v])
      BY <1>5, <1>6, <3>2 DEF Guarded
    <3>3. CASE \E r \in running' : r.run = m /\ r.id # 0
      <4>1. CASE \E r \in running : r.run = m /\ r.id # 0
        BY <4>1 DEF Guarded
      <4>2. CASE m = n /\ id # 0
        <5>1. n \in Guard(task[w])
          BY <1>1, <4>2 DEF Guard
        <5> QED
          BY <4>2, <5>1 DEF Guarded
      <4> QED
        BY <1>7, <3>3, <4>1, <4>2
    <3> QED
      BY <3>1, <3>2, <3>3 DEF Guarded
  <2>2. \A m \in Runs : Claim(m) => Claim(m)'
    BY <1>9, <1>10 DEF Claim, Owns
  <2> QED
    BY <1>9, <2>1, <2>2, ClaimsKept DEF Inv
<1>18. Sessions'
  <2>1. \A v \in Tasks : task'[v].conn = task[v].conn /\ task'[v].id = task[v].id
    BY <1>5, <1>6
  <2>2. \A v \in Tasks : Enveloping(task'[v]) => task'[v].conn \notin refused
    BY <1>5, <1>6 DEF Inv, Sessions
  <2> QED
    BY <1>0, <1>10, <2>1, <2>2, SessionsKept DEF Inv
<1>19. Newest'
  <2>1. \A k \in Kinds : /\ button'[k] \in {0, accepted'}
                         /\ button'[k] # 0 => runs'[button'[k]].kind = k
    <3>1. \A k \in Kinds : button[k] \in Runs \cup {0}
      BY <1>0 DEF RunsTyped
    <3> QED
      BY <1>9, <1>10, <3>1 DEF Inv, Newest
  <2>2. \A m \in Runs : /\ \A i \in runs'[m].cursor : i < m
                        /\ runs'[m].ended => m <= accepted'
    BY <1>9, <1>10 DEF Inv, Newest
  <2>3. \A i, m \in Runs : runs'[i].ended /\ i < m /\ m <= accepted' => i \in runs'[m].cursor
    BY <1>9, <1>10 DEF Inv, Newest
  <2> QED
    BY <2>1, <2>2, <2>3 DEF Newest
<1> QED
  BY <1>11, <1>12, <1>13, <1>14, <1>15, <1>16, <1>17, <1>18, <1>19 DEF Inv

LEMMA Resend_Inv ==
    ASSUME Inv, NEW w \in Tasks, Resend(w)
    PROVE  Inv'
<1>1. task[w].pc = "resend" /\ task[w].pending = 0
  BY DEF Resend, Inv, Shapes, Fit
<1>2. /\ Executes(w, task[w].hand, 0) /\ Set(w, [task[w] EXCEPT !.pc = "relay", !.hand = 0])
      /\ inbox' = inbox /\ UNCHANGED <<db, state, user, accepted, conns, refused>>
  BY DEF Resend, bounds
<1> QED
  BY <1>1, <1>2, ExecutesInv

LEMMA Send_Inv ==
    ASSUME Inv, NEW w \in Tasks, Send(w)
    PROVE  Inv'
<1>0. LinkTyped /\ RunsTyped /\ task[w] \in TaskRecord /\ Fit(task[w], accepted, runs)
  BY InRuns DEF Inv, Shapes
<1>1. PICK n \in Runs : n = task[w].hand
  BY <1>0 DEF Send, Fit, TaskRecord
<1>2. /\ task[w].pc = "send" /\ task[w].pending \in {0, n} /\ n # 0
      /\ Set(w, [task[w] EXCEPT !.pc = "relay", !.hand = 0])
      /\ UNCHANGED <<db, state, user, accepted, conns, refused>>
  BY <1>0, <1>1 DEF Send, Fit, bounds
<1> DEFINE envelope == task[w].pending = n
<1>3. CASE /\ envelope => task[w].peer = "modern"
           /\ Executes(w, n, IF envelope THEN n ELSE 0)
           /\ UNCHANGED inbox
  <2> DEFINE id == IF envelope THEN n ELSE 0
  <2>1. /\ id \in Runs \cup {0} /\ Executes(w, task[w].hand, id)
        /\ task[w].pending # 0 => task[w].peer = "modern" /\ id = task[w].hand
        /\ id # 0 => task[w].pending = task[w].hand /\ id = task[w].hand
    BY <1>1, <1>2, <1>3
  <2> HIDE DEF id
  <2> QED
    BY <1>2, <1>3, <2>1, ExecutesInv
<1>4. CASE /\ envelope /\ task[w].peer = "legacy"
           /\ \E f \in {Frame("text", None, 0), Frame("reject", None, n)} :
                  inbox' = [inbox EXCEPT ![w] = Append(@, f)]
           /\ UNCHANGED <<running, runs>>
  <2>1. PICK f \in {Frame("text", None, 0), Frame("reject", None, n)} :
            inbox' = [inbox EXCEPT ![w] = Append(@, f)]
    BY <1>4
  <2>2. f \in Frames /\ f.type \in {"text", "reject"}
    BY <1>1 DEF Frame, Frames
  <2> DEFINE t == [task[w] EXCEPT !.pc = "relay", !.hand = 0]
  <2>3. /\ t \in TaskRecord /\ t.pc = "relay" /\ t.id = task[w].id /\ t.conn = task[w].conn
        /\ t.peer = "legacy" /\ t.hand = 0 /\ t.pending = n /\ Set(w, t)
    BY <1>0, <1>2, <1>4 DEF TaskRecord, TaskSteps
  <2> HIDE DEF t
  <2>4. /\ Fit(t, accepted, runs) /\ Carried(t) = {n} /\ Open(t) \ {0} = {n} /\ Guard(t) = {}
        /\ ~Enveloping(t) /\ t.conn # 0
        /\ Carried(task[w]) = {n} /\ n \in Open(task[w])
    BY <1>0, <1>1, <1>2, <1>4, <2>3 DEF Fit, Carried, Open, Guard, Enveloping
  <2>5. /\ task' \in [Tasks -> TaskRecord] /\ Others(w) /\ task'[w].conn = task[w].conn
        /\ task'[w].id = task[w].id /\ ~Enveloping(task'[w])
    BY <2>3, <2>4, OneTask
  <2>6. /\ inbox' \in [Tasks -> Seq(Frames)] /\ Items(inbox'[w]) = Items(inbox[w]) \cup {f}
        /\ \A v \in Tasks \ {w} : inbox'[v] = inbox[v]
    <3>1. /\ inbox[w] \in Seq(Frames) /\ Append(inbox[w], f) \in Seq(Frames)
          /\ Items(Append(inbox[w], f)) = Items(inbox[w]) \cup {f}
      BY <1>0, <2>2, AppendItems DEF LinkTyped
    <3> QED
      BY <1>0, <2>1, <3>1 DEF LinkTyped
  <2>7. \A g \in Items(inbox'[w]) : Genuine(g, t.peer, runs, running)
    <3>1. Genuine(f, t.peer, runs, running)
      BY <2>2, <2>3 DEF Genuine
    <3>2. task[w].peer = t.peer
      BY <1>4, <2>3
    <3> QED
      BY <2>6, <3>1, <3>2 DEF Inv, Delivered
  <2>8. UNCHANGED <<db, state, user, accepted, conns, refused, running, runs>>
    BY <1>2, <1>4
  <2>9. LinkTyped' /\ RunsTyped' /\ Newest' /\ quiet' \in BOOLEAN /\ SentKept
    BY <1>0, <2>5, <2>6, <2>8 DEF LinkTyped, RunsTyped, Newest, Queued, state, Inv, WebTyped,
       SentKept
  <2>10. Sessions'
    <3>1. \A v \in Tasks : task'[v].conn = task[v].conn /\ task'[v].id = task[v].id
      BY <2>5 DEF Others
    <3>2. \A v \in Tasks : Enveloping(task'[v]) => task'[v].conn \notin refused
      BY <2>5 DEF Others, Inv, Sessions
    <3> QED
      BY <1>0, <2>8, <3>1, <3>2, SessionsKept DEF Inv, state
  <2>11. /\ \A m \in Runs : Claim(m) => Claim(m)'
         /\ Distinct(queue') /\ Items(queue') = Items(queue) /\ UNCHANGED Web
    BY <2>8, ClaimSame DEF state, Inv, Places, Web
  <2> QED
    BY <2>3, <2>4, <2>6, <2>7, <2>9, <2>10, <2>11, RelayInv
<1> QED
  BY <1>1, <1>3, <1>4 DEF Send

LEMMA Rejected_Inv ==
    ASSUME Inv, NEW w \in Tasks, Rejected(w)
    PROVE  Inv'
<1>0. LinkTyped /\ RunsTyped /\ task[w] \in TaskRecord /\ Fit(task[w], accepted, runs)
  BY InRuns DEF Inv, Shapes
<1>1. PICK n \in Runs : n = task[w].pending
  BY <1>0 DEF Rejected, Fit, TaskRecord
<1>2. /\ task[w].pc = "rejected" /\ task[w].hand = 0 /\ n # 0 /\ n <= accepted
      /\ runs[n].id = task[w].id /\ runs[n].tagged /\ task[w].peer = "legacy"
      /\ task[w].conn # 0 /\ task[w].conn \in Conns /\ Carried(task[w]) = {n}
      /\ n \in Open(task[w])
  BY <1>0, <1>1 DEF Rejected, Fit, Carried, Open, TaskRecord
<1>3. /\ cap' = (IF connection = Session(w) THEN "rejected" ELSE cap)
      /\ refused' = refused \cup {task[w].conn} /\ Downgrade(n)
      /\ UNCHANGED <<Web, connection, queue, button, inbox, conns, runs>>
  BY <1>1 DEF Rejected, Negative, Web, bounds
<1> DEFINE t == [task[w] EXCEPT !.pending = 0,
                     !.hand = IF Owns(n) THEN n ELSE 0,
                     !.pc = IF Owns(n) THEN "resend" ELSE "relay"]
<1>4. /\ t \in TaskRecord /\ t.id = task[w].id /\ t.conn = task[w].conn
      /\ t.peer = task[w].peer /\ t.pending = 0
      /\ \/ t.hand = 0 /\ t.pc = "relay"
         \/ t.hand = n /\ t.pc = "resend"
  BY <1>0 DEF TaskRecord, TaskSteps
<1>5. Set(w, t)
  BY <1>1 DEF Rejected
<1> HIDE DEF t
<1>6. /\ Fit(t, accepted, runs) /\ Carried(t) \subseteq {n} /\ Open(t) \ {0} \subseteq {n}
      /\ Guard(t) = {} /\ ~Enveloping(t)
  <2>1. t.pc # "none" /\ t.pc # "connect" /\ t.id # None
    BY <1>0, <1>2, <1>4 DEF Fit
  <2> QED
    BY <1>0, <1>2, <1>4, <2>1 DEF Fit, Carried, Open, Guard, Enveloping
<1>7. /\ task' \in [Tasks -> TaskRecord] /\ Others(w) /\ task'[w].conn = task[w].conn
      /\ task'[w].id = task[w].id /\ ~Enveloping(task'[w]) /\ Guard(task'[w]) = {}
  BY <1>4, <1>5, <1>6, OneTask
<1>8. quiet' \in BOOLEAN /\ tagged' \in [Kinds -> BOOLEAN]
  BY <1>0, <1>3, DowngradeTyped DEF Inv, WebTyped
<1>9. LinkTyped' /\ RunsTyped' /\ Newest' /\ SentKept
  <2>1. LinkTyped'
    BY <1>0, <1>2, <1>3, <1>7 DEF LinkTyped
  <2>2. RunsTyped' /\ Newest' /\ SentKept
    BY <1>0, <1>3, <1>8 DEF RunsTyped, Newest, Queued, Web, SentKept, Inv
  <2> QED
    BY <2>1, <2>2
<1>10. Sessions'
  <2>1. \A v \in Tasks : task'[v].conn = task[v].conn /\ task'[v].id = task[v].id
    BY <1>7 DEF Others
  <2>2. /\ \A v \in Tasks : task'[v].conn <= conns'
        /\ \A u, v \in Tasks : u # v /\ task'[u].conn = task'[v].conn => task'[v].conn = 0
        /\ \A c \in refused' : c <= conns'
    BY <1>3, <2>1 DEF Inv, Sessions
  <2>3. ASSUME connection' # None
        PROVE  /\ connection'[2] <= conns'
               /\ \A v \in Tasks : task'[v].conn = connection'[2] => connection'[1] = task'[v].id
               /\ connection'[2] \in refused' => cap' = "rejected"
    <3>1. connection = <<connection[1], connection[2]>>
      BY <1>0, <1>3, <2>3 DEF LinkTyped
    <3>2. connection[2] = task[w].conn => connection = Session(w)
      BY <1>3, <2>3, <3>1 DEF Session, Inv, Sessions
    <3> QED
      BY <1>3, <2>1, <2>3, <3>2 DEF Inv, Sessions
  <2>4. \A v \in Tasks : Enveloping(task'[v]) => task'[v].conn \notin refused'
    <3> SUFFICES ASSUME NEW v \in Tasks \ {w}, Enveloping(task'[v])
                 PROVE  task'[v].conn \notin refused'
      BY <1>7
    <3>1. task'[v] = task[v] /\ task[v].conn \notin refused
      BY <1>7 DEF Others, Inv, Sessions
    <3>2. task[v].conn # task[w].conn
      BY <1>2 DEF Inv, Sessions
    <3> QED
      BY <1>3, <3>1, <3>2
  <2> QED
    BY <2>2, <2>3, <2>4 DEF Sessions
<1>11. ~Guarded(n)'
  BY <1>2, <1>3, <1>7, CarriedAlone DEF Web
<1>12. \A m \in Runs : Guarded(m)' /\ Guarded(m) /\ runs[m].tagged /\ Claim(m) => Claim(m)'
  <2> SUFFICES ASSUME NEW m \in Runs, Guarded(m)', Guarded(m), Claim(m) PROVE Claim(m)'
    OBVIOUS
  <2>1. m # n /\ runs[m].kind \in Kinds
    BY <1>11, GuardedKnown
  <2>2. \A i \in Runs : runs'[i].kind = runs[i].kind /\ runs'[i].excused = runs[i].excused
    BY <1>3
  <2> QED
    BY <1>0, <1>3, <2>1, <2>2, DowngradeSpares
<1>13. /\ Distinct(queue') /\ Items(queue') = Items(queue) /\ UNCHANGED Web
       /\ t.conn # 0 /\ \A v \in Tasks \ {w} : inbox'[v] = inbox[v]
       /\ \A f \in Items(inbox'[w]) : Genuine(f, t.peer, runs, running)
  BY <1>2, <1>3, <1>4 DEF Inv, Places, Delivered
<1>14. Carried(t) \subseteq Carried(task[w]) /\ Open(t) \ {0} \subseteq Open(task[w])
  BY <1>2, <1>6
<1> QED
  BY <1>4, <1>5, <1>6, <1>8, <1>9, <1>10, <1>12, <1>13, <1>14, RelayInv

LEMMA GenuineFewer ==
    ASSUME NEW f, NEW peer, NEW rs, NEW many, NEW few \in SUBSET many,
           Genuine(f, peer, rs, many)
    PROVE  Genuine(f, peer, rs, few)
BY DEF Genuine

(* A frame is put on its way; the backend may be done with a run.          *)
LEMMA DeliverInv ==
    ASSUME Inv, NEW w \in Tasks, NEW f \in Frames, Deliver(w, f), running' \subseteq running,
           Genuine(f, task[w].peer, runs, running'),
           UNCHANGED <<db, state, task, user, accepted, conns, runs, refused>>
    PROVE  Inv'
<1>0. LinkTyped /\ RunsTyped
  BY DEF Inv
<1>1. /\ inbox' \in [Tasks -> Seq(Frames)] /\ Items(inbox'[w]) = Items(inbox[w]) \cup {f}
      /\ \A v \in Tasks \ {w} : inbox'[v] = inbox[v]
  <2>1. /\ inbox[w] \in Seq(Frames) /\ Append(inbox[w], f) \in Seq(Frames)
        /\ Items(Append(inbox[w], f)) = Items(inbox[w]) \cup {f}
    BY <1>0, AppendItems DEF LinkTyped
  <2> QED
    BY <1>0, <2>1 DEF LinkTyped, Deliver
<1>2. WebTyped' /\ Sessions' /\ Newest' /\ Places' /\ SentKept
  BY DEF Inv, WebTyped, Sessions, Newest, Places, SentKept, state
<1>3. LinkTyped' /\ RunsTyped'
  BY <1>0, <1>1 DEF LinkTyped, RunsTyped, Queued, state
<1>4. Shapes'
  <2>1. task[w].conn # 0
    BY DEF Deliver
  <2>2. \A v \in Tasks : task'[v].conn = 0 => inbox'[v] = <<>>
    BY <1>1, <2>1 DEF Inv, Shapes
  <2>3. \A v \in Tasks : Fit(task'[v], accepted', runs')
    BY DEF Inv, Shapes
  <2> QED
    BY <2>2, <2>3 DEF Shapes
<1>5. Unsent'
  <2>1. /\ \A v \in Tasks : Open(task'[v]) \ {0} \subseteq Open(task[v]) \cup Items(queue)
        /\ Items(queue') \subseteq Items(queue)
    BY DEF state
  <2> QED
    BY <1>0, <1>2, <2>1, UnsentKept DEF Inv
<1>6. Delivered'
  <2>1. \A v \in Tasks : \A g \in Items(inbox[v]) : Genuine(g, task[v].peer, runs, running')
    BY GenuineFewer DEF Inv, Delivered
  <2>2. \A v \in Tasks : \A g \in Items(inbox'[v]) : Genuine(g, task'[v].peer, runs, running')
    BY <1>1, <2>1
  <2> QED
    BY <1>2, <2>2, DeliveredKept
<1>7. Claims'
  <2>1. \A n \in Runs : Claim(n) => Claim(n)'
    BY ClaimSame DEF state
  <2>2. /\ \A v \in Tasks : Guard(task'[v]) \subseteq Guard(task[v]) \cup Items(queue)
        /\ Items(queue') \subseteq Items(queue)
        /\ \A n \in Runs : runs'[n].tagged = runs[n].tagged
    BY DEF state
  <2> QED
    BY <2>1, <2>2, GuardedKept, ClaimsKept DEF Inv
<1> QED
  BY <1>2, <1>3, <1>4, <1>5, <1>6, <1>7 DEF Inv

LEMMA EndObjects ==
    \A k : EndObject(k) \in {"device", "virtual_machine", "full-update"}
BY DEF EndObject

LEMMA ForeignRun == 0 \notin Runs /\ Foreign \notin Runs
BY ConstantsAssumption DEF Runs, Foreign

LEMMA Emit_Inv ==
    ASSUME Inv, NEW w \in Tasks, Emit(w)
    PROVE  Inv'
<1>1. PICK f \in Broadcast \cup UNION {OwnFrames(r) : r \in Here(w)} : Deliver(w, f)
  BY DEF Emit
<1>2. /\ UNCHANGED <<db, state, task, user, accepted, conns, runs, refused>>
      /\ running' = running
  BY DEF Emit, history
<1>3. f \in Frames /\ Genuine(f, task[w].peer, runs, running)
  <2>1. CASE f \in Broadcast
    <3>1. \A o \in Objects : o \in {"device", "virtual_machine", "full-update"}
      BY EndObjects DEF Objects
    <3>2. CASE \E o \in Objects, i \in {0, Foreign} : f = Frame("end", o, i)
      BY <3>1, <3>2, ForeignRun DEF Frame, Frames, Genuine
    <3>3. CASE \E i \in {0, Foreign} : f = Frame("reject", None, i)
      BY <3>3, ForeignRun DEF Frame, Frames, Genuine
    <3>4. CASE f = Frame("malformed", None, 0)
      BY <3>4 DEF Frame, Frames, Genuine
    <3> QED
      BY <2>1, <3>2, <3>3, <3>4 DEF Broadcast
  <2>2. CASE f \in UNION {OwnFrames(r) : r \in Here(w)}
    <3>1. PICK r \in running : f \in OwnFrames(r)
      BY <2>2 DEF Here
    <3>2. r.run \in Runs /\ r.id \in Runs \cup {0} /\ runs[r.run].sent = 1
          /\ (r.id # 0 => r.id = r.run)
      BY InRuns DEF Inv, Unsent
    <3>3. CASE f = Frame("progress", None, r.id)
      BY <3>2, <3>3 DEF Frame, Frames, Genuine
    <3>4. CASE \E o \in {"device", "virtual_machine"} :
                   runs[r.run].kind = "full-update" /\ f = Frame("end", o, r.id)
      BY <3>2, <3>4, ForeignRun DEF Frame, Frames, Genuine
    <3> QED
      BY <3>1, <3>3, <3>4 DEF OwnFrames
  <2> QED
    BY <2>1, <2>2
<1> QED
  BY <1>1, <1>2, <1>3, DeliverInv

LEMMA Finish_Inv ==
    ASSUME Inv, NEW w \in Tasks, Finish(w)
    PROVE  Inv'
<1> DEFINE Last(r) == Frame("end", IF r.id = 0 /\ runs[r.run].kind = "full-update"
                                   THEN "virtual_machine" ELSE EndObject(runs[r.run].kind), r.id)
<1>1. PICK r \in running : running' = running \ {r} /\ Deliver(w, Last(r))
  BY DEF Finish, Here
<1>2. UNCHANGED <<db, state, task, user, accepted, conns, runs, refused>>
  BY DEF Finish, history
<1>3. /\ r.run \in Runs /\ r.id \in Runs \cup {0} /\ runs[r.run].sent = 1
      /\ (r.id # 0 => r.id = r.run) /\ \A q \in running' : q.run # r.run
  BY <1>1, InRuns DEF Inv, Unsent
<1>4. Last(r) \in Frames /\ Genuine(Last(r), task[w].peer, runs, running')
  BY <1>3, EndObjects, ForeignRun DEF Frame, Frames, Genuine
<1> HIDE DEF Last
<1> QED
  BY <1>1, <1>2, <1>4, DeliverInv

(* A terminal that releases a button latched for a tagged run is the last  *)
(* word on that run, so nobody guards it any more.                         *)
LEMMA ReleasedUnguarded ==
    ASSUME Inv, NEW w \in Tasks, NEW f \in Items(inbox[w]), NEW n \in Runs, Owns(n),
           runs[n].kind \in ReleasedBy(f)
    PROVE  ~Guarded(n)
<1>1. Genuine(f, task[w].peer, runs, running)
  BY DEF Inv, Delivered
<1>2. RunId(runs[n].kind) = n /\ n # 0
  BY DEF Owns, RunId, Runs
<1>3. f.type = "end" /\ f.run = n /\ (runs[n].kind = "full-update" => f.object = "full-update")
  BY <1>2 DEF ReleasedBy, RunMatches
<1>4. runs[n].sent = 1 /\ \A r \in running : r.run # n
  BY <1>1, <1>3 DEF Genuine
<1>5. n \notin Items(queue)
  BY <1>4 DEF Inv, Unsent
<1>6. \A v \in Tasks : n \notin Guard(task[v])
  BY <1>4, GuardCarried DEF Inv, Unsent
<1> QED
  BY <1>4, <1>5, <1>6 DEF Guarded

LEMMA Receive_Inv ==
    ASSUME Inv, NEW w \in Tasks, Receive(w)
    PROVE  Inv'
<1>0. LinkTyped /\ RunsTyped /\ task[w] \in TaskRecord /\ Fit(task[w], accepted, runs)
  BY InRuns DEF Inv, Shapes
<1>1. /\ task[w].pc = "relay" /\ inbox[w] # <<>> /\ inbox' = [inbox EXCEPT ![w] = Tail(@)]
      /\ UNCHANGED <<Web, connection, cap, queue, conns, refused>>
  BY DEF Receive, Web, bounds
<1>2. PICK f \in Frames : f = Head(inbox[w]) /\ f \in Items(inbox[w])
  BY <1>0, <1>1, TailItems DEF LinkTyped
<1>3. /\ inbox' \in [Tasks -> Seq(Frames)] /\ Items(inbox'[w]) \subseteq Items(inbox[w])
      /\ \A v \in Tasks \ {w} : inbox'[v] = inbox[v]
  <2>1. /\ inbox[w] \in Seq(Frames) /\ Tail(inbox[w]) \in Seq(Frames)
        /\ Items(Tail(inbox[w])) \subseteq Items(inbox[w])
    BY <1>0, <1>1, TailItems DEF LinkTyped
  <2> QED
    BY <1>0, <1>1, <2>1 DEF LinkTyped
<1>4. PICK n \in {0, task[w].pending} : n = Pending(w)
  BY DEF Pending
<1>5. task[w].hand = 0 /\ task[w].conn # 0 /\ n \in Runs \cup {0}
  BY <1>0, <1>1 DEF Fit, TaskRecord
<1>6. \A g \in Items(inbox'[w]) : Genuine(g, task[w].peer, runs, running)
  BY <1>3 DEF Inv, Delivered
<1>7. UNCHANGED Web /\ Distinct(queue') /\ Items(queue') = Items(queue) /\ queue' = queue
  BY <1>1 DEF Inv, Places
<1>8. ASSUME NEW t \in TaskRecord, Set(w, t), t.conn = task[w].conn, t.id = task[w].id,
             ~Enveloping(t)
      PROVE  LinkTyped' /\ Sessions'
  <2>1. /\ task' \in [Tasks -> TaskRecord] /\ Others(w) /\ task'[w].conn = task[w].conn
        /\ task'[w].id = task[w].id /\ ~Enveloping(task'[w])
    BY <1>8, OneTask
  <2>2. LinkTyped'
    BY <1>0, <1>1, <1>3, <2>1 DEF LinkTyped
  <2>3. \A v \in Tasks : task'[v].conn = task[v].conn /\ task'[v].id = task[v].id
    BY <2>1 DEF Others
  <2>4. \A v \in Tasks : Enveloping(task'[v]) => task'[v].conn \notin refused
    BY <2>1 DEF Others, Inv, Sessions
  <2> QED
    BY <1>0, <1>1, <2>2, <2>3, <2>4, SessionsKept DEF Inv
<1>9. CASE n # 0 /\ Rejects(f, n)
  <2> DEFINE t == [task[w] EXCEPT !.pc = "rejected", !.pending = n]
  <2>1. /\ t \in TaskRecord /\ t.pc = "rejected" /\ t.id = task[w].id /\ t.conn = task[w].conn
        /\ t.peer = task[w].peer /\ t.hand = 0 /\ t.pending = n /\ t.pending = task[w].pending
    BY <1>0, <1>4, <1>5, <1>9 DEF TaskRecord, TaskSteps
  <2>2. Set(w, t) /\ UNCHANGED <<button, tagged, quiet, runs>>
    BY <1>2, <1>4, <1>9 DEF Receive
  <2> HIDE DEF t
  <2>3. task[w].peer = "legacy"
    <3>1. Genuine(f, task[w].peer, runs, running)
      BY <1>2 DEF Inv, Delivered
    <3> QED
      BY <1>5, <1>9, <3>1 DEF Genuine, Rejects
  <2>4. /\ Fit(t, accepted, runs) /\ Carried(t) = Carried(task[w]) /\ Open(t) = Open(task[w])
        /\ Guard(t) = {} /\ ~Enveloping(t)
    BY <1>0, <1>1, <1>5, <1>9, <2>1, <2>3 DEF Fit, Carried, Open, Guard, Enveloping
  <2>5. LinkTyped' /\ Sessions'
    BY <1>8, <2>1, <2>2, <2>4
  <2>6. RunsTyped' /\ Newest' /\ SentKept /\ quiet' \in BOOLEAN
    BY <1>0, <1>1, <2>2 DEF RunsTyped, Newest, Queued, Web, SentKept, Inv, WebTyped
  <2>7. \A m \in Runs : Claim(m) => Claim(m)'
    BY <2>2, ClaimSame
  <2> QED
    BY <1>3, <1>5, <1>6, <1>7, <2>1, <2>2, <2>4, <2>5, <2>6, <2>7, RelayInv
<1>10. CASE ~(n # 0 /\ Rejects(f, n))
  <2> DEFINE t == [task[w] EXCEPT !.pending = IF f.run = n THEN 0 ELSE n]
  <2>1. /\ t \in TaskRecord /\ t.pc = "relay" /\ t.id = task[w].id /\ t.conn = task[w].conn
        /\ t.peer = task[w].peer /\ t.hand = 0 /\ t.pending \in {0, task[w].pending}
    BY <1>0, <1>1, <1>4, <1>5 DEF TaskRecord, TaskSteps
  <2>2. Set(w, t) /\ Publish(f)
    BY <1>2, <1>4, <1>10 DEF Receive
  <2> HIDE DEF t
  <2>3. /\ Fit(t, accepted, runs) /\ Carried(t) \subseteq Carried(task[w])
        /\ Open(t) \ {0} \subseteq Open(task[w]) /\ Guard(t) = {} /\ ~Enveloping(t)
    BY <1>0, <1>1, <1>5, <2>1 DEF Fit, Carried, Open, Guard, Enveloping
  <2>4. LinkTyped' /\ Sessions'
    BY <1>8, <2>1, <2>2, <2>3
  <2>5. /\ button' \in [Kinds -> Runs \cup {0}] /\ tagged' \in [Kinds -> BOOLEAN]
        /\ \A k \in Kinds : button'[k] \in {0, button[k]}
    BY <1>0, <2>2, ReleaseTyped DEF Publish
  <2>6. quiet' \in BOOLEAN
    BY <2>2 DEF Publish
  <2> DEFINE Over(m) == \E k \in ReleasedBy(f) : button[k] = m
  <2>7. \A m \in Runs : Over(m) => m = accepted
    <3>1. \A k \in ReleasedBy(f) : k \in Kinds /\ button[k] # 0
      BY DEF ReleasedBy, Candidates
    <3> QED
      BY <3>1 DEF Inv, Newest
  <2>8. \A m \in Runs : /\ runs[m] \in RunRecord
                        /\ runs'[m] = IF Over(m) THEN [runs[m] EXCEPT !.ended = TRUE] ELSE runs[m]
    BY <1>0, <2>2 DEF Publish, RunsTyped
  <2>9. runs' \in [Runs -> RunRecord]
    <3>1. runs' = [m \in Runs |-> IF Over(m) THEN [runs[m] EXCEPT !.ended = TRUE] ELSE runs[m]]
      BY <2>2 DEF Publish
    <3>2. \A r \in RunRecord : [r EXCEPT !.ended = TRUE] \in RunRecord
      BY DEF RunRecord
    <3> HIDE DEF Over
    <3> QED
      BY <2>8, <3>1, <3>2
  <2> HIDE DEF Over
  <2>10. /\ SentKept /\ \A m \in Runs : runs'[m].excused = runs[m].excused
         /\ \A m \in Runs : runs'[m].ended => runs[m].ended \/ m = accepted
         /\ \A m \in Runs : ~(m <= accepted) => runs'[m] = runs[m]
    <3>1. \A m \in Runs : Over(m) => m <= accepted
      BY <1>0, <2>7 DEF RunsTyped, Runs
    <3> QED
      BY <2>7, <2>8, <3>1 DEF SentKept, RunRecord
  <2>11. RunsTyped'
    <3>1. \A m \in Runs :
             IF m <= accepted THEN runs'[m].kind \in Kinds \ {None} /\ runs'[m].id \in Idents
                              ELSE runs'[m] = NoRun
      BY <1>0, <2>10 DEF RunsTyped, SentKept
    <3> QED
      BY <1>0, <1>1, <2>5, <2>9, <3>1 DEF RunsTyped, Web, Queued
  <2>12. Newest'
    <3>1. \A k \in Kinds : /\ button'[k] \in {0, accepted}
                           /\ button'[k] # 0 => runs'[button'[k]].kind = k
      BY <1>0, <2>5, <2>10 DEF Inv, Newest, RunsTyped, SentKept
    <3>2. \A m \in Runs : /\ \A i \in runs'[m].cursor : i < m
                          /\ runs'[m].ended => m <= accepted
      <4>1. accepted <= accepted
        BY <1>0 DEF RunsTyped
      <4> QED
        BY <2>10, <4>1 DEF Inv, Newest, SentKept
    <3>3. \A i, m \in Runs : runs'[i].ended /\ i < m /\ m <= accepted => i \in runs'[m].cursor
      <4>1. \A m \in Runs : ~(accepted < m /\ m <= accepted)
        BY <1>0 DEF Runs, RunsTyped
      <4> QED
        BY <2>10, <4>1 DEF Inv, Newest, SentKept
    <3> QED
      BY <1>7, <3>1, <3>2, <3>3 DEF Newest, Web
  <2>13. \A m \in Runs : Guarded(m) /\ Claim(m) => Claim(m)'
    <3> SUFFICES ASSUME NEW m \in Runs, Guarded(m), Claim(m) PROVE Claim(m)'
      OBVIOUS
    <3>1. CASE runs[m].excused
      BY <2>10, <3>1 DEF Claim
    <3>2. CASE Owns(m)
      <4>1. runs[m].kind \in Kinds \ ReleasedBy(f)
        BY <1>2, <3>2, GuardedKnown, ReleasedUnguarded
      <4>2. button'[runs[m].kind] = button[runs[m].kind] /\ tagged'[runs[m].kind]
        BY <2>2, <3>2, <4>1 DEF Publish, Release, Owns
      <4> QED
        BY <2>10, <3>2, <4>2 DEF Claim, Owns, SentKept
    <3> QED
      BY <3>1, <3>2 DEF Claim
  <2> QED
    BY <1>3, <1>5, <1>6, <1>7, <2>1, <2>2, <2>3, <2>4, <2>6, <2>10, <2>11, <2>12, <2>13, RelayInv
<1> QED
  BY <1>9, <1>10

---------------------------------------------------------------------------
(* The steps of the web threads.                                           *)

(* A task is at most asked to end, or started where none was.              *)
Calm(s, t) ==
    Alike(s, t) \/ (Bare(s) /\ Bare(t) /\ (s.pc # "none" => s.id # None))

LEMMA CalmReads ==
    ASSUME NEW s \in TaskRecord, NEW t, Calm(s, t)
    PROVE  /\ Carried(s) = Carried(t) /\ Open(s) \ {0} = Open(t) \ {0} /\ Guard(s) = Guard(t)
           /\ (Enveloping(s) <=> Enveloping(t)) /\ s.conn = t.conn
           /\ s.conn = 0 \/ (s.id = t.id /\ s.peer = t.peer)
           /\ Alike(s, t) \/ Fit(s, accepted, runs)
<1>1. CASE Alike(s, t)
  BY <1>1, AlikeReads DEF Alike
<1>2. CASE Bare(s) /\ Bare(t) /\ (s.pc # "none" => s.id # None)
  BY <1>2 DEF Bare, Fit, Carried, Open, Guard, Enveloping
<1> QED
  BY <1>1, <1>2 DEF Calm

Backend == <<inbox, running, accepted, conns, runs, refused>>

LEMMA CalmInv ==
    ASSUME Inv, WebTyped', UNCHANGED Backend, task' \in [Tasks -> TaskRecord],
           \A v \in Tasks : Calm(task'[v], task[v]), queue' \in {queue, <<>>},
           connection' \in {connection, None}, cap' \in {"none", "yes", "no", "rejected"},
           connection' = connection /\ cap = "rejected" => cap' = "rejected",
           button' \in [Kinds -> Runs \cup {0}], tagged' \in [Kinds -> BOOLEAN],
           \A k \in Kinds : button'[k] \in {0, button[k]},
           \A n \in Runs : Guarded(n)' /\ Guarded(n) /\ runs[n].tagged /\ Claim(n) => Claim(n)'
    PROVE  Inv'
<1>0. LinkTyped /\ RunsTyped
  BY DEF Inv
<1>1. /\ inbox' = inbox /\ running' = running /\ accepted' = accepted /\ conns' = conns
      /\ runs' = runs /\ refused' = refused
  BY DEF Backend
<1>2. \A v \in Tasks :
         /\ Carried(task'[v]) = Carried(task[v]) /\ Open(task'[v]) \ {0} = Open(task[v]) \ {0}
         /\ Guard(task'[v]) = Guard(task[v]) /\ (Enveloping(task'[v]) <=> Enveloping(task[v]))
         /\ task'[v].conn = task[v].conn
         /\ task'[v].conn = 0 \/ (task'[v].id = task[v].id /\ task'[v].peer = task[v].peer)
         /\ Alike(task'[v], task[v]) \/ Fit(task'[v], accepted, runs)
  BY CalmReads
<1>3. Items(queue') \subseteq Items(queue) /\ Distinct(queue')
  BY QueueKept DEF Inv, Places
<1>4. SentKept /\ RunsKept /\ accepted' \in 0..MaxRuns
  BY <1>0, <1>1 DEF SentKept, RunsKept, RunsTyped
<1>5. LinkTyped'
  BY <1>0, <1>1 DEF LinkTyped
<1>6. RunsTyped'
  <2>1. queue' \in Seq(Runs) /\ Len(queue') <= MaxQueue
    <3>1. Len(<<>>) <= MaxQueue /\ <<>> \in Seq(Runs)
      BY ConstantsAssumption
    <3> QED
      BY <1>0, <3>1 DEF RunsTyped
  <2>2. \A n \in Queued' : n <= accepted
    <3>1. \A n \in Items(queue') : n <= accepted
      BY <1>0, <1>3, QueuedItems DEF RunsTyped
    <3> QED
      BY <3>1 DEF Queued, Items
  <2> QED
    BY <1>0, <1>1, <2>1, <2>2 DEF RunsTyped
<1>7. Shapes'
  <2>1. \A v \in Tasks : task'[v].conn = 0 => inbox'[v] = <<>>
    BY <1>1, <1>2 DEF Inv, Shapes
  <2> QED
    BY <1>0, <1>1, <1>2, <1>4, <2>1, ShapesKept DEF Inv
<1>8. Places'
  BY <1>2, <1>3, PlacesKept DEF Inv
<1>9. Unsent'
  <2>1. \A v \in Tasks : Open(task'[v]) \ {0} \subseteq Open(task[v]) \cup Items(queue)
    BY <1>2
  <2> QED
    BY <1>0, <1>1, <1>3, <1>4, <2>1, UnsentKept DEF Inv
<1>10. Delivered'
  <2>1. \A v \in Tasks : task'[v].conn = 0 => Items(inbox'[v]) = {}
    BY <1>7, EmptyItems DEF Shapes
  <2>2. \A v \in Tasks : \A f \in Items(inbox'[v]) : Genuine(f, task'[v].peer, runs, running')
    BY <1>1, <1>2, <2>1 DEF Inv, Delivered
  <2> QED
    BY <1>4, <2>2, DeliveredKept
<1>11. Claims'
  <2>1. /\ \A v \in Tasks : Guard(task'[v]) \subseteq Guard(task[v]) \cup Items(queue)
        /\ \A n \in Runs : runs'[n].tagged = runs[n].tagged
    BY <1>1, <1>2
  <2> QED
    BY <1>1, <1>3, <2>1, GuardedKept, ClaimsKept DEF Inv
<1>12. Sessions'
  <2>1. /\ \A v \in Tasks : \/ task'[v].conn = 0
                            \/ task'[v].conn = task[v].conn /\ task'[v].id = task[v].id
        /\ \A v \in Tasks : Enveloping(task'[v]) => task'[v].conn \notin refused
    BY <1>2 DEF Inv, Sessions
  <2> QED
    BY <1>0, <1>1, <2>1, SessionsKept DEF Inv
<1>13. Newest'
  BY <1>0, <1>1, <1>4, NewestKept DEF Inv
<1> QED
  BY <1>5, <1>6, <1>7, <1>8, <1>9, <1>10, <1>11, <1>12, <1>13 DEF Inv

(* The steps that change neither tasks nor buttons.                        *)
LEMMA WebOnly ==
    ASSUME Inv, WebTyped', UNCHANGED <<connection, queue, button, tagged, task>>,
           UNCHANGED Backend, cap' \in {"none", "yes", "no", "rejected"},
           cap = "rejected" => cap' = "rejected"
    PROVE  Inv'
<1>0. LinkTyped /\ RunsTyped
  BY DEF Inv
<1>1. \A v \in Tasks : Calm(task'[v], task[v])
  BY DEF Calm, Alike
<1>2. \A n \in Runs : Claim(n) => Claim(n)'
  BY ClaimSame DEF Backend
<1>3. /\ task' \in [Tasks -> TaskRecord] /\ button' \in [Kinds -> Runs \cup {0}]
      /\ tagged' \in [Kinds -> BOOLEAN] /\ \A k \in Kinds : button'[k] \in {0, button[k]}
      /\ queue' \in {queue, <<>>} /\ connection' \in {connection, None}
  BY <1>0 DEF LinkTyped, RunsTyped
<1> QED
  BY <1>1, <1>2, <1>3, CalmInv

LEMMA Commit_Inv ==
    ASSUME Inv, NEW e \in Endpoints, Commit(e)
    PROVE  Inv'
<1>1. /\ db' \in [Endpoints -> Keys \cup {"off", "bare"}]
      /\ UNCHANGED <<worker, workerId, user, quiet>>
  BY DEF Commit, Inv, WebTyped, state
<1>2. WebTyped'
  BY <1>1 DEF Inv, WebTyped
<1>3. UNCHANGED <<connection, queue, button, tagged, task, cap>> /\ UNCHANGED Backend
  BY DEF Commit, state, Backend, history
<1>4. cap' \in {"none", "yes", "no", "rejected"} /\ cap' = cap
  BY <1>3 DEF Inv, LinkTyped
<1> QED
  BY <1>2, <1>3, <1>4, WebOnly

LEMMA TimePasses_Inv ==
    ASSUME Inv, TimePasses
    PROVE  Inv'
<1>1. WebTyped'
  BY DEF TimePasses, Inv, WebTyped
<1>2. UNCHANGED <<connection, queue, button, tagged, task, cap>> /\ UNCHANGED Backend
  BY DEF TimePasses, Backend, bounds, history
<1>3. cap' \in {"none", "yes", "no", "rejected"} /\ cap' = cap
  BY <1>2 DEF Inv, LinkTyped
<1> QED
  BY <1>1, <1>2, <1>3, WebOnly

LEMMA CapabilityExpires_Inv ==
    ASSUME Inv, CapabilityExpires
    PROVE  Inv'
<1>1. WebTyped'
  BY DEF CapabilityExpires, Inv, WebTyped
<1>2. UNCHANGED <<connection, queue, button, tagged, task>> /\ UNCHANGED Backend
  BY DEF CapabilityExpires, Backend, bounds, history
<1>3. cap' \in {"none", "yes", "no", "rejected"} /\ cap # "rejected"
  BY DEF CapabilityExpires
<1> QED
  BY <1>1, <1>2, <1>3, WebOnly

(* One web thread goes on.                                                 *)
LEMMA UserTyped ==
    ASSUME WebTyped, db' = db, quiet' \in BOOLEAN, worker' \in Tasks \cup {None},
           workerId' \in Idents \cup {None}, NEW u \in Users, NEW p \in UserRecord,
           user' = [user EXCEPT ![u] = p],
           p.pc \in {"load", "start"} => p.id \in Endpoints \X (Keys \cup {"bare"}),
           p.pc \in {"context", "probe", "queue"} => p.kind \in Kinds \ {None} /\ p.id \in Idents
    PROVE  WebTyped'
<1>1. user' \in [Users -> UserRecord] /\ user'[u] = p
      /\ \A v \in Users \ {u} : user'[v] = user[v]
  BY DEF WebTyped
<1>2. ASSUME NEW v \in Users
      PROVE  /\ user'[v].pc \in {"load", "start"} => user'[v].id \in Endpoints \X (Keys \cup {"bare"})
             /\ user'[v].pc \in {"context", "probe", "queue"} =>
                   user'[v].kind \in Kinds \ {None} /\ user'[v].id \in Idents
  <2>1. CASE v = u
    BY <1>1, <2>1
  <2>2. CASE v # u
    BY <1>1, <2>2 DEF WebTyped
  <2> QED
    BY <2>1, <2>2
<1> QED
  BY <1>1, <1>2 DEF WebTyped

LEMMA Request_Inv ==
    ASSUME Inv, NEW u \in Users, NEW k \in Kinds \cup {None}, Request(u, k)
    PROVE  Inv'
<1>1. PICK e \in Endpoints :
          user' = [user EXCEPT ![u] =
                      [NoUser EXCEPT !.pc = "load", !.kind = k, !.id = <<e, "bare">>]]
  BY DEF Request
<1> DEFINE p == [NoUser EXCEPT !.pc = "load", !.kind = k, !.id = <<e, "bare">>]
<1>2. <<e, "bare">> \in Endpoints \X (Keys \cup {"bare"})
  OBVIOUS
<1>3. p \in UserRecord /\ p.pc = "load" /\ p.id = <<e, "bare">>
  BY <1>2 DEF NoUser, UserRecord
<1>4. p.id \in Endpoints \X (Keys \cup {"bare"})
  BY <1>2, <1>3
<1>5. user' = [user EXCEPT ![u] = p]
  BY <1>1
<1> HIDE DEF p
<1>6. /\ db' = db /\ quiet' \in BOOLEAN /\ worker' \in Tasks \cup {None}
      /\ workerId' \in Idents \cup {None}
  BY DEF Request, state, Inv, WebTyped
<1>7. WebTyped'
  BY <1>3, <1>4, <1>5, <1>6, UserTyped DEF Inv
<1>8. UNCHANGED <<connection, queue, button, tagged, task, cap>> /\ UNCHANGED Backend
  BY DEF Request, state, Backend, bounds, history
<1>9. cap' \in {"none", "yes", "no", "rejected"} /\ cap' = cap
  BY <1>8 DEF Inv, LinkTyped
<1> QED
  BY <1>7, <1>8, <1>9, WebOnly

LEMMA Load_Inv ==
    ASSUME Inv, NEW u \in Users, Load(u)
    PROVE  Inv'
<1> DEFINE e == user[u].id[1]
           i == <<e, IF db[e] = "off" THEN "bare" ELSE db[e]>>
           p == [user[u] EXCEPT !.pc = "start", !.id = i]
<1>1. user[u] \in UserRecord /\ user[u].id \in Endpoints \X (Keys \cup {"bare"})
  BY DEF Load, Inv, WebTyped
<1>2. i \in Endpoints \X (Keys \cup {"bare"})
  BY <1>1 DEF Inv, WebTyped
<1>3. user' = [user EXCEPT ![u] = p]
  BY DEF Load
<1> HIDE DEF i
<1>4. p \in UserRecord /\ p.pc = "start" /\ p.id \in Endpoints \X (Keys \cup {"bare"})
  BY <1>1, <1>2 DEF UserRecord
<1> HIDE DEF p
<1>5. /\ db' = db /\ quiet' \in BOOLEAN /\ worker' \in Tasks \cup {None}
      /\ workerId' \in Idents \cup {None}
  BY DEF Load, state, Inv, WebTyped
<1>6. WebTyped'
  BY <1>3, <1>4, <1>5, UserTyped DEF Inv
<1>7. UNCHANGED <<connection, queue, button, tagged, task, cap>> /\ UNCHANGED Backend
  BY DEF Load, state, Backend, bounds, history
<1>8. cap' \in {"none", "yes", "no", "rejected"} /\ cap' = cap
  BY <1>7 DEF Inv, LinkTyped
<1> QED
  BY <1>6, <1>7, <1>8, WebOnly

LEMMA Probe_Inv ==
    ASSUME Inv, NEW u \in Users, Probe(u)
    PROVE  Inv'
<1> DEFINE valid == connection = user[u].conn /\ cap # "rejected"
<1>1. PICK yes \in BOOLEAN :
          /\ cap' = IF valid THEN (IF yes THEN "yes" ELSE "no") ELSE cap
          /\ user' = [user EXCEPT ![u].pc = "queue", ![u].tag = valid /\ yes]
  BY DEF Probe
<1> DEFINE p == [user[u] EXCEPT !.pc = "queue", !.tag = valid /\ yes]
<1>2. /\ user[u] \in UserRecord /\ user[u].pc = "probe" /\ user[u].id \in Idents
      /\ user[u].kind \in Kinds \ {None}
  BY DEF Probe, Inv, WebTyped
<1>3. p \in UserRecord /\ p.pc = "queue" /\ p.id \in Idents /\ p.kind \in Kinds \ {None}
  BY <1>2 DEF UserRecord
<1>4. user' = [user EXCEPT ![u] = p]
  BY <1>1
<1>5. cap' \in {"none", "yes", "no", "rejected"} /\ (cap = "rejected" => cap' = "rejected")
  BY <1>1 DEF Inv, LinkTyped
<1> HIDE DEF p, valid
<1>6. /\ db' = db /\ quiet' \in BOOLEAN /\ worker' \in Tasks \cup {None}
      /\ workerId' \in Idents \cup {None}
  BY DEF Probe, Inv, WebTyped
<1>7. WebTyped'
  BY <1>3, <1>4, <1>6, UserTyped DEF Inv
<1>8. UNCHANGED <<connection, queue, button, tagged, task>> /\ UNCHANGED Backend
  BY DEF Probe, Backend, bounds, history
<1> QED
  BY <1>5, <1>7, <1>8, WebOnly

(* The worker is asked to end; no task changes otherwise.                  *)
LEMMA CancelledTasks ==
    ASSUME LinkTyped
    PROVE  /\ Cancelled(task) \in [Tasks -> TaskRecord]
           /\ \A v \in Tasks : Alike(Cancelled(task)[v], task[v])
<1>1. \A t \in TaskRecord : /\ [t EXCEPT !.cancel = "asked"] \in TaskRecord
                            /\ Alike([t EXCEPT !.cancel = "asked"], t) /\ Alike(t, t)
  BY DEF TaskRecord, Alike
<1> QED
  BY <1>1 DEF LinkTyped, Cancelled

(* The queue is discarded: whoever still guards a command never queued it. *)
LEMMA DiscardSpares ==
    ASSUME Inv, Release(Dropped(Queued)), queue' = <<>>, runs' = runs, running' = running,
           \A v \in Tasks : Guard(task'[v]) = Guard(task[v])
    PROVE  \A n \in Runs : Guarded(n)' /\ Guarded(n) /\ runs[n].tagged /\ Claim(n) => Claim(n)'
<1> SUFFICES ASSUME NEW n \in Runs, Guarded(n)', Guarded(n), Claim(n) PROVE Claim(n)'
  OBVIOUS
<1>1. n \notin Items(queue)
  <2>1. CASE n \in Items(queue')
    BY <2>1, EmptyItems
  <2>2. CASE \E v \in Tasks : n \in Guard(task'[v])
    BY <2>2, GuardCarried DEF Inv, Places
  <2>3. CASE \E r \in running' : r.run = n /\ r.id # 0
    BY <2>3 DEF Inv, Unsent
  <2> QED
    BY <2>1, <2>2, <2>3 DEF Guarded
<1>2. Queued \in SUBSET Runs /\ n \notin Queued
  BY <1>1, QueuedItems, InRuns DEF Inv
<1>3. runs[n].kind \in Kinds
  BY GuardedKnown
<1> QED
  BY <1>2, <1>3, DroppedSpares

(* What stop_websocket leaves.                                             *)
LEMMA StopParts ==
    ASSUME Inv, NEW e, Stop(e), runs' = runs, running' = running
    PROVE  /\ task' \in [Tasks -> TaskRecord] /\ \A v \in Tasks : Calm(task'[v], task[v])
           /\ queue' \in {queue, <<>>} /\ connection' \in {connection, None}
           /\ cap' \in {"none", "yes", "no", "rejected"}
           /\ connection' = connection /\ cap = "rejected" => cap' = "rejected"
           /\ button' \in [Kinds -> Runs \cup {0}] /\ tagged' \in [Kinds -> BOOLEAN]
           /\ \A k \in Kinds : button'[k] \in {0, button[k]}
           /\ \A n \in Runs : Guarded(n)' /\ Guarded(n) /\ runs[n].tagged /\ Claim(n) => Claim(n)'
           /\ worker' \in Tasks \cup {None} /\ workerId' \in Idents \cup {None}
           /\ quiet' = quiet
<1>0. LinkTyped /\ RunsTyped
  BY DEF Inv
<1>1. CASE UNCHANGED <<state, task>>
  <2>1. \A v \in Tasks : Calm(task'[v], task[v])
    BY <1>1 DEF Calm, Alike
  <2>2. \A n \in Runs : Claim(n) => Claim(n)'
    BY <1>1, ClaimSame DEF state
  <2> QED
    BY <1>0, <1>1, <2>1, <2>2 DEF state, LinkTyped, RunsTyped, Inv, WebTyped
<1>2. CASE /\ worker' = None /\ workerId' = None /\ task' = Cancelled(task)
           /\ IF connection # None /\ connection[1][1] = e
              THEN connection' = None /\ cap' = "none"
              ELSE UNCHANGED <<connection, cap>>
           /\ Release(Dropped(Queued)) /\ queue' = <<>> /\ UNCHANGED quiet
  <2>1. task' \in [Tasks -> TaskRecord] /\ \A v \in Tasks : Alike(task'[v], task[v])
    BY <1>0, <1>2, CancelledTasks
  <2>2. \A v \in Tasks : Calm(task'[v], task[v]) /\ Guard(task'[v]) = Guard(task[v])
    BY <2>1, AlikeReads DEF Calm
  <2>3. /\ button' \in [Kinds -> Runs \cup {0}] /\ tagged' \in [Kinds -> BOOLEAN]
        /\ \A k \in Kinds : button'[k] \in {0, button[k]}
    BY <1>0, <1>2, ReleaseTyped
  <2>4. \A n \in Runs : Guarded(n)' /\ Guarded(n) /\ runs[n].tagged /\ Claim(n) => Claim(n)'
    BY <1>2, <2>2, DiscardSpares
  <2>5. /\ connection' \in {connection, None} /\ cap' \in {"none", "yes", "no", "rejected"}
        /\ connection' = connection /\ cap = "rejected" => cap' = "rejected"
    BY <1>0, <1>2 DEF LinkTyped
  <2> QED
    BY <1>2, <2>1, <2>2, <2>3, <2>4, <2>5
<1> QED
  BY <1>1, <1>2 DEF Stop

LEMMA Save_Inv ==
    ASSUME Inv, NEW e \in Endpoints, Save(e)
    PROVE  Inv'
<1>1. Stop(e) /\ UNCHANGED <<db, user>> /\ UNCHANGED Backend /\ runs' = runs
      /\ running' = running
  BY DEF Save, Backend, history
<1>2. /\ worker' \in Tasks \cup {None} /\ workerId' \in Idents \cup {None} /\ quiet' = quiet
  BY <1>1, StopParts
<1>3. WebTyped'
  BY <1>1, <1>2 DEF Inv, WebTyped
<1> QED
  BY <1>1, <1>3, StopParts, CalmInv

LEMMA IdleUser == NoUser \in UserRecord /\ NoUser.pc = "idle"
BY DEF NoUser, UserRecord

LEMMA ContextTyped ==
    ASSUME Inv, NEW u \in Users, NEW id \in Idents
    PROVE  /\ Context(u, id) \in UserRecord /\ Context(u, id).pc \in {"probe", "queue"}
           /\ Context(u, id).kind = user[u].kind /\ Context(u, id).id = id
<1> DEFINE own == connection # None /\ connection[1] = id
           c == IF own THEN connection ELSE None
           g == own /\ cap = "yes"
           q == IF own /\ cap = "none" THEN "probe" ELSE "queue"
<1>1. user[u] \in UserRecord
  BY DEF Inv, WebTyped
<1>2. /\ c \in (Idents \X Conns) \cup {None} /\ g \in BOOLEAN /\ q \in {"probe", "queue"}
  BY DEF Inv, LinkTyped
<1>3. Context(u, id) = [user[u] EXCEPT !.id = id, !.conn = c, !.tag = g, !.pc = q]
  BY DEF Context
<1>4. id \in Endpoints \X (Keys \cup {"bare"})
  BY DEF Idents
<1> HIDE DEF c, g, q
<1> QED
  BY <1>1, <1>2, <1>3, <1>4 DEF UserRecord

LEMMA Dispatch_Inv ==
    ASSUME Inv, NEW u \in Users, Dispatch(u)
    PROVE  Inv'
<1>1. user[u].kind \in Kinds \ {None} /\ workerId \in Idents \cup {None}
  BY DEF Dispatch, Inv, WebTyped
<1>2. /\ db' = db /\ quiet' \in BOOLEAN /\ worker' \in Tasks \cup {None}
      /\ workerId' \in Idents \cup {None}
  BY DEF Dispatch, state, Inv, WebTyped
<1>3. WebTyped'
  <2>1. CASE workerId # None /\ workerId[1] = user[u].id[1]
    <3>1. user' = [user EXCEPT ![u] = Context(u, workerId)]
      BY <2>1 DEF Dispatch
    <3>2. /\ Context(u, workerId) \in UserRecord
          /\ Context(u, workerId).pc \in {"probe", "queue"}
          /\ Context(u, workerId).kind \in Kinds \ {None} /\ Context(u, workerId).id \in Idents
      BY <1>1, <2>1, ContextTyped
    <3> QED
      BY <1>2, <3>1, <3>2, UserTyped DEF Inv
  <2>2. CASE Leave(u)
    BY <1>2, <2>2, UserTyped, IdleUser DEF Inv, Leave
  <2> QED
    BY <2>1, <2>2 DEF Dispatch
<1>4. UNCHANGED <<connection, queue, button, tagged, task, cap>> /\ UNCHANGED Backend
  BY DEF Dispatch, state, Backend, bounds, history
<1>5. cap' \in {"none", "yes", "no", "rejected"} /\ cap' = cap
  BY <1>4 DEF Inv, LinkTyped
<1> QED
  BY <1>3, <1>4, <1>5, WebOnly

LEMMA Start_Inv ==
    ASSUME Inv, NEW u \in Users, Start(u)
    PROVE  Inv'
<1>0. LinkTyped /\ RunsTyped /\ WebTyped
  BY DEF Inv
<1>1. PICK id \in Endpoints \X (Keys \cup {"bare"}) : id = user[u].id
  BY <1>0 DEF Start, WebTyped
<1>2. UNCHANGED db /\ UNCHANGED Backend /\ runs' = runs /\ running' = running
  BY DEF Start, Backend, bounds, history
<1>3. CASE Stop(id[1]) /\ Leave(u)
  <2>1. /\ worker' \in Tasks \cup {None} /\ workerId' \in Idents \cup {None} /\ quiet' = quiet
    BY <1>2, <1>3, StopParts
  <2>2. quiet' \in BOOLEAN
    BY <1>0, <2>1 DEF WebTyped
  <2>3. WebTyped'
    BY <1>0, <1>2, <1>3, <2>1, <2>2, UserTyped, IdleUser DEF Leave
  <2> QED
    BY <1>2, <1>3, <2>3, StopParts, CalmInv
<1>4. CASE id[2] # "bare"
  <2> DEFINE p == IF user[u].kind = None THEN NoUser ELSE [user[u] EXCEPT !.pc = "context"]
             stays == worker # None /\ task[worker].pc # "none" /\ workerId = id
  <2>1. id \in Idents
    BY <1>4 DEF Idents
  <2>2. /\ p \in UserRecord /\ p.pc \in {"idle", "context"}
        /\ p.pc \in {"context", "probe", "queue"} => p.kind \in Kinds \ {None} /\ p.id \in Idents
    <3>1. user[u].kind \in Kinds \cup {None} /\ user[u] \in UserRecord
      BY <1>0 DEF WebTyped, UserRecord
    <3>2. CASE user[u].kind = None
      BY <3>2, IdleUser
    <3>3. CASE user[u].kind # None
      BY <1>1, <2>1, <3>1, <3>3 DEF UserRecord
    <3> QED
      BY <3>2, <3>3
  <2>3. user' = [user EXCEPT ![u] = p]
    BY <1>1, <1>4 DEF Start
  <2> HIDE DEF p
  <2>4. CASE stays
    <3>1. UNCHANGED <<state, task>>
      BY <1>1, <1>4, <2>4 DEF Start
    <3>2. WebTyped'
      BY <1>0, <1>2, <2>2, <2>3, <3>1, UserTyped DEF WebTyped, state
    <3>3. UNCHANGED <<connection, queue, button, tagged, task, cap>>
      BY <3>1 DEF state
    <3>4. cap' \in {"none", "yes", "no", "rejected"} /\ cap' = cap
      BY <1>0, <3>3 DEF LinkTyped
    <3> QED
      BY <1>2, <3>2, <3>3, <3>4, WebOnly
  <2>5. CASE ~stays
    <3>1. PICK w \in Tasks : /\ task[w].pc = "none" /\ worker' = w
                             /\ task' = [Cancelled(task) EXCEPT ![w] =
                                            [NoTask EXCEPT !.pc = "connect", !.id = id]]
      BY <1>1, <1>4, <2>5 DEF Start
    <3>2. /\ workerId' = id /\ UNCHANGED <<connection, cap, quiet>>
          /\ IF workerId = None THEN UNCHANGED <<queue, button, tagged>>
             ELSE Release(Dropped(Queued)) /\ queue' = <<>>
      BY <1>1, <1>4, <2>5 DEF Start
    <3> DEFINE t == [NoTask EXCEPT !.pc = "connect", !.id = id]
    <3>3. t \in TaskRecord /\ Bare(t) /\ t.id # None
      BY <2>1, BareNoTask, IdentsNotNone
    <3>4. Bare(task[w])
      BY <3>1 DEF Inv, Shapes, Fit, Bare
    <3>5. task' = [Cancelled(task) EXCEPT ![w] = t]
      BY <3>1
    <3> HIDE DEF t
    <3>6. task' \in [Tasks -> TaskRecord] /\ \A v \in Tasks : Calm(task'[v], task[v])
      <4>1. /\ Cancelled(task) \in [Tasks -> TaskRecord]
            /\ \A v \in Tasks : Alike(Cancelled(task)[v], task[v])
        BY <1>0, CancelledTasks
      <4>2. task' \in [Tasks -> TaskRecord] /\ task'[w] = t
            /\ \A v \in Tasks \ {w} : task'[v] = Cancelled(task)[v]
        BY <3>3, <3>5, <4>1
      <4>3. Calm(task'[w], task[w])
        BY <3>3, <3>4, <4>2 DEF Calm
      <4>4. \A v \in Tasks \ {w} : Calm(task'[v], task[v])
        BY <4>1, <4>2 DEF Calm
      <4> QED
        BY <4>2, <4>3, <4>4
    <3>7. \A v \in Tasks : Guard(task'[v]) = Guard(task[v])
      BY <3>6, CalmReads
    <3>8. WebTyped'
      <4>1. worker' \in Tasks \cup {None} /\ workerId' \in Idents \cup {None} /\ quiet' \in BOOLEAN
        BY <1>0, <2>1, <3>1, <3>2 DEF WebTyped
      <4> QED
        BY <1>0, <1>2, <2>2, <2>3, <4>1, UserTyped
    <3>9. /\ button' \in [Kinds -> Runs \cup {0}] /\ tagged' \in [Kinds -> BOOLEAN]
          /\ \A k \in Kinds : button'[k] \in {0, button[k]} /\ queue' \in {queue, <<>>}
      <4>1. CASE UNCHANGED <<queue, button, tagged>>
        BY <1>0, <4>1 DEF RunsTyped
      <4>2. CASE Release(Dropped(Queued)) /\ queue' = <<>>
        BY <1>0, <4>2, ReleaseTyped
      <4> QED
        BY <3>2, <4>1, <4>2
    <3>10. \A n \in Runs : Guarded(n)' /\ Guarded(n) /\ runs[n].tagged /\ Claim(n) => Claim(n)'
      <4>1. CASE UNCHANGED <<queue, button, tagged>>
        BY <1>2, <4>1, ClaimSame
      <4>2. CASE Release(Dropped(Queued)) /\ queue' = <<>>
        BY <1>2, <3>7, <4>2, DiscardSpares
      <4> QED
        BY <3>2, <4>1, <4>2
    <3>11. cap' \in {"none", "yes", "no", "rejected"} /\ connection' = connection /\ cap' = cap
           /\ queue' \in {queue, <<>>}
      BY <1>0, <3>2 DEF LinkTyped
    <3> QED
      BY <1>2, <3>6, <3>8, <3>9, <3>10, <3>11, CalmInv
  <2> QED
    BY <2>4, <2>5
<1> QED
  BY <1>1, <1>3, <1>4 DEF Start

(* A POST is accepted: its run is new to every part, and the runs whose    *)
(* buttons an idle latch gives up are excused.                             *)
Fresh(n, k, id) ==
    /\ runs'[n].kind = k /\ runs'[n].id = id
    /\ runs'[n].cursor = Ended /\ runs'[n].sent = 0 /\ runs'[n].to = {}
    /\ runs'[n].ended = FALSE
    /\ button'[k] = n /\ (runs'[n].tagged => tagged'[k])
    /\ \A b \in Kinds \ {k} : button'[b] = 0

Older(m) ==
    /\ runs'[m].kind = runs[m].kind /\ runs'[m].id = runs[m].id
    /\ runs'[m].tagged = runs[m].tagged /\ runs'[m].cursor = runs[m].cursor
    /\ runs'[m].sent = runs[m].sent /\ runs'[m].to = runs[m].to
    /\ runs'[m].ended = runs[m].ended
    /\ runs[m].excused \/ m \in Latched => runs'[m].excused

LEMMA AcceptedRuns ==
    ASSUME Inv, NEW u \in Users, user[u].pc = "queue", workerId = user[u].id,
           NEW n \in Runs, n = accepted + 1,
           button' = [b \in Kinds |-> IF b = user[u].kind THEN n ELSE 0],
           tagged' = [b \in Kinds |-> b = user[u].kind /\ Fits /\ user[u].tag],
           runs' = [m \in Runs |->
               IF m = n
               THEN [NoRun EXCEPT !.kind = user[u].kind, !.id = workerId, !.cursor = Cursor(n),
                                  !.tagged = Fits /\ user[u].tag]
               ELSE [runs[m] EXCEPT !.excused = @ \/ m \in Latched]]
    PROVE  /\ button' \in [Kinds -> Runs \cup {0}] /\ tagged' \in [Kinds -> BOOLEAN]
           /\ runs' \in [Runs -> RunRecord]
           /\ Fresh(n, user[u].kind, workerId) /\ \A m \in Runs \ {n} : Older(m)
           /\ \A m \in Runs : ~(m <= n) => runs'[m] = NoRun
           /\ user[u].kind \in Kinds \ {None} /\ workerId \in Idents
<1>0. LinkTyped /\ RunsTyped /\ WebTyped
  BY DEF Inv
<1>1. PICK k \in Kinds \ {None} : k = user[u].kind
  BY <1>0 DEF WebTyped
<1>2. workerId \in Idents /\ accepted \in Nat /\ n = accepted + 1 /\ 0 \notin Runs /\ n \in Nat
  BY <1>0 DEF WebTyped, RunsTyped, Runs
<1> DEFINE g == Fits /\ user[u].tag
<1>3. g \in BOOLEAN
  OBVIOUS
<1>5. Ended \in SUBSET Runs
  BY DEF Ended
<1>6. /\ runs'[n] \in RunRecord
      /\ runs'[n].kind = k /\ runs'[n].id = workerId /\ runs'[n].tagged = g
      /\ runs'[n].cursor = Ended /\ runs'[n].sent = 0 /\ runs'[n].to = {}
      /\ runs'[n].ended = FALSE
  <2>1. runs'[n] = [NoRun EXCEPT !.kind = k, !.id = workerId, !.cursor = Ended, !.tagged = g]
    BY <1>1 DEF Cursor
  <2> HIDE DEF g
  <2> QED
    BY <1>2, <1>3, <1>5, <2>1 DEF NoRun, RunRecord
<1>7. \A m \in Runs \ {n} :
         /\ runs'[m] \in RunRecord /\ runs[m] \in RunRecord
         /\ runs'[m].kind = runs[m].kind /\ runs'[m].id = runs[m].id
         /\ runs'[m].tagged = runs[m].tagged /\ runs'[m].cursor = runs[m].cursor
         /\ runs'[m].sent = runs[m].sent /\ runs'[m].to = runs[m].to
         /\ runs'[m].ended = runs[m].ended
         /\ runs[m].excused => runs'[m].excused
         /\ m \in Latched => runs'[m].excused
  <2> SUFFICES ASSUME NEW m \in Runs \ {n}
               PROVE  /\ runs'[m] \in RunRecord /\ runs[m] \in RunRecord
                      /\ runs'[m].kind = runs[m].kind /\ runs'[m].id = runs[m].id
                      /\ runs'[m].tagged = runs[m].tagged /\ runs'[m].cursor = runs[m].cursor
                      /\ runs'[m].sent = runs[m].sent /\ runs'[m].to = runs[m].to
                      /\ runs'[m].ended = runs[m].ended
                      /\ runs[m].excused => runs'[m].excused
                      /\ m \in Latched => runs'[m].excused
    OBVIOUS
  <2> DEFINE x == runs[m].excused \/ m \in Latched
  <2>1. runs'[m] = [runs[m] EXCEPT !.excused = x] /\ x \in BOOLEAN
    OBVIOUS
  <2>2. (runs[m].excused => x) /\ (m \in Latched => x)
    OBVIOUS
  <2>3. runs[m] \in RunRecord
    BY <1>0 DEF RunsTyped
  <2> HIDE DEF x
  <2> QED
    BY <2>1, <2>2, <2>3 DEF RunRecord
<1>8. \A m \in Runs : ~(m <= n) => runs'[m] = NoRun
  <2> SUFFICES ASSUME NEW m \in Runs, ~(m <= n) PROVE runs'[m] = NoRun
    OBVIOUS
  <2>1. m # n /\ ~(m <= accepted) /\ m # accepted /\ m # 0
    BY <1>2 DEF Runs
  <2>2. runs[m] = NoRun
    BY <1>0, <2>1 DEF RunsTyped
  <2>3. m \notin Latched
    BY <2>1 DEF Latched, Inv, Newest
  <2>4. (runs[m].excused \/ m \in Latched) = FALSE
    BY <2>2, <2>3 DEF NoRun
  <2>5. runs'[m] = [NoRun EXCEPT !.excused = FALSE]
    BY <2>1, <2>2, <2>4
  <2>6. \A r \in RunRecord : r.excused = FALSE => [r EXCEPT !.excused = FALSE] = r
    BY DEF RunRecord
  <2>7. NoRun \in RunRecord /\ NoRun.excused = FALSE
    BY DEF NoRun, RunRecord
  <2> QED
    BY <2>5, <2>6, <2>7
<1>9. /\ button' \in [Kinds -> Runs \cup {0}] /\ tagged' \in [Kinds -> BOOLEAN]
      /\ button'[k] = n /\ (g => tagged'[k]) /\ \A b \in Kinds \ {k} : button'[b] = 0
  BY <1>1
<1> HIDE DEF g
<1>10. runs' \in [Runs -> RunRecord]
  <2>1. \A m \in Runs : runs'[m] \in RunRecord
    BY <1>6, <1>7
  <2>2. runs' = [m \in Runs |-> runs'[m]]
    OBVIOUS
  <2> QED
    BY <2>1, <2>2
<1>11. Fresh(n, user[u].kind, workerId)
  BY <1>1, <1>6, <1>9 DEF Fresh
<1>12. \A m \in Runs \ {n} : Older(m)
  BY <1>7 DEF Older
<1> QED
  BY <1>1, <1>2, <1>8, <1>9, <1>10, <1>11, <1>12

LEMMA Accepted_Inv ==
    ASSUME Inv, NEW u \in Users, Leave(u), workerId \in Idents, NEW k \in Kinds \ {None},
           NEW n \in Runs, n = accepted + 1,
           button' \in [Kinds -> Runs \cup {0}], tagged' \in [Kinds -> BOOLEAN],
           runs' \in [Runs -> RunRecord],
           Fresh(n, k, workerId), \A m \in Runs \ {n} : Older(m),
           \A m \in Runs : ~(m <= n) => runs'[m] = NoRun,
           queue' = IF Fits THEN Append(queue, n) ELSE queue,
           quiet' = FALSE, accepted' = n,
           UNCHANGED <<db, worker, workerId, connection, cap, task, inbox, running, conns, refused>>
    PROVE  Inv'
<1>0. LinkTyped /\ RunsTyped /\ WebTyped
  BY DEF Inv
<1>2. accepted \in Nat /\ n \in Nat
  BY <1>0 DEF RunsTyped, Runs
<1>4. /\ \A m \in Runs : m <= accepted => m # n /\ m <= n
      /\ \A m \in Runs : m <= n => m <= accepted \/ m = n
      /\ ~(n <= accepted) /\ n <= n
      /\ runs[n] = NoRun
  <2>1. /\ \A m \in Runs : m <= accepted => m # n /\ m <= n
        /\ \A m \in Runs : m <= n => m <= accepted \/ m = n
        /\ ~(n <= accepted) /\ n <= n
    BY <1>2 DEF Runs
  <2> QED
    BY <1>0, <2>1 DEF RunsTyped
<1>6. /\ runs'[n].kind = k /\ runs'[n].id = workerId
      /\ runs'[n].cursor = Ended /\ runs'[n].sent = 0 /\ runs'[n].to = {}
      /\ runs'[n].ended = FALSE
      /\ button'[k] = n /\ (runs'[n].tagged => tagged'[k])
      /\ \A b \in Kinds \ {k} : button'[b] = 0
  BY DEF Fresh
<1>7. \A m \in Runs \ {n} :
         /\ runs'[m].kind = runs[m].kind /\ runs'[m].id = runs[m].id
         /\ runs'[m].tagged = runs[m].tagged /\ runs'[m].cursor = runs[m].cursor
         /\ runs'[m].sent = runs[m].sent /\ runs'[m].to = runs[m].to
         /\ runs'[m].ended = runs[m].ended
         /\ runs[m].excused \/ m \in Latched => runs'[m].excused
  BY DEF Older
<1>8. \A m \in Runs : ~(m <= n) => runs'[m] = NoRun
  OBVIOUS
<1>9. /\ queue' \in Seq(Runs) /\ Len(queue') <= MaxQueue
      /\ Items(queue') \subseteq Items(queue) \cup {n} /\ Distinct(queue')
  <2>1. queue \in Seq(Runs) /\ Distinct(queue) /\ n \notin Items(queue) /\ Len(queue) \in Nat
    BY <1>0, <1>4, QueuedItems DEF RunsTyped, Inv, Places
  <2>2. CASE Fits
    <3>1. queue' = Append(queue, n) /\ Len(queue) < MaxQueue
      BY <2>2 DEF Fits
    <3>2. /\ Append(queue, n) \in Seq(Runs) /\ Len(Append(queue, n)) = Len(queue) + 1
          /\ Items(Append(queue, n)) = Items(queue) \cup {n} /\ Distinct(Append(queue, n))
      BY <2>1, AppendItems
    <3>3. Len(queue) + 1 <= MaxQueue
      BY <2>1, <3>1, ConstantsAssumption
    <3> QED
      BY <3>1, <3>2, <3>3
  <2>3. CASE ~Fits
    BY <1>0, <2>1, <2>3 DEF RunsTyped
  <2> QED
    BY <2>2, <2>3
<1>12. WebTyped'
  <2>1. user' = [user EXCEPT ![u] = NoUser]
    BY DEF Leave
  <2> QED
    BY <1>0, <2>1, UserTyped, IdleUser DEF WebTyped
<1>13. LinkTyped'
  BY <1>0 DEF LinkTyped
<1>14. RunsTyped'
  <2>1. \A m \in Runs :
           IF m <= n THEN runs'[m].kind \in Kinds \ {None} /\ runs'[m].id \in Idents
                     ELSE runs'[m] = NoRun
    BY <1>0, <1>2, <1>4, <1>6, <1>7, <1>8 DEF RunsTyped
  <2>2. \A m \in Items(queue') : m <= n
    BY <1>0, <1>4, <1>9, QueuedItems, InRuns DEF RunsTyped
  <2>3. \A m \in Queued' : m <= n
    BY <2>2 DEF Queued, Items
  <2>4. n \in 0..MaxRuns
    BY DEF Runs
  <2> QED
    BY <1>0, <1>9, <2>1, <2>3, <2>4 DEF RunsTyped
<1>15. Shapes'
  <2>1. RunsKept /\ accepted' \in 0..MaxRuns
    BY <1>2, <1>4, <1>7, <1>14 DEF RunsKept, RunsTyped
  <2>2. \A v \in Tasks : Alike(task'[v], task[v]) /\ (task'[v].conn = 0 => inbox'[v] = <<>>)
    BY DEF Alike, Inv, Shapes
  <2> QED
    BY <1>0, <2>1, <2>2, ShapesKept DEF Inv
<1>16. \A v \in Tasks : n \notin Carried(task[v]) /\ Carried(task[v]) \subseteq Runs
  BY <1>4, GuardCarried
<1>17. Places'
  BY <1>9, <1>16 DEF Inv, Places
<1>18. \A r \in running : r.run \in Runs \ {n}
  BY <1>0, <1>4, InRuns DEF Inv, Unsent, NoRun
<1>19. Unsent'
  <2>1. \A m \in Items(queue') : runs'[m].sent = 0
    BY <1>0, <1>6, <1>7, <1>9, InRuns DEF Inv, Unsent
  <2>2. \A v \in Tasks : \A m \in Open(task'[v]) \ {0} : runs'[m].sent = 0
    <3> SUFFICES ASSUME NEW v \in Tasks, NEW m \in Open(task[v]) \ {0} PROVE runs'[m].sent = 0
      OBVIOUS
    <3>1. m \in Runs \ {n}
      BY <1>16 DEF Open, Carried
    <3> QED
      BY <1>7, <3>1 DEF Inv, Unsent
  <2>3. /\ \A r \in running' : runs'[r.run].sent = 1
        /\ \A r, q \in running' : r.run = q.run => r = q
        /\ \A r \in running' : r.id # 0 => r.id = r.run /\ runs'[r.run].tagged
    <3>1. \A r \in running : /\ runs'[r.run].sent = runs[r.run].sent
                            /\ runs'[r.run].tagged = runs[r.run].tagged
      BY <1>7, <1>18
    <3> QED
      BY <3>1 DEF Inv, Unsent
  <2>4. \A m \in Runs : runs'[m].to \subseteq {runs'[m].id}
    BY <1>6, <1>7 DEF Inv, Unsent
  <2> QED
    BY <2>1, <2>2, <2>3, <2>4 DEF Unsent
<1>20. Delivered'
  <2> SUFFICES ASSUME NEW v \in Tasks, NEW f \in Items(inbox[v])
               PROVE  Genuine(f, task[v].peer, runs', running)
    BY DEF Delivered
  <2>1. Genuine(f, task[v].peer, runs, running)
    BY DEF Inv, Delivered
  <2>2. f.type = "end" /\ f.run \in Runs => f.run \in Runs \ {n}
    BY <1>4, <2>1 DEF Genuine, NoRun
  <2> QED
    BY <1>7, <2>1, <2>2 DEF Genuine
<1>21. Claims'
  <2> SUFFICES ASSUME NEW m \in Runs, Guarded(m)', runs'[m].tagged PROVE Claim(m)'
    BY DEF Claims
  <2>1. CASE m = n
    BY <1>6, <2>1 DEF Claim, Owns
  <2>2. CASE m # n
    <3>1. Guarded(m)
      BY <1>9, <2>2 DEF Guarded
    <3>2. runs[m].tagged /\ runs[m].kind \in Kinds
      BY <1>7, <2>2, <3>1, GuardedKnown
    <3>3. Claim(m)
      BY <3>1, <3>2 DEF Inv, Claims
    <3>4. Owns(m) => m \in Latched
      BY <3>2 DEF Owns, Latched
    <3> QED
      BY <1>7, <2>2, <3>3, <3>4 DEF Claim
  <2> QED
    BY <2>1, <2>2
<1>22. Sessions'
  BY DEF Inv, Sessions
<1>23. Newest'
  <2>1. \A b \in Kinds : /\ button'[b] \in {0, n}
                         /\ button'[b] # 0 => runs'[button'[b]].kind = b
    BY <1>6
  <2>2. \A m \in Ended : m \in Runs /\ m <= accepted /\ m < n /\ m # n
    <3>1. \A m \in Ended : m \in Runs /\ m <= accepted
      BY DEF Ended, Inv, Newest
    <3>2. \A m \in Runs : m <= accepted => m < n /\ m # n
      BY <1>2 DEF Runs
    <3> QED
      BY <3>1, <3>2
  <2>3. \A m \in Runs : /\ \A i \in runs'[m].cursor : i < m
                        /\ runs'[m].ended => m <= n
    BY <1>4, <1>6, <1>7, <2>2 DEF Inv, Newest
  <2>4. \A i, m \in Runs : runs'[i].ended /\ i < m /\ m <= n => i \in runs'[m].cursor
    <3> SUFFICES ASSUME NEW i \in Runs, NEW m \in Runs, runs'[i].ended, i < m, m <= n
                 PROVE  i \in runs'[m].cursor
      OBVIOUS
    <3>1. i # n /\ runs[i].ended
      BY <1>6, <1>7
    <3>2. CASE m = n
      BY <1>6, <3>1, <3>2 DEF Ended
    <3>3. CASE m # n
      BY <1>4, <1>7, <3>1, <3>3 DEF Inv, Newest
    <3> QED
      BY <3>2, <3>3
  <2> QED
    BY <2>1, <2>3, <2>4 DEF Newest
<1> QED
  BY <1>12, <1>13, <1>14, <1>15, <1>17, <1>19, <1>20, <1>21, <1>22, <1>23 DEF Inv

LEMMA Queue_Inv ==
    ASSUME Inv, NEW u \in Users, Queue(u)
    PROVE  Inv'
<1>1. /\ user[u].pc = "queue" /\ Leave(u)
      /\ UNCHANGED <<db, worker, workerId, connection, cap, task, inbox, running, conns, refused>>
  BY DEF Queue
<1>2. CASE UNCHANGED <<button, tagged, queue, quiet, accepted, runs>>
  <2>1. WebTyped'
    BY <1>1, <1>2, UserTyped, IdleUser DEF Inv, WebTyped, Leave
  <2>2. UNCHANGED <<connection, queue, button, tagged, task, cap>> /\ UNCHANGED Backend
    BY <1>1, <1>2 DEF Backend
  <2>3. cap' \in {"none", "yes", "no", "rejected"} /\ cap' = cap
    BY <2>2 DEF Inv, LinkTyped
  <2> QED
    BY <2>1, <2>2, <2>3, WebOnly
<1>3. CASE ~UNCHANGED <<button, tagged, queue, quiet, accepted, runs>>
  <2>1. PICK n \in Runs : n = accepted + 1
    BY <1>3 DEF Queue
  <2>2. /\ workerId = user[u].id
        /\ button' = [b \in Kinds |-> IF b = user[u].kind THEN n ELSE 0]
        /\ tagged' = [b \in Kinds |-> b = user[u].kind /\ Fits /\ user[u].tag]
        /\ queue' = IF Fits THEN Append(queue, n) ELSE queue
        /\ quiet' = FALSE /\ accepted' = n
        /\ runs' = [m \in Runs |->
               IF m = n
               THEN [NoRun EXCEPT !.kind = user[u].kind, !.id = workerId, !.cursor = Cursor(n),
                                  !.tagged = Fits /\ user[u].tag]
               ELSE [runs[m] EXCEPT !.excused = @ \/ m \in Latched]]
    BY <1>3, <2>1 DEF Queue
  <2>3. /\ button' \in [Kinds -> Runs \cup {0}] /\ tagged' \in [Kinds -> BOOLEAN]
        /\ runs' \in [Runs -> RunRecord]
        /\ Fresh(n, user[u].kind, workerId) /\ \A m \in Runs \ {n} : Older(m)
        /\ \A m \in Runs : ~(m <= n) => runs'[m] = NoRun
        /\ user[u].kind \in Kinds \ {None} /\ workerId \in Idents
    BY <1>1, <2>1, <2>2, AcceptedRuns
  <2> QED
    BY <1>1, <2>1, <2>2, <2>3, Accepted_Inv
<1> QED
  BY <1>2, <1>3

---------------------------------------------------------------------------
(* The theorems.                                                           *)
LEMMA InitInv == Init => Inv
<1> SUFFICES ASSUME Init PROVE Inv
  OBVIOUS
<1>1. /\ worker = None /\ workerId = None /\ connection = None /\ cap = "none"
      /\ queue = <<>> /\ quiet = FALSE /\ running = {} /\ refused = {}
      /\ button = [k \in Kinds |-> 0] /\ tagged = [k \in Kinds |-> FALSE]
      /\ task = [w \in Tasks |-> NoTask] /\ user = [u \in Users |-> NoUser]
      /\ inbox = [w \in Tasks |-> <<>>] /\ accepted = 0 /\ conns = 0
      /\ runs = [n \in Runs |-> NoRun]
  BY DEF Init
<1>2. /\ Items(queue) = {} /\ Distinct(queue) /\ queue \in Seq(Runs) /\ Len(queue) = 0
      /\ \A w \in Tasks : inbox[w] = <<>> /\ Items(inbox[w]) = {}
      /\ inbox \in [Tasks -> Seq(Frames)]
  BY <1>1, EmptyItems
<1>3. /\ \A w \in Tasks : task[w] = NoTask
      /\ \A u \in Users : user[u] = NoUser
      /\ \A n \in Runs : runs[n] = NoRun
      /\ \A k \in Kinds : button[k] = 0
  BY <1>1
<1>4. NoTask \in TaskRecord /\ Bare(NoTask) /\ NoTask.pc = "none"
  BY BareNoTask
<1>5. /\ Fit(NoTask, accepted, runs) /\ Carried(NoTask) = {} /\ Open(NoTask) \ {0} = {}
      /\ Guard(NoTask) = {} /\ ~Enveloping(NoTask) /\ NoTask.conn = 0
  BY <1>4, BareFits DEF Bare
<1>6. NoRun \in RunRecord /\ NoRun.to = {} /\ NoRun.cursor = {} /\ NoRun.ended = FALSE
  BY DEF NoRun, RunRecord
<1>7. WebTyped
  <2>1. db \in [Endpoints -> Keys \cup {"off", "bare"}]
    BY DEF Init
  <2> QED
    BY <1>1, <1>3, <2>1, IdleUser DEF WebTyped
<1>8. LinkTyped
  <2>1. conns \in 0..MaxConns
    BY <1>1, ConstantsAssumption
  <2> QED
    BY <1>1, <1>2, <1>4, <2>1 DEF LinkTyped
<1>9. RunsTyped
  <2>1. accepted \in 0..MaxRuns /\ Len(queue) <= MaxQueue /\ \A n \in Runs : ~(n <= accepted)
    BY <1>1, <1>2, ConstantsAssumption DEF Runs
  <2>2. \A n \in Queued : n <= accepted
    BY <1>2, QueuedItems
  <2> QED
    BY <1>1, <1>2, <1>3, <1>6, <2>1, <2>2 DEF RunsTyped
<1>10. Shapes /\ Places /\ Delivered
  BY <1>2, <1>3, <1>5 DEF Shapes, Places, Delivered
<1>11. Unsent
  BY <1>1, <1>2, <1>3, <1>5, <1>6 DEF Unsent
<1>12. Claims
  <2>1. \A n \in Runs : ~Guarded(n)
    BY <1>1, <1>2, <1>3, <1>5 DEF Guarded
  <2> QED
    BY <2>1 DEF Claims
<1>13. Sessions
  BY <1>1, <1>3, <1>5 DEF Sessions
<1>14. Newest
  BY <1>1, <1>3, <1>6 DEF Newest
<1> QED
  BY <1>7, <1>8, <1>9, <1>10, <1>11, <1>12, <1>13, <1>14 DEF Inv

LEMMA StutterInv ==
    ASSUME Inv, UNCHANGED vars
    PROVE  Inv'
<1>1. WebTyped'
  BY DEF Inv, WebTyped, vars, state
<1>2. UNCHANGED <<connection, queue, button, tagged, task, cap>> /\ UNCHANGED Backend
  BY DEF vars, state, Backend, bounds, history
<1>3. cap' \in {"none", "yes", "no", "rejected"} /\ cap' = cap
  BY <1>2 DEF Inv, LinkTyped
<1> QED
  BY <1>1, <1>2, <1>3, WebOnly

LEMMA TaskStep_Inv ==
    ASSUME Inv, NEW w \in Tasks, TaskStep(w)
    PROVE  Inv'
BY Connect_Inv, ConnectFails_Inv, TrustLost_Inv, Recheck_Inv, Take_Inv, Ask_Inv, Format_Inv,
   Send_Inv, FailActive_Inv, Close_Inv, Receive_Inv, Rejected_Inv, Resend_Inv DEF TaskStep

LEMMA NextInv ==
    ASSUME Inv, [Next]_vars
    PROVE  Inv'
<1>1. CASE UNCHANGED vars
  BY <1>1, StutterInv
<1>2. ASSUME NEW e \in Endpoints, Save(e) \/ Commit(e) PROVE Inv'
  BY <1>2, Save_Inv, Commit_Inv
<1>3. ASSUME NEW u \in Users, UserStep(u) PROVE Inv'
  BY <1>3, Load_Inv, Start_Inv, Dispatch_Inv, Probe_Inv, Queue_Inv DEF UserStep
<1>4. ASSUME NEW u \in Users, NEW k \in Kinds \cup {None}, Request(u, k) PROVE Inv'
  BY <1>4, Request_Inv
<1>5. ASSUME NEW w \in Tasks, TaskStep(w) \/ Emit(w) \/ Finish(w) PROVE Inv'
  BY <1>5, TaskStep_Inv, Emit_Inv, Finish_Inv
<1>6. CASE TimePasses \/ CapabilityExpires
  BY <1>6, TimePasses_Inv, CapabilityExpires_Inv
<1> QED
  BY <1>1, <1>2, <1>3, <1>4, <1>5, <1>6 DEF Next

(* In every reachable state: a command is in one place, a rejection comes  *)
(* only from a peer that never ran it, a terminal only after its run, and  *)
(* a tagged command on its way owns its button.                            *)
THEOREM InvHolds == Spec => []Inv
<1>1. Init => Inv
  BY InitInv
<1>2. Inv /\ [Next]_vars => Inv'
  BY NextInv
<1> QED
  BY <1>1, <1>2, PTL DEF Spec

(* The module's state is typed, and what a task has in hand or waits for   *)
(* exists, at every await of websocket_client and every web request.       *)
THEOREM TypeCorrect == Spec => []TypeOK
<1>1. Inv => TypeOK
  BY InvTypeOK
<1> QED
  BY <1>1, InvHolds, PTL

(* A sync command is run at most once, and only by the endpoint identity   *)
(* that authorised it, through every restart, stop, rejection and resend.  *)
THEOREM SentOnceHolds == Spec => []SentOnceToAuthorised
<1>1. Inv => SentOnceToAuthorised
  BY InvSentOnce
<1> QED
  BY <1>1, InvHolds, PTL

(* A run the backend works on under its id keeps its sync button, unless   *)
(* the idle timeout or a loss of trust took it.                            *)
THEOREM LatchHolds == Spec => []RunningIsLatched
<1>1. Inv => RunningIsLatched
  BY InvLatched
<1> QED
  BY <1>1, InvHolds, PTL

(* The cursor a POST hands out lies after every earlier run's terminal and *)
(* before its own run's.                                                   *)
THEOREM CursorHolds == Spec => []CursorSeparatesRuns
<1>1. Inv => CursorSeparatesRuns
  BY InvCursor
<1> QED
  BY <1>1, InvHolds, PTL

(* Once a connection has rejected a run id no envelope goes out on it,     *)
(* whatever probes were in flight.                                         *)
THEOREM LegacyHolds == Spec => []RefusedStaysLegacy
<1>1. Inv => RefusedStaysLegacy
  BY InvRefused
<1> QED
  BY <1>1, InvHolds, PTL

=============================================================================
