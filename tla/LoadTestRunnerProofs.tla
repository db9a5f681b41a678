------------------------ MODULE LoadTestRunnerProofs ------------------------
(***************************************************************************)
(* Proofs about LoadTestRunner. The types come first, then the invariant   *)
(* that ties the step of each goroutine to the status of its task, the     *)
(* slot and the child process (IInv). On top of it: what is kept of a      *)
(* list of tasks on disk (Listed), the deletions of the hot key and what a *)
(* lost answer leaves (Evictions), and the numbering of the events a page  *)
(* has and has still to get (Streams).                                     *)
(***************************************************************************)
EXTENDS LoadTestRunner, TLAPS

Event == [type : EventTypes, end : BOOLEAN]

\* Appending events to a record leaves it a record with the same status.
LEMMA PublishedIsARecord ==
  ASSUME NEW r \in Record, NEW types \in Seq(EventTypes)
  PROVE  /\ Published(r, types) \in Record
         /\ Published(r, types).status = r.status
         /\ Published(r, types).exp = r.exp
         /\ Published(r, types).metrics = r.metrics
         /\ Len(Published(r, types).events) >= Len(r.events)
<1> DEFINE added == [i \in 1 .. Len(types) |-> [type |-> types[i], end |-> r.status \in Terminal]]
<1>1. added \in Seq(Event)
  BY DEF Event
<1>2. r.events \in Seq(Event)
  BY DEF Record, Event
<1>3. r.events \o added \in Seq(Event)
  BY <1>1, <1>2
<1>4. Published(r, types) = [r EXCEPT !.events = r.events \o added]
  BY DEF Published
<1>5. Len(r.events \o added) >= Len(r.events)
  <2>1. Len(r.events) \in Nat /\ Len(added) \in Nat
    BY <1>1, <1>2
  <2>2. Len(r.events \o added) = Len(r.events) + Len(added)
    BY <1>1, <1>2
  <2> HIDE DEF added
  <2> QED
    BY <2>1, <2>2
<1> HIDE DEF added
<1> QED
  BY <1>3, <1>4, <1>5 DEF Record, Event

\* A record with another status or other metrics is a record.
LEMMA UpdatedIsARecord ==
  ASSUME NEW r \in Record
  PROVE  /\ \A st \in Active \cup Terminal :
              /\ [r EXCEPT !.status = st] \in Record
              /\ [r EXCEPT !.status = st].status = st
              /\ [r EXCEPT !.status = st].events = r.events
         /\ \A m \in Phases : /\ [r EXCEPT !.metrics = m] \in Record
                              /\ [r EXCEPT !.metrics = m].status = r.status
                              /\ [r EXCEPT !.metrics = m].events = r.events
BY DEF Record

LEMMA OneEvent == ASSUME NEW a \in EventTypes PROVE <<a>> \in Seq(EventTypes)
OBVIOUS

QueueItem == [id : Nat, end : BOOLEAN]
PageType  == [pc : {"closed", "replayed", "streaming"}, task : Tasks \cup {None},
              queue : Seq(QueueItem), seen : SUBSET Nat, last : Nat, gap : BOOLEAN]

\* A subscriber that is offered events stays a subscriber.
LEMMA OfferIsAPage ==
  ASSUME NEW q \in PageType, NEW t \in Tasks, rec' \in [Tasks -> Record], NEW old \in Nat
  PROVE  Offer(q, t, old) \in PageType
<1> DEFINE n == Len(rec'[t].events) - old
           m == IF n \in Nat THEN n ELSE 0
           item(i) == [id |-> old + i, end |-> rec'[t].events[old + i].end]
           fresh == [i \in 1 .. n |-> item(i)]
           room == IF Len(fresh) < Window - Len(q.queue) THEN Len(fresh) ELSE Window - Len(q.queue)
<1>1. rec'[t].events \in Seq(Event) /\ Len(rec'[t].events) \in Nat
  <2>1. rec'[t] \in Record
    OBVIOUS
  <2>2. rec'[t].events \in Seq(Event)
    BY <2>1 DEF Record, Event
  <2> QED
    BY <2>2
<1>2. m \in Nat /\ 1 .. n = 1 .. m
  BY <1>1
<1>3. ASSUME NEW i \in 1 .. n PROVE item(i) \in QueueItem
  <2>1. old + i \in 1 .. Len(rec'[t].events)
    BY <1>1, <1>3
  <2>2. rec'[t].events[old + i] \in Event
    BY <1>1, <2>1
  <2> QED
    BY <2>2, <1>3 DEF Event, QueueItem
<1> HIDE DEF n, m, item
<1>4. fresh \in [1 .. m -> QueueItem]
  BY <1>2, <1>3
<1> HIDE DEF fresh
<1>5. fresh \in Seq(QueueItem) /\ Len(fresh) \in Nat
  BY <1>2, <1>4
<1>6. Len(q.queue) \in Nat /\ q.queue \in Seq(QueueItem) /\ q.gap \in BOOLEAN
  BY DEF PageType
<1>7. room \in Int /\ room <= Len(fresh)
  BY <1>5, <1>6, BoundsAssumption
<1>8. q.queue \o SubSeq(fresh, 1, room) \in Seq(QueueItem)
  BY <1>5, <1>6, <1>7
<1>9. Offer(q, t, old) = [q EXCEPT !.queue = q.queue \o SubSeq(fresh, 1, room),
                                   !.gap = q.gap \/ room < Len(fresh)]
  BY DEF Offer, fresh, n, item
<1> HIDE DEF room
<1>10. (q.gap \/ room < Len(fresh)) \in BOOLEAN
  BY <1>6
<1> QED
  BY <1>8, <1>9, <1>10 DEF PageType

Bookkeeping == [tick : [Tasks -> Nat], fault : Nat, crash : Nat]
Snapshot    == [order : Seq(Tasks), rec : [Tasks -> Record]]

\* The subscribers stay well typed when a record changes.
LEMMA BroadcastType ==
  ASSUME page \in [Pages -> PageType], rec \in [Tasks -> Record], rec' \in [Tasks -> Record],
         NEW t \in Tasks, Broadcast(t)
  PROVE  /\ page' \in [Pages -> PageType]
         /\ \A p \in Pages : page'[p].pc = page[p].pc /\ page'[p].task = page[p].task
<1>1. Len(rec[t].events) \in Nat
  BY DEF Record
<1>2. \A p \in Pages : Offer(page[p], t, Len(rec[t].events)) \in PageType
  BY <1>1, OfferIsAPage
<1>3. \A p \in Pages : /\ Offer(page[p], t, Len(rec[t].events)).pc = page[p].pc
                       /\ Offer(page[p], t, Len(rec[t].events)).task = page[p].task
  BY DEF Offer, PageType
<1> QED
  BY <1>2, <1>3 DEF Broadcast

\* The snapshot on disk stays well typed, whether it is written or not.
LEMMA PersistType ==
  ASSUME disk \in Snapshot, spent \in Bookkeeping, order' \in Seq(Tasks),
         rec' \in [Tasks -> Record], Persist
  PROVE  disk' \in Snapshot /\ spent' \in Bookkeeping
<1>1. disk' = [order |-> order', rec |-> rec'] \/ disk' = disk
  BY DEF Persist
<1>2. spent' = spent \/ spent' = [spent EXCEPT !.fault = @ + 1]
  BY DEF Persist
<1>3. disk' \in Snapshot
  BY <1>1 DEF Snapshot
<1> QED
  BY <1>2, <1>3 DEF Bookkeeping

Stored == /\ rec \in [Tasks -> Record] /\ order \in Seq(Tasks) /\ disk \in Snapshot
          /\ page \in [Pages -> PageType] /\ spent \in Bookkeeping

\* One section under the lock: what is stored stays well typed.
LEMMA SaveType ==
  ASSUME Stored, NEW t \in Tasks, NEW r \in Record, Save(t, r)
  PROVE  /\ Stored' /\ rec' = [rec EXCEPT ![t] = r]
         /\ \A p \in Pages : page'[p].pc = page[p].pc /\ page'[p].task = page[p].task
<1>1. rec' \in [Tasks -> Record] /\ order' \in Seq(Tasks) /\ rec' = [rec EXCEPT ![t] = r]
  BY DEF Save, Stored
<1>2. /\ page' \in [Pages -> PageType]
      /\ \A p \in Pages : page'[p].pc = page[p].pc /\ page'[p].task = page[p].task
  BY <1>1, BroadcastType DEF Save, Stored
<1>3. disk' \in Snapshot /\ spent' \in Bookkeeping
  BY <1>1, PersistType DEF Save, Stored
<1> QED
  BY <1>1, <1>2, <1>3 DEF Stored

Steps == {"idle", "begin", "reset", "launch", "started", "loop", "tick", "collect", "gather",
          "cleanup", "finish"}

Flags == [evicting : BOOLEAN, evicted : BOOLEAN, token : BOOLEAN]

\* What the runner keeps in memory only.
Memory ==
  /\ active \in Tasks \cup {None}
  /\ mem \in [Tasks -> Flags]
  /\ run \in [Tasks -> [pc : Steps, snap : Phases, plan : Terminal \cup {"none"}]]
  /\ ctx \in [Tasks -> {"live", "stopped", "expired"}]
  /\ wrk \in [Tasks -> {"none", "alive", "exited", "broken", "reaped"}]
  /\ app \in [Tasks -> [phase : Phases, scope : BOOLEAN, dels : Nat]]
  /\ stopper \in [pc : {"idle", "waiting", "ok", "missing", "timeout"}, task : Tasks \cup {None}]
  /\ evictor \in [Evictors -> [pc : {"idle", "calling", "deleted", "failed"},
                               task : Tasks \cup {None}]]
  /\ lost \in [Tasks -> Nat]

LEMMA TypeIsStoredAndMemory == TypeOK <=> Stored /\ Memory
BY DEF TypeOK, Stored, Memory, PageType, QueueItem, Snapshot, Bookkeeping, Steps,
       Flags

\* The flags of a task change one at a time.
LEMMA FlagsType ==
  ASSUME mem \in [Tasks -> Flags], NEW t \in Tasks, NEW b \in BOOLEAN
  PROVE  /\ [mem EXCEPT ![t].evicting = b] \in [Tasks -> Flags]
         /\ [mem EXCEPT ![t].evicted = b] \in [Tasks -> Flags]
         /\ [mem EXCEPT ![t].token = b] \in [Tasks -> Flags]
BY DEF Flags

\* Whoever works on a task has one: an eviction under way, an open stream, a
\* Stop that has been asked.
Pointers ==
  /\ \A e \in Evictors : evictor[e].pc # "idle" => evictor[e].task \in Tasks
  /\ \A p \in Pages : page[p].pc # "closed" => page[p].task \in Tasks
  /\ stopper.pc # "idle" => stopper.task \in Tasks

\* The statuses in which a goroutine takes a step.
StatusAt(pc) ==
  CASE pc = "begin" -> {"starting"}
    [] pc \in {"reset", "launch", "started"} -> {"resetting"}
    [] pc \in {"loop", "tick", "collect"} -> {"running"}
    [] pc = "gather" -> {"collecting"}
    [] OTHER -> Active

Unreaped == {"alive", "exited", "broken"}

\* The step of a goroutine and the status of its task agree, both hold the
\* slot, and a child runs only between its start and its wait.
Control ==
  /\ \A t \in Tasks : run[t].pc # "idle" => rec[t].status \in StatusAt(run[t].pc) /\ active = t
  /\ \A t \in Tasks : rec[t].status \in Active => run[t].pc # "idle"
  /\ active # None => run[active].pc # "idle"
  /\ \A t \in Tasks : run[t].pc \in {"cleanup", "finish"} =>
       run[t].plan \in Terminal /\ (run[t].plan = "completed" => rec[t].status = "collecting")
  /\ \A t \in Tasks : wrk[t] \in Unreaped => run[t].pc \in {"started", "loop", "tick"}
  /\ stopper.pc # "idle" => rec[stopper.task].status # "none"
  /\ stopper.pc \in {"ok", "missing"} => rec[stopper.task].status \notin Active

IInv == Stored /\ Memory /\ Pointers /\ Control

LEMMA InitIInv == Init => IInv
BY DEF Init, IInv, Stored, Memory, Pointers, Control, Blank, Plain, Asleep, Closed, Record, Snapshot,
       PageType, QueueItem, Bookkeeping, Steps, Phases, Active, Terminal, Unreaped, Flags

RunType == [pc : Steps, snap : Phases, plan : Terminal \cup {"none"}]

\* A step of the goroutine of t that goes on: the invariant asks only about
\* the new record, the next step and the child.
LEMMA TaskStep ==
  ASSUME IInv, NEW t \in Tasks, run[t].pc # "idle",
         NEW r \in Record, NEW x \in RunType, x.pc # "idle",
         Stored', rec' = [rec EXCEPT ![t] = r],
         \A p \in Pages : page'[p].pc = page[p].pc /\ page'[p].task = page[p].task,
         run' = [run EXCEPT ![t] = x],
         r.status \in StatusAt(x.pc),
         x.pc \in {"cleanup", "finish"} =>
           x.plan \in Terminal /\ (x.plan = "completed" => r.status = "collecting"),
         NEW w \in {"none", "alive", "exited", "broken", "reaped"},
         wrk' = [wrk EXCEPT ![t] = w],
         w \in Unreaped => x.pc \in {"started", "loop", "tick"},
         app' \in [Tasks -> [phase : Phases, scope : BOOLEAN, dels : Nat]],
         UNCHANGED <<active, mem, ctx, handlers, lost>>
  PROVE  IInv'
<1>1. Memory'
  BY DEF IInv, Memory, RunType, handlers
<1>2. Pointers'
  BY DEF IInv, Pointers, handlers
<1>3. r.status \in Active
  BY DEF RunType, Steps, StatusAt, Active
<1>4. rec \in [Tasks -> Record] /\ run \in [Tasks -> RunType]
      /\ wrk \in [Tasks -> {"none", "alive", "exited", "broken", "reaped"}]
  BY DEF IInv, Stored, Memory, RunType
<1>5. /\ run'[t] = x /\ rec'[t] = r /\ wrk'[t] = w
      /\ \A u \in Tasks \ {t} : run'[u] = run[u] /\ rec'[u] = rec[u] /\ wrk'[u] = wrk[u]
  BY <1>4
<1>6. active' = t /\ active = t
  BY DEF IInv, Control
<1>7. Control'
  <2>1. \A u \in Tasks : run'[u].pc # "idle" =>
          rec'[u].status \in StatusAt(run'[u].pc) /\ active' = u
    BY <1>5, <1>6 DEF IInv, Control
  <2>2. \A u \in Tasks : rec'[u].status \in Active => run'[u].pc # "idle"
    BY <1>5 DEF IInv, Control
  <2>3. active' # None => run'[active'].pc # "idle"
    BY <1>5, <1>6
  <2>4. \A u \in Tasks : run'[u].pc \in {"cleanup", "finish"} =>
          run'[u].plan \in Terminal /\ (run'[u].plan = "completed" => rec'[u].status = "collecting")
    BY <1>5 DEF IInv, Control
  <2>5. \A u \in Tasks : wrk'[u] \in Unreaped => run'[u].pc \in {"started", "loop", "tick"}
    BY <1>5 DEF IInv, Control
  <2>6. stopper.pc # "idle" => stopper.task \in Tasks /\ rec[stopper.task].status # "none"
    BY DEF IInv, Pointers, Control
  <2>7. stopper.pc # "idle" => rec'[stopper.task].status # "none"
    BY <1>3, <1>5, <2>6 DEF Active
  <2>8. rec[t].status \in Active
    BY <1>4 DEF IInv, Control, StatusAt, Active, RunType, Steps
  <2>9. stopper.pc \in {"ok", "missing"} => rec'[stopper.task].status \notin Active
    BY <1>5, <2>6, <2>8 DEF IInv, Control
  <2> QED
    BY <2>1, <2>2, <2>3, <2>4, <2>5, <2>7, <2>9 DEF Control, handlers
<1> QED
  BY <1>1, <1>2, <1>7 DEF IInv

\* The same when the step is one section under the lock that saves the record.
LEMMA SavingStep ==
  ASSUME IInv, NEW t \in Tasks, run[t].pc # "idle",
         NEW r \in Record, NEW types \in Seq(EventTypes), NEW x \in RunType, x.pc # "idle",
         Save(t, Published(r, types)),
         run' = [run EXCEPT ![t] = x],
         r.status \in StatusAt(x.pc),
         x.pc \in {"cleanup", "finish"} =>
           x.plan \in Terminal /\ (x.plan = "completed" => r.status = "collecting"),
         wrk[t] \in Unreaped => x.pc \in {"started", "loop", "tick"},
         app' \in [Tasks -> [phase : Phases, scope : BOOLEAN, dels : Nat]],
         UNCHANGED <<active, mem, ctx, wrk, handlers, lost>>
  PROVE  IInv'
<1> DEFINE s == Published(r, types)
<1>1. s \in Record /\ s.status = r.status
  BY PublishedIsARecord
<1> HIDE DEF s
<1>2. /\ Stored' /\ rec' = [rec EXCEPT ![t] = s]
      /\ \A p \in Pages : page'[p].pc = page[p].pc /\ page'[p].task = page[p].task
  BY <1>1, SaveType DEF IInv, s
<1>3. /\ wrk[t] \in {"none", "alive", "exited", "broken", "reaped"}
      /\ wrk' = [wrk EXCEPT ![t] = wrk[t]]
  BY DEF IInv, Memory
<1> QED
  BY <1>1, <1>2, <1>3, TaskStep

\* The same when nothing that is stored changes.
LEMMA SilentStep ==
  ASSUME IInv, NEW t \in Tasks, run[t].pc # "idle", NEW x \in RunType, x.pc # "idle",
         UNCHANGED <<tasks, ctx, handlers, page, spent, lost>>,
         run' = [run EXCEPT ![t] = x],
         rec[t].status \in StatusAt(x.pc),
         x.pc \in {"cleanup", "finish"} =>
           x.plan \in Terminal /\ (x.plan = "completed" => rec[t].status = "collecting"),
         NEW w \in {"none", "alive", "exited", "broken", "reaped"},
         wrk' = [wrk EXCEPT ![t] = w],
         w \in Unreaped => x.pc \in {"started", "loop", "tick"},
         app' \in [Tasks -> [phase : Phases, scope : BOOLEAN, dels : Nat]]
  PROVE  IInv'
<1>1. Stored'
  BY DEF IInv, Stored, tasks
<1>2. rec[t] \in Record /\ rec' = [rec EXCEPT ![t] = rec[t]] /\ UNCHANGED <<active, mem>>
  BY DEF IInv, Stored, tasks
<1>3. \A p \in Pages : page'[p].pc = page[p].pc /\ page'[p].task = page[p].task
  OBVIOUS
<1> QED
  BY <1>1, <1>2, <1>3, TaskStep

\* What the invariant says of one task whose goroutine is at work.
LEMMA AtWork ==
  ASSUME IInv, NEW t \in Tasks
  PROVE  /\ rec[t] \in Record /\ run[t] \in RunType /\ mem[t].token \in BOOLEAN
         /\ ctx[t] \in {"live", "stopped", "expired"}
         /\ wrk[t] \in {"none", "alive", "exited", "broken", "reaped"}
         /\ wrk[t] \in Unreaped => run[t].pc \in {"started", "loop", "tick"}
         /\ app \in [Tasks -> [phase : Phases, scope : BOOLEAN, dels : Nat]]
         /\ app[t] \in [phase : Phases, scope : BOOLEAN, dels : Nat]
         /\ run[t].pc # "idle" => rec[t].status \in StatusAt(run[t].pc)
BY DEF IInv, Stored, Memory, Control, RunType, Flags

\* Closing the scope of a task leaves the application's side well typed.
LEMMA ClosingType ==
  ASSUME IInv, NEW t \in Tasks
  PROVE  Closing(t) \in [Tasks -> [phase : Phases, scope : BOOLEAN, dels : Nat]]
<1>1. app \in [Tasks -> [phase : Phases, scope : BOOLEAN, dels : Nat]]
  BY AtWork
<1>2. "none" \in Phases /\ FALSE \in BOOLEAN
  BY DEF Phases
<1>3. ASSUME NEW b \in BOOLEAN, NEW phase \in Phases
      PROVE  [app EXCEPT ![t].scope = b, ![t].phase = phase]
               \in [Tasks -> [phase : Phases, scope : BOOLEAN, dels : Nat]]
  BY <1>1
<1> QED
  BY <1>2, <1>3 DEF Closing

\* A goroutine that plans the end of its task, for a reason other than success.
LEMMA PlanStep ==
  ASSUME IInv, NEW t \in Tasks, run[t].pc # "idle",
         NEW end \in {"failed", "stopped"}, Plan(t, end),
         NEW w \in {"none", "alive", "exited", "broken", "reaped"}, w \notin Unreaped,
         wrk' = [wrk EXCEPT ![t] = w],
         app' \in [Tasks -> [phase : Phases, scope : BOOLEAN, dels : Nat]],
         UNCHANGED <<tasks, ctx, handlers, page, spent, lost>>
  PROVE  IInv'
<1> DEFINE x == [run[t] EXCEPT !.pc = IF mem[t].token THEN "cleanup" ELSE "finish", !.plan = end]
<1>1. x \in RunType /\ x.pc \in {"cleanup", "finish"} /\ x.plan = end
  BY AtWork DEF RunType, Steps, Terminal
<1>2. run' = [run EXCEPT ![t] = x]
  BY DEF Plan
<1>3. rec[t].status \in Active
  BY AtWork DEF StatusAt, Active, RunType, Steps
<1>4. StatusAt(x.pc) = Active
  BY <1>1 DEF StatusAt
<1>5. end \in Terminal /\ end # "completed"
  BY DEF Terminal
<1> HIDE DEF x
<1> QED
  BY <1>1, <1>2, <1>3, <1>4, <1>5, SilentStep

LEMMA BeginStep == ASSUME IInv, NEW t \in Tasks, Begin(t) PROVE IInv'
<1> DEFINE r == [rec[t] EXCEPT !.status = "resetting"]
           x == [run[t] EXCEPT !.pc = "reset"]
<1>1. rec[t].status = "starting" /\ run[t].pc # "idle" /\ wrk[t] \notin Unreaped
  BY AtWork DEF Begin, StatusAt
<1>2. ValidTransition(rec[t].status, "resetting")
  BY <1>1 DEF ValidTransition
<1>3. r \in Record /\ r.status = "resetting" /\ x \in RunType /\ x.pc = "reset"
  <2>1. "resetting" \in Active
    BY DEF Active
  <2>2. r \in Record /\ r.status = "resetting"
    BY <2>1, AtWork, UpdatedIsARecord
  <2> QED
    BY <2>2, AtWork DEF RunType, Steps
<1>4. Save(t, Published(r, <<"log">>)) /\ run' = [run EXCEPT ![t] = x]
  BY <1>2 DEF Begin, Goto
<1>5. app' \in [Tasks -> [phase : Phases, scope : BOOLEAN, dels : Nat]]
      /\ UNCHANGED <<active, mem, ctx, wrk, handlers, lost>>
  BY AtWork DEF Begin
<1>6. r.status \in StatusAt(x.pc) /\ <<"log">> \in Seq(EventTypes)
  BY <1>3, OneEvent DEF StatusAt, EventTypes
<1> HIDE DEF r, x
<1> QED
  BY <1>1, <1>3, <1>4, <1>5, <1>6, SavingStep

LEMMA ResetStep == ASSUME IInv, NEW t \in Tasks, Reset(t) PROVE IInv'
<1> DEFINE r == [rec[t] EXCEPT !.metrics = IF rec[t].exp = "breakdown" THEN "warm" ELSE @]
           x == [run[t] EXCEPT !.pc = "launch"]
<1>1. rec[t].status = "resetting" /\ run[t].pc # "idle" /\ wrk[t] \notin Unreaped
  BY AtWork DEF Reset, StatusAt
<1>2. r \in Record /\ r.status = "resetting" /\ x \in RunType /\ x.pc = "launch"
  <2>1. "warm" \in Phases /\ rec[t].metrics \in Phases /\ rec[t] \in Record
    BY AtWork DEF Phases, Record
  <2>2. r \in Record /\ r.status = "resetting"
    BY <1>1, <2>1, UpdatedIsARecord
  <2> QED
    BY <2>2, AtWork DEF RunType, Steps
<1>3. Save(t, Published(r, <<"reset">>)) /\ run' = [run EXCEPT ![t] = x]
  BY DEF Reset, Goto
<1>4. app' \in [Tasks -> [phase : Phases, scope : BOOLEAN, dels : Nat]]
      /\ UNCHANGED <<active, mem, ctx, wrk, handlers, lost>>
  BY AtWork DEF Reset, Prepare, Phases
<1>5. r.status \in StatusAt(x.pc) /\ <<"reset">> \in Seq(EventTypes)
  BY <1>2, OneEvent DEF StatusAt, EventTypes
<1> HIDE DEF r, x
<1> QED
  BY <1>1, <1>2, <1>3, <1>4, <1>5, SavingStep

LEMMA ResetFailsStep == ASSUME IInv, NEW t \in Tasks, ResetFails(t) PROVE IInv'
<1> DEFINE end == IF ctx[t] = "live" THEN "failed" ELSE ContextEnd(t)
<1>1. end \in {"failed", "stopped"} /\ run[t].pc # "idle" /\ wrk[t] \notin Unreaped
  BY AtWork DEF ContextEnd, ResetFails
<1>2. app' \in [Tasks -> [phase : Phases, scope : BOOLEAN, dels : Nat]]
  BY AtWork DEF ResetFails, Prepare, Phases
<1>3. wrk[t] \in {"none", "alive", "exited", "broken", "reaped"} /\ wrk' = [wrk EXCEPT ![t] = wrk[t]]
  BY DEF ResetFails, IInv, Memory
<1>4. Plan(t, end) /\ UNCHANGED <<tasks, ctx, handlers, page, spent, lost>>
  BY DEF ResetFails
<1> HIDE DEF end
<1> QED
  BY <1>1, <1>2, <1>3, <1>4, PlanStep

LEMMA SpawnStep == ASSUME IInv, NEW t \in Tasks, Spawn(t) PROVE IInv'
<1> DEFINE x == [run[t] EXCEPT !.pc = "started"]
<1>1. x \in RunType /\ x.pc = "started" /\ run[t].pc # "idle"
  BY AtWork DEF RunType, Steps, Spawn
<1>2. rec[t].status \in StatusAt(x.pc)
  BY <1>1, AtWork DEF StatusAt, Spawn
<1>3. /\ run' = [run EXCEPT ![t] = x] /\ wrk' = [wrk EXCEPT ![t] = "alive"]
      /\ UNCHANGED <<tasks, ctx, handlers, page, spent, lost>>
  BY DEF Spawn, Goto
<1>4. app' \in [Tasks -> [phase : Phases, scope : BOOLEAN, dels : Nat]]
  BY AtWork DEF Spawn
<1> HIDE DEF x
<1> QED
  BY <1>1, <1>2, <1>3, <1>4, SilentStep

LEMMA LaunchFailsStep == ASSUME IInv, NEW t \in Tasks, LaunchFails(t) PROVE IInv'
<1> DEFINE end == IF ctx[t] = "live" \/ rec[t].exp = "burst" THEN "failed" ELSE ContextEnd(t)
<1>1. end \in {"failed", "stopped"} /\ run[t].pc # "idle" /\ wrk[t] \notin Unreaped
  BY AtWork DEF ContextEnd, LaunchFails
<1>2. app' \in [Tasks -> [phase : Phases, scope : BOOLEAN, dels : Nat]]
  BY AtWork DEF LaunchFails
<1>3. wrk[t] \in {"none", "alive", "exited", "broken", "reaped"} /\ wrk' = [wrk EXCEPT ![t] = wrk[t]]
  BY DEF LaunchFails, IInv, Memory
<1>4. Plan(t, end) /\ UNCHANGED <<tasks, ctx, handlers, page, spent, lost>>
  BY DEF LaunchFails
<1> HIDE DEF end
<1> QED
  BY <1>1, <1>2, <1>3, <1>4, PlanStep

LEMMA MarkRunningStep == ASSUME IInv, NEW t \in Tasks, MarkRunning(t) PROVE IInv'
<1> DEFINE r == [rec[t] EXCEPT !.status = "running"]
           x == [run[t] EXCEPT !.pc = "loop"]
<1>1. rec[t].status = "resetting" /\ run[t].pc # "idle"
  BY AtWork DEF MarkRunning, StatusAt
<1>2. "running" \in Active /\ "loop" \in Steps
  BY DEF Active, Steps
<1>3. r \in Record /\ r.status = "running" /\ x \in RunType /\ x.pc = "loop"
  <2>1. r \in Record /\ r.status = "running"
    BY <1>2, AtWork, UpdatedIsARecord
  <2> QED
    BY <2>1, <1>2, AtWork DEF RunType
<1>4. Save(t, Published(r, <<"launched">>)) /\ run' = [run EXCEPT ![t] = x]
  BY DEF MarkRunning, Goto
<1>5. app' \in [Tasks -> [phase : Phases, scope : BOOLEAN, dels : Nat]]
      /\ UNCHANGED <<active, mem, ctx, wrk, handlers, lost>>
  BY AtWork DEF MarkRunning
<1>6. r.status \in StatusAt(x.pc) /\ <<"launched">> \in Seq(EventTypes)
  BY <1>3, OneEvent DEF StatusAt, EventTypes
<1> HIDE DEF r, x
<1> QED
  BY <1>1, <1>3, <1>4, <1>5, <1>6, SavingStep

LEMMA MarkBurstRunningStep == ASSUME IInv, NEW t \in Tasks, MarkBurstRunning(t) PROVE IInv'
<1> DEFINE r == [rec[t] EXCEPT !.status = "running"]
           x == [run[t] EXCEPT !.pc = "loop"]
<1>1. rec[t].status = "resetting" /\ run[t].pc # "idle"
  BY AtWork DEF MarkBurstRunning, StatusAt
<1>2. "running" \in Active /\ "loop" \in Steps
  BY DEF Active, Steps
<1>3. r \in Record /\ r.status = "running" /\ x \in RunType /\ x.pc = "loop"
  <2>1. r \in Record /\ r.status = "running"
    BY <1>2, AtWork, UpdatedIsARecord
  <2> QED
    BY <2>1, <1>2, AtWork DEF RunType
<1>4. Save(t, Published(r, <<"launched">>)) /\ run' = [run EXCEPT ![t] = x]
  BY <1>1 DEF MarkBurstRunning, Goto, ValidTransition
<1>5. app' \in [Tasks -> [phase : Phases, scope : BOOLEAN, dels : Nat]]
      /\ UNCHANGED <<active, mem, ctx, wrk, handlers, lost>>
  BY AtWork DEF MarkBurstRunning
<1>6. r.status \in StatusAt(x.pc) /\ <<"launched">> \in Seq(EventTypes)
  BY <1>3, OneEvent DEF StatusAt, EventTypes
<1> HIDE DEF r, x
<1> QED
  BY <1>1, <1>3, <1>4, <1>5, <1>6, SavingStep

LEMMA SampleStep == ASSUME IInv, NEW t \in Tasks, Sample(t) PROVE IInv'
<1> DEFINE x == [run[t] EXCEPT !.pc = "tick", !.snap = app[t].phase]
<1>1. x \in RunType /\ x.pc = "tick" /\ run[t].pc # "idle"
  BY AtWork DEF RunType, Steps, Sample
<1>2. rec[t].status \in StatusAt(x.pc)
  BY <1>1, AtWork DEF StatusAt, Sample
<1>3. Stored'
  <2>1. spent \in Bookkeeping /\ spent' = [spent EXCEPT !.tick[t] = @ + 1]
    BY DEF IInv, Stored, Sample
  <2>2. spent' \in Bookkeeping
    BY <2>1 DEF Bookkeeping
  <2> QED
    BY <2>2 DEF IInv, Stored, Sample, tasks
<1>4. /\ rec[t] \in Record /\ rec' = [rec EXCEPT ![t] = rec[t]]
      /\ wrk[t] \in {"none", "alive", "exited", "broken", "reaped"}
      /\ wrk' = [wrk EXCEPT ![t] = wrk[t]] /\ run' = [run EXCEPT ![t] = x]
  BY DEF IInv, Stored, Memory, Sample, tasks
<1>5. app' \in [Tasks -> [phase : Phases, scope : BOOLEAN, dels : Nat]]
      /\ UNCHANGED <<active, mem, ctx, handlers, lost, page>>
  BY AtWork DEF Sample, tasks
<1> HIDE DEF x
<1> QED
  BY <1>1, <1>2, <1>3, <1>4, <1>5, TaskStep

LEMMA ProgressTypes ==
  ASSUME NEW t \in Tasks PROVE <<"progress", "metric">> \o Milestones(t) \in Seq(EventTypes)
<1>1. <<"rebuilt">> \in Seq(EventTypes) /\ <<"recovered">> \in Seq(EventTypes)
  BY OneEvent DEF EventTypes
<1>2. Milestones(t) \in Seq(EventTypes)
  BY <1>1 DEF Milestones
<1>3. <<"progress", "metric">> \in Seq(EventTypes)
  BY DEF EventTypes
<1> QED
  BY <1>2, <1>3

LEMMA ProgressStep == ASSUME IInv, NEW t \in Tasks, Progress(t) PROVE IInv'
<1> DEFINE r == [rec[t] EXCEPT !.metrics = run[t].snap]
           x == [run[t] EXCEPT !.pc = "loop"]
           types == <<"progress", "metric">> \o Milestones(t)
<1>1. rec[t].status = "running" /\ run[t].pc # "idle" /\ run[t].snap \in Phases
  BY AtWork DEF Progress, RunType
<1>2. r \in Record /\ r.status = "running"
  BY <1>1, AtWork, UpdatedIsARecord
<1>3. x \in RunType /\ x.pc = "loop"
  BY AtWork DEF RunType, Steps
<1>4. Save(t, Published(r, types)) /\ run' = [run EXCEPT ![t] = x]
  BY DEF Progress, Goto
<1>5. app' \in [Tasks -> [phase : Phases, scope : BOOLEAN, dels : Nat]]
      /\ UNCHANGED <<active, mem, ctx, wrk, handlers, lost>>
  BY AtWork DEF Progress
<1>6. types \in Seq(EventTypes)
  BY ProgressTypes
<1>7. r.status \in StatusAt(x.pc)
  BY <1>2, <1>3 DEF StatusAt
<1> HIDE DEF r, x, types
<1> QED
  BY <1>1, <1>2, <1>3, <1>4, <1>5, <1>6, <1>7, SavingStep

LEMMA CancelledStep == ASSUME IInv, NEW t \in Tasks, Cancelled(t) PROVE IInv'
<1> DEFINE w == IF wrk[t] = "none" THEN "none" ELSE "reaped"
<1>1. ContextEnd(t) \in {"failed", "stopped"} /\ run[t].pc # "idle"
  BY DEF ContextEnd, Cancelled
<1>2. w \in {"none", "alive", "exited", "broken", "reaped"} /\ w \notin Unreaped
  BY DEF Unreaped
<1>3. wrk' = [wrk EXCEPT ![t] = w]
  BY DEF Cancelled
<1>4. app' \in [Tasks -> [phase : Phases, scope : BOOLEAN, dels : Nat]]
  BY AtWork DEF Cancelled
<1>5. Plan(t, ContextEnd(t)) /\ UNCHANGED <<tasks, ctx, handlers, page, spent, lost>>
  BY DEF Cancelled
<1> HIDE DEF w
<1> QED
  BY <1>1, <1>2, <1>3, <1>4, <1>5, PlanStep

LEMMA ReapStep == ASSUME IInv, NEW t \in Tasks, Reap(t) PROVE IInv'
<1> DEFINE w == IF wrk[t] = "none" THEN "none" ELSE "reaped"
           x == [run[t] EXCEPT !.pc = "collect"]
<1>1. run[t].pc = "loop" /\ rec[t].status \in StatusAt("loop")
  BY AtWork DEF Reap
<1>2. w \in {"none", "alive", "exited", "broken", "reaped"} /\ w \notin Unreaped
  BY DEF Unreaped
<1>3. wrk' = [wrk EXCEPT ![t] = w] /\ UNCHANGED <<tasks, ctx, handlers, page, spent, lost>>
  BY DEF Reap
<1>4. app' \in [Tasks -> [phase : Phases, scope : BOOLEAN, dels : Nat]]
  BY AtWork DEF Reap
<1>5. x \in RunType /\ x.pc = "collect" /\ rec[t].status \in StatusAt(x.pc)
  BY <1>1, AtWork DEF RunType, Steps, StatusAt
<1>6. CASE wrk[t] = "broken"
  <2>1. Plan(t, "failed")
    BY <1>6 DEF Reap
  <2> HIDE DEF w
  <2> QED
    BY <2>1, <1>1, <1>2, <1>3, <1>4, PlanStep
<1>7. CASE wrk[t] # "broken"
  <2>1. run' = [run EXCEPT ![t] = x]
    BY <1>7 DEF Reap, Goto
  <2> HIDE DEF w, x
  <2> QED
    BY <2>1, <1>1, <1>2, <1>3, <1>4, <1>5, SilentStep
<1> QED
  BY <1>6, <1>7

LEMMA CollectStep == ASSUME IInv, NEW t \in Tasks, Collect(t) PROVE IInv'
<1> DEFINE r == [rec[t] EXCEPT !.status = "collecting"]
           x == IF ctx[t] = "live" \/ rec[t].exp = "burst" THEN [run[t] EXCEPT !.pc = "gather"]
                ELSE [run[t] EXCEPT !.pc = IF mem[t].token THEN "cleanup" ELSE "finish",
                                    !.plan = ContextEnd(t)]
<1>1. rec[t].status = "running" /\ run[t].pc # "idle" /\ wrk[t] \notin Unreaped
  BY AtWork DEF Collect, StatusAt
<1>2. ContextEnd(t) \in {"failed", "stopped"}
  BY DEF ContextEnd
<1>3. r \in Record /\ r.status = "collecting"
  <2>1. "collecting" \in Active
    BY DEF Active
  <2> QED
    BY <2>1, AtWork, UpdatedIsARecord
<1>4. x \in RunType /\ x.pc \in {"gather", "cleanup", "finish"}
      /\ (x.pc # "gather" => x.plan \in {"failed", "stopped"})
  BY <1>2, AtWork DEF RunType, Steps, Terminal
<1>5. Save(t, Published(r, <<"log">>)) /\ run' = [run EXCEPT ![t] = x]
  BY <1>1 DEF Collect, Goto, Plan, ValidTransition
<1>6. app' \in [Tasks -> [phase : Phases, scope : BOOLEAN, dels : Nat]]
      /\ UNCHANGED <<active, mem, ctx, wrk, handlers, lost>>
  BY AtWork DEF Collect
<1>7. r.status \in StatusAt(x.pc)
  BY <1>3, <1>4 DEF StatusAt, Active
<1>8. <<"log">> \in Seq(EventTypes)
  BY OneEvent DEF EventTypes
<1>9. x.pc # "idle" /\ (x.pc \in {"cleanup", "finish"} => x.plan \in Terminal /\ x.plan # "completed")
  BY <1>4 DEF Terminal
<1> HIDE DEF r, x
<1> QED
  BY <1>1, <1>3, <1>4, <1>5, <1>6, <1>7, <1>8, <1>9, SavingStep

LEMMA GatherStep == ASSUME IInv, NEW t \in Tasks, Gather(t) PROVE IInv'
<1> DEFINE r == [rec[t] EXCEPT !.metrics = app[t].phase]
           x == [run[t] EXCEPT !.pc = IF mem[t].token THEN "cleanup" ELSE "finish",
                               !.plan = "completed"]
<1>1. rec[t].status = "collecting" /\ run[t].pc # "idle" /\ wrk[t] \notin Unreaped
  BY AtWork DEF Gather, StatusAt
<1>2. r \in Record /\ r.status = "collecting"
  <2>1. app[t].phase \in Phases
    BY AtWork
  <2> QED
    BY <1>1, <2>1, AtWork, UpdatedIsARecord
<1>3. x \in RunType /\ x.pc \in {"cleanup", "finish"} /\ x.plan = "completed"
  BY AtWork DEF RunType, Steps, Terminal
<1>4. Save(t, r) /\ run' = [run EXCEPT ![t] = x]
  BY DEF Gather, Plan
<1>5. app' \in [Tasks -> [phase : Phases, scope : BOOLEAN, dels : Nat]]
      /\ UNCHANGED <<active, mem, ctx, wrk, handlers, lost>>
  BY AtWork DEF Gather
<1>6. r.status \in StatusAt(x.pc) /\ "completed" \in Terminal
  BY <1>2, <1>3 DEF StatusAt, Active, Terminal
<1>7. wrk[t] \in {"none", "alive", "exited", "broken", "reaped"} /\ wrk' = [wrk EXCEPT ![t] = wrk[t]]
  BY <1>5, AtWork DEF IInv, Memory
<1> HIDE DEF r, x
<1>8. /\ Stored' /\ rec' = [rec EXCEPT ![t] = r]
      /\ \A p \in Pages : page'[p].pc = page[p].pc /\ page'[p].task = page[p].task
  BY <1>2, <1>4, SaveType DEF IInv
<1> QED
  BY <1>1, <1>2, <1>3, <1>4, <1>5, <1>6, <1>7, <1>8, TaskStep

LEMMA GatherFailsStep == ASSUME IInv, NEW t \in Tasks, GatherFails(t) PROVE IInv'
<1> DEFINE end == IF rec[t].exp = "burst" /\ ctx[t] # "live" THEN ContextEnd(t) ELSE "failed"
<1>1. end \in {"failed", "stopped"} /\ run[t].pc # "idle" /\ wrk[t] \notin Unreaped
  BY AtWork DEF ContextEnd, GatherFails
<1>2. app' \in [Tasks -> [phase : Phases, scope : BOOLEAN, dels : Nat]]
  BY AtWork DEF GatherFails
<1>3. wrk[t] \in {"none", "alive", "exited", "broken", "reaped"} /\ wrk' = [wrk EXCEPT ![t] = wrk[t]]
  BY DEF GatherFails, IInv, Memory
<1>4. Plan(t, end) /\ UNCHANGED <<tasks, ctx, handlers, page, spent, lost>>
  BY DEF GatherFails
<1> HIDE DEF end
<1> QED
  BY <1>1, <1>2, <1>3, <1>4, PlanStep

LEMMA CleanupStep == ASSUME IInv, NEW t \in Tasks, Cleanup(t) PROVE IInv'
<1>1. PICK answered \in BOOLEAN, done \in BOOLEAN :
        /\ app' = IF done THEN Closing(t) ELSE app
        /\ run' = [run EXCEPT ![t].pc = "finish",
                              ![t].plan = IF ~answered /\ @ = "completed" THEN "failed" ELSE @]
  BY DEF Cleanup
<1> DEFINE end == IF ~answered /\ run[t].plan = "completed" THEN "failed" ELSE run[t].plan
           x == [run[t] EXCEPT !.pc = "finish", !.plan = end]
<1>2. run[t].pc = "cleanup" /\ rec[t].status \in Active /\ wrk[t] \notin Unreaped
  BY AtWork DEF Cleanup, StatusAt
<1>3. end \in Terminal /\ (end = "completed" => rec[t].status = "collecting")
  BY <1>2 DEF IInv, Control, Terminal
<1>4. x \in RunType /\ x.pc = "finish" /\ x.plan = end
  BY <1>3, AtWork DEF RunType, Steps
<1>5. run' = [run EXCEPT ![t] = x]
  BY <1>1, AtWork DEF RunType
<1>6. app' \in [Tasks -> [phase : Phases, scope : BOOLEAN, dels : Nat]]
  BY <1>1, AtWork, ClosingType
<1>7. wrk[t] \in {"none", "alive", "exited", "broken", "reaped"} /\ wrk' = [wrk EXCEPT ![t] = wrk[t]]
      /\ UNCHANGED <<tasks, ctx, handlers, page, spent, lost>>
  BY DEF Cleanup, IInv, Memory
<1>8. rec[t].status \in StatusAt(x.pc)
  BY <1>2, <1>4 DEF StatusAt
<1> HIDE DEF end, x
<1> QED
  BY <1>2, <1>3, <1>4, <1>5, <1>6, <1>7, <1>8, SilentStep

\* The end of a task gives the slot back.
LEMMA FinishStep == ASSUME IInv, NEW t \in Tasks, Finish(t) PROVE IInv'
<1> DEFINE r == [rec[t] EXCEPT !.status = run[t].plan]
           s == Published(r, <<"ended">>)
<1>1. /\ run[t].pc = "finish" /\ rec[t].status \in Active /\ wrk[t] \notin Unreaped
      /\ active = t /\ run[t].plan \in Terminal
      /\ (run[t].plan = "completed" => rec[t].status = "collecting")
  BY AtWork DEF Finish, StatusAt, IInv, Control
<1>2. ValidTransition(rec[t].status, run[t].plan)
  BY <1>1 DEF ValidTransition, Terminal
<1>3. s \in Record /\ s.status = run[t].plan
  <2>1. r \in Record /\ r.status = run[t].plan
    <3>1. run[t].plan \in Active \cup Terminal
      BY <1>1
    <3>2. rec[t] \in Record
      BY AtWork DEF Finish
    <3> QED
      BY <3>1, <3>2, UpdatedIsARecord
  <2>2. <<"ended">> \in Seq(EventTypes)
    BY OneEvent DEF EventTypes
  <2> HIDE DEF r
  <2> QED
    BY <2>1, <2>2, PublishedIsARecord
<1>4. /\ Save(t, s) /\ run' = [run EXCEPT ![t] = Asleep]
      /\ mem' = [mem EXCEPT ![t].token = FALSE] /\ active' = None
      /\ UNCHANGED <<ctx, wrk, app, handlers, lost>>
  BY <1>1, <1>2 DEF Finish
<1> HIDE DEF r, s
<1>5. /\ Stored' /\ rec' = [rec EXCEPT ![t] = s]
      /\ \A p \in Pages : page'[p].pc = page[p].pc /\ page'[p].task = page[p].task
  BY <1>3, <1>4, SaveType DEF IInv
<1>6. Memory'
  <2>1. Asleep \in RunType
    BY DEF Asleep, RunType, Steps, Phases
  <2>2. run' \in [Tasks -> RunType]
    BY <1>4, <2>1 DEF IInv, Memory, RunType
  <2>3. mem' \in [Tasks -> Flags]
    BY <1>4, AtWork, FlagsType DEF IInv, Memory
  <2> QED
    BY <1>4, <2>2, <2>3 DEF IInv, Memory, handlers, RunType
<1>7. Pointers'
  BY <1>4, <1>5 DEF IInv, Pointers, handlers
<1>8. /\ run'[t].pc = "idle" /\ rec'[t].status = run[t].plan
      /\ \A u \in Tasks \ {t} : run'[u] = run[u] /\ rec'[u] = rec[u] /\ run[u].pc = "idle"
  BY <1>1, <1>3, <1>4, <1>5 DEF IInv, Stored, Memory, Control, Asleep
<1>9. Control'
  <2>1. \A u \in Tasks : run'[u].pc = "idle" /\ rec'[u].status \notin Active
    BY <1>1, <1>8 DEF IInv, Control, Active, Terminal
  <2>2. \A u \in Tasks : wrk'[u] \notin Unreaped
    BY <1>1, <1>4, <1>8 DEF IInv, Control
  <2>3. stopper.pc # "idle" => rec'[stopper.task].status # "none"
    BY <1>1, <1>8 DEF IInv, Control, Pointers, Terminal
  <2>4. stopper.pc # "idle" => rec'[stopper.task].status \notin Active
    BY <2>1 DEF IInv, Pointers
  <2> QED
    BY <1>4, <2>1, <2>2, <2>3, <2>4 DEF Control, handlers
<1> QED
  BY <1>5, <1>6, <1>7, <1>9 DEF IInv

\* A step of anyone else that leaves the goroutines and all statuses alone.
LEMMA BystanderStep ==
  ASSUME IInv, Stored', Memory', Pointers', UNCHANGED <<active, run>>,
         \A t \in Tasks : rec'[t].status = rec[t].status,
         \A t \in Tasks : wrk'[t] \in Unreaped => wrk[t] \in Unreaped,
         stopper'.pc # "idle" => rec[stopper'.task].status # "none",
         stopper'.pc \in {"ok", "missing"} => rec[stopper'.task].status \notin Active
  PROVE  IInv'
<1>1. stopper'.pc # "idle" => stopper'.task \in Tasks
  BY DEF Pointers
<1>2. Control'
  BY <1>1 DEF IInv, Control
<1> QED
  BY <1>2 DEF IInv

LEMMA DeadlineStep == ASSUME IInv, NEW t \in Tasks, Deadline(t) PROVE IInv'
<1>1. Stored' /\ Memory' /\ Pointers'
  BY DEF Deadline, IInv, Stored, Memory, Pointers, tasks, handlers
<1> QED
  BY <1>1, BystanderStep DEF Deadline, IInv, Control, tasks, handlers

LEMMA KeyMovesStep == ASSUME IInv, NEW t \in Tasks, KeyMoves(t) PROVE IInv'
<1>1. app' \in [Tasks -> [phase : Phases, scope : BOOLEAN, dels : Nat]]
  BY AtWork DEF KeyMoves, Phases
<1>2. Stored' /\ Memory' /\ Pointers'
  BY <1>1 DEF KeyMoves, IInv, Stored, Memory, Pointers, tasks, handlers
<1> QED
  BY <1>2, BystanderStep DEF KeyMoves, IInv, Control, tasks, handlers

LEMMA LeaseExpiresStep == ASSUME IInv, NEW t \in Tasks, LeaseExpires(t) PROVE IInv'
<1>1. app' \in [Tasks -> [phase : Phases, scope : BOOLEAN, dels : Nat]]
  BY ClosingType DEF LeaseExpires
<1>2. Stored' /\ Memory' /\ Pointers'
  BY <1>1 DEF LeaseExpires, IInv, Stored, Memory, Pointers, tasks, handlers
<1> QED
  BY <1>2, BystanderStep DEF LeaseExpires, IInv, Control, tasks, handlers

LEMMA ExitStep ==
  ASSUME IInv, NEW t \in Tasks, NEW how \in {"exited", "broken"}, Exit(t, how) PROVE IInv'
<1>1. Stored' /\ Memory' /\ Pointers'
  BY DEF Exit, IInv, Stored, Memory, Pointers, tasks, handlers
<1>2. \A u \in Tasks : wrk'[u] \in Unreaped => wrk[u] \in Unreaped
  BY DEF Exit, IInv, Memory, Unreaped
<1> QED
  BY <1>1, <1>2, BystanderStep DEF Exit, IInv, Control, tasks, handlers

LEMMA StopAskStep == ASSUME IInv, NEW t \in Tasks, StopAsk(t) PROVE IInv'
<1>1. Stored' /\ Memory' /\ Pointers'
  <2>1. ctx' \in [Tasks -> {"live", "stopped", "expired"}]
    BY DEF StopAsk, IInv, Memory
  <2>2. stopper' \in [pc : {"ok", "waiting"}, task : Tasks]
    BY DEF StopAsk
  <2>3. Memory'
    BY <2>1, <2>2 DEF StopAsk, IInv, Memory, tasks
  <2>4. Stored' /\ Pointers'
    BY <2>2 DEF StopAsk, IInv, Stored, Pointers, tasks
  <2> QED
    BY <2>3, <2>4
<1>2. rec[t].status \in Active \cup Terminal /\ stopper'.task = t
  BY DEF StopAsk, Known
<1>3. stopper'.pc = "ok" => rec[t].status \in Terminal
  BY DEF StopAsk
<1>4. stopper'.pc \in {"ok", "waiting"}
  BY DEF StopAsk
<1> QED
  BY <1>1, <1>2, <1>3, <1>4, BystanderStep DEF StopAsk, tasks, Active, Terminal

LEMMA StopAnsweredStep == ASSUME IInv, StopAnswered PROVE IInv'
<1>1. Stored' /\ Memory' /\ Pointers'
  BY DEF StopAnswered, IInv, Stored, Memory, Pointers, tasks
<1> QED
  BY <1>1, BystanderStep DEF StopAnswered, IInv, Memory, Control, tasks

LEMMA StopTimeoutStep == ASSUME IInv, StopTimeout PROVE IInv'
<1>1. Stored' /\ Memory' /\ Pointers'
  BY DEF StopTimeout, IInv, Stored, Memory, Pointers, tasks
<1> QED
  BY <1>1, BystanderStep DEF StopTimeout, IInv, Memory, Control, tasks

LEMMA EvictAskStep ==
  ASSUME IInv, NEW e \in Evictors, NEW t \in Tasks, EvictAsk(e, t) PROVE IInv'
<1>1. Stored' /\ Memory' /\ Pointers'
  <2>1. mem' \in [Tasks -> Flags]
    BY FlagsType DEF EvictAsk, IInv, Memory
  <2>2. evictor' \in [Evictors -> [pc : {"idle", "calling", "deleted", "failed"},
                               task : Tasks \cup {None}]]
    BY DEF EvictAsk, IInv, Memory
  <2>3. Memory'
    BY <2>1, <2>2 DEF EvictAsk, IInv, Memory
  <2>4. Stored'
    BY DEF EvictAsk, IInv, Stored
  <2>5. Pointers'
    BY DEF EvictAsk, IInv, Memory, Pointers
  <2> QED
    BY <2>3, <2>4, <2>5
<1> QED
  BY <1>1, BystanderStep DEF EvictAsk, IInv, Control

LEMMA EvictCallStep == ASSUME IInv, NEW e \in Evictors, EvictCall(e) PROVE IInv'
<1> DEFINE t == evictor[e].task
<1>1. t \in Tasks /\ evictor[e].pc = "calling"
  BY DEF EvictCall, IInv, Pointers
<1>2. app' \in [Tasks -> [phase : Phases, scope : BOOLEAN, dels : Nat]]
  BY <1>1, AtWork DEF EvictCall, Phases
<1>3. spent' \in Bookkeeping /\ lost' \in [Tasks -> Nat]
  <2>1. spent \in Bookkeeping /\ lost \in [Tasks -> Nat]
    BY DEF IInv, Stored, Memory
  <2>2. spent' = spent \/ spent' = [spent EXCEPT !.fault = @ + 1]
    BY DEF EvictCall
  <2>3. lost' = lost \/ lost' = [lost EXCEPT ![t] = @ + 1]
    BY DEF EvictCall
  <2> HIDE DEF t
  <2>4. spent' \in Bookkeeping
    BY <2>1, <2>2 DEF Bookkeeping
  <2> QED
    BY <1>1, <2>1, <2>3, <2>4
<1>4. evictor' = [evictor EXCEPT ![e].pc = "deleted"] \/ evictor' = [evictor EXCEPT ![e].pc = "failed"]
  BY DEF EvictCall
<1>5. Memory'
  <2>1. evictor \in [Evictors -> [pc : {"idle", "calling", "deleted", "failed"},
                               task : Tasks \cup {None}]]
    BY DEF IInv, Memory
  <2>2. evictor' \in [Evictors -> [pc : {"idle", "calling", "deleted", "failed"},
                               task : Tasks \cup {None}]]
    BY <1>4, <2>1
  <2> QED
    BY <1>2, <1>3, <2>2 DEF EvictCall, IInv, Memory, tasks
<1>6. Stored'
  BY <1>3 DEF EvictCall, IInv, Stored, tasks
<1>7. Pointers'
  <2>1. evictor'[e].task = t /\ \A f \in Evictors \ {e} : evictor'[f] = evictor[f]
    BY <1>4 DEF IInv, Memory
  <2>2. \A f \in Evictors : evictor'[f].pc # "idle" => evictor'[f].task \in Tasks
    BY <1>1, <2>1 DEF IInv, Pointers
  <2> QED
    BY <2>2 DEF EvictCall, IInv, Pointers, tasks
<1> QED
  BY <1>5, <1>6, <1>7, BystanderStep DEF EvictCall, IInv, Control, tasks

LEMMA EvictRefusedStep == ASSUME IInv, NEW e \in Evictors, EvictRefused(e) PROVE IInv'
<1>1. Stored' /\ Memory' /\ Pointers'
  BY DEF EvictRefused, IInv, Stored, Memory, Pointers, tasks
<1> QED
  BY <1>1, BystanderStep DEF EvictRefused, IInv, Control, tasks

LEMMA EvictFailedStep == ASSUME IInv, NEW e \in Evictors, EvictFailed(e) PROVE IInv'
<1>1. Stored' /\ Memory' /\ Pointers'
  <2>1. mem' \in [Tasks -> Flags]
    BY FlagsType DEF EvictFailed, IInv, Memory, Pointers
  <2>2. evictor' \in [Evictors -> [pc : {"idle", "calling", "deleted", "failed"},
                               task : Tasks \cup {None}]]
    BY DEF EvictFailed, IInv, Memory
  <2>3. Memory'
    BY <2>1, <2>2 DEF EvictFailed, IInv, Memory
  <2>4. Stored'
    BY DEF EvictFailed, IInv, Stored
  <2>5. Pointers'
    BY DEF EvictFailed, IInv, Memory, Pointers
  <2> QED
    BY <2>3, <2>4, <2>5
<1> QED
  BY <1>1, BystanderStep DEF EvictFailed, IInv, Control

LEMMA EvictDoneStep == ASSUME IInv, NEW e \in Evictors, EvictDone(e) PROVE IInv'
<1> DEFINE t == evictor[e].task
           r == [rec[t] EXCEPT !.metrics = "evicted"]
           s == Published(r, <<"evicted">>)
<1>1. t \in Tasks
  BY DEF EvictDone, IInv, Pointers
<1>2. evictor' = [evictor EXCEPT ![e].pc = "idle"]
      /\ UNCHANGED <<active, run, ctx, wrk, app, stopper, lost>>
  BY DEF EvictDone
<1>3. evictor' \in [Evictors -> [pc : {"idle", "calling", "deleted", "failed"},
                               task : Tasks \cup {None}]]
  BY <1>2 DEF IInv, Memory
<1>4. CASE Known(t)
  <2>1. s \in Record /\ s.status = rec[t].status
    <3>1. r \in Record /\ r.status = rec[t].status
      <4>1. "evicted" \in Phases
        BY DEF Phases
      <4> QED
        BY <1>1, <4>1, AtWork, UpdatedIsARecord
    <3>2. <<"evicted">> \in Seq(EventTypes)
      BY OneEvent DEF EventTypes
    <3> HIDE DEF r
    <3> QED
      BY <3>1, <3>2, PublishedIsARecord
  <2>2. Save(t, s) /\ mem' = [mem EXCEPT ![t].evicting = FALSE, ![t].evicted = TRUE]
    BY <1>4 DEF EvictDone
  <2> HIDE DEF s, t
  <2>3. /\ Stored' /\ rec' = [rec EXCEPT ![t] = s]
        /\ \A p \in Pages : page'[p].pc = page[p].pc /\ page'[p].task = page[p].task
    BY <1>1, <2>1, <2>2, SaveType DEF IInv
  <2>4. mem' \in [Tasks -> Flags]
    <3>1. mem \in [Tasks -> Flags]
      BY DEF IInv, Memory
    <3>2. mem[t].token \in BOOLEAN
      BY <1>1, <3>1 DEF Flags
    <3> QED
      BY <1>1, <2>2, <3>1, <3>2 DEF Flags
  <2>5. Memory'
    BY <1>2, <1>3, <2>4 DEF IInv, Memory
  <2>6. Pointers'
    BY <1>2, <2>3 DEF IInv, Memory, Pointers
  <2>7. \A u \in Tasks : rec'[u].status = rec[u].status
    BY <2>1, <2>3 DEF IInv, Stored
  <2> QED
    BY <1>2, <2>3, <2>5, <2>6, <2>7, BystanderStep DEF IInv, Control
<1>5. CASE ~Known(t)
  <2>1. UNCHANGED <<rec, order, mem, disk, page, spent>>
    BY <1>5 DEF EvictDone
  <2>2. Stored' /\ Memory'
    BY <1>2, <1>3, <2>1 DEF IInv, Stored, Memory
  <2>3. Pointers'
    BY <1>2, <2>1 DEF IInv, Memory, Pointers
  <2> QED
    BY <1>2, <2>1, <2>2, <2>3, BystanderStep DEF IInv, Control
<1> QED
  BY <1>4, <1>5

\* A step of one event stream.
LEMMA PageStep ==
  ASSUME IInv, NEW p \in Pages, NEW q \in PageType, page' = [page EXCEPT ![p] = q],
         q.pc # "closed" => q.task \in Tasks, spent' \in Bookkeeping,
         UNCHANGED <<tasks, run, ctx, wrk, app, handlers, lost>>
  PROVE  IInv'
<1>1. Stored' /\ Memory'
  BY DEF IInv, Stored, Memory, tasks, handlers
<1>2. Pointers'
  BY DEF IInv, Stored, Pointers, handlers
<1> QED
  BY <1>1, <1>2, BystanderStep DEF IInv, Control, tasks, handlers

LEMMA SubscribeStep ==
  ASSUME IInv, NEW p \in Pages, NEW t \in Tasks, Subscribe(p, t) PROVE IInv'
<1> DEFINE n == Len(rec[t].events)
           q == [page[p] EXCEPT !.pc = "replayed", !.task = t, !.queue = <<>>,
                                !.seen = @ \cup (page[p].last + 1 .. n),
                                !.last = IF @ < n THEN n ELSE @]
<1>1. n \in Nat
  <2>1. rec[t].events \in Seq(Event)
    BY AtWork DEF Record, Event
  <2> QED
    BY <2>1
<1>2. page[p] \in PageType
  BY DEF IInv, Stored
<1>3. page' = [page EXCEPT ![p] = q] /\ UNCHANGED <<tasks, run, ctx, wrk, app, handlers, spent, lost>>
  BY DEF Subscribe
<1>4. q \in PageType /\ q.task = t
  <2> HIDE DEF n
  <2>1. page[p].last \in Nat /\ page[p].seen \in SUBSET Nat
    BY <1>2 DEF PageType
  <2>2. page[p].seen \cup (page[p].last + 1 .. n) \in SUBSET Nat
    BY <1>1, <2>1
  <2>3. <<>> \in Seq(QueueItem)
    OBVIOUS
  <2> QED
    BY <1>1, <1>2, <2>1, <2>2, <2>3 DEF PageType
<1>5. spent' \in Bookkeeping
  BY <1>3 DEF IInv, Stored
<1> HIDE DEF q
<1> QED
  BY <1>3, <1>4, <1>5, PageStep

LEMMA AfterReplayStep == ASSUME IInv, NEW p \in Pages, AfterReplay(p) PROVE IInv'
<1> DEFINE q == [page[p] EXCEPT !.pc = IF rec[page[p].task].status \in Terminal
                                       THEN "closed" ELSE "streaming"]
<1>1. page' = [page EXCEPT ![p] = q] /\ UNCHANGED <<tasks, run, ctx, wrk, app, handlers, spent, lost>>
  BY DEF AfterReplay
<1>2. page[p] \in PageType /\ page[p].task \in Tasks /\ spent' \in Bookkeeping
  BY DEF AfterReplay, IInv, Stored, Pointers
<1>3. q \in PageType /\ q.task \in Tasks
  BY <1>2 DEF PageType
<1> HIDE DEF q
<1> QED
  BY <1>1, <1>2, <1>3, PageStep

LEMMA DeliverStep == ASSUME IInv, NEW p \in Pages, Deliver(p) PROVE IInv'
<1> DEFINE event == Head(page[p].queue)
           q == [page[p] EXCEPT !.queue = Tail(@), !.seen = @ \cup {event.id}, !.last = event.id,
                                !.pc = IF event.end THEN "closed" ELSE @]
<1>1. page' = [page EXCEPT ![p] = q] /\ UNCHANGED <<tasks, run, ctx, wrk, app, handlers, spent, lost>>
  BY DEF Deliver
<1>2. page[p] \in PageType /\ page[p].task \in Tasks /\ spent' \in Bookkeeping
  BY DEF Deliver, IInv, Stored, Pointers
<1>3. page[p].queue \in Seq(QueueItem) /\ page[p].queue # <<>>
  BY <1>2 DEF PageType, Deliver
<1>4. event \in QueueItem /\ Tail(page[p].queue) \in Seq(QueueItem)
  BY <1>3
<1>5. event.id \in Nat
  BY <1>4 DEF QueueItem
<1>6. page[p].seen \cup {event.id} \in SUBSET Nat
  BY <1>2, <1>5 DEF PageType
<1>7. q \in PageType /\ q.task \in Tasks
  <2> HIDE DEF event
  <2> QED
    BY <1>2, <1>4, <1>5, <1>6 DEF PageType
<1> HIDE DEF q
<1> QED
  BY <1>1, <1>2, <1>7, PageStep

LEMMA DisconnectStep == ASSUME IInv, NEW p \in Pages, Disconnect(p) PROVE IInv'
<1> DEFINE q == [page[p] EXCEPT !.pc = "closed"]
<1>1. page' = [page EXCEPT ![p] = q] /\ UNCHANGED <<tasks, run, ctx, wrk, app, handlers, lost>>
  BY DEF Disconnect
<1>2. q \in PageType /\ q.pc = "closed"
  BY DEF IInv, Stored, PageType
<1>3. spent' \in Bookkeeping
  <2>1. spent \in Bookkeeping /\ spent' = [spent EXCEPT !.fault = @ + 1]
    BY DEF Disconnect, IInv, Stored
  <2> QED
    BY <2>1 DEF Bookkeeping
<1> HIDE DEF q
<1> QED
  BY <1>1, <1>2, <1>3, PageStep

LEMMA BlankIsARecord == /\ Blank \in Record /\ Blank.status = "none"
                        /\ [Blank EXCEPT !.status = "gone"] \in Record
                        /\ [Blank EXCEPT !.status = "gone"].status = "gone"
<1>1. <<>> \in Seq([type : EventTypes, end : BOOLEAN]) /\ "none" \in Phases
  BY DEF Phases
<1>2. Blank \in Record /\ Blank.status = "none"
  BY <1>1 DEF Blank, Record
<1>3. ASSUME NEW b \in Record
      PROVE  [b EXCEPT !.status = "gone"] \in Record /\ [b EXCEPT !.status = "gone"].status = "gone"
  BY DEF Record
<1> QED
  BY <1>2, <1>3

\* The record of a task that starts.
LEMMA StartedIsARecord ==
  ASSUME NEW x \in Experiments
  PROVE  LET fresh == Published([Blank EXCEPT !.exp = x, !.status = "starting"], <<"started">>)
         IN fresh \in Record /\ fresh.status = "starting"
<1> DEFINE born == [Blank EXCEPT !.exp = x, !.status = "starting"]
<1>1. born \in Record /\ born.status = "starting"
  <2>1. "starting" \in Active
    BY DEF Active
  <2>2. ASSUME NEW b \in Record
        PROVE  /\ [b EXCEPT !.exp = x, !.status = "starting"] \in Record
               /\ [b EXCEPT !.exp = x, !.status = "starting"].status = "starting"
    BY <2>1 DEF Record
  <2> QED
    BY <2>2, BlankIsARecord
<1>2. <<"started">> \in Seq(EventTypes)
  BY OneEvent DEF EventTypes
<1> HIDE DEF born
<1>3. Published(born, <<"started">>) \in Record /\ Published(born, <<"started">>).status = "starting"
  BY <1>1, <1>2, PublishedIsARecord
<1> QED
  BY <1>3 DEF born

\* While the slot is free nothing is at work.
LEMMA FreeMeansIdle ==
  ASSUME IInv, Free
  PROVE  \A t \in Tasks : run[t].pc = "idle" /\ rec[t].status \notin Active
<1>1. ASSUME NEW t \in Tasks, run[t].pc # "idle" PROVE FALSE
  <2>1. active = t /\ rec[t].status \in StatusAt(run[t].pc)
    BY <1>1 DEF IInv, Control
  <2>2. rec[t].status \in Active
    BY <1>1, <2>1, AtWork DEF StatusAt, Active, RunType, Steps
  <2>3. t # None
    BY TasksAssumption
  <2> QED
    BY <2>1, <2>2, <2>3 DEF Free
<1> QED
  BY <1>1 DEF IInv, Control

LEMMA StartStep ==
  ASSUME IInv, NEW t \in Tasks, NEW x \in Experiments, Start(t, x) PROVE IInv'
<1> DEFINE ids    == Append(order, t)
           victim == Pruned(ids)
           born   == [Blank EXCEPT !.exp = x, !.status = "starting"]
           fresh  == Published(born, <<"started">>)
           gone   == [Blank EXCEPT !.status = "gone"]
<1>1. /\ rec[t].status = "none" /\ Free /\ active' = t
      /\ order' = IF victim = None THEN ids ELSE Tail(ids)
      /\ rec' = [u \in Tasks |-> IF u = t THEN fresh ELSE IF u = victim THEN gone ELSE rec[u]]
      /\ mem' = [mem EXCEPT ![t].token = (x \in Scoped)]
      /\ run' = [run EXCEPT ![t].pc = "begin"]
      /\ Broadcast(t) /\ Persist
      /\ UNCHANGED <<ctx, wrk, app, handlers, lost>>
  BY DEF Start
<1>2. fresh \in Record /\ fresh.status = "starting"
  BY StartedIsARecord
<1>3. gone \in Record /\ gone.status = "gone"
  BY BlankIsARecord
<1>4. ids \in Seq(Tasks) /\ Tail(ids) \in Seq(Tasks)
  <2>1. order \in Seq(Tasks)
    BY DEF IInv, Stored
  <2>2. ids \in Seq(Tasks) /\ ids # <<>>
    BY <2>1
  <2> HIDE DEF ids
  <2> QED
    BY <2>2
<1> HIDE DEF ids, victim, fresh, gone
<1>5. order' \in Seq(Tasks) /\ rec' \in [Tasks -> Record]
  BY <1>1, <1>2, <1>3, <1>4 DEF IInv, Stored
<1>6. Stored' /\ \A p \in Pages : page'[p].pc = page[p].pc /\ page'[p].task = page[p].task
  <2>1. /\ page' \in [Pages -> PageType]
        /\ \A p \in Pages : page'[p].pc = page[p].pc /\ page'[p].task = page[p].task
    BY <1>1, <1>5, BroadcastType DEF IInv, Stored
  <2>2. disk' \in Snapshot /\ spent' \in Bookkeeping
    BY <1>1, <1>5, PersistType DEF IInv, Stored
  <2> QED
    BY <1>5, <2>1, <2>2 DEF Stored
<1>7. Memory'
  <2>1. mem' \in [Tasks -> Flags]
    <3>1. mem \in [Tasks -> Flags]
      BY DEF IInv, Memory
    <3> DEFINE b == x \in Scoped
    <3>2. b \in BOOLEAN
      OBVIOUS
    <3>3. mem' = [mem EXCEPT ![t].token = b]
      BY <1>1
    <3> HIDE DEF b
    <3>4. [mem EXCEPT ![t].token = b] \in [Tasks -> Flags]
      BY <3>1, <3>2, FlagsType
    <3> QED
      BY <3>3, <3>4
  <2>2. run' \in [Tasks -> RunType]
    <3>1. run \in [Tasks -> RunType]
      BY DEF IInv, Memory, RunType
    <3>2. ASSUME NEW q \in RunType PROVE [q EXCEPT !.pc = "begin"] \in RunType
      BY DEF RunType, Steps
    <3>3. run' = [run EXCEPT ![t] = [run[t] EXCEPT !.pc = "begin"]]
      BY <1>1
    <3>4. [run[t] EXCEPT !.pc = "begin"] \in RunType
      BY <3>1, <3>2
    <3> QED
      BY <3>1, <3>3, <3>4
  <2> QED
    BY <1>1, <2>1, <2>2 DEF IInv, Memory, RunType, handlers
<1>8. Pointers'
  BY <1>1, <1>6 DEF IInv, Pointers, handlers
<1>9. \A u \in Tasks : run[u].pc = "idle" /\ rec[u].status \notin Active
  BY <1>1, FreeMeansIdle
<1>10. /\ run'[t].pc = "begin" /\ rec'[t].status = "starting"
       /\ \A u \in Tasks \ {t} :
            run'[u].pc = "idle" /\ rec'[u].status \in {rec[u].status, "gone"}
  <2>1. run'[t].pc = "begin" /\ \A u \in Tasks \ {t} : run'[u] = run[u]
    BY <1>1 DEF IInv, Memory
  <2> QED
    BY <1>1, <1>2, <1>3, <1>9, <2>1
<1>11. Control'
  <2>1. \A u \in Tasks \ {t} : rec'[u].status \notin Active
    BY <1>9, <1>10 DEF Active
  <2>2. \A u \in Tasks : wrk'[u] \notin Unreaped
    BY <1>1, <1>9 DEF IInv, Control
  <2>3. rec'[t].status \in StatusAt("begin")
    BY <1>10 DEF StatusAt
  <2>4. stopper'.pc # "idle" => stopper'.task \in Tasks \ {t} /\ rec[stopper'.task].status # "none"
    BY <1>1 DEF IInv, Control, Pointers, handlers
  <2> QED
    BY <1>1, <1>10, <2>1, <2>2, <2>3, <2>4 DEF Control
<1> QED
  BY <1>6, <1>7, <1>8, <1>11 DEF IInv

\* A record read from disk is one that has ended, or nothing.
LEMMA LoadedHasEnded ==
  ASSUME NEW r \in Record
  PROVE  /\ Loaded(r) \in Record /\ Loaded(r).status \notin Active
         /\ Loaded(r).status = IF r.status \in Active THEN "failed" ELSE r.status
         /\ Len(Loaded(r).events) >= Len(r.events)
<1> DEFINE failed == [r EXCEPT !.status = "failed"]
<1>1. /\ failed \in Record /\ failed.status = "failed" /\ "failed" \notin Active
      /\ failed.events = r.events
  <2>1. "failed" \in Terminal /\ "failed" \notin Active
    BY DEF Terminal, Active
  <2> QED
    BY <2>1, UpdatedIsARecord
<1>2. <<"ended">> \in Seq(EventTypes)
  BY OneEvent DEF EventTypes
<1>3. Loaded(r) = IF r.status \in Active THEN Published(failed, <<"ended">>) ELSE r
  BY DEF Loaded
<1>4. Len(r.events) \in Nat
  BY DEF Record
<1> HIDE DEF failed
<1>5. CASE r.status \in Active
  <2> DEFINE ended == Published(failed, <<"ended">>)
  <2>1. /\ ended \in Record /\ ended.status = failed.status
        /\ Len(ended.events) >= Len(failed.events)
    BY <1>1, <1>2, PublishedIsARecord
  <2>2. Loaded(r) = ended
    BY <1>3, <1>5
  <2> HIDE DEF ended
  <2> QED
    BY <1>1, <1>5, <2>1, <2>2
<1>6. CASE r.status \notin Active
  BY <1>3, <1>4, <1>6
<1> QED
  BY <1>5, <1>6

LEMMA RestartStep == ASSUME IInv, Restart PROVE IInv'
<1> DEFINE gone == [Blank EXCEPT !.status = "gone"]
<1>1. /\ order' = disk.order
      /\ rec' = [t \in Tasks |-> IF disk.rec[t].status # "none" THEN Loaded(disk.rec[t])
                                 ELSE IF rec[t].status # "none" THEN gone ELSE Blank]
      /\ disk' = [order |-> order', rec |-> rec'] \/ disk' = disk
      /\ \/ spent' = [spent EXCEPT !.crash = @ + 1]
         \/ spent' = [spent EXCEPT !.crash = @ + 1, !.fault = @ + 1]
      /\ active' = None
      /\ mem' = [t \in Tasks |-> Plain]
      /\ run' = [t \in Tasks |-> Asleep]
      /\ ctx' = [t \in Tasks |-> "live"]
      /\ wrk' = [t \in Tasks |-> "none"]
      /\ stopper' = [pc |-> "idle", task |-> None]
      /\ evictor' = [e \in Evictors |-> [pc |-> "idle", task |-> None]]
      /\ UNCHANGED <<app, lost>>
  BY DEF Restart
<1>2. disk.order \in Seq(Tasks) /\ \A t \in Tasks : disk.rec[t] \in Record
  BY DEF IInv, Stored, Snapshot
<1>3. /\ gone \in Record /\ gone.status = "gone"
      /\ Blank \in Record /\ Blank.status = "none"
  BY BlankIsARecord
<1> HIDE DEF gone
<1>4. \A t \in Tasks : rec'[t] \in Record /\ rec'[t].status \notin Active
  BY <1>1, <1>2, <1>3, LoadedHasEnded DEF Active
<1>5. rec' \in [Tasks -> Record] /\ order' \in Seq(Tasks)
  BY <1>1, <1>2, <1>4
<1>6. disk' \in Snapshot
  BY <1>1, <1>5 DEF IInv, Stored, Snapshot
<1>7. spent' \in Bookkeeping
  <2>1. spent \in Bookkeeping
    BY DEF IInv, Stored
  <2>2. ASSUME spent' = [spent EXCEPT !.crash = @ + 1] PROVE spent' \in Bookkeeping
    BY <2>1, <2>2 DEF Bookkeeping
  <2>3. ASSUME spent' = [spent EXCEPT !.crash = @ + 1, !.fault = @ + 1]
        PROVE  spent' \in Bookkeeping
    <3>1. spent' = [tick |-> spent.tick, fault |-> spent.fault + 1, crash |-> spent.crash + 1]
      BY <2>1, <2>3 DEF Bookkeeping
    <3> QED
      BY <2>1, <3>1 DEF Bookkeeping
  <2> QED
    BY <1>1, <2>2, <2>3
<1>8. page' \in [Pages -> PageType] /\ \A p \in Pages : page'[p].pc # "closed" => page'[p].task \in Tasks
  <2> DEFINE cut(p) == [page[p] EXCEPT !.pc = "closed", !.queue = <<>>,
                          !.gap = @ \/ page[p].last > Len(disk.rec[page[p].task].events)]
  <2>1. page' = [p \in Pages |-> IF page[p].task = None THEN page[p] ELSE cut(p)]
    BY DEF Restart
  <2>2. ASSUME NEW p \in Pages PROVE page[p] \in PageType /\ cut(p) \in PageType /\ cut(p).pc = "closed"
    <3>1. page[p] \in PageType
      BY DEF IInv, Stored
    <3>2. page[p].gap \in BOOLEAN /\ <<>> \in Seq(QueueItem)
      BY <3>1 DEF PageType
    <3>3. (page[p].gap \/ page[p].last > Len(disk.rec[page[p].task].events)) \in BOOLEAN
      BY <3>2
    <3> QED
      BY <3>1, <3>2, <3>3 DEF PageType
  <2>3. \A p \in Pages : page[p].pc # "closed" => page[p].task \in Tasks
    BY DEF IInv, Pointers
  <2> HIDE DEF cut
  <2> QED
    BY <2>1, <2>2, <2>3
<1>9. Stored'
  BY <1>5, <1>6, <1>7, <1>8 DEF Stored
<1>10. Memory'
  <2>1. Plain \in Flags /\ Asleep \in RunType
    BY DEF Plain, Flags, Asleep, RunType, Steps, Phases
  <2>2. mem' \in [Tasks -> Flags] /\ run' \in [Tasks -> RunType]
    BY <1>1, <2>1
  <2> QED
    BY <1>1, <2>2 DEF IInv, Memory, RunType
<1>11. Pointers'
  BY <1>1, <1>8 DEF Pointers
<1>12. Control'
  <2>1. \A t \in Tasks : run'[t].pc = "idle" /\ wrk'[t] \notin Unreaped
    BY <1>1 DEF Asleep, Unreaped
  <2> QED
    BY <1>1, <1>4, <2>1 DEF Control
<1> QED
  BY <1>9, <1>10, <1>11, <1>12 DEF IInv

\* The invariant is kept by every step.
LEMMA StepIInv == IInv /\ [Next]_vars => IInv'
<1> SUFFICES ASSUME IInv, [Next]_vars PROVE IInv'
  OBVIOUS
<1>1. ASSUME NEW t \in Tasks, NEW x \in Experiments, Start(t, x) PROVE IInv'
  BY <1>1, StartStep
<1>2. ASSUME NEW t \in Tasks, RunTask(t) PROVE IInv'
  BY <1>2, BeginStep, ResetStep, ResetFailsStep, SpawnStep, LaunchFailsStep, MarkRunningStep,
     MarkBurstRunningStep, SampleStep, ProgressStep, CancelledStep, ReapStep, CollectStep,
     GatherStep, GatherFailsStep, CleanupStep, FinishStep DEF RunTask
<1>3. ASSUME NEW t \in Tasks, Environment(t) PROVE IInv'
  BY <1>3, DeadlineStep, KeyMovesStep, LeaseExpiresStep, ExitStep DEF Environment
<1>4. ASSUME Stop PROVE IInv'
  BY <1>4, StopAskStep, StopAnsweredStep, StopTimeoutStep DEF Stop
<1>5. ASSUME NEW e \in Evictors, EvictCache(e) PROVE IInv'
  BY <1>5, EvictAskStep, EvictCallStep, EvictRefusedStep, EvictFailedStep, EvictDoneStep
     DEF EvictCache
<1>6. ASSUME NEW p \in Pages, Stream(p) PROVE IInv'
  BY <1>6, SubscribeStep, AfterReplayStep, DeliverStep, DisconnectStep DEF Stream
<1>7. CASE Restart
  BY <1>7, RestartStep
<1>8. CASE UNCHANGED vars
  <2>1. Stored' /\ Memory'
    BY <1>8 DEF vars, tasks, handlers, IInv, Stored, Memory
  <2>2. Pointers' /\ Control'
    BY <1>8 DEF vars, tasks, handlers, IInv, Pointers, Control
  <2> QED
    BY <2>1, <2>2 DEF IInv
<1> QED
  BY <1>1, <1>2, <1>3, <1>4, <1>5, <1>6, <1>7, <1>8 DEF Next

LEMMA AlwaysIInv == Spec => []IInv
BY InitIInv, StepIInv, PTL DEF Spec

\* Every variable has its type, for any number of tasks, requests, pages and
\* restarts.
THEOREM RunnerTypeCorrect == Spec => []TypeOK
<1>1. IInv => TypeOK
  BY TypeIsStoredAndMemory DEF IInv
<1> QED
  BY <1>1, AlwaysIInv, PTL

\* Runner.Start is exclusive: a task that has not ended, and a goroutine that
\* works, is the one activeID names, whatever Stop, deadlines and restarts do.
THEOREM OneTaskAtATime == Spec => []OneActiveTask
<1>1. IInv => OneActiveTask
  <2> SUFFICES ASSUME IInv, NEW t \in Tasks, rec[t].status \in Active \/ run[t].pc # "idle"
               PROVE  active = t /\ rec[t].status \in Active
    BY DEF OneActiveTask
  <2>1. run[t].pc # "idle" /\ active = t /\ rec[t].status \in StatusAt(run[t].pc)
    BY DEF IInv, Control
  <2> QED
    BY <2>1, AtWork DEF StatusAt, Active, RunType, Steps
<1> QED
  BY <1>1, AlwaysIInv, PTL

\* No wrk2 process outlives its task: one that has not been waited for belongs
\* to the active task.
THEOREM ChildrenAreReaped == Spec => []ChildHasItsTask
<1>1. IInv => ChildHasItsTask
  <2> SUFFICES ASSUME IInv, NEW t \in Tasks, wrk[t] \in Unreaped
               PROVE  active = t /\ rec[t].status \in Active
    BY DEF ChildHasItsTask, Unreaped
  <2>1. run[t].pc \in {"started", "loop", "tick"} /\ active = t
        /\ rec[t].status \in StatusAt(run[t].pc)
    BY DEF IInv, Control
  <2> QED
    BY <2>1 DEF StatusAt, Active
<1> QED
  BY <1>1, AlwaysIInv, PTL

\* When Stop answers with a task it is over: its status is final, its child is
\* reaped and the slot is not its own.
THEOREM StopMeansOver == Spec => []StoppedMeansOver
<1>1. IInv => StoppedMeansOver
  <2> SUFFICES ASSUME IInv, stopper.pc = "ok"
               PROVE  /\ rec[stopper.task].status \notin Active
                      /\ wrk[stopper.task] \in {"none", "reaped"}
                      /\ active # stopper.task
    BY DEF StoppedMeansOver
  <2> DEFINE t == stopper.task
  <2>1. t \in Tasks /\ rec[t].status \notin Active
    BY DEF IInv, Pointers, Control
  <2>2. run[t].pc = "idle"
    <3>1. run[t].pc # "idle" => rec[t].status \in StatusAt(run[t].pc)
      BY <2>1 DEF IInv, Control
    <3>2. run[t].pc \in Steps
      BY <2>1, AtWork DEF RunType
    <3> QED
      BY <2>1, <3>1, <3>2 DEF StatusAt, Active, Steps
  <2>3. wrk[t] \in {"none", "reaped"}
    BY <2>1, <2>2, AtWork DEF Unreaped
  <2>4. active # t
    <3>1. t # None
      BY <2>1, TasksAssumption
    <3> QED
      BY <2>1, <2>2, <3>1 DEF IInv, Control
  <2> QED
    BY <2>1, <2>3, <2>4
<1> QED
  BY <1>1, AlwaysIInv, PTL

-----------------------------------------------------------------------------
(* Sections under the lock: how a record may change                        *)

\* The record that replaces the one of t: a stage further on, and no shorter.
Grown(t, r) ==
  /\ r \in Record /\ Known(t)
  /\ \/ r.status = rec[t].status
     \/ rec[t].status \in Active /\ r.status \in {"failed", "stopped"}
     \/ <<rec[t].status, r.status>> \in
          {<<"starting", "resetting">>, <<"resetting", "running">>,
           <<"running", "collecting">>, <<"collecting", "completed">>}
  /\ Len(r.events) >= Len(rec[t].events)

Quiet   == UNCHANGED <<rec, order, disk, page>>
Section == \E t \in Tasks, r \in Record : Grown(t, r) /\ Save(t, r)

\* A record with another status or other metrics and more events has grown.
LEMMA GrownStatus ==
  ASSUME IInv, NEW t \in Tasks, Known(t), NEW status \in Active \cup Terminal,
         NEW types \in Seq(EventTypes),
         \/ rec[t].status \in Active /\ status \in {"failed", "stopped"}
         \/ <<rec[t].status, status>> \in
              {<<"starting", "resetting">>, <<"resetting", "running">>,
               <<"running", "collecting">>, <<"collecting", "completed">>},
         Save(t, Published([rec[t] EXCEPT !.status = status], types))
  PROVE  Section
<1> DEFINE r == [rec[t] EXCEPT !.status = status]
           s == Published(r, types)
<1>1. rec[t] \in Record
  BY AtWork
<1>2. r \in Record /\ r.status = status /\ r.events = rec[t].events
  BY <1>1, UpdatedIsARecord
<1>3. s \in Record /\ s.status = status /\ Len(s.events) >= Len(rec[t].events)
  <2> HIDE DEF r
  <2> QED
    BY <1>2, PublishedIsARecord
<1> HIDE DEF r, s
<1>4. Grown(t, s)
  BY <1>3 DEF Grown
<1> QED
  BY <1>3, <1>4 DEF Section, r, s

LEMMA GrownMetrics ==
  ASSUME IInv, NEW t \in Tasks, Known(t), NEW m \in Phases, NEW types \in Seq(EventTypes),
         \/ Save(t, Published([rec[t] EXCEPT !.metrics = m], types))
         \/ Save(t, [rec[t] EXCEPT !.metrics = m])
  PROVE  Section
<1> DEFINE r == [rec[t] EXCEPT !.metrics = m]
           s == Published(r, types)
<1>1. rec[t] \in Record /\ Len(rec[t].events) \in Nat
  <2>1. rec[t] \in Record
    BY AtWork
  <2>2. rec[t].events \in Seq(Event)
    BY <2>1 DEF Record, Event
  <2> QED
    BY <2>1, <2>2
<1>2. r \in Record /\ r.status = rec[t].status /\ r.events = rec[t].events
  BY <1>1, UpdatedIsARecord
<1>3. s \in Record /\ s.status = rec[t].status /\ Len(s.events) >= Len(rec[t].events)
  <2> HIDE DEF r
  <2> QED
    BY <1>2, PublishedIsARecord
<1>4. Save(t, s) \/ Save(t, r)
  OBVIOUS
<1> HIDE DEF r, s
<1>5. Grown(t, s) /\ Grown(t, r)
  BY <1>1, <1>2, <1>3 DEF Grown
<1> QED
  BY <1>2, <1>3, <1>4, <1>5 DEF Section

\* What a step leaves alone of the evictions: the requests, the flags and the
\* counters of deletions and lost answers.
NoEviction ==
  /\ UNCHANGED <<evictor, lost>>
  /\ \A t \in Tasks : /\ mem'[t].evicting = mem[t].evicting /\ mem'[t].evicted = mem[t].evicted
                       /\ app'[t].dels = app[t].dels

\* Every step of a task's goroutine is silent or one section under the lock.
LEMMA TaskSection ==
  ASSUME IInv, NEW t \in Tasks, RunTask(t)
  PROVE  Quiet \/ Section
<1>1. CASE Begin(t)
  <2>1. rec[t].status = "starting"
    BY <1>1, AtWork DEF Begin, StatusAt
  <2>2. Save(t, Published([rec[t] EXCEPT !.status = "resetting"], <<"log">>))
    BY <1>1, <2>1 DEF Begin, ValidTransition
  <2>3. Known(t) /\ "resetting" \in Active /\ <<"log">> \in Seq(EventTypes)
    BY <2>1, OneEvent DEF Known, Active, EventTypes
  <2> QED
    BY <2>1, <2>2, <2>3, GrownStatus
<1>2. CASE Reset(t)
  <2>1. Save(t, Published([rec[t] EXCEPT !.metrics = IF rec[t].exp = "breakdown" THEN "warm" ELSE @], <<"reset">>))
    BY <1>2 DEF Reset
  <2>2. rec[t].status = "resetting" /\ rec[t].metrics \in Phases /\ "warm" \in Phases
    BY <1>2, AtWork DEF Reset, StatusAt, Phases, Record
  <2>3. Known(t) /\ <<"reset">> \in Seq(EventTypes)
    BY <2>2, OneEvent DEF Known, Active, EventTypes
  <2> QED
    BY <2>1, <2>2, <2>3, GrownMetrics
<1>3. CASE MarkRunning(t)
  <2>1. rec[t].status = "resetting"
    BY <1>3, AtWork DEF MarkRunning, StatusAt
  <2>2. Save(t, Published([rec[t] EXCEPT !.status = "running"], <<"launched">>))
    BY <1>3 DEF MarkRunning
  <2>3. Known(t) /\ "running" \in Active /\ <<"launched">> \in Seq(EventTypes)
    BY <2>1, OneEvent DEF Known, Active, EventTypes
  <2> QED
    BY <2>1, <2>2, <2>3, GrownStatus
<1>4. CASE MarkBurstRunning(t)
  <2>1. rec[t].status = "resetting"
    BY <1>4, AtWork DEF MarkBurstRunning, StatusAt
  <2>2. Save(t, Published([rec[t] EXCEPT !.status = "running"], <<"launched">>))
    BY <1>4, <2>1 DEF MarkBurstRunning, ValidTransition
  <2>3. Known(t) /\ "running" \in Active /\ <<"launched">> \in Seq(EventTypes)
    BY <2>1, OneEvent DEF Known, Active, EventTypes
  <2> QED
    BY <2>1, <2>2, <2>3, GrownStatus
<1>5. CASE Progress(t)
  <2> DEFINE types == <<"progress", "metric">> \o Milestones(t)
  <2>1. Save(t, Published([rec[t] EXCEPT !.metrics = run[t].snap], types))
    BY <1>5 DEF Progress
  <2>2. Known(t) /\ run[t].snap \in Phases
    BY <1>5, AtWork DEF Progress, Known, Active, RunType
  <2>3. types \in Seq(EventTypes)
    BY ProgressTypes
  <2> HIDE DEF types
  <2> QED
    BY <2>1, <2>2, <2>3, GrownMetrics
<1>6. CASE Collect(t)
  <2>1. rec[t].status = "running"
    BY <1>6, AtWork DEF Collect, StatusAt
  <2>2. Save(t, Published([rec[t] EXCEPT !.status = "collecting"], <<"log">>))
    BY <1>6, <2>1 DEF Collect, ValidTransition
  <2>3. Known(t) /\ "collecting" \in Active /\ <<"log">> \in Seq(EventTypes)
    BY <2>1, OneEvent DEF Known, Active, EventTypes
  <2> QED
    BY <2>1, <2>2, <2>3, GrownStatus
<1>7. CASE Gather(t)
  <2>1. Save(t, [rec[t] EXCEPT !.metrics = app[t].phase])
    BY <1>7 DEF Gather
  <2>2. Known(t) /\ app[t].phase \in Phases
    BY <1>7, AtWork DEF Gather, Known, Active, StatusAt
  <2>3. <<"log">> \in Seq(EventTypes)
    BY OneEvent DEF EventTypes
  <2> QED
    BY <2>1, <2>2, <2>3, GrownMetrics
<1>8. CASE Finish(t)
  <2>1. /\ rec[t].status \in Active /\ run[t].plan \in Terminal
        /\ run[t].plan = "completed" => rec[t].status = "collecting"
    BY <1>8, AtWork DEF Finish, StatusAt, IInv, Control
  <2>2. Save(t, Published([rec[t] EXCEPT !.status = run[t].plan], <<"ended">>))
    BY <1>8, <2>1 DEF Finish, ValidTransition, Terminal
  <2>3. Known(t) /\ <<"ended">> \in Seq(EventTypes)
    BY <2>1, OneEvent DEF Known, EventTypes
  <2>4. run[t].plan \in {"failed", "stopped"} \/ <<rec[t].status, run[t].plan>> = <<"collecting", "completed">>
    BY <2>1 DEF Terminal
  <2>5. run[t].plan \in Active \cup Terminal
    BY <2>1
  <2> QED
    BY <2>1, <2>2, <2>3, <2>4, <2>5, GrownStatus
<1>9. CASE \/ ResetFails(t) \/ Spawn(t) \/ LaunchFails(t) \/ Sample(t) \/ Cancelled(t)
           \/ Reap(t) \/ GatherFails(t) \/ Cleanup(t)
  BY <1>9 DEF Quiet, ResetFails, Spawn, LaunchFails, Sample, Cancelled, Reap, GatherFails, Cleanup, tasks
<1> QED
  BY <1>1, <1>2, <1>3, <1>4, <1>5, <1>6, <1>7, <1>8, <1>9 DEF RunTask

\* What a goroutine does to its flags and to the application is no eviction.
LEMMA TaskNoEviction ==
  ASSUME IInv, NEW t \in Tasks, RunTask(t) \/ Environment(t)
  PROVE  NoEviction
<1>0. /\ mem \in [Tasks -> Flags]
      /\ app \in [Tasks -> [phase : Phases, scope : BOOLEAN, dels : Nat]]
  BY DEF IInv, Memory
<1>1. \/ UNCHANGED app \/ Prepare(t) \/ app' = Closing(t)
      \/ \E phase \in {"hot", "rebuilt", "stable"} : app' = [app EXCEPT ![t].phase = phase]
  <2>1. CASE Environment(t)
    BY <2>1 DEF Environment, Deadline, KeyMoves, LeaseExpires, Exit
  <2>2. CASE RunTask(t)
    BY <2>2 DEF RunTask, Begin, Reset, ResetFails, Spawn, LaunchFails, MarkRunning, MarkBurstRunning,
         Sample, Progress, Cancelled, Reap, Collect, Gather, GatherFails, Cleanup, Finish
  <2> QED
    BY <2>1, <2>2
<1>2. \A u \in Tasks : app'[u].dels = app[u].dels
  <2>1. ASSUME NEW b \in BOOLEAN, NEW phase
        PROVE  /\ app' = [app EXCEPT ![t].phase = phase, ![t].scope = b] => \A u \in Tasks : app'[u].dels = app[u].dels
               /\ app' = [app EXCEPT ![t].scope = b, ![t].phase = phase] => \A u \in Tasks : app'[u].dels = app[u].dels
               /\ app' = [app EXCEPT ![t].phase = phase] => \A u \in Tasks : app'[u].dels = app[u].dels
    BY <1>0
  <2>2. CASE Prepare(t)
    <3> DEFINE b == rec[t].exp \in Scoped
               phase == IF rec[t].exp = "breakdown" THEN "warm" ELSE "plain"
    <3>1. app' = [app EXCEPT ![t].phase = phase, ![t].scope = b] /\ b \in BOOLEAN
      BY <2>2 DEF Prepare
    <3> HIDE DEF b, phase
    <3> QED
      BY <3>1, <2>1
  <2>3. CASE app' = Closing(t)
    BY <2>1, <2>3 DEF Closing
  <2> QED
    BY <1>1, <2>1, <2>2, <2>3
<1>3. UNCHANGED mem \/ mem' = [mem EXCEPT ![t].token = FALSE]
  <2>1. CASE Environment(t)
    BY <2>1 DEF Environment, Deadline, KeyMoves, LeaseExpires, Exit, tasks
  <2>2. CASE RunTask(t)
    BY <2>2 DEF RunTask, Begin, Reset, ResetFails, Spawn, LaunchFails, MarkRunning, MarkBurstRunning,
         Sample, Progress, Cancelled, Reap, Collect, Gather, GatherFails, Cleanup, Finish, tasks
  <2> QED
    BY <2>1, <2>2
<1>4. \A u \in Tasks : mem'[u].evicting = mem[u].evicting /\ mem'[u].evicted = mem[u].evicted
  BY <1>0, <1>3 DEF Flags
<1>5. UNCHANGED <<evictor, lost>>
  <2>1. CASE Environment(t)
    BY <2>1 DEF Environment, Deadline, KeyMoves, LeaseExpires, Exit, handlers
  <2>2. CASE RunTask(t)
    BY <2>2 DEF RunTask, Begin, Reset, ResetFails, Spawn, LaunchFails, MarkRunning, MarkBurstRunning,
         Sample, Progress, Cancelled, Reap, Collect, Gather, GatherFails, Cleanup, Finish, handlers
  <2> QED
    BY <2>1, <2>2
<1> QED
  BY <1>2, <1>4, <1>5 DEF NoEviction

\* The second half of an eviction is a section under the lock; nobody else but
\* Start and Restart touches what is stored.
LEMMA EvictSection ==
  ASSUME IInv, NEW e \in Evictors, EvictCache(e) PROVE Quiet \/ Section
<1>1. CASE EvictDone(e)
  <2> DEFINE t == evictor[e].task
  <2>1. t \in Tasks
    BY <1>1 DEF EvictDone, IInv, Pointers
  <2>2. CASE Known(t)
    <3>1. Save(t, Published([rec[t] EXCEPT !.metrics = "evicted"], <<"evicted">>))
      BY <1>1, <2>2 DEF EvictDone
    <3>2. "evicted" \in Phases /\ <<"evicted">> \in Seq(EventTypes)
      BY OneEvent DEF Phases, EventTypes
    <3> HIDE DEF t
    <3> QED
      BY <2>1, <2>2, <3>1, <3>2, GrownMetrics
  <2>3. CASE ~Known(t)
    BY <1>1, <2>3 DEF EvictDone, Quiet
  <2> QED
    BY <2>2, <2>3
<1>2. CASE EvictCall(e) \/ EvictRefused(e) \/ EvictFailed(e) \/ \E t \in Tasks : EvictAsk(e, t)
  BY <1>2 DEF Quiet, EvictCall, EvictRefused, EvictFailed, EvictAsk, tasks
<1> QED
  BY <1>1, <1>2 DEF EvictCache

LEMMA OtherSection ==
  ASSUME IInv, (\E t \in Tasks : Environment(t)) \/ Stop PROVE Quiet
BY DEF Quiet, Environment, Deadline, KeyMoves, LeaseExpires, Exit, Stop, StopAsk, StopAnswered, StopTimeout, tasks

LEMMA StopNoEviction == ASSUME Stop PROVE NoEviction
BY DEF NoEviction, Stop, StopAsk, StopAnswered, StopTimeout, tasks

LEMMA StreamSection ==
  ASSUME NEW p \in Pages, Stream(p) PROVE NoEviction /\ UNCHANGED <<rec, order, disk>>
BY DEF NoEviction, Stream, AfterReplay, Deliver, Disconnect, Subscribe, tasks, handlers

-----------------------------------------------------------------------------
(* The list of tasks, and the history of a status                          *)

\* The ids of a list name records that are there, each once.
Listing(ids, r) ==
  /\ \A i \in DOMAIN ids : r[ids[i]].status \in Active \cup Terminal
  /\ \A i, j \in DOMAIN ids : ids[i] = ids[j] => i = j

Listed == Listing(order, rec) /\ Listing(disk.order, disk.rec)

LEMMA TailOfIds ==
  ASSUME NEW ids \in Seq(Tasks), ids # <<>>
  PROVE  /\ Tail(ids) \in Seq(Tasks) /\ Len(Tail(ids)) = Len(ids) - 1
         /\ \A i \in DOMAIN Tail(ids) : i + 1 \in DOMAIN ids /\ Tail(ids)[i] = ids[i + 1]
OBVIOUS

LEMMA AppendedId ==
  ASSUME NEW ids \in Seq(Tasks), NEW t \in Tasks
  PROVE  /\ Append(ids, t) \in Seq(Tasks) /\ Append(ids, t) # <<>>
         /\ DOMAIN Append(ids, t) = 1 .. Len(ids) + 1
         /\ Append(ids, t)[Len(ids) + 1] = t
         /\ \A i \in 1 .. Len(ids) : Append(ids, t)[i] = ids[i]
OBVIOUS

\* What Start does to the records: a new one, and the oldest dropped if it has
\* ended and there are too many.
LEMMA StartRecords ==
  ASSUME IInv, Listing(order, rec), NEW t \in Tasks, NEW x \in Experiments, Start(t, x)
  PROVE  /\ rec[t].status = "none" /\ rec'[t].status = "starting"
         /\ disk' = [order |-> order', rec |-> rec'] \/ disk' = disk
         /\ \A i \in DOMAIN order : order[i] # t
         /\ \/ /\ \A u \in Tasks \ {t} : rec'[u] = rec[u]
               /\ order' = Append(order, t)
            \/ /\ order # <<>> /\ order[1] \in Tasks /\ rec[order[1]].status \in Terminal
               /\ rec'[order[1]].status = "gone" /\ rec'[order[1]].events = <<>>
               /\ \A u \in Tasks \ {t, order[1]} : rec'[u] = rec[u]
               /\ order' = Tail(Append(order, t))
<1> DEFINE ids    == Append(order, t)
           victim == Pruned(ids)
           born   == [Blank EXCEPT !.exp = x, !.status = "starting"]
           fresh  == Published(born, <<"started">>)
           gone   == [Blank EXCEPT !.status = "gone"]
<1>1. /\ rec[t].status = "none"
      /\ order' = IF victim = None THEN ids ELSE Tail(ids)
      /\ rec' = [u \in Tasks |-> IF u = t THEN fresh ELSE IF u = victim THEN gone ELSE rec[u]]
      /\ Persist
  BY DEF Start
<1>2. fresh.status = "starting"
  BY StartedIsARecord
<1>3. gone.status = "gone" /\ gone.events = <<>>
  BY DEF Blank
<1>4. order \in Seq(Tasks)
  BY DEF IInv, Stored
<1>5. /\ ids \in Seq(Tasks) /\ Len(ids) = Len(order) + 1
      /\ Head(ids) = ids[1] /\ Len(order) \in Nat
      /\ Len(order) > 0 => ids[1] = order[1]
  BY <1>4
<1>6. \A i \in DOMAIN order : order[i] # t
  BY <1>1 DEF Listing, Active, Terminal
<1>7. disk' = [order |-> order', rec |-> rec'] \/ disk' = disk
  BY <1>1 DEF Persist
<1>8. ASSUME victim # None
      PROVE  /\ order # <<>> /\ order[1] \in Tasks /\ order[1] = victim /\ victim # t
             /\ rec[victim].status \in Terminal
  <2>1. Len(ids) > MaxStored /\ rec[Head(ids)].status \notin Active /\ victim = Head(ids)
    BY <1>8 DEF Pruned
  <2>2. Len(order) > 0
    BY <2>1, <1>5, BoundsAssumption
  <2>3. order # <<>> /\ 1 \in DOMAIN order /\ order[1] \in Tasks
    BY <1>4, <2>2
  <2> HIDE DEF ids, victim
  <2> QED
    BY <1>5, <1>6, <2>1, <2>2, <2>3 DEF Listing
<1> HIDE DEF ids, victim, fresh, gone
<1>9. rec'[t].status = "starting"
  BY <1>1, <1>2
<1>10. CASE victim = None
  <2>1. \A u \in Tasks \ {t} : rec'[u] = rec[u]
    BY <1>1, <1>10, TasksAssumption
  <2> QED
    BY <1>1, <1>6, <1>7, <1>9, <1>10, <2>1 DEF ids
<1>11. CASE victim # None
  <2>1. order' = Tail(Append(order, t))
    BY <1>1, <1>11 DEF ids
  <2>2. /\ rec'[victim] = gone
        /\ \A u \in Tasks \ {t, victim} : rec'[u] = rec[u]
    BY <1>1, <1>8, <1>11
  <2> QED
    BY <1>1, <1>3, <1>6, <1>7, <1>8, <1>9, <1>11, <2>1, <2>2
<1> QED
  BY <1>10, <1>11

LEMMA InitListed == Init => Listed
BY DEF Init, Listed, Listing

LEMMA StartListed ==
  ASSUME IInv, Listed, NEW t \in Tasks, NEW x \in Experiments, Start(t, x) PROVE Listed'
<1>1. Listing(order, rec) /\ Listing(disk.order, disk.rec)
  BY DEF Listed
<1>2. /\ rec'[t].status = "starting"
      /\ disk' = [order |-> order', rec |-> rec'] \/ disk' = disk
      /\ \A i \in DOMAIN order : order[i] # t
      /\ \/ /\ \A u \in Tasks \ {t} : rec'[u] = rec[u]
            /\ order' = Append(order, t)
         \/ /\ order # <<>> /\ order[1] \in Tasks
            /\ \A u \in Tasks \ {t, order[1]} : rec'[u] = rec[u]
            /\ order' = Tail(Append(order, t))
  BY <1>1, StartRecords
<1>3. order \in Seq(Tasks) /\ Len(order) \in Nat /\ DOMAIN order = 1 .. Len(order)
  BY DEF IInv, Stored
<1> DEFINE ids == Append(order, t)
<1>4. /\ ids \in Seq(Tasks) /\ ids # <<>> /\ DOMAIN ids = 1 .. Len(order) + 1
      /\ ids[Len(order) + 1] = t
      /\ \A i \in 1 .. Len(order) : ids[i] = order[i] /\ order[i] \in Tasks
  BY <1>3, AppendedId
<1> HIDE DEF ids
<1>5. \A i, j \in DOMAIN ids : ids[i] = ids[j] => i = j
  BY <1>1, <1>2, <1>3, <1>4 DEF Listing
<1>6. "starting" \in Active
  BY DEF Active
<1>7. Listing(order', rec')
  <2>1. CASE order' = ids /\ \A u \in Tasks \ {t} : rec'[u] = rec[u]
    <3>1. ASSUME NEW i \in DOMAIN ids PROVE rec'[ids[i]].status \in Active \cup Terminal
      <4>1. CASE i = Len(order) + 1
        BY <1>2, <1>4, <1>6, <4>1
      <4>2. CASE i # Len(order) + 1
        <5>1. i \in 1 .. Len(order) /\ i \in DOMAIN order
          BY <1>3, <1>4, <4>2
        <5>2. ids[i] = order[i] /\ order[i] # t /\ order[i] \in Tasks
          BY <1>2, <1>4, <5>1
        <5>3. rec'[order[i]] = rec[order[i]]
          BY <2>1, <5>2
        <5> QED
          BY <1>1, <5>1, <5>2, <5>3 DEF Listing
      <4> QED
        BY <4>1, <4>2
    <3> QED
      BY <1>5, <2>1, <3>1 DEF Listing
  <2>2. CASE /\ order # <<>> /\ order[1] \in Tasks /\ order' = Tail(ids)
             /\ \A u \in Tasks \ {t, order[1]} : rec'[u] = rec[u]
    <3>1. \A i \in DOMAIN order' : i + 1 \in DOMAIN ids /\ order'[i] = ids[i + 1] /\ i \in Nat \ {0}
      BY <1>4, <2>2, TailOfIds
    <3>2. 1 \in DOMAIN ids /\ ids[1] = order[1]
      BY <1>3, <1>4, <2>2
    <3>3. ASSUME NEW i \in DOMAIN ids, i # 1 PROVE rec'[ids[i]].status \in Active \cup Terminal
      <4>1. ids[i] # order[1]
        BY <1>5, <3>2, <3>3
      <4> QED
        BY <1>1, <1>2, <1>3, <1>4, <1>6, <2>2, <4>1 DEF Listing
    <3>4. \A i \in DOMAIN order' : rec'[order'[i]].status \in Active \cup Terminal
      BY <3>1, <3>3
    <3>5. \A i, j \in DOMAIN order' : order'[i] = order'[j] => i = j
      BY <1>5, <3>1
    <3> QED
      BY <3>4, <3>5 DEF Listing
  <2> QED
    BY <1>2, <2>1, <2>2 DEF ids
<1>8. Listing(disk'.order, disk'.rec)
  BY <1>1, <1>2, <1>7
<1> QED
  BY <1>7, <1>8 DEF Listed

\* One section under the lock leaves the list as it was.
LEMMA SectionListed ==
  ASSUME IInv, Listed, Section PROVE Listed'
<1>1. PICK t \in Tasks, r \in Record : Grown(t, r) /\ Save(t, r)
  BY DEF Section
<1>2. rec' = [rec EXCEPT ![t] = r] /\ order' = order
  BY <1>1 DEF Save
<1>3. r.status \in Active \cup Terminal
  BY <1>1 DEF Grown, Known, Active, Terminal
<1>4. order \in Seq(Tasks) /\ rec \in [Tasks -> Record]
  BY DEF IInv, Stored
<1>5. Listing(order', rec')
  BY <1>2, <1>3, <1>4 DEF Listed, Listing
<1>6. Listing(disk.order, disk.rec)
  BY DEF Listed
<1>7. disk' = [order |-> order', rec |-> rec'] \/ disk' = disk
  BY <1>1 DEF Save, Persist
<1>8. Listing(disk'.order, disk'.rec)
  BY <1>5, <1>6, <1>7
<1> QED
  BY <1>5, <1>8 DEF Listed

LEMMA RestartListed ==
  ASSUME IInv, Listed, Restart PROVE Listed'
<1>1. /\ order' = disk.order
      /\ \A t \in Tasks : disk.rec[t].status # "none" => rec'[t] = Loaded(disk.rec[t])
      /\ disk' = [order |-> order', rec |-> rec'] \/ disk' = disk
  BY DEF Restart
<1>2. disk.order \in Seq(Tasks) /\ \A t \in Tasks : disk.rec[t] \in Record
  BY DEF IInv, Stored, Snapshot
<1>3. Listing(disk.order, disk.rec)
  BY DEF Listed
<1>4. ASSUME NEW i \in DOMAIN disk.order
      PROVE  rec'[disk.order[i]].status \in Active \cup Terminal
  <2> DEFINE t == disk.order[i]
  <2>1. t \in Tasks /\ disk.rec[t].status \in Active \cup Terminal
    BY <1>2, <1>3 DEF Listing
  <2>2. rec'[t] = Loaded(disk.rec[t])
    BY <1>1, <2>1 DEF Active, Terminal
  <2> HIDE DEF t
  <2>3. Loaded(disk.rec[t]).status \in Active \cup Terminal
    BY <1>2, <2>1, LoadedHasEnded DEF Active, Terminal
  <2> QED
    BY <2>2, <2>3 DEF t
<1>5. Listing(order', rec')
  BY <1>1, <1>3, <1>4 DEF Listing
<1> QED
  BY <1>1, <1>3, <1>5 DEF Listed

LEMMA StepListed == IInv /\ Listed /\ [Next]_vars => Listed'
<1> SUFFICES ASSUME IInv, Listed, [Next]_vars PROVE Listed'
  OBVIOUS
<1>1. Quiet => Listed'
  BY DEF Quiet, Listed, Listing
<1>2. ASSUME NEW t \in Tasks, NEW x \in Experiments, Start(t, x) PROVE Listed'
  BY <1>2, StartListed
<1>3. ASSUME NEW t \in Tasks, RunTask(t) PROVE Listed'
  BY <1>1, <1>3, TaskSection, SectionListed
<1>4. CASE (\E t \in Tasks : Environment(t)) \/ Stop
  BY <1>1, <1>4, OtherSection
<1>5. ASSUME NEW e \in Evictors, EvictCache(e) PROVE Listed'
  BY <1>1, <1>5, EvictSection, SectionListed
<1>6. ASSUME NEW p \in Pages, Stream(p) PROVE Listed'
  BY <1>6, StreamSection DEF Listed, Listing
<1>7. CASE Restart
  BY <1>7, RestartListed
<1>8. CASE UNCHANGED vars
  BY <1>8 DEF vars, tasks, Listed, Listing
<1> QED
  BY <1>2, <1>3, <1>4, <1>5, <1>6, <1>7, <1>8 DEF Next

LEMMA AlwaysListed == Spec => [](IInv /\ Listed)
<1>1. Init => IInv /\ Listed
  BY InitIInv, InitListed
<1>2. (IInv /\ Listed) /\ [Next]_vars => (IInv /\ Listed)'
  BY StepIInv, StepListed
<1> QED
  BY <1>1, <1>2, PTL DEF Spec

\* What StatusHistory allows in a step.
Moves ==
  \A t \in Tasks : rec'[t].status # rec[t].status =>
    \/ rec[t].status \in Active /\ rec'[t].status \in {"failed", "stopped"}
    \/ <<rec[t].status, rec'[t].status>> \in
         {<<"none", "starting">>, <<"starting", "resetting">>, <<"resetting", "running">>,
          <<"running", "collecting">>, <<"collecting", "completed">>}
    \/ rec[t].status \in Terminal /\ rec'[t].status = "gone" /\ order # order'
    \/ spent'.crash # spent.crash /\ disk.rec # rec

LEMMA StartMoves ==
  ASSUME IInv, Listed, NEW t \in Tasks, NEW x \in Experiments, Start(t, x) PROVE Moves
<1>1. /\ rec[t].status = "none" /\ rec'[t].status = "starting"
      /\ \A i \in DOMAIN order : order[i] # t
      /\ \/ /\ \A u \in Tasks \ {t} : rec'[u] = rec[u]
            /\ order' = Append(order, t)
         \/ /\ order # <<>> /\ order[1] \in Tasks /\ rec[order[1]].status \in Terminal
            /\ rec'[order[1]].status = "gone"
            /\ \A u \in Tasks \ {t, order[1]} : rec'[u] = rec[u]
            /\ order' = Tail(Append(order, t))
  BY StartRecords DEF Listed
<1>2. order # <<>> => Tail(Append(order, t)) # order
  <2> SUFFICES ASSUME order # <<>>, Tail(Append(order, t)) = order PROVE FALSE
    OBVIOUS
  <2> DEFINE ids == Append(order, t)
  <2>1. order \in Seq(Tasks)
    BY DEF IInv, Stored
  <2>2. ids \in Seq(Tasks) /\ ids # <<>> /\ ids[Len(order) + 1] = t
    BY <2>1, AppendedId
  <2>3. Len(order) \in DOMAIN order
    BY <2>1
  <2> HIDE DEF ids
  <2>4. Tail(ids) = order
    BY DEF ids
  <2>5. order[Len(order)] = t
    BY <2>2, <2>3, <2>4, TailOfIds
  <2> QED
    BY <1>1, <2>3, <2>5
<1> QED
  BY <1>1, <1>2 DEF Moves

LEMMA SectionMoves ==
  ASSUME IInv, Section PROVE Moves
<1>1. PICK t \in Tasks, r \in Record : Grown(t, r) /\ Save(t, r)
  BY DEF Section
<1>2. rec' = [rec EXCEPT ![t] = r]
  BY <1>1 DEF Save
<1>3. rec'[t] = r /\ \A u \in Tasks \ {t} : rec'[u] = rec[u]
  BY <1>2 DEF IInv, Stored
<1> QED
  BY <1>1, <1>3 DEF Moves, Grown

\* A restart changes a status only because the snapshot was an older one, or
\* because the task was active.
LEMMA RestartMoves ==
  ASSUME IInv, Restart PROVE Moves
<1>1. spent'.crash # spent.crash
  <2>1. spent.crash \in Nat /\ spent \in Bookkeeping
    BY DEF IInv, Stored, Bookkeeping
  <2>2. CASE spent' = [spent EXCEPT !.crash = @ + 1]
    BY <2>1, <2>2 DEF Bookkeeping
  <2>3. CASE spent' = [spent EXCEPT !.crash = @ + 1, !.fault = @ + 1]
    <3>1. spent' = [tick |-> spent.tick, fault |-> spent.fault + 1, crash |-> spent.crash + 1]
      BY <2>1, <2>3 DEF Bookkeeping
    <3> QED
      BY <2>1, <3>1
  <2> QED
    BY <2>2, <2>3 DEF Restart
<1>2. ASSUME disk.rec = rec, NEW t \in Tasks, rec'[t].status # rec[t].status
      PROVE  rec[t].status \in Active /\ rec'[t].status = "failed"
  <2>1. rec[t] \in Record
    BY DEF IInv, Stored
  <2>2. CASE rec[t].status = "none"
    <3>1. rec'[t] = Blank
      BY <1>2, <2>2 DEF Restart
    <3> QED
      BY <1>2, <2>2, <3>1, BlankIsARecord
  <2>3. CASE rec[t].status # "none"
    <3>1. rec'[t] = Loaded(rec[t])
      BY <1>2, <2>3 DEF Restart
    <3> QED
      BY <1>2, <2>1, <3>1, LoadedHasEnded
  <2> QED
    BY <2>2, <2>3
<1> QED
  BY <1>1, <1>2 DEF Moves

\* No step takes a status anywhere but along the machine of the tasks: the one
\* exception is a restart from a snapshot that was not the last one.
THEOREM StatusesFollowTheMachine == Spec => StatusHistory
<1>1. IInv /\ Listed /\ [Next]_vars => [Moves]_vars
  <2> SUFFICES ASSUME IInv, Listed, Next PROVE Moves
    OBVIOUS
  <2>1. Quiet => Moves
    BY DEF Quiet, Moves
  <2>2. ASSUME NEW t \in Tasks, NEW x \in Experiments, Start(t, x) PROVE Moves
    BY <2>2, StartMoves
  <2>3. ASSUME NEW t \in Tasks, RunTask(t) PROVE Moves
    BY <2>1, <2>3, TaskSection, SectionMoves
  <2>4. CASE (\E t \in Tasks : Environment(t)) \/ Stop
    BY <2>1, <2>4, OtherSection
  <2>5. ASSUME NEW e \in Evictors, EvictCache(e) PROVE Moves
    BY <2>1, <2>5, EvictSection, SectionMoves
  <2>6. ASSUME NEW p \in Pages, Stream(p) PROVE Moves
    BY <2>6, StreamSection DEF Moves
  <2>7. CASE Restart
    BY <2>7, RestartMoves
  <2> QED
    BY <2>2, <2>3, <2>4, <2>5, <2>6, <2>7 DEF Next
<1> QED
  BY <1>1, AlwaysListed, PTL DEF Spec, StatusHistory, Moves

-----------------------------------------------------------------------------
(* EvictCache: one deletion per answer                                     *)

Over == Terminal \cup {"gone"}

\* A request under way holds the flag of its task, alone, and until it has
\* deleted the key every deletion before it is one whose answer was lost; a
\* deletion whose answer arrived is recorded, about to be, or of no use any more.
Evictions ==
  /\ \A e \in Evictors : evictor[e].pc # "idle" =>
       LET t == evictor[e].task
       IN /\ rec[t].status # "none" /\ mem[t].evicting
          /\ evictor[e].pc # "deleted" => app[t].dels <= lost[t]
  /\ \A e, f \in Evictors :
       evictor[e].pc # "idle" /\ evictor[f].pc # "idle" /\ evictor[e].task = evictor[f].task => e = f
  /\ \A t \in Tasks : app[t].dels <= 1 + lost[t]
  /\ \A t \in Tasks : app[t].dels > lost[t] =>
       \/ mem[t].evicted \/ rec[t].status \in Over
       \/ \E e \in Evictors : evictor[e].pc = "deleted" /\ evictor[e].task = t
  /\ \A t \in Tasks : rec[t].status = "none" => app[t].dels <= lost[t]

\* A task that was started stays known as such, and one that is over stays over.
Lasting ==
  \A t \in Tasks : /\ rec[t].status # "none" => rec'[t].status # "none"
                   /\ rec[t].status \in Over => rec'[t].status \in Over

\* A step that is no eviction leaves the deletions accounted for.
LEMMA EvictionsKept ==
  ASSUME IInv, Evictions, NoEviction, Lasting PROVE Evictions'
<1>1. \A e \in Evictors : evictor[e].pc # "idle" => evictor[e].task \in Tasks
  BY DEF IInv, Pointers
<1>2. UNCHANGED <<evictor, lost>>
  BY DEF NoEviction
<1>3. \A t \in Tasks : /\ mem'[t].evicting = mem[t].evicting /\ mem'[t].evicted = mem[t].evicted
                        /\ app'[t].dels = app[t].dels
  BY DEF NoEviction
<1>4. \A e \in Evictors : evictor'[e].pc # "idle" =>
        /\ rec'[evictor'[e].task].status # "none" /\ mem'[evictor'[e].task].evicting
        /\ evictor'[e].pc # "deleted" => app'[evictor'[e].task].dels <= lost'[evictor'[e].task]
  BY <1>1, <1>2, <1>3 DEF Evictions, Lasting
<1>5. \A t \in Tasks : app'[t].dels > lost'[t] =>
        \/ mem'[t].evicted \/ rec'[t].status \in Over
        \/ \E e \in Evictors : evictor'[e].pc = "deleted" /\ evictor'[e].task = t
  BY <1>2, <1>3 DEF Evictions, Lasting
<1>6. \A t \in Tasks : /\ app'[t].dels <= 1 + lost'[t]
                       /\ rec'[t].status = "none" => app'[t].dels <= lost'[t]
  BY <1>2, <1>3 DEF Evictions, Lasting
<1> QED
  BY <1>2, <1>4, <1>5, <1>6 DEF Evictions

LEMMA SectionLasts == ASSUME IInv, Quiet \/ Section PROVE Lasting
<1>1. CASE Quiet
  BY <1>1 DEF Quiet, Lasting
<1>2. CASE Section
  <2>1. PICK t \in Tasks, r \in Record : Grown(t, r) /\ Save(t, r)
    BY <1>2 DEF Section
  <2>2. rec' = [rec EXCEPT ![t] = r]
    BY <2>1 DEF Save
  <2>3. rec'[t] = r /\ \A u \in Tasks \ {t} : rec'[u] = rec[u]
    BY <2>2 DEF IInv, Stored
  <2> QED
    BY <2>1, <2>3 DEF Lasting, Grown, Known, Over, Active, Terminal
<1> QED
  BY <1>1, <1>2

LEMMA StartNoEviction ==
  ASSUME IInv, Listed, NEW t \in Tasks, NEW x \in Experiments, Start(t, x)
  PROVE  NoEviction /\ Lasting
<1>1. Lasting
  <2>1. /\ rec[t].status = "none" /\ rec'[t].status = "starting"
        /\ \/ \A u \in Tasks \ {t} : rec'[u] = rec[u]
           \/ /\ order[1] \in Tasks /\ rec'[order[1]].status = "gone"
              /\ \A u \in Tasks \ {t, order[1]} : rec'[u] = rec[u]
    BY StartRecords DEF Listed
  <2>2. "none" \notin Over /\ "gone" \in Over
    BY DEF Over, Terminal
  <2> QED
    BY <2>1, <2>2 DEF Lasting
<1>2. UNCHANGED <<app, evictor, lost>> /\ mem' = [mem EXCEPT ![t].token = (x \in Scoped)]
  BY DEF Start, handlers
<1>3. \A u \in Tasks : mem'[u].evicting = mem[u].evicting /\ mem'[u].evicted = mem[u].evicted
  BY <1>2 DEF IInv, Memory, Flags
<1> QED
  BY <1>1, <1>2, <1>3 DEF NoEviction

\* A request is let in when no other is at the task and no answer has come.
LEMMA EvictAskEvictions ==
  ASSUME IInv, Evictions, NEW e \in Evictors, NEW t \in Tasks, EvictAsk(e, t) PROVE Evictions'
<1>1. /\ evictor[e].pc = "idle" /\ rec[t].status = "running"
      /\ ~mem[t].evicted /\ ~mem[t].evicting
      /\ mem' = [mem EXCEPT ![t].evicting = TRUE]
      /\ evictor' = [evictor EXCEPT ![e] = [pc |-> "calling", task |-> t]]
      /\ UNCHANGED <<rec, app, lost>>
  BY DEF EvictAsk, Evictable
<1>2. \A f \in Evictors : evictor[f].pc # "idle" => evictor[f].task # t
  BY <1>1 DEF Evictions
<1>3. app[t].dels \in Nat /\ lost[t] \in Nat
  BY DEF IInv, Memory
<1>4. app[t].dels <= lost[t]
  BY <1>1, <1>2, <1>3 DEF Evictions, Over, Terminal
<1>5. /\ mem'[t].evicting
      /\ \A u \in Tasks : mem'[u].evicted = mem[u].evicted
      /\ \A u \in Tasks \ {t} : mem'[u] = mem[u]
  BY <1>1 DEF IInv, Memory, Flags
<1>6. /\ evictor'[e] = [pc |-> "calling", task |-> t]
      /\ \A f \in Evictors \ {e} : evictor'[f] = evictor[f]
  BY <1>1 DEF IInv, Memory
<1>7. \A f \in Evictors : evictor[f].pc # "idle" => evictor[f].task \in Tasks
  BY DEF IInv, Pointers
<1>8. \A f \in Evictors : evictor'[f].pc # "idle" =>
        /\ rec'[evictor'[f].task].status # "none" /\ mem'[evictor'[f].task].evicting
        /\ evictor'[f].pc # "deleted" => app'[evictor'[f].task].dels <= lost'[evictor'[f].task]
  BY <1>1, <1>2, <1>4, <1>5, <1>6, <1>7 DEF Evictions
<1>9. ASSUME NEW f \in Evictors, NEW g \in Evictors, evictor'[f].pc # "idle",
             evictor'[g].pc # "idle", evictor'[f].task = evictor'[g].task
      PROVE  f = g
  <2>1. evictor'[e].task = t
    BY <1>6
  <2> QED
    BY <1>2, <1>6, <1>9, <2>1 DEF Evictions
<1>10. \A u \in Tasks : app'[u].dels > lost'[u] =>
         \/ mem'[u].evicted \/ rec'[u].status \in Over
         \/ \E f \in Evictors : evictor'[f].pc = "deleted" /\ evictor'[f].task = u
  BY <1>1, <1>5, <1>6 DEF Evictions
<1> QED
  BY <1>1, <1>8, <1>9, <1>10 DEF Evictions

\* The request reaches the application and deletes the key: the first deletion
\* whose answer is not lost.
LEMMA EvictCallEvictions ==
  ASSUME IInv, Evictions, NEW e \in Evictors, EvictCall(e) PROVE Evictions'
<1> DEFINE t == evictor[e].task
<1>1. /\ evictor[e].pc = "calling" /\ UNCHANGED <<rec, mem>>
      /\ app' = [app EXCEPT ![t].phase = "evicted", ![t].dels = @ + 1]
      /\ \/ evictor' = [evictor EXCEPT ![e].pc = "deleted"] /\ UNCHANGED lost
         \/ evictor' = [evictor EXCEPT ![e].pc = "failed"] /\ lost' = [lost EXCEPT ![t] = @ + 1]
  BY DEF EvictCall, tasks
<1>2. /\ t \in Tasks /\ rec[t].status # "none" /\ mem[t].evicting /\ app[t].dels <= lost[t]
      /\ \A f \in Evictors \ {e} : evictor[f].pc # "idle" => evictor[f].task \in Tasks \ {t}
  BY <1>1 DEF IInv, Pointers, Evictions
<1> HIDE DEF t
<1>3. /\ app'[t].dels = app[t].dels + 1 /\ app[t].dels \in Nat
      /\ \A u \in Tasks \ {t} : app'[u].dels = app[u].dels
  <2>1. app \in [Tasks -> [phase : Phases, scope : BOOLEAN, dels : Nat]]
    BY DEF IInv, Memory
  <2>2. app' = [app EXCEPT ![t] = [phase |-> "evicted", scope |-> app[t].scope, dels |-> app[t].dels + 1]]
    BY <1>1, <1>2, <2>1
  <2> QED
    BY <1>2, <2>1, <2>2
<1>4. /\ evictor'[e].task = t /\ evictor'[e].pc \in {"deleted", "failed"}
      /\ \A f \in Evictors \ {e} : evictor'[f] = evictor[f]
      /\ \/ evictor'[e].pc = "deleted" /\ lost' = lost
         \/ /\ evictor'[e].pc = "failed" /\ lost'[t] = lost[t] + 1
            /\ \A u \in Tasks \ {t} : lost'[u] = lost[u]
  <2>1. evictor \in [Evictors -> [pc : {"idle", "calling", "deleted", "failed"}, task : Tasks \cup {None}]]
        /\ lost \in [Tasks -> Nat]
    BY DEF IInv, Memory
  <2>2. CASE evictor' = [evictor EXCEPT ![e].pc = "deleted"] /\ UNCHANGED lost
    BY <2>1, <2>2 DEF t
  <2>3. CASE evictor' = [evictor EXCEPT ![e].pc = "failed"] /\ lost' = [lost EXCEPT ![t] = @ + 1]
    <3>1. evictor'[e].task = t /\ evictor'[e].pc = "failed" /\ \A f \in Evictors \ {e} : evictor'[f] = evictor[f]
      BY <2>1, <2>3 DEF t
    <3>2. lost'[t] = lost[t] + 1 /\ \A u \in Tasks \ {t} : lost'[u] = lost[u]
      BY <1>2, <2>1, <2>3
    <3> QED
      BY <3>1, <3>2
  <2> QED
    BY <1>1, <2>2, <2>3
<1>5. lost[t] \in Nat
  BY <1>2 DEF IInv, Memory
<1>6. ASSUME NEW f \in Evictors, evictor'[f].pc # "idle"
      PROVE  /\ rec'[evictor'[f].task].status # "none" /\ mem'[evictor'[f].task].evicting
             /\ evictor'[f].pc # "deleted" => app'[evictor'[f].task].dels <= lost'[evictor'[f].task]
  <2>1. CASE f = e
    <3>1. evictor'[f].task = t /\ rec'[t].status # "none" /\ mem'[t] = mem[t]
      BY <1>1, <1>2, <1>4, <2>1
    <3>2. evictor'[f].pc # "deleted" => app'[t].dels <= lost'[t]
      BY <1>2, <1>3, <1>4, <1>5, <2>1
    <3> QED
      BY <1>2, <3>1, <3>2
  <2>2. CASE f # e
    <3> DEFINE u == evictor[f].task
    <3>1. evictor'[f] = evictor[f] /\ evictor[f].pc # "idle" /\ u \in Tasks \ {t}
      BY <1>2, <1>4, <1>6, <2>2
    <3>2. /\ rec[u].status # "none" /\ mem[u].evicting
          /\ evictor[f].pc # "deleted" => app[u].dels <= lost[u]
      BY <3>1 DEF Evictions
    <3>3. app'[u].dels = app[u].dels /\ lost'[u] = lost[u] /\ rec' = rec /\ mem' = mem
      BY <1>1, <1>3, <1>4, <3>1
    <3> QED
      BY <3>1, <3>2, <3>3
  <2> QED
    BY <2>1, <2>2
<1>7. ASSUME NEW f \in Evictors, NEW g \in Evictors, evictor'[f].pc # "idle",
             evictor'[g].pc # "idle", evictor'[f].task = evictor'[g].task
      PROVE  f = g
  BY <1>2, <1>4, <1>7 DEF Evictions
<1>8. \A u \in Tasks : app'[u].dels <= 1 + lost'[u]
  BY <1>2, <1>3, <1>4, <1>5 DEF Evictions
<1>9. ASSUME NEW u \in Tasks, app'[u].dels > lost'[u]
      PROVE  \/ mem'[u].evicted \/ rec'[u].status \in Over
             \/ \E f \in Evictors : evictor'[f].pc = "deleted" /\ evictor'[f].task = u
  <2>1. CASE u = t
    BY <1>2, <1>3, <1>4, <1>5, <1>9, <2>1
  <2>2. CASE u # t
    <3>1. app[u].dels > lost[u]
      BY <1>3, <1>4, <1>9, <2>2
    <3>2. \A f \in Evictors : evictor[f].pc = "deleted" => evictor'[f] = evictor[f]
      BY <1>1, <1>4
    <3> QED
      BY <1>1, <3>1, <3>2 DEF Evictions
  <2> QED
    BY <2>1, <2>2
<1>10. ASSUME NEW u \in Tasks, rec'[u].status = "none" PROVE app'[u].dels <= lost'[u]
  <2>1. u # t /\ rec[u].status = "none"
    BY <1>1, <1>2, <1>10
  <2>2. app'[u].dels = app[u].dels /\ lost'[u] = lost[u]
    BY <1>3, <1>4, <2>1
  <2> QED
    BY <2>1, <2>2 DEF Evictions
<1> QED
  BY <1>6, <1>7, <1>8, <1>9, <1>10 DEF Evictions

\* A request that ends: refused, failed, or with the deletion recorded.
LEMMA EvictEndEvictions ==
  ASSUME IInv, Evictions, Lasting, NEW e \in Evictors, NEW pc \in {"idle", "failed"},
         evictor[e].pc # "idle", evictor' = [evictor EXCEPT ![e].pc = pc], UNCHANGED <<app, lost>>,
         \A u \in Tasks \ {evictor[e].task} : mem'[u] = mem[u],
         pc = "failed" => evictor[e].pc = "calling" /\ UNCHANGED mem,
         mem[evictor[e].task].evicted => mem'[evictor[e].task].evicted,
         evictor[e].pc = "deleted" => mem'[evictor[e].task].evicted \/ rec'[evictor[e].task].status \in Over
  PROVE  Evictions'
<1> DEFINE t == evictor[e].task
<1>1. /\ t \in Tasks /\ mem[t].evicting /\ rec[t].status # "none"
      /\ evictor[e].pc # "deleted" => app[t].dels <= lost[t]
      /\ \A f \in Evictors \ {e} : evictor[f].pc # "idle" => evictor[f].task \in Tasks \ {t}
  BY DEF IInv, Pointers, Evictions
<1>2. /\ evictor'[e].task = t /\ evictor'[e].pc = pc
      /\ \A f \in Evictors \ {e} : evictor'[f] = evictor[f]
  BY DEF IInv, Memory
<1> HIDE DEF t
<1>3. ASSUME NEW f \in Evictors, evictor'[f].pc # "idle"
      PROVE  /\ rec'[evictor'[f].task].status # "none" /\ mem'[evictor'[f].task].evicting
             /\ evictor'[f].pc # "deleted" => app'[evictor'[f].task].dels <= lost'[evictor'[f].task]
  <2>1. CASE f = e
    <3>1. evictor'[f].task = t /\ pc = "failed" /\ mem' = mem /\ evictor[e].pc = "calling"
      BY <1>2, <1>3, <2>1
    <3> QED
      BY <1>1, <3>1 DEF Lasting
  <2>2. CASE f # e
    <3> DEFINE u == evictor[f].task
    <3>1. evictor'[f] = evictor[f] /\ evictor[f].pc # "idle" /\ u \in Tasks \ {t}
      BY <1>1, <1>2, <1>3, <2>2
    <3>2. /\ rec[u].status # "none" /\ mem[u].evicting
          /\ evictor[f].pc # "deleted" => app[u].dels <= lost[u]
      BY <3>1 DEF Evictions
    <3>3. app' = app /\ lost' = lost /\ rec'[u].status # "none" /\ mem'[u] = mem[u]
      BY <3>1, <3>2 DEF Lasting, t
    <3> QED
      BY <3>1, <3>2, <3>3
  <2> QED
    BY <2>1, <2>2
<1>4. ASSUME NEW f \in Evictors, NEW g \in Evictors, evictor'[f].pc # "idle",
             evictor'[g].pc # "idle", evictor'[f].task = evictor'[g].task
      PROVE  f = g
  BY <1>1, <1>2, <1>4 DEF Evictions
<1>5. ASSUME NEW u \in Tasks, app'[u].dels > lost'[u]
      PROVE  \/ mem'[u].evicted \/ rec'[u].status \in Over
             \/ \E f \in Evictors : evictor'[f].pc = "deleted" /\ evictor'[f].task = u
  <2>1. app[u].dels > lost[u]
    BY <1>5
  <2>2. \/ mem[u].evicted \/ rec[u].status \in Over
        \/ \E f \in Evictors : evictor[f].pc = "deleted" /\ evictor[f].task = u
    BY <2>1 DEF Evictions
  <2>3. CASE mem[u].evicted
    BY <2>3 DEF t
  <2>4. CASE rec[u].status \in Over
    BY <2>4 DEF Lasting
  <2>5. CASE \E f \in Evictors : evictor[f].pc = "deleted" /\ evictor[f].task = u
    BY <1>2, <2>5 DEF t
  <2> QED
    BY <2>2, <2>3, <2>4, <2>5
<1>6. \A u \in Tasks : /\ app'[u].dels <= 1 + lost'[u]
                       /\ rec'[u].status = "none" => app'[u].dels <= lost'[u]
  BY DEF Evictions, Lasting
<1> QED
  BY <1>3, <1>4, <1>5, <1>6 DEF Evictions

LEMMA EvictRefusedEvictions ==
  ASSUME IInv, Evictions, NEW e \in Evictors, EvictRefused(e) PROVE Evictions'
<1>1. Lasting
  BY SectionLasts DEF EvictRefused, Quiet, tasks
<1>2. /\ evictor[e].pc = "calling" /\ evictor' = [evictor EXCEPT ![e].pc = "failed"]
      /\ UNCHANGED <<app, lost, mem>>
  BY DEF EvictRefused, tasks
<1> QED
  BY <1>1, <1>2, EvictEndEvictions

LEMMA EvictFailedEvictions ==
  ASSUME IInv, Evictions, NEW e \in Evictors, EvictFailed(e) PROVE Evictions'
<1>1. Lasting
  BY SectionLasts DEF EvictFailed, Quiet
<1>2. /\ evictor[e].pc = "failed" /\ evictor' = [evictor EXCEPT ![e].pc = "idle"]
      /\ mem' = [mem EXCEPT ![evictor[e].task].evicting = FALSE] /\ UNCHANGED <<app, lost>>
  BY DEF EvictFailed
<1>3. evictor[e].task \in Tasks
  BY <1>2 DEF IInv, Pointers
<1>4. /\ \A u \in Tasks \ {evictor[e].task} : mem'[u] = mem[u]
      /\ mem'[evictor[e].task].evicted = mem[evictor[e].task].evicted
  BY <1>2, <1>3 DEF IInv, Memory, Flags
<1> QED
  BY <1>1, <1>2, <1>4, EvictEndEvictions

LEMMA EvictDoneEvictions ==
  ASSUME IInv, Evictions, NEW e \in Evictors, EvictDone(e) PROVE Evictions'
<1> DEFINE t == evictor[e].task
<1>1. Lasting
  BY EvictSection, SectionLasts DEF EvictCache
<1>2. /\ evictor[e].pc = "deleted" /\ evictor' = [evictor EXCEPT ![e].pc = "idle"]
      /\ UNCHANGED <<app, lost>>
      /\ Known(t) => mem' = [mem EXCEPT ![t].evicting = FALSE, ![t].evicted = TRUE]
      /\ ~Known(t) => UNCHANGED <<mem, rec>>
  BY DEF EvictDone
<1>3. t \in Tasks /\ mem \in [Tasks -> Flags] /\ rec[t].status # "none" /\ rec[t] \in Record
  BY <1>2 DEF IInv, Memory, Pointers, Evictions, Stored
<1>4. CASE Known(t)
  <2>1. mem' = [mem EXCEPT ![t] = [mem[t] EXCEPT !.evicting = FALSE, !.evicted = TRUE]] /\ mem[t] \in Flags
    BY <1>2, <1>3, <1>4
  <2>2. mem'[t].evicted /\ \A u \in Tasks \ {t} : mem'[u] = mem[u]
    BY <1>3, <2>1 DEF Flags
  <2> QED
    BY <1>1, <1>2, <2>2, EvictEndEvictions
<1>5. CASE ~Known(t)
  <2>1. rec'[t].status \in Over
    BY <1>2, <1>3, <1>5 DEF Known, Over, Record
  <2> QED
    BY <1>1, <1>2, <1>5, <2>1, EvictEndEvictions
<1> QED
  BY <1>4, <1>5

\* After a restart nothing is under way, and what was deleted belongs to tasks
\* that are over.
LEMMA RestartEvictions ==
  ASSUME IInv, Evictions, Restart PROVE Evictions'
<1>1. /\ \A e \in Evictors : evictor'[e].pc = "idle"
      /\ UNCHANGED <<app, lost>>
      /\ \A t \in Tasks : rec'[t] = IF disk.rec[t].status # "none" THEN Loaded(disk.rec[t])
                                    ELSE IF rec[t].status # "none" THEN [Blank EXCEPT !.status = "gone"]
                                    ELSE Blank
  BY DEF Restart
<1>2. \A t \in Tasks : disk.rec[t] \in Record
  BY DEF IInv, Stored, Snapshot
<1>3. /\ Blank.status = "none" /\ [Blank EXCEPT !.status = "gone"].status = "gone"
  BY DEF Blank
<1>4. ASSUME NEW t \in Tasks PROVE rec'[t].status \in Over \/ (rec'[t].status = "none" /\ rec[t].status = "none")
  <2>1. CASE disk.rec[t].status # "none"
    <3>1. Loaded(disk.rec[t]) \in Record /\ Loaded(disk.rec[t]).status \notin Active
          /\ Loaded(disk.rec[t]).status # "none"
      BY <1>2, <2>1, LoadedHasEnded
    <3> QED
      BY <1>1, <2>1, <3>1 DEF Record, Over
  <2>2. CASE disk.rec[t].status = "none"
    BY <1>1, <1>3, <2>2 DEF Over
  <2> QED
    BY <2>1, <2>2
<1>5. \A t \in Tasks : app[t].dels \in Nat /\ lost[t] \in Nat
  BY DEF IInv, Memory
<1>6. "none" \notin Over
  BY DEF Over, Terminal
<1>7. \A t \in Tasks : app'[t].dels > lost'[t] => rec'[t].status \in Over
  BY <1>1, <1>4, <1>5 DEF Evictions
<1>8. \A t \in Tasks : app'[t].dels <= 1 + lost'[t]
  BY <1>1 DEF Evictions
<1>9. \A t \in Tasks : rec'[t].status = "none" => app'[t].dels <= lost'[t]
  BY <1>1, <1>4, <1>6 DEF Evictions
<1> QED
  BY <1>1, <1>7, <1>8, <1>9 DEF Evictions

LEMMA InitEvictions == Init => Evictions
BY DEF Init, Evictions, Over, Terminal, Blank

LEMMA StepEvictions == IInv /\ Listed /\ Evictions /\ [Next]_vars => Evictions'
<1> SUFFICES ASSUME IInv, Listed, Evictions, [Next]_vars PROVE Evictions'
  OBVIOUS
<1>1. ASSUME NEW t \in Tasks, NEW x \in Experiments, Start(t, x) PROVE Evictions'
  BY <1>1, StartNoEviction, EvictionsKept
<1>2. ASSUME NEW t \in Tasks, RunTask(t) PROVE Evictions'
  BY <1>2, TaskSection, TaskNoEviction, SectionLasts, EvictionsKept
<1>3. ASSUME NEW t \in Tasks, Environment(t) PROVE Evictions'
  BY <1>3, OtherSection, TaskNoEviction, SectionLasts, EvictionsKept
<1>4. CASE Stop
  BY <1>4, OtherSection, StopNoEviction, SectionLasts, EvictionsKept
<1>5. ASSUME NEW e \in Evictors, EvictCache(e) PROVE Evictions'
  BY <1>5, EvictAskEvictions, EvictCallEvictions, EvictRefusedEvictions, EvictFailedEvictions,
     EvictDoneEvictions DEF EvictCache
<1>6. ASSUME NEW p \in Pages, Stream(p) PROVE Evictions'
  <2>1. NoEviction /\ Lasting
    BY <1>6, StreamSection DEF Lasting
  <2> QED
    BY <2>1, EvictionsKept
<1>7. CASE Restart
  BY <1>7, RestartEvictions
<1>8. CASE UNCHANGED vars
  <2>1. NoEviction /\ Lasting
    BY <1>8 DEF vars, tasks, handlers, NoEviction, Lasting
  <2> QED
    BY <2>1, EvictionsKept
<1> QED
  BY <1>1, <1>2, <1>3, <1>4, <1>5, <1>6, <1>7, <1>8 DEF Next

\* EvictCache deletes the hot key once per task, and once more for every lost
\* answer: the flag it sets under the lock keeps racing requests out.
THEOREM OneEvictionPerAnswer == Spec => []EvictedOncePerAnswer
<1>1. Init => IInv /\ Listed /\ Evictions
  BY InitIInv, InitListed, InitEvictions
<1>2. (IInv /\ Listed /\ Evictions) /\ [Next]_vars => (IInv /\ Listed /\ Evictions)'
  BY StepIInv, StepListed, StepEvictions
<1>3. IInv /\ Listed /\ Evictions => EvictedOncePerAnswer
  BY DEF Evictions, EvictedOncePerAnswer
<1> QED
  BY <1>1, <1>2, <1>3, PTL DEF Spec

-----------------------------------------------------------------------------
(* Event streams: nothing is missed and nothing comes twice                *)

\* A page without a gap has seen the events up to its last one, and those after
\* it wait in order; while it is connected they reach up to the last event there is.
InStep(q) ==
  /\ q.task = None => q.seen = {} /\ q.last = 0
  /\ q.task # None => rec[q.task].status # "none"
  /\ ~q.gap =>
       /\ q.seen = 1 .. q.last
       /\ \A i \in DOMAIN q.queue : q.queue[i].id = q.last + i
       /\ q.task # None /\ Known(q.task) =>
            IF q.pc = "closed" THEN q.last <= Len(rec[q.task].events)
                               ELSE q.last + Len(q.queue) = Len(rec[q.task].events)

Streams == \A p \in Pages : InStep(page[p])

LEMMA Concatenated ==
  ASSUME NEW a \in Seq(QueueItem), NEW b \in Seq(QueueItem)
  PROVE  /\ Len(a \o b) = Len(a) + Len(b)
         /\ DOMAIN (a \o b) = 1 .. Len(a) + Len(b)
         /\ \A i \in 1 .. Len(a) : (a \o b)[i] = a[i]
         /\ \A i \in 1 .. Len(b) : (a \o b)[Len(a) + i] = b[i]
<1>1. a \o b \in Seq(QueueItem) /\ Len(a) \in Nat /\ Len(b) \in Nat
  OBVIOUS
<1>2. Len(a \o b) = Len(a) + Len(b)
  OBVIOUS
<1>3. DOMAIN (a \o b) = 1 .. Len(a) + Len(b)
  BY <1>1, <1>2
<1>4. \A i \in 1 .. Len(a) : (a \o b)[i] = a[i]
  OBVIOUS
<1>5. \A i \in 1 .. Len(b) : (a \o b)[Len(a) + i] = b[i]
  OBVIOUS
<1> QED
  BY <1>2, <1>3, <1>4, <1>5

\* Counting on from the end of the first sequence.
LEMMA Beyond == ASSUME NEW a \in Nat, NEW b \in Nat, NEW i \in 1 .. a + b, i > a
                PROVE  i - a \in 1 .. b /\ i = a + (i - a)
OBVIOUS

LEMMA CountedOn == ASSUME NEW l \in Nat, NEW a \in Nat, NEW n \in Nat, NEW o \in Nat, NEW r, l + a = o, n + o = r
                   PROVE  l + (a + n) = r
OBVIOUS

\* A channel that takes all the new events has them after the ones it had.
LEMMA OfferIsInStep ==
  ASSUME NEW q \in PageType, NEW t \in Tasks, rec' \in [Tasks -> Record], NEW old \in Nat,
         Len(rec'[t].events) >= old, q.last + Len(q.queue) = old,
         \A i \in DOMAIN q.queue : q.queue[i].id = q.last + i,
         ~Offer(q, t, old).gap
  PROVE  /\ ~q.gap
         /\ q.last + Len(Offer(q, t, old).queue) = Len(rec'[t].events)
         /\ \A i \in DOMAIN Offer(q, t, old).queue : Offer(q, t, old).queue[i].id = q.last + i
<1> DEFINE n == Len(rec'[t].events) - old
           item(i) == [id |-> old + i, end |-> rec'[t].events[old + i].end]
           fresh == [i \in 1 .. n |-> item(i)]
           room == IF Len(fresh) < Window - Len(q.queue) THEN Len(fresh) ELSE Window - Len(q.queue)
<1>1. rec'[t].events \in Seq(Event) /\ Len(rec'[t].events) \in Nat /\ n \in Nat
  <2>1. rec'[t] \in Record
    OBVIOUS
  <2>2. rec'[t].events \in Seq(Event)
    BY <2>1 DEF Record, Event
  <2>3. Len(rec'[t].events) \in Nat
    BY <2>2
  <2> QED
    BY <2>2, <2>3
<1>2. ASSUME NEW i \in 1 .. n PROVE item(i) \in QueueItem /\ item(i).id = old + i
  <2>1. old + i \in 1 .. Len(rec'[t].events) /\ old + i \in Nat
    BY <1>1, <1>2
  <2>2. rec'[t].events[old + i] \in Event
    BY <1>1, <2>1
  <2> QED
    BY <2>1, <2>2 DEF Event, QueueItem
<1>3. Offer(q, t, old) = [q EXCEPT !.queue = q.queue \o SubSeq(fresh, 1, room),
                                   !.gap = q.gap \/ room < Len(fresh)]
  BY DEF Offer
<1>4. n + old = Len(rec'[t].events)
  BY <1>1
<1> HIDE DEF n, item
<1>5. fresh \in Seq(QueueItem) /\ Len(fresh) = n /\ \A i \in 1 .. n : fresh[i].id = old + i
  BY <1>1, <1>2
<1> HIDE DEF fresh
<1>6. Len(q.queue) \in Nat /\ q.queue \in Seq(QueueItem) /\ q.last \in Nat /\ q.gap \in BOOLEAN
  BY DEF PageType
<1>7. room \in Int /\ room <= Len(fresh)
  BY <1>1, <1>5, <1>6, BoundsAssumption
<1> HIDE DEF room
<1>8. ~q.gap /\ ~(room < Len(fresh))
  BY <1>3, <1>6 DEF PageType
<1>9. room = Len(fresh)
  BY <1>1, <1>5, <1>7, <1>8
<1>10. SubSeq(fresh, 1, room) = fresh
  BY <1>5, <1>9
<1>11. Offer(q, t, old).queue = q.queue \o fresh
  BY <1>3, <1>10 DEF PageType
<1>12. /\ Len(q.queue \o fresh) = Len(q.queue) + n
       /\ DOMAIN (q.queue \o fresh) = 1 .. Len(q.queue) + n
       /\ \A i \in 1 .. Len(q.queue) : (q.queue \o fresh)[i] = q.queue[i]
       /\ \A i \in 1 .. n : (q.queue \o fresh)[Len(q.queue) + i] = fresh[i]
  BY <1>5, <1>6, Concatenated
<1>15. Len(q.queue \o fresh) = Len(q.queue) + n /\ DOMAIN (q.queue \o fresh) = 1 .. Len(q.queue) + n
  BY <1>12
<1>13. ASSUME NEW i \in DOMAIN (q.queue \o fresh) PROVE (q.queue \o fresh)[i].id = q.last + i
  <2>1. CASE i <= Len(q.queue)
    <3>1. i \in 1 .. Len(q.queue) /\ i \in DOMAIN q.queue
      BY <1>1, <1>6, <1>12, <2>1
    <3> QED
      BY <1>12, <3>1
  <2>2. CASE i > Len(q.queue)
    <3>1. PICK j \in 1 .. n : i = Len(q.queue) + j
      <4>1. i - Len(q.queue) \in 1 .. n /\ i = Len(q.queue) + (i - Len(q.queue))
        BY <1>1, <1>6, <1>15, <2>2, Beyond
      <4> QED
        BY <4>1
    <3>2. (q.queue \o fresh)[i].id = old + j
      BY <1>5, <1>12, <3>1
    <3>3. j \in Nat /\ q.last + i = q.last + Len(q.queue) + j
      BY <1>1, <1>6, <3>1
    <3> QED
      BY <3>2, <3>3
  <2>3. i \in Nat
    BY <1>1, <1>6, <1>12
  <2> QED
    BY <1>6, <2>1, <2>2, <2>3
<1>14. q.last + Len(q.queue \o fresh) = Len(rec'[t].events)
  <2>1. q.last + (Len(q.queue) + n) = Len(rec'[t].events)
    BY <1>1, <1>4, <1>6, CountedOn
  <2> QED
    BY <1>15, <2>1
<1> QED
  BY <1>8, <1>11, <1>13, <1>14

\* Sections under the lock: the events go to the channels of those who follow.
LEMMA SectionStreams ==
  ASSUME IInv, Streams, Section PROVE Streams'
<1>1. PICK t \in Tasks, r \in Record : Grown(t, r) /\ Save(t, r)
  BY DEF Section
<1>2. rec' = [rec EXCEPT ![t] = r] /\ Broadcast(t) /\ rec' \in [Tasks -> Record]
  BY <1>1 DEF Save, IInv, Stored
<1>3. /\ rec'[t] = r /\ \A u \in Tasks \ {t} : rec'[u] = rec[u]
      /\ rec[t] \in Record /\ r.status # "none"
  BY <1>1, <1>2 DEF IInv, Stored, Grown, Known, Active, Terminal
<1>4. Len(rec[t].events) \in Nat /\ Len(r.events) \in Nat /\ Len(r.events) >= Len(rec[t].events)
  BY <1>1, <1>3 DEF Grown, Record
<1> DEFINE old == Len(rec[t].events)
<1>5. ASSUME NEW p \in Pages PROVE InStep(page[p])'
  <2> DEFINE q == page[p]
             q2 == page'[p]
  <2>1. q \in PageType /\ InStep(q) /\ q.last \in Nat /\ q.task \in Tasks \cup {None}
    BY DEF IInv, Stored, Streams, PageType
  <2>2. q2 = IF q.task = t /\ q.pc # "closed" THEN Offer(q, t, old) ELSE q
    BY <1>2 DEF Broadcast
  <2>3. CASE q.task = t /\ q.pc # "closed"
    <3>1. q2 = Offer(q, t, old)
      BY <2>2, <2>3
    <3>2. q2.task = t /\ q2.pc # "closed" /\ q2.seen = q.seen /\ q2.last = q.last
      BY <2>1, <2>3, <3>1 DEF Offer, PageType
    <3>3. t # None /\ Known(t)
      BY <1>1, TasksAssumption DEF Grown
    <3>4. ASSUME ~q2.gap
          PROVE  /\ q.seen = 1 .. q.last
                 /\ q.last + Len(q2.queue) = Len(rec'[t].events)
                 /\ \A i \in DOMAIN q2.queue : q2.queue[i].id = q.last + i
      <4>1. ~q.gap
        BY <2>1, <3>1, <3>4 DEF Offer, PageType
      <4>2. /\ q.seen = 1 .. q.last /\ q.last + Len(q.queue) = old
            /\ \A i \in DOMAIN q.queue : q.queue[i].id = q.last + i
        BY <2>1, <2>3, <3>3, <4>1 DEF InStep
      <4>3. ~Offer(q, t, old).gap /\ Len(rec'[t].events) >= old /\ old \in Nat
        BY <1>3, <1>4, <3>1, <3>4
      <4> HIDE DEF q, q2, old
      <4>4. /\ q.last + Len(Offer(q, t, old).queue) = Len(rec'[t].events)
            /\ \A i \in DOMAIN Offer(q, t, old).queue : Offer(q, t, old).queue[i].id = q.last + i
        BY <1>2, <2>1, <4>2, <4>3, OfferIsInStep
      <4> QED
        BY <3>1, <4>2, <4>4
    <3>5. rec'[t].status # "none"
      BY <1>3
    <3> QED
      BY <3>2, <3>3, <3>4, <3>5 DEF InStep
  <2>4. CASE q.task # t
    BY <1>3, <2>1, <2>2, <2>4 DEF InStep, Known
  <2>5. CASE q.task = t /\ q.pc = "closed"
    BY <1>1, <1>3, <1>4, <2>1, <2>2, <2>5 DEF InStep, Known, Grown
  <2> QED
    BY <2>3, <2>4, <2>5
<1> QED
  BY <1>5 DEF Streams

\* Nobody follows a task that is about to start.
LEMMA StartStreams ==
  ASSUME IInv, Listed, Streams, NEW t \in Tasks, NEW x \in Experiments, Start(t, x) PROVE Streams'
<1>1. /\ rec[t].status = "none"
      /\ \/ \A u \in Tasks \ {t} : rec'[u] = rec[u]
         \/ /\ order[1] \in Tasks /\ rec'[order[1]].status = "gone"
            /\ \A u \in Tasks \ {t, order[1]} : rec'[u] = rec[u]
  BY StartRecords DEF Listed
<1>2. \A p \in Pages : page[p].task # t
  BY <1>1, TasksAssumption DEF Streams, InStep
<1>3. page' = page
  <2>1. page \in [Pages -> PageType] /\ Broadcast(t)
    BY DEF IInv, Stored, Start
  <2> QED
    BY <1>2, <2>1 DEF Broadcast
<1>4. \A u \in Tasks \ {t} : rec'[u] = rec[u] \/ rec'[u].status = "gone"
  BY <1>1
<1>5. ASSUME NEW p \in Pages PROVE InStep(page[p])'
  <2> DEFINE q == page[p]
  <2>1. q \in PageType /\ InStep(q) /\ q.task \in (Tasks \ {t}) \cup {None}
    BY <1>2 DEF IInv, Stored, Streams, PageType
  <2>2. page'[p] = q
    BY <1>3
  <2>3. q.task # None /\ rec'[q.task] # rec[q.task] => rec'[q.task].status = "gone"
    BY <1>4, <2>1
  <2>4. "gone" \notin Active \cup Terminal
    BY DEF Active, Terminal
  <2> QED
    BY <2>1, <2>2, <2>3, <2>4 DEF InStep, Known
<1> QED
  BY <1>5 DEF Streams

\* A restart hangs up on every page; one that had seen more than the snapshot
\* holds has a gap.
LEMMA RestartStreams ==
  ASSUME IInv, Streams, Restart PROVE Streams'
<1>1. /\ \A t \in Tasks : rec'[t] = IF disk.rec[t].status # "none" THEN Loaded(disk.rec[t])
                                    ELSE IF rec[t].status # "none" THEN [Blank EXCEPT !.status = "gone"]
                                    ELSE Blank
      /\ \A p \in Pages : page'[p] = IF page[p].task = None THEN page[p]
           ELSE [page[p] EXCEPT !.pc = "closed", !.queue = <<>>,
                   !.gap = @ \/ page[p].last > Len(disk.rec[page[p].task].events)]
  BY DEF Restart
<1>2. \A t \in Tasks : disk.rec[t] \in Record
  BY DEF IInv, Stored, Snapshot
<1>3. [Blank EXCEPT !.status = "gone"].status = "gone"
  BY DEF Blank
<1>4. ASSUME NEW p \in Pages PROVE InStep(page[p])'
  <2> DEFINE q == page[p]
             q2 == page'[p]
             t == page[p].task
  <2>1. q \in PageType /\ InStep(q) /\ q.last \in Nat /\ q.gap \in BOOLEAN
    BY DEF IInv, Stored, Streams, PageType
  <2>2. CASE t = None
    BY <1>1, <2>1, <2>2 DEF InStep
  <2>3. CASE t # None
    <3>1. t \in Tasks /\ rec[t].status # "none"
      BY <2>1, <2>3 DEF PageType, InStep
    <3>2. /\ q2.task = t /\ q2.pc = "closed" /\ q2.queue = <<>> /\ q2.seen = q.seen /\ q2.last = q.last
          /\ q2.gap = (q.gap \/ q.last > Len(disk.rec[t].events))
      BY <1>1, <2>1, <2>3 DEF PageType
    <3>3. /\ Len(disk.rec[t].events) \in Nat /\ rec'[t].status # "none"
          /\ rec'[t].status \in Active \cup Terminal =>
               Len(rec'[t].events) \in Nat /\ Len(rec'[t].events) >= Len(disk.rec[t].events)
      <4>1. disk.rec[t] \in Record
        BY <1>2, <3>1
      <4>2. Len(disk.rec[t].events) \in Nat
        BY <4>1 DEF Record
      <4>3. CASE disk.rec[t].status # "none"
        <5>1. rec'[t] = Loaded(disk.rec[t])
          BY <1>1, <3>1, <4>3
        <5>2. rec'[t] \in Record /\ Len(rec'[t].events) >= Len(disk.rec[t].events) /\ rec'[t].status # "none"
          BY <4>1, <4>3, <5>1, LoadedHasEnded
        <5>3. Len(rec'[t].events) \in Nat
          BY <5>2 DEF Record
        <5> QED
          BY <4>2, <5>2, <5>3
      <4>4. CASE disk.rec[t].status = "none"
        <5>1. rec'[t].status = "gone"
          BY <1>1, <1>3, <3>1, <4>4
        <5>2. rec'[t].status \notin Active \cup Terminal
          BY <5>1 DEF Active, Terminal
        <5> QED
          BY <4>2, <5>1, <5>2
      <4> QED
        BY <4>3, <4>4
    <3>4. ASSUME ~q2.gap PROVE q.seen = 1 .. q.last /\ ~(q.last > Len(disk.rec[t].events))
      BY <2>1, <3>2, <3>4 DEF InStep
    <3>5. ASSUME ~q2.gap, rec'[t].status \in Active \cup Terminal
          PROVE  q.last <= Len(rec'[t].events)
      <4> HIDE DEF q, q2, t
      <4> QED
        BY <2>1, <3>3, <3>4, <3>5
    <3>6. \A i \in DOMAIN q2.queue : q2.queue[i].id = q2.last + i
      BY <3>2
    <3> QED
      BY <2>3, <3>2, <3>3, <3>4, <3>5, <3>6 DEF InStep, Known
  <2> QED
    BY <2>2, <2>3
<1> QED
  BY <1>4 DEF Streams

\* A step of one page, when the records stay as they are.
LEMMA OnePageStreams ==
  ASSUME IInv, Streams, NEW p \in Pages, NEW q \in PageType, InStep(q),
         page' = [page EXCEPT ![p] = q], UNCHANGED rec
  PROVE  Streams'
<1>1. page \in [Pages -> PageType]
  BY DEF IInv, Stored
<1>2. ASSUME NEW o \in Pages PROVE InStep(page[o])'
  <2>1. page'[o] = IF o = p THEN q ELSE page[o]
    BY <1>1
  <2>2. InStep(page[o])
    BY DEF Streams
  <2>3. CASE o = p
    <3>1. page'[o] = q
      BY <2>1, <2>3
    <3> QED
      BY <3>1 DEF InStep, Known
  <2>4. CASE o # p
    <3>1. page'[o] = page[o]
      BY <2>1, <2>4
    <3> QED
      BY <2>2, <3>1 DEF InStep, Known
  <2> QED
    BY <2>3, <2>4
<1> QED
  BY <1>2 DEF Streams

\* What is replayed continues what the page has seen.
LEMMA SubscribeStreams ==
  ASSUME IInv, Streams, NEW p \in Pages, NEW t \in Tasks, Subscribe(p, t) PROVE Streams'
<1> DEFINE n == Len(rec[t].events)
           q == [page[p] EXCEPT !.pc = "replayed", !.task = t, !.queue = <<>>,
                                !.seen = @ \cup (page[p].last + 1 .. n),
                                !.last = IF @ < n THEN n ELSE @]
<1>1. n \in Nat
  <2>1. rec[t].events \in Seq(Event)
    BY AtWork DEF Record, Event
  <2> QED
    BY <2>1
<1>2. page[p] \in PageType /\ InStep(page[p]) /\ page[p].last \in Nat /\ page[p].seen \in SUBSET Nat
  BY DEF IInv, Stored, Streams, PageType
<1>3. /\ page' = [page EXCEPT ![p] = q] /\ UNCHANGED rec
      /\ page[p].pc = "closed" /\ Known(t) /\ page[p].task \in {None, t}
  BY DEF Subscribe, tasks, Follows
<1> DEFINE last == IF page[p].last < n THEN n ELSE page[p].last
           seen == page[p].seen \cup (page[p].last + 1 .. n)
<1>4. last \in Nat /\ seen \in SUBSET Nat
  BY <1>1, <1>2
<1>5. q = [page[p] EXCEPT !.pc = "replayed", !.task = t, !.queue = <<>>, !.seen = seen, !.last = last]
  OBVIOUS
<1> HIDE DEF q, seen, last
<1>6. /\ q \in PageType /\ q.pc = "replayed" /\ q.task = t /\ q.queue = <<>>
      /\ q.seen = seen /\ q.last = last /\ q.gap = page[p].gap
  <2>1. <<>> \in Seq(QueueItem)
    OBVIOUS
  <2> QED
    BY <1>2, <1>4, <1>5, <2>1 DEF PageType
<1>7. ASSUME ~page[p].gap PROVE seen = 1 .. last /\ last = n
  <2>1. page[p].seen = 1 .. page[p].last
    BY <1>2, <1>7 DEF InStep
  <2>2. page[p].last <= n
    <3>1. CASE page[p].task = None
      BY <1>1, <1>2, <3>1 DEF InStep
    <3>2. CASE page[p].task = t
      BY <1>2, <1>3, <1>7, <3>2, TasksAssumption DEF InStep
    <3> QED
      BY <1>3, <3>1, <3>2
  <2> HIDE DEF n
  <2> QED
    BY <1>1, <1>2, <2>1, <2>2 DEF seen, last
<1>8. t # None /\ rec[t].status # "none"
  BY <1>3, TasksAssumption DEF Known, Active, Terminal
<1>9. InStep(q)
  <2>1. /\ \A i \in DOMAIN q.queue : q.queue[i].id = q.last + i
        /\ Len(q.queue) = 0
    BY <1>6
  <2>2. ~q.gap => q.last + Len(q.queue) = Len(rec[t].events)
    BY <1>1, <1>6, <1>7, <2>1
  <2> QED
    BY <1>6, <1>7, <1>8, <2>1, <2>2 DEF InStep
<1> QED
  BY <1>3, <1>6, <1>9, OnePageStreams

\* A page that hangs up or starts to read live events has what it had.
LEMMA PcStreams ==
  ASSUME IInv, Streams, NEW p \in Pages, page[p].pc # "closed",
         NEW pc \in {"closed", "streaming"},
         page' = [page EXCEPT ![p].pc = pc], UNCHANGED rec
  PROVE  Streams'
<1> DEFINE q == [page[p] EXCEPT !.pc = pc]
<1>1. page[p] \in PageType /\ InStep(page[p]) /\ page[p].last \in Nat /\ Len(page[p].queue) \in Nat
  BY DEF IInv, Stored, Streams, PageType
<1>2. /\ q \in PageType /\ q.pc = pc /\ q.task = page[p].task /\ q.queue = page[p].queue
      /\ q.seen = page[p].seen /\ q.last = page[p].last /\ q.gap = page[p].gap
  BY <1>1 DEF PageType
<1>3. page' = [page EXCEPT ![p] = q]
  OBVIOUS
<1> HIDE DEF q
<1>4. ASSUME ~q.gap, q.task # None, Known(q.task)
      PROVE  /\ q.last + Len(q.queue) = Len(rec[q.task].events)
             /\ q.last <= Len(rec[q.task].events)
  <2>1. q.last + Len(q.queue) = Len(rec[q.task].events)
    BY <1>1, <1>2, <1>4 DEF InStep
  <2> QED
    BY <1>1, <1>2, <2>1
<1>5. InStep(q)
  BY <1>1, <1>2, <1>4 DEF InStep
<1> QED
  BY <1>2, <1>3, <1>5, OnePageStreams

LEMMA ShiftedQueue ==
  ASSUME NEW s \in Seq(QueueItem), s # <<>>
  PROVE  /\ Head(s) = s[1] /\ 1 \in DOMAIN s /\ Len(Tail(s)) = Len(s) - 1 /\ Tail(s) \in Seq(QueueItem)
         /\ \A i \in DOMAIN Tail(s) : i \in Nat /\ i + 1 \in DOMAIN s /\ Tail(s)[i] = s[i + 1]
OBVIOUS

\* The event at the head of the channel is the one after the last seen.
LEMMA DeliverStreams ==
  ASSUME IInv, Streams, NEW p \in Pages, Deliver(p) PROVE Streams'
<1> DEFINE s == page[p].queue
           event == Head(s)
           pc == IF event.end THEN "closed" ELSE page[p].pc
           q == [page[p] EXCEPT !.queue = Tail(s), !.seen = @ \cup {event.id}, !.last = event.id, !.pc = pc]
<1>1. page' = [page EXCEPT ![p] = q] /\ UNCHANGED rec /\ page[p].pc = "streaming" /\ s # <<>>
  BY DEF Deliver, tasks
<1>2. /\ page[p] \in PageType /\ page[p].task \in Tasks /\ page[p].task # None /\ InStep(page[p])
      /\ page[p].last \in Nat /\ s \in Seq(QueueItem) /\ page[p].seen \in SUBSET Nat
  BY <1>1, TasksAssumption DEF IInv, Stored, Pointers, Streams, PageType
<1>3. event \in QueueItem /\ event.id \in Nat /\ pc \in {"closed", "streaming"}
  <2>1. event \in QueueItem
    BY <1>1, <1>2
  <2> QED
    BY <1>1, <2>1 DEF QueueItem
<1>4. /\ Head(s) = s[1] /\ 1 \in DOMAIN s /\ Len(Tail(s)) = Len(s) - 1 /\ Tail(s) \in Seq(QueueItem)
      /\ \A i \in DOMAIN Tail(s) : i \in Nat /\ i + 1 \in DOMAIN s /\ Tail(s)[i] = s[i + 1]
  BY <1>1, <1>2, ShiftedQueue
<1>5. Len(s) \in Nat
  BY <1>2
<1> HIDE DEF event, pc
<1>6. /\ q \in PageType /\ q.pc = pc /\ q.task = page[p].task /\ q.queue = Tail(s)
      /\ q.seen = page[p].seen \cup {event.id} /\ q.last = event.id /\ q.gap = page[p].gap
  BY <1>2, <1>3, <1>4 DEF PageType
<1> HIDE DEF s, q
<1>7. ASSUME ~q.gap
      PROVE  /\ q.last = page[p].last + 1 /\ q.seen = 1 .. q.last
             /\ \A i \in DOMAIN q.queue : q.queue[i].id = q.last + i
  <2>1. /\ page[p].seen = 1 .. page[p].last
        /\ \A i \in DOMAIN s : s[i].id = page[p].last + i
    BY <1>2, <1>6, <1>7 DEF InStep, s
  <2>2. event.id = page[p].last + 1
    BY <1>4, <2>1 DEF event
  <2>3. page[p].seen \cup {event.id} = 1 .. event.id
    BY <1>2, <2>1, <2>2
  <2>4. ASSUME NEW i \in DOMAIN Tail(s) PROVE Tail(s)[i].id = event.id + i
    <3>1. i \in Nat /\ i + 1 \in DOMAIN s /\ Tail(s)[i] = s[i + 1]
      BY <1>4, <2>4
    <3>2. s[i + 1].id = page[p].last + (i + 1)
      BY <2>1, <3>1
    <3> QED
      BY <1>2, <2>2, <3>1, <3>2
  <2> QED
    BY <1>6, <2>2, <2>3, <2>4
<1>8. ASSUME ~q.gap, Known(q.task)
      PROVE  /\ q.last + Len(q.queue) = Len(rec[q.task].events)
             /\ q.last <= Len(rec[q.task].events)
  <2>1. page[p].last + Len(s) = Len(rec[q.task].events)
    BY <1>1, <1>2, <1>6, <1>8 DEF InStep, s
  <2>2. Len(s) >= 1
    BY <1>1, <1>2
  <2> QED
    <3>1. Len(q.queue) = Len(s) - 1
      BY <1>4, <1>6
    <3>2. q.last = page[p].last + 1
      BY <1>7, <1>8
    <3>3. page[p].last \in Nat
      BY <1>2
    <3> QED
      BY <1>5, <2>1, <2>2, <3>1, <3>2, <3>3
<1>9. InStep(q)
  BY <1>2, <1>6, <1>7, <1>8 DEF InStep
<1> QED
  BY <1>1, <1>6, <1>9, OnePageStreams DEF q

LEMMA InitStreams == Init => Streams
<1> SUFFICES ASSUME Init, NEW p \in Pages PROVE InStep(page[p])
  BY DEF Streams
<1>1. page[p] = Closed
  BY DEF Init
<1>2. DOMAIN <<>> = {} /\ 1 .. 0 = {}
  OBVIOUS
<1> QED
  BY <1>1, <1>2 DEF InStep, Closed

LEMMA StepStreams == IInv /\ Listed /\ Streams /\ [Next]_vars => Streams'
<1> SUFFICES ASSUME IInv, Listed, Streams, [Next]_vars PROVE Streams'
  OBVIOUS
<1>1. Quiet => Streams'
  BY DEF Quiet, Streams, InStep, Known
<1>2. ASSUME NEW t \in Tasks, NEW x \in Experiments, Start(t, x) PROVE Streams'
  BY <1>2, StartStreams
<1>3. ASSUME NEW t \in Tasks, RunTask(t) PROVE Streams'
  BY <1>1, <1>3, TaskSection, SectionStreams
<1>4. CASE (\E t \in Tasks : Environment(t)) \/ Stop
  BY <1>1, <1>4, OtherSection
<1>5. ASSUME NEW e \in Evictors, EvictCache(e) PROVE Streams'
  BY <1>1, <1>5, EvictSection, SectionStreams
<1>6. ASSUME NEW p \in Pages, Stream(p) PROVE Streams'
  <2>1. ASSUME NEW t \in Tasks, Subscribe(p, t) PROVE Streams'
    BY <2>1, SubscribeStreams
  <2>2. CASE AfterReplay(p)
    <3> DEFINE pc == IF rec[page[p].task].status \in Terminal THEN "closed" ELSE "streaming"
    <3>1. /\ page[p].pc # "closed" /\ pc \in {"closed", "streaming"}
          /\ page' = [page EXCEPT ![p].pc = pc] /\ UNCHANGED rec
      BY <2>2 DEF AfterReplay, tasks
    <3> HIDE DEF pc
    <3> QED
      BY <3>1, PcStreams
  <2>3. CASE Deliver(p)
    BY <2>3, DeliverStreams
  <2>4. CASE Disconnect(p)
    BY <2>4, PcStreams DEF Disconnect, tasks
  <2> QED
    BY <1>6, <2>1, <2>2, <2>3, <2>4 DEF Stream
<1>7. CASE Restart
  BY <1>7, RestartStreams
<1>8. CASE UNCHANGED vars
  BY <1>8 DEF vars, tasks, Streams, InStep, Known
<1> QED
  BY <1>2, <1>3, <1>4, <1>5, <1>6, <1>7, <1>8 DEF Next

\* Runner.Subscribe and streamEvents lose no event and repeat none, in order,
\* for any number of pages, disconnects and restarts, unless the channel was
\* full or a restart lost events the page had seen.
THEOREM StreamsLoseNothing == Spec => []EachEventReachesThePage
<1>1. Init => IInv /\ Listed /\ Streams
  BY InitIInv, InitListed, InitStreams
<1>2. (IInv /\ Listed /\ Streams) /\ [Next]_vars => (IInv /\ Listed /\ Streams)'
  BY StepIInv, StepListed, StepStreams
<1>3. IInv /\ Streams => EachEventReachesThePage
  <2> SUFFICES ASSUME IInv, Streams, NEW p \in Pages, page[p].pc # "closed", ~page[p].gap
      PROVE  LET q == page[p].queue
             IN /\ Known(page[p].task) =>
                     page[p].seen \cup {q[i].id : i \in DOMAIN q} = 1 .. Len(rec[page[p].task].events)
                /\ \A i \in DOMAIN q : q[i].id > IF i = 1 THEN page[p].last ELSE q[i - 1].id
    BY DEF EachEventReachesThePage, ConnectedPageMissesNothing, DeliveredOnce
  <2> DEFINE q == page[p].queue
             last == page[p].last
  <2>1. /\ q \in Seq(QueueItem) /\ last \in Nat /\ page[p].task \in Tasks /\ page[p].task # None
        /\ InStep(page[p])
    BY TasksAssumption DEF IInv, Stored, Pointers, Streams, PageType
  <2>2. /\ page[p].seen = 1 .. last
        /\ \A i \in DOMAIN q : q[i].id = last + i
        /\ Known(page[p].task) => last + Len(q) = Len(rec[page[p].task].events)
    BY <2>1 DEF InStep
  <2>3. DOMAIN q = 1 .. Len(q) /\ Len(q) \in Nat
    BY <2>1
  <2> HIDE DEF q, last
  <2>4. page[p].seen \cup {q[i].id : i \in DOMAIN q} = 1 .. (last + Len(q))
    <3>1. {q[i].id : i \in DOMAIN q} = {last + i : i \in 1 .. Len(q)}
      BY <2>2, <2>3
    <3>2. (1 .. last) \cup {last + i : i \in 1 .. Len(q)} = 1 .. (last + Len(q))
      <4>1. ASSUME NEW k \in 1 .. (last + Len(q)), k \notin 1 .. last
            PROVE  \E i \in 1 .. Len(q) : k = last + i
        <5>1. k - last \in 1 .. Len(q) /\ k = last + (k - last)
          BY <2>1, <2>3, <4>1
        <5> QED
          BY <5>1
      <4>2. ASSUME NEW i \in 1 .. Len(q) PROVE last + i \in 1 .. (last + Len(q))
        BY <2>1, <2>3
      <4>3. 1 .. last \subseteq 1 .. (last + Len(q))
        BY <2>1, <2>3
      <4> QED
        BY <4>1, <4>2, <4>3
    <3> QED
      BY <2>2, <3>1, <3>2
  <2>5. ASSUME NEW i \in DOMAIN q PROVE q[i].id > IF i = 1 THEN last ELSE q[i - 1].id
    <3>1. q[i].id = last + i /\ i \in Nat
      BY <2>2, <2>3
    <3>2. CASE i = 1
      BY <2>1, <3>1, <3>2
    <3>3. CASE i # 1
      <4>1. i - 1 \in DOMAIN q
        BY <2>3, <3>3
      <4>2. q[i - 1].id = last + (i - 1)
        BY <2>2, <4>1
      <4> QED
        BY <2>1, <3>1, <3>3, <4>2
    <3> QED
      BY <3>2, <3>3
  <2> QED
    BY <2>2, <2>4, <2>5 DEF q, last
<1> QED
  BY <1>1, <1>2, <1>3, PTL DEF Spec

=============================================================================
