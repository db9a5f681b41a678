------------------------ MODULE CacheExperimentProofs ------------------------
(***************************************************************************)
(* The three properties of the cache experiments, for any number of tasks, *)
(* workers and faults.  Two arguments that share only the types: who holds *)
(* the lock of a key (LockInv), and who may touch meter and negative key   *)
(* while a prepare or a task has the experiment to itself (AloneInv).      *)
(***************************************************************************)
EXTENDS CacheExperiment, TLAPS

Job == [op: {"prepare", "read", "evict", "finish", "public"},
        task: Tasks \cup {None}, kind: Kinds, at: Places,
        crossed: BOOLEAN, answered: BOOLEAN, rebuilt: BOOLEAN]

Reading == {"get", "lock", "recheck", "origin", "fill", "done"}

\* What is known of the goroutines' local variables: only a task's reader works
\* on the missing material.
Fits(j) ==
    /\ j.at \in Reading \cup {"delHot", "verify"} /\ KeyOf(j) # "hot" => j.op = "read"
    /\ j.op \in {"prepare", "read"} => j.task \in Tasks
    /\ j.answered => j.at \in {"origin", "fill"} /\ KeyOf(j) = "hot"
    /\ j.at \in {"lock", "recheck"} => Merged(j)

\* A read on its way from the lock to the fill; the reader of the missing
\* material gives its lock back only with its sample.
InLock(j) == j.at = "recheck" \/ (j.at \in {"origin", "fill"} /\ Merged(j))
MayHold(j) == j # Idle /\ (InLock(j) \/ (j.at = "done" /\ KeyOf(j) = "missing"))

\* A read whose fill will be counted.
Counts(j) == j.at \in {"origin", "fill"} /\ Merged(j) /\ (KeyOf(j) = "hot" => j.answered)

Present(k) == IF k = "hot" THEN hotKey ELSE negKey # None

Own(w) == job[w] # Idle =>
    /\ Fits(job[w])
    /\ InLock(job[w]) => fillMu[KeyOf(job[w])] = w
    /\ Counts(job[w]) => fills[KeyOf(job[w])] = 0

LockFits(k) == fillMu[k] # None => MayHold(job[fillMu[k]]) /\ KeyOf(job[fillMu[k]]) = k
FillFits(k) == fills[k] = 0 \/ (fills[k] = 1 /\ Present(k))

LockInv == (\A w \in Workers : Own(w)) /\ (\A k \in Keys : LockFits(k) /\ FillFits(k))

PhasesOf(k) ==
    IF k.scenario = "cache-breakdown" THEN BreakdownPhases ELSE PenetrationPhases

MeterFits(t, k) ==
    meter.on /\ meter.task = t /\ ~meter.foreign /\ meter.phase \in PhasesOf(k)

\* A prepare that has met no other call of a task has the keys and the meter to
\* itself.
UncrossedFits(w) ==
    (job[w] # Idle /\ job[w].op = "prepare" /\ ~job[w].crossed) =>
        /\ \A v \in Workers \ {w} : ~OfATask(v)
        /\ job[w].at = "delNegative" \/ negKey = None
        /\ job[w].at = "publish" => MeterFits(job[w].task, job[w].kind)

\* Beside a task that owns the experiment only its reads and its evictions run.
OfTheScope(j) ==
    \/ j.op = "read" /\ j.task = scope.task /\ j.kind = scope.kind
    \/ j.op = "evict" /\ scope.kind.scenario = "cache-breakdown"

Isolated == scope # None /\ ~scope.expired /\ ~scope.crossed

ScopeFits == Isolated =>
    /\ MeterFits(scope.task, scope.kind)
    /\ negKey \in {None, scope.task}
    /\ \A w \in Workers : OfATask(w) => OfTheScope(job[w])

AloneInv == ScopeFits /\ \A w \in Workers : UncrossedFits(w)

IInv == TypeOK /\ LockInv /\ AloneInv

-----------------------------------------------------------------------------
(* How a step changes the goroutines                                        *)

LEMMA IdleIsNoJob == Idle.op = "idle" /\ \A j \in Job : j # Idle
BY DEF Idle, Job

LEMMA JobOf == ASSUME TypeOK, NEW w \in Workers
               PROVE  /\ job[w] # Idle => job[w] \in Job
                      /\ job[w].op # "idle" => job[w] # Idle
                      /\ job[w] = Idle => job[w].op = "idle"
BY IdleIsNoJob DEF TypeOK, Jobs, Job

\* A goroutine another one's step leaves alone; its prepare may become crossed.
Stays(v) ==
    /\ job[v] = Idle => job'[v] = Idle
    /\ job[v] # Idle =>
        /\ job'[v] \in Job
        /\ job'[v].op = job[v].op /\ job'[v].task = job[v].task
        /\ job'[v].kind = job[v].kind /\ job'[v].at = job[v].at
        /\ job'[v].answered = job[v].answered /\ job'[v].rebuilt = job[v].rebuilt
        /\ job[v].crossed => job'[v].crossed

\* The goroutine's own step: all but its place, `answered' and `rebuilt' stays.
Moves(w) ==
    /\ job'[w] \in Job
    /\ job'[w].op = job[w].op /\ job'[w].task = job[w].task
    /\ job'[w].kind = job[w].kind /\ job'[w].crossed = job[w].crossed

\* The goroutine as a call starts it.
Starts(w, op, t, k, at) ==
    /\ job'[w] \in Job /\ job'[w].op = op /\ job'[w].task = t /\ job'[w].kind = k
    /\ job'[w].at = at /\ ~job'[w].answered
    /\ (\E v \in Workers \ {w} : OfATask(v)) => job'[w].crossed

OthersStay(w) == \A v \in Workers \ {w} : job'[v] = job[v]

LEMMA SameStays == ASSUME TypeOK, NEW v \in Workers, job'[v] = job[v] PROVE Stays(v)
BY JobOf DEF Stays

LEMMA GotoMoves ==
    ASSUME TypeOK, NEW w \in Workers, job[w] # Idle, NEW at \in Places, Goto(w, at)
    PROVE  /\ job' \in [Workers -> Jobs] /\ OthersStay(w) /\ Moves(w)
           /\ job'[w].at = at
           /\ job'[w].answered = job[w].answered /\ job'[w].rebuilt = job[w].rebuilt
<1>1. job[w] \in Job
  BY JobOf
<1>2. job'[w] = [job[w] EXCEPT !.at = at] /\ OthersStay(w)
  BY DEF Goto, TypeOK, OthersStay
<1>3. Moves(w) /\ job'[w].at = at
      /\ job'[w].answered = job[w].answered /\ job'[w].rebuilt = job[w].rebuilt
  BY <1>1, <1>2 DEF Job, Moves
<1>4. job' \in [Workers -> Jobs]
  BY <1>2, <1>3 DEF Goto, TypeOK, Jobs, Job, Moves
<1> QED
  BY <1>2, <1>3, <1>4

LEMMA AnswerMoves ==
    ASSUME TypeOK, NEW w \in Workers, job[w] # Idle, NEW at \in Places, NEW a \in BOOLEAN,
           job' = [job EXCEPT ![w].at = at, ![w].answered = a]
    PROVE  /\ job' \in [Workers -> Jobs] /\ OthersStay(w) /\ Moves(w)
           /\ job'[w].at = at /\ job'[w].answered = a
<1>1. job[w] \in Job
  BY JobOf
<1>2. job'[w] = [job[w] EXCEPT !.at = at, !.answered = a] /\ OthersStay(w)
  BY DEF TypeOK, OthersStay
<1>3. Moves(w) /\ job'[w].at = at /\ job'[w].answered = a
  <2>1. PICK j \in Job : j = job[w]
    BY <1>1
  <2>2. PICK i : i = job'[w]
    OBVIOUS
  <2>3. i = [j EXCEPT !.at = at, !.answered = a]
    BY <1>2, <2>1, <2>2
  <2>4. /\ i \in Job /\ i.op = j.op /\ i.task = j.task /\ i.kind = j.kind
        /\ i.crossed = j.crossed /\ i.at = at /\ i.answered = a
    BY <2>3 DEF Job
  <2> QED
    BY <2>1, <2>2, <2>4 DEF Moves
<1>4. job' \in [Workers -> Jobs]
  BY <1>2, <1>3 DEF TypeOK, Jobs, Job, Moves
<1> QED
  BY <1>2, <1>3, <1>4

LEMMA RebuildMoves ==
    ASSUME TypeOK, NEW w \in Workers, job[w] # Idle, NEW r \in BOOLEAN,
           job' = [job EXCEPT ![w].at = "done", ![w].answered = FALSE, ![w].rebuilt = r]
    PROVE  /\ job' \in [Workers -> Jobs] /\ OthersStay(w) /\ Moves(w)
           /\ job'[w].at = "done" /\ job'[w].answered = FALSE
<1>1. job[w] \in Job
  BY JobOf
<1>2. job'[w] = [job[w] EXCEPT !.at = "done", !.answered = FALSE, !.rebuilt = r] /\ OthersStay(w)
  BY DEF TypeOK, OthersStay
<1>3. Moves(w) /\ job'[w].at = "done" /\ job'[w].answered = FALSE
  <2>1. PICK j \in Job : j = job[w]
    BY <1>1
  <2>2. PICK i : i = job'[w]
    OBVIOUS
  <2>3. i = [j EXCEPT !.at = "done", !.answered = FALSE, !.rebuilt = r]
    BY <1>2, <2>1, <2>2
  <2>4. /\ i \in Job /\ i.op = j.op /\ i.task = j.task /\ i.kind = j.kind
        /\ i.crossed = j.crossed /\ i.at = "done" /\ i.answered = FALSE
    BY <2>3 DEF Job, Places
  <2> QED
    BY <2>1, <2>2, <2>4 DEF Moves
<1>4. job' \in [Workers -> Jobs]
  BY <1>2, <1>3 DEF TypeOK, Jobs, Job, Moves
<1> QED
  BY <1>2, <1>3, <1>4

LEMMA EndMoves ==
    ASSUME TypeOK, NEW w \in Workers, End(w)
    PROVE  job' \in [Workers -> Jobs] /\ OthersStay(w) /\ job'[w] = Idle
BY DEF End, TypeOK, Jobs, OthersStay

\* A call starts and makes the prepares it meets crossed, unless it is public.
LEMMA BeginMoves ==
    ASSUME TypeOK, NEW w \in Workers, job[w] = Idle,
           NEW op \in {"prepare", "read", "evict", "finish", "public"},
           NEW t \in Tasks \cup {None}, NEW k \in Kinds, NEW at \in Places, Begin(w, op, t, k, at)
    PROVE  /\ job' \in [Workers -> Jobs]
           /\ Starts(w, op, t, k, at)
           /\ \A v \in Workers \ {w} :
                /\ Stays(v)
                /\ op # "public" /\ job[v].op = "prepare" => job'[v].crossed
<1> DEFINE new == [op |-> op, task |-> t, kind |-> k, at |-> at,
                   crossed |-> {v \in Workers \ {w} : OfATask(v)} # {},
                   answered |-> FALSE, rebuilt |-> FALSE]
<1>1. job'[w] = new
  BY DEF Begin
<1>2. /\ new \in Job /\ new.op = op /\ new.task = t /\ new.kind = k
      /\ new.at = at /\ ~new.answered
      /\ new.crossed = (\E v \in Workers \ {w} : OfATask(v))
  BY DEF Job
<1>3. ASSUME NEW v \in Workers \ {w}
      PROVE  /\ job'[v] \in Jobs /\ Stays(v)
             /\ op # "public" /\ job[v].op = "prepare" => job'[v].crossed
  <2>1. CASE job[v].op = "prepare" /\ op # "public"
    <3>1. job[v] \in Job /\ job[v] # Idle
      BY <2>1, JobOf
    <3>2. job'[v] = [job[v] EXCEPT !.crossed = TRUE]
      BY <1>3, <2>1 DEF Begin
    <3> QED
      BY <3>1, <3>2 DEF Job, Jobs, Stays
  <2>2. CASE ~(job[v].op = "prepare" /\ op # "public")
    <3>1. job'[v] = job[v]
      BY <1>3, <2>2 DEF Begin
    <3> QED
      BY <2>2, <3>1, SameStays DEF TypeOK
  <2> QED
    BY <2>1, <2>2
<1>4. job' \in [Workers -> Jobs]
  <2>1. \A v \in Workers : job'[v] \in Jobs
    BY <1>1, <1>2, <1>3 DEF Jobs, Job
  <2> QED
    BY <2>1 DEF Begin
<1>5. Starts(w, op, t, k, at)
  BY <1>1, <1>2 DEF Starts
<1> QED
  BY <1>3, <1>4, <1>5

-----------------------------------------------------------------------------
(* Types *)

Meters == [on: BOOLEAN, task: Tasks \cup {None}, foreign: BOOLEAN,
           phase: {""} \cup BreakdownPhases \cup PenetrationPhases]

LEMMA FaultIsTyped == ASSUME TypeOK, Fault PROVE faults' \in 0..MaxFaults
<1>1. faults \in 0..MaxFaults /\ MaxFaults \in Nat
  BY ConstantsAssumption DEF TypeOK
<1> QED
  BY <1>1 DEF Fault

LEMMA ReleaseIsTyped ==
    ASSUME TypeOK, NEW w \in Workers, Release(w) \/ Return(w) \/ UNCHANGED fillMu
    PROVE  /\ fillMu' \in [Keys -> Workers \cup {None}]
           /\ \A k \in Keys : fillMu'[k] = fillMu[k] \/ (fillMu[k] = w /\ fillMu'[k] = None)
           /\ Release(w) => \A k \in Keys : fillMu'[k] = IF fillMu[k] = w THEN None ELSE fillMu[k]
BY DEF Release, Return, TypeOK

LEMMA RemoveIsTyped ==
    ASSUME TypeOK
    PROVE  /\ RemoveHot => /\ hotKey' \in BOOLEAN /\ fills' \in [Keys -> 0..2]
                           /\ ~hotKey' /\ fills'["hot"] = 0 /\ fills'["missing"] = fills["missing"]
           /\ RemoveNegative => /\ negKey' = None /\ fills' \in [Keys -> 0..2]
                                /\ fills'["missing"] = 0 /\ fills'["hot"] = fills["hot"]
<1>1. fills \in [Keys -> 0..2] /\ "hot" \in Keys /\ "missing" \in Keys /\ "hot" # "missing"
  BY DEF TypeOK, Keys
<1>2. RemoveHot => /\ fills' \in [Keys -> 0..2]
                   /\ fills'["hot"] = 0 /\ fills'["missing"] = fills["missing"]
  BY <1>1 DEF RemoveHot
<1>4. RemoveHot => hotKey' \in BOOLEAN /\ ~hotKey'
  BY Zenon DEF RemoveHot
<1>3. RemoveNegative => /\ negKey' = None /\ fills' \in [Keys -> 0..2]
                        /\ fills'["missing"] = 0 /\ fills'["hot"] = fills["hot"]
  BY <1>1 DEF RemoveNegative
<1> QED
  BY <1>2, <1>3, <1>4

LEMMA CountIsTyped ==
    ASSUME TypeOK, NEW w \in Workers, job[w] # Idle, CountFill(w)
    PROVE  /\ fills' \in [Keys -> 0..2]
           /\ \A k \in Keys :
                \/ fills'[k] = fills[k]
                \/ k = KeyOf(job[w]) /\ fills'[k] = fills[k] + 1 /\ Merged(job[w])
                     /\ (k = "hot" => job[w].answered)
<1> DEFINE k == KeyOf(job[w])
<1>1. fills \in [Keys -> 0..2] /\ k \in Keys
  BY DEF TypeOK, Keys, KeyOf
<1> HIDE DEF k
<1>2. CASE fills' = fills
  BY <1>1, <1>2
<1>3. CASE /\ fills' = [fills EXCEPT ![k] = @ + 1]
           /\ fills[k] < 2 /\ Merged(job[w]) /\ (k = "hot" => job[w].answered)
  BY <1>1, <1>3 DEF k
<1> QED
  BY <1>2, <1>3 DEF CountFill, k

LEMMA ScopeKind ==
    ASSUME TypeOK, ~Vacant
    PROVE  scope # None /\ scope \in Scopes /\ scope.task \in Tasks /\ scope.kind \in Kinds
BY DEF Vacant, TypeOK, Scopes

LEMMA PublicKindIsKind == PublicKind \in Kinds /\ PublicKind.scenario = "cache-breakdown"
BY DEF PublicKind, Kinds

LEMMA RequestIsTyped ==
    ASSUME TypeOK, NEW w \in Workers, Request(w) PROVE TypeOK'
<1>1. CASE ReadPublic(w)
  <2>1. job' \in [Workers -> Jobs]
    BY <1>1, BeginMoves, PublicKindIsKind DEF ReadPublic, Places
  <2> QED
    BY <1>1, <2>1 DEF ReadPublic, TypeOK
<1>2. ASSUME NEW t \in Tasks, NEW k \in Kinds, Prepare(w, t, k) PROVE TypeOK'
  <2>1. job' \in [Workers -> Jobs]
    BY <1>2, BeginMoves DEF Prepare, Places
  <2> QED
    BY <1>2, <2>1 DEF Prepare, TypeOK
<1>3. ASSUME NEW t \in Tasks,
             \/ PrepareConflict(w, t) \/ ReadRejected(w, t)
             \/ ControlRejected(w, t) \/ FinishConflict(w, t)
      PROVE  TypeOK'
  BY <1>3 DEF PrepareConflict, ReadRejected, ControlRejected, FinishConflict, vars, TypeOK
<1>4. ASSUME NEW t \in Tasks, Read(w, t) PROVE TypeOK'
  <2>1. job' \in [Workers -> Jobs]
    BY <1>4, BeginMoves, ScopeKind DEF Read, Active, Places
  <2> QED
    BY <1>4, <2>1 DEF Read, TypeOK
<1>5. ASSUME NEW t \in Tasks, Evict(w, t) PROVE TypeOK'
  <2>1. job' \in [Workers -> Jobs]
    BY <1>5, BeginMoves, PublicKindIsKind DEF Evict, Places
  <2> QED
    BY <1>5, <2>1 DEF Evict, TypeOK
<1>6. ASSUME NEW t \in Tasks, Finish(w, t) PROVE TypeOK'
  <2>1. job' \in [Workers -> Jobs]
    BY <1>6, BeginMoves, ScopeKind DEF Finish, Active, Places
  <2> QED
    BY <1>6, <2>1 DEF Finish, TypeOK
<1>7. ASSUME NEW t \in Tasks, FinishUnscoped(w, t) PROVE TypeOK'
  <2>1. job' \in [Workers -> Jobs]
    BY <1>7, BeginMoves, PublicKindIsKind DEF FinishUnscoped, Places
  <2> QED
    BY <1>7, <2>1 DEF FinishUnscoped, TypeOK
<1> QED
  BY <1>1, <1>2, <1>3, <1>4, <1>5, <1>6, <1>7 DEF Request

LEMMA AtIsJob ==
    ASSUME TypeOK, NEW w \in Workers, NEW op, op # "idle", NEW at, At(w, op, at)
    PROVE  job[w] # Idle /\ job[w] \in Job
BY JobOf DEF At

LEMMA PrepareIsTyped ==
    ASSUME TypeOK, NEW w \in Workers, Own(w),
           \/ PrepareDelNegative(w) \/ PrepareDelHot(w) \/ PrepareVerify(w)
           \/ ResetMeter(w) \/ PublishScope(w)
    PROVE  TypeOK'
<1>1. CASE PrepareDelNegative(w)
  <2>1. job' \in [Workers -> Jobs]
    BY <1>1, AtIsJob, GotoMoves, EndMoves DEF PrepareDelNegative, Places
  <2>2. /\ negKey' \in Tasks \cup {None} /\ fills' \in [Keys -> 0..2] /\ faults' \in 0..MaxFaults
    BY <1>1, RemoveIsTyped, FaultIsTyped DEF PrepareDelNegative, TypeOK
  <2> QED
    BY <1>1, <2>1, <2>2 DEF PrepareDelNegative, TypeOK
<1>2. CASE PrepareDelHot(w)
  <2>1. job' \in [Workers -> Jobs]
    BY <1>2, AtIsJob, GotoMoves, EndMoves DEF PrepareDelHot, Places
  <2>2. /\ hotKey' \in BOOLEAN /\ fills' \in [Keys -> 0..2] /\ faults' \in 0..MaxFaults
    BY <1>2, RemoveIsTyped, FaultIsTyped DEF PrepareDelHot, TypeOK
  <2> QED
    BY <1>2, <2>1, <2>2 DEF PrepareDelHot, TypeOK
<1>3. CASE PrepareVerify(w)
  <2>1. job' \in [Workers -> Jobs]
    BY <1>3, AtIsJob, GotoMoves, EndMoves DEF PrepareVerify, Places
  <2>2. faults' \in 0..MaxFaults
    BY <1>3, FaultIsTyped DEF PrepareVerify, TypeOK
  <2> QED
    BY <1>3, <2>1, <2>2 DEF PrepareVerify, TypeOK
<1>4. CASE ResetMeter(w)
  <2>1. job' \in [Workers -> Jobs]
    BY <1>4, AtIsJob, GotoMoves DEF ResetMeter, Places
  <2>2. meter' \in Meters
    BY <1>4, AtIsJob DEF ResetMeter, Meters, Job, FirstPhase, BreakdownPhases, PenetrationPhases
  <2> QED
    BY <1>4, <2>1, <2>2 DEF ResetMeter, TypeOK, Meters
<1>5. CASE PublishScope(w)
  <2>1. job' \in [Workers -> Jobs]
    BY <1>5, EndMoves DEF PublishScope
  <2>2. scope' \in Scopes
    BY <1>5, AtIsJob DEF PublishScope, At, Own, Fits, Scopes, Job
  <2> QED
    BY <1>5, <2>1, <2>2 DEF PublishScope, TypeOK
<1> QED
  BY <1>1, <1>2, <1>3, <1>4, <1>5

LEMMA ReadIsTyped ==
    ASSUME TypeOK, NEW w \in Workers,
           \/ FirstLook(w) \/ Lock(w) \/ Recheck(w) \/ Origin(w)
           \/ FillHot(w) \/ WriteNegative(w) \/ Sample(w) \/ PublicDone(w)
    PROVE  TypeOK'
<1>1. CASE FirstLook(w)
  <2>1. job' \in [Workers -> Jobs]
    BY <1>1, GotoMoves DEF FirstLook, Places
  <2>2. faults' \in 0..MaxFaults
    BY <1>1, FaultIsTyped DEF FirstLook, TypeOK
  <2> QED
    BY <1>1, <2>1, <2>2 DEF FirstLook, TypeOK
<1>2. CASE Lock(w)
  <2>1. job' \in [Workers -> Jobs]
    BY <1>2, GotoMoves DEF Lock, Places
  <2>2. fillMu' \in [Keys -> Workers \cup {None}]
    BY <1>2 DEF Lock, TypeOK
  <2> QED
    BY <1>2, <2>1, <2>2 DEF Lock, TypeOK
<1>3. CASE Recheck(w)
  <2>1. ASSUME job' = [job EXCEPT ![w].at = "origin", ![w].answered = KeyOf(job[w]) = "hot"]
        PROVE  job' \in [Workers -> Jobs]
    BY <1>3, <2>1, AnswerMoves DEF Recheck, Places
  <2>2. job' \in [Workers -> Jobs]
    BY <1>3, <2>1, GotoMoves DEF Recheck, Places
  <2>3. faults' \in 0..MaxFaults /\ fillMu' \in [Keys -> Workers \cup {None}]
    BY <1>3, FaultIsTyped, ReleaseIsTyped DEF Recheck, TypeOK
  <2> QED
    BY <1>3, <2>2, <2>3 DEF Recheck, TypeOK
<1>4. CASE Origin(w)
  <2>1. ASSUME NEW at \in Places, job' = [job EXCEPT ![w].answered = FALSE, ![w].at = at]
        PROVE  job' \in [Workers -> Jobs]
    <3>1. job' = [job EXCEPT ![w].at = at, ![w].answered = FALSE]
      BY <2>1 DEF TypeOK
    <3> QED
      BY <1>4, <3>1, AnswerMoves DEF Origin
  <2>2. job' \in [Workers -> Jobs]
    BY <1>4, <2>1, GotoMoves, EndMoves DEF Origin, Places
  <2>3. faults' \in 0..MaxFaults /\ fillMu' \in [Keys -> Workers \cup {None}]
    BY <1>4, FaultIsTyped, ReleaseIsTyped DEF Origin, TypeOK
  <2> QED
    BY <1>4, <2>2, <2>3 DEF Origin, TypeOK
<1>5. CASE FillHot(w)
  <2>1. ASSUME NEW r \in BOOLEAN,
               job' = [job EXCEPT ![w].at = "done", ![w].answered = FALSE, ![w].rebuilt = r]
        PROVE  job' \in [Workers -> Jobs]
    BY <1>5, <2>1, RebuildMoves DEF FillHot
  <2>2. ASSUME job' = [job EXCEPT ![w].at = "done", ![w].answered = FALSE]
        PROVE  job' \in [Workers -> Jobs]
    BY <1>5, <2>2, AnswerMoves DEF FillHot, Places
  <2>3. job' \in [Workers -> Jobs]
    BY <1>5, <2>1, <2>2 DEF FillHot
  <2>4. faults' \in 0..MaxFaults /\ fills' \in [Keys -> 0..2]
    BY <1>5, FaultIsTyped, CountIsTyped DEF FillHot, TypeOK
  <2>5. fillMu' \in [Keys -> Workers \cup {None}]
    BY <1>5, ReleaseIsTyped DEF FillHot
  <2>6. hotKey' \in BOOLEAN
    <3>1. hotKey \in BOOLEAN
      BY DEF TypeOK
    <3> QED
      BY <1>5, <3>1, Zenon DEF FillHot
  <2> QED
    BY <1>5, <2>3, <2>4, <2>5, <2>6 DEF FillHot, TypeOK
<1>6. CASE WriteNegative(w)
  <2>1. job' \in [Workers -> Jobs]
    BY <1>6, GotoMoves DEF WriteNegative, Places
  <2>2. faults' \in 0..MaxFaults /\ fills' \in [Keys -> 0..2]
    BY <1>6, FaultIsTyped, CountIsTyped DEF WriteNegative, TypeOK
  <2>3. negKey' \in Tasks \cup {None}
    BY <1>6, JobOf DEF WriteNegative, Job, TypeOK
  <2> QED
    BY <1>6, <2>1, <2>2, <2>3 DEF WriteNegative, TypeOK
<1>7. CASE Sample(w)
  <2>1. job' \in [Workers -> Jobs]
    BY <1>7, EndMoves DEF Sample
  <2>2. fillMu' \in [Keys -> Workers \cup {None}]
    BY <1>7, ReleaseIsTyped DEF Sample
  <2>3. meter' \in Meters
    <3>1. meter \in Meters
      BY DEF TypeOK, Meters
    <3> QED
      BY <1>7, <3>1 DEF Sample, Meters, BreakdownPhases
  <2> QED
    BY <1>7, <2>1, <2>2, <2>3 DEF Sample, TypeOK, Meters
<1>8. CASE PublicDone(w)
  BY <1>8, EndMoves DEF PublicDone, TypeOK
<1> QED
  BY <1>1, <1>2, <1>3, <1>4, <1>5, <1>6, <1>7, <1>8

LEMMA ControlIsTyped ==
    ASSUME TypeOK, NEW w \in Workers,
           \/ EvictDel(w) \/ RecordEvicted(w) \/ FinishDelNegative(w) \/ FinishVerify(w)
           \/ FinishRepaired(w) \/ DeactivateMeter(w) \/ FinishDelUnscoped(w)
    PROVE  TypeOK'
<1>0. meter \in Meters
  BY DEF TypeOK, Meters
<1>1. CASE EvictDel(w)
  <2>1. job' \in [Workers -> Jobs]
    BY <1>1, AtIsJob, GotoMoves, EndMoves DEF EvictDel, Places
  <2>2. hotKey' \in BOOLEAN /\ fills' \in [Keys -> 0..2]
    BY <1>1, RemoveIsTyped, Zenon DEF EvictDel, TypeOK
  <2>3. faults' \in 0..MaxFaults
    BY <1>1, FaultIsTyped DEF EvictDel, TypeOK
  <2> QED
    BY <1>1, <2>1, <2>2, <2>3 DEF EvictDel, TypeOK
<1>2. CASE RecordEvicted(w)
  <2>1. job' \in [Workers -> Jobs]
    BY <1>2, EndMoves DEF RecordEvicted
  <2>2. meter' \in Meters
    BY <1>0, <1>2 DEF RecordEvicted, Meters, BreakdownPhases
  <2> QED
    BY <1>2, <2>1, <2>2 DEF RecordEvicted, TypeOK, Meters
<1>3. CASE FinishDelNegative(w)
  <2>1. job' \in [Workers -> Jobs]
    BY <1>3, AtIsJob, GotoMoves DEF FinishDelNegative, Places
  <2>2. /\ negKey' \in Tasks \cup {None} /\ fills' \in [Keys -> 0..2] /\ faults' \in 0..MaxFaults
    BY <1>3, RemoveIsTyped, FaultIsTyped DEF FinishDelNegative, TypeOK
  <2> QED
    BY <1>3, <2>1, <2>2 DEF FinishDelNegative, TypeOK
<1>4. CASE FinishVerify(w)
  <2>1. job' \in [Workers -> Jobs]
    BY <1>4, AtIsJob, GotoMoves DEF FinishVerify, Places
  <2>2. faults' \in 0..MaxFaults
    BY <1>4, FaultIsTyped DEF FinishVerify, TypeOK
  <2> QED
    BY <1>4, <2>1, <2>2 DEF FinishVerify, TypeOK
<1>5. CASE FinishRepaired(w)
  <2>1. job' \in [Workers -> Jobs]
    BY <1>5, AtIsJob, GotoMoves DEF FinishRepaired, Places
  <2> QED
    BY <1>5, <2>1 DEF FinishRepaired, TypeOK
<1>6. CASE DeactivateMeter(w)
  <2>1. job' \in [Workers -> Jobs]
    BY <1>6, AtIsJob, GotoMoves, EndMoves DEF DeactivateMeter, Places
  <2>2. meter' \in Meters
    BY <1>0, <1>6 DEF DeactivateMeter, Meters
  <2> QED
    BY <1>6, <2>1, <2>2 DEF DeactivateMeter, TypeOK, Meters
<1>7. CASE FinishDelUnscoped(w)
  <2>1. job' \in [Workers -> Jobs]
    BY <1>7, EndMoves DEF FinishDelUnscoped
  <2>2. /\ negKey' \in Tasks \cup {None} /\ fills' \in [Keys -> 0..2] /\ faults' \in 0..MaxFaults
    BY <1>7, RemoveIsTyped, FaultIsTyped DEF FinishDelUnscoped, TypeOK
  <2> QED
    BY <1>7, <2>1, <2>2 DEF FinishDelUnscoped, TypeOK
<1> QED
  BY <1>1, <1>2, <1>3, <1>4, <1>5, <1>6, <1>7

LEMMA SurroundingsAreTyped ==
    ASSUME TypeOK, Recovered \/ LeaseEnds \/ HotKeyGoes \/ NegativeKeyGoes
    PROVE  TypeOK'
<1>1. CASE Recovered
  <2>1. meter' \in Meters
    <3>1. meter \in Meters
      BY DEF TypeOK, Meters
    <3> QED
      BY <1>1, <3>1 DEF Recovered, Meters, BreakdownPhases
  <2> QED
    BY <1>1, <2>1 DEF Recovered, TypeOK, Meters
<1>2. CASE LeaseEnds
  <2>1. scope' \in Scopes
    BY <1>2, ScopeKind DEF LeaseEnds, Scopes
  <2> QED
    BY <1>2, <2>1 DEF LeaseEnds, TypeOK
<1>3. CASE HotKeyGoes
  BY <1>3, RemoveIsTyped DEF HotKeyGoes, TypeOK
<1>4. CASE NegativeKeyGoes
  BY <1>4, RemoveIsTyped DEF NegativeKeyGoes, TypeOK
<1> QED
  BY <1>1, <1>2, <1>3, <1>4

LEMMA NextIsTyped ==
    ASSUME TypeOK, \A w \in Workers : Own(w), [Next]_vars PROVE TypeOK'
<1>1. CASE UNCHANGED vars
  BY <1>1 DEF vars, TypeOK
<1>2. ASSUME NEW w \in Workers, Step(w) PROVE TypeOK'
  BY <1>2, PrepareIsTyped, ReadIsTyped, ControlIsTyped DEF Step
<1> QED
  BY <1>1, <1>2, RequestIsTyped, SurroundingsAreTyped DEF Next

-----------------------------------------------------------------------------
(* The locks of the keys                                                    *)

LEMMA KeysAre == Keys = {"hot", "missing"} /\ \A w \in Workers : KeyOf(job[w]) \in Keys
BY DEF Keys, KeyOf

LEMMA StaysSame ==
    ASSUME TypeOK, NEW v \in Workers, job[v] # Idle, Stays(v)
    PROVE  /\ job'[v] # Idle
           /\ KeyOf(job'[v]) = KeyOf(job[v]) /\ Merged(job'[v]) = Merged(job[v])
           /\ InLock(job'[v]) = InLock(job[v]) /\ Counts(job'[v]) = Counts(job[v])
           /\ Fits(job'[v]) = Fits(job[v]) /\ MayHold(job'[v]) = MayHold(job[v])
<1>1. job'[v] # Idle
  BY IdleIsNoJob DEF Stays
<1>2. KeyOf(job'[v]) = KeyOf(job[v]) /\ Merged(job'[v]) = Merged(job[v])
  BY DEF Stays, KeyOf, Merged
<1>3. InLock(job'[v]) = InLock(job[v]) /\ Counts(job'[v]) = Counts(job[v])
  BY <1>2 DEF Stays, InLock, Counts
<1>4. Fits(job'[v]) = Fits(job[v])
  BY <1>2 DEF Stays, Fits
<1>5. MayHold(job'[v]) = MayHold(job[v])
  BY <1>1, <1>2, <1>3 DEF Stays, MayHold
<1> QED
  BY <1>1, <1>2, <1>3, <1>4, <1>5

\* A bystander keeps its lock and, while it has it, nobody else counts a fill.
LEMMA BystanderKeeps ==
    ASSUME TypeOK, NEW v \in Workers, Own(v), Stays(v),
           \A k \in Keys : fillMu[k] = v => fillMu'[k] = v /\ (fills[k] = 0 => fills'[k] = 0)
    PROVE  Own(v)'
<1>1. CASE job[v] = Idle
  BY <1>1 DEF Stays, Own
<1>2. CASE job[v] # Idle
  <2>1. Counts(job[v]) => InLock(job[v])
    BY DEF Counts, InLock
  <2> QED
    BY <1>2, <2>1, KeysAre, StaysSame DEF Own
<1> QED
  BY <1>1, <1>2

\* A step that neither takes nor gives a lock.
LEMMA QuietStep ==
    ASSUME TypeOK, LockInv, NEW w \in Workers, \A v \in Workers \ {w} : Stays(v),
           UNCHANGED fillMu, ~MayHold(job[w]),
           job'[w] # Idle => Fits(job'[w]) /\ ~InLock(job'[w]),
           \A k \in Keys : fills'[k] = 0 \/ (fills'[k] = fills[k] /\ (Present(k) => Present(k)'))
    PROVE  LockInv'
<1>1. ASSUME NEW v \in Workers PROVE Own(v)'
  <2>1. CASE v # w
    BY <1>1, <2>1, BystanderKeeps DEF LockInv
  <2>2. CASE v = w
    BY <2>2 DEF Own, Counts, InLock
  <2> QED
    BY <2>1, <2>2
<1>2. ASSUME NEW k \in Keys PROVE LockFits(k)'
  <2>1. SUFFICES ASSUME fillMu[k] # None
                 PROVE  MayHold(job'[fillMu[k]]) /\ KeyOf(job'[fillMu[k]]) = k
    BY DEF LockFits
  <2>2. fillMu[k] \in Workers /\ MayHold(job[fillMu[k]]) /\ KeyOf(job[fillMu[k]]) = k
    BY <2>1 DEF LockInv, LockFits, TypeOK
  <2>3. fillMu[k] # w /\ job[fillMu[k]] # Idle
    BY <2>2 DEF MayHold
  <2> QED
    BY <2>2, <2>3, StaysSame
<1>3. ASSUME NEW k \in Keys PROVE FillFits(k)'
  BY DEF LockInv, FillFits
<1> QED
  BY <1>1, <1>2, <1>3 DEF LockInv

LEMMA RequestKeepsLocks ==
    ASSUME TypeOK, LockInv, NEW w \in Workers, Request(w) PROVE LockInv'
<1>1. ASSUME UNCHANGED vars PROVE LockInv'
  BY <1>1 DEF vars, LockInv, Own, LockFits, FillFits, Present
<1>2. ASSUME NEW op \in {"prepare", "read", "evict", "finish", "public"},
             NEW t \in Tasks \cup {None}, NEW k \in Kinds, NEW at \in Places,
             Begin(w, op, t, k, at), job[w] = Idle,
             UNCHANGED <<hotKey, negKey, fillMu, fills>>,
             op \in {"prepare", "read"} => t \in Tasks,
             at = "get" => op = "read" \/ k.scenario = "cache-breakdown",
             at \in {"get", "delNegative", "evict", "offUnscoped"}
      PROVE  LockInv'
  <2>1. Starts(w, op, t, k, at) /\ \A v \in Workers \ {w} : Stays(v)
    BY <1>2, BeginMoves
  <2>2. Fits(job'[w])
    BY <1>2, <2>1 DEF Starts, Fits, KeyOf, Reading
  <2>3. ~InLock(job'[w])
    BY <1>2, <2>1 DEF Starts, InLock
  <2>4. ~MayHold(job[w])
    BY <1>2 DEF MayHold
  <2> QED
    BY <1>2, <2>1, <2>2, <2>3, <2>4, QuietStep DEF Present
<1>3. CASE ReadPublic(w)
  BY <1>2, <1>3, PublicKindIsKind DEF ReadPublic, Places
<1>4. ASSUME NEW t \in Tasks, NEW k \in Kinds, Prepare(w, t, k) PROVE LockInv'
  BY <1>2, <1>4 DEF Prepare, Places
<1>5. ASSUME NEW t \in Tasks, Read(w, t) PROVE LockInv'
  BY <1>2, <1>5, ScopeKind DEF Read, Active, Places
<1>6. ASSUME NEW t \in Tasks, Evict(w, t) PROVE LockInv'
  BY <1>2, <1>6, PublicKindIsKind DEF Evict, Places
<1>7. ASSUME NEW t \in Tasks, Finish(w, t) PROVE LockInv'
  BY <1>2, <1>7, ScopeKind DEF Finish, Active, Places
<1>8. ASSUME NEW t \in Tasks, FinishUnscoped(w, t) PROVE LockInv'
  BY <1>2, <1>8, PublicKindIsKind DEF FinishUnscoped, Places
<1> QED
  BY <1>1, <1>3, <1>4, <1>5, <1>6, <1>7, <1>8
  DEF Request, PrepareConflict, ReadRejected, ControlRejected, FinishConflict

\* The own step of a goroutine to a place outside the lock.
LEMMA QuietGoto ==
    ASSUME TypeOK, LockInv, NEW w \in Workers, job[w] # Idle, ~MayHold(job[w]), ~job[w].answered,
           UNCHANGED fillMu,
           \/ End(w)
           \/ \E at \in Places \ {"lock", "recheck", "origin", "fill"} :
                /\ Goto(w, at)
                /\ at \in Reading \cup {"delHot", "verify"} /\ KeyOf(job[w]) # "hot" => job[w].op = "read",
           \A k \in Keys : fills'[k] = 0 \/ (fills'[k] = fills[k] /\ (Present(k) => Present(k)'))
    PROVE  LockInv'
<1>1. CASE End(w)
  <2>1. OthersStay(w) /\ job'[w] = Idle
    BY <1>1, EndMoves
  <2> QED
    BY <2>1, SameStays, QuietStep DEF OthersStay
<1>2. ASSUME NEW at \in Places \ {"lock", "recheck", "origin", "fill"}, Goto(w, at),
             at \in Reading \cup {"delHot", "verify"} /\ KeyOf(job[w]) # "hot" => job[w].op = "read"
      PROVE  LockInv'
  <2>1. OthersStay(w) /\ Moves(w) /\ job'[w].at = at /\ job'[w].answered = job[w].answered
    BY <1>2, GotoMoves
  <2>2. Fits(job[w])
    BY DEF LockInv, Own
  <2>3. Fits(job'[w])
    BY <1>2, <2>1, <2>2 DEF Moves, Fits, KeyOf
  <2>4. ~InLock(job'[w])
    BY <2>1 DEF InLock
  <2> QED
    BY <2>1, <2>3, <2>4, SameStays, QuietStep DEF OthersStay
<1> QED
  BY <1>1, <1>2

\* A key goes: nothing counts as filled any more.
LEMMA RemoveIsQuiet ==
    ASSUME TypeOK
    PROVE  /\ RemoveHot /\ UNCHANGED negKey => \A k \in Keys :
                fills'[k] = 0 \/ (fills'[k] = fills[k] /\ (Present(k) => Present(k)'))
           /\ RemoveNegative /\ UNCHANGED hotKey => \A k \in Keys :
                fills'[k] = 0 \/ (fills'[k] = fills[k] /\ (Present(k) => Present(k)'))
           /\ UNCHANGED <<hotKey, negKey, fills>> => \A k \in Keys :
                fills'[k] = 0 \/ (fills'[k] = fills[k] /\ (Present(k) => Present(k)'))
<1>1. RemoveHot /\ UNCHANGED negKey => \A k \in Keys :
          fills'[k] = 0 \/ (fills'[k] = fills[k] /\ (Present(k) => Present(k)'))
  BY RemoveIsTyped, KeysAre DEF Present
<1>2. RemoveNegative /\ UNCHANGED hotKey => \A k \in Keys :
          fills'[k] = 0 \/ (fills'[k] = fills[k] /\ (Present(k) => Present(k)'))
  BY RemoveIsTyped, KeysAre DEF Present
<1>3. UNCHANGED <<hotKey, negKey, fills>> => \A k \in Keys :
          fills'[k] = 0 \/ (fills'[k] = fills[k] /\ (Present(k) => Present(k)'))
  BY DEF Present
<1> QED
  BY <1>1, <1>2, <1>3

\* At its own steps a control call holds no lock; at "done" it works on the hot
\* key, which has given its lock back.
LEMMA ControlIsOutside ==
    ASSUME TypeOK, LockInv, NEW w \in Workers, job[w] # Idle,
           \/ job[w].at \notin Reading
           \/ job[w].at = "done" /\ job[w].op # "read"
    PROVE  ~MayHold(job[w]) /\ ~job[w].answered
<1>1. Fits(job[w])
  BY DEF LockInv, Own
<1> QED
  BY <1>1 DEF Fits, MayHold, InLock, Reading, KeyOf

LEMMA ControlKeepsLocks ==
    ASSUME TypeOK, LockInv, NEW w \in Workers,
           \/ PrepareDelNegative(w) \/ PrepareDelHot(w) \/ PrepareVerify(w)
           \/ ResetMeter(w) \/ PublishScope(w) \/ PublicDone(w)
           \/ EvictDel(w) \/ RecordEvicted(w) \/ FinishDelNegative(w) \/ FinishVerify(w)
           \/ FinishRepaired(w) \/ DeactivateMeter(w) \/ FinishDelUnscoped(w)
    PROVE  LockInv'
<1> USE DEF Places, Reading
<1>0. job[w] # Idle /\ Fits(job[w]) /\ ~MayHold(job[w]) /\ ~job[w].answered
  <2>1. job[w] # Idle /\ \/ job[w].at \notin Reading
                         \/ job[w].at = "done" /\ job[w].op # "read"
    BY JobOf DEF At, PrepareDelNegative, PrepareDelHot, PrepareVerify, ResetMeter, PublishScope,
       PublicDone, EvictDel, RecordEvicted, FinishDelNegative, FinishVerify, FinishRepaired,
       DeactivateMeter, FinishDelUnscoped
  <2> QED
    BY <2>1, ControlIsOutside DEF LockInv, Own
<1>1. CASE PrepareDelNegative(w)
  BY <1>0, <1>1, QuietGoto, RemoveIsQuiet DEF PrepareDelNegative
<1>2. CASE PrepareDelHot(w)
  BY <1>0, <1>2, QuietGoto, RemoveIsQuiet DEF PrepareDelHot, At, Fits
<1>3. CASE PrepareVerify(w)
  BY <1>0, <1>3, QuietGoto, RemoveIsQuiet DEF PrepareVerify
<1>4. CASE ResetMeter(w)
  BY <1>0, <1>4, QuietGoto, RemoveIsQuiet DEF ResetMeter
<1>5. CASE PublishScope(w) \/ PublicDone(w) \/ RecordEvicted(w)
  BY <1>0, <1>5, QuietGoto, RemoveIsQuiet DEF PublishScope, PublicDone, RecordEvicted
<1>6. CASE EvictDel(w)
  BY <1>0, <1>6, QuietGoto, RemoveIsQuiet DEF EvictDel
<1>7. CASE FinishDelNegative(w)
  BY <1>0, <1>7, QuietGoto, RemoveIsQuiet DEF FinishDelNegative
<1>8. CASE FinishVerify(w)
  BY <1>0, <1>8, QuietGoto, RemoveIsQuiet DEF FinishVerify, At, Fits
<1>9. CASE FinishRepaired(w)
  BY <1>0, <1>9, QuietGoto, RemoveIsQuiet DEF FinishRepaired
<1>10. CASE DeactivateMeter(w)
  BY <1>0, <1>10, QuietGoto, RemoveIsQuiet DEF DeactivateMeter
<1>11. CASE FinishDelUnscoped(w)
  BY <1>0, <1>11, QuietGoto, RemoveIsQuiet DEF FinishDelUnscoped
<1> QED
  BY <1>1, <1>2, <1>3, <1>4, <1>5, <1>6, <1>7, <1>8, <1>9, <1>10, <1>11

LEMMA SurroundingsKeepLocks ==
    ASSUME TypeOK, LockInv, Recovered \/ LeaseEnds \/ HotKeyGoes \/ NegativeKeyGoes
    PROVE  LockInv'
<1>1. UNCHANGED <<job, fillMu>>
  BY DEF Recovered, LeaseEnds, HotKeyGoes, NegativeKeyGoes
<1>2. \A k \in Keys : fills'[k] = 0 \/ (fills'[k] = fills[k] /\ (Present(k) => Present(k)'))
  BY RemoveIsQuiet DEF Recovered, LeaseEnds, HotKeyGoes, NegativeKeyGoes
<1>3. \A w \in Workers : Own(w)'
  BY <1>1, <1>2, KeysAre DEF LockInv, Own
<1>4. \A k \in Keys : LockFits(k)' /\ FillFits(k)'
  BY <1>1, <1>2 DEF LockInv, LockFits, FillFits
<1> QED
  BY <1>3, <1>4 DEF LockInv

\* A step on the way through the lock: what its own goroutine must show.
LEMMA LockStep ==
    ASSUME TypeOK, LockInv, NEW w \in Workers, OthersStay(w), Own(w)',
           \A k \in Keys :
             /\ fillMu[k] \notin {w, None} => fillMu'[k] = fillMu[k] /\ (fills[k] = 0 => fills'[k] = 0)
             /\ fillMu'[k] # None => fillMu'[k] = fillMu[k] \/ fillMu'[k] = w
             /\ fillMu'[k] = w => MayHold(job'[w]) /\ KeyOf(job'[w]) = k
             /\ FillFits(k)'
    PROVE  LockInv'
<1>1. ASSUME NEW v \in Workers PROVE Own(v)'
  <2>1. CASE v = w
    BY <2>1
  <2>2. CASE v # w
    <3>1. v # None
      BY ConstantsAssumption
    <3>2. Stays(v)
      BY <2>2, SameStays DEF OthersStay
    <3>3. Own(v)
      BY DEF LockInv
    <3> QED
      BY <2>2, <3>1, <3>2, <3>3, BystanderKeeps
  <2> QED
    BY <2>1, <2>2
<1>2. ASSUME NEW k \in Keys PROVE LockFits(k)'
  <2>1. SUFFICES ASSUME fillMu'[k] # None
                 PROVE  MayHold(job'[fillMu'[k]]) /\ KeyOf(job'[fillMu'[k]]) = k
    BY DEF LockFits
  <2>2. CASE fillMu'[k] = w
    BY <2>2
  <2>3. CASE fillMu'[k] # w
    <3>1. fillMu'[k] = fillMu[k] /\ fillMu[k] \in Workers \ {w}
      BY <2>1, <2>3 DEF TypeOK
    <3>2. MayHold(job[fillMu[k]]) /\ KeyOf(job[fillMu[k]]) = k
      BY <2>1, <3>1 DEF LockInv, LockFits
    <3> QED
      BY <3>1, <3>2 DEF OthersStay
  <2> QED
    BY <2>2, <2>3
<1> QED
  BY <1>1, <1>2 DEF LockInv

LEMMA FirstLookKeepsLocks ==
    ASSUME TypeOK, LockInv, NEW w \in Workers, FirstLook(w) PROVE LockInv'
<1>1. job[w] # Idle /\ job[w].at = "get" /\ Fits(job[w]) /\ ~MayHold(job[w]) /\ ~job[w].answered
  BY DEF FirstLook, LockInv, Own, Fits, MayHold, InLock
<1>2. PICK at \in {"done", "lock", "origin"} :
         Goto(w, at) /\ (at = "origin" => ~Merged(job[w])) /\ (at = "lock" => Merged(job[w]))
  BY DEF FirstLook
<1>3. OthersStay(w) /\ Moves(w) /\ job'[w].at = at /\ job'[w].answered = job[w].answered
  BY <1>1, <1>2, GotoMoves DEF Places
<1>4. Fits(job'[w]) /\ ~InLock(job'[w])
  BY <1>1, <1>2, <1>3 DEF Moves, Fits, KeyOf, Reading, InLock, Merged
<1>5. \A k \in Keys : fills'[k] = 0 \/ (fills'[k] = fills[k] /\ (Present(k) => Present(k)'))
  BY DEF FirstLook, Present
<1>6. UNCHANGED fillMu
  BY DEF FirstLook
<1> QED
  BY <1>1, <1>3, <1>4, <1>5, <1>6, SameStays, QuietStep DEF OthersStay

LEMMA LockKeepsLocks ==
    ASSUME TypeOK, LockInv, NEW w \in Workers, Lock(w) PROVE LockInv'
<1> DEFINE key == KeyOf(job[w])
<1>1. job[w] # Idle /\ job[w].at = "lock" /\ Fits(job[w]) /\ ~job[w].answered /\ w # None
  BY ConstantsAssumption DEF Lock, LockInv, Own, Fits
<1>2. OthersStay(w) /\ Moves(w) /\ job'[w].at = "recheck" /\ job'[w].answered = job[w].answered
  BY <1>1, GotoMoves DEF Lock, Places
<1>3. Fits(job'[w]) /\ KeyOf(job'[w]) = key /\ job'[w] # Idle
  BY <1>1, <1>2, IdleIsNoJob DEF Moves, Fits, KeyOf, Reading, Merged
<1>4. /\ fillMu[key] = None /\ fillMu'[key] = w
      /\ \A k \in Keys \ {key} : fillMu'[k] = fillMu[k]
  BY KeysAre DEF Lock, TypeOK
<1>5. Own(w)'
  BY <1>2, <1>3, <1>4 DEF Own, Counts
<1>6. \A k \in Keys : fillMu[k] # w
  BY <1>1 DEF LockInv, LockFits, MayHold, InLock
<1>7. MayHold(job'[w])
  BY <1>2, <1>3 DEF MayHold, InLock
<1>8. \A k \in Keys : FillFits(k)' /\ fills'[k] = fills[k]
  BY DEF Lock, LockInv, FillFits, Present
<1> QED
  BY <1>2, <1>3, <1>4, <1>5, <1>6, <1>7, <1>8, LockStep

\* Who holds a lock holds that of its own key only.
LEMMA HoldsOwn ==
    ASSUME TypeOK, LockInv, NEW w \in Workers, NEW k \in Keys, fillMu[k] = w
    PROVE  MayHold(job[w]) /\ KeyOf(job[w]) = k
BY ConstantsAssumption DEF LockInv, LockFits

LEMMA RecheckKeepsLocks ==
    ASSUME TypeOK, LockInv, NEW w \in Workers, Recheck(w) PROVE LockInv'
<1> DEFINE key == KeyOf(job[w])
<1>1. /\ job[w] # Idle /\ job[w].at = "recheck" /\ Fits(job[w]) /\ ~job[w].answered
      /\ fillMu[key] = w /\ w # None /\ key \in Keys
  BY ConstantsAssumption, KeysAre DEF Recheck, LockInv, Own, Fits, InLock
<1>2. \A k \in Keys : FillFits(k)' /\ fills'[k] = fills[k]
  BY DEF Recheck, LockInv, FillFits, Present
<1>3. CASE Hit(job[w]) /\ Goto(w, "done") /\ Return(w)
  <2>1. OthersStay(w) /\ Moves(w) /\ job'[w].at = "done" /\ job'[w].answered = job[w].answered
    BY <1>1, <1>3, GotoMoves DEF Places
  <2>2. Fits(job'[w]) /\ KeyOf(job'[w]) = key /\ job'[w] # Idle
    BY <1>1, <2>1, IdleIsNoJob DEF Moves, Fits, KeyOf, Reading, Merged
  <2>3. Own(w)'
    BY <2>1, <2>2 DEF Own, Counts, InLock
  <2>4. \A k \in Keys : fillMu'[k] = w => MayHold(job'[w]) /\ KeyOf(job'[w]) = k
    <3>1. CASE key = "hot"
      BY <1>1, <1>3, <3>1, ReleaseIsTyped DEF Return
    <3>2. CASE key # "hot"
      BY <1>1, <1>3, <2>1, <2>2, <3>2, HoldsOwn, KeysAre DEF Return, MayHold
    <3> QED
      BY <3>1, <3>2
  <2>5. \A k \in Keys : fillMu'[k] = fillMu[k] \/ (fillMu[k] = w /\ fillMu'[k] = None)
    BY <1>3, ReleaseIsTyped
  <2> QED
    BY <1>1, <1>2, <2>1, <2>3, <2>4, <2>5, LockStep
<1>4. CASE /\ ~Hit(job[w]) /\ UNCHANGED fillMu
           /\ job' = [job EXCEPT ![w].at = "origin", ![w].answered = KeyOf(job[w]) = "hot"]
  <2>1. OthersStay(w) /\ Moves(w) /\ job'[w].at = "origin" /\ job'[w].answered = (key = "hot")
    BY <1>1, <1>4, AnswerMoves DEF Places
  <2>2. /\ Fits(job'[w]) /\ KeyOf(job'[w]) = key /\ job'[w] # Idle
        /\ Merged(job'[w]) = Merged(job[w])
    BY <1>1, <2>1, IdleIsNoJob DEF Moves, Fits, KeyOf, Reading, Merged
  <2>3. Merged(job[w]) => fills[key] = 0
    <3>1. Merged(job[w]) => ~Present(key)
      BY <1>4, KeysAre DEF Hit, Present
    <3> QED
      BY <1>1, <3>1 DEF LockInv, FillFits
  <2>4. Own(w)'
    BY <1>1, <1>2, <1>4, <2>1, <2>2, <2>3 DEF Own, Counts
  <2>5. \A k \in Keys : fillMu'[k] = w => MayHold(job'[w]) /\ KeyOf(job'[w]) = k
    <3>1. Merged(job[w])
      BY <1>1 DEF Fits
    <3> QED
      BY <1>1, <1>4, <2>1, <2>2, <3>1, HoldsOwn DEF MayHold, InLock
  <2> QED
    BY <1>1, <1>2, <1>4, <2>1, <2>4, <2>5, LockStep
<1>5. CASE /\ Goto(w, IF KeyOf(job[w]) = "hot" THEN "origin" ELSE "done")
           /\ UNCHANGED fillMu
  <2>1. OthersStay(w) /\ Moves(w) /\ job'[w].answered = job[w].answered
        /\ job'[w].at = IF key = "hot" THEN "origin" ELSE "done"
    BY <1>1, <1>5, GotoMoves DEF Places
  <2>2. /\ Fits(job'[w]) /\ KeyOf(job'[w]) = key /\ job'[w] # Idle
        /\ Merged(job'[w]) = Merged(job[w])
    BY <1>1, <2>1, IdleIsNoJob DEF Moves, Fits, KeyOf, Reading, Merged
  <2>3. Own(w)'
    BY <1>1, <1>5, <2>1, <2>2 DEF Own, Counts, InLock
  <2>4. MayHold(job'[w])
    BY <1>1, <2>1, <2>2 DEF Fits, MayHold, InLock, KeyOf
  <2> QED
    BY <1>1, <1>2, <1>5, <2>1, <2>2, <2>3, <2>4, HoldsOwn, LockStep
<1> QED
  BY <1>3, <1>4, <1>5 DEF Recheck

LEMMA OriginKeepsLocks ==
    ASSUME TypeOK, LockInv, NEW w \in Workers, Origin(w) PROVE LockInv'
<1> DEFINE key == KeyOf(job[w])
<1>1. /\ job[w] # Idle /\ job[w].at = "origin" /\ Fits(job[w]) /\ Own(w)
      /\ w # None /\ key \in Keys
  BY ConstantsAssumption, KeysAre DEF Origin, LockInv, Own
<1>2. \A k \in Keys : FillFits(k)' /\ fills'[k] = fills[k]
  BY DEF Origin, LockInv, FillFits, Present
<1>3. CASE /\ Goto(w, IF key = "hot" \/ Merged(job[w]) THEN "fill" ELSE "done")
           /\ UNCHANGED fillMu
  <2>1. OthersStay(w) /\ Moves(w) /\ job'[w].answered = job[w].answered
        /\ job'[w].at = IF key = "hot" \/ Merged(job[w]) THEN "fill" ELSE "done"
    BY <1>1, <1>3, GotoMoves DEF Places
  <2>2. /\ Fits(job'[w]) /\ KeyOf(job'[w]) = key /\ job'[w] # Idle
        /\ Merged(job'[w]) = Merged(job[w])
    BY <1>1, <2>1, IdleIsNoJob DEF Moves, Fits, KeyOf, Reading, Merged
  <2>3. Own(w)'
    BY <1>1, <1>2, <1>3, <2>1, <2>2 DEF Own, Counts, InLock
  <2>4. \A k \in Keys : fillMu[k] = w => MayHold(job'[w]) /\ KeyOf(job'[w]) = k
    BY <1>1, <2>1, <2>2, HoldsOwn DEF MayHold, InLock
  <2> QED
    BY <1>1, <1>2, <1>3, <2>1, <2>3, <2>4, LockStep
<1>4. CASE Return(w) /\ job[w].op = "prepare" /\ End(w)
  <2>1. OthersStay(w) /\ job'[w] = Idle
    BY <1>4, EndMoves
  <2>2. Own(w)'
    BY <2>1 DEF Own
  <2>3. key = "hot"
    BY <1>1, <1>4 DEF Fits, Reading
  <2>4. /\ \A k \in Keys : fillMu'[k] # w
        /\ \A k \in Keys : fillMu'[k] = fillMu[k] \/ (fillMu[k] = w /\ fillMu'[k] = None)
    BY <1>1, <1>4, <2>3, ReleaseIsTyped DEF Return
  <2> QED
    BY <1>1, <1>2, <2>1, <2>2, <2>4, LockStep
<1>5. CASE /\ Return(w)
           /\ job[w].op # "prepare"
           /\ job' = [job EXCEPT ![w].answered = FALSE,
                        ![w].at = IF job[w].op = "finish" THEN "off" ELSE "done"]
  <2> DEFINE at == IF job[w].op = "finish" THEN "off" ELSE "done"
  <2>1. OthersStay(w) /\ Moves(w) /\ ~job'[w].answered /\ job'[w].at = at
    <3>1. job' = [job EXCEPT ![w].at = at, ![w].answered = FALSE]
      BY <1>5 DEF TypeOK
    <3>2. at \in Places
      BY DEF Places
    <3> HIDE DEF at
    <3> QED
      BY <1>1, <3>1, <3>2, AnswerMoves
  <2>2. /\ Fits(job'[w]) /\ KeyOf(job'[w]) = key /\ job'[w] # Idle
    BY <1>1, <2>1, IdleIsNoJob DEF Moves, Fits, KeyOf, Reading, Merged
  <2>3. Own(w)'
    BY <2>1, <2>2 DEF Own, Counts, InLock
  <2>4. \A k \in Keys : fillMu'[k] = w => MayHold(job'[w]) /\ KeyOf(job'[w]) = k
    <3>1. CASE key = "hot"
      BY <1>1, <1>5, <3>1, ReleaseIsTyped DEF Return
    <3>2. CASE key # "hot"
      <4>1. job[w].op = "read" /\ key = "missing" /\ UNCHANGED fillMu
        BY <1>1, <1>5, <3>2, KeysAre DEF Fits, Reading, Return
      <4> QED
        BY <4>1, <2>1, <2>2, HoldsOwn DEF MayHold
    <3> QED
      BY <3>1, <3>2
  <2>5. \A k \in Keys : fillMu'[k] = fillMu[k] \/ (fillMu[k] = w /\ fillMu'[k] = None)
    BY <1>5, ReleaseIsTyped
  <2> QED
    BY <1>1, <1>2, <2>1, <2>3, <2>4, <2>5, LockStep
<1> QED
  BY <1>3, <1>4, <1>5 DEF Origin

\* A counted fill is the first since the key went away: its goroutine has held
\* the lock since it found the key missing.
LEMMA FillCounts ==
    ASSUME TypeOK, LockInv, NEW w \in Workers, job[w] # Idle, job[w].at = "fill",
           CountFill(w) \/ UNCHANGED fills
    PROVE  \A k \in Keys :
             \/ fills'[k] = fills[k]
             \/ k = KeyOf(job[w]) /\ fillMu[k] = w /\ fills'[k] = 1
<1>1. CASE CountFill(w)
  <2>1. \A k \in Keys : fills'[k] = fills[k] \/ /\ k = KeyOf(job[w]) /\ Counts(job[w])
                                                /\ fills'[k] = fills[k] + 1
    BY <1>1, CountIsTyped DEF Counts
  <2>2. Counts(job[w]) => fillMu[KeyOf(job[w])] = w /\ fills[KeyOf(job[w])] = 0
    BY DEF LockInv, Own, Counts, InLock
  <2> QED
    BY <2>1, <2>2
<1> QED
  BY <1>1

LEMMA FillHotKeepsLocks ==
    ASSUME TypeOK, LockInv, NEW w \in Workers, FillHot(w) PROVE LockInv'
<1>1. /\ job[w] # Idle /\ job[w].at = "fill" /\ KeyOf(job[w]) = "hot" /\ Fits(job[w])
      /\ w # None
  BY ConstantsAssumption DEF FillHot, LockInv, Own
<1>2. OthersStay(w) /\ Moves(w) /\ ~job'[w].answered /\ job'[w].at = "done"
  BY <1>1, RebuildMoves, AnswerMoves DEF FillHot, Places
<1>3. Fits(job'[w]) /\ KeyOf(job'[w]) = "hot"
  BY <1>1, <1>2 DEF Moves, Fits, KeyOf, Reading
<1>4. Own(w)'
  BY <1>2, <1>3 DEF Own, Counts, InLock
<1>5. \A k \in Keys : /\ fillMu'[k] # w
                      /\ fillMu'[k] = fillMu[k] \/ (fillMu[k] = w /\ fillMu'[k] = None)
  BY <1>1, ReleaseIsTyped DEF FillHot, Return
<1>6. \A k \in Keys : fills'[k] = fills[k] \/ (k = "hot" /\ fillMu[k] = w /\ fills'[k] = 1)
  BY <1>1, FillCounts DEF FillHot
<1>7. \A k \in Keys : FillFits(k)'
  <2>1. CASE hotKey' = TRUE
    BY <1>6, <2>1 DEF FillHot, LockInv, FillFits, Present
  <2>2. CASE UNCHANGED <<hotKey, fills>>
    BY <2>2 DEF FillHot, LockInv, FillFits, Present
  <2> QED
    BY <2>1, <2>2 DEF FillHot
<1> QED
  BY <1>1, <1>2, <1>4, <1>5, <1>6, <1>7, LockStep

LEMMA WriteNegativeKeepsLocks ==
    ASSUME TypeOK, LockInv, NEW w \in Workers, WriteNegative(w) PROVE LockInv'
<1>1. /\ job[w] # Idle /\ job[w].at = "fill" /\ KeyOf(job[w]) = "missing" /\ Fits(job[w])
      /\ ~job[w].answered /\ job[w].op = "read" /\ job[w].task # None /\ w # None
  BY ConstantsAssumption DEF WriteNegative, LockInv, Own, Fits, Reading
<1>2. OthersStay(w) /\ Moves(w) /\ job'[w].at = "done" /\ job'[w].answered = job[w].answered
  BY <1>1, GotoMoves DEF WriteNegative, Places
<1>3. Fits(job'[w]) /\ KeyOf(job'[w]) = "missing" /\ job'[w] # Idle
  BY <1>1, <1>2, IdleIsNoJob DEF Moves, Fits, KeyOf
<1>4. Own(w)' /\ MayHold(job'[w])
  BY <1>2, <1>3 DEF Own, Counts, InLock, MayHold
<1>5. \A k \in Keys : fillMu'[k] = fillMu[k] /\ (fillMu[k] = w => k = "missing")
  BY <1>1, HoldsOwn DEF WriteNegative
<1>6. \A k \in Keys : fills'[k] = fills[k] \/ (k = "missing" /\ fillMu[k] = w /\ fills'[k] = 1)
  BY <1>1, FillCounts DEF WriteNegative
<1>7. \A k \in Keys : FillFits(k)'
  BY <1>1, <1>6 DEF WriteNegative, LockInv, FillFits, Present
<1> QED
  BY <1>1, <1>2, <1>3, <1>4, <1>5, <1>6, <1>7, LockStep

LEMMA SampleKeepsLocks ==
    ASSUME TypeOK, LockInv, NEW w \in Workers, Sample(w) PROVE LockInv'
<1>1. OthersStay(w) /\ job'[w] = Idle /\ w # None
  BY EndMoves, ConstantsAssumption DEF Sample
<1>2. Own(w)'
  BY <1>1 DEF Own
<1>3. \A k \in Keys : fillMu'[k] = IF fillMu[k] = w THEN None ELSE fillMu[k]
  BY ReleaseIsTyped DEF Sample
<1>4. \A k \in Keys : FillFits(k)' /\ fills'[k] = fills[k]
  BY DEF Sample, LockInv, FillFits, Present
<1> QED
  BY <1>1, <1>2, <1>3, <1>4, LockStep

LEMMA NextKeepsLocks ==
    ASSUME TypeOK, LockInv, [Next]_vars PROVE LockInv'
<1>1. CASE UNCHANGED vars
  BY <1>1 DEF vars, LockInv, Own, LockFits, FillFits, Present
<1>2. ASSUME NEW w \in Workers, Step(w) PROVE LockInv'
  BY <1>2, ControlKeepsLocks, FirstLookKeepsLocks, LockKeepsLocks, RecheckKeepsLocks,
     OriginKeepsLocks, FillHotKeepsLocks, WriteNegativeKeepsLocks, SampleKeepsLocks DEF Step
<1> QED
  BY <1>1, <1>2, RequestKeepsLocks, SurroundingsKeepLocks DEF Next

-----------------------------------------------------------------------------
(* Meter and negative key                                                   *)

LEMMA TaskJobs ==
    ASSUME TypeOK, NEW w \in Workers
    PROVE  /\ OfATask(w) => job[w] # Idle
           /\ job[w] = Idle => ~OfATask(w)
BY JobOf DEF OfATask

\* A call begins: it makes the prepares it meets crossed, and it either belongs
\* to the task that owns the experiment or leaves the experiment without one.
LEMMA BeginKeepsAlone ==
    ASSUME TypeOK, AloneInv, NEW w \in Workers, job[w] = Idle,
           NEW op \in {"prepare", "read", "evict", "finish", "public"},
           NEW t \in Tasks \cup {None}, NEW k \in Kinds, NEW at \in Places, Begin(w, op, t, k, at),
           UNCHANGED <<negKey, meter>>,
           op = "prepare" => at = "delNegative",
           \/ scope' = None
           \/ UNCHANGED scope /\ \/ op = "public"
                                 \/ op = "read" /\ t = scope.task /\ k = scope.kind
                                 \/ op = "evict" /\ scope.kind.scenario = "cache-breakdown"
    PROVE  AloneInv'
<1>1. Starts(w, op, t, k, at)
  BY BeginMoves
<1>2. \A v \in Workers \ {w} :
        /\ Stays(v)
        /\ op # "public" /\ job[v].op = "prepare" => job'[v].crossed
  BY BeginMoves
<1>3. job'[w].op = op /\ job'[w].task = t /\ job'[w].kind = k /\ job'[w].at = at
  BY <1>1 DEF Starts
<1>4. \A v \in Workers \ {w} : OfATask(v)' = OfATask(v)
  BY <1>2, TaskJobs, IdleIsNoJob DEF Stays, OfATask
<1>5. ASSUME NEW v \in Workers PROVE UncrossedFits(v)'
  <2>1. CASE v = w
    <3>1. (\E x \in Workers \ {w} : OfATask(x)) => job'[w].crossed
      BY <1>1 DEF Starts
    <3> QED
      BY <1>3, <1>4, <2>1, <3>1 DEF UncrossedFits
  <2>2. CASE v # w
    <3>1. SUFFICES ASSUME job'[v] # Idle, job'[v].op = "prepare", ~job'[v].crossed
                   PROVE  /\ \A x \in Workers \ {v} : ~OfATask(x)'
                          /\ job'[v].at = "delNegative" \/ negKey = None
                          /\ job'[v].at = "publish" => MeterFits(job'[v].task, job'[v].kind)
      BY DEF UncrossedFits, MeterFits
    <3>2. job[v] # Idle /\ job[v].op = "prepare" /\ ~job[v].crossed /\ op = "public"
      BY <1>2, <2>2, <3>1 DEF Stays
    <3>3. /\ \A x \in Workers \ {v} : ~OfATask(x)
          /\ job[v].at = "delNegative" \/ negKey = None
          /\ job[v].at = "publish" => MeterFits(job[v].task, job[v].kind)
      BY <3>2 DEF AloneInv, UncrossedFits
    <3>4. ~OfATask(w)'
      BY <1>3, <3>2 DEF OfATask
    <3>5. job'[v].at = job[v].at /\ job'[v].task = job[v].task /\ job'[v].kind = job[v].kind
      BY <1>2, <2>2, <3>2 DEF Stays
    <3> QED
      BY <1>4, <3>3, <3>4, <3>5
  <2> QED
    BY <2>1, <2>2
<1>6. ScopeFits'
  <2>1. CASE scope' = None
    BY <2>1 DEF ScopeFits, Isolated
  <2>2. CASE UNCHANGED scope /\ scope' # None
    <3>1. SUFFICES ASSUME Isolated
                   PROVE  /\ MeterFits(scope.task, scope.kind)
                          /\ negKey \in {None, scope.task}
                          /\ \A v \in Workers : OfATask(v)' => OfTheScope(job'[v])
      BY <2>2 DEF ScopeFits, Isolated, MeterFits, OfTheScope
    <3>2. /\ MeterFits(scope.task, scope.kind)
          /\ negKey \in {None, scope.task}
          /\ \A v \in Workers : OfATask(v) => OfTheScope(job[v])
      BY <3>1 DEF AloneInv, ScopeFits
    <3>3. ASSUME NEW v \in Workers, OfATask(v)' PROVE OfTheScope(job'[v])
      <4>1. CASE v = w
        BY <1>3, <2>2, <3>3, <4>1 DEF OfATask, OfTheScope
      <4>2. CASE v # w
        <5>1. OfATask(v) /\ Stays(v) /\ job[v] # Idle
          BY <1>2, <1>4, <3>3, <4>2, TaskJobs
        <5> QED
          BY <3>2, <5>1 DEF Stays, OfTheScope
      <4> QED
        BY <4>1, <4>2
    <3> QED
      BY <3>2, <3>3
  <2> QED
    BY <2>1, <2>2
<1> QED
  BY <1>5, <1>6 DEF AloneInv

LEMMA RequestKeepsAlone ==
    ASSUME TypeOK, AloneInv, NEW w \in Workers, Request(w) PROVE AloneInv'
<1>1. ASSUME UNCHANGED vars PROVE AloneInv'
  BY <1>1 DEF vars, AloneInv, ScopeFits, Isolated, MeterFits, OfATask, OfTheScope, UncrossedFits
<1>3. CASE ReadPublic(w)
  BY <1>3, BeginKeepsAlone, PublicKindIsKind DEF ReadPublic, Places
<1>4. ASSUME NEW t \in Tasks, NEW k \in Kinds, Prepare(w, t, k) PROVE AloneInv'
  BY <1>4, BeginKeepsAlone DEF Prepare, Places
<1>5. ASSUME NEW t \in Tasks, Read(w, t) PROVE AloneInv'
  BY <1>5, BeginKeepsAlone, ScopeKind DEF Read, Active, Places
<1>6. ASSUME NEW t \in Tasks, Evict(w, t) PROVE AloneInv'
  BY <1>6, BeginKeepsAlone, PublicKindIsKind DEF Evict, Places
<1>7. ASSUME NEW t \in Tasks, Finish(w, t) PROVE AloneInv'
  BY <1>7, BeginKeepsAlone, ScopeKind DEF Finish, Active, Places
<1>8. ASSUME NEW t \in Tasks, FinishUnscoped(w, t) PROVE AloneInv'
  BY <1>8, BeginKeepsAlone, PublicKindIsKind DEF FinishUnscoped, Places
<1> QED
  BY <1>1, <1>3, <1>4, <1>5, <1>6, <1>7, <1>8
  DEF Request, PrepareConflict, ReadRejected, ControlRejected, FinishConflict

\* A step that leaves scope and meter alone and at most removes the negative key.
LEMMA PlainStep ==
    ASSUME TypeOK, AloneInv, NEW w \in Workers, job[w] # Idle, OthersStay(w),
           UNCHANGED <<scope, meter>>, negKey' = negKey \/ negKey' = None,
           \/ job'[w] = Idle
           \/ /\ Moves(w)
              /\ job[w].op = "prepare" =>
                   /\ job'[w].at # "publish"
                   /\ job[w].at = "delNegative" => negKey' = None
    PROVE  AloneInv'
<1>1. \A v \in Workers : OfATask(v)' => OfATask(v)
  <2>1. OfATask(w)' => OfATask(w)
    BY IdleIsNoJob DEF Moves, OfATask
  <2> QED
    BY <2>1 DEF OthersStay, OfATask
<1>2. ASSUME NEW v \in Workers PROVE UncrossedFits(v)'
  <2>1. CASE v # w
    BY <1>1, <2>1 DEF AloneInv, UncrossedFits, OthersStay, MeterFits
  <2>2. CASE v = w
    <3>1. CASE job'[w] = Idle
      BY <2>2, <3>1 DEF UncrossedFits
    <3>2. CASE job'[w] # Idle
      BY <1>1, <2>2, <3>2 DEF AloneInv, UncrossedFits, Moves
    <3> QED
      BY <3>1, <3>2
  <2> QED
    BY <2>1, <2>2
<1>3. ScopeFits'
  <2>1. \A v \in Workers : OfATask(v)' /\ OfTheScope(job[v]) => OfTheScope(job[v])'
    BY IdleIsNoJob DEF OfTheScope, OthersStay, Moves, OfATask
  <2> QED
    BY <1>1, <2>1 DEF AloneInv, ScopeFits, Isolated, MeterFits
<1> QED
  BY <1>2, <1>3 DEF AloneInv

LEMMA GotoKeepsAlone ==
    ASSUME TypeOK, AloneInv, NEW w \in Workers, job[w] # Idle,
           UNCHANGED <<scope, meter>>, negKey' = negKey \/ negKey' = None,
           \/ End(w)
           \/ \E at \in Places : /\ Goto(w, at)
                                 /\ job[w].op = "prepare" =>
                                      /\ at # "publish"
                                      /\ job[w].at = "delNegative" => negKey' = None
    PROVE  AloneInv'
<1>1. CASE End(w)
  BY <1>1, EndMoves, PlainStep
<1>2. ASSUME NEW at \in Places, Goto(w, at),
             job[w].op = "prepare" => at # "publish" /\ (job[w].at = "delNegative" => negKey' = None)
      PROVE  AloneInv'
  <2>1. OthersStay(w) /\ Moves(w) /\ job'[w].at = at
    BY <1>2, GotoMoves
  <2> QED
    BY <1>2, <2>1, PlainStep
<1> QED
  BY <1>1, <1>2

LEMMA PlainStepsKeepAlone ==
    ASSUME TypeOK, AloneInv, NEW w \in Workers,
           \/ PrepareDelNegative(w) \/ PrepareDelHot(w) \/ PrepareVerify(w)
           \/ FirstLook(w) \/ Lock(w) \/ Recheck(w) \/ Origin(w) \/ FillHot(w) \/ PublicDone(w)
           \/ EvictDel(w) \/ FinishDelNegative(w) \/ FinishVerify(w)
           \/ FinishRepaired(w) \/ FinishDelUnscoped(w)
    PROVE  AloneInv'
<1> USE DEF Places
<1>1. CASE PrepareDelNegative(w)
  BY <1>1, AtIsJob, GotoKeepsAlone, RemoveIsTyped DEF PrepareDelNegative
<1>2. CASE PrepareDelHot(w)
  BY <1>2, AtIsJob, GotoKeepsAlone DEF PrepareDelHot, At
<1>3. CASE PrepareVerify(w)
  BY <1>3, AtIsJob, GotoKeepsAlone DEF PrepareVerify, At
<1>4. CASE FirstLook(w)
  BY <1>4, GotoKeepsAlone DEF FirstLook
<1>5. CASE Lock(w)
  BY <1>5, GotoKeepsAlone DEF Lock
<1>6. CASE Recheck(w)
  <2>1. CASE Goto(w, "done") \/ Goto(w, "origin")
    BY <1>6, <2>1, GotoKeepsAlone DEF Recheck
  <2>2. CASE job' = [job EXCEPT ![w].at = "origin", ![w].answered = KeyOf(job[w]) = "hot"]
    <3>1. OthersStay(w) /\ Moves(w) /\ job'[w].at = "origin"
      BY <1>6, <2>2, AnswerMoves DEF Recheck
    <3> QED
      BY <1>6, <3>1, PlainStep DEF Recheck
  <2> QED
    BY <1>6, <2>1, <2>2 DEF Recheck
<1>7. CASE Origin(w)
  <2>1. CASE Goto(w, "fill") \/ Goto(w, "done") \/ End(w)
    BY <1>7, <2>1, GotoKeepsAlone DEF Origin
  <2>2. ASSUME NEW at \in {"off", "done"}, job' = [job EXCEPT ![w].answered = FALSE, ![w].at = at]
        PROVE  AloneInv'
    <3>1. job' = [job EXCEPT ![w].at = at, ![w].answered = FALSE]
      BY <2>2 DEF TypeOK
    <3>2. OthersStay(w) /\ Moves(w) /\ job'[w].at = at
      BY <1>7, <3>1, AnswerMoves DEF Origin
    <3> QED
      BY <1>7, <3>2, PlainStep DEF Origin
  <2> QED
    BY <1>7, <2>1, <2>2 DEF Origin
<1>8. CASE FillHot(w)
  <2>1. OthersStay(w) /\ Moves(w) /\ job'[w].at = "done"
    BY <1>8, RebuildMoves, AnswerMoves DEF FillHot
  <2> QED
    BY <1>8, <2>1, PlainStep DEF FillHot
<1>9. CASE PublicDone(w)
  BY <1>9, AtIsJob, GotoKeepsAlone DEF PublicDone
<1>10. CASE EvictDel(w)
  BY <1>10, AtIsJob, GotoKeepsAlone DEF EvictDel, At
<1>11. CASE FinishDelNegative(w)
  BY <1>11, AtIsJob, GotoKeepsAlone, RemoveIsTyped DEF FinishDelNegative, At
<1>12. CASE FinishVerify(w)
  BY <1>12, AtIsJob, GotoKeepsAlone DEF FinishVerify, At
<1>13. CASE FinishRepaired(w)
  BY <1>13, AtIsJob, GotoKeepsAlone DEF FinishRepaired, At
<1>14. CASE FinishDelUnscoped(w)
  BY <1>14, AtIsJob, GotoKeepsAlone, RemoveIsTyped DEF FinishDelUnscoped
<1> QED
  BY <1>1, <1>2, <1>3, <1>4, <1>5, <1>6, <1>7, <1>8, <1>9, <1>10, <1>11, <1>12, <1>13, <1>14

LEMMA WriteNegativeKeepsAlone ==
    ASSUME TypeOK, LockInv, AloneInv, NEW w \in Workers, WriteNegative(w) PROVE AloneInv'
<1>1. /\ job[w] # Idle /\ job[w].op = "read" /\ OfATask(w)
  BY DEF WriteNegative, LockInv, Own, Fits, Reading, OfATask
<1>2. OthersStay(w) /\ Moves(w)
  BY <1>1, GotoMoves DEF WriteNegative, Places
<1>3. \A v \in Workers : OfATask(v)' = OfATask(v)
  BY <1>1, <1>2 DEF OthersStay, Moves, OfATask
<1>4. ASSUME NEW v \in Workers PROVE UncrossedFits(v)'
  <2>1. CASE v # w
    BY <1>1, <1>2, <2>1 DEF AloneInv, UncrossedFits, OthersStay
  <2>2. CASE v = w
    BY <1>1, <1>2, <2>2 DEF UncrossedFits, Moves
  <2> QED
    BY <2>1, <2>2
<1>5. ScopeFits'
  <2>1. Isolated => job[w].task = scope.task
    BY <1>1 DEF AloneInv, ScopeFits, OfTheScope
  <2>2. Isolated => negKey' \in {None, scope.task}
    BY <2>1 DEF WriteNegative, AloneInv, ScopeFits
  <2>3. \A v \in Workers : OfATask(v) /\ OfTheScope(job[v]) => OfTheScope(job[v])'
    BY <1>2 DEF WriteNegative, OfTheScope, OthersStay, Moves
  <2> QED
    BY <1>3, <2>2, <2>3 DEF WriteNegative, AloneInv, ScopeFits, Isolated, MeterFits
<1> QED
  BY <1>4, <1>5 DEF AloneInv

LEMMA ResetMeterKeepsAlone ==
    ASSUME TypeOK, AloneInv, NEW w \in Workers, ResetMeter(w) PROVE AloneInv'
<1>1. job[w] # Idle /\ job[w] \in Job /\ job[w].op = "prepare" /\ job[w].at = "reset" /\ OfATask(w)
  BY AtIsJob DEF ResetMeter, At, OfATask
<1>2. OthersStay(w) /\ Moves(w) /\ job'[w].at = "publish"
  BY <1>1, GotoMoves DEF ResetMeter, Places
<1>3. \A v \in Workers : OfATask(v)' = OfATask(v)
  BY <1>1, <1>2 DEF OthersStay, Moves, OfATask
<1>4. MeterFits(job[w].task, job[w].kind)'
  BY <1>1, <1>2 DEF ResetMeter, Moves, MeterFits, FirstPhase, PhasesOf, Job, Kinds,
                    BreakdownPhases, PenetrationPhases
<1>5. ASSUME NEW v \in Workers PROVE UncrossedFits(v)'
  <2>1. CASE v # w
    BY <1>1, <1>2, <2>1 DEF AloneInv, UncrossedFits, OthersStay
  <2>2. CASE v = w
    BY <1>1, <1>2, <1>3, <1>4, <2>2 DEF ResetMeter, AloneInv, UncrossedFits, Moves
  <2> QED
    BY <2>1, <2>2
<1>6. ScopeFits'
  BY <1>1 DEF ResetMeter, AloneInv, ScopeFits, Isolated, OfTheScope
<1> QED
  BY <1>5, <1>6 DEF AloneInv

LEMMA PublishScopeKeepsAlone ==
    ASSUME TypeOK, AloneInv, NEW w \in Workers, PublishScope(w) PROVE AloneInv'
<1>1. job[w] # Idle /\ job[w].op = "prepare" /\ job[w].at = "publish" /\ OfATask(w)
  BY AtIsJob DEF PublishScope, At, OfATask
<1>2. OthersStay(w) /\ job'[w] = Idle
  BY EndMoves DEF PublishScope
<1>3. \A v \in Workers : OfATask(v)' => OfATask(v) /\ v # w
  BY <1>2, IdleIsNoJob DEF OthersStay, OfATask
<1>4. ASSUME NEW v \in Workers PROVE UncrossedFits(v)'
  BY <1>1, <1>2, <1>3 DEF PublishScope, AloneInv, UncrossedFits, OthersStay, MeterFits
<1>5. ScopeFits'
  <2>1. ~job[w].crossed =>
          /\ MeterFits(job[w].task, job[w].kind) /\ negKey = None
          /\ \A v \in Workers : ~OfATask(v)'
    BY <1>1, <1>3 DEF AloneInv, UncrossedFits
  <2>2. scope'.crossed = job[w].crossed /\ scope'.task = job[w].task /\ scope'.kind = job[w].kind
        /\ meter' = meter /\ negKey' = negKey
    BY DEF PublishScope
  <2> QED
    BY <2>1, <2>2 DEF ScopeFits, Isolated, MeterFits
<1> QED
  BY <1>4, <1>5 DEF AloneInv

\* A call of a task changes the meter: no uncrossed prepare is under way, and
\* the owner of the experiment must find its meter.
LEMMA MeterStep ==
    ASSUME TypeOK, AloneInv, NEW w \in Workers, job[w] # Idle,
           job[w].op \in {"read", "evict", "finish"}, OthersStay(w),
           job'[w] = Idle \/ Moves(w), UNCHANGED <<scope, negKey>>,
           Isolated => MeterFits(scope.task, scope.kind)'
    PROVE  AloneInv'
<1>1. OfATask(w)
  BY DEF OfATask
<1>2. \A v \in Workers : OfATask(v)' => OfATask(v)
  BY <1>1 DEF OthersStay, OfATask
<1>3. ASSUME NEW v \in Workers PROVE UncrossedFits(v)'
  <2>1. CASE v # w
    BY <1>1, <2>1 DEF AloneInv, UncrossedFits, OthersStay
  <2>2. CASE v = w
    BY <2>2 DEF UncrossedFits, Moves
  <2> QED
    BY <2>1, <2>2
<1>4. ScopeFits'
  <2>1. \A v \in Workers : OfATask(v)' /\ OfTheScope(job[v]) => OfTheScope(job[v])'
    BY IdleIsNoJob DEF OfTheScope, OthersStay, Moves, OfATask
  <2> QED
    BY <1>2, <2>1 DEF AloneInv, ScopeFits, Isolated
<1> QED
  BY <1>3, <1>4 DEF AloneInv

LEMMA MeterStepsKeepAlone ==
    ASSUME TypeOK, AloneInv, NEW w \in Workers,
           Sample(w) \/ RecordEvicted(w) \/ DeactivateMeter(w)
    PROVE  AloneInv'
<1>1. job[w] # Idle /\ OfATask(w) /\ job[w].op \in {"read", "evict", "finish"}
  BY AtIsJob DEF Sample, RecordEvicted, DeactivateMeter, At, OfATask
<1>2. OthersStay(w) /\ (job'[w] = Idle \/ Moves(w))
  BY <1>1, EndMoves, GotoMoves DEF Sample, RecordEvicted, DeactivateMeter, Places
<1>3. ASSUME Isolated
      PROVE  OfTheScope(job[w]) /\ MeterFits(scope.task, scope.kind)
  BY <1>1, <1>3 DEF AloneInv, ScopeFits
<1>4. meter \in Meters
  BY DEF TypeOK, Meters
<1>5. ASSUME Isolated PROVE MeterFits(scope.task, scope.kind)'
  <2>1. CASE Sample(w)
    <3>1. job[w].task = scope.task /\ UNCHANGED scope
      BY <1>3, <1>5, <2>1 DEF Sample, At, OfTheScope
    <3>2. /\ meter'.on = meter.on /\ meter'.task = meter.task
          /\ meter'.foreign => meter.foreign \/ job[w].task # meter.task
          /\ meter'.phase = meter.phase \/ (meter.phase = "evicted" /\ meter'.phase = "recovering")
      BY <1>4, <2>1 DEF Sample, Meters
    <3> QED
      BY <1>3, <1>5, <3>1, <3>2 DEF MeterFits, PhasesOf, BreakdownPhases, PenetrationPhases
  <2>2. CASE RecordEvicted(w)
    <3>1. scope.kind.scenario = "cache-breakdown" /\ UNCHANGED scope
      BY <1>3, <1>5, <2>2 DEF RecordEvicted, At, OfTheScope
    <3>2. /\ meter'.on = meter.on /\ meter'.task = meter.task /\ meter'.foreign = meter.foreign
          /\ meter'.phase = "evicted"
      BY <1>4, <2>2 DEF RecordEvicted, Meters
    <3> QED
      BY <1>3, <1>5, <3>1, <3>2 DEF MeterFits, PhasesOf, BreakdownPhases
  <2>3. CASE DeactivateMeter(w)
    BY <1>3, <1>5, <2>3 DEF DeactivateMeter, At, OfTheScope
  <2> QED
    BY <2>1, <2>2, <2>3
<1>6. UNCHANGED <<scope, negKey>>
  BY DEF Sample, RecordEvicted, DeactivateMeter
<1> QED
  BY <1>1, <1>2, <1>5, <1>6, MeterStep

LEMMA SurroundingsKeepAlone ==
    ASSUME TypeOK, AloneInv, Recovered \/ LeaseEnds \/ HotKeyGoes \/ NegativeKeyGoes
    PROVE  AloneInv'
<1>1. UNCHANGED job /\ \A v \in Workers : OfATask(v)' = OfATask(v)
  BY DEF Recovered, LeaseEnds, HotKeyGoes, NegativeKeyGoes, OfATask
<1>2. negKey' = negKey \/ negKey' = None
  BY RemoveIsTyped DEF Recovered, LeaseEnds, HotKeyGoes, NegativeKeyGoes
<1>3. \A t, k : MeterFits(t, k) => MeterFits(t, k)'
  <2>1. CASE Recovered
    <3>1. meter \in Meters
      BY DEF TypeOK, Meters
    <3>2. /\ meter'.on = meter.on /\ meter'.task = meter.task /\ meter'.foreign = meter.foreign
          /\ meter.phase = "recovering" /\ meter'.phase = "recovered"
      BY <2>1, <3>1 DEF Recovered, Meters
    <3> QED
      BY <3>2 DEF MeterFits, PhasesOf, BreakdownPhases, PenetrationPhases
  <2>2. CASE UNCHANGED meter
    BY <2>2 DEF MeterFits
  <2> QED
    BY <2>1, <2>2 DEF LeaseEnds, HotKeyGoes, NegativeKeyGoes
<1>4. \A v \in Workers : UncrossedFits(v)'
  BY <1>1, <1>2, <1>3 DEF AloneInv, UncrossedFits
<1>5. ScopeFits'
  <2>1. CASE LeaseEnds
    <3>1. scope'.expired
      BY <2>1, ScopeKind DEF LeaseEnds, Scopes
    <3> QED
      BY <3>1 DEF ScopeFits, Isolated
  <2>2. CASE UNCHANGED scope
    BY <1>1, <1>2, <1>3, <2>2 DEF AloneInv, ScopeFits, Isolated, OfTheScope
  <2> QED
    BY <2>1, <2>2 DEF Recovered, HotKeyGoes, NegativeKeyGoes
<1> QED
  BY <1>4, <1>5 DEF AloneInv

LEMMA NextKeepsAlone ==
    ASSUME TypeOK, LockInv, AloneInv, [Next]_vars PROVE AloneInv'
<1>1. CASE UNCHANGED vars
  BY <1>1 DEF vars, AloneInv, ScopeFits, Isolated, MeterFits, OfATask, OfTheScope, UncrossedFits
<1>2. ASSUME NEW w \in Workers, Step(w) PROVE AloneInv'
  BY <1>2, PlainStepsKeepAlone, WriteNegativeKeepsAlone, ResetMeterKeepsAlone,
     PublishScopeKeepsAlone, MeterStepsKeepAlone DEF Step
<1> QED
  BY <1>1, <1>2, RequestKeepsAlone, SurroundingsKeepAlone DEF Next

-----------------------------------------------------------------------------
(* Theorems *)

LEMMA InitIsInductive == ASSUME Init PROVE IInv
<1>1. TypeOK
  <2>1. hotKey \in BOOLEAN
    BY Zenon DEF Init
  <2>2. meter \in Meters
    BY DEF Init, Meters
  <2>3. job \in [Workers -> Jobs]
    BY DEF Init, Jobs
  <2>4. fillMu \in [Keys -> Workers \cup {None}]
    BY DEF Init
  <2>5. fills \in [Keys -> 0..2]
    <3>1. fills = [k \in Keys |-> 0]
      BY Zenon DEF Init
    <3> QED
      BY <3>1
  <2>6. faults \in 0..MaxFaults
    <3>1. faults = 0
      BY Zenon DEF Init
    <3> QED
      BY <3>1, ConstantsAssumption
  <2>7. scope \in Scopes \cup {None} /\ negKey \in Tasks \cup {None}
    BY DEF Init
  <2> QED
    BY <2>1, <2>2, <2>3, <2>4, <2>5, <2>6, <2>7 DEF TypeOK, Meters
<1>2. LockInv
  BY DEF Init, LockInv, Own, LockFits, FillFits
<1>3. AloneInv
  BY DEF Init, AloneInv, ScopeFits, Isolated, UncrossedFits
<1> QED
  BY <1>1, <1>2, <1>3 DEF IInv

\* The inductive invariant: types, locks and fills, and who has the experiment.
THEOREM ExperimentsStayInOrder == Spec => []IInv
<1>1. IInv /\ [Next]_vars => IInv'
  BY NextIsTyped, NextKeepsLocks, NextKeepsAlone DEF IInv, LockInv
<1> QED
  BY <1>1, InitIsInductive, PTL DEF Spec

\* Every variable keeps its type.
THEOREM ExperimentTypeCorrect == Spec => []TypeOK
BY ExperimentsStayInOrder, PTL DEF IInv

\* One fill per miss: since a key last went away, at most one read that looked
\* at it again under the lock has written it.
THEOREM StampedesAreMerged == Spec => []StampedeIsMerged
<1>1. IInv => StampedeIsMerged
  BY DEF IInv, LockInv, FillFits, StampedeIsMerged
<1> QED
  BY <1>1, ExperimentsStayInOrder, PTL

\* A task whose prepare met no other call keeps meter and negative key to itself
\* until its lease ends.
THEOREM TasksAreIsolated == Spec => []IsolatedTask
<1>1. IInv => IsolatedTask
  BY DEF IInv, AloneInv, ScopeFits, Isolated, MeterFits, PhasesOf, IsolatedTask, Vacant
<1> QED
  BY <1>1, ExperimentsStayInOrder, PTL

\* The holder of a lock is past it and on its way to give it back.
THEOREM LocksAlwaysComeBack == Spec => []LocksComeBack
<1>1. IInv => LocksComeBack
  BY DEF IInv, LockInv, LockFits, MayHold, InLock, LocksComeBack
<1> QED
  BY <1>1, ExperimentsStayInOrder, PTL

=============================================================================
