--------------------------- MODULE CacheExperiment ---------------------------
(***************************************************************************)
(* The controlled cache experiments of the archive service                 *)
(* (service/archive_experiment.go, service/archive.go,                     *)
(* metrics/archive_scenario.go): one task at a time holds a scope with a   *)
(* token and a lease; its readers look for the hot key of a material or    *)
(* for the negative key of a material that does not exist; control calls   *)
(* prepare, evict and finish the task; every read is sampled by one meter. *)
(*                                                                         *)
(* A worker is the goroutine of one HTTP request.  It goes on after its    *)
(* client has gone away, which is what the task boundaries have to         *)
(* survive: a finish may outlive the 3 s its caller waits for it, and a    *)
(* read outlives the load generator that sent it.                          *)
(*                                                                         *)
(* Data: the two Redis keys are present or absent (what a present copy     *)
(* holds is the subject of PurchaseOutbox).  Time: a lease ends and a TTL  *)
(* runs out at any moment.                                                 *)
(***************************************************************************)
EXTENDS Naturals, FiniteSets

CONSTANTS
    Tasks,      \* the tokens of the tasks
    Workers,    \* the goroutines that serve requests
    MaxFaults,  \* Redis or MySQL calls that fail
    None

ASSUME ConstantsAssumption ==
    /\ MaxFaults \in Nat
    /\ None \notin Tasks \cup Workers

VARIABLES
    scope,   \* ArchiveService.experiment
    hotKey,  \* the DTO key of the material: present or not
    negKey,  \* the negative key: the task whose reader wrote it, or None
    fillMu,  \* ArchiveService.fillMu: the worker that holds the lock of a key
    meter,   \* the scenario meter
    job,     \* what each worker is doing
    fills,   \* fills that a lock merged, since the key last went away
    faults   \* failed calls so far

vars == <<scope, hotKey, negKey, fillMu, meter, job, fills, faults>>

Keys == {"hot", "missing"}

\* What PrepareExperiment accepts as scenario and protection.
Kinds ==
    [scenario: {"cache-breakdown"}, protection: {"none", "key-mutex"}]
        \cup [scenario: {"cache-penetration"}, protection: {"none", "negative-cache"}]

PublicKind == [scenario |-> "cache-breakdown", protection |-> "key-mutex"]

\* The steps of a read, then those of the control calls.
Places == {"get", "lock", "recheck", "origin", "fill", "done"}
              \cup {"delNegative", "delHot", "reset", "publish", "evict", "record",
                    "verify", "off", "offUnscoped", "delUnscoped"}

BreakdownPhases == {"stable", "evicted", "recovering", "recovered"}
PenetrationPhases == {"protected", "unprotected"}

Idle == [op |-> "idle"]

\* A prepare that shares its time with another call of a task is `crossed';
\* `answered': Redis answered the second look at the key; `rebuilt': the read
\* has written the key.
Jobs == {Idle} \cup [op: {"prepare", "read", "evict", "finish", "public"},
                     task: Tasks \cup {None}, kind: Kinds, at: Places,
                     crossed: BOOLEAN, answered: BOOLEAN, rebuilt: BOOLEAN]

Scopes == [task: Tasks, kind: Kinds, expired: BOOLEAN, crossed: BOOLEAN]

TypeOK ==
    /\ scope \in Scopes \cup {None}
    /\ hotKey \in BOOLEAN
    /\ negKey \in Tasks \cup {None}
    /\ fillMu \in [Keys -> Workers \cup {None}]
    /\ meter \in [on: BOOLEAN, task: Tasks \cup {None}, foreign: BOOLEAN,
                  phase: {""} \cup BreakdownPhases \cup PenetrationPhases]
    /\ job \in [Workers -> Jobs]
    /\ fills \in [Keys -> 0..2]
    /\ faults \in 0..MaxFaults

Init ==
    /\ scope = None
    /\ hotKey \in BOOLEAN
    /\ negKey = None
    /\ fillMu = [k \in Keys |-> None]
    /\ meter = [on |-> FALSE, task |-> None, foreign |-> FALSE, phase |-> ""]
    /\ job = [w \in Workers |-> Idle]
    /\ fills = [k \in Keys |-> 0]
    /\ faults = 0

-----------------------------------------------------------------------------

KeyOf(j) == IF j.kind.scenario = "cache-breakdown" THEN "hot" ELSE "missing"

\* The public read path, the warm-up of a prepare and the repair of a finish
\* always merge their misses; a task's reader does when its protection says so.
Merged(j) == j.op # "read" \/ j.kind.protection # "none"

Vacant    == IF scope = None THEN TRUE ELSE scope.expired
Active(t) == ~Vacant /\ scope.task = t
Taken(t)  == ~Vacant /\ scope.task # t

OfATask(w) == job[w].op \in {"prepare", "read", "evict", "finish"}

\* Every call of a task makes the prepares it runs beside crossed.
Begin(w, op, t, k, at) ==
    LET others == {v \in Workers \ {w} : OfATask(v)}
        new == [op |-> op, task |-> t, kind |-> k, at |-> at,
                crossed |-> others # {}, answered |-> FALSE, rebuilt |-> FALSE]
    IN  job' = [v \in Workers |->
                  IF v = w THEN new
                  ELSE IF job[v].op = "prepare" /\ op # "public"
                         THEN [job[v] EXCEPT !.crossed = TRUE] ELSE job[v]]

At(w, op, at) == job[w].op = op /\ job[w].at = at
Goto(w, at)   == job' = [job EXCEPT ![w].at = at]
End(w)        == job' = [job EXCEPT ![w] = Idle]

Fault == faults < MaxFaults /\ faults' = faults + 1

Release(w) == fillMu' = [k \in Keys |-> IF fillMu[k] = w THEN None ELSE fillMu[k]]
Return(w)  == IF KeyOf(job[w]) = "hot" THEN Release(w) ELSE UNCHANGED fillMu

RemoveHot == hotKey' = FALSE /\ fills' = [fills EXCEPT !["hot"] = 0]
RemoveNegative == negKey' = None /\ fills' = [fills EXCEPT !["missing"] = 0]

-----------------------------------------------------------------------------
(* PrepareExperiment.  The scope is looked at and cleared under the lock,   *)
(* the keys are cleaned and the meter is reset without it, and only then is *)
(* the scope taken, without a second look.                                  *)

PrepareConflict(w, t) ==
    /\ job[w] = Idle
    /\ Taken(t)
    /\ UNCHANGED vars

Prepare(w, t, k) ==
    /\ job[w] = Idle
    /\ ~Taken(t)
    /\ scope' = None
    /\ Begin(w, "prepare", t, k, "delNegative")
    /\ UNCHANGED <<hotKey, negKey, fillMu, meter, fills, faults>>

PrepareDelNegative(w) ==
    /\ At(w, "prepare", "delNegative")
    /\ \/ /\ RemoveNegative
          /\ Goto(w, IF KeyOf(job[w]) = "hot" THEN "delHot" ELSE "reset")
          /\ UNCHANGED faults
       \/ Fault /\ End(w) /\ UNCHANGED <<negKey, fills>>
       \* the DEL of the DTO key of the missing material fails after it
       \/ Fault /\ End(w) /\ RemoveNegative
    /\ UNCHANGED <<scope, hotKey, fillMu, meter>>

\* The warm-up is a plain cached read: it starts at "get".
PrepareDelHot(w) ==
    /\ At(w, "prepare", "delHot")
    /\ \/ RemoveHot /\ Goto(w, "get") /\ UNCHANGED faults
       \/ Fault /\ End(w) /\ UNCHANGED <<hotKey, fills>>
    /\ UNCHANGED <<scope, negKey, fillMu, meter>>

PrepareVerify(w) ==
    /\ At(w, "prepare", "done")
    /\ \/ hotKey /\ Goto(w, "reset") /\ UNCHANGED faults
       \/ ~hotKey /\ End(w) /\ UNCHANGED faults
       \/ Fault /\ End(w)
    /\ UNCHANGED <<scope, hotKey, negKey, fillMu, meter, fills>>

FirstPhase(k) ==
    CASE k.scenario = "cache-breakdown" -> "stable"
      [] k.protection = "negative-cache" -> "protected"
      [] OTHER -> "unprotected"

\* ResetArchiveScenario
ResetMeter(w) ==
    /\ At(w, "prepare", "reset")
    /\ meter' = [on |-> TRUE, task |-> job[w].task, foreign |-> FALSE,
                 phase |-> FirstPhase(job[w].kind)]
    /\ Goto(w, "publish")
    /\ UNCHANGED <<scope, hotKey, negKey, fillMu, fills, faults>>

PublishScope(w) ==
    /\ At(w, "prepare", "publish")
    /\ scope' = [task |-> job[w].task, kind |-> job[w].kind,
                 expired |-> FALSE, crossed |-> job[w].crossed]
    /\ End(w)
    /\ UNCHANGED <<hotKey, negKey, fillMu, meter, fills, faults>>

-----------------------------------------------------------------------------
(* Reads: the task's ReadExperiment, the public ReadCached, the warm-up of  *)
(* a prepare and the repair of a finish are one machine over one key.       *)

ReadRejected(w, t) == job[w] = Idle /\ ~Active(t) /\ UNCHANGED vars

Read(w, t) ==
    /\ job[w] = Idle /\ Active(t)
    /\ Begin(w, "read", t, scope.kind, "get")
    /\ UNCHANGED <<scope, hotKey, negKey, fillMu, meter, fills, faults>>

ReadPublic(w) ==
    /\ job[w] = Idle
    /\ Begin(w, "public", None, PublicKind, "get")
    /\ UNCHANGED <<scope, hotKey, negKey, fillMu, meter, fills, faults>>

\* The first look at the key.  An unprotected penetration does not look at
\* the negative key at all.
Hit(j) == IF KeyOf(j) = "hot" THEN hotKey ELSE negKey # None /\ Merged(j)

\* A failed look is answered from MySQL, or refused, without a lock or a fill.
FirstLook(w) ==
    /\ job[w] # Idle /\ job[w].at = "get"
    /\ \/ /\ Goto(w, IF Hit(job[w]) THEN "done"
                     ELSE IF Merged(job[w]) THEN "lock" ELSE "origin")
          /\ UNCHANGED faults
       \/ Fault /\ Goto(w, "done")
    /\ UNCHANGED <<scope, hotKey, negKey, fillMu, meter, fills>>

Lock(w) ==
    /\ job[w] # Idle /\ job[w].at = "lock"
    /\ fillMu[KeyOf(job[w])] = None
    /\ fillMu' = [fillMu EXCEPT ![KeyOf(job[w])] = w]
    /\ Goto(w, "recheck")
    /\ UNCHANGED <<scope, hotKey, negKey, meter, fills, faults>>

\* Weakened: the key is not looked at again under the lock.
RecheckBlind(w) ==
    /\ job[w] # Idle /\ job[w].at = "recheck"
    /\ job' = [job EXCEPT ![w].at = "origin", ![w].answered = KeyOf(job[w]) = "hot"]
    /\ UNCHANGED <<scope, hotKey, negKey, fillMu, meter, fills, faults>>

\* The double check.  A Redis error sends the cached read to MySQL all the
\* same and ends the read of the missing material.  That read samples before
\* it gives the lock back, the cached read afterwards.
Recheck(w) ==
    /\ job[w] # Idle /\ job[w].at = "recheck"
    /\ \/ /\ Hit(job[w]) /\ Goto(w, "done") /\ Return(w)
          /\ UNCHANGED faults
       \/ /\ ~Hit(job[w])
          /\ job' = [job EXCEPT ![w].at = "origin", ![w].answered = KeyOf(job[w]) = "hot"]
          /\ UNCHANGED <<fillMu, faults>>
       \/ /\ Fault
          /\ Goto(w, IF KeyOf(job[w]) = "hot" THEN "origin" ELSE "done")
          /\ UNCHANGED fillMu
    /\ UNCHANGED <<scope, hotKey, negKey, meter, fills>>

\* Weakened: a failed read of MySQL returns without its lock.
OriginKeepsLock(w) ==
    /\ job[w] # Idle /\ job[w].at = "origin"
    /\ \/ Goto(w, IF KeyOf(job[w]) = "hot" \/ Merged(job[w]) THEN "fill" ELSE "done")
          /\ UNCHANGED faults
       \/ Fault /\ Goto(w, "done")
    /\ UNCHANGED <<scope, hotKey, negKey, fillMu, meter, fills>>

\* The read of MySQL.  Its failure ends a prepare, and a finish that still
\* turns the meter off; without the negative protection the missing material
\* is not written.
Origin(w) ==
    /\ job[w] # Idle /\ job[w].at = "origin"
    /\ \/ /\ Goto(w, IF KeyOf(job[w]) = "hot" \/ Merged(job[w]) THEN "fill" ELSE "done")
          /\ UNCHANGED <<fillMu, faults>>
       \/ /\ Fault /\ Return(w)
          /\ IF job[w].op = "prepare" THEN End(w)
             ELSE job' = [job EXCEPT ![w].answered = FALSE,
                            ![w].at = IF job[w].op = "finish" THEN "off" ELSE "done"]
    /\ UNCHANGED <<scope, hotKey, negKey, meter, fills>>

CountFill(w) ==
    LET k == KeyOf(job[w])
    IN  fills' = IF Merged(job[w]) /\ (k = "hot" => job[w].answered) /\ fills[k] < 2
                   THEN [fills EXCEPT ![k] = @ + 1] ELSE fills

\* A key that cannot be written is only counted; the reader has its answer.
FillHot(w) ==
    /\ job[w] # Idle /\ job[w].at = "fill" /\ KeyOf(job[w]) = "hot"
    /\ \/ /\ hotKey' = TRUE /\ CountFill(w)
          /\ job' = [job EXCEPT ![w].at = "done", ![w].answered = FALSE,
                                  ![w].rebuilt = job[w].op = "read"]
          /\ UNCHANGED faults
       \/ /\ Fault
          /\ job' = [job EXCEPT ![w].at = "done", ![w].answered = FALSE]
          /\ UNCHANGED <<hotKey, fills>>
    /\ Return(w)
    /\ UNCHANGED <<scope, negKey, meter>>

WriteNegative(w) ==
    /\ job[w] # Idle /\ job[w].at = "fill" /\ KeyOf(job[w]) = "missing"
    /\ \/ negKey' = job[w].task /\ CountFill(w) /\ UNCHANGED faults
       \/ Fault /\ UNCHANGED <<negKey, fills>>
    /\ Goto(w, "done")
    /\ UNCHANGED <<scope, hotKey, fillMu, meter>>

\* RecordArchiveScenarioSample: a sample carries no token.
Sample(w) ==
    /\ At(w, "read", "done")
    /\ meter' = IF ~meter.on THEN meter
                ELSE [meter EXCEPT !.foreign = @ \/ job[w].task # meter.task,
                                   !.phase = IF job[w].rebuilt /\ @ = "evicted"
                                               THEN "recovering" ELSE @]
    /\ Release(w) /\ End(w)
    /\ UNCHANGED <<scope, hotKey, negKey, fills, faults>>

PublicDone(w) ==
    /\ At(w, "public", "done")
    /\ End(w)
    /\ UNCHANGED <<scope, hotKey, negKey, fillMu, meter, fills, faults>>

-----------------------------------------------------------------------------
(* EvictExperiment *)

ControlRejected(w, t) == job[w] = Idle /\ ~Active(t) /\ UNCHANGED vars

Evict(w, t) ==
    /\ job[w] = Idle /\ Active(t) /\ scope.kind.scenario = "cache-breakdown"
    /\ Begin(w, "evict", None, PublicKind, "evict")
    /\ UNCHANGED <<scope, hotKey, negKey, fillMu, meter, fills, faults>>

\* Only a DEL that removed the key is recorded; its answer may be lost.
EvictDel(w) ==
    /\ At(w, "evict", "evict")
    /\ \/ hotKey /\ RemoveHot /\ Goto(w, "record") /\ UNCHANGED faults
       \/ ~hotKey /\ End(w) /\ UNCHANGED <<hotKey, fills, faults>>
       \/ Fault /\ End(w) /\ (RemoveHot \/ UNCHANGED <<hotKey, fills>>)
    /\ UNCHANGED <<scope, negKey, fillMu, meter>>

RecordEvicted(w) ==
    /\ At(w, "evict", "record")
    /\ meter' = [meter EXCEPT !.phase = "evicted"]
    /\ End(w)
    /\ UNCHANGED <<scope, hotKey, negKey, fillMu, fills, faults>>

\* Three seconds of hits after the rebuild: a snapshot calls it recovered.
Recovered ==
    /\ meter.phase = "recovering"
    /\ meter' = [meter EXCEPT !.phase = "recovered"]
    /\ UNCHANGED <<scope, hotKey, negKey, fillMu, job, fills, faults>>

-----------------------------------------------------------------------------
(* FinishExperiment.  The scope is given back first; the meter is turned    *)
(* off last, when another task may already own it.                          *)

\* Weakened: the meter is turned off also when the token does not match.
FinishConflictOff(w, t) ==
    /\ job[w] = Idle
    /\ Taken(t)
    /\ Begin(w, "finish", None, scope.kind, "off")
    /\ UNCHANGED <<scope, hotKey, negKey, fillMu, meter, fills, faults>>

FinishConflict(w, t) ==
    /\ job[w] = Idle
    /\ Taken(t)
    /\ UNCHANGED vars

Finish(w, t) ==
    /\ job[w] = Idle /\ Active(t)
    /\ scope' = None
    /\ Begin(w, "finish", None, scope.kind, "delNegative")
    /\ UNCHANGED <<hotKey, negKey, fillMu, meter, fills, faults>>

\* Nothing to finish: the meter goes off and the negative key away all the
\* same, whoever calls.
FinishUnscoped(w, t) ==
    /\ job[w] = Idle
    /\ Vacant
    /\ scope' = None
    /\ Begin(w, "finish", None, PublicKind, "offUnscoped")
    /\ UNCHANGED <<hotKey, negKey, fillMu, meter, fills, faults>>

FinishDelNegative(w) ==
    /\ At(w, "finish", "delNegative")
    /\ \/ /\ RemoveNegative
          /\ Goto(w, IF KeyOf(job[w]) = "hot" THEN "verify" ELSE "off")
          /\ UNCHANGED faults
       \/ Fault /\ Goto(w, "off") /\ UNCHANGED <<negKey, fills>>
    /\ UNCHANGED <<scope, hotKey, fillMu, meter>>

\* A hot key that is away is read back once.
FinishVerify(w) ==
    /\ At(w, "finish", "verify")
    /\ \/ Goto(w, IF hotKey THEN "off" ELSE "get") /\ UNCHANGED faults
       \/ Fault /\ Goto(w, "off")
    /\ UNCHANGED <<scope, hotKey, negKey, fillMu, meter, fills>>

FinishRepaired(w) ==
    /\ At(w, "finish", "done")
    /\ Goto(w, "off")
    /\ UNCHANGED <<scope, hotKey, negKey, fillMu, meter, fills, faults>>

DeactivateMeter(w) ==
    /\ At(w, "finish", "off") \/ At(w, "finish", "offUnscoped")
    /\ meter' = [meter EXCEPT !.on = FALSE]
    /\ IF job[w].at = "off" THEN End(w) ELSE Goto(w, "delUnscoped")
    /\ UNCHANGED <<scope, hotKey, negKey, fillMu, fills, faults>>

FinishDelUnscoped(w) ==
    /\ At(w, "finish", "delUnscoped")
    /\ \/ RemoveNegative /\ UNCHANGED faults
       \/ Fault /\ UNCHANGED <<negKey, fills>>
    /\ End(w)
    /\ UNCHANGED <<scope, hotKey, fillMu, meter>>

-----------------------------------------------------------------------------
(* What happens around the requests.                                        *)

LeaseEnds ==
    /\ ~Vacant
    /\ scope' = [scope EXCEPT !.expired = TRUE]
    /\ UNCHANGED <<hotKey, negKey, fillMu, meter, job, fills, faults>>

\* A TTL, the DEL of a purchase, the reset of the chapter.
HotKeyGoes ==
    /\ hotKey /\ RemoveHot
    /\ UNCHANGED <<scope, negKey, fillMu, meter, job, faults>>

NegativeKeyGoes ==
    /\ negKey # None /\ RemoveNegative
    /\ UNCHANGED <<scope, hotKey, fillMu, meter, job, faults>>

Request(w) ==
    \/ ReadPublic(w)
    \/ \E t \in Tasks :
         \/ \E k \in Kinds : Prepare(w, t, k)
         \/ PrepareConflict(w, t) \/ Read(w, t) \/ ReadRejected(w, t)
         \/ Evict(w, t) \/ ControlRejected(w, t)
         \/ Finish(w, t) \/ FinishConflict(w, t) \/ FinishUnscoped(w, t)

Step(w) ==
    \/ PrepareDelNegative(w) \/ PrepareDelHot(w) \/ PrepareVerify(w)
    \/ ResetMeter(w) \/ PublishScope(w)
    \/ FirstLook(w) \/ Lock(w) \/ Recheck(w) \/ Origin(w)
    \/ FillHot(w) \/ WriteNegative(w)
    \/ Sample(w) \/ PublicDone(w)
    \/ EvictDel(w) \/ RecordEvicted(w)
    \/ FinishDelNegative(w) \/ FinishVerify(w) \/ FinishRepaired(w)
    \/ DeactivateMeter(w) \/ FinishDelUnscoped(w)

Next ==
    \/ \E w \in Workers : Request(w) \/ Step(w)
    \/ Recovered \/ LeaseEnds \/ HotKeyGoes \/ NegativeKeyGoes

Spec == Init /\ [][Next]_vars

-----------------------------------------------------------------------------
(* Properties *)

\* "The first wave of readers does not turn one miss into a breakdown": since
\* a key last went away, at most one read whose double check was answered has
\* written it, whichever mix of task readers, public readers, warm-up and
\* repair was waiting.
StampedeIsMerged == \A k \in Keys : fills[k] <= 1

\* A task whose prepare shared no time with another call of a task owns the
\* experiment until its lease ends, whatever is called meanwhile with other
\* tokens: the meter is on and counts its reads only, shows a phase of its
\* scenario, and the negative key is its own or absent.
IsolatedTask ==
    IF Vacant THEN TRUE ELSE IF scope.crossed THEN TRUE ELSE
        /\ meter.on /\ meter.task = scope.task
        /\ ~meter.foreign
        /\ meter.phase \in (IF scope.kind.scenario = "cache-breakdown"
                              THEN BreakdownPhases ELSE PenetrationPhases)
        /\ negKey \in {None, scope.task}

\* A lock of a key belongs to a request that is past it and on its way to give
\* it back: no failure of Redis or MySQL leaves a lock behind on which the later
\* readers of the key, or a prepare, would wait for ever.
LocksComeBack ==
    \A k \in Keys : fillMu[k] # None =>
        /\ job[fillMu[k]] # Idle
        /\ KeyOf(job[fillMu[k]]) = k
        /\ job[fillMu[k]].at # "lock"

=============================================================================
