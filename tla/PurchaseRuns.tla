---------------------------- MODULE PurchaseRuns ----------------------------
(***************************************************************************)
(* The reports of the purchase experiment (service/purchase_experiment.go):*)
(* RunExperiment collects the results of its purchases and stores          *)
(* snapshots of the run in memory, GetRun mixes a copy of the snapshot     *)
(* with the orders and events it reads from MySQL and stores the mixture,  *)
(* and a flag keeps the publisher away while an outbox batch is under way. *)
(*                                                                         *)
(* What a purchase does to stock and cache, and how an event travels, is   *)
(* the subject of PurchaseOutbox: here a purchase is one step with the     *)
(* result it reports, an event is pending, claimed or settled.  One batch  *)
(* id, run again when the caller repeats it.                               *)
(***************************************************************************)
EXTENDS Naturals, FiniteSets

CONSTANTS
    Requests,    \* the child requests of the batch
    Pages,       \* callers of GetRun
    Self,        \* the GetRun with which RunExperiment ends
    StoreEvery,  \* a snapshot is stored after every so many results
    MaxRuns, MaxResets,
    MaxFaults,   \* failed calls and crashes
    None

ASSUME ConstantsAssumption ==
    /\ IsFiniteSet(Requests) /\ Requests # {}
    /\ Self \notin Pages
    /\ StoreEvery \in Nat \ {0}
    /\ MaxRuns \in Nat /\ MaxResets \in Nat /\ MaxFaults \in Nat

VARIABLES
    orders,   \* purchase_lab_orders: the strategy of each order, or None
    event,    \* purchase_lab_outbox
    runner,   \* the step of RunExperiment
    run,      \* its local PurchaseExperimentRun
    result,   \* per request: the result on its way to the collecting loop
    stored,   \* PurchaseLabService.runs[requestID], or None
    getter,   \* the calls of GetRun
    batchActive,  \* publisherBatchActive
    scanning,     \* the publisher is in publishAvailableOutbox
    spent,    \* runs, resets and faults so far
    blame     \* what the last run's final snapshot was lost to

vars == <<orders, event, runner, run, result, stored, getter,
          batchActive, scanning, spent, blame>>

Strategies == {"sync", "outbox"}
Results    == {"bought", "duplicate", "soldOut", "error", "boughtNotDeleted"}
Getters    == Pages \cup {Self}
N          == Cardinality(Requests)

\* `fresh' and `era' are history: the events of the report were read after the
\* run had ended, and how many resets had been when the run began.
Runs == [strategy: Strategies \cup {None}, status: {"running", "failed", "waiting", "completed"},
         critical: BOOLEAN, processed: 0..N, ok: 0..N, errors: 0..N,
         fresh: BOOLEAN, era: 0..MaxResets, rebuilt: BOOLEAN]

ASSUME NoneAssumption == None \notin Strategies /\ None \notin Runs

NoRun == [strategy |-> None, status |-> "running", critical |-> FALSE, processed |-> 0,
          ok |-> 0, errors |-> 0, fresh |-> FALSE, era |-> 0, rebuilt |-> FALSE]

EventStates == {"none", "pending", "claimed", "completed", "cancelled"}
Calls == [pc: {"idle", "read", "store"}, seen: SUBSET EventStates, orders: 0..N,
          by: Strategies \cup {None}, fresh: BOOLEAN, stale: BOOLEAN, copy: Runs]
IdleGetter  == [pc |-> "idle", seen |-> {}, orders |-> 0, by |-> None,
                fresh |-> FALSE, stale |-> FALSE, copy |-> NoRun]

TypeOK ==
    /\ orders \in [Requests -> Strategies \cup {None}]
    /\ event \in [Requests -> EventStates]
    /\ runner \in {"idle", "collect", "queries", "inspect", "final", "release", "report"}
    /\ run \in Runs
    /\ result \in [Requests -> Results \cup {"waiting", "none"}]
    /\ stored \in Runs \cup {None}
    /\ getter \in [Getters -> Calls]
    /\ batchActive \in BOOLEAN /\ scanning \in BOOLEAN
    /\ spent \in [run: 0..MaxRuns, reset: 0..MaxResets, fault: 0..MaxFaults]
    /\ blame \subseteq {"inspection", "overtaken"}

Init ==
    /\ orders = [r \in Requests |-> None]
    /\ event = [r \in Requests |-> "none"]
    /\ runner = "idle"
    /\ run = NoRun
    /\ result = [r \in Requests |-> "none"]
    /\ stored = None
    /\ getter = [v \in Getters |-> IdleGetter]
    /\ batchActive = FALSE /\ scanning = FALSE
    /\ spent = [run |-> 0, reset |-> 0, fault |-> 0]
    /\ blame = {}

\* The copies callers of GetRun hold are older than what is stored now.
Overtaken == [v \in Getters |->
                IF getter[v].pc = "store" THEN [getter[v] EXCEPT !.stale = TRUE] ELSE getter[v]]
StoreRun == stored' = run' /\ getter' = Overtaken /\ blame' = {}

Fault == spent.fault < MaxFaults /\ spent' = [spent EXCEPT !.fault = @ + 1]

mysql == <<orders, event>>
publisher == <<batchActive, scanning>>

-----------------------------------------------------------------------------
(* RunExperiment.  PurchaseLabService.mu admits one at a time, and no reset *)
(* beside it.                                                               *)

\* The baseline is read, the publisher held, and the first snapshot stored.
StartRun(strategy) ==
    /\ runner = "idle" /\ spent.run < MaxRuns
    /\ spent' = [spent EXCEPT !.run = @ + 1]
    /\ runner' = "collect"
    /\ run' = [NoRun EXCEPT !.strategy = strategy, !.era = spent.reset]
    /\ result' = [r \in Requests |-> "waiting"]
    /\ stored' = run'
    /\ batchActive' = (strategy = "outbox")
    /\ getter' = [v \in Getters |-> [Overtaken[v] EXCEPT !.fresh = FALSE, !.copy.fresh = FALSE]]
    /\ blame' = {}
    /\ UNCHANGED <<mysql, scanning>>

Insert(r) ==
    /\ orders[r] = None
    /\ run.strategy = "outbox" => event[r] = "none"
    /\ orders' = [orders EXCEPT ![r] = run.strategy]
    /\ event' = IF run.strategy = "outbox" THEN [event EXCEPT ![r] = "pending"] ELSE event

\* executePurchase: the transaction and, for the synchronous strategy, the DEL.
Purchase(r) ==
    /\ result[r] = "waiting" /\ runner = "collect"
    /\ \E outcome \in Results :
         /\ result' = [result EXCEPT ![r] = outcome]
         /\ \/ outcome = "bought" /\ Insert(r) /\ UNCHANGED spent
            \/ outcome = "duplicate" /\ orders[r] = run.strategy /\ UNCHANGED <<mysql, spent>>
            \/ outcome = "soldOut" /\ orders[r] = None /\ UNCHANGED <<mysql, spent>>
            \* the order has the other strategy, or only its event survived a reset
            \/ /\ outcome = "error"
               /\ IF orders[r] = None
                    THEN run.strategy = "outbox" /\ event[r] # "none"
                    ELSE orders[r] # run.strategy
               /\ UNCHANGED <<mysql, spent>>
            \/ outcome = "error" /\ Fault /\ (Insert(r) \/ UNCHANGED mysql)
            \/ /\ outcome = "boughtNotDeleted" /\ run.strategy = "sync" /\ Fault
               /\ Insert(r) \/ (orders[r] = run.strategy /\ UNCHANGED mysql)
    /\ UNCHANGED <<runner, run, stored, getter, publisher, blame>>

\* Weakened: a repeated purchase counts neither as bought nor as an error.
CountedOnce(outcome) ==
    [run EXCEPT
       !.processed = @ + 1,
       !.ok = IF outcome \in {"bought", "boughtNotDeleted"} THEN @ + 1 ELSE @,
       !.errors = IF outcome \in {"error", "boughtNotDeleted"} THEN @ + 1 ELSE @]

Counted(outcome) ==
    [run EXCEPT
       !.processed = @ + 1,
       !.ok = IF outcome \in {"bought", "duplicate", "boughtNotDeleted"} THEN @ + 1 ELSE @,
       !.errors = IF outcome \in {"error", "boughtNotDeleted"} THEN @ + 1 ELSE @]

\* Progress goes to the page before the run ends.
Collect(r) ==
    /\ runner = "collect" /\ result[r] \in Results
    /\ result' = [result EXCEPT ![r] = "none"]
    /\ run' = Counted(result[r])
    /\ IF run'.processed % StoreEvery = 0 \/ run'.processed = N
         THEN StoreRun ELSE UNCHANGED <<stored, getter, blame>>
    /\ runner' = IF run'.processed = N THEN "queries" ELSE "collect"
    /\ UNCHANGED <<mysql, publisher, spent>>

\* executeQueryBatch: one failed query fails the batch of samples.
AwaitQueries ==
    /\ runner = "queries" /\ runner' = "inspect"
    /\ \/ UNCHANGED <<run, spent>>
       \/ Fault /\ run' = [run EXCEPT !.status = "failed"]
    /\ UNCHANGED <<mysql, result, stored, getter, publisher, blame>>

\* Weakened: the early return leaves the publisher held.
InspectFinalStateHeld ==
    /\ runner = "inspect"
    /\ \/ runner' = "final" /\ UNCHANGED <<spent, blame>>
       \/ Fault /\ runner' = "idle" /\ blame' = blame \cup {"inspection"}
    /\ UNCHANGED <<mysql, run, result, stored, getter, batchActive, scanning>>

\* A failed look at the final state ends the run without a final snapshot; the
\* deferred function still releases the publisher.
InspectFinalState ==
    /\ runner = "inspect"
    /\ \/ runner' = "final" /\ UNCHANGED <<spent, batchActive, blame>>
       \/ /\ Fault /\ runner' = "idle"
          /\ batchActive' = FALSE
          /\ blame' = blame \cup {"inspection"}
    /\ UNCHANGED <<mysql, run, result, stored, getter, scanning>>

\* Weakened: the final snapshot is not marked as such.
StoreFinalUnmarked ==
    /\ runner = "final" /\ runner' = "release"
    /\ run' = [run EXCEPT !.status = IF run.strategy = "sync" THEN "completed" ELSE "waiting"]
    /\ StoreRun
    /\ UNCHANGED <<mysql, result, publisher, spent>>

StoreFinal ==
    /\ runner = "final" /\ runner' = "release"
    /\ run' = [run EXCEPT !.critical = TRUE,
                 !.status = IF @ = "failed" \/ run.errors > 0 THEN "failed"
                            ELSE IF run.strategy = "sync" THEN "completed" ELSE "waiting"]
    /\ StoreRun
    /\ UNCHANGED <<mysql, result, publisher, spent>>

ReleasePublisher ==
    /\ runner = "release" /\ runner' = "report"
    /\ batchActive' = FALSE
    /\ UNCHANGED <<mysql, run, result, stored, getter, scanning, spent, blame>>

-----------------------------------------------------------------------------
(* GetRun *)

MayCall(v) == v = Self => runner = "report"
Return(v)  == /\ getter' = [getter EXCEPT ![v] = IdleGetter]
              /\ runner' = IF v = Self THEN "idle" ELSE runner

\* PurchaseBatchRecords.  The order found first names the strategy of a run
\* the memory does not know.
ReadRecords(v) ==
    LET found == {r \in Requests : orders[r] # None}
    IN  /\ getter[v].pc = "idle" /\ MayCall(v)
        /\ \/ /\ \E by \in IF found = {} THEN {None} ELSE {orders[r] : r \in found} :
                   getter' = [getter EXCEPT ![v] =
                     [IdleGetter EXCEPT !.pc = "read",
                        !.seen = {event[r] : r \in Requests} \ {"none"},
                        !.orders = Cardinality(found), !.by = by, !.copy.era = spent.reset,
                        !.fresh = runner \in {"idle", "report"}]]
              /\ UNCHANGED <<runner, spent>>
           \/ Fault /\ Return(v)
        /\ UNCHANGED <<mysql, run, result, stored, publisher, blame>>

\* Weakened: the events are counted on top of the orders they belong to.
RebuiltTwice(g) == [NoRun EXCEPT !.strategy = g.by, !.critical = g.orders > 0,
                      !.processed = g.orders, !.ok = g.orders + Cardinality(g.seen),
                      !.era = g.copy.era, !.rebuilt = TRUE]

\* Without a snapshot, one is made up of the orders.
Rebuilt(g) == [NoRun EXCEPT !.strategy = g.by, !.critical = g.orders > 0,
                 !.processed = g.orders, !.ok = g.orders,
                 !.era = g.copy.era, !.rebuilt = TRUE]

\* Weakened: an event that has been published counts as completed.
RefreshedEarly(copy, g) ==
    [copy EXCEPT
       !.fresh = g.fresh,
       !.status = IF copy.strategy # "outbox"
                    THEN IF @ = "failed" THEN @ ELSE "completed"
                  ELSE IF "pending" \notin g.seen THEN "completed" ELSE "waiting"]

\* refreshRunOutboxState.  A failed outbox run is waiting or completed again.
Refreshed(copy, g) ==
    [copy EXCEPT
       !.fresh = g.fresh,
       !.status = IF copy.strategy # "outbox"
                    THEN IF @ = "failed" THEN @ ELSE "completed"
                  ELSE IF g.seen = {"completed"} THEN "completed" ELSE "waiting"]

\* The run is copied under the lock and worked on without it.
CopyRun(v) ==
    LET g == getter[v]
        copy == IF stored = None THEN Rebuilt(g) ELSE stored
    IN  /\ g.pc = "read"
        /\ IF stored = None /\ g.orders = 0 /\ g.seen = {}
             THEN Return(v)
             ELSE /\ getter' = [getter EXCEPT ![v].pc = "store",
                        ![v].copy = IF copy.critical THEN Refreshed(copy, g) ELSE copy]
                  /\ UNCHANGED runner
        /\ UNCHANGED <<mysql, run, result, stored, publisher, spent, blame>>

\* storeRun puts the copy back, whatever was stored meanwhile.
StoreCopy(v) ==
    /\ getter[v].pc = "store"
    /\ stored' = getter[v].copy
    /\ blame' = IF getter[v].stale THEN blame \cup {"overtaken"} ELSE blame
    /\ Return(v)
    /\ UNCHANGED <<mysql, run, result, publisher, spent>>

-----------------------------------------------------------------------------
(* The publisher and the consumer, as far as the flag and the reports go.   *)

\* RunOutboxWorker looks at the flag once before a scan.
Scan ==
    /\ ~scanning /\ ~batchActive
    /\ scanning' = TRUE
    /\ UNCHANGED <<mysql, runner, run, result, stored, getter, batchActive, spent, blame>>

Claim(r) ==
    /\ scanning /\ event[r] = "pending"
    /\ event' = [event EXCEPT ![r] = "claimed"]
    /\ UNCHANGED <<orders, runner, run, result, stored, getter, publisher, spent, blame>>

\* Nothing left to claim, or an error that ends the scan.
ScanEnds ==
    /\ scanning /\ scanning' = FALSE
    /\ \/ (\A r \in Requests : event[r] # "pending") /\ UNCHANGED spent
       \/ Fault
    /\ UNCHANGED <<mysql, runner, run, result, stored, getter, batchActive, blame>>

Complete(r) ==
    /\ event[r] = "claimed"
    /\ event' = [event EXCEPT ![r] = "completed"]
    /\ UNCHANGED <<orders, runner, run, result, stored, getter, publisher, spent, blame>>

\* ResetPurchaseExperimentMaterial: orders go, open events are cancelled.
Reset ==
    /\ runner = "idle" /\ spent.reset < MaxResets
    /\ spent' = [spent EXCEPT !.reset = @ + 1]
    /\ orders' = [r \in Requests |-> None]
    /\ event' = [r \in Requests |->
                   IF event[r] \in {"pending", "claimed"} THEN "cancelled" ELSE event[r]]
    /\ UNCHANGED <<runner, run, result, stored, getter, publisher, blame>>

\* Memory is lost; the next start puts claimed events back.
Crash ==
    /\ Fault
    /\ runner' = "idle" /\ run' = NoRun /\ stored' = None
    /\ result' = [r \in Requests |-> "none"]
    /\ getter' = [v \in Getters |-> IdleGetter]
    /\ batchActive' = FALSE /\ scanning' = FALSE
    /\ event' = [r \in Requests |-> IF event[r] = "claimed" THEN "pending" ELSE event[r]]
    /\ blame' = {}
    /\ UNCHANGED orders

Next ==
    \/ \E s \in Strategies : StartRun(s)
    \/ \E r \in Requests : Purchase(r) \/ Collect(r) \/ Claim(r) \/ Complete(r)
    \/ AwaitQueries \/ InspectFinalState \/ StoreFinal \/ ReleasePublisher
    \/ \E v \in Getters : ReadRecords(v) \/ CopyRun(v) \/ StoreCopy(v)
    \/ Scan \/ ScanEnds \/ Reset \/ Crash

Spec == Init /\ [][Next]_vars

-----------------------------------------------------------------------------
(* Properties *)

\* The publisher is held only while an experiment is under way: no error path
\* of a run leaves the flag behind, which would stop every later event.
PublisherIsReleased ==
    batchActive => runner \notin {"idle", "report"} /\ run.strategy = "outbox"

\* A final report that no older copy has replaced agrees with the ledger: the
\* purchases it counts as bought or repeated have an order, and an order it does
\* not count is one of its errors, whose transaction may have committed all the
\* same or met an older order.
ReportMatchesLedger ==
    IF stored = None THEN TRUE
    ELSE stored.critical /\ stored.era = spent.reset /\ runner \in {"idle", "report"}
           /\ "overtaken" \notin blame =>
           LET made == Cardinality({r \in Requests : orders[r] # None})
           IN  stored.ok <= made /\ made <= stored.ok + stored.errors

\* A report that calls an outbox run completed from events read after the run
\* had ended is right: none of its events is open any more.
CompletedIsTrue ==
    IF stored = None THEN TRUE
    ELSE stored.status = "completed" /\ stored.strategy = "outbox" /\ stored.fresh
           => \A r \in Requests : event[r] \notin {"pending", "claimed"}

\* A run that has ended and still shows as running was ended by a failed look at
\* the final state, was put together from nothing but the events of a reset
\* batch, or had its final snapshot overwritten by a GetRun that had copied an
\* earlier one; nothing else keeps the page waiting.
UnfinishedHasReason ==
    IF stored = None THEN TRUE
    ELSE runner = "idle" /\ ~stored.critical => blame # {} \/ stored.rebuilt

=============================================================================
