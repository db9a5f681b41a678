-------------------------- MODULE PurchaseRunsProofs -------------------------
(***************************************************************************)
(* The reports of the purchase experiment for any number of requests,      *)
(* pages, runs, resets and failures: the publisher's flag, what a final    *)
(* report says of the ledger and of the outbox, and what keeps a report    *)
(* unfinished.                                                             *)
(***************************************************************************)
EXTENDS PurchaseRuns, FiniteSetTheorems, TLAPS

\* The requests the collecting loop has counted, the requests with an order.
Done    == {r \in Requests : result[r] = "none"}
Ordered == {r \in Requests : orders[r] # None}
Made    == Cardinality(Ordered)

\* The loop counts every request once.
Tally ==
  runner = "collect" => /\ run.processed = Cardinality(Done)
                        /\ run.ok <= run.processed /\ run.errors <= run.processed

Shape == TypeOK /\ Tally

\* The last call of a run is its own GetRun; the memory is empty only between
\* runs; a run that collects has its strategy and no final mark yet.
Control ==
  /\ getter[Self].pc # "idle" => runner = "report"
  /\ stored = None => runner = "idle"
  /\ ~run.critical \/ runner \in {"release", "report", "idle"}
  /\ runner = "collect" => run.strategy \in Strategies

Settled == \A r \in Requests : event[r] \notin {"pending", "claimed"}

\* A report that claims to have read the events of an ended run: no run is under
\* way, and if it calls the run completed no event is open. A call that has
\* read them is as right.
FreshCopy(c) ==
  c.fresh => /\ runner \in {"idle", "report"}
             /\ c.status = "completed" /\ c.strategy = "outbox" => Settled
FreshRead(g) ==
  g.fresh => /\ runner \in {"idle", "report"}
             /\ g.pc = "read" /\ g.seen = {"completed"} => Settled

FreshIsTrue ==
  /\ ~run.fresh
  /\ stored # None => FreshCopy(stored)
  /\ \A v \in Getters : FreshRead(getter[v]) /\ FreshCopy(getter[v].copy)

\* A copy that no later snapshot has overtaken.
Live(v) == getter[v].pc = "store" /\ ~getter[v].stale

Ending == runner \in {"release", "report", "idle"}

\* Once the final snapshot is stored, a report without it has its reason.
EndIsMarked ==
  Ending /\ blame = {} =>
    /\ stored # None => stored.critical \/ stored.rebuilt
    /\ \A v \in Getters : Live(v) => getter[v].copy.critical \/ getter[v].copy.rebuilt

\* What a request's result says of its order, and the count of what was counted.
Evidence ==
  runner \in {"collect", "queries", "inspect", "final"} =>
    /\ run.era = spent.reset
    /\ \A r \in Requests :
         /\ result[r] \in {"bought", "duplicate", "boughtNotDeleted"} => r \in Ordered
         /\ result[r] = "soldOut" => r \notin Ordered
    /\ run.ok <= Cardinality(Done \cap Ordered)
    /\ Cardinality(Done \cap Ordered) <= run.ok + run.errors
    /\ runner # "collect" => Done = Requests

\* A final report of the current era is one of a run that is over, and agrees
\* with the ledger.
Faithful(c) ==
  c.critical /\ c.era = spent.reset => Ending /\ c.ok <= Made /\ Made <= c.ok + c.errors

ReportsAreFaithful ==
  /\ stored # None => stored.era <= spent.reset
  /\ \A v \in Getters : getter[v].copy.era <= spent.reset
  /\ \A v \in Getters : stored = None /\ getter[v].pc = "read" /\ getter[v].copy.era = spent.reset
                          => getter[v].orders = Made
  /\ "overtaken" \notin blame => /\ stored # None => Faithful(stored)
                                 /\ \A v \in Getters : Live(v) => Faithful(getter[v].copy)

-----------------------------------------------------------------------------
\* Sets of requests are finite, and no larger than the batch.
LEMMA SetsOfRequests ==
  ASSUME NEW S \in SUBSET Requests
  PROVE  IsFiniteSet(S) /\ Cardinality(S) \in 0 .. N /\ N \in Nat \ {0}
<1>1. IsFiniteSet(S) /\ Cardinality(S) <= N
  BY ConstantsAssumption, FS_Subset DEF N
<1>2. Cardinality(S) \in Nat /\ N \in Nat
  BY <1>1, ConstantsAssumption, FS_CardinalityType DEF N
<1>3. N # 0
  BY ConstantsAssumption, FS_EmptySet DEF N
<1> QED
  BY <1>1, <1>2, <1>3

\* The records a run and a call of GetRun start with have their types.
LEMMA BlankTypes == NoRun \in Runs /\ IdleGetter \in Calls
BY SetsOfRequests, ConstantsAssumption DEF NoRun, Runs, IdleGetter, Calls

\* A call whose copy is overtaken keeps what it read and copied.
LEMMA OvertakenFields ==
  ASSUME TypeOK, NEW v \in Getters
  PROVE  LET g == Overtaken[v]
         IN  /\ g.pc = getter[v].pc /\ g.seen = getter[v].seen /\ g.orders = getter[v].orders
             /\ g.fresh = getter[v].fresh /\ g.copy = getter[v].copy
             /\ g.pc = "store" => g.stale
BY DEF TypeOK, Overtaken, Calls

\* Marking copies as overtaken and taking a snapshot keep the types.
LEMMA OvertakenType == ASSUME TypeOK PROVE Overtaken \in [Getters -> Calls]
<1>1. ASSUME NEW v \in Getters PROVE [getter[v] EXCEPT !.stale = TRUE] \in Calls
  <2>1. getter[v] \in Calls
    BY DEF TypeOK
  <2>. QED
    BY <2>1 DEF Calls
<1> QED
  BY <1>1 DEF TypeOK, Overtaken

\* A new run makes a call's reading old.
LEMMA RestartedFields ==
  ASSUME TypeOK, NEW v \in Getters
  PROVE  LET g == [Overtaken[v] EXCEPT !.fresh = FALSE, !.copy.fresh = FALSE]
         IN  /\ g.pc = getter[v].pc /\ g.orders = getter[v].orders /\ g.seen = getter[v].seen
             /\ ~g.fresh /\ ~g.copy.fresh /\ g.copy.era = getter[v].copy.era
             /\ g.pc = "store" => g.stale
<1>1. \A h \in Calls : LET g == [h EXCEPT !.fresh = FALSE, !.copy.fresh = FALSE]
                        IN  /\ g.pc = h.pc /\ g.orders = h.orders /\ g.seen = h.seen /\ g.stale = h.stale
                            /\ ~g.fresh /\ ~g.copy.fresh /\ g.copy.era = h.copy.era
  BY DEF Calls, Runs
<1> QED
  BY <1>1, OvertakenType, OvertakenFields

LEMMA StoreRunType == ASSUME TypeOK, run' \in Runs, StoreRun
                      PROVE  stored' \in Runs \cup {None} /\ getter' \in [Getters -> Calls] /\ blame' = {}
BY OvertakenType DEF StoreRun

\* What a call of GetRun reads, copies and makes up has its type.
LEMMA ReadType ==
  ASSUME NEW g \in Calls, NEW seen \in SUBSET EventStates, NEW n \in 0 .. N,
         NEW by \in Strategies \cup {None}, NEW era \in 0 .. MaxResets, NEW fresh \in BOOLEAN
  PROVE  [g EXCEPT !.pc = "read", !.seen = seen, !.orders = n, !.by = by,
                   !.copy.era = era, !.fresh = fresh] \in Calls
<1>1. g.copy \in Runs
  BY DEF Calls
<1>2. [g.copy EXCEPT !.era = era] \in Runs
  BY <1>1 DEF Runs
<1> QED
  BY <1>2 DEF Calls

LEMMA RebuiltType == ASSUME NEW g \in Calls PROVE Rebuilt(g) \in Runs
<1>1. /\ g.by \in Strategies \cup {None} /\ g.orders \in 0 .. N /\ (g.orders > 0) \in BOOLEAN
      /\ g.copy.era \in 0 .. MaxResets
  BY SetsOfRequests DEF Calls, Runs
<1>2. \A r \in Runs : [r EXCEPT !.strategy = g.by, !.critical = g.orders > 0,
                 !.processed = g.orders, !.ok = g.orders,
                 !.era = g.copy.era, !.rebuilt = TRUE] \in Runs
  BY <1>1 DEF Runs
<1> QED
  BY <1>2, BlankTypes DEF Rebuilt

LEMMA RebuiltFields == ASSUME NEW g \in Calls
                       PROVE  LET c == Rebuilt(g)
                              IN  /\ ~c.fresh /\ c.rebuilt /\ c.era = g.copy.era
                                  /\ c.ok = g.orders /\ c.errors = 0
BY DEF Rebuilt, NoRun

\* refreshRunOutboxState touches nothing of a report but its status.
LEMMA RefreshedFields ==
  ASSUME NEW c \in Runs, NEW g
  PROVE  LET d == Refreshed(c, g)
         IN  /\ d.fresh = g.fresh /\ d.strategy = c.strategy /\ d.critical = c.critical
             /\ d.era = c.era /\ d.rebuilt = c.rebuilt /\ d.ok = c.ok /\ d.errors = c.errors
             /\ d.status = "completed" /\ d.strategy = "outbox" => g.seen = {"completed"}
BY DEF Refreshed, Runs

LEMMA CopyType == ASSUME NEW g \in Calls, NEW c \in Runs
                  PROVE  [g EXCEPT !.pc = "store", !.copy = c] \in Calls
BY DEF Calls

\* The bounds hold.
LEMMA SpentType ==
  ASSUME TypeOK, \/ UNCHANGED spent \/ Fault
                 \/ spent.run < MaxRuns /\ spent' = [spent EXCEPT !.run = @ + 1]
  PROVE  spent' \in [run: 0..MaxRuns, reset: 0..MaxResets, fault: 0..MaxFaults]
BY ConstantsAssumption DEF TypeOK, Fault

\* The state after the start of the application is well typed.
LEMMA ShapeInit == Init => Shape
<1> SUFFICES ASSUME Init PROVE Shape
  OBVIOUS
<1>1. getter \in [Getters -> Calls] /\ run \in Runs /\ stored = None
  BY BlankTypes DEF Init
<1>2. spent \in [run: 0..MaxRuns, reset: 0..MaxResets, fault: 0..MaxFaults]
  BY ConstantsAssumption DEF Init
<1> QED
  BY <1>1, <1>2 DEF Init, Shape, TypeOK, Tally, EventStates

\* What is collected is one more request, and the report counts it once.
LEMMA CollectShape ==
  ASSUME Shape, NEW r \in Requests, Collect(r)
  PROVE  run' \in Runs /\ Tally'
<1> DEFINE more == Done \cup {r}
<1>1. Done' = more /\ r \notin Done
  BY DEF Shape, TypeOK, Collect, Done, Results
<1>2. IsFiniteSet(Done) /\ Cardinality(Done) \in 0 .. N /\ Cardinality(more) \in 0 .. N
  BY SetsOfRequests DEF Done
<1>3. Cardinality(more) = Cardinality(Done) + 1
  BY <1>1, <1>2, FS_AddElement
<1>4. /\ runner = "collect" /\ run \in Runs
      /\ run.processed = Cardinality(Done) /\ run.ok <= run.processed /\ run.errors <= run.processed
  BY DEF Shape, TypeOK, Tally, Collect
<1>5. run' = Counted(result[r])
  BY DEF Collect
<1>6. /\ run'.processed = Cardinality(more)
      /\ run'.ok \in {run.ok, run.ok + 1} /\ run'.errors \in {run.errors, run.errors + 1}
  BY <1>3, <1>4, <1>5 DEF Counted, Runs
<1>7. run'.ok \in 0 .. N /\ run'.errors \in 0 .. N /\ run'.ok <= run'.processed /\ run'.errors <= run'.processed
  <2>1. run.ok \in Nat /\ run.errors \in Nat /\ run.processed \in Nat /\ N \in Nat
    BY <1>4, SetsOfRequests DEF Runs
  <2> HIDE DEF more
  <2> QED
    BY <1>2, <1>3, <1>4, <1>6, <2>1
<1>8. run' \in Runs
  BY <1>2, <1>4, <1>5, <1>6, <1>7 DEF Counted, Runs
<1> QED
  BY <1>1, <1>6, <1>7, <1>8 DEF Tally

\* Every step of the experiment, of the publisher and of a reader keeps the types.
LEMMA ShapeNext == Shape /\ [Next]_vars => Shape'
<1> SUFFICES ASSUME Shape, [Next]_vars PROVE Shape'
  OBVIOUS
<1>0. N \in Nat \ {0}
  BY SetsOfRequests
<1> USE ConstantsAssumption DEF Shape, TypeOK, EventStates, Results, Fault, mysql, publisher
<1>1. ASSUME NEW s \in Strategies, StartRun(s) PROVE Shape'
  <2>1. run' \in Runs /\ runner' = "collect"
    BY <1>1, BlankTypes DEF StartRun, NoRun, Runs
  <2>2. getter' \in [Getters -> Calls]
    <3>1. \A g \in Calls : [g EXCEPT !.fresh = FALSE, !.copy.fresh = FALSE] \in Calls
      BY DEF Calls, Runs
    <3> QED
      BY <1>1, <3>1, OvertakenType DEF StartRun
  <2>3. Tally'
    <3>1. Done' = {} /\ run'.processed = 0 /\ run'.ok = 0 /\ run'.errors = 0
      BY <1>1 DEF StartRun, Done, NoRun
    <3> QED
      BY <3>1, FS_EmptySet DEF Tally
  <2>4. spent' \in [run: 0..MaxRuns, reset: 0..MaxResets, fault: 0..MaxFaults]
    BY <1>1, SpentType DEF StartRun
  <2>5. result' \in [Requests -> Results \cup {"waiting", "none"}] /\ blame' \subseteq {"inspection", "overtaken"}
        /\ batchActive' \in BOOLEAN /\ stored' \in Runs
    BY <1>1, <2>1 DEF StartRun
  <2> QED
    BY <1>1, <2>1, <2>2, <2>3, <2>4, <2>5 DEF StartRun
<1>2. ASSUME NEW r \in Requests, Purchase(r) PROVE Shape'
  <2>1. Done' = Done
    BY <1>2 DEF Purchase, Done
  <2>2. orders' \in [Requests -> Strategies \cup {None}] /\ event' \in [Requests -> EventStates]
    BY <1>2 DEF Purchase, Insert, Runs
  <2>3. result' \in [Requests -> Results \cup {"waiting", "none"}]
    BY <1>2 DEF Purchase
  <2>4. spent' \in [run: 0..MaxRuns, reset: 0..MaxResets, fault: 0..MaxFaults]
    BY <1>2 DEF Purchase
  <2> QED
    BY <1>2, <2>1, <2>2, <2>3, <2>4 DEF Purchase, Tally
<1>3. ASSUME NEW r \in Requests, Collect(r) PROVE Shape'
  <2>1. run' \in Runs /\ Tally'
    BY <1>3, CollectShape
  <2>2. stored' \in Runs \cup {None} /\ getter' \in [Getters -> Calls] /\ blame' \subseteq {"inspection", "overtaken"}
    BY <1>3, <2>1, StoreRunType DEF Collect
  <2> QED
    BY <1>3, <2>1, <2>2 DEF Collect
<1>4. ASSUME NEW r \in Requests, Claim(r) PROVE Shape'
  BY <1>4 DEF Claim, Tally, Done
<1>5. ASSUME NEW r \in Requests, Complete(r) PROVE Shape'
  BY <1>5 DEF Complete, Tally, Done
<1>6. ASSUME AwaitQueries PROVE Shape'
  BY <1>6 DEF AwaitQueries, Tally, Runs
<1>7. ASSUME InspectFinalState PROVE Shape'
  <2>1. spent' \in [run: 0..MaxRuns, reset: 0..MaxResets, fault: 0..MaxFaults]
    BY <1>7 DEF InspectFinalState
  <2>2. blame' \subseteq {"inspection", "overtaken"}
    BY <1>7 DEF InspectFinalState
  <2> QED
    BY <1>7, <2>1, <2>2 DEF InspectFinalState, Tally
<1>8. ASSUME StoreFinal PROVE Shape'
  <2>1. run' \in Runs
    BY <1>8 DEF StoreFinal, Runs
  <2> QED
    BY <1>8, <2>1, StoreRunType DEF StoreFinal, Tally
<1>9. ASSUME ReleasePublisher PROVE Shape'
  BY <1>9 DEF ReleasePublisher, Tally
<1>10. ASSUME NEW v \in Getters, ReadRecords(v) PROVE Shape'
  <2> DEFINE found == {r \in Requests : orders[r] # None}
  <2>1. Cardinality(found) \in 0 .. N
    BY SetsOfRequests
  <2>2. getter' \in [Getters -> Calls]
    <3>1. CASE Fault /\ Return(v)
      BY <3>1, BlankTypes DEF Return
    <3>2. CASE \E by \in IF found = {} THEN {None} ELSE {orders[r] : r \in found} :
                   getter' = [getter EXCEPT ![v] =
                     [IdleGetter EXCEPT !.pc = "read",
                        !.seen = {event[r] : r \in Requests} \ {"none"},
                        !.orders = Cardinality(found), !.by = by, !.copy.era = spent.reset,
                        !.fresh = runner \in {"idle", "report"}]]
      <4>1. PICK by \in Strategies \cup {None} :
                 getter' = [getter EXCEPT ![v] =
                     [IdleGetter EXCEPT !.pc = "read",
                        !.seen = {event[r] : r \in Requests} \ {"none"},
                        !.orders = Cardinality(found), !.by = by, !.copy.era = spent.reset,
                        !.fresh = runner \in {"idle", "report"}]]
        <5>1. (IF found = {} THEN {None} ELSE {orders[r] : r \in found}) \subseteq Strategies \cup {None}
          BY DEF Shape, TypeOK
        <5> QED
          BY <3>2, <5>1
      <4>2. [IdleGetter EXCEPT !.pc = "read",
                        !.seen = {event[r] : r \in Requests} \ {"none"},
                        !.orders = Cardinality(found), !.by = by, !.copy.era = spent.reset,
                        !.fresh = runner \in {"idle", "report"}] \in Calls
        <5>1. {event[r] : r \in Requests} \ {"none"} \subseteq EventStates /\ spent.reset \in 0 .. MaxResets
          OBVIOUS
        <5> DEFINE seen == {event[r] : r \in Requests} \ {"none"}
                   fresh == runner \in {"idle", "report"}
                   n == Cardinality(found)
        <5>2. IdleGetter \in Calls /\ seen \in SUBSET EventStates /\ n \in 0 .. N /\ fresh \in BOOLEAN
          BY <2>1, <5>1, BlankTypes
        <5>3. [IdleGetter EXCEPT !.pc = "read", !.seen = seen, !.orders = n, !.by = by,
                                 !.copy.era = spent.reset, !.fresh = fresh] \in Calls
          <6> HIDE DEF seen, fresh, n, found, EventStates
          <6> QED
            BY <5>1, <5>2, ReadType
        <5> QED
          BY <5>3
      <4> QED
        BY <4>1, <4>2
    <3> QED
      BY <1>10, <3>1, <3>2 DEF ReadRecords
  <2>3. spent' \in [run: 0..MaxRuns, reset: 0..MaxResets, fault: 0..MaxFaults]
    BY <1>10, SpentType DEF ReadRecords
  <2>4. runner' \in {runner, "idle"}
    BY <1>10 DEF ReadRecords, Return
  <2> QED
    BY <1>10, <2>2, <2>3, <2>4 DEF ReadRecords, Tally, Done
<1>11. ASSUME NEW v \in Getters, CopyRun(v) PROVE Shape'
  <2> DEFINE copy == IF stored = None THEN Rebuilt(getter[v]) ELSE stored
  <2>1. copy \in Runs
    BY RebuiltType
  <2>2. Refreshed(copy, getter[v]) \in Runs
    <3> HIDE DEF copy
    <3> QED
      BY <2>1 DEF Refreshed, Runs, Calls
  <2>3. getter' \in [Getters -> Calls]
    <3>1. CASE Return(v)
      BY <3>1, BlankTypes DEF Return
    <3>2. CASE getter' = [getter EXCEPT ![v].pc = "store",
                        ![v].copy = IF copy.critical THEN Refreshed(copy, getter[v]) ELSE copy]
      <4> DEFINE new == IF copy.critical THEN Refreshed(copy, getter[v]) ELSE copy
      <4>1. new \in Runs
        BY <2>1, <2>2
      <4>2. getter' = [getter EXCEPT ![v].pc = "store", ![v].copy = new]
        BY <3>2
      <4> HIDE DEF new, copy
      <4> QED
        BY <4>1, <4>2, CopyType
    <3> QED
      BY <1>11, <3>1, <3>2 DEF CopyRun
  <2>4. runner' \in {runner, "idle"}
    BY <1>11 DEF CopyRun, Return
  <2> QED
    BY <1>11, <2>3, <2>4 DEF CopyRun, Tally, Done
<1>12. ASSUME NEW v \in Getters, StoreCopy(v) PROVE Shape'
  <2>1. stored' \in Runs /\ getter' \in [Getters -> Calls]
    BY <1>12, BlankTypes DEF StoreCopy, Return, Calls
  <2> QED
    BY <1>12, <2>1 DEF StoreCopy, Return, Tally, Done
<1>13. ASSUME Scan PROVE Shape'
  BY <1>13 DEF Scan, Tally, Done
<1>14. ASSUME ScanEnds PROVE Shape'
  <2>1. spent' \in [run: 0..MaxRuns, reset: 0..MaxResets, fault: 0..MaxFaults]
    BY <1>14 DEF ScanEnds
  <2> QED
    BY <1>14, <2>1 DEF ScanEnds, Tally, Done
<1>15. ASSUME Reset PROVE Shape'
  BY <1>15 DEF Reset, Tally, Done
<1>16. ASSUME Crash PROVE Shape'
  <2>1. spent' \in [run: 0..MaxRuns, reset: 0..MaxResets, fault: 0..MaxFaults]
    BY <1>16 DEF Crash
  <2> QED
    BY <1>16, <2>1, BlankTypes DEF Crash, Tally
<1>17. ASSUME UNCHANGED vars PROVE Shape'
  BY <1>17 DEF vars, Tally, Done
<1>. QED
  BY <1>1, <1>2, <1>3, <1>4, <1>5, <1>6, <1>7, <1>8, <1>9, <1>10, <1>11, <1>12, <1>13, <1>14, <1>15, <1>16, <1>17 DEF Next

\* The control of a run survives every step: the deferred function clears the flag
\* on the way out of an inspection that failed (purchase_experiment.go:300-303),
\* and only the run's own GetRun leaves the last stage.
LEMMA ControlNext == Shape /\ Control /\ PublisherIsReleased /\ [Next]_vars => (Control /\ PublisherIsReleased)'
<1> SUFFICES ASSUME Shape, Control, PublisherIsReleased, [Next]_vars PROVE (Control /\ PublisherIsReleased)'
  OBVIOUS
<1>0. Shape'
  BY ShapeNext
<1>a. Overtaken[Self].pc = getter[Self].pc
  BY DEF Shape, TypeOK, Overtaken, Getters, Calls
<1> USE ConstantsAssumption DEF Shape, TypeOK, Control, PublisherIsReleased, Getters, IdleGetter, Calls, Runs,
        Fault, mysql, publisher
<1>1. ASSUME NEW s \in Strategies, StartRun(s) PROVE (Control /\ PublisherIsReleased)'
  <2>1. getter'[Self].pc = getter[Self].pc /\ getter[Self].pc = "idle"
    BY <1>1, <1>a, RestartedFields DEF StartRun
  <2>2. stored' # None
    BY <1>1, <1>0, NoneAssumption DEF StartRun
  <2> QED
    BY <1>1, <2>1, <2>2 DEF StartRun, NoRun
<1>2. ASSUME NEW r \in Requests, Purchase(r) PROVE (Control /\ PublisherIsReleased)'
  BY <1>2 DEF Purchase
<1>3. ASSUME NEW r \in Requests, Collect(r) PROVE (Control /\ PublisherIsReleased)'
  <2>1. getter'[Self].pc = getter[Self].pc /\ getter[Self].pc = "idle"
    BY <1>3, <1>a DEF Collect, StoreRun
  <2>2. stored' # None
    BY <1>0, <1>3, NoneAssumption DEF Collect, StoreRun
  <2>3. run'.strategy = run.strategy /\ run'.critical = run.critical
    BY <1>3 DEF Collect, Counted
  <2> QED
    BY <1>3, <2>1, <2>2, <2>3 DEF Collect
<1>4. ASSUME NEW r \in Requests, Claim(r) PROVE (Control /\ PublisherIsReleased)'
  BY <1>4 DEF Claim
<1>5. ASSUME NEW r \in Requests, Complete(r) PROVE (Control /\ PublisherIsReleased)'
  BY <1>5 DEF Complete
<1>6. ASSUME AwaitQueries PROVE (Control /\ PublisherIsReleased)'
  BY <1>6 DEF AwaitQueries
<1>7. ASSUME InspectFinalState PROVE (Control /\ PublisherIsReleased)'
  BY <1>7 DEF InspectFinalState
<1>8. ASSUME StoreFinal PROVE (Control /\ PublisherIsReleased)'
  <2>1. getter'[Self].pc = getter[Self].pc /\ getter[Self].pc = "idle"
    BY <1>8, <1>a DEF StoreFinal, StoreRun
  <2>2. stored' # None
    BY <1>0, <1>8, NoneAssumption DEF StoreFinal, StoreRun
  <2> QED
    BY <1>8, <2>1, <2>2 DEF StoreFinal
<1>9. ASSUME ReleasePublisher PROVE (Control /\ PublisherIsReleased)'
  BY <1>9 DEF ReleasePublisher
<1>10. ASSUME NEW v \in Getters, ReadRecords(v) PROVE (Control /\ PublisherIsReleased)'
  <2>1. CASE v = Self
    <3>1. runner = "report" /\ getter[Self].pc = "idle"
      BY <1>10, <2>1 DEF ReadRecords, MayCall
    <3>2. CASE Return(v)
      BY <1>10, <2>1, <3>1, <3>2 DEF ReadRecords, Return
    <3>3. CASE ~Return(v)
      BY <1>10, <2>1, <3>1, <3>3 DEF ReadRecords
    <3> QED
      BY <3>2, <3>3
  <2>2. CASE v # Self
    <3>1. getter'[Self] = getter[Self] /\ runner' = runner
      BY <1>10, <2>2 DEF ReadRecords, Return
    <3> QED
      BY <1>10, <3>1 DEF ReadRecords
  <2> QED
    BY <2>1, <2>2
<1>11. ASSUME NEW v \in Getters, CopyRun(v) PROVE (Control /\ PublisherIsReleased)'
  BY <1>11 DEF CopyRun, Return
<1>12. ASSUME NEW v \in Getters, StoreCopy(v) PROVE (Control /\ PublisherIsReleased)'
  <2>1. stored' # None
    BY <1>12, NoneAssumption DEF StoreCopy
  <2> QED
    BY <1>12, <2>1 DEF StoreCopy, Return
<1>13. ASSUME Scan PROVE (Control /\ PublisherIsReleased)'
  BY <1>13 DEF Scan
<1>14. ASSUME ScanEnds PROVE (Control /\ PublisherIsReleased)'
  BY <1>14 DEF ScanEnds
<1>15. ASSUME Reset PROVE (Control /\ PublisherIsReleased)'
  BY <1>15 DEF Reset
<1>16. ASSUME Crash PROVE (Control /\ PublisherIsReleased)'
  BY <1>16 DEF Crash, IdleGetter, NoRun
<1>17. ASSUME UNCHANGED vars PROVE (Control /\ PublisherIsReleased)'
  BY <1>17 DEF vars
<1>. QED
  BY <1>1, <1>2, <1>3, <1>4, <1>5, <1>6, <1>7, <1>8, <1>9, <1>10, <1>11, <1>12, <1>13, <1>14, <1>15, <1>16, <1>17 DEF Next
-----------------------------------------------------------------------------
\* A call of GetRun moves the run on only when it is the run's own last call.
LEMMA CallEnds ==
  ASSUME Shape, Control, NEW v \in Getters, ReadRecords(v) \/ CopyRun(v) \/ StoreCopy(v)
  PROVE  /\ runner' = runner \/ (runner = "report" /\ runner' = "idle")
         /\ UNCHANGED <<orders, event, run, result>> /\ spent'.reset = spent.reset
<1>1. v = Self => runner = "report"
  BY DEF Control, ReadRecords, CopyRun, StoreCopy, MayCall
<1>2. UNCHANGED runner \/ runner' = IF v = Self THEN "idle" ELSE runner
  BY Zenon DEF ReadRecords, CopyRun, StoreCopy, Return
<1>3. UNCHANGED <<orders, event, run, result>> /\ spent'.reset = spent.reset
  BY DEF ReadRecords, CopyRun, StoreCopy, Fault, mysql, Shape, TypeOK
<1> QED
  BY <1>1, <1>2, <1>3

\* What a call of GetRun has in hand after its step: nothing, or a reading made
\* now, or a copy of what was stored, or of what it makes up.
LEMMA ReadEffect ==
  ASSUME Shape, NEW v \in Getters, ReadRecords(v)
  PROVE  /\ \A w \in Getters \ {v} : getter'[w] = getter[w]
         /\ getter'[v].pc \in {"idle", "read"}
         /\ ~getter'[v].copy.fresh
         /\ getter'[v].copy.era \in {0, spent.reset}
         /\ getter'[v].fresh => runner \in {"idle", "report"}
         /\ getter'[v].pc = "read" => /\ getter'[v].orders = Made
                                      /\ getter'[v].seen = {event[r] : r \in Requests} \ {"none"}
<1>1. CASE Return(v)
  BY <1>1 DEF Shape, TypeOK, Return, IdleGetter, NoRun
<1>2. CASE ~Return(v)
  <2> DEFINE seen == {event[r] : r \in Requests} \ {"none"}
             fresh == runner \in {"idle", "report"}
             found == {r \in Requests : orders[r] # None}
  <2>1. PICK by : getter' = [getter EXCEPT ![v] =
                     [IdleGetter EXCEPT !.pc = "read", !.seen = seen, !.orders = Cardinality(found),
                        !.by = by, !.copy.era = spent.reset, !.fresh = fresh]]
    BY <1>2 DEF ReadRecords
  <2>2. /\ \A w \in Getters \ {v} : getter'[w] = getter[w]
        /\ getter'[v] = [IdleGetter EXCEPT !.pc = "read", !.seen = seen, !.orders = Cardinality(found),
                            !.by = by, !.copy.era = spent.reset, !.fresh = fresh]
    BY <2>1 DEF Shape, TypeOK
  <2>3. /\ getter'[v].pc = "read" /\ getter'[v].seen = seen /\ getter'[v].orders = Cardinality(found)
        /\ getter'[v].fresh = fresh /\ getter'[v].copy.era = spent.reset /\ ~getter'[v].copy.fresh
    <3> HIDE DEF seen, fresh, found
    <3> QED
      BY <2>2 DEF IdleGetter, NoRun
  <2> QED
    BY <2>2, <2>3 DEF Made, Ordered
<1> QED
  BY <1>1, <1>2

LEMMA CopyEffect ==
  ASSUME Shape, NEW v \in Getters, CopyRun(v)
  PROVE  LET g == getter[v]
             c == IF stored = None THEN Rebuilt(g) ELSE stored
             d == getter'[v].copy
         IN  /\ g.pc = "read"
             /\ \A w \in Getters \ {v} : getter'[w] = getter[w]
             /\ \/ getter'[v] = IdleGetter /\ runner' \in {runner, "idle"}
                \/ /\ runner' = runner
                   /\ getter'[v].pc = "store" /\ getter'[v].fresh = g.fresh
                   /\ getter'[v].stale = g.stale
                   /\ d.critical = c.critical /\ d.era = c.era /\ d.rebuilt = c.rebuilt
                   /\ d.ok = c.ok /\ d.errors = c.errors /\ d.strategy = c.strategy
                   /\ \/ d = c
                      \/ /\ d.fresh = g.fresh
                         /\ d.status = "completed" /\ d.strategy = "outbox" => g.seen = {"completed"}
<1> DEFINE g == getter[v]
           c == IF stored = None THEN Rebuilt(g) ELSE stored
           d == IF c.critical THEN Refreshed(c, g) ELSE c
<1>1. g \in Calls /\ c \in Runs
  BY RebuiltType DEF Shape, TypeOK
<1>2. CASE Return(v)
  BY <1>2 DEF CopyRun, Return, Shape, TypeOK
<1>3. CASE getter' = [getter EXCEPT ![v].pc = "store", ![v].copy = d] /\ UNCHANGED runner
  <2>1. /\ \A w \in Getters \ {v} : getter'[w] = getter[w]
        /\ getter'[v].pc = "store" /\ getter'[v].fresh = g.fresh
        /\ getter'[v].stale = g.stale /\ getter'[v].copy = d
    <3> HIDE DEF d
    <3> QED
      BY <1>1, <1>3 DEF Shape, TypeOK, Calls
  <2>2. /\ d.critical = c.critical /\ d.era = c.era /\ d.rebuilt = c.rebuilt
        /\ d.ok = c.ok /\ d.errors = c.errors /\ d.strategy = c.strategy
        /\ \/ d = c
           \/ /\ d.fresh = g.fresh
              /\ d.status = "completed" /\ d.strategy = "outbox" => g.seen = {"completed"}
    <3> HIDE DEF c
    <3> QED
      BY <1>1, RefreshedFields
  <2> DEFINE e == getter'[v].copy
  <2>3. /\ e.critical = c.critical /\ e.era = c.era /\ e.rebuilt = c.rebuilt
        /\ e.ok = c.ok /\ e.errors = c.errors /\ e.strategy = c.strategy
        /\ \/ e = c
           \/ /\ e.fresh = g.fresh
              /\ e.status = "completed" /\ e.strategy = "outbox" => g.seen = {"completed"}
    <3> HIDE DEF c, d, e
    <3> QED
      BY <2>1, <2>2 DEF e
  <2>4. g.pc = "read"
    BY DEF CopyRun
  <2> QED
    BY <1>3, <2>1, <2>3, <2>4
<1> QED
  BY <1>2, <1>3 DEF CopyRun

\* Reports read after the end stay right: purchases are made only while nothing
\* in memory claims to be fresh (purchase_experiment.go:244-262).
LEMMA FreshNext == Shape /\ Control /\ FreshIsTrue /\ [Next]_vars => FreshIsTrue'
<1> SUFFICES ASSUME Shape, Control, FreshIsTrue, [Next]_vars PROVE FreshIsTrue'
  OBVIOUS
<1>0. \A v \in Getters : getter[v] \in Calls
  BY DEF Shape, TypeOK
<1> USE DEF FreshIsTrue, FreshCopy, FreshRead, Settled, mysql, publisher
<1>1. ASSUME NEW s \in Strategies, StartRun(s) PROVE FreshIsTrue'
  <2>1. \A v \in Getters : ~getter'[v].fresh /\ ~getter'[v].copy.fresh
    BY <1>1, RestartedFields DEF StartRun, Shape
  <2> QED
    BY <1>1, <2>1 DEF StartRun, NoRun
<1>2. ASSUME NEW r \in Requests, Purchase(r) PROVE FreshIsTrue'
  BY <1>2 DEF Purchase
<1>3. ASSUME NEW r \in Requests, Collect(r) PROVE FreshIsTrue'
  <2>1. run'.fresh = run.fresh
    BY <1>3 DEF Collect, Counted, Shape, TypeOK, Runs
  <2>2. CASE StoreRun
    <3>1. \A v \in Getters : getter'[v].fresh = getter[v].fresh /\ getter'[v].copy = getter[v].copy
      BY <2>2, OvertakenFields DEF StoreRun, Shape
    <3> QED
      BY <1>3, <2>1, <2>2, <3>1 DEF Collect, StoreRun
  <2>3. CASE UNCHANGED <<stored, getter>>
    BY <1>3, <2>1, <2>3 DEF Collect
  <2> QED
    BY <1>3, <2>2, <2>3 DEF Collect
<1>4. ASSUME NEW r \in Requests, Claim(r) PROVE FreshIsTrue'
  BY <1>4 DEF Claim
<1>5. ASSUME NEW r \in Requests, Complete(r) PROVE FreshIsTrue'
  BY <1>5 DEF Complete
<1>6. ASSUME AwaitQueries PROVE FreshIsTrue'
  BY <1>6 DEF AwaitQueries, Shape, TypeOK, Runs
<1>7. ASSUME InspectFinalState PROVE FreshIsTrue'
  BY <1>7 DEF InspectFinalState
<1>8. ASSUME StoreFinal PROVE FreshIsTrue'
  <2>1. run'.fresh = run.fresh
    BY <1>8 DEF StoreFinal, Shape, TypeOK, Runs
  <2>2. \A v \in Getters : getter'[v].fresh = getter[v].fresh /\ getter'[v].copy = getter[v].copy
    BY <1>8, OvertakenFields DEF StoreFinal, StoreRun, Shape
  <2> QED
    BY <1>8, <2>1, <2>2 DEF StoreFinal, StoreRun
<1>9. ASSUME ReleasePublisher PROVE FreshIsTrue'
  BY <1>9 DEF ReleasePublisher
<1>10. ASSUME NEW v \in Getters, ReadRecords(v) PROVE FreshIsTrue'
  <2>1. runner' = runner \/ (runner = "report" /\ runner' = "idle")
    BY <1>10, CallEnds
  <2>2. UNCHANGED <<event, run, stored>>
    BY <1>10 DEF ReadRecords
  <2>3. {event[r] : r \in Requests} \ {"none"} = {"completed"} => Settled
    OBVIOUS
  <2>4. FreshRead(getter[v])'
    BY <1>10, <2>1, <2>2, <2>3, ReadEffect
  <2>5. ~getter'[v].copy.fresh /\ \A w \in Getters \ {v} : getter'[w] = getter[w]
    BY <1>10, ReadEffect
  <2> QED
    BY <2>1, <2>2, <2>4, <2>5
<1>11. ASSUME NEW v \in Getters, CopyRun(v) PROVE FreshIsTrue'
  <2>1. runner' = runner \/ (runner = "report" /\ runner' = "idle")
    BY <1>11, CallEnds
  <2>2. UNCHANGED <<event, run, stored>>
    BY <1>11 DEF CopyRun
  <2>3. \A w \in Getters \ {v} : getter'[w] = getter[w]
    BY <1>11, CopyEffect
  <2>4. CASE getter'[v] = IdleGetter
    BY <2>1, <2>2, <2>3, <2>4 DEF IdleGetter, NoRun
  <2>5. CASE getter'[v] # IdleGetter
    <3>1. getter'[v].pc = "store" /\ getter'[v].fresh = getter[v].fresh /\ getter[v].pc = "read"
      BY <1>11, <2>5, CopyEffect
    <3>2. FreshRead(getter[v])'
      BY <2>1, <2>2, <3>1
    <3>3. FreshCopy(getter[v].copy)'
      <4> DEFINE d == getter'[v].copy
                 c == IF stored = None THEN Rebuilt(getter[v]) ELSE stored
      <4>1. \/ d = c
            \/ /\ d.fresh = getter[v].fresh
               /\ d.status = "completed" /\ d.strategy = "outbox" => getter[v].seen = {"completed"}
        BY <1>11, <2>5, CopyEffect
      <4>2. CASE d = c
        <5>1. FreshCopy(c)
          BY <1>0, RebuiltFields
        <5> QED
          BY <2>1, <2>2, <4>2, <5>1
      <4>3. CASE d # c
        BY <2>1, <2>2, <3>1, <4>1, <4>3
      <4> QED
        BY <4>2, <4>3
    <3> QED
      BY <2>1, <2>2, <2>3, <3>2, <3>3
  <2> QED
    BY <2>4, <2>5
<1>12. ASSUME NEW v \in Getters, StoreCopy(v) PROVE FreshIsTrue'
  <2>1. runner' = runner \/ (runner = "report" /\ runner' = "idle")
    BY <1>12, CallEnds
  <2>2. UNCHANGED <<event, run>> /\ stored' = getter[v].copy
    BY <1>12 DEF StoreCopy
  <2>3. /\ \A w \in Getters \ {v} : getter'[w] = getter[w]
        /\ ~getter'[v].fresh /\ ~getter'[v].copy.fresh
    BY <1>12 DEF StoreCopy, Return, IdleGetter, NoRun, Shape, TypeOK
  <2> QED
    BY <2>1, <2>2, <2>3
<1>13. ASSUME Scan PROVE FreshIsTrue'
  BY <1>13 DEF Scan
<1>14. ASSUME ScanEnds PROVE FreshIsTrue'
  BY <1>14 DEF ScanEnds
<1>15. ASSUME Reset PROVE FreshIsTrue'
  BY <1>15 DEF Reset
<1>16. ASSUME Crash PROVE FreshIsTrue'
  BY <1>16 DEF Crash, IdleGetter, NoRun
<1>17. ASSUME UNCHANGED vars PROVE FreshIsTrue'
  BY <1>17 DEF vars
<1>. QED
  BY <1>1, <1>2, <1>3, <1>4, <1>5, <1>6, <1>7, <1>8, <1>9, <1>10, <1>11, <1>12, <1>13, <1>14, <1>15, <1>16, <1>17 DEF Next

\* A run that has ended keeps its final mark or the reason it has none: the final
\* snapshot overtakes every copy, and only a stale copy can replace it.
LEMMA EndNext == Shape /\ Control /\ EndIsMarked /\ [Next]_vars => EndIsMarked'
<1> SUFFICES ASSUME Shape, Control, EndIsMarked, [Next]_vars PROVE EndIsMarked'
  OBVIOUS
<1>0. \A v \in Getters : getter[v] \in Calls
  BY DEF Shape, TypeOK
<1> USE DEF EndIsMarked, Ending, Live, mysql, publisher
<1>1. ASSUME NEW s \in Strategies, StartRun(s) PROVE EndIsMarked'
  BY <1>1 DEF StartRun
<1>2. ASSUME NEW r \in Requests, Purchase(r) PROVE EndIsMarked'
  BY <1>2 DEF Purchase
<1>3. ASSUME NEW r \in Requests, Collect(r) PROVE EndIsMarked'
  BY <1>3 DEF Collect
<1>4. ASSUME NEW r \in Requests, Claim(r) PROVE EndIsMarked'
  BY <1>4 DEF Claim
<1>5. ASSUME NEW r \in Requests, Complete(r) PROVE EndIsMarked'
  BY <1>5 DEF Complete
<1>6. ASSUME AwaitQueries PROVE EndIsMarked'
  BY <1>6 DEF AwaitQueries
<1>7. ASSUME InspectFinalState PROVE EndIsMarked'
  BY <1>7 DEF InspectFinalState
<1>8. ASSUME StoreFinal PROVE EndIsMarked'
  <2>1. run'.critical /\ stored' = run'
    BY <1>8 DEF StoreFinal, StoreRun, Shape, TypeOK, Runs
  <2>2. \A v \in Getters : ~Live(v)'
    BY <1>8, OvertakenFields DEF StoreFinal, StoreRun, Shape
  <2> QED
    BY <2>1, <2>2
<1>9. ASSUME ReleasePublisher PROVE EndIsMarked'
  BY <1>9 DEF ReleasePublisher
<1>10. ASSUME NEW v \in Getters, ReadRecords(v) PROVE EndIsMarked'
  <2>1. UNCHANGED <<stored, blame>> /\ (Ending' => Ending)
    BY <1>10, CallEnds DEF ReadRecords
  <2>2. ~Live(v)' /\ \A w \in Getters \ {v} : getter'[w] = getter[w]
    BY <1>10, ReadEffect
  <2> QED
    BY <2>1, <2>2
<1>11. ASSUME NEW v \in Getters, CopyRun(v) PROVE EndIsMarked'
  <2>1. UNCHANGED <<stored, blame>> /\ (Ending' => Ending)
    BY <1>11, CallEnds DEF CopyRun
  <2>2. \A w \in Getters \ {v} : getter'[w] = getter[w]
    BY <1>11, CopyEffect
  <2>3. CASE getter'[v] = IdleGetter
    BY <2>1, <2>2, <2>3 DEF IdleGetter
  <2>4. CASE getter'[v] # IdleGetter
    <3> DEFINE c == IF stored = None THEN Rebuilt(getter[v]) ELSE stored
    <3>1. getter'[v].copy.critical = c.critical /\ getter'[v].copy.rebuilt = c.rebuilt
      BY <1>11, <2>4, CopyEffect
    <3>2. stored = None => c.rebuilt
      BY <1>0, RebuiltFields
    <3> QED
      BY <2>1, <2>2, <3>1, <3>2
  <2> QED
    BY <2>3, <2>4
<1>12. ASSUME NEW v \in Getters, StoreCopy(v) PROVE EndIsMarked'
  <2>1. stored' = getter[v].copy /\ blame' = (IF getter[v].stale THEN blame \cup {"overtaken"} ELSE blame)
        /\ getter[v].pc = "store"
    BY <1>12 DEF StoreCopy
  <2>2. Ending' => Ending
    BY <1>12, CallEnds
  <2>3. \A w \in Getters \ {v} : getter'[w] = getter[w]
    BY <1>12 DEF StoreCopy, Return, Shape, TypeOK
  <2>4. ~Live(v)'
    BY <1>12 DEF StoreCopy, Return, IdleGetter, Shape, TypeOK
  <2> QED
    BY <2>1, <2>2, <2>3, <2>4
<1>13. ASSUME Scan PROVE EndIsMarked'
  BY <1>13 DEF Scan
<1>14. ASSUME ScanEnds PROVE EndIsMarked'
  BY <1>14 DEF ScanEnds
<1>15. ASSUME Reset PROVE EndIsMarked'
  BY <1>15 DEF Reset
<1>16. ASSUME Crash PROVE EndIsMarked'
  BY <1>16 DEF Crash, IdleGetter, NoRun
<1>17. ASSUME UNCHANGED vars PROVE EndIsMarked'
  BY <1>17 DEF vars
<1>. QED
  BY <1>1, <1>2, <1>3, <1>4, <1>5, <1>6, <1>7, <1>8, <1>9, <1>10, <1>11, <1>12, <1>13, <1>14, <1>15, <1>16, <1>17 DEF Next

\* The count of a request whose result says what became of it.
LEMMA CollectEvidence ==
  ASSUME Shape, Evidence, NEW r \in Requests, Collect(r)
  PROVE  LET both == Done \cap Ordered
             more == (Done \cup {r}) \cap Ordered
         IN  /\ Done' = Done \cup {r} /\ Ordered' = Ordered
             /\ run'.ok <= Cardinality(more) /\ Cardinality(more) <= run'.ok + run'.errors
<1> DEFINE both == Done \cap Ordered
           more == (Done \cup {r}) \cap Ordered
<1>1. Done' = Done \cup {r} /\ r \notin Done /\ Ordered' = Ordered
  BY DEF Shape, TypeOK, Collect, Done, Ordered, Results, mysql
<1>2. /\ run.ok <= Cardinality(both) /\ Cardinality(both) <= run.ok + run.errors
      /\ result[r] \in {"bought", "duplicate", "boughtNotDeleted"} => r \in Ordered
      /\ result[r] = "soldOut" => r \notin Ordered
      /\ result[r] \in Results
  BY DEF Evidence, Collect
<1>3. IsFiniteSet(both) /\ Cardinality(both) \in Nat
  <2>1. IsFiniteSet(both) /\ Cardinality(both) \in 0 .. N /\ N \in Nat
    BY SetsOfRequests DEF Done, Ordered
  <2> HIDE DEF both
  <2> QED
    BY <2>1
<1>4. Cardinality(more) = IF r \in Ordered THEN Cardinality(both) + 1 ELSE Cardinality(both)
  <2>1. CASE r \in Ordered
    <3>1. more = both \cup {r} /\ r \notin both
      BY <1>1, <2>1
    <3> QED
      BY <1>3, <2>1, <3>1, FS_AddElement
  <2>2. CASE r \notin Ordered
    <3>1. more = both
      BY <2>2
    <3> QED
      BY <2>2, <3>1
  <2> QED
    BY <2>1, <2>2
<1>5. /\ run.ok \in Nat /\ run.errors \in Nat
      /\ run'.ok = IF result[r] \in {"bought", "duplicate", "boughtNotDeleted"} THEN run.ok + 1 ELSE run.ok
      /\ run'.errors = IF result[r] \in {"error", "boughtNotDeleted"} THEN run.errors + 1 ELSE run.errors
  BY DEF Shape, TypeOK, Runs, Collect, Counted
<1>6. run'.ok <= Cardinality(more) /\ Cardinality(more) <= run'.ok + run'.errors
  <2> HIDE DEF both, more
  <2> QED
    BY <1>2, <1>3, <1>4, <1>5 DEF Results
<1> QED
  BY <1>1, <1>6

\* What a purchase reports and what the loop counts agree with the ledger at every
\* step of a run, whose era no reset ends (purchase_experiment.go:291-326).
LEMMA EvidenceNext == Shape /\ Control /\ Evidence /\ [Next]_vars => Evidence'
<1> SUFFICES ASSUME Shape, Control, Evidence, [Next]_vars PROVE Evidence'
  OBVIOUS
<1>0. Shape'
  BY ShapeNext
<1> USE DEF Evidence
<1>1. ASSUME NEW s \in Strategies, StartRun(s) PROVE Evidence'
  <2>1. Done' = {} /\ run'.ok = 0 /\ run'.errors = 0 /\ run'.era = spent.reset
    BY <1>1 DEF StartRun, Done, NoRun
  <2>2. spent'.reset = spent.reset /\ \A r \in Requests : result'[r] = "waiting"
    BY <1>1 DEF StartRun, Shape, TypeOK
  <2>3. Cardinality((Done \cap Ordered)') = 0
    BY <2>1, FS_EmptySet
  <2>4. /\ run'.ok <= Cardinality((Done \cap Ordered)')
        /\ Cardinality((Done \cap Ordered)') <= run'.ok + run'.errors
    BY <2>1, <2>3
  <2>5. runner' = "collect"
    BY <1>1 DEF StartRun
  <2> QED
    BY <2>1, <2>2, <2>4, <2>5
<1>2. ASSUME NEW r \in Requests, Purchase(r) PROVE Evidence'
  <2> PICK outcome \in Results :
         /\ result' = [result EXCEPT ![r] = outcome]
         /\ \/ outcome = "bought" /\ Insert(r) /\ UNCHANGED spent
            \/ outcome = "duplicate" /\ orders[r] = run.strategy /\ UNCHANGED <<mysql, spent>>
            \/ outcome = "soldOut" /\ orders[r] = None /\ UNCHANGED <<mysql, spent>>
            \/ outcome = "error" /\ UNCHANGED <<mysql, spent>>
            \/ outcome = "error" /\ Fault /\ (Insert(r) \/ UNCHANGED mysql)
            \/ /\ outcome = "boughtNotDeleted" /\ Fault
               /\ Insert(r) \/ (orders[r] = run.strategy /\ UNCHANGED mysql)
    BY <1>2 DEF Purchase
  <2>1. run.strategy \in Strategies /\ run.strategy # None /\ result[r] = "waiting"
    BY <1>2, NoneAssumption DEF Purchase, Control
  <2>2. UNCHANGED <<run, runner>> /\ spent'.reset = spent.reset
    BY <1>2 DEF Purchase, Fault, Shape, TypeOK
  <2>3. Done' = Done /\ r \notin Done
    BY <2>1 DEF Done, Results, Shape, TypeOK
  <2>4. \A q \in Requests \ {r} : result'[q] = result[q] /\ (q \in Ordered' <=> q \in Ordered)
    BY DEF Ordered, Insert, mysql, Shape, TypeOK
  <2>5. (Done \cap Ordered)' = Done \cap Ordered
    BY <2>3, <2>4 DEF Ordered, Done
  <2>6. /\ result'[r] \in {"bought", "duplicate", "boughtNotDeleted"} => r \in Ordered'
        /\ result'[r] = "soldOut" => r \notin Ordered'
    BY <2>1 DEF Ordered, Insert, mysql, Shape, TypeOK
  <2> QED
    BY <2>2, <2>3, <2>4, <2>5, <2>6
<1>3. ASSUME NEW r \in Requests, Collect(r) PROVE Evidence'
  <2> DEFINE more == (Done \cup {r}) \cap Ordered
  <2>1. /\ Done' = Done \cup {r} /\ Ordered' = Ordered
        /\ run'.ok <= Cardinality(more) /\ Cardinality(more) <= run'.ok + run'.errors
    BY <1>3, CollectEvidence
  <2>2. run'.era = run.era /\ UNCHANGED spent /\ runner = "collect"
        /\ \A q \in Requests : result'[q] # "none" => result'[q] = result[q]
    BY <1>3 DEF Collect, Counted, Shape, TypeOK, Runs
  <2>3. runner' # "collect" => Done' = Requests
    <3>1. run'.processed = Cardinality(Done') \/ runner' # "collect"
      BY <1>0 DEF Shape, Tally
    <3>2. run'.processed = Cardinality(Done')
      <4>1. run'.processed = run.processed + 1 /\ run.processed = Cardinality(Done)
        BY <1>3 DEF Collect, Counted, Shape, TypeOK, Runs, Tally
      <4>2. IsFiniteSet(Done) /\ r \notin Done
        BY <1>3, SetsOfRequests DEF Done, Collect, Results
      <4> QED
        BY <2>1, <4>1, <4>2, FS_AddElement
    <3>3. runner' # "collect" => run'.processed = N
      BY <1>3 DEF Collect
    <3>4. Done' \in SUBSET Requests
      BY DEF Done
    <3> QED
      BY <3>2, <3>3, <3>4, ConstantsAssumption, FS_Subset DEF N
  <2>4. (Done \cap Ordered)' = more
    BY <2>1
  <2>5. \A q \in Requests : result'[q] \in {"bought", "duplicate", "boughtNotDeleted", "soldOut"} => result'[q] = result[q]
    BY <2>2
  <2> HIDE DEF more
  <2> QED
    BY <2>1, <2>2, <2>3, <2>4, <2>5
<1>4. ASSUME NEW r \in Requests, Claim(r) PROVE Evidence'
  <2>1. UNCHANGED <<result, orders, run, runner>> /\ spent'.reset = spent.reset
    BY <1>4 DEF Claim, Fault, Shape, TypeOK, mysql
  <2> QED
    BY <2>1 DEF Done, Ordered
<1>5. ASSUME NEW r \in Requests, Complete(r) PROVE Evidence'
  <2>1. UNCHANGED <<result, orders, run, runner>> /\ spent'.reset = spent.reset
    BY <1>5 DEF Complete, Fault, Shape, TypeOK, mysql
  <2> QED
    BY <2>1 DEF Done, Ordered
<1>6. ASSUME AwaitQueries PROVE Evidence'
  <2>1. UNCHANGED <<result, orders>> /\ run'.era = run.era /\ run'.ok = run.ok /\ run'.errors = run.errors
    BY <1>6 DEF AwaitQueries, Shape, TypeOK, Runs, mysql
  <2>2. spent'.reset = spent.reset /\ runner = "queries"
    BY <1>6 DEF AwaitQueries, Fault, Shape, TypeOK
  <2> QED
    BY <2>1, <2>2 DEF Done, Ordered
<1>7. ASSUME InspectFinalState PROVE Evidence'
  <2>1. UNCHANGED <<result, orders, run>> /\ spent'.reset = spent.reset /\ runner = "inspect"
    BY <1>7 DEF InspectFinalState, Fault, Shape, TypeOK, mysql
  <2> QED
    BY <2>1 DEF Done, Ordered
<1>8. ASSUME StoreFinal PROVE Evidence'
  BY <1>8 DEF StoreFinal
<1>9. ASSUME ReleasePublisher PROVE Evidence'
  BY <1>9 DEF ReleasePublisher
<1>10. ASSUME NEW v \in Getters, ReadRecords(v) PROVE Evidence'
  BY <1>10, CallEnds DEF Done, Ordered
<1>11. ASSUME NEW v \in Getters, CopyRun(v) PROVE Evidence'
  BY <1>11, CallEnds DEF Done, Ordered
<1>12. ASSUME NEW v \in Getters, StoreCopy(v) PROVE Evidence'
  BY <1>12, CallEnds DEF Done, Ordered
<1>13. ASSUME Scan PROVE Evidence'
  <2>1. UNCHANGED <<result, orders, run, runner>> /\ spent'.reset = spent.reset
    BY <1>13 DEF Scan, Fault, Shape, TypeOK, mysql
  <2> QED
    BY <2>1 DEF Done, Ordered
<1>14. ASSUME ScanEnds PROVE Evidence'
  <2>1. UNCHANGED <<result, orders, run, runner>> /\ spent'.reset = spent.reset
    BY <1>14 DEF ScanEnds, Fault, Shape, TypeOK, mysql
  <2> QED
    BY <2>1 DEF Done, Ordered
<1>15. ASSUME Reset PROVE Evidence'
  BY <1>15 DEF Reset
<1>16. ASSUME Crash PROVE Evidence'
  BY <1>16 DEF Crash
<1>17. ASSUME UNCHANGED vars PROVE Evidence'
  <2>1. UNCHANGED <<result, orders, run, runner>> /\ spent'.reset = spent.reset
    BY <1>17 DEF vars, Fault, Shape, TypeOK, mysql
  <2> QED
    BY <2>1 DEF Done, Ordered
<1>. QED
  BY <1>1, <1>2, <1>3, <1>4, <1>5, <1>6, <1>7, <1>8, <1>9, <1>10, <1>11, <1>12, <1>13, <1>14, <1>15, <1>16, <1>17 DEF Next

\* What is stored, and what would replace it, stays in agreement with the ledger
\* until a reset begins another era or a purchase of the next run is made.
LEMMA FaithfulNext == Shape /\ Control /\ Evidence /\ ReportsAreFaithful /\ [Next]_vars => ReportsAreFaithful'
<1> SUFFICES ASSUME Shape, Control, Evidence, ReportsAreFaithful, [Next]_vars PROVE ReportsAreFaithful'
  OBVIOUS
<1>0. Shape'
  BY ShapeNext
<1>a. spent.reset \in Nat /\ Made \in Nat
  <2>1. Made \in 0 .. N /\ N \in Nat
    BY SetsOfRequests DEF Made, Ordered
  <2> QED
    BY <2>1, ConstantsAssumption DEF Shape, TypeOK
<1>b. \A v \in Getters : getter[v] \in Calls
  BY DEF Shape, TypeOK
<1> USE DEF ReportsAreFaithful, Faithful
<1>1. ASSUME NEW s \in Strategies, StartRun(s) PROVE ReportsAreFaithful'
  <2>1. /\ stored' # None /\ ~stored'.critical /\ stored'.era = spent.reset /\ spent'.reset = spent.reset
    BY <1>0, <1>1, NoneAssumption DEF StartRun, NoRun, Shape, TypeOK
  <2>2. \A v \in Getters : ~Live(v)' /\ getter'[v].copy.era = getter[v].copy.era
    BY <1>1, RestartedFields DEF StartRun, Shape, Live
  <2> QED
    BY <1>a, <2>1, <2>2
<1>2. ASSUME NEW r \in Requests, Purchase(r) PROVE ReportsAreFaithful'
  <2>1. UNCHANGED <<stored, getter, blame, runner>> /\ spent'.reset = spent.reset /\ runner = "collect"
    BY <1>2 DEF Purchase, Fault, Shape, TypeOK
  <2> QED
    BY <2>1 DEF Control, Ending, Live
<1>3. ASSUME NEW r \in Requests, Collect(r) PROVE ReportsAreFaithful'
  <2>1. UNCHANGED spent /\ UNCHANGED mysql /\ runner = "collect" /\ runner' \in {"collect", "queries"}
    BY <1>3 DEF Collect
  <2>2. CASE StoreRun
    <3>1. ~run'.critical /\ run'.era = spent.reset
      BY <1>3, <2>1 DEF Collect, Counted, Shape, TypeOK, Runs, Control, Evidence
    <3>2. stored' = run' /\ stored' # None
      BY <1>0, <2>2, NoneAssumption DEF StoreRun, Shape, TypeOK
    <3>3. \A v \in Getters : ~Live(v)' /\ getter'[v].copy = getter[v].copy
      BY <2>2, OvertakenFields DEF StoreRun, Shape, Live
    <3> QED
      BY <1>a, <2>1, <3>1, <3>2, <3>3
  <2>3. CASE UNCHANGED <<stored, getter, blame>>
    BY <2>1, <2>3 DEF Control, Ending, Live
  <2> QED
    BY <1>3, <2>2, <2>3 DEF Collect
<1>4. ASSUME NEW r \in Requests, Claim(r) PROVE ReportsAreFaithful'
  <2>1. UNCHANGED <<stored, getter, blame, runner, orders>> /\ spent'.reset = spent.reset
    BY <1>4 DEF Claim, Fault, Shape, TypeOK, mysql
  <2> QED
    BY <2>1 DEF Live, Ending, Made, Ordered
<1>5. ASSUME NEW r \in Requests, Complete(r) PROVE ReportsAreFaithful'
  <2>1. UNCHANGED <<stored, getter, blame, runner, orders>> /\ spent'.reset = spent.reset
    BY <1>5 DEF Complete, Fault, Shape, TypeOK, mysql
  <2> QED
    BY <2>1 DEF Live, Ending, Made, Ordered
<1>6. ASSUME AwaitQueries PROVE ReportsAreFaithful'
  <2>1. UNCHANGED <<stored, getter, blame>> /\ spent'.reset = spent.reset /\ runner = "queries"
    BY <1>6 DEF AwaitQueries, Fault, Shape, TypeOK
  <2> QED
    BY <2>1 DEF Control, Ending, Live
<1>7. ASSUME InspectFinalState PROVE ReportsAreFaithful'
  <2>1. UNCHANGED <<stored, getter>> /\ spent'.reset = spent.reset /\ runner = "inspect" /\ blame \subseteq blame'
    BY <1>7 DEF InspectFinalState, Fault, Shape, TypeOK
  <2> QED
    BY <2>1 DEF Control, Ending, Live
<1>8. ASSUME StoreFinal PROVE ReportsAreFaithful'
  <2>1. stored' = run' /\ stored' # None /\ UNCHANGED spent /\ UNCHANGED mysql /\ Ending'
    BY <1>0, <1>8, NoneAssumption DEF StoreFinal, StoreRun, Shape, TypeOK, Ending
  <2>2. run'.era = spent.reset /\ run'.ok = run.ok /\ run'.errors = run.errors
    BY <1>8 DEF StoreFinal, Evidence, Shape, TypeOK, Runs
  <2>3. Done \cap Ordered = Ordered
    BY <1>8 DEF StoreFinal, Evidence, Ordered
  <2>4. run.ok <= Made /\ Made <= run.ok + run.errors /\ Made' = Made
    BY <1>8, <2>1, <2>3 DEF StoreFinal, Evidence, Made, Ordered, mysql
  <2>5. \A v \in Getters : ~Live(v)' /\ getter'[v].copy = getter[v].copy
    BY <1>8, OvertakenFields DEF StoreFinal, StoreRun, Shape, Live
  <2> QED
    BY <1>a, <2>1, <2>2, <2>4, <2>5
<1>9. ASSUME ReleasePublisher PROVE ReportsAreFaithful'
  <2>1. UNCHANGED <<stored, getter, blame, spent, mysql>> /\ Ending /\ Ending'
    BY <1>9 DEF ReleasePublisher, Ending
  <2>2. Made' = Made
    BY <2>1 DEF Made, Ordered, mysql
  <2> QED
    BY <2>1, <2>2 DEF Live
<1>10. ASSUME NEW v \in Getters, ReadRecords(v) PROVE ReportsAreFaithful'
  <2>1. UNCHANGED orders /\ spent'.reset = spent.reset /\ (Ending <=> Ending') /\ Made' = Made
    BY <1>10, CallEnds DEF Ending, Made, Ordered
  <2>2. UNCHANGED <<stored, blame>>
    BY <1>10 DEF ReadRecords
  <2>3. /\ \A w \in Getters \ {v} : getter'[w] = getter[w]
        /\ ~Live(v)' /\ getter'[v].copy.era <= spent.reset
        /\ getter'[v].pc = "read" => getter'[v].orders = Made
    BY <1>a, <1>10, ReadEffect DEF Live
  <2> QED
    BY <2>1, <2>2, <2>3 DEF Live
<1>11. ASSUME NEW v \in Getters, CopyRun(v) PROVE ReportsAreFaithful'
  <2>1. UNCHANGED orders /\ spent'.reset = spent.reset /\ (Ending <=> Ending') /\ Made' = Made
    BY <1>11, CallEnds DEF Ending, Made, Ordered
  <2>2. UNCHANGED <<stored, blame>>
    BY <1>11 DEF CopyRun
  <2>3. \A w \in Getters \ {v} : getter'[w] = getter[w]
    BY <1>11, CopyEffect
  <2>4. CASE getter'[v] = IdleGetter
    BY <1>a, <2>1, <2>2, <2>3, <2>4 DEF IdleGetter, NoRun, Live
  <2>5. CASE getter'[v] # IdleGetter
    <3> DEFINE c == IF stored = None THEN Rebuilt(getter[v]) ELSE stored
               d == getter'[v].copy
    <3>1. /\ d.critical = c.critical /\ d.era = c.era /\ d.ok = c.ok /\ d.errors = c.errors
          /\ getter'[v].pc = "store" /\ getter[v].pc = "read"
      BY <1>11, <2>5, CopyEffect
    <3>2. CASE stored = None
      <4>1. c.era = getter[v].copy.era /\ c.ok = getter[v].orders /\ c.errors = 0
        BY <1>b, <3>2, RebuiltFields
      <4>2. Ending /\ Made \in Nat
        BY <1>a, <3>2 DEF Control, Ending
      <4> HIDE DEF c
      <4>3. d.era <= spent.reset /\ Faithful(d)
        BY <3>1, <3>2, <4>1, <4>2
      <4>4. (getter[v].copy.era <= spent.reset)' /\ Faithful(getter[v].copy)'
        BY <2>1, <4>3
      <4> HIDE DEF Faithful
      <4> QED
        BY <2>1, <2>2, <2>3, <3>1, <3>2, <4>4 DEF Live, Faithful
    <3>3. CASE stored # None
      <4>1. (getter[v].copy.era <= spent.reset)' /\ ("overtaken" \notin blame' => Faithful(getter[v].copy)')
        BY <2>1, <2>2, <3>1, <3>3
      <4> QED
        BY <2>1, <2>2, <2>3, <3>1, <3>3, <4>1 DEF Live
    <3> QED
      BY <3>2, <3>3
  <2> QED
    BY <2>4, <2>5
<1>12. ASSUME NEW v \in Getters, StoreCopy(v) PROVE ReportsAreFaithful'
  <2>1. UNCHANGED orders /\ spent'.reset = spent.reset /\ (Ending <=> Ending') /\ Made' = Made
    BY <1>12, CallEnds DEF Ending, Made, Ordered
  <2>2. /\ stored' = getter[v].copy /\ stored' # None
        /\ blame' = (IF getter[v].stale THEN blame \cup {"overtaken"} ELSE blame)
        /\ getter[v].pc = "store"
    BY <1>12, <1>b, NoneAssumption DEF StoreCopy, Calls
  <2>3. \A w \in Getters \ {v} : getter'[w] = getter[w]
    BY <1>12 DEF StoreCopy, Return, Shape, TypeOK
  <2>4. ~Live(v)' /\ getter'[v].copy.era = 0
    BY <1>12 DEF StoreCopy, Return, IdleGetter, NoRun, Shape, TypeOK, Live
  <2>5. stored'.era <= spent'.reset /\ \A w \in Getters : (getter[w].copy.era <= spent.reset)'
    BY <1>a, <2>1, <2>2, <2>3, <2>4
  <2>6. CASE getter[v].stale
    BY <2>2, <2>5, <2>6
  <2>7. CASE ~getter[v].stale
    <3> HIDE DEF Faithful
    <3>1. "overtaken" \notin blame => \A w \in Getters : Live(w) => Faithful(getter[w].copy)
      BY DEF ReportsAreFaithful
    <3>2. blame' = blame /\ Live(v)
      BY <2>2, <2>7 DEF Live
    <3>3. "overtaken" \notin blame => Faithful(getter[v].copy)
      BY <3>1, <3>2
    <3>4. "overtaken" \notin blame' => Faithful(stored)'
      BY <2>1, <2>2, <3>2, <3>3 DEF Faithful
    <3>5. \A w \in Getters : Live(w)' => Live(w) /\ getter'[w] = getter[w]
      BY <2>3, <2>4 DEF Live
    <3>6. "overtaken" \notin blame' => \A w \in Getters : Live(w)' => Faithful(getter[w].copy)'
      <4> SUFFICES ASSUME "overtaken" \notin blame', NEW w \in Getters, Live(w)'
                   PROVE  Faithful(getter[w].copy)'
        OBVIOUS
      <4>1. Faithful(getter[w].copy) /\ getter'[w] = getter[w]
        BY <3>1, <3>2, <3>5
      <4> QED
        BY <2>1, <4>1 DEF Faithful
    <3> QED
      BY <2>2, <2>5, <3>4, <3>6
  <2> QED
    BY <2>6, <2>7
<1>13. ASSUME Scan PROVE ReportsAreFaithful'
  <2>1. UNCHANGED <<stored, getter, blame, runner, orders>> /\ spent'.reset = spent.reset
    BY <1>13 DEF Scan, Fault, Shape, TypeOK, mysql
  <2> QED
    BY <2>1 DEF Live, Ending, Made, Ordered
<1>14. ASSUME ScanEnds PROVE ReportsAreFaithful'
  <2>1. UNCHANGED <<stored, getter, blame, runner, orders>> /\ spent'.reset = spent.reset
    BY <1>14 DEF ScanEnds, Fault, Shape, TypeOK, mysql
  <2> QED
    BY <2>1 DEF Live, Ending, Made, Ordered
<1>15. ASSUME Reset PROVE ReportsAreFaithful'
  <2>1. UNCHANGED <<stored, getter, blame, runner>> /\ spent'.reset = spent.reset + 1
    BY <1>15 DEF Reset, Shape, TypeOK
  <2>2. /\ stored # None => stored.era <= spent.reset /\ stored.era \in Nat
        /\ \A v \in Getters : getter[v].copy.era <= spent.reset /\ getter[v].copy.era \in Nat
    BY <1>a, <1>b DEF Shape, TypeOK, Calls, Runs
  <2> QED
    BY <1>a, <2>1, <2>2 DEF Live
<1>16. ASSUME Crash PROVE ReportsAreFaithful'
  <2>1. stored' = None /\ \A v \in Getters : getter'[v] = IdleGetter
    BY <1>16 DEF Crash
  <2>2. IdleGetter.pc = "idle" /\ IdleGetter.copy.era = 0
    BY DEF IdleGetter, NoRun
  <2>3. spent'.reset \in Nat
    BY <1>0, ConstantsAssumption DEF Shape, TypeOK
  <2> QED
    BY <2>1, <2>2, <2>3 DEF Live
<1>17. ASSUME UNCHANGED vars PROVE ReportsAreFaithful'
  <2>1. UNCHANGED <<stored, getter, blame, runner, orders>> /\ spent'.reset = spent.reset
    BY <1>17 DEF vars, Fault, Shape, TypeOK, mysql
  <2> QED
    BY <2>1 DEF Live, Ending, Made, Ordered
<1>. QED
  BY <1>1, <1>2, <1>3, <1>4, <1>5, <1>6, <1>7, <1>8, <1>9, <1>10, <1>11, <1>12, <1>13, <1>14, <1>15, <1>16, <1>17 DEF Next

-----------------------------------------------------------------------------
(* The theorems *)

RunInv == /\ Shape /\ Control /\ PublisherIsReleased
          /\ FreshIsTrue /\ EndIsMarked /\ Evidence /\ ReportsAreFaithful

\* No run has begun and nothing is stored.
LEMMA RunInit == Init => RunInv
<1> SUFFICES ASSUME Init PROVE RunInv
  OBVIOUS
<1>1. Self \in Getters /\ \A v \in Getters : getter[v] = IdleGetter
  BY DEF Init, Getters
<1>2. Shape
  BY ShapeInit
<1>3. Control /\ PublisherIsReleased
  BY <1>1 DEF Init, Control, PublisherIsReleased, IdleGetter
<1>4. FreshIsTrue /\ EndIsMarked
  BY <1>1 DEF Init, FreshIsTrue, FreshRead, FreshCopy, EndIsMarked, Live, NoRun, IdleGetter
<1>5. Evidence /\ ReportsAreFaithful
  BY <1>1 DEF Init, Evidence, ReportsAreFaithful, Live, NoRun, IdleGetter
<1> QED
  BY <1>2, <1>3, <1>4, <1>5 DEF RunInv

LEMMA RunInvariant == Spec => []RunInv
<1>1. RunInv /\ [Next]_vars => RunInv'
  BY ShapeNext, ControlNext, FreshNext, EndNext, EvidenceNext, FaithfulNext DEF RunInv
<1> QED
  BY <1>1, RunInit, PTL DEF Spec

\* Type correctness of the reports, of the runs and of the calls that read them.
THEOREM TypeCorrect == Spec => []TypeOK
<1>1. RunInv => TypeOK
  BY DEF RunInv, Shape
<1> QED
  BY <1>1, RunInvariant, PTL

\* The publisher is held only while an outbox experiment is at work: every way out
\* of RunExperiment passes the release (purchase_experiment.go:247-254,419).
THEOREM PublisherReleased == Spec => []PublisherIsReleased
<1>1. RunInv => PublisherIsReleased
  BY DEF RunInv
<1> QED
  BY <1>1, RunInvariant, PTL

\* A report that calls an outbox run completed from events read after the run has
\* ended is right, whatever calls of GetRun overlap with runs, resets and crashes.
THEOREM CompletedReportsAreTrue == Spec => []CompletedIsTrue
<1>1. RunInv => CompletedIsTrue
  BY DEF RunInv, FreshIsTrue, FreshCopy, Settled, CompletedIsTrue
<1> QED
  BY <1>1, RunInvariant, PTL

\* A final report in memory agrees with the ledger unless an older copy has taken
\* its place: what it counts has an order, what it does not count is an error.
THEOREM ReportsMatchLedger == Spec => []ReportMatchesLedger
<1>1. RunInv => ReportMatchesLedger
  BY DEF RunInv, ReportsAreFaithful, Faithful, Ending, Made, Ordered, ReportMatchesLedger
<1> QED
  BY <1>1, RunInvariant, PTL

\* A run that has ended without its final mark in memory was ended by a failed
\* inspection, rebuilt from the events of a reset batch or overtaken by a copy.
THEOREM UnfinishedReportsHaveReason == Spec => []UnfinishedHasReason
<1>1. RunInv => UnfinishedHasReason
  BY DEF RunInv, EndIsMarked, Ending, UnfinishedHasReason
<1> QED
  BY <1>1, RunInvariant, PTL
=============================================================================
