# A verification of the lottery laboratory

The program (Go, `src/`) is a laboratory for three classic problems of a web
shop in front of MySQL, Redis and RocketMQ: a seckill (a limited stock sold to a
crowd), the invalidation of a cached copy after a purchase, and cached reads.
Two stores and a message broker take part in every operation and none of them
knows the others' transactions. The correctness of the program is therefore in
the order of its calls and in what each call checks again, and that is what the
modules here model.

Conventions: one step of a process is one call to a store or to the broker.
Between two steps every other process may run, a call may fail, the process may
crash. Every module names its bounds in its CONSTANTS. Definitions whose comment
begins with "Weakened" are deliberately wrong variants of the definition next to
them; no specification uses them, they show that each property can be violated.
`map` in `PROJECT.json` names the source lines of every definition.

## 1. The system

| Component | State | Operations | Talks to |
|---|---|---|---|
| Seckill admission and orders (`service/lottery.go`, `service/order.go`, `database/admission.go`, `database/order.go`, `mq/order_consumer.go`) | Redis: current run, one counter per gift, one admission key per user (gift, order id, run, state) with a TTL. MySQL: one order row per user | Draw, Pay, GiveUp over HTTP; consumers of CREATE_ORDER and the delayed CANCEL_ORDER | Redis by four Lua scripts, MySQL by single statements, RocketMQ |
| Experiment reset (`handler/lab.go`, `database/reset.go`) | the run id, and the exclusive side of the operation gate | rotate the run, empty the ledger, delete counters and admissions, recount | everything of the seckill |
| Inventory recovery (`app/app.go`, `database/inventory.go`) | none of its own | the offline command `-init-inventory` | MySQL, Redis |
| MySQL inventory mode (`service/lottery_cacheaside.go`, `database/inventory_cacheaside.go`, `database/order.go`) | `cache_stock`, the order rows, a cached list of the stock, a counted gate in front of MySQL | Draw, pay, give up, time out; the transactions that take and return a unit | MySQL, Redis, RocketMQ, circuit breaker |
| Purchase experiment (`service/purchase_experiment.go`, `database/purchase_experiment.go`, `mq/purchase_cache_consumer.go`) | MySQL: `materials.stock`, orders, outbox. Redis: the cached detail. Memory: run snapshots | RunExperiment, Reset, outbox worker, consumer, GetRun | MySQL, Redis, RocketMQ |
| Archive read path (`service/archive.go`, `service/archive_experiment.go`) | cached details, negative entries, a lock per key | cached and uncached reads, prepare / evict / finish an experiment | MySQL, Redis |
| Circuit breaker (`service/circuit_breaker.go`) | state, opening time, three counters | Allow, Report, Reset | MySQL mode |
| Rate limiter (`service/limiter.go`) | tokens and time of the last refill | Allow, Reset | HTTP handlers |
| Load-test runner (`internal/loadtest/`), a service of its own | the tasks with their events, the active one, its context and wrk2 child, subscribers, a snapshot file | Start, the goroutine of the task, Stop, EvictCache, Subscribe, restart | wrk2, the application over HTTP, pages over SSE |
| Metrics, routing, configuration, connections, web pages | counters and wiring | | display only |

### What is hard, and what makes each part correct

*Seckill.* Redis decides, MySQL records. A payment, a give-up, the timeout
message and the CREATE_ORDER consumer of one order may interleave between the
script that decides and the statement that records; messages come late, twice
and in any order; a send that reports an error may have arrived; the caller may
crash between any two calls. Correct means: no unit is sold twice or returned
twice; a payment the client was told about keeps its unit; the ledger never
contradicts the verdict; a verdict is final; no order is stranded without the
message that will settle it; unpaid stock comes back.

*Reset.* Operations of the old run are drained by the gate, but their messages
and the ids their clients hold are not; the reset itself may stop half way.
Correct means: after a complete reset nothing of an earlier run returns, and an
interrupted one never makes more stock than there is.

*Recovery.* The recount sees the ledger and the admissions of whatever moment
the application died in. Correct means: it never puts a unit on sale that an
order holds.

*Purchase and cached reads.* The order is committed before the copy is deleted;
the event may be published, consumed and completed in an order nobody planned; a
reader may carry an old value across the delete; a reset cancels events whose
messages are on their way. Correct means: one unit per order under every
repetition; an event exists exactly with its order; "completed" means that the
copy really was deleted after the commit; an old copy has one of a short list of
reasons; open events settle.

*Load-test runner.* A task ends by success, error, Stop, its deadline or a restart,
and these race; the lock is released during every call to the application and to
wrk2; pages come and go while events are published; the snapshot may fail. Correct
means: one task at a time; no child process without its task; a Stop that answers
means the task is over; an end is final; the hot key is deleted once; a page gets
every event once and learns the end; every task ends.

*MySQL inventory mode.* Stock and order are in one store and one transaction, the
timeout message is not; a draw holds nothing that keeps a reset out, and after a reset
ids are used again. Correct means: stock and living orders add up; a verdict is final;
an unpaid order has its timeout message; a draw that cannot finish takes back its own
order.

*Entry guards.* Requests read the clock before they take the lock of the bucket;
draws report to the breaker late, several times or never, and no report says which
state it belongs to. Correct means: no more requests pass than the rate pays for; a
breaker that stays half-open has a reason.

*Cache experiments.* A scope with a token and a lease separates tasks, but keys, meter
and scope are changed in separate steps, and a call outlives the client that made it.
Correct means: misses of a key are merged into one fill; a task that had its prepare
to itself keeps keys and meter to itself; every lock comes back.

*Run reports.* Three writers store snapshots of a run without reading what is stored,
and a flag keeps the publisher away from a batch. Correct means: the final report
agrees with the ledger; "completed" is true; the publisher is released on every path;
a run that stays unfinished has a reason.

The full list of the places where each of these bites is under `hazards` in
`PROJECT.json`.

## 2. The modules

| Module | Models | Needs |
|---|---|---|
| `SeckillOrder` | Redis-mode seckill with the reset, its faults and the consumers | |
| `OrderLifecycle` | abstract: what a user is promised in one run | |
| `SeckillRefinement` | the mapping by which the first implements the second | both |
| `InventoryRecovery` | the offline recount in any state the first can be stopped in | `SeckillOrder` |
| `PurchaseOutbox` | purchases, outbox, publisher, consumer, reset, cached readers | |
| `PurchaseRuns` | the reports of the purchase experiment and the flag that holds the publisher | |
| `MySQLInventory` | the MySQL inventory mode with its reset | |
| `EntryGuards` | token bucket and circuit breaker | |
| `CacheExperiment` | experiments on the cached detail: prepare, read, evict, finish | |
| `LoadTestRunner` | the runner service: tasks, child process, stop, eviction, event streams, snapshot and restart | |
| `MC*` | symmetry sets and function-valued constants for TLC | |
| `SeckillSafetyProofs` | theorems: types, verdicts and messages of `SeckillOrder` | |
| `SeckillStockProofs` | theorems: units, reset, restart, and the refinement of `OrderLifecycle` | `SeckillSafetyProofs`, `InventoryRecovery`, `SeckillRefinement` |
| `PurchaseOutboxProofs`, `PurchaseRunsProofs`, `MySQLInventoryProofs`, `EntryGuardsProofs`, `CacheExperimentProofs`, `LoadTestRunnerProofs` | theorems about the module of the same name | |

### SeckillOrder

`run`, `stock`, `adm` are Redis, `ledger` MySQL, `msgs` the messages RocketMQ
has not had acknowledged, `pc` and `task` the goroutines. `Handlers` are HTTP
goroutines and `Consumers` order consumer loops: each loop handles both topics,
one message at a time (`mq/order_consumer.go`). The Lua scripts are atomic; they
appear as a guard (`Acquirable`, `Markable`, `Claimable`, `Releasable`) and an
effect (`Acquire`, `SetState`, `Release`). Every handler is a path through `pc`:

- Draw: `acquire`, `send_timeout`, `send_create`; a failed send goes to
  `rollback` and, if this call released, into the ledger.
- Pay: `claim`, `settle`; after the deadline the path of a cancellation.
- GiveUp and a timeout message: `find`, `release`, `verify`, then the ledger.
- CREATE_ORDER: `insert`, `mark`, and `reread` when the mark did not advance.
- The ledger write of a cancellation (`RecordReleasedRedisCancellation`):
  `rec_update`, `rec_find`, `rec_insert`, one SQL statement each.

The history variables are `held` (commands whose unit is out in this run),
`shown` (commands Draw returned to a client), `payAck` (payments reported as
done) and `clean` (the last reset went to its end).

What is merged or left out, and why it is sound:
- The choice of a gift only proposes a candidate: Draw may propose any gift, and
  `HasOrder` with the inventory snapshot is one step. The model allows more draws
  than the code.
- The read of the run id is one step with the start of the operation: the gate
  keeps the reset out until the operation is over.
- An INSERT that meets a duplicate key and the SELECT of the row it met are one
  step; so are the UPDATE to paid and the read that checks it. Rows with an
  order id are removed only by the reset, which the gate excludes.
- `CallFails` aborts an operation between two calls. It also stands for a call
  that took effect and lost its reply, since the call may succeed and the next
  one fail; for the acquire script, where the two differ, the lost reply is a
  disjunct of its own.
- RocketMQ delivers again until the acknowledgement: its limit of deliveries and
  its dead-letter queue are not modelled.
- Not in the module: messages and rows without an order id (accepted for
  compatibility), metrics. The MySQL mode behind the same handlers and the rate
  limiter have modules of their own.

### OrderLifecycle and SeckillRefinement

The abstract module knows one right and one book entry per user and no
processes. It says the order in which right, book and shelf change: a right is
opened for payment only once the book knows the order, the book follows the
verdict, a unit comes back only with a cancellation. `SeckillRefinement` reads
the right off the admission key, the book off the ledger row (both of the current
run only) and the shelf off the counter. The run checks it with faults and resets
but without expiring keys: when a key is gone the right is gone although the book
still has its entry, which the abstract module does not allow and the code
accepts.

### InventoryRecovery

All of `SeckillOrder` plus `InitializeInventory`, enabled whenever every process
is idle. The recount may fail after any set of gifts.

### PurchaseOutbox

One material. The purchase is one MySQL transaction (`Commit`), because the code
takes a row lock on the material and the service a mutex; a request that repeats
finds its order, and a conflict is the same request with the other strategy. An
event's status goes through `pending`, `publishing`, `published`, `retry`,
`completed`, `cancelled`; a back-off is a retry that may or may not be due.
`Miss`, `DoubleCheck`, `Load` and `FillCache` are the reader of
`service/archive.go`, with the lock that makes the fill single-flight. `dirty`
holds the orders that committed and saw no DEL since; `stuck` the events the
publisher lost sight of in a failed MySQL call; `excuse` the failures that may
leave an old copy behind.

### PurchaseRuns

The ledger side of `PurchaseOutbox` reduced to what a report can see: a purchase is
one step with the result it reports, an event is pending, claimed, completed or
cancelled. `runner` is the step of `RunExperiment`, `run` its local record, `stored`
the snapshot in memory, `getter` the calls of `GetRun` with what they have read and
the copy they work on; `RunExperiment` ends with such a call itself (`Self`).
`batchActive` is the flag, `scanning` the publisher that looked at it. Of a report the
model keeps the strategy, the status, whether it is final (`critical`) and three
counts; latencies, samples and the trace are left out. `fresh`, `era` and `blame` are
history: whether the events of a report were read after its run had ended, how many
resets it is old, and what became of a final snapshot.

### MySQLInventory

`stock` is `cache_stock`, `orders` the row of each user, `nextId` AUTO_INCREMENT,
`cache` the gifts the cached list shows in stock, `timeouts` the messages not yet
acknowledged. Each transaction is one step: the row lock on the gift and the
conditional updates make them so. Draw is `Draw`, `ReadCached` or `ReadOrigin` and
`Backfill`, `Acquire`, `DelStockKey`, `SendTimeout`; when the send fails
`CancelOrder` and `DelStockKey` again. Pay, give-up and timeout hold the barrier
against the reset (`Barrier`), Draw does not; no route constructs this Draw any more,
but its orders and messages are still served. The reset is one step per statement and
may fail at each; `epoch` counts the deletions of all orders and `adrift` the units by
which a reset has left stock and orders apart.

- The weighted choice proposes any gift shown in stock.
- A read of the order row and the look at its deadline are one step: the update that
  follows is conditional on the status, and rows go only by the reset.
- The breaker may refuse any draw (`DrawRejected`); its own state is in `EntryGuards`.
- A crash counts as a fault. Limits of the connection pool are not modelled.

### EntryGuards

Two guards that share the requests and nothing else. The bucket counts grains of a
token and ticks of time, so that the floating-point rate of the code becomes exact
numbers; `Measure` reads the clock, `Allow` takes the lock, refills and spends. The
breaker has the three states and three counters of `circuit_breaker.go` after the
constructor has raised unusable settings. A draw behind it (`request`) passes, reports
any number of times with any latency and pool usage, and ends. `probe`, `reported` and
`silent` are history: which draws are probes of the present half-open phase and
whether one ended without a report. The cooling time ends at any moment.

### CacheExperiment

`scope` is the experiment with its token, kind and lease, `hotKey` and `negKey` are
the two Redis keys, `fillMu` the lock per key, `meter` the scenario meter with the
task it was reset for. A worker is the goroutine of one request (`job`):

| Request | Path |
|---|---|
| `PrepareExperiment` | `Prepare`, `PrepareDelNegative`, for a breakdown `PrepareDelHot`, a cached read and `PrepareVerify`, then `ResetMeter`, `PublishScope` |
| reads of a task and public reads | `FirstLook`, `Lock`, `Recheck`, `Origin`, `FillHot` or `WriteNegative`, then `Sample` or `PublicDone` |
| `EvictExperiment` | `EvictDel`, `RecordEvicted` |
| `FinishExperiment` | `FinishDelNegative`, `FinishVerify`, a read that repairs the hot key, `DeactivateMeter` |

The warm-up and the repair are the same read machine as everyone's. `crossed` marks a
prepare that shared time with another call of a task: the code does not keep two
prepares apart, and the properties say what holds when it does not have to. `fills`
counts the fills since a key went away that were merged by the lock after an answered
double check. What a present copy holds is the subject of `PurchaseOutbox`.

### LoadTestRunner

`rec`, `order` and `active` are the fields of `Runner` under its lock, `mem` the
fields of a record that are not persisted, `disk` the snapshot file. `run[t]` is
the goroutine `runTask` with the sample it has in hand and the end it has planned,
`ctx[t]` why its context ended, `wrk[t]` the child process. `app[t]` is what the
application keeps for the task: how far its hot key has come, whether its scope is
open, how often the key was deleted. `page` is a subscriber: its channel and what
the page behind it has seen. `lost` counts the answers to a DEL that did not arrive.

One step is one section under the lock, one call to the application, or one
operation on the child. `Save` is such a section: it changes the record, offers the
new events to every subscriber's channel and writes the snapshot, which may fail.

| Path | Actions |
|---|---|
| `runTask` | `Begin`, `Reset`/`ResetFails`, `Spawn`/`LaunchFails`, `MarkRunning`, then the loop of `Sample` and `Progress` until `Cancelled` or `Reap`, then `Collect`, `Gather`/`GatherFails`, `Cleanup`, `Finish` |
| `runStockBurst` | the same without a child: `MarkBurstRunning`, `Reap` when all requests are answered |
| `Stop` | `StopAsk` cancels the context; `StopAnswered` or `StopTimeout` |
| `EvictCache` | `EvictAsk` under the lock, `EvictCall` or `EvictRefused` without it, `EvictDone` or `EvictFailed` under it again |
| `streamEvents` | `Subscribe` (replay and registration in one section), `AfterReplay`, `Deliver`, `Disconnect` |
| `loadState` | `Restart` |

What is merged or left out:
- The answer of the reset is saved in one section with the reset event; the code
  uses two for the archive experiments, with nothing but the record between them.
- When the application closes a scope, the phase of its key is forgotten: the code
  keeps it for display, and no step reads it again.
- The application's prepare and finish of an experiment are single steps here. Their
  own interleavings are the subject of `CacheExperiment`.
- Events are numbered by their place in the list. The code keeps the last 180
  events and 32 log lines; a model task has at most a dozen, so nothing is trimmed.
- Of the metrics only what decides anything is kept: the phase of the hot key, and
  whether the final sample has the evidence asked for. Parsing of wrk2's output,
  validation of plans and the estimate of connections are not modelled, nor is the
  log line about the target rate.
- A restart of the runner is a restart of its container: the child dies with it.

## 3. What the runs show

| Run | Instance | Size | Shows |
|---|---|---|---|
| `seckill_race` | 1 user, 1 unit, 2 orders, 2 goroutines, 1 consumer, 1 failed call, 1 crash, 1 expired key | 2.0M states | No unit is sold or given back twice, a reported payment keeps its unit, the ledger follows and matches the verdict, verdicts are final, no shown order and no cancellation is stranded |
| `seckill_reset` | 1 user, 2 runs, 1 failed call | 0.8M | Nothing survives a complete reset; the refinement of `OrderLifecycle` |
| `seckill_liveness` | 1 user, 1 order, 1 fault, 1 crash, fair | 0.1M | Unpaid stock comes back, a cancellation reaches the ledger |
| `inventory_recovery` | 2 users, 1 unit, one of each fault | 1.4M | Two users for one unit: a recount after any stop never oversells |
| `purchase_outbox` | 2 requests, 1 unit, 1 experiment and its repetition, 1 reset, 1 fault, 1 crash, 1 reader, fair | 0.3M | Orders, stock, events and the copy stay accountable; every open event settles or is known to be stuck |
| `purchase_runs` | 2 requests, 1 page, 2 runs, 1 reset, 1 fault, a snapshot after each result | 2.8M | The publisher is released, the final report agrees with the ledger, "completed" is true, an unfinished run has a reason |
| `mysql_inventory` | 2 users, 1 unit, 2 goroutines, a gate of 1, 1 reset, 1 fault | 1.4M | Stock and orders add up, verdicts stand, an unpaid order has its timeout, a draw takes back only its own order |
| `entry_guards` | 2 goroutines; bucket of 4 grains at 2 per request, 5 ticks; breaker that trips after 2, 1 probe configured, closes after 2 | 0.4M | No more requests pass than the rate pays for; only a silent probe leaves the breaker half-open for ever |
| `cache_experiment` | 2 tasks, 2 goroutines, 1 fault | 3.4M | One fill per miss, a task alone in its prepare is isolated, every lock comes back |
| `runner_tasks` | 2 tasks with or without a hot key, history of 1, 2 requests to evict, 1 sample, 1 fault, 1 restart | 2.4M | One task at a time, no child without its task, Stop answers when it is over, no way back from an end, one DEL and one more per lost answer |
| `runner_stream` | 1 task of 3 kinds, 1 page with a channel of 2, 1 fault, 1 restart, fair | 0.2M | Replay and live events leave no gap and repeat nothing; a task ends although wrk2 may hang, and its page learns so |

`paid_retry` ends in a counterexample, which is the one `finding`. The comment at
`service/order.go:175` says that client retries push the ledger to paid once Redis
says paid. When the retry comes after the deadline, `Pay` takes the path of a
cancellation, meets "already paid" there and returns success without a ledger write
(lines 147-151). The row stays `pending_payment` unless the CREATE_ORDER message comes
again.

### What else the models show about the code

The following behaviours are in the models because they are in the code. The
properties are worded around them; they are the cases where a stronger wording is
false.

- *Recount after a crash.* `docs/reliability.md:299` says that a cancelled order is
  not deducted. After a crash between the release in Redis and the ledger write,
  `CompletedOrderCounts` still counts the pending row, so one unit is missing. It errs
  on the safe side, and `NeverOversold` asks for no more.
- *Late invalidation.* The comment at `database/purchase_experiment.go:124` says that
  cancelling open events keeps late messages from deleting the newly warmed copy. A
  consumer that read the status before the reset still deletes it
  (`service/purchase_experiment.go:722`). The next query fills it again.
- *Late eviction.* `loadtest/runner.go:842` ends a task with the words that its result
  is frozen. `EvictCache` does not ask for the status when the answer arrives (from
  line 457): a task that completed meanwhile gets other metrics and an event after its
  last one. `PageLearnsTheEnd` therefore asks for the end, not for nothing after it.
- *Second eviction.* The comment at `loadtest/runner.go:409` says that one round cannot
  delete the key twice. After a lost answer the guards still see the sample from before
  the DEL. `EvictedOncePerAnswer` states what holds.
- *Crossed prepares.* `PrepareExperiment` publishes its scope without a second look
  (`service/archive_experiment.go:135`). Two prepares at once may leave the scope of
  one with the meter of the other. `IsolatedTask` speaks of uncrossed ones.
- *Late record of a DEL.* `RecordArchiveScenarioEvicted` runs after the DEL
  (`service/archive_experiment.go:169`): a reader that fills the key in between leaves
  the phase at `evicted`, although the key is back.
- *Half-open for ever.* A draw that ends before any access to MySQL never reports
  (`service/circuit_breaker.go:97`); its place among the probes stays taken.
  `StuckHasReason` names it as the only cause.
- *Reports of the wrong phase.* `Report` counts a late report of a draw that passed in
  the closed state as the success or failure of a probe
  (`service/circuit_breaker.go:113`).
- *Old list in the cache.* A read of the stock that was made before an acquisition may
  be stored after its DEL (`database/inventory_cacheaside.go:212`). The list only
  proposes; the transaction decides, as `UnitsAddUp` shows.
- *Reset of the MySQL mode.* Orders are deleted before `cache_stock` is restored. A
  failure in between, or a draw, leaves both apart; `adrift` counts by how much.
- *Lost final report.* `GetRun` stores its copy over a final snapshot that
  `RunExperiment` stored meanwhile, and the page waits (`UnfinishedHasReason`). In an
  outbox run it also replaces "failed" by "waiting" or "completed"
  (`service/purchase_experiment.go:798-812`), so a failed batch without events waits
  for events that were never written.

### Bounds, and why they are enough

The races of one order need two handlers and the consumer: pay against give-up
against the timeout, each with the ledger writes of the other under way. A second
order of the same user gives the old order's messages something to hit. One
failed call and one crash per behaviour place each of them at every point of
every path; two units of trouble in sequence are covered for safety by the proofs,
which have no bound. Gifts have one unit, so that the second
order, of the same user in `seckill_race` and of another one in
`inventory_recovery`, always meets its end. `purchase_outbox` has
one request more than units; there and in `purchase_runs` the batch comes a second
time, with either strategy and before or after the reset. One experiment request always expands
to the same child ids, so the models have one set of them. In `mysql_inventory` a draw
of either user can fall on both sides of the reset, and the ids of the first epoch
come back in the second; a gate of one makes the two goroutines wait for each other.
The bucket of `entry_guards` is filled, emptied and filled again within its five ticks,
and the breaker is configured with fewer probes than it needs successes, the case its
constructor repairs. In `cache_experiment` two goroutines are enough to cross every
call with every other one, and no counter bounds how many requests they serve; the
fault falls on any call. In `runner_tasks` the second task meets
the slot, the history and the application's scope of the first, and a history of
one makes every Start prune; the sample that shows the key hot is the one the
eviction asks for, and stays the last one. The channel of two events fills up while
the page is slow, as the code's 32 do. Deadlock checking is on in `runner_tasks`,
`mysql_inventory`, `entry_guards` and `cache_experiment`; in the other runs the system
rightly stops when the bounded inputs are used up.

### Fairness

Weak fairness for each goroutine's next step: Go schedules it and every call
returns or fails. Strong fairness for the delivery of each message: RocketMQ
redelivers what is not acknowledged, and a consumer that is busy becomes free
again and again. Weak fairness for the deadline (time passes) and for a reset that
has begun (its handler runs to the end or fails). In `PurchaseOutbox` also for
the publisher, whose ticker fires each second, and strong fairness for the claim
of each event, whose back-off ends. No fairness asks for a request, an experiment,
a reset, a crash or a restart. An event that the publisher left `publishing` in a
failed MySQL call waits for the next start of the process; `OpenEventSettles`
names these events instead of assuming a restart. `RetrySpec`, used only by
`paid_retry`, adds a client that keeps asking to pay: that is the premise of the
comment it examines.

In `LoadTestRunner` weak fairness holds for the goroutine's next step (its calls
have timeouts), for its reaction to the end of its context, for the hard deadline,
and for a page, which reads its stream and connects again as EventSource does.
Nothing makes wrk2 exit and nobody has to press Stop.

`InventoryRecovery`, `PurchaseRuns`, `MySQLInventory`, `EntryGuards` and
`CacheExperiment` state no fairness: what they promise is safety. Where the code
promises an end there, it depends on callers (a page that asks, a draw that reports, a
lease that runs out), so the properties name the states in which the end is lost.

## 4. What is proved

The theorems hold for every finite set of users and requests, any quantities,
thresholds and numbers of goroutines, and any bounds on orders, runs, faults, crashes
and expiries. Assumptions are those
declared with the constants: finite sets, natural bounds, `None` outside the
types. TLC evaluates them in the runs.

**Seckill.** `TypeCorrect` first. The verdict theorems (`PaymentKeepsItsUnit`,
`LedgerIsTrue`, `LedgerAndRedisAgree`) rest on `VerdictInv`, built in this order:

1. `Fresh`: whatever is known of a command (a message, a row, an operation, an
   entry of a history variable) was generated by Draw with an order id below
   `nextOrder`, and a goroutine about to acquire is the only one to know its id.
   Without it a new order could inherit the traces of an old one.
2. `LiveIsHeld`: a living admission of this run has its unit out.
3. `PaidIsSolid`: wherever "paid" is written or about to be written (row,
   admission, acknowledgement, a goroutine at `settle`) the unit is out and no
   script can release it.
4. `CancelIsFree`: wherever "cancelled" is written or about to be written, the
   unit is back.

The last two are stated over every *mark* of a verdict, also those in a
goroutine's local state: the ledger write follows the script by several steps,
and only the mark in between makes the invariant inductive. One lemma per kind of
step says what it may do to an admission (`AdmissionStep`), to the ledger
(`LedgerStep`) and to the set of marks (`PaidMarkStep`, `CancelMarkStep`).
`VerdictsStayFinal` needs only the types.

`NoUnitSoldTwice` adds `ResetIsAlone` (while a reset has a step to do no operation
is under way and the run has begun with nothing held) and the finiteness of
`held`: each script changes counter and `held` together (`UnitTaken`,
`UnitReturned`), and a recount starts from an empty ledger and no admissions when
it is to be exact (`WholeQuantity`). `ResetForgetsEverything` uses `CleanInv`: in
a run that started clean every admission, row and ledger-writing operation is of
that run, since each of them checks the run against Redis after the gate.

*Messages.* `UnsettledOrdersHaveMessages` is inductive only with what a draw holds
before it answers its client: `Courier` says that an order shown has the messages it
still needs and that a draw about to send CREATE_ORDER has its timeout message.
`Work` (a process makes only the calls of its own handler) and `VerdictInv` turn this
into the question which message an acknowledgement may remove: only that of the task,
after a success, and a handler succeeds only when the script has left the state that
needs the message.

`CancellationsAreCarried` holds with one consumer loop (`OneConsumer`), which is what
`app.go:73-78` starts; the loop handles one message at a time
(`order_consumer.go:48-111`). Its invariant `CarryInv` says that the message being
handled is there until its handler returns (`Delivered`), that a handler which found
no pending row to cancel finds none until it looks again (`Recorded`), that an open
order the ledger knows or will know has its timeout message (`Timed`), and that a
missed cancellation has a message of its own (`Carried`): the process of the property
may crash, the message stays. The hypothesis is needed. With three loops the property
fails after 18 steps: a handler of the timeout message and one of a redelivered
CREATE_ORDER both stop at `rec_find`, a third inserts the pending row, the first two
take the row for the record of the cancellation and acknowledge
(`RecordReleasedRedisCancellation` accepts any row that is not paid), and the third
crashes. TLC finds no such run with two loops on the same instance. An application
scaled out to several instances would have as many loops.

*Restart.* `RecountNeverOversells` is about the state the last process left, whatever
it was doing. `RecoveryInv` adds to the layers above that every unit out is of the
current run and that one order id stands for one user and one gift (`OneOrder`): the
units out of a gift then map one to one to the rows and admissions the recount adds up
(`CountedIsSold`), so the counter and the units out fit the quantity.

*Refinement.* `SeckillImplementsLifecycle` proves `ImplementsLifecycle` for every
behaviour in which no admission key is dropped by its TTL (`KeysLast`); a dropped key
takes the verdict with it, which the life cycle does not allow, and the run checks it
under the same bound. `RefInv` adds to the invariant of the counters what a process
may rely on when it writes (`Hands`: before an insert or a mark the admission is still
its own and of this run, before `settle` Redis has said paid, before the recording of a
cancellation it has said cancelled), that an order is open for payment only with its
row (`Opened`), and that nothing is of the new run while a reset is under way
(`Void`). `StoreStep` reduces the next-state relation to the scripts, the statements,
the reset and the TTL; each is then mapped to a step of `OrderLifecycle`: the acquire
script to `Grant`, the others to `Open`, `Pay` and `Cancel`, a statement on a row of
this run to `Enter`, `BookPaid` or `BookCancelled`, a statement on an older row to
nothing, the rotation of the run to `NewRun`, and every later step of a reset to
`Restock` or to nothing.

**Purchase.** One inductive invariant, `Accounts`: types, what publisher,
consumer and readers hold at each step (`Control`), `StockMatchesOrders`,
`EventsMatchOrders`, `Deleted` and `StaleCopyHasReason`. `Deleted` strengthens
`CompletedMeansDeleted`: between DEL and the completion the consumer's event is
not dirty, and a purchase cannot dirty it again, for its unique key admits one
event per request. The six properties of `purchase_outbox` follow.

**Purchase runs.** The four properties speak of a stored report; reports are stored by
the run and by calls of GetRun, each from a copy it has read earlier, without a look at
what is stored now. `RunInv` therefore says of every copy a call still holds what the
property says of the stored one. `Shape` is the types and the tally of the collecting
loop; `Control` ties the run, its own call of GetRun and the marks of its last
snapshot; `FreshIsTrue` covers the copies that read the events after the end;
`EndIsMarked` the reports without a final snapshot and what is to blame for them;
`Evidence` what the results of the requests say of the orders while the run counts
them (a bought or repeated purchase has an order, an error may have one);
`ReportsAreFaithful` the numbers of every copy that no later snapshot has overtaken.
`PublisherReleased` needs the control of the run only. TLC checked each part before it
was proved.

**Load-test runner.** `IInv` adds to the types what ties four things together that
are written in different sections under the lock: the step of a goroutine fixes the
status of its task (`StatusAt`), the task holds the slot, a child that has not been
waited for exists only between its start and its wait, and a planned end is one the
status allows. The last one is what makes `Finish` always take effect; without it a
task could stay active with no goroutine. `TaskStep` says once what a step of the
goroutine must keep, `BystanderStep` what everyone else must leave alone. TLC checked
`IInv` on instances of both runs before it was proved.
`RunnerTypeCorrect`, `OneTaskAtATime`, `ChildrenAreReaped` and `StopMeansOver` follow.

Three more results add an invariant of their own to `IInv`. `StatusesFollowTheMachine`
needs `Listed`: the ids of the list, in memory and on disk, name records that are
there, each once; so the task a full list drops is one that has ended, and not the
new one.
`OneEvictionPerAnswer` needs `Evictions`: no two requests are between the two sections of
`EvictCache` for one task, a task with more deletions than lost answers is marked as
evicted or over, or its request is about to mark it. `StreamsLoseNothing` needs
`Streams`: a page without a gap has seen the events up to its last one, those in its
channel count on from there, and while it is connected last one and channel together
reach the last event of the task.

**MySQL inventory mode.** The invariant `Consistent` rests on the primary key. `RowsFit`:
every row has an id of its own below `nextId`, and `nextId` grows by the rows inserted
only, or after a reset by what is left. `JobsFit`: a draw that has proposed a gift knows
a gift, a deadline of no later epoch and, once it has inserted, an id. `OwnRow`: unless
the orders have been deleted since its deadline was computed, the row of a draw that
inserted is still there under the id it remembers. `ResetFits` keeps the epochs within
their bound. `UnitsAddUp` follows by counting how each step changes the rows of a gift
that hold a unit; `RollbackIsOwn` from `OwnRow` and the uniqueness of ids;
`UnpaidHasItsTimeout` from `OwnRow` as long as nothing has failed; `VerdictsStand`
from the types and the conditional updates.

**Entry guards.** `RateIsKept` is not inductive: the bucket may be behind the clock. The
invariant adds what it holds now: `admitted * Cost + tokens` is at most the full bucket
plus the time from its reset to its last refill, which is never after the clock. A
request that measured before the last refill changes neither side.
`StuckHasReason` rests on `ProbesAnswer`: unless a probe was silent, the probes
counted in a half-open phase are at most its successes and the probes still awaited.
The successes stay below what closes the breaker, and the constructor lets at least
that many probes pass.

**Cache experiments.** Two invariants that share only the types. `LockInv` says for every
place of a read whether its goroutine holds the lock of its key, and that a counted
fill is made under it while the key has been away since the double check;
`StampedeIsMerged` and `LocksComeBack` follow. `AloneInv` says that beside an uncrossed
prepare no call of a task runs, that its meter and its negative key are as it has left
them, and that beside the scope it published only reads and evictions of that scope
run; `IsolatedTask` follows.

**Only model-checked.**

- The liveness properties (`UnpaidUnitIsReleased`, `CancellationReachesLedger`,
  `OpenEventSettles`, `EveryTaskEnds`, `PageLearnsTheEnd`): the prover has no support for
  ENABLED and so none for fairness.
- Every other property of a run is stated by a theorem, but for
  `RetryPushesLedgerToPaid`, which the code does not have (`paid_retry`).
- `ImplementsLifecycle` when a TTL drops an admission key: it does not hold then, see
  above. `CancellationIsCarried` with several consumer loops: see above.

The type invariants of the modules with theorems are proved and, but for that of
`PurchaseRuns`, not run again.

## 5. Plan

1. Proofs: what a client that repeats a payment may rely on, as a safety property, and
   the same life cycle as an abstract specification of the MySQL mode, with its
   refinement.
2. The legacy path: orders and messages without an order id, which the handlers of
   `SeckillOrder` still accept.
3. The trimming of events and log lines in the runner, and the read of the archive
   without protection.

### Not modelled

- *Metrics*, but for the meter of an archive scenario: counters and windows behind
  mutexes that no decision reads except the probes of the runner, and those are in
  `LoadTestRunner` by what they decide.
- *HTTP routing, configuration, connections, logging*: wiring and pure I/O. The weighted
  choice of a gift only proposes; the models let a draw propose any.
- *Web pages*: display; the server decides every state they show.
- *Output parsers and plans of the load test*, latencies and samples of a purchase run:
  text and numbers without state, better served by unit tests.
- *Schema and catalog migrations*: they run once, offline, before anything else.
- *Limits of the connection pool, RocketMQ's limit of deliveries and its dead-letter
  queue*: a call that waits or fails is covered by a fault, a message that is dropped for
  good is outside what the code handles.
