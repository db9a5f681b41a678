--------------------------- MODULE PurchaseOutbox ---------------------------
(***************************************************************************)
(* The purchase experiment: a MySQL transaction takes one unit of          *)
(* materials.stock and writes the order, and the Redis copy of the         *)
(* material is deleted either by the purchase itself (sync-invalidate) or  *)
(* through an outbox row of the same transaction, a publisher, RocketMQ    *)
(* and a consumer (outbox-mq-invalidate). Queries fill the copy again, a   *)
(* reset restores the stock and warms the copy.                            *)
(*                                                                         *)
(* One step is one MySQL transaction or one call to Redis or RocketMQ.     *)
(***************************************************************************)
EXTENDS Integers, FiniteSets

CONSTANTS
  Requests,    \* child request ids; event ids are in bijection with them
  Batches,     \* the sets of child ids that one experiment request expands to
  Readers,     \* goroutines of the Cached query
  Initial,     \* the baseline of materials.stock
  MaxBatches,  \* bound: experiments run
  MaxResets,   \* bound: resets
  MaxFaults,   \* bound: failed calls
  MaxCrashes,  \* bound: crashes of the application
  None         \* no order, no cached copy, nobody

ASSUME RequestsAssumption == IsFiniteSet(Requests) /\ None \notin Requests
ASSUME BatchesAssumption  == Batches \subseteq SUBSET Requests
ASSUME ReadersAssumption  == None \notin Readers
ASSUME InitialAssumption  == Initial \in Nat
ASSUME BoundsAssumption   == /\ MaxBatches \in Nat /\ MaxResets \in Nat
                             /\ MaxFaults \in Nat /\ MaxCrashes \in Nat

Strategy == {"sync", "outbox"}
Open     == {"pending", "publishing", "retry", "published"}
Terminal == {"completed", "cancelled"}
Stock    == 0 .. Initial

ASSUME NoneAssumption == None \notin Strategy /\ None \notin Stock

VARIABLES
  \* MySQL: materials.stock, purchase_lab_orders (the strategy of each order),
  \* purchase_lab_outbox (the status of each event, "none" without a row)
  stock, orders, outbox,
  \* Redis: the stock in the cached copy of the material
  cache,
  \* RocketMQ: copies of each event's message that are not acknowledged
  copies,
  \* the application: the strategy of the experiment under way, the step of
  \* each purchase, of the reset, the publisher, the consumer and the readers
  batch, purchase, resetPc, publisher, consumer, reader, fillLock,
  \* bounds: experiments, resets, failed calls and crashes so far
  spent,
  \* history: orders committed and not followed by a DEL, events the publisher
  \* lost sight of in a failed MySQL call, and failures that may leave an old
  \* copy behind
  dirty, stuck, excuse

mysql   == <<stock, orders, outbox>>
lab     == <<batch, purchase, resetPc>>
reading == <<reader, fillLock>>
history == <<dirty, stuck, excuse>>
vars    == <<mysql, cache, copies, lab, publisher, consumer, reading, spent, history>>

Idle == [pc |-> "idle", event |-> None]

Init ==
  /\ stock = Initial
  /\ orders = [r \in Requests |-> None]
  /\ outbox = [r \in Requests |-> "none"]
  /\ cache = None
  /\ copies = [r \in Requests |-> 0]
  /\ batch = None
  /\ purchase = [r \in Requests |-> "idle"]
  /\ resetPc = "idle"
  /\ publisher = [pc |-> "start", event |-> None]
  /\ consumer = Idle
  /\ reader = [q \in Readers |-> [pc |-> "idle", value |-> None]]
  /\ fillLock = None
  /\ spent = [batch |-> 0, reset |-> 0, fault |-> 0, crash |-> 0]
  /\ dirty = {} /\ stuck = {} /\ excuse = {}

-----------------------------------------------------------------------------
Spend(kind, limit) == /\ spent[kind] < limit
                      /\ spent' = [spent EXCEPT ![kind] = @ + 1]

\* A call reports an error. Whether it took effect is up to its action.
Fault == Spend("fault", MaxFaults)

\* PurchaseLabService.mu: one experiment or one reset at a time.
MuFree == batch = None /\ resetPc = "idle"

\* DeleteMaterialDetailCache.
Delete == cache' = None /\ dirty' = {} /\ excuse' = {}

\* SetMaterialDetailCache. A copy that is already old explains itself.
Fill(value) ==
  /\ cache' = value
  /\ excuse' = IF value = stock THEN {} ELSE {"fill"}

SetStatus(r, from, to) ==
  outbox' = [outbox EXCEPT ![r] = IF @ \in from THEN to ELSE @]

-----------------------------------------------------------------------------
(* RunExperiment and its purchases                                         *)

\* While an outbox experiment runs, publisherBatchActive holds the publisher.
StartBatch(reqs, strategy) ==
  /\ MuFree
  /\ Spend("batch", MaxBatches)
  /\ batch' = strategy
  /\ purchase' = [r \in Requests |-> IF r \in reqs THEN "commit" ELSE "idle"]
  /\ UNCHANGED <<mysql, cache, copies, resetPc, publisher, consumer, reading, history>>

After(r, step) == purchase' = [purchase EXCEPT ![r] = step]

\* Weakened: the update of the stock has no condition.
BuyableSoldOut(r) == orders[r] = None /\ (batch = "outbox" => outbox[r] = "none")

\* The transaction inserts an order: no order of this request exists, a unit is
\* left, and the unique keys of the outbox accept the event.
Buyable(r) == /\ orders[r] = None
              /\ stock > 0
              /\ batch = "outbox" => outbox[r] = "none"

Buy(r) ==
  /\ stock' = stock - 1
  /\ orders' = [orders EXCEPT ![r] = batch]
  /\ outbox' = IF batch = "outbox" THEN [outbox EXCEPT ![r] = "pending"] ELSE outbox
  /\ dirty' = dirty \cup {r}
  /\ UNCHANGED stuck

\* Weakened: a synchronous purchase answers without its DEL.
CommitUndeleted(r) ==
  /\ purchase[r] = "commit"
  /\ IF Buyable(r) THEN Buy(r) ELSE UNCHANGED <<mysql, dirty, stuck>>
  /\ After(r, "idle")
  /\ UNCHANGED <<spent, excuse, cache, copies, batch, resetPc, publisher, consumer, reading>>

\* CommitMaterialPurchase. A repeated synchronous purchase deletes again.
Commit(r) ==
  /\ purchase[r] = "commit"
  /\ \/ /\ Buyable(r) /\ Buy(r)
        /\ After(r, IF batch = "sync" THEN "delete" ELSE "idle")
        /\ UNCHANGED <<spent, excuse>>
     \/ /\ ~Buyable(r)
        /\ After(r, IF orders[r] = "sync" /\ batch = "sync" THEN "delete" ELSE "idle")
        /\ UNCHANGED <<mysql, spent, history>>
     \/ /\ Fault /\ After(r, "idle")
        /\ \/ UNCHANGED <<mysql, history>>
           \/ Buyable(r) /\ Buy(r) /\ excuse' = IF batch = "sync" THEN excuse \cup {"sync"} ELSE excuse
  /\ UNCHANGED <<cache, copies, batch, resetPc, publisher, consumer, reading>>

\* deleteMaterialCacheWithRetry: up to three attempts, or until the client is
\* gone; then the purchase answers an error.
SyncDelete(r) ==
  /\ purchase[r] = "delete"
  /\ \/ Delete /\ After(r, "idle") /\ UNCHANGED spent
     \/ /\ Fault /\ UNCHANGED <<cache, dirty>>
        /\ \/ UNCHANGED <<purchase, excuse>>
           \/ After(r, "idle") /\ excuse' = excuse \cup {"sync"}
  /\ UNCHANGED <<mysql, copies, batch, resetPc, publisher, consumer, reading, stuck>>

FinishBatch ==
  /\ batch # None /\ \A r \in Requests : purchase[r] = "idle"
  /\ batch' = None
  /\ UNCHANGED <<mysql, cache, copies, purchase, resetPc, publisher, consumer, reading, spent,
                 history>>

-----------------------------------------------------------------------------
(* Reset: one transaction, then the warm copy                              *)

\* Weakened: the open events survive the reset.
ResetKeepsEvents ==
  /\ MuFree
  /\ Spend("reset", MaxResets)
  /\ stock' = Initial
  /\ orders' = [r \in Requests |-> None]
  /\ resetPc' = "warm"
  /\ dirty' = {} /\ stuck' = {} /\ excuse' = excuse \cup {"reset"}
  /\ UNCHANGED <<outbox, cache, copies, batch, purchase, publisher, consumer, reading>>

ResetCommit ==
  /\ MuFree
  /\ Spend("reset", MaxResets)
  /\ stock' = Initial
  /\ outbox' = [r \in Requests |-> IF outbox[r] \in Open THEN "cancelled" ELSE outbox[r]]
  /\ orders' = [r \in Requests |-> None]
  /\ resetPc' = "warm"
  /\ dirty' = {} /\ stuck' = {} /\ excuse' = excuse \cup {"reset"}
  /\ UNCHANGED <<cache, copies, batch, purchase, publisher, consumer, reading>>

\* The detail is read and stored; no purchase can commit in between. When one
\* of the calls fails, the reset answers an error and the old copy stays.
ResetWarm ==
  /\ resetPc = "warm"
  /\ resetPc' = "idle"
  /\ \/ Fill(stock) /\ UNCHANGED spent
     \/ Fault /\ UNCHANGED <<cache, excuse>>
  /\ UNCHANGED <<mysql, copies, batch, purchase, publisher, consumer, reading, dirty, stuck>>

-----------------------------------------------------------------------------
(* RunOutboxWorker                                                         *)

Publisher(step, event) == publisher' = [pc |-> step, event |-> event]

\* Weakened: events claimed before the crash are not recovered.
RecoverPublished ==
  /\ publisher.pc = "start"
  /\ Publisher("wait", None)
  /\ outbox' = [r \in Requests |-> IF outbox[r] = "published" THEN "retry" ELSE outbox[r]]
  /\ stuck' = {}
  /\ UNCHANGED <<stock, orders, cache, copies, lab, consumer, reading, spent, dirty, excuse>>

\* RecoverPurchaseOutbox at the start of the process; its failure is only logged.
Recover ==
  /\ publisher.pc = "start"
  /\ Publisher("wait", None)
  /\ \/ /\ outbox' = [r \in Requests |-> IF outbox[r] \in {"publishing", "published"}
                                           THEN "retry" ELSE outbox[r]]
        /\ stuck' = {}
        /\ UNCHANGED spent
     \/ /\ Fault
        /\ stuck' = {r \in Requests : outbox[r] = "publishing"}
        /\ UNCHANGED outbox
  /\ UNCHANGED <<stock, orders, cache, copies, lab, consumer, reading, dirty, excuse>>

\* The ticker fires once a second and is ignored during an outbox experiment.
Scan ==
  /\ publisher.pc = "wait" /\ batch # "outbox"
  /\ \E r \in Requests : outbox[r] \in {"pending", "retry"}
  /\ Publisher("claim", None)
  /\ UNCHANGED <<mysql, cache, copies, lab, consumer, reading, spent, history>>

\* ClaimNextPurchaseOutbox. When the commit of the claim reports an error, the
\* row may be "publishing" although the publisher does not know it.
ClaimEvent(r) ==
  /\ publisher.pc = "claim"
  /\ outbox[r] \in {"pending", "retry"}
  /\ SetStatus(r, {"pending", "retry"}, "publishing")
  /\ \/ Publisher("send", r) /\ UNCHANGED <<spent, stuck>>
     \/ Publisher("wait", None) /\ Fault /\ stuck' = stuck \cup {r}
  /\ UNCHANGED <<stock, orders, cache, copies, lab, consumer, reading, dirty, excuse>>

\* No event is due (those in "retry" may be in their back-off), or the call fails.
ClaimNothing ==
  /\ publisher.pc = "claim"
  /\ Publisher("wait", None)
  /\ \/ (\A r \in Requests : outbox[r] # "pending") /\ UNCHANGED spent
     \/ Fault
  /\ UNCHANGED <<mysql, cache, copies, lab, consumer, reading, history>>

\* SendPurchaseCacheInvalidation; a send that failed may have arrived.
Send ==
  LET r    == publisher.event
      sent == [copies EXCEPT ![r] = @ + 1]
  IN  /\ publisher.pc = "send"
      /\ \/ copies' = sent /\ Publisher("published", r) /\ UNCHANGED spent
         \/ copies' \in {copies, sent} /\ Publisher("failed", r) /\ Fault
      /\ UNCHANGED <<mysql, cache, lab, consumer, reading, history>>

\* Weakened: the update does not look at the status of the row.
MarkPublishedAlways ==
  /\ publisher.pc = "published"
  /\ SetStatus(publisher.event, Open \cup Terminal, "published")
  /\ Publisher("claim", None)
  /\ UNCHANGED <<stock, orders, cache, copies, lab, consumer, reading, spent, history>>

\* MarkPurchaseOutboxPublished, and after a failed send
\* MarkPurchaseOutboxPublishFailed. When the update fails, this scan ends; the
\* event stays "publishing" until the next start of the process.
Mark(step, status) ==
  LET r == publisher.event
  IN  /\ publisher.pc = step
      /\ \/ SetStatus(r, {"publishing"}, status) /\ Publisher("claim", None) /\ UNCHANGED <<spent, stuck>>
         \/ UNCHANGED outbox /\ Publisher("wait", None) /\ Fault /\ stuck' = stuck \cup {r}
      /\ UNCHANGED <<stock, orders, cache, copies, lab, consumer, reading, dirty, excuse>>

MarkPublished == Mark("published", "published")
MarkFailed    == Mark("failed", "retry")

-----------------------------------------------------------------------------
(* ConsumeCacheInvalidation in the loop of RunPurchaseCacheConsumer        *)

Consumer(step, event) == consumer' = [pc |-> step, event |-> event]

\* The message is acknowledged, unless the acknowledgement fails.
Ack(r) == \/ copies' = [copies EXCEPT ![r] = @ - 1] /\ UNCHANGED spent
          \/ Fault /\ UNCHANGED copies

\* PurchaseOutboxByEvent: a settled event is acknowledged and deletes nothing.
Receive(r) ==
  /\ consumer.pc = "idle" /\ copies[r] > 0
  /\ IF outbox[r] \in Open THEN Consumer("delete", r) /\ UNCHANGED <<copies, spent>>
                           ELSE UNCHANGED consumer /\ Ack(r)
  /\ UNCHANGED <<mysql, cache, lab, publisher, reading, history>>

\* Weakened: the event is completed although the DEL failed.
ConsumeDeleteUnchecked ==
  /\ consumer.pc = "delete"
  /\ Consumer("complete", consumer.event)
  /\ \/ Delete /\ UNCHANGED spent
     \/ Fault /\ UNCHANGED <<cache, dirty, excuse>>
  /\ UNCHANGED <<mysql, copies, lab, publisher, reading, stuck>>

\* A failed DEL leaves the message unacknowledged.
ConsumeDelete ==
  /\ consumer.pc = "delete"
  /\ \/ Delete /\ Consumer("complete", consumer.event) /\ UNCHANGED spent
     \/ Fault /\ consumer' = Idle /\ UNCHANGED <<cache, dirty, excuse>>
  /\ UNCHANGED <<mysql, copies, lab, publisher, reading, stuck>>

\* MarkPurchaseOutboxInvalidated, then the acknowledgement.
Complete ==
  LET r == consumer.event
  IN  /\ consumer.pc = "complete"
      /\ consumer' = Idle
      /\ \/ SetStatus(r, Open, "completed") /\ Ack(r)
         \/ Fault /\ UNCHANGED <<outbox, copies>>
      /\ UNCHANGED <<stock, orders, cache, lab, publisher, reading, history>>

-----------------------------------------------------------------------------
(* readCached                                                              *)

Reader(q, step, value) == reader' = [reader EXCEPT ![q] = [pc |-> step, value |-> value]]

\* A hit and a Redis error change nothing; a miss goes for the lock.
Miss(q) ==
  /\ reader[q].pc = "idle" /\ cache = None
  /\ Reader(q, "lock", None)
  /\ UNCHANGED <<mysql, cache, copies, lab, publisher, consumer, fillLock, spent, history>>

\* Double check under the lock; when it fails the reader goes on to MySQL.
DoubleCheck(q) ==
  /\ reader[q].pc = "lock" /\ fillLock = None
  /\ \/ cache = None /\ Reader(q, "load", None) /\ fillLock' = q /\ UNCHANGED spent
     \/ cache # None /\ Reader(q, "idle", None) /\ UNCHANGED <<fillLock, spent>>
     \/ Fault /\ Reader(q, "load", None) /\ fillLock' = q
  /\ UNCHANGED <<mysql, cache, copies, lab, publisher, consumer, history>>

Load(q) ==
  /\ reader[q].pc = "load"
  /\ \/ Reader(q, "fill", stock) /\ UNCHANGED <<fillLock, spent>>
     \/ Reader(q, "idle", None) /\ fillLock' = None /\ Fault
  /\ UNCHANGED <<mysql, cache, copies, lab, publisher, consumer, history>>

\* A failed SET does not fail the query.
FillCache(q) ==
  /\ reader[q].pc = "fill"
  /\ Reader(q, "idle", None) /\ fillLock' = None
  /\ \/ Fill(reader[q].value) /\ UNCHANGED spent
     \/ Fault /\ UNCHANGED <<cache, excuse>>
  /\ UNCHANGED <<mysql, copies, lab, publisher, consumer, dirty, stuck>>

-----------------------------------------------------------------------------
\* ArchiveCacheTTL ends.
CopyExpires ==
  /\ cache # None
  /\ cache' = None /\ excuse' = {}
  /\ UNCHANGED <<mysql, copies, lab, publisher, consumer, reading, spent, dirty, stuck>>

\* The process exits. A purchase between commit and DEL loses its DEL.
Crash ==
  /\ Spend("crash", MaxCrashes)
  /\ batch' = None
  /\ purchase' = [r \in Requests |-> "idle"]
  /\ resetPc' = "idle"
  /\ publisher' = [pc |-> "start", event |-> None]
  /\ consumer' = Idle
  /\ reader' = [q \in Readers |-> [pc |-> "idle", value |-> None]]
  /\ fillLock' = None
  /\ excuse' = IF \E r \in Requests : purchase[r] = "delete" THEN excuse \cup {"sync"} ELSE excuse
  /\ UNCHANGED <<mysql, cache, copies, dirty, stuck>>

Purchasing == (\E r \in Requests : Commit(r) \/ SyncDelete(r)) \/ FinishBatch \/ ResetWarm
Publishing == \/ Recover \/ Scan \/ ClaimNothing \/ Send \/ MarkPublished \/ MarkFailed
              \/ \E r \in Requests : ClaimEvent(r)
Consuming  == ConsumeDelete \/ Complete

Next ==
  \/ \E reqs \in Batches, s \in Strategy : StartBatch(reqs, s)
  \/ ResetCommit
  \/ Purchasing
  \/ Publishing
  \/ \E r \in Requests : Receive(r)
  \/ Consuming
  \/ \E q \in Readers : Miss(q) \/ DoubleCheck(q) \/ Load(q) \/ FillCache(q)
  \/ CopyExpires
  \/ Crash

\* Goroutines under way go on, the ticker fires, RocketMQ redelivers what is
\* not acknowledged, a back-off ends (250 ms to 8 s). Nobody has to start an
\* experiment, a reset or a query.
Fairness == /\ WF_vars(Purchasing) /\ WF_vars(Publishing) /\ WF_vars(Consuming)
            /\ \A r \in Requests : SF_vars(ClaimEvent(r)) /\ SF_vars(Receive(r))

Spec     == Init /\ [][Next]_vars
FairSpec == Spec /\ Fairness

-----------------------------------------------------------------------------
TypeOK ==
  /\ stock \in Stock
  /\ orders \in [Requests -> Strategy \cup {None}]
  /\ outbox \in [Requests -> Open \cup Terminal \cup {"none"}]
  /\ cache \in Stock \cup {None}
  /\ copies \in [Requests -> Nat]
  /\ batch \in Strategy \cup {None}
  /\ purchase \in [Requests -> {"idle", "commit", "delete"}]
  /\ resetPc \in {"idle", "warm"}
  /\ publisher \in [pc : {"start", "wait", "claim", "send", "published", "failed"},
                    event : Requests \cup {None}]
  /\ consumer \in [pc : {"idle", "delete", "complete"}, event : Requests \cup {None}]
  /\ reader \in [Readers -> [pc : {"idle", "lock", "load", "fill"}, value : Stock \cup {None}]]
  /\ fillLock \in Readers \cup {None}
  /\ spent \in [batch : 0 .. MaxBatches, reset : 0 .. MaxResets,
                fault : 0 .. MaxFaults, crash : 0 .. MaxCrashes]
  /\ dirty \subseteq Requests /\ stuck \subseteq Requests
  /\ excuse \subseteq {"fill", "sync", "reset"}

Ordered == {r \in Requests : orders[r] # None}

\* Stock and orders add up to the initial stock.
UnitsMatch == stock + Cardinality(Ordered) = Initial

\* Every unit taken has its order, every order its unit and nothing is sold that
\* is not there, also when a request is repeated, conflicts, is sold out or meets
\* its outbox row of before a reset.
StockMatchesOrders == UnitsMatch /\ stock >= 0

\* An order of the outbox strategy and its event exist together, and an event
\* that is still open always has its order: no orphan event deletes a copy.
EventsMatchOrders == \A r \in Requests : /\ orders[r] = "outbox" => outbox[r] # "none"
                                         /\ outbox[r] \in Open => orders[r] = "outbox"

\* "completed" is a promise about Redis: after the commit of the order a DEL
\* really ran (service/purchase_experiment.go:709-735).
CompletedMeansDeleted == \A r \in dirty : orders[r] = "outbox" => outbox[r] # "completed"

\* A copy that differs from MySQL has an open event, a DEL under way, or one of
\* the failures that leave it to its TTL: a late fill, a synchronous DEL that
\* was given up, a reset that did not reach its warm-up.
StaleCopyHasReason ==
  cache \notin {None, stock} =>
    \/ excuse # {}
    \/ \E r \in dirty : outbox[r] \in Open \/ purchase[r] = "delete"

\* "completed" and "cancelled" are final (docs/reliability.md:367): the publisher
\* that is slower than the consumer does not take them back.
SettledEventsAreFinal ==
  [][\A r \in Requests : outbox[r] \in Terminal => outbox'[r] = outbox[r]]_vars

\* Every open event is settled, whatever crashes come in between, unless a failed
\* MySQL call of the publisher left it "publishing" until the next start.
OpenEventSettles == \A r \in Requests : outbox[r] \in Open ~> (outbox[r] \notin Open \/ r \in stuck)
=============================================================================
