------------------------- MODULE PurchaseOutboxProofs ------------------------
(***************************************************************************)
(* The purchase experiment for any number of purchases, readers, resets,   *)
(* failed calls and crashes: units and orders, orders and events, events   *)
(* and the cached copy stay accountable to one another.                    *)
(***************************************************************************)
EXTENDS PurchaseOutbox, FiniteSetTheorems, TLAPS

\* The experiment lock and the two workers: without an experiment no purchase is
\* under way, a worker with an event works on a row that exists, and the
\* consumer's copy is not acknowledged yet.
Control ==
  /\ batch = None => \A r \in Requests : purchase[r] = "idle"
  /\ publisher.pc \in {"send", "published", "failed"} => publisher.event \in Requests
  /\ consumer.pc # "idle" => /\ consumer.event \in Requests
                             /\ copies[consumer.event] > 0
                             /\ outbox[consumer.event] # "none"

Shape == TypeOK /\ Control

\* A purchase that commits takes one unit, one order and at most one new event,
\* and no event row goes away.
LEMMA BuyType ==
  ASSUME Shape, NEW r \in Requests, purchase[r] = "commit", Buyable(r), Buy(r)
  PROVE  /\ stock' \in Stock /\ orders' \in [Requests -> Strategy \cup {None}]
         /\ outbox' \in [Requests -> Open \cup Terminal \cup {"none"}]
         /\ \A e \in Requests : outbox[e] # "none" => outbox'[e] # "none"
         /\ dirty' \subseteq Requests /\ stuck' = stuck
BY InitialAssumption DEF Shape, TypeOK, Control, Buyable, Buy, Stock, Open, Terminal

\* The state after the migration is well typed.
LEMMA ShapeInit == Init => Shape
BY InitialAssumption, BoundsAssumption DEF Init, Shape, TypeOK, Control, Idle, Open, Strategy, Stock

\* Every transaction, call and failure keeps the types: the stock stays between
\* zero and the baseline (database/purchase_experiment.go:239-255), and a message
\* is acknowledged at most as often as it was sent.
LEMMA ShapeNext == Shape /\ [Next]_vars => Shape'
<1> SUFFICES ASSUME Shape, [Next]_vars PROVE Shape'
  OBVIOUS
<1> USE InitialAssumption, BoundsAssumption, NoneAssumption, RequestsAssumption, BatchesAssumption
    DEF Shape, TypeOK, Control, Idle, Fault, Spend, Strategy, Stock, Open, Terminal, MuFree,
        mysql, lab, reading, history
<1>1. ASSUME NEW reqs \in Batches, NEW s \in Strategy, StartBatch(reqs, s) PROVE Shape'
  BY <1>1 DEF StartBatch
<1>2. ASSUME ResetCommit PROVE Shape'
  BY <1>2 DEF ResetCommit
<1>3. ASSUME NEW r \in Requests, Commit(r) PROVE Shape'
<2>1. /\ stock' \in Stock /\ orders' \in [Requests -> Strategy \cup {None}]
      /\ outbox' \in [Requests -> Open \cup Terminal \cup {"none"}]
      /\ \A e \in Requests : outbox[e] # "none" => outbox'[e] # "none"
      /\ dirty' \subseteq Requests /\ stuck' = stuck
  BY <1>3, BuyType DEF Commit
<2>2. purchase' \in [Requests -> {"idle", "commit", "delete"}] /\ batch # None
  BY <1>3 DEF Commit, After
<2>3. excuse' \subseteq {"fill", "sync", "reset"}
  <3>1. excuse' \in {excuse, excuse \cup {"sync"}}
    BY <1>3 DEF Commit
  <3> QED
    BY <3>1
<2>4. spent' \in [batch : 0 .. MaxBatches, reset : 0 .. MaxResets,
                  fault : 0 .. MaxFaults, crash : 0 .. MaxCrashes]
  BY <1>3 DEF Commit
<2>5. /\ UNCHANGED <<cache, copies, batch, resetPc, publisher, consumer, reader, fillLock>>
      /\ batch' = None => \A e \in Requests : purchase'[e] = "idle"
  BY <1>3, <2>2 DEF Commit
<2>6. Control'
  BY <2>1, <2>5
<2>. QED
  BY <2>1, <2>2, <2>3, <2>4, <2>5, <2>6
<1>4. ASSUME NEW r \in Requests, SyncDelete(r) PROVE Shape'
<2>1. CASE Delete /\ UNCHANGED spent
  BY <1>4, <2>1 DEF SyncDelete, After, Delete
<2>2. CASE Fault /\ UNCHANGED <<cache, dirty, purchase, excuse>>
  BY <1>4, <2>2 DEF SyncDelete
<2>3. CASE Fault /\ UNCHANGED <<cache, dirty>> /\ After(r, "idle") /\ excuse' = excuse \cup {"sync"}
  BY <1>4, <2>3 DEF SyncDelete, After
<2>. QED
  BY <1>4, <2>1, <2>2, <2>3 DEF SyncDelete
<1>5. ASSUME FinishBatch PROVE Shape'
  BY <1>5 DEF FinishBatch
<1>6. ASSUME ResetWarm PROVE Shape'
<2>1. ASSUME Fill(stock), UNCHANGED spent PROVE Shape'
  BY <1>6, <2>1 DEF ResetWarm, Fill
<2>2. ASSUME Fault, UNCHANGED <<cache, excuse>> PROVE Shape'
  BY <1>6, <2>2 DEF ResetWarm
<2>. QED
  BY <1>6, <2>1, <2>2 DEF ResetWarm
<1>7. ASSUME Recover PROVE Shape'
  BY <1>7 DEF Recover, Publisher
<1>8. ASSUME Scan PROVE Shape'
  BY <1>8 DEF Scan, Publisher
<1>9. ASSUME NEW r \in Requests, ClaimEvent(r) PROVE Shape'
  BY <1>9 DEF ClaimEvent, SetStatus, Publisher
<1>10. ASSUME ClaimNothing PROVE Shape'
  BY <1>10 DEF ClaimNothing, Publisher
<1>11. ASSUME Send PROVE Shape'
  BY <1>11 DEF Send, Publisher
<1>12. ASSUME MarkPublished PROVE Shape'
  BY <1>12 DEF MarkPublished, Mark, SetStatus, Publisher
<1>13. ASSUME MarkFailed PROVE Shape'
  BY <1>13 DEF MarkFailed, Mark, SetStatus, Publisher
<1>14. ASSUME NEW r \in Requests, Receive(r) PROVE Shape'
  BY <1>14 DEF Receive, Ack, Consumer
<1>15. ASSUME ConsumeDelete PROVE Shape'
<2>1. CASE Delete /\ UNCHANGED spent
  BY <1>15, <2>1 DEF ConsumeDelete, Consumer, Delete
<2>2. CASE Fault /\ UNCHANGED <<cache, dirty, excuse>>
  BY <1>15, <2>2 DEF ConsumeDelete, Consumer
<2>. QED
  BY <1>15, <2>1, <2>2 DEF ConsumeDelete
<1>16. ASSUME Complete PROVE Shape'
<2>1. CASE SetStatus(consumer.event, Open, "completed") /\ Ack(consumer.event)
  <3>1. outbox' \in [Requests -> Open \cup Terminal \cup {"none"}]
    BY <2>1 DEF SetStatus
  <3>2. copies' \in [Requests -> Nat] /\ copies[consumer.event] > 0
    BY <1>16, <2>1 DEF Complete, Ack
  <3>3. spent' \in [batch : 0 .. MaxBatches, reset : 0 .. MaxResets,
                    fault : 0 .. MaxFaults, crash : 0 .. MaxCrashes]
    BY <2>1 DEF Ack
  <3>. QED
    BY <1>16, <3>1, <3>2, <3>3 DEF Complete
<2>2. CASE Fault /\ UNCHANGED <<outbox, copies>>
  BY <1>16, <2>2 DEF Complete
<2>. QED
  BY <1>16, <2>1, <2>2 DEF Complete
<1>17. ASSUME NEW q \in Readers, Miss(q) PROVE Shape'
  BY <1>17 DEF Miss, Reader
<1>18. ASSUME NEW q \in Readers, DoubleCheck(q) PROVE Shape'
  BY <1>18 DEF DoubleCheck, Reader
<1>19. ASSUME NEW q \in Readers, Load(q) PROVE Shape'
  BY <1>19 DEF Load, Reader
<1>20. ASSUME NEW q \in Readers, FillCache(q) PROVE Shape'
<2>1. CASE Fill(reader[q].value) /\ UNCHANGED spent
  BY <1>20, <2>1 DEF FillCache, Reader, Fill
<2>2. CASE Fault /\ UNCHANGED <<cache, excuse>>
  BY <1>20, <2>2 DEF FillCache, Reader
<2>. QED
  BY <1>20, <2>1, <2>2 DEF FillCache
<1>21. ASSUME CopyExpires PROVE Shape'
  BY <1>21 DEF CopyExpires
<1>22. ASSUME Crash PROVE Shape'
  BY <1>22 DEF Crash
<1>23. ASSUME UNCHANGED vars PROVE Shape'
  BY <1>23 DEF vars
<1> HIDE DEF Shape, TypeOK, Control, Fault, Spend, mysql, lab, reading, history
<1>. QED
  BY <1>1, <1>2, <1>3, <1>4, <1>5, <1>6, <1>7, <1>8, <1>9, <1>10, <1>11, <1>12, <1>13, <1>14, <1>15, <1>16, <1>17, <1>18, <1>19, <1>20, <1>21, <1>22, <1>23
     DEF Next, Purchasing, Publishing, Consuming

-----------------------------------------------------------------------------
(* What a step leaves alone                                                *)

Reading == \E q \in Readers : Miss(q) \/ DoubleCheck(q) \/ Load(q)

\* Only a commit and a reset touch the stock and the orders.
LEMMA StockAndOrders ==
  ASSUME [Next]_vars
  PROVE  \/ UNCHANGED <<stock, orders>>
         \/ ResetCommit
         \/ \E r \in Requests : purchase[r] = "commit" /\ Buyable(r) /\ Buy(r)
<1> USE DEF mysql
<1>1. ASSUME NEW r \in Requests, Commit(r)
      PROVE  UNCHANGED <<stock, orders>> \/ (purchase[r] = "commit" /\ Buyable(r) /\ Buy(r))
  BY <1>1 DEF Commit
<1>2. ASSUME NEW r \in Requests, SyncDelete(r) \/ ClaimEvent(r) \/ Receive(r) PROVE UNCHANGED <<stock, orders>>
  BY <1>2 DEF SyncDelete, ClaimEvent, Receive
<1>3. ASSUME FinishBatch \/ ResetWarm \/ Recover \/ Scan \/ ClaimNothing \/ Send \/ MarkPublished \/ MarkFailed
      PROVE  UNCHANGED <<stock, orders>>
  BY <1>3 DEF FinishBatch, ResetWarm, Recover, Scan, ClaimNothing, Send, MarkPublished, MarkFailed, Mark
<1>4. ASSUME ConsumeDelete \/ Complete \/ CopyExpires \/ Crash \/ UNCHANGED vars PROVE UNCHANGED <<stock, orders>>
  BY <1>4 DEF ConsumeDelete, Complete, CopyExpires, Crash, vars
<1>5. ASSUME NEW q \in Readers, Miss(q) \/ DoubleCheck(q) \/ Load(q) \/ FillCache(q)
      PROVE  UNCHANGED <<stock, orders>>
  BY <1>5 DEF Miss, DoubleCheck, Load, FillCache
<1>6. ASSUME NEW reqs \in Batches, NEW s \in Strategy, StartBatch(reqs, s) PROVE UNCHANGED <<stock, orders>>
  BY <1>6 DEF StartBatch
<1>. QED
  BY <1>1, <1>2, <1>3, <1>4, <1>5, <1>6 DEF Next, Purchasing, Publishing, Consuming

\* Queries before their SET, the publisher between two updates and the end of an
\* experiment change nothing that is accounted for.
LEMMA Bystanders ==
  ASSUME \/ FinishBatch \/ Scan \/ ClaimNothing \/ Send \/ Reading \/ UNCHANGED vars
  PROVE  UNCHANGED <<stock, orders, outbox, cache, purchase, resetPc, consumer, dirty, excuse>>
<1> USE DEF mysql, lab, reading, history
<1>1. ASSUME FinishBatch \/ Scan \/ ClaimNothing \/ Send \/ UNCHANGED vars
      PROVE  UNCHANGED <<stock, orders, outbox, cache, purchase, resetPc, consumer, dirty, excuse>>
  BY <1>1 DEF FinishBatch, Scan, ClaimNothing, Send, vars
<1>2. ASSUME NEW q \in Readers, Miss(q) \/ DoubleCheck(q) \/ Load(q)
      PROVE  UNCHANGED <<stock, orders, outbox, cache, purchase, resetPc, consumer, dirty, excuse>>
  BY <1>2 DEF Miss, DoubleCheck, Load
<1>. QED
  BY <1>1, <1>2 DEF Reading

-----------------------------------------------------------------------------
\* A unit is taken with its order (database/purchase_experiment.go:238-268), and a
\* reset gives all units back with all orders.
LEMMA StockNext == Shape /\ UnitsMatch /\ [Next]_vars => UnitsMatch'
<1> SUFFICES ASSUME Shape, UnitsMatch, [Next]_vars PROVE UnitsMatch'
  OBVIOUS
<1>1. IsFiniteSet(Ordered) /\ Cardinality(Ordered) \in Nat
  BY RequestsAssumption, FS_Subset, FS_CardinalityType DEF Ordered
<1>2. CASE UNCHANGED <<stock, orders>>
  BY <1>2 DEF UnitsMatch, Ordered
<1>3. CASE ResetCommit
  <2>1. Ordered' = {}
    BY <1>3 DEF ResetCommit, Ordered
  <2>. QED
    BY <1>3, <2>1, FS_EmptySet, InitialAssumption DEF ResetCommit, UnitsMatch
<1>4. ASSUME NEW r \in Requests, purchase[r] = "commit", Buyable(r), Buy(r) PROVE UnitsMatch'
  <2>1. Ordered' = Ordered \cup {r} /\ r \notin Ordered
    BY <1>4, NoneAssumption DEF Shape, TypeOK, Control, Buyable, Buy, Ordered
  <2>2. Cardinality(Ordered') = Cardinality(Ordered) + 1
    BY <2>1, <1>1, FS_AddElement
  <2>3. stock' = stock - 1 /\ stock \in Nat
    BY <1>4, InitialAssumption DEF Buy, Shape, TypeOK, Stock
  <2>. QED
    BY <2>2, <2>3, <1>1, InitialAssumption DEF UnitsMatch
<1>. QED
  BY <1>2, <1>3, <1>4, StockAndOrders

\* The consumer that is about to complete an event has deleted the copy after
\* the order of that event, if it was an outbox order, was committed.
Deleted ==
  /\ CompletedMeansDeleted
  /\ consumer.pc = "complete" /\ consumer.event \in dirty => orders[consumer.event] # "outbox"

\* An event is inserted with its order, stays until it is settled, and is settled
\* either after the DEL or by the reset that removes the order.
LEMMA EventsNext ==
  Shape /\ EventsMatchOrders /\ Deleted /\ [Next]_vars => EventsMatchOrders' /\ Deleted'
<1> SUFFICES ASSUME Shape, EventsMatchOrders, Deleted, [Next]_vars
             PROVE  EventsMatchOrders' /\ Deleted'
  OBVIOUS
<1> USE NoneAssumption DEF Shape, TypeOK, Control, EventsMatchOrders, Deleted, CompletedMeansDeleted,
                           Open, Terminal, Strategy, Idle, MuFree, mysql, lab, reading, history
<1>1. ASSUME NEW reqs \in Batches, NEW s \in Strategy, StartBatch(reqs, s) PROVE EventsMatchOrders' /\ Deleted'
  BY <1>1 DEF StartBatch
<1>2. ASSUME ResetCommit PROVE EventsMatchOrders' /\ Deleted'
  BY <1>2 DEF ResetCommit
<1>3. ASSUME NEW r \in Requests, Commit(r) PROVE EventsMatchOrders' /\ Deleted'
  BY <1>3 DEF Commit, Buyable, Buy, After
<1>4. ASSUME NEW r \in Requests, SyncDelete(r) PROVE EventsMatchOrders' /\ Deleted'
  BY <1>4 DEF SyncDelete, After, Delete
<1>5. ASSUME ResetWarm PROVE EventsMatchOrders' /\ Deleted'
  BY <1>5 DEF ResetWarm, Fill
<1>6. ASSUME Recover PROVE EventsMatchOrders' /\ Deleted'
  BY <1>6 DEF Recover, Publisher
<1>7. ASSUME NEW r \in Requests, ClaimEvent(r) PROVE EventsMatchOrders' /\ Deleted'
  BY <1>7 DEF ClaimEvent, SetStatus, Publisher
<1>8. ASSUME MarkPublished PROVE EventsMatchOrders' /\ Deleted'
  BY <1>8 DEF MarkPublished, Mark, SetStatus, Publisher
<1>9. ASSUME MarkFailed PROVE EventsMatchOrders' /\ Deleted'
  BY <1>9 DEF MarkFailed, Mark, SetStatus, Publisher
<1>10. ASSUME NEW r \in Requests, Receive(r) PROVE EventsMatchOrders' /\ Deleted'
  BY <1>10 DEF Receive, Ack, Consumer
<1>11. ASSUME ConsumeDelete PROVE EventsMatchOrders' /\ Deleted'
  BY <1>11 DEF ConsumeDelete, Delete, Consumer
<1>12. ASSUME Complete PROVE EventsMatchOrders' /\ Deleted'
  BY <1>12 DEF Complete, SetStatus, Ack
<1>13. ASSUME NEW q \in Readers, FillCache(q) PROVE EventsMatchOrders' /\ Deleted'
  BY <1>13 DEF FillCache, Fill, Reader
<1>14. ASSUME CopyExpires PROVE EventsMatchOrders' /\ Deleted'
  BY <1>14 DEF CopyExpires
<1>15. ASSUME Crash PROVE EventsMatchOrders' /\ Deleted'
  BY <1>15 DEF Crash
<1>16. CASE FinishBatch \/ Scan \/ ClaimNothing \/ Send \/ Reading \/ UNCHANGED vars
  BY <1>16, Bystanders
<1>. QED
  BY <1>1, <1>2, <1>3, <1>4, <1>5, <1>6, <1>7, <1>8, <1>9, <1>10, <1>11, <1>12, <1>13, <1>14, <1>15, <1>16
     DEF Next, Purchasing, Publishing, Consuming, Reading

\* A copy that is old has somebody who will remove it, or a failure explains it.
LEMMA CopyNext ==
  Shape /\ EventsMatchOrders /\ Deleted /\ StaleCopyHasReason /\ [Next]_vars => StaleCopyHasReason'
<1> SUFFICES ASSUME Shape, EventsMatchOrders, Deleted, StaleCopyHasReason, [Next]_vars
             PROVE  StaleCopyHasReason'
  OBVIOUS
<1> USE NoneAssumption DEF Shape, TypeOK, Control, EventsMatchOrders, Deleted, CompletedMeansDeleted,
                           StaleCopyHasReason, Open, Terminal, Strategy, Idle, MuFree,
                           mysql, lab, reading, history
<1>1. ASSUME NEW reqs \in Batches, NEW s \in Strategy, StartBatch(reqs, s) PROVE StaleCopyHasReason'
  BY <1>1 DEF StartBatch
<1>2. ASSUME ResetCommit PROVE StaleCopyHasReason'
  BY <1>2 DEF ResetCommit
<1>3. ASSUME NEW r \in Requests, Commit(r) PROVE StaleCopyHasReason'
<2>1. batch \in {"sync", "outbox"} /\ cache' = cache
  BY <1>3 DEF Commit
<2>2. CASE Buy(r) /\ After(r, IF batch = "sync" THEN "delete" ELSE "idle")
  <3>1. r \in dirty' /\ (outbox'[r] = "pending" \/ purchase'[r] = "delete")
    BY <2>1, <2>2 DEF Buy, After
  <3>. QED
    BY <3>1
<2>3. CASE Buy(r) /\ excuse' = (IF batch = "sync" THEN excuse \cup {"sync"} ELSE excuse)
  <3>1. CASE batch = "sync"
    BY <2>3, <3>1
  <3>2. CASE batch = "outbox"
    <4>1. r \in dirty' /\ outbox'[r] = "pending"
      BY <2>3, <3>2 DEF Buy
    <4>. QED
      BY <4>1
  <3>. QED
    BY <2>1, <3>1, <3>2
<2>4. CASE UNCHANGED <<mysql, history>>
  <3>1. \A e \in Requests : purchase[e] = "delete" => purchase'[e] = "delete"
    BY <1>3 DEF Commit, After
  <3>. QED
    BY <2>1, <2>4, <3>1
<2>. QED
  BY <1>3, <2>2, <2>3, <2>4 DEF Commit
<1>4. ASSUME NEW r \in Requests, SyncDelete(r) PROVE StaleCopyHasReason'
  BY <1>4 DEF SyncDelete, After, Delete
<1>5. ASSUME ResetWarm PROVE StaleCopyHasReason'
  BY <1>5 DEF ResetWarm, Fill
<1>6. ASSUME Recover PROVE StaleCopyHasReason'
  BY <1>6 DEF Recover, Publisher
<1>7. ASSUME NEW r \in Requests, ClaimEvent(r) PROVE StaleCopyHasReason'
  BY <1>7 DEF ClaimEvent, SetStatus, Publisher
<1>8. ASSUME MarkPublished PROVE StaleCopyHasReason'
  BY <1>8 DEF MarkPublished, Mark, SetStatus, Publisher
<1>9. ASSUME MarkFailed PROVE StaleCopyHasReason'
  BY <1>9 DEF MarkFailed, Mark, SetStatus, Publisher
<1>10. ASSUME NEW r \in Requests, Receive(r) PROVE StaleCopyHasReason'
  BY <1>10 DEF Receive, Ack, Consumer
<1>11. ASSUME ConsumeDelete PROVE StaleCopyHasReason'
  BY <1>11 DEF ConsumeDelete, Delete, Consumer
<1>12. ASSUME Complete PROVE StaleCopyHasReason'
  BY <1>12 DEF Complete, SetStatus, Ack
<1>13. ASSUME NEW q \in Readers, FillCache(q) PROVE StaleCopyHasReason'
  BY <1>13 DEF FillCache, Fill, Reader
<1>14. ASSUME CopyExpires PROVE StaleCopyHasReason'
  BY <1>14 DEF CopyExpires
<1>15. ASSUME Crash PROVE StaleCopyHasReason'
  BY <1>15 DEF Crash
<1>16. CASE FinishBatch \/ Scan \/ ClaimNothing \/ Send \/ Reading \/ UNCHANGED vars
  BY <1>16, Bystanders
<1>. QED
  BY <1>1, <1>2, <1>3, <1>4, <1>5, <1>6, <1>7, <1>8, <1>9, <1>10, <1>11, <1>12, <1>13, <1>14, <1>15, <1>16
     DEF Next, Purchasing, Publishing, Consuming, Reading

-----------------------------------------------------------------------------
Accounts == Shape /\ UnitsMatch /\ EventsMatchOrders /\ Deleted /\ StaleCopyHasReason

\* The state after the migration: everything in stock, no orders, no events.
LEMMA AccountsInit == Init => Accounts
<1> SUFFICES ASSUME Init PROVE Accounts
  OBVIOUS
<1>1. Ordered = {}
  BY DEF Init, Ordered
<1>2. UnitsMatch
  BY <1>1, FS_EmptySet, InitialAssumption DEF Init, UnitsMatch
<1>. QED
  BY <1>2, ShapeInit, NoneAssumption
  DEF Init, Accounts, EventsMatchOrders, Deleted, CompletedMeansDeleted, StaleCopyHasReason, Idle, Open, Strategy

\* The inductive invariant behind the theorems of this module.
LEMMA AccountsInv == Spec => []Accounts
<1>1. Accounts /\ [Next]_vars => Accounts'
  BY ShapeNext, StockNext, EventsNext, CopyNext DEF Accounts
<1>. QED
  BY AccountsInit, <1>1, PTL DEF Spec

\* Every reachable state is well typed, for any numbers of purchases, readers,
\* resets and faults.
THEOREM PurchaseTypeCorrect == Spec => []TypeOK
BY AccountsInv, PTL DEF Accounts, Shape

\* Units taken and orders are the same number, whatever is repeated, refused,
\* rolled back, reset or lost in between.
THEOREM OneUnitPerOrder == Spec => []StockMatchesOrders
<1>1. Accounts => StockMatchesOrders
  BY InitialAssumption DEF Accounts, Shape, TypeOK, Stock, StockMatchesOrders
<1>. QED
  BY AccountsInv, <1>1, PTL

\* No outbox order without its event, no open event without its order.
THEOREM EventWithItsOrder == Spec => []EventsMatchOrders
BY AccountsInv, PTL DEF Accounts

\* A completed event vouches for a DEL after the commit of its order.
THEOREM CompletedIsDeleted == Spec => []CompletedMeansDeleted
BY AccountsInv, PTL DEF Accounts, Deleted

\* An old copy in Redis is never an unexplained one.
THEOREM OldCopyIsExplained == Spec => []StaleCopyHasReason
BY AccountsInv, PTL DEF Accounts

\* No transaction takes a settled event back, and no new purchase reuses its row:
\* the publisher's updates ask for "publishing", the restart and the consumer for
\* an open status (database/purchase_experiment.go:321-418).
LEMMA SettledStep ==
  ASSUME Shape, [Next]_vars, NEW e \in Requests, outbox[e] \in Terminal PROVE outbox'[e] = outbox[e]
<1> USE DEF Shape, TypeOK, Control, Open, Terminal, mysql
<1>1. ASSUME NEW reqs \in Batches, NEW s \in Strategy, StartBatch(reqs, s) PROVE outbox'[e] = outbox[e]
  BY <1>1 DEF StartBatch
<1>2. ASSUME ResetCommit PROVE outbox'[e] = outbox[e]
  BY <1>2 DEF ResetCommit
<1>3. ASSUME NEW r \in Requests, Commit(r) PROVE outbox'[e] = outbox[e]
  BY <1>3 DEF Commit, Buyable, Buy, After
<1>4. ASSUME NEW r \in Requests, SyncDelete(r) PROVE outbox'[e] = outbox[e]
  BY <1>4 DEF SyncDelete, After, Delete
<1>5. ASSUME ResetWarm PROVE outbox'[e] = outbox[e]
  BY <1>5 DEF ResetWarm, Fill
<1>6. ASSUME Recover PROVE outbox'[e] = outbox[e]
  BY <1>6 DEF Recover, Publisher
<1>7. ASSUME NEW r \in Requests, ClaimEvent(r) PROVE outbox'[e] = outbox[e]
  BY <1>7 DEF ClaimEvent, SetStatus, Publisher
<1>8. ASSUME MarkPublished PROVE outbox'[e] = outbox[e]
  BY <1>8 DEF MarkPublished, Mark, SetStatus, Publisher
<1>9. ASSUME MarkFailed PROVE outbox'[e] = outbox[e]
  BY <1>9 DEF MarkFailed, Mark, SetStatus, Publisher
<1>10. ASSUME NEW r \in Requests, Receive(r) PROVE outbox'[e] = outbox[e]
  BY <1>10 DEF Receive, Ack, Consumer
<1>11. ASSUME ConsumeDelete PROVE outbox'[e] = outbox[e]
  BY <1>11 DEF ConsumeDelete, Delete, Consumer
<1>12. ASSUME Complete PROVE outbox'[e] = outbox[e]
  BY <1>12 DEF Complete, SetStatus, Ack
<1>13. ASSUME NEW q \in Readers, FillCache(q) PROVE outbox'[e] = outbox[e]
  BY <1>13 DEF FillCache, Fill, Reader
<1>14. ASSUME CopyExpires PROVE outbox'[e] = outbox[e]
  BY <1>14 DEF CopyExpires
<1>15. ASSUME Crash PROVE outbox'[e] = outbox[e]
  BY <1>15 DEF Crash
<1>16. CASE FinishBatch \/ Scan \/ ClaimNothing \/ Send \/ Reading \/ UNCHANGED vars
  BY <1>16, Bystanders
<1>. QED
  BY <1>1, <1>2, <1>3, <1>4, <1>5, <1>6, <1>7, <1>8, <1>9, <1>10, <1>11, <1>12, <1>13, <1>14, <1>15, <1>16
     DEF Next, Purchasing, Publishing, Consuming, Reading

\* "completed" and "cancelled" are final in every behaviour.
THEOREM SettledStaySettled == Spec => SettledEventsAreFinal
<1> DEFINE Final == \A r \in Requests : outbox[r] \in Terminal => outbox'[r] = outbox[r]
<1>1. Shape /\ [Next]_vars => [Final]_vars
  BY SettledStep
<1>2. Spec => []Shape
  BY AccountsInv, PTL DEF Accounts
<1>. QED
  BY <1>1, <1>2, PTL DEF Spec, SettledEventsAreFinal
==============================================================================
