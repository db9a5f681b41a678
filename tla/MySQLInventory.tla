--------------------------- MODULE MySQLInventory ---------------------------
(***************************************************************************)
(* The MySQL inventory mode: one transaction takes a unit of cache_stock   *)
(* and inserts the pending order (database/inventory_cacheaside.go), one   *)
(* gives the unit back and cancels the order, and conditional updates      *)
(* decide between payment and cancellation (database/order.go).            *)
(*                                                                         *)
(* Draw is CacheAsideLotteryService.Draw (service/lottery_cacheaside.go),  *)
(* which no route reaches any more; Pay, GiveUp and TimeoutCancel serve    *)
(* the orders it left (service/order.go).  Those three hold the barrier    *)
(* against the reset for their whole duration.  Draw does not: it may run  *)
(* on both sides of a reset.                                               *)
(*                                                                         *)
(* Data: the aggregate stock key holds the gifts it shows as available.    *)
(* Time: a deadline may have passed or not whenever it is looked at; the   *)
(* deadline of an order is known by the epoch it was computed in.          *)
(***************************************************************************)
EXTENDS Integers, FiniteSets

CONSTANTS
    Users, Gifts,
    Count,         \* inventory.count, the baseline of every gift
    Workers,       \* goroutines: requests and consumers
    GateCapacity,  \* the tokens of dbGate
    MaxEpochs,     \* resets
    MaxFaults,     \* failed calls and crashes
    None

ASSUME ConstantsAssumption ==
    /\ IsFiniteSet(Users)
    /\ Count \in [Gifts -> Nat]
    /\ GateCapacity \in Nat \ {0}
    /\ MaxEpochs \in Nat /\ MaxFaults \in Nat
    /\ None \notin Users \cup Gifts

VARIABLES
    stock,     \* inventory.cache_stock
    orders,    \* the row of each user (unique by activity and user), or None
    nextId,    \* AUTO_INCREMENT of orders
    cache,     \* CACHE_ALL_STOCK_KEY: the gifts it shows in stock, or None
    timeouts,  \* CANCEL_ORDER messages not yet acknowledged
    job,       \* what each worker is doing
    resetting, \* the next statement of the reset, or "no"
    epoch,     \* how often the orders were deleted
    adrift,    \* units by which a reset left stock and orders apart
    faults

vars == <<stock, orders, nextId, cache, timeouts, job, resetting, epoch, adrift, faults>>

Row(id, g, e) == [id |-> id, gift |-> g, status |-> "pending_payment", epoch |-> e]

Idle == [op |-> "idle"]

Ids == 1..(1 + Cardinality(Users) * (MaxEpochs + 1))

Orders == [id: Ids, gift: Gifts, epoch: 0..MaxEpochs,
           status: {"pending_payment", "paid", "cancelled"}]

ASSUME NoneIsNoOrder == None \notin Orders

Messages == [user: Users, gift: Gifts, id: Ids, epoch: 0..MaxEpochs]

Places == {"read", "backfill", "acquire", "delStock", "send",
           "cancel", "delRestored", "update"}

Jobs == {Idle} \cup
    [op: {"draw", "pay", "giveup", "timeout"}, at: Places, user: Users,
     epoch: 0..MaxEpochs,           \* of the deadline, and of the message
     seen: SUBSET Gifts,            \* candidates of a read of MySQL
     gift: Gifts \cup {None},
     id: Ids \cup {0}]

TypeOK ==
    /\ stock \in [Gifts -> Nat]
    /\ orders \in [Users -> {None} \cup Orders]
    /\ nextId \in Ids
    /\ cache \in {None} \cup SUBSET Gifts
    /\ timeouts \subseteq Messages
    /\ job \in [Workers -> Jobs]
    /\ resetting \in {"no", "orders", "alter", "stock", "delStock", "clear"}
    /\ epoch \in 0..MaxEpochs
    /\ adrift \in [Gifts -> Int]
    /\ faults \in 0..MaxFaults

\* EnsureCacheStockSchema: the column starts as a copy of count.
Init ==
    /\ stock = Count
    /\ orders = [u \in Users |-> None]
    /\ nextId = 1
    /\ cache = None
    /\ timeouts = {}
    /\ job = [w \in Workers |-> Idle]
    /\ resetting = "no"
    /\ epoch = 0
    /\ adrift = [g \in Gifts |-> 0]
    /\ faults = 0

-----------------------------------------------------------------------------

Begin(w, op, at, u, e) ==
    job' = [job EXCEPT ![w] = [op |-> op, at |-> at, user |-> u, epoch |-> e,
                               seen |-> {}, gift |-> None, id |-> 0]]
At(w, at)   == job[w] # Idle /\ job[w].at = at
Goto(w, at) == job' = [job EXCEPT ![w].at = at]
End(w)      == job' = [job EXCEPT ![w] = Idle]

Fault == faults < MaxFaults /\ faults' = faults + 1

\* BeginSeckillOperation: nothing that holds it runs beside a reset.
Barrier == resetting = "no"
HoldsBarrier(w) == job[w] # Idle /\ job[w].op # "draw"

\* dbGate.  A read holds its token until the key is filled, the transaction of
\* a draw until the key is deleted.
HoldsToken(w) == job[w] # Idle /\ job[w].op = "draw" /\ job[w].at \in {"backfill", "delStock"}
GateIsFree == Cardinality({w \in Workers : HoldsToken(w)}) < GateCapacity

HasRow(u)    == orders[u] # None
Pending(u)   == IF HasRow(u) THEN orders[u].status = "pending_payment" ELSE FALSE
Held(g)      == Cardinality({u \in Users : HasRow(u) /\ orders[u].gift = g
                                             /\ orders[u].status # "cancelled"})
InStock      == {g \in Gifts : stock[g] > 0}

-----------------------------------------------------------------------------
(* CacheAsideLotteryService.Draw *)

\* The breaker refuses, or HasOrder finds a row of the user.
DrawRejected(w) == job[w] = Idle /\ UNCHANGED vars

Draw(w, u) ==
    /\ job[w] = Idle /\ ~HasRow(u)
    /\ Begin(w, "draw", "read", u, 0)
    /\ UNCHANGED <<stock, orders, nextId, cache, timeouts, resetting, epoch, adrift, faults>>

\* The weighted choice proposes any gift shown in stock; without one the
\* answer is "sold out".  The deadline is computed here.
Propose(w, shown) ==
    \/ shown = {} /\ End(w)
    \/ \E g \in shown :
         job' = [job EXCEPT ![w].at = "acquire", ![w].gift = g,
                            ![w].seen = {}, ![w].epoch = epoch]

ReadCached(w) ==
    /\ At(w, "read") /\ cache # None
    /\ Propose(w, cache)
    /\ UNCHANGED <<stock, orders, nextId, cache, timeouts, resetting, epoch, adrift, faults>>

\* A miss, or a failed read of Redis, goes to MySQL through the gate.
ReadOrigin(w) ==
    /\ At(w, "read") /\ GateIsFree
    /\ \/ /\ cache = None \/ faults < MaxFaults
          /\ faults' = IF cache = None THEN faults ELSE faults + 1
          /\ job' = [job EXCEPT ![w].at = "backfill", ![w].seen = InStock]
       \/ cache = None /\ Fault /\ End(w)
    /\ UNCHANGED <<stock, orders, nextId, cache, timeouts, resetting, epoch, adrift>>

Backfill(w) ==
    /\ At(w, "backfill")
    /\ \/ cache' = job[w].seen /\ UNCHANGED faults
       \/ Fault /\ UNCHANGED cache
    /\ Propose(w, job[w].seen)
    /\ UNCHANGED <<stock, orders, nextId, timeouts, resetting, epoch, adrift>>

TakeUnit(w) ==
    LET u == job[w].user
        g == job[w].gift
    IN  /\ ~HasRow(u) /\ stock[g] > 0
        /\ stock' = [stock EXCEPT ![g] = @ - 1]
        /\ orders' = [orders EXCEPT ![u] = Row(nextId, g, job[w].epoch)]
        /\ nextId' = nextId + 1

\* AcquireMySQLStockAndCreatePendingOrder: one transaction.  Its look at the
\* orders may be older than its look at the stock, so an empty stock is
\* reported as sold out even to a user who has a row by now.
Acquire(w) ==
    /\ At(w, "acquire") /\ GateIsFree
    /\ \/ /\ TakeUnit(w)
          /\ job' = [job EXCEPT ![w].at = "delStock", ![w].id = nextId]
          /\ UNCHANGED faults
       \/ /\ HasRow(job[w].user) /\ End(w)
          /\ UNCHANGED <<stock, orders, nextId, faults>>
       \* sold out: another try of ten, or none left
       \/ /\ stock[job[w].gift] = 0
          /\ Goto(w, "read") \/ End(w)
          /\ UNCHANGED <<stock, orders, nextId, faults>>
       \* the transaction fails, or only the answer to its commit is lost
       \/ /\ Fault /\ End(w)
          /\ TakeUnit(w) \/ UNCHANGED <<stock, orders, nextId>>
    /\ UNCHANGED <<cache, timeouts, resetting, epoch, adrift>>

\* A DEL that fails is only logged, after the acquisition and after a
\* cancellation.
DelStockKey(w) ==
    /\ At(w, "delStock") \/ At(w, "delRestored")
    /\ \/ cache' = None /\ UNCHANGED faults
       \/ Fault /\ UNCHANGED cache
    /\ IF job[w].at = "delStock" THEN Goto(w, "send") ELSE End(w)
    /\ UNCHANGED <<stock, orders, nextId, timeouts, resetting, epoch, adrift>>

Timeout(j) == [user |-> j.user, gift |-> j.gift, id |-> j.id, epoch |-> j.epoch]

\* Weakened: after a failed send the draw takes back the newest order.
SendTimeoutNewest(w) ==
    /\ At(w, "send")
    /\ \/ /\ timeouts' = timeouts \cup {Timeout(job[w])}
          /\ End(w) /\ UNCHANGED faults
       \/ /\ Fault /\ UNCHANGED timeouts
          /\ job' = [job EXCEPT ![w].at = "cancel", ![w].id = nextId - 1]
    /\ UNCHANGED <<stock, orders, nextId, cache, resetting, epoch, adrift>>

\* The lookup of the gift, whose failure also takes the order back, and
\* mq.SendCancelOrder: a send that reports an error may have arrived.
SendTimeout(w) ==
    /\ At(w, "send")
    /\ \/ /\ timeouts' = timeouts \cup {Timeout(job[w])}
          /\ End(w) /\ UNCHANGED faults
       \/ /\ Fault /\ Goto(w, "cancel")
          /\ timeouts' \in {timeouts, timeouts \cup {Timeout(job[w])}}
    /\ UNCHANGED <<stock, orders, nextId, cache, resetting, epoch, adrift>>

-----------------------------------------------------------------------------
(* CancelMySQLOrderAndRestoreStock, for a draw that could not finish, a     *)
(* payment after the deadline, a give-up and a timeout.                     *)

\* Weakened: the update to cancelled does not look at the status.
GiveBackTwice(id) ==
    \E u \in Users :
      /\ HasRow(u) /\ orders[u].id = id
      /\ orders' = [orders EXCEPT ![u].status = "cancelled"]
      /\ stock' = [stock EXCEPT ![orders[u].gift] = @ + 1]

GiveBack(id) ==
    \E u \in Users :
      /\ Pending(u) /\ orders[u].id = id
      /\ orders' = [orders EXCEPT ![u].status = "cancelled"]
      /\ stock' = [stock EXCEPT ![orders[u].gift] = @ + 1]

\* A failed consumer returns the error and sees its message again.
CancelOrder(w) ==
    /\ At(w, "cancel")
    /\ \/ /\ GiveBack(job[w].id) /\ Goto(w, "delRestored")
          /\ timeouts' = IF job[w].op = "timeout" THEN timeouts \ {Timeout(job[w])} ELSE timeouts
          /\ UNCHANGED faults
       \/ /\ ~\E u \in Users : Pending(u) /\ orders[u].id = job[w].id
          /\ End(w)
          /\ timeouts' = IF job[w].op = "timeout" THEN timeouts \ {Timeout(job[w])} ELSE timeouts
          /\ UNCHANGED <<orders, stock, faults>>
       \/ /\ Fault /\ End(w)
          /\ GiveBack(job[w].id) \/ UNCHANGED <<orders, stock>>
          /\ UNCHANGED timeouts
    /\ UNCHANGED <<nextId, cache, resetting, epoch, adrift>>

-----------------------------------------------------------------------------
(* OrderService on MySQL-mode orders *)

OnOrder(w, op, at, u) ==
    job' = [job EXCEPT ![w] = [op |-> op, at |-> at, user |-> u, seen |-> {},
        epoch |-> orders[u].epoch, gift |-> orders[u].gift, id |-> orders[u].id]]

\* A payment reads the row, looks at the deadline and updates or cancels.
Pay(w, u) ==
    /\ job[w] = Idle /\ Barrier /\ Pending(u)
    /\ \E at \in {"update", "cancel"} : OnOrder(w, "pay", at, u)
    /\ UNCHANGED <<stock, orders, nextId, cache, timeouts, resetting, epoch, adrift, faults>>

\* Weakened: the update to paid does not look at the status.
TransitionToPaidBlind(w) ==
    /\ At(w, "update") /\ End(w)
    /\ LET u == job[w].user
       IN  /\ HasRow(u) /\ orders[u].id = job[w].id
           /\ orders' = [orders EXCEPT ![u].status = "paid"]
    /\ UNCHANGED <<stock, nextId, cache, timeouts, resetting, epoch, adrift, faults>>

\* TransitionPendingOrderToPaid: conditional on the status, not on the time.
TransitionToPaid(w) ==
    /\ At(w, "update") /\ End(w)
    /\ LET u == job[w].user
       IN  \/ /\ Pending(u) /\ orders[u].id = job[w].id
              /\ orders' = [orders EXCEPT ![u].status = "paid"]
              /\ faults' \in {faults} \cup (IF faults < MaxFaults THEN {faults + 1} ELSE {})
           \/ ~Pending(u) /\ UNCHANGED <<orders, faults>>
           \/ Fault /\ UNCHANGED orders
    /\ UNCHANGED <<stock, nextId, cache, timeouts, resetting, epoch, adrift>>

GiveUp(w, u) ==
    /\ job[w] = Idle /\ Barrier /\ HasRow(u)
    /\ OnOrder(w, "giveup", "cancel", u)
    /\ UNCHANGED <<stock, orders, nextId, cache, timeouts, resetting, epoch, adrift, faults>>

\* TimeoutCancel without the identity of a Redis order: the message must name
\* the row, by gift, deadline and id.
Names(m, u) == HasRow(u) /\ m.user = u /\ m.gift = orders[u].gift
                 /\ m.epoch = orders[u].epoch /\ m.id = orders[u].id

TimeoutCancel(w, m) ==
    /\ job[w] = Idle /\ Barrier
    /\ Names(m, m.user)
    /\ OnOrder(w, "timeout", "cancel", m.user)
    /\ UNCHANGED <<stock, orders, nextId, cache, timeouts, resetting, epoch, adrift, faults>>

\* Weakened: messages from before the last reset are dropped unread.
TimeoutIgnoredOld(w, m) ==
    /\ job[w] = Idle /\ Barrier
    /\ ~Names(m, m.user) \/ m.epoch < epoch
    /\ timeouts' = timeouts \ {m}
    /\ UNCHANGED <<stock, orders, nextId, cache, job, resetting, epoch, adrift, faults>>

TimeoutIgnored(w, m) ==
    /\ job[w] = Idle /\ Barrier
    /\ ~Names(m, m.user)
    /\ timeouts' = timeouts \ {m}
    /\ UNCHANGED <<stock, orders, nextId, cache, job, resetting, epoch, adrift, faults>>

-----------------------------------------------------------------------------
(* ResetExperimentState, as far as this mode goes: BeginSeckillReset waits  *)
(* for the barrier, then every statement is a step and may fail.            *)

BeginReset ==
    /\ resetting = "no" /\ epoch < MaxEpochs
    /\ \A w \in Workers : ~HoldsBarrier(w)
    /\ resetting' = "orders"
    /\ UNCHANGED <<stock, orders, nextId, cache, timeouts, job, epoch, adrift, faults>>

DeleteOrders ==
    /\ resetting = "orders"
    /\ resetting' = "alter"
    /\ orders' = [u \in Users |-> None]
    /\ epoch' = epoch + 1
    /\ adrift' = [g \in Gifts |-> adrift[g] - Held(g)]
    /\ UNCHANGED <<stock, nextId, cache, timeouts, job, faults>>

\* AUTO_INCREMENT = 1 means the largest id in the table plus one.
ResetAutoIncrement ==
    /\ resetting = "alter"
    /\ resetting' = "stock"
    /\ nextId' = 1 + Cardinality({i \in Ids : \E u \in Users :
                                    IF HasRow(u) THEN i <= orders[u].id ELSE FALSE})
    /\ UNCHANGED <<stock, orders, cache, timeouts, job, epoch, adrift, faults>>

ResetCacheStock ==
    /\ resetting = "stock"
    /\ resetting' = "delStock"
    /\ stock' = Count
    /\ adrift' = [g \in Gifts |-> Held(g)]
    /\ UNCHANGED <<orders, nextId, cache, timeouts, job, epoch, faults>>

\* The DEL of ResetCacheStock is not checked, that of clearLotteryRedisState is.
ResetDelStockKey ==
    /\ resetting \in {"delStock", "clear"}
    /\ resetting' = IF resetting = "delStock" THEN "clear" ELSE "no"
    /\ \/ cache' = None /\ UNCHANGED faults
       \/ Fault /\ UNCHANGED cache
    /\ UNCHANGED <<stock, orders, nextId, timeouts, job, epoch, adrift>>

ResetFails ==
    /\ resetting # "no" /\ Fault
    /\ resetting' = "no"
    /\ UNCHANGED <<stock, orders, nextId, cache, timeouts, job, epoch, adrift>>

\* cacheStockTTLSeconds
StockKeyExpires ==
    /\ cache # None
    /\ cache' = None
    /\ UNCHANGED <<stock, orders, nextId, timeouts, job, resetting, epoch, adrift, faults>>

Crash ==
    /\ Fault
    /\ job' = [w \in Workers |-> Idle]
    /\ resetting' = "no"
    /\ UNCHANGED <<stock, orders, nextId, cache, timeouts, epoch, adrift>>

Next ==
    \/ \E w \in Workers :
         \/ DrawRejected(w)
         \/ \E u \in Users : Draw(w, u) \/ Pay(w, u) \/ GiveUp(w, u)
         \/ ReadCached(w) \/ ReadOrigin(w) \/ Backfill(w) \/ Acquire(w)
         \/ DelStockKey(w) \/ SendTimeout(w)
         \/ CancelOrder(w) \/ TransitionToPaid(w)
         \/ \E m \in timeouts : TimeoutCancel(w, m) \/ TimeoutIgnored(w, m)
    \/ BeginReset \/ DeleteOrders \/ ResetAutoIncrement \/ ResetCacheStock
    \/ ResetDelStockKey \/ ResetFails
    \/ StockKeyExpires \/ Crash

Spec == Init /\ [][Next]_vars

-----------------------------------------------------------------------------
(* Properties *)

\* Stock and living orders add up to the baseline, whatever interleaves, fails
\* or crashes: only a reset can leave them apart, by the orders it deletes
\* before it restores the stock and by those a draw inserts in between.
UnitsAddUp == \A g \in Gifts : stock[g] + Held(g) = Count[g] + adrift[g]

\* No step but the deletion of all orders changes a paid or cancelled row, so a
\* payment and a cancellation that both saw the row pending have one winner.
VerdictsStand ==
    [][\A u \in Users :
         (IF HasRow(u) THEN ~Pending(u) ELSE FALSE)
            => orders'[u] = orders[u] \/ epoch' > epoch]_vars

\* As long as no call fails and nothing crashes, somebody will give back the
\* unit of an unpaid order: its timeout message exists, or its draw is about to
\* send it, also when the draw began before a reset.
UnpaidHasItsTimeout ==
    faults = 0 => \A u \in Users : Pending(u) =>
        \/ \E m \in timeouts : Names(m, u)
        \/ \E w \in Workers :
             /\ At(w, "delStock") \/ At(w, "send")
             /\ Names(Timeout(job[w]), u)

\* A draw that takes its order back cancels its own order and no other one,
\* unless a reset, after which ids are used again, came in between.
RollbackIsOwn ==
    [][\A w \in Workers :
         (IF job[w] = Idle THEN FALSE
          ELSE job[w].op = "draw" /\ job[w].at = "cancel"
                 /\ job[w].epoch = epoch /\ job'[w] # job[w])
            => \A u \in Users \ {job[w].user} : orders'[u] = orders[u]]_vars

=============================================================================
