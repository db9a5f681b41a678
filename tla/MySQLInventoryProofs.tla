------------------------ MODULE MySQLInventoryProofs ------------------------
(***************************************************************************)
(* The four properties of the MySQL inventory mode, for any number of      *)
(* users, gifts, workers, resets and faults.  The argument rests on the    *)
(* primary key: a new row gets an id above all rows of the table, so an id *)
(* names one order as long as the table is not emptied.                    *)
(***************************************************************************)
EXTENDS MySQLInventory, FiniteSetTheorems, TLAPS

Job == [op: {"draw", "pay", "giveup", "timeout"}, at: Places, user: Users,
        epoch: 0..MaxEpochs, seen: SUBSET Gifts, gift: Gifts \cup {None}, id: Ids \cup {0}]

\* A draw that has proposed a gift, and one that has inserted its order.
Proposed(w) == job[w] # Idle /\ \/ job[w].at \in {"acquire", "delStock", "send"}
                                \/ job[w].op = "draw" /\ job[w].at = "cancel"
Inserted(w) == Proposed(w) /\ job[w].at # "acquire"

\* What is known of the goroutines' local variables.
JobsFit ==
    \A w \in Workers : Proposed(w) =>
      /\ job[w].gift \in Gifts
      /\ job[w].epoch <= epoch
      /\ Inserted(w) => job[w].id \in Ids

Rows == {u \in Users : HasRow(u)}

\* Every row has an id of its own below AUTO_INCREMENT, which grows by the rows
\* inserted between two resets only.
RowsFit ==
    /\ \A u \in Users : HasRow(u) => orders[u].id < nextId
    /\ \A u, v \in Users : HasRow(u) /\ HasRow(v) /\ orders[u].id = orders[v].id => u = v
    /\ nextId <= 1 + Cardinality(Rows) + Cardinality(Users) * epoch

\* A reset under way is one that the bound allows.
ResetFits == resetting = "orders" => epoch < MaxEpochs

\* Unless the orders have been deleted since, a draw's order is still there.
OwnRow ==
    \A w \in Workers : Inserted(w) /\ job[w].epoch = epoch =>
      /\ HasRow(job[w].user) /\ orders[job[w].user].id = job[w].id

Consistent == TypeOK /\ JobsFit /\ RowsFit /\ OwnRow /\ ResetFits

LEMMA UsersAreFinite ==
    ASSUME NEW S, S \subseteq Users
    PROVE  IsFiniteSet(S) /\ Cardinality(S) \in Nat /\ Cardinality(S) <= Cardinality(Users)
BY ConstantsAssumption, FS_Subset, FS_CardinalityType

\* Ids are counted from one.
LEMMA IdsFromOne ==
    ASSUME NEW i \in Ids
    PROVE  i \in Nat /\ i >= 1 /\ \A j \in 1..i : j \in Ids
<1> DEFINE top == 1 + Cardinality(Users) * (MaxEpochs + 1)
<1>1. top \in Nat
  BY UsersAreFinite, ConstantsAssumption
<1>2. Ids = 1..top
  BY DEF Ids
<1> HIDE DEF top
<1> QED
  BY <1>1, <1>2

LEMMA JobOf == ASSUME TypeOK, NEW w \in Workers, job[w] # Idle PROVE job[w] \in Job
BY DEF TypeOK, Jobs, Job

LEMMA OrderOf ==
    ASSUME TypeOK, NEW u \in Users
    PROVE  (HasRow(u) => orders[u] \in Orders) /\ (Pending(u) => HasRow(u))
BY DEF TypeOK, HasRow, Pending

-----------------------------------------------------------------------------
(* Types *)

LEMMA GotoIsTyped ==
    ASSUME TypeOK, NEW w \in Workers, job[w] # Idle, NEW at \in Places, Goto(w, at)
    PROVE  job' \in [Workers -> Jobs]
<1>1. job[w] \in Job
  BY JobOf
<1>2. [job[w] EXCEPT !.at = at] \in Jobs
  BY <1>1 DEF Job, Jobs
<1> QED
  BY <1>2 DEF Goto, TypeOK

LEMMA EndIsTyped ==
    ASSUME TypeOK, NEW w \in Workers, End(w) PROVE job' \in [Workers -> Jobs]
BY DEF End, TypeOK, Jobs

LEMMA ProposeIsTyped ==
    ASSUME TypeOK, NEW w \in Workers, job[w] # Idle, NEW shown \in SUBSET Gifts, Propose(w, shown)
    PROVE  job' \in [Workers -> Jobs]
<1>1. CASE End(w)
  BY <1>1, EndIsTyped
<1>2. ASSUME NEW g \in shown,
             job' = [job EXCEPT ![w].at = "acquire", ![w].gift = g, ![w].seen = {}, ![w].epoch = epoch]
      PROVE  job' \in [Workers -> Jobs]
  <2>1. job[w] \in Job
    BY JobOf
  <2>2. [job[w] EXCEPT !.at = "acquire", !.gift = g, !.seen = {}, !.epoch = epoch] \in Jobs
    BY <2>1 DEF Job, Jobs, Places, TypeOK
  <2> QED
    BY <1>2, <2>2 DEF TypeOK
<1> QED
  BY <1>1, <1>2 DEF Propose

\* The table has room for the next id while it misses a row.
LEMMA NextIdFits ==
    ASSUME TypeOK, RowsFit, NEW u \in Users, ~HasRow(u)
    PROVE  nextId + 1 \in Ids /\ nextId + 1 <= 1 + Cardinality(Rows \cup {u}) + Cardinality(Users) * epoch
<1> DEFINE n == Cardinality(Users)
<1>1. IsFiniteSet(Rows) /\ u \notin Rows /\ Rows \cup {u} \subseteq Users
  BY UsersAreFinite DEF Rows
<1>2. Cardinality(Rows \cup {u}) = Cardinality(Rows) + 1
  BY <1>1, FS_AddElement
<1>3. n \in Nat /\ Cardinality(Rows) \in Nat /\ Cardinality(Rows \cup {u}) <= n
  BY <1>1, UsersAreFinite
<1>4. epoch \in Nat /\ epoch <= MaxEpochs /\ MaxEpochs \in Nat
  BY ConstantsAssumption DEF TypeOK
<1>5. n * epoch \in Nat /\ n * (MaxEpochs + 1) \in Nat /\ n * epoch + n <= n * (MaxEpochs + 1)
  <2>1. n * (epoch + 1) = n * epoch + n
    BY <1>3, <1>4
  <2>2. \A a, b \in Nat : a <= b => n * a <= n * b /\ n * a \in Nat
    <3> HIDE DEF n
    <3> QED
      BY <1>3
  <2>3. n * (epoch + 1) <= n * (MaxEpochs + 1)
    BY <1>4, <2>2
  <2> QED
    BY <1>4, <2>1, <2>2, <2>3
<1>6. nextId \in Nat /\ nextId >= 1
  BY <1>3, <1>5 DEF TypeOK, Ids
<1> HIDE DEF n
<1>7. nextId + 1 <= 1 + Cardinality(Rows \cup {u}) + n * epoch
  BY <1>2, <1>3, <1>5, <1>6 DEF RowsFit, n
<1>8. nextId + 1 <= 1 + n * (MaxEpochs + 1)
  BY <1>2, <1>3, <1>5, <1>6, <1>7
<1> QED
  BY <1>5, <1>6, <1>7, <1>8 DEF Ids, n

\* A request starts with typed locals, whether a draw or a call on an order.
LEMMA BeginIsTyped ==
    ASSUME TypeOK, NEW w \in Workers, NEW u \in Users, Begin(w, "draw", "read", u, 0)
    PROVE  job' \in [Workers -> Jobs]
BY ConstantsAssumption DEF Begin, TypeOK, Jobs, Places

LEMMA OnOrderIsTyped ==
    ASSUME TypeOK, NEW w \in Workers, NEW u \in Users, HasRow(u),
           NEW op \in {"pay", "giveup", "timeout"}, NEW at \in {"update", "cancel"},
           OnOrder(w, op, at, u)
    PROVE  job' \in [Workers -> Jobs]
<1>1. orders[u] \in Orders
  BY OrderOf
<1>2. [op |-> op, at |-> at, user |-> u, seen |-> {}, epoch |-> orders[u].epoch,
       gift |-> orders[u].gift, id |-> orders[u].id] \in Jobs
  BY <1>1 DEF Orders, Jobs, Places
<1> QED
  BY <1>2 DEF OnOrder, TypeOK

LEMMA AcquireIsTyped ==
    ASSUME TypeOK, JobsFit, RowsFit, NEW w \in Workers, Acquire(w) PROVE TypeOK'
<1>1. job[w] \in Job /\ job[w] # Idle /\ job[w].gift \in Gifts
  BY JobOf DEF Acquire, At, JobsFit, Proposed
<1>2. ASSUME TakeUnit(w)
      PROVE  /\ stock' \in [Gifts -> Nat] /\ orders' \in [Users -> {None} \cup Orders]
             /\ nextId' \in Ids
  <2>1. job[w].user \in Users /\ ~HasRow(job[w].user)
    BY <1>1, <1>2 DEF Job, TakeUnit
  <2>2. nextId' \in Ids
    BY <1>2, <2>1, NextIdFits DEF TakeUnit
  <2>3. Row(nextId, job[w].gift, job[w].epoch) \in Orders
    BY <1>1 DEF Row, Orders, Job, TypeOK
  <2>4. stock' \in [Gifts -> Nat]
    BY <1>1, <1>2 DEF TakeUnit, TypeOK
  <2> QED
    BY <1>2, <2>2, <2>3, <2>4 DEF TakeUnit, TypeOK
<1>3. job' \in [Workers -> Jobs]
  <2>1. CASE job' = [job EXCEPT ![w].at = "delStock", ![w].id = nextId]
    <3>1. [job[w] EXCEPT !.at = "delStock", !.id = nextId] \in Jobs
      BY <1>1 DEF Job, Jobs, Places, TypeOK
    <3> QED
      BY <2>1, <3>1 DEF TypeOK
  <2>2. CASE Goto(w, "read") \/ End(w)
    BY <1>1, <2>2, GotoIsTyped, EndIsTyped DEF Places
  <2> QED
    BY <2>1, <2>2 DEF Acquire
<1>4. /\ stock' \in [Gifts -> Nat] /\ orders' \in [Users -> {None} \cup Orders]
      /\ nextId' \in Ids
  BY <1>2 DEF Acquire, TypeOK
<1>5. faults' \in 0..MaxFaults
  BY ConstantsAssumption DEF Acquire, Fault, TypeOK
<1> QED
  BY <1>3, <1>4, <1>5 DEF Acquire, TypeOK

LEMMA DrawStepsAreTyped ==
    ASSUME TypeOK, JobsFit, RowsFit, NEW w \in Workers,
           \/ DrawRejected(w) \/ \E u \in Users : Draw(w, u)
           \/ ReadCached(w) \/ ReadOrigin(w) \/ Backfill(w) \/ DelStockKey(w) \/ SendTimeout(w)
    PROVE  TypeOK'
<1>1. CASE DrawRejected(w)
  BY <1>1 DEF DrawRejected, vars, TypeOK
<1>2. ASSUME NEW u \in Users, Draw(w, u) PROVE TypeOK'
  <2>1. job' \in [Workers -> Jobs]
    BY <1>2, BeginIsTyped DEF Draw
  <2> QED
    BY <1>2, <2>1 DEF Draw, TypeOK
<1>3. CASE ReadCached(w)
  <2>1. job' \in [Workers -> Jobs]
    BY <1>3, ProposeIsTyped DEF ReadCached, At, TypeOK
  <2> QED
    BY <1>3, <2>1 DEF ReadCached, TypeOK
<1>4. CASE ReadOrigin(w)
  <2>1. ASSUME job' = [job EXCEPT ![w].at = "backfill", ![w].seen = InStock]
        PROVE  job' \in [Workers -> Jobs]
    <3>1. job[w] \in Job
      BY <1>4, JobOf DEF ReadOrigin, At
    <3> DEFINE shown == InStock
    <3>2. shown \in SUBSET Gifts
      BY DEF InStock
    <3>3. job' = [job EXCEPT ![w].at = "backfill", ![w].seen = shown]
      BY <2>1
    <3> HIDE DEF shown
    <3>4. [job[w] EXCEPT !.at = "backfill", !.seen = shown] \in Jobs
      BY <3>1, <3>2 DEF Job, Jobs, Places
    <3> QED
      BY <3>3, <3>4 DEF TypeOK
  <2>2. job' \in [Workers -> Jobs]
    <3>1. CASE End(w)
      BY <3>1, EndIsTyped
    <3> QED
      BY <1>4, <2>1, <3>1 DEF ReadOrigin
  <2>3. faults' \in 0..MaxFaults
    BY <1>4, ConstantsAssumption DEF ReadOrigin, Fault, TypeOK
  <2> QED
    BY <1>4, <2>2, <2>3 DEF ReadOrigin, TypeOK
<1>5. CASE Backfill(w)
  <2>1. job[w] # Idle /\ job[w].seen \in SUBSET Gifts
    BY <1>5, JobOf DEF Backfill, At, Job
  <2>2. job' \in [Workers -> Jobs]
    BY <1>5, <2>1, ProposeIsTyped DEF Backfill
  <2>3. faults' \in 0..MaxFaults
    BY <1>5, ConstantsAssumption DEF Backfill, Fault, TypeOK
  <2> QED
    BY <1>5, <2>1, <2>2, <2>3 DEF Backfill, TypeOK
<1>6. CASE DelStockKey(w)
  <2>1. job' \in [Workers -> Jobs]
    BY <1>6, GotoIsTyped, EndIsTyped DEF DelStockKey, At, Places
  <2>2. faults' \in 0..MaxFaults
    BY <1>6, ConstantsAssumption DEF DelStockKey, Fault, TypeOK
  <2> QED
    BY <1>6, <2>1, <2>2 DEF DelStockKey, TypeOK
<1>7. CASE SendTimeout(w)
  <2>1. job' \in [Workers -> Jobs]
    BY <1>7, GotoIsTyped, EndIsTyped DEF SendTimeout, At, Places
  <2>2. faults' \in 0..MaxFaults
    BY <1>7, ConstantsAssumption DEF SendTimeout, Fault, TypeOK
  <2>3. Timeout(job[w]) \in Messages
    BY <1>7, JobOf DEF SendTimeout, At, JobsFit, Proposed, Inserted, Job, Timeout, Messages
  <2> QED
    BY <1>7, <2>1, <2>2, <2>3 DEF SendTimeout, TypeOK
<1> QED
  BY <1>1, <1>2, <1>3, <1>4, <1>5, <1>6, <1>7

\* The statements on an existing order keep its row a row.
LEMMA GiveBackIsTyped ==
    ASSUME TypeOK, NEW id, GiveBack(id)
    PROVE  stock' \in [Gifts -> Nat] /\ orders' \in [Users -> {None} \cup Orders]
<1>1. PICK u \in Users : /\ Pending(u) /\ orders[u].id = id
                         /\ orders' = [orders EXCEPT ![u].status = "cancelled"]
                         /\ stock' = [stock EXCEPT ![orders[u].gift] = @ + 1]
  BY DEF GiveBack
<1>2. orders[u] \in Orders
  BY <1>1, OrderOf
<1>3. [orders[u] EXCEPT !.status = "cancelled"] \in Orders
  BY <1>2 DEF Orders
<1>4. orders' \in [Users -> {None} \cup Orders]
  BY <1>1, <1>3 DEF TypeOK
<1> QED
  BY <1>1, <1>2, <1>4 DEF TypeOK, Orders

LEMMA OrderStepsAreTyped ==
    ASSUME TypeOK, NEW w \in Workers,
           \/ CancelOrder(w) \/ TransitionToPaid(w)
           \/ \E u \in Users : Pay(w, u) \/ GiveUp(w, u)
           \/ \E m \in timeouts : TimeoutCancel(w, m) \/ TimeoutIgnored(w, m)
    PROVE  TypeOK'
<1>1. CASE CancelOrder(w)
  <2>1. job' \in [Workers -> Jobs]
    BY <1>1, GotoIsTyped, EndIsTyped DEF CancelOrder, At, Places
  <2>2. faults' \in 0..MaxFaults
    BY <1>1, ConstantsAssumption DEF CancelOrder, Fault, TypeOK
  <2>3. stock' \in [Gifts -> Nat] /\ orders' \in [Users -> {None} \cup Orders]
    BY <1>1, GiveBackIsTyped DEF CancelOrder, TypeOK
  <2>4. timeouts' \subseteq timeouts
    BY <1>1 DEF CancelOrder
  <2> QED
    BY <1>1, <2>1, <2>2, <2>3, <2>4 DEF CancelOrder, TypeOK
<1>2. CASE TransitionToPaid(w)
  <2>1. job' \in [Workers -> Jobs]
    BY <1>2, EndIsTyped DEF TransitionToPaid
  <2>2. orders' \in [Users -> {None} \cup Orders]
    <3>1. job[w].user \in Users
      BY <1>2, JobOf DEF TransitionToPaid, At, Job
    <3>2. Pending(job[w].user) => [orders[job[w].user] EXCEPT !.status = "paid"] \in Orders
      BY <3>1, OrderOf DEF Orders
    <3> QED
      BY <1>2, <3>2 DEF TransitionToPaid, TypeOK
  <2>3. faults' \in 0..MaxFaults
    BY <1>2, ConstantsAssumption DEF TransitionToPaid, Fault, TypeOK
  <2> QED
    BY <1>2, <2>1, <2>2, <2>3 DEF TransitionToPaid, TypeOK
<1>3. ASSUME NEW u \in Users, Pay(w, u) \/ GiveUp(w, u) PROVE TypeOK'
  <2>1. HasRow(u)
    BY <1>3, OrderOf DEF Pay, GiveUp
  <2>2. job' \in [Workers -> Jobs]
    BY <1>3, <2>1, OnOrderIsTyped DEF Pay, GiveUp
  <2> QED
    BY <1>3, <2>2 DEF Pay, GiveUp, TypeOK
<1>4. ASSUME NEW m \in timeouts, TimeoutCancel(w, m) \/ TimeoutIgnored(w, m) PROVE TypeOK'
  <2>1. m.user \in Users
    BY DEF TypeOK, Messages
  <2>2. TimeoutCancel(w, m) => job' \in [Workers -> Jobs]
    BY <2>1, OnOrderIsTyped DEF TimeoutCancel, Names
  <2> QED
    BY <1>4, <2>2 DEF TimeoutCancel, TimeoutIgnored, TypeOK
<1> QED
  BY <1>1, <1>2, <1>3, <1>4

\* ALTER TABLE ... AUTO_INCREMENT = 1 leaves the next id above every row, and
\* never raises it.
LEMMA LargestId ==
    ASSUME TypeOK, RowsFit, ResetAutoIncrement
    PROVE  /\ nextId' \in Ids /\ nextId' <= nextId
           /\ \A u \in Users : HasRow(u) => orders[u].id < nextId'
<1> DEFINE taken == {i \in Ids : \E u \in Users : IF HasRow(u) THEN i <= orders[u].id ELSE FALSE}
<1>1. nextId \in Nat /\ nextId >= 1 /\ nextId \in Ids
  BY IdsFromOne DEF TypeOK
<1>2. taken \subseteq 1..(nextId - 1)
  <2> SUFFICES ASSUME NEW i \in Ids, NEW u \in Users, HasRow(u), i <= orders[u].id
               PROVE  i \in 1..(nextId - 1)
    OBVIOUS
  <2>1. orders[u].id \in Ids /\ orders[u].id < nextId
    BY OrderOf DEF Orders, RowsFit
  <2>2. i \in Nat /\ i >= 1 /\ orders[u].id \in Nat
    BY <2>1, IdsFromOne
  <2> QED
    BY <1>1, <2>1, <2>2
<1>3. IsFiniteSet(1..(nextId - 1)) /\ Cardinality(1..(nextId - 1)) = nextId - 1
  BY <1>1, FS_Interval
<1>4. IsFiniteSet(taken) /\ Cardinality(taken) \in Nat /\ Cardinality(taken) <= nextId - 1
  BY <1>2, <1>3, FS_Subset, FS_CardinalityType
<1>5. nextId' = 1 + Cardinality(taken)
  BY DEF ResetAutoIncrement
<1>6. ASSUME NEW u \in Users, HasRow(u) PROVE orders[u].id < nextId'
  <2>1. orders[u].id \in Ids /\ orders[u].id \in Nat /\ orders[u].id >= 1
    BY <1>6, OrderOf, IdsFromOne DEF Orders
  <2>2. 1..orders[u].id \subseteq taken
    BY <1>6, <2>1, IdsFromOne
  <2>3. Cardinality(1..orders[u].id) = orders[u].id
    BY <2>1, FS_Interval
  <2>4. Cardinality(1..orders[u].id) <= Cardinality(taken)
    BY <1>4, <2>2, FS_Subset
  <2> QED
    BY <1>4, <1>5, <2>1, <2>3, <2>4
<1> HIDE DEF taken
<1>7. nextId' \in Ids /\ nextId' <= nextId
  BY <1>1, <1>4, <1>5, IdsFromOne
<1> QED
  BY <1>6, <1>7

LEMMA ResetIsTyped ==
    ASSUME TypeOK, RowsFit, ResetFits,
           \/ BeginReset \/ DeleteOrders \/ ResetAutoIncrement \/ ResetCacheStock
           \/ ResetDelStockKey \/ ResetFails \/ StockKeyExpires \/ Crash
    PROVE  TypeOK'
<1>1. CASE BeginReset
  BY <1>1 DEF BeginReset, TypeOK
<1>2. ASSUME NEW g \in Gifts PROVE Held(g) \in Nat
  BY UsersAreFinite DEF Held
<1>3. CASE DeleteOrders
  <2>1. epoch' \in 0..MaxEpochs
    BY <1>3, ConstantsAssumption DEF DeleteOrders, ResetFits, TypeOK
  <2> QED
    BY <1>3, <1>2, <2>1 DEF DeleteOrders, TypeOK
<1>4. CASE ResetAutoIncrement
  BY <1>4, LargestId DEF ResetAutoIncrement, TypeOK
<1>5. CASE ResetCacheStock
  BY <1>5, <1>2, ConstantsAssumption DEF ResetCacheStock, TypeOK
<1>6. CASE ResetDelStockKey \/ ResetFails
  BY <1>6, ConstantsAssumption DEF ResetDelStockKey, ResetFails, Fault, TypeOK
<1>7. CASE StockKeyExpires \/ Crash
  BY <1>7, ConstantsAssumption DEF StockKeyExpires, Crash, Fault, TypeOK, Jobs
<1> QED
  BY <1>1, <1>3, <1>4, <1>5, <1>6, <1>7

LEMMA TypesAreKept == ASSUME Consistent, [Next]_vars PROVE TypeOK'
<1> USE DEF Consistent
<1>1. CASE UNCHANGED vars
  BY <1>1 DEF vars, TypeOK
<1>2. ASSUME NEW w \in Workers, Acquire(w) PROVE TypeOK'
  BY <1>2, AcquireIsTyped
<1>3. ASSUME NEW w \in Workers,
             \/ DrawRejected(w) \/ \E u \in Users : Draw(w, u)
             \/ ReadCached(w) \/ ReadOrigin(w) \/ Backfill(w) \/ DelStockKey(w) \/ SendTimeout(w)
      PROVE  TypeOK'
  BY <1>3, DrawStepsAreTyped
<1>4. ASSUME NEW w \in Workers,
             \/ CancelOrder(w) \/ TransitionToPaid(w)
             \/ \E u \in Users : Pay(w, u) \/ GiveUp(w, u)
             \/ \E m \in timeouts : TimeoutCancel(w, m) \/ TimeoutIgnored(w, m)
      PROVE  TypeOK'
  BY <1>4, OrderStepsAreTyped
<1> QED
  BY <1>1, <1>2, <1>3, <1>4, ResetIsTyped DEF Next

-----------------------------------------------------------------------------
(* What a step may do to the orders *)

\* A verdict on a pending row.
Settled == \E u \in Users, s \in {"paid", "cancelled"} :
    Pending(u) /\ orders' = [orders EXCEPT ![u].status = s]

LEMMA OrdersChange ==
    ASSUME Consistent, [Next]_vars
    PROVE  \/ UNCHANGED <<orders, nextId, epoch>>
           \/ Settled /\ UNCHANGED <<nextId, epoch>>
           \/ (\E w \in Workers : Acquire(w) /\ TakeUnit(w)) /\ UNCHANGED epoch
           \/ DeleteOrders
           \/ ResetAutoIncrement
<1> USE DEF Consistent
<1>1. ASSUME NEW w \in Workers,
             \/ DrawRejected(w) \/ \E u \in Users : Draw(w, u) \/ Pay(w, u) \/ GiveUp(w, u)
             \/ ReadCached(w) \/ ReadOrigin(w) \/ Backfill(w) \/ DelStockKey(w) \/ SendTimeout(w)
             \/ \E m \in timeouts : TimeoutCancel(w, m) \/ TimeoutIgnored(w, m)
      PROVE  UNCHANGED <<orders, nextId, epoch>>
  BY <1>1 DEF DrawRejected, vars, Draw, Pay, GiveUp, ReadCached, ReadOrigin, Backfill, DelStockKey,
              SendTimeout, TimeoutCancel, TimeoutIgnored
<1>2. ASSUME NEW w \in Workers, Acquire(w)
      PROVE  \/ UNCHANGED <<orders, nextId, epoch>>
             \/ TakeUnit(w) /\ UNCHANGED epoch
  BY <1>2 DEF Acquire
<1>3. ASSUME NEW w \in Workers, CancelOrder(w)
      PROVE  (UNCHANGED orders \/ Settled) /\ UNCHANGED <<nextId, epoch>>
  BY <1>3 DEF CancelOrder, GiveBack, Settled
<1>4. ASSUME NEW w \in Workers, TransitionToPaid(w)
      PROVE  (UNCHANGED orders \/ Settled) /\ UNCHANGED <<nextId, epoch>>
  <2>1. job[w].user \in Users
    BY <1>4, JobOf DEF TransitionToPaid, At, Job
  <2> QED
    BY <1>4, <2>1 DEF TransitionToPaid, Settled
<1>5. CASE BeginReset \/ ResetCacheStock \/ ResetDelStockKey \/ ResetFails
             \/ StockKeyExpires \/ Crash \/ UNCHANGED vars
  BY <1>5 DEF BeginReset, ResetCacheStock, ResetDelStockKey, ResetFails, StockKeyExpires, Crash, vars
<1> QED
  BY <1>1, <1>2, <1>3, <1>4, <1>5 DEF Next

\* Row by row: until the orders are deleted a row keeps its id, its gift and its
\* deadline.
LEMMA RowsAreKept ==
    ASSUME Consistent, [Next]_vars, epoch' = epoch, NEW u \in Users, HasRow(u)
    PROVE  /\ HasRow(u)' /\ orders'[u].id = orders[u].id
           /\ orders'[u].gift = orders[u].gift /\ orders'[u].epoch = orders[u].epoch
<1> USE DEF Consistent
<1>1. CASE UNCHANGED orders
  BY <1>1 DEF HasRow
<1>2. CASE Settled
  <2>1. PICK v \in Users, s \in {"paid", "cancelled"} :
           Pending(v) /\ orders' = [orders EXCEPT ![v].status = s]
    BY <1>2 DEF Settled
  <2>2. orders[v] \in Orders
    BY <2>1, OrderOf
  <2>3. [orders[v] EXCEPT !.status = s] \in Orders
    BY <2>2 DEF Orders
  <2>4. CASE u = v
    BY <2>1, <2>2, <2>3, <2>4, NoneIsNoOrder DEF HasRow, TypeOK, Orders
  <2> QED
    BY <2>1, <2>4 DEF HasRow, TypeOK
<1>3. ASSUME NEW w \in Workers, TakeUnit(w) PROVE orders'[u] = orders[u]
  BY <1>3 DEF TakeUnit, TypeOK
<1>4. ~DeleteOrders
  BY DEF DeleteOrders, TypeOK
<1> QED
  BY <1>1, <1>2, <1>3, <1>4, OrdersChange DEF HasRow, ResetAutoIncrement

LEMMA EpochGrows == ASSUME Consistent, [Next]_vars PROVE epoch' = epoch \/ epoch' = epoch + 1
BY OrdersChange DEF DeleteOrders, ResetAutoIncrement

\* The ids stay distinct and below AUTO_INCREMENT.
LEMMA RowsStayFit == ASSUME Consistent, [Next]_vars PROVE RowsFit'
<1> USE DEF Consistent
<1> DEFINE n == Cardinality(Users)
<1>0. /\ epoch \in Nat /\ nextId \in Nat /\ n \in Nat /\ n * epoch \in Nat
      /\ n * (epoch + 1) = n * epoch + n
      /\ Cardinality(Rows) \in Nat /\ Cardinality(Rows) <= n
  <2>1. epoch \in Nat /\ nextId \in Nat /\ n \in Nat
    BY IdsFromOne, UsersAreFinite DEF TypeOK
  <2>2. Cardinality(Rows) \in Nat /\ Cardinality(Rows) <= n
    BY UsersAreFinite DEF Rows
  <2> HIDE DEF n
  <2> QED
    BY <2>1, <2>2
<1>1. CASE UNCHANGED <<orders, nextId, epoch>>
  BY <1>1 DEF RowsFit, HasRow, Rows
<1>2. CASE Settled /\ UNCHANGED <<nextId, epoch>>
  <2>1. PICK v \in Users, s \in {"paid", "cancelled"} :
           Pending(v) /\ orders' = [orders EXCEPT ![v].status = s]
    BY <1>2 DEF Settled
  <2>2. \A u \in Users : HasRow(u)' => HasRow(u)
    BY <2>1, OrderOf DEF HasRow, TypeOK
  <2>3. Rows' = Rows
    BY <1>2, <2>2, RowsAreKept DEF Rows
  <2>4. \A u \in Users : HasRow(u)' => orders'[u].id = orders[u].id
    BY <1>2, <2>2, RowsAreKept
  <2> QED
    BY <1>2, <2>2, <2>3, <2>4 DEF RowsFit
<1>3. ASSUME NEW w \in Workers, Acquire(w), TakeUnit(w), epoch' = epoch PROVE RowsFit'
  <2>1. PICK u \in Users : u = job[w].user /\ ~HasRow(u)
    BY <1>3, JobOf DEF Acquire, At, Job, TakeUnit
  <2>2. /\ orders' = [orders EXCEPT ![u] = Row(nextId, job[w].gift, job[w].epoch)]
        /\ nextId' = nextId + 1
    BY <1>3, <2>1 DEF TakeUnit
  <2>3. Row(nextId, job[w].gift, job[w].epoch).id = nextId
    BY DEF Row
  <2>4. orders'[u].id = nextId /\ \A v \in Users \ {u} : orders'[v] = orders[v]
    BY <2>1, <2>2, <2>3 DEF TypeOK
  <2>5. Row(nextId, job[w].gift, job[w].epoch) \in Orders
    BY <1>3, JobOf DEF Acquire, At, Row, Orders, Job, JobsFit, Proposed, TypeOK
  <2>6. HasRow(u)' /\ \A v \in Users \ {u} : HasRow(v)' <=> HasRow(v)
    BY <2>1, <2>2, <2>4, <2>5, NoneIsNoOrder DEF HasRow, TypeOK
  <2>7. Rows' = Rows \cup {u}
    BY <2>1, <2>6 DEF Rows
  <2>8. nextId' <= 1 + Cardinality(Rows') + Cardinality(Users) * epoch'
    BY <1>3, <2>1, <2>2, <2>7, NextIdFits
  <2>9. \A v \in Users : HasRow(v)' => orders'[v].id < nextId'
    BY <1>0, <2>2, <2>4, <2>6, OrderOf, IdsFromOne DEF RowsFit, Orders
  <2>10. \A x, y \in Users : HasRow(x)' /\ HasRow(y)' /\ orders'[x].id = orders'[y].id => x = y
    <3>1. \A v \in Users \ {u} : HasRow(v)' => orders'[v].id # nextId
      BY <1>0, <2>4, <2>6, OrderOf, IdsFromOne DEF RowsFit, Orders
    <3> QED
      BY <2>1, <2>4, <2>6, <3>1 DEF RowsFit
  <2> QED
    BY <2>8, <2>9, <2>10 DEF RowsFit
<1>4. CASE DeleteOrders
  <2>1. \A u \in Users : ~HasRow(u)'
    BY <1>4 DEF DeleteOrders, HasRow
  <2>2. Cardinality(Rows') = 0
    BY <2>1, FS_EmptySet DEF Rows
  <2>3. nextId' = nextId /\ epoch' = epoch + 1
    BY <1>4 DEF DeleteOrders
  <2>4. nextId <= 1 + Cardinality(Rows) + n * epoch
    BY DEF RowsFit
  <2>5. nextId' <= 1 + Cardinality(Rows') + n * epoch'
    <3> HIDE DEF n
    <3> QED
      BY <1>0, <2>2, <2>3, <2>4
  <2> QED
    BY <2>1, <2>5 DEF RowsFit
<1>5. CASE ResetAutoIncrement
  <2>1. orders' = orders /\ epoch' = epoch
    BY <1>5 DEF ResetAutoIncrement
  <2>2. /\ nextId' \in Nat /\ nextId' <= nextId
        /\ \A u \in Users : HasRow(u) => orders[u].id < nextId'
    BY <1>5, LargestId, IdsFromOne
  <2>3. nextId <= 1 + Cardinality(Rows) + n * epoch /\ Rows' = Rows
    BY <2>1 DEF RowsFit, Rows, HasRow
  <2>4. nextId' <= 1 + Cardinality(Rows') + n * epoch'
    <3> HIDE DEF n
    <3> QED
      BY <1>0, <2>1, <2>2, <2>3
  <2> QED
    BY <2>1, <2>2, <2>4 DEF RowsFit, HasRow
<1> QED
  BY <1>1, <1>2, <1>3, <1>4, <1>5, OrdersChange

-----------------------------------------------------------------------------
(* What a step may do to a draw *)

SameOrder(v) == /\ job'[v].user = job[v].user /\ job'[v].gift = job[v].gift
                /\ job'[v].epoch = job[v].epoch

\* A draw past its proposal has not moved, has just proposed, has just inserted
\* its order, or goes on with the order it has inserted.
DrawMoves(v) ==
    \/ job'[v] = job[v]
    \/ /\ job'[v].at = "acquire" /\ job'[v].gift \in Gifts /\ job'[v].epoch = epoch
       /\ UNCHANGED epoch
    \/ /\ Acquire(v) /\ TakeUnit(v) /\ Proposed(v) /\ SameOrder(v)
       /\ job'[v].id = nextId /\ UNCHANGED epoch
    \/ /\ Inserted(v) /\ SameOrder(v) /\ job'[v].id = job[v].id
       /\ UNCHANGED <<orders, epoch>>

\* Starting a request and ending one leave nothing proposed.
LEMMA StartOrEnd ==
    ASSUME TypeOK, NEW v \in Workers, Proposed(v)', NEW w \in Workers,
           \/ End(w)
           \/ \E u \in Users : Begin(w, "draw", "read", u, 0)
           \/ \E u \in Users, op \in {"pay", "giveup", "timeout"}, at \in {"update", "cancel"} :
                OnOrder(w, op, at, u)
           \/ \E at \in {"read", "delRestored"} : job[w] # Idle /\ Goto(w, at)
    PROVE  DrawMoves(v)
<1>1. CASE v # w
  BY <1>1 DEF End, Begin, OnOrder, Goto, TypeOK, DrawMoves
<1>2. CASE v = w
  <2>1. CASE End(w)
    BY <1>2, <2>1 DEF End, TypeOK, Proposed
  <2>2. CASE \E u \in Users : Begin(w, "draw", "read", u, 0)
    BY <1>2, <2>2 DEF Begin, TypeOK, Proposed
  <2>3. CASE \E u \in Users, op \in {"pay", "giveup", "timeout"}, at \in {"update", "cancel"} :
               OnOrder(w, op, at, u)
    BY <1>2, <2>3 DEF OnOrder, TypeOK, Proposed
  <2>4. ASSUME NEW at \in {"read", "delRestored"}, job[w] # Idle, Goto(w, at) PROVE FALSE
    <3>1. job[w] \in Job
      BY <2>4, JobOf
    <3>2. job'[w] = [job[w] EXCEPT !.at = at]
      BY <2>4 DEF Goto, TypeOK
    <3>3. job'[w].at = at
      BY <3>1, <3>2 DEF Job
    <3> QED
      BY <1>2, <3>3 DEF Proposed
  <2> QED
    BY <2>1, <2>2, <2>3, <2>4
<1> QED
  BY <1>1, <1>2

LEMMA ProposeMoves ==
    ASSUME TypeOK, NEW v \in Workers, Proposed(v)', NEW w \in Workers, job[w] # Idle,
           NEW shown \in SUBSET Gifts, Propose(w, shown), epoch' = epoch
    PROVE  DrawMoves(v)
<1>1. CASE End(w)
  BY <1>1, StartOrEnd
<1>2. ASSUME NEW g \in shown,
             job' = [job EXCEPT ![w].at = "acquire", ![w].gift = g, ![w].seen = {}, ![w].epoch = epoch]
      PROVE  DrawMoves(v)
  <2>1. CASE v # w
    BY <1>2, <2>1 DEF TypeOK, DrawMoves
  <2>2. CASE v = w
    <3>1. job[w] \in Job
      BY JobOf
    <3>2. job'[w] = [job[w] EXCEPT !.at = "acquire", !.gift = g, !.seen = {}, !.epoch = epoch]
      BY <1>2 DEF TypeOK
    <3>3. job'[w].at = "acquire" /\ job'[w].gift = g /\ job'[w].epoch = epoch
      BY <3>1, <3>2 DEF Job
    <3> QED
      BY <2>2, <3>3 DEF DrawMoves
  <2> QED
    BY <2>1, <2>2
<1> QED
  BY <1>1, <1>2 DEF Propose

\* The draw that has inserted its order deletes the stock key and sends, or
\* takes the order back.
LEMMA GoOnMoves ==
    ASSUME TypeOK, NEW v \in Workers, NEW w \in Workers, Inserted(w), NEW at \in Places,
           Goto(w, at), UNCHANGED <<orders, epoch>>
    PROVE  DrawMoves(v)
<1>1. CASE v # w
  BY <1>1 DEF Goto, TypeOK, DrawMoves
<1>2. CASE v = w
  <2>1. job[w] \in Job
    BY JobOf DEF Inserted, Proposed
  <2>2. job'[w] = [job[w] EXCEPT !.at = at]
    BY DEF Goto, TypeOK
  <2>3. SameOrder(w) /\ job'[w].id = job[w].id
    BY <2>1, <2>2 DEF Job, SameOrder
  <2> QED
    BY <1>2, <2>3 DEF DrawMoves
<1> QED
  BY <1>1, <1>2

LEMMA AcquireMoves ==
    ASSUME TypeOK, NEW v \in Workers, Proposed(v)', NEW w \in Workers, Acquire(w)
    PROVE  DrawMoves(v)
<1>1. job[w] \in Job /\ job[w] # Idle /\ Proposed(w)
  BY JobOf DEF Acquire, At, Proposed
<1>2. CASE TakeUnit(w) /\ job' = [job EXCEPT ![w].at = "delStock", ![w].id = nextId]
  <2>1. CASE v # w
    BY <1>2, <2>1 DEF TypeOK, DrawMoves
  <2>2. CASE v = w
    <3>1. job'[w] = [job[w] EXCEPT !.at = "delStock", !.id = nextId]
      BY <1>2 DEF TypeOK
    <3>2. SameOrder(w) /\ job'[w].id = nextId
      BY <1>1, <3>1 DEF Job, SameOrder
    <3>3. UNCHANGED epoch
      BY DEF Acquire
    <3> QED
      BY <1>1, <1>2, <2>2, <3>2, <3>3 DEF DrawMoves
  <2> QED
    BY <2>1, <2>2
<1>3. CASE End(w) \/ Goto(w, "read")
  BY <1>1, <1>3, StartOrEnd
<1> QED
  BY <1>2, <1>3 DEF Acquire

LEMMA DrawsMove ==
    ASSUME Consistent, [Next]_vars, NEW v \in Workers, Proposed(v)' PROVE DrawMoves(v)
<1> USE DEF Consistent
<1>1. CASE UNCHANGED job
  BY <1>1 DEF DrawMoves
<1>2. ASSUME NEW w \in Workers, Acquire(w) PROVE DrawMoves(v)
  BY <1>2, AcquireMoves
<1>3. ASSUME NEW w \in Workers, NEW u \in Users, Draw(w, u) \/ Pay(w, u) \/ GiveUp(w, u)
      PROVE  DrawMoves(v)
  BY <1>3, StartOrEnd DEF Draw, Pay, GiveUp
<1>4. ASSUME NEW w \in Workers, NEW m \in timeouts, TimeoutCancel(w, m) PROVE DrawMoves(v)
  <2>1. m.user \in Users
    BY DEF TypeOK, Messages
  <2> QED
    BY <1>4, <2>1, StartOrEnd DEF TimeoutCancel
<1>5. ASSUME NEW w \in Workers, ReadCached(w) PROVE DrawMoves(v)
  BY <1>5, ProposeMoves DEF ReadCached, At, TypeOK
<1>6. ASSUME NEW w \in Workers, Backfill(w) PROVE DrawMoves(v)
  BY <1>6, ProposeMoves, JobOf DEF Backfill, At, Job
<1>7. ASSUME NEW w \in Workers, ReadOrigin(w) PROVE DrawMoves(v)
  <2>1. CASE End(w)
    BY <2>1, StartOrEnd
  <2>2. ASSUME job' = [job EXCEPT ![w].at = "backfill", ![w].seen = InStock] PROVE DrawMoves(v)
    <3> DEFINE shown == InStock
    <3>1. job[w] \in Job
      BY <1>7, JobOf DEF ReadOrigin, At
    <3>2. job' = [job EXCEPT ![w].at = "backfill", ![w].seen = shown]
      BY <2>2
    <3> HIDE DEF shown
    <3>3. CASE v # w
      BY <3>2, <3>3 DEF TypeOK, DrawMoves
    <3>4. CASE v = w
      <4>1. job'[w] = [job[w] EXCEPT !.at = "backfill", !.seen = shown]
        BY <3>2 DEF TypeOK
      <4>2. job'[w].at = "backfill"
        BY <3>1, <4>1 DEF Job
      <4> QED
        BY <3>4, <4>2 DEF Proposed
    <3> QED
      BY <3>3, <3>4
  <2> QED
    BY <1>7, <2>1, <2>2 DEF ReadOrigin
<1>8. ASSUME NEW w \in Workers, DelStockKey(w) PROVE DrawMoves(v)
  <2>1. CASE job[w].at = "delStock"
    BY <1>8, <2>1, GoOnMoves DEF DelStockKey, At, Inserted, Proposed, Places
  <2>2. CASE job[w].at # "delStock"
    BY <1>8, <2>2, StartOrEnd DEF DelStockKey
  <2> QED
    BY <2>1, <2>2
<1>9. ASSUME NEW w \in Workers, SendTimeout(w) PROVE DrawMoves(v)
  <2>1. CASE End(w)
    BY <2>1, StartOrEnd
  <2>2. CASE Goto(w, "cancel")
    BY <1>9, <2>2, GoOnMoves DEF SendTimeout, At, Inserted, Proposed, Places
  <2> QED
    BY <1>9, <2>1, <2>2 DEF SendTimeout
<1>10. ASSUME NEW w \in Workers, CancelOrder(w) PROVE DrawMoves(v)
  BY <1>10, StartOrEnd DEF CancelOrder, At
<1>11. ASSUME NEW w \in Workers, TransitionToPaid(w) PROVE DrawMoves(v)
  BY <1>11, StartOrEnd DEF TransitionToPaid
<1>12. ~Crash
  BY DEF Crash, Proposed
<1>13. ASSUME NEW w \in Workers, DrawRejected(w) \/ \E m \in timeouts : TimeoutIgnored(w, m)
       PROVE  UNCHANGED job
  BY <1>13 DEF DrawRejected, TimeoutIgnored, vars
<1>14. ASSUME \/ BeginReset \/ DeleteOrders \/ ResetAutoIncrement \/ ResetCacheStock
              \/ ResetDelStockKey \/ ResetFails \/ StockKeyExpires \/ UNCHANGED vars
       PROVE  UNCHANGED job
  BY <1>14 DEF BeginReset, DeleteOrders, ResetAutoIncrement, ResetCacheStock, ResetDelStockKey,
               ResetFails, StockKeyExpires, vars
<1> QED
  BY <1>1, <1>2, <1>3, <1>4, <1>5, <1>6, <1>7, <1>8, <1>9, <1>10, <1>11, <1>12, <1>13, <1>14 DEF Next

LEMMA DrawsStayFit == ASSUME Consistent, [Next]_vars PROVE JobsFit' /\ OwnRow'
<1> USE DEF Consistent
<1>0. epoch \in Nat /\ nextId \in Ids
  BY DEF TypeOK
<1>1. ASSUME NEW v \in Workers, Proposed(v)'
      PROVE  /\ job'[v].gift \in Gifts /\ job'[v].epoch <= epoch'
             /\ Inserted(v)' => job'[v].id \in Ids
  <2>1. DrawMoves(v)
    BY <1>1, DrawsMove
  <2>2. epoch' >= epoch
    BY <1>0, EpochGrows
  <2>3. CASE job'[v] = job[v]
    <3>1. Proposed(v) /\ (Inserted(v)' => Inserted(v))
      BY <1>1, <2>3 DEF Proposed, Inserted
    <3>2. job[v].epoch \in Nat
      BY <3>1, JobOf DEF Proposed, Job
    <3> QED
      BY <1>0, <2>2, <2>3, <3>1, <3>2, EpochGrows DEF JobsFit
  <2> QED
    BY <1>0, <2>1, <2>3 DEF DrawMoves, SameOrder, JobsFit, Inserted
<1>2. ASSUME NEW v \in Workers, Inserted(v)', job'[v].epoch = epoch'
      PROVE  orders'[job'[v].user] # None /\ orders'[job'[v].user].id = job'[v].id
  <2>1. DrawMoves(v)
    BY <1>2, DrawsMove DEF Inserted
  <2>2. CASE job'[v] = job[v]
    <3>1. Inserted(v) /\ job[v] \in Job
      BY <1>2, <2>2, JobOf DEF Proposed, Inserted
    <3>2. job[v].user \in Users /\ job[v].epoch \in Nat
      BY <3>1 DEF Job
    <3>3. epoch' = epoch
      BY <1>0, <1>2, <2>2, <3>1, <3>2, EpochGrows DEF JobsFit, Inserted
    <3>4. HasRow(job[v].user) /\ orders[job[v].user].id = job[v].id
      BY <1>2, <2>2, <3>1, <3>3 DEF OwnRow
    <3>5. PICK u \in Users : u = job[v].user
      BY <3>2
    <3> QED
      BY <2>2, <3>3, <3>4, <3>5, RowsAreKept DEF HasRow
  <2>3. ASSUME Acquire(v), TakeUnit(v), Proposed(v), SameOrder(v), job'[v].id = nextId
        PROVE  orders'[job'[v].user] # None /\ orders'[job'[v].user].id = job'[v].id
    <3>1. PICK u \in Users : u = job[v].user
      BY <2>3, JobOf DEF Proposed, Job
    <3>2. Row(nextId, job[v].gift, job[v].epoch) \in Orders
      BY <2>3, JobOf DEF Row, Orders, Job, JobsFit, Proposed, TypeOK
    <3>3. Row(nextId, job[v].gift, job[v].epoch).id = nextId
      BY DEF Row
    <3>4. orders'[u] = Row(nextId, job[v].gift, job[v].epoch)
      BY <2>3, <3>1 DEF TakeUnit, TypeOK
    <3> QED
      BY <2>3, <3>1, <3>2, <3>3, <3>4, NoneIsNoOrder DEF SameOrder
  <2>4. CASE Inserted(v) /\ SameOrder(v) /\ job'[v].id = job[v].id /\ UNCHANGED <<orders, epoch>>
    BY <1>2, <2>4 DEF OwnRow, SameOrder, HasRow
  <2> QED
    BY <1>2, <2>1, <2>2, <2>3, <2>4 DEF DrawMoves, Inserted
<1> QED
  BY <1>1, <1>2 DEF JobsFit, OwnRow, HasRow

LEMMA ResetStaysFit == ASSUME Consistent, [Next]_vars PROVE ResetFits'
<1> USE DEF Consistent
<1>1. epoch' # epoch => DeleteOrders
  BY OrdersChange DEF ResetAutoIncrement
<1>2. resetting' = "orders" => BeginReset \/ resetting = "orders"
  <2>1. ASSUME NEW w \in Workers,
               \/ DrawRejected(w) \/ \E u \in Users : Draw(w, u) \/ Pay(w, u) \/ GiveUp(w, u)
               \/ ReadCached(w) \/ ReadOrigin(w) \/ Backfill(w) \/ DelStockKey(w) \/ SendTimeout(w)
               \/ Acquire(w) \/ CancelOrder(w) \/ TransitionToPaid(w)
               \/ \E m \in timeouts : TimeoutCancel(w, m) \/ TimeoutIgnored(w, m)
        PROVE  resetting' = resetting
    BY <2>1 DEF DrawRejected, vars, Draw, Pay, GiveUp, ReadCached, ReadOrigin, Backfill, DelStockKey,
                SendTimeout, TimeoutCancel, TimeoutIgnored, Acquire, CancelOrder, TransitionToPaid
  <2>2. ASSUME \/ DeleteOrders \/ ResetAutoIncrement \/ ResetCacheStock
               \/ ResetDelStockKey \/ ResetFails \/ StockKeyExpires \/ Crash \/ UNCHANGED vars
        PROVE  resetting' # "orders" \/ resetting' = resetting
    BY <2>2 DEF DeleteOrders, ResetAutoIncrement, ResetCacheStock, ResetDelStockKey,
                ResetFails, StockKeyExpires, Crash, vars
  <2> QED
    BY <2>1, <2>2 DEF Next
<1> QED
  BY <1>1, <1>2 DEF ResetFits, BeginReset, DeleteOrders

LEMMA InitIsConsistent == Init => Consistent
<1> SUFFICES ASSUME Init PROVE Consistent
  OBVIOUS
<1>1. Rows = {} /\ Cardinality(Rows) = 0
  BY FS_EmptySet DEF Init, Rows, HasRow
<1>2. Cardinality(Users) \in Nat /\ Cardinality(Users) * (MaxEpochs + 1) \in Nat
  <2>1. Cardinality(Users) \in Nat
    BY UsersAreFinite
  <2> QED
    BY <2>1, ConstantsAssumption
<1>3. 1 \in Ids
  BY <1>2 DEF Ids
<1>4. TypeOK
  BY <1>3, ConstantsAssumption DEF Init, TypeOK, Jobs
<1>5. 1 <= 1 + Cardinality(Rows) + Cardinality(Users) * 0
  <2>1. Cardinality(Users) * 0 = 0
    BY <1>2
  <2> QED
    BY <1>1, <2>1
<1>6. RowsFit
  BY <1>5 DEF Init, RowsFit, HasRow
<1> QED
  BY <1>4, <1>6 DEF Init, Consistent, JobsFit, OwnRow, Inserted, Proposed, ResetFits

\* The inductive invariant: types, ids that name one order, draws that know
\* their own.
THEOREM AlwaysConsistent == Spec => []Consistent
<1>1. Consistent /\ [Next]_vars => Consistent'
  BY TypesAreKept, RowsStayFit, DrawsStayFit, ResetStaysFit DEF Consistent
<1> QED
  BY <1>1, InitIsConsistent, PTL DEF Spec

\* Every reachable state is well typed; ids stay within what the users can
\* insert between the resets.
THEOREM InventoryTypeCorrect == Spec => []TypeOK
<1>1. Consistent => TypeOK
  BY DEF Consistent
<1> QED
  BY <1>1, AlwaysConsistent, PTL

-----------------------------------------------------------------------------
(* The properties *)

HeldBy(g) == {u \in Users : HasRow(u) /\ orders[u].gift = g /\ orders[u].status # "cancelled"}

LEMMA HeldIsCounted ==
    ASSUME NEW g \in Gifts
    PROVE  /\ IsFiniteSet(HeldBy(g)) /\ Cardinality(HeldBy(g)) \in Nat
           /\ Held(g) = Cardinality(HeldBy(g)) /\ Held(g)' = Cardinality(HeldBy(g)')
BY UsersAreFinite DEF Held, HeldBy

LEMMA TakeUnitAddsUp ==
    ASSUME Consistent, NEW w \in Workers, Acquire(w), TakeUnit(w), UnitsAddUp
    PROVE  UnitsAddUp'
<1> USE DEF Consistent
<1>1. PICK u \in Users : u = job[w].user /\ ~HasRow(u)
  BY JobOf DEF Acquire, At, Job, TakeUnit
<1>2. PICK h \in Gifts : h = job[w].gift
  BY DEF JobsFit, Proposed, Acquire, At
<1>3. /\ orders' = [orders EXCEPT ![u] = Row(nextId, h, job[w].epoch)]
      /\ stock' = [stock EXCEPT ![h] = @ - 1] /\ adrift' = adrift
  BY <1>1, <1>2 DEF TakeUnit, Acquire
<1>4. Row(nextId, h, job[w].epoch) \in Orders
  BY <1>2, JobOf DEF Acquire, At, Row, Orders, Job, TypeOK
<1>5. /\ orders'[u].gift = h /\ orders'[u].status = "pending_payment" /\ orders'[u] # None
      /\ \A v \in Users \ {u} : orders'[v] = orders[v]
  BY <1>3, <1>4, NoneIsNoOrder DEF TypeOK, Row
<1>6. u \notin HeldBy(h) /\ HeldBy(h)' = HeldBy(h) \cup {u}
  BY <1>1, <1>5 DEF HeldBy, HasRow
<1>7. \A g \in Gifts \ {h} : HeldBy(g)' = HeldBy(g)
  BY <1>1, <1>5 DEF HeldBy, HasRow
<1>8. Held(h)' = Held(h) + 1
  BY <1>6, HeldIsCounted, FS_AddElement
<1>9. \A g \in Gifts \ {h} : Held(g)' = Held(g) /\ stock'[g] = stock[g]
  BY <1>3, <1>7, HeldIsCounted DEF TypeOK
<1>10. stock'[h] = stock[h] - 1 /\ stock[h] \in Nat /\ Held(h) \in Nat
  BY <1>3, HeldIsCounted DEF TypeOK
<1> QED
  BY <1>3, <1>8, <1>9, <1>10, ConstantsAssumption DEF UnitsAddUp, TypeOK

\* A cancellation gives back the unit of the row it cancels.
LEMMA GiveBackAddsUp ==
    ASSUME Consistent, NEW id, GiveBack(id), adrift' = adrift, UnitsAddUp
    PROVE  UnitsAddUp'
<1> USE DEF Consistent
<1>1. PICK u \in Users : /\ Pending(u) /\ orders[u].id = id
                         /\ orders' = [orders EXCEPT ![u].status = "cancelled"]
                         /\ stock' = [stock EXCEPT ![orders[u].gift] = @ + 1]
  BY DEF GiveBack
<1>2. orders[u] \in Orders /\ HasRow(u) /\ orders[u].status = "pending_payment"
  BY <1>1, OrderOf DEF Pending
<1>3. PICK h \in Gifts : h = orders[u].gift
  BY <1>2 DEF Orders
<1>4. orders'[u].status = "cancelled" /\ \A v \in Users \ {u} : orders'[v] = orders[v]
  BY <1>1, <1>2 DEF TypeOK, Orders
<1>5. u \in HeldBy(h) /\ HeldBy(h)' = HeldBy(h) \ {u}
  BY <1>2, <1>3, <1>4 DEF HeldBy, HasRow
<1>6. \A g \in Gifts \ {h} : HeldBy(g)' = HeldBy(g)
  BY <1>2, <1>3, <1>4 DEF HeldBy, HasRow
<1>7. Held(h)' = Held(h) - 1
  BY <1>5, HeldIsCounted, FS_RemoveElement
<1>8. \A g \in Gifts \ {h} : Held(g)' = Held(g) /\ stock'[g] = stock[g]
  BY <1>1, <1>3, <1>6, HeldIsCounted DEF TypeOK
<1>9. stock'[h] = stock[h] + 1 /\ stock[h] \in Nat /\ Held(h) \in Nat
  BY <1>1, <1>3, HeldIsCounted DEF TypeOK
<1> QED
  BY <1>7, <1>8, <1>9, ConstantsAssumption DEF UnitsAddUp, TypeOK

LEMMA UnitsKeepAddingUp ==
    ASSUME Consistent, [Next]_vars, UnitsAddUp PROVE UnitsAddUp'
<1> USE DEF Consistent
<1>0. UNCHANGED <<orders, stock, adrift>> => UnitsAddUp'
  BY DEF UnitsAddUp, Held, HasRow
<1>1. ASSUME NEW w \in Workers,
             \/ DrawRejected(w) \/ \E u \in Users : Draw(w, u) \/ Pay(w, u) \/ GiveUp(w, u)
             \/ ReadCached(w) \/ ReadOrigin(w) \/ Backfill(w) \/ DelStockKey(w) \/ SendTimeout(w)
             \/ \E m \in timeouts : TimeoutCancel(w, m) \/ TimeoutIgnored(w, m)
      PROVE  UNCHANGED <<orders, stock, adrift>>
  BY <1>1 DEF DrawRejected, vars, Draw, Pay, GiveUp, ReadCached, ReadOrigin, Backfill, DelStockKey,
              SendTimeout, TimeoutCancel, TimeoutIgnored
<1>2. ASSUME NEW w \in Workers, Acquire(w) PROVE UnitsAddUp'
  <2>1. CASE TakeUnit(w)
    BY <1>2, <2>1, TakeUnitAddsUp
  <2>2. CASE ~TakeUnit(w)
    BY <1>0, <1>2, <2>2 DEF Acquire
  <2> QED
    BY <2>1, <2>2
<1>3. ASSUME NEW w \in Workers, CancelOrder(w) PROVE UnitsAddUp'
  <2>1. adrift' = adrift /\ (GiveBack(job[w].id) \/ UNCHANGED <<orders, stock>>)
    BY <1>3 DEF CancelOrder
  <2> QED
    BY <1>0, <2>1, GiveBackAddsUp
<1>4. ASSUME NEW w \in Workers, TransitionToPaid(w) PROVE UnitsAddUp'
  <2>1. PICK u \in Users : u = job[w].user
    BY <1>4, JobOf DEF TransitionToPaid, At, Job
  <2>2. CASE Pending(u) /\ orders' = [orders EXCEPT ![u].status = "paid"]
    <3>1. orders[u] \in Orders /\ HasRow(u) /\ orders[u].status = "pending_payment"
      BY <2>2, OrderOf DEF Pending
    <3>2. /\ orders'[u].status = "paid" /\ orders'[u].gift = orders[u].gift
          /\ \A v \in Users \ {u} : orders'[v] = orders[v]
      BY <2>2, <3>1 DEF TypeOK, Orders
    <3>3. orders'[u] # None
      <4>1. [orders[u] EXCEPT !.status = "paid"] \in Orders
        BY <3>1 DEF Orders
      <4> QED
        BY <2>2, <4>1, NoneIsNoOrder DEF TypeOK
    <3>4. \A g \in Gifts : HeldBy(g)' = HeldBy(g)
      BY <3>1, <3>2, <3>3 DEF HeldBy, HasRow
    <3>5. \A g \in Gifts : Held(g)' = Held(g)
      BY <3>4, HeldIsCounted
    <3> QED
      BY <1>4, <3>5 DEF TransitionToPaid, UnitsAddUp
  <2>3. CASE UNCHANGED orders
    BY <1>0, <1>4, <2>3 DEF TransitionToPaid
  <2> QED
    BY <1>4, <2>1, <2>2, <2>3 DEF TransitionToPaid
<1>5. CASE DeleteOrders
  <2>1. \A g \in Gifts : HeldBy(g)' = {}
    BY <1>5 DEF DeleteOrders, HeldBy, HasRow
  <2>2. \A g \in Gifts : Held(g)' = 0 /\ Held(g) \in Nat
    BY <2>1, HeldIsCounted, FS_EmptySet
  <2>3. \A g \in Gifts : stock'[g] = stock[g] /\ adrift'[g] = adrift[g] - Held(g)
    BY <1>5 DEF DeleteOrders
  <2> QED
    BY <2>2, <2>3, ConstantsAssumption DEF UnitsAddUp, TypeOK
<1>6. CASE ResetCacheStock
  <2>1. \A g \in Gifts : Held(g)' = Held(g) /\ Held(g) \in Nat
    BY <1>6, HeldIsCounted DEF ResetCacheStock, Held, HasRow
  <2>2. \A g \in Gifts : stock'[g] = Count[g] /\ adrift'[g] = Held(g)
    BY <1>6 DEF ResetCacheStock
  <2> QED
    BY <2>1, <2>2, ConstantsAssumption DEF UnitsAddUp
<1>7. CASE BeginReset \/ ResetAutoIncrement \/ ResetDelStockKey \/ ResetFails
             \/ StockKeyExpires \/ Crash \/ UNCHANGED vars
  BY <1>0, <1>7 DEF BeginReset, ResetAutoIncrement, ResetDelStockKey, ResetFails, StockKeyExpires,
                    Crash, vars
<1> QED
  BY <1>0, <1>1, <1>2, <1>3, <1>4, <1>5, <1>6, <1>7 DEF Next

\* Stock and living orders add up to the baseline and to what resets have set
\* apart, whatever interleaves, fails or crashes.
THEOREM UnitsAlwaysAddUp == Spec => []UnitsAddUp
<1>1. Init => UnitsAddUp
  <2> SUFFICES ASSUME Init, NEW g \in Gifts PROVE stock[g] + Held(g) = Count[g] + adrift[g]
    BY DEF UnitsAddUp
  <2>1. HeldBy(g) = {}
    BY DEF Init, HeldBy, HasRow
  <2>2. Held(g) = 0
    BY <2>1, HeldIsCounted, FS_EmptySet
  <2> QED
    BY <2>2, ConstantsAssumption DEF Init
<1> QED
  BY <1>1, UnitsKeepAddingUp, AlwaysConsistent, PTL DEF Spec

\* A payment and a cancellation that both saw the row pending have one winner:
\* no step but the deletion of all orders changes a row with a verdict.
THEOREM VerdictsAlwaysStand == Spec => VerdictsStand
<1>1. ASSUME Consistent, [Next]_vars, NEW u \in Users, HasRow(u), ~Pending(u)
      PROVE  orders'[u] = orders[u] \/ epoch' > epoch
  <2> USE <1>1 DEF Consistent
  <2>1. CASE Settled
    BY <2>1 DEF Settled, TypeOK
  <2>2. ASSUME NEW w \in Workers, TakeUnit(w) PROVE orders'[u] = orders[u]
    BY <2>2 DEF TakeUnit, TypeOK
  <2>3. CASE DeleteOrders
    BY <2>3 DEF DeleteOrders, TypeOK
  <2> QED
    BY <2>1, <2>2, <2>3, OrdersChange DEF ResetAutoIncrement
<1>2. Consistent /\ [Next]_vars =>
        [\A u \in Users : (IF HasRow(u) THEN ~Pending(u) ELSE FALSE)
                             => orders'[u] = orders[u] \/ epoch' > epoch]_vars
  BY <1>1
<1> QED
  BY <1>2, AlwaysConsistent, PTL DEF Spec, VerdictsStand

\* A draw that could not send its timeout cancels its own order and no other
\* one, unless a reset came in between.
THEOREM RollbackIsAlwaysOwn == Spec => RollbackIsOwn
<1>1. ASSUME Consistent, [Next]_vars, NEW w \in Workers, job[w] # Idle,
             job[w].op = "draw", job[w].at = "cancel", job[w].epoch = epoch, job'[w] # job[w],
             NEW u \in Users \ {job[w].user}
      PROVE  orders'[u] = orders[u]
  <2> USE <1>1 DEF Consistent
  <2>1. Inserted(w)
    BY DEF Inserted, Proposed
  <2>2. HasRow(job[w].user) /\ orders[job[w].user].id = job[w].id /\ job[w].user \in Users
    BY <2>1, JobOf DEF OwnRow, Job
  <2>3. CASE CancelOrder(w)
    <3>1. ASSUME GiveBack(job[w].id) PROVE orders'[u] = orders[u]
      BY <2>2, <3>1, OrderOf DEF GiveBack, RowsFit, TypeOK
    <3> QED
      BY <2>3, <3>1 DEF CancelOrder
  <2>4. CASE Crash
    BY <2>4 DEF Crash
  <2>5. ASSUME NEW v \in Workers,
               \/ DrawRejected(v) \/ \E x \in Users : Draw(v, x) \/ Pay(v, x) \/ GiveUp(v, x)
               \/ ReadCached(v) \/ ReadOrigin(v) \/ Backfill(v) \/ Acquire(v) \/ DelStockKey(v)
               \/ SendTimeout(v) \/ TransitionToPaid(v)
               \/ \E m \in timeouts : TimeoutCancel(v, m) \/ TimeoutIgnored(v, m)
        PROVE  v # w \/ UNCHANGED job
    BY <2>5 DEF DrawRejected, vars, Draw, Pay, GiveUp, ReadCached, ReadOrigin, Backfill, Acquire,
                DelStockKey, SendTimeout, TransitionToPaid, TimeoutCancel, TimeoutIgnored, At
  <2>6. ASSUME NEW v \in Workers, v # w,
               \/ \E x \in Users : Draw(v, x) \/ Pay(v, x) \/ GiveUp(v, x)
               \/ ReadCached(v) \/ ReadOrigin(v) \/ Backfill(v) \/ Acquire(v) \/ DelStockKey(v)
               \/ SendTimeout(v) \/ CancelOrder(v) \/ TransitionToPaid(v)
               \/ \E m \in timeouts : TimeoutCancel(v, m)
        PROVE  job'[w] = job[w]
    BY <2>6 DEF Draw, Pay, GiveUp, ReadCached, ReadOrigin, Backfill, Acquire, DelStockKey,
                SendTimeout, CancelOrder, TransitionToPaid, TimeoutCancel, Begin, OnOrder, Propose,
                Goto, End, TypeOK
  <2>7. ASSUME \/ BeginReset \/ DeleteOrders \/ ResetAutoIncrement \/ ResetCacheStock
               \/ ResetDelStockKey \/ ResetFails \/ StockKeyExpires \/ UNCHANGED vars
        PROVE  UNCHANGED job
    BY <2>7 DEF BeginReset, DeleteOrders, ResetAutoIncrement, ResetCacheStock, ResetDelStockKey,
                ResetFails, StockKeyExpires, vars
  <2>8. ASSUME NEW v \in Workers, DrawRejected(v) \/ \E m \in timeouts : TimeoutIgnored(v, m)
        PROVE  UNCHANGED job
    BY <2>8 DEF DrawRejected, TimeoutIgnored, vars
  <2> QED
    BY <2>3, <2>4, <2>5, <2>6, <2>7, <2>8 DEF Next
<1>2. Consistent /\ [Next]_vars =>
        [\A w \in Workers :
          (IF job[w] = Idle THEN FALSE
           ELSE job[w].op = "draw" /\ job[w].at = "cancel"
                  /\ job[w].epoch = epoch /\ job'[w] # job[w])
             => \A u \in Users \ {job[w].user} : orders'[u] = orders[u]]_vars
  BY <1>1
<1> QED
  BY <1>2, AlwaysConsistent, PTL DEF Spec, RollbackIsOwn

\* The draw that is about to send the timeout of a user's order.
Carrier(w, u) == (At(w, "delStock") \/ At(w, "send")) /\ Names(Timeout(job[w]), u)

LEMMA FaultsGrow == ASSUME TypeOK PROVE ~(Fault /\ faults' = 0)
BY DEF TypeOK, Fault

\* A message that names an order goes only with the verdict on that order.
LEMMA MessagesStay ==
    ASSUME Consistent, [Next]_vars, NEW u \in Users, Pending(u), orders'[u] = orders[u],
           NEW m \in timeouts, Names(m, u)
    PROVE  m \in timeouts'
<1> USE DEF Consistent
<1>1. ASSUME NEW w \in Workers, CancelOrder(w) PROVE m \in timeouts'
  <2> SUFFICES ASSUME timeouts' = timeouts \ {Timeout(job[w])}, m = Timeout(job[w]) PROVE FALSE
    BY <1>1 DEF CancelOrder
  <2>1. orders[u].id = job[w].id
    BY DEF Names, Timeout
  <2>2. orders[u] \in Orders /\ HasRow(u)
    BY OrderOf
  <2>3. ~GiveBack(job[w].id)
    <3> SUFFICES ASSUME NEW v \in Users, Pending(v), orders[v].id = job[w].id,
                        orders' = [orders EXCEPT ![v].status = "cancelled"]
                 PROVE  FALSE
      BY DEF GiveBack
    <3>1. v = u
      BY <2>1, <2>2, OrderOf DEF RowsFit
    <3>2. orders'[u].status = "cancelled"
      BY <2>2, <3>1 DEF TypeOK, Orders
    <3> QED
      BY <3>2 DEF Pending
  <2> QED
    BY <1>1, <2>1, <2>3 DEF CancelOrder
<1>2. ASSUME NEW w \in Workers, NEW x \in timeouts, TimeoutIgnored(w, x) PROVE m \in timeouts'
  BY <1>2 DEF TimeoutIgnored, Names
<1>3. ASSUME NEW w \in Workers,
             \/ DrawRejected(w) \/ \E x \in Users : Draw(w, x) \/ Pay(w, x) \/ GiveUp(w, x)
             \/ ReadCached(w) \/ ReadOrigin(w) \/ Backfill(w) \/ Acquire(w) \/ DelStockKey(w)
             \/ SendTimeout(w) \/ TransitionToPaid(w) \/ \E x \in timeouts : TimeoutCancel(w, x)
      PROVE  m \in timeouts'
  BY <1>3 DEF DrawRejected, vars, Draw, Pay, GiveUp, ReadCached, ReadOrigin, Backfill, Acquire,
              DelStockKey, SendTimeout, TransitionToPaid, TimeoutCancel
<1>4. CASE \/ BeginReset \/ DeleteOrders \/ ResetAutoIncrement \/ ResetCacheStock
           \/ ResetDelStockKey \/ ResetFails \/ StockKeyExpires \/ Crash \/ UNCHANGED vars
  BY <1>4 DEF BeginReset, DeleteOrders, ResetAutoIncrement, ResetCacheStock, ResetDelStockKey,
              ResetFails, StockKeyExpires, Crash, vars
<1> QED
  BY <1>1, <1>2, <1>3, <1>4 DEF Next

\* The draw that carries a timeout sends it, unless a call fails.
LEMMA CarriersSend ==
    ASSUME Consistent, [Next]_vars, faults' = 0, NEW u \in Users, HasRow(u), orders'[u] = orders[u],
           NEW w \in Workers, Carrier(w, u)
    PROVE  Carrier(w, u)' \/ \E m \in timeouts' : Names(m, u)'
<1> USE DEF Consistent
<1>1. job[w] \in Job /\ job[w] # Idle
  BY JobOf DEF Carrier, At
<1>2. CASE job'[w] = job[w]
  BY <1>2 DEF Carrier, At, Names, Timeout, HasRow
<1>3. CASE DelStockKey(w)
  <2>1. CASE Goto(w, "send")
    <3>1. job'[w] = [job[w] EXCEPT !.at = "send"]
      BY <2>1 DEF Goto, TypeOK
    <3>2. job'[w].at = "send" /\ SameOrder(w) /\ job'[w].id = job[w].id /\ job'[w] \in Job
      BY <1>1, <3>1 DEF Job, SameOrder, Places
    <3>3. job'[w] # Idle
      BY <3>2 DEF Job, Idle
    <3> QED
      BY <3>2, <3>3 DEF Carrier, At, Names, Timeout, SameOrder, HasRow
  <2> QED
    BY <1>3, <2>1 DEF DelStockKey, Carrier, At
<1>4. CASE SendTimeout(w)
  <2>1. timeouts' = timeouts \cup {Timeout(job[w])}
    BY <1>4, FaultsGrow DEF SendTimeout
  <2>2. Names(Timeout(job[w]), u)
    BY DEF Carrier
  <2>3. PICK m \in timeouts' : m = Timeout(job[w])
    BY <2>1
  <2>4. Names(m, u)'
    BY <2>2, <2>3 DEF Names, HasRow
  <2> QED
    BY <2>4
<1>5. ASSUME NEW v \in Workers,
             \/ DrawRejected(v) \/ \E x \in Users : Draw(v, x) \/ Pay(v, x) \/ GiveUp(v, x)
             \/ ReadCached(v) \/ ReadOrigin(v) \/ Backfill(v) \/ Acquire(v) \/ CancelOrder(v)
             \/ TransitionToPaid(v) \/ \E m \in timeouts : TimeoutCancel(v, m) \/ TimeoutIgnored(v, m)
      PROVE  v # w \/ UNCHANGED job
  BY <1>1, <1>5 DEF DrawRejected, vars, Draw, Pay, GiveUp, ReadCached, ReadOrigin, Backfill, Acquire,
              CancelOrder, TransitionToPaid, TimeoutCancel, TimeoutIgnored, At, Carrier
<1>6. ASSUME NEW v \in Workers, v # w,
             \/ \E x \in Users : Draw(v, x) \/ Pay(v, x) \/ GiveUp(v, x)
             \/ ReadCached(v) \/ ReadOrigin(v) \/ Backfill(v) \/ Acquire(v) \/ DelStockKey(v)
             \/ SendTimeout(v) \/ CancelOrder(v) \/ TransitionToPaid(v)
             \/ \E m \in timeouts : TimeoutCancel(v, m)
      PROVE  job'[w] = job[w]
  BY <1>6 DEF Draw, Pay, GiveUp, ReadCached, ReadOrigin, Backfill, Acquire, DelStockKey,
              SendTimeout, CancelOrder, TransitionToPaid, TimeoutCancel, Begin, OnOrder, Propose,
              Goto, End, TypeOK
<1>7. ASSUME NEW v \in Workers, DrawRejected(v) \/ \E m \in timeouts : TimeoutIgnored(v, m)
      PROVE  UNCHANGED job
  BY <1>7 DEF DrawRejected, TimeoutIgnored, vars
<1>8. ASSUME \/ BeginReset \/ DeleteOrders \/ ResetAutoIncrement \/ ResetCacheStock
             \/ ResetDelStockKey \/ ResetFails \/ StockKeyExpires \/ UNCHANGED vars
      PROVE  UNCHANGED job
  BY <1>8 DEF BeginReset, DeleteOrders, ResetAutoIncrement, ResetCacheStock, ResetDelStockKey,
              ResetFails, StockKeyExpires, vars
<1>9. ~Crash
  BY FaultsGrow DEF Crash
<1> QED
  BY <1>2, <1>3, <1>4, <1>5, <1>6, <1>7, <1>8, <1>9 DEF Next

\* The order a draw has just inserted is carried by that draw.
LEMMA NewOrdersAreCarried ==
    ASSUME Consistent, faults' = 0, NEW w \in Workers, Acquire(w), TakeUnit(w),
           NEW u \in Users, u = job[w].user
    PROVE  Carrier(w, u)'
<1> USE DEF Consistent
<1>1. job[w] \in Job /\ job[w].gift \in Gifts
  BY JobOf DEF Acquire, At, JobsFit, Proposed
<1>2. ~HasRow(u) /\ stock[job[w].gift] > 0
  BY DEF TakeUnit
<1>3. job' = [job EXCEPT ![w].at = "delStock", ![w].id = nextId]
  BY <1>2, FaultsGrow DEF Acquire
<1>4. job'[w] = [job[w] EXCEPT !.at = "delStock", !.id = nextId]
  BY <1>3 DEF TypeOK
<1>5. job'[w].at = "delStock" /\ SameOrder(w) /\ job'[w].id = nextId /\ job'[w] \in Job
  BY <1>1, <1>4 DEF Job, SameOrder, Places, TypeOK
<1>6. job'[w] # Idle
  BY <1>5 DEF Job, Idle
<1>7. orders'[u] = Row(nextId, job[w].gift, job[w].epoch)
  BY DEF TakeUnit, TypeOK
<1>8. Row(nextId, job[w].gift, job[w].epoch) \in Orders
  BY <1>1 DEF Row, Orders, Job, TypeOK
<1> QED
  BY <1>5, <1>6, <1>7, <1>8, NoneIsNoOrder DEF Carrier, At, Names, Timeout, SameOrder, HasRow, Row

\* As long as no call fails and nothing crashes, an unpaid order has its timeout
\* message, or its draw is about to send it.
THEOREM UnpaidAlwaysHasItsTimeout == Spec => []UnpaidHasItsTimeout
<1> DEFINE Carried(u) == \/ \E m \in timeouts : Names(m, u)
                         \/ \E w \in Workers : Carrier(w, u)
<1>1. Init => UnpaidHasItsTimeout
  BY DEF Init, UnpaidHasItsTimeout, Pending, HasRow
<1>2. ASSUME Consistent, [Next]_vars, UnpaidHasItsTimeout, faults' = 0, NEW u \in Users, Pending(u)'
      PROVE  Carried(u)'
  <2> USE <1>2 DEF Consistent
  <2>1. faults = 0
    <3>1. faults' = faults \/ Fault
      <4>1. ASSUME NEW w \in Workers,
                   \/ DrawRejected(w) \/ \E x \in Users : Draw(w, x) \/ Pay(w, x) \/ GiveUp(w, x)
                   \/ ReadCached(w) \/ Backfill(w) \/ Acquire(w)
                   \/ DelStockKey(w) \/ SendTimeout(w) \/ CancelOrder(w)
                   \/ \E m \in timeouts : TimeoutCancel(w, m) \/ TimeoutIgnored(w, m)
            PROVE  faults' = faults \/ Fault
        BY <4>1 DEF DrawRejected, vars, Draw, Pay, GiveUp, ReadCached, Backfill, Acquire,
                    DelStockKey, SendTimeout, CancelOrder, TimeoutCancel, TimeoutIgnored
      <4>2. ASSUME NEW w \in Workers, ReadOrigin(w) \/ TransitionToPaid(w)
            PROVE  faults' = faults \/ Fault
        BY <4>2 DEF ReadOrigin, TransitionToPaid, Fault
      <4>3. ASSUME \/ BeginReset \/ DeleteOrders \/ ResetAutoIncrement \/ ResetCacheStock
                   \/ ResetDelStockKey \/ ResetFails \/ StockKeyExpires \/ Crash \/ UNCHANGED vars
            PROVE  faults' = faults \/ Fault
        BY <4>3 DEF BeginReset, DeleteOrders, ResetAutoIncrement, ResetCacheStock, ResetDelStockKey,
                    ResetFails, StockKeyExpires, Crash, vars
      <4> QED
        BY <4>1, <4>2, <4>3 DEF Next
    <3> QED
      BY <3>1, FaultsGrow
  <2>2. ASSUME Pending(u), orders'[u] = orders[u] PROVE Carried(u)'
    <3>1. HasRow(u)
      BY <2>2, OrderOf
    <3>2. CASE \E m \in timeouts : Names(m, u)
      <4>1. PICK m \in timeouts : Names(m, u)
        BY <3>2
      <4>2. m \in timeouts' /\ Names(m, u)'
        BY <2>2, <4>1, MessagesStay DEF Names, HasRow
      <4> QED
        BY <4>2
    <3>3. CASE \E w \in Workers : Carrier(w, u)
      BY <2>2, <3>1, <3>3, CarriersSend
    <3> QED
      BY <2>1, <2>2, <3>2, <3>3 DEF UnpaidHasItsTimeout, Carrier
  <2>3. ASSUME orders'[u] = orders[u] PROVE Carried(u)'
    BY <2>2, <2>3 DEF Pending, HasRow
  <2>4. CASE Settled
    <3>1. PICK v \in Users, s \in {"paid", "cancelled"} :
             Pending(v) /\ orders' = [orders EXCEPT ![v].status = s]
      BY <2>4 DEF Settled
    <3>2. orders[v] \in Orders
      BY <3>1, OrderOf
    <3>3. u # v
      BY <3>1, <3>2 DEF Pending, HasRow, TypeOK, Orders
    <3> QED
      BY <2>3, <3>1, <3>3 DEF TypeOK
  <2>5. ASSUME NEW w \in Workers, Acquire(w), TakeUnit(w) PROVE Carried(u)'
    <3>1. CASE u = job[w].user
      BY <2>5, <3>1, NewOrdersAreCarried
    <3>2. CASE u # job[w].user
      BY <2>3, <2>5, <3>2 DEF TakeUnit, TypeOK
    <3> QED
      BY <3>1, <3>2
  <2>6. ~DeleteOrders
    BY DEF DeleteOrders, Pending, HasRow
  <2> QED
    BY <2>3, <2>4, <2>5, <2>6, OrdersChange DEF ResetAutoIncrement
<1>3. Consistent /\ [Next]_vars /\ UnpaidHasItsTimeout => UnpaidHasItsTimeout'
  BY <1>2 DEF UnpaidHasItsTimeout, Carrier
<1> QED
  BY <1>1, <1>3, AlwaysConsistent, PTL DEF Spec
=============================================================================
