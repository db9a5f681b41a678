------------------------- MODULE SeckillStockProofs -------------------------
(***************************************************************************)
(* The units, the reset, the restart and the life cycle of an order.       *)
(*   ResetIsAlone: the reset works alone, the gate has drained every       *)
(*     operation; with it no unit is sold twice, and after a complete      *)
(*     reset the work under way belongs to the new run.                    *)
(*   RecoveryInv: one order has one id and one user, and what a recount    *)
(*     takes for sold covers the units out, so a restart never offers a    *)
(*     unit again that somebody still has.                                 *)
(*   RefInv: a process that is about to write a row or a mark still has    *)
(*     the admission it read; with it every step of SeckillOrder is a step *)
(*     of OrderLifecycle or none.                                          *)
(***************************************************************************)
EXTENDS SeckillSafetyProofs, InventoryRecovery, SeckillRefinement

\* The reset runs alone, and each of its steps finds what the one before it
\* left.
ResetIsAlone ==
  /\ resetPc # "idle" => held = {} /\ ~clean /\ \A p \in Procs : pc[p] = "idle"
  /\ resetPc \in {"stock", "admissions", "inventory"} => \A u \in Users : ledger[u] = None
  /\ resetPc = "inventory" => \A u \in Users : adm[u] = None

\* While a reset is under way only a crash and the passing of time happen beside it
\* (the gate of order_identity.go:24-31).
LEMMA OutsideReset ==
  ASSUME TypeOK, ResetIsAlone, [Next]_vars, ~Reset, resetPc # "idle"
  PROVE  /\ UNCHANGED <<ledger, held, clean, run, stock>>
         /\ \A p \in Procs : pc'[p] = "idle"
         /\ \A u \in Users : adm'[u] \in {adm[u], None}
         /\ resetPc' \in {resetPc, "idle"}
<1> USE DEF redis, history
<1>1. \A p \in Procs : pc[p] = "idle"
  BY DEF ResetIsAlone
<1>2. \A p \in Procs : ~Step(p) /\ ~CallFails(p)
  BY <1>1 DEF Step, CallFails, At, DrawAcquire, DrawRefused, DrawSendTimeout, DrawSendCreate, DrawRollback,
              RecUpdate, RecFind, RecInsert, Settle, InsertPending, MarkPending, Reread, Claim,
              CancelFind, CancelRelease, CancelVerify
<1>3. \A p \in Handlers : ~Request(p)
  BY DEF Request, DrawBegin, PayRepeated, PayBegin, GiveUpBegin, Begin
<1>4. \A p \in Consumers, c \in Command : ~Deliver(p, c)
  BY DEF Deliver, CreateIgnored, CreateBegin, TimeoutIgnored, TimeoutBegin, Begin
<1>5. CASE Crash \/ (\E u \in Users : DeadlinePasses(u)) \/ UNCHANGED vars
  BY <1>1, <1>5 DEF Crash, DeadlinePasses, vars
<1>6. ASSUME NEW u \in Users, KeyExpires(u)
      PROVE  /\ UNCHANGED <<ledger, held, clean, run, stock, pc, resetPc>>
             /\ \A v \in Users : adm'[v] \in {adm[v], None}
  BY <1>6 DEF KeyExpires, TypeOK
<1>. QED
  BY <1>1, <1>2, <1>3, <1>4, <1>5, <1>6 DEF Next

\* Only the reset leaves its idle state.
LEMMA OnlyReset == ASSUME TypeOK, [Next]_vars, ~Reset PROVE resetPc' \in {resetPc, "idle"}
<1> USE DEF redis, history
<1>1. ASSUME \E p \in Handlers : Request(p) PROVE resetPc' = resetPc
  BY <1>1 DEF Request, DrawBegin, PayRepeated, PayBegin, GiveUpBegin
<1>2. ASSUME \E p \in Consumers, c \in Command : Deliver(p, c) PROVE resetPc' = resetPc
  BY <1>2 DEF Deliver, CreateIgnored, CreateBegin, TimeoutIgnored, TimeoutBegin
<1>3. ASSUME NEW p \in Procs,
             \/ DrawAcquire(p) \/ DrawRefused(p) \/ DrawSendTimeout(p) \/ DrawSendCreate(p)
             \/ DrawRollback(p) \/ RecUpdate(p) \/ RecFind(p) \/ RecInsert(p)
      PROVE  resetPc' = resetPc
  BY <1>3 DEF DrawAcquire, DrawRefused, DrawSendTimeout, DrawSendCreate, DrawRollback,
              RecUpdate, RecFind, RecInsert
<1>4. ASSUME NEW p \in Procs,
             \/ Settle(p) \/ InsertPending(p) \/ MarkPending(p) \/ Reread(p) \/ Claim(p)
             \/ CancelFind(p) \/ CancelRelease(p) \/ CancelVerify(p) \/ CallFails(p)
      PROVE  resetPc' = resetPc
  BY <1>4 DEF Settle, InsertPending, MarkPending, Reread, Claim, CancelFind, CancelRelease,
              CancelVerify, CallFails
<1>5. ASSUME Crash \/ (\E u \in Users : DeadlinePasses(u) \/ KeyExpires(u)) \/ UNCHANGED vars
      PROVE  resetPc' \in {resetPc, "idle"}
  BY <1>5 DEF Crash, DeadlinePasses, KeyExpires, vars
<1>. QED
  BY <1>1, <1>2, <1>3, <1>4, <1>5 DEF Next, Step

\* The gate keeps the reset alone from its first step to its last.
LEMMA ResetAloneStep == ASSUME TypeOK, ResetIsAlone, [Next]_vars PROVE ResetIsAlone'
<1> USE DEF redis, history, ResetIsAlone
<1>1. CASE ResetRotate
  BY <1>1 DEF ResetRotate
<1>2. CASE ResetOrders
  BY <1>2 DEF ResetOrders
<1>3. CASE ResetDropStock
  BY <1>3 DEF ResetDropStock
<1>4. CASE ResetDropAdmissions
  BY <1>4 DEF ResetDropAdmissions
<1>5. CASE ResetInventory
  BY <1>5 DEF ResetInventory
<1>6. CASE ResetFails
  BY <1>6 DEF ResetFails
<1>7. CASE ~Reset /\ resetPc = "idle"
  BY <1>7, OnlyReset
<1>8. CASE ~Reset /\ resetPc # "idle"
  BY <1>8, OutsideReset
<1>. QED
  BY <1>1, <1>2, <1>3, <1>4, <1>5, <1>6, <1>7, <1>8 DEF Reset

-----------------------------------------------------------------------------
\* What a step may do to the counters and the units out.
StockMoves ==
  \/ UNCHANGED <<stock, held, clean>>
  \/ \E p \in Procs : DrawAcquire(p)
  \/ \E c \in Command : Releasable(c) /\ Release(c) /\ UNCHANGED clean
  \/ ResetRotate \/ ResetDropStock \/ ResetInventory

\* Counters and units out change by the grant, the release and the reset only.
LEMMA StockStep == ASSUME TypeOK, [Next]_vars PROVE StockMoves
<1> USE DEF redis, history
<1>1. ASSUME \E p \in Handlers : Request(p) PROVE UNCHANGED <<stock, held, clean>>
  BY <1>1 DEF Request, DrawBegin, PayRepeated, PayBegin, GiveUpBegin
<1>2. ASSUME \E p \in Consumers, c \in Command : Deliver(p, c) PROVE UNCHANGED <<stock, held, clean>>
  BY <1>2 DEF Deliver, CreateIgnored, CreateBegin, TimeoutIgnored, TimeoutBegin
<1>3. ASSUME NEW p \in Procs,
             \/ DrawRefused(p) \/ DrawSendTimeout(p) \/ DrawSendCreate(p)
             \/ RecUpdate(p) \/ RecFind(p) \/ RecInsert(p) \/ Settle(p)
             \/ InsertPending(p) \/ MarkPending(p) \/ Reread(p) \/ Claim(p)
             \/ CancelFind(p) \/ CancelVerify(p) \/ CallFails(p)
      PROVE  UNCHANGED <<stock, held, clean>>
  BY <1>3 DEF DrawRefused, DrawSendTimeout, DrawSendCreate, RecUpdate, RecFind, RecInsert, Settle,
              InsertPending, MarkPending, Reread, Claim, CancelFind, CancelVerify, CallFails
<1>4. ASSUME NEW p \in Procs, DrawRollback(p) \/ CancelRelease(p) PROVE StockMoves
  <2>1. Cmd(p) \in Command
    BY <1>4, TaskType DEF DrawRollback, CancelRelease, At
  <2>. QED
    BY <1>4, <2>1 DEF DrawRollback, CancelRelease, StockMoves
<1>5. ASSUME ResetOrders \/ ResetDropAdmissions \/ ResetFails PROVE UNCHANGED <<stock, held, clean>>
  BY <1>5 DEF ResetOrders, ResetDropAdmissions, ResetFails
<1>6. ASSUME Crash \/ (\E u \in Users : DeadlinePasses(u) \/ KeyExpires(u)) \/ UNCHANGED vars
      PROVE  UNCHANGED <<stock, held, clean>>
  BY <1>6 DEF Crash, DeadlinePasses, KeyExpires, vars
<1>. QED
  BY <1>1, <1>2, <1>3, <1>4, <1>5, <1>6 DEF Next, Step, Reset, StockMoves

\* One unit more is out for the gift of the command, none for another.
LEMMA UnitTaken ==
  ASSUME TypeOK, IsFiniteSet(held), NEW d \in Command, d \notin held, held' = held \cup {d}, NEW g
  PROVE  Cardinality(Units(g)') = IF d.gift = g THEN Cardinality(Units(g)) + 1 ELSE Cardinality(Units(g))
<1>1. IsFiniteSet(Units(g)) /\ d \notin Units(g)
  BY FS_Subset DEF Units
<1>2. CASE d.gift = g
  <2>1. Units(g)' = Units(g) \cup {d}
    BY <1>2 DEF Units
  <2>. QED
    BY <1>1, <1>2, <2>1, FS_AddElement
<1>3. CASE d.gift # g
  BY <1>3 DEF Units
<1>. QED
  BY <1>2, <1>3

\* One unit less is out for the gift of the command, none for another.
LEMMA UnitReturned ==
  ASSUME TypeOK, IsFiniteSet(held), NEW d \in held, held' = held \ {d}, NEW g
  PROVE  Cardinality(Units(g)') = IF d.gift = g THEN Cardinality(Units(g)) - 1 ELSE Cardinality(Units(g))
<1>1. IsFiniteSet(Units(g))
  BY FS_Subset DEF Units
<1>2. CASE d.gift = g
  <2>1. Units(g)' = Units(g) \ {d} /\ d \in Units(g)
    BY <1>2 DEF Units
  <2>. QED
    BY <1>1, <1>2, <2>1, FS_RemoveElement
<1>3. CASE d.gift # g
  BY <1>3 DEF Units
<1>. QED
  BY <1>2, <1>3

\* Nothing is out and nothing is recorded: a recount finds the whole quantity
\* (inventory.go:66-88 after reset.go:12-33).
LEMMA WholeQuantity ==
  ASSUME NEW g \in Gifts, \A u \in Users : adm[u] = None /\ ledger[u] = None
  PROVE  Remaining(g) = Count[g]
<1>1. Holding(g) = {} /\ Unpersisted(g) = {}
  BY DEF Holding, Unpersisted
<1>2. Cardinality(Holding(g)) = 0 /\ Cardinality(Unpersisted(g)) = 0
  BY <1>1, FS_EmptySet
<1>. QED
  BY <1>2, CountAssumption DEF Remaining

\* Every step keeps the sum of counter and units out within the quantity, and equal
\* to it in a run that started clean.
LEMMA StockStepConserves ==
  ASSUME TypeOK, Fresh, LiveIsHeld, ResetIsAlone, IsFiniteSet(held), NeverOversold, [Next]_vars
  PROVE  IsFiniteSet(held') /\ NeverOversold' /\ (UnitsFit => UnitsFit')
<1> DEFINE Out(g) == Cardinality(Units(g))
           Fits == NeverOversold' /\ (UnitsFit => UnitsFit')
<1>0. \A g \in Gifts : Out(g) \in Nat /\ stock[g] \in Nat /\ Count[g] \in Nat
  BY FS_Subset, FS_CardinalityType, CountAssumption DEF Units, TypeOK
<1>1. CASE UNCHANGED <<stock, held, clean>>
  BY <1>1 DEF UnitsFit, NeverOversold, Units
<1>2. ASSUME NEW p \in Procs, DrawAcquire(p) PROVE IsFiniteSet(held') /\ Fits
  <2>1. PICK d \in Command : d = Cmd(p)
    BY <1>2, TaskType DEF DrawAcquire, At
  <2>2. d \notin held
    BY <1>2, <2>1 DEF Fresh, Known, Acquiring, DrawAcquire, At, Cmd
  <2>3. /\ stock' = [stock EXCEPT ![d.gift] = @ - 1] /\ stock[d.gift] > 0
        /\ held' = held \cup {d} /\ UNCHANGED clean
    BY <1>2, <2>1 DEF DrawAcquire, Acquire, Acquirable
  <2>4. \A g \in Gifts : Out(g)' = IF d.gift = g THEN Out(g) + 1 ELSE Out(g)
    BY <2>2, <2>3, UnitTaken
  <2>5. \A g \in Gifts : stock'[g] = IF d.gift = g THEN stock[g] - 1 ELSE stock[g]
    BY <2>3 DEF TypeOK
  <2>6. IsFiniteSet(held')
    BY <2>3, FS_AddElement
  <2>. QED
    BY <1>0, <2>3, <2>4, <2>5, <2>6 DEF UnitsFit, NeverOversold
<1>3. ASSUME NEW d \in Command, Releasable(d), Release(d), UNCHANGED clean
      PROVE  IsFiniteSet(held') /\ Fits
  <2>1. d \in held
    BY <1>3 DEF LiveIsHeld, LiveStates, Releasable, InState
  <2>2. stock' = [stock EXCEPT ![d.gift] = @ + 1] /\ held' = held \ {d}
    BY <1>3 DEF Release
  <2>3. \A g \in Gifts : Out(g)' = IF d.gift = g THEN Out(g) - 1 ELSE Out(g)
    BY <2>1, <2>2, UnitReturned
  <2>4. \A g \in Gifts : stock'[g] = IF d.gift = g THEN stock[g] + 1 ELSE stock[g]
    BY <2>2 DEF TypeOK
  <2>5. IsFiniteSet(held')
    BY <2>2, FS_RemoveElement
  <2>. QED
    BY <1>0, <1>3, <2>3, <2>4, <2>5 DEF UnitsFit, NeverOversold
<1>4. ASSUME held' = {} PROVE IsFiniteSet(held') /\ \A g \in Gifts : Out(g)' = 0
  <2>1. \A g \in Gifts : Units(g)' = {}
    BY <1>4 DEF Units
  <2>. QED
    BY <1>4, <2>1, FS_EmptySet
<1>5. CASE ResetRotate
  <2>1. stock' = stock /\ held' = {} /\ clean' = FALSE
    BY <1>5 DEF ResetRotate
  <2>. QED
    BY <1>0, <1>4, <2>1 DEF UnitsFit, NeverOversold
<1>6. CASE ResetDropStock
  <2>1. held' = {} /\ ~clean' /\ \A g \in Gifts : stock'[g] \in {0, stock[g]}
    BY <1>6 DEF ResetDropStock, ResetIsAlone, history
  <2>. QED
    BY <1>0, <1>4, <2>1 DEF UnitsFit, NeverOversold
<1>7. CASE ResetInventory
  <2>1. PICK done \in SUBSET Gifts : Recount(done)
    BY <1>7 DEF ResetInventory
  <2>2. \A g \in Gifts : Remaining(g) = Count[g]
    BY <1>7, WholeQuantity DEF ResetInventory, ResetIsAlone
  <2>3. /\ held' = {}
        /\ \A g \in Gifts : stock'[g] = IF g \in done THEN Count[g] ELSE stock[g]
        /\ clean' => done = Gifts
    BY <1>7, <2>1, <2>2 DEF ResetInventory, Recount, ResetIsAlone
  <2>. QED
    BY <1>0, <1>4, <2>3 DEF UnitsFit, NeverOversold
<1>. QED
  BY <1>1, <1>2, <1>3, <1>5, <1>6, <1>7, StockStep DEF StockMoves

-----------------------------------------------------------------------------
StockInv == VerdictInv /\ ResetIsAlone /\ IsFiniteSet(held) /\ UnitsFit

\* At the first start every counter holds its quantity.
LEMMA StockInit == Init => StockInv
<1> SUFFICES ASSUME Init PROVE StockInv
  OBVIOUS
<1>1. held = {} /\ IsFiniteSet(held) /\ stock = Count /\ ResetIsAlone
  BY FS_EmptySet DEF Init, ResetIsAlone
<1>2. \A g \in Gifts : Cardinality(Units(g)) = 0
  <2>1. \A g \in Gifts : Units(g) = {}
    BY <1>1 DEF Units
  <2>. QED
    BY <2>1, FS_EmptySet
<1>3. UnitsFit
  BY <1>1, <1>2, CountAssumption DEF UnitsFit
<1>. QED
  BY <1>1, <1>3, VerdictInit DEF StockInv

\* Every step keeps the invariant of the stock.
LEMMA StockNext == StockInv /\ [Next]_vars => StockInv'
<1> SUFFICES ASSUME StockInv, [Next]_vars PROVE StockInv'
  OBVIOUS
<1>1. VerdictInv'
  BY VerdictNext DEF StockInv
<1>2. ResetIsAlone'
  BY ResetAloneStep DEF StockInv, VerdictInv
<1>3. IsFiniteSet(held') /\ UnitsFit'
  <2>1. NeverOversold
    BY DEF StockInv, UnitsFit, NeverOversold
  <2>. QED
    BY <2>1, StockStepConserves DEF StockInv, VerdictInv
<1>. QED
  BY <1>1, <1>2, <1>3 DEF StockInv

\* The invariant of the stock holds in every reachable state.
LEMMA StockAlways == Spec => []StockInv
<1>1. Init => StockInv
  BY StockInit
<1>2. StockInv /\ [Next]_vars => StockInv'
  BY StockNext
<1>. QED
  BY <1>1, <1>2, PTL DEF Spec

\* Conservation of stock (admission.go:41-68, 127-152; reset.go:12-33): counter and
\* units out never exceed the configured quantity, and add up to it after a complete
\* reset, for any number of users, gifts, handlers, consumers and faults.
THEOREM NoUnitSoldTwice == Spec => []StockConserved
<1>1. StockInv => StockConserved
  BY DEF StockInv, VerdictInv, TypeOK, StockConserved
<1>. QED
  BY <1>1, StockAlways, PTL

-----------------------------------------------------------------------------
\* The steps at which a process may still write a row or mark an admission.
Writing == {"insert", "mark", "reread", "rec_update", "rec_find", "rec_insert"}

AdmOfRun    == \A u \in Users : adm[u] # None => adm[u].id.run = run
LedgerOfRun == \A u \in Users : ledger[u] # None => ledger[u].id.run = run
WorkOfRun   == \A p \in Procs : pc[p] \in Writing => task[p].cmd.id.run = run
OfRun       == AdmOfRun /\ LedgerOfRun /\ WorkOfRun

\* Only a rotation changes the run.
LEMMA RunStep == ASSUME TypeOK, [Next]_vars, ~ResetRotate PROVE run' = run
<1>1. \A p \in Procs : OrdinaryActions(p) => run' = run
  BY OrdinaryStep DEF OrdinaryActions, Ordinary
<1>2. ASSUME NEW p \in Procs,
             \/ DrawAcquire(p) \/ DrawRefused(p) \/ DrawSendTimeout(p) \/ DrawSendCreate(p)
             \/ CancelFind(p) \/ CallFails(p)
      PROVE  run' = run
  BY <1>2 DEF DrawAcquire, Acquire, DrawRefused, DrawSendTimeout, DrawSendCreate, CancelFind, CallFails, redis
<1>3. ASSUME \E p \in Handlers : Request(p) PROVE run' = run
  BY <1>3 DEF Request, DrawBegin, PayRepeated, PayBegin, GiveUpBegin, redis
<1>4. ASSUME \E p \in Consumers, c \in Command : Deliver(p, c) PROVE run' = run
  BY <1>4 DEF Deliver, CreateIgnored, CreateBegin, TimeoutIgnored, TimeoutBegin, redis
<1>5. ASSUME Reset PROVE run' = run
  BY <1>5 DEF Reset, ResetOrders, ResetDropStock, ResetDropAdmissions, ResetInventory, ResetFails, redis
<1>6. ASSUME Crash \/ (\E u \in Users : DeadlinePasses(u) \/ KeyExpires(u)) \/ UNCHANGED vars PROVE run' = run
  BY <1>6 DEF Crash, DeadlinePasses, KeyExpires, vars, redis
<1>. QED
  BY <1>1, <1>2, <1>3, <1>4, <1>5, <1>6 DEF Next, Step, OrdinaryActions

\* An admission granted or decided within a run belongs to it.
LEMMA AdmOfRunStep == ASSUME TypeOK, AdmOfRun, [Next]_vars, run' = run PROVE AdmOfRun'
<1>1. ASSUME NEW p \in Procs, NEW d \in Command, DrawAcquire(p), d = Cmd(p) PROVE AdmOfRun'
  BY <1>1 DEF DrawAcquire, Acquire, Acquirable, CurrentRun, AdmOfRun, TypeOK
<1>2. ASSUME NEW d \in Command, NEW s \in Status, SetState(d, s), Matches(d) PROVE AdmOfRun'
  BY <1>2 DEF SetState, Matches, AdmOfRun, TypeOK, Admission, Command
<1>3. ASSUME NEW d \in Command,
             \/ Releasable(d) /\ Release(d)
             \/ Markable(d) /\ SetState(d, "pending_payment")
             \/ Claimable(d) /\ SetState(d, "paid")
      PROVE  AdmOfRun'
  BY <1>2, <1>3 DEF Releasable, Markable, Claimable, InState, Release, Status
<1>4. CASE UNCHANGED <<run, adm, held>> \/ \A u \in Users : adm'[u] \in {adm[u], None}
  BY <1>4 DEF AdmOfRun
<1>. QED
  BY <1>1, <1>3, <1>4, AdmissionStep, BoundsAssumption DEF AdmissionMoves, TypeOK

\* A row written within a run belongs to it.
LEMMA LedgerOfRunStep == ASSUME TypeOK, LedgerOfRun, WorkOfRun, [Next]_vars, run' = run PROVE LedgerOfRun'
<1>1. ASSUME NEW d \in Command, NEW s, SetRow(d, s), d.id.run = run PROVE LedgerOfRun'
  BY <1>1 DEF SetRow, LedgerOfRun, TypeOK
<1>2. CASE ResetOrders
  BY <1>2 DEF ResetOrders, LedgerOfRun
<1>3. CASE UNCHANGED ledger
  BY <1>3 DEF LedgerOfRun
<1>4. ASSUME NEW p \in Procs, NEW d \in Command, d = Cmd(p),
             \/ HasStatus(d, "pending_payment")
             \/ ledger[d.uid] = None /\ pc[p] \in {"insert", "rec_insert"}
      PROVE  d.id.run = run
  BY <1>4 DEF HasStatus, RowOf, LedgerOfRun, WorkOfRun, Writing, Cmd, Command
<1>. QED
  BY <1>1, <1>2, <1>3, <1>4, LedgerStep DEF LedgerMoves, Statement

\* A process that may write a row got there with a command of this run: by a message
\* or a script that checked the run, or by an admission of this run.
LEMMA WorkOfRunStep == ASSUME TypeOK, AdmOfRun, WorkOfRun, [Next]_vars, run' = run PROVE WorkOfRun'
<1> USE DEF WorkOfRun, Writing, TypeOK
<1>1. ASSUME NEW p \in Handlers, Request(p) PROVE WorkOfRun'
  BY <1>1 DEF Request, DrawBegin, PayRepeated, PayBegin, GiveUpBegin, Begin, Procs
<1>2. ASSUME NEW p \in Consumers, NEW c \in Command, Deliver(p, c) PROVE WorkOfRun'
  BY <1>2 DEF Deliver, CreateIgnored, CreateBegin, TimeoutIgnored, TimeoutBegin, Begin, CurrentRun, Procs
<1>3. ASSUME NEW p \in Procs, NEW ok, Return(p, ok) PROVE WorkOfRun'
  BY <1>3 DEF Return, Leave
<1>4. ASSUME NEW p \in Procs, NEW label, Goto(p, label), label \in Writing => Cmd(p).id.run = run
      PROVE  WorkOfRun'
  BY <1>4 DEF Goto, Cmd
<1>5. ASSUME NEW p \in Procs, DrawAcquire(p) \/ DrawSendTimeout(p) \/ DrawSendCreate(p) \/ CallFails(p)
      PROVE  WorkOfRun'
  BY <1>5 DEF DrawAcquire, Goto, Leave, DrawSendTimeout, DrawSendCreate, SendFails, CallFails
<1>6. ASSUME NEW p \in Procs, DrawRefused(p) PROVE WorkOfRun'
  BY <1>3, <1>6 DEF DrawRefused, At
<1>7. ASSUME NEW p \in Procs, DrawRollback(p) PROVE WorkOfRun'
  BY <1>3, <1>4, <1>7 DEF DrawRollback, Releasable, InState, CurrentRun
<1>8. ASSUME NEW p \in Procs, RecUpdate(p) PROVE WorkOfRun'
  BY <1>3, <1>4, <1>8 DEF RecUpdate, At, Cmd
<1>9. ASSUME NEW p \in Procs, RecFind(p) PROVE WorkOfRun'
  BY <1>3, <1>4, <1>9 DEF RecFind, At, Cmd
<1>10. ASSUME NEW p \in Procs, RecInsert(p) PROVE WorkOfRun'
  BY <1>3, <1>4, <1>10 DEF RecInsert, At, Cmd
<1>11. ASSUME NEW p \in Procs, InsertPending(p) PROVE WorkOfRun'
  BY <1>3, <1>4, <1>11 DEF InsertPending, At, Cmd
<1>12. ASSUME NEW p \in Procs, MarkPending(p) PROVE WorkOfRun'
  BY <1>3, <1>4, <1>12 DEF MarkPending, At, Cmd
<1>13. ASSUME NEW p \in Procs, Reread(p) PROVE WorkOfRun'
  BY <1>3, <1>4, <1>13 DEF Reread, At, Cmd
<1>14. ASSUME NEW p \in Procs, Settle(p) PROVE WorkOfRun'
  BY <1>3, <1>14 DEF Settle
<1>15. ASSUME NEW p \in Procs, Claim(p) PROVE WorkOfRun'
  BY <1>3, <1>4, <1>15 DEF Claim
<1>16. ASSUME NEW p \in Procs, CancelFind(p) PROVE WorkOfRun'
  BY <1>16 DEF CancelFind, At
<1>17. ASSUME NEW p \in Procs, CancelRelease(p) PROVE WorkOfRun'
  BY <1>4, <1>17 DEF CancelRelease
<1>18. ASSUME NEW p \in Procs, CancelVerify(p) PROVE WorkOfRun'
  <2>1. Cmd(p) \in Command
    BY <1>18, TaskType DEF CancelVerify, At
  <2>2. Matches(Cmd(p)) => Cmd(p).id.run = run
    BY <2>1 DEF Matches, AdmOfRun, Command
  <2>. QED
    BY <1>3, <1>4, <1>18, <2>2 DEF CancelVerify
<1>19. ASSUME Reset PROVE WorkOfRun'
  BY <1>19 DEF Reset, ResetRotate, ResetOrders, ResetDropStock, ResetDropAdmissions, ResetInventory, ResetFails
<1>20. ASSUME Crash \/ (\E u \in Users : DeadlinePasses(u) \/ KeyExpires(u)) \/ UNCHANGED vars PROVE WorkOfRun'
  BY <1>20 DEF Crash, DeadlinePasses, KeyExpires, vars
<1>. QED
  BY <1>1, <1>2, <1>5, <1>6, <1>7, <1>8, <1>9, <1>10, <1>11, <1>12, <1>13, <1>14, <1>15, <1>16,
     <1>17, <1>18, <1>19, <1>20 DEF Next, Step

\* A run is clean only after a reset that found the gate drained and left neither
\* rows nor admissions.
LEMMA CleanStart == ASSUME TypeOK, ResetIsAlone, [Next]_vars, ~clean, clean' PROVE OfRun'
<1>1. ResetInventory
  BY StockStep DEF StockMoves, DrawAcquire, ResetRotate, ResetDropStock, history, TypeOK
<1>2. /\ \A u \in Users : adm'[u] = None /\ ledger'[u] = None
      /\ \A p \in Procs : pc'[p] = "idle"
  BY <1>1 DEF ResetInventory, ResetIsAlone
<1>. QED
  BY <1>2 DEF OfRun, AdmOfRun, LedgerOfRun, WorkOfRun, Writing

CleanInv == TypeOK /\ ResetIsAlone /\ (clean => OfRun)

\* The first run starts clean.
LEMMA CleanInit == Init => CleanInv
BY StockInit DEF Init, CleanInv, StockInv, VerdictInv, OfRun, AdmOfRun, LedgerOfRun, WorkOfRun, Writing

\* Every step of a clean run leaves it clean.
LEMMA CleanNext == CleanInv /\ [Next]_vars => CleanInv'
<1> SUFFICES ASSUME CleanInv, [Next]_vars PROVE CleanInv'
  OBVIOUS
<1>1. TypeOK' /\ ResetIsAlone'
  BY TypeNext, ResetAloneStep DEF CleanInv
<1>2. ASSUME clean, clean' PROVE OfRun'
  <2>1. run' = run
    BY <1>2, RunStep DEF CleanInv, ResetRotate
  <2>. QED
    BY <1>2, <2>1, AdmOfRunStep, LedgerOfRunStep, WorkOfRunStep DEF CleanInv, OfRun
<1>3. ASSUME ~clean, clean' PROVE OfRun'
  BY <1>3, CleanStart DEF CleanInv
<1>. QED
  BY <1>1, <1>2, <1>3 DEF CleanInv

\* After a complete reset (reset.go:12-33, lab.go:23-53) no delayed message, no
\* stale request and no operation brings back an admission or a row of an earlier run.
THEOREM ResetForgetsEverything == Spec => []NothingSurvivesReset
<1>1. Init => CleanInv
  BY CleanInit
<1>2. CleanInv /\ [Next]_vars => CleanInv'
  BY CleanNext
<1>3. CleanInv => NothingSurvivesReset
  BY DEF CleanInv, OfRun, AdmOfRun, LedgerOfRun, NothingSurvivesReset
<1>. QED
  BY <1>1, <1>2, <1>3, PTL DEF Spec

-----------------------------------------------------------------------------
(* The maintenance command: a recount at any stop of the application *)

\* A unit out belongs to the run, and an order id to one command.
HeldOfRun == \A c \in held : CurrentRun(c)
OneOrder  == \A c, d \in Command : Known(c) /\ Known(d) /\ c.id.order = d.id.order => c = d

\* What the recount relies on. PaidIsSolid is not part of it: nothing here asks
\* whether a paid unit is kept.
RecoveryInv ==
  /\ TypeOK /\ Fresh /\ LiveIsHeld /\ CancelIsFree /\ ResetIsAlone
  /\ IsFiniteSet(held) /\ NeverOversold
  /\ HeldOfRun /\ OneOrder

\* The script takes units for the current run only.
LEMMA HeldOfRunStep == ASSUME TypeOK, HeldOfRun, [Next]_vars PROVE HeldOfRun'
<1> USE DEF HeldOfRun, CurrentRun
<1>1. CASE UNCHANGED <<run, held>>
  BY <1>1
<1>2. ASSUME NEW p \in Procs, NEW d \in Command, DrawAcquire(p), d = Cmd(p) PROVE HeldOfRun'
  BY <1>2, AcquireEffect
<1>3. ASSUME NEW d \in Command, Releasable(d), Release(d) PROVE HeldOfRun'
  BY <1>3, ReleaseEffect
<1>. QED
  BY <1>1, <1>2, <1>3, AdmissionStep DEF AdmissionMoves

\* An order id becomes known with one command, the one the script granted.
LEMMA OneOrderStep == ASSUME TypeOK, Fresh, OneOrder, [Next]_vars PROVE OneOrder'
<1> SUFFICES ASSUME NEW c \in Command, NEW d \in Command, Known(c)', Known(d)', c.id.order = d.id.order
             PROVE  c = d
  BY DEF OneOrder
<1>1. ASSUME NEW e \in Command, Known(e)', ~Known(e)
      PROVE  \E p \in Procs : DrawAcquire(p) /\ Acquiring(p) /\ task[p].cmd = e
                              /\ \A f \in Command : Known(f) => f.id.order # e.id.order
  <2>1. PICK p \in Procs : DrawAcquire(p) /\ task[p].cmd = e
    BY <1>1, KnownStep
  <2>. QED
    BY <2>1 DEF DrawAcquire, At, Acquiring, Fresh
<1>2. CASE Known(c) /\ Known(d)
  BY <1>2 DEF OneOrder
<1>3. CASE (Known(c) /\ ~Known(d)) \/ (~Known(c) /\ Known(d))
  BY <1>1, <1>3
<1>4. CASE ~Known(c) /\ ~Known(d)
  <2>1. PICK p \in Procs : DrawAcquire(p) /\ task[p].cmd = c
    BY <1>1, <1>4
  <2>2. PICK q \in Procs : DrawAcquire(q) /\ task[q].cmd = d
    BY <1>1, <1>4
  <2>3. held' = held \cup {c} /\ held' = held \cup {d}
    BY <2>1, <2>2, AcquireEffect DEF Cmd
  <2>. QED
    BY <1>4, <2>3 DEF Known
<1>. QED
  BY <1>2, <1>3, <1>4

\* With nothing under way, every unit out that a row or an admission remembers is
\* one of those the recount treats as sold (inventory.go:66-88).
LEMMA CountedIsSold ==
  ASSUME RecoveryInv, NEW g \in Gifts
  PROVE  LET remembered == {c \in Units(g) : Counted(c)}
         IN  /\ IsFiniteSet(remembered)
             /\ Cardinality(remembered) <= Cardinality(Holding(g)) + Cardinality(Unpersisted(g))
             /\ Cardinality(Holding(g)) \in Nat /\ Cardinality(Unpersisted(g)) \in Nat
<1> USE DEF RecoveryInv
<1> DEFINE remembered == {c \in Units(g) : Counted(c)}
           Rows == {c \in remembered : RowOf(c) # None}
           Keys == {c \in remembered : RowOf(c) = None}
<1>1. IsFiniteSet(Units(g)) /\ Units(g) \subseteq Command
  BY FS_Subset DEF Units, TypeOK
<1>2. IsFiniteSet(remembered) /\ IsFiniteSet(Rows) /\ IsFiniteSet(Keys)
  BY <1>1, FS_Subset
<1>3. IsFiniteSet(Holding(g)) /\ IsFiniteSet(Unpersisted(g))
  BY UsersAssumption, FS_Subset DEF Holding, Unpersisted
<1>4. Cardinality(Rows) <= Cardinality(Holding(g))
  <2>1. ASSUME NEW c \in Rows PROVE c.uid \in Holding(g) /\ c.gift = g /\ c.id = ledger[c.uid].id /\ c \in Command
    <3>1. c \in Command /\ c \in held /\ c.gift = g /\ Counted(c) /\ RowOf(c) # None /\ CurrentRun(c)
      BY <1>1, <2>1 DEF Units, HeldOfRun
    <3>2. RowOf(c).status # "cancelled"
      BY <3>1 DEF CancelIsFree, CancelMark, HasStatus
    <3>. QED
      BY <3>1, <3>2 DEF RowOf, Holding, Command
  <2>. DEFINE f == [c \in Rows |-> c.uid]
  <2>2. f \in Injection(Rows, Holding(g))
    BY <2>1 DEF Injection, IsInjective, Command
  <2>. QED
    BY <1>3, <2>2, FS_Injection
<1>5. Cardinality(Keys) <= Cardinality(Unpersisted(g))
  <2>1. ASSUME NEW c \in Keys PROVE c.uid \in Unpersisted(g) /\ c.gift = g /\ c.id = adm[c.uid].id /\ c \in Command
    <3>1. c \in Command /\ c.gift = g /\ RowOf(c) = None /\ Matches(c) /\ adm[c.uid].state # "cancelled"
      BY <1>1, <2>1 DEF Units, Counted
    <3>2. ASSUME ledger[c.uid] # None PROVE ledger[c.uid].id # adm[c.uid].id
      <4>1. ledger[c.uid] \in Row
        BY <3>1, <3>2 DEF TypeOK, Command
      <4>. DEFINE d == [uid |-> c.uid, gift |-> ledger[c.uid].gift, id |-> ledger[c.uid].id]
      <4>2. d \in Command /\ HasRow(d)
        BY <3>1, <3>2, <4>1 DEF Row, Command, HasRow, RowOf
      <4>3. c # d
        BY <3>1, <4>2 DEF HasRow
      <4>4. c.id.order # d.id.order
        BY <3>1, <4>2, <4>3 DEF OneOrder, Known
      <4>. QED
        BY <3>1, <4>4 DEF Matches
    <3>. QED
      BY <3>1, <3>2 DEF Matches, Unpersisted, Command
  <2>. DEFINE f == [c \in Keys |-> c.uid]
  <2>2. f \in Injection(Keys, Unpersisted(g))
    BY <2>1 DEF Injection, IsInjective, Command
  <2>. QED
    BY <1>3, <2>2, FS_Injection
<1>6. Cardinality(remembered) <= Cardinality(Rows) + Cardinality(Keys)
  <2>1. remembered = Rows \cup Keys /\ Rows \cap Keys = {}
    OBVIOUS
  <2>2. Cardinality(Rows \cap Keys) = 0
    BY <2>1, FS_EmptySet
  <2>3. Cardinality(Rows) \in Nat /\ Cardinality(Keys) \in Nat
    BY <1>2, FS_CardinalityType
  <2>4. Cardinality(Rows \cup Keys) = Cardinality(Rows) + Cardinality(Keys) - Cardinality(Rows \cap Keys)
    BY <1>2, FS_Union
  <2>. HIDE DEF remembered, Rows, Keys
  <2>. QED
    BY <2>1, <2>2, <2>3, <2>4
<1>. QED
  BY <1>2, <1>3, <1>4, <1>5, <1>6, FS_CardinalityType

\* The recount puts on sale at most what no unit out stands for, and forgets the
\* units nothing remembers.
LEMMA RecountFits ==
  ASSUME RecoveryInv, InitializeInventory
  PROVE  IsFiniteSet(held') /\ NeverOversold'
<1> USE DEF RecoveryInv
<1>1. PICK done \in SUBSET Gifts : Recount(done) /\ held' = {c \in held : c.gift \in done => Counted(c)}
  BY DEF InitializeInventory
<1>2. IsFiniteSet(held')
  BY <1>1, FS_Subset
<1>3. ASSUME NEW g \in Gifts PROVE stock'[g] + Cardinality(Units(g)') <= Count[g]
  <2>1. /\ IsFiniteSet(Units(g)) /\ Cardinality(Units(g)) \in Nat
        /\ stock[g] \in Nat /\ Count[g] \in Nat /\ stock[g] + Cardinality(Units(g)) <= Count[g]
    BY FS_Subset, FS_CardinalityType, CountAssumption DEF Units, TypeOK, NeverOversold
  <2>2. CASE g \notin done
    <3>1. Units(g)' = Units(g) /\ stock'[g] = stock[g]
      BY <1>1, <2>2 DEF Units, Recount
    <3>. QED
      BY <2>1, <3>1
  <2>3. CASE g \in done
    <3>1. Units(g)' = {c \in Units(g) : Counted(c)} /\ stock'[g] = Remaining(g)
      BY <1>1, <2>3 DEF Units, Recount
    <3>2. IsFiniteSet(Units(g)') /\ Cardinality(Units(g)') <= Cardinality(Units(g)) /\ Cardinality(Units(g)') \in Nat
      BY <2>1, <3>1, FS_Subset, FS_CardinalityType
    <3>3. /\ Cardinality(Units(g)') <= Cardinality(Holding(g)) + Cardinality(Unpersisted(g))
          /\ Cardinality(Holding(g)) \in Nat /\ Cardinality(Unpersisted(g)) \in Nat
      BY <3>1, CountedIsSold
    <3>. QED
      BY <2>1, <3>1, <3>2, <3>3 DEF Remaining
  <2>. QED
    BY <2>2, <2>3
<1>. QED
  BY <1>2, <1>3 DEF NeverOversold

\* The maintenance command makes nothing known and forgets no live unit.
LEMMA RecountKeeps == ASSUME RecoveryInv, InitializeInventory PROVE RecoveryInv'
<1> USE DEF RecoveryInv
<1>1. /\ UNCHANGED <<run, adm, ledger, msgs, pc, task, resetPc, nextOrder, expired, shown, payAck>>
      /\ resetPc = "idle" /\ held' \subseteq held
      /\ \A c \in held : Counted(c) => c \in held'
  BY DEF InitializeInventory
<1>2. TypeOK'
  <2>1. PICK done \in SUBSET Gifts : Recount(done)
    BY DEF InitializeInventory
  <2>. QED
    BY <1>1, <2>1, RecountType DEF TypeOK
<1>3. \A c \in Command : Known(c)' => Known(c)
  BY <1>1 DEF Known, HasMessage, InHand, Matches, HasRow, RowOf
<1>4. Fresh' /\ OneOrder'
  BY <1>1, <1>3 DEF Fresh, OneOrder, Acquiring
<1>5. LiveIsHeld'
  BY <1>1 DEF LiveIsHeld, LiveStates, InState, Matches, CurrentRun, Counted
<1>6. CancelIsFree' /\ HeldOfRun'
  BY <1>1 DEF CancelIsFree, CancelMark, HasStatus, RowOf, Matches, CurrentRun, HeldOfRun
<1>7. ResetIsAlone'
  BY <1>1 DEF ResetIsAlone
<1>. QED
  BY <1>2, <1>4, <1>5, <1>6, <1>7, RecountFits

\* Every step of the application keeps what the recount relies on.
LEMMA RecoveryNextKeeps == ASSUME RecoveryInv, [Next]_vars PROVE RecoveryInv'
BY TypeNext, FreshNext, LiveStep, CancelStep, ResetAloneStep, StockStepConserves, HeldOfRunStep, OneOrderStep
   DEF RecoveryInv

\* At the first start nothing is known.
LEMMA RecoveryInit == Init => RecoveryInv
<1> SUFFICES ASSUME Init PROVE RecoveryInv
  OBVIOUS
<1>1. \A c \in Command : ~Known(c)
  BY NoneAssumption DEF Init, Known, HasMessage, HasRow, InHand, Matches, RowOf, Command
<1>2. StockInv /\ HeldOfRun
  BY StockInit DEF Init, HeldOfRun
<1>. QED
  BY <1>1, <1>2 DEF RecoveryInv, StockInv, VerdictInv, OneOrder, NeverOversold, UnitsFit

\* However often the maintenance command recounts, at any stop of the application
\* and with any part of its writes failed, no unit an order still holds goes on sale
\* (inventory.go:29-104, app.InitializeInventory).
THEOREM RecountNeverOversells == RecoverySpec => []NeverOversold
<1>1. Init => RecoveryInv
  BY RecoveryInit
<1>2. RecoveryInv /\ [RecoveryNext]_vars => RecoveryInv'
  BY RecountKeeps, RecoveryNextKeeps DEF RecoveryNext
<1>3. RecoveryInv => NeverOversold
  BY DEF RecoveryInv
<1>. QED
  BY <1>1, <1>2, <1>3, PTL DEF RecoverySpec

-----------------------------------------------------------------------------
(* The refinement: SeckillOrder implements OrderLifecycle *)

\* No admission key is dropped by its TTL in this step.
KeysLast == \A u \in Users : ~KeyExpires(u)

\* Redis has decided the order this way, whatever run it is of.
Said(c, s) == Matches(c) /\ adm[c.uid].state = s

\* What a process under way may rely on when it writes a row or a mark.
Hand(p) ==
  /\ pc[p] \in {"insert", "mark", "reread"} => Matches(Cmd(p)) /\ CurrentRun(Cmd(p))
  /\ pc[p] = "insert" /\ task[p].seen = "paid" => Said(Cmd(p), "paid")
  /\ pc[p] = "mark" => HasRow(Cmd(p))
  /\ pc[p] = "settle" => Said(Cmd(p), "paid")
  /\ pc[p] \in {"rec_update", "rec_find", "rec_insert"} => Said(Cmd(p), "cancelled")

Hands == \A p \in Procs : Hand(p)

\* An order is opened for payment only when its row is there.
Opened == \A c \in Command : InState(c, {"pending_payment", "paid"}) => HasRow(c)

\* While a reset is under way nothing belongs to the new run yet.
Void == resetPc # "idle" => \A u \in Users : /\ adm[u] # None => adm[u].id.run # run
                                             /\ ledger[u] # None => ledger[u].id.run # run

\* What the refinement needs of every reachable state.
RefInv == StockInv /\ Hands /\ Opened /\ Void

\* What a step may do to Redis and the ledger.
StoreMoves ==
  \/ UNCHANGED <<run, stock, adm, ledger>>
  \/ \E p \in Procs, c \in Command : c = Cmd(p) /\ DrawAcquire(p)
  \/ \E p \in Procs, c \in Command :
       /\ c = Cmd(p) /\ UNCHANGED run
       /\ \/ Releasable(c) /\ Release(c) /\ UNCHANGED ledger
          \/ pc[p] = "mark" /\ Markable(c) /\ SetState(c, "pending_payment") /\ UNCHANGED <<stock, ledger>>
          \/ Claimable(c) /\ SetState(c, "paid") /\ UNCHANGED <<stock, ledger>>
          \/ Statement(p, c) /\ UNCHANGED <<stock, adm>>
  \/ Reset
  \/ \E u \in Users : KeyExpires(u)

\* Every call to Redis or MySQL is one of these.
LEMMA StoreStep == ASSUME TypeOK, [Next]_vars PROVE StoreMoves
<1> USE DEF StoreMoves, redis
<1>1. ASSUME NEW p \in Procs, DrawAcquire(p) \/ DrawRollback(p) \/ CancelRelease(p) \/ MarkPending(p) \/ Claim(p) PROVE StoreMoves
  <2>1. PICK c \in Command : c = Cmd(p)
    BY <1>1, TaskType DEF DrawAcquire, DrawRollback, CancelRelease, MarkPending, Claim, At
  <2>. QED
    BY <1>1, <2>1 DEF DrawRollback, CancelRelease, MarkPending, Claim, Release, At
<1>2. ASSUME NEW p \in Procs, RecUpdate(p) \/ RecInsert(p) \/ Settle(p) \/ InsertPending(p) PROVE StoreMoves
  <2>1. PICK c \in Command : c = Cmd(p)
    BY <1>2, TaskType DEF RecUpdate, RecInsert, Settle, InsertPending, At
  <2>2. UNCHANGED <<run, stock, adm>> /\ (UNCHANGED ledger \/ Statement(p, c))
    BY <1>2, <2>1 DEF RecUpdate, RecInsert, Settle, InsertPending, At, Statement
  <2>. QED
    BY <2>1, <2>2
<1>3. ASSUME NEW p \in Procs,
             \/ DrawRefused(p) \/ DrawSendTimeout(p) \/ DrawSendCreate(p) \/ RecFind(p)
             \/ Reread(p) \/ CancelFind(p) \/ CancelVerify(p) \/ CallFails(p)
      PROVE  UNCHANGED <<run, stock, adm, ledger>>
  BY <1>3 DEF DrawRefused, DrawSendTimeout, DrawSendCreate, RecFind, Reread, CancelFind, CancelVerify, CallFails
<1>4. ASSUME (\E p \in Handlers : Request(p)) \/ (\E p \in Consumers, c \in Command : Deliver(p, c))
      PROVE  UNCHANGED <<run, stock, adm, ledger>>
  BY <1>4 DEF Request, DrawBegin, PayRepeated, PayBegin, GiveUpBegin,
              Deliver, CreateIgnored, CreateBegin, TimeoutIgnored, TimeoutBegin
<1>5. ASSUME Crash \/ (\E u \in Users : DeadlinePasses(u)) \/ UNCHANGED vars PROVE UNCHANGED <<run, stock, adm, ledger>>
  BY <1>5 DEF Crash, DeadlinePasses, vars
<1>. QED
  BY <1>1, <1>2, <1>3, <1>4, <1>5 DEF Next, Step

\* Without a reset and without the TTL keys and rows stay, and verdicts with them.
LEMMA Lasting ==
  ASSUME TypeOK, [Next]_vars, KeysLast \/ UNCHANGED vars, ~Reset, NEW c \in Command
  PROVE  /\ run' = run
         /\ Matches(c) => Matches(c)'
         /\ HasRow(c) => HasRow(c)'
         /\ Said(c, "paid") => Said(c, "paid")'
         /\ Said(c, "cancelled") => Said(c, "cancelled")'
<1>0. c.uid \in Users
  BY DEF Command
<1>1. run' = run /\ (Matches(c) => Matches(c)')
  <2>1. CASE UNCHANGED <<run, stock, adm, ledger>>
    BY <2>1 DEF Matches
  <2>2. ASSUME NEW p \in Procs, NEW d \in Command, d = Cmd(p), DrawAcquire(p) PROVE run' = run /\ (Matches(c) => Matches(c)')
    BY <1>0, <2>2, AcquireEffect DEF Matches
  <2>3. ASSUME NEW p \in Procs, NEW d \in Command, d = Cmd(p), UNCHANGED run,
               Decides(d)
        PROVE  run' = run /\ (Matches(c) => Matches(c)')
    BY <2>3, DecidesMatch
  <2>4. ASSUME NEW p \in Procs, NEW d \in Command,
               \/ Releasable(d) /\ Release(d)
               \/ Markable(d) /\ SetState(d, "pending_payment")
               \/ Claimable(d) /\ SetState(d, "paid")
               \/ UNCHANGED adm
        PROVE  Decides(d)
    BY <2>4 DEF Decides, Release, Releasable, Markable, Claimable, InState, Status
  <2>5. ASSUME \E u \in Users : KeyExpires(u) PROVE UNCHANGED <<run, stock, adm, ledger>>
    BY <2>5 DEF KeysLast, vars, redis
  <2>. QED
    BY <2>1, <2>2, <2>3, <2>4, <2>5, StoreStep DEF StoreMoves
<1>2. HasRow(c) => HasRow(c)'
  <2>1. ASSUME NEW p \in Procs, NEW d \in Command, Statement(p, d) PROVE HasRow(c) => HasRow(c)'
    <3>1. PICK s \in {"pending_payment", "paid", "cancelled"} : SetRow(d, s) /\ (ledger[d.uid] = None \/ HasStatus(d, "pending_payment"))
      BY <2>1 DEF Statement
    <3>2. [gift |-> d.gift, id |-> d.id, status |-> s] # None
      BY NoneAssumption DEF Row, Command, Status
    <3>. QED
      BY <1>0, <3>1, <3>2 DEF SetRow, HasRow, HasStatus, RowOf, TypeOK
  <2>. QED
    BY <2>1, LedgerStep DEF LedgerMoves, Reset, HasRow, RowOf
<1>3. adm[c.uid] # None /\ adm[c.uid].state \in {"paid", "cancelled"} => adm'[c.uid] \in {adm[c.uid], None}
  BY <1>0, AdmissionIsFinal
<1>. QED
  BY <1>1, <1>2, <1>3 DEF Said, Matches

\* The steps at which a process writes a row or is about to.
WritePC == {"insert", "mark", "reread", "settle", "rec_update", "rec_find", "rec_insert"}

\* The steps that bring a process there.
Arrives(q) ==
  \/ \E c \in Command : CreateBegin(q, c)
  \/ InsertPending(q) \/ MarkPending(q) \/ Reread(q) \/ Claim(q)
  \/ RecUpdate(q) \/ RecFind(q) \/ RecInsert(q)
  \/ DrawRollback(q) \/ CancelVerify(q)

\* A process stays at its step or comes to it by a step of its own.
LEMMA WriteStep ==
  ASSUME TypeOK, [Next]_vars, NEW q \in Procs, pc'[q] \in WritePC
  PROVE  (pc'[q] = pc[q] /\ task'[q] = task[q]) \/ Arrives(q)
<1> DEFINE Goal == (pc'[q] = pc[q] /\ task'[q] = task[q]) \/ Arrives(q)
<1> USE DEF TypeOK, WritePC, redis, history
<1>1. ASSUME NEW p \in Handlers, Request(p) PROVE Goal
  BY <1>1 DEF Request, DrawBegin, PayRepeated, PayBegin, GiveUpBegin, Begin, Procs
<1>2. ASSUME NEW p \in Consumers, NEW c \in Command, Deliver(p, c) PROVE Goal
  <2>1. CASE q = p /\ CreateBegin(p, c)
    BY <2>1 DEF Arrives
  <2>2. CASE ~(q = p /\ CreateBegin(p, c))
    BY <1>2, <2>2 DEF Deliver, CreateIgnored, CreateBegin, TimeoutIgnored, TimeoutBegin, Begin, Procs
  <2>. QED
    BY <2>1, <2>2
<1>3. ASSUME NEW p \in Procs, DrawAcquire(p) \/ DrawRefused(p) PROVE Goal
  BY <1>3 DEF DrawAcquire, DrawRefused, Return, Goto, Leave, At
<1>4. ASSUME NEW p \in Procs, DrawSendTimeout(p) \/ DrawSendCreate(p) PROVE Goal
  BY <1>4 DEF DrawSendTimeout, DrawSendCreate, SendFails, Leave, At
<1>5. ASSUME NEW p \in Procs, OrdinaryActions(p) PROVE Goal
  <2>1. CASE q = p
    <3>1. CASE Settle(p)
      BY <2>1, <3>1 DEF Settle, Return, Leave
    <3>2. CASE CancelRelease(p)
      BY <2>1, <3>2 DEF CancelRelease, Goto
    <3>. QED
      BY <1>5, <2>1, <3>1, <3>2 DEF OrdinaryActions, Arrives
  <2>2. CASE q # p
    <3>1. Moves(p)
      BY <1>5, OrdinaryStep DEF OrdinaryActions, Ordinary
    <3>2. CASE \E ok \in BOOLEAN : Return(p, ok)
      BY <2>2, <3>2 DEF Return, Leave
    <3>3. CASE \E label \in PC : Goto(p, label)
      BY <2>2, <3>3 DEF Goto
    <3>. QED
      BY <3>1, <3>2, <3>3 DEF Moves
  <2>. QED
    BY <2>1, <2>2
<1>6. ASSUME NEW p \in Procs, CancelFind(p) \/ CallFails(p) PROVE Goal
  BY <1>6 DEF CancelFind, CallFails, Leave, At
<1>7. ASSUME Reset PROVE Goal
  BY <1>7 DEF Reset, ResetRotate, ResetOrders, ResetDropStock, ResetDropAdmissions, ResetInventory, ResetFails
<1>8. ASSUME Crash \/ (\E u \in Users : DeadlinePasses(u) \/ KeyExpires(u)) \/ UNCHANGED vars PROVE Goal
  BY <1>8 DEF Crash, DeadlinePasses, KeyExpires, vars
<1>. QED
  BY <1>1, <1>2, <1>3, <1>4, <1>5, <1>6, <1>7, <1>8 DEF Next, Step, OrdinaryActions

\* Every process keeps what it relies on, or is told anew by the call it makes.
LEMMA HandsStep == ASSUME StockInv, Hands, [Next]_vars, KeysLast \/ UNCHANGED vars PROVE Hands'
<1> SUFFICES ASSUME NEW q \in Procs, pc'[q] \in WritePC PROVE Hand(q)'
  BY DEF Hands, Hand, WritePC
<1>0. TypeOK /\ ResetIsAlone /\ Hand(q)
  BY DEF StockInv, VerdictInv, Hands
<1>1. CASE Reset
  <2>1. \A p \in Procs : pc'[p] = "idle"
    BY <1>0, <1>1 DEF Reset, ResetIsAlone, ResetRotate, ResetOrders, ResetDropStock, ResetDropAdmissions, ResetInventory, ResetFails
  <2>. QED
    BY <2>1 DEF WritePC
<1>2. CASE ~Reset /\ pc'[q] = pc[q] /\ task'[q] = task[q]
  <2>1. PICK c \in Command : c = Cmd(q)
    BY <1>0, <1>2, TaskType DEF WritePC
  <2>2. Cmd(q)' = c
    BY <1>2, <2>1 DEF Cmd
  <2>3. /\ run' = run
        /\ Matches(c) => Matches(c)'
        /\ HasRow(c) => HasRow(c)'
        /\ Said(c, "paid") => Said(c, "paid")'
        /\ Said(c, "cancelled") => Said(c, "cancelled")'
    BY <1>0, <1>2, Lasting
  <2>. QED
    BY <1>0, <1>2, <2>1, <2>2, <2>3 DEF Hand, CurrentRun
<1>3. ASSUME NEW c \in Command, CreateBegin(q, c) PROVE Hand(q)'
  <2>1. /\ Matches(c) /\ CurrentRun(c) /\ UNCHANGED <<run, adm>>
        /\ task'[q].cmd = c /\ task'[q].seen = adm[c.uid].state
        /\ pc'[q] = IF adm[c.uid].state = "cancelled" THEN "rec_update" ELSE "insert"
    BY <1>0, <1>3 DEF CreateBegin, Begin, TypeOK, redis
  <2>. QED
    BY <2>1 DEF Hand, Cmd, Matches, CurrentRun, Said
<1>4. CASE /\ Arrives(q) /\ ~\E c \in Command : CreateBegin(q, c)
           /\ ~(pc'[q] = pc[q] /\ task'[q] = task[q])
  <2>1. pc[q] # "idle"
    BY <1>4 DEF Arrives, InsertPending, MarkPending, Reread, Claim, RecUpdate, RecFind, RecInsert,
                DrawRollback, CancelVerify, At
  <2>2. PICK c \in Command : c = Cmd(q)
    BY <1>0, <2>1, TaskType
  <2>3. \A ok \in BOOLEAN : ~Return(q, ok)
    BY <1>0 DEF Return, Leave, TypeOK, WritePC
  <2>4. ASSUME NEW label \in PC, Goto(q, label) PROVE pc'[q] = label /\ Cmd(q)' = c /\ task'[q] = task[q]
    BY <1>0, <2>2, <2>4 DEF Goto, TypeOK, Cmd
  <2>5. CASE InsertPending(q)
    <3>1. pc[q] = "insert" /\ Matches(c) /\ CurrentRun(c) /\ UNCHANGED <<run, adm>>
      BY <1>0, <2>2, <2>5 DEF InsertPending, At, Hand, redis
    <3>2. Goto(q, IF task[q].seen = "paid" THEN "settle" ELSE "mark") /\ (SetRow(c, "pending_payment") \/ (HasStatus(c, "pending_payment") /\ UNCHANGED ledger))
      BY <2>2, <2>3, <2>5 DEF InsertPending
    <3>3. HasRow(c)'
      BY <1>0, <3>2, NoneAssumption DEF SetRow, HasStatus, HasRow, RowOf, TypeOK, Command, Row, Status
    <3>4. /\ pc'[q] = IF task[q].seen = "paid" THEN "settle" ELSE "mark"
          /\ Cmd(q)' = c
      BY <2>4, <3>2 DEF PC
    <3>5. task[q].seen = "paid" => Said(c, "paid")
      BY <1>0, <2>2, <3>1 DEF Hand
    <3>. QED
      BY <3>1, <3>3, <3>4, <3>5 DEF Hand, Said, Matches, CurrentRun
  <2>6. CASE MarkPending(q)
    <3>1. pc[q] = "mark" /\ Matches(c) /\ CurrentRun(c) /\ UNCHANGED <<run, adm>> /\ Goto(q, "reread")
      BY <1>0, <2>2, <2>3, <2>6 DEF MarkPending, At, Hand
    <3>2. pc'[q] = "reread" /\ Cmd(q)' = c
      BY <2>4, <3>1 DEF PC
    <3>. QED
      BY <3>1, <3>2 DEF Hand, Matches, CurrentRun
  <2>7. CASE Reread(q) \/ CancelVerify(q)
    <3>1. Said(c, "cancelled") /\ UNCHANGED <<run, adm>> /\ Goto(q, "rec_update")
      <4>1. (Verdict(q) \in {"paid", "cancelled", "none"}) \in BOOLEAN
        OBVIOUS
      <4>. QED
        BY <2>2, <2>3, <2>7, <4>1 DEF Reread, CancelVerify, Said, redis
    <3>2. pc'[q] = "rec_update" /\ Cmd(q)' = c
      BY <2>4, <3>1 DEF PC
    <3>. QED
      BY <3>1, <3>2 DEF Hand, Said, Matches
  <2>8. CASE Claim(q)
    <3>1. Claimable(c) /\ SetState(c, "paid") /\ Goto(q, "settle")
      BY <2>2, <2>3, <2>8 DEF Claim
    <3>2. pc'[q] = "settle" /\ Cmd(q)' = c
      BY <2>4, <3>1 DEF PC
    <3>3. Said(c, "paid")'
      BY <1>0, <3>1, SetStateAdm DEF Claimable, InState, Said, Status
    <3>. QED
      BY <3>2, <3>3 DEF Hand
  <2>9. CASE RecUpdate(q) \/ RecFind(q) \/ RecInsert(q)
    <3>1. /\ Said(c, "cancelled") /\ UNCHANGED <<run, adm>>
          /\ \E label \in {"rec_update", "rec_find", "rec_insert"} : Goto(q, label)
      <4>1. (~HasStatus(Cmd(q), "paid")) \in BOOLEAN
        OBVIOUS
      <4>. QED
        BY <1>0, <2>2, <2>3, <2>9, <4>1 DEF RecUpdate, RecFind, RecInsert, At, Hand, redis
    <3>2. pc'[q] \in {"rec_update", "rec_find", "rec_insert"} /\ Cmd(q)' = c
      BY <2>4, <3>1 DEF PC
    <3>. QED
      BY <3>1, <3>2 DEF Hand, Said, Matches
  <2>10. CASE DrawRollback(q)
    <3>1. Releasable(c) /\ Release(c) /\ Goto(q, "rec_update")
      BY <2>2, <2>3, <2>10 DEF DrawRollback
    <3>2. pc'[q] = "rec_update" /\ Cmd(q)' = c
      BY <2>4, <3>1 DEF PC
    <3>3. Said(c, "cancelled")'
      BY <1>0, <3>1, ReleaseEffect DEF Said
    <3>. QED
      BY <3>2, <3>3 DEF Hand
  <2>. QED
    BY <1>4, <2>5, <2>6, <2>7, <2>8, <2>9, <2>10 DEF Arrives
<1>. QED
  BY <1>0, <1>1, <1>2, <1>3, <1>4, WriteStep

\* An admission or a row that speaks of a run speaks of one that has begun.
LEMMA RunsBegun ==
  ASSUME TypeOK, Fresh, NEW u \in Users
  PROVE  /\ adm[u] # None => adm[u].id.run <= run
         /\ ledger[u] # None => ledger[u].id.run <= run
<1>1. ASSUME adm[u] # None PROVE adm[u].id.run <= run
  <2>. DEFINE c == [uid |-> u, gift |-> adm[u].gift, id |-> adm[u].id]
  <2>1. adm[u] \in Admission
    BY <1>1 DEF TypeOK
  <2>2. c \in Command /\ Known(c)
    BY <1>1, <2>1 DEF Admission, Command, Known, Matches
  <2>. QED
    BY <2>2 DEF Fresh
<1>2. ASSUME ledger[u] # None PROVE ledger[u].id.run <= run
  <2>. DEFINE c == [uid |-> u, gift |-> ledger[u].gift, id |-> ledger[u].id]
  <2>1. ledger[u] \in Row
    BY <1>2 DEF TypeOK
  <2>2. c \in Command /\ Known(c)
    BY <1>2, <2>1 DEF Row, Command, Known, HasRow, RowOf
  <2>. QED
    BY <2>2 DEF Fresh
<1>. QED
  BY <1>1, <1>2

\* Nothing belongs to the run that a rotation begins.
LEMMA NewRunIsEmpty ==
  ASSUME TypeOK, Fresh, run' = run + 1, UNCHANGED <<adm, ledger>>, NEW u \in Users
  PROVE  /\ adm'[u] # None => adm'[u].id.run # run'
         /\ ledger'[u] # None => ledger'[u].id.run # run'
<1>1. run \in Int
  BY BoundsAssumption DEF TypeOK
<1>2. adm[u] # None => adm[u].id.run \in Int
  BY BoundsAssumption DEF TypeOK, Admission, Identity
<1>3. ledger[u] # None => ledger[u].id.run \in Int
  BY BoundsAssumption DEF TypeOK, Row, Identity
<1>. QED
  BY <1>1, <1>2, <1>3, RunsBegun

\* The steps of a reset after the rotation only forget.
LEMMA ResetForgets ==
  ASSUME TypeOK, Reset, ~ResetRotate, NEW u \in Users
  PROVE  run' = run /\ adm'[u] \in {adm[u], None} /\ ledger'[u] \in {ledger[u], None} /\ resetPc # "idle"
BY DEF Reset, ResetOrders, ResetDropStock, ResetDropAdmissions, ResetInventory, ResetFails, redis

\* Until a reset is over nothing of the new run appears.
LEMMA VoidStep == ASSUME RefInv, [Next]_vars PROVE Void'
<1> SUFFICES ASSUME resetPc' # "idle", NEW u \in Users
             PROVE  /\ adm'[u] # None => adm'[u].id.run # run'
                    /\ ledger'[u] # None => ledger'[u].id.run # run'
  BY DEF Void
<1>0. TypeOK /\ Fresh /\ ResetIsAlone /\ Void
  BY DEF RefInv, StockInv, VerdictInv
<1>1. CASE ResetRotate
  BY <1>0, <1>1, NewRunIsEmpty DEF ResetRotate
<1>2. CASE Reset /\ ~ResetRotate
  BY <1>0, <1>2, ResetForgets DEF Void
<1>3. CASE ~Reset
  <2>1. resetPc # "idle"
    BY <1>0, <1>3, OnlyReset
  <2>. QED
    BY <1>0, <1>3, <2>1, OutsideReset DEF Void
<1>. QED
  BY <1>1, <1>2, <1>3

\* The mark that opens an order is set by a process that has seen its row.
LEMMA OpenedStep == ASSUME RefInv, [Next]_vars, KeysLast \/ UNCHANGED vars PROVE Opened'
<1> SUFFICES ASSUME NEW c \in Command, InState(c, {"pending_payment", "paid"})' PROVE HasRow(c)'
  BY DEF Opened
<1> DEFINE Open == InState(c, {"pending_payment", "paid"})
<1>0. TypeOK /\ ResetIsAlone /\ Fresh /\ Hands /\ Opened /\ LiveIsHeld /\ Void /\ c.uid \in Users
  BY DEF RefInv, StockInv, VerdictInv, Command
<1>1. ~Reset
  <2>1. ASSUME ResetRotate PROVE FALSE
    BY <1>0, <2>1, NewRunIsEmpty DEF ResetRotate, InState, Matches, CurrentRun
  <2>2. ASSUME Reset, ~ResetRotate PROVE FALSE
    BY <1>0, <2>2, ResetForgets DEF Void, InState, Matches, CurrentRun
  <2>. QED
    BY <2>1, <2>2
<1>2. HasRow(c)
  <2>1. Open => HasRow(c)
    BY <1>0 DEF Opened
  <2>2. CASE UNCHANGED <<run, stock, adm, ledger>>
    BY <2>1, <2>2 DEF InState, Matches, CurrentRun
  <2>3. ASSUME NEW p \in Procs, NEW d \in Command, d = Cmd(p), DrawAcquire(p) PROVE HasRow(c)
    BY <1>0, <2>1, <2>3, AcquireEffect DEF InState, CurrentRun
  <2>4. ASSUME NEW d \in Command, Releasable(d), Release(d) PROVE HasRow(c)
    BY <1>0, <2>1, <2>4, ReleaseEffect DEF InState, CurrentRun
  <2>5. ASSUME NEW p \in Procs, NEW d \in Command, d = Cmd(p), pc[p] = "mark", Markable(d),
               SetState(d, "pending_payment"), UNCHANGED run
        PROVE  HasRow(c)
    <3>1. HasRow(d)
      BY <1>0, <2>5 DEF Hands, Hand
    <3>2. c # d => Open
      BY <1>0, <2>5, SetStateAdm DEF Markable, InState, CurrentRun, Status
    <3>. QED
      BY <2>1, <3>1, <3>2
  <2>6. ASSUME NEW d \in Command, Claimable(d), SetState(d, "paid"), UNCHANGED run PROVE HasRow(c)
    <3>1. Open
      BY <1>0, <2>6, SetStateAdm DEF Claimable, InState, CurrentRun, Status
    <3>. QED
      BY <2>1, <3>1
  <2>7. ASSUME UNCHANGED <<run, adm>> PROVE HasRow(c)
    BY <2>1, <2>7 DEF InState, Matches, CurrentRun
  <2>8. ASSUME \E u \in Users : KeyExpires(u) PROVE UNCHANGED <<run, adm>>
    BY <2>8 DEF KeysLast, vars, redis
  <2>. QED
    BY <1>0, <1>1, <2>2, <2>3, <2>4, <2>5, <2>6, <2>7, <2>8, StoreStep DEF StoreMoves
<1>. QED
  BY <1>0, <1>1, <1>2, Lasting

LEMMA RefInit == Init => RefInv
<1> SUFFICES ASSUME Init PROVE RefInv
  OBVIOUS
<1>1. Hands /\ Void
  BY DEF Init, Hands, Hand, Void
<1>2. Opened
  BY DEF Init, Opened, InState, Matches, Command
<1>. QED
  BY <1>1, <1>2, StockInit DEF RefInv

LEMMA RefNext == ASSUME RefInv, [Next]_vars, KeysLast \/ UNCHANGED vars PROVE RefInv'
BY StockNext, HandsStep, OpenedStep, VoidStep DEF RefInv

\* The variables of the life cycle, as SeckillRefinement fills them.
Rights == [u \in Users |-> RightOf(u)]
Books  == [u \in Users |-> BookOf(u)]

\* The right and the book of an order of this run.
LEMMA ViewOfOrder ==
  ASSUME TypeOK, NEW c \in Command, CurrentRun(c)
  PROVE  /\ Matches(c) => RightOf(c.uid) = [gift |-> c.gift, state |-> adm[c.uid].state] /\ RightOf(c.uid) # None
         /\ HasRow(c) => BookOf(c.uid) = ledger[c.uid].status
         /\ ledger[c.uid] = None => BookOf(c.uid) = "none"
<1>1. ASSUME Matches(c) PROVE RightOf(c.uid) = [gift |-> c.gift, state |-> adm[c.uid].state] /\ RightOf(c.uid) # None
  <2>1. RightOf(c.uid) = [gift |-> c.gift, state |-> adm[c.uid].state]
    BY <1>1 DEF Matches, CurrentRun, RightOf
  <2>2. adm[c.uid].state \in Status /\ c.gift \in Gifts
    BY <1>1 DEF TypeOK, Matches, Command, Admission
  <2>3. [gift |-> c.gift, state |-> adm[c.uid].state] \in [gift : Gifts, state : Status]
    BY <2>2
  <2>. QED
    BY <2>1, <2>3, RightAssumption
<1>. QED
  BY <1>1 DEF CurrentRun, BookOf, HasRow, RowOf

\* A script that decides an order decides its right.
LEMMA RightDecided ==
  ASSUME TypeOK, NEW c \in Command, Matches(c), CurrentRun(c), NEW s \in Status, SetState(c, s), run' = run
  PROVE  Rights' = [Rights EXCEPT ![c.uid].state = s]
<1>1. c.uid \in Users /\ adm[c.uid] \in Admission /\ adm[c.uid] # None
  BY DEF Command, TypeOK, Matches
<1>2. ASSUME NEW u \in Users, u # c.uid PROVE RightOf(u)' = RightOf(u)
  BY <1>1, <1>2 DEF SetState, RightOf, TypeOK
<1>3. adm'[c.uid] = [adm[c.uid] EXCEPT !.state = s] /\ adm'[c.uid] # None
  BY <1>1, NoneAssumption DEF SetState, TypeOK, Admission
<1>4. RightOf(c.uid)' = [gift |-> c.gift, state |-> s]
  BY <1>1, <1>3 DEF RightOf, Matches, CurrentRun, Admission
<1>5. RightOf(c.uid) = [gift |-> c.gift, state |-> adm[c.uid].state]
  BY ViewOfOrder
<1>. QED
  BY <1>1, <1>2, <1>4, <1>5 DEF Rights

\* A statement on the row of an order of this run writes its book.
LEMMA BookWritten ==
  ASSUME TypeOK, NEW c \in Command, CurrentRun(c), NEW s \in Status \ {"stock_acquired"}, SetRow(c, s), run' = run
  PROVE  Books' = [Books EXCEPT ![c.uid] = s]
<1>1. c.uid \in Users /\ [gift |-> c.gift, id |-> c.id, status |-> s] # None
  BY NoneAssumption DEF Command, Row, Status
<1>2. ASSUME NEW u \in Users, u # c.uid PROVE BookOf(u)' = BookOf(u)
  BY <1>1, <1>2 DEF SetRow, BookOf, TypeOK
<1>3. BookOf(c.uid)' = s
  BY <1>1 DEF SetRow, BookOf, TypeOK, CurrentRun
<1>. QED
  BY <1>1, <1>2, <1>3 DEF Books

\* A statement on a row of another run writes nothing that counts.
LEMMA OtherBook ==
  ASSUME TypeOK, NEW c \in Command, ~CurrentRun(c), NEW s \in Status, SetRow(c, s), run' = run,
         ledger[c.uid] # None => ledger[c.uid].id = c.id
  PROVE  Books' = Books
<1>1. ASSUME NEW u \in Users, u # c.uid PROVE BookOf(u)' = BookOf(u)
  BY <1>1 DEF SetRow, BookOf, TypeOK
<1>2. c.uid \in Users => BookOf(c.uid)' = "none" /\ BookOf(c.uid) = "none"
  BY DEF SetRow, BookOf, TypeOK, CurrentRun
<1>. QED
  BY <1>1, <1>2 DEF Books

\* Nothing that is seen changes.
LEMMA Unseen ==
  ASSUME UNCHANGED stock, \A u \in Users : RightOf(u)' = RightOf(u) /\ BookOf(u)' = BookOf(u)
  PROVE  UNCHANGED Lifecycle!vars
BY DEF Lifecycle!vars

\* The script that grants a unit.
LEMMA GrantMaps ==
  ASSUME TypeOK, NEW p \in Procs, NEW c \in Command, c = Cmd(p), DrawAcquire(p)
  PROVE  Lifecycle!Next
<1>1. /\ Acquirable(c) /\ UNCHANGED <<run, ledger>>
      /\ stock' = [stock EXCEPT ![c.gift] = @ - 1]
      /\ adm' = [adm EXCEPT ![c.uid] = [gift |-> c.gift, id |-> c.id, state |-> "stock_acquired"]]
      /\ c.uid \in Users /\ c.gift \in Gifts
  BY DEF DrawAcquire, Acquire, Command
<1>2. [gift |-> c.gift, id |-> c.id, state |-> "stock_acquired"] # None
  BY NoneAssumption DEF Command, Admission, Status
<1>3. RightOf(c.uid)' = [gift |-> c.gift, state |-> "stock_acquired"] /\ RightOf(c.uid) = None
  BY <1>1, <1>2 DEF TypeOK, RightOf, Acquirable, CurrentRun
<1>4. ASSUME NEW u \in Users, u # c.uid PROVE RightOf(u)' = RightOf(u)
  BY <1>1, <1>4 DEF TypeOK, RightOf
<1>5. Rights' = [Rights EXCEPT ![c.uid] = [gift |-> c.gift, state |-> "stock_acquired"]]
  BY <1>1, <1>3, <1>4 DEF Rights
<1>6. Books' = Books
  BY <1>1 DEF Books, BookOf
<1>7. Rights[c.uid] = None /\ stock[c.gift] > 0
  BY <1>1, <1>3 DEF Rights, Acquirable
<1>8. Lifecycle!Grant(c.uid, c.gift)
  BY <1>1, <1>5, <1>6, <1>7 DEF Lifecycle!Grant, Rights, Books
<1>. QED
  BY <1>1, <1>8 DEF Lifecycle!Next

\* The three scripts that decide an order.
LEMMA DecisionMaps ==
  ASSUME RefInv, NEW p \in Procs, NEW c \in Command, c = Cmd(p), UNCHANGED <<run, ledger>>,
         \/ Releasable(c) /\ Release(c)
         \/ pc[p] = "mark" /\ Markable(c) /\ SetState(c, "pending_payment") /\ UNCHANGED stock
         \/ Claimable(c) /\ SetState(c, "paid") /\ UNCHANGED stock
  PROVE  Lifecycle!Next \/ UNCHANGED Lifecycle!vars
<1>0. TypeOK /\ LiveIsHeld /\ PaidIsSolid /\ CancelIsFree /\ Hand(p) /\ c.uid \in Users
  BY DEF RefInv, StockInv, VerdictInv, Hands, Command
<1>1. Matches(c) /\ CurrentRun(c)
  BY DEF Releasable, Markable, Claimable, InState
<1>2. Rights[c.uid] = [gift |-> c.gift, state |-> adm[c.uid].state] /\ Rights[c.uid] # None
  BY <1>0, <1>1, ViewOfOrder DEF Rights
<1>3. Books' = Books
  BY DEF Books, BookOf
<1>4. ASSUME NEW s \in Status, SetState(c, s) PROVE Rights' = [Rights EXCEPT ![c.uid].state = s]
  BY <1>0, <1>1, <1>4, RightDecided
<1>5. CASE Releasable(c) /\ Release(c)
  <2>1. SetState(c, "cancelled") /\ stock' = [stock EXCEPT ![c.gift] = @ + 1]
        /\ adm[c.uid].state \in {"stock_acquired", "pending_payment"}
    BY <1>5 DEF Release, Releasable, InState
  <2>2. Rights' = [Rights EXCEPT ![c.uid].state = "cancelled"]
    BY <1>4, <2>1 DEF Status
  <2>3. Lifecycle!Is(c.uid, {"stock_acquired", "pending_payment"}) /\ Rights[c.uid].gift = c.gift
    BY <1>2, <2>1 DEF Lifecycle!Is, Rights
  <2>4. Lifecycle!Decide(c.uid, "cancelled")
    BY <2>2 DEF Lifecycle!Decide, Rights
  <2>5. stock' = [stock EXCEPT ![Rights[c.uid].gift] = @ + 1]
    BY <2>1, <2>3
  <2>6. Lifecycle!Cancel(c.uid)
    BY <1>3, <2>3, <2>4, <2>5 DEF Lifecycle!Cancel, Rights, Books
  <2>. QED
    BY <1>0, <2>6 DEF Lifecycle!Next
<1>6. CASE pc[p] = "mark" /\ Markable(c) /\ SetState(c, "pending_payment") /\ UNCHANGED stock
  <2>1. Rights' = [Rights EXCEPT ![c.uid].state = "pending_payment"]
    BY <1>4, <1>6 DEF Status
  <2>2. HasRow(c)
    BY <1>0, <1>6 DEF Hand
  <2>3. c \in held /\ Releasable(c)
    BY <1>0, <1>6 DEF LiveIsHeld, LiveStates, Markable, Releasable, InState
  <2>4. ledger[c.uid].status = "pending_payment"
    <3>1. ~HasStatus(c, "paid")
      BY <1>0, <1>1, <2>3 DEF PaidIsSolid, PaidMark, Solid
    <3>2. ~HasStatus(c, "cancelled")
      BY <1>0, <1>1, <2>3 DEF CancelIsFree, CancelMark
    <3>3. ledger[c.uid] \in Row
      BY <1>0, <2>2 DEF TypeOK, HasRow, RowOf
    <3>. QED
      BY <2>2, <3>1, <3>2, <3>3 DEF HasRow, HasStatus, RowOf, Row, Status
  <2>5. Books[c.uid] = "pending_payment"
    BY <1>0, <1>1, <2>2, <2>4, ViewOfOrder DEF Books
  <2>6. adm[c.uid].state = "stock_acquired"
    BY <1>6 DEF Markable, InState
  <2>7. Lifecycle!Open(c.uid)
    BY <1>2, <1>3, <1>6, <2>1, <2>5, <2>6 DEF Lifecycle!Open, Lifecycle!Is, Lifecycle!Decide, Rights, Books
  <2>. QED
    BY <1>0, <2>7 DEF Lifecycle!Next
<1>7. CASE Claimable(c) /\ SetState(c, "paid") /\ UNCHANGED stock
  <2>1. Rights' = [Rights EXCEPT ![c.uid].state = "paid"]
    BY <1>4, <1>7 DEF Status
  <2>2. CASE adm[c.uid].state = "pending_payment"
    <3>1. Lifecycle!Pay(c.uid)
      BY <1>2, <1>3, <1>7, <2>1, <2>2 DEF Lifecycle!Pay, Lifecycle!Is, Lifecycle!Decide, Rights, Books
    <3>. QED
      BY <1>0, <3>1 DEF Lifecycle!Next
  <2>3. CASE adm[c.uid].state = "paid"
    <3>1. Rights' = Rights
      BY <1>2, <2>1, <2>3 DEF Rights
    <3>. QED
      BY <1>3, <1>7, <3>1 DEF Lifecycle!vars, Rights, Books
  <2>. QED
    BY <1>7, <2>2, <2>3 DEF Claimable, InState
<1>. QED
  BY <1>5, <1>6, <1>7

\* The statements on the ledger.
LEMMA StatementMaps ==
  ASSUME RefInv, NEW p \in Procs, NEW c \in Command, c = Cmd(p), Statement(p, c), UNCHANGED <<run, stock, adm>>
  PROVE  Lifecycle!Next \/ UNCHANGED Lifecycle!vars
<1>0. TypeOK /\ Opened /\ Hand(p) /\ c.uid \in Users
  BY DEF RefInv, StockInv, VerdictInv, Hands, Command
<1>1. Rights' = Rights
  BY DEF Rights, RightOf
<1>2. ASSUME NEW s \in {"pending_payment", "paid", "cancelled"}, SetRow(c, s), CurrentRun(c)
      PROVE  Books' = [Books EXCEPT ![c.uid] = s]
  BY <1>0, <1>2, BookWritten DEF Status
<1>3. ASSUME Matches(c), CurrentRun(c)
      PROVE  Rights[c.uid] # None /\ Rights[c.uid].state = adm[c.uid].state
  <2>1. RightOf(c.uid) = [gift |-> c.gift, state |-> adm[c.uid].state] /\ RightOf(c.uid) # None
    BY <1>0, <1>3, ViewOfOrder
  <2>2. Rights[c.uid] = RightOf(c.uid)
    BY <1>0 DEF Rights
  <2>. QED
    BY <2>1, <2>2
<1>4. ASSUME CurrentRun(c)
      PROVE  /\ ledger[c.uid] = None => Books[c.uid] = "none"
             /\ HasStatus(c, "pending_payment") => Books[c.uid] = "pending_payment"
  BY <1>0, <1>4, ViewOfOrder DEF Books, HasStatus, HasRow, RowOf
<1> DEFINE Noted(s) == Rights' = Rights /\ Books' = [Books EXCEPT ![c.uid] = s] /\ UNCHANGED stock
<1>5. CASE pc[p] = "insert" /\ ledger[c.uid] = None /\ SetRow(c, "pending_payment")
  <2>1. Matches(c) /\ CurrentRun(c)
    BY <1>0, <1>5 DEF Hand
  <2>2. adm[c.uid].state \in {"stock_acquired", "cancelled"}
    <3>1. ~HasRow(c)
      BY <1>5 DEF HasRow, RowOf
    <3>2. adm[c.uid].state \in Status
      BY <1>0, <2>1 DEF TypeOK, Matches, Admission
    <3>. QED
      BY <1>0, <2>1, <3>1, <3>2 DEF Opened, InState, Status
  <2>3. Noted("pending_payment")
    BY <1>1, <1>2, <1>5, <2>1
  <2>4. Rights[c.uid] # None /\ Rights[c.uid].state \in {"stock_acquired", "cancelled"} /\ Books[c.uid] = "none"
    BY <1>3, <1>4, <1>5, <2>1, <2>2
  <2>5. Lifecycle!Enter(c.uid)
    BY <2>3, <2>4 DEF Lifecycle!Enter, Lifecycle!Is, Lifecycle!Write, Rights, Books
  <2>. QED
    BY <1>0, <2>5 DEF Lifecycle!Next
<1>6. CASE CurrentRun(c) /\ pc[p] = "settle" /\ HasStatus(c, "pending_payment") /\ SetRow(c, "paid")
  <2>1. Noted("paid")
    BY <1>1, <1>2, <1>6
  <2>2. Rights[c.uid] # None /\ Rights[c.uid].state = "paid" /\ Books[c.uid] = "pending_payment"
    BY <1>0, <1>3, <1>4, <1>6 DEF Hand, Said
  <2>3. Lifecycle!BookPaid(c.uid)
    BY <2>1, <2>2 DEF Lifecycle!BookPaid, Lifecycle!Is, Lifecycle!Write, Rights, Books
  <2>. QED
    BY <1>0, <2>3 DEF Lifecycle!Next
<1>7. CASE /\ CurrentRun(c) /\ pc[p] \in {"rec_update", "rec_insert"}
           /\ HasStatus(c, "pending_payment") \/ ledger[c.uid] = None
           /\ SetRow(c, "cancelled")
  <2>1. Noted("cancelled")
    BY <1>1, <1>2, <1>7
  <2>2. Rights[c.uid] # None /\ Rights[c.uid].state = "cancelled" /\ Books[c.uid] \in {"none", "pending_payment"}
    BY <1>0, <1>3, <1>4, <1>7 DEF Hand, Said
  <2>3. Lifecycle!BookCancelled(c.uid)
    BY <2>1, <2>2 DEF Lifecycle!BookCancelled, Lifecycle!Is, Lifecycle!Write, Rights, Books
  <2>. QED
    BY <1>0, <2>3 DEF Lifecycle!Next
<1>8. CASE ~CurrentRun(c)
  <2>1. PICK s \in {"pending_payment", "paid", "cancelled"} :
             SetRow(c, s) /\ (ledger[c.uid] = None \/ HasStatus(c, "pending_payment"))
    BY DEF Statement
  <2>2. ledger[c.uid] # None => ledger[c.uid].id = c.id
    BY <2>1 DEF HasStatus, RowOf
  <2>3. Books' = Books
    BY <1>0, <1>8, <2>1, <2>2, OtherBook DEF Status
  <2>. QED
    BY <1>1, <2>3 DEF Lifecycle!vars, Rights, Books
<1>. QED
  BY <1>5, <1>6, <1>7, <1>8 DEF Statement

\* Filling the shelves, as the reset does it.
LEMMA RestockMaps ==
  ASSUME TypeOK, UNCHANGED <<run, adm, ledger>>, \A u \in Users : RightOf(u) = None,
         stock' \in [Gifts -> Int], \A g \in Gifts : stock'[g] \in 0 .. Count[g]
  PROVE  Lifecycle!Next
<1>1. stock' \in Lifecycle!Shelves
  BY CountAssumption DEF Lifecycle!Shelves
<1>2. [u \in Users |-> RightOf(u)]' = [u \in Users |-> RightOf(u)] /\ [u \in Users |-> BookOf(u)]' = [u \in Users |-> BookOf(u)]
  BY DEF RightOf, BookOf
<1>3. Lifecycle!Restock
  BY <1>1, <1>2 DEF Lifecycle!Restock
<1>. QED
  BY <1>3 DEF Lifecycle!Next

\* The reset: the rotation opens a new run, the steps after it fill the shelves
\* or forget what the rotation made void.
LEMMA ResetMaps == ASSUME RefInv, Reset PROVE Lifecycle!Next \/ UNCHANGED Lifecycle!vars
<1>0. TypeOK /\ Fresh /\ Void /\ UnitsFit /\ IsFiniteSet(held)
  BY DEF RefInv, StockInv, VerdictInv
<1>1. CASE ResetRotate
  <2>1. ASSUME NEW u \in Users PROVE RightOf(u)' = None /\ BookOf(u)' = "none"
    BY <1>0, <1>1, <2>1, NewRunIsEmpty DEF ResetRotate, RightOf, BookOf
  <2>2. [u \in Users |-> RightOf(u)]' = [u \in Users |-> None] /\ [u \in Users |-> BookOf(u)]' = [u \in Users |-> "none"]
    BY <2>1
  <2>3. Lifecycle!NewRun
    BY <1>1, <2>2 DEF ResetRotate, Lifecycle!NewRun
  <2>. QED
    BY <2>3 DEF Lifecycle!Next
<1>2. ASSUME ~ResetRotate, NEW u \in Users
      PROVE  RightOf(u) = None /\ RightOf(u)' = None /\ BookOf(u) = "none" /\ BookOf(u)' = "none"
  BY <1>0, <1>2, ResetForgets DEF Void, RightOf, BookOf
<1>3. CASE ResetOrders \/ ResetDropAdmissions \/ ResetFails
  <2>1. UNCHANGED stock /\ ~ResetRotate
    BY <1>3 DEF ResetOrders, ResetDropAdmissions, ResetFails, ResetRotate, redis
  <2>. QED
    BY <1>2, <2>1, Unseen
<1>4. CASE ResetDropStock
  <2>1. ~ResetRotate /\ UNCHANGED <<run, adm, ledger>>
    BY <1>4 DEF ResetDropStock, ResetRotate
  <2>2. ASSUME NEW g \in Gifts PROVE stock[g] \in 0 .. Count[g]
    <3>1. Cardinality(Units(g)) \in Nat
      BY <1>0, FS_Subset, FS_CardinalityType DEF Units
    <3>. QED
      BY <1>0, <3>1, CountAssumption DEF UnitsFit, TypeOK
  <2>3. stock' \in [Gifts -> Int] /\ \A g \in Gifts : stock'[g] \in 0 .. Count[g]
    BY <1>0, <1>4, <2>2, CountAssumption DEF ResetDropStock, TypeOK
  <2>. QED
    BY <1>0, <1>2, <2>1, <2>3, RestockMaps
<1>5. CASE ResetInventory
  <2>1. ~ResetRotate /\ UNCHANGED <<run, adm, ledger>>
    BY <1>5 DEF ResetInventory, ResetRotate
  <2>2. ASSUME NEW g \in Gifts PROVE stock[g] \in 0 .. Count[g] /\ Remaining(g) \in 0 .. Count[g]
    <3>1. Cardinality(Units(g)) \in Nat
      BY <1>0, FS_Subset, FS_CardinalityType DEF Units
    <3>. QED
      BY <1>0, <3>1, CountAssumption, RemainingInRange DEF UnitsFit, TypeOK
  <2>3. stock' \in [Gifts -> Int] /\ \A g \in Gifts : stock'[g] \in 0 .. Count[g]
    BY <1>0, <1>5, <2>2, CountAssumption DEF ResetInventory, Recount, TypeOK
  <2>. QED
    BY <1>0, <1>2, <2>1, <2>3, RestockMaps
<1>. QED
  BY <1>1, <1>3, <1>4, <1>5 DEF Reset

\* Every step is a step of the life cycle or none at all.
LEMMA StepMaps ==
  ASSUME RefInv, [Next]_vars, KeysLast \/ UNCHANGED vars
  PROVE  Lifecycle!Next \/ UNCHANGED Lifecycle!vars
<1>0. TypeOK /\ StoreMoves
  BY StoreStep DEF RefInv, StockInv, VerdictInv
<1>1. CASE UNCHANGED <<run, stock, adm, ledger>>
  <2>1. \A u \in Users : RightOf(u)' = RightOf(u) /\ BookOf(u)' = BookOf(u)
    BY <1>1 DEF RightOf, BookOf
  <2>. QED
    BY <1>1, <2>1, Unseen
<1>2. ASSUME \E u \in Users : KeyExpires(u) PROVE UNCHANGED <<run, stock, adm, ledger>>
  BY <1>2 DEF KeysLast, vars, redis
<1>3. ASSUME NEW p \in Procs, NEW c \in Command, c = Cmd(p), UNCHANGED run,
             \/ Releasable(c) /\ Release(c) /\ UNCHANGED ledger
             \/ pc[p] = "mark" /\ Markable(c) /\ SetState(c, "pending_payment") /\ UNCHANGED <<stock, ledger>>
             \/ Claimable(c) /\ SetState(c, "paid") /\ UNCHANGED <<stock, ledger>>
             \/ Statement(p, c) /\ UNCHANGED <<stock, adm>>
      PROVE  Lifecycle!Next \/ UNCHANGED Lifecycle!vars
  BY <1>3, DecisionMaps, StatementMaps
<1>4. ASSUME NEW p \in Procs, NEW c \in Command, c = Cmd(p), DrawAcquire(p) PROVE Lifecycle!Next
  BY <1>0, <1>4, GrantMaps
<1>. QED
  BY <1>0, <1>1, <1>2, <1>3, <1>4, ResetMaps DEF StoreMoves

\* As long as no admission key is dropped by its TTL, everything the application, its
\* messages, its crashes, its failed calls and its interrupted resets do together is the
\* life cycle of an order (admission.go:22-146, order.go, order_consumer.go, reset.go).
THEOREM SeckillImplementsLifecycle == Spec /\ [][KeysLast]_vars => ImplementsLifecycle
<1>1. Init => Lifecycle!Init
  BY DEF Init, Lifecycle!Init, RightOf, BookOf
<1>2. RefInv /\ [Next]_vars /\ [KeysLast]_vars => RefInv'
  BY RefNext
<1>3. RefInv /\ [Next]_vars /\ [KeysLast]_vars => [Lifecycle!Next]_(Lifecycle!vars)
  BY StepMaps
<1>. QED
  BY <1>1, <1>2, <1>3, RefInit, PTL DEF Spec, ImplementsLifecycle, Lifecycle!Spec
=============================================================================
