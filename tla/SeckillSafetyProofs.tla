------------------------- MODULE SeckillSafetyProofs ------------------------
(***************************************************************************)
(* Types, verdicts and messages of SeckillOrder. The argument has layers.  *)
(*   Fresh: the id a goroutine brings to the acquire script is its own, so *)
(*     a grant never revives an order that something still speaks of.      *)
(*   LiveIsHeld: an admission of this run that is not cancelled has its    *)
(*     unit out, so a release always has a unit to give back.              *)
(*   PaidIsSolid, CancelIsFree: whoever says paid (a row, an answer to a   *)
(*     client, a process about to write) speaks of a unit that no script   *)
(*     can release any more; whoever says cancelled, of a unit that went   *)
(*     back and cannot be taken again.                                     *)
(*   Courier: an open order shown to its client, or about to be, has its   *)
(*     messages; an acknowledged message is one its order needs no more.   *)
(*   Delivered, Recorded, Timed, Carried: with one consumer loop a         *)
(*     cancellation that the ledger missed has a message of its own.       *)
(* None of the checked properties is inductive: each needs what processes  *)
(* under way have read, which is what the marks below collect.             *)
(***************************************************************************)
EXTENDS SeckillOrder, FiniteSetTheorems, TLAPS

-----------------------------------------------------------------------------
(* Type correctness *)

USE DEF Procs, Identity, Command, Message, Status, Admission, Row, Op, Seen, Task, PC

\* The state after the first start is well typed.
LEMMA TypeInit == Init => TypeOK
BY CountAssumption, BoundsAssumption, NoneAssumption DEF Init, TypeOK, NoSpending

\* InitGiftInventory never restores less than nothing or more than the configured
\* quantity (inventory.go:81-88).
LEMMA RemainingInRange == ASSUME NEW g \in Gifts PROVE Remaining(g) \in 0 .. Count[g]
<1>1. IsFiniteSet(Holding(g)) /\ IsFiniteSet(Unpersisted(g))
  BY UsersAssumption, FS_Subset DEF Holding, Unpersisted
<1>2. Cardinality(Holding(g)) \in Nat /\ Cardinality(Unpersisted(g)) \in Nat
  BY <1>1, FS_CardinalityType
<1>. QED
  BY <1>2, CountAssumption DEF Remaining

\* A recount, complete or broken off, leaves well-typed counters.
LEMMA RecountType == ASSUME TypeOK, NEW done \in SUBSET Gifts, Recount(done)
                     PROVE  /\ stock' \in [Gifts -> Nat]
                            /\ clean' \in BOOLEAN
                            /\ spent' \in [fault : 0 .. MaxFaults, crash : 0 .. MaxCrashes,
                                           expiry : 0 .. MaxExpiries]
<1>1. \A g \in Gifts : Remaining(g) \in Nat
  BY RemainingInRange, CountAssumption
<1>2. stock' \in [Gifts -> Nat]
  BY <1>1 DEF TypeOK, Recount
<1>3. clean' \in BOOLEAN
  BY DEF Recount
<1>4. CASE UNCHANGED spent
  BY <1>2, <1>3, <1>4 DEF TypeOK
<1>5. CASE Fault
  BY <1>2, <1>3, <1>5, BoundsAssumption DEF TypeOK, Fault
<1>. QED
  BY <1>4, <1>5 DEF Recount

\* Every step of a handler, of a consumer, of the reset and of the environment
\* keeps the types; in particular no script takes a counter below zero
\* (admission.go:52-57) and no order id or run leaves its range.
LEMMA TypeNext == TypeOK /\ [Next]_vars => TypeOK'
<1> SUFFICES ASSUME TypeOK, [Next]_vars PROVE TypeOK'
  OBVIOUS
<1> USE CountAssumption, BoundsAssumption, NoneAssumption DEF TypeOK, redis, history
<1>1. ASSUME NEW p \in Handlers, NEW u \in Users, NEW g \in Gifts, DrawBegin(p, u, g) PROVE TypeOK'
  BY <1>1 DEF DrawBegin, Begin
<1>2. ASSUME NEW p \in Handlers, NEW c \in shown, PayRepeated(p, c) PROVE TypeOK'
  BY <1>2 DEF PayRepeated
<1>3. ASSUME NEW p \in Handlers, NEW c \in shown, PayBegin(p, c) PROVE TypeOK'
  BY <1>3 DEF PayBegin, Begin
<1>4. ASSUME NEW p \in Handlers, NEW c \in shown, GiveUpBegin(p, c) PROVE TypeOK'
  BY <1>4 DEF GiveUpBegin, Begin
<1>5. ASSUME NEW p \in Consumers, NEW c \in Command, CreateIgnored(p, c) PROVE TypeOK'
  BY <1>5 DEF CreateIgnored
<1>6. ASSUME NEW p \in Consumers, NEW c \in Command, CreateBegin(p, c) PROVE TypeOK'
  BY <1>6 DEF CreateBegin, Begin, Matches
<1>7. ASSUME NEW p \in Consumers, NEW c \in Command, TimeoutIgnored(p, c) PROVE TypeOK'
  BY <1>7 DEF TimeoutIgnored
<1>8. ASSUME NEW p \in Consumers, NEW c \in Command, TimeoutBegin(p, c) PROVE TypeOK'
  BY <1>8 DEF TimeoutBegin, Begin, Matches
<1>9. ASSUME NEW p \in Procs, DrawAcquire(p) PROVE TypeOK'
  BY <1>9 DEF DrawAcquire, Acquire, Acquirable, At, Cmd, CurrentRun, Goto, Leave, Fault
<1>10. ASSUME NEW p \in Procs, DrawRefused(p) PROVE TypeOK'
  BY <1>10 DEF DrawRefused, At, Cmd, Return, Leave, Fault
<1>11. ASSUME NEW p \in Procs, DrawSendTimeout(p) PROVE TypeOK'
  BY <1>11 DEF DrawSendTimeout, At, Sent, SendFails, Cmd, Fault
<1>12. ASSUME NEW p \in Procs, DrawSendCreate(p) PROVE TypeOK'
  BY <1>12 DEF DrawSendCreate, At, Sent, SendFails, Cmd, Fault, Leave
<1>13. ASSUME NEW p \in Procs, DrawRollback(p) PROVE TypeOK'
  BY <1>13 DEF DrawRollback, At, Cmd, Releasable, InState, Matches, CurrentRun, Release, SetState, Goto, Return, Leave, Fault
<1>14. ASSUME NEW p \in Procs, RecUpdate(p) PROVE TypeOK'
  BY <1>14 DEF RecUpdate, At, Cmd, SetRow, Goto, Return, Leave, Fault
<1>15. ASSUME NEW p \in Procs, RecFind(p) PROVE TypeOK'
  BY <1>15 DEF RecFind, At, Cmd, Goto, Return, Leave, Fault
<1>16. ASSUME NEW p \in Procs, RecInsert(p) PROVE TypeOK'
  BY <1>16 DEF RecInsert, At, Cmd, SetRow, Goto, Return, Leave, Fault
<1>17. ASSUME NEW p \in Procs, Settle(p) PROVE TypeOK'
  BY <1>17 DEF Settle, At, Cmd, SetRow, Return, Leave, Fault
<1>18. ASSUME NEW p \in Procs, InsertPending(p) PROVE TypeOK'
  BY <1>18, SMTT(30) DEF InsertPending, At, Cmd, SetRow, Goto, Return, Leave, Fault
<1>19. ASSUME NEW p \in Procs, MarkPending(p) PROVE TypeOK'
  BY <1>19 DEF MarkPending, At, Cmd, Markable, InState, Matches, CurrentRun, SetState, Goto, Return, Leave, Fault
<1>20. ASSUME NEW p \in Procs, Reread(p) PROVE TypeOK'
  BY <1>20 DEF Reread, At, Cmd, Goto, Return, Leave, Fault
<1>21. ASSUME NEW p \in Procs, Claim(p) PROVE TypeOK'
  BY <1>21 DEF Claim, At, Cmd, Claimable, InState, Matches, CurrentRun, SetState, Goto, Return, Leave, Fault
<1>22. ASSUME NEW p \in Procs, CancelFind(p) PROVE TypeOK'
  <2>1. (IF RowOf(Cmd(p)) = None THEN "none" ELSE RowOf(Cmd(p)).status) \in Seen
    BY <1>22 DEF CancelFind, At, Cmd, RowOf
  <2>. QED
    BY <1>22, <2>1 DEF CancelFind, At
<1>23. ASSUME NEW p \in Procs, CancelRelease(p) PROVE TypeOK'
  <2>1. CASE Releasable(Cmd(p))
    <3>1. task[p] \in Task /\ Cmd(p) \in Command
      BY <1>23 DEF CancelRelease, At, Cmd
    <3>2. stock' \in [Gifts -> Nat] /\ held' \subseteq Command /\ run' = run
      BY <1>23, <2>1, <3>1 DEF CancelRelease, Release
    <3>3. adm' \in [Users -> Admission \cup {None}]
      BY <1>23, <2>1, <3>1 DEF CancelRelease, Release, SetState, Releasable, InState, Matches
    <3> QED
      BY <1>23, <3>2, <3>3 DEF CancelRelease, At, Goto
  <2>2. CASE ~Releasable(Cmd(p))
    BY <1>23, <2>2 DEF CancelRelease, At, Goto
  <2> QED
    BY <2>1, <2>2
<1>24. ASSUME NEW p \in Procs, CancelVerify(p) PROVE TypeOK'
  BY <1>24 DEF CancelVerify, At, Cmd, Goto, Return, Leave, Fault
<1>25. ASSUME NEW p \in Procs, CallFails(p) PROVE TypeOK'
  BY <1>25 DEF CallFails, Leave, Fault
<1>26. ASSUME Reset PROVE TypeOK'
  <2>1. CASE ResetRotate
    <3>1. run' \in 1 .. MaxRuns
      BY <2>1 DEF ResetRotate
    <3>. QED
      BY <2>1, <3>1 DEF ResetRotate
  <2>2. CASE ResetOrders
    BY <2>2 DEF ResetOrders
  <2>3. CASE ResetDropStock
    BY <2>3 DEF ResetDropStock, Fault
  <2>4. CASE ResetDropAdmissions
    BY <2>4 DEF ResetDropAdmissions, Fault
  <2>5. CASE ResetInventory
    BY <2>5, RecountType DEF ResetInventory
  <2>6. CASE ResetFails
    BY <2>6 DEF ResetFails, Fault
  <2>. QED
    BY <1>26, <2>1, <2>2, <2>3, <2>4, <2>5, <2>6 DEF Reset
<1>27. ASSUME Crash PROVE TypeOK'
  BY <1>27 DEF Crash
<1>28. ASSUME NEW u \in Users, DeadlinePasses(u) PROVE TypeOK'
  <2>1. adm[u].id.order \in 1 .. MaxOrders
    BY <1>28 DEF DeadlinePasses
  <2>. QED
    BY <1>28, <2>1 DEF DeadlinePasses
<1>29. ASSUME NEW u \in Users, KeyExpires(u) PROVE TypeOK'
  BY <1>29 DEF KeyExpires
<1>30. ASSUME UNCHANGED vars PROVE TypeOK'
  BY <1>30 DEF vars
<1>. QED
  BY <1>1, <1>2, <1>3, <1>4, <1>5, <1>6, <1>7, <1>8, <1>9, <1>10, <1>11, <1>12, <1>13, <1>14, <1>15, <1>16, <1>17, <1>18, <1>19, <1>20, <1>21, <1>22, <1>23, <1>24, <1>25, <1>26, <1>27, <1>28, <1>29, <1>30 DEF Next, Request, Deliver, Step

\* Type correctness of every reachable state: counters stay natural numbers, an
\* admission and a row hold one of the states of OrderStatus, a process has a
\* local state exactly while an operation is under way.
THEOREM TypeCorrect == Spec => []TypeOK
<1>1. Init => TypeOK
  BY TypeInit
<1>2. TypeOK /\ [Next]_vars => TypeOK'
  BY TypeNext
<1>. QED
  BY <1>1, <1>2, PTL DEF Spec

HIDE DEF Procs, Identity, Command, Message, Status, Admission, Row, Op, Seen, Task, PC

-----------------------------------------------------------------------------
(* The verdicts *)

\* A goroutine before the script, and one after it with a command in hand.
Acquiring(p) == pc[p] = "acquire"
InHand(p, c) == pc[p] \notin {"idle", "acquire"} /\ task[p].cmd = c
HasMessage(c) == \E m \in msgs : m.cmd = c
HasRow(c) == RowOf(c) # None

\* Something beyond a goroutine on its way to the script speaks of the order.
Known(c) == \/ c \in held \/ c \in shown \/ c \in payAck
            \/ HasMessage(c)
            \/ \E p \in Procs : InHand(p, c)
            \/ Matches(c)
            \/ HasRow(c)

\* Ids in use are old ones, and an id on its way to the script is in use nowhere.
Fresh ==
  /\ \A c \in Command : Known(c) => c.id.order < nextOrder /\ c.id.run <= run
  /\ \A p \in Procs : Acquiring(p) =>
       /\ task[p].cmd.id.order < nextOrder
       /\ task[p].cmd.id.run <= run
       /\ \A c \in Command : Known(c) => c.id.order # task[p].cmd.id.order
       /\ \A q \in Procs \ {p} : Acquiring(q) => task[q].cmd.id.order # task[p].cmd.id.order

-----------------------------------------------------------------------------
\* A process that is not idle works for some command.
LEMMA TaskType == ASSUME TypeOK, NEW p \in Procs, pc[p] # "idle"
                  PROVE  task[p] \in Task /\ Cmd(p) \in Command
BY DEF TypeOK, Cmd, Task

\* The two ways a step moves a process.
Moves(p) == \/ \E ok \in BOOLEAN : Return(p, ok)
            \/ /\ pc[p] # "acquire"
               /\ \E label \in PC \ {"idle", "acquire"} : Goto(p, label)

\* A process that moves on or returns keeps its command or drops it, and sends nothing.
LEMMA MovesHand == ASSUME TypeOK, NEW p \in Procs, pc[p] # "idle", Moves(p)
                   PROVE  /\ msgs' \subseteq msgs
                          /\ \A q \in Procs : Acquiring(q)' => Acquiring(q) /\ task'[q] = task[q] /\ q # p
                          /\ \A q \in Procs, c \in Command : InHand(q, c)' => InHand(q, c)
<1>1. CASE \E ok \in BOOLEAN : Return(p, ok)
  BY <1>1 DEF TypeOK, Return, Leave, InHand, Acquiring
<1>2. CASE pc[p] # "acquire" /\ \E label \in PC \ {"idle", "acquire"} : Goto(p, label)
  BY <1>2 DEF TypeOK, Goto, InHand, Acquiring
<1>. QED
  BY <1>1, <1>2 DEF Moves

\* A step writes the row of d, or none.
Writes(d) == (\E s \in Status : SetRow(d, s)) \/ UNCHANGED ledger

\* A write to the row of one order creates no row of another.
LEMMA WritesRow == ASSUME TypeOK, NEW d \in Command, Writes(d), NEW c \in Command
                   PROVE  HasRow(c)' => HasRow(c) \/ c = d
<1>1. CASE c.uid = d.uid
  BY <1>1 DEF TypeOK, Writes, SetRow, HasRow, RowOf, Command
<1>2. CASE c.uid # d.uid
  BY <1>2 DEF TypeOK, Writes, SetRow, HasRow, RowOf, Command
<1>. QED BY <1>1, <1>2

\* A script decides the admission of d, or none.
Decides(d) == (\E s \in Status : Matches(d) /\ SetState(d, s)) \/ UNCHANGED adm

\* A script that decides one order leaves the admissions of all others alone.
LEMMA SetStateAdm == ASSUME TypeOK, NEW d \in Command, NEW s \in Status, SetState(d, s), Matches(d), NEW c \in Command
                   PROVE  /\ Matches(c)' <=> Matches(c)
                          /\ c # d /\ Matches(c) => adm'[c.uid] = adm[c.uid]
                          /\ adm'[d.uid].state = s
<1>1. adm[d.uid] \in Admission /\ adm'[d.uid] = [adm[d.uid] EXCEPT !.state = s] /\ adm'[d.uid] # None
  BY NoneAssumption DEF TypeOK, SetState, Matches, Command, Admission
<1>2. CASE c.uid = d.uid
  BY <1>1, <1>2 DEF TypeOK, Matches, Command, Admission
<1>3. CASE c.uid # d.uid
  BY <1>1, <1>3 DEF TypeOK, SetState, Matches, Command
<1>. QED BY <1>1, <1>2, <1>3

\* A script that decides an order changes no identity, so the same commands match.
LEMMA DecidesMatch == ASSUME TypeOK, NEW d \in Command, Decides(d), NEW c \in Command
                   PROVE  Matches(c)' <=> Matches(c)
<1>1. CASE UNCHANGED adm
  BY <1>1 DEF Matches
<1>2. CASE \E s \in Status : Matches(d) /\ SetState(d, s)
  BY <1>2, SetStateAdm
<1>. QED BY <1>1, <1>2 DEF Decides

\* A step that moves one process, writes its own row and decides its own
\* admission makes no other command known.
Ordinary(p) == /\ pc[p] \notin {"idle", "acquire"} /\ Moves(p)
               /\ Writes(Cmd(p)) /\ Decides(Cmd(p))
               /\ held' \subseteq held /\ UNCHANGED shown
               /\ payAck' \subseteq payAck \cup {Cmd(p)}
               /\ UNCHANGED <<run, nextOrder>>

\* Every step of an operation outside Draw up to its sends is ordinary.
LEMMA OrdinaryStep ==
  ASSUME TypeOK, NEW p \in Procs,
         \/ DrawRollback(p) \/ RecUpdate(p) \/ RecFind(p) \/ RecInsert(p) \/ Settle(p)
         \/ InsertPending(p) \/ MarkPending(p) \/ Reread(p)
         \/ Claim(p)
         \/ CancelRelease(p) \/ CancelVerify(p)
  PROVE  Ordinary(p)
<1> USE DEF Ordinary, Moves, Writes, Decides, PC, Status, At, redis, history
<1>1. CASE DrawRollback(p)
  BY <1>1 DEF DrawRollback, Releasable, InState, Release
<1>2. CASE RecUpdate(p)
  BY <1>2 DEF RecUpdate
<1>3. CASE RecFind(p)
  BY <1>3 DEF RecFind
<1>4. CASE RecInsert(p)
  BY <1>4 DEF RecInsert
<1>5. CASE Settle(p)
  BY <1>5 DEF Settle
<1>6. CASE InsertPending(p)
  BY <1>6 DEF InsertPending
<1>7. CASE MarkPending(p)
  BY <1>7 DEF MarkPending, Markable, InState
<1>8. CASE Reread(p)
  BY <1>8 DEF Reread
<1>9. CASE Claim(p)
  BY <1>9 DEF Claim, Claimable, InState
<1>10. CASE CancelRelease(p)
  BY <1>10 DEF CancelRelease, Releasable, InState, Release
<1>11. CASE CancelVerify(p)
  <2>1. Moves(p)
    <3>1. CASE Goto(p, "rec_update")
      BY <1>11, <3>1 DEF CancelVerify
    <3>2. CASE Return(p, Verdict(p) \in {"paid", "cancelled", "none"})
      BY <3>2, (Verdict(p) \in {"paid", "cancelled", "none"}) \in BOOLEAN
    <3>. QED
      BY <1>11, <3>1, <3>2 DEF CancelVerify
  <2>2. UNCHANGED <<redis, ledger, held, shown, nextOrder>> /\ payAck' \subseteq payAck \cup {Cmd(p)}
    BY <1>11 DEF CancelVerify
  <2>. QED
    BY <1>11, <2>1, <2>2 DEF CancelVerify
<1>. QED
  BY <1>1, <1>2, <1>3, <1>4, <1>5, <1>6, <1>7, <1>8, <1>9, <1>10, <1>11

\* An ordinary step makes no command known.
LEMMA OrdinaryKnown ==
  ASSUME TypeOK, NEW p \in Procs, Ordinary(p), NEW c \in Command, Known(c)'
  PROVE  Known(c)
<1>1. Cmd(p) \in Command /\ InHand(p, Cmd(p))
  BY TaskType DEF Ordinary, InHand, Cmd
<1>2. msgs' \subseteq msgs /\ \A q \in Procs : InHand(q, c)' => InHand(q, c)
  BY MovesHand DEF Ordinary
<1>3. (HasRow(c)' => HasRow(c) \/ c = Cmd(p)) /\ (Matches(c)' => Matches(c))
  BY <1>1, WritesRow, DecidesMatch DEF Ordinary
<1>. QED
  BY <1>1, <1>2, <1>3 DEF Known, HasMessage, Ordinary

OrdinaryActions(p) ==
  \/ DrawRollback(p) \/ RecUpdate(p) \/ RecFind(p) \/ RecInsert(p) \/ Settle(p)
  \/ InsertPending(p) \/ MarkPending(p) \/ Reread(p)
  \/ Claim(p)
  \/ CancelRelease(p) \/ CancelVerify(p)

\* Nobody but the script that grants a unit makes a command known.
LEMMA KnownStep == ASSUME TypeOK, [Next]_vars, NEW c \in Command, Known(c)', ~Known(c)
                   PROVE  \E p \in Procs : DrawAcquire(p) /\ task[p].cmd = c
<1> USE DEF Known, HasMessage, HasRow, redis, history
<1>1. ASSUME NEW p \in Handlers, NEW u \in Users, NEW g \in Gifts, DrawBegin(p, u, g) PROVE FALSE
  BY <1>1 DEF DrawBegin, Begin, Matches, RowOf, InHand, TypeOK, Procs
<1>2. ASSUME NEW p \in Handlers, NEW d \in shown, PayRepeated(p, d) PROVE FALSE
  BY <1>2 DEF PayRepeated, Matches, RowOf, InHand
<1>3. ASSUME NEW p \in Handlers, NEW d \in shown, PayBegin(p, d) PROVE FALSE
  BY <1>3 DEF PayBegin, Begin, Matches, RowOf, InHand, TypeOK, Procs
<1>4. ASSUME NEW p \in Handlers, NEW d \in shown, GiveUpBegin(p, d) PROVE FALSE
  BY <1>4 DEF GiveUpBegin, Begin, Matches, RowOf, InHand, TypeOK, Procs
<1>5. ASSUME NEW p \in Consumers, NEW d \in Command, CreateIgnored(p, d) PROVE FALSE
  BY <1>5 DEF CreateIgnored, Matches, RowOf, InHand, TypeOK, Procs
<1>6. ASSUME NEW p \in Consumers, NEW d \in Command, CreateBegin(p, d) PROVE FALSE
  BY <1>6 DEF CreateBegin, Begin, Matches, RowOf, InHand, TypeOK, Procs
<1>7. ASSUME NEW p \in Consumers, NEW d \in Command, TimeoutIgnored(p, d) PROVE FALSE
  BY <1>7 DEF TimeoutIgnored, Matches, RowOf, InHand, TypeOK, Procs
<1>8. ASSUME NEW p \in Consumers, NEW d \in Command, TimeoutBegin(p, d) PROVE FALSE
  BY <1>8 DEF TimeoutBegin, Begin, Matches, RowOf, InHand, TypeOK, Procs
<1>9. ASSUME NEW p \in Procs, DrawRefused(p) PROVE FALSE
  BY <1>9 DEF DrawRefused, Return, Leave, Matches, RowOf, InHand, At, TypeOK
<1>10. ASSUME NEW p \in Procs, DrawSendTimeout(p) PROVE FALSE
  BY <1>10, TaskType DEF DrawSendTimeout, At, Sent, SendFails, Cmd, Matches, RowOf, InHand, TypeOK
<1>11. ASSUME NEW p \in Procs, DrawSendCreate(p) PROVE FALSE
  BY <1>11, TaskType DEF DrawSendCreate, At, Sent, SendFails, Cmd, Leave, Matches, RowOf, InHand, TypeOK
<1>12. ASSUME NEW p \in Procs, OrdinaryActions(p) PROVE FALSE
  BY <1>12, OrdinaryStep, OrdinaryKnown DEF OrdinaryActions
<1>13. ASSUME NEW p \in Procs, CancelFind(p) PROVE FALSE
  BY <1>13 DEF CancelFind, At, Matches, RowOf, InHand, TypeOK, Cmd
<1>14. ASSUME NEW p \in Procs, CallFails(p) PROVE FALSE
  BY <1>14 DEF CallFails, Leave, Matches, RowOf, InHand, TypeOK
<1>15. ASSUME NEW p \in Procs, DrawAcquire(p) PROVE task[p].cmd = c
  BY <1>15, TaskType DEF DrawAcquire, At, Cmd, Acquirable, Acquire, Goto, Leave, Matches, RowOf, InHand, TypeOK, Command
<1>16. ASSUME Reset PROVE FALSE
  <2>1. UNCHANGED <<msgs, pc, task, shown, payAck>> /\ held' \subseteq held
    BY <1>16 DEF Reset, ResetRotate, ResetOrders, ResetDropStock, ResetDropAdmissions,
                 ResetInventory, ResetFails
  <2>2. \A u \in Users : adm'[u] \in {adm[u], None}
    BY <1>16 DEF Reset, ResetRotate, ResetOrders, ResetDropStock, ResetDropAdmissions,
                 ResetInventory, ResetFails
  <2>3. \A u \in Users : ledger'[u] \in {ledger[u], None}
    BY <1>16 DEF Reset, ResetRotate, ResetOrders, ResetDropStock, ResetDropAdmissions,
                 ResetInventory, ResetFails
  <2>. QED
    BY <2>1, <2>2, <2>3 DEF Matches, RowOf, InHand, Command
<1>17. ASSUME Crash PROVE FALSE
  BY <1>17 DEF Crash, Matches, RowOf, InHand, TypeOK
<1>18. ASSUME NEW u \in Users, DeadlinePasses(u) PROVE FALSE
  BY <1>18 DEF DeadlinePasses, Matches, RowOf, InHand
<1>19. ASSUME NEW u \in Users, KeyExpires(u) PROVE FALSE
  BY <1>19 DEF KeyExpires, Matches, RowOf, InHand, TypeOK, Command
<1>20. ASSUME UNCHANGED vars PROVE FALSE
  BY <1>20 DEF vars, Matches, RowOf, InHand
<1>. QED
  BY <1>1, <1>2, <1>3, <1>4, <1>5, <1>6, <1>7, <1>8, <1>9, <1>10, <1>11, <1>12, <1>13, <1>14, <1>15, <1>16, <1>17, <1>18, <1>19, <1>20 DEF Next, Request, Deliver, Step, OrdinaryActions

\* A goroutine comes to the script with a new order id only.
LEMMA AcquiringStep ==
  ASSUME TypeOK, [Next]_vars, NEW q \in Procs, Acquiring(q)'
  PROVE  \/ Acquiring(q) /\ task'[q].cmd.id = task[q].cmd.id
         \/ \E u \in Users, g \in Gifts : DrawBegin(q, u, g)
<1> DEFINE Old == Acquiring(q) /\ task'[q].cmd.id = task[q].cmd.id
<1> USE DEF Acquiring, redis, history
<1>1. ASSUME NEW p \in Handlers, NEW u \in Users, NEW g \in Gifts, DrawBegin(p, u, g) PROVE Old \/ \E v \in Users, h \in Gifts : DrawBegin(q, v, h)
  <2>1. CASE q = p
    BY <1>1, <2>1
  <2>2. CASE q # p
    BY <1>1, <2>2 DEF DrawBegin, Begin, TypeOK, Procs
  <2>. QED
    BY <2>1, <2>2
<1>2. ASSUME NEW p \in Handlers, NEW d \in shown, (PayRepeated(p, d) \/ PayBegin(p, d) \/ GiveUpBegin(p, d)) PROVE Old
  BY <1>2 DEF PayRepeated, PayBegin, GiveUpBegin, Begin, Goto, Leave, TypeOK, Procs
<1>3. ASSUME NEW p \in Consumers, NEW d \in Command, Deliver(p, d) PROVE Old
  BY <1>3 DEF Deliver, CreateIgnored, CreateBegin, TimeoutIgnored, TimeoutBegin, Begin, Goto, Leave, TypeOK, Procs
<1>4. ASSUME NEW p \in Procs, DrawAcquire(p) PROVE Old
  BY <1>4 DEF DrawAcquire, At, Goto, Leave, TypeOK, Procs
<1>5. ASSUME NEW p \in Procs, DrawRefused(p) PROVE Old
  <2>1. CASE Return(p, FALSE)
    BY <2>1 DEF Return, Leave, TypeOK
  <2>2. CASE \E g \in Gifts : task' = [task EXCEPT ![p].cmd.gift = g] /\ UNCHANGED pc
    BY <1>5, <2>2, TaskType DEF At, DrawRefused, TypeOK, Task
  <2>. QED
    BY <1>5, <2>1, <2>2 DEF DrawRefused
<1>6. ASSUME NEW p \in Procs, (DrawSendTimeout(p) \/ DrawSendCreate(p)) PROVE Old
  BY <1>6 DEF DrawSendTimeout, DrawSendCreate, SendFails, Goto, Leave, TypeOK, Procs
<1>7. ASSUME NEW p \in Procs, OrdinaryActions(p) PROVE Old
  BY <1>7, OrdinaryStep, MovesHand DEF OrdinaryActions, Ordinary
<1>8. ASSUME NEW p \in Procs, CancelFind(p) PROVE Old
  BY <1>8 DEF CancelFind, Goto, Leave, TypeOK, Procs
<1>9. ASSUME NEW p \in Procs, CallFails(p) PROVE Old
  BY <1>9 DEF CallFails, Goto, Leave, TypeOK, Procs
<1>10. ASSUME Reset PROVE Old
  BY <1>10 DEF Reset, ResetRotate, ResetOrders, ResetDropStock, ResetDropAdmissions, ResetInventory, ResetFails
<1>11. ASSUME Crash PROVE Old
  BY <1>11 DEF Crash, TypeOK
<1>12. ASSUME NEW u \in Users, (DeadlinePasses(u) \/ KeyExpires(u)) PROVE Old
  BY <1>12 DEF DeadlinePasses, KeyExpires
<1>13. ASSUME UNCHANGED vars PROVE Old
  BY <1>13 DEF vars
<1>. QED
  BY <1>1, <1>2, <1>3, <1>4, <1>5, <1>6, <1>7, <1>8, <1>9, <1>10, <1>11, <1>12, <1>13 DEF Next, Request, Step, OrdinaryActions

\* Order ids and runs never go back (NewIdentityID, RotateSeckillRun).
LEMMA ClocksRun == ASSUME TypeOK, [Next]_vars PROVE nextOrder <= nextOrder' /\ run <= run'
<1> DEFINE Ticks == nextOrder' \in {nextOrder, nextOrder + 1} /\ run' \in {run, run + 1}
<1> USE DEF redis
<1>1. ASSUME \E p \in Handlers : Request(p) PROVE Ticks
  BY <1>1 DEF Request, DrawBegin, PayRepeated, PayBegin, GiveUpBegin
<1>2. ASSUME \E p \in Consumers, c \in Command : Deliver(p, c) PROVE Ticks
  BY <1>2 DEF Deliver, CreateIgnored, CreateBegin, TimeoutIgnored, TimeoutBegin
<1>3. ASSUME \E p \in Procs : OrdinaryActions(p) PROVE Ticks
  BY <1>3, OrdinaryStep DEF OrdinaryActions, Ordinary
<1>4. ASSUME NEW p \in Procs,
             \/ DrawAcquire(p) \/ DrawRefused(p) \/ DrawSendTimeout(p) \/ DrawSendCreate(p)
             \/ CancelFind(p) \/ CallFails(p)
      PROVE  Ticks
  BY <1>4 DEF DrawAcquire, Acquire, DrawRefused, DrawSendTimeout, DrawSendCreate, CancelFind, CallFails
<1>5. ASSUME Reset PROVE Ticks
  BY <1>5 DEF Reset, ResetRotate, ResetOrders, ResetDropStock, ResetDropAdmissions, ResetInventory, ResetFails
<1>6. ASSUME Crash \/ (\E u \in Users : DeadlinePasses(u) \/ KeyExpires(u)) \/ UNCHANGED vars PROVE Ticks
  BY <1>6 DEF Crash, DeadlinePasses, KeyExpires, vars
<1>7. Ticks
  BY <1>1, <1>2, <1>3, <1>4, <1>5, <1>6 DEF Next, Step, OrdinaryActions
<1>. QED
  BY <1>7, BoundsAssumption DEF TypeOK

\* At the first start no command is known.
LEMMA FreshInit == Init => Fresh
BY NoneAssumption DEF Init, Fresh, Known, HasMessage, HasRow, InHand, Matches, RowOf, Acquiring, Command

\* The id a goroutine brings to the script stays its own: no two orders of any
\* user, message, row or client share an id.
LEMMA FreshNext == ASSUME TypeOK, Fresh, [Next]_vars PROVE Fresh'
<1>0. nextOrder \in Nat /\ nextOrder' \in Nat /\ run \in Nat /\ run' \in Nat
  BY TypeNext DEF TypeOK
<1>1. ASSUME NEW c \in Command, Known(c)'
      PROVE  c.id.order < nextOrder /\ c.id.run <= run
  <2>1. CASE ~Known(c)
    <3>1. PICK p \in Procs : DrawAcquire(p) /\ task[p].cmd = c
      BY <1>1, <2>1, KnownStep
    <3>. QED
      BY <3>1 DEF Fresh, DrawAcquire, At, Acquiring
  <2>. QED
    BY <2>1 DEF Fresh
<1>2. ASSUME NEW q \in Procs, NEW u \in Users, NEW g \in Gifts, DrawBegin(q, u, g)
      PROVE  /\ ~Acquiring(q) /\ task'[q].cmd.id = [order |-> nextOrder, run |-> run]
             /\ nextOrder' = nextOrder + 1 /\ run' = run
  BY <1>2 DEF DrawBegin, Begin, Acquiring, TypeOK, Procs, redis
<1>3. ASSUME NEW q \in Procs, Acquiring(q)', Acquiring(q), task'[q].cmd.id = task[q].cmd.id
      PROVE  /\ task'[q].cmd.id.order < nextOrder /\ task'[q].cmd.id.run <= run
             /\ \A c \in Command : Known(c)' => c.id.order # task'[q].cmd.id.order
  <2>1. ASSUME NEW c \in Command, Known(c)', ~Known(c) PROVE c.id.order # task'[q].cmd.id.order
    <3>1. PICK p \in Procs : DrawAcquire(p) /\ task[p].cmd = c
      BY <2>1, KnownStep
    <3>2. Acquiring(p) /\ ~Acquiring(p)'
      BY <3>1 DEF DrawAcquire, At, Acquiring, Goto, Leave, TypeOK
    <3>. QED
      BY <1>3, <3>1, <3>2 DEF Fresh
  <2>. QED
    BY <1>3, <2>1 DEF Fresh
<1> DEFINE Later(q) == /\ task'[q].cmd.id.order < nextOrder' /\ task'[q].cmd.id.run <= run'
                       /\ \A c \in Command : Known(c)' => c.id.order # task'[q].cmd.id.order
<1>4. ASSUME NEW q \in Procs, Acquiring(q)' PROVE Later(q)
  <2>1. CASE Acquiring(q) /\ task'[q].cmd.id = task[q].cmd.id
    <3>1. task[q].cmd.id.order \in Nat /\ task[q].cmd.id.run \in Nat
      BY <2>1, TaskType DEF Acquiring, Cmd, Command, Identity
    <3>2. nextOrder <= nextOrder' /\ run <= run'
      BY ClocksRun
    <3>. QED
      BY <1>0, <1>3, <1>4, <2>1, <3>1, <3>2
  <2>2. ASSUME NEW u \in Users, NEW g \in Gifts, DrawBegin(q, u, g) PROVE Later(q)
    <3>1. task'[q].cmd.id.order = nextOrder /\ task'[q].cmd.id.run = run
      BY <1>2, <2>2
    <3>2. \A c \in Command : c.id.order \in Nat
      BY DEF Command, Identity
    <3>. QED
      BY <1>0, <1>1, <1>2, <2>2, <3>1, <3>2
  <2>. QED
    BY <1>4, <2>1, <2>2, AcquiringStep
<1>5. ASSUME NEW q \in Procs, NEW r \in Procs, q # r, Acquiring(q)', Acquiring(r)'
      PROVE  task'[r].cmd.id.order # task'[q].cmd.id.order
  <2> DEFINE Old(x) == Acquiring(x) /\ task'[x].cmd.id = task[x].cmd.id
             New(x) == \E u \in Users, g \in Gifts : DrawBegin(x, u, g)
  <2>1. (Old(q) \/ New(q)) /\ (Old(r) \/ New(r))
    BY <1>5, AcquiringStep
  <2>2. CASE Old(q) /\ Old(r)
    BY <1>5, <2>2 DEF Fresh
  <2>3. ASSUME NEW x \in Procs, NEW y \in Procs, Old(x), New(y)
        PROVE  task'[x].cmd.id.order # task'[y].cmd.id.order
    <3>1. task'[x].cmd.id.order < nextOrder /\ task'[y].cmd.id.order = nextOrder
      BY <1>2, <2>3 DEF Fresh
    <3>. QED
      BY <1>0, <3>1
  <2>4. ~(New(q) /\ New(r))
    BY <1>5 DEF DrawBegin, Begin, Acquiring, TypeOK, Procs
  <2>. QED
    BY <2>1, <2>2, <2>3, <2>4
<1>6. \A c \in Command : Known(c)' => c.id.order < nextOrder' /\ c.id.run <= run'
  <2>1. \A c \in Command : c.id.order \in Nat /\ c.id.run \in Nat
    BY DEF Command, Identity
  <2>. QED
    BY <1>0, <1>1, <2>1, ClocksRun
<1>. QED
  BY <1>4, <1>5, <1>6 DEF Fresh

-----------------------------------------------------------------------------
\* An admission of this run that is not cancelled has its unit out.
LiveStates == {"stock_acquired", "pending_payment", "paid"}
LiveIsHeld == \A c \in Command : InState(c, LiveStates) => c \in held

\* What a step may do to the admissions, the units out and the run.
AdmissionMoves ==
  \/ UNCHANGED <<run, adm, held>>
  \/ \E p \in Procs, c \in Command : DrawAcquire(p) /\ c = Cmd(p)
  \/ \E c \in Command : Releasable(c) /\ Release(c)
  \/ \E c \in Command : Markable(c) /\ SetState(c, "pending_payment") /\ UNCHANGED <<run, held>>
  \/ \E c \in Command : Claimable(c) /\ SetState(c, "paid") /\ UNCHANGED <<run, held>>
  \/ /\ ResetDropAdmissions \/ \E u \in Users : KeyExpires(u)
     /\ (\A u \in Users : adm'[u] \in {adm[u], None}) /\ UNCHANGED <<run, held>>
  \/ run' = run + 1 /\ held' = {} /\ UNCHANGED adm

\* The four scripts, the reset and the TTL are all that changes an admission.
LEMMA AdmissionStep == ASSUME TypeOK, [Next]_vars PROVE AdmissionMoves
<1> USE DEF AdmissionMoves, redis, history
<1>1. ASSUME \E p \in Handlers : Request(p) PROVE UNCHANGED <<run, adm, held>>
  BY <1>1 DEF Request, DrawBegin, PayRepeated, PayBegin, GiveUpBegin
<1>2. ASSUME \E p \in Consumers, c \in Command : Deliver(p, c) PROVE UNCHANGED <<run, adm, held>>
  BY <1>2 DEF Deliver, CreateIgnored, CreateBegin, TimeoutIgnored, TimeoutBegin
<1>3. ASSUME NEW p \in Procs,
             \/ DrawRefused(p) \/ DrawSendTimeout(p) \/ DrawSendCreate(p)
             \/ RecUpdate(p) \/ RecFind(p) \/ RecInsert(p) \/ Settle(p)
             \/ InsertPending(p) \/ Reread(p) \/ CancelFind(p) \/ CancelVerify(p) \/ CallFails(p)
      PROVE  UNCHANGED <<run, adm, held>>
  BY <1>3 DEF DrawRefused, DrawSendTimeout, DrawSendCreate, RecUpdate, RecFind, RecInsert, Settle,
              InsertPending, Reread, CancelFind, CancelVerify, CallFails
<1>4. ASSUME NEW p \in Procs, DrawRollback(p) \/ CancelRelease(p) PROVE AdmissionMoves
  <2>1. Cmd(p) \in Command
    BY <1>4, TaskType DEF DrawRollback, CancelRelease, At
  <2>. QED
    BY <1>4, <2>1 DEF DrawRollback, CancelRelease
<1>5. ASSUME NEW p \in Procs, MarkPending(p) \/ Claim(p) PROVE AdmissionMoves
  <2>1. Cmd(p) \in Command
    BY <1>5, TaskType DEF MarkPending, Claim, At
  <2>. QED
    BY <1>5, <2>1 DEF MarkPending, Claim
<1>6. ASSUME Reset PROVE AdmissionMoves
  <2>1. CASE ResetRotate
    BY <2>1 DEF ResetRotate
  <2>2. CASE ResetDropAdmissions
    BY <2>2 DEF ResetDropAdmissions
  <2>3. CASE ResetOrders \/ ResetDropStock \/ ResetInventory \/ ResetFails
    BY <2>3 DEF ResetOrders, ResetDropStock, ResetInventory, ResetFails
  <2>. QED
    BY <1>6, <2>1, <2>2, <2>3 DEF Reset
<1>7. ASSUME NEW u \in Users, KeyExpires(u) PROVE AdmissionMoves
  BY <1>7 DEF KeyExpires, TypeOK
<1>8. ASSUME Crash \/ (\E u \in Users : DeadlinePasses(u)) \/ UNCHANGED vars
      PROVE  UNCHANGED <<run, adm, held>>
  BY <1>8 DEF Crash, DeadlinePasses, vars
<1>9. ASSUME NEW p \in Procs, DrawAcquire(p) PROVE AdmissionMoves
  BY <1>9, TaskType DEF DrawAcquire, At
<1>. QED
  BY <1>1, <1>2, <1>3, <1>4, <1>5, <1>6, <1>7, <1>8, <1>9 DEF Next, Step

\* At most one order of a user matches its admission key.
LEMMA SameCommand == ASSUME NEW c \in Command, NEW d \in Command, Matches(c), Matches(d), c.uid = d.uid
                     PROVE  c = d
BY DEF Matches, Command

\* What acquireAdmissionScript does to the admissions when it answers OK.
LEMMA AcquireEffect ==
  ASSUME TypeOK, NEW p \in Procs, NEW d \in Command, d = Cmd(p), DrawAcquire(p)
  PROVE  /\ Acquiring(p) /\ run' = run /\ held' = held \cup {d} /\ CurrentRun(d)
         /\ Matches(d)' /\ adm'[d.uid].state = "stock_acquired"
         /\ ~\E c \in Command : Matches(c) /\ c.uid = d.uid
         /\ \A c \in Command : Matches(c)' => c = d \/ Matches(c)
         /\ \A c \in Command : c.uid # d.uid => adm'[c.uid] = adm[c.uid]
<1>2. /\ adm' = [adm EXCEPT ![d.uid] = [gift |-> d.gift, id |-> d.id, state |-> "stock_acquired"]]
      /\ held' = held \cup {d} /\ run' = run /\ CurrentRun(d) /\ adm[d.uid] = None /\ Acquiring(p)
  BY DEF DrawAcquire, Acquire, Acquirable, Acquiring, At
<1>3. [gift |-> d.gift, id |-> d.id, state |-> "stock_acquired"] # None
  BY NoneAssumption DEF Admission, Command, Status
<1>4. \A c \in Command : c.uid \in Users
  BY DEF Command
<1>5. Matches(d)' /\ adm'[d.uid].state = "stock_acquired"
  BY <1>2, <1>3, <1>4 DEF Matches, TypeOK
<1>. QED
  BY <1>2, <1>4, <1>5 DEF Matches, TypeOK, Command

\* What releaseAdmissionScript does to the admissions when it answers 1.
LEMMA ReleaseEffect ==
  ASSUME TypeOK, NEW d \in Command, Releasable(d), Release(d)
  PROVE  /\ run' = run /\ held' = held \ {d} /\ Matches(d) /\ CurrentRun(d)
         /\ adm'[d.uid].state = "cancelled"
         /\ \A c \in Command : /\ Matches(c)' <=> Matches(c)
                               /\ c # d /\ Matches(c) => adm'[c.uid] = adm[c.uid]
BY SetStateAdm DEF Releasable, InState, Release, Status

\* An admission of this run that is not cancelled has its unit out.
LEMMA LiveStep == ASSUME TypeOK, LiveIsHeld, Fresh, [Next]_vars PROVE LiveIsHeld'
<1> SUFFICES ASSUME NEW c \in Command, InState(c, LiveStates)' PROVE c \in held'
  BY DEF LiveIsHeld
<1> USE DEF InState, LiveStates, CurrentRun, LiveIsHeld
<1>1. CASE UNCHANGED <<run, adm, held>>
  BY <1>1 DEF Matches
<1>2. ASSUME NEW p \in Procs, NEW d \in Command, DrawAcquire(p), d = Cmd(p) PROVE c \in held'
  BY <1>2, AcquireEffect, SameCommand
<1>3. ASSUME NEW d \in Command, Releasable(d), Release(d) PROVE c \in held'
  BY <1>3, ReleaseEffect
<1>4. ASSUME NEW d \in Command, Markable(d), SetState(d, "pending_payment"), UNCHANGED <<run, held>>
      PROVE  c \in held'
  BY <1>4, SetStateAdm DEF Markable, Status
<1>5. ASSUME NEW d \in Command, Claimable(d), SetState(d, "paid"), UNCHANGED <<run, held>>
      PROVE  c \in held'
  BY <1>5, SetStateAdm DEF Claimable, Status
<1>6. CASE (\A u \in Users : adm'[u] \in {adm[u], None}) /\ UNCHANGED <<run, held>>
  BY <1>6 DEF Matches, Command
<1>7. CASE run' = run + 1 /\ held' = {} /\ UNCHANGED adm
  <2>1. Known(c)
    BY <1>7 DEF Known, Matches
  <2>2. c.id.run <= run /\ c.id.run = run + 1
    BY <1>7, <2>1 DEF Fresh
  <2>. QED
    BY <2>2, BoundsAssumption DEF TypeOK
<1>. QED
  BY <1>1, <1>2, <1>3, <1>4, <1>5, <1>6, <1>7, AdmissionStep DEF AdmissionMoves

-----------------------------------------------------------------------------
\* A unit that is kept: it is out and no release can give it back.
Solid(c) == c \in held /\ ~Releasable(c)

\* The client, the ledger or a process about to write says paid.
PaidMark(c) ==
  \/ c \in payAck
  \/ HasStatus(c, "paid")
  \/ \E p \in Procs : /\ task[p].cmd = c
                     /\ \/ pc[p] = "settle"
                        \/ pc[p] \in {"insert", "release", "verify"} /\ task[p].seen = "paid"

PaidIsSolid == \A c \in Command : PaidMark(c) /\ CurrentRun(c) => Solid(c)

\* The ledger, Redis or a process about to write says cancelled.
CancelMark(c) ==
  \/ HasStatus(c, "cancelled")
  \/ Matches(c) /\ adm[c.uid].state = "cancelled"
  \/ \E p \in Procs : task[p].cmd = c /\ pc[p] \in {"rec_update", "rec_find", "rec_insert"}

CancelIsFree == \A c \in Command : CancelMark(c) /\ CurrentRun(c) => c \notin held

\* A verdict is reached for known commands only.
LEMMA MarksKnown == ASSUME NEW c \in Command, PaidMark(c) \/ CancelMark(c) PROVE Known(c)
BY DEF PaidMark, CancelMark, Known, HasRow, HasStatus, InHand

\* A unit that is kept stays kept until the run ends: no later message, request or
\* script can give it back.
LEMMA SolidStep == ASSUME TypeOK, LiveIsHeld, Fresh, [Next]_vars,
                          NEW c \in Command, Known(c), Solid(c), CurrentRun(c)'
                   PROVE  Solid(c)'
<1> USE DEF Solid, Releasable, InState, CurrentRun
<1>1. CASE UNCHANGED <<run, adm, held>>
  BY <1>1 DEF Matches
<1>2. ASSUME NEW p \in Procs, NEW d \in Command, DrawAcquire(p), d = Cmd(p) PROVE Solid(c)'
  <2>1. c # d
    BY <1>2, AcquireEffect DEF Fresh, Cmd
  <2>2. CASE c.uid = d.uid
    BY <1>2, <2>1, <2>2, AcquireEffect, SameCommand
  <2>3. CASE c.uid # d.uid
    BY <1>2, <2>1, <2>3, AcquireEffect DEF Matches
  <2>. QED
    BY <2>2, <2>3
<1>3. ASSUME NEW d \in Command, Releasable(d), Release(d) PROVE Solid(c)'
  BY <1>3, ReleaseEffect
<1>4. ASSUME NEW d \in Command, Markable(d), SetState(d, "pending_payment"), UNCHANGED <<run, held>>
      PROVE  Solid(c)'
  BY <1>4, SetStateAdm DEF Markable, Status
<1>5. ASSUME NEW d \in Command, Claimable(d), SetState(d, "paid"), UNCHANGED <<run, held>>
      PROVE  Solid(c)'
  BY <1>5, SetStateAdm DEF Claimable, Status
<1>6. CASE (\A u \in Users : adm'[u] \in {adm[u], None}) /\ UNCHANGED <<run, held>>
  BY <1>6 DEF Matches, Command
<1>7. CASE run' = run + 1 /\ held' = {} /\ UNCHANGED adm
  <2>1. c.id.run <= run /\ c.id.run = run + 1
    BY <1>7 DEF Fresh
  <2>. QED
    BY <2>1, BoundsAssumption DEF TypeOK
<1>. QED
  BY <1>1, <1>2, <1>3, <1>4, <1>5, <1>6, <1>7, AdmissionStep DEF AdmissionMoves

\* A unit that went back is not taken again for the same order.
LEMMA FreeStep == ASSUME TypeOK, Fresh, [Next]_vars, NEW c \in Command, Known(c), c \notin held
                  PROVE  c \notin held'
<1>1. ASSUME NEW p \in Procs, NEW d \in Command, DrawAcquire(p), d = Cmd(p) PROVE c \notin held'
  BY <1>1, AcquireEffect DEF Fresh, Cmd
<1>2. ASSUME NEW d \in Command, Releasable(d), Release(d) PROVE c \notin held'
  BY <1>2, ReleaseEffect
<1>. QED
  BY <1>1, <1>2, AdmissionStep DEF AdmissionMoves

\* What a row says after one order was written.
LEMMA SetRowStatus ==
  ASSUME TypeOK, NEW d \in Command, NEW s \in {"pending_payment", "paid", "cancelled"}, SetRow(d, s),
         NEW c \in Command, NEW t, HasStatus(c, t)'
  PROVE  (c # d /\ HasStatus(c, t)) \/ (c = d /\ t = s)
<1>1. [gift |-> d.gift, id |-> d.id, status |-> s] # None
  BY NoneAssumption DEF Row, Command, Status
<1>2. CASE c.uid = d.uid
  BY <1>1, <1>2 DEF TypeOK, SetRow, HasStatus, RowOf, Command
<1>3. CASE c.uid # d.uid
  BY <1>3 DEF TypeOK, SetRow, HasStatus, RowOf, Command
<1>. QED
  BY <1>2, <1>3

\* Without a write to the ledger no status changes.
LEMMA SameStatus == ASSUME UNCHANGED ledger, NEW c, NEW t PROVE HasStatus(c, t)' <=> HasStatus(c, t)
BY DEF HasStatus, RowOf

\* A process that knows the order is paid.
PaidHand(p, c) == /\ task[p].cmd = c
                  /\ \/ pc[p] = "settle"
                     \/ pc[p] \in {"insert", "release", "verify"} /\ task[p].seen = "paid"

\* Where a paid mark can come from.
Pays(c) == \E p \in Procs : Claim(p) /\ Claimable(c) /\ SetState(c, "paid") /\ UNCHANGED <<run, held>>

\* Whoever says paid saw the admission paid, was told so, or has just claimed it.
LEMMA PaidMarkStep ==
  ASSUME TypeOK, [Next]_vars, NEW c \in Command, PaidMark(c)', CurrentRun(c)'
  PROVE  PaidMark(c) \/ InState(c, {"paid"}) \/ Pays(c)
<1> DEFINE Goal == PaidMark(c) \/ InState(c, {"paid"}) \/ Pays(c)
<1> USE DEF redis, history
<1>0. PaidMark(c) <=> c \in payAck \/ HasStatus(c, "paid") \/ \E p \in Procs : PaidHand(p, c)
  BY DEF PaidMark, PaidHand
<1>00. PaidMark(c)' <=> c \in payAck' \/ HasStatus(c, "paid")' \/ \E p \in Procs : PaidHand(p, c)'
  BY DEF PaidMark, PaidHand
<1>1. ASSUME NEW p \in Handlers, Request(p) PROVE Goal
  <2>1. ASSUME NEW u \in Users, NEW g \in Gifts, DrawBegin(p, u, g) PROVE Goal
    BY <1>0, <1>00, <2>1, SameStatus DEF DrawBegin, Begin, PaidHand, TypeOK, Procs
  <2>2. ASSUME NEW d \in shown, PayRepeated(p, d) PROVE Goal
    BY <1>0, <1>00, <2>2, SameStatus DEF PayRepeated, PaidHand
  <2>3. ASSUME NEW d \in shown, PayBegin(p, d) \/ GiveUpBegin(p, d) PROVE Goal
    BY <1>0, <1>00, <2>3, SameStatus DEF PayBegin, GiveUpBegin, Begin, PaidHand, TypeOK, Procs
  <2>. QED
    BY <1>1, <2>1, <2>2, <2>3 DEF Request
<1>2. ASSUME NEW p \in Consumers, NEW d \in Command, Deliver(p, d) PROVE Goal
  <2>1. CASE CreateIgnored(p, d) \/ TimeoutIgnored(p, d) \/ TimeoutBegin(p, d)
    BY <1>0, <1>00, <2>1, SameStatus DEF CreateIgnored, TimeoutIgnored, TimeoutBegin, Begin, PaidHand, TypeOK, Procs
  <2>2. CASE CreateBegin(p, d)
    BY <1>0, <1>00, <2>2, SameStatus DEF CreateBegin, Begin, PaidHand, TypeOK, Procs, InState
  <2>. QED
    BY <1>2, <2>1, <2>2 DEF Deliver
<1>3. ASSUME NEW p \in Procs, DrawAcquire(p) PROVE Goal
  BY <1>0, <1>00, <1>3, SameStatus DEF DrawAcquire, Return, Leave, Goto, PaidHand, At, TypeOK
<1>4. ASSUME NEW p \in Procs, DrawRefused(p) PROVE Goal
  BY <1>0, <1>00, <1>4, SameStatus DEF DrawRefused, Return, Leave, Goto, PaidHand, At, TypeOK
<1>5. ASSUME NEW p \in Procs, DrawSendTimeout(p) PROVE Goal
  BY <1>0, <1>00, <1>5, SameStatus DEF DrawSendTimeout, SendFails, Return, Leave, Goto, PaidHand, At, TypeOK
<1>6. ASSUME NEW p \in Procs, DrawSendCreate(p) PROVE Goal
  BY <1>0, <1>00, <1>6, SameStatus DEF DrawSendCreate, SendFails, Return, Leave, Goto, PaidHand, At, TypeOK
<1>7. ASSUME NEW p \in Procs, DrawRollback(p) PROVE Goal
  BY <1>0, <1>00, <1>7, SameStatus DEF DrawRollback, Return, Leave, Goto, PaidHand, At, TypeOK
<1>8. ASSUME NEW p \in Procs, RecUpdate(p) PROVE Goal
  BY <1>0, <1>00, <1>8, SameStatus, SetRowStatus, TaskType DEF RecUpdate, Return, Leave, Goto, PaidHand, At, TypeOK
<1>9. ASSUME NEW p \in Procs, RecFind(p) PROVE Goal
  BY <1>0, <1>00, <1>9, SameStatus DEF RecFind, Return, Leave, Goto, PaidHand, At, TypeOK
<1>10. ASSUME NEW p \in Procs, RecInsert(p) PROVE Goal
  BY <1>0, <1>00, <1>10, SameStatus, SetRowStatus, TaskType DEF RecInsert, Return, Leave, Goto, PaidHand, At, TypeOK
<1>11. ASSUME NEW p \in Procs, Settle(p) PROVE Goal
  BY <1>0, <1>00, <1>11, SameStatus, SetRowStatus, TaskType DEF Settle, Cmd, Return, Leave, Goto, PaidHand, At, TypeOK
<1>12. ASSUME NEW p \in Procs, InsertPending(p) PROVE Goal
  BY <1>0, <1>00, <1>12, SameStatus, SetRowStatus, TaskType DEF InsertPending, Cmd, Return, Leave, Goto, PaidHand, At, TypeOK
<1>13. ASSUME NEW p \in Procs, MarkPending(p) PROVE Goal
  BY <1>0, <1>00, <1>13, SameStatus DEF MarkPending, Return, Leave, Goto, PaidHand, At, TypeOK
<1>14. ASSUME NEW p \in Procs, Reread(p) PROVE Goal
  BY <1>0, <1>00, <1>14, SameStatus DEF Reread, Return, Leave, Goto, PaidHand, At, TypeOK
<1>15. ASSUME NEW p \in Procs, Claim(p) PROVE Goal
  BY <1>0, <1>00, <1>15, SameStatus, SMTT(30) DEF Claim, Pays, Cmd, Return, Leave, Goto, PaidHand, At, TypeOK
<1>16. ASSUME NEW p \in Procs, CancelFind(p) PROVE Goal
  BY <1>0, <1>00, <1>16, SameStatus, SMTT(30) DEF CancelFind, Cmd, HasStatus, Return, Leave, Goto, PaidHand, At, TypeOK
<1>17. ASSUME NEW p \in Procs, CancelRelease(p) PROVE Goal
  BY <1>0, <1>00, <1>17, SameStatus DEF CancelRelease, Return, Leave, Goto, PaidHand, At, TypeOK
<1>18. ASSUME NEW p \in Procs, CancelVerify(p) PROVE Goal
  BY <1>0, <1>00, <1>18, SameStatus DEF CancelVerify, Verdict, InState, CurrentRun, Cmd, Return, Leave, Goto, PaidHand, At, TypeOK
<1>19. ASSUME NEW p \in Procs, CallFails(p) PROVE Goal
  BY <1>0, <1>00, <1>19, SameStatus DEF CallFails, Return, Leave, Goto, PaidHand, At, TypeOK
<1>20. ASSUME Reset PROVE Goal
  <2>1. UNCHANGED <<pc, task, payAck>> /\ (\A u \in Users : ledger'[u] \in {ledger[u], None})
    BY <1>20 DEF Reset, ResetRotate, ResetOrders, ResetDropStock, ResetDropAdmissions, ResetInventory, ResetFails
  <2>. QED
    BY <1>0, <1>00, <2>1 DEF PaidHand, HasStatus, RowOf, Command
<1>21. ASSUME Crash \/ (\E u \in Users : DeadlinePasses(u) \/ KeyExpires(u)) \/ UNCHANGED vars PROVE Goal
  BY <1>0, <1>00, <1>21, SameStatus DEF Crash, DeadlinePasses, KeyExpires, vars, PaidHand
<1>. QED
  BY <1>1, <1>2, <1>3, <1>4, <1>5, <1>6, <1>7, <1>8, <1>9, <1>10, <1>11, <1>12, <1>13, <1>14, <1>15, <1>16, <1>17, <1>18, <1>19, <1>20, <1>21 DEF Next, Step

\* All that says paid speaks of a unit that is kept (order.go:158-190).
LEMMA PaidStep == ASSUME TypeOK, LiveIsHeld, Fresh, PaidIsSolid, [Next]_vars PROVE PaidIsSolid'
<1> SUFFICES ASSUME NEW c \in Command, PaidMark(c)', CurrentRun(c)' PROVE Solid(c)'
  BY DEF PaidIsSolid
<1>1. CASE PaidMark(c)
  <2>1. Known(c)
    BY <1>1, MarksKnown
  <2>2. CurrentRun(c)
    <3>1. c.id.run = run'
      BY DEF CurrentRun
    <3>2. c.id.run <= run /\ run <= run'
      BY <2>1, ClocksRun DEF Fresh
    <3>3. run \in Int /\ run' \in Int
      BY BoundsAssumption, TypeNext DEF TypeOK
    <3>. QED
      BY <3>1, <3>2, <3>3 DEF CurrentRun
  <2>. QED
    BY <1>1, <2>1, <2>2, SolidStep DEF PaidIsSolid
<1>2. CASE InState(c, {"paid"})
  <2>1. Solid(c) /\ Known(c)
    BY <1>2 DEF InState, Solid, LiveIsHeld, LiveStates, Releasable, Known
  <2>. QED
    BY <2>1, SolidStep
<1>3. CASE Pays(c)
  <2>1. c \in held
    BY <1>3 DEF Pays, Claimable, InState, LiveIsHeld, LiveStates
  <2>2. adm'[c.uid].state = "paid" /\ held' = held
    BY <1>3, SetStateAdm DEF Pays, Claimable, InState, Status
  <2>. QED
    BY <2>1, <2>2 DEF Solid, Releasable, InState
<1>. QED
  BY <1>1, <1>2, <1>3, PaidMarkStep

\* A process that carries a cancellation to the ledger.
CancelHand(p, c) == task[p].cmd = c /\ pc[p] \in {"rec_update", "rec_find", "rec_insert"}

\* Where a cancelled mark can come from.
Cancels(c) == Releasable(c) /\ Release(c)

\* Without a script no admission becomes cancelled.
LEMMA SameMatch == ASSUME UNCHANGED adm, NEW c
                   PROVE  (Matches(c) /\ adm[c.uid].state = "cancelled")' <=> Matches(c) /\ adm[c.uid].state = "cancelled"
BY DEF Matches

\* Whoever says cancelled was told so or has just released the unit.
LEMMA CancelMarkStep ==
  ASSUME TypeOK, [Next]_vars, NEW c \in Command, CancelMark(c)'
  PROVE  CancelMark(c) \/ Cancels(c)
<1> DEFINE Goal == CancelMark(c) \/ Cancels(c)
           Gone == Matches(c) /\ adm[c.uid].state = "cancelled"
<1> USE DEF redis, history
<1>0. CancelMark(c) <=> HasStatus(c, "cancelled") \/ Gone \/ \E p \in Procs : CancelHand(p, c)
  BY DEF CancelMark, CancelHand
<1>00. CancelMark(c)' <=> HasStatus(c, "cancelled")' \/ Gone' \/ \E p \in Procs : CancelHand(p, c)'
  BY DEF CancelMark, CancelHand
<1>1. ASSUME NEW p \in Handlers, Request(p) PROVE Goal
  BY <1>0, <1>00, <1>1, SameStatus, SameMatch
     DEF Request, DrawBegin, PayRepeated, PayBegin, GiveUpBegin, Begin, CancelHand, TypeOK, Procs
<1>2. ASSUME NEW p \in Consumers, NEW d \in Command, Deliver(p, d) PROVE Goal
  BY <1>0, <1>00, <1>2, SameStatus, SameMatch
     DEF Deliver, CreateIgnored, CreateBegin, TimeoutIgnored, TimeoutBegin, Begin, CancelHand, TypeOK, Procs
<1>3. ASSUME NEW p \in Procs, DrawAcquire(p) PROVE Goal
  <2>1. PICK d \in Command : d = Cmd(p)
    BY <1>3, TaskType DEF DrawAcquire, At
  <2>2. Gone' => Gone
    BY <1>3, <2>1, AcquireEffect, SameCommand DEF Matches
  <2>. QED
    BY <1>0, <1>00, <1>3, <2>2, SameStatus DEF DrawAcquire, Return, Leave, Goto, CancelHand, At, TypeOK
<1>4. ASSUME NEW p \in Procs, DrawRefused(p) PROVE Goal
  BY <1>0, <1>00, <1>4, SameStatus, SameMatch DEF DrawRefused, Return, Leave, Goto, CancelHand, At, TypeOK
<1>5. ASSUME NEW p \in Procs, DrawSendTimeout(p) PROVE Goal
  BY <1>0, <1>00, <1>5, SameStatus, SameMatch DEF DrawSendTimeout, SendFails, Return, Leave, Goto, CancelHand, At, TypeOK
<1>6. ASSUME NEW p \in Procs, DrawSendCreate(p) PROVE Goal
  BY <1>0, <1>00, <1>6, SameStatus, SameMatch DEF DrawSendCreate, SendFails, Return, Leave, Goto, CancelHand, At, TypeOK
<1>7. ASSUME NEW p \in Procs, DrawRollback(p) \/ CancelRelease(p) PROVE Goal
  <2>1. PICK d \in Command : d = Cmd(p)
    BY <1>7, TaskType DEF DrawRollback, CancelRelease, At
  <2>2. CASE Releasable(d) /\ Release(d)
    <3>1. c # d /\ Gone' => Gone
      BY <2>2, ReleaseEffect
    <3>2. CASE c = d
      BY <2>2, <3>2 DEF Cancels
    <3>3. CASE c # d
      BY <1>0, <1>00, <1>7, <2>1, <3>1, <3>3, SameStatus DEF DrawRollback, CancelRelease, Cmd, Return, Leave, Goto, CancelHand, At, TypeOK
    <3>. QED
      BY <3>2, <3>3
  <2>3. CASE ~Releasable(d)
    <3>1. UNCHANGED <<adm, ledger>>
      BY <1>7, <2>1, <2>3 DEF DrawRollback, CancelRelease
    <3>2. \A q \in Procs : CancelHand(q, c)' => CancelHand(q, c)
      BY <1>7, <2>1, <2>3 DEF DrawRollback, CancelRelease, Return, Leave, Goto, CancelHand, At, TypeOK
    <3>. QED
      BY <1>0, <1>00, <3>1, <3>2, SameStatus, SameMatch
  <2>. QED
    BY <1>7, <2>1, <2>2, <2>3 DEF DrawRollback, CancelRelease
<1>8. ASSUME NEW p \in Procs, RecUpdate(p) PROVE Goal
  BY <1>0, <1>00, <1>8, SameStatus, SameMatch, SetRowStatus, TaskType DEF RecUpdate, Cmd, Return, Leave, Goto, CancelHand, At, TypeOK
<1>9. ASSUME NEW p \in Procs, RecFind(p) PROVE Goal
  BY <1>0, <1>00, <1>9, SameStatus, SameMatch DEF RecFind, Return, Leave, Goto, CancelHand, At, TypeOK
<1>10. ASSUME NEW p \in Procs, RecInsert(p) PROVE Goal
  BY <1>0, <1>00, <1>10, SameStatus, SameMatch, SetRowStatus, TaskType DEF RecInsert, Cmd, Return, Leave, Goto, CancelHand, At, TypeOK
<1>11. ASSUME NEW p \in Procs, Settle(p) PROVE Goal
  BY <1>0, <1>00, <1>11, SameStatus, SameMatch, SetRowStatus, TaskType DEF Settle, Return, Leave, Goto, CancelHand, At, TypeOK
<1>12. ASSUME NEW p \in Procs, InsertPending(p) PROVE Goal
  BY <1>0, <1>00, <1>12, SameStatus, SameMatch, SetRowStatus, TaskType DEF InsertPending, Return, Leave, Goto, CancelHand, At, TypeOK
<1>13. ASSUME NEW p \in Procs, MarkPending(p) \/ Claim(p) PROVE Goal
  <2>1. PICK d \in Command : d = Cmd(p)
    BY <1>13, TaskType DEF MarkPending, Claim, At
  <2>2. Gone' => Gone
    <3>1. CASE UNCHANGED adm
      BY <3>1, SameMatch
    <3>2. ASSUME NEW t \in {"pending_payment", "paid"}, Matches(d), SetState(d, t) PROVE Gone' => Gone
      BY <3>2, SetStateAdm DEF Status
    <3>. QED
      BY <1>13, <2>1, <3>1, <3>2 DEF MarkPending, Claim, Markable, Claimable, InState
  <2>. QED
    BY <1>0, <1>00, <1>13, <2>2, SameStatus DEF MarkPending, Claim, Return, Leave, Goto, CancelHand, At, TypeOK
<1>14. ASSUME NEW p \in Procs, Reread(p) PROVE Goal
  BY <1>0, <1>00, <1>14, SameStatus, SameMatch DEF Reread, Cmd, Return, Leave, Goto, CancelHand, At, TypeOK
<1>15. ASSUME NEW p \in Procs, CancelFind(p) PROVE Goal
  BY <1>0, <1>00, <1>15, SameStatus, SameMatch DEF CancelFind, Return, Leave, Goto, CancelHand, At, TypeOK
<1>16. ASSUME NEW p \in Procs, CancelVerify(p) PROVE Goal
  BY <1>0, <1>00, <1>16, SameStatus, SameMatch DEF CancelVerify, Cmd, Return, Leave, Goto, CancelHand, At, TypeOK
<1>17. ASSUME NEW p \in Procs, CallFails(p) PROVE Goal
  BY <1>0, <1>00, <1>17, SameStatus, SameMatch DEF CallFails, Return, Leave, Goto, CancelHand, At, TypeOK
<1>18. ASSUME Reset PROVE Goal
  <2>1. /\ UNCHANGED <<pc, task>>
        /\ \A u \in Users : ledger'[u] \in {ledger[u], None} /\ adm'[u] \in {adm[u], None}
    BY <1>18 DEF Reset, ResetRotate, ResetOrders, ResetDropStock, ResetDropAdmissions, ResetInventory, ResetFails
  <2>. QED
    BY <1>0, <1>00, <2>1 DEF CancelHand, HasStatus, RowOf, Matches, Command
<1>19. ASSUME NEW u \in Users, KeyExpires(u) PROVE Goal
  BY <1>0, <1>00, <1>19, SameStatus DEF KeyExpires, CancelHand, Matches, TypeOK, Command
<1>20. ASSUME Crash \/ (\E u \in Users : DeadlinePasses(u)) \/ UNCHANGED vars PROVE Goal
  BY <1>0, <1>00, <1>20, SameStatus, SameMatch DEF Crash, DeadlinePasses, vars, CancelHand
<1>. QED
  BY <1>1, <1>2, <1>3, <1>4, <1>5, <1>6, <1>7, <1>8, <1>9, <1>10, <1>11, <1>12, <1>13, <1>14, <1>15, <1>16, <1>17, <1>18, <1>19, <1>20 DEF Next, Step

\* All that says cancelled speaks of a unit that went back (order.go:315-350).
LEMMA CancelStep == ASSUME TypeOK, Fresh, CancelIsFree, [Next]_vars PROVE CancelIsFree'
<1> SUFFICES ASSUME NEW c \in Command, CancelMark(c)', CurrentRun(c)' PROVE c \notin held'
  BY DEF CancelIsFree
<1>1. CASE CancelMark(c)
  <2>1. Known(c)
    BY <1>1, MarksKnown
  <2>2. CurrentRun(c)
    <3>1. c.id.run = run'
      BY DEF CurrentRun
    <3>2. c.id.run <= run /\ run <= run'
      BY <2>1, ClocksRun DEF Fresh
    <3>3. run \in Int /\ run' \in Int
      BY BoundsAssumption, TypeNext DEF TypeOK
    <3>. QED
      BY <3>1, <3>2, <3>3 DEF CurrentRun
  <2>. QED
    BY <1>1, <2>1, <2>2, FreeStep DEF CancelIsFree
<1>2. CASE Cancels(c)
  BY <1>2, ReleaseEffect DEF Cancels
<1>. QED
  BY <1>1, <1>2, CancelMarkStep

-----------------------------------------------------------------------------
\* The inductive invariant of the verdicts.
VerdictInv == TypeOK /\ Fresh /\ LiveIsHeld /\ PaidIsSolid /\ CancelIsFree

\* The invariant holds at the first start.
LEMMA VerdictInit == Init => VerdictInv
<1> SUFFICES ASSUME Init PROVE VerdictInv
  OBVIOUS
<1>1. \A c \in Command : ~Known(c)
  BY NoneAssumption DEF Init, Known, HasMessage, HasRow, InHand, Matches, RowOf, Command
<1>2. LiveIsHeld
  BY <1>1 DEF LiveIsHeld, InState, Known
<1>3. PaidIsSolid /\ CancelIsFree
  BY <1>1, MarksKnown DEF PaidIsSolid, CancelIsFree
<1>. QED
  BY <1>2, <1>3, TypeInit, FreshInit DEF VerdictInv

\* Every step keeps the invariant.
LEMMA VerdictNext == VerdictInv /\ [Next]_vars => VerdictInv'
BY TypeNext, FreshNext, LiveStep, PaidStep, CancelStep DEF VerdictInv

\* The invariant holds in every reachable state.
LEMMA VerdictAlways == Spec => []VerdictInv
<1>1. Init => VerdictInv
  BY VerdictInit
<1>2. VerdictInv /\ [Next]_vars => VerdictInv'
  BY VerdictNext
<1>. QED
  BY <1>1, <1>2, PTL DEF Spec

\* A payment the client was told about (order.go:120-190) never loses its unit in
\* this run, whatever messages, retries, crashes, failed calls and expired keys come
\* after it.
THEOREM PaymentKeepsItsUnit == Spec => []PaidKeepsUnit
<1>1. VerdictInv => PaidKeepsUnit
  <2> SUFFICES ASSUME VerdictInv, NEW c \in payAck, CurrentRun(c) PROVE c \in held
    BY DEF PaidKeepsUnit
  <2>1. c \in Command /\ PaidMark(c)
    BY DEF TypeOK, VerdictInv, PaidMark
  <2>. QED
    BY <2>1 DEF VerdictInv, PaidIsSolid, Solid
<1>. QED
  BY <1>1, VerdictAlways, PTL

\* The ledger never contradicts the verdict of Redis: a paid row of this run has its
\* unit out, a cancelled one has given it back, in every interleaving of Pay,
\* GiveUp, TimeoutCancel, the consumer of CREATE_ORDER and a rollback.
THEOREM LedgerIsTrue == Spec => []LedgerFollowsVerdict
<1>1. VerdictInv => LedgerFollowsVerdict
  BY DEF VerdictInv, PaidIsSolid, CancelIsFree, LedgerFollowsVerdict, PaidMark, CancelMark, Solid
<1>. QED
  BY <1>1, VerdictAlways, PTL

\* While the admission key lives, a terminal row of the ledger and the state in
\* Redis are the same verdict (order.go:194-288 follows admission.go:99-152).
THEOREM LedgerAndRedisAgree == Spec => []LedgerMatchesAdmission
<1>1. VerdictInv => LedgerMatchesAdmission
  <2> SUFFICES ASSUME VerdictInv, NEW c \in Command, Matches(c), CurrentRun(c)
               PROVE  \A s \in {"paid", "cancelled"} : HasStatus(c, s) => adm[c.uid].state = s
    BY DEF LedgerMatchesAdmission
  <2>1. adm[c.uid].state \in Status
    BY DEF VerdictInv, TypeOK, Matches, Command, Admission
  <2>0. ~(HasStatus(c, "paid") /\ HasStatus(c, "cancelled"))
    BY DEF HasStatus
  <2>2. CASE HasStatus(c, "paid")
    <3>1. Solid(c)
      BY <2>2 DEF VerdictInv, PaidIsSolid, PaidMark
    <3>2. adm[c.uid].state # "cancelled"
      BY <3>1 DEF Solid, CancelMark, VerdictInv, CancelIsFree
    <3>. QED
      BY <2>1, <2>2, <3>1, <3>2, <2>0 DEF Solid, Releasable, InState, Status
  <2>3. CASE HasStatus(c, "cancelled")
    <3>1. c \notin held
      BY <2>3 DEF VerdictInv, CancelIsFree, CancelMark
    <3>. QED
      BY <2>1, <2>3, <3>1, <2>0 DEF VerdictInv, LiveIsHeld, LiveStates, InState, Status
  <2>. QED
    BY <2>2, <2>3
<1>. QED
  BY <1>1, VerdictAlways, PTL

-----------------------------------------------------------------------------
\* No script changes a paid or cancelled admission.
LEMMA AdmissionIsFinal ==
  ASSUME TypeOK, [Next]_vars, NEW u \in Users, adm[u] # None, adm[u].state \in {"paid", "cancelled"}
  PROVE  adm'[u] \in {adm[u], None}
<1>1. ASSUME NEW p \in Procs, NEW d \in Command, DrawAcquire(p), d = Cmd(p) PROVE adm'[u] = adm[u]
  BY <1>1 DEF DrawAcquire, Acquire, Acquirable, TypeOK
<1>2. ASSUME NEW d \in Command, NEW s \in Status, Matches(d), SetState(d, s),
             adm[d.uid].state \in {"stock_acquired", "pending_payment"} \/ adm[d.uid].state = s
      PROVE  adm'[u] = adm[u]
  <2>1. CASE d.uid = u
    BY <1>2, <2>1 DEF SetState, TypeOK, Admission
  <2>2. CASE d.uid # u
    BY <1>2, <2>2 DEF SetState, TypeOK
  <2>. QED
    BY <2>1, <2>2
<1>3. ASSUME NEW d \in Command, Releasable(d), Release(d) PROVE adm'[u] = adm[u]
  BY <1>2, <1>3 DEF Releasable, InState, Release, Status
<1>4. ASSUME NEW d \in Command, Markable(d), SetState(d, "pending_payment") PROVE adm'[u] = adm[u]
  BY <1>2, <1>4 DEF Markable, InState, Status
<1>5. ASSUME NEW d \in Command, Claimable(d), SetState(d, "paid") PROVE adm'[u] = adm[u]
  BY <1>2, <1>5 DEF Claimable, InState, Status
<1>. QED
  BY <1>1, <1>3, <1>4, <1>5, AdmissionStep DEF AdmissionMoves

\* The statements that write the ledger: an absent row is inserted, a pending one
\* gets its verdict, or the reset empties the table.
Statement(p, d) ==
  \/ pc[p] = "insert" /\ ledger[d.uid] = None /\ SetRow(d, "pending_payment")
  \/ pc[p] = "settle" /\ HasStatus(d, "pending_payment") /\ SetRow(d, "paid")
  \/ pc[p] = "rec_update" /\ HasStatus(d, "pending_payment") /\ SetRow(d, "cancelled")
  \/ pc[p] = "rec_insert" /\ ledger[d.uid] = None /\ SetRow(d, "cancelled")

LedgerMoves ==
  \/ UNCHANGED ledger
  \/ ResetOrders
  \/ \E p \in Procs, d \in Command : d = Cmd(p) /\ Statement(p, d) /\ UNCHANGED <<run, stock, adm>>

\* Every statement on the ledger is one of these.
LEMMA LedgerStep == ASSUME TypeOK, [Next]_vars PROVE LedgerMoves
<1>1. ASSUME NEW p \in Procs, RecUpdate(p) \/ RecInsert(p) \/ Settle(p) \/ InsertPending(p)
      PROVE  LedgerMoves
  <2>1. PICK d \in Command : d = Cmd(p)
    BY <1>1, TaskType DEF RecUpdate, RecInsert, Settle, InsertPending, At
  <2>. QED
    BY <1>1, <2>1 DEF RecUpdate, RecInsert, Settle, InsertPending, At, LedgerMoves, Statement, redis
<1>2. ASSUME NEW p \in Procs,
             \/ DrawAcquire(p) \/ DrawRefused(p) \/ DrawSendTimeout(p) \/ DrawSendCreate(p)
             \/ DrawRollback(p) \/ RecFind(p) \/ MarkPending(p) \/ Reread(p) \/ Claim(p)
             \/ CancelFind(p) \/ CancelRelease(p) \/ CancelVerify(p) \/ CallFails(p)
      PROVE  UNCHANGED ledger
  BY <1>2 DEF DrawAcquire, DrawRefused, DrawSendTimeout, DrawSendCreate, DrawRollback, RecFind,
              MarkPending, Reread, Claim, CancelFind, CancelRelease, CancelVerify, CallFails
<1>3. ASSUME \/ \E p \in Handlers : Request(p)
             \/ \E p \in Consumers, c \in Command : Deliver(p, c)
      PROVE  UNCHANGED ledger
  BY <1>3 DEF Request, DrawBegin, PayRepeated, PayBegin, GiveUpBegin,
              Deliver, CreateIgnored, CreateBegin, TimeoutIgnored, TimeoutBegin
<1>4. ASSUME ResetRotate \/ ResetDropStock \/ ResetDropAdmissions \/ ResetInventory \/ ResetFails
      PROVE  UNCHANGED ledger
  BY <1>4 DEF ResetRotate, ResetDropStock, ResetDropAdmissions, ResetInventory, ResetFails
<1>5. ASSUME Crash \/ (\E v \in Users : DeadlinePasses(v) \/ KeyExpires(v)) \/ UNCHANGED vars
      PROVE  UNCHANGED ledger
  BY <1>5 DEF Crash, DeadlinePasses, KeyExpires, vars
<1>. QED
  BY <1>1, <1>2, <1>3, <1>4, <1>5 DEF Next, Step, Reset, LedgerMoves

\* No statement overwrites a paid or cancelled row.
LEMMA RowIsFinal ==
  ASSUME TypeOK, [Next]_vars, NEW u \in Users, ledger[u] # None, ledger[u].status \in {"paid", "cancelled"}
  PROVE  ledger'[u] \in {ledger[u], None}
<1>1. ASSUME NEW d \in Command, NEW s, SetRow(d, s), ledger[d.uid] = None \/ HasStatus(d, "pending_payment")
      PROVE  ledger'[u] = ledger[u]
  BY <1>1 DEF SetRow, HasStatus, RowOf, TypeOK, Command
<1>2. CASE ResetOrders
  BY <1>2 DEF ResetOrders
<1>. QED
  BY <1>1, <1>2, LedgerStep DEF LedgerMoves, Statement

\* Verdicts are final in both stores: a paid or cancelled admission, and a paid or
\* cancelled row, stay as they are until a reset or the TTL removes them.
THEOREM VerdictsStayFinal == Spec => VerdictsAreFinal
<1> DEFINE Final == \A u \in Users :
       /\ adm[u] # None /\ adm[u].state \in {"paid", "cancelled"}
            => adm'[u] \in {adm[u], None}
       /\ ledger[u] # None /\ ledger[u].status \in {"paid", "cancelled"}
            => ledger'[u] \in {ledger[u], None}
<1>1. TypeOK /\ [Next]_vars => [Final]_vars
  BY AdmissionIsFinal, RowIsFinal
<1>. QED
  BY <1>1, TypeCorrect, PTL DEF Spec, VerdictsAreFinal

-----------------------------------------------------------------------------
(* The messages of an order that is not settled *)

Timeout(c) == [kind |-> "timeout", cmd |-> c]
Create(c)  == [kind |-> "create", cmd |-> c]

\* Which operation a process can be in, by its next call.
Work ==
  \A p \in Procs : /\ pc[p] \in {"acquire", "send_timeout", "send_create", "rollback"} => task[p].op = "draw"
                   /\ pc[p] \in {"insert", "mark", "reread"} => task[p].op = "create"
                   /\ pc[p] \in {"find", "release", "verify"} => task[p].op # "create"

\* An order shown to its client has the messages that will settle it, and one on
\* its way to the client already has its timeout message.
Courier ==
  /\ \A c \in shown : /\ Markable(c) => Create(c) \in msgs
                      /\ Releasable(c) => Timeout(c) \in msgs
  /\ \A p \in Procs : pc[p] = "send_create" /\ Releasable(Cmd(p)) => Timeout(Cmd(p)) \in msgs

\* An operation goes only through the calls of its own handler.
LEMMA WorkStep == ASSUME TypeOK, Work, [Next]_vars PROVE Work'
<1> USE DEF Work, TypeOK, Procs
<1>1. ASSUME NEW p \in Handlers, Request(p) PROVE Work'
  BY <1>1 DEF Request, DrawBegin, PayRepeated, PayBegin, GiveUpBegin, Begin, redis, history
<1>2. ASSUME NEW p \in Consumers, NEW c \in Command, Deliver(p, c) PROVE Work'
  BY <1>2 DEF Deliver, CreateIgnored, CreateBegin, TimeoutIgnored, TimeoutBegin, Begin, redis, history
<1>3. ASSUME NEW p \in Procs, DrawAcquire(p) PROVE Work'
  BY <1>3 DEF DrawAcquire, Goto, Leave, At
<1>4. ASSUME NEW p \in Procs, DrawRefused(p) PROVE Work'
  <2>1. CASE Return(p, FALSE)
    BY <2>1 DEF Return, Leave
  <2>2. ASSUME NEW g \in Gifts, task' = [task EXCEPT ![p].cmd.gift = g], UNCHANGED pc PROVE Work'
    <3>1. task'[p].op = task[p].op
      BY <1>4, <2>2, TaskType DEF DrawRefused, At, Task
    <3>. QED
      BY <2>2, <3>1
  <2>. QED
    BY <1>4, <2>1, <2>2 DEF DrawRefused
<1>5. ASSUME NEW p \in Procs, DrawSendTimeout(p) \/ DrawSendCreate(p) PROVE Work'
  BY <1>5 DEF DrawSendTimeout, DrawSendCreate, SendFails, Leave, At
<1>6. ASSUME NEW p \in Procs, DrawRollback(p) PROVE Work'
  BY <1>6 DEF DrawRollback, Return, Leave, Goto, At
<1>7. ASSUME NEW p \in Procs, RecUpdate(p) \/ RecFind(p) \/ RecInsert(p) PROVE Work'
  BY <1>7 DEF RecUpdate, RecFind, RecInsert, Return, Leave, Goto, At
<1>8. ASSUME NEW p \in Procs, Settle(p) PROVE Work'
  BY <1>8 DEF Settle, Return, Leave, At
<1>9. ASSUME NEW p \in Procs, InsertPending(p) PROVE Work'
  BY <1>9 DEF InsertPending, Return, Leave, Goto, At
<1>10. ASSUME NEW p \in Procs, MarkPending(p) \/ Reread(p) PROVE Work'
  BY <1>10 DEF MarkPending, Reread, Return, Leave, Goto, At
<1>11. ASSUME NEW p \in Procs, Claim(p) PROVE Work'
  BY <1>11 DEF Claim, Return, Leave, Goto, At
<1>12. ASSUME NEW p \in Procs, CancelFind(p) PROVE Work'
  <2>1. task'[p].op = task[p].op
    BY <1>12, TaskType DEF CancelFind, At, Task
  <2>. QED
    BY <1>12, <2>1 DEF CancelFind, At
<1>13. ASSUME NEW p \in Procs, CancelRelease(p) PROVE Work'
  BY <1>13 DEF CancelRelease, Goto, At
<1>14. ASSUME NEW p \in Procs, CancelVerify(p) PROVE Work'
  BY <1>14 DEF CancelVerify, Return, Leave, Goto, At
<1>15. ASSUME NEW p \in Procs, CallFails(p) PROVE Work'
  BY <1>15 DEF CallFails, Leave
<1>16. ASSUME Reset PROVE Work'
  BY <1>16 DEF Reset, ResetRotate, ResetOrders, ResetDropStock, ResetDropAdmissions, ResetInventory, ResetFails
<1>17. ASSUME Crash PROVE Work'
  BY <1>17 DEF Crash
<1>18. ASSUME (\E u \in Users : DeadlinePasses(u) \/ KeyExpires(u)) \/ UNCHANGED vars PROVE Work'
  BY <1>18 DEF DeadlinePasses, KeyExpires, vars
<1>. QED
  BY <1>1, <1>2, <1>3, <1>4, <1>5, <1>6, <1>7, <1>8, <1>9, <1>10, <1>11, <1>12, <1>13, <1>14, <1>15, <1>16, <1>17, <1>18 DEF Next, Step

\* Only the message of the task is acknowledged, and only after a success.
LEMMA ReturnLoses ==
  ASSUME NEW p \in Procs, NEW ok \in BOOLEAN, Return(p, ok), NEW m \in msgs, m \notin msgs'
  PROVE  ok /\ m.kind = task[p].op /\ m.cmd = Cmd(p)
BY DEF Return, Cmd

\* A command that a process is about to cancel, or to settle as paid, is no
\* longer open.
LEMMA MarkedIsClosed ==
  ASSUME VerdictInv, NEW c \in Command, PaidMark(c) \/ CancelMark(c)
  PROVE  ~Releasable(c)
<1>1. CASE PaidMark(c)
  BY <1>1 DEF VerdictInv, PaidIsSolid, Solid, Releasable, InState
<1>2. CASE CancelMark(c)
  BY <1>2 DEF VerdictInv, CancelIsFree, LiveIsHeld, LiveStates, Releasable, InState
<1>. QED
  BY <1>1, <1>2

\* Scripts aside, an order is as open after the step as before it.
LEMMA SameOpen == ASSUME UNCHANGED <<run, adm>>, NEW c
                  PROVE  (Markable(c)' <=> Markable(c)) /\ (Releasable(c)' <=> Releasable(c))
BY DEF Markable, Releasable, InState, Matches, CurrentRun

\* What an acknowledged message leaves behind: the order needs it no more.
Spare(m) == /\ m.kind = "create" => ~Markable(m.cmd)
            /\ m.kind = "timeout" => ~Releasable(m.cmd)

\* An order waiting for its row is open.
LEMMA OpenIsMore == ASSUME NEW c, Markable(c) PROVE Releasable(c)
BY DEF Markable, Releasable, InState

\* A message is acknowledged only when its order needs it no more
\* (order.go:93-155, 194-288).
LEMMA Acknowledged ==
  ASSUME VerdictInv, Work, [Next]_vars, NEW m \in msgs, m \notin msgs'
  PROVE  Spare(m)'
<1> USE DEF redis, history
<1>0. TypeOK /\ m \in Message /\ m.cmd \in Command
  BY DEF VerdictInv, TypeOK, Message
<1>00. ASSUME UNCHANGED <<run, adm>>, ~Releasable(m.cmd) PROVE Spare(m)'
  BY <1>00, SameOpen, OpenIsMore DEF Spare
<1>1. ASSUME NEW p \in Handlers, Request(p) PROVE FALSE
  BY <1>1 DEF Request, DrawBegin, PayRepeated, PayBegin, GiveUpBegin, Begin, Goto
<1>2. ASSUME NEW p \in Consumers, NEW c \in Command, Deliver(p, c) PROVE Spare(m)'
  <2>1. CASE CreateIgnored(p, c) \/ TimeoutIgnored(p, c)
    <3>1. m.cmd = c /\ ~(Matches(c) /\ CurrentRun(c)) /\ UNCHANGED <<run, adm>>
      BY <2>1 DEF CreateIgnored, TimeoutIgnored
    <3>. QED
      BY <3>1, <1>00 DEF Releasable, InState
  <2>2. CASE CreateBegin(p, c) \/ TimeoutBegin(p, c)
    BY <2>2 DEF CreateBegin, TimeoutBegin
  <2>. QED
    BY <1>2, <2>1, <2>2 DEF Deliver
<1>3. ASSUME NEW p \in Procs, DrawAcquire(p) \/ DrawSendTimeout(p) \/ DrawSendCreate(p) PROVE FALSE
  BY <1>3 DEF DrawAcquire, Goto, DrawSendTimeout, DrawSendCreate, SendFails, Sent
<1>4. ASSUME NEW p \in Procs, DrawRefused(p) \/ DrawRollback(p) PROVE FALSE
  <2>1. Return(p, FALSE)
    BY <1>4 DEF DrawRefused, DrawRollback, Goto
  <2>. QED
    BY <2>1, ReturnLoses
<1>5. ASSUME NEW p \in Procs, RecUpdate(p) \/ RecFind(p) \/ RecInsert(p) PROVE Spare(m)'
  <2>1. \E ok \in BOOLEAN : Return(p, ok)
    BY <1>5 DEF RecUpdate, RecFind, RecInsert, Goto
  <2>2. m.cmd = Cmd(p)
    BY <2>1, ReturnLoses
  <2>3. CancelMark(m.cmd) /\ UNCHANGED <<run, adm>>
    BY <1>5, <2>2 DEF CancelMark, Cmd, RecUpdate, RecFind, RecInsert, At
  <2>. QED
    BY <1>0, <1>00, <2>3, MarkedIsClosed
<1>6. ASSUME NEW p \in Procs, Settle(p) PROVE Spare(m)'
  <2>1. \E ok \in BOOLEAN : Return(p, ok)
    BY <1>6 DEF Settle
  <2>2. m.cmd = Cmd(p)
    BY <2>1, ReturnLoses
  <2>3. PaidMark(m.cmd) /\ UNCHANGED <<run, adm>>
    BY <1>6, <2>2 DEF PaidMark, Cmd, Settle, At
  <2>. QED
    BY <1>0, <1>00, <2>3, MarkedIsClosed
<1>7. ASSUME NEW p \in Procs, InsertPending(p) PROVE Spare(m)'
  <2>1. ~HasStatus(Cmd(p), "pending_payment") /\ Return(p, RowOf(Cmd(p)) # None) /\ UNCHANGED <<run, adm>>
    BY <1>7 DEF InsertPending, Goto
  <2>2. m.cmd = Cmd(p) /\ RowOf(Cmd(p)) # None
    BY <2>1, ReturnLoses
  <2>3. RowOf(m.cmd) \in Row
    BY <1>0, <2>2 DEF TypeOK, RowOf, Command
  <2>4. HasStatus(m.cmd, "paid") \/ HasStatus(m.cmd, "cancelled")
    BY <2>1, <2>2, <2>3 DEF HasStatus, Row, Status
  <2>. QED
    BY <1>0, <1>00, <2>1, <2>4, MarkedIsClosed DEF PaidMark, CancelMark
<1>8. ASSUME NEW p \in Procs, MarkPending(p) PROVE Spare(m)'
  <2>1. Markable(Cmd(p)) /\ SetState(Cmd(p), "pending_payment") /\ Return(p, TRUE)
    BY <1>8 DEF MarkPending, Goto
  <2>2. m.cmd = Cmd(p) /\ m.kind = task[p].op
    BY <2>1, ReturnLoses
  <2>3. m.kind = "create"
    BY <1>8, <2>2 DEF Work, MarkPending, At
  <2>4. adm'[m.cmd.uid].state = "pending_payment"
    BY <1>0, <2>1, <2>2, SetStateAdm DEF Markable, InState, Status
  <2>. QED
    BY <2>3, <2>4 DEF Spare, Markable, InState
<1>9. ASSUME NEW p \in Procs, Reread(p) PROVE Spare(m)'
  <2>1. /\ Return(p, Matches(Cmd(p)) /\ adm[Cmd(p).uid].state = "pending_payment")
        /\ UNCHANGED <<run, adm>>
    BY <1>9 DEF Reread, Goto
  <2>2. m.cmd = Cmd(p) /\ m.kind = task[p].op /\ adm[m.cmd.uid].state = "pending_payment"
    BY <2>1, ReturnLoses
  <2>3. m.kind = "create"
    BY <1>9, <2>2 DEF Work, Reread, At
  <2>. QED
    BY <2>1, <2>2, <2>3 DEF Spare, Markable, InState
<1>10. ASSUME NEW p \in Procs, Claim(p) PROVE FALSE
  <2>1. Return(p, FALSE)
    BY <1>10 DEF Claim, Goto
  <2>. QED
    BY <2>1, ReturnLoses
<1>11. ASSUME NEW p \in Procs, CancelFind(p) \/ CancelRelease(p) \/ CallFails(p) PROVE FALSE
  BY <1>11 DEF CancelFind, CancelRelease, CallFails, Goto
<1>12. ASSUME NEW p \in Procs, CancelVerify(p) PROVE Spare(m)'
  <2>1. Return(p, Verdict(p) \in {"paid", "cancelled", "none"}) /\ UNCHANGED <<run, adm>>
    BY <1>12 DEF CancelVerify, Goto
  <2>2. m.cmd = Cmd(p) /\ Verdict(p) \in {"paid", "cancelled", "none"}
    <3>. DEFINE ok == Verdict(p) \in {"paid", "cancelled", "none"}
    <3>1. ok \in BOOLEAN /\ Return(p, ok)
      BY <2>1
    <3>. QED
      BY <3>1, ReturnLoses
  <2>. QED
    BY <1>00, <2>1, <2>2 DEF Verdict, Releasable, InState
<1>13. ASSUME Reset \/ Crash \/ (\E u \in Users : DeadlinePasses(u) \/ KeyExpires(u)) \/ UNCHANGED vars PROVE FALSE
  BY <1>13 DEF Reset, ResetRotate, ResetOrders, ResetDropStock, ResetDropAdmissions, ResetInventory, ResetFails,
               Crash, DeadlinePasses, KeyExpires, vars
<1>. QED
  BY <1>1, <1>2, <1>3, <1>4, <1>5, <1>6, <1>7, <1>8, <1>9, <1>10, <1>11, <1>12, <1>13 DEF Next, Step

\* No step opens an order that is known: the script grants new ids only.
LEMMA OpenStep ==
  ASSUME TypeOK, Fresh, [Next]_vars, NEW c \in Command, Known(c)
  PROVE  (Markable(c)' => Markable(c)) /\ (Releasable(c)' => Releasable(c))
<1> DEFINE Opens == ~((Markable(c)' => Markable(c)) /\ (Releasable(c)' => Releasable(c)))
<1>1. CASE UNCHANGED <<run, adm, held>>
  BY <1>1, SameOpen
<1>2. ASSUME NEW p \in Procs, NEW d \in Command, DrawAcquire(p), d = Cmd(p) PROVE ~Opens
  <2>1. c # d
    BY <1>2, AcquireEffect DEF Fresh, Cmd
  <2>. QED
    BY <1>2, <2>1, AcquireEffect DEF Markable, Releasable, InState, CurrentRun
<1>3. ASSUME NEW d \in Command, Releasable(d), Release(d) PROVE ~Opens
  BY <1>3, ReleaseEffect DEF Markable, Releasable, InState, CurrentRun
<1>4. ASSUME NEW d \in Command, Markable(d), SetState(d, "pending_payment"), UNCHANGED <<run, held>> PROVE ~Opens
  BY <1>4, SetStateAdm DEF Markable, Releasable, InState, CurrentRun, Status
<1>5. ASSUME NEW d \in Command, Claimable(d), SetState(d, "paid"), UNCHANGED <<run, held>> PROVE ~Opens
  BY <1>5, SetStateAdm DEF Markable, Releasable, Claimable, InState, CurrentRun, Status
<1>6. CASE (\A u \in Users : adm'[u] \in {adm[u], None}) /\ UNCHANGED <<run, held>>
  BY <1>6 DEF Markable, Releasable, InState, CurrentRun, Matches, Command
<1>7. CASE run' = run + 1 /\ held' = {} /\ UNCHANGED adm
  <2>1. c.id.run <= run
    BY DEF Fresh
  <2>2. c.id.run # run'
    BY <1>7, <2>1, BoundsAssumption DEF TypeOK
  <2>. QED
    BY <2>2 DEF Markable, Releasable, InState, CurrentRun
<1>. QED
  BY <1>1, <1>2, <1>3, <1>4, <1>5, <1>6, <1>7, AdmissionStep DEF AdmissionMoves

\* Draw sends the timeout message first, and shows the order after both.
Sends ==
  /\ \A c \in shown' \ shown : Create(c) \in msgs' /\ \E p \in Procs : pc[p] = "send_create" /\ Cmd(p) = c
  /\ \A p \in Procs : pc'[p] = "send_create" =>
       \/ pc[p] = "send_create" /\ task'[p] = task[p]
       \/ Timeout(Cmd(p))' \in msgs'

\* No other step shows an order or comes to the second send.
LEMMA SendStep == ASSUME TypeOK, [Next]_vars PROVE Sends
<1> USE DEF Sends, TypeOK, redis, history
<1>1. ASSUME NEW p \in Handlers, Request(p) PROVE Sends
  BY <1>1 DEF Request, DrawBegin, PayRepeated, PayBegin, GiveUpBegin, Begin, Procs
<1>2. ASSUME NEW p \in Consumers, NEW c \in Command, Deliver(p, c) PROVE Sends
  BY <1>2 DEF Deliver, CreateIgnored, CreateBegin, TimeoutIgnored, TimeoutBegin, Begin, Procs
<1>3. ASSUME NEW p \in Procs, DrawAcquire(p) \/ DrawRefused(p) PROVE Sends
  BY <1>3 DEF DrawAcquire, DrawRefused, Return, Goto, Leave, At
<1>4. ASSUME NEW p \in Procs, DrawSendTimeout(p) PROVE Sends
  BY <1>4 DEF DrawSendTimeout, SendFails, Sent, Timeout, Cmd, At
<1>5. ASSUME NEW p \in Procs, DrawSendCreate(p) PROVE Sends
  BY <1>5 DEF DrawSendCreate, SendFails, Sent, Create, Leave, At
<1>6. ASSUME NEW p \in Procs, DrawRollback(p) PROVE Sends
  BY <1>6 DEF DrawRollback, Return, Goto, Leave
<1>7. ASSUME NEW p \in Procs, RecUpdate(p) \/ RecFind(p) \/ RecInsert(p) PROVE Sends
  BY <1>7 DEF RecUpdate, RecFind, RecInsert, Return, Goto, Leave
<1>8. ASSUME NEW p \in Procs, Settle(p) \/ Claim(p) PROVE Sends
  BY <1>8 DEF Settle, Claim, Return, Goto, Leave
<1>9. ASSUME NEW p \in Procs, InsertPending(p) PROVE Sends
  BY <1>9 DEF InsertPending, Return, Goto, Leave
<1>10. ASSUME NEW p \in Procs, MarkPending(p) \/ Reread(p) PROVE Sends
  BY <1>10 DEF MarkPending, Reread, Return, Goto, Leave
<1>11. ASSUME NEW p \in Procs, CancelFind(p) \/ CancelRelease(p) \/ CancelVerify(p) PROVE Sends
  BY <1>11 DEF CancelFind, CancelRelease, CancelVerify, Return, Goto, Leave, At
<1>12. ASSUME NEW p \in Procs, CallFails(p) PROVE Sends
  BY <1>12 DEF CallFails, Leave
<1>13. ASSUME Reset PROVE Sends
  BY <1>13 DEF Reset, ResetRotate, ResetOrders, ResetDropStock, ResetDropAdmissions, ResetInventory, ResetFails
<1>14. ASSUME Crash \/ (\E u \in Users : DeadlinePasses(u) \/ KeyExpires(u)) \/ UNCHANGED vars PROVE Sends
  BY <1>14 DEF Crash, DeadlinePasses, KeyExpires, vars
<1>. QED
  BY <1>1, <1>2, <1>3, <1>4, <1>5, <1>6, <1>7, <1>8, <1>9, <1>10, <1>11, <1>12, <1>13, <1>14 DEF Next, Step

\* A message an order still needs after the step was not acknowledged by it.
LEMMA StillThere ==
  ASSUME VerdictInv, Work, [Next]_vars, NEW c \in Command
  PROVE  /\ Markable(c)' /\ Create(c) \in msgs => Create(c) \in msgs'
         /\ Releasable(c)' /\ Timeout(c) \in msgs => Timeout(c) \in msgs'
<1>1. ASSUME Markable(c)', Create(c) \in msgs, Create(c) \notin msgs' PROVE FALSE
  <2>1. Spare(Create(c))'
    BY <1>1, Acknowledged
  <2>. QED
    BY <1>1, <2>1 DEF Spare, Create
<1>2. ASSUME Releasable(c)', Timeout(c) \in msgs, Timeout(c) \notin msgs' PROVE FALSE
  <2>1. Spare(Timeout(c))'
    BY <1>2, Acknowledged
  <2>. QED
    BY <1>2, <2>1 DEF Spare, Timeout
<1>. QED
  BY <1>1, <1>2

\* The inductive invariant of the messages.
CourierInv == VerdictInv /\ Work /\ Courier

\* Nothing is shown and nothing is under way at the first start.
LEMMA CourierInit == Init => CourierInv
BY VerdictInit, NoneAssumption DEF CourierInv, Work, Courier, Init

\* Every step keeps the messages with their orders.
LEMMA CourierNext == CourierInv /\ [Next]_vars => CourierInv'
<1> SUFFICES ASSUME CourierInv, [Next]_vars PROVE CourierInv'
  OBVIOUS
<1> USE DEF CourierInv
<1>0. TypeOK /\ Fresh /\ TypeOK' /\ Sends
  BY TypeNext, SendStep DEF VerdictInv
<1>1. ASSUME NEW p \in Procs, pc[p] = "send_create" PROVE Cmd(p) \in Command /\ Known(Cmd(p))
  BY <1>0, <1>1, TaskType DEF Known, InHand, Cmd
<1>2. ASSUME NEW c \in shown' PROVE (Markable(c)' => Create(c) \in msgs') /\ (Releasable(c)' => Timeout(c) \in msgs')
  <2>1. CASE c \in shown
    <3>1. c \in Command /\ Known(c)
      BY <1>0, <2>1 DEF TypeOK, Known
    <3>. QED
      BY <1>0, <2>1, <3>1, OpenStep, StillThere DEF Courier
  <2>2. CASE c \notin shown
    <3>1. PICK p \in Procs : pc[p] = "send_create" /\ Cmd(p) = c
      BY <1>0, <1>2, <2>2 DEF Sends
    <3>2. Create(c) \in msgs'
      BY <1>0, <1>2, <2>2 DEF Sends
    <3>3. c \in Command /\ Known(c) /\ (Releasable(c) => Timeout(c) \in msgs)
      BY <1>1, <3>1 DEF Courier
    <3>. QED
      BY <1>0, <3>2, <3>3, OpenStep, StillThere
  <2>. QED
    BY <2>1, <2>2
<1>3. ASSUME NEW p \in Procs, pc'[p] = "send_create", Releasable(Cmd(p))' PROVE Timeout(Cmd(p))' \in msgs'
  <2>1. CASE pc[p] = "send_create" /\ task'[p] = task[p]
    <3>. DEFINE c == Cmd(p)
    <3>1. c \in Command /\ Known(c) /\ (Releasable(c) => Timeout(c) \in msgs)
      BY <1>1, <2>1 DEF Courier
    <3>2. Cmd(p)' = c
      BY <2>1 DEF Cmd
    <3>. QED
      BY <1>0, <1>3, <3>1, <3>2, OpenStep, StillThere
  <2>. QED
    BY <1>0, <1>3, <2>1 DEF Sends
<1>4. Courier'
  BY <1>2, <1>3 DEF Courier
<1>. QED
  BY <1>0, <1>4, VerdictNext, WorkStep

\* An order shown to its client that Redis has not settled still has the messages
\* that will settle it (lottery.go:251-258 sends both before it answers;
\* order_consumer.go:86-94 acknowledges only a success), for any number of handlers,
\* consumers, crashes, failed sends and lost acknowledgements.
THEOREM UnsettledOrdersHaveMessages == Spec => []PendingOrderHasItsMessages
<1>1. CourierInv => PendingOrderHasItsMessages
  BY DEF CourierInv, Courier, PendingOrderHasItsMessages, Markable, Releasable, Create, Timeout
<1>2. Init => CourierInv
  BY CourierInit
<1>3. CourierInv /\ [Next]_vars => CourierInv'
  BY CourierNext
<1>. QED
  BY <1>1, <1>2, <1>3, PTL DEF Spec
-----------------------------------------------------------------------------
(* The cancellation that the ledger does not know yet *)

\* An application runs one loop that handles one order message after the other
\* (app.go:73-78, order_consumer.go:48-111).
OneConsumer == \A p, q \in Consumers : p = q

MessageOp == {"create", "timeout"}

\* The message being handled is there until its handler returns.
Delivered ==
  \A p \in Procs : pc[p] # "idle" /\ task[p].op \in MessageOp =>
    p \in Consumers /\ [kind |-> task[p].op, cmd |-> Cmd(p)] \in msgs

\* The consumer that found no pending row to cancel finds none afterwards.
Recorded ==
  \A p \in Procs : pc[p] = "rec_find" /\ task[p].op \in MessageOp =>
    ~HasStatus(Cmd(p), "pending_payment")

\* An open order the ledger knows, or will know, has its timeout message.
Timed == \A c \in Command : Releasable(c) /\ (HasRow(c) \/ Create(c) \in msgs) => Timeout(c) \in msgs

\* A row that missed its cancellation.
Missed(c) == InState(c, {"cancelled"}) /\ HasStatus(c, "pending_payment")

Carried == \A c \in Command : Missed(c) => Create(c) \in msgs \/ Timeout(c) \in msgs

CarryInv == CourierInv /\ Delivered /\ Recorded /\ Timed /\ Carried

\* With one consumer the message of a handler is acknowledged by that handler.
LEMMA DeliveredMoves ==
  ASSUME OneConsumer, TypeOK, Delivered, NEW p \in Procs, pc[p] # "idle", Moves(p)
  PROVE  Delivered'
<1> USE DEF Delivered, TypeOK, Cmd
<1> SUFFICES ASSUME NEW q \in Procs, pc'[q] # "idle", task'[q].op \in MessageOp
             PROVE  q \in Consumers /\ [kind |-> task'[q].op, cmd |-> task'[q].cmd] \in msgs'
  OBVIOUS
<1>1. CASE pc[p] # "acquire" /\ \E label \in PC \ {"idle", "acquire"} : Goto(p, label)
  BY <1>1 DEF Goto
<1>2. ASSUME NEW ok \in BOOLEAN, Return(p, ok) PROVE q \in Consumers /\ [kind |-> task'[q].op, cmd |-> task'[q].cmd] \in msgs'
  <2>1. q # p /\ pc[q] # "idle" /\ task'[q] = task[q]
    BY <1>2 DEF Return, Leave
  <2>2. q \in Consumers /\ [kind |-> task[q].op, cmd |-> task[q].cmd] \in msgs
    BY <2>1
  <2>3. ASSUME [kind |-> task[q].op, cmd |-> task[q].cmd] \notin msgs' PROVE FALSE
    <3>1. task[p].op = task[q].op
      BY <1>2, <2>2, <2>3, ReturnLoses
    <3>2. p \in Consumers
      BY <2>1, <3>1
    <3>. QED
      BY <2>1, <2>2, <3>2 DEF OneConsumer
  <2>. QED
    BY <2>1, <2>2, <2>3
<1>. QED
  BY <1>1, <1>2 DEF Moves

\* The message being handled is there until its handler returns.
LEMMA DeliveredStep == ASSUME OneConsumer, TypeOK, Work, Delivered, [Next]_vars PROVE Delivered'
<1> USE DEF Delivered, TypeOK, MessageOp, Cmd, redis, history
<1>1. ASSUME NEW p \in Handlers, Request(p) PROVE Delivered'
  BY <1>1 DEF Request, DrawBegin, PayRepeated, PayBegin, GiveUpBegin, Begin, Procs
<1>2. ASSUME NEW p \in Consumers, NEW c \in Command, Deliver(p, c) PROVE Delivered'
  <2>1. CASE CreateIgnored(p, c) \/ TimeoutIgnored(p, c)
    BY <2>1 DEF CreateIgnored, TimeoutIgnored, OneConsumer
  <2>2. ASSUME NEW k \in {"create", "timeout"}, NEW seen, NEW label, [kind |-> k, cmd |-> c] \in msgs,
               Begin(p, k, c, seen, label), UNCHANGED msgs
        PROVE  Delivered'
    <3>1. task'[p].op = k /\ task'[p].cmd = c /\ p \in Procs
      BY <2>2 DEF Begin, Procs
    <3>. QED
      BY <2>2, <3>1 DEF Begin
  <2>3. CASE CreateBegin(p, c)
    BY <2>2, <2>3 DEF CreateBegin
  <2>4. CASE TimeoutBegin(p, c)
    BY <2>2, <2>4 DEF TimeoutBegin
  <2>. QED
    BY <1>2, <2>1, <2>3, <2>4 DEF Deliver
<1>3. ASSUME NEW p \in Procs, DrawAcquire(p) PROVE Delivered'
  BY <1>3 DEF DrawAcquire, Goto, Leave, At
<1>4. ASSUME NEW p \in Procs, DrawRefused(p) PROVE Delivered'
  <2>1. CASE Return(p, FALSE)
    BY <1>4, <2>1, DeliveredMoves DEF DrawRefused, At, Moves
  <2>2. ASSUME NEW g \in Gifts, task' = [task EXCEPT ![p].cmd.gift = g], UNCHANGED <<pc, msgs>> PROVE Delivered'
    <3>1. task'[p].op = "draw"
      BY <1>4, <2>2, TaskType DEF DrawRefused, At, Task, Work
    <3>. QED
      BY <2>2, <3>1
  <2>. QED
    BY <1>4, <2>1, <2>2 DEF DrawRefused
<1>5. ASSUME NEW p \in Procs, DrawSendTimeout(p) \/ DrawSendCreate(p) PROVE Delivered'
  BY <1>5 DEF DrawSendTimeout, DrawSendCreate, SendFails, Sent, Leave, At
<1>6. ASSUME NEW p \in Procs, OrdinaryActions(p) PROVE Delivered'
  BY <1>6, OrdinaryStep, DeliveredMoves DEF OrdinaryActions, Ordinary
<1>7. ASSUME NEW p \in Procs, CancelFind(p) PROVE Delivered'
  <2>1. task'[p].op = task[p].op /\ task'[p].cmd = task[p].cmd
    BY <1>7, TaskType DEF CancelFind, At, Task
  <2>. QED
    BY <1>7, <2>1 DEF CancelFind, At
<1>8. ASSUME NEW p \in Procs, CallFails(p) PROVE Delivered'
  BY <1>8 DEF CallFails, Leave
<1>9. ASSUME Reset PROVE Delivered'
  BY <1>9 DEF Reset, ResetRotate, ResetOrders, ResetDropStock, ResetDropAdmissions, ResetInventory, ResetFails
<1>10. ASSUME Crash \/ (\E u \in Users : DeadlinePasses(u) \/ KeyExpires(u)) \/ UNCHANGED vars PROVE Delivered'
  BY <1>10 DEF Crash, DeadlinePasses, KeyExpires, vars
<1>. QED
  BY <1>1, <1>2, <1>3, <1>4, <1>5, <1>6, <1>7, <1>8, <1>9, <1>10 DEF Next, Step, OrdinaryActions

\* Only the insert of a handler of CREATE_ORDER makes a row pending.
LEMMA PendingRowStep ==
  ASSUME TypeOK, [Next]_vars, NEW c \in Command, HasStatus(c, "pending_payment")', ~HasStatus(c, "pending_payment")
  PROVE  \E p \in Procs : pc[p] = "insert" /\ Cmd(p) = c
<1>1. CASE UNCHANGED ledger
  BY <1>1, SameStatus
<1>2. ASSUME NEW p \in Procs, NEW d \in Command, d = Cmd(p), Statement(p, d) PROVE pc[p] = "insert" /\ d = c
  BY <1>2, SetRowStatus DEF Statement
<1>3. CASE ResetOrders
  BY <1>3 DEF ResetOrders, HasStatus, RowOf, Command
<1>. QED
  BY <1>1, <1>2, <1>3, LedgerStep DEF LedgerMoves

\* A process comes to the search for the row from the update that found none pending.
LEMMA FindStep ==
  ASSUME TypeOK, [Next]_vars, NEW q \in Procs, pc'[q] = "rec_find"
  PROVE  \/ pc[q] = "rec_find" /\ task'[q] = task[q]
         \/ /\ pc[q] = "rec_update" /\ task'[q] = task[q]
            /\ UNCHANGED ledger /\ ~HasStatus(Cmd(q), "pending_payment")
<1> DEFINE Goal == \/ pc[q] = "rec_find" /\ task'[q] = task[q]
                   \/ /\ pc[q] = "rec_update" /\ task'[q] = task[q]
                      /\ UNCHANGED ledger /\ ~HasStatus(Cmd(q), "pending_payment")
<1> USE DEF TypeOK, redis, history
<1>1. ASSUME NEW p \in Handlers, Request(p) PROVE Goal
  BY <1>1 DEF Request, DrawBegin, PayRepeated, PayBegin, GiveUpBegin, Begin, Procs
<1>2. ASSUME NEW p \in Consumers, NEW c \in Command, Deliver(p, c) PROVE Goal
  BY <1>2 DEF Deliver, CreateIgnored, CreateBegin, TimeoutIgnored, TimeoutBegin, Begin, Procs
<1>3. ASSUME NEW p \in Procs, DrawAcquire(p) \/ DrawRefused(p) PROVE Goal
  BY <1>3 DEF DrawAcquire, DrawRefused, Return, Goto, Leave, At
<1>4. ASSUME NEW p \in Procs, DrawSendTimeout(p) \/ DrawSendCreate(p) PROVE Goal
  BY <1>4 DEF DrawSendTimeout, DrawSendCreate, SendFails, Leave, At
<1>5. ASSUME NEW p \in Procs, DrawRollback(p) PROVE Goal
  BY <1>5 DEF DrawRollback, Return, Goto, Leave
<1>6. ASSUME NEW p \in Procs, RecUpdate(p) PROVE Goal
  BY <1>6 DEF RecUpdate, Return, Goto, Leave, At
<1>7. ASSUME NEW p \in Procs, RecFind(p) \/ RecInsert(p) PROVE Goal
  BY <1>7 DEF RecFind, RecInsert, Return, Goto, Leave
<1>8. ASSUME NEW p \in Procs, Settle(p) \/ Claim(p) PROVE Goal
  BY <1>8 DEF Settle, Claim, Return, Goto, Leave
<1>9. ASSUME NEW p \in Procs, InsertPending(p) PROVE Goal
  BY <1>9 DEF InsertPending, Return, Goto, Leave
<1>10. ASSUME NEW p \in Procs, MarkPending(p) \/ Reread(p) PROVE Goal
  BY <1>10 DEF MarkPending, Reread, Return, Goto, Leave
<1>11. ASSUME NEW p \in Procs, CancelFind(p) \/ CancelRelease(p) \/ CancelVerify(p) PROVE Goal
  BY <1>11 DEF CancelFind, CancelRelease, CancelVerify, Return, Goto, Leave, At
<1>12. ASSUME NEW p \in Procs, CallFails(p) PROVE Goal
  BY <1>12 DEF CallFails, Leave
<1>13. ASSUME Reset PROVE Goal
  BY <1>13 DEF Reset, ResetRotate, ResetOrders, ResetDropStock, ResetDropAdmissions, ResetInventory, ResetFails
<1>14. ASSUME Crash \/ (\E u \in Users : DeadlinePasses(u) \/ KeyExpires(u)) \/ UNCHANGED vars PROVE Goal
  BY <1>14 DEF Crash, DeadlinePasses, KeyExpires, vars
<1>. QED
  BY <1>1, <1>2, <1>3, <1>4, <1>5, <1>6, <1>7, <1>8, <1>9, <1>10, <1>11, <1>12, <1>13, <1>14 DEF Next, Step

\* With one consumer no row becomes pending behind the back of another handler.
LEMMA RecordedStep == ASSUME OneConsumer, TypeOK, Work, Delivered, Recorded, [Next]_vars PROVE Recorded'
<1> SUFFICES ASSUME NEW q \in Procs, pc'[q] = "rec_find", task'[q].op \in MessageOp
             PROVE  ~HasStatus(Cmd(q), "pending_payment")'
  BY DEF Recorded
<1>1. PICK c \in Command : c = Cmd(q) /\ pc[q] \in {"rec_find", "rec_update"} /\ task'[q] = task[q]
  BY FindStep, TaskType
<1>2. Cmd(q)' = c
  BY <1>1 DEF Cmd
<1>3. ASSUME HasStatus(c, "pending_payment")' PROVE FALSE
  <2>1. CASE HasStatus(c, "pending_payment")
    BY <1>1, <2>1, FindStep DEF Recorded
  <2>2. CASE ~HasStatus(c, "pending_payment")
    <3>1. PICK p \in Procs : pc[p] = "insert" /\ Cmd(p) = c
      BY <1>3, <2>2, PendingRowStep
    <3>2. p \in Consumers /\ q \in Consumers
      BY <1>1, <3>1 DEF Delivered, Work, MessageOp
    <3>. QED
      BY <1>1, <3>1, <3>2 DEF OneConsumer
  <2>. QED
    BY <2>1, <2>2
<1>. QED
  BY <1>2, <1>3 DEF HasStatus, RowOf

\* A message is acknowledged only when the ledger has not missed a cancellation
\* of its order.
LEMMA NothingMissed ==
  ASSUME VerdictInv, Work, Recorded, [Next]_vars, NEW m \in msgs, m \notin msgs'
  PROVE  ~Missed(m.cmd)'
<1> USE DEF redis, history
<1>0. TypeOK /\ m \in Message /\ m.cmd \in Command /\ m.kind \in MessageOp
  BY DEF VerdictInv, TypeOK, Message, MessageOp
<1>00. ASSUME UNCHANGED <<run, adm>>, ~InState(m.cmd, {"cancelled"}) PROVE ~Missed(m.cmd)'
  BY <1>00 DEF Missed, InState, Matches, CurrentRun
<1>1. ASSUME NEW p \in Handlers, Request(p) PROVE FALSE
  BY <1>1 DEF Request, DrawBegin, PayRepeated, PayBegin, GiveUpBegin, Begin, Goto
<1>2. ASSUME NEW p \in Consumers, NEW c \in Command, Deliver(p, c) PROVE ~Missed(m.cmd)'
  <2>1. CASE CreateIgnored(p, c) \/ TimeoutIgnored(p, c)
    <3>1. m.cmd = c /\ ~(Matches(c) /\ CurrentRun(c)) /\ UNCHANGED <<run, adm>>
      BY <2>1 DEF CreateIgnored, TimeoutIgnored
    <3>. QED
      BY <3>1, <1>00 DEF InState
  <2>2. CASE CreateBegin(p, c) \/ TimeoutBegin(p, c)
    BY <2>2 DEF CreateBegin, TimeoutBegin
  <2>. QED
    BY <1>2, <2>1, <2>2 DEF Deliver
<1>3. ASSUME NEW p \in Procs, DrawAcquire(p) \/ DrawSendTimeout(p) \/ DrawSendCreate(p) PROVE FALSE
  BY <1>3 DEF DrawAcquire, Goto, DrawSendTimeout, DrawSendCreate, SendFails, Sent
<1>4. ASSUME NEW p \in Procs, DrawRefused(p) \/ DrawRollback(p) PROVE FALSE
  <2>1. Return(p, FALSE)
    BY <1>4 DEF DrawRefused, DrawRollback, Goto
  <2>. QED
    BY <2>1, ReturnLoses
<1>5. ASSUME NEW p \in Procs, RecUpdate(p) \/ RecInsert(p) PROVE ~Missed(m.cmd)'
  <2>1. \E ok \in BOOLEAN : Return(p, ok)
    BY <1>5 DEF RecUpdate, RecInsert, Goto
  <2>2. m.cmd = Cmd(p)
    BY <2>1, ReturnLoses
  <2>3. SetRow(Cmd(p), "cancelled")
    <3>1. ~Return(p, FALSE)
      BY ReturnLoses
    <3>. QED
      BY <1>5, <3>1 DEF RecUpdate, RecInsert, Goto
  <2>4. ~HasStatus(m.cmd, "pending_payment")'
    BY <1>0, <2>2, <2>3, SetRowStatus
  <2>. QED
    BY <2>4 DEF Missed
<1>6. ASSUME NEW p \in Procs, RecFind(p) PROVE ~Missed(m.cmd)'
  <2>1. UNCHANGED ledger /\ \E ok \in BOOLEAN : Return(p, ok)
    BY <1>6 DEF RecFind, Goto
  <2>2. m.cmd = Cmd(p) /\ task[p].op \in MessageOp
    BY <1>0, <2>1, ReturnLoses
  <2>3. ~HasStatus(m.cmd, "pending_payment")
    BY <1>6, <2>2 DEF Recorded, RecFind, At
  <2>. QED
    BY <2>1, <2>3, SameStatus DEF Missed
<1>7. ASSUME NEW p \in Procs, Settle(p) PROVE ~Missed(m.cmd)'
  <2>1. \E ok \in BOOLEAN : Return(p, ok)
    BY <1>7 DEF Settle
  <2>2. m.cmd = Cmd(p)
    BY <2>1, ReturnLoses
  <2>3. PaidMark(m.cmd) /\ UNCHANGED <<run, adm>>
    BY <1>7, <2>2 DEF PaidMark, Cmd, Settle, At
  <2>4. ~InState(m.cmd, {"cancelled"})
    BY <1>0, <2>3 DEF VerdictInv, PaidIsSolid, Solid, CancelIsFree, CancelMark, InState
  <2>. QED
    BY <1>00, <2>3, <2>4
<1>8. ASSUME NEW p \in Procs, InsertPending(p) PROVE ~Missed(m.cmd)'
  <2>1. /\ ~HasStatus(Cmd(p), "pending_payment") /\ Return(p, RowOf(Cmd(p)) # None)
        /\ UNCHANGED ledger
    BY <1>8 DEF InsertPending, Goto
  <2>2. m.cmd = Cmd(p)
    BY <2>1, ReturnLoses
  <2>. QED
    BY <2>1, <2>2, SameStatus DEF Missed
<1>9. ASSUME NEW p \in Procs, MarkPending(p) PROVE ~Missed(m.cmd)'
  <2>1. Markable(Cmd(p)) /\ SetState(Cmd(p), "pending_payment") /\ Return(p, TRUE)
    BY <1>9 DEF MarkPending, Goto
  <2>2. m.cmd = Cmd(p)
    BY <2>1, ReturnLoses
  <2>3. adm'[m.cmd.uid].state = "pending_payment"
    BY <1>0, <2>1, <2>2, SetStateAdm DEF Markable, InState, Status
  <2>. QED
    BY <2>3 DEF Missed, InState
<1>10. ASSUME NEW p \in Procs, Reread(p) PROVE ~Missed(m.cmd)'
  <2>1. /\ Return(p, Matches(Cmd(p)) /\ adm[Cmd(p).uid].state = "pending_payment")
        /\ UNCHANGED <<run, adm>>
    BY <1>10 DEF Reread, Goto
  <2>2. m.cmd = Cmd(p) /\ adm[m.cmd.uid].state = "pending_payment"
    BY <2>1, ReturnLoses
  <2>. QED
    BY <1>00, <2>1, <2>2 DEF InState
<1>11. ASSUME NEW p \in Procs, Claim(p) PROVE FALSE
  <2>1. Return(p, FALSE)
    BY <1>11 DEF Claim, Goto
  <2>. QED
    BY <2>1, ReturnLoses
<1>12. ASSUME NEW p \in Procs, CancelFind(p) \/ CancelRelease(p) \/ CallFails(p) PROVE FALSE
  BY <1>12 DEF CancelFind, CancelRelease, CallFails, Goto
<1>13. ASSUME NEW p \in Procs, CancelVerify(p) PROVE ~Missed(m.cmd)'
  <2>1. ~(Matches(Cmd(p)) /\ adm[Cmd(p).uid].state = "cancelled") /\ UNCHANGED <<run, adm>>
    BY <1>13 DEF CancelVerify, Goto
  <2>2. m.cmd = Cmd(p)
    <3>. DEFINE ok == Verdict(p) \in {"paid", "cancelled", "none"}
    <3>1. ok \in BOOLEAN /\ Return(p, ok)
      BY <1>13 DEF CancelVerify, Goto
    <3>. QED
      BY <3>1, ReturnLoses
  <2>. QED
    BY <1>00, <2>1, <2>2 DEF InState
<1>14. ASSUME Reset \/ Crash \/ (\E u \in Users : DeadlinePasses(u) \/ KeyExpires(u)) \/ UNCHANGED vars PROVE FALSE
  BY <1>14 DEF Reset, ResetRotate, ResetOrders, ResetDropStock, ResetDropAdmissions, ResetInventory, ResetFails,
               Crash, DeadlinePasses, KeyExpires, vars
<1>. QED
  BY <1>1, <1>2, <1>3, <1>4, <1>5, <1>6, <1>7, <1>8, <1>9, <1>10, <1>11, <1>12, <1>13, <1>14 DEF Next, Step

\* The message CREATE_ORDER appears in one place, when the timeout message is sent.
LEMMA CreateSent ==
  ASSUME TypeOK, [Next]_vars, NEW c \in Command, Create(c) \in msgs', Create(c) \notin msgs
  PROVE  \E p \in Procs : pc[p] = "send_create" /\ Cmd(p) = c
<1> USE DEF redis, history
<1>1. ASSUME NEW p \in Procs, DrawSendCreate(p) PROVE pc[p] = "send_create" /\ Cmd(p) = c
  BY <1>1 DEF DrawSendCreate, SendFails, Sent, Create, At
<1>2. ASSUME NEW p \in Procs, DrawSendTimeout(p) PROVE FALSE
  BY <1>2 DEF DrawSendTimeout, SendFails, Sent, Create
<1>3. ASSUME \/ \E p \in Handlers : Request(p)
             \/ \E p \in Consumers, d \in Command : Deliver(p, d)
             \/ \E p \in Procs : OrdinaryActions(p) \/ DrawAcquire(p) \/ DrawRefused(p) \/ CancelFind(p) \/ CallFails(p)
             \/ Reset \/ Crash \/ (\E u \in Users : DeadlinePasses(u) \/ KeyExpires(u))
             \/ UNCHANGED vars
      PROVE  msgs' \subseteq msgs
  <2>1. CASE \E p \in Handlers : Request(p)
    BY <2>1 DEF Request, DrawBegin, PayRepeated, PayBegin, GiveUpBegin
  <2>2. CASE \E p \in Consumers, d \in Command : Deliver(p, d)
    BY <2>2 DEF Deliver, CreateIgnored, CreateBegin, TimeoutIgnored, TimeoutBegin
  <2>3. ASSUME NEW p \in Procs, OrdinaryActions(p) PROVE msgs' \subseteq msgs
    BY <2>3, OrdinaryStep, MovesHand DEF OrdinaryActions, Ordinary
  <2>4. ASSUME NEW p \in Procs, DrawAcquire(p) \/ DrawRefused(p) \/ CancelFind(p) \/ CallFails(p) PROVE msgs' \subseteq msgs
    BY <2>4 DEF DrawAcquire, DrawRefused, Return, Goto, CancelFind, CallFails
  <2>5. CASE Reset \/ Crash \/ (\E u \in Users : DeadlinePasses(u) \/ KeyExpires(u)) \/ UNCHANGED vars
    BY <2>5 DEF Reset, ResetRotate, ResetOrders, ResetDropStock, ResetDropAdmissions, ResetInventory, ResetFails,
                Crash, DeadlinePasses, KeyExpires, vars
  <2>. QED
    BY <1>3, <2>1, <2>2, <2>3, <2>4, <2>5
<1>. QED
  BY <1>1, <1>2, <1>3 DEF Next, Step, OrdinaryActions

\* Whoever makes the ledger know an open order has its timeout message already.
LEMMA TimedStep == ASSUME CourierInv, Delivered, Timed, [Next]_vars PROVE Timed'
<1> SUFFICES ASSUME NEW c \in Command, Releasable(c)', HasRow(c)' \/ Create(c)' \in msgs' PROVE Timeout(c)' \in msgs'
  BY DEF Timed
<1> USE DEF CourierInv
<1>0. TypeOK /\ Fresh /\ VerdictInv /\ Work /\ Courier /\ Create(c)' = Create(c) /\ Timeout(c)' = Timeout(c)
  BY DEF VerdictInv, Create, Timeout
<1>1. CASE HasRow(c) \/ Create(c) \in msgs
  <2>1. Known(c)
    BY <1>1 DEF Known, HasMessage, Create
  <2>. QED
    BY <1>0, <1>1, <2>1, OpenStep, StillThere DEF Timed
<1>2. CASE ~HasRow(c) /\ Create(c) \notin msgs /\ Create(c) \in msgs'
  <2>1. PICK p \in Procs : pc[p] = "send_create" /\ Cmd(p) = c
    BY <1>0, <1>2, CreateSent
  <2>2. Known(c)
    BY <2>1 DEF Known, InHand, Cmd
  <2>. QED
    BY <1>0, <2>1, <2>2, OpenStep, StillThere DEF Courier
<1>3. CASE ~HasRow(c) /\ Create(c) \notin msgs /\ HasRow(c)'
  <2>1. CASE UNCHANGED ledger \/ ResetOrders
    BY <1>3, <2>1 DEF HasRow, RowOf, ResetOrders, Command
  <2>2. ASSUME NEW p \in Procs, NEW d \in Command, d = Cmd(p), Statement(p, d), UNCHANGED <<run, adm>> PROVE FALSE
    <3>1. d = c
      BY <1>0, <1>3, <2>2, WritesRow DEF Statement, Writes, Status
    <3>2. CASE pc[p] = "insert"
      BY <1>0, <1>3, <2>2, <3>1, <3>2 DEF Work, Delivered, MessageOp, Create
    <3>3. CASE pc[p] = "rec_insert"
      <4>1. CancelMark(c)
        BY <2>2, <3>1, <3>3 DEF CancelMark, Cmd
      <4>. QED
        BY <1>0, <2>2, <4>1, MarkedIsClosed, SameOpen
    <3>. QED
      BY <1>3, <2>2, <3>1, <3>2, <3>3 DEF Statement, HasStatus, HasRow
  <2>. QED
    BY <1>0, <2>1, <2>2, LedgerStep DEF LedgerMoves
<1>. QED
  BY <1>0, <1>1, <1>2, <1>3

\* An admission becomes cancelled by the release script only.
LEMMA CancelledStep ==
  ASSUME TypeOK, [Next]_vars, NEW c \in Command, InState(c, {"cancelled"})'
  PROVE  InState(c, {"cancelled"}) \/ Releasable(c) \/ run' = run + 1
<1> USE DEF InState, CurrentRun
<1>1. CASE UNCHANGED <<run, adm, held>>
  BY <1>1 DEF Matches
<1>2. ASSUME NEW p \in Procs, NEW d \in Command, DrawAcquire(p), d = Cmd(p) PROVE InState(c, {"cancelled"})
  BY <1>2, AcquireEffect
<1>3. ASSUME NEW d \in Command, Releasable(d), Release(d) PROVE InState(c, {"cancelled"}) \/ Releasable(c)
  BY <1>3, ReleaseEffect
<1>4. ASSUME NEW d \in Command, NEW s \in {"pending_payment", "paid"}, Matches(d), SetState(d, s), UNCHANGED run
      PROVE  InState(c, {"cancelled"})
  BY <1>4, SetStateAdm DEF Status
<1>5. CASE (\A u \in Users : adm'[u] \in {adm[u], None}) /\ UNCHANGED <<run, held>>
  BY <1>5 DEF Matches, Command
<1>. QED
  BY <1>1, <1>2, <1>3, <1>4, <1>5, AdmissionStep DEF AdmissionMoves, Markable, Claimable

\* The message that carries a missed cancellation is there when it is missed.
LEMMA CarriedStep == ASSUME CarryInv, [Next]_vars PROVE Carried'
<1> SUFFICES ASSUME NEW c \in Command, Missed(c)' PROVE Create(c)' \in msgs' \/ Timeout(c)' \in msgs'
  BY DEF Carried
<1> USE DEF CarryInv, CourierInv
<1>0. TypeOK /\ Fresh /\ Create(c)' = Create(c) /\ Timeout(c)' = Timeout(c)
  BY DEF VerdictInv, Create, Timeout
<1>1. /\ Create(c) \in msgs => Create(c) \in msgs'
      /\ Timeout(c) \in msgs => Timeout(c) \in msgs'
  <2>1. ASSUME NEW m \in msgs, m \notin msgs', m.cmd = c PROVE FALSE
    BY <2>1, NothingMissed
  <2>. QED
    BY <2>1 DEF Create, Timeout
<1>2. CASE ~HasStatus(c, "pending_payment")
  <2>1. PICK p \in Procs : pc[p] = "insert" /\ Cmd(p) = c
    BY <1>0, <1>2, PendingRowStep DEF Missed
  <2>. QED
    BY <1>0, <1>1, <2>1 DEF Work, Delivered, MessageOp, Create
<1>3. CASE HasStatus(c, "pending_payment")
  <2>1. c.id.run <= run /\ c.id.run = run'
    BY <1>0, <1>3 DEF Fresh, Known, HasRow, HasStatus, Missed, InState, CurrentRun
  <2>2. run' # run + 1
    BY <1>0, <2>1, BoundsAssumption DEF TypeOK
  <2>3. InState(c, {"cancelled"}) \/ Releasable(c)
    BY <1>0, <2>2, CancelledStep DEF Missed
  <2>4. CASE InState(c, {"cancelled"})
    BY <1>0, <1>1, <1>3, <2>4 DEF Carried, Missed
  <2>5. CASE Releasable(c)
    BY <1>0, <1>1, <1>3, <2>5 DEF Timed, HasRow, HasStatus
  <2>. QED
    BY <2>3, <2>4, <2>5
<1>. QED
  BY <1>2, <1>3

\* No row is there at the first start.
LEMMA CarryInit == Init => CarryInv
<1> SUFFICES ASSUME Init PROVE CarryInv
  OBVIOUS
<1>1. CourierInv /\ \A c \in Command : ~HasRow(c)
  BY CourierInit DEF Init, HasRow, RowOf, Command
<1>2. Delivered /\ Recorded
  BY DEF Init, Delivered, Recorded
<1>3. Timed /\ Carried
  BY <1>1 DEF Init, Timed, Carried, Missed, HasStatus, HasRow
<1>. QED
  BY <1>1, <1>2, <1>3 DEF CarryInv

\* Every step keeps the messages of the missed cancellations.
LEMMA CarryNext == ASSUME OneConsumer PROVE CarryInv /\ [Next]_vars => CarryInv'
BY CourierNext, DeliveredStep, RecordedStep, TimedStep, CarriedStep DEF CarryInv, CourierInv, VerdictInv

\* With one consumer loop a cancellation the ledger does not know yet still has a
\* message that will carry it there, even when the process that made it has crashed
\* (order.go:194-350). With three loops the conclusion is false: two of them can
\* acknowledge at rec_find while the third has just inserted the pending row.
THEOREM CancellationsAreCarried == OneConsumer => (Spec => []CancellationIsCarried)
<1> SUFFICES ASSUME OneConsumer PROVE Spec => []CancellationIsCarried
  OBVIOUS
<1>1. CarryInv => CancellationIsCarried
  BY DEF CarryInv, Carried, Missed, CancellationIsCarried, Create, Timeout
<1>2. Init => CarryInv
  BY CarryInit
<1>3. CarryInv /\ [Next]_vars => CarryInv'
  BY CarryNext
<1>. QED
  BY <1>1, <1>2, <1>3, PTL DEF Spec
=============================================================================
