---------------------------- MODULE SeckillOrder ----------------------------
(***************************************************************************)
(* The seckill experiment: a Redis Lua script admits a user and takes a    *)
(* unit of stock, RocketMQ carries a CREATE_ORDER and a delayed            *)
(* CANCEL_ORDER message, a consumer writes the order into the MySQL        *)
(* ledger, and pay / give up / timeout race for the final verdict, which   *)
(* Redis gives and MySQL records.                                          *)
(*                                                                         *)
(* One step of a process is one call to Redis, MySQL or RocketMQ.          *)
(* Between two steps every other process may run, the call may fail, the   *)
(* whole application may crash, an order may reach its payment deadline    *)
(* and an admission key may reach its TTL.                                 *)
(***************************************************************************)
EXTENDS Integers, FiniteSets

CONSTANTS
  Users,        \* user ids
  Gifts,        \* gift ids
  Count,        \* the configured quantity of each gift (table inventory)
  Handlers,     \* HTTP goroutines: draw, pay, give up
  Consumers,    \* RocketMQ order consumer loops
  MaxOrders,    \* bound: business order ids ever generated
  MaxRuns,      \* bound: experiment runs, one more than the resets
  MaxFaults,    \* bound: failed calls
  MaxCrashes,   \* bound: crashes of the application
  MaxExpiries,  \* bound: admission keys dropped by their TTL
  None          \* no admission, no ledger row, no task

ASSUME UsersAssumption  == IsFiniteSet(Users)
ASSUME CountAssumption  == Count \in [Gifts -> Nat]
ASSUME BoundsAssumption == /\ MaxOrders \in Nat /\ MaxRuns \in Nat \ {0}
                           /\ MaxFaults \in Nat /\ MaxCrashes \in Nat
                           /\ MaxExpiries \in Nat

Procs    == Handlers \cup Consumers
Identity == [order : 1 .. MaxOrders, run : 1 .. MaxRuns]
Command  == [uid : Users, gift : Gifts, id : Identity]
Message  == [kind : {"create", "timeout"}, cmd : Command]

\* The four states of an order; the ledger never holds the first one.
Status    == {"stock_acquired", "pending_payment", "paid", "cancelled"}
Admission == [gift : Gifts, id : Identity, state : Status]
Row       == [gift : Gifts, id : Identity, status : Status \ {"stock_acquired"}]

Op   == {"draw", "pay", "giveup", "create", "timeout"}
Seen == Status \cup {"none"}
Task == [op : Op, cmd : Command, seen : Seen]
PC   == {"idle", "acquire", "send_timeout", "send_create", "rollback", "insert",
         "mark", "reread", "settle", "claim", "find", "release", "verify",
         "rec_update", "rec_find", "rec_insert"}

ASSUME NoneAssumption == None \notin Admission \cup Row \cup Task

VARIABLES
  \* Redis: current run, stock counters, one admission key per user
  run, stock, adm,
  \* MySQL: at most one order row per user (uk_activity_user)
  ledger,
  \* RocketMQ: messages sent and not acknowledged
  msgs,
  \* the application: step and local state of each goroutine, the reset
  pc, task, resetPc,
  \* the environment: next order id, orders past their deadline, the faults
  \* of each kind that have happened
  nextOrder, expired, spent,
  \* history: commands whose unit was taken and not given back in this run,
  \* commands Draw returned to a client, commands Pay reported as paid, and
  \* whether the last reset went to its end
  held, shown, payAck, clean

redis   == <<run, stock, adm>>
history == <<held, shown, payAck, clean>>
vars    == <<redis, ledger, msgs, pc, task, resetPc, nextOrder, expired, spent, history>>

NoSpending == [fault |-> 0, crash |-> 0, expiry |-> 0]

Init ==
  /\ run = 1
  /\ stock = Count
  /\ adm = [u \in Users |-> None]
  /\ ledger = [u \in Users |-> None]
  /\ msgs = {}
  /\ pc = [p \in Procs |-> "idle"]
  /\ task = [p \in Procs |-> None]
  /\ resetPc = "idle"
  /\ nextOrder = 1
  /\ expired = {}
  /\ spent = NoSpending
  /\ held = {} /\ shown = {} /\ payAck = {} /\ clean = TRUE

-----------------------------------------------------------------------------
(* Faults, the control flow of a process and the end of an operation       *)

\* One more failed call; every use names the call that fails.
Fault == /\ spent.fault < MaxFaults
         /\ spent' = [spent EXCEPT !.fault = @ + 1]

Goto(p, label) == pc' = [pc EXCEPT ![p] = label] /\ UNCHANGED <<task, msgs, spent>>

\* BeginSeckillOperation takes the read side of the gate: no reset is running.
Begin(p, op, cmd, seen, label) ==
  /\ pc[p] = "idle" /\ resetPc = "idle"
  /\ pc' = [pc EXCEPT ![p] = label]
  /\ task' = [task EXCEPT ![p] = [op |-> op, cmd |-> cmd, seen |-> seen]]

\* The operation is over for its caller.
Leave(p) == /\ pc' = [pc EXCEPT ![p] = "idle"]
            /\ task' = [task EXCEPT ![p] = None]

\* The handler returns. The consumer loop acknowledges the message only when
\* the handler reported success; the acknowledgement itself may fail.
Return(p, ok) ==
  LET m == [kind |-> task[p].op, cmd |-> task[p].cmd]
  IN  /\ Leave(p)
      /\ \/ msgs' = (IF ok THEN msgs \ {m} ELSE msgs) /\ UNCHANGED spent
         \/ ok /\ m \in msgs /\ Fault /\ UNCHANGED msgs

At(p, label) == pc[p] = label
Cmd(p) == task[p].cmd

-----------------------------------------------------------------------------
(* The four Lua scripts: their guard and their effect                      *)

\* LotteryAdmission.Matches: the key of the user belongs to this very order.
Matches(c) == adm[c.uid] # None /\ adm[c.uid].gift = c.gift /\ adm[c.uid].id = c.id

\* Every script compares the run of the request with the stored one.
CurrentRun(c) == c.id.run = run

InState(c, states) == Matches(c) /\ CurrentRun(c) /\ adm[c.uid].state \in states

SetState(c, s) == adm' = [adm EXCEPT ![c.uid].state = s]

Acquirable(c) == CurrentRun(c) /\ adm[c.uid] = None /\ stock[c.gift] > 0

\* acquireAdmissionScript answering OK.
Acquire(c) ==
  /\ stock' = [stock EXCEPT ![c.gift] = @ - 1]
  /\ adm' = [adm EXCEPT ![c.uid] = [gift |-> c.gift, id |-> c.id, state |-> "stock_acquired"]]
  /\ held' = held \cup {c}
  /\ UNCHANGED run

\* Weakened: a cancelled order can still be paid; a cancelled or a paid order
\* can be released.
ClaimableCancelled(c)  == InState(c, {"pending_payment", "paid", "cancelled"})
ReleasableCancelled(c) == InState(c, {"stock_acquired", "pending_payment", "cancelled"})
ReleasablePaid(c)      == InState(c, {"stock_acquired", "pending_payment", "paid"})

Markable(c)   == InState(c, {"stock_acquired"})
Claimable(c)  == InState(c, {"pending_payment", "paid"})
Releasable(c) == InState(c, {"stock_acquired", "pending_payment"})

\* releaseAdmissionScript answering 1.
Release(c) ==
  /\ stock' = [stock EXCEPT ![c.gift] = @ + 1]
  /\ SetState(c, "cancelled")
  /\ held' = held \ {c}
  /\ UNCHANGED run

-----------------------------------------------------------------------------
(* LotteryService.Draw                                                     *)

\* HasOrder found no row; the weighted choice only proposes a candidate gift.
DrawBegin(p, u, g) ==
  /\ nextOrder <= MaxOrders
  /\ ledger[u] = None
  /\ nextOrder' = nextOrder + 1
  /\ Begin(p, "draw", [uid |-> u, gift |-> g, id |-> [order |-> nextOrder, run |-> run]],
           "none", "acquire")
  /\ UNCHANGED <<redis, ledger, msgs, resetPc, expired, spent, history>>

\* The script grants the unit. When its reply is lost, Draw returns an error
\* and rolls nothing back.
DrawAcquire(p) ==
  /\ At(p, "acquire") /\ Acquirable(Cmd(p))
  /\ Acquire(Cmd(p))
  /\ \/ Goto(p, "send_timeout")
     \/ Leave(p) /\ Fault /\ UNCHANGED msgs
  /\ UNCHANGED <<ledger, resetPc, nextOrder, expired, shown, payAck, clean>>

\* SOLD_OUT: try another candidate. DUPLICATE, STALE_RUN, no candidate left
\* or ten snapshots used up: return.
DrawRefused(p) ==
  /\ At(p, "acquire") /\ ~Acquirable(Cmd(p))
  /\ \/ Return(p, FALSE)
     \/ /\ CurrentRun(Cmd(p)) /\ adm[Cmd(p).uid] = None
        /\ \E g \in Gifts : task' = [task EXCEPT ![p].cmd.gift = g]
        /\ UNCHANGED <<pc, msgs, spent>>
  /\ UNCHANGED <<redis, ledger, resetPc, nextOrder, expired, history>>

Sent(p, kind) == msgs \cup {[kind |-> kind, cmd |-> Cmd(p)]}

\* A send that reports an error may still have reached the broker.
SendFails(p, kind) ==
  /\ msgs' \in {msgs, Sent(p, kind)}
  /\ pc' = [pc EXCEPT ![p] = "rollback"]
  /\ Fault
  /\ UNCHANGED <<task, shown>>

\* GetGift, then SendCancelOrder with the payment window as its delay. A
\* failed GetGift rolls back as a send that never left.
DrawSendTimeout(p) ==
  /\ At(p, "send_timeout")
  /\ \/ /\ msgs' = Sent(p, "timeout")
        /\ pc' = [pc EXCEPT ![p] = "send_create"]
        /\ UNCHANGED <<task, shown, spent>>
     \/ SendFails(p, "timeout")
  /\ UNCHANGED <<redis, ledger, resetPc, nextOrder, expired, held, payAck, clean>>

\* SendCreateOrder, then the client gets its order and run ids.
DrawSendCreate(p) ==
  /\ At(p, "send_create")
  /\ \/ /\ msgs' = Sent(p, "create")
        /\ Leave(p)
        /\ shown' = shown \cup {Cmd(p)}
        /\ UNCHANGED spent
     \/ SendFails(p, "create")
  /\ UNCHANGED <<redis, ledger, resetPc, nextOrder, expired, held, payAck, clean>>

\* rollbackAdmission goes on to the ledger only if this call released.
DrawRollback(p) ==
  /\ At(p, "rollback")
  /\ IF Releasable(Cmd(p))
       THEN Release(Cmd(p)) /\ Goto(p, "rec_update")
       ELSE Return(p, FALSE) /\ UNCHANGED <<redis, held>>
  /\ UNCHANGED <<ledger, resetPc, nextOrder, expired, shown, payAck, clean>>

-----------------------------------------------------------------------------
(* The MySQL ledger                                                        *)

\* FindOrderIdentity and the check of the gift that every caller makes.
RowOf(c) == IF ledger[c.uid] # None /\ ledger[c.uid].id = c.id /\ ledger[c.uid].gift = c.gift
              THEN ledger[c.uid] ELSE None

HasStatus(c, s) == RowOf(c) # None /\ RowOf(c).status = s

SetRow(c, s) == ledger' = [ledger EXCEPT ![c.uid] = [gift |-> c.gift, id |-> c.id, status |-> s]]

\* RecordReleasedRedisCancellation, one statement a step.
\* UPDATE ... WHERE identity AND status pending_payment.
RecUpdate(p) ==
  /\ At(p, "rec_update")
  /\ IF HasStatus(Cmd(p), "pending_payment")
       THEN SetRow(Cmd(p), "cancelled") /\ Return(p, TRUE)
       ELSE Goto(p, "rec_find") /\ UNCHANGED ledger
  /\ UNCHANGED <<redis, resetPc, nextOrder, expired, history>>

\* SELECT: a row that is not paid is taken as recorded, even one inserted as
\* pending_payment after the update.
RecFind(p) ==
  /\ At(p, "rec_find")
  /\ IF RowOf(Cmd(p)) = None
       THEN Goto(p, "rec_insert")
       ELSE Return(p, ~HasStatus(Cmd(p), "paid"))
  /\ UNCHANGED <<redis, ledger, resetPc, nextOrder, expired, history>>

\* INSERT of a cancelled row; a duplicate key of the same order starts again.
RecInsert(p) ==
  /\ At(p, "rec_insert")
  /\ IF ledger[Cmd(p).uid] = None
       THEN SetRow(Cmd(p), "cancelled") /\ Return(p, TRUE)
       ELSE /\ IF RowOf(Cmd(p)) # None THEN Goto(p, "rec_update") ELSE Return(p, FALSE)
            /\ UNCHANGED ledger
  /\ UNCHANGED <<redis, resetPc, nextOrder, expired, history>>

\* TransitionPendingOrderToPaid, for Pay and for a CREATE_ORDER that met a
\* paid admission: success when the row is paid afterwards.
Settle(p) ==
  LET c == Cmd(p)
  IN  /\ At(p, "settle")
      /\ IF HasStatus(c, "pending_payment") THEN SetRow(c, "paid") ELSE UNCHANGED ledger
      /\ Return(p, ~HasStatus(c, "cancelled"))
      /\ payAck' = IF task[p].op = "pay" /\ ~HasStatus(c, "cancelled")
                     THEN payAck \cup {c} ELSE payAck
      /\ UNCHANGED <<redis, resetPc, nextOrder, expired, held, shown, clean>>

-----------------------------------------------------------------------------
(* OrderService.CreateRedisPendingOrder, the consumer of CREATE_ORDER      *)

\* A message that matches no admission of the current run is acknowledged.
CreateIgnored(p, c) ==
  /\ pc[p] = "idle" /\ resetPc = "idle"
  /\ [kind |-> "create", cmd |-> c] \in msgs
  /\ ~(Matches(c) /\ CurrentRun(c))
  /\ msgs' = msgs \ {[kind |-> "create", cmd |-> c]}
  /\ UNCHANGED <<redis, ledger, pc, task, resetPc, nextOrder, expired, spent, history>>

CreateBegin(p, c) ==
  /\ [kind |-> "create", cmd |-> c] \in msgs
  /\ Matches(c) /\ CurrentRun(c)
  /\ Begin(p, "create", c, adm[c.uid].state,
           IF adm[c.uid].state = "cancelled" THEN "rec_update" ELSE "insert")
  /\ UNCHANGED <<redis, ledger, msgs, resetPc, nextOrder, expired, spent, history>>

\* Weakened: the insert is an upsert.
InsertPendingUpsert(p) ==
  LET c == Cmd(p)
  IN  /\ At(p, "insert")
      /\ SetRow(c, "pending_payment")
      /\ Goto(p, IF task[p].seen = "paid" THEN "settle" ELSE "mark")
      /\ UNCHANGED <<redis, resetPc, nextOrder, expired, history>>

\* CreatePendingOrder: on a duplicate key the stored row decides, and a
\* terminal row or the row of another order is never overwritten.
InsertPending(p) ==
  LET c    == Cmd(p)
      next == IF task[p].seen = "paid" THEN "settle" ELSE "mark"
  IN  /\ At(p, "insert")
      /\ IF ledger[c.uid] = None
           THEN SetRow(c, "pending_payment") /\ Goto(p, next)
           ELSE /\ IF HasStatus(c, "pending_payment") THEN Goto(p, next)
                                                      ELSE Return(p, RowOf(c) # None)
                /\ UNCHANGED ledger
      /\ UNCHANGED <<redis, resetPc, nextOrder, expired, history>>

\* markPendingPaymentScript: only 1 means advanced.
MarkPending(p) ==
  /\ At(p, "mark")
  /\ IF Markable(Cmd(p))
       THEN SetState(Cmd(p), "pending_payment") /\ Return(p, TRUE)
       ELSE Goto(p, "reread") /\ UNCHANGED adm
  /\ UNCHANGED <<run, stock, ledger, resetPc, nextOrder, expired, history>>

\* The admission is read again: a cancellation that came in between is
\* carried to the ledger, a payment is left to the next delivery.
Reread(p) ==
  LET c == Cmd(p)
  IN  /\ At(p, "reread")
      /\ IF Matches(c) /\ adm[c.uid].state = "cancelled"
           THEN Goto(p, "rec_update")
           ELSE Return(p, Matches(c) /\ adm[c.uid].state = "pending_payment")
      /\ UNCHANGED <<redis, ledger, resetPc, nextOrder, expired, history>>

-----------------------------------------------------------------------------
(* OrderService.Pay                                                        *)

Expired(c) == c.id.order \in expired

\* The ledger says paid: an idempotent success.
PayRepeated(p, c) ==
  /\ pc[p] = "idle" /\ resetPc = "idle"
  /\ HasStatus(c, "paid")
  /\ payAck' = payAck \cup {c}
  /\ UNCHANGED <<redis, ledger, msgs, pc, task, resetPc, nextOrder, expired, spent,
                 held, shown, clean>>

\* Weakened: Pay writes the ledger without asking Redis first.
PayBeginUnclaimed(p, c) ==
  /\ HasStatus(c, "pending_payment")
  /\ Begin(p, "pay", c, "none", IF Expired(c) THEN "find" ELSE "settle")
  /\ UNCHANGED <<redis, ledger, msgs, resetPc, nextOrder, expired, spent, history>>

\* A pending row goes to the claim, or to a cancellation after the deadline.
PayBegin(p, c) ==
  /\ HasStatus(c, "pending_payment")
  /\ Begin(p, "pay", c, "none", IF Expired(c) THEN "find" ELSE "claim")
  /\ UNCHANGED <<redis, ledger, msgs, resetPc, nextOrder, expired, spent, history>>

\* claimAdmissionScript: 1 and 2 both mean that the payment won.
Claim(p) ==
  /\ At(p, "claim")
  /\ IF Claimable(Cmd(p))
       THEN SetState(Cmd(p), "paid") /\ Goto(p, "settle")
       ELSE Return(p, FALSE) /\ UNCHANGED adm
  /\ UNCHANGED <<run, stock, ledger, resetPc, nextOrder, expired, history>>

-----------------------------------------------------------------------------
(* OrderService.cancel, from GiveUp, TimeoutCancel and an overdue Pay      *)

GiveUpBegin(p, c) ==
  /\ Begin(p, "giveup", c, "none", "find")
  /\ UNCHANGED <<redis, ledger, msgs, resetPc, nextOrder, expired, spent, history>>

\* Weakened: a message that comes before the deadline is acknowledged too.
TimeoutIgnoredEarly(p, c) ==
  /\ pc[p] = "idle" /\ resetPc = "idle"
  /\ [kind |-> "timeout", cmd |-> c] \in msgs
  /\ ~(Matches(c) /\ CurrentRun(c) /\ Expired(c))
  /\ msgs' = msgs \ {[kind |-> "timeout", cmd |-> c]}
  /\ UNCHANGED <<redis, ledger, pc, task, resetPc, nextOrder, expired, spent, history>>

\* A delayed message without its admission or of another run is acknowledged.
TimeoutIgnored(p, c) ==
  /\ pc[p] = "idle" /\ resetPc = "idle"
  /\ [kind |-> "timeout", cmd |-> c] \in msgs
  /\ ~(Matches(c) /\ CurrentRun(c))
  /\ msgs' = msgs \ {[kind |-> "timeout", cmd |-> c]}
  /\ UNCHANGED <<redis, ledger, pc, task, resetPc, nextOrder, expired, spent, history>>

\* Before the deadline the handler returns an error and the message stays.
TimeoutBegin(p, c) ==
  /\ [kind |-> "timeout", cmd |-> c] \in msgs
  /\ Matches(c) /\ CurrentRun(c)
  /\ Expired(c)
  /\ Begin(p, "timeout", c, "none", "find")
  /\ UNCHANGED <<redis, ledger, msgs, resetPc, nextOrder, expired, spent, history>>

\* FindOrderIdentity; the status read here is used only if the key is gone.
CancelFind(p) ==
  /\ At(p, "find")
  /\ task' = [task EXCEPT ![p].seen = IF RowOf(Cmd(p)) = None THEN "none" ELSE RowOf(Cmd(p)).status]
  /\ pc' = [pc EXCEPT ![p] = "release"]
  /\ UNCHANGED <<redis, ledger, msgs, resetPc, nextOrder, expired, spent, history>>

\* Weakened: only the call that released goes on to the ledger.
CancelReleaseOnce(p) ==
  /\ At(p, "release")
  /\ IF Releasable(Cmd(p)) THEN Release(Cmd(p)) /\ Goto(p, "verify")
                           ELSE Return(p, TRUE) /\ UNCHANGED <<redis, held>>
  /\ UNCHANGED <<ledger, resetPc, nextOrder, expired, shown, payAck, clean>>

CancelRelease(p) ==
  /\ At(p, "release")
  /\ IF Releasable(Cmd(p)) THEN Release(Cmd(p)) ELSE UNCHANGED <<redis, held>>
  /\ Goto(p, "verify")
  /\ UNCHANGED <<ledger, resetPc, nextOrder, expired, shown, payAck, clean>>

\* The status the handler knows once it has read the admission again.
Verdict(p) == IF Matches(Cmd(p)) THEN adm[Cmd(p).uid].state ELSE task[p].seen

\* Weakened: the admission is not read again before the ledger is written.
CancelVerifyBlind(p) ==
  /\ At(p, "verify")
  /\ Goto(p, "rec_update")
  /\ UNCHANGED <<redis, ledger, resetPc, nextOrder, expired, history>>

\* CodeOrderAlreadyPaid and CodeOrderNotOwned acknowledge a timeout message;
\* Pay turns CodeOrderAlreadyPaid into a success.
CancelVerify(p) ==
  LET c == Cmd(p)
  IN  /\ At(p, "verify")
      /\ IF Matches(c) /\ adm[c.uid].state = "cancelled"
           THEN Goto(p, "rec_update")
           ELSE Return(p, Verdict(p) \in {"paid", "cancelled", "none"})
      /\ payAck' = IF task[p].op = "pay" /\ Verdict(p) = "paid"
                     THEN payAck \cup {c} ELSE payAck
      /\ UNCHANGED <<redis, ledger, resetPc, nextOrder, expired, held, shown, clean>>

-----------------------------------------------------------------------------
(* ResetLab: the exclusive side of the gate                                *)

Holding(g) == {u \in Users : ledger[u] # None /\ ledger[u].gift = g
                               /\ ledger[u].status # "cancelled"}

\* UnpersistedAdmissionCounts: live admissions without their ledger row.
Unpersisted(g) == {u \in Users : /\ adm[u] # None /\ adm[u].gift = g
                                 /\ adm[u].state # "cancelled"
                                 /\ ledger[u] = None \/ ledger[u].id # adm[u].id}

\* Weakened: admissions that have no row yet are forgotten.
RemainingOfLedger(g) ==
  LET sold == Cardinality(Holding(g)) IN IF sold < Count[g] THEN Count[g] - sold ELSE 0

\* InitGiftInventory: what is left of the quantity, never below zero.
Remaining(g) ==
  LET sold == Cardinality(Holding(g)) + Cardinality(Unpersisted(g))
  IN  IF sold < Count[g] THEN Count[g] - sold ELSE 0

\* Weakened: the reset does not drain the operations under way.
ResetRotateUndrained ==
  /\ resetPc = "idle"
  /\ run < MaxRuns
  /\ run' = run + 1
  /\ held' = {} /\ clean' = FALSE
  /\ resetPc' = "orders"
  /\ UNCHANGED <<stock, adm, ledger, msgs, pc, task, nextOrder, expired, spent, shown, payAck>>

ResetRotate ==
  /\ resetPc = "idle" /\ \A p \in Procs : pc[p] = "idle"
  /\ run < MaxRuns
  /\ run' = run + 1
  /\ held' = {} /\ clean' = FALSE
  /\ resetPc' = "orders"
  /\ UNCHANGED <<stock, adm, ledger, msgs, pc, task, nextOrder, expired, spent, shown, payAck>>

ResetOrders ==
  /\ resetPc = "orders"
  /\ ledger' = [u \in Users |-> None]
  /\ resetPc' = "stock"
  /\ UNCHANGED <<redis, msgs, pc, task, nextOrder, expired, spent, history>>

\* clearLotteryRedisState: the counters first; a missing counter reads as 0.
ResetDropStock ==
  /\ resetPc = "stock"
  /\ \E batch \in SUBSET Gifts :
       /\ stock' = [g \in Gifts |-> IF g \in batch THEN 0 ELSE stock[g]]
       /\ \/ batch = Gifts /\ resetPc' = "admissions" /\ UNCHANGED spent
          \/ resetPc' = "idle" /\ Fault
  /\ UNCHANGED <<run, adm, ledger, msgs, pc, task, nextOrder, expired, history>>

\* Then the admission keys, in batches, until a scan finds none.
ResetDropAdmissions ==
  /\ resetPc = "admissions"
  /\ \E batch \in SUBSET {u \in Users : adm[u] # None} :
       /\ adm' = [u \in Users |-> IF u \in batch THEN None ELSE adm[u]]
       /\ \/ /\ \A u \in Users : adm'[u] = None
             /\ resetPc' = "inventory"
             /\ UNCHANGED spent
          \/ resetPc' = "idle" /\ Fault
  /\ UNCHANGED <<run, stock, ledger, msgs, pc, task, nextOrder, expired, history>>

\* One SET per gift; a failure leaves the remaining gifts as they were.
Recount(done) ==
  /\ stock' = [g \in Gifts |-> IF g \in done THEN Remaining(g) ELSE stock[g]]
  /\ \/ done = Gifts /\ clean' = TRUE /\ UNCHANGED spent
     \/ clean' = FALSE /\ Fault

ResetInventory ==
  /\ resetPc = "inventory"
  /\ \E done \in SUBSET Gifts : Recount(done)
  /\ resetPc' = "idle"
  /\ UNCHANGED <<run, adm, ledger, msgs, pc, task, nextOrder, expired, held, shown, payAck>>

\* Any other step of the reset fails and the handler answers an error.
ResetFails ==
  /\ resetPc \in {"orders", "stock"}
  /\ resetPc' = "idle"
  /\ Fault
  /\ UNCHANGED <<redis, ledger, msgs, pc, task, nextOrder, expired, history>>

-----------------------------------------------------------------------------
(* The environment                                                         *)

\* Weakened: a message whose handler failed is acknowledged all the same.
CallFailsAcked(p) ==
  /\ pc[p] \notin {"idle", "send_timeout", "send_create"}
  /\ Leave(p)
  /\ Fault
  /\ msgs' = msgs \ {[kind |-> task[p].op, cmd |-> task[p].cmd]}
  /\ UNCHANGED <<redis, ledger, resetPc, nextOrder, expired, history>>

\* A call outside the two sends returns an error: the operation stops there
\* and a message is not acknowledged.
CallFails(p) ==
  /\ pc[p] \notin {"idle", "send_timeout", "send_create"}
  /\ Leave(p)
  /\ Fault
  /\ UNCHANGED <<redis, ledger, msgs, resetPc, nextOrder, expired, history>>

\* All goroutines are lost; Redis, MySQL and RocketMQ keep what they have.
Crash ==
  /\ spent.crash < MaxCrashes
  /\ resetPc # "idle" \/ \E p \in Procs : pc[p] # "idle"
  /\ pc' = [p \in Procs |-> "idle"]
  /\ task' = [p \in Procs |-> None]
  /\ resetPc' = "idle"
  /\ spent' = [spent EXCEPT !.crash = @ + 1]
  /\ UNCHANGED <<redis, ledger, msgs, nextOrder, expired, history>>

\* The payment window (PayDelaySeconds) of an admitted order ends.
DeadlinePasses(u) ==
  /\ adm[u] # None
  /\ adm[u].id.order \notin expired
  /\ expired' = expired \cup {adm[u].id.order}
  /\ UNCHANGED <<redis, ledger, msgs, pc, task, resetPc, nextOrder, spent, history>>

\* The key outlives the deadline by AdmissionGraceSeconds and then goes.
KeyExpires(u) ==
  /\ adm[u] # None
  /\ adm[u].id.order \in expired
  /\ spent.expiry < MaxExpiries
  /\ adm' = [adm EXCEPT ![u] = None]
  /\ spent' = [spent EXCEPT !.expiry = @ + 1]
  /\ UNCHANGED <<run, stock, ledger, msgs, pc, task, resetPc, nextOrder, expired, history>>

-----------------------------------------------------------------------------
\* A client asks with the ids Draw gave it.
Request(p) ==
  \/ \E u \in Users, g \in Gifts : DrawBegin(p, u, g)
  \/ \E c \in shown : PayRepeated(p, c) \/ PayBegin(p, c) \/ GiveUpBegin(p, c)

Deliver(p, c) == \/ CreateIgnored(p, c) \/ CreateBegin(p, c)
                 \/ TimeoutIgnored(p, c) \/ TimeoutBegin(p, c)

\* The next call of an operation that is under way.
Step(p) ==
  \/ DrawAcquire(p) \/ DrawRefused(p) \/ DrawSendTimeout(p) \/ DrawSendCreate(p)
  \/ DrawRollback(p)
  \/ RecUpdate(p) \/ RecFind(p) \/ RecInsert(p) \/ Settle(p)
  \/ InsertPending(p) \/ MarkPending(p) \/ Reread(p)
  \/ Claim(p)
  \/ CancelFind(p) \/ CancelRelease(p) \/ CancelVerify(p)

Reset == \/ ResetRotate \/ ResetOrders \/ ResetDropStock \/ ResetDropAdmissions
         \/ ResetInventory \/ ResetFails

Next ==
  \/ \E p \in Handlers : Request(p)
  \/ \E p \in Consumers, c \in Command : Deliver(p, c)
  \/ \E p \in Procs : Step(p) \/ CallFails(p)
  \/ Reset
  \/ Crash
  \/ \E u \in Users : DeadlinePasses(u) \/ KeyExpires(u)

\* Goroutines run, RocketMQ redelivers what is not acknowledged, time passes
\* and a reset runs to its end. No request has to come.
Fairness ==
  /\ \A p \in Procs : WF_vars(Step(p))
  /\ \A c \in Command : /\ SF_vars(\E p \in Consumers : CreateIgnored(p, c) \/ CreateBegin(p, c))
                        /\ SF_vars(\E p \in Consumers : TimeoutIgnored(p, c) \/ TimeoutBegin(p, c))
  /\ \A u \in Users : WF_vars(DeadlinePasses(u))
  /\ WF_vars(Reset /\ resetPc # "idle")

Spec     == Init /\ [][Next]_vars
FairSpec == Spec /\ Fairness

\* A client that got its order keeps asking to pay it.
ClientRetries == \A c \in Command :
                   SF_vars(c \in shown /\ \E p \in Handlers : PayBegin(p, c) \/ PayRepeated(p, c))
RetrySpec == FairSpec /\ ClientRetries

-----------------------------------------------------------------------------
TypeOK ==
  /\ run \in 1 .. MaxRuns
  /\ stock \in [Gifts -> Nat]
  /\ adm \in [Users -> Admission \cup {None}]
  /\ ledger \in [Users -> Row \cup {None}]
  /\ msgs \subseteq Message
  /\ pc \in [Procs -> PC]
  /\ task \in [Procs -> Task \cup {None}]
  /\ \A p \in Procs : pc[p] = "idle" <=> task[p] = None
  /\ resetPc \in {"idle", "orders", "stock", "admissions", "inventory"}
  /\ nextOrder \in 1 .. (MaxOrders + 1)
  /\ expired \subseteq 1 .. MaxOrders
  /\ spent \in [fault : 0 .. MaxFaults, crash : 0 .. MaxCrashes, expiry : 0 .. MaxExpiries]
  /\ held \subseteq Command /\ shown \subseteq Command /\ payAck \subseteq Command
  /\ clean \in BOOLEAN

\* The units taken from the counter of a gift and not given back (admission.go:40,
\* 124-126: only the release script gives a unit back, once).
Units(g) == {c \in held : c.gift = g}

\* Counter and units out fit the quantity; nothing is missing in a clean run.
UnitsFit ==
  \A g \in Gifts : /\ stock[g] + Cardinality(Units(g)) <= Count[g]
                   /\ clean => stock[g] + Cardinality(Units(g)) = Count[g]

\* No unit is sold twice and none is invented: counter and units out always
\* fit the quantity, no counter falls below zero, and after a complete reset or
\* the first start nothing is missing either, whatever failed in between.
StockConserved == UnitsFit /\ \A g \in Gifts : stock[g] >= 0

\* The ledger never contradicts the verdict of Redis: a paid row keeps its unit
\* and a cancelled row has given it back, also when the admission key is gone.
LedgerFollowsVerdict ==
  \A c \in Command : CurrentRun(c) => /\ HasStatus(c, "paid") => c \in held
                                      /\ HasStatus(c, "cancelled") => c \notin held

\* While the key lives, a terminal row and the admission agree.
LedgerMatchesAdmission ==
  \A c \in Command : Matches(c) /\ CurrentRun(c) =>
    \A s \in {"paid", "cancelled"} : HasStatus(c, s) => adm[c.uid].state = s

\* A payment the client was told about never loses its unit in this run.
PaidKeepsUnit == \A c \in payAck : CurrentRun(c) => c \in held

\* An order shown to its client that Redis has not settled still has the
\* messages that will settle it: CREATE_ORDER until the ledger row exists,
\* CANCEL_ORDER until the verdict.
PendingOrderHasItsMessages ==
  \A c \in shown :
    /\ InState(c, {"stock_acquired"}) => [kind |-> "create", cmd |-> c] \in msgs
    /\ InState(c, {"stock_acquired", "pending_payment"}) => [kind |-> "timeout", cmd |-> c] \in msgs

\* Redis says cancelled and the ledger still says pending: some message or some
\* process under way will carry the verdict to the ledger.
CancellationIsCarried ==
  \A c \in Command :
    InState(c, {"cancelled"}) /\ HasStatus(c, "pending_payment") =>
      \/ \E k \in {"create", "timeout"} : [kind |-> k, cmd |-> c] \in msgs
      \/ \E p \in Procs : task[p] # None /\ Cmd(p) = c

\* Verdicts are final, in Redis and in the ledger, until a reset removes them or
\* the key expires.
VerdictsAreFinal ==
  [][\A u \in Users :
       /\ adm[u] # None /\ adm[u].state \in {"paid", "cancelled"}
            => adm'[u] \in {adm[u], None}
       /\ ledger[u] # None /\ ledger[u].status \in {"paid", "cancelled"}
            => ledger'[u] \in {ledger[u], None}]_vars

\* Unpaid stock comes back: an order with its timeout message is settled, or
\* its run ends.
UnpaidUnitIsReleased ==
  \A c \in Command :
    (InState(c, {"stock_acquired", "pending_payment"})
      /\ [kind |-> "timeout", cmd |-> c] \in msgs)
        ~> ~InState(c, {"stock_acquired", "pending_payment"})

\* A cancelled order does not stay pending in the ledger.
CancellationReachesLedger ==
  \A c \in Command :
    (InState(c, {"cancelled"}) /\ HasStatus(c, "pending_payment"))
      ~> ~(InState(c, {"cancelled"}) /\ HasStatus(c, "pending_payment"))

\* After a reset that went to its end no admission and no row of an earlier run
\* is left, and no delayed message, stale request or operation that was under
\* way brings one back.
NothingSurvivesReset ==
  clean => \A u \in Users : /\ adm[u] # None => adm[u].id.run = run
                            /\ ledger[u] # None => ledger[u].id.run = run

\* The comment at order.go:175: when Redis says paid and the ledger write failed,
\* retries of the client go on to push the ledger to paid.
RetryPushesLedgerToPaid ==
  \A c \in Command : InState(c, {"paid"}) ~> (HasStatus(c, "paid") \/ ~CurrentRun(c))
=============================================================================
