-------------------------- MODULE InventoryRecovery -------------------------
(***************************************************************************)
(* The maintenance command of the seckill experiment: with every           *)
(* application stopped, InitGiftInventory computes the Redis counters anew *)
(* from the ledger and the admissions. SeckillOrder says in which states   *)
(* the application can have been stopped.                                  *)
(***************************************************************************)
EXTENDS SeckillOrder

\* What the recount treats as sold: a row that is not cancelled, or a live
\* admission whose row is missing.
Counted(c) == \/ RowOf(c) # None /\ RowOf(c).status # "cancelled"
              \/ Matches(c) /\ adm[c.uid].state # "cancelled"

\* app.InitializeInventory. A unit that neither the ledger nor Redis remembers
\* (its admission key expired before its message came) goes back on sale.
InitializeInventory ==
  /\ resetPc = "idle" /\ \A p \in Procs : pc[p] = "idle"
  /\ \E done \in SUBSET Gifts :
       /\ Recount(done)
       /\ held' = {c \in held : c.gift \in done => Counted(c)}
  /\ UNCHANGED <<run, adm, ledger, msgs, pc, task, resetPc, nextOrder, expired, shown, payAck>>

RecoveryNext == Next \/ InitializeInventory

RecoverySpec == Init /\ [][RecoveryNext]_vars

-----------------------------------------------------------------------------
\* A recount at any moment the application may be stopped never puts a unit on
\* sale that an order still holds.
NeverOversold == \A g \in Gifts : stock[g] + Cardinality(Units(g)) <= Count[g]
=============================================================================
