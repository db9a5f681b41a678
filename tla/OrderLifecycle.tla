--------------------------- MODULE OrderLifecycle ---------------------------
(***************************************************************************)
(* What the seckill service promises each user in the current run, without *)
(* messages, processes or order ids. One verdict per user is taken in one  *)
(* place (the right), a book is kept in another one, and the book only     *)
(* ever writes down what the verdict allows:                               *)
(*   - a right is opened for payment only once the book knows the order;   *)
(*   - the book says paid only after the verdict paid, and cancelled only  *)
(*     after the verdict cancelled;                                        *)
(*   - a unit comes back with the verdict cancelled, and only then.        *)
(***************************************************************************)
EXTENDS Integers, FiniteSets

CONSTANTS Users, Gifts, Count, None

VARIABLES
  right,   \* the gift and the state of each user's right, or None
  book,    \* the status of each user's order in the ledger, or "none"
  avail    \* units on sale

vars == <<right, book, avail>>

Init ==
  /\ right = [u \in Users |-> None]
  /\ book = [u \in Users |-> "none"]
  /\ avail = Count

Is(u, states) == right[u] # None /\ right[u].state \in states

Decide(u, state) == right' = [right EXCEPT ![u].state = state]

Write(u, status) == book' = [book EXCEPT ![u] = status] /\ UNCHANGED <<right, avail>>

Grant(u, g) ==
  /\ right[u] = None /\ avail[g] > 0
  /\ right' = [right EXCEPT ![u] = [gift |-> g, state |-> "stock_acquired"]]
  /\ avail' = [avail EXCEPT ![g] = @ - 1]
  /\ UNCHANGED book

Enter(u) == book[u] = "none" /\ Is(u, {"stock_acquired", "cancelled"}) /\ Write(u, "pending_payment")

Open(u) ==
  /\ Is(u, {"stock_acquired"}) /\ book[u] = "pending_payment"
  /\ Decide(u, "pending_payment")
  /\ UNCHANGED <<book, avail>>

Pay(u) ==
  /\ Is(u, {"pending_payment"})
  /\ Decide(u, "paid")
  /\ UNCHANGED <<book, avail>>

Cancel(u) ==
  /\ Is(u, {"stock_acquired", "pending_payment"})
  /\ Decide(u, "cancelled")
  /\ avail' = [avail EXCEPT ![right[u].gift] = @ + 1]
  /\ UNCHANGED book

BookPaid(u) == book[u] = "pending_payment" /\ Is(u, {"paid"}) /\ Write(u, "paid")

BookCancelled(u) ==
  book[u] \in {"none", "pending_payment"} /\ Is(u, {"cancelled"}) /\ Write(u, "cancelled")

\* A new run voids every right and closes the book at once; until the shelves
\* are filled again there may be less on sale than the quantity.
NewRun ==
  /\ right' = [u \in Users |-> None]
  /\ book' = [u \in Users |-> "none"]
  /\ UNCHANGED avail

Shelves == {left \in [Gifts -> UNION {0 .. Count[g] : g \in Gifts}] :
              \A g \in Gifts : left[g] <= Count[g]}

Restock ==
  /\ \A u \in Users : right[u] = None
  /\ avail' \in Shelves
  /\ UNCHANGED <<right, book>>

Next ==
  \/ \E u \in Users, g \in Gifts : Grant(u, g)
  \/ \E u \in Users : \/ Enter(u) \/ Open(u) \/ Pay(u) \/ Cancel(u)
                      \/ BookPaid(u) \/ BookCancelled(u)
  \/ NewRun
  \/ Restock

Spec == Init /\ [][Next]_vars

=============================================================================
