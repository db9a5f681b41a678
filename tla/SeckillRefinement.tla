-------------------------- MODULE SeckillRefinement -------------------------
(***************************************************************************)
(* SeckillOrder implements OrderLifecycle: the admission key of the        *)
(* current run is the right, the ledger row of the current run the book,   *)
(* the Redis counter what is on sale.                                      *)
(***************************************************************************)
EXTENDS SeckillOrder

\* None stands for the absence of a right and is not one.
ASSUME RightAssumption == None \notin [gift : Gifts, state : Status]

\* An admission or a row of an earlier run is void: no script and no handler
\* acts on it.
RightOf(u) == IF adm[u] # None /\ adm[u].id.run = run
                THEN [gift |-> adm[u].gift, state |-> adm[u].state]
                ELSE None

BookOf(u) == IF ledger[u] # None /\ ledger[u].id.run = run THEN ledger[u].status ELSE "none"

Lifecycle == INSTANCE OrderLifecycle
               WITH right <- [u \in Users |-> RightOf(u)],
                    book  <- [u \in Users |-> BookOf(u)],
                    avail <- stock

\* The application, its messages, crashes, failed calls and interrupted resets
\* together do only what the life cycle of an order allows.
ImplementsLifecycle == Lifecycle!Spec
=============================================================================
