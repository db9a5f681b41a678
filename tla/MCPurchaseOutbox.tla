-------------------------- MODULE MCPurchaseOutbox --------------------------
EXTENDS PurchaseOutbox, TLC

\* One experiment request that expands to all purchases; sent again, it repeats
\* each of them.
OneRequest == {Requests}

Symmetry == Permutations(Requests) \cup Permutations(Readers)
=============================================================================
