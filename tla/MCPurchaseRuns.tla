--------------------------- MODULE MCPurchaseRuns ---------------------------
EXTENDS PurchaseRuns, TLC

Symmetry == Permutations(Requests) \cup Permutations(Pages)

=============================================================================
