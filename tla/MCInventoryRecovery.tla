------------------------- MODULE MCInventoryRecovery ------------------------
EXTENDS InventoryRecovery, TLC

OneOfEach == [g \in Gifts |-> 1]

Symmetry == Permutations(Users) \cup Permutations(Handlers)
=============================================================================
