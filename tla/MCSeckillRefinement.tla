------------------------- MODULE MCSeckillRefinement ------------------------
EXTENDS SeckillRefinement, TLC

OneOfEach == [g \in Gifts |-> 1]

Symmetry == Permutations(Users) \cup Permutations(Handlers)
=============================================================================
