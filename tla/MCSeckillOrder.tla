--------------------------- MODULE MCSeckillOrder ---------------------------
EXTENDS SeckillOrder, TLC

\* One unit of every gift: the second user of a gift meets SOLD_OUT.
OneOfEach == [g \in Gifts |-> 1]

Symmetry == Permutations(Users) \cup Permutations(Handlers) \cup Permutations(Gifts)
=============================================================================
