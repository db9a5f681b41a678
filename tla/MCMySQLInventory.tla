-------------------------- MODULE MCMySQLInventory --------------------------
EXTENDS MySQLInventory, TLC

\* One unit of every gift: the second draw of a gift meets an empty stock.
OneUnit == [g \in Gifts |-> 1]

Symmetry == Permutations(Users) \cup Permutations(Gifts) \cup Permutations(Workers)

=============================================================================
