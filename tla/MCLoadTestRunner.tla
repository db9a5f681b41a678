-------------------------- MODULE MCLoadTestRunner --------------------------
EXTENDS LoadTestRunner, TLC

Symmetry == Permutations(Tasks) \cup Permutations(Evictors)
=============================================================================
