-------------------------- MODULE MCCacheExperiment --------------------------
EXTENDS CacheExperiment, TLC

Symmetry == Permutations(Tasks) \cup Permutations(Workers)

=============================================================================
