---------------------------- MODULE MCEntryGuards ----------------------------
EXTENDS EntryGuards, TLC

Symmetry == Permutations(Workers)

=============================================================================
