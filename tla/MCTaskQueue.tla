---------------------------- MODULE MCTaskQueue ----------------------------
EXTENDS TaskQueue, TLC
Symmetry == Permutations(Workers)
=============================================================================
