--------------------------- MODULE MCTaskReplies ---------------------------
EXTENDS TaskReplies, TLC
Symmetry == Permutations(Chains)
=============================================================================
