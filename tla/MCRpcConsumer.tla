--------------------------- MODULE MCRpcConsumer ---------------------------
EXTENDS RpcConsumer, TLC
Symmetry == Permutations(Instances)
=============================================================================
