------------------------- MODULE MCConcurrentVector -------------------------
EXTENDS ConcurrentVector

CONSTANTS t1, t2, t3

Symmetry == Permutations(Threads)
=============================================================================
