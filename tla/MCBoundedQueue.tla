--------------------------- MODULE MCBoundedQueue ---------------------------
EXTENDS BoundedQueue, TLC

CONSTANTS t1, t2, t3, t4

\* Pushing and popping threads are interchangeable among themselves.
Symmetry == Permutations(Pushers) \cup Permutations(Poppers)
=============================================================================
