------------------------------ MODULE MCHazptr ------------------------------
EXTENDS Hazptr, TLC

CONSTANTS r1, r2, r3, w1, w2, a, b, c, d

\* Objects are interchangeable, and so are threads of one kind.
Symmetry ==
  Permutations(Objects) \cup Permutations(Readers) \cup Permutations(Writers)
=============================================================================
