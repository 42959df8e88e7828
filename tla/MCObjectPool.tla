---------------------------- MODULE MCObjectPool ----------------------------
EXTENDS ObjectPool, TLC

CONSTANTS t1, t2, t3, p1, p2

Use(acc, collective, pools) ==
  [USE_ACC |-> acc, collective_num |-> collective, pools |-> pools]

\* One pool with a cache per thread and more market or more collective nodes,
\* or several pools with a cache per thread and pool.
OwnCaches == {Use(FALSE, c, {p}) : c \in {1, 2}, p \in Pools} \cup {Use(TRUE, 2, Pools)}

Symmetry == Permutations(Threads) \cup Permutations(Pools)
=============================================================================
