------------------------ MODULE MCConcurrentHashMap ------------------------
EXTENDS ConcurrentHashMap, TLC
CONSTANTS k1, k2
\* The keys share a bucket until there are eight.
MCHash == k1 :> 0 @@ k2 :> 4
=============================================================================
