------------------------- MODULE AbstractSequence --------------------------
(* What SPSCQueue, LockFreeQueue and HazptrStack promise: threads put       *)
(* values into a sequence and take them out in one step each, at the end    *)
(* they were put in last (a stack) or at the other one (a queue).           *)
EXTENDS Sequences, Integers
CONSTANTS Threads, Nothing, Empty
VARIABLES lifo, seq, got

Init == seq = <<>> /\ got = [t \in Threads |-> Nothing] /\ lifo \in BOOLEAN

Put ==
    /\ Len(seq') = Len(seq) + 1
    /\ SubSeq(seq', 1, Len(seq)) = seq
    /\ UNCHANGED <<lifo, got>>
Take(t) == LET i == IF lifo THEN Len(seq) ELSE 1 IN
    /\ got[t] = Nothing /\ seq # <<>>
    /\ got' = [got EXCEPT ![t] = seq[i]]
    /\ seq' = SubSeq(seq, 1, i - 1) \o SubSeq(seq, i + 1, Len(seq))
    /\ UNCHANGED lifo
TakeNothing(t) ==
    /\ got[t] = Nothing /\ seq = <<>>
    /\ got' = [got EXCEPT ![t] = Empty]
    /\ UNCHANGED <<lifo, seq>>
Return(t) ==
    /\ got[t] # Nothing
    /\ got' = [got EXCEPT ![t] = Nothing]
    /\ UNCHANGED <<lifo, seq>>

Next == Put \/ \E t \in Threads : Take(t) \/ TakeNothing(t) \/ Return(t)
Spec == Init /\ [][Next]_<<lifo, seq, got>>
=============================================================================
