----------------------------- MODULE RingBuffer -----------------------------
(* base::container::RingBuffer (src/container/ringbuffer.h), and the two    *)
(* windows of small_test/window.cc that are built on a copy of it:          *)
(* FixedWindow keeps the last elements, TimeWindow those of the last time.  *)
(* One thread.  spec is the sequence of elements that should be inside, as  *)
(* the calls alone determine it.                                            *)
EXTENDS Integers, Sequences, SequencesExt
CONSTANTS Capacities, Gaps, MaxOps
VARIABLES obj, spec, calls
vars == <<obj, spec, calls>>

Garbage == -1     \* what memory holds before an element is put there
Unpromised == -2  \* in spec: an element the code gives no promise about
\* One buffer: kind says how it is used, Overwrite and trivial are the template
\* argument and whether elements are trivially destructible, gap is _window_gap;
\* uncleared is auxiliary: a clear of this buffer did nothing.
Buffer(kind, c, overwrite, trivial, gap) ==
    [kind |-> kind, elements |-> [i \in 0..(c - 1) |-> Garbage], capacity |-> c, head |-> 0,
     tail |-> -1, size |-> 0, Overwrite |-> overwrite, trivial |-> trivial, gap |-> gap,
     uncleared |-> FALSE]
Init ==
    /\ \E c \in Capacities, trivial, overwrite \in BOOLEAN, gap \in Gaps :
          obj \in {Buffer("ring", c, overwrite, trivial, 0), Buffer("fixed", c, TRUE, trivial, 0),
                   Buffer("time", c, TRUE, trivial, gap)}
    /\ spec = <<>> /\ calls = 0
Op == calls < MaxOps /\ calls' = calls + 1

empty(b) == b.size = 0
full(b) == b.size = b.capacity
front(b) == b.elements[b.head]
back(b) == b.elements[b.tail]
at(b, i) == b.elements[(i + b.head) % b.capacity]
PopFront(b) == IF empty(b) THEN b
               ELSE [b EXCEPT !.size = @ - 1, !.head = (@ + 1) % b.capacity]
EmplaceImpl(b, v) == LET t == (b.tail + 1) % b.capacity
                     IN  [b EXCEPT !.tail = t, !.elements[t] = v, !.size = @ + 1]
\* Mutation: a full buffer keeps its head.
EmplaceNoPop(b, v) == IF full(b) /\ ~b.Overwrite THEN b ELSE EmplaceImpl(b, v)
Emplace(b, v) == IF ~full(b) THEN EmplaceImpl(b, v)
                 ELSE IF b.Overwrite THEN EmplaceImpl(PopFront(b), v) ELSE b
\* What an iterator finds that starts at i and is increased until its count is
\* size_, forwards or backwards.
Iterate(b, i, backwards) ==
    [k \in 1..b.size |-> b.elements[(IF backwards THEN i + (k - 1) * (b.capacity - 1) ELSE i + k - 1)
                                    % b.capacity]]
\* remove_expired_data: from the front, up to the first element that is recent.
Expired(b, now) ==
    LET E[x \in 0..b.size] == IF x < b.size /\ now - at(b, x) > b.gap THEN E[x + 1] ELSE x
        P[x \in 0..b.size] == IF x = 0 THEN b ELSE PopFront(P[x - 1])
    IN  P[E[0]]
-----------------------------------------------------------------------------
Newest(s, n) == SubSeq(s, IF Len(s) > n THEN Len(s) - n + 1 ELSE 1, Len(s))
\* The elements of a TimeWindow are their time stamps, which the callers take
\* from the clock: they do not decrease.
emplace_back(v) ==
    LET b == Emplace(obj, v) IN
    /\ Op
    /\ (obj.kind = "time" /\ ~empty(obj)) => v >= back(obj)
    /\ obj' = IF obj.kind = "time" THEN Expired(b, v) ELSE b
    /\ spec' = IF Len(spec) = obj.capacity /\ ~obj.Overwrite THEN spec
               ELSE SelectSeq(Newest(Append(spec, v), obj.capacity),
                              LAMBDA x : obj.kind = "time" => v - x <= obj.gap)
pop_front ==
    /\ Op /\ obj.kind = "ring"
    /\ obj' = PopFront(obj)
    /\ spec' = IF spec = <<>> THEN spec ELSE Tail(spec)
\* Elements that need a destructor are destroyed one by one from the head.
DestroyAll(b) == [b EXCEPT !.head = (@ + b.size) % b.capacity, !.size = 0]
clear ==
    /\ Op /\ obj.kind = "ring"
    /\ obj' = IF obj.trivial THEN [obj EXCEPT !.head = 0, !.tail = -1, !.size = 0] ELSE DestroyAll(obj)
    /\ spec' = <<>>
\* The copy of the class the windows use does nothing with trivial elements.
window_clear ==
    /\ Op /\ obj.kind # "ring"
    /\ obj' = IF obj.trivial THEN [obj EXCEPT !.uncleared = TRUE] ELSE DestroyAll(obj)
    /\ spec' = <<>>
\* size_ elements are copied from the beginning of the memory.
Copied(b) == [i \in 0..(b.capacity - 1) |-> IF i < b.size THEN b.elements[i] ELSE Garbage]
\* operator= with the buffer itself or an equal one: copy and swap.  When it has
\* been popped and is not full its elements are not at the beginning of the
\* memory: the copy has as many elements, but not promised ones.
assign ==
    /\ Op /\ obj.kind = "ring"
    /\ obj' = [obj EXCEPT !.elements = Copied(obj)]
    /\ spec' = IF full(obj) \/ obj.head = 0 THEN spec ELSE [i \in DOMAIN spec |-> Unpromised]
\* FixedWindow::resize puts the elements into a new buffer.
resize(c) ==
    LET old == Iterate(obj, obj.head, FALSE)
        R[x \in 0..obj.size] == IF x = 0 THEN [Buffer("fixed", c, TRUE, obj.trivial, 0) EXCEPT
                                                    !.uncleared = obj.uncleared]
                                ELSE Emplace(R[x - 1], old[x])
    IN  /\ Op /\ obj.kind = "fixed"
        /\ obj' = R[obj.size]
        /\ spec' = Newest(spec, c)

Next == \/ \E v \in 1..MaxOps : emplace_back(v)
        \/ pop_front \/ clear \/ window_clear \/ assign \/ \E c \in Capacities : resize(c)
Spec == Init /\ [][Next]_vars
-----------------------------------------------------------------------------
\* Forward and backward iterators, at, front and back show the same elements,
\* oldest first, however often the buffer has gone round; there are as many as
\* should be inside, and the newest are those that should.  A window of trivial
\* elements that has been cleared may show older ones before them, and of the
\* elements a copy of a popped buffer took over only the number is right.
ShowsSpec ==
    LET shown == Iterate(obj, obj.head, FALSE)
        older == obj.size - Len(spec) IN
    /\ older >= 0 /\ (older > 0 => obj.uncleared)
    /\ \A i \in DOMAIN spec : spec[i] \in {Unpromised, shown[older + i]}
    /\ \A i \in DOMAIN shown : at(obj, i - 1) = shown[i]
    /\ ~empty(obj) => /\ Iterate(obj, obj.tail, TRUE) = Reverse(shown)
                      /\ front(obj) = shown[1] /\ back(obj) = shown[obj.size]
=============================================================================
