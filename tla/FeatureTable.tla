---------------------------- MODULE FeatureTable ----------------------------
(* FeatureTable (src/feature_table.cpp): columns that share one list of the *)
(* rows that are there, so that removing and sorting touch the list only.   *)
(* One table.  spec remembers the rows that must be listed and those that   *)
(* have left the list for good.                                             *)
EXTENDS Integers, Sequences, SequencesExt, FiniteSetsExt
CONSTANTS Columns, Values, MaxRows, MaxOps
VARIABLES obj, spec, calls
vars == <<obj, spec, calls>>

\* list and max_idx of IdxList, data_ of every column.
Init == /\ obj = [list |-> <<>>, max_idx |-> -1, data |-> [c \in Columns |-> <<>>]]
        /\ spec = [kept |-> {}, gone |-> {}]
        /\ calls = 0
Op == calls < MaxOps /\ calls' = calls + 1
Rows == Range(obj.list)
\* What get_by_idx finds in a column for each row that is listed: its value or,
\* behind the end of a column that is shorter, whatever memory holds.
Reads(c) == {value \in [Rows -> Values] :
                \A row \in Rows : row < Len(obj.data[c]) => value[row] = obj.data[c][row + 1]}

\* Mutation: the row's other columns list it again.
add_idx_again(o, new) == IF new >= o.max_idx THEN [o EXCEPT !.list = Append(@, new), !.max_idx = new] ELSE o
add_idx(o, new) == IF new > o.max_idx THEN [o EXCEPT !.list = Append(@, new), !.max_idx = new] ELSE o
push_back(c, v) ==
    LET new == Len(obj.data[c])
        first == \A d \in Columns : Len(obj.data[d]) <= new IN
    /\ Op /\ new < MaxRows
    /\ obj' = [add_idx(obj, new) EXCEPT !.data[c] = Append(@, v)]
    /\ spec' = IF first THEN [spec EXCEPT !.kept = @ \cup {new}] ELSE spec

\* rows may leave the list; those that leave it with a value in every column
\* are gone.
Leave(rows) ==
    spec' = [kept |-> spec.kept \ rows,
             gone |-> spec.gone \cup {row \in Rows \ Rows' : \A c \in Columns : row < Len(obj.data[c])}]
\* IdxList::remove_row takes the i-th row off the list.
RemoveRow(o, i) == LET rest == RemoveAt(o.list, i)
                   IN  [o EXCEPT !.list = rest, !.max_idx = Max({-1} \cup Range(rest))]
remove_row(i) ==
    /\ Op
    /\ obj' = RemoveRow(obj, i)
    /\ Leave({obj.list[i]})
\* DataVector::remove leaves max_idx alone.
remove(i) ==
    /\ Op
    /\ obj' = [obj EXCEPT !.list = RemoveAt(@, i)]
    /\ Leave({obj.list[i]})
\* filter removes the rows whose value is in matching, but goes on to the row
\* after the next one when it has removed one.
filter(c, matching) ==
    /\ Op
    /\ \E value \in Reads(c) :
        LET G[n \in 0..Len(obj.list)] ==   \* after n turns of the loop: the table and the place
                IF n = 0 THEN <<obj, 1>>
                ELSE LET o == G[n - 1][1]
                         i == G[n - 1][2]
                     IN  IF i > Len(o.list) THEN <<o, i>>
                         ELSE <<IF value[o.list[i]] \in matching THEN RemoveRow(o, i) ELSE o, i + 1>>
        IN  /\ obj' = G[Len(obj.list)][1]
            /\ Leave({row \in Rows : value[row] \in matching})
\* std::sort by a column: equal rows end up in any order.
sort_by(c) ==
    /\ Op
    /\ \E value \in Reads(c), s \in SetToSeqs(Rows) :
          /\ \A i \in 1..(Len(s) - 1) : value[s[i]] <= value[s[i + 1]]
          /\ obj' = [obj EXCEPT !.list = s]
    /\ UNCHANGED spec

Next == \/ \E c \in Columns, v \in Values : push_back(c, v)
        \/ \E i \in 1..Len(obj.list) : remove_row(i) \/ remove(i)
        \/ \E c \in Columns, matching \in SUBSET Values : filter(c, matching)
        \/ \E c \in Columns : sort_by(c)
Spec == Init /\ [][Next]_vars
-----------------------------------------------------------------------------
\* No row is listed twice; a row that was put in and neither removed nor matched
\* by a filter is listed, whatever sorts and removals came between and however
\* far the columns are from each other; a row that left the list with all its
\* values is never listed again.  A row removed before its last value was pushed
\* may come back, and a filter may leave matching rows: nothing is claimed there.
RowsKept ==
    /\ IsInjective(obj.list)
    /\ spec.kept \subseteq Rows
    /\ spec.gone \cap Rows = {}
=============================================================================
