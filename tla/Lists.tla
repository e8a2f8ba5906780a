-------------------------------- MODULE Lists --------------------------------
(* Lists cut, joined and summed by position: what the code does with loops    *)
(* that append to a slice or add to a total.                                  *)
EXTENDS Integers, Sequences, FiniteSets, SequencesExt, FiniteSetsExt

\* The elements of a list at some positions, in order.
Keep(list, at) ==
    FlattenSeq([k \in DOMAIN list |-> IF k \in at THEN <<list[k]>> ELSE <<>>])

\* The numbers of a set in increasing order.
Sorted(set) ==
    [k \in 1..Cardinality(set) |->
        CHOOSE x \in set : Cardinality({y \in set : y < x}) = k - 1]

\* The elements of a list at the positions of another.
Pick(list, at) == [k \in DOMAIN at |-> list[at[k]]]

\* The cells of a table, row by row.
Grid(rows, columns) ==
    [x \in 1..(rows * columns) |-> <<1 + (x - 1) \div columns, 1 + ((x - 1) % columns)>>]

\* The sum of cost[1] to cost[n], and that of a list's costs.
SumTo(cost, n) ==
    LET total[k \in 0..n] == IF k = 0 THEN 0 ELSE total[k - 1] + cost[k] IN total[n]

SumOf(list, Cost(_)) == SumTo([k \in DOMAIN list |-> Cost(list[k])], Len(list))
=============================================================================
