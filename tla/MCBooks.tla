------------------------------- MODULE MCBooks -----------------------------
(* A stored statement of one row, on day 1.  Files are read as that row,   *)
(* as that row and another of day 3, as the same two with the direction    *)
(* the member answered (the mirrors of 1 and 2), as two rows of the days 3 *)
(* and 4, and as the same money through other label and date columns, on   *)
(* the days 4 and 5.                                                       *)
EXTENDS Books, TLC

MCRows == 1 .. 7
MCFirst == [rows |-> {1}, from |-> 1, to |-> 1, answered |-> FALSE]
MCReadings ==
    {MCFirst,
     [rows |-> {1, 2}, from |-> 1, to |-> 3, answered |-> FALSE],
     [rows |-> {3, 4}, from |-> 1, to |-> 3, answered |-> TRUE],
     [rows |-> {2, 4}, from |-> 3, to |-> 3, answered |-> FALSE],
     [rows |-> {2, 5}, from |-> 3, to |-> 4, answered |-> FALSE],
     [rows |-> {6, 7}, from |-> 4, to |-> 5, answered |-> FALSE]}
MCAmount == <<1, 2, 1, 2, 1, 2, 1>>
MCExpenses == {3, 4, 5, 7}
MCMirror == [k \in {3, 4} |-> k - 2]
MCDivided == {2}
Symmetry == Permutations(Requests) \cup Permutations(Lines)
=============================================================================
