---------------------------- MODULE TableLookup ----------------------------
(***************************************************************************)
(* The delay calculator of src-dut: lookup_table_value finds the interval  *)
(* of the slew and of the load in the axes of an NLDM table, reads the     *)
(* four entries around the point and interpolates.                         *)
(*                                                                         *)
(* The numbers of the axes are integers (their order is what matters).     *)
(* What an entry holds is left out: an entry is the pair of its row and    *)
(* column.  liberty_get_values_data stores the rows one after another, a   *)
(* row for each slew (liberty_get_element, PI.c:5941).                     *)
(***************************************************************************)
EXTENDS Integers

CONSTANTS Axes,       \* axes a table may have: functions from 0..n-1 to Int
          MaxSize,    \* entries of the longest
          Points,     \* slews and loads that are looked up
          Outside     \* memory past the values of the table

Size(axis) == CHOOSE n \in 1..MaxSize : DOMAIN axis = 0..(n - 1)

\* An axis is increasing.
ASSUME AxesAssumption ==
    /\ MaxSize \in Nat /\ Points \subseteq Int
    /\ \A axis \in Axes :
        \E n \in 1..MaxSize :
            /\ axis \in [0..(n - 1) -> Int]
            /\ \A a, b \in 0..(n - 1) : a < b => axis[a] < axis[b]

VARIABLES pc,                     \* "ranges", "slew", "load", "read" or "done"
          slews, loads,           \* index_info[0], index_info[1]
          slew, load,
          slew_index, load_index,
          x1, x2, y1, y2,
          corner,                 \* q11, q21, q12 and q22: the entries read
          in_range                \* no 0.0 was returned for the ranges

vars == <<pc, slews, loads, slew, load, slew_index, load_index, x1, x2, y1, y2, corner, in_range>>
call == <<slews, loads, slew, load>>

num_slews == Size(slews)
num_loads == Size(loads)

Init ==
    /\ pc = "ranges"
    /\ slews \in Axes /\ loads \in Axes
    /\ slew \in Points /\ load \in Points
    /\ slew_index = 0 /\ load_index = 0
    /\ x1 = 0 /\ x2 = 0 /\ y1 = 0 /\ y2 = 0
    /\ corner = [q \in {} |-> Outside]
    /\ in_range = TRUE

Within(axis, x) == axis[0] <= x /\ x <= axis[Size(axis) - 1]

InRange == Within(slews, slew) /\ Within(loads, load)

CheckRanges ==
    /\ pc = "ranges"
    /\ in_range' = InRange
    /\ pc' = IF InRange THEN "slew" ELSE "done"
    /\ UNCHANGED <<call, slew_index, load_index, x1, x2, y1, y2, corner>>

\* Past its end an axis has a number of no meaning.
At(axis, k) == IF k \in DOMAIN axis THEN axis[k] ELSE 0

Above(a, b) == a > b

IndexKept(i) == i                                           \* (variant) no slew_index--
IndexBelow(i) == i - 1

\* for (; slew_index < num_slews; slew_index++): one pass, or the code after it.
ScanSlew ==
    /\ pc = "slew"
    /\ IF slew_index < num_slews /\ ~Above(At(slews, slew_index), slew)
       THEN /\ x2' = At(slews, slew_index)
            /\ slew_index' = slew_index + 1
            /\ UNCHANGED <<pc, x1>>
       ELSE /\ x2' = IF slew_index < num_slews THEN At(slews, slew_index) ELSE x2
            /\ slew_index' = IndexBelow(slew_index)
            /\ x1' = At(slews, slew_index')
            /\ pc' = "load"
    /\ UNCHANGED <<call, load_index, y1, y2, corner, in_range>>

ScanLoad ==
    /\ pc = "load"
    /\ IF load_index < num_loads /\ ~Above(At(loads, load_index), load)
       THEN /\ y2' = At(loads, load_index)
            /\ load_index' = load_index + 1
            /\ UNCHANGED <<pc, y1>>
       ELSE /\ y2' = IF load_index < num_loads THEN At(loads, load_index) ELSE y2
            /\ load_index' = IndexBelow(load_index)
            /\ y1' = At(loads, load_index')
            /\ pc' = "read"
    /\ UNCHANGED <<call, slew_index, x1, x2, corner, in_range>>

\* table->values[index]
Entry(index) ==
    IF index < num_slews * num_loads
    THEN <<index \div num_loads, index % num_loads>>
    ELSE Outside

SwapOffset(i, j) == num_slews * j + i                       \* (variant) row and column swapped
Offset(i, j) == num_slews * i + j

ReadCorners ==
    /\ pc = "read"
    /\ corner' = [q \in {0, 1} \X {0, 1} |-> Entry(Offset(slew_index + q[1], load_index + q[2]))]
    /\ pc' = "done"
    /\ UNCHANGED <<call, slew_index, load_index, x1, x2, y1, y2, in_range>>

Next == CheckRanges \/ ScanSlew \/ ScanLoad \/ ReadCorners

Spec == Init /\ [][Next]_vars

-----------------------------------------------------------------------------
(* BilinearInterpolation: the result is the sum of Weight(q) * values(q) over *)
(* the four corners, divided by Area.                                        *)

Area == (x2 - x1) * (y2 - y1)
Weight(q) == (IF q[1] = 0 THEN x2 - slew ELSE slew - x1) *
             (IF q[2] = 0 THEN y2 - load ELSE load - y1)

Returned == pc = "done" /\ in_range
Square == num_slews = num_loads
BelowLimits == slew < slews[num_slews - 1] /\ load < loads[num_loads - 1]

\* The four entries of a square table are those of the grid cell that holds the
\* point, each in the place the interpolation expects it: the point's interval in
\* both axes.  (At the upper limit of an axis, and in a table that is not square,
\* other entries are read, or memory past the table.)
CornersSurround ==
    Returned /\ BelowLimits /\ Square =>
        \A q \in {0, 1} \X {0, 1} :
            /\ corner[q] = <<slew_index + q[1], load_index + q[2]>>
            /\ At(slews, slew_index) <= slew /\ slew < At(slews, slew_index + 1)
            /\ At(loads, load_index) <= load /\ load < At(loads, load_index + 1)

\* The delay lies between the values of the corners: no weight is negative, they
\* add up to the area, and the area is not zero.
ConvexCombination ==
    Returned /\ BelowLimits =>
        /\ \A q \in {0, 1} \X {0, 1} : Weight(q) >= 0
        /\ Weight(<<0, 0>>) + Weight(<<0, 1>>) + Weight(<<1, 0>>) + Weight(<<1, 1>>) = Area
        /\ Area > 0

=============================================================================
