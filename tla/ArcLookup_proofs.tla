-------------------------- MODULE ArcLookup_proofs --------------------------
(***************************************************************************)
(* For every table and every point below its upper limits lookup_table_value*)
(* returns a convex combination of entries, and for a square table of the  *)
(* four entries around the point.  For every library: how far a slew and a *)
(* load that the generator draws from the tables of an arc can be outside  *)
(* the tables the calculator looks them up in.                             *)
(*                                                                         *)
(* The argument for the lookup: an axis is scanned as long as its entries  *)
(* are at most the point, and the range check has made sure that the first *)
(* one is.  So the scan stops behind an entry that is at most the point,   *)
(* and in front of a larger one unless it has gone through the whole axis. *)
(* For the generator: the limits CellArc folds from the four tables are    *)
(* limits of each of them; the receivers' pins move the lower limit of the *)
(* load down and the upper one down too; and a number changes by at most   *)
(* Rounding until it is looked up, which is less than what the stress      *)
(* suite keeps between a draw and the upper limit.                         *)
(***************************************************************************)
EXTENDS ArcLookup, WellFoundedInduction, TLAPS

-----------------------------------------------------------------------------
(* The lookup in one table.                                                  *)

\* The entries in front of i are at most x.
Scanned(axis, x, i) ==
    /\ i \in 0..Size(axis)
    /\ \A a \in 0..(i - 1) : axis[a] <= x

\* i is the last entry that is at most x: lo, followed by hi if anything follows.
Bracketed(axis, x, i, lo, hi) ==
    /\ i \in 0..(Size(axis) - 1)
    /\ lo = axis[i] /\ lo <= x
    /\ i + 1 < Size(axis) => hi = axis[i + 1] /\ x < hi

Sound ==
    /\ slews \in Axes /\ loads \in Axes
    /\ slew \in Int /\ load \in Int
    /\ pc \in {"ranges", "slew"} => load_index = 0
    /\ pc = "ranges" => slew_index = 0
    /\ pc # "ranges" => InRange
    /\ pc = "slew" => Scanned(slews, slew, slew_index)
    /\ pc = "load" => Scanned(loads, load, load_index)
    /\ pc \in {"load", "read", "done"} => Bracketed(slews, slew, slew_index, x1, x2)
    /\ pc \in {"read", "done"} => Bracketed(loads, load, load_index, y1, y2)
    /\ pc = "done" =>
          corner = [q \in {0, 1} \X {0, 1} |-> Entry(Offset(slew_index + q[1], load_index + q[2]))]

IInv ==
    /\ pc \in {"ranges", "slew", "load", "read", "done"}
    /\ in_range \in BOOLEAN
    /\ (pc = "done" /\ ~in_range) \/ Sound
    /\ in_range \/ pc = "done"

-----------------------------------------------------------------------------
\* Size is the number of entries of an axis, and the entries increase.
LEMMA AxisSize ==
    ASSUME NEW axis \in Axes
    PROVE  /\ Size(axis) \in 1..MaxSize
           /\ Size(axis) \in Nat \ {0}
           /\ axis \in [0..(Size(axis) - 1) -> Int]
           /\ DOMAIN axis = 0..(Size(axis) - 1)
           /\ \A a, b \in 0..(Size(axis) - 1) : a < b => axis[a] < axis[b]
<1>1. PICK n \in 1..MaxSize :
          /\ axis \in [0..(n - 1) -> Int]
          /\ \A a, b \in 0..(n - 1) : a < b => axis[a] < axis[b]
  BY AxesAssumption
<1>2. MaxSize \in Nat /\ n \in Nat \ {0} /\ DOMAIN axis = 0..(n - 1)
  BY <1>1, AxesAssumption
<1>3. \A m \in 1..MaxSize : DOMAIN axis = 0..(m - 1) => m = n
  <2> TAKE m \in 1..MaxSize
  <2> HAVE DOMAIN axis = 0..(m - 1)
  <2>1. m \in Nat \ {0} /\ 0..(m - 1) = 0..(n - 1)
    BY <1>2
  <2>2. m - 1 \in 0..(n - 1) /\ n - 1 \in 0..(m - 1)
    BY <2>1, <1>2
  <2> QED
    BY <2>1, <2>2, <1>2
<1>4. Size(axis) = n
  BY <1>2, <1>3 DEF Size
<1> QED
  BY <1>1, <1>2, <1>4

\* The element of row i and column j of a table with rows of n.
LEMMA RowAndColumn ==
    ASSUME NEW n \in Nat \ {0}, NEW i \in Nat, NEW j \in 0..(n - 1)
    PROVE  (n * i + j) \div n = i /\ (n * i + j) % n = j
  BY Z3

LEMMA InsideSquare ==
    ASSUME NEW n \in Nat \ {0}, NEW i \in 0..(n - 1), NEW j \in 0..(n - 1)
    PROVE  n * i + j < n * n
<1>1. n * i <= n * (n - 1)
  BY Z3
<1>2. n * (n - 1) = n * n - n
  BY Z3
<1>3. n * i \in Int /\ n * n \in Int
  BY Z3
<1> QED
  BY <1>1, <1>2, <1>3

-----------------------------------------------------------------------------
\* A pass of a scan, and where it stops.
LEMMA ScanGoesOn ==
    ASSUME NEW axis \in Axes, NEW x \in Int, NEW i, Scanned(axis, x, i),
           i < Size(axis), ~Above(At(axis, i), x)
    PROVE  Scanned(axis, x, i + 1)
<1>1. axis[i] \in Int /\ i \in 0..(Size(axis) - 1) /\ axis[i] <= x
  BY AxisSize DEF Scanned, Above, At
<1>2. \A a \in 0..((i + 1) - 1) : a = i \/ a \in 0..(i - 1)
  BY <1>1, AxisSize
<1> QED
  BY <1>1, <1>2, AxisSize DEF Scanned

LEMMA ScanStops ==
    ASSUME NEW axis \in Axes, NEW x \in Int, NEW i, NEW hi, Scanned(axis, x, i),
           axis[0] <= x,
           ~(i < Size(axis) /\ ~Above(At(axis, i), x)),
           i < Size(axis) => hi = At(axis, i)
    PROVE  Bracketed(axis, x, IndexBelow(i), At(axis, IndexBelow(i)), hi)
<1>1. Size(axis) \in Nat \ {0} /\ axis \in [0..(Size(axis) - 1) -> Int]
  BY AxisSize
<1>2. i # 0
  BY <1>1 DEF Above, At
<1>3. i - 1 \in 0..(Size(axis) - 1) /\ axis[i - 1] <= x
  BY <1>1, <1>2 DEF Scanned
<1>4. (i - 1) + 1 < Size(axis) => hi = axis[(i - 1) + 1] /\ x < hi
  BY <1>1, <1>2 DEF Scanned, Above, At
<1> QED
  BY <1>1, <1>3, <1>4 DEF Bracketed, IndexBelow, At

LEMMA NothingScanned ==
    ASSUME NEW axis \in Axes, NEW x
    PROVE  Scanned(axis, x, 0)
BY AxisSize DEF Scanned

\* Every step of a lookup keeps the invariant.
LEMMA LookupStepKeepsInv == IInv /\ [Next]_vars => IInv'
<1> SUFFICES ASSUME IInv, [Next]_vars
             PROVE  IInv'
  OBVIOUS
<1>1. CASE CheckRanges
  <2>1. Sound /\ in_range /\ pc = "ranges"
    BY <1>1 DEF IInv, CheckRanges
  <2>2. InRange' <=> InRange
    BY <1>1 DEF CheckRanges, call, InRange, Within
  <2>3. in_range' \in BOOLEAN /\ (in_range' <=> InRange)
    BY <1>1, <2>1, AxisSize DEF CheckRanges, InRange, Within, Sound
  <2>4. Scanned(slews, slew, 0)
    BY <2>1, NothingScanned DEF Sound
  <2>5. CASE InRange
    <3>1. Sound'
      BY <1>1, <2>1, <2>2, <2>4, <2>5 DEF CheckRanges, Sound, call, Scanned, Size
    <3> QED
      BY <1>1, <2>3, <2>5, <3>1 DEF IInv, CheckRanges
  <2>6. CASE ~InRange
    BY <1>1, <2>3, <2>6 DEF IInv, CheckRanges
  <2> QED
    BY <2>5, <2>6
<1>2. CASE ScanSlew
  <2>1. Sound /\ in_range /\ pc = "slew" /\ Scanned(slews, slew, slew_index) /\ load_index = 0
    BY <1>2 DEF IInv, ScanSlew, Sound
  <2>2. /\ slews' = slews /\ slew' = slew /\ loads' = loads /\ load' = load
        /\ load_index' = load_index /\ in_range' = in_range
    BY <1>2 DEF ScanSlew, call
  <2>3. InRange /\ InRange' /\ slews[0] <= slew
    BY <2>1, <2>2 DEF Sound, InRange, Within, Size
  <2>4. CASE slew_index < num_slews /\ ~Above(At(slews, slew_index), slew)
    <3>1. Scanned(slews, slew, slew_index + 1)
      BY <2>1, <2>4, ScanGoesOn DEF Sound, num_slews
    <3>2. pc' = "slew" /\ slew_index' = slew_index + 1
      BY <1>2, <2>1, <2>4 DEF ScanSlew
    <3> QED
      BY <2>1, <2>2, <2>3, <3>1, <3>2 DEF IInv, Sound, Scanned, Size
  <2>5. CASE ~(slew_index < num_slews /\ ~Above(At(slews, slew_index), slew))
    <3>1. /\ pc' = "load" /\ slew_index' = IndexBelow(slew_index)
          /\ x1' = At(slews, IndexBelow(slew_index))
          /\ slew_index < Size(slews) => x2' = At(slews, slew_index)
      BY <1>2, <2>5 DEF ScanSlew, num_slews
    <3>2. Bracketed(slews, slew, slew_index', x1', x2')
      BY <2>1, <2>3, <2>5, <3>1, ScanStops DEF Sound, num_slews
    <3>3. Scanned(loads, load, 0)
      BY <2>1, NothingScanned DEF Sound
    <3> QED
      BY <2>1, <2>2, <2>3, <3>1, <3>2, <3>3 DEF IInv, Sound, Scanned, Bracketed, Size
  <2> QED
    BY <2>4, <2>5
<1>3. CASE ScanLoad
  <2>1. /\ Sound /\ in_range /\ pc = "load" /\ Scanned(loads, load, load_index)
        /\ Bracketed(slews, slew, slew_index, x1, x2)
    BY <1>3 DEF IInv, ScanLoad, Sound
  <2>2. /\ slews' = slews /\ slew' = slew /\ loads' = loads /\ load' = load
        /\ slew_index' = slew_index /\ x1' = x1 /\ x2' = x2 /\ in_range' = in_range
    BY <1>3 DEF ScanLoad, call
  <2>3. InRange /\ InRange' /\ loads[0] <= load
    BY <2>1, <2>2 DEF Sound, InRange, Within, Size
  <2>4. CASE load_index < num_loads /\ ~Above(At(loads, load_index), load)
    <3>1. Scanned(loads, load, load_index + 1)
      BY <2>1, <2>4, ScanGoesOn DEF Sound, num_loads
    <3>2. pc' = "load" /\ load_index' = load_index + 1
      BY <1>3, <2>1, <2>4 DEF ScanLoad
    <3> QED
      BY <2>1, <2>2, <2>3, <3>1, <3>2 DEF IInv, Sound, Scanned, Bracketed, Size
  <2>5. CASE ~(load_index < num_loads /\ ~Above(At(loads, load_index), load))
    <3>1. /\ pc' = "read" /\ load_index' = IndexBelow(load_index)
          /\ y1' = At(loads, IndexBelow(load_index))
          /\ load_index < Size(loads) => y2' = At(loads, load_index)
      BY <1>3, <2>5 DEF ScanLoad, num_loads
    <3>2. Bracketed(loads, load, load_index', y1', y2')
      BY <2>1, <2>3, <2>5, <3>1, ScanStops DEF Sound, num_loads
    <3> QED
      BY <2>1, <2>2, <2>3, <3>1, <3>2 DEF IInv, Sound, Bracketed, Size
  <2> QED
    BY <2>4, <2>5
<1>4. CASE ReadCorners
  <2>1. Sound /\ in_range /\ pc = "read"
    BY <1>4 DEF IInv, ReadCorners
  <2> QED
    BY <1>4, <2>1
    DEF IInv, Sound, ReadCorners, call, Bracketed, Size, InRange, Within, Entry, Offset,
        num_slews, num_loads
<1>5. CASE UNCHANGED vars
  BY <1>5
  DEF IInv, Sound, vars, Scanned, Bracketed, Size, InRange, Within, Entry, Offset,
      num_slews, num_loads
<1> QED
  BY <1>1, <1>2, <1>3, <1>4, <1>5 DEF Next

-----------------------------------------------------------------------------
\* Below the upper limits both brackets have two ends.
LEMMA BracketedBelow ==
    ASSUME NEW axis \in Axes, NEW x \in Int, NEW i, NEW lo, NEW hi,
           Bracketed(axis, x, i, lo, hi), x < axis[Size(axis) - 1]
    PROVE  /\ i \in Nat /\ i + 1 \in 0..(Size(axis) - 1)
           /\ lo = axis[i] /\ hi = axis[i + 1]
           /\ lo \in Int /\ hi \in Int
           /\ lo <= x /\ x < hi
<1>1. Size(axis) \in Nat \ {0} /\ axis \in [0..(Size(axis) - 1) -> Int]
  BY AxisSize
<1>2. i \in 0..(Size(axis) - 1) /\ lo = axis[i] /\ lo <= x
  BY DEF Bracketed
<1>3. i # Size(axis) - 1
  BY <1>1, <1>2
<1>4. i \in Nat /\ i + 1 \in 0..(Size(axis) - 1) /\ i + 1 < Size(axis)
  BY <1>1, <1>2, <1>3
<1> QED
  BY <1>1, <1>2, <1>4 DEF Bracketed

LEMMA InvImpliesCornersSurround == IInv => CornersSurround
<1> SUFFICES ASSUME IInv, Returned, BelowLimits, Square
             PROVE  \A q \in {0, 1} \X {0, 1} :
                       /\ corner[q] = <<slew_index + q[1], load_index + q[2]>>
                       /\ At(slews, slew_index) <= slew /\ slew < At(slews, slew_index + 1)
                       /\ At(loads, load_index) <= load /\ load < At(loads, load_index + 1)
  BY DEF CornersSurround
<1> DEFINE n == Size(slews)
<1>1. Sound /\ pc = "done"
  BY DEF IInv, Returned
<1>2. n \in Nat \ {0} /\ Size(loads) = n /\ DOMAIN slews = 0..(n - 1) /\ DOMAIN loads = 0..(n - 1)
  BY <1>1, AxisSize DEF Square, num_slews, num_loads, Sound
<1>3. /\ slew_index \in Nat /\ slew_index + 1 \in 0..(n - 1)
      /\ slews[slew_index] <= slew /\ slew < slews[slew_index + 1]
  BY <1>1, BracketedBelow DEF Sound, BelowLimits, num_slews
<1>4. /\ load_index \in Nat /\ load_index + 1 \in 0..(n - 1)
      /\ loads[load_index] <= load /\ load < loads[load_index + 1]
  BY <1>1, <1>2, BracketedBelow DEF Sound, BelowLimits, num_loads
<1> TAKE q \in {0, 1} \X {0, 1}
<1>5. corner[q] = <<slew_index + q[1], load_index + q[2]>>
  <2> DEFINE i == slew_index + q[1]
             j == load_index + q[2]
  <2>1. i \in 0..(n - 1) /\ i \in Nat /\ j \in 0..(n - 1)
    BY <1>2, <1>3, <1>4
  <2>2. corner[q] = Entry(Offset(i, j))
    BY <1>1 DEF Sound
  <2>3. Offset(i, j) = n * i + j /\ num_slews = n /\ num_loads = n
    BY <1>2 DEF Offset, num_slews, num_loads
  <2>4. n * i + j < n * n /\ (n * i + j) \div n = i /\ (n * i + j) % n = j
    BY <1>2, <2>1, RowAndColumn, InsideSquare
  <2> QED
    BY <2>2, <2>3, <2>4 DEF Entry
<1> QED
  BY <1>2, <1>3, <1>4, <1>5 DEF At

\* The four weights as products of the distances of the point from the lines
\* around it.
LEMMA WeightsAddUp ==
    ASSUME NEW a \in Nat, NEW b \in Nat, NEW c \in Nat, NEW d \in Nat, b > 0, d > 0
    PROVE  /\ a * c >= 0 /\ a * d >= 0 /\ b * c >= 0 /\ b * d >= 0
           /\ b * d + b * c + a * d + a * c = (a + b) * (c + d)
           /\ (a + b) * (c + d) > 0
  BY Z3

LEMMA InvImpliesConvexCombination == IInv => ConvexCombination
<1> SUFFICES ASSUME IInv, Returned, BelowLimits
             PROVE  /\ \A q \in {0, 1} \X {0, 1} : Weight(q) >= 0
                    /\ Weight(<<0, 0>>) + Weight(<<0, 1>>) + Weight(<<1, 0>>) + Weight(<<1, 1>>) = Area
                    /\ Area > 0
  BY DEF ConvexCombination
<1> DEFINE a == slew - x1
           b == x2 - slew
           c == load - y1
           d == y2 - load
<1>1. Sound /\ pc = "done"
  BY DEF IInv, Returned
<1>2. x1 \in Int /\ x2 \in Int /\ slew \in Int /\ x1 <= slew /\ slew < x2
  BY <1>1, BracketedBelow DEF Sound, BelowLimits, num_slews
<1>3. y1 \in Int /\ y2 \in Int /\ load \in Int /\ y1 <= load /\ load < y2
  BY <1>1, BracketedBelow DEF Sound, BelowLimits, num_loads
<1>4. a \in Nat /\ b \in Nat /\ c \in Nat /\ d \in Nat /\ b > 0 /\ d > 0
  BY <1>2, <1>3
<1>5. x2 - x1 = a + b /\ y2 - y1 = c + d
  BY <1>2, <1>3
<1>6. /\ Weight(<<0, 0>>) = b * d /\ Weight(<<0, 1>>) = b * c
      /\ Weight(<<1, 0>>) = a * d /\ Weight(<<1, 1>>) = a * c
      /\ Area = (a + b) * (c + d)
  BY <1>5 DEF Weight, Area
<1> HIDE DEF a, b, c, d
<1>7. /\ Weight(<<0, 0>>) >= 0 /\ Weight(<<0, 1>>) >= 0
      /\ Weight(<<1, 0>>) >= 0 /\ Weight(<<1, 1>>) >= 0
      /\ Weight(<<0, 0>>) + Weight(<<0, 1>>) + Weight(<<1, 0>>) + Weight(<<1, 1>>) = Area
      /\ Area > 0
  BY <1>4, <1>6, WeightsAddUp
<1>8. \A q \in {0, 1} \X {0, 1} : q \in {<<0, 0>>, <<0, 1>>, <<1, 0>>, <<1, 1>>}
  OBVIOUS
<1> QED
  BY <1>7, <1>8

-----------------------------------------------------------------------------
LEMMA LookupInvariant == Spec => []IInv
<1>1. Init => IInv
  <2> SUFFICES ASSUME Init
               PROVE  IInv
    OBVIOUS
  <2>1. slew \in Int /\ load \in Int
    BY AxesAssumption DEF Init
  <2> QED
    BY <2>1 DEF Init, IInv, Sound
<1>2. IInv /\ [Next]_vars => IInv'
  BY LookupStepKeepsInv
<1> QED
  BY <1>1, <1>2, PTL DEF Spec

\* Whatever the table, its sizes and the point: below the upper limits of a square
\* table the calculator reads the four entries around the point.
THEOREM LookupCornersSurround == Spec => []CornersSurround
BY LookupInvariant, InvImpliesCornersSurround, PTL

\* Whatever the table and the point below its upper limits: the result lies between
\* the entries read, and nothing is divided by zero.
THEOREM LookupConvexCombination == Spec => []ConvexCombination
BY LookupInvariant, InvImpliesConvexCombination, PTL

-----------------------------------------------------------------------------
(* The arc, the draws of the generator and the four lookups.                 *)

OfLibrary == \E d \in Drivers : arcs = d.arcs

\* What is known of the slew and of the load once they are drawn.
SlewDrawn ==
    /\ picked \in DOMAIN arcs
    /\ ramp_time \in Int
    /\ ~stress /\ Overlap(SlewAxes(arcs[picked])) =>
          \A t \in Range4(Tables) : Within(arcs[picked].tables[t].slews, ramp_time)

LoadDrawn ==
    /\ net_cap \in Int
    /\ ~stress =>
          \A t \in Range4(Tables) :
              LET axis == arcs[picked].tables[t].loads IN
              Smallest(axis) - total_min <= net_cap /\ net_cap <= Largest(axis)

\* The limit is farther away than a number changes when it is written.
WellBelow(axis, x) == Smallest(axis) <= x /\ x + Rounding < Largest(axis)

StressDrawn ==
    stress /\ OneTableShape =>
        \A k \in DOMAIN arcs : \A t \in Range4(Tables) :
            /\ WellBelow(arcs[k].tables[t].slews, ramp_time)
            /\ WellBelow(arcs[k].tables[t].loads, net_cap)

\* What the calculator has read.
NumbersRead ==
    /\ found \in DOMAIN arcs
    /\ slew_read \in Read(ramp_time) /\ load_read \in Read(net_cap)

\* What was kept of the lookup in the k-th table.
Kept(k) ==
    LET t == TableOf(k) IN
    /\ Within(t.slews, slew_read) /\ Within(t.loads, load_read) => result[k].in_range
    /\ slew_read < Largest(t.slews) /\ load_read < Largest(t.loads) => result[k].below

\* The lookup that is being made.
Looking ==
    LET table == TableOf(Len(result) + 1) IN
    /\ Len(result) < 4
    /\ slews = table.slews /\ loads = table.loads
    /\ slew = slew_read /\ load = load_read
    /\ pc = "done" /\ ~in_range => ~InRange

Steps == {"generate", "receivers", "find", "tables", "lookup", "done", "stopped",
          "looping", "aborted", "overrun"}
Drawing == {"find", "tables", "lookup", "done"}
Finding == {"tables", "lookup", "done"}
Results == [in_range : BOOLEAN, below : BOOLEAN]

ArcInv ==
    /\ IInv
    /\ step \in Steps /\ stress \in BOOLEAN /\ OfLibrary
    /\ total_min \in Int /\ total_max \in Nat
    /\ result \in Seq(Results) /\ Len(result) <= 4
    /\ step \notin Finding => result = <<>> /\ found = 0
    /\ step = "receivers" => SlewDrawn /\ ~stress
    /\ step \in Drawing => SlewDrawn /\ LoadDrawn /\ StressDrawn
    /\ step \in Finding => NumbersRead
    /\ step = "lookup" => Looking
    /\ \A k \in 1..Len(result) : Kept(k)

-----------------------------------------------------------------------------
\* A non-empty set of numbers has a smallest member, which Min returns.
LEMMA SmallestNumber ==
    ASSUME NEW S, S \subseteq Nat, S # {}
    PROVE  Min(S) \in S /\ \A y \in S : Min(S) <= y
<1> DEFINE R == {ss \in Nat \X Nat : ss[1] < ss[2]}
<1>1. IsWellFoundedOn(R, Nat)
  BY NatLessThanWellFounded DEF OpToRel
<1>2. \A x, y \in Nat : y < x => <<y, x>> \in R
  OBVIOUS
<1> HIDE DEF R
<1>3. PICK x \in S : \A y \in S : ~(<<y, x>> \in R)
  BY <1>1, WFMin
<1>4. \A y \in S : x <= y
  <2> TAKE y \in S
  <2>1. x \in Nat /\ y \in Nat /\ ~(y < x)
    BY <1>2, <1>3
  <2> QED
    BY <2>1
<1> QED
  BY <1>4 DEF Min

\* The four tables, one by one.
LEMMA FourTables ==
    /\ Range4(Tables) = {"cell_rise", "cell_fall", "rise_transition", "fall_transition"}
    /\ Len(Tables) = 4
    /\ \A k \in 1..4 : Tables[k] \in Range4(Tables)
BY DEF Range4, Tables

LEMMA EndsOfAxis ==
    ASSUME NEW axis \in Axes
    PROVE  Smallest(axis) \in Int /\ Largest(axis) \in Int
<1>1. /\ axis \in [0..(Size(axis) - 1) -> Int]
      /\ 0 \in 0..(Size(axis) - 1) /\ Size(axis) - 1 \in 0..(Size(axis) - 1)
  BY AxisSize
<1> QED
  BY <1>1 DEF Smallest, Largest

LEMMA ExtremesOfFour ==
    ASSUME NEW w \in Int, NEW x \in Int, NEW y \in Int, NEW z \in Int, NEW S, S = {w, x, y, z}
    PROVE  /\ Max(S) \in Int /\ \A v \in S : v <= Max(S)
           /\ Min(S) \in Int /\ \A v \in S : Min(S) <= v
<1>1. \E m \in S : \A v \in S : m >= v
  OBVIOUS
<1>2. \E m \in S : \A v \in S : m <= v
  OBVIOUS
<1>3. Max(S) \in S /\ \A v \in S : Max(S) >= v
  BY <1>1 DEF Max
<1>4. Min(S) \in S /\ \A v \in S : Min(S) <= v
  BY <1>2 DEF Min
<1> QED
  BY <1>3, <1>4

\* Limits folded from four axes are limits of each.
LEMMA Folded ==
    ASSUME NEW f, \A t \in Range4(Tables) : f[t] \in Axes,
           NEW axes, axes = {f[t] : t \in Range4(Tables)}
    PROVE  /\ LargestMin(axes) \in Int /\ SmallestMax(axes) \in Int
           /\ \A t \in Range4(Tables) :
                 Smallest(f[t]) <= LargestMin(axes) /\ SmallestMax(axes) <= Largest(f[t])
<1> DEFINE a == f["cell_rise"]  b == f["cell_fall"]
           c == f["rise_transition"]  d == f["fall_transition"]
<1>1. axes = {a, b, c, d}
  BY FourTables
<1>2. \A x \in {a, b, c, d} : Smallest(x) \in Int /\ Largest(x) \in Int
  <2> TAKE x \in {a, b, c, d}
  <2>1. x \in Axes
    BY FourTables
  <2> QED
    BY <2>1, EndsOfAxis
<1> HIDE DEF a, b, c, d
<1>3. {Smallest(x) : x \in axes} = {Smallest(a), Smallest(b), Smallest(c), Smallest(d)}
  BY <1>1
<1>4. {Largest(x) : x \in axes} = {Largest(a), Largest(b), Largest(c), Largest(d)}
  BY <1>1
<1>5. LargestMin(axes) \in Int /\ \A x \in {a, b, c, d} : Smallest(x) <= LargestMin(axes)
  BY <1>2, <1>3, ExtremesOfFour DEF LargestMin
<1>6. SmallestMax(axes) \in Int /\ \A x \in {a, b, c, d} : SmallestMax(axes) <= Largest(x)
  BY <1>2, <1>4, ExtremesOfFour DEF SmallestMax
<1>7. \A t \in Range4(Tables) : f[t] \in {a, b, c, d}
  BY FourTables DEF a, b, c, d
<1> QED
  BY <1>5, <1>6, <1>7

\* A random number between two is inside an axis that reaches beyond both.
LEMMA BetweenLimits ==
    ASSUME NEW a \in Int, NEW b \in Int, NEW x \in RandomBetween(a, b), a <= b
    PROVE  x \in Int /\ a <= x /\ x <= b
BY DEF RandomBetween

\* The axes of an arc of the library.
LEMMA AxesOfArc ==
    ASSUME OfLibrary, NEW k \in DOMAIN arcs
    PROVE  \A t \in Range4(Tables) :
               arcs[k].tables[t].slews \in Axes /\ arcs[k].tables[t].loads \in Axes
BY ArcAssumption DEF OfLibrary

LEMMA SlewLimits ==
    ASSUME OfLibrary, NEW k \in DOMAIN arcs
    PROVE  LET axes == SlewAxes(arcs[k]) IN
           /\ LargestMin(axes) \in Int /\ SmallestMax(axes) \in Int
           /\ \A t \in Range4(Tables) :
                 /\ Smallest(arcs[k].tables[t].slews) <= LargestMin(axes)
                 /\ SmallestMax(axes) <= Largest(arcs[k].tables[t].slews)
<1> DEFINE f == [t \in Range4(Tables) |-> arcs[k].tables[t].slews]
<1>1. \A t \in Range4(Tables) : f[t] = arcs[k].tables[t].slews /\ f[t] \in Axes
  BY AxesOfArc
<1>2. SlewAxes(arcs[k]) = {f[t] : t \in Range4(Tables)}
  BY DEF SlewAxes
<1> HIDE DEF f
<1>3. /\ LargestMin(SlewAxes(arcs[k])) \in Int /\ SmallestMax(SlewAxes(arcs[k])) \in Int
      /\ \A t \in Range4(Tables) : /\ Smallest(f[t]) <= LargestMin(SlewAxes(arcs[k]))
                                   /\ SmallestMax(SlewAxes(arcs[k])) <= Largest(f[t])
  BY <1>1, <1>2, Folded
<1> QED
  BY <1>1, <1>3

LEMMA LoadLimits ==
    ASSUME OfLibrary, NEW k \in DOMAIN arcs
    PROVE  LET axes == LoadAxes(arcs[k]) IN
           /\ LargestMin(axes) \in Int /\ SmallestMax(axes) \in Int
           /\ \A t \in Range4(Tables) :
                 /\ Smallest(arcs[k].tables[t].loads) <= LargestMin(axes)
                 /\ SmallestMax(axes) <= Largest(arcs[k].tables[t].loads)
<1> DEFINE f == [t \in Range4(Tables) |-> arcs[k].tables[t].loads]
<1>1. \A t \in Range4(Tables) : f[t] = arcs[k].tables[t].loads /\ f[t] \in Axes
  BY AxesOfArc
<1>2. LoadAxes(arcs[k]) = {f[t] : t \in Range4(Tables)}
  BY DEF LoadAxes
<1> HIDE DEF f
<1>3. /\ LargestMin(LoadAxes(arcs[k])) \in Int /\ SmallestMax(LoadAxes(arcs[k])) \in Int
      /\ \A t \in Range4(Tables) : /\ Smallest(f[t]) <= LargestMin(LoadAxes(arcs[k]))
                                   /\ SmallestMax(LoadAxes(arcs[k])) <= Largest(f[t])
  BY <1>1, <1>2, Folded
<1> QED
  BY <1>1, <1>3

-----------------------------------------------------------------------------
\* Of what was drawn and read nothing changes as long as arcs and numbers do not.
drawn == <<arcs, stress, picked, ramp_time, net_cap, total_min>>

LEMMA DrawnKept ==
    ASSUME UNCHANGED drawn
    PROVE  /\ OfLibrary' <=> OfLibrary
           /\ SlewDrawn' <=> SlewDrawn
           /\ LoadDrawn' <=> LoadDrawn
           /\ StressDrawn' <=> StressDrawn
BY DEF drawn, OfLibrary, SlewDrawn, LoadDrawn, StressDrawn, OneTableShape

LEMMA ReadKept ==
    ASSUME UNCHANGED <<drawn, read, result>>
    PROVE  /\ NumbersRead' <=> NumbersRead
           /\ \A k : Kept(k)' <=> Kept(k)
BY DEF drawn, read, NumbersRead, Kept, TableOf

LEMMA VarsKept == IInv /\ UNCHANGED vars => IInv'
BY LookupStepKeepsInv

LEMMA PickDriverKeepsInv == ArcInv /\ PickDriver => ArcInv'
<1> SUFFICES ASSUME ArcInv, PickDriver
             PROVE  ArcInv'
  OBVIOUS
<1>1. PICK k \in DOMAIN arcs :
          /\ picked' = k
          /\ ramp_time' \in RandomBetween(LargestMin(SlewAxes(arcs[k])), SmallestMax(SlewAxes(arcs[k])))
  BY DEF PickDriver
<1>2. OfLibrary /\ arcs' = arcs /\ stress' = stress /\ ~stress /\ step' = "receivers"
  BY DEF ArcInv, PickDriver, cell
<1> DEFINE axes == SlewAxes(arcs[k])
<1>3. ramp_time' \in Int
  BY <1>1, <1>2, SlewLimits DEF RandomBetween
<1>4. ASSUME Overlap(axes), NEW t \in Range4(Tables)
      PROVE  Within(arcs[k].tables[t].slews, ramp_time')
  <2>1. LargestMin(axes) <= ramp_time' /\ ramp_time' <= SmallestMax(axes)
    BY <1>1, <1>2, <1>4, SlewLimits, BetweenLimits DEF Overlap
  <2>2. /\ Smallest(arcs[k].tables[t].slews) <= LargestMin(axes)
        /\ SmallestMax(axes) <= Largest(arcs[k].tables[t].slews)
        /\ LargestMin(axes) \in Int /\ SmallestMax(axes) \in Int
    BY <1>2, SlewLimits
  <2>3. arcs[k].tables[t].slews \in Axes
    BY <1>2, AxesOfArc
  <2>4. Smallest(arcs[k].tables[t].slews) \in Int /\ Largest(arcs[k].tables[t].slews) \in Int
    BY <2>3, EndsOfAxis
  <2> QED
    BY <1>3, <2>1, <2>2, <2>4 DEF Within, Smallest, Largest
<1>5. SlewDrawn'
  BY <1>1, <1>2, <1>3, <1>4 DEF SlewDrawn
<1>6. IInv'
  BY VarsKept DEF ArcInv, PickDriver
<1>7. /\ result' = result /\ result = <<>> /\ found' = found /\ found = 0
      /\ total_max' = total_max /\ total_min' = total_min
  BY DEF ArcInv, PickDriver, Finding, net, read
<1>8. OfLibrary'
  BY <1>2 DEF OfLibrary
<1> QED
  BY <1>2, <1>5, <1>6, <1>7, <1>8 DEF ArcInv, Steps, Drawing, Finding

LEMMA AddReceiverKeepsInv == ArcInv /\ AddReceiver => ArcInv'
<1> SUFFICES ASSUME ArcInv, AddReceiver
             PROVE  ArcInv'
  OBVIOUS
<1>1. /\ step = "receivers" /\ step' = step /\ result' = result /\ result = <<>>
      /\ found' = found /\ found = 0
      /\ UNCHANGED <<arcs, stress, picked, ramp_time>>
  BY DEF ArcInv, AddReceiver, Finding, cell, circuit, read
<1>2. PICK r \in Receivers :
          total_min' = total_min + MinPinCap(r) /\ total_max' = total_max + MaxPinCap(r)
  BY DEF AddReceiver
<1>3. total_max' \in Nat /\ total_min' \in Int
  BY <1>2, ArcAssumption DEF ArcInv
<1>4. IInv'
  BY VarsKept DEF ArcInv, AddReceiver
<1>5. SlewDrawn' /\ ~stress' /\ stress' \in BOOLEAN /\ OfLibrary'
  BY <1>1 DEF ArcInv, SlewDrawn, OfLibrary
<1> QED
  BY <1>1, <1>3, <1>4, <1>5 DEF ArcInv, Steps, Drawing, Finding

LEMMA MakeNetKeepsInv == ArcInv /\ MakeNet => ArcInv'
<1> SUFFICES ASSUME ArcInv, MakeNet
             PROVE  ArcInv'
  OBVIOUS
<1>1. /\ step = "receivers" /\ result' = result /\ result = <<>> /\ ~stress /\ SlewDrawn
      /\ found' = found /\ found = 0
      /\ UNCHANGED <<arcs, stress, picked, ramp_time, total_min, total_max>> /\ OfLibrary
      /\ picked \in DOMAIN arcs /\ total_max \in Nat /\ total_min \in Int
  BY DEF ArcInv, MakeNet, Finding, SlewDrawn, cell, net, read
<1>2. IInv'
  BY VarsKept DEF ArcInv, MakeNet
<1>3. SlewDrawn' /\ OfLibrary'
  BY <1>1 DEF SlewDrawn, OfLibrary
<1>4. step' \in {"find", "looping", "aborted"}
  BY DEF MakeNet
<1>5. ASSUME step' = "find"
      PROVE  LoadDrawn'
  <2> DEFINE axes == LoadAxes(arcs[picked])
  <2>1. net_cap' \in 0..(SmallestMax(axes) - total_max) /\ LargestMin(axes) - total_min <= net_cap'
    BY <1>5 DEF MakeNet
  <2>2. SmallestMax(axes) \in Int /\ LargestMin(axes) \in Int
    BY <1>1, LoadLimits
  <2>3. net_cap' \in Int /\ net_cap' <= SmallestMax(axes)
    BY <1>1, <2>1, <2>2
  <2>4. ASSUME NEW t \in Range4(Tables)
        PROVE  /\ Smallest(arcs[picked].tables[t].loads) - total_min <= net_cap'
               /\ net_cap' <= Largest(arcs[picked].tables[t].loads)
    <3>1. /\ Smallest(arcs[picked].tables[t].loads) <= LargestMin(axes)
          /\ SmallestMax(axes) <= Largest(arcs[picked].tables[t].loads)
      BY <1>1, LoadLimits
    <3>2. arcs[picked].tables[t].loads \in Axes
      BY <1>1, AxesOfArc
    <3>3. /\ Smallest(arcs[picked].tables[t].loads) \in Int
          /\ Largest(arcs[picked].tables[t].loads) \in Int
      BY <3>2, EndsOfAxis
    <3> QED
      BY <1>1, <2>1, <2>2, <2>3, <3>1, <3>3
  <2> QED
    BY <1>1, <2>3, <2>4 DEF LoadDrawn
<1>6. StressDrawn'
  BY <1>1 DEF StressDrawn
<1> QED
  BY <1>1, <1>2, <1>3, <1>4, <1>5, <1>6 DEF ArcInv, Steps, Drawing, Finding

LEMMA GenerateStressKeepsInv == ArcInv /\ GenerateStress => ArcInv'
<1> SUFFICES ASSUME ArcInv, GenerateStress
             PROVE  ArcInv'
  OBVIOUS
<1>1. /\ step = "generate" /\ result' = result /\ result = <<>> /\ stress
      /\ found' = found /\ found = 0
      /\ UNCHANGED <<arcs, stress, total_min, total_max>> /\ OfLibrary
  BY DEF ArcInv, GenerateStress, Finding, cell, net, read
<1>2. IInv'
  BY VarsKept DEF ArcInv, GenerateStress
<1>3. step' \in {"overrun", "find"}
  BY DEF GenerateStress
<1>4. ASSUME step' = "find"
      PROVE  SlewDrawn' /\ LoadDrawn' /\ StressDrawn'
  <2> DEFINE CR(k) == arcs[k].tables["cell_rise"]
  <2>1. PICK k \in DOMAIN arcs :
            /\ picked' = k
            /\ ~(Size(CR(k).slews) < 2 \/ Size(CR(k).loads) < 2)
            /\ \E i \in Intervals(CR(k).slews), j \in Intervals(CR(k).loads) :
                  /\ ramp_time' \in CR(k).slews[i]..CR(k).slews[i + 1]
                  /\ net_cap' \in CR(k).loads[j]..CR(k).loads[j + 1]
    BY <1>4 DEF GenerateStress
  <2> DEFINE s == CR(k).slews
             l == CR(k).loads
  <2>2. PICK i \in Intervals(s), j \in Intervals(l) :
            ramp_time' \in s[i]..s[i + 1] /\ net_cap' \in l[j]..l[j + 1]
    BY <2>1
  <2>3. s \in Axes /\ l \in Axes
    BY <1>1, FourTables, AxesOfArc
  <2> HIDE DEF s, l
  <2>4. ASSUME NEW axis \in Axes, NEW n \in Intervals(axis), NEW x \in axis[n]..axis[n + 1]
        PROVE  x \in Int /\ WellBelow(axis, x)
    <3>1. /\ Size(axis) \in Nat /\ n \in Nat /\ n + 2 < Size(axis) + 1 /\ n + 2 \in Nat
      BY AxisSize DEF Intervals
    <3> DEFINE last == Size(axis) - 1
    <3>2. /\ 0 \in 0..last /\ n \in 0..last /\ n + 1 \in 0..last /\ last \in 0..last
          /\ n + 1 <= last - 1 /\ last - 1 \in 0..last /\ (last - 1) + 1 = last
      BY <3>1 DEF Intervals
    <3>3. /\ axis[0] \in Int /\ axis[n] \in Int /\ axis[n + 1] \in Int
          /\ axis[last - 1] \in Int /\ axis[last] \in Int
      BY <3>2, AxisSize
    <3>4. (n = 0 \/ axis[0] < axis[n]) /\ (n + 1 = last - 1 \/ axis[n + 1] < axis[last - 1])
      <4>1. last \in Int /\ \A a, b \in 0..last : a < b => axis[a] < axis[b]
        BY <3>1, AxisSize
      <4>2. (n = 0 \/ 0 < n) /\ (n + 1 = last - 1 \/ n + 1 < last - 1)
        BY <3>1, <3>2, <4>1
      <4> HIDE DEF last
      <4> QED
        BY <3>2, <4>1, <4>2
    <3>5. axis[last] - axis[last - 1] > Rounding
      <4>1. last - 1 \in DOMAIN axis /\ (last - 1) + 1 \in DOMAIN axis
        BY <3>2, AxisSize
      <4> HIDE DEF last
      <4> QED
        BY <3>2, <4>1, SpacingAssumption
    <3>6. axis[n + 1] <= axis[last - 1]
      BY <3>3, <3>4
    <3>7. axis[0] <= axis[n]
      BY <3>3, <3>4
    <3>8. Rounding \in Nat
      BY ArcAssumption
    <3>9. x \in Int /\ axis[0] <= x /\ x + Rounding < axis[last]
      BY <3>3, <3>5, <3>6, <3>7, <3>8
    <3> QED
      BY <3>9 DEF WellBelow, Smallest, Largest
  <2>5. /\ ramp_time' \in Int /\ WellBelow(s, ramp_time')
        /\ net_cap' \in Int /\ WellBelow(l, net_cap')
    BY <2>2, <2>3, <2>4
  <2>6. ASSUME OneTableShape, NEW m \in DOMAIN arcs, NEW t \in Range4(Tables)
        PROVE  arcs[m].tables[t].slews = s /\ arcs[m].tables[t].loads = l
    BY <2>6, FourTables DEF OneTableShape, s, l
  <2>7. SlewDrawn' /\ LoadDrawn'
    BY <1>1, <2>1, <2>5 DEF SlewDrawn, LoadDrawn
  <2>8. OneTableShape' <=> OneTableShape
    BY <1>1 DEF OneTableShape
  <2>9. StressDrawn'
    BY <1>1, <2>5, <2>6, <2>8 DEF StressDrawn
  <2> QED
    BY <2>7, <2>9
<1>5. OfLibrary'
  BY <1>1 DEF OfLibrary
<1> QED
  BY <1>1, <1>2, <1>3, <1>4, <1>5 DEF ArcInv, Steps, Drawing, Finding

LEMMA FindArcKeepsInv == ArcInv /\ FindArc => ArcInv'
<1> SUFFICES ASSUME ArcInv, FindArc
             PROVE  ArcInv'
  OBVIOUS
<1>1. /\ step = "find" /\ result' = result /\ result = <<>> /\ found = 0
      /\ UNCHANGED drawn /\ total_max' = total_max /\ OfLibrary
      /\ slew_read' \in Read(ramp_time) /\ load_read' \in Read(net_cap)
  BY DEF ArcInv, FindArc, Finding, drawn, net, cell, circuit
<1>2. IInv'
  BY VarsKept DEF ArcInv, FindArc
<1>3. OfLibrary' /\ SlewDrawn' /\ LoadDrawn' /\ StressDrawn'
  BY <1>1, DrawnKept DEF ArcInv, Drawing
<1>4. CASE FromInput(input) = {}
  <2>1. step' = "stopped" /\ found' = 0
    BY <1>1, <1>4 DEF FindArc
  <2> QED
    BY <1>1, <1>2, <1>3, <2>1 DEF ArcInv, Steps, Drawing, Finding, drawn
<1>5. CASE FromInput(input) # {}
  <2>1. step' = "tables" /\ found' = Min(FromInput(input))
    BY <1>5 DEF FindArc
  <2>2. FromInput(input) \subseteq DOMAIN arcs /\ DOMAIN arcs \subseteq Nat
    BY <1>1, ArcAssumption DEF FromInput, OfLibrary
  <2>3. found' \in DOMAIN arcs
    BY <1>5, <2>1, <2>2, SmallestNumber
  <2>4. NumbersRead'
    BY <1>1, <2>3 DEF NumbersRead, drawn, Read
  <2> QED
    BY <1>1, <1>2, <1>3, <2>1, <2>4 DEF ArcInv, Steps, Drawing, Finding, drawn
<1> QED
  BY <1>4, <1>5

\* What was read is a number.
LEMMA ReadIsNumber ==
    ASSUME ArcInv, step \in Finding
    PROVE  /\ slew_read \in Int /\ load_read \in Int /\ ramp_time \in Int /\ net_cap \in Int
           /\ ramp_time - Rounding <= slew_read /\ slew_read <= ramp_time + Rounding
           /\ net_cap - Rounding <= load_read /\ load_read <= net_cap + Rounding
<1>1. NumbersRead /\ ramp_time \in Int /\ net_cap \in Int /\ Rounding \in Nat
  BY ArcAssumption DEF ArcInv, Drawing, Finding, SlewDrawn, LoadDrawn
<1> QED
  BY <1>1 DEF NumbersRead, Read

LEMMA StartLookupKeepsInv == ArcInv /\ StartLookup => ArcInv'
<1> SUFFICES ASSUME ArcInv, StartLookup
             PROVE  ArcInv'
  OBVIOUS
<1> DEFINE table == arcs[found].tables[Tables[Len(result) + 1]]
<1>1. /\ step = "tables" /\ step' = "lookup" /\ UNCHANGED <<drawn, read, result>>
      /\ total_max' = total_max /\ found \in DOMAIN arcs /\ OfLibrary
      /\ Len(result) \in Nat /\ Len(result) < 4
  BY FourTables DEF ArcInv, StartLookup, Finding, NumbersRead, drawn, net, cell, circuit
<1>2. /\ slews' = table.slews /\ loads' = table.loads /\ slew' = slew_read /\ load' = load_read
      /\ pc' = "ranges" /\ in_range' = TRUE /\ slew_index' = 0 /\ load_index' = 0
  BY DEF StartLookup
<1>3. table.slews \in Axes /\ table.loads \in Axes
  <2>1. Tables[Len(result) + 1] \in Range4(Tables)
    BY <1>1, FourTables
  <2> QED
    BY <1>1, <2>1, AxesOfArc
<1>4. slew_read \in Int /\ load_read \in Int
  BY <1>1, ReadIsNumber DEF Finding
<1>5. IInv'
  BY <1>2, <1>3, <1>4 DEF IInv, Sound
<1>6. Looking'
  BY <1>1, <1>2 DEF Looking, TableOf, drawn, read
<1>7. /\ OfLibrary' /\ SlewDrawn' /\ LoadDrawn' /\ StressDrawn' /\ NumbersRead'
      /\ \A k \in 1..Len(result) : Kept(k)'
  BY <1>1, DrawnKept, ReadKept DEF ArcInv, Drawing, Finding
<1> QED
  BY <1>1, <1>5, <1>6, <1>7 DEF ArcInv, Steps, Drawing, Finding, drawn

LEMMA LookupStepKeepsArcInv == ArcInv /\ LookupStep => ArcInv'
<1> SUFFICES ASSUME ArcInv, LookupStep
             PROVE  ArcInv'
  OBVIOUS
<1>1. /\ step = "lookup" /\ Next /\ step' = step /\ UNCHANGED <<drawn, read, result>>
      /\ total_max' = total_max
  BY DEF LookupStep, own, cell, net, circuit, drawn
<1>2. IInv'
  BY <1>1, LookupStepKeepsInv DEF ArcInv
<1>3. UNCHANGED call
  BY <1>1 DEF Next, CheckRanges, ScanSlew, ScanLoad, ReadCorners
<1>4. pc' = "done" /\ ~in_range' => ~InRange'
  <2>1. InRange' <=> InRange
    BY <1>3 DEF call, InRange, Within, Size
  <2>2. CASE CheckRanges
    BY <2>1, <2>2 DEF CheckRanges
  <2>3. CASE ScanSlew \/ ScanLoad \/ ReadCorners
    BY <2>3 DEF ScanSlew, ScanLoad, ReadCorners, ArcInv, IInv
  <2> QED
    BY <1>1, <2>2, <2>3 DEF Next
<1>5. Looking'
  BY <1>1, <1>3, <1>4 DEF ArcInv, Looking, TableOf, call, drawn, read
<1>6. /\ OfLibrary' /\ SlewDrawn' /\ LoadDrawn' /\ StressDrawn' /\ NumbersRead'
      /\ \A k \in 1..Len(result) : Kept(k)'
  BY <1>1, DrawnKept, ReadKept DEF ArcInv, Drawing, Finding
<1> QED
  BY <1>1, <1>2, <1>5, <1>6 DEF ArcInv, Drawing, Finding, drawn

LEMMA EndLookupKeepsInv == ArcInv /\ EndLookup => ArcInv'
<1> SUFFICES ASSUME ArcInv, EndLookup
             PROVE  ArcInv'
  OBVIOUS
<1> DEFINE new == [in_range |-> in_range, below |-> BelowLimits]
           n == Len(result) + 1
           t == TableOf(n)
<1>1. /\ step = "lookup" /\ pc = "done" /\ step' = "tables" /\ UNCHANGED <<drawn, read>>
      /\ total_max' = total_max /\ result' = Append(result, new)
      /\ result \in Seq(Results)
  BY DEF ArcInv, EndLookup, cell, net, circuit, drawn
<1>2. IInv'
  BY VarsKept DEF ArcInv, EndLookup
<1>3. /\ Len(result) < 4 /\ slews = t.slews /\ loads = t.loads
      /\ slew = slew_read /\ load = load_read /\ (~in_range => ~InRange)
  BY <1>1 DEF ArcInv, Looking
<1>4. /\ OfLibrary' /\ SlewDrawn' /\ LoadDrawn' /\ StressDrawn' /\ NumbersRead'
  BY <1>1, DrawnKept DEF ArcInv, Drawing, Finding, NumbersRead, drawn, read
<1>5. new \in Results
  BY DEF ArcInv, IInv, BelowLimits, Results
<1>6. /\ Within(t.slews, slew_read) /\ Within(t.loads, load_read) => new.in_range
      /\ slew_read < Largest(t.slews) /\ load_read < Largest(t.loads) => new.below
  BY <1>3 DEF InRange, BelowLimits, num_slews, num_loads, Largest, ArcInv, IInv
<1> HIDE DEF new
<1>7. /\ result' \in Seq(Results) /\ Len(result') = n /\ Len(result') <= 4
      /\ \A k \in 1..Len(result') : result'[k] = IF k = n THEN new ELSE result[k]
  BY <1>1, <1>3, <1>5
<1>8. \A k : TableOf(k)' = TableOf(k)
  BY <1>1 DEF TableOf, drawn, read
<1>9. \A k \in 1..Len(result') : Kept(k)'
  <2> TAKE k \in 1..Len(result')
  <2>1. CASE k = n
    BY <1>1, <1>6, <1>7, <1>8, <2>1 DEF Kept, read
  <2>2. CASE k # n
    <3>1. k \in 1..Len(result)
      BY <1>3, <1>7, <2>2
    <3>2. Kept(k)
      BY <3>1 DEF ArcInv
    <3> QED
      BY <1>1, <1>7, <1>8, <2>2, <3>2 DEF Kept, read
  <2> QED
    BY <2>1, <2>2
<1> QED
  BY <1>1, <1>2, <1>4, <1>7, <1>9 DEF ArcInv, Steps, Drawing, Finding, drawn

LEMMA RestKeepsInv == ArcInv /\ (SetResults \/ UNCHANGED <<vars, own>>) => ArcInv'
<1> SUFFICES ASSUME ArcInv, SetResults \/ UNCHANGED <<vars, own>>
             PROVE  ArcInv'
  OBVIOUS
<1>1. /\ step' = step \/ (step = "tables" /\ step' = "done")
      /\ UNCHANGED <<drawn, read, result>> /\ total_max' = total_max
      /\ UNCHANGED vars
  BY DEF SetResults, own, cell, net, circuit, drawn
<1>2. IInv'
  BY <1>1, VarsKept DEF ArcInv
<1>3. /\ (SlewDrawn' <=> SlewDrawn) /\ (LoadDrawn' <=> LoadDrawn) /\ (StressDrawn' <=> StressDrawn)
      /\ (NumbersRead' <=> NumbersRead) /\ (OfLibrary' <=> OfLibrary)
      /\ \A k : Kept(k)' <=> Kept(k)
  BY <1>1, DrawnKept, ReadKept
<1>4. Looking' <=> Looking
  BY <1>1 DEF vars, drawn, read, Looking, TableOf, InRange, Within, Size
<1>5. (\A k \in 1..Len(result) : Kept(k))'
  BY <1>1, <1>3 DEF ArcInv
<1>6. UNCHANGED <<stress, total_min, found>> /\ step' \in Steps
  BY <1>1 DEF ArcInv, Steps, drawn, read
<1>7. /\ step' \notin Finding => step \notin Finding
      /\ step' \in Finding => step \in Finding
      /\ step' \in Drawing => step \in Drawing
      /\ step' = "receivers" => step = "receivers"
      /\ step' = "lookup" => step = "lookup"
  BY <1>1 DEF Drawing, Finding
<1> QED
  BY <1>1, <1>2, <1>3, <1>4, <1>5, <1>6, <1>7 DEF ArcInv

-----------------------------------------------------------------------------
LEMMA ArcInvariant == ArcSpec => []ArcInv
<1>1. ArcInit => ArcInv
  <2> SUFFICES ASSUME ArcInit
               PROVE  ArcInv
    OBVIOUS
  <2>1. IInv /\ OfLibrary
    BY DEF ArcInit, IInv, OfLibrary
  <2>2. /\ step = "generate" /\ stress \in BOOLEAN /\ total_min = 0 /\ total_max = 0
        /\ result = <<>> /\ found = 0
    BY DEF ArcInit
  <2>3. result \in Seq(Results) /\ Len(result) = 0
    BY <2>2
  <2> QED
    BY <2>1, <2>2, <2>3 DEF ArcInv, Steps, Drawing, Finding
<1>2. ArcInv /\ [ArcNext]_<<vars, own>> => ArcInv'
  BY PickDriverKeepsInv, AddReceiverKeepsInv, MakeNetKeepsInv, GenerateStressKeepsInv, FindArcKeepsInv,
     StartLookupKeepsInv, LookupStepKeepsArcInv, EndLookupKeepsInv, RestKeepsInv
  DEF ArcNext
<1> QED
  BY <1>1, <1>2, PTL DEF ArcSpec

\* Of every lookup the arc, the point and what was kept of it are known.
LEMMA LookupMade ==
    ASSUME ArcInv, found # 0, NEW k \in DOMAIN result
    PROVE  /\ step \in Finding /\ found \in DOMAIN arcs /\ Kept(k)
           /\ SlewDrawn /\ LoadDrawn /\ StressDrawn
           /\ Tables[k] \in Range4(Tables)
           /\ TableOf(k).slews \in Axes /\ TableOf(k).loads \in Axes
<1>1. step \in Finding /\ k \in 1..Len(result) /\ k \in 1..4
  <2>1. step \in Finding /\ result \in Seq(Results) /\ Len(result) <= 4
    BY DEF ArcInv
  <2>2. DOMAIN result = 1..Len(result) /\ Len(result) \in Nat
    BY <2>1
  <2> QED
    BY <2>1, <2>2
<1>2. /\ found \in DOMAIN arcs /\ Kept(k) /\ OfLibrary
      /\ SlewDrawn /\ LoadDrawn /\ StressDrawn
  BY <1>1 DEF ArcInv, Finding, Drawing, NumbersRead
<1>3. Tables[k] \in Range4(Tables)
  BY <1>1, FourTables
<1>4. TableOf(k).slews \in Axes /\ TableOf(k).loads \in Axes
  BY <1>2, <1>3, AxesOfArc DEF TableOf
<1> QED
  BY <1>1, <1>2, <1>3, <1>4

\* For every library, all receivers, all numbers drawn and whatever writing and
\* reading them changes: a circuit of create_random_nets is looked up inside the
\* tables of its arc, up to that change and to receiver pins that are too light, when
\* its arc is the first of its input and the arc's tables have slews in common.
THEOREM ArcGeneratedInRange == ArcSpec => []GeneratedInRange
<1>1. ArcInv => GeneratedInRange
  <2> SUFFICES ASSUME ArcInv, ~stress, found # 0, found = picked, Overlap(SlewAxes(arcs[picked])),
                      NEW k \in DOMAIN result
               PROVE  InsideBut(k, total_min)
    BY DEF GeneratedInRange
  <2> DEFINE t == TableOf(k)
  <2>1. /\ Within(t.slews, ramp_time)
        /\ Smallest(t.loads) - total_min <= net_cap /\ net_cap <= Largest(t.loads)
    BY LookupMade DEF SlewDrawn, LoadDrawn, TableOf
  <2>2. /\ Smallest(t.slews) \in Int /\ Largest(t.slews) \in Int
        /\ Smallest(t.loads) \in Int /\ Largest(t.loads) \in Int
    BY LookupMade, EndsOfAxis
  <2>3. Smallest(t.slews) <= ramp_time /\ ramp_time <= Largest(t.slews)
    BY <2>1 DEF Within, Smallest, Largest
  <2>4. total_min \in Int /\ Rounding \in Nat
    BY ArcAssumption DEF ArcInv
  <2>5. /\ slew_read \in Int /\ load_read \in Int /\ ramp_time \in Int /\ net_cap \in Int
        /\ ramp_time - Rounding <= slew_read /\ slew_read <= ramp_time + Rounding
        /\ net_cap - Rounding <= load_read /\ load_read <= net_cap + Rounding
    BY LookupMade, ReadIsNumber
  <2>6. Within(t.slews, slew_read) /\ Within(t.loads, load_read) => result[k].in_range
    BY LookupMade DEF Kept
  <2> HIDE DEF t
  <2>7. /\ Smallest(t.slews) - Rounding <= slew_read /\ slew_read <= Largest(t.slews) + Rounding
        /\ Smallest(t.loads) - total_min - Rounding <= load_read
        /\ load_read <= Largest(t.loads) + Rounding
    BY <2>1, <2>2, <2>3, <2>4, <2>5
  <2> QED
    BY <2>6, <2>7 DEF InsideBut, t
<1> QED
  BY <1>1, ArcInvariant, PTL

\* For every cell whose arcs all have the same axes: a circuit of the stress suite,
\* from whichever input it is looked up, is below the upper limits of all four
\* tables, and above the lower ones up to what writing and reading changes.
THEOREM ArcStressBelowLimits == ArcSpec => []StressBelowLimits
<1>1. ArcInv => StressBelowLimits
  <2> SUFFICES ASSUME ArcInv, stress, found # 0, OneTableShape, NEW k \in DOMAIN result
               PROVE  result[k].below /\ InsideBut(k, 0)
    BY DEF StressBelowLimits
  <2> DEFINE t == TableOf(k)
  <2>1. WellBelow(t.slews, ramp_time) /\ WellBelow(t.loads, net_cap)
    BY LookupMade DEF StressDrawn, TableOf
  <2>2. /\ Smallest(t.slews) \in Int /\ Largest(t.slews) \in Int
        /\ Smallest(t.loads) \in Int /\ Largest(t.loads) \in Int
    BY LookupMade, EndsOfAxis
  <2>3. Rounding \in Nat
    BY ArcAssumption
  <2>4. /\ slew_read \in Int /\ load_read \in Int /\ ramp_time \in Int /\ net_cap \in Int
        /\ ramp_time - Rounding <= slew_read /\ slew_read <= ramp_time + Rounding
        /\ net_cap - Rounding <= load_read /\ load_read <= net_cap + Rounding
    BY LookupMade, ReadIsNumber
  <2>5. /\ Within(t.slews, slew_read) /\ Within(t.loads, load_read) => result[k].in_range
        /\ slew_read < Largest(t.slews) /\ load_read < Largest(t.loads) => result[k].below
    BY LookupMade DEF Kept
  <2> HIDE DEF t
  <2>6. /\ Smallest(t.slews) - Rounding <= slew_read /\ slew_read < Largest(t.slews)
        /\ Smallest(t.loads) - Rounding <= load_read /\ load_read < Largest(t.loads)
    BY <2>1, <2>2, <2>3, <2>4 DEF WellBelow
  <2>7. /\ slew_read <= Largest(t.slews) + Rounding /\ load_read <= Largest(t.loads) + Rounding
        /\ Smallest(t.loads) - 0 - Rounding <= load_read
    BY <2>2, <2>3, <2>4, <2>6
  <2> QED
    BY <2>5, <2>6, <2>7 DEF InsideBut, t
<1> QED
  BY <1>1, ArcInvariant, PTL

\* Each of the lookups reads the entries around its point, for square tables and below
\* the upper limits.
THEOREM ArcCornersSurround == ArcSpec => []CornersSurround
<1>1. ArcInv => CornersSurround
  BY InvImpliesCornersSurround DEF ArcInv
<1> QED
  BY <1>1, ArcInvariant, PTL

\* Each of the lookups, below the upper limits, returns a convex combination of entries.
THEOREM ArcConvexCombination == ArcSpec => []ConvexCombination
<1>1. ArcInv => ConvexCombination
  BY InvImpliesConvexCombination DEF ArcInv
<1> QED
  BY <1>1, ArcInvariant, PTL
=============================================================================
