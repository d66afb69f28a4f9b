---------------------------- MODULE ArcLookupMC ----------------------------
(* Drivers for TLC: one arc with every pair of axes, an arc whose tables     *)
(* differ in all their axes, one whose slews do not overlap, two arcs from   *)
(* two inputs with the same axes and with others, two from one, an input     *)
(* that drives nothing, and a table with a single entry.                     *)
EXTENDS ArcLookup

AxisOf(s) == [k \in 0..(Len(s) - 1) |-> s[k + 1]]
TwoOrThree == {AxisOf(<<1, 3>>), AxisOf(<<3, 7>>), AxisOf(<<1, 3, 5>>), AxisOf(<<1, 5, 8>>)}
One == AxisOf(<<3>>)

Table(s, l) == [slews |-> s, loads |-> l]
Same(t) == [n \in Range4(Tables) |-> t]
Arc(in, tables) == [related |-> in, tables |-> tables]

Wide == AxisOf(<<1, 5, 8>>)
Low == AxisOf(<<1, 3>>)
Mid == AxisOf(<<3, 5, 8>>)
High == AxisOf(<<5, 8>>)
Differ == [n \in Range4(Tables) |->
             CASE n = "cell_rise" -> Table(Wide, Mid) [] n = "cell_fall" -> Table(Mid, Wide)
               [] n = "rise_transition" -> Table(AxisOf(<<3, 8>>), Mid)
               [] n = "fall_transition" -> Table(Wide, AxisOf(<<3, 5>>))]
SomeAxes == TwoOrThree \cup {One, Mid, High} \cup {AxisOf(<<3, 8>>), AxisOf(<<3, 5>>)}
Apart == [Differ EXCEPT !["cell_rise"] = Table(Low, Mid), !["cell_fall"] = Table(High, Mid)]

OneArc == {<<Arc("A", Same(Table(s, l)))>> : s \in TwoOrThree, l \in TwoOrThree}
          \cup {<<Arc("A", Differ)>>, <<Arc("A", Apart)>>, <<Arc("A", Same(Table(One, Wide)))>>}
TwoArcs == {<<Arc("A", Same(Table(Wide, Mid))), Arc("B", Same(Table(Wide, Mid)))>>,
            <<Arc("A", Same(Table(Low, Wide))), Arc("B", Differ)>>,
            <<Arc("A", Same(Table(Low, Low))), Arc("A", Same(Table(Wide, Wide)))>>}

SomeDrivers == {[arcs |-> p, inputs |-> {"A"}] : p \in OneArc}
               \cup {[arcs |-> p, inputs |-> {"A", "B", "C"}] : p \in TwoArcs}

\* Receivers with tables and pin capacitances, with one of them, and with none.
SomeReceivers == {[arc |-> {1, 2}, pin |-> {1}], [arc |-> {}, pin |-> {2}], [arc |-> {}, pin |-> {}]}
=============================================================================
