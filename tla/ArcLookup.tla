----------------------------- MODULE ArcLookup -----------------------------
(***************************************************************************)
(* From the tables of a timing arc to a lookup in them.  gen_random_nets   *)
(* draws a circuit's slew and its net's load from the ranges of the four   *)
(* NLDM tables of an arc (CellArc's folds); delay_calc_tool finds the arc  *)
(* again by the name of its input (CellPin::find_arc) and looks the slew   *)
(* and the load up in each of the tables (module TableLookup).             *)
(*                                                                         *)
(* The numbers are integers in library units.  On its way from one program *)
(* to the other a number is scaled to ps or fF, written with six decimals  *)
(* (to_string) or six digits (the SPEF), read again and scaled back: it    *)
(* comes out changed by at most Rounding.  The wires of a net are found by *)
(* module NetLoad, whose action Accept keeps loads in the window of        *)
(* MakeNet (and NaN, which is left out here).                              *)
(***************************************************************************)
EXTENDS TableLookup, SequencesExt

CONSTANTS Drivers,      \* cells: the input pins, and the output pin's arcs
                        \* [related, tables] in order
          Receivers,    \* [arc, pin]: values in the receiver capacitance tables
                        \* of a receiver's arc, capacitances its pin gives
          MaxReceivers,
          Rounding,     \* what a number may be off after it was written and read
          Infinity      \* of the floats

Tables == <<"cell_rise", "cell_fall", "rise_transition", "fall_transition">>
Range4(f) == {f[k] : k \in 1..4}

VARIABLES step,      \* "generate", "receivers"; "find", "tables", "lookup", "done" and "stopped"
                     \* of the calculator; of the generator: "looping", "aborted", "overrun"
          stress,    \* create_random_nets_stress
          arcs,      \* CellPin::_arcs of the driver's output pin
          inputs,    \* the driver's input pins
          picked,    \* arc of the generator
          input,     \* the input pin in the circuit's driver
          found,     \* arc of the calculator
          ramp_time, net_cap,           \* as they are drawn
          slew_read, load_read,         \* as the calculator has them
          total_min, total_max,   \* total_receiver_min_pin_cap, total_receiver_max_pin_cap
          num_receivers,
          result     \* of the lookups made: [in_range, below]

cell == <<stress, arcs, inputs>>
net == <<total_min, total_max, num_receivers>>
circuit == <<picked, input, ramp_time, net_cap>>
read == <<found, slew_read, load_read>>
own == <<step, cell, net, circuit, read, result>>

ArcInit ==
    /\ step = "generate" /\ stress \in BOOLEAN
    /\ \E d \in Drivers : arcs = d.arcs /\ inputs = d.inputs
    /\ picked = 0 /\ input = "" /\ found = 0 /\ result = <<>>
    /\ ramp_time = 0 /\ net_cap = 0 /\ slew_read = 0 /\ load_read = 0
    /\ total_min = 0 /\ total_max = 0 /\ num_receivers = 0
    /\ pc = "done" /\ in_range = FALSE
    /\ slews = [k \in {0} |-> 0] /\ loads = slews /\ slew = 0 /\ load = 0
    /\ slew_index = 0 /\ load_index = 0 /\ x1 = 0 /\ x2 = 0 /\ y1 = 0 /\ y2 = 0
    /\ corner = [q \in {} |-> Outside]

-----------------------------------------------------------------------------
(* CellArc: what all four tables have in common.                             *)

Smallest(axis) == axis[0]
Largest(axis) == axis[Size(axis) - 1]
SlewAxes(a) == {a.tables[t].slews : t \in Range4(Tables)}
LoadAxes(a) == {a.tables[t].loads : t \in Range4(Tables)}

LargestMin(axes) == Max({Smallest(x) : x \in axes})
LargestMax(axes) == Max({Largest(x) : x \in axes})                 \* (variant) the largest
SmallestMax(axes) == Min({Largest(x) : x \in axes})

\* rand_FloatRange(a, b) stays between the two, whichever is larger.
RandomBetween(a, b) == (IF a <= b THEN a ELSE b)..(IF a <= b THEN b ELSE a)

\* get_min_max_pin_cap and get_min_pin_cap, get_max_pin_cap: what is missing
\* counts as infinity for the minimum and as nothing for the maximum.
MinPinCap(r) == Min(r.arc \cup r.pin \cup {Infinity})
MaxPinCap(r) == Max(r.arc \cup r.pin \cup {0})

ASSUME ArcAssumption ==
    /\ MaxReceivers \in Nat /\ Rounding \in Nat
    /\ \A r \in Receivers : MinPinCap(r) \in Int /\ MaxPinCap(r) \in Nat
    /\ \A d \in Drivers :
        /\ DOMAIN d.arcs = 1..Len(d.arcs)
        /\ \A k \in DOMAIN d.arcs, t \in Range4(Tables) :
              d.arcs[k].tables[t].slews \in Axes /\ d.arcs[k].tables[t].loads \in Axes

\* The entries of an axis are farther apart than a number changes when it is written.
ASSUME SpacingAssumption ==
    \A axis \in Axes : \A k \in DOMAIN axis :
        k + 1 \in DOMAIN axis => axis[k + 1] - axis[k] > Rounding

\* create_random_nets: the driver, its arc and the slew at its input.
PickDriver ==
    /\ step = "generate" /\ ~stress
    /\ \E k \in DOMAIN arcs :
          /\ picked' = k /\ input' = arcs[k].related
          /\ ramp_time' \in RandomBetween(LargestMin(SlewAxes(arcs[k])), SmallestMax(SlewAxes(arcs[k])))
    /\ step' = "receivers"
    /\ UNCHANGED <<vars, cell, net_cap, net, read, result>>

\* One pass of the loop over the receivers.
AddReceiver ==
    /\ step = "receivers" /\ num_receivers < MaxReceivers
    /\ \E r \in Receivers :
          /\ total_min' = total_min + MinPinCap(r)
          /\ total_max' = total_max + MaxPinCap(r)
    /\ num_receivers' = num_receivers + 1
    /\ UNCHANGED <<vars, step, cell, circuit, read, result>>

\* The limits are reduced by the receivers' pins and the net is made.  With an
\* empty window create_random_net tries for ever.
MakeNet ==
    LET largest_min_load == LargestMin(LoadAxes(arcs[picked])) - total_min
        smallest_max_load == SmallestMax(LoadAxes(arcs[picked])) - total_max
        window == {c \in 0..smallest_max_load : largest_min_load <= c}
    IN
    /\ step = "receivers" /\ num_receivers > 0
    /\ IF smallest_max_load > 0 /\ window # {}
       THEN step' = "find" /\ net_cap' \in window
       ELSE /\ step' = IF smallest_max_load > 0 THEN "looping" ELSE "aborted"
            /\ UNCHANGED net_cap
    /\ UNCHANGED <<vars, cell, picked, input, ramp_time, net, read, result>>

AllIntervals(axis) == 0..(Size(axis) - 2)                          \* (variant) no interval skipped
\* The intervals of an axis but the last: "skip the largest slew and largest load".
Intervals(axis) == 0..(Size(axis) - 3)

\* create_random_nets_stress, for one interval of the axes of cell_rise: the input
\* and the arc are drawn one without the other.  With a single entry size() - 2
\* wraps around.
GenerateStress ==
    /\ step = "generate" /\ stress
    /\ input' \in inputs
    /\ \E k \in DOMAIN arcs :
          LET t == arcs[k].tables["cell_rise"] IN
          /\ picked' = k
          /\ IF Size(t.slews) < 2 \/ Size(t.loads) < 2
             THEN step' = "overrun" /\ UNCHANGED <<ramp_time, net_cap>>
             ELSE \E i \in Intervals(t.slews), j \in Intervals(t.loads) :
                     /\ ramp_time' \in t.slews[i]..t.slews[i + 1]
                     /\ net_cap' \in t.loads[j]..t.loads[j + 1]
                     /\ step' = "find"
    /\ UNCHANGED <<vars, cell, net, read, result>>

-----------------------------------------------------------------------------
(* compute_delays_bilinear.                                                  *)

FromInput(in) == {k \in DOMAIN arcs : arcs[k].related = in}

\* A number that was scaled, written, read and scaled back.
Read(x) == (x - Rounding)..(x + Rounding)

\* The slew is read from the circuits file, the load from the SPEF; find_arc returns
\* the first arc of the circuit's input, or a null pointer that stops the program.
FindArc ==
    /\ step = "find"
    /\ slew_read' \in Read(ramp_time) /\ load_read' \in Read(net_cap)
    /\ IF FromInput(input) = {}
       THEN step' = "stopped" /\ UNCHANGED found
       ELSE step' = "tables" /\ found' = Min(FromInput(input))
    /\ UNCHANGED <<vars, cell, net, circuit, result>>

StartLookup ==
    /\ step = "tables" /\ Len(result) < Len(Tables)
    /\ LET t == arcs[found].tables[Tables[Len(result) + 1]] IN
       slews' = t.slews /\ loads' = t.loads
    /\ slew' = slew_read /\ load' = load_read
    /\ pc' = "ranges" /\ slew_index' = 0 /\ load_index' = 0
    /\ x1' = 0 /\ x2' = 0 /\ y1' = 0 /\ y2' = 0
    /\ corner' = [q \in {} |-> Outside] /\ in_range' = TRUE
    /\ step' = "lookup"
    /\ UNCHANGED <<cell, net, circuit, read, result>>

LookupStep == step = "lookup" /\ Next /\ UNCHANGED own

EndLookup ==
    /\ step = "lookup" /\ pc = "done"
    /\ result' = Append(result, [in_range |-> in_range, below |-> BelowLimits])
    /\ step' = "tables"
    /\ UNCHANGED <<vars, cell, net, circuit, read>>

SetResults ==
    /\ step = "tables" /\ Len(result) = Len(Tables)
    /\ step' = "done"
    /\ UNCHANGED <<vars, cell, net, circuit, read, result>>

ArcNext ==
    \/ PickDriver \/ AddReceiver \/ MakeNet \/ GenerateStress \/ FindArc
    \/ StartLookup \/ LookupStep \/ EndLookup \/ SetResults

ArcSpec == ArcInit /\ [][ArcNext]_<<vars, own>>

-----------------------------------------------------------------------------
Overlap(axes) == LargestMin(axes) <= SmallestMax(axes)

\* The table a lookup was made in.
TableOf(k) == arcs[found].tables[Tables[k]]

\* The point of a lookup is inside its table, or beside it by no more than writing
\* and reading the two numbers can move them (the load may be too small by light);
\* and a point inside is not refused.
InsideBut(k, light) ==
    LET t == TableOf(k) IN
    /\ Smallest(t.slews) - Rounding <= slew_read /\ slew_read <= Largest(t.slews) + Rounding
    /\ Smallest(t.loads) - light - Rounding <= load_read /\ load_read <= Largest(t.loads) + Rounding
    /\ Within(t.slews, slew_read) /\ Within(t.loads, load_read) => result[k].in_range

\* A circuit of create_random_nets is looked up inside all four tables of the arc it
\* was drawn from, when that arc is the one that is found again (the first of its
\* input) and its tables have slews in common: the numbers are out of the tables by
\* no more than they change on their way.  The load alone may be too small, by no
\* more than the pins of the receivers, whose capacitance is taken off the lower
\* limit of the wires and not added again (gen_random_nets.cpp:1003).
GeneratedInRange ==
    ~stress /\ found # 0 /\ found = picked /\ Overlap(SlewAxes(arcs[picked])) =>
        \A k \in DOMAIN result : InsideBut(k, total_min)

\* The arcs of the output pin have tables with the same axes.
OneTableShape ==
    \A k, l \in DOMAIN arcs : \A t, u \in Range4(Tables) :
        /\ arcs[k].tables[t].slews = arcs[l].tables[u].slews
        /\ arcs[k].tables[t].loads = arcs[l].tables[u].loads

\* In the stress suite, whose input pin need not be the one of the arc the axes were
\* taken from, every lookup is below the upper limits of its table, where the four
\* corners are inside, provided that all arcs of the cell have the same axes: no
\* draw comes so near to the limit that writing and reading it can reach it
\* (gen_random_nets.cpp:767).
StressBelowLimits ==
    stress /\ found # 0 /\ OneTableShape =>
        \A k \in DOMAIN result : result[k].below /\ InsideBut(k, 0)
=============================================================================
