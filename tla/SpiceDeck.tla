----------------------------- MODULE SpiceDeck -----------------------------
(***************************************************************************)
(* Circuit::write_spice_deck: the deck that measures the golden delays and *)
(* slews of one circuit, written section by section, and the SPICE library *)
(* reader that gives it the order of each cell's pins.                     *)
(*                                                                         *)
(* A deck holds the stage twice: in the half "rise" the driver's output    *)
(* rises, in the half "fall" it falls.  Each half has its own copy of      *)
(* every rail, source, instance and device; the two share the node 0 only  *)
(* (the suffixes _rise and _fall of the names).                            *)
(*                                                                         *)
(* A node is a pair <<instance, pin>>; a rail or another named node has no *)
(* instance.  Voltages are hundredths of the supplies' unit, so that half  *)
(* a rail and a percentage of it are integers.  Times are picoseconds      *)
(* divided into RiseWidth * FallWidth parts, so that a ramp scaled to the  *)
(* thresholds is one: what the code computes in floats is exact here.      *)
(***************************************************************************)
EXTENDS Integers, Sequences

CONSTANTS Libraries,  \* [cells, subckts, voltages, thresholds]: Liberty and SPICE
          Stages,     \* [circuit, net]: a circuit and the nets of its name in the SPEF
          AsuPoints   \* AsuDriverWave: <<time in % of the slew, voltage in % of the rail>>

\* Thresholds are percentages with the lower one below; the wave goes on in time and
\* past the half; a stage has an instance that drives, from one pin to another, and
\* none of its signals has the name of a supply.
ASSUME DeckAssumption ==
    /\ \A l \in Libraries :
        LET t == l.thresholds IN
        /\ DOMAIN l.voltages \subseteq Nat
        /\ \A k \in DOMAIN l.voltages : l.voltages[k].volts \in Int
        /\ t \in [lower_rise : 1..99, upper_rise : 1..99, lower_fall : 1..99, upper_fall : 1..99]
        /\ t.lower_rise < t.upper_rise /\ t.lower_fall < t.upper_fall
    /\ \A s \in Stages :
        LET c == s.circuit IN
        /\ c.tramp \in Nat /\ c.driver.inst # "" /\ c.driver.in # c.driver.out
        /\ \A l \in Libraries : \A k \in DOMAIN l.voltages :
            l.voltages[k].rail \notin {c.driver.in, c.driver.out, c.load.in, c.load.out}
    /\ AsuPoints \in Seq(Nat \X Nat)
    /\ \A j, k \in DOMAIN AsuPoints : j <= k => AsuPoints[j][1] <= AsuPoints[k][1]
    /\ \E k \in DOMAIN AsuPoints : AsuPoints[k][2] >= 50

Halves == {"rise", "fall"}

VARIABLES pc,         \* the next section, "done" or "aborted" (an assertion failed)
          lib, circuit, net,
          pin_order,          \* Cell::_pin_order of every cell
          deck,               \* the elements written
          measures,           \* the .measure statements written
          power_rail_voltage, \* 0 before it is set
          sim_time

vars == <<pc, lib, circuit, net, pin_order, deck, measures, power_rail_voltage, sim_time>>
inputs == <<lib, circuit, net>>

Rails == {lib.voltages[k].rail : k \in DOMAIN lib.voltages}
RiseWidth == lib.thresholds.upper_rise - lib.thresholds.lower_rise
FallWidth == lib.thresholds.upper_fall - lib.thresholds.lower_fall
Unit == RiseWidth * FallWidth

Init ==
    /\ pc = "spice_lib"
    /\ lib \in Libraries
    /\ \E stage \in Stages : circuit = stage.circuit /\ net = stage.net
    /\ pin_order = [c \in DOMAIN lib.cells |-> <<>>]
    /\ deck = {} /\ measures = {}
    /\ power_rail_voltage = 0 /\ sim_time = 0

-----------------------------------------------------------------------------
(* read_spice_lib.  main ignores its result: without the file no cell has a  *)
(* pin order, as a cell that no .SUBCKT line names.                          *)

LinesOf(c) == {k \in DOMAIN lib.subckts : lib.subckts[k].cell = c}
LastLine(c) == CHOOSE k \in LinesOf(c) : \A l \in LinesOf(c) : l <= k

ReadSpiceLib ==
    /\ pc = "spice_lib"
    /\ \/ pin_order' = [c \in DOMAIN lib.cells |->
                          IF LinesOf(c) = {} THEN <<>> ELSE lib.subckts[LastLine(c)].pins]
       \/ UNCHANGED pin_order                                      \* can't find the file
    /\ pc' = "voltages"
    /\ UNCHANGED <<inputs, deck, measures, power_rail_voltage, sim_time>>

-----------------------------------------------------------------------------
(* What is written is written for both halves.                               *)

Ground == <<"", "0">>
Rail(r) == <<"", r>>
FarNode == <<"", "far_node">>
Pin(i, p) == <<i.inst, p>>

Element(kind, name, nodes) ==
    {[kind |-> kind, name |-> <<name>>, half |-> h, nodes |-> nodes, pwl |-> <<>>] : h \in Halves}
Device(kind, k, nodes) ==
    {[kind |-> kind, name |-> <<"net", k - 1>>, half |-> h, nodes |-> nodes, pwl |-> <<>>] : h \in Halves}
Source(name, node, h, pwl) ==
    [kind |-> "V", name |-> <<name>>, half |-> h, nodes |-> <<node, Ground>>, pwl |-> pwl]

\* CellPin::find_arc of the driver's first output pin.
ArcsFrom(c, in) == {k \in DOMAIN lib.cells[c].arcs : lib.cells[c].arcs[k].related = in}
FindArc(c, in) == lib.cells[c].arcs[CHOOSE k \in ArcsFrom(c, in) : \A l \in ArcsFrom(c, in) : k <= l]

\* The assertions of is_positive_unate.
UnatenessKnown ==
    LET d == circuit.driver IN
    /\ lib.cells[d.cell].out = d.out
    /\ ArcsFrom(d.cell, d.in) # {}
    /\ FindArc(d.cell, d.in).sense \in {"positive_unate", "negative_unate"}
IsPositiveUnate == FindArc(circuit.driver.cell, circuit.driver.in).sense = "positive_unate"

NonzeroRails == {k \in DOMAIN lib.voltages : lib.voltages[k].volts # 0}
\* The last one of the voltage map that is not at 0.0V.
LastNonzeroRail ==
    lib.voltages[CHOOSE k \in NonzeroRails : \A l \in NonzeroRails : l <= k].volts

tstart == 100 * Unit
tpulse == 1900 * Unit
RampRise == circuit.tramp * 100 * FallWidth                        \* tramp * 100 / RiseWidth
RampFall == circuit.tramp * 100 * RiseWidth

\* From one rail to the other and back.
Pulse(from, to) ==
    LET t1 == tstart + RampRise  t2 == t1 + tpulse  t3 == t2 + RampFall IN
    << <<0, from>>, <<tstart, from>>, <<t1, to>>, <<t2, to>>, <<t3, from>>, <<t3 + tpulse, from>> >>

AsuTime(k) == (circuit.tramp * AsuPoints[k][1] * Unit) \div 100

\* The exponential waveform, from one rail to the other.
AsuWave(from, to) ==
    [k \in 1..(Len(AsuPoints) + 1) |->
        IF k = 1 THEN <<0, from>>
        ELSE <<AsuTime(k - 1), from + (((to - from) * AsuPoints[k - 1][2]) \div 100)>>]

SwingByHalf(h, v) == IF h = "rise" THEN <<0, v>> ELSE <<v, 0>>     \* (variant) as for a buffer
Swing(h, v) == IF (h = "rise") = IsPositiveUnate THEN <<0, v>> ELSE <<v, 0>>

\* Any waveform but asu_exp is taken for a ramp.
Waveform(h, v) ==
    LET s == Swing(h, v) IN
    IF circuit.waveform = "asu_exp" THEN AsuWave(s[1], s[2]) ELSE Pulse(s[1], s[2])

SimTime ==
    IF circuit.waveform = "asu_exp"
    THEN AsuTime(Len(AsuPoints)) + (circuit.tramp * 2 + 500) * Unit
    ELSE tstart + RampRise + tpulse

RailSources ==
    {Source(lib.voltages[k].rail, Rail(lib.voltages[k].rail), h, << <<0, 100 * lib.voltages[k].volts>> >>) :
        k \in DOMAIN lib.voltages, h \in Halves}

WriteVoltages ==
    /\ pc = "voltages"
    /\ power_rail_voltage' = LastNonzeroRail
    /\ IF UnatenessKnown
       THEN /\ deck' = RailSources \cup
                         {Source("input", Pin(circuit.driver, circuit.driver.in), h,
                                 Waveform(h, 100 * power_rail_voltage')) : h \in Halves}
            /\ sim_time' = SimTime
            /\ pc' = "driver"
       ELSE /\ deck' = RailSources
            /\ pc' = "aborted"
            /\ UNCHANGED sim_time
    /\ UNCHANGED <<inputs, pin_order, measures>>

PortsNoRails(i) == [k \in DOMAIN pin_order[i.cell] |-> Pin(i, pin_order[i.cell][k])]   \* (variant)
\* A pin with a rail's name is the rail, any other one belongs to the instance.
Ports(i) == [k \in DOMAIN pin_order[i.cell] |->
                LET p == pin_order[i.cell][k] IN IF p \in Rails THEN Rail(p) ELSE Pin(i, p)]

WriteDriver ==
    /\ pc = "driver"
    /\ deck' = deck \cup Element("X", circuit.driver.inst, Ports(circuit.driver))
    /\ pc' = "net"
    /\ UNCHANGED <<inputs, pin_order, measures, power_rail_voltage, sim_time>>

\* A capacitor without a second node goes to the rail VSS.
CapNodes(c) == IF c[2] = Ground THEN <<c[1], Rail("VSS")>> ELSE c

WriteNet ==
    /\ pc = "net"
    /\ deck' = deck \cup (UNION {Device("C", k, CapNodes(net.caps[k])) : k \in DOMAIN net.caps})
                    \cup (UNION {Device("R", k, net.ress[k]) : k \in DOMAIN net.ress})
    /\ pc' = "load"
    /\ UNCHANGED <<inputs, pin_order, measures, power_rail_voltage, sim_time>>

WriteLoad ==
    /\ pc = "load"
    /\ deck' = deck \cup Element("X", circuit.load.inst, Ports(circuit.load))
    /\ pc' = "parasitics"
    /\ UNCHANGED <<inputs, pin_order, measures, power_rail_voltage, sim_time>>

LoadOut == Pin(circuit.load, circuit.load.out)

WriteLoadParasitics ==
    /\ pc = "parasitics"
    /\ deck' = deck \cup Element("C", "near", <<LoadOut, Ground>>) \cup
         IF circuit.res # 0 \/ circuit.cfar # 0
         THEN Element("R", "res", <<LoadOut, FarNode>>) \cup Element("C", "far", <<FarNode, Ground>>)
         ELSE {}
    /\ pc' = "commands"
    /\ UNCHANGED <<inputs, pin_order, measures, power_rail_voltage, sim_time>>

\* The first crossing of a level (in % of the power rail) in a direction.
Event(p, pct, dir) == [pin |-> p, level |-> pct * power_rail_voltage, dir |-> dir]
Opposite(dir) == IF dir = "rise" THEN "fall" ELSE "rise"

\* "<half>_delay": from the input's edge that makes the output move the half's way.
Delay(h) ==
    [name |-> "delay", half |-> h, targ |-> Event(circuit.driver.out, 50, h),
     trig |-> Event(circuit.driver.in, 50, IF IsPositiveUnate THEN h ELSE Opposite(h))]

\* "<half>_slew": between two levels of the output.
Slew(h) ==
    LET t == lib.thresholds out == circuit.driver.out IN
    [name |-> "slew", half |-> h,
     trig |-> Event(out, IF h = "rise" THEN t.lower_rise ELSE t.upper_fall, h),
     targ |-> Event(out, IF h = "rise" THEN t.upper_rise ELSE t.lower_fall, h)]

WriteCommands ==
    /\ pc = "commands"
    /\ measures' = {Delay(h) : h \in Halves} \cup {Slew(h) : h \in Halves}
    /\ pc' = "done"
    /\ UNCHANGED <<inputs, pin_order, deck, power_rail_voltage, sim_time>>

Next ==
    \/ ReadSpiceLib \/ WriteVoltages \/ WriteDriver \/ WriteNet
    \/ WriteLoad \/ WriteLoadParasitics \/ WriteCommands

Spec == Init /\ [][Next]_vars

-----------------------------------------------------------------------------
\* How a simulator reads the deck.
Of(h, kind) == {e \in deck : e.half = h /\ e.kind = kind}
SourceAt(h, node) == {e \in Of(h, "V") : e.nodes[1] = node}
PortsOf(h, i) == UNION {{e.nodes[k] : k \in DOMAIN e.nodes} : e \in {x \in Of(h, "X") : x.name = <<i.inst>>}}
InputWave(h) == (CHOOSE e \in SourceAt(h, Pin(circuit.driver, circuit.driver.in)) : TRUE).pwl
Supplies(h) == UNION {{e.pwl[1][2] : e \in {x \in SourceAt(h, n) : Len(x.pwl) = 1}} :
                        n \in PortsOf(h, circuit.driver)}
InputDir(h) == IF InputWave(h)[1][2] = 0 THEN "rise" ELSE "fall"
OutputDir(h) == IF IsPositiveUnate THEN InputDir(h) ELSE Opposite(InputDir(h))

\* The SPICE library has the two cells with the pins the Liberty file gives them,
\* and the supply of the driver is the one taken for the power rail.
HasPins(i) == {i.in, i.out} \subseteq {pin_order[i.cell][k] : k \in DOMAIN pin_order[i.cell]}
SuppliesOf(i) == {k \in DOMAIN lib.voltages :
                    \E l \in DOMAIN pin_order[i.cell] : pin_order[i.cell][l] = lib.voltages[k].rail}
Characterised ==
    /\ HasPins(circuit.driver) /\ HasPins(circuit.load)
    /\ \E k \in SuppliesOf(circuit.driver) : lib.voltages[k].volts = 0
    /\ \E k \in SuppliesOf(circuit.driver) :
          /\ lib.voltages[k].volts > 0
          /\ \A l \in NonzeroRails : l <= k

Distance(a, b) == IF a < b THEN b - a ELSE a - b

\* A piecewise linear source crosses a level, before the simulation ends.
Crosses(w, e) ==
    \E k \in 1..(Len(w) - 1) :
        LET a == w[k]  b == w[k + 1] IN
        /\ IF e.dir = "rise" THEN a[2] < e.level /\ e.level <= b[2]
                             ELSE b[2] <= e.level /\ e.level < a[2]
        /\ (b[1] - a[1]) * Distance(e.level, a[2]) <= (sim_time - a[1]) * Distance(b[2], a[2])

\* Every event a .measure statement waits for takes place: the input's source
\* crosses the trigger's level in the trigger's direction while the simulation runs,
\* and the output moves in the direction that is measured, between supplies that
\* hold the level.  (Stimulus, simulation time, power rail and statements are
\* written by different functions, for two halves and both senses; an event that
\* does not occur is a FAILED result, and so a golden delay of 0.)
MeasuresHappen ==
    pc = "done" /\ Characterised =>
        \A m \in measures : \A e \in {m.trig, m.targ} :
            IF e.pin = circuit.driver.in
            THEN Crosses(InputWave(m.half), e)
            ELSE /\ e.dir = OutputDir(m.half)
                 /\ \E low, high \in Supplies(m.half) : low < e.level /\ e.level < high

\* Nodes connected by devices, as sets closed under them.
Joined(devices, from, to) ==
    \A S \in SUBSET ({from, to} \cup UNION {{d[1], d[2]} : d \in devices}) :
        from \in S /\ (\A d \in devices : d[1] \in S <=> d[2] \in S) => to \in S
Resistors(h) == {e.nodes : e \in Of(h, "R")}

\* In each half the stage is whole: the source drives the pin of the driver's
\* instance, the wires lead from its output to a pin of the load's, both have
\* their rails, and no capacitor of the net hangs on a node nothing holds.
\* (Nodes of the net are named by the SPEF, those of the instances from the
\* circuit, the Liberty's rails and the SPICE library's pin order.)
StageConnected ==
    pc = "done" /\ Characterised =>
        \A h \in Halves :
            LET from == Pin(circuit.driver, circuit.driver.out)
                to == Pin(circuit.load, circuit.load.in) IN
            /\ {from, Pin(circuit.driver, circuit.driver.in)} \subseteq PortsOf(h, circuit.driver)
            /\ {to, LoadOut} \subseteq PortsOf(h, circuit.load)
            /\ Joined({net.ress[k] : k \in DOMAIN net.ress}, from, to) => Joined(Resistors(h), from, to)
            /\ \A i \in {circuit.driver, circuit.load} : \A k \in SuppliesOf(i) :
                  Rail(lib.voltages[k].rail) \in PortsOf(h, i)
            /\ "VSS" \in Rails => \A k \in DOMAIN net.caps :
                  net.caps[k][2] = Ground =>
                      \E e \in Of(h, "C") : e.name = <<"net", k - 1>> /\ SourceAt(h, e.nodes[2]) # {}
=============================================================================
