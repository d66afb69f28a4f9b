---------------------------- MODULE SpiceDeckMC ----------------------------
(* Libraries of a buffer, an inverter, a gate with two inputs of different    *)
(* senses, a cell that is not unate and one the SPICE library lacks; with one *)
(* supply and with two, with equal and with different thresholds, and with a  *)
(* .SUBCKT line given twice.                                                 *)
EXTENDS SpiceDeck

Arc(in, sense) == [related |-> in, sense |-> sense]
Pos == "positive_unate"
Neg == "negative_unate"
Cell(out, arcs) == [out |-> out, arcs |-> arcs]
Gates == [c \in {"BUF", "INV", "AOI", "XOR", "NEW"} |->
            CASE c \in {"BUF", "NEW"} -> Cell("Y", <<Arc("A", Pos)>>)
              [] c = "INV" -> Cell("Y", <<Arc("A", Neg)>>)
              [] c = "AOI" -> Cell("Y", <<Arc("A", Neg), Arc("B", Pos), Arc("B", Neg)>>)
              [] c = "XOR" -> Cell("Y", <<Arc("A", "non_unate")>>)]

Line(c, pins) == [cell |-> c, pins |-> pins]
Lines(supply) == <<Line("INV", <<"A">>),
                   Line("BUF", <<"VSS", supply, "A", "Y">>), Line("INV", <<"VSS", supply, "A", "Y">>),
                   Line("AOI", <<"Y", "B", "A", "VSS", supply>>), Line("XOR", <<"VSS", supply, "A", "Y">>),
                   Line("OTHER", <<"A">>)>>

Volts(r, v) == [rail |-> r, volts |-> v]
OneSupply == <<Volts("VDD", 1), Volts("VSS", 0)>>
TwoSupplies == <<Volts("VDD", 1), Volts("VDDH", 2), Volts("VSS", 0)>>

Thresholds(lr, ur, lf, uf) ==
    [lower_rise |-> lr, upper_rise |-> ur, lower_fall |-> lf, upper_fall |-> uf]
Equal == Thresholds(30, 70, 30, 70)
Unequal == Thresholds(30, 70, 20, 40)

Library(supply, voltages, thresholds) ==
    [cells |-> Gates, subckts |-> Lines(supply), voltages |-> voltages, thresholds |-> thresholds]
SomeLibraries == {Library("VDD", OneSupply, Equal), Library("VDD", OneSupply, Unequal),
                  Library("VDDH", TwoSupplies, Equal), Library("VDD", TwoSupplies, Equal)}

Inst(i, c, in) == [inst |-> i, cell |-> c, in |-> in, out |-> "Y"]
Drivers == {Inst("I1", c, "A") : c \in {"BUF", "INV", "AOI", "XOR", "NEW"}} \cup {Inst("I1", "AOI", "B")}
Circuits == [driver : Drivers, load : {Inst("I2", "INV", "A"), Inst("I2", "NEW", "A")},
             waveform : {"ramp", "asu_exp"}, tramp : {5, 80}, res : {0, 1}, cfar : {0}]

\* A pi model, and a tree with a further receiver and a coupling capacitor.
Pi == [caps |-> <<<<<<"I1", "Y">>, Ground>>, <<<<"I2", "A">>, Ground>>>>,
       ress |-> <<<<<<"I1", "Y">>, <<"I2", "A">>>>>>]
Tree == LET n == <<"net_0", "1">> IN
        [caps |-> <<<<n, Ground>>, <<n, <<"I3", "A">>>>>>,
         ress |-> <<<<<<"I1", "Y">>, n>>, <<n, <<"I2", "A">>>>, <<n, <<"I3", "A">>>>>>]
SomeStages == [circuit : Circuits, net : {Pi, Tree}]

Wave == <<<<140, 0>>, <<150, 10>>, <<185, 50>>, <<270, 100>>>>
=============================================================================
