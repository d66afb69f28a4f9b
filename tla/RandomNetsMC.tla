---------------------------- MODULE RandomNetsMC ----------------------------
(* A library with an inverter, a buffer and a gate with two inputs (and a     *)
(* clock pin no arc starts from), a tie cell without inputs, a latch whose    *)
(* arc has no tables and a filler without an output; arcs differ in what they *)
(* can drive.                                                                *)
EXTENDS RandomNets

Arc(in, lo, hi, minc, maxc) ==
    [related |-> in, min_load |-> lo, max_load |-> hi, min_cap |-> minc, max_cap |-> maxc,
     tables |-> TRUE]

Inv  == [out |-> "Y", ins |-> {"A"}, arcs |-> {Arc("A", 1, 9, 1, 2)}]
Gate == [out |-> "Y", ins |-> {"A", "B", "CK"},
         arcs |-> {Arc("A", 2, 20, 1, 3), Arc("B", 0, 5, 2, 4)}]
Tie  == [out |-> "Z", ins |-> {}, arcs |-> {}]
Fill == [out |-> NoPin, ins |-> {}, arcs |-> {}]

Latch == [out |-> "Q", ins |-> {"D"}, arcs |-> {[Arc("D", 0, 9, 1, 1) EXCEPT !.tables = FALSE]}]

Gates == [c \in {"INV", "BUF", "NAND2", "TIE", "LATCH", "FILL"} |->
            CASE c \in {"INV", "BUF"} -> Inv [] c = "NAND2" -> Gate [] c = "TIE" -> Tie
              [] c = "LATCH" -> Latch [] c = "FILL" -> Fill]
TwoDrivers == <<"INV", "BUF">>
=============================================================================
