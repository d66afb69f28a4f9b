----------------------------- MODULE NetLoadMC -----------------------------
(* Requests for TLC: from nets a thousand times too long to nets a hundred   *)
(* times too short, windows that are exactly a factor of one and a half wide *)
(* and wider ones, windows without a lower limit (the receivers' pins are    *)
(* all the load the table asks for).  With several receivers the nets TLC    *)
(* draws differ by a factor of up to 92: windows just wide enough for that,  *)
(* one just too narrow, and one in which the loop goes both ways.            *)
EXTENDS NetLoad

Single(len, cap, w) ==
    [several |-> FALSE, length |-> len, layer_cap |-> cap, lower_caps |-> {},
     lo |-> w[1], hi |-> w[2]]
Several(len, cap, lower, w) ==
    [several |-> TRUE, length |-> len, layer_cap |-> cap, lower_caps |-> lower,
     lo |-> w[1], hi |-> w[2]]

Pairs == {<<20, 30>>, <<30, 45>>, <<2, 3>>, <<4, 400>>, <<-3, 7>>, <<0, 1>>}
SomeRequests ==
    {Single(len, cap, w) : len \in {1, 7, 10, 64, 100, 999, 1000},
                           cap \in {1, 2, 3, 5}, w \in Pairs}
    \cup {Several(len, 1, {1, 2}, w) : len \in {5, 10, 200}, w \in {<<1, 121>>, <<1, 120>>, <<0, 4>>}}
    \cup {Several(len, 3, {1}, <<1, 139>>) : len \in {10, 100}}
    \cup {Several(len, 3, {1, 2}, w) : len \in {10, 400}, w \in {<<1, 139>>, <<2, 60>>}}
=============================================================================
