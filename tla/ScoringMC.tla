----------------------------- MODULE ScoringMC -----------------------------
(* Circuits for TLC: the rise measures take every combination of values, the  *)
(* fall measures are mostly exact.  Errors of 4 to 60 percent, both signs, at the    *)
(* thresholds (20 and 40 tenths) and on either side of them; results that are *)
(* failed, negative but taken for measured, and zero.                         *)
EXTENDS Scoring

Values(r, other) == [m \in Measures |-> IF m[1] = "rise" THEN r ELSE other]
Case(g, x, y) == [golden |-> Values(g, 400), ccs |-> Values(x, 400), rival |-> Values(y, 400)]

\* Both edges are off by the same.
Both(g, x) == [golden |-> Values(g, g), ccs |-> Values(x, x), rival |-> Values(x, x)]

Measured ==
    {Both(400, 500), Both(800, 825), Both(800, 770)} \cup
    {Case(g, x, y) : g \in {100, 400}, x \in {0, 40, 79, 80, 100, 360, 379, 381, 440, 460, 600},
                     y \in {0, 60, 100, 121, 380, 400, 420, 441}}
Unmeasured == {Case(g, x, x) : g \in {-200, -10, 0}, x \in {0, 100}}
AllCases == {c \in Measured \cup Unmeasured : \A m \in Measures :
                Abs(c.rival[m] - c.golden[m]) <= Abs(c.ccs[m] - c.golden[m])}
=============================================================================
