------------------------------ MODULE Scoring ------------------------------
(***************************************************************************)
(* analyze_results: the score of a contestant, summed over the circuits.   *)
(*                                                                         *)
(* Times are integers in tenths of a picosecond.  The square of a relative *)
(* error is kept as an integer in units of 1/Scale^2, exact because every  *)
(* golden value divides Scale; Infinite stands for a sum to which a        *)
(* division by zero has been added.  The square root is not taken: it does *)
(* not change the order of two scores.  Beside the contestant the sums are *)
(* kept of a rival whose every value is at least as close to the golden    *)
(* one, so that two runs of the function can be compared.                  *)
(***************************************************************************)
EXTENDS Integers, Sequences, FiniteSets

CONSTANTS Circuits,     \* [golden, ccs, rival], functions on Measures
          NumCkts,      \* circuits in the file
          Scale,
          Infinite

Kinds    == {"delay", "slew"}
Measures == {"rise", "fall"} \X Kinds

Abs(x) == IF x < 0 THEN -x ELSE x

ASSUME ScoringAssumption ==
    /\ NumCkts \in Nat \ {0} /\ Scale \in Nat \ {0} /\ Scale % 20 = 0 /\ Infinite \notin Int
    /\ \A c \in Circuits : \A m \in Measures :
        /\ c.golden[m] \in Int /\ c.ccs[m] \in Int /\ c.rival[m] \in Int
        /\ c.golden[m] # 0 => Scale % Abs(c.golden[m]) = 0
        /\ Abs(c.rival[m] - c.golden[m]) <= Abs(c.ccs[m] - c.golden[m])

DELAY_TA == 20      \* 2 ps
SLEW_TA  == 40      \* 4 ps
DELAY_TO == 5       \* percent
SLEW_TO  == 10
TA(kind) == IF kind = "delay" THEN DELAY_TA ELSE SLEW_TA
TO(kind) == IF kind = "delay" THEN DELAY_TO ELSE SLEW_TO

VARIABLES ckts,         \* the circuits that were looked at, in order
          sum,          \* accumulated_*_diff of the contestant and the rival
          outliers,     \* NO_delay and NO_slew of both
          skipped_circuits,
          N,            \* 2.0*(circuitMgr.size() - skipped_circuits), -1 before
          score         \* "none", or what delay_pts and slew_pts are: a "number",
                        \* "-inf", or "nan"

vars == <<ckts, sum, outliers, skipped_circuits, N, score>>

Init ==
    /\ ckts = <<>>
    /\ sum = [who \in {"ccs", "rival"} |-> [k \in Kinds |-> 0]]
    /\ outliers = [who \in {"ccs", "rival"} |-> [k \in Kinds |-> 0]]
    /\ skipped_circuits = 0
    /\ N = -1
    /\ score = "none"

\* |x - g|/|g| in units of 1/Scale, and 0 below the threshold.
SignedError(kind, x, g) ==                                  \* (variant) no abs
    IF x - g > TA(kind) THEN (IF g = 0 THEN Infinite ELSE (x - g) * (Scale \div Abs(g))) ELSE 0
Error(kind, x, g) ==
    IF Abs(x - g) > TA(kind)
    THEN IF g = 0 THEN Infinite ELSE Abs(x - g) * (Scale \div Abs(g))
    ELSE 0

Plus(a, b) == IF Infinite \in {a, b} THEN Infinite ELSE a + b
Square(a) == IF a = Infinite THEN Infinite ELSE a * a
\* The limit is a share of the golden value, not of the threshold.
Limit(kind) == (TO(kind) * Scale) \div 100
IsOutlierTwice(kind, e) == e = Infinite \/ 2 * e > Limit(kind)  \* (variant)
IsOutlier(kind, e) == e = Infinite \/ e > Limit(kind)

SkipUnlessAll(c) == \A m \in Measures : c.golden[m] < -10   \* (variant)
Skip(c) == \E m \in Measures : c.golden[m] < -10

Errors(c, who, kind) ==
    [e \in {"rise", "fall"} |-> Error(kind, c[who][<<e, kind>>], c.golden[<<e, kind>>])]
Outliers(err, kind) ==
    (IF IsOutlier(kind, err["rise"]) THEN 1 ELSE 0) + (IF IsOutlier(kind, err["fall"]) THEN 1 ELSE 0)

Added(c, who, kind) ==
    LET err == Errors(c, who, kind) IN Plus(Square(err["rise"]), Square(err["fall"]))
Counted(c, who, kind) == Outliers(Errors(c, who, kind), kind)

AddErrors(c) ==
    /\ sum' = [who \in {"ccs", "rival"} |->
                  [k \in Kinds |-> Plus(sum[who][k], Added(c, who, k))]]
    /\ outliers' = [who \in {"ccs", "rival"} |->
                       [k \in Kinds |-> outliers[who][k] + Counted(c, who, k)]]

\* One circuit, left out or counted.
ScoreCircuit ==
    /\ Len(ckts) < NumCkts
    /\ \E c \in Circuits :
        /\ ckts' = Append(ckts, c)
        /\ IF Skip(c)
           THEN skipped_circuits' = skipped_circuits + 1 /\ UNCHANGED <<sum, outliers>>
           ELSE AddErrors(c) /\ UNCHANGED skipped_circuits
    /\ UNCHANGED <<N, score>>

Count == 2 * (Len(ckts) - skipped_circuits)

\* With no circuit left, 0/0.
Average ==
    /\ Len(ckts) = NumCkts /\ score = "none"
    /\ N' = Count
    /\ score' = IF Count = 0 THEN "nan"
                ELSE IF \E k \in Kinds : sum["ccs"][k] = Infinite THEN "-inf" ELSE "number"
    /\ UNCHANGED <<ckts, sum, outliers, skipped_circuits>>

Next == ScoreCircuit \/ Average

Spec == Init /\ [][Next]_vars

-----------------------------------------------------------------------------
AtMost(a, b) == b = Infinite \/ (a # Infinite /\ a <= b)

\* Coming closer to the golden values never costs points: neither the error nor
\* the number of outliers can grow (the thresholds make steps, downwards only).
CloserIsNoWorse ==
    \A k \in Kinds : /\ AtMost(sum["rival"][k], sum["ccs"][k])
                     /\ outliers["rival"][k] <= outliers["ccs"][k]

\* The two parts of the score agree: every outlier has added more than the limit
\* to the error it is an outlier of.
OutliersAreErrors ==
    \A who \in {"ccs", "rival"}, k \in Kinds :
        AtMost(outliers[who][k] * Square(Limit(k)), sum[who][k])

\* "If any of the spice results are negative, we skip the circuit from inclusion"
\* (delay_calc_tool.cpp:85).  The code takes a result down to -1 ps for measured.
Negative(c) == \E m \in Measures : c.golden[m] < 0
Marginal(c) == \E m \in Measures : c.golden[m] \in -10..-1

\* The error and the outliers of a suite of which the circuits with a negative
\* result are taken out.
Tally(s, who, kind) ==
    LET f[j \in 0..Len(s)] ==
            IF j = 0 THEN <<0, 0>>
            ELSE IF Negative(s[j]) THEN f[j - 1]
            ELSE <<Plus(f[j - 1][1], Added(s[j], who, kind)), f[j - 1][2] + Counted(s[j], who, kind)>>
    IN  f[Len(s)]

\* A failed measurement (-1 in the file, read as -1.0e+12 ps) costs and gains
\* nothing, wherever it stands among the circuits that did not fail: the sums,
\* the outliers and the number they are divided by are those of the suite
\* without the failed ones.
FailedNotCounted ==
    (\A i \in DOMAIN ckts : ~Marginal(ckts[i])) =>
        /\ \A who \in {"ccs", "rival"}, k \in Kinds :
               <<sum[who][k], outliers[who][k]>> = Tally(ckts, who, k)
        /\ score # "none" => N = 2 * Cardinality({i \in DOMAIN ckts : ~Negative(ckts[i])})

=============================================================================
