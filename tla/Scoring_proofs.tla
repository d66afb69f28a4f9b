--------------------------- MODULE Scoring_proofs ---------------------------
(***************************************************************************)
(* The score for every suite: coming closer to the golden values costs     *)
(* nothing, outliers are paid for in the error, and the circuits with      *)
(* failed measurements leave no trace.                                     *)
(*                                                                         *)
(* The argument is circuit by circuit.  The error of a measure grows with  *)
(* the distance from the golden value, squares and sums keep that order    *)
(* (with Infinite above all numbers), and an error counted as an outlier   *)
(* is larger than the limit, so its square is larger than the limit's.     *)
(* What was added up so far is the tally of the circuits looked at that    *)
(* did not fail: the tally is a recursive function of the suite, which one *)
(* circuit more extends.                                                   *)
(***************************************************************************)
EXTENDS Scoring, FiniteSetTheorems, NaturalsInduction, WellFoundedInduction, TLAPS

Who == {"ccs", "rival"}
Sums == Nat \cup {Infinite}

TypeOK ==
    /\ ckts \in Seq(Circuits) /\ Len(ckts) <= NumCkts
    /\ sum \in [Who -> [Kinds -> Sums]]
    /\ outliers \in [Who -> [Kinds -> Nat]]
    /\ skipped_circuits \in 0..Len(ckts)
    /\ N \in Int /\ score \in {"none", "number", "-inf", "nan"}

\* What has been added up is the tally of the circuits that did not fail, and the
\* number the sums are divided by counts these.
TallyKept ==
    /\ score = "none" => N = -1
    /\ score # "none" => N = Count /\ Len(ckts) = NumCkts
    /\ (\A i \in 1..Len(ckts) : ~Marginal(ckts[i])) =>
          /\ \A who \in Who, k \in Kinds : <<sum[who][k], outliers[who][k]>> = Tally(ckts, who, k)
          /\ Len(ckts) - skipped_circuits = Cardinality({i \in 1..Len(ckts) : ~Negative(ckts[i])})

IInv == TypeOK /\ CloserIsNoWorse /\ OutliersAreErrors /\ TallyKept

-----------------------------------------------------------------------------
LEMMA PlusType == \A a, b \in Sums : Plus(a, b) \in Sums
BY ScoringAssumption DEF Sums, Plus

LEMMA PlusMonotonic ==
    ASSUME NEW a \in Sums, NEW b \in Sums, NEW c \in Sums, NEW d \in Sums, AtMost(a, b), AtMost(c, d)
    PROVE  AtMost(Plus(a, c), Plus(b, d))
<1>1. CASE Infinite \in {b, d}
  BY <1>1 DEF AtMost, Plus
<1>2. CASE Infinite \notin {b, d}
  <2>1. a \in Nat /\ b \in Nat /\ c \in Nat /\ d \in Nat /\ a <= b /\ c <= d
    BY <1>2 DEF AtMost, Sums
  <2>2. Plus(a, c) = a + c /\ Plus(b, d) = b + d /\ a + c # Infinite
    BY <2>1, ScoringAssumption DEF Plus
  <2> QED
    BY <2>1, <2>2 DEF AtMost
<1> QED
  BY <1>1, <1>2

LEMMA SquareType == \A a \in Sums : Square(a) \in Sums
<1> TAKE a \in Sums
<1>1. a \in Nat => a * a \in Nat
  BY Z3
<1> QED
  BY <1>1 DEF Sums, Square

LEMMA SquareMonotonic ==
    ASSUME NEW a \in Sums, NEW b \in Sums, AtMost(a, b)
    PROVE  AtMost(Square(a), Square(b))
<1>1. CASE b = Infinite
  BY <1>1 DEF AtMost, Square
<1>2. CASE b # Infinite
  <2>1. a \in Nat /\ b \in Nat /\ a <= b /\ a # Infinite
    BY <1>2 DEF AtMost, Sums
  <2>2. a * a <= b * b /\ a * a \in Nat /\ b * b \in Nat
    BY <2>1, Z3
  <2>3. Square(a) = a * a /\ Square(b) = b * b /\ a * a # Infinite
    BY <1>2, <2>1, <2>2, ScoringAssumption DEF Square
  <2> QED
    BY <2>2, <2>3 DEF AtMost
<1> QED
  BY <1>1, <1>2

-----------------------------------------------------------------------------
\* One measure of one circuit.

LEMMA CircuitValues ==
    ASSUME NEW c \in Circuits, NEW m \in Measures
    PROVE  /\ c.golden[m] \in Int /\ c["ccs"][m] \in Int /\ c["rival"][m] \in Int
           /\ Abs(c["rival"][m] - c.golden[m]) <= Abs(c["ccs"][m] - c.golden[m])
BY ScoringAssumption

\* An error is a multiple of the distance from the golden value.
LEMMA ErrorOfDistance ==
    ASSUME NEW k \in Kinds, NEW x \in Int, NEW g \in Int
    PROVE  /\ Error(k, x, g) \in Sums
           /\ Abs(x - g) <= TA(k) => Error(k, x, g) = 0
           /\ Abs(x - g) > TA(k) /\ g = 0 => Error(k, x, g) = Infinite
           /\ Abs(x - g) > TA(k) /\ g # 0 =>
                 Scale \div Abs(g) \in Nat /\ Error(k, x, g) = Abs(x - g) * (Scale \div Abs(g))
<1>1. Abs(x - g) \in Nat /\ Abs(g) \in Nat /\ (g # 0 => Abs(g) \in Nat \ {0}) /\ TA(k) \in Nat
  BY DEF Abs, TA, DELAY_TA, SLEW_TA
<1>2. g # 0 => Scale \div Abs(g) \in Nat
  <2>1. \A s \in Nat, n \in Nat \ {0} : s \div n \in Nat
    BY Z3
  <2> QED
    BY <1>1, <2>1, ScoringAssumption
<1>3. \A a, b \in Nat : a * b \in Nat
  BY Z3
<1> QED
  BY <1>1, <1>2, <1>3 DEF Error, Sums

LEMMA ErrorMonotonic ==
    ASSUME NEW k \in Kinds, NEW x \in Int, NEW y \in Int, NEW g \in Int,
           Abs(y - g) <= Abs(x - g)
    PROVE  AtMost(Error(k, y, g), Error(k, x, g))
<1>1. /\ Abs(x - g) \in Nat /\ Abs(y - g) \in Nat /\ TA(k) \in Nat
      /\ Error(k, x, g) \in Sums /\ Error(k, y, g) \in Sums
  BY ErrorOfDistance DEF Abs, TA, DELAY_TA, SLEW_TA
<1>2. CASE Abs(y - g) <= TA(k)
  <2>1. Error(k, y, g) = 0 /\ 0 # Infinite
    BY <1>2, ErrorOfDistance, ScoringAssumption
  <2> QED
    BY <1>1, <2>1 DEF AtMost, Sums
<1>3. CASE Abs(y - g) > TA(k) /\ g = 0
  <2>1. Abs(x - g) > TA(k)
    BY <1>1, <1>3
  <2> QED
    BY <1>3, <2>1, ErrorOfDistance DEF AtMost
<1>4. CASE Abs(y - g) > TA(k) /\ g # 0
  <2> DEFINE q == Scale \div Abs(g)
  <2>1. Abs(x - g) > TA(k)
    BY <1>1, <1>4
  <2>2. q \in Nat /\ Error(k, x, g) = Abs(x - g) * q /\ Error(k, y, g) = Abs(y - g) * q
    BY <1>4, <2>1, ErrorOfDistance
  <2>3. \A a, b, n \in Nat : a <= b => a * n <= b * n /\ a * n \in Nat
    BY Z3
  <2> HIDE DEF q
  <2>4. Error(k, y, g) <= Error(k, x, g) /\ Error(k, y, g) \in Nat
    BY <1>1, <2>2, <2>3
  <2> QED
    BY <2>4, ScoringAssumption DEF AtMost
<1> QED
  BY <1>1, <1>2, <1>3, <1>4

LEMMA LimitType == \A k \in Kinds : Limit(k) \in Nat
<1>1. \A n \in Nat : n \div 100 \in Nat
  BY Z3
<1>2. \A k \in Kinds : TO(k) * Scale \in Nat
  BY ScoringAssumption DEF TO, DELAY_TO, SLEW_TO
<1> QED
  BY <1>1, <1>2 DEF Limit

\* An error above the limit is paid for with more than the square of the limit, and
\* larger errors are above it, too.
LEMMA OutlierPays ==
    ASSUME NEW k \in Kinds, NEW e \in Sums, IsOutlier(k, e)
    PROVE  AtMost(Square(Limit(k)), Square(e))
<1>1. Limit(k) \in Sums /\ AtMost(Limit(k), e)
  BY LimitType, ScoringAssumption DEF IsOutlier, AtMost, Sums
<1> QED
  BY <1>1, SquareMonotonic

LEMMA OutlierMonotonic ==
    ASSUME NEW k \in Kinds, NEW e \in Sums, NEW f \in Sums, AtMost(e, f), IsOutlier(k, e)
    PROVE  IsOutlier(k, f)
BY LimitType, ScoringAssumption DEF IsOutlier, AtMost, Sums

-----------------------------------------------------------------------------
\* One circuit: what it adds to the sums, and the outliers it is counted for.

LEMMA ErrorsOfCircuit ==
    ASSUME NEW c \in Circuits, NEW k \in Kinds
    PROVE  \A e \in {"rise", "fall"} :
              /\ \A who \in Who : Errors(c, who, k)[e] \in Sums
              /\ AtMost(Errors(c, "rival", k)[e], Errors(c, "ccs", k)[e])
<1> TAKE e \in {"rise", "fall"}
<1>1. <<e, k>> \in Measures
  BY DEF Measures
<1>2. /\ c.golden[<<e, k>>] \in Int /\ c["ccs"][<<e, k>>] \in Int /\ c["rival"][<<e, k>>] \in Int
      /\ Abs(c["rival"][<<e, k>>] - c.golden[<<e, k>>]) <= Abs(c["ccs"][<<e, k>>] - c.golden[<<e, k>>])
  BY <1>1, CircuitValues
<1>3. \A who \in Who : Errors(c, who, k)[e] = Error(k, c[who][<<e, k>>], c.golden[<<e, k>>])
  BY DEF Errors
<1> QED
  BY <1>2, <1>3, ErrorOfDistance, ErrorMonotonic DEF Who

LEMMA AddedType ==
    ASSUME NEW c \in Circuits, NEW k \in Kinds, NEW who \in Who
    PROVE  Added(c, who, k) \in Sums /\ Counted(c, who, k) \in Nat
BY ErrorsOfCircuit, SquareType, PlusType DEF Added, Counted, Outliers

LEMMA CloserAddsNoMore ==
    ASSUME NEW c \in Circuits, NEW k \in Kinds
    PROVE  /\ AtMost(Added(c, "rival", k), Added(c, "ccs", k))
           /\ Counted(c, "rival", k) <= Counted(c, "ccs", k)
<1> DEFINE r == Errors(c, "rival", k)
           s == Errors(c, "ccs", k)
<1>1. /\ r["rise"] \in Sums /\ r["fall"] \in Sums /\ s["rise"] \in Sums /\ s["fall"] \in Sums
      /\ AtMost(r["rise"], s["rise"]) /\ AtMost(r["fall"], s["fall"])
  BY ErrorsOfCircuit DEF Who
<1>2. AtMost(Square(r["rise"]), Square(s["rise"])) /\ AtMost(Square(r["fall"]), Square(s["fall"]))
  BY <1>1, SquareMonotonic
<1>3. AtMost(Added(c, "rival", k), Added(c, "ccs", k))
  BY <1>1, <1>2, SquareType, PlusMonotonic DEF Added
<1>4. \A e \in {"rise", "fall"} : IsOutlier(k, r[e]) => IsOutlier(k, s[e])
  BY <1>1, OutlierMonotonic
<1>5. Counted(c, "rival", k) <= Counted(c, "ccs", k)
  BY <1>4 DEF Counted, Outliers
<1> QED
  BY <1>3, <1>5

LEMMA OutliersPaid ==
    ASSUME NEW c \in Circuits, NEW k \in Kinds, NEW who \in Who
    PROVE  AtMost(Counted(c, who, k) * Square(Limit(k)), Added(c, who, k))
<1> DEFINE err == Errors(c, who, k)
           l == Square(Limit(k))
<1>1. err["rise"] \in Sums /\ err["fall"] \in Sums
  BY ErrorsOfCircuit
<1>2. l \in Nat
  <2>1. Limit(k) \in Nat /\ Limit(k) # Infinite
    BY LimitType, ScoringAssumption
  <2>2. Limit(k) * Limit(k) \in Nat
    BY <2>1, Z3
  <2> QED
    BY <2>1, <2>2 DEF Square
<1>3. \A e \in {"rise", "fall"} :
         /\ Square(err[e]) \in Sums
         /\ AtMost(IF IsOutlier(k, err[e]) THEN l ELSE 0, Square(err[e]))
  <2> TAKE e \in {"rise", "fall"}
  <2>1. Square(err[e]) \in Sums
    BY <1>1, SquareType
  <2>2. AtMost(0, Square(err[e]))
    BY <2>1, ScoringAssumption DEF AtMost, Sums
  <2>3. IsOutlier(k, err[e]) => AtMost(l, Square(err[e]))
    BY <1>1, OutlierPays
  <2> QED
    BY <2>1, <2>2, <2>3
<1> DEFINE paid(e) == IF IsOutlier(k, err[e]) THEN l ELSE 0
<1>4. paid("rise") \in Sums /\ paid("fall") \in Sums
  BY <1>2 DEF Sums
<1>5. AtMost(Plus(paid("rise"), paid("fall")), Added(c, who, k))
  BY <1>3, <1>4, PlusMonotonic DEF Added
<1>6. Plus(paid("rise"), paid("fall")) = paid("rise") + paid("fall")
  BY <1>2, ScoringAssumption DEF Plus
<1>7. paid("rise") + paid("fall") = Counted(c, who, k) * l
  <2>1. 0 * l = 0 /\ 1 * l = l /\ 2 * l = l + l
    BY <1>2
  <2>2. Counted(c, who, k) = (IF IsOutlier(k, err["rise"]) THEN 1 ELSE 0)
                             + (IF IsOutlier(k, err["fall"]) THEN 1 ELSE 0)
    BY DEF Counted, Outliers
  <2> HIDE DEF l, err
  <2>3. CASE IsOutlier(k, err["rise"]) /\ IsOutlier(k, err["fall"])
    BY <1>2, <2>1, <2>2, <2>3
  <2>4. CASE ~(IsOutlier(k, err["rise"]) /\ IsOutlier(k, err["fall"]))
    BY <1>2, <2>1, <2>2, <2>4
  <2> QED
    BY <2>3, <2>4
<1> QED
  BY <1>5, <1>6, <1>7

-----------------------------------------------------------------------------
\* The tally of a suite, circuit after circuit.

\* One step of the tally: circuit j of the suite s.
TallyStep(s, who, kind, j, t) ==
    IF Negative(s[j]) THEN t
    ELSE <<Plus(t[1], Added(s[j], who, kind)), t[2] + Counted(s[j], who, kind)>>

IsTally(f, s, who, kind, m) ==
    f = [j \in 0..m |-> IF j = 0 THEN <<0, 0>> ELSE TallyStep(s, who, kind, j, f[j - 1])]

\* What holds for 0 and for n + 1 whenever it holds for n.
LEMMA Induction ==
    ASSUME NEW P, P \subseteq Nat, 0 \in P, \A x \in Nat : x \in P => x + 1 \in P
    PROVE  \A x \in Nat : x \in P
<1> SUFFICES ASSUME NEW m \in Nat, m \notin P PROVE FALSE
    OBVIOUS
<1> DEFINE R == {ss \in Nat \X Nat : ss[1] < ss[2]}
<1>1. IsWellFoundedOn(R, Nat)
    BY NatLessThanWellFounded DEF OpToRel
<1>2. \A x, y \in Nat : y < x => <<y, x>> \in R
    OBVIOUS
<1>3. Nat \ P \subseteq Nat /\ Nat \ P # {}
    OBVIOUS
<1> HIDE DEF R
<1>4. PICK x \in Nat \ P : \A y \in Nat \ P : ~(<<y, x>> \in R)
    BY <1>1, <1>3, WFMin
<1>5. x # 0 /\ x - 1 \in Nat /\ x - 1 < x /\ (x - 1) + 1 = x
    BY <1>4
<1> QED BY <1>2, <1>4, <1>5

LEMMA TallyExists ==
    ASSUME NEW s, NEW who, NEW kind, NEW m \in Nat
    PROVE  \E f : IsTally(f, s, who, kind, m)
<1> DEFINE P == {x \in Nat : \E f : IsTally(f, s, who, kind, x)}
<1>1. 0 \in P
    <2> DEFINE f == [j \in 0..0 |-> <<0, 0>>]
    <2>1. IsTally(f, s, who, kind, 0)
        BY DEF IsTally
    <2> QED BY <2>1
<1>2. ASSUME NEW x \in Nat, x \in P PROVE x + 1 \in P
    <2>1. PICK f : IsTally(f, s, who, kind, x)
        BY <1>2
    <2> DEFINE g == [j \in 0..(x + 1) |->
                        IF j = x + 1 THEN TallyStep(s, who, kind, j, f[x]) ELSE f[j]]
    <2>2. \A j \in 0..(x + 1) :
              g[j] = IF j = 0 THEN <<0, 0>> ELSE TallyStep(s, who, kind, j, g[j - 1])
        <3> TAKE j \in 0..(x + 1)
        <3>1. CASE j = x + 1
            <4>1. x \in 0..(x + 1) /\ x # x + 1 /\ j - 1 = x /\ j # 0
                BY <3>1
            <4> QED BY <3>1, <4>1
        <3>2. CASE j # x + 1
            <4>1. j \in 0..x /\ (j # 0 => j - 1 \in 0..(x + 1) /\ j - 1 # x + 1)
                BY <3>2
            <4>2. f[j] = IF j = 0 THEN <<0, 0>> ELSE TallyStep(s, who, kind, j, f[j - 1])
                BY <2>1, <4>1 DEF IsTally
            <4> QED BY <3>2, <4>1, <4>2
        <3> QED BY <3>1, <3>2
    <2>3. g = [j \in 0..(x + 1) |-> g[j]]
        OBVIOUS
    <2> HIDE DEF g
    <2>4. IsTally(g, s, who, kind, x + 1)
        BY <2>2, <2>3 DEF IsTally
    <2> QED BY <2>4
<1>3. P \subseteq Nat
    OBVIOUS
<1> HIDE DEF P
<1>4. m \in P
    BY <1>1, <1>2, <1>3, Induction
<1> QED BY <1>4 DEF P

\* A suite and a longer one that begins with it have the same tallies as far as
\* the shorter goes.
LEMMA TallyAgrees ==
    ASSUME NEW s, NEW z, NEW who, NEW kind, NEW m \in Nat, NEW n \in Nat, m <= n,
           \A j \in 1..m : z[j] = s[j],
           NEW f, NEW g, IsTally(f, s, who, kind, m), IsTally(g, z, who, kind, n)
    PROVE  \A j \in 0..m : g[j] = f[j]
<1> DEFINE P == {x \in Nat : x <= m => g[x] = f[x]}
<1>1. 0 \in P
    <2>1. 0 \in 0..m /\ 0 \in 0..n
        OBVIOUS
    <2> QED BY <2>1 DEF IsTally
<1>2. ASSUME NEW x \in Nat, x \in P PROVE x + 1 \in P
    <2> SUFFICES ASSUME x + 1 <= m PROVE g[x + 1] = f[x + 1]
        OBVIOUS
    <2>1. x + 1 \in 0..m /\ x + 1 \in 0..n /\ x + 1 # 0 /\ (x + 1) - 1 = x /\ x <= m
        OBVIOUS
    <2>2. f[x + 1] = TallyStep(s, who, kind, x + 1, f[x])
        BY <2>1 DEF IsTally
    <2>3. g[x + 1] = TallyStep(z, who, kind, x + 1, g[x])
        BY <2>1 DEF IsTally
    <2>4. z[x + 1] = s[x + 1]
        OBVIOUS
    <2>5. g[x] = f[x]
        BY <1>2, <2>1
    <2>6. TallyStep(z, who, kind, x + 1, f[x]) = TallyStep(s, who, kind, x + 1, f[x])
        BY <2>4 DEF TallyStep
    <2> QED BY <2>2, <2>3, <2>5, <2>6
<1>3. P \subseteq Nat
    OBVIOUS
<1> HIDE DEF P
<1>4. \A x \in Nat : x \in P
    BY <1>1, <1>2, <1>3, Induction
<1> QED BY <1>4 DEF P

LEMMA TallyIsTally ==
    ASSUME NEW s, NEW who, NEW kind, Len(s) \in Nat
    PROVE  \E f : IsTally(f, s, who, kind, Len(s)) /\ Tally(s, who, kind) = f[Len(s)]
<1> DEFINE f == CHOOSE f : f = [j \in 0..Len(s) |->
                   IF j = 0 THEN <<0, 0>>
                   ELSE IF Negative(s[j]) THEN f[j - 1]
                   ELSE <<Plus(f[j - 1][1], Added(s[j], who, kind)),
                          f[j - 1][2] + Counted(s[j], who, kind)>>]
<1>1. PICK g : IsTally(g, s, who, kind, Len(s))
    BY TallyExists
<1>2. g = [j \in 0..Len(s) |->
              IF j = 0 THEN <<0, 0>>
              ELSE IF Negative(s[j]) THEN g[j - 1]
              ELSE <<Plus(g[j - 1][1], Added(s[j], who, kind)),
                     g[j - 1][2] + Counted(s[j], who, kind)>>]
    BY <1>1, Zenon DEF IsTally, TallyStep
<1>3. f = [j \in 0..Len(s) |->
              IF j = 0 THEN <<0, 0>>
              ELSE IF Negative(s[j]) THEN f[j - 1]
              ELSE <<Plus(f[j - 1][1], Added(s[j], who, kind)),
                     f[j - 1][2] + Counted(s[j], who, kind)>>]
    BY <1>2, Zenon
<1>4. Tally(s, who, kind) = f[Len(s)]
    BY Zenon DEF Tally
<1> HIDE DEF f
<1>5. IsTally(f, s, who, kind, Len(s))
    BY <1>3, Zenon DEF IsTally, TallyStep
<1> QED BY <1>4, <1>5

\* The tally of no circuit, and of one circuit more.
LEMMA TallyEmpty == ASSUME NEW who, NEW kind PROVE Tally(<<>>, who, kind) = <<0, 0>>
<1>1. Len(<<>>) = 0
    OBVIOUS
<1>2. PICK f : IsTally(f, <<>>, who, kind, 0) /\ Tally(<<>>, who, kind) = f[0]
    BY <1>1, TallyIsTally
<1> QED BY <1>2 DEF IsTally

LEMMA TallyAppend ==
    ASSUME NEW s \in Seq(Circuits), NEW c \in Circuits, NEW who, NEW kind
    PROVE  Tally(Append(s, c), who, kind) =
               IF Negative(c) THEN Tally(s, who, kind)
               ELSE <<Plus(Tally(s, who, kind)[1], Added(c, who, kind)),
                      Tally(s, who, kind)[2] + Counted(c, who, kind)>>
<1> DEFINE z == Append(s, c)
<1>1. /\ Len(s) \in Nat /\ Len(z) = Len(s) + 1 /\ z[Len(s) + 1] = c
      /\ \A j \in 1..Len(s) : z[j] = s[j]
    OBVIOUS
<1> HIDE DEF z
<1>2. PICK f : IsTally(f, s, who, kind, Len(s)) /\ Tally(s, who, kind) = f[Len(s)]
    BY <1>1, TallyIsTally
<1>3. PICK g : IsTally(g, z, who, kind, Len(s) + 1) /\ Tally(z, who, kind) = g[Len(s) + 1]
    BY <1>1, TallyIsTally
<1>4. g[Len(s)] = f[Len(s)]
    <2>1. \A j \in 0..Len(s) : g[j] = f[j]
        BY <1>1, <1>2, <1>3, TallyAgrees
    <2> QED BY <1>1, <2>1
<1>5. g[Len(s) + 1] = TallyStep(z, who, kind, Len(s) + 1, g[Len(s)])
    <2>1. Len(s) + 1 \in 0..(Len(s) + 1) /\ Len(s) + 1 # 0 /\ (Len(s) + 1) - 1 = Len(s)
        BY <1>1
    <2> QED BY <1>3, <2>1 DEF IsTally
<1> QED BY <1>1, <1>2, <1>3, <1>4, <1>5, Zenon DEF TallyStep, z

\* The circuits that did not fail, of one circuit more.
LEMMA MeasuredAppend ==
    ASSUME NEW s \in Seq(Circuits), NEW c \in Circuits
    PROVE  LET kept == Cardinality({i \in 1..Len(s) : ~Negative(s[i])})
               more == Cardinality({i \in 1..Len(Append(s, c)) : ~Negative(Append(s, c)[i])})
           IN  kept \in Nat /\ more = IF Negative(c) THEN kept ELSE kept + 1
<1> DEFINE z == Append(s, c)
           A == {i \in 1..Len(s) : ~Negative(s[i])}
           B == {i \in 1..Len(z) : ~Negative(z[i])}
<1>1. /\ Len(s) \in Nat /\ Len(z) = Len(s) + 1 /\ z[Len(s) + 1] = c
      /\ \A j \in 1..Len(s) : z[j] = s[j]
    OBVIOUS
<1> HIDE DEF z
<1>2. IsFiniteSet(A)
    <2>1. IsFiniteSet(1..Len(s)) /\ A \subseteq 1..Len(s)
        BY <1>1, FS_Interval
    <2> QED BY <2>1, FS_Subset
<1>3. Cardinality(A) \in Nat
    BY <1>2, FS_CardinalityType
<1>4. Len(s) + 1 \notin A
    BY <1>1
<1>5. B = IF Negative(c) THEN A ELSE A \cup {Len(s) + 1}
    BY <1>1
<1>6. Cardinality(A \cup {Len(s) + 1}) = Cardinality(A) + 1
    BY <1>2, <1>4, FS_AddElement
<1> HIDE DEF A, B
<1>7. Cardinality(B) = IF Negative(c) THEN Cardinality(A) ELSE Cardinality(A) + 1
    BY <1>5, <1>6
<1> QED BY <1>3, <1>7 DEF A, B, z

\* A circuit with no marginal result is skipped when it has a negative one.
LEMMA SkipNegative ==
    ASSUME NEW c \in Circuits, ~Marginal(c)
    PROVE  Skip(c) <=> Negative(c)
<1>1. \A m \in Measures : c.golden[m] \in Int /\ c.golden[m] \notin -10..-1
    BY CircuitValues DEF Marginal
<1>2. \A x \in Int : x \notin -10..-1 => (x < -10 <=> x < 0)
    OBVIOUS
<1>3. \A m \in Measures : c.golden[m] < -10 <=> c.golden[m] < 0
    BY <1>1, <1>2
<1> QED BY <1>3, Zenon DEF Skip, Negative

-----------------------------------------------------------------------------
LEMMA InitImpliesInv == Init => IInv
<1> SUFFICES ASSUME Init
             PROVE  IInv
  OBVIOUS
<1>1. TypeOK
  BY ScoringAssumption DEF Init, TypeOK, Who, Sums
<1>2. CloserIsNoWorse
  BY ScoringAssumption DEF Init, CloserIsNoWorse, AtMost
<1>3. OutliersAreErrors
  <2> SUFFICES ASSUME NEW who \in Who, NEW k \in Kinds
               PROVE  AtMost(outliers[who][k] * Square(Limit(k)), sum[who][k])
    BY DEF OutliersAreErrors, Who
  <2>1. outliers[who][k] = 0 /\ sum[who][k] = 0
    BY DEF Init, Who
  <2>2. Limit(k) \in Nat /\ Limit(k) # Infinite
    BY LimitType, ScoringAssumption
  <2>3. Limit(k) * Limit(k) \in Nat
    BY <2>2, Z3
  <2>4. 0 * Square(Limit(k)) = 0
    BY <2>2, <2>3 DEF Square
  <2> QED
    BY <2>1, <2>4, ScoringAssumption DEF AtMost
<1>4. TallyKept
  <2>1. \A who \in Who, k \in Kinds : <<sum[who][k], outliers[who][k]>> = <<0, 0>>
    BY DEF Init, Who
  <2>2. ckts = <<>> /\ Len(ckts) = 0 /\ {i \in 1..Len(ckts) : ~Negative(ckts[i])} = {}
    BY DEF Init
  <2>3. Len(ckts) - skipped_circuits = Cardinality({i \in 1..Len(ckts) : ~Negative(ckts[i])})
    BY <2>2, FS_EmptySet DEF Init
  <2> QED
    BY <2>1, <2>2, <2>3, TallyEmpty DEF Init, TallyKept
<1> QED
  BY <1>1, <1>2, <1>3, <1>4 DEF IInv

LEMMA NextTally ==
    ASSUME IInv, NEW c \in Circuits, Len(ckts) < NumCkts, ckts' = Append(ckts, c),
           UNCHANGED <<N, score>>,
           \/ /\ Skip(c) /\ skipped_circuits' = skipped_circuits + 1
              /\ UNCHANGED <<sum, outliers>>
           \/ /\ ~Skip(c) /\ UNCHANGED skipped_circuits
              /\ \A who \in Who, k \in Kinds :
                     /\ sum'[who][k] = Plus(sum[who][k], Added(c, who, k))
                     /\ outliers'[who][k] = outliers[who][k] + Counted(c, who, k)
    PROVE  TallyKept'
<1>1. /\ ckts \in Seq(Circuits) /\ skipped_circuits \in Int /\ Len(ckts) \in Nat
      /\ Len(ckts') = Len(ckts) + 1 /\ ckts'[Len(ckts) + 1] = c
      /\ \A i \in 1..Len(ckts) : ckts'[i] = ckts[i]
  BY DEF IInv, TypeOK
<1>2. score = "none"
  <2>1. NumCkts \in Nat
    BY ScoringAssumption
  <2> QED
    BY <1>1, <2>1 DEF IInv, TallyKept
<1>3. SUFFICES ASSUME \A i \in 1..Len(ckts') : ~Marginal(ckts'[i])
               PROVE  /\ \A who \in Who, k \in Kinds :
                            <<sum'[who][k], outliers'[who][k]>> = Tally(ckts', who, k)
                      /\ Len(ckts') - skipped_circuits'
                            = Cardinality({i \in 1..Len(ckts') : ~Negative(ckts'[i])})
  BY <1>2 DEF IInv, TallyKept, Marginal, Negative, Measures, Kinds
<1>4. ~Marginal(c) /\ \A i \in 1..Len(ckts) : ~Marginal(ckts[i])
  BY <1>1, <1>3
<1>5. Skip(c) <=> Negative(c)
  BY <1>4, SkipNegative
<1>6. /\ \A who \in Who, k \in Kinds : <<sum[who][k], outliers[who][k]>> = Tally(ckts, who, k)
      /\ Len(ckts) - skipped_circuits = Cardinality({i \in 1..Len(ckts) : ~Negative(ckts[i])})
  BY <1>4 DEF IInv, TallyKept
<1>7. \A who \in Who, k \in Kinds : <<sum'[who][k], outliers'[who][k]>> = Tally(ckts', who, k)
  <2> TAKE who \in Who, k \in Kinds
  <2>1. Tally(ckts, who, k)[1] = sum[who][k] /\ Tally(ckts, who, k)[2] = outliers[who][k]
    <3>1. <<sum[who][k], outliers[who][k]>> = Tally(ckts, who, k)
      BY <1>6
    <3>2. <<sum[who][k], outliers[who][k]>>[1] = sum[who][k]
          /\ <<sum[who][k], outliers[who][k]>>[2] = outliers[who][k]
      OBVIOUS
    <3> QED
      BY <3>1, <3>2
  <2>2. Tally(ckts', who, k) = IF Negative(c) THEN Tally(ckts, who, k)
            ELSE <<Plus(Tally(ckts, who, k)[1], Added(c, who, k)),
                   Tally(ckts, who, k)[2] + Counted(c, who, k)>>
    BY <1>1, TallyAppend
  <2>3. CASE Negative(c)
    BY <1>5, <1>6, <2>2, <2>3
  <2>4. CASE ~Negative(c)
    <3>1. /\ sum'[who][k] = Plus(sum[who][k], Added(c, who, k))
          /\ outliers'[who][k] = outliers[who][k] + Counted(c, who, k)
      BY <1>5, <2>4
    <3> QED
      BY <2>1, <2>2, <2>4, <3>1
  <2> QED
    BY <2>3, <2>4
<1>8. Len(ckts') - skipped_circuits'
         = Cardinality({i \in 1..Len(ckts') : ~Negative(ckts'[i])})
  <2> DEFINE kept == Cardinality({i \in 1..Len(ckts) : ~Negative(ckts[i])})
             more == Cardinality({i \in 1..Len(ckts') : ~Negative(ckts'[i])})
  <2>1. kept \in Nat /\ more = IF Negative(c) THEN kept ELSE kept + 1
    BY <1>1, MeasuredAppend
  <2>2. Len(ckts) - skipped_circuits = kept
    BY <1>6
  <2> HIDE DEF kept, more
  <2>3. Len(ckts') - skipped_circuits' = more
    BY <1>1, <1>5, <2>1, <2>2
  <2> QED
    BY <2>3 DEF more
<1> QED
  BY <1>7, <1>8

LEMMA CountedCircuitKeepsInv ==
    ASSUME IInv, NEW c \in Circuits, Len(ckts) < NumCkts, ckts' = Append(ckts, c),
           AddErrors(c), ~Skip(c), UNCHANGED <<skipped_circuits, N, score>>
    PROVE  IInv'
<1>1. /\ TypeOK /\ CloserIsNoWorse /\ OutliersAreErrors /\ TallyKept
      /\ NumCkts \in Nat /\ Len(ckts) \in Nat
  BY ScoringAssumption DEF IInv, TypeOK
<1>2. \A who \in Who, k \in Kinds :
         /\ sum'[who][k] = Plus(sum[who][k], Added(c, who, k))
         /\ outliers'[who][k] = outliers[who][k] + Counted(c, who, k)
  BY DEF AddErrors, Added, Counted, Who
<1>3. \A who \in Who, k \in Kinds :
         /\ sum[who][k] \in Sums /\ outliers[who][k] \in Nat
         /\ Added(c, who, k) \in Sums /\ Counted(c, who, k) \in Nat
  BY <1>1, AddedType DEF TypeOK
<1>4. TypeOK'
  <2>1. sum' \in [Who -> [Kinds -> Sums]]
    <3>1. \A who \in Who, k \in Kinds : Plus(sum[who][k], Added(c, who, k)) \in Sums
      BY <1>3, PlusType
    <3> QED
      BY <3>1 DEF AddErrors, Added, Who
  <2>2. outliers' \in [Who -> [Kinds -> Nat]]
    BY <1>3 DEF AddErrors, Counted, Who
  <2>3. ckts' \in Seq(Circuits) /\ Len(ckts') = Len(ckts) + 1
    BY <1>1 DEF TypeOK
  <2> QED
    BY <1>1, <2>1, <2>2, <2>3 DEF TypeOK
<1>5. CloserIsNoWorse'
  <2> SUFFICES ASSUME NEW k \in Kinds
               PROVE  /\ AtMost(sum'["rival"][k], sum'["ccs"][k])
                      /\ outliers'["rival"][k] <= outliers'["ccs"][k]
    BY DEF CloserIsNoWorse, AtMost
  <2>1. AtMost(sum["rival"][k], sum["ccs"][k]) /\ outliers["rival"][k] <= outliers["ccs"][k]
    BY <1>1 DEF CloserIsNoWorse
  <2>2. /\ AtMost(Added(c, "rival", k), Added(c, "ccs", k))
        /\ Counted(c, "rival", k) <= Counted(c, "ccs", k)
    BY CloserAddsNoMore
  <2>3. "ccs" \in Who /\ "rival" \in Who
    BY DEF Who
  <2>4. AtMost(Plus(sum["rival"][k], Added(c, "rival", k)), Plus(sum["ccs"][k], Added(c, "ccs", k)))
    BY <1>3, <2>1, <2>2, <2>3, PlusMonotonic
  <2> QED
    BY <1>2, <1>3, <2>1, <2>2, <2>3, <2>4
<1>6. OutliersAreErrors'
  <2> SUFFICES ASSUME NEW who \in Who, NEW k \in Kinds
               PROVE  AtMost(outliers'[who][k] * Square(Limit(k)), sum'[who][k])
    BY DEF OutliersAreErrors, AtMost, Who, Square, Limit, TO
  <2> DEFINE l == Square(Limit(k))
             o == outliers[who][k]
             n == Counted(c, who, k)
  <2>1. l \in Nat
    <3>1. Limit(k) \in Nat /\ Limit(k) # Infinite
      BY LimitType, ScoringAssumption
    <3>2. Limit(k) * Limit(k) \in Nat
      BY <3>1, Z3
    <3> QED
      BY <3>1, <3>2 DEF Square
  <2>2. o \in Nat /\ n \in Nat
    BY <1>3
  <2>3. AtMost(o * l, sum[who][k]) /\ AtMost(n * l, Added(c, who, k))
    BY <1>1, OutliersPaid DEF OutliersAreErrors, Who
  <2>4. outliers'[who][k] = o + n
    BY <1>2
  <2> HIDE DEF l, o, n
  <2>5. o * l \in Nat /\ n * l \in Nat /\ (o + n) * l = o * l + n * l
    BY <2>1, <2>2, Z3
  <2>6. Plus(o * l, n * l) = o * l + n * l /\ o * l \in Sums /\ n * l \in Sums
    BY <2>5, ScoringAssumption DEF Plus, Sums
  <2>7. AtMost(Plus(o * l, n * l), Plus(sum[who][k], Added(c, who, k)))
    BY <1>3, <2>3, <2>6, PlusMonotonic
  <2> QED
    BY <1>2, <2>4, <2>5, <2>6, <2>7 DEF l
<1>7. TallyKept'
  BY <1>1, <1>2, <1>3, NextTally
<1> QED
  BY <1>4, <1>5, <1>6, <1>7 DEF IInv

LEMMA SkippedCircuitKeepsInv ==
    ASSUME IInv, NEW c \in Circuits, Len(ckts) < NumCkts, ckts' = Append(ckts, c),
           Skip(c), skipped_circuits' = skipped_circuits + 1, UNCHANGED <<sum, outliers, N, score>>
    PROVE  IInv'
<1>1. /\ TypeOK /\ CloserIsNoWorse /\ OutliersAreErrors /\ TallyKept
      /\ NumCkts \in Nat /\ Len(ckts) \in Nat
  BY ScoringAssumption DEF IInv, TypeOK
<1>2. ckts' \in Seq(Circuits) /\ Len(ckts') = Len(ckts) + 1 /\ \A i \in 1..Len(ckts) : ckts'[i] = ckts[i]
  BY <1>1 DEF TypeOK
<1>3. TypeOK'
  BY <1>1, <1>2 DEF TypeOK
<1>4. CloserIsNoWorse' /\ OutliersAreErrors'
  BY <1>1 DEF CloserIsNoWorse, OutliersAreErrors, AtMost
<1>5. TallyKept'
  BY <1>1, NextTally
<1> QED
  BY <1>3, <1>4, <1>5 DEF IInv

LEMMA NextKeepsInv == IInv /\ [Next]_vars => IInv'
<1> SUFFICES ASSUME IInv, [Next]_vars
             PROVE  IInv'
  OBVIOUS
<1>1. CASE ScoreCircuit
  <2>1. PICK c \in Circuits :
            /\ ckts' = Append(ckts, c)
            /\ IF Skip(c)
               THEN skipped_circuits' = skipped_circuits + 1 /\ UNCHANGED <<sum, outliers>>
               ELSE AddErrors(c) /\ UNCHANGED skipped_circuits
    BY <1>1 DEF ScoreCircuit
  <2>2. Len(ckts) < NumCkts /\ UNCHANGED <<N, score>>
    BY <1>1 DEF ScoreCircuit
  <2>3. CASE Skip(c)
    BY <2>1, <2>2, <2>3, SkippedCircuitKeepsInv
  <2>4. CASE ~Skip(c)
    BY <2>1, <2>2, <2>4, CountedCircuitKeepsInv
  <2> QED
    BY <2>3, <2>4
<1>2. CASE Average
  <2>1. TypeOK'
    BY <1>2 DEF Average, IInv, TypeOK, Count
  <2>2. TallyKept'
    <3>1. /\ ckts' = ckts /\ sum' = sum /\ outliers' = outliers
          /\ skipped_circuits' = skipped_circuits /\ N' = Count /\ Count' = Count
          /\ score' # "none" /\ Len(ckts) = NumCkts
      BY <1>2 DEF Average, Count
    <3> QED
      BY <3>1 DEF IInv, TallyKept, Marginal, Negative, Measures, Kinds
  <2> QED
    BY <1>2, <2>1, <2>2 DEF Average, IInv, CloserIsNoWorse, OutliersAreErrors, AtMost
<1>3. CASE UNCHANGED vars
  <2>1. TypeOK' /\ CloserIsNoWorse' /\ OutliersAreErrors'
    BY <1>3 DEF vars, IInv, TypeOK, CloserIsNoWorse, OutliersAreErrors, AtMost
  <2>2. TallyKept'
    BY <1>3 DEF vars, IInv, TallyKept, Count, Marginal, Negative, Measures, Kinds
  <2> QED
    BY <2>1, <2>2 DEF IInv
<1> QED
  BY <1>1, <1>2, <1>3 DEF Next

LEMMA Invariant == Spec => []IInv
BY InitImpliesInv, NextKeepsInv, PTL DEF Spec

\* For every suite: a calculator whose every value is at least as close to the golden
\* one has at most the error and at most the outliers of the other.
THEOREM ScoreCloserIsNoWorse == Spec => []CloserIsNoWorse
BY Invariant, PTL DEF IInv

\* For every suite: the outliers a calculator is charged with are paid for in its error.
THEOREM ScoreOutliersAreErrors == Spec => []OutliersAreErrors
BY Invariant, PTL DEF IInv

\* For every suite, mixed as it may be: the sums, the outliers and the number they are
\* divided by are those of the suite without the circuits that have a failed measurement.
THEOREM ScoreFailedNotCounted == Spec => []FailedNotCounted
<1>1. IInv => FailedNotCounted
  <2> SUFFICES ASSUME IInv, \A i \in DOMAIN ckts : ~Marginal(ckts[i])
               PROVE  /\ \A who \in {"ccs", "rival"}, k \in Kinds :
                            <<sum[who][k], outliers[who][k]>> = Tally(ckts, who, k)
                      /\ score # "none" =>
                            N = 2 * Cardinality({i \in DOMAIN ckts : ~Negative(ckts[i])})
    BY DEF FailedNotCounted
  <2>1. DOMAIN ckts = 1..Len(ckts)
    BY DEF IInv, TypeOK
  <2>2. /\ \A who \in Who, k \in Kinds : <<sum[who][k], outliers[who][k]>> = Tally(ckts, who, k)
        /\ Len(ckts) - skipped_circuits = Cardinality({i \in 1..Len(ckts) : ~Negative(ckts[i])})
    BY <2>1 DEF IInv, TallyKept
  <2>3. score # "none" => N = 2 * (Len(ckts) - skipped_circuits)
    BY DEF IInv, TallyKept, Count
  <2> QED
    BY <2>1, <2>2, <2>3 DEF Who
<1> QED
  BY <1>1, Invariant, PTL
=============================================================================
