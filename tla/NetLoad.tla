------------------------------ MODULE NetLoad ------------------------------
(***************************************************************************)
(* RCNetsData::create_random_net: a net is built, its total capacitance is *)
(* compared with the loads the driver's tables are characterised for, and  *)
(* when it does not fit the net is thrown away and built again with half   *)
(* the length, or with one and a half times the length.                    *)
(*                                                                         *)
(* Lengths and loads are exact fractions num/den (a float in the code; the *)
(* rounding is left out) and NaN is a value of its own: a comparison with  *)
(* it is false.  A net of several receivers is one with two, in which the  *)
(* random draws decide how long its wires are and on which lower layer the *)
(* receiver's wire lies; a net with one receiver has one wire.             *)
(***************************************************************************)
EXTENDS Integers

CONSTANTS Requests,     \* [several, length, layer_cap, lower_caps, lo, hi]: whether
                        \* the net has several receivers, the total_length asked
                        \* for, the capacitances per length of the top layer and of
                        \* the layers below it, and the loads largest_min_load and
                        \* smallest_max_load
          SpineLengths, \* 200ths of the net the spine takes: 101 to 199
          Percents,     \* what rand() % 100 returns
          MaxTries,     \* bound: nets with one receiver built for a request
          MaxDraws,     \* bound: nets with several receivers
          NaN

ASSUME NetLoadAssumption ==
    /\ Requests \subseteq [several : BOOLEAN, length : Nat \ {0}, layer_cap : Nat \ {0},
                           lower_caps : SUBSET (Nat \ {0}), lo : Int, hi : Nat]
    /\ MaxTries \in Nat \ {0} /\ MaxDraws \in 0..MaxTries
    /\ SpineLengths \subseteq 101..199 /\ Percents \subseteq 0..99
    /\ NaN \notin Int

VARIABLES load_pc,           \* "build", "compare" or "done"
          several, lo, hi,   \* largest_min_load, smallest_max_load
          layer_cap, lower_caps,
          num, den,     \* total_length is num/den
          load,         \* get_total_cap is load/(den * Unit), or NaN
          tries,
          grown         \* history: some net of this request was too small

load_vars == <<load_pc, several, lo, hi, layer_cap, lower_caps, num, den, load, tries, grown>>
asked == <<several, lo, hi, layer_cap, lower_caps>>

LoadInit ==
    /\ load_pc = "build"
    /\ \E r \in Requests : /\ several = r.several
                           /\ layer_cap = r.layer_cap /\ lower_caps = r.lower_caps
                           /\ lo = r.lo /\ hi = r.hi
                           /\ num = r.length
    /\ den = 1
    /\ load = 0 /\ tries = 0 /\ grown = FALSE

\* The wires of several receivers are counted in 20000ths of total_length.
Unit == IF several THEN 20000 ELSE 1

\* One receiver: one wire of the whole length (populate_pimodel_data).
BuildPi ==
    /\ ~several
    /\ load' = layer_cap * num

\* Two receivers: each of the two segments of the spine is a random part of the
\* spine's length, on the top layer, and the one other receiver is given the
\* remaining length on a lower layer (populate_net_data).
Drawn(spine, f1, f2, c) ==
    layer_cap * (spine * ((f1 + 1) + (f2 + 1))) + c * ((200 - spine) * 100)

\* That length is divided by the sum of the lengths drawn, its own.
BuildSeveral(spine, f1, f2, c, drawn) ==
    /\ several
    /\ load' = IF drawn = 0 THEN NaN ELSE Drawn(spine, f1, f2, c) * num

Build ==
    /\ load_pc = "build" /\ tries < (IF several THEN MaxDraws ELSE MaxTries)
    /\ \/ BuildPi
       \/ \E spine \in SpineLengths, f1, f2, drawn \in Percents, c \in lower_caps :
             BuildSeveral(spine, f1, f2, c, drawn)
    /\ load_pc' = "compare"
    /\ tries' = tries + 1
    /\ UNCHANGED <<asked, num, den, grown>>

TooLarge == load # NaN /\ load > hi * (den * Unit)
TooSmall == load # NaN /\ load < lo * (den * Unit)

HalveNot == UNCHANGED <<num, den>>                      \* (variant) the same length again
Halve == num' = num /\ den' = 2 * den

Shorten ==
    /\ load_pc = "compare" /\ TooLarge
    /\ Halve
    /\ load_pc' = "build"
    /\ UNCHANGED <<asked, load, tries, grown>>

\* total_length*1.5
Double == num' = 2 * num /\ den' = den                  \* (variant)
Grow == num' = 3 * num /\ den' = 2 * den

Lengthen ==
    /\ load_pc = "compare" /\ ~TooLarge /\ TooSmall
    /\ Grow
    /\ grown' = TRUE
    /\ load_pc' = "build"
    /\ UNCHANGED <<asked, load, tries>>

Accept ==
    /\ load_pc = "compare" /\ ~TooLarge /\ ~TooSmall
    /\ load_pc' = "done"
    /\ UNCHANGED <<asked, num, den, load, tries, grown>>

LoadNext == Build \/ Shorten \/ Lengthen \/ Accept

LoadSpec == LoadInit /\ [][LoadNext]_load_vars

\* The loop runs.
LoadFairSpec == LoadSpec /\ WF_load_vars(LoadNext)

-----------------------------------------------------------------------------
LoadTypeOK ==
    /\ load_pc \in {"build", "compare", "done"}
    /\ several \in BOOLEAN
    /\ lo \in Int /\ hi \in Nat
    /\ layer_cap \in Nat \ {0} /\ lower_caps \subseteq Nat \ {0}
    /\ num \in Nat \ {0} /\ den \in Nat \ {0}
    /\ load \in Nat \cup {NaN}
    /\ tries \in 0..MaxTries /\ grown \in BOOLEAN

\* The capacitances per length a net of this request may be drawn with.
Weights ==
    IF several
    THEN {Drawn(spine, f1, f2, c) : spine \in SpineLengths, f1 \in Percents,
                                    f2 \in Percents, c \in lower_caps}
    ELSE {layer_cap}

\* The window is wide when it spans a factor of one and a half more than the
\* draws differ by.
Wide == \A w, v \in Weights : 3 * (lo * v) <= 2 * (hi * w)

\* In a wide window, however the wires are drawn, a length found too small is
\* never found too large again: the loop of create_random_net does not swing
\* from one side of the window to the other.
NoSwing == Wide /\ load_pc = "compare" /\ grown => ~TooLarge

\* And so the loop ends for every such net, although each one is drawn anew:
\* after halvings, growths, and no more halvings.
LoopEnds == Wide ~> load_pc = "done"

=============================================================================
