------------------------------ MODULE SimBatch ------------------------------
(***************************************************************************)
(* What the toolkit promises of "run the simulations": a set of SPICE      *)
(* decks is fixed when the batch begins, each of them is simulated exactly *)
(* once, and the batch returns when none is left.  Neither the order of    *)
(* the decks nor the number of simulators running at once is part of the   *)
(* promise.  Two programs implement it: the loop of delay_calc_tool        *)
(* --run_sims and etc/dispatch_parallel_sims (module SimPool).             *)
(***************************************************************************)
CONSTANT Decks        \* the decks a batch may be made of

VARIABLES state,      \* "idle", "running" or "returned"
          left        \* the decks that still have to be simulated

vars == <<state, left>>

Init == state = "idle" /\ left = {}

\* The list of decks is fixed.
Begin(S) ==
    /\ state = "idle"
    /\ state' = "running"
    /\ left' = S

\* One deck is simulated, whether the simulator succeeds or not.
Simulate(d) ==
    /\ state = "running"
    /\ d \in left
    /\ left' = left \ {d}
    /\ state' = state

Return ==
    /\ state = "running"
    /\ left = {}
    /\ state' = "returned"
    /\ left' = left

Next == \/ \E S \in SUBSET Decks : Begin(S)
        \/ \E d \in Decks : Simulate(d)
        \/ Return

Spec == Init /\ [][Next]_vars

\* A batch that has begun returns.
FairSpec == Spec /\ WF_vars(Return \/ \E d \in Decks : Simulate(d))
=============================================================================
