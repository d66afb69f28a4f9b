---------------------------- MODULE ContestFlowMC ----------------------------
(* The scripts for TLC: simulations one by one or in parallel with Xyce, one  *)
(* by one with ngspice, and the contestant's part of each.                    *)
EXTENDS ContestFlow

AllScripts == {OneByOne("xyce"), OneByOne("ngspice")}
              \cup {GenTestsuite(d) : d \in Dirs} \cup {Contestant(d, "xyce") : d \in Dirs}
              \cup {Contestant("organisers", "ngspice")}
StaleScripts == {OneByOne("xyce"), Contestant("organisers", "xyce")}
=============================================================================
