---------------------------- MODULE DelayCalcTool ----------------------------
(***************************************************************************)
(* One invocation of delay_calc_tool: the phases of its main(), the files  *)
(* each of them reads and writes, and the places where the process can     *)
(* stop half way.                                                          *)
(*                                                                         *)
(* What the properties tell apart is where a number comes from, so a value *)
(* is represented by its provenance: a computed delay by the circuits file *)
(* and the SPEF it was computed from and the round of the contest it was   *)
(* computed in, a measured one by the deck that was simulated and the      *)
(* round of the simulation.  The score stands for everything               *)
(* analyze_results computes (module Scoring has the arithmetic) and is     *)
(* represented by what it is computed from.                                *)
(***************************************************************************)
EXTENDS Naturals

CONSTANTS NumCkts,    \* number of circuits in the testsuite
          Measures,   \* rise/fall delay and slew
          MaxRounds,  \* bound: how often the contest scripts are run
          MaxCrashes, \* bound: how many processes stop half way
          NoFile,     \* a file that does not exist
          Empty,      \* a file that was opened for writing and not completed
          Absent,     \* a measure with no line in the result file
          Zero,       \* the number 0.0
          Neg,        \* a measured value below -1.0 ps
          NoScore,    \* what Benchmarks holds before analyze_results
          Ignored     \* a circuit the score leaves out

Ckts == 1..NumCkts
Gens == 1..MaxRounds

ASSUME SizeAssumption ==
    NumCkts \in Nat \ {0} /\ MaxRounds \in Nat \ {0} /\ MaxCrashes \in Nat

Origin   == [yaml : Gens, spef : Gens, round : Gens]
Golden   == Origin \cup {Zero, Neg}
Circuit  == [yaml : Gens, spice : [Measures -> Golden], ccs : Origin \cup {Zero}]
Circuits == [Ckts -> Circuit]
Score    == [Ckts -> Circuit \cup {Ignored}] \cup {NoScore}
Content  == [ckts : Circuits, rms : Score, pts : Score]
Deck     == [yaml : Gens, spef : Gens]
Lines    == [Measures -> Golden \cup {Absent}]

\* The special values differ from the records they stand beside.
ASSUME ValuesAssumption ==
    /\ Zero \notin Origin /\ Neg \notin Origin /\ Zero # Neg
    /\ Absent \notin Golden
    /\ NoFile # Empty
    /\ {NoFile, Empty} \cap (Content \cup Deck \cup Gens \cup Lines) = {}
    /\ Ignored \notin Circuit
    /\ NoScore \notin [Ckts -> Circuit \cup {Ignored}]

(***************************************************************************)
(* opts.in names the --circuits file; the other fields say whether         *)
(* --dc_file, --gen_spice_decks, --run_sims and --merged_circuits are      *)
(* given, opts.sim is --simulator and opts.dir --spice_dir: the directory   *)
(* the organisers make and fill, or spice_decks.$dataset of run_testsuite, *)
(* to which no script writes.  --spef and --liberty come with the modes    *)
(* that need them, as the README requires.                                 *)
(***************************************************************************)
Files   == {"suite", "dc", "merged"}
Simulators == {"xyce", "ngspice"}
Dirs    == {"organisers", "testsuite"}
Options == [in : {"suite", "dc"}, dc : BOOLEAN, gen : BOOLEAN,
            run : BOOLEAN, merge : BOOLEAN, dir : Dirs, sim : Simulators]

VARIABLES yaml,       \* the three *.circuits.yaml files
          spef,       \* the *.spef file
          deck,       \* <circuit>.sp in the organisers' directory
          result,     \* <circuit>.sp.mt0 (xyce) or .sp.log (ngspice) beside it
          opts,       \* the options of the running invocation
          tpc,        \* where main() is, "idle" when the tool does not run
          i,          \* the loop index of main()
          mem,        \* circuitMgr
          net,        \* the SPEF that was read
          bench,      \* the Benchmarks object: rms_* and *_pts
          round,      \* the round of the contest
          clean,      \* history: nothing has failed since the suite was made
          crashes     \* how many processes have stopped half way

files    == <<yaml, spef, deck, result>>
toolvars == <<opts, tpc, i, mem, net, bench>>
history  == <<round, clean, crashes>>

Blank == [c \in Ckts |-> [yaml |-> 1, spice |-> [m \in Measures |-> Zero], ccs |-> Zero]]

ToolInit ==
    /\ yaml = [f \in Files |-> NoFile]
    /\ spef = NoFile
    /\ deck = [c \in Ckts |-> NoFile]
    /\ result = [c \in Ckts |-> NoFile]
    /\ opts = [in |-> "suite", dc |-> FALSE, gen |-> FALSE, run |-> FALSE,
               merge |-> FALSE, dir |-> "organisers", sim |-> "xyce"]
    /\ tpc = "idle"
    /\ i = 1
    /\ mem = Blank
    /\ net = 1
    /\ bench = [rms |-> NoScore, pts |-> NoScore]
    /\ round = 1
    /\ clean = TRUE
    /\ crashes = 0

-----------------------------------------------------------------------------
(* Starting, reading and leaving.                                          *)

Start(o) ==
    /\ tpc = "idle"
    /\ opts' = o
    /\ tpc' = "spef"
    /\ i' = 1
    /\ mem' = Blank
    /\ net' = 1
    /\ bench' = [rms |-> NoScore, pts |-> NoScore]
    /\ UNCHANGED <<files, history>>

\* exit(1): the messages go to the terminal, the files stay as they are.
ExitWithError ==
    /\ tpc' = "idle"
    /\ clean' = FALSE
    /\ UNCHANGED <<files, opts, i, mem, net, bench, round, crashes>>

NeedsSpef == opts.dc \/ opts.gen

\* --spef is read first; a file that is missing or was cut off is an error.
ReadSpef ==
    /\ tpc = "spef"
    /\ IF NeedsSpef /\ spef \in {NoFile, Empty}
       THEN ExitWithError
       ELSE /\ net' = IF NeedsSpef THEN spef ELSE net
            /\ tpc' = "circuits"
            /\ UNCHANGED <<files, opts, i, mem, bench, history>>

\* read_circuits: the circuits with the results the file holds; of the
\* statistics rms_* is read back and *_pts is not.
ReadCircuits ==
    /\ tpc = "circuits"
    /\ LET file == yaml[opts.in] IN
       IF file \in {NoFile, Empty}
       THEN ExitWithError
       ELSE /\ mem' = file.ckts
            /\ bench' = [bench EXCEPT !.rms = file.rms]
            /\ tpc' = "dc"
            /\ UNCHANGED <<files, opts, i, net, history>>

\* An assertion, a null pointer, an exception or a signal stops the tool: the
\* files stay as they are, the one being written included.
Crash ==
    /\ tpc # "idle"
    /\ crashes < MaxCrashes
    /\ crashes' = crashes + 1
    /\ clean' = FALSE
    /\ tpc' = "idle"
    /\ UNCHANGED <<files, opts, i, mem, net, bench, round>>

-----------------------------------------------------------------------------
(* --dc_file: compute_delays for every circuit, then the results file.     *)

\* (variant) The loop over the circuits stops one too early.
ComputeDelaysButLast ==
    /\ tpc = "dc"
    /\ mem' = IF opts.dc
              THEN [c \in Ckts |-> IF c = NumCkts THEN mem[c] ELSE [mem[c] EXCEPT !.ccs =
                      [yaml |-> mem[c].yaml, spef |-> net, round |-> round]]]
              ELSE mem
    /\ tpc' = IF opts.dc THEN "open-dc" ELSE "gen"
    /\ UNCHANGED <<files, opts, i, net, bench, history>>

ComputeDelays ==
    /\ tpc = "dc"
    /\ mem' = IF opts.dc
              THEN [c \in Ckts |-> [mem[c] EXCEPT !.ccs =
                      [yaml |-> mem[c].yaml, spef |-> net, round |-> round]]]
              ELSE mem
    /\ tpc' = IF opts.dc THEN "open-dc" ELSE "gen"
    /\ UNCHANGED <<files, opts, i, net, bench, history>>

\* ofstream opens (and empties) the file; the text reaches it when it closes.
OpenFile(at, f, next) ==
    /\ tpc = at
    /\ yaml' = [yaml EXCEPT ![f] = Empty]
    /\ tpc' = next
    /\ UNCHANGED <<spef, deck, result, opts, i, mem, net, bench, history>>

WriteFile(at, f, next) ==
    /\ tpc = at
    /\ yaml' = [yaml EXCEPT ![f] = [ckts |-> mem, rms |-> bench.rms, pts |-> bench.pts]]
    /\ tpc' = next
    /\ UNCHANGED <<spef, deck, result, opts, i, mem, net, bench, history>>

OpenDcFile  == OpenFile("open-dc", "dc", "write-dc")
WriteDcFile == WriteFile("write-dc", "dc", "gen")

-----------------------------------------------------------------------------
(* --gen_spice_decks: one deck per circuit.                                *)

\* A loop is left, or never entered because its option is not given.
LeaveLoop(at, wanted, next) ==
    /\ tpc = at
    /\ ~wanted \/ i > NumCkts
    /\ i' = 1
    /\ tpc' = next
    /\ UNCHANGED <<files, opts, mem, net, bench, history>>

OpenDeck ==
    /\ tpc = "gen"
    /\ opts.gen /\ i <= NumCkts
    /\ deck' = [deck EXCEPT ![i] = Empty]
    /\ tpc' = "deck"
    /\ UNCHANGED <<yaml, spef, result, opts, i, mem, net, bench, history>>

WriteDeck ==
    /\ tpc = "deck"
    /\ deck' = [deck EXCEPT ![i] = [yaml |-> mem[i].yaml, spef |-> net]]
    /\ i' = i + 1
    /\ tpc' = "gen"
    /\ UNCHANGED <<yaml, spef, result, opts, mem, net, bench, history>>

-----------------------------------------------------------------------------
(* One simulation, started by --run_sims or by a worker of SimPool.        *)

\* ngspice writes its results into the log it opens at the start (-o); Xyce
\* writes the .mt0 file when it has finished.
SimStarts(d, sim) ==
    result' = IF sim = "ngspice"
              THEN [result EXCEPT ![d] = [m \in Measures |-> Absent]]
              ELSE result

\* What read_spice_results makes of a line: the number, or 0 when strtod meets
\* the word FAILED.
Reading(d, outcome) ==
    CASE outcome = "measured" ->
            [yaml |-> deck[d].yaml, spef |-> deck[d].spef, round |-> round]
      [] outcome = "negative" -> Neg
      [] outcome = "failed"   -> Zero

\* The simulator succeeds, measure by measure, or it stops without results.
SimEnds(d) ==
    \/ /\ deck[d] \notin {NoFile, Empty}
       /\ \E out \in [Measures -> {"measured", "negative", "failed"}] :
             result' = [result EXCEPT ![d] = [m \in Measures |-> Reading(d, out[m])]]
       /\ UNCHANGED clean
    \/ /\ clean' = FALSE
       /\ UNCHANGED result

\* system() blocks; its status is not looked at.
StartSim ==
    /\ tpc = "run"
    /\ opts.run /\ i <= NumCkts
    /\ SimStarts(i, opts.sim)
    /\ tpc' = "sim"
    /\ UNCHANGED <<yaml, spef, deck, opts, i, mem, net, bench, history>>

EndSim ==
    /\ tpc = "sim"
    /\ SimEnds(i)
    /\ i' = i + 1
    /\ tpc' = "run"
    /\ UNCHANGED <<yaml, spef, deck, opts, mem, net, bench, round, crashes>>

-----------------------------------------------------------------------------
(* --merged_circuits: read the results, score, write.                      *)

\* The file of a circuit's results is in the directory the call names.
Found(c) == opts.dir = "organisers" /\ result[c] # NoFile

\* (variant) Every circuit is given the results of the first one.
ReadFirstResults ==
    /\ tpc = "merge"
    /\ opts.merge /\ i <= NumCkts
    /\ mem' = IF ~Found(i) \/ ~Found(1) THEN mem
              ELSE [mem EXCEPT ![i].spice =
                      [m \in Measures |-> IF result[1][m] = Absent
                                          THEN mem[i].spice[m] ELSE result[1][m]]]
    /\ i' = i + 1
    /\ UNCHANGED <<files, opts, tpc, net, bench, history>>

\* (variant) The results are put into a new circuit object.
ReadResultsAfresh ==
    /\ tpc = "merge"
    /\ opts.merge /\ i <= NumCkts
    /\ mem' = IF ~Found(i) THEN mem
              ELSE [mem EXCEPT ![i] =
                      [Blank[i] EXCEPT !.yaml = mem[i].yaml, !.spice =
                          [m \in Measures |-> IF result[i][m] = Absent
                                              THEN Zero ELSE result[i][m]]]]
    /\ i' = i + 1
    /\ UNCHANGED <<files, opts, tpc, net, bench, history>>

\* read_spice_results: a missing file or a missing line leaves the value.
ReadResults ==
    /\ tpc = "merge"
    /\ opts.merge /\ i <= NumCkts
    /\ mem' = IF ~Found(i) THEN mem
              ELSE [mem EXCEPT ![i].spice =
                      [m \in Measures |-> IF result[i][m] = Absent
                                          THEN mem[i].spice[m] ELSE result[i][m]]]
    /\ i' = i + 1
    /\ UNCHANGED <<files, opts, tpc, net, bench, history>>

\* analyze_results leaves out the circuits with a negative golden value.
ScoreOf(ckts) ==
    [c \in Ckts |-> IF \E m \in Measures : ckts[c].spice[m] = Neg THEN Ignored ELSE ckts[c]]

\* (variant) The statistics read from the circuits file are kept.
AnalyzeOnlyPoints ==
    /\ tpc = "merge"
    /\ opts.merge /\ i > NumCkts
    /\ bench' = [bench EXCEPT !.pts = ScoreOf(mem)]
    /\ tpc' = "open-merged"
    /\ UNCHANGED <<files, opts, i, mem, net, history>>

Analyze ==
    /\ tpc = "merge"
    /\ opts.merge /\ i > NumCkts
    /\ bench' = [rms |-> ScoreOf(mem), pts |-> ScoreOf(mem)]
    /\ tpc' = "open-merged"
    /\ UNCHANGED <<files, opts, i, mem, net, history>>

OpenMergedFile  == OpenFile("open-merged", "merged", "write-merged")
WriteMergedFile == WriteFile("write-merged", "merged", "idle")

\* exit(EXIT_SUCCESS) when there is nothing to merge.
ExitWithoutMerge ==
    /\ tpc = "merge"
    /\ ~opts.merge
    /\ tpc' = "idle"
    /\ UNCHANGED <<files, opts, i, mem, net, bench, history>>

-----------------------------------------------------------------------------
ToolStep ==
    \/ ReadSpef \/ ReadCircuits
    \/ ComputeDelays \/ OpenDcFile \/ WriteDcFile
    \/ OpenDeck \/ WriteDeck \/ LeaveLoop("gen", opts.gen, "run")
    \/ StartSim \/ EndSim \/ LeaveLoop("run", opts.run, "merge")
    \/ ReadResults \/ Analyze \/ OpenMergedFile \/ WriteMergedFile
    \/ ExitWithoutMerge
=============================================================================
