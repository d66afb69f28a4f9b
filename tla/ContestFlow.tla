----------------------------- MODULE ContestFlow -----------------------------
(***************************************************************************)
(* The contest: csh scripts that run gen_random_nets, delay_calc_tool and  *)
(* dispatch_parallel_sims one after another.  A script looks at no exit    *)
(* status, so when a program stops half way the next one starts on         *)
(* whatever files are there.  The scripts are run several times (rounds):  *)
(* the whole contest, or the contestant's part of it.                      *)
(***************************************************************************)
EXTENDS DelayCalcTool, SimPool, Sequences

CONSTANT Scripts     \* the scripts a later round may run

VARIABLES script,     \* the script of this round
          step,       \* the command of the script that is next or running
          gpc         \* where gen_random_nets is, "idle" when it does not run

\* A circuit has one deck, named after it.
ASSUME DecksAssumption == Decks = Ckts

vars == <<files, toolvars, history, script, step, gpc, poolvars>>

Tool(in, modes, dir, sim) ==
    [cmd |-> "tool",
     opts |-> [in |-> in, dc |-> "dc" \in modes, gen |-> "gen" \in modes,
               run |-> "run" \in modes, merge |-> "merge" \in modes, dir |-> dir, sim |-> sim]]
Command(cmd) == [cmd |-> cmd]

\* The contestant's part of every script (test/run_testsuite).
Contestant(dir, sim) == << Tool("suite", {"dc"}, dir, sim), Tool("dc", {"merge"}, dir, sim) >>

\* test/runme.asu (Xyce) and test/runme.nangate (ngspice): everything, with the
\* simulations one after another.
OneByOne(sim) == << Command("generate"), Command("empty"),
                    Tool("suite", {"gen", "run"}, "organisers", sim) >>
                 \o Contestant("organisers", sim)

\* test/runme.gen_testsuite with its parallel simulations, then run_testsuite.  Its
\* merge looks into a directory of another name, unless the organisers hand theirs
\* out under that name (as they did test/spice_decks.tau2020_testsuite0131), which
\* makes the two names one directory.
GenTestsuite(dir) == << Command("generate"), Command("empty"),
                        Tool("suite", {"gen"}, "organisers", "xyce"),
                        Command("dispatch") >> \o Contestant(dir, "xyce")

\* What the proofs need of the scripts: decks are only written, and simulated, in the
\* organisers' directory, which was emptied just before, and no call both computes
\* and merges.
Commands == [cmd : {"generate", "empty", "dispatch"}] \cup [cmd : {"tool"}, opts : Options]

ASSUME ScriptsAssumption ==
    /\ Scripts \subseteq Seq(Commands)
    /\ \A s \in Scripts : \A k \in 1..Len(s) : s[k].cmd = "tool" =>
          /\ s[k].opts.gen => k > 1 /\ s[k - 1].cmd = "empty"
          /\ s[k].opts.gen \/ s[k].opts.run => s[k].opts.dir = "organisers"
          /\ ~(s[k].opts.dc /\ s[k].opts.merge)

\* The simulator whose result files the last command of a script merges.
SimulatorOf(s) == s[Len(s)].opts.sim

Finished == step > Len(script)

Init ==
    /\ ToolInit
    /\ PoolInit
    /\ gpc = "idle"
    /\ step = 1
    /\ script \in {s \in Scripts : s[1].cmd = "generate"}

Quiet == tpc = "idle" /\ gpc = "idle" /\ phase = "start"

\* The next command of the script, when the one before it has ended.
At(cmd) == Quiet /\ ~Finished /\ script[step].cmd = cmd
NextCommand == step' = step + 1

-----------------------------------------------------------------------------
(* gen_random_nets: the SPEF first, the circuits file after it.            *)

Generate ==
    /\ At("generate")
    /\ NextCommand
    /\ gpc' = "nets"
    /\ clean' = TRUE
    /\ UNCHANGED <<files, toolvars, round, crashes, script, poolvars>>

OpenSpef ==
    /\ gpc = "nets"
    /\ spef' = Empty
    /\ gpc' = "spef"
    /\ UNCHANGED <<yaml, deck, result, toolvars, history, script, step, poolvars>>

WriteSpef ==
    /\ gpc = "spef"
    /\ spef' = round
    /\ gpc' = "yaml"
    /\ UNCHANGED <<yaml, deck, result, toolvars, history, script, step, poolvars>>

OpenSuite ==
    /\ gpc = "yaml"
    /\ yaml' = [yaml EXCEPT !["suite"] = Empty]
    /\ gpc' = "write"
    /\ UNCHANGED <<spef, deck, result, toolvars, history, script, step, poolvars>>

\* New circuits: no measured and no computed values, no statistics.
WriteSuite ==
    /\ gpc = "write"
    /\ yaml' = [yaml EXCEPT !["suite"] =
                   [ckts |-> [c \in Ckts |-> [Blank[c] EXCEPT !.yaml = round]],
                    rms |-> NoScore, pts |-> NoScore]]
    /\ gpc' = "idle"
    /\ UNCHANGED <<spef, deck, result, toolvars, history, script, step, poolvars>>

GenCrash ==
    /\ gpc # "idle"
    /\ crashes < MaxCrashes
    /\ crashes' = crashes + 1
    /\ clean' = FALSE
    /\ gpc' = "idle"
    /\ UNCHANGED <<files, toolvars, round, script, step, poolvars>>

-----------------------------------------------------------------------------
\* (variant) rm $spice_decks/*.sp.
RemoveDecksOnly ==
    /\ At("empty")
    /\ NextCommand
    /\ deck' = [c \in Ckts |-> NoFile]
    /\ UNCHANGED <<yaml, spef, result, toolvars, history, script, gpc, poolvars>>

\* rm -rf $spice_decks; mkdir $spice_decks.
EmptySpiceDir ==
    /\ At("empty")
    /\ NextCommand
    /\ deck' = [c \in Ckts |-> NoFile]
    /\ result' = [c \in Ckts |-> NoFile]
    /\ UNCHANGED <<yaml, spef, toolvars, history, script, gpc, poolvars>>

RunTool ==
    /\ At("tool")
    /\ NextCommand
    /\ Start(script[step].opts)
    /\ UNCHANGED <<script, gpc, poolvars>>

-----------------------------------------------------------------------------
(* dispatch_parallel_sims: the pool of SimPool on the decks that exist.    *)

Dispatch ==
    /\ At("dispatch")
    /\ Glob({c \in Ckts : deck[c] # NoFile})
    /\ UNCHANGED <<files, toolvars, history, script, step, gpc>>

TakeDeck(w, c) ==
    /\ Take(w, c)
    /\ SimStarts(c, SimulatorOf(script))
    /\ UNCHANGED <<yaml, spef, deck, toolvars, history, script, step, gpc>>

EndJob(w) ==
    /\ RunSim(w)
    /\ SimEnds(job[w])
    /\ UNCHANGED <<yaml, spef, deck, toolvars, round, crashes, script, step, gpc>>

JoinPool ==
    /\ Join
    /\ UNCHANGED <<files, toolvars, history, script, step, gpc>>

\* (variant) The dispatcher looks for new decks for ever.
DispatchAgain ==
    /\ phase = "exit"
    /\ phase' = "start"
    /\ ran' = {}
    /\ UNCHANGED <<files, toolvars, history, script, step, gpc, queue, job>>

\* The dispatcher's process is gone; the next one starts anew.
DispatchExits ==
    /\ phase = "exit"
    /\ NextCommand
    /\ phase' = "start"
    /\ ran' = {}
    /\ UNCHANGED <<files, toolvars, history, script, gpc, queue, job>>

-----------------------------------------------------------------------------
\* The organisers or a contestant run a script again, with the same simulator (a
\* script for another one works on a dataset, and files, of its own).
NextRound ==
    /\ Quiet /\ Finished
    /\ round < MaxRounds
    /\ round' = round + 1
    /\ script' \in {s \in Scripts : SimulatorOf(s) = SimulatorOf(script)}
    /\ step' = 1
    /\ UNCHANGED <<files, toolvars, clean, crashes, gpc, poolvars>>

GenWrite == WriteSpef \/ OpenSuite \/ WriteSuite
GenStep  == OpenSpef \/ GenWrite
PoolStep == \/ JoinPool \/ DispatchExits
            \/ \E w \in Workers : EndJob(w) \/ \E c \in Ckts : TakeDeck(w, c)
Shell    == Generate \/ EmptySpiceDir \/ RunTool \/ Dispatch

Running(A) == A /\ UNCHANGED <<script, step, gpc, poolvars>>

Next == \/ Shell \/ GenStep \/ PoolStep \/ NextRound \/ GenCrash
        \/ Running(ToolStep) \/ Running(Crash)

Spec == Init /\ [][Next]_vars

(***************************************************************************)
(* Every process gets the processor, the shell starts the next command,    *)
(* and a simulator that was started ends.  Nobody has to run a script      *)
(* again, and nothing has to crash.  Nothing is said of OpenSpef: before   *)
(* it gen_random_nets makes its nets, in loops that need not end           *)
(* (gen_random_nets.cpp:587, 895 and 1003).                                *)
(***************************************************************************)
FairSpec ==
    /\ Spec
    /\ WF_vars(Shell)
    /\ WF_vars(GenWrite)
    /\ WF_vars(Running(ToolStep))
    /\ WF_vars(PoolStep)
-----------------------------------------------------------------------------
(* Properties.                                                             *)

ToolTypeOK ==
    /\ yaml \in [Files -> Content \cup {NoFile, Empty}]
    /\ spef \in Gens \cup {NoFile, Empty}
    /\ deck \in [Ckts -> Deck \cup {NoFile, Empty}]
    /\ result \in [Ckts -> Lines \cup {NoFile}]
    /\ opts \in Options
    /\ tpc \in {"idle", "spef", "circuits", "dc", "open-dc", "write-dc", "gen", "deck",
                "run", "sim", "merge", "open-merged", "write-merged"}
    /\ i \in 1..(NumCkts + 1)
    /\ mem \in Circuits
    /\ net \in Gens
    /\ bench \in [rms : Score, pts : Score]
    /\ round \in Gens /\ clean \in BOOLEAN /\ crashes \in 0..MaxCrashes

TypeOK ==
    /\ ToolTypeOK
    /\ script \in Scripts
    /\ step \in 1..(Len(script) + 1)
    /\ gpc \in {"idle", "nets", "spef", "yaml", "write"}
    /\ PoolTypeOK

\* The statistics in the merged file are those of the very circuits in it: the
\* score is computed after the last result file was read and before anything
\* else can change a circuit (delay_calc_tool.cpp:467).
ScoreDescribesFile ==
    LET file == yaml["merged"] IN
    file \notin {NoFile, Empty} => file.pts = ScoreOf(file.ckts) /\ file.rms = file.pts

\* A result file was measured on the deck that lies beside it, for Xyce too,
\* which does not touch the old file when a simulation fails: the scripts
\* empty the directory before they write decks (test/runme.asu).
ResultsBelongToDecks ==
    \A c \in Ckts : result[c] # NoFile =>
        \A m \in Measures : result[c][m] \in Origin =>
            /\ deck[c] \notin {NoFile, Empty}
            /\ result[c][m].yaml = deck[c].yaml
            /\ result[c][m].spef = deck[c].spef

Whole(c, g) == c.yaml = g /\ c.ccs \in Origin /\ c.ccs.yaml = g /\ c.ccs.spef = g

\* When nothing failed since the suite was generated, the merged file holds,
\* for every circuit, delays computed and measured for this suite and no
\* other, computed in this round.
CleanRunIsWhole ==
    Finished /\ Quiet /\ clean =>
        LET file == yaml["merged"] IN
        /\ file \notin {NoFile, Empty}
        /\ \A c \in Ckts :
              /\ Whole(file.ckts[c], spef)
              /\ file.ckts[c].ccs.round = round
              /\ \A m \in Measures : file.ckts[c].spice[m] \in Origin =>
                    file.ckts[c].spice[m].yaml = spef /\ file.ckts[c].spice[m].spef = spef

\* Every measured number about to be merged stands in its own circuit's result
\* file at that moment: no number is taken over from the circuits file, from
\* another circuit or from an earlier measurement (delay_calc_tool.cpp:452).
GoldenIsOnDisk ==
    tpc \in {"open-merged", "write-merged"} =>
        \A c \in Ckts : \A m \in Measures : mem[c].spice[m] \in Origin =>
            result[c] # NoFile /\ mem[c].spice[m] = result[c][m]

\* Merging does not touch what the contestant computed: the merged file holds
\* the computed delays of the file the merge was given, circuit by circuit.
MergeKeepsComputed ==
    [][(tpc = "write-merged" /\ yaml'["merged"] # yaml["merged"]) =>
        /\ yaml[opts.in] \notin {NoFile, Empty}
        /\ \A c \in Ckts :
              /\ yaml'["merged"].ckts[c].ccs = yaml[opts.in].ckts[c].ccs
              /\ yaml'["merged"].ckts[c].yaml = yaml[opts.in].ckts[c].yaml]_vars

\* Every round of the contest comes to its end, whatever fails in it, unless
\* gen_random_nets never has its nets.
RoundEnds == <>[](gpc = "nets") \/ []<>(Finished /\ Quiet)

\* test/run_testsuite:28 and 37: "Run contestant's simulation", then "Merge
\* spice results contestant's results into *.merged.circuits.yaml and analyze
\* results": what a run writes into the merged file, and scores, was computed by
\* the contestant's simulation of that run.
MergedIsThisRun ==
    [][(tpc = "write-merged" /\ yaml'["merged"] # yaml["merged"]) =>
        \A c \in Ckts : yaml'["merged"].ckts[c].ccs.round = round]_vars
=============================================================================
