------------------------- MODULE ContestFlow_proofs -------------------------
(***************************************************************************)
(* Proofs about the contest, for every number of circuits, measures,       *)
(* rounds and crashes, every pool of workers and all scripts that write    *)
(* decks only into an emptied directory.                                   *)
(*                                                                         *)
(* The proofs about its dispatcher (module SimPool) are here as well.      *)
(*                                                                         *)
(* One invariant for each property; the last of them, for a round in which *)
(* nothing fails, follows the script command by command and is about the   *)
(* scripts of the repository only.                                         *)
(***************************************************************************)
EXTENDS ContestFlow, TLAPS

-----------------------------------------------------------------------------
(* Types.                                                                  *)

\* A script's commands are commands, its tool commands have options.
LEMMA ScriptCommands ==
    ASSUME NEW s \in Scripts, NEW k \in Nat, 1 <= k, k <= Len(s)
    PROVE  /\ s[k] \in Commands
           /\ s[k].cmd = "tool" => s[k].opts \in Options
<1>1. s \in Seq(Commands) /\ k \in 1..Len(s)
  BY ScriptsAssumption
<1>2. s[k] \in Commands
  BY <1>1
<1> QED
  BY <1>2 DEF Commands

\* The tool's blank circuits are circuits.
LEMMA BlankTyped == Blank \in Circuits
<1>1. 1 \in Gens
  BY SizeAssumption DEF Gens
<1> QED
  BY <1>1 DEF Blank, Circuits, Circuit, Golden

\* What analyze_results computes from circuits is a score.
LEMMA ScoreTyped == ASSUME NEW C \in Circuits PROVE ScoreOf(C) \in Score
<1>1. \A c \in Ckts : C[c] \in Circuit
  BY DEF Circuits
<1> QED
  BY <1>1 DEF ScoreOf, Score

\* A file's three fields.
LEMMA ContentTyped ==
    ASSUME NEW x \in Content
    PROVE  x.ckts \in Circuits /\ x.rms \in Score /\ x.pts \in Score
BY DEF Content

\* A simulation that ends leaves lines behind, on a deck that exists.
LEMMA SimEndsTyped ==
    ASSUME ToolTypeOK, NEW d \in Ckts, SimEnds(d)
    PROVE  /\ result' \in [Ckts -> Lines \cup {NoFile}]
           /\ clean' \in BOOLEAN
<1>1. CASE clean' = FALSE /\ UNCHANGED result
  BY <1>1 DEF ToolTypeOK
<1>2. CASE /\ deck[d] \notin {NoFile, Empty}
           /\ \E out \in [Measures -> {"measured", "negative", "failed"}] :
                 result' = [result EXCEPT ![d] = [m \in Measures |-> Reading(d, out[m])]]
           /\ UNCHANGED clean
  <2>1. PICK out \in [Measures -> {"measured", "negative", "failed"}] :
            result' = [result EXCEPT ![d] = [m \in Measures |-> Reading(d, out[m])]]
    BY <1>2
  <2>2. deck[d] \in Deck /\ round \in Gens
    BY <1>2 DEF ToolTypeOK
  <2>3. [yaml |-> deck[d].yaml, spef |-> deck[d].spef, round |-> round] \in Origin
    BY <2>2 DEF Deck, Origin
  <2>4. \A m \in Measures : Reading(d, out[m]) \in Golden
    <3> TAKE m \in Measures
    <3>1. out[m] \in {"measured", "negative", "failed"}
      BY <2>1
    <3> QED
      BY <3>1, <2>3 DEF Reading, Golden
  <2>5. [m \in Measures |-> Reading(d, out[m])] \in Lines
    BY <2>4 DEF Lines
  <2> QED
    BY <2>1, <2>5, <1>2 DEF ToolTypeOK
<1> QED
  BY <1>1, <1>2 DEF SimEnds

\* A simulation that starts leaves lines behind, or nothing.
LEMMA SimStartsTyped ==
    ASSUME ToolTypeOK, NEW d \in Ckts, NEW sim, SimStarts(d, sim)
    PROVE  result' \in [Ckts -> Lines \cup {NoFile}]
<1>1. [m \in Measures |-> Absent] \in Lines
  BY DEF Lines
<1> QED
  BY <1>1 DEF SimStarts, ToolTypeOK

\* Inside a loop's body the index is that of a circuit.
InLoop == tpc \in {"deck", "sim"} => i \in Ckts

\* Every step of the tool keeps the types.
LEMMA ToolStepTyped ==
    ASSUME ToolTypeOK, InLoop, ToolStep \/ Crash
    PROVE  ToolTypeOK'
<1> USE DEF ToolTypeOK, files, history
<1>1. CASE ReadSpef
  BY <1>1 DEF ReadSpef, ExitWithError, NeedsSpef
<1>2. CASE ReadCircuits
  <2>1. CASE yaml[opts.in] \in {NoFile, Empty}
    BY <1>2, <2>1 DEF ReadCircuits, ExitWithError
  <2>2. CASE yaml[opts.in] \notin {NoFile, Empty}
    <3>1. opts.in \in Files
      BY DEF Options, Files
    <3>2. yaml[opts.in] \in Content
      BY <3>1, <2>2
    <3>3. mem' \in Circuits /\ bench' \in [rms : Score, pts : Score]
      BY <3>2, <2>2, <1>2, ContentTyped DEF ReadCircuits
    <3> QED
      BY <3>3, <2>2, <1>2 DEF ReadCircuits
  <2> QED
    BY <2>1, <2>2
<1>3. CASE ComputeDelays
  <2>1. \A c \in Ckts : mem[c] \in Circuit
    BY DEF Circuits
  <2>2. \A c \in Ckts :
           [mem[c] EXCEPT !.ccs = [yaml |-> mem[c].yaml, spef |-> net, round |-> round]] \in Circuit
    BY <2>1 DEF Circuit, Origin
  <2>3. mem' \in Circuits
    BY <2>1, <2>2, <1>3 DEF ComputeDelays, Circuits
  <2> QED
    BY <2>3, <1>3 DEF ComputeDelays
<1>4. CASE OpenDcFile \/ OpenMergedFile
  BY <1>4 DEF OpenDcFile, OpenMergedFile, OpenFile
<1>5. CASE WriteDcFile \/ WriteMergedFile
  <2>1. [ckts |-> mem, rms |-> bench.rms, pts |-> bench.pts] \in Content
    BY DEF Content
  <2>2. yaml' \in [Files -> Content \cup {NoFile, Empty}]
    BY <2>1, <1>5 DEF WriteDcFile, WriteMergedFile, WriteFile
  <2> QED
    BY <2>2, <1>5 DEF WriteDcFile, WriteMergedFile, WriteFile
<1>6. CASE OpenDeck
  BY <1>6 DEF OpenDeck
<1>7. CASE WriteDeck
  <2>1. i \in Ckts
    BY <1>7 DEF WriteDeck, InLoop
  <2>2. i + 1 \in 1..(NumCkts + 1)
    BY <2>1, SizeAssumption DEF Ckts
  <2>3. [yaml |-> mem[i].yaml, spef |-> net] \in Deck
    BY <2>1 DEF Deck, Circuits, Circuit
  <2> QED
    BY <1>7, <2>2, <2>3 DEF WriteDeck
<1>8. CASE LeaveLoop("gen", opts.gen, "run") \/ LeaveLoop("run", opts.run, "merge")
  BY <1>8, SizeAssumption DEF LeaveLoop
<1>9. CASE StartSim
  <2>1. i \in Ckts
    BY <1>9, SizeAssumption DEF StartSim, Ckts
  <2>2. result' \in [Ckts -> Lines \cup {NoFile}]
    BY <2>1, <1>9, SimStartsTyped DEF StartSim
  <2> QED
    BY <2>2, <1>9 DEF StartSim
<1>10. CASE EndSim
  <2>1. i \in Ckts
    BY <1>10 DEF EndSim, InLoop
  <2>2. i + 1 \in 1..(NumCkts + 1)
    BY <2>1, SizeAssumption DEF Ckts
  <2>3. result' \in [Ckts -> Lines \cup {NoFile}] /\ clean' \in BOOLEAN
    BY <2>1, <1>10, SimEndsTyped DEF EndSim
  <2> QED
    BY <1>10, <2>2, <2>3 DEF EndSim
<1>11. CASE ReadResults
  <2>1. i \in Ckts
    BY <1>11, SizeAssumption DEF ReadResults, Ckts
  <2>2. i + 1 \in 1..(NumCkts + 1)
    BY <2>1, SizeAssumption DEF Ckts
  <2>3. mem[i] \in Circuit
    BY <2>1 DEF Circuits
  <2>4. CASE ~Found(i)
    BY <2>2, <2>4, <1>11 DEF ReadResults
  <2>5. CASE Found(i)
    <3>1. result[i] \in Lines
      BY <2>1, <2>5 DEF Found
    <3>2. \A m \in Measures :
             (IF result[i][m] = Absent THEN mem[i].spice[m] ELSE result[i][m]) \in Golden
      BY <2>3, <3>1 DEF Circuit, Lines
    <3>3. [mem EXCEPT ![i].spice =
             [m \in Measures |-> IF result[i][m] = Absent
                                 THEN mem[i].spice[m] ELSE result[i][m]]] \in Circuits
      BY <2>1, <2>3, <3>2 DEF Circuits, Circuit
    <3> QED
      BY <2>2, <2>5, <3>3, <1>11 DEF ReadResults
  <2> QED
    BY <2>4, <2>5
<1>12. CASE Analyze
  <2>1. ScoreOf(mem) \in Score
    BY ScoreTyped
  <2> QED
    BY <2>1, <1>12 DEF Analyze
<1>13. CASE ExitWithoutMerge
  BY <1>13 DEF ExitWithoutMerge
<1>14. CASE Crash
  <2>1. crashes' \in 0..MaxCrashes
    BY <1>14, SizeAssumption DEF Crash
  <2> QED
    BY <2>1, <1>14 DEF Crash
<1> QED
  BY <1>1, <1>2, <1>3, <1>4, <1>5, <1>6, <1>7, <1>8, <1>9, <1>10, <1>11, <1>12, <1>13, <1>14
  DEF ToolStep

\* After a step of the tool the index inside a loop's body is in range.
LEMMA ToolStepInLoop ==
    ASSUME ToolTypeOK, InLoop, ToolStep \/ Crash
    PROVE  InLoop'
<1>1. CASE ReadSpef
  BY <1>1 DEF ReadSpef, ExitWithError, InLoop
<1>2. CASE ReadCircuits
  BY <1>2 DEF ReadCircuits, ExitWithError, InLoop
<1>3. CASE ComputeDelays
  BY <1>3 DEF ComputeDelays, InLoop
<1>4. CASE OpenDcFile \/ OpenMergedFile
  BY <1>4 DEF OpenDcFile, OpenMergedFile, OpenFile, InLoop
<1>5. CASE WriteDcFile \/ WriteMergedFile
  BY <1>5 DEF WriteDcFile, WriteMergedFile, WriteFile, InLoop
<1>6. CASE OpenDeck
  BY <1>6, SizeAssumption DEF OpenDeck, InLoop, Ckts, ToolTypeOK
<1>7. CASE WriteDeck
  BY <1>7 DEF WriteDeck, InLoop
<1>8. CASE LeaveLoop("gen", opts.gen, "run") \/ LeaveLoop("run", opts.run, "merge")
  BY <1>8 DEF LeaveLoop, InLoop
<1>9. CASE StartSim
  BY <1>9, SizeAssumption DEF StartSim, InLoop, Ckts, ToolTypeOK
<1>10. CASE EndSim
  BY <1>10 DEF EndSim, InLoop
<1>11. CASE ReadResults
  BY <1>11 DEF ReadResults, InLoop
<1>12. CASE Analyze
  BY <1>12 DEF Analyze, InLoop
<1>13. CASE ExitWithoutMerge
  BY <1>13 DEF ExitWithoutMerge, InLoop
<1>14. CASE Crash
  BY <1>14 DEF Crash, InLoop
<1> QED
  BY <1>1, <1>2, <1>3, <1>4, <1>5, <1>6, <1>7, <1>8, <1>9, <1>10, <1>11, <1>12, <1>13, <1>14
  DEF ToolStep

-----------------------------------------------------------------------------
(* One program at a time.                                                  *)

\* The tool, the generator and the dispatcher never run at the same time; the
\* shell waits at "dispatch" while the dispatcher runs; workers are busy only
\* in its map.
Alone ==
    /\ tpc # "idle" => gpc = "idle" /\ phase = "start"
    /\ gpc # "idle" => phase = "start"
    /\ phase # "start" => step <= Len(script) /\ script[step].cmd = "dispatch"
    /\ phase # "map" => \A w \in Workers : job[w] = Idle

Typed == TypeOK /\ InLoop /\ Alone

\* What Next does, with the programs' steps one by one.
LEMMA NextCases ==
    ASSUME [Next]_vars
    PROVE  \/ Generate \/ EmptySpiceDir \/ RunTool \/ Dispatch
           \/ OpenSpef \/ WriteSpef \/ OpenSuite \/ WriteSuite \/ GenCrash
           \/ JoinPool \/ DispatchExits \/ NextRound
           \/ (\E w \in Workers : EndJob(w))
           \/ (\E w \in Workers, c \in Ckts : TakeDeck(w, c))
           \/ ((ToolStep \/ Crash) /\ UNCHANGED <<script, step, gpc, poolvars>>)
           \/ UNCHANGED vars
BY DEF Next, Shell, GenStep, GenWrite, PoolStep, Running

\* The program that takes a step of the tool was running already.
LEMMA ToolWasRunning == ASSUME ToolStep \/ Crash PROVE tpc # "idle"
BY DEF ToolStep, Crash, ReadSpef, ReadCircuits, ComputeDelays, OpenDcFile, OpenMergedFile,
       OpenFile, WriteDcFile, WriteMergedFile, WriteFile, OpenDeck, WriteDeck, LeaveLoop,
       StartSim, EndSim, ReadResults, Analyze, ExitWithoutMerge

LEMMA TypedInit == Init => Typed
<1> SUFFICES ASSUME Init PROVE Typed
  OBVIOUS
<1>1. 1 \in Gens /\ 0 \in 0..MaxCrashes /\ 1 \in 1..(NumCkts + 1)
  BY SizeAssumption DEF Gens
<1>2. ToolTypeOK
  BY <1>1, BlankTyped DEF Init, ToolInit, ToolTypeOK, Options, Simulators, Dirs, Score
<1>3. script \in Scripts /\ step = 1 /\ Len(script) \in Nat
  BY ScriptsAssumption DEF Init
<1>4. PoolTypeOK
  BY DEF Init, PoolInit, PoolTypeOK
<1>5. TypeOK
  BY <1>2, <1>3, <1>4 DEF TypeOK, Init
<1> QED
  BY <1>5 DEF Typed, InLoop, Alone, Init, ToolInit, PoolInit

LEMMA TypedStep == Typed /\ [Next]_vars => Typed'
<1> SUFFICES ASSUME Typed, [Next]_vars PROVE Typed'
  OBVIOUS
<1> USE DEF Typed, TypeOK
<1>0. script \in Seq(Commands) /\ Len(script) \in Nat /\ step \in Nat /\ 1 <= step
  BY ScriptsAssumption
<1>1. CASE Generate \/ EmptySpiceDir
  <2>1. step' \in 1..(Len(script) + 1)
    BY <1>0, <1>1 DEF Generate, EmptySpiceDir, At, Finished, NextCommand
  <2>2. TypeOK'
    BY <2>1, <1>1 DEF Generate, EmptySpiceDir, ToolTypeOK, files, toolvars, history, poolvars,
                      PoolTypeOK
  <2>3. (InLoop /\ Alone)'
    BY <1>1 DEF Generate, EmptySpiceDir, At, Quiet, files, toolvars, history, poolvars, InLoop,
                Alone
  <2> QED
    BY <2>2, <2>3
<1>2. CASE RunTool
  <2>1. step' \in 1..(Len(script) + 1) /\ step <= Len(script) /\ script[step].cmd = "tool"
    BY <1>0, <1>2 DEF RunTool, At, Finished, NextCommand
  <2>2. script[step].opts \in Options
    BY <2>1, <1>0, ScriptCommands
  <2>3. ToolTypeOK'
    BY <2>2, <1>2, BlankTyped, SizeAssumption
    DEF RunTool, Start, ToolTypeOK, files, history, Gens, Score
  <2>4. (InLoop /\ Alone)'
    BY <1>2 DEF RunTool, Start, At, Quiet, poolvars, InLoop, Alone
  <2> QED
    BY <2>1, <2>3, <2>4, <1>2 DEF RunTool, poolvars, PoolTypeOK
<1>3. CASE Dispatch
  <2>1. TypeOK'
    BY <1>3, DecksAssumption DEF Dispatch, Glob, ToolTypeOK, files, toolvars, history, PoolTypeOK
  <2>2. (InLoop /\ Alone)'
    BY <1>0, <1>3 DEF Dispatch, Glob, At, Quiet, Finished, toolvars, InLoop, Alone
  <2> QED
    BY <2>1, <2>2
<1>4. CASE OpenSpef \/ WriteSpef \/ OpenSuite
  <2>1. TypeOK'
    BY <1>4 DEF OpenSpef, WriteSpef, OpenSuite, ToolTypeOK, toolvars, history, poolvars,
                PoolTypeOK
  <2>2. (InLoop /\ Alone)'
    BY <1>4 DEF OpenSpef, WriteSpef, OpenSuite, toolvars, poolvars, InLoop, Alone
  <2> QED
    BY <2>1, <2>2
<1>5. CASE WriteSuite
  <2>1. \A c \in Ckts : [Blank[c] EXCEPT !.yaml = round] \in Circuit
    BY BlankTyped DEF Circuits, Circuit, ToolTypeOK
  <2>2. [ckts |-> [c \in Ckts |-> [Blank[c] EXCEPT !.yaml = round]],
         rms |-> NoScore, pts |-> NoScore] \in Content
    BY <2>1 DEF Content, Circuits, Score
  <2>3. ToolTypeOK'
    BY <2>2, <1>5 DEF WriteSuite, ToolTypeOK, toolvars, history
  <2>4. (InLoop /\ Alone)'
    BY <1>5 DEF WriteSuite, toolvars, poolvars, InLoop, Alone
  <2> QED
    BY <2>3, <2>4, <1>5 DEF WriteSuite, poolvars, PoolTypeOK
<1>6. CASE GenCrash
  <2>1. crashes' \in 0..MaxCrashes
    BY <1>6, SizeAssumption DEF GenCrash, ToolTypeOK
  <2>2. ToolTypeOK'
    BY <2>1, <1>6 DEF GenCrash, ToolTypeOK, files, toolvars
  <2>3. (InLoop /\ Alone)'
    BY <1>6 DEF GenCrash, toolvars, poolvars, InLoop, Alone
  <2> QED
    BY <2>2, <2>3, <1>6 DEF GenCrash, poolvars, PoolTypeOK
<1>7. CASE JoinPool
  <2>1. TypeOK'
    BY <1>7 DEF JoinPool, Join, ToolTypeOK, files, toolvars, history, PoolTypeOK
  <2>2. (InLoop /\ Alone)'
    BY <1>7 DEF JoinPool, Join, Busy, toolvars, InLoop, Alone
  <2> QED
    BY <2>1, <2>2
<1>8. CASE DispatchExits
  <2>1. step' \in 1..(Len(script) + 1)
    BY <1>0, <1>8 DEF DispatchExits, NextCommand, Alone
  <2>2. TypeOK'
    BY <2>1, <1>8 DEF DispatchExits, ToolTypeOK, files, toolvars, history, PoolTypeOK
  <2>3. (InLoop /\ Alone)'
    BY <1>8 DEF DispatchExits, toolvars, InLoop, Alone
  <2> QED
    BY <2>2, <2>3
<1>9. CASE NextRound
  <2>1. round' \in Gens
    BY <1>9, SizeAssumption DEF NextRound, ToolTypeOK, Gens
  <2>2. script' \in Scripts /\ step' \in 1..(Len(script') + 1)
    BY <1>9, ScriptsAssumption DEF NextRound
  <2>3. ToolTypeOK'
    BY <2>1, <1>9 DEF NextRound, ToolTypeOK, files, toolvars
  <2>4. (InLoop /\ Alone)'
    BY <1>9 DEF NextRound, Quiet, toolvars, poolvars, InLoop, Alone
  <2> QED
    BY <2>2, <2>3, <2>4, <1>9 DEF NextRound, poolvars, PoolTypeOK
<1>10. ASSUME NEW w \in Workers, EndJob(w) PROVE Typed'
  <2>1. phase = "map" /\ job[w] # Idle /\ job[w] \in Ckts
    BY <1>10, DecksAssumption DEF EndJob, RunSim, Alone, PoolTypeOK
  <2>2. result' \in [Ckts -> Lines \cup {NoFile}] /\ clean' \in BOOLEAN
    BY <2>1, <1>10, SimEndsTyped DEF EndJob
  <2>3. ToolTypeOK'
    BY <2>2, <1>10 DEF EndJob, ToolTypeOK, toolvars
  <2>4. PoolTypeOK'
    BY <2>1, <1>10 DEF EndJob, RunSim, PoolTypeOK
  <2>5. (InLoop /\ Alone)'
    BY <2>1, <1>10 DEF EndJob, RunSim, toolvars, InLoop, Alone
  <2> QED
    BY <2>3, <2>4, <2>5, <1>10 DEF EndJob
<1>11. ASSUME NEW w \in Workers, NEW c \in Ckts, TakeDeck(w, c) PROVE Typed'
  <2>1. result' \in [Ckts -> Lines \cup {NoFile}]
    BY <1>11, SimStartsTyped DEF TakeDeck
  <2>2. ToolTypeOK'
    BY <2>1, <1>11 DEF TakeDeck, ToolTypeOK, toolvars, history
  <2>3. PoolTypeOK'
    BY <1>11 DEF TakeDeck, Take, PoolTypeOK
  <2>4. (InLoop /\ Alone)'
    BY <1>11 DEF TakeDeck, Take, toolvars, InLoop, Alone
  <2> QED
    BY <2>2, <2>3, <2>4, <1>11 DEF TakeDeck
<1>12. CASE (ToolStep \/ Crash) /\ UNCHANGED <<script, step, gpc, poolvars>>
  <2>1. ToolTypeOK' /\ InLoop'
    BY <1>12, ToolStepTyped, ToolStepInLoop
  <2>2. Alone'
    BY <1>12, ToolWasRunning DEF poolvars, Alone
  <2> QED
    BY <2>1, <2>2, <1>12 DEF poolvars, PoolTypeOK
<1>13. CASE UNCHANGED vars
  <2>1. ToolTypeOK' /\ InLoop'
    BY <1>13 DEF vars, files, toolvars, history, ToolTypeOK, InLoop
  <2>2. PoolTypeOK' /\ Alone'
    BY <1>13 DEF vars, toolvars, poolvars, PoolTypeOK, Alone
  <2> QED
    BY <2>1, <2>2, <1>13 DEF vars
<1> QED
  BY <1>1, <1>2, <1>3, <1>4, <1>5, <1>6, <1>7, <1>8, <1>9, <1>10, <1>11, <1>12, <1>13, NextCases

\* Every reachable state of the contest is well typed, whatever crashes in it,
\* and one program runs at a time.
THEOREM FlowTypeCorrect == Spec => []Typed
BY TypedInit, TypedStep, PTL DEF Spec

-----------------------------------------------------------------------------
(* The pool of dispatch_parallel_sims, by itself (PoolSpec) and as the         *)
(* contest runs it.                                                          *)

\* Nothing is left over when the map has returned.
ExitedMeansQuiet == phase = "exit" => Busy = {} /\ queue = {}

\* The inductive invariant: what a worker holds is neither waiting nor done,
\* two workers hold different decks, and workers are busy only in the map.
PoolInv ==
    /\ PoolTypeOK
    /\ OneSimPerDeck
    /\ NoDeckTwice
    /\ ExitedMeansQuiet
    /\ phase = "start" => Busy = {} /\ queue = {} /\ ran = {}

\* A step of the pool keeps it.
LEMMA PoolInvStep == PoolInv /\ [PoolNext]_poolvars => PoolInv'
<1> SUFFICES ASSUME PoolInv, [PoolNext]_poolvars
             PROVE  PoolInv'
  OBVIOUS
<1> USE IdleAssumption DEF PoolInv, PoolTypeOK, Busy
<1>1. ASSUME NEW S \in SUBSET Decks, Glob(S)
      PROVE  PoolInv'
  BY <1>1 DEF Glob, OneSimPerDeck, NoDeckTwice, ExitedMeansQuiet
<1>2. ASSUME NEW w \in Workers, NEW d \in Decks, Take(w, d)
      PROVE  PoolInv'
  <2>1. PoolTypeOK'
    BY <1>2 DEF Take
  <2>2. OneSimPerDeck'
    BY <1>2 DEF Take, OneSimPerDeck, NoDeckTwice
  <2>3. NoDeckTwice'
    BY <1>2 DEF Take, NoDeckTwice, OneSimPerDeck
  <2>4. ExitedMeansQuiet' /\ (phase # "start")'
    BY <1>2 DEF Take, ExitedMeansQuiet
  <2> QED
    BY <2>1, <2>2, <2>3, <2>4
<1>3. ASSUME NEW w \in Workers, RunSim(w)
      PROVE  PoolInv'
  <2>1. PoolTypeOK'
    BY <1>3 DEF RunSim
  <2>2. OneSimPerDeck'
    BY <1>3 DEF RunSim, OneSimPerDeck
  <2>3. NoDeckTwice'
    BY <1>3 DEF RunSim, NoDeckTwice, OneSimPerDeck
  <2>4. ExitedMeansQuiet' /\ (phase # "start")'
    BY <1>3 DEF RunSim, ExitedMeansQuiet
  <2> QED
    BY <2>1, <2>2, <2>3, <2>4
<1>4. CASE Join
  BY <1>4 DEF Join, OneSimPerDeck, NoDeckTwice, ExitedMeansQuiet
<1>5. CASE UNCHANGED poolvars
  BY <1>5 DEF poolvars, OneSimPerDeck, NoDeckTwice, ExitedMeansQuiet
<1> QED
  BY <1>1, <1>2, <1>3, <1>4, <1>5 DEF PoolNext, Work

\* Every reachable state of the pool satisfies the inductive invariant, from
\* which the safety properties follow.
THEOREM PoolInvariant == PoolSpec => []PoolInv
<1>1. PoolInit => PoolInv
  BY IdleAssumption DEF PoolInit, PoolInv, PoolTypeOK, OneSimPerDeck, NoDeckTwice,
         ExitedMeansQuiet, Busy
<1> QED
  BY <1>1, PoolInvStep, PTL DEF PoolSpec

\* No deck is ever simulated by two workers at once.
THEOREM PoolOneSimPerDeck == PoolSpec => []OneSimPerDeck
BY PoolInvariant, PTL DEF PoolInv

\* No simulator starts on a deck that was simulated before.
THEOREM PoolNoDeckTwice == PoolSpec => []NoDeckTwice
BY PoolInvariant, PTL DEF PoolInv

\* The parallel dispatcher implements the abstract batch: every step of the
\* pool simulates one deck, returns, begins, or changes nothing abstract.
THEOREM PoolImplementsBatch == PoolSpec => ImplementsBatch
<1> USE IdleAssumption
<1>1. PoolInit => Batch!Init
  BY DEF PoolInit, Batch!Init, StateOf, Left, Busy
<1>2. PoolInv /\ [PoolNext]_poolvars => [Batch!Next]_(Batch!vars)
  <2> SUFFICES ASSUME PoolInv, [PoolNext]_poolvars
               PROVE  [Batch!Next]_(Batch!vars)
    OBVIOUS
  <2> USE DEF PoolInv, PoolTypeOK, Busy
  <2>1. ASSUME NEW S \in SUBSET Decks, Glob(S)
        PROVE  Batch!Begin(S)
    BY <2>1 DEF Glob, Batch!Begin, StateOf, Left
  <2>2. ASSUME NEW w \in Workers, NEW d \in Decks, Take(w, d)
        PROVE  UNCHANGED Batch!vars
    <3>1. queue' = queue \ {d} /\ job' = [job EXCEPT ![w] = d] /\ d \in queue /\ phase' = phase
          /\ job[w] = Idle
      BY <2>2 DEF Take
    <3>2. Busy' = Busy \cup {w}
      BY <3>1
    <3>3. \A v \in Busy : job'[v] = job[v]
      BY <3>1
    <3>4. {job'[v] : v \in Busy'} = {job[v] : v \in Busy} \cup {d}
      BY <3>1, <3>2, <3>3
    <3> QED
      BY <3>1, <3>4 DEF Batch!vars, StateOf, Left
  <2>3. ASSUME NEW w \in Workers, RunSim(w)
        PROVE  Batch!Simulate(job[w])
    <3>1. /\ job' = [job EXCEPT ![w] = Idle] /\ job[w] # Idle
          /\ queue' = queue /\ phase' = phase
      BY <2>3 DEF RunSim
    <3>2. Busy' = Busy \ {w}
      BY <3>1
    <3>3. \A v \in Busy' : job'[v] = job[v] /\ job[v] # job[w]
      BY <3>1, <3>2 DEF OneSimPerDeck
    <3>4. {job'[v] : v \in Busy'} = {job[v] : v \in Busy} \ {job[w]}
      BY <3>1, <3>2, <3>3
    <3>5. job[w] \notin queue
      BY <3>1 DEF NoDeckTwice
    <3>6. phase = "map"
      BY <3>1 DEF ExitedMeansQuiet
    <3>7. job[w] \in Left /\ Left' = Left \ {job[w]}
      BY <3>1, <3>4, <3>5 DEF Left
    <3> QED
      BY <3>1, <3>6, <3>7 DEF Batch!Simulate, StateOf
  <2>4. ASSUME Join
        PROVE  Batch!Return
    BY <2>4 DEF Join, Batch!Return, StateOf, Left
  <2>5. ASSUME UNCHANGED poolvars
        PROVE  UNCHANGED Batch!vars
    BY <2>5 DEF poolvars, Batch!vars, StateOf, Left
  <2>6. \A w \in Workers : job[w] # Idle => job[w] \in Decks
    OBVIOUS
  <2> QED
    BY <2>1, <2>2, <2>3, <2>4, <2>5, <2>6 DEF PoolNext, Work, Batch!Next, RunSim
<1> QED
  BY <1>1, <1>2, PoolInvariant, PTL DEF PoolSpec, ImplementsBatch, Batch!Spec

\* In the contest the dispatcher is started again and again; each time it is the
\* pool from its beginning.
LEMMA FlowPoolInv == Typed /\ PoolInv /\ [Next]_vars => PoolInv'
<1> SUFFICES ASSUME Typed, PoolInv, [Next]_vars PROVE PoolInv'
  OBVIOUS
<1>1. CASE Dispatch
  <2>1. \E S \in SUBSET Ckts : Glob(S)
    BY <1>1 DEF Dispatch
  <2> QED
    BY <2>1, PoolInvStep, DecksAssumption DEF PoolNext
<1>2. CASE JoinPool
  BY <1>2, PoolInvStep DEF JoinPool, PoolNext, Work
<1>3. ASSUME NEW w \in Workers, EndJob(w) PROVE PoolInv'
  BY <1>3, PoolInvStep DEF EndJob, PoolNext, Work
<1>4. ASSUME NEW w \in Workers, NEW c \in Ckts, TakeDeck(w, c) PROVE PoolInv'
  BY <1>4, PoolInvStep, DecksAssumption DEF TakeDeck, PoolNext, Work
<1>5. CASE DispatchExits
  BY <1>5, IdleAssumption
  DEF DispatchExits, PoolInv, PoolTypeOK, OneSimPerDeck, NoDeckTwice,
      ExitedMeansQuiet, Busy
<1>6. CASE UNCHANGED poolvars
  BY <1>6, PoolInvStep DEF poolvars, poolvars
<1>7. UNCHANGED poolvars \/ Dispatch \/ JoinPool \/ DispatchExits
      \/ (\E w \in Workers : EndJob(w)) \/ (\E w \in Workers, c \in Ckts : TakeDeck(w, c))
  BY NextCases
  DEF Generate, EmptySpiceDir, RunTool, OpenSpef, WriteSpef, OpenSuite, WriteSuite, GenCrash,
      NextRound, vars
<1> QED
  BY <1>1, <1>2, <1>3, <1>4, <1>5, <1>6, <1>7

\* In the whole contest, whatever crashes in it and however often its scripts run,
\* no deck has two simulators and none is simulated twice by one dispatcher.
THEOREM FlowPool ==
    Spec => [](OneSimPerDeck /\ NoDeckTwice)
<1>1. Init => PoolInv
  BY IdleAssumption
  DEF Init, PoolInit, PoolInv, PoolTypeOK, OneSimPerDeck, NoDeckTwice,
      ExitedMeansQuiet, Busy
<1>2. PoolInv => OneSimPerDeck /\ NoDeckTwice
  BY DEF PoolInv
<1> QED
  BY <1>1, <1>2, FlowPoolInv, FlowTypeCorrect, PTL DEF Spec

-----------------------------------------------------------------------------
(* What a step outside the tool leaves alone.                              *)

Fresh(file) == \A c \in Ckts, m \in Measures : file.ckts[c].spice[m] = Zero

\* Outside the tool only the generator writes, the suite's file, and the
\* directory of decks changes only while the tool does not run.
LEMMA OutsideTool ==
    ASSUME Typed, [Next]_vars,
           ~((ToolStep \/ Crash) /\ UNCHANGED <<script, step, gpc, poolvars>>),
           ~RunTool
    PROVE  /\ UNCHANGED toolvars
           /\ tpc = "idle" \/ UNCHANGED <<yaml, deck, result>>
           /\ yaml' \in [Files -> Content \cup {NoFile, Empty}]
           /\ yaml'["dc"] = yaml["dc"] /\ yaml'["merged"] = yaml["merged"]
           /\ yaml'["suite"] = yaml["suite"] \/ yaml'["suite"] = Empty \/ Fresh(yaml'["suite"])
<1> USE DEF Typed, TypeOK
<1>0. Typed'
  BY TypedStep
<1>1. yaml' \in [Files -> Content \cup {NoFile, Empty}]
  BY <1>0 DEF ToolTypeOK
<1>2. CASE Generate \/ EmptySpiceDir \/ Dispatch
  BY <1>1, <1>2 DEF Generate, EmptySpiceDir, Dispatch, At, Quiet, files
<1>3. CASE OpenSpef \/ WriteSpef \/ GenCrash
  BY <1>1, <1>3 DEF OpenSpef, WriteSpef, GenCrash, files
<1>4. CASE OpenSuite
  BY <1>1, <1>4 DEF OpenSuite, Alone, ToolTypeOK, Files
<1>5. CASE WriteSuite
  <2>1. yaml'["suite"] = [ckts |-> [c \in Ckts |-> [Blank[c] EXCEPT !.yaml = round]],
                          rms |-> NoScore, pts |-> NoScore]
    BY <1>5 DEF WriteSuite, ToolTypeOK, Files
  <2>2. \A c \in Ckts : yaml'["suite"].ckts[c] = [Blank[c] EXCEPT !.yaml = round]
    BY <2>1
  <2>3. \A c \in Ckts : yaml'["suite"].ckts[c].spice = [m \in Measures |-> Zero]
    BY <2>2 DEF Blank
  <2>4. Fresh(yaml'["suite"])
    BY <2>3 DEF Fresh
  <2> QED
    BY <1>1, <1>5, <2>4 DEF WriteSuite, Alone, ToolTypeOK, Files
<1>6. CASE JoinPool \/ DispatchExits \/ NextRound
  BY <1>1, <1>6 DEF JoinPool, DispatchExits, NextRound, files
<1>7. CASE \E w \in Workers : EndJob(w)
  BY <1>1, <1>7 DEF EndJob, RunSim, Alone
<1>8. CASE \E w \in Workers, c \in Ckts : TakeDeck(w, c)
  BY <1>1, <1>8 DEF TakeDeck, Take, Alone
<1>9. CASE UNCHANGED vars
  BY <1>1, <1>9 DEF vars, files
<1> QED
  BY <1>2, <1>3, <1>4, <1>5, <1>6, <1>7, <1>8, <1>9, NextCases

-----------------------------------------------------------------------------
(* The score.                                                              *)

\* From the analysis until the merged file is written the statistics are those
\* of the circuits in memory.
ScoreInv ==
    /\ ScoreDescribesFile
    /\ tpc \in {"open-merged", "write-merged"} =>
          bench.rms = ScoreOf(mem) /\ bench.pts = ScoreOf(mem)

LEMMA ScoreInvTool ==
    ASSUME Typed, ScoreInv, ToolStep \/ Crash
    PROVE  ScoreInv'
<1> USE DEF ScoreInv, ScoreDescribesFile
<1>0. yaml = [f \in Files |-> yaml[f]]
  BY DEF Typed, TypeOK, ToolTypeOK
<1>1. CASE ReadSpef \/ ReadCircuits
  BY <1>1 DEF ReadSpef, ReadCircuits, ExitWithError, files
<1>2. CASE ComputeDelays \/ OpenDeck \/ WriteDeck \/ StartSim \/ EndSim \/ ReadResults
  BY <1>2 DEF ComputeDelays, OpenDeck, WriteDeck, StartSim, EndSim, ReadResults, files
<1>3. CASE LeaveLoop("gen", opts.gen, "run") \/ LeaveLoop("run", opts.run, "merge")
  BY <1>3 DEF LeaveLoop, files
<1>4. CASE OpenDcFile \/ WriteDcFile
  BY <1>0, <1>4 DEF OpenDcFile, WriteDcFile, OpenFile, WriteFile, Files
<1>5. CASE Analyze
  BY <1>5 DEF Analyze, files
<1>6. CASE OpenMergedFile
  BY <1>0, <1>6 DEF OpenMergedFile, OpenFile, Files
<1>7. CASE WriteMergedFile
  <2>1. yaml'["merged"] = [ckts |-> mem, rms |-> bench.rms, pts |-> bench.pts]
    BY <1>0, <1>7 DEF WriteMergedFile, WriteFile, Files
  <2>2. yaml'["merged"].ckts = mem /\ yaml'["merged"].rms = bench.rms
        /\ yaml'["merged"].pts = bench.pts
    BY <2>1
  <2> QED
    BY <2>2, <1>7 DEF WriteMergedFile, WriteFile, ScoreOf
<1>8. CASE ExitWithoutMerge \/ Crash
  BY <1>8 DEF ExitWithoutMerge, Crash, files
<1> QED
  BY <1>1, <1>2, <1>3, <1>4, <1>5, <1>6, <1>7, <1>8 DEF ToolStep

\* The merged file never holds statistics of other circuits than its own.
THEOREM FlowScoreDescribesFile == Spec => []ScoreDescribesFile
<1>1. Init => ScoreInv
  BY DEF Init, ToolInit, ScoreInv, ScoreDescribesFile, Files
<1>2. Typed /\ ScoreInv /\ [Next]_vars => ScoreInv'
  <2> SUFFICES ASSUME Typed, ScoreInv, [Next]_vars PROVE ScoreInv'
    OBVIOUS
  <2>1. CASE (ToolStep \/ Crash) /\ UNCHANGED <<script, step, gpc, poolvars>>
    BY <2>1, ScoreInvTool
  <2>2. CASE RunTool
    BY <2>2 DEF RunTool, Start, files, ScoreInv, ScoreDescribesFile
  <2>3. CASE ~((ToolStep \/ Crash) /\ UNCHANGED <<script, step, gpc, poolvars>>) /\ ~RunTool
    <3>1. UNCHANGED toolvars /\ yaml'["merged"] = yaml["merged"]
      BY <2>3, OutsideTool
    <3> QED
      BY <3>1 DEF toolvars, ScoreInv, ScoreDescribesFile, ScoreOf
  <2> QED
    BY <2>1, <2>2, <2>3
<1> QED
  BY <1>1, <1>2, FlowTypeCorrect, PTL DEF Spec, ScoreInv

-----------------------------------------------------------------------------
(* The golden values.                                                      *)

NoGolden(C) == \A c \in Ckts, m \in Measures : C[c].spice[m] \notin Origin

OnDisk(c) == \A m \in Measures : mem[c].spice[m] \in Origin =>
                result[c] # NoFile /\ mem[c].spice[m] = result[c][m]

\* The files the tool reads hold no measured value, nor does its memory before
\* the merge; while it merges, the circuits before i hold what is on disk.
GoldenInv ==
    /\ \A f \in {"suite", "dc"} : yaml[f] \notin {NoFile, Empty} => NoGolden(yaml[f].ckts)
    /\ tpc \notin {"idle", "merge", "open-merged", "write-merged"} => NoGolden(mem)
    /\ tpc = "merge" => \A c \in Ckts :
          IF c < i THEN OnDisk(c) ELSE \A m \in Measures : mem[c].spice[m] \notin Origin
    /\ tpc \in {"open-merged", "write-merged"} => \A c \in Ckts : OnDisk(c)

LEMMA BlankNoGolden == NoGolden(Blank)
BY ValuesAssumption DEF NoGolden, Blank

LEMMA GoldenInvTool ==
    ASSUME Typed, GoldenInv, ToolStep \/ Crash
    PROVE  GoldenInv'
<1>0. yaml = [f \in Files |-> yaml[f]] /\ opts.in \in {"suite", "dc"} /\ mem \in Circuits
  BY DEF Typed, TypeOK, ToolTypeOK, Options
<1>1. CASE ReadSpef
  BY <1>1 DEF ReadSpef, ExitWithError, files, GoldenInv, NoGolden
<1>2. CASE ReadCircuits
  BY <1>0, <1>2 DEF ReadCircuits, ExitWithError, files, GoldenInv, NoGolden
<1>3. CASE ComputeDelays
  <2>1. \A c \in Ckts : mem'[c].spice = mem[c].spice
    BY <1>0, <1>3 DEF ComputeDelays, Circuits, Circuit
  <2>2. tpc = "dc" /\ tpc' \in {"open-dc", "gen"} /\ yaml' = yaml
    BY <1>3 DEF ComputeDelays, files
  <2> QED
    BY <2>1, <2>2 DEF GoldenInv, NoGolden
<1>4. CASE OpenDcFile \/ OpenMergedFile
  BY <1>0, <1>4 DEF OpenDcFile, OpenMergedFile, OpenFile, Files, GoldenInv, NoGolden, OnDisk
<1>5. CASE WriteDcFile
  <2>1. yaml'["dc"].ckts = mem /\ yaml'["suite"] = yaml["suite"]
    BY <1>0, <1>5 DEF WriteDcFile, WriteFile, Files
  <2>2. tpc = "write-dc" /\ tpc' = "gen" /\ mem' = mem
    BY <1>5 DEF WriteDcFile, WriteFile
  <2> QED
    BY <2>1, <2>2 DEF GoldenInv, NoGolden
<1>6. CASE OpenDeck \/ WriteDeck
  BY <1>6 DEF OpenDeck, WriteDeck, GoldenInv, NoGolden
<1>7. CASE StartSim \/ EndSim
  BY <1>7 DEF StartSim, EndSim, GoldenInv, NoGolden
<1>8. CASE LeaveLoop("gen", opts.gen, "run")
  BY <1>8 DEF LeaveLoop, files, GoldenInv, NoGolden
<1>9. CASE LeaveLoop("run", opts.run, "merge")
  <2>1. \A c \in Ckts : ~(c < 1)
    BY SizeAssumption DEF Ckts
  <2> QED
    BY <2>1, <1>9 DEF LeaveLoop, files, GoldenInv, NoGolden
<1>10. CASE ReadResults
  <2>1. i \in Ckts /\ tpc = "merge" /\ tpc' = "merge" /\ i' = i + 1 /\ yaml' = yaml
        /\ result' = result
    BY <1>10, SizeAssumption DEF ReadResults, Ckts, files, Typed, TypeOK, ToolTypeOK
  <2>2. \A c \in Ckts : c # i => mem'[c] = mem[c]
    BY <1>0, <1>10 DEF ReadResults, Circuits
  <2>3. PICK k \in Ckts : k = i
    BY <2>1
  <2>4. ASSUME NEW c \in Ckts, c < i + 1 PROVE OnDisk(c)'
    <3>1. CASE c = k
      <4> SUFFICES ASSUME NEW m \in Measures, mem'[k].spice[m] \in Origin
                   PROVE  result[k] # NoFile /\ mem'[k].spice[m] = result[k][m]
        BY <2>1, <3>1 DEF OnDisk
      <4>1. mem[k].spice[m] \notin Origin
        BY <2>1, <2>3, SizeAssumption DEF GoldenInv, Ckts
      <4>2. Found(k) /\ result[k] # NoFile
        BY <1>10, <2>3, <4>1 DEF ReadResults, Found
      <4>3. mem'[k].spice = [n \in Measures |-> IF result[k][n] = Absent
                                                THEN mem[k].spice[n] ELSE result[k][n]]
        BY <1>0, <1>10, <2>1, <2>3, <4>2 DEF ReadResults, Circuits, Circuit
      <4> QED
        BY <4>1, <4>2, <4>3
    <3>2. CASE c # k
      <4>1. c < i /\ c # i
        BY <3>2, <2>3, <2>4, <2>1 DEF Ckts
      <4> QED
        BY <4>1, <2>1, <2>2 DEF GoldenInv, OnDisk
    <3> QED
      BY <3>1, <3>2
  <2>5. ASSUME NEW c \in Ckts, ~(c < i + 1) PROVE \A m \in Measures : mem'[c].spice[m] \notin Origin
    <3>1. c # i /\ ~(c < i)
      BY <2>5, <2>1 DEF Ckts
    <3> QED
      BY <3>1, <2>1, <2>2 DEF GoldenInv
  <2> QED
    BY <2>1, <2>4, <2>5 DEF GoldenInv
<1>11. CASE Analyze
  <2>1. \A c \in Ckts : c < i
    BY <1>11, SizeAssumption DEF Analyze, Ckts, Typed, TypeOK, ToolTypeOK
  <2> QED
    BY <2>1, <1>11 DEF Analyze, files, GoldenInv, OnDisk
<1>12. CASE WriteMergedFile
  BY <1>0, <1>12 DEF WriteMergedFile, WriteFile, Files, GoldenInv, NoGolden
<1>13. CASE ExitWithoutMerge \/ Crash
  BY <1>13 DEF ExitWithoutMerge, Crash, files, GoldenInv, NoGolden
<1> QED
  BY <1>1, <1>2, <1>3, <1>4, <1>5, <1>6, <1>7, <1>8, <1>9, <1>10, <1>11, <1>12, <1>13 DEF ToolStep

\* Every measured number that is merged stands in its own circuit's result file.
THEOREM FlowGoldenIsOnDisk == Spec => []GoldenIsOnDisk
<1>1. Init => GoldenInv
  BY DEF Init, ToolInit, GoldenInv, Files
<1>2. Typed /\ GoldenInv /\ [Next]_vars => GoldenInv'
  <2> SUFFICES ASSUME Typed, GoldenInv, [Next]_vars PROVE GoldenInv'
    OBVIOUS
  <2>1. CASE (ToolStep \/ Crash) /\ UNCHANGED <<script, step, gpc, poolvars>>
    BY <2>1, GoldenInvTool
  <2>2. CASE RunTool
    BY <2>2, BlankNoGolden DEF RunTool, Start, files, GoldenInv, NoGolden
  <2>3. CASE ~((ToolStep \/ Crash) /\ UNCHANGED <<script, step, gpc, poolvars>>) /\ ~RunTool
    <3>1. /\ UNCHANGED toolvars
          /\ tpc = "idle" \/ UNCHANGED <<yaml, deck, result>>
          /\ yaml'["dc"] = yaml["dc"]
          /\ yaml'["suite"] = yaml["suite"] \/ yaml'["suite"] = Empty \/ Fresh(yaml'["suite"])
      BY <2>3, OutsideTool
    <3>2. \A f \in {"suite", "dc"} : yaml'[f] \notin {NoFile, Empty} => NoGolden(yaml'[f].ckts)
      BY <3>1, ValuesAssumption DEF GoldenInv, NoGolden, Fresh
    <3> QED
      BY <3>1, <3>2 DEF toolvars, GoldenInv, NoGolden, OnDisk
  <2> QED
    BY <2>1, <2>2, <2>3
<1>3. GoldenInv => GoldenIsOnDisk
  BY DEF GoldenInv, OnDisk, GoldenIsOnDisk
<1> QED
  BY <1>1, <1>2, <1>3, FlowTypeCorrect, PTL DEF Spec

-----------------------------------------------------------------------------
(* The result files and the decks.                                         *)

NoResults == \A c \in Ckts : result[c] = NoFile

\* Between "empty" and the tool that writes decks there is no result file, and
\* none while that tool has not come to its simulations.
DecksInv ==
    /\ ResultsBelongToDecks
    /\ (step > 1 /\ step <= Len(script) /\ script[step - 1].cmd = "empty"
          /\ script[step].cmd = "tool") => NoResults /\ tpc = "idle"
    /\ opts.gen /\ tpc \in {"spef", "circuits", "dc", "open-dc", "write-dc", "gen", "deck"}
          => NoResults
    /\ tpc = "deck" => opts.gen

\* The part of DecksInv that does not speak of the script.
ToolDecksInv ==
    /\ ResultsBelongToDecks
    /\ opts.gen /\ tpc \in {"spef", "circuits", "dc", "open-dc", "write-dc", "gen", "deck"}
          => NoResults
    /\ tpc = "deck" => opts.gen

\* A simulation that starts, or ends on an existing deck, leaves results that
\* belong to their decks.
LEMMA SimStartsBelong ==
    ASSUME Typed, ResultsBelongToDecks, NEW d \in Ckts, NEW sim, SimStarts(d, sim),
           UNCHANGED deck
    PROVE  ResultsBelongToDecks'
<1>1. Absent \notin Origin
  BY ValuesAssumption DEF Golden
<1>2. \A c \in Ckts : result'[c] = result[c] \/ result'[c] = [m \in Measures |-> Absent]
  BY DEF SimStarts, Typed, TypeOK, ToolTypeOK
<1>3. \A c \in Ckts : result'[c] # result[c] => \A m \in Measures : result'[c][m] \notin Origin
  BY <1>1, <1>2
<1> QED
  BY <1>3 DEF ResultsBelongToDecks

LEMMA SimEndsBelong ==
    ASSUME Typed, ResultsBelongToDecks, NEW d \in Ckts, SimEnds(d), UNCHANGED deck
    PROVE  ResultsBelongToDecks'
<1>1. CASE UNCHANGED result
  BY <1>1 DEF ResultsBelongToDecks
<1>2. CASE /\ deck[d] \notin {NoFile, Empty}
           /\ \E out \in [Measures -> {"measured", "negative", "failed"}] :
                 result' = [result EXCEPT ![d] = [m \in Measures |-> Reading(d, out[m])]]
  <2>1. PICK out \in [Measures -> {"measured", "negative", "failed"}] :
            result' = [result EXCEPT ![d] = [m \in Measures |-> Reading(d, out[m])]]
    BY <1>2
  <2>2. result'[d] = [m \in Measures |-> Reading(d, out[m])]
        /\ \A c \in Ckts : c # d => result'[c] = result[c]
    BY <2>1 DEF Typed, TypeOK, ToolTypeOK
  <2>3. ASSUME NEW m \in Measures, result'[d][m] \in Origin
        PROVE  result'[d][m].yaml = deck[d].yaml /\ result'[d][m].spef = deck[d].spef
    <3>1. out[m] \in {"measured", "negative", "failed"} /\ result'[d][m] = Reading(d, out[m])
      BY <2>1, <2>2
    <3>2. Reading(d, "negative") = Neg /\ Reading(d, "failed") = Zero
      BY DEF Reading
    <3>3. out[m] = "measured"
      BY <2>3, <3>1, <3>2, ValuesAssumption
    <3> QED
      BY <3>1, <3>3 DEF Reading
  <2> QED
    BY <1>2, <2>2, <2>3 DEF ResultsBelongToDecks
<1> QED
  BY <1>1, <1>2 DEF SimEnds

LEMMA DecksInvTool ==
    ASSUME Typed, ToolDecksInv, ToolStep \/ Crash
    PROVE  ToolDecksInv'
<1> USE DEF ToolDecksInv, NoResults
<1>1. CASE ReadSpef \/ ReadCircuits
  BY <1>1 DEF ReadSpef, ReadCircuits, ExitWithError, files, ResultsBelongToDecks
<1>2. CASE ComputeDelays \/ ReadResults \/ Analyze
  BY <1>2 DEF ComputeDelays, ReadResults, Analyze, files, ResultsBelongToDecks
<1>3. CASE OpenDcFile \/ OpenMergedFile
  BY <1>3 DEF OpenDcFile, OpenMergedFile, OpenFile, ResultsBelongToDecks
<1>4. CASE WriteDcFile \/ WriteMergedFile
  BY <1>4 DEF WriteDcFile, WriteMergedFile, WriteFile, ResultsBelongToDecks
<1>5. CASE OpenDeck \/ WriteDeck
  BY <1>5 DEF OpenDeck, WriteDeck, ResultsBelongToDecks
<1>6. CASE LeaveLoop("gen", opts.gen, "run") \/ LeaveLoop("run", opts.run, "merge")
  BY <1>6 DEF LeaveLoop, files, ResultsBelongToDecks
<1>7. CASE StartSim
  <2>1. i \in Ckts
    BY <1>7, SizeAssumption DEF StartSim, Ckts, Typed, TypeOK, ToolTypeOK
  <2>2. ResultsBelongToDecks'
    BY <1>7, <2>1, SimStartsBelong DEF StartSim
  <2> QED
    BY <1>7, <2>2 DEF StartSim
<1>8. CASE EndSim
  <2>1. i \in Ckts
    BY <1>8 DEF EndSim, Typed, InLoop
  <2>2. ResultsBelongToDecks'
    BY <1>8, <2>1, SimEndsBelong DEF EndSim
  <2> QED
    BY <1>8, <2>2 DEF EndSim
<1>9. CASE ExitWithoutMerge \/ Crash
  BY <1>9 DEF ExitWithoutMerge, Crash, files, ResultsBelongToDecks
<1> QED
  BY <1>1, <1>2, <1>3, <1>4, <1>5, <1>6, <1>7, <1>8, <1>9 DEF ToolStep

LEMMA DecksInvStep == Typed /\ DecksInv /\ [Next]_vars => DecksInv'
<1> SUFFICES ASSUME Typed, DecksInv, [Next]_vars PROVE DecksInv'
  OBVIOUS
<1> USE DEF DecksInv
<1>0. script \in Seq(Commands) /\ Len(script) \in Nat /\ step \in Nat /\ 1 <= step
      /\ (step + 1) - 1 = step
  BY ScriptsAssumption DEF Typed, TypeOK
<1>1. CASE Generate
  BY <1>0, <1>1
  DEF Generate, At, NextCommand, files, toolvars, NoResults, ResultsBelongToDecks
<1>2. CASE EmptySpiceDir
  BY <1>0, <1>2
  DEF EmptySpiceDir, At, Quiet, NextCommand, toolvars, NoResults, ResultsBelongToDecks
<1>3. CASE RunTool
  <2>1. step <= Len(script) /\ script[step].cmd = "tool" /\ step' = step + 1 /\ script' = script
        /\ opts' = script[step].opts /\ tpc' = "spef" /\ UNCHANGED <<deck, result>>
    BY <1>0, <1>3 DEF RunTool, Start, At, Finished, NextCommand, files
  <2>2. opts'.gen => NoResults
    BY <1>0, <2>1, ScriptsAssumption DEF Typed, TypeOK
  <2>3. step' - 1 = step
    BY <1>0, <2>1
  <2> QED
    BY <2>1, <2>2, <2>3 DEF NoResults, ResultsBelongToDecks
<1>4. CASE Dispatch
  BY <1>4 DEF Dispatch, files, toolvars, NoResults, ResultsBelongToDecks
<1>5. CASE OpenSpef \/ WriteSpef \/ OpenSuite \/ WriteSuite \/ GenCrash
  BY <1>5 DEF OpenSpef, WriteSpef, OpenSuite, WriteSuite, GenCrash, files, toolvars, NoResults,
              ResultsBelongToDecks
<1>6. CASE JoinPool
  BY <1>6 DEF JoinPool, files, toolvars, NoResults, ResultsBelongToDecks
<1>7. CASE DispatchExits
  <2>1. script[step].cmd = "dispatch" /\ step' - 1 = step /\ script' = script
    BY <1>0, <1>7 DEF DispatchExits, NextCommand, Typed, Alone
  <2> QED
    BY <2>1, <1>7 DEF DispatchExits, files, toolvars, NoResults, ResultsBelongToDecks
<1>8. CASE NextRound
  BY <1>8 DEF NextRound, files, toolvars, NoResults, ResultsBelongToDecks
<1>9. ASSUME NEW w \in Workers, EndJob(w) PROVE DecksInv'
  <2>1. phase # "start" /\ job[w] \in Ckts
    BY <1>9, DecksAssumption DEF EndJob, RunSim, Typed, TypeOK, Alone, PoolTypeOK
  <2>2. script[step].cmd = "dispatch" /\ tpc = "idle"
    BY <2>1 DEF Typed, Alone
  <2>3. ResultsBelongToDecks'
    BY <1>9, <2>1, SimEndsBelong DEF EndJob
  <2> QED
    BY <2>2, <2>3, <1>9 DEF EndJob, toolvars
<1>10. ASSUME NEW w \in Workers, NEW c \in Ckts, TakeDeck(w, c) PROVE DecksInv'
  <2>1. script[step].cmd = "dispatch" /\ tpc = "idle"
    BY <1>10 DEF TakeDeck, Take, Typed, Alone
  <2>2. ResultsBelongToDecks'
    BY <1>10, SimStartsBelong DEF TakeDeck
  <2> QED
    BY <2>1, <2>2, <1>10 DEF TakeDeck, toolvars
<1>11. CASE (ToolStep \/ Crash) /\ UNCHANGED <<script, step, gpc, poolvars>>
  <2>1. ToolDecksInv'
    BY <1>11, DecksInvTool DEF ToolDecksInv
  <2>2. tpc # "idle"
    BY <1>11, ToolWasRunning
  <2> QED
    BY <2>1, <2>2, <1>11 DEF ToolDecksInv
<1>12. CASE UNCHANGED vars
  BY <1>12 DEF vars, files, toolvars, NoResults, ResultsBelongToDecks
<1> QED
  BY <1>1, <1>2, <1>3, <1>4, <1>5, <1>6, <1>7, <1>8, <1>9, <1>10, <1>11, <1>12, NextCases

LEMMA FlowDecksInv == Spec => []DecksInv
<1>1. Init => DecksInv
  BY DEF Init, ToolInit, DecksInv, NoResults, ResultsBelongToDecks
<1> QED
  BY <1>1, DecksInvStep, FlowTypeCorrect, PTL DEF Spec

\* A measured result lies beside the deck it was measured on.
THEOREM FlowResultsBelongToDecks == Spec => []ResultsBelongToDecks
<1>1. DecksInv => ResultsBelongToDecks
  BY DEF DecksInv
<1> QED
  BY <1>1, FlowDecksInv, PTL

-----------------------------------------------------------------------------
(* The computed delays.                                                    *)

\* From reading the circuits on, a call that computes nothing holds the delays
\* of the file it was given.
ComputedInv ==
    /\ tpc # "idle" => ~(opts.dc /\ opts.merge)
    /\ tpc \in {"open-dc", "write-dc"} => opts.dc
    /\ tpc \in {"open-merged", "write-merged"} => opts.merge
    /\ tpc \notin {"idle", "spef", "circuits"} /\ ~opts.dc =>
          /\ yaml[opts.in] \notin {NoFile, Empty}
          /\ \A c \in Ckts : /\ mem[c].ccs = yaml[opts.in].ckts[c].ccs
                             /\ mem[c].yaml = yaml[opts.in].ckts[c].yaml

LEMMA ComputedInvTool ==
    ASSUME Typed, ComputedInv, ToolStep \/ Crash
    PROVE  ComputedInv'
<1> USE DEF ComputedInv
<1>0. yaml = [f \in Files |-> yaml[f]] /\ opts.in \in {"suite", "dc"} /\ mem \in Circuits
  BY DEF Typed, TypeOK, ToolTypeOK, Options
<1>1. CASE ReadSpef \/ ReadCircuits
  BY <1>1 DEF ReadSpef, ReadCircuits, ExitWithError, files
<1>2. CASE ComputeDelays \/ Analyze \/ ExitWithoutMerge \/ Crash
  BY <1>2 DEF ComputeDelays, Analyze, ExitWithoutMerge, Crash, files
<1>3. CASE OpenDcFile \/ OpenMergedFile
  BY <1>0, <1>3 DEF OpenDcFile, OpenMergedFile, OpenFile, Files
<1>4. CASE WriteDcFile \/ WriteMergedFile
  BY <1>0, <1>4 DEF WriteDcFile, WriteMergedFile, WriteFile, Files
<1>5. CASE OpenDeck \/ WriteDeck \/ StartSim \/ EndSim
  BY <1>5 DEF OpenDeck, WriteDeck, StartSim, EndSim
<1>6. CASE LeaveLoop("gen", opts.gen, "run") \/ LeaveLoop("run", opts.run, "merge")
  BY <1>6 DEF LeaveLoop, files
<1>7. CASE ReadResults
  <2>1. \A c \in Ckts : mem'[c].ccs = mem[c].ccs /\ mem'[c].yaml = mem[c].yaml
    BY <1>0, <1>7 DEF ReadResults, Circuits, Circuit
  <2> QED
    BY <2>1, <1>7 DEF ReadResults, files
<1> QED
  BY <1>1, <1>2, <1>3, <1>4, <1>5, <1>6, <1>7 DEF ToolStep

LEMMA FlowComputedInv == Spec => []ComputedInv
<1>1. Init => ComputedInv
  BY DEF Init, ToolInit, ComputedInv
<1>2. Typed /\ ComputedInv /\ [Next]_vars => ComputedInv'
  <2> SUFFICES ASSUME Typed, ComputedInv, [Next]_vars PROVE ComputedInv'
    OBVIOUS
  <2>1. CASE (ToolStep \/ Crash) /\ UNCHANGED <<script, step, gpc, poolvars>>
    BY <2>1, ComputedInvTool
  <2>2. CASE RunTool
    <3>1. step \in 1..Len(script) /\ script[step].cmd = "tool" /\ opts' = script[step].opts
          /\ tpc' = "spef"
      BY <2>2, ScriptsAssumption DEF RunTool, Start, At, Finished, Typed, TypeOK
    <3> QED
      BY <3>1, ScriptsAssumption DEF ComputedInv, Typed, TypeOK
  <2>3. CASE ~((ToolStep \/ Crash) /\ UNCHANGED <<script, step, gpc, poolvars>>) /\ ~RunTool
    <3>1. UNCHANGED toolvars /\ (tpc = "idle" \/ yaml' = yaml)
      BY <2>3, OutsideTool
    <3> QED
      BY <3>1 DEF toolvars, ComputedInv
  <2> QED
    BY <2>1, <2>2, <2>3
<1> QED
  BY <1>1, <1>2, FlowTypeCorrect, PTL DEF Spec

\* Merging keeps what the contestant computed, circuit by circuit.
THEOREM FlowMergeKeepsComputed == Spec => MergeKeepsComputed
<1>1. Typed /\ ComputedInv /\ [Next]_vars =>
        [(tpc = "write-merged" /\ yaml'["merged"] # yaml["merged"]) =>
            /\ yaml[opts.in] \notin {NoFile, Empty}
            /\ \A c \in Ckts :
                  /\ yaml'["merged"].ckts[c].ccs = yaml[opts.in].ckts[c].ccs
                  /\ yaml'["merged"].ckts[c].yaml = yaml[opts.in].ckts[c].yaml]_vars
  <2> SUFFICES ASSUME Typed, ComputedInv, [Next]_vars,
                      tpc = "write-merged", yaml'["merged"] # yaml["merged"]
               PROVE  /\ yaml[opts.in] \notin {NoFile, Empty}
                      /\ \A c \in Ckts :
                            /\ yaml'["merged"].ckts[c].ccs = yaml[opts.in].ckts[c].ccs
                            /\ yaml'["merged"].ckts[c].yaml = yaml[opts.in].ckts[c].yaml
    OBVIOUS
  <2>1. ~opts.dc /\ yaml = [f \in Files |-> yaml[f]]
    BY DEF ComputedInv, Typed, TypeOK, ToolTypeOK
  <2>2. ToolStep \/ Crash
    <3>1. ~RunTool
      BY DEF RunTool, At, Quiet
    <3> QED
      BY <3>1, OutsideTool
  <2>3. WriteMergedFile \/ Crash
    BY <2>2 DEF ToolStep, ReadSpef, ReadCircuits, ComputeDelays, OpenDcFile, OpenMergedFile,
       OpenFile, WriteDcFile, WriteFile, OpenDeck, WriteDeck, LeaveLoop,
       StartSim, EndSim, ReadResults, Analyze, ExitWithoutMerge
  <2>4. WriteMergedFile
    BY <2>3 DEF Crash, files
  <2>5. yaml'["merged"].ckts = mem
    BY <2>1, <2>4 DEF WriteMergedFile, WriteFile, Files
  <2> QED
    BY <2>1, <2>5 DEF ComputedInv
<1> QED
  BY <1>1, FlowComputedInv, FlowTypeCorrect, PTL DEF Spec, MergeKeepsComputed

-----------------------------------------------------------------------------
(* A round in which nothing fails.                                         *)

ContestScripts ==
    Scripts \subseteq {OneByOne(sim) : sim \in Simulators}
                        \cup {Contestant(dir, sim) : dir \in Dirs, sim \in Simulators}
                        \cup {GenTestsuite(dir) : dir \in Dirs}

\* How the commands of a script follow each other: generate and empty are its
\* first two commands or it has neither, the last but one computes, and the
\* last merges what that one has written.
Ordered(s) ==
    /\ Len(s) >= 2
    /\ \A k \in 1..Len(s) :
          /\ s[k].cmd = "generate" => k = 1
          /\ s[k].cmd = "empty" => k = 2
          /\ s[k].cmd = "tool" => /\ s[k].opts.dc <=> k = Len(s) - 1
                                  /\ s[k].opts.merge <=> k = Len(s)
                                  /\ s[k].opts.in = "dc" <=> k = Len(s)
    /\ s[Len(s) - 1].cmd = "tool" /\ s[Len(s)].cmd = "tool"
    /\ Len(s) > 2 => s[1].cmd = "generate" /\ s[2].cmd = "empty"

LEMMA OtherCommand == ASSUME NEW c PROVE Command(c).cmd = c
BY DEF Command

LEMMA OrderedTwo ==
    ASSUME NEW s, Len(s) = 2, s[1].cmd = "tool", s[2].cmd = "tool",
           s[1].opts.in = "suite", s[1].opts.dc, ~s[1].opts.merge,
           s[2].opts.in = "dc", ~s[2].opts.dc, s[2].opts.merge
    PROVE  Ordered(s)
<1>1. 1..2 = {1, 2} /\ Len(s) - 1 = 1
  OBVIOUS
<1> QED
  BY <1>1 DEF Ordered

LEMMA OrderedFive ==
    ASSUME NEW s, Len(s) = 5, s[1].cmd = "generate", s[2].cmd = "empty",
           s[3].cmd = "tool", s[4].cmd = "tool", s[5].cmd = "tool",
           s[3].opts.in = "suite", ~s[3].opts.dc, ~s[3].opts.merge,
           s[4].opts.in = "suite", s[4].opts.dc, ~s[4].opts.merge,
           s[5].opts.in = "dc", ~s[5].opts.dc, s[5].opts.merge
    PROVE  Ordered(s)
<1>1. 1..5 = {1, 2, 3, 4, 5} /\ Len(s) - 1 = 4
  OBVIOUS
<1> QED
  BY <1>1 DEF Ordered

LEMMA OrderedSix ==
    ASSUME NEW s, Len(s) = 6, s[1].cmd = "generate", s[2].cmd = "empty",
           s[3].cmd = "tool", s[4].cmd = "dispatch", s[5].cmd = "tool", s[6].cmd = "tool",
           s[3].opts.in = "suite", ~s[3].opts.dc, ~s[3].opts.merge,
           s[5].opts.in = "suite", s[5].opts.dc, ~s[5].opts.merge,
           s[6].opts.in = "dc", ~s[6].opts.dc, s[6].opts.merge
    PROVE  Ordered(s)
<1>1. 1..6 = {1, 2, 3, 4, 5, 6} /\ Len(s) - 1 = 5
  OBVIOUS
<1> QED
  BY <1>1 DEF Ordered

\* The scripts of the repository are ordered in this way.
LEMMA ScriptsOrdered == ContestScripts => \A s \in Scripts : Ordered(s)
<1>1. ASSUME NEW dir, NEW sim PROVE Ordered(Contestant(dir, sim))
  <2>1. PICK a, b : /\ a = Tool("suite", {"dc"}, dir, sim)
                    /\ b = Tool("dc", {"merge"}, dir, sim)
    OBVIOUS
  <2>2. Contestant(dir, sim) = <<a, b>>
    BY <2>1 DEF Contestant
  <2>3. /\ a.cmd = "tool" /\ a.opts.in = "suite" /\ a.opts.dc /\ ~a.opts.merge
        /\ b.cmd = "tool" /\ b.opts.in = "dc" /\ ~b.opts.dc /\ b.opts.merge
    BY <2>1 DEF Tool
  <2>4. PICK s : s = Contestant(dir, sim)
    OBVIOUS
  <2>5. Len(s) = 2 /\ s[1] = a /\ s[2] = b
    BY <2>2, <2>4
  <2>6. Ordered(s)
    BY <2>3, <2>5, OrderedTwo
  <2> QED
    BY <2>4, <2>6
<1>2. ASSUME NEW sim PROVE Ordered(OneByOne(sim))
  <2>1. PICK g, e, d, a, b : /\ g = Command("generate") /\ e = Command("empty")
                             /\ d = Tool("suite", {"gen", "run"}, "organisers", sim)
                             /\ a = Tool("suite", {"dc"}, "organisers", sim)
                             /\ b = Tool("dc", {"merge"}, "organisers", sim)
    OBVIOUS
  <2>2. OneByOne(sim) = <<g, e, d>> \o <<a, b>>
    BY <2>1 DEF OneByOne, Contestant
  <2>3. /\ d.cmd = "tool" /\ d.opts.in = "suite" /\ ~d.opts.dc /\ ~d.opts.merge
        /\ a.cmd = "tool" /\ a.opts.in = "suite" /\ a.opts.dc /\ ~a.opts.merge
        /\ b.cmd = "tool" /\ b.opts.in = "dc" /\ ~b.opts.dc /\ b.opts.merge
    BY <2>1 DEF Tool
  <2>4. g.cmd = "generate" /\ e.cmd = "empty"
    BY <2>1, OtherCommand
  <2>5. PICK s : s = OneByOne(sim)
    OBVIOUS
  <2>6. Len(s) = 5 /\ s[1] = g /\ s[2] = e /\ s[3] = d /\ s[4] = a /\ s[5] = b
    BY <2>2, <2>5
  <2>7. Ordered(s)
    BY <2>3, <2>4, <2>6, OrderedFive
  <2> QED
    BY <2>5, <2>7
<1>3. ASSUME NEW dir PROVE Ordered(GenTestsuite(dir))
  <2>1. PICK g, e, d, x, a, b : /\ g = Command("generate") /\ e = Command("empty")
                             /\ d = Tool("suite", {"gen"}, "organisers", "xyce")
                             /\ x = Command("dispatch")
                             /\ a = Tool("suite", {"dc"}, dir, "xyce")
                             /\ b = Tool("dc", {"merge"}, dir, "xyce")
    OBVIOUS
  <2>2. GenTestsuite(dir) = <<g, e, d, x>> \o <<a, b>>
    BY <2>1 DEF GenTestsuite, Contestant
  <2>3. /\ d.cmd = "tool" /\ d.opts.in = "suite" /\ ~d.opts.dc /\ ~d.opts.merge
        /\ a.cmd = "tool" /\ a.opts.in = "suite" /\ a.opts.dc /\ ~a.opts.merge
        /\ b.cmd = "tool" /\ b.opts.in = "dc" /\ ~b.opts.dc /\ b.opts.merge
    BY <2>1 DEF Tool
  <2>4. g.cmd = "generate" /\ e.cmd = "empty" /\ x.cmd = "dispatch"
    BY <2>1, OtherCommand
  <2>5. PICK s : s = GenTestsuite(dir)
    OBVIOUS
  <2>6. Len(s) = 6 /\ s[1] = g /\ s[2] = e /\ s[3] = d /\ s[4] = x /\ s[5] = a /\ s[6] = b
    BY <2>2, <2>5
  <2>7. Ordered(s)
    BY <2>3, <2>4, <2>6, OrderedSix
  <2> QED
    BY <2>5, <2>7
<1> QED
  BY <1>1, <1>2, <1>3 DEF ContestScripts

\* Which command runs: the tool with the options of the command before step,
\* the generator while step is 2.
Position ==
    /\ tpc # "idle" => /\ step > 1 /\ script[step - 1].cmd = "tool"
                       /\ opts = script[step - 1].opts
    /\ gpc # "idle" => step = 2 /\ Len(script) > 2

\* Computed in this round, from the suite and the SPEF that are there.
Now(c) == Whole(c, spef) /\ c.ccs.round = round

Made == Len(script) > 2 => step > 1
SuiteNow == gpc = "idle" /\ Made /\ yaml["suite"] \notin {NoFile, Empty} =>
                \A c \in Ckts : yaml["suite"].ckts[c].yaml = spef
SpefNow == gpc \in {"yaml", "write"} => spef = round
DecksNow == (Len(script) > 2 => step > 2) =>
                \A c \in Ckts : deck[c] \notin {NoFile, Empty} =>
                    deck[c].yaml = spef /\ deck[c].spef = spef
MemNow == tpc \notin {"idle", "spef", "circuits"} => \A c \in Ckts : mem[c].yaml = spef
NetNow == tpc \notin {"idle", "spef"} /\ NeedsSpef => net = spef
ComputedNow ==
    \/ tpc \notin {"idle", "spef", "circuits", "dc"} /\ opts.dc
    \/ tpc \notin {"idle", "spef", "circuits"} /\ opts.in = "dc"
    => \A c \in Ckts : Now(mem[c])
DcDone == \/ step = Len(script) /\ tpc = "idle"
          \/ step = Len(script) + 1
          \/ opts.dc /\ tpc \in {"gen", "deck", "run", "sim", "merge"}
DcNow == DcDone /\ yaml["dc"] \notin {NoFile, Empty} =>
             \A c \in Ckts : Now(yaml["dc"].ckts[c])
MergedNow == step = Len(script) + 1 /\ tpc = "idle" =>
    /\ yaml["merged"] \notin {NoFile, Empty}
    /\ \A c \in Ckts :
          /\ Now(yaml["merged"].ckts[c])
          /\ \A m \in Measures : yaml["merged"].ckts[c].spice[m] \in Origin =>
                /\ yaml["merged"].ckts[c].spice[m].yaml = spef
                /\ yaml["merged"].ckts[c].spice[m].spef = spef

\* While nothing has failed, what each command left is there for the next one.
WholeSoFar == /\ SuiteNow /\ SpefNow /\ DecksNow /\ MemNow /\ NetNow
              /\ ComputedNow /\ DcNow /\ MergedNow

CleanInv == Position /\ (clean => WholeSoFar)

\* What the other invariants say of every state.
GenGiven == tpc = "deck" => opts.gen
Known == /\ Typed /\ GenGiven /\ ComputedInv /\ GoldenIsOnDisk /\ ResultsBelongToDecks
         /\ Ordered(script)

\* The facts of Ordered about the command that runs.
LEMMA RunningCommand ==
    ASSUME Known, Position, tpc # "idle"
    PROVE  /\ Len(script) \in Nat /\ step \in Nat /\ Len(script) >= 2
           /\ step <= Len(script) + 1 /\ step > 1
           /\ Len(script) > 2 => step > 3
           /\ opts.dc => step = Len(script)
           /\ opts.merge <=> step = Len(script) + 1
           /\ opts.in = "dc" <=> step = Len(script) + 1
           /\ step = Len(script) => opts.dc
           /\ opts.in \in {"suite", "dc"} /\ gpc = "idle"
<1>1. Len(script) \in Nat /\ step \in 1..(Len(script) + 1)
  BY ScriptsAssumption DEF Known, Typed, TypeOK
<1>2. PICK k \in 1..Len(script) : k = step - 1
  BY <1>1 DEF Position
<1>3. script[k].cmd = "tool" /\ opts = script[k].opts
  BY <1>2 DEF Position
<1>4. /\ opts.dc <=> k = Len(script) - 1
      /\ opts.merge <=> k = Len(script)
      /\ opts.in = "dc" <=> k = Len(script)
      /\ Len(script) >= 2
  BY <1>3 DEF Known, Ordered
<1>5. Len(script) > 2 => k # 1 /\ k # 2
  BY <1>3 DEF Known, Ordered
<1>6. opts.in \in {"suite", "dc"} /\ gpc = "idle"
  BY DEF Known, Typed, TypeOK, ToolTypeOK, Options, Alone
<1> QED
  BY <1>1, <1>2, <1>4, <1>5, <1>6

\* The facts of Ordered about the command the shell starts.
LEMMA NextOfScript ==
    ASSUME Known, step <= Len(script)
    PROVE  /\ Len(script) \in Nat /\ step \in Nat /\ step >= 1 /\ Len(script) >= 2
           /\ script[step].cmd = "generate" => step = 1 /\ Len(script) > 3
           /\ script[step].cmd = "empty" => step = 2 /\ Len(script) > 3
           /\ script[step].cmd = "dispatch" => step > 2 /\ step < Len(script) - 1
           /\ script[step].cmd = "tool" /\ Len(script) > 2 => step > 2
           /\ step = Len(script) \/ step = Len(script) - 1 => script[step].cmd = "tool"
<1>1. Len(script) \in Nat /\ step \in 1..(Len(script) + 1)
  BY ScriptsAssumption DEF Known, Typed, TypeOK
<1>2. PICK k \in 1..Len(script) : k = step
  BY <1>1
<1>3. PICK L \in Nat : L = Len(script) /\ L >= 2
  BY <1>1 DEF Known, Ordered
<1>4. /\ script[k].cmd = "generate" => k = 1
      /\ script[k].cmd = "empty" => k = 2
      /\ script[L - 1].cmd = "tool" /\ script[L].cmd = "tool"
      /\ L > 2 => script[1].cmd = "generate" /\ script[2].cmd = "empty"
  BY <1>3 DEF Known, Ordered
<1>5. L > 2 => L - 1 # 1 /\ L - 1 # 2 /\ L # 1 /\ L # 2
  BY <1>4
<1>6. script[k].cmd = "generate" => k = 1 /\ k # L - 1 /\ k # L
  BY <1>4
<1>7. script[k].cmd = "empty" => k = 2 /\ k # L - 1 /\ k # L
  BY <1>4
<1>8. script[k].cmd = "dispatch" => k # L - 1 /\ k # L /\ (L > 2 => k # 1 /\ k # 2)
  BY <1>4
<1>9. script[k].cmd = "tool" /\ L > 2 => k # 1 /\ k # 2
  BY <1>4
<1> QED
  BY <1>2, <1>3, <1>4, <1>5, <1>6, <1>7, <1>8, <1>9

\* What no step of the tool touches.
LEMMA ToolFrame ==
    ASSUME Known, ToolStep \/ Crash
    PROVE  /\ opts' = opts /\ spef' = spef /\ round' = round /\ (clean' => clean)
           /\ yaml'["suite"] = yaml["suite"]
<1>1. yaml = [f \in Files |-> yaml[f]]
  BY DEF Known, Typed, TypeOK, ToolTypeOK
<1>2. CASE ReadSpef \/ ReadCircuits
  BY <1>2 DEF ReadSpef, ReadCircuits, ExitWithError, files, history
<1>3. CASE ComputeDelays \/ OpenDeck \/ WriteDeck \/ StartSim \/ ReadResults \/ Analyze
  BY <1>3 DEF ComputeDelays, OpenDeck, WriteDeck, StartSim, ReadResults, Analyze, files, history
<1>4. CASE OpenDcFile \/ OpenMergedFile
  BY <1>1, <1>4 DEF OpenDcFile, OpenMergedFile, OpenFile, Files, history
<1>5. CASE WriteDcFile \/ WriteMergedFile
  BY <1>1, <1>5 DEF WriteDcFile, WriteMergedFile, WriteFile, Files, history
<1>6. CASE LeaveLoop("gen", opts.gen, "run") \/ LeaveLoop("run", opts.run, "merge")
  BY <1>6 DEF LeaveLoop, files, history
<1>7. CASE EndSim
  BY <1>7 DEF EndSim, SimEnds
<1>8. CASE ExitWithoutMerge \/ Crash
  BY <1>8 DEF ExitWithoutMerge, Crash, files, history
<1> QED
  BY <1>2, <1>3, <1>4, <1>5, <1>6, <1>7, <1>8 DEF ToolStep

LEMMA CleanTool ==
    ASSUME Known, CleanInv, ToolStep \/ Crash, UNCHANGED <<script, step, gpc, poolvars>>, clean'
    PROVE  WholeSoFar'
<1>1. /\ opts' = opts /\ spef' = spef /\ round' = round /\ clean
      /\ yaml'["suite"] = yaml["suite"] /\ step' = step /\ script' = script /\ gpc' = gpc
  BY ToolFrame
<1>2. tpc # "idle"
  BY ToolWasRunning
<1>3. /\ Len(script) \in Nat /\ step \in Nat /\ Len(script) >= 2
      /\ step <= Len(script) + 1 /\ step > 1
      /\ Len(script) > 2 => step > 3
      /\ opts.dc => step = Len(script)
      /\ opts.merge <=> step = Len(script) + 1
      /\ opts.in = "dc" <=> step = Len(script) + 1
      /\ step = Len(script) => opts.dc
      /\ opts.in \in {"suite", "dc"} /\ gpc = "idle"
  BY <1>2, RunningCommand DEF CleanInv
<1>4. SuiteNow /\ DecksNow /\ MemNow /\ NetNow /\ ComputedNow /\ DcNow
  BY <1>1 DEF CleanInv, WholeSoFar
<1>5. SuiteNow' /\ SpefNow'
  BY <1>1, <1>3, <1>4 DEF SuiteNow, SpefNow, Made
<1>6. mem \in Circuits /\ yaml = [f \in Files |-> yaml[f]]
  BY DEF Known, Typed, TypeOK, ToolTypeOK
<1>7. CASE ReadSpef
  <2>1. tpc = "spef" /\ tpc' = "circuits" /\ (NeedsSpef => net' = spef)
        /\ yaml' = yaml /\ deck' = deck
    BY <1>7 DEF ReadSpef, ExitWithError, files
  <2>2. DcDone' => DcDone
    BY <1>1, <1>2, <2>1 DEF DcDone
  <2>3. DecksNow' /\ DcNow'
    BY <1>1, <1>4, <2>1, <2>2 DEF DecksNow, DcNow, Now
  <2>4. MemNow' /\ NetNow' /\ ComputedNow' /\ MergedNow'
    BY <1>1, <2>1 DEF MemNow, NetNow, NeedsSpef, ComputedNow, MergedNow
  <2> QED
    BY <1>5, <2>3, <2>4 DEF WholeSoFar
<1>8. CASE ReadCircuits
  <2>1. /\ tpc = "circuits" /\ tpc' = "dc" /\ yaml[opts.in] \notin {NoFile, Empty}
        /\ mem' = yaml[opts.in].ckts /\ net' = net /\ yaml' = yaml /\ deck' = deck
    BY <1>8 DEF ReadCircuits, ExitWithError, files
  <2>2. DcDone' => DcDone
    BY <1>1, <1>2, <2>1 DEF DcDone
  <2>3. DecksNow' /\ DcNow' /\ NetNow' /\ MergedNow'
    BY <1>1, <1>4, <2>1, <2>2 DEF DecksNow, DcNow, Now, NetNow, NeedsSpef, MergedNow
  <2>4. opts.in = "dc" => \A c \in Ckts : Now(mem'[c])
    BY <1>3, <1>4, <2>1 DEF DcNow, DcDone
  <2>5. opts.in = "suite" => \A c \in Ckts : mem'[c].yaml = spef
    BY <1>3, <1>4, <2>1 DEF SuiteNow, Made
  <2>6. MemNow' /\ ComputedNow'
    BY <1>1, <1>3, <2>1, <2>4, <2>5 DEF MemNow, ComputedNow, Now, Whole
  <2> QED
    BY <1>5, <2>3, <2>6 DEF WholeSoFar
<1>9. CASE ComputeDelays
  <2>1. /\ tpc = "dc" /\ tpc' = (IF opts.dc THEN "open-dc" ELSE "gen")
        /\ net' = net /\ yaml' = yaml /\ deck' = deck
    BY <1>9 DEF ComputeDelays, files
  <2>2. DcDone' => DcDone
    BY <1>1, <1>2, <2>1 DEF DcDone
  <2>3. DecksNow' /\ DcNow' /\ NetNow' /\ MergedNow'
    BY <1>1, <1>4, <2>1, <2>2 DEF DecksNow, DcNow, Now, NetNow, NeedsSpef, MergedNow
  <2>4. CASE opts.dc
    <3>1. net = spef
      BY <1>4, <2>1, <2>4 DEF NetNow, NeedsSpef
    <3>2. ASSUME NEW c \in Ckts PROVE Now(mem'[c])
      <4>1. mem[c].yaml = spef /\ mem[c] \in Circuit
        BY <1>4, <1>6, <2>1 DEF MemNow, Circuits
      <4>2. mem'[c] = [mem[c] EXCEPT !.ccs = [yaml |-> spef, spef |-> spef, round |-> round]]
        BY <1>9, <2>4, <3>1, <4>1 DEF ComputeDelays
      <4>3. mem'[c].yaml = spef /\ mem'[c].ccs = [yaml |-> spef, spef |-> spef, round |-> round]
        BY <4>1, <4>2 DEF Circuit
      <4>4. spef \in Gens /\ round \in Gens
        BY <4>1 DEF Circuit, Known, Typed, TypeOK, ToolTypeOK
      <4> QED
        BY <4>3, <4>4 DEF Now, Whole, Origin
    <3>3. MemNow' /\ ComputedNow'
      BY <1>1, <3>2 DEF MemNow, ComputedNow, Now, Whole
    <3> QED
      BY <1>5, <2>3, <3>3 DEF WholeSoFar
  <2>5. CASE ~opts.dc
    <3>1. mem' = mem
      BY <1>9, <2>5 DEF ComputeDelays
    <3>2. MemNow' /\ ComputedNow'
      BY <1>1, <1>4, <2>1, <2>5, <3>1 DEF MemNow, ComputedNow, Now, Whole
    <3> QED
      BY <1>5, <2>3, <3>2 DEF WholeSoFar
  <2> QED
    BY <2>4, <2>5
<1>10. CASE OpenDcFile
  <2>1. /\ tpc = "open-dc" /\ tpc' = "write-dc" /\ net' = net /\ mem' = mem /\ deck' = deck
    BY <1>10 DEF OpenDcFile, OpenFile
  <2>2. opts.dc
    BY <2>1 DEF Known, ComputedInv
  <2>3. ~DcDone'
    BY <1>1, <1>3, <2>1, <2>2 DEF DcDone
  <2>4. DecksNow' /\ DcNow' /\ NetNow' /\ MergedNow'
    BY <1>1, <1>4, <2>1, <2>3 DEF DecksNow, DcNow, NetNow, NeedsSpef, MergedNow
  <2>5. MemNow' /\ ComputedNow'
    BY <1>1, <1>4, <2>1 DEF MemNow, ComputedNow, Now, Whole
  <2> QED
    BY <1>5, <2>4, <2>5 DEF WholeSoFar
<1>11. CASE WriteDcFile
  <2>1. /\ tpc = "write-dc" /\ tpc' = "gen" /\ net' = net /\ mem' = mem /\ deck' = deck
    BY <1>11 DEF WriteDcFile, WriteFile
  <2>2. opts.dc /\ yaml'["dc"].ckts = mem
    BY <1>6, <1>11, <2>1 DEF Known, ComputedInv, WriteDcFile, WriteFile, Files
  <2>3. \A c \in Ckts : Now(yaml'["dc"].ckts[c])
    BY <1>4, <2>1, <2>2 DEF ComputedNow
  <2>4. DecksNow' /\ DcNow' /\ NetNow' /\ MergedNow'
    BY <1>1, <1>4, <2>1, <2>3 DEF DecksNow, DcNow, Now, NetNow, NeedsSpef, MergedNow
  <2>5. MemNow' /\ ComputedNow'
    BY <1>1, <1>4, <2>1 DEF MemNow, ComputedNow, Now, Whole
  <2> QED
    BY <1>5, <2>4, <2>5 DEF WholeSoFar
<1>12. CASE OpenDeck \/ WriteDeck
  <2>1. /\ tpc \in {"gen", "deck"} /\ tpc' \in {"gen", "deck"}
        /\ net' = net /\ mem' = mem /\ yaml' = yaml
    BY <1>12 DEF OpenDeck, WriteDeck
  <2>2. DecksNow'
    <3>1. CASE OpenDeck
      <4>1. \A c \in Ckts : deck'[c] = deck[c] \/ deck'[c] = Empty
        BY <3>1 DEF OpenDeck, Known, Typed, TypeOK, ToolTypeOK
      <4> QED
        BY <1>1, <1>3, <1>4, <4>1 DEF DecksNow
    <3>2. CASE WriteDeck
      <4>1. i \in Ckts /\ mem[i].yaml = spef
        BY <1>4, <3>2 DEF WriteDeck, Known, Typed, InLoop, MemNow
      <4>2. net = spef
        BY <1>4, <2>1, <3>2 DEF WriteDeck, NetNow, NeedsSpef, Known, GenGiven
      <4>3. \A c \in Ckts : deck'[c] = deck[c] \/ deck'[c] = [yaml |-> spef, spef |-> spef]
        BY <3>2, <4>1, <4>2 DEF WriteDeck, Known, Typed, TypeOK, ToolTypeOK
      <4> QED
        BY <1>1, <1>3, <1>4, <4>3 DEF DecksNow
    <3> QED
      BY <1>12, <3>1, <3>2
  <2>3. DcDone' => DcDone
    BY <1>1, <1>2, <2>1 DEF DcDone
  <2>4. DcNow' /\ NetNow' /\ MergedNow' /\ MemNow' /\ ComputedNow'
    BY <1>1, <1>4, <2>1, <2>3
    DEF DcNow, Now, Whole, NetNow, NeedsSpef, MergedNow, MemNow, ComputedNow
  <2> QED
    BY <1>5, <2>2, <2>4 DEF WholeSoFar
<1>13. CASE \/ LeaveLoop("gen", opts.gen, "run") \/ LeaveLoop("run", opts.run, "merge")
            \/ StartSim \/ EndSim \/ Analyze
  <2>1. /\ tpc \in {"gen", "run", "sim", "merge"}
        /\ tpc' \in {"run", "sim", "merge", "open-merged"}
        /\ tpc' = "open-merged" => opts.merge
        /\ net' = net /\ mem' = mem /\ yaml' = yaml /\ deck' = deck
    BY <1>13 DEF LeaveLoop, StartSim, EndSim, Analyze, files
  <2>2. DcDone' => DcDone
    BY <1>1, <1>2, <1>3, <2>1 DEF DcDone
  <2>3. DecksNow' /\ DcNow' /\ NetNow' /\ MergedNow' /\ MemNow' /\ ComputedNow'
    BY <1>1, <1>4, <2>1, <2>2
    DEF DecksNow, DcNow, Now, Whole, NetNow, NeedsSpef, MergedNow, MemNow, ComputedNow
  <2> QED
    BY <1>5, <2>3 DEF WholeSoFar
<1>14. CASE ReadResults
  <2>1. tpc = "merge" /\ tpc' = "merge" /\ net' = net /\ yaml' = yaml /\ deck' = deck
    BY <1>14 DEF ReadResults, files
  <2>2. \A c \in Ckts : mem'[c].ccs = mem[c].ccs /\ mem'[c].yaml = mem[c].yaml
    BY <1>6, <1>14 DEF ReadResults, Circuits, Circuit
  <2>3. DecksNow' /\ DcNow' /\ NetNow' /\ MergedNow'
    BY <1>1, <1>4, <2>1
    DEF DecksNow, DcNow, DcDone, Now, Whole, NetNow, NeedsSpef, MergedNow
  <2>4. MemNow' /\ ComputedNow'
    BY <1>1, <1>4, <2>1, <2>2 DEF MemNow, ComputedNow, Now, Whole
  <2> QED
    BY <1>5, <2>3, <2>4 DEF WholeSoFar
<1>15. CASE OpenMergedFile
  <2>1. /\ tpc = "open-merged" /\ tpc' = "write-merged" /\ net' = net /\ mem' = mem
        /\ deck' = deck /\ yaml'["dc"] = yaml["dc"]
    BY <1>6, <1>15 DEF OpenMergedFile, OpenFile, Files
  <2>2. DcDone' => DcDone
    BY <1>1, <1>2, <2>1 DEF DcDone
  <2>3. DecksNow' /\ DcNow' /\ NetNow' /\ MergedNow' /\ MemNow' /\ ComputedNow'
    BY <1>1, <1>4, <2>1, <2>2
    DEF DecksNow, DcNow, Now, Whole, NetNow, NeedsSpef, MergedNow, MemNow, ComputedNow
  <2> QED
    BY <1>5, <2>3 DEF WholeSoFar
<1>16. CASE WriteMergedFile
  <2>1. /\ tpc = "write-merged" /\ tpc' = "idle" /\ net' = net /\ mem' = mem
        /\ deck' = deck /\ result' = result /\ yaml'["dc"] = yaml["dc"]
        /\ yaml'["merged"] = [ckts |-> mem, rms |-> bench.rms, pts |-> bench.pts]
    BY <1>6, <1>16 DEF WriteMergedFile, WriteFile, Files
  <2>2. opts.merge /\ step = Len(script) + 1 /\ opts.in = "dc"
    BY <1>3, <2>1 DEF Known, ComputedInv
  <2>3. DecksNow' /\ DcNow' /\ NetNow' /\ MemNow' /\ ComputedNow'
    BY <1>1, <1>4, <2>1, <2>2
    DEF DecksNow, DcNow, DcDone, Now, Whole, NetNow, MemNow, ComputedNow
  <2>4. yaml'["merged"].ckts = mem /\ yaml'["merged"] \notin {NoFile, Empty}
    <3>1. yaml'["merged"] \in Content
      BY <2>1 DEF Content, Known, Typed, TypeOK, ToolTypeOK
    <3> QED
      BY <2>1, <3>1, ValuesAssumption
  <2>5. \A c \in Ckts : Now(mem[c])
    BY <1>4, <2>1, <2>2 DEF ComputedNow
  <2>6. ASSUME NEW c \in Ckts, NEW m \in Measures, mem[c].spice[m] \in Origin
        PROVE  mem[c].spice[m].yaml = spef /\ mem[c].spice[m].spef = spef
    <3>1. result[c] # NoFile /\ mem[c].spice[m] = result[c][m]
      BY <2>1, <2>6 DEF Known, GoldenIsOnDisk
    <3>2. deck[c] \notin {NoFile, Empty} /\ result[c][m].yaml = deck[c].yaml
          /\ result[c][m].spef = deck[c].spef
      BY <2>6, <3>1 DEF Known, ResultsBelongToDecks
    <3> QED
      BY <1>3, <1>4, <3>1, <3>2 DEF DecksNow
  <2>7. MergedNow'
    BY <1>1, <2>4, <2>5, <2>6 DEF MergedNow, Now, Whole
  <2> QED
    BY <1>5, <2>3, <2>7 DEF WholeSoFar
<1>17. CASE ExitWithoutMerge
  <2>1. /\ tpc = "merge" /\ tpc' = "idle" /\ net' = net /\ mem' = mem /\ ~opts.merge
        /\ deck' = deck /\ yaml' = yaml
    BY <1>17 DEF ExitWithoutMerge, files
  <2>2. DcDone' => DcDone
    BY <1>1, <1>3, <2>1 DEF DcDone
  <2>3. step # Len(script) + 1
    BY <1>3, <2>1
  <2>4. DecksNow' /\ DcNow' /\ NetNow' /\ MergedNow' /\ MemNow' /\ ComputedNow'
    BY <1>1, <1>4, <2>1, <2>2, <2>3
    DEF DecksNow, DcNow, Now, Whole, NetNow, NeedsSpef, MergedNow, MemNow, ComputedNow
  <2> QED
    BY <1>5, <2>4 DEF WholeSoFar
<1>18. CASE Crash
  BY <1>18 DEF Crash
<1> QED
  BY <1>7, <1>8, <1>9, <1>10, <1>11, <1>12, <1>13, <1>14, <1>15, <1>16, <1>17, <1>18 DEF ToolStep

\* A step of the shell, the generator, the dispatcher or the next round finds
\* the tool idle and keeps the invariant.
LEMMA CleanGenerate == ASSUME Known, CleanInv, Generate PROVE CleanInv'
<1>1. /\ step <= Len(script) /\ script[step].cmd = "generate" /\ Quiet
      /\ UNCHANGED <<files, toolvars, round, script>> /\ step' = step + 1 /\ gpc' = "nets"
  BY ScriptsAssumption
  DEF Generate, At, Finished, NextCommand, Known, Typed, TypeOK
<1>2. step = 1 /\ Len(script) > 3 /\ Len(script) \in Nat
  BY <1>1, NextOfScript
<1>3. tpc' = "idle" /\ step' = 2 /\ Len(script') = Len(script)
  BY <1>1, <1>2 DEF Quiet, toolvars
<1>4. Position' /\ SuiteNow' /\ SpefNow' /\ MemNow' /\ NetNow' /\ ComputedNow'
  BY <1>1, <1>2, <1>3 DEF Position, SuiteNow, SpefNow, MemNow, NetNow, ComputedNow
<1>5. step' # Len(script') /\ step' # Len(script') + 1 /\ Len(script') > 2
  <2>1. PICK L \in Nat : L = Len(script') /\ L > 3
    BY <1>2, <1>3
  <2>2. step' = 2
    BY <1>3
  <2>3. \A n \in Nat : n > 3 => n # 2 /\ n + 1 # 2 /\ n > 2
    OBVIOUS
  <2> QED
    BY <2>1, <2>2, <2>3
<1>6. ~DcDone'
  BY <1>3, <1>5 DEF DcDone
<1>7. DecksNow' /\ DcNow' /\ MergedNow'
  BY <1>3, <1>5, <1>6 DEF DecksNow, DcNow, MergedNow
<1> QED
  BY <1>4, <1>7 DEF CleanInv, WholeSoFar

LEMMA CleanEmpty == ASSUME Known, CleanInv, EmptySpiceDir PROVE CleanInv'
<1>1. /\ step <= Len(script) /\ script[step].cmd = "empty" /\ Quiet
      /\ UNCHANGED <<yaml, spef, toolvars, history, script, gpc>> /\ step' = step + 1
      /\ \A c \in Ckts : deck'[c] = NoFile
  BY ScriptsAssumption
  DEF EmptySpiceDir, At, Finished, NextCommand, Known, Typed, TypeOK
<1>2. step = 2 /\ Len(script) > 3 /\ Len(script) \in Nat
  BY <1>1, NextOfScript
<1>3. Position'
  BY <1>1 DEF Position, Quiet, toolvars
<1>4. clean' => SuiteNow'
  BY <1>1, <1>2 DEF CleanInv, WholeSoFar, SuiteNow, Made, history
<1>5. tpc' = "idle" /\ gpc' = "idle" /\ step' = 3 /\ Len(script') = Len(script)
  BY <1>1, <1>2 DEF Quiet, toolvars
<1>6. SpefNow' /\ MemNow' /\ NetNow' /\ ComputedNow' /\ DecksNow'
  BY <1>1, <1>5 DEF SpefNow, MemNow, NetNow, ComputedNow, DecksNow
<1>7. step' # Len(script') /\ step' # Len(script') + 1
  <2>1. PICK L \in Nat : L = Len(script') /\ L > 3
    BY <1>2, <1>5
  <2>2. step' = 3
    BY <1>5
  <2>3. L # 3 /\ L + 1 # 3
    BY <2>1
  <2> QED
    BY <2>1, <2>2, <2>3
<1>8. ~DcDone'
  BY <1>5, <1>7 DEF DcDone
<1>9. DcNow' /\ MergedNow'
  BY <1>7, <1>8 DEF DcNow, MergedNow
<1> QED
  BY <1>3, <1>4, <1>6, <1>9 DEF CleanInv, WholeSoFar

LEMMA CleanRunTool == ASSUME Known, CleanInv, RunTool PROVE CleanInv'
<1>1. /\ step <= Len(script) /\ script[step].cmd = "tool" /\ Quiet
      /\ UNCHANGED <<files, history, script, gpc>> /\ step' = step + 1
      /\ opts' = script[step].opts /\ tpc' = "spef"
  BY ScriptsAssumption
  DEF RunTool, Start, At, Finished, NextCommand, Known, Typed, TypeOK
<1>2. /\ Len(script) \in Nat /\ step \in Nat /\ step >= 1 /\ Len(script) >= 2
      /\ Len(script) > 2 => step > 2
  BY <1>1, NextOfScript
<1>3. step' > 1 /\ step' - 1 = step
  BY <1>1, <1>2
<1>4. Position'
  BY <1>1, <1>3 DEF Position, Quiet
<1>5. ASSUME clean' PROVE WholeSoFar'
  <2>1. SuiteNow /\ DecksNow /\ DcNow
    BY <1>1, <1>5 DEF CleanInv, WholeSoFar, history
  <2>2. SuiteNow' /\ DecksNow'
    BY <1>1, <1>2, <2>1 DEF SuiteNow, DecksNow, Made, files
  <2>3. DcDone' => DcDone
    BY <1>1, <1>2 DEF DcDone, Quiet
  <2>4. DcNow'
    BY <1>1, <2>1, <2>3 DEF DcNow, Now, files, history
  <2>5. SpefNow' /\ MemNow' /\ NetNow' /\ ComputedNow' /\ MergedNow'
    BY <1>1 DEF SpefNow, MemNow, NetNow, ComputedNow, MergedNow, Quiet
  <2> QED
    BY <2>2, <2>4, <2>5 DEF WholeSoFar
<1> QED
  BY <1>4, <1>5 DEF CleanInv

\* The dispatcher and its pool leave alone what the invariant speaks of.
LEMMA CleanPool ==
    ASSUME Known, CleanInv, UNCHANGED <<yaml, spef, deck, toolvars, round, script, step, gpc>>,
           clean' => clean
    PROVE  CleanInv'
BY DEF CleanInv, Position, WholeSoFar, SuiteNow, Made, SpefNow, DecksNow, MemNow, NetNow,
       NeedsSpef, ComputedNow, DcDone, DcNow, MergedNow, Now, Whole, toolvars

LEMMA CleanDispatched == ASSUME Known, CleanInv, DispatchExits PROVE CleanInv'
<1>1. /\ step <= Len(script) /\ script[step].cmd = "dispatch" /\ tpc = "idle" /\ gpc = "idle"
      /\ UNCHANGED <<files, toolvars, history, script, gpc>> /\ step' = step + 1
  BY DEF DispatchExits, NextCommand, Known, Typed, Alone
<1>2. Len(script) \in Nat /\ step \in Nat /\ step > 2 /\ step < Len(script) - 1
  BY <1>1, NextOfScript
<1>3. Position'
  BY <1>1 DEF Position, toolvars
<1>4. clean' => SuiteNow' /\ DecksNow'
  BY <1>1, <1>2 DEF CleanInv, WholeSoFar, SuiteNow, DecksNow, Made, files, history
<1> QED
  BY <1>1, <1>2, <1>3, <1>4
  DEF CleanInv, WholeSoFar, SpefNow, MemNow, NetNow, ComputedNow, DcDone, DcNow, MergedNow,
      toolvars, history

LEMMA CleanGen ==
    ASSUME Known, CleanInv, OpenSpef \/ WriteSpef \/ OpenSuite \/ WriteSuite \/ GenCrash
    PROVE  CleanInv'
<1>1. /\ gpc # "idle" /\ UNCHANGED <<toolvars, deck, script, step, round>>
      /\ gpc' = "idle" => WriteSuite \/ GenCrash
  BY DEF OpenSpef, WriteSpef, OpenSuite, WriteSuite, GenCrash, history, files
<1>2. tpc = "idle" /\ step = 2 /\ Len(script) > 2 /\ Len(script) \in Nat
  BY <1>1, ScriptsAssumption DEF CleanInv, Position, Known, Typed, TypeOK, Alone
<1>3. Position'
  BY <1>1, <1>2 DEF Position, toolvars
<1>4. script[2].cmd = "empty" /\ Len(script) # 2
  BY <1>2 DEF Known, Ordered
<1>5. clean' => SpefNow'
  <2>1. CASE OpenSpef \/ WriteSuite \/ GenCrash
    BY <2>1 DEF OpenSpef, WriteSuite, GenCrash, SpefNow
  <2>2. CASE WriteSpef
    BY <2>2 DEF WriteSpef, SpefNow, history
  <2>3. CASE OpenSuite
    BY <2>3 DEF OpenSuite, SpefNow, history, CleanInv, WholeSoFar
  <2> QED
    BY <2>1, <2>2, <2>3
<1>6. clean' => SuiteNow'
  <2>1. CASE gpc' # "idle"
    BY <2>1 DEF SuiteNow
  <2>2. CASE GenCrash
    BY <2>2 DEF GenCrash
  <2>3. CASE WriteSuite /\ clean'
    <3>1. gpc = "write" /\ spef' = spef /\ clean /\ spef = round
      BY <2>3 DEF WriteSuite, history, CleanInv, WholeSoFar, SpefNow
    <3>2. yaml'["suite"].ckts = [c \in Ckts |-> [Blank[c] EXCEPT !.yaml = round]]
      BY <2>3 DEF WriteSuite, Files, Known, Typed, TypeOK, ToolTypeOK
    <3>3. \A c \in Ckts : [Blank[c] EXCEPT !.yaml = round].yaml = round
      BY DEF Blank
    <3> QED
      BY <3>1, <3>2, <3>3 DEF SuiteNow
  <2> QED
    BY <1>1, <2>1, <2>2, <2>3
<1> QED
  BY <1>1, <1>2, <1>3, <1>4, <1>5, <1>6
  DEF CleanInv, WholeSoFar, DecksNow, MemNow, NetNow, ComputedNow, DcDone, DcNow, MergedNow,
      toolvars

LEMMA CleanNextRound ==
    ASSUME Known, CleanInv, NextRound, \A s \in Scripts : Ordered(s)
    PROVE  CleanInv'
<1>1. /\ Quiet /\ step > Len(script) /\ step' = 1 /\ script' \in Scripts
      /\ UNCHANGED <<files, toolvars, clean, gpc>>
  BY DEF NextRound, Finished
<1>2. /\ Len(script) \in Nat /\ Len(script') \in Nat /\ step \in Nat
      /\ Len(script) >= 2 /\ Len(script') >= 2
  BY <1>1, ScriptsAssumption DEF Known, Typed, TypeOK, Ordered
<1>3. Position'
  BY <1>1 DEF Position, Quiet, toolvars
<1>4. clean' => SuiteNow' /\ DecksNow'
  BY <1>1, <1>2 DEF CleanInv, WholeSoFar, SuiteNow, DecksNow, Made, files, Quiet
<1>5. tpc' = "idle" /\ gpc' = "idle"
  BY <1>1 DEF Quiet, toolvars
<1>6. SpefNow' /\ MemNow' /\ NetNow' /\ ComputedNow'
  BY <1>5 DEF SpefNow, MemNow, NetNow, ComputedNow
<1>7. step' # Len(script') /\ step' # Len(script') + 1
  <2>1. PICK L \in Nat : L = Len(script') /\ L >= 2
    BY <1>2
  <2> QED
    BY <2>1, <1>1
<1>8. ~DcDone'
  BY <1>5, <1>7 DEF DcDone
<1>9. DcNow' /\ MergedNow'
  BY <1>7, <1>8 DEF DcNow, MergedNow
<1> QED
  BY <1>3, <1>4, <1>6, <1>9 DEF CleanInv, WholeSoFar

LEMMA CleanStep ==
    ASSUME Known, CleanInv, [Next]_vars, \A s \in Scripts : Ordered(s)
    PROVE  CleanInv'
<1>1. CASE (ToolStep \/ Crash) /\ UNCHANGED <<script, step, gpc, poolvars>>
  <2>1. tpc # "idle" /\ opts' = opts /\ gpc = "idle"
    BY <1>1, ToolFrame, ToolWasRunning DEF Known, Typed, Alone
  <2>2. Position'
    BY <1>1, <2>1 DEF CleanInv, Position
  <2> QED
    BY <1>1, <2>2, CleanTool DEF CleanInv
<1>2. CASE Dispatch \/ JoinPool \/ UNCHANGED vars
  BY <1>2, CleanPool DEF Dispatch, JoinPool, vars, files, history
<1>3. ASSUME NEW w \in Workers, EndJob(w) PROVE CleanInv'
  BY <1>3, CleanPool DEF EndJob, SimEnds
<1>4. ASSUME NEW w \in Workers, NEW c \in Ckts, TakeDeck(w, c) PROVE CleanInv'
  BY <1>4, CleanPool DEF TakeDeck, history
<1> QED
  BY <1>1, <1>2, <1>3, <1>4, NextCases, CleanGenerate, CleanEmpty, CleanRunTool,
     CleanDispatched, CleanGen, CleanNextRound

\* When nothing failed since the suite was generated, the merged file holds what
\* this round computed and what was measured for this suite.
THEOREM FlowCleanRunIsWhole == ContestScripts => (Spec => []CleanRunIsWhole)
<1> SUFFICES ASSUME ContestScripts PROVE Spec => []CleanRunIsWhole
  OBVIOUS
<1>1. \A s \in Scripts : Ordered(s)
  BY ScriptsOrdered
<1> HIDE DEF ContestScripts
<1>2. Init => CleanInv
  <2> SUFFICES ASSUME Init PROVE CleanInv
    OBVIOUS
  <2>1. script \in Scripts /\ Len(script) \in Nat /\ Len(script) >= 2 /\ step = 1
    BY <1>1, ScriptsAssumption DEF Init, Ordered
  <2> QED
    BY <2>1
    DEF Init, ToolInit, CleanInv, Position, WholeSoFar, SuiteNow, SpefNow, DecksNow, MemNow,
        NetNow, ComputedNow, DcDone, DcNow, MergedNow, Files
<1>3. /\ Typed /\ DecksInv /\ ComputedInv /\ GoldenIsOnDisk /\ ResultsBelongToDecks => Known
  BY <1>1 DEF Known, Typed, TypeOK, DecksInv, GenGiven
<1>4. Known /\ CleanInv /\ [Next]_vars => CleanInv'
  BY <1>1, CleanStep
<1>5. Known /\ CleanInv => CleanRunIsWhole
  <2> SUFFICES ASSUME Known, CleanInv, Finished, Quiet, clean
               PROVE  MergedNow /\ step = Len(script) + 1 /\ tpc = "idle"
    BY DEF CleanRunIsWhole, MergedNow, Now
  <2>1. Len(script) \in Nat /\ step \in 1..(Len(script) + 1)
    BY ScriptsAssumption DEF Known, Typed, TypeOK
  <2> QED
    BY <2>1 DEF Finished, Quiet, CleanInv, WholeSoFar
<1> QED
  BY <1>2, <1>3, <1>4, <1>5, FlowTypeCorrect, FlowGoldenIsOnDisk, FlowResultsBelongToDecks,
     FlowDecksInv, FlowComputedInv, PTL DEF Spec

=============================================================================
