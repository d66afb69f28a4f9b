# A verification development for dctk

dctk runs a delay-calculation contest. A generator (`gen_random_nets`) builds
random nets with a driver, a receiver and an RC tree and writes them as a
*testsuite*: a SPEF file and a `*.circuits.yaml` file. A contestant's delay
calculator, linked into `delay_calc_tool`, computes delays and slews for every
circuit. SPICE decks made from the same circuits are simulated, one after another
or in parallel (`dispatch_parallel_sims`), and `delay_calc_tool` merges the
measured ("golden") values with the computed ones and scores the difference.
csh scripts under `src/test` run these programs one after another.

The modules here are translated from the sources under `src/`; paths below are
relative to it. `PROJECT.json` maps every definition to its lines.

## 1. Inventory

### Components

| component | code | state it keeps | operations | module |
|---|---|---|---|---|
| dispatcher | `etc/dispatch_parallel_sims` | list of decks, worker processes | glob, take a deck, run a simulator, join | `SimPool`, `SimBatch` |
| contest tool | `src/delay_calc_tool.cpp` | options, `circuitMgr`, the SPEF, `Benchmarks`; files | read, compute, write decks, run simulations, merge, score, write | `DelayCalcTool`, `Scoring` |
| contest scripts | `test/run_testsuite`, `test/runme.asu`, `test/runme.gen_testsuite` | the files of a testsuite | the sequence of programs | `ContestFlow` |
| net generator, nets | `src/gen_random_nets.cpp`, `src/RandomRCNet.hpp` | node, resistor, capacitor counters, the net's devices | one device after another | `RandomRCNet` |
| net generator, length | the same | length, attempts | build, compare with the limits, change the length | `NetLoad` |
| net generator, cells | `src/gen_random_nets.cpp`, `src/Cell*.cpp` | instance counter, receivers, limits, circuits | choose a driver, choose receivers, make a net and a circuit | `RandomNets` |
| Liberty reader | `src/liberty_reader.cpp`, `src/Cell*.cpp` | the cell library, the open groups | libraries, cells, pins, arcs, current vectors | `LibertyReader` |
| delay calculator (device under test) | `src-dut/delay_calculator.cpp` | the arc found, scan indices, four table entries | find the arc, range check, scans, reading, interpolation | `TableLookup`, `ArcLookup` |
| ranges of an arc's tables | `src/CellArc.cpp`, `src/CellPin.cpp`, `src/gen_random_nets.cpp` | ranges of slews, loads and pin capacitances | fold four tables into a range, draw from it, `find_arc` | `ArcLookup` |
| deck contents | `src/Circuit.cpp`, `src/AsuDriverWave.hpp`, `src/spice_lib_reader.cpp` | the deck, the power rail, the pin orders | rails, stimulus, instances, net, `.measure` statements, section by section | `SpiceDeck` |
| timing graph demo | `src/partition_timing_graph.cpp` | - | - | not modelled |
| helpers | `etc/ccs_test`, `etc/preprocess_nangate` | - | - | not modelled |
| Liberty parser, store | `src-liberty_parse-2.6/PI.c`, `libhash.c`, `liberty_parser.y` | groups, their lists and names, hash tables | push and pop groups, add, rename and delete, look up, quit | `LibertyHash`, `LibertyStore`, `NameTable` |
| Liberty parser, syntax | the other files of `src-liberty_parse-2.6` | - | generated lexers, parsers, checks and bindings | not modelled |
| other parsers | submodules of parser-spef and yaml-cpp | - | - | what they deliver only |

### How they interact

Only through files and exit statuses. `gen_random_nets` writes `$dataset.spef`
and then `$dataset.circuits.yaml`; both are joined by net names (`net_0`,
`net_1`, ...), which are the same in every testsuite. `delay_calc_tool
--dc_file` reads both and writes `$dataset.dc.circuits.yaml`; `--gen_spice_decks`
writes one deck per circuit into a directory; `--run_sims` calls `system()`
once per deck; `dispatch_parallel_sims` starts a shell per deck from several
workers. A simulator writes its result file beside the deck. `--merged_circuits`
reads the dc file and the result files and writes `$dataset.merged.circuits.yaml`.
Nobody looks at an exit status: not the scripts, not `system()`'s caller, not
the dispatcher.

### What is hard

* **Half-finished work.** Each program can stop (assertion, null pointer,
  parse error) between two files, and each output file is emptied before it is
  written. The next command of the script starts all the same.
* **Stale files.** Xyce leaves an old `.mt0` alone when it fails, the merge
  takes the dc file that happens to be there.
* **Concurrency.** The pool: who takes which deck, and what a simulator still
  writes when a later command reads.
* **Loops without a bound.** The length loop of a net; choosing cells at
  random until one fits.
* **Hand-advanced counters** across long stretches of code (devices of a net,
  instance numbers), and containers that outlive the loop that fills them.
* **Boundaries of numbers:** limits of tables, thresholds of the score, 0/0.
* **One thing decided twice:** the generator picks an arc and the calculator finds
  it again by name; stimulus, simulation time and `.measure` statements of a deck are
  written by functions that each work out the same unateness, thresholds and nodes.
* **Linked structures under change:** a hash bucket is in a chain and in a doubly
  linked list, in a table that grows while it is used; groups are deleted by an
  iterator over them.

Everything of this kind is listed with its line under "hazards" in
`PROJECT.json`, with the properties that would catch it.

### What makes each component correct

* dispatcher: every deck is simulated exactly once, and the batch ends.
* tool and scripts: every number in the merged file comes from the right
  circuit, the right deck and the present testsuite; the score is that of the
  numbers beside it; a suite is only written by its generator.
* nets: an RC tree from the driver to every receiver, devices numbered once,
  every wire counted once, no layer between spine and pin left out; and the search for a
  length that gives a load in the driver's window ends.
* circuits: distinct instances, an arc that exists, a load that is on the net.
* reader: the library in memory is what the file says, with nothing invented, or an error.
* lookup: an interpolation between the four entries around the point.
* tables of an arc: what is drawn from them is looked up inside them.
* decks: every event a measurement waits for happens, both halves of the stage are
  whole.
* store of the Liberty parser: a name stands for the first group that has it, and for
  none that is gone; quitting frees everything.
* score: closer is never worse, no failed measurement counts among those that did not fail.

## 2. Modules

**`SimBatch`** is what a batch of simulations promises: a set of decks, and one
step per deck that simulates it, in any order. **`SimPool`** is the script: `Glob`
(lines 34-38), `Take` (a worker of `Pool` gets the next deck), `RunSim`
(`subprocess.call` returns, whatever the status), `Join` (`pool.map` returns and
the script exits). `SimPool` implements `SimBatch`, where a deck is
left while it waits or is being simulated (`Left`).

**`DelayCalcTool`** is one invocation of the tool, one action per phase of
`main()` that touches a file, with the error exits and a `Crash` at any point.
Values are represented by their *provenance*: which circuits file and SPEF a
delay was computed from and when, which deck a measured value belongs to. What a
simulation leaves for a measure is nondeterministic: a number, a negative number,
`FAILED`, or nothing at all. **`ContestFlow`** EXTENDS it with the generator's
writes and the scripts' commands and `SimPool` for the dispatcher, whose decks are the
suite's circuits (`DecksAssumption`); a
script is a sequence of commands, with the directory (`opts.dir`) each call of the tool is
given: `runme.asu` and `runme.nangate` merge from the directory they fill,
`runme.gen_testsuite` fills another one than `run_testsuite` merges from
(`GenTestsuite("testsuite")`) unless the organisers hand theirs out under that name
(`GenTestsuite("organisers")`); and `NextRound` runs another (or the
contestant's part of it) on the files that are there.

**`RandomRCNet`** is `populate_pimodel_data` and `populate_net_data`: one action
per receiver (via down, wire, via up), spine segment and end of the net, with the
counters the code advances by hand and the set of devices they number.

**`NetLoad`** is the loop of `create_random_net`: build a net of the length asked
for, take its capacitance, compare it with the limits, halve the length or
multiply it by one and a half. Lengths are exact fractions over a power of two;
a net with several receivers is one with two, whose spine segments and whose receiver's
wire on a lower layer are drawn as in lines 331-400, including the sum of 0 that makes
them NaN. What a call asks for (length, layers, limits, one receiver or several) is chosen
from the constant `Requests`.

**`RandomNets`** is `create_random_nets` and `create_random_nets_stress`: choosing
a driver, an arc and receivers, numbering instances, the limits with the receivers'
pin capacitances taken off, the net and its circuit. `Stresses` says which of the two
functions a run begins in.

**`LibertyReader`** is the nest of loops of `read_liberty`, with the parser's
groups as sequences, the error returns, the asserts, and
`Cell::fixup_pins_in_arcs` at the end of each cell.

**`TableLookup`** is `lookup_table_value` statement by statement and the weights
of `BilinearInterpolation`; memory behind the table is the value `Outside`.

**`ArcLookup`** EXTENDS it with both ends of an arc's use. The generator's: the folds of
`CellArc` over four tables (`LargestMin`, `SmallestMax`), a slew drawn between them
(`PickDriver`), the pin capacitances of the receivers summed one by one
(`AddReceiver`), a load in the window that is left (`MakeNet`, which stands for all of
`NetLoad`: its `Accept` keeps a load in the window, or NaN, which is left out here), and the
intervals of the stress suite, where the circuit's input is drawn independently of the arc
whose axes are used (`GenerateStress`). A number is scaled, written with a few digits,
read and scaled back on its way to the calculator and may come out changed by up to
`Rounding` (`Read`). The calculator's: `find_arc` by the input's name (`FindArc`) and four
lookups, each of which is a run of `TableLookup`.

**`SpiceDeck`** is `write_spice_deck`, one action per section in the order of the
code, after `read_spice_lib`. A deck is a set of elements and a set of `.measure`
statements; a node is an instance and a pin. The properties read the deck as a simulator
does: they look for the source at a node, the levels it crosses before the
simulation ends, and the nodes that resistors join.

**`LibertyHash`** is `libhash.c`: a table is a record, every function an operator on
such records, with the buckets' links written out. **`LibertyStore`** owns such tables:
the parser's `push_group` and `pop_group`, the interface's calls on groups and
names, and the iterator of `si2drPIQuit`. **`NameTable`** is what a program may
rely on when it looks a group up: a name stands for one group until it is given up or
deleted, and no name of a deleted group is left. It is weaker than the interface's text,
which promises that a used name is refused (section 5). `LibertyStore`
implements it with `named <- found`, where `found` is what the hash tables find, key by key.

**`Scoring`** is `analyze_results`: per circuit skip, thresholds, outliers, then
the averages. Numbers are integers in a fixed unit, so that the thresholds
are exact; division by a golden 0 gives `Infinite`. What a suite should add up to is said a
second time without the loop (`Tally`): the circuits with a negative result taken out.

Modules named `...MC` give the constants, `..._proofs` hold the theorems (those about
`TableLookup` are in `ArcLookup_proofs` and those about `SimPool` in
`ContestFlow_proofs`, which need them, and those about `NetLoad` are in
`RandomRCNet_proofs`). A
definition marked `(variant)` is a plausible mistake in the definition after
it; it is not part of any specification and is used to see that a property
notices the mistake.

## 3. Runs

All runs finish within a minute or two. Deadlock checking is off everywhere since
every program here ends.

| run | question | bounds and why they are enough |
|---|---|---|
| `sim_pool` | Is each deck simulated once, does the batch return, does the pool implement `SimBatch`? | 4 decks, 2 workers: both workers take several decks and one waits for the other |
| `contest` | Where does each number in the merged file come from, and does a round end? | the scripts (the suite's generation with either directory, the whole flow with Xyce and with ngspice, the contestant's part of each), 2 circuits (one can succeed and one fail), 2 rounds (new after old files), 2 crashes anywhere and any number of failing simulations; one measure, because measures are read independently of each other. 280 000 states |
| `contest_stale` | Are the delays a run merges, scores and writes computed in that run? (no) | the whole flow and the contestant's part of it, Xyce; the second run's computation stops before it opens the dc file, and its merge reads the first run's |
| `rcnet` | Is the net a tree with everything counted once (but one via, section 5)? | up to 4 receivers, the program's own limit, on 3 layers |
| `net_load` | Does the length loop never swing, and does it end? | one receiver: from 1000 times too long to 100 times too short, with windows exactly a factor of 1.5 wide and wider. Several: the smallest and largest draws of each kind, which make nets of one length differ by a factor of up to 92, with windows just wide enough for that, just too narrow and far too narrow. 16 attempts (`MaxTries`) for one receiver and 9 (`MaxDraws`) for several are enough for every wide window |
| `random_nets` | Are instances, limits and circuits right? | both kinds of testsuite; two nets of up to two receivers, two nets for each of two stress drivers; cells with one and several inputs, without arcs, without tables, without an output |
| `random_nets_stress` | Is the load of a stress circuit on its net? (no) | the same |
| `arc_lookup` | Is what the generator draws looked up inside the tables, among the right four entries, and is the result between them? | all pairs of axes of 2 or 3 entries, a table with one entry, tables with four different axes, two arcs of two inputs and of one; up to two receivers with and without capacitance tables; every slew and load, so that points below, between, at and above entries occur, and a `Rounding` that carries points over a limit. 1.4 million states |
| `scoring` | Is the score monotone, are its parts consistent, do failed circuits count nowhere? | 2 circuits, failed, measured and mixed; golden, computed and rival values on both sides of every threshold |
| `liberty_reader` | Is the library what the file says, or an error, and does the reader end? | files with each pair of groups in a pin, doubled cells and pins, two libraries, failing checks |
| `spice_deck` | Do the measured events happen, is the stage whole? | drivers of both senses, with two arcs, not unate, and unknown to the SPICE library; one and two supplies; equal and different thresholds; both waveforms; a pi model and a tree with a second receiver |
| `liberty_store` | Do the hash tables stay consistent and find what has a name, and is everything freed? | files of up to three groups with equal, shared and missing names, then three calls (`MaxEdits`). Sizes of 1 and 3 and a threshold of 1 instead of 53, 2011, 3 and 8, and the primes 3 and 5 instead of 53 to 99529: so three names collide, and tables grow once and twice; a number whose residues make two keys share a chain at every size stands for a string's hash code |

Preconditions that deserve a word:

* `CleanRunIsWhole` speaks of runs in which nothing failed since the suite was
  generated (`clean`); runs in which something failed are covered by the
  properties that have no such condition.
* `CornersSurround` and `ConvexCombination` speak of points strictly below the upper
  limits of the axes, and `CornersSurround` of tables with as many slews as loads
  (`Square`), which is where the code is right; section 5 says what happens elsewhere.
* `GeneratedInRange` speaks of circuits whose arc is the one that is found again, the first
  of its input, and whose tables have slews in common: otherwise `find_arc` returns an arc
  the slew was not drawn for, or no slew fits all four tables. A number may be out of the
  tables by `Rounding`, and a load below them by the receivers' pins (section 5).
* `StressBelowLimits` speaks of cells whose arcs all have the same axes (`OneTableShape`):
  the input of a stress circuit need not be that of the arc the axes were taken from.
* `StackComplete` allows one via of a branch to be counted twice, that of the layer of the
  receiver's wire, which the code does (section 5).
* `LibraryIsFile` allows arcs to be missing behind a timing group without a related pin,
  which is where the code leaves the pin, and says nothing of the related pin of an arc
  whose cell does not have it.
* `FailedNotCounted` speaks of suites without a result from -1 ps up to 0, which the code
  counts although its comment says "any" negative (section 5).
* `MeasuresHappen` and `StageConnected` speak of cells the SPICE library has with the
  pins of the Liberty file, and of a driver whose supply is the last nonzero one
  (`Characterised`). Section 5 says what happens elsewhere.
* `NoSwing` and `LoopEnds` speak of windows that span a factor of 1.5, the step of the
  loop, more than the draws of one length differ by (`Wide`; with one receiver nothing is
  drawn). In narrower ones the loop can swing for ever.
* `FirstIsFound` speaks of stores from which nothing was deleted, as those of all
  programs of this repository are until they quit.

### Fairness

* `ContestFlow`: weak fairness of the shell's next command, of the generator's writes
  (`GenWrite`), of the tool's own steps and of the pool: the operating system runs every
  process, a csh script starts the next command when one has ended, and a simulator that
  was started ends (a transient analysis has an end time). There is none on crashes, on
  running a script again, and on the generator before it opens its first file: its loops
  at lines 587, 895 and 1003 need not end. So `RoundEnds` says that a round ends unless the
  generator stays in them for ever.
* `SimPool`: every worker that has a deck finishes it and an idle worker takes a
  waiting deck (`multiprocessing.Pool`).
* `NetLoad`, `LibertyReader`: a sequential loop goes on.

## 4. Proofs

| theorem | what it says |
|---|---|
| `PoolOneSimPerDeck`, `PoolNoDeckTwice` | the safety of the pool for all sets of decks and workers |
| `PoolImplementsBatch` | `SimPool`'s `PoolSpec` implies `SimBatch`'s `Spec` under the refinement mapping |
| `FlowPool` | the same safety of the pool as a part of the contest, where tool and generator run between its runs and scripts are run again |
| `FlowResultsBelongToDecks`, `FlowGoldenIsOnDisk`, `FlowScoreDescribesFile`, `FlowMergeKeepsComputed`, `FlowTypeCorrect` | where the numbers of the contest come from, for every number of circuits, measures, rounds, crashes and workers, and all scripts that write decks only into an emptied directory (`ScriptsAssumption`) |
| `FlowCleanRunIsWhole` | a round in which nothing failed ends with a merged file of this suite and this round, for the scripts of the repository (`ContestScripts`) |
| `NetIndicesUnique`, `NetDrivenOnce` | device numbers and the tree, for every number of receivers and layers |
| `NetWiresCounted`, `NetStackComplete`, `NetEveryReceiverReached` | the wires, the via stacks (no layer left out, none twice but that of the receiver's own wire) and the way from the driver to each receiver, likewise |
| `LoadNoSwing` | the length loop, for every length, layer, draw and wide window |
| `NetsTypeCorrect`, `NetsInstancesDistinct` | instance numbers, for every library, number of nets and receivers, and both kinds of testsuite |
| `NetsCircuitMatchesNet`, `NetsLimitAccountsForPins` | circuits fit their nets; the limit of the wires and the receivers' pins add up to the arc's limit (for drivers with one arc for each input, `OneArcPerInput`) |
| `LookupCornersSurround`, `LookupConvexCombination` | one table lookup, for all axes and points |
| `ArcGeneratedInRange`, `ArcStressBelowLimits`, `ArcCornersSurround`, `ArcConvexCombination` | what is generated is looked up inside the tables (for the first arc of an input and slews that overlap; in the stress suite for cells whose arcs share their axes), for every library, all receivers and every `Rounding` smaller than the tables' steps, and the four lookups of a circuit are right |
| `ReaderLibraryIsFile`, `ReaderCheckedBeforeStored` | the cell library has what the file gives, no more, and no less but behind a timing group without a related pin; and nothing of a file with a bad library is kept, for every file (`FilesAssumption`: groups are in sequences) |
| `DeckMeasuresHappen`, `DeckStageConnected` | what a finished deck says to the simulator, for every library, circuit, net and order of pins, and every exponential wave (`DeckAssumption`) |
| `ScoreCloserIsNoWorse`, `ScoreOutliersAreErrors`, `ScoreFailedNotCounted` | the score of every suite, failed and measured circuits mixed in any way |
| `TablesAreWellFormed` | the hash tables through any sequence of entering, growing and deleting, for every hash function, all sizes and thresholds |
| `FoundGroupsExist`, `FirstGroupIsFound`, `QuitLeavesNothing` | names stand for groups that exist and, while nothing is deleted, for the first of them; nothing is left after `si2drPIQuit`; for every file and every sequence of calls |
| `StoreImplementsNames` | `LibertyStore`'s `Spec` implies that of `NameTable` under the refinement mapping |

*Pool.* The inductive invariant says that the waiting decks, the decks of the
workers and the finished decks are disjoint and that two workers never hold the same
deck. `OneSimPerDeck` alone is not inductive: a worker could take a deck that is
still running. The theorems assume only that `Idle` is not a deck. In the contest
(`FlowPool`) the invariant is kept by all steps of the scripts: the dispatcher is only
started when no worker has a deck.

*Contest.* First `Typed`: types, and that the tool, the generator and the dispatcher
never run at the same time (`Alone`), because each property depends on files that two
of them touch. Then one invariant for each property, which says what holds before the moment
the property speaks of. `DecksInv`: from `empty` until the tool that writes decks
reaches its simulations there is no result file, so no deck is replaced beside
one; this is where the scripts matter. `GoldenInv`: the files the tool reads hold
no measured numbers (only the merged file does, and nothing reads it), so those
in memory were put there by the merge loop, circuit by circuit. `ComputedInv`: a
call that merges computes nothing. `ScoreInv`: nothing comes between the analysis and
the writing. `CleanInv` says what each command of the script has left for the next one:
after the generator the suite is made for the SPEF, after the decks each deck is,
after the computation the computed file is. It needs `Position` (which command runs)
and `Ordered` (the order of commands all scripts share, proved of each of them),
for a file may be old before the command that writes it and never after.

*Nets.* The invariant bounds every device's index by the counter it was drawn
from and every numbered node by the node counter, and says that the node the
next device will start from was reached before. Uniqueness and the tree follow
from the bounds, because each action only makes numbers above the counters. That every
receiver is reached takes an induction: the ends of the resistors below an index are
connected to the driver, since each starts at the driver or at the end of a smaller one.

*Length.* The load is the length times what was drawn. Once a net was too small the
length is multiplied by 3/2; a net below the lower limit has after that, however it is
drawn this time, a load below 3/2 times the spread of the draws of it, which a wide window
(`Wide`) holds to be below the upper limit. The invariant keeps the order of the two
phases, halving first and growing afterwards.

*Instances.* `InstancesDistinct` says nothing of the order in which numbers are made, so
it is not inductive. The invariant does: numbers grow along each net and from one
net to the next, and everything finished is below `Front`, which is the counter or,
while a net is open, its driver's number. It also says of the open net that its
receivers follow its driver and that the circuit's load is the first of them. The
theorems assume that the library is well formed (`LibraryAssumption`) and that the options
are in range (`OptionsAssumption`).

*Circuits.* Circuits and nets are appended by one step, so their sequences stay of one
length and the new pair is the only one to look at; the load is the first receiver
of the net, whose celltype was stored with its instance.

*Limits.* The limit is lowered receiver by receiver, the property adds up a finished net.
The sum is a function given by its equation; the proof shows that sums over nets that
agree are equal and that one more receiver adds one more term, by induction on the
number of receivers.

*Lookup.* While an axis is scanned, the entries passed are at most the point
(`Scanned`); a scan that has stopped has the point between two neighbours (`Bracketed`).
The entry read at an offset is then the one meant if rows have the length the code
takes (`Square`).

*Arc.* A folded range lies within the range of each of the four tables, and a draw
within the folded range; receivers only shrink the window of the load. The
calculator's tables are those the slew was drawn from where it finds the arc that was picked,
and in the stress suite where all arcs have one pair of axes; writing and reading moves a
point by less than the distance of two entries (`SpacingAssumption`), so that one drawn
below the last interval stays below the limit. `ArcCornersSurround` and `ArcConvexCombination` then carry the
theorems' invariant of `TableLookup` through four runs of it.

*Liberty reader.* Each loop has done with the groups before its iterator what the
property asks for all of them, and the loops are nested, so the invariant (`ReadInv`)
has a part for each depth: `AtLibrary`, `AtCell`, `AtPin`, `AtArc`, `AtVector`. A map holds
under each name what the last group with that name says (`IsLast`, `OneMore`), which is
why a pin or cell that is there twice is no special case. The arcs of a pin
are numbered by counting the timing groups up to the first without a related pin
(`Readable`, `Nth`), which are the first of those the file gives (`ReadableFirst`).
Related pins are looked up when all pins of the cell are in the map, a step
after the last of them (`FixedUp`). The second property needs only how far
the check has come (`CheckInv`).

*Decks.* Sections only add to a deck, so what one wrote is there when the deck is done
(`DeckInv`), and the properties that ask for a connection are kept when other devices are
added (`JoinedByMore`). The source at a pin is another matter: it must be the only one.
`DeckInv` therefore says that every source of the deck is one of a rail or one of the two
of the input, and `DeckAssumption` that no signal has the name of a supply. A crossing of the
wave is then a fact of numbers: the ramp has its levels at the rails, so every
threshold (a percentage, the lower one below the upper) lies between them
(`RampCrosses`); the exponential wave crosses a level between the last point below and the
first above (`FirstPastHalf`, `AsuCrosses`), which exist if its points go on in time and one
is past the half. The power rail is the last nonzero supply, found by the smallest number of
supplies that leaves no later one (`PowerRail`).

*Score.* The rival calculator is compared circuit by circuit: each circuit adds no more
to the closer one's error and outliers. Sums of the two over the circuits done so far
stay in that order. For `FailedNotCounted` the sums are those of a function over the
circuits done so far (`Tally`), which one more circuit extends by one equation.

*Store.* The proof starts at the links of a bucket. A sequence of buckets without
repetitions is the list that starts at a bucket if each links to the next (`IsList`), and
following the links returns that sequence (`LinkedIs`, by the equation of `Nodes`). Linking
a bucket pushes it in front of such a sequence, unlinking cuts it out, whichever of the
code's cases applies (`UnlinkChainFields`, `UnlinkAllFields`). The chains (`Chained`) and
the list of all buckets (`Listed`) use links of their own, so what changes the one keeps
the other; a resize forgets the chains and builds them again from the list of all buckets
(`MovedKeeps`). With one bucket for each key (`Keyed`) these make up `TableInv`, and from
there on a table is its `Contents`, a function from keys to groups: entering gives a key
that was free, deleting forgets one, growing changes nothing (`EnterKeeps`, `DeleteKeeps`,
`GrowKeeps`).

The invariant of the store (`StoreInv`) says that lists and tables agree with the
owners and names of the groups. `FoundIsNamed` is not inductive without it: a deletion
removes the keys a group has by its own names, so these have to be all the keys that stand for
it. `Rooted` says that every set of groups has a member owned from outside, that is, no group
owns itself; without it the deletion of a group could take its owner. For
`QuitFreesAll` the iterator is where the list begins whenever a group is about to be deleted.
The assumption is that there is a bucket for every key (allocation does not fail);
nothing is assumed of the hash codes. `Init` and every action map to
`NameTable`: creation, adding and deleting a name, and deletion of a group with what it
owns, after which no name of a group that is gone is found (`FoundIsNamed` of the next
state).

Induction over numbers is done with sets: the library's induction theorems take an operator
as a parameter, which the provers cannot instantiate, so lemmas (`Induction` in
`RandomNets_proofs`, `SmallestNumber` in `ArcLookup_proofs`) say that a set of numbers
that holds 0 and every successor holds all of them, from the well-foundedness of `<`.

Only model-checked: all liveness (`BatchReturns`, `RoundEnds`, `LoopEnds`,
`ReaderEnds`), since the proof system has no rule for fairness here. Every other property
of the passing runs is a theorem.

## 5. What the models found

Two runs end in a counterexample; `PROJECT.json` quotes the text the code
disagrees with.

| run | at | the code |
|---|---|---|
| `contest_stale` | `test/run_testsuite:41` | the second run's delay calculation stops, its merge reads the first run's dc file, scores those delays and writes them |
| `random_nets_stress` | `src/gen_random_nets.cpp:754` | connects later stress nets to the first net's receiver |

Other disagreements met while reading and modelling. The modules follow the code
in each of them, and no run is spent on them.

Generator and tool:

* `src/gen_random_nets.cpp:398` counts the via of the receiver's layer in both stacks,
  against `src/RandomRCNet.hpp:89`; `StackComplete` excepts this one via.
* `src/gen_random_nets.cpp:343` divides by a sum of random lengths that may be 0; a net whose
  wires are NaN long passes the comparisons of line 586 and is kept.
* `src/gen_random_nets.cpp:587`: with several receivers each net is drawn anew; in a window
  that spans less than 1.5 times what the draws differ by, the loop can swing or miss
  the window for ever.
* `src/gen_random_nets.cpp:750` draws the input of a stress circuit independently of the arc
  of line 751; with arcs of different axes the point is looked up in other tables.
* `src/gen_random_nets.cpp:1200`: stopped between its two files, the generator leaves new nets
  beside old circuits of the same names, and nothing later can tell.
* `src/gen_random_nets.cpp:351` does not give the first receiver half of the length, as
  `src/RandomRCNet.hpp:176` says.
* `src/gen_random_nets.cpp:901` asks a cell without an output pin for an arc.
* `src/gen_random_nets.cpp:1003` starts the length loop even if the receivers' pins have used
  up the window; no length fits and the loop does not end. The lower limit of the wires
  is lowered by the pins as well, but the calculator does not add them back: a load
  below the tables can be drawn.
* `src/CellPin.cpp:39`: `find_arc` returns the first arc of an input, which need not be the
  one the slew was drawn for.
* `src-dut/delay_calculator.cpp:56` lets a point at an axis' upper limit pass, and
  the scan then stops behind the axis: an entry behind the table is read.
* `src-dut/delay_calculator.cpp:102` uses the number of slews as the length of a row,
  which is right for square tables only.
* `src/delay_calc_tool.cpp:92` skips golden values below -1.0 ps; the comment at line 85 says
  any negative one.
* `src/delay_calc_tool.cpp:107` divides by a golden 0, which is what a failed line or a
  missing file leaves: one such circuit makes the score infinite.
* `src/liberty_reader.cpp:499` leaves the pin where the message of line 498 says that this
  arc is skipped: the pin's later arcs are lost.
* `src/liberty_reader.cpp:662` ignores that `fixup_pins_in_arcs` failed: an arc whose related
  pin the cell does not have keeps an uninitialised pointer (`src/Cell.cpp:51`).
* `README.md:153` names an option `--merge_circuits`, the program has
  `merged_circuits` (`src/delay_calc_tool.cpp:243`).
* `test/runme.gen_testsuite` and `test/run_testsuite` use different names for the
  directory of the decks: unless it is renamed by hand, the merge finds no result file
  and every golden value stays 0 (`GenTestsuite("testsuite")`).

Decks (`src/Circuit.cpp`, `src/spice_lib_reader.cpp`):

* The falling input's ramp is scaled by the thresholds of rising ones: with unequal ones its
  slew is not the one asked for. No property is about the slew of a ramp.
* The last nonzero supply, in the order of the map, is the power rail (line 194).
* Of a net with several receivers only the measured one is instantiated, and inputs
  other than the driver's switching one float; capacitors of the net end at `VSS` whatever
  the ground's name is.
* The result of `read_spice_lib` is ignored, and continuation lines of a `.SUBCKT` are not
  read: a cell is then instantiated with too few pins.

Liberty parser (`src-liberty_parse-2.6`):

* `pi_uhu.txt:76` and `:1142` promise `SI2DR_OBJECT_ALREADY_EXISTS` for a second group of
  a name; `PI.c:577` looks the bare name up where `type||||name` was entered, and
  `PI.c:2200` looks in another table. Neither refuses anything, nor does the check at
  `liberty_parser.y:452`.
* Deleting a group removes the hash entry of its name, which can be that of another
  group with the same name: that one is no longer found.
* Moving a group (`si2drGroupMoveAfter`, `PI.c:5380`) does not update the pointer to
  the last group.
* A table whose template is not found gets no dimensions; a `scalar` table has one index
  where the calculator reads two; `liberty_get_element` accepts an index equal to the
  size of a dimension.

## 6. What is not modelled

* A dispatcher that is killed: its workers would be orphaned, but nothing in the
  repository kills it.
* The text of decks and of the other files, options and their parsing, memory
  and time statistics, the artificial load of the example calculator.
* `PiModel` and the formula of `AsuDriverWave`: real functions without state.
  Resistances and capacitances in physical units, technologies' layer tables.
* `partition_timing_graph`: a demonstration of other libraries; shares no file
  with the rest, and the call that would partition the graph is commented out.
  `etc/ccs_test`, `etc/preprocess_nangate`: stand-alone helpers.
* Of the Liberty parser: attributes, defines, expressions, moving groups, reading and
  writing of files, and the reading of table values. Of its syntax nothing: the lexers and
  parsers are output of flex and bison, the checks and declarations are generated from
  a description of the language, and the binding is output of SWIG. That generated code
  is most of the repository's C: about 45 000 of 66 000 lines, among them no step that
  two actors, two calls or a crash could interleave. The parsers of SPEF and YAML are
  submodules whose code is not here; they appear as what they deliver.

## 7. Plan

Done, in this order: `SimPool` with its abstraction and proofs; `DelayCalcTool`
and `ContestFlow`; `RandomRCNet` and `NetLoad` with proofs; `RandomNets` with proofs;
`TableLookup`, `Scoring`, `LibertyReader`; then `ArcLookup`, which composes the generator's
ranges with the calculator's lookups, `SpiceDeck`, and the Liberty parser's store
(`LibertyHash`, `LibertyStore` and its abstraction `NameTable`); proofs for circuits and limits,
lookups, arcs, the score, the contest and the Liberty reader, then for decks and the
store.

What could follow:

1. Attributes and moves in `LibertyStore` (`PI.c` 652-780 and 5380-5525), with the order
   of a group's lists as the property.
2. The Liberty reader's units and tables, composed with what the store delivers.
