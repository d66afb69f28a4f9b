----------------------------- MODULE RandomNets -----------------------------
(***************************************************************************)
(* gen_random_nets: which cells become the driver and the receivers of     *)
(* each net (create_random_nets and create_random_nets_stress), and the    *)
(* two things that are made of them, the net in all_nets and the circuit   *)
(* in cktmgr.  delay_calc_tool later joins the two by name: the circuit    *)
(* names the arc to compute and the pins to measure, the net lists the     *)
(* pins its wires reach.                                                   *)
(*                                                                         *)
(* A pin of an instance is a pair <<inst_num, pin>>.  Capacitances are     *)
(* integers in fF; how the wires are drawn is module RandomRCNet, how      *)
(* their length is found module NetLoad.                                   *)
(***************************************************************************)
EXTENDS Integers, Sequences

CONSTANTS Library,       \* cells of the Liberty file: name -> [out, ins, arcs]
          NoPin,         \* nullptr: a cell without an output pin
          Stresses,      \* values of option --stress: FALSE, TRUE or both
          NumNets,       \* option --number; stress: nets for each driver cell
          MaxReceivers,  \* max_num_receivers, 4 in main
          PiModels,      \* option --pimodels
          StressDrivers, \* driver_cells of the stress test, in order
          StressReceiver \* its receiver cell

\* The pins of a cell are distinct, an arc of the output pin starts at an input
\* (Cell::fixup_pins_in_arcs); "tables" says that it has all four NLDM tables.
ASSUME LibraryAssumption ==
    \A c \in DOMAIN Library :
        /\ c \in STRING /\ Library[c].out \in STRING \cup {NoPin}
        /\ Library[c].ins \subseteq STRING /\ Library[c].out \notin Library[c].ins
        /\ \A a \in Library[c].arcs :
              /\ a.related \in Library[c].ins /\ a.tables \in BOOLEAN
              /\ {a.min_load, a.max_load, a.min_cap, a.max_cap} \subseteq Nat
        /\ Library[c].out = NoPin => Library[c].arcs = {}

ASSUME OptionsAssumption ==
    /\ NumNets \in Nat /\ (TRUE \in Stresses => NumNets > 0) /\ MaxReceivers \in Nat \ {0}
    /\ StressDrivers \in Seq(STRING)
    /\ Stresses \subseteq BOOLEAN /\ PiModels \in BOOLEAN

Cells == DOMAIN Library
NoInst == [cell |-> "", inst |-> 0, in |-> "", out |-> ""]

VARIABLES stress,       \* option --stress
          pc,           \* "driver", "receivers", "net", "done", "aborted" or "crashed"
          inst_num,
          driver,       \* the cell chosen: [cell, inst, in, out]
          receivers,    \* receivers and receivers_celltypes
          load,         \* receiver_input_output_str, "" is NoInst
          num_receivers,  \* stress: nets made for this driver
          largest_min_load, smallest_max_load,
          cap_range,    \* the summed min and max pin capacitances
          nets,         \* all_nets: [driver |-> pin, receiver |-> seq of pins], in order
          cktmgr,       \* [driver, driver_celltype, load, load_celltype], in order
          d             \* stress: index of the driver cell

vars == <<pc, inst_num, driver, receivers, load, num_receivers, largest_min_load,
          smallest_max_load, cap_range, nets, cktmgr, d, stress>>
limits == <<largest_min_load, smallest_max_load, cap_range>>
output == <<nets, cktmgr>>

Init ==
    /\ stress \in Stresses
    /\ pc = "driver" /\ inst_num = 1
    /\ driver = NoInst /\ receivers = <<>> /\ load = NoInst /\ num_receivers = 0
    /\ largest_min_load = 0 /\ smallest_max_load = 0 /\ cap_range = <<0, 0>>
    /\ nets = <<>> /\ cktmgr = <<>> /\ d = 1

\* A member function called through nullptr.
Crash == pc' = "crashed" /\ UNCHANGED <<inst_num, driver, receivers, load,
                                        num_receivers, limits, output, d, stress>>

Instance(c, in) == [cell |-> c, inst |-> inst_num, in |-> in, out |-> Library[c].out]

\* Every instance takes a number.
CountInstance == inst_num' = inst_num + 1

ArcInput(c, a, in) == in = a.related

\* rand() % max_num_receivers + 1, and 1 with --pimodels
ReceiverCounts == 1..(IF PiModels THEN 1 ELSE MaxReceivers)

KeepCaps == UNCHANGED cap_range                         \* (variant)
\* The sums start over with each net.
StartCaps == cap_range' = <<0, 0>>

(***************************************************************************)
(* create_random_nets.  A cell without an arc to its output is passed over *)
(* (that step changes nothing and is left out); a cell without an output   *)
(* pin has no pin to be asked for its arcs.                                *)
(***************************************************************************)
PickDriver ==
    /\ ~stress /\ pc = "driver" /\ Len(nets) < NumNets
    /\ \E c \in Cells :
          IF Library[c].out = NoPin
          THEN Crash
          ELSE \E a \in Library[c].arcs, in \in Library[c].ins :
                  /\ ArcInput(c, a, in)
                  /\ IF ~a.tables THEN Crash ELSE
                     /\ driver' = Instance(c, in)
                     /\ CountInstance
                     /\ largest_min_load' = a.min_load
                     /\ smallest_max_load' = a.max_load
                     /\ num_receivers' \in ReceiverCounts
                     /\ receivers' = <<>> /\ load' = NoInst
                     /\ StartCaps
                     /\ pc' = "receivers"
                     /\ UNCHANGED <<output, d, stress>>

LoadIsLast(r) == load' = r                              \* (variant)
\* The circuit's load is the receiver picked first.
LoadIsFirst(r) == load' = IF load = NoInst THEN r ELSE load

PickReceiver ==
    /\ pc = "receivers" /\ Len(receivers) < num_receivers
    /\ \E c \in Cells :
          IF Library[c].out = NoPin
          THEN Crash
          ELSE \E a \in Library[c].arcs :
                  LET r == Instance(c, a.related) IN
                  IF load = NoInst /\ ~a.tables THEN Crash ELSE
                  /\ receivers' = Append(receivers, r)
                  /\ CountInstance
                  /\ LoadIsFirst(r)
                  /\ cap_range' = <<cap_range[1] + a.min_cap, cap_range[2] + a.max_cap>>
                  /\ UNCHANGED <<pc, driver, num_receivers, largest_min_load,
                                 smallest_max_load, output, d, stress>>

\* assert(smallest_max_load > 0.0)
RoomForWires == smallest_max_load - cap_range[2] > 0

ReduceLoad ==
    /\ pc = "receivers" /\ Len(receivers) = num_receivers
    /\ smallest_max_load' = smallest_max_load - cap_range[2]
    /\ largest_min_load' = largest_min_load - cap_range[1]
    /\ pc' = IF RoomForWires THEN "net" ELSE "aborted"
    /\ UNCHANGED <<inst_num, driver, receivers, load, num_receivers, cap_range, output, d, stress>>

Pins(rs) == [k \in DOMAIN rs |-> <<rs[k].inst, rs[k].in>>]

\* The net and the circuit, from what was picked.  The celltype of the load is
\* that of the first receiver.
AddNet(drv, rs, ld) ==
    /\ nets' = Append(nets, [driver |-> <<drv.inst, drv.out>>, receivers |-> Pins(rs)])
    /\ cktmgr' = Append(cktmgr, [driver |-> drv, driver_celltype |-> drv.cell,
                                 load |-> ld, load_celltype |-> rs[1].cell])

MakeNet ==
    /\ ~stress /\ pc = "net"
    /\ AddNet(driver, receivers, load)
    /\ pc' = "driver"
    /\ UNCHANGED <<inst_num, driver, receivers, load, num_receivers, limits, d, stress>>

-----------------------------------------------------------------------------
(* create_random_nets_stress: a fixed list of driver cells, one receiver     *)
(* cell, and NumNets nets for each driver (num_nets for each interval of its *)
(* table's slews and loads).  The receiver vectors belong to the driver: they *)
(* keep the receivers of its earlier nets, and a net takes receivers[0].     *)

\* What get_random_arc, get_slew_values and get_name need of the two cells.
StressCellsUsable ==
    /\ {StressDrivers[d], StressReceiver} \subseteq Cells
    /\ Library[StressDrivers[d]].arcs # {}
    /\ Library[StressReceiver].out # NoPin
    /\ Library[StressReceiver].ins # {}

PickStressDriver ==
    /\ stress /\ pc = "driver" /\ d <= Len(StressDrivers)
    /\ IF StressCellsUsable
       THEN \E in \in Library[StressDrivers[d]].ins, rin \in Library[StressReceiver].ins :
              /\ driver' = Instance(StressDrivers[d], in)
              /\ load' = Instance(StressReceiver, rin)
              /\ receivers' = <<>>
              /\ num_receivers' = 0
              /\ pc' = "net"
              /\ UNCHANGED <<inst_num, limits, output, d, stress>>
       ELSE Crash

AddStressNet == AddNet(driver', <<receivers'[1]>>, load')

CountOneOfTwo == inst_num' = inst_num + 1               \* (variant)
CountBoth == inst_num' = inst_num + 2

MakeStressNet ==
    /\ stress /\ pc = "net" /\ num_receivers < NumNets
    /\ driver' = [driver EXCEPT !.inst = inst_num]
    /\ load' = [load EXCEPT !.inst = inst_num + 1]
    /\ receivers' = Append(receivers, load')
    /\ AddStressNet
    /\ CountBoth
    /\ num_receivers' = num_receivers + 1
    /\ UNCHANGED <<pc, limits, d, stress>>

NextStressDriver ==
    /\ stress /\ pc = "net" /\ num_receivers = NumNets
    /\ d' = d + 1
    /\ pc' = "driver"
    /\ UNCHANGED <<inst_num, driver, receivers, load, num_receivers, limits, output, stress>>

Finish ==
    /\ pc = "driver"
    /\ IF stress THEN d > Len(StressDrivers) ELSE Len(nets) = NumNets
    /\ pc' = "done"
    /\ UNCHANGED <<inst_num, driver, receivers, load, num_receivers, limits, output, d, stress>>

Next ==
    \/ PickDriver \/ PickReceiver \/ ReduceLoad \/ MakeNet
    \/ PickStressDriver \/ MakeStressNet \/ NextStressDriver
    \/ Finish

Spec == Init /\ [][Next]_vars

-----------------------------------------------------------------------------
InstancePin == [cell : Cells, inst : Nat, in : STRING, out : STRING \cup {NoPin}]
Pin == Nat \X (STRING \cup {NoPin})
Net == [driver : Pin, receivers : Seq(Pin)]
Circuit == [driver : InstancePin, driver_celltype : Cells,
            load : InstancePin, load_celltype : Cells]

TypeOK ==
    /\ stress \in BOOLEAN
    /\ pc \in {"driver", "receivers", "net", "done", "aborted", "crashed"}
    /\ inst_num \in Nat \ {0} /\ d \in Nat \ {0} /\ num_receivers \in Nat
    /\ pc = "receivers" => num_receivers \in 1..MaxReceivers
    /\ driver \in InstancePin \cup {NoInst} /\ load \in InstancePin \cup {NoInst}
    /\ receivers \in Seq(InstancePin)
    /\ largest_min_load \in Int /\ smallest_max_load \in Int
    /\ cap_range \in Nat \X Nat
    /\ nets \in Seq(Net)
    /\ cktmgr \in Seq(Circuit)

\* The instance at a place of a net: 0 is the driver, k the k-th receiver.
InstOf(n, k) == IF k = 0 THEN n.driver[1] ELSE n.receivers[k][1]
Places(n) == 0..Len(n.receivers)

\* No instance is used twice, in one net or in two, whichever of the counter's
\* four increments made its number, and no two circuits name the same instance.
\* (The nets of the stress suite do share receivers; see StressLoadMatchesNet.)
InstancesDistinct ==
    /\ ~stress => \A i, j \in DOMAIN nets :
          \A k \in Places(nets[i]), l \in Places(nets[j]) :
              InstOf(nets[i], k) = InstOf(nets[j], l) => i = j /\ k = l
    /\ \A i, j \in DOMAIN cktmgr :
          /\ cktmgr[i].driver.inst # cktmgr[j].load.inst
          /\ i # j => /\ cktmgr[i].driver.inst # cktmgr[j].driver.inst
                      /\ cktmgr[i].load.inst # cktmgr[j].load.inst

LoadReached(i) == nets[i].receivers[1] = <<cktmgr[i].load.inst, cktmgr[i].load.in>>

\* The circuit and its net, which are made from different variables and joined by
\* name, have the same driver and load, each of the celltype that goes with it.
\* (The deck connects the load to the pin, so that a load the net does not reach
\* is not driven.)
CircuitMatchesNet ==
    \A i \in DOMAIN cktmgr :
        /\ nets[i].driver = <<cktmgr[i].driver.inst, cktmgr[i].driver.out>>
        /\ cktmgr[i].load_celltype = cktmgr[i].load.cell
        /\ ~stress => LoadReached(i)

\* gen_random_nets.cpp:850: "load (first receiver)": the load of a circuit of the
\* stress suite is the first receiver of its net.
StressLoadMatchesNet == stress => \A i \in DOMAIN cktmgr : LoadReached(i)

ArcOf(p) == CHOOSE a \in Library[p.cell].arcs : a.related = p.in
MaxCaps[k \in 0..MaxReceivers] ==
    IF k = 0 THEN 0 ELSE MaxCaps[k - 1] + ArcOf(receivers[k]).max_cap

\* The wires' limit and the receivers' pins together are what the driver's arc
\* is characterised for, and something is left for the wires.
LimitAccountsForPins ==
    pc = "net" /\ ~stress =>
        /\ smallest_max_load > 0
        /\ smallest_max_load + MaxCaps[num_receivers] = ArcOf(driver).max_load
=============================================================================
