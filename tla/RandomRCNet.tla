---------------------------- MODULE RandomRCNet ----------------------------
(***************************************************************************)
(* gen_random_nets: how RandomRCNet builds the resistors and capacitors of *)
(* one net, receiver after receiver, and which connections dump_spef_dnet  *)
(* lists.  A resistor keeps the layers it stands for: a via resistor the   *)
(* layers whose via it crosses, a wire the layer it lies on.  A capacitor  *)
(* keeps the wire (by the index of its resistor) whose capacitance it      *)
(* carries and how many halves of it.  Ohms and farads are left out;       *)
(* module NetLoad has the lengths and the loads.                           *)
(*                                                                         *)
(* gen_random_nets asks for layers 1 to 14 of a technology with 16, so the *)
(* early returns of the populate functions are not taken.                  *)
(***************************************************************************)
EXTENDS Naturals, FiniteSets

CONSTANTS MaxReceivers,   \* receivers of a net (4 in main)
          MaxLayer        \* top layer of a net (14 in main)

ASSUME ReceiversAssumption == MaxReceivers \in Nat \ {0}
ASSUME LayerAssumption == MaxLayer \in Nat \ {0}

Gnd      == <<"gnd", 0>>
Drv      == <<"drv", 0>>
Inner(k) == <<"inner", k>>       \* node <net>:<k>
Rcv(k)   == <<"rcv", k>>         \* receivers[k], an instance pin

Node == {"gnd", "drv", "inner", "rcv"} \X Nat

Resistor  == [index : Nat, kind : {"via", "wire"}, n1 : Node, n2 : Node, layers : SUBSET Nat]
Capacitor == [index : Nat, node : Node, wire : Nat, halves : {1, 2}]

Via(x, a, b, layers)  == [index |-> x, kind |-> "via", n1 |-> a, n2 |-> b, layers |-> layers]
Wire(x, a, b, layers) == [index |-> x, kind |-> "wire", n1 |-> a, n2 |-> b, layers |-> layers]
Cap(x, a, w, h)       == [index |-> x, node |-> a, wire |-> w, halves |-> h]

VARIABLES pc,            \* "start", "spine" or "built"
          pimodel,       \* option --pimodels
          n,             \* number of receivers
          layer,         \* max_layer_index
          res,           \* all_rc_devices_ of types 1 and 2
          cap,           \* all_rc_devices_ of type 3
          types,         \* all_node_types_: 0 ground, 1 driver, 2 receiver, 3 internal
          node_count, r_device_count, c_device_count, last_spine_node, i

vars == <<pc, pimodel, n, layer, res, cap, types,
          node_count, r_device_count, c_device_count, last_spine_node, i>>

counters == <<node_count, r_device_count, c_device_count, last_spine_node, i>>
request  == <<pimodel, n, layer>>

\* get_via_stack_res(from - 1, to): the layers whose via it adds up.
Stack(from, to) == from..to

\* std::map::insert keeps the entry that is there.
Insert(t, new) ==
    [x \in DOMAIN t \cup DOMAIN new |-> IF x \in DOMAIN t THEN t[x] ELSE new[x]]

Internal(S) == [x \in {Inner(k) : k \in S} |-> 3]
Ends        == [x \in {Gnd, Drv} |-> IF x = Gnd THEN 0 ELSE 1]
Receiver(k) == [x \in {Rcv(k)} |-> 2]

Init ==
    /\ pc = "start"
    /\ n \in 1..MaxReceivers
    /\ pimodel \in BOOLEAN
    /\ pimodel => n = 1
    /\ layer \in 1..MaxLayer
    /\ res = {} /\ cap = {}
    /\ types = [x \in {} |-> 0]
    /\ node_count = 0 /\ r_device_count = 0 /\ c_device_count = 0
    /\ last_spine_node = 0 /\ i = 0

\* populate_pimodel_data, and populate_pimodel_data_scaled, which differs in
\* the values only.  The one resistor has index 2.
PiModel ==
    /\ pc = "start" /\ pimodel
    /\ res' = {Wire(2, Drv, Rcv(0), Stack(0, layer))}
    /\ cap' = {Cap(1, Drv, 2, 1), Cap(2, Rcv(0), 2, 1)}
    /\ types' = Insert(Ends, Receiver(0))
    /\ pc' = "built"
    /\ UNCHANGED <<request, counters>>

\* populate_net_data with one receiver.
OneReceiver ==
    /\ pc = "start" /\ ~pimodel /\ n = 1
    /\ res' = {Via(1, Drv, Inner(1), Stack(0, layer)),
               Wire(2, Inner(1), Inner(2), {layer}),
               Via(3, Inner(2), Rcv(0), Stack(0, layer))}
    /\ cap' = {Cap(1, Inner(1), 2, 1), Cap(2, Inner(2), 2, 1)}
    /\ types' = Insert(Insert(Ends, Internal({1, 2})), Receiver(0))
    /\ pc' = "built"
    /\ UNCHANGED <<request, counters>>

\* populate_net_data with several: the driver's via.
DriverVia ==
    /\ pc = "start" /\ n > 1
    /\ res' = {Via(1, Drv, Inner(1), Stack(0, layer))}
    /\ types' = Insert(Ends, Internal({1}))
    /\ node_count' = 1
    /\ r_device_count' = 2
    /\ c_device_count' = 1
    /\ last_spine_node' = 1
    /\ i' = 1
    /\ pc' = "spine"
    /\ UNCHANGED <<request, cap>>

MoreReceivers == i < n

CountSameIndex == node_count' = node_count + 3 /\ r_device_count' = r_device_count + 3
CountSameNode  == node_count' = node_count + 2 /\ r_device_count' = r_device_count + 4
\* One pass of the loop makes three nodes, four resistors and three capacitors.
\* (The two variants above forget one of them.)
Count ==
    /\ node_count' = node_count + 3
    /\ r_device_count' = r_device_count + 4

\* The node the next segment of the spine starts from.
SpineNode == node_count + 1

\* The receiver on a lower layer: a via down from the spine, a wire, and a via
\* to the pin.  Both vias cross the layer of the wire.  (Variants: no via between
\* neighbouring layers; the via down from the spine that of the driver.)
DropWithoutVia(r, far, rcv_layer) ==
    {Via(r, Inner(far), Inner(far + 1), Stack(rcv_layer, layer)) : x \in rcv_layer..(layer - 2)}
      \cup {Wire(r + 1, Inner(far + 1), Inner(far + 2), {rcv_layer}),
            Via(r + 2, Inner(far + 2), Rcv(i), Stack(0, rcv_layer))}
DropWholeVia(r, far, rcv_layer) ==
    {Via(r, Inner(far), Inner(far + 1), Stack(0, layer)),
     Wire(r + 1, Inner(far + 1), Inner(far + 2), {rcv_layer}),
     Via(r + 2, Inner(far + 2), Rcv(i), Stack(0, rcv_layer))}
Drop(r, far, rcv_layer) ==
    {Via(r, Inner(far), Inner(far + 1), Stack(rcv_layer, layer)),
     Wire(r + 1, Inner(far + 1), Inner(far + 2), {rcv_layer}),
     Via(r + 2, Inner(far + 2), Rcv(i), Stack(0, rcv_layer))}

\* A segment of the spine, and at its far end receivers[i] on a lower layer.
AddReceiver(rcv_layer) ==
    LET r == r_device_count
        c == c_device_count
        far == node_count + 1
    IN
    /\ pc = "spine" /\ MoreReceivers
    /\ res' = res \cup {Wire(r, Inner(last_spine_node), Inner(far), {layer})}
                  \cup Drop(r + 1, far, rcv_layer)
    /\ cap' = cap \cup {Cap(c, Inner(far), r, 2), Cap(c + 1, Inner(far + 1), r + 2, 1),
                        Cap(c + 2, Inner(far + 2), r + 2, 1)}
    /\ types' = Insert(Insert(types, Internal(far..(far + 2))), Receiver(i))
    /\ Count
    /\ c_device_count' = c + 3
    /\ last_spine_node' = SpineNode
    /\ i' = i + 1
    /\ UNCHANGED <<pc, request>>

\* The last segment ends at receivers[0].
LastCapHalf(r, far) == Cap(c_device_count, Inner(far), r, 1)      \* (variant)
LastCap(r, far) == Cap(c_device_count, Inner(far), r, 2)

LastTypes(far) == Insert(Insert(types, Internal({far})), Receiver(0))

LastSegment ==
    LET r == r_device_count
        far == node_count + 1
    IN
    /\ pc = "spine" /\ i = n
    /\ res' = res \cup {Wire(r, Inner(last_spine_node), Inner(far), {layer}),
                        Via(r + 1, Inner(far), Rcv(0), Stack(0, layer))}
    /\ cap' = cap \cup {LastCap(r, far)}
    /\ types' = LastTypes(far)
    /\ node_count' = node_count + 2
    /\ r_device_count' = r + 2
    /\ c_device_count' = c_device_count + 1
    /\ pc' = "built"
    /\ UNCHANGED <<request, last_spine_node, i>>

Next == \/ PiModel \/ OneReceiver \/ DriverVia \/ LastSegment
        \/ \E rcv_layer \in 0..(layer - 1) : AddReceiver(rcv_layer)

Spec == Init /\ [][Next]_vars

-----------------------------------------------------------------------------
TypeOK ==
    /\ pc \in {"start", "spine", "built"}
    /\ pimodel \in BOOLEAN /\ n \in 1..MaxReceivers /\ layer \in 1..MaxLayer
    /\ res \subseteq Resistor
    /\ cap \subseteq Capacitor
    /\ DOMAIN types \subseteq Node
    /\ \A x \in DOMAIN types : types[x] \in 0..3
    /\ node_count \in Nat /\ r_device_count \in Nat /\ c_device_count \in Nat
    /\ last_spine_node \in Nat /\ i \in 0..MaxReceivers

\* The index is "some unique index for this device" (RandomRCNet.hpp:167): the
\* SPEF sections *RES and *CAP name no two devices alike.
IndicesUnique ==
    /\ \A p, q \in res : p.index = q.index => p = q
    /\ \A p, q \in cap : p.index = q.index => p = q

\* No node is driven twice and none is its own source: two resistors never end
\* in the same node, none ends in the driver or the ground, and the node a
\* resistor starts from is the driver or the end of an earlier resistor.
DrivenOnce ==
    /\ \A p, q \in res : p.n2 = q.n2 => p = q
    /\ \A p \in res : /\ p.n2 \notin {Drv, Gnd}
                      /\ \/ p.n1 = Drv
                         \/ \E q \in res : q.n2 = p.n1 /\ q.index < p.index

\* The nodes a current from the driver reaches through at most k resistors.
ReachedIn ==
    LET f[k \in 0..Cardinality(res)] ==
            IF k = 0 THEN {Drv}
            ELSE LET S == f[k - 1] IN S \cup {p.n2 : p \in {q \in res : q.n1 \in S}}
    IN  f
Reached == ReachedIn[Cardinality(res)]

\* The net that is written connects the driver with every receiver, and every
\* node that carries a capacitor with both (populate_net_data).
EveryReceiverReached ==
    /\ {p.node : p \in cap} \subseteq Reached
    /\ pc = "built" => {Rcv(k) : k \in 0..(n - 1)} \subseteq Reached

\* The capacitance of every wire is in the net once, on the wire's own ends:
\* whole on its far end, or half on each (get_total_cap counts what is there).
WiresCounted ==
    \A w \in {p \in res : p.kind = "wire"} :
        LET own == {c \in cap : c.wire = w.index} IN
        \/ \E c \in own : own = {c} /\ c.halves = 2 /\ c.node = w.n2
        \/ \E c, d \in own : /\ own = {c, d} /\ c.halves = 1 /\ d.halves = 1
                             /\ c.node = w.n1 /\ d.node = w.n2

\* Between the spine and a receiver's pin, on a via, a wire and a via, no layer's
\* via is left out and none is counted twice, but for the wire's own: a stack
\* between two layers takes only the vias above the lower one
\* (RandomRCNet.hpp:88-93), and the index one below the wire's
\* (gen_random_nets.cpp:398) takes the wire's as well, which the via to the pin
\* takes too.
StackComplete ==
    pc = "built" /\ n > 1 =>
        \A k \in 1..(n - 1) :
            \E down, wire, up \in res :
                /\ down.kind = "via" /\ wire.kind = "wire" /\ up.kind = "via"
                /\ down.n2 = wire.n1 /\ wire.n2 = up.n1 /\ up.n2 = Rcv(k)
                /\ down.layers \cup up.layers = 0..layer
                /\ down.layers \cap up.layers \subseteq wire.layers

=============================================================================
