------------------------ MODULE RandomRCNet_proofs ------------------------
(***************************************************************************)
(* The net built by RandomRCNet has unique device indices, is driven once, *)
(* is made of the wires and vias that were meant, and reaches every        *)
(* receiver, whatever the number of receivers and of layers.               *)
(*                                                                         *)
(* The argument: the counters are ahead of everything that was made.  A    *)
(* resistor's index is below r_device_count, the nodes it ends in are      *)
(* numbered up to node_count or are pins of receivers before i, and the    *)
(* spine's last node is one of them; so what a pass of the loop adds is    *)
(* new, and starts where something made earlier ends.  A tree that every   *)
(* resistor continues is followed from the driver to each receiver's pin   *)
(* by induction on the index.                                              *)
(***************************************************************************)
EXTENDS RandomRCNet, NetLoad, FiniteSetTheorems, NaturalsInduction, WellFoundedInduction, TLAPS

Made(x) == \/ \E k \in 1..node_count : x = Inner(k)
           \/ \E k \in 1..(i - 1) : x = Rcv(k)

Ahead ==
    /\ node_count >= 1 /\ i >= 1
    /\ \A p \in res : p.index < r_device_count /\ Made(p.n2)
    /\ \A c \in cap : c.index < c_device_count
    /\ \E q \in res : q.n2 = Inner(last_spine_node)

IInv ==
    /\ TypeOK
    /\ pc = "start" => res = {} /\ cap = {}
    /\ pc = "spine" => Ahead
    /\ IndicesUnique
    /\ DrivenOnce

\* What Insert returns for two entries maps of nodes is one again.
LEMMA InsertType ==
    ASSUME NEW t, NEW u, DOMAIN t \subseteq Node, DOMAIN u \subseteq Node,
           \A x \in DOMAIN t : t[x] \in 0..3, \A x \in DOMAIN u : u[x] \in 0..3
    PROVE  /\ DOMAIN Insert(t, u) \subseteq Node
           /\ \A x \in DOMAIN Insert(t, u) : Insert(t, u)[x] \in 0..3
BY DEF Insert

\* The entries made for ground, driver, inner nodes and receivers are typed.
LEMMA EntriesType ==
    /\ DOMAIN Ends \subseteq Node /\ \A x \in DOMAIN Ends : Ends[x] \in 0..3
    /\ \A S \in SUBSET Nat : /\ DOMAIN Internal(S) \subseteq Node
                             /\ \A x \in DOMAIN Internal(S) : Internal(S)[x] \in 0..3
    /\ \A k \in Nat : /\ DOMAIN Receiver(k) \subseteq Node
                      /\ \A x \in DOMAIN Receiver(k) : Receiver(k)[x] \in 0..3
<1>1. DOMAIN Ends \subseteq Node /\ \A x \in DOMAIN Ends : Ends[x] \in 0..3
    BY DEF Ends, Gnd, Drv, Node
<1>2. ASSUME NEW S \in SUBSET Nat
      PROVE  /\ DOMAIN Internal(S) \subseteq Node
             /\ \A x \in DOMAIN Internal(S) : Internal(S)[x] \in 0..3
    BY DEF Internal, Inner, Node
<1>3. ASSUME NEW k \in Nat
      PROVE  /\ DOMAIN Receiver(k) \subseteq Node
             /\ \A x \in DOMAIN Receiver(k) : Receiver(k)[x] \in 0..3
    BY DEF Receiver, Rcv, Node
<1> QED BY <1>1, <1>2, <1>3

\* The devices are resistors and capacitors.
LEMMA ResistorType ==
    ASSUME NEW x \in Nat, NEW a \in Node, NEW b \in Node, NEW L \in SUBSET Nat
    PROVE  Via(x, a, b, L) \in Resistor /\ Wire(x, a, b, L) \in Resistor
BY DEF Via, Wire, Resistor

LEMMA CapacitorType ==
    ASSUME NEW x \in Nat, NEW a \in Node, NEW w \in Nat, NEW h \in {1, 2}
    PROVE  Cap(x, a, w, h) \in Capacitor
BY DEF Cap, Capacitor

LEMMA NodesType ==
    /\ Gnd \in Node /\ Drv \in Node
    /\ \A k \in Nat : Inner(k) \in Node /\ Rcv(k) \in Node
BY DEF Gnd, Drv, Inner, Rcv, Node

LEMMA StackType == \A a, b \in Nat : Stack(a, b) \in SUBSET Nat
BY DEF Stack

\* TypeOK is inductive.
LEMMA TypeInductive == TypeOK /\ [Next]_vars => TypeOK'
<1> SUFFICES ASSUME TypeOK, [Next]_vars PROVE TypeOK' OBVIOUS
<1> USE ReceiversAssumption, LayerAssumption
<1>0. layer \in Nat /\ n \in Nat /\ i \in Nat BY DEF TypeOK
<1>1. CASE PiModel
    <2>1. res' \subseteq Resistor /\ cap' \subseteq Capacitor
        BY <1>0, <1>1, ResistorType, CapacitorType, NodesType, StackType DEF PiModel
    <2>2. DOMAIN types' \subseteq Node /\ \A x \in DOMAIN types' : types'[x] \in 0..3
        BY <1>1, InsertType, EntriesType DEF PiModel
    <2> QED BY <1>1, <2>1, <2>2 DEF PiModel, TypeOK, request, counters
<1>2. CASE OneReceiver
    <2>1. res' \subseteq Resistor /\ cap' \subseteq Capacitor
        BY <1>0, <1>2, ResistorType, CapacitorType, NodesType, StackType DEF OneReceiver
    <2>2. DOMAIN types' \subseteq Node /\ \A x \in DOMAIN types' : types'[x] \in 0..3
        BY <1>2, InsertType, EntriesType DEF OneReceiver
    <2> QED BY <1>2, <2>1, <2>2 DEF OneReceiver, TypeOK, request, counters
<1>3. CASE DriverVia
    <2>1. res' \subseteq Resistor
        BY <1>0, <1>3, ResistorType, CapacitorType, NodesType, StackType DEF DriverVia
    <2>2. DOMAIN types' \subseteq Node /\ \A x \in DOMAIN types' : types'[x] \in 0..3
        BY <1>3, InsertType, EntriesType DEF DriverVia
    <2> QED BY <1>3, <2>1, <2>2 DEF DriverVia, TypeOK, request
<1>4. ASSUME NEW rcv_layer \in 0..(layer - 1), AddReceiver(rcv_layer) PROVE TypeOK'
    <2>0. /\ node_count \in Nat /\ r_device_count \in Nat /\ c_device_count \in Nat
          /\ last_spine_node \in Nat /\ rcv_layer \in Nat /\ rcv_layer + 2 \in Nat
        BY <1>0 DEF TypeOK
    <2>1. res' \subseteq Resistor
        BY <1>0, <1>4, <2>0, ResistorType, CapacitorType, NodesType, StackType DEF AddReceiver, Drop, TypeOK
    <2>2. cap' \subseteq Capacitor
        BY <1>0, <1>4, <2>0, ResistorType, CapacitorType, NodesType DEF AddReceiver, TypeOK
    <2>3. DOMAIN types' \subseteq Node /\ \A x \in DOMAIN types' : types'[x] \in 0..3
        <3>1. (node_count + 1)..(node_count + 3) \in SUBSET Nat BY <2>0
        <3> DEFINE t == Insert(types, Internal((node_count + 1)..(node_count + 3)))
        <3>2. DOMAIN t \subseteq Node /\ \A x \in DOMAIN t : t[x] \in 0..3
            BY <3>1, InsertType, EntriesType DEF TypeOK
        <3>3. types' = Insert(t, Receiver(i)) BY <1>4, <2>0 DEF AddReceiver
        <3> HIDE DEF t
        <3> QED BY <1>0, <3>2, <3>3, InsertType, EntriesType
    <2>4. /\ node_count' \in Nat /\ r_device_count' \in Nat /\ c_device_count' \in Nat
          /\ last_spine_node' \in Nat
        BY <1>4, <2>0 DEF AddReceiver, Count, SpineNode
    <2>5. i' \in 0..MaxReceivers
        BY <1>4 DEF AddReceiver, MoreReceivers, TypeOK
    <2> QED
        BY <1>4, <2>1, <2>2, <2>3, <2>4, <2>5 DEF AddReceiver, TypeOK, request
<1>5. CASE LastSegment
    <2>0. /\ node_count \in Nat /\ r_device_count \in Nat /\ c_device_count \in Nat
          /\ last_spine_node \in Nat
        BY DEF TypeOK
    <2>1. res' \subseteq Resistor /\ cap' \subseteq Capacitor
        BY <1>0, <1>5, <2>0, ResistorType, CapacitorType, NodesType, StackType DEF LastSegment, LastCap, TypeOK
    <2>2. DOMAIN types' \subseteq Node /\ \A x \in DOMAIN types' : types'[x] \in 0..3
        <3> DEFINE t == Insert(types, Internal({node_count + 1}))
        <3>1. DOMAIN t \subseteq Node /\ \A x \in DOMAIN t : t[x] \in 0..3
            BY <2>0, InsertType, EntriesType DEF TypeOK
        <3>2. types' = Insert(t, Receiver(0)) BY <1>5 DEF LastSegment, LastTypes
        <3> HIDE DEF t
        <3> QED BY <3>1, <3>2, InsertType, EntriesType
    <2> QED BY <1>0, <1>5, <2>0, <2>1, <2>2 DEF LastSegment, TypeOK, request
<1>6. CASE UNCHANGED vars BY <1>6 DEF TypeOK, vars
<1> QED BY <1>1, <1>2, <1>3, <1>4, <1>5, <1>6 DEF Next

-----------------------------------------------------------------------------
(* What one pass of the loop adds.                                         *)

\* Nodes of different kinds, and of one kind with different numbers, differ.
LEMMA NodesDiffer ==
    /\ Drv # Gnd
    /\ \A k \in Nat : Inner(k) \notin {Drv, Gnd} /\ Rcv(k) \notin {Drv, Gnd}
    /\ \A k, m \in Nat : /\ Inner(k) # Rcv(m)
                         /\ Inner(k) = Inner(m) => k = m
                         /\ Rcv(k) = Rcv(m) => k = m
BY DEF Drv, Gnd, Inner, Rcv

\* If everything made so far lies behind the counters, devices with new indices
\* that end in new nodes keep the indices unique.
LEMMA NewIndices ==
    ASSUME NEW S, NEW T, NEW x \in Nat,
           \A p \in S : p.index \in Nat /\ p.index < x,
           \A p \in T : p.index \in Nat /\ p.index >= x,
           \A p, q \in S : p.index = q.index => p = q,
           \A p, q \in T : p.index = q.index => p = q
    PROVE  \A p, q \in S \cup T : p.index = q.index => p = q
OBVIOUS

\* A node with a number above node_count is new, and so are the pins of the
\* receivers from i on and of receivers[0].
LEMMA NewNodes ==
    ASSUME node_count \in Nat, i \in Nat
    PROVE  /\ \A k \in Nat : k > node_count => ~Made(Inner(k))
           /\ \A k \in Nat : k >= i => ~Made(Rcv(k))
           /\ ~Made(Rcv(0))
<1>1. ASSUME NEW k \in Nat, k > node_count PROVE ~Made(Inner(k))
    <2>1. \A m \in 1..node_count : Inner(k) # Inner(m) BY <1>1 DEF Inner
    <2>2. \A m \in 1..(i - 1) : Inner(k) # Rcv(m) BY DEF Inner, Rcv
    <2> QED BY <2>1, <2>2 DEF Made
<1>2. ASSUME NEW k \in Nat, k >= i \/ k = 0 PROVE ~Made(Rcv(k))
    <2>1. \A m \in 1..node_count : Rcv(k) # Inner(m) BY DEF Inner, Rcv
    <2>2. \A m \in 1..(i - 1) : Rcv(k) # Rcv(m) BY <1>2 DEF Rcv
    <2> QED BY <2>1, <2>2 DEF Made
<1> QED BY <1>1, <1>2

\* The invariant is kept by a pass of the loop.
LEMMA AddReceiverKeeps ==
    ASSUME IInv, TypeOK', NEW rcv_layer \in 0..(layer - 1), AddReceiver(rcv_layer)
    PROVE  IInv'
<1> USE NodesDiffer
<1>0. /\ node_count \in Nat /\ r_device_count \in Nat /\ c_device_count \in Nat
      /\ last_spine_node \in Nat /\ i \in Nat /\ n \in Nat /\ node_count >= 1 /\ i >= 1
    BY DEF IInv, TypeOK, AddReceiver, Ahead
<1> DEFINE r == r_device_count
           far == node_count + 1
           w1 == Wire(r, Inner(last_spine_node), Inner(far), {layer})
           v1 == Via(r + 1, Inner(far), Inner(far + 1), Stack(rcv_layer, layer))
           w2 == Wire(r + 2, Inner(far + 1), Inner(far + 2), {rcv_layer})
           v2 == Via(r + 3, Inner(far + 2), Rcv(i), Stack(0, rcv_layer))
           new == {w1, v1, w2, v2}
           c == c_device_count
           caps == {Cap(c, Inner(far), r, 2), Cap(c + 1, Inner(far + 1), r + 2, 1),
                    Cap(c + 2, Inner(far + 2), r + 2, 1)}
<1>1. res' = res \cup new /\ cap' = cap \cup caps
    BY <1>0 DEF AddReceiver, Drop
<1>2. /\ node_count' = node_count + 3 /\ r_device_count' = r + 4
      /\ c_device_count' = c + 3 /\ last_spine_node' = far /\ i' = i + 1
      /\ pc = "spine" /\ pc' = "spine"
    BY DEF AddReceiver, Count, SpineNode
<1>3. /\ w1.index = r /\ w1.n1 = Inner(last_spine_node) /\ w1.n2 = Inner(far)
      /\ v1.index = r + 1 /\ v1.n1 = Inner(far) /\ v1.n2 = Inner(far + 1)
      /\ w2.index = r + 2 /\ w2.n1 = Inner(far + 1) /\ w2.n2 = Inner(far + 2)
      /\ v2.index = r + 3 /\ v2.n1 = Inner(far + 2) /\ v2.n2 = Rcv(i)
    BY DEF Wire, Via
<1>4. \A p \in caps : p.index \in Nat /\ p.index >= c /\ p.index < c + 3
    BY <1>0 DEF Cap
<1>5. \A p, q \in caps : p.index = q.index => p = q
    BY <1>0 DEF Cap
<1>6. /\ \A p \in res : p.index \in Nat /\ p.index < r /\ Made(p.n2)
      /\ \A p \in cap : p.index \in Nat /\ p.index < c
      /\ \E q \in res : q.n2 = Inner(last_spine_node)
    BY <1>2 DEF IInv, TypeOK, Ahead, Resistor, Capacitor
<1> HIDE DEF w1, v1, w2, v2, caps
<1>7. IndicesUnique'
    <2>1. \A p \in new : p.index \in Nat /\ p.index >= r
        BY <1>0, <1>3
    <2>2. \A p, q \in new : p.index = q.index => p = q
        BY <1>0, <1>3
    <2>3. \A p, q \in res' : p.index = q.index => p = q
        BY <1>0, <1>1, <1>6, <2>1, <2>2, NewIndices DEF IInv, IndicesUnique
    <2>4. \A p, q \in cap' : p.index = q.index => p = q
        BY <1>0, <1>1, <1>4, <1>5, <1>6, NewIndices DEF IInv, IndicesUnique
    <2> QED BY <2>3, <2>4 DEF IndicesUnique
<1>8. DrivenOnce'
    <2>1. \A p \in new : ~Made(p.n2)
        <3>1. far \in Nat /\ far > node_count BY <1>0
        <3>2. far + 1 \in Nat /\ far + 1 > node_count BY <1>0
        <3>3. far + 2 \in Nat /\ far + 2 > node_count BY <1>0
        <3>4. ~Made(w1.n2) BY <1>0, <1>3, <3>1, NewNodes
        <3>5. ~Made(v1.n2) BY <1>0, <1>3, <3>2, NewNodes
        <3>6. ~Made(w2.n2) BY <1>0, <1>3, <3>3, NewNodes
        <3>7. ~Made(v2.n2) BY <1>0, <1>3, NewNodes
        <3> QED BY <3>4, <3>5, <3>6, <3>7
    <2>2. \A p, q \in new : p.n2 = q.n2 => p = q
        <3>1. /\ Inner(far) # Inner(far + 1) /\ Inner(far) # Inner(far + 2)
              /\ Inner(far + 1) # Inner(far + 2)
            BY <1>0 DEF Inner
        <3>2. Rcv(i) # Inner(far) /\ Rcv(i) # Inner(far + 1) /\ Rcv(i) # Inner(far + 2)
            BY DEF Inner, Rcv
        <3> HIDE DEF far
        <3> QED BY <1>3, <3>1, <3>2
    <2>3. \A p, q \in res' : p.n2 = q.n2 => p = q
        BY <1>1, <1>6, <2>1, <2>2 DEF IInv, DrivenOnce
    <2>4. \A p \in new : /\ p.n2 \notin {Drv, Gnd}
                        /\ \E q \in res' : q.n2 = p.n1 /\ q.index < p.index
        <3>1. PICK q \in res : q.n2 = Inner(last_spine_node) BY <1>6
        <3>2. q.n2 = w1.n1 /\ q.index < w1.index /\ q \in res' BY <1>1, <1>3, <1>6, <3>1
        <3>3. {w1, v1, w2} \subseteq res' BY <1>1
        <3> QED BY <1>0, <1>3, <3>2, <3>3
    <2> QED BY <1>1, <2>3, <2>4 DEF IInv, DrivenOnce
<1>9. Ahead'
    <2>1. \A p \in res : Made(p.n2)'
        BY <1>0, <1>2, <1>6 DEF Made
    <2>2. \A p \in new : Made(p.n2)' /\ p.index < r_device_count'
        BY <1>0, <1>2, <1>3 DEF Made
    <2>3. \A p \in cap' : p.index < c_device_count'
        BY <1>0, <1>1, <1>2, <1>4, <1>6
    <2>4. \E q \in res' : q.n2 = Inner(last_spine_node')
        BY <1>1, <1>2, <1>3
    <2> QED BY <1>0, <1>1, <1>2, <1>6, <2>1, <2>2, <2>3, <2>4 DEF Ahead
<1> QED BY <1>2, <1>7, <1>8, <1>9 DEF IInv

\* And by the last segment, after which no device is added.
LEMMA LastSegmentKeeps ==
    ASSUME IInv, TypeOK', LastSegment
    PROVE  IInv'
<1> USE NodesDiffer
<1>0. /\ node_count \in Nat /\ r_device_count \in Nat /\ c_device_count \in Nat
      /\ last_spine_node \in Nat /\ i \in Nat /\ n \in Nat /\ node_count >= 1 /\ i >= 1
    BY DEF IInv, TypeOK, LastSegment, Ahead
<1> DEFINE r == r_device_count
           far == node_count + 1
           w == Wire(r, Inner(last_spine_node), Inner(far), {layer})
           v == Via(r + 1, Inner(far), Rcv(0), Stack(0, layer))
           c == Cap(c_device_count, Inner(far), r, 2)
<1>1. res' = res \cup {w, v} /\ cap' = cap \cup {c} /\ pc = "spine" /\ pc' = "built"
    BY DEF LastSegment, LastCap
<1>2. /\ w.index = r /\ w.n1 = Inner(last_spine_node) /\ w.n2 = Inner(far)
      /\ v.index = r + 1 /\ v.n1 = Inner(far) /\ v.n2 = Rcv(0) /\ c.index = c_device_count
    BY DEF Wire, Via, Cap
<1>3. /\ \A p \in res : p.index \in Nat /\ p.index < r /\ Made(p.n2)
      /\ \A p \in cap : p.index \in Nat /\ p.index < c_device_count
      /\ \E q \in res : q.n2 = Inner(last_spine_node)
    BY <1>1 DEF IInv, TypeOK, Ahead, Resistor, Capacitor
<1> HIDE DEF w, v, c
<1>4. IndicesUnique'
    <2>1. \A p, q \in res' : p.index = q.index => p = q
        BY <1>0, <1>1, <1>2, <1>3 DEF IInv, IndicesUnique
    <2>2. \A p, q \in cap' : p.index = q.index => p = q
        BY <1>0, <1>1, <1>2, <1>3 DEF IInv, IndicesUnique
    <2> QED BY <2>1, <2>2 DEF IndicesUnique
<1>5. DrivenOnce'
    <2>1. ~Made(w.n2) /\ ~Made(v.n2) /\ w.n2 # v.n2
        <3>1. far \in Nat /\ far > node_count BY <1>0
        <3>2. Inner(far) # Rcv(0) BY DEF Inner, Rcv
        <3> QED BY <1>0, <1>2, <3>1, <3>2, NewNodes
    <2>2. \A p, q \in res' : p.n2 = q.n2 => p = q
        BY <1>1, <1>3, <2>1 DEF IInv, DrivenOnce
    <2>3. \E q \in res' : q.n2 = w.n1 /\ q.index < w.index
        BY <1>0, <1>1, <1>2, <1>3
    <2>4. w \in res' /\ w.n2 = v.n1 /\ w.index < v.index
        BY <1>0, <1>1, <1>2
    <2>5. w.n2 \notin {Drv, Gnd} /\ v.n2 \notin {Drv, Gnd}
        BY <1>0, <1>2
    <2> QED BY <1>1, <2>2, <2>3, <2>4, <2>5 DEF IInv, DrivenOnce
<1> QED BY <1>1, <1>4, <1>5 DEF IInv

\* The invariant holds throughout.
THEOREM NetInvariant == Spec => []IInv
<1>1. Init => IInv
    <2> SUFFICES ASSUME Init PROVE IInv OBVIOUS
    <2>1. TypeOK
        BY ReceiversAssumption, LayerAssumption DEF Init, TypeOK
    <2> QED BY <2>1 DEF Init, IInv, IndicesUnique, DrivenOnce
<1>2. IInv /\ [Next]_vars => IInv'
    <2> SUFFICES ASSUME IInv, [Next]_vars PROVE IInv' OBVIOUS
    <2>0. TypeOK' BY TypeInductive DEF IInv
    <2>1. CASE PiModel
        <3>1. IndicesUnique' /\ DrivenOnce'
            BY <2>1, NodesDiffer DEF PiModel, IndicesUnique, DrivenOnce, Wire, Cap
        <3> QED BY <2>0, <2>1, <3>1 DEF PiModel, IInv
    <2>2. CASE OneReceiver
        <3>1. IndicesUnique'
            BY <2>2, NodesDiffer DEF OneReceiver, IndicesUnique, Wire, Via, Cap
        <3>2. DrivenOnce'
            <4> DEFINE a == Via(1, Drv, Inner(1), Stack(0, layer))
                       b == Wire(2, Inner(1), Inner(2), {layer})
                       d == Via(3, Inner(2), Rcv(0), Stack(0, layer))
            <4>1. res' = {a, b, d} BY <2>2 DEF OneReceiver
            <4>2. /\ a.index = 1 /\ a.n1 = Drv /\ a.n2 = Inner(1)
                  /\ b.index = 2 /\ b.n1 = Inner(1) /\ b.n2 = Inner(2)
                  /\ d.index = 3 /\ d.n1 = Inner(2) /\ d.n2 = Rcv(0)
                BY DEF Via, Wire
            <4>3. Inner(1) # Inner(2) /\ Inner(1) # Rcv(0) /\ Inner(2) # Rcv(0)
                BY DEF Inner, Rcv
            <4> HIDE DEF a, b, d
            <4> QED BY <4>1, <4>2, <4>3, NodesDiffer DEF DrivenOnce
        <3> QED BY <2>0, <2>2, <3>1, <3>2 DEF OneReceiver, IInv
    <2>3. CASE DriverVia
        <3>1. IndicesUnique' /\ DrivenOnce'
            BY <2>3, NodesDiffer DEF DriverVia, IInv, IndicesUnique, DrivenOnce, Via
        <3>2. Ahead'
            BY <2>3 DEF DriverVia, IInv, Ahead, Made, Via
        <3> QED BY <2>0, <2>3, <3>1, <3>2 DEF DriverVia, IInv
    <2>4. ASSUME NEW rcv_layer \in 0..(layer - 1), AddReceiver(rcv_layer) PROVE IInv'
        BY <2>0, <2>4, AddReceiverKeeps
    <2>5. CASE LastSegment BY <2>0, <2>5, LastSegmentKeeps
    <2>6. CASE UNCHANGED vars
        BY <2>0, <2>6 DEF IInv, vars, Ahead, Made, IndicesUnique, DrivenOnce
    <2> QED BY <2>1, <2>2, <2>3, <2>4, <2>5, <2>6 DEF Next
<1> QED BY <1>1, <1>2, PTL DEF Spec

\* Every net, of any size, has device indices that differ.
THEOREM NetIndicesUnique == Spec => []IndicesUnique
BY NetInvariant, PTL DEF IInv

\* Every net, of any size, is a tree rooted at its driver: a resistor starts
\* where an earlier one ends, and no two end in one node.
THEOREM NetDrivenOnce == Spec => []DrivenOnce
BY NetInvariant, PTL DEF IInv

-----------------------------------------------------------------------------
(* Wires, branches and the way from the driver.                            *)

WireCounted(w) ==
    LET own == {c \in cap : c.wire = w.index} IN
    \/ \E c \in own : own = {c} /\ c.halves = 2 /\ c.node = w.n2
    \/ \E c, d \in own : /\ own = {c, d} /\ c.halves = 1 /\ d.halves = 1
                         /\ c.node = w.n1 /\ d.node = w.n2

\* The two vias and the wire of receivers[k].
Branched(k) ==
    \E v, w, u \in res : /\ v.kind = "via" /\ w.kind = "wire" /\ u.kind = "via"
                        /\ v.n2 = w.n1 /\ w.n2 = u.n1 /\ u.n2 = Rcv(k)
                        /\ v.layers \cup u.layers = 0..layer
                        /\ v.layers \cap u.layers \subseteq w.layers

\* The capacitors made so far belong to wires made so far and lie on their
\* ends; the receivers passed have their branches.
Joined ==
    /\ IsFiniteSet(res)
    /\ pc = "start" => res = {} /\ cap = {} /\ (pimodel => n = 1)
    /\ pc = "spine" => n > 1 /\ i <= n /\ \A c \in cap : c.wire < r_device_count
    /\ \A w \in res : w.kind = "wire" => WireCounted(w)
    /\ \A c \in cap : c.node = Drv \/ \E p \in res : p.n2 = c.node
    /\ pc = "spine" => \A k \in 1..(i - 1) : Branched(k)
    /\ pc = "built" => /\ \E p \in res : p.n2 = Rcv(0)
                       /\ n > 1 => \A k \in 1..(n - 1) : Branched(k)

\* A branch that is there stays.
LEMMA StillBranched ==
    ASSUME NEW k, Branched(k), res \subseteq res', layer' = layer
    PROVE  Branched(k)'
BY DEF Branched

LEMMA FiniteMore ==
    ASSUME NEW S, IsFiniteSet(S), NEW a, NEW b, NEW c, NEW d
    PROVE  IsFiniteSet(S \cup {a, b, c, d}) /\ IsFiniteSet(S \cup {a, b})
<1>1. \A T, x : IsFiniteSet(T) => IsFiniteSet(T \cup {x})
    BY FS_AddElement
<1>2. IsFiniteSet(((S \cup {a}) \cup {b}))
    BY <1>1
<1>3. IsFiniteSet((((S \cup {a}) \cup {b}) \cup {c}) \cup {d})
    BY <1>1, <1>2
<1>4. /\ S \cup {a, b, c, d} = (((S \cup {a}) \cup {b}) \cup {c}) \cup {d}
      /\ S \cup {a, b} = (S \cup {a}) \cup {b}
    OBVIOUS
<1> QED BY <1>2, <1>3, <1>4

LEMMA JoinedAddReceiver ==
    ASSUME IInv, Joined, NEW rcv_layer \in 0..(layer - 1), AddReceiver(rcv_layer)
    PROVE  Joined'
<1>0. /\ node_count \in Nat /\ r_device_count \in Nat /\ c_device_count \in Nat
      /\ last_spine_node \in Nat /\ i \in Nat /\ n \in Nat /\ node_count >= 1 /\ i >= 1
      /\ layer \in Nat /\ rcv_layer \in Nat
    BY LayerAssumption DEF IInv, TypeOK, AddReceiver, Ahead
<1>a. PICK w1, v1, w2, v2 :
          /\ w1 = Wire(r_device_count, Inner(last_spine_node), Inner(node_count + 1), {layer})
          /\ v1 = Via(r_device_count + 1, Inner(node_count + 1), Inner(node_count + 2),
                      Stack(rcv_layer, layer))
          /\ w2 = Wire(r_device_count + 2, Inner(node_count + 2), Inner(node_count + 3),
                       {rcv_layer})
          /\ v2 = Via(r_device_count + 3, Inner(node_count + 3), Rcv(i), Stack(0, rcv_layer))
    OBVIOUS
<1>b. PICK c1, c2, c3 :
          /\ c1 = Cap(c_device_count, Inner(node_count + 1), r_device_count, 2)
          /\ c2 = Cap(c_device_count + 1, Inner(node_count + 2), r_device_count + 2, 1)
          /\ c3 = Cap(c_device_count + 2, Inner(node_count + 3), r_device_count + 2, 1)
    OBVIOUS
<1>c. PICK r \in Nat : r = r_device_count
    BY <1>0
<1>d. PICK far \in Nat : far = node_count + 1
    BY <1>0
<1> DEFINE new == {w1, v1, w2, v2}
<1>1. res' = res \cup new /\ cap' = cap \cup {c1, c2, c3}
    BY <1>0, <1>a, <1>b, <1>c, <1>d DEF AddReceiver, Drop
<1>2. /\ r_device_count' = r + 4 /\ i' = i + 1 /\ layer' = layer /\ n' = n
      /\ pc = "spine" /\ pc' = "spine" /\ i < n
    BY <1>c DEF AddReceiver, Count, request, MoreReceivers
<1>3. /\ w1.index = r /\ w1.n1 = Inner(last_spine_node) /\ w1.n2 = Inner(far)
      /\ w1.kind = "wire" /\ w2.kind = "wire" /\ v1.kind = "via" /\ v2.kind = "via"
      /\ v1.index = r + 1 /\ v1.n1 = Inner(far) /\ v1.n2 = Inner(far + 1)
      /\ w2.index = r + 2 /\ w2.n1 = Inner(far + 1) /\ w2.n2 = Inner(far + 2)
      /\ v2.index = r + 3 /\ v2.n1 = Inner(far + 2) /\ v2.n2 = Rcv(i)
      /\ v1.layers = Stack(rcv_layer, layer) /\ v2.layers = Stack(0, rcv_layer)
      /\ w2.layers = {rcv_layer}
    BY <1>0, <1>a, <1>c, <1>d DEF Wire, Via
<1>4. /\ c1.node = Inner(far) /\ c1.wire = r /\ c1.halves = 2
      /\ c2.node = Inner(far + 1) /\ c2.wire = r + 2 /\ c2.halves = 1
      /\ c3.node = Inner(far + 2) /\ c3.wire = r + 2 /\ c3.halves = 1
    BY <1>0, <1>b, <1>c, <1>d DEF Cap
<1>5. /\ \A p \in res : p.index \in Nat /\ p.index < r
      /\ \A p \in cap : p.wire \in Nat /\ p.wire < r
    BY <1>2, <1>c DEF IInv, TypeOK, Ahead, Resistor, Capacitor, Joined
<1>6. v1.layers \cup v2.layers = 0..layer /\ v1.layers \cap v2.layers \subseteq w2.layers
    BY <1>0, <1>3 DEF Stack
<1>7. IsFiniteSet(res')
    BY <1>1, FiniteMore DEF Joined
<1>8. \A p \in cap' : p.wire < r_device_count'
    BY <1>0, <1>1, <1>2, <1>4, <1>5
<1>9. \A w \in res' : w.kind = "wire" => WireCounted(w)'
    <2>1. ASSUME NEW w \in res, w.kind = "wire" PROVE WireCounted(w)'
        <3>0. w.index # r /\ w.index # r + 2
            BY <1>5
        <3>1. \A p \in {c1, c2, c3} : p.wire # w.index
            BY <1>4, <3>0
        <3>2. WireCounted(w)
            BY <2>1 DEF Joined
        <3>3. {p \in cap' : p.wire = w.index} = {p \in cap : p.wire = w.index}
            BY <1>1, <3>1
        <3> QED BY <3>2, <3>3 DEF WireCounted
    <2>2. WireCounted(w1)'
        <3>1. {p \in cap' : p.wire = r} = {c1}
            BY <1>0, <1>1, <1>4, <1>5
        <3> QED BY <1>3, <1>4, <3>1 DEF WireCounted
    <2>3. WireCounted(w2)'
        <3>1. {p \in cap' : p.wire = r + 2} = {c2, c3}
            BY <1>0, <1>1, <1>4, <1>5
        <3> QED BY <1>3, <1>4, <3>1 DEF WireCounted
    <2> QED BY <1>1, <1>3, <2>1, <2>2, <2>3
<1>10. \A p \in cap' : p.node = Drv \/ \E q \in res' : q.n2 = p.node
    BY <1>1, <1>3, <1>4 DEF Joined
<1>11. \A k \in 1..(i' - 1) : Branched(k)'
    <2>1. ASSUME NEW k \in 1..(i - 1) PROVE Branched(k)'
        BY <1>1, <1>2, StillBranched DEF Joined
    <2>2. PICK m \in Nat : m = i
        BY <1>0
    <2>3. v2.n2 = Rcv(m) /\ v1.n2 = w2.n1 /\ w2.n2 = v2.n1
        BY <1>3, <2>2
    <2>4. /\ {v1, w2, v2} \subseteq res' /\ v1.layers \cup v2.layers = 0..layer'
          /\ v1.layers \cap v2.layers \subseteq w2.layers
        BY <1>1, <1>2, <1>6
    <2>5. Branched(m)'
        BY <1>3, <2>3, <2>4 DEF Branched
    <2>6. \A k \in 1..(i' - 1) : k \in 1..(i - 1) \/ k = m
        BY <1>0, <1>2, <2>2
    <2> QED BY <2>1, <2>5, <2>6
<1> QED BY <1>0, <1>2, <1>7, <1>8, <1>9, <1>10, <1>11 DEF Joined

LEMMA JoinedLastSegment ==
    ASSUME IInv, Joined, LastSegment
    PROVE  Joined'
<1>0. /\ node_count \in Nat /\ r_device_count \in Nat /\ c_device_count \in Nat
      /\ last_spine_node \in Nat /\ i \in Nat /\ n \in Nat /\ layer \in Nat
    BY LayerAssumption DEF IInv, TypeOK
<1>a. PICK w, v, c :
          /\ w = Wire(r_device_count, Inner(last_spine_node), Inner(node_count + 1), {layer})
          /\ v = Via(r_device_count + 1, Inner(node_count + 1), Rcv(0), Stack(0, layer))
          /\ c = Cap(c_device_count, Inner(node_count + 1), r_device_count, 2)
    OBVIOUS
<1>b. PICK r \in Nat : r = r_device_count
    BY <1>0
<1>1. /\ res' = res \cup {w, v} /\ cap' = cap \cup {c} /\ pc = "spine" /\ pc' = "built"
      /\ layer' = layer /\ n' = n /\ i = n
    BY <1>a DEF LastSegment, LastCap, request
<1>2. /\ w.index = r /\ w.n2 = Inner(node_count + 1) /\ w.kind = "wire" /\ v.kind = "via"
      /\ v.n2 = Rcv(0) /\ c.wire = r /\ c.halves = 2 /\ c.node = Inner(node_count + 1)
    BY <1>a, <1>b DEF Wire, Via, Cap
<1>3. /\ \A p \in res : p.index \in Nat /\ p.index < r
      /\ \A p \in cap : p.wire \in Nat /\ p.wire < r
    BY <1>1, <1>b DEF IInv, TypeOK, Ahead, Resistor, Capacitor, Joined
<1>4. IsFiniteSet(res')
    BY <1>1, FiniteMore DEF Joined
<1>5. \A x \in res' : x.kind = "wire" => WireCounted(x)'
    <2>1. ASSUME NEW x \in res, x.kind = "wire" PROVE WireCounted(x)'
        <3>1. x.index # r
            BY <1>3
        <3>2. WireCounted(x)
            BY <2>1 DEF Joined
        <3>3. {p \in cap' : p.wire = x.index} = {p \in cap : p.wire = x.index}
            BY <1>1, <1>2, <3>1
        <3> QED BY <3>2, <3>3 DEF WireCounted
    <2>2. WireCounted(w)'
        <3>1. {p \in cap' : p.wire = r} = {c}
            BY <1>1, <1>2, <1>3
        <3> QED BY <1>2, <3>1 DEF WireCounted
    <2> QED BY <1>1, <1>2, <2>1, <2>2
<1>6. \A p \in cap' : p.node = Drv \/ \E q \in res' : q.n2 = p.node
    BY <1>1, <1>2 DEF Joined
<1>7. \A k \in 1..(n' - 1) : Branched(k)'
    BY <1>1, StillBranched DEF Joined
<1>8. \E p \in res' : p.n2 = Rcv(0)
    BY <1>1, <1>2
<1> QED BY <1>1, <1>4, <1>5, <1>6, <1>7, <1>8 DEF Joined

\* A net with one receiver, of either model, and the driver's via.
LEMMA JoinedStart ==
    ASSUME IInv, Joined, PiModel \/ OneReceiver \/ DriverVia
    PROVE  Joined'
<1> USE NodesDiffer
<1>0. res = {} /\ cap = {} /\ n \in Nat /\ IsFiniteSet({}) /\ layer \in Nat /\ n' = n
    BY FS_EmptySet, LayerAssumption
    DEF IInv, TypeOK, PiModel, OneReceiver, DriverVia, request
<1>1. CASE PiModel
    <2>a. PICK w, c, d : /\ w = Wire(2, Drv, Rcv(0), Stack(0, layer))
                        /\ c = Cap(1, Drv, 2, 1) /\ d = Cap(2, Rcv(0), 2, 1)
        OBVIOUS
    <2>1. res' = {w} /\ cap' = {c, d} /\ pc' = "built" /\ n = 1
        BY <1>1, <2>a DEF PiModel, Joined, IInv, TypeOK
    <2>2. /\ w.index = 2 /\ w.n1 = Drv /\ w.n2 = Rcv(0) /\ c.node = Drv /\ c.wire = 2
          /\ c.halves = 1 /\ d.node = Rcv(0) /\ d.wire = 2 /\ d.halves = 1
        BY <2>a DEF Wire, Cap
    <2>3. WireCounted(w)'
        <3>1. {p \in cap' : p.wire = 2} = {c, d}
            BY <2>1, <2>2
        <3> QED BY <2>2, <3>1 DEF WireCounted
    <2>4. IsFiniteSet(res')
        BY <2>1, FS_Singleton
    <2>5. \A x \in cap' : x.node = Drv \/ \E p \in res' : p.n2 = x.node
        BY <2>1, <2>2
    <2> QED BY <1>0, <2>1, <2>2, <2>3, <2>4, <2>5 DEF Joined
<1>2. CASE OneReceiver
    <2>a. PICK u, w, v, c, d :
              /\ u = Via(1, Drv, Inner(1), Stack(0, layer))
              /\ w = Wire(2, Inner(1), Inner(2), {layer})
              /\ v = Via(3, Inner(2), Rcv(0), Stack(0, layer))
              /\ c = Cap(1, Inner(1), 2, 1) /\ d = Cap(2, Inner(2), 2, 1)
        OBVIOUS
    <2>1. res' = {u, w, v} /\ cap' = {c, d} /\ pc' = "built" /\ n = 1
        BY <1>2, <2>a DEF OneReceiver
    <2>2. /\ u.kind = "via" /\ u.n2 = Inner(1) /\ v.kind = "via" /\ v.n2 = Rcv(0)
          /\ w.index = 2 /\ w.n1 = Inner(1) /\ w.n2 = Inner(2)
          /\ c.node = Inner(1) /\ c.wire = 2 /\ c.halves = 1
          /\ d.node = Inner(2) /\ d.wire = 2 /\ d.halves = 1
        BY <2>a DEF Wire, Via, Cap
    <2>3. WireCounted(w)'
        <3>1. {p \in cap' : p.wire = 2} = {c, d}
            BY <2>1, <2>2
        <3> QED BY <2>2, <3>1 DEF WireCounted
    <2>4. IsFiniteSet(res')
        <3>1. IsFiniteSet({} \cup {u, w, v, v})
            BY <1>0, FiniteMore
        <3>2. {} \cup {u, w, v, v} = {u, w, v}
            OBVIOUS
        <3> QED BY <2>1, <3>1, <3>2
    <2> QED BY <1>0, <2>1, <2>2, <2>3, <2>4 DEF Joined
<1>3. CASE DriverVia
    <2>a. PICK u : u = Via(1, Drv, Inner(1), Stack(0, layer))
        OBVIOUS
    <2>1. res' = {u} /\ cap' = {} /\ pc' = "spine" /\ n > 1 /\ i' = 1 /\ u.kind = "via"
        BY <1>0, <1>3, <2>a DEF DriverVia, Via
    <2>2. 1..(i' - 1) = {} /\ i' <= n'
        BY <1>0, <2>1
    <2>3. IsFiniteSet(res')
        BY <2>1, FS_Singleton
    <2>4. \A x \in res' : x.kind # "wire"
        BY <2>1
    <2>5. cap' = {} /\ pc' = "spine" /\ n' > 1
        BY <1>0, <2>1
    <2> QED BY <2>2, <2>3, <2>4, <2>5 DEF Joined
<1> QED BY <1>1, <1>2, <1>3

LEMMA JoinedAlways == Spec => [](IInv /\ Joined)
<1>1. Init => Joined
    BY FS_EmptySet DEF Init, Joined
<1>2. IInv /\ Joined /\ [Next]_vars => Joined'
    <2> SUFFICES ASSUME IInv, Joined, [Next]_vars PROVE Joined'
        OBVIOUS
    <2>1. CASE UNCHANGED vars
        <3>1. /\ pc' = pc /\ pimodel' = pimodel /\ n' = n /\ layer' = layer /\ res' = res
              /\ cap' = cap /\ r_device_count' = r_device_count /\ i' = i
            BY <2>1 DEF vars
        <3>2. \A k : Branched(k)' <=> Branched(k)
            BY <3>1, Zenon DEF Branched
        <3>3. \A w : WireCounted(w)' <=> WireCounted(w)
            BY <3>1, Zenon DEF WireCounted
        <3> QED BY <3>1, <3>2, <3>3 DEF Joined
    <2> QED BY <2>1, JoinedStart, JoinedAddReceiver, JoinedLastSegment DEF Next
<1> QED BY <1>1, <1>2, NetInvariant, PTL DEF Spec

\* In every net, of any size, the capacitance of each wire is there once.
THEOREM NetWiresCounted == Spec => []WiresCounted
<1>1. Joined => WiresCounted
    BY DEF Joined, WiresCounted, WireCounted
<1> QED BY <1>1, JoinedAlways, PTL

\* In every net with several receivers no layer is left out between the spine
\* and a receiver's pin, and none but the wire's own is counted twice.
THEOREM NetStackComplete == Spec => []StackComplete
<1>1. Joined => StackComplete
    <2> SUFFICES ASSUME Joined, pc = "built", n > 1, NEW k \in 1..(n - 1)
                 PROVE  \E down, wire, up \in res :
                            /\ down.kind = "via" /\ wire.kind = "wire" /\ up.kind = "via"
                            /\ down.n2 = wire.n1 /\ wire.n2 = up.n1 /\ up.n2 = Rcv(k)
                            /\ down.layers \cup up.layers = 0..layer
                            /\ down.layers \cap up.layers \subseteq wire.layers
        BY DEF StackComplete
    <2>1. Branched(k)
        BY DEF Joined
    <2> QED BY <2>1, Zenon DEF Branched
<1> QED BY <1>1, JoinedAlways, PTL

-----------------------------------------------------------------------------
(* Reachability.  ReachedIn adds the ends of resistors step by step.       *)

\* A set of numbers that is not empty has a smallest one.
LEMMA Smallest ==
    ASSUME NEW S, S \subseteq Nat, S # {}
    PROVE  \E x \in S : \A y \in S : ~(y < x)
<1> DEFINE R == {ss \in Nat \X Nat : ss[1] < ss[2]}
<1>1. IsWellFoundedOn(R, Nat)
    BY NatLessThanWellFounded DEF OpToRel
<1>2. \A x, y \in Nat : y < x => <<y, x>> \in R
    OBVIOUS
<1> HIDE DEF R
<1>3. PICK x \in S : \A y \in S : ~(<<y, x>> \in R)
    BY <1>1, WFMin
<1> QED BY <1>2, <1>3

\* What holds for 0 and for n + 1 whenever it holds for n.
LEMMA Induction ==
    ASSUME NEW P, P \subseteq Nat, 0 \in P, \A x \in Nat : x \in P => x + 1 \in P
    PROVE  \A x \in Nat : x \in P
<1> SUFFICES ASSUME NEW m \in Nat, m \notin P PROVE FALSE
    OBVIOUS
<1>1. Nat \ P \subseteq Nat /\ Nat \ P # {}
    OBVIOUS
<1>2. PICK x \in Nat \ P : \A y \in Nat \ P : ~(y < x)
    BY <1>1, Smallest
<1>3. x # 0 /\ x - 1 \in Nat /\ x - 1 < x /\ (x - 1) + 1 = x
    BY <1>2
<1> QED BY <1>2, <1>3

\* One step of a current: the nodes behind the resistors that start in S.
Spread(S) == S \cup {p.n2 : p \in {q \in res : q.n1 \in S}}

LEMMA StepsExist ==
    ASSUME NEW m \in Nat
    PROVE  \E f : f = [k \in 0..m |-> IF k = 0 THEN {Drv} ELSE Spread(f[k - 1])]
<1> DEFINE P == {x \in Nat : \E f : f = [k \in 0..x |-> IF k = 0 THEN {Drv} ELSE Spread(f[k - 1])]}
<1>1. 0 \in P
    <2> DEFINE f == [k \in 0..0 |-> {Drv}]
    <2>1. f = [k \in 0..0 |-> IF k = 0 THEN {Drv} ELSE Spread(f[k - 1])]
        OBVIOUS
    <2> QED BY <2>1
<1>2. ASSUME NEW x \in Nat, x \in P PROVE x + 1 \in P
    <2>1. PICK f : f = [k \in 0..x |-> IF k = 0 THEN {Drv} ELSE Spread(f[k - 1])]
        BY <1>2
    <2> DEFINE g == [k \in 0..(x + 1) |-> IF k = x + 1 THEN Spread(f[x]) ELSE f[k]]
    <2>2. \A k \in 0..(x + 1) : g[k] = IF k = 0 THEN {Drv} ELSE Spread(g[k - 1])
        <3> TAKE k \in 0..(x + 1)
        <3>1. CASE k = x + 1
            <4>1. x \in 0..(x + 1) /\ x # x + 1 /\ k - 1 = x /\ k # 0
                BY <3>1
            <4> QED BY <3>1, <4>1
        <3>2. CASE k # x + 1
            <4>1. k \in 0..x /\ (k # 0 => k - 1 \in 0..(x + 1) /\ k - 1 # x + 1)
                BY <3>2
            <4>2. f[k] = IF k = 0 THEN {Drv} ELSE Spread(f[k - 1])
                BY <2>1, <4>1
            <4> QED BY <3>2, <4>1, <4>2
        <3> QED BY <3>1, <3>2
    <2>3. g = [k \in 0..(x + 1) |-> IF k = 0 THEN {Drv} ELSE Spread(g[k - 1])]
        <3>1. g = [k \in 0..(x + 1) |-> g[k]]
            OBVIOUS
        <3> HIDE DEF g
        <3> QED BY <2>2, <3>1
    <2> HIDE DEF g
    <2> QED BY <2>3
<1> HIDE DEF P
<1>3. P \subseteq Nat
    BY DEF P
<1>4. m \in P
    BY <1>1, <1>2, <1>3, Induction
<1> QED BY <1>4 DEF P

LEMMA ReachedSteps ==
    ASSUME IsFiniteSet(res)
    PROVE  /\ Cardinality(res) \in Nat
           /\ ReachedIn[0] = {Drv}
           /\ \A k \in 1..Cardinality(res) : ReachedIn[k] = Spread(ReachedIn[k - 1])
<1>1. Cardinality(res) \in Nat
    BY FS_CardinalityType
<1>2. PICK f : f = [k \in 0..Cardinality(res) |-> IF k = 0 THEN {Drv} ELSE Spread(f[k - 1])]
    BY <1>1, StepsExist
<1>3. f = [k \in 0..Cardinality(res) |->
              IF k = 0 THEN {Drv}
              ELSE LET S == f[k - 1] IN S \cup {p.n2 : p \in {q \in res : q.n1 \in S}}]
    BY <1>2, Zenon DEF Spread
<1>4. ReachedIn = [k \in 0..Cardinality(res) |->
              IF k = 0 THEN {Drv}
              ELSE LET S == ReachedIn[k - 1] IN S \cup {p.n2 : p \in {q \in res : q.n1 \in S}}]
    BY <1>3, Zenon DEF ReachedIn
<1>5. ReachedIn = [k \in 0..Cardinality(res) |-> IF k = 0 THEN {Drv} ELSE Spread(ReachedIn[k - 1])]
    BY <1>4, Zenon DEF Spread
<1>6. ReachedIn[0] = {Drv}
    BY <1>1, <1>5
<1>7. ASSUME NEW k \in 1..Cardinality(res) PROVE ReachedIn[k] = Spread(ReachedIn[k - 1])
    <2>1. k \in 0..Cardinality(res) /\ k # 0
        BY <1>1
    <2> QED BY <1>5, <2>1
<1> QED BY <1>1, <1>6, <1>7

\* After k steps the ends of at least k resistors are reached: of those whose
\* ends are not, the one with the smallest index starts where one that was
\* reached ends.
LEMMA AllReached ==
    ASSUME IInv, IsFiniteSet(res)
    PROVE  Drv \in Reached /\ \A p \in res : p.n2 \in Reached
<1> DEFINE N == Cardinality(res)
<1>1. /\ N \in Nat /\ ReachedIn[0] = {Drv}
      /\ \A k \in 1..N : ReachedIn[k] = Spread(ReachedIn[k - 1])
    BY ReachedSteps
<1>2. /\ \A p \in res : p.index \in Nat
      /\ \A p \in res : p.n1 = Drv \/ \E q \in res : q.n2 = p.n1 /\ q.index < p.index
    BY DEF IInv, TypeOK, Resistor, DrivenOnce
<1> DEFINE Good(k) == /\ Drv \in ReachedIn[k]
                      /\ \E T \in SUBSET res : /\ IsFiniteSet(T) /\ Cardinality(T) = k
                                               /\ \A p \in T : p.n2 \in ReachedIn[k]
           P == {k \in Nat : k <= N => Good(k)}
<1>3. 0 \in P
    <2>1. IsFiniteSet({}) /\ Cardinality({}) = 0
        BY FS_EmptySet
    <2> QED BY <1>1, <2>1
<1>4. ASSUME NEW k \in Nat, k \in P PROVE k + 1 \in P
    <2> SUFFICES ASSUME k + 1 <= N PROVE Good(k + 1)
        OBVIOUS
    <2> HIDE DEF N
    <2>1. k <= N /\ k + 1 \in 1..N /\ (k + 1) - 1 = k /\ k < N
        BY <1>1
    <2>2. Drv \in ReachedIn[k] /\ ReachedIn[k + 1] = Spread(ReachedIn[k])
        BY <1>1, <1>4, <2>1
    <2>3. PICK T \in SUBSET res : /\ IsFiniteSet(T) /\ Cardinality(T) = k
                                 /\ \A p \in T : p.n2 \in ReachedIn[k]
        BY <1>4, <2>1
    <2>4. PICK x \in res : x \notin T
        <3>1. T # res
            BY <2>1, <2>3 DEF N
        <3> QED BY <3>1
    <2>5. PICK p \in res : p \notin T /\ \A q \in res : q \notin T => ~(q.index < p.index)
        <3> DEFINE S == {q.index : q \in {y \in res : y \notin T}}
        <3>1. S \subseteq Nat /\ S # {}
            BY <1>2, <2>4
        <3>2. PICK m \in S : \A y \in S : ~(y < m)
            BY <3>1, Smallest
        <3> QED BY <3>2
    <2>6. p.n1 \in ReachedIn[k]
        BY <1>2, <2>2, <2>3, <2>5
    <2>7. p.n2 \in ReachedIn[k + 1] /\ ReachedIn[k] \subseteq ReachedIn[k + 1]
        BY <2>2, <2>6 DEF Spread
    <2>8. IsFiniteSet(T \cup {p}) /\ Cardinality(T \cup {p}) = k + 1
        BY <2>3, <2>5, FS_AddElement
    <2> QED BY <2>2, <2>3, <2>7, <2>8
<1>5. Good(N)
    <2>1. P \subseteq Nat
        OBVIOUS
    <2> HIDE DEF P
    <2>2. N \in P
        BY <1>1, <1>3, <1>4, <2>1, Induction
    <2> QED BY <1>1, <2>2 DEF P
<1>6. PICK T \in SUBSET res : /\ IsFiniteSet(T) /\ Cardinality(T) = N
                             /\ \A p \in T : p.n2 \in ReachedIn[N]
    BY <1>5
<1>7. T = res
    BY <1>6, FS_Subset
<1> QED BY <1>5, <1>6, <1>7 DEF Reached

\* Every net, of any size, connects its driver with every receiver and with
\* every capacitor.
THEOREM NetEveryReceiverReached == Spec => []EveryReceiverReached
<1>1. IInv /\ Joined => EveryReceiverReached
    <2> SUFFICES ASSUME IInv, Joined PROVE EveryReceiverReached
        OBVIOUS
    <2>1. Drv \in Reached /\ \A p \in res : p.n2 \in Reached
        BY AllReached DEF Joined
    <2>2. \A c \in cap : c.node \in Reached
        BY <2>1 DEF Joined
    <2>3. ASSUME pc = "built", NEW k \in 0..(n - 1) PROVE Rcv(k) \in Reached
        <3>1. n \in Nat \ {0}
            BY ReceiversAssumption DEF IInv, TypeOK
        <3>2. CASE k = 0
            BY <2>1, <2>3, <3>2 DEF Joined
        <3>3. CASE k # 0
            <4>1. k \in 1..(n - 1) /\ n > 1
                BY <3>1, <3>3
            <4> QED BY <2>1, <2>3, <4>1 DEF Joined, Branched
        <3> QED BY <3>2, <3>3
    <2> QED BY <2>2, <2>3 DEF EveryReceiverReached
<1> QED BY <1>1, JoinedAlways, PTL

-----------------------------------------------------------------------------
(* The length of the net (NetLoad) does not swing in a window that is wide *)
(* for the draws.  What carries this over the loop is that once a length   *)
(* was too small, there is a draw with which the length stays below one    *)
(* and a half times the lower limit: it grew from below that limit by this *)
(* factor, and halving it keeps it there.                                  *)

GrownFromBelow == grown => \E w \in Weights : 2 * (w * num) < 3 * (lo * (den * Unit))
LoadDrawn == load_pc = "compare" /\ load # NaN => \E w \in Weights : load = w * num

LoadInv == LoadTypeOK /\ LoadDrawn /\ GrownFromBelow

\* A capacitance per length is a positive number.
LEMMA WeightsType == ASSUME LoadTypeOK PROVE Weights \subseteq Nat \ {0}
<1>1. ASSUME NEW spine \in SpineLengths, NEW f1 \in Percents, NEW f2 \in Percents,
             NEW c \in lower_caps
      PROVE  Drawn(spine, f1, f2, c) \in Nat \ {0}
    <2>1. /\ spine \in Nat \ {0} /\ 200 - spine \in Nat \ {0} /\ (f1 + 1) + (f2 + 1) \in Nat \ {0}
          /\ c \in Nat \ {0} /\ layer_cap \in Nat \ {0}
        BY NetLoadAssumption DEF LoadTypeOK
    <2>2. \A x, y \in Nat \ {0} : x * y \in Nat \ {0} /\ x + y \in Nat \ {0}
        OBVIOUS
    <2>3. layer_cap * (spine * ((f1 + 1) + (f2 + 1))) \in Nat \ {0}
        BY <2>1, <2>2
    <2>4. c * ((200 - spine) * 100) \in Nat \ {0}
        BY <2>1, <2>2
    <2>5. PICK a, b \in Nat \ {0} : /\ a = layer_cap * (spine * ((f1 + 1) + (f2 + 1)))
                                  /\ b = c * ((200 - spine) * 100)
        BY <2>3, <2>4
    <2>6. Drawn(spine, f1, f2, c) = a + b
        BY <2>5 DEF Drawn
    <2> QED BY <2>2, <2>5, <2>6
<1>2. CASE several
    <2>1. Weights = {Drawn(spine, f1, f2, c) : spine \in SpineLengths, f1 \in Percents,
                                              f2 \in Percents, c \in lower_caps}
        BY <1>2 DEF Weights
    <2> SUFFICES ASSUME NEW w \in Weights PROVE w \in Nat \ {0}
        OBVIOUS
    <2>2. PICK spine \in SpineLengths, f1 \in Percents, f2 \in Percents, c \in lower_caps :
              w = Drawn(spine, f1, f2, c)
        BY <2>1
    <2> QED BY <1>1, <2>2
<1>3. CASE ~several
    BY <1>3 DEF Weights, LoadTypeOK
<1> QED BY <1>2, <1>3

LEMMA UnitType == Unit \in Nat \ {0}
BY DEF Unit

\* From below the lower limit, one and a half times the load is below one and a
\* half times that limit.
LEMMA GrowthStaysBelow ==
    ASSUME NEW w \in Nat, NEW x \in Nat, NEW l \in Int, NEW d \in Nat, NEW u \in Nat,
           w * x < l * (d * u)
    PROVE  2 * (w * (3 * x)) < 3 * (l * ((2 * d) * u))
<1> DEFINE p == w * x
           q == l * (d * u)
<1>1. p \in Int /\ q \in Int
    OBVIOUS
<1>2. 2 * (w * (3 * x)) = 6 * p /\ 3 * (l * ((2 * d) * u)) = 6 * q
    OBVIOUS
<1>3. p < q
    OBVIOUS
<1> HIDE DEF p, q
<1> QED BY <1>1, <1>2, <1>3

\* And half the length stays below.
LEMMA HalfStaysBelow ==
    ASSUME NEW w \in Nat, NEW x \in Nat, NEW l \in Int, NEW d \in Nat, NEW u \in Nat,
           2 * (w * x) < 3 * (l * (d * u))
    PROVE  2 * (w * x) < 3 * (l * ((2 * d) * u))
<1> DEFINE p == w * x
           q == l * (d * u)
<1>1. p \in Nat /\ q \in Int
    OBVIOUS
<1>2. l * ((2 * d) * u) = 2 * q
    OBVIOUS
<1>3. 2 * p < 3 * q
    OBVIOUS
<1> HIDE DEF p, q
<1> QED BY <1>1, <1>2, <1>3

\* A length that with one draw is below one and a half times the lower limit is
\* with no draw above the upper limit of a wide window.
LEMMA WideEnough ==
    ASSUME NEW w \in Nat \ {0}, NEW v \in Nat \ {0}, NEW x \in Nat, NEW l \in Int,
           NEW h \in Nat, NEW d \in Nat \ {0},
           2 * (w * x) < 3 * (l * d), 3 * (l * v) <= 2 * (h * w)
    PROVE  ~(v * x > h * d)
<1> SUFFICES ASSUME v * x > h * d PROVE FALSE
    OBVIOUS
<1> DEFINE wx == w * x
           ld == l * d
           lv == l * v
           hw == h * w
           vx == v * x
           hd == h * d
<1>1. wx \in Nat /\ ld \in Int /\ lv \in Int /\ hw \in Nat /\ vx \in Nat /\ hd \in Nat
    OBVIOUS
<1>2. 2 * wx < 3 * ld /\ 3 * lv <= 2 * hw /\ vx >= hd + 1
    OBVIOUS
<1>3. wx * v = vx * w /\ ld * v = lv * d /\ hw * d = hd * w
    OBVIOUS
<1> HIDE DEF wx, ld, lv, hw, vx, hd
<1>4. (2 * wx) * v < (3 * ld) * v
    <2>1. 2 * wx + 1 <= 3 * ld
        BY <1>1, <1>2
    <2>2. PICK a, b \in Int : a = 2 * wx + 1 /\ b = 3 * ld
        BY <1>1
    <2>3. a * v <= b * v
        BY <2>1, <2>2
    <2>4. a * v = (2 * wx) * v + v
        BY <1>1, <2>2
    <2>5. (2 * wx) * v \in Int /\ (3 * ld) * v \in Int /\ v > 0
        BY <1>1
    <2> QED BY <2>2, <2>3, <2>4, <2>5
<1>5. (3 * lv) * d <= (2 * hw) * d
    <2>1. PICK a, b \in Int : a = 3 * lv /\ b = 2 * hw
        BY <1>1
    <2>2. a * d <= b * d
        BY <1>2, <2>1
    <2> QED BY <2>1, <2>2
<1>6. (hd + 1) * w <= vx * w
    BY <1>1, <1>2
<1>7. /\ (2 * wx) * v = 2 * (wx * v) /\ (3 * ld) * v = 3 * (ld * v)
      /\ (3 * lv) * d = 3 * (lv * d) /\ (2 * hw) * d = 2 * (hw * d)
      /\ (hd + 1) * w = hd * w + w
    BY <1>1
<1>8. wx * v \in Int /\ lv * d \in Int /\ hd * w \in Int /\ w > 0
    BY <1>1
<1> QED BY <1>3, <1>4, <1>5, <1>6, <1>7, <1>8

\* Every reachable state satisfies the inductive invariant.
LEMMA LoadInvariant == LoadSpec => []LoadInv
<1> USE NetLoadAssumption
<1>1. LoadInit => LoadInv
    <2> SUFFICES ASSUME LoadInit PROVE LoadInv OBVIOUS
    <2>1. PICK r \in Requests : /\ several = r.several /\ layer_cap = r.layer_cap
                                /\ lower_caps = r.lower_caps
                                /\ lo = r.lo /\ hi = r.hi /\ num = r.length
        BY DEF LoadInit
    <2>2. r \in [several : BOOLEAN, length : Nat \ {0}, layer_cap : Nat \ {0},
                 lower_caps : SUBSET (Nat \ {0}), lo : Int, hi : Nat]
        BY <2>1
    <2>3. /\ several \in BOOLEAN /\ lo \in Int /\ hi \in Nat /\ layer_cap \in Nat \ {0}
          /\ lower_caps \subseteq Nat \ {0} /\ num \in Nat \ {0}
        BY <2>1, <2>2
    <2>4. load_pc = "build" /\ den = 1 /\ load = 0 /\ tries = 0 /\ grown = FALSE BY DEF LoadInit
    <2>5. den \in Nat \ {0} /\ tries \in 0..MaxTries BY <2>4
    <2>6. LoadTypeOK BY <2>3, <2>4, <2>5 DEF LoadTypeOK
    <2> QED BY <2>4, <2>6 DEF LoadInv, LoadDrawn, GrownFromBelow
<1>2. LoadInv /\ [LoadNext]_load_vars => LoadInv'
    <2> SUFFICES ASSUME LoadInv, [LoadNext]_load_vars PROVE LoadInv' OBVIOUS
    <2>0. /\ num \in Nat \ {0} /\ den \in Nat \ {0} /\ lo \in Int /\ hi \in Nat
          /\ Weights \subseteq Nat \ {0} /\ Unit \in Nat \ {0}
        BY WeightsType, UnitType DEF LoadInv, LoadTypeOK
    <2>a. UNCHANGED asked => Weights' = Weights /\ Unit' = Unit
        BY DEF asked, Weights, Unit, Drawn
    <2>1. CASE Build
        <3>0. UNCHANGED asked /\ num' = num /\ den' = den /\ grown' = grown /\ load_pc' = "compare"
            BY <2>1 DEF Build
        <3>1. load' = NaN \/ \E w \in Weights : load' = w * num
            <4>1. CASE BuildPi
                BY <4>1 DEF BuildPi, Weights
            <4>2. ASSUME NEW spine \in SpineLengths, NEW f1 \in Percents,
                         NEW f2 \in Percents, NEW drawn \in Percents, NEW c \in lower_caps,
                         BuildSeveral(spine, f1, f2, c, drawn)
                  PROVE  load' = NaN \/ \E w \in Weights : load' = w * num
                <5>1. Drawn(spine, f1, f2, c) \in Weights
                    BY <4>2 DEF BuildSeveral, Weights
                <5> QED BY <4>2, <5>1 DEF BuildSeveral
            <4> QED BY <2>1, <4>1, <4>2 DEF Build
        <3>2. load' \in Nat \cup {NaN}
            BY <2>0, <3>1
        <3>3. tries' \in 0..MaxTries
            <4>1. tries < MaxTries BY <2>1 DEF Build, LoadInv, LoadTypeOK
            <4> QED BY <2>1, <4>1 DEF Build, LoadInv, LoadTypeOK
        <3>4. LoadTypeOK' BY <3>0, <3>2, <3>3 DEF LoadInv, LoadTypeOK, asked
        <3>5. LoadDrawn' BY <2>a, <3>0, <3>1 DEF LoadDrawn
        <3>6. GrownFromBelow' BY <2>a, <3>0 DEF GrownFromBelow, LoadInv, asked
        <3> QED BY <3>4, <3>5, <3>6 DEF LoadInv
    <2>2. CASE Shorten
        <3>0. /\ UNCHANGED asked /\ num' = num /\ den' = 2 * den /\ grown' = grown
              /\ load_pc' = "build" /\ load' = load /\ tries' = tries
            BY <2>2 DEF Shorten, Halve
        <3>1. LoadTypeOK'
            <4>1. 2 * den \in Nat \ {0} BY <2>0
            <4> QED BY <3>0, <4>1 DEF LoadInv, LoadTypeOK, asked
        <3>2. ASSUME grown PROVE \E w \in Weights : 2 * (w * num) < 3 * (lo * ((2 * den) * Unit))
            <4>1. PICK w \in Weights : 2 * (w * num) < 3 * (lo * (den * Unit))
                BY <3>2 DEF LoadInv, GrownFromBelow
            <4> QED BY <2>0, <4>1, HalfStaysBelow
        <3>3. GrownFromBelow' BY <2>a, <3>0, <3>2 DEF GrownFromBelow, asked
        <3> QED BY <3>0, <3>1, <3>3 DEF LoadInv, LoadDrawn
    <2>3. CASE Lengthen
        <3>0. /\ UNCHANGED asked /\ num' = 3 * num /\ den' = 2 * den /\ grown' = TRUE
              /\ load_pc' = "build" /\ load' = load /\ tries' = tries /\ load_pc = "compare"
              /\ load # NaN /\ load < lo * (den * Unit)
            BY <2>3 DEF Lengthen, Grow, TooSmall
        <3>1. LoadTypeOK'
            <4>1. 2 * den \in Nat \ {0} /\ 3 * num \in Nat \ {0} BY <2>0
            <4> QED BY <3>0, <4>1 DEF LoadInv, LoadTypeOK, asked
        <3>2. PICK w \in Weights : load = w * num
            BY <3>0 DEF LoadInv, LoadDrawn
        <3>3. 2 * (w * (3 * num)) < 3 * (lo * ((2 * den) * Unit))
            BY <2>0, <3>0, <3>2, GrowthStaysBelow
        <3>4. GrownFromBelow' BY <2>a, <3>0, <3>3 DEF GrownFromBelow, asked
        <3> QED BY <3>0, <3>1, <3>4 DEF LoadInv, LoadDrawn
    <2>4. CASE Accept
        <3>1. /\ UNCHANGED asked /\ num' = num /\ den' = den /\ grown' = grown
              /\ load_pc' = "done" /\ load' = load /\ tries' = tries
            BY <2>4 DEF Accept
        <3> QED BY <2>a, <3>1 DEF LoadInv, LoadTypeOK, LoadDrawn, GrownFromBelow, asked
    <2>5. CASE UNCHANGED load_vars
        <3>1. UNCHANGED asked BY <2>5 DEF load_vars, asked
        <3> QED BY <2>5, <2>a, <3>1 DEF load_vars, LoadInv, LoadTypeOK, LoadDrawn, GrownFromBelow
    <2> QED BY <2>1, <2>2, <2>3, <2>4, <2>5 DEF LoadNext
<1> QED BY <1>1, <1>2, PTL DEF LoadSpec

\* Of no net, with whatever lengths and layers are drawn for its wires, is a
\* length that was found too small found too large again, if the window is wide.
THEOREM LoadNoSwing == LoadSpec => []NoSwing
<1>1. LoadInv => NoSwing
    <2> SUFFICES ASSUME LoadInv, Wide, load_pc = "compare", grown, load # NaN
                 PROVE  ~(load > hi * (den * Unit))
        BY DEF NoSwing, TooLarge
    <2>1. PICK v \in Weights : load = v * num BY DEF LoadInv, LoadDrawn
    <2>2. PICK w \in Weights : 2 * (w * num) < 3 * (lo * (den * Unit))
        BY DEF LoadInv, GrownFromBelow
    <2>3. 3 * (lo * v) <= 2 * (hi * w) BY DEF Wide
    <2>4. /\ v \in Nat \ {0} /\ w \in Nat \ {0} /\ num \in Nat /\ lo \in Int /\ hi \in Nat
          /\ den * Unit \in Nat \ {0}
        <3>1. den \in Nat \ {0} /\ Unit \in Nat \ {0}
            BY UnitType DEF LoadInv, LoadTypeOK
        <3> QED BY <3>1, WeightsType DEF LoadInv, LoadTypeOK
    <2> QED BY <2>1, <2>2, <2>3, <2>4, WideEnough
<1> QED BY <1>1, LoadInvariant, PTL

=============================================================================
