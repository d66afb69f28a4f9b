------------------------- MODULE RandomNets_proofs -------------------------
(***************************************************************************)
(* The instances that RandomNets numbers are distinct, for every library,  *)
(* number of nets and of receivers, and for both kinds of testsuite.       *)
(*                                                                         *)
(* The argument: inst_num only grows, and numbers are used in the order in *)
(* which they are made.  So they grow along each net and from each net to  *)
(* the next, and all of them are behind the counter; while a net is open,  *)
(* those of the finished nets are behind its driver, which is behind its   *)
(* receivers.                                                              *)
(***************************************************************************)
EXTENDS RandomNets, SequenceTheorems, WellFoundedInduction, TLAPS

\* Everything finished so far has numbers below this one.
Front == IF pc \in {"receivers", "net"} /\ ~stress THEN driver.inst ELSE inst_num

Increasing(n) ==
    \A k, l \in Places(n) : k < l => InstOf(n, k) < InstOf(n, l)

Below(n, b) == \A k \in Places(n) : InstOf(n, k) < b

NetsOrdered ==
    \A i \in 1..Len(nets) :
        /\ Increasing(nets[i])
        /\ Below(nets[i], Front)
        /\ \A j \in 1..Len(nets) : i < j =>
              \A k \in Places(nets[i]), l \in Places(nets[j]) :
                  InstOf(nets[i], k) < InstOf(nets[j], l)

CircuitsOrdered ==
    \A i \in 1..Len(cktmgr) :
        /\ cktmgr[i].driver.inst < cktmgr[i].load.inst
        /\ cktmgr[i].load.inst < Front
        /\ \A j \in 1..Len(cktmgr) :
              i < j => cktmgr[i].load.inst < cktmgr[j].driver.inst

\* The net that is being made: its receivers come after its driver, one after
\* another, and the circuit's load is the first of them.
OpenNet ==
    /\ driver.inst < inst_num
    /\ \A k \in 1..Len(receivers) :
          /\ driver.inst < receivers[k].inst /\ receivers[k].inst < inst_num
          /\ \A l \in 1..Len(receivers) : k < l => receivers[k].inst < receivers[l].inst
    /\ load = IF receivers = <<>> THEN NoInst ELSE receivers[1]
    /\ pc = "net" => receivers # <<>>

\* What is picked is a cell of the library.
Picked ==
    pc \in {"receivers", "net"} =>
        driver \in InstancePin /\ (stress => load \in InstancePin)

Ordered ==
    /\ pc = "receivers" => ~stress
    /\ ~stress => NetsOrdered
    /\ ~stress /\ pc \in {"receivers", "net"} => OpenNet
    /\ CircuitsOrdered

IInv == TypeOK /\ Picked /\ Ordered

-----------------------------------------------------------------------------
\* What LibraryAssumption says of one cell and of its arcs.
LEMMA CellType ==
    ASSUME NEW c \in Cells
    PROVE  /\ Library[c].out \in STRING \cup {NoPin}
           /\ Library[c].ins \subseteq STRING
           /\ \A a \in Library[c].arcs :
                 /\ a.related \in STRING
                 /\ a.min_load \in Nat /\ a.max_load \in Nat
                 /\ a.min_cap \in Nat /\ a.max_cap \in Nat
BY LibraryAssumption DEF Cells

\* An instance is numbered by the counter.
LEMMA InstanceType ==
    ASSUME NEW c \in Cells, NEW in \in STRING, inst_num \in Nat
    PROVE  /\ Instance(c, in) \in InstancePin
           /\ Instance(c, in).cell = c
           /\ Instance(c, in).inst = inst_num
<1>1. Library[c].out \in STRING \cup {NoPin}
    BY CellType
<1> QED BY <1>1 DEF Instance, InstancePin

\* The net made of a driver and of receivers has their instances at its places.
LEMMA NewNet ==
    ASSUME NEW drv \in InstancePin, NEW rs \in Seq(InstancePin), NEW n,
           n = [driver |-> <<drv.inst, drv.out>>, receivers |-> Pins(rs)]
    PROVE  /\ n \in Net
           /\ Places(n) = 0..Len(rs)
           /\ InstOf(n, 0) = drv.inst
           /\ \A k \in 1..Len(rs) : InstOf(n, k) = rs[k].inst
<1>1. DOMAIN rs = 1..Len(rs) /\ Len(rs) \in Nat
    BY LenProperties
<1>2. \A k \in 1..Len(rs) : <<rs[k].inst, rs[k].in>> \in Pin
    <2> TAKE k \in 1..Len(rs)
    <2>1. rs[k] \in InstancePin
        BY ElementOfSeq
    <2> QED BY <2>1 DEF InstancePin, Pin
<1>3. Pins(rs) = [k \in 1..Len(rs) |-> <<rs[k].inst, rs[k].in>>]
    BY <1>1 DEF Pins
<1>4. Pins(rs) \in [1..Len(rs) -> Pin]
    BY <1>2, <1>3
<1>5. Pins(rs) \in Seq(Pin) /\ Len(Pins(rs)) = Len(rs)
    <2>1. Pins(rs) \in Seq(Pin)
        BY <1>1, <1>4, SeqDef
    <2>2. DOMAIN Pins(rs) = 1..Len(rs) /\ DOMAIN Pins(rs) = 1..Len(Pins(rs))
        BY <1>3, <2>1, LenProperties
    <2>3. Len(Pins(rs)) \in Nat
        BY <2>1, LenProperties
    <2> QED BY <1>1, <2>1, <2>2, <2>3
<1>6. <<drv.inst, drv.out>> \in Pin
    BY DEF InstancePin, Pin
<1>7. n \in Net
    BY <1>5, <1>6 DEF Net
<1>8. Places(n) = 0..Len(rs)
    BY <1>5 DEF Places
<1>9. InstOf(n, 0) = drv.inst
    BY DEF InstOf
<1>10. \A k \in 1..Len(rs) : InstOf(n, k) = rs[k].inst
    BY <1>1, <1>3 DEF InstOf
<1> QED BY <1>7, <1>8, <1>9, <1>10

\* The instances of a net and of a circuit are numbers.
LEMMA NumbersType ==
    /\ \A p \in InstancePin : p.inst \in Nat
    /\ \A n \in Net : \A k \in Places(n) : InstOf(n, k) \in Nat
    /\ \A c \in Circuit : c.driver.inst \in Nat /\ c.load.inst \in Nat
<1>1. \A p \in InstancePin : p.inst \in Nat
    BY DEF InstancePin
<1>2. ASSUME NEW n \in Net, NEW k \in Places(n)
      PROVE  InstOf(n, k) \in Nat
    <2>1. n.driver \in Pin /\ n.receivers \in Seq(Pin)
        BY DEF Net
    <2>2. CASE k = 0
        BY <2>1, <2>2 DEF InstOf, Pin
    <2>3. CASE k # 0
        <3>1. k \in 1..Len(n.receivers)
            BY <2>1, <2>3, LenProperties DEF Places
        <3>2. n.receivers[k] \in Pin
            BY <2>1, <3>1, ElementOfSeq
        <3> QED BY <2>3, <3>2 DEF InstOf, Pin
    <2> QED BY <2>2, <2>3
<1>3. \A c \in Circuit : c.driver.inst \in Nat /\ c.load.inst \in Nat
    BY <1>1 DEF Circuit
<1> QED BY <1>1, <1>2, <1>3

-----------------------------------------------------------------------------
\* A net and a circuit made of instances are typed.
LEMMA AddNetType ==
    ASSUME NEW drv \in InstancePin, NEW rs \in Seq(InstancePin), NEW ld \in InstancePin,
           rs # <<>>, nets \in Seq(Net), cktmgr \in Seq(Circuit), AddNet(drv, rs, ld)
    PROVE  nets' \in Seq(Net) /\ cktmgr' \in Seq(Circuit)
<1>1. rs[1] \in InstancePin
    BY EmptySeq, LenProperties, ElementOfSeq
<1> DEFINE n == [driver |-> <<drv.inst, drv.out>>, receivers |-> Pins(rs)]
           c == [driver |-> drv, driver_celltype |-> drv.cell,
                 load |-> ld, load_celltype |-> rs[1].cell]
<1>2. n \in Net
    BY NewNet
<1>3. c \in Circuit
    BY <1>1 DEF Circuit, InstancePin
<1>4. nets' = Append(nets, n) /\ cktmgr' = Append(cktmgr, c)
    BY DEF AddNet
<1> HIDE DEF n, c
<1> QED BY <1>2, <1>3, <1>4, AppendProperties

\* Picking a driver and a receiver, and making nets, keep the types.
LEMMA TypeStep ==
    ASSUME IInv, Next
    PROVE  TypeOK'
<1> USE DEF IInv
<1>0. ASSUME Crash PROVE TypeOK'
    BY <1>0 DEF TypeOK, Crash, limits, output
<1>1. ASSUME PickDriver PROVE TypeOK'
    <2>1. PICK c \in Cells :
              \/ Crash
              \/ \E a \in Library[c].arcs, in \in Library[c].ins :
                    /\ driver' = Instance(c, in)
                    /\ CountInstance
                    /\ largest_min_load' = a.min_load
                    /\ smallest_max_load' = a.max_load
                    /\ num_receivers' \in ReceiverCounts
                    /\ receivers' = <<>> /\ load' = NoInst
                    /\ StartCaps
                    /\ pc' = "receivers"
                    /\ UNCHANGED <<output, d, stress>>
        BY <1>1 DEF PickDriver, Crash
    <2>2. CASE Crash
        BY <2>2, <1>0
    <2>3. ASSUME NEW a \in Library[c].arcs, NEW in \in Library[c].ins,
                 /\ driver' = Instance(c, in)
                 /\ CountInstance
                 /\ largest_min_load' = a.min_load
                 /\ smallest_max_load' = a.max_load
                 /\ num_receivers' \in ReceiverCounts
                 /\ receivers' = <<>> /\ load' = NoInst
                 /\ StartCaps
                 /\ pc' = "receivers"
                 /\ UNCHANGED <<output, d, stress>>
          PROVE  TypeOK'
        <3>1. driver' \in InstancePin
            BY <2>3, CellType, InstanceType DEF TypeOK
        <3>2. largest_min_load' \in Int /\ smallest_max_load' \in Int
            BY <2>3, CellType
        <3>3. num_receivers' \in 1..MaxReceivers /\ num_receivers' \in Nat
            BY <2>3, OptionsAssumption DEF ReceiverCounts
        <3>4. receivers' \in Seq(InstancePin)
            BY <2>3, EmptySeq
        <3> QED BY <2>3, <3>1, <3>2, <3>3, <3>4 DEF TypeOK, CountInstance, StartCaps, output
    <2> QED BY <2>1, <2>2, <2>3
<1>2. ASSUME PickReceiver PROVE TypeOK'
    <2>1. PICK c \in Cells :
              \/ Crash
              \/ \E a \in Library[c].arcs :
                    /\ receivers' = Append(receivers, Instance(c, a.related))
                    /\ CountInstance
                    /\ LoadIsFirst(Instance(c, a.related))
                    /\ cap_range' = <<cap_range[1] + a.min_cap, cap_range[2] + a.max_cap>>
                    /\ UNCHANGED <<pc, driver, num_receivers, largest_min_load,
                                   smallest_max_load, output, d, stress>>
        BY <1>2 DEF PickReceiver, Crash
    <2>2. CASE Crash
        BY <2>2, <1>0
    <2>3. ASSUME NEW a \in Library[c].arcs,
                 /\ receivers' = Append(receivers, Instance(c, a.related))
                 /\ CountInstance
                 /\ LoadIsFirst(Instance(c, a.related))
                 /\ cap_range' = <<cap_range[1] + a.min_cap, cap_range[2] + a.max_cap>>
                 /\ UNCHANGED <<pc, driver, num_receivers, largest_min_load,
                                smallest_max_load, output, d, stress>>
          PROVE  TypeOK'
        <3>1. Instance(c, a.related) \in InstancePin
            BY CellType, InstanceType DEF TypeOK
        <3>2. receivers' \in Seq(InstancePin)
            BY <2>3, <3>1, AppendProperties DEF TypeOK
        <3>3. load' \in InstancePin \cup {NoInst}
            BY <2>3, <3>1 DEF TypeOK, LoadIsFirst
        <3>4. a.min_cap \in Nat /\ a.max_cap \in Nat
            BY CellType
        <3>5. cap_range' \in Nat \X Nat
            BY <2>3, <3>4 DEF TypeOK
        <3> QED BY <2>3, <3>2, <3>3, <3>5 DEF TypeOK, CountInstance, output
    <2> QED BY <2>1, <2>2, <2>3
<1>3. ASSUME ReduceLoad PROVE TypeOK'
    BY <1>3 DEF ReduceLoad, TypeOK, output
<1>4. ASSUME MakeNet PROVE TypeOK'
    <2>1. driver \in InstancePin /\ load \in InstancePin /\ receivers # <<>>
        <3>1. receivers # <<>> /\ load = receivers[1]
            BY <1>4 DEF MakeNet, OpenNet, Ordered
        <3>2. receivers[1] \in InstancePin
            BY <3>1, EmptySeq, LenProperties, ElementOfSeq DEF TypeOK
        <3> QED BY <1>4, <3>1, <3>2 DEF MakeNet, Picked
    <2>2. nets' \in Seq(Net) /\ cktmgr' \in Seq(Circuit)
        BY <1>4, <2>1, AddNetType DEF MakeNet, TypeOK
    <2> QED BY <1>4, <2>2 DEF MakeNet, TypeOK, limits
<1>5. ASSUME PickStressDriver PROVE TypeOK'
    <2>1. CASE Crash
        BY <2>1, <1>0
    <2>2. CASE ~Crash
        <3>1. PICK in \in Library[StressDrivers[d]].ins, rin \in Library[StressReceiver].ins :
                 /\ driver' = Instance(StressDrivers[d], in)
                 /\ load' = Instance(StressReceiver, rin)
                 /\ StressDrivers[d] \in Cells /\ StressReceiver \in Cells
            BY <1>5, <2>2 DEF PickStressDriver, StressCellsUsable
        <3>2. driver' \in InstancePin /\ load' \in InstancePin
            BY <3>1, CellType, InstanceType DEF TypeOK
        <3>3. receivers' \in Seq(InstancePin)
            BY <1>5, <2>2, EmptySeq DEF PickStressDriver
        <3>4. UNCHANGED <<inst_num, limits, output, d, stress>> /\ pc' = "net" /\ num_receivers' = 0
            BY <1>5, <2>2 DEF PickStressDriver
        <3> QED BY <3>2, <3>3, <3>4 DEF TypeOK, limits, output
    <2> QED BY <2>1, <2>2
<1>6. ASSUME MakeStressNet PROVE TypeOK'
    <2>1. driver' \in InstancePin /\ load' \in InstancePin
        <3>1. driver \in InstancePin /\ load \in InstancePin /\ inst_num \in Nat
            BY <1>6 DEF MakeStressNet, Picked, TypeOK
        <3>2. /\ driver' = [driver EXCEPT !.inst = inst_num]
              /\ load' = [load EXCEPT !.inst = inst_num + 1]
            BY <1>6 DEF MakeStressNet
        <3>3. inst_num + 1 \in Nat
            BY <3>1
        <3> QED BY <3>1, <3>2, <3>3 DEF InstancePin
    <2>2. receivers' \in Seq(InstancePin) /\ receivers' # <<>>
        BY <1>6, <2>1, AppendProperties DEF MakeStressNet, TypeOK
    <2>3. <<receivers'[1]>> \in Seq(InstancePin) /\ <<receivers'[1]>> # <<>>
        <3>1. receivers'[1] \in InstancePin
            BY <2>2, EmptySeq, LenProperties, ElementOfSeq
        <3> QED BY <3>1
    <2>4. AddNet(driver', <<receivers'[1]>>, load')
        BY <1>6 DEF MakeStressNet, AddStressNet
    <2>5. nets' \in Seq(Net) /\ cktmgr' \in Seq(Circuit)
        BY <2>1, <2>3, <2>4, AddNetType DEF TypeOK
    <2>6. /\ inst_num' = inst_num + 2 /\ num_receivers' = num_receivers + 1
          /\ UNCHANGED <<pc, limits, d, stress>> /\ pc = "net"
        BY <1>6 DEF MakeStressNet, CountBoth
    <2> QED BY <2>1, <2>2, <2>5, <2>6 DEF TypeOK, limits
<1>7. ASSUME NextStressDriver PROVE TypeOK'
    BY <1>7 DEF NextStressDriver, TypeOK, limits, output
<1>8. ASSUME Finish PROVE TypeOK'
    BY <1>8 DEF Finish, TypeOK, limits, output
<1> QED BY <1>1, <1>2, <1>3, <1>4, <1>5, <1>6, <1>7, <1>8 DEF Next

-----------------------------------------------------------------------------
LEMMA FrontType ==
    /\ TypeOK /\ Picked => Front \in Nat
    /\ TypeOK' /\ Picked' => Front' \in Nat
BY NumbersType DEF Front, TypeOK, Picked

\* The front may move on as long as nothing is finished.
LEMMA FrontMoves ==
    ASSUME TypeOK, Front \in Nat, Front' \in Nat, Front <= Front', UNCHANGED output
    PROVE  /\ CircuitsOrdered => CircuitsOrdered'
           /\ NetsOrdered => NetsOrdered'
<1>1. nets' = nets /\ cktmgr' = cktmgr
    BY DEF output
<1>2. \A i \in 1..Len(cktmgr) : cktmgr[i] \in Circuit
    BY ElementOfSeq DEF TypeOK
<1>3. \A i \in 1..Len(nets) : nets[i] \in Net
    BY ElementOfSeq DEF TypeOK
<1>4. ASSUME CircuitsOrdered PROVE CircuitsOrdered'
    <2>1. \A i \in 1..Len(cktmgr) : cktmgr[i].load.inst < Front'
        BY <1>2, <1>4, NumbersType DEF CircuitsOrdered
    <2> QED BY <1>1, <1>4, <2>1 DEF CircuitsOrdered
<1>5. ASSUME NetsOrdered PROVE NetsOrdered'
    <2>1. ASSUME NEW i \in 1..Len(nets) PROVE Below(nets[i], Front')
        <3>1. Below(nets[i], Front)
            BY <1>5 DEF NetsOrdered
        <3> QED BY <1>3, <3>1, NumbersType DEF Below
    <2> QED BY <1>1, <1>5, <2>1 DEF NetsOrdered
<1> QED BY <1>4, <1>5

\* A circuit whose instances are at and above the front goes after the others.
LEMMA CircuitAdded ==
    ASSUME TypeOK, CircuitsOrdered, Front \in Nat, Front' \in Nat,
           NEW c \in Circuit, cktmgr' = Append(cktmgr, c),
           Front <= c.driver.inst, c.driver.inst < c.load.inst, c.load.inst < Front'
    PROVE  CircuitsOrdered'
<1>1. /\ Len(cktmgr') = Len(cktmgr) + 1 /\ Len(cktmgr) \in Nat
      /\ \A i \in 1..Len(cktmgr) : cktmgr'[i] = cktmgr[i] /\ cktmgr[i] \in Circuit
      /\ cktmgr'[Len(cktmgr) + 1] = c
    BY AppendProperties, ElementOfSeq, LenProperties DEF TypeOK
<1>2. ASSUME NEW i \in 1..Len(cktmgr')
      PROVE  /\ cktmgr'[i].driver.inst < cktmgr'[i].load.inst
             /\ cktmgr'[i].load.inst < Front'
             /\ \A j \in 1..Len(cktmgr') :
                   i < j => cktmgr'[i].load.inst < cktmgr'[j].driver.inst
    <2>1. CASE i = Len(cktmgr) + 1
        BY <1>1, <2>1
    <2>2. CASE i \in 1..Len(cktmgr)
        <3>1. /\ cktmgr[i].driver.inst < cktmgr[i].load.inst
              /\ cktmgr[i].load.inst < Front
              /\ \A j \in 1..Len(cktmgr) :
                    i < j => cktmgr[i].load.inst < cktmgr[j].driver.inst
            BY <2>2 DEF CircuitsOrdered
        <3>2. cktmgr[i].load.inst \in Nat /\ c.driver.inst \in Nat /\ c.load.inst \in Nat
            BY <1>1, <2>2, NumbersType
        <3>3. cktmgr[i].load.inst < c.driver.inst /\ cktmgr[i].load.inst < Front'
            <4>1. \A v, w, x, y, z \in Nat :
                     v < w /\ w <= x /\ x < y /\ y < z => v < x /\ v < z
                OBVIOUS
            <4>2. cktmgr[i].load.inst < Front
                BY <3>1
            <4> QED BY <3>2, <4>1, <4>2
        <3>4. ASSUME NEW j \in 1..Len(cktmgr'), i < j
              PROVE  cktmgr'[i].load.inst < cktmgr'[j].driver.inst
            <4>1. j = Len(cktmgr) + 1 \/ j \in 1..Len(cktmgr)
                BY <1>1
            <4> QED BY <1>1, <2>2, <3>1, <3>3, <3>4, <4>1
        <3> QED BY <1>1, <2>2, <3>1, <3>3, <3>4
    <2> QED BY <1>1, <1>2, <2>1, <2>2
<1> QED BY <1>2 DEF CircuitsOrdered

\* So does a net whose instances are.
LEMMA NetAdded ==
    ASSUME TypeOK, NetsOrdered, Front \in Nat, Front' \in Nat,
           NEW n \in Net, nets' = Append(nets, n),
           Increasing(n), Below(n, Front'), \A k \in Places(n) : Front <= InstOf(n, k)
    PROVE  NetsOrdered'
<1>1. /\ Len(nets') = Len(nets) + 1 /\ Len(nets) \in Nat
      /\ \A i \in 1..Len(nets) : nets'[i] = nets[i] /\ nets[i] \in Net
      /\ nets'[Len(nets) + 1] = n
    BY AppendProperties, ElementOfSeq, LenProperties DEF TypeOK
<1>2. ASSUME NEW i \in 1..Len(nets')
      PROVE  /\ Increasing(nets'[i])
             /\ Below(nets'[i], Front')
             /\ \A j \in 1..Len(nets') : i < j =>
                   \A k \in Places(nets'[i]), l \in Places(nets'[j]) :
                       InstOf(nets'[i], k) < InstOf(nets'[j], l)
    <2>1. CASE i = Len(nets) + 1
        BY <1>1, <2>1
    <2>2. CASE i \in 1..Len(nets)
        <3>1. /\ Increasing(nets[i])
              /\ Below(nets[i], Front)
              /\ \A j \in 1..Len(nets) : i < j =>
                    \A k \in Places(nets[i]), l \in Places(nets[j]) :
                        InstOf(nets[i], k) < InstOf(nets[j], l)
            BY <2>2 DEF NetsOrdered
        <3>2. ASSUME NEW k \in Places(nets[i])
              PROVE  /\ InstOf(nets[i], k) < Front'
                     /\ \A l \in Places(n) : InstOf(nets[i], k) < InstOf(n, l)
            <4>1. InstOf(nets[i], k) \in Nat /\ InstOf(nets[i], k) < Front
                BY <1>1, <2>2, <3>1, NumbersType DEF Below
            <4>2. \A l \in Places(n) : InstOf(n, l) \in Nat /\ InstOf(n, l) < Front'
                BY NumbersType DEF Below
            <4>3. 0 \in Places(n)
                <5>1. n.receivers \in Seq(Pin)
                    BY DEF Net
                <5>2. Len(n.receivers) \in Nat
                    BY <5>1, LenProperties
                <5>3. 0 \in 0..Len(n.receivers)
                    BY <5>2
                <5> QED BY <5>3 DEF Places
            <4> QED BY <4>1, <4>2, <4>3
        <3>3. Below(nets[i], Front')
            BY <3>2 DEF Below
        <3>4. ASSUME NEW j \in 1..Len(nets'), i < j
              PROVE  \A k \in Places(nets[i]), l \in Places(nets'[j]) :
                         InstOf(nets[i], k) < InstOf(nets'[j], l)
            <4>1. CASE j = Len(nets) + 1
                BY <1>1, <3>2, <4>1
            <4>2. CASE j \in 1..Len(nets)
                BY <1>1, <3>1, <3>4, <4>2
            <4> QED BY <1>1, <4>1, <4>2
        <3> QED BY <1>1, <2>2, <3>1, <3>3, <3>4
    <2>3. i = Len(nets) + 1 \/ i \in 1..Len(nets)
        BY <1>1
    <2> QED BY <2>1, <2>2, <2>3
<1> QED BY <1>2 DEF NetsOrdered, Increasing, Below

-----------------------------------------------------------------------------
\* The net opened last is finished: it goes after the others, and the next one
\* will start at the counter.
LEMMA OpenNetFinished ==
    ASSUME TypeOK, OpenNet, NetsOrdered, CircuitsOrdered, driver \in InstancePin,
           pc = "net", ~stress, Front \in Nat, Front' \in Nat, Front' = inst_num,
           AddNet(driver, receivers, load)
    PROVE  NetsOrdered' /\ CircuitsOrdered'
<1> DEFINE n == [driver |-> <<driver.inst, driver.out>>, receivers |-> Pins(receivers)]
           c == [driver |-> driver, driver_celltype |-> driver.cell,
                 load |-> load, load_celltype |-> receivers[1].cell]
<1>1. /\ receivers \in Seq(InstancePin) /\ Len(receivers) \in Nat
      /\ 1 \in 1..Len(receivers) /\ load = receivers[1] /\ load \in InstancePin
    <2>1. receivers \in Seq(InstancePin) /\ receivers # <<>> /\ load = receivers[1]
        BY DEF TypeOK, OpenNet
    <2>2. Len(receivers) \in Nat /\ Len(receivers) # 0
        BY <2>1, EmptySeq, LenProperties
    <2>3. 1 \in 1..Len(receivers)
        BY <2>2
    <2> QED BY <2>1, <2>2, <2>3, ElementOfSeq
<1>2. Front = driver.inst
    BY DEF Front
<1>3. /\ driver.inst < inst_num /\ driver.inst \in Nat /\ inst_num \in Nat
      /\ \A k \in 1..Len(receivers) :
            /\ receivers[k].inst \in Nat
            /\ driver.inst < receivers[k].inst /\ receivers[k].inst < inst_num
            /\ \A l \in 1..Len(receivers) : k < l => receivers[k].inst < receivers[l].inst
    BY <1>1, ElementOfSeq, NumbersType DEF OpenNet, TypeOK
<1>4. /\ n \in Net /\ Places(n) = 0..Len(receivers)
      /\ InstOf(n, 0) = driver.inst
      /\ \A k \in 1..Len(receivers) : InstOf(n, k) = receivers[k].inst
    BY <1>1, NewNet
<1>5. c \in Circuit /\ c.driver = driver /\ c.load = load
    BY <1>1 DEF Circuit, InstancePin
<1>6. nets' = Append(nets, n) /\ cktmgr' = Append(cktmgr, c)
    BY DEF AddNet
<1> HIDE DEF n, c
<1>7. \A k \in Places(n) : k = 0 \/ k \in 1..Len(receivers)
    BY <1>1, <1>4
<1>8. Increasing(n)
    BY <1>1, <1>3, <1>4, <1>7 DEF Increasing
<1>9. Below(n, Front') /\ \A k \in Places(n) : Front <= InstOf(n, k)
    BY <1>2, <1>3, <1>4, <1>7 DEF Below
<1>10. NetsOrdered'
    BY <1>4, <1>6, <1>8, <1>9, NetAdded
<1>11. CircuitsOrdered'
    BY <1>1, <1>2, <1>3, <1>5, <1>6, CircuitAdded
<1> QED BY <1>10, <1>11

-----------------------------------------------------------------------------
\* While something is picked, it was picked from the library.
LEMMA PickedStep ==
    ASSUME IInv, Next
    PROVE  Picked'
<1> USE DEF IInv, Ordered
<1>1. ASSUME PickDriver PROVE Picked'
    <2>1. CASE Crash
        BY <2>1 DEF Crash, Picked
    <2>2. CASE ~Crash
        <3>1. PICK c \in Cells : \E in \in Library[c].ins :
                 driver' = Instance(c, in) /\ ~stress /\ stress' = stress
            BY <1>1, <2>2 DEF PickDriver
        <3>2. PICK in \in Library[c].ins : driver' = Instance(c, in)
            BY <3>1
        <3>3. in \in STRING /\ inst_num \in Nat
            BY CellType DEF TypeOK
        <3>4. driver' \in InstancePin
            BY <3>2, <3>3, InstanceType
        <3> QED BY <3>1, <3>4 DEF Picked
    <2> QED BY <2>1, <2>2
<1>2. ASSUME PickReceiver PROVE Picked'
    <2>1. CASE Crash
        BY <2>1 DEF Crash, Picked
    <2>2. CASE ~Crash
        <3>1. UNCHANGED <<pc, driver, stress>> /\ pc = "receivers"
            BY <1>2, <2>2 DEF PickReceiver
        <3> QED BY <3>1 DEF Picked
    <2> QED BY <2>1, <2>2
<1>3. ASSUME ReduceLoad PROVE Picked'
    BY <1>3 DEF ReduceLoad, Picked
<1>4. ASSUME MakeNet PROVE Picked'
    BY <1>4 DEF MakeNet, Picked
<1>5. ASSUME PickStressDriver PROVE Picked'
    <2>1. CASE Crash
        BY <2>1 DEF Crash, Picked
    <2>2. CASE ~Crash
        <3>1. PICK in \in Library[StressDrivers[d]].ins, rin \in Library[StressReceiver].ins :
                 /\ driver' = Instance(StressDrivers[d], in)
                 /\ load' = Instance(StressReceiver, rin)
                 /\ StressDrivers[d] \in Cells /\ StressReceiver \in Cells
            BY <1>5, <2>2 DEF PickStressDriver, StressCellsUsable
        <3>2. driver' \in InstancePin /\ load' \in InstancePin
            BY <3>1, CellType, InstanceType DEF TypeOK
        <3> QED BY <3>2 DEF Picked
    <2> QED BY <2>1, <2>2
<1>6. ASSUME MakeStressNet PROVE Picked'
    <2>1. driver \in InstancePin /\ load \in InstancePin /\ inst_num \in Nat
        BY <1>6 DEF MakeStressNet, Picked, TypeOK
    <2>2. /\ driver' = [driver EXCEPT !.inst = inst_num]
          /\ load' = [load EXCEPT !.inst = inst_num + 1]
        BY <1>6 DEF MakeStressNet
    <2>3. inst_num + 1 \in Nat
        BY <2>1
    <2>4. driver' \in InstancePin /\ load' \in InstancePin
        BY <2>1, <2>2, <2>3 DEF InstancePin
    <2> QED BY <2>4 DEF Picked
<1>7. ASSUME NextStressDriver PROVE Picked'
    BY <1>7 DEF NextStressDriver, Picked
<1>8. ASSUME Finish PROVE Picked'
    BY <1>8 DEF Finish, Picked
<1> QED BY <1>1, <1>2, <1>3, <1>4, <1>5, <1>6, <1>7, <1>8 DEF Next

\* Nothing finished has a number the counter has not passed.
LEMMA FrontBehind ==
    ASSUME IInv
    PROVE  Front \in Nat /\ inst_num \in Nat /\ Front <= inst_num
<1>1. Front \in Nat /\ inst_num \in Nat
    BY FrontType DEF IInv, TypeOK
<1>2. CASE ~stress /\ pc \in {"receivers", "net"}
    <2>1. Front = driver.inst /\ driver.inst < inst_num
        BY <1>2 DEF Front, IInv, Ordered, OpenNet
    <2> QED BY <1>1, <2>1
<1>3. CASE ~(~stress /\ pc \in {"receivers", "net"})
    BY <1>1, <1>3 DEF Front
<1> QED BY <1>1, <1>2, <1>3

\* A step that finishes nothing keeps the order, if the front does not go back.
LEMMA NothingFinished ==
    ASSUME IInv, TypeOK', Picked', UNCHANGED output, stress' = stress, Front <= Front'
    PROVE  (~stress' => NetsOrdered') /\ CircuitsOrdered'
<1>1. Front \in Nat /\ Front' \in Nat
    BY FrontType DEF IInv
<1>2. (CircuitsOrdered => CircuitsOrdered') /\ (NetsOrdered => NetsOrdered')
    BY <1>1, FrontMoves DEF IInv, Ordered
<1> QED BY <1>2 DEF IInv, Ordered

LEMMA OrderStep ==
    ASSUME IInv, Next, TypeOK', Picked'
    PROVE  Ordered'
<1>0. ASSUME Crash PROVE Ordered'
    <2>1. Front' = inst_num
        BY <1>0 DEF Crash, Front
    <2>2. Front <= Front'
        BY <2>1, FrontBehind
    <2> QED BY <1>0, <2>2, NothingFinished DEF Crash, Ordered
<1>1. ASSUME PickDriver PROVE Ordered'
    <2>1. CASE Crash
        BY <1>0, <2>1
    <2>2. CASE ~Crash
        <3>1. PICK c \in Cells : \E in \in Library[c].ins :
                 /\ driver' = Instance(c, in) /\ inst_num' = inst_num + 1
                 /\ receivers' = <<>> /\ load' = NoInst /\ pc' = "receivers"
                 /\ pc = "driver" /\ ~stress /\ UNCHANGED <<output, stress>>
            BY <1>1, <2>2 DEF PickDriver, CountInstance
        <3>2. driver'.inst = inst_num /\ inst_num \in Nat
            <4>1. inst_num \in Nat /\ Library[c].ins \subseteq STRING
                BY CellType DEF IInv, TypeOK
            <4>2. PICK in \in Library[c].ins : driver' = Instance(c, in)
                BY <3>1
            <4> QED BY <4>1, <4>2, InstanceType
        <3>3. Front = inst_num /\ Front' = inst_num
            BY <3>1, <3>2 DEF Front
        <3>4. Front <= Front'
            BY <3>2, <3>3
        <3>5. OpenNet'
            BY <3>1, <3>2 DEF OpenNet
        <3> QED BY <3>1, <3>4, <3>5, NothingFinished DEF Ordered
    <2> QED BY <2>1, <2>2
<1>2. ASSUME PickReceiver PROVE Ordered'
    <2>1. CASE Crash
        BY <1>0, <2>1
    <2>2. CASE ~Crash
        <3>0. PICK c \in Cells : \E a \in Library[c].arcs :
                 /\ receivers' = Append(receivers, Instance(c, a.related))
                 /\ LoadIsFirst(Instance(c, a.related))
                 /\ inst_num' = inst_num + 1 /\ pc = "receivers"
                 /\ UNCHANGED <<pc, driver, output, stress>>
            BY <1>2, <2>2 DEF PickReceiver, CountInstance
        <3>1. PICK a \in Library[c].arcs :
                 /\ receivers' = Append(receivers, Instance(c, a.related))
                 /\ LoadIsFirst(Instance(c, a.related))
                 /\ inst_num' = inst_num + 1 /\ pc = "receivers"
                 /\ UNCHANGED <<pc, driver, output, stress>>
            BY <3>0
        <3> DEFINE r == Instance(c, a.related)
        <3>2. r \in InstancePin /\ r.inst = inst_num /\ inst_num \in Nat \ {0}
            BY CellType, InstanceType DEF IInv, TypeOK
        <3>3. receivers \in Seq(InstancePin) /\ driver \in InstancePin /\ ~stress /\ OpenNet
            BY <3>1 DEF IInv, TypeOK, Picked, Ordered
        <3>4. receivers' = Append(receivers, r)
              /\ load' = IF load = NoInst THEN r ELSE load
            BY <3>1 DEF LoadIsFirst
        <3> HIDE DEF r
        <3>5. /\ Len(receivers') = Len(receivers) + 1 /\ Len(receivers) \in Nat
              /\ \A k \in 1..Len(receivers) :
                    receivers'[k] = receivers[k] /\ receivers[k].inst \in Nat
              /\ receivers'[Len(receivers) + 1] = r /\ receivers' # <<>>
            BY <3>2, <3>3, <3>4, AppendProperties, ElementOfSeq, LenProperties, NumbersType
        <3>6. OpenNet'
            <4>1. driver'.inst < inst_num'
                BY <3>1, <3>2, <3>3, NumbersType DEF OpenNet
            <4>2. ASSUME NEW k \in 1..Len(receivers')
                  PROVE  /\ driver'.inst < receivers'[k].inst
                         /\ receivers'[k].inst < inst_num'
                         /\ \A l \in 1..Len(receivers') :
                               k < l => receivers'[k].inst < receivers'[l].inst
                <5>1. CASE k = Len(receivers) + 1
                    BY <3>1, <3>2, <3>3, <3>5, <5>1 DEF OpenNet
                <5>2. CASE k \in 1..Len(receivers)
                    <6>1. /\ driver.inst < receivers[k].inst /\ receivers[k].inst < inst_num
                          /\ \A l \in 1..Len(receivers) :
                                k < l => receivers[k].inst < receivers[l].inst
                        BY <3>3, <5>2 DEF OpenNet
                    <6> QED BY <3>1, <3>2, <3>5, <5>2, <6>1
                <5>3. k = Len(receivers) + 1 \/ k \in 1..Len(receivers)
                    BY <3>5
                <5> QED BY <5>1, <5>2, <5>3
            <4>3. load' = receivers'[1]
                <5>1. CASE receivers = <<>>
                    BY <3>3, <3>4, <5>1 DEF OpenNet
                <5>2. CASE receivers # <<>>
                    <6>1. load = receivers[1] /\ Len(receivers) # 0
                        BY <3>3, <5>2, EmptySeq DEF OpenNet
                    <6>2. 1 \in 1..Len(receivers)
                        BY <3>5, <6>1
                    <6>3. load.inst > driver.inst /\ driver.inst \in Nat /\ load.inst \in Nat
                        BY <3>3, <3>5, <6>1, <6>2, NumbersType DEF OpenNet
                    <6>4. load # NoInst
                        <7>1. NoInst.inst = 0
                            BY DEF NoInst
                        <7> QED BY <6>3, <7>1
                    <6> QED BY <3>4, <3>5, <6>1, <6>2, <6>4
                <5> QED BY <5>1, <5>2
            <4> QED BY <3>1, <3>5, <4>1, <4>2, <4>3 DEF OpenNet
        <3>7. Front = driver.inst /\ Front' = driver.inst /\ driver.inst \in Nat
            BY <3>1, <3>3, NumbersType DEF Front
        <3>8. Front <= Front'
            BY <3>7
        <3> QED BY <3>1, <3>3, <3>6, <3>8, NothingFinished DEF Ordered
    <2> QED BY <2>1, <2>2
<1>3. ASSUME ReduceLoad PROVE Ordered'
    <2>1. /\ UNCHANGED <<inst_num, driver, receivers, load, output, stress>>
          /\ pc' \in {"net", "aborted"} /\ pc = "receivers" /\ ~stress
        BY <1>3 DEF ReduceLoad, output, IInv, Ordered
    <2>2. OpenNet /\ receivers # <<>>
        <3>1. num_receivers \in 1..MaxReceivers /\ Len(receivers) = num_receivers
            BY <1>3 DEF ReduceLoad, IInv, TypeOK
        <3>2. Len(<<>>) = 0 /\ MaxReceivers \in Nat
            BY OptionsAssumption
        <3> QED BY <2>1, <3>1, <3>2 DEF IInv, Ordered
    <2>3. OpenNet'
        BY <2>1, <2>2 DEF OpenNet
    <2>4. Front <= Front'
        BY <2>1, FrontBehind DEF Front
    <2> QED BY <2>1, <2>3, <2>4, NothingFinished DEF Ordered
<1>4. ASSUME MakeNet PROVE Ordered'
    <2>1. /\ AddNet(driver, receivers, load) /\ pc = "net" /\ pc' = "driver"
          /\ ~stress /\ UNCHANGED <<inst_num, stress>>
        BY <1>4 DEF MakeNet
    <2>2. Front' = inst_num
        BY <2>1 DEF Front
    <2>3. NetsOrdered' /\ CircuitsOrdered'
        BY <2>1, <2>2, FrontType, OpenNetFinished DEF IInv, Ordered, Picked
    <2> QED BY <2>1, <2>3 DEF Ordered
<1>5. ASSUME PickStressDriver PROVE Ordered'
    <2>1. CASE Crash
        BY <1>0, <2>1
    <2>2. CASE ~Crash
        <3>1. stress /\ stress' = stress /\ pc' = "net" /\ UNCHANGED <<inst_num, output>>
            BY <1>5, <2>2 DEF PickStressDriver
        <3>2. Front <= Front'
            BY <3>1, FrontBehind DEF Front
        <3> QED BY <3>1, <3>2, NothingFinished DEF Ordered
    <2> QED BY <2>1, <2>2
<1>6. ASSUME MakeStressNet PROVE Ordered'
    <2>1. /\ stress /\ stress' = stress /\ pc = "net" /\ pc' = pc
          /\ driver' = [driver EXCEPT !.inst = inst_num]
          /\ load' = [load EXCEPT !.inst = inst_num + 1]
          /\ AddNet(driver', <<receivers'[1]>>, load')
          /\ receivers' = Append(receivers, load')
          /\ inst_num' = inst_num + 2
        BY <1>6 DEF MakeStressNet, AddStressNet, CountBoth
    <2>2. driver \in InstancePin /\ load \in InstancePin /\ inst_num \in Nat
        BY <2>1 DEF IInv, TypeOK, Picked
    <2>3. /\ driver' \in InstancePin /\ load' \in InstancePin
          /\ driver'.inst = inst_num /\ load'.inst = inst_num + 1
        <3>1. inst_num + 1 \in Nat
            BY <2>2
        <3> QED BY <2>1, <2>2, <3>1 DEF InstancePin
    <2>4. receivers'[1] \in InstancePin
        <3>1. receivers \in Seq(InstancePin)
            BY DEF IInv, TypeOK
        <3>2. receivers' \in Seq(InstancePin) /\ receivers' # <<>>
            BY <2>1, <2>3, <3>1, AppendProperties
        <3> QED BY <3>2, EmptySeq, LenProperties, ElementOfSeq
    <2> DEFINE c == [driver |-> driver', driver_celltype |-> driver'.cell,
                     load |-> load', load_celltype |-> receivers'[1].cell]
    <2>5. c \in Circuit /\ c.driver.inst = inst_num /\ c.load.inst = inst_num + 1
        BY <2>3, <2>4 DEF Circuit, InstancePin
    <2>6. cktmgr' = Append(cktmgr, c)
        BY <2>1 DEF AddNet
    <2> HIDE DEF c
    <2>7. Front = inst_num /\ Front' = inst_num + 2
        BY <2>1 DEF Front
    <2>8. CircuitsOrdered'
        <3>1. /\ Front <= c.driver.inst /\ c.driver.inst < c.load.inst
              /\ c.load.inst < Front'
            BY <2>2, <2>5, <2>7
        <3> QED BY <2>5, <2>6, <3>1, FrontType, CircuitAdded DEF IInv, Ordered
    <2> QED BY <2>1, <2>8 DEF Ordered
<1>7. ASSUME NextStressDriver PROVE Ordered'
    <2>1. stress /\ stress' = stress /\ pc' = "driver" /\ UNCHANGED <<inst_num, output>>
        BY <1>7 DEF NextStressDriver
    <2>2. Front <= Front'
        BY <2>1, FrontBehind DEF Front
    <2> QED BY <2>1, <2>2, NothingFinished DEF Ordered
<1>8. ASSUME Finish PROVE Ordered'
    <2>1. stress' = stress /\ pc' = "done" /\ UNCHANGED <<inst_num, output>>
        BY <1>8 DEF Finish
    <2>2. Front <= Front'
        BY <2>1, FrontBehind DEF Front
    <2> QED BY <2>1, <2>2, NothingFinished DEF Ordered
<1> QED BY <1>1, <1>2, <1>3, <1>4, <1>5, <1>6, <1>7, <1>8 DEF Next

-----------------------------------------------------------------------------
LEMMA InitInv == Init => IInv
<1> SUFFICES ASSUME Init PROVE IInv
    OBVIOUS
<1>1. TypeOK
    BY OptionsAssumption, EmptySeq DEF Init, TypeOK
<1>2. nets = <<>> /\ cktmgr = <<>> /\ pc = "driver"
    BY DEF Init
<1>3. Len(nets) = 0 /\ Len(cktmgr) = 0
    BY <1>2
<1>4. Picked /\ Ordered
    BY <1>2, <1>3 DEF Picked, Ordered, NetsOrdered, CircuitsOrdered
<1> QED BY <1>1, <1>4 DEF IInv

LEMMA StepInv == IInv /\ [Next]_vars => IInv'
<1> SUFFICES ASSUME IInv, [Next]_vars PROVE IInv'
    OBVIOUS
<1>1. CASE Next
    BY <1>1, TypeStep, PickedStep, OrderStep DEF IInv
<1>2. CASE UNCHANGED vars
    BY <1>2 DEF vars, IInv, TypeOK, Picked, Ordered, NetsOrdered, CircuitsOrdered,
                OpenNet, Front
<1> QED BY <1>1, <1>2

\* Numbers that grow are distinct.
LEMMA OrderedDistinct == IInv => InstancesDistinct
<1> SUFFICES ASSUME IInv PROVE InstancesDistinct
    OBVIOUS
<1>1. /\ DOMAIN nets = 1..Len(nets) /\ \A i \in 1..Len(nets) : nets[i] \in Net
      /\ DOMAIN cktmgr = 1..Len(cktmgr) /\ \A i \in 1..Len(cktmgr) : cktmgr[i] \in Circuit
      /\ Len(nets) \in Nat /\ Len(cktmgr) \in Nat
    BY LenProperties, ElementOfSeq DEF IInv, TypeOK
<1>2. ASSUME ~stress, NEW i \in DOMAIN nets, NEW j \in DOMAIN nets,
             NEW k \in Places(nets[i]), NEW l \in Places(nets[j]),
             InstOf(nets[i], k) = InstOf(nets[j], l)
      PROVE  i = j /\ k = l
    <2>1. InstOf(nets[i], k) \in Nat /\ InstOf(nets[j], l) \in Nat
        BY <1>1, NumbersType
    <2>2. ~(i < j) /\ ~(j < i)
        BY <1>1, <1>2, <2>1 DEF IInv, Ordered, NetsOrdered
    <2>3. i = j
        BY <1>1, <2>2
    <2>4. k \in Int /\ l \in Int
        BY DEF Places
    <2>5. ~(k < l) /\ ~(l < k)
        BY <1>1, <1>2, <2>1, <2>3 DEF IInv, Ordered, NetsOrdered, Increasing
    <2> QED BY <2>3, <2>4, <2>5
<1>3. ASSUME NEW i \in DOMAIN cktmgr, NEW j \in DOMAIN cktmgr
      PROVE  /\ cktmgr[i].driver.inst # cktmgr[j].load.inst
             /\ i # j => /\ cktmgr[i].driver.inst # cktmgr[j].driver.inst
                         /\ cktmgr[i].load.inst # cktmgr[j].load.inst
    <2>1. /\ cktmgr[i].driver.inst \in Nat /\ cktmgr[i].load.inst \in Nat
          /\ cktmgr[j].driver.inst \in Nat /\ cktmgr[j].load.inst \in Nat
        BY <1>1, NumbersType
    <2>2. /\ cktmgr[i].driver.inst < cktmgr[i].load.inst
          /\ cktmgr[j].driver.inst < cktmgr[j].load.inst
          /\ i < j => cktmgr[i].load.inst < cktmgr[j].driver.inst
          /\ j < i => cktmgr[j].load.inst < cktmgr[i].driver.inst
        BY <1>1 DEF IInv, Ordered, CircuitsOrdered
    <2>3. i < j \/ j < i \/ i = j
        BY <1>1
    <2> QED BY <2>1, <2>2, <2>3
<1> QED BY <1>2, <1>3 DEF InstancesDistinct

\* The generator's state is typed, for every library and all options.
THEOREM NetsTypeCorrect == Spec => []TypeOK
<1> QED BY InitInv, StepInv, PTL DEF Spec, IInv

\* create_random_nets gives no instance number to two places of its nets, and
\* neither it nor create_random_nets_stress to two circuits, whatever is picked at
\* random.
THEOREM NetsInstancesDistinct == Spec => []InstancesDistinct
<1> QED BY InitInv, StepInv, OrderedDistinct, PTL DEF Spec

-----------------------------------------------------------------------------
(* The net and the circuit that belong together.                             *)

\* The receivers of a stress driver's nets are all of one cell.
Matched ==
    /\ Len(nets) = Len(cktmgr)
    /\ CircuitMatchesNet
    /\ stress /\ pc = "net" =>
          /\ load.cell = StressReceiver
          /\ \A k \in 1..Len(receivers) : receivers[k].cell = StressReceiver

LEMMA AddedMatches ==
    ASSUME TypeOK, Matched, stress' = stress,
           NEW drv \in InstancePin, NEW rs \in Seq(InstancePin), NEW ld \in InstancePin,
           AddNet(drv, rs, ld), rs # <<>>, ld.cell = rs[1].cell, ~stress => ld = rs[1]
    PROVE  Len(nets') = Len(cktmgr') /\ CircuitMatchesNet'
<1> DEFINE n == [driver |-> <<drv.inst, drv.out>>, receivers |-> Pins(rs)]
           c == [driver |-> drv, driver_celltype |-> drv.cell,
                 load |-> ld, load_celltype |-> rs[1].cell]
<1>1. nets' = Append(nets, n) /\ cktmgr' = Append(cktmgr, c)
    BY DEF AddNet
<1>2. /\ nets \in Seq(Net) /\ cktmgr \in Seq(Circuit) /\ Len(nets) = Len(cktmgr)
      /\ Len(cktmgr) \in Nat /\ DOMAIN cktmgr = 1..Len(cktmgr)
    BY LenProperties DEF TypeOK, Matched
<1>3. /\ n.driver = <<c.driver.inst, c.driver.out>> /\ c.load_celltype = c.load.cell
      /\ ~stress => n.receivers[1] = <<c.load.inst, c.load.in>>
    <2>1. 1 \in DOMAIN rs
        BY EmptySeq, LenProperties
    <2> QED BY <2>1 DEF Pins
<1>4. n \in Net /\ c \in Circuit
    <2>1. n \in Net
        BY NewNet
    <2>2. rs[1] \in InstancePin
        BY EmptySeq, LenProperties, ElementOfSeq
    <2> QED BY <2>1, <2>2 DEF Circuit, InstancePin
<1> HIDE DEF n, c
<1>5. /\ Len(nets') = Len(nets) + 1 /\ Len(cktmgr') = Len(cktmgr) + 1
      /\ DOMAIN cktmgr' = 1..(Len(cktmgr) + 1)
      /\ nets'[Len(cktmgr) + 1] = n /\ cktmgr'[Len(cktmgr) + 1] = c
      /\ \A i \in 1..Len(cktmgr) : nets'[i] = nets[i] /\ cktmgr'[i] = cktmgr[i]
    <2>1. nets' \in Seq(Net) /\ cktmgr' \in Seq(Circuit)
        BY <1>1, <1>2, <1>4, AppendProperties
    <2> QED BY <1>1, <1>2, <1>4, <2>1, AppendProperties, LenProperties
<1>6. ASSUME NEW i \in DOMAIN cktmgr'
      PROVE  /\ nets'[i].driver = <<cktmgr'[i].driver.inst, cktmgr'[i].driver.out>>
             /\ cktmgr'[i].load_celltype = cktmgr'[i].load.cell
             /\ ~stress' => nets'[i].receivers[1] = <<cktmgr'[i].load.inst, cktmgr'[i].load.in>>
    <2>1. CASE i = Len(cktmgr) + 1
        BY <1>3, <1>5, <2>1
    <2>2. CASE i \in 1..Len(cktmgr)
        BY <1>2, <1>5, <2>2 DEF Matched, CircuitMatchesNet, LoadReached
    <2>3. i = Len(cktmgr) + 1 \/ i \in 1..Len(cktmgr)
        BY <1>2, <1>5
    <2> QED BY <2>1, <2>2, <2>3
<1> QED BY <1>2, <1>5, <1>6 DEF CircuitMatchesNet, LoadReached

\* Steps that make no net.
LEMMA NothingAdded ==
    ASSUME Matched, UNCHANGED <<output, stress>>,
           stress' /\ pc' = "net" =>
              /\ load'.cell = StressReceiver
              /\ \A k \in 1..Len(receivers') : receivers'[k].cell = StressReceiver
    PROVE  Matched'
BY DEF Matched, CircuitMatchesNet, LoadReached, output

LEMMA MatchedStep == IInv /\ Matched /\ [Next]_vars => Matched'
<1> SUFFICES ASSUME IInv, Matched, [Next]_vars PROVE Matched'
    OBVIOUS
<1>1. CASE PickDriver \/ PickReceiver \/ ReduceLoad \/ NextStressDriver \/ Finish
    <2>1. UNCHANGED <<output, stress>>
        BY <1>1 DEF PickDriver, PickReceiver, ReduceLoad, NextStressDriver, Finish, Crash
    <2>2. stress => pc' # "net"
        BY <1>1 DEF PickDriver, PickReceiver, ReduceLoad, NextStressDriver, Finish, Crash, IInv, Ordered
    <2> QED BY <2>1, <2>2, NothingAdded
<1>2. CASE PickStressDriver
    <2>1. UNCHANGED <<output, stress>>
        BY <1>2 DEF PickStressDriver, Crash
    <2>2. CASE Crash
        BY <2>1, <2>2, NothingAdded DEF Crash
    <2>3. CASE ~Crash
        <3>1. PICK rin \in Library[StressReceiver].ins :
                 receivers' = <<>> /\ load' = Instance(StressReceiver, rin)
            BY <1>2, <2>3 DEF PickStressDriver
        <3>2. load'.cell = StressReceiver /\ Len(receivers') = 0
            BY <3>1 DEF Instance
        <3> QED BY <2>1, <3>2, NothingAdded
    <2> QED BY <2>2, <2>3
<1>3. CASE MakeNet
    <2>1. /\ AddNet(driver, receivers, load) /\ ~stress /\ stress' = stress /\ pc = "net"
        BY <1>3 DEF MakeNet
    <2>2. /\ driver \in InstancePin /\ receivers \in Seq(InstancePin) /\ receivers # <<>>
          /\ load = receivers[1] /\ TypeOK
        BY <2>1 DEF IInv, TypeOK, Picked, Ordered, OpenNet
    <2>3. load \in InstancePin
        BY <2>2, EmptySeq, LenProperties, ElementOfSeq
    <2>4. Len(nets') = Len(cktmgr') /\ CircuitMatchesNet'
        BY <2>1, <2>2, <2>3, AddedMatches
    <2> QED BY <2>1, <2>4 DEF Matched
<1>4. CASE MakeStressNet
    <2>1. /\ stress /\ stress' = stress /\ pc = "net" /\ pc' = pc
          /\ driver' = [driver EXCEPT !.inst = inst_num]
          /\ load' = [load EXCEPT !.inst = inst_num + 1]
          /\ AddNet(driver', <<receivers'[1]>>, load')
          /\ receivers' = Append(receivers, load')
        BY <1>4 DEF MakeStressNet, AddStressNet
    <2>2. driver \in InstancePin /\ load \in InstancePin /\ inst_num \in Nat /\ TypeOK
        BY <2>1 DEF IInv, TypeOK, Picked
    <2>3. driver' \in InstancePin /\ load' \in InstancePin /\ load'.cell = StressReceiver
        <3>1. inst_num + 1 \in Nat /\ load.cell = StressReceiver
            BY <2>1, <2>2 DEF Matched
        <3> QED BY <2>1, <2>2, <3>1 DEF InstancePin
    <2>4. /\ receivers \in Seq(InstancePin) /\ receivers' \in Seq(InstancePin)
          /\ Len(receivers') = Len(receivers) + 1 /\ Len(receivers) \in Nat
        BY <2>1, <2>2, <2>3, AppendProperties, LenProperties DEF TypeOK
    <2>5. \A k \in 1..Len(receivers') : receivers'[k].cell = StressReceiver
        <3> TAKE k \in 1..Len(receivers')
        <3>1. CASE k = Len(receivers) + 1
            BY <2>1, <2>3, <2>4, <3>1, AppendProperties
        <3>2. CASE k \in 1..Len(receivers)
            BY <2>1, <2>3, <2>4, <3>2, AppendProperties DEF Matched
        <3>3. k = Len(receivers) + 1 \/ k \in 1..Len(receivers)
            BY <2>4
        <3> QED BY <3>1, <3>2, <3>3
    <2>6. /\ receivers'[1] \in InstancePin /\ receivers'[1].cell = load'.cell
        BY <2>3, <2>4, <2>5, ElementOfSeq
    <2>7. Len(nets') = Len(cktmgr') /\ CircuitMatchesNet'
        <3> DEFINE rs == <<receivers'[1]>>
        <3>1. rs \in Seq(InstancePin) /\ rs # <<>> /\ rs[1] = receivers'[1]
            BY <2>6
        <3>2. AddNet(driver', rs, load') /\ load'.cell = rs[1].cell
            BY <2>1, <2>6, <3>1
        <3> HIDE DEF rs
        <3> QED BY <2>1, <2>2, <2>3, <3>1, <3>2, AddedMatches
    <2> QED BY <2>1, <2>3, <2>5, <2>7 DEF Matched
<1>5. CASE UNCHANGED vars
    BY <1>5 DEF vars, Matched, CircuitMatchesNet, LoadReached
<1> QED BY <1>1, <1>2, <1>3, <1>4, <1>5 DEF Next

LEMMA InitMatched == Init => Matched
<1> SUFFICES ASSUME Init PROVE Matched
    OBVIOUS
<1>1. nets = <<>> /\ cktmgr = <<>> /\ pc = "driver" /\ DOMAIN cktmgr = {}
    BY DEF Init
<1> QED BY <1>1 DEF Matched, CircuitMatchesNet

\* Whatever the library and the options: every circuit has the driver of its net, loads
\* of the celltype that goes with them and, outside the stress suite, a load that the
\* net reaches.
THEOREM NetsCircuitMatchesNet == Spec => []CircuitMatchesNet
<1>1. Init => IInv /\ Matched
    BY InitInv, InitMatched
<1>2. IInv /\ Matched /\ [Next]_vars => (IInv /\ Matched)'
    BY StepInv, MatchedStep
<1>3. Matched => CircuitMatchesNet
    BY DEF Matched
<1> QED BY <1>1, <1>2, <1>3, PTL DEF Spec

-----------------------------------------------------------------------------
(* The limits.  MaxCaps sums the receivers one by one, as the program does.  *)

\* What holds for 0 and for n + 1 whenever it holds for n.
LEMMA Induction ==
    ASSUME NEW P, P \subseteq Nat, 0 \in P, \A n \in Nat : n \in P => n + 1 \in P
    PROVE  \A n \in Nat : n \in P
<1> SUFFICES ASSUME NEW m \in Nat, m \notin P PROVE FALSE
    OBVIOUS
<1> DEFINE S == Nat \ P
           R == {ss \in Nat \X Nat : ss[1] < ss[2]}
<1>1. IsWellFoundedOn(R, Nat)
    BY NatLessThanWellFounded DEF OpToRel
<1>2. \A x, y \in Nat : y < x => <<y, x>> \in R
    OBVIOUS
<1> HIDE DEF R
<1>3. S \subseteq Nat /\ S # {}
    OBVIOUS
<1>4. PICK x \in S : \A y \in S : ~(<<y, x>> \in R)
    BY <1>1, <1>3, WFMin
<1>5. x \in Nat /\ x # 0 /\ x - 1 \in Nat /\ x - 1 < x /\ (x - 1) + 1 = x
    OBVIOUS
<1>6. x - 1 \in P
    BY <1>2, <1>4, <1>5
<1> QED BY <1>5, <1>6

\* A function that adds up c from one argument to the next exists.
LEMMA SumExists ==
    ASSUME NEW c, NEW m \in Nat
    PROVE  \E f : f = [k \in 0..m |-> IF k = 0 THEN 0 ELSE f[k - 1] + c[k]]
<1> DEFINE P == {n \in Nat : \E f : f = [k \in 0..n |-> IF k = 0 THEN 0 ELSE f[k - 1] + c[k]]}
<1>1. 0 \in P
    <2> DEFINE f == [k \in 0..0 |-> 0]
    <2>1. f = [k \in 0..0 |-> IF k = 0 THEN 0 ELSE f[k - 1] + c[k]]
        OBVIOUS
    <2> QED BY <2>1
<1>2. ASSUME NEW n \in Nat, n \in P PROVE n + 1 \in P
    <2>1. PICK f : f = [k \in 0..n |-> IF k = 0 THEN 0 ELSE f[k - 1] + c[k]]
        BY <1>2
    <2> DEFINE g == [k \in 0..(n + 1) |-> IF k = n + 1 THEN f[n] + c[n + 1] ELSE f[k]]
    <2>2. \A k \in 0..(n + 1) : g[k] = IF k = 0 THEN 0 ELSE g[k - 1] + c[k]
        <3> TAKE k \in 0..(n + 1)
        <3>1. CASE k = n + 1
            <4>1. n \in 0..(n + 1) /\ n # n + 1 /\ k - 1 = n /\ k # 0
                BY <3>1
            <4> QED BY <3>1, <4>1
        <3>2. CASE k # n + 1
            <4>1. k \in 0..n /\ (k # 0 => k - 1 \in 0..(n + 1) /\ k - 1 # n + 1)
                BY <3>2
            <4>2. f[k] = IF k = 0 THEN 0 ELSE f[k - 1] + c[k]
                BY <2>1, <4>1
            <4> QED BY <3>2, <4>1, <4>2
        <3> QED BY <3>1, <3>2
    <2>3. g = [k \in 0..(n + 1) |-> IF k = 0 THEN 0 ELSE g[k - 1] + c[k]]
        <3>1. g = [k \in 0..(n + 1) |-> g[k]]
            OBVIOUS
        <3> HIDE DEF g
        <3> QED BY <2>2, <3>1
    <2> HIDE DEF g
    <2> QED BY <2>3
<1> HIDE DEF P
<1>3. P \subseteq Nat
    BY DEF P
<1>4. m \in P
    BY <1>1, <1>2, <1>3, Induction
<1> QED BY <1>4 DEF P

LEMMA MaxCapsRecursion ==
    /\ MaxCaps[0] = 0
    /\ \A k \in 1..MaxReceivers : MaxCaps[k] = MaxCaps[k - 1] + ArcOf(receivers[k]).max_cap
<1> DEFINE c == [k \in 1..MaxReceivers |-> ArcOf(receivers[k]).max_cap]
<1>1. MaxReceivers \in Nat
    BY OptionsAssumption
<1>2. PICK f : f = [k \in 0..MaxReceivers |-> IF k = 0 THEN 0 ELSE f[k - 1] + c[k]]
    BY <1>1, SumExists
<1>3. f = [k \in 0..MaxReceivers |-> IF k = 0 THEN 0 ELSE f[k - 1] + ArcOf(receivers[k]).max_cap]
    <2>1. \A k \in 0..MaxReceivers : k # 0 => c[k] = ArcOf(receivers[k]).max_cap
        BY <1>1
    <2> HIDE DEF c
    <2> QED BY <1>2, <2>1
<1>4. MaxCaps = [k \in 0..MaxReceivers |->
                    IF k = 0 THEN 0 ELSE MaxCaps[k - 1] + ArcOf(receivers[k]).max_cap]
    BY <1>3, Zenon DEF MaxCaps
<1> QED BY <1>1, <1>4

CapsSummed ==
    /\ MaxCaps[0] = 0
    /\ \A k \in 1..MaxReceivers : MaxCaps[k] = MaxCaps[k - 1] + ArcOf(receivers[k]).max_cap

LEMMA CapsSummedAlways == CapsSummed /\ CapsSummed'
<1>1. CapsSummed
    BY MaxCapsRecursion DEF CapsSummed
<1> QED BY <1>1, PTL

\* Equal receivers have equal sums.
LEMMA SameReceivers ==
    ASSUME NEW m \in 0..MaxReceivers, \A k \in 1..m : receivers'[k] = receivers[k]
    PROVE  MaxCaps'[m] = MaxCaps[m]
<1>1. MaxReceivers \in Nat /\ m \in Nat /\ m \in 0..m
    BY OptionsAssumption
<1>2. PICK f, g, c, e :
         /\ f = MaxCaps /\ g = MaxCaps'
         /\ c = [k \in 1..m |-> ArcOf(receivers[k]).max_cap]
         /\ e = [k \in 1..m |-> ArcOf(receivers'[k]).max_cap]
    OBVIOUS
<1>3. f[0] = 0 /\ g[0] = 0
    BY <1>2, CapsSummedAlways DEF CapsSummed
<1>4. ASSUME NEW k \in 1..m
      PROVE  f[k] = f[k - 1] + c[k] /\ g[k] = g[k - 1] + e[k] /\ c[k] = e[k]
    <2>1. k \in 1..MaxReceivers
        BY <1>1
    <2>2. f[k] = f[k - 1] + ArcOf(receivers[k]).max_cap
        BY <1>2, <2>1, CapsSummedAlways DEF CapsSummed
    <2>3. g[k] = g[k - 1] + ArcOf(receivers'[k]).max_cap
        BY <1>2, <2>1, CapsSummedAlways DEF CapsSummed
    <2>4. c[k] = ArcOf(receivers[k]).max_cap /\ e[k] = ArcOf(receivers'[k]).max_cap
        BY <1>2
    <2>5. receivers'[k] = receivers[k]
        OBVIOUS
    <2> QED BY <2>2, <2>3, <2>4, <2>5
<1> DEFINE P == {n \in Nat : n <= m => f[n] = g[n]}
<1>5. 0 \in P
    BY <1>3
<1>6. ASSUME NEW n \in Nat, n \in P PROVE n + 1 \in P
    <2> SUFFICES ASSUME n + 1 <= m PROVE f[n + 1] = g[n + 1]
        OBVIOUS
    <2>1. n + 1 \in 1..m /\ (n + 1) - 1 = n /\ n <= m
        BY <1>1
    <2>2. f[n] = g[n]
        BY <1>6, <2>1
    <2> QED BY <1>4, <2>1, <2>2
<1> HIDE DEF P
<1>7. \A n \in Nat : n \in P
    <2>1. P \subseteq Nat
        BY DEF P
    <2> QED BY <1>5, <1>6, <2>1, Induction
<1>8. f[m] = g[m]
    BY <1>1, <1>7 DEF P
<1> QED BY <1>2, <1>8

\* An input of a cell has one timing arc to the output.
OneArcPerInput ==
    \A c \in Cells : \A a, b \in Library[c].arcs : a.related = b.related => a = b

LEMMA ArcOfInstance ==
    ASSUME OneArcPerInput, NEW c \in Cells, NEW a \in Library[c].arcs
    PROVE  ArcOf(Instance(c, a.related)) = a
BY DEF OneArcPerInput, ArcOf, Instance

\* While the receivers are picked, the limit still is the arc's and the range's upper
\* end is the sum of what was picked; then the one was taken from the other.
Accounted ==
    ~stress =>
        /\ pc = "receivers" => /\ Len(receivers) <= num_receivers
                               /\ smallest_max_load = ArcOf(driver).max_load
                               /\ cap_range[2] = MaxCaps[Len(receivers)]
        /\ LimitAccountsForPins

LEMMA AccountedStep ==
    ASSUME OneArcPerInput, IInv, Accounted, [Next]_vars
    PROVE  Accounted'
<1>0. CASE stress' \/ pc' \notin {"receivers", "net"}
    BY <1>0 DEF Accounted, LimitAccountsForPins
<1>1. CASE PickDriver
    <2>1. CASE Crash
        BY <1>0, <2>1 DEF Crash
    <2>2. CASE ~Crash
        <3>1. PICK c \in Cells : \E a \in Library[c].arcs, in \in Library[c].ins :
                    /\ ArcInput(c, a, in)
                    /\ driver' = Instance(c, in)
                    /\ smallest_max_load' = a.max_load
                    /\ num_receivers' \in ReceiverCounts
                    /\ receivers' = <<>>
                    /\ StartCaps
                    /\ pc' = "receivers"
            BY <1>1, <2>2 DEF PickDriver
        <3>2. PICK a \in Library[c].arcs :
                    /\ driver' = Instance(c, a.related)
                    /\ smallest_max_load' = a.max_load
                    /\ num_receivers' \in ReceiverCounts
                    /\ receivers' = <<>>
                    /\ StartCaps
                    /\ pc' = "receivers"
            BY <3>1 DEF ArcInput
        <3>3. ArcOf(driver') = a
            BY <3>2, ArcOfInstance
        <3>4. Len(receivers') = 0 /\ cap_range'[2] = 0 /\ 0 <= num_receivers'
            BY <3>2, OptionsAssumption DEF StartCaps, ReceiverCounts
        <3>5. MaxCaps'[0] = 0
            BY CapsSummedAlways DEF CapsSummed
        <3> QED BY <3>2, <3>3, <3>4, <3>5 DEF Accounted, LimitAccountsForPins
    <2> QED BY <2>1, <2>2
<1>2. CASE PickReceiver
    <2>1. CASE Crash
        BY <1>0, <2>1 DEF Crash
    <2>2. CASE ~Crash
        <3>1. PICK c \in Cells : \E a \in Library[c].arcs :
                    /\ receivers' = Append(receivers, Instance(c, a.related))
                    /\ cap_range' = <<cap_range[1] + a.min_cap, cap_range[2] + a.max_cap>>
                    /\ UNCHANGED <<pc, driver, num_receivers, smallest_max_load, stress>>
            BY <1>2, <2>2 DEF PickReceiver
        <3>2. PICK a \in Library[c].arcs :
                    /\ receivers' = Append(receivers, Instance(c, a.related))
                    /\ cap_range' = <<cap_range[1] + a.min_cap, cap_range[2] + a.max_cap>>
                    /\ UNCHANGED <<pc, driver, num_receivers, smallest_max_load, stress>>
            BY <3>1
        <3> DEFINE m == Len(receivers)
        <3>3. /\ pc = "receivers" /\ ~stress /\ m < num_receivers
              /\ num_receivers \in 1..MaxReceivers /\ MaxReceivers \in Nat
              /\ receivers \in Seq(InstancePin)
            BY <1>2, OptionsAssumption DEF PickReceiver, IInv, Ordered, TypeOK
        <3>4. Instance(c, a.related) \in InstancePin
            BY CellType, InstanceType DEF IInv, TypeOK
        <3>5. /\ m \in Nat /\ Len(receivers') = m + 1
              /\ receivers'[m + 1] = Instance(c, a.related)
              /\ \A k \in 1..m : receivers'[k] = receivers[k]
            BY <3>2, <3>3, <3>4, AppendProperties, LenProperties
        <3> HIDE DEF m
        <3>6. m \in 0..MaxReceivers /\ m + 1 \in 1..MaxReceivers /\ (m + 1) - 1 = m
            BY <3>3, <3>5
        <3>7. MaxCaps'[m] = MaxCaps[m]
            BY <3>5, <3>6, SameReceivers
        <3>8. MaxCaps'[m + 1] = MaxCaps'[m] + a.max_cap
            BY <3>5, <3>6, CapsSummedAlways, ArcOfInstance DEF CapsSummed
        <3>9. cap_range[2] = MaxCaps[m] /\ smallest_max_load = ArcOf(driver).max_load
            BY <3>3 DEF Accounted, m
        <3>10. cap_range'[2] = cap_range[2] + a.max_cap /\ m + 1 <= num_receivers
            BY <3>2, <3>3, <3>5
        <3> QED BY <3>2, <3>3, <3>5, <3>7, <3>8, <3>9, <3>10 DEF Accounted, LimitAccountsForPins
    <2> QED BY <2>1, <2>2
<1>3. CASE ReduceLoad
    <2>1. CASE RoomForWires
        <3>1. /\ pc = "receivers" /\ ~stress /\ Len(receivers) = num_receivers
              /\ smallest_max_load' = smallest_max_load - cap_range[2] /\ pc' = "net"
              /\ UNCHANGED <<driver, receivers, num_receivers, stress>>
              /\ smallest_max_load' > 0
              /\ num_receivers \in 1..MaxReceivers /\ MaxReceivers \in Nat
              /\ smallest_max_load \in Int /\ cap_range[2] \in Nat
            BY <1>3, <2>1, OptionsAssumption
               DEF ReduceLoad, RoomForWires, IInv, Ordered, TypeOK
        <3>2. /\ smallest_max_load = ArcOf(driver).max_load
              /\ cap_range[2] = MaxCaps[num_receivers]
            BY <3>1 DEF Accounted
        <3>3. MaxCaps'[num_receivers] = MaxCaps[num_receivers]
            <4>1. num_receivers \in 0..MaxReceivers
                BY <3>1
            <4> QED BY <3>1, <4>1, SameReceivers
        <3>4. smallest_max_load' + cap_range[2] = smallest_max_load
            BY <3>1
        <3> QED BY <3>1, <3>2, <3>3, <3>4 DEF Accounted, LimitAccountsForPins
    <2>2. CASE ~RoomForWires
        BY <1>0, <1>3, <2>2 DEF ReduceLoad
    <2> QED BY <2>1, <2>2
<1>4. CASE MakeNet \/ Finish \/ NextStressDriver
    BY <1>0, <1>4 DEF MakeNet, Finish, NextStressDriver
<1>5. CASE PickStressDriver \/ MakeStressNet
    BY <1>0, <1>5 DEF PickStressDriver, MakeStressNet, Crash
<1>6. CASE UNCHANGED vars
    <2>1. UNCHANGED <<stress, pc, receivers, num_receivers, smallest_max_load, driver, cap_range>>
        BY <1>6 DEF vars
    <2>2. CASE ~stress /\ pc \in {"receivers", "net"}
        <3>1. MaxCaps' = MaxCaps
            BY <2>1 DEF MaxCaps
        <3> QED BY <2>1, <2>2, <3>1 DEF Accounted, LimitAccountsForPins
    <2> QED BY <1>0, <2>1, <2>2
<1> QED BY <1>1, <1>2, <1>3, <1>4, <1>5, <1>6 DEF Next

LEMMA InitAccounted == Init => Accounted
BY DEF Init, Accounted, LimitAccountsForPins

\* If no input has two arcs to the output, what the wires of a net may load its driver
\* with, and the largest capacitances of the receivers' pins, are together what the
\* driver's arc is characterised for; and the wires are left with something.
THEOREM NetsLimitAccountsForPins == OneArcPerInput => (Spec => []LimitAccountsForPins)
<1> SUFFICES ASSUME OneArcPerInput PROVE Spec => []LimitAccountsForPins
    OBVIOUS
<1>1. Init => IInv /\ Accounted
    BY InitInv, InitAccounted
<1>2. IInv /\ Accounted /\ [Next]_vars => (IInv /\ Accounted)'
    BY StepInv, AccountedStep
<1>3. Accounted => LimitAccountsForPins
    BY DEF Accounted, LimitAccountsForPins
<1> QED BY <1>1, <1>2, <1>3, PTL DEF Spec
=============================================================================
