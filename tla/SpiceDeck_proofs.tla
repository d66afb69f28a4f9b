-------------------------- MODULE SpiceDeck_proofs --------------------------
(***************************************************************************)
(* Every deck measures what it is written for, whatever the library, the   *)
(* circuit, the net and the order of the pins are.                         *)
(*                                                                         *)
(* The argument: the sections only add to the deck, so what one of them    *)
(* has written is there in the end (DeckInv).  The rest is about the deck  *)
(* as it is read then: the one source at the input is the waveform, a ramp *)
(* or the wave passes the half before the simulation ends, and a net whose *)
(* resistors are all in the deck is connected there as it was.             *)
(***************************************************************************)
EXTENDS SpiceDeck, SequenceTheorems, WellFoundedInduction, TLAPS

-----------------------------------------------------------------------------
(* What has been written when.                                               *)

InputSources ==
    {Source("input", Pin(circuit.driver, circuit.driver.in), h,
            Waveform(h, 100 * power_rail_voltage)) : h \in Halves}
NetDevices ==
    (UNION {Device("C", k, CapNodes(net.caps[k])) : k \in DOMAIN net.caps})
      \cup (UNION {Device("R", k, net.ress[k]) : k \in DOMAIN net.ress})
Statements == {Delay(h) : h \in Halves} \cup {Slew(h) : h \in Halves}

Read == lib \in Libraries /\ \E s \in Stages : circuit = s.circuit /\ net = s.net

Stimulated ==
    pc \in {"driver", "net", "load", "parasitics", "commands", "done"} =>
        /\ power_rail_voltage = LastNonzeroRail /\ sim_time = SimTime
        /\ {e \in deck : e.kind = "V"} = RailSources \cup InputSources
DriverWritten ==
    pc \in {"net", "load", "parasitics", "commands", "done"} =>
        Element("X", circuit.driver.inst, Ports(circuit.driver)) \subseteq deck
NetWritten == pc \in {"load", "parasitics", "commands", "done"} => NetDevices \subseteq deck
LoadWritten ==
    pc \in {"parasitics", "commands", "done"} =>
        Element("X", circuit.load.inst, Ports(circuit.load)) \subseteq deck
Measured == pc = "done" => measures = Statements

DeckInv == Read /\ Stimulated /\ DriverWritten /\ NetWritten /\ LoadWritten /\ Measured

\* Instances and devices are no sources.
LEMMA OtherKinds ==
    /\ \A name, nodes : \A e \in Element("X", name, nodes) : e.kind # "V"
    /\ \A name, nodes : \A e \in Element("C", name, nodes) : e.kind # "V"
    /\ \A name, nodes : \A e \in Element("R", name, nodes) : e.kind # "V"
    /\ \A e \in NetDevices : e.kind # "V"
<1>1. \A kind, name, nodes : \A e \in Element(kind, name, nodes) : e.kind = kind
  BY DEF Element
<1>2. \A kind, k, nodes : \A e \in Device(kind, k, nodes) : e.kind = kind
  BY DEF Device
<1>3. \A e \in NetDevices : \E k, nodes : e \in Device("C", k, nodes) \/ e \in Device("R", k, nodes)
  <2> SUFFICES ASSUME NEW e \in NetDevices
               PROVE  \E k, nodes : e \in Device("C", k, nodes) \/ e \in Device("R", k, nodes)
    OBVIOUS
  <2> DEFINE caps == UNION {Device("C", k, CapNodes(net.caps[k])) : k \in DOMAIN net.caps}
             ress == UNION {Device("R", k, net.ress[k]) : k \in DOMAIN net.ress}
  <2>1. CASE e \in caps
    <3>1. PICK k \in DOMAIN net.caps : e \in Device("C", k, CapNodes(net.caps[k]))
      BY <2>1
    <3> QED
      BY <3>1
  <2>2. CASE e \in ress
    <3>1. PICK k \in DOMAIN net.ress : e \in Device("R", k, net.ress[k])
      BY <2>2
    <3> QED
      BY <3>1
  <2>3. NetDevices = caps \cup ress
    BY DEF NetDevices
  <2> HIDE DEF caps, ress
  <2> QED
    BY <2>1, <2>2, <2>3
<1>4. \A e \in NetDevices : e.kind # "V"
  BY <1>2, <1>3
<1> QED
  BY <1>1, <1>4

LEMMA Sources == \A e \in RailSources \cup InputSources : e.kind = "V"
BY DEF RailSources, InputSources, Source

\* What the definitions used here depend on.
LEMMA SameReading ==
    ASSUME UNCHANGED <<lib, circuit, net>>
    PROVE  /\ LastNonzeroRail' = LastNonzeroRail /\ SimTime' = SimTime
           /\ RailSources' = RailSources /\ NetDevices' = NetDevices
           /\ Rails' = Rails /\ IsPositiveUnate' = IsPositiveUnate
           /\ \A h, v : Waveform(h, v)' = Waveform(h, v)
<1>1. /\ Rails' = Rails /\ RiseWidth' = RiseWidth /\ FallWidth' = FallWidth
      /\ NonzeroRails' = NonzeroRails
  BY DEF Rails, RiseWidth, FallWidth, NonzeroRails
<1>2. Unit' = Unit /\ LastNonzeroRail' = LastNonzeroRail
  BY <1>1 DEF Unit, LastNonzeroRail
<1>3. RampRise' = RampRise /\ RampFall' = RampFall /\ tstart' = tstart /\ tpulse' = tpulse
  BY <1>1, <1>2 DEF RampRise, RampFall, tstart, tpulse
<1>4. IsPositiveUnate' = IsPositiveUnate /\ \A k : AsuTime(k)' = AsuTime(k)
  BY <1>2 DEF IsPositiveUnate, FindArc, ArcsFrom, AsuTime
<1>5. SimTime' = SimTime
  BY <1>2, <1>3, <1>4 DEF SimTime
<1>6. RailSources' = RailSources
  BY DEF RailSources, Source, Rail, Ground
<1>7. NetDevices' = NetDevices
  BY DEF NetDevices, Device, CapNodes, Rail, Ground
<1>8. \A h, v : Swing(h, v)' = Swing(h, v)
  BY <1>4 DEF Swing
<1>9. \A a, b : Pulse(a, b)' = Pulse(a, b)
  BY <1>3 DEF Pulse
<1>10. \A a, b : AsuWave(a, b)' = AsuWave(a, b)
  BY <1>4 DEF AsuWave
<1>11. \A h, v : Waveform(h, v)' = Waveform(h, v)
  BY <1>8, <1>9, <1>10 DEF Waveform
<1> QED
  BY <1>1, <1>2, <1>4, <1>5, <1>6, <1>7, <1>11

LEMMA SameInputs ==
    ASSUME UNCHANGED <<inputs, pin_order, power_rail_voltage>>
    PROVE  /\ UNCHANGED <<lib, circuit, net, pin_order, power_rail_voltage>>
           /\ LastNonzeroRail' = LastNonzeroRail /\ SimTime' = SimTime
           /\ RailSources' = RailSources /\ InputSources' = InputSources
           /\ NetDevices' = NetDevices /\ Statements' = Statements
           /\ Ports(circuit.driver)' = Ports(circuit.driver)
           /\ Ports(circuit.load)' = Ports(circuit.load)
<1>1. UNCHANGED <<lib, circuit, net, pin_order, power_rail_voltage>>
  BY DEF inputs
<1>2. InputSources' = InputSources
  BY <1>1, SameReading DEF InputSources, Source, Pin, Ground
<1>3. Statements' = Statements
  BY <1>1, SameReading DEF Statements, Delay, Slew, Event, Opposite
<1>4. Ports(circuit.driver)' = Ports(circuit.driver) /\ Ports(circuit.load)' = Ports(circuit.load)
  BY <1>1, SameReading DEF Ports, Pin, Rail
<1> QED
  BY <1>1, <1>2, <1>3, <1>4, SameReading

\* What is written of the two instances stays written.
LEMMA KeptElements ==
    ASSUME UNCHANGED <<inputs, pin_order, power_rail_voltage>>
    PROVE  /\ Element("X", circuit.driver.inst, Ports(circuit.driver))'
                = Element("X", circuit.driver.inst, Ports(circuit.driver))
           /\ Element("X", circuit.load.inst, Ports(circuit.load))'
                = Element("X", circuit.load.inst, Ports(circuit.load))
BY SameInputs DEF Element, Halves

-----------------------------------------------------------------------------
(* A section adds to the deck and leaves what it found.                      *)

LEMMA InitDeck == Init => DeckInv
BY DEF Init, DeckInv, Read, Stimulated, DriverWritten, NetWritten, LoadWritten, Measured

LEMMA ReadSpiceLibDeck == DeckInv /\ ReadSpiceLib => DeckInv'
<1> SUFFICES ASSUME DeckInv, ReadSpiceLib PROVE DeckInv'
  OBVIOUS
<1>1. Read' /\ pc' = "voltages"
  BY DEF DeckInv, Read, ReadSpiceLib, inputs
<1> QED
  BY <1>1 DEF DeckInv, Stimulated, DriverWritten, NetWritten, LoadWritten, Measured

LEMMA WriteVoltagesDeck == DeckInv /\ WriteVoltages => DeckInv'
<1> SUFFICES ASSUME DeckInv, WriteVoltages PROVE DeckInv'
  OBVIOUS
<1>1. Read' /\ pc' \in {"driver", "aborted"}
  BY DEF DeckInv, Read, WriteVoltages, inputs
<1>2. UNCHANGED <<lib, circuit, net>>
  BY DEF WriteVoltages, inputs
<1>3. LastNonzeroRail' = LastNonzeroRail /\ SimTime' = SimTime /\ RailSources' = RailSources
  BY <1>2, SameReading
<1>4. ASSUME pc' = "driver"
      PROVE  deck' = RailSources' \cup InputSources'
  <2>1. deck' = RailSources \cup
                  {Source("input", Pin(circuit.driver, circuit.driver.in), h,
                          Waveform(h, 100 * power_rail_voltage')) : h \in Halves}
    BY <1>4 DEF WriteVoltages
  <2>2. InputSources' = {Source("input", Pin(circuit.driver, circuit.driver.in), h,
                                Waveform(h, 100 * power_rail_voltage')) : h \in Halves}
    BY <1>2, SameReading DEF InputSources, Source, Pin, Ground
  <2> QED
    BY <1>3, <2>1, <2>2
<1>5. ASSUME pc' = "driver"
      PROVE  {e \in deck' : e.kind = "V"} = RailSources' \cup InputSources'
  <2>1. \A e \in (RailSources \cup InputSources)' : e.kind = "V"
    BY DEF RailSources, InputSources, Source
  <2> QED
    BY <1>4, <1>5, <2>1
<1>6. Stimulated'
  BY <1>1, <1>3, <1>5 DEF Stimulated, WriteVoltages
<1> QED
  BY <1>1, <1>6 DEF DeckInv, DriverWritten, NetWritten, LoadWritten, Measured

\* What a section that writes no source leaves.
LEMMA SameSources ==
    ASSUME DeckInv, UNCHANGED <<inputs, pin_order, power_rail_voltage, sim_time>>,
           {e \in deck' : e.kind = "V"} = {e \in deck : e.kind = "V"}
    PROVE  /\ Read'
           /\ pc \in {"driver", "net", "load", "parasitics", "commands", "done"} =>
                 /\ power_rail_voltage' = LastNonzeroRail' /\ sim_time' = SimTime'
                 /\ {e \in deck' : e.kind = "V"} = RailSources' \cup InputSources'
<1>1. Read'
  BY DEF DeckInv, Read, inputs
<1> QED
  BY <1>1, SameInputs DEF DeckInv, Stimulated

LEMMA Appended ==
    ASSUME NEW added, DeckInv, UNCHANGED <<inputs, pin_order, power_rail_voltage, sim_time>>,
           deck' = deck \cup added, \A e \in added : e.kind # "V"
    PROVE  /\ Read'
           /\ pc \in {"driver", "net", "load", "parasitics", "commands", "done"} =>
                 /\ power_rail_voltage' = LastNonzeroRail' /\ sim_time' = SimTime'
                 /\ {e \in deck' : e.kind = "V"} = RailSources' \cup InputSources'
<1>1. {e \in deck' : e.kind = "V"} = {e \in deck : e.kind = "V"}
  OBVIOUS
<1> QED
  BY <1>1, SameSources

LEMMA WriteDriverDeck == DeckInv /\ WriteDriver => DeckInv'
<1> SUFFICES ASSUME DeckInv, WriteDriver PROVE DeckInv'
  OBVIOUS
<1>0. /\ UNCHANGED <<inputs, pin_order, power_rail_voltage, sim_time>>
      /\ pc = "driver" /\ pc' = "net"
      /\ deck' = deck \cup Element("X", circuit.driver.inst, Ports(circuit.driver))
  BY DEF WriteDriver
<1>1. Read' /\ Stimulated'
  <2>1. \A e \in Element("X", circuit.driver.inst, Ports(circuit.driver)) : e.kind # "V"
    BY OtherKinds
  <2> QED
    BY <1>0, <2>1, Appended DEF Stimulated
<1>2. Element("X", circuit.driver.inst, Ports(circuit.driver))'
        = Element("X", circuit.driver.inst, Ports(circuit.driver))
  BY <1>0, KeptElements
<1>3. DriverWritten'
  BY <1>0, <1>2 DEF DriverWritten
<1> QED
  BY <1>0, <1>1, <1>3 DEF DeckInv, NetWritten, LoadWritten, Measured

LEMMA WriteNetDeck == DeckInv /\ WriteNet => DeckInv'
<1> SUFFICES ASSUME DeckInv, WriteNet PROVE DeckInv'
  OBVIOUS
<1>0. /\ UNCHANGED <<inputs, pin_order, power_rail_voltage, sim_time>>
      /\ pc = "net" /\ pc' = "load" /\ deck' = deck \cup NetDevices
  BY DEF WriteNet, NetDevices
<1>1. Read' /\ Stimulated'
  BY <1>0, Appended, OtherKinds DEF Stimulated
<1>2. DriverWritten'
  BY <1>0, KeptElements DEF DeckInv, DriverWritten
<1>3. NetWritten'
  BY <1>0, SameInputs DEF NetWritten
<1> QED
  BY <1>0, <1>1, <1>2, <1>3 DEF DeckInv, LoadWritten, Measured

LEMMA WriteLoadDeck == DeckInv /\ WriteLoad => DeckInv'
<1> SUFFICES ASSUME DeckInv, WriteLoad PROVE DeckInv'
  OBVIOUS
<1>0. /\ UNCHANGED <<inputs, pin_order, power_rail_voltage, sim_time>>
      /\ pc = "load" /\ pc' = "parasitics"
      /\ deck' = deck \cup Element("X", circuit.load.inst, Ports(circuit.load))
  BY DEF WriteLoad
<1>1. Read' /\ Stimulated'
  <2>1. \A e \in Element("X", circuit.load.inst, Ports(circuit.load)) : e.kind # "V"
    BY OtherKinds
  <2> QED
    BY <1>0, <2>1, Appended DEF Stimulated
<1>2. DriverWritten' /\ LoadWritten'
  BY <1>0, KeptElements DEF DeckInv, DriverWritten, LoadWritten
<1>3. NetWritten'
  BY <1>0, SameInputs DEF DeckInv, NetWritten
<1> QED
  BY <1>0, <1>1, <1>2, <1>3 DEF DeckInv, Measured

Parasitics ==
    Element("C", "near", <<LoadOut, Ground>>) \cup
      IF circuit.res # 0 \/ circuit.cfar # 0
      THEN Element("R", "res", <<LoadOut, FarNode>>) \cup Element("C", "far", <<FarNode, Ground>>)
      ELSE {}

LEMMA WriteLoadParasiticsDeck == DeckInv /\ WriteLoadParasitics => DeckInv'
<1> SUFFICES ASSUME DeckInv, WriteLoadParasitics PROVE DeckInv'
  OBVIOUS
<1>0. /\ UNCHANGED <<inputs, pin_order, power_rail_voltage, sim_time>>
      /\ pc = "parasitics" /\ pc' = "commands" /\ deck' = deck \cup Parasitics
  BY DEF WriteLoadParasitics, Parasitics
<1>1. \A e \in Parasitics : e.kind # "V"
  BY OtherKinds DEF Parasitics
<1>2. Read' /\ Stimulated'
  BY <1>0, <1>1, Appended DEF Stimulated
<1>3. DriverWritten' /\ LoadWritten'
  BY <1>0, KeptElements DEF DeckInv, DriverWritten, LoadWritten
<1>4. NetWritten'
  BY <1>0, SameInputs DEF DeckInv, NetWritten
<1> QED
  BY <1>0, <1>2, <1>3, <1>4 DEF DeckInv, Measured

LEMMA WriteCommandsDeck == DeckInv /\ WriteCommands => DeckInv'
<1> SUFFICES ASSUME DeckInv, WriteCommands PROVE DeckInv'
  OBVIOUS
<1>0. /\ UNCHANGED <<inputs, pin_order, power_rail_voltage, sim_time, deck>>
      /\ pc = "commands" /\ pc' = "done" /\ measures' = Statements
  BY DEF WriteCommands, Statements
<1>2. Read' /\ Stimulated'
  BY <1>0, SameSources DEF Stimulated
<1>3. DriverWritten' /\ LoadWritten'
  BY <1>0, KeptElements DEF DeckInv, DriverWritten, LoadWritten
<1>4. NetWritten' /\ Measured'
  BY <1>0, SameInputs DEF DeckInv, NetWritten, Measured
<1> QED
  BY <1>2, <1>3, <1>4 DEF DeckInv

LEMMA StutteringDeck == DeckInv /\ UNCHANGED vars => DeckInv'
<1> SUFFICES ASSUME DeckInv, UNCHANGED vars PROVE DeckInv'
  OBVIOUS
<1>0. UNCHANGED <<inputs, pc, pin_order, power_rail_voltage, sim_time, deck, measures>>
  BY DEF vars, inputs
<1>2. Read' /\ Stimulated'
  BY <1>0, SameSources DEF Stimulated
<1>3. DriverWritten' /\ LoadWritten'
  BY <1>0, KeptElements DEF DeckInv, DriverWritten, LoadWritten
<1>4. NetWritten' /\ Measured'
  BY <1>0, SameInputs DEF DeckInv, NetWritten, Measured
<1> QED
  BY <1>2, <1>3, <1>4 DEF DeckInv

\* In every reachable state what the sections behind pc write is in the deck.
THEOREM DeckWritten == Spec => []DeckInv
<1>1. Init => DeckInv
  BY InitDeck
<1>2. DeckInv /\ [Next]_vars => DeckInv'
  BY ReadSpiceLibDeck, WriteVoltagesDeck, WriteDriverDeck, WriteNetDeck, WriteLoadDeck,
     WriteLoadParasiticsDeck, WriteCommandsDeck, StutteringDeck DEF Next
<1> QED
  BY <1>1, <1>2, PTL DEF Spec

-----------------------------------------------------------------------------
(* What a simulator finds in the deck when it is complete.                   *)

\* The ports of an instance are those its SPICE library lists.
LEMMA PortsWritten ==
    ASSUME DeckInv, pc = "done", NEW h \in Halves, NEW i \in {circuit.driver, circuit.load},
           NEW k \in DOMAIN pin_order[i.cell]
    PROVE  Ports(i)[k] \in PortsOf(h, i)
<1> DEFINE e == [kind |-> "X", name |-> <<i.inst>>, half |-> h, nodes |-> Ports(i), pwl |-> <<>>]
<1>1. Element("X", i.inst, Ports(i)) \subseteq deck
  BY DEF DeckInv, DriverWritten, LoadWritten
<1>2. e \in Element("X", i.inst, Ports(i))
  BY DEF Element
<1>3. e \in {x \in Of(h, "X") : x.name = <<i.inst>>}
  BY <1>1, <1>2 DEF Of
<1>4. k \in DOMAIN e.nodes
  BY DEF Ports
<1> QED
  BY <1>3, <1>4 DEF PortsOf

\* A pin with the name of a rail is the rail, any other one is the instance's.
LEMMA RailsHeld ==
    ASSUME DeckInv, pc = "done", NEW h \in Halves, NEW i \in {circuit.driver, circuit.load},
           NEW k \in SuppliesOf(i)
    PROVE  Rail(lib.voltages[k].rail) \in PortsOf(h, i)
<1>1. PICK l \in DOMAIN pin_order[i.cell] : pin_order[i.cell][l] = lib.voltages[k].rail
  BY DEF SuppliesOf
<1>2. lib.voltages[k].rail \in Rails
  BY DEF SuppliesOf, Rails
<1>3. Ports(i)[l] = Rail(lib.voltages[k].rail)
  BY <1>1, <1>2 DEF Ports
<1> QED
  BY <1>1, <1>3, PortsWritten

LEMMA PinsHeld ==
    ASSUME DeckInv, pc = "done", NEW h \in Halves, NEW i \in {circuit.driver, circuit.load},
           HasPins(i), NEW p \in {i.in, i.out}
    PROVE  Pin(i, p) \in PortsOf(h, i)
<1>1. PICK l \in DOMAIN pin_order[i.cell] : pin_order[i.cell][l] = p
  BY DEF HasPins
<1>2. p \notin Rails
  BY DeckAssumption DEF DeckInv, Read, Rails
<1>3. Ports(i)[l] = Pin(i, p)
  BY <1>1, <1>2 DEF Ports
<1> QED
  BY <1>1, <1>3, PortsWritten

\* The driver's input has one source in each half, with the waveform.
LEMMA InputSource ==
    ASSUME DeckInv, pc = "done", NEW h \in Halves
    PROVE  InputWave(h) = Waveform(h, 100 * power_rail_voltage)
<1> DEFINE node == Pin(circuit.driver, circuit.driver.in)
           src(x) == Source("input", node, x, Waveform(x, 100 * power_rail_voltage))
<1>1. {e \in deck : e.kind = "V"} = RailSources \cup InputSources
  BY DEF DeckInv, Stimulated
<1>2. src(h) \in SourceAt(h, node)
  <2>1. src(h) \in InputSources
    BY DEF InputSources
  <2>2. src(h) \in deck
    BY <1>1, <2>1
  <2> QED
    BY <2>2 DEF SourceAt, Of, Source
<1>3. ASSUME NEW e \in SourceAt(h, node)
      PROVE  e.pwl = Waveform(h, 100 * power_rail_voltage)
  <2>1. e \in deck /\ e.kind = "V" /\ e.half = h /\ e.nodes[1] = node
    BY DEF SourceAt, Of
  <2>2. e \notin RailSources
    <3>1. circuit.driver.inst # ""
      BY DeckAssumption DEF DeckInv, Read
    <3>2. ASSUME e \in RailSources
          PROVE  FALSE
      <4>1. PICK k \in DOMAIN lib.voltages, x \in Halves :
                e = Source(lib.voltages[k].rail, Rail(lib.voltages[k].rail), x,
                           << <<0, 100 * lib.voltages[k].volts>> >>)
        BY <3>2 DEF RailSources
      <4>2. e.nodes[1] = Rail(lib.voltages[k].rail)
        BY <4>1 DEF Source
      <4>3. Rail(lib.voltages[k].rail)[1] = "" /\ node[1] = circuit.driver.inst
        BY DEF Rail, Pin
      <4> QED
        BY <2>1, <3>1, <4>2, <4>3
    <3> QED
      BY <3>2
  <2>3. e \in InputSources
    BY <1>1, <2>1, <2>2
  <2>4. PICK x \in Halves : e = src(x)
    BY <2>3 DEF InputSources
  <2> QED
    BY <2>1, <2>4 DEF Source
<1> QED
  BY <1>2, <1>3 DEF InputWave

\* A rail among the ports of the driver is a supply at the rail's level.
LEMMA SupplyLevel ==
    ASSUME DeckInv, pc = "done", NEW h \in Halves, NEW k \in SuppliesOf(circuit.driver)
    PROVE  100 * lib.voltages[k].volts \in Supplies(h)
<1> DEFINE n == Rail(lib.voltages[k].rail)
           level == 100 * lib.voltages[k].volts
           e == Source(lib.voltages[k].rail, n, h, << <<0, level>> >>)
<1>1. n \in PortsOf(h, circuit.driver)
  BY RailsHeld
<1>2. e \in RailSources
  BY DEF RailSources, SuppliesOf
<1>3. e \in deck
  BY <1>2 DEF DeckInv, Stimulated
<1>4. e \in SourceAt(h, n) /\ Len(e.pwl) = 1 /\ e.pwl[1][2] = level
  BY <1>3 DEF SourceAt, Of, Source
<1>5. level \in {x.pwl[1][2] : x \in {y \in SourceAt(h, n) : Len(y.pwl) = 1}}
  BY <1>4
<1> HIDE DEF n, level
<1> QED
  BY <1>1, <1>5 DEF Supplies, level

\* The power rail is the driver's supply, at a positive level.
LEMMA PowerRail ==
    ASSUME DeckInv, pc = "done", Characterised, NEW h \in Halves
    PROVE  /\ power_rail_voltage \in Nat \ {0}
           /\ 0 \in Supplies(h) /\ 100 * power_rail_voltage \in Supplies(h)
<1>1. /\ DOMAIN lib.voltages \subseteq Nat
      /\ \A k \in DOMAIN lib.voltages : lib.voltages[k].volts \in Int
  BY DeckAssumption DEF DeckInv, Read
<1>2. PICK k \in SuppliesOf(circuit.driver) :
          /\ lib.voltages[k].volts > 0
          /\ \A l \in NonzeroRails : l <= k
  BY DEF Characterised
<1>3. k \in NonzeroRails /\ NonzeroRails \subseteq Nat
  BY <1>1, <1>2 DEF NonzeroRails, SuppliesOf
<1>4. LastNonzeroRail = lib.voltages[k].volts
  <2> DEFINE c == CHOOSE x \in NonzeroRails : \A l \in NonzeroRails : l <= x
  <2>1. c \in NonzeroRails /\ \A l \in NonzeroRails : l <= c
    BY <1>2, <1>3
  <2>2. LastNonzeroRail = lib.voltages[c].volts
    BY DEF LastNonzeroRail
  <2> HIDE DEF c
  <2>3. c \in Nat /\ k \in Nat /\ c <= k /\ k <= c
    BY <1>2, <1>3, <2>1
  <2>4. c = k
    BY <2>3
  <2> QED
    BY <2>2, <2>4
<1>5. power_rail_voltage = lib.voltages[k].volts
  BY <1>4 DEF DeckInv, Stimulated
<1>6. 100 * power_rail_voltage \in Supplies(h)
  BY <1>5, SupplyLevel
<1>7. PICK g \in SuppliesOf(circuit.driver) : lib.voltages[g].volts = 0
  BY DEF Characterised
<1>8. 0 \in Supplies(h)
  <2>1. 100 * lib.voltages[g].volts = 0
    BY <1>7
  <2> QED
    BY <2>1, SupplyLevel
<1>9. power_rail_voltage \in Nat \ {0}
  BY <1>1, <1>2, <1>3, <1>5 DEF NonzeroRails
<1> QED
  BY <1>6, <1>8, <1>9

-----------------------------------------------------------------------------
(* Numbers.                                                                  *)

\* Products of numbers are ordered as their factors are.
LEMMA ProductMonotone ==
    ASSUME NEW a \in Nat, NEW b \in Nat, NEW c \in Nat, NEW d \in Nat, a <= b, c <= d
    PROVE  a * c \in Nat /\ b * d \in Nat /\ a * c <= b * d
<1>1. a * c \in Nat /\ b * c \in Nat /\ b * d \in Nat
  OBVIOUS
<1>2. a * c <= b * c
  <2>1. (b - a) * c \in Nat
    OBVIOUS
  <2>2. (b - a) * c = b * c - a * c
    OBVIOUS
  <2> QED
    BY <1>1, <2>1, <2>2
<1>3. b * c <= b * d
  <2>1. b * (d - c) \in Nat
    OBVIOUS
  <2>2. b * (d - c) = b * d - b * c
    OBVIOUS
  <2> QED
    BY <1>1, <2>1, <2>2
<1> QED
  BY <1>1, <1>2, <1>3

\* A part of a positive level lies between the ground and the level.
LEMMA PartOfLevel ==
    ASSUME NEW v \in Nat \ {0}, NEW pct \in 1..99
    PROVE  0 < pct * v /\ pct * v < 100 * v
<1>1. 1 * v <= pct * v
  BY ProductMonotone
<1>2. pct * v <= 99 * v
  BY ProductMonotone
<1>3. pct * v \in Nat
  BY ProductMonotone
<1> QED
  BY <1>1, <1>2, <1>3

LEMMA Widths ==
    ASSUME DeckInv
    PROVE  /\ RiseWidth \in Nat \ {0} /\ FallWidth \in Nat \ {0}
           /\ Unit \in Nat \ {0} /\ Unit = RiseWidth * FallWidth
           /\ circuit.tramp \in Nat
           /\ RampRise \in Nat /\ RampFall \in Nat /\ tstart \in Nat /\ tpulse \in Nat
           /\ {lib.thresholds.lower_rise, lib.thresholds.upper_rise,
               lib.thresholds.lower_fall, lib.thresholds.upper_fall} \subseteq 1..99
<1>1. /\ lib.thresholds \in [lower_rise : 1..99, upper_rise : 1..99,
                             lower_fall : 1..99, upper_fall : 1..99]
      /\ lib.thresholds.lower_rise < lib.thresholds.upper_rise
      /\ lib.thresholds.lower_fall < lib.thresholds.upper_fall
      /\ circuit.tramp \in Nat
  BY DeckAssumption DEF DeckInv, Read
<1>2. RiseWidth \in Nat \ {0} /\ FallWidth \in Nat \ {0}
  <2> DEFINE t == lib.thresholds
  <2>1. /\ t.lower_rise \in 1..99 /\ t.upper_rise \in 1..99
        /\ t.lower_fall \in 1..99 /\ t.upper_fall \in 1..99
    BY <1>1
  <2>2. t.upper_rise - t.lower_rise \in Nat \ {0} /\ t.upper_fall - t.lower_fall \in Nat \ {0}
    <3>1. t.lower_rise < t.upper_rise /\ t.lower_fall < t.upper_fall
      BY <1>1
    <3>2. \A a, b \in 1..99 : a < b => b - a \in Nat \ {0}
      OBVIOUS
    <3> QED
      BY <2>1, <3>1, <3>2
  <2> QED
    BY <2>2 DEF RiseWidth, FallWidth
<1>3. Unit \in Nat \ {0}
  <2>1. 1 * 1 <= RiseWidth * FallWidth
    BY <1>2, ProductMonotone
  <2> QED
    BY <1>2, <2>1 DEF Unit
<1>4. RampRise \in Nat /\ RampFall \in Nat /\ tstart \in Nat /\ tpulse \in Nat
  BY <1>1, <1>2, <1>3 DEF RampRise, RampFall, tstart, tpulse
<1>5. {lib.thresholds.lower_rise, lib.thresholds.upper_rise,
       lib.thresholds.lower_fall, lib.thresholds.upper_fall} \subseteq 1..99
  BY <1>1
<1> QED
  BY <1>1, <1>2, <1>3, <1>4, <1>5 DEF Unit

-----------------------------------------------------------------------------
(* The waveform of the input.                                                *)

LEMMA Points ==
    /\ Len(AsuPoints) \in Nat /\ DOMAIN AsuPoints = 1..Len(AsuPoints)
    /\ \A k \in DOMAIN AsuPoints : AsuPoints[k][1] \in Nat /\ AsuPoints[k][2] \in Nat
    /\ \A j, k \in DOMAIN AsuPoints : j <= k => AsuPoints[j][1] <= AsuPoints[k][1]
    /\ \E k \in DOMAIN AsuPoints : AsuPoints[k][2] >= 50
<1>1. /\ AsuPoints \in Seq(Nat \X Nat)
      /\ \A j, k \in DOMAIN AsuPoints : j <= k => AsuPoints[j][1] <= AsuPoints[k][1]
      /\ \E k \in DOMAIN AsuPoints : AsuPoints[k][2] >= 50
  BY DeckAssumption
<1>2. /\ Len(AsuPoints) \in Nat /\ DOMAIN AsuPoints = 1..Len(AsuPoints)
      /\ \A k \in DOMAIN AsuPoints : AsuPoints[k] \in Nat \X Nat
  BY <1>1, LenProperties
<1>3. \A k \in DOMAIN AsuPoints : AsuPoints[k][1] \in Nat /\ AsuPoints[k][2] \in Nat
  BY <1>2
<1> QED
  BY <1>1, <1>2, <1>3

\* The first point at which the wave has passed the half.
LEMMA FirstPastHalf ==
    \E j \in 1..Len(AsuPoints) :
        /\ AsuPoints[j][2] >= 50
        /\ \A k \in 1..Len(AsuPoints) : k < j => AsuPoints[k][2] < 50
<1> DEFINE R == {ss \in Nat \X Nat : ss[1] < ss[2]}
           S == {k \in 1..Len(AsuPoints) : AsuPoints[k][2] >= 50}
<1>1. IsWellFoundedOn(R, Nat)
  BY NatLessThanWellFounded DEF OpToRel
<1>2. \A x, y \in Nat : y < x => <<y, x>> \in R
  OBVIOUS
<1>3. S \subseteq Nat /\ S # {}
  BY Points
<1> HIDE DEF R
<1>4. PICK j \in S : \A y \in S : ~(<<y, j>> \in R)
  <2> HIDE DEF S
  <2> QED
    BY <1>1, <1>3, WFMin
<1>5. ASSUME NEW k \in 1..Len(AsuPoints), k < j
      PROVE  AsuPoints[k][2] < 50
  <2>1. j \in Nat /\ k \in Nat
    BY Points
  <2>2. <<k, j>> \in R
    BY <1>2, <1>5, <2>1
  <2>3. k \notin S
    BY <1>4, <2>2
  <2> QED
    BY <2>3, Points
<1> QED
  BY <1>4, <1>5

\* The points of the wave follow one another in time.
LEMMA AsuTimes ==
    ASSUME DeckInv
    PROVE  /\ \A k \in 1..Len(AsuPoints) : AsuTime(k) \in Nat
           /\ \A j, k \in 1..Len(AsuPoints) : j <= k => AsuTime(j) <= AsuTime(k)
<1> DEFINE parts(k) == circuit.tramp * AsuPoints[k][1] * Unit
<1>1. ASSUME NEW j \in 1..Len(AsuPoints), NEW k \in 1..Len(AsuPoints), j <= k
      PROVE  parts(j) \in Nat /\ parts(k) \in Nat /\ parts(j) <= parts(k)
  <2>1. /\ circuit.tramp \in Nat /\ Unit \in Nat
        /\ AsuPoints[j][1] \in Nat /\ AsuPoints[k][1] \in Nat /\ AsuPoints[j][1] <= AsuPoints[k][1]
    BY <1>1, Points, Widths
  <2>2. /\ circuit.tramp * AsuPoints[j][1] \in Nat /\ circuit.tramp * AsuPoints[k][1] \in Nat
        /\ circuit.tramp * AsuPoints[j][1] <= circuit.tramp * AsuPoints[k][1]
    BY <2>1, ProductMonotone
  <2>3. \A x, y \in Nat : x <= y => x * Unit \in Nat /\ y * Unit \in Nat /\ x * Unit <= y * Unit
    BY <2>1, ProductMonotone
  <2> QED
    BY <2>2, <2>3
<1>2. \A m, n \in Nat : m <= n => m \div 100 \in Nat /\ m \div 100 <= n \div 100
  OBVIOUS
<1>3. ASSUME NEW j \in 1..Len(AsuPoints), NEW k \in 1..Len(AsuPoints), j <= k
      PROVE  AsuTime(j) \in Nat /\ AsuTime(j) <= AsuTime(k)
  <2> HIDE DEF parts
  <2>1. parts(j) \div 100 \in Nat /\ parts(j) \div 100 <= parts(k) \div 100
    BY <1>1, <1>2, <1>3
  <2> QED
    BY <2>1 DEF AsuTime, parts
<1>4. ASSUME NEW k \in 1..Len(AsuPoints)
      PROVE  AsuTime(k) \in Nat
  <2>1. k <= k
    BY Points
  <2> QED
    BY <1>3, <2>1
<1> QED
  BY <1>3, <1>4

\* Whether the input rises first, which it does where the output shall move this way.
InputRises(h) == (h = "rise") = IsPositiveUnate

\* Both waveforms begin at the rail the input swings from.
LEMMA WaveStart ==
    ASSUME NEW h \in Halves, NEW v
    PROVE  Waveform(h, v)[1][2] = IF InputRises(h) THEN 0 ELSE v
<1>1. Swing(h, v)[1] = IF InputRises(h) THEN 0 ELSE v
  BY DEF Swing, InputRises
<1>2. \A a, b : Pulse(a, b)[1][2] = a
  BY DEF Pulse
<1>3. \A a, b : AsuWave(a, b)[1][2] = a
  <2>1. 1 \in 1..(Len(AsuPoints) + 1)
    BY Points
  <2> QED
    BY <2>1 DEF AsuWave
<1> QED
  BY <1>1, <1>2, <1>3 DEF Waveform

\* In each half the input moves so that the output moves the half's way.
LEMMA Directions ==
    ASSUME DeckInv, pc = "done", NEW h \in Halves, power_rail_voltage \in Nat \ {0}
    PROVE  /\ InputDir(h) = IF InputRises(h) THEN "rise" ELSE "fall"
           /\ OutputDir(h) = h
           /\ InputDir(h) = IF IsPositiveUnate THEN h ELSE Opposite(h)
<1>1. InputWave(h)[1][2] = IF InputRises(h) THEN 0 ELSE 100 * power_rail_voltage
  BY InputSource, WaveStart
<1>2. 100 * power_rail_voltage # 0
  OBVIOUS
<1>3. InputDir(h) = IF InputRises(h) THEN "rise" ELSE "fall"
  BY <1>1, <1>2 DEF InputDir
<1>4. IsPositiveUnate \in BOOLEAN
  BY DEF IsPositiveUnate
<1> QED
  BY <1>3, <1>4 DEF OutputDir, InputRises, Opposite, Halves

\* A ramp passes the half of the power rail on its first edge.
LEMMA RampCrosses ==
    ASSUME DeckInv, NEW v \in Nat \ {0}, NEW h \in Halves, circuit.waveform # "asu_exp",
           sim_time = SimTime, NEW p
    PROVE  Crosses(Waveform(h, 100 * v),
                   [pin |-> p, level |-> 50 * v, dir |-> IF InputRises(h) THEN "rise" ELSE "fall"])
<1> DEFINE from == IF InputRises(h) THEN 0 ELSE 100 * v
           to == IF InputRises(h) THEN 100 * v ELSE 0
           w == Pulse(from, to)
           e == [pin |-> p, level |-> 50 * v, dir |-> IF InputRises(h) THEN "rise" ELSE "fall"]
<1>1. Waveform(h, 100 * v) = w
  BY DEF Waveform, Swing, InputRises
<1>2. /\ RampRise \in Nat /\ tstart \in Nat /\ tpulse \in Nat
      /\ sim_time = tstart + RampRise + tpulse
  BY Widths DEF SimTime
<1>3. Len(w) = 6 /\ w[2] = <<tstart, from>> /\ w[3] = <<tstart + RampRise, to>>
  BY DEF Pulse
<1>4. /\ IF e.dir = "rise" THEN from < e.level /\ e.level <= to ELSE to <= e.level /\ e.level < from
      /\ Distance(e.level, from) = 50 * v /\ Distance(to, from) = 100 * v
  BY DEF Distance
<1>5. RampRise * (50 * v) <= (RampRise + tpulse) * (100 * v)
  BY <1>2, ProductMonotone
<1>6. ((tstart + RampRise) - tstart) * Distance(e.level, from) <= (sim_time - tstart) * Distance(to, from)
  <2>1. (tstart + RampRise) - tstart = RampRise /\ sim_time - tstart = RampRise + tpulse
    BY <1>2
  <2> QED
    BY <1>4, <1>5, <2>1
<1>7. Crosses(w, e)
  <2> HIDE DEF w, e, from, to
  <2>1. 2 \in 1..(Len(w) - 1) /\ 2 + 1 = 3
    BY <1>3
  <2>2. /\ IF e.dir = "rise" THEN w[2][2] < e.level /\ e.level <= w[2 + 1][2]
                             ELSE w[2 + 1][2] <= e.level /\ e.level < w[2][2]
        /\ (w[2 + 1][1] - w[2][1]) * Distance(e.level, w[2][2])
             <= (sim_time - w[2][1]) * Distance(w[2 + 1][2], w[2][2])
    BY <1>3, <1>4, <1>6, <2>1
  <2> QED
    BY <2>1, <2>2 DEF Crosses
<1> QED
  BY <1>1, <1>7

\* The wave's levels, from the ground up and from the rail down.
LEMMA AsuLevels ==
    ASSUME NEW v \in Nat, NEW pct \in Nat
    PROVE  /\ 0 + (((100 * v - 0) * pct) \div 100) = v * pct
           /\ 100 * v + (((0 - 100 * v) * pct) \div 100) = 100 * v - v * pct
<1>1. \A x \in Int : (100 * x) \div 100 = x
  OBVIOUS
<1>2. (100 * v - 0) * pct = 100 * (v * pct) /\ (0 - 100 * v) * pct = 100 * (0 - v * pct)
  OBVIOUS
<1>3. v * pct \in Nat
  OBVIOUS
<1> QED
  BY <1>1, <1>2, <1>3

\* The exponential wave passes the half at the first of its points that is past it.
LEMMA AsuCrosses ==
    ASSUME DeckInv, NEW v \in Nat \ {0}, NEW h \in Halves, circuit.waveform = "asu_exp",
           sim_time = SimTime, NEW p
    PROVE  Crosses(Waveform(h, 100 * v),
                   [pin |-> p, level |-> 50 * v, dir |-> IF InputRises(h) THEN "rise" ELSE "fall"])
<1> DEFINE from == IF InputRises(h) THEN 0 ELSE 100 * v
           to == IF InputRises(h) THEN 100 * v ELSE 0
           n == Len(AsuPoints)
           w == AsuWave(from, to)
           dir == IF InputRises(h) THEN "rise" ELSE "fall"
           e == [pin |-> p, level |-> 50 * v, dir |-> dir]
           past(k) == from + (((to - from) * AsuPoints[k][2]) \div 100)
<1>1. Waveform(h, 100 * v) = w
  BY DEF Waveform, Swing, InputRises
<1>2. n \in Nat /\ \A k \in 1..n : AsuPoints[k][2] \in Nat
  BY Points
<1>3. /\ w[1] = <<0, from>>
      /\ \A k \in 1..n : w[k + 1] = <<AsuTime(k), past(k)>>
      /\ Len(w) = n + 1
  <2>1. w \in Seq({w[k] : k \in 1..(n + 1)}) /\ DOMAIN w = 1..(n + 1)
    <3> DEFINE T == {w[k] : k \in 1..(n + 1)}
    <3>1. DOMAIN w = 1..(n + 1) /\ w \in [1..(n + 1) -> T]
      BY DEF AsuWave
    <3>2. n + 1 \in Nat
      BY <1>2
    <3> HIDE DEF w, T, n
    <3>3. w \in Seq(T)
      BY <3>1, <3>2, SeqDef
    <3> QED
      BY <3>1, <3>3 DEF T
  <2>2. Len(w) = n + 1
    BY <1>2, <2>1, LenProperties
  <2>3. w[1] = <<0, from>>
    BY <1>2 DEF AsuWave
  <2>4. ASSUME NEW k \in 1..n
        PROVE  w[k + 1] = <<AsuTime(k), past(k)>>
    <3>1. k + 1 \in 1..(n + 1) /\ k + 1 # 1 /\ (k + 1) - 1 = k
      BY <1>2
    <3> QED
      BY <3>1 DEF AsuWave
  <2> QED
    BY <2>2, <2>3, <2>4
<1>4. \A k \in 1..n :
          past(k) = IF InputRises(h) THEN v * AsuPoints[k][2] ELSE 100 * v - v * AsuPoints[k][2]
  BY <1>2, AsuLevels
<1>5. PICK j \in 1..n : AsuPoints[j][2] >= 50 /\ \A k \in 1..n : k < j => AsuPoints[k][2] < 50
  BY FirstPastHalf
<1> DEFINE a == w[j]
           b == w[j + 1]
<1>6. b = <<AsuTime(j), past(j)>>
  BY <1>3
<1>7. v * 50 <= v * AsuPoints[j][2] /\ v * AsuPoints[j][2] \in Nat
  <2>1. AsuPoints[j][2] \in Nat /\ 50 <= AsuPoints[j][2]
    BY <1>2, <1>5
  <2> QED
    BY <2>1, ProductMonotone
<1>8. /\ a[1] \in Nat /\ a[1] <= AsuTime(j)
      /\ IF InputRises(h) THEN a[2] \in Int /\ a[2] < 50 * v ELSE a[2] \in Int /\ 50 * v < a[2]
  <2>1. CASE j = 1
    BY <1>3, <2>1, AsuTimes
  <2>2. CASE j # 1
    <3>1. j - 1 \in 1..n /\ (j - 1) + 1 = j /\ j - 1 < j
      BY <1>2, <2>2
    <3>2. a = <<AsuTime(j - 1), past(j - 1)>>
      BY <1>3, <3>1
    <3>3. v * AsuPoints[j - 1][2] <= v * 49 /\ v * AsuPoints[j - 1][2] \in Nat
      <4>1. AsuPoints[j - 1][2] \in Nat /\ AsuPoints[j - 1][2] <= 49
        BY <1>2, <1>5, <3>1
      <4> QED
        BY <4>1, ProductMonotone
    <3>4. v * 49 < 50 * v
      OBVIOUS
    <3>5. past(j - 1) = IF InputRises(h) THEN v * AsuPoints[j - 1][2]
                                         ELSE 100 * v - v * AsuPoints[j - 1][2]
      BY <1>4, <3>1
    <3>6. AsuTime(j - 1) \in Nat /\ AsuTime(j - 1) <= AsuTime(j)
      BY <3>1, AsuTimes
    <3> HIDE DEF past
    <3> QED
      BY <3>2, <3>3, <3>4, <3>5, <3>6
  <2> QED
    BY <2>1, <2>2
<1>9. AsuTime(j) \in Nat /\ sim_time \in Nat /\ AsuTime(j) <= sim_time
  <2>1. n \in 1..n /\ AsuTime(j) <= AsuTime(n) /\ AsuTime(j) \in Nat /\ AsuTime(n) \in Nat
    BY <1>2, AsuTimes
  <2>2. (circuit.tramp * 2 + 500) * Unit \in Nat
    <3>1. circuit.tramp * 2 + 500 \in Nat /\ Unit \in Nat
      BY Widths
    <3> QED
      BY <3>1, ProductMonotone
  <2>3. sim_time = AsuTime(n) + (circuit.tramp * 2 + 500) * Unit
    BY DEF SimTime
  <2> QED
    BY <2>1, <2>2, <2>3
<1>10. /\ IF dir = "rise" THEN a[2] < 50 * v /\ 50 * v <= b[2] ELSE b[2] <= 50 * v /\ 50 * v < a[2]
       /\ a[2] \in Int /\ b[2] \in Int
       /\ Distance(50 * v, a[2]) \in Nat /\ Distance(b[2], a[2]) \in Nat
       /\ Distance(50 * v, a[2]) <= Distance(b[2], a[2])
  <2>1. b[2] = IF InputRises(h) THEN v * AsuPoints[j][2] ELSE 100 * v - v * AsuPoints[j][2]
    BY <1>4, <1>6
  <2> HIDE DEF a, b
  <2>2. /\ b[2] \in Int
        /\ IF InputRises(h) THEN 50 * v <= b[2] ELSE b[2] <= 50 * v
    BY <1>7, <2>1
  <2> QED
    BY <1>8, <2>2 DEF Distance
<1>11. (b[1] - a[1]) * Distance(e.level, a[2]) <= (sim_time - a[1]) * Distance(b[2], a[2])
  <2>1. b[1] - a[1] \in Nat /\ sim_time - a[1] \in Nat /\ b[1] - a[1] <= sim_time - a[1]
    <3>1. b[1] = AsuTime(j) /\ a[1] \in Nat /\ a[1] <= AsuTime(j)
      BY <1>6, <1>8
    <3> HIDE DEF a, b
    <3> QED
      BY <1>9, <3>1
  <2> HIDE DEF a, b
  <2> QED
    BY <1>10, <2>1, ProductMonotone
<1>12. j \in 1..(Len(w) - 1)
  BY <1>2, <1>3
<1>13. Crosses(w, e)
  <2>1. e.level = 50 * v /\ e.dir = dir
    OBVIOUS
  <2> HIDE DEF w, e, dir, from, to
  <2> QED
    BY <1>10, <1>11, <1>12, <2>1 DEF Crosses
<1> QED
  BY <1>1, <1>13

-----------------------------------------------------------------------------
(* The theorems.                                                             *)

LEMMA InputCrosses ==
    ASSUME DeckInv, pc = "done", power_rail_voltage \in Nat \ {0}, NEW h \in Halves, NEW p
    PROVE  Crosses(InputWave(h), Event(p, 50, InputDir(h)))
<1>1. sim_time = SimTime
  BY DEF DeckInv, Stimulated
<1>2. Event(p, 50, InputDir(h)) = [pin |-> p, level |-> 50 * power_rail_voltage,
                                   dir |-> IF InputRises(h) THEN "rise" ELSE "fall"]
  BY Directions DEF Event
<1>3. InputWave(h) = Waveform(h, 100 * power_rail_voltage)
  BY InputSource
<1> QED
  BY <1>1, <1>2, <1>3, RampCrosses, AsuCrosses

LEMMA OutputHappens ==
    ASSUME DeckInv, pc = "done", Characterised, NEW h \in Halves, NEW pct \in 1..99
    PROVE  LET e == Event(circuit.driver.out, pct, h) IN
           /\ e.dir = OutputDir(h)
           /\ \E low, high \in Supplies(h) : low < e.level /\ e.level < high
<1>1. power_rail_voltage \in Nat \ {0} /\ 0 \in Supplies(h) /\ 100 * power_rail_voltage \in Supplies(h)
  BY PowerRail
<1>2. 0 < pct * power_rail_voltage /\ pct * power_rail_voltage < 100 * power_rail_voltage
  BY <1>1, PartOfLevel
<1>3. OutputDir(h) = h
  BY <1>1, Directions
<1> QED
  BY <1>1, <1>2, <1>3 DEF Event

LEMMA AllHappen == DeckInv => MeasuresHappen
<1> SUFFICES ASSUME DeckInv, pc = "done", Characterised,
                    NEW m \in measures, NEW e \in {m.trig, m.targ}
             PROVE  IF e.pin = circuit.driver.in
                    THEN Crosses(InputWave(m.half), e)
                    ELSE /\ e.dir = OutputDir(m.half)
                         /\ \E low, high \in Supplies(m.half) : low < e.level /\ e.level < high
  BY DEF MeasuresHappen
<1> DEFINE in == circuit.driver.in
           out == circuit.driver.out
<1>1. measures = Statements
  BY DEF DeckInv, Measured
<1>2. in # out
  BY DeckAssumption DEF DeckInv, Read
<1>3. power_rail_voltage \in Nat \ {0}
  BY PowerRail DEF Halves
<1>4. CASE \E h \in Halves : m = Delay(h)
  <2>1. PICK h \in Halves : m = Delay(h)
    BY <1>4
  <2>2. /\ m.half = h /\ m.targ = Event(out, 50, h)
        /\ m.trig = Event(in, 50, IF IsPositiveUnate THEN h ELSE Opposite(h))
    BY <2>1 DEF Delay
  <2>3. CASE e = m.trig
    <3>1. e = Event(in, 50, InputDir(h))
      BY <1>3, <2>2, <2>3, Directions
    <3>2. e.pin = in
      BY <3>1 DEF Event
    <3>3. Crosses(InputWave(h), e)
      BY <1>3, <3>1, InputCrosses
    <3> QED
      BY <2>2, <3>2, <3>3
  <2>4. CASE e = m.targ
    <3>1. e.pin # in
      BY <1>2, <2>2, <2>4 DEF Event
    <3>2. /\ e.dir = OutputDir(h)
          /\ \E low, high \in Supplies(h) : low < e.level /\ e.level < high
      BY <2>2, <2>4, OutputHappens
    <3> QED
      BY <2>2, <3>1, <3>2
  <2> QED
    BY <2>3, <2>4
<1>5. CASE \E h \in Halves : m = Slew(h)
  <2>1. PICK h \in Halves : m = Slew(h)
    BY <1>5
  <2>2. m.half = h /\ \E pct \in 1..99 : e = Event(out, pct, h)
    BY <2>1, Widths DEF Slew
  <2>3. e.pin # in
    BY <1>2, <2>2 DEF Event
  <2>4. /\ e.dir = OutputDir(h)
        /\ \E low, high \in Supplies(h) : low < e.level /\ e.level < high
    BY <2>2, OutputHappens
  <2> QED
    BY <2>2, <2>3, <2>4
<1> QED
  BY <1>1, <1>4, <1>5 DEF Statements

\* Every event a finished deck measures takes place, whatever the library, the
\* circuit and the pin order are: the input's source crosses the half in the
\* trigger's direction before the simulation ends, and the output moves the way
\* that is measured between supplies that hold the level.
THEOREM DeckMeasuresHappen == Spec => []MeasuresHappen
BY DeckWritten, AllHappen, PTL

\* More devices join what fewer do.
LEMMA JoinedByMore ==
    ASSUME NEW few, NEW many, few \subseteq many, NEW from, NEW to, Joined(few, from, to)
    PROVE  Joined(many, from, to)
<1> DEFINE nodes(devices) == {from, to} \cup UNION {{d[1], d[2]} : d \in devices}
<1> SUFFICES ASSUME NEW S \in SUBSET nodes(many), from \in S,
                    \A d \in many : d[1] \in S <=> d[2] \in S
             PROVE  to \in S
  BY DEF Joined
<1>1. S \cap nodes(few) \in SUBSET nodes(few) /\ from \in S \cap nodes(few)
  OBVIOUS
<1>2. \A d \in few : d[1] \in nodes(few) /\ d[2] \in nodes(few)
  OBVIOUS
<1>3. \A d \in few : d[1] \in S \cap nodes(few) <=> d[2] \in S \cap nodes(few)
  BY <1>2
<1>4. \A T \in SUBSET nodes(few) :
          from \in T /\ (\A d \in few : d[1] \in T <=> d[2] \in T) => to \in T
  BY DEF Joined
<1> HIDE DEF nodes
<1>5. to \in S \cap nodes(few)
  BY <1>1, <1>3, <1>4
<1> QED
  BY <1>5

\* A device of the net is in both halves of the deck.
LEMMA DevicesWritten ==
    ASSUME DeckInv, pc = "done", NEW h \in Halves
    PROVE  /\ {net.ress[k] : k \in DOMAIN net.ress} \subseteq Resistors(h)
           /\ \A k \in DOMAIN net.caps :
                \E e \in Of(h, "C") : e.name = <<"net", k - 1>> /\ e.nodes = CapNodes(net.caps[k])
<1>1. NetDevices \subseteq deck
  BY DEF DeckInv, NetWritten
<1> DEFINE dev(kind, k, nodes) ==
      [kind |-> kind, name |-> <<"net", k - 1>>, half |-> h, nodes |-> nodes, pwl |-> <<>>]
<1>2. \A kind, k, nodes : dev(kind, k, nodes) \in Device(kind, k, nodes)
  BY DEF Device
<1>3. ASSUME NEW k \in DOMAIN net.ress
      PROVE  net.ress[k] \in Resistors(h)
  <2>1. dev("R", k, net.ress[k]) \in NetDevices
    BY <1>2 DEF NetDevices
  <2> QED
    BY <1>1, <2>1 DEF Resistors, Of
<1>4. ASSUME NEW k \in DOMAIN net.caps
      PROVE  \E e \in Of(h, "C") : e.name = <<"net", k - 1>> /\ e.nodes = CapNodes(net.caps[k])
  <2>1. dev("C", k, CapNodes(net.caps[k])) \in NetDevices
    BY <1>2 DEF NetDevices
  <2>2. dev("C", k, CapNodes(net.caps[k])) \in Of(h, "C")
    BY <1>1, <2>1 DEF Of
  <2> QED
    BY <2>2
<1> QED
  BY <1>3, <1>4

LEMMA WholeStage == DeckInv => StageConnected
<1> SUFFICES ASSUME DeckInv, pc = "done", Characterised, NEW h \in Halves
             PROVE  LET from == Pin(circuit.driver, circuit.driver.out)
                        to == Pin(circuit.load, circuit.load.in) IN
                    /\ {from, Pin(circuit.driver, circuit.driver.in)} \subseteq PortsOf(h, circuit.driver)
                    /\ {to, LoadOut} \subseteq PortsOf(h, circuit.load)
                    /\ Joined({net.ress[k] : k \in DOMAIN net.ress}, from, to)
                         => Joined(Resistors(h), from, to)
                    /\ \A i \in {circuit.driver, circuit.load} : \A k \in SuppliesOf(i) :
                          Rail(lib.voltages[k].rail) \in PortsOf(h, i)
                    /\ "VSS" \in Rails => \A k \in DOMAIN net.caps :
                          net.caps[k][2] = Ground =>
                              \E e \in Of(h, "C") : e.name = <<"net", k - 1>> /\ SourceAt(h, e.nodes[2]) # {}
  BY DEF StageConnected
<1>1. HasPins(circuit.driver) /\ HasPins(circuit.load)
  BY DEF Characterised
<1>2. {Pin(circuit.driver, circuit.driver.out), Pin(circuit.driver, circuit.driver.in)}
         \subseteq PortsOf(h, circuit.driver)
  BY <1>1, PinsHeld
<1>3. {Pin(circuit.load, circuit.load.in), LoadOut} \subseteq PortsOf(h, circuit.load)
  BY <1>1, PinsHeld DEF LoadOut
<1>4. ASSUME NEW from, NEW to, Joined({net.ress[k] : k \in DOMAIN net.ress}, from, to)
      PROVE  Joined(Resistors(h), from, to)
  <2>1. {net.ress[k] : k \in DOMAIN net.ress} \subseteq Resistors(h)
    BY DevicesWritten
  <2> QED
    BY <1>4, <2>1, JoinedByMore
<1>5. \A i \in {circuit.driver, circuit.load} : \A k \in SuppliesOf(i) :
          Rail(lib.voltages[k].rail) \in PortsOf(h, i)
  BY RailsHeld
<1>6. ASSUME "VSS" \in Rails, NEW k \in DOMAIN net.caps, net.caps[k][2] = Ground
      PROVE  \E e \in Of(h, "C") : e.name = <<"net", k - 1>> /\ SourceAt(h, e.nodes[2]) # {}
  <2>1. PICK e \in Of(h, "C") : e.name = <<"net", k - 1>> /\ e.nodes = CapNodes(net.caps[k])
    BY DevicesWritten
  <2>2. e.nodes[2] = Rail("VSS")
    BY <1>6, <2>1 DEF CapNodes
  <2>3. PICK r \in DOMAIN lib.voltages : lib.voltages[r].rail = "VSS"
    BY <1>6 DEF Rails
  <2> DEFINE src == Source("VSS", Rail("VSS"), h, << <<0, 100 * lib.voltages[r].volts>> >>)
  <2>4. src \in RailSources
    BY <2>3 DEF RailSources
  <2>5. src \in SourceAt(h, Rail("VSS"))
    BY <2>4 DEF DeckInv, Stimulated, SourceAt, Of, Source
  <2> QED
    BY <2>1, <2>2, <2>5
<1> QED
  BY <1>2, <1>3, <1>4, <1>5, <1>6

\* In each half of a finished deck the stage is whole, whatever the net is: the
\* source drives the driver, what the net's resistors join is joined, both
\* instances have their rails and a capacitor to ground has a source at its end.
THEOREM DeckStageConnected == Spec => []StageConnected
BY DeckWritten, WholeStage, PTL
=============================================================================
