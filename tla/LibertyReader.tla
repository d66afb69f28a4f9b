--------------------------- MODULE LibertyReader ---------------------------
(***************************************************************************)
(* read_liberty: from the groups the Liberty parser delivers to the cell   *)
(* library the programs use.  A library has cells, a cell pins, a pin      *)
(* timing arcs, an arc the vectors of its current tables, each with the    *)
(* time it refers to; groups of other kinds lie between them.              *)
(*                                                                         *)
(* The parser is external: a file is what it returns, an error or the      *)
(* groups in their order.  Attributes that are copied and the tables that  *)
(* are stored whole (NLDM, receiver capacitance) are left out; rising and  *)
(* falling current tables are read by the same code, so an arc has one     *)
(* list.  Objects are put into their maps when they are complete: nothing  *)
(* looks at them before.                                                   *)
(***************************************************************************)
EXTENDS Naturals, Sequences, FiniteSets

CONSTANTS Files,        \* [status, libraries]; see MC for the records
          NoRelated,    \* a timing group without related_pin
          Garbage,      \* CellArc::_related_pin before fixup_pins_in_arcs
          NoLibrary     \* cell_lib is nullptr

\* Groups are in sequences, down to the vectors of a current table.
InOrder(groups) == Len(groups) \in Nat /\ DOMAIN groups = 1..Len(groups)

ASSUME FilesAssumption ==
    \A f \in Files :
        /\ f.status \in {"cannot_open", "syntax_error", "read"}
        /\ InOrder(f.libraries)
        /\ \A i \in DOMAIN f.libraries :
            LET library == f.libraries[i].groups IN
            /\ InOrder(library)
            /\ \A j \in DOMAIN library : library[j].kind = "cell" =>
                LET pins == library[j].groups IN
                /\ InOrder(pins)
                /\ \A k \in DOMAIN pins : pins[k].kind = "pin" =>
                    LET timing == pins[k].groups IN
                    /\ InOrder(timing)
                    /\ \A m \in DOMAIN timing :
                          timing[m].kind = "timing" => InOrder(timing[m].groups)

VARIABLES pc,           \* "parse", "check", "library", "cell", "pin", "arc", "vector",
                        \* "returned" or "aborted"
          file,
          retval,
          l, c, p, a, v,  \* the iterators over the groups
          cell_lib,     \* name -> cell
          cell,         \* name -> _arcs of the pin
          arcs          \* _arcs of the pin that is read

vars == <<pc, file, retval, l, c, p, a, v, cell_lib, cell, arcs>>

Init ==
    /\ pc = "parse" /\ file \in Files /\ retval = 0
    /\ l = 1 /\ c = 1 /\ p = 1 /\ a = 1 /\ v = 1
    /\ cell_lib = NoLibrary
    /\ cell = [x \in {} |-> <<>>] /\ arcs = <<>>

libraries    == file.libraries
cell_groups  == libraries[l].groups
pin_groups   == cell_groups[c].groups
arc_groups   == pin_groups[p].groups
vector_group == arc_groups[a].groups

Put(map, name, value) == [x \in DOMAIN map \cup {name} |-> IF x = name THEN value ELSE map[x]]

Return(code) == pc' = "returned" /\ retval' = code

\* si2drReadLibertyFile
Parse ==
    /\ pc = "parse"
    /\ CASE file.status = "cannot_open" -> Return(301)
         [] file.status = "syntax_error" -> Return(401)
         [] file.status = "read" -> pc' = "check" /\ UNCHANGED retval
    /\ UNCHANGED <<file, l, c, p, a, v, cell_lib, cell, arcs>>

CheckOnlyFirst == pc' = "library"                           \* (variant)
CheckNext == pc' = IF l < Len(libraries) THEN "check" ELSE "library"

\* The database check: every library, before the first is stored.
CheckLibrary ==
    /\ pc = "check"
    /\ IF Len(libraries) > 0 /\ ~libraries[l].sane
       THEN Return(501) /\ UNCHANGED l
       ELSE /\ CheckNext
            /\ l' = IF pc' = "library" THEN 1 ELSE l + 1
            /\ UNCHANGED retval
    /\ UNCHANGED <<file, c, p, a, v, cell_lib, cell, arcs>>

\* A new CellLib for each library: the one before is dropped.
NextLibrary ==
    /\ pc = "library"
    /\ IF l > Len(libraries)
       THEN Return(0) /\ UNCHANGED <<c, cell_lib>>
       ELSE /\ cell_lib' = [x \in {} |-> <<>>]
            /\ c' = 1 /\ pc' = "cell" /\ UNCHANGED retval
    /\ UNCHANGED <<file, l, p, a, v, cell, arcs>>

\* A group of another kind than the one looked for is passed over.
NextCell ==
    /\ pc = "cell"
    /\ IF c > Len(cell_groups)
       THEN l' = l + 1 /\ pc' = "library" /\ UNCHANGED <<c, p, cell>>
       ELSE IF cell_groups[c].kind # "cell"
       THEN c' = c + 1 /\ UNCHANGED <<l, p, pc, cell>>
       ELSE cell' = [x \in {} |-> <<>>] /\ p' = 1 /\ pc' = "pin" /\ UNCHANGED <<l, c>>
    /\ UNCHANGED <<file, retval, a, v, cell_lib, arcs>>

\* Cell::fixup_pins_in_arcs; that it failed is not looked at.
Related(pins, str) == IF str \in DOMAIN pins THEN str ELSE Garbage
UpdateRelatedPin(arc, pin) ==
    [related_pin |-> pin, tables |-> arc.tables, reference_times |-> arc.reference_times]
FixupFirstArc(pins) ==                                      \* (variant)
    [x \in DOMAIN pins |->
        [k \in DOMAIN pins[x] |-> IF k = 1
            THEN UpdateRelatedPin(pins[x][k], Related(pins, pins[x][k].related_pin))
            ELSE UpdateRelatedPin(pins[x][k], Garbage)]]
FixupArcs(pins) ==
    [x \in DOMAIN pins |->
        [k \in DOMAIN pins[x] |->
            UpdateRelatedPin(pins[x][k], Related(pins, pins[x][k].related_pin))]]

NextPin ==
    /\ pc = "pin"
    /\ IF p > Len(pin_groups)
       THEN /\ cell_lib' = Put(cell_lib, cell_groups[c].name, FixupArcs(cell))
            /\ c' = c + 1 /\ pc' = "cell" /\ UNCHANGED <<p, a, arcs>>
       ELSE IF pin_groups[p].kind # "pin"
       THEN p' = p + 1 /\ UNCHANGED <<pc, c, a, cell_lib, arcs>>
       ELSE arcs' = <<>> /\ a' = 1 /\ pc' = "arc" /\ UNCHANGED <<c, p, cell_lib>>
    /\ UNCHANGED <<file, retval, l, v, cell>>

AddPin(pin) == [related_pin |-> pin, tables |-> 0, reference_times |-> 0]

\* The pin's remaining groups are left: "break" where the message says "Skipping
\* this arc".
LeaveOneEarlier == a' = Len(arc_groups)                     \* (variant)
LeavePin == a' = Len(arc_groups) + 1

NextArc ==
    /\ pc = "arc"
    /\ IF a > Len(arc_groups)
       THEN /\ cell' = Put(cell, pin_groups[p].name, arcs)
            /\ p' = p + 1 /\ pc' = "pin" /\ UNCHANGED <<a, v, arcs>>
       ELSE IF arc_groups[a].kind # "timing"
       THEN a' = a + 1 /\ UNCHANGED <<pc, p, v, cell, arcs>>
       ELSE IF arc_groups[a].related = NoRelated
       THEN LeavePin /\ UNCHANGED <<pc, p, v, cell, arcs>>
       ELSE /\ arcs' = Append(arcs, AddPin(arc_groups[a].related))
            /\ v' = 1 /\ pc' = "vector" /\ UNCHANGED <<p, a, cell>>
    /\ UNCHANGED <<file, retval, l, c, cell_lib>>

FoundOne(times) == times = 1
AddVector(arc, times) ==
    [related_pin |-> arc.related_pin, tables |-> arc.tables + 1,
     reference_times |-> arc.reference_times + times]

\* A vector of output_current_rise or _fall, and the asserts that it has exactly
\* one reference_time (times counts its reference_time attributes).
NextVector ==
    /\ pc = "vector"
    /\ IF v > Len(vector_group)
       THEN a' = a + 1 /\ pc' = "arc" /\ UNCHANGED <<v, arcs>>
       ELSE IF ~FoundOne(vector_group[v])
       THEN pc' = "aborted" /\ UNCHANGED <<v, a, arcs>>
       ELSE /\ arcs' = [arcs EXCEPT ![Len(arcs)] = AddVector(@, vector_group[v])]
            /\ v' = v + 1 /\ UNCHANGED <<pc, a>>
    /\ UNCHANGED <<file, retval, l, c, p, cell_lib, cell>>

Next == Parse \/ CheckLibrary \/ NextLibrary \/ NextCell \/ NextPin \/ NextArc \/ NextVector

Spec == Init /\ [][Next]_vars

\* The loops run.
FairSpec == Spec /\ WF_vars(Next)

-----------------------------------------------------------------------------
(* What the file says, without the loops.                                    *)

\* The last group of a kind with a name is the one that counts.
LastGroup(groups, kind, name) ==
    groups[CHOOSE k \in DOMAIN groups :
              /\ groups[k].kind = kind /\ groups[k].name = name
              /\ \A m \in DOMAIN groups :
                    groups[m].kind = kind /\ groups[m].name = name => m <= k]
Names(groups, kind) == {groups[k].name : k \in {m \in DOMAIN groups : groups[m].kind = kind}}

Timings(groups) == {k \in DOMAIN groups : groups[k].kind = "timing"}
Given(groups) == {k \in Timings(groups) : groups[k].related # NoRelated}
UpTo(ks, k) == {m \in ks : m <= k}

\* The arcs of a pin are its timing groups in their order, those without a related pin
\* left out, each with all its tables, as many reference times, and the pin it is
\* related to if the cell has that pin.  The reader leaves a pin at a timing group
\* without a related pin (NextArc): of the arcs behind one nothing is said here, but no
\* arc in front of it is missing, and the pin has none the file does not give it.
PinIsFile(pin_arcs, group, pins) ==
    LET groups == group.groups
        given == Given(groups)
    IN  /\ Len(pin_arcs) <= Cardinality(given)
        /\ \A k \in given :
              LET n == Cardinality(UpTo(given, k)) IN
              IF n <= Len(pin_arcs)
              THEN /\ pin_arcs[n].tables = Len(groups[k].groups)
                   /\ pin_arcs[n].reference_times = Len(groups[k].groups)
                   /\ groups[k].related \in pins
                         => pin_arcs[n].related_pin = groups[k].related
              ELSE \E m \in Timings(groups) : m < k /\ groups[m].related = NoRelated

\* When read_liberty returns 0, the cell library has exactly the cells of the file's
\* last library, these the pins, and these the arcs the file gives them.
LibraryIsFile ==
    pc = "returned" /\ retval = 0 /\ Len(libraries) > 0 =>
        LET groups == libraries[Len(libraries)].groups IN
        /\ DOMAIN cell_lib = Names(groups, "cell")
        /\ \A x \in DOMAIN cell_lib :
            LET pins == LastGroup(groups, "cell", x).groups IN
            /\ DOMAIN cell_lib[x] = Names(pins, "pin")
            /\ \A y \in DOMAIN cell_lib[x] :
                  PinIsFile(cell_lib[x][y], LastGroup(pins, "pin", y), Names(pins, "pin"))

\* A library that fails the check leaves nothing of the file behind, whichever
\* library it is: no program goes on with half a file.
CheckedBeforeStored ==
    cell_lib # NoLibrary => \A k \in DOMAIN libraries : libraries[k].sane

\* read_liberty comes to an end.
ReaderEnds == <>(pc \in {"returned", "aborted"})

=============================================================================
