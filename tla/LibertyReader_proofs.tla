------------------------ MODULE LibertyReader_proofs ------------------------
(***************************************************************************)
(* read_liberty delivers what the file says, for every file the parser     *)
(* returns: any number of libraries, cells, pins, arcs and vectors.        *)
(*                                                                         *)
(* The argument: each loop has done with the groups before its iterator    *)
(* what the property asks for all of them.  A map holds, under each name   *)
(* among those groups, what the last one with the name says; the arcs of a *)
(* pin are those of its readable timing groups, counted from the first.    *)
(***************************************************************************)
EXTENDS LibertyReader, SequenceTheorems, FiniteSetTheorems, TLAPS

-----------------------------------------------------------------------------
(* Names among the first groups of a list.                                 *)

NamesTo(groups, kind, n) == {groups[m].name : m \in {x \in 1..n : groups[x].kind = kind}}

\* The k-th group is the last of the first n with the kind and the name.
IsLast(groups, kind, name, k, n) ==
    /\ k \in 1..n /\ groups[k].kind = kind /\ groups[k].name = name
    /\ \A m \in 1..n : groups[m].kind = kind /\ groups[m].name = name => m <= k

\* One group more: of another kind, or a new last one with its name.
LEMMA Skipped ==
    ASSUME NEW groups, NEW kind, NEW n \in Nat \ {0}, groups[n].kind # kind
    PROVE  /\ NamesTo(groups, kind, n) = NamesTo(groups, kind, n - 1)
           /\ \A name, k : IsLast(groups, kind, name, k, n - 1) => IsLast(groups, kind, name, k, n)
<1>1. \A m \in 1..n : m = n \/ m \in 1..(n - 1)
  OBVIOUS
<1>2. \A m \in 1..(n - 1) : m \in 1..n
  OBVIOUS
<1>3. NamesTo(groups, kind, n) = NamesTo(groups, kind, n - 1)
  BY <1>1, <1>2 DEF NamesTo
<1>4. \A name, k : IsLast(groups, kind, name, k, n - 1) => IsLast(groups, kind, name, k, n)
  BY <1>1, <1>2 DEF IsLast
<1> QED
  BY <1>3, <1>4

LEMMA OneMore ==
    ASSUME NEW groups, NEW kind, NEW n \in Nat \ {0}, groups[n].kind = kind
    PROVE  /\ NamesTo(groups, kind, n) = NamesTo(groups, kind, n - 1) \cup {groups[n].name}
           /\ IsLast(groups, kind, groups[n].name, n, n)
           /\ \A name, k : name # groups[n].name /\ IsLast(groups, kind, name, k, n - 1)
                             => IsLast(groups, kind, name, k, n)
<1>1. \A m \in 1..n : m = n \/ m \in 1..(n - 1)
  OBVIOUS
<1>2. n \in 1..n /\ \A m \in 1..(n - 1) : m \in 1..n
  OBVIOUS
<1>3. \A m \in 1..n : m <= n
  OBVIOUS
<1>4. NamesTo(groups, kind, n) = NamesTo(groups, kind, n - 1) \cup {groups[n].name}
  BY <1>1, <1>2 DEF NamesTo
<1>5. IsLast(groups, kind, groups[n].name, n, n)
  BY <1>2, <1>3 DEF IsLast
<1>6. \A name, k : name # groups[n].name /\ IsLast(groups, kind, name, k, n - 1)
                     => IsLast(groups, kind, name, k, n)
  BY <1>1, <1>2 DEF IsLast
<1> QED
  BY <1>4, <1>5, <1>6

\* In the end it is the one the property calls the last.
LEMMA TheLast ==
    ASSUME NEW groups, NEW kind, NEW name, NEW k, InOrder(groups),
           IsLast(groups, kind, name, k, Len(groups))
    PROVE  LastGroup(groups, kind, name) = groups[k]
<1> DEFINE Is(x) == /\ groups[x].kind = kind /\ groups[x].name = name
                    /\ \A m \in DOMAIN groups :
                          groups[m].kind = kind /\ groups[m].name = name => m <= x
<1>1. k \in DOMAIN groups /\ Is(k) /\ DOMAIN groups = 1..Len(groups) /\ Len(groups) \in Nat
  BY DEF IsLast, InOrder
<1>2. \A x \in DOMAIN groups : Is(x) => x = k
  BY <1>1
<1>3. (CHOOSE x \in DOMAIN groups : Is(x)) = k
  BY <1>1, <1>2
<1> QED
  BY <1>3 DEF LastGroup

LEMMA AllNames ==
    ASSUME NEW groups, NEW kind, InOrder(groups)
    PROVE  NamesTo(groups, kind, Len(groups)) = Names(groups, kind)
BY DEF NamesTo, Names, InOrder

-----------------------------------------------------------------------------
(* Counting the readable timing groups.                                    *)

\* The timing groups before the first one that has no related pin: the others are left
\* with the pin.
Readable(groups) ==
    {k \in DOMAIN groups :
        /\ groups[k].kind = "timing"
        /\ \A m \in 1..k : groups[m].kind = "timing" => groups[m].related # NoRelated}

Said(groups, n) == UpTo(Readable(groups), n)
Nth(groups, k) == Cardinality(Said(groups, k))

LEMMA SaidFinite ==
    ASSUME NEW groups, InOrder(groups), NEW n
    PROVE  IsFiniteSet(Said(groups, n)) /\ Nth(groups, n) \in Nat
<1>1. Said(groups, n) \in SUBSET (1..Len(groups)) /\ Len(groups) \in Nat
  BY DEF Said, UpTo, Readable, InOrder
<1>2. IsFiniteSet(1..Len(groups))
  BY <1>1, FS_Interval
<1>3. IsFiniteSet(Said(groups, n))
  BY <1>1, <1>2, FS_Subset
<1> QED
  BY <1>3, FS_CardinalityType DEF Nth

LEMMA NthInRange ==
    ASSUME NEW groups, InOrder(groups), NEW n \in Nat, NEW k \in Said(groups, n)
    PROVE  Nth(groups, k) \in 1..Nth(groups, n)
<1>1. k \in 1..Len(groups) /\ k <= n /\ Len(groups) \in Nat /\ k \in Readable(groups)
  BY DEF Said, UpTo, Readable, InOrder
<1>2. \A m \in Readable(groups) : m \in Nat
  BY DEF Readable, InOrder
<1>3. k \in Said(groups, k) /\ Said(groups, k) \in SUBSET Said(groups, n)
  <2>1. k \in Nat /\ k <= k /\ \A m \in Nat : m <= k => m <= n
    BY <1>1
  <2> QED
    BY <1>1, <1>2, <2>1 DEF Said, UpTo
<1>4. /\ IsFiniteSet(Said(groups, n)) /\ Nth(groups, n) \in Nat
      /\ IsFiniteSet(Said(groups, k)) /\ Nth(groups, k) \in Nat
  BY SaidFinite
<1>5. Nth(groups, k) <= Nth(groups, n)
  BY <1>3, <1>4, FS_Subset DEF Nth
<1>6. Nth(groups, k) # 0
  BY <1>3, <1>4, FS_EmptySet DEF Nth
<1> QED
  BY <1>4, <1>5, <1>6

LEMMA NotSaid ==
    ASSUME NEW groups, InOrder(groups), NEW n \in Nat \ {0}, n \notin Readable(groups)
    PROVE  Said(groups, n) = Said(groups, n - 1)
<1>1. \A m \in Readable(groups) : m \in Nat
  BY DEF Readable, InOrder
<1>2. \A m \in Nat : m # n => (m <= n <=> m <= n - 1)
  OBVIOUS
<1> QED
  BY <1>1, <1>2 DEF Said, UpTo

LEMMA SaidOneMore ==
    ASSUME NEW groups, InOrder(groups), NEW n \in Nat \ {0}, n \in Readable(groups)
    PROVE  /\ Said(groups, n) = Said(groups, n - 1) \cup {n}
           /\ Nth(groups, n) = Nth(groups, n - 1) + 1
<1>1. \A m \in Readable(groups) : m \in Nat
  BY DEF Readable, InOrder
<1>2. \A m \in Nat : m <= n <=> (m = n \/ m <= n - 1)
  OBVIOUS
<1>3. Said(groups, n) = Said(groups, n - 1) \cup {n}
  BY <1>1, <1>2 DEF Said, UpTo
<1>4. n \notin Said(groups, n - 1)
  BY DEF Said, UpTo
<1>5. IsFiniteSet(Said(groups, n - 1))
  BY SaidFinite
<1> QED
  BY <1>3, <1>4, <1>5, FS_AddElement DEF Nth

LEMMA AllSaid ==
    ASSUME NEW groups, InOrder(groups)
    PROVE  Said(groups, Len(groups)) = Readable(groups)
BY DEF Said, UpTo, Readable, InOrder

\* The readable groups are the first of those the file gives; behind another one there
\* is a timing group without a related pin.
LEMMA ReadableFirst ==
    ASSUME NEW groups, InOrder(groups)
    PROVE  /\ Readable(groups) \in SUBSET Given(groups)
           /\ IsFiniteSet(Given(groups))
           /\ \A k \in Readable(groups) : UpTo(Given(groups), k) = Said(groups, k)
           /\ \A k \in Given(groups) \ Readable(groups) :
                 /\ Readable(groups) \in SUBSET (UpTo(Given(groups), k) \ {k})
                 /\ \E m \in Timings(groups) : m < k /\ groups[m].related = NoRelated
<1>1. DOMAIN groups = 1..Len(groups) /\ Len(groups) \in Nat
  BY DEF InOrder
<1>2. Readable(groups) \in SUBSET Given(groups)
  <2> SUFFICES ASSUME NEW k \in Readable(groups) PROVE k \in Given(groups)
    OBVIOUS
  <2>1. k \in 1..k
    BY <1>1 DEF Readable
  <2> QED
    BY <2>1 DEF Readable, Given, Timings
<1>3. IsFiniteSet(Given(groups))
  <2>1. IsFiniteSet(1..Len(groups))
    BY <1>1, FS_Interval
  <2>2. Given(groups) \in SUBSET (1..Len(groups))
    BY <1>1 DEF Given, Timings
  <2> QED
    BY <2>1, <2>2, FS_Subset
<1>4. ASSUME NEW k \in Readable(groups), NEW m \in Given(groups), m <= k
      PROVE  m \in Readable(groups)
  <2>1. k \in 1..Len(groups) /\ m \in 1..Len(groups)
    BY <1>1 DEF Readable, Given, Timings
  <2>2. 1..m \in SUBSET (1..k)
    BY <1>1, <1>4, <2>1
  <2> QED
    BY <1>1, <2>1, <2>2 DEF Readable, Given, Timings
<1>5. \A k \in Readable(groups) : UpTo(Given(groups), k) = Said(groups, k)
  BY <1>2, <1>4 DEF UpTo, Said
<1>6. ASSUME NEW k \in Given(groups), k \notin Readable(groups)
      PROVE  /\ Readable(groups) \in SUBSET (UpTo(Given(groups), k) \ {k})
             /\ \E m \in Timings(groups) : m < k /\ groups[m].related = NoRelated
  <2>1. k \in DOMAIN groups /\ groups[k].kind = "timing" /\ groups[k].related # NoRelated
    BY DEF Given, Timings
  <2>2. PICK m \in 1..k : groups[m].kind = "timing" /\ groups[m].related = NoRelated
    BY <1>6, <2>1 DEF Readable
  <2>3. m \in DOMAIN groups /\ m < k
    BY <1>1, <2>1, <2>2
  <2>4. ASSUME NEW i \in Readable(groups) PROVE i <= k /\ i # k
    <3>1. i \in 1..Len(groups) /\ ~(m \in 1..i)
      BY <1>1, <2>2 DEF Readable
    <3> QED
      BY <1>1, <2>1, <2>3, <3>1
  <2> QED
    BY <1>2, <2>2, <2>3, <2>4 DEF UpTo, Timings
<1> QED
  BY <1>2, <1>3, <1>5, <1>6

-----------------------------------------------------------------------------
(* The arcs of a pin.                                                      *)

IsSeq(s) == \E S : s \in Seq(S)

LEMMA SeqOrder == ASSUME NEW s, IsSeq(s) PROVE Len(s) \in Nat /\ DOMAIN s = 1..Len(s)
BY LenProperties DEF IsSeq

LEMMA Appended ==
    ASSUME NEW s, IsSeq(s), NEW e
    PROVE  /\ IsSeq(Append(s, e)) /\ Len(Append(s, e)) = Len(s) + 1
           /\ \A m \in 1..Len(s) : Append(s, e)[m] = s[m]
           /\ Append(s, e)[Len(s) + 1] = e
<1>1. PICK S : s \in Seq(S)
  BY DEF IsSeq
<1>2. s \in Seq(S \cup {e})
  BY <1>1, SeqMonotonic
<1>3. e \in S \cup {e}
  OBVIOUS
<1>4. /\ Append(s, e) \in Seq(S \cup {e}) /\ Len(Append(s, e)) = Len(s) + 1
      /\ \A m \in 1..Len(s) : Append(s, e)[m] = s[m]
      /\ Append(s, e)[Len(s) + 1] = e
  BY <1>2, <1>3, AppendProperties
<1> QED
  BY <1>4 DEF IsSeq

With(s, k, e) == [s EXCEPT ![k] = e]

LEMMA Changed ==
    ASSUME NEW s, IsSeq(s), NEW k \in 1..Len(s), NEW e
    PROVE  /\ IsSeq(With(s, k, e)) /\ Len(With(s, k, e)) = Len(s)
           /\ \A m \in 1..Len(s) : With(s, k, e)[m] = IF m = k THEN e ELSE s[m]
<1>1. PICK S : s \in Seq(S)
  BY DEF IsSeq
<1>2. s \in Seq(S \cup {e})
  BY <1>1, SeqMonotonic
<1>3. e \in S \cup {e}
  OBVIOUS
<1>4. /\ [s EXCEPT ![k] = e] \in Seq(S \cup {e}) /\ Len([s EXCEPT ![k] = e]) = Len(s)
      /\ \A m \in 1..Len(s) : [s EXCEPT ![k] = e][m] = IF m = k THEN e ELSE s[m]
  BY <1>2, <1>3, ExceptSeq
<1> QED
  BY <1>4 DEF IsSeq, With

\* A list that is changed element by element keeps its length.
LEMMA MappedLength ==
    ASSUME NEW s, IsSeq(s), NEW t, DOMAIN t = DOMAIN s, t = [m \in DOMAIN t |-> t[m]]
    PROVE  Len(t) = Len(s)
<1>1. Len(s) \in Nat /\ DOMAIN t = 1..Len(s)
  BY SeqOrder
<1> DEFINE S == {t[m] : m \in 1..Len(s)}
<1>2. t \in [1..Len(s) -> S]
  BY <1>1
<1>3. t \in Seq(S)
  BY <1>1, <1>2, SeqDef
<1>4. Len(t) \in Nat /\ DOMAIN t = 1..Len(t)
  BY <1>3, LenProperties
<1> QED
  BY <1>1, <1>4

Arc(pin, vectors) == [related_pin |-> pin, tables |-> vectors, reference_times |-> vectors]

\* The arcs of the first n groups.
ArcsTo(pin_arcs, groups, n) ==
    /\ IsSeq(pin_arcs) /\ Len(pin_arcs) = Nth(groups, n)
    /\ \A k \in Said(groups, n) :
          pin_arcs[Nth(groups, k)] = Arc(groups[k].related, Len(groups[k].groups))

\* The arcs before the n-th group, and that of the n-th with its first vectors.
ArcBegun(pin_arcs, groups, n, vectors) ==
    /\ IsSeq(pin_arcs) /\ Len(pin_arcs) = Nth(groups, n - 1) + 1
    /\ \A k \in Said(groups, n - 1) :
          pin_arcs[Nth(groups, k)] = Arc(groups[k].related, Len(groups[k].groups))
    /\ pin_arcs[Nth(groups, n - 1) + 1] = Arc(groups[n].related, vectors)

LEMMA NoArcs == ASSUME NEW groups, InOrder(groups) PROVE ArcsTo(<<>>, groups, 0)
<1>1. Said(groups, 0) = {}
  BY DEF Said, UpTo, Readable, InOrder
<1>2. Nth(groups, 0) = 0
  BY <1>1, FS_EmptySet DEF Nth
<1>3. <<>> \in Seq({}) /\ Len(<<>>) = 0
  BY EmptySeq
<1> QED
  BY <1>1, <1>2, <1>3 DEF ArcsTo, IsSeq

LEMMA ArcBegins ==
    ASSUME NEW groups, InOrder(groups), NEW n \in Nat \ {0}, NEW pin_arcs,
           ArcsTo(pin_arcs, groups, n - 1)
    PROVE  ArcBegun(Append(pin_arcs, AddPin(groups[n].related)), groups, n, 0)
<1>1. AddPin(groups[n].related) = Arc(groups[n].related, 0)
  BY DEF AddPin, Arc
<1>2. /\ IsSeq(pin_arcs) /\ Len(pin_arcs) = Nth(groups, n - 1)
      /\ \A k \in Said(groups, n - 1) :
            pin_arcs[Nth(groups, k)] = Arc(groups[k].related, Len(groups[k].groups))
  BY DEF ArcsTo
<1>3. \A k \in Said(groups, n - 1) : Nth(groups, k) \in 1..Len(pin_arcs)
  BY <1>2, NthInRange
<1> QED
  BY <1>1, <1>2, <1>3, Appended DEF ArcBegun

LEMMA ArcGrows ==
    ASSUME NEW groups, InOrder(groups), NEW n \in Nat \ {0}, NEW pin_arcs, NEW w \in Nat,
           ArcBegun(pin_arcs, groups, n, w)
    PROVE  ArcBegun([pin_arcs EXCEPT ![Len(pin_arcs)] = AddVector(@, 1)], groups, n, w + 1)
<1> DEFINE last == Len(pin_arcs)
           next == [pin_arcs EXCEPT ![last] = AddVector(@, 1)]
<1>1. /\ IsSeq(pin_arcs) /\ last = Nth(groups, n - 1) + 1
      /\ \A k \in Said(groups, n - 1) :
            pin_arcs[Nth(groups, k)] = Arc(groups[k].related, Len(groups[k].groups))
      /\ pin_arcs[last] = Arc(groups[n].related, w)
  BY DEF ArcBegun
<1>2. Nth(groups, n - 1) \in Nat /\ last \in 1..Len(pin_arcs)
  BY <1>1, SaidFinite
<1>3. next = [pin_arcs EXCEPT ![last] = Arc(groups[n].related, w + 1)]
  <2>1. AddVector(pin_arcs[last], 1) = Arc(groups[n].related, w + 1)
    BY <1>1 DEF AddVector, Arc
  <2> QED
    BY <2>1
<1>4. \A k \in Said(groups, n - 1) : Nth(groups, k) \in 1..Nth(groups, n - 1)
  BY NthInRange
<1>5. \A k \in Said(groups, n - 1) : Nth(groups, k) \in 1..Len(pin_arcs) /\ Nth(groups, k) # last
  BY <1>1, <1>2, <1>4
<1>6. /\ IsSeq(next) /\ Len(next) = Len(pin_arcs)
      /\ \A m \in 1..Len(pin_arcs) :
            next[m] = IF m = last THEN Arc(groups[n].related, w + 1) ELSE pin_arcs[m]
  <2>1. next = With(pin_arcs, last, Arc(groups[n].related, w + 1))
    BY <1>3 DEF With
  <2> HIDE DEF next, last
  <2> QED
    BY <1>1, <1>2, <2>1, Changed
<1> HIDE DEF next
<1>7. ArcBegun(next, groups, n, w + 1)
  BY <1>1, <1>2, <1>5, <1>6 DEF ArcBegun
<1> QED
  BY <1>7 DEF next

LEMMA ArcComplete ==
    ASSUME NEW groups, InOrder(groups), NEW n \in Nat \ {0}, n \in Readable(groups), NEW pin_arcs,
           ArcBegun(pin_arcs, groups, n, Len(groups[n].groups))
    PROVE  ArcsTo(pin_arcs, groups, n)
BY SaidOneMore DEF ArcBegun, ArcsTo

LEMMA ArcSkipped ==
    ASSUME NEW groups, InOrder(groups), NEW n \in Nat \ {0}, n \notin Readable(groups),
           NEW pin_arcs, ArcsTo(pin_arcs, groups, n - 1)
    PROVE  ArcsTo(pin_arcs, groups, n)
BY NotSaid DEF ArcsTo, Nth

\* Behind a timing group without a related pin nothing is readable.
LEMMA PinLeft ==
    ASSUME NEW groups, InOrder(groups), NEW n \in DOMAIN groups, groups[n].kind = "timing",
           groups[n].related = NoRelated, NEW pin_arcs, ArcsTo(pin_arcs, groups, n - 1)
    PROVE  ArcsTo(pin_arcs, groups, Len(groups))
<1>1. n \in 1..Len(groups) /\ Len(groups) \in Nat
  BY DEF InOrder
<1>2. \A k \in Readable(groups) : k \in Nat /\ ~(n \in 1..k)
  BY DEF Readable, InOrder
<1>3. \A k \in Readable(groups) : k <= n - 1 /\ k <= Len(groups)
  BY <1>1, <1>2
<1>4. Said(groups, Len(groups)) = Said(groups, n - 1)
  BY <1>3 DEF Said, UpTo
<1> QED
  BY <1>4 DEF ArcsTo, Nth

-----------------------------------------------------------------------------
(* The pins of a cell and the cells of a library.                            *)

\* The pins of the first n groups, before the related pins are looked up.
PinsTo(pins, groups, n) ==
    /\ DOMAIN pins = NamesTo(groups, "pin", n)
    /\ \A x \in DOMAIN pins :
          \E k : /\ IsLast(groups, "pin", x, k, n)
                /\ ArcsTo(pins[x], groups[k].groups, Len(groups[k].groups))

CellIs(pins, groups) ==
    /\ DOMAIN pins = Names(groups, "pin")
    /\ \A y \in DOMAIN pins :
          PinIsFile(pins[y], LastGroup(groups, "pin", y), Names(groups, "pin"))

\* The cells of the first n groups.
CellsTo(cells, groups, n) ==
    /\ DOMAIN cells = NamesTo(groups, "cell", n)
    /\ \A x \in DOMAIN cells :
          \E k : IsLast(groups, "cell", x, k, n) /\ CellIs(cells[x], groups[k].groups)

NoMap == [x \in {} |-> <<>>]

LEMMA NothingRead ==
    ASSUME NEW groups
    PROVE  PinsTo(NoMap, groups, 0) /\ CellsTo(NoMap, groups, 0)
BY DEF PinsTo, CellsTo, NoMap, NamesTo

LEMMA PinSkipped ==
    ASSUME NEW groups, NEW n \in Nat \ {0}, groups[n].kind # "pin", NEW pins,
           PinsTo(pins, groups, n - 1)
    PROVE  PinsTo(pins, groups, n)
BY Skipped DEF PinsTo

LEMMA CellSkipped ==
    ASSUME NEW groups, NEW n \in Nat \ {0}, groups[n].kind # "cell", NEW cells,
           CellsTo(cells, groups, n - 1)
    PROVE  CellsTo(cells, groups, n)
BY Skipped DEF CellsTo

LEMMA PinAdded ==
    ASSUME NEW groups, NEW n \in Nat \ {0}, groups[n].kind = "pin", NEW pins,
           PinsTo(pins, groups, n - 1), NEW pin_arcs,
           ArcsTo(pin_arcs, groups[n].groups, Len(groups[n].groups))
    PROVE  PinsTo(Put(pins, groups[n].name, pin_arcs), groups, n)
<1> DEFINE name == groups[n].name
           next == Put(pins, name, pin_arcs)
<1>0. /\ DOMAIN next = DOMAIN pins \cup {name} /\ next[name] = pin_arcs
      /\ \A x \in DOMAIN pins : x # name => next[x] = pins[x]
  BY DEF Put
<1> HIDE DEF next
<1>1. DOMAIN next = NamesTo(groups, "pin", n)
  <2>1. DOMAIN pins = NamesTo(groups, "pin", n - 1)
    BY DEF PinsTo
  <2>2. NamesTo(groups, "pin", n) = NamesTo(groups, "pin", n - 1) \cup {name}
    BY OneMore
  <2> QED
    BY <1>0, <2>1, <2>2
<1>2. ASSUME NEW x \in DOMAIN next
      PROVE  \E k : /\ IsLast(groups, "pin", x, k, n)
                   /\ ArcsTo(next[x], groups[k].groups, Len(groups[k].groups))
  <2>1. CASE x = groups[n].name
    <3>1. next[x] = pin_arcs
      BY <1>0, <2>1
    <3>2. IsLast(groups, "pin", x, n, n)
      BY <2>1, OneMore
    <3> QED
      BY <3>1, <3>2
  <2>2. CASE x # groups[n].name
    <3>1. x \in DOMAIN pins /\ next[x] = pins[x]
      BY <1>0, <2>2
    <3>2. PICK k : /\ IsLast(groups, "pin", x, k, n - 1)
                   /\ ArcsTo(pins[x], groups[k].groups, Len(groups[k].groups))
      BY <3>1 DEF PinsTo
    <3>3. IsLast(groups, "pin", x, k, n)
      BY <2>2, <3>2, OneMore
    <3> QED
      BY <3>1, <3>2, <3>3
  <2> QED
    BY <2>1, <2>2
<1> QED
  BY <1>1, <1>2 DEF PinsTo, next

LEMMA CellAdded ==
    ASSUME NEW groups, NEW n \in Nat \ {0}, groups[n].kind = "cell", NEW cells,
           CellsTo(cells, groups, n - 1), NEW pins, CellIs(pins, groups[n].groups)
    PROVE  CellsTo(Put(cells, groups[n].name, pins), groups, n)
<1> DEFINE name == groups[n].name
           next == Put(cells, name, pins)
<1>0. /\ DOMAIN next = DOMAIN cells \cup {name} /\ next[name] = pins
      /\ \A x \in DOMAIN cells : x # name => next[x] = cells[x]
  BY DEF Put
<1> HIDE DEF next
<1>1. DOMAIN next = NamesTo(groups, "cell", n)
  <2>1. DOMAIN cells = NamesTo(groups, "cell", n - 1)
    BY DEF CellsTo
  <2>2. NamesTo(groups, "cell", n) = NamesTo(groups, "cell", n - 1) \cup {name}
    BY OneMore
  <2> QED
    BY <1>0, <2>1, <2>2
<1>2. ASSUME NEW x \in DOMAIN next
      PROVE  \E k : IsLast(groups, "cell", x, k, n) /\ CellIs(next[x], groups[k].groups)
  <2>1. CASE x = groups[n].name
    <3>1. next[x] = pins
      BY <1>0, <2>1
    <3>2. IsLast(groups, "cell", x, n, n)
      BY <2>1, OneMore
    <3> QED
      BY <3>1, <3>2
  <2>2. CASE x # groups[n].name
    <3>1. x \in DOMAIN cells /\ next[x] = cells[x]
      BY <1>0, <2>2
    <3>2. PICK k : IsLast(groups, "cell", x, k, n - 1) /\ CellIs(cells[x], groups[k].groups)
      BY <3>1 DEF CellsTo
    <3>3. IsLast(groups, "cell", x, k, n)
      BY <2>2, <3>2, OneMore
    <3> QED
      BY <3>1, <3>2, <3>3
  <2> QED
    BY <2>1, <2>2
<1> QED
  BY <1>1, <1>2 DEF CellsTo, next

\* fixup_pins_in_arcs looks at every arc of the cell when all its pins are there.
LEMMA FixedUp ==
    ASSUME NEW groups, InOrder(groups), NEW pins, PinsTo(pins, groups, Len(groups)),
           \A k \in DOMAIN groups : groups[k].kind = "pin" => InOrder(groups[k].groups)
    PROVE  CellIs(FixupArcs(pins), groups)
<1> DEFINE fixed == FixupArcs(pins)
           names == Names(groups, "pin")
<1>1. DOMAIN pins = names /\ DOMAIN fixed = names
  BY AllNames DEF PinsTo, FixupArcs
<1>2. ASSUME NEW y \in DOMAIN fixed
      PROVE  PinIsFile(fixed[y], LastGroup(groups, "pin", y), names)
  <2>1. PICK k : /\ IsLast(groups, "pin", y, k, Len(groups))
                 /\ ArcsTo(pins[y], groups[k].groups, Len(groups[k].groups))
    BY <1>1 DEF PinsTo
  <2> DEFINE group == groups[k]
             said  == Readable(group.groups)
             now   == fixed[y]
  <2>2. LastGroup(groups, "pin", y) = group
    BY <2>1, TheLast
  <2>3. InOrder(group.groups)
    BY <2>1 DEF IsLast, InOrder
  <2>4. /\ IsSeq(pins[y]) /\ Len(pins[y]) = Nth(group.groups, Len(group.groups))
        /\ \A m \in Said(group.groups, Len(group.groups)) :
              pins[y][Nth(group.groups, m)]
                = Arc(group.groups[m].related, Len(group.groups[m].groups))
    BY <2>1 DEF ArcsTo
  <2>5. now = [m \in DOMAIN pins[y] |->
                 UpdateRelatedPin(pins[y][m], Related(pins, pins[y][m].related_pin))]
    BY <1>1 DEF FixupArcs
  <2>6. Len(now) = Len(pins[y]) /\ DOMAIN pins[y] = 1..Len(pins[y])
    BY <2>4, <2>5, MappedLength, SeqOrder
  <2>7. Len(now) = Cardinality(said) /\ Len(now) \in Nat
    BY <2>3, <2>4, <2>6, AllSaid, SaidFinite DEF Nth
  <2>8. ASSUME NEW m \in said
        PROVE  now[Nth(group.groups, m)] =
                 [related_pin |-> IF group.groups[m].related \in names
                                  THEN group.groups[m].related ELSE Garbage,
                  tables |-> Len(group.groups[m].groups),
                  reference_times |-> Len(group.groups[m].groups)]
    <3> DEFINE i == Nth(group.groups, m)
    <3>2. m \in Said(group.groups, Len(group.groups)) /\ Len(group.groups) \in Nat
      BY <2>3, AllSaid DEF InOrder
    <3>3. i \in DOMAIN pins[y]
      BY <2>3, <2>4, <2>6, <3>2, NthInRange
    <3>4. pins[y][i] = Arc(group.groups[m].related, Len(group.groups[m].groups))
      BY <2>4, <3>2
    <3>5. now[i] = UpdateRelatedPin(pins[y][i], Related(pins, pins[y][i].related_pin))
      BY <2>5, <3>3
    <3> HIDE DEF i, now, said
    <3> QED
      BY <1>1, <3>4, <3>5 DEF UpdateRelatedPin, Arc, Related, i
  <2> DEFINE given == Given(group.groups)
  <2>10. /\ said \in SUBSET given /\ IsFiniteSet(given)
         /\ \A m \in said : UpTo(given, m) = Said(group.groups, m)
         /\ \A m \in given \ said :
               /\ said \in SUBSET (UpTo(given, m) \ {m})
               /\ \E x \in Timings(group.groups) :
                     x < m /\ group.groups[x].related = NoRelated
    BY <2>3, ReadableFirst
  <2>11. Len(now) <= Cardinality(given)
    BY <2>7, <2>10, FS_Subset
  <2>12. ASSUME NEW m \in said
         PROVE  LET n == Cardinality(UpTo(given, m)) IN
                /\ n <= Len(now)
                /\ now[n].tables = Len(group.groups[m].groups)
                /\ now[n].reference_times = Len(group.groups[m].groups)
                /\ group.groups[m].related \in names
                      => now[n].related_pin = group.groups[m].related
    <3>1. Cardinality(UpTo(given, m)) = Nth(group.groups, m)
      BY <2>10 DEF Nth
    <3>2. m \in Said(group.groups, Len(group.groups)) /\ Len(group.groups) \in Nat
      BY <2>3, AllSaid DEF InOrder
    <3>3. Nth(group.groups, m) \in 1..Nth(group.groups, Len(group.groups))
      BY <2>3, <3>2, NthInRange
    <3>4. Nth(group.groups, m) <= Len(now)
      BY <2>4, <2>6, <2>7, <3>3
    <3>5. now[Nth(group.groups, m)] =
                 [related_pin |-> IF group.groups[m].related \in names
                                  THEN group.groups[m].related ELSE Garbage,
                  tables |-> Len(group.groups[m].groups),
                  reference_times |-> Len(group.groups[m].groups)]
      BY <2>8
    <3> HIDE DEF now, said, given, names, group
    <3> QED
      BY <3>1, <3>4, <3>5
  <2>13. ASSUME NEW m \in given, m \notin said
         PROVE  /\ ~(Cardinality(UpTo(given, m)) <= Len(now))
                /\ \E x \in Timings(group.groups) :
                      x < m /\ group.groups[x].related = NoRelated
    <3>1. said \in SUBSET (UpTo(given, m) \ {m}) /\ UpTo(given, m) \in SUBSET given
      BY <2>10, <2>13 DEF UpTo
    <3>2. m \in UpTo(given, m)
      <4>1. m \in Nat
        BY <2>3 DEF Given, Timings, InOrder
      <4> QED
        BY <4>1 DEF UpTo
    <3>3. IsFiniteSet(UpTo(given, m)) /\ IsFiniteSet(said)
      BY <2>10, <3>1, FS_Subset
    <3>4. said \cup {m} \in SUBSET UpTo(given, m) /\ m \notin said
      BY <3>1, <3>2
    <3>5. Cardinality(said \cup {m}) = Cardinality(said) + 1
      BY <3>3, <3>4, FS_AddElement
    <3>6. Cardinality(said \cup {m}) <= Cardinality(UpTo(given, m))
      BY <3>3, <3>4, FS_Subset
    <3>7. Cardinality(UpTo(given, m)) \in Nat
      BY <3>3, FS_CardinalityType
    <3>8. \E x \in Timings(group.groups) : x < m /\ group.groups[x].related = NoRelated
      BY <2>10, <2>13
    <3>9. Len(now) = Cardinality(said) /\ Len(now) \in Nat
      BY <2>7
    <3> HIDE DEF said, given, now, group
    <3>10. ~(Cardinality(UpTo(given, m)) <= Len(now))
      BY <3>5, <3>6, <3>7, <3>9
    <3> QED
      BY <3>8, <3>10
  <2> HIDE DEF now
  <2>9. PinIsFile(now, group, names)
    BY <2>11, <2>12, <2>13 DEF PinIsFile
  <2> QED
    BY <2>2, <2>9 DEF now
<1> HIDE DEF fixed
<1> QED
  BY <1>1, <1>2 DEF CellIs, fixed

-----------------------------------------------------------------------------
(* What has been read when each loop looks at its next group.                *)

Iterators ==
    /\ file \in Files
    /\ l \in Nat \ {0} /\ c \in Nat \ {0} /\ p \in Nat \ {0}
    /\ a \in Nat \ {0} /\ v \in Nat \ {0}
    /\ pc \in {"parse", "check", "library", "cell", "pin", "arc", "vector",
               "returned", "aborted"}

LibraryRead(i) == CellsTo(cell_lib, libraries[i].groups, Len(libraries[i].groups))

AtLibrary ==
    pc = "library" => l <= Len(libraries) + 1 /\ (l > 1 => LibraryRead(l - 1))
AtCell ==
    /\ pc \in {"cell", "pin", "arc", "vector"} =>
          l \in DOMAIN libraries /\ CellsTo(cell_lib, cell_groups, c - 1)
    /\ pc = "cell" => c <= Len(cell_groups) + 1
AtPin ==
    /\ pc \in {"pin", "arc", "vector"} =>
          /\ c \in DOMAIN cell_groups /\ cell_groups[c].kind = "cell"
          /\ PinsTo(cell, pin_groups, p - 1)
    /\ pc = "pin" => p <= Len(pin_groups) + 1
AtArc ==
    /\ pc \in {"arc", "vector"} => p \in DOMAIN pin_groups /\ pin_groups[p].kind = "pin"
    /\ pc = "arc" =>
          /\ a <= Len(arc_groups) + 1
          /\ a > Len(arc_groups) \/
                \A m \in 1..(a - 1) :
                    arc_groups[m].kind = "timing" => arc_groups[m].related # NoRelated
          /\ ArcsTo(arcs, arc_groups, a - 1)
AtVector ==
    pc = "vector" =>
        /\ a \in Readable(arc_groups) /\ v <= Len(vector_group) + 1
        /\ ArcBegun(arcs, arc_groups, a, v - 1)
AtReturn ==
    pc = "returned" /\ retval = 0 /\ Len(libraries) > 0 => LibraryRead(Len(libraries))

ReadInv == Iterators /\ AtLibrary /\ AtCell /\ AtPin /\ AtArc /\ AtVector /\ AtReturn

LEMMA LibrariesOrder ==
    ASSUME file \in Files
    PROVE  /\ Len(libraries) \in Nat /\ DOMAIN libraries = 1..Len(libraries)
           /\ \A i \in DOMAIN libraries : InOrder(libraries[i].groups)
BY FilesAssumption DEF libraries, InOrder

LEMMA PinsOrder ==
    ASSUME file \in Files, l \in DOMAIN libraries,
           NEW i \in DOMAIN cell_groups, cell_groups[i].kind = "cell"
    PROVE  /\ InOrder(cell_groups[i].groups)
           /\ \A k \in DOMAIN cell_groups[i].groups :
                 cell_groups[i].groups[k].kind = "pin" => InOrder(cell_groups[i].groups[k].groups)
BY FilesAssumption DEF libraries, cell_groups

LEMMA VectorsOrder ==
    ASSUME file \in Files, l \in DOMAIN libraries,
           c \in DOMAIN cell_groups, cell_groups[c].kind = "cell",
           p \in DOMAIN pin_groups, pin_groups[p].kind = "pin",
           NEW m \in DOMAIN arc_groups, arc_groups[m].kind = "timing"
    PROVE  InOrder(arc_groups[m].groups)
BY FilesAssumption DEF libraries, cell_groups, pin_groups, arc_groups

LEMMA ReadInit == Init => ReadInv
BY DEF Init, ReadInv, Iterators, AtLibrary, AtCell, AtPin, AtArc, AtVector, AtReturn

LEMMA ReadParse == ReadInv /\ Parse => ReadInv'
<1> SUFFICES ASSUME ReadInv, Parse PROVE ReadInv'
  OBVIOUS
<1>1. file.status \in {"cannot_open", "syntax_error", "read"}
  BY FilesAssumption DEF ReadInv, Iterators
<1> DEFINE status == file.status
<1>2. /\ CASE status = "cannot_open" -> pc' = "returned" /\ retval' = 301
           [] status = "syntax_error" -> pc' = "returned" /\ retval' = 401
           [] status = "read" -> pc' = "check" /\ UNCHANGED retval
      /\ UNCHANGED <<file, l, c, p, a, v>>
  BY DEF Parse, Return
<1>3. (pc' = "returned" /\ retval' # 0) \/ pc' = "check"
  <2> HIDE DEF status
  <2>1. CASE status = "cannot_open"
    BY <1>2, <2>1
  <2>2. CASE status = "syntax_error"
    BY <1>2, <2>2
  <2>3. CASE status = "read"
    BY <1>2, <2>3
  <2> QED
    BY <1>1, <2>1, <2>2, <2>3 DEF status
<1> HIDE DEF status
<1> QED
  BY <1>2, <1>3 DEF ReadInv, Iterators, AtLibrary, AtCell, AtPin, AtArc, AtVector, AtReturn

LEMMA ReadCheck == ReadInv /\ CheckLibrary => ReadInv'
<1> SUFFICES ASSUME ReadInv, CheckLibrary PROVE ReadInv'
  OBVIOUS
<1>1. file \in Files /\ l \in Nat \ {0}
  BY DEF ReadInv, Iterators
<1>2. Len(libraries) \in Nat
  BY <1>1, LibrariesOrder
<1>3. /\ UNCHANGED <<file, c, p, a, v>> /\ l' \in Nat \ {0}
      /\ \/ pc' = "returned" /\ retval' # 0
         \/ pc' = "check"
         \/ pc' = "library" /\ l' = 1
  BY <1>1 DEF CheckLibrary, CheckNext, Return
<1>4. libraries' = libraries
  BY <1>3 DEF libraries
<1> QED
  BY <1>2, <1>3, <1>4
     DEF ReadInv, Iterators, AtLibrary, AtCell, AtPin, AtArc, AtVector, AtReturn

LEMMA ReadLibrary == ReadInv /\ NextLibrary => ReadInv'
<1> SUFFICES ASSUME ReadInv, NextLibrary PROVE ReadInv'
  OBVIOUS
<1>1. file \in Files /\ l \in Nat \ {0} /\ UNCHANGED <<file, l, p, a, v, cell, arcs>>
      /\ libraries' = libraries
  BY DEF ReadInv, Iterators, NextLibrary, libraries
<1>2. /\ Len(libraries) \in Nat /\ DOMAIN libraries = 1..Len(libraries)
      /\ l <= Len(libraries) + 1 /\ (l > 1 => LibraryRead(l - 1))
  BY <1>1, LibrariesOrder DEF ReadInv, AtLibrary, NextLibrary
<1>3. CASE l > Len(libraries)
  <2>1. pc' = "returned" /\ UNCHANGED <<c, cell_lib>>
    BY <1>3 DEF NextLibrary, Return
  <2>2. Len(libraries) > 0 => LibraryRead(Len(libraries))
    <3>1. Len(libraries) = l - 1
      BY <1>1, <1>2, <1>3
    <3> QED
      BY <1>1, <1>2, <3>1
  <2>3. AtReturn'
    BY <1>1, <2>1, <2>2 DEF AtReturn, LibraryRead
  <2> QED
    BY <1>1, <2>1, <2>3
       DEF ReadInv, Iterators, AtLibrary, AtCell, AtPin, AtArc, AtVector
<1>4. CASE ~(l > Len(libraries))
  <2>1. pc' = "cell" /\ c' = 1 /\ cell_lib' = NoMap
    BY <1>4 DEF NextLibrary, NoMap
  <2>2. l \in DOMAIN libraries /\ Len(cell_groups) \in Nat /\ cell_groups' = cell_groups
    BY <1>1, <1>2, <1>4, LibrariesOrder DEF cell_groups, InOrder
  <2>3. CellsTo(cell_lib', cell_groups, c' - 1)
    BY <2>1, NothingRead
  <2>4. AtCell'
    BY <1>1, <2>1, <2>2, <2>3 DEF AtCell
  <2> QED
    BY <1>1, <2>1, <2>4
       DEF ReadInv, Iterators, AtLibrary, AtPin, AtArc, AtVector, AtReturn
<1> QED
  BY <1>3, <1>4

LEMMA ReadCell == ReadInv /\ NextCell => ReadInv'
<1> SUFFICES ASSUME ReadInv, NextCell PROVE ReadInv'
  OBVIOUS
<1>1. /\ file \in Files /\ l \in Nat \ {0} /\ c \in Nat \ {0} /\ p \in Nat \ {0}
      /\ a \in Nat \ {0} /\ v \in Nat \ {0} /\ pc = "cell"
      /\ UNCHANGED <<file, a, v, cell_lib, arcs>> /\ libraries' = libraries
  BY DEF ReadInv, Iterators, NextCell, libraries
<1>2. l \in DOMAIN libraries /\ CellsTo(cell_lib, cell_groups, c - 1) /\ c <= Len(cell_groups) + 1
  BY <1>1 DEF ReadInv, AtCell
<1>3. /\ Len(libraries) \in Nat /\ DOMAIN libraries = 1..Len(libraries)
      /\ InOrder(cell_groups) /\ Len(cell_groups) \in Nat
      /\ DOMAIN cell_groups = 1..Len(cell_groups)
  BY <1>1, <1>2, LibrariesOrder DEF cell_groups, InOrder
<1>4. CASE c > Len(cell_groups)
  <2>1. l' = l + 1 /\ pc' = "library" /\ UNCHANGED <<c, p, cell>>
    BY <1>4 DEF NextCell
  <2>2. CellsTo(cell_lib, cell_groups, Len(cell_groups))
    <3>1. c - 1 = Len(cell_groups)
      BY <1>1, <1>2, <1>3, <1>4
    <3> QED
      BY <1>2, <3>1
  <2>3. l' <= Len(libraries) + 1 /\ l' - 1 = l
    BY <1>1, <1>2, <1>3, <2>1
  <2>4. AtLibrary'
    BY <1>1, <2>2, <2>3 DEF AtLibrary, LibraryRead, cell_groups
  <2> QED
    BY <1>1, <2>1, <2>4
       DEF ReadInv, Iterators, AtCell, AtPin, AtArc, AtVector, AtReturn
<1>5. CASE ~(c > Len(cell_groups)) /\ cell_groups[c].kind # "cell"
  <2>1. c' = c + 1 /\ UNCHANGED <<l, p, pc, cell>>
    BY <1>5 DEF NextCell
  <2>2. cell_groups' = cell_groups
    BY <1>1, <2>1 DEF cell_groups
  <2>3. CellsTo(cell_lib, cell_groups, c' - 1)
    <3>1. CellsTo(cell_lib, cell_groups, c)
      BY <1>1, <1>2, <1>5, CellSkipped
    <3>2. c' - 1 = c
      BY <1>1, <2>1
    <3> QED
      BY <3>1, <3>2
  <2>4. AtCell'
    BY <1>1, <1>2, <1>3, <1>5, <2>1, <2>2, <2>3 DEF AtCell
  <2> QED
    BY <1>1, <2>1, <2>4
       DEF ReadInv, Iterators, AtLibrary, AtPin, AtArc, AtVector, AtReturn
<1>6. CASE ~(c > Len(cell_groups)) /\ cell_groups[c].kind = "cell"
  <2>1. cell' = NoMap /\ p' = 1 /\ pc' = "pin" /\ UNCHANGED <<l, c>>
    BY <1>6 DEF NextCell, NoMap
  <2>2. cell_groups' = cell_groups /\ pin_groups' = pin_groups
    BY <1>1, <2>1 DEF cell_groups, pin_groups
  <2>3. AtCell'
    BY <1>1, <1>2, <2>1, <2>2 DEF AtCell
  <2>4. c \in DOMAIN cell_groups
    BY <1>1, <1>3, <1>6
  <2>5. Len(pin_groups) \in Nat
    BY <1>1, <1>2, <1>6, <2>4, PinsOrder DEF pin_groups, InOrder
  <2>6. PinsTo(cell', pin_groups, p' - 1)
    BY <2>1, NothingRead
  <2>7. AtPin'
    BY <1>6, <2>1, <2>2, <2>4, <2>5, <2>6 DEF AtPin
  <2> QED
    BY <1>1, <2>1, <2>3, <2>7
       DEF ReadInv, Iterators, AtLibrary, AtArc, AtVector, AtReturn
<1> QED
  BY <1>4, <1>5, <1>6

LEMMA ReadPin == ReadInv /\ NextPin => ReadInv'
<1> SUFFICES ASSUME ReadInv, NextPin PROVE ReadInv'
  OBVIOUS
<1>1. /\ file \in Files /\ l \in Nat \ {0} /\ c \in Nat \ {0} /\ p \in Nat \ {0}
      /\ a \in Nat \ {0} /\ v \in Nat \ {0} /\ pc = "pin"
      /\ UNCHANGED <<file, retval, l, v, cell>>
      /\ libraries' = libraries /\ cell_groups' = cell_groups
  BY DEF ReadInv, Iterators, NextPin, libraries, cell_groups
<1>2. /\ l \in DOMAIN libraries /\ CellsTo(cell_lib, cell_groups, c - 1)
      /\ c \in DOMAIN cell_groups /\ cell_groups[c].kind = "cell"
      /\ PinsTo(cell, pin_groups, p - 1) /\ p <= Len(pin_groups) + 1
  BY <1>1 DEF ReadInv, AtCell, AtPin
<1>3. /\ Len(cell_groups) \in Nat /\ DOMAIN cell_groups = 1..Len(cell_groups)
      /\ InOrder(pin_groups) /\ Len(pin_groups) \in Nat
      /\ DOMAIN pin_groups = 1..Len(pin_groups)
      /\ \A k \in DOMAIN pin_groups :
            pin_groups[k].kind = "pin" => InOrder(pin_groups[k].groups)
  BY <1>1, <1>2, LibrariesOrder, PinsOrder DEF cell_groups, pin_groups, InOrder
<1>4. CASE p > Len(pin_groups)
  <2>1. /\ cell_lib' = Put(cell_lib, cell_groups[c].name, FixupArcs(cell))
        /\ c' = c + 1 /\ pc' = "cell" /\ UNCHANGED <<p, a, arcs>>
    BY <1>4 DEF NextPin
  <2>2. PinsTo(cell, pin_groups, Len(pin_groups))
    <3>1. p - 1 = Len(pin_groups)
      BY <1>1, <1>2, <1>3, <1>4
    <3> QED
      BY <1>2, <3>1
  <2>3. CellIs(FixupArcs(cell), cell_groups[c].groups)
    BY <1>3, <2>2, FixedUp DEF pin_groups
  <2>4. CellsTo(cell_lib', cell_groups, c)
    BY <1>1, <1>2, <2>1, <2>3, CellAdded
  <2>5. c' - 1 = c /\ c' <= Len(cell_groups) + 1
    BY <1>1, <1>2, <1>3, <2>1
  <2>6. AtCell'
    BY <1>1, <1>2, <2>1, <2>4, <2>5 DEF AtCell
  <2> QED
    BY <1>1, <2>1, <2>6
       DEF ReadInv, Iterators, AtLibrary, AtPin, AtArc, AtVector, AtReturn
<1>5. CASE ~(p > Len(pin_groups)) /\ pin_groups[p].kind # "pin"
  <2>1. p' = p + 1 /\ UNCHANGED <<pc, c, a, cell_lib, arcs>>
    BY <1>5 DEF NextPin
  <2>2. pin_groups' = pin_groups
    BY <1>1, <2>1 DEF pin_groups
  <2>3. PinsTo(cell, pin_groups, p' - 1)
    <3>1. PinsTo(cell, pin_groups, p)
      BY <1>1, <1>2, <1>5, PinSkipped
    <3>2. p' - 1 = p
      BY <1>1, <2>1
    <3> QED
      BY <3>1, <3>2
  <2>4. p' <= Len(pin_groups) + 1
    BY <1>1, <1>3, <1>5, <2>1
  <2>5. AtPin'
    BY <1>1, <1>2, <2>1, <2>2, <2>3, <2>4 DEF AtPin
  <2>6. AtCell'
    BY <1>1, <1>2, <2>1 DEF AtCell
  <2> QED
    BY <1>1, <2>1, <2>5, <2>6
       DEF ReadInv, Iterators, AtLibrary, AtArc, AtVector, AtReturn
<1>6. CASE ~(p > Len(pin_groups)) /\ pin_groups[p].kind = "pin"
  <2>1. arcs' = <<>> /\ a' = 1 /\ pc' = "arc" /\ UNCHANGED <<c, p, cell_lib>>
    BY <1>6 DEF NextPin
  <2>2. pin_groups' = pin_groups /\ arc_groups' = arc_groups
    BY <1>1, <2>1 DEF pin_groups, arc_groups
  <2>3. p \in DOMAIN pin_groups
    BY <1>1, <1>3, <1>6
  <2>4. InOrder(arc_groups) /\ Len(arc_groups) \in Nat
    BY <1>3, <1>6, <2>3 DEF arc_groups, InOrder
  <2>5. ArcsTo(arcs', arc_groups, a' - 1)
    BY <2>1, <2>4, NoArcs
  <2>6. a' <= Len(arc_groups) + 1 /\ ~(\E m \in 1..(a' - 1) : TRUE)
    BY <2>1, <2>4
  <2>7. AtArc'
    BY <1>6, <2>1, <2>2, <2>3, <2>5, <2>6 DEF AtArc
  <2>8. AtCell' /\ AtPin'
    BY <1>1, <1>2, <2>1, <2>2 DEF AtCell, AtPin
  <2> QED
    BY <1>1, <2>1, <2>7, <2>8
       DEF ReadInv, Iterators, AtLibrary, AtVector, AtReturn
<1> QED
  BY <1>4, <1>5, <1>6

LEMMA ReadArc == ReadInv /\ NextArc => ReadInv'
<1> SUFFICES ASSUME ReadInv, NextArc PROVE ReadInv'
  OBVIOUS
<1>1. /\ file \in Files /\ l \in Nat \ {0} /\ c \in Nat \ {0} /\ p \in Nat \ {0}
      /\ a \in Nat \ {0} /\ v \in Nat \ {0} /\ pc = "arc"
      /\ UNCHANGED <<file, retval, l, c, cell_lib>>
      /\ libraries' = libraries /\ cell_groups' = cell_groups /\ pin_groups' = pin_groups
  BY DEF ReadInv, Iterators, NextArc, libraries, cell_groups, pin_groups
<1>2. /\ l \in DOMAIN libraries /\ CellsTo(cell_lib, cell_groups, c - 1)
      /\ c \in DOMAIN cell_groups /\ cell_groups[c].kind = "cell"
      /\ PinsTo(cell, pin_groups, p - 1)
      /\ p \in DOMAIN pin_groups /\ pin_groups[p].kind = "pin"
  BY <1>1 DEF ReadInv, AtCell, AtPin, AtArc
<1>3. /\ a <= Len(arc_groups) + 1
      /\ a > Len(arc_groups) \/
            \A m \in 1..(a - 1) :
                arc_groups[m].kind = "timing" => arc_groups[m].related # NoRelated
      /\ ArcsTo(arcs, arc_groups, a - 1)
  BY <1>1 DEF ReadInv, AtArc
<1>4. /\ Len(pin_groups) \in Nat /\ DOMAIN pin_groups = 1..Len(pin_groups)
      /\ InOrder(arc_groups) /\ Len(arc_groups) \in Nat
      /\ DOMAIN arc_groups = 1..Len(arc_groups)
  BY <1>1, <1>2, PinsOrder DEF pin_groups, arc_groups, InOrder
<1>5. CASE a > Len(arc_groups)
  <2>1. /\ cell' = Put(cell, pin_groups[p].name, arcs)
        /\ p' = p + 1 /\ pc' = "pin" /\ UNCHANGED <<a, v, arcs>>
    BY <1>5 DEF NextArc
  <2>2. ArcsTo(arcs, pin_groups[p].groups, Len(pin_groups[p].groups))
    <3>1. a - 1 = Len(arc_groups)
      BY <1>1, <1>3, <1>4, <1>5
    <3> QED
      BY <1>3, <3>1 DEF arc_groups
  <2>3. PinsTo(cell', pin_groups, p)
    BY <1>1, <1>2, <2>1, <2>2, PinAdded
  <2>4. p' - 1 = p /\ p' <= Len(pin_groups) + 1
    BY <1>1, <1>2, <1>4, <2>1
  <2>5. AtPin'
    BY <1>1, <1>2, <2>1, <2>3, <2>4 DEF AtPin
  <2>6. AtCell'
    BY <1>1, <1>2, <2>1 DEF AtCell
  <2> QED
    BY <1>1, <2>1, <2>5, <2>6
       DEF ReadInv, Iterators, AtLibrary, AtArc, AtVector, AtReturn
<1>6. CASE ~(a > Len(arc_groups))
  <2>1. UNCHANGED <<p, cell>> /\ arc_groups' = arc_groups
    BY <1>1, <1>6 DEF NextArc, LeavePin, arc_groups
  <2>2. AtCell' /\ a \in DOMAIN arc_groups
    BY <1>1, <1>2, <1>4, <1>6, <2>1 DEF AtCell, NextArc
  <2>3. \A m \in 1..(a - 1) :
            arc_groups[m].kind = "timing" => arc_groups[m].related # NoRelated
    BY <1>3, <1>6
  <2>4. \A m \in 1..a : m = a \/ m \in 1..(a - 1)
    BY <1>1
  <2>5. CASE arc_groups[a].kind # "timing"
    <3>1. a' = a + 1 /\ UNCHANGED <<pc, v, arcs>>
      BY <1>6, <2>5 DEF NextArc
    <3>2. ArcsTo(arcs, arc_groups, a)
      BY <1>1, <1>3, <1>4, <2>5, ArcSkipped DEF Readable
    <3>3. a' - 1 = a /\ a' <= Len(arc_groups) + 1
      BY <1>1, <1>4, <1>6, <3>1
    <3>4. \A m \in 1..(a' - 1) :
              arc_groups[m].kind = "timing" => arc_groups[m].related # NoRelated
      BY <2>3, <2>4, <2>5, <3>3
    <3>5. AtArc' /\ AtPin'
      BY <1>1, <1>2, <2>1, <3>1, <3>2, <3>3, <3>4 DEF AtArc, AtPin
    <3> QED
      BY <1>1, <2>1, <2>2, <3>1, <3>5
         DEF ReadInv, Iterators, AtLibrary, AtVector, AtReturn
  <2>6. CASE arc_groups[a].kind = "timing" /\ arc_groups[a].related = NoRelated
    <3>1. a' = Len(arc_groups) + 1 /\ UNCHANGED <<pc, v, arcs>>
      BY <1>6, <2>6 DEF NextArc, LeavePin
    <3>2. ArcsTo(arcs, arc_groups, Len(arc_groups))
      BY <1>1, <1>3, <1>4, <2>2, <2>6, PinLeft
    <3>3. a' \in Nat \ {0} /\ a' - 1 = Len(arc_groups) /\ a' <= Len(arc_groups) + 1
          /\ a' > Len(arc_groups)
      BY <1>4, <3>1
    <3>4. AtArc' /\ AtPin'
      BY <1>1, <1>2, <2>1, <3>1, <3>2, <3>3 DEF AtArc, AtPin
    <3> QED
      BY <1>1, <2>1, <2>2, <3>1, <3>3, <3>4
         DEF ReadInv, Iterators, AtLibrary, AtVector, AtReturn
  <2>7. CASE arc_groups[a].kind = "timing" /\ arc_groups[a].related # NoRelated
    <3>1. /\ arcs' = Append(arcs, AddPin(arc_groups[a].related))
          /\ v' = 1 /\ pc' = "vector" /\ UNCHANGED a
      BY <1>6, <2>7 DEF NextArc
    <3>2. a \in Readable(arc_groups)
      BY <2>2, <2>3, <2>4, <2>7 DEF Readable
    <3>3. Len(arc_groups[a].groups) \in Nat
      BY <1>1, <1>2, <2>2, <2>7, VectorsOrder DEF InOrder
    <3>4. ArcBegun(arcs', arc_groups, a, v' - 1)
      BY <1>1, <1>3, <1>4, <3>1, ArcBegins
    <3>5. vector_group' = arc_groups[a].groups
      BY <2>1, <3>1 DEF vector_group
    <3>6. AtVector'
      BY <2>1, <3>1, <3>2, <3>3, <3>4, <3>5 DEF AtVector
    <3>7. AtArc' /\ AtPin'
      BY <1>1, <1>2, <2>1, <3>1 DEF AtArc, AtPin
    <3> QED
      BY <1>1, <2>1, <2>2, <3>1, <3>6, <3>7
         DEF ReadInv, Iterators, AtLibrary, AtReturn
  <2> QED
    BY <2>5, <2>6, <2>7
<1> QED
  BY <1>5, <1>6

LEMMA ReadVector == ReadInv /\ NextVector => ReadInv'
<1> SUFFICES ASSUME ReadInv, NextVector PROVE ReadInv'
  OBVIOUS
<1>1. /\ file \in Files /\ l \in Nat \ {0} /\ c \in Nat \ {0} /\ p \in Nat \ {0}
      /\ a \in Nat \ {0} /\ v \in Nat \ {0} /\ pc = "vector"
      /\ UNCHANGED <<file, retval, l, c, p, cell_lib, cell>>
      /\ libraries' = libraries /\ cell_groups' = cell_groups /\ pin_groups' = pin_groups
      /\ arc_groups' = arc_groups
  BY DEF ReadInv, Iterators, NextVector, libraries, cell_groups, pin_groups, arc_groups
<1>2. /\ l \in DOMAIN libraries /\ CellsTo(cell_lib, cell_groups, c - 1)
      /\ c \in DOMAIN cell_groups /\ cell_groups[c].kind = "cell"
      /\ PinsTo(cell, pin_groups, p - 1)
      /\ p \in DOMAIN pin_groups /\ pin_groups[p].kind = "pin"
  BY <1>1 DEF ReadInv, AtCell, AtPin, AtArc
<1>3. /\ a \in Readable(arc_groups) /\ v <= Len(vector_group) + 1
      /\ ArcBegun(arcs, arc_groups, a, v - 1)
  BY <1>1 DEF ReadInv, AtVector
<1>4. InOrder(arc_groups) /\ Len(arc_groups) \in Nat /\ DOMAIN arc_groups = 1..Len(arc_groups)
  BY <1>1, <1>2, PinsOrder DEF pin_groups, arc_groups, InOrder
<1>5. /\ a \in DOMAIN arc_groups /\ arc_groups[a].kind = "timing"
      /\ \A m \in 1..a : arc_groups[m].kind = "timing" => arc_groups[m].related # NoRelated
  BY <1>3 DEF Readable
<1>6. Len(vector_group) \in Nat
  BY <1>1, <1>2, <1>5, VectorsOrder DEF vector_group, InOrder
<1>7. CASE v > Len(vector_group)
  <2>1. a' = a + 1 /\ pc' = "arc" /\ UNCHANGED <<v, arcs>>
    BY <1>7 DEF NextVector
  <2>2. ArcsTo(arcs, arc_groups, a)
    <3>1. v - 1 = Len(arc_groups[a].groups)
      BY <1>1, <1>3, <1>6, <1>7 DEF vector_group
    <3> QED
      BY <1>1, <1>3, <1>4, <3>1, ArcComplete
  <2>3. a' - 1 = a /\ a' <= Len(arc_groups) + 1
    BY <1>1, <1>4, <1>5, <2>1
  <2>4. AtArc' /\ AtPin' /\ AtCell'
    BY <1>1, <1>2, <1>5, <2>1, <2>2, <2>3 DEF AtArc, AtPin, AtCell
  <2> QED
    BY <1>1, <2>1, <2>4 DEF ReadInv, Iterators, AtLibrary, AtVector, AtReturn
<1>8. CASE ~(v > Len(vector_group)) /\ ~FoundOne(vector_group[v])
  <2>1. pc' = "aborted" /\ UNCHANGED <<v, a, arcs>>
    BY <1>8 DEF NextVector
  <2> QED
    BY <1>1, <2>1
       DEF ReadInv, Iterators, AtLibrary, AtCell, AtPin, AtArc, AtVector, AtReturn
<1>9. CASE ~(v > Len(vector_group)) /\ FoundOne(vector_group[v])
  <2>1. /\ arcs' = [arcs EXCEPT ![Len(arcs)] = AddVector(@, 1)]
        /\ v' = v + 1 /\ UNCHANGED <<pc, a>>
    BY <1>9 DEF NextVector, FoundOne
  <2>2. ArcBegun(arcs', arc_groups, a, v' - 1)
    <3>1. v - 1 \in Nat /\ v' - 1 = (v - 1) + 1
      BY <1>1, <2>1
    <3>2. ArcBegun([arcs EXCEPT ![Len(arcs)] = AddVector(@, 1)], arc_groups, a, (v - 1) + 1)
      BY <1>1, <1>3, <1>4, <3>1, ArcGrows
    <3> QED
      BY <2>1, <3>1, <3>2
  <2>3. v' <= Len(vector_group) + 1 /\ vector_group' = vector_group
    BY <1>1, <1>6, <1>9, <2>1 DEF vector_group
  <2>4. AtVector'
    BY <1>1, <1>3, <2>1, <2>2, <2>3 DEF AtVector
  <2>5. AtArc' /\ AtPin' /\ AtCell'
    BY <1>1, <1>2, <2>1 DEF AtArc, AtPin, AtCell
  <2> QED
    BY <1>1, <2>1, <2>4, <2>5 DEF ReadInv, Iterators, AtLibrary, AtReturn
<1> QED
  BY <1>7, <1>8, <1>9

LEMMA ReadReturned == ReadInv => LibraryIsFile
<1> SUFFICES ASSUME ReadInv, pc = "returned", retval = 0, Len(libraries) > 0
             PROVE  LET groups == libraries[Len(libraries)].groups IN
                    /\ DOMAIN cell_lib = Names(groups, "cell")
                    /\ \A x \in DOMAIN cell_lib :
                        LET pins == LastGroup(groups, "cell", x).groups IN
                        /\ DOMAIN cell_lib[x] = Names(pins, "pin")
                        /\ \A y \in DOMAIN cell_lib[x] :
                              PinIsFile(cell_lib[x][y], LastGroup(pins, "pin", y),
                                        Names(pins, "pin"))
  BY DEF LibraryIsFile
<1> DEFINE groups == libraries[Len(libraries)].groups
<1>1. CellsTo(cell_lib, groups, Len(groups))
  BY DEF ReadInv, AtReturn, LibraryRead
<1>2. InOrder(groups)
  BY LibrariesOrder DEF ReadInv, Iterators
<1> HIDE DEF groups
<1>3. DOMAIN cell_lib = Names(groups, "cell")
  BY <1>1, <1>2, AllNames DEF CellsTo
<1>4. ASSUME NEW x \in DOMAIN cell_lib
      PROVE  CellIs(cell_lib[x], LastGroup(groups, "cell", x).groups)
  <2>1. PICK k : IsLast(groups, "cell", x, k, Len(groups)) /\ CellIs(cell_lib[x], groups[k].groups)
    BY <1>1 DEF CellsTo
  <2>2. LastGroup(groups, "cell", x) = groups[k]
    BY <1>2, <2>1, TheLast
  <2> QED
    BY <2>1, <2>2
<1> QED
  BY <1>3, <1>4 DEF CellIs, groups

\* When read_liberty returns 0, the cell library has exactly the cells of the file's
\* last library, these the pins, and these the arcs the file says, whatever the number
\* of libraries and groups and however names repeat.
THEOREM ReaderLibraryIsFile == Spec => []LibraryIsFile
<1>1. ReadInv /\ [Next]_vars => ReadInv'
  <2> SUFFICES ASSUME ReadInv, [Next]_vars PROVE ReadInv'
    OBVIOUS
  <2>1. CASE Parse
    BY <2>1, ReadParse
  <2>2. CASE CheckLibrary
    BY <2>2, ReadCheck
  <2>3. CASE NextLibrary
    BY <2>3, ReadLibrary
  <2>4. CASE NextCell
    BY <2>4, ReadCell
  <2>5. CASE NextPin
    BY <2>5, ReadPin
  <2>6. CASE NextArc
    BY <2>6, ReadArc
  <2>7. CASE NextVector
    BY <2>7, ReadVector
  <2>8. CASE UNCHANGED vars
    BY <2>8 DEF vars, ReadInv, Iterators, AtLibrary, AtCell, AtPin, AtArc, AtVector, AtReturn,
                LibraryRead, libraries, cell_groups, pin_groups, arc_groups, vector_group
  <2> QED
    BY <2>1, <2>2, <2>3, <2>4, <2>5, <2>6, <2>7, <2>8 DEF Next
<1> QED
  BY ReadInit, ReadReturned, <1>1, PTL DEF Spec

-----------------------------------------------------------------------------
(* The check before the first library is stored.                             *)

Sane(n) == \A k \in 1..n : libraries[k].sane

CheckInv ==
    /\ file \in Files
    /\ pc \in {"parse", "check"} => cell_lib = NoLibrary
    /\ pc = "parse" => l = 1
    /\ pc = "check" =>
          l \in Nat \ {0} /\ Sane(l - 1) /\ (Len(libraries) > 0 => l <= Len(libraries))
    /\ pc \notin {"parse", "check", "returned"} => Sane(Len(libraries))
    /\ pc = "returned" => cell_lib = NoLibrary \/ Sane(Len(libraries))

\* A library that fails the check leaves nothing of the file behind, whichever library
\* it is and however many there are: the cell library is made when all have passed.
THEOREM ReaderCheckedBeforeStored == Spec => []CheckedBeforeStored
<1>1. Init => CheckInv
  BY DEF Init, CheckInv
<1>2. CheckInv /\ [Next]_vars => CheckInv'
  <2> SUFFICES ASSUME CheckInv, [Next]_vars PROVE CheckInv'
    OBVIOUS
  <2>1. Len(libraries) \in Nat
    BY LibrariesOrder DEF CheckInv
  <2>2. CASE Parse
    <3>1. UNCHANGED <<file, l, cell_lib>> /\ libraries' = libraries
      BY <2>2 DEF Parse, libraries
    <3>2. pc = "parse" /\ cell_lib = NoLibrary /\ l = 1
      BY <2>2 DEF Parse, CheckInv
    <3>3. pc' \in {"returned", "check"}
      <4>1. file.status \in {"cannot_open", "syntax_error", "read"}
        BY FilesAssumption DEF CheckInv
      <4> DEFINE status == file.status
      <4>2. /\ CASE status = "cannot_open" -> pc' = "returned" /\ retval' = 301
                 [] status = "syntax_error" -> pc' = "returned" /\ retval' = 401
                 [] status = "read" -> pc' = "check" /\ UNCHANGED retval
        BY <2>2 DEF Parse, Return
      <4> HIDE DEF status
      <4>3. CASE status = "cannot_open"
        BY <4>2, <4>3
      <4>4. CASE status = "syntax_error"
        BY <4>2, <4>4
      <4>5. CASE status = "read"
        BY <4>2, <4>5
      <4> QED
        BY <4>1, <4>3, <4>4, <4>5 DEF status
    <3>4. Sane(l - 1)
      BY <3>2 DEF Sane
    <3> QED
      BY <2>1, <3>1, <3>2, <3>3, <3>4 DEF CheckInv, Sane
  <2>3. CASE CheckLibrary
    <3>1. /\ UNCHANGED <<file, cell_lib>> /\ libraries' = libraries /\ cell_lib = NoLibrary
          /\ pc = "check" /\ l \in Nat \ {0} /\ Sane(l - 1)
          /\ Len(libraries) > 0 => l <= Len(libraries)
      BY <2>3 DEF CheckLibrary, CheckInv, libraries
    <3>2. CASE Len(libraries) > 0 /\ ~libraries[l].sane
      <4>1. pc' = "returned"
        BY <2>3, <3>2 DEF CheckLibrary, Return
      <4> QED
        BY <3>1, <4>1 DEF CheckInv
    <3>3. CASE ~(Len(libraries) > 0 /\ ~libraries[l].sane)
      <4>1. /\ pc' = IF l < Len(libraries) THEN "check" ELSE "library"
            /\ l' = IF pc' = "library" THEN 1 ELSE l + 1
        BY <2>3, <3>3 DEF CheckLibrary, CheckNext
      <4>2. Len(libraries) > 0 => Sane(l)
        <5>1. \A k \in 1..l : k = l \/ k \in 1..(l - 1)
          BY <3>1
        <5> QED
          BY <3>1, <3>3, <5>1 DEF Sane
      <4>3. CASE l < Len(libraries)
        <5>1. pc' = "check" /\ l' = l + 1 /\ l' - 1 = l /\ l' \in Nat \ {0}
              /\ l' <= Len(libraries) /\ Sane(l)
          BY <2>1, <3>1, <4>1, <4>2, <4>3
        <5> QED
          BY <3>1, <5>1 DEF CheckInv, Sane
      <4>4. CASE ~(l < Len(libraries))
        <5>1. pc' = "library"
          BY <4>1, <4>4
        <5>2. Sane(Len(libraries))
          <6>1. CASE Len(libraries) > 0
            <7>1. l = Len(libraries)
              BY <2>1, <3>1, <4>4, <6>1
            <7> QED
              BY <4>2, <6>1, <7>1
          <6>2. CASE ~(Len(libraries) > 0)
            BY <2>1, <6>2 DEF Sane
          <6> QED
            BY <6>1, <6>2
        <5> QED
          BY <3>1, <5>1, <5>2 DEF CheckInv, Sane
      <4> QED
        BY <4>3, <4>4
    <3> QED
      BY <3>2, <3>3
  <2>4. ASSUME NextLibrary \/ NextCell \/ NextPin \/ NextArc \/ NextVector
        PROVE  CheckInv'
    <3>1. /\ pc \notin {"parse", "check", "returned"}
          /\ pc' \notin {"parse", "check"} /\ UNCHANGED file
      BY <2>4 DEF NextLibrary, NextCell, NextPin, NextArc, NextVector, Return
    <3>2. libraries' = libraries /\ Sane(Len(libraries)) /\ file \in Files
      BY <3>1 DEF CheckInv, libraries
    <3> QED
      BY <3>1, <3>2 DEF CheckInv, Sane
  <2>5. CASE UNCHANGED vars
    BY <2>5 DEF vars, CheckInv, Sane, libraries
  <2> QED
    BY <2>2, <2>3, <2>4, <2>5 DEF Next
<1>3. CheckInv => CheckedBeforeStored
  <2> SUFFICES ASSUME CheckInv, cell_lib # NoLibrary
               PROVE  \A k \in DOMAIN libraries : libraries[k].sane
    BY DEF CheckedBeforeStored
  <2>1. Sane(Len(libraries))
    BY DEF CheckInv
  <2>2. DOMAIN libraries = 1..Len(libraries)
    BY LibrariesOrder DEF CheckInv
  <2> QED
    BY <2>1, <2>2 DEF Sane
<1> QED
  BY <1>1, <1>2, <1>3, PTL DEF Spec

=============================================================================
