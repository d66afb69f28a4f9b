------------------------- MODULE LibertyStore_proofs -------------------------
(***************************************************************************)
(* Proofs about the Liberty parser's store, from the links of a bucket up. *)
(*                                                                         *)
(* A chain, and the list of all buckets, are sequences (IsList) that       *)
(* following the links returns (LinkedIs).  LinkChain, LinkAll and their   *)
(* opposites add an element to such a sequence or take one out, and leave  *)
(* the other links alone, so that Chained and Listed are kept              *)
(* independently of each other; a resize builds the chains again from the  *)
(* list of all buckets.  TableInv joins them with one bucket per key       *)
(* (Keyed), and a table is then its Contents, a function from keys to      *)
(* groups: entering gives a key that was free, deleting forgets one.       *)
(*                                                                         *)
(* Of the store, StructureInv says that the lists and the tables of all    *)
(* containers agree with the owners and the names of the groups, and that  *)
(* no group owns itself (Rooted), so that what is deleted with a group     *)
(* takes everything it owns and nothing else.                              *)
(***************************************************************************)
EXTENDS LibertyStore, FiniteSetTheorems, NaturalsInduction, WellFoundedInduction, TLAPS

-----------------------------------------------------------------------------
(* Numbers, recursion and sequences.                                       *)

\* A set of numbers that is not empty has a smallest one.
LEMMA SmallestNumber ==
    ASSUME NEW S, S \subseteq Nat, S # {}
    PROVE  \E x \in S : \A y \in S : x <= y
<1> DEFINE R == {ss \in Nat \X Nat : ss[1] < ss[2]}
<1>1. IsWellFoundedOn(R, Nat)
  BY NatLessThanWellFounded DEF OpToRel
<1>2. \A x, y \in Nat : y < x => <<y, x>> \in R
  OBVIOUS
<1> HIDE DEF R
<1>3. PICK x \in S : \A y \in S : ~(<<y, x>> \in R)
  BY <1>1, WFMin
<1>4. ASSUME NEW y \in S PROVE x <= y
  <2>1. x \in Nat /\ y \in Nat
    OBVIOUS
  <2>2. ~(y < x)
    BY <1>2, <1>3, <2>1
  <2> QED BY <2>1, <2>2
<1> QED BY <1>4

\* Min is that number.
LEMMA MinOf ==
    ASSUME NEW S, S \subseteq Nat, S # {}
    PROVE  Min(S) \in S /\ \A y \in S : Min(S) <= y
BY SmallestNumber DEF Min

\* What holds for 0 and for n + 1 whenever it holds for n, up to m.
LEMMA UpTo ==
    ASSUME NEW m \in Nat, NEW P, 0 \in P, \A x \in 0..(m - 1) : x \in P => x + 1 \in P
    PROVE  \A x \in 0..m : x \in P
<1> SUFFICES ASSUME NEW k \in 0..m, k \notin P PROVE FALSE
  OBVIOUS
<1> DEFINE S == {x \in 0..m : x \notin P}
<1>1. S \subseteq Nat /\ S # {}
  OBVIOUS
<1>2. PICK x \in S : \A y \in S : x <= y
  BY <1>1, SmallestNumber
<1>3. x # 0 /\ x \in 0..m
  BY <1>2
<1>4. x - 1 \in 0..(m - 1) /\ (x - 1) + 1 = x /\ ~(x <= x - 1) /\ x - 1 \in 0..m
  BY <1>3
<1>5. x - 1 \in P
  BY <1>2, <1>4
<1> QED BY <1>2, <1>4, <1>5

\* A recursion whose step is a function has a value for every number.
Steps(m, T) == [(1..m) \X T -> T]
IsRun(f, m, t, step) == f[0] = t /\ \A n \in 1..m : f[n] = step[<<n, f[n - 1]>>]

\* A function may be defined on 0..m by its first value and one step.
LEMMA Recursion ==
    ASSUME NEW m \in Nat, NEW T, NEW t \in T, NEW step \in Steps(m, T)
    PROVE  \E f \in [0..m -> T] : IsRun(f, m, t, step)
<1> USE DEF Steps, IsRun
<1> DEFINE P == {x \in 0..m : \E f \in [0..x -> T] :
                    f[0] = t /\ \A n \in 1..x : f[n] = step[<<n, f[n - 1]>>]}
<1>1. 0 \in P
  <2> DEFINE f == [n \in 0..0 |-> t]
  <2>1. f \in [0..0 -> T] /\ f[0] = t /\ \A n \in 1..0 : f[n] = step[<<n, f[n - 1]>>]
    OBVIOUS
  <2> HIDE DEF f
  <2> QED BY <2>1
<1>2. ASSUME NEW x \in 0..(m - 1), x \in P PROVE x + 1 \in P
  <2>1. PICK f \in [0..x -> T] : f[0] = t /\ \A n \in 1..x : f[n] = step[<<n, f[n - 1]>>]
    BY <1>2
  <2> DEFINE v == step[<<x + 1, f[x]>>]
             g == [n \in 0..(x + 1) |-> IF n = x + 1 THEN v ELSE f[n]]
  <2>2. x + 1 \in 1..m /\ f[x] \in T
    BY <2>1
  <2>3. v \in T
    BY <2>2
  <2>4. g \in [0..(x + 1) -> T]
    BY <2>1, <2>3
  <2>5. g[0] = t
    BY <2>1
  <2>6. ASSUME NEW n \in 1..(x + 1) PROVE g[n] = step[<<n, g[n - 1]>>]
    <3>1. CASE n = x + 1
      <4>1. n \in 0..(x + 1) /\ n - 1 = x /\ x \in 0..(x + 1) /\ x # x + 1
        BY <3>1
      <4> QED BY <3>1, <4>1
    <3>2. CASE n # x + 1
      <4>1. n \in 1..x /\ n \in 0..(x + 1) /\ n - 1 \in 0..(x + 1) /\ n - 1 # x + 1
        BY <3>2
      <4> QED BY <2>1, <3>2, <4>1
    <3> QED BY <3>1, <3>2
  <2> HIDE DEF g
  <2>7. x + 1 \in 0..m
    OBVIOUS
  <2> QED BY <2>4, <2>5, <2>6, <2>7
<1> HIDE DEF P
<1>3. m \in P
  BY <1>1, <1>2, UpTo
<1> QED BY <1>3 DEF P

\* A sequence without repetitions has as many elements as it is long.
Injective(s) == \A j, k \in DOMAIN s : s[j] = s[k] => j = k

LEMMA LengthIsCardinality ==
    ASSUME NEW S, NEW s \in Seq(S), Injective(s)
    PROVE  IsFiniteSet(Range(s)) /\ Cardinality(Range(s)) = Len(s)
<1>1. Len(s) \in Nat /\ DOMAIN s = 1..Len(s) /\ s = [k \in 1..Len(s) |-> s[k]]
  OBVIOUS
<1>2. s \in [1..Len(s) -> Range(s)]
  BY <1>1 DEF Range
<1>3. s \in Bijection(1..Len(s), Range(s))
  BY <1>1, <1>2 DEF Bijection, Injection, Surjection, IsInjective, Injective, Range
<1>4. ExistsBijection(1..Len(s), Range(s))
  BY <1>3 DEF ExistsBijection
<1> QED BY <1>1, <1>4, FS_CountingElements, FS_NatBijection
-----------------------------------------------------------------------------
(* Lists.  A sequence s is the list that starts with b when every bucket in *)
(* it links to the next one.                                               *)

BucketOrNull == Bucket \cup {Null}

IsList(link, b, s) ==
    /\ s \in Seq(Bucket) /\ Injective(s)
    /\ b = IF Len(s) = 0 THEN Null ELSE s[1]
    /\ \A k \in 1..Len(s) : link[s[k]] = IF k = Len(s) THEN Null ELSE s[k + 1]

\* Buckets are the addresses 1..MaxBuckets, none of them Null.
LEMMA BucketsAreNumbers ==
    /\ MaxBuckets \in Nat /\ IsFiniteSet(Bucket) /\ Cardinality(Bucket) = MaxBuckets
    /\ Bucket \subseteq Nat /\ Null \notin Bucket
<1>1. MaxBuckets \in Nat
  BY HashAssumption
<1> QED BY <1>1, FS_Interval DEF Bucket, Null

\* No list has more elements than there are buckets.
LEMMA ListIsShort ==
    ASSUME NEW s \in Seq(Bucket), Injective(s)
    PROVE  Len(s) <= MaxBuckets
<1>1. Range(s) \in SUBSET Bucket
  BY DEF Range
<1> QED BY <1>1, LengthIsCardinality, FS_Subset, BucketsAreNumbers

\* Nodes is what its equation says.
LEMMA NodesEquation ==
    ASSUME NEW link, NEW b, NEW s, IsList(link, b, s)
    PROVE  Nodes(link, b) = [n \in 1..MaxBuckets |-> IF n <= Len(s) THEN s[n] ELSE Null]
<1> DEFINE walk(f) == [n \in 1..MaxBuckets |->
                         IF n = 1 THEN b ELSE IF f[n - 1] = Null THEN Null ELSE link[f[n - 1]]]
           g == [n \in 1..MaxBuckets |-> IF n <= Len(s) THEN s[n] ELSE Null]
<1>1. Len(s) \in Nat /\ DOMAIN s = 1..Len(s) /\ \A k \in 1..Len(s) : s[k] # Null
  BY BucketsAreNumbers DEF IsList
<1>2. ASSUME NEW n \in 1..MaxBuckets
      PROVE  g[n] = IF n = 1 THEN b ELSE IF g[n - 1] = Null THEN Null ELSE link[g[n - 1]]
  <2>1. CASE n = 1
    <3>1. g[n] = IF 1 <= Len(s) THEN s[1] ELSE Null
      BY <2>1
    <3>2. b = IF Len(s) = 0 THEN Null ELSE s[1]
      BY DEF IsList
    <3>3. (Len(s) = 0) = ~(1 <= Len(s))
      BY <1>1
    <3> QED BY <2>1, <3>1, <3>2, <3>3
  <2>2. CASE n # 1
    <3>1. n - 1 \in 1..MaxBuckets /\ (n - 1) + 1 = n
      BY <2>2, BucketsAreNumbers
    <3>2. CASE n - 1 > Len(s)
      <4>1. ~(n - 1 <= Len(s)) /\ ~(n <= Len(s))
        BY <1>1, <3>1, <3>2
      <4> QED BY <2>2, <3>1, <4>1
    <3>3. CASE n - 1 <= Len(s)
      <4>1. n - 1 \in 1..Len(s) /\ g[n - 1] = s[n - 1]
        BY <1>1, <3>1, <3>3
      <4>2. link[s[n - 1]] = IF n - 1 = Len(s) THEN Null ELSE s[n]
        BY <3>1, <4>1 DEF IsList
      <4>3. (n <= Len(s)) = (n - 1 # Len(s))
        BY <1>1, <3>1, <3>3
      <4> QED BY <1>1, <2>2, <4>1, <4>2, <4>3
    <3> QED BY <1>1, <3>1, <3>2, <3>3
  <2> QED BY <2>1, <2>2
<1>3. g = walk(g)
  <2>1. g = [n \in 1..MaxBuckets |-> g[n]]
    OBVIOUS
  <2> HIDE DEF g
  <2> QED BY <1>2, <2>1
<1>4. Nodes(link, b) = walk(Nodes(link, b))
  <2> HIDE DEF g
  <2>1. g = [n \in 1..MaxBuckets |->
               IF n = 1 THEN b ELSE IF g[n - 1] = Null THEN Null ELSE link[g[n - 1]]]
    BY <1>3
  <2> QED BY <2>1, Zenon DEF Nodes
<1> DEFINE node == Nodes(link, b)
           P == {x \in 0..MaxBuckets : \A n \in 1..x : node[n] = g[n]}
<1> HIDE DEF node
<1>5. node = [n \in 1..MaxBuckets |-> node[n]]
      /\ \A n \in 1..MaxBuckets :
            node[n] = IF n = 1 THEN b ELSE IF node[n - 1] = Null THEN Null ELSE link[node[n - 1]]
  <2>1. node = [n \in 1..MaxBuckets |->
               IF n = 1 THEN b ELSE IF node[n - 1] = Null THEN Null ELSE link[node[n - 1]]]
    BY <1>4 DEF node
  <2> QED BY <2>1
<1> HIDE DEF g
<1>6. 0 \in P
  BY BucketsAreNumbers
<1>7. ASSUME NEW x \in 0..(MaxBuckets - 1), x \in P PROVE x + 1 \in P
  <2>1. MaxBuckets \in Nat
    BY BucketsAreNumbers
  <2>2. x + 1 \in 1..MaxBuckets /\ (x # 0 => x \in 1..x /\ x \in 1..MaxBuckets)
    BY <2>1
  <2>3. node[x + 1] = g[x + 1]
    <3>1. CASE x = 0
      BY <1>2, <1>5, <2>2, <3>1
    <3>2. CASE x # 0
      <4>1. node[x] = g[x] /\ (x + 1) - 1 = x /\ x + 1 # 1
        BY <1>7, <2>2, <3>2
      <4>2. node[x + 1] = IF node[x] = Null THEN Null ELSE link[node[x]]
        BY <1>5, <2>2, <4>1
      <4>3. g[x + 1] = IF g[x] = Null THEN Null ELSE link[g[x]]
        BY <1>2, <2>2, <4>1
      <4> QED BY <4>1, <4>2, <4>3
    <3> QED BY <3>1, <3>2
  <2>4. ASSUME NEW n \in 1..(x + 1) PROVE node[n] = g[n]
    <3>1. n = x + 1 \/ n \in 1..x
      OBVIOUS
    <3> QED BY <1>7, <2>3, <3>1
  <2>5. x + 1 \in 0..MaxBuckets
    BY <2>1
  <2> QED BY <2>4, <2>5
<1> HIDE DEF P
<1>8. MaxBuckets \in P
  BY <1>6, <1>7, UpTo, BucketsAreNumbers
<1>9. \A n \in 1..MaxBuckets : node[n] = g[n]
  BY <1>8 DEF P
<1>10. g = [n \in 1..MaxBuckets |-> g[n]]
  BY DEF g
<1>11. node = g
  BY <1>5, <1>9, <1>10
<1> QED BY <1>11 DEF node, g

\* Following the links from b gives the list that starts there.
LEMMA LinkedIs ==
    ASSUME NEW link, NEW b, NEW s, IsList(link, b, s)
    PROVE  Linked(link, b) = s
<1>1. Len(s) \in Nat /\ s \in Seq(Bucket) /\ s = [n \in 1..Len(s) |-> s[n]]
      /\ \A k \in 1..Len(s) : s[k] # Null
  BY BucketsAreNumbers DEF IsList
<1>2. Len(s) <= MaxBuckets /\ MaxBuckets \in Nat
  BY ListIsShort, BucketsAreNumbers DEF IsList
<1> DEFINE node == Nodes(link, b)
<1>3. node = [n \in 1..MaxBuckets |-> IF n <= Len(s) THEN s[n] ELSE Null]
  BY NodesEquation
<1> HIDE DEF node
<1>4. {k \in 1..MaxBuckets : node[k] # Null} = 1..Len(s)
  BY <1>1, <1>2, <1>3
<1>5. Cardinality(1..Len(s)) = Len(s)
  <2>1. Cardinality(1..Len(s)) = IF 1 > Len(s) THEN 0 ELSE Len(s) - 1 + 1
    BY <1>1, FS_Interval
  <2> QED BY <1>1, <2>1
<1>6. Linked(link, b) = [n \in 1..Len(s) |-> node[n]]
  BY <1>4, <1>5 DEF Linked, node
<1>7. \A n \in 1..Len(s) : node[n] = s[n]
  BY <1>1, <1>2, <1>3
<1> QED BY <1>1, <1>6, <1>7
\* An element in front of a sequence, and a sequence without its p-th element.
Pushed(s, b) == [k \in 1..(Len(s) + 1) |-> IF k = 1 THEN b ELSE s[k - 1]]
Cut(s, p) == [k \in 1..(Len(s) - 1) |-> IF k < p THEN s[k] ELSE s[k + 1]]

\* An element more, in front.
LEMMA PushedIs ==
    ASSUME NEW S, NEW s \in Seq(S), NEW b \in S, b \notin Range(s), Injective(s)
    PROVE  /\ Pushed(s, b) \in Seq(S) /\ Len(Pushed(s, b)) = Len(s) + 1
           /\ Range(Pushed(s, b)) = Range(s) \cup {b} /\ Injective(Pushed(s, b))
<1> DEFINE t == Pushed(s, b)
<1>1. Len(s) \in Nat /\ DOMAIN s = 1..Len(s) /\ \A k \in 1..Len(s) : s[k] \in S
  OBVIOUS
<1>2. t = [k \in 1..(Len(s) + 1) |-> t[k]] /\ t[1] = b
      /\ \A k \in 2..(Len(s) + 1) : t[k] = s[k - 1] /\ k - 1 \in 1..Len(s)
  BY <1>1 DEF Pushed
<1> HIDE DEF t
<1>3. \A k \in 1..(Len(s) + 1) : k = 1 \/ k \in 2..(Len(s) + 1)
  BY <1>1
<1>4. t \in Seq(S) /\ Len(t) = Len(s) + 1 /\ DOMAIN t = 1..(Len(s) + 1)
  <2>1. t \in [1..(Len(s) + 1) -> S]
    BY <1>1, <1>2, <1>3
  <2> QED BY <1>1, <2>1
<1>5. Range(t) = Range(s) \cup {b}
  <2>1. ASSUME NEW x \in Range(t) PROVE x \in Range(s) \cup {b}
    <3>1. PICK k \in 1..(Len(s) + 1) : x = t[k]
      BY <1>4 DEF Range
    <3>2. CASE k = 1
      BY <1>2, <3>1, <3>2
    <3>3. CASE k # 1
      <4>1. x = s[k - 1] /\ k - 1 \in DOMAIN s
        BY <1>1, <1>2, <1>3, <3>1, <3>3
      <4> QED BY <4>1 DEF Range
    <3> QED BY <3>2, <3>3
  <2>2. ASSUME NEW j \in 1..Len(s) PROVE s[j] \in Range(t)
    <3>1. j + 1 \in 2..(Len(s) + 1) /\ (j + 1) - 1 = j /\ j + 1 \in DOMAIN t
      BY <1>1, <1>4
    <3>2. t[j + 1] = s[j]
      BY <1>2, <3>1
    <3> QED BY <3>1, <3>2 DEF Range
  <2>3. b \in Range(t)
    BY <1>1, <1>2, <1>4 DEF Range
  <2>4. Range(s) \subseteq Range(t)
    BY <1>1, <2>2 DEF Range
  <2> QED BY <2>1, <2>3, <2>4
<1>6. Injective(t)
  <2> SUFFICES ASSUME NEW j \in DOMAIN t, NEW k \in DOMAIN t, t[j] = t[k] PROVE j = k
    BY DEF Injective
  <2>1. \A i \in 1..Len(s) : s[i] # b
    BY <1>1 DEF Range
  <2>2. CASE j = 1 \/ k = 1
    BY <1>2, <1>3, <1>4, <2>1, <2>2
  <2>3. CASE j # 1 /\ k # 1
    <3>1. j - 1 \in DOMAIN s /\ k - 1 \in DOMAIN s /\ s[j - 1] = s[k - 1]
      BY <1>1, <1>2, <1>3, <1>4, <2>3
    <3>2. j - 1 = k - 1
      BY <3>1 DEF Injective
    <3> QED BY <1>1, <1>4, <3>2
  <2> QED BY <2>2, <2>3
<1> QED BY <1>4, <1>5, <1>6 DEF t

\* An element less, at p.
LEMMA CutIs ==
    ASSUME NEW S, NEW s \in Seq(S), NEW p \in DOMAIN s, Injective(s)
    PROVE  /\ Cut(s, p) \in Seq(S) /\ Len(Cut(s, p)) = Len(s) - 1
           /\ Range(Cut(s, p)) = Range(s) \ {s[p]} /\ Injective(Cut(s, p))
<1> DEFINE t == Cut(s, p)
           at(k) == IF k < p THEN k ELSE k + 1
<1>1. Len(s) \in Nat /\ DOMAIN s = 1..Len(s) /\ (\A k \in 1..Len(s) : s[k] \in S)
      /\ p \in 1..Len(s)
  OBVIOUS
<1>2. t = [k \in 1..(Len(s) - 1) |-> t[k]] /\ \A k \in 1..(Len(s) - 1) : t[k] = s[at(k)]
  BY DEF Cut
<1>3. \A k \in 1..(Len(s) - 1) : at(k) \in 1..Len(s) /\ at(k) # p
  BY <1>1
<1>4. \A j, k \in 1..(Len(s) - 1) : at(j) = at(k) => j = k
  BY <1>1
<1>5. \A i \in 1..Len(s) : i # p => \E k \in 1..(Len(s) - 1) : at(k) = i
  <2> TAKE i \in 1..Len(s)
  <2> HAVE i # p
  <2>1. CASE i < p
    <3>1. i \in 1..(Len(s) - 1) /\ at(i) = i
      BY <1>1, <2>1
    <3> QED BY <3>1
  <2>2. CASE i > p
    <3>1. i - 1 \in 1..(Len(s) - 1) /\ at(i - 1) = i
      BY <1>1, <2>2
    <3> QED BY <3>1
  <2> QED BY <1>1, <2>1, <2>2
<1> HIDE DEF t, at
<1>6. t \in Seq(S) /\ Len(t) = Len(s) - 1 /\ DOMAIN t = 1..(Len(s) - 1)
  <2>1. t \in [1..(Len(s) - 1) -> S]
    BY <1>1, <1>2, <1>3
  <2>2. Len(s) - 1 \in Nat
    BY <1>1
  <2> QED BY <2>1, <2>2
<1>7. Range(t) = Range(s) \ {s[p]}
  <2>1. ASSUME NEW k \in 1..(Len(s) - 1) PROVE t[k] \in Range(s) \ {s[p]}
    <3>1. at(k) \in DOMAIN s /\ p \in DOMAIN s /\ at(k) # p /\ t[k] = s[at(k)]
      BY <1>1, <1>2, <1>3
    <3> QED BY <3>1 DEF Range, Injective
  <2>2. ASSUME NEW i \in 1..Len(s), i # p PROVE s[i] \in Range(t)
    <3>1. PICK k \in 1..(Len(s) - 1) : at(k) = i
      BY <1>5, <2>2
    <3> QED BY <1>2, <1>6, <3>1 DEF Range
  <2> QED BY <1>1, <1>6, <2>1, <2>2 DEF Range
<1>8. Injective(t)
  <2> SUFFICES ASSUME NEW j \in DOMAIN t, NEW k \in DOMAIN t, t[j] = t[k] PROVE j = k
    BY DEF Injective
  <2>1. s[at(j)] = s[at(k)] /\ at(j) \in DOMAIN s /\ at(k) \in DOMAIN s
    BY <1>1, <1>2, <1>3, <1>6
  <2>2. at(j) = at(k)
    BY <2>1 DEF Injective
  <2> QED BY <1>4, <1>6, <2>2
<1> QED BY <1>6, <1>7, <1>8 DEF t

\* Links of other buckets do not matter to a list.
LEMMA ListStays ==
    ASSUME NEW link, NEW new, NEW b, NEW s, IsList(link, b, s), \A x \in Range(s) : new[x] = link[x]
    PROVE  IsList(new, b, s)
<1>1. \A k \in 1..Len(s) : s[k] \in Range(s)
  BY DEF IsList, Range
<1> QED BY <1>1 DEF IsList

\* A bucket that links to the first one makes the list one longer.
LEMMA ListPushed ==
    ASSUME NEW link, NEW new, NEW b, NEW s, IsList(link, b, s),
           NEW x \in Bucket, x \notin Range(s),
           new[x] = b, \A y \in Range(s) : new[y] = link[y]
    PROVE  IsList(new, x, Pushed(s, x))
<1> DEFINE t == Pushed(s, x)
<1>1. s \in Seq(Bucket) /\ Injective(s) /\ Len(s) \in Nat /\ DOMAIN s = 1..Len(s)
  BY DEF IsList
<1>2. t \in Seq(Bucket) /\ Len(t) = Len(s) + 1 /\ Injective(t)
  BY <1>1, PushedIs
<1>3. t[1] = x /\ \A k \in 2..(Len(s) + 1) : t[k] = s[k - 1]
  BY <1>1 DEF Pushed
<1> HIDE DEF t
<1>4. ASSUME NEW k \in 1..Len(t) PROVE new[t[k]] = IF k = Len(t) THEN Null ELSE t[k + 1]
  <2>1. CASE k = 1
    <3>1. new[t[k]] = IF Len(s) = 0 THEN Null ELSE s[1]
      BY <1>3, <2>1 DEF IsList
    <3>2. Len(s) # 0 => t[k + 1] = s[1]
      BY <1>1, <1>3, <2>1
    <3>3. (k = Len(t)) = (Len(s) = 0)
      BY <1>1, <1>2, <2>1
    <3> QED BY <3>1, <3>2, <3>3
  <2>2. CASE k # 1
    <3>1. k - 1 \in 1..Len(s) /\ k \in 2..(Len(s) + 1) /\ (k - 1) + 1 = k
      BY <1>1, <1>2, <2>2
    <3>2. t[k] = s[k - 1] /\ s[k - 1] \in Range(s)
      BY <1>1, <1>3, <3>1 DEF Range
    <3>3. new[t[k]] = IF k - 1 = Len(s) THEN Null ELSE s[k]
      BY <3>1, <3>2 DEF IsList
    <3>4. (k = Len(t)) = (k - 1 = Len(s))
      BY <1>1, <1>2, <3>1
    <3>5. k # Len(t) => t[k + 1] = s[k]
      <4>1. k # Len(t) => k + 1 \in 2..(Len(s) + 1) /\ (k + 1) - 1 = k
        BY <1>1, <1>2, <3>1
      <4> QED BY <1>3, <4>1
    <3> QED BY <3>3, <3>4, <3>5
  <2> QED BY <2>1, <2>2
<1>5. Len(t) # 0
  BY <1>1, <1>2
<1> QED BY <1>2, <1>3, <1>4, <1>5 DEF IsList, t

\* Leading the link before p past it makes the list one shorter.
LEMMA ListCut ==
    ASSUME NEW link, NEW new, NEW b, NEW s, IsList(link, b, s), NEW p \in DOMAIN s, NEW c,
           c = IF p = 1 THEN link[s[p]] ELSE b,
           \A k \in 1..Len(s) : k # p =>
              new[s[k]] = IF k + 1 = p THEN link[s[p]] ELSE link[s[k]]
    PROVE  IsList(new, c, Cut(s, p))
<1> DEFINE t == Cut(s, p)
<1>1. s \in Seq(Bucket) /\ Injective(s) /\ Len(s) \in Nat /\ p \in 1..Len(s)
  BY DEF IsList
<1>2. t \in Seq(Bucket) /\ Len(t) = Len(s) - 1 /\ Injective(t)
  BY <1>1, CutIs
<1>3. \A k \in 1..(Len(s) - 1) : t[k] = IF k < p THEN s[k] ELSE s[k + 1]
  BY DEF Cut
<1> HIDE DEF t
<1>4. c = IF Len(t) = 0 THEN Null ELSE t[1]
  <2>1. CASE p = 1
    <3>1. c = IF 1 = Len(s) THEN Null ELSE s[2]
      <4>1. c = link[s[1]] /\ 1 \in 1..Len(s) /\ 1 + 1 = 2
        BY <1>1, <2>1
      <4>2. link[s[1]] = IF 1 = Len(s) THEN Null ELSE s[1 + 1]
        BY <4>1 DEF IsList
      <4> QED BY <4>1, <4>2
    <3>2. (Len(t) = 0) = (1 = Len(s))
      BY <1>1, <1>2
    <3>3. Len(t) # 0 => t[1] = s[2]
      BY <1>1, <1>2, <1>3, <2>1
    <3> QED BY <3>1, <3>2, <3>3
  <2>2. CASE p # 1
    <3>1. c = s[1] /\ Len(t) # 0 /\ 1 \in 1..(Len(s) - 1) /\ 1 < p
      BY <1>1, <1>2, <2>2 DEF IsList
    <3> QED BY <1>3, <3>1
  <2> QED BY <2>1, <2>2
<1>5. ASSUME NEW k \in 1..Len(t) PROVE new[t[k]] = IF k = Len(t) THEN Null ELSE t[k + 1]
  <2>1. k \in 1..(Len(s) - 1) /\ k \in 1..Len(s) /\ k + 1 \in 1..Len(s)
    BY <1>1, <1>2
  <2>2. CASE k + 1 < p
    <3>1. k # p /\ k + 1 # p /\ k + 1 \in 1..(Len(s) - 1) /\ k # Len(t) /\ k < p /\ k # Len(s)
      BY <1>1, <1>2, <2>1, <2>2
    <3>2. t[k] = s[k] /\ t[k + 1] = s[k + 1]
      BY <1>3, <2>1, <2>2, <3>1
    <3>3. new[s[k]] = link[s[k]] /\ link[s[k]] = s[k + 1]
      BY <2>1, <3>1 DEF IsList
    <3> QED BY <3>1, <3>2, <3>3
  <2>3. CASE k + 1 = p
    <3>1. k # p /\ k < p /\ p \in 1..Len(s) /\ p = k + 1
      BY <1>1, <2>1, <2>3
    <3>2. t[k] = s[k]
      BY <1>3, <2>1, <3>1
    <3>3. new[s[k]] = link[s[p]] /\ link[s[p]] = IF p = Len(s) THEN Null ELSE s[p + 1]
      BY <2>1, <3>1 DEF IsList
    <3>4. (p = Len(s)) = (k = Len(t))
      BY <1>1, <1>2, <2>1, <2>3
    <3>5. k # Len(t) => t[k + 1] = s[p + 1]
      <4>1. k # Len(t) => k + 1 \in 1..(Len(s) - 1) /\ ~(k + 1 < p)
        BY <1>1, <1>2, <2>1, <2>3
      <4> QED BY <1>3, <2>3, <4>1
    <3> QED BY <3>2, <3>3, <3>4, <3>5
  <2>4. CASE k + 1 > p
    <3>1. ~(k < p) /\ k + 1 # p /\ (k + 1) + 1 # p
      BY <1>1, <2>1, <2>4
    <3>2. t[k] = s[k + 1]
      BY <1>3, <2>1, <3>1
    <3>3. new[s[k + 1]] = link[s[k + 1]]
      BY <2>1, <3>1
    <3>4. link[s[k + 1]] = IF k + 1 = Len(s) THEN Null ELSE s[(k + 1) + 1]
      BY <2>1 DEF IsList
    <3>5. (k + 1 = Len(s)) = (k = Len(t))
      BY <1>1, <1>2, <2>1
    <3>6. k # Len(t) => t[k + 1] = s[(k + 1) + 1]
      <4>1. k # Len(t) => k + 1 \in 1..(Len(s) - 1) /\ ~(k + 1 < p)
        BY <1>1, <1>2, <2>1, <2>4
      <4> QED BY <1>3, <4>1
    <3> QED BY <3>2, <3>3, <3>4, <3>5, <3>6
  <2> QED BY <1>1, <2>1, <2>2, <2>3, <2>4
<1> QED BY <1>2, <1>4, <1>5 DEF IsList, t
-----------------------------------------------------------------------------
(* Tables.                                                                 *)

Items == Group \cup {NoItem}
BucketRecord == [next : BucketOrNull, all_next : BucketOrNull, all_prev : BucketOrNull,
                 name : Key \cup {NoKey}, item : Items]

\* Arrays of any size.
Arrays(S) == UNION {[0..(n - 1) -> S] : n \in Nat}

Tables ==
    {t \in [size : Nat \ {0}, table : Arrays(BucketOrNull), counts : Arrays(Int),
            all_list : BucketOrNull, all_last : BucketOrNull, threshold : Nat,
            longest_bucket_string : Int, entry_count : Int, bucket : [Bucket -> BucketRecord]] :
        /\ t.table \in [0..(t.size - 1) -> BucketOrNull]
        /\ t.counts \in [0..(t.size - 1) -> Int]}

\* The chain of a name is one of the table's.
LEMMA HashInTable ==
    ASSUME NEW ht \in Tables, NEW name \in Key
    PROVE  Hash(ht, name) \in 0..(ht.size - 1) /\ Hash(ht, name) \in Nat
<1>1. HashCode[name] \in Nat /\ ht.size \in Nat \ {0}
  BY HashAssumption DEF Tables
<1> QED BY <1>1 DEF Hash

\* A freed bucket is a bucket.
LEMMA FreedIsBucket == Freed \in BucketRecord /\ Null \in BucketOrNull
BY DEF Freed, BucketRecord, BucketOrNull, Items

\* Buckets stay buckets when a link is set.
LEMMA BucketUpdated ==
    ASSUME NEW f \in [Bucket -> BucketRecord], NEW b \in Bucket, NEW v \in BucketOrNull
    PROVE  /\ [f EXCEPT ![b].next = v] \in [Bucket -> BucketRecord]
           /\ [f EXCEPT ![b].all_next = v] \in [Bucket -> BucketRecord]
           /\ [f EXCEPT ![b].all_prev = v] \in [Bucket -> BucketRecord]
<1>1. f[b] \in BucketRecord
  OBVIOUS
<1>2. [f[b] EXCEPT !.next = v] \in BucketRecord
  BY <1>1 DEF BucketRecord
<1>3. [f[b] EXCEPT !.all_next = v] \in BucketRecord
  BY <1>1 DEF BucketRecord
<1>4. [f[b] EXCEPT !.all_prev = v] \in BucketRecord
  BY <1>1 DEF BucketRecord
<1> QED BY <1>2, <1>3, <1>4

\* What LinkChain changes, field by field.
LEMMA LinkChainFields ==
    ASSUME NEW ht \in Tables, NEW b \in Bucket, ht.bucket[b].name \in Key
    PROVE  LET t == LinkChain(ht, b)
               h == Hash(ht, ht.bucket[b].name) IN
           /\ t \in Tables
           /\ t.size = ht.size /\ t.table = [ht.table EXCEPT ![h] = b]
           /\ t.counts = [ht.counts EXCEPT ![h] = @ + 1]
           /\ t.longest_bucket_string = Longest(ht, h)
           /\ t.all_list = ht.all_list /\ t.all_last = ht.all_last
           /\ t.threshold = ht.threshold /\ t.entry_count = ht.entry_count
           /\ t.bucket = [ht.bucket EXCEPT ![b].next = ht.table[h]]
<1> DEFINE t == LinkChain(ht, b)
           h == Hash(ht, ht.bucket[b].name)
<1>1. h \in 0..(ht.size - 1)
  BY HashInTable
<1> HIDE DEF h
<1>2. t = [ht EXCEPT !.bucket[b].next = ht.table[h], !.table[h] = b, !.counts[h] = @ + 1,
               !.longest_bucket_string = Longest(ht, h)]
  BY DEF LinkChain, h
<1> HIDE DEF t
<1>3. ht \in [size : Nat \ {0}, table : Arrays(BucketOrNull), counts : Arrays(Int),
            all_list : BucketOrNull, all_last : BucketOrNull, threshold : Nat,
            longest_bucket_string : Int, entry_count : Int, bucket : [Bucket -> BucketRecord]]
      /\ ht.table \in [0..(ht.size - 1) -> BucketOrNull]
      /\ ht.counts \in [0..(ht.size - 1) -> Int]
  BY DEF Tables
<1>4. /\ t.size = ht.size /\ t.table = [ht.table EXCEPT ![h] = b]
      /\ t.counts = [ht.counts EXCEPT ![h] = @ + 1]
      /\ t.longest_bucket_string = Longest(ht, h)
      /\ t.all_list = ht.all_list /\ t.all_last = ht.all_last
      /\ t.threshold = ht.threshold /\ t.entry_count = ht.entry_count
      /\ t.bucket = [ht.bucket EXCEPT ![b].next = ht.table[h]]
  BY <1>2, <1>3
<1>5. Longest(ht, h) \in Int /\ ht.table[h] \in BucketOrNull
  BY <1>1, <1>3 DEF Longest
<1>6. t.bucket \in [Bucket -> BucketRecord]
  <2>1. ht.bucket \in [Bucket -> BucketRecord]
    BY <1>3
  <2>2. [ht.bucket EXCEPT ![b].next = ht.table[h]] \in [Bucket -> BucketRecord]
    BY <1>5, <2>1, BucketUpdated
  <2> QED BY <1>4, <2>2
<1>7. t.table \in [0..(ht.size - 1) -> BucketOrNull] /\ t.counts \in [0..(ht.size - 1) -> Int]
  BY <1>1, <1>3, <1>4 DEF BucketOrNull
<1>8. t.table \in Arrays(BucketOrNull) /\ t.counts \in Arrays(Int)
  BY <1>3, <1>7 DEF Arrays
<1>9. t \in [size : Nat \ {0}, table : Arrays(BucketOrNull), counts : Arrays(Int),
            all_list : BucketOrNull, all_last : BucketOrNull, threshold : Nat,
            longest_bucket_string : Int, entry_count : Int, bucket : [Bucket -> BucketRecord]]
  BY <1>2, <1>3, <1>4, <1>5, <1>6, <1>8
<1>10. t \in Tables
  BY <1>4, <1>7, <1>9 DEF Tables
<1> QED BY <1>4, <1>10 DEF t, h
\* The chains hold the buckets of S, each in the chain of its name.
Chained(ht, S) ==
    \A h \in 0..(ht.size - 1) :
        /\ IsList(Nexts(ht), ht.table[h], Chain(ht, h))
        /\ Range(Chain(ht, h)) = {b \in S : Hash(ht, ht.bucket[b].name) = h}
        /\ ht.counts[h] = Len(Chain(ht, h)) /\ ht.counts[h] <= ht.longest_bucket_string

\* The list of all buckets holds those of S, in both directions.
Listed(ht, S) ==
    /\ IsList(AllNexts(ht), ht.all_list, AllList(ht))
    /\ Range(AllList(ht)) = S
    /\ ht.all_last = IF Len(AllList(ht)) = 0 THEN Null ELSE AllList(ht)[Len(AllList(ht))]
    /\ \A k \in 1..Len(AllList(ht)) :
          ht.bucket[AllList(ht)[k]].all_prev = IF k = 1 THEN Null ELSE AllList(ht)[k - 1]

\* What is allocated has a key of its own.
Keyed(ht, S) ==
    /\ \A b \in S : ht.bucket[b].name \in Key /\ ht.bucket[b].item \in Group
    /\ \A b, c \in S : ht.bucket[b].name = ht.bucket[c].name => b = c

TableInv(ht) ==
    /\ ht \in Tables
    /\ Keyed(ht, Allocated(ht)) /\ Chained(ht, Allocated(ht)) /\ Listed(ht, Allocated(ht))
    /\ ht.entry_count = Cardinality(Allocated(ht))

\* Chains and the list of all buckets have links of their own.
LEMMA ChainedFrame ==
    ASSUME NEW ht \in Tables, NEW t \in Tables, NEW S \in SUBSET Bucket, Chained(ht, S),
           t.size = ht.size, t.table = ht.table, t.counts = ht.counts,
           ht.longest_bucket_string <= t.longest_bucket_string,
           \A b \in Bucket : t.bucket[b].next = ht.bucket[b].next,
           \A b \in S : t.bucket[b].name = ht.bucket[b].name
    PROVE  Chained(t, S)
<1>1. Nexts(t) = Nexts(ht)
  BY DEF Nexts
<1>2. \A h \in 0..(t.size - 1) : Chain(t, h) = Chain(ht, h)
  BY <1>1 DEF Chain
<1>3. \A h \in 0..(t.size - 1) :
         {b \in S : Hash(t, t.bucket[b].name) = h} = {b \in S : Hash(ht, ht.bucket[b].name) = h}
  BY DEF Hash
<1>4. ASSUME NEW h \in 0..(t.size - 1) PROVE t.counts[h] <= t.longest_bucket_string
  <2>1. ht.counts[h] <= ht.longest_bucket_string
    BY DEF Chained
  <2>2. ht.counts[h] \in Int /\ ht.longest_bucket_string \in Int /\ t.longest_bucket_string \in Int
    BY DEF Tables
  <2> QED BY <2>1, <2>2
<1> QED BY <1>1, <1>2, <1>3, <1>4 DEF Chained

LEMMA ListedFrame ==
    ASSUME NEW ht \in Tables, NEW t \in Tables, NEW S \in SUBSET Bucket, Listed(ht, S),
           t.all_list = ht.all_list, t.all_last = ht.all_last,
           \A b \in Bucket : /\ t.bucket[b].all_next = ht.bucket[b].all_next
                             /\ t.bucket[b].all_prev = ht.bucket[b].all_prev
    PROVE  Listed(t, S)
<1>1. AllNexts(t) = AllNexts(ht)
  BY DEF AllNexts
<1>2. AllList(t) = AllList(ht)
  BY <1>1 DEF AllList
<1>3. \A k \in 1..Len(AllList(ht)) : AllList(ht)[k] \in Bucket
  BY DEF Listed, IsList
<1> QED BY <1>1, <1>2, <1>3 DEF Listed

\* LinkChain puts one more bucket into the chain of its name.
LEMMA LinkChainChained ==
    ASSUME NEW ht \in Tables, NEW S \in SUBSET Bucket, \A x \in S : ht.bucket[x].name \in Key,
           NEW b \in Bucket, b \notin S, ht.bucket[b].name \in Key, Chained(ht, S)
    PROVE  Chained(LinkChain(ht, b), S \cup {b})
<1> DEFINE t == LinkChain(ht, b)
           h == Hash(ht, ht.bucket[b].name)
<1>1. /\ t.size = ht.size /\ t.table = [ht.table EXCEPT ![h] = b]
      /\ t.counts = [ht.counts EXCEPT ![h] = @ + 1]
      /\ t.longest_bucket_string = Longest(ht, h)
      /\ t.bucket = [ht.bucket EXCEPT ![b].next = ht.table[h]]
  BY LinkChainFields
<1>2. h \in 0..(ht.size - 1)
  BY HashInTable
<1>3. /\ ht.bucket \in [Bucket -> BucketRecord] /\ ht.longest_bucket_string \in Int
      /\ ht.table \in [0..(ht.size - 1) -> BucketOrNull]
      /\ ht.counts \in [0..(ht.size - 1) -> Int]
  BY DEF Tables
<1> HIDE DEF t
<1>4. \A x \in Bucket : /\ t.bucket[x].name = ht.bucket[x].name
                        /\ t.bucket[x].next = IF x = b THEN ht.table[h] ELSE ht.bucket[x].next
  <2>1. ht.bucket[b] \in BucketRecord
    BY <1>3
  <2> QED BY <1>1, <1>3, <2>1 DEF BucketRecord
<1>5. \A x \in Bucket : Nexts(t)[x] = IF x = b THEN ht.table[h] ELSE Nexts(ht)[x]
  BY <1>4 DEF Nexts
<1>6. \A n : Hash(t, n) = Hash(ht, n)
  BY <1>1 DEF Hash
<1>7. /\ t.longest_bucket_string \in Int /\ ht.longest_bucket_string <= t.longest_bucket_string
      /\ ht.counts[h] + 1 <= t.longest_bucket_string /\ ht.counts[h] \in Int
  <2> HIDE DEF h
  <2>1. ht.counts[h] \in Int
    BY <1>2, <1>3
  <2>2. t.longest_bucket_string = IF ht.longest_bucket_string < ht.counts[h] + 1
                                  THEN ht.counts[h] + 1 ELSE ht.longest_bucket_string
    BY <1>1 DEF Longest
  <2> QED BY <1>3, <2>1, <2>2
<1> SUFFICES ASSUME NEW k \in 0..(t.size - 1)
             PROVE  /\ IsList(Nexts(t), t.table[k], Chain(t, k))
                    /\ Range(Chain(t, k)) = {x \in S \cup {b} : Hash(t, t.bucket[x].name) = k}
                    /\ t.counts[k] = Len(Chain(t, k)) /\ t.counts[k] <= t.longest_bucket_string
  BY DEF Chained, t
<1> DEFINE s == Chain(ht, k)
<1>8. /\ IsList(Nexts(ht), ht.table[k], s)
      /\ Range(s) = {x \in S : Hash(ht, ht.bucket[x].name) = k}
      /\ ht.counts[k] = Len(s) /\ ht.counts[k] <= ht.longest_bucket_string
  BY <1>1 DEF Chained
<1>9. /\ s \in Seq(Bucket) /\ Injective(s) /\ Range(s) \subseteq Bucket /\ b \notin Range(s)
      /\ Len(s) \in Nat
  BY <1>8 DEF IsList
<1> HIDE DEF s, h
<1>10. CASE k = h
  <2>1. t.table[k] = b /\ t.counts[k] = Len(s) + 1
    BY <1>1, <1>2, <1>3, <1>8, <1>10
  <2>2. IsList(Nexts(t), b, Pushed(s, b))
    <3>1. Nexts(t)[b] = ht.table[k]
      BY <1>5, <1>10
    <3>2. \A y \in Range(s) : Nexts(t)[y] = Nexts(ht)[y]
      BY <1>5, <1>9
    <3> QED BY <1>8, <1>9, <3>1, <3>2, ListPushed
  <2>3. Chain(t, k) = Pushed(s, b)
    BY <2>1, <2>2, LinkedIs DEF Chain
  <2>4. Range(Pushed(s, b)) = Range(s) \cup {b} /\ Len(Pushed(s, b)) = Len(s) + 1
    BY <1>9, PushedIs
  <2>5. Range(s) \cup {b} = {x \in S \cup {b} : Hash(t, t.bucket[x].name) = k}
    <3>1. Hash(t, t.bucket[b].name) = k
      BY <1>4, <1>6, <1>10 DEF h
    <3>2. \A x \in S : Hash(t, t.bucket[x].name) = Hash(ht, ht.bucket[x].name)
      BY <1>4, <1>6
    <3> QED BY <1>8, <3>1, <3>2
  <2>6. t.counts[k] <= t.longest_bucket_string
    BY <1>7, <1>8, <1>10, <2>1
  <2> QED BY <2>1, <2>2, <2>3, <2>4, <2>5, <2>6
<1>11. CASE k # h
  <2>1. t.table[k] = ht.table[k] /\ t.counts[k] = ht.counts[k]
    BY <1>1, <1>2, <1>3, <1>11
  <2>2. IsList(Nexts(t), t.table[k], s)
    <3>1. \A y \in Range(s) : Nexts(t)[y] = Nexts(ht)[y]
      BY <1>5, <1>9
    <3> QED BY <1>8, <2>1, <3>1, ListStays
  <2>3. Chain(t, k) = s
    BY <2>2, LinkedIs DEF Chain
  <2>4. Range(s) = {x \in S \cup {b} : Hash(t, t.bucket[x].name) = k}
    <3>1. Hash(t, t.bucket[b].name) # k
      BY <1>4, <1>6, <1>11 DEF h
    <3>2. \A x \in S : Hash(t, t.bucket[x].name) = Hash(ht, ht.bucket[x].name)
      BY <1>4, <1>6
    <3> QED BY <1>8, <3>1, <3>2
  <2>5. t.counts[k] <= t.longest_bucket_string
    <3>1. ht.counts[k] \in Int /\ ht.longest_bucket_string \in Int
      BY <1>1, <1>3
    <3> QED BY <1>7, <1>8, <2>1, <3>1
  <2> QED BY <1>8, <2>1, <2>2, <2>3, <2>4, <2>5
<1> QED BY <1>10, <1>11
\* The list that starts with Null.
LEMMA EmptyList ==
    ASSUME NEW link
    PROVE  IsList(link, Null, << >>) /\ Linked(link, Null) = << >> /\ Range(<< >>) = {}
<1>1. IsList(link, Null, << >>)
  BY DEF IsList, Injective
<1> QED BY <1>1, LinkedIs DEF Range

\* A table as it is before anything is put into it.
LEMMA EmptiedTable ==
    ASSUME NEW ht \in Tables, NEW n \in Nat \ {0}
    PROVE  LET t == Emptied(ht, n) IN
           /\ t \in Tables /\ t.size = n /\ t.bucket = ht.bucket
           /\ t.all_list = ht.all_list /\ t.all_last = ht.all_last
           /\ t.threshold = ht.threshold /\ t.entry_count = ht.entry_count
           /\ Chained(t, {})
<1> DEFINE t == Emptied(ht, n)
           nulls == [h \in 0..(n - 1) |-> Null]
           zeros == [h \in 0..(n - 1) |-> 0]
<1>1. t = [ht EXCEPT !.size = n, !.table = nulls, !.counts = zeros, !.longest_bucket_string = 0]
  BY DEF Emptied
<1>2. nulls \in [0..(n - 1) -> BucketOrNull] /\ zeros \in [0..(n - 1) -> Int]
  BY DEF BucketOrNull
<1>3. \A h \in 0..(n - 1) : nulls[h] = Null /\ zeros[h] = 0
  OBVIOUS
<1> HIDE DEF t, nulls, zeros
<1>4. nulls \in Arrays(BucketOrNull) /\ zeros \in Arrays(Int)
  BY <1>2 DEF Arrays
<1>5. ht \in [size : Nat \ {0}, table : Arrays(BucketOrNull), counts : Arrays(Int),
            all_list : BucketOrNull, all_last : BucketOrNull, threshold : Nat,
            longest_bucket_string : Int, entry_count : Int, bucket : [Bucket -> BucketRecord]]
  BY DEF Tables
<1>6. /\ t.size = n /\ t.table = nulls /\ t.counts = zeros /\ t.longest_bucket_string = 0
      /\ t.bucket = ht.bucket /\ t.all_list = ht.all_list /\ t.all_last = ht.all_last
      /\ t.threshold = ht.threshold /\ t.entry_count = ht.entry_count
  BY <1>1, <1>5
<1>7. t \in [size : Nat \ {0}, table : Arrays(BucketOrNull), counts : Arrays(Int),
            all_list : BucketOrNull, all_last : BucketOrNull, threshold : Nat,
            longest_bucket_string : Int, entry_count : Int, bucket : [Bucket -> BucketRecord]]
  <2>1. /\ t.size \in Nat \ {0} /\ t.table \in Arrays(BucketOrNull) /\ t.counts \in Arrays(Int)
        /\ t.all_list \in BucketOrNull /\ t.all_last \in BucketOrNull /\ t.threshold \in Nat
        /\ t.longest_bucket_string \in Int /\ t.entry_count \in Int
        /\ t.bucket \in [Bucket -> BucketRecord]
    BY <1>4, <1>5, <1>6
  <2> QED BY <1>1, <1>5, <2>1
<1>8. t \in Tables
  BY <1>2, <1>6, <1>7 DEF Tables
<1>9. Chained(t, {})
  <2> SUFFICES ASSUME NEW h \in 0..(t.size - 1)
               PROVE  /\ IsList(Nexts(t), t.table[h], Chain(t, h))
                      /\ Range(Chain(t, h)) = {}
                      /\ t.counts[h] = Len(Chain(t, h)) /\ t.counts[h] <= t.longest_bucket_string
    BY DEF Chained
  <2>1. t.table[h] = Null /\ t.counts[h] = 0
    BY <1>3, <1>6
  <2>2. Chain(t, h) = << >> /\ IsList(Nexts(t), Null, << >>) /\ Range(<< >>) = {}
    BY <2>1, EmptyList DEF Chain
  <2> QED BY <1>6, <2>1, <2>2
<1> QED BY <1>6, <1>8, <1>9 DEF t

\* Moved links the buckets of the list one after another.
LEMMA MovedEquation ==
    ASSUME NEW ht \in Tables, NEW all \in Seq(Bucket),
           \A k \in 1..Len(all) : ht.bucket[all[k]].name \in Key
    PROVE  /\ Moved(ht, all)[0] = ht
           /\ \A n \in 1..Len(all) : Moved(ht, all)[n] = LinkChain(Moved(ht, all)[n - 1], all[n])
<1> DEFINE T == {t \in Tables : \A b \in Bucket : t.bucket[b].name = ht.bucket[b].name}
           m == Len(all)
           step == [p \in (1..m) \X T |-> LinkChain(p[2], all[p[1]])]
<1>1. m \in Nat /\ \A k \in 1..m : all[k] \in Bucket
  OBVIOUS
<1>2. ASSUME NEW n \in 1..m, NEW t \in T PROVE LinkChain(t, all[n]) \in T
  <2> DEFINE u == LinkChain(t, all[n])
  <2>1. all[n] \in Bucket /\ t \in Tables /\ t.bucket[all[n]].name \in Key
    BY <1>1
  <2> DEFINE b == all[n]
             v == t.table[Hash(t, t.bucket[b].name)]
  <2>2. u \in Tables /\ u.bucket = [t.bucket EXCEPT ![b].next = v]
    <3>1. b \in Bucket /\ t \in Tables /\ t.bucket[b].name \in Key /\ u = LinkChain(t, b)
      BY <2>1
    <3> HIDE DEF b, u
    <3> QED BY <3>1, LinkChainFields
  <2> HIDE DEF v
  <2> HIDE DEF u
  <2>3. t.bucket \in [Bucket -> BucketRecord]
    BY <2>1 DEF Tables
  <2>4. \A x \in Bucket : u.bucket[x].name = t.bucket[x].name
    <3>1. t.bucket[all[n]] \in BucketRecord
      BY <2>1, <2>3
    <3> QED BY <2>2, <2>3, <3>1 DEF BucketRecord
  <2>5. u \in T
    BY <2>2, <2>4
  <2> QED BY <2>5 DEF u
<1>3. ht \in T
  OBVIOUS
<1> HIDE DEF T
<1>4. step \in Steps(m, T)
  BY <1>2 DEF Steps
<1>5. \A n \in 1..m, t \in T : step[<<n, t>>] = LinkChain(t, all[n])
  OBVIOUS
<1> HIDE DEF step, m
<1>0. m \in Nat
  BY <1>1
<1>6. PICK f \in [0..m -> T] : IsRun(f, m, ht, step)
  BY <1>0, <1>3, <1>4, Recursion
<1>7. f = [n \in 0..m |-> IF n = 0 THEN ht ELSE LinkChain(f[n - 1], all[n])]
  <2>1. f = [n \in 0..m |-> f[n]]
    BY <1>6
  <2>2. ASSUME NEW n \in 0..m PROVE f[n] = IF n = 0 THEN ht ELSE LinkChain(f[n - 1], all[n])
    <3>1. CASE n # 0
      <4>1. n \in 1..m /\ n - 1 \in 0..m
        BY <1>1, <3>1
      <4>2. f[n - 1] \in T
        BY <1>6, <4>1
      <4> QED BY <1>5, <1>6, <3>1, <4>1, <4>2 DEF IsRun
    <3> QED BY <1>6, <3>1 DEF IsRun
  <2> QED BY <2>1, <2>2
<1>8. Moved(ht, all) = [n \in 0..m |-> IF n = 0 THEN ht ELSE LinkChain(Moved(ht, all)[n - 1], all[n])]
  BY <1>7, Zenon DEF Moved, m
<1>9. \A n \in 1..m : n \in 0..m /\ n # 0
  BY <1>1
<1> QED BY <1>1, <1>8, <1>9 DEF m
\* t is e with other chains.
Rechained(e, t) ==
    /\ t.all_list = e.all_list /\ t.all_last = e.all_last
    /\ t.threshold = e.threshold /\ t.entry_count = e.entry_count
    /\ \A b \in Bucket :
          /\ t.bucket[b].name = e.bucket[b].name /\ t.bucket[b].item = e.bucket[b].item
          /\ t.bucket[b].all_next = e.bucket[b].all_next
          /\ t.bucket[b].all_prev = e.bucket[b].all_prev

\* LinkChain leaves the list of all buckets alone.
LEMMA LinkChainRechains ==
    ASSUME NEW ht \in Tables, NEW b \in Bucket, ht.bucket[b].name \in Key
    PROVE  LET t == LinkChain(ht, b) IN
           Rechained(ht, t) /\ \A x \in Bucket \ {b} : t.bucket[x] = ht.bucket[x]
<1> DEFINE t == LinkChain(ht, b)
           v == ht.table[Hash(ht, ht.bucket[b].name)]
<1>1. /\ t.all_list = ht.all_list /\ t.all_last = ht.all_last
      /\ t.threshold = ht.threshold /\ t.entry_count = ht.entry_count
      /\ t.bucket = [ht.bucket EXCEPT ![b].next = v]
  BY LinkChainFields
<1>2. ht.bucket \in [Bucket -> BucketRecord] /\ ht.bucket[b] \in BucketRecord
  BY DEF Tables
<1> HIDE DEF t, v
<1>3. \A x \in Bucket \ {b} : t.bucket[x] = ht.bucket[x]
  BY <1>1, <1>2
<1>4. t.bucket[b] = [ht.bucket[b] EXCEPT !.next = v]
  BY <1>1, <1>2
<1>5. /\ t.bucket[b].name = ht.bucket[b].name /\ t.bucket[b].item = ht.bucket[b].item
      /\ t.bucket[b].all_next = ht.bucket[b].all_next
      /\ t.bucket[b].all_prev = ht.bucket[b].all_prev
  BY <1>2, <1>4 DEF BucketRecord
<1>6. Rechained(ht, t)
  BY <1>1, <1>3, <1>5 DEF Rechained
<1> QED BY <1>3, <1>6 DEF t

\* Moved chains every bucket of the list again, and nothing else.
LEMMA MovedKeeps ==
    ASSUME NEW e \in Tables, NEW all \in Seq(Bucket), Injective(all),
           \A k \in 1..Len(all) : e.bucket[all[k]].name \in Key, Chained(e, {})
    PROVE  LET t == Moved(e, all)[Len(all)] IN
           /\ t \in Tables /\ t.size = e.size /\ Rechained(e, t)
           /\ \A b \in Bucket \ Range(all) : t.bucket[b] = e.bucket[b]
           /\ Chained(t, Range(all))
<1> DEFINE m == Len(all)
           at(n) == Moved(e, all)[n]
           upto(n) == {all[k] : k \in 1..n}
           Good(n) == /\ at(n) \in Tables /\ at(n).size = e.size /\ Rechained(e, at(n))
                      /\ \A b \in Bucket \ upto(n) : at(n).bucket[b] = e.bucket[b]
                      /\ Chained(at(n), upto(n))
           P == {n \in 0..m : Good(n)}
<1>1. m \in Nat /\ DOMAIN all = 1..m /\ \A k \in 1..m : all[k] \in Bucket
  OBVIOUS
<1>2. at(0) = e /\ \A n \in 1..m : at(n) = LinkChain(at(n - 1), all[n])
  BY MovedEquation
<1> HIDE DEF at
<1>3. 0 \in P
  <2>1. upto(0) = {}
    OBVIOUS
  <2> HIDE DEF upto
  <2>2. Rechained(e, e)
    BY DEF Rechained
  <2>3. Good(0)
    BY <1>2, <2>1, <2>2
  <2> HIDE DEF Good
  <2> QED BY <1>1, <2>3
<1>4. ASSUME NEW x \in 0..(m - 1), x \in P PROVE x + 1 \in P
  <2> DEFINE u == at(x)
             b == all[x + 1]
             t == at(x + 1)
  <2>0. x + 1 \in 1..m /\ (x + 1) - 1 = x /\ x + 1 \in 0..m
    BY <1>1
  <2>1. t = LinkChain(u, b) /\ b \in Bucket
    BY <1>1, <1>2, <2>0
  <2>2. Good(x)
    BY <1>4
  <2>3. u \in Tables /\ u.size = e.size /\ Rechained(e, u) /\ Chained(u, upto(x))
        /\ \A y \in Bucket \ upto(x) : u.bucket[y] = e.bucket[y]
    BY <2>2
  <2>4. u.bucket[b].name \in Key
    BY <2>0, <2>1, <2>3 DEF Rechained
  <2>5. upto(x) \subseteq Bucket /\ b \notin upto(x) /\ upto(x + 1) = upto(x) \cup {b}
    <3>1. ASSUME NEW k \in 1..x PROVE all[k] \in Bucket /\ all[k] # b
      <4>1. k \in DOMAIN all /\ x + 1 \in DOMAIN all /\ k # x + 1
        BY <1>1, <2>0
      <4> QED BY <1>1, <4>1 DEF Injective
    <3>2. \A k \in 1..(x + 1) : k \in 1..x \/ k = x + 1
      OBVIOUS
    <3>3. \A k \in 1..x : k \in 1..(x + 1)
      OBVIOUS
    <3>4. x + 1 \in 1..(x + 1)
      OBVIOUS
    <3> QED BY <3>1, <3>2, <3>3, <3>4
  <2>6. \A y \in upto(x) : u.bucket[y].name \in Key
    <3>1. ASSUME NEW k \in 1..x PROVE u.bucket[all[k]].name \in Key
      <4>1. k \in 1..m
        BY <1>1
      <4> QED BY <1>1, <2>3, <4>1 DEF Rechained
    <3> QED BY <3>1
  <2> HIDE DEF upto, u, b, t, Good
  <2>7. t \in Tables /\ t.size = u.size
    BY <2>1, <2>3, <2>4, LinkChainFields
  <2>8. Rechained(u, t) /\ \A y \in Bucket \ {b} : t.bucket[y] = u.bucket[y]
    BY <2>1, <2>3, <2>4, LinkChainRechains
  <2>9. Chained(t, upto(x) \cup {b})
    BY <2>1, <2>3, <2>4, <2>5, <2>6, LinkChainChained
  <2>10. Rechained(e, t)
    BY <2>3, <2>8 DEF Rechained
  <2>11. \A y \in Bucket \ upto(x + 1) : t.bucket[y] = e.bucket[y]
    BY <2>3, <2>5, <2>8
  <2>12. Good(x + 1)
    BY <2>3, <2>5, <2>7, <2>9, <2>10, <2>11 DEF Good, t
  <2> QED BY <2>0, <2>12
<1> HIDE DEF P, m
<1>5. m \in P
  <2>1. m \in Nat /\ m \in 0..m
    BY <1>1
  <2>2. \A x \in 0..m : x \in P
    BY <1>3, <1>4, <2>1, UpTo
  <2> QED BY <2>1, <2>2
<1>6. Good(m)
  BY <1>5 DEF P
<1>7. upto(m) = Range(all)
  BY <1>1 DEF Range
<1> HIDE DEF upto
<1> QED BY <1>6, <1>7 DEF at, m

\* Resizing makes new chains of the same buckets.
LEMMA Resized ==
    ASSUME NEW ht \in Tables, NEW S \in SUBSET Bucket, Keyed(ht, S), Listed(ht, S),
           NEW n \in Nat \ {0}
    PROVE  LET t == Resize(ht, n) IN
           /\ t \in Tables /\ t.size = n /\ Rechained(ht, t)
           /\ \A b \in Bucket \ S : t.bucket[b] = ht.bucket[b]
           /\ Chained(t, S)
<1> DEFINE e == Emptied(ht, n)
           all == AllList(ht)
           t == Moved(e, all)[Len(all)]
<1>1. all \in Seq(Bucket) /\ Injective(all) /\ Range(all) = S
  BY DEF Listed, IsList
<1>2. /\ e \in Tables /\ e.size = n /\ e.bucket = ht.bucket
      /\ e.all_list = ht.all_list /\ e.all_last = ht.all_last
      /\ e.threshold = ht.threshold /\ e.entry_count = ht.entry_count /\ Chained(e, {})
  BY EmptiedTable
<1>3. Resize(ht, n) = t
  BY DEF Resize
<1> HIDE DEF e, all
<1>4. \A k \in 1..Len(all) : e.bucket[all[k]].name \in Key
  <2>1. \A k \in 1..Len(all) : all[k] \in S
    BY <1>1 DEF Range
  <2> QED BY <1>2, <2>1 DEF Keyed
<1>5. /\ t \in Tables /\ t.size = e.size /\ Rechained(e, t)
      /\ \A b \in Bucket \ Range(all) : t.bucket[b] = e.bucket[b]
      /\ Chained(t, Range(all))
  BY <1>1, <1>2, <1>4, MovedKeeps
<1> HIDE DEF t
<1>6. Rechained(ht, t)
  BY <1>2, <1>5 DEF Rechained
<1> QED BY <1>1, <1>2, <1>3, <1>5, <1>6
\* t is ht with another list of all buckets.
Relisted(ht, t) ==
    /\ t.size = ht.size /\ t.table = ht.table /\ t.counts = ht.counts
    /\ t.longest_bucket_string = ht.longest_bucket_string
    /\ t.threshold = ht.threshold /\ t.entry_count = ht.entry_count
    /\ \A b \in Bucket :
          /\ t.bucket[b].name = ht.bucket[b].name /\ t.bucket[b].item = ht.bucket[b].item
          /\ t.bucket[b].next = ht.bucket[b].next

Relist(ht, a, z, f) == [ht EXCEPT !.all_list = a, !.all_last = z, !.bucket = f]

\* The tables that differ from a table in nothing but the list of all buckets.
LEMMA TablesRelisted ==
    ASSUME NEW ht \in Tables, NEW a \in BucketOrNull, NEW z \in BucketOrNull,
           NEW f \in [Bucket -> BucketRecord],
           \A b \in Bucket : /\ f[b].name = ht.bucket[b].name /\ f[b].item = ht.bucket[b].item
                             /\ f[b].next = ht.bucket[b].next
    PROVE  LET t == Relist(ht, a, z, f) IN
           /\ t \in Tables /\ Relisted(ht, t)
           /\ t.all_list = a /\ t.all_last = z /\ t.bucket = f
<1> DEFINE t == Relist(ht, a, z, f)
<1> USE DEF Relist
<1>1. ht \in [size : Nat \ {0}, table : Arrays(BucketOrNull), counts : Arrays(Int),
            all_list : BucketOrNull, all_last : BucketOrNull, threshold : Nat,
            longest_bucket_string : Int, entry_count : Int, bucket : [Bucket -> BucketRecord]]
      /\ ht.table \in [0..(ht.size - 1) -> BucketOrNull]
      /\ ht.counts \in [0..(ht.size - 1) -> Int]
  BY DEF Tables
<1>2. /\ t.all_list = a /\ t.all_last = z /\ t.bucket = f
      /\ t.size = ht.size /\ t.table = ht.table /\ t.counts = ht.counts
      /\ t.longest_bucket_string = ht.longest_bucket_string
      /\ t.threshold = ht.threshold /\ t.entry_count = ht.entry_count
  BY <1>1
<1>3. t \in [size : Nat \ {0}, table : Arrays(BucketOrNull), counts : Arrays(Int),
            all_list : BucketOrNull, all_last : BucketOrNull, threshold : Nat,
            longest_bucket_string : Int, entry_count : Int, bucket : [Bucket -> BucketRecord]]
  BY <1>1
<1> HIDE DEF t
<1>4. t \in Tables
  BY <1>1, <1>2, <1>3 DEF Tables
<1>5. Relisted(ht, t)
  BY <1>2 DEF Relisted
<1> QED BY <1>2, <1>4, <1>5 DEF t

SetNext(f, b, v) == [f EXCEPT ![b].next = v]
SetAllNext(f, b, v) == [f EXCEPT ![b].all_next = v]
SetAllPrev(f, b, v) == [f EXCEPT ![b].all_prev = v]

\* Setting one link of one bucket changes nothing else.
LEMMA FieldsOfBucket ==
    ASSUME NEW f \in [Bucket -> BucketRecord], NEW b \in Bucket, NEW v \in BucketOrNull
    PROVE  /\ LET g == SetNext(f, b, v) IN
              /\ g \in [Bucket -> BucketRecord]
              /\ \A x \in Bucket :
                    /\ g[x].next = IF x = b THEN v ELSE f[x].next
                    /\ g[x].all_next = f[x].all_next /\ g[x].all_prev = f[x].all_prev
                    /\ g[x].name = f[x].name /\ g[x].item = f[x].item
                    /\ x # b => g[x] = f[x]
           /\ LET g == SetAllNext(f, b, v) IN
              /\ g \in [Bucket -> BucketRecord]
              /\ \A x \in Bucket :
                    /\ g[x].all_next = IF x = b THEN v ELSE f[x].all_next
                    /\ g[x].next = f[x].next /\ g[x].all_prev = f[x].all_prev
                    /\ g[x].name = f[x].name /\ g[x].item = f[x].item
                    /\ x # b => g[x] = f[x]
           /\ LET g == SetAllPrev(f, b, v) IN
              /\ g \in [Bucket -> BucketRecord]
              /\ \A x \in Bucket :
                    /\ g[x].all_prev = IF x = b THEN v ELSE f[x].all_prev
                    /\ g[x].next = f[x].next /\ g[x].all_next = f[x].all_next
                    /\ g[x].name = f[x].name /\ g[x].item = f[x].item
                    /\ x # b => g[x] = f[x]
<1> USE DEF SetNext, SetAllNext, SetAllPrev
<1>1. \A x \in Bucket : f[x] \in BucketRecord
  OBVIOUS
<1>2. /\ [f EXCEPT ![b].next = v] \in [Bucket -> BucketRecord]
      /\ [f EXCEPT ![b].all_next = v] \in [Bucket -> BucketRecord]
      /\ [f EXCEPT ![b].all_prev = v] \in [Bucket -> BucketRecord]
  BY BucketUpdated
<1>3. ASSUME NEW x \in Bucket
      PROVE  LET g == SetNext(f, b, v) IN
             /\ g[x].next = IF x = b THEN v ELSE f[x].next
             /\ g[x].all_next = f[x].all_next /\ g[x].all_prev = f[x].all_prev
             /\ g[x].name = f[x].name /\ g[x].item = f[x].item
             /\ x # b => g[x] = f[x]
  <2>1. [f EXCEPT ![b].next = v][x] = IF x = b THEN [f[b] EXCEPT !.next = v] ELSE f[x]
    OBVIOUS
  <2> QED BY <1>1, <2>1 DEF BucketRecord
<1>4. ASSUME NEW x \in Bucket
      PROVE  LET g == SetAllNext(f, b, v) IN
             /\ g[x].all_next = IF x = b THEN v ELSE f[x].all_next
             /\ g[x].next = f[x].next /\ g[x].all_prev = f[x].all_prev
             /\ g[x].name = f[x].name /\ g[x].item = f[x].item
             /\ x # b => g[x] = f[x]
  <2>1. [f EXCEPT ![b].all_next = v][x] = IF x = b THEN [f[b] EXCEPT !.all_next = v] ELSE f[x]
    OBVIOUS
  <2> QED BY <1>1, <2>1 DEF BucketRecord
<1>5. ASSUME NEW x \in Bucket
      PROVE  LET g == SetAllPrev(f, b, v) IN
             /\ g[x].all_prev = IF x = b THEN v ELSE f[x].all_prev
             /\ g[x].next = f[x].next /\ g[x].all_next = f[x].all_next
             /\ g[x].name = f[x].name /\ g[x].item = f[x].item
             /\ x # b => g[x] = f[x]
  <2>1. [f EXCEPT ![b].all_prev = v][x] = IF x = b THEN [f[b] EXCEPT !.all_prev = v] ELSE f[x]
    OBVIOUS
  <2> QED BY <1>1, <2>1 DEF BucketRecord
<1> QED BY <1>2, <1>3, <1>4, <1>5
\* What LinkAll changes, field by field.
LEMMA LinkAllFields ==
    ASSUME NEW ht \in Tables, NEW S \in SUBSET Bucket, NEW b \in Bucket, b \notin S, Listed(ht, S),
           ht.bucket[b].all_next = Null, ht.bucket[b].all_prev = Null
    PROVE  LET t == LinkAll(ht, b) IN
           /\ t \in Tables /\ Relisted(ht, t) /\ t.all_list = b
           /\ t.all_last = IF Len(AllList(ht)) = 0 THEN b ELSE ht.all_last
           /\ \A x \in Bucket :
                 /\ t.bucket[x].all_next = IF x = b THEN ht.all_list ELSE ht.bucket[x].all_next
                 /\ t.bucket[x].all_prev = IF x = ht.all_list THEN b ELSE ht.bucket[x].all_prev
                 /\ x \notin S \cup {b} => t.bucket[x] = ht.bucket[x]
<1> DEFINE t == LinkAll(ht, b)
           all == AllList(ht)
<1>1. /\ all \in Seq(Bucket) /\ Range(all) = S /\ Len(all) \in Nat
      /\ ht.all_list = IF Len(all) = 0 THEN Null ELSE all[1]
      /\ ht.all_last = IF Len(all) = 0 THEN Null ELSE all[Len(all)]
  BY DEF Listed, IsList
<1>2. ht.bucket \in [Bucket -> BucketRecord] /\ ht.all_list \in BucketOrNull
      /\ ht.all_last \in BucketOrNull /\ b \in BucketOrNull /\ Null \notin Bucket
  BY BucketsAreNumbers DEF Tables, BucketOrNull
<1> HIDE DEF all
<1>3. CASE Len(all) = 0
  <2>1. ht.all_list = Null /\ ht.all_last = Null
    BY <1>1, <1>3
  <2>2. t = [ht EXCEPT !.all_last = b, !.all_list = b]
    BY <2>1 DEF LinkAll
  <2>3. t = Relist(ht, b, b, ht.bucket)
    BY <2>2 DEF Tables, Relist
  <2> HIDE DEF t
  <2>4. t \in Tables /\ Relisted(ht, t) /\ t.all_list = b /\ t.all_last = b /\ t.bucket = ht.bucket
    BY <1>2, <2>3, TablesRelisted
  <2> QED BY <1>2, <1>3, <2>1, <2>4 DEF t, all
<1>4. CASE Len(all) # 0
  <2> DEFINE a == ht.all_list
             f == SetAllPrev(ht.bucket, a, b)
             g == SetAllNext(f, b, a)
  <2>1. a = all[1] /\ a \in S /\ a \in Bucket /\ a # b /\ ht.all_last # Null
    <3>1. 1 \in DOMAIN all /\ Len(all) \in DOMAIN all
      BY <1>1, <1>4
    <3>2. all[1] \in Range(all) /\ all[Len(all)] \in Range(all)
      BY <3>1 DEF Range
    <3> QED BY <1>1, <1>2, <1>4, <3>2
  <2>2. t = [ht EXCEPT !.bucket[a].all_prev = b, !.bucket[b].all_next = a, !.all_list = b]
    BY <2>1 DEF LinkAll
  <2>3. t = Relist(ht, b, ht.all_last, g)
    BY <1>2, <2>2 DEF Tables, Relist, SetAllNext, SetAllPrev
  <2> HIDE DEF t, a
  <2>4. /\ f \in [Bucket -> BucketRecord]
        /\ \A x \in Bucket :
              /\ f[x].all_prev = IF x = a THEN b ELSE ht.bucket[x].all_prev
              /\ f[x].next = ht.bucket[x].next /\ f[x].all_next = ht.bucket[x].all_next
              /\ f[x].name = ht.bucket[x].name /\ f[x].item = ht.bucket[x].item
              /\ x # a => f[x] = ht.bucket[x]
    BY <1>2, <2>1, FieldsOfBucket
  <2> HIDE DEF f
  <2>5. /\ g \in [Bucket -> BucketRecord]
        /\ \A x \in Bucket :
              /\ g[x].all_next = IF x = b THEN a ELSE f[x].all_next
              /\ g[x].next = f[x].next /\ g[x].all_prev = f[x].all_prev
              /\ g[x].name = f[x].name /\ g[x].item = f[x].item
              /\ x # b => g[x] = f[x]
    <3>1. a \in BucketOrNull
      BY <1>2 DEF a
    <3> QED BY <2>4, <3>1, FieldsOfBucket
  <2> HIDE DEF g
  <2>6. \A x \in Bucket : /\ g[x].name = ht.bucket[x].name /\ g[x].item = ht.bucket[x].item
                          /\ g[x].next = ht.bucket[x].next
    BY <2>4, <2>5
  <2>7. /\ t \in Tables /\ Relisted(ht, t)
        /\ t.all_list = b /\ t.all_last = ht.all_last /\ t.bucket = g
    BY <1>2, <2>3, <2>5, <2>6, TablesRelisted
  <2>8. \A x \in Bucket :
           /\ g[x].all_next = IF x = b THEN a ELSE ht.bucket[x].all_next
           /\ g[x].all_prev = IF x = a THEN b ELSE ht.bucket[x].all_prev
           /\ x \notin S \cup {b} => g[x] = ht.bucket[x]
    BY <2>1, <2>4, <2>5
  <2> QED BY <1>4, <2>7, <2>8 DEF t, all, a
<1> QED BY <1>3, <1>4

\* LinkAll puts one more bucket into the list of all buckets.
LEMMA LinkAllListed ==
    ASSUME NEW ht \in Tables, NEW S \in SUBSET Bucket, NEW b \in Bucket, b \notin S, Listed(ht, S),
           ht.bucket[b].all_next = Null, ht.bucket[b].all_prev = Null
    PROVE  Listed(LinkAll(ht, b), S \cup {b})
<1> DEFINE t == LinkAll(ht, b)
           all == AllList(ht)
           new == Pushed(all, b)
<1>1. /\ t.all_list = b /\ t.all_last = IF Len(all) = 0 THEN b ELSE ht.all_last
      /\ \A x \in Bucket :
            /\ t.bucket[x].all_next = IF x = b THEN ht.all_list ELSE ht.bucket[x].all_next
            /\ t.bucket[x].all_prev = IF x = ht.all_list THEN b ELSE ht.bucket[x].all_prev
  BY LinkAllFields
<1>2. /\ IsList(AllNexts(ht), ht.all_list, all) /\ Range(all) = S
      /\ ht.all_last = IF Len(all) = 0 THEN Null ELSE all[Len(all)]
      /\ \A k \in 1..Len(all) :
            ht.bucket[all[k]].all_prev = IF k = 1 THEN Null ELSE all[k - 1]
  BY DEF Listed
<1>3. /\ all \in Seq(Bucket) /\ Injective(all) /\ Len(all) \in Nat /\ DOMAIN all = 1..Len(all)
      /\ ht.all_list = IF Len(all) = 0 THEN Null ELSE all[1]
      /\ \A k \in 1..Len(all) : all[k] \in S
  BY <1>2 DEF IsList, Range
<1> HIDE DEF t, all
<1>4. \A x \in Bucket : AllNexts(t)[x] = IF x = b THEN ht.all_list ELSE AllNexts(ht)[x]
  BY <1>1 DEF AllNexts
<1>5. IsList(AllNexts(t), b, new)
  <2>1. \A y \in Range(all) : AllNexts(t)[y] = AllNexts(ht)[y]
    BY <1>2, <1>4
  <2> QED BY <1>2, <1>4, <2>1, ListPushed
<1>6. AllList(t) = new
  BY <1>1, <1>5, LinkedIs DEF AllList
<1>7. Range(new) = S \cup {b} /\ Len(new) = Len(all) + 1
  BY <1>2, <1>3, PushedIs
<1>8. new[1] = b /\ \A k \in 2..(Len(all) + 1) : new[k] = all[k - 1]
  BY <1>3 DEF Pushed
<1> HIDE DEF new
<1>9. t.all_last = new[Len(new)] /\ Len(new) # 0
  <2>1. CASE Len(all) = 0
    BY <1>1, <1>7, <1>8, <2>1
  <2>2. CASE Len(all) # 0
    <3>1. Len(all) + 1 \in 2..(Len(all) + 1) /\ (Len(all) + 1) - 1 = Len(all) /\ Len(all) + 1 # 0
      BY <1>3, <2>2
    <3> QED BY <1>1, <1>2, <1>7, <1>8, <2>2, <3>1
  <2> QED BY <2>1, <2>2
<1>10. ASSUME NEW k \in 1..Len(new)
       PROVE  t.bucket[new[k]].all_prev = IF k = 1 THEN Null ELSE new[k - 1]
  <2>1. CASE k = 1
    <3>1. b # ht.all_list
      <4>1. Null \notin Bucket
        BY BucketsAreNumbers
      <4>2. Len(all) # 0 => 1 \in 1..Len(all)
        BY <1>3
      <4> QED BY <1>3, <4>1, <4>2
    <3> QED BY <1>1, <1>8, <2>1, <3>1
  <2>2. CASE k = 2
    <3>1. k - 1 = 1 /\ 1 \in 1..Len(all) /\ k \in 2..(Len(all) + 1) /\ Len(all) # 0 /\ k # 1
      BY <1>3, <1>7, <2>2
    <3>2. new[k] = all[1] /\ all[1] = ht.all_list /\ all[1] \in Bucket
      BY <1>3, <1>8, <3>1
    <3> QED BY <1>1, <1>8, <3>1, <3>2
  <2>3. CASE k > 2
    <3>1. /\ k \in 2..(Len(all) + 1) /\ k - 1 \in 2..(Len(all) + 1) /\ k - 1 \in 1..Len(all)
          /\ k - 1 # 1 /\ k # 1 /\ Len(all) # 0 /\ 1 \in 1..Len(all)
      BY <1>3, <1>7, <2>3
    <3>2. new[k] = all[k - 1] /\ new[k - 1] = all[(k - 1) - 1] /\ all[k - 1] \in Bucket
      BY <1>3, <1>8, <3>1
    <3>3. all[k - 1] # ht.all_list
      BY <1>3, <3>1 DEF Injective
    <3>4. ht.bucket[all[k - 1]].all_prev = all[(k - 1) - 1]
      BY <1>2, <3>1
    <3> QED BY <1>1, <3>1, <3>2, <3>3, <3>4
  <2>4. k \in Nat /\ k >= 1
    BY <1>3, <1>7
  <2> QED BY <2>1, <2>2, <2>3, <2>4
<1> QED BY <1>1, <1>5, <1>6, <1>7, <1>9, <1>10 DEF Listed, t
-----------------------------------------------------------------------------
(* Looking up and growing.                                                 *)

LEMMA FindIs ==
    ASSUME NEW ht \in Tables, NEW S \in SUBSET Bucket, Keyed(ht, S), Chained(ht, S), NEW name \in Key
    PROVE  /\ \A b \in S : ht.bucket[b].name = name => Find(ht, name) = b
           /\ (\A b \in S : ht.bucket[b].name # name) => Find(ht, name) = Null
<1> DEFINE h == Hash(ht, name)
           chain == Chain(ht, h)
           hits == {k \in DOMAIN chain : ht.bucket[chain[k]].name = name}
<1>1. h \in 0..(ht.size - 1)
  BY HashInTable
<1>2. chain \in Seq(Bucket) /\ Range(chain) = {b \in S : Hash(ht, ht.bucket[b].name) = h}
  BY <1>1 DEF Chained, IsList
<1>3. Find(ht, name) = IF hits = {} THEN Null ELSE chain[Min(hits)]
  BY DEF Find
<1> HIDE DEF chain
<1>4. hits \subseteq Nat /\ \A k \in hits : chain[k] \in S /\ ht.bucket[chain[k]].name = name
  <2>1. DOMAIN chain \subseteq Nat
    BY <1>2
  <2>2. \A k \in DOMAIN chain : chain[k] \in S
    BY <1>2 DEF Range
  <2> QED BY <2>1, <2>2
<1>5. ASSUME NEW b \in S, ht.bucket[b].name = name PROVE Find(ht, name) = b
  <2>1. b \in Range(chain)
    BY <1>2, <1>5
  <2>2. PICK k \in DOMAIN chain : chain[k] = b
    BY <2>1 DEF Range
  <2>3. k \in hits
    BY <1>5, <2>2
  <2> HIDE DEF hits
  <2>4. Min(hits) \in hits /\ hits # {}
    BY <1>4, <2>3, MinOf
  <2>5. Find(ht, name) \in S /\ ht.bucket[Find(ht, name)].name = name
    BY <1>3, <1>4, <2>4
  <2> QED BY <1>5, <2>5 DEF Keyed
<1>6. ASSUME \A b \in S : ht.bucket[b].name # name PROVE Find(ht, name) = Null
  <2>1. hits = {}
    BY <1>4, <1>6
  <2> HIDE DEF hits
  <2> QED BY <1>3, <2>1
<1> QED BY <1>5, <1>6

\* A lookup finds the bucket with the name if there is one, and nothing otherwise.
LEMMA LookupIs ==
    ASSUME NEW ht, TableInv(ht), NEW name \in Key
    PROVE  /\ \A b \in Allocated(ht) : ht.bucket[b].name = name =>
                 Find(ht, name) = b /\ Lookup(ht, name) = ht.bucket[b].item
           /\ (\A b \in Allocated(ht) : ht.bucket[b].name # name) =>
                 Find(ht, name) = Null /\ Lookup(ht, name) = NoItem
<1>1. /\ ht \in Tables /\ Allocated(ht) \in SUBSET Bucket
      /\ Keyed(ht, Allocated(ht)) /\ Chained(ht, Allocated(ht))
  BY DEF TableInv, Allocated
<1>2. name # NoKey
  BY HashAssumption
<1>3. ASSUME NEW b \in Allocated(ht), ht.bucket[b].name = name
      PROVE  Find(ht, name) = b /\ Lookup(ht, name) = ht.bucket[b].item
  <2>1. Find(ht, name) = b
    BY <1>1, <1>3, FindIs
  <2>2. b # Null
    BY <1>1, BucketsAreNumbers
  <2> QED BY <1>2, <2>1, <2>2 DEF Lookup
<1>4. ASSUME \A b \in Allocated(ht) : ht.bucket[b].name # name
      PROVE  Find(ht, name) = Null /\ Lookup(ht, name) = NoItem
  <2>1. Find(ht, name) = Null
    BY <1>1, <1>4, FindIs
  <2> QED BY <1>2, <2>1 DEF Lookup
<1> QED BY <1>3, <1>4

\* The next size is a size.
LEMMA PrimeType == \A n : NextHigherPrime(n) \in Nat \ {0}
<1> TAKE n
<1> DEFINE above == {k \in DOMAIN Primes : n < Primes[k][1]}
<1>1. DOMAIN Primes \subseteq Nat /\ \A k \in DOMAIN Primes : Primes[k] \in Nat \X (Nat \ {0})
  BY HashAssumption
<1>2. LastPrime \in Nat \ {0}
  BY HashAssumption
<1>3. CASE above = {}
  BY <1>2, <1>3 DEF NextHigherPrime
<1>4. CASE above # {}
  <2>1. above \subseteq DOMAIN Primes
    OBVIOUS
  <2>2. NextHigherPrime(n) = Primes[Min(above)][2]
    BY <1>4 DEF NextHigherPrime
  <2> HIDE DEF above
  <2>3. Min(above) \in DOMAIN Primes
    BY <1>1, <1>4, <2>1, MinOf
  <2>4. Primes[Min(above)][2] \in Nat \ {0}
    BY <1>1, <2>3
  <2> QED BY <2>2, <2>4
<1> QED BY <1>3, <1>4

\* What is found of what, whatever the shape of the table.
SameEntries(ht, t) ==
    /\ Allocated(t) = Allocated(ht)
    /\ \A b \in Allocated(ht) : t.bucket[b].name = ht.bucket[b].name /\ t.bucket[b].item = ht.bucket[b].item

\* Buckets are allocated as before if their names and items are.
LEMMA AllocatedByName ==
    ASSUME NEW ht \in Tables, NEW t \in Tables, Keyed(ht, Allocated(ht)),
           \A b \in Bucket : t.bucket[b].name = ht.bucket[b].name /\ t.bucket[b].item = ht.bucket[b].item,
           \A b \in Bucket \ Allocated(ht) : t.bucket[b] = ht.bucket[b]
    PROVE  SameEntries(ht, t) /\ Keyed(t, Allocated(t))
<1>1. \A b \in Allocated(ht) : b \in Bucket /\ t.bucket[b].name # NoKey
  BY HashAssumption DEF Keyed, Allocated
<1>2. Freed.name = NoKey
  BY DEF Freed
<1>3. \A b \in Allocated(ht) : t.bucket[b] # Freed
  BY <1>1, <1>2
<1>4. Allocated(t) = Allocated(ht)
  BY <1>1, <1>3 DEF Allocated
<1>5. SameEntries(ht, t)
  BY <1>1, <1>4 DEF SameEntries
<1> QED BY <1>4, <1>5 DEF SameEntries, Keyed

Raise(ht, v) == [ht EXCEPT !.threshold = v]

\* Raising the threshold changes nothing else.
LEMMA Raised ==
    ASSUME NEW ht \in Tables, NEW v \in Nat
    PROVE  LET t == Raise(ht, v) IN
           /\ t \in Tables /\ t.size = ht.size /\ t.table = ht.table /\ t.counts = ht.counts
           /\ t.all_list = ht.all_list /\ t.all_last = ht.all_last /\ t.threshold = v
           /\ t.longest_bucket_string = ht.longest_bucket_string
           /\ t.entry_count = ht.entry_count /\ t.bucket = ht.bucket
<1> DEFINE t == Raise(ht, v)
<1> USE DEF Raise
<1>1. ht \in [size : Nat \ {0}, table : Arrays(BucketOrNull), counts : Arrays(Int),
            all_list : BucketOrNull, all_last : BucketOrNull, threshold : Nat,
            longest_bucket_string : Int, entry_count : Int, bucket : [Bucket -> BucketRecord]]
      /\ ht.table \in [0..(ht.size - 1) -> BucketOrNull]
      /\ ht.counts \in [0..(ht.size - 1) -> Int]
  BY DEF Tables
<1>2. /\ t.size = ht.size /\ t.table = ht.table /\ t.counts = ht.counts
      /\ t.all_list = ht.all_list /\ t.all_last = ht.all_last /\ t.threshold = v
      /\ t.longest_bucket_string = ht.longest_bucket_string
      /\ t.entry_count = ht.entry_count /\ t.bucket = ht.bucket
  BY <1>1
<1>3. t \in [size : Nat \ {0}, table : Arrays(BucketOrNull), counts : Arrays(Int),
            all_list : BucketOrNull, all_last : BucketOrNull, threshold : Nat,
            longest_bucket_string : Int, entry_count : Int, bucket : [Bucket -> BucketRecord]]
  BY <1>1
<1> HIDE DEF t
<1>4. t \in Tables
  BY <1>1, <1>2, <1>3 DEF Tables
<1> QED BY <1>2, <1>4 DEF t

\* A table may grow: it holds the same entries.
LEMMA GrowKeeps ==
    ASSUME NEW ht, TableInv(ht)
    PROVE  TableInv(Grow(ht)) /\ SameEntries(ht, Grow(ht))
<1> DEFINE S == Allocated(ht)
<1>1. /\ ht \in Tables /\ Keyed(ht, S) /\ Chained(ht, S) /\ Listed(ht, S)
      /\ ht.entry_count = Cardinality(S) /\ S \in SUBSET Bucket
  BY DEF TableInv, Allocated
<1>2. CASE ~(ht.longest_bucket_string > ht.threshold /\ CanGrow(ht))
  <2>1. Grow(ht) = ht
    BY <1>2 DEF Grow
  <2>2. SameEntries(ht, ht)
    BY DEF SameEntries
  <2> QED BY <2>1, <2>2
<1>3. CASE ht.longest_bucket_string > ht.threshold /\ CanGrow(ht)
  <2> DEFINE n == NextHigherPrime(Biggest(ht))
             new == Resize(ht, n)
  <2>1. n \in Nat \ {0}
    BY PrimeType
  <2> HIDE DEF n, S
  <2>2. /\ new \in Tables /\ new.size = n /\ Rechained(ht, new)
        /\ \A b \in Bucket \ S : new.bucket[b] = ht.bucket[b]
        /\ Chained(new, S)
    BY <1>1, <2>1, Resized
  <2> HIDE DEF new
  <2>3. Grow(ht) = IF new.longest_bucket_string > new.threshold
                   THEN Raise(new, new.longest_bucket_string + 3) ELSE new
    BY <1>3 DEF Grow, Raise, new, n
  <2>4. Listed(new, S)
    BY <1>1, <2>2, ListedFrame DEF Rechained
  <2>5. SameEntries(ht, new) /\ Keyed(new, Allocated(new))
    BY <1>1, <2>2, AllocatedByName DEF Rechained, S
  <2>6. TableInv(new)
    <3>1. Allocated(new) = S
      BY <2>5 DEF SameEntries, S
    <3>2. new.entry_count = Cardinality(S)
      BY <1>1, <2>2 DEF Rechained
    <3> QED BY <2>2, <2>4, <2>5, <3>1, <3>2 DEF TableInv
  <2>7. CASE ~(new.longest_bucket_string > new.threshold)
    BY <2>3, <2>5, <2>6, <2>7
  <2>8. CASE new.longest_bucket_string > new.threshold
    <3> DEFINE v == new.longest_bucket_string + 3
               t == Raise(new, v)
    <3>1. v \in Nat /\ new.longest_bucket_string \in Int /\ v > new.longest_bucket_string
      <4>1. new.longest_bucket_string \in Int /\ new.threshold \in Nat
        BY <2>2 DEF Tables
      <4> QED BY <2>8, <4>1
    <3>2. Grow(ht) = t
      BY <2>3, <2>8
    <3> HIDE DEF v
    <3>3. /\ t \in Tables /\ t.size = new.size /\ t.table = new.table /\ t.counts = new.counts
          /\ t.all_list = new.all_list /\ t.all_last = new.all_last /\ t.threshold = v
          /\ t.longest_bucket_string = new.longest_bucket_string
          /\ t.entry_count = new.entry_count /\ t.bucket = new.bucket
      BY <2>2, <3>1, Raised
    <3> HIDE DEF t
    <3>4. Allocated(t) = Allocated(new)
      BY <3>3 DEF Allocated
    <3>5. SameEntries(ht, t) /\ Keyed(t, Allocated(t))
      BY <2>5, <3>3, <3>4 DEF SameEntries, Keyed
    <3>6. Allocated(new) \in SUBSET Bucket /\ Chained(new, Allocated(new)) /\ Listed(new, Allocated(new))
          /\ new.entry_count = Cardinality(Allocated(new))
      BY <2>6 DEF TableInv, Allocated
    <3>7. Chained(t, Allocated(new))
      <4>1. new.longest_bucket_string <= t.longest_bucket_string
        BY <3>1, <3>3
      <4> QED BY <2>2, <3>3, <3>6, <4>1, ChainedFrame
    <3>8. Listed(t, Allocated(new))
      BY <2>2, <3>3, <3>6, ListedFrame
    <3>9. TableInv(t)
      BY <3>3, <3>4, <3>5, <3>6, <3>7, <3>8 DEF TableInv
    <3> QED BY <3>2, <3>5, <3>9
  <2> QED BY <2>7, <2>8
<1> QED BY <1>2, <1>3

-----------------------------------------------------------------------------
(* What a table holds.                                                     *)

LEMMA ContentsIs ==
    ASSUME NEW ht, TableInv(ht)
    PROVE  /\ DOMAIN Contents(ht) = {ht.bucket[b].name : b \in Allocated(ht)}
           /\ DOMAIN Contents(ht) \subseteq Key
           /\ \A b \in Allocated(ht) : Contents(ht)[ht.bucket[b].name] = ht.bucket[b].item
           /\ Contents(ht) = [k \in DOMAIN Contents(ht) |-> Contents(ht)[k]]
<1> DEFINE keys == {k \in Key : Lookup(ht, k) # NoItem}
<1>1. Contents(ht) = [k \in keys |-> Lookup(ht, k)]
  BY DEF Contents
<1>2. \A b \in Allocated(ht) : ht.bucket[b].name \in Key /\ ht.bucket[b].item \in Group
  BY DEF TableInv, Keyed
<1>3. \A b \in Allocated(ht) : Lookup(ht, ht.bucket[b].name) = ht.bucket[b].item
  BY <1>2, LookupIs
<1>4. \A k \in Key : Lookup(ht, k) # NoItem => \E b \in Allocated(ht) : ht.bucket[b].name = k
  BY LookupIs
<1>5. \A b \in Allocated(ht) : ht.bucket[b].name \in keys
  BY <1>2, <1>3, StoreAssumption
<1>6. keys = {ht.bucket[b].name : b \in Allocated(ht)}
  BY <1>4, <1>5
<1> HIDE DEF keys
<1> QED BY <1>1, <1>2, <1>3, <1>5, <1>6

\* The same entries are the same contents, whatever chains they are in.
LEMMA SameContents ==
    ASSUME NEW ht, NEW t, TableInv(ht), TableInv(t), SameEntries(ht, t)
    PROVE  Contents(t) = Contents(ht)
<1>1. DOMAIN Contents(t) = DOMAIN Contents(ht)
  BY ContentsIs DEF SameEntries
<1>2. ASSUME NEW k \in DOMAIN Contents(ht) PROVE Contents(t)[k] = Contents(ht)[k]
  <2>1. PICK b \in Allocated(ht) : k = ht.bucket[b].name
    <3>1. k \in {ht.bucket[b].name : b \in Allocated(ht)}
      BY ContentsIs
    <3> QED BY <3>1
  <2>2. b \in Allocated(t) /\ k = t.bucket[b].name /\ t.bucket[b].item = ht.bucket[b].item
    BY <2>1 DEF SameEntries
  <2>3. Contents(ht)[k] = ht.bucket[b].item
    BY <2>1, ContentsIs
  <2>4. Contents(t)[k] = t.bucket[b].item
    BY <2>2, ContentsIs
  <2> QED BY <2>2, <2>3, <2>4
<1> QED BY <1>1, <1>2, ContentsIs

\* There is a bucket for a key that has none.
LEMMA FreeBucket ==
    ASSUME NEW ht, TableInv(ht), NEW name \in Key, \A b \in Allocated(ht) : ht.bucket[b].name # name
    PROVE  {x \in Bucket : ht.bucket[x] = Freed} # {}
<1> SUFFICES ASSUME Allocated(ht) = Bucket PROVE FALSE
  BY DEF Allocated
<1> DEFINE f == [b \in Bucket |-> ht.bucket[b].name]
<1>1. Keyed(ht, Bucket)
  BY DEF TableInv
<1>2. f \in [Bucket -> Key \ {name}] /\ \A b, c \in Bucket : f[b] = f[c] => b = c
  BY <1>1 DEF Keyed
<1>3. f \in Injection(Bucket, Key \ {name})
  BY <1>2 DEF Injection, IsInjective
<1> HIDE DEF f
<1>5. IsFiniteSet(Key) /\ Cardinality(Key) <= MaxBuckets
  BY HashAssumption
<1>6. IsFiniteSet(Key \ {name}) /\ Cardinality(Key \ {name}) = Cardinality(Key) - 1
  BY <1>5, FS_RemoveElement
<1>7. Cardinality(Bucket) <= Cardinality(Key \ {name})
  BY <1>3, <1>6, FS_Injection
<1>8. Cardinality(Key) \in Nat
  BY <1>5, FS_CardinalityType
<1> QED BY <1>5, <1>6, <1>7, <1>8, BucketsAreNumbers

\* A new table is sound and empty.
LEMMA CreatedTable ==
    ASSUME NEW n \in Nat \ {0}
    PROVE  TableInv(CreateTable(n)) /\ Contents(CreateTable(n)) = << >>
<1> DEFINE t == CreateTable(n)
           nulls == [h \in 0..(n - 1) |-> Null]
           zeros == [h \in 0..(n - 1) |-> 0]
           none == [b \in Bucket |-> Freed]
<1>1. t = [size |-> n, table |-> nulls, counts |-> zeros, all_list |-> Null, all_last |-> Null,
           threshold |-> Threshold, longest_bucket_string |-> 0, entry_count |-> 0, bucket |-> none]
  BY DEF CreateTable
<1>2. nulls \in [0..(n - 1) -> BucketOrNull] /\ zeros \in [0..(n - 1) -> Int]
  BY DEF BucketOrNull
<1>3. \A h \in 0..(n - 1) : nulls[h] = Null /\ zeros[h] = 0
  OBVIOUS
<1>4. none \in [Bucket -> BucketRecord] /\ \A b \in Bucket : none[b] = Freed
  BY FreedIsBucket
<1> HIDE DEF t, nulls, zeros, none
<1>5. nulls \in Arrays(BucketOrNull) /\ zeros \in Arrays(Int)
  BY <1>2 DEF Arrays
<1>6. Threshold \in Nat
  BY HashAssumption
<1>7. t \in [size : Nat \ {0}, table : Arrays(BucketOrNull), counts : Arrays(Int),
            all_list : BucketOrNull, all_last : BucketOrNull, threshold : Nat,
            longest_bucket_string : Int, entry_count : Int, bucket : [Bucket -> BucketRecord]]
  BY <1>1, <1>4, <1>5, <1>6, FreedIsBucket
<1>8. t \in Tables
  BY <1>1, <1>2, <1>7 DEF Tables
<1>9. Allocated(t) = {}
  BY <1>1, <1>4 DEF Allocated
<1>10. Keyed(t, {})
  BY DEF Keyed
<1>11. Chained(t, {})
  <2> SUFFICES ASSUME NEW h \in 0..(t.size - 1)
               PROVE  /\ IsList(Nexts(t), t.table[h], Chain(t, h))
                      /\ Range(Chain(t, h)) = {}
                      /\ t.counts[h] = Len(Chain(t, h)) /\ t.counts[h] <= t.longest_bucket_string
    BY DEF Chained
  <2>1. t.table[h] = Null /\ t.counts[h] = 0
    BY <1>1, <1>3
  <2>2. Chain(t, h) = << >> /\ IsList(Nexts(t), Null, << >>) /\ Range(<< >>) = {}
    BY <2>1, EmptyList DEF Chain
  <2> QED BY <1>1, <2>1, <2>2
<1>12. Listed(t, {})
  <2>1. t.all_list = Null /\ t.all_last = Null
    BY <1>1
  <2>2. AllList(t) = << >> /\ IsList(AllNexts(t), Null, << >>) /\ Range(<< >>) = {}
    BY <2>1, EmptyList DEF AllList
  <2> QED BY <2>1, <2>2 DEF Listed
<1>13. t.entry_count = Cardinality({})
  BY <1>1, FS_EmptySet
<1>14. TableInv(t)
  BY <1>8, <1>9, <1>10, <1>11, <1>12, <1>13 DEF TableInv
<1>16. Contents(t) = << >>
  <2>1. DOMAIN Contents(t) = {}
    BY <1>9, <1>14, ContentsIs
  <2> QED BY <1>14, <2>1, ContentsIs
<1> QED BY <1>14, <1>16 DEF t
-----------------------------------------------------------------------------
(* Entering.                                                               *)

Fill(ht, b, r, n) == [ht EXCEPT !.bucket[b] = r, !.entry_count = n]
Taken(name, oid) == [Freed EXCEPT !.name = name, !.item = oid]

\* A bucket that has just been taken is in no chain and no list.
LEMMA TakenFields ==
    ASSUME NEW name \in Key, NEW oid \in Group
    PROVE  /\ Taken(name, oid) \in BucketRecord
           /\ Taken(name, oid).name = name /\ Taken(name, oid).item = oid
           /\ Taken(name, oid).next = Null /\ Freed.next = Null
           /\ Taken(name, oid).all_next = Null /\ Freed.all_next = Null
           /\ Taken(name, oid).all_prev = Null /\ Freed.all_prev = Null
BY DEF Taken, Freed, BucketRecord, BucketOrNull, Items

\* Filling a bucket changes nothing else.
LEMMA Filled ==
    ASSUME NEW ht \in Tables, NEW b \in Bucket, NEW r \in BucketRecord, NEW n \in Int
    PROVE  LET t == Fill(ht, b, r, n) IN
           /\ t \in Tables /\ t.size = ht.size /\ t.table = ht.table /\ t.counts = ht.counts
           /\ t.all_list = ht.all_list /\ t.all_last = ht.all_last /\ t.threshold = ht.threshold
           /\ t.longest_bucket_string = ht.longest_bucket_string
           /\ t.entry_count = n /\ t.bucket[b] = r
           /\ \A x \in Bucket \ {b} : t.bucket[x] = ht.bucket[x]
<1> DEFINE t == Fill(ht, b, r, n)
<1> USE DEF Fill
<1>1. ht \in [size : Nat \ {0}, table : Arrays(BucketOrNull), counts : Arrays(Int),
            all_list : BucketOrNull, all_last : BucketOrNull, threshold : Nat,
            longest_bucket_string : Int, entry_count : Int, bucket : [Bucket -> BucketRecord]]
      /\ ht.table \in [0..(ht.size - 1) -> BucketOrNull]
      /\ ht.counts \in [0..(ht.size - 1) -> Int]
  BY DEF Tables
<1>2. /\ t.size = ht.size /\ t.table = ht.table /\ t.counts = ht.counts
      /\ t.all_list = ht.all_list /\ t.all_last = ht.all_last /\ t.threshold = ht.threshold
      /\ t.longest_bucket_string = ht.longest_bucket_string
      /\ t.entry_count = n /\ t.bucket = [ht.bucket EXCEPT ![b] = r]
  BY <1>1
<1>3. t.bucket \in [Bucket -> BucketRecord] /\ t.bucket[b] = r
      /\ \A x \in Bucket \ {b} : t.bucket[x] = ht.bucket[x]
  <2> HIDE DEF t
  <2>1. ht.bucket \in [Bucket -> BucketRecord]
    BY <1>1
  <2> QED BY <1>2, <2>1
<1>4. t \in [size : Nat \ {0}, table : Arrays(BucketOrNull), counts : Arrays(Int),
            all_list : BucketOrNull, all_last : BucketOrNull, threshold : Nat,
            longest_bucket_string : Int, entry_count : Int, bucket : [Bucket -> BucketRecord]]
  BY <1>1, <1>2, <1>3
<1> HIDE DEF t
<1>5. t \in Tables
  BY <1>1, <1>2, <1>4 DEF Tables
<1> QED BY <1>2, <1>3, <1>5 DEF t

\* A bucket that is linked to the chains and to the list of all buckets.
Linking(ht, b, r) == LinkAll(LinkChain(Fill(ht, b, r, ht.entry_count + 1), b), b)

\* Linking a bucket that has been filled keeps the table's invariant and adds it to the
\* allocated ones.
LEMMA LinkingKeeps ==
    ASSUME NEW ht, TableInv(ht), NEW name \in Key, NEW oid \in Group,
           \A b \in Allocated(ht) : ht.bucket[b].name # name,
           NEW b \in Bucket, ht.bucket[b] = Freed
    PROVE  LET t == Linking(ht, b, Taken(name, oid)) IN
           /\ TableInv(t) /\ Allocated(t) = Allocated(ht) \cup {b}
           /\ t.bucket[b].name = name /\ t.bucket[b].item = oid
           /\ \A x \in Allocated(ht) :
                 t.bucket[x].name = ht.bucket[x].name /\ t.bucket[x].item = ht.bucket[x].item
<1> DEFINE S == Allocated(ht)
           r == Taken(name, oid)
           new == Fill(ht, b, r, ht.entry_count + 1)
           c == LinkChain(new, b)
           t == LinkAll(c, b)
<1>1. /\ ht \in Tables /\ Keyed(ht, S) /\ Chained(ht, S) /\ Listed(ht, S)
      /\ ht.entry_count = Cardinality(S) /\ S \in SUBSET Bucket /\ b \notin S
      /\ \A x \in Bucket \ S : ht.bucket[x] = Freed
  BY DEF TableInv, Allocated
<1>2. /\ r \in BucketRecord /\ r.name = name /\ r.item = oid
      /\ r.next = Null /\ r.all_next = Null /\ r.all_prev = Null
      /\ ht.bucket[b].next = Null /\ ht.bucket[b].all_next = Null /\ ht.bucket[b].all_prev = Null
  BY TakenFields
<1> HIDE DEF r, S
<1>3. ht.entry_count \in Int /\ ht.entry_count + 1 \in Int
  BY <1>1 DEF Tables
<1>4. /\ new \in Tables /\ new.size = ht.size /\ new.table = ht.table /\ new.counts = ht.counts
      /\ new.all_list = ht.all_list /\ new.all_last = ht.all_last /\ new.threshold = ht.threshold
      /\ new.longest_bucket_string = ht.longest_bucket_string
      /\ new.entry_count = ht.entry_count + 1 /\ new.bucket[b] = r
      /\ \A x \in Bucket \ {b} : new.bucket[x] = ht.bucket[x]
  BY <1>1, <1>2, <1>3, Filled
<1> HIDE DEF new
<1>5. /\ \A x \in Bucket : /\ new.bucket[x].next = ht.bucket[x].next
                           /\ new.bucket[x].all_next = ht.bucket[x].all_next
                           /\ new.bucket[x].all_prev = ht.bucket[x].all_prev
      /\ \A x \in S : new.bucket[x] = ht.bucket[x]
  BY <1>1, <1>2, <1>4
<1>6. Chained(new, S)
  <2>1. ht.longest_bucket_string <= new.longest_bucket_string
    BY <1>1, <1>4 DEF Tables
  <2>2. \A x \in S : new.bucket[x].name = ht.bucket[x].name
    BY <1>5
  <2> QED BY <1>1, <1>4, <1>5, <2>1, <2>2, ChainedFrame
<1>7. Listed(new, S)
  BY <1>1, <1>4, <1>5, ListedFrame
<1>8. \A x \in S : new.bucket[x].name \in Key
  BY <1>1, <1>5 DEF Keyed
<1>9. new.bucket[b].name \in Key
  BY <1>2, <1>4
<1>10. c \in Tables
  BY <1>4, <1>9, LinkChainFields
<1>11. Rechained(new, c) /\ \A x \in Bucket \ {b} : c.bucket[x] = new.bucket[x]
  BY <1>4, <1>9, LinkChainRechains
<1>12. Chained(c, S \cup {b})
  BY <1>1, <1>4, <1>6, <1>8, <1>9, LinkChainChained
<1> HIDE DEF c
<1>13. Listed(c, S)
  BY <1>1, <1>4, <1>7, <1>10, <1>11, ListedFrame DEF Rechained
<1>14. c.bucket[b].all_next = Null /\ c.bucket[b].all_prev = Null
  BY <1>2, <1>4, <1>11 DEF Rechained
<1>15. t \in Tables /\ Relisted(c, t) /\ \A x \in Bucket : x \notin S \cup {b} => t.bucket[x] = c.bucket[x]
  BY <1>1, <1>10, <1>13, <1>14, LinkAllFields
<1>16. Listed(t, S \cup {b})
  BY <1>1, <1>10, <1>13, <1>14, LinkAllListed
<1> HIDE DEF t
<1>17. Chained(t, S \cup {b})
  <2>1. c.longest_bucket_string <= t.longest_bucket_string
    BY <1>10, <1>15 DEF Tables, Relisted
  <2>2. S \cup {b} \in SUBSET Bucket
    BY <1>1
  <2>3. /\ t.size = c.size /\ t.table = c.table /\ t.counts = c.counts
        /\ \A x \in Bucket : t.bucket[x].next = c.bucket[x].next /\ t.bucket[x].name = c.bucket[x].name
    BY <1>15 DEF Relisted
  <2> QED BY <1>10, <1>12, <1>15, <2>1, <2>2, <2>3, ChainedFrame
<1>18. /\ t.bucket[b].name = name /\ t.bucket[b].item = oid
       /\ \A x \in S : t.bucket[x].name = ht.bucket[x].name /\ t.bucket[x].item = ht.bucket[x].item
  BY <1>1, <1>2, <1>4, <1>5, <1>11, <1>15 DEF Rechained, Relisted
<1>19. Allocated(t) = S \cup {b}
  <2>1. \A x \in Bucket \ (S \cup {b}) : t.bucket[x] = Freed
    BY <1>1, <1>4, <1>11, <1>15
  <2>2. \A x \in S \cup {b} : t.bucket[x].name \in Key
    BY <1>1, <1>18 DEF Keyed
  <2>3. Freed.name = NoKey /\ NoKey \notin Key
    BY HashAssumption DEF Freed
  <2>4. \A x \in S \cup {b} : x \in Bucket /\ t.bucket[x] # Freed
    BY <1>1, <2>2, <2>3
  <2> QED BY <2>1, <2>4 DEF Allocated
<1>20. Keyed(t, S \cup {b})
  BY <1>1, <1>18 DEF Keyed, S
<1>21. t.entry_count = Cardinality(S \cup {b})
  <2>1. IsFiniteSet(S)
    BY <1>1, BucketsAreNumbers, FS_Subset
  <2>2. Cardinality(S \cup {b}) = Cardinality(S) + 1
    BY <1>1, <2>1, FS_AddElement
  <2> QED BY <1>1, <1>4, <1>11, <1>15, <2>2 DEF Rechained, Relisted
<1>22. TableInv(t)
  BY <1>15, <1>16, <1>17, <1>19, <1>20, <1>21 DEF TableInv
<1>23. Linking(ht, b, r) = t
  BY DEF Linking, t, c, new
<1> QED BY <1>18, <1>19, <1>22, <1>23 DEF r, S

\* Entering gives the key to the group if no other one has it.
LEMMA EnterKeeps ==
    ASSUME NEW ht, TableInv(ht), NEW name \in Key, NEW oid \in Group
    PROVE  TableInv(Enter(ht, name, oid))
           /\ Contents(Enter(ht, name, oid)) = GiveIfFree(Contents(ht), {name}, oid)
<1>1. TableInv(ht)
  OBVIOUS
<1>2. name # NoKey
  BY HashAssumption
<1>3. CASE \E b \in Allocated(ht) : ht.bucket[b].name = name
  <2>1. PICK b \in Allocated(ht) : ht.bucket[b].name = name
    BY <1>3
  <2>2. Find(ht, name) = b /\ b # Null
    BY <1>1, <2>1, LookupIs, BucketsAreNumbers DEF Allocated
  <2>3. Enter(ht, name, oid) = ht
    BY <2>2 DEF Enter
  <2>4. name \in DOMAIN Contents(ht)
    <3>1. DOMAIN Contents(ht) = {ht.bucket[x].name : x \in Allocated(ht)}
      BY <1>1, ContentsIs
    <3> QED BY <2>1, <3>1
  <2>5. GiveIfFree(Contents(ht), {name}, oid) = [k \in DOMAIN Contents(ht) |-> Contents(ht)[k]]
    BY <2>4 DEF GiveIfFree, Give
  <2>6. GiveIfFree(Contents(ht), {name}, oid) = Contents(ht)
    BY <1>1, <2>5, ContentsIs
  <2> QED BY <2>3, <2>6
<1>4. CASE \A b \in Allocated(ht) : ht.bucket[b].name # name
  <2> DEFINE free == {x \in Bucket : ht.bucket[x] = Freed}
             b == Min(free)
             t == Linking(ht, b, Taken(name, oid))
  <2>1. free # {} /\ free \subseteq Nat
    BY <1>1, <1>4, FreeBucket, BucketsAreNumbers
  <2>2. b \in free
    <3> HIDE DEF free
    <3> QED BY <2>1, MinOf
  <2>3. b \in Bucket /\ ht.bucket[b] = Freed
    BY <2>2
  <2>4. Find(ht, name) = Null
    BY <1>1, <1>4, LookupIs
  <2>5. Enter(ht, name, oid) = Grow(t)
    BY <1>2, <2>4 DEF Enter, Linking, Fill, Taken
  <2> HIDE DEF b, free
  <2>6. /\ TableInv(t) /\ Allocated(t) = Allocated(ht) \cup {b}
        /\ t.bucket[b].name = name /\ t.bucket[b].item = oid
        /\ \A x \in Allocated(ht) :
              t.bucket[x].name = ht.bucket[x].name /\ t.bucket[x].item = ht.bucket[x].item
    BY <1>1, <1>4, <2>3, LinkingKeeps
  <2> HIDE DEF t
  <2>7. TableInv(Grow(t)) /\ SameEntries(t, Grow(t))
    BY <2>6, GrowKeeps
  <2>8. Contents(Grow(t)) = Contents(t)
    BY <2>6, <2>7, SameContents
  <2> DEFINE f == Contents(ht)
             g == Contents(t)
  <2>9. /\ DOMAIN f = {ht.bucket[x].name : x \in Allocated(ht)}
        /\ \A x \in Allocated(ht) : f[ht.bucket[x].name] = ht.bucket[x].item
    BY <1>1, ContentsIs
  <2>10. /\ DOMAIN g = {t.bucket[x].name : x \in Allocated(t)}
         /\ \A x \in Allocated(t) : g[t.bucket[x].name] = t.bucket[x].item
         /\ g = [k \in DOMAIN g |-> g[k]]
    BY <2>6, ContentsIs
  <2> HIDE DEF f, g
  <2>11. name \notin DOMAIN f
    BY <1>4, <2>9
  <2>12. DOMAIN g = DOMAIN f \cup {name}
    BY <2>6, <2>9, <2>10
  <2>13. g[name] = oid
    BY <2>6, <2>10
  <2>14. \A k \in DOMAIN f : g[k] = f[k]
    <3> SUFFICES ASSUME NEW k \in DOMAIN f PROVE g[k] = f[k]
      OBVIOUS
    <3>1. PICK x \in Allocated(ht) : k = ht.bucket[x].name
      BY <2>9
    <3> QED BY <2>6, <2>9, <2>10, <3>1
  <2>15. GiveIfFree(f, {name}, oid) = [k \in DOMAIN f \cup {name} |-> IF k = name THEN oid ELSE f[k]]
    BY <2>11 DEF GiveIfFree, Give
  <2>16. g = GiveIfFree(f, {name}, oid)
    BY <2>10, <2>11, <2>12, <2>13, <2>14, <2>15
  <2> QED BY <2>5, <2>7, <2>8, <2>16 DEF f, g
<1> QED BY <1>3, <1>4
-----------------------------------------------------------------------------
(* Deleting.                                                               *)

\* Where b is in the list of all buckets, and what its links say of that.
LEMMA PlaceInList ==
    ASSUME NEW ht \in Tables, NEW S \in SUBSET Bucket, Listed(ht, S), NEW p \in 1..Len(AllList(ht))
    PROVE  LET all == AllList(ht)
               b == all[p]
               prev == ht.bucket[b].all_prev
               next == ht.bucket[b].all_next IN
           /\ b \in S
           /\ prev = IF p = 1 THEN Null ELSE all[p - 1]
           /\ next = IF p = Len(all) THEN Null ELSE all[p + 1]
           /\ (ht.all_list = b) = (p = 1) /\ (ht.all_last = b) = (p = Len(all))
           /\ (prev = Null) = (p = 1)
           /\ prev \in BucketOrNull /\ next \in BucketOrNull
           /\ p # 1 => prev \in S /\ prev # b
           /\ p # Len(all) => next \in S /\ next # b
<1> DEFINE all == AllList(ht)
           b == all[p]
           prev == ht.bucket[b].all_prev
           next == ht.bucket[b].all_next
<1>1. /\ IsList(AllNexts(ht), ht.all_list, all) /\ Range(all) = S
      /\ ht.all_last = IF Len(all) = 0 THEN Null ELSE all[Len(all)]
      /\ \A k \in 1..Len(all) :
            ht.bucket[all[k]].all_prev = IF k = 1 THEN Null ELSE all[k - 1]
  BY DEF Listed
<1>2. /\ all \in Seq(Bucket) /\ Injective(all) /\ Len(all) \in Nat /\ DOMAIN all = 1..Len(all)
      /\ ht.all_list = IF Len(all) = 0 THEN Null ELSE all[1]
      /\ \A k \in 1..Len(all) : AllNexts(ht)[all[k]] = IF k = Len(all) THEN Null ELSE all[k + 1]
  BY <1>1 DEF IsList
<1>3. \A k \in 1..Len(all) : all[k] \in S /\ all[k] \in Bucket /\ all[k] # Null
  BY <1>1, <1>2, BucketsAreNumbers DEF Range
<1>4. AllNexts(ht)[b] = next
  BY <1>3 DEF AllNexts
<1>5. \A j, k \in 1..Len(all) : all[j] = all[k] => j = k
  BY <1>2 DEF Injective
<1>0. p \in 1..Len(all)
  OBVIOUS
<1> HIDE DEF all
<1>6. /\ prev = IF p = 1 THEN Null ELSE all[p - 1]
      /\ next = IF p = Len(all) THEN Null ELSE all[p + 1]
  BY <1>1, <1>2, <1>4 DEF all
<1>7. /\ 1 \in 1..Len(all) /\ Len(all) \in 1..Len(all) /\ p \in 1..Len(all) /\ Len(all) # 0
      /\ p # 1 => p - 1 \in 1..Len(all) /\ p - 1 # p
      /\ p # Len(all) => p + 1 \in 1..Len(all) /\ p + 1 # p
  <2>1. Len(all) \in Nat
    BY <1>2
  <2> QED BY <1>0, <2>1
<1>8. (ht.all_list = b) = (p = 1)
  BY <1>2, <1>5, <1>7
<1>9. (ht.all_last = b) = (p = Len(all))
  BY <1>1, <1>5, <1>7
<1>10. p # 1 => prev \in S /\ prev # b /\ prev # Null /\ prev \in Bucket
  BY <1>3, <1>5, <1>6, <1>7
<1>11. p # Len(all) => next \in S /\ next # b /\ next \in Bucket
  BY <1>3, <1>5, <1>6, <1>7
<1>12. b \in S
  BY <1>3, <1>7
<1> HIDE DEF b, prev, next
<1>13. (prev = Null) = (p = 1)
  BY <1>6, <1>10
<1>14. prev \in BucketOrNull
  BY <1>6, <1>10 DEF BucketOrNull
<1>15. next \in BucketOrNull
  BY <1>6, <1>11 DEF BucketOrNull
<1> QED BY <1>6, <1>8, <1>9, <1>10, <1>11, <1>12, <1>13, <1>14, <1>15 DEF all, b, prev, next

\* What UnlinkAll changes, in one formula for its four cases.
LEMMA UnlinkAllFields ==
    ASSUME NEW ht \in Tables, NEW S \in SUBSET Bucket, Listed(ht, S), NEW p \in 1..Len(AllList(ht)),
           NEW b, b = AllList(ht)[p]
    PROVE  LET t == UnlinkAll(ht, b)
               prev == ht.bucket[b].all_prev
               next == ht.bucket[b].all_next IN
           /\ t \in Tables /\ Relisted(ht, t)
           /\ t.all_list = IF p = 1 THEN next ELSE ht.all_list
           /\ t.all_last = IF p = Len(AllList(ht)) THEN prev ELSE ht.all_last
           /\ \A x \in Bucket :
                 /\ t.bucket[x].all_next = IF p # 1 /\ x = prev THEN next ELSE ht.bucket[x].all_next
                 /\ t.bucket[x].all_prev = IF p # Len(AllList(ht)) /\ x = next THEN prev
                                           ELSE ht.bucket[x].all_prev
                 /\ x \notin S => t.bucket[x] = ht.bucket[x]
<1> DEFINE t == UnlinkAll(ht, b)
           m == Len(AllList(ht))
           prev == ht.bucket[b].all_prev
           next == ht.bucket[b].all_next
<1>1. /\ prev = IF p = 1 THEN Null ELSE AllList(ht)[p - 1]
      /\ next = IF p = m THEN Null ELSE AllList(ht)[p + 1]
      /\ (ht.all_list = b) = (p = 1) /\ (ht.all_last = b) = (p = m)
      /\ (prev = Null) = (p = 1)
      /\ prev \in BucketOrNull /\ next \in BucketOrNull
      /\ p # 1 => prev \in S /\ prev # b
      /\ p # m => next \in S /\ next # b
  BY PlaceInList
<1>2. ht.bucket \in [Bucket -> BucketRecord] /\ ht.all_list \in BucketOrNull
      /\ ht.all_last \in BucketOrNull /\ Null \in BucketOrNull
  BY DEF Tables, BucketOrNull
<1>3. t = IF ht.all_last = b /\ ht.all_list = b THEN [ht EXCEPT !.all_last = Null, !.all_list = Null]
          ELSE IF ht.all_last = b THEN [ht EXCEPT !.bucket[prev].all_next = Null, !.all_last = prev]
          ELSE IF prev = Null THEN [ht EXCEPT !.all_list = next, !.bucket[next].all_prev = Null]
          ELSE [ht EXCEPT !.bucket[next].all_prev = prev, !.bucket[prev].all_next = next]
  BY DEF UnlinkAll
<1> HIDE DEF t, m, prev, next
<1>4. CASE p = 1 /\ p = m
  <2>1. t = Relist(ht, Null, Null, ht.bucket)
    BY <1>1, <1>3, <1>4 DEF Tables, Relist
  <2>2. t \in Tables /\ Relisted(ht, t) /\ t.all_list = Null /\ t.all_last = Null /\ t.bucket = ht.bucket
    BY <1>2, <2>1, TablesRelisted
  <2> QED BY <1>1, <1>4, <2>2 DEF t, m, prev, next
<1>5. CASE p # 1 /\ p = m
  <2> DEFINE f == SetAllNext(ht.bucket, prev, Null)
  <2>1. t = Relist(ht, ht.all_list, prev, f)
    BY <1>1, <1>3, <1>5 DEF Tables, Relist, SetAllNext
  <2>2. /\ f \in [Bucket -> BucketRecord]
        /\ \A x \in Bucket :
              /\ f[x].all_next = IF x = prev THEN Null ELSE ht.bucket[x].all_next
              /\ f[x].next = ht.bucket[x].next /\ f[x].all_prev = ht.bucket[x].all_prev
              /\ f[x].name = ht.bucket[x].name /\ f[x].item = ht.bucket[x].item
              /\ x # prev => f[x] = ht.bucket[x]
    BY <1>1, <1>2, <1>5, FieldsOfBucket
  <2> HIDE DEF f
  <2>3. t \in Tables /\ Relisted(ht, t) /\ t.all_list = ht.all_list /\ t.all_last = prev /\ t.bucket = f
    BY <1>1, <1>2, <2>1, <2>2, TablesRelisted
  <2> QED BY <1>1, <1>5, <2>2, <2>3 DEF t, m, prev, next
<1>6. CASE p = 1 /\ p # m
  <2> DEFINE f == SetAllPrev(ht.bucket, next, Null)
  <2>1. t = Relist(ht, next, ht.all_last, f)
    BY <1>1, <1>3, <1>6 DEF Tables, Relist, SetAllPrev
  <2>2. /\ f \in [Bucket -> BucketRecord]
        /\ \A x \in Bucket :
              /\ f[x].all_prev = IF x = next THEN Null ELSE ht.bucket[x].all_prev
              /\ f[x].next = ht.bucket[x].next /\ f[x].all_next = ht.bucket[x].all_next
              /\ f[x].name = ht.bucket[x].name /\ f[x].item = ht.bucket[x].item
              /\ x # next => f[x] = ht.bucket[x]
    BY <1>1, <1>2, <1>6, FieldsOfBucket
  <2> HIDE DEF f
  <2>3. t \in Tables /\ Relisted(ht, t) /\ t.all_list = next /\ t.all_last = ht.all_last /\ t.bucket = f
    BY <1>1, <1>2, <2>1, <2>2, TablesRelisted
  <2> QED BY <1>1, <1>6, <2>2, <2>3 DEF t, m, prev, next
<1>7. CASE p # 1 /\ p # m
  <2> DEFINE f == SetAllPrev(ht.bucket, next, prev)
             g == SetAllNext(f, prev, next)
  <2>1. t = Relist(ht, ht.all_list, ht.all_last, g)
    BY <1>1, <1>3, <1>7 DEF Tables, Relist, SetAllPrev, SetAllNext
  <2>2. /\ f \in [Bucket -> BucketRecord]
        /\ \A x \in Bucket :
              /\ f[x].all_prev = IF x = next THEN prev ELSE ht.bucket[x].all_prev
              /\ f[x].next = ht.bucket[x].next /\ f[x].all_next = ht.bucket[x].all_next
              /\ f[x].name = ht.bucket[x].name /\ f[x].item = ht.bucket[x].item
              /\ x # next => f[x] = ht.bucket[x]
    <3>1. next \in Bucket /\ prev \in BucketOrNull /\ ht.bucket \in [Bucket -> BucketRecord]
      BY <1>1, <1>2, <1>7
    <3> QED BY <3>1, FieldsOfBucket
  <2> HIDE DEF f
  <2>3. /\ g \in [Bucket -> BucketRecord]
        /\ \A x \in Bucket :
              /\ g[x].all_next = IF x = prev THEN next ELSE f[x].all_next
              /\ g[x].next = f[x].next /\ g[x].all_prev = f[x].all_prev
              /\ g[x].name = f[x].name /\ g[x].item = f[x].item
              /\ x # prev => g[x] = f[x]
    BY <1>1, <1>7, <2>2, FieldsOfBucket
  <2> HIDE DEF g
  <2>4. \A x \in Bucket : /\ g[x].name = ht.bucket[x].name /\ g[x].item = ht.bucket[x].item
                          /\ g[x].next = ht.bucket[x].next
    BY <2>2, <2>3
  <2>5. /\ t \in Tables /\ Relisted(ht, t)
        /\ t.all_list = ht.all_list /\ t.all_last = ht.all_last /\ t.bucket = g
    BY <1>2, <2>1, <2>3, <2>4, TablesRelisted
  <2>6. \A x \in Bucket :
           /\ g[x].all_next = IF x = prev THEN next ELSE ht.bucket[x].all_next
           /\ g[x].all_prev = IF x = next THEN prev ELSE ht.bucket[x].all_prev
           /\ x \notin S => g[x] = ht.bucket[x]
    BY <1>1, <1>7, <2>2, <2>3
  <2> QED BY <1>7, <2>5, <2>6 DEF t, m, prev, next
<1> QED BY <1>4, <1>5, <1>6, <1>7

\* UnlinkAll takes one bucket out of the list of all buckets.
LEMMA UnlinkAllListed ==
    ASSUME NEW ht \in Tables, NEW S \in SUBSET Bucket, Listed(ht, S), NEW b \in S
    PROVE  LET t == UnlinkAll(ht, b) IN
           /\ t \in Tables /\ Relisted(ht, t) /\ Listed(t, S \ {b})
           /\ \A x \in Bucket \ S : t.bucket[x] = ht.bucket[x]
<1> DEFINE t == UnlinkAll(ht, b)
           all == AllList(ht)
           m == Len(all)
           prev == ht.bucket[b].all_prev
           next == ht.bucket[b].all_next
<1>1. /\ IsList(AllNexts(ht), ht.all_list, all) /\ Range(all) = S
      /\ ht.all_last = IF m = 0 THEN Null ELSE all[m]
      /\ \A k \in 1..m :
            ht.bucket[all[k]].all_prev = IF k = 1 THEN Null ELSE all[k - 1]
  BY DEF Listed
<1>2. /\ all \in Seq(Bucket) /\ Injective(all) /\ m \in Nat /\ DOMAIN all = 1..m
      /\ ht.all_list = IF m = 0 THEN Null ELSE all[1]
      /\ \A k \in 1..m : all[k] \in Bucket
  BY <1>1 DEF IsList
<1>3. PICK p \in 1..m : b = all[p]
  BY <1>1, <1>2 DEF Range
<1>4. /\ prev = IF p = 1 THEN Null ELSE all[p - 1]
      /\ next = IF p = m THEN Null ELSE all[p + 1]
      /\ prev \in BucketOrNull /\ next \in BucketOrNull
  BY <1>3, PlaceInList
<1>5. /\ t \in Tables /\ Relisted(ht, t)
      /\ t.all_list = IF p = 1 THEN next ELSE ht.all_list
      /\ t.all_last = IF p = m THEN prev ELSE ht.all_last
      /\ \A x \in Bucket :
            /\ t.bucket[x].all_next = IF p # 1 /\ x = prev THEN next ELSE ht.bucket[x].all_next
            /\ t.bucket[x].all_prev = IF p # m /\ x = next THEN prev ELSE ht.bucket[x].all_prev
            /\ x \notin S => t.bucket[x] = ht.bucket[x]
  BY <1>3, UnlinkAllFields
<1>6. \A j, k \in 1..m : all[j] = all[k] => j = k
  BY <1>2 DEF Injective
<1> DEFINE new == Cut(all, p)
<1>7. /\ new \in Seq(Bucket) /\ Len(new) = m - 1 /\ Range(new) = S \ {b}
      /\ \A k \in 1..(m - 1) : new[k] = IF k < p THEN all[k] ELSE all[k + 1]
  <2>1. p \in DOMAIN all
    BY <1>2
  <2>2. new \in Seq(Bucket) /\ Len(new) = m - 1 /\ Range(new) = Range(all) \ {all[p]}
    BY <1>2, <2>1, CutIs
  <2> QED BY <1>1, <1>3, <2>2 DEF Cut
<1>8. AllNexts(ht)[all[p]] = next
  BY <1>2, <1>3 DEF AllNexts
<1> HIDE DEF t, all, m, prev, next, new
<1>9. IsList(AllNexts(t), t.all_list, new)
  <2> DEFINE c == t.all_list
  <2>1. c = IF p = 1 THEN AllNexts(ht)[all[p]] ELSE ht.all_list
    BY <1>5, <1>8
  <2>2. ASSUME NEW k \in 1..Len(all), k # p
        PROVE  AllNexts(t)[all[k]] = IF k + 1 = p THEN AllNexts(ht)[all[p]] ELSE AllNexts(ht)[all[k]]
    <3>1. k \in 1..m /\ all[k] \in Bucket
      BY <1>2 DEF m
    <3>2. AllNexts(t)[all[k]] = IF p # 1 /\ all[k] = prev THEN next ELSE AllNexts(ht)[all[k]]
      BY <1>5, <3>1 DEF AllNexts
    <3>3. (p # 1 /\ all[k] = prev) = (k + 1 = p)
      <4>1. CASE p = 1
        <5>1. k + 1 # p
          BY <3>1, <4>1
        <5> QED BY <4>1, <5>1
      <4>2. CASE p # 1
        <5>1. p - 1 \in 1..m /\ (k = p - 1) = (k + 1 = p)
          BY <1>2, <1>3, <3>1, <4>2
        <5>2. (all[k] = all[p - 1]) = (k = p - 1)
          BY <1>6, <3>1, <5>1
        <5> QED BY <1>4, <4>2, <5>1, <5>2
      <4> QED BY <4>1, <4>2
    <3> QED BY <1>8, <3>2, <3>3
  <2>3. p \in DOMAIN all
    BY <1>2, <1>3
  <2> HIDE DEF c
  <2>4. IsList(AllNexts(t), c, Cut(all, p))
    BY <1>1, <2>1, <2>2, <2>3, ListCut
  <2> QED BY <2>4 DEF c, new
<1>10. AllList(t) = new
  BY <1>9, LinkedIs DEF AllList
<1>11. t.all_last = IF Len(new) = 0 THEN Null ELSE new[Len(new)]
  <2>1. CASE p = m
    <3>1. t.all_last = IF p = 1 THEN Null ELSE all[p - 1]
      BY <1>4, <1>5, <2>1
    <3>2. (Len(new) = 0) = (p = 1)
      BY <1>2, <1>3, <1>7, <2>1
    <3>3. p # 1 => m - 1 \in 1..(m - 1) /\ m - 1 < p
      BY <1>2, <1>3, <2>1
    <3> QED BY <1>7, <2>1, <3>1, <3>2, <3>3
  <2>2. CASE p # m
    <3>1. m # 0 /\ m - 1 # 0 /\ m - 1 \in 1..(m - 1) /\ ~(m - 1 < p) /\ (m - 1) + 1 = m
      BY <1>2, <1>3, <2>2
    <3> QED BY <1>1, <1>5, <1>7, <2>2, <3>1
  <2> QED BY <2>1, <2>2
<1>12. ASSUME NEW k \in 1..Len(new)
       PROVE  t.bucket[new[k]].all_prev = IF k = 1 THEN Null ELSE new[k - 1]
  <2>1. k \in 1..(m - 1) /\ k \in 1..m /\ k + 1 \in 1..m /\ (k + 1) - 1 = k /\ k + 1 # 1
    BY <1>2, <1>7
  <2>2. \A j \in 1..m : t.bucket[all[j]].all_prev =
           IF p # m /\ all[j] = next THEN prev ELSE IF j = 1 THEN Null ELSE all[j - 1]
    BY <1>1, <1>2, <1>5
  <2>3. \A j \in 1..m : (p # m /\ all[j] = next) = (j = p + 1)
    <3> TAKE j \in 1..m
    <3>1. CASE p = m
      <4>1. j # p + 1
        BY <1>2, <3>1
      <4> QED BY <3>1, <4>1
    <3>2. CASE p # m
      <4>1. p + 1 \in 1..m
        BY <1>2, <1>3, <3>2
      <4> QED BY <1>4, <1>6, <3>2, <4>1
    <3> QED BY <3>1, <3>2
  <2>4. CASE k < p
    <3>1. k # p + 1 /\ (k # 1 => k - 1 \in 1..(m - 1) /\ k - 1 < p)
      BY <1>2, <1>3, <2>1, <2>4
    <3>2. new[k] = all[k] /\ (k # 1 => new[k - 1] = all[k - 1])
      BY <1>7, <2>1, <2>4, <3>1
    <3> QED BY <2>1, <2>2, <2>3, <3>1, <3>2
  <2>5. CASE k = p
    <3>1. ~(k < p) /\ k + 1 = p + 1 /\ (k # 1 => k - 1 \in 1..(m - 1) /\ k - 1 < p)
      BY <1>2, <1>3, <2>1, <2>5
    <3>2. new[k] = all[k + 1] /\ (k # 1 => new[k - 1] = all[k - 1])
      BY <1>7, <2>1, <3>1
    <3>3. t.bucket[new[k]].all_prev = prev
      BY <2>1, <2>2, <2>3, <3>1, <3>2
    <3> QED BY <1>4, <2>5, <3>2, <3>3
  <2>6. CASE k > p
    <3>1. ~(k < p) /\ k + 1 # p + 1 /\ k # 1 /\ k - 1 \in 1..(m - 1) /\ ~(k - 1 < p) /\ (k - 1) + 1 = k
      BY <1>2, <1>3, <2>1, <2>6
    <3>2. new[k] = all[k + 1] /\ new[k - 1] = all[k]
      BY <1>7, <2>1, <3>1
    <3> QED BY <2>1, <2>2, <2>3, <3>1, <3>2
  <2> QED BY <1>3, <2>1, <2>4, <2>5, <2>6
<1>13. Listed(t, S \ {b})
  BY <1>7, <1>9, <1>10, <1>11, <1>12 DEF Listed
<1> QED BY <1>5, <1>13 DEF t
Retable(ht, f, g) == [ht EXCEPT !.table = f, !.bucket = g]

\* Setting heads and links changes nothing else.
LEMMA TablesRetabled ==
    ASSUME NEW ht \in Tables, NEW f \in [0..(ht.size - 1) -> BucketOrNull],
           NEW g \in [Bucket -> BucketRecord]
    PROVE  LET t == Retable(ht, f, g) IN
           /\ t \in Tables /\ t.size = ht.size /\ t.table = f /\ t.counts = ht.counts
           /\ t.all_list = ht.all_list /\ t.all_last = ht.all_last /\ t.threshold = ht.threshold
           /\ t.longest_bucket_string = ht.longest_bucket_string
           /\ t.entry_count = ht.entry_count /\ t.bucket = g
<1> DEFINE t == Retable(ht, f, g)
<1> USE DEF Retable
<1>1. ht \in [size : Nat \ {0}, table : Arrays(BucketOrNull), counts : Arrays(Int),
            all_list : BucketOrNull, all_last : BucketOrNull, threshold : Nat,
            longest_bucket_string : Int, entry_count : Int, bucket : [Bucket -> BucketRecord]]
      /\ ht.counts \in [0..(ht.size - 1) -> Int]
  BY DEF Tables
<1>2. /\ t.size = ht.size /\ t.table = f /\ t.counts = ht.counts
      /\ t.all_list = ht.all_list /\ t.all_last = ht.all_last /\ t.threshold = ht.threshold
      /\ t.longest_bucket_string = ht.longest_bucket_string
      /\ t.entry_count = ht.entry_count /\ t.bucket = g
  BY <1>1
<1>3. f \in Arrays(BucketOrNull)
  BY <1>1 DEF Arrays
<1>4. t \in [size : Nat \ {0}, table : Arrays(BucketOrNull), counts : Arrays(Int),
            all_list : BucketOrNull, all_last : BucketOrNull, threshold : Nat,
            longest_bucket_string : Int, entry_count : Int, bucket : [Bucket -> BucketRecord]]
  BY <1>1, <1>3
<1> HIDE DEF t
<1>5. t \in Tables
  BY <1>1, <1>2, <1>4 DEF Tables
<1> QED BY <1>2, <1>5 DEF t

\* Where b is in its chain, and which bucket is before it.
LEMMA PlaceInChain ==
    ASSUME NEW ht \in Tables, NEW S \in SUBSET Bucket, Chained(ht, S),
           NEW b \in S, NEW h \in 0..(ht.size - 1), h = Hash(ht, ht.bucket[b].name)
    PROVE  \E p \in DOMAIN Chain(ht, h) :
              /\ Chain(ht, h)[p] = b
              /\ {c \in Range(Chain(ht, h)) : ht.bucket[c].next = b} =
                    IF p = 1 THEN {} ELSE {Chain(ht, h)[p - 1]}
<1> DEFINE s == Chain(ht, h)
           before == {c \in Range(s) : ht.bucket[c].next = b}
<1>1. IsList(Nexts(ht), ht.table[h], s) /\ b \in Range(s)
  BY DEF Chained
<1>2. /\ s \in Seq(Bucket) /\ Injective(s) /\ Len(s) \in Nat /\ DOMAIN s = 1..Len(s)
      /\ \A k \in 1..Len(s) : Nexts(ht)[s[k]] = IF k = Len(s) THEN Null ELSE s[k + 1]
  BY <1>1 DEF IsList
<1> HIDE DEF s
<1>0. s \in Seq(Bucket) /\ Len(s) \in Nat /\ DOMAIN s = 1..Len(s)
  BY <1>2
<1>3. PICK p \in 1..Len(s) : s[p] = b
  BY <1>0, <1>1 DEF Range
<1>4. \A k \in 1..Len(s) : s[k] \in Bucket /\ s[k] # Null
  BY <1>0, BucketsAreNumbers
<1>5. ASSUME NEW k \in 1..Len(s) PROVE (ht.bucket[s[k]].next = b) = (k + 1 = p)
  <2>1. ht.bucket[s[k]].next = IF k = Len(s) THEN Null ELSE s[k + 1]
    BY <1>2, <1>4 DEF Nexts
  <2>2. CASE k = Len(s)
    <3>1. k + 1 # p
      BY <1>0, <1>3, <2>2
    <3> QED BY <1>3, <1>4, <2>1, <2>2, <3>1
  <2>3. CASE k # Len(s)
    <3>1. Len(s) \in Nat /\ k \in 1..Len(s) /\ p \in 1..Len(s)
      BY <1>0
    <3>2. k + 1 \in 1..Len(s)
      BY <2>3, <3>1
    <3>3. k + 1 \in DOMAIN s /\ p \in DOMAIN s
      BY <1>0, <3>2
    <3> QED BY <1>2, <1>3, <2>1, <2>3, <3>3 DEF Injective
  <2> QED BY <2>2, <2>3
<1>6. before = IF p = 1 THEN {} ELSE {s[p - 1]}
  <2>1. Range(s) = {s[k] : k \in 1..Len(s)}
    BY <1>2 DEF Range
  <2>2. CASE p = 1
    <3>1. \A k \in 1..Len(s) : k + 1 # p
      BY <1>0, <2>2
    <3> QED BY <1>5, <2>1, <2>2, <3>1
  <2>3. CASE p # 1
    <3>1. p - 1 \in 1..Len(s) /\ (p - 1) + 1 = p /\ \A k \in 1..Len(s) : k + 1 = p => k = p - 1
      BY <1>0, <1>3, <2>3
    <3> QED BY <1>5, <2>1, <2>3, <3>1
  <2> QED BY <2>2, <2>3
<1>7. p \in DOMAIN s
  BY <1>2, <1>3
<1> QED BY <1>3, <1>6, <1>7 DEF s

\* The chains hold the buckets of S, but the count of chain h is still the old one.
Unchained(ht, S, h) ==
    \A k \in 0..(ht.size - 1) :
        /\ IsList(Nexts(ht), ht.table[k], Chain(ht, k))
        /\ Range(Chain(ht, k)) = {b \in S : Hash(ht, ht.bucket[b].name) = k}
        /\ ht.counts[k] = Len(Chain(ht, k)) + (IF k = h THEN 1 ELSE 0)
        /\ ht.counts[k] <= ht.longest_bucket_string

\* What UnlinkChain changes, in one formula for its two cases.
LEMMA UnlinkChainFields ==
    ASSUME NEW ht \in Tables, NEW S \in SUBSET Bucket, Chained(ht, S), NEW b \in S,
           NEW h \in 0..(ht.size - 1), h = Hash(ht, ht.bucket[b].name)
    PROVE  LET t == UnlinkChain(ht, b) IN
           /\ t \in Tables /\ Rechained(ht, t)
           /\ t.size = ht.size /\ t.counts = ht.counts
           /\ t.longest_bucket_string = ht.longest_bucket_string
           /\ \A x \in Bucket \ S : t.bucket[x] = ht.bucket[x]
           /\ \E p \in DOMAIN Chain(ht, h) :
                 /\ Chain(ht, h)[p] = b
                 /\ t.table = IF p = 1 THEN [ht.table EXCEPT ![h] = ht.bucket[b].next] ELSE ht.table
                 /\ \A x \in Bucket :
                       t.bucket[x].next = IF p # 1 /\ x = Chain(ht, h)[p - 1] THEN ht.bucket[b].next
                                          ELSE ht.bucket[x].next
<1> DEFINE t == UnlinkChain(ht, b)
           s == Chain(ht, h)
           next == ht.bucket[b].next
           before == {c \in Range(s) : ht.bucket[c].next = b}
<1>1. PICK p \in DOMAIN s : s[p] = b /\ before = IF p = 1 THEN {} ELSE {s[p - 1]}
  BY PlaceInChain
<1>2. /\ ht.bucket \in [Bucket -> BucketRecord] /\ ht.table \in [0..(ht.size - 1) -> BucketOrNull]
      /\ next \in BucketOrNull
  <2>1. ht.bucket \in [Bucket -> BucketRecord] /\ ht.table \in [0..(ht.size - 1) -> BucketOrNull]
    BY DEF Tables
  <2>2. ht.bucket[b] \in BucketRecord
    BY <2>1
  <2> QED BY <2>1, <2>2 DEF BucketRecord
<1>3. t = IF before = {} THEN [ht EXCEPT !.table[h] = next]
          ELSE [ht EXCEPT !.bucket[CHOOSE c \in before : TRUE].next = next]
  BY DEF UnlinkChain
<1>4. s \in Seq(Bucket) /\ Range(s) \subseteq S
  BY DEF Chained, IsList
<1> HIDE DEF t, s, next, before
<1>5. CASE p = 1
  <2> DEFINE f == [ht.table EXCEPT ![h] = next]
  <2>1. t = Retable(ht, f, ht.bucket)
    BY <1>1, <1>3, <1>5 DEF Tables, Retable
  <2>2. f \in [0..(ht.size - 1) -> BucketOrNull]
    BY <1>2
  <2> HIDE DEF f
  <2>3. /\ t \in Tables /\ t.size = ht.size /\ t.table = f /\ t.counts = ht.counts
        /\ t.all_list = ht.all_list /\ t.all_last = ht.all_last /\ t.threshold = ht.threshold
        /\ t.longest_bucket_string = ht.longest_bucket_string
        /\ t.entry_count = ht.entry_count /\ t.bucket = ht.bucket
    BY <1>2, <2>1, <2>2, TablesRetabled
  <2>4. Rechained(ht, t)
    BY <2>3 DEF Rechained
  <2>5. t.table = [ht.table EXCEPT ![h] = next]
    BY <2>3 DEF f
  <2> QED BY <1>1, <1>5, <2>3, <2>4, <2>5 DEF t, s, next
<1>6. CASE p # 1
  <2> DEFINE c == s[p - 1]
             g == SetNext(ht.bucket, c, next)
  <2>1. before = {c} /\ (CHOOSE x \in before : TRUE) = c
    BY <1>1, <1>6
  <2>2. c \in S /\ c \in Bucket
    <3>1. c \in before
      BY <2>1
    <3> QED BY <1>4, <3>1 DEF before
  <2> HIDE DEF c
  <2>3. t = Retable(ht, ht.table, g)
    BY <1>3, <2>1 DEF Tables, Retable, SetNext
  <2>4. /\ g \in [Bucket -> BucketRecord]
        /\ \A x \in Bucket :
              /\ g[x].next = IF x = c THEN next ELSE ht.bucket[x].next
              /\ g[x].all_next = ht.bucket[x].all_next /\ g[x].all_prev = ht.bucket[x].all_prev
              /\ g[x].name = ht.bucket[x].name /\ g[x].item = ht.bucket[x].item
              /\ x # c => g[x] = ht.bucket[x]
    BY <1>2, <2>2, FieldsOfBucket
  <2> HIDE DEF g
  <2>5. /\ t \in Tables /\ t.size = ht.size /\ t.table = ht.table /\ t.counts = ht.counts
        /\ t.all_list = ht.all_list /\ t.all_last = ht.all_last /\ t.threshold = ht.threshold
        /\ t.longest_bucket_string = ht.longest_bucket_string
        /\ t.entry_count = ht.entry_count /\ t.bucket = g
    BY <1>2, <2>3, <2>4, TablesRetabled
  <2>6. Rechained(ht, t)
    BY <2>4, <2>5 DEF Rechained
  <2>7. \A x \in Bucket : t.bucket[x].next = IF p # 1 /\ x = s[p - 1] THEN next ELSE ht.bucket[x].next
    BY <1>6, <2>4, <2>5 DEF c
  <2>8. \A x \in Bucket \ S : t.bucket[x] = ht.bucket[x]
    BY <2>2, <2>4, <2>5
  <2> QED BY <1>1, <1>6, <2>5, <2>6, <2>7, <2>8 DEF t, s, next
<1> QED BY <1>5, <1>6

\* UnlinkChain leaves the list of all buckets alone.
LEMMA UnlinkChainRechains ==
    ASSUME NEW ht \in Tables, NEW S \in SUBSET Bucket, Chained(ht, S), NEW b \in S,
           NEW h \in 0..(ht.size - 1), h = Hash(ht, ht.bucket[b].name)
    PROVE  LET t == UnlinkChain(ht, b) IN
           /\ t \in Tables /\ Rechained(ht, t)
           /\ t.size = ht.size /\ t.counts = ht.counts
           /\ t.longest_bucket_string = ht.longest_bucket_string
           /\ \A x \in Bucket \ S : t.bucket[x] = ht.bucket[x]
<1> DEFINE t == UnlinkChain(ht, b)
<1>1. /\ t \in Tables /\ Rechained(ht, t)
      /\ t.size = ht.size /\ t.counts = ht.counts
      /\ t.longest_bucket_string = ht.longest_bucket_string
      /\ \A x \in Bucket \ S : t.bucket[x] = ht.bucket[x]
      /\ \E p \in DOMAIN Chain(ht, h) :
            /\ Chain(ht, h)[p] = b
            /\ t.table = IF p = 1 THEN [ht.table EXCEPT ![h] = ht.bucket[b].next] ELSE ht.table
            /\ \A x \in Bucket :
                  t.bucket[x].next = IF p # 1 /\ x = Chain(ht, h)[p - 1] THEN ht.bucket[b].next
                                     ELSE ht.bucket[x].next
  BY UnlinkChainFields
<1> QED BY <1>1

\* UnlinkChain takes the bucket out of its chain, whose count is then one too large.
LEMMA UnlinkChainKeeps ==
    ASSUME NEW ht \in Tables, NEW S \in SUBSET Bucket, Chained(ht, S), NEW b \in S,
           NEW h \in 0..(ht.size - 1), h = Hash(ht, ht.bucket[b].name)
    PROVE  Unchained(UnlinkChain(ht, b), S \ {b}, h)
<1> DEFINE t == UnlinkChain(ht, b)
           c == Chain(ht, h)
           next == ht.bucket[b].next
<1>0. /\ t \in Tables /\ Rechained(ht, t)
      /\ t.size = ht.size /\ t.counts = ht.counts
      /\ t.longest_bucket_string = ht.longest_bucket_string
      /\ \E p \in DOMAIN c :
            /\ c[p] = b
            /\ t.table = IF p = 1 THEN [ht.table EXCEPT ![h] = next] ELSE ht.table
            /\ \A x \in Bucket : t.bucket[x].next = IF p # 1 /\ x = c[p - 1] THEN next
                                                    ELSE ht.bucket[x].next
  BY UnlinkChainFields
<1>1. /\ t \in Tables /\ Rechained(ht, t)
      /\ t.size = ht.size /\ t.counts = ht.counts
      /\ t.longest_bucket_string = ht.longest_bucket_string
  BY <1>0
<1>2. PICK p \in DOMAIN c :
         /\ c[p] = b
         /\ t.table = IF p = 1 THEN [ht.table EXCEPT ![h] = next] ELSE ht.table
         /\ \A x \in Bucket : t.bucket[x].next = IF p # 1 /\ x = c[p - 1] THEN next
                                                 ELSE ht.bucket[x].next
  BY <1>0
<1>3. \A x \in Bucket : Nexts(t)[x] = IF p # 1 /\ x = c[p - 1] THEN next ELSE Nexts(ht)[x]
  BY <1>2 DEF Nexts
<1>4. \A x \in Bucket : Hash(t, t.bucket[x].name) = Hash(ht, ht.bucket[x].name)
  BY <1>1 DEF Hash, Rechained
<1>5. /\ IsList(Nexts(ht), ht.table[h], c)
      /\ Range(c) = {x \in S : Hash(ht, ht.bucket[x].name) = h}
      /\ ht.counts[h] = Len(c) /\ ht.counts[h] <= ht.longest_bucket_string
  BY DEF Chained
<1>6. c \in Seq(Bucket) /\ Injective(c) /\ Len(c) \in Nat /\ DOMAIN c = 1..Len(c)
  BY <1>5 DEF IsList
<1>7. next = Nexts(ht)[c[p]]
  BY <1>2 DEF Nexts
<1>8. ht.table \in [0..(ht.size - 1) -> BucketOrNull]
  BY DEF Tables
<1> SUFFICES ASSUME NEW k \in 0..(t.size - 1)
             PROVE  /\ IsList(Nexts(t), t.table[k], Chain(t, k))
                    /\ Range(Chain(t, k)) = {x \in S \ {b} : Hash(t, t.bucket[x].name) = k}
                    /\ t.counts[k] = Len(Chain(t, k)) + (IF k = h THEN 1 ELSE 0)
                    /\ t.counts[k] <= t.longest_bucket_string
  BY DEF Unchained
<1> HIDE DEF t, c, next
<1>9. CASE k = h
  <2> DEFINE new == Cut(c, p)
  <2>1. /\ new \in Seq(Bucket) /\ Len(new) = Len(c) - 1 /\ Range(new) = Range(c) \ {b}
    BY <1>2, <1>6, CutIs
  <2>2. IsList(Nexts(t), t.table[k], new)
    <3> DEFINE first1 == t.table[k]
    <3>1. first1 = IF p = 1 THEN Nexts(ht)[c[p]] ELSE ht.table[h]
      BY <1>2, <1>7, <1>8, <1>9
    <3>2. ASSUME NEW j \in 1..Len(c), j # p
          PROVE  Nexts(t)[c[j]] = IF j + 1 = p THEN Nexts(ht)[c[p]] ELSE Nexts(ht)[c[j]]
      <4>1. c[j] \in Bucket
        BY <1>6
      <4>2. Nexts(t)[c[j]] = IF p # 1 /\ c[j] = c[p - 1] THEN next ELSE Nexts(ht)[c[j]]
        BY <1>3, <4>1
      <4>3. (p # 1 /\ c[j] = c[p - 1]) = (j + 1 = p)
        <5>1. CASE p = 1
          <6>1. j + 1 # p
            BY <1>6, <5>1
          <6> QED BY <5>1, <6>1
        <5>2. CASE p # 1
          <6>1. p - 1 \in DOMAIN c /\ j \in DOMAIN c /\ (j = p - 1) = (j + 1 = p)
            BY <1>2, <1>6, <5>2
          <6>2. (c[j] = c[p - 1]) = (j = p - 1)
            BY <1>6, <6>1 DEF Injective
          <6> QED BY <5>2, <6>1, <6>2
        <5> QED BY <5>1, <5>2
      <4> QED BY <1>7, <4>2, <4>3
    <3> DEFINE first0 == ht.table[h]
               links == Nexts(ht)
               new1 == Nexts(t)
    <3>3. IsList(links, first0, c) /\ first1 = IF p = 1 THEN links[c[p]] ELSE first0
      BY <1>5, <3>1
    <3>4. \A j \in 1..Len(c) : j # p =>
             new1[c[j]] = IF j + 1 = p THEN links[c[p]] ELSE links[c[j]]
      BY <3>2
    <3> HIDE DEF first0, first1, links, new1
    <3>5. IsList(new1, first1, Cut(c, p))
      BY <3>3, <3>4, ListCut
    <3> QED BY <3>5 DEF first1, new1
  <2>3. Chain(t, k) = new
    BY <2>2, LinkedIs DEF Chain
  <2> HIDE DEF new
  <2>4. Range(c) \ {b} = {x \in S \ {b} : Hash(t, t.bucket[x].name) = k}
    BY <1>4, <1>5, <1>9
  <2>5. t.counts[k] = Len(new) + 1
    BY <1>1, <1>5, <1>6, <1>9, <2>1
  <2>6. t.counts[k] <= t.longest_bucket_string
    BY <1>1, <1>5, <1>9
  <2> QED BY <1>9, <2>1, <2>2, <2>3, <2>4, <2>5, <2>6
<1>10. CASE k # h
  <2> DEFINE s == Chain(ht, k)
  <2>1. /\ IsList(Nexts(ht), ht.table[k], s)
        /\ Range(s) = {x \in S : Hash(ht, ht.bucket[x].name) = k}
        /\ ht.counts[k] = Len(s) /\ ht.counts[k] <= ht.longest_bucket_string
    BY <1>1 DEF Chained
  <2> HIDE DEF s
  <2>2. t.table[k] = ht.table[k]
    BY <1>1, <1>2, <1>8, <1>10
  <2>3. ASSUME NEW y \in Range(s) PROVE Nexts(t)[y] = Nexts(ht)[y]
    <3>1. y \in Bucket /\ Hash(ht, ht.bucket[y].name) = k
      BY <2>1
    <3>2. p # 1 => c[p - 1] \in Range(c)
      <4>1. p # 1 => p - 1 \in DOMAIN c
        BY <1>2, <1>6
      <4> QED BY <4>1 DEF Range
    <3>3. p # 1 => Hash(ht, ht.bucket[c[p - 1]].name) = h
      BY <1>5, <3>2
    <3> QED BY <1>3, <1>10, <3>1, <3>3
  <2>4. IsList(Nexts(t), t.table[k], s)
    BY <2>1, <2>2, <2>3, ListStays
  <2>5. Chain(t, k) = s
    BY <2>4, LinkedIs DEF Chain
  <2>6. Range(s) = {x \in S \ {b} : Hash(t, t.bucket[x].name) = k}
    BY <1>4, <1>10, <2>1
  <2>7. Len(s) + 0 = Len(s)
    BY <2>1 DEF IsList
  <2> QED BY <1>1, <1>10, <2>1, <2>4, <2>5, <2>6, <2>7
<1> QED BY <1>9, <1>10 DEF t
Drop(ht, b, h) == [ht EXCEPT !.bucket[b] = Freed, !.counts[h] = @ - 1, !.entry_count = @ - 1]

\* Freeing a bucket and counting down changes nothing else.
LEMMA Dropped ==
    ASSUME NEW ht \in Tables, NEW b \in Bucket, NEW h \in 0..(ht.size - 1)
    PROVE  LET t == Drop(ht, b, h) IN
           /\ t \in Tables /\ t.size = ht.size /\ t.table = ht.table
           /\ \A k \in 0..(ht.size - 1) : t.counts[k] = IF k = h THEN ht.counts[k] - 1 ELSE ht.counts[k]
           /\ t.all_list = ht.all_list /\ t.all_last = ht.all_last /\ t.threshold = ht.threshold
           /\ t.longest_bucket_string = ht.longest_bucket_string
           /\ t.entry_count = ht.entry_count - 1 /\ t.bucket[b] = Freed
           /\ \A x \in Bucket \ {b} : t.bucket[x] = ht.bucket[x]
<1> DEFINE t == Drop(ht, b, h)
<1>1. ht \in [size : Nat \ {0}, table : Arrays(BucketOrNull), counts : Arrays(Int),
            all_list : BucketOrNull, all_last : BucketOrNull, threshold : Nat,
            longest_bucket_string : Int, entry_count : Int, bucket : [Bucket -> BucketRecord]]
      /\ ht.table \in [0..(ht.size - 1) -> BucketOrNull]
      /\ ht.counts \in [0..(ht.size - 1) -> Int]
  BY DEF Tables
<1>2. t = [ht EXCEPT !.bucket[b] = Freed, !.counts[h] = @ - 1, !.entry_count = @ - 1]
  BY DEF Drop
<1> HIDE DEF t
<1>3. /\ t.size = ht.size /\ t.table = ht.table
      /\ t.counts = [ht.counts EXCEPT ![h] = @ - 1]
      /\ t.all_list = ht.all_list /\ t.all_last = ht.all_last /\ t.threshold = ht.threshold
      /\ t.longest_bucket_string = ht.longest_bucket_string
      /\ t.entry_count = ht.entry_count - 1 /\ t.bucket = [ht.bucket EXCEPT ![b] = Freed]
  BY <1>1, <1>2
<1>4. /\ t.bucket \in [Bucket -> BucketRecord] /\ t.bucket[b] = Freed
      /\ \A x \in Bucket \ {b} : t.bucket[x] = ht.bucket[x]
  <2>1. ht.bucket \in [Bucket -> BucketRecord]
    BY <1>1
  <2> QED BY <1>3, <2>1, FreedIsBucket
<1>5. /\ t.counts \in [0..(ht.size - 1) -> Int]
      /\ \A k \in 0..(ht.size - 1) : t.counts[k] = IF k = h THEN ht.counts[k] - 1 ELSE ht.counts[k]
  <2> DEFINE D == 0..(ht.size - 1)
             c == ht.counts
             d == t.counts
  <2>1. c \in [D -> Int] /\ h \in D /\ d = [c EXCEPT ![h] = @ - 1]
    BY <1>1, <1>3
  <2> HIDE DEF D, c, d
  <2>2. d \in [D -> Int] /\ \A k \in D : d[k] = IF k = h THEN c[k] - 1 ELSE c[k]
    BY <2>1
  <2> QED BY <2>2 DEF D, c, d
<1>6. t.counts \in Arrays(Int)
  BY <1>1, <1>5 DEF Arrays
<1>7. t \in [size : Nat \ {0}, table : Arrays(BucketOrNull), counts : Arrays(Int),
            all_list : BucketOrNull, all_last : BucketOrNull, threshold : Nat,
            longest_bucket_string : Int, entry_count : Int, bucket : [Bucket -> BucketRecord]]
  <2>1. /\ t.size \in Nat \ {0} /\ t.table \in Arrays(BucketOrNull) /\ t.counts \in Arrays(Int)
        /\ t.all_list \in BucketOrNull /\ t.all_last \in BucketOrNull /\ t.threshold \in Nat
        /\ t.longest_bucket_string \in Int /\ t.entry_count \in Int
        /\ t.bucket \in [Bucket -> BucketRecord]
    BY <1>1, <1>3, <1>4, <1>6
  <2> QED BY <1>1, <1>2, <2>1
<1>8. t \in Tables
  BY <1>1, <1>3, <1>5, <1>7 DEF Tables
<1> QED BY <1>3, <1>4, <1>5, <1>8 DEF t

\* After that the counts agree with the chains.
LEMMA DroppedChained ==
    ASSUME NEW ht \in Tables, NEW t \in Tables, NEW S \in SUBSET Bucket,
           NEW h \in 0..(ht.size - 1), Unchained(ht, S, h),
           t.size = ht.size, t.table = ht.table,
           t.longest_bucket_string = ht.longest_bucket_string,
           \A k \in 0..(ht.size - 1) : t.counts[k] = IF k = h THEN ht.counts[k] - 1 ELSE ht.counts[k],
           \A x \in S : t.bucket[x].next = ht.bucket[x].next /\ t.bucket[x].name = ht.bucket[x].name
    PROVE  Chained(t, S)
<1> SUFFICES ASSUME NEW k \in 0..(t.size - 1)
             PROVE  /\ IsList(Nexts(t), t.table[k], Chain(t, k))
                    /\ Range(Chain(t, k)) = {x \in S : Hash(t, t.bucket[x].name) = k}
                    /\ t.counts[k] = Len(Chain(t, k)) /\ t.counts[k] <= t.longest_bucket_string
  BY DEF Chained
<1> DEFINE s == Chain(ht, k)
<1>1. /\ IsList(Nexts(ht), ht.table[k], s)
      /\ Range(s) = {x \in S : Hash(ht, ht.bucket[x].name) = k}
      /\ ht.counts[k] = Len(s) + (IF k = h THEN 1 ELSE 0)
      /\ ht.counts[k] <= ht.longest_bucket_string
  BY DEF Unchained
<1>2. Len(s) \in Nat
  BY <1>1 DEF IsList
<1> HIDE DEF s
<1>3. \A x \in Range(s) : Nexts(t)[x] = Nexts(ht)[x]
  BY <1>1 DEF Nexts
<1>4. IsList(Nexts(t), t.table[k], s)
  BY <1>1, <1>3, ListStays
<1>5. Chain(t, k) = s
  BY <1>4, LinkedIs DEF Chain
<1>6. Range(s) = {x \in S : Hash(t, t.bucket[x].name) = k}
  BY <1>1 DEF Hash
<1>7. ht.counts[k] \in Int /\ ht.longest_bucket_string \in Int
  BY DEF Tables
<1>8. t.counts[k] = Len(s) /\ t.counts[k] <= t.longest_bucket_string
  BY <1>1, <1>2, <1>7
<1> QED BY <1>4, <1>5, <1>6, <1>8

\* The list of all buckets does not see it.
LEMMA DroppedListed ==
    ASSUME NEW ht \in Tables, NEW t \in Tables, NEW S \in SUBSET Bucket, Listed(ht, S),
           t.all_list = ht.all_list, t.all_last = ht.all_last,
           \A x \in S : /\ t.bucket[x].all_next = ht.bucket[x].all_next
                        /\ t.bucket[x].all_prev = ht.bucket[x].all_prev
    PROVE  Listed(t, S)
<1> DEFINE all == AllList(ht)
<1>1. /\ IsList(AllNexts(ht), ht.all_list, all) /\ Range(all) = S
      /\ ht.all_last = IF Len(all) = 0 THEN Null ELSE all[Len(all)]
      /\ \A k \in 1..Len(all) :
            ht.bucket[all[k]].all_prev = IF k = 1 THEN Null ELSE all[k - 1]
  BY DEF Listed
<1>2. \A k \in 1..Len(all) : all[k] \in S
  BY <1>1 DEF IsList, Range
<1> HIDE DEF all
<1>3. \A x \in Range(all) : AllNexts(t)[x] = AllNexts(ht)[x]
  BY <1>1 DEF AllNexts
<1>4. IsList(AllNexts(t), t.all_list, all)
  BY <1>1, <1>3, ListStays
<1>5. AllList(t) = all
  BY <1>4, LinkedIs DEF AllList
<1> QED BY <1>1, <1>2, <1>4, <1>5 DEF Listed

Unlinking(ht, b, h) == Drop(UnlinkAll(UnlinkChain(ht, b), b), b, h)

\* All of liberty_hash_delete_elem for a bucket that was found.
LEMMA UnlinkingKeeps ==
    ASSUME NEW ht, TableInv(ht), NEW b \in Allocated(ht),
           NEW h, h = Hash(ht, ht.bucket[b].name)
    PROVE  LET t == Unlinking(ht, b, h) IN
           /\ TableInv(t) /\ Allocated(t) = Allocated(ht) \ {b}
           /\ \A x \in Allocated(t) :
                 t.bucket[x].name = ht.bucket[x].name /\ t.bucket[x].item = ht.bucket[x].item
<1> DEFINE S == Allocated(ht)
           a == UnlinkChain(ht, b)
           u == UnlinkAll(a, b)
           t == Drop(u, b, h)
<1>1. /\ ht \in Tables /\ Keyed(ht, S) /\ Chained(ht, S) /\ Listed(ht, S)
      /\ ht.entry_count = Cardinality(S) /\ S \in SUBSET Bucket /\ b \in S /\ b \in Bucket
      /\ \A x \in Bucket \ S : ht.bucket[x] = Freed
  BY DEF TableInv, Allocated
<1> HIDE DEF S
<1>2. h \in 0..(ht.size - 1)
  BY <1>1, HashInTable DEF Keyed
<1>3. /\ a \in Tables /\ Rechained(ht, a)
      /\ a.size = ht.size /\ a.counts = ht.counts
      /\ a.longest_bucket_string = ht.longest_bucket_string
      /\ \A x \in Bucket \ S : a.bucket[x] = ht.bucket[x]
  BY <1>1, <1>2, UnlinkChainRechains
<1>4. Unchained(a, S \ {b}, h)
  BY <1>1, <1>2, UnlinkChainKeeps
<1> HIDE DEF a
<1>5. Listed(a, S)
  BY <1>1, <1>3, ListedFrame DEF Rechained
<1>6. /\ u \in Tables /\ Relisted(a, u) /\ Listed(u, S \ {b})
      /\ \A x \in Bucket \ S : u.bucket[x] = a.bucket[x]
  BY <1>1, <1>3, <1>5, UnlinkAllListed
<1> HIDE DEF u
<1>7. h \in 0..(u.size - 1) /\ u.size = ht.size /\ h \in 0..(a.size - 1)
  BY <1>2, <1>3, <1>6 DEF Relisted
<1>8. /\ t \in Tables /\ t.size = u.size /\ t.table = u.table
      /\ \A k \in 0..(u.size - 1) : t.counts[k] = IF k = h THEN u.counts[k] - 1 ELSE u.counts[k]
      /\ t.all_list = u.all_list /\ t.all_last = u.all_last /\ t.threshold = u.threshold
      /\ t.longest_bucket_string = u.longest_bucket_string
      /\ t.entry_count = u.entry_count - 1 /\ t.bucket[b] = Freed
      /\ \A x \in Bucket \ {b} : t.bucket[x] = u.bucket[x]
  BY <1>1, <1>6, <1>7, Dropped
<1> HIDE DEF t
<1>9. \A x \in S \ {b} : /\ x \in Bucket /\ t.bucket[x] = u.bucket[x]
                         /\ t.bucket[x].next = a.bucket[x].next
                         /\ t.bucket[x].name = a.bucket[x].name
                         /\ t.bucket[x].name = ht.bucket[x].name
                         /\ t.bucket[x].item = ht.bucket[x].item
  BY <1>1, <1>3, <1>6, <1>8 DEF Rechained, Relisted
<1>10. S \ {b} \in SUBSET Bucket
  BY <1>1
<1>11. Chained(t, S \ {b})
  <2> DEFINE R == S \ {b}
  <2>1. /\ t.size = a.size /\ t.table = a.table
        /\ t.longest_bucket_string = a.longest_bucket_string
        /\ \A k \in 0..(a.size - 1) : t.counts[k] = IF k = h THEN a.counts[k] - 1 ELSE a.counts[k]
    BY <1>6, <1>8 DEF Relisted
  <2>2. /\ \A x \in R : t.bucket[x].next = a.bucket[x].next /\ t.bucket[x].name = a.bucket[x].name
        /\ Unchained(a, R, h) /\ R \in SUBSET Bucket
    BY <1>4, <1>9, <1>10
  <2> HIDE DEF R
  <2>3. Chained(t, R)
    BY <1>3, <1>7, <1>8, <2>1, <2>2, DroppedChained
  <2> QED BY <2>3 DEF R
<1>12. Listed(t, S \ {b})
  BY <1>6, <1>8, <1>9, <1>10, DroppedListed
<1>13. Allocated(t) = S \ {b}
  <2>1. \A x \in Bucket \ (S \ {b}) : t.bucket[x] = Freed
    BY <1>1, <1>3, <1>6, <1>8
  <2>2. \A x \in S \ {b} : t.bucket[x].name \in Key
    BY <1>1, <1>9 DEF Keyed
  <2>3. Freed.name = NoKey /\ NoKey \notin Key
    BY HashAssumption DEF Freed
  <2>4. \A x \in S \ {b} : x \in Bucket /\ t.bucket[x] # Freed
    BY <1>1, <2>2, <2>3
  <2> QED BY <2>1, <2>4 DEF Allocated
<1>14. Keyed(t, S \ {b})
  BY <1>1, <1>9 DEF Keyed
<1>15. t.entry_count = ht.entry_count - 1 /\ ht.entry_count \in Int
  BY <1>1, <1>3, <1>6, <1>8 DEF Relisted, Rechained, Tables
<1>16. t.entry_count = Cardinality(S \ {b})
  <2>1. IsFiniteSet(S)
    BY <1>1, BucketsAreNumbers, FS_Subset
  <2>2. Cardinality(S \ {b}) = Cardinality(S) - 1
    BY <1>1, <2>1, FS_RemoveElement
  <2> QED BY <1>1, <1>15, <2>2
<1>17. TableInv(t)
  BY <1>8, <1>11, <1>12, <1>13, <1>14, <1>16 DEF TableInv
<1>19. Unlinking(ht, b, h) = t
  BY DEF Unlinking, t, u, a
<1> QED BY <1>9, <1>13, <1>17, <1>19 DEF S

\* Deleting forgets the key and nothing else.
LEMMA DeleteKeeps ==
    ASSUME NEW ht, TableInv(ht), NEW name \in Key
    PROVE  TableInv(DeleteElem(ht, name))
           /\ Contents(DeleteElem(ht, name)) = Without(Contents(ht), {name})
<1> DEFINE f == Contents(ht)
<1>1. TableInv(ht) /\ name # NoKey
  BY HashAssumption
<1>2. /\ DOMAIN f = {ht.bucket[x].name : x \in Allocated(ht)}
      /\ \A x \in Allocated(ht) : f[ht.bucket[x].name] = ht.bucket[x].item
      /\ f = [k \in DOMAIN f |-> f[k]]
  BY <1>1, ContentsIs
<1> HIDE DEF f
<1>3. Without(f, {name}) = [k \in DOMAIN f \ {name} |-> f[k]]
  BY DEF Without
<1>4. CASE \A b \in Allocated(ht) : ht.bucket[b].name # name
  <2>1. Find(ht, name) = Null
    BY <1>1, <1>4, LookupIs
  <2>2. DeleteElem(ht, name) = ht
    BY <2>1 DEF DeleteElem
  <2>3. DOMAIN f \ {name} = DOMAIN f
    BY <1>2, <1>4
  <2> QED BY <1>2, <1>3, <2>2, <2>3 DEF f
<1>5. CASE \E b \in Allocated(ht) : ht.bucket[b].name = name
  <2>1. PICK b \in Allocated(ht) : ht.bucket[b].name = name
    BY <1>5
  <2>2. Find(ht, name) = b /\ b # Null
    BY <1>1, <2>1, LookupIs, BucketsAreNumbers DEF Allocated
  <2> DEFINE h == Hash(ht, name)
             t == Unlinking(ht, b, h)
  <2>3. DeleteElem(ht, name) = t
    BY <1>1, <2>2 DEF DeleteElem, Unlinking, Drop
  <2>4. h = Hash(ht, ht.bucket[b].name)
    BY <2>1
  <2> HIDE DEF h
  <2>5. /\ TableInv(t) /\ Allocated(t) = Allocated(ht) \ {b}
        /\ \A x \in Allocated(t) :
              t.bucket[x].name = ht.bucket[x].name /\ t.bucket[x].item = ht.bucket[x].item
    BY <2>4, UnlinkingKeeps
  <2> DEFINE g == Contents(t)
  <2> HIDE DEF t
  <2>6. /\ DOMAIN g = {t.bucket[x].name : x \in Allocated(t)}
        /\ \A x \in Allocated(t) : g[t.bucket[x].name] = t.bucket[x].item
        /\ g = [k \in DOMAIN g |-> g[k]]
    BY <2>5, ContentsIs
  <2> HIDE DEF g
  <2>7. \A x \in Allocated(ht) : x # b => ht.bucket[x].name # name
    BY <1>1, <2>1 DEF TableInv, Keyed
  <2>8. DOMAIN g = DOMAIN f \ {name}
    <3>1. {t.bucket[x].name : x \in Allocated(t)} = {ht.bucket[x].name : x \in Allocated(ht) \ {b}}
      BY <2>5
    <3>2. {ht.bucket[x].name : x \in Allocated(ht) \ {b}}
             = {ht.bucket[x].name : x \in Allocated(ht)} \ {name}
      BY <2>1, <2>7
    <3> QED BY <1>2, <2>6, <3>1, <3>2
  <2>9. ASSUME NEW k \in DOMAIN g PROVE g[k] = f[k]
    <3>1. PICK x \in Allocated(t) : k = t.bucket[x].name
      BY <2>6
    <3> QED BY <1>2, <2>5, <2>6, <3>1
  <2>10. g = Without(f, {name})
    BY <1>3, <2>6, <2>8, <2>9
  <2> QED BY <2>3, <2>5, <2>10 DEF f, g
<1> QED BY <1>4, <1>5

\* The invariant of a table is more than the property asks for.
LEMMA TableWellFormed ==
    ASSUME NEW ht, TableInv(ht)
    PROVE  WellFormed(ht)
<1> DEFINE all == AllList(ht)
<1>1. /\ ht \in Tables /\ Chained(ht, Allocated(ht)) /\ Listed(ht, Allocated(ht))
      /\ ht.entry_count = Cardinality(Allocated(ht))
  BY DEF TableInv
<1>2. /\ all \in Seq(Bucket) /\ Injective(all) /\ Range(all) = Allocated(ht)
      /\ ht.all_last = IF Len(all) = 0 THEN Null ELSE all[Len(all)]
      /\ \A k \in 1..Len(all) :
            ht.bucket[all[k]].all_prev = IF k = 1 THEN Null ELSE all[k - 1]
  BY <1>1 DEF Listed, IsList
<1> HIDE DEF all
<1>3. Len(all) = ht.entry_count
  BY <1>1, <1>2, LengthIsCardinality
<1>4. ht.all_last = IF all = << >> THEN Null ELSE Last(all)
  <2>1. (Len(all) = 0) = (all = << >>)
    BY <1>2
  <2> QED BY <1>2, <2>1 DEF Last
<1>5. DOMAIN all = 1..Len(all) /\ DOMAIN ht.table = 0..(ht.size - 1)
  BY <1>1, <1>2 DEF Tables
<1>6. ASSUME NEW h \in 0..(ht.size - 1)
      PROVE  LET chain == Chain(ht, h) IN
             /\ Range(chain) = {b \in Allocated(ht) : Hash(ht, ht.bucket[b].name) = h}
             /\ Len(chain) = Cardinality(Range(chain)) /\ ht.counts[h] = Len(chain)
             /\ Len(chain) <= ht.longest_bucket_string
  <2> DEFINE chain == Chain(ht, h)
  <2>1. /\ chain \in Seq(Bucket) /\ Injective(chain)
        /\ Range(chain) = {b \in Allocated(ht) : Hash(ht, ht.bucket[b].name) = h}
        /\ ht.counts[h] = Len(chain) /\ ht.counts[h] <= ht.longest_bucket_string
    BY <1>1 DEF Chained, IsList
  <2> HIDE DEF chain
  <2>2. Cardinality(Range(chain)) = Len(chain)
    BY <2>1, LengthIsCardinality
  <2> QED BY <2>1, <2>2 DEF chain
<1> QED BY <1>1, <1>2, <1>3, <1>4, <1>5, <1>6 DEF WellFormed, all
-----------------------------------------------------------------------------
(* Several keys.                                                           *)

LEMMA EnteredEquation ==
    ASSUME NEW ht, TableInv(ht), NEW keys \in Seq(Key), NEW g \in Group
    PROVE  /\ Entered(ht, keys, g)[0] = ht
           /\ \A n \in 1..Len(keys) : Entered(ht, keys, g)[n] = Enter(Entered(ht, keys, g)[n - 1], keys[n], g)
<1> DEFINE T == {t \in Tables : TableInv(t)}
           m == Len(keys)
           step == [p \in (1..m) \X T |-> Enter(p[2], keys[p[1]], g)]
<1>1. m \in Nat /\ \A k \in 1..m : keys[k] \in Key
  OBVIOUS
<1>2. ASSUME NEW n \in 1..m, NEW t \in T PROVE Enter(t, keys[n], g) \in T
  <2>1. TableInv(Enter(t, keys[n], g))
    BY <1>1, EnterKeeps
  <2> QED BY <2>1 DEF TableInv
<1>3. ht \in T
  BY DEF TableInv
<1> HIDE DEF T
<1>4. step \in Steps(m, T)
  BY <1>2 DEF Steps
<1>5. \A n \in 1..m, t \in T : step[<<n, t>>] = Enter(t, keys[n], g)
  OBVIOUS
<1> HIDE DEF step, m
<1>0. m \in Nat
  BY <1>1
<1>6. PICK f \in [0..m -> T] : IsRun(f, m, ht, step)
  BY <1>0, <1>3, <1>4, Recursion
<1>7. f = [n \in 0..m |-> IF n = 0 THEN ht ELSE Enter(f[n - 1], keys[n], g)]
  <2>1. f = [n \in 0..m |-> f[n]]
    BY <1>6
  <2>2. ASSUME NEW n \in 0..m PROVE f[n] = IF n = 0 THEN ht ELSE Enter(f[n - 1], keys[n], g)
    <3>1. CASE n # 0
      <4>1. n \in 1..m /\ n - 1 \in 0..m
        BY <1>1, <3>1
      <4>2. f[n - 1] \in T
        BY <1>6, <4>1
      <4> QED BY <1>5, <1>6, <3>1, <4>1, <4>2 DEF IsRun
    <3> QED BY <1>6, <3>1 DEF IsRun
  <2> QED BY <2>1, <2>2
<1>8. Entered(ht, keys, g)
        = [n \in 0..m |-> IF n = 0 THEN ht ELSE Enter(Entered(ht, keys, g)[n - 1], keys[n], g)]
  BY <1>7, Zenon DEF Entered, m
<1>9. \A n \in 1..m : n \in 0..m /\ n # 0
  BY <1>1
<1> QED BY <1>1, <1>8, <1>9 DEF m

\* Deleted deletes key after key.
LEMMA DeletedEquation ==
    ASSUME NEW ht, TableInv(ht), NEW keys \in Seq(Key)
    PROVE  /\ Deleted(ht, keys)[0] = ht
           /\ \A n \in 1..Len(keys) : Deleted(ht, keys)[n] = DeleteElem(Deleted(ht, keys)[n - 1], keys[n])
<1> DEFINE T == {t \in Tables : TableInv(t)}
           m == Len(keys)
           step == [p \in (1..m) \X T |-> DeleteElem(p[2], keys[p[1]])]
<1>1. m \in Nat /\ \A k \in 1..m : keys[k] \in Key
  OBVIOUS
<1>2. ASSUME NEW n \in 1..m, NEW t \in T PROVE DeleteElem(t, keys[n]) \in T
  <2>1. TableInv(DeleteElem(t, keys[n]))
    BY <1>1, DeleteKeeps
  <2> QED BY <2>1 DEF TableInv
<1>3. ht \in T
  BY DEF TableInv
<1> HIDE DEF T
<1>4. step \in Steps(m, T)
  BY <1>2 DEF Steps
<1>5. \A n \in 1..m, t \in T : step[<<n, t>>] = DeleteElem(t, keys[n])
  OBVIOUS
<1> HIDE DEF step, m
<1>0. m \in Nat
  BY <1>1
<1>6. PICK f \in [0..m -> T] : IsRun(f, m, ht, step)
  BY <1>0, <1>3, <1>4, Recursion
<1>7. f = [n \in 0..m |-> IF n = 0 THEN ht ELSE DeleteElem(f[n - 1], keys[n])]
  <2>1. f = [n \in 0..m |-> f[n]]
    BY <1>6
  <2>2. ASSUME NEW n \in 0..m PROVE f[n] = IF n = 0 THEN ht ELSE DeleteElem(f[n - 1], keys[n])
    <3>1. CASE n # 0
      <4>1. n \in 1..m /\ n - 1 \in 0..m
        BY <1>1, <3>1
      <4>2. f[n - 1] \in T
        BY <1>6, <4>1
      <4> QED BY <1>5, <1>6, <3>1, <4>1, <4>2 DEF IsRun
    <3> QED BY <1>6, <3>1 DEF IsRun
  <2> QED BY <2>1, <2>2
<1>8. Deleted(ht, keys)
        = [n \in 0..m |-> IF n = 0 THEN ht ELSE DeleteElem(Deleted(ht, keys)[n - 1], keys[n])]
  BY <1>7, Zenon DEF Deleted, m
<1>9. \A n \in 1..m : n \in 0..m /\ n # 0
  BY <1>1
<1> QED BY <1>1, <1>8, <1>9 DEF m

\* Keys are given, and taken away, one after another as they are all at once.
LEMMA GivenOneByOne ==
    ASSUME NEW f, NEW A, NEW K, NEW v, NEW h, h = GiveIfFree(f, A, v), NEW B, B = A \cup K
    PROVE  GiveIfFree(h, K, v) = GiveIfFree(f, B, v)
<1>1. h = [x \in DOMAIN f \cup A |-> IF x \in A \ DOMAIN f THEN v ELSE f[x]]
  BY DEF GiveIfFree, Give
<1>2. GiveIfFree(h, K, v) = [x \in DOMAIN h \cup K |-> IF x \in K \ DOMAIN h THEN v ELSE h[x]]
  BY DEF GiveIfFree, Give
<1>3. GiveIfFree(f, B, v)
         = [x \in DOMAIN f \cup (A \cup K) |-> IF x \in (A \cup K) \ DOMAIN f THEN v ELSE f[x]]
  BY DEF GiveIfFree, Give
<1>4. DOMAIN h = DOMAIN f \cup A
  BY <1>1
<1>5. \A x \in DOMAIN f \cup (A \cup K) :
         (IF x \in K \ DOMAIN h THEN v ELSE h[x]) = IF x \in (A \cup K) \ DOMAIN f THEN v ELSE f[x]
  BY <1>1, <1>4
<1> QED BY <1>2, <1>3, <1>4, <1>5

\* Forgetting some keys and then others is forgetting all of them.
LEMMA TakenOneByOne ==
    ASSUME NEW f, NEW A, NEW K, NEW h, h = Without(f, A), NEW B, B = A \cup K
    PROVE  Without(h, K) = Without(f, B)
<1>1. (DOMAIN f \ A) \ K = DOMAIN f \ (A \cup K)
  OBVIOUS
<1> QED BY <1>1 DEF Without

Firsts(keys, n) == {keys[k] : k \in 1..n}

\* The keys done after n steps.
LEMMA FirstsAre ==
    ASSUME NEW keys \in Seq(Key)
    PROVE  /\ Firsts(keys, 0) = {} /\ Firsts(keys, Len(keys)) = Range(keys)
           /\ \A n \in Nat : Firsts(keys, n + 1) = Firsts(keys, n) \cup {keys[n + 1]}
<1>1. Firsts(keys, 0) = {}
  BY DEF Firsts
<1>2. Firsts(keys, Len(keys)) = Range(keys)
  BY DEF Firsts, Range
<1>3. ASSUME NEW n \in Nat PROVE Firsts(keys, n + 1) = Firsts(keys, n) \cup {keys[n + 1]}
  <2>1. \A k : k \in 1..(n + 1) <=> k \in 1..n \/ k = n + 1
    OBVIOUS
  <2> QED BY <2>1 DEF Firsts
<1> QED BY <1>1, <1>2, <1>3

\* Entering keys one after another gives each of them that is free.
LEMMA EnterAllKeeps ==
    ASSUME NEW ht, TableInv(ht), NEW keys \in Seq(Key), NEW g \in Group
    PROVE  TableInv(EnterAll(ht, keys, g))
           /\ Contents(EnterAll(ht, keys, g)) = GiveIfFree(Contents(ht), Range(keys), g)
<1> DEFINE m == Len(keys)
           at(n) == Entered(ht, keys, g)[n]
           Good(n) == TableInv(at(n)) /\ Contents(at(n)) = GiveIfFree(Contents(ht), Firsts(keys, n), g)
           P == {n \in 0..m : Good(n)}
<1>1. m \in Nat /\ \A k \in 1..m : keys[k] \in Key
  OBVIOUS
<1>2. at(0) = ht /\ \A n \in 1..m : at(n) = Enter(at(n - 1), keys[n], g)
  BY EnteredEquation
<1> HIDE DEF at
<1>3. 0 \in P
  <2>1. GiveIfFree(Contents(ht), {}, g) = [k \in DOMAIN Contents(ht) |-> Contents(ht)[k]]
    BY DEF GiveIfFree, Give
  <2>2. GiveIfFree(Contents(ht), {}, g) = Contents(ht)
    BY <2>1, ContentsIs
  <2>3. Firsts(keys, 0) = {}
    BY FirstsAre
  <2>4. Good(0)
    BY <1>2, <2>2, <2>3
  <2> HIDE DEF Good
  <2> QED BY <1>1, <2>4
<1>4. ASSUME NEW x \in 0..(m - 1), x \in P PROVE x + 1 \in P
  <2>1. x + 1 \in 1..m /\ (x + 1) - 1 = x /\ x + 1 \in 0..m /\ x \in Nat
    BY <1>1
  <2>2. Good(x) /\ keys[x + 1] \in Key /\ at(x + 1) = Enter(at(x), keys[x + 1], g)
    BY <1>1, <1>2, <1>4, <2>1
  <2> DEFINE k == keys[x + 1]
             old == at(x)
             new == at(x + 1)
  <2>3. TableInv(old) /\ Contents(old) = GiveIfFree(Contents(ht), Firsts(keys, x), g)
        /\ k \in Key /\ new = Enter(old, k, g)
    BY <2>2
  <2>4. Firsts(keys, x + 1) = Firsts(keys, x) \cup {k}
    BY <2>1, FirstsAre
  <2> HIDE DEF k, old, new
  <2>5. TableInv(new) /\ Contents(new) = GiveIfFree(Contents(old), {k}, g)
    BY <2>3, EnterKeeps
  <2>6. Contents(new) = GiveIfFree(Contents(ht), Firsts(keys, x + 1), g)
    BY <2>3, <2>4, <2>5, GivenOneByOne
  <2> QED BY <2>1, <2>5, <2>6 DEF new
<1> HIDE DEF P, m
<1>5. m \in P
  <2>1. m \in Nat /\ m \in 0..m
    BY <1>1
  <2>2. \A x \in 0..m : x \in P
    BY <1>3, <1>4, <2>1, UpTo
  <2> QED BY <2>1, <2>2
<1>6. Good(m)
  BY <1>5 DEF P
<1> QED BY <1>6, FirstsAre DEF EnterAll, at, m

\* Deleting keys one after another forgets all of them.
LEMMA DeleteAllKeeps ==
    ASSUME NEW ht, TableInv(ht), NEW keys \in Seq(Key)
    PROVE  TableInv(DeleteAll(ht, keys))
           /\ Contents(DeleteAll(ht, keys)) = Without(Contents(ht), Range(keys))
<1> DEFINE m == Len(keys)
           at(n) == Deleted(ht, keys)[n]
           Good(n) == TableInv(at(n)) /\ Contents(at(n)) = Without(Contents(ht), Firsts(keys, n))
           P == {n \in 0..m : Good(n)}
<1>1. m \in Nat /\ \A k \in 1..m : keys[k] \in Key
  OBVIOUS
<1>2. at(0) = ht /\ \A n \in 1..m : at(n) = DeleteElem(at(n - 1), keys[n])
  BY DeletedEquation
<1> HIDE DEF at
<1>3. 0 \in P
  <2>1. Without(Contents(ht), {}) = [k \in DOMAIN Contents(ht) |-> Contents(ht)[k]]
    BY DEF Without
  <2>2. Without(Contents(ht), {}) = Contents(ht)
    BY <2>1, ContentsIs
  <2>3. Firsts(keys, 0) = {}
    BY FirstsAre
  <2>4. Good(0)
    BY <1>2, <2>2, <2>3
  <2> HIDE DEF Good
  <2> QED BY <1>1, <2>4
<1>4. ASSUME NEW x \in 0..(m - 1), x \in P PROVE x + 1 \in P
  <2>1. x + 1 \in 1..m /\ (x + 1) - 1 = x /\ x + 1 \in 0..m /\ x \in Nat
    BY <1>1
  <2>2. Good(x) /\ keys[x + 1] \in Key /\ at(x + 1) = DeleteElem(at(x), keys[x + 1])
    BY <1>1, <1>2, <1>4, <2>1
  <2> DEFINE k == keys[x + 1]
             old == at(x)
             new == at(x + 1)
  <2>3. TableInv(old) /\ Contents(old) = Without(Contents(ht), Firsts(keys, x))
        /\ k \in Key /\ new = DeleteElem(old, k)
    BY <2>2
  <2>4. Firsts(keys, x + 1) = Firsts(keys, x) \cup {k}
    BY <2>1, FirstsAre
  <2> HIDE DEF k, old, new
  <2>5. TableInv(new) /\ Contents(new) = Without(Contents(old), {k})
    BY <2>3, DeleteKeeps
  <2>6. Contents(new) = Without(Contents(ht), Firsts(keys, x + 1))
    BY <2>3, <2>4, <2>5, TakenOneByOne
  <2> QED BY <2>1, <2>5, <2>6 DEF new
<1> HIDE DEF P, m
<1>5. m \in P
  <2>1. m \in Nat /\ m \in 0..m
    BY <1>1
  <2>2. \A x \in 0..m : x \in P
    BY <1>3, <1>4, <2>1, UpTo
  <2> QED BY <2>1, <2>2
<1>6. Good(m)
  BY <1>5 DEF P
<1> QED BY <1>6, FirstsAre DEF DeleteAll, at, m
-----------------------------------------------------------------------------
(* Lists of groups and of names.                                           *)

LEMMA RemoveAtIs ==
    ASSUME NEW S, NEW s \in Seq(S), NEW p \in 1..Len(s)
    PROVE  RemoveAt(s, p) = Cut(s, p)
<1>1. Len(s) \in Nat /\ p \in Nat /\ p >= 1 /\ p <= Len(s)
  OBVIOUS
<1> DEFINE a == SubSeq(s, 1, p - 1)
           b == SubSeq(s, p + 1, Len(s))
<1>2. a \in Seq(S) /\ Len(a) = p - 1 /\ \A k \in 1..(p - 1) : a[k] = s[k]
  <2>1. a = [k \in 1..(p - 1) |-> s[k]]
    BY <1>1
  <2>2. a \in [1..(p - 1) -> S]
    <3>1. \A k \in 1..(p - 1) : s[k] \in S
      BY <1>1
    <3> QED BY <2>1, <3>1
  <2> HIDE DEF a
  <2> QED BY <1>1, <2>1, <2>2
<1>3. b \in Seq(S) /\ Len(b) = Len(s) - p /\ \A k \in 1..(Len(s) - p) : b[k] = s[k + p]
  <2>1. b = [k \in 1..(Len(s) - p) |-> s[k + p]]
    BY <1>1
  <2>2. b \in [1..(Len(s) - p) -> S]
    <3>1. \A k \in 1..(Len(s) - p) : s[k + p] \in S
      BY <1>1
    <3> QED BY <2>1, <3>1
  <2> HIDE DEF b
  <2> QED BY <1>1, <2>1, <2>2
<1>4. RemoveAt(s, p) = a \o b
  BY DEF RemoveAt
<1> HIDE DEF a, b
<1>5. a \o b = [k \in 1..(Len(s) - 1) |-> IF k <= p - 1 THEN a[k] ELSE b[k - (p - 1)]]
  <2> DEFINE c == a \o b
  <2>1. a \in Seq(S) /\ b \in Seq(S)
    BY <1>2, <1>3
  <2>2. /\ c \in Seq(S) /\ Len(c) = Len(a) + Len(b)
        /\ \A k \in 1..(Len(a) + Len(b)) : c[k] = IF k <= Len(a) THEN a[k] ELSE b[k - Len(a)]
    BY <2>1
  <2> HIDE DEF c
  <2>3. c = [k \in 1..Len(c) |-> c[k]]
    BY <2>2
  <2>4. Len(a) + Len(b) = Len(s) - 1 /\ Len(a) = p - 1
    BY <1>1, <1>2, <1>3
  <2> QED BY <2>2, <2>3, <2>4 DEF c
<1>6. ASSUME NEW k \in 1..(Len(s) - 1)
      PROVE  (IF k <= p - 1 THEN a[k] ELSE b[k - (p - 1)]) = IF k < p THEN s[k] ELSE s[k + 1]
  <2>1. CASE k <= p - 1
    BY <1>1, <1>2, <2>1
  <2>2. CASE k > p - 1
    <3>1. k - (p - 1) \in 1..(Len(s) - p) /\ (k - (p - 1)) + p = k + 1 /\ ~(k <= p - 1) /\ ~(k < p)
      BY <1>1, <2>2
    <3> QED BY <1>3, <3>1
  <2> QED BY <1>1, <2>1, <2>2
<1> QED BY <1>4, <1>5, <1>6 DEF Cut

\* RemoveFirst cuts at a place where the element is.
LEMMA RemoveFirstIs ==
    ASSUME NEW S, NEW s \in Seq(S), NEW e
    PROVE  IF e \in Range(s) THEN \E p \in DOMAIN s : s[p] = e /\ RemoveFirst(s, e) = Cut(s, p)
                             ELSE RemoveFirst(s, e) = s
<1>1. Len(s) \in Nat /\ DOMAIN s = 1..Len(s)
  OBVIOUS
<1> DEFINE I == {i \in 1..Len(s) : s[i] = e}
<1>2. e \in Range(s) <=> \E i \in 1..Len(s) : s[i] = e
  <2>1. Range(s) = {s[i] : i \in 1..Len(s)}
    BY <1>1 DEF Range
  <2> QED BY <2>1
<1>3. CASE e \in Range(s)
  <2>0. PICK i \in 1..Len(s) : s[i] = e
    BY <1>2, <1>3
  <2>1. I # {} /\ I \subseteq Nat
    BY <1>1, <2>0
  <2>2. RemoveFirst(s, e) = RemoveAt(s, Min(I))
    BY <1>2, <1>3, <2>1 DEF RemoveFirst, SelectInSeq
  <2> HIDE DEF I
  <2>3. Min(I) \in I
    BY <2>1, MinOf
  <2>4. Min(I) \in 1..Len(s) /\ s[Min(I)] = e
    BY <2>3 DEF I
  <2>5. RemoveFirst(s, e) = Cut(s, Min(I))
    BY <2>2, <2>4, RemoveAtIs
  <2> QED BY <1>1, <1>3, <2>4, <2>5
<1>4. CASE e \notin Range(s)
  BY <1>2, <1>4 DEF RemoveFirst
<1> QED BY <1>3, <1>4

\* The first one in a list, when it is removed, leaves the rest of it.
LEMMA RemoveFirstFromList ==
    ASSUME NEW S, NEW s \in Seq(S), Injective(s), NEW e \in Range(s)
    PROVE  LET t == RemoveFirst(s, e) IN
           /\ t \in Seq(S) /\ Injective(t) /\ Range(t) = Range(s) \ {e}
           /\ e = s[1] => t = Cut(s, 1)
<1> DEFINE t == RemoveFirst(s, e)
<1>1. PICK p \in DOMAIN s : s[p] = e /\ t = Cut(s, p)
  BY RemoveFirstIs
<1>2. t \in Seq(S) /\ Range(t) = Range(s) \ {s[p]} /\ Injective(t)
  BY <1>1, CutIs
<1>3. e = s[1] => p = 1
  <2>1. 1 \in DOMAIN s
    OBVIOUS
  <2> QED BY <1>1, <2>1 DEF Injective
<1> QED BY <1>1, <1>2, <1>3

\* Of names that may be repeated RemoveFirst leaves all others.
LEMMA RemoveFirstFromNames ==
    ASSUME NEW S, NEW s \in Seq(S), NEW e
    PROVE  LET t == RemoveFirst(s, e) IN
           /\ t \in Seq(S) /\ Range(t) \subseteq Range(s) /\ Range(s) \ {e} \subseteq Range(t)
<1> DEFINE t == RemoveFirst(s, e)
<1>1. Len(s) \in Nat /\ DOMAIN s = 1..Len(s)
  OBVIOUS
<1>2. CASE e \notin Range(s)
  <2>1. t = s
    BY <1>2, RemoveFirstIs
  <2> QED BY <2>1
<1>3. CASE e \in Range(s)
  <2>1. PICK p \in DOMAIN s : s[p] = e /\ t = Cut(s, p)
    BY <1>3, RemoveFirstIs
  <2> DEFINE at(k) == IF k < p THEN k ELSE k + 1
             u == Cut(s, p)
  <2>0. p \in 1..Len(s)
    BY <1>1
  <2>2. u = [k \in 1..(Len(s) - 1) |-> u[k]] /\ \A k \in 1..(Len(s) - 1) : u[k] = s[at(k)]
    BY DEF Cut
  <2>3. \A k \in 1..(Len(s) - 1) : at(k) \in 1..Len(s)
    BY <1>1, <2>0
  <2>4. \A i \in 1..Len(s) : i # p => \E k \in 1..(Len(s) - 1) : at(k) = i
    <3> TAKE i \in 1..Len(s)
    <3> HAVE i # p
    <3>1. CASE i < p
      <4>1. i \in 1..(Len(s) - 1) /\ at(i) = i
        BY <1>1, <2>0, <3>1
      <4> QED BY <4>1
    <3>2. CASE i > p
      <4>1. i - 1 \in 1..(Len(s) - 1) /\ at(i - 1) = i
        BY <1>1, <2>0, <3>2
      <4> QED BY <4>1
    <3> QED BY <1>1, <2>0, <3>1, <3>2
  <2> HIDE DEF u, at
  <2>5. u \in Seq(S) /\ DOMAIN u = 1..(Len(s) - 1)
    <3>1. \A k \in 1..Len(s) : s[k] \in S
      OBVIOUS
    <3>2. u \in [1..(Len(s) - 1) -> S]
      BY <2>2, <2>3, <3>1
    <3>3. Len(s) - 1 \in Nat
      BY <1>1, <2>0
    <3> QED BY <3>2, <3>3
  <2>6. Range(u) \subseteq Range(s)
    <3>1. \A k \in 1..(Len(s) - 1) : u[k] \in Range(s)
      BY <1>1, <2>2, <2>3 DEF Range
    <3> QED BY <2>5, <3>1 DEF Range
  <2>7. ASSUME NEW x \in Range(s) \ {e} PROVE x \in Range(u)
    <3>1. PICK i \in 1..Len(s) : x = s[i]
      BY <1>1 DEF Range
    <3>2. i # p
      BY <2>1, <3>1
    <3>3. PICK k \in 1..(Len(s) - 1) : at(k) = i
      BY <2>4, <3>2
    <3> QED BY <2>2, <2>5, <3>1, <3>3 DEF Range
  <2> QED BY <2>1, <2>5, <2>6, <2>7 DEF u
<1> QED BY <1>2, <1>3

\* A group at one of the ends of a list.
AtAnEnd(t, s, g) == t = Append(s, g) \/ t = <<g>> \o s

\* A group that joins a list, at either end, is in it once.
LEMMA JoinedIs ==
    ASSUME NEW S, NEW s \in Seq(S), Injective(s), NEW g, g \notin Range(s),
           NEW T, T = S \cup {g}, NEW t, AtAnEnd(t, s, g)
    PROVE  t \in Seq(T) /\ Injective(t) /\ Range(t) = Range(s) \cup {g}
<1>0. t = Append(s, g) \/ t = <<g>> \o s
  BY DEF AtAnEnd
<1>1. s \in Seq(T) /\ g \in T /\ Len(s) \in Nat /\ DOMAIN s = 1..Len(s)
  <2>1. s \in [1..Len(s) -> T] /\ Len(s) \in Nat
    OBVIOUS
  <2>2. s \in Seq(T)
    BY <2>1
  <2> QED BY <2>1, <2>2
<1>2. \A k \in 1..Len(s) : s[k] # g
  BY <1>1 DEF Range
<1>3. /\ Append(s, g) \in Seq(T) /\ Injective(Append(s, g))
      /\ Range(Append(s, g)) = Range(s) \cup {g}
  <2> DEFINE a == Append(s, g)
  <2>1. a \in Seq(T) /\ Len(a) = Len(s) + 1 /\ DOMAIN a = 1..(Len(s) + 1)
        /\ a[Len(s) + 1] = g /\ \A k \in 1..Len(s) : a[k] = s[k]
    BY <1>1
  <2> HIDE DEF a
  <2>2. \A k \in 1..(Len(s) + 1) : k \in 1..Len(s) \/ k = Len(s) + 1
    BY <1>1
  <2>3. \A k \in 1..Len(s) : k \in 1..(Len(s) + 1)
    BY <1>1
  <2>4. Len(s) + 1 \in 1..(Len(s) + 1)
    BY <1>1
  <2>5. Injective(a)
    <3> SUFFICES ASSUME NEW j \in DOMAIN a, NEW k \in DOMAIN a, a[j] = a[k] PROVE j = k
      BY DEF Injective
    <3> QED BY <1>1, <1>2, <2>1, <2>2 DEF Injective
  <2>6. Range(a) = Range(s) \cup {g}
    BY <1>1, <2>1, <2>2, <2>3, <2>4 DEF Range
  <2> QED BY <2>1, <2>5, <2>6 DEF a
<1>4. <<g>> \o s = Pushed(s, g)
  BY <1>1 DEF Pushed
<1>5. g \notin Range(s)
  OBVIOUS
<1>6. /\ Pushed(s, g) \in Seq(T) /\ Range(Pushed(s, g)) = Range(s) \cup {g}
      /\ Injective(Pushed(s, g))
  BY <1>1, <1>5, PushedIs
<1> QED BY <1>0, <1>3, <1>4, <1>6
-----------------------------------------------------------------------------
(* The store.                                                              *)

KeyNames == {key[2] : key \in Key}
GroupTypes == {head.type : head \in Heads}
GroupRecord == [type : GroupTypes, owner : {Root} \cup Group, names : Seq(KeyNames)]

\* Every set of groups has a member that is owned from outside of it: no group
\* owns itself, directly or through others.
Rooted == \A S \in SUBSET Live : S # {} => \E x \in S : group[x].owner \notin S

GroupsInv ==
    /\ Live \subseteq Group
    /\ \A g \in Live : /\ group[g] \in GroupRecord /\ KeysOf(g) \subseteq Key
                       /\ group[g].owner \in Live \cup {Root}
    /\ Rooted

\* A container's list has the groups it owns, each of them once.
ListsInv ==
    /\ DOMAIN list = Live \cup {Root}
    /\ \A c \in Live \cup {Root} :
          /\ list[c] \in Seq(Live) /\ Injective(list[c])
          /\ Range(list[c]) = {g \in Live : group[g].owner = c}

TablesInv ==
    /\ DOMAIN hash = Live \cup {Root}
    /\ \A c \in Live \cup {Root} : TableInv(hash[c])

NamesInv ==
    \A c \in Live \cup {Root} : \A key \in DOMAIN Contents(hash[c]) :
        \E g \in Live : Contents(hash[c])[key] = g /\ group[g].owner = c /\ key \in KeysOf(g)

FirstInv ==
    /\ DOMAIN first = {Root} \cup Group
    /\ ~deleted => /\ \A c \in Live \cup {Root} : first[c] = Contents(hash[c])
                   /\ \A x \in Group \ Live : first[x] = << >>

FoundInv == found = [c \in DOMAIN hash |-> Contents(hash[c])]

PhaseInv ==
    /\ pc \in {"parse", "edit", "quit", "end"}
    /\ gs \in Seq(Live) /\ (pc # "parse" => gs = << >>)
    /\ pc = "quit" => iter = IF list[Root] = << >> THEN Null ELSE list[Root][1]
    /\ pc = "end" => list[Root] = << >>

\* All but what is about the phase and about what is found.
StructureInv == GroupsInv /\ ListsInv /\ TablesInv /\ NamesInv /\ FirstInv

StoreInv == StructureInv /\ FoundInv /\ PhaseInv

\* A new group has the address of none there is.
LEMMA NewGroupIsNew ==
    ASSUME GroupsInv, Live # Group
    PROVE  NewGroup \in Group \ Live
<1>1. Group \ Live # {} /\ Group \ Live \subseteq Nat
  BY StoreAssumption DEF GroupsInv
<1> QED BY <1>1, MinOf DEF NewGroup

\* The keys of a group that is made or deleted.
Keys(type, names) == [k \in DOMAIN names |-> <<type, names[k]>>]

\* The keys of a new group are keys.
LEMMA KeysAre ==
    ASSUME NEW type, NEW names \in Seq(KeyNames), \A k \in DOMAIN names : <<type, names[k]>> \in Key
    PROVE  /\ Keys(type, names) \in Seq(Key)
           /\ Range(Keys(type, names)) = {<<type, names[k]>> : k \in DOMAIN names}
<1>1. DOMAIN names = 1..Len(names) /\ Len(names) \in Nat
  OBVIOUS
<1>2. Keys(type, names) \in [1..Len(names) -> Key]
  BY <1>1 DEF Keys
<1>3. Keys(type, names) \in Seq(Key)
  BY <1>1, <1>2
<1>4. Range(Keys(type, names)) = {<<type, names[k]>> : k \in DOMAIN names}
  BY DEF Range, Keys
<1> QED BY <1>3, <1>4

\* What Add does to what is there already, and the new group.
AddedGroup(c, g, head) ==
    /\ Live' = Live \cup {g} /\ \A x \in Live : group'[x] = group[x]
    /\ group'[g] = [type |-> head.type, owner |-> c, names |-> head.names]
AddedList(c, g) ==
    /\ DOMAIN list' = Live \cup {Root, g} /\ list'[g] = << >> /\ list'[c] = Joined(c, g)
    /\ \A x \in (Live \cup {Root}) \ {c} : list'[x] = list[x]
AddedTable(c, g, head) ==
    /\ DOMAIN hash' = Live \cup {Root, g}
    /\ \E n \in Nat \ {0} : hash'[g] = CreateTable(n)
    /\ hash'[c] = EnterAll(hash[c], Keys(head.type, head.names), g)
    /\ \A x \in (Live \cup {Root}) \ {c} : hash'[x] = hash[x]

\* What Add does, group by group.
LEMMA AddIs ==
    ASSUME GroupsInv, ListsInv, TablesInv, NEW c \in Live \cup {Root}, NEW head \in Heads,
           Add(c, head.type, head.names)
    PROVE  \E g \in Group \ Live :
              /\ AddedGroup(c, g, head) /\ AddedList(c, g) /\ AddedTable(c, g, head)
              /\ first' = FirstGiven(c, Range(Keys(head.type, head.names)), g)
              /\ g = NewGroup
<1> DEFINE g == NewGroup
           keys == Keys(head.type, head.names)
           rec == [type |-> head.type, owner |-> c, names |-> head.names]
           n == IF c = Root THEN LibrarySize ELSE GroupSize
<1>1. /\ Live # Group
      /\ group' = Give(group, {g}, rec)
      /\ list' = Give([list EXCEPT ![c] = Joined(c, g)], {g}, << >>)
      /\ hash' = Give([hash EXCEPT ![c] = EnterAll(@, keys, g)], {g}, CreateTable(n))
      /\ first' = FirstGiven(c, Range(keys), g)
  BY DEF Add, Keys
<1>2. g \in Group \ Live
  BY <1>1, NewGroupIsNew
<1>3. n \in Nat \ {0}
  BY StoreAssumption
<1>4. Root \notin Group /\ Live \subseteq Group
  BY StoreAssumption DEF GroupsInv
<1> HIDE DEF g, keys, rec, n
<1>5. Live' = Live \cup {g} /\ (\A x \in Live : group'[x] = group[x]) /\ group'[g] = rec
  BY <1>1, <1>2 DEF Give, Live
<1>6. AddedList(c, g)
  <2>1. DOMAIN list = Live \cup {Root}
    BY DEF ListsInv
  <2>2. list' = [x \in DOMAIN list \cup {g} |->
                   IF x \in {g} THEN << >> ELSE [list EXCEPT ![c] = Joined(c, g)][x]]
    BY <1>1 DEF Give
  <2>3. c # g /\ Root # g
    BY <1>2, <1>4
  <2> QED BY <1>2, <2>1, <2>2, <2>3 DEF AddedList
<1>7. AddedTable(c, g, head)
  <2> DEFINE t == EnterAll(hash[c], keys, g)
             new == CreateTable(n)
  <2>1. DOMAIN hash = Live \cup {Root}
    BY DEF TablesInv
  <2>2. hash' = [x \in DOMAIN hash \cup {g} |->
                   IF x \in {g} THEN new ELSE [hash EXCEPT ![c] = t][x]]
    BY <1>1 DEF Give
  <2>3. c # g /\ Root # g
    BY <1>2, <1>4
  <2>4. hash'[g] = CreateTable(n)
    BY <2>2
  <2> HIDE DEF t, new
  <2>5. /\ DOMAIN hash' = Live \cup {Root, g} /\ hash'[c] = t
        /\ \A x \in (Live \cup {Root}) \ {c} : hash'[x] = hash[x]
    BY <1>2, <2>1, <2>2, <2>3
  <2> QED BY <1>3, <2>4, <2>5 DEF AddedTable, t, keys
<1>8. AddedGroup(c, g, head)
  BY <1>5 DEF AddedGroup, rec
<1> QED BY <1>1, <1>2, <1>6, <1>7, <1>8 DEF keys, g

\* Heads have types and names that make keys.
LEMMA HeadIs ==
    ASSUME NEW head \in Heads
    PROVE  /\ head.type \in GroupTypes /\ head.names \in Seq(KeyNames)
           /\ \A k \in DOMAIN head.names : <<head.type, head.names[k]>> \in Key
BY StoreAssumption DEF GroupTypes, KeyNames

\* KeysOf depends on the record of the group only.
LEMMA KeysOfRecord ==
    ASSUME NEW x, group'[x] = group[x]
    PROVE  KeysOf(x)' = KeysOf(x)
BY DEF KeysOf, KeyOf

\* A new group owns nothing, so the groups stay rooted.
LEMMA AddKeepsGroups ==
    ASSUME GroupsInv, NEW c \in Live \cup {Root}, NEW head \in Heads, NEW g \in Group \ Live,
           AddedGroup(c, g, head)
    PROVE  /\ GroupsInv'
           /\ KeysOf(g)' = Range(Keys(head.type, head.names))
           /\ \A x \in Live : KeysOf(x)' = KeysOf(x)
<1>1. Live' = Live \cup {g} /\ (\A x \in Live : group'[x] = group[x])
      /\ group'[g] = [type |-> head.type, owner |-> c, names |-> head.names]
  BY DEF AddedGroup
<1>2. /\ head.type \in GroupTypes /\ head.names \in Seq(KeyNames)
      /\ Keys(head.type, head.names) \in Seq(Key)
      /\ Range(Keys(head.type, head.names)) = {<<head.type, head.names[k]>> : k \in DOMAIN head.names}
  BY HeadIs, KeysAre
<1>3. Live \subseteq Group /\ Root \notin Group
  BY StoreAssumption DEF GroupsInv
<1>4. \A x \in Live : KeysOf(x)' = KeysOf(x)
  BY <1>1, KeysOfRecord
<1>5. KeysOf(g)' = Range(Keys(head.type, head.names))
  BY <1>1, <1>2 DEF KeysOf, KeyOf
<1>6. Range(Keys(head.type, head.names)) \subseteq Key
  BY <1>2 DEF Range
<1>7. group'[g] \in GroupRecord
  BY <1>1, <1>2, <1>3 DEF GroupRecord
<1>8. \A x \in Live' : /\ group'[x] \in GroupRecord /\ KeysOf(x)' \subseteq Key
                       /\ group'[x].owner \in Live' \cup {Root}
  BY <1>1, <1>4, <1>5, <1>6, <1>7 DEF GroupsInv
<1>9. Rooted'
  <2> SUFFICES ASSUME NEW S \in SUBSET (Live \cup {g}), S # {}
               PROVE  \E x \in S : group'[x].owner \notin S
    BY <1>1 DEF Rooted
  <2>1. CASE S \cap Live = {}
    <3>1. S = {g} /\ c # g
      BY <1>3, <2>1
    <3> QED BY <1>1, <3>1
  <2>2. CASE S \cap Live # {}
    <3>1. PICK x \in S \cap Live : group[x].owner \notin S \cap Live
      BY <2>2 DEF GroupsInv, Rooted
    <3>2. group[x].owner \in Live \cup {Root}
      BY <3>1 DEF GroupsInv
    <3>3. group[x].owner \notin S
      BY <1>3, <3>1, <3>2
    <3> QED BY <1>1, <3>1, <3>3
  <2> QED BY <2>1, <2>2
<1>10. Live' \subseteq Group
  BY <1>1, <1>3
<1> QED BY <1>4, <1>5, <1>8, <1>9, <1>10 DEF GroupsInv

\* It is in its owner's list only, and its own list is empty.
LEMMA AddKeepsLists ==
    ASSUME GroupsInv, ListsInv, NEW c \in Live \cup {Root}, NEW head \in Heads, NEW g \in Group \ Live,
           AddedGroup(c, g, head), AddedList(c, g)
    PROVE  ListsInv'
<1>1. Live' = Live \cup {g} /\ (\A x \in Live : group'[x] = group[x]) /\ group'[g].owner = c
  BY DEF AddedGroup
<1>2. Live \subseteq Group /\ Root \notin Group /\ \A x \in Live : group[x].owner \in Live \cup {Root}
  BY StoreAssumption DEF GroupsInv
<1>3. /\ DOMAIN list' = Live \cup {Root, g} /\ list'[g] = << >> /\ list'[c] = Joined(c, g)
      /\ \A x \in (Live \cup {Root}) \ {c} : list'[x] = list[x]
  BY DEF AddedList
<1>4. \A x \in Live \cup {Root} : /\ list[x] \in Seq(Live) /\ Injective(list[x])
                                  /\ Range(list[x]) = {y \in Live : group[y].owner = x}
  BY DEF ListsInv
<1>5. ASSUME NEW x \in Live \cup {Root, g}
      PROVE  /\ list'[x] \in Seq(Live \cup {g}) /\ Injective(list'[x])
             /\ Range(list'[x]) = {y \in Live \cup {g} : group'[y].owner = x}
  <2>1. CASE x = g
    <3>1. \A y \in Live \cup {g} : group'[y].owner # g
      BY <1>1, <1>2
    <3>2. << >> \in Seq(Live \cup {g}) /\ Injective(<< >>) /\ Range(<< >>) = {}
      BY DEF Injective, Range
    <3> QED BY <1>3, <2>1, <3>1, <3>2
  <2>2. CASE x = c
    <3>1. list'[x] \in {<<g>> \o list[c], Append(list[c], g)}
      BY <1>3, <2>2 DEF Joined
    <3> DEFINE s == list[c]
               t == list'[x]
    <3>0. AtAnEnd(t, s, g)
      BY <3>1 DEF AtAnEnd
    <3>2. s \in Seq(Live) /\ Injective(s) /\ Range(s) = {y \in Live : group[y].owner = c}
      BY <1>4
    <3>3. g \notin Range(s)
      BY <3>2
    <3> DEFINE L == Live
               M == Live'
    <3>4. M = L \cup {g} /\ s \in Seq(L) /\ Injective(s)
      BY <1>1, <3>2
    <3>5. Range(s) \cup {g} = {y \in Live \cup {g} : group'[y].owner = x}
      BY <1>1, <2>2, <3>2
    <3> HIDE DEF s, t, L, M
    <3>6. t \in Seq(M) /\ Injective(t) /\ Range(t) = Range(s) \cup {g}
      BY <3>0, <3>3, <3>4, JoinedIs
    <3> QED BY <1>1, <3>5, <3>6 DEF t, M
  <2>3. CASE x # g /\ x # c
    <3>1. list'[x] = list[x] /\ x \in Live \cup {Root}
      BY <1>3, <2>3
    <3>2. list[x] \in Seq(Live \cup {g})
      <4>1. list[x] \in Seq(Live)
        BY <1>4, <3>1
      <4> QED BY <4>1
    <3>3. {y \in Live \cup {g} : group'[y].owner = x} = {y \in Live : group[y].owner = x}
      BY <1>1, <2>3
    <3> QED BY <1>4, <3>1, <3>2, <3>3
  <2> QED BY <2>1, <2>2, <2>3
<1>6. Live \cup {Root, g} = Live' \cup {Root}
  BY <1>1
<1> QED BY <1>1, <1>3, <1>5, <1>6 DEF ListsInv

\* The tables, and what is found in them.
LEMMA AddKeepsTables ==
    ASSUME GroupsInv, TablesInv, NEW c \in Live \cup {Root}, NEW head \in Heads, NEW g \in Group \ Live,
           AddedGroup(c, g, head), AddedTable(c, g, head)
    PROVE  /\ TablesInv'
           /\ Contents(hash'[g]) = << >>
           /\ Contents(hash'[c]) = GiveIfFree(Contents(hash[c]), Range(Keys(head.type, head.names)), g)
           /\ \A x \in (Live \cup {Root}) \ {c} : Contents(hash'[x]) = Contents(hash[x])
<1> DEFINE keys == Keys(head.type, head.names)
<1>1. Live' = Live \cup {g}
  BY DEF AddedGroup
<1>2. /\ DOMAIN hash' = Live \cup {Root, g}
      /\ hash'[c] = EnterAll(hash[c], keys, g)
      /\ \A x \in (Live \cup {Root}) \ {c} : hash'[x] = hash[x]
  BY DEF AddedTable
<1>3. PICK n \in Nat \ {0} : hash'[g] = CreateTable(n)
  BY DEF AddedTable
<1>4. keys \in Seq(Key)
  BY HeadIs, KeysAre
<1> HIDE DEF keys
<1>5. \A x \in Live \cup {Root} : TableInv(hash[x])
  BY DEF TablesInv
<1>6. TableInv(hash'[c]) /\ Contents(hash'[c]) = GiveIfFree(Contents(hash[c]), Range(keys), g)
  BY <1>2, <1>4, <1>5, EnterAllKeeps
<1>7. TableInv(hash'[g]) /\ Contents(hash'[g]) = << >>
  BY <1>3, CreatedTable
<1>8. TablesInv'
  <2>1. \A x \in Live \cup {Root, g} : TableInv(hash'[x])
    BY <1>2, <1>5, <1>6, <1>7
  <2>2. Live \cup {Root, g} = Live' \cup {Root}
    BY <1>1
  <2> QED BY <1>2, <2>1, <2>2 DEF TablesInv
<1> QED BY <1>2, <1>6, <1>7, <1>8 DEF keys

\* Names that were free stand for it, the others for what they did.
LEMMA AddKeepsNames ==
    ASSUME GroupsInv, TablesInv, NamesInv,
           NEW c \in Live \cup {Root}, NEW head \in Heads, NEW g \in Group \ Live,
           AddedGroup(c, g, head), AddedTable(c, g, head)
    PROVE  NamesInv'
<1> DEFINE keys == Range(Keys(head.type, head.names))
<1>1. /\ Contents(hash'[g]) = << >>
      /\ Contents(hash'[c]) = GiveIfFree(Contents(hash[c]), keys, g)
      /\ \A x \in (Live \cup {Root}) \ {c} : Contents(hash'[x]) = Contents(hash[x])
  BY AddKeepsTables
<1>2. KeysOf(g)' = keys /\ \A x \in Live : KeysOf(x)' = KeysOf(x)
  BY AddKeepsGroups
<1>3. Live' = Live \cup {g} /\ (\A x \in Live : group'[x] = group[x]) /\ group'[g].owner = c
  BY DEF AddedGroup
<1> HIDE DEF keys
<1> SUFFICES ASSUME NEW x \in Live \cup {Root, g}, NEW key \in DOMAIN Contents(hash'[x])
             PROVE  \E y \in Live' : /\ Contents(hash'[x])[key] = y /\ group'[y].owner = x
                                     /\ key \in KeysOf(y)'
  BY <1>3 DEF NamesInv
<1>4. CASE x = g
  BY <1>1, <1>4
<1>5. CASE x # g /\ x # c
  <2>1. Contents(hash'[x]) = Contents(hash[x]) /\ x \in Live \cup {Root}
    BY <1>1, <1>5
  <2>2. PICK y \in Live : Contents(hash[x])[key] = y /\ group[y].owner = x /\ key \in KeysOf(y)
    BY <2>1 DEF NamesInv
  <2> QED BY <1>2, <1>3, <2>1, <2>2
<1>6. CASE x = c
  <2> DEFINE f == Contents(hash[c])
  <2>1. /\ DOMAIN Contents(hash'[c]) = DOMAIN f \cup keys
        /\ Contents(hash'[c])[key] = IF key \in keys \ DOMAIN f THEN g ELSE f[key]
    BY <1>1, <1>6 DEF GiveIfFree, Give
  <2>2. CASE key \in keys \ DOMAIN f
    BY <1>2, <1>3, <1>6, <2>1, <2>2
  <2>3. CASE key \in DOMAIN f
    <3>1. PICK y \in Live : f[key] = y /\ group[y].owner = c /\ key \in KeysOf(y)
      BY <2>3 DEF NamesInv
    <3>2. Contents(hash'[c])[key] = y
      BY <2>1, <2>3, <3>1
    <3> QED BY <1>2, <1>3, <1>6, <3>1, <3>2
  <2> QED BY <1>6, <2>1, <2>2, <2>3
<1> QED BY <1>4, <1>5, <1>6
\* What is found first, while nothing is deleted, is what the tables hold.
LEMMA AddKeepsFirst ==
    ASSUME GroupsInv, TablesInv, FirstInv,
           NEW c \in Live \cup {Root}, NEW head \in Heads, NEW g \in Group \ Live,
           AddedGroup(c, g, head), AddedTable(c, g, head), deleted' = deleted,
           first' = FirstGiven(c, Range(Keys(head.type, head.names)), g)
    PROVE  FirstInv'
<1> DEFINE keys == Range(Keys(head.type, head.names))
           new == GiveIfFree(first[c], keys, g)
<1>1. /\ Contents(hash'[g]) = << >>
      /\ Contents(hash'[c]) = GiveIfFree(Contents(hash[c]), keys, g)
      /\ \A x \in (Live \cup {Root}) \ {c} : Contents(hash'[x]) = Contents(hash[x])
  BY AddKeepsTables
<1>2. first' = [first EXCEPT ![c] = new]
  BY DEF FirstGiven
<1>3. Live' = Live \cup {g} /\ Live \subseteq Group /\ Root \notin Group
  BY StoreAssumption DEF AddedGroup, GroupsInv
<1>4. deleted' = deleted
  OBVIOUS
<1> HIDE DEF keys, new
<1>5. DOMAIN first = {Root} \cup Group
  BY DEF FirstInv
<1>6. DOMAIN first' = {Root} \cup Group
  BY <1>2, <1>5
<1>7. ASSUME ~deleted PROVE /\ \A x \in Live' \cup {Root} : first'[x] = Contents(hash'[x])
                            /\ \A x \in Group \ Live' : first'[x] = << >>
  <2>1. /\ \A x \in Live \cup {Root} : first[x] = Contents(hash[x])
        /\ \A x \in Group \ Live : first[x] = << >>
    BY <1>7 DEF FirstInv
  <2>2. new = Contents(hash'[c])
    BY <1>1, <2>1 DEF new
  <2>3. first'[c] = new /\ \A x \in Live \cup {Root} : x # c => first'[x] = first[x]
    BY <1>2, <1>3, <1>5
  <2>4. \A x \in Group \ Live : first'[x] = first[x]
    BY <1>2, <1>3, <1>5
  <2> QED BY <1>1, <1>3, <2>1, <2>2, <2>3, <2>4
<1> QED BY <1>4, <1>6, <1>7 DEF FirstInv
-----------------------------------------------------------------------------
(* The steps.                                                              *)

\* The groups that are open are groups, and the next one is put into the last of them.
LEMMA LastIsOpen ==
    ASSUME gs \in Seq(Live), gs # << >>
    PROVE  Last(gs) \in Live /\ Front(gs) \in Seq(Live)
<1>1. Len(gs) \in Nat /\ Len(gs) # 0
  OBVIOUS
<1>2. Last(gs) \in Live
  BY <1>1 DEF Last
<1>3. Front(gs) \in Seq(Live)
  BY <1>1 DEF Front
<1> QED BY <1>2, <1>3


\* All of Add.
LEMMA AddKeeps ==
    ASSUME StructureInv, NEW c \in Live \cup {Root}, NEW head \in Heads,
           Add(c, head.type, head.names), deleted' = deleted
    PROVE  StructureInv' /\ Live' = Live \cup {NewGroup}
<1>1. GroupsInv /\ ListsInv /\ TablesInv /\ NamesInv /\ FirstInv
  BY DEF StructureInv
<1>2. PICK g \in Group \ Live :
              /\ AddedGroup(c, g, head) /\ AddedList(c, g) /\ AddedTable(c, g, head)
              /\ first' = FirstGiven(c, Range(Keys(head.type, head.names)), g)
              /\ g = NewGroup
  BY <1>1, AddIs
<1>3. GroupsInv'
  BY <1>1, <1>2, AddKeepsGroups
<1>4. ListsInv'
  BY <1>1, <1>2, AddKeepsLists
<1>5. TablesInv'
  BY <1>1, <1>2, AddKeepsTables
<1>6. NamesInv'
  BY <1>1, <1>2, AddKeepsNames
<1>7. FirstInv'
  BY <1>1, <1>2, AddKeepsFirst
<1>8. Live' = Live \cup {NewGroup}
  BY <1>2 DEF AddedGroup
<1> QED BY <1>3, <1>4, <1>5, <1>6, <1>7, <1>8 DEF StructureInv

\* Steps that only change the phase.
LEMMA SameStructure ==
    ASSUME StructureInv, UNCHANGED <<group, list, hash, first, deleted>>
    PROVE  StructureInv' /\ Live' = Live
<1>1. GroupsInv'
  BY DEF StructureInv, GroupsInv, Live, Rooted, KeysOf, KeyOf
<1>2. ListsInv' /\ TablesInv'
  BY DEF StructureInv, ListsInv, TablesInv, Live
<1>3. NamesInv'
  BY DEF StructureInv, NamesInv, Live, KeysOf, KeyOf
<1>4. FirstInv' /\ Live' = Live
  BY DEF StructureInv, FirstInv, Live
<1> QED BY <1>1, <1>2, <1>3, <1>4 DEF StructureInv

\* The parser's push_group.
LEMMA PushGroupKeeps ==
    ASSUME StructureInv, PhaseInv, PushGroup
    PROVE  StructureInv' /\ PhaseInv'
<1>1. /\ pc = "parse" /\ gs' = Append(gs, NewGroup) /\ pc' = pc /\ deleted' = deleted
      /\ \E head \in Heads : Add(Top, head.type, head.names)
  BY DEF PushGroup
<1>2. gs \in Seq(Live)
  BY DEF PhaseInv
<1>3. Top \in Live \cup {Root}
  BY <1>2, LastIsOpen DEF Top
<1>4. PICK head \in Heads : Add(Top, head.type, head.names)
  BY <1>1
<1>5. StructureInv' /\ Live' = Live \cup {NewGroup}
  BY <1>1, <1>3, <1>4, AddKeeps
<1>6. gs' \in Seq(Live')
  <2> DEFINE g == NewGroup
             L == Live
             M == Live'
  <2>1. M = L \cup {g} /\ gs' = Append(gs, g) /\ gs \in Seq(L)
    BY <1>1, <1>2, <1>5
  <2> HIDE DEF g, L, M
  <2>2. gs \in Seq(M) /\ g \in M
    BY <2>1
  <2>3. gs' \in Seq(M)
    BY <2>1, <2>2
  <2> QED BY <2>3 DEF M
<1> QED BY <1>1, <1>5, <1>6 DEF PhaseInv

\* The parser's pop_group.
LEMMA PopGroupKeeps ==
    ASSUME StructureInv, PhaseInv, PopGroup
    PROVE  StructureInv' /\ PhaseInv'
<1>1. /\ gs # << >> /\ gs' = Front(gs) /\ pc' = IF gs' = << >> THEN "edit" ELSE "parse"
      /\ UNCHANGED <<group, list, hash, iter, first, deleted>>
  BY DEF PopGroup
<1>2. gs' \in Seq(Live)
  BY <1>1, LastIsOpen DEF PhaseInv
<1>3. StructureInv'
  BY <1>1, SameStructure
<1>4. Live' = Live
  BY <1>1 DEF Live
<1> QED BY <1>1, <1>2, <1>3, <1>4 DEF PhaseInv

\* Programs that create groups.
LEMMA CreateGroupKeeps ==
    ASSUME StructureInv, PhaseInv, CreateGroup
    PROVE  StructureInv' /\ PhaseInv'
<1>1. pc = "edit" /\ pc' = pc /\ gs' = gs /\ deleted' = deleted
  BY DEF CreateGroup, Edit
<1>2. PICK c \in Live \cup {Root}, head \in Heads : Add(c, head.type, head.names)
  BY DEF CreateGroup
<1>3. StructureInv'
  BY <1>1, <1>2, AddKeeps
<1>4. gs' = << >> /\ gs' \in Seq(Live')
  BY <1>1 DEF PhaseInv
<1> QED BY <1>1, <1>3, <1>4 DEF PhaseInv
-----------------------------------------------------------------------------
(* Names.                                                                  *)

LEMMA EnterIfFreeKeeps ==
    ASSUME NEW ht, TableInv(ht), NEW key \in Key, NEW g \in Group
    PROVE  /\ TableInv(EnterIfFree(ht, key, g))
           /\ Contents(EnterIfFree(ht, key, g)) = GiveIfFree(Contents(ht), {key}, g)
<1>1. CASE Lookup(ht, key) = NoItem
  <2>1. EnterIfFree(ht, key, g) = Enter(ht, key, g)
    BY <1>1 DEF EnterIfFree
  <2> QED BY <2>1, EnterKeeps
<1>2. CASE Lookup(ht, key) # NoItem
  <2>1. EnterIfFree(ht, key, g) = ht
    BY <1>2 DEF EnterIfFree
  <2> DEFINE f == Contents(ht)
  <2>2. key \in DOMAIN f
    BY <1>2 DEF Contents
  <2>3. f = [k \in DOMAIN f |-> f[k]]
    BY DEF Contents
  <2> HIDE DEF f
  <2>4. GiveIfFree(f, {key}, g) = [k \in DOMAIN f |-> f[k]]
    BY <2>2 DEF GiveIfFree, Give
  <2> QED BY <2>1, <2>3, <2>4 DEF f
<1> QED BY <1>1, <1>2

\* The keys a group has with certain names.
KeysWith(g, names) == {KeyOf(g, names[k]) : k \in DOMAIN names}

\* A group that gets other names stays where it is.
LEMMA RenamedKeeps ==
    ASSUME GroupsInv, ListsInv, NEW g \in Live, NEW names \in Seq(KeyNames),
           \A k \in DOMAIN names : KeyOf(g, names[k]) \in Key,
           group' = [group EXCEPT ![g].names = names], list' = list
    PROVE  /\ GroupsInv' /\ ListsInv' /\ Live' = Live
           /\ \A x \in Live : group'[x].owner = group[x].owner
           /\ \A x \in Live \ {g} : KeysOf(x)' = KeysOf(x)
           /\ KeysOf(g)' = KeysWith(g, names)
<1>1. /\ Live \subseteq Group /\ Rooted
      /\ \A x \in Live : /\ group[x] \in GroupRecord /\ KeysOf(x) \subseteq Key
                         /\ group[x].owner \in Live \cup {Root}
  BY DEF GroupsInv
<1>2. Live' = Live /\ (\A x \in Live \ {g} : group'[x] = group[x])
      /\ group'[g] = [group[g] EXCEPT !.names = names]
  BY DEF Live
<1>3. /\ group'[g] \in GroupRecord /\ group'[g].owner = group[g].owner
      /\ group'[g].type = group[g].type /\ group'[g].names = names
  BY <1>1, <1>2 DEF GroupRecord
<1>4. \A x \in Live : group'[x].owner = group[x].owner
  BY <1>2, <1>3
<1>5. \A x \in Live \ {g} : KeysOf(x)' = KeysOf(x)
  BY <1>2, KeysOfRecord
<1>6. KeysOf(g)' = {KeyOf(g, names[k]) : k \in DOMAIN names}
  BY <1>3 DEF KeysOf, KeyOf
<1>6a. KeysOf(g)' = KeysWith(g, names) /\ KeysWith(g, names) \subseteq Key
  BY <1>6 DEF KeysWith
<1>7. Rooted'
  <2>1. \A S \in SUBSET Live : S # {} => \E x \in S : group'[x].owner \notin S
    <3> SUFFICES ASSUME NEW S \in SUBSET Live, S # {} PROVE \E x \in S : group'[x].owner \notin S
      OBVIOUS
    <3>1. PICK x \in S : group[x].owner \notin S
      BY <1>1 DEF Rooted
    <3> QED BY <1>4, <3>1
  <2> QED BY <1>2, <2>1 DEF Rooted
<1>8. GroupsInv'
  <2>1. \A x \in Live : /\ group'[x] \in GroupRecord /\ KeysOf(x)' \subseteq Key
                        /\ group'[x].owner \in Live \cup {Root}
    BY <1>1, <1>2, <1>3, <1>4, <1>5, <1>6a
  <2> QED BY <1>1, <1>2, <1>7, <2>1 DEF GroupsInv
<1>9. ListsInv'
  <2>1. \A c : {y \in Live : group'[y].owner = c} = {y \in Live : group[y].owner = c}
    BY <1>4
  <2>2. /\ DOMAIN list = Live \cup {Root}
        /\ \A c \in Live \cup {Root} :
          /\ list[c] \in Seq(Live) /\ Injective(list[c])
          /\ Range(list[c]) = {y \in Live : group[y].owner = c}
    BY DEF ListsInv
  <2>3. \A c \in Live \cup {Root} :
          /\ list'[c] \in Seq(Live) /\ Injective(list'[c])
          /\ Range(list'[c]) = {y \in Live : group'[y].owner = c}
    BY <2>1, <2>2
  <2> QED BY <1>2, <2>2, <2>3 DEF ListsInv
<1> QED BY <1>2, <1>4, <1>5, <1>6a, <1>8, <1>9

\* A container's table is replaced by another one.
LEMMA RetabledKeeps ==
    ASSUME TablesInv, NEW c \in Live \cup {Root}, NEW t, TableInv(t),
           hash' = [hash EXCEPT ![c] = t], Live' = Live
    PROVE  TablesInv' /\ hash'[c] = t /\ \A x \in (Live \cup {Root}) \ {c} : hash'[x] = hash[x]
<1>1. DOMAIN hash = Live \cup {Root} /\ \A x \in Live \cup {Root} : TableInv(hash[x])
  BY DEF TablesInv
<1>2. /\ DOMAIN hash' = Live \cup {Root} /\ hash'[c] = t
      /\ \A x \in (Live \cup {Root}) \ {c} : hash'[x] = hash[x]
  BY <1>1
<1>3. \A x \in Live \cup {Root} : TableInv(hash'[x])
  BY <1>1, <1>2
<1> QED BY <1>2, <1>3 DEF TablesInv
\* The names of a group and the key it gets with another one.
LEMMA AppendedName ==
    ASSUME GroupsInv, NEW g \in Live, NEW key \in Key, key[1] = group[g].type,
           NEW names, names = Append(group[g].names, key[2])
    PROVE  /\ names \in Seq(KeyNames)
           /\ KeysWith(g, names) = KeysOf(g) \cup {key}
           /\ \A k \in DOMAIN names : KeyOf(g, names[k]) \in Key
<1> DEFINE old == group[g].names
<1>1. group[g] \in GroupRecord /\ KeysOf(g) \subseteq Key
  BY DEF GroupsInv
<1>2. old \in Seq(KeyNames) /\ key[2] \in KeyNames /\ names = Append(old, key[2])
  BY <1>1 DEF GroupRecord, KeyNames
<1>3. KeyOf(g, key[2]) = key
  BY StoreAssumption DEF KeyOf
<1>4. KeysOf(g) = {KeyOf(g, old[k]) : k \in DOMAIN old}
  BY DEF KeysOf
<1> HIDE DEF old
<1>5. /\ names \in Seq(KeyNames) /\ DOMAIN names = 1..(Len(old) + 1) /\ DOMAIN old = 1..Len(old)
      /\ names[Len(old) + 1] = key[2] /\ \A k \in 1..Len(old) : names[k] = old[k]
      /\ Len(old) \in Nat
  BY <1>2
<1>6. \A k : k \in DOMAIN names <=> k \in DOMAIN old \/ k = Len(old) + 1
  BY <1>5
<1>7. {KeyOf(g, names[k]) : k \in DOMAIN names} = KeysOf(g) \cup {key}
  <2>1. \A k \in DOMAIN old : names[k] = old[k]
    BY <1>5
  <2>2. KeyOf(g, names[Len(old) + 1]) = key
    BY <1>3, <1>5
  <2>3. \A x : x \in {KeyOf(g, names[k]) : k \in DOMAIN names}
                 <=> x \in {KeyOf(g, old[k]) : k \in DOMAIN old} \/ x = key
    BY <1>6, <2>1, <2>2
  <2> QED BY <1>4, <2>3
<1>8. \A k \in DOMAIN names : KeyOf(g, names[k]) \in Key
  <2>1. \A k \in DOMAIN names : KeyOf(g, names[k]) \in KeysOf(g) \cup {key}
    BY <1>7
  <2> QED BY <1>1, <2>1
<1> QED BY <1>5, <1>7, <1>8 DEF KeysWith

\* si2drGroupAddName: the table gets the name only if it is free.
LEMMA AddNameKeeps ==
    ASSUME StructureInv, PhaseInv, AddName
    PROVE  StructureInv' /\ PhaseInv'
<1>1. GroupsInv /\ ListsInv /\ TablesInv /\ NamesInv /\ FirstInv
  BY DEF StructureInv
<1>2. /\ pc = "edit" /\ pc' = pc /\ gs' = gs /\ deleted' = deleted /\ list' = list
      /\ \E g \in Live, key \in Key :
            LET c == group[g].owner IN
            /\ key[1] = group[g].type
            /\ hash' = [hash EXCEPT ![c] = EnterIfFree(@, key, g)]
            /\ group' = [group EXCEPT ![g].names = Append(@, key[2])]
            /\ first' = FirstGiven(c, {key}, g)
  BY DEF AddName, Edit
<1>3. PICK g \in Live, key \in Key :
         LET c == group[g].owner IN
         /\ key[1] = group[g].type
         /\ hash' = [hash EXCEPT ![c] = EnterIfFree(@, key, g)]
         /\ group' = [group EXCEPT ![g].names = Append(@, key[2])]
         /\ first' = FirstGiven(c, {key}, g)
  BY <1>2
<1> DEFINE c == group[g].owner
           names == Append(group[g].names, key[2])
           t == EnterIfFree(hash[c], key, g)
<1>4. c \in Live \cup {Root} /\ Live \subseteq Group /\ Root \notin Group
  BY <1>1, StoreAssumption DEF GroupsInv
<1>5. /\ hash' = [hash EXCEPT ![c] = t]
      /\ group' = [group EXCEPT ![g].names = names]
      /\ first' = FirstGiven(c, {key}, g)
  BY <1>3
<1>6. /\ names \in Seq(KeyNames) /\ (\A k \in DOMAIN names : KeyOf(g, names[k]) \in Key)
      /\ KeysWith(g, names) = KeysOf(g) \cup {key}
  <2>1. key[1] = group[g].type /\ names = Append(group[g].names, key[2])
    BY <1>3
  <2> HIDE DEF names
  <2>2. names \in Seq(KeyNames)
    BY <1>1, <2>1, AppendedName
  <2>3. \A k \in DOMAIN names : KeyOf(g, names[k]) \in Key
    BY <1>1, <2>1, AppendedName
  <2>4. KeysWith(g, names) = KeysOf(g) \cup {key}
    BY <1>1, <2>1, AppendedName
  <2> QED BY <2>2, <2>3, <2>4
<1>7. TableInv(hash[c])
  BY <1>1, <1>4 DEF TablesInv
<1>8. TableInv(t) /\ Contents(t) = GiveIfFree(Contents(hash[c]), {key}, g)
  BY <1>4, <1>7, EnterIfFreeKeeps
<1> HIDE DEF names, t
<1>9. /\ GroupsInv' /\ ListsInv' /\ Live' = Live
      /\ \A x \in Live : group'[x].owner = group[x].owner
      /\ \A x \in Live \ {g} : KeysOf(x)' = KeysOf(x)
      /\ KeysOf(g)' = KeysOf(g) \cup {key}
  BY <1>1, <1>2, <1>5, <1>6, RenamedKeeps
<1>10. TablesInv' /\ hash'[c] = t /\ \A x \in (Live \cup {Root}) \ {c} : hash'[x] = hash[x]
  BY <1>1, <1>4, <1>5, <1>8, <1>9, RetabledKeeps
<1> DEFINE f == Contents(hash[c])
           new == GiveIfFree(first[c], {key}, g)
<1>11. Contents(hash'[c]) = [k \in DOMAIN f \cup {key} |-> IF k \in {key} \ DOMAIN f THEN g ELSE f[k]]
  BY <1>8, <1>10 DEF GiveIfFree, Give
<1>12. NamesInv'
  <2>1. \A x \in Live : KeysOf(x) \subseteq KeysOf(x)'
    BY <1>9
  <2>2. \A x \in Live \cup {Root} : \A k \in DOMAIN Contents(hash[x]) :
           \E y \in Live : Contents(hash[x])[k] = y /\ group[y].owner = x /\ k \in KeysOf(y)
    BY <1>1 DEF NamesInv
  <2> SUFFICES ASSUME NEW x \in Live \cup {Root}, NEW k \in DOMAIN Contents(hash'[x])
               PROVE  \E y \in Live : /\ Contents(hash'[x])[k] = y /\ group'[y].owner = x
                                      /\ k \in KeysOf(y)'
    BY <1>9 DEF NamesInv
  <2>3. CASE x # c
    <3>1. hash'[x] = hash[x]
      BY <1>10, <2>3
    <3>2. PICK y \in Live : Contents(hash[x])[k] = y /\ group[y].owner = x /\ k \in KeysOf(y)
      BY <2>2, <3>1
    <3> QED BY <1>9, <2>1, <3>1, <3>2
  <2>4. CASE x = c /\ k \in DOMAIN f
    <3>1. Contents(hash'[c])[k] = f[k]
      BY <1>11, <2>4
    <3>2. PICK y \in Live : f[k] = y /\ group[y].owner = c /\ k \in KeysOf(y)
      BY <1>4, <2>2, <2>4
    <3> QED BY <1>9, <2>1, <2>4, <3>1, <3>2
  <2>5. CASE x = c /\ k \notin DOMAIN f
    <3>1. k = key /\ Contents(hash'[c])[k] = g
      BY <1>11, <2>5
    <3>2. group'[g].owner = c
      BY <1>9
    <3> QED BY <1>9, <2>5, <3>1, <3>2
  <2> QED BY <2>3, <2>4, <2>5
<1>13. FirstInv'
  <2> HIDE DEF c
  <2>0. first' = [first EXCEPT ![c] = new]
    BY <1>5 DEF FirstGiven
  <2> HIDE DEF new
  <2>1. DOMAIN first = {Root} \cup Group
    BY <1>1 DEF FirstInv
  <2>2. DOMAIN first' = {Root} \cup Group
    BY <2>0, <2>1
  <2>3. ASSUME ~deleted PROVE /\ \A x \in Live \cup {Root} : first'[x] = Contents(hash'[x])
                              /\ \A x \in Group \ Live : first'[x] = << >>
    <3>1. /\ \A x \in Live \cup {Root} : first[x] = Contents(hash[x])
          /\ \A x \in Group \ Live : first[x] = << >>
      BY <1>1, <2>3 DEF FirstInv
    <3>2. new = Contents(hash'[c])
      BY <1>4, <1>8, <1>10, <3>1 DEF new
    <3>3. first'[c] = new /\ \A x \in {Root} \cup Group : x # c => first'[x] = first[x]
      BY <1>4, <2>0, <2>1
    <3> QED BY <1>4, <1>10, <3>1, <3>2, <3>3
  <2> QED BY <1>2, <1>9, <2>2, <2>3 DEF FirstInv
<1>14. PhaseInv'
  BY <1>2, <1>9 DEF PhaseInv
<1> QED BY <1>9, <1>10, <1>12, <1>13, <1>14 DEF StructureInv
\* The names of a group without one of them, and the keys it still has.
LEMMA RemovedName ==
    ASSUME GroupsInv, NEW g \in Live, NEW key \in KeysOf(g),
           NEW names, names = RemoveFirst(group[g].names, key[2])
    PROVE  /\ names \in Seq(KeyNames)
           /\ \A k \in DOMAIN names : KeyOf(g, names[k]) \in Key
           /\ KeysOf(g) \ {key} \subseteq KeysWith(g, names)
<1> DEFINE old == group[g].names
           e == key[2]
<1>1. group[g] \in GroupRecord /\ KeysOf(g) \subseteq Key
  BY DEF GroupsInv
<1>2. old \in Seq(KeyNames) /\ names = RemoveFirst(old, e)
  BY <1>1 DEF GroupRecord
<1>3. KeysOf(g) = {KeyOf(g, old[k]) : k \in DOMAIN old}
  BY DEF KeysOf
<1>4. KeyOf(g, e) = key
  BY <1>3 DEF KeyOf
<1> HIDE DEF old, e
<1>5. /\ names \in Seq(KeyNames) /\ Range(names) \subseteq Range(old)
      /\ Range(old) \ {e} \subseteq Range(names)
  BY <1>2, RemoveFirstFromNames
<1>6. ASSUME NEW k \in DOMAIN names PROVE KeyOf(g, names[k]) \in Key
  <2>1. names[k] \in Range(old)
    BY <1>5 DEF Range
  <2>2. PICK i \in DOMAIN old : old[i] = names[k]
    BY <2>1 DEF Range
  <2> QED BY <1>1, <1>3, <2>2
<1>7. ASSUME NEW x \in KeysOf(g), x # key PROVE x \in KeysWith(g, names)
  <2>1. PICK i \in DOMAIN old : x = KeyOf(g, old[i])
    BY <1>3
  <2>2. old[i] # e
    BY <1>4, <1>7, <2>1
  <2>3. old[i] \in Range(names)
    BY <1>5, <2>2 DEF Range
  <2>4. PICK k \in DOMAIN names : names[k] = old[i]
    BY <2>3 DEF Range
  <2> QED BY <2>1, <2>4 DEF KeysWith
<1> QED BY <1>5, <1>6, <1>7

\* si2drGroupDeleteName: it deletes the key only if it stands for the group.
LEMMA DeleteNameKeeps ==
    ASSUME StructureInv, PhaseInv, DeleteName
    PROVE  StructureInv' /\ PhaseInv'
<1>1. GroupsInv /\ ListsInv /\ TablesInv /\ NamesInv /\ FirstInv
  BY DEF StructureInv
<1>2. /\ pc = "edit" /\ pc' = pc /\ gs' = gs /\ deleted' = TRUE /\ list' = list
  BY DEF DeleteName, Edit
<1>3a. PICK g \in Live : \E key \in KeysOf(g) :
         LET c == group[g].owner IN
         /\ group' = [group EXCEPT ![g].names = RemoveFirst(@, key[2])]
         /\ hash' = [hash EXCEPT ![c] = DeleteElem(@, key)]
         /\ first' = [first EXCEPT ![c] = Without(@, {key})]
  BY DEF DeleteName
<1>3. PICK key \in KeysOf(g) :
         LET c == group[g].owner IN
         /\ group' = [group EXCEPT ![g].names = RemoveFirst(@, key[2])]
         /\ hash' = [hash EXCEPT ![c] = DeleteElem(@, key)]
         /\ first' = [first EXCEPT ![c] = Without(@, {key})]
  BY <1>3a
<1> DEFINE c == group[g].owner
           names == RemoveFirst(group[g].names, key[2])
           t == DeleteElem(hash[c], key)
<1>4. c \in Live \cup {Root} /\ key \in Key
  BY <1>1 DEF GroupsInv
<1>5. /\ hash' = [hash EXCEPT ![c] = t]
      /\ group' = [group EXCEPT ![g].names = names]
      /\ first' = [first EXCEPT ![c] = Without(@, {key})]
  BY <1>3
<1>6. /\ names \in Seq(KeyNames) /\ (\A k \in DOMAIN names : KeyOf(g, names[k]) \in Key)
      /\ KeysOf(g) \ {key} \subseteq KeysWith(g, names)
  <2>1. names = RemoveFirst(group[g].names, key[2])
    OBVIOUS
  <2> HIDE DEF names
  <2>2. names \in Seq(KeyNames)
    BY <1>1, <2>1, RemovedName
  <2>3. \A k \in DOMAIN names : KeyOf(g, names[k]) \in Key
    BY <1>1, <2>1, RemovedName
  <2>4. KeysOf(g) \ {key} \subseteq KeysWith(g, names)
    BY <1>1, <2>1, RemovedName
  <2> QED BY <2>2, <2>3, <2>4
<1>7. TableInv(hash[c])
  BY <1>1, <1>4 DEF TablesInv
<1>8. TableInv(t) /\ Contents(t) = Without(Contents(hash[c]), {key})
  BY <1>4, <1>7, DeleteKeeps
<1> HIDE DEF names, t
<1>9. /\ GroupsInv' /\ ListsInv' /\ Live' = Live
      /\ \A x \in Live : group'[x].owner = group[x].owner
      /\ \A x \in Live \ {g} : KeysOf(x)' = KeysOf(x)
      /\ KeysOf(g)' = KeysWith(g, names)
  BY <1>1, <1>2, <1>5, <1>6, RenamedKeeps
<1>10. TablesInv' /\ hash'[c] = t /\ \A x \in (Live \cup {Root}) \ {c} : hash'[x] = hash[x]
  BY <1>1, <1>4, <1>5, <1>8, <1>9, RetabledKeeps
<1> DEFINE f == Contents(hash[c])
<1>11. Contents(hash'[c]) = [k \in DOMAIN f \ {key} |-> f[k]]
  BY <1>8, <1>10 DEF Without
<1>12. NamesInv'
  <2>1. \A x \in Live : KeysOf(x) \ {key} \subseteq KeysOf(x)'
    BY <1>6, <1>9
  <2>2. \A x \in Live \cup {Root} : \A k \in DOMAIN Contents(hash[x]) :
           \E y \in Live : Contents(hash[x])[k] = y /\ group[y].owner = x /\ k \in KeysOf(y)
    BY <1>1 DEF NamesInv
  <2> SUFFICES ASSUME NEW x \in Live \cup {Root}, NEW k \in DOMAIN Contents(hash'[x])
               PROVE  \E y \in Live : /\ Contents(hash'[x])[k] = y /\ group'[y].owner = x
                                      /\ k \in KeysOf(y)'
    BY <1>9 DEF NamesInv
  <2>3. CASE x # c
    <3>1. hash'[x] = hash[x]
      BY <1>10, <2>3
    <3>2. PICK y \in Live : Contents(hash[x])[k] = y /\ group[y].owner = x /\ k \in KeysOf(y)
      BY <2>2, <3>1
    <3>3. y # g
      BY <2>3, <3>2
    <3> QED BY <1>9, <3>1, <3>2, <3>3
  <2>4. CASE x = c
    <3>1. k \in DOMAIN f /\ k # key /\ Contents(hash'[c])[k] = f[k]
      BY <1>11, <2>4
    <3>2. PICK y \in Live : f[k] = y /\ group[y].owner = c /\ k \in KeysOf(y)
      BY <1>4, <2>2, <3>1
    <3> QED BY <1>9, <2>1, <2>4, <3>1, <3>2
  <2> QED BY <2>3, <2>4
<1>13. FirstInv'
  <2>1. DOMAIN first' = {Root} \cup Group
    BY <1>1, <1>5 DEF FirstInv
  <2> QED BY <1>2, <2>1 DEF FirstInv
<1>14. PhaseInv'
  BY <1>2, <1>9 DEF PhaseInv
<1> QED BY <1>9, <1>10, <1>12, <1>13, <1>14 DEF StructureInv
-----------------------------------------------------------------------------
(* Deleting groups.                                                        *)

\* What a group owns, directly or through others, and the group itself: nothing outside of
\* it is owned by it, and the group's owner is outside.
LEMMA WithinIs ==
    ASSUME GroupsInv, NEW g \in Live
    PROVE  /\ Within(g) \subseteq Live /\ g \in Within(g)
           /\ \A x \in Live : group[x].owner \in Within(g) => x \in Within(g)
           /\ \A x \in Within(g) : x # g => group[x].owner \in Within(g)
           /\ group[g].owner \notin Within(g)
<1> DEFINE W == Within(g)
           Closed(S) == g \in S /\ Owning(S)
<1>1. W \subseteq Live /\ \A x \in Live : x \in W <=> \A S \in SUBSET Live : Closed(S) => x \in S
  BY DEF Within
<1>2. g \in W
  BY <1>1
<1> HIDE DEF W
<1>3. ASSUME NEW x \in Live, group[x].owner \in W PROVE x \in W
  <2> SUFFICES ASSUME NEW S \in SUBSET Live, Closed(S) PROVE x \in S
    BY <1>1
  <2>1. group[x].owner \in S
    BY <1>1, <1>3
  <2> QED BY <2>1 DEF Owning
<1>4. ASSUME NEW x \in W, x # g PROVE group[x].owner \in W
  <2> SUFFICES ASSUME group[x].owner \notin W PROVE FALSE
    OBVIOUS
  <2> DEFINE S == W \ {x}
  <2>1. S \in SUBSET Live /\ g \in S
    BY <1>1, <1>2, <1>4
  <2>2. Owning(S)
    BY <1>3 DEF Owning
  <2> HIDE DEF S
  <2>3. x \in S
    BY <1>1, <2>1, <2>2
  <2> QED BY <2>3 DEF S
<1>5. group[g].owner \notin W
  <2> SUFFICES ASSUME group[g].owner \in W PROVE FALSE
    OBVIOUS
  <2>1. \A x \in W : group[x].owner \in W
    BY <1>4
  <2> QED BY <1>1, <1>2, <2>1 DEF GroupsInv, Rooted
<1> QED BY <1>1, <1>2, <1>3, <1>4, <1>5 DEF W

\* A sequence is one of any set that holds its elements.
LEMMA FewerElements ==
    ASSUME NEW S, NEW T, NEW s \in Seq(S), Range(s) \subseteq T
    PROVE  s \in Seq(T)
<1>1. s \in [1..Len(s) -> S] /\ Len(s) \in Nat /\ DOMAIN s = 1..Len(s)
  OBVIOUS
<1>2. \A k \in 1..Len(s) : s[k] \in T
  BY <1>1 DEF Range
<1>3. s \in [1..Len(s) -> T]
  BY <1>1, <1>2
<1> QED BY <1>1, <1>3

\* What goes when a group is deleted, and what stays.
DeletedGroups(g, gone) ==
    /\ gone \subseteq Live /\ g \in gone /\ group[g].owner \notin gone
    /\ Live' = Live \ gone
    /\ \A x \in Live \ gone : /\ group'[x] = group[x] /\ group[x].owner \notin gone
                              /\ KeysOf(x)' = KeysOf(x)
    /\ \A x \in gone : x # g => group[x].owner \in gone

\* What is left after a deletion is owned by what is left.
LEMMA DeletedGroupsAre ==
    ASSUME GroupsInv, NEW g \in Live, NEW gone, gone = Within(g), group' = Without(group, gone)
    PROVE  DeletedGroups(g, gone) /\ GroupsInv'
<1>1. /\ gone \subseteq Live /\ g \in gone /\ group[g].owner \notin gone
      /\ \A x \in Live : group[x].owner \in gone => x \in gone
      /\ \A x \in gone : x # g => group[x].owner \in gone
  BY WithinIs
<1>2. Live' = Live \ gone /\ \A x \in Live \ gone : group'[x] = group[x]
  BY DEF Without, Live
<1>3. \A x \in Live \ gone : KeysOf(x)' = KeysOf(x)
  BY <1>2, KeysOfRecord
<1>4. DeletedGroups(g, gone)
  BY <1>1, <1>2, <1>3 DEF DeletedGroups
<1>5. /\ Live \subseteq Group /\ Rooted
      /\ \A x \in Live : /\ group[x] \in GroupRecord /\ KeysOf(x) \subseteq Key
                         /\ group[x].owner \in Live \cup {Root}
  BY DEF GroupsInv
<1>6. \A x \in Live' : /\ group'[x] \in GroupRecord /\ KeysOf(x)' \subseteq Key
                       /\ group'[x].owner \in Live' \cup {Root}
  BY <1>1, <1>2, <1>3, <1>5
<1>7. Rooted'
  <2>1. \A S \in SUBSET (Live \ gone) : S # {} => \E x \in S : group'[x].owner \notin S
    <3> SUFFICES ASSUME NEW S \in SUBSET (Live \ gone), S # {} PROVE \E x \in S : group'[x].owner \notin S
      OBVIOUS
    <3>1. S \in SUBSET Live
      OBVIOUS
    <3>2. PICK x \in S : group[x].owner \notin S
      BY <1>5, <3>1 DEF Rooted
    <3> QED BY <1>2, <3>2
  <2> QED BY <1>2, <2>1 DEF Rooted
<1> QED BY <1>2, <1>4, <1>5, <1>6, <1>7 DEF GroupsInv

\* The deleted group leaves its owner's list, and lists of deleted groups go.
LEMMA DeletedLists ==
    ASSUME GroupsInv, ListsInv, NEW g \in Live, NEW gone, DeletedGroups(g, gone), NEW c,
           c = group[g].owner,
           list' = Without([list EXCEPT ![c] = RemoveFirst(@, g)], gone)
    PROVE  ListsInv' /\ list'[c] = RemoveFirst(list[c], g) /\ g \in Range(list[c])
<1>1. /\ gone \subseteq Live /\ g \in gone /\ c \notin gone
      /\ Live' = Live \ gone
      /\ \A x \in Live \ gone : group'[x] = group[x] /\ group[x].owner \notin gone
      /\ \A x \in gone : x # g => group[x].owner \in gone
  BY DEF DeletedGroups
<1>2. /\ DOMAIN list = Live \cup {Root}
      /\ \A x \in Live \cup {Root} : /\ list[x] \in Seq(Live) /\ Injective(list[x])
                                     /\ Range(list[x]) = {y \in Live : group[y].owner = x}
  BY DEF ListsInv
<1>3. c \in Live \cup {Root} /\ Root \notin Live
  BY StoreAssumption DEF GroupsInv
<1> DEFINE t == RemoveFirst(list[c], g)
           new == [list EXCEPT ![c] = t]
<1>4. list' = [x \in DOMAIN new \ gone |-> new[x]] /\ DOMAIN new = Live \cup {Root}
  BY <1>2 DEF Without
<1> HIDE DEF t
<1>5. /\ DOMAIN list' = (Live \cup {Root}) \ gone /\ list'[c] = t
      /\ \A x \in (Live \cup {Root}) \ gone : x # c => list'[x] = list[x]
  BY <1>1, <1>2, <1>3, <1>4
<1>6. (Live \cup {Root}) \ gone = Live' \cup {Root}
  BY <1>1, <1>3
<1>7. g \in Range(list[c]) /\ list[c] \in Seq(Live) /\ Injective(list[c])
  BY <1>2, <1>3
<1>8. t \in Seq(Live) /\ Injective(t) /\ Range(t) = Range(list[c]) \ {g}
  BY <1>7, RemoveFirstFromList DEF t
<1>9. Range(t) = {y \in Live' : group'[y].owner = c}
  <2>1. Range(list[c]) = {y \in Live : group[y].owner = c}
    BY <1>2, <1>3
  <2>2. \A y \in gone : y # g => group[y].owner # c
    BY <1>1
  <2>3. \A y \in Live : y # g /\ group[y].owner = c => y \notin gone
    BY <2>2
  <2>4. \A y : y \in Range(t) <=> y \in Live \ gone /\ group[y].owner = c
    BY <1>1, <1>8, <2>1, <2>3
  <2> QED BY <1>1, <2>4
<1>10. ASSUME NEW x \in (Live \cup {Root}) \ gone, x # c
       PROVE  Range(list[x]) = {y \in Live' : group'[y].owner = x}
  <2>1. Range(list[x]) = {y \in Live : group[y].owner = x}
    BY <1>2
  <2>2. \A y \in gone : group[y].owner # x
    BY <1>1, <1>10
  <2> QED BY <1>1, <2>1, <2>2
<1>11. ASSUME NEW x \in (Live \cup {Root}) \ gone
       PROVE  /\ list'[x] \in Seq(Live') /\ Injective(list'[x])
              /\ Range(list'[x]) = {y \in Live' : group'[y].owner = x}
  <2>1. /\ list'[x] \in Seq(Live) /\ Injective(list'[x])
        /\ Range(list'[x]) = {y \in Live' : group'[y].owner = x}
    <3>1. CASE x = c
      BY <1>5, <1>8, <1>9, <3>1
    <3>2. CASE x # c
      <4>1. list'[x] = list[x]
        BY <1>5, <3>2
      <4>2. Range(list[x]) = {y \in Live' : group'[y].owner = x}
        BY <1>10, <3>2
      <4> QED BY <1>2, <4>1, <4>2
    <3> QED BY <3>1, <3>2
  <2> DEFINE M == Live'
             s == list'[x]
  <2>2. Range(s) \subseteq M /\ s \in Seq(Live)
    BY <2>1
  <2> HIDE DEF M, s
  <2>3. s \in Seq(M)
    BY <2>2, FewerElements
  <2> QED BY <2>1, <2>3 DEF M, s
<1> QED BY <1>5, <1>6, <1>7, <1>11 DEF ListsInv, t
\* The keys deleted with a group are all it has.
LEMMA KeysDeleted ==
    ASSUME GroupsInv, NEW g \in Live,
           NEW keys, keys = [k \in DOMAIN NamesOf(g) |-> KeyOf(g, NamesOf(g)[k])]
    PROVE  keys \in Seq(Key) /\ Range(keys) = KeysOf(g)
<1> DEFINE names == group[g].names
<1>1. names \in Seq(KeyNames) /\ KeysOf(g) \subseteq Key
  BY DEF GroupsInv, GroupRecord
<1>2. KeysOf(g) = {KeyOf(g, names[k]) : k \in DOMAIN names}
  BY DEF KeysOf
<1>3. keys = [k \in DOMAIN names |-> KeyOf(g, names[k])]
  BY DEF NamesOf
<1> HIDE DEF names
<1>4. DOMAIN names = 1..Len(names) /\ Len(names) \in Nat
  BY <1>1
<1>5. Range(keys) = KeysOf(g)
  BY <1>2, <1>3 DEF Range
<1>6. keys \in [1..Len(names) -> Key]
  BY <1>1, <1>2, <1>3, <1>4
<1>7. keys \in Seq(Key)
  BY <1>4, <1>6
<1> QED BY <1>5, <1>7

TablesStay(c, gone) == \A x \in (Live \cup {Root}) \ gone : x # c => hash'[x] = hash[x]

\* Its keys leave its owner's table, and tables of deleted groups go.
LEMMA DeletedTables ==
    ASSUME GroupsInv, TablesInv, NEW g \in Live, NEW gone, DeletedGroups(g, gone), NEW c,
           c = group[g].owner, NEW keys \in Seq(Key), Range(keys) = KeysOf(g),
           hash' = Without([hash EXCEPT ![c] = DeleteAll(@, keys)], gone)
    PROVE  /\ TablesInv'
           /\ Contents(hash'[c]) = Without(Contents(hash[c]), KeysOf(g))
           /\ TablesStay(c, gone)
<1>1. gone \subseteq Live /\ c \notin gone /\ Live' = Live \ gone
  BY DEF DeletedGroups
<1>2. c \in Live \cup {Root} /\ Root \notin Live
  BY StoreAssumption DEF GroupsInv
<1>3. DOMAIN hash = Live \cup {Root} /\ \A x \in Live \cup {Root} : TableInv(hash[x])
  BY DEF TablesInv
<1> DEFINE t == DeleteAll(hash[c], keys)
           new == [hash EXCEPT ![c] = t]
<1>4. hash' = [x \in DOMAIN new \ gone |-> new[x]] /\ DOMAIN new = Live \cup {Root}
  BY <1>3 DEF Without
<1>5. TableInv(t) /\ Contents(t) = Without(Contents(hash[c]), Range(keys))
  BY <1>2, <1>3, DeleteAllKeeps
<1> HIDE DEF t
<1>6. /\ DOMAIN hash' = (Live \cup {Root}) \ gone /\ hash'[c] = t
      /\ \A x \in (Live \cup {Root}) \ gone : x # c => hash'[x] = hash[x]
  BY <1>1, <1>2, <1>3, <1>4
<1>7. (Live \cup {Root}) \ gone = Live' \cup {Root}
  BY <1>1, <1>2
<1>8. \A x \in (Live \cup {Root}) \ gone : TableInv(hash'[x])
  BY <1>3, <1>5, <1>6
<1>9. TablesInv'
  BY <1>6, <1>7, <1>8 DEF TablesInv
<1> QED BY <1>5, <1>6, <1>9 DEF TablesStay

\* So no name is left that stands for a deleted group.
LEMMA DeletedNames ==
    ASSUME GroupsInv, NamesInv, NEW g \in Live, NEW gone, DeletedGroups(g, gone), NEW c,
           c = group[g].owner,
           Contents(hash'[c]) = Without(Contents(hash[c]), KeysOf(g)),
           TablesStay(c, gone)
    PROVE  NamesInv'
<1>1. /\ gone \subseteq Live /\ c \notin gone /\ Live' = Live \ gone
      /\ \A x \in Live \ gone : group'[x] = group[x] /\ KeysOf(x)' = KeysOf(x)
      /\ \A x \in gone : x # g => group[x].owner \in gone
  BY DEF DeletedGroups
<1>2. c \in Live \cup {Root} /\ Root \notin Live
  BY StoreAssumption DEF GroupsInv
<1> DEFINE f == Contents(hash[c])
<1>3. Contents(hash'[c]) = [k \in DOMAIN f \ KeysOf(g) |-> f[k]]
  BY DEF Without
<1>4. \A x \in Live \cup {Root} : \A k \in DOMAIN Contents(hash[x]) :
         \E y \in Live : Contents(hash[x])[k] = y /\ group[y].owner = x /\ k \in KeysOf(y)
  BY DEF NamesInv
<1>5. \A x \in (Live \cup {Root}) \ gone : x # c => hash'[x] = hash[x]
  BY DEF TablesStay
<1>6. (Live \cup {Root}) \ gone = Live' \cup {Root}
  BY <1>1, <1>2
<1> SUFFICES ASSUME NEW x \in (Live \cup {Root}) \ gone, NEW k \in DOMAIN Contents(hash'[x])
             PROVE  \E y \in Live' : /\ Contents(hash'[x])[k] = y /\ group'[y].owner = x
                                     /\ k \in KeysOf(y)'
  BY <1>6 DEF NamesInv
<1>7. CASE x = c
  <2>1. k \in DOMAIN f /\ k \notin KeysOf(g) /\ Contents(hash'[c])[k] = f[k]
    BY <1>3, <1>7
  <2>2. PICK y \in Live : f[k] = y /\ group[y].owner = c /\ k \in KeysOf(y)
    BY <1>2, <1>4, <2>1
  <2>3. y # g
    BY <2>1, <2>2
  <2>4. y \notin gone
    BY <1>1, <2>2, <2>3
  <2> QED BY <1>1, <1>7, <2>1, <2>2, <2>4
<1>8. CASE x # c
  <2>1. hash'[x] = hash[x]
    BY <1>5, <1>8
  <2>2. PICK y \in Live : Contents(hash[x])[k] = y /\ group[y].owner = x /\ k \in KeysOf(y)
    BY <1>4, <2>1
  <2>3. y # g /\ group[y].owner \notin gone
    BY <1>8, <2>2
  <2>4. y \notin gone
    BY <1>1, <2>3
  <2> QED BY <1>1, <2>1, <2>2, <2>4
<1> QED BY <1>7, <1>8

\* All of si2drObjectDelete.
LEMMA DeleteGroupKeeps ==
    ASSUME StructureInv, NEW g \in Live, DeleteGroup(g), NEW c, c = group[g].owner
    PROVE  /\ StructureInv' /\ DeletedGroups(g, Within(g))
           /\ list'[c] = RemoveFirst(list[c], g) /\ g \in Range(list[c])
           /\ Contents(hash'[c]) = Without(Contents(hash[c]), KeysOf(g))
           /\ TablesStay(c, Within(g))
<1>1. GroupsInv /\ ListsInv /\ TablesInv /\ NamesInv /\ FirstInv
  BY DEF StructureInv
<1> DEFINE gone == Within(g)
           keys == [k \in DOMAIN NamesOf(g) |-> KeyOf(g, NamesOf(g)[k])]
<1>2. /\ group' = Without(group, gone)
      /\ list' = Without([list EXCEPT ![c] = RemoveFirst(@, g)], gone)
      /\ hash' = Without([hash EXCEPT ![c] = DeleteAll(@, keys)], gone)
      /\ DOMAIN first' = DOMAIN first
      /\ deleted' = TRUE
  BY DEF DeleteGroup
<1>3. keys \in Seq(Key) /\ Range(keys) = KeysOf(g)
  BY <1>1, KeysDeleted
<1> HIDE DEF gone, keys
<1>4. gone = Within(g)
  BY DEF gone
<1>5. DeletedGroups(g, gone) /\ GroupsInv'
  BY <1>1, <1>2, <1>4, DeletedGroupsAre
<1>6. ListsInv' /\ list'[c] = RemoveFirst(list[c], g) /\ g \in Range(list[c])
  BY <1>1, <1>2, <1>5, DeletedLists
<1>7. /\ TablesInv'
      /\ Contents(hash'[c]) = Without(Contents(hash[c]), KeysOf(g))
      /\ TablesStay(c, gone)
  <2>1. GroupsInv /\ TablesInv /\ DeletedGroups(g, gone) /\ c = group[g].owner
    BY <1>1, <1>5
  <2>2. keys \in Seq(Key) /\ Range(keys) = KeysOf(g)
    BY <1>3
  <2>3. hash' = Without([hash EXCEPT ![c] = DeleteAll(@, keys)], gone)
    BY <1>2
  <2>4. TablesInv'
    BY <2>1, <2>2, <2>3, DeletedTables
  <2>5. Contents(hash'[c]) = Without(Contents(hash[c]), KeysOf(g))
    BY <2>1, <2>2, <2>3, DeletedTables
  <2>6. TablesStay(c, gone)
    BY <2>1, <2>2, <2>3, DeletedTables
  <2> QED BY <2>4, <2>5, <2>6
<1>8. NamesInv'
  BY <1>1, <1>5, <1>7, DeletedNames
<1>9. FirstInv'
  BY <1>1, <1>2 DEF FirstInv
<1> QED BY <1>4, <1>5, <1>6, <1>7, <1>8, <1>9 DEF StructureInv

\* Programs that delete groups.
LEMMA ObjectDeleteKeeps ==
    ASSUME StructureInv, PhaseInv, ObjectDelete
    PROVE  StructureInv' /\ PhaseInv'
<1>1. pc = "edit" /\ pc' = pc /\ gs' = gs
  BY DEF ObjectDelete, Edit
<1>2. PICK g \in Live : DeleteGroup(g)
  BY DEF ObjectDelete
<1>3. StructureInv'
  BY <1>2, DeleteGroupKeeps
<1>4. gs' = << >> /\ gs' \in Seq(Live')
  BY <1>1 DEF PhaseInv
<1> QED BY <1>1, <1>3, <1>4 DEF PhaseInv
-----------------------------------------------------------------------------
(* si2drPIQuit.                                                            *)

LEMMA StartQuitKeeps ==
    ASSUME StructureInv, PhaseInv, StartQuit
    PROVE  StructureInv' /\ PhaseInv'
<1>1. /\ pc = "edit" /\ pc' = "quit" /\ iter' = IF list[Root] = << >> THEN Null ELSE list[Root][1]
      /\ UNCHANGED <<gs, group, list, hash, first, deleted>>
  BY DEF StartQuit
<1>2. StructureInv'
  BY <1>1, SameStructure
<1>3. Live' = Live
  BY <1>1 DEF Live
<1> QED BY <1>1, <1>2, <1>3 DEF PhaseInv

\* The iterator has gone on before the first group of the PI's list is deleted, and is then
\* at the first of the shorter list.
LEMMA QuitNextKeeps ==
    ASSUME StructureInv, PhaseInv, QuitNext
    PROVE  StructureInv' /\ PhaseInv'
<1> DEFINE all == list[Root]
           rest == list'[Root]
<1>1. /\ pc = "quit" /\ pc' = pc /\ gs' = gs /\ iter # Null /\ iter' = NextInList(iter)
      /\ DeleteGroup(iter)
  BY DEF QuitNext
<1>2. iter = IF all = << >> THEN Null ELSE all[1]
  BY <1>1 DEF PhaseInv
<1>3. /\ all \in Seq(Live) /\ Injective(all)
      /\ Range(all) = {y \in Live : group[y].owner = Root}
  BY DEF StructureInv, ListsInv
<1>4. all # << >> /\ iter = all[1]
  BY <1>1, <1>2
<1> HIDE DEF all, rest
<1>5. Len(all) \in Nat /\ Len(all) >= 1 /\ DOMAIN all = 1..Len(all)
  BY <1>3, <1>4
<1>6. iter \in Range(all)
  <2>1. 1 \in DOMAIN all
    BY <1>5
  <2> QED BY <1>4, <2>1 DEF Range
<1>7. iter \in Live /\ group[iter].owner = Root
  BY <1>3, <1>6
<1>8. StructureInv' /\ rest = RemoveFirst(all, iter)
  BY <1>1, <1>7, DeleteGroupKeeps DEF all, rest
<1>9. rest = Cut(all, 1)
  BY <1>3, <1>4, <1>6, <1>8, RemoveFirstFromList
<1>10. iter' = IF Len(all) = 1 THEN Null ELSE all[2]
  <2> DEFINE k == CHOOSE n \in DOMAIN all : all[n] = iter
  <2>1. k = 1
    <3>1. 1 \in DOMAIN all /\ all[1] = iter
      BY <1>4, <1>5
    <3>2. \A n \in DOMAIN all : all[n] = iter => n = 1
      BY <1>3, <3>1 DEF Injective
    <3> QED BY <3>1, <3>2
  <2>2. iter' = IF k = Len(all) THEN Null ELSE all[k + 1]
    BY <1>1 DEF NextInList, all
  <2> HIDE DEF k
  <2> QED BY <1>5, <2>1, <2>2
<1>11. iter' = IF rest = << >> THEN Null ELSE rest[1]
  <2>1. rest = [k \in 1..(Len(all) - 1) |-> IF k < 1 THEN all[k] ELSE all[k + 1]]
    BY <1>9 DEF Cut
  <2>2. CASE Len(all) = 1
    <3>1. rest = << >>
      BY <2>1, <2>2
    <3> QED BY <1>10, <2>2, <3>1
  <2>3. CASE Len(all) # 1
    <3>1. 1 \in 1..(Len(all) - 1) /\ ~(1 < 1) /\ 1 + 1 = 2
      BY <1>5, <2>3
    <3>2. rest[1] = all[2] /\ DOMAIN rest = 1..(Len(all) - 1)
      BY <2>1, <3>1
    <3>3. rest # << >>
      BY <3>1, <3>2
    <3> QED BY <1>10, <2>3, <3>2, <3>3
  <2> QED BY <2>2, <2>3
<1>12. gs' = << >> /\ gs' \in Seq(Live')
  BY <1>1 DEF PhaseInv
<1> QED BY <1>1, <1>8, <1>11, <1>12 DEF PhaseInv, rest

\* The iterator is at its end when the list is empty.
LEMMA EndQuitKeeps ==
    ASSUME StructureInv, PhaseInv, EndQuit
    PROVE  StructureInv' /\ PhaseInv'
<1>1. /\ pc = "quit" /\ iter = Null /\ pc' = "end"
      /\ UNCHANGED <<gs, group, list, hash, iter, first, deleted>>
  BY DEF EndQuit
<1>2. StructureInv'
  BY <1>1, SameStructure
<1>3. Live' = Live
  BY <1>1 DEF Live
<1>4. list[Root] = << >>
  <2>1. list[Root] \in Seq(Live) /\ Live \subseteq Group
    BY DEF StructureInv, ListsInv, GroupsInv
  <2>2. list[Root] # << >> => list[Root][1] \in Live
    BY <2>1
  <2>3. Null \notin Group
    BY StoreAssumption
  <2> QED BY <1>1, <2>1, <2>2, <2>3 DEF PhaseInv
<1> QED BY <1>1, <1>2, <1>3, <1>4 DEF PhaseInv
-----------------------------------------------------------------------------
(* The invariant.                                                          *)

LEMMA StoreInit ==
    ASSUME Init
    PROVE  StoreInv
<1>1. Live = {} /\ list = [c \in {Root} |-> << >>] /\ hash = [c \in {Root} |-> CreateTable(MasterSize)]
      /\ first = [c \in {Root} \cup Group |-> << >>] /\ found = [c \in {Root} |-> << >>]
      /\ gs = << >> /\ pc = "parse"
  BY DEF Init, Live
<1>2. TableInv(hash[Root]) /\ Contents(hash[Root]) = << >>
  BY <1>1, StoreAssumption, CreatedTable
<1>3. GroupsInv
  BY <1>1 DEF GroupsInv, Rooted
<1>4. ListsInv
  <2>1. << >> \in Seq(Live) /\ Injective(<< >>) /\ Range(<< >>) = {}
    BY DEF Injective, Range
  <2> QED BY <1>1, <2>1 DEF ListsInv
<1>5. TablesInv
  BY <1>1, <1>2 DEF TablesInv
<1>6. NamesInv
  BY <1>1, <1>2 DEF NamesInv
<1>7. FirstInv
  BY <1>1, <1>2 DEF FirstInv
<1>8. FoundInv
  BY <1>1, <1>2 DEF FoundInv
<1>9. PhaseInv
  BY <1>1 DEF PhaseInv
<1> QED BY <1>3, <1>4, <1>5, <1>6, <1>7, <1>8, <1>9 DEF StoreInv, StructureInv

\* One step per action.
LEMMA StoreStep ==
    ASSUME StoreInv, [Next]_vars
    PROVE  StoreInv'
<1>1. StructureInv /\ FoundInv /\ PhaseInv
  BY DEF StoreInv
<1>2. CASE Next
  <2>1. FoundInv'
    BY <1>2 DEF Next, FoundInv
  <2>2. CASE PushGroup
    BY <1>1, <2>1, <2>2, PushGroupKeeps DEF StoreInv
  <2>3. CASE PopGroup
    BY <1>1, <2>1, <2>3, PopGroupKeeps DEF StoreInv
  <2>4. CASE CreateGroup
    BY <1>1, <2>1, <2>4, CreateGroupKeeps DEF StoreInv
  <2>5. CASE AddName
    BY <1>1, <2>1, <2>5, AddNameKeeps DEF StoreInv
  <2>6. CASE DeleteName
    BY <1>1, <2>1, <2>6, DeleteNameKeeps DEF StoreInv
  <2>7. CASE ObjectDelete
    BY <1>1, <2>1, <2>7, ObjectDeleteKeeps DEF StoreInv
  <2>8. CASE StartQuit
    BY <1>1, <2>1, <2>8, StartQuitKeeps DEF StoreInv
  <2>9. CASE QuitNext
    BY <1>1, <2>1, <2>9, QuitNextKeeps DEF StoreInv
  <2>10. CASE EndQuit
    BY <1>1, <2>1, <2>10, EndQuitKeeps DEF StoreInv
  <2> QED BY <1>2, <2>2, <2>3, <2>4, <2>5, <2>6, <2>7, <2>8, <2>9, <2>10 DEF Next
<1>3. CASE UNCHANGED vars
  <2>1. UNCHANGED <<pc, gs, group, list, hash, iter, first, deleted, found>>
    BY <1>3 DEF vars
  <2>2. StructureInv'
    BY <1>1, <2>1, SameStructure
  <2>3. FoundInv' /\ PhaseInv'
    BY <1>1, <2>1 DEF FoundInv, PhaseInv, Live
  <2> QED BY <2>2, <2>3 DEF StoreInv
<1> QED BY <1>2, <1>3

\* The store's groups, lists, tables and names agree in every reachable state.
THEOREM StoreInvariant == Spec => []StoreInv
<1>1. Init => StoreInv
  BY StoreInit
<1>2. StoreInv /\ [Next]_vars => StoreInv'
  BY StoreStep
<1> QED BY <1>1, <1>2, PTL DEF Spec

-----------------------------------------------------------------------------
(* The properties.                                                         *)

\* However many names are entered and deleted, and however often a table is resized, its
\* chains, its list of all buckets, its back links and its counts agree.
THEOREM TablesAreWellFormed == Spec => []TablesWellFormed
<1>1. ASSUME StoreInv PROVE TablesWellFormed
  <2>1. \A c \in DOMAIN hash : TableInv(hash[c])
    BY <1>1 DEF StoreInv, StructureInv, TablesInv
  <2> QED BY <2>1, TableWellFormed DEF TablesWellFormed, Containers
<1> QED BY <1>1, StoreInvariant, PTL

\* What a lookup finds is a group that exists, that the container owns and that has the name:
\* no table holds the address of a group that is freed.
THEOREM FoundGroupsExist == Spec => []FoundIsNamed
<1>1. ASSUME StoreInv PROVE FoundIsNamed
  <2>1. DOMAIN hash = Live \cup {Root} /\ found = [c \in DOMAIN hash |-> Contents(hash[c])]
    BY <1>1 DEF StoreInv, StructureInv, TablesInv, FoundInv
  <2> SUFFICES ASSUME NEW c \in Live \cup {Root}, NEW key \in DOMAIN found[c]
               PROVE  LET g == found[c][key] IN
                      g \in Live /\ g \in Range(list[c]) /\ key \in KeysOf(g)
    BY <2>1 DEF FoundIsNamed, Containers
  <2>2. found[c] = Contents(hash[c])
    BY <2>1
  <2>3. PICK g \in Live : Contents(hash[c])[key] = g /\ group[g].owner = c /\ key \in KeysOf(g)
    BY <1>1, <2>2 DEF StoreInv, StructureInv, NamesInv
  <2>4. g \in Range(list[c])
    BY <1>1, <2>3 DEF StoreInv, StructureInv, ListsInv
  <2> QED BY <2>2, <2>3, <2>4
<1> QED BY <1>1, StoreInvariant, PTL

\* A program that deletes nothing finds each name of each group, and of several groups with
\* one name the first that got it.
THEOREM FirstGroupIsFound == Spec => []FirstIsFound
<1>1. ASSUME StoreInv PROVE FirstIsFound
  <2> SUFFICES ASSUME ~deleted, NEW c \in DOMAIN hash PROVE found[c] = first[c]
    BY DEF FirstIsFound, Containers
  <2>1. DOMAIN hash = Live \cup {Root} /\ found[c] = Contents(hash[c])
    BY <1>1 DEF StoreInv, StructureInv, TablesInv, FoundInv
  <2> QED BY <1>1, <2>1 DEF StoreInv, StructureInv, FirstInv
<1> QED BY <1>1, StoreInvariant, PTL

\* si2drPIQuit leaves no group and no bucket, however the groups are nested and whatever was
\* deleted before.
THEOREM QuitLeavesNothing == Spec => []QuitFreesAll
<1>1. ASSUME StoreInv PROVE QuitFreesAll
  <2> SUFFICES ASSUME pc = "end"
               PROVE  Live = {} /\ Containers = {Root} /\ Allocated(hash[Root]) = {}
    BY DEF QuitFreesAll
  <2>0. GroupsInv /\ ListsInv /\ TablesInv /\ NamesInv /\ list[Root] = << >>
    BY <1>1 DEF StoreInv, StructureInv, PhaseInv
  <2>1. \A x \in Live : group[x].owner \in Live
    <3>1. Range(list[Root]) = {}
      BY <2>0 DEF Range
    <3>2. {y \in Live : group[y].owner = Root} = {}
      BY <2>0, <3>1 DEF ListsInv
    <3> QED BY <2>0, <3>2 DEF GroupsInv
  <2>2. Live = {}
    BY <2>0, <2>1 DEF GroupsInv, Rooted
  <2>3. DOMAIN hash = {Root} /\ TableInv(hash[Root])
    BY <2>0, <2>2 DEF TablesInv
  <2>4. DOMAIN Contents(hash[Root]) = {}
    BY <2>0, <2>2 DEF NamesInv
  <2>5. Allocated(hash[Root]) = {}
    <3> DEFINE ht == hash[Root]
    <3>1. DOMAIN Contents(ht) = {ht.bucket[b].name : b \in Allocated(ht)}
      BY <2>3, ContentsIs
    <3> QED BY <2>4, <3>1
  <2> QED BY <2>2, <2>3, <2>5 DEF Containers
<1> QED BY <1>1, StoreInvariant, PTL
-----------------------------------------------------------------------------
(* Name tables.                                                            *)

\* Giving keys to a name table that has some of them.
LEMMA GivenAreFree ==
    ASSUME NEW f, NEW A, NEW g
    PROVE  GiveIfFree(f, A, g) = Names!Give(f, A \ DOMAIN f, g)
BY DEF GiveIfFree, Give, Names!Give

\* A new group is a container that is created under the names that were free.
LEMMA AddCreates ==
    ASSUME StoreInv, FoundInv', NEW c \in Live \cup {Root}, NEW head \in Heads,
           Add(c, head.type, head.names)
    PROVE  Names!Next
<1>1. /\ GroupsInv /\ ListsInv /\ TablesInv
      /\ found = [x \in DOMAIN hash |-> Contents(hash[x])] /\ DOMAIN hash = Live \cup {Root}
  BY DEF StoreInv, StructureInv, FoundInv, TablesInv
<1>2. PICK g \in Group \ Live : AddedGroup(c, g, head) /\ AddedTable(c, g, head)
  BY <1>1, AddIs
<1> DEFINE names == Range(Keys(head.type, head.names))
           keys == names \ DOMAIN found[c]
           f == Names!Give(found[c], keys, g)
<1>3. names \subseteq Key
  <2>1. Keys(head.type, head.names) \in Seq(Key)
    BY HeadIs, KeysAre
  <2> QED BY <2>1 DEF Range
<1>4. /\ Contents(hash'[g]) = << >>
      /\ Contents(hash'[c]) = GiveIfFree(Contents(hash[c]), names, g)
      /\ \A x \in (Live \cup {Root}) \ {c} : Contents(hash'[x]) = Contents(hash[x])
  BY <1>1, <1>2, AddKeepsTables
<1> HIDE DEF names
<1>5. Contents(hash'[c]) = f
  <2>1. found[c] = Contents(hash[c])
    BY <1>1
  <2> QED BY <1>4, <2>1, GivenAreFree
<1>6. found' = [x \in Live \cup {Root, g} |-> Contents(hash'[x])]
  BY <1>2 DEF FoundInv, AddedTable
<1>7. c # g /\ Root # g /\ g \in ({Root} \cup Group) \ DOMAIN found /\ c \in DOMAIN found
  BY <1>1, StoreAssumption
<1> HIDE DEF f
<1>8. found' = Names!Give([found EXCEPT ![c] = f], {g}, << >>)
  <2>1. [found EXCEPT ![c] = f]
           = [x \in Live \cup {Root} |-> IF x = c THEN f ELSE Contents(hash[x])]
    BY <1>1
  <2>2. Names!Give([found EXCEPT ![c] = f], {g}, << >>)
           = [x \in Live \cup {Root, g} |->
                IF x = g THEN << >> ELSE IF x = c THEN f ELSE Contents(hash[x])]
    BY <1>2, <1>7, <2>1 DEF Names!Give
  <2> QED BY <1>4, <1>5, <1>6, <1>7, <2>2
<1>9. keys \in SUBSET (Key \ DOMAIN found[c])
  BY <1>3
<1>10. Names!Create(c, g)
  BY <1>8, <1>9 DEF Names!Create, f
<1> QED BY <1>7, <1>10 DEF Names!Next

\* A name is given to the group, or stands for another one and still does.
LEMMA AddNameNames ==
    ASSUME StoreInv, FoundInv', AddName
    PROVE  Names!Next \/ found' = found
<1>1. /\ StructureInv /\ GroupsInv /\ TablesInv
      /\ found = [x \in DOMAIN hash |-> Contents(hash[x])] /\ DOMAIN hash = Live \cup {Root}
      /\ \A x \in Live \cup {Root} : TableInv(hash[x])
      /\ found' = [x \in DOMAIN hash' |-> Contents(hash'[x])]
  BY DEF StoreInv, StructureInv, FoundInv, TablesInv
<1>2. PICK g \in Live, key \in Key :
         LET c == group[g].owner IN hash' = [hash EXCEPT ![c] = EnterIfFree(@, key, g)]
  BY DEF AddName
<1> DEFINE c == group[g].owner
           t == EnterIfFree(hash[c], key, g)
<1>3. c \in Live \cup {Root} /\ g \in Group /\ c # g
  <2>1. c \in Live \cup {Root} /\ g \in Group
    BY <1>1 DEF GroupsInv
  <2>2. {g} \in SUBSET Live /\ {g} # {}
    OBVIOUS
  <2>3. \E x \in {g} : group[x].owner \notin {g}
    BY <1>1, <2>2 DEF GroupsInv, Rooted
  <2> QED BY <2>1, <2>3
<1>4. hash' = [hash EXCEPT ![c] = t]
  BY <1>2
<1> HIDE DEF c
<1>5. Contents(t) = Names!Give(found[c], {key} \ DOMAIN found[c], g)
  <2>1. Contents(t) = GiveIfFree(Contents(hash[c]), {key}, g)
    BY <1>1, <1>3, EnterIfFreeKeeps
  <2>2. found[c] = Contents(hash[c])
    BY <1>1, <1>3
  <2> QED BY <2>1, <2>2, GivenAreFree
<1> HIDE DEF t
<1>6. found' = [found EXCEPT ![c] = Contents(t)]
  <2>1. DOMAIN hash' = DOMAIN hash /\ \A x \in DOMAIN hash : hash'[x] = IF x = c THEN t ELSE hash[x]
    BY <1>4
  <2> QED BY <1>1, <2>1
<1>7. CASE key \in DOMAIN found[c]
  <2>1. found[c] = [k \in DOMAIN found[c] |-> found[c][k]]
    <3>1. found[c] = Contents(hash[c])
      BY <1>1, <1>3
    <3>2. Contents(hash[c]) = [k \in DOMAIN Contents(hash[c]) |-> Contents(hash[c])[k]]
      BY DEF Contents
    <3> QED BY <3>1, <3>2
  <2>2. Contents(t) = [k \in DOMAIN found[c] |-> found[c][k]]
    BY <1>5, <1>7 DEF Names!Give
  <2>3. Contents(t) = found[c]
    BY <2>1, <2>2
  <2> QED BY <1>1, <1>6, <2>3
<1>8. CASE key \notin DOMAIN found[c]
  <2>1. {key} \ DOMAIN found[c] = {key} /\ key \in Key \ DOMAIN found[c]
    BY <1>8
  <2>2. found' = [found EXCEPT ![c] = Names!Give(@, {key}, g)]
    BY <1>5, <1>6, <2>1
  <2>3. Names!Name(c, g)
    BY <2>1, <2>2 DEF Names!Name
  <2>4. c \in DOMAIN found /\ g \in DOMAIN found \ {c}
    BY <1>1, <1>3
  <2> QED BY <2>3, <2>4 DEF Names!Next
<1> QED BY <1>7, <1>8

\* si2drGroupDeleteName unnames one key.
LEMMA DeleteNameNames ==
    ASSUME StoreInv, FoundInv', DeleteName
    PROVE  Names!Next
<1>1. /\ GroupsInv /\ TablesInv
      /\ found = [x \in DOMAIN hash |-> Contents(hash[x])] /\ DOMAIN hash = Live \cup {Root}
      /\ \A x \in Live \cup {Root} : TableInv(hash[x])
      /\ found' = [x \in DOMAIN hash' |-> Contents(hash'[x])]
  BY DEF StoreInv, StructureInv, FoundInv, TablesInv
<1>2a. PICK g \in Live : \E key \in KeysOf(g) :
          LET c == group[g].owner IN
          Lookup(hash[c], key) = g /\ hash' = [hash EXCEPT ![c] = DeleteElem(@, key)]
  BY DEF DeleteName
<1>2. PICK key \in KeysOf(g) :
          LET c == group[g].owner IN
          Lookup(hash[c], key) = g /\ hash' = [hash EXCEPT ![c] = DeleteElem(@, key)]
  BY <1>2a
<1> DEFINE c == group[g].owner
           t == DeleteElem(hash[c], key)
<1>3. c \in Live \cup {Root} /\ key \in Key /\ g # NoItem
  BY <1>1, StoreAssumption DEF GroupsInv
<1>4. hash' = [hash EXCEPT ![c] = t] /\ Lookup(hash[c], key) # NoItem
  BY <1>2, <1>3
<1> HIDE DEF c
<1>5. found[c] = Contents(hash[c]) /\ c \in DOMAIN found
  BY <1>1, <1>3
<1>6. key \in DOMAIN found[c]
  BY <1>3, <1>4, <1>5 DEF Contents
<1>7. Contents(t) = Names!Without(found[c], {key})
  <2>1. Contents(t) = Without(Contents(hash[c]), {key})
    BY <1>1, <1>3, DeleteKeeps
  <2> QED BY <1>5, <2>1 DEF Without, Names!Without
<1> HIDE DEF t
<1>8. found' = [found EXCEPT ![c] = Contents(t)]
  <2>1. DOMAIN hash' = DOMAIN hash /\ \A x \in DOMAIN hash : hash'[x] = IF x = c THEN t ELSE hash[x]
    BY <1>4
  <2> QED BY <1>1, <2>1
<1>9. Names!Unname(c)
  BY <1>6, <1>7, <1>8 DEF Names!Unname
<1> QED BY <1>5, <1>9 DEF Names!Next

\* Deleting a group deletes it, all it owns, and names of its owner.
LEMMA DeleteGroupNames ==
    ASSUME StoreInv, FoundInv', FoundIsNamed', NEW g \in Live, DeleteGroup(g)
    PROVE  Names!Next
<1> DEFINE c == group[g].owner
           gone == Within(g)
<1>1. /\ StructureInv /\ GroupsInv
      /\ found = [x \in DOMAIN hash |-> Contents(hash[x])] /\ DOMAIN hash = Live \cup {Root}
      /\ found' = [x \in DOMAIN hash' |-> Contents(hash'[x])]
  BY DEF StoreInv, StructureInv, FoundInv, TablesInv
<1>2. /\ StructureInv' /\ DeletedGroups(g, gone)
      /\ Contents(hash'[c]) = Without(Contents(hash[c]), KeysOf(g))
      /\ TablesStay(c, gone)
  BY <1>1, DeleteGroupKeeps
<1>3. c \in Live \cup {Root} /\ Root \notin Live
  BY <1>1, StoreAssumption DEF GroupsInv
<1>4. gone \subseteq Live /\ g \in gone /\ c \notin gone /\ Live' = Live \ gone
  BY <1>2 DEF DeletedGroups
<1> HIDE DEF c, gone
<1>5. DOMAIN hash' = (Live \cup {Root}) \ gone
  BY <1>2, <1>3, <1>4 DEF StructureInv, TablesInv
<1>6. \A x \in (Live \cup {Root}) \ gone : x # c => hash'[x] = hash[x]
  BY <1>2 DEF TablesStay
<1> DEFINE keys == KeysOf(g) \cap DOMAIN found[c]
           f == Names!Without(found[c], keys)
           new == [found EXCEPT ![c] = f]
<1>7. found[c] = Contents(hash[c]) /\ DOMAIN found = Live \cup {Root} /\ c \in DOMAIN found
  BY <1>1, <1>3
<1>8. Contents(hash'[c]) = f
  <2>1. DOMAIN found[c] \ keys = DOMAIN found[c] \ KeysOf(g)
    OBVIOUS
  <2> HIDE DEF keys
  <2> QED BY <1>2, <1>7, <2>1 DEF Without, Names!Without
<1> HIDE DEF f
<1>9. found' = Names!Without(new, gone)
  <2>1. DOMAIN new = Live \cup {Root} /\ \A x \in Live \cup {Root} : new[x] = IF x = c THEN f ELSE found[x]
    BY <1>7
  <2>2. \A x \in (Live \cup {Root}) \ gone : Contents(hash'[x]) = new[x]
    BY <1>1, <1>6, <1>8, <2>1
  <2> HIDE DEF new
  <2> QED BY <1>1, <1>5, <2>1, <2>2 DEF Names!Without
<1>10. gone \in SUBSET (DOMAIN found \ {Root, c}) /\ gone # {} /\ keys \in SUBSET DOMAIN found[c]
  BY <1>3, <1>4, <1>7
<1>12. ASSUME NEW k \in DOMAIN found[c], found[c][k] \in gone PROVE k \in keys
  <2> SUFFICES ASSUME k \notin keys PROVE FALSE
    OBVIOUS
  <2>1. k \in DOMAIN f /\ f[k] = found[c][k]
    <3> HIDE DEF keys
    <3> QED BY <1>12 DEF f, Names!Without
  <2>2. c \in DOMAIN hash' /\ found'[c] = f
    BY <1>1, <1>3, <1>4, <1>5, <1>8
  <2>3. found'[c][k] \in Live'
    BY <2>1, <2>2 DEF FoundIsNamed, Containers
  <2> QED BY <1>4, <1>12, <2>1, <2>2, <2>3
<1>11. Names!Delete(c)
  <2>1. {k \in DOMAIN found[c] : found[c][k] \in gone} \subseteq keys
    BY <1>12
  <2> HIDE DEF keys
  <2> QED BY <1>9, <1>10, <2>1 DEF Names!Delete, f
<1> QED BY <1>7, <1>11 DEF Names!Next

\* The hash tables implement name tables: a name that stands for a group is never made to
\* stand for another, through all the library does with the table.
THEOREM StoreImplementsNames == Spec => ImplementsNames
<1>1. ASSUME Init PROVE Names!Init
  BY <1>1 DEF Init, Names!Init
<1>2. ASSUME StoreInv, StoreInv', FoundIsNamed', [Next]_vars PROVE [Names!Next]_found
  <2>1. FoundInv' /\ StructureInv /\ PhaseInv
    BY <1>2 DEF StoreInv
  <2>2. CASE PushGroup
    <3>1. gs \in Seq(Live)
      BY <2>1 DEF PhaseInv
    <3>2. Top \in Live \cup {Root}
      BY <3>1, LastIsOpen DEF Top
    <3>3. PICK head \in Heads : Add(Top, head.type, head.names)
      BY <2>2 DEF PushGroup
    <3> QED BY <1>2, <2>1, <3>2, <3>3, AddCreates
  <2>3. CASE CreateGroup
    <3>1. PICK c \in Live \cup {Root}, head \in Heads : Add(c, head.type, head.names)
      BY <2>3 DEF CreateGroup
    <3> QED BY <1>2, <2>1, <3>1, AddCreates
  <2>4. CASE AddName
    BY <1>2, <2>1, <2>4, AddNameNames
  <2>5. CASE DeleteName
    BY <1>2, <2>1, <2>5, DeleteNameNames
  <2>6. CASE ObjectDelete
    <3>1. PICK g \in Live : DeleteGroup(g)
      BY <2>6 DEF ObjectDelete
    <3> QED BY <1>2, <2>1, <3>1, DeleteGroupNames
  <2>7. CASE QuitNext
    <3>1. iter \in Live
      <4>1. iter = list[Root][1] /\ list[Root] # << >> /\ list[Root] \in Seq(Live)
        BY <2>1, <2>7 DEF QuitNext, PhaseInv, StructureInv, ListsInv
      <4> QED BY <4>1
    <3> QED BY <1>2, <2>1, <2>7, <3>1, DeleteGroupNames DEF QuitNext
  <2>8. CASE hash' = hash
    <3>1. found' = found
      BY <1>2, <2>1, <2>8 DEF StoreInv, FoundInv
    <3> QED BY <3>1
  <2>9. CASE PopGroup \/ StartQuit \/ EndQuit \/ UNCHANGED vars
    BY <2>8, <2>9 DEF PopGroup, StartQuit, EndQuit, vars
  <2> QED BY <1>2, <2>2, <2>3, <2>4, <2>5, <2>6, <2>7, <2>9 DEF Next
<1> QED BY <1>1, <1>2, StoreInvariant, FoundGroupsExist, PTL DEF Spec, ImplementsNames, Names!Spec
=============================================================================
