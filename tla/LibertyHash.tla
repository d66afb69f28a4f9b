---------------------------- MODULE LibertyHash ----------------------------
(***************************************************************************)
(* The hash table of the Liberty parser (libhash.c): chains of buckets, a  *)
(* doubly linked list of all buckets, and resizing when a chain gets too   *)
(* long.  A table is a record and every function of the library an         *)
(* operator on such records; module LibertyStore owns the tables.          *)
(*                                                                         *)
(* A bucket is found by its address, Null is 0.  A freed bucket has the    *)
(* fields liberty_hash_delete_elem writes before it frees it.  All tables  *)
(* of the parser are case-sensitive and resize automatically.              *)
(***************************************************************************)
EXTENDS Integers, Sequences, SequencesExt

CONSTANTS Key,         \* strings that are entered
          NoKey,       \* a null pointer or an empty string
          NoItem,      \* nulloid
          HashCode,    \* liberty_hash_name_hash before % size
          MaxBuckets,
          Threshold,   \* 8 in the code
          Primes,      \* << <<20, 53>>, <<60, 409>>, ... >>
          LastPrime    \* 99529

\* There is a bucket for every key: my_calloc does not fail.

ASSUME HashAssumption ==
    /\ NoKey \notin Key
    /\ HashCode \in [Key -> Nat]
    /\ IsFiniteSet(Key) /\ MaxBuckets \in Nat /\ Cardinality(Key) <= MaxBuckets
    /\ Threshold \in Nat /\ LastPrime \in Nat \ {0}
    /\ Primes \in Seq(Nat \X (Nat \ {0}))

Null == 0
Bucket == 1..MaxBuckets
Freed == [next |-> Null, all_next |-> Null, all_prev |-> Null, name |-> NoKey, item |-> NoItem]

CreateTable(numels) ==
    [size |-> numels, table |-> [h \in 0..(numels - 1) |-> Null],
     counts |-> [h \in 0..(numels - 1) |-> 0],
     all_list |-> Null, all_last |-> Null,
     threshold |-> Threshold, longest_bucket_string |-> 0, entry_count |-> 0,
     bucket |-> [b \in Bucket |-> Freed]]

NextHigherPrime(n) ==
    LET above == {k \in DOMAIN Primes : n < Primes[k][1]}
    IN IF above = {} THEN LastPrime ELSE Primes[Min(above)][2]

Hash(ht, name) == HashCode[name] % ht.size

\* The buckets from b on along a link, as a function and as the sequence up to Null.
Nodes(link, b) ==
    LET node[n \in 1..MaxBuckets] ==
            IF n = 1 THEN b ELSE IF node[n - 1] = Null THEN Null ELSE link[node[n - 1]]
    IN node
Linked(link, b) ==
    LET node == Nodes(link, b) IN
    [n \in 1..Cardinality({k \in 1..MaxBuckets : node[k] # Null}) |-> node[n]]

Nexts(ht) == [b \in Bucket |-> ht.bucket[b].next]
AllNexts(ht) == [b \in Bucket |-> ht.bucket[b].all_next]

Chain(ht, h) == Linked(Nexts(ht), ht.table[h])
AllList(ht) == Linked(AllNexts(ht), ht.all_list)

\* The first bucket with the name in its chain.
Find(ht, name) ==
    LET chain == Chain(ht, Hash(ht, name))
        hits == {k \in DOMAIN chain : ht.bucket[chain[k]].name = name}
    IN IF hits = {} THEN Null ELSE chain[Min(hits)]

Lookup(ht, name) ==
    IF name = NoKey THEN NoItem
    ELSE LET b == Find(ht, name) IN IF b = Null THEN NoItem ELSE ht.bucket[b].item

Longest(ht, h) == IF ht.longest_bucket_string < ht.counts[h] + 1
                  THEN ht.counts[h] + 1 ELSE ht.longest_bucket_string

\* In front of the chain.
LinkChain(ht, b) ==
    LET h == Hash(ht, ht.bucket[b].name) IN
    [ht EXCEPT !.bucket[b].next = ht.table[h], !.table[h] = b, !.counts[h] = @ + 1,
               !.longest_bucket_string = Longest(ht, h)]

Emptied(ht, size) ==
    [ht EXCEPT !.size = size, !.table = [h \in 0..(size - 1) |-> Null],
               !.counts = [h \in 0..(size - 1) |-> 0], !.longest_bucket_string = 0]
Moved(ht, all) ==
    LET t[n \in 0..Len(all)] == IF n = 0 THEN ht ELSE LinkChain(t[n - 1], all[n]) IN t
Resize(ht, new_size) == Moved(Emptied(ht, new_size), AllList(ht))[Len(AllList(ht))]

Biggest(ht) == IF ht.size > ht.entry_count THEN ht.size ELSE ht.entry_count
CanGrow(ht) == NextHigherPrime(Biggest(ht)) > ht.size

\* What a table does when a chain is longer than its threshold.
Grow(ht) ==
    IF ht.longest_bucket_string > ht.threshold /\ CanGrow(ht)
    THEN LET new == Resize(ht, NextHigherPrime(Biggest(ht))) IN
         IF new.longest_bucket_string > new.threshold
         THEN [new EXCEPT !.threshold = new.longest_bucket_string + 3] ELSE new
    ELSE ht

\* In front of the list of all buckets.
LinkAllForward(ht, b) ==                                           \* (variant) all_prev left out
    IF ht.all_last = Null THEN [ht EXCEPT !.all_last = b, !.all_list = b]
    ELSE [ht EXCEPT !.bucket[b].all_next = ht.all_list, !.all_list = b]
LinkAll(ht, b) ==
    IF ht.all_last = Null THEN [ht EXCEPT !.all_last = b, !.all_list = b]
    ELSE [ht EXCEPT !.bucket[ht.all_list].all_prev = b, !.bucket[b].all_next = ht.all_list,
                    !.all_list = b]

Enter(ht, name, oid) ==
    IF name = NoKey \/ Find(ht, name) # Null THEN ht               \* -1 or -2
    ELSE LET b == Min({x \in Bucket : ht.bucket[x] = Freed})
             new == [ht EXCEPT !.bucket[b] = [Freed EXCEPT !.name = name, !.item = oid],
                               !.entry_count = @ + 1]
         IN Grow(LinkAll(LinkChain(new, b), b))

\* Out of its chain.
UnlinkFirst(ht, b) ==                                              \* (variant) as if it were the first
    [ht EXCEPT !.table[Hash(ht, ht.bucket[b].name)] = ht.bucket[b].next]
UnlinkChain(ht, b) ==
    LET h == Hash(ht, ht.bucket[b].name)
        before == {c \in Range(Chain(ht, h)) : ht.bucket[c].next = b}
    IN IF before = {} THEN [ht EXCEPT !.table[h] = ht.bucket[b].next]
       ELSE [ht EXCEPT !.bucket[CHOOSE c \in before : TRUE].next = ht.bucket[b].next]

\* Out of the list of all buckets: the only one, the last, the first, or another.
UnlinkAll(ht, b) ==
    LET prev == ht.bucket[b].all_prev  next == ht.bucket[b].all_next IN
    IF ht.all_last = b /\ ht.all_list = b THEN [ht EXCEPT !.all_last = Null, !.all_list = Null]
    ELSE IF ht.all_last = b THEN [ht EXCEPT !.bucket[prev].all_next = Null, !.all_last = prev]
    ELSE IF prev = Null THEN [ht EXCEPT !.all_list = next, !.bucket[next].all_prev = Null]
    ELSE [ht EXCEPT !.bucket[next].all_prev = prev, !.bucket[prev].all_next = next]

DeleteElem(ht, name) ==
    IF name = NoKey \/ Find(ht, name) = Null THEN ht
    ELSE LET b == Find(ht, name) IN
         [UnlinkAll(UnlinkChain(ht, b), b) EXCEPT
            !.bucket[b] = Freed, !.counts[Hash(ht, name)] = @ - 1, !.entry_count = @ - 1]

-----------------------------------------------------------------------------
Contents(ht) ==
    LET keys == {k \in Key : Lookup(ht, k) # NoItem} IN [k \in keys |-> Lookup(ht, k)]

Allocated(ht) == {b \in Bucket : ht.bucket[b] # Freed}

\* The chains and the list of all buckets hold the same buckets, each of them once
\* and in the chain of its name; the back links and the counts agree with them.
WellFormed(ht) ==
    LET all == AllList(ht) IN
    /\ Range(all) = Allocated(ht) /\ Len(all) = ht.entry_count
    /\ ht.entry_count = Cardinality(Allocated(ht))
    /\ ht.all_last = IF all = << >> THEN Null ELSE Last(all)
    /\ \A k \in DOMAIN all : ht.bucket[all[k]].all_prev = IF k = 1 THEN Null ELSE all[k - 1]
    /\ \A h \in DOMAIN ht.table :
          LET chain == Chain(ht, h) IN
          /\ Range(chain) = {b \in Allocated(ht) : Hash(ht, ht.bucket[b].name) = h}
          /\ Len(chain) = Cardinality(Range(chain)) /\ ht.counts[h] = Len(chain)
          /\ Len(chain) <= ht.longest_bucket_string
=============================================================================
