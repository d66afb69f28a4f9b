---------------------------- MODULE LibertyStore ----------------------------
(***************************************************************************)
(* The store behind the Liberty parser's interface (PI.c, liberty_parser.y)*)
(* as far as groups and their names go: the parser pushes and pops groups, *)
(* programs add, rename, delete and look up groups, si2drPIQuit frees all. *)
(*                                                                         *)
(* Every container (a group, or the PI itself, Root) has a list of groups  *)
(* and a hash table of their names.  A key is a pair <<type, name>>, the   *)
(* string "type||||name".  Attributes and defines, which are kept in the   *)
(* same way, are left out, and so is the check that a new group's key is   *)
(* not in the define_hash: keys of that table are names of attributes.     *)
(***************************************************************************)
EXTENDS LibertyHash

CONSTANTS Group,          \* addresses of groups
          Root,           \* the PI
          Heads,          \* [type, names]: heads of groups a file may have
          MasterSize, LibrarySize, GroupSize,   \* 53, 2011 and 3 in the code
          MaxEdits        \* calls of programs

ASSUME StoreAssumption ==
    /\ Group \subseteq Nat \ {Null} /\ Root \notin Group /\ NoItem \notin Group
    /\ {MasterSize, LibrarySize, GroupSize, MaxEdits} \subseteq Nat \ {0}
    /\ \A key \in Key : key = <<key[1], key[2]>>
    /\ \A head \in Heads :
          /\ head.names \in Seq({key[2] : key \in Key})
          /\ \A k \in DOMAIN head.names : <<head.type, head.names[k]>> \in Key

VARIABLES pc,             \* "parse", "edit", "quit" or "end"
          gs,             \* the open groups
          group,          \* [type, owner, names] of the groups there are
          list,           \* container -> its groups in the order of their list
          hash,           \* container -> its hash table
          iter,           \* next group of si2drPIQuit's iterator
          first,          \* key's first group in each container since it last was free
          deleted,        \* something was deleted
          found,          \* container -> what its table finds, key by key
          edits

vars == <<pc, gs, group, list, hash, iter, first, deleted, found, edits>>

Init ==
    /\ pc = "parse" /\ gs = << >>
    /\ group = << >>
    /\ list = [c \in {Root} |-> << >>]
    /\ hash = [c \in {Root} |-> CreateTable(MasterSize)]
    /\ iter = Null /\ first = [c \in {Root} \cup Group |-> << >>]
    /\ deleted = FALSE /\ edits = 0
    /\ found = [c \in {Root} |-> << >>]

\* A value for some keys, or for those of them that have none.
Give(f, keys, v) == [k \in DOMAIN f \cup keys |-> IF k \in keys THEN v ELSE f[k]]
GiveIfFree(f, keys, v) == Give(f, keys \ DOMAIN f, v)
Without(f, keys) == [k \in DOMAIN f \ keys |-> f[k]]

Live == DOMAIN group
NewGroup == Min(Group \ Live)
KeyOf(g, name) == <<group[g].type, name>>
KeysOf(g) == {KeyOf(g, group[g].names[k]) : k \in DOMAIN group[g].names}
FirstGiven(c, keys, g) == [first EXCEPT ![c] = GiveIfFree(@, keys, g)]

\* Keys are entered, or deleted, one after another.
Entered(ht, keys, g) ==
    LET t[n \in 0..Len(keys)] == IF n = 0 THEN ht ELSE Enter(t[n - 1], keys[n], g) IN t
EnterAll(ht, keys, g) == Entered(ht, keys, g)[Len(keys)]
Deleted(ht, keys) ==
    LET t[n \in 0..Len(keys)] == IF n = 0 THEN ht ELSE DeleteElem(t[n - 1], keys[n]) IN t
DeleteAll(ht, keys) == Deleted(ht, keys)[Len(keys)]

\* A group joins its owner's list: the PI's at the front, a group's at the end.
Joined(c, g) == IF c = Root THEN <<g>> \o list[c] ELSE Append(list[c], g)

\* si2drPICreateGroup and si2drGroupCreateGroup, with the names added to it.
Add(c, type, names) ==
    LET g == NewGroup
        keys == [k \in DOMAIN names |-> <<type, names[k]>>] IN
    /\ Live # Group
    /\ group' = Give(group, {g}, [type |-> type, owner |-> c, names |-> names])
    /\ list' = Give([list EXCEPT ![c] = Joined(c, g)], {g}, << >>)
    /\ hash' = Give([hash EXCEPT ![c] = EnterAll(@, keys, g)], {g},
                    CreateTable(IF c = Root THEN LibrarySize ELSE GroupSize))
    /\ first' = FirstGiven(c, Range(keys), g)

Top == IF gs = << >> THEN Root ELSE Last(gs)

\* A file is one group.  Its name may be used already: the error
\* is reported, and the group is there nevertheless.
PushGroup ==
    /\ pc = "parse" /\ (gs = << >> => Live = {})
    /\ \E head \in Heads : Add(Top, head.type, head.names)
    /\ gs' = Append(gs, NewGroup)
    /\ UNCHANGED <<pc, iter, deleted, edits>>

PopGroup ==
    /\ pc = "parse" /\ gs # << >>
    /\ gs' = Front(gs)
    /\ pc' = IF gs' = << >> THEN "edit" ELSE "parse"
    /\ UNCHANGED <<group, list, hash, iter, first, deleted, edits>>

-----------------------------------------------------------------------------
Edit == pc = "edit" /\ edits < MaxEdits /\ edits' = edits + 1 /\ UNCHANGED <<pc, gs, iter>>

CreateGroup ==
    /\ Edit
    /\ \E c \in {Root} \cup Live, head \in Heads :
          Len(head.names) <= 1 /\ Add(c, head.type, head.names)
    /\ UNCHANGED deleted

EnterEver(ht, key, g) == Enter(DeleteElem(ht, key), key, g)        \* (variant) the last one counts
EnterIfFree(ht, key, g) == IF Lookup(ht, key) = NoItem THEN Enter(ht, key, g) ELSE ht

\* The group gets the name, also when SI2DR_OBJECT_ALREADY_EXISTS is returned.
AddName ==
    /\ Edit
    /\ \E g \in Live, key \in Key :
          LET c == group[g].owner IN
          /\ key[1] = group[g].type
          /\ hash' = [hash EXCEPT ![c] = EnterIfFree(@, key, g)]
          /\ group' = [group EXCEPT ![g].names = Append(@, key[2])]
          /\ first' = FirstGiven(c, {key}, g)
    /\ UNCHANGED <<list, deleted>>

DeleteName ==
    /\ Edit
    /\ \E g \in Live : \E key \in KeysOf(g) :
          LET c == group[g].owner IN
          /\ Lookup(hash[c], key) = g                               \* else not found
          /\ group' = [group EXCEPT ![g].names = RemoveFirst(@, key[2])]
          /\ hash' = [hash EXCEPT ![c] = DeleteElem(@, key)]
          /\ first' = [first EXCEPT ![c] = Without(@, {key})]
    /\ deleted' = TRUE
    /\ UNCHANGED list

\* g and everything it owns: the smallest set with g and with what its members own.
Owning(S) == \A x \in Live : group[x].owner \in S => x \in S
Within(g) == {x \in Live : \A S \in SUBSET Live : g \in S /\ Owning(S) => x \in S}

LastName(g) == IF group[g].names = << >> THEN << >> ELSE <<Last(group[g].names)>>   \* (variant)
NamesOf(g) == group[g].names

\* si2drObjectDelete of a group: of its names every one is deleted from the
\* owner's table, also one that stands for another group there.
DeleteGroup(g) ==
    LET c == group[g].owner
        gone == Within(g)
        names == NamesOf(g)
        keys == [k \in DOMAIN names |-> KeyOf(g, names[k])]
    IN
    /\ group' = Without(group, gone)
    /\ list' = Without([list EXCEPT ![c] = RemoveFirst(@, g)], gone)
    /\ hash' = Without([hash EXCEPT ![c] = DeleteAll(@, keys)], gone)
    /\ first' = [x \in DOMAIN first |->
                   IF x \in gone THEN << >>
                   ELSE IF x = c THEN Without(first[c], KeysOf(g)) ELSE first[x]]
    /\ deleted' = TRUE

ObjectDelete ==
    /\ Edit
    /\ \E g \in Live : DeleteGroup(g)

-----------------------------------------------------------------------------
(* si2drPIQuit: an iterator over the PI's groups, each of which is deleted.   *)

NextOfNext(g) ==                                                   \* (variant) of the group after it
    LET all == list[Root]  k == CHOOSE n \in DOMAIN all : all[n] = g
    IN IF k + 1 >= Len(all) THEN Null ELSE all[k + 2]
NextInList(g) ==
    LET all == list[Root]  k == CHOOSE n \in DOMAIN all : all[n] = g
    IN IF k = Len(all) THEN Null ELSE all[k + 1]

StartQuit ==
    /\ pc = "edit"
    /\ iter' = IF list[Root] = << >> THEN Null ELSE list[Root][1]
    /\ pc' = "quit"
    /\ UNCHANGED <<gs, group, list, hash, first, deleted, edits>>

QuitNext ==
    /\ pc = "quit" /\ iter # Null
    /\ iter' = NextInList(iter)
    /\ DeleteGroup(iter)
    /\ UNCHANGED <<pc, gs, edits>>

EndQuit ==
    /\ pc = "quit" /\ iter = Null
    /\ pc' = "end"
    /\ UNCHANGED <<gs, group, list, hash, iter, first, deleted, edits>>

Next ==
    /\ \/ PushGroup \/ PopGroup
       \/ CreateGroup \/ AddName \/ DeleteName \/ ObjectDelete
       \/ StartQuit \/ QuitNext \/ EndQuit
    /\ found' = [c \in DOMAIN hash' |-> Contents(hash'[c])]

Spec == Init /\ [][Next]_vars

-----------------------------------------------------------------------------
Containers == DOMAIN hash

\* The chains, the list of all buckets, the back links and the counts of every
\* table agree, after any sequence of entering, resizing and deleting.
TablesWellFormed == \A c \in Containers : WellFormed(hash[c])

\* What a name stands for is a group that exists, is in the list of the container
\* and has the name: groups are freed, and a table that still held one would give
\* a dangling pointer to the next lookup.
FoundIsNamed ==
    \A c \in Containers : \A key \in DOMAIN found[c] :
        LET g == found[c][key] IN
        g \in Live /\ g \in Range(list[c]) /\ key \in KeysOf(g)

\* As long as nothing is deleted (a program that only reads), every name of every
\* group is found, and of several groups with one name the first that got it.
FirstIsFound ==
    ~deleted => \A c \in Containers : found[c] = first[c]

\* When the interface has been quit no group and no bucket is left.
QuitFreesAll ==
    pc = "end" => Live = {} /\ Containers = {Root} /\ Allocated(hash[Root]) = {}

Names == INSTANCE NameTable WITH
    Container <- {Root} \cup Group,
    named <- found

\* The tables of the store are name tables: whatever the hash tables go through, no call
\* redirects a name from one group to another, and none makes a name be forgotten but
\* the one that takes it away.
ImplementsNames == Names!Spec
=============================================================================
