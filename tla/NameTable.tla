----------------------------- MODULE NameTable -----------------------------
(***************************************************************************)
(* What a program may rely on when it looks groups up by name: in each     *)
(* container a name stands for at most one group, which no call makes it   *)
(* stand for another one; only giving up a name and deleting make names be *)
(* forgotten, and deleting a group leaves no name to it or to what it has. *)
(* LibertyStore implements this with hash tables.                          *)
(*                                                                         *)
(* It is weaker than the parser's interface, which promises that a used    *)
(* name is refused with SI2DR_OBJECT_ALREADY_EXISTS (pi_uhu.txt): the code *)
(* reports the error and makes the group, which then has no name.          *)
(***************************************************************************)
CONSTANTS Container, Key, Root

VARIABLE named    \* [container |-> [key |-> group]], for the containers there are

Init == named = [c \in {Root} |-> << >>]

Give(f, keys, v) == [k \in DOMAIN f \cup keys |-> IF k \in keys THEN v ELSE f[k]]
Without(f, keys) == [k \in DOMAIN f \ keys |-> f[k]]

\* A container is added to another, under names that were free: none, if the name it is
\* given is used.
Create(c, g) ==
    \E keys \in SUBSET (Key \ DOMAIN named[c]) :
        named' = Give([named EXCEPT ![c] = Give(@, keys, g)], {g}, << >>)

Name(c, g) ==
    \E k \in Key \ DOMAIN named[c] : named' = [named EXCEPT ![c] = Give(@, {k}, g)]

Unname(c) == \E k \in DOMAIN named[c] : named' = [named EXCEPT ![c] = Without(@, {k})]

\* A container, with what it contains: no name that stands for them is left in the one
\* that held it.  Names of another group may go with them.
Delete(c) ==
    \E gone \in SUBSET (DOMAIN named \ {Root, c}), keys \in SUBSET DOMAIN named[c] :
        /\ gone # {}
        /\ {k \in DOMAIN named[c] : named[c][k] \in gone} \subseteq keys
        /\ named' = Without([named EXCEPT ![c] = Without(@, keys)], gone)

Next ==
    \E c \in DOMAIN named :
        \/ \E g \in Container \ DOMAIN named : Create(c, g)
        \/ \E g \in DOMAIN named \ {c} : Name(c, g)
        \/ Unname(c) \/ Delete(c)

Spec == Init /\ [][Next]_named
=============================================================================
