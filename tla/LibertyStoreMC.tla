--------------------------- MODULE LibertyStoreMC ---------------------------
(* Three groups of two types, keys of which two always share a chain, and    *)
(* tables of one entry that can grow to three and to five.                   *)
EXTENDS LibertyStore

GroupHead(type, names) == [type |-> type, names |-> names]
SomeHeads == {GroupHead("cell", <<"X">>), GroupHead("cell", <<"X", "Y">>),
              GroupHead("table", <<"X", "Y">>), GroupHead("cell", << >>)}
Keys == {"cell", "table"} \X {"X", "Y"}
Codes == [k \in Keys |-> CASE k = <<"cell", "X">> -> 0 [] k = <<"cell", "Y">> -> 15
                           [] k = <<"table", "X">> -> 6 [] k = <<"table", "Y">> -> 1]
Sizes == << <<3, 3>> >>
=============================================================================
