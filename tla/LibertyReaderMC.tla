-------------------------- MODULE LibertyReaderMC --------------------------
(* Liberty files for TLC: one cell whose output pin has up to two groups, of  *)
(* every kind the reader tells apart; pins and cells that are there twice;    *)
(* two libraries, one of which may fail the check; files that do not parse.   *)
EXTENDS LibertyReader

Timing(pin, vectors) == [kind |-> "timing", related |-> pin, groups |-> vectors]
Power == [kind |-> "internal_power", related |-> "A", groups |-> <<>>]
Pin(name, groups) == [kind |-> "pin", name |-> name, groups |-> groups]
Rail == [kind |-> "pg_pin", name |-> "VDD", groups |-> <<>>]
CellGroup(name, groups) == [kind |-> "cell", name |-> name, groups |-> groups]
Template == [kind |-> "lu_table_template", name |-> "T7", groups |-> <<>>]
Library(groups, sane) == [groups |-> groups, sane |-> sane]
File(libs) == [status |-> "read", libraries |-> libs]

ArcGroups == {Timing("A", <<1>>), Timing("B", <<1, 1>>), Timing("Z", <<>>),
              Timing(NoRelated, <<1>>), Timing("A", <<0>>), Timing("A", <<2>>), Power}
OnePin == {<<>>} \cup {<<g>> : g \in ArcGroups} \cup {<<g, h>> : g, h \in ArcGroups}
Inv(gs) == CellGroup("INV", <<Rail, Pin("A", <<>>), Pin("Y", gs), Pin("B", <<>>)>>)
Good == Inv(<<Timing("A", <<1>>)>>)
TwoPins == CellGroup("INV", <<Pin("Y", <<Timing("A", <<1>>)>>), Pin("A", <<>>),
                              Pin("Y", <<Power, Timing("Y", <<1, 1>>)>>)>>)
Buf == CellGroup("BUF", <<Pin("A", <<>>), Pin("Z", <<Timing("A", <<1>>), Timing("A", <<1>>)>>)>>)

AllFiles ==
    {File(<<Library(<<Template, Inv(gs), Buf>>, TRUE)>>) : gs \in OnePin}
    \cup {File(<<Library(<<Buf, Good, TwoPins>>, TRUE)>>), File(<<>>)}
    \cup {File(<<Library(<<Buf, Template>>, s), Library(<<Good>>, t)>>) : s, t \in BOOLEAN}
    \cup {[status |-> s, libraries |-> <<>>] : s \in {"cannot_open", "syntax_error"}}
=============================================================================
