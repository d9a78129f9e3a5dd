---------------------------- MODULE MC_TrimJSON ----------------------------
(***************************************************************************)
(* Instances of TrimJSON for TLC.                                          *)
(***************************************************************************)
EXTENDS TrimJSON

F(name, id, d) == [name |-> name, id |-> id, desc |-> d]
S(children) == NodeOf("struct", "A", children)
M(children) == NodeOf("map", "B", children)

MCHeaps == {
    \* a cycle with two ways round, a descriptor that has itself and another, a cycle with two
    \* children of one name, two children of one id,
    <<S(<<F("a", 1, 2), F("b", 2, 2)>>), M(<<F("a", 1, 1)>>)>>,
    <<S(<<F("a", 1, 1), F("b", 2, 2)>>), M(<<>>)>>,
    <<S(<<F("a", 1, 2), F("a", 2, 0)>>), M(<<F("a", 1, 1)>>)>>,
    <<S(<<F("a", 1, 0), F("b", 1, 2)>>), S(<<>>)>>,
    \* a descriptor shared by all of a cycle
    <<S(<<F("a", 1, 2), F("b", 2, 3)>>), S(<<F("a", 1, 3), F("b", 2, 1)>>), M(<<>>)>> }
OneNode == {<<S(<<F("a", 1, 1)>>)>>}
=============================================================================
