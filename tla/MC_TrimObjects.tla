--------------------------- MODULE MC_TrimObjects ---------------------------
(***************************************************************************)
(* Instances of TrimObjects for TLC: the structs of the tests of package   *)
(* trim, with fewer fields.                                                *)
(***************************************************************************)
EXTENDS TrimObjects

F(go, thrift, pb, json, t) == [go |-> go, thrift |-> thrift, pb |-> pb, json |-> json, type |-> t]
Wide == Integer(4)
Narrow == Integer(3)
T == Struct("T")
P == Struct("P")
Q == Struct("Q")
MCLayout ==
    [T |-> <<F("A", 1, "", "a", Wide), F("B", 2, "", "b", Slice(Ptr(T))), F("C", 3, "", "c", Map(Ptr(T))),
             F("D", 4, "", "d", Ptr(T)), F("E", 5, "", "e", Str), F("L", 6, "", "l", Slice(Wide)),
             F("_unknownFields", 0, "", "", UnknownFields)>>,
     P |-> <<F("A", 0, "a", "a", Narrow), F("B", 0, "b", "b", Slice(Ptr(P))), F("C", 0, "c", "c", Map(Ptr(P))),
             F("D", 0, "d", "d", Ptr(P)), F("E", 0, "e", "e", Str), F("L", 0, "l", "l", Slice(Narrow)),
             F("XXX_unrecognized", 0, "", "", Bytes)>>,
     Q |-> <<F("A", 0, "a", "a", Wide), F("R", 0, "r", "r", Array(Ptr(Struct("Q")), 2)), F("D", 0, "d", "d", Ptr(Struct("Q"))),
             F("XXX_NoUnkeyedLiteral", 0, "", "", Map(Boxed)), F("XXX_unrecognized", 0, "", "", Bytes)>>]

C(name, id, d) == [name |-> name, id |-> id, desc |-> d]
D(kind, children) == [kind |-> kind, children |-> children]
MCDescs == <<
    \* 1: all of a struct, 2 and 3: of its list and map, 4: every field as it is
    D("struct", <<C("a", 1, 0), C("b", 2, 2), C("c", 3, 3), C("d", 4, 1), C("e", 5, 0)>>),
    D("list", <<C("*", 0, 1)>>),
    D("map", <<C("*", 0, 1)>>),
    D("struct", <<C("a", 1, 0), C("b", 2, 0), C("c", 3, 0), C("d", 4, 0), C("l", 6, 0)>>),
    \* 5: single elements, and 6, 7, 8, 9: its list, map, element, and list of numbers
    D("struct", <<C("b", 2, 6), C("c", 3, 7), C("l", 6, 9)>>),
    D("list", <<C("1", 1, 8), C("0", 0, 8)>>),
    D("map", <<C("k", 0, 8), C("n", 0, 8)>>),
    D("struct", <<C("a", 1, 0), C("x", 9, 0)>>),
    D("list", <<C("1", 1, 0)>>),
    \* 10: fields that one of the structs does not have, and 11, 12, 13: a struct, list and map
    D("struct", <<C("x", 9, 0), C("y", 8, 11), C("z", 7, 12), C("w", 10, 13), C("a", 1, 14), C("v", 11, 0)>>),
    D("struct", <<C("a", 1, 14), C("e", 5, 0), C("z", 7, 12)>>),
    D("list", <<C("*", 0, 14)>>),
    D("map", <<C("*", 0, 0)>>),
    D("leaf", <<>>),
    \* 15: for structs with an array
    D("struct", <<C("a", 1, 0), C("r", 2, 16), C("d", 4, 15), C("y", 8, 11)>>),
    D("list", <<C("*", 0, 15)>>) >>
Hashed == <<"a", "b", "c", "d", "e", "k", "l", "m", "n", "o", "r", "u", "v", "w", "x", "y", "z">>
MCHash == [name \in Range(Hashed) |-> 100 + SelectInSeq(Hashed, LAMBDA h : h = name)]

N(n) == Val(Wide, n)
Text(s) == Val(Str, s)
M(f) == TreeMap(f)
L(s) == TreeList(s)
To(x) == Val(Ptr(x.type), x)

TVal(a, b, c, d, e, l, u) ==
    Val(T, <<N(a), Val(Slice(Ptr(T)), b), Val(Map(Ptr(T)), c), Val(Ptr(T), d), Text(e), Val(Slice(Wide), l),
             Val(UnknownFields, u)>>)
NoUnknown == [ok |-> TRUE, ids |-> <<>>]
TNil == Val(Ptr(T), Nil)
Small == TVal(1, Nil, Nil, Nil, "t", <<N(7)>>, [ok |-> TRUE, ids |-> 9 :> Iface(N(4))])
Extras == [ok |-> TRUE,
         ids |-> (9 :> Iface(N(2)) @@ 7 :> Iface(L(<<N(1), N(2)>>)) @@ 10 :> Iface(M([k |-> N(3)]))
                  @@ 8 :> Iface(Val(IdMap, 1 :> Iface(N(6)) @@ 5 :> Iface(Text("u")))))]
MCSources == {
    To(TVal(5, <<To(Small), TNil, To(Small)>>, [k |-> To(Small), m |-> TNil], Small, "s", <<N(1), N(2)>>, Extras)),
    To(TVal(2, <<>>, Nil, TVal(3, Nil, Nil, Small, "", Nil, NoUnknown), "", Nil, [ok |-> FALSE, ids |-> <<>>])) }

PVal(a, b, c, d, e, l, u) ==
    Val(P, <<Val(Narrow, a), Val(Slice(Ptr(P)), b), Val(Map(Ptr(P)), c), Val(Ptr(P), d), Text(e),
             Val(Slice(Narrow), l), Val(Bytes, u)>>)
PSmall == PVal(3, Nil, Nil, Nil, "p", Nil, <<>>)
PNil == Val(Ptr(P), Nil)
QVal(a, r, d, lit) == Val(Q, <<N(a), Val(Array(Ptr(Q), 2), r), Val(Ptr(Q), d), Val(Map(Boxed), lit), Val(Bytes, <<>>)>>)
QNil == Val(Ptr(Q), Nil)
QSmall == QVal(1, <<QNil, QNil>>, Nil, [k |-> Iface(N(1))])
MCDests == {
    Zero(P), Zero(Q),
    PVal(1, <<To(PSmall), To(PSmall), PNil, To(PSmall)>>, [k |-> To(PSmall), o |-> To(PSmall)], PSmall, "q",
         <<Val(Narrow, 1), Val(Narrow, 2), Val(Narrow, 3)>>, <<Field(9, "varint", 1)>>),
    QVal(7, <<To(QSmall), QNil>>, QSmall, [k |-> Iface(Text("l")), x |-> Iface(N(1))]) }

MCTrees == {
    \* values of the wrong type here and there
    M([a |-> Text("s"), d |-> M([a |-> Text("s"), e |-> N(3)]), b |-> L(<<M([a |-> N(2)]), M([a |-> Text("s")])>>)]),
    M([a |-> N(1), d |-> N(1), b |-> M([a |-> N(1)]), c |-> L(<<N(1)>>), e |-> Text("e"), l |-> L(<<N(1), Text("s")>>)]),
    \* empty values and nil
    M([a |-> N(1), b |-> L(<<M(<<>>), Nil, M([a |-> N(1)])>>), c |-> M([k |-> M(<<>>), n |-> M(<<>>), o |-> Nil]), d |-> M(<<>>)]),
    \* fields without a place, some that cannot be encoded
    M([x |-> M([k |-> N(1)]), y |-> M([a |-> N(1), e |-> Text("e"), z |-> L(<<N(1), Text("s")>>)]),
       z |-> L(<<N(1), N(2)>>), w |-> M([k |-> N(1), l |-> Text("s")]), a |-> N(2)]),
    M([x |-> Val(Slice(Wide), <<N(1)>>), y |-> To(TVal(2, Nil, Nil, Nil, "t", Nil, NoUnknown)), v |-> To(Small),
       z |-> L(<<Text("s"), M([a |-> N(1)])>>), w |-> M([k |-> Val(Slice(Wide), <<N(1)>>)]), u |-> N(1)]),
    \* arrays
    M([a |-> N(3), r |-> L(<<M([a |-> N(1)]), Nil>>), d |-> M([r |-> L(<<M([a |-> N(2)])>>), u |-> Text("u")])]),
    M([r |-> L(<<M(<<>>), M([a |-> N(2), y |-> M([e |-> Text("t")])])>>), y |-> M([z |-> L(<<N(1)>>)])]) }
MCRaws == {
    To(Small), To(TVal(2, <<To(Small), TNil>>, [k |-> To(Small)], Small, "s", <<N(5)>>, NoUnknown)),
    M([a |-> N(6), b |-> L(<<M([a |-> N(1)]), Nil>>), d |-> Nil, e |-> N(2), c |-> Nil, z |-> N(1)]), QSmall }
=============================================================================
