------------------------------- MODULE MC_P2J -------------------------------
(***************************************************************************)
(* Instances of P2J for TLC: one IDL and the conversions of each run.      *)
(***************************************************************************)
EXTENDS P2JEncoding

\* message N { 1: int; 2: repeated string; 3: N; 4: map<int32, string>; 6: repeated N;
\*             7: repeated int32 }
\* message R { 1: int64; 2: repeated string; 3: N; 4: map<string, N>; 5: map<int64, int64>;
\*             6: repeated N; 7: repeated int32; 8: repeated fixed; 9: fixed; 10: bool }
T(typ, id)          == [typ |-> typ, id |-> id, key |-> "int", elem |-> "int", msg |-> "N"]
ListOf(elem, id)    == [T("list", id) EXCEPT !.elem = elem]
MapOf(k, elem, id)  == [T("map", id) EXCEPT !.key = k, !.elem = elem]
MCMessages ==
    [N |-> (1 :> T("int", 1)) @@ (2 :> ListOf("str", 2)) @@ (3 :> T("msg", 3))
           @@ (4 :> MapOf("int", "str", 4)) @@ (6 :> ListOf("msg", 6)) @@ (7 :> ListOf("int", 7)),
     R |-> <<T("long", 1), ListOf("str", 2), T("msg", 3), MapOf("str", "msg", 4),
             MapOf("long", "sint", 5), ListOf("msg", 6), ListOf("int", 7), ListOf("fix", 8),
             T("fix", 9), T("bool", 10)>>]
MCUnknown == (11 :> T("int", 11)) @@ (12 :> T("str", 12))

-----------------------------------------------------------------------------
L(v)       == <<"lit", v>>
List(vs)   == <<"list", vs>>
Packed(vs) == <<"packed", vs>>
Map(ps)    == <<"map", ps>>
P(k, v)    == [key |-> k, v |-> v]
Msg(ms)    == <<"msg", ms>>
M(id, v)   == [id |-> id, v |-> v]

Str  == <<2, 2>>
Long == <<2, 2, 2, 2, 2, 2, 2, 2>>          \* its length takes two bytes
Strs == List(<<L(Str), L(<<>>)>>)
Lost == {M(11, L(9)), M(12, L(Str))}        \* unknown fields

\* Single fields of N.
InN == {M(1, L(9)), M(2, Strs), M(2, List(<<L(Long)>>)), M(4, Map(<<P(1, L(Str)), P(9, L(<<>>))>>)),
        M(7, Packed(<<L(1), L(9)>>)), M(7, List(<<L(1), L(9)>>)), M(7, Packed(<<>>)),
        M(6, List(<<Msg(<<>>), Msg(<<M(1, L(1))>>)>>)), M(3, Msg(<<M(2, Strs)>>)),
        M(3, Msg(<<M(7, List(<<L(1), L(2)>>)), M(1, L(1))>>))}

\* Single fields of R that are no N.
InR == {M(1, L(9)), M(2, Strs), M(7, Packed(<<L(9), L(1)>>)), M(7, List(<<L(1)>>)),
        M(8, Packed(<<L(<<0, 1>>), L(<<1, 2>>)>>)), M(8, List(<<L(<<0, 1>>), L(<<1, 2>>)>>)),
        M(9, L(<<1, 1>>)), M(10, L(1)), M(4, Map(<<P(Str, Msg(<<M(2, Strs)>>)), P(<<>>, Msg(<<>>))>>)),
        M(6, List(<<Msg(<<M(6, List(<<Msg(<<>>)>>))>>), Msg(<<M(1, L(1)), M(2, Strs)>>)>>)),
        M(6, List(<<Msg(<<M(4, Map(<<P(1, L(Str))>>))>>)>>))}
IntKeys == {M(5, Map(<<P(1, L(3)), P(9, L(1))>>))}

-----------------------------------------------------------------------------
Opts0 == [disallow |-> FALSE, int2string |-> FALSE]
Strict == [Opts0 EXCEPT !.disallow = TRUE]
AllOpts == {Opts0, Strict, [Opts0 EXCEPT !.int2string = TRUE]}

Call(desc, v, buf, o) == [desc |-> desc, doc |-> v, buf |-> buf, opts |-> o, cut |-> FALSE]
OfRoot(ms, o) == Call([T("msg", 0) EXCEPT !.msg = "R"], Msg(ms), BinMembers("R", ms), o)
InField(ms)   == M(3, Msg(ms))

\* A field with the number and the type of the last field of the message before it.
Twins == {<<InField(<<M(1, L(9)), M(2, Strs)>>), M(2, Strs)>>,
          <<InField(<<M(2, Strs), M(6, List(<<Msg(<<M(1, L(1))>>)>>))>>), M(6, List(<<Msg(<<>>)>>))>>,
          <<InField(<<M(3, Msg(<<M(4, Map(<<P(1, L(Str))>>))>>)), M(4, Map(<<P(2, L(Str))>>))>>),
            M(4, Map(<<P(Str, Msg(<<>>))>>))>>,
          <<InField(<<M(7, List(<<L(1)>>))>>), M(7, List(<<L(1)>>))>>}

\* Where an unknown field makes a nested message believe that more is left of it than there
\* is, no list or map at its end is followed outside by a field with its number.
Fields2 == {<<InField(<<m, n>>)>> : m \in InN, n \in InN}
Skips   == {<<u, m>> : u \in Lost, m \in InR} \cup {<<m, u>> : u \in Lost, m \in InR}
           \cup {<<InField(<<u, m>>), M(9, L(<<1, 1>>))>> : u \in Lost, m \in InN}
           \cup {<<InField(<<m, u>>)>> : u \in Lost, m \in InN}
Distinct(ms) == \A i, j \in DOMAIN ms : i # j => ms[i].id # ms[j].id
Apart(ms)    == \A i \in DOMAIN ms : ms[i].v[1] = "msg" => Distinct(ms[i].v[2])

Values == {OfRoot(ms, o) : ms \in {<<>>} \cup {<<m>> : m \in InR} \cup Twins, o \in AllOpts}
          \cup {OfRoot(<<m>>, o) : m \in IntKeys, o \in {Opts0}}
          \cup {OfRoot(ms, Opts0) : ms \in {f \in Fields2 : Apart(f)}}
          \cup {OfRoot(ms, Opts0) : ms \in {s \in {<<m, n>> : m \in InR, n \in InR} : Distinct(s)}}
          \cup {OfRoot(ms, o) : ms \in Skips, o \in {Opts0, Strict}}

\* Conversions that start at a value: its bytes are what follows its first tag.
Behind(desc, v, buf) == Call(desc, v, Tail(buf), Opts0)
Roots == {Call(T("int", 0), L(9), AppendVarint(9), Opts0),
          Call(T("str", 0), L(Str), WithLength(Str), Opts0),
          Behind(ListOf("str", 1), Strs, BinField(ListOf("str", 1), 1, Strs)),
          Behind(MapOf("int", "str", 1), Map(<<P(1, L(Str)), P(2, L(Str))>>),
                 BinField(MapOf("int", "str", 1), 1, Map(<<P(1, L(Str)), P(2, L(Str))>>)))}

\* Messages without lists, cut off anywhere.
Uncut == {<<M(1, L(9)), InField(<<M(4, Map(<<P(9, L(Str)), P(1, L(<<>>))>>)), M(1, L(9)), M(12, L(Str))>>),
            M(9, L(<<1, 1>>))>>,
          <<M(4, Map(<<P(Str, Msg(<<M(1, L(9))>>)), P(<<>>, Msg(<<>>))>>)), InField(<<M(3, Msg(<<M(1, L(1))>>))>>)>>}
CutTo(ms, n) == [OfRoot(ms, Opts0) EXCEPT !.buf = SubSeq(@, 1, n), !.cut = TRUE]
Cuts == UNION {{CutTo(ms, n) : n \in 0 .. Len(BinMembers("R", ms)) - 1} : ms \in Uncut}

\* A list cut off in the tag after an item.
InTag == {CutTo(<<M(2, Strs), M(10, L(1))>>, Len(BinMembers("R", <<M(2, Strs)>>)) + 1),
          CutTo(<<M(2, Strs)>>, Len(BinMembers("R", <<M(2, List(<<L(Str)>>))>>)) + 1)}

\* Everything but an unknown field inside a list, with DisallowUnknownField.
MCCalls == Values \cup Roots \cup Cuts \cup InTag

\* An unknown field in a message that is the item of a list.
MCListCalls == {OfRoot(<<M(6, List(<<Msg(<<u, m>>)>>)), n>>, Strict) :
                   u \in Lost, m \in InN, n \in {M(1, L(1)), M(9, L(<<1, 1>>))}}
=============================================================================
