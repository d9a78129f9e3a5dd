------------------------------- MODULE MC_T2J -------------------------------
(***************************************************************************)
(* Instances of T2J for TLC: one IDL, and the conversions of each run.     *)
(***************************************************************************)
EXTENDS T2JEncoding

\* struct A { 13: int wide }   (a default field; its bit is in the fourth word)
\* struct N { 1: required int a;  2: string h (header);  3: optional int d = 9 }
\* struct H { 1: int x (query);  2: int y (header) }
\* struct R { 1: int code (code); 2: H both (query, header); 3: list<int> l (code, header);
\*            4: base;  5: map<string, int> m;  6: int q (query);  7: int js (js_conv);
\*            8: N n;  9: A wide;  10: map<bool, int> bad;  11: list<N> ns }
\* struct X { 0: N success;  1: N err }, the result of a function, without marks
T(k, s, key, e) == [k |-> k, s |-> s, key |-> key, e |-> e]
MCTypes ==
    [I |-> T("int", "", "I", "I"), S |-> T("str", "", "I", "I"), B |-> T("bool", "", "I", "I"),
     L |-> T("list", "", "I", "I"), LN |-> T("list", "", "I", "N"),
     M |-> T("map", "", "S", "I"), MB |-> T("map", "", "B", "I"),
     A |-> T("struct", "A", "I", "I"), N |-> T("struct", "N", "I", "I"), H |-> T("struct", "H", "I", "I"),
     R |-> T("struct", "R", "I", "I"), X |-> T("struct", "X", "I", "I")]

Fld(typ, req, hms) == [typ |-> typ, req |-> req, hms |-> hms, def |-> <<>>, base |-> FALSE,
                       vm |-> FALSE, mark |-> TRUE]
Plain(typ)  == Fld(typ, "default", <<>>)
MCStructs ==
    [A |-> 13 :> Plain("I"),
     N |-> <<Fld("I", "required", <<>>), Fld("S", "default", <<"header">>),
             [Fld("I", "optional", <<>>) EXCEPT !.def = <<9>>]>>,
     H |-> <<Fld("I", "default", <<"query">>), Fld("I", "default", <<"header">>)>>,
     R |-> <<Fld("I", "default", <<"code">>), Fld("H", "default", <<"query", "header">>),
             Fld("L", "default", <<"code", "header">>),
             [Fld("A", "default", <<>>) EXCEPT !.base = TRUE, !.mark = FALSE],
             Fld("M", "optional", <<>>), Fld("I", "default", <<"query">>),
             [Plain("I") EXCEPT !.vm = TRUE], Fld("N", "optional", <<>>), Plain("A"),
             Fld("MB", "optional", <<>>), Fld("LN", "optional", <<>>)>>,
     X |-> (0 :> [Plain("N") EXCEPT !.mark = FALSE]) @@ (1 :> [Plain("N") EXCEPT !.mark = FALSE])]

-----------------------------------------------------------------------------
Opts == [disallow |-> FALSE, http |-> FALSE, base |-> FALSE, vm |-> FALSE, wReq |-> FALSE,
         wDef |-> FALSE, wOpt |-> FALSE, fallback |-> FALSE, omit |-> FALSE, exc |-> FALSE]
Http == [Opts EXCEPT !.http = TRUE, !.omit = TRUE]
AllOpts == {Opts,
            [Opts EXCEPT !.wDef = TRUE, !.wReq = TRUE, !.vm = TRUE, !.base = TRUE],
            [Opts EXCEPT !.wOpt = TRUE, !.disallow = TRUE],
            Http,
            [Http EXCEPT !.fallback = TRUE, !.vm = TRUE],
            [Http EXCEPT !.omit = FALSE, !.wReq = TRUE],
            [Http EXCEPT !.fallback = TRUE, !.wOpt = TRUE]}
\* With missing default fields written, a mapped one has to be in a struct with a response.
HttpDef == {[Http EXCEPT !.wDef = TRUE], [Http EXCEPT !.wDef = TRUE, !.wReq = TRUE, !.fallback = TRUE]}
Exc     == [Opts EXCEPT !.exc = TRUE]

Mem(id, typ, v) == [id |-> id, typ |-> typ, v |-> v]
L(n)      == <<"lit", n>>
Obj(ms)   == <<"struct", ms>>
List(xs)  == <<"list", xs>>
Map(ps)   == <<"map", ps>>
P(k, v)   == [key |-> k, v |-> v]

NFull == Obj(<<Mem(1, "I", L(1)), Mem(2, "S", L(2)), Mem(3, "I", L(3))>>)
NReq  == Obj(<<Mem(2, "S", L(2)), Mem(1, "I", L(1))>>)
NBad  == Obj(<<Mem(2, "S", L(2))>>)
AVal  == Obj(<<Mem(13, "I", L(4))>>)
None  == Obj(<<>>)
HVal  == Obj(<<Mem(1, "I", L(1)), Mem(2, "I", L(2))>>)

\* Single members of R.
InR == { Mem(1, "I", L(5)), Mem(2, "H", HVal), Mem(3, "L", List(<<>>)), Mem(3, "L", List(<<L(1), L(2)>>)),
         Mem(4, "A", AVal), Mem(5, "M", Map(<<P(1, L(1)), P(2, L(2))>>)), Mem(6, "I", L(6)),
         Mem(7, "I", L(7)), Mem(8, "N", NFull), Mem(8, "N", NReq), Mem(8, "N", NBad),
         Mem(9, "A", AVal), Mem(9, "A", None), Mem(10, "MB", Map(<<P(1, L(1))>>)),
         Mem(10, "MB", Map(<<>>)), Mem(11, "LN", List(<<NReq, NFull>>)), Mem(11, "LN", List(<<>>)),
         Mem(12, "I", L(1)), Mem(12, "N", NFull), Mem(12, "M", Map(<<P(1, L(1))>>)),
         Mem(12, "LN", List(<<NReq>>)) }

Alone == {Obj(<<>>)} \cup {Obj(<<m>>) : m \in InR}
Pairs == {Obj(<<m, n>>) : m \in InR, n \in {Mem(6, "I", L(6)), Mem(8, "N", NReq)}}

CallOf(typ, v, o, base) == [typ |-> typ, v |-> v, msg |-> Bin(typ, v), opts |-> o,
                            hasBase |-> base, cut |-> FALSE]
Cut(call, n) == [call EXCEPT !.msg = SubSeq(@, 1, n), !.cut = TRUE]

-----------------------------------------------------------------------------
NoList(v) == \A i \in DOMAIN v[2] : v[2][i].id # 11

\* What p1 converts: every member alone with every option and next to others with some, the
\* roots that are no structs, results of functions with and without an exception, and
\* messages cut off.
Wide == {CallOf("R", v, o, FALSE) : v \in Alone, o \in AllOpts}
        \cup {CallOf("R", v, o, FALSE) : v \in {u \in Alone : NoList(u)}, o \in HttpDef}
        \cup {CallOf("R", v, [Http EXCEPT !.fallback = TRUE], FALSE) : v \in Pairs}
        \cup {CallOf("R", Obj(<<m>>), [Opts EXCEPT !.base = TRUE], TRUE) : m \in {n \in InR : n.id \in {4, 9}}}
Roots == {CallOf("L", List(<<L(1), L(2)>>), Opts, FALSE), CallOf("LN", List(<<NReq, NBad>>), Opts, FALSE),
          CallOf("LN", List(<<NReq, NFull>>), Http, FALSE), CallOf("I", L(3), Http, FALSE),
          CallOf("M", Map(<<P(1, L(1))>>), Opts, FALSE), CallOf("MB", Map(<<P(1, L(1))>>), Opts, FALSE)}
Results == {CallOf("X", Obj(<<Mem(i, "N", n)>>), o, FALSE) : i \in {0, 1}, n \in {NFull, NBad}, o \in {Opts, Exc}}
           \cup {CallOf("X", Obj(<<Mem(0, "N", NReq), Mem(1, "N", NFull)>>), Exc, FALSE)}
Long == {CallOf("R", Obj(<<Mem(8, "N", NReq), Mem(3, "L", List(<<L(1)>>)), Mem(12, "M", Map(<<P(1, L(1))>>)),
                            Mem(2, "H", HVal)>>), o, FALSE) : o \in {Opts, Http}}
Cuts == UNION {{Cut(call, n) : n \in 0 .. Len(call.msg) - 1} : call \in Long}
All  == Wide \cup Roots \cup Results \cup Long \cup Cuts

\* What p2 converts at the same time: a struct with high field ids, which leaves marks behind.
Dirty == {CallOf("A", None, [Opts EXCEPT !.wDef = TRUE], FALSE)}

CONSTANTS p1, p2
MCCalls == (p1 :> All) @@ (p2 :> Dirty)
=============================================================================
