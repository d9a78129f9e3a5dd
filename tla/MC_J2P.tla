------------------------------- MODULE MC_J2P -------------------------------
(***************************************************************************)
(* Instances of J2PVisitor for TLC: two messages, and JSON texts put       *)
(* together from their members.                                            *)
(***************************************************************************)
EXTENDS J2PEncoding

CONSTANTS R, M, NM, NF

MCTexts == STRING
MCMessages == {R, M}

F(num, kind) == [num |-> num, kind |-> kind, shape |-> "one",
                 msg |-> IF kind = "msg" THEN M ELSE NM, key |-> "other", val |-> "int"]
ListOf(num, kind) == [F(num, kind) EXCEPT !.shape = "list"]
MapOf(num, key, val) == [F(num, "msg") EXCEPT !.shape = "map", !.key = key, !.val = val]
Named(name, f) == [name |-> name, desc |-> f]

\* message R { 1: int32 a; 2: uint32 u; 3: double d; 4: bool b; 5: string s; 6: bytes y;
\*   7: M m; 8: repeated int32 li; 9: repeated string ls; 10: repeated M lm;
\*   11: map<string, int32> mp; 12: map<int32, M> mm; 13: map<sint32, int32> mz }
\* message M { 1: int32 x; 2: M m; 3: repeated int32 li; 4: map<string, int32> mp;
\*   5: int32 a; 6: repeated M lm }
MCFieldsOf ==
    [r \in MCMessages |->
       IF r = R
       THEN { Named("a", F(1, "int")), Named("u", F(2, "uint")), Named("d", F(3, "float")),
              Named("b", F(4, "bool")), Named("s", F(5, "str")), Named("y", F(6, "bytes")),
              Named("m", F(7, "msg")), Named("li", ListOf(8, "int")),
              Named("ls", ListOf(9, "str")), Named("lm", ListOf(10, "msg")),
              Named("mp", MapOf(11, "str", "int")), Named("mm", MapOf(12, "num", "msg")),
              Named("mz", MapOf(13, "other", "int")) }
       ELSE { Named("x", F(1, "int")), Named("m", F(2, "msg")), Named("li", ListOf(3, "int")),
              Named("mp", MapOf(4, "str", "int")), Named("a", F(5, "int")),
              Named("lm", ListOf(6, "msg")) }]

-----------------------------------------------------------------------------
T(ev, x, ok) == <<[ev |-> ev, x |-> x, ok |-> ok]>>
P(ev)   == T(ev, "", TRUE)
Num     == T("int", "1", TRUE)
Flt     == T("float", "1", TRUE)
Bool    == T("bool", "true", TRUE)
Str     == T("str", "s", FALSE)
B64     == T("str", "s", TRUE)
Null    == P("null")
Bad     == P("bad")
ObjBegin == P("objBegin")
ArrBegin == P("arrBegin")
Obj(ms) == ObjBegin \o FlattenSeq(ms) \o P("objEnd")
Arr(es) == ArrBegin \o FlattenSeq(es) \o P("arrEnd")
At(k, v)  == T("key", k, FALSE) \o v
AtN(k, v) == T("key", k, TRUE) \o v

UpTo2(S) == {<<>>} \cup {<<e>> : e \in S} \cup {<<e, f>> : e \in S, f \in S}

\* Texts for M.
X == At("x", Num)
A == At("a", Num)
MX == Obj(<<X>>)
InM == { X, A, At("li", Arr(<<>>)), At("li", Arr(<<Num, Num>>)), At("mp", Obj(<<At("k", Num)>>)),
         At("m", MX), At("lm", Arr(<<MX>>)), At("q", Obj(<<At("q", Arr(<<Null>>))>>)) }
Ms == {Obj(ms) : ms \in UpTo2(InM)}
SmallMs == {Obj(<<>>), MX, Obj(<<X, At("li", Arr(<<>>))>>), Obj(<<At("q", Null), X>>)}
LongM == Obj(<<At("li", Arr([i \in 1..17 |-> Num])), X>>)

\* Members for R.
InR == {At("a", Num), At("a", Flt), At("u", Num), At("d", Flt), At("b", Bool), At("s", Str),
        At("y", B64), At("li", Arr(<<>>)), At("li", Arr(<<Num, Flt>>)), At("ls", Arr(<<>>)),
        At("ls", Arr(<<Str, B64>>)), At("mp", Obj(<<At("k", Num), At("l", Flt)>>)),
        At("mm", Obj(<<AtN("1", LongM), At("k", MX)>>)), At("m", LongM),
        At("q", Null), At("q", Num), At("q", Str), At("q", Arr(<<Null>>)), At("q", Obj(<<>>))}
       \cup {At("m", o) : o \in Ms}
       \cup {At("lm", Arr(os)) : os \in UpTo2(SmallMs)}
       \cup {At("mm", Obj(<<AtN("1", o), AtN("2", n)>>)) : o \in SmallMs, n \in SmallMs}
After1 == {A, At("m", MX), At("li", Arr(<<>>)), At("mm", Obj(<<AtN("1", MX)>>)),
           At("lm", Arr(<<MX, Obj(<<>>)>>)), At("q", Null)}
GoodDocs == {Obj(<<>>)} \cup {Obj(<<e>>) : e \in InR}
            \cup {Obj(<<e, f>>) : e \in InR, f \in After1}
            \cup {Obj(<<A, e, At("m", MX)>>) : e \in InR}

\* Texts that must be refused, or that nest deeper than the stack.
Deep(o) == Obj(<<At("m", o)>>)
BadDocs == { Bad, ObjBegin \o Bad, ObjBegin \o A \o Bad, ObjBegin \o At("q", Bad),
             ObjBegin \o At("q", ArrBegin), ObjBegin \o At("q", ObjBegin),
             ObjBegin \o At("m", ObjBegin) \o Bad,
             Obj(<<At("a", Str)>>), Obj(<<At("s", Num)>>), Obj(<<At("y", Str)>>),
             Obj(<<At("u", Flt)>>), Obj(<<At("m", Num)>>), Obj(<<At("mz", Obj(<<At("1", Num)>>))>>),
             Deep(Deep(Deep(Deep(MX)))), Deep(Deep(Deep(Deep(Deep(MX))))),
             Deep(Deep(Obj(<<At("mp", Obj(<<At("k", Num)>>))>>))),
             Deep(Deep(Deep(Obj(<<At("mp", Obj(<<At("k", Num)>>))>>)))),
             Deep(Deep(Deep(Deep(Obj(<<At("mp", Obj(<<At("k", Num)>>))>>))))),
             Deep(Deep(Deep(Obj(<<At("lm", Arr(<<MX>>))>>)))),
             Deep(Deep(Deep(Deep(Obj(<<At("li", Arr(<<Num>>))>>))))) }

\* Nulls, empty maps, values of another kind, which lose the thread.
OddDocs == { Obj(<<At("a", Null)>>), Obj(<<At("a", Null), A>>), Obj(<<At("s", Null), At("s", Str)>>),
             Obj(<<At("a", Null), At("m", MX)>>), Obj(<<At("a", Null), At("li", Arr(<<>>))>>),
             Obj(<<At("li", Arr(<<Num, Null>>))>>), Deep(Deep(Deep(Deep(Obj(<<At("a", Null)>>))))),
             Obj(<<At("mp", Obj(<<>>))>>), Obj(<<A, At("m", Obj(<<At("mp", Obj(<<>>))>>))>>),
             Obj(<<At("b", Num), At("a", Bool)>>), Obj(<<At("a", Obj(<<A>>))>>),
             Obj(<<At("a", Arr(<<Num, Num>>))>>), Obj(<<At("li", Arr(<<Arr(<<Num>>), Num>>))>>),
             Obj(<<At("li", Arr(<<Obj(<<>>)>>)), A>>), Obj(<<At("m", Arr(<<MX>>)), A>>),
             Obj(<<At("lm", Arr(<<Obj(<<At("m", Obj(<<At("li", Arr(<<Num, Arr(<<>>)>>))>>)), X>>)>>))>>),
             Obj(<<At("mp", Obj(<<At("k", Arr(<<Num>>)), At("l", Num)>>)), A>>),
             Arr(<<Num>>), Arr(<<Obj(<<A>>)>>), Num, Str, Null }

MCDocs == GoodDocs \cup BadDocs \cup OddDocs
=============================================================================
