------------------------------- MODULE MC_J2T -------------------------------
(***************************************************************************)
(* Instances of J2TFsm for TLC: a small IDL, JSON texts and options.       *)
(***************************************************************************)
EXTENDS J2TFallback, TLC, SequencesExt

CONSTANTS S, T, Num, I16, Str, Bool, LT, M, NT, NF

MCTexts == STRING
MCTypes == {S, T, Num, I16, Str, Bool, LT, M}

FD(id, name, type, req) ==
    [id |-> id, name |-> name, type |-> type, req |-> req, bit |-> req # "optional",
     base |-> FALSE, hm |-> FALSE, vm |-> "none"]

Scalar(k) == [kind |-> k, key |-> "str", elem |-> NT, fields |-> {}, words |-> 0,
              idsLen |-> 0, hms |-> <<>>]
Cont(k, e) == [Scalar(k) EXCEPT !.elem = e]

\* struct S { 0: required num a; 1: T t; 2: required string h (http); 3: optional
\*   map<num, num> m; 4: optional list<T> l; 5: num v (go mapping); 6: T base (request base);
\*   7: required num c; 8: optional num j (js_conv); 9: optional i16 k (js_conv) }
\* struct T { 0: required num x; 1: optional T t; 2: string y; 3: bool z }
H == [FD(2, "h", Str, "required") EXCEPT !.hm = TRUE]
StructS == [Scalar("struct") EXCEPT
    !.fields = {FD(0, "a", Num, "required"), FD(1, "t", T, "default"), H,
                FD(3, "m", M, "optional"), FD(4, "l", LT, "optional"),
                [FD(5, "v", Num, "default") EXCEPT !.vm = "go"],
                [FD(6, "base", T, "default") EXCEPT !.base = TRUE, !.bit = FALSE],
                FD(7, "c", Num, "required"),
                [FD(8, "j", Num, "optional") EXCEPT !.vm = "jsconv"],
                [FD(9, "k", I16, "optional") EXCEPT !.vm = "jsconv"]},
    !.words = 5, !.idsLen = 10, !.hms = <<H>>]
StructT == [Scalar("struct") EXCEPT
    !.fields = {FD(0, "x", Num, "required"), FD(1, "t", T, "optional"),
                FD(2, "y", Str, "default"), FD(3, "z", Bool, "optional")},
    !.words = 2, !.idsLen = 4]

MCTypeDesc == (S :> StructS) @@ (T :> StructT) @@ (Num :> Scalar("num"))
              @@ (I16 :> Scalar("i16")) @@ (Str :> Scalar("str")) @@ (Bool :> Scalar("bool"))
              @@ (LT :> Cont("list", T)) @@ (M :> [Cont("map", Num) EXCEPT !.key = "num"])

-----------------------------------------------------------------------------
\* JSON texts.  An object or a list is put together from the texts inside it.
P(c)  == <<[ch |-> c, x |-> "", esc |-> FALSE, qn |-> FALSE]>>
NumT  == <<[ch |-> "num", x |-> "1", esc |-> FALSE, qn |-> FALSE]>>
BoolT == <<[ch |-> "bool", x |-> "true", esc |-> FALSE, qn |-> FALSE]>>
Null  == P("null")
Q(s)  == <<[ch |-> "str", x |-> s, esc |-> FALSE, qn |-> FALSE]>>
QNum  == <<[ch |-> "str", x |-> "1", esc |-> FALSE, qn |-> TRUE]>>
Esc(s) == <<[ch |-> "str", x |-> s, esc |-> TRUE, qn |-> FALSE]>>

Commas(seq) == IF seq = <<>> THEN <<>>
               ELSE FoldLeft(LAMBDA acc, e : acc \o P(",") \o e, Head(seq), Tail(seq))
Obj(seq)   == P("{") \o Commas(seq) \o P("}")
Arr(seq)   == P("[") \o Commas(seq) \o P("]")
At1(k, v)  == Q(k) \o P(":") \o v

A == At1("a", NumT)
C == At1("c", NumT)
HS == At1("h", Q("s"))
X == At1("x", NumT)
TX == Obj(<<X>>)
Deep(t) == Obj(<<At1("t", t), X>>)

\* Whole conversions: nesting, nulls of members that are not counted as
\* missing, skipped values, mappings, escaped keys.
GoodDocs ==
    { Obj(<<>>),
      Obj(<<A, HS, C>>),
      Obj(<<At1("t", TX), A, HS, C>>),
      Obj(<<A, C, At1("l", Arr(<<TX, Obj(<<X, At1("t", TX), At1("y", Q("w"))>>)>>)), HS>>),
      Obj(<<At1("m", Obj(<<QNum \o P(":") \o NumT, QNum \o P(":") \o Null>>)), C, A, HS>>),
      Obj(<<A, HS, C, At1("m", Null)>>),
      Obj(<<At1("l", Arr(<<Null, TX, Null>>)), At1("m", Obj(<<>>)), A, HS, C>>),
      Obj(<<A, At1("l", Arr(<<>>)), HS, C, At1("t", Obj(<<>>))>>),
      Obj(<<At1("v", Arr(<<NumT>>)), A, C, HS, At1("j", QNum)>>),
      Obj(<<At1("u", Obj(<<At1("q", Arr(<<NumT>>))>>)), At1("base", TX), A, HS, C>>),
      Obj(<<Esc("a") \o P(":") \o QNum, HS, C, At1("t", Obj(<<X, Esc("z") \o P(":") \o BoolT>>))>>),
      Obj(<<At1("t", Obj(<<X, At1("t", TX)>>)), At1("j", Q("")), A, C, HS>>),
      Obj(<<At1("l", Arr([i \in 1..8 |-> TX]))>>) }

\* A null of a member that is then missing, the null request base, and a text
\* nested beyond MaxRecurse.
OddDocs ==
    { Obj(<<At1("a", Null), HS, C>>),
      Obj(<<At1("base", Null), HS, A, C>>),
      Obj(<<A, HS, At1("t", Null), C>>),
      Obj(<<At1("t", Deep(Deep(Deep(TX)))), A, HS, C>>) }

\* Texts that must be refused.
BadDocs ==
    { <<>>, P("{"), NumT, P("]"),
      P("{") \o A, P("{") \o At1("v", NumT), P("{") \o A \o P(",") \o P("}"), P("{") \o NumT,
      P("{") \o Q("a") \o NumT \o P("}"),
      Obj(<<A \o NumT>>),
      Obj(<<At1("a", Arr(<<>>)), HS, C>>),
      Obj(<<At1("a", Obj(<<>>)), HS, C>>),
      Obj(<<At1("a", Q("s")), HS, C>>),
      Obj(<<At1("l", P("[") \o TX \o TX \o P("]"))>>),
      Obj(<<At1("m", Obj(<<At1("q", NumT)>>))>>),
      P("{") \o At1("u", P("[")), P("{") \o At1("v", P("[")),
      Obj(<<At1("j", BoolT), HS, A, C>>) }

MCDocs == GoodDocs \cup OddDocs \cup BadDocs

-----------------------------------------------------------------------------
Plain == [hm |-> FALSE, vm |-> FALSE, tb |-> FALSE, tbRoot |-> FALSE, wr |-> FALSE,
          wd |-> FALSE, wo |-> FALSE, unknown |-> TRUE, noBase |-> FALSE, i2s |-> FALSE]

MCOptions ==
    { [Plain EXCEPT !.i2s = TRUE],
      [Plain EXCEPT !.wr = TRUE, !.wd = TRUE, !.wo = TRUE, !.noBase = TRUE, !.vm = TRUE],
      [Plain EXCEPT !.unknown = FALSE, !.wd = TRUE],
      [Plain EXCEPT !.hm = TRUE, !.vm = TRUE, !.wr = TRUE],
      [Plain EXCEPT !.hm = TRUE, !.tb = TRUE, !.tbRoot = TRUE, !.wr = TRUE, !.wd = TRUE],
      [Plain EXCEPT !.hm = TRUE, !.wd = TRUE],
      [Plain EXCEPT !.hm = TRUE, !.tb = TRUE, !.tbRoot = TRUE] }

MCHttp == { [hm |-> {"h"}, any |-> {}], [hm |-> {}, any |-> {"a", "h", "x"}] }
=============================================================================
