----------------------------- MODULE J2PVisitor -----------------------------
(***************************************************************************)
(* JSON to Protobuf: the visitor of conv/j2p/decode.go.                    *)
(*                                                                         *)
(* sonic's ast.Preorder reads the text and calls the visitor once per JSON *)
(* event.  The visitor has no parser state of its own: from its stack of   *)
(* descriptors and from the descriptor of the last key (globalFieldDesc) it*)
(* works out what the event belongs to, appends to the output, and writes  *)
(* the length prefixes of messages, map entries and packed lists back when *)
(* they end.  The visitor comes from a pool, is reset after each call and  *)
(* used again.                                                             *)
(*                                                                         *)
(* A step is one callback.  The output is a sequence of cells: a tag, a    *)
(* value or a map key is one cell, a length prefix one cell for each of    *)
(* its varint bytes, and lengths count cells.                              *)
(***************************************************************************)
EXTENDS Integers, Sequences, FiniteSets

CONSTANTS
    Texts,        \* names, map keys and the text of values
    Messages,     \* the MessageDescriptors
    NoMsg, NoField,
    FieldsOf,     \* [Messages -> names and FieldDescriptors]
    Root,         \* the message to convert to
    Docs,         \* the JSON texts, as sequences of events
    StkDepth,     \* defaultStkDepth; sp is an unsigned number below it
    VarintBase    \* 128: what a varint byte holds

\* "int" is int32 or int64, which take floats too; "uint" any other number
\* without a fraction.
\* A field has a message when its kind is msg, and so has every map.
Kinds == {"int", "uint", "float", "bool", "str", "bytes", "msg"}
Field == {f \in [num : Nat, kind : Kinds, shape : {"one", "list", "map"},
                 msg : Messages \cup {NoMsg}, key : {"str", "num", "other"}, val : Kinds] :
            f.msg # NoMsg \/ f.shape = "map" => f.kind = "msg"}

\* The zero FieldDescriptor: its number is 0 and its type is nil.
ZeroField == [num |-> 0, kind |-> "int", shape |-> "one", msg |-> NoMsg, key |-> "other",
              val |-> "int"]

\* An event of the traversal; "bad" is where the text is no JSON.  ok says
\* that the text of a string is base64, that of a key a number.
Event == [ev : {"objBegin", "objEnd", "arrBegin", "arrEnd", "key",
                "null", "bool", "str", "int", "float", "bad"},
          x : Texts, ok : BOOLEAN]
BeginEvs == {"objBegin", "arrBegin"}
EndEvs == {"objEnd", "arrEnd"}

Frame == [typ : {"nil", "obj", "arr", "map"}, msg : Messages \cup {NoMsg},
          f : Field \cup {NoField}, lenPos : Nat]

ASSUME DescAssumption ==
    /\ Root \in Messages /\ NoMsg \notin Messages /\ NoField \notin Field
    /\ \A m \in Messages : FieldsOf[m] \subseteq [name : Texts, desc : Field]
    /\ \A m \in Messages : \A e \in FieldsOf[m] : e.desc.num > 0
\* After the begin of an object the parser takes a key or its end.
ASSUME DocAssumption ==
    /\ "" \in Texts /\ "0" \in Texts /\ Docs \subseteq Seq(Event)
    /\ \A d \in Docs : \A i \in 1..(Len(d) - 1) :
         d[i].ev = "objBegin" => d[i + 1].ev \in {"key", "objEnd", "bad"}
ASSUME SizeAssumption == StkDepth \in Nat \ {0} /\ VarintBase \in Nat \ {0, 1}

VARIABLES
    src, disallow,   \* the call: its text, and opts.DisallowUnknownField
    pos,             \* events read
    pc,              \* "idle", "run", or how the call has ended
    vu               \* visitorUserNode: sp, stk, globalFieldDesc, inskip, p.Buf

vars == <<src, disallow, pos, pc, vu>>

-----------------------------------------------------------------------------
(* The output *)

Cell(k, n, x) == [k |-> k, n |-> n, x |-> x]
Wire(kind) == IF kind \in {"str", "bytes", "msg"} THEN "len" ELSE kind
Tag(num, kind) == Cell("tag", num, Wire(kind))
Val(x) == Cell("val", 0, x)

CellSet == [k : {"tag", "len", "more", "key", "val"}, n : Nat, x : Texts \cup Kinds \cup {"len"}]

SizeVarint(n) == 1 + Cardinality({w \in 1..9 : n >= VarintBase ^ w})
LenCells(n) == <<Cell("len", n, "")>>
               \o [i \in 1..(SizeVarint(n) - 1) |-> Cell("more", n, "")]

\* AppendSpeculativeLength: the prefix is at the end of the result.
SpeculativeLength(b) == Append(b, Cell("len", 0, ""))
\* FinishSpeculativeLength: what is behind the prefix moves when the length
\* needs more than the one byte that was set aside.
FinishInPlace(b, at) ==
    LET len == LenCells(Len(b) - at)
    IN  SubSeq(b, 1, at - 1) \o len \o SubSeq(b, at + Len(len), Len(b))
FinishLength(b, at) ==
    SubSeq(b, 1, at - 1) \o LenCells(Len(b) - at) \o SubSeq(b, at + 1, Len(b))
IsEmptyLength(b, at) == Len(b) = at

-----------------------------------------------------------------------------
(* The stack *)

EmptyFrame == [typ |-> "nil", msg |-> NoMsg, f |-> NoField, lenPos |-> 0]
Top(v) == v.stk[v.sp]
IncrSPNoWrap(v) == [v EXCEPT !.sp = v.sp + 1]
IncrSP(v) == [v EXCEPT !.sp = (v.sp + 1) % StkDepth]
Pop(v) == [v EXCEPT !.stk[v.sp] = EmptyFrame, !.sp = (v.sp - 1) % StkDepth]

\* visitorUserNode.reset; a lenPos of -1 is 0 here, positions start at 1.
ResetInSkip(v) == [v EXCEPT !.sp = 0, !.stk = [i \in DOMAIN v.stk |-> EmptyFrame],
                            !.gfd = NoField, !.buf = <<>>]
Reset(v) == [v EXCEPT !.sp = 0, !.stk = [i \in DOMAIN v.stk |-> EmptyFrame],
                      !.gfd = NoField, !.inskip = FALSE, !.buf = <<>>]
\* decode: the message that is converted to goes to the bottom of the stack.
Started(v) == [v EXCEPT !.stk[v.sp].msg = Root, !.stk[v.sp].typ = "obj"]
NewVisitor == [sp |-> 0, stk |-> [i \in 0..(StkDepth - 1) |-> EmptyFrame],
               gfd |-> NoField, inskip |-> FALSE, buf |-> <<>>]

\* What a callback leaves: how it ends, and the visitor.
Ends(how, v) == [pc |-> how, v |-> v]
Going(v) == Ends("run", v)
Write(v, cells) == [v EXCEPT !.buf = v.buf \o cells]

\* push: past the last frame sp is 0 again, which is the error.
Push(v, typ, f, at) ==
    LET w == IncrSP(v)
    IN  Ends(IF w.sp = 0 THEN "failed" ELSE "run",
             [w EXCEPT !.stk[w.sp] = [typ |-> typ, msg |-> NoMsg, f |-> f, lenPos |-> at]])

\* FinishSpeculativeLength at the position of the top frame; -1 is an index
\* out of range.
Finish(v) == IF Top(v).lenPos = 0 THEN Ends("panic", v)
             ELSE Going([v EXCEPT !.buf = FinishLength(v.buf, Top(v).lenPos)])

\* The end of a value that is the value of a map entry ends the entry.
EndEntry(v) ==
    IF Top(v).typ # "map" THEN Going(v)
    ELSE LET r == Finish(v) IN IF r.pc = "run" THEN Going(Pop(r.v)) ELSE r

\* onValueEnd: with the descriptor of a key still set the value was a scalar;
\* without, it was what the top of the stack is for.
ValueEnd(v) ==
    CASE v.gfd # NoField                -> EndEntry([v EXCEPT !.gfd = NoField])
      [] v.gfd = NoField /\ v.sp = 0    -> Going(v)
      [] v.gfd = NoField /\ v.sp # 0 /\ Top(v).typ = "obj" -> EndEntry(Pop(v))
      [] v.gfd = NoField /\ v.sp # 0 /\ Top(v).typ \in {"arr", "map"} -> Going(Pop(v))
      [] OTHER                          -> Ends("failed", v)

\* The loop that ends OnArrayEnd: no descriptor of a key is left when it
\* starts, so each round of it pops one list.
UnderLists(v) == {i \in 0..v.sp : \A j \in (i + 1)..v.sp : v.stk[j].typ = "arr"}
PopLists(v) ==
    LET low == CHOOSE i \in UnderLists(v) : \A j \in UnderLists(v) : i <= j
    IN  [v EXCEPT !.sp = low,
                  !.stk = [i \in DOMAIN v.stk |-> IF i \in (low + 1)..v.sp THEN EmptyFrame
                                                  ELSE v.stk[i]]]

-----------------------------------------------------------------------------
(* The callbacks *)

\* The next event; the callback for it leaves r.
On(evs) == /\ pc = "run" /\ pos < Len(src) /\ src[pos + 1].ev \in evs
           /\ UNCHANGED <<src, disallow>>
Tok == src[pos + 1]
After(r) == pc' = r.pc /\ vu' = r.v /\ pos' = pos + 1

\* Every callback for a value that is to be skipped.
Skipped == vu.inskip /\ After(Going([vu EXCEPT !.inskip = FALSE]))

\* The field a value is for: that of the key, or of the list it is in.
FieldOf == IF vu.gfd = NoField /\ Top(vu).typ = "arr" THEN Top(vu).f ELSE vu.gfd

OnNull ==
    /\ On({"null"})
    /\ \/ Skipped
       \/ /\ ~vu.inskip
          /\ LET w == IncrSP(vu) IN After(IF w.sp = 0 THEN Ends("failed", w) ELSE ValueEnd(w))

\* The kinds OnBool, OnInt64 and OnFloat64 know how to write.
Takes(ev) == CASE ev = "bool"  -> Kinds
               [] ev = "int"   -> {"int", "uint", "float"}
               [] ev = "float" -> {"int", "float"}

\* After a scalar: in a list nothing ends.
AfterScalar(v) == IF v.gfd # NoField THEN ValueEnd(v) ELSE Going(v)

\* OnBool, OnInt64, OnFloat64: a list's elements are packed, without a tag.
OnNumber ==
    /\ On({"bool", "int", "float"})
    /\ \/ Skipped
       \/ ~vu.inskip /\ FieldOf \in {NoField, ZeroField} /\ After(Ends("panic", vu))
       \/ /\ ~vu.inskip /\ FieldOf \notin {NoField, ZeroField}
          /\ LET tag == IF FieldOf.shape = "list" THEN <<>>
                        ELSE <<Tag(FieldOf.num, FieldOf.kind)>>
             IN  After(IF FieldOf.kind \in Takes(Tok.ev)
                       THEN AfterScalar(Write(vu, tag \o <<Val(Tok.x)>>))
                       ELSE Ends("failed", vu))

\* OnString looks at the list through its descriptor, whatever the frame is.
StringField == IF vu.gfd = NoField /\ Top(vu).f # NoField /\ Top(vu).f.shape = "list"
               THEN Top(vu).f ELSE vu.gfd
StringFits == \/ StringField.kind = "str"
              \/ StringField.kind = "bytes" /\ Tok.ok
OnString ==
    /\ On({"str"})
    /\ \/ Skipped
       \/ ~vu.inskip /\ StringField = NoField /\ After(Ends("panic", vu))
       \/ /\ ~vu.inskip /\ StringField # NoField
          /\ After(IF StringFits
                   THEN AfterScalar(Write(vu, <<Tag(StringField.num, StringField.kind),
                                                Val(Tok.x)>>))
                   ELSE Ends("failed", vu))

\* VisitOPSkip: the traversal goes to the end of the container at once, and
\* there calls OnObjectEnd or OnArrayEnd.
Depth(e) == Cardinality({i \in (pos + 1)..e : src[i].ev \in BeginEvs})
            - Cardinality({i \in (pos + 1)..e : src[i].ev \in EndEvs})
Closes == {e \in (pos + 1)..Len(src) : Depth(e) = 0 /\ \A d \in (pos + 1)..(e - 1) : Depth(d) > 0}
SkipContainer ==
    /\ vu.inskip
    /\ vu' = vu
    /\ IF Closes = {} THEN pc' = "failed" /\ pos' = pos
       ELSE pc' = pc /\ pos' = (CHOOSE e \in Closes : TRUE) - 1

\* A tag and a length prefix, and the frame that will finish it.
Open(v, typ, f) ==
    LET w == [v EXCEPT !.buf = SpeculativeLength(Append(v.buf, Tag(f.num, "msg")))]
    IN  Push(w, typ, f, Len(w.buf))

OnObjectBegin ==
    /\ On({"objBegin"})
    /\ \/ SkipContainer
       \/ ~vu.inskip /\ FieldOf = NoField /\ After(Going(vu))
       \/ ~vu.inskip /\ FieldOf = ZeroField /\ After(Ends("panic", vu))
       \/ /\ ~vu.inskip /\ FieldOf \notin {NoField, ZeroField}
          /\ After(IF FieldOf.shape = "map" THEN Push(vu, "map", FieldOf, 0)
                   ELSE Open(vu, "obj", FieldOf))

\* The value of a map entry, as a field of the entry's message.
ValueField(f) == [f EXCEPT !.num = 2, !.kind = f.val, !.shape = "one", !.val = "int",
                           !.msg = IF f.val = "msg" THEN f.msg ELSE NoMsg, !.key = "other"]
\* encodeMapKey, which takes any text for a number.
KeyText == IF Top(vu).f.key = "num" /\ ~Tok.ok THEN "0" ELSE Tok.x
\* The tag, the length and the key of a map entry; the value comes next.
Entry(f) ==
    LET w == SpeculativeLength(Append(vu.buf, Tag(f.num, "msg")))
        k == <<Tag(1, IF f.key = "num" THEN "int" ELSE "str"), Cell("key", 0, KeyText)>>
        r == Push([vu EXCEPT !.buf = w \o k], "map", f, Len(w))
    IN  IF f.key = "other" THEN Ends("failed", vu)
        ELSE IF r.pc = "run" THEN Going([r.v EXCEPT !.gfd = ValueField(f)]) ELSE r

\* The key of a message: a name without a field has its value skipped.
Member(m) ==
    LET found == {e \in FieldsOf[m] : e.name = Tok.x}
    IN  IF found # {} THEN Going([vu EXCEPT !.gfd = (CHOOSE e \in found : TRUE).desc])
        ELSE IF disallow THEN Ends("failed", vu)
        ELSE Going([vu EXCEPT !.inskip = TRUE])

MessageOf(fr) == IF fr.msg # NoMsg THEN fr.msg ELSE fr.f.msg
OnObjectKey ==
    /\ On({"key"})
    /\ \/ /\ Top(vu).typ = "obj"
          /\ After(IF MessageOf(Top(vu)) = NoMsg THEN Ends("panic", vu)
                   ELSE Member(MessageOf(Top(vu))))
       \/ Top(vu).typ = "map" /\ After(Entry(Top(vu).f))
       \/ Top(vu).typ = "arr" /\ After(Going([vu EXCEPT !.gfd = Top(vu).f]))
       \/ Top(vu).typ = "nil" /\ After(Going([vu EXCEPT !.gfd = ZeroField]))

OnObjectEnd ==
    /\ On({"objEnd"})
    /\ \/ Skipped
       \/ ~vu.inskip /\ Top(vu).lenPos = 0 /\ After(ValueEnd(vu))
       \/ ~vu.inskip /\ Top(vu).lenPos # 0 /\ After(ValueEnd(Finish(vu).v))

IsPacked(f) == f.shape = "list" /\ f.kind \notin {"str", "bytes", "msg"}

OnArrayBegin ==
    /\ On({"arrBegin"})
    /\ \/ SkipContainer
       \/ ~vu.inskip /\ vu.gfd = NoField /\ After(Going(vu))
       \/ ~vu.inskip /\ vu.gfd = ZeroField /\ After(Ends("panic", vu))
       \/ /\ ~vu.inskip /\ vu.gfd \notin {NoField, ZeroField}
          /\ After(IF IsPacked(vu.gfd) THEN Open(vu, "arr", vu.gfd)
                   ELSE Push(vu, "arr", vu.gfd, 0))

\* The end of a list of any kind: the frames of lists go.
EndListOnce(v) == ValueEnd(v)
EndList(v) == LET r == ValueEnd(v) IN IF r.pc = "run" THEN Going(PopLists(r.v)) ELSE r

\* An empty packed list is taken back with its tag, whose size is that of the
\* field of the key.
TakeBackLong(v) == [v EXCEPT !.buf = SubSeq(v.buf, 1, Top(v).lenPos - 3)]
TakeBack(v) == [v EXCEPT !.buf = SubSeq(v.buf, 1, Top(v).lenPos - 2)]

OnArrayEnd ==
    /\ On({"arrEnd"})
    /\ LET packed == Top(vu).lenPos # 0 /\ IsPacked(Top(vu).f)
           empty  == IsEmptyLength(vu.buf, Top(vu).lenPos)
       IN  \/ Skipped
           \/ ~vu.inskip /\ ~packed /\ After(EndList(vu))
           \/ ~vu.inskip /\ packed /\ ~empty /\ After(EndList(Finish(vu).v))
           \/ /\ ~vu.inskip /\ packed /\ empty
              /\ After(IF vu.gfd = NoField THEN Ends("panic", vu) ELSE EndList(TakeBack(vu)))

-----------------------------------------------------------------------------
(* The call *)

\* Preorder finds that the text is no JSON.
Malformed == On({"bad"}) /\ After(Ends("failed", vu))

Result == /\ pc = "run" /\ pos = Len(src)
          /\ pc' = IF vu.sp = 0 THEN "done" ELSE "failed"
          /\ UNCHANGED <<src, disallow, pos, vu>>

\* unmarshal takes a visitor from the pool and, when the result is there, resets
\* it and puts it back, whatever the result was.  A panic loses it.
Call == /\ pc = "idle"
        /\ src' \in Docs /\ disallow' \in BOOLEAN
        /\ pos' = 0 /\ pc' = "run"
        /\ vu' = Started(vu)
Release == /\ pc \in {"done", "failed"}
           /\ src' = <<>> /\ disallow' = FALSE /\ pos' = 0 /\ pc' = "idle"
           /\ vu' = Reset(vu)
Stop == pc = "panic" /\ UNCHANGED vars

Init == /\ src = <<>> /\ disallow = FALSE /\ pos = 0 /\ pc = "idle"
        /\ vu = NewVisitor

OnValue == OnNull \/ OnNumber \/ OnString
OnContainer == OnObjectBegin \/ OnObjectKey \/ OnObjectEnd \/ OnArrayBegin \/ OnArrayEnd
Next == OnValue \/ OnContainer \/ Malformed \/ Result \/ Call \/ Release \/ Stop

Spec == Init /\ [][Next]_vars

-----------------------------------------------------------------------------
(* Properties *)

Visitor == [sp : 0..(StkDepth - 1), stk : [0..(StkDepth - 1) -> Frame],
            gfd : Field \cup {NoField}, inskip : BOOLEAN, buf : Seq(CellSet)]

\* Every variable keeps its type.
TypeOK ==
    /\ pc \in {"idle", "run", "done", "failed", "panic"}
    /\ src \in Docs \cup {<<>>} /\ disallow \in BOOLEAN /\ pos \in 0..Len(src)
    /\ vu \in Visitor

\* The positions of the open lengths are kept in the stack while the output
\* grows, shrinks by an empty list, and moves when a length inside turns out
\* longer than the byte set aside.  Each must stay the position of a length,
\* and a frame's length lies inside that of the frames below it.
LengthsNested ==
    pc = "run" =>
        \A i \in 0..vu.sp : vu.stk[i].lenPos # 0 =>
            /\ vu.stk[i].lenPos <= Len(vu.buf) /\ vu.buf[vu.stk[i].lenPos].k = "len"
            /\ \A j \in 0..(i - 1) : vu.stk[j].lenPos < vu.stk[i].lenPos

\* The cells that are no part of a length, and the place of one among them.
Written(b) == {i \in 1..Len(b) : b[i].k \notin {"len", "more"}}
Place(b, i) == Cardinality({j \in Written(b) : j <= i})

\* The n-th cell of a that is no part of a length is the n-th of b.
Kept(b, a) == \A i \in Written(a) : \E j \in Written(b) :
                  b[j] = a[i] /\ Place(b, j) = Place(a, i)

\* No callback loses, changes or moves about what earlier ones have written:
\* lengths are written back in between, and only the tag of a packed list that
\* has turned out empty is taken away again.
KeptOutput ==
    [][pc = "run" =>
         \/ Kept(vu'.buf, vu.buf)
         \/ /\ src[pos + 1].ev = "arrEnd" /\ Top(vu).lenPos = Len(vu.buf)
            /\ vu'.buf = SubSeq(vu.buf, 1, Len(vu.buf) - 2)]_vars
=============================================================================
