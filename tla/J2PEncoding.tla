----------------------------- MODULE J2PEncoding -----------------------------
(***************************************************************************)
(* What a JSON text is in Protobuf: a recursive encoder that follows the   *)
(* structure of the text and of the descriptors, and knows what each value *)
(* is for.  The callbacks of J2PVisitor must write the same.               *)
(***************************************************************************)
EXTENDS J2PVisitor, SequencesExt

\* The result for a value that starts at event p: "ok" or "err", the position
\* after it, its encoding, and what is unusual about the text:
\*   "message" a message without a known member, "map" a map without entries,
\*   "null"    a null for a field, "kind" a value of another kind of field.
Enc(st, p, out, odd) == [st |-> st, p |-> p, out |-> out, odd |-> odd]
Err(odd) == Enc("err", 0, <<>>, odd)

Ev(p) == IF p < Len(src) THEN src[p + 1].ev ELSE "bad"
TokAt(p) == src[p + 1]

\* The position after the value at p, 0 if there is none.
ValueEnds(p) ==
    LET depth(e) == Cardinality({i \in (p + 1)..e : src[i].ev \in BeginEvs})
                    - Cardinality({i \in (p + 1)..e : src[i].ev \in EndEvs})
        ends == {e \in (p + 1)..Len(src) : depth(e) = 0 /\ \A d \in (p + 1)..(e - 1) : depth(d) > 0}
    IN  IF Ev(p) \in EndEvs \cup {"bad"} \/ ends = {} THEN 0 ELSE CHOOSE e \in ends : TRUE

Prefixed(num, body) == <<Tag(num, "msg")>> \o LenCells(Len(body)) \o body

\* A scalar of field f, with its tag unless it is packed.
ScalarAt(f, p) ==
    LET tok == TokAt(p)
        fits == \/ tok.ev = "bool"  /\ f.kind = "bool"
                \/ tok.ev = "int"   /\ f.kind \in {"int", "uint", "float"}
                \/ tok.ev = "float" /\ f.kind \in {"int", "float"}
                \/ tok.ev = "str"   /\ f.kind \in (IF tok.ok THEN {"str", "bytes"} ELSE {"str"})
    IN  IF fits THEN Enc("ok", p + 1, (IF IsPacked(f) THEN <<>> ELSE <<Tag(f.num, f.kind)>>)
                                      \o <<Val(tok.x)>>, {})
        ELSE IF tok.ev = "bool" THEN Enc("ok", p + 1, <<>>, {"kind"})
        ELSE Err({})

RECURSIVE Members(_, _, _, _, _, _), FieldAt(_, _, _), Elements(_, _, _, _, _, _),
          Entries(_, _, _, _, _)

\* The members of a message, from p on; known: one has been found, or none has
\* to be.  depth is the number of containers around.
Members(m, p, depth, known, out, odd) ==
    CASE Ev(p) = "objEnd" -> Enc("ok", p + 1, out, odd \cup (IF known THEN {} ELSE {"message"}))
      [] Ev(p) = "key" ->
           LET found == {e \in FieldsOf[m] : e.name = TokAt(p).x}
               f == (CHOOSE e \in found : TRUE).desc
               v == FieldAt(f, p + 1, depth)
               q == ValueEnds(p + 1)
           IN  IF found # {}
               THEN IF v.st = "err" THEN Err(odd \cup v.odd)
                    ELSE Members(m, v.p, depth, TRUE, out \o v.out, odd \cup v.odd)
               ELSE IF disallow \/ q = 0 THEN Err(odd)
               ELSE Members(m, q, depth, known, out, odd)
      [] OTHER -> Err(odd)

\* A message at p, in a field or in a list.
MessageAt(f, p, depth, known) ==
    IF depth + 1 = StkDepth THEN Err({})
    ELSE LET b == Members(f.msg, p + 1, depth + 1, known, <<>>, {})
         IN  IF b.st = "err" THEN b ELSE [b EXCEPT !.out = Prefixed(f.num, b.out)]

\* The value of field f at p.
FieldAt(f, p, depth) ==
    CASE Ev(p) = "bad" -> Err({})
      [] Ev(p) = "null" -> Enc("ok", p + 1, <<>>, {"null"})
      [] Ev(p) \notin {"bad", "null"} /\ f.shape = "one" ->
           IF Ev(p) = "objBegin" /\ f.kind = "msg" THEN MessageAt(f, p, depth, FALSE)
           ELSE IF Ev(p) \in BeginEvs THEN Err({"kind"})
           ELSE ScalarAt(f, p)
      [] Ev(p) \notin {"bad", "null"} /\ f.shape = "list" ->
           IF Ev(p) # "arrBegin" THEN Err({"kind"})
           ELSE IF depth + 1 = StkDepth THEN Err({})
           ELSE LET l == Elements(f, p + 1, depth + 1, FALSE, <<>>, {})
                IN  IF l.st = "err" \/ ~IsPacked(f) \/ l.out = <<>> THEN l
                    ELSE [l EXCEPT !.out = Prefixed(f.num, l.out)]
      [] Ev(p) \notin {"bad", "null"} /\ f.shape = "map" ->
           IF Ev(p) # "objBegin" THEN Err({"kind"})
           ELSE IF depth + 1 = StkDepth THEN Err({})
           ELSE IF Ev(p + 1) = "objEnd" THEN Enc("ok", p + 2, <<>>, {"map"})
           ELSE Entries(f, p + 1, depth + 1, <<>>, {})

\* The elements of a list; later: there was one before.
Elements(f, p, depth, later, out, odd) ==
    IF Ev(p) = "arrEnd" THEN Enc("ok", p + 1, out, odd)
    ELSE IF Ev(p) = "null" THEN Err(odd \cup {"null"})
    ELSE IF Ev(p) = "bad" THEN Err(odd)
    ELSE LET isMsg == Ev(p) = "objBegin" /\ f.kind = "msg"
             e == IF isMsg THEN MessageAt(f, p, depth, later) ELSE ScalarAt(f, p)
         IN  IF ~isMsg /\ Ev(p) \in BeginEvs THEN Err(odd \cup {"kind"})
             ELSE IF e.st = "err" THEN Err(odd \cup e.odd)
             ELSE Elements(f, e.p, depth, TRUE, out \o e.out, odd \cup e.odd)

\* The entries of a map: each is a message of its own, of the key and the value.
Entries(f, p, depth, out, odd) ==
    IF Ev(p) = "objEnd" THEN Enc("ok", p + 1, out, odd)
    ELSE IF Ev(p) # "key" \/ f.key = "other" \/ depth + 1 = StkDepth THEN Err(odd)
    ELSE LET k == <<Tag(1, IF f.key = "num" THEN "int" ELSE "str"),
                    Cell("key", 0, IF f.key = "num" /\ ~TokAt(p).ok THEN "0" ELSE TokAt(p).x)>>
             v == FieldAt(ValueField(f), p + 1, depth + 1)
         IN  IF v.st = "err" THEN Err(odd \cup v.odd)
             ELSE Entries(f, v.p, depth, out \o Prefixed(f.num, k \o v.out), odd \cup v.odd)

\* The whole text, which must be one object.
Encoding == IF Ev(0) = "objBegin" THEN Members(Root, 1, 0, TRUE, <<>>, {})
            ELSE IF Ev(0) = "bad" THEN Err({}) ELSE Err({"kind"})

-----------------------------------------------------------------------------
(* Properties *)

\* The containers that are open in the text, without the root.
Nest(stack, ev) == IF ev \in BeginEvs THEN Append(stack, ev)
                   ELSE IF ev \in EndEvs /\ stack # <<>> THEN Front(stack) ELSE stack
Containers == FoldLeft(Nest, <<>>, [i \in 1..(pos - 1) |-> src[i + 1].ev])

\* The containers that are open on the stack: a map entry has a frame with a
\* length, on top of the frame of its map, and is no container of the text.
IsEntry(fr) == fr.typ = "map" /\ fr.lenPos # 0
Bracket(fr) == IF fr.typ = "arr" THEN "arrBegin" ELSE "objBegin"
Frames == LET own == SelectSeq([i \in 1..vu.sp |-> vu.stk[i]], LAMBDA fr : ~IsEntry(fr))
          IN  [i \in 1..Len(own) |-> Bracket(own[i])]

\* The visitor must find out for itself what an event belongs to: whether a
\* value has ended a map entry, a message in a map entry, or nothing, it tells
\* from globalFieldDesc and the types of two frames.  Between two events its
\* stack must hold the containers that are open in the text, in their order,
\* and the entry of a map only while its value is due.
StackFits == /\ Frames = Containers
             /\ pos < Len(src) /\ src[pos + 1].ev \in EndEvs \cup {"key"} => ~IsEntry(Top(vu))
FollowsText ==
    pc = "run" /\ pos > 0 /\ ~vu.inskip => StackFits \/ Encoding.odd # {}

\* The result of a call: every value under its own tag, inside the messages the
\* text has it in, each length that of its own content (also when the length
\* takes more bytes than were set aside), members without a field left out,
\* an error for what has no encoding and for no other text; and all this
\* whatever the earlier calls were that the pooled visitor has served.
Encodes ==
    /\ pc = "done" => \/ Encoding.st = "ok" /\ vu.buf = Encoding.out
                      \/ Encoding.odd # {}
    /\ pc \in {"failed", "panic"} => \/ Encoding.st = "err" /\ pc = "failed"
                                     \/ Encoding.odd # {}
=============================================================================
