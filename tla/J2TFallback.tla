---------------------------- MODULE J2TFallback ----------------------------
(***************************************************************************)
(* The portable JSON to Thrift converter (conv/j2t/impl_fallback.go), which*)
(* is built where the native one is not: doRecurse as recursive operators  *)
(* over the tokens and descriptors of J2TFsm.  It has no stack of its own, *)
(* no capacities and nothing to resume, so its result is what every        *)
(* interrupted run of the native machine must come to.                     *)
(***************************************************************************)
EXTENDS J2TFsm

\* What doRecurse leaves: "ok", "null" (errNull) or "err"; the position; p.Buf.
Res(st, pos, out) == [st |-> st, pos |-> pos, out |-> out]
ErrRes == Res("err", 0, <<>>)

At(pos) == IF pos < Len(src) THEN src[pos + 1].ch ELSE "eof"
TokAt(pos) == src[pos + 1]

\* json.SkipValue
SkipFrom(pos) ==
    LET depth(e) == Cardinality({i \in (pos + 1)..e : src[i].ch \in {"{", "["}})
                    - Cardinality({i \in (pos + 1)..e : src[i].ch \in {"}", "]"}})
        ends == {e \in (pos + 1)..Len(src) : /\ At(pos) \in ValueStart /\ depth(e) = 0
                                            /\ \A d \in (pos + 1)..(e - 1) : depth(d) > 0}
    IN  IF ends = {} THEN 0 ELSE CHOOSE e \in ends : TRUE

\* A requires bitmap: the ids whose bit is set.
RequiresOf(td) == {f.id : f \in {g \in TypeDesc[td].fields : g.bit}}

\* handleHttpMappings over the mapped fields from the k-th on.
RECURSIVE MapHttp(_, _, _, _)
MapHttp(td, k, bm, out) ==
    IF k > Len(TypeDesc[td].hms) THEN [st |-> "ok", bm |-> bm, out |-> out]
    ELSE LET f == TypeDesc[td].hms[k]
             found == f.name \in http.hm
         IN  IF ~found /\ opts.tb THEN MapHttp(td, k + 1, bm \cup {f.id}, out)
             ELSE IF MissingFails(f, found) THEN [st |-> "err", bm |-> bm, out |-> out]
             ELSE MapHttp(td, k + 1, bm \ {f.id}, out \o StringCells(f, found))

\* bm.HandleRequires with the handler of doRecurse, from id `id` on.
RECURSIVE FillMissing(_, _, _, _, _)
FillMissing(td, bm, id, depth, out) ==
    IF \A b \in bm : b < id THEN Res("ok", 0, out)
    ELSE IF id \notin bm THEN FillMissing(td, bm, id + 1, depth, out)
    ELSE LET f == CHOOSE g \in FieldById(td, id) : TRUE
             traceback == opts.tbRoot /\ depth = 0
             found == opts.tbRoot /\ (depth = 0 \/ f.req = "required") /\ f.name \in http.any
         IN  IF f.req = "required" /\ ~opts.wr /\ ~traceback THEN ErrRes
             ELSE IF \/ f.req = "default" /\ ~opts.wd /\ ~traceback
                     \/ f.req = "optional" /\ ~opts.wo /\ ~traceback
             THEN FillMissing(td, bm, id + 1, depth, out)
             ELSE IF MissingFails(f, found) THEN ErrRes
             ELSE FillMissing(td, bm, id + 1, depth, out \o StringCells(f, found))

RECURSIVE Recurse(_, _, _, _), Elems(_, _, _, _, _, _), Pairs(_, _, _, _, _, _),
          Members(_, _, _, _, _)

\* One JSON value of descriptor td at pos.
Recurse(td, pos, out, depth) ==
    LET d == TypeDesc[td]
        tok == TokAt(pos)
    IN  CASE At(pos) = "null" -> Res("null", pos + 1, out)
          [] At(pos) \in {"num", "str", "bool"} ->
                IF Accepts(d.kind, tok) THEN Res("ok", pos + 1, Append(out, Cell("val", 0, tok.x)))
                ELSE ErrRes
          [] At(pos) = "[" /\ d.kind = "list" ->
                IF At(pos + 1) = "]" THEN Res("ok", pos + 2, Append(out, Cell("list", 0, "")))
                ELSE Elems(d, pos + 1, Append(out, Cell("list", 0, "")), depth, Len(out) + 1, 0)
          [] At(pos) = "{" /\ d.kind = "map" ->
                IF At(pos + 1) = "}" THEN Res("ok", pos + 2, Append(out, Cell("map", 0, "")))
                ELSE Pairs(d, pos + 1, Append(out, Cell("map", 0, "")), depth, Len(out) + 1, 0)
          [] At(pos) = "{" /\ d.kind = "struct" ->
                LET h == IF opts.hm THEN MapHttp(td, 1, RequiresOf(td), out)
                         ELSE [st |-> "ok", bm |-> RequiresOf(td), out |-> out]
                IN  IF h.st = "err" THEN ErrRes
                    ELSE Members(td, pos + 1, h.out, depth, h.bm)
          [] OTHER -> ErrRes

\* The rest of an array from pos; n elements are written, the size at back.
Elems(d, pos, out, depth, back, n) ==
    LET r == Recurse(d.elem, pos, out, depth + 1)
        m == IF r.st = "ok" THEN n + 1 ELSE n
    IN  CASE r.st = "err" -> ErrRes
          [] At(r.pos) = "," -> Elems(d, r.pos + 1, r.out, depth, back, m)
          [] At(r.pos) = "]" -> Res("ok", r.pos + 1, [r.out EXCEPT ![back] = Cell("list", m, "")])
          [] OTHER -> ErrRes

\* The rest of a map: a null value takes its key back.
Pairs(d, pos, out, depth, back, n) ==
    LET ok == At(pos) = "str" /\ (d.key = "str" \/ TokAt(pos).qn) /\ At(pos + 1) = ":"
        r == Recurse(d.elem, pos + 2, Append(out, Cell("key", 0, TokAt(pos).x)), depth + 1)
        m == IF r.st = "ok" THEN n + 1 ELSE n
        kept == IF r.st = "null" THEN out ELSE r.out
    IN  CASE ~ok -> ErrRes
          [] r.st = "err" -> ErrRes
          [] At(r.pos) = "," -> Pairs(d, r.pos + 1, kept, depth, back, m)
          [] At(r.pos) = "}" -> Res("ok", r.pos + 1, [kept EXCEPT ![back] = Cell("map", m, "")])
          [] OTHER -> ErrRes

\* The value mapping of a field (valueMapping.Write): a user's own, or
\* apiJSConv.Write, which makes a number of a quoted number or "" and a string
\* of anything.
Mapped(f, tok) ==
    LET k  == TypeDesc[f.type].kind
        ok == \/ f.vm = "go" \/ k = "str"
              \/ k \in {"num", "i16"} /\ (tok.ch = "num" \/ (tok.ch = "str" /\ (tok.qn \/ tok.x = "")))
    IN  [ok |-> ok,
         cells |-> << Cell("field", f.id, ""),
                      IF f.vm = "go" THEN Cell("mapped", 0, f.name)
                      ELSE IF k # "str" /\ tok.x = "" THEN Cell("dflt", f.id, "")
                      ELSE Cell("val", 0, tok.x) >>]

\* One member of a struct: [st, pos, out, bm].
Member(td, pos, out, depth, bm) ==
    LET fs == FieldByName(td, TokAt(pos).x)
        f  == CHOOSE g \in fs : TRUE
        e  == SkipFrom(pos + 2)
        next(st, q, o, b) == [st |-> st, pos |-> q, out |-> o, bm |-> b]
        skipped == IF e = 0 THEN next("err", 0, out, bm) ELSE next("ok", e, out, bm)
    IN  IF fs = {} THEN IF opts.unknown THEN skipped ELSE next("err", 0, out, bm)
        ELSE IF f.base /\ opts.noBase THEN skipped
        ELSE IF opts.hm /\ f.hm /\ f.id \notin bm THEN skipped
        ELSE IF opts.vm /\ f.vm # "none"
        THEN LET m == Mapped(f, TokAt(pos + 2))
             IN  IF e = 0 \/ ~m.ok THEN next("err", 0, out, bm)
                 ELSE next("ok", e, out \o m.cells, bm \ {f.id})
        ELSE LET r == Recurse(f.type, pos + 2, Append(out, Cell("field", f.id, "")), depth + 1)
             IN  next(r.st, r.pos, IF r.st = "null" THEN out ELSE r.out, bm \ {f.id})

\* The rest of a struct, and its missing fields.
Members(td, pos, out, depth, bm) ==
    LET end(q, o, b) == LET m == FillMissing(td, b, 0, depth, o)
                        IN  IF m.st = "err" THEN ErrRes
                            ELSE Res("ok", q + 1, Append(m.out, Cell("stop", 0, "")))
        r == Member(td, pos, out, depth, bm)
    IN  CASE At(pos) = "}" -> end(pos, out, bm)
          [] At(pos) # "str" \/ At(pos + 1) # ":" -> ErrRes
          [] r.st = "err" -> ErrRes
          [] At(r.pos) = "," /\ At(r.pos + 1) # "}" -> Members(td, r.pos + 1, r.out, depth, r.bm)
          [] At(r.pos) = "}" -> end(r.pos, r.out, r.bm)
          [] OTHER -> ErrRes

\* doGo
Portable == Recurse(RootType, 0, <<>>, 0)

-----------------------------------------------------------------------------
(* The two converters *)

\* They are not the same for the null of a field whose bit the bitmap starts
\* with: the native machine marks it as missing again, doRecurse as given.
NullMember == \E i \in 1..(Len(src) - 2), t \in Types :
                 /\ src[i].ch = "str" /\ src[i + 1].ch = ":" /\ src[i + 2].ch = "null"
                 /\ \E f \in FieldByName(t, src[i].x) : f.req # "optional"

\* Nor for a required field missing from an inner struct, when it may be traced
\* back but not be written empty: HandleRequires reports it before its handler
\* looks in the request, j2t_write_unset_fields leaves it to Go, which looks.
TracedRequired == opts.tb /\ ~opts.wr

\* With traceback the native machine leaves the missing required fields to Go,
\* which writes them after the other missing ones.
Count(s, c) == Cardinality({i \in 1..Len(s) : s[i] = c})
SameCells(s, t) == /\ Len(s) = Len(t)
                   /\ IF opts.tb THEN \A i \in 1..Len(s) : Count(s, s[i]) = Count(t, s[i])
                      ELSE s = t

\* Whether the native machine has ended as the portable converter does.
Same == IF pc = "done" THEN Portable.st = "ok" /\ SameCells(buf, Portable.out)
        ELSE Portable.st # "ok"

AgreesUpTo(causes) ==
    /\ pc \in Terminal /\ spoiled \subseteq causes
    /\ ret.code # "deep" /\ ~NullMember /\ ~TracedRequired
    => Same

\* However often the native machine was interrupted, for whatever cache or
\* buffer, it ends with the output of the portable converter, or fails where
\* that one fails.  This leaves out what an interrupted end of a struct has
\* spoiled: the property below; a null last member whose header comes back when
\* the missing fields do not fit, thrift.c:942-949; missing fields that are
\* traced back and left in the field cache by an attempt that is retried,
\* thrift.c:293; an array of bitmaps that is reclaimed while structs are open,
\* types.go:382.  It also leaves out the depth limit, which the portable
\* converter does not have.
Agrees == AgreesUpTo({})

\* TestStateMachineOOM (conv/j2t/conv_amd64_test.go:276-298) converts with an
\* output buffer, a requires cache and a key cache of one byte and asserts the
\* result of an uninterrupted conversion.  The same is said here of another
\* place where the machine can be interrupted, where the stop byte of a struct
\* does not fit.  It does not hold: the bitmap of the struct is given back
\* twice (thrift.c:896/906, 950/961).
ResumesAtStop == AgreesUpTo({"free"})
=============================================================================
