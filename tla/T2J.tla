-------------------------------- MODULE T2J --------------------------------
(***************************************************************************)
(* Thrift to JSON: conv/t2j/impl.go, do and doRecurse, with the requires   *)
(* bitmaps of thrift/utils.go.  Several goroutines convert at once; each   *)
(* has its own reader, output and stack of calls, and all take the bitmap  *)
(* of a struct they open from one pool.  One step is one iteration of a    *)
(* loop: one field, one element, one http mapping, one missing field.      *)
(***************************************************************************)
EXTENDS JSONText, Sequences, FiniteSetsExt

CONSTANTS Procs,      \* goroutines; each makes one call
          Calls,      \* goroutine -> the conversions it may make: [typ, msg, opts, hasBase]
          Types,      \* type name -> [k: kind, s: struct, key, e: type names]
          Structs,    \* struct name -> [field id -> field]
          Bitmaps,    \* bitmaps there can be
          NoBitmap,
          WordBits,   \* bits of a bitmap word
          PoolWords   \* words a new bitmap has room for

ASSUME BitmapAssumption == /\ NoBitmap \notin Bitmaps
                           /\ WordBits \in Nat \ {0} /\ PoolWords \in Nat
ASSUME DescAssumption ==
    /\ \A s \in DOMAIN Structs : IsFiniteSet(DOMAIN Structs[s]) /\ DOMAIN Structs[s] \subseteq Nat
    /\ \A s \in DOMAIN Structs : \A id \in DOMAIN Structs[s] : Structs[s][id].typ \in DOMAIN Types
    /\ \A t \in DOMAIN Types :
          /\ Types[t].k \in {"int", "str", "bool", "struct", "list", "map"}
          /\ Types[t].k = "struct" => Types[t].s \in DOMAIN Structs
          /\ Types[t].k \in {"list", "map"} => Types[t].e \in DOMAIN Types

VARIABLES st,    \* the state of each goroutine
          pool,  \* bitmapPool: the bitmaps in it
          mem    \* the memory of every bitmap

vars == <<st, pool, mem>>

Scalars == {"int", "str", "bool"}
Kind(typ) == Types[typ].k

-----------------------------------------------------------------------------
(***************************************************************************)
(* Requires bitmaps.  bits are the marks in all cap words of the array,    *)
(* len is the length of the slice.                                         *)
(***************************************************************************)
NewBitmap == [len |-> 0, cap |-> PoolWords, bits |-> {}]

\* The bits convertRequireness sets: by the requireness, thrift.Options.SetOptionalBitmap,
\* and never for a base.  And the words they take.
Marked(s) == {id \in DOMAIN Structs[s] : Structs[s][id].mark}
Words(s) == Max({Cardinality(DOMAIN Structs[s])}
                \cup {id \div WordBits + 1 : id \in DOMAIN Structs[s]})

Visible(m) == {x \in m.bits : x < m.len * WordBits}

\* Mutants of CopyTo: the slice is not cut to the source; too short a slice is not replaced.
CopyToKeepsLength(s, m) ==
    IF Words(s) > m.cap THEN [len |-> Words(s), cap |-> Words(s), bits |-> Marked(s)]
    ELSE [m EXCEPT !.len = m.cap,
                   !.bits = Marked(s) \cup {x \in m.bits : x >= Words(s) * WordBits}]

CopyToWithoutRoom(s, m) == [m EXCEPT !.len = Words(s), !.bits = Marked(s)]

\* The slice is cut to the length of the source; what is behind stays dirty.
CopyTo(s, m) ==
    IF Words(s) > m.cap THEN [len |-> Words(s), cap |-> Words(s), bits |-> Marked(s)]
    ELSE [m EXCEPT !.len = Words(s),
                   !.bits = Marked(s) \cup {x \in m.bits : x >= Words(s) * WordBits}]

\* Set(id, OptionalRequireness); a field behind the slice has it grow.
Clear(m, id) ==
    LET n == id \div WordBits + 1
    IN  IF m.len < n THEN [len |-> n, cap |-> 2 * n, bits |-> Visible(m) \ {id}]
        ELSE [m EXCEPT !.bits = @ \ {id}]

-----------------------------------------------------------------------------
(***************************************************************************)
(* The reader.  A message is a sequence of tokens: field headers and stop  *)
(* bytes, headers of lists and maps, and scalar values.                    *)
(***************************************************************************)
Token(t, id, kt, et, n) == [t |-> t, id |-> id, kt |-> kt, et |-> et, n |-> n]
Val(n)         == Token("val", 0, "int", "int", n)
FieldTok(id, k) == Token("field", id, "int", k, 0)
Stop           == Token("stop", 0, "int", "int", 0)
ListTok(et, n) == Token("list", 0, "int", et, n)
MapTok(kt, et, n) == Token("map", 0, kt, et, n)
NoToken        == Token("eof", 0, "int", "int", 0)

ASSUME CallAssumption == \A p \in Procs : \A call \in Calls[p] :
    /\ call.typ \in DOMAIN Types
    /\ call.msg \in Seq([t : STRING, id : Nat, kt : STRING, et : STRING, n : Nat])

Next1(r) == IF r.at <= Len(r.buf) THEN r.buf[r.at] ELSE NoToken

\* SkipType: the position behind a value of a kind; past the end of the buffer, the value is cut.
SkipType(buf, kind, at) ==
    LET skip[k \in Scalars \cup {"struct", "list", "map"}, x \in Nat] ==
            LET tok == Next1([buf |-> buf, at |-> x])
                pair(a, i) == skip[tok.et, skip[tok.kt, a]]
                elem(a, i) == skip[tok.et, a]
            IN  IF tok.t = "eof" THEN Len(buf) + 2
                ELSE CASE k \in Scalars  -> x + 1
                       [] k = "struct"   -> IF tok.t = "stop" THEN x + 1
                                            ELSE skip["struct", skip[tok.et, x + 1]]
                       [] k = "list"     -> FoldLeft(elem, x + 1, [i \in 1 .. tok.n |-> i])
                       [] k = "map"      -> FoldLeft(pair, x + 1, [i \in 1 .. tok.n |-> i])
    IN  skip[kind, at]

\* WriteDefaultOrEmpty: the message that stands for a missing field.
Default(field) == IF field.def = <<>> THEN 0 ELSE field.def[1]
EmptyValue(field) ==
    CASE Kind(field.typ) \in Scalars -> <<Val(Default(field))>>
      [] Kind(field.typ) = "struct"  -> <<Stop>>
      [] Kind(field.typ) = "list"    -> <<ListTok(Kind(Types[field.typ].e), 0)>>
      [] Kind(field.typ) = "map"     -> <<MapTok(Kind(Types[field.typ].key),
                                                 Kind(Types[field.typ].e), 0)>>

-----------------------------------------------------------------------------
(***************************************************************************)
(* The state of one goroutine: its call; the readers in use (writing a     *)
(* missing field to the response reads a buffer of its own); the outputs   *)
(* in use (a mapped field has one of its own); the calls open; what the    *)
(* response was given; and what was returned.                              *)
(* A frame is a call of doRecurse not yet begun ("value"), one that is at  *)
(* the fields of a struct, at its missing fields, or at the elements of a  *)
(* list or map, or a call of writeHttpValue ("http").                      *)
(***************************************************************************)
Frame == [k     |-> "value",   \* what the call is doing
          typ   |-> "none",    \* the type to convert
          s     |-> "none",    \* the struct
          bm    |-> NoBitmap,  \* r
          resp  |-> FALSE,     \* resp # nil
          root  |-> FALSE,     \* the loop of do, not the one of doRecurse
          comma |-> FALSE,
          exc   |-> FALSE,     \* existExceptionField
          id    |-> 0,         \* the field at hand; the next bit of HandleRequires
          left  |-> 0,         \* elements left
          hm    |-> 1,         \* the mapping to try
          busy  |-> FALSE,     \* its JSON value is being written
          val   |-> <<>>,      \* textVal, jsonVal
          unset |-> FALSE,     \* for a missing field
          from  |-> 0]         \* restart

ValueFrame(typ, resp) == [Frame EXCEPT !.typ = typ, !.resp = resp]

Idle == [call |-> [typ |-> "none"], ret |-> "idle", in |-> <<>>, outs |-> <<>>,
         stk |-> <<>>, sets |-> <<>>]

Top(c)        == Last(c.stk)
Push(c, f)    == [c EXCEPT !.stk = Append(@, f)]
Pop(c)        == [c EXCEPT !.stk = Front(@)]
Retop(c, f)   == [c EXCEPT !.stk = Append(Front(@), f)]
Write(c, ts)  == [c EXCEPT !.outs = Append(Front(@), Last(@) \o ts)]
Reader(c)     == Last(c.in)
Ahead(c)      == Next1(Reader(c))
MoveTo(c, at) == [c EXCEPT !.in = Append(Front(@), [Last(@) EXCEPT !.at = at])]
Advance(c)    == MoveTo(c, Reader(c).at + 1)

\* An error ends all calls; their bitmaps are not given back.
Return(c, ret) == [c EXCEPT !.ret = ret, !.stk = <<>>]

FieldOf(f) == Structs[f.s][f.id]
CommaIf(b) == IF b THEN <<<<"comma">>>> ELSE <<>>
Key(id)    == <<<<"key", id>>, <<"colon">>>>
Lit(n)     == <<<<"lit", n>>>>

At(self, k) == /\ st[self].ret = "none"
               /\ st[self].stk # <<>>
               /\ Top(st[self]).k = k

Go(self, c) == st' = [st EXCEPT ![self] = c]
Same        == UNCHANGED <<pool, mem>>

Held(p) == {st[p].stk[i].bm : i \in DOMAIN st[p].stk}
InUse   == UNION {Held(p) : p \in Procs}

-----------------------------------------------------------------------------
(***************************************************************************)
(* doRecurse: scalars, lists and maps.                                     *)
(***************************************************************************)
ReadScalar(self) ==
    LET c == st[self]
    IN  /\ At(self, "value") /\ Kind(Top(c).typ) \in Scalars
        /\ Go(self, IF Ahead(c).t = "val" THEN Write(Advance(Pop(c)), Lit(Ahead(c).n))
                    ELSE Return(c, "error"))
        /\ Same

Opening(typ) == IF Kind(typ) = "list" THEN <<<<"arr">>>> ELSE <<<<"obj">>>>
Closing(typ) == IF Kind(typ) = "list" THEN <<<<"endarr">>>> ELSE <<<<"endobj">>>>

\* The kinds in the header have to be those of the descriptor.
OpenElems(self) ==
    LET c   == st[self]
        typ == Top(c).typ
        fits == /\ Ahead(c).t = Kind(typ)
                /\ Ahead(c).et = Kind(Types[typ].e)
                /\ Kind(typ) = "map" => Ahead(c).kt = Kind(Types[typ].key)
    IN  /\ At(self, "value") /\ Kind(typ) \in {"list", "map"}
        /\ Go(self, IF fits THEN Write(Retop(Advance(c), [Frame EXCEPT !.k = "elems", !.typ = typ,
                                                                     !.left = Ahead(c).n]),
                                      Opening(typ))
                    ELSE Return(c, "error"))
        /\ Same

\* One element; the keys of a map are quoted numbers or strings.
Element(self) ==
    LET c == st[self]
        f == Top(c)
        next == Write(Push(Retop(c, [f EXCEPT !.left = @ - 1, !.comma = TRUE]),
                           ValueFrame(Types[f.typ].e, FALSE)), CommaIf(f.comma))
        keyOk == Ahead(c).t = "val" /\ Kind(Types[f.typ].key) \in {"int", "str"}
    IN  /\ At(self, "elems")
        /\ Go(self, IF f.left = 0 THEN Write(Pop(c), Closing(f.typ))
                    ELSE IF Kind(f.typ) = "list" THEN next
                    ELSE IF keyOk THEN Write(Advance(next), Key(Ahead(c).n))
                    ELSE Return(c, "error"))
        /\ Same

-----------------------------------------------------------------------------
(***************************************************************************)
(* The loop over the fields of a struct, in do and in doRecurse.           *)
(***************************************************************************)
\* NewRequiresBitmap gives any bitmap of the pool, as it was left there, or a new one.
Unused == Bitmaps \ (pool \cup InUse)
New    == IF Unused = {} THEN {} ELSE {CHOOSE b \in Bitmaps : b \in Unused}

OpenStruct(self) ==
    LET c == st[self]
        f == Top(c)
        s == Types[f.typ].s
    IN  /\ At(self, "value") /\ Kind(f.typ) = "struct"
        /\ \E b \in pool \cup New :
             /\ mem' = [mem EXCEPT ![b] = CopyTo(s, IF b \in pool THEN mem[b] ELSE NewBitmap)]
             /\ pool' = pool \ {b}
             /\ Go(self, Write(Retop(c, [f EXCEPT !.k = "fields", !.s = s, !.bm = b]), <<<<"obj">>>>))

\* Write a field that is in the message to the body.  An exception field takes all before
\* it back and ends the loop.  do hands the response on to the fields; doRecurse does not.
Member(c, g, id) ==
    LET field == Structs[g.s][id]
        exc  == c.call.opts.exc /\ g.root /\ id # 0
        g1   == [g EXCEPT !.comma = TRUE, !.id = 0, !.exc = exc,
                          !.k = IF exc THEN "unsets" ELSE "fields"]
        c1   == IF exc THEN [Retop(c, g1) EXCEPT !.outs = Append(Front(@), <<>>)]
                ELSE Write(Retop(c, g1), CommaIf(g.comma) \o Key(id))
    IN  IF ~(c.call.opts.vm /\ field.vm) THEN Push(c1, ValueFrame(field.typ, g.root /\ g.resp))
        ELSE IF Ahead(c).t = "val" THEN Advance(Write(c1, <<<<"quoted", Ahead(c).n>>>>))
        ELSE Return(c, "error")

SkipField(c, kind) ==
    LET at == SkipType(Reader(c).buf, kind, Reader(c).at)
    IN  IF at \in 1 .. Len(Reader(c).buf) + 1 THEN MoveTo(c, at) ELSE Return(c, "error")

\* Mutant of Fields: the bitmap is given back before the missing fields are written.
FieldsFreeing(self) ==
    LET c == st[self]
    IN  /\ At(self, "fields") /\ Ahead(c).t # "field"
        /\ Go(self, Advance(Retop(c, [Top(c) EXCEPT !.k = "unsets", !.id = 0])))
        /\ pool' = pool \cup {Top(c).bm} /\ UNCHANGED mem

\* One turn of the loop: the stop byte, an unknown field, or what is no field.
Fields(self) ==
    LET c   == st[self]
        f   == Top(c)
        tok == Ahead(c)
    IN  /\ At(self, "fields")
        /\ tok.t = "field" => tok.id \notin DOMAIN Structs[f.s]
        /\ Go(self, CASE tok.t = "stop" -> Advance(Retop(c, [f EXCEPT !.k = "unsets", !.id = 0]))
                      [] tok.t = "field" /\ ~c.call.opts.disallow -> SkipField(Advance(c), tok.et)
                      [] OTHER -> Return(c, "error"))
        /\ Same

\* One turn of the loop at a known field, up to the call that writes it.
KnownField(self) ==
    LET c     == st[self]
        f     == Top(c)
        tok   == Ahead(c)
        field == Structs[f.s][tok.id]
        c1    == Advance(c)
        opts  == c.call.opts
    IN  /\ At(self, "fields")
        /\ tok.t = "field" /\ tok.id \in DOMAIN Structs[f.s]
        /\ mem' = [mem EXCEPT ![f.bm] = Clear(@, tok.id)]
        /\ Go(self, IF f.root /\ opts.base /\ field.base /\ c.call.hasBase
                    THEN SkipField(c1, "struct")
                    ELSE IF f.resp /\ opts.http /\ field.hms # <<>>
                    THEN Push(c1, [Frame EXCEPT !.k = "http", !.s = f.s, !.id = tok.id,
                                                !.resp = f.resp, !.from = Reader(c1).at])
                    ELSE Member(c1, f, tok.id))
        /\ UNCHANGED pool

-----------------------------------------------------------------------------
(***************************************************************************)
(* writeHttpValue: the mappings of a field in turn, until one takes the    *)
(* value.  The value is read once, as text if it is a scalar and as JSON   *)
(* otherwise.                                                              *)
(***************************************************************************)
HttpRead(self) ==
    LET c     == st[self]
        f     == Top(c)
        field == FieldOf(f)
    IN  /\ At(self, "http") /\ f.val = <<>> /\ ~f.busy
        /\ Go(self, IF Kind(field.typ) \notin Scalars
                    THEN [Push(Retop(c, [f EXCEPT !.busy = TRUE]), ValueFrame(field.typ, f.resp))
                          EXCEPT !.outs = Append(@, <<>>)]
                    ELSE IF Ahead(c).t = "val"
                    THEN Advance(Retop(c, [f EXCEPT !.val = Lit(Ahead(c).n)]))
                    ELSE Return(c, "error"))
        /\ Same

\* The JSON of a value that is no scalar is there.
HttpJSON(self) ==
    LET c == st[self]
        f == Top(c)
    IN  /\ At(self, "http") /\ f.val = <<>> /\ f.busy
        /\ Go(self, [Retop(c, [f EXCEPT !.val = Last(c.outs), !.busy = FALSE]) EXCEPT !.outs = Front(@)])
        /\ Same

\* HttpMapping.Response, with a response or nil: headers and cookies take any value, the
\* status code numbers; the sources of requests are not implemented for responses.
Response(hm, resp, val) ==
    IF (hm = "code" /\ Len(val) # 1) \/ hm = "query" THEN "error"
    ELSE IF resp THEN "ok" ELSE "panic"

\* Mutant of Mapped: the reader is not put back to the value.
MappedMovedOn(c, f, ok) ==
    IF ok \/ ~c.call.opts.fallback THEN c ELSE Member(c, Top(c), f.id)

\* What follows when the mappings of a field that was read are through.
Mapped(c, f, ok) ==
    IF ok \/ ~c.call.opts.fallback THEN c ELSE Member(MoveTo(c, f.from), Top(c), f.id)

\* A missing field in the body: under its name, where a field that is read has its alias.
EmptyJSON(field) ==
    CASE Kind(field.typ) \in Scalars -> Lit(Default(field))
      [] Kind(field.typ) = "list"    -> <<<<"arr">>, <<"endarr">>>>
      [] OTHER                       -> <<<<"obj">>, <<"endobj">>>>

\* Mutant of MissingMember: what comes behind a missing field has no comma.
MissingMemberLast(c, g, id) ==
    Write(Retop(c, [g EXCEPT !.id = id + 1]),
          CommaIf(g.comma) \o Key(id) \o EmptyJSON(Structs[g.s][id]))

MissingMember(c, g, id) ==
    Write(Retop(c, [g EXCEPT !.comma = TRUE, !.id = id + 1]),
          CommaIf(g.comma) \o Key(id) \o EmptyJSON(Structs[g.s][id]))

MappedMissing(c, f, ok) ==
    IF ok THEN Retop(c, [Top(c) EXCEPT !.id = f.id + 1]) ELSE MissingMember(c, Top(c), f.id)

HttpSet(self) ==
    LET c     == st[self]
        f     == Top(c)
        hms   == FieldOf(f).hms
        end   == f.hm > Len(hms)
        r     == IF end THEN "end" ELSE Response(hms[f.hm], f.resp, f.val)
        Done(d, ok) == IF f.unset THEN MappedMissing([Pop(d) EXCEPT !.in = Front(@)], f, ok)
                       ELSE Mapped(Pop(d), f, ok)
    IN  /\ At(self, "http") /\ f.val # <<>>
        /\ Go(self, CASE r = "end"   -> Done(c, FALSE)
                      [] r = "ok"    -> Done([c EXCEPT !.sets = Append(@, <<hms[f.hm], f.id, f.val>>)],
                                             TRUE)
                      [] r = "panic" -> Return(c, "panic")
                      [] r = "error" -> IF c.call.opts.omit THEN Retop(c, [f EXCEPT !.hm = @ + 1])
                                        ELSE Return(c, "error"))
        /\ Same

-----------------------------------------------------------------------------
(***************************************************************************)
(* handleUnsets and HandleRequires: the marks left, in ascending order,    *)
(* and the end of the struct.                                              *)
(***************************************************************************)
\* Mutant of Marks: a field that is passed over is met again.
MarksAll(f) == Visible(mem[f.bm])

Marks(f) == {x \in Visible(mem[f.bm]) : x >= f.id}

Skipped(field, opts) ==
    \/ field.req = "default" /\ ~opts.wDef
    \/ field.req = "optional" /\ ~opts.wOpt /\ field.def = <<>>

Unset(self) ==
    LET c     == st[self]
        f     == Top(c)
        id    == Min(Marks(f))
        field == Structs[f.s][id]
        opts  == c.call.opts
        http  == [Frame EXCEPT !.k = "http", !.s = f.s, !.id = id, !.resp = f.resp, !.unset = TRUE]
    IN  /\ At(self, "unsets") /\ Marks(f) # {}
        /\ Go(self, IF id \notin DOMAIN Structs[f.s] THEN Return(c, "panic")
                    ELSE IF field.req = "required" /\ ~opts.wReq THEN Return(c, "error")
                    ELSE IF Skipped(field, opts) THEN Retop(c, [f EXCEPT !.id = id + 1])
                    ELSE IF opts.http /\ field.hms # <<>>
                    THEN [Push(c, http) EXCEPT !.in = Append(@, [buf |-> EmptyValue(field), at |-> 1])]
                    ELSE MissingMember(c, f, id))
        /\ Same

CloseStruct(self) ==
    LET c == st[self]
        f == Top(c)
    IN  /\ At(self, "unsets") /\ Marks(f) = {}
        /\ pool' = pool \cup {f.bm}
        /\ mem' = [mem EXCEPT ![f.bm].len = 0]
        /\ Go(self, IF f.exc THEN Return(c, "exception") ELSE Write(Pop(c), <<<<"endobj">>>>))

-----------------------------------------------------------------------------
(***************************************************************************)
(* Do: a call and its return.                                              *)
(***************************************************************************)
Init == /\ st = [p \in Procs |-> Idle]
        /\ pool = {}
        /\ mem = [b \in Bitmaps |-> NewBitmap]

Do(self) ==
    /\ st[self].ret = "idle"
    /\ \E call \in Calls[self] :
         Go(self, [Idle EXCEPT !.call = call, !.ret = "none", !.outs = <<<<>>>>,
                               !.in = <<[buf |-> call.msg, at |-> 1]>>,
                               !.stk = <<[ValueFrame(call.typ, call.opts.http) EXCEPT !.root = TRUE]>>])
    /\ Same

Finish(self) == /\ st[self].ret = "none" /\ st[self].stk = <<>>
                /\ Go(self, Return(st[self], "ok"))
                /\ Same

Step(self) == \/ ReadScalar(self) \/ OpenElems(self) \/ Element(self)
              \/ OpenStruct(self) \/ Fields(self) \/ KnownField(self)
              \/ HttpRead(self) \/ HttpJSON(self) \/ HttpSet(self)
              \/ Unset(self) \/ CloseStruct(self) \/ Finish(self)

Next == \E self \in Procs : Do(self) \/ Step(self)

\* A goroutine that converts waits for nothing: Get and Put of a pool do not block.
Spec == Init /\ [][Next]_vars /\ \A self \in Procs : WF_vars(Step(self))
-----------------------------------------------------------------------------
(***************************************************************************)
(* What the bitmaps have to keep.                                          *)
(***************************************************************************)
StructFrames(p) == {i \in DOMAIN st[p].stk : st[p].stk[i].k \in {"fields", "unsets"}}

\* Bits lie within the words there are; a reader and an output more than the caller's for
\* each missing field that is mapped and for each mapped value that is being written.
TypeOK ==
    /\ pool \subseteq Bitmaps
    /\ \A b \in Bitmaps : /\ mem[b].len \in 0 .. mem[b].cap
                         /\ \A x \in mem[b].bits : x \in 0 .. mem[b].cap * WordBits - 1
    /\ \A p \in Procs :
         LET c == st[p]
         IN  /\ c.ret \in {"idle", "none", "ok", "error", "exception", "panic"}
             /\ c.stk # <<>> => c.ret = "none"
             /\ c.ret = "none" =>
                  /\ Len(c.in) = 1 + Cardinality({i \in DOMAIN c.stk : c.stk[i].unset})
                  /\ Len(c.outs) = 1 + Cardinality({i \in DOMAIN c.stk : c.stk[i].busy})
                  /\ \A i \in DOMAIN c.in : c.in[i].at \in 1 .. Len(c.in[i].buf) + 1

\* A bitmap belongs to one open struct: it is not in the pool, and no other struct of this
\* or another goroutine has it.
BitmapsExclusive ==
    \A p \in Procs : \A i \in StructFrames(p) :
       /\ st[p].stk[i].bm \in Bitmaps \ pool
       /\ \A q \in Procs : \A j \in StructFrames(q) :
             st[p].stk[i].bm = st[q].stk[j].bm => p = q /\ i = j

\* Whatever a bitmap was used for before, the marks that can be seen are of fields of the
\* struct it is used for, so that HandleRequires finds each one.
MarksOwned ==
    \A p \in Procs : \A i \in StructFrames(p) :
       Visible(mem[st[p].stk[i].bm]) \subseteq Marked(st[p].stk[i].s)

-----------------------------------------------------------------------------
(***************************************************************************)
(* What the outputs have to keep.                                          *)
(***************************************************************************)
\* A result struct whose missing fields are written, behind the exception: the one case in which the
\* text is no JSON.
Mixed(call) == /\ call.opts.exc /\ Kind(call.typ) = "struct"
               /\ Marked(Types[call.typ].s) # {}

\* Whatever message is converted, by whatever options: what is written, by any of the open calls, is
\* the beginning of a JSON text, and a whole one when the call returns it; and so is each value
\* that the response is given.
WritesJSON ==
    \A p \in Procs : LET c == st[p] IN c.ret # "idle" =>
       /\ \A i \in DOMAIN c.sets : IsJSON(c.sets[i][3])
       /\ \A i \in DOMAIN c.outs : IsBeginning(c.outs[i]) \/ (i = 1 /\ Mixed(c.call))
       /\ c.ret \in {"ok", "exception"} => IsJSON(c.outs[1]) \/ Mixed(c.call)
=============================================================================
