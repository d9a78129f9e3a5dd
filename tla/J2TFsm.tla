------------------------------- MODULE J2TFsm -------------------------------
(***************************************************************************)
(* JSON to Thrift: the native state machine of native/thrift.c and the Go  *)
(* driver of conv/j2t/impl_amd64.go that restarts it.                      *)
(*                                                                         *)
(* j2t_fsm_exec never allocates.  When the output, the requires cache, the *)
(* key cache or the field cache is full it puts its machine back to where  *)
(* the interrupted step began and returns a code; the Go handler grows the *)
(* slice and calls it again.  It returns in the same way when a struct has *)
(* HTTP-mapped fields, when fields are still missing at the end of a       *)
(* struct, and for a value that a Go value mapping must write.             *)
(*                                                                         *)
(* A step of this module is one iteration of the loop of j2t_fsm_exec, one *)
(* bit of the loop of j2t_write_unset_fields, or one step of a handler.    *)
(* The JSON text is a sequence of tokens and a position is the number of   *)
(* tokens read; the output is a sequence of cells, one for each header,    *)
(* value or size, and capacities count cells.                              *)
(***************************************************************************)
EXTENDS Integers, Sequences, FiniteSets

CONSTANTS
    Texts,        \* names, keys and the text of values
    Types,        \* the descriptors of the IDL
    NoType,
    NoField,      \* NULL tFieldDesc*
    TypeDesc,     \* [Types -> the fields of a tTypeDesc and its tStructDesc]
    RootType,
    Docs,         \* the JSON texts, as token sequences
    Options,      \* the conversion flags (toFlags)
    HttpData,     \* what the http request can answer
    BufCaps,      \* initial capacities: of the output,
    ReqCaps,      \*   of the requires cache (in bitmap words),
    KeyCaps,      \*   of the key cache,
    FieldCaps,    \*   of the field cache
    KeyLen,       \* the length of an escaped key
    WordBits,     \* bits in a word of a bitmap (64 in the code)
    MaxRecurse,
    FieldGrow     \* J2T_FIELD_CACHE_SIZE

Requireness == {"required", "default", "optional"}
Kinds       == {"num", "i16", "str", "bool", "list", "map", "struct"}
Scalars     == {"num", "i16", "str", "bool"}
ValueStart  == {"num", "str", "bool", "null", "[", "{"}
Chars       == {"{", "}", "[", "]", ",", ":", "str", "num", "bool", "null"}

\* A token: for "str" and "num", x is its text; esc says it has escapes, qn
\* that the quoted text is a number.
Token == [ch : Chars, x : Texts, esc : BOOLEAN, qn : BOOLEAN]

\* tFieldDesc: bit says whether the struct's bitmap starts with its bit set.
FieldDesc == [id : Nat, name : Texts, type : Types, req : Requireness,
              bit : BOOLEAN, base : BOOLEAN, hm : BOOLEAN,
              vm : {"none", "jsconv", "go"}]

Desc == [kind : Kinds, key : Scalars, elem : Types \cup {NoType}, fields : SUBSET FieldDesc,
         words : Nat, idsLen : Nat, hms : Seq(FieldDesc)]

Flag == [hm : BOOLEAN, vm : BOOLEAN, tb : BOOLEAN, tbRoot : BOOLEAN,
         wr : BOOLEAN, wd : BOOLEAN, wo : BOOLEAN, unknown : BOOLEAN,
         noBase : BOOLEAN, i2s : BOOLEAN]

\* The names for which an annotation (hm) or any source of the request (any,
\* tried by tryGetValueFromHttp) has a value.
Http == [hm : SUBSET Texts, any : SUBSET Texts]

-----------------------------------------------------------------------------
VARIABLES
    src, opts, http,   \* the inputs of the call
    pc,                \* where the control is
    vt,                \* self->vt[0 .. sp-1]; sp is Len(vt)
    p, nullVal, unwindPos, lastField,   \* locals of j2t_fsm_exec
    saved, cut, bit, shift,  \* locals of the iteration that closes a struct
    buf, bufCap,       \* the output slice
    words, reqsLen,    \* requires cache: its array of each growth, its length
    fieldCache, fieldCap, keyCap,
    ret,               \* what the native function returned
    idx,               \* loop counter of the Go handlers
    spoiled            \* history: what an interrupted close left behind

inputs == <<src, opts, http>>
locals == <<p, nullVal, unwindPos, lastField>>
closing == <<saved, cut, bit, shift>>
caches == <<words, reqsLen, fieldCache, fieldCap, keyCap>>
vars == <<inputs, pc, vt, locals, closing, buf, bufCap, caches, ret, idx,
          spoiled>>

ASSUME DescAssumption ==
    /\ TypeDesc \in [Types -> Desc]
    /\ NoType \notin Types /\ RootType \in Types
    /\ \A t \in Types : TypeDesc[t].kind \in {"list", "map"} => TypeDesc[t].elem # NoType
    /\ \A t \in Types : \A f \in TypeDesc[t].fields : f.id \div WordBits < TypeDesc[t].words

ASSUME InputAssumption ==
    "" \in Texts /\ Docs \subseteq Seq(Token) /\ Options \subseteq Flag /\ HttpData \subseteq Http

ASSUME BoundAssumption ==
    /\ WordBits \in Nat \ {0} /\ KeyLen \in Nat /\ MaxRecurse \in Nat /\ FieldGrow \in Nat
    /\ BufCaps \subseteq Nat /\ ReqCaps \subseteq Nat
    /\ KeyCaps \subseteq Nat /\ FieldCaps \subseteq Nat

Terminal == {"done", "failed", "undefined"}
PCs == {"exec", "unset", "close", "go", "http", "unmatched"} \cup Terminal
Codes == {"none", "buf", "bm", "key", "field", "hm", "hmEnd", "vmEnd", "deep"}

Cell(k, n, x) == [k |-> k, n |-> n, x |-> x]

\* J2TState; of J2TExtra only the part of the state's kind means anything.
State(st, mod, jp, td) ==
    [st |-> st, mod |-> mod, jp |-> jp, td |-> td, bp |-> 0, size |-> 0,
     gen |-> 0, off |-> 0, len |-> 0, f |-> NoField]

-----------------------------------------------------------------------------
sp  == Len(vt)
Top == vt[sp]
Below == [i \in 1..(sp - 1) |-> vt[i]]
Push(s, st) == Append(s, st)
Replace(s, st) == [s EXCEPT ![Len(s)] = st]
SetTop(st) == Replace(vt, st)

\* advance_ns: the next token, and the position after it.
Ch == IF p < Len(src) THEN src[p + 1].ch ELSE "eof"
Tok == src[p + 1]
Next1 == p + 1

\* skip_one from position p: the position after the whole value there, or 0
\* when the text ends first.
Depth(e) == Cardinality({i \in (p + 1)..e : src[i].ch \in {"{", "["}})
            - Cardinality({i \in (p + 1)..e : src[i].ch \in {"}", "]"}})
SkipEnds == {e \in (p + 1)..Len(src) :
               /\ Tok.ch \in ValueStart
               /\ Depth(e) = 0
               /\ \A d \in (p + 1)..(e - 1) : Depth(d) > 0}
SkipOne == IF SkipEnds = {} THEN 0 ELSE CHOOSE e \in SkipEnds : TRUE

\* bm_is_set, bm_set_req: the word of a bit in the array the bitmap points to.
WordOf(fr, id) == fr.off + (id \div WordBits) + 1
BmSetUnshifted(fr, id, req) ==
    [words EXCEPT ![fr.gen][WordOf(fr, id)] =
        IF req = "optional" THEN @ \ {id} ELSE @ \cup {id}]
BmIsSet(fr, id) == (id % WordBits) \in words[fr.gen][WordOf(fr, id)]
BmSet(fr, id, req) ==
    [words EXCEPT ![fr.gen][WordOf(fr, id)] =
        IF req = "optional" THEN @ \ {id % WordBits} ELSE @ \cup {id % WordBits}]

\* st->reqs, the bitmap a struct starts with.
InitReqs(td) ==
    [i \in 1..TypeDesc[td].words |->
        {f.id % WordBits : f \in {g \in TypeDesc[td].fields :
                                    g.bit /\ g.id \div WordBits = i - 1}}]

FieldByName(td, k) == {f \in TypeDesc[td].fields : f.name = k}
FieldById(td, id)  == {f \in TypeDesc[td].fields : f.id = id}

-----------------------------------------------------------------------------
\* Returning to Go, and failing for good.
Return(code, v) == /\ pc' = "go"
                   /\ ret' = [code |-> code, v |-> v]

Fail == /\ pc' = "failed"
        /\ UNCHANGED <<vt, locals, closing, buf, bufCap, caches, ret, idx, spoiled>>

\* J2T_STORE / J2T_STORE_NEXT around writes of n cells that do not fit: the
\* state of the iteration goes back on the stack, the output to its length.
OomBuf(n) == /\ Len(buf) + n > bufCap
             /\ Return("buf", 1)
             /\ UNCHANGED <<vt, locals, closing, buf, bufCap, caches, idx, spoiled>>

\* The writes fit: the iteration goes on with stack s at position q.
Emit(cells, s, q) == /\ Len(buf) + Len(cells) <= bufCap
                     /\ buf' = buf \o cells
                     /\ vt' = s
                     /\ p' = q
                     /\ UNCHANGED <<pc, ret>>

KeepLocals == UNCHANGED <<nullVal, unwindPos, lastField>>
KeepRest == UNCHANGED <<closing, bufCap, idx, spoiled>>

Running == pc = "exec" /\ vt # <<>> /\ sp < MaxRecurse /\ UNCHANGED inputs
In(st) == Running /\ Top.st = st
\* VAL with no SKIP or VM mark: the switch on the first character.
InValue == In("VAL") /\ Top.mod \notin {"skip", "vm"}

Kind == TypeDesc[Top.td].kind

\* A write of the value of the current VAL state, which is then dropped.
WriteValue(cells, q) ==
    \/ OomBuf(Len(cells))
    \/ Emit(cells, Below, q) /\ KeepLocals /\ KeepRest /\ UNCHANGED caches

\* j2t_number, j2t_string, tb_write_bool and the I2S branch: which scalar
\* types a token can be written to.
Accepts(kind, tok) ==
    \/ tok.ch = "num"  /\ kind \in {"num", "i16"}
    \/ tok.ch = "str"  /\ kind = "str"
    \/ tok.ch = "bool" /\ kind = "bool"
    \/ tok.ch = "str"  /\ kind \in {"num", "i16"} /\ opts.i2s /\ (tok.qn \/ tok.x = "")

ValScalar ==
    /\ InValue
    /\ Ch \in {"num", "str", "bool"}
    /\ IF Accepts(Kind, Tok)
       THEN WriteValue(<<Cell("val", 0, Tok.x)>>, Next1)
       ELSE Fail

\* null: the value is dropped, the enclosing state unwinds what it wrote.
ValNull ==
    /\ InValue
    /\ Ch = "null"
    /\ vt' = Below
    /\ p' = Next1
    /\ nullVal' = TRUE
    /\ UNCHANGED <<pc, unwindPos, lastField, closing, buf, bufCap, caches, ret, idx, spoiled>>

ValList ==
    /\ InValue
    /\ Ch = "["
    /\ IF Kind = "list"
       THEN \/ OomBuf(1)
            \/ /\ Emit(<<Cell("list", 0, "")>>,
                       Push(Below, [State("ARR_0", "none", Next1, Top.td)
                                      EXCEPT !.bp = Len(buf) + 1]), Next1)
               /\ KeepLocals /\ KeepRest /\ UNCHANGED caches
       ELSE Fail

ValMap ==
    /\ InValue
    /\ Ch = "{"
    /\ Kind = "map"
    /\ \/ OomBuf(1)
       \/ /\ Emit(<<Cell("map", 0, "")>>,
                  Push(Below, [State("OBJ_0", "none", Next1, Top.td)
                                 EXCEPT !.bp = Len(buf) + 1]), Next1)
          /\ KeepLocals /\ KeepRest /\ UNCHANGED caches

\* bm_malloc_reqs: a copy of the struct's bitmap at the end of the cache.
Gen == Len(words)
NewReqs == [i \in 1..Len(words[Gen]) |->
              IF i \in (reqsLen + 1)..(reqsLen + TypeDesc[Top.td].words)
              THEN InitReqs(Top.td)[i - reqsLen] ELSE words[Gen][i]]

\* What the cache lacks for the slice.
Lacking == reqsLen + TypeDesc[Top.td].words - Len(words[Gen])

ReqsFull ==
    /\ reqsLen >= 0 /\ Lacking > 0
    /\ Return("bm", Lacking)
    /\ UNCHANGED <<vt, locals, closing, buf, bufCap, caches, idx, spoiled>>

\* A copy to before the array, or a negative make.
ReqsUndefined ==
    /\ reqsLen < 0
    /\ pc' = "undefined"
    /\ UNCHANGED <<vt, locals, closing, buf, bufCap, caches, ret, idx, spoiled>>

ReqsCut ==
    /\ reqsLen >= 0 /\ Lacking <= 0
    /\ vt' = Push(Below, [State("OBJ_0", "none", Next1, Top.td)
                            EXCEPT !.gen = Gen, !.off = reqsLen, !.len = TypeDesc[Top.td].words])
    /\ words' = [words EXCEPT ![Gen] = NewReqs]
    /\ reqsLen' = reqsLen + TypeDesc[Top.td].words
    /\ p' = Next1
    /\ IF opts.hm /\ TypeDesc[Top.td].hms # <<>>
       THEN Return("hm", p)
       ELSE UNCHANGED <<pc, ret>>
    /\ KeepLocals /\ KeepRest
    /\ UNCHANGED <<buf, fieldCache, fieldCap, keyCap>>

ValStruct ==
    /\ InValue
    /\ Ch = "{"
    /\ Kind = "struct"
    /\ ReqsFull \/ ReqsUndefined \/ ReqsCut

ValBad ==
    /\ InValue
    /\ \/ Ch \notin ValueStart
       \/ Ch = "{" /\ Kind \notin {"map", "struct"}
    /\ Fail

\* STATE_SKIP: skip_one, nothing is written.
ValSkip ==
    /\ In("VAL")
    /\ Top.mod = "skip"
    /\ IF SkipOne = 0
       THEN Fail
       ELSE /\ vt' = Below
            /\ p' = SkipOne
            /\ KeepLocals /\ KeepRest
            /\ UNCHANGED <<pc, ret, buf, caches>>

\* j2t_field_vm, inlined: VM_JSCONV writes the header and a scalar.  The case
\* of a 16-bit integer has no break and goes on into the case of the byte.
JsConvCells(f) ==
    LET k == TypeDesc[f.type].kind
        hd == Cell("field", f.id, "")
        v  == Cell("val", 0, Tok.x)
    IN  CASE Ch = "str" /\ k = "str" -> <<hd, v>>
          [] Ch = "str" /\ k # "str" /\ Tok.x = "" -> <<hd, Cell("dflt", f.id, "")>>
          [] k = "i16" /\ (Ch = "num" \/ (Ch = "str" /\ Tok.qn /\ Tok.x # "")) ->
                <<hd, v, Cell("byte", 0, Tok.x)>>
          [] OTHER -> <<hd, v>>
JsConvOk(f) ==
    LET k == TypeDesc[f.type].kind
    IN  \/ Ch = "num" /\ k \in {"num", "i16", "str"}
        \/ Ch = "str" /\ k = "str"
        \/ Ch = "str" /\ k # "str" /\ Tok.x = ""
        \/ Ch = "str" /\ k \in {"num", "i16"} /\ Tok.qn

ValJsConv ==
    /\ In("VAL")
    /\ Top.mod = "vm"
    /\ Top.f.vm = "jsconv"
    /\ IF JsConvOk(Top.f) THEN WriteValue(JsConvCells(Top.f), Next1) ELSE Fail

\* j2t_field_vm, not inlined: skip the value and leave it to Go.
ValGoMapping ==
    /\ In("VAL")
    /\ Top.mod = "vm"
    /\ Top.f.vm = "go"
    /\ IF SkipOne = 0
       THEN Fail
       ELSE /\ Return("vmEnd", SkipOne)
            /\ UNCHANGED <<vt, locals, closing, buf, bufCap, caches, idx, spoiled>>

-----------------------------------------------------------------------------
\* The size of a list or a map goes into the cell its header reserved.
CountLast(fr) == IF nullVal THEN fr.size ELSE fr.size + 1
SizedBefore(b, fr, n) == [b EXCEPT ![fr.bp - 1] = Cell(b[fr.bp].k, n, "")]
Sized(b, fr, n) == [b EXCEPT ![fr.bp] = Cell(b[fr.bp].k, n, "")]

Arr0End ==
    /\ In("ARR_0")
    /\ Ch = "]"
    /\ buf' = Sized(buf, Top, 0)
    /\ vt' = Below
    /\ p' = Next1
    /\ KeepLocals /\ KeepRest /\ UNCHANGED <<pc, ret, caches>>

Arr0Start ==
    /\ In("ARR_0")
    /\ Ch # "]"
    /\ vt' = Push(SetTop([Top EXCEPT !.st = "ARR", !.size = 0]),
                  State("VAL", "none", p, TypeDesc[Top.td].elem))
    /\ KeepLocals /\ KeepRest /\ UNCHANGED <<pc, p, ret, buf, caches>>

ArrEnd ==
    /\ In("ARR")
    /\ Ch = "]"
    /\ buf' = Sized(buf, Top, CountLast(Top))
    /\ nullVal' = FALSE
    /\ vt' = Below
    /\ p' = Next1
    /\ UNCHANGED <<pc, ret, unwindPos, lastField, caches>> /\ KeepRest

ArrNext ==
    /\ In("ARR")
    /\ Ch = ","
    /\ nullVal' = FALSE
    /\ vt' = Push(SetTop([Top EXCEPT !.size = CountLast(Top)]),
                  State("VAL", "none", Next1, TypeDesc[Top.td].elem))
    /\ p' = Next1
    /\ UNCHANGED <<pc, ret, unwindPos, lastField, buf, caches>> /\ KeepRest

ArrBad == In("ARR") /\ Ch \notin {"]", ","} /\ Fail

-----------------------------------------------------------------------------
\* *unwindPos: where the header or the key about to be written begins.
HeaderPosAfter == Len(buf) + 1
HeaderPos == Len(buf)

\* j2t_key, called in OBJ_0 (the first key of an object) and in KEY.
AtKey == (In("OBJ_0") \/ In("KEY")) /\ Ch = "str"
Obj0  == Top.st = "OBJ_0"
\* The state of the object, and the stack once the key's state is `el`.
Object == IF Obj0 THEN Top ELSE vt[sp - 1]
WithElem(el) == IF Obj0 THEN Push(SetTop([Top EXCEPT !.st = "OBJ"]), el) ELSE SetTop(el)
KeyFits == ~Tok.esc \/ KeyLen <= keyCap

\* j2t_read_key: an escaped key is unquoted into the key cache.
KeyOom ==
    /\ AtKey
    /\ ~KeyFits
    /\ Return("key", KeyLen - keyCap)
    /\ UNCHANGED <<vt, locals, closing, buf, bufCap, caches, idx, spoiled>>

\* j2t_map_key
KeyMap ==
    /\ AtKey /\ KeyFits
    /\ TypeDesc[Object.td].kind = "map"
    /\ IF TypeDesc[Object.td].key = "str" \/ Tok.qn
       THEN \/ OomBuf(1)
            \/ /\ Emit(<<Cell("key", 0, Tok.x)>>,
                       WithElem(State("ELEM", "none", Next1, TypeDesc[Object.td].elem)), Next1)
               /\ unwindPos' = HeaderPos
               /\ UNCHANGED <<nullVal, lastField, caches>> /\ KeepRest
       ELSE Fail

StructKey == AtKey /\ KeyFits /\ TypeDesc[Object.td].kind = "struct"
Found == FieldByName(Object.td, Tok.x)

SkipElem(td) ==
    /\ vt' = WithElem(State("ELEM", "skip", Next1, td))
    /\ p' = Next1
    /\ KeepLocals /\ KeepRest /\ UNCHANGED <<pc, ret, buf, caches>>

KeyUnknown ==
    /\ StructKey
    /\ Found = {}
    /\ IF opts.unknown THEN SkipElem(NoType) ELSE Fail

FieldElem(mod, f) == [State("ELEM", mod, Next1, f.type) EXCEPT !.f = f]

KeyField(f) ==
    IF f.base /\ opts.noBase
    THEN SkipElem(NoType)
    \* an HTTP-mapped field that the request has already given
    ELSE IF opts.hm /\ f.hm /\ ~BmIsSet(Object, f.id)
    THEN SkipElem(f.type)
    ELSE IF opts.vm /\ f.vm # "none"
    THEN /\ vt' = WithElem(FieldElem("vm", f))
         /\ p' = Next1
         /\ words' = BmSet(Object, f.id, "optional")
         /\ KeepLocals /\ KeepRest
         /\ UNCHANGED <<pc, ret, buf, reqsLen, fieldCache, fieldCap, keyCap>>
    ELSE \/ OomBuf(1)
         \/ /\ Emit(<<Cell("field", f.id, "")>>,
                    WithElem(FieldElem("field", f)), Next1)
            /\ unwindPos' = HeaderPos
            /\ lastField' = f
            /\ words' = BmSet(Object, f.id, "optional")
            /\ UNCHANGED <<nullVal, reqsLen, fieldCache, fieldCap, keyCap>> /\ KeepRest

KeyKnown == StructKey /\ \E f \in Found : KeyField(f)

Obj0Bad == In("OBJ_0") /\ Ch \notin {"}", "str"} /\ Fail
KeyBad  == In("KEY") /\ Ch # "str" /\ Fail

ElemColon ==
    /\ In("ELEM")
    /\ IF Ch = ":"
       THEN /\ vt' = SetTop([Top EXCEPT !.st = "VAL", !.jp = Next1])
            /\ p' = Next1
            /\ KeepLocals /\ KeepRest /\ UNCHANGED <<pc, ret, buf, caches>>
       ELSE Fail

-----------------------------------------------------------------------------
\* A null member: cut the output back to before its header or key; a field of
\* a struct counts as missing again.
UnwoundNot == buf
Unwound == IF nullVal THEN [i \in 1..unwindPos |-> buf[i]] ELSE buf
Reset(fr) == IF nullVal THEN BmSet(fr, lastField.id, lastField.req) ELSE words

ObjNext ==
    /\ In("OBJ")
    /\ Ch = ","
    /\ buf' = Unwound
    /\ nullVal' = FALSE
    /\ p' = Next1
    /\ vt' = Push(IF Kind = "map" THEN SetTop([Top EXCEPT !.size = CountLast(Top)]) ELSE vt,
                  State("KEY", "none", Next1, Top.td))
    /\ words' = IF Kind = "struct" THEN Reset(Top) ELSE words
    /\ UNCHANGED <<pc, ret, unwindPos, lastField, reqsLen, fieldCache, fieldCap, keyCap>>
    /\ KeepRest

ObjBad == In("OBJ") /\ Ch \notin {"}", ","} /\ Fail

AtEnd == (In("OBJ") \/ In("OBJ_0")) /\ Ch = "}"

MapEnd ==
    /\ AtEnd
    /\ Kind = "map"
    /\ buf' = IF Obj0 THEN Sized(buf, Top, 0) ELSE Sized(Unwound, Top, CountLast(Top))
    /\ nullVal' = IF Obj0 THEN nullVal ELSE FALSE
    /\ vt' = Below
    /\ p' = Next1
    /\ UNCHANGED <<pc, ret, unwindPos, lastField, caches>> /\ KeepRest

\* '}' of a struct: the iteration goes through "unset" (j2t_write_unset_fields)
\* and "close" (bm_free_reqs and what follows) before it ends.  saved is the
\* output when it starts (its length is wp), cut tells that a null member was
\* unwound in it.
StructEnd ==
    /\ AtEnd
    /\ Kind = "struct"
    /\ p' = Next1
    /\ saved' = buf
    /\ cut' = (nullVal /\ ~Obj0)
    /\ bit' = 0
    /\ shift' = 0
    /\ buf' = IF Obj0 THEN buf ELSE Unwound
    /\ words' = IF Obj0 THEN words ELSE Reset(Top)
    /\ nullVal' = IF Obj0 THEN nullVal ELSE FALSE
    /\ pc' = "unset"
    /\ UNCHANGED <<vt, unwindPos, lastField, bufCap, reqsLen, fieldCache, fieldCap, keyCap,
                   ret, idx, spoiled>>

\* J2T_STORE in the closing iteration: the saved state gets the position of
\* the '}', the output its length at the start of the iteration.  A null
\* member that was cut off is back in the output, and what went into the
\* field cache or out of the requires cache stays so.  (p, which is lost, goes
\* back as in the other returns: to where the iteration began.)
ClosePosKept == vt
ClosePos == IF Top.st = "OBJ" THEN SetTop([Top EXCEPT !.jp = p - 1]) ELSE vt
StoreClose(code, v, why) ==
    /\ Return(code, v)
    /\ vt' = ClosePos
    /\ buf' = [i \in 1..Len(saved) |-> IF i <= Len(buf) THEN buf[i] ELSE saved[i]]
    /\ spoiled' = spoiled \cup why \cup (IF cut THEN {"null"} ELSE {})
                          \cup (IF fieldCache # <<>> THEN {"dup"} ELSE {})
    /\ p' = p - 1
    /\ KeepLocals
    /\ UNCHANGED <<closing, bufCap, caches, idx>>

Unsetting == pc = "unset" /\ UNCHANGED inputs
WordIdx == bit \div WordBits
\* *s of the current word; v is that word shifted `shift` times.
Word == words[Top.gen][Top.off + WordIdx + 1]
InBitmap == bit < Top.len * WordBits
KeepUnset == UNCHANGED <<vt, locals, saved, cut, bufCap, words, reqsLen, fieldCap, keyCap,
                         ret, idx, spoiled>>

\* j++, and v >>= 1 if n is 1; a word ends after its last bit.
Advance(n) ==
    /\ bit' = bit + 1
    /\ shift' = IF (bit + 1) % WordBits = 0 THEN 0 ELSE shift + n

\* v == 0: the rest of the word is skipped.
UnsetWordEmpty ==
    /\ Unsetting /\ InBitmap
    /\ \A b \in Word : b < shift
    /\ bit' = (WordIdx + 1) * WordBits
    /\ shift' = 0
    /\ KeepUnset /\ UNCHANGED <<pc, buf, fieldCache>>

UnsetClear ==
    /\ Unsetting /\ InBitmap
    /\ \E b \in Word : b >= shift
    /\ shift \notin Word
    /\ Advance(1)
    /\ KeepUnset /\ UNCHANGED <<pc, buf, fieldCache>>

\* The lowest bit of v is set: the field `bit` has not been written.
AtUnset == Unsetting /\ InBitmap /\ shift \in Word
Missing == IF bit < TypeDesc[Top.td].idsLen THEN FieldById(Top.td, bit) ELSE {}
Traced(f) == opts.tb /\ (f.req = "required" \/ sp = 1)
WritesUnset(f) == \/ opts.wr /\ f.req = "required"
                  \/ opts.wd /\ f.req = "default"
                  \/ opts.wo /\ f.req = "optional"

\* No such field, or the request base: `continue`, which skips the shift.
UnsetIgnored ==
    /\ AtUnset
    /\ \A f \in Missing : f.base
    /\ Advance(0)
    /\ KeepUnset /\ UNCHANGED <<pc, buf, fieldCache>>

\* Left to the Go handler, which looks in the http request.
UnsetTraced ==
    /\ AtUnset
    /\ \E f \in Missing :
         /\ ~f.base
         /\ Traced(f)
         /\ IF fieldCap <= Len(fieldCache)
            THEN StoreClose("field", p - 1, {})
            ELSE /\ fieldCache' = Append(fieldCache, f.id)
                 /\ Advance(1)
                 /\ KeepUnset /\ UNCHANGED <<pc, buf>>

UnsetWritten ==
    /\ AtUnset
    /\ \E f \in Missing :
         /\ ~f.base
         /\ ~Traced(f)
         /\ ~(f.req = "required" /\ ~opts.wr)
         /\ IF ~WritesUnset(f)
            THEN /\ Advance(1)
                 /\ KeepUnset /\ UNCHANGED <<pc, buf, fieldCache>>
            ELSE \/ /\ Len(buf) + 2 > bufCap
                    /\ StoreClose("buf", 1, {})
                 \/ /\ Len(buf) + 2 <= bufCap
                    /\ buf' = buf \o <<Cell("field", f.id, ""), Cell("dflt", f.id, "")>>
                    /\ Advance(1)
                    /\ KeepUnset /\ UNCHANGED <<pc, fieldCache>>

\* ERR_NULL_REQUIRED
UnsetFails ==
    /\ AtUnset
    /\ \E f \in Missing : ~f.base /\ ~Traced(f) /\ f.req = "required" /\ ~opts.wr
    /\ Fail

\* What is left of the requires cache without the slice of the top struct.
GivenBackAll == 0
GivenBack == reqsLen - Top.len

\* bm_free_reqs; with fields in the cache and HTTP mapping on, Go ends the
\* struct.
FreeReqs ==
    /\ Unsetting
    /\ ~InBitmap
    /\ reqsLen' = GivenBack
    /\ IF opts.hm /\ fieldCache # <<>>
       THEN Return("hmEnd", p)
       ELSE pc' = "close" /\ UNCHANGED ret
    /\ UNCHANGED <<vt, locals, closing, buf, bufCap, words, fieldCache, fieldCap, keyCap,
                   idx, spoiled>>

\* tb_write_struct_end.  When the stop byte does not fit, the state goes back
\* on the stack and the whole iteration is done again, bm_free_reqs included.
WriteStop ==
    /\ pc = "close"
    /\ UNCHANGED inputs
    /\ \/ /\ Len(buf) + 1 > bufCap
          /\ StoreClose("buf", 1, IF Top.len > 0 THEN {"free"} ELSE {})
       \/ /\ Len(buf) + 1 <= bufCap
          /\ buf' = Append(buf, Cell("stop", 0, ""))
          /\ vt' = Below
          /\ pc' = "exec"
          /\ UNCHANGED <<locals, closing, bufCap, caches, ret, idx, spoiled>>

-----------------------------------------------------------------------------
\* The end of the loop, its depth check, and calling the function again.
Finish ==
    /\ pc = "exec" /\ vt = <<>>
    /\ pc' = "done"
    /\ UNCHANGED <<inputs, vt, locals, closing, buf, bufCap, caches, ret, idx, spoiled>>

TooDeep ==
    /\ pc = "exec" /\ sp >= MaxRecurse
    /\ pc' = "failed"
    /\ ret' = [ret EXCEPT !.code = "deep"]
    /\ UNCHANGED <<inputs, vt, locals, closing, buf, bufCap, caches, idx, spoiled>>

EnterNative(s) ==
    /\ vt' = s
    /\ pc' = IF s = <<>> THEN "done" ELSE "exec"
    /\ p' = IF s = <<>> THEN p ELSE s[Len(s)].jp
    /\ nullVal' = FALSE
    /\ unwindPos' = 0
    /\ lastField' = NoField

Handling(code) == pc = "go" /\ ret.code = code /\ UNCHANGED inputs

\* ERR_OOM_BUF
GrowBuf ==
    /\ Handling("buf")
    /\ LET c == bufCap + (bufCap \div 2)
       IN  bufCap' = IF c < bufCap + ret.v THEN bufCap + 2 * ret.v ELSE c
    /\ EnterNative(vt)
    /\ UNCHANGED <<closing, buf, caches, ret, idx, spoiled>>

Grown(n) == [i \in 1..(Len(words[Gen]) + n) |->
               IF i \in DOMAIN words[Gen] /\ i <= reqsLen THEN words[Gen][i] ELSE {}]

\* ERR_OOM_BM: GrowReqCache copies the cache into a new array.  The states of
\* the open structs keep pointing into the old one.
GrowReqCache ==
    /\ Handling("bm")
    /\ words' = Append(words, Grown(2 * ret.v))
    /\ EnterNative(vt)
    /\ UNCHANGED <<closing, buf, bufCap, reqsLen, fieldCache, fieldCap, keyCap, ret, idx, spoiled>>

\* ERR_OOM_KEY
GrowKeyCache ==
    /\ Handling("key")
    /\ keyCap' = keyCap + 2 * ret.v
    /\ EnterNative(vt)
    /\ UNCHANGED <<closing, buf, bufCap, words, reqsLen, fieldCache, fieldCap, ret, idx, spoiled>>

\* ERR_OOM_FIELD: GrowFieldCache, then SetPos.
GrownFieldCapNot == fieldCap
GrownFieldCap == fieldCap + FieldGrow

GrowFieldCache ==
    /\ Handling("field")
    /\ fieldCap' = GrownFieldCap
    /\ EnterNative(SetTop([Top EXCEPT !.jp = ret.v]))
    /\ UNCHANGED <<closing, buf, bufCap, words, reqsLen, fieldCache, keyCap, ret, idx, spoiled>>

\* writeStringValue: a value of the request, or what the options say of a
\* field without one.  The slice grows as append makes it.
MissingFails(f, found) == ~found /\ f.req = "required" /\ ~opts.wr
StringCells(f, found) ==
    IF found THEN <<Cell("field", f.id, ""), Cell("http", 0, f.name)>>
    ELSE IF WritesUnset(f) THEN <<Cell("field", f.id, ""), Cell("dflt", f.id, "")>>
    ELSE <<>>
AppendGo(cells) ==
    /\ buf' = buf \o cells
    /\ bufCap' = IF Len(buf) + Len(cells) > bufCap THEN Len(buf) + Len(cells) ELSE bufCap

\* ERR_HTTP_MAPPING: handleHttpMappings, one field of the struct at a time.
StartHttp ==
    /\ Handling("hm")
    /\ pc' = "http"
    /\ idx' = 1
    /\ UNCHANGED <<vt, locals, closing, buf, bufCap, caches, ret, spoiled>>

HttpField ==
    /\ pc = "http" /\ UNCHANGED inputs
    /\ idx <= Len(TypeDesc[Top.td].hms)
    /\ LET f == TypeDesc[Top.td].hms[idx]
           found == f.name \in http.hm
       IN  IF ~found /\ opts.tb
           THEN /\ words' = BmSet(Top, f.id, "required")
                /\ idx' = idx + 1
                /\ UNCHANGED <<pc, vt, locals, closing, buf, bufCap, reqsLen, fieldCache,
                               fieldCap, keyCap, ret, spoiled>>
           ELSE IF MissingFails(f, found)
           THEN Fail
           ELSE /\ words' = BmSet(Top, f.id, "optional")
                /\ AppendGo(StringCells(f, found))
                /\ idx' = idx + 1
                /\ UNCHANGED <<pc, vt, locals, closing, reqsLen, fieldCache, fieldCap,
                               keyCap, ret, spoiled>>

HttpDone ==
    /\ pc = "http" /\ UNCHANGED inputs
    /\ idx > Len(TypeDesc[Top.td].hms)
    /\ EnterNative(vt)
    /\ UNCHANGED <<closing, buf, bufCap, caches, ret, idx, spoiled>>

\* ERR_HTTP_MAPPING_END: handleUnmatchedFields, one cached id at a time, then
\* the end of the struct.
StartUnmatched ==
    /\ Handling("hmEnd")
    /\ pc' = "unmatched"
    /\ idx' = 1
    /\ UNCHANGED <<vt, locals, closing, buf, bufCap, caches, ret, spoiled>>

UnmatchedField ==
    /\ pc = "unmatched" /\ UNCHANGED inputs
    /\ idx <= Len(fieldCache)
    /\ \E f \in FieldById(Top.td, fieldCache[idx]) :
         LET found == opts.tbRoot /\ f.name \in http.any
         IN  IF MissingFails(f, found)
             THEN Fail
             ELSE /\ AppendGo(StringCells(f, found))
                  /\ idx' = idx + 1
                  /\ UNCHANGED <<pc, vt, locals, closing, caches, ret, spoiled>>

\* The position of the next JSON goes to the state below.
DropTo(pos) == IF sp = 1 THEN <<>> ELSE [Below EXCEPT ![sp - 1].jp = pos]

UnmatchedDone ==
    /\ pc = "unmatched" /\ UNCHANGED inputs
    /\ idx > Len(fieldCache)
    /\ AppendGo(<<Cell("stop", 0, "")>>)
    /\ fieldCache' = <<>>
    /\ EnterNative(DropTo(ret.v))
    /\ UNCHANGED <<closing, words, reqsLen, fieldCap, keyCap, ret, idx, spoiled>>

\* ERR_VALUE_MAPPING_END: handleValueMapping writes the field with the user's
\* mapping.  A value that ends with the text is refused.
ValueMapping ==
    /\ Handling("vmEnd")
    /\ IF ret.v >= Len(src)
       THEN Fail
       ELSE /\ AppendGo(<<Cell("field", Top.f.id, ""), Cell("mapped", 0, Top.f.name)>>)
            /\ EnterNative(DropTo(ret.v))
            /\ UNCHANGED <<closing, caches, ret, idx, spoiled>>

\* The collector takes back an array of the requires cache that only the
\* machine's states point to: they hold it as an integer.
Reclaim ==
    /\ pc = "go" /\ "gc" \notin spoiled /\ UNCHANGED inputs
    /\ \E i \in 1..sp, fill \in SUBSET (0..(WordBits - 1)) :
         /\ vt[i].len > 0 /\ vt[i].gen < Gen
         /\ words' = [words EXCEPT ![vt[i].gen] = [j \in 1..Len(words[vt[i].gen]) |-> fill]]
    /\ spoiled' = spoiled \cup {"gc"}
    /\ UNCHANGED <<pc, vt, locals, closing, buf, bufCap, reqsLen, fieldCache, fieldCap,
                   keyCap, ret, idx>>

Stop == pc \in Terminal /\ UNCHANGED vars

-----------------------------------------------------------------------------
\* NewJ2TStateMachine and its Init: a machine is new or from the pool, where
\* FreeJ2TStateMachine only cut the caches to length 0.  left is what the array
\* of the requires cache holds: nothing, or all that its last user may have set.
Init ==
    /\ src \in Docs /\ opts \in Options /\ http \in HttpData
    /\ pc = "exec"
    /\ vt = <<State("VAL", "none", 0, RootType)>>
    /\ p = 0 /\ nullVal = FALSE /\ unwindPos = 0 /\ lastField = NoField
    /\ saved = <<>> /\ cut = FALSE /\ bit = 0 /\ shift = 0
    /\ buf = <<>> /\ bufCap \in BufCaps
    /\ \E n \in ReqCaps, left \in {{}, 0..(WordBits - 1)} : words = <<[i \in 1..n |-> left]>>
    /\ reqsLen = 0
    /\ fieldCache = <<>> /\ fieldCap \in FieldCaps
    /\ keyCap \in KeyCaps
    /\ ret = [code |-> "none", v |-> 0]
    /\ idx = 0
    /\ spoiled = {}

Value == ValScalar \/ ValNull \/ ValList \/ ValMap \/ ValStruct \/ ValBad \/ ValSkip
         \/ ValJsConv \/ ValGoMapping
Container == Arr0End \/ Arr0Start \/ ArrEnd \/ ArrNext \/ ArrBad
             \/ Obj0Bad \/ ObjNext \/ ObjBad \/ MapEnd \/ StructEnd
Key == KeyOom \/ KeyMap \/ KeyUnknown \/ KeyKnown \/ KeyBad \/ ElemColon
Close == UnsetWordEmpty \/ UnsetClear \/ UnsetIgnored \/ UnsetTraced \/ UnsetWritten
         \/ UnsetFails \/ FreeReqs \/ WriteStop
Driver == Finish \/ TooDeep \/ GrowBuf \/ GrowReqCache \/ GrowKeyCache \/ GrowFieldCache
          \/ StartHttp \/ HttpField \/ HttpDone \/ StartUnmatched \/ UnmatchedField
          \/ UnmatchedDone \/ ValueMapping

Step == Value \/ Container \/ Key \/ Close \/ Driver
Next == Step \/ Reclaim \/ Stop

Spec == Init /\ [][Next]_vars /\ WF_vars(Step)

-----------------------------------------------------------------------------
(* Properties *)

Frame == [st : {"VAL", "ARR_0", "ARR", "OBJ_0", "OBJ", "KEY", "ELEM"},
          mod : {"none", "skip", "vm", "field"}, jp : Nat, td : Types \cup {NoType},
          bp : Nat, size : Nat, gen : Nat, off : Int, len : Nat,
          f : FieldDesc \cup {NoField}]

CellSet == [k : {"field", "val", "dflt", "byte", "key", "list", "map", "stop", "http", "mapped"},
            n : Nat, x : Texts]

InputsOK == src \in Seq(Token) /\ opts \in Flag /\ http \in Http
LocalsOK == /\ p \in Nat /\ nullVal \in BOOLEAN /\ unwindPos \in Nat
            /\ lastField \in FieldDesc \cup {NoField}
            /\ saved \in Seq(CellSet) /\ cut \in BOOLEAN /\ bit \in Nat /\ shift \in Nat
OutputOK == buf \in Seq(CellSet) /\ bufCap \in Nat
CachesOK == /\ words \in Seq(Seq(SUBSET (0..(WordBits - 1)))) /\ words # <<>>
            /\ reqsLen \in Int
            /\ fieldCache \in Seq(Nat) /\ fieldCap \in Nat /\ keyCap \in Nat
DriverOK == /\ pc \in PCs
            /\ ret \in [code : Codes, v : Nat]
            /\ idx \in Nat
            /\ spoiled \subseteq {"null", "dup", "free", "gc"}

\* Every variable keeps its type.
TypeOK == InputsOK /\ LocalsOK /\ OutputOK /\ CachesOK /\ DriverOK /\ vt \in Seq(Frame)

\* Returning to Go loses the position, which is a local of j2t_fsm_exec: what
\* is kept is the jp of the top state, only written when a state is pushed or
\* replaced, or by bt.jp of thrift.c:938 for the end of an object.  It must be
\* the position of the interrupted iteration, or the next call reads the JSON
\* text from somewhere else.
ResumePos ==
    \/ pc = "exec" /\ vt # <<>> /\ Top.st \notin {"ARR", "OBJ"}
    \/ pc \in {"go", "http"} /\ ret.code \notin {"hmEnd", "vmEnd"}
    => Top.jp = p

\* unwindPos and lastField are locals too, set with the key of a member and
\* used after its value (thrift.c:942-947, 968-975, 996-1001), and a return in between
\* leaves 0 and NULL.  A null member must find its own: the last cell of the
\* output is its header or key, and in a struct its field is known.
UnwindsMember ==
    pc = "exec" /\ nullVal /\ vt # <<>> /\ Top.st = "OBJ" =>
        /\ unwindPos = Len(buf) - 1
        /\ IF Kind = "map" THEN buf[Len(buf)].k = "key"
           ELSE /\ lastField \in TypeDesc[Top.td].fields
                /\ buf[Len(buf)] = Cell("field", lastField.id, "")

\* The bitmaps of the open structs are slices of the requires cache cut off by
\* bm_malloc_reqs and given back by bm_free_reqs.  As long as every struct
\* gives its slice back once, no two open structs share a word, and the next
\* slice is cut off behind all of them.
Freed(i) == i = sp /\ (pc = "close" \/ (pc \in {"go", "unmatched"} /\ ret.code = "hmEnd"))
OpenStructs == {i \in 1..sp : vt[i].len > 0 /\ ~Freed(i)}
BitmapsDisjoint ==
    "free" \notin spoiled /\ pc # "failed" =>
        /\ \A i, j \in OpenStructs : i < j => vt[i].off + vt[i].len <= vt[j].off
        /\ \A i \in OpenStructs : vt[i].off + vt[i].len <= reqsLen
        /\ reqsLen <= Len(words[Gen])
        /\ OpenStructs = {} => reqsLen = 0

\* What the loop may still take back of the output: the header or the key of
\* a member whose value is null, and what the end of a struct has added when
\* that iteration must be done again.
Committed == IF pc \in {"unset", "close"}
             THEN Len(saved) - (IF cut THEN 1 ELSE 0)
             ELSE Len(buf) - (IF pc = "exec" /\ nullVal THEN 1 ELSE 0)

\* No step, no return to Go and no Go handler loses or rewrites output beyond
\* that: a cell changes only when it is the size of a container still open.
KeptOutput ==
    [][/\ Len(buf') >= Committed
       /\ \A i \in 1..Committed : buf'[i] = buf[i] \/ \E k \in 1..sp : vt[k].bp = i]_vars

\* The function and its driver always come to an end: no handler calls the
\* function again without giving it what it returned for.
Progress == <>(pc \in Terminal)

-----------------------------------------------------------------------------
(* The inductive invariant of ResumePos and UnwindsMember *)

FrameOK(fr) ==
    /\ fr.td = NoType => fr.mod = "skip" /\ fr.st \in {"VAL", "ELEM"}
    /\ fr.st \in {"ARR_0", "ARR"} => TypeDesc[fr.td].kind = "list"
    /\ fr.st \in {"OBJ_0", "OBJ", "KEY"} => TypeDesc[fr.td].kind \in {"map", "struct"}
    /\ fr.mod \in {"vm", "field"} => fr.f \in FieldDesc

\* Only the top state moves: the states under it are open containers, waiting
\* for the element above them.
StackOK(s) == /\ s \in Seq(Frame)
              /\ \A i \in 1..Len(s) : FrameOK(s[i])
              /\ \A i \in 1..(Len(s) - 1) : s[i].st \in {"ARR", "OBJ"}

\* A key has its object under it, and an element knows what it is in.
InObject == sp > 1 /\ vt[sp - 1].st = "OBJ"
Parent == TypeDesc[vt[sp - 1].td]
TopOK ==
    vt # <<>> =>
        /\ Top.st = "KEY" => InObject /\ vt[sp - 1].td = Top.td
        /\ Top.st = "ELEM" => InObject
        /\ Top.st \in {"ELEM", "VAL"} /\ InObject =>
              /\ Top.mod = "none" => Parent.kind = "map"
              /\ Top.mod = "field" => Parent.kind = "struct" /\ Top.f \in Parent.fields

ControlOK ==
    /\ pc \notin {"exec"} \cup Terminal => vt # <<>>
    /\ pc \in {"unset", "close"} =>
          /\ Top.st \in {"OBJ_0", "OBJ"} /\ Kind = "struct"
          /\ p > 0 /\ ~nullVal
          /\ Top.st = "OBJ_0" => Top.jp = p - 1
    /\ pc = "go" => ret.code \notin {"none", "deep"} /\ Top.st # "ELEM"
    /\ pc = "go" /\ ret.code = "vmEnd" => Top.mod = "vm"
    /\ pc = "go" /\ ret.code = "hm" => Top.st = "OBJ_0"
    /\ pc = "go" /\ ret.code \in {"field", "hmEnd"} => Top.st \in {"OBJ_0", "OBJ"}
    /\ pc = "http" => ret.code = "hm" /\ idx > 0 /\ Top.st = "OBJ_0"
    /\ pc = "unmatched" => ret.code = "hmEnd" /\ idx > 0 /\ Top.st \in {"OBJ_0", "OBJ"}
    /\ pc = "exec" /\ nullVal => vt = <<>> \/ Top.st \in {"ARR", "OBJ"}
    /\ pc \in {"exec", "unset", "close"} => unwindPos <= Len(buf)

\* Between its key and its value a member can be unwound; after a return it
\* can not, but then the value that did not fit is no null.
Unwindable ==
    /\ buf # <<>> /\ unwindPos = Len(buf) - 1
    /\ IF Top.mod = "field"
       THEN lastField = Top.f /\ buf[Len(buf)] = Cell("field", Top.f.id, "")
       ELSE buf[Len(buf)].k = "key"
MemberOK ==
    /\ pc = "exec" /\ vt # <<>> /\ Top.st \in {"ELEM", "VAL"} /\ InObject
       /\ Top.mod \in {"none", "field"}
       => Unwindable \/ (Top.st = "VAL" /\ Ch # "null")
    /\ pc = "go" /\ Top.st = "VAL" /\ ret.code # "vmEnd" => Ch # "null"

IInv == /\ TypeOK
        /\ StackOK(vt)
        /\ TopOK
        /\ ControlOK
        /\ MemberOK
        /\ ResumePos
        /\ UnwindsMember

-----------------------------------------------------------------------------
(* The inductive invariants of BitmapsDisjoint and KeptOutput *)

\* Only a struct has a bitmap.
BitmapFrames ==
    \A i \in 1..sp : vt[i].len > 0 => /\ vt[i].st \in {"OBJ_0", "OBJ"} /\ vt[i].mod = "none"
                                     /\ TypeDesc[vt[i].td].kind = "struct"

\* e is where the slices of the open structs among the first n states end.
EndOfSlices(n, e) ==
    IF \E i \in OpenStructs : i <= n
    THEN \E i \in OpenStructs : /\ i <= n /\ e = vt[i].off + vt[i].len
                               /\ \A j \in OpenStructs : j <= n => j <= i
    ELSE e = 0

\* The slices follow each other without a gap, so that what a struct gives
\* back is what was left before it.
SlicesContiguous ==
    "free" \notin spoiled /\ pc # "failed" =>
        /\ \A i \in OpenStructs : vt[i].off >= 0 /\ EndOfSlices(i - 1, vt[i].off)
        /\ EndOfSlices(sp, reqsLen)

CacheInv == BitmapFrames /\ BitmapsDisjoint /\ SlicesContiguous

\* The length of the requires cache is never negative but for a slice that was
\* given back twice.
UndefinedAfterFree == pc = "undefined" => "free" \in spoiled

\* While a struct is closed the output is no shorter than what is committed.
ClosingOutput ==
    pc \in {"unset", "close"} => Len(saved) - (IF cut THEN 1 ELSE 0) <= Len(buf)
=============================================================================
