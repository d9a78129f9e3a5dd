---------------------------- MODULE J2TFsmProofs ----------------------------
(***************************************************************************)
(* Proofs about J2TFsm.                                                    *)
(***************************************************************************)
EXTENDS J2TFsm, SequenceTheorems, TLAPS

-----------------------------------------------------------------------------
(* The stack *)

\* A function on 1..n is a sequence of length n.
LEMMA FunctionSeq ==
    ASSUME NEW A, NEW n \in Nat, NEW g \in [1..n -> A]
    PROVE  g \in Seq(A) /\ Len(g) = n
  BY SeqDef, LenProperties

\* J2T_DROP
LEMMA PopOK ==
    ASSUME NEW s, StackOK(s), s # <<>>,
           NEW b, b = [i \in 1..(Len(s) - 1) |-> s[i]]
    PROVE  /\ StackOK(b)
           /\ Len(b) = Len(s) - 1 /\ Len(s) \in Nat /\ Len(b) \in Nat
           /\ \A i \in 1..Len(b) : b[i] = s[i]
           /\ b # <<>> => b[Len(b)] = s[Len(b)] /\ b[Len(b)].st \in {"ARR", "OBJ"}
  <1>1. s \in Seq(Frame) /\ Len(s) \in Nat \ {0}
    BY EmptySeq DEF StackOK
  <1>2. \A i \in 1..Len(s) : s[i] \in Frame
    BY <1>1, ElementOfSeq
  <1>3. b \in [1..(Len(s) - 1) -> Frame] /\ Len(s) - 1 \in Nat
    BY <1>1, <1>2
  <1>4. b \in Seq(Frame) /\ Len(b) = Len(s) - 1
    BY <1>3, FunctionSeq
  <1>5. \A i \in 1..Len(b) : b[i] = s[i]
    BY <1>4
  <1>6. StackOK(b)
    BY <1>1, <1>4, <1>5 DEF StackOK
  <1>7. ASSUME b # <<>> PROVE Len(b) \in 1..(Len(s) - 1)
    BY <1>4, <1>7, EmptySeq
  <1> QED
    BY <1>1, <1>4, <1>5, <1>6, <1>7 DEF StackOK

\* J2T_PUSH
LEMMA PushOK ==
    ASSUME NEW s, StackOK(s), NEW fr \in Frame, FrameOK(fr),
           s # <<>> => s[Len(s)].st \in {"ARR", "OBJ"},
           NEW a, a = Push(s, fr)
    PROVE  /\ StackOK(a) /\ a # <<>>
           /\ Len(s) \in Nat /\ Len(a) = Len(s) + 1
           /\ \A i \in 1..Len(s) : a[i] = s[i]
           /\ a[Len(a)] = fr
  <1>1. s \in Seq(Frame) /\ Len(s) \in Nat
    BY LenProperties DEF StackOK
  <1>2. a \in Seq(Frame) /\ Len(a) = Len(s) + 1 /\ a[Len(a)] = fr /\ a # <<>>
    BY <1>1, AppendProperties DEF Push
  <1>3. \A i \in 1..Len(s) : a[i] = s[i]
    BY <1>1, AppendProperties DEF Push
  <1>4. Len(s) > 0 => s[Len(s)].st \in {"ARR", "OBJ"}
    BY <1>1, EmptySeq
  <1>5. \A i \in 1..Len(a) : FrameOK(a[i])
    BY <1>1, <1>2, <1>3 DEF StackOK
  <1>6. \A i \in 1..(Len(a) - 1) : a[i].st \in {"ARR", "OBJ"}
    BY <1>1, <1>2, <1>3, <1>4 DEF StackOK
  <1> QED
    BY <1>1, <1>2, <1>3, <1>5, <1>6 DEF StackOK

\* J2T_REPL
LEMMA ReplaceOK ==
    ASSUME NEW s, StackOK(s), s # <<>>, NEW fr \in Frame, FrameOK(fr),
           NEW r, r = Replace(s, fr)
    PROVE  /\ StackOK(r) /\ r # <<>>
           /\ Len(s) \in Nat \ {0} /\ Len(r) = Len(s)
           /\ \A i \in 1..(Len(s) - 1) : r[i] = s[i]
           /\ r[Len(r)] = fr
  <1>1. s \in Seq(Frame) /\ Len(s) \in Nat \ {0}
    BY EmptySeq DEF StackOK
  <1>2. r \in Seq(Frame) /\ Len(r) = Len(s)
    BY <1>1, ExceptSeq DEF Replace
  <1>3. \A i \in 1..Len(s) : r[i] = IF i = Len(s) THEN fr ELSE s[i]
    BY <1>1, ExceptSeq DEF Replace
  <1>4. r # <<>>
    BY <1>1, <1>2, EmptySeq
  <1>5. \A i \in 1..Len(r) : FrameOK(r[i])
    BY <1>1, <1>2, <1>3 DEF StackOK
  <1>6. \A i \in 1..(Len(s) - 1) : r[i] = s[i] /\ s[i].st \in {"ARR", "OBJ"}
    BY <1>1, <1>3 DEF StackOK
  <1>7. r[Len(r)] = fr
    BY <1>1, <1>2, <1>3
  <1> QED
    BY <1>1, <1>2, <1>4, <1>5, <1>6, <1>7 DEF StackOK

-----------------------------------------------------------------------------
(* Facts about a state *)

\* The top state and the one under it are well formed.
LEMMA TopFacts ==
    ASSUME IInv, vt # <<>>
    PROVE  /\ sp \in Nat \ {0}
           /\ Top \in Frame /\ FrameOK(Top)
           /\ sp > 1 => vt[sp - 1] \in Frame /\ FrameOK(vt[sp - 1])
                         /\ vt[sp - 1].st \in {"ARR", "OBJ"}
  <1>1. vt \in Seq(Frame) /\ sp \in Nat \ {0}
    BY EmptySeq DEF IInv, TypeOK, sp
  <1>2. \A i \in 1..sp : vt[i] \in Frame
    BY <1>1, ElementOfSeq DEF sp
  <1> QED
    BY <1>1, <1>2 DEF IInv, StackOK, Top, sp

\* Short of the end of the text there is a token.
LEMMA TokFacts ==
    ASSUME InputsOK, LocalsOK, Ch # "eof"
    PROVE  p < Len(src) /\ Tok \in Token /\ Ch = Tok.ch /\ Ch \in Chars
  <1>1. p < Len(src) /\ Len(src) \in Nat /\ p \in Nat /\ Ch = Tok.ch
    BY LenProperties DEF InputsOK, LocalsOK, Ch, Tok
  <1>2. Tok \in Token
    BY <1>1, ElementOfSeq DEF InputsOK, Tok
  <1> QED
    BY <1>1, <1>2 DEF Token

-----------------------------------------------------------------------------
(* Steps that end or leave the function *)

\* A step that ends the call and moves nothing else.
LEMMA EndKeeps ==
    ASSUME IInv, pc' \in Terminal, ret' \in [code : Codes, v : Nat],
           UNCHANGED <<inputs, vt, locals, closing, buf, bufCap, caches, idx, spoiled>>
    PROVE  IInv'
  <1>1. TypeOK'
    BY DEF IInv, TypeOK, InputsOK, LocalsOK, OutputOK, CachesOK, DriverOK,
           inputs, locals, closing, caches, PCs
  <1>2. StackOK(vt)'
    BY DEF IInv
  <1>3. TopOK'
    BY DEF IInv, TopOK, InObject, Parent, Top, sp
  <1>4. ControlOK' /\ MemberOK' /\ ResumePos' /\ UnwindsMember'
    BY DEF ControlOK, MemberOK, ResumePos, UnwindsMember, Terminal
  <1> QED
    BY <1>1, <1>2, <1>3, <1>4 DEF IInv

\* A failing step keeps the invariant.
LEMMA FailKeeps ==
    ASSUME IInv, Fail, UNCHANGED inputs
    PROVE  IInv'
  BY EndKeeps DEF IInv, TypeOK, DriverOK, Fail, Terminal

\* A return for more room (J2T_STORE) keeps the position of its iteration.
LEMMA ReturnKeeps ==
    ASSUME IInv, pc = "exec", vt # <<>>,
           NEW code \in {"buf", "bm", "key", "vmEnd"}, NEW v \in Nat, Return(code, v),
           Top.st \in {"VAL", "KEY", "OBJ_0"},
           Top.st = "VAL" /\ code # "vmEnd" => Ch # "null",
           code = "vmEnd" => Top.mod = "vm",
           UNCHANGED inputs,
           UNCHANGED <<vt, locals, closing, buf, bufCap, caches, idx, spoiled>>
    PROVE  IInv'
  <1>1. TypeOK'
    BY DEF IInv, TypeOK, InputsOK, LocalsOK, OutputOK, CachesOK, DriverOK, Return,
           inputs, locals, closing, caches, PCs, Codes
  <1>2. StackOK(vt)' /\ TopOK'
    BY DEF IInv, TopOK, InObject, Parent, Top, sp
  <1>3. ControlOK' /\ ResumePos'
    BY DEF IInv, Return, ControlOK, ResumePos, Terminal, Top, sp, locals
  <1>4. MemberOK'
    BY DEF Return, MemberOK, Top, sp, Ch, locals, inputs
  <1>5. UnwindsMember'
    BY DEF Return, UnwindsMember
  <1> QED
    BY <1>1, <1>2, <1>3, <1>4, <1>5 DEF IInv

\* null drops its value; the member it was the value of can be unwound.
LEMMA ValNullKeeps == ASSUME IInv, ValNull PROVE IInv'
  <1> USE DEF ValNull, InValue, In, Running
  <1>0. vt # <<>> /\ pc = "exec" /\ pc' = "exec" /\ vt' = Below
    OBVIOUS
  <1>1. TypeOK'
    BY <1>0, PopOK DEF IInv, TypeOK, InputsOK, LocalsOK, OutputOK, CachesOK, DriverOK,
           inputs, locals, closing, caches, PCs, Codes, Next1, Below, StackOK, sp
  <1>2. StackOK(vt)'
    BY <1>0, PopOK DEF IInv, Below, sp
  <1>3. TopOK'
    BY <1>0, PopOK DEF IInv, Below, sp, TopOK, Top
  <1>4. ControlOK' /\ ResumePos'
    BY <1>0, PopOK DEF IInv, Below, sp, Top, ControlOK, ResumePos, Terminal
  <1>5. MemberOK'
    BY <1>0, PopOK DEF IInv, Below, sp, Top, MemberOK
  <1>6. UnwindsMember'
    <2> SUFFICES ASSUME vt' # <<>>, Top'.st = "OBJ"
                 PROVE  UnwindsMember'
      BY DEF UnwindsMember
    <2>1. Top' = vt[sp - 1] /\ InObject
      BY <1>0, PopOK DEF IInv, Below, sp, Top, InObject
    <2>2. Top.mod \in {"none", "field"} /\ Top.st = "VAL"
      BY <1>0, TopFacts DEF Frame
    <2>3. Unwindable
      BY <1>0, <2>1, <2>2 DEF IInv, MemberOK
    <2>4. Parent = TypeDesc[Top'.td] /\ (Top.mod = "none" => Parent.kind = "map")
          /\ (Top.mod = "field" => Parent.kind = "struct" /\ Top.f \in Parent.fields)
      BY <1>0, <2>1, <2>2 DEF IInv, TopOK, Parent
    <2>5. buf' = buf /\ unwindPos' = unwindPos /\ lastField' = lastField
      OBVIOUS
    <2> QED
      BY <2>1, <2>2, <2>3, <2>4, <2>5 DEF UnwindsMember, Unwindable, Kind
  <1> QED
    BY <1>1, <1>2, <1>3, <1>4, <1>5, <1>6 DEF IInv

-----------------------------------------------------------------------------
(* Types of what the steps write *)

\* A write of cells that fits.
LEMMA EmitTypes ==
    ASSUME OutputOK, NEW cells \in Seq(CellSet), buf' = buf \o cells, bufCap' \in Nat
    PROVE  /\ OutputOK' /\ Len(buf) \in Nat /\ Len(buf') = Len(buf) + Len(cells)
           /\ Len(cells) \in Nat
           /\ \A i \in 1..Len(buf) : buf'[i] = buf[i]
           /\ \A i \in 1..Len(cells) : buf'[Len(buf) + i] = cells[i]
  BY ConcatProperties, LenProperties DEF OutputOK

\* What is written is a sequence of cells.
LEMMA OneCell ==
    ASSUME NEW c \in CellSet
    PROVE  <<c>> \in Seq(CellSet) /\ Len(<<c>>) = 1 /\ <<c>>[1] = c
  OBVIOUS

\* The same for a header and its value.
LEMMA TwoCells ==
    ASSUME NEW c \in CellSet, NEW d \in CellSet
    PROVE  <<c, d>> \in Seq(CellSet) /\ Len(<<c, d>>) = 2
  OBVIOUS

\* A cell that is written over keeps its kind.
LEMMA CellTypes ==
    ASSUME NEW c \in CellSet, NEW n \in Nat
    PROVE  Cell(c.k, n, "") \in CellSet
  BY InputAssumption DEF Cell, CellSet

\* Writing the size of a container keeps the output's type and length.
LEMMA SizedTypes ==
    ASSUME NEW b \in Seq(CellSet), NEW fr, fr.bp \in Nat, NEW n \in Nat
    PROVE  Sized(b, fr, n) \in Seq(CellSet) /\ Len(Sized(b, fr, n)) = Len(b)
  <1>1. Len(b) \in Nat /\ b \in [1..Len(b) -> CellSet]
    BY LenProperties
  <1>2. CASE fr.bp \in 1..Len(b)
    <2> DEFINE c == Cell(b[fr.bp].k, n, "")
    <2>1. b[fr.bp] \in CellSet
      BY <1>1, <1>2
    <2>2. c \in CellSet
      BY <2>1, CellTypes
    <2>3. Sized(b, fr, n) = [b EXCEPT ![fr.bp] = c]
      BY DEF Sized
    <2> HIDE DEF c
    <2> QED
      BY <1>2, <2>2, <2>3, ExceptSeq
  <1>3. CASE fr.bp \notin 1..Len(b)
    BY <1>1, <1>3 DEF Sized
  <1> QED
    BY <1>2, <1>3

\* bm_set_req stays inside the word of the bit.
LEMMA BmSetTypes ==
    ASSUME CachesOK, NEW fr, NEW id \in Nat, NEW req, words' = BmSet(fr, id, req)
    PROVE  words' \in Seq(Seq(SUBSET (0..(WordBits - 1)))) /\ words' # <<>>
  <1> DEFINE B == SUBSET (0..(WordBits - 1))
             w == WordOf(fr, id)
             new == IF req = "optional" THEN words[fr.gen][w] \ {id % WordBits}
                                        ELSE words[fr.gen][w] \cup {id % WordBits}
  <1>1. words \in Seq(Seq(B)) /\ Len(words) \in Nat \ {0} /\ words \in [1..Len(words) -> Seq(B)]
    BY LenProperties, EmptySeq DEF CachesOK
  <1>2. words' = [words EXCEPT ![fr.gen] = [words[fr.gen] EXCEPT ![w] = new]]
    BY DEF BmSet
  <1>3. id % WordBits \in 0..(WordBits - 1)
    BY BoundAssumption
  <1>4. CASE fr.gen \in 1..Len(words)
    <2>1. words[fr.gen] \in Seq(B)
      BY <1>1, <1>4
    <2>2. Len(words[fr.gen]) \in Nat /\ words[fr.gen] \in [1..Len(words[fr.gen]) -> B]
      BY <2>1, LenProperties
    <2>3. CASE w \in 1..Len(words[fr.gen])
      <3>1. words[fr.gen][w] \in B
        BY <2>2, <2>3
      <3>2. new \in B
        <4>1. new \subseteq words[fr.gen][w] \cup {id % WordBits}
          OBVIOUS
        <4> HIDE DEF new
        <4> QED
          BY <4>1, <3>1, <1>3
      <3> HIDE DEF new
      <3> DEFINE e == [words[fr.gen] EXCEPT ![w] = new]
      <3>3. e \in Seq(B) /\ words' = [words EXCEPT ![fr.gen] = e]
        BY <1>2, <2>1, <2>3, <3>2, ExceptSeq
      <3> HIDE DEF e, B
      <3>4. words' \in Seq(Seq(B)) /\ Len(words') = Len(words)
        BY <1>1, <1>4, <3>3, ExceptSeq
      <3> QED
        BY <1>1, <3>4, EmptySeq DEF B
    <2>4. CASE w \notin 1..Len(words[fr.gen])
      <3>1. [words[fr.gen] EXCEPT ![w] = new] = words[fr.gen]
        BY <2>2, <2>4
      <3>2. words' = [words EXCEPT ![fr.gen] = words[fr.gen]]
        BY <1>2, <3>1
      <3> HIDE DEF B, w, new
      <3>3. words' = words
        BY <1>1, <3>2
      <3> QED
        BY <3>3 DEF CachesOK
    <2> QED
      BY <2>3, <2>4
  <1>5. CASE fr.gen \notin 1..Len(words)
    <2>1. words' = words
      BY <1>1, <1>2, <1>5
    <2> QED
      BY <2>1 DEF CachesOK
  <1> QED
    BY <1>4, <1>5

-----------------------------------------------------------------------------
(* Steps that go on in the function *)

\* The types a step must keep besides the stack.
RestOK == InputsOK /\ LocalsOK /\ OutputOK /\ CachesOK /\ DriverOK

\* A value, an array or an object has been read: the state under it goes on.
LEMMA PopKeeps ==
    ASSUME IInv, vt # <<>>, vt' = Below, pc' = "exec",
           RestOK', ~nullVal', unwindPos' <= Len(buf')
    PROVE  IInv'
  <1>1. StackOK(vt)' /\ TopOK'
    BY PopOK DEF IInv, Below, sp, TopOK, Top
  <1>2. vt' # <<>> => Top'.st \in {"ARR", "OBJ"}
    BY PopOK DEF IInv, Below, sp, Top
  <1>3. TypeOK'
    BY <1>1 DEF TypeOK, RestOK, StackOK
  <1>4. ControlOK' /\ ResumePos' /\ UnwindsMember' /\ MemberOK'
    BY <1>2 DEF ControlOK, ResumePos, UnwindsMember, MemberOK, Terminal
  <1> QED
    BY <1>1, <1>3, <1>4 DEF IInv

\* A state has been pushed or replaced, with the position of the next token.
LEMMA MoveKeeps ==
    ASSUME StackOK(vt'), vt' # <<>>, pc' = "exec", RestOK', TopOK', MemberOK',
           Top'.jp = p', ~nullVal', unwindPos' <= Len(buf')
    PROVE  IInv'
  <1>1. TypeOK'
    BY DEF TypeOK, RestOK, StackOK
  <1>2. ControlOK' /\ ResumePos' /\ UnwindsMember'
    BY DEF ControlOK, ResumePos, UnwindsMember, Terminal
  <1> QED
    BY <1>1, <1>2 DEF IInv

-----------------------------------------------------------------------------
(* Values *)

\* In a state that is not waiting in a container no null is pending.
LEMMA NoNull ==
    ASSUME IInv, pc = "exec", vt # <<>>, Top.st \notin {"ARR", "OBJ"}
    PROVE  ~nullVal /\ unwindPos <= Len(buf) /\ unwindPos \in Nat
  BY DEF IInv, ControlOK, TypeOK, LocalsOK

\* A value is written whole and dropped, or not at all.
LEMMA WriteKeeps ==
    ASSUME IInv, pc = "exec", vt # <<>>, Top.st = "VAL", Ch # "null",
           NEW cells \in Seq(CellSet), WriteValue(cells, Next1), UNCHANGED inputs
    PROVE  IInv'
  <1>1. CASE OomBuf(Len(cells))
    BY <1>1, ReturnKeeps DEF OomBuf
  <1>2. CASE Emit(cells, Below, Next1) /\ KeepLocals /\ KeepRest /\ UNCHANGED caches
    <2>1. pc' = "exec" /\ vt' = Below /\ buf' = buf \o cells /\ p' = p + 1 /\ bufCap' = bufCap
      BY <1>2 DEF Emit, KeepRest, Next1
    <2>2. OutputOK' /\ Len(buf) <= Len(buf') /\ Len(buf) \in Nat /\ Len(buf') \in Nat
      BY <2>1, EmitTypes DEF IInv, TypeOK, OutputOK
    <2>3. RestOK'
      BY <1>2, <2>1, <2>2 DEF IInv, TypeOK, RestOK, InputsOK, LocalsOK, CachesOK, DriverOK,
           inputs, caches, closing, KeepLocals, KeepRest, Emit, PCs
    <2>4. ~nullVal' /\ unwindPos' <= Len(buf')
      BY <1>2, <2>2, NoNull DEF KeepLocals
    <2> QED
      BY <2>1, <2>3, <2>4, PopKeeps
  <1> QED
    BY <1>1, <1>2 DEF WriteValue

\* A scalar is written whole, or refused.
LEMMA ValScalarKeeps == ASSUME IInv, ValScalar PROVE IInv'
  <1> USE DEF ValScalar, InValue, In, Running
  <1>1. CASE Accepts(Kind, Tok)
    <2>1. Cell("val", 0, Tok.x) \in CellSet
      BY TokFacts DEF IInv, TypeOK, Cell, CellSet, Token
    <2>2. <<Cell("val", 0, Tok.x)>> \in Seq(CellSet)
      BY <2>1, OneCell
    <2> QED
      BY <1>1, <2>2, WriteKeeps
  <1>2. CASE ~Accepts(Kind, Tok)
    BY <1>2, FailKeeps
  <1> QED
    BY <1>1, <1>2

\* The cells of a js_conv field.
LEMMA JsConvTypes ==
    ASSUME NEW f \in FieldDesc, Tok \in Token
    PROVE  JsConvCells(f) \in Seq(CellSet)
  <1> DEFINE hd == Cell("field", f.id, "")
             v == Cell("val", 0, Tok.x)
             d == Cell("dflt", f.id, "")
             y == Cell("byte", 0, Tok.x)
  <1>1. hd \in CellSet /\ v \in CellSet /\ d \in CellSet /\ y \in CellSet
    BY InputAssumption DEF Cell, CellSet, Token, FieldDesc
  <1>2. JsConvCells(f) \in {<<hd, v>>, <<hd, d>>, <<hd, v, y>>}
    BY DEF JsConvCells
  <1> HIDE DEF hd, v, d, y
  <1>3. <<hd, v>> \in Seq(CellSet) /\ <<hd, d>> \in Seq(CellSet)
    BY <1>1
  <1>4. <<hd, v, y>> \in Seq(CellSet)
    BY <1>1
  <1> QED
    BY <1>2, <1>3, <1>4

\* A js_conv field writes its header and value at once.
LEMMA ValJsConvKeeps == ASSUME IInv, ValJsConv PROVE IInv'
  <1> USE DEF ValJsConv, In, Running
  <1>1. CASE JsConvOk(Top.f)
    <2>1. Ch \in {"num", "str"}
      BY <1>1 DEF JsConvOk
    <2>2. Tok \in Token /\ Top.f \in FieldDesc
      BY <2>1, TokFacts, TopFacts DEF IInv, TypeOK, FrameOK
    <2> QED
      BY <1>1, <2>1, <2>2, JsConvTypes, WriteKeeps
  <1>2. CASE ~JsConvOk(Top.f)
    BY <1>2, FailKeeps
  <1> QED
    BY <1>1, <1>2

\* A token that starts no value ends the call.
LEMMA ValBadKeeps == ASSUME IInv, ValBad PROVE IInv'
  BY FailKeeps DEF ValBad, InValue, In, Running

\* skip_one goes forward.
LEMMA SkipOneType ==
    ASSUME IInv
    PROVE  SkipOne \in Nat
  <1>1. SkipEnds \subseteq Nat
    <2>1. p \in Nat /\ Len(src) \in Nat
      BY LenProperties DEF IInv, TypeOK, LocalsOK, InputsOK
    <2> QED
      BY <2>1 DEF SkipEnds
  <1> QED
    BY <1>1 DEF SkipOne

\* A skipped value is read whole and its state dropped.
LEMMA ValSkipKeeps == ASSUME IInv, ValSkip PROVE IInv'
  <1> USE DEF ValSkip, In, Running
  <1>1. CASE SkipOne = 0
    BY <1>1, FailKeeps
  <1>2. CASE SkipOne # 0
    <2>1. RestOK'
      BY <1>2, SkipOneType DEF IInv, TypeOK, RestOK, InputsOK, LocalsOK, OutputOK, CachesOK,
           DriverOK, inputs, caches, closing, KeepLocals, KeepRest
    <2>2. ~nullVal' /\ unwindPos' <= Len(buf')
      BY <1>2, NoNull DEF KeepLocals
    <2> QED
      BY <1>2, <2>1, <2>2, PopKeeps
  <1> QED
    BY <1>1, <1>2

\* A value left to Go returns with its own code and its end.
LEMMA ValGoMappingKeeps == ASSUME IInv, ValGoMapping PROVE IInv'
  BY FailKeeps, ReturnKeeps, SkipOneType DEF ValGoMapping, In, Running

-----------------------------------------------------------------------------
(* Containers *)

\* The descriptor of a list or a map has an element.
LEMMA ElemType ==
    ASSUME NEW td \in Types, TypeDesc[td].kind \in {"list", "map"}
    PROVE  TypeDesc[td].elem \in Types /\ TypeDesc[td].elem # NoType
  BY DescAssumption DEF Desc

\* The value '[' or '{' of a container: its state takes the place of the value.
LEMMA OpenKeeps ==
    ASSUME IInv, vt # <<>>, NEW fr \in Frame, FrameOK(fr), fr.st \in {"ARR_0", "OBJ_0"},
           fr.jp = p', vt' = Push(Below, fr), pc' = "exec", RestOK',
           ~nullVal', unwindPos' <= Len(buf')
    PROVE  IInv'
  <1>1. /\ StackOK(Below)
        /\ Below # <<>> => Below[Len(Below)].st \in {"ARR", "OBJ"}
    BY PopOK DEF IInv, Below, sp
  <1>2. StackOK(vt') /\ vt' # <<>> /\ vt'[Len(vt')] = fr
    BY <1>1, PushOK
  <1>3. Top' = fr
    BY <1>2 DEF Top, sp
  <1>4. TopOK' /\ MemberOK'
    BY <1>3 DEF TopOK, MemberOK
  <1> QED
    BY <1>2, <1>3, <1>4, MoveKeeps

\* An open container gets its next element, or a struct its next key.
LEMMA ElementKeeps ==
    ASSUME IInv, vt # <<>>, NEW fr \in Frame, FrameOK(fr), NEW el \in Frame, FrameOK(el),
           \/ fr.st = "ARR" /\ el.st = "VAL"
           \/ fr.st = "OBJ" /\ el.st = "KEY" /\ el.td = fr.td,
           el.jp = p', vt' = Push(SetTop(fr), el), pc' = "exec", RestOK',
           ~nullVal', unwindPos' <= Len(buf')
    PROVE  IInv'
  <1> DEFINE s == SetTop(fr)
  <1>1. StackOK(s) /\ s # <<>> /\ s[Len(s)] = fr /\ Len(s) \in Nat \ {0}
    BY ReplaceOK DEF IInv, SetTop
  <1> HIDE DEF s
  <1>2. StackOK(vt') /\ vt' # <<>> /\ vt'[Len(vt')] = el /\ Len(vt') = Len(s) + 1
        /\ vt'[Len(s)] = fr
    BY <1>1, PushOK DEF s
  <1>3. Top' = el /\ sp' - 1 = Len(s) /\ vt'[sp' - 1] = fr /\ sp' > 1
    BY <1>1, <1>2 DEF Top, sp
  <1>4. TopOK' /\ MemberOK'
    BY <1>3 DEF TopOK, MemberOK, InObject
  <1> QED
    BY <1>2, <1>3, <1>4, MoveKeeps

\* [ opens a list.
LEMMA ValListKeeps == ASSUME IInv, ValList PROVE IInv'
  <1>0. pc = "exec" /\ vt # <<>> /\ Top.st = "VAL" /\ Ch # "null" /\ UNCHANGED inputs
    BY DEF ValList, InValue, In, Running
  <1>1. CASE Kind # "list"
    BY <1>0, <1>1, FailKeeps DEF ValList
  <1>2. CASE OomBuf(1)
    BY <1>0, <1>2, ReturnKeeps DEF OomBuf
  <1>3. CASE Kind = "list" /\ ~OomBuf(1)
    <2> DEFINE fr == [State("ARR_0", "none", Next1, Top.td) EXCEPT !.bp = Len(buf) + 1]
               cells == <<Cell("list", 0, "")>>
    <2>1. cells \in Seq(CellSet) /\ Len(cells) = 1
      BY InputAssumption, OneCell DEF Cell, CellSet
    <2>2. /\ pc' = "exec" /\ vt' = Push(Below, fr) /\ buf' = buf \o cells /\ p' = p + 1
          /\ Kind = "list" /\ KeepLocals /\ KeepRest /\ UNCHANGED <<ret, caches>>
      BY <1>0, <1>3 DEF ValList, Emit, Next1
    <2>3. fr \in Frame /\ FrameOK(fr) /\ fr.st = "ARR_0" /\ fr.jp = p'
      <3>1. Len(buf) \in Nat /\ Top.td \in Types \cup {NoType} /\ (Top.td = NoType => Top.mod = "skip")
        BY <1>0, TopFacts, LenProperties DEF IInv, TypeOK, OutputOK, Frame, FrameOK
      <3>2. Top.mod # "skip"
        BY DEF ValList, InValue
      <3>3. p + 1 \in Nat /\ Next1 = p + 1
        BY DEF IInv, TypeOK, LocalsOK, Next1
      <3>4. fr \in Frame
        BY <3>1, <3>3 DEF State, Frame
      <3>5. FrameOK(fr) /\ fr.jp = p'
        BY <2>2, <3>1, <3>2, <3>3 DEF State, FrameOK, Kind
      <3> QED
        BY <3>4, <3>5 DEF State
    <2> HIDE DEF cells, fr
    <2>4. OutputOK' /\ Len(buf) <= Len(buf') /\ Len(buf) \in Nat /\ Len(buf') \in Nat
      BY <2>1, <2>2, EmitTypes DEF IInv, TypeOK, OutputOK, KeepRest
    <2>5. RestOK'
      BY <1>0, <2>2, <2>4 DEF IInv, TypeOK, RestOK, InputsOK, LocalsOK, CachesOK, DriverOK,
           inputs, caches, closing, KeepLocals, KeepRest
    <2>6. ~nullVal' /\ unwindPos' <= Len(buf')
      BY <1>0, <2>2, <2>4, NoNull DEF KeepLocals
    <2> QED
      BY <1>0, <2>2, <2>3, <2>5, <2>6, OpenKeeps
  <1> QED
    BY <1>1, <1>2, <1>3

\* { opens a map.
LEMMA ValMapKeeps == ASSUME IInv, ValMap PROVE IInv'
  <1>0. pc = "exec" /\ vt # <<>> /\ Top.st = "VAL" /\ Ch # "null" /\ UNCHANGED inputs
    BY DEF ValMap, InValue, In, Running
  <1>2. CASE OomBuf(1)
    BY <1>0, <1>2, ReturnKeeps DEF OomBuf
  <1>3. CASE ~OomBuf(1)
    <2> DEFINE fr == [State("OBJ_0", "none", Next1, Top.td) EXCEPT !.bp = Len(buf) + 1]
               cells == <<Cell("map", 0, "")>>
    <2>1. cells \in Seq(CellSet) /\ Len(cells) = 1
      BY InputAssumption, OneCell DEF Cell, CellSet
    <2>2. /\ pc' = "exec" /\ vt' = Push(Below, fr) /\ buf' = buf \o cells /\ p' = p + 1
          /\ Kind = "map" /\ KeepLocals /\ KeepRest /\ UNCHANGED <<ret, caches>>
      BY <1>0, <1>3 DEF ValMap, Emit, Next1
    <2>3. fr \in Frame /\ FrameOK(fr) /\ fr.st = "OBJ_0" /\ fr.jp = p'
      <3>1. Len(buf) \in Nat /\ Top.td \in Types \cup {NoType} /\ (Top.td = NoType => Top.mod = "skip")
        BY <1>0, TopFacts, LenProperties DEF IInv, TypeOK, OutputOK, Frame, FrameOK
      <3>2. Top.mod # "skip"
        BY DEF ValMap, InValue
      <3>3. p + 1 \in Nat /\ Next1 = p + 1
        BY DEF IInv, TypeOK, LocalsOK, Next1
      <3>4. fr \in Frame
        BY <3>1, <3>3 DEF State, Frame
      <3>5. FrameOK(fr) /\ fr.jp = p'
        BY <2>2, <3>1, <3>2, <3>3 DEF State, FrameOK, Kind
      <3> QED
        BY <3>4, <3>5 DEF State
    <2> HIDE DEF cells, fr
    <2>4. OutputOK' /\ Len(buf) <= Len(buf') /\ Len(buf) \in Nat /\ Len(buf') \in Nat
      BY <2>1, <2>2, EmitTypes DEF IInv, TypeOK, OutputOK, KeepRest
    <2>5. RestOK'
      BY <1>0, <2>2, <2>4 DEF IInv, TypeOK, RestOK, InputsOK, LocalsOK, CachesOK, DriverOK,
           inputs, caches, closing, KeepLocals, KeepRest
    <2>6. ~nullVal' /\ unwindPos' <= Len(buf')
      BY <1>0, <2>2, <2>4, NoNull DEF KeepLocals
    <2> QED
      BY <1>0, <2>2, <2>3, <2>5, <2>6, OpenKeeps
  <1> QED
    BY <1>2, <1>3

\* bm_malloc_reqs copies the struct's bitmap into the cache.
LEMMA NewReqsTypes ==
    ASSUME IInv, Top.td \in Types, reqsLen >= 0
    PROVE  /\ Gen \in Nat \ {0}
           /\ [words EXCEPT ![Gen] = NewReqs] \in Seq(Seq(SUBSET (0..(WordBits - 1))))
           /\ [words EXCEPT ![Gen] = NewReqs] # <<>>
  <1> DEFINE B == SUBSET (0..(WordBits - 1))
             n == TypeDesc[Top.td].words
  <1>1. words \in Seq(Seq(B)) /\ Gen \in Nat \ {0} /\ reqsLen \in Nat /\ n \in Nat
    BY EmptySeq, LenProperties, DescAssumption DEF IInv, TypeOK, CachesOK, Gen, Desc
  <1>2. words[Gen] \in Seq(B)
    BY <1>1, ElementOfSeq DEF Gen
  <1>3. Len(words[Gen]) \in Nat /\ words[Gen] \in [1..Len(words[Gen]) -> B]
    BY <1>2, LenProperties
  <1>4. \A i \in 1..n : InitReqs(Top.td)[i] \in B
    <2>1. \A f \in TypeDesc[Top.td].fields : f.id % WordBits \in 0..(WordBits - 1)
      BY BoundAssumption, DescAssumption DEF Desc, FieldDesc
    <2> QED
      BY <2>1 DEF InitReqs
  <1> HIDE DEF B, n
  <1>5. NewReqs \in [1..Len(words[Gen]) -> B]
    <2>1. ASSUME NEW i \in 1..Len(words[Gen]), i \in (reqsLen + 1)..(reqsLen + n)
          PROVE  i - reqsLen \in 1..n
      BY <2>1, <1>1, <1>3
    <2> QED
      BY <1>3, <1>4, <2>1 DEF NewReqs, n
  <1> DEFINE r == NewReqs
  <1>6. r \in Seq(B)
    BY <1>3, <1>5, FunctionSeq
  <1> HIDE DEF r
  <1> DEFINE w == [words EXCEPT ![Gen] = r]
  <1>7. w \in Seq(Seq(B)) /\ Len(w) = Gen
    BY <1>1, <1>6, ExceptSeq DEF Gen
  <1>8. w # <<>>
    BY <1>1, <1>7, EmptySeq
  <1> QED
    BY <1>1, <1>7, <1>8 DEF B, r

\* The object of a struct: its slice of the requires cache is full, lost or cut
\* off, and a struct with HTTP-mapped fields returns at once.
LEMMA ValStructKeeps == ASSUME IInv, ValStruct PROVE IInv'
  <1> DEFINE d == TypeDesc[Top.td]
             fr == [State("OBJ_0", "none", Next1, Top.td)
                      EXCEPT !.gen = Gen, !.off = reqsLen, !.len = d.words]
  <1>0. /\ pc = "exec" /\ vt # <<>> /\ Top.st = "VAL" /\ Ch # "null" /\ UNCHANGED inputs
        /\ Top.mod # "skip" /\ Kind = "struct"
    BY DEF ValStruct, InValue, In, Running
  <1>1. Top.td \in Types /\ reqsLen \in Int /\ p + 1 \in Nat /\ p \in Nat /\ Next1 = p + 1
    BY <1>0, TopFacts DEF IInv, TypeOK, CachesOK, LocalsOK, Frame, FrameOK, Next1
  <1>2. CASE ReqsUndefined
    BY <1>0, <1>2, EndKeeps DEF ReqsUndefined, Terminal, IInv, TypeOK, DriverOK
  <1>3. CASE ReqsFull
    <2>1. TypeDesc[Top.td].words \in Nat
      BY <1>1, DescAssumption DEF Desc
    <2>2. Len(words[Gen]) \in Nat
      BY EmptySeq, ElementOfSeq, LenProperties DEF IInv, TypeOK, CachesOK, Gen
    <2>3. Lacking \in Nat
      BY <1>1, <1>3, <2>1, <2>2 DEF ReqsFull, Lacking
    <2> QED
      BY <1>0, <1>3, <2>3, ReturnKeeps DEF ReqsFull
  <1>4. CASE ReqsCut
    <2>1. /\ vt' = Push(Below, fr) /\ p' = p + 1 /\ reqsLen' = reqsLen + d.words
          /\ words' = [words EXCEPT ![Gen] = NewReqs] /\ reqsLen >= 0
          /\ KeepLocals /\ KeepRest /\ UNCHANGED <<buf, fieldCache, fieldCap, keyCap>>
          /\ (pc' = "go" /\ ret' = [code |-> "hm", v |-> p]) \/ UNCHANGED <<pc, ret>>
      BY <1>1, <1>4 DEF ReqsCut, Return
    <2>2. d.words \in Nat /\ Gen \in Nat
      BY <1>1, <2>1, DescAssumption, NewReqsTypes DEF Desc
    <2>3. fr \in Frame
      BY <1>1, <2>2 DEF State, Frame, Next1
    <2>4. FrameOK(fr) /\ fr.jp = p' /\ fr.st = "OBJ_0"
      BY <1>0, <1>1, <2>1, DescAssumption DEF State, FrameOK, Kind
    <2> HIDE DEF fr
    <2>5. CachesOK'
      <3>1. words' \in Seq(Seq(SUBSET (0..(WordBits - 1)))) /\ words' # <<>>
        BY <1>1, <2>1, NewReqsTypes
      <3>2. reqsLen' \in Int
        BY <1>1, <2>1, <2>2
      <3> QED
        BY <2>1, <3>1, <3>2 DEF CachesOK, IInv, TypeOK
    <2>6. RestOK'
      BY <1>0, <1>1, <2>1, <2>5 DEF IInv, TypeOK, RestOK, InputsOK, LocalsOK, OutputOK, DriverOK,
           inputs, closing, KeepLocals, KeepRest, PCs, Codes
    <2>7. ~nullVal' /\ unwindPos' <= Len(buf')
      BY <1>0, <2>1, NoNull DEF KeepLocals
    <2>8. CASE UNCHANGED <<pc, ret>>
      BY <1>0, <2>1, <2>3, <2>4, <2>6, <2>7, <2>8, OpenKeeps
    <2>9. CASE pc' = "go" /\ ret' = [code |-> "hm", v |-> p]
      <3>1. /\ StackOK(Below)
            /\ Below # <<>> => Below[Len(Below)].st \in {"ARR", "OBJ"}
        BY <1>0, PopOK DEF IInv, Below, sp
      <3>2. StackOK(vt') /\ vt' # <<>> /\ Top' = fr
        BY <2>1, <2>3, <2>4, <3>1, PushOK DEF Top, sp
      <3>3. TypeOK' /\ StackOK(vt)' /\ TopOK'
        BY <2>4, <2>6, <3>2 DEF TypeOK, RestOK, StackOK, TopOK
      <3>4. ControlOK' /\ MemberOK' /\ ResumePos' /\ UnwindsMember'
        BY <2>4, <2>9, <3>2 DEF ControlOK, MemberOK, ResumePos, UnwindsMember, Terminal
      <3> QED
        BY <3>3, <3>4 DEF IInv
    <2> QED
      BY <2>1, <2>8, <2>9
  <1> QED
    BY <1>2, <1>3, <1>4 DEF ValStruct

\* What a step that only moves the stack and the position keeps.
LEMMA RestKept ==
    ASSUME IInv, UNCHANGED inputs, p' \in Nat, nullVal' \in BOOLEAN,
           UNCHANGED <<unwindPos, lastField, closing, caches, bufCap, idx, spoiled, pc, ret>>,
           buf' \in Seq(CellSet)
    PROVE  RestOK'
  BY DEF IInv, TypeOK, RestOK, InputsOK, LocalsOK, OutputOK, CachesOK, DriverOK,
         inputs, closing, caches

\* The position and the next one.
LEMMA Positions ==
    ASSUME IInv
    PROVE  p \in Nat /\ Next1 \in Nat /\ Next1 = p + 1 /\ buf \in Seq(CellSet) /\ Len(buf) \in Nat
  BY LenProperties DEF IInv, TypeOK, LocalsOK, OutputOK, Next1

\* The number of elements of the top container.
LEMMA CountLastType ==
    ASSUME IInv, vt # <<>>
    PROVE  CountLast(Top) \in Nat
  BY TopFacts DEF CountLast, Frame

\* Where a null may be pending, the output still has the place to unwind to.
LEMMA UnwindInside ==
    ASSUME IInv, pc = "exec"
    PROVE  unwindPos \in Nat /\ unwindPos <= Len(buf) /\ nullVal \in BOOLEAN
  BY DEF IInv, ControlOK, TypeOK, LocalsOK

\* An empty list gets its size and is dropped.
LEMMA Arr0EndKeeps == ASSUME IInv, Arr0End PROVE IInv'
  <1>1. /\ pc = "exec" /\ vt # <<>> /\ Top.st = "ARR_0" /\ UNCHANGED inputs /\ pc' = "exec"
        /\ vt' = Below /\ p' = Next1 /\ buf' = Sized(buf, Top, 0)
        /\ KeepLocals /\ KeepRest /\ UNCHANGED <<pc, ret, caches>>
    BY DEF Arr0End, In, Running
  <1>2. buf' \in Seq(CellSet) /\ Len(buf') = Len(buf)
    BY <1>1, SizedTypes, TopFacts, Positions DEF Frame
  <1>3. ~nullVal' /\ unwindPos' <= Len(buf')
    BY <1>1, <1>2, NoNull DEF KeepLocals
  <1>4. RestOK'
    BY <1>1, <1>2, <1>3, RestKept, Positions, UnwindInside DEF KeepLocals, KeepRest
  <1> QED
    BY <1>1, <1>3, <1>4, PopKeeps

\* An element of a list.
LEMMA ValueFrame ==
    ASSUME NEW td \in Types, TypeDesc[td].kind = "list", NEW q \in Nat
    PROVE  LET el == State("VAL", "none", q, TypeDesc[td].elem)
           IN  el \in Frame /\ FrameOK(el) /\ el.st = "VAL" /\ el.jp = q
  BY ElemType DEF State, Frame, FrameOK

\* The first element of a list is expected where the list's state was.
LEMMA Arr0StartKeeps == ASSUME IInv, Arr0Start PROVE IInv'
  <1> DEFINE fr == [Top EXCEPT !.st = "ARR", !.size = 0]
             el == State("VAL", "none", p, TypeDesc[Top.td].elem)
  <1>1. /\ pc = "exec" /\ vt # <<>> /\ Top.st = "ARR_0" /\ UNCHANGED inputs /\ pc' = "exec"
        /\ vt' = Push(SetTop(fr), el) /\ p' = p /\ UNCHANGED buf
        /\ KeepLocals /\ KeepRest /\ UNCHANGED <<pc, ret, caches>>
    BY DEF Arr0Start, In, Running
  <1>2. Top.td \in Types /\ TypeDesc[Top.td].kind = "list"
    BY <1>1, TopFacts DEF Frame, FrameOK
  <1>3. fr \in Frame /\ FrameOK(fr) /\ fr.st = "ARR"
    BY <1>1, <1>2, TopFacts DEF Frame, FrameOK
  <1>4. el \in Frame /\ FrameOK(el) /\ el.st = "VAL" /\ el.jp = p'
    BY <1>1, <1>2, ValueFrame, Positions
  <1> HIDE DEF fr, el
  <1>5. ~nullVal' /\ unwindPos' <= Len(buf')
    BY <1>1, NoNull DEF KeepLocals
  <1>6. RestOK'
    BY <1>1, <1>5, RestKept, Positions, UnwindInside DEF KeepLocals, KeepRest
  <1> QED
    BY <1>1, <1>3, <1>4, <1>5, <1>6, ElementKeeps

\* A list ends: a last null is not counted.
LEMMA ArrEndKeeps == ASSUME IInv, ArrEnd PROVE IInv'
  <1>1. /\ pc = "exec" /\ vt # <<>> /\ Top.st = "ARR" /\ UNCHANGED inputs /\ pc' = "exec"
        /\ vt' = Below /\ p' = Next1 /\ buf' = Sized(buf, Top, CountLast(Top)) /\ ~nullVal'
        /\ nullVal' = FALSE
        /\ KeepRest /\ UNCHANGED <<pc, ret, unwindPos, lastField, caches>>
    BY DEF ArrEnd, In, Running
  <1>2. buf' \in Seq(CellSet) /\ Len(buf') = Len(buf)
    BY <1>1, SizedTypes, CountLastType, TopFacts, Positions DEF Frame
  <1>3. unwindPos' <= Len(buf')
    BY <1>1, <1>2, UnwindInside
  <1>4. RestOK'
    BY <1>1, <1>2, RestKept, Positions DEF KeepRest
  <1> QED
    BY <1>1, <1>3, <1>4, PopKeeps

\* The next element of a list: a null before it is not counted.
LEMMA ArrNextKeeps == ASSUME IInv, ArrNext PROVE IInv'
  <1> DEFINE fr == [Top EXCEPT !.size = CountLast(Top)]
             el == State("VAL", "none", Next1, TypeDesc[Top.td].elem)
  <1>1. /\ pc = "exec" /\ vt # <<>> /\ Top.st = "ARR" /\ UNCHANGED inputs /\ pc' = "exec"
        /\ vt' = Push(SetTop(fr), el) /\ p' = Next1 /\ UNCHANGED buf /\ nullVal' = FALSE
        /\ KeepRest /\ UNCHANGED <<pc, ret, unwindPos, lastField, caches>>
    BY DEF ArrNext, In, Running
  <1>2. Top.td \in Types /\ TypeDesc[Top.td].kind = "list"
    BY <1>1, TopFacts DEF Frame, FrameOK
  <1>3. fr \in Frame /\ FrameOK(fr) /\ fr.st = "ARR"
    BY <1>1, <1>2, TopFacts, CountLastType DEF Frame, FrameOK
  <1>4. el \in Frame /\ FrameOK(el) /\ el.st = "VAL" /\ el.jp = p'
    BY <1>1, <1>2, ValueFrame, Positions
  <1> HIDE DEF fr, el
  <1>5. unwindPos' <= Len(buf')
    BY <1>1, UnwindInside
  <1>6. RestOK'
    BY <1>1, RestKept, Positions DEF KeepRest
  <1> QED
    BY <1>1, <1>3, <1>4, <1>5, <1>6, ElementKeeps

\* A list must go on or end.
LEMMA ArrBadKeeps == ASSUME IInv, ArrBad PROVE IInv'
  BY FailKeeps DEF ArrBad, In, Running

-----------------------------------------------------------------------------
(* Keys *)

\* The object a key belongs to.
LEMMA ObjectFacts ==
    ASSUME IInv, AtKey
    PROVE  /\ pc = "exec" /\ vt # <<>> /\ Ch = "str" /\ UNCHANGED inputs
           /\ Top.st \in {"OBJ_0", "KEY"}
           /\ Object \in Frame /\ FrameOK(Object)
           /\ Object.td \in Types /\ TypeDesc[Object.td].kind \in {"map", "struct"}
  <1>1. /\ pc = "exec" /\ vt # <<>> /\ Ch = "str" /\ UNCHANGED inputs
        /\ Top.st \in {"OBJ_0", "KEY"}
    BY DEF AtKey, In, Running
  <1>2. CASE Top.st = "OBJ_0"
    BY <1>1, <1>2, TopFacts DEF Object, Obj0, Frame, FrameOK
  <1>3. CASE Top.st = "KEY"
    <2>1. Object = vt[sp - 1] /\ Object \in Frame /\ FrameOK(Object)
          /\ Object.st = "OBJ"
      BY <1>1, <1>3, TopFacts DEF Object, Obj0, IInv, TopOK, InObject
    <2> QED
      BY <1>1, <2>1 DEF Frame, FrameOK
  <1> QED
    BY <1>1, <1>2, <1>3

\* The key's state takes its place over the object.
LEMMA WithElemOK ==
    ASSUME IInv, AtKey, NEW el \in Frame, FrameOK(el), el.st = "ELEM",
           NEW a, a = WithElem(el)
    PROVE  /\ StackOK(a) /\ a # <<>> /\ Len(a) \in Nat /\ Len(a) > 1
           /\ a[Len(a)] = el
           /\ a[Len(a) - 1].st = "OBJ" /\ a[Len(a) - 1].td = Object.td
  <1>0. vt # <<>> /\ StackOK(vt) /\ Top \in Frame /\ FrameOK(Top)
    BY ObjectFacts, TopFacts DEF IInv
  <1>1. CASE Top.st = "OBJ_0"
    <2> DEFINE fr == [Top EXCEPT !.st = "OBJ"]
               s == SetTop(fr)
    <2>1. fr \in Frame /\ FrameOK(fr) /\ fr.st = "OBJ" /\ fr.td = Object.td
      BY <1>0, <1>1 DEF Frame, FrameOK, Object, Obj0
    <2> HIDE DEF fr
    <2>2. StackOK(s) /\ s # <<>> /\ s[Len(s)] = fr /\ Len(s) \in Nat \ {0}
      BY <1>0, <2>1, ReplaceOK DEF SetTop
    <2>3. a = Push(s, el)
      BY <1>1 DEF WithElem, Obj0, fr
    <2> HIDE DEF s
    <2>4. StackOK(a) /\ a # <<>> /\ a[Len(a)] = el /\ Len(a) = Len(s) + 1 /\ a[Len(s)] = fr
      BY <2>1, <2>2, <2>3, PushOK
    <2> QED
      BY <2>1, <2>2, <2>4
  <1>2. CASE Top.st # "OBJ_0"
    <2>1. Top.st = "KEY" /\ sp > 1 /\ vt[sp - 1].st = "OBJ" /\ Object = vt[sp - 1]
      BY <1>0, <1>2, ObjectFacts DEF IInv, TopOK, InObject, Object, Obj0
    <2>2. a = SetTop(el)
      BY <1>2 DEF WithElem, Obj0
    <2>3. StackOK(a) /\ a # <<>> /\ Len(a) = Len(vt) /\ Len(vt) \in Nat \ {0} /\ a[Len(a)] = el
      BY <1>0, <2>2, ReplaceOK DEF SetTop
    <2>4. \A i \in 1..(Len(vt) - 1) : a[i] = vt[i]
      BY <1>0, <2>2, ReplaceOK DEF SetTop
    <2> QED
      BY <2>1, <2>3, <2>4 DEF sp
  <1> QED
    BY <1>1, <1>2

\* A key has been read: the position goes on to the colon.
LEMMA KeyKeeps ==
    ASSUME IInv, AtKey, NEW el \in Frame, FrameOK(el), el.st = "ELEM", el.jp = p',
           vt' = WithElem(el), pc' = "exec", RestOK', ~nullVal', unwindPos' <= Len(buf'),
           el.mod = "none" => TypeDesc[Object.td].kind = "map",
           el.mod = "field" => /\ TypeDesc[Object.td].kind = "struct"
                               /\ el.f \in TypeDesc[Object.td].fields,
           el.mod \in {"none", "field"} =>
              /\ buf' # <<>> /\ unwindPos' = Len(buf') - 1
              /\ el.mod = "field" => lastField' = el.f /\ buf'[Len(buf')] = Cell("field", el.f.id, "")
              /\ el.mod = "none" => buf'[Len(buf')].k = "key"
    PROVE  IInv'
  <1>1. /\ StackOK(vt') /\ vt' # <<>> /\ Top' = el /\ sp' > 1
        /\ vt'[sp' - 1].st = "OBJ" /\ vt'[sp' - 1].td = Object.td
    BY WithElemOK DEF Top, sp
  <1>2. TopOK'
    BY <1>1 DEF TopOK, InObject, Parent
  <1>3. MemberOK'
    BY <1>1 DEF MemberOK, Unwindable
  <1> QED
    BY <1>1, <1>2, <1>3, MoveKeeps

\* An escaped key that the key cache cannot hold returns to Go.
LEMMA KeyOomKeeps == ASSUME IInv, KeyOom PROVE IInv'
  <1>1. KeyLen - keyCap \in Nat
    <2>1. KeyLen \in Nat /\ keyCap \in Nat /\ KeyLen > keyCap
      BY BoundAssumption DEF KeyOom, KeyFits, IInv, TypeOK, CachesOK
    <2> QED
      BY <2>1
  <1> QED
    BY <1>1, ObjectFacts, ReturnKeeps DEF KeyOom

\* After the last key of the text is read, what a written header leaves.
LEMMA HeaderTypes ==
    ASSUME IInv, pc = "exec", vt # <<>>, Top.st \in {"OBJ_0", "KEY"}, NEW c \in CellSet,
           NEW s, Emit(<<c>>, s, Next1), bufCap' = bufCap
    PROVE  /\ OutputOK' /\ vt' = s /\ p' = p + 1 /\ pc' = "exec" /\ UNCHANGED ret
           /\ buf' # <<>> /\ Len(buf') - 1 = Len(buf) /\ buf'[Len(buf')] = c
           /\ Len(buf) \in Nat
  <1> DEFINE cells == <<c>>
  <1>1. cells \in Seq(CellSet) /\ Len(cells) = 1 /\ cells[1] = c
    BY OneCell
  <1>2. buf' = buf \o cells /\ vt' = s /\ p' = p + 1 /\ pc' = "exec" /\ UNCHANGED ret
    BY DEF Emit, Next1
  <1> HIDE DEF cells
  <1>5. OutputOK /\ bufCap' \in Nat /\ 1 \in 1..Len(cells)
    BY <1>1 DEF IInv, TypeOK, OutputOK
  <1>3. OutputOK' /\ Len(buf') = Len(buf) + 1 /\ Len(buf) \in Nat
        /\ buf'[Len(buf) + 1] = c
    BY <1>1, <1>2, <1>5, EmitTypes
  <1>4. buf' # <<>>
    BY <1>3, EmptySeq
  <1> QED
    BY <1>2, <1>3, <1>4

\* The state of a member, and of one that is skipped.
LEMMA ElemFrame ==
    ASSUME NEW mod \in {"none", "skip"}, NEW q \in Nat, NEW td \in Types \cup {NoType},
           td = NoType => mod = "skip"
    PROVE  /\ State("ELEM", mod, q, td) \in Frame
           /\ FrameOK(State("ELEM", mod, q, td))
  BY DEF State, Frame, FrameOK

\* The state of a field.
LEMMA FieldFrame ==
    ASSUME IInv, NEW mod \in {"vm", "field"}, NEW f \in FieldDesc,
           NEW el, el = FieldElem(mod, f)
    PROVE  /\ el \in Frame /\ FrameOK(el) /\ el.st = "ELEM" /\ el.mod = mod
           /\ el.jp = Next1 /\ el.f = f
  <1>1. f.type \in Types /\ f.type # NoType
    BY DescAssumption DEF FieldDesc
  <1> QED
    BY <1>1, Positions DEF FieldElem, State, Frame, FrameOK

\* A map key is written, and is where a null value would unwind to.
LEMMA KeyMapKeeps == ASSUME IInv, KeyMap PROVE IInv'
  <1> DEFINE ok == TypeDesc[Object.td].key = "str" \/ Tok.qn
             el == State("ELEM", "none", Next1, TypeDesc[Object.td].elem)
             c == Cell("key", 0, Tok.x)
  <1>0. AtKey /\ TypeDesc[Object.td].kind = "map"
    BY DEF KeyMap
  <1>1. CASE ~ok
    BY <1>1, FailKeeps, ObjectFacts DEF KeyMap
  <1>2. CASE OomBuf(1)
    BY <1>0, <1>2, ObjectFacts, ReturnKeeps DEF OomBuf
  <1>3. CASE ok /\ ~OomBuf(1)
    <2>1. /\ Emit(<<c>>, WithElem(el), Next1) /\ unwindPos' = Len(buf)
          /\ UNCHANGED <<nullVal, lastField, caches>> /\ KeepRest
      BY <1>3 DEF KeyMap, HeaderPos
    <2>2. c \in CellSet /\ c.k = "key"
      BY <1>0, ObjectFacts, TokFacts DEF Cell, CellSet, Token, IInv, TypeOK
    <2>3. el \in Frame /\ FrameOK(el) /\ el.st = "ELEM" /\ el.mod = "none" /\ el.jp = Next1
      BY <1>0, ObjectFacts, ElemType, ElemFrame, Positions DEF State
    <2> HIDE DEF c, el
    <2>4. /\ OutputOK' /\ vt' = WithElem(el) /\ p' = p + 1 /\ pc' = "exec" /\ UNCHANGED ret
          /\ buf' # <<>> /\ Len(buf') - 1 = Len(buf) /\ buf'[Len(buf')] = c
          /\ Len(buf) \in Nat /\ buf' \in Seq(CellSet) /\ Len(buf') \in Nat
      BY <1>0, <2>1, <2>2, ObjectFacts, HeaderTypes, LenProperties DEF KeepRest, OutputOK
    <2>5. ~nullVal' /\ nullVal \in BOOLEAN /\ unwindPos' <= Len(buf') /\ unwindPos' \in Nat
          /\ unwindPos' = Len(buf') - 1 /\ el.jp = p'
      BY <1>0, <2>1, <2>3, <2>4, ObjectFacts, NoNull, UnwindInside, Positions
    <2>6. RestOK'
      BY <1>0, <2>1, <2>4, <2>5, ObjectFacts, Positions
         DEF IInv, TypeOK, RestOK, InputsOK, LocalsOK, CachesOK, DriverOK, PCs,
             inputs, closing, caches, KeepRest
    <2> QED
      BY <1>0, <2>2, <2>3, <2>4, <2>5, <2>6, KeyKeeps
  <1> QED
    BY <1>1, <1>2, <1>3

\* A member that is skipped.
LEMMA SkipElemKeeps ==
    ASSUME IInv, AtKey, NEW td \in Types \cup {NoType}, SkipElem(td)
    PROVE  IInv'
  <1> DEFINE el == State("ELEM", "skip", Next1, td)
  <1>1. /\ vt' = WithElem(el) /\ p' = Next1 /\ pc' = "exec"
        /\ KeepLocals /\ KeepRest /\ UNCHANGED <<pc, ret, buf, caches>>
    BY ObjectFacts DEF SkipElem
  <1>2. el \in Frame /\ FrameOK(el) /\ el.st = "ELEM" /\ el.mod = "skip" /\ el.jp = p'
    BY <1>1, ElemFrame, Positions DEF State
  <1> HIDE DEF el
  <1>3. ~nullVal' /\ unwindPos' <= Len(buf')
    BY <1>1, ObjectFacts, NoNull DEF KeepLocals
  <1>4. RestOK'
    BY <1>1, <1>3, RestKept, Positions, UnwindInside, ObjectFacts DEF KeepLocals, KeepRest
  <1> QED
    BY <1>1, <1>2, <1>3, <1>4, KeyKeeps

\* An unknown field is skipped, or refused.
LEMMA KeyUnknownKeeps == ASSUME IInv, KeyUnknown PROVE IInv'
  BY SkipElemKeeps, FailKeeps, ObjectFacts DEF KeyUnknown, StructKey

\* A field of the struct: mapped by Go, or with its header written.
LEMMA KeyKnownKeeps == ASSUME IInv, KeyKnown PROVE IInv'
  <1>0. StructKey /\ AtKey /\ TypeDesc[Object.td].kind = "struct"
    BY DEF KeyKnown, StructKey
  <1> SUFFICES ASSUME NEW f \in Found, KeyField(f) PROVE IInv'
    BY DEF KeyKnown
  <1>1. f \in TypeDesc[Object.td].fields /\ f \in FieldDesc /\ f.type \in Types /\ f.id \in Nat
    BY ObjectFacts, <1>0, DescAssumption DEF Found, FieldByName, Desc, FieldDesc
  <1> DEFINE mapped == FieldElem("vm", f)
             field == FieldElem("field", f)
             c == Cell("field", f.id, "")
  <1>2. CASE SkipElem(NoType) \/ SkipElem(f.type)
    BY <1>0, <1>1, <1>2, SkipElemKeeps
  <1>3. CASE /\ vt' = WithElem(mapped) /\ p' = Next1
             /\ words' = BmSet(Object, f.id, "optional")
             /\ KeepLocals /\ KeepRest
             /\ UNCHANGED <<pc, ret, buf, reqsLen, fieldCache, fieldCap, keyCap>>
    <2>1. mapped \in Frame /\ FrameOK(mapped) /\ mapped.st = "ELEM" /\ mapped.mod = "vm"
          /\ mapped.jp = p'
      BY <1>1, <1>3, FieldFrame, Positions
    <2> HIDE DEF mapped
    <2>2. words' \in Seq(Seq(SUBSET (0..(WordBits - 1)))) /\ words' # <<>>
      BY <1>1, <1>3, BmSetTypes DEF IInv, TypeOK
    <2>3. ~nullVal' /\ unwindPos' <= Len(buf') /\ pc' = "exec"
      BY <1>0, <1>3, ObjectFacts, NoNull DEF KeepLocals
    <2>4. RestOK'
      BY <1>0, <1>3, <2>2, ObjectFacts, Positions
         DEF IInv, TypeOK, RestOK, InputsOK, LocalsOK, OutputOK, CachesOK, DriverOK,
             inputs, closing, KeepLocals, KeepRest
    <2> QED
      BY <1>0, <1>3, <2>1, <2>3, <2>4, KeyKeeps
  <1>4. CASE OomBuf(1)
    BY <1>0, <1>4, ObjectFacts, ReturnKeeps DEF OomBuf
  <1>5. CASE /\ Emit(<<c>>, WithElem(field), Next1)
             /\ unwindPos' = HeaderPos /\ lastField' = f
             /\ words' = BmSet(Object, f.id, "optional")
             /\ UNCHANGED <<nullVal, reqsLen, fieldCache, fieldCap, keyCap>> /\ KeepRest
    <2>1. field \in Frame /\ FrameOK(field) /\ field.st = "ELEM" /\ field.mod = "field"
          /\ field.jp = Next1 /\ field.f = f
      BY <1>1, FieldFrame, Positions
    <2>2. c \in CellSet
      BY <1>1, InputAssumption DEF Cell, CellSet
    <2> HIDE DEF c, field
    <2>3. words' \in Seq(Seq(SUBSET (0..(WordBits - 1)))) /\ words' # <<>>
      BY <1>1, <1>5, BmSetTypes DEF IInv, TypeOK
    <2>4. /\ OutputOK' /\ vt' = WithElem(field) /\ p' = p + 1 /\ pc' = "exec" /\ UNCHANGED ret
          /\ buf' # <<>> /\ Len(buf') - 1 = Len(buf) /\ buf'[Len(buf')] = c
          /\ Len(buf) \in Nat /\ buf' \in Seq(CellSet) /\ Len(buf') \in Nat
      BY <1>0, <1>5, <2>2, ObjectFacts, HeaderTypes, LenProperties DEF KeepRest, OutputOK
    <2>5. ~nullVal' /\ nullVal \in BOOLEAN /\ unwindPos' <= Len(buf') /\ unwindPos' \in Nat
          /\ unwindPos' = Len(buf') - 1 /\ field.jp = p'
      BY <1>0, <1>5, <2>1, <2>4, ObjectFacts, NoNull, UnwindInside, Positions DEF HeaderPos
    <2>6. RestOK'
      BY <1>0, <1>1, <1>5, <2>3, <2>4, <2>5, ObjectFacts, Positions
         DEF IInv, TypeOK, RestOK, InputsOK, LocalsOK, CachesOK, DriverOK, PCs,
             inputs, closing, KeepRest
    <2> QED
      BY <1>0, <1>1, <1>5, <2>1, <2>4, <2>5, <2>6, KeyKeeps DEF c
  <1> QED
    BY <1>2, <1>3, <1>4, <1>5 DEF KeyField

\* An object must go on with a key, a comma or its end.
LEMMA KeyBadKeeps == ASSUME IInv, KeyBad \/ Obj0Bad \/ ObjBad PROVE IInv'
  BY FailKeeps DEF KeyBad, Obj0Bad, ObjBad, In, Running

\* After the colon the member's value is expected, and can be unwound.
LEMMA ElemColonKeeps == ASSUME IInv, ElemColon PROVE IInv'
  <1>0. pc = "exec" /\ vt # <<>> /\ Top.st = "ELEM" /\ UNCHANGED inputs
    BY DEF ElemColon, In, Running
  <1>1. CASE Ch # ":"
    BY <1>0, <1>1, FailKeeps DEF ElemColon
  <1>2. CASE Ch = ":"
    <2> DEFINE fr == [Top EXCEPT !.st = "VAL", !.jp = Next1]
    <2>1. /\ vt' = SetTop(fr) /\ p' = Next1 /\ pc' = "exec"
          /\ KeepLocals /\ KeepRest /\ UNCHANGED <<pc, ret, buf, caches>>
      BY <1>0, <1>2 DEF ElemColon
    <2>2. fr \in Frame
      BY <1>0, TopFacts, Positions DEF Frame
    <2>3. FrameOK(fr)
      BY <1>0, TopFacts DEF Frame, FrameOK
    <2>4. fr.st = "VAL" /\ fr.jp = p' /\ fr.mod = Top.mod /\ fr.f = Top.f
      BY <1>0, <2>1, TopFacts DEF Frame
    <2> HIDE DEF fr
    <2>5. /\ StackOK(vt') /\ vt' # <<>> /\ Top' = fr /\ sp' = sp
          /\ \A i \in 1..(sp - 1) : vt'[i] = vt[i]
      BY <1>0, <2>1, <2>2, <2>3, ReplaceOK DEF SetTop, IInv, Top, sp
    <2>6. InObject /\ vt'[sp' - 1] = vt[sp - 1] /\ sp \in Nat
      <3>1. InObject
        BY <1>0 DEF IInv, TopOK
      <3> QED
        BY <1>0, <2>5, <3>1, TopFacts DEF InObject
    <2>7. TopOK'
      BY <1>0, <2>4, <2>5, <2>6 DEF IInv, TopOK, InObject, Parent
    <2>8. MemberOK'
      BY <1>0, <2>1, <2>4, <2>5, <2>6 DEF IInv, MemberOK, Unwindable, KeepLocals
    <2>9. ~nullVal' /\ unwindPos' <= Len(buf')
      BY <1>0, <2>1, NoNull DEF KeepLocals
    <2>10. RestOK'
      BY <1>0, <2>1, RestKept, Positions, UnwindInside DEF KeepLocals, KeepRest
    <2> QED
      BY <2>1, <2>4, <2>5, <2>7, <2>8, <2>9, <2>10, MoveKeeps
  <1> QED
    BY <1>1, <1>2

-----------------------------------------------------------------------------
(* The end of a member and of an object *)

\* Cutting off the header or the key of a null member.
LEMMA UnwoundTypes ==
    ASSUME IInv, pc = "exec"
    PROVE  Unwound \in Seq(CellSet) /\ unwindPos <= Len(Unwound) /\ Len(Unwound) \in Nat
           /\ Len(Unwound) <= Len(buf)
  <1>1. unwindPos \in Nat /\ unwindPos <= Len(buf) /\ Len(buf) \in Nat /\ buf \in Seq(CellSet)
    BY UnwindInside, Positions
  <1>2. \A i \in 1..unwindPos : buf[i] \in CellSet
    BY <1>1, ElementOfSeq
  <1> DEFINE b == [i \in 1..unwindPos |-> buf[i]]
  <1>3. b \in Seq(CellSet) /\ Len(b) = unwindPos
    BY <1>1, <1>2, FunctionSeq
  <1> QED
    BY <1>1, <1>3 DEF Unwound

\* A null member of a struct has a known field, whose bit goes back.
LEMMA ResetTypes ==
    ASSUME IInv, pc = "exec", vt # <<>>, Top.st = "OBJ", Kind = "struct", words' = Reset(Top)
    PROVE  words' \in Seq(Seq(SUBSET (0..(WordBits - 1)))) /\ words' # <<>>
  <1>1. CASE nullVal
    <2>1. lastField \in TypeDesc[Top.td].fields
      BY <1>1 DEF IInv, UnwindsMember, Kind
    <2>2. Top.td \in Types
      BY TopFacts DEF Frame, FrameOK
    <2>3. lastField.id \in Nat
      BY <2>1, <2>2, DescAssumption DEF Desc, FieldDesc
    <2> QED
      BY <1>1, <2>3, BmSetTypes DEF Reset, IInv, TypeOK
  <1>2. CASE ~nullVal
    BY <1>2 DEF Reset, IInv, TypeOK, CachesOK
  <1> QED
    BY <1>1, <1>2

\* A comma: a null member is cut off and its field missing again.
LEMMA ObjNextKeeps == ASSUME IInv, ObjNext PROVE IInv'
  <1> DEFINE fr == IF Kind = "map" THEN [Top EXCEPT !.size = CountLast(Top)] ELSE Top
             el == State("KEY", "none", Next1, Top.td)
  <1>1. /\ pc = "exec" /\ vt # <<>> /\ Top.st = "OBJ" /\ UNCHANGED inputs /\ pc' = "exec"
        /\ p' = Next1 /\ buf' = Unwound /\ nullVal' = FALSE
        /\ words' = (IF Kind = "struct" THEN Reset(Top) ELSE words)
        /\ KeepRest /\ UNCHANGED <<pc, ret, unwindPos, lastField, reqsLen, fieldCache,
                                   fieldCap, keyCap>>
    BY DEF ObjNext, In, Running
  <1>2. Top.td \in Types /\ Kind \in {"map", "struct"} /\ Top \in Frame /\ FrameOK(Top)
    BY <1>1, TopFacts DEF Frame, FrameOK, Kind
  <1>3. fr \in Frame /\ fr.st = "OBJ" /\ fr.td = Top.td
    BY <1>1, <1>2, CountLastType DEF Frame
  <1>4. FrameOK(fr)
    BY <1>2, <1>3 DEF FrameOK
  <1>5. el \in Frame /\ FrameOK(el) /\ el.st = "KEY" /\ el.jp = p' /\ el.td = Top.td
    BY <1>1, <1>2, Positions, DescAssumption DEF State, Frame, FrameOK, Kind
  <1>6. vt' = Push(SetTop(fr), el)
    <2>1. CASE Kind = "map"
      BY <2>1 DEF ObjNext
    <2>2. CASE Kind # "map"
      <3>1. vt \in Seq(Frame) /\ Len(vt) \in Nat \ {0}
        BY <1>1, EmptySeq DEF IInv, TypeOK
      <3>2. SetTop(Top) = vt
        BY <3>1 DEF SetTop, Replace, Top, sp
      <3> QED
        BY <2>2, <3>2 DEF ObjNext
    <2> QED
      BY <2>1, <2>2
  <1> HIDE DEF fr, el
  <1>7. words' \in Seq(Seq(SUBSET (0..(WordBits - 1)))) /\ words' # <<>>
    BY <1>1, ResetTypes DEF IInv, TypeOK, CachesOK
  <1>8. buf' \in Seq(CellSet) /\ unwindPos' <= Len(buf')
    BY <1>1, UnwoundTypes
  <1>9. RestOK'
    BY <1>1, <1>7, <1>8, Positions
       DEF IInv, TypeOK, RestOK, InputsOK, LocalsOK, OutputOK, CachesOK, DriverOK,
           inputs, closing, KeepRest
  <1> QED
    BY <1>1, <1>3, <1>4, <1>5, <1>6, <1>8, <1>9, ElementKeeps

\* The states an object may be closed in.
LEMMA EndFacts ==
    ASSUME IInv, AtEnd
    PROVE  /\ pc = "exec" /\ vt # <<>> /\ UNCHANGED inputs
           /\ Top.st \in {"OBJ_0", "OBJ"}
           /\ Obj0 => ~nullVal /\ Top.jp = p
           /\ Top \in Frame /\ FrameOK(Top) /\ Top.td \in Types
  <1>1. /\ pc = "exec" /\ vt # <<>> /\ UNCHANGED inputs
        /\ Top.st \in {"OBJ_0", "OBJ"}
    BY DEF AtEnd, In, Running
  <1>2. Obj0 => ~nullVal /\ Top.jp = p
    BY <1>1 DEF Obj0, IInv, ControlOK, ResumePos
  <1>3. Top \in Frame /\ FrameOK(Top) /\ Top.td \in Types
    BY <1>1, TopFacts DEF Frame, FrameOK
  <1> QED
    BY <1>1, <1>2, <1>3

\* A map ends: a last null member is cut off and not counted.
LEMMA MapEndKeeps == ASSUME IInv, MapEnd PROVE IInv'
  <1>1. /\ AtEnd /\ vt' = Below /\ p' = Next1
        /\ buf' = IF Obj0 THEN Sized(buf, Top, 0) ELSE Sized(Unwound, Top, CountLast(Top))
        /\ nullVal' = IF Obj0 THEN nullVal ELSE FALSE
        /\ KeepRest /\ UNCHANGED <<pc, ret, unwindPos, lastField, caches>>
    BY DEF MapEnd
  <1>2. buf' \in Seq(CellSet) /\ unwindPos' <= Len(buf')
    <2>1. CASE Obj0
      <3>1. buf' \in Seq(CellSet) /\ Len(buf') = Len(buf)
        BY <1>1, <2>1, EndFacts, SizedTypes, Positions DEF Frame
      <3> QED
        BY <1>1, <3>1, EndFacts, UnwindInside
    <2>2. CASE ~Obj0
      <3>1. Top.bp \in Nat /\ CountLast(Top) \in Nat
        BY <1>1, EndFacts, CountLastType DEF Frame
      <3>2. Unwound \in Seq(CellSet) /\ unwindPos <= Len(Unwound)
        BY <1>1, EndFacts, UnwoundTypes
      <3>3. buf' \in Seq(CellSet) /\ Len(buf') = Len(Unwound)
        BY <1>1, <2>2, <3>1, <3>2, SizedTypes
      <3> QED
        BY <1>1, <3>2, <3>3
    <2> QED
      BY <2>1, <2>2
  <1>3. ~nullVal' /\ nullVal' \in BOOLEAN
    <2>1. nullVal \in BOOLEAN /\ (Obj0 => nullVal = FALSE)
      BY <1>1, EndFacts, UnwindInside
    <2>2. nullVal' = FALSE
      BY <1>1, <2>1
    <2> QED
      BY <2>2
  <1>4. RestOK'
    BY <1>1, <1>2, <1>3, EndFacts, RestKept, Positions DEF KeepRest
  <1> QED
    BY <1>1, <1>2, <1>3, <1>4, EndFacts, PopKeeps

\* A struct begins to close: a last null member is cut off first.
LEMMA StructEndKeeps == ASSUME IInv, StructEnd PROVE IInv'
  <1>1. /\ AtEnd /\ Kind = "struct" /\ vt' = vt /\ p' = Next1 /\ pc' = "unset"
        /\ saved' = buf /\ cut' = (nullVal /\ ~Obj0) /\ bit' = 0 /\ shift' = 0
        /\ buf' = IF Obj0 THEN buf ELSE Unwound
        /\ words' = IF Obj0 THEN words ELSE Reset(Top)
        /\ nullVal' = IF Obj0 THEN nullVal ELSE FALSE
        /\ UNCHANGED <<unwindPos, lastField, bufCap, reqsLen, fieldCache, fieldCap, keyCap,
                       ret, idx, spoiled>>
    BY DEF StructEnd
  <1>2. buf' \in Seq(CellSet) /\ unwindPos' <= Len(buf')
    BY <1>1, EndFacts, UnwoundTypes, UnwindInside, Positions
  <1>3. words' \in Seq(Seq(SUBSET (0..(WordBits - 1)))) /\ words' # <<>>
    BY <1>1, EndFacts, ResetTypes DEF Obj0, IInv, TypeOK, CachesOK
  <1>4. ~nullVal' /\ nullVal' \in BOOLEAN
    <2>1. nullVal \in BOOLEAN /\ (Obj0 => nullVal = FALSE)
      BY <1>1, EndFacts, UnwindInside
    <2>2. nullVal' = FALSE
      BY <1>1, <2>1
    <2> QED
      BY <2>2
  <1>5. TypeOK'
    <2>1. InputsOK' /\ OutputOK' /\ DriverOK'
      BY <1>1, <1>2, EndFacts DEF IInv, TypeOK, InputsOK, OutputOK, DriverOK, inputs, PCs
    <2>2. CachesOK'
      BY <1>1, <1>3 DEF IInv, TypeOK, CachesOK
    <2>3. cut' \in BOOLEAN
      BY <1>1
    <2>4. LocalsOK'
      BY <1>1, <1>4, <2>3, Positions DEF IInv, TypeOK, LocalsOK
    <2> QED
      BY <1>1, <2>1, <2>2, <2>4 DEF IInv, TypeOK
  <1>6. StackOK(vt)' /\ TopOK'
    BY <1>1, EndFacts DEF IInv, TopOK, Top, sp
  <1>7. ControlOK'
    <2>1. Top' = Top /\ Kind' = Kind /\ vt' # <<>>
      BY <1>1, EndFacts DEF Top, sp, Kind
    <2>2. p' > 0 /\ (Top'.st = "OBJ_0" => Top'.jp = p' - 1)
      BY <1>1, <2>1, EndFacts, Positions DEF Obj0
    <2> QED
      BY <1>1, <1>2, <1>4, <2>1, <2>2, EndFacts DEF ControlOK
  <1>8. MemberOK' /\ ResumePos' /\ UnwindsMember'
    BY <1>1 DEF MemberOK, ResumePos, UnwindsMember
  <1> QED
    BY <1>5, <1>6, <1>7, <1>8 DEF IInv

-----------------------------------------------------------------------------
(* The closing iteration *)

\* What holds in the middle of the closing iteration.
Closing == /\ IInv /\ pc \in {"unset", "close"} /\ UNCHANGED inputs

\* The top state is the struct being closed, at the position after its end.
LEMMA ClosingFacts ==
    ASSUME Closing
    PROVE  /\ vt # <<>> /\ Top \in Frame /\ FrameOK(Top)
           /\ Top.st \in {"OBJ_0", "OBJ"} /\ Kind = "struct" /\ Top.td \in Types
           /\ p \in Nat \ {0} /\ nullVal = FALSE /\ unwindPos <= Len(buf)
           /\ Top.st = "OBJ_0" => Top.jp = p - 1
           /\ saved \in Seq(CellSet) /\ buf \in Seq(CellSet)
  <1>1. /\ vt # <<>> /\ Top.st \in {"OBJ_0", "OBJ"} /\ Kind = "struct"
        /\ p > 0 /\ ~nullVal /\ unwindPos <= Len(buf)
        /\ Top.st = "OBJ_0" => Top.jp = p - 1
    BY DEF Closing, IInv, ControlOK, Terminal
  <1>2. Top \in Frame /\ FrameOK(Top) /\ Top.td \in Types
    BY <1>1, TopFacts DEF Closing, Frame, FrameOK
  <1>3. p \in Nat /\ nullVal \in BOOLEAN /\ saved \in Seq(CellSet) /\ buf \in Seq(CellSet)
    BY DEF Closing, IInv, TypeOK, LocalsOK, OutputOK
  <1>4. nullVal = FALSE /\ p \in Nat \ {0}
    BY <1>1, <1>3
  <1> QED
    BY <1>1, <1>2, <1>3, <1>4

\* J2T_STORE in the closing iteration goes back to the position of the '}'.
LEMMA StoreCloseKeeps ==
    ASSUME Closing, NEW code \in {"buf", "field"}, NEW v \in Nat, NEW why,
           why \subseteq {"free"}, StoreClose(code, v, why)
    PROVE  IInv'
  <1> DEFINE fr == [Top EXCEPT !.jp = p - 1]
             b == [i \in 1..Len(saved) |-> IF i <= Len(buf) THEN buf[i] ELSE saved[i]]
  <1>1. /\ pc' = "go" /\ ret' = [code |-> code, v |-> v]
        /\ vt' = ClosePos /\ buf' = b /\ p' = p - 1 /\ KeepLocals
        /\ spoiled' = spoiled \cup why \cup (IF cut THEN {"null"} ELSE {})
                              \cup (IF fieldCache # <<>> THEN {"dup"} ELSE {})
        /\ UNCHANGED <<closing, bufCap, caches, idx>>
    BY DEF StoreClose, Return
  <1>2. b \in Seq(CellSet)
    <2>1. Len(saved) \in Nat /\ Len(buf) \in Nat
      BY ClosingFacts, LenProperties
    <2>2. \A i \in 1..Len(saved) : saved[i] \in CellSet /\ (i <= Len(buf) => buf[i] \in CellSet)
      BY <2>1, ClosingFacts, ElementOfSeq
    <2>3. b \in [1..Len(saved) -> CellSet]
      BY <2>2
    <2> HIDE DEF b
    <2> QED
      BY <2>1, <2>3, FunctionSeq
  <1>3. StackOK(vt') /\ vt' # <<>> /\ Top'.st = Top.st /\ Top'.jp = p - 1
        /\ Top'.mod = Top.mod
    <2>1. CASE Top.st = "OBJ"
      <3>1. p - 1 \in Nat /\ Top \in Frame /\ FrameOK(Top) /\ vt # <<>>
        BY ClosingFacts
      <3>2. fr \in Frame /\ fr.st = Top.st /\ fr.jp = p - 1 /\ fr.mod = Top.mod
            /\ fr.td = Top.td /\ fr.f = Top.f
        BY <3>1 DEF Frame
      <3>3. FrameOK(fr)
        BY <3>1, <3>2 DEF FrameOK
      <3>4. vt' = Replace(vt, fr)
        BY <1>1, <2>1 DEF ClosePos, SetTop
      <3> HIDE DEF fr
      <3>5. StackOK(vt') /\ vt' # <<>> /\ vt'[Len(vt')] = fr
        BY <3>1, <3>2, <3>3, <3>4, ReplaceOK DEF Closing, IInv
      <3> QED
        BY <3>2, <3>5 DEF Top, sp
    <2>2. CASE Top.st # "OBJ"
      <3>1. vt' = vt /\ Top.st = "OBJ_0"
        BY <1>1, <2>2, ClosingFacts DEF ClosePos
      <3> QED
        BY <3>1, ClosingFacts DEF Closing, IInv, Top, sp
    <2> QED
      BY <2>1, <2>2
  <1>4. TypeOK'
    <2>1. spoiled' \subseteq {"null", "dup", "free", "gc"}
      BY <1>1 DEF Closing, IInv, TypeOK, DriverOK
    <2>2. p' \in Nat
      BY <1>1, ClosingFacts
    <2>3. InputsOK' /\ LocalsOK' /\ CachesOK'
      BY <1>1, <2>2 DEF Closing, IInv, TypeOK, InputsOK, LocalsOK, CachesOK, inputs, closing,
             caches, KeepLocals
    <2>4. OutputOK' /\ DriverOK'
      BY <1>1, <1>2, <2>1 DEF Closing, IInv, TypeOK, OutputOK, DriverOK, PCs, Codes
    <2> QED
      BY <1>3, <2>3, <2>4 DEF TypeOK, StackOK
  <1>5. TopOK' /\ MemberOK' /\ UnwindsMember'
    BY <1>1, <1>3, ClosingFacts DEF TopOK, MemberOK, UnwindsMember
  <1>6. ControlOK' /\ ResumePos'
    BY <1>1, <1>3, ClosingFacts DEF ControlOK, ResumePos, Terminal
  <1> QED
    BY <1>3, <1>4, <1>5, <1>6 DEF IInv

\* A step of the loop over the bits.
LEMMA UnsetKeeps ==
    ASSUME Closing, pc = "unset",
           UNCHANGED <<pc, vt, locals, saved, cut, bufCap, words, reqsLen, fieldCap, keyCap,
                       ret, idx, spoiled>>,
           bit' \in Nat, shift' \in Nat, fieldCache' \in Seq(Nat),
           buf' \in Seq(CellSet), Len(buf) <= Len(buf')
    PROVE  IInv'
  <1>1. TypeOK'
    BY DEF Closing, IInv, TypeOK, InputsOK, LocalsOK, OutputOK, CachesOK, DriverOK, inputs,
           locals
  <1>2. StackOK(vt)' /\ TopOK'
    BY DEF Closing, IInv, TopOK, InObject, Parent, Top, sp
  <1>3. ControlOK'
    <2>1. Top' = Top /\ Kind' = Kind
      BY DEF Top, sp, Kind
    <2>2. unwindPos' <= Len(buf')
      <3>1. Len(buf) \in Nat /\ Len(buf') \in Nat /\ unwindPos \in Nat
        BY LenProperties DEF Closing, IInv, TypeOK, OutputOK, LocalsOK
      <3> QED
        BY <3>1, ClosingFacts DEF locals
    <2> QED
      BY <2>1, <2>2, ClosingFacts DEF ControlOK, locals
  <1>4. MemberOK' /\ ResumePos' /\ UnwindsMember'
    BY DEF MemberOK, ResumePos, UnwindsMember
  <1> QED
    BY <1>1, <1>2, <1>3, <1>4 DEF IInv

\* Counting the bits.
LEMMA AdvanceTypes ==
    ASSUME Closing, NEW n \in {0, 1}, Advance(n)
    PROVE  bit' \in Nat /\ shift' \in Nat
  <1>1. bit \in Nat /\ shift \in Nat
    BY DEF Closing, IInv, TypeOK, LocalsOK
  <1> QED
    BY <1>1 DEF Advance

\* The same state with other bits.
LEMMA BitsKeep ==
    ASSUME Closing, pc = "unset", bit' \in Nat, shift' \in Nat, KeepUnset,
           UNCHANGED <<pc, buf, fieldCache>>
    PROVE  IInv'
  <1>1. fieldCache' \in Seq(Nat) /\ buf' \in Seq(CellSet) /\ Len(buf) <= Len(buf')
    BY LenProperties DEF Closing, IInv, TypeOK, CachesOK, OutputOK
  <1> QED
    BY <1>1, UnsetKeeps DEF KeepUnset

\* A word without more bits is left.
LEMMA UnsetWordEmptyKeeps == ASSUME IInv, UnsetWordEmpty PROVE IInv'
  <1>1. Closing /\ pc = "unset"
    BY DEF UnsetWordEmpty, Unsetting, Closing
  <1>2. bit' \in Nat
    <2>1. bit \in Nat /\ WordBits \in Nat \ {0}
      BY BoundAssumption DEF IInv, TypeOK, LocalsOK
    <2>2. WordIdx \in Nat
      BY <2>1 DEF WordIdx
    <2>3. bit' = (WordIdx + 1) * WordBits
      BY DEF UnsetWordEmpty
    <2> HIDE DEF WordIdx
    <2> QED
      BY <2>1, <2>2, <2>3
  <1>3. shift' \in Nat /\ KeepUnset /\ UNCHANGED <<pc, buf, fieldCache>>
    BY DEF UnsetWordEmpty
  <1> QED
    BY <1>1, <1>2, <1>3, BitsKeep

\* A field that was given is passed over.
LEMMA UnsetClearKeeps == ASSUME IInv, UnsetClear PROVE IInv'
  <1>1. Closing /\ pc = "unset"
    BY DEF UnsetClear, Unsetting, Closing
  <1> QED
    BY <1>1, AdvanceTypes, BitsKeep DEF UnsetClear

\* A bit without a field, or of the request base, is passed over.
LEMMA UnsetIgnoredKeeps == ASSUME IInv, UnsetIgnored PROVE IInv'
  <1>1. Closing /\ pc = "unset"
    BY DEF UnsetIgnored, AtUnset, Unsetting, Closing
  <1> QED
    BY <1>1, AdvanceTypes, BitsKeep DEF UnsetIgnored

\* A missing field is a field.
LEMMA MissingFacts ==
    ASSUME Closing, NEW f \in Missing
    PROVE  f \in FieldDesc /\ f.id \in Nat
  BY ClosingFacts, DescAssumption DEF Missing, FieldById, Desc, FieldDesc

\* A missing field goes into the field cache, or the cache is full.
LEMMA UnsetTracedKeeps == ASSUME IInv, UnsetTraced PROVE IInv'
  <1>1. Closing /\ pc = "unset"
    BY DEF UnsetTraced, AtUnset, Unsetting, Closing
  <1>2. PICK f \in Missing :
          IF fieldCap <= Len(fieldCache)
          THEN StoreClose("field", p - 1, {})
          ELSE /\ fieldCache' = Append(fieldCache, f.id)
               /\ Advance(1)
               /\ KeepUnset /\ UNCHANGED <<pc, buf>>
    BY DEF UnsetTraced
  <1>3. CASE fieldCap <= Len(fieldCache)
    <2>1. p - 1 \in Nat
      BY <1>1, ClosingFacts
    <2> QED
      BY <1>1, <1>2, <1>3, <2>1, StoreCloseKeeps
  <1>4. CASE ~(fieldCap <= Len(fieldCache))
    <2>1. fieldCache' = Append(fieldCache, f.id) /\ Advance(1) /\ KeepUnset /\ UNCHANGED <<pc, buf>>
      BY <1>2, <1>4
    <2>2. fieldCache' \in Seq(Nat)
      BY <1>1, <2>1, MissingFacts, AppendProperties DEF IInv, TypeOK, CachesOK
    <2>3. buf' \in Seq(CellSet) /\ Len(buf) <= Len(buf')
      BY <2>1, Positions
    <2> QED
      BY <1>1, <2>1, <2>2, <2>3, AdvanceTypes, UnsetKeeps DEF KeepUnset
  <1> QED
    BY <1>3, <1>4

\* A missing field is written, passed over, or does not fit.
LEMMA UnsetWrittenKeeps == ASSUME IInv, UnsetWritten PROVE IInv'
  <1>1. Closing /\ pc = "unset"
    BY DEF UnsetWritten, AtUnset, Unsetting, Closing
  <1> DEFINE cells(f) == <<Cell("field", f.id, ""), Cell("dflt", f.id, "")>>
  <1>2. PICK f \in Missing :
          \/ Advance(1) /\ KeepUnset /\ UNCHANGED <<pc, buf, fieldCache>>
          \/ StoreClose("buf", 1, {})
          \/ /\ buf' = buf \o cells(f)
             /\ Advance(1)
             /\ KeepUnset /\ UNCHANGED <<pc, fieldCache>>
    BY DEF UnsetWritten
  <1>3. CASE Advance(1) /\ KeepUnset /\ UNCHANGED <<pc, buf, fieldCache>>
    BY <1>1, <1>3, AdvanceTypes, BitsKeep
  <1>4. CASE StoreClose("buf", 1, {})
    BY <1>1, <1>4, StoreCloseKeeps
  <1>5. CASE /\ buf' = buf \o cells(f)
             /\ Advance(1)
             /\ KeepUnset /\ UNCHANGED <<pc, fieldCache>>
    <2>1. Cell("field", f.id, "") \in CellSet /\ Cell("dflt", f.id, "") \in CellSet
      BY <1>1, MissingFacts, InputAssumption DEF Cell, CellSet
    <2>2. cells(f) \in Seq(CellSet)
      BY <2>1, TwoCells
    <2> HIDE DEF cells
    <2>3. buf' \in Seq(CellSet) /\ Len(buf) <= Len(buf')
      BY <1>5, <2>2, Positions, ConcatProperties, LenProperties
    <2>4. fieldCache' \in Seq(Nat)
      BY <1>5 DEF IInv, TypeOK, CachesOK
    <2> QED
      BY <1>1, <1>5, <2>3, <2>4, AdvanceTypes, UnsetKeeps DEF KeepUnset
  <1> QED
    BY <1>2, <1>3, <1>4, <1>5

\* A missing required field ends the call.
LEMMA UnsetFailsKeeps == ASSUME IInv, UnsetFails PROVE IInv'
  BY FailKeeps DEF UnsetFails, AtUnset, Unsetting

\* The slice is given back and the struct goes on to its stop byte or to Go.
LEMMA FreeReqsKeeps == ASSUME IInv, FreeReqs PROVE IInv'
  <1>1. Closing /\ pc = "unset"
    BY DEF FreeReqs, Unsetting, Closing
  <1>2. /\ UNCHANGED <<vt, locals, closing, buf, bufCap, words, fieldCache, fieldCap, keyCap,
                       idx, spoiled>>
        /\ reqsLen' = reqsLen - Top.len
        /\ \/ pc' = "go" /\ ret' = [code |-> "hmEnd", v |-> p]
           \/ pc' = "close" /\ UNCHANGED ret
    BY DEF FreeReqs, Return, GivenBack
  <1>3. TypeOK'
    <2>1. reqsLen' \in Int
      BY <1>1, <1>2, ClosingFacts DEF IInv, TypeOK, CachesOK, Frame
    <2>2. InputsOK' /\ LocalsOK' /\ OutputOK' /\ CachesOK'
      BY <1>1, <1>2, <2>1 DEF Closing, IInv, TypeOK, InputsOK, LocalsOK, OutputOK, CachesOK,
             inputs, locals, closing
    <2>3. DriverOK'
      BY <1>1, <1>2, ClosingFacts DEF IInv, TypeOK, DriverOK, PCs, Codes
    <2> QED
      BY <1>2, <2>2, <2>3 DEF IInv, TypeOK
  <1>4. Top' = Top /\ Kind' = Kind /\ sp' = sp
    BY <1>2 DEF Top, sp, Kind
  <1>5. StackOK(vt)' /\ TopOK'
    BY <1>1, <1>2, <1>4, ClosingFacts DEF IInv, TopOK
  <1>6. ControlOK'
    BY <1>1, <1>2, <1>4, ClosingFacts DEF ControlOK, locals, Terminal
  <1>7. Top'.st # "VAL" /\ pc' # "exec" /\ pc' # "http"
        /\ (pc' = "go" => ret'.code = "hmEnd")
    BY <1>1, <1>2, <1>4, ClosingFacts
  <1>8. MemberOK' /\ ResumePos' /\ UnwindsMember'
    BY <1>7 DEF MemberOK, ResumePos, UnwindsMember
  <1> QED
    BY <1>3, <1>5, <1>6, <1>8 DEF IInv

\* The stop byte fits and the struct is dropped, or its state goes back.
LEMMA WriteStopKeeps == ASSUME IInv, WriteStop PROVE IInv'
  <1>1. Closing
    BY DEF WriteStop, Closing
  <1>2. CASE StoreClose("buf", 1, IF Top.len > 0 THEN {"free"} ELSE {})
    <2> DEFINE why == IF Top.len > 0 THEN {"free"} ELSE {}
    <2>1. why \subseteq {"free"}
      OBVIOUS
    <2> QED
      BY <1>1, <1>2, <2>1, StoreCloseKeeps
  <1>3. CASE /\ buf' = Append(buf, Cell("stop", 0, ""))
             /\ vt' = Below
             /\ pc' = "exec"
             /\ UNCHANGED <<locals, closing, bufCap, caches, ret, idx, spoiled>>
    <2> DEFINE c == Cell("stop", 0, "")
    <2>1. c \in CellSet
      BY InputAssumption DEF Cell, CellSet
    <2> HIDE DEF c
    <2>2. buf' \in Seq(CellSet) /\ Len(buf') = Len(buf) + 1
      BY <1>3, <2>1, Positions, AppendProperties DEF c
    <2>3. ~nullVal' /\ unwindPos' <= Len(buf')
      <3>1. unwindPos \in Nat /\ unwindPos' = unwindPos /\ nullVal' = nullVal
        BY <1>3 DEF IInv, TypeOK, LocalsOK, locals
      <3>2. unwindPos <= Len(buf) /\ nullVal = FALSE
        BY <1>1, ClosingFacts
      <3> QED
        BY <2>2, <3>1, <3>2, Positions
    <2>4. RestOK'
      BY <1>1, <1>3, <2>2 DEF Closing, IInv, TypeOK, RestOK, InputsOK, LocalsOK, OutputOK,
         CachesOK, DriverOK, inputs, locals, closing, caches, PCs
    <2> QED
      BY <1>1, <1>3, <2>3, <2>4, ClosingFacts, PopKeeps
  <1> QED
    BY <1>2, <1>3 DEF WriteStop

-----------------------------------------------------------------------------
(* The driver *)

\* An empty stack ends the call.
LEMMA FinishKeeps == ASSUME IInv, Finish PROVE IInv'
  BY EndKeeps DEF Finish, Terminal, IInv, TypeOK, DriverOK

\* A stack that is too deep ends it too.
LEMMA TooDeepKeeps == ASSUME IInv, TooDeep PROVE IInv'
  BY EndKeeps DEF TooDeep, Terminal, IInv, TypeOK, DriverOK, Codes

\* The types a Go handler must keep: what native code keeps in locals is gone.
HandlerOK == InputsOK /\ OutputOK /\ CachesOK
             /\ ret \in [code : Codes, v : Nat] /\ idx \in Nat
             /\ spoiled \subseteq {"null", "dup", "free", "gc"}

\* Calling the native function again on the stack it left.
LEMMA ReenterKeeps ==
    ASSUME IInv, pc \in {"go", "http"}, ret.code \notin {"hmEnd", "vmEnd"},
           EnterNative(vt), HandlerOK', UNCHANGED <<inputs, closing>>
    PROVE  IInv'
  <1>1. vt # <<>> /\ Top.jp = p /\ (Top.st = "VAL" => Ch # "null") /\ Top.st # "ELEM"
    BY DEF IInv, ControlOK, ResumePos, MemberOK, Terminal
  <1>2. /\ vt' = vt /\ pc' = "exec" /\ p' = p /\ nullVal' = FALSE /\ unwindPos' = 0
        /\ lastField' = NoField /\ Top' = Top /\ sp' = sp /\ Ch' = Ch
    BY <1>1 DEF EnterNative, Top, sp, Ch, inputs
  <1>3. TypeOK'
    BY <1>2 DEF IInv, TypeOK, HandlerOK, LocalsOK, DriverOK, PCs, closing
  <1>4. StackOK(vt)' /\ TopOK'
    BY <1>2 DEF IInv, TopOK, InObject, Parent
  <1>5. ControlOK'
    <2>1. Len(buf') \in Nat
      BY LenProperties DEF HandlerOK, OutputOK
    <2> QED
      BY <1>1, <1>2, <2>1 DEF ControlOK, Terminal
  <1>6. MemberOK'
    BY <1>1, <1>2 DEF MemberOK
  <1>7. ResumePos' /\ UnwindsMember'
    BY <1>1, <1>2 DEF ResumePos, UnwindsMember
  <1> QED
    BY <1>3, <1>4, <1>5, <1>6, <1>7 DEF IInv

\* Calling it with the top state moved or dropped by the handler.
LEMMA EnterKeeps ==
    ASSUME IInv, NEW s, StackOK(s), EnterNative(s), HandlerOK', UNCHANGED <<inputs, closing>>,
           s # <<>> => s[Len(s)].st \in {"ARR", "OBJ_0", "OBJ"} /\ s[Len(s)].jp \in Nat
    PROVE  IInv'
  <1>1. /\ vt' = s /\ pc' \in {"exec", "done"} /\ nullVal' = FALSE /\ unwindPos' = 0
        /\ lastField' = NoField
        /\ s = <<>> => pc' = "done" /\ p' = p
        /\ s # <<>> => pc' = "exec" /\ p' = s[Len(s)].jp /\ Top' = s[Len(s)]
    BY DEF EnterNative, Top, sp
  <1>2. TypeOK'
    <2>1. p' \in Nat
      BY <1>1 DEF IInv, TypeOK, LocalsOK
    <2>2. LocalsOK'
      BY <1>1, <2>1 DEF IInv, TypeOK, LocalsOK, closing
    <2> QED
      BY <1>1, <2>2 DEF TypeOK, HandlerOK, DriverOK, PCs, Terminal, StackOK
  <1>3. StackOK(vt)' /\ TopOK'
    BY <1>1 DEF TopOK
  <1>4. ControlOK'
    <2>1. Len(buf') \in Nat
      BY LenProperties DEF HandlerOK, OutputOK
    <2> QED
      BY <1>1, <2>1 DEF ControlOK, Terminal
  <1>5. MemberOK' /\ ResumePos' /\ UnwindsMember'
    BY <1>1 DEF MemberOK, ResumePos, UnwindsMember
  <1> QED
    BY <1>2, <1>3, <1>4, <1>5 DEF IInv

\* A larger output takes the call up again.
LEMMA GrowBufKeeps == ASSUME IInv, GrowBuf PROVE IInv'
  <1>1. pc = "go" /\ ret.code = "buf" /\ EnterNative(vt) /\ UNCHANGED inputs
        /\ UNCHANGED <<closing, buf, caches, ret, idx, spoiled>>
    BY DEF GrowBuf, Handling
  <1>2. bufCap' \in Nat
    <2>1. bufCap \in Nat /\ ret.v \in Nat
      BY DEF IInv, TypeOK, OutputOK, DriverOK
    <2>2. bufCap \div 2 \in Nat
      BY <2>1
    <2> QED
      BY <2>1, <2>2 DEF GrowBuf
  <1>3. HandlerOK'
    BY <1>1, <1>2 DEF IInv, TypeOK, HandlerOK, InputsOK, OutputOK, CachesOK, DriverOK, inputs,
       caches
  <1> QED
    BY <1>1, <1>3, ReenterKeeps

\* The new array of the requires cache: what is in use is copied.
LEMMA GrownTypes ==
    ASSUME IInv, NEW n \in Nat
    PROVE  Grown(n) \in Seq(SUBSET (0..(WordBits - 1)))
  <1> DEFINE B == SUBSET (0..(WordBits - 1))
  <1>1. Len(words[Gen]) \in Nat /\ words[Gen] \in [1..Len(words[Gen]) -> B]
    BY EmptySeq, ElementOfSeq, LenProperties DEF IInv, TypeOK, CachesOK, Gen
  <1>2. {} \in B
    OBVIOUS
  <1> HIDE DEF B
  <1>3. Len(words[Gen]) + n \in Nat
    BY <1>1
  <1>4. Grown(n) \in [1..(Len(words[Gen]) + n) -> B]
    BY <1>1, <1>2 DEF Grown
  <1> DEFINE g == Grown(n)
  <1> HIDE DEF g
  <1>5. g \in Seq(B)
    BY <1>3, <1>4, FunctionSeq DEF g
  <1> QED
    BY <1>5 DEF g, B

\* A new array of the requires cache takes the call up again.
LEMMA GrowReqCacheKeeps == ASSUME IInv, GrowReqCache PROVE IInv'
  <1> DEFINE B == SUBSET (0..(WordBits - 1))
             r == Grown(2 * ret.v)
  <1>1. pc = "go" /\ ret.code = "bm" /\ EnterNative(vt) /\ UNCHANGED inputs
        /\ words' = Append(words, r)
        /\ UNCHANGED <<closing, buf, bufCap, reqsLen, fieldCache, fieldCap, keyCap, ret, idx,
                       spoiled>>
    BY DEF GrowReqCache, Handling
  <1>2. r \in Seq(B)
    <2>1. 2 * ret.v \in Nat
      BY DEF IInv, TypeOK, DriverOK
    <2> QED
      BY <2>1, GrownTypes
  <1> HIDE DEF r, B
  <1>3. words \in Seq(Seq(B))
    BY DEF IInv, TypeOK, CachesOK, B
  <1>4. words' \in Seq(Seq(B)) /\ words' # <<>>
    BY <1>1, <1>2, <1>3, AppendProperties
  <1>5. HandlerOK'
    BY <1>1, <1>4 DEF IInv, TypeOK, HandlerOK, InputsOK, OutputOK, CachesOK, DriverOK, inputs, B
  <1> QED
    BY <1>1, <1>5, ReenterKeeps

\* A larger key cache takes the call up again.
LEMMA GrowKeyCacheKeeps == ASSUME IInv, GrowKeyCache PROVE IInv'
  <1>1. pc = "go" /\ ret.code = "key" /\ EnterNative(vt) /\ UNCHANGED inputs
        /\ keyCap' = keyCap + 2 * ret.v
        /\ UNCHANGED <<closing, buf, bufCap, words, reqsLen, fieldCache, fieldCap, ret, idx,
                       spoiled>>
    BY DEF GrowKeyCache, Handling
  <1>2. HandlerOK'
    BY <1>1 DEF IInv, TypeOK, HandlerOK, InputsOK, OutputOK, CachesOK, DriverOK, inputs
  <1> QED
    BY <1>1, <1>2, ReenterKeeps

\* A larger field cache takes it up again at the returned position.
LEMMA GrowFieldCacheKeeps == ASSUME IInv, GrowFieldCache PROVE IInv'
  <1> DEFINE fr == [Top EXCEPT !.jp = ret.v]
             s == SetTop(fr)
  <1>1. pc = "go" /\ ret.code = "field" /\ EnterNative(s) /\ UNCHANGED inputs
        /\ fieldCap' = fieldCap + FieldGrow
        /\ UNCHANGED <<closing, buf, bufCap, words, reqsLen, fieldCache, keyCap, ret, idx,
                       spoiled>>
    BY DEF GrowFieldCache, Handling, GrownFieldCap
  <1>2. vt # <<>> /\ Top.st \in {"OBJ_0", "OBJ"} /\ Top \in Frame /\ FrameOK(Top) /\ ret.v \in Nat
    BY <1>1, TopFacts DEF IInv, ControlOK, Terminal, TypeOK, DriverOK
  <1>3. fr \in Frame /\ fr.st = Top.st /\ fr.td = Top.td /\ fr.mod = Top.mod /\ fr.f = Top.f
    BY <1>2 DEF Frame
  <1>4. FrameOK(fr)
    BY <1>2, <1>3 DEF FrameOK
  <1> HIDE DEF fr
  <1>5. StackOK(s) /\ s[Len(s)] = fr
    BY <1>2, <1>3, <1>4, ReplaceOK DEF IInv, SetTop
  <1> HIDE DEF s
  <1>6. HandlerOK'
    BY <1>1, BoundAssumption DEF IInv, TypeOK, HandlerOK, InputsOK, OutputOK, CachesOK,
       DriverOK, inputs
  <1>7. fr.jp \in Nat
    BY <1>3 DEF Frame
  <1> QED
    BY <1>1, <1>2, <1>3, <1>5, <1>6, <1>7, EnterKeeps

\* What a handler appends to the output.
LEMMA AppendGoTypes ==
    ASSUME OutputOK, NEW cells \in Seq(CellSet), AppendGo(cells)
    PROVE  OutputOK' /\ Len(buf) <= Len(buf') /\ Len(buf') \in Nat
  <1>1. buf' \in Seq(CellSet) /\ Len(buf') = Len(buf) + Len(cells)
        /\ Len(buf) \in Nat /\ Len(cells) \in Nat
    BY ConcatProperties, LenProperties DEF OutputOK, AppendGo
  <1>2. bufCap' \in Nat
    BY <1>1 DEF OutputOK, AppendGo
  <1> QED
    BY <1>1, <1>2 DEF OutputOK

\* writeStringValue writes a header and a value, or nothing.
LEMMA StringCellsTypes ==
    ASSUME NEW f \in FieldDesc, NEW found \in BOOLEAN
    PROVE  StringCells(f, found) \in Seq(CellSet)
  <1> DEFINE a == Cell("field", f.id, "")
             b == Cell("http", 0, f.name)
             c == Cell("dflt", f.id, "")
  <1>1. a \in CellSet /\ b \in CellSet /\ c \in CellSet
    BY InputAssumption DEF Cell, CellSet, FieldDesc
  <1>2. StringCells(f, found) \in {<<a, b>>, <<a, c>>, <<>>}
    BY DEF StringCells
  <1> HIDE DEF a, b, c
  <1>3. <<a, b>> \in Seq(CellSet) /\ <<a, c>> \in Seq(CellSet) /\ <<>> \in Seq(CellSet)
    BY <1>1
  <1> QED
    BY <1>2, <1>3

\* A handler that stays in its loop, or starts it.
LEMMA HandlerKeeps ==
    ASSUME IInv, vt # <<>>, pc' \in {"http", "unmatched"}, idx' \in Nat \ {0}, OutputOK', CachesOK',
           pc' = "http" => ret.code = "hm" /\ Top.st = "OBJ_0" /\ Top.jp = p,
           pc' = "unmatched" => ret.code = "hmEnd" /\ Top.st \in {"OBJ_0", "OBJ"},
           UNCHANGED <<inputs, vt, locals, closing, ret, spoiled>>
    PROVE  IInv'
  <1>1. Top' = Top /\ sp' = sp /\ p' = p
    BY DEF Top, sp, locals
  <1>2. TypeOK'
    BY DEF IInv, TypeOK, InputsOK, LocalsOK, DriverOK, inputs, locals, closing, PCs
  <1>3. StackOK(vt)' /\ TopOK'
    BY <1>1 DEF IInv, TopOK, InObject, Parent
  <1>4. ControlOK' /\ ResumePos'
    BY <1>1 DEF ControlOK, ResumePos, Terminal
  <1>5. MemberOK' /\ UnwindsMember'
    BY DEF MemberOK, UnwindsMember
  <1> QED
    BY <1>2, <1>3, <1>4, <1>5 DEF IInv

\* The handler of HTTP-mapped fields starts on the struct just opened.
LEMMA StartHttpKeeps == ASSUME IInv, StartHttp PROVE IInv'
  <1>1. pc = "go" /\ ret.code = "hm" /\ pc' = "http" /\ idx' = 1 /\ UNCHANGED inputs
        /\ UNCHANGED <<vt, locals, closing, buf, bufCap, caches, ret, spoiled>>
    BY DEF StartHttp, Handling
  <1>2. vt # <<>> /\ Top.st = "OBJ_0" /\ Top.jp = p
    BY <1>1 DEF IInv, ControlOK, ResumePos, Terminal
  <1>3. OutputOK' /\ CachesOK'
    BY <1>1 DEF IInv, TypeOK, OutputOK, CachesOK, caches
  <1> QED
    BY <1>1, <1>2, <1>3, HandlerKeeps

\* The handler of unmatched fields starts on the struct being closed.
LEMMA StartUnmatchedKeeps == ASSUME IInv, StartUnmatched PROVE IInv'
  <1>1. pc = "go" /\ ret.code = "hmEnd" /\ pc' = "unmatched" /\ idx' = 1 /\ UNCHANGED inputs
        /\ UNCHANGED <<vt, locals, closing, buf, bufCap, caches, ret, spoiled>>
    BY DEF StartUnmatched, Handling
  <1>2. vt # <<>> /\ Top.st \in {"OBJ_0", "OBJ"}
    BY <1>1 DEF IInv, ControlOK, Terminal
  <1>3. OutputOK' /\ CachesOK'
    BY <1>1 DEF IInv, TypeOK, OutputOK, CachesOK, caches
  <1> QED
    BY <1>1, <1>2, <1>3, HandlerKeeps

\* An HTTP-mapped field is written, marked as missing, or refused.
LEMMA HttpFieldKeeps == ASSUME IInv, HttpField PROVE IInv'
  <1> DEFINE f == TypeDesc[Top.td].hms[idx]
             found == f.name \in http.hm
  <1>1. pc = "http" /\ UNCHANGED inputs /\ idx <= Len(TypeDesc[Top.td].hms)
    BY DEF HttpField
  <1>2. vt # <<>> /\ ret.code = "hm" /\ idx \in Nat \ {0} /\ Top.st = "OBJ_0" /\ Top.jp = p
    BY <1>1 DEF IInv, ControlOK, ResumePos, Terminal, TypeOK, DriverOK
  <1>3. Top.td \in Types
    BY <1>2, TopFacts DEF Frame, FrameOK
  <1>4. f \in FieldDesc
    <2>1. TypeDesc[Top.td].hms \in Seq(FieldDesc)
      BY <1>3, DescAssumption DEF Desc
    <2> QED
      BY <1>1, <1>2, <2>1, LenProperties, ElementOfSeq
  <1>5. f.id \in Nat /\ found \in BOOLEAN
    BY <1>4 DEF FieldDesc
  <1>6. \/ /\ words' = BmSet(Top, f.id, "required") /\ UNCHANGED <<buf, bufCap>>
           /\ pc' = "http" /\ idx' = idx + 1
           /\ UNCHANGED <<vt, locals, closing, reqsLen, fieldCache, fieldCap, keyCap, ret, spoiled>>
        \/ Fail
        \/ /\ words' = BmSet(Top, f.id, "optional") /\ AppendGo(StringCells(f, found))
           /\ pc' = "http" /\ idx' = idx + 1
           /\ UNCHANGED <<vt, locals, closing, reqsLen, fieldCache, fieldCap, keyCap, ret, spoiled>>
    BY <1>1 DEF HttpField
  <1> HIDE DEF f, found
  <1>7. CASE Fail
    BY <1>1, <1>7, FailKeeps
  <1>8. ASSUME NEW req, words' = BmSet(Top, f.id, req),
               \/ UNCHANGED <<buf, bufCap>>
               \/ AppendGo(StringCells(f, found)),
               pc' = "http", idx' = idx + 1,
               UNCHANGED <<vt, locals, closing, reqsLen, fieldCache, fieldCap, keyCap, ret, spoiled>>
        PROVE  IInv'
    <2>1. words' \in Seq(Seq(SUBSET (0..(WordBits - 1)))) /\ words' # <<>>
      BY <1>5, <1>8, BmSetTypes DEF IInv, TypeOK
    <2>2. CachesOK'
      BY <1>8, <2>1 DEF IInv, TypeOK, CachesOK
    <2>3. OutputOK'
      BY <1>4, <1>5, <1>8, StringCellsTypes, AppendGoTypes DEF IInv, TypeOK, OutputOK
    <2>4. idx' \in Nat \ {0}
      BY <1>2, <1>8
    <2> QED
      BY <1>1, <1>2, <1>8, <2>2, <2>3, <2>4, HandlerKeeps
  <1> QED
    BY <1>6, <1>7, <1>8

\* The members of the struct are read after its HTTP-mapped fields.
LEMMA HttpDoneKeeps == ASSUME IInv, HttpDone PROVE IInv'
  <1>1. pc = "http" /\ UNCHANGED inputs /\ EnterNative(vt)
        /\ UNCHANGED <<closing, buf, bufCap, caches, ret, idx, spoiled>>
    BY DEF HttpDone
  <1>2. ret.code = "hm"
    BY <1>1 DEF IInv, ControlOK
  <1>3. HandlerOK'
    BY <1>1 DEF IInv, TypeOK, HandlerOK, InputsOK, OutputOK, CachesOK, DriverOK, inputs, caches
  <1> QED
    BY <1>1, <1>2, <1>3, ReenterKeeps

\* A missing field is written from the request, or refused.
LEMMA UnmatchedFieldKeeps == ASSUME IInv, UnmatchedField PROVE IInv'
  <1>1. pc = "unmatched" /\ UNCHANGED inputs
    BY DEF UnmatchedField
  <1>2. vt # <<>> /\ ret.code = "hmEnd" /\ idx \in Nat \ {0} /\ Top.st \in {"OBJ_0", "OBJ"}
    BY <1>1 DEF IInv, ControlOK, Terminal, TypeOK, DriverOK
  <1>3. Top.td \in Types
    BY <1>2, TopFacts DEF Frame, FrameOK
  <1>4. PICK f \in FieldById(Top.td, fieldCache[idx]) :
          \/ Fail
          \/ /\ AppendGo(StringCells(f, opts.tbRoot /\ f.name \in http.any))
             /\ idx' = idx + 1
             /\ UNCHANGED <<pc, vt, locals, closing, caches, ret, spoiled>>
    BY DEF UnmatchedField
  <1>5. f \in FieldDesc
    BY <1>3, DescAssumption DEF FieldById, Desc
  <1>6. CASE Fail
    BY <1>1, <1>6, FailKeeps
  <1>7. CASE /\ AppendGo(StringCells(f, opts.tbRoot /\ f.name \in http.any))
             /\ idx' = idx + 1
             /\ UNCHANGED <<pc, vt, locals, closing, caches, ret, spoiled>>
    <2> DEFINE found == opts.tbRoot /\ f.name \in http.any
    <2>1. found \in BOOLEAN
      OBVIOUS
    <2>2. AppendGo(StringCells(f, found))
      BY <1>7
    <2> HIDE DEF found
    <2>3. OutputOK'
      BY <1>5, <2>1, <2>2, StringCellsTypes, AppendGoTypes DEF IInv, TypeOK
    <2>4. CachesOK' /\ idx' \in Nat \ {0}
      BY <1>2, <1>7 DEF IInv, TypeOK, CachesOK, caches
    <2> QED
      BY <1>1, <1>2, <1>7, <2>3, <2>4, HandlerKeeps
  <1> QED
    BY <1>4, <1>6, <1>7

\* The state of the finished struct or mapped value is dropped, the one under
\* it gets the position of the next JSON.
LEMMA DropToOK ==
    ASSUME IInv, vt # <<>>, NEW q \in Nat
    PROVE  /\ StackOK(DropTo(q))
           /\ DropTo(q) # <<>> => /\ DropTo(q)[Len(DropTo(q))].st \in {"ARR", "OBJ_0", "OBJ"}
                                  /\ DropTo(q)[Len(DropTo(q))].jp \in Nat
  <1>1. CASE sp = 1
    BY <1>1 DEF DropTo, StackOK
  <1>2. CASE sp # 1
    <2> DEFINE fr == [Below[sp - 1] EXCEPT !.jp = q]
               b == Below
    <2>1. /\ StackOK(b) /\ Len(b) = sp - 1 /\ sp \in Nat \ {0}
          /\ \A i \in 1..Len(b) : b[i] = vt[i]
      BY PopOK, TopFacts DEF IInv, Below, sp
    <2>2. vt[sp - 1] \in Frame /\ FrameOK(vt[sp - 1]) /\ vt[sp - 1].st \in {"ARR", "OBJ"}
          /\ b[sp - 1] = vt[sp - 1] /\ b # <<>>
      BY <1>2, <2>1, TopFacts, EmptySeq
    <2>3. fr \in Frame /\ fr.st \in {"ARR", "OBJ"} /\ fr.td = b[sp - 1].td
          /\ fr.mod = b[sp - 1].mod /\ fr.f = b[sp - 1].f /\ fr.st = b[sp - 1].st
      BY <2>2 DEF Frame
    <2>4. FrameOK(fr)
      BY <2>2, <2>3 DEF FrameOK
    <2>5. DropTo(q) = Replace(b, fr)
      BY <1>2, <2>1 DEF DropTo, Replace
    <2> HIDE DEF fr, b
    <2>6. StackOK(DropTo(q)) /\ DropTo(q)[Len(DropTo(q))] = fr
      BY <2>1, <2>2, <2>3, <2>4, <2>5, ReplaceOK
    <2> QED
      BY <2>3, <2>6 DEF Frame
  <1> QED
    BY <1>1, <1>2

\* Go ends the struct and takes its state off the stack.
LEMMA UnmatchedDoneKeeps == ASSUME IInv, UnmatchedDone PROVE IInv'
  <1> DEFINE cells == <<Cell("stop", 0, "")>>
  <1>1. pc = "unmatched" /\ UNCHANGED inputs /\ AppendGo(cells) /\ fieldCache' = <<>>
        /\ EnterNative(DropTo(ret.v))
        /\ UNCHANGED <<closing, words, reqsLen, fieldCap, keyCap, ret, idx, spoiled>>
    BY DEF UnmatchedDone
  <1>2. vt # <<>> /\ ret.v \in Nat
    BY <1>1 DEF IInv, ControlOK, Terminal, TypeOK, DriverOK
  <1>3. cells \in Seq(CellSet)
    <2>1. Cell("stop", 0, "") \in CellSet
      BY InputAssumption DEF Cell, CellSet
    <2> QED
      BY <2>1, OneCell
  <1> HIDE DEF cells
  <1>4. OutputOK'
    BY <1>1, <1>3, AppendGoTypes DEF IInv, TypeOK
  <1>5. fieldCache' \in Seq(Nat)
    BY <1>1
  <1>6. HandlerOK'
    BY <1>1, <1>4, <1>5 DEF IInv, TypeOK, HandlerOK, InputsOK, CachesOK, DriverOK, inputs
  <1> DEFINE s == DropTo(ret.v)
  <1>7. StackOK(s) /\ (s # <<>> => s[Len(s)].st \in {"ARR", "OBJ_0", "OBJ"} /\ s[Len(s)].jp \in Nat)
    BY <1>2, DropToOK
  <1>8. EnterNative(s)
    BY <1>1
  <1> HIDE DEF s
  <1> QED
    BY <1>1, <1>6, <1>7, <1>8, EnterKeeps

\* Go writes the mapped field and takes its state off the stack.
LEMMA ValueMappingKeeps == ASSUME IInv, ValueMapping PROVE IInv'
  <1> DEFINE cells == <<Cell("field", Top.f.id, ""), Cell("mapped", 0, Top.f.name)>>
  <1>1. pc = "go" /\ ret.code = "vmEnd" /\ UNCHANGED inputs
    BY DEF ValueMapping, Handling
  <1>2. CASE ret.v >= Len(src)
    BY <1>1, <1>2, FailKeeps DEF ValueMapping
  <1>3. CASE ~(ret.v >= Len(src))
    <2>1. AppendGo(cells) /\ EnterNative(DropTo(ret.v))
          /\ UNCHANGED <<closing, caches, ret, idx, spoiled>>
      BY <1>3 DEF ValueMapping
    <2>2. vt # <<>> /\ ret.v \in Nat /\ Top.mod = "vm"
      BY <1>1 DEF IInv, ControlOK, Terminal, TypeOK, DriverOK
    <2>3. Top.f \in FieldDesc
      BY <2>2, TopFacts DEF FrameOK
    <2>4. Cell("field", Top.f.id, "") \in CellSet /\ Cell("mapped", 0, Top.f.name) \in CellSet
      BY <2>3, InputAssumption DEF Cell, CellSet, FieldDesc
    <2>5. cells \in Seq(CellSet)
      BY <2>4, TwoCells
    <2> HIDE DEF cells
    <2>6. OutputOK'
      BY <2>1, <2>5, AppendGoTypes DEF IInv, TypeOK
    <2>7. HandlerOK'
      BY <1>1, <2>1, <2>6 DEF IInv, TypeOK, HandlerOK, InputsOK, CachesOK, DriverOK, inputs, caches
    <2> DEFINE s == DropTo(ret.v)
    <2>8. StackOK(s) /\ (s # <<>> => s[Len(s)].st \in {"ARR", "OBJ_0", "OBJ"} /\ s[Len(s)].jp \in Nat)
      BY <2>2, DropToOK
    <2>9. EnterNative(s)
      BY <2>1
    <2> HIDE DEF s
    <2> QED
      BY <1>1, <2>1, <2>7, <2>8, <2>9, EnterKeeps
  <1> QED
    BY <1>2, <1>3

\* The collector only touches the arrays.
LEMMA ReclaimKeeps == ASSUME IInv, Reclaim PROVE IInv'
  <1> DEFINE B == SUBSET (0..(WordBits - 1))
  <1>1. pc = "go" /\ UNCHANGED inputs /\ spoiled' = spoiled \cup {"gc"}
        /\ UNCHANGED <<pc, vt, locals, closing, buf, bufCap, reqsLen, fieldCache, fieldCap,
                       keyCap, ret, idx>>
    BY DEF Reclaim
  <1>2. PICK g \in {vt[i].gen : i \in 1..sp}, fill \in B :
          words' = [words EXCEPT ![g] = [j \in 1..Len(words[g]) |-> fill]]
    BY DEF Reclaim
  <1> HIDE DEF B
  <1>3. words \in Seq(Seq(B)) /\ words # <<>>
    BY DEF IInv, TypeOK, CachesOK, B
  <1> DEFINE e == [j \in 1..Len(words[g]) |-> fill]
  <1>4. words' \in Seq(Seq(B)) /\ words' # <<>>
    <2>1. CASE g \in 1..Len(words)
      <3>1. Len(words[g]) \in Nat
        BY <1>3, <2>1, ElementOfSeq, LenProperties
      <3>2. e \in [1..Len(words[g]) -> B]
        OBVIOUS
      <3>3. words' = [words EXCEPT ![g] = e]
        BY <1>2
      <3> HIDE DEF e
      <3>4. e \in Seq(B)
        BY <3>1, <3>2, FunctionSeq
      <3>5. words' \in Seq(Seq(B)) /\ Len(words') = Len(words)
        BY <1>3, <2>1, <3>3, <3>4, ExceptSeq
      <3> QED
        BY <1>3, <3>5, EmptySeq, LenProperties
    <2>2. CASE g \notin 1..Len(words)
      <3>1. words' = [words EXCEPT ![g] = e] /\ words \in [1..Len(words) -> Seq(B)]
        BY <1>2, <1>3, LenProperties
      <3> HIDE DEF e
      <3>2. words' = words
        BY <2>2, <3>1
      <3> QED
        BY <1>3, <3>2
    <2> QED
      BY <2>1, <2>2
  <1>5. TypeOK'
    BY <1>1, <1>4 DEF IInv, TypeOK, InputsOK, LocalsOK, OutputOK, CachesOK, DriverOK, inputs,
       locals, closing, B
  <1>6. Top' = Top /\ sp' = sp /\ Ch' = Ch /\ p' = p
    BY <1>1 DEF Top, sp, Ch, locals, inputs
  <1>7. StackOK(vt)' /\ TopOK'
    BY <1>1, <1>6 DEF IInv, TopOK, InObject, Parent
  <1>8. ControlOK' /\ ResumePos'
    BY <1>1, <1>6 DEF IInv, ControlOK, ResumePos, Terminal
  <1>9. MemberOK' /\ UnwindsMember'
    BY <1>1, <1>6 DEF IInv, MemberOK, UnwindsMember
  <1> QED
    BY <1>5, <1>7, <1>8, <1>9 DEF IInv

-----------------------------------------------------------------------------
(* The theorems *)

\* A call starts in the invariant: one value to read, nothing written.
LEMMA InitIInv == Init => IInv
  <1> SUFFICES ASSUME Init PROVE IInv
    OBVIOUS
  <1> DEFINE fr == State("VAL", "none", 0, RootType)
  <1>1. /\ vt = <<fr>> /\ pc = "exec" /\ p = 0 /\ nullVal = FALSE /\ unwindPos = 0
        /\ lastField = NoField /\ saved = <<>> /\ cut = FALSE /\ bit = 0 /\ shift = 0
        /\ buf = <<>> /\ reqsLen = 0 /\ fieldCache = <<>> /\ idx = 0 /\ spoiled = {}
        /\ ret = [code |-> "none", v |-> 0]
    BY DEF Init
  <1>2. fr \in Frame /\ FrameOK(fr) /\ fr.st = "VAL" /\ fr.jp = 0
    BY DescAssumption DEF State, Frame, FrameOK
  <1> HIDE DEF fr
  <1>3. vt \in Seq(Frame) /\ Len(vt) = 1 /\ vt[1] = fr
    BY <1>1, <1>2
  <1>4. StackOK(vt)
    BY <1>2, <1>3 DEF StackOK
  <1>5. Top = fr /\ sp = 1
    BY <1>3 DEF Top, sp
  <1>6. CachesOK
    <2> DEFINE B == SUBSET (0..(WordBits - 1))
    <2>1. PICK n \in ReqCaps, left \in {{}, 0..(WordBits - 1)} : words = <<[i \in 1..n |-> left]>>
      BY DEF Init
    <2> DEFINE e == [i \in 1..n |-> left]
    <2>2. e \in [1..n -> B] /\ n \in Nat
      BY BoundAssumption
    <2> HIDE DEF e, B
    <2>3. e \in Seq(B)
      BY <2>2, FunctionSeq
    <2>4. words \in Seq(Seq(B)) /\ words # <<>>
      BY <2>1, <2>3 DEF e
    <2>5. fieldCap \in Nat /\ keyCap \in Nat
      BY BoundAssumption DEF Init
    <2> QED
      BY <1>1, <2>4, <2>5 DEF CachesOK, B
  <1>7. TypeOK
    <2>1. InputsOK
      BY InputAssumption DEF Init, InputsOK
    <2>2. LocalsOK
      <3>1. saved \in Seq(CellSet)
        BY <1>1
      <3>2. nullVal \in BOOLEAN /\ cut \in BOOLEAN
        BY <1>1
      <3> QED
        BY <1>1, <3>1, <3>2 DEF LocalsOK
    <2>3. OutputOK
      BY <1>1, BoundAssumption DEF Init, OutputOK
    <2>4. DriverOK
      BY <1>1 DEF DriverOK, PCs, Codes
    <2> QED
      BY <1>3, <1>6, <2>1, <2>2, <2>3, <2>4 DEF TypeOK
  <1>8. ControlOK
    <2>1. Len(buf) = 0
      BY <1>1
    <2> QED
      BY <1>1, <1>5, <2>1 DEF ControlOK, Terminal
  <1>9. TopOK /\ MemberOK /\ ResumePos /\ UnwindsMember
    BY <1>1, <1>2, <1>5 DEF TopOK, MemberOK, InObject, ResumePos, UnwindsMember
  <1> QED
    BY <1>4, <1>7, <1>8, <1>9 DEF IInv

\* A step that changes nothing.
LEMMA StutterKeeps == ASSUME IInv, UNCHANGED vars PROVE IInv'
  <1>1. TypeOK' /\ StackOK(vt)' /\ TopOK'
    BY DEF IInv, TypeOK, InputsOK, LocalsOK, OutputOK, CachesOK, DriverOK, TopOK, InObject,
           Parent, Top, sp, vars, inputs, locals, closing, caches
  <1>2. ControlOK' /\ MemberOK' /\ ResumePos' /\ UnwindsMember'
    BY DEF IInv, ControlOK, MemberOK, Unwindable, InObject, ResumePos, UnwindsMember, Kind, Ch,
           Top, sp, vars, inputs, locals
  <1> QED
    BY <1>1, <1>2 DEF IInv

\* Every step of the loop, of the closing iteration and of the driver keeps the
\* invariant.
LEMMA NextIInv == IInv /\ [Next]_vars => IInv'
  <1> SUFFICES ASSUME IInv, [Next]_vars PROVE IInv'
    OBVIOUS
  <1>1. CASE Value
    BY <1>1, ValScalarKeeps, ValNullKeeps, ValListKeeps, ValMapKeeps, ValStructKeeps, ValBadKeeps,
       ValSkipKeeps, ValJsConvKeeps, ValGoMappingKeeps DEF Value
  <1>2. CASE Container
    BY <1>2, Arr0EndKeeps, Arr0StartKeeps, ArrEndKeeps, ArrNextKeeps, ArrBadKeeps, KeyBadKeeps,
       ObjNextKeeps, MapEndKeeps, StructEndKeeps DEF Container
  <1>3. CASE Key
    BY <1>3, KeyOomKeeps, KeyMapKeeps, KeyUnknownKeeps, KeyKnownKeeps, KeyBadKeeps, ElemColonKeeps
       DEF Key
  <1>4. CASE Close
    BY <1>4, UnsetWordEmptyKeeps, UnsetClearKeeps, UnsetIgnoredKeeps, UnsetTracedKeeps,
       UnsetWrittenKeeps, UnsetFailsKeeps, FreeReqsKeeps, WriteStopKeeps DEF Close
  <1>5. CASE Driver
    BY <1>5, FinishKeeps, TooDeepKeeps, GrowBufKeeps, GrowReqCacheKeeps, GrowKeyCacheKeeps,
       GrowFieldCacheKeeps, StartHttpKeeps, HttpFieldKeeps, HttpDoneKeeps, StartUnmatchedKeeps,
       UnmatchedFieldKeeps, UnmatchedDoneKeeps, ValueMappingKeeps DEF Driver
  <1>6. CASE Reclaim
    BY <1>6, ReclaimKeeps
  <1>7. CASE Stop \/ UNCHANGED vars
    BY <1>7, StutterKeeps DEF Stop
  <1> QED
    BY <1>1, <1>2, <1>3, <1>4, <1>5, <1>6, <1>7 DEF Next, Step

\* The invariant that makes resuming and unwinding correct holds in every
\* reachable state, for every IDL, text, option and capacity.
THEOREM Invariance == Spec => []IInv
  BY InitIInv, NextIInv, PTL DEF Spec

\* Every variable keeps its type.
THEOREM TypeCorrect == Spec => []TypeOK
  <1>1. IInv => TypeOK
    BY DEF IInv
  <1> QED
    BY <1>1, Invariance, PTL

\* A return to Go leaves the position of the interrupted iteration on the
\* stack (J2T_STORE and thrift.c:938), whatever was full.
THEOREM ResumesInPlace == Spec => []ResumePos
  <1>1. IInv => ResumePos
    BY DEF IInv
  <1> QED
    BY <1>1, Invariance, PTL

\* A null member finds its own header or key at the end of the output and its
\* own field in lastField, although both are lost by every return to Go.
THEOREM UnwindsOwnMember == Spec => []UnwindsMember
  <1>1. IInv => UnwindsMember
    BY DEF IInv
  <1> QED
    BY <1>1, Invariance, PTL
=============================================================================
