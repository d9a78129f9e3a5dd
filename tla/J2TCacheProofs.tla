---------------------------- MODULE J2TCacheProofs ----------------------------
(***************************************************************************)
(* Proofs about what J2TFsm keeps across returns to Go: the output that is *)
(* already written, and the slices of the requires cache.                  *)
(***************************************************************************)
EXTENDS J2TFsmProofs

-----------------------------------------------------------------------------
(* Output: what a step may do to it *)

\* The action of KeptOutput.
KeepsCommitted ==
    /\ Len(buf') >= Committed
    /\ \A i \in 1..Committed : buf'[i] = buf[i] \/ \E k \in 1..sp : vt[k].bp = i

\* What is committed has been written.
LEMMA CommittedWritten ==
    ASSUME IInv, ClosingOutput
    PROVE  /\ Len(buf) \in Nat /\ Len(saved) \in Nat
           /\ Committed \in Int /\ Committed <= Len(buf)
  <1>1. Len(buf) \in Nat /\ Len(saved) \in Nat
    BY LenProperties DEF IInv, TypeOK, OutputOK, LocalsOK
  <1> QED
    BY <1>1 DEF ClosingOutput, Committed

\* Anything may be added to the output.
LEMMA GrowthKeeps ==
    ASSUME IInv, ClosingOutput, Len(buf') \in Nat, Len(buf) <= Len(buf'),
           \A i \in 1..Len(buf) : buf'[i] = buf[i]
    PROVE  KeepsCommitted
  BY CommittedWritten DEF KeepsCommitted

\* The same for the output as it is.
LEMMA SameKeeps ==
    ASSUME IInv, ClosingOutput, buf' = buf
    PROVE  KeepsCommitted
  BY CommittedWritten, GrowthKeeps

\* Appending moves nothing that was there.
LEMMA ConcatAfter ==
    ASSUME NEW A, NEW s \in Seq(A), NEW B, NEW t \in Seq(B)
    PROVE  /\ Len(s) \in Nat /\ Len(t) \in Nat /\ Len(s \o t) = Len(s) + Len(t)
           /\ \A i \in 1..Len(s) : (s \o t)[i] = s[i]
  <1>1. s \in Seq(A \cup B) /\ t \in Seq(A \cup B)
    BY LenProperties, SeqDef
  <1> QED
    BY <1>1, ConcatProperties, LenProperties

\* The same for the cells of a step.
LEMMA CellsKeep ==
    ASSUME IInv, ClosingOutput, NEW B, NEW cells \in Seq(B), buf' = buf \o cells
    PROVE  KeepsCommitted
  <1>1. buf \in Seq(CellSet)
    BY DEF IInv, TypeOK, OutputOK
  <1> QED
    BY <1>1, ConcatAfter, GrowthKeeps

\* The same for one cell that is appended.
LEMMA AppendKeeps ==
    ASSUME IInv, ClosingOutput, NEW c, buf' = Append(buf, c)
    PROVE  KeepsCommitted
  <1>1. buf \in Seq(CellSet \cup {c})
    BY LenProperties, SeqDef DEF IInv, TypeOK, OutputOK
  <1>2. /\ Len(buf') = Len(buf) + 1 /\ Len(buf) \in Nat
        /\ \A i \in 1..Len(buf) : buf'[i] = buf[i]
    BY <1>1, AppendProperties, LenProperties
  <1> QED
    BY <1>2, GrowthKeeps

\* The size of an open container is written over, in the committed part only.
LEMMA SizedKeeps ==
    ASSUME IInv, vt # <<>>, NEW b \in Seq(CellSet), NEW n \in Nat, buf' = Sized(b, Top, n),
           Committed \in Int, Committed <= Len(b), \A i \in 1..Committed : b[i] = buf[i]
    PROVE  KeepsCommitted
  <1>1. Top \in Frame /\ sp \in Nat \ {0} /\ Top.bp \in Nat
    BY TopFacts DEF Frame
  <1>2. Len(buf') = Len(b) /\ Len(b) \in Nat
    BY <1>1, SizedTypes, LenProperties
  <1>3. ASSUME NEW i \in 1..Committed, Top.bp # i PROVE buf'[i] = buf[i]
    <2>1. i \in DOMAIN b
      BY <1>2
    <2>2. buf' = [b EXCEPT ![Top.bp] = Cell(b[Top.bp].k, n, "")]
      BY DEF Sized
    <2> QED
      BY <1>3, <2>1, <2>2
  <1>4. ASSUME NEW i \in 1..Committed, Top.bp = i PROVE \E k \in 1..sp : vt[k].bp = i
    BY <1>1, <1>4 DEF Top
  <1> QED
    BY <1>2, <1>3, <1>4 DEF KeepsCommitted

\* A null member is all that is cut off when an object goes on or ends.
LEMMA UnwoundKeeps ==
    ASSUME IInv, pc = "exec", vt # <<>>, Top.st = "OBJ"
    PROVE  /\ Unwound \in Seq(CellSet) /\ Len(buf) \in Nat
           /\ Committed = Len(Unwound) /\ Committed \in Int
           /\ Committed = Len(buf) - (IF nullVal THEN 1 ELSE 0)
           /\ \A i \in 1..Committed : Unwound[i] = buf[i]
  <1>1. Unwound \in Seq(CellSet) /\ Len(buf) \in Nat /\ unwindPos \in Nat
    BY UnwoundTypes, LenProperties DEF IInv, TypeOK, OutputOK, LocalsOK
  <1>2. Committed = Len(buf) - (IF nullVal THEN 1 ELSE 0)
    BY DEF Committed
  <1>3. CASE nullVal
    <2>1. unwindPos = Len(buf) - 1 /\ Unwound = [i \in 1..unwindPos |-> buf[i]]
      BY <1>3 DEF IInv, UnwindsMember, Unwound
    <2>2. Len(Unwound) = unwindPos
      BY <1>1, <2>1, LenProperties
    <2> QED
      BY <1>1, <1>2, <1>3, <2>1, <2>2
  <1>4. CASE ~nullVal
    BY <1>1, <1>2, <1>4 DEF Unwound
  <1> QED
    BY <1>3, <1>4

-----------------------------------------------------------------------------
(* Output: the steps *)

\* What every step must do.
OutputStep == KeepsCommitted /\ ClosingOutput'

\* A step outside the closing iteration that does not enter it.
LEMMA OutsideKeeps ==
    ASSUME KeepsCommitted, pc' \notin {"unset", "close"}
    PROVE  OutputStep
  BY DEF OutputStep, ClosingOutput

\* A step that fails, or leaves the output alone.
LEMMA FailOutput ==
    ASSUME IInv, ClosingOutput, Fail
    PROVE  OutputStep
  BY SameKeeps, OutsideKeeps DEF Fail

\* A return for more room in the output, or the cells.
LEMMA WriteOutput ==
    ASSUME IInv, ClosingOutput, pc = "exec", NEW B, NEW cells \in Seq(B), NEW s, NEW q,
           OomBuf(Len(cells)) \/ Emit(cells, s, q)
    PROVE  OutputStep
  <1>1. CASE OomBuf(Len(cells))
    BY <1>1, SameKeeps, OutsideKeeps DEF OomBuf, Return
  <1>2. CASE Emit(cells, s, q)
    BY <1>2, CellsKeep, OutsideKeeps DEF Emit
  <1> QED
    BY <1>1, <1>2

\* The values: each is written whole at the end of the output, or not at all.
LEMMA ValueOutput == ASSUME IInv, ClosingOutput, Value PROVE OutputStep
  <1> USE DEF InValue, In, Running
  <1>1. CASE ValScalar
    <2>1. <<Cell("val", 0, Tok.x)>> \in Seq({Cell("val", 0, Tok.x)}) /\ pc = "exec"
      BY <1>1 DEF ValScalar
    <2> QED
      BY <1>1, <2>1, WriteOutput, FailOutput DEF ValScalar, WriteValue
  <1>2. CASE ValNull \/ ValSkip
    BY <1>2, SameKeeps, OutsideKeeps, FailOutput DEF ValNull, ValSkip
  <1>3. CASE ValList
    <2> DEFINE c == Cell("list", 0, "")
    <2>1. pc = "exec" /\ (OomBuf(1) \/ (\E s, q : Emit(<<c>>, s, q)) \/ Fail)
      BY <1>3 DEF ValList
    <2> HIDE DEF c
    <2>2. <<c>> \in Seq({c}) /\ Len(<<c>>) = 1
      OBVIOUS
    <2> QED
      BY <2>1, <2>2, WriteOutput, FailOutput
  <1>4. CASE ValMap
    <2> DEFINE c == Cell("map", 0, "")
    <2>1. pc = "exec" /\ (OomBuf(1) \/ (\E s, q : Emit(<<c>>, s, q)) \/ Fail)
      BY <1>4 DEF ValMap
    <2> HIDE DEF c
    <2>2. <<c>> \in Seq({c}) /\ Len(<<c>>) = 1
      OBVIOUS
    <2> QED
      BY <2>1, <2>2, WriteOutput, FailOutput
  <1>5. CASE ValStruct
    BY <1>5, SameKeeps, OutsideKeeps DEF ValStruct, ReqsFull, ReqsUndefined, ReqsCut, Return
  <1>6. CASE ValBad
    BY <1>6, FailOutput DEF ValBad
  <1>7. CASE ValJsConv
    <2> DEFINE hd == Cell("field", Top.f.id, "")
               v == Cell("val", 0, Tok.x)
               d == Cell("dflt", Top.f.id, "")
               y == Cell("byte", 0, Tok.x)
    <2>1. JsConvCells(Top.f) \in {<<hd, v>>, <<hd, d>>, <<hd, v, y>>}
      BY DEF JsConvCells
    <2> HIDE DEF hd, v, d, y
    <2>2. /\ <<hd, v>> \in Seq({hd, v, d, y}) /\ <<hd, d>> \in Seq({hd, v, d, y})
          /\ <<hd, v, y>> \in Seq({hd, v, d, y})
      OBVIOUS
    <2> QED
      BY <1>7, <2>1, <2>2, WriteOutput, FailOutput DEF ValJsConv, WriteValue
  <1>8. CASE ValGoMapping
    BY <1>8, SameKeeps, OutsideKeeps, FailOutput DEF ValGoMapping, Return
  <1> QED
    BY <1>1, <1>2, <1>3, <1>4, <1>5, <1>6, <1>7, <1>8 DEF Value

\* The containers: a size is written over, or a null member cut off.
LEMMA ContainerOutput == ASSUME IInv, ClosingOutput, Container PROVE OutputStep
  <1> USE DEF In, Running
  <1>1. CASE Arr0End
    <2>1. buf \in Seq(CellSet) /\ vt # <<>> /\ buf' = Sized(buf, Top, 0) /\ pc' = "exec"
      BY <1>1, Positions DEF Arr0End
    <2> QED
      BY <2>1, CommittedWritten, SizedKeeps, OutsideKeeps
  <1>2. CASE ArrEnd
    <2>1. /\ buf \in Seq(CellSet) /\ vt # <<>> /\ pc' = "exec"
          /\ buf' = Sized(buf, Top, CountLast(Top)) /\ CountLast(Top) \in Nat
      BY <1>2, Positions, CountLastType DEF ArrEnd
    <2> QED
      BY <2>1, CommittedWritten, SizedKeeps, OutsideKeeps
  <1>3. CASE Arr0Start \/ ArrNext
    BY <1>3, SameKeeps, OutsideKeeps DEF Arr0Start, ArrNext
  <1>4. CASE ArrBad \/ Obj0Bad \/ ObjBad
    BY <1>4, FailOutput DEF ArrBad, Obj0Bad, ObjBad
  <1>5. CASE ObjNext
    <2>1. pc = "exec" /\ vt # <<>> /\ Top.st = "OBJ" /\ buf' = Unwound /\ pc' = "exec"
      BY <1>5 DEF ObjNext
    <2> QED
      BY <2>1, UnwoundKeeps, OutsideKeeps DEF KeepsCommitted
  <1>6. CASE MapEnd
    <2>1. pc = "exec" /\ vt # <<>> /\ pc' = "exec"
          /\ buf \in Seq(CellSet) /\ CountLast(Top) \in Nat
      BY <1>6, EndFacts, Positions, CountLastType DEF MapEnd
    <2>2. CASE Obj0
      BY <1>6, <2>1, <2>2, CommittedWritten, SizedKeeps, OutsideKeeps DEF MapEnd
    <2>3. CASE ~Obj0
      <3>1. Top.st = "OBJ" /\ buf' = Sized(Unwound, Top, CountLast(Top))
        BY <1>6, <2>3, EndFacts DEF MapEnd, Obj0
      <3> QED
        BY <2>1, <3>1, UnwoundKeeps, SizedKeeps, OutsideKeeps
    <2> QED
      BY <2>2, <2>3
  <1>7. CASE StructEnd
    <2>1. /\ pc = "exec" /\ vt # <<>> /\ Top.st \in {"OBJ_0", "OBJ"} /\ saved' = buf
          /\ cut' = (nullVal /\ ~Obj0) /\ buf' = IF Obj0 THEN buf ELSE Unwound
      BY <1>7, EndFacts DEF StructEnd
    <2>2. CASE Obj0
      BY <2>1, <2>2, CommittedWritten, SameKeeps DEF OutputStep, ClosingOutput
    <2>3. CASE ~Obj0
      <3>1. Top.st = "OBJ" /\ buf' = Unwound /\ cut' = nullVal
        BY <1>7, <2>1, <2>3 DEF StructEnd, Obj0, IInv, TypeOK, LocalsOK
      <3>2. KeepsCommitted
        BY <2>1, <3>1, UnwoundKeeps DEF KeepsCommitted
      <3>3. Len(saved') - (IF cut' THEN 1 ELSE 0) <= Len(buf')
        <4>1. Len(Unwound) = Len(buf) - (IF nullVal THEN 1 ELSE 0) /\ Len(buf) \in Nat
          BY <2>1, <3>1, UnwoundKeeps
        <4>2. saved' = buf /\ buf' = Unwound /\ cut' = nullVal
          BY <2>1, <3>1
        <4>3. CASE nullVal
          BY <4>1, <4>2, <4>3
        <4>4. CASE ~nullVal
          BY <4>1, <4>2, <4>4
        <4> QED
          BY <4>3, <4>4
      <3> QED
        BY <3>2, <3>3 DEF OutputStep, ClosingOutput
    <2> QED
      BY <2>2, <2>3
  <1> QED
    BY <1>1, <1>2, <1>3, <1>4, <1>5, <1>6, <1>7 DEF Container

\* The keys: a header or a key goes to the end of the output.
LEMMA KeyOutput == ASSUME IInv, ClosingOutput, Key PROVE OutputStep
  <1> USE DEF AtKey, StructKey, In, Running
  <1>1. CASE KeyOom
    BY <1>1, SameKeeps, OutsideKeeps DEF KeyOom, Return
  <1>2. CASE KeyMap
    <2>1. <<Cell("key", 0, Tok.x)>> \in Seq({Cell("key", 0, Tok.x)})
          /\ Len(<<Cell("key", 0, Tok.x)>>) = 1 /\ pc = "exec"
      BY <1>2 DEF KeyMap
    <2> QED
      BY <1>2, <2>1, WriteOutput, FailOutput DEF KeyMap
  <1>3. ASSUME NEW td, SkipElem(td), pc = "exec" PROVE OutputStep
    BY <1>3, SameKeeps, OutsideKeeps DEF SkipElem
  <1>4. CASE KeyUnknown
    BY <1>3, <1>4, FailOutput DEF KeyUnknown
  <1>5. CASE KeyKnown
    <2>1. PICK f \in Found : KeyField(f)
      BY <1>5 DEF KeyKnown
    <2>2. <<Cell("field", f.id, "")>> \in Seq({Cell("field", f.id, "")})
          /\ Len(<<Cell("field", f.id, "")>>) = 1 /\ pc = "exec"
      BY <1>5 DEF KeyKnown
    <2> QED
      BY <1>3, <2>1, <2>2, WriteOutput, SameKeeps, OutsideKeeps DEF KeyField
  <1>6. CASE KeyBad
    BY <1>6, FailOutput DEF KeyBad
  <1>7. CASE ElemColon
    BY <1>7, SameKeeps, OutsideKeeps, FailOutput DEF ElemColon
  <1> QED
    BY <1>1, <1>2, <1>4, <1>5, <1>6, <1>7 DEF Key

\* The closing iteration gives up what it has added, never what was committed.
LEMMA StoreCloseOutput ==
    ASSUME IInv, ClosingOutput, pc \in {"unset", "close"},
           NEW code, NEW v, NEW why, StoreClose(code, v, why)
    PROVE  OutputStep
  <1>1. Len(saved) \in Nat /\ Len(buf) \in Nat
    BY CommittedWritten
  <1>2. buf' = [i \in 1..Len(saved) |-> IF i <= Len(buf) THEN buf[i] ELSE saved[i]]
        /\ pc' = "go"
    BY DEF StoreClose, Return
  <1>3. Len(buf') = Len(saved)
    BY <1>1, <1>2, LenProperties
  <1>4. Committed = Len(saved) - (IF cut THEN 1 ELSE 0) /\ Committed <= Len(buf)
    BY CommittedWritten DEF Committed
  <1>5. ASSUME NEW i \in 1..Committed PROVE buf'[i] = buf[i]
    <2>1. Committed \in Int /\ i \in 1..Len(saved) /\ i <= Len(buf)
      BY <1>1, <1>4
    <2> QED
      BY <1>2, <2>1
  <1>6. Len(buf') >= Committed
    BY <1>1, <1>3, <1>4
  <1>7. KeepsCommitted
    BY <1>5, <1>6 DEF KeepsCommitted
  <1> QED
    BY <1>2, <1>7, OutsideKeeps

\* A step of the closing iteration that adds to the output.
LEMMA ClosingKeeps ==
    ASSUME IInv, ClosingOutput, pc \in {"unset", "close"}, KeepsCommitted, Len(buf') \in Nat,
           Len(buf) <= Len(buf'), saved' = saved, cut' = cut
    PROVE  OutputStep
  BY CommittedWritten DEF OutputStep, ClosingOutput

\* The same for the steps that leave it alone.
LEMMA ClosingSame ==
    ASSUME IInv, ClosingOutput, pc \in {"unset", "close"}, buf' = buf, saved' = saved, cut' = cut
    PROVE  OutputStep
  BY CommittedWritten, SameKeeps, ClosingKeeps

\* The closing iteration.
LEMMA CloseOutput == ASSUME IInv, ClosingOutput, Close PROVE OutputStep
  <1> USE DEF Unsetting, AtUnset, KeepUnset, closing
  <1>1. CASE UnsetWordEmpty \/ UnsetClear \/ UnsetIgnored
    BY <1>1, ClosingSame DEF UnsetWordEmpty, UnsetClear, UnsetIgnored
  <1>2. CASE UnsetTraced
    BY <1>2, ClosingSame, StoreCloseOutput DEF UnsetTraced
  <1>3. CASE UnsetWritten
    <2>1. PICK f \in Missing :
            \/ UNCHANGED <<buf, saved, cut>>
            \/ StoreClose("buf", 1, {})
            \/ /\ buf' = buf \o <<Cell("field", f.id, ""), Cell("dflt", f.id, "")>>
               /\ UNCHANGED <<saved, cut>>
      BY <1>3 DEF UnsetWritten
    <2>2. pc = "unset"
      BY <1>3 DEF UnsetWritten
    <2>3. CASE UNCHANGED <<buf, saved, cut>>
      BY <2>2, <2>3, ClosingSame
    <2>4. CASE StoreClose("buf", 1, {})
      BY <2>2, <2>4, StoreCloseOutput
    <2>5. CASE /\ buf' = buf \o <<Cell("field", f.id, ""), Cell("dflt", f.id, "")>>
               /\ UNCHANGED <<saved, cut>>
      <3> DEFINE a == Cell("field", f.id, "")
                 b == Cell("dflt", f.id, "")
      <3> HIDE DEF a, b
      <3>0. buf' = buf \o <<a, b>>
        BY <2>5 DEF a, b
      <3>1. <<a, b>> \in Seq({a, b}) /\ buf \in Seq(CellSet) /\ buf' = buf \o <<a, b>>
        BY <3>0, Positions
      <3>2. Len(buf') \in Nat /\ Len(buf) <= Len(buf') /\ KeepsCommitted
        <4> DEFINE t == <<a, b>>
        <4>1. t \in Seq({a, b}) /\ buf \in Seq(CellSet) /\ buf' = buf \o t
          BY <3>1
        <4> HIDE DEF t
        <4> QED
          BY <4>1, ConcatAfter, CellsKeep
      <3> QED
        BY <2>2, <2>5, <3>2, ClosingKeeps
    <2> QED
      BY <2>1, <2>3, <2>4, <2>5
  <1>4. CASE UnsetFails
    BY <1>4, FailOutput DEF UnsetFails
  <1>5. CASE FreeReqs
    BY <1>5, ClosingSame DEF FreeReqs
  <1>6. CASE WriteStop
    <2>1. CASE StoreClose("buf", 1, IF Top.len > 0 THEN {"free"} ELSE {})
      BY <1>6, <2>1, StoreCloseOutput DEF WriteStop
    <2>2. CASE buf' = Append(buf, Cell("stop", 0, "")) /\ pc' = "exec"
      BY <2>2, AppendKeeps, OutsideKeeps
    <2> QED
      BY <1>6, <2>1, <2>2 DEF WriteStop
  <1> QED
    BY <1>1, <1>2, <1>3, <1>4, <1>5, <1>6 DEF Close

\* The end of the call, and a handler that gives more room.
LEMMA EnterOutput ==
    ASSUME KeepsCommitted, NEW s, EnterNative(s)
    PROVE  OutputStep
  BY OutsideKeeps DEF EnterNative

\* writeStringValue writes at the end of the output.
LEMMA StringOutput ==
    ASSUME IInv, ClosingOutput, NEW f, NEW found, AppendGo(StringCells(f, found))
    PROVE  KeepsCommitted
  <1> DEFINE a == Cell("field", f.id, "")
             b == Cell("http", 0, f.name)
             c == Cell("dflt", f.id, "")
  <1>1. StringCells(f, found) \in {<<a, b>>, <<a, c>>, <<>>}
    BY DEF StringCells
  <1> HIDE DEF a, b, c
  <1>2. <<a, b>> \in Seq({a, b, c}) /\ <<a, c>> \in Seq({a, b, c}) /\ <<>> \in Seq({a, b, c})
    OBVIOUS
  <1> QED
    BY <1>1, <1>2, CellsKeep DEF AppendGo

\* The driver and its handlers.
LEMMA DriverOutput == ASSUME IInv, ClosingOutput, Driver PROVE OutputStep
  <1> USE DEF Handling
  <1>1. CASE Finish \/ TooDeep
    BY <1>1, SameKeeps, OutsideKeeps DEF Finish, TooDeep
  <1>2. CASE GrowBuf \/ GrowReqCache \/ GrowKeyCache \/ GrowFieldCache \/ HttpDone
    BY <1>2, SameKeeps, EnterOutput DEF GrowBuf, GrowReqCache, GrowKeyCache, GrowFieldCache, HttpDone
  <1>3. CASE StartHttp \/ StartUnmatched
    BY <1>3, SameKeeps, OutsideKeeps DEF StartHttp, StartUnmatched
  <1>4. CASE HttpField
    BY <1>4, SameKeeps, FailOutput, StringOutput, OutsideKeeps DEF HttpField
  <1>5. CASE UnmatchedField
    BY <1>5, FailOutput, StringOutput, OutsideKeeps DEF UnmatchedField
  <1>6. CASE UnmatchedDone
    <2> DEFINE c == Cell("stop", 0, "")
    <2>1. buf' = buf \o <<c>> /\ EnterNative(DropTo(ret.v))
      BY <1>6 DEF UnmatchedDone, AppendGo
    <2> HIDE DEF c
    <2>2. <<c>> \in Seq({c})
      OBVIOUS
    <2> QED
      BY <2>1, <2>2, CellsKeep, EnterOutput
  <1>7. CASE ValueMapping
    <2> DEFINE c == Cell("field", Top.f.id, "")
               d == Cell("mapped", 0, Top.f.name)
    <2>1. Fail \/ (buf' = buf \o <<c, d>> /\ EnterNative(DropTo(ret.v)))
      BY <1>7 DEF ValueMapping, AppendGo
    <2> HIDE DEF c, d
    <2>2. <<c, d>> \in Seq({c, d})
      OBVIOUS
    <2> QED
      BY <2>1, <2>2, CellsKeep, EnterOutput, FailOutput
  <1> QED
    BY <1>1, <1>2, <1>3, <1>4, <1>5, <1>6, <1>7 DEF Driver

\* Every step.
LEMMA StepOutput == ASSUME IInv, ClosingOutput, Next \/ UNCHANGED vars PROVE OutputStep
  <1>1. CASE Step
    BY <1>1, ValueOutput, ContainerOutput, KeyOutput, CloseOutput, DriverOutput DEF Step
  <1>2. CASE Reclaim
    BY <1>2, SameKeeps, OutsideKeeps DEF Reclaim
  <1>3. CASE UNCHANGED vars
    BY <1>3, SameKeeps DEF OutputStep, ClosingOutput, vars, closing
  <1> QED
    BY <1>1, <1>2, <1>3 DEF Next, Stop

\* While a struct is closed, what was committed before is still there, so that
\* J2T_STORE can go back to it.
THEOREM ClosingKeepsOutput == Spec => []ClosingOutput
  <1>1. Init => ClosingOutput
    BY DEF Init, ClosingOutput
  <1>2. IInv /\ ClosingOutput /\ [Next]_vars => ClosingOutput'
    BY StepOutput DEF OutputStep
  <1> QED
    BY <1>1, <1>2, Invariance, PTL DEF Spec

\* No step, no return to Go and no handler loses or rewrites output that is
\* committed, but for the size of a container that is still open.
THEOREM OutputKept == Spec => KeptOutput
  <1>1. IInv /\ ClosingOutput /\ [Next]_vars => [KeepsCommitted]_vars
    BY StepOutput DEF OutputStep
  <1> QED
    BY <1>1, Invariance, ClosingKeepsOutput, PTL DEF Spec, KeptOutput, KeepsCommitted

-----------------------------------------------------------------------------
(* The requires cache *)

\* Types of the stack and the cache.
LEMMA CacheTypes ==
    ASSUME IInv
    PROVE  /\ sp \in Nat /\ Gen \in Nat \ {0} /\ Len(words[Gen]) \in Nat /\ reqsLen \in Int
           /\ \A i \in 1..sp : vt[i] \in Frame /\ vt[i].len \in Nat /\ vt[i].off \in Int
  <1>1. vt \in Seq(Frame) /\ sp \in Nat /\ \A i \in 1..sp : vt[i] \in Frame
    BY LenProperties, ElementOfSeq DEF IInv, TypeOK, sp
  <1>2. Gen \in Nat \ {0} /\ Len(words[Gen]) \in Nat /\ reqsLen \in Int
    BY EmptySeq, ElementOfSeq, LenProperties DEF IInv, TypeOK, CachesOK, Gen
  <1> QED
    BY <1>1, <1>2 DEF Frame

\* What makes the invariant: where the slices are and how long the cache is.
LEMMA SlicesKeep ==
    ASSUME IInv, IInv', CacheInv, BitmapFrames', pc # "failed",
           "free" \in spoiled => "free" \in spoiled',
           "free" \notin spoiled' =>
             /\ OpenStructs' = OpenStructs
             /\ \A i \in OpenStructs : vt'[i].off = vt[i].off /\ vt'[i].len = vt[i].len
             /\ reqsLen' = reqsLen
             /\ Len(words[Gen]) <= Len(words'[Gen'])
    PROVE  CacheInv'
  <1>1. CASE "free" \in spoiled'
    BY <1>1 DEF CacheInv, BitmapsDisjoint, SlicesContiguous
  <1>2. CASE "free" \notin spoiled'
    <2>1. /\ OpenStructs' = OpenStructs /\ reqsLen' = reqsLen
          /\ \A i \in OpenStructs : vt'[i].off = vt[i].off /\ vt'[i].len = vt[i].len
          /\ Len(words[Gen]) <= Len(words'[Gen']) /\ "free" \notin spoiled
      BY <1>2
    <2>2. Len(words[Gen]) \in Nat /\ Len(words'[Gen']) \in Nat /\ reqsLen \in Int
      BY CacheTypes
    <2>3. BitmapsDisjoint'
      BY <2>1, <2>2 DEF CacheInv, BitmapsDisjoint
    <2>4. ASSUME NEW i \in OpenStructs
          PROVE  vt[i].off >= 0 /\ EndOfSlices(i - 1, vt[i].off)'
      BY <2>1 DEF CacheInv, SlicesContiguous, EndOfSlices
    <2>5. EndOfSlices(sp, reqsLen)'
      <3>1. OpenStructs \subseteq 1..sp /\ OpenStructs \subseteq 1..sp'
        BY <2>1 DEF OpenStructs
      <3>2. sp \in Nat /\ sp' \in Nat
        BY LenProperties DEF IInv, TypeOK, sp
      <3>3. EndOfSlices(sp, reqsLen)
        BY <2>1 DEF CacheInv, SlicesContiguous
      <3> QED
        BY <2>1, <3>1, <3>2, <3>3 DEF EndOfSlices
    <2>6. SlicesContiguous'
      BY <2>1, <2>4, <2>5 DEF SlicesContiguous
    <2> QED
      BY <2>3, <2>6 DEF CacheInv
  <1> QED
    BY <1>1, <1>2

\* A step after which the conversion has failed.
LEMMA FailedCache ==
    ASSUME CacheInv, pc' = "failed", vt' = vt
    PROVE  CacheInv'
  BY DEF CacheInv, BitmapFrames, BitmapsDisjoint, SlicesContiguous, sp

\* Writing to an array of the cache leaves its length.
LEMMA RoomKept ==
    ASSUME CachesOK, NEW g, NEW e, words' = [words EXCEPT ![g] = e],
           g = Gen => Len(e) = Len(words[Gen])
    PROVE  Len(words'[Gen']) = Len(words[Gen])
  <1> DEFINE B == Seq(SUBSET (0..(WordBits - 1)))
  <1>1. words \in Seq(B) /\ Gen \in Nat \ {0} /\ words \in [1..Gen -> B]
    BY EmptySeq, LenProperties DEF CachesOK, Gen
  <1> HIDE DEF B
  <1>2. CASE g \in 1..Gen
    <2>1. words \in Seq(B \cup {e})
      BY <1>1, SeqDef DEF Gen
    <2>2. Len(words') = Len(words)
      BY <1>2, <2>1, ExceptSeq DEF Gen
    <2>3. Gen' = Gen /\ words'[Gen] = IF g = Gen THEN e ELSE words[Gen]
      BY <1>1, <2>2 DEF Gen
    <2> QED
      BY <2>3
  <1>3. CASE g \notin 1..Gen
    <2>1. words' = words
      BY <1>1, <1>3
    <2> QED
      BY <2>1 DEF Gen
  <1> QED
    BY <1>2, <1>3

\* The same for a bit of a bitmap.
LEMMA BmSetRoom ==
    ASSUME CachesOK, NEW fr, NEW id, NEW req, words' = BmSet(fr, id, req)
    PROVE  Len(words'[Gen']) = Len(words[Gen])
  <1>1. PICK x : words' = [words EXCEPT ![fr.gen][WordOf(fr, id)] = x]
    BY DEF BmSet
  <1> DEFINE e == [words[fr.gen] EXCEPT ![WordOf(fr, id)] = x]
  <1>2. words' = [words EXCEPT ![fr.gen] = e]
    BY <1>1
  <1>3. ASSUME fr.gen = Gen PROVE Len(e) = Len(words[Gen])
    <2> DEFINE A == (SUBSET (0..(WordBits - 1))) \cup {x}
               w == words[Gen]
               k == WordOf(fr, id)
    <2>1. w \in Seq(SUBSET (0..(WordBits - 1)))
      BY EmptySeq, ElementOfSeq, LenProperties DEF CachesOK, Gen
    <2>2. w \in Seq(A) /\ w \in [1..Len(w) -> A] /\ x \in A
      BY <2>1, LenProperties, SeqDef
    <2> HIDE DEF A, w, k
    <2>3. Len([w EXCEPT ![k] = x]) = Len(w)
      <3>1. CASE k \in 1..Len(w)
        BY <2>2, <3>1, ExceptSeq
      <3>2. CASE k \notin 1..Len(w)
        BY <2>2, <3>2
      <3> QED
        BY <3>1, <3>2
    <2> QED
      BY <1>3, <2>3 DEF w, k
  <1> HIDE DEF e
  <1> QED
    BY <1>2, <1>3, RoomKept

-----------------------------------------------------------------------------
(* The requires cache: how the steps move the stack *)

\* The struct at the top has not given its slice back.
Holding == ~(pc = "close" \/ (pc \in {"go", "unmatched"} /\ ret.code = "hmEnd"))

\* What a step may do to the cache when it cuts nothing and gives nothing back.
CacheFrame ==
    /\ "free" \in spoiled => "free" \in spoiled'
    /\ reqsLen' = reqsLen
    /\ Len(words[Gen]) <= Len(words'[Gen'])

\* The state fr has the slice of the state old, if any.
SameSlice(fr, old) ==
    /\ fr.off = old.off /\ fr.len = old.len /\ fr.td = old.td /\ fr.mod = old.mod
    /\ old.st \in {"OBJ_0", "OBJ"} => fr.st \in {"OBJ_0", "OBJ"}

\* The states up to the m-th are those before, the others have no slice, or no
\* longer.
LEMMA StackKeeps ==
    ASSUME IInv, IInv', CacheInv, CacheFrame, pc # "failed",
           NEW m \in Nat, m <= sp, m <= sp',
           \A i \in 1..m : SameSlice(vt'[i], vt[i]),
           \A i \in (m + 1)..sp' : vt'[i].len = 0,
           \A i \in (m + 1)..sp : vt[i].len = 0 \/ Freed(i),
           "free" \notin spoiled' => \A i \in 1..m : vt[i].len = 0 \/ (~Freed(i) /\ ~Freed(i)')
    PROVE  CacheInv'
  <1>1. sp \in Nat /\ sp' \in Nat /\ \A i \in 1..sp : vt[i].len \in Nat
    BY CacheTypes, LenProperties DEF IInv, TypeOK, sp
  <1>2. BitmapFrames'
    <2> SUFFICES ASSUME NEW i \in 1..sp', vt'[i].len > 0
                 PROVE  /\ vt'[i].st \in {"OBJ_0", "OBJ"} /\ vt'[i].mod = "none"
                        /\ TypeDesc[vt'[i].td].kind = "struct"
      BY DEF BitmapFrames
    <2>1. i \in 1..m
      BY <1>1
    <2> QED
      BY <1>1, <2>1 DEF CacheInv, BitmapFrames, SameSlice
  <1>3. ASSUME "free" \notin spoiled'
        PROVE  /\ OpenStructs' = OpenStructs
               /\ \A i \in OpenStructs : vt'[i].off = vt[i].off /\ vt'[i].len = vt[i].len
    <2>1. ASSUME NEW i \in OpenStructs
          PROVE  i \in 1..m /\ i \in OpenStructs'
      <3>1. i \in 1..m
        BY <1>1 DEF OpenStructs
      <3> QED
        BY <1>1, <1>3, <3>1 DEF OpenStructs, SameSlice
    <2>2. ASSUME NEW i \in OpenStructs'
          PROVE  i \in OpenStructs
      <3>1. i \in 1..sp' /\ vt'[i].len > 0 /\ ~Freed(i)'
        BY DEF OpenStructs
      <3>2. i \in 1..m
        BY <1>1, <3>1
      <3> QED
        BY <1>1, <1>3, <3>1, <3>2 DEF OpenStructs, SameSlice
    <2> QED
      BY <2>1, <2>2 DEF SameSlice
  <1> QED
    BY <1>2, <1>3, SlicesKeep DEF CacheFrame

\* The stack stays as it is.
LEMMA SameStack ==
    ASSUME IInv, IInv', CacheInv, CacheFrame, pc # "failed", vt' = vt, Holding' = Holding
    PROVE  CacheInv'
  <1>1. sp' = sp /\ OpenStructs' = OpenStructs
    BY DEF OpenStructs, Freed, sp, Holding
  <1>2. BitmapFrames'
    BY <1>1 DEF CacheInv, BitmapFrames
  <1> QED
    BY <1>1, <1>2, SlicesKeep DEF CacheFrame

\* A value or a map is read: its state is dropped.
LEMMA DropKeeps ==
    ASSUME IInv, IInv', CacheInv, CacheFrame, pc # "failed", vt # <<>>, vt' = Below,
           Top.len = 0 \/ ~Holding, Holding'
    PROVE  CacheInv'
  <1>1. sp \in Nat \ {0} /\ sp' = sp - 1 /\ \A i \in 1..(sp - 1) : vt'[i] = vt[i]
    BY PopOK, TopFacts DEF IInv, Below, sp
  <1>2. \A i \in ((sp - 1) + 1)..sp : vt[i].len = 0 \/ Freed(i)
    BY <1>1 DEF Freed, Holding, Top
  <1>3. \A i \in 1..(sp - 1) : ~Freed(i) /\ ~Freed(i)'
    BY <1>1 DEF Freed, Holding
  <1> DEFINE m == sp - 1
  <1>4. m \in Nat /\ m <= sp /\ m <= sp'
    BY <1>1
  <1>5. \A i \in 1..m : SameSlice(vt'[i], vt[i])
    BY <1>1 DEF SameSlice
  <1>6. \A i \in (m + 1)..sp' : vt'[i].len = 0
    BY <1>1
  <1>7. (\A i \in (m + 1)..sp : vt[i].len = 0 \/ Freed(i)) /\ (\A i \in 1..m : ~Freed(i) /\ ~Freed(i)')
    BY <1>2, <1>3
  <1> HIDE DEF m
  <1> QED
    BY <1>4, <1>5, <1>6, <1>7, StackKeeps

\* The top state is replaced, both without a slice.
LEMMA ReplaceKeeps ==
    ASSUME IInv, IInv', CacheInv, CacheFrame, pc # "failed", vt # <<>>,
           NEW fr, fr.len = 0,
           vt' = Replace(vt, fr) \/ vt' = Push(Below, fr),
           Top.len = 0, Holding, Holding'
    PROVE  CacheInv'
  <1>1. /\ sp \in Nat \ {0} /\ sp' = sp /\ vt'[sp] = fr
        /\ \A i \in 1..(sp - 1) : vt'[i] = vt[i]
    <2>1. sp \in Nat \ {0} /\ vt \in Seq(Frame \cup {fr})
      BY TopFacts, SeqDef, LenProperties DEF IInv, TypeOK, sp
    <2>2. CASE vt' = Replace(vt, fr)
      BY <2>1, <2>2, ExceptSeq DEF Replace, sp
    <2>3. CASE vt' = Push(Below, fr)
      <3>1. /\ Below \in Seq(Frame) /\ Len(Below) = sp - 1 /\ \A i \in 1..(sp - 1) : Below[i] = vt[i]
        BY PopOK DEF IInv, Below, sp, StackOK
      <3>2. Below \in Seq(Frame \cup {fr})
        BY <3>1, SeqDef, LenProperties
      <3> QED
        BY <2>1, <2>3, <3>1, <3>2, AppendProperties DEF Push, sp
    <2> QED
      BY <2>2, <2>3
  <1> DEFINE m == sp - 1
  <1>4. m \in Nat /\ m <= sp /\ m <= sp'
    BY <1>1
  <1>5. \A i \in 1..m : SameSlice(vt'[i], vt[i])
    BY <1>1 DEF SameSlice
  <1>6. \A i \in (m + 1)..sp' : vt'[i].len = 0
    BY <1>1
  <1>7. (\A i \in (m + 1)..sp : vt[i].len = 0 \/ Freed(i)) /\ (\A i \in 1..m : ~Freed(i) /\ ~Freed(i)')
    BY <1>1 DEF Freed, Holding, Top
  <1> HIDE DEF m
  <1> QED
    BY <1>4, <1>5, <1>6, <1>7, StackKeeps

\* The top state moves, and a state without a slice may go over it.
LEMMA MoveTop ==
    ASSUME IInv, IInv', CacheInv, CacheFrame, pc # "failed", vt # <<>>,
           NEW fr, SameSlice(fr, Top), NEW el, el.len = 0,
           vt' = SetTop(fr) \/ vt' = Push(SetTop(fr), el),
           "free" \notin spoiled' => Top.len = 0 \/ (Holding /\ Holding')
    PROVE  CacheInv'
  <1> DEFINE s == SetTop(fr)
             A == Frame \cup {fr, el}
  <1>1. sp \in Nat \ {0} /\ vt \in Seq(A) /\ fr \in A /\ el \in A
    BY TopFacts, SeqDef, LenProperties DEF IInv, TypeOK, sp
  <1> HIDE DEF A
  <1>2. /\ s \in Seq(A) /\ Len(s) = sp /\ s[sp] = fr
        /\ \A i \in 1..(sp - 1) : s[i] = vt[i]
    BY <1>1, ExceptSeq DEF SetTop, Replace, sp
  <1> HIDE DEF s
  <1>3. /\ sp' \in {sp, sp + 1} /\ (sp' = sp + 1 => vt'[sp + 1].len = 0)
        /\ \A i \in 1..sp : vt'[i] = s[i]
    <2>1. CASE vt' = s
      BY <1>1, <1>2, <2>1 DEF sp
    <2>2. CASE vt' = Push(s, el)
      BY <1>1, <1>2, <2>2, AppendProperties DEF Push, sp
    <2> QED
      BY <2>1, <2>2 DEF s
  <1>4. sp \in Nat /\ sp <= sp /\ sp <= sp'
    BY <1>1, <1>3
  <1>5. \A i \in 1..sp : SameSlice(vt'[i], vt[i])
    <2>1. \A i \in 1..(sp - 1) : SameSlice(vt'[i], vt[i])
      BY <1>1, <1>2, <1>3 DEF SameSlice
    <2>2. SameSlice(vt'[sp], vt[sp])
      BY <1>1, <1>2, <1>3 DEF Top
    <2> QED
      BY <1>1, <2>1, <2>2
  <1>6. \A i \in (sp + 1)..sp' : vt'[i].len = 0
    BY <1>1, <1>3
  <1>7. \A i \in (sp + 1)..sp : vt[i].len = 0 \/ Freed(i)
    BY <1>1
  <1>8. "free" \notin spoiled' => \A i \in 1..sp : vt[i].len = 0 \/ (~Freed(i) /\ ~Freed(i)')
    <2>1. ASSUME NEW i \in 1..sp, i # sp PROVE ~Freed(i)
      BY <2>1 DEF Freed
    <2>2. ASSUME NEW i \in 1..sp, i # sp' PROVE ~Freed(i)'
      BY <2>2 DEF Freed
    <2>3. Holding => \A i \in 1..sp : ~Freed(i)
      BY DEF Holding, Freed
    <2>4. Holding' => \A i \in 1..sp : ~Freed(i)'
      BY DEF Holding, Freed
    <2>5. ASSUME NEW i \in 1..sp, i # sp PROVE i # sp'
      BY <1>1, <1>3, <2>5
    <2> QED
      BY <2>1, <2>2, <2>3, <2>4, <2>5 DEF Top
  <1> DEFINE m == sp
  <1>9. /\ m \in Nat /\ m <= sp /\ m <= sp'
        /\ \A i \in 1..m : SameSlice(vt'[i], vt[i])
        /\ \A i \in (m + 1)..sp' : vt'[i].len = 0
        /\ \A i \in (m + 1)..sp : vt[i].len = 0 \/ Freed(i)
        /\ "free" \notin spoiled' => \A i \in 1..m : vt[i].len = 0 \/ (~Freed(i) /\ ~Freed(i)')
    BY <1>4, <1>5, <1>6, <1>7, <1>8
  <1> HIDE DEF m
  <1> QED
    BY <1>9, StackKeeps

\* A state without a slice goes over the top state.
LEMMA PushKeeps ==
    ASSUME IInv, IInv', CacheInv, CacheFrame, pc # "failed", vt # <<>>,
           NEW el, el.len = 0, vt' = Push(vt, el), Holding, Holding'
    PROVE  CacheInv'
  <1>1. vt \in Seq(Frame) /\ vt = SetTop(Top)
    BY TopFacts, LenProperties DEF IInv, TypeOK, SetTop, Replace, Top, sp
  <1>2. SameSlice(Top, Top) /\ vt' = Push(SetTop(Top), el)
    BY <1>1 DEF SameSlice
  <1> DEFINE fr == Top
  <1>3. SameSlice(fr, Top) /\ vt' = Push(SetTop(fr), el)
    BY <1>2
  <1> HIDE DEF fr
  <1> QED
    BY <1>3, MoveTop

\* Go takes the top state off and gives its position to the one below.
LEMMA DropToKeeps ==
    ASSUME IInv, IInv', CacheInv, CacheFrame, pc # "failed", vt # <<>>,
           NEW q, vt' = DropTo(q), Top.len = 0 \/ ~Holding, Holding'
    PROVE  CacheInv'
  <1>0. /\ sp \in Nat \ {0} /\ Below \in Seq(Frame) /\ Len(Below) = sp - 1
        /\ \A i \in 1..(sp - 1) : Below[i] = vt[i] /\ vt[i] \in Frame
    BY PopOK, TopFacts, CacheTypes DEF IInv, Below, sp, StackOK
  <1>1. sp' = sp - 1 /\ \A i \in 1..(sp - 1) : SameSlice(vt'[i], vt[i])
    <2>1. CASE sp = 1
      BY <1>0, <2>1 DEF DropTo, sp
    <2>2. CASE sp # 1
      <3> DEFINE fr == [Below[sp - 1] EXCEPT !.jp = q]
                 b == Below
      <3>1. vt' = [b EXCEPT ![sp - 1] = fr] /\ sp - 1 \in 1..(sp - 1)
        BY <1>0, <2>2 DEF DropTo
      <3>2. SameSlice(fr, vt[sp - 1])
        BY <1>0, <3>1 DEF SameSlice, Frame
      <3>3. b \in Seq(Frame \cup {fr}) /\ Len(b) = sp - 1 /\ \A i \in 1..(sp - 1) : b[i] = vt[i]
        BY <1>0, SeqDef, LenProperties
      <3> HIDE DEF fr, b
      <3>4. Len(vt') = sp - 1 /\ \A i \in 1..(sp - 1) : vt'[i] = IF i = sp - 1 THEN fr ELSE vt[i]
        BY <1>0, <3>1, <3>3, ExceptSeq
      <3>5. \A i \in 1..(sp - 1) : SameSlice(vt'[i], vt[i])
        BY <3>2, <3>4 DEF SameSlice
      <3> QED
        BY <3>4, <3>5 DEF sp
    <2> QED
      BY <2>1, <2>2
  <1>2. \A i \in ((sp - 1) + 1)..sp : vt[i].len = 0 \/ Freed(i)
    BY <1>0 DEF Freed, Holding, Top
  <1>3. \A i \in 1..(sp - 1) : ~Freed(i) /\ ~Freed(i)'
    BY <1>0 DEF Freed, Holding
  <1> DEFINE m == sp - 1
  <1>4. m \in Nat /\ m <= sp /\ m <= sp'
    BY <1>0, <1>1
  <1>5. \A i \in 1..m : SameSlice(vt'[i], vt[i])
    BY <1>1
  <1>6. \A i \in (m + 1)..sp' : vt'[i].len = 0
    BY <1>0, <1>1
  <1>7. (\A i \in (m + 1)..sp : vt[i].len = 0 \/ Freed(i)) /\ (\A i \in 1..m : ~Freed(i) /\ ~Freed(i)')
    BY <1>2, <1>3
  <1> HIDE DEF m
  <1> QED
    BY <1>4, <1>5, <1>6, <1>7, StackKeeps

-----------------------------------------------------------------------------
(* The requires cache: the steps of the loop *)

\* The invariant, with that of the next state, which every step keeps.
Before == IInv /\ IInv' /\ CacheInv

\* A step that does not touch the cache.
LEMMA FrameSame ==
    ASSUME IInv, words' = words, reqsLen' = reqsLen, "free" \in spoiled => "free" \in spoiled'
    PROVE  CacheFrame
  BY CacheTypes DEF CacheFrame, Gen

\* A step that changes a bit of a bitmap.
LEMMA FrameBit ==
    ASSUME IInv, NEW fr, NEW id, NEW req, words' = BmSet(fr, id, req), reqsLen' = reqsLen,
           spoiled' = spoiled
    PROVE  CacheFrame
  BY BmSetRoom, CacheTypes DEF CacheFrame, IInv, TypeOK

\* Only an object of a struct has a slice.
LEMMA NoSlice ==
    ASSUME Before, vt # <<>>, Top.st \notin {"OBJ_0", "OBJ"} \/ Kind # "struct" \/ Top.mod # "none"
    PROVE  Top.len = 0
  <1>1. sp \in 1..sp /\ Top.len \in Nat
    BY CacheTypes, TopFacts DEF Before, Top
  <1> QED
    BY <1>1 DEF Before, CacheInv, BitmapFrames, Top, Kind

\* A return for more room.
LEMMA ReturnCache ==
    ASSUME Before, pc \in {"exec", "unset"}, NEW code, code # "hmEnd", NEW v, Return(code, v),
           UNCHANGED <<vt, caches, spoiled>>
    PROVE  CacheInv'
  <1>1. CacheFrame
    BY FrameSame DEF Before, caches
  <1> QED
    BY <1>1, SameStack DEF Before, Return, Holding

\* A step that fails.
LEMMA FailCache == ASSUME Before, Fail PROVE CacheInv'
  BY FailedCache DEF Before, Fail

\* A write of cells that does not fit, or does.
LEMMA OomCache == ASSUME Before, pc = "exec", NEW n, OomBuf(n) PROVE CacheInv'
  BY ReturnCache DEF OomBuf

\* A value is dropped.
LEMMA ValueDropped ==
    ASSUME Before, pc = "exec", vt # <<>>, Top.st = "VAL", vt' = Below, pc' = "exec",
           UNCHANGED <<caches, spoiled>>
    PROVE  CacheInv'
  <1>1. CacheFrame /\ Top.len = 0
    BY FrameSame, NoSlice DEF Before, caches
  <1> QED
    BY <1>1, DropKeeps DEF Before, Holding

\* A value becomes a list or a map.
LEMMA ValueOpened ==
    ASSUME Before, pc = "exec", vt # <<>>, Top.st = "VAL", pc' = "exec",
           NEW fr, fr.len = 0, vt' = Push(Below, fr), UNCHANGED <<caches, spoiled>>
    PROVE  CacheInv'
  <1>1. CacheFrame /\ Top.len = 0
    BY FrameSame, NoSlice DEF Before, caches
  <1> QED
    BY <1>1, ReplaceKeeps DEF Before, Holding

\* The values that have no struct.
LEMMA PlainValueCache ==
    ASSUME Before, \/ ValScalar \/ ValNull \/ ValList \/ ValMap \/ ValBad \/ ValSkip
                   \/ ValJsConv \/ ValGoMapping
    PROVE  CacheInv'
  <1> USE DEF InValue, In, Running
  <1>1. CASE ValScalar \/ ValJsConv
    <2>1. PICK cells : WriteValue(cells, Next1) \/ Fail
      BY <1>1 DEF ValScalar, ValJsConv
    <2>2. pc = "exec" /\ vt # <<>> /\ Top.st = "VAL"
      BY <1>1 DEF ValScalar, ValJsConv
    <2> QED
      BY <2>1, <2>2, OomCache, FailCache, ValueDropped DEF WriteValue, Emit, KeepRest
  <1>2. CASE ValNull \/ ValSkip
    BY <1>2, ValueDropped, FailCache DEF ValNull, ValSkip, KeepRest
  <1>3. CASE ValList \/ ValMap
    <2> DEFINE a == [State("ARR_0", "none", Next1, Top.td) EXCEPT !.bp = Len(buf) + 1]
               o == [State("OBJ_0", "none", Next1, Top.td) EXCEPT !.bp = Len(buf) + 1]
    <2>1. a.len = 0 /\ o.len = 0
      BY DEF State
    <2>2. /\ pc = "exec" /\ vt # <<>> /\ Top.st = "VAL"
          /\ \/ OomBuf(1)
             \/ Fail
             \/ /\ vt' = Push(Below, a) \/ vt' = Push(Below, o)
                /\ pc' = "exec" /\ UNCHANGED <<caches, spoiled>>
      BY <1>3 DEF ValList, ValMap, Emit, KeepRest
    <2> HIDE DEF a, o
    <2> QED
      BY <2>1, <2>2, OomCache, FailCache, ValueOpened
  <1>4. CASE ValBad
    BY <1>4, FailCache DEF ValBad
  <1>5. CASE ValGoMapping
    BY <1>5, FailCache, ReturnCache DEF ValGoMapping
  <1> QED
    BY <1>1, <1>2, <1>3, <1>4, <1>5

\* A step of a container that is dropped, or whose top state moves.
LEMMA ContainerCache ==
    ASSUME Before, \/ Arr0End \/ Arr0Start \/ ArrEnd \/ ArrNext \/ ArrBad
                   \/ Obj0Bad \/ ObjBad \/ MapEnd
    PROVE  CacheInv'
  <1> USE DEF In, Running
  <1>1. CASE Arr0End \/ ArrEnd
    <2>1. pc = "exec" /\ pc' = "exec" /\ vt # <<>> /\ Top.st \in {"ARR_0", "ARR"} /\ vt' = Below
          /\ UNCHANGED <<caches, spoiled>>
      BY <1>1 DEF Arr0End, ArrEnd, KeepRest
    <2>2. CacheFrame /\ Top.len = 0
      BY <2>1, FrameSame, NoSlice DEF Before, caches
    <2> QED
      BY <2>1, <2>2, DropKeeps DEF Before, Holding
  <1>2. CASE MapEnd
    <2>1. pc = "exec" /\ pc' = "exec" /\ vt # <<>> /\ Kind = "map" /\ vt' = Below
          /\ UNCHANGED <<caches, spoiled>>
      BY <1>2, EndFacts DEF MapEnd, KeepRest, Before
    <2>2. CacheFrame /\ Top.len = 0
      BY <2>1, FrameSame, NoSlice DEF Before, caches
    <2> QED
      BY <2>1, <2>2, DropKeeps DEF Before, Holding
  <1>3. CASE Arr0Start \/ ArrNext
    <2> DEFINE f0 == [Top EXCEPT !.st = "ARR", !.size = 0]
               f1 == [Top EXCEPT !.size = CountLast(Top)]
               e0 == State("VAL", "none", p, TypeDesc[Top.td].elem)
               e1 == State("VAL", "none", Next1, TypeDesc[Top.td].elem)
    <2>1. /\ pc = "exec" /\ pc' = "exec" /\ vt # <<>> /\ Top.st \in {"ARR_0", "ARR"}
          /\ vt' = Push(SetTop(f0), e0) \/ vt' = Push(SetTop(f1), e1)
          /\ UNCHANGED <<caches, spoiled>>
      BY <1>3 DEF Arr0Start, ArrNext, KeepRest
    <2>2. CacheFrame /\ Top \in Frame
      BY <2>1, FrameSame, TopFacts DEF Before, caches
    <2>3. SameSlice(f0, Top) /\ SameSlice(f1, Top)
      BY <2>1, <2>2 DEF SameSlice, Frame
    <2>4. e0.len = 0 /\ e1.len = 0
      BY DEF State
    <2>5. Holding /\ Holding' /\ pc # "failed"
      BY <2>1 DEF Holding
    <2> HIDE DEF f0, f1, e0, e1
    <2> QED
      BY <2>1, <2>2, <2>3, <2>4, <2>5, MoveTop DEF Before
  <1>4. CASE ArrBad \/ Obj0Bad \/ ObjBad
    BY <1>4, FailCache DEF ArrBad, Obj0Bad, ObjBad
  <1> QED
    BY <1>1, <1>2, <1>3, <1>4

\* A null member's bit goes back: the slices stay.
LEMMA ResetFrame ==
    ASSUME IInv, words' = Reset(Top) \/ words' = words, reqsLen' = reqsLen, spoiled' = spoiled
    PROVE  CacheFrame
  BY FrameSame, FrameBit DEF Reset

\* The steps of an object that goes on or ends.
LEMMA ObjectCache == ASSUME Before, ObjNext \/ StructEnd PROVE CacheInv'
  <1> USE DEF In, Running
  <1>1. CASE ObjNext
    <2> DEFINE fr == [Top EXCEPT !.size = CountLast(Top)]
               el == State("KEY", "none", Next1, Top.td)
    <2>1. /\ pc = "exec" /\ pc' = "exec" /\ vt # <<>>
          /\ vt' = Push(SetTop(fr), el) \/ vt' = Push(vt, el)
      BY <1>1 DEF ObjNext
    <2>2. CacheFrame
      BY <1>1, ResetFrame DEF ObjNext, KeepRest, Before
    <2>3. SameSlice(fr, Top) /\ el.len = 0
      BY <2>1, TopFacts DEF SameSlice, Frame, State, Before
    <2>4. Holding /\ Holding' /\ pc # "failed"
      BY <2>1 DEF Holding
    <2> HIDE DEF fr, el
    <2> QED
      BY <2>1, <2>2, <2>3, <2>4, MoveTop, PushKeeps DEF Before
  <1>2. CASE StructEnd
    <2>1. pc = "exec" /\ pc' = "unset" /\ vt' = vt
      BY <1>2, EndFacts DEF StructEnd, Before
    <2>2. CacheFrame
      BY <1>2, ResetFrame DEF StructEnd, Before
    <2> QED
      BY <2>1, <2>2, SameStack DEF Before, Holding
  <1> QED
    BY <1>1, <1>2

\* The key's state goes over the object, or takes the place of the last one.
LEMMA WithElemCache ==
    ASSUME Before, AtKey, CacheFrame, pc' = "exec", NEW el, el.len = 0, vt' = WithElem(el)
    PROVE  CacheInv'
  <1>1. pc = "exec" /\ vt # <<>> /\ Top.st \in {"OBJ_0", "KEY"} /\ Holding /\ Holding'
    BY ObjectFacts DEF Before, Holding
  <1>2. CASE Obj0
    <2> DEFINE fr == [Top EXCEPT !.st = "OBJ"]
    <2>1. SameSlice(fr, Top) /\ vt' = Push(SetTop(fr), el)
      BY <1>1, <1>2, TopFacts DEF SameSlice, Frame, WithElem, Before
    <2> HIDE DEF fr
    <2> QED
      BY <1>1, <2>1, MoveTop DEF Before
  <1>3. CASE ~Obj0
    <2>1. Top.len = 0 /\ vt' = Replace(vt, el)
      BY <1>1, <1>3, NoSlice DEF Obj0, WithElem, SetTop
    <2> QED
      BY <1>1, <2>1, ReplaceKeeps DEF Before
  <1> QED
    BY <1>2, <1>3

\* A key whose value is to be skipped.
LEMMA SkipElemCache ==
    ASSUME Before, AtKey, NEW td, SkipElem(td)
    PROVE  CacheInv'
  <1> DEFINE el == State("ELEM", "skip", Next1, td)
  <1>1. el.len = 0 /\ vt' = WithElem(el) /\ pc' = "exec"
    BY ObjectFacts DEF State, SkipElem, Before
  <1>2. CacheFrame
    BY FrameSame DEF SkipElem, KeepRest, caches, Before
  <1> HIDE DEF el
  <1> QED
    BY <1>1, <1>2, WithElemCache

\* The keys.
LEMMA KeyCache == ASSUME Before, Key PROVE CacheInv'
  <1> USE DEF StructKey
  <1>1. CASE KeyOom
    BY <1>1, ObjectFacts, ReturnCache DEF KeyOom, Before
  <1>2. CASE KeyMap
    <2> DEFINE el == State("ELEM", "none", Next1, TypeDesc[Object.td].elem)
    <2>1. /\ AtKey /\ pc = "exec"
          /\ \/ OomBuf(1) \/ Fail
             \/ vt' = WithElem(el) /\ pc' = "exec" /\ UNCHANGED <<caches, spoiled>>
      BY <1>2, ObjectFacts DEF KeyMap, Emit, KeepRest, Before
    <2>2. el.len = 0
      BY DEF State
    <2>3. UNCHANGED <<caches, spoiled>> => CacheFrame
      BY FrameSame DEF caches, Before
    <2> HIDE DEF el
    <2> QED
      BY <2>1, <2>2, <2>3, OomCache, FailCache, WithElemCache
  <1>3. CASE KeyUnknown
    BY <1>3, SkipElemCache, FailCache DEF KeyUnknown
  <1>4. CASE KeyKnown
    <2>1. PICK f \in Found : KeyField(f)
      BY <1>4 DEF KeyKnown
    <2> DEFINE e1 == FieldElem("vm", f)
               e2 == FieldElem("field", f)
    <2>2. AtKey /\ pc = "exec"
      BY <1>4, ObjectFacts DEF KeyKnown, Before
    <2>3. \/ SkipElem(NoType) \/ SkipElem(f.type) \/ OomBuf(1)
          \/ /\ vt' = WithElem(e1) \/ vt' = WithElem(e2)
             /\ pc' = "exec" /\ words' = BmSet(Object, f.id, "optional")
             /\ UNCHANGED <<reqsLen, spoiled>>
      BY <2>1, <2>2 DEF KeyField, Emit, KeepRest
    <2>4. e1.len = 0 /\ e2.len = 0
      BY DEF FieldElem, State
    <2>5. words' = BmSet(Object, f.id, "optional") /\ UNCHANGED <<reqsLen, spoiled>> => CacheFrame
      BY FrameBit DEF Before
    <2> HIDE DEF e1, e2
    <2> QED
      BY <2>2, <2>3, <2>4, <2>5, SkipElemCache, OomCache, WithElemCache
  <1>5. CASE KeyBad
    BY <1>5, FailCache DEF KeyBad
  <1>6. CASE ElemColon
    <2> DEFINE fr == [Top EXCEPT !.st = "VAL", !.jp = Next1]
    <2>1. /\ pc = "exec" /\ vt # <<>> /\ Top.st = "ELEM"
          /\ \/ Fail
             \/ vt' = Replace(vt, fr) /\ pc' = "exec" /\ UNCHANGED <<caches, spoiled>>
      BY <1>6 DEF ElemColon, In, Running, SetTop, KeepRest
    <2>2. Top.len = 0 /\ fr.len = Top.len
      BY <2>1, NoSlice, TopFacts DEF Frame, Before
    <2>3. UNCHANGED <<caches, spoiled>> => CacheFrame
      BY FrameSame DEF caches, Before
    <2> HIDE DEF fr
    <2> QED
      BY <2>1, <2>2, <2>3, FailCache, ReplaceKeeps DEF Before, Holding
  <1> QED
    BY <1>1, <1>2, <1>3, <1>4, <1>5, <1>6 DEF Key

-----------------------------------------------------------------------------
(* The requires cache: cutting a slice off and giving it back *)

\* While every slice has been given back once, the length of the cache is not
\* negative, and with a struct at the top its slice is the last one.
LEMMA LastSlice ==
    ASSUME IInv, CacheInv, "free" \notin spoiled, pc # "failed"
    PROVE  /\ reqsLen >= 0
           /\ sp \in OpenStructs => /\ reqsLen = Top.off + Top.len
                                    /\ EndOfSlices(sp - 1, Top.off)
           /\ sp \notin OpenStructs => EndOfSlices(sp - 1, reqsLen)
  <1>1. /\ EndOfSlices(sp, reqsLen)
        /\ \A i \in OpenStructs : vt[i].off >= 0 /\ EndOfSlices(i - 1, vt[i].off)
    BY DEF CacheInv, SlicesContiguous
  <1>2. /\ sp \in Nat /\ reqsLen \in Int /\ OpenStructs \subseteq 1..sp
        /\ \A i \in 1..sp : vt[i].len \in Nat /\ vt[i].off \in Int
    BY CacheTypes DEF OpenStructs
  <1>3. reqsLen >= 0
    BY <1>1, <1>2 DEF EndOfSlices
  <1>4. ASSUME sp \in OpenStructs PROVE reqsLen = Top.off + Top.len
    <2>1. PICK i \in OpenStructs : /\ i <= sp /\ reqsLen = vt[i].off + vt[i].len
                                   /\ \A j \in OpenStructs : j <= sp => j <= i
      BY <1>1, <1>2, <1>4 DEF EndOfSlices
    <2>2. i = sp
      BY <1>2, <1>4, <2>1
    <2> QED
      BY <2>1, <2>2 DEF Top
  <1>5. ASSUME sp \notin OpenStructs PROVE EndOfSlices(sp - 1, reqsLen)
    <2>1. \A i \in OpenStructs : i <= sp - 1 /\ i <= sp
      BY <1>2, <1>5
    <2> QED
      BY <1>1, <2>1 DEF EndOfSlices
  <1> QED
    BY <1>1, <1>3, <1>4, <1>5 DEF Top

\* A struct starts: its slice is cut off behind the others.
LEMMA ReqsCutCache == ASSUME Before, ValStruct, ReqsCut PROVE CacheInv'
  <1> DEFINE fr == [State("OBJ_0", "none", Next1, Top.td)
                      EXCEPT !.gen = Gen, !.off = reqsLen, !.len = TypeDesc[Top.td].words]
             n == TypeDesc[Top.td].words
  <1>1. /\ pc = "exec" /\ vt # <<>> /\ Top.st = "VAL" /\ Kind = "struct" /\ reqsLen >= 0
        /\ vt' = Push(Below, fr) /\ words' = [words EXCEPT ![Gen] = NewReqs] /\ reqsLen' = reqsLen + n
        /\ (pc' = "exec" \/ (pc' = "go" /\ ret'.code = "hm")) /\ spoiled' = spoiled
        /\ n <= Len(words[Gen]) - reqsLen
    <2>1. Lacking = reqsLen + n - Len(words[Gen]) /\ Lacking <= 0 /\ n \in Int
      <3>1. Top.td \in Types
        BY TopFacts DEF ValStruct, InValue, In, Running, Frame, FrameOK, Before
      <3> QED
        BY <3>1, DescAssumption DEF ReqsCut, Lacking, Desc
    <2>2. Len(words[Gen]) \in Nat /\ reqsLen \in Int
      BY CacheTypes DEF Before
    <2>3. n <= Len(words[Gen]) - reqsLen
      BY <2>1, <2>2
    <2>4. pc' = "exec" \/ (pc' = "go" /\ ret'.code = "hm")
      <3>1. (pc' = "go" /\ ret' = [code |-> "hm", v |-> p]) \/ pc' = pc
        BY DEF ReqsCut, Return
      <3>2. pc = "exec"
        BY DEF ValStruct, InValue, In, Running
      <3> QED
        BY <3>1, <3>2
    <2> QED
      BY <2>3, <2>4 DEF ReqsCut, ValStruct, InValue, In, Running, KeepRest
  <1>2. Top.len = 0 /\ Top.td \in Types
    <2>1. Top.td \in Types
      BY TopFacts DEF ValStruct, InValue, In, Running, Frame, FrameOK, Before
    <2> QED
      BY <1>1, <2>1, NoSlice
  <1>3. /\ fr.off = reqsLen /\ fr.len = n /\ fr.st = "OBJ_0" /\ fr.td = Top.td /\ fr.mod = "none"
    BY DEF State
  <1>4. n \in Nat /\ TypeDesc[fr.td].kind = "struct"
    BY <1>1, <1>2, <1>3, DescAssumption DEF Desc, Kind
  <1> HIDE DEF fr, n
  <1>5. /\ sp \in Nat \ {0} /\ sp' = sp /\ vt'[sp] = fr
        /\ \A i \in 1..(sp - 1) : vt'[i] = vt[i]
    <2>1. /\ Below \in Seq(Frame) /\ Len(Below) = sp - 1 /\ \A i \in 1..(sp - 1) : Below[i] = vt[i]
          /\ sp \in Nat \ {0}
      BY <1>1, PopOK, TopFacts DEF IInv, Below, sp, StackOK, Before
    <2>2. Below \in Seq(Frame \cup {fr})
      BY <2>1, SeqDef, LenProperties
    <2> QED
      BY <1>1, <2>1, <2>2, AppendProperties DEF Push, sp
  <1>6. Len(words'[Gen']) = Len(words[Gen]) /\ Len(words[Gen]) \in Nat /\ reqsLen \in Nat
    <2>1. Len(words[Gen]) \in Nat /\ reqsLen \in Nat /\ CachesOK
      BY <1>1, CacheTypes DEF Before, IInv, TypeOK
    <2>2. Len(NewReqs) = Len(words[Gen])
      BY <2>1, LenProperties DEF NewReqs
    <2> QED
      BY <1>1, <2>1, <2>2, RoomKept
  <1>7. OpenStructs = {i \in 1..(sp - 1) : vt[i].len > 0}
    BY <1>1, <1>2, <1>5 DEF OpenStructs, Freed, Top
  <1>8. OpenStructs' = OpenStructs \cup (IF n > 0 THEN {sp} ELSE {})
    <2>1. OpenStructs' = {i \in 1..sp : vt'[i].len > 0}
      BY <1>1, <1>5 DEF OpenStructs, Freed
    <2> QED
      BY <1>3, <1>4, <1>5, <1>7, <2>1
  <1>9. BitmapFrames'
    BY <1>3, <1>4, <1>5 DEF Before, CacheInv, BitmapFrames
  <1>10. CASE "free" \in spoiled
    BY <1>1, <1>9, <1>10 DEF CacheInv, BitmapsDisjoint, SlicesContiguous
  <1>11. CASE "free" \notin spoiled
    <2>1. /\ \A i, j \in OpenStructs : i < j => vt[i].off + vt[i].len <= vt[j].off
          /\ \A i \in OpenStructs : vt[i].off + vt[i].len <= reqsLen
          /\ OpenStructs = {} => reqsLen = 0
          /\ \A i \in OpenStructs : vt[i].off >= 0 /\ EndOfSlices(i - 1, vt[i].off)
          /\ EndOfSlices(sp, reqsLen)
      BY <1>1, <1>11 DEF Before, CacheInv, BitmapsDisjoint, SlicesContiguous
    <2>2. \A i \in OpenStructs : i \in 1..(sp - 1) /\ vt'[i] = vt[i] /\ vt[i].off \in Int /\ vt[i].len \in Nat
      BY <1>5, <1>7, CacheTypes DEF Before
    <2>3. \A i \in OpenStructs' : /\ i \in OpenStructs \/ (i = sp /\ n > 0)
                                  /\ vt'[i].off + vt'[i].len <= reqsLen'
      <3>1. \A i \in OpenStructs' : i \in OpenStructs \/ (i = sp /\ n > 0)
        BY <1>8
      <3>2. \A i \in OpenStructs : vt'[i].off + vt'[i].len <= reqsLen'
        <4>1. \A i \in OpenStructs : vt[i].off + vt[i].len <= reqsLen
          BY <2>1
        <4> QED
          BY <1>1, <1>4, <1>6, <2>2, <4>1
      <3>3. vt'[sp].off + vt'[sp].len = reqsLen' /\ reqsLen' \in Int
        BY <1>1, <1>3, <1>4, <1>5, <1>6
      <3> QED
        BY <3>1, <3>2, <3>3
    <2>4. \A i, j \in OpenStructs' : i < j => vt'[i].off + vt'[i].len <= vt'[j].off
      <3> SUFFICES ASSUME NEW i \in OpenStructs', NEW j \in OpenStructs', i < j
                   PROVE  vt'[i].off + vt'[i].len <= vt'[j].off
        OBVIOUS
      <3>1. i \in OpenStructs
        BY <1>5, <2>2, <2>3
      <3>2. CASE j \in OpenStructs
        BY <2>1, <2>2, <3>1, <3>2
      <3>3. CASE j = sp
        BY <1>3, <1>5, <2>1, <2>2, <3>1, <3>3
      <3> QED
        BY <2>3, <3>2, <3>3
    <2>5. OpenStructs' = {} => reqsLen' = 0
      <3>1. n = 0 => OpenStructs' = OpenStructs /\ reqsLen' = reqsLen
        BY <1>1, <1>6, <1>8
      <3>2. n > 0 => OpenStructs' # {}
        BY <1>8
      <3> QED
        BY <1>4, <2>1, <3>1, <3>2
    <2>6. reqsLen' <= Len(words'[Gen'])
      BY <1>1, <1>4, <1>6
    <2>7. EndOfSlices(sp - 1, reqsLen)
      BY <1>1, <1>7, <1>11, LastSlice DEF Before
    <2>8. ASSUME NEW k \in Int, k <= sp - 1
          PROVE  \A i : i \in OpenStructs' /\ i <= k <=> i \in OpenStructs /\ i <= k
      BY <1>5, <1>8, <2>8
    <2>9. \A i \in OpenStructs' : vt'[i].off >= 0 /\ EndOfSlices(i - 1, vt[i].off)'
      <3> SUFFICES ASSUME NEW i \in OpenStructs'
                   PROVE  vt'[i].off >= 0 /\ EndOfSlices(i - 1, vt[i].off)'
        OBVIOUS
      <3> DEFINE k == i - 1
      <3>0. k \in Int /\ k <= sp - 1
        BY <1>5, <2>2, <2>3
      <3>1. \A j : j \in OpenStructs' /\ j <= k <=> j \in OpenStructs /\ j <= k
        BY <3>0, <2>8
      <3>2. CASE i \in OpenStructs
        <4>1. vt[i].off >= 0 /\ EndOfSlices(k, vt[i].off) /\ vt'[i] = vt[i]
          BY <2>1, <2>2, <3>2
        <4> HIDE DEF k
        <4>2. EndOfSlices(k, vt[i].off)'
          BY <2>2, <3>1, <4>1 DEF EndOfSlices
        <4> QED
          BY <4>1, <4>2 DEF k
      <3>3. CASE i = sp
        <4>1. vt'[i].off = reqsLen /\ EndOfSlices(k, reqsLen)
          BY <1>3, <1>5, <2>7, <3>3
        <4> HIDE DEF k
        <4>2. EndOfSlices(k, vt[i].off)'
          BY <2>2, <3>1, <4>1 DEF EndOfSlices
        <4> QED
          BY <1>6, <4>1, <4>2 DEF k
      <3> QED
        BY <2>3, <3>2, <3>3
    <2>10. EndOfSlices(sp, reqsLen)'
      <3>1. CASE n > 0
        <4>1. sp \in OpenStructs' /\ reqsLen' = vt'[sp].off + vt'[sp].len
          BY <1>1, <1>3, <1>5, <1>8, <3>1
        <4>2. \A j \in OpenStructs' : j <= sp
          BY <1>5, <2>2, <2>3
        <4> QED
          BY <1>5, <4>1, <4>2 DEF EndOfSlices
      <3>2. CASE n = 0
        <4>1. OpenStructs' = OpenStructs /\ reqsLen' = reqsLen
          BY <1>1, <1>6, <1>8, <3>2
        <4> QED
          BY <1>5, <2>1, <2>2, <4>1 DEF EndOfSlices
      <3> QED
        BY <1>4, <3>1, <3>2
    <2>11. BitmapsDisjoint'
      BY <2>3, <2>4, <2>5, <2>6 DEF BitmapsDisjoint
    <2>12. SlicesContiguous'
      BY <2>9, <2>10 DEF SlicesContiguous
    <2> QED
      BY <1>9, <2>11, <2>12 DEF CacheInv
  <1> QED
    BY <1>10, <1>11

\* The struct at the top gives its slice back: what is left ends where the slice
\* began.
LEMMA FreeReqsCache == ASSUME Before, FreeReqs PROVE CacheInv'
  <1>1. /\ pc = "unset" /\ vt' = vt /\ words' = words /\ spoiled' = spoiled
        /\ reqsLen' = reqsLen - Top.len
    BY DEF FreeReqs, Unsetting, GivenBack
  <1>2. pc' = "close" \/ (pc' = "go" /\ ret'.code = "hmEnd")
    <2>1. pc' = "close" \/ (pc' = "go" /\ ret' = [code |-> "hmEnd", v |-> p])
      BY DEF FreeReqs, Return
    <2> QED
      BY <2>1
  <1>3. vt # <<>> /\ sp \in Nat \ {0} /\ reqsLen \in Int /\ Top.len \in Nat /\ Top.off \in Int
        /\ Gen \in Nat \ {0} /\ Len(words[Gen]) \in Nat
    BY <1>1, ClosingFacts, TopFacts, CacheTypes DEF Before, IInv, ControlOK, Terminal, Top
  <1>4. OpenStructs = {i \in 1..sp : vt[i].len > 0}
    BY <1>1 DEF OpenStructs, Freed
  <1>5. OpenStructs' = OpenStructs \ {sp} /\ sp' = sp
    BY <1>1, <1>2, <1>4 DEF OpenStructs, Freed, sp
  <1>6. BitmapFrames'
    BY <1>1 DEF Before, CacheInv, BitmapFrames, sp
  <1>7. CASE "free" \in spoiled
    BY <1>1, <1>6, <1>7 DEF CacheInv, BitmapsDisjoint, SlicesContiguous
  <1>8. CASE "free" \notin spoiled
    <2>1. /\ \A i, j \in OpenStructs : i < j => vt[i].off + vt[i].len <= vt[j].off
          /\ \A i \in OpenStructs : vt[i].off + vt[i].len <= reqsLen
          /\ reqsLen <= Len(words[Gen])
          /\ \A i \in OpenStructs : vt[i].off >= 0 /\ EndOfSlices(i - 1, vt[i].off)
      BY <1>1, <1>8 DEF Before, CacheInv, BitmapsDisjoint, SlicesContiguous
    <2>2. \A i \in OpenStructs : i \in 1..sp /\ vt[i].off \in Int /\ vt[i].len \in Nat
      BY <1>4, CacheTypes DEF Before
    <2>3. reqsLen' \in Int /\ reqsLen' <= reqsLen /\ EndOfSlices(sp - 1, reqsLen')
      <3>1. CASE sp \in OpenStructs
        <4>1. reqsLen = Top.off + Top.len /\ EndOfSlices(sp - 1, Top.off)
          BY <1>1, <1>8, <3>1, LastSlice DEF Before
        <4>2. reqsLen' = Top.off
          BY <1>1, <1>3, <4>1
        <4> QED
          BY <1>3, <4>1, <4>2
      <3>2. CASE sp \notin OpenStructs
        <4>1. Top.len = 0 /\ EndOfSlices(sp - 1, reqsLen)
          BY <1>1, <1>3, <1>4, <1>8, <3>2, LastSlice DEF Before, Top
        <4> QED
          BY <1>1, <1>3, <4>1
      <3> QED
        BY <3>1, <3>2
    <2>4. \A i \in OpenStructs' : i \in OpenStructs /\ i < sp /\ i <= sp - 1
      BY <1>3, <1>5, <2>2
    <2>5. \A i \in OpenStructs' : vt[i].off + vt[i].len <= reqsLen'
      <3>1. CASE sp \in OpenStructs
        <4>1. reqsLen' = vt[sp].off
          BY <1>1, <1>3, <1>8, <3>1, LastSlice DEF Before, Top
        <4> QED
          BY <2>1, <2>4, <3>1, <4>1
      <3>2. CASE sp \notin OpenStructs
        <4>1. reqsLen' = reqsLen
          BY <1>1, <1>3, <1>4, <3>2 DEF Top
        <4> QED
          BY <2>1, <2>4, <4>1
      <3> QED
        BY <3>1, <3>2
    <2>6. OpenStructs' = {} => reqsLen' = 0
      <3>1. OpenStructs' = {} => ~\E i \in OpenStructs : i <= sp - 1
        BY <1>3, <1>5, <2>2
      <3> QED
        BY <2>3, <3>1 DEF EndOfSlices
    <2>7. reqsLen' <= Len(words'[Gen'])
      BY <1>1, <1>3, <2>1, <2>3 DEF Gen
    <2>8. BitmapsDisjoint'
      BY <1>1, <2>1, <2>4, <2>5, <2>6, <2>7 DEF BitmapsDisjoint
    <2>9. \A i \in OpenStructs' : vt'[i].off >= 0 /\ EndOfSlices(i - 1, vt[i].off)'
      <3> SUFFICES ASSUME NEW i \in OpenStructs'
                   PROVE  vt'[i].off >= 0 /\ EndOfSlices(i - 1, vt[i].off)'
        OBVIOUS
      <3>1. i \in OpenStructs /\ i \in 1..sp /\ i <= sp - 1
        BY <2>2, <2>4
      <3> DEFINE k == i - 1
      <3>2. k \in Int /\ k < sp /\ vt[i].off >= 0 /\ EndOfSlices(k, vt[i].off)
        BY <1>3, <2>1, <3>1
      <3> HIDE DEF k
      <3>3. \A j : j \in OpenStructs' /\ j <= k <=> j \in OpenStructs /\ j <= k
        BY <1>3, <1>5, <3>2
      <3>4. EndOfSlices(k, vt[i].off)'
        BY <1>1, <3>2, <3>3 DEF EndOfSlices
      <3> QED
        BY <1>1, <3>2, <3>4 DEF k
    <2>10. EndOfSlices(sp, reqsLen)'
      <3> DEFINE k == sp - 1
                 e == reqsLen'
      <3>1. \A j : j \in OpenStructs' /\ j <= sp <=> j \in OpenStructs /\ j <= k
        BY <1>3, <1>5, <2>2, <2>4
      <3>2. EndOfSlices(k, e)
        BY <2>3
      <3> HIDE DEF k, e
      <3> QED
        BY <1>1, <1>5, <3>1, <3>2 DEF EndOfSlices, e
    <2>11. SlicesContiguous'
      BY <2>9, <2>10 DEF SlicesContiguous
    <2> QED
      BY <1>6, <2>8, <2>11 DEF CacheInv
  <1> QED
    BY <1>7, <1>8

\* A return from the closing iteration: for the stop byte the slice has been
\* given back already, and will be again.
LEMMA StoreCloseCache ==
    ASSUME Before, pc \in {"unset", "close"}, vt # <<>>,
           NEW code \in {"buf", "field"}, NEW v, NEW why, StoreClose(code, v, why),
           pc = "close" /\ Top.len > 0 => "free" \in why
    PROVE  CacheInv'
  <1> DEFINE fr == [Top EXCEPT !.jp = p - 1]
  <1>1. /\ vt' = vt \/ vt' = SetTop(fr)
        /\ pc' = "go" /\ ret'.code = code /\ why \subseteq spoiled' /\ spoiled \subseteq spoiled'
        /\ UNCHANGED caches
    BY DEF StoreClose, ClosePos, Return
  <1>2. CacheFrame /\ Top \in Frame
    BY <1>1, FrameSame, TopFacts DEF Before, caches
  <1>3. SameSlice(fr, Top) /\ SameSlice(Top, Top)
    BY <1>2 DEF SameSlice, Frame
  <1>4. vt = SetTop(Top)
    BY TopFacts, LenProperties DEF Before, IInv, TypeOK, SetTop, Replace, Top, sp
  <1>5. Holding' /\ (pc = "unset" => Holding) /\ pc # "failed"
    BY <1>1 DEF Holding
  <1>6. "free" \notin spoiled' => Top.len = 0 \/ (Holding /\ Holding')
    BY <1>1, <1>2, <1>5 DEF Frame
  <1>7. State("KEY", "none", 0, NoType).len = 0
    BY DEF State
  <1>8. PICK x \in {fr, Top} : vt' = SetTop(x)
    BY <1>1, <1>4
  <1>9. SameSlice(x, Top)
    BY <1>3
  <1> HIDE DEF fr
  <1> QED
    BY <1>2, <1>5, <1>6, <1>7, <1>8, <1>9, MoveTop DEF Before

\* The closing iteration.
LEMMA CloseCache == ASSUME Before, Close PROVE CacheInv'
  <1>0. pc \in {"unset", "close"} /\ UNCHANGED inputs => vt # <<>>
    BY DEF Before, IInv, ControlOK, Terminal
  <1>1. ASSUME pc = "unset", pc' = "unset", KeepUnset PROVE CacheInv'
    <2>1. CacheFrame
      BY <1>1, FrameSame DEF KeepUnset, Before
    <2> QED
      BY <1>1, <2>1, SameStack DEF KeepUnset, Before, Holding
  <1>2. CASE UnsetWordEmpty \/ UnsetClear \/ UnsetIgnored
    BY <1>1, <1>2 DEF UnsetWordEmpty, UnsetClear, UnsetIgnored, AtUnset, Unsetting
  <1>3. CASE UnsetTraced
    <2>1. pc = "unset" /\ UNCHANGED inputs
          /\ (StoreClose("field", p - 1, {}) \/ (KeepUnset /\ pc' = "unset"))
      BY <1>3 DEF UnsetTraced, AtUnset, Unsetting
    <2> QED
      BY <1>0, <1>1, <2>1, StoreCloseCache
  <1>4. CASE UnsetWritten
    <2>1. pc = "unset" /\ UNCHANGED inputs
          /\ (StoreClose("buf", 1, {}) \/ (KeepUnset /\ pc' = "unset"))
      BY <1>4 DEF UnsetWritten, AtUnset, Unsetting
    <2> QED
      BY <1>0, <1>1, <2>1, StoreCloseCache
  <1>5. CASE UnsetFails
    BY <1>5, FailCache DEF UnsetFails
  <1>6. CASE FreeReqs
    BY <1>6, FreeReqsCache
  <1>7. CASE WriteStop
    <2>1. pc = "close" /\ vt # <<>>
      BY <1>0, <1>7 DEF WriteStop
    <2>2. CASE StoreClose("buf", 1, IF Top.len > 0 THEN {"free"} ELSE {})
      BY <2>1, <2>2, StoreCloseCache
    <2>3. CASE vt' = Below /\ pc' = "exec" /\ UNCHANGED <<caches, spoiled>>
      <3>1. CacheFrame
        BY <2>3, FrameSame DEF Before, caches
      <3> QED
        BY <2>1, <2>3, <3>1, DropKeeps DEF Before, Holding
    <2> QED
      BY <1>7, <2>2, <2>3 DEF WriteStop
  <1> QED
    BY <1>2, <1>3, <1>4, <1>5, <1>6, <1>7 DEF Close

-----------------------------------------------------------------------------
(* The requires cache: the driver *)

\* A handler that gives room and calls the function again.
LEMMA EnterCache ==
    ASSUME Before, pc \in {"go", "http"}, pc = "go" => ret.code # "hmEnd", EnterNative(vt), CacheFrame
    PROVE  CacheInv'
  BY SameStack DEF Before, EnterNative, Holding

\* A new array has room for what the old one had.
LEMMA GrowReqCacheCache == ASSUME Before, GrowReqCache PROVE CacheInv'
  <1>1. /\ pc = "go" /\ ret.code = "bm" /\ words' = Append(words, Grown(2 * ret.v))
        /\ EnterNative(vt) /\ UNCHANGED <<reqsLen, spoiled>>
    BY DEF GrowReqCache, Handling
  <1>2. 2 * ret.v \in Nat /\ words \in Seq(Seq(SUBSET (0..(WordBits - 1))))
    BY DEF Before, IInv, TypeOK, DriverOK, CachesOK
  <1>3. Len(words[Gen]) \in Nat /\ Len(words[Gen]) + 2 * ret.v \in Nat
    BY <1>2, CacheTypes DEF Before
  <1> DEFINE n == 2 * ret.v
             g == Grown(n)
  <1>4. Len(g) = Len(words[Gen]) + n
    <2>1. n \in Nat
      BY <1>2
    <2> HIDE DEF n
    <2> QED
      BY <1>3, <2>1, LenProperties DEF Grown, n
  <1>5. g \in Seq(SUBSET (0..(WordBits - 1)))
    BY <1>2, GrownTypes DEF Before
  <1>6. words' = Append(words, g) /\ n \in Nat
    BY <1>1, <1>2
  <1> HIDE DEF g, n
  <1>7. Gen' = Len(words) + 1 /\ words'[Len(words) + 1] = g
    BY <1>2, <1>5, <1>6, AppendProperties DEF Gen
  <1>8. CacheFrame
    BY <1>1, <1>3, <1>4, <1>6, <1>7 DEF CacheFrame
  <1> QED
    BY <1>1, <1>8, EnterCache

\* The handlers of the fields: bits change, never a slice.
LEMMA HandlerCache ==
    ASSUME Before, HttpField \/ UnmatchedField \/ UnmatchedDone \/ ValueMapping
    PROVE  CacheInv'
  <1>1. CASE HttpField
    <2>1. Fail \/ (\E f, req : /\ words' = BmSet(Top, f.id, req) /\ pc' = pc /\ vt' = vt
                               /\ UNCHANGED <<reqsLen, ret, spoiled>>)
      BY <1>1 DEF HttpField
    <2>2. pc = "http"
      BY <1>1 DEF HttpField
    <2> QED
      BY <2>1, <2>2, FailCache, FrameBit, SameStack DEF Before, Holding
  <1>2. CASE UnmatchedField
    <2>1. pc = "unmatched" /\ (Fail \/ UNCHANGED <<pc, vt, caches, ret, spoiled>>)
      BY <1>2 DEF UnmatchedField
    <2>2. UNCHANGED <<caches, spoiled>> => CacheFrame
      BY FrameSame DEF Before, caches
    <2> QED
      BY <2>1, <2>2, FailCache, SameStack DEF Before, Holding
  <1>3. CASE UnmatchedDone
    <2>1. /\ pc = "unmatched" /\ vt' = DropTo(ret.v) /\ pc' \in {"done", "exec"}
          /\ UNCHANGED <<words, reqsLen, spoiled>>
      BY <1>3 DEF UnmatchedDone, EnterNative
    <2>2. CacheFrame
      BY <2>1, FrameSame DEF Before
    <2>3. vt # <<>> /\ ret.code = "hmEnd"
      BY <2>1 DEF Before, IInv, ControlOK, Terminal
    <2> QED
      BY <2>1, <2>2, <2>3, DropToKeeps DEF Before, Holding
  <1>4. CASE ValueMapping
    <2>1. /\ pc = "go" /\ ret.code = "vmEnd"
          /\ \/ Fail
             \/ vt' = DropTo(ret.v) /\ pc' \in {"done", "exec"} /\ UNCHANGED <<caches, spoiled>>
      BY <1>4 DEF ValueMapping, Handling, EnterNative
    <2>2. UNCHANGED <<caches, spoiled>> => CacheFrame
      BY FrameSame DEF Before, caches
    <2>3. vt # <<>> /\ Top.mod = "vm"
      BY <2>1 DEF Before, IInv, ControlOK, Terminal
    <2>4. Top.len = 0
      BY <2>3, NoSlice
    <2> QED
      BY <2>1, <2>2, <2>3, <2>4, FailCache, DropToKeeps DEF Before, Holding
  <1> QED
    BY <1>1, <1>2, <1>3, <1>4

\* The driver.
LEMMA DriverCache == ASSUME Before, Driver PROVE CacheInv'
  <1>1. CASE Finish
    <2>1. pc = "exec" /\ pc' = "done" /\ vt' = vt /\ UNCHANGED <<caches, spoiled>>
      BY <1>1 DEF Finish
    <2>2. CacheFrame
      BY <2>1, FrameSame DEF Before, caches
    <2> QED
      BY <2>1, <2>2, SameStack DEF Before, Holding
  <1>2. CASE TooDeep
    BY <1>2, FailedCache DEF TooDeep, Before
  <1>3. CASE GrowBuf \/ GrowKeyCache \/ HttpDone
    <2>1. /\ pc \in {"go", "http"} /\ (pc = "go" => ret.code # "hmEnd") /\ EnterNative(vt)
          /\ UNCHANGED <<words, reqsLen, spoiled>>
      BY <1>3 DEF GrowBuf, GrowKeyCache, HttpDone, Handling, caches
    <2>2. CacheFrame
      BY <2>1, FrameSame DEF Before
    <2> QED
      BY <2>1, <2>2, EnterCache
  <1>4. CASE GrowReqCache
    BY <1>4, GrowReqCacheCache
  <1>5. CASE GrowFieldCache
    <2> DEFINE fr == [Top EXCEPT !.jp = ret.v]
    <2>1. /\ pc = "go" /\ ret.code = "field" /\ vt' = SetTop(fr) /\ pc' \in {"done", "exec"}
          /\ UNCHANGED <<words, reqsLen, spoiled>>
      BY <1>5 DEF GrowFieldCache, Handling, EnterNative
    <2>2. CacheFrame /\ vt # <<>>
      BY <2>1, FrameSame DEF Before, IInv, ControlOK, Terminal
    <2>3. SameSlice(fr, Top)
      BY <2>2, TopFacts DEF Before, SameSlice, Frame
    <2>4. State("KEY", "none", 0, NoType).len = 0
      BY DEF State
    <2>5. Holding /\ Holding' /\ pc # "failed"
      BY <2>1 DEF Holding
    <2> HIDE DEF fr
    <2> QED
      BY <2>1, <2>2, <2>3, <2>4, <2>5, MoveTop DEF Before
  <1>6. CASE StartHttp \/ StartUnmatched
    <2>1. /\ pc = "go" /\ vt' = vt /\ ret' = ret /\ UNCHANGED <<caches, spoiled>>
          /\ \/ ret.code = "hm" /\ pc' = "http"
             \/ ret.code = "hmEnd" /\ pc' = "unmatched"
      BY <1>6 DEF StartHttp, StartUnmatched, Handling
    <2>2. CacheFrame
      BY <2>1, FrameSame DEF Before, caches
    <2> QED
      BY <2>1, <2>2, SameStack DEF Before, Holding
  <1>7. CASE HttpField \/ UnmatchedField \/ UnmatchedDone \/ ValueMapping
    BY <1>7, HandlerCache
  <1> QED
    BY <1>1, <1>2, <1>3, <1>4, <1>5, <1>6, <1>7 DEF Driver

\* The collector writes over whole arrays, of the same length.
LEMMA ReclaimCache == ASSUME Before, Reclaim PROVE CacheInv'
  <1>1. /\ pc = "go" /\ spoiled' = spoiled \cup {"gc"}
        /\ UNCHANGED <<pc, vt, reqsLen, ret>>
    BY DEF Reclaim
  <1>2. PICK i \in 1..sp, fill \in SUBSET (0..(WordBits - 1)) :
          /\ vt[i].gen < Gen
          /\ words' = [words EXCEPT ![vt[i].gen] = [j \in 1..Len(words[vt[i].gen]) |-> fill]]
    BY DEF Reclaim
  <1> DEFINE g == vt[i].gen
             e == [j \in 1..Len(words[g]) |-> fill]
  <1>3. words' = [words EXCEPT ![g] = e] /\ g # Gen
    BY <1>2, CacheTypes DEF Before, Frame
  <1> HIDE DEF g, e
  <1>4. Len(words'[Gen']) = Len(words[Gen]) /\ Len(words[Gen]) \in Nat
    BY <1>3, RoomKept, CacheTypes DEF Before, IInv, TypeOK
  <1>5. CacheFrame
    BY <1>1, <1>4 DEF CacheFrame
  <1> QED
    BY <1>1, <1>5, SameStack DEF Before, Holding

\* A call starts with an empty cache.
LEMMA InitCache == Init => CacheInv
  <1> SUFFICES ASSUME Init PROVE CacheInv
    OBVIOUS
  <1> DEFINE fr == State("VAL", "none", 0, RootType)
  <1>1. fr.len = 0
    BY DEF State
  <1>2. vt = <<fr>> /\ reqsLen = 0
    BY DEF Init
  <1> HIDE DEF fr
  <1>3. sp = 1 /\ vt[1].len = 0
    BY <1>1, <1>2 DEF sp
  <1>4. OpenStructs = {}
    BY <1>3 DEF OpenStructs
  <1>5. Len(words[Gen]) \in Nat
    BY InitIInv, CacheTypes
  <1> QED
    BY <1>2, <1>3, <1>4, <1>5 DEF CacheInv, BitmapFrames, BitmapsDisjoint, SlicesContiguous, EndOfSlices

\* Every step.
LEMMA StepCache == ASSUME Before, Next \/ UNCHANGED vars PROVE CacheInv'
  <1>1. CASE Value
    <2>1. CASE ValStruct
      <3>1. CASE ReqsFull
        BY <2>1, <3>1, ReturnCache DEF ReqsFull, ValStruct, InValue, In, Running
      <3>2. CASE ReqsUndefined
        <4>1. pc = "exec" /\ pc' = "undefined" /\ vt' = vt /\ UNCHANGED <<caches, spoiled>>
          BY <2>1, <3>2 DEF ReqsUndefined, ValStruct, InValue, In, Running
        <4>2. CacheFrame
          BY <4>1, FrameSame DEF Before, caches
        <4> QED
          BY <4>1, <4>2, SameStack DEF Before, Holding
      <3>3. CASE ReqsCut
        BY <2>1, <3>3, ReqsCutCache
      <3> QED
        BY <2>1, <3>1, <3>2, <3>3 DEF ValStruct
    <2>2. CASE ~ValStruct
      BY <1>1, <2>2, PlainValueCache DEF Value
    <2> QED
      BY <2>1, <2>2
  <1>2. CASE Container
    BY <1>2, ContainerCache, ObjectCache DEF Container
  <1>3. CASE Key
    BY <1>3, KeyCache
  <1>4. CASE Close
    BY <1>4, CloseCache
  <1>5. CASE Driver
    BY <1>5, DriverCache
  <1>6. CASE Reclaim
    BY <1>6, ReclaimCache
  <1>7. CASE UNCHANGED vars
    <2>1. vt' = vt /\ pc' = pc /\ ret' = ret /\ UNCHANGED <<caches, spoiled>>
      BY <1>7 DEF vars
    <2>2. CacheFrame
      BY <2>1, FrameSame DEF Before, caches
    <2>3. CASE pc = "failed"
      BY <2>1, <2>3, FailedCache DEF Before
    <2>4. CASE pc # "failed"
      BY <2>1, <2>2, <2>4, SameStack DEF Before, Holding
    <2> QED
      BY <2>3, <2>4
  <1> QED
    BY <1>1, <1>2, <1>3, <1>4, <1>5, <1>6, <1>7 DEF Next, Step, Stop

\* The slices of the open structs follow each other in the requires cache, in
\* every reachable state, for every IDL, text, option and capacity.
THEOREM CacheInvariance == Spec => []CacheInv
  <1>1. IInv /\ IInv' /\ CacheInv /\ [Next]_vars => CacheInv'
    BY StepCache DEF Before
  <1> QED
    BY <1>1, InitCache, Invariance, PTL DEF Spec

\* Unless a slice has been given back twice, no two open structs share a word
\* of the requires cache, and the next slice is cut off behind all of them
\* (bm_malloc_reqs, bm_free_reqs), however often the cache was grown.
THEOREM BitmapsStayDisjoint == Spec => []BitmapsDisjoint
  <1>1. CacheInv => BitmapsDisjoint
    BY DEF CacheInv
  <1> QED
    BY <1>1, CacheInvariance, PTL

\* One step only is undefined.
LEMMA OnlyReqsUndefines ==
    ASSUME [Next]_vars, pc' = "undefined"
    PROVE  UNCHANGED vars \/ Stop \/ (ValStruct /\ ReqsUndefined)
  <1> USE DEF In, Running, InValue, Fail, Return, OomBuf, Emit
  <1>1. CASE Value
    BY <1>1 DEF Value, ValScalar, ValNull, ValList, ValMap, ValStruct, ReqsFull, ReqsCut, ValBad,
           ValSkip, ValJsConv, ValGoMapping, WriteValue
  <1>2. CASE Container
    BY <1>2 DEF Container, Arr0End, Arr0Start, ArrEnd, ArrNext, ArrBad, Obj0Bad, ObjNext, ObjBad,
           MapEnd, StructEnd, AtEnd
  <1>3. CASE Key
    BY <1>3 DEF Key, KeyOom, KeyMap, KeyUnknown, KeyKnown, KeyBad, ElemColon, AtKey, StructKey,
           KeyField, SkipElem
  <1>4. CASE Close
    BY <1>4 DEF Close, UnsetWordEmpty, UnsetClear, UnsetIgnored, UnsetTraced, UnsetWritten,
           UnsetFails, FreeReqs, WriteStop, AtUnset, Unsetting, StoreClose
  <1>5. CASE Driver
    BY <1>5 DEF Driver, Finish, TooDeep, GrowBuf, GrowReqCache, GrowKeyCache, GrowFieldCache,
           StartHttp, HttpField, HttpDone, StartUnmatched, UnmatchedField, UnmatchedDone,
           ValueMapping, Handling, EnterNative
  <1>6. CASE Reclaim
    BY <1>6 DEF Reclaim
  <1> QED
    BY <1>1, <1>2, <1>3, <1>4, <1>5, <1>6 DEF Next, Step

\* The length of the requires cache can only become negative, and the next
\* slice begin before the array, when a slice has been given back twice.
THEOREM OnlyFreeUndefines == Spec => []UndefinedAfterFree
  <1>1. Init => UndefinedAfterFree
    BY DEF Init, UndefinedAfterFree
  <1>2. IInv /\ CacheInv /\ UndefinedAfterFree /\ [Next]_vars => UndefinedAfterFree'
    <2> SUFFICES ASSUME IInv, CacheInv, UndefinedAfterFree, [Next]_vars, pc' = "undefined"
                 PROVE  "free" \in spoiled'
      BY DEF UndefinedAfterFree
    <2>1. CASE UNCHANGED vars \/ Stop
      BY <2>1 DEF UndefinedAfterFree, Stop, vars
    <2>2. CASE ValStruct /\ ReqsUndefined
      <3>1. reqsLen < 0 /\ pc = "exec" /\ spoiled' = spoiled
        BY <2>2 DEF ReqsUndefined, ValStruct, InValue, In, Running
      <3> QED
        BY <3>1, LastSlice, CacheTypes
    <2> QED
      BY <2>1, <2>2, OnlyReqsUndefines
  <1> QED
    BY <1>1, <1>2, Invariance, CacheInvariance, PTL DEF Spec
=============================================================================
