-------------------------------- MODULE P2J --------------------------------
(***************************************************************************)
(* conv/p2j: Protobuf to JSON in one pass over the bytes.  The calls of    *)
(* doRecurse, unmarshalSingular, unmarshalList and unmarshalMap that are   *)
(* open are the frames of stk, the innermost last, and every step is one   *)
(* turn of a loop of the innermost one.  How far a list or a map may reach *)
(* is not read from the bytes: its caller tells it, from what it believes  *)
(* to be left of its own (subLen in the source, left here).                *)
(* JSON is a sequence of tokens.                                           *)
(***************************************************************************)
EXTENDS ProtoRead, SequencesExt

CONSTANTS Messages,   \* [message -> [field number -> type]]
          Calls       \* conversions: [desc, buf, opts, ..]

VARIABLES call,       \* the conversion
          rd,         \* BinaryProtocol.Read
          out,        \* tokens of *out
          stk,        \* open calls
          ret         \* "none" while it runs, then "ok" or "error"

vars == <<call, rd, out, stk, ret>>

Buf  == call.buf
Opts == call.opts

-----------------------------------------------------------------------------
(***************************************************************************)
(* Types.  typ is a scalar kind, "msg", "list" or "map"; elem and key are  *)
(* the kinds inside a list or map, msg the message, id the BaseId.         *)
(***************************************************************************)
VarintKinds == {"bool", "int", "long", "sint"}   \* long: INT64; int: the other unsigned and INT32
Scalars     == VarintKinds \cup {"fix", "str"}

Descs == [typ : Scalars \cup {"msg", "list", "map"}, id : Nat, key : Scalars,
          elem : Scalars \cup {"msg"}, msg : DOMAIN Messages]

\* Conversions start from any bytes.
ASSUME P2JAssumption ==
    /\ \A m \in DOMAIN Messages : \A num \in DOMAIN Messages[m] :
          num \in Nat /\ Messages[m][num] \in Descs
    /\ \A c \in Calls : c.desc \in Descs /\ c.buf \in Seq(Byte)

Elem(desc) == [desc EXCEPT !.typ = desc.elem]
Key(desc)  == [desc EXCEPT !.typ = desc.key]

WireOf(typ) == CASE typ \in VarintKinds \cup {"list"} -> Varint   \* a LIST has no entry in Kind2Wire
                 [] typ = "fix" -> Fixed
                 [] OTHER -> Bytes

IsPacked(desc) == desc.typ = "list" /\ desc.elem \in Scalars \ {"str"}
IsIntKey(desc) == desc.key \in {"int", "long"}

\* JSON tokens.
Quote == <<"quote">>
Comma == <<",">>
Colon == <<":">>
Open(t)  == <<IF t = "list" THEN "[" ELSE "{">>
Close(t) == <<IF t = "list" THEN "]" ELSE "}">>
Lit(kind, v) == IF kind = "long" /\ Opts.int2string THEN <<Quote, <<kind, v>>, Quote>>
                ELSE <<<<kind, v>>>>
Name(num)    == <<<<"name", num>>, Colon>>
Quoted(desc) == IF IsIntKey(desc) THEN <<Quote>> ELSE <<>>

\* So many bytes, or the scalar, at a position and the position after it.
ReadBytes(at, size) ==
    LET end == Advance(Buf, at, size)
    IN  [at |-> end, v |-> IF end = Fail THEN <<>> ELSE SubSeq(Buf, at + 1, end)]
ReadScalar(kind, at) ==
    CASE kind \in VarintKinds -> ReadVarint(Buf, at)
      [] kind = "fix" -> ReadBytes(at, FixedWidth)
      [] kind = "str" -> LET r == ReadVarint(Buf, at) IN ReadBytes(r.at, r.v)

-----------------------------------------------------------------------------
\* An open call: k says where it stands.  end is start + l of a message or a packed list,
\* start + protoLen of a list or a map; start is where the last field of a message begins
\* (fieldStart), or the elements of a packed list.  skipped is history, for the properties only: how many
\* bytes of unknown fields the message has skipped.
Frame(k, desc) == [k |-> k, desc |-> desc, wire |-> Varint, end |-> 0, start |-> 0,
                   left |-> 0, comma |-> FALSE, skipped |-> 0]
ValueFrame(desc, wire, left) == [Frame("value", desc) EXCEPT !.wire = wire, !.left = left]

Running == ret = "none" /\ stk # <<>>
Top     == Last(stk)
At(k)   == Running /\ Top.k = k

Retop(f)      == [stk EXCEPT ![Len(stk)] = f]
Push(f, g)    == Append(Retop(f), g)
Write(tokens) == out' = out \o tokens
Goto(at)      == rd' = at

\* What the caller does when an inner call comes back at a position: a message counts down.
Resume(f, at) == IF f.k = "msg" THEN [f EXCEPT !.left = f.left - (at - f.start)] ELSE f
Popped(at)    == LET s == Front(stk)
                 IN  IF s = <<>> THEN s ELSE [s EXCEPT ![Len(s)] = Resume(s[Len(s)], at)]
Return(at) == /\ stk' = Popped(at)
              /\ ret' = IF Len(stk) = 1 THEN "ok" ELSE ret

\* An error goes up to the nearest list that is waiting for an item, which ignores it.
Waiting == {i \in DOMAIN Front(stk) : stk[i].k = "next"}
Caught  == IF Waiting = {} THEN <<>> ELSE SubSeq(stk, 1, Max(Waiting))
Throw   == /\ stk' = Caught
           /\ ret' = IF Caught = <<>> THEN "error" ELSE ret
ThrowAt(at) == Goto(at) /\ Throw /\ UNCHANGED <<call, out>>

\* Mutant: the reader is not put back.
TagFailedNowhere == ReadVarint(Buf, rd).at

\* Where a failed ConsumeTag leaves the reader: a bad number has been consumed.
TagFailed == LET at == ReadVarint(Buf, rd).at IN IF at = Fail THEN rd ELSE at

-----------------------------------------------------------------------------
Init == /\ call \in Calls
        /\ rd = 0 /\ out = <<>> /\ stk = <<>> /\ ret = "none"

\* do: a message is read to the end of the input, anything else is a value.
Do == /\ ret = "none" /\ stk = <<>>
      /\ IF call.desc.typ = "msg"
         THEN /\ stk' = <<[Frame("root", call.desc) EXCEPT !.end = Len(Buf)]>>
              /\ Write(<<Open("msg")>>)
         ELSE /\ stk' = <<ValueFrame(call.desc, WireOf(call.desc.typ), Len(Buf))>>
              /\ UNCHANGED out
      /\ UNCHANGED <<call, rd, ret>>

\* Mutant: the end of the input ends every message.
MessageDoneAtEnd == rd >= Top.end \/ rd >= Len(Buf)

\* The next tag of an open message.
MessageDone == rd >= Top.end
AtMessage   == At("msg") \/ At("root")
InMessage   == AtMessage /\ ~MessageDone
Known(num)  == num \in DOMAIN Messages[Top.desc.msg]

BadTag == /\ InMessage
          /\ ConsumeTag(Buf, rd).at = Fail
          /\ ThrowAt(TagFailed)

UnknownField ==
    /\ InMessage
    /\ \E tag \in {ConsumeTag(Buf, rd)} :
          /\ tag.at # Fail /\ ~Known(tag.num)
          /\ \E end \in {Skip(Buf, tag.at, tag.wire)} :
                IF Opts.disallow \/ end = Fail THEN ThrowAt(tag.at)
                ELSE /\ Goto(end)
                     /\ stk' = Retop([Top EXCEPT !.skipped = Top.skipped + (end - rd)])
                     /\ UNCHANGED <<call, out, ret>>

\* Mutants: the tag of a field is not counted; every field may reach to the end of the input.
LeftForWithoutTag(f, at) == IF f.k = "root" THEN f.end - at ELSE f.left
LeftForAll(f, at) == Len(Buf) - at

\* What is left for a field: in the root the rest of the input, in a nested message what the
\* fields before have left of its length.
LeftFor(f, at) == IF f.k = "root" THEN f.end - at ELSE f.left - (at - rd)

Field ==
    /\ InMessage
    /\ \E tag \in {ConsumeTag(Buf, rd)} :
          /\ tag.at # Fail /\ Known(tag.num)
          /\ LET left == LeftFor(Top, tag.at)
             IN  stk' = Push([Top EXCEPT !.comma = TRUE, !.left = left, !.start = tag.at],
                             ValueFrame(Messages[Top.desc.msg][tag.num], tag.wire, left))
          /\ Goto(tag.at)
          /\ Write((IF Top.comma THEN <<Comma>> ELSE <<>>) \o Name(tag.num))
    /\ UNCHANGED <<call, ret>>

CloseMessage == /\ AtMessage /\ MessageDone
                /\ Write(<<Close("msg")>>)
                /\ Return(rd)
                /\ UNCHANGED <<call, rd>>

-----------------------------------------------------------------------------
(***************************************************************************)
(* unmarshalSingular.                                                      *)
(***************************************************************************)
Scalar == /\ At("value") /\ Top.desc.typ \in Scalars
          /\ \E r \in {ReadScalar(Top.desc.typ, rd)} :
                IF r.at = Fail THEN ThrowAt(rd)
                ELSE /\ Goto(r.at)
                     /\ Write(Lit(Top.desc.typ, r.v))
                     /\ Return(r.at)
                     /\ UNCHANGED call

OpenMessage == /\ At("value") /\ Top.desc.typ = "msg"
               /\ \E l \in {ReadVarint(Buf, rd)} :
                     IF l.at = Fail THEN ThrowAt(rd)
                     ELSE /\ Goto(l.at)
                          /\ Write(<<Open("msg")>>)
                          /\ stk' = Retop([Frame("msg", Top.desc) EXCEPT
                                              !.end = l.at + l.v, !.left = l.v])
                          /\ UNCHANGED <<call, ret>>

-----------------------------------------------------------------------------
(***************************************************************************)
(* unmarshalList.                                                          *)
(***************************************************************************)
AtList == At("value") /\ Top.desc.typ = "list"

OpenPacked == /\ AtList /\ Top.wire = Bytes /\ IsPacked(Top.desc)
              /\ Write(<<Open("list")>>)
              /\ \E l \in {ReadVarint(Buf, rd)} :
                    IF l.at = Fail THEN Goto(rd) /\ Throw
                    ELSE /\ Goto(l.at)
                         /\ stk' = Retop([Frame("packed", Top.desc) EXCEPT
                                             !.start = l.at, !.end = l.at + l.v])
                         /\ UNCHANGED ret
              /\ UNCHANGED call

\* The error of an element is dropped; the comma looks only at where the reader is.
PackedElement ==
    /\ At("packed") /\ rd < Top.end
    /\ \E r \in {ReadScalar(Top.desc.elem, rd)} :
          LET at == IF r.at = Fail THEN rd ELSE r.at
          IN  /\ Goto(at)
              /\ Write((IF r.at = Fail THEN <<>> ELSE Lit(Top.desc.elem, r.v))
                       \o (IF at # Top.start /\ at # Top.end THEN <<Comma>> ELSE <<>>))
    /\ UNCHANGED <<call, stk, ret>>

ClosePacked == /\ At("packed") /\ rd >= Top.end
               /\ Write(<<Close("list")>>)
               /\ Return(rd)
               /\ UNCHANGED <<call, rd>>

OpenUnpacked == /\ AtList /\ ~(Top.wire = Bytes /\ IsPacked(Top.desc))
                /\ Write(<<Open("list")>>)
                /\ stk' = Retop([Frame("item", Top.desc) EXCEPT
                                    !.end = rd + Top.left, !.wire = Top.wire])
                /\ UNCHANGED <<call, rd, ret>>

\* An item; whatever its kind, the bytes in front of it are first read as a length.
Item == /\ At("item") /\ rd < Top.end
        /\ \E l \in {ReadVarint(Buf, rd)} :
              IF l.at = Fail THEN ThrowAt(rd)
              ELSE /\ stk' = Push([Top EXCEPT !.k = "next"],
                                  ValueFrame(Elem(Top.desc), Top.wire, l.at + l.v - rd))
                   /\ UNCHANGED <<call, rd, out, ret>>

\* Mutant: any field goes on with the list or map.
SameNumberAny(f, tag) == TRUE

\* After an item: is there a tag with the same number, still inside what the caller gave?
SameNumber(f, tag) == tag.num = f.desc.id
MoreItems  == At("next") /\ rd < Top.end
NextItem   == /\ MoreItems
              /\ \E tag \in {ConsumeTag(Buf, rd)} :
                    /\ tag.at # Fail /\ SameNumber(Top, tag)
                    /\ Goto(tag.at)
              /\ Write(<<Comma>>)
              /\ stk' = Retop([Top EXCEPT !.k = "item"])
              /\ UNCHANGED <<call, ret>>
BadItemTag == /\ MoreItems
              /\ ConsumeTag(Buf, rd).at = Fail
              /\ ThrowAt(rd)
\* Mutant: continue instead of break.
EndOfListContinue == (At("item") \/ At("next")) /\ rd >= Top.end

EndOfList  == \/ At("item") /\ rd >= Top.end
              \/ At("next") /\ rd >= Top.end
              \/ /\ MoreItems
                 /\ \E tag \in {ConsumeTag(Buf, rd)} : tag.at # Fail /\ ~SameNumber(Top, tag)
CloseList  == /\ EndOfList
              /\ Write(<<Close("list")>>)
              /\ Return(rd)
              /\ UNCHANGED <<call, rd>>

-----------------------------------------------------------------------------
(***************************************************************************)
(* unmarshalMap.                                                           *)
(***************************************************************************)
OpenMap == /\ At("value") /\ Top.desc.typ = "map"
           /\ \E l \in {ReadVarint(Buf, rd)} :
                 IF l.at = Fail THEN ThrowAt(rd)
                 ELSE /\ Goto(l.at)
                      /\ Write(<<Open("map")>>)
                      /\ stk' = Retop([Frame("pair", Top.desc) EXCEPT !.end = rd + Top.left])
                      /\ UNCHANGED <<call, ret>>

\* The key of a pair and the tag of its value.  Neither the numbers of the two tags nor the
\* length of the pair are looked at.
Pair == /\ At("pair")
        /\ \E tag \in {ConsumeTag(Buf, rd)} : \E key \in {ReadScalar(Top.desc.key, tag.at)} :
           \E value \in {ConsumeTag(Buf, key.at)} :
              /\ Goto(IF value.at # Fail    THEN value.at
                      ELSE IF key.at # Fail THEN key.at
                      ELSE IF tag.at # Fail THEN tag.at
                      ELSE TagFailed)
              /\ Write((IF tag.at # Fail THEN Quoted(Top.desc) ELSE <<>>)
                       \o (IF key.at # Fail THEN Lit(Top.desc.key, key.v) \o Quoted(Top.desc) \o <<Colon>>
                           ELSE <<>>))
              /\ IF value.at = Fail THEN Throw
                 ELSE /\ stk' = Push([Top EXCEPT !.k = "pairs"], ValueFrame(Elem(Top.desc), Bytes, 0))
                      /\ UNCHANGED ret
        /\ UNCHANGED call

MorePairs == At("pairs") /\ rd < Top.end
NextPair  == /\ MorePairs
             /\ \E tag \in {ConsumeTag(Buf, rd)} :
                   /\ tag.at # Fail /\ SameNumber(Top, tag)
                   /\ \E l \in {ReadVarint(Buf, tag.at)} :
                         IF l.at = Fail THEN Goto(tag.at) /\ Throw
                         ELSE Goto(l.at) /\ stk' = Retop([Top EXCEPT !.k = "pair"]) /\ UNCHANGED ret
             /\ Write(<<Comma>>)
             /\ UNCHANGED call
BadPairTag == /\ MorePairs
              /\ ConsumeTag(Buf, rd).at = Fail
              /\ ThrowAt(rd)
EndOfMap  == \/ At("pairs") /\ rd >= Top.end
             \/ /\ MorePairs
                /\ \E tag \in {ConsumeTag(Buf, rd)} : tag.at # Fail /\ ~SameNumber(Top, tag)
CloseMap  == /\ EndOfMap
             /\ Write(<<Close("map")>>)
             /\ Return(rd)
             /\ UNCHANGED <<call, rd>>

-----------------------------------------------------------------------------
Next == \/ Do
        \/ BadTag \/ UnknownField \/ Field \/ CloseMessage
        \/ Scalar \/ OpenMessage
        \/ OpenPacked \/ PackedElement \/ ClosePacked
        \/ OpenUnpacked \/ Item \/ NextItem \/ BadItemTag \/ CloseList
        \/ OpenMap \/ Pair \/ NextPair \/ BadPairTag \/ CloseMap

Spec == Init /\ [][Next]_vars /\ WF_vars(Next)

-----------------------------------------------------------------------------
(***************************************************************************)
(* Properties, for any bytes.                                              *)
(***************************************************************************)
Token == {Quote, Comma, Colon} \cup {<<b>> : b \in {"[", "]", "{", "}"}}
         \cup (({"name"} \cup VarintKinds) \X Nat) \cup ({"fix", "str"} \X Seq(Byte))
Frames == [k : {"root", "msg", "value", "packed", "item", "next", "pair", "pairs"}, desc : Descs,
           wire : 0 .. 3, end : Int, start : Nat, left : Int, comma : BOOLEAN, skipped : Nat]

\* The reader is a position in the input, whatever bytes are there, and every open call is at
\* a known place.
TypeOK == /\ rd \in 0 .. Len(Buf)
          /\ out \in Seq(Token)
          /\ stk \in Seq(Frames)
          /\ ret \in {"none", "ok", "error"}

\* What is left of the i-th open call, a nested message.
Below(i) == IF i = Len(stk) THEN stk[i].end - rd ELSE stk[i].end - stk[i].start

\* What a nested message believes to be left of it (subLen) is what is left and what it has skipped:
\* fields, lists, maps and messages in it are taken off with their tags, lengths and whatever an error
\* that was dropped has read, and nothing else is.  So no list or map in it ends early.
BudgetIsExact == \A i \in DOMAIN stk : stk[i].k = "msg" => stk[i].left = Below(i) + stk[i].skipped
=============================================================================
