---------------------------- MODULE ProtoDecode ----------------------------
(***************************************************************************)
(* What the bytes of a Value mean: the reading of a message that the wire  *)
(* format prescribes, written without the program's search functions, and  *)
(* the claim that the calls of ProtoValue act on that meaning as ProtoTree *)
(* says.                                                                   *)
(***************************************************************************)
EXTENDS ProtoValue

CONSTANT Bad   \* the meaning of bytes that are no message

\* The fields of a message in order; raw keeps the length in front of Bytes values.
BadEntry == [num |-> 0, wire |-> 0, raw |-> <<>>]

RECURSIVE Entries(_, _)
Entries(b, at) ==
    LET To(tag, end) ==
            IF end = Fail \/ tag.wire > Bytes THEN <<BadEntry>>
            ELSE <<[num |-> tag.num, wire |-> tag.wire, raw |-> SubSeq(b, tag.at + 1, end)]>>
                 \o Entries(b, end)
    IN  IF at = Len(b) THEN <<>>
        ELSE With(ConsumeTag(b, at), LAMBDA tag :
                  With(Skip(b, tag.at, tag.wire), LAMBDA end : To(tag, end)))

\* Op on the fields of a message.
OnEntries(b, Op(_)) == With(b, LAMBDA c : With(Entries(c, 0), Op))

Content(raw) == With(ReadVarint(raw, 0), LAMBDA r : SubSeq(raw, r.at + 1, Len(raw)))

\* The elements in a packed list.
RECURSIVE Elements(_, _, _)
Elements(b, at, wire) ==
    LET To(end) == IF end = Fail THEN <<Bad>>
                   ELSE <<SubSeq(b, at + 1, end)>> \o Elements(b, end, wire)
    IN  IF at = Len(b) THEN <<>> ELSE With(Skip(b, at, wire), To)

RECURSIVE Message(_, _)

\* One value of a scalar or message type.
One(raw, typ, msg) ==
    CASE raw = Bad   -> Bad
      [] typ = "int" -> ReadVarint(raw, 0).v
      [] typ = "fix" -> raw
      [] typ = "str" -> Content(raw)
      [] typ = "msg" -> Message(Content(raw), msg)

\* A map entry: a message with the key as its field 1 and the value as its field 2.
Pair(entry, desc) ==
    LET Of(es, num, typ) == SelectSeq(es, LAMBDA e : e.num = num /\ e.wire = WireType(typ))
        On(es) == IF Len(es) = 2 /\ Of(es, 1, desc.key) # <<>> /\ Of(es, 2, desc.elem) # <<>>
                  THEN [k |-> One(Of(es, 1, desc.key)[1].raw, desc.key, desc.msg),
                        v |-> One(Of(es, 2, desc.elem)[1].raw, desc.elem, desc.msg)]
                  ELSE Bad
    IN  OnEntries(Content(entry.raw), On)

\* A list, map or message with a bad part is bad.
Whole(f) == With(f, LAMBDA g : IF \E x \in DOMAIN g : g[x] = Bad THEN Bad ELSE g)

\* All entries of one field; of a key given twice the last pair counts.
AsMap(ps) == IF \E i \in DOMAIN ps : ps[i] = Bad THEN Bad
             ELSE Whole([k \in {ps[i].k : i \in DOMAIN ps} |->
                            ps[Max({i \in DOMAIN ps : ps[i].k = k})].v])
AsList(rs, desc) == Whole([i \in DOMAIN rs |-> One(rs[i], desc.elem, desc.msg)])

Field(es, desc) ==
    CASE desc.typ = "map" -> With([i \in DOMAIN es |-> Pair(es[i], desc)], AsMap)
      [] IsPacked(desc) ->
             With(FlattenSeq([i \in DOMAIN es |->
                                With(Content(es[i].raw), LAMBDA c :
                                     Elements(c, 0, WireType(desc.elem)))]),
                  LAMBDA rs : AsList(rs, desc))
      [] desc.typ = "list" -> AsList([i \in DOMAIN es |-> es[i].raw], desc)
      [] OTHER -> One(Last(es).raw, desc.typ, desc.msg)

EntryWire(desc) == IF desc.typ \in {"list", "map"} THEN Bytes ELSE WireType(desc.typ)

Message(b, msg) ==
    LET Expected(e) == /\ e.num \in DOMAIN Fields[msg]
                       /\ e.wire = EntryWire(Fields[msg][e.num])
        On(es) ==
            IF \E i \in DOMAIN es : ~Expected(es[i]) THEN Bad
            ELSE Whole([n \in {es[i].num : i \in DOMAIN es} |->
                           With(SelectSeq(es, LAMBDA e : e.num = n),
                                LAMBDA fs : Field(fs, Fields[msg][n]))])
    IN  OnEntries(b, On)

\* The meaning of a slice that GetByPath answers; desc is the type of its place.
Node(raw, desc) ==
    LET On(es) == IF \E i \in DOMAIN es : es[i].num # desc.id THEN Bad ELSE Field(es, desc)
    IN  IF desc.typ \in {"list", "map"} THEN OnEntries(raw, On)
        ELSE One(raw, desc.typ, desc.msg)

-----------------------------------------------------------------------------
(***************************************************************************)
(* The refinement: bytes to trees, answers to answers.                     *)
(***************************************************************************)
Doc == Message(buf, Root)

AbstractRes ==
    CASE call.op = "get" /\ res.st = "ok" -> <<"ok", Node(res.raw, DescOf(call.path))>>
      [] call.op = "get"                  -> <<"missing">>
      [] call.op = "set" /\ res.st = "ok" -> <<"ok", res.exist>>
      [] call.op = "getMany" /\ res.st = "ok" ->
             <<"ok", [i \in DOMAIN call.steps |->
                        [x \in DOMAIN res.many[i] |-> Node(res.many[i][x], DescOf(Append(call.path, call.steps[i])))]]>>
      [] res.st = "ok"                    -> <<"ok">>
      [] OTHER                            -> <<"error">>

Fits(c) == DescOf(c.path).typ = c.sub.t
Meaning(c) == Node(c.sub.raw, IF Fits(c) THEN DescOf(c.path) ELSE [RootDesc EXCEPT !.typ = c.sub.t])

ManyMeanings(c) == [i \in DOMAIN c.subs |-> Node(c.subs[i].raw, DescOf(Append(c.path, c.steps[i])))]

Tree == INSTANCE ProtoTree WITH
           InitDocs <- {Message(b, Root) : b \in InitBufs},
           Sets <- {[path |-> c.path, sub |-> c.sub, val |-> Meaning(c), fits |-> Fits(c)]
                       : c \in Sets},
           SetManys <- {[path |-> c.path, steps |-> c.steps, vals |-> ManyMeanings(c)] : c \in SetManys},
           doc  <- Doc,
           res  <- AbstractRes

(***************************************************************************)
(* Properties.                                                             *)
(***************************************************************************)
\* The Value holds bytes, and every answer is one of those the calls give.
TypeOK == /\ buf \in Seq(Byte)
          /\ call.op \in {"none", "get", "set", "unset", "getMany", "setMany"}
          /\ res.st \in {"ok", "last", "absent", "error", "mismatch"}
          /\ res.exist \in BOOLEAN
          /\ res.raw \in Seq(Byte) /\ res.addr \in Seq(Nat)
          /\ \A i \in DOMAIN res.many : res.many[i] \in Seq(Seq(Byte))

\* Every call does to the meaning of the bytes what its name promises: SetByPath changes
\* the value at the path and nothing else, whatever lengths above it change, UnsetByPath
\* removes it, GetByPath answers it, GetMany and SetMany do so for several children of one
\* Value in one pass, and all lengths still agree with what they enclose.
TreeSpec == Tree!Spec

\* GetByPathWithAddress: the address of every step lies inside the level of the step
\* before and, but for the element of a packed list, on a tag with the step's number.
OnTag(addr, num) == LET tag == ConsumeTag(buf, addr) IN tag.at # Fail /\ tag.num = num
AddressesAreTags ==
    call.op = "get" /\ res.st = "ok" =>
       \A i \in DOMAIN res.addr :
          LET p == call.path[i]
          IN  /\ i > 1 => res.addr[i] > res.addr[i - 1]
              /\ p.t \in FieldSteps => OnTag(res.addr[i], p.n)
              /\ p.t \in KeySteps   => OnTag(res.addr[i], 2)

\* A call that answers an error leaves every byte as it was, also SetByPath with a node of
\* the wrong type, which still goes through updateByteLen.
FailedCallKeepsBytes == [][res'.st # "ok" => buf' = buf]_vars

(***************************************************************************)
(* What proto/INTRODUCTION.md says of SetByPath and it does not do.         *)
(***************************************************************************)
\* SetByPath leaves complete and correct lengths on every level (proto/INTRODUCTION.md:189),
\* also where the path goes through the value of a map.
LengthsComplete == call.op = "set" => Doc # Bad
=============================================================================
