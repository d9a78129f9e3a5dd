---------------------------- MODULE P2JEncoding ----------------------------
(***************************************************************************)
(* What P2J should write: an encoder of the value itself, which never      *)
(* looks at a length, and the claim that the conversion of the bytes of a  *)
(* value gives it.  A value is <<"lit", v>> (v a varint's number or the    *)
(* bytes of a string or fixed value), <<"list", values>>,                  *)
(* <<"packed", values>>, <<"map", pairs>> with pairs [key, v], or          *)
(* <<"msg", members>> with members [id, v] in their order in the bytes.    *)
(***************************************************************************)
EXTENDS P2J, ProtoWire

CONSTANT Unknown   \* the types of the fields that no message has: [number -> type]

TypeIn(msg, id) == IF id \in DOMAIN Messages[msg] THEN Messages[msg][id] ELSE Unknown[id]

-----------------------------------------------------------------------------
(***************************************************************************)
(* The bytes of a value.                                                   *)
(***************************************************************************)
WithLength(bytes) == AppendVarint(Len(bytes)) \o bytes
Joined(f) == FlattenSeq(f)

BinScalar(kind, v) == CASE kind \in VarintKinds -> AppendVarint(v)
                        [] kind = "fix" -> v
                        [] kind = "str" -> WithLength(v)

RECURSIVE BinMembers(_, _)

\* One value without its tag.
Bin(desc, v) == IF desc.typ = "msg" THEN WithLength(BinMembers(desc.msg, v[2]))
                ELSE BinScalar(desc.typ, v[2])

BinPair(desc, p) ==
    WithLength(AppendTag(1, WireOf(desc.key)) \o BinScalar(desc.key, p.key)
               \o AppendTag(2, WireOf(desc.elem)) \o Bin(Elem(desc), p.v))

\* A field with its tags.
BinField(desc, id, v) ==
    CASE v[1] = "packed" -> AppendTag(id, Bytes)
                            \o WithLength(Joined([i \in DOMAIN v[2] |-> Bin(Elem(desc), v[2][i])]))
      [] v[1] = "list" -> Joined([i \in DOMAIN v[2] |->
                                     AppendTag(id, WireOf(desc.elem)) \o Bin(Elem(desc), v[2][i])])
      [] v[1] = "map"  -> Joined([i \in DOMAIN v[2] |-> AppendTag(id, Bytes) \o BinPair(desc, v[2][i])])
      [] OTHER         -> AppendTag(id, WireOf(desc.typ)) \o Bin(desc, v)

BinMembers(msg, ms) == Joined([i \in DOMAIN ms |-> BinField(TypeIn(msg, ms[i].id), ms[i].id, ms[i].v)])

-----------------------------------------------------------------------------
(***************************************************************************)
(* The JSON of a value.                                                    *)
(***************************************************************************)
Separated(parts) == Joined([i \in DOMAIN parts |-> (IF i > 1 THEN <<Comma>> ELSE <<>>) \o parts[i]])
Around(typ, parts) == <<Open(typ)>> \o Separated(parts) \o <<Close(typ)>>

RECURSIVE Enc(_, _)
KeyJSON(desc, key) == IF IsIntKey(desc) THEN <<Quote, <<desc.key, key>>, Quote>>
                      ELSE <<<<desc.key, key>>>>
Enc(desc, v) ==
    CASE v[1] = "lit" -> Lit(desc.typ, v[2])
      [] v[1] \in {"list", "packed"} ->
             Around("list", [i \in DOMAIN v[2] |-> Enc(Elem(desc), v[2][i])])
      [] v[1] = "map" ->
             Around("map", [i \in DOMAIN v[2] |->
                               KeyJSON(desc, v[2][i].key) \o <<Colon>> \o Enc(Elem(desc), v[2][i].v)])
      [] v[1] = "msg" ->
             LET known == SelectSeq(v[2], LAMBDA m : m.id \in DOMAIN Messages[desc.msg])
             IN  Around("msg", [i \in DOMAIN known |->
                           Name(known[i].id) \o Enc(Messages[desc.msg][known[i].id], known[i].v)])

\* Is there an unknown field anywhere in a value?
RECURSIVE HasUnknown(_, _)
HasUnknown(desc, v) ==
    CASE v[1] \in {"list", "packed"} -> \E i \in DOMAIN v[2] : HasUnknown(Elem(desc), v[2][i])
      [] v[1] = "map" -> \E i \in DOMAIN v[2] : HasUnknown(Elem(desc), v[2][i].v)
      [] v[1] = "msg" -> \E i \in DOMAIN v[2] :
                            \/ v[2][i].id \notin DOMAIN Messages[desc.msg]
                            \/ HasUnknown(Messages[desc.msg][v[2][i].id], v[2][i].v)
      [] OTHER -> FALSE

\* From a position on the bytes are fields with their whole values.
RECURSIVE Whole(_)
Whole(at) == \/ at = Len(Buf)
             \/ With(ConsumeTag(Buf, at), LAMBDA tag :
                     With(Skip(Buf, tag.at, tag.wire), LAMBDA end : end # Fail /\ Whole(end)))

-----------------------------------------------------------------------------
(***************************************************************************)
(* Properties.  call.doc is the value, call.cut says that bytes are        *)
(* missing at the end of call.buf.                                         *)
(***************************************************************************)
Refused == Opts.disallow /\ HasUnknown(call.desc, call.doc)

\* A conversion gives the JSON of the value, member by member, however its lists and maps
\* find their ends; or, with DisallowUnknownField and an unknown field, an error.
Agrees == ret # "none" /\ ~call.cut =>
             IF Refused THEN ret = "error"
             ELSE ret = "ok" /\ out = Enc(call.desc, call.doc)

\* The reader stays inside every message and packed list that is open: what belongs to the
\* message outside is left to it, a list or map with the same number too.
StaysInside == ~call.cut => \A i \in DOMAIN stk : stk[i].k \in {"msg", "packed"} => rd <= stk[i].end

\* A message that has been cut off is an error, not a shorter object, unless it was cut
\* between two of its fields.
CutIsError == call.cut /\ ret = "ok" => Whole(0)

\* A conversion comes to an end.
Returns == <>(ret # "none")

\* conv/p2j/conv_test.go:566: with DisallowUnknownField an unknown field is an error, also
\* in a nested message.
UnknownFieldIsError == Refused => ret # "ok"
=============================================================================
