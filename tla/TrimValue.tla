----------------------------- MODULE TrimValue -----------------------------
(***************************************************************************)
(* FetchAny, AssignAny and AssignValue of package trim.  FetchAny takes    *)
(* from a thrift struct what a descriptor selects, as a tree of            *)
(* map[string]interface{} and []interface{}; AssignAny puts a tree into a  *)
(* protobuf struct, and encodes what that has no field for; AssignValue    *)
(* assigns without a descriptor, by json tags.  All of them go on after an *)
(* error.                                                                  *)
(* Descriptors are normalized: names and ids are those of TrimDesc.        *)
(***************************************************************************)
EXTENDS GoValue

CONSTANTS Descs,      \* descriptors, each with its kind and children; 0 is nil
          HashName    \* hashFieldName

NoDesc == 0
Children(d) == Descs[d].children
ByName(d, name) == SelectLastInSeq(Children(d), LAMBDA c : c.name = name)
ById(d, id) == SelectLastInSeq(Children(d), LAMBDA c : c.id = id)
NamesOf(d) == {Children(d)[i].name : i \in DOMAIN Children(d)}
Wildcard(d) == Len(Children(d)) = 1 /\ Children(d)[1].name = "*"

\* The path stack.
Frame(kind, name, id) == [kind |-> kind, name |-> name, id |-> id]
Dot(name) == Frame("struct", name, 0)
Key(name) == Frame("map", name, 0)
At(i) == Frame("list", "", i)

Err(kind, path) == [kind |-> kind, path |-> path]
Got(val, errs) == [val |-> val, errs |-> errs]
Also(r, errs) == [r EXCEPT !.errs = @ \cup errs]
ErrsOf(s) == UNION {s[i].errs : i \in DOMAIN s}
ValsOf(s) == [i \in DOMAIN s |-> s[i].val]
\* A composite of what was done for each of its members.
Composite(x, set) == Got([x EXCEPT !.val = ValsOf(set)], ErrsOf(set))

\* What an interface{} holds: nil or a value.
Interface(x) == IF KindOf(x) = "interface" THEN x.val ELSE x
TreeMap(f) == Val(Map(Boxed), [k \in DOMAIN f |-> Iface(f[k])])
TreeList(s) == Val(Slice(Boxed), [i \in DOMAIN s |-> Iface(s[i])])
GotMap(got) == Got(TreeMap(ValsOf(got)), ErrsOf(got))
GotList(got) == Got(TreeList(ValsOf(got)), ErrsOf(got))
IsMap(x) == x.type = Map(Boxed)
IsList(x) == x.type = Slice(Boxed)

-----------------------------------------------------------------------------
(***************************************************************************)
(* FetchAny.                                                               *)
(***************************************************************************)
IdMap == <<"idmap">>     \* a struct as ReadAny reads it from unknown fields

RECURSIVE FetchUnknownValue(_, _)
FetchUnknownValue(x, d) ==
    IF x = Nil \/ d = NoDesc THEN x
    ELSE LET kind == Descs[d].kind
             Sub(e, c) == FetchUnknownValue(e.val, c.desc)
         IN
    CASE kind = "struct" /\ x.type = IdMap ->
            LET known == {id \in DOMAIN x.val : ById(d, id) # 0}
                Child(id) == Children(d)[ById(d, id)]
                Source(name) == CHOOSE id \in known : Child(id).name = name
            IN  TreeMap([name \in {Child(id).name : id \in known} |->
                            Sub(x.val[Source(name)], Child(Source(name)))])
      [] kind = "map" /\ IsMap(x) ->
            TreeMap([k \in DOMAIN Entries(x) |->
                        IF k \in NamesOf(d) THEN Sub(x.val[k], Children(d)[ByName(d, k)])
                        ELSE IF Wildcard(d) THEN Sub(x.val[k], Children(d)[1])
                        ELSE x.val[k].val])
      [] kind = "list" /\ IsList(x) ->
            IF Wildcard(d) THEN TreeList([i \in DOMAIN x.val |-> Sub(x.val[i], Children(d)[1])])
            ELSE LET in == SelectSeq(Children(d), LAMBDA c : c.id >= 0 /\ c.id < Len(x.val))
                 IN  TreeList([i \in DOMAIN in |-> Sub(x.val[in[i].id + 1], in[i])])
      [] OTHER -> x

\* The unknown fields of a struct that can be read, by id.
Unknown(x) == LET i == UnknownIndex(x.type) IN
              IF i = 0 \/ ~x.val[i].val.ok THEN <<>> ELSE x.val[i].val.ids
Unreadable(x) == LET i == UnknownIndex(x.type) IN i # 0 /\ ~x.val[i].val.ok

IsNilPtr(x) == KindOf(x) = "ptr" /\ IsNil(x)
NotFound(strict, path) == IF strict THEN {Err("not found", path)} ELSE {}

RECURSIVE FetchValue(_, _, _, _)
FetchChild(d, x, path, strict) ==
    IF d = NoDesc THEN Got(Interface(x), {}) ELSE FetchValue(d, x, path, strict)

\* What child c of a struct adds to the result: nothing, or its name and a value.
FetchField(x, c, path, strict) ==
    LET i == ThriftField(x.type, c.id)
        p == Append(path, Dot(c.name)) IN
    CASE i # 0 /\ ~IsNilPtr(x.val[i]) ->
            LET r == FetchChild(c.desc, x.val[i], p, strict) IN Got(c.name :> r.val, r.errs)
      [] i = 0 /\ c.id \in DOMAIN Unknown(x) ->
            Got(c.name :> FetchUnknownValue(Unknown(x)[c.id].val, c.desc), {})
      [] OTHER -> Got(<<>>, NotFound(strict, p))

\* Of two children with one name the last counts.
Together(got) == Got(TreeMap(FoldLeft(LAMBDA f, g : g.val @@ f, <<>>, got)), ErrsOf(got))

FetchStruct(d, x, path, strict) ==
    Also(Together([i \in DOMAIN Children(d) |-> FetchField(x, Children(d)[i], path, strict)]),
         IF Unreadable(x) THEN {Err("unknown fields", <<>>)} ELSE {})

FetchStrMap(d, x, path, strict) ==
    LET m == Entries(x)
        wanted == IF Wildcard(d) THEN DOMAIN m ELSE NamesOf(d) \cap DOMAIN m
        Desc(k) == Children(d)[IF Wildcard(d) THEN 1 ELSE ByName(d, k)].desc
        missing == IF Wildcard(d) THEN {} ELSE NamesOf(d) \ DOMAIN m
    IN  Also(GotMap([k \in wanted |-> IF IsNilPtr(m[k]) THEN Got(Nil, {})
                                      ELSE FetchChild(Desc(k), m[k], Append(path, Key(k)), strict)]),
             UNION {NotFound(strict, Append(path, Key(k))) : k \in missing})

\* Mutant: the position of a child is taken for its index.
IndexInOrder(cs, i) == i - 1
\* The index that a child selects is its id.
IndexOf(cs, i) == cs[i].id

\* Indices count from 0.  One that is out of range is left out, and what follows moves up.
FetchList(d, x, path, strict) ==
    LET Element(c, i) == IF IsNilPtr(x.val[i + 1]) THEN Got(Nil, {})
                         ELSE FetchChild(c.desc, x.val[i + 1], Append(path, At(i)), strict)
        in == SelectSeq(Children(d), LAMBDA c : c.id >= 0 /\ c.id < Len(x.val))
        out == {c \in Range(Children(d)) : c.id < 0 \/ c.id >= Len(x.val)}
        all == IF Wildcard(d) THEN [i \in DOMAIN x.val |-> [child |-> Children(d)[1], at |-> i - 1]]
               ELSE [i \in DOMAIN in |-> [child |-> in[i], at |-> IndexOf(in, i)]]
    IN  Also(GotList([i \in DOMAIN all |-> Element(all[i].child, all[i].at)]),
             IF Wildcard(d) THEN {} ELSE UNION {NotFound(strict, Append(path, At(c.id))) : c \in out})

FetchValue(d, x, path, strict) ==
    LET kind == Descs[d].kind IN
    CASE KindOf(x) = "ptr" -> IF IsNil(x) THEN Got(Nil, {}) ELSE FetchValue(d, x.val, path, strict)
      [] KindOf(x) # "ptr" /\ kind = "leaf" -> Got(Interface(x), {})
      [] KindOf(x) = "struct" /\ kind = "struct" -> FetchStruct(d, x, path, strict)
      [] KindOf(x) = "map" /\ kind = "map" -> FetchStrMap(d, x, path, strict)
      [] KindOf(x) \in {"slice", "array"} /\ ~IsNil(x) /\ kind = "list" -> FetchList(d, x, path, strict)
      [] OTHER -> Got(Nil, {})

-----------------------------------------------------------------------------
(***************************************************************************)
(* Assignment without a descriptor: assignLeaf and what it calls, and, but *)
(* for how errors are nested, assignLeafTryBest.                           *)
(***************************************************************************)
\* Mutant: what was done is put in the place of the pointer.
PendingBare(x, f) == Got(f.val, f.errs)
Pending(x, f) == [val |-> [x EXCEPT !.val = f.val], errs |-> f.errs]    \* f is done to what x points to
Unchanged(x) == Got(x, {})
Refused(x) == Got(x, {Err("cannot assign", <<>>)})

RECURSIVE AssignLeaf(_, _)

AssignField(src, dst) ==
    IF IsNilPtr(src) THEN Unchanged(IF KindOf(dst) = "ptr" THEN Zero(dst.type) ELSE dst)
    ELSE AssignLeaf(src, dst)

\* The entries of the literal field, which is the first field where there is none.  Entries of
\* another type panic.
MergeLiteral(src, dst, got) ==
    LET lit == JsonLiteralIndex(dst.type)
        more == src.val[JsonLiteralIndex(src.type)]
        have == got.val.val[lit]
        copies == KindOf(more) = "map" /\ KindOf(have) = "map" /\ Entries(more) # <<>> IN
    CASE ~copies -> got
      [] copies /\ more.type = have.type -> [got EXCEPT !.val.val[lit].val = Entries(more) @@ Entries(have)]
      [] copies /\ more.type # have.type -> Got(dst, {Err("panic", <<>>)})

\* The fields of one json name, and the literal fields.
AssignStructs(src, dst) ==
    LET From(j) == JsonField(src.type, Fields(dst.type)[j].json)
        Taken(j) == /\ Fields(dst.type)[j].json # "" /\ From(j) # 0
                    /\ JsonField(dst.type, Fields(dst.type)[j].json) = j
    IN  MergeLiteral(src, dst,
            Composite(dst, [j \in DOMAIN dst.val |-> IF Taken(j) THEN AssignField(src.val[From(j)], dst.val[j])
                                                     ELSE Unchanged(dst.val[j])]))

\* An element of a new slice or map.
AssignElem(src, t) ==
    IF Kind(t) # "ptr" THEN AssignLeaf(src, Zero(t))
    ELSE IF KindOf(src) \in {"ptr", "interface"} /\ IsNil(src) THEN Unchanged(Zero(t))
    ELSE Pending(Zero(t), AssignLeaf(src, Zero(Elem(t))))

AssignElems(src, dst) ==
    Composite(dst, [i \in DOMAIN src.val |-> AssignElem(src.val[i], Elem(dst.type))])

AssignMapToStruct(src, dst) ==
    LET m == Entries(src)
        Name(j) == Fields(dst.type)[j].json
        Taken(j) == Name(j) \in DOMAIN m /\ JsonField(dst.type, Name(j)) = j
        Set(j) == IF ~IsNil(m[Name(j)]) THEN AssignLeaf(m[Name(j)].val, dst.val[j])
                  ELSE Unchanged(IF KindOf(dst.val[j]) \in {"ptr", "slice", "map"}
                                 THEN Zero(dst.val[j].type) ELSE dst.val[j])
    IN  Composite(dst, [j \in DOMAIN dst.val |-> IF Taken(j) THEN Set(j) ELSE Unchanged(dst.val[j])])

AssignLeaf(src, dst) ==
    CASE KindOf(src) = "ptr" -> IF IsNil(src) THEN Unchanged(dst) ELSE AssignLeaf(src.val, dst)
      [] KindOf(src) # "ptr" /\ KindOf(dst) = "ptr" -> Pending(dst, AssignLeaf(src, Pointee(dst)))
      [] KindOf(src) # "ptr" /\ KindOf(dst) # "ptr" ->
            LET s == src.type
                t == dst.type IN
            CASE AssignableTo(s, t) \/ ConvertibleTo(s, t) -> Unchanged(Convert(src, t))
              [] OTHER ->
            CASE KindOf(src) = "interface" -> IF IsNil(src) THEN Unchanged(dst) ELSE AssignLeaf(src.val, dst)
              [] Kind(s) = "struct" /\ Kind(t) = "struct" -> AssignStructs(src, dst)
              [] Kind(s) = "slice" /\ Kind(t) = "slice" ->
                    IF IsNil(src) THEN Unchanged(Zero(t)) ELSE AssignElems(src, dst)
              [] Kind(s) = "map" /\ Kind(t) = "map" ->
                    IF IsNil(src) THEN Unchanged(dst) ELSE AssignElems(src, dst)
              [] IsMap(src) /\ Kind(t) = "struct" -> AssignMapToStruct(src, dst)
              [] OTHER -> Refused(dst)
-----------------------------------------------------------------------------
(***************************************************************************)
(* What a protobuf struct has no field for, as bytes: a sequence of        *)
(* fields, whose values are a scalar, the fields of a message, or the      *)
(* elements of a packed list.                                              *)
(***************************************************************************)
Field(id, as, val) == [id |-> id, as |-> as, val |-> val]
Encoded(ok, out) == [ok |-> ok, out |-> out]

\* One after the other, up to the first that fails; what that one has written stays.
Sequential(rs) ==
    LET failed == SelectInSeq(rs, LAMBDA r : ~r.ok)
        upTo == IF failed = 0 THEN rs ELSE SubSeq(rs, 1, failed)
    IN  Encoded(failed = 0, FlattenSeq([i \in DOMAIN upTo |-> upTo[i].out]))
\* A message is written to a buffer of its own, which is lost when one of its fields fails.
Message(id, r) == Encoded(r.ok, IF r.ok THEN <<Field(id, "message", r.out)>> ELSE <<>>)

CanUsePacked(x) == x # Nil /\ KindOf(x) = "int"
RECURSIVE Followed(_)
Followed(x) == IF KindOf(x) = "ptr" /\ ~IsNil(x) THEN Followed(x.val) ELSE x

RECURSIVE EncodeUnknownField(_, _, _)
EncodeScalar(id, x) ==
    CASE KindOf(x) = "int" -> Encoded(TRUE, <<Field(id, "varint", x.val)>>)
      [] KindOf(x) = "string" -> Encoded(TRUE, <<Field(id, "string", x.val)>>)
      [] IsList(x) ->
            Sequential([i \in DOMAIN Entries(x) |-> EncodeUnknownField(id, x.val[i].val, NoDesc)])
      [] IsMap(x) ->
            LET ks == SetToSeq(DOMAIN Entries(x)) IN
            Message(id, Sequential([i \in DOMAIN ks |->
                            EncodeUnknownField(HashName[ks[i]], x.val[ks[i]].val, NoDesc)]))
      [] OTHER -> Encoded(FALSE, <<>>)

\* The members of a map, or the fields of a struct by their json names, that the descriptor names.
EncodeStruct(id, x, d) ==
    LET s == Followed(x)
        names == IF IsMap(x) THEN DOMAIN Entries(x)
                 ELSE IF KindOf(s) = "struct" THEN {Fields(s.type)[j].json : j \in DOMAIN s.val} \ {""}
                 ELSE {}
        Member(n) == IF IsMap(x) THEN x.val[n].val ELSE Interface(s.val[JsonField(s.type, n)])
        ns == SetToSeq(names \cap NamesOf(d))
    IN  Message(id, Sequential([i \in DOMAIN ns |->
            LET c == Children(d)[ByName(d, ns[i])] IN EncodeUnknownField(c.id, Member(ns[i]), c.desc)]))

ElementDesc(d) == IF Children(d) # <<>> /\ Children(d)[1].name = "*" THEN Children(d)[1].desc ELSE NoDesc

EncodeList(id, x, d) ==
    IF Entries(x) # <<>> /\ \A i \in DOMAIN x.val : CanUsePacked(x.val[i].val)
    THEN Encoded(TRUE, <<Field(id, "packed", [i \in DOMAIN x.val |-> x.val[i].val.val])>>)
    ELSE Sequential([i \in DOMAIN Entries(x) |-> EncodeUnknownField(id, x.val[i].val, ElementDesc(d))])

EncodeMap(id, x, d) ==
    LET ks == SetToSeq(DOMAIN Entries(x))
        Entry(k) == LET r == EncodeUnknownField(2, x.val[k].val, ElementDesc(d))
                    IN  Message(id, Encoded(r.ok, <<Field(1, "string", k)>> \o r.out))
    IN  Sequential([i \in DOMAIN ks |-> Entry(ks[i])])

\* A list or map of another Go type is not written at all.
EncodeUnknownField(id, x, d) ==
    LET kind == IF d = NoDesc THEN "leaf" ELSE Descs[d].kind IN
    CASE x = Nil -> Encoded(TRUE, <<>>)
      [] x # Nil /\ kind = "leaf" -> EncodeScalar(id, x)
      [] x # Nil /\ kind = "struct" -> EncodeStruct(id, x, d)
      [] x # Nil /\ kind = "list" -> IF IsList(x) THEN EncodeList(id, x, d) ELSE Encoded(TRUE, <<>>)
      [] x # Nil /\ kind = "map" -> IF IsMap(x) THEN EncodeMap(id, x, d) ELSE Encoded(TRUE, <<>>)

-----------------------------------------------------------------------------
(***************************************************************************)
(* AssignAny.  A tree is nil or a value, dst has its type.                 *)
(***************************************************************************)
IsEmptyNonLeaf(d, x) ==
    /\ x # Nil
    /\ \/ Descs[d].kind \in {"struct", "map"} /\ IsMap(x) /\ Entries(x) = <<>>
       \/ Descs[d].kind = "list" /\ IsList(x) /\ Entries(x) = <<>>

\* A nil pointer, map or slice becomes an empty one.
InitEmpty(d, dst) ==
    LET kind == Descs[d].kind
        Made(y) == IF IsNil(y) /\ <<KindOf(y), kind>> \in {<<"map", "map">>, <<"slice", "list">>}
                   THEN [y EXCEPT !.val = <<>>] ELSE y
    IN  IF KindOf(dst) = "ptr" THEN [dst EXCEPT !.val = Made(Pointee(dst))] ELSE Made(dst)

RECURSIVE AssignTree(_, _, _, _, _)

LeafFrom(x, dst) == IF x = Nil THEN Got(dst, {Err("panic", <<>>)}) ELSE AssignLeaf(x, dst)

AssignValueToField(d, x, dst, path, strict) ==
    IF IsEmptyNonLeaf(d, x) THEN Unchanged(InitEmpty(d, dst))
    ELSE IF KindOf(dst) = "ptr" THEN Pending(dst, AssignTree(d, x, Pointee(dst), path, strict))
    ELSE AssignTree(d, x, dst, path, strict)

\* Mutant: the first member that cannot be encoded ends the loop.
UnrecognizedUntil(enc) == Sequential(enc).out
\* A member that cannot be encoded does not stop the others; what it has written stays.
Unrecognized(enc) == FlattenSeq([i \in DOMAIN enc |-> enc[i].out])

KeepEncoded(ks, enc, u, got) ==
    Also([got EXCEPT !.val.val[u].val = @ \o Unrecognized(enc)],
         {Err("encode", <<Dot(ks[i])>>) : i \in {i \in DOMAIN enc : ~enc[i].ok}})

\* Members without a field of the struct: those the descriptor has are encoded, and all of them
\* are kept in the literal field.
KeepUnassigned(d, m, left, set) ==
    LET dst == set.val
        u == UnrecognizedIndex(dst.type)
        l == LiteralIndex(dst.type)
        ks == SetToSeq(left \cap NamesOf(d))
        enc == [i \in DOMAIN ks |-> LET c == Children(d)[ByName(d, ks[i])]
                                    IN  EncodeUnknownField(c.id, m[ks[i]].val, c.desc)]
        kept == [k \in left |-> m[k]]
        New(j) == IF j = l /\ left # {} /\ KindOf(dst.val[j]) = "map"
                  THEN [dst.val[j] EXCEPT !.val = kept @@ Entries(dst.val[j])] ELSE dst.val[j]
        literal == [set EXCEPT !.val.val = [j \in DOMAIN dst.val |-> New(j)]]
    IN  IF u = 0 THEN literal ELSE KeepEncoded(ks, enc, u, literal)

AssignStruct(d, x, dst, path, strict) ==
    LET m == Entries(x)
        given == {k \in DOMAIN m : ~IsNil(m[k])}
        left == {k \in given : PbField(dst.type, k) = 0 /\ (k \in NamesOf(d) \/ ~strict)}
        undefined == {k \in given \ NamesOf(d) : PbField(dst.type, k) = 0 /\ strict}
        Desc(k) == IF k \in NamesOf(d) THEN Children(d)[ByName(d, k)].desc ELSE NoDesc
        Set(k, y) == IF Desc(k) # NoDesc
                     THEN AssignValueToField(Desc(k), m[k].val, y, Append(path, Dot(k)), strict)
                     ELSE AssignLeaf(m[k].val, y)
        NameAt(j) == Fields(dst.type)[j].pb
        set == Composite(dst, [j \in DOMAIN dst.val |->
                                  IF NameAt(j) \in given /\ PbField(dst.type, NameAt(j)) = j
                                  THEN Set(NameAt(j), dst.val[j]) ELSE Unchanged(dst.val[j])])
    IN  Also(KeepUnassigned(d, m, left, set), {Err("not found", Append(path, Dot(k))) : k \in undefined})

\* Mutant: the map is made anew.
PutAnew(new, old) == new
\* Entries are put into the map that is there.
PutInto(new, old) == new @@ old

AssignStrMap(d, x, dst, path, strict) ==
    LET m == Entries(x)
        old == Entries(dst)
        t == Elem(dst.type)
        wild == Wildcard(d) /\ Children(d)[1].desc # NoDesc
        Desc(k) == IF wild THEN Children(d)[1].desc
                   ELSE IF k \in NamesOf(d) THEN Children(d)[ByName(d, k)].desc ELSE NoDesc
        New(k) == IF k \in DOMAIN old THEN old[k] ELSE Zero(t)
        Set(k) ==
            LET v == m[k].val
                p == Append(path, Key(k)) IN
            IF Desc(k) = NoDesc THEN AssignLeaf(v, New(k))
            ELSE IF IsEmptyNonLeaf(Desc(k), v)
                 THEN Unchanged(IF k \in DOMAIN old THEN old[k] ELSE InitEmpty(Desc(k), Zero(t)))
            ELSE IF Kind(t) = "ptr" THEN Pending(New(k), AssignTree(Desc(k), v, Pointee(New(k)), p, strict))
            ELSE AssignTree(Desc(k), v, New(k), p, strict)
        set == Composite(dst, [k \in {k \in DOMAIN m : ~IsNil(m[k])} |-> Set(k)])
    IN  [set EXCEPT !.val.val = PutInto(@, old)]

\* Every element of the source goes to its own index; what the destination has beyond them stays.
AssignAll(d, x, dst, path, strict) ==
    LET c == Children(d)[1].desc
        t == Elem(dst.type)
        v == Entries(x)
        old == Entries(dst)
        long == [i \in 1 .. (IF Len(v) > Len(old) THEN Len(v) ELSE Len(old)) |->
                    IF i <= Len(old) THEN old[i] ELSE Zero(t)]
        Set(i) ==
            LET p == Append(path, At(i - 1)) IN
            IF i > Len(v) \/ IsNil(v[i]) THEN Unchanged(long[i])
            ELSE IF c = NoDesc THEN AssignLeaf(v[i].val, long[i])
            ELSE IF IsEmptyNonLeaf(c, v[i].val)
                 THEN Unchanged(IF Kind(t) = "ptr" /\ KindOf(dst) = "slice" /\ ~IsNil(long[i])
                                THEN long[i] ELSE InitEmpty(c, long[i]))
            ELSE IF Kind(t) = "ptr" THEN Pending(long[i], AssignTree(c, v[i].val, Pointee(long[i]), p, strict))
            ELSE AssignTree(c, v[i].val, long[i], p, strict)
    IN  IF KindOf(dst) = "array" /\ Len(v) # Len(old) THEN Got(dst, {Err("length", path)})
        \* A nil slice that gets no element stays nil.
        ELSE IF IsNil(dst) /\ v = <<>> THEN Unchanged(dst)
        ELSE Composite(dst, [i \in DOMAIN long |-> Set(i)])

SetAt(acc, i, r) == Got([acc.val EXCEPT ![i] = r.val], acc.errs \cup r.errs)
In(x, r) == Got([x EXCEPT !.val = r.val], r.errs)

\* The source's elements go, in their order, to the indices of the children.  A slice is made
\* anew, as long as the greatest index asks; of two children with one index the last source counts.
AssignSome(d, x, dst, path, strict) ==
    LET cs == Children(d)
        v == Entries(x)
        t == Elem(dst.type)
        array == KindOf(dst) = "array"
        size == IF cs = <<>> THEN 0 ELSE Max({cs[i].id : i \in DOMAIN cs} \cup {-1}) + 1
        old == Entries(dst)
        new == IF array THEN old
               ELSE [i \in 1 .. size |-> IF i <= Len(old) THEN old[i] ELSE Zero(t)]
        sources == {i \in DOMAIN cs : i <= Len(v)}
        Given(id) == {i \in sources : cs[i].id = id}
        Source(id) == v[Max(Given(id))].val
        Set(c, y) ==
            LET p == Append(path, At(c.id)) IN
            IF c.desc = NoDesc THEN LeafFrom(Source(c.id), y)
            ELSE IF array THEN AssignValueToField(c.desc, Source(c.id), y, p, strict)
            ELSE IF Kind(t) = "ptr" THEN Pending(y, AssignTree(c.desc, Source(c.id), Zero(Elem(t)), p, strict))
            ELSE AssignTree(c.desc, Source(c.id), y, p, strict)
        One(acc, c) ==
            IF Given(c.id) = {} \/ (array /\ c.id < 0)
            THEN Got(acc.val, acc.errs \cup NotFound(strict, Append(path, At(c.id))))
            ELSE IF c.id < 0 THEN Got(acc.val, acc.errs \cup {Err("panic", path)})
            ELSE SetAt(acc, c.id + 1, Set(c, acc.val[c.id + 1]))
    IN  IF size = 0 THEN Unchanged(dst)
        ELSE IF array /\ size > Len(old) THEN Got(dst, {Err("bounds", path)})
        ELSE In(dst, FoldLeft(One, Got(new, {}), cs))

AssignTree(d, x, dst, path, strict) ==
    LET kind == Descs[d].kind
        WrongType == Got(dst, {Err("type", path)}) IN
    CASE x = Nil -> Unchanged(dst)
      [] x # Nil /\ KindOf(dst) = "ptr" -> Pending(dst, AssignTree(d, x, Pointee(dst), path, strict))
      [] x # Nil /\ KindOf(dst) # "ptr" ->
            CASE kind = "leaf" -> AssignLeaf(x, dst)
              [] kind = "struct" -> IF IsMap(x) /\ KindOf(dst) = "struct"
                                    THEN AssignStruct(d, x, dst, path, strict) ELSE WrongType
              [] kind = "map" -> IF IsMap(x) /\ KindOf(dst) = "map"
                                 THEN AssignStrMap(d, x, dst, path, strict) ELSE WrongType
              [] kind = "list" -> IF ~IsList(x) \/ KindOf(dst) \notin {"slice", "array"} THEN WrongType
                                  ELSE IF Wildcard(d) THEN AssignAll(d, x, dst, path, strict)
                                  ELSE AssignSome(d, x, dst, path, strict)
=============================================================================
