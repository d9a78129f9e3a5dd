----------------------------- MODULE TrimObjects -----------------------------
(***************************************************************************)
(* A caller of package trim: a thrift struct to fetch from, the tree that  *)
(* was fetched or brought along, and a protobuf struct that it and other   *)
(* values are assigned to, one after the other.                            *)
(* What the calls do is stated on the leaves of values: a leaf is a scalar *)
(* and the path to it.                                                     *)
(***************************************************************************)
EXTENDS TrimValue

CONSTANTS Sources, Dests,     \* structs, built by hand
          Trees,              \* trees that do not come from FetchAny
          FetchDescs, AssignDescs,
          Raws,               \* values AssignValue is called with
          MaxAssigns          \* bound on the assignments to one struct

VARIABLES dest,
          tree,       \* what was fetched or brought, or what AssignValue was given
          source,     \* history: what the tree was fetched from
          errs,       \* the errors of the last call
          last,       \* history: the last call
          assigns     \* how many calls have assigned

vars == <<source, dest, tree, errs, last, assigns>>

Panic == \E e \in errs : e.kind = "panic"
Step(op, d, strict) == [op |-> op, desc |-> d, strict |-> strict]

Init == /\ source = Nil /\ dest \in Dests
        /\ tree = Nil /\ errs = {} /\ assigns = 0
        /\ last = Step("new", NoDesc, FALSE)

Bring == /\ ~Panic /\ assigns = 0
         /\ tree' \in Trees /\ source' = Nil
         /\ errs' = {} /\ last' = Step("bring", NoDesc, FALSE)
         /\ UNCHANGED <<dest, assigns>>

FetchAny(x, d, strict) ==
    /\ ~Panic /\ assigns = 0
    /\ \E r \in {FetchValue(d, x, <<>>, strict)} : tree' = r.val /\ errs' = r.errs
    /\ source' = x /\ last' = Step("fetch", d, strict)
    /\ UNCHANGED <<dest, assigns>>

Assigned(r, op, d, strict) ==
    /\ dest' = r.val /\ errs' = r.errs
    /\ last' = Step(op, d, strict) /\ assigns' = assigns + 1

AssignAny(d, strict) ==
    /\ ~Panic /\ assigns < MaxAssigns /\ tree # Nil
    /\ \E r \in {AssignTree(d, tree, dest, <<>>, strict)} : Assigned(r, "assign", d, strict)
    /\ UNCHANGED <<source, tree>>

AssignValue(x) ==
    /\ ~Panic /\ assigns < MaxAssigns
    /\ \E r \in {AssignLeaf(x, dest)} : Assigned(r, "value", NoDesc, FALSE)
    /\ tree' = x /\ source' = Nil

Next == \/ Bring
        \/ \E strict \in BOOLEAN : \/ \E x \in Sources, d \in FetchDescs : FetchAny(x, d, strict)
                                   \/ \E d \in AssignDescs : AssignAny(d, strict)
        \/ \E x \in Raws : AssignValue(x)

Spec == Init /\ [][Next]_vars

-----------------------------------------------------------------------------
(***************************************************************************)
(* Values as sets of leaves: pairs of a path and what is there.  Members   *)
(* of a struct, of a map and of a map[string]interface{} are told apart by *)
(* the step, and so are the elements of a []interface{} and other ones.    *)
(***************************************************************************)
Hop(kind, name) == Frame(kind, name, 0)
Index(t, i) == Frame(IF t = Slice(Boxed) THEN "item" ELSE "list", "", i)
Item(i) == Index(Slice(Boxed), i)
IsIndex(f) == f.kind \in {"item", "list"}
Here == Val(<<"here">>, 0)                \* a struct, a map or a list
Before(step, leaves) == {<< <<step>> \o l[1], l[2] >> : l \in leaves}

RECURSIVE Flat(_)
FlatIds(m) == UNION {Before(Frame("struct", "", id), Flat(m[id])) : id \in DOMAIN m}
FlatStruct(x) ==
    LET F(i) == Fields(x.type)[i]
        named == {i \in DOMAIN x.val : F(i).json # "" \/ F(i).go = "XXX_unrecognized"}
        Name(i) == IF F(i).json # "" THEN F(i).json ELSE F(i).go
    IN  UNION {Before(Frame("struct", Name(i), F(i).thrift), Flat(x.val[i])) : i \in named}
            \cup IF UnknownIndex(x.type) = 0 THEN {} ELSE FlatIds(Unknown(x))
Flat(x) ==
    CASE KindOf(x) \in {"int", "string", "bytes"} -> {<< <<>>, x >>}
      [] KindOf(x) \in {"ptr", "interface"} -> IF IsNil(x) THEN {} ELSE Flat(x.val)
      [] OTHER -> {<< <<>>, Here >>} \cup
            CASE KindOf(x) \in {"slice", "array"} ->
                    UNION {Before(Index(x.type, i - 1), Flat(x.val[i])) : i \in DOMAIN Entries(x)}
              [] KindOf(x) = "map" ->
                    UNION {Before(Hop(IF IsMap(x) THEN "any" ELSE "map", k), Flat(x.val[k])) : k \in DOMAIN Entries(x)}
              [] KindOf(x) = "idmap" -> FlatIds(x.val)
              [] KindOf(x) = "struct" -> FlatStruct(x)

Leaves(x) == IF x = Nil THEN {} ELSE Flat(x)

RECURSIVE Solid(_), Bare(_)
Solid(x) == IF KindOf(x) \in {"ptr", "interface"} /\ ~IsNil(x) THEN Solid(x.val) ELSE x
Bare(t) == IF Kind(t) = "ptr" THEN Bare(Elem(t)) ELSE t
Same(x, y) == x.type = y.type /\ x.val = y.val
KindOfDesc(d) == IF d = NoDesc THEN "leaf" ELSE Descs[d].kind

-----------------------------------------------------------------------------
(***************************************************************************)
(* What FetchAny returns.                                                  *)
(***************************************************************************)
\* One step down in a source.
Below(x, f) == CASE IsIndex(f) -> x.val[f.id + 1]
                 [] f.kind = "struct" /\ f.name # "" -> x.val[JsonField(x.type, f.name)]
                 [] f.kind = "struct" /\ f.name = "" -> IF x.type = IdMap THEN x.val[f.id] ELSE Unknown(x)[f.id]
                 [] f.kind \in {"map", "any"} -> x.val[f.name]
Shape(x) == CASE KindOf(x) \in {"struct", "idmap"} -> "struct"
              [] KindOf(x) \in {"slice", "array"} -> "list"
              [] OTHER -> KindOf(x)

\* The children of a descriptor that select a member of x, with where it goes: to its name, to its
\* key, or behind the elements that were selected before.
Selecting(d, x, f) ==
    LET cs == Children(d)
        Rank(i) == Cardinality({j \in 1 .. i - 1 : cs[j].id >= 0 /\ cs[j].id < Len(x.val)}) IN
    CASE Shape(x) = "struct" ->
            {[desc |-> cs[i].desc, step |-> Hop("any", cs[i].name)] : i \in {i \in DOMAIN cs :
                cs[i].id = f.id /\ (f.name = "" /\ KindOf(x) = "struct" => ThriftField(x.type, f.id) = 0)}}
      [] Shape(x) = "map" ->
            {[desc |-> cs[i].desc, step |-> Hop("any", f.name)] : i \in {i \in DOMAIN cs :
                (i = ByName(d, f.name)) \/ (Wildcard(d) /\ f.name \notin NamesOf(d))}}
              \cup IF f.kind = "any" /\ ~Wildcard(d) /\ f.name \notin NamesOf(d)
                   THEN {[desc |-> NoDesc, step |-> f]} ELSE {}
      [] Shape(x) = "list" ->
            IF Wildcard(d) THEN {[desc |-> cs[1].desc, step |-> Item(f.id)]}
            ELSE {[desc |-> cs[i].desc, step |-> Item(Rank(i))] : i \in {i \in DOMAIN cs : cs[i].id = f.id}}

\* The places in the tree where what is at p in x has to show up.
RECURSIVE Shown(_, _, _)
Shown(d, x, p) ==
    LET y == Solid(x) IN
    IF KindOfDesc(d) = "leaf" THEN {p}
    ELSE IF KindOfDesc(d) # Shape(y) \/ (KindOf(y) = "slice" /\ IsNil(y)) THEN {}
    ELSE IF p = <<>> THEN {p}
    ELSE UNION {{<<s.step>> \o q : q \in Shown(s.desc, Below(y, Head(p)), Tail(p))} : s \in Selecting(d, y, Head(p))}

\* FetchAny returns every leaf of the source that the descriptor selects, under the name that the
\* descriptor gives it, whether the struct has a field for it or keeps it as an unknown field,
\* and nothing else.
FetchSelects ==
    last.op = "fetch" =>
        LET got == Leaves(tree)
            shown == UNION {Shown(last.desc, source, l[1]) \X {l} : l \in Flat(source)}
        IN  /\ {l[1] : l \in got} = {s[1] : s \in shown}
            /\ \A l \in got : \E s \in shown : s[1] = l[1] /\ Same(s[2][2], l[2])

-----------------------------------------------------------------------------
(***************************************************************************)
(* What AssignAny and AssignValue do.                                      *)
(***************************************************************************)
\* How far a path of the tree leads in a value of type t: to a place ("landed"), to a struct that
\* has no field for the step ("missing"), to an element no child names ("dropped"), or not.
Stop(how, d, t, rest) == [how |-> how, at |-> <<>>, desc |-> d, type |-> t, rest |-> rest]
ListChild(d, n) == IF KindOfDesc(d) = "leaf" \/ Wildcard(d) THEN n + 1 ELSE Children(d)[n + 1].id + 1

RECURSIVE Route(_, _, _)
Route(d, ptr, p) ==
    LET t == Bare(ptr)
        leaf == KindOfDesc(d) = "leaf"
        f == Head(p)
        Child(i) == IF leaf \/ i = 0 THEN NoDesc ELSE Children(d)[i].desc
        Through(c, u, step) == LET r == Route(c, u, Tail(p)) IN [r EXCEPT !.at = <<step>> \o @] IN
    IF p = <<>> THEN Stop("landed", d, t, p)
    ELSE IF t = Boxed THEN IF leaf THEN [Stop("landed", d, t, <<>>) EXCEPT !.at = p] ELSE Stop("refused", d, t, p)
    ELSE CASE Kind(t) = "struct" /\ KindOfDesc(d) \in {"struct", "leaf"}
              /\ (f.kind = "any" \/ (f.kind = "struct" /\ leaf)) ->
                LET j == JsonField(t, f.name) IN
                IF j = 0 \/ f.name = "" THEN Stop("missing", d, t, p)
                ELSE Through(IF leaf THEN NoDesc ELSE Child(ByName(d, f.name)), Fields(t)[j].type,
                             Hop("struct", f.name))
           [] Kind(t) = "map" /\ KindOfDesc(d) \in {"map", "leaf"}
              /\ (f.kind = "any" \/ (f.kind = "map" /\ leaf)) ->
                LET c == IF ~leaf /\ Wildcard(d) /\ Child(1) # NoDesc THEN Child(1)
                         ELSE IF leaf THEN NoDesc ELSE Child(ByName(d, f.name))
                IN  Through(c, Elem(t), Hop(IF t = Map(Boxed) THEN "any" ELSE "map", f.name))
           [] \/ Kind(t) = "slice" /\ leaf /\ IsIndex(f)
              \/ Kind(t) \in {"slice", "array"} /\ KindOfDesc(d) = "list" /\ f.kind = "item" ->
                IF ~leaf /\ ~Wildcard(d) /\ f.id >= Len(Children(d)) THEN Stop("dropped", d, t, p)
                ELSE LET n == ListChild(d, f.id)
                         c == IF leaf THEN NoDesc
                              ELSE IF Wildcard(d) THEN Child(1) ELSE Child(f.id + 1)
                     IN  IF n < 1 THEN Stop("dropped", d, t, p) ELSE Through(c, Elem(t), Index(t, n - 1))
           [] OTHER -> Stop("refused", d, t, p)

Fits(v, r) == /\ r.how = "landed" /\ v # Here /\ KindOfDesc(r.desc) = "leaf"
              /\ (AssignableTo(v.type, r.type) \/ ConvertibleTo(v.type, r.type) \/ r.type = Boxed)
Converted(v, r) == IF r.type = Boxed THEN v ELSE Convert(v, r.type)

\* Whether a leaf is reached the way its descriptor says: through a []interface{} for a list, a
\* map[string]interface{} for a map, and one or a struct for a struct.
RECURSIVE Shaped(_, _)
Shaped(d, p) ==
    CASE KindOfDesc(d) = "leaf" -> TRUE
      [] KindOfDesc(d) # "leaf" /\ p = <<>> -> FALSE
      [] KindOfDesc(d) = "struct" /\ p # <<>> ->
            /\ Head(p).kind \in {"any", "struct"} /\ ByName(d, Head(p).name) # 0
            /\ Shaped(Children(d)[ByName(d, Head(p).name)].desc, Tail(p))
      [] KindOfDesc(d) = "list" /\ p # <<>> -> Head(p).kind = "item" /\ Shaped(ElementDesc(d), Tail(p))
      [] KindOfDesc(d) = "map" /\ p # <<>> -> Head(p).kind = "any" /\ Shaped(ElementDesc(d), Tail(p))

\* Whether the bytes of unknown fields have v at path p of field id.
RECURSIVE Holds(_, _, _, _, _)
Holds(out, id, d, p, v) ==
    LET kind == KindOfDesc(d)
        mine == {i \in DOMAIN out : out[i].id = id}
        Msg(Has(_)) == \E i \in mine : out[i].as = "message" /\ Has(out[i].val) IN
    IF p = <<>>
    THEN \E i \in mine : out[i].as = (IF KindOf(v) = "int" THEN "varint" ELSE "string") /\ out[i].val = v.val
    ELSE LET f == Head(p) IN
    CASE IsIndex(f) ->
            \/ /\ p = <<f>> /\ KindOf(v) = "int"
               /\ \E i \in mine : out[i].as = "packed" /\ f.id < Len(out[i].val) /\ out[i].val[f.id + 1] = v.val
            \/ Holds(out, id, IF kind = "list" THEN ElementDesc(d) ELSE NoDesc, Tail(p), v)
      [] ~IsIndex(f) /\ kind = "struct" ->
            \E c \in {Children(d)[ByName(d, f.name)]} : Msg(LAMBDA sub : Holds(sub, c.id, c.desc, Tail(p), v))
      [] ~IsIndex(f) /\ kind = "map" ->
            Msg(LAMBDA sub : /\ \E i \in DOMAIN sub : sub[i].id = 1 /\ sub[i].val = f.name
                             /\ Holds(sub, 2, ElementDesc(d), Tail(p), v))
      [] ~IsIndex(f) /\ kind = "leaf" ->
            f.kind = "any" /\ Msg(LAMBDA sub : Holds(sub, HashName[f.name], NoDesc, Tail(p), v))

\* The struct at a path of a value.
RECURSIVE Find(_, _)
Find(x, p) == IF p = <<>> THEN Solid(x) ELSE Find(Below(Solid(x), Head(p)), Tail(p))

\* A member without a field is in the bytes of the struct it belongs to, unless it is of another kind
\* than its descriptor, and in its literal field.
Kept(v, r) ==
    LET s == Find(dest', r.at)
        name == Head(r.rest).name
        u == UnrecognizedIndex(s.type)
        l == LiteralIndex(s.type)
        c == Children(r.desc)[ByName(r.desc, name)] IN
    /\ (u # 0 /\ name \in NamesOf(r.desc) /\ Shaped(c.desc, Tail(r.rest))) => Holds(s.val[u].val, c.id, c.desc, Tail(r.rest), v)
    /\ (l # 0 /\ (name \in NamesOf(r.desc) \/ ~last'.strict)) =>
            /\ name \in DOMAIN Entries(s.val[l])
            /\ \E f \in Flat(s.val[l].val[name]) : f[1] = Tail(r.rest) /\ Same(f[2], v)

\* An error that is about a place, or about a container of it.
Around(path, at) ==
    Len(path) <= Len(at) /\ \A i \in DOMAIN path : path[i].name = at[i].name /\ path[i].id = at[i].id
Reported(kinds, at) ==
    \E e \in errs' : e.kind = "panic" \/ (e.kind \in kinds /\ Around(e.path, at))

\* Whatever leaf is in the tree is in the struct after AssignAny or AssignValue, at its place or among the unknown
\* fields, unless an error says why not; an error about one of them keeps no other one out.
NothingLost ==
    [][assigns' # assigns =>
        \A new \in {Flat(dest')} : \A g \in {g \in Flat(tree') : g[2] # Here} :
            \E r \in {Route(last'.desc, dest.type, g[1])} :
                \/ Fits(g[2], r) /\ \/ \E l \in new : l[1] = r.at /\ Same(l[2], Converted(g[2], r))
                                    \/ Reported({"length", "bounds"}, r.at)
                \/ r.how = "missing" /\ \/ KindOfDesc(r.desc) = "leaf" \/ Kept(g[2], r)
                                        \/ Reported({"encode"}, <<Head(r.rest)>>)
                \/ r.how = "dropped"
                \/ ~Fits(g[2], r) /\ r.how \in {"landed", "refused"} /\ errs' # {}]_vars

\* Places a call may write below: where a composite is assigned without a descriptor, and where a
\* slice is made anew for single indices.
Replaced(p, r) ==
    /\ r.how = "landed" /\ IsPrefix(r.at, p)
    /\ \/ KindOfDesc(r.desc) = "leaf"
       \/ /\ KindOfDesc(r.desc) = "list" /\ ~Wildcard(r.desc) /\ Kind(r.type) = "slice" /\ Len(p) > Len(r.at)
          /\ LET ids == {Children(r.desc)[i].id : i \in DOMAIN Children(r.desc)}
                 i == p[Len(r.at) + 1].id
             IN  (i \in ids /\ Kind(Elem(r.type)) = "ptr") \/ (\A id \in ids : id < i)

IsZero(v) == v = Here \/ v = Zero(v.type)
\* What was not given is as it was: no leaf goes, none changes, and one that is new is zero.  Bytes
\* of unknown fields only grow.
RestKept ==
    [][last'.op = "assign" /\ assigns' # assigns =>
        \A old \in {Flat(dest)}, new \in {Flat(dest')},
           routes \in {{Route(last'.desc, dest.type, g[1]) : g \in Flat(tree)}} :
        LET Given(l) == \E r \in routes : Replaced(l[1], r)
            Grown(o, n) == IF KindOf(o[2]) = "bytes" THEN IsPrefix(o[2].val, n[2].val) ELSE Same(n[2], o[2]) IN
        /\ \A o \in old : (\E n \in new : n[1] = o[1] /\ Grown(o, n)) \/ Given(o)
        /\ \A n \in new : IsZero(n[2]) \/ KindOf(n[2]) = "bytes" \/ (\E o \in old : o[1] = n[1]) \/ Given(n)]_vars

TypeOK == /\ WellTyped(dest) /\ (tree # Nil => WellTyped(tree))
          /\ dest.type \in {x.type : x \in Dests} /\ (source # Nil => source \in Sources)
          /\ assigns \in 0 .. MaxAssigns
=============================================================================
