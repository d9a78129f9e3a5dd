----------------------------- MODULE ProtoValue -----------------------------
(***************************************************************************)
(* Reading and editing a serialized message by path:                       *)
(* proto/generic/value.go, GetByPath, SetByPath and UnsetByPath on a root  *)
(* Value, GetMany and SetMany on a Value reached from it.  The Value keeps *)
(* the wire bytes of one message and nothing else; a call walks down the   *)
(* path through the bytes, splices, and then repairs the length prefixes   *)
(* of the levels above from the inside out.                                *)
(***************************************************************************)
EXTENDS ProtoWire, SequencesExt

CONSTANTS Fields,   \* message type -> [field number -> descriptor]
          Root,     \* type of the message the Value holds
          InitBufs, \* messages a Value is made from
          Gets,     \* paths asked for
          Sets,     \* calls <<path, sub>> of SetByPath
          Unsets,   \* paths of UnsetByPath
          GetManys, \* calls [path, steps] of GetMany: children of the Value at path
          SetManys, \* calls [path, steps, subs] of SetMany
          MaxLen    \* bound: SetByPath and SetMany are called on shorter buffers only

VARIABLES buf,      \* Node.v and Node.l: the bytes
          call,     \* the last call
          res       \* what it answered

vars == <<buf, call, res>>

(***************************************************************************)
(* Descriptors: typ, field number, type of the elements and of the keys,   *)
(* and the message type, which a list and a map have from their elements.  *)
(***************************************************************************)
Scalars == {"int", "str", "fix"}
WireType(typ) == CASE typ = "int" -> Varint [] typ = "fix" -> Fixed [] OTHER -> Bytes
RootDesc == [typ |-> "msg", id |-> 0, elem |-> "msg", key |-> "int", msg |-> Root]
Elem(desc) == [desc EXCEPT !.typ = desc.elem, !.id = 0]
PackedType(typ) == typ \in {"int", "fix"}
IsPacked(desc) == desc.typ = "list" /\ PackedType(desc.elem)

\* A path step: a field by number or by name (n: its number), a list index n, a map key
\* (the number n, or the bytes k of a string).
FieldSteps == {"id", "name"}
KeySteps   == {"strKey", "intKey"}
KeyOf(p)   == IF p.t = "strKey" THEN p.k ELSE p.n

Splice(b, from, to, mid) == SubSeq(b, 1, from) \o mid \o SubSeq(b, to + 1, Len(b))

-----------------------------------------------------------------------------
(***************************************************************************)
(* The searches: ok, the position answered, and the reader's position.     *)
(***************************************************************************)
Found(start, at) == [st |-> "found", start |-> start, at |-> at]
Missing(at)      == [st |-> "missing", start |-> at, at |-> at]
Broken           == [st |-> "broken", start |-> 0, at |-> 0]

RECURSIVE SearchFieldBehindTag(_, _, _, _)
SearchFieldBehindTag(b, at, end, id) ==
    LET At(tag) == CASE tag.at = Fail -> Broken
                     [] tag.num = id  -> Found(tag.at, at)
                     [] OTHER -> With(Skip(b, tag.at, tag.wire), LAMBDA next :
                                      SearchFieldBehindTag(b, next, end, id))
    IN  CASE at = Fail -> Broken
          [] at >= end -> Missing(at)
          [] OTHER     -> With(ConsumeTag(b, at), At)

RECURSIVE SearchField(_, _, _, _)
SearchField(b, at, end, id) ==
    LET At(tag) == CASE tag.at = Fail -> Broken
                     [] tag.num = id  -> Found(at, at)
                     [] OTHER -> With(Skip(b, tag.at, tag.wire),
                                      LAMBDA next : SearchField(b, next, end, id))
    IN  CASE at = Fail -> Broken
          [] at >= end -> Missing(at)
          [] OTHER     -> With(ConsumeTag(b, at), At)

\* searchIndex on a packed list: left elements are still to be passed.
RECURSIVE SearchPacked(_, _, _, _, _)
SearchPacked(b, at, end, left, wire) ==
    CASE at = Fail -> Broken
      [] left = 0  -> Found(at, at)
      [] at >= end -> Missing(at)
      [] OTHER -> With(Skip(b, at, wire),
                       LAMBDA next : SearchPacked(b, next, end, left - 1, wire))

\* searchIndex on an unpacked list.  The reader is behind an element's tag and stops
\* there for the first element, before the tag for a later one; the answer is behind it.
RECURSIVE SearchUnpacked(_, _, _, _, _, _)
SearchUnpacked(b, at, result, left, wire, num) ==
    LET ListEnd(next) == IF left = 1 THEN Found(result, next) ELSE Missing(next)
        At(next, tag) ==
            CASE tag.at = Fail -> Broken
              [] tag.num # num -> ListEnd(next)
              [] left = 1      -> Found(tag.at, next)
              [] OTHER         -> SearchUnpacked(b, tag.at, tag.at + (tag.at - next),
                                                 left - 1, wire, num)
        Behind(next) ==
            CASE next = Fail    -> Broken
              [] next >= Len(b) -> ListEnd(next)
              [] OTHER          -> With(ConsumeTag(b, next), LAMBDA tag : At(next, tag))
    IN  CASE left = 0     -> Found(result, at)
          [] at >= Len(b) -> Missing(at)
          [] OTHER        -> With(Skip(b, at, wire), Behind)

SearchIndex(b, at, idx, desc) ==
    IF IsPacked(desc)
    THEN With(ReadVarint(b, at), LAMBDA len :
              SearchPacked(b, len.at, len.at + len.v, idx, WireType(desc.elem)))
    ELSE SearchUnpacked(b, at, at, idx, WireType(desc.elem), desc.id)

SkipField(b, at) == With(ConsumeTag(b, at), LAMBDA tag : Skip(b, tag.at, tag.wire))

\* A map key as the search reads it, and the position after it.
ReadKey(b, at, step) ==
    LET str(r) == With(Advance(b, r.at, r.v),
                       LAMBDA end : [k |-> IF end = Fail THEN <<>> ELSE SubSeq(b, r.at + 1, end),
                                     at |-> end])
    IN  IF step = "strKey" THEN With(ReadVarint(b, at), str)
        ELSE With(ReadVarint(b, at), LAMBDA r : [k |-> r.v, at |-> r.at])

\* A pair from behind its tag: its key, the position of the value's tag, and the end.
ReadPair(b, at, step) ==
    With(ReadKey(b, ConsumeTag(b, ReadVarint(b, at).at).at, step),
         LAMBDA key : [k |-> key.k, value |-> key.at, next |-> SkipField(b, key.at)])

\* searchStrKey, searchIntKey: the reader is behind a pair's tag; the answer is the
\* position of the value's tag.
RECURSIVE SearchKey(_, _, _, _, _)
SearchKey(b, at, step, key, num) ==
    LET Behind(next, tag) ==
            CASE tag.at = Fail -> Broken
              [] tag.num # num -> Missing(next)
              [] OTHER         -> SearchKey(b, tag.at, step, key, num)
        On(pair) ==
            CASE pair.value = Fail   -> Broken
              [] pair.k = key        -> Found(pair.value, pair.value)
              [] pair.next = Fail    -> Broken
              [] pair.next >= Len(b) -> Missing(pair.next)
              [] OTHER -> With(ConsumeTag(b, pair.next), LAMBDA tag : Behind(pair.next, tag))
    IN  IF at >= Len(b) THEN Missing(at) ELSE With(ReadPair(b, at, step), On)

-----------------------------------------------------------------------------
(***************************************************************************)
(* getByPath, one step of the path at a time: the reader at, the           *)
(* descriptor desc and type tt reached, and the address of every step.     *)
(* st: "ok" so far; "last": only the last step is missing (the position to *)
(* insert at is the last address, under a parent of type tt); "absent": an *)
(* earlier step is missing; "error".                                       *)
(***************************************************************************)
Search(b, i, p, s) ==
    CASE p.t \in KeySteps -> SearchKey(b, s.at, p.t, KeyOf(p), s.desc.id)
      [] p.t = "index"    -> SearchIndex(b, s.at, p.n, s.desc)
      [] OTHER -> With(IF i = 1 THEN [v |-> Len(b), at |-> 0] ELSE ReadVarint(b, s.at),
                       LAMBDA len : SearchField(b, len.at, len.at + len.v, p.n))

Known(desc, p) == p.n \in DOMAIN Fields[desc.msg]

\* The descriptor after a step: a list keeps its own for its elements.
StepDesc(desc, p) ==
    CASE p.t \in FieldSteps -> IF Known(desc, p) THEN Fields[desc.msg][p.n] ELSE desc
      [] p.t = "index"      -> desc
      [] p.t \in KeySteps   -> Elem(desc)

StepType(s, p) == CASE p.t \notin FieldSteps -> s.desc.elem
                    [] Known(s.desc, p)       -> Fields[s.desc.msg][p.n].typ
                    [] OTHER                  -> s.tt

ParentType(p) == CASE p.t \in FieldSteps -> "msg"
                   [] p.t = "index"      -> "list"
                   [] p.t \in KeySteps   -> "map"

Walk(b, path, i, s) ==
    LET p == path[i]
        To(st, r, at, tt) == [st |-> st, at |-> at, tt |-> tt, desc |-> StepDesc(s.desc, p),
                              addr |-> Append(s.addr, r.start)]
        Beyond(r, tag) == IF tag.at = Fail THEN To("error", r, 0, s.tt)
                          ELSE To("ok", r, tag.at, StepType(s, p))
        On(r) ==
            CASE r.st = "missing" /\ i = Len(path) -> To("last", r, r.at, ParentType(p))
              [] r.st = "missing"                  -> To("absent", r, 0, s.tt)
              [] r.st = "broken"                   -> To("error", r, 0, s.tt)
              [] i = Len(path)                     -> To("ok", r, r.at, StepType(s, p))
              [] OTHER -> With(ConsumeTag(b, r.at), LAMBDA tag : Beyond(r, tag))
    IN  CASE s.st # "ok"                       -> s
          [] p.t = "name" /\ ~Known(s.desc, p) -> [s EXCEPT !.st = "error"]
          [] OTHER                             -> With(Search(b, i, p, s), On)

WalkAll(b, path) ==
    FoldLeft(LAMBDA s, i : With(s, LAMBDA t : Walk(b, path, i, t)),
             [st |-> "ok", at |-> 0, tt |-> "msg", desc |-> RootDesc, addr |-> <<>>],
             [i \in 1 .. Len(path) |-> i])

NoSlice == [start |-> 0, end |-> 0, size |-> 0]

\* The slice of the node found: a list or map from its first tag to the end of its
\* entries, anything else without its tag (an element of a packed list has none).
Complex(s) == s.tt \in {"list", "map"}
SliceEntries(b, s) ==
    With(SkipAllElements(b, s.at, s.desc.id, IsPacked(s.desc)),
         LAMBDA all : [s EXCEPT !.st = IF all.at = Fail THEN "error" ELSE "ok"]
                      @@ [start |-> Last(s.addr), end |-> all.at, size |-> all.size])
SliceOne(b, s) ==
    LET desc  == IF s.desc.typ = "list" THEN Elem(s.desc) ELSE s.desc
        start == IF IsPacked(s.desc) THEN s.at ELSE ConsumeTag(b, s.at).at
        To(end) == [s EXCEPT !.st = IF end = Fail THEN "error" ELSE "ok", !.desc = desc]
                   @@ [NoSlice EXCEPT !.start = start, !.end = end]
    IN  With(Skip(b, start, WireType(desc.typ)), To)

\* getByPath of a path that is not empty.  A missing last step has an empty slice.
GetByPath(b, path) ==
    With(WalkAll(b, path), LAMBDA s :
         CASE s.st = "ok" /\ Complex(s) -> SliceEntries(b, s)
           [] s.st = "ok"               -> SliceOne(b, s)
           [] s.st = "last" -> s @@ [NoSlice EXCEPT !.start = Last(s.addr), !.end = Last(s.addr)]
           [] OTHER         -> s @@ NoSlice)

-----------------------------------------------------------------------------
(***************************************************************************)
(* SetByPath.  sub is a Node: its type t and bytes raw (a list or a map    *)
(* brings the tags of its entries, a string or a message its length).      *)
(***************************************************************************)
\* getDescByPath: FALSE when a step has no descriptor.
DescStep(desc, p) ==
    CASE desc.typ = "msg" /\ p.t \in FieldSteps /\ Known(desc, p) -> Fields[desc.msg][p.n]
      [] desc.typ \in {"list", "map"}                            -> Elem(desc)
      [] OTHER                                                   -> [typ |-> "none"]
DescOf(path) == FoldLeft(DescStep, RootDesc, path)

\* ToRaw: what identifies the new node inside its parent.  The wire type of an integer
\* key is taken from the type t of the new node; that of a string key is fixed.
ToRaw(p, t) ==
    CASE p.t \in FieldSteps -> IF t \in {"list", "map"} THEN <<>> ELSE AppendTag(p.n, WireType(t))
      [] p.t = "strKey"     -> AppendTag(1, Fixed) \o AppendVarint(Len(p.k)) \o p.k
      [] p.t = "intKey"     -> AppendTag(1, WireType(t))
                               \o (IF t = "int" THEN AppendVarint(p.n) ELSE <<>>)

\* setNotFound: the bytes of a node that is new in a parent of type tt.
NewNode(tt, p, sub, desc) ==
    CASE tt = "msg"  -> ToRaw(p, sub.t) \o sub.raw
      [] tt = "list" -> IF IsPacked(desc) THEN sub.raw ELSE AppendTag(desc.id, Bytes) \o sub.raw
      [] tt = "map"  -> LET pair == ToRaw(p, sub.t) \o AppendTag(1, WireType(desc.elem)) \o sub.raw
                        IN  AppendTag(desc.id, Bytes) \o AppendVarint(Len(pair)) \o pair

(***************************************************************************)
(* updateByteLen, from the last address to the first.  prev is the type of *)
(* the level below: a length is rewritten where that is a message, or a    *)
(* packed list.  A length that stays as wide ends the turn early, before   *)
(* prev moves on.                                                          *)
(***************************************************************************)
NewLengthOneByte(u, addr) ==
    With(ReadVarint(u.b, addr).at, LAMBDA start :
         With(ReadVarint(u.b, start), LAMBDA len :
              [b     |-> Splice(u.b, start, len.at, <<len.v + u.diff>>),
               width |-> 1 - (len.at - start)]))

\* The length behind the tag at addr, after the difference; a length of 0 takes the tag
\* along.  width: by how much the bytes of the prefix have grown.
NewLength(u, addr) ==
    LET To(start, len) ==
            LET new  == IF len.v + u.diff = 0 THEN <<>> ELSE AppendVarint(len.v + u.diff)
                from == IF new = <<>> THEN addr ELSE start
            IN  [b |-> Splice(u.b, from, len.at, new), width |-> Len(new) - (len.at - from)]
    IN  With(ReadVarint(u.b, addr).at,
             LAMBDA start : With(ReadVarint(u.b, start), LAMBDA len : To(start, len)))

Rewrites(u) == u.prev = "msg" \/ (u.prev = "list" /\ u.packed)

UpdateLevelSameDiff(u, addr, p) ==
    LET To(new) == IF new.width = 0 THEN [u EXCEPT !.b = new.b]
                   ELSE [u EXCEPT !.b = new.b, !.packed = FALSE, !.prev = ParentType(p)]
    IN  IF Rewrites(u) THEN With(NewLength(u, addr), To)
        ELSE [u EXCEPT !.prev = ParentType(p)]

UpdateLevel(u, addr, p) ==
    LET To(new) == IF new.width = 0 THEN [u EXCEPT !.b = new.b]
                   ELSE [b |-> new.b, diff |-> u.diff + new.width,
                         packed |-> FALSE, prev |-> ParentType(p)]
    IN  IF Rewrites(u) THEN With(NewLength(u, addr), To)
        ELSE [u EXCEPT !.prev = ParentType(p)]

UpdateByteLen(b, diff, addr, packed, path) ==
    FoldRight(LAMBDA i, u : With(u, LAMBDA v : UpdateLevel(v, addr[i], path[i])),
              [i \in 1 .. Len(path) |-> i],
              [b |-> b, diff |-> diff, prev |-> "unknown", packed |-> packed]).b

-----------------------------------------------------------------------------
(***************************************************************************)
(* findDeleteChild: the slice [start, end) of a child, with its tag, in    *)
(* the bytes c of its parent; st as for a search.                          *)
(***************************************************************************)
Child(st, start, end) == [st |-> st, start |-> start, end |-> end]

\* From the first to the last field with the number; start begins at the message's length.
RECURSIVE DeleteField(_, _, _, _, _)
DeleteField(c, at, end, id, r) ==
    LET On(tag, next) ==
            IF next = Fail THEN Child("broken", 0, 0)
            ELSE With(IF tag.num = id THEN Child("found", Min({at, r.start}), Max({next, r.end}))
                      ELSE r,
                      LAMBDA found : DeleteField(c, next, end, id, found))
    IN  IF at >= end THEN r
        ELSE With(ConsumeTag(c, at), LAMBDA tag :
                  With(Skip(c, tag.at, tag.wire), LAMBDA next : On(tag, next)))

\* The element idx; an unpacked one with its tag.
RECURSIVE DeleteElem(_, _, _, _, _, _)
DeleteElem(c, at, left, wire, packed, r) ==
    LET To(next) == IF next = Fail THEN Child("broken", 0, 0)
                    ELSE DeleteElem(c, next, left - 1, wire, packed, Child("found", at, next))
    IN  IF at >= Len(c) \/ left < 0 THEN r
        ELSE With(Skip(c, IF packed THEN at ELSE ConsumeTag(c, at).at, wire), To)

\* The first pair with the key.
RECURSIVE DeletePair(_, _, _, _)
DeletePair(c, at, step, key) ==
    LET On(pair) == CASE pair.next = Fail -> Child("broken", 0, 0)
                      [] pair.k = key     -> Child("found", at, pair.next)
                      [] OTHER            -> DeletePair(c, pair.next, step, key)
    IN  IF at >= Len(c) THEN Child("missing", 0, 0)
        ELSE With(ReadPair(c, ConsumeTag(c, at).at, step), On)

\* parent: what getByPath found, with desc its descriptor; the root has no length.
FindDeleteChild(c, parent, p, isRoot) ==
    CASE parent.tt = "msg" /\ p.t \in FieldSteps ->
             With(IF isRoot THEN [v |-> Len(c), at |-> 0] ELSE ReadVarint(c, 0), LAMBDA len :
                  IF len.at = Fail THEN Child("broken", 0, 0)
                  ELSE DeleteField(c, len.at, len.at + len.v, p.n, Child("missing", len.v, 0)))
      [] parent.tt = "list" /\ p.t = "index" ->
             With(IF IsPacked(parent.desc) THEN ReadVarint(c, ConsumeTag(c, 0).at).at ELSE 0,
                  LAMBDA from :
                  CASE parent.size > 0 /\ p.n >= parent.size -> Child("missing", 0, 0)
                    [] from = Fail -> Child("broken", 0, 0)
                    [] OTHER -> DeleteElem(c, from, p.n, WireType(parent.desc.elem),
                                           IsPacked(parent.desc), Child("found", 0, 0)))
      [] parent.tt = "map" /\ p.t \in KeySteps -> DeletePair(c, 0, p.t, KeyOf(p))
      [] parent.tt \in Scalars -> Child("missing", 0, 0)
      [] OTHER -> Child("broken", 0, 0)

-----------------------------------------------------------------------------
(***************************************************************************)
(* The calls.  A call names its operation, its path and, for SetByPath,    *)
(* the node to put there.                                                  *)
(***************************************************************************)
ById(p) == IF p.t = "name" THEN [p EXCEPT !.t = "id"] ELSE p

Answer(st) == [st |-> st, exist |-> FALSE, raw |-> <<>>, tt |-> "none", addr |-> <<>>, many |-> <<>>]
Value(b, s) == [Answer("ok") EXCEPT !.raw = SubSeq(b, s.start + 1, s.end),
                                    !.tt = s.tt, !.addr = s.addr]

GetAnswer(b, path) ==
    With(GetByPath(b, path), LAMBDA s : IF s.st = "ok" THEN Value(b, s) ELSE Answer(s.st))

\* What SetByPath puts at the place it found: the bytes, and the answer.
Replacement(s, path, sub) ==
    CASE s.st = "ok" ->
             IF s.tt = sub.t THEN [st |-> "ok", raw |-> sub.raw] ELSE [st |-> "mismatch"]
      [] s.st = "last" ->
             LET desc == DescOf(Front(path))
             IN  IF desc.typ = "none" THEN [st |-> "error"]
                 ELSE [st |-> "ok", raw |-> NewNode(s.tt, ById(Last(path)), sub, desc)]
      [] OTHER -> [st |-> "error"]

\* The answer of a call that edits, and the bytes after it.
Edited(answer, b) == [res |-> answer, buf |-> b]

SetByPathUnchecked(b, path, sub) ==
    LET packed == Last(path).t = "index" /\ PackedType(sub.t)
        Update(c, s) == UpdateByteLen(c, Len(c) - Len(b), s.addr, packed, path)
        To(s, new) ==
            Edited([Answer(new.st) EXCEPT !.exist = s.st = "ok"],
                   CASE new.st = "ok" ->
                            With(Splice(b, s.start, s.end, new.raw), LAMBDA c : Update(c, s))
                     [] new.st = "mismatch" ->
                            With(Splice(b, s.start, s.end, sub.raw), LAMBDA c : Update(c, s))
                     [] OTHER -> b)
    IN  With(GetByPath(b, path),
             LAMBDA s : With(Replacement(s, path, sub), LAMBDA new : To(s, new)))

SetByPath(b, path, sub) ==
    LET packed == Last(path).t = "index" /\ PackedType(sub.t)
        Update(c, s) == UpdateByteLen(c, Len(c) - Len(b), s.addr, packed, path)
        To(s, new) ==
            Edited([Answer(new.st) EXCEPT !.exist = s.st = "ok"],
                   CASE new.st = "ok" ->
                            With(Splice(b, s.start, s.end, new.raw), LAMBDA c : Update(c, s))
                     [] new.st = "mismatch" -> Update(b, s)
                     [] OTHER               -> b)
    IN  With(GetByPath(b, path),
             LAMBDA s : With(Replacement(s, path, sub), LAMBDA new : To(s, new)))

\* The Value that a call is made on: the root for the empty path.
Self(b, path) ==
    IF path = <<>> THEN [st |-> "ok", start |-> 0, end |-> Len(b), size |-> 0, tt |-> "msg",
                         desc |-> RootDesc, addr |-> <<>>]
    ELSE GetByPath(b, path)

UnsetByPath(b, path) ==
    LET desc == DescOf(Front(path))
        Cut(parent, child) == Splice(b, parent.start + child.start, parent.start + child.end, <<>>)
        Update(parent, child, c) ==
            UpdateByteLen(c, Len(c) - Len(b), Append(parent.addr, child.start), IsPacked(desc), path)
        On(parent, child) ==
            IF child.st # "found" THEN Edited(Answer("error"), b)
            ELSE Edited(Answer("ok"),
                        With(Cut(parent, child), LAMBDA c : Update(parent, child, c)))
        In(parent) ==
            CASE parent.st \in {"last", "absent"} -> Edited(Answer("ok"), b)
              [] parent.st = "error"              -> Edited(Answer("error"), b)
              [] desc.typ = "none"                -> Edited(Answer("error"), b)
              [] OTHER -> With(FindDeleteChild(SubSeq(b, parent.start + 1, parent.end), parent,
                                               ById(Last(path)), Len(path) = 1),
                               LAMBDA child : On(parent, child))
    IN  With(Self(b, Front(path)), In)

-----------------------------------------------------------------------------
(***************************************************************************)
(* GetMany: one pass over the children of self, a slice of the bytes.      *)
(* at: the reader; left: how many children are still to be found; got: the *)
(* slice of each step, or nothing.  Positions are those of the root.       *)
(***************************************************************************)
Nothing == <<>>
Reading(at, steps) == [st |-> "ok", at |-> at, left |-> Len(steps), got |-> [i \in DOMAIN steps |-> Nothing]]
Stuck(g) == [g EXCEPT !.st = "error"]

\* The first of the steps that asks for a child takes it.
Take(g, wanted, from, to, at) ==
    IF wanted = {} THEN [g EXCEPT !.at = at]
    ELSE [g EXCEPT !.at = at, !.left = @ - 1, !.got[Min(wanted)] = <<[start |-> from, end |-> to]>>]

\* Node.Fields: a list or a map with all its entries.  A number that the message type does
\* not have ends in a panic.
RECURSIVE ManyFields(_, _, _, _)
ManyFields(c, msg, steps, g) ==
    LET Rest(r) == ManyFields(c, msg, steps, r)
        Whole(tag, desc) ==
            IF desc.typ \in {"list", "map"} THEN [from |-> g.at, to |-> SkipAllElements(c, g.at, tag.num, IsPacked(desc)).at]
            ELSE [from |-> tag.at, to |-> Skip(c, tag.at, tag.wire)]
        On(tag, child) ==
            IF child.to = Fail THEN Stuck(g)
            ELSE With(Take(g, {i \in DOMAIN steps : steps[i].n = tag.num}, child.from, child.to, child.to), Rest)
        At(tag) ==
            IF tag.at = Fail \/ Skip(c, tag.at, tag.wire) = Fail \/ tag.num \notin DOMAIN Fields[msg] THEN Stuck(g)
            ELSE With(Whole(tag, Fields[msg][tag.num]), LAMBDA child : On(tag, child))
    IN  IF g.at >= Len(c) \/ g.left = 0 THEN g ELSE With(ConsumeTag(c, g.at), At)

\* Node.Indexes, at the element i.
RECURSIVE ManyElems(_, _, _, _, _)
ManyElems(c, self, steps, i, g) ==
    LET wanted == {j \in DOMAIN steps : steps[j].n = i /\ i < self.size}
        On(from, to) == IF to = Fail THEN Stuck(g)
                        ELSE With(Take(g, wanted, from, to, to), LAMBDA r : ManyElems(c, self, steps, i + 1, r))
        At(from) == With(Skip(c, from, WireType(self.desc.elem)), LAMBDA to : On(from, to))
    IN  IF g.at >= Len(c) \/ g.left = 0 THEN g
        ELSE With(IF IsPacked(self.desc) THEN g.at ELSE ConsumeTag(c, g.at).at, At)

\* Node.Gets: every key that is looked at reads a pair, and a match begins anew with the first
\* key; only a round that begins looks whether there is a pair.
RECURSIVE ManyPairs(_, _, _, _)
ManyPairs(c, steps, j, g) ==
    LET Behind(pair) == ConsumeTag(c, pair.value).at
        On(pair) ==
            IF pair.next = Fail THEN Stuck(g)
            ELSE IF pair.k = KeyOf(steps[j])
            THEN With(Take(g, {j}, Behind(pair), pair.next, pair.next), LAMBDA r : ManyPairs(c, steps, 1, r))
            ELSE ManyPairs(c, steps, IF j = Len(steps) THEN 1 ELSE j + 1, [g EXCEPT !.at = pair.next])
    IN  IF j = 1 /\ (g.at >= Len(c) \/ g.left = 0) THEN g
        ELSE With(ReadPair(c, ConsumeTag(c, g.at).at, steps[j].t), On)

\* What the steps have to be is told by the first one.
GetMany(b, path, steps, self) ==
    LET c == SubSeq(b, 1, self.end)
        t == steps[1].t
        At(at) == Reading(at, steps)
        From(at) ==
            CASE at = Fail        -> Stuck(At(0))
              [] self.tt = "msg"  -> ManyFields(c, self.desc.msg, steps, At(at))
              [] self.tt = "list" -> ManyElems(c, self, steps, 0, At(at))
              [] self.tt = "map"  -> ManyPairs(c, steps, 1, At(at))
    IN  IF self.st # "ok" \/ <<self.tt, t>> \notin {<<"msg", "id">>, <<"list", "index">>} \cup {"map"} \X KeySteps
        THEN Stuck(At(0))
        ELSE With(CASE self.tt = "msg" /\ path # <<>>          -> ReadVarint(c, self.start).at
                    [] self.tt = "list" /\ IsPacked(self.desc) -> ReadVarint(c, ConsumeTag(c, self.start).at).at
                    [] OTHER -> self.start, From)

GetManyAnswer(b, path, steps) ==
    With(Self(b, path), LAMBDA self : With(GetMany(b, path, steps, self), LAMBDA g :
         IF g.st # "ok" THEN Answer("error")
         ELSE [Answer("ok") EXCEPT !.many = [i \in DOMAIN steps |-> IF g.got[i] = Nothing THEN Nothing
                                                    ELSE <<SubSeq(b, g.got[i][1].start + 1, g.got[i][1].end)>>]]))

(***************************************************************************)
(* SetMany: what GetMany found is replaced, the rest goes to the end of    *)
(* self; the bytes of the root are put together from the front.  No type   *)
(* is compared.  The last address and step that the caller adds to those   *)
(* of self only tell the type of self.                                     *)
(***************************************************************************)
Flag(self) == [t |-> CASE self.tt = "msg" -> "id" [] self.tt = "list" -> "index" [] self.tt = "map" -> "intKey",
               n |-> 0, k |-> <<>>]

ReplaceMany(b, ps) ==
    FoldRight(LAMBDA p, c : Splice(c, p.start, p.end, p.raw), SortSeq(ps, LAMBDA p, q : p.start < q.start), b)

SetMany(b, path, steps, subs) ==
    LET Part(self, got, i) ==
            IF got[i] # Nothing THEN got[i][1] @@ [raw |-> subs[i].raw]
            ELSE [start |-> self.end, end |-> self.end, raw |-> NewNode(self.tt, steps[i], subs[i], self.desc)]
        Update(c, self) ==
            IF path = <<>> THEN c
            ELSE UpdateByteLen(c, Len(c) - Len(b), Append(self.addr, 0), IsPacked(self.desc), Append(path, Flag(self)))
        On(self, g) ==
            IF g.st # "ok" THEN Edited(Answer("error"), b)
            ELSE Edited(Answer("ok"),
                        With(ReplaceMany(b, [i \in DOMAIN steps |-> Part(self, g.got, i)]), LAMBDA c : Update(c, self)))
    IN  With(Self(b, path), LAMBDA self : With(GetMany(b, path, steps, self), LAMBDA g : On(self, g)))

-----------------------------------------------------------------------------
NoCall == [op |-> "none"]

Init == /\ buf \in InitBufs
        /\ call = NoCall
        /\ res = Answer("ok")

Get == /\ call = NoCall
       /\ \E path \in Gets :
            /\ call' = [op |-> "get", path |-> path]
            /\ res' = GetAnswer(buf, path)
       /\ UNCHANGED buf

Set == /\ call = NoCall
       /\ Len(buf) < MaxLen
       /\ \E c \in Sets :
           \E r \in {SetByPath(buf, c.path, c.sub)} :
             /\ call' = [op |-> "set", path |-> c.path, sub |-> c.sub]
             /\ res' = r.res
             /\ buf' = r.buf

Unset == /\ call = NoCall
         /\ \E path \in Unsets :
             \E r \in {UnsetByPath(buf, path)} :
               /\ call' = [op |-> "unset", path |-> path]
               /\ res' = r.res
               /\ buf' = r.buf

GetSome == /\ call = NoCall
           /\ \E c \in GetManys :
                /\ call' = [op |-> "getMany", path |-> c.path, steps |-> c.steps]
                /\ res' = GetManyAnswer(buf, c.path, c.steps)
           /\ UNCHANGED buf

SetSome == /\ call = NoCall
           /\ Len(buf) < MaxLen
           /\ \E c \in SetManys :
               \E r \in {SetMany(buf, c.path, c.steps, c.subs)} :
                 /\ call' = [op |-> "setMany", path |-> c.path, steps |-> c.steps]
                 /\ res' = r.res
                 /\ buf' = r.buf

\* The caller takes the answer.
Return == /\ call # NoCall
          /\ call' = NoCall
          /\ res' = Answer("ok")
          /\ UNCHANGED buf

Next == Get \/ Set \/ Unset \/ GetSome \/ SetSome \/ Return

Spec == Init /\ [][Next]_vars
=============================================================================
