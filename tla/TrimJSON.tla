------------------------------ MODULE TrimJSON ------------------------------
(***************************************************************************)
(* Descriptors as JSON: MarshalJSON, where a descriptor that was met       *)
(* before is a $ref to the path of its first meeting, and UnmarshalJSON.   *)
(* A text is a function from paths to objects: the path of a descriptor is *)
(* the sequence of child numbers that leads to it from the root.  A child  *)
(* is left out (nil), written in its place, or a reference.                *)
(* Texts are not kept: what was written is read again in the same step.    *)
(* MarshalJSON reads nothing that Normalize writes.                        *)
(***************************************************************************)
EXTENDS TrimDesc, FiniteSets

CONSTANTS MaxReads          \* bound on how often JSON is read

VARIABLES copied            \* history: each descriptor written as JSON, and where it was read

jsonVars == <<vars, copied>>

Member(c, how, ref) == [name |-> c.name, id |-> c.id, how |-> how, ref |-> ref]

\* Mutant: an object is registered under the path of the one around it.
OpenedOuter(s, h, d, path) ==
    [open |-> Append(s.open, [d |-> d, path |-> path, i |-> 1]),
     visited |-> Put(s.visited, d, IF path = <<>> THEN path ELSE Front(path)),
     text |-> Put(s.text, path, NodeOf(h[d].kind, h[d].type, <<>>))]

\* marshalWithPath: the objects still open, the first path of each descriptor, the text.
Opened(s, h, d, path) ==
    [open |-> Append(s.open, [d |-> d, path |-> path, i |-> 1]),
     visited |-> Put(s.visited, d, path),
     text |-> Put(s.text, path, NodeOf(h[d].kind, h[d].type, <<>>))]
Wrote(s, path, m) ==
    [s EXCEPT !.open[Len(s.open)].i = @ + 1, !.text[path].children = Append(@, m)]

MarshalChild(s, h, f, c) ==
    IF c.desc = Nil THEN Wrote(s, f.path, Member(c, "nil", <<>>))
    ELSE IF c.desc \in DOMAIN s.visited
         THEN Wrote(s, f.path, Member(c, "ref", s.visited[c.desc]))
         ELSE Opened(Wrote(s, f.path, Member(c, "desc", <<>>)), h, c.desc, Append(f.path, f.i))

MarshalStep(s, h) ==
    IF s.open = <<>> THEN s
    ELSE LET f == Last(s.open) IN
         IF f.i > Len(h[f.d].children) THEN [s EXCEPT !.open = Front(@)]
         ELSE MarshalChild(s, h, f, h[f.d].children[f.i])

\* Each descriptor is opened once, closed once, and each of its children is written once.
Work(h) == UNION {{d} \X (1 .. Len(h[d].children) + 1) : d \in DOMAIN h}
Steps(h) == Cardinality(Work(h))
Start(h, d) == Opened([open |-> <<>>, visited |-> <<>>, text |-> <<>>], h, d, <<>>)
Marshalling(h, d) ==
    LET run[k \in 0 .. Steps(h)] == IF k = 0 THEN Start(h, d) ELSE MarshalStep(run[k - 1], h)
    IN  run
MarshalJSON(h, d) == Marshalling(h, d)[Steps(h)].text

\* unmarshalFromJSON: the root is read into t, every other object into a new descriptor.
Allocated(text) == SetToSeq(DOMAIN text \ {<<>>})
\* Mutant: new descriptors are counted from one too far on.
PlaceBeyond(text, h, t, path) ==
    IF path = <<>> THEN t
    ELSE Len(h) + 1 + CHOOSE k \in DOMAIN Allocated(text) : Allocated(text)[k] = path

Place(text, h, t, path) ==
    IF path = <<>> THEN t ELSE Len(h) + CHOOSE k \in DOMAIN Allocated(text) : Allocated(text)[k] = path
\* resolveRefs: the descriptor whose path a reference names.
Target(text, h, t, path, i) ==
    LET m == text[path].children[i] IN
    CASE m.how = "nil"  -> Nil
      [] m.how = "desc" -> Place(text, h, t, Append(path, i))
      [] m.how = "ref"  -> Place(text, h, t, m.ref)
Read(text, h, t, path) ==
    [i \in DOMAIN text[path].children |->
        [name |-> text[path].children[i].name, id |-> text[path].children[i].id,
         desc |-> Target(text, h, t, path, i)]]
Object(text, h, t, path) == NodeOf(text[path].kind, text[path].type, Read(text, h, t, path))
UnmarshalJSON(text, h, t) ==
    [h EXCEPT ![t] = Object(text, h, t, <<>>)]
        \o [k \in DOMAIN Allocated(text) |-> Object(text, h, t, Allocated(text)[k])]

-----------------------------------------------------------------------------
\* Mutant: what was read counts as normalized.
ThroughMarks(d, h, t) ==
    /\ MayRead(t) /\ Len(copied) < MaxReads
    /\ heap' = UnmarshalJSON(MarshalJSON(heap, d), h, t)
    /\ normalized' = [e \in DOMAIN heap' |-> e \in DOMAIN heap \ {t} => normalized[e]]
    /\ ids' = [e \in DOMAIN heap' |-> IF e \in DOMAIN heap \ {t} THEN ids[e] ELSE NoMap]
    /\ names' = [e \in DOMAIN heap' |-> IF e \in DOMAIN heap \ {t} THEN names[e] ELSE NoMap]
    /\ UNCHANGED <<calls, crashed>>
    /\ copied' = Append(copied, <<d, t>>)

\* d goes through JSON into t of the heap h.
Through(d, h, t) ==
    /\ MayRead(t) /\ Len(copied) < MaxReads
    /\ heap' = UnmarshalJSON(MarshalJSON(heap, d), h, t)
    /\ ResetMaps(t)
    /\ copied' = Append(copied, <<d, t>>)

Copy(d) == Through(d, Append(heap, NodeOf(heap[d].kind, heap[d].type, <<>>)), Len(heap) + 1)

Reload(d, t) == Through(d, heap, t)

JSONInit == Init /\ copied = <<>>

JSONNext == \/ NextNormalize /\ UNCHANGED copied
            \/ \E d \in DOMAIN heap : Copy(d) \/ \E t \in DOMAIN heap : Reload(d, t)

JSONSpec == JSONInit /\ [][JSONNext]_jsonVars /\ \A p \in Procs : WF_vars(Normalize(p))

-----------------------------------------------------------------------------
(***************************************************************************)
(* Properties.                                                             *)
(***************************************************************************)
\* What was written as JSON and read again is the same graph: descriptors that were shared are
\* shared and cycles are closed (what desc_test.go checks of five graphs).
SameGraph(h, d, g, e) ==
    \E f \in [Reach(h, d) -> Reach(g, e)] :
        /\ f[d] = e /\ \A x, y \in Reach(h, d) : f[x] = f[y] => x = y
        /\ \A x \in Reach(h, d) :
              /\ g[f[x]].kind = h[x].kind /\ g[f[x]].type = h[x].type
              /\ g[f[x]].children = [i \in DOMAIN h[x].children |->
                    [h[x].children[i] EXCEPT !.desc = IF @ = Nil THEN Nil ELSE f[@]]]
SurvivesJSON == [][copied' # copied => SameGraph(heap, Last(copied')[1], heap', Last(copied')[2])]_jsonVars

\* Reading JSON is a Rebuild: it changes the one descriptor it reads into, and what it refers to
\* is there.
Rebuilds == Spec

\* Normalize ends on any graph, whoever else is in it, unless the process has died.
Ends == \A p \in Procs : []<>(calls[p] = <<>> \/ crashed)
=============================================================================
