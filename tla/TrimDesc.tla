------------------------------ MODULE TrimDesc ------------------------------
(***************************************************************************)
(* Descriptors of package trim: a graph of Descriptor structs that may be  *)
(* shared and cyclic, Normalize, which fills the lookup maps of every      *)
(* descriptor it can reach, and what UnmarshalJSON means to it: a          *)
(* descriptor gets other children, some of them new.  TrimJSON has the     *)
(* texts.                                                                  *)
(* Nothing here is locked.  Several goroutines may be in Normalize at      *)
(* once, statement by statement; what unmarshals into a descriptor has it  *)
(* to itself.                                                              *)
(***************************************************************************)
EXTENDS Integers, Sequences, SequencesExt

CONSTANTS Procs,            \* goroutines
          Heaps,            \* descriptors built by hand, each a sequence of nodes
          Kinds, Types, Names, Ids,
          NoMap,            \* a nil map
          ReuseNormalized   \* whether JSON is read into descriptors that were normalized

\* A descriptor is its place in the heap, and 0 is nil.
Nil == 0
Child == [name : Names, id : Ids, desc : Nat]
Node  == [kind : Kinds, type : Types, children : Seq(Child)]
NodeOf(kind, type, children) == [kind |-> kind, type |-> type, children |-> children]

Closed(h) == \A d \in DOMAIN h : \A i \in DOMAIN h[d].children : h[d].children[i].desc \in 0 .. Len(h)

ASSUME TrimAssumption ==
    /\ \A S \in (SUBSET Ids) \cup (SUBSET Names) : NoMap \notin [S -> Nat]
    /\ \A h \in Heaps : h \in Seq(Node) /\ Closed(h)
    /\ ReuseNormalized \in BOOLEAN

\* The unexported fields of a descriptor are kept beside the heap.  A map holds, for each key,
\* the number of the child (in Go: a copy of it).
VARIABLES heap,
          normalized, ids, names,
          calls,            \* the open calls of Normalize of each goroutine
          crashed           \* the runtime has found two writers of a map

vars == <<heap, normalized, ids, names, calls, crashed>>

-----------------------------------------------------------------------------
(***************************************************************************)
(* Normalize, one statement a step.                                        *)
(***************************************************************************)
At == {"check", "mark", "ids", "names", "id", "name", "child"}
Frame(d) == [d |-> d, at |-> "check", i |-> 1]

Top(p) == Last(calls[p])
Running(p, at) == ~crashed /\ calls[p] # <<>> /\ Top(p).at = at
Kids(d) == heap[d].children
\* The goroutine's innermost call goes on at another statement, for another child.
Goto(p, at, i) == calls' = [calls EXCEPT ![p] = Append(Front(@), [d |-> Top(p).d, at |-> at, i |-> i])]
Return(p) == calls' = [calls EXCEPT ![p] = Front(@)]

Call(p) == /\ ~crashed /\ calls[p] = <<>>
           /\ \E d \in DOMAIN heap : calls' = [calls EXCEPT ![p] = <<Frame(d)>>]
           /\ UNCHANGED <<heap, normalized, ids, names, crashed>>

AlreadyNormalized(p) ==
    /\ Running(p, "check") /\ normalized[Top(p).d]
    /\ Return(p)
    /\ UNCHANGED <<heap, normalized, ids, names, crashed>>

NotNormalized(p) ==
    /\ Running(p, "check") /\ ~normalized[Top(p).d]
    /\ Goto(p, "mark", 1)
    /\ UNCHANGED <<heap, normalized, ids, names, crashed>>

Mark(p) ==
    /\ Running(p, "mark")
    /\ normalized' = [normalized EXCEPT ![Top(p).d] = TRUE]
    /\ Goto(p, "ids", 1)
    /\ UNCHANGED <<heap, ids, names, crashed>>

MakeIds(p) ==
    /\ Running(p, "ids")
    /\ ids' = [ids EXCEPT ![Top(p).d] = <<>>]
    /\ Goto(p, "names", 1)
    /\ UNCHANGED <<heap, normalized, names, crashed>>

MakeNames(p) ==
    /\ Running(p, "names")
    /\ names' = [names EXCEPT ![Top(p).d] = <<>>]
    /\ Goto(p, "id", 1)
    /\ UNCHANGED <<heap, normalized, ids, crashed>>

\* A map with one more key, or another child for a key it has.  In a nil map this panics.
Put(m, k, i) == [x \in DOMAIN m \cup {k} |-> IF x = k THEN i ELSE m[x]]

PutId(p) ==
    /\ Running(p, "id")
    /\ LET d == Top(p).d
           i == Top(p).i IN
       /\ i <= Len(Kids(d)) /\ ids[d] # NoMap
       /\ ids' = [ids EXCEPT ![d] = Put(@, Kids(d)[i].id, i)]
       /\ Goto(p, "name", i)
    /\ UNCHANGED <<heap, normalized, names, crashed>>

PutName(p) ==
    /\ Running(p, "name")
    /\ LET d == Top(p).d
           i == Top(p).i IN
       /\ names[d] # NoMap
       /\ names' = [names EXCEPT ![d] = Put(@, Kids(d)[i].name, i)]
       /\ Goto(p, "child", i)
    /\ UNCHANGED <<heap, normalized, ids, crashed>>

\* Mutant: a child without a descriptor ends the loop.
NoChildBreak(p) ==
    /\ Running(p, "child") /\ Kids(Top(p).d)[Top(p).i].desc = Nil
    /\ Goto(p, "id", Len(Kids(Top(p).d)) + 1)
    /\ UNCHANGED <<heap, normalized, ids, names, crashed>>

NoChild(p) ==
    /\ Running(p, "child") /\ Kids(Top(p).d)[Top(p).i].desc = Nil
    /\ Goto(p, "id", Top(p).i + 1)
    /\ UNCHANGED <<heap, normalized, ids, names, crashed>>

\* Mutant: the loop stays at its child.
AdvancedNot(f) == [f EXCEPT !.at = "id"]

\* The caller's frame already stands at the next child.
Advanced(f) == [d |-> f.d, at |-> "id", i |-> f.i + 1]

Descend(p) ==
    /\ Running(p, "child")
    /\ LET d == Kids(Top(p).d)[Top(p).i].desc IN
       /\ d # Nil
       /\ calls' = [calls EXCEPT ![p] = Front(@) \o <<Advanced(Top(p)), Frame(d)>>]
    /\ UNCHANGED <<heap, normalized, ids, names, crashed>>

AllDone(p) ==
    /\ Running(p, "id") /\ Top(p).i > Len(Kids(Top(p).d))
    /\ Return(p)
    /\ UNCHANGED <<heap, normalized, ids, names, crashed>>

\* Two goroutines that write the same map at the same time: Go's runtime ends the process when
\* it notices.
Writes(p) == \/ Running(p, "name")
             \/ Running(p, "id") /\ Top(p).i <= Len(Kids(Top(p).d))
Crash ==
    /\ \E p, q \in Procs : /\ p # q /\ Writes(p) /\ Writes(q)
                           /\ Top(p).d = Top(q).d /\ Top(p).at = Top(q).at
    /\ crashed' = TRUE
    /\ UNCHANGED <<heap, normalized, ids, names, calls>>

Normalize(p) == \/ AlreadyNormalized(p) \/ NotNormalized(p) \/ Mark(p)
                \/ MakeIds(p) \/ MakeNames(p) \/ PutId(p) \/ PutName(p)
                \/ NoChild(p) \/ Descend(p) \/ AllDone(p)

-----------------------------------------------------------------------------
(***************************************************************************)
(* UnmarshalJSON, as Normalize sees it.                                    *)
(***************************************************************************)
Quiet == \A p \in Procs : calls[p] = <<>>

\* The flag of a descriptor that is read into stays as it is (a new one has none); its maps
\* are gone.
ResetMaps(t) ==
    /\ normalized' = [e \in DOMAIN heap' |-> e \in DOMAIN heap /\ normalized[e]]
    /\ ids' = [e \in DOMAIN heap' |-> IF e \in DOMAIN heap \ {t} THEN ids[e] ELSE NoMap]
    /\ names' = [e \in DOMAIN heap' |-> IF e \in DOMAIN heap \ {t} THEN names[e] ELSE NoMap]
    /\ UNCHANGED <<calls, crashed>>

\* The caller has the descriptor to itself.
MayRead(t) == /\ ~crashed /\ Quiet
              /\ (t \in DOMAIN heap /\ normalized[t]) => ReuseNormalized

Rebuild(t) ==
    /\ MayRead(t)
    /\ heap' \in Seq(Node) /\ Closed(heap') /\ Len(heap) <= Len(heap')
    /\ \A e \in DOMAIN heap \ {t} : heap'[e] = heap[e]
    /\ ResetMaps(t)

-----------------------------------------------------------------------------
Init == /\ heap \in Heaps
        /\ normalized = [d \in DOMAIN heap |-> FALSE]
        /\ ids = [d \in DOMAIN heap |-> NoMap] /\ names = [d \in DOMAIN heap |-> NoMap]
        /\ calls = [p \in Procs |-> <<>>]
        /\ crashed = FALSE

NextNormalize == (\E p \in Procs : Call(p) \/ Normalize(p)) \/ Crash

Next == NextNormalize \/ \E t \in 1 .. Len(heap) + 1 : Rebuild(t)

Spec == Init /\ [][Next]_vars

-----------------------------------------------------------------------------
(***************************************************************************)
(* Properties.                                                             *)
(***************************************************************************)
MapOn(m, S) == m = NoMap \/ (DOMAIN m \subseteq S /\ m \in [DOMAIN m -> Nat])
FrameType == [d : DOMAIN heap, at : At, i : Nat \ {0}]
TypeOK ==
    /\ heap \in Seq(Node) /\ Closed(heap)
    /\ normalized \in [DOMAIN heap -> BOOLEAN]
    /\ DOMAIN ids = DOMAIN heap /\ DOMAIN names = DOMAIN heap
    /\ \A d \in DOMAIN heap : MapOn(ids[d], Ids) /\ MapOn(names[d], Names)
    /\ calls \in [Procs -> Seq(FrameType)]
    /\ \A p \in Procs : \A k \in DOMAIN calls[p] :
          calls[p][k].at \in {"name", "child"} => calls[p][k].i <= Len(Kids(calls[p][k].d))
    /\ crashed \in BOOLEAN

\* The lookup maps of a descriptor: of children with one key the last counts.
Full(ks) == [k \in {ks[i] : i \in DOMAIN ks} |->
                CHOOSE i \in DOMAIN ks : ks[i] = k /\ \A j \in DOMAIN ks : ks[j] = k => j <= i]
IdKeys(d) == [i \in DOMAIN Kids(d) |-> Kids(d)[i].id]
NameKeys(d) == [i \in DOMAIN Kids(d) |-> Kids(d)[i].name]
Complete(d) == ids[d] = Full(IdKeys(d)) /\ names[d] = Full(NameKeys(d))

ChildrenOf(h, d) == {h[d].children[i].desc : i \in DOMAIN h[d].children} \ {Nil}
WithChildren(h, S) == \A x \in S : ChildrenOf(h, x) \subseteq S
Reach(h, d) == {x \in DOMAIN h : \A S \in SUBSET DOMAIN h : d \in S /\ WithChildren(h, S) => x \in S}

\* Whenever no call of Normalize is open, what was marked has both its maps, with every child
\* in them, and its children are marked too, so that all that can be reached is ready - although
\* the mark is set first, the calls that meet it return at once, also inside a cycle, and
\* goroutines may have filled the same maps at the same time and thrown away each other's.
Normalized ==
    Quiet => \A d \in DOMAIN heap : normalized[d] =>
                Complete(d) /\ \A c \in ChildrenOf(heap, d) : normalized[c]

\* desc.go:63 and the comment of FetchAny say that a descriptor is ready for use once
\* Normalize was called.
ReadyOnReturn ==
    [][\A p \in Procs : calls[p] # <<>> /\ calls'[p] = <<>> =>
          \A e \in Reach(heap, calls[p][1].d) : Complete(e)']_vars
=============================================================================
