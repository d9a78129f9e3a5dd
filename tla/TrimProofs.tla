----------------------------- MODULE TrimProofs -----------------------------
(***************************************************************************)
(* Proofs about TrimDesc and TrimJSON, for any descriptors.  With any      *)
(* number of goroutines in Normalize: the types, and that whenever no call *)
(* is open, everything that is marked has its maps and marked children.    *)
(* Writing ends, its text says everything that can be reached, and reading *)
(* it gives the same graph and is a Rebuild.                               *)
(***************************************************************************)
EXTENDS TrimJSON, SequenceTheorems, FiniteSetTheorems, WellFoundedInduction, TLAPS

-----------------------------------------------------------------------------
(***************************************************************************)
(* The inductive invariant: what a marked descriptor lacks is still to be  *)
(* done by an open call, of whatever goroutine.                            *)
(***************************************************************************)
Open == UNION {{calls[p][k] : k \in DOMAIN calls[p]} : p \in Procs}

LastOf(ks, j) == \A i \in DOMAIN ks : ks[i] = ks[j] => i <= j
Holds(m, k, j) == m # NoMap /\ k \in DOMAIN m /\ m[k] = j

\* The call f has yet to make a map of d, to put child j into it, to descend to child j, or to
\* mark c.
IdsDue(f, d)      == f.d = d /\ f.at = "ids"
NamesDue(f, d)    == f.d = d /\ f.at \in {"ids", "names"}
IdDue(f, d, j)    == f.d = d /\ \/ f.at \in {"ids", "names"}
                                \/ f.at = "id" /\ f.i <= j
                                \/ f.at \in {"name", "child"} /\ f.i < j
NameDue(f, d, j)  == f.d = d /\ \/ f.at \in {"ids", "names"}
                                \/ f.at \in {"id", "name"} /\ f.i <= j
                                \/ f.at = "child" /\ f.i < j
ChildDue(f, d, j) == f.d = d /\ \/ f.at \in {"ids", "names"}
                                \/ f.at \in {"id", "name", "child"} /\ f.i <= j
MarkDue(f, c)     == f.d = c /\ f.at \in {"check", "mark"}

KnownKeys ==
    \A d \in DOMAIN heap :
       /\ ids[d] # NoMap => DOMAIN ids[d] \subseteq {Kids(d)[i].id : i \in DOMAIN Kids(d)}
       /\ names[d] # NoMap => DOMAIN names[d] \subseteq {Kids(d)[i].name : i \in DOMAIN Kids(d)}
MapsMade ==
    \A d \in DOMAIN heap : normalized[d] =>
       /\ ids[d] # NoMap \/ \E f \in Open : IdsDue(f, d)
       /\ names[d] # NoMap \/ \E f \in Open : NamesDue(f, d)
IdsFilled ==
    \A d \in DOMAIN heap : normalized[d] => \A j \in DOMAIN Kids(d) :
       LastOf(IdKeys(d), j) => Holds(ids[d], Kids(d)[j].id, j) \/ \E f \in Open : IdDue(f, d, j)
NamesFilled ==
    \A d \in DOMAIN heap : normalized[d] => \A j \in DOMAIN Kids(d) :
       LastOf(NameKeys(d), j) => Holds(names[d], Kids(d)[j].name, j) \/ \E f \in Open : NameDue(f, d, j)
ChildrenMarked ==
    \A d \in DOMAIN heap : normalized[d] => \A j \in DOMAIN Kids(d) :
       Kids(d)[j].desc # Nil => \/ normalized[Kids(d)[j].desc]
                                \/ \E f \in Open : ChildDue(f, d, j) \/ MarkDue(f, Kids(d)[j].desc)

IInv == TypeOK /\ KnownKeys /\ MapsMade /\ IdsFilled /\ NamesFilled /\ ChildrenMarked
-----------------------------------------------------------------------------
(***************************************************************************)
(* Sequences of keys, and the maps made of them.                           *)
(***************************************************************************)
\* Of the places of a key one is the last.
LEMMA LastPlace ==
    ASSUME NEW S, NEW ks \in Seq(S), NEW i \in DOMAIN ks
    PROVE  \E j \in DOMAIN ks : ks[j] = ks[i] /\ LastOf(ks, j)
<1> DEFINE R == OpToRel(<, Nat)
           T == {n \in Nat : \E j \in DOMAIN ks : ks[j] = ks[i] /\ n = Len(ks) - j}
<1>1. IsWellFoundedOn(R, Nat)
  BY NatLessThanWellFounded
<1>2. \A m, n \in Nat : m < n => <<m, n>> \in R
  BY DEF OpToRel
<1>3. Len(ks) - i \in T
  OBVIOUS
<1>4. PICK n \in T : \A m \in T : ~(<<m, n>> \in R)
  <2> HIDE DEF R
  <2>1. T \subseteq Nat /\ T # {}
    BY <1>3
  <2> HIDE DEF T
  <2> QED  BY <1>1, <2>1, WFMin
<1>5. PICK j \in DOMAIN ks : ks[j] = ks[i] /\ n = Len(ks) - j
  OBVIOUS
<1>6. ASSUME NEW k \in DOMAIN ks, ks[k] = ks[j]
      PROVE  k <= j
  <2> HIDE DEF R
  <2>1. Len(ks) - k \in T
    BY <1>5, <1>6
  <2>2. ~(Len(ks) - k < n)
    BY <1>2, <1>4, <2>1
  <2> QED  BY <1>5, <2>2
<1> QED  BY <1>5, <1>6 DEF LastOf

\* A map that has no other keys, and for each key its last place, is the full map.
LEMMA FullIs ==
    ASSUME NEW S, NEW ks \in Seq(S), NEW m, m \in [DOMAIN m -> Nat],
           DOMAIN m \subseteq {ks[i] : i \in DOMAIN ks},
           \A j \in DOMAIN ks : LastOf(ks, j) => ks[j] \in DOMAIN m /\ m[ks[j]] = j
    PROVE  m = Full(ks)
<1> DEFINE C(k) == CHOOSE i \in DOMAIN ks : ks[i] = k /\ \A j \in DOMAIN ks : ks[j] = k => j <= i
           K == {ks[i] : i \in DOMAIN ks}
<1>1. Full(ks) = [k \in K |-> C(k)]
  BY DEF Full
<1>2. ASSUME NEW i \in DOMAIN ks
      PROVE  ks[i] \in DOMAIN m /\ m[ks[i]] = C(ks[i])
  <2>1. PICK j \in DOMAIN ks : ks[j] = ks[i] /\ LastOf(ks, j)
    BY LastPlace
  <2>2. \A k \in DOMAIN ks : (ks[k] = ks[i] /\ \A l \in DOMAIN ks : ks[l] = ks[i] => l <= k) <=> k = j
    BY <2>1 DEF LastOf
  <2>3. C(ks[i]) = j
    BY <2>2
  <2> QED  BY <2>1, <2>3
<1> HIDE DEF C
<1>3. DOMAIN m = K
  BY <1>2
<1>4. \A k \in K : m[k] = C(k)
  BY <1>2
<1> HIDE DEF K
<1> QED  BY <1>1, <1>3, <1>4

-----------------------------------------------------------------------------
(***************************************************************************)
(* Open calls.                                                             *)
(***************************************************************************)
GoodFrame == {f \in FrameType : f.at \in {"name", "child"} => f.i <= Len(Kids(f.d))}
GoodCalls == calls \in [Procs -> Seq(GoodFrame)]
TypedCalls ==
    /\ calls \in [Procs -> Seq(FrameType)]
    /\ \A p \in Procs : \A k \in DOMAIN calls[p] :
          calls[p][k].at \in {"name", "child"} => calls[p][k].i <= Len(Kids(calls[p][k].d))

LEMMA CallsAreGood == GoodCalls <=> TypedCalls
<1> DEFINE F == FrameType
           Bound == \A p \in Procs : \A k \in DOMAIN calls[p] :
                       calls[p][k].at \in {"name", "child"} => calls[p][k].i <= Len(Kids(calls[p][k].d))
<1>1. \A f : f \in GoodFrame <=> f \in F /\ (f.at \in {"name", "child"} => f.i <= Len(Kids(f.d)))
  BY DEF GoodFrame
<1> HIDE DEF F
<1>2. ASSUME GoodCalls PROVE calls \in [Procs -> Seq(F)] /\ Bound
  <2>1. \A p \in Procs : calls[p] \in Seq(GoodFrame)
    BY <1>2 DEF GoodCalls
  <2>2. \A p \in Procs : \A k \in DOMAIN calls[p] : calls[p][k] \in GoodFrame
    BY <2>1
  <2>3. \A p \in Procs : calls[p] \in Seq(F)
    BY <1>1, <2>1, <2>2
  <2> QED  BY <1>1, <1>2, <2>2, <2>3 DEF GoodCalls
<1>3. ASSUME calls \in [Procs -> Seq(F)], Bound PROVE GoodCalls
  <2>1. \A p \in Procs : \A k \in DOMAIN calls[p] : calls[p][k] \in GoodFrame
    BY <1>1, <1>3
  <2>2. \A p \in Procs : calls[p] \in Seq(GoodFrame)
    BY <1>3, <2>1
  <2> QED  BY <1>3, <2>2 DEF GoodCalls
<1> QED  BY <1>2, <1>3 DEF F, TypedCalls

\* When a goroutine's innermost call is replaced by others, no other call is lost.
LEMMA Replaced ==
    ASSUME NEW T, calls \in [Procs -> Seq(T)], NEW p \in Procs, calls[p] # <<>>,
           NEW s \in Seq(T), calls' = [calls EXCEPT ![p] = s],
           \A k \in 1 .. Len(calls[p]) - 1 : k \in DOMAIN s /\ s[k] = calls[p][k]
    PROVE  /\ calls' \in [Procs -> Seq(T)]
           /\ \A f \in Open : f = Top(p) \/ f \in Open'
           /\ \A k \in DOMAIN s : s[k] \in Open'
<1>1. calls' \in [Procs -> Seq(T)] /\ calls'[p] = s /\ \A q \in Procs \ {p} : calls'[q] = calls[q]
  OBVIOUS
<1>2. \A k \in DOMAIN s : s[k] \in Open'
  BY <1>1 DEF Open
<1>3. ASSUME NEW f \in Open PROVE f = Top(p) \/ f \in Open'
  <2>0. PICK q \in Procs : \E k \in DOMAIN calls[q] : f = calls[q][k]
    BY DEF Open
  <2>1. PICK k \in DOMAIN calls[q] : f = calls[q][k]
    BY <2>0
  <2>2. CASE q # p
    BY <1>1, <2>1, <2>2 DEF Open
  <2>3. CASE q = p /\ k = Len(calls[p])
    BY <2>1, <2>3 DEF Top, Last
  <2>4. CASE q = p /\ k # Len(calls[p])
    <3>1. k \in 1 .. Len(calls[p]) - 1
      BY <2>1, <2>4
    <3> QED  BY <1>2, <2>1, <2>4, <3>1
  <2> QED  BY <2>2, <2>3, <2>4
<1> QED  BY <1>1, <1>2, <1>3

LEMMA FrontIs ==
    ASSUME NEW T, NEW c \in Seq(T), c # <<>>
    PROVE  /\ Front(c) \in Seq(T) /\ Len(Front(c)) = Len(c) - 1
           /\ \A k \in 1 .. Len(c) - 1 : Front(c)[k] = c[k]
<1>1. Len(c) \in Nat \ {0} /\ DOMAIN c = 1 .. Len(c)
  OBVIOUS
<1>2. Front(c) = SubSeq(c, 1, Len(c) - 1)
  BY DEF Front
<1>3. \A k \in 1 .. Len(c) - 1 : c[k] \in T
  BY <1>1
<1>4. Front(c) \in Seq(T)
  BY <1>1, <1>2, <1>3
<1>5. Len(Front(c)) = Len(c) - 1
  BY <1>1, <1>2
<1>6. \A k \in 1 .. Len(c) - 1 : Front(c)[k] = c[k]
  BY <1>1, <1>2
<1> QED  BY <1>4, <1>5, <1>6

\* The innermost call of a goroutine, and the calls around it.
LEMMA TopIs ==
    ASSUME NEW T, calls \in [Procs -> Seq(T)], NEW p \in Procs, calls[p] # <<>>
    PROVE  /\ Top(p) \in T /\ Top(p) \in Open
           /\ Front(calls[p]) \in Seq(T) /\ Len(Front(calls[p])) = Len(calls[p]) - 1
           /\ \A k \in 1 .. Len(calls[p]) - 1 : Front(calls[p])[k] = calls[p][k]
<1>1. calls[p] \in Seq(T) /\ Len(calls[p]) \in Nat \ {0}
  OBVIOUS
<1>2. Top(p) = calls[p][Len(calls[p])] /\ Len(calls[p]) \in DOMAIN calls[p]
  BY <1>1 DEF Top, Last
<1>3. Top(p) \in T /\ Top(p) \in Open
  BY <1>1, <1>2 DEF Open
<1>4. /\ Front(calls[p]) \in Seq(T) /\ Len(Front(calls[p])) = Len(calls[p]) - 1
      /\ \A k \in 1 .. Len(calls[p]) - 1 : Front(calls[p])[k] = calls[p][k]
  BY <1>1, FrontIs
<1> QED  BY <1>3, <1>4

LEMMA GotoStep ==
    ASSUME NEW T, calls \in [Procs -> Seq(T)], NEW p \in Procs, calls[p] # <<>>,
           NEW at, NEW i, Goto(p, at, i), [d |-> Top(p).d, at |-> at, i |-> i] \in T
    PROVE  /\ calls' \in [Procs -> Seq(T)]
           /\ \A f \in Open : f = Top(p) \/ f \in Open'
           /\ [d |-> Top(p).d, at |-> at, i |-> i] \in Open'
<1> DEFINE n == [d |-> Top(p).d, at |-> at, i |-> i]
           s == Append(Front(calls[p]), n)
<1>1. calls' = [calls EXCEPT ![p] = s]
  BY DEF Goto
<1> HIDE DEF n
<1>2. /\ s \in Seq(T) /\ Len(calls[p]) \in DOMAIN s /\ s[Len(calls[p])] = n
      /\ \A k \in 1 .. Len(calls[p]) - 1 : k \in DOMAIN s /\ s[k] = calls[p][k]
  BY TopIs DEF n
<1> HIDE DEF s
<1>3. /\ calls' \in [Procs -> Seq(T)]
      /\ \A f \in Open : f = Top(p) \/ f \in Open'
      /\ \A k \in DOMAIN s : s[k] \in Open'
  BY <1>1, <1>2, Replaced
<1> QED  BY <1>2, <1>3 DEF n

LEMMA ReturnStep ==
    ASSUME NEW T, calls \in [Procs -> Seq(T)], NEW p \in Procs, calls[p] # <<>>, Return(p)
    PROVE  /\ calls' \in [Procs -> Seq(T)]
           /\ \A f \in Open : f = Top(p) \/ f \in Open'
<1> DEFINE s == Front(calls[p])
<1>1. calls' = [calls EXCEPT ![p] = s]
  BY DEF Return
<1>2. s \in Seq(T) /\ \A k \in 1 .. Len(calls[p]) - 1 : k \in DOMAIN s /\ s[k] = calls[p][k]
  BY TopIs
<1> HIDE DEF s
<1> QED  BY <1>1, <1>2, Replaced
-----------------------------------------------------------------------------
(***************************************************************************)
(* Steps that only change calls.                                           *)
(***************************************************************************)
LEMMA SameKeys ==
    ASSUME heap' = heap
    PROVE  \A d, j : /\ LastOf(IdKeys(d), j)' <=> LastOf(IdKeys(d), j)
                     /\ LastOf(NameKeys(d), j)' <=> LastOf(NameKeys(d), j)
BY DEF LastOf, IdKeys, NameKeys, Kids

\* What the call f has to do is done, or left to a call that is open afterwards.
HandedOn(f) ==
    /\ \A d \in DOMAIN heap :
          /\ IdsDue(f, d) => \E g \in Open' : IdsDue(g, d)
          /\ NamesDue(f, d) => \E g \in Open' : NamesDue(g, d)
          /\ \A j \in DOMAIN Kids(d) :
                /\ IdDue(f, d, j) => \E g \in Open' : IdDue(g, d, j)
                /\ NameDue(f, d, j) => \E g \in Open' : NameDue(g, d, j)
                /\ ChildDue(f, d, j) /\ Kids(d)[j].desc # Nil =>
                      \E g \in Open' : ChildDue(g, d, j) \/ MarkDue(g, Kids(d)[j].desc)
    /\ \A c : MarkDue(f, c) => normalized[c] \/ \E g \in Open' : MarkDue(g, c)

LEMMA Basics ==
    ASSUME IInv
    PROVE  /\ GoodCalls /\ DOMAIN heap = 1 .. Len(heap)
           /\ \A d \in DOMAIN heap : /\ Kids(d) \in Seq(Child)
                                     /\ \A j \in DOMAIN Kids(d) : Kids(d)[j] \in Child /\ Kids(d)[j].desc \in 0 .. Len(heap)
<1>1. heap \in Seq(Node) /\ Closed(heap)
  BY DEF IInv, TypeOK
<1>2. GoodCalls
  BY CallsAreGood DEF IInv, TypeOK, TypedCalls
<1>3. ASSUME NEW d \in DOMAIN heap PROVE Kids(d) \in Seq(Child)
  <2>1. heap[d] \in Node
    BY <1>1
  <2> QED  BY <2>1 DEF Node, Kids
<1>4. \A d \in DOMAIN heap : \A j \in DOMAIN Kids(d) : Kids(d)[j].desc \in 0 .. Len(heap)
  BY <1>1 DEF Closed, Kids
<1> QED  BY <1>1, <1>2, <1>3, <1>4

LEMMA CallsKeepType ==
    ASSUME heap' = heap, calls' \in [Procs -> Seq(GoodFrame)]
    PROVE  TypedCalls'
<1>1. GoodFrame' = GoodFrame
  BY DEF GoodFrame, FrameType, Kids
<1>2. GoodCalls'
  BY <1>1 DEF GoodCalls
<1> QED  BY <1>2, CallsAreGood, PTL

LEMMA ControlStep ==
    ASSUME IInv, UNCHANGED <<heap, normalized, ids, names>>, crashed' \in BOOLEAN,
           calls' \in [Procs -> Seq(GoodFrame)],
           \A f \in Open : f \in Open' \/ HandedOn(f)
    PROVE  IInv'
<1>1. DOMAIN heap' = DOMAIN heap /\ \A d : Kids(d)' = Kids(d)
  BY DEF Kids
<1>2. TypeOK'
  BY CallsKeepType DEF IInv, TypeOK, TypedCalls, Kids
<1>3. KnownKeys'
  BY <1>1 DEF IInv, KnownKeys
<1>4. MapsMade'
  BY <1>1 DEF IInv, MapsMade, HandedOn
<1>5. IdsFilled'
  BY <1>1 DEF IInv, IdsFilled, HandedOn, IdKeys
<1>6. NamesFilled'
  BY <1>1 DEF IInv, NamesFilled, HandedOn, NameKeys
<1>7. ChildrenMarked'
  BY <1>1 DEF IInv, ChildrenMarked, HandedOn
<1> QED  BY <1>2, <1>3, <1>4, <1>5, <1>6, <1>7 DEF IInv
\* Where a goroutine stands in Normalize.
LEMMA Standing ==
    ASSUME IInv, NEW p \in Procs, NEW at, Running(p, at)
    PROVE  /\ calls[p] # <<>> /\ calls \in [Procs -> Seq(GoodFrame)]
           /\ Top(p) \in GoodFrame /\ Top(p) \in Open
           /\ Top(p).at = at /\ Top(p).d \in DOMAIN heap /\ Top(p).i \in Nat \ {0}
           /\ at \in {"name", "child"} => Top(p).i \in DOMAIN Kids(Top(p).d)
<1>1. calls[p] # <<>> /\ Top(p).at = at
  BY DEF Running
<1>2. calls \in [Procs -> Seq(GoodFrame)]
  BY Basics DEF GoodCalls
<1>3. Top(p) \in GoodFrame /\ Top(p) \in Open
  <2> DEFINE T == GoodFrame
  <2>1. calls \in [Procs -> Seq(T)]
    BY <1>2
  <2> HIDE DEF T
  <2>2. Top(p) \in T /\ Top(p) \in Open
    BY <1>1, <2>1, TopIs
  <2> QED  BY <2>2 DEF T
<1>4. Top(p).d \in DOMAIN heap /\ Top(p).i \in Nat \ {0}
  BY <1>3 DEF GoodFrame, FrameType
<1>5. at \in {"name", "child"} => Top(p).i \in DOMAIN Kids(Top(p).d)
  <2>1. Kids(Top(p).d) \in Seq(Child)
    BY <1>4, Basics
  <2>2. at \in {"name", "child"} => Top(p).i <= Len(Kids(Top(p).d))
    BY <1>1, <1>3 DEF GoodFrame
  <2> QED  BY <1>4, <2>1, <2>2
<1> QED  BY <1>1, <1>2, <1>3, <1>4, <1>5

LEMMA Went ==
    ASSUME IInv, NEW p \in Procs, NEW from, Running(p, from), NEW at \in At, NEW i \in Nat \ {0},
           Goto(p, at, i), at \in {"name", "child"} => i <= Len(Kids(Top(p).d))
    PROVE  /\ calls' \in [Procs -> Seq(GoodFrame)]
           /\ \A f \in Open : f = Top(p) \/ f \in Open'
           /\ [d |-> Top(p).d, at |-> at, i |-> i] \in Open'
<1> DEFINE T == GoodFrame
<1>1. calls[p] # <<>> /\ calls \in [Procs -> Seq(T)] /\ Top(p).d \in DOMAIN heap
  BY Standing
<1>2. [d |-> Top(p).d, at |-> at, i |-> i] \in T
  BY <1>1 DEF GoodFrame, FrameType
<1> HIDE DEF T
<1>3. /\ calls' \in [Procs -> Seq(T)]
      /\ \A f \in Open : f = Top(p) \/ f \in Open'
      /\ [d |-> Top(p).d, at |-> at, i |-> i] \in Open'
  BY <1>1, <1>2, GotoStep
<1> QED  BY <1>3 DEF T

LEMMA Returned ==
    ASSUME IInv, NEW p \in Procs, NEW from, Running(p, from), Return(p)
    PROVE  /\ calls' \in [Procs -> Seq(GoodFrame)]
           /\ \A f \in Open : f = Top(p) \/ f \in Open'
<1> DEFINE T == GoodFrame
<1>1. calls[p] # <<>> /\ calls \in [Procs -> Seq(T)]
  BY Standing
<1> HIDE DEF T
<1>2. /\ calls' \in [Procs -> Seq(T)]
      /\ \A f \in Open : f = Top(p) \/ f \in Open'
  BY <1>1, ReturnStep
<1> QED  BY <1>2 DEF T

LEMMA BooleanCrashed == IInv => crashed \in BOOLEAN
BY DEF IInv, TypeOK

LEMMA CallStep == ASSUME IInv, NEW p \in Procs, Call(p) PROVE IInv'
<1>1. PICK d \in DOMAIN heap : calls' = [calls EXCEPT ![p] = <<Frame(d)>>]
  BY DEF Call
<1>2. Frame(d) \in GoodFrame
  BY DEF Frame, GoodFrame, FrameType, At
<1>3. calls \in [Procs -> Seq(GoodFrame)] /\ calls[p] = <<>>
  BY Basics DEF GoodCalls, Call
<1> HIDE DEF GoodFrame
<1>4. calls' \in [Procs -> Seq(GoodFrame)]
  BY <1>1, <1>2, <1>3
<1>5. \A f \in Open : f \in Open'
  <2>1. \A q \in Procs : calls'[q] = calls[q] \/ calls[q] = <<>>
    BY <1>1, <1>3
  <2> QED  BY <2>1 DEF Open
<1> QED  BY <1>4, <1>5, ControlStep, BooleanCrashed DEF Call

LEMMA AlreadyNormalizedStep == ASSUME IInv, NEW p \in Procs, AlreadyNormalized(p) PROVE IInv'
<1>1. Running(p, "check") /\ normalized[Top(p).d] /\ Return(p)
  BY DEF AlreadyNormalized
<1>2. calls' \in [Procs -> Seq(GoodFrame)] /\ \A f \in Open : f = Top(p) \/ f \in Open'
  BY <1>1, Returned
<1>3. Top(p).at = "check"
  BY <1>1, Standing
<1>4. HandedOn(Top(p))
  BY <1>1, <1>3 DEF HandedOn, IdsDue, NamesDue, IdDue, NameDue, ChildDue, MarkDue
<1> QED  BY <1>2, <1>4, ControlStep, BooleanCrashed DEF AlreadyNormalized

LEMMA NotNormalizedStep == ASSUME IInv, NEW p \in Procs, NotNormalized(p) PROVE IInv'
<1> DEFINE g == [d |-> Top(p).d, at |-> "mark", i |-> 1]
<1>1. Running(p, "check") /\ Goto(p, "mark", 1) /\ "mark" \in At
  BY DEF NotNormalized, At
<1>2. calls' \in [Procs -> Seq(GoodFrame)] /\ (\A f \in Open : f = Top(p) \/ f \in Open') /\ g \in Open'
  BY <1>1, Went
<1>3. Top(p).at = "check"
  BY <1>1, Standing
<1>4. HandedOn(Top(p))
  BY <1>2, <1>3 DEF HandedOn, IdsDue, NamesDue, IdDue, NameDue, ChildDue, MarkDue
<1> QED  BY <1>2, <1>4, ControlStep, BooleanCrashed DEF NotNormalized

LEMMA NoChildStep == ASSUME IInv, NEW p \in Procs, NoChild(p) PROVE IInv'
<1> DEFINE g == [d |-> Top(p).d, at |-> "id", i |-> Top(p).i + 1]
<1>1. /\ Running(p, "child") /\ Kids(Top(p).d)[Top(p).i].desc = Nil
      /\ Goto(p, "id", Top(p).i + 1) /\ "id" \in At
  BY DEF NoChild, At
<1>2. Top(p).at = "child" /\ Top(p).i \in Nat \ {0} /\ Top(p).i + 1 \in Nat \ {0} /\ Top(p).d \in DOMAIN heap
  BY <1>1, Standing
<1>3. calls' \in [Procs -> Seq(GoodFrame)] /\ (\A f \in Open : f = Top(p) \/ f \in Open') /\ g \in Open'
  BY <1>1, <1>2, Went
<1>4. \A d \in DOMAIN heap : DOMAIN Kids(d) \subseteq Nat
  BY Basics
<1>5. HandedOn(Top(p))
  <2>1. \A c : ~MarkDue(Top(p), c)
    BY <1>2 DEF MarkDue
  <2>2. \A e \in DOMAIN heap : ~IdsDue(Top(p), e) /\ ~NamesDue(Top(p), e)
    BY <1>2 DEF IdsDue, NamesDue
  <2>3. ASSUME NEW e \in DOMAIN heap, NEW j \in DOMAIN Kids(e)
        PROVE  /\ IdDue(Top(p), e, j) => IdDue(g, e, j)
               /\ NameDue(Top(p), e, j) => NameDue(g, e, j)
               /\ ChildDue(Top(p), e, j) => \/ ChildDue(g, e, j)
                                            \/ e = Top(p).d /\ j = Top(p).i
    BY <1>2, <1>4 DEF IdDue, NameDue, ChildDue
  <2> HIDE DEF g
  <2> QED  BY <1>1, <1>3, <2>1, <2>2, <2>3 DEF HandedOn
<1> QED  BY <1>3, <1>5, ControlStep, BooleanCrashed DEF NoChild

LEMMA AllDoneStep == ASSUME IInv, NEW p \in Procs, AllDone(p) PROVE IInv'
<1>1. Running(p, "id") /\ Top(p).i > Len(Kids(Top(p).d)) /\ Return(p)
  BY DEF AllDone
<1>2. Top(p).at = "id" /\ Top(p).i \in Nat \ {0} /\ Top(p).d \in DOMAIN heap
  BY <1>1, Standing
<1>3. calls' \in [Procs -> Seq(GoodFrame)] /\ \A f \in Open : f = Top(p) \/ f \in Open'
  BY <1>1, Returned
<1>4. Kids(Top(p).d) \in Seq(Child)
  BY <1>2, Basics
<1>5. \A j \in DOMAIN Kids(Top(p).d) : ~(Top(p).i <= j)
  BY <1>1, <1>2, <1>4
<1>6. HandedOn(Top(p))
  BY <1>2, <1>5 DEF HandedOn, IdsDue, NamesDue, IdDue, NameDue, ChildDue, MarkDue
<1> QED  BY <1>3, <1>6, ControlStep, BooleanCrashed DEF AllDone

LEMMA TwoMore ==
    ASSUME NEW T, NEW a \in Seq(T), NEW b \in Seq(T), Len(b) = 2
    PROVE  /\ a \o b \in Seq(T) /\ Len(a \o b) = Len(a) + 2
           /\ \A k \in 1 .. Len(a) : (a \o b)[k] = a[k]
           /\ (a \o b)[Len(a) + 1] = b[1] /\ (a \o b)[Len(a) + 2] = b[2]
<1> DEFINE c == a \o b
<1>1. /\ c \in Seq(T) /\ Len(c) = Len(a) + Len(b)
      /\ \A k \in 1 .. Len(a) + Len(b) : c[k] = IF k <= Len(a) THEN a[k] ELSE b[k - Len(a)]
  BY ConcatProperties
<1>2. Len(a) \in Nat
  OBVIOUS
<1> HIDE DEF c
<1>3. c[Len(a) + 1] = b[1] /\ c[Len(a) + 2] = b[2]
  BY <1>1, <1>2
<1> QED  BY <1>1, <1>2, <1>3 DEF c

LEMMA DescendStep == ASSUME IInv, NEW p \in Procs, Descend(p) PROVE IInv'
<1> DEFINE t == Top(p)
           d == Kids(t.d)[t.i].desc
           s == Front(calls[p]) \o <<Advanced(t), Frame(d)>>
           T == GoodFrame
<1>1. Running(p, "child") /\ d # Nil /\ calls' = [calls EXCEPT ![p] = s]
  BY DEF Descend
<1>2. /\ calls[p] # <<>> /\ calls \in [Procs -> Seq(T)] /\ t \in T /\ t.at = "child"
      /\ t.d \in DOMAIN heap /\ t.i \in Nat \ {0} /\ t.i \in DOMAIN Kids(t.d)
  BY <1>1, Standing
<1>3. d \in DOMAIN heap
  BY <1>1, <1>2, Basics DEF Nil
<1>4. Advanced(t) = [d |-> t.d, at |-> "id", i |-> t.i + 1]
  BY DEF Advanced
<1>5. Advanced(t) \in T /\ Frame(d) \in T
  BY <1>2, <1>3, <1>4 DEF Frame, GoodFrame, FrameType, At
<1> HIDE DEF T, d
<1>6. /\ s \in Seq(T) /\ \A k \in 1 .. Len(calls[p]) - 1 : k \in DOMAIN s /\ s[k] = calls[p][k]
      /\ Len(calls[p]) \in DOMAIN s /\ s[Len(calls[p])] = Advanced(t)
      /\ Len(calls[p]) + 1 \in DOMAIN s /\ s[Len(calls[p]) + 1] = Frame(d)
  <2> DEFINE a == Front(calls[p])
             b == <<Advanced(t), Frame(d)>>
  <2>1. a \in Seq(T) /\ Len(a) = Len(calls[p]) - 1 /\ \A k \in 1 .. Len(calls[p]) - 1 : a[k] = calls[p][k]
    BY <1>2, TopIs
  <2>2. b \in Seq(T) /\ Len(b) = 2 /\ b[1] = Advanced(t) /\ b[2] = Frame(d)
    BY <1>5
  <2>3. s = a \o b
    OBVIOUS
  <2> HIDE DEF a, b, s
  <2>4. s \in Seq(T) /\ Len(s) = Len(a) + 2
        /\ (\A k \in 1 .. Len(a) : s[k] = a[k]) /\ s[Len(a) + 1] = b[1] /\ s[Len(a) + 2] = b[2]
    BY <2>1, <2>2, <2>3, TwoMore
  <2>5. Len(calls[p]) \in Nat \ {0} /\ Len(calls[p]) = Len(a) + 1 /\ Len(calls[p]) + 1 = Len(a) + 2
    BY <1>2, <2>1
  <2>6. DOMAIN s = 1 .. Len(calls[p]) + 1
    BY <2>4, <2>5
  <2>7. s[Len(calls[p])] = b[1] /\ s[Len(calls[p]) + 1] = b[2]
    BY <2>4, <2>5
  <2>8. \A k \in 1 .. Len(calls[p]) - 1 : k \in DOMAIN s /\ s[k] = a[k]
    BY <2>4, <2>5, <2>6
  <2>9. \A k \in 1 .. Len(calls[p]) - 1 : k \in DOMAIN s /\ s[k] = calls[p][k]
    BY <2>1, <2>8
  <2>10. Len(calls[p]) \in DOMAIN s /\ Len(calls[p]) + 1 \in DOMAIN s
    BY <2>5, <2>6
  <2> QED  BY <2>2, <2>4, <2>7, <2>9, <2>10
<1> HIDE DEF s
<1>7. /\ calls' \in [Procs -> Seq(T)] /\ \A f \in Open : f = t \/ f \in Open'
      /\ Advanced(t) \in Open' /\ Frame(d) \in Open'
  <2>1. /\ calls' \in [Procs -> Seq(T)] /\ \A f \in Open : f = t \/ f \in Open'
        /\ \A k \in DOMAIN s : s[k] \in Open'
    BY <1>1, <1>2, <1>6, Replaced
  <2> QED  BY <1>6, <2>1
<1>8. \A e \in DOMAIN heap : DOMAIN Kids(e) \subseteq Nat
  BY Basics
<1>9. HandedOn(t)
  <2>1. \A c : ~MarkDue(t, c)
    BY <1>2 DEF MarkDue
  <2>2. \A e \in DOMAIN heap : ~IdsDue(t, e) /\ ~NamesDue(t, e)
    BY <1>2 DEF IdsDue, NamesDue
  <2>3. ASSUME NEW e \in DOMAIN heap, NEW j \in DOMAIN Kids(e)
        PROVE  /\ IdDue(t, e, j) => IdDue(Advanced(t), e, j)
               /\ NameDue(t, e, j) => NameDue(Advanced(t), e, j)
               /\ ChildDue(t, e, j) => \/ ChildDue(Advanced(t), e, j)
                                       \/ e = t.d /\ j = t.i
    BY <1>2, <1>4, <1>8 DEF IdDue, NameDue, ChildDue
  <2>4. MarkDue(Frame(d), Kids(t.d)[t.i].desc)
    BY DEF MarkDue, Frame, d
  <2> HIDE DEF t
  <2> QED  BY <1>7, <2>1, <2>2, <2>3, <2>4 DEF HandedOn
<1> QED  BY <1>7, <1>9, ControlStep, BooleanCrashed DEF Descend, T

LEMMA CrashStep == ASSUME IInv, Crash PROVE IInv'
<1>1. \A f \in Open : f \in Open'
  BY DEF Crash, Open
<1>2. calls' \in [Procs -> Seq(GoodFrame)]
  BY Basics DEF GoodCalls, Crash
<1> QED  BY <1>1, <1>2, ControlStep DEF Crash
-----------------------------------------------------------------------------
(***************************************************************************)
(* Steps that write.                                                       *)
(***************************************************************************)
LEMMA MarkStep == ASSUME IInv, NEW p \in Procs, Mark(p) PROVE IInv'
<1> DEFINE t == Top(p)
           g == [d |-> t.d, at |-> "ids", i |-> 1]
<1>1. /\ Running(p, "mark") /\ normalized' = [normalized EXCEPT ![t.d] = TRUE]
      /\ Goto(p, "ids", 1) /\ UNCHANGED <<heap, ids, names, crashed>> /\ "ids" \in At
  BY DEF Mark, At
<1>2. calls' \in [Procs -> Seq(GoodFrame)] /\ (\A f \in Open : f = t \/ f \in Open') /\ g \in Open'
  BY <1>1, Went
<1>3. t.at = "mark" /\ t.d \in DOMAIN heap
  BY <1>1, Standing
<1>4. normalized \in [DOMAIN heap -> BOOLEAN]
  BY DEF IInv, TypeOK
<1>5. DOMAIN heap' = DOMAIN heap /\ \A d : Kids(d)' = Kids(d)
  BY <1>1 DEF Kids
<1>6. normalized'[t.d] /\ \A d \in DOMAIN heap : d # t.d => normalized'[d] = normalized[d]
  BY <1>1, <1>3, <1>4
<1> HIDE DEF t
<1>7. TypeOK'
  BY <1>1, <1>2, <1>4, CallsKeepType DEF IInv, TypeOK, TypedCalls, Kids
<1>8. KnownKeys'
  BY <1>1, <1>5 DEF IInv, KnownKeys
<1>9. MapsMade'
  BY <1>1, <1>2, <1>3, <1>5, <1>6 DEF IInv, MapsMade, IdsDue, NamesDue
<1>10. IdsFilled'
  BY <1>1, <1>2, <1>3, <1>5, <1>6, SameKeys, ZenonT(60) DEF IInv, IdsFilled, IdDue
<1>11. NamesFilled'
  BY <1>1, <1>2, <1>3, <1>5, <1>6, SameKeys, ZenonT(60) DEF IInv, NamesFilled, NameDue
<1>12. ChildrenMarked'
  <2>1. \A c \in DOMAIN heap : normalized[c] => normalized'[c]
    BY <1>6
  <2>2. \A d \in DOMAIN heap : \A j \in DOMAIN Kids(d) : Kids(d)[j].desc # Nil => Kids(d)[j].desc \in DOMAIN heap
    BY Basics DEF Nil
  <2>3. \A c : MarkDue(t, c) => normalized'[c]
    BY <1>6 DEF MarkDue
  <2>4. \A d, j : ~ChildDue(t, d, j)
    BY <1>3 DEF ChildDue
  <2>5. \A j : ChildDue(g, t.d, j)
    BY DEF ChildDue
  <2> HIDE DEF g
  <2> QED  BY <1>1, <1>2, <1>5, <1>6, <2>1, <2>2, <2>3, <2>4, <2>5 DEF IInv, ChildrenMarked
<1> QED  BY <1>7, <1>8, <1>9, <1>10, <1>11, <1>12 DEF IInv

LEMMA EmptyMap == <<>> # NoMap /\ DOMAIN <<>> = {} /\ \A S : MapOn(<<>>, S)
<1>1. <<>> \in [{} -> Nat]
  OBVIOUS
<1>2. <<>> # NoMap
  BY <1>1, TrimAssumption
<1> QED  BY <1>1, <1>2 DEF MapOn

LEMMA MakeIdsStep == ASSUME IInv, NEW p \in Procs, MakeIds(p) PROVE IInv'
<1> DEFINE t == Top(p)
           g == [d |-> t.d, at |-> "names", i |-> 1]
<1>1. /\ Running(p, "ids") /\ ids' = [ids EXCEPT ![t.d] = <<>>]
      /\ Goto(p, "names", 1) /\ UNCHANGED <<heap, normalized, names, crashed>> /\ "names" \in At
  BY DEF MakeIds, At
<1>2. calls' \in [Procs -> Seq(GoodFrame)] /\ (\A f \in Open : f = t \/ f \in Open') /\ g \in Open'
  BY <1>1, Went
<1>3. t.at = "ids" /\ t.d \in DOMAIN heap
  BY <1>1, Standing
<1>4. DOMAIN ids = DOMAIN heap
  BY DEF IInv, TypeOK
<1>5. DOMAIN heap' = DOMAIN heap /\ \A d : Kids(d)' = Kids(d)
  BY <1>1 DEF Kids
<1>6. ids'[t.d] = <<>> /\ DOMAIN ids' = DOMAIN heap /\ \A d \in DOMAIN heap : d # t.d => ids'[d] = ids[d]
  BY <1>1, <1>3, <1>4
<1> HIDE DEF t
<1>7. TypeOK'
  BY <1>1, <1>2, <1>6, CallsKeepType, EmptyMap DEF IInv, TypeOK, TypedCalls, Kids
<1>8. KnownKeys'
  BY <1>1, <1>5, <1>6, EmptyMap DEF IInv, KnownKeys
<1>9. MapsMade'
  BY <1>1, <1>2, <1>3, <1>5, <1>6, EmptyMap DEF IInv, MapsMade, IdsDue, NamesDue
<1>10. IdsFilled'
  <2>1. \A j : IdDue(g, t.d, j)
    BY DEF IdDue
  <2>2. \A d, j : IdDue(t, d, j) => IdDue(g, d, j)
    BY <1>3 DEF IdDue
  <2> HIDE DEF g
  <2> QED  BY <1>1, <1>2, <1>5, <1>6, <2>1, <2>2, SameKeys DEF IInv, IdsFilled
<1>11. NamesFilled'
  <2>1. \A d, j : NameDue(t, d, j) => NameDue(g, d, j)
    BY <1>3 DEF NameDue
  <2> HIDE DEF g
  <2> QED  BY <1>1, <1>2, <1>5, <2>1, SameKeys DEF IInv, NamesFilled
<1>12. ChildrenMarked'
  <2>1. \A d, j : (ChildDue(t, d, j) => ChildDue(g, d, j)) /\ ~MarkDue(t, j)
    BY <1>3 DEF ChildDue, MarkDue
  <2> HIDE DEF g
  <2> QED  BY <1>1, <1>2, <1>5, <2>1 DEF IInv, ChildrenMarked
<1> QED  BY <1>7, <1>8, <1>9, <1>10, <1>11, <1>12 DEF IInv

LEMMA MakeNamesStep == ASSUME IInv, NEW p \in Procs, MakeNames(p) PROVE IInv'
<1> DEFINE t == Top(p)
           g == [d |-> t.d, at |-> "id", i |-> 1]
<1>1. /\ Running(p, "names") /\ names' = [names EXCEPT ![t.d] = <<>>]
      /\ Goto(p, "id", 1) /\ UNCHANGED <<heap, normalized, ids, crashed>> /\ "id" \in At
  BY DEF MakeNames, At
<1>2. calls' \in [Procs -> Seq(GoodFrame)] /\ (\A f \in Open : f = t \/ f \in Open') /\ g \in Open'
  BY <1>1, Went
<1>3. t.at = "names" /\ t.d \in DOMAIN heap
  BY <1>1, Standing
<1>4. DOMAIN names = DOMAIN heap /\ \A d \in DOMAIN heap : \A j \in DOMAIN Kids(d) : j \in Nat \ {0}
  BY Basics DEF IInv, TypeOK
<1>5. DOMAIN heap' = DOMAIN heap /\ \A d : Kids(d)' = Kids(d)
  BY <1>1 DEF Kids
<1>6. names'[t.d] = <<>> /\ DOMAIN names' = DOMAIN heap /\ \A d \in DOMAIN heap : d # t.d => names'[d] = names[d]
  BY <1>1, <1>3, <1>4
<1>7. \A d : \A j \in Nat \ {0} : /\ IdDue(t, d, j) => IdDue(g, d, j)
                                  /\ NameDue(t, d, j) => NameDue(g, d, j)
                                  /\ ChildDue(t, d, j) => ChildDue(g, d, j)
  BY <1>3 DEF IdDue, NameDue, ChildDue
<1>8. \A j \in Nat \ {0} : NameDue(g, t.d, j)
  BY DEF NameDue
<1> HIDE DEF t, g
<1>9. TypeOK'
  BY <1>1, <1>2, <1>6, CallsKeepType, EmptyMap DEF IInv, TypeOK, TypedCalls, Kids
<1>10. KnownKeys'
  BY <1>1, <1>5, <1>6, EmptyMap DEF IInv, KnownKeys
<1>11. MapsMade'
  BY <1>1, <1>2, <1>3, <1>5, <1>6, EmptyMap DEF IInv, MapsMade, IdsDue, NamesDue
<1>12. IdsFilled'
  BY <1>1, <1>2, <1>4, <1>5, <1>7, SameKeys DEF IInv, IdsFilled
<1>13. NamesFilled'
  <2> SUFFICES ASSUME NEW d \in DOMAIN heap, normalized[d], NEW j \in DOMAIN Kids(d), LastOf(NameKeys(d), j)
               PROVE  Holds(names'[d], Kids(d)[j].name, j) \/ \E f \in Open' : NameDue(f, d, j)
    BY <1>1, <1>5, SameKeys DEF NamesFilled
  <2>1. Holds(names[d], Kids(d)[j].name, j) \/ \E f \in Open : NameDue(f, d, j)
    BY DEF IInv, NamesFilled
  <2>2. j \in Nat \ {0}
    BY <1>4
  <2>3. CASE d = t.d
    BY <1>2, <1>8, <2>2, <2>3
  <2>4. CASE d # t.d
    BY <1>2, <1>6, <1>7, <2>1, <2>2, <2>4
  <2> QED  BY <2>3, <2>4
<1>14. ChildrenMarked'
  <2>1. \A c : ~MarkDue(t, c)
    BY <1>3 DEF MarkDue
  <2> QED  BY <1>1, <1>2, <1>4, <1>5, <1>7, <2>1 DEF IInv, ChildrenMarked
<1> QED  BY <1>9, <1>10, <1>11, <1>12, <1>13, <1>14 DEF IInv
NotNil(S) == \A K \in SUBSET S : NoMap \notin [K -> Nat]

IsMap(m, S) == m # NoMap /\ MapOn(m, S)
HasPut(r, m, k, i) == /\ DOMAIN r = DOMAIN m \cup {k} /\ r[k] = i
                      /\ \A x \in DOMAIN m : x # k => r[x] = m[x]

LEMMA PutIs ==
    ASSUME NEW S, NotNil(S), NEW m, IsMap(m, S), NEW k \in S, NEW i \in Nat
    PROVE  IsMap(Put(m, k, i), S) /\ HasPut(Put(m, k, i), m, k, i)
<1> DEFINE r == Put(m, k, i)
<1>1. DOMAIN m \subseteq S /\ m \in [DOMAIN m -> Nat]
  BY DEF MapOn, IsMap
<1>2. r = [x \in DOMAIN m \cup {k} |-> IF x = k THEN i ELSE m[x]]
  BY DEF Put
<1> HIDE DEF r
<1>3. \A x \in DOMAIN m : m[x] \in Nat
  BY <1>1
<1>4. r \in [DOMAIN m \cup {k} -> Nat]
  BY <1>2, <1>3
<1>5. r # NoMap
  BY <1>1, <1>4 DEF NotNil
<1> QED  BY <1>1, <1>2, <1>4, <1>5 DEF MapOn, IsMap, HasPut, r

LEMMA PutIdStep == ASSUME IInv, NEW p \in Procs, PutId(p) PROVE IInv'
<1> DEFINE t == Top(p)
           g == [d |-> t.d, at |-> "name", i |-> t.i]
           key == Kids(t.d)[t.i].id
<1>1. /\ Running(p, "id") /\ ids[t.d] # NoMap
      /\ ids' = [ids EXCEPT ![t.d] = Put(ids[t.d], key, t.i)]
      /\ Goto(p, "name", t.i) /\ UNCHANGED <<heap, normalized, names, crashed>> /\ "name" \in At
  BY DEF PutId, At
<1>2. t.at = "id" /\ t.d \in DOMAIN heap /\ t.i \in Nat \ {0} /\ Kids(t.d) \in Seq(Child)
  BY <1>1, Standing, Basics
<1>3. t.i \in DOMAIN Kids(t.d) /\ t.i <= Len(Kids(t.d))
  BY <1>1, <1>2 DEF PutId
<1>4. calls' \in [Procs -> Seq(GoodFrame)] /\ (\A f \in Open : f = t \/ f \in Open') /\ g \in Open'
  BY <1>1, <1>2, <1>3, Went
<1>5. DOMAIN ids = DOMAIN heap /\ MapOn(ids[t.d], Ids) /\ \A d \in DOMAIN heap : DOMAIN Kids(d) \subseteq Nat \ {0}
  BY <1>2, Basics DEF IInv, TypeOK
<1>6. DOMAIN heap' = DOMAIN heap /\ \A d : Kids(d)' = Kids(d)
  BY <1>1 DEF Kids
<1>7. /\ DOMAIN ids' = DOMAIN heap /\ ids'[t.d] = Put(ids[t.d], key, t.i)
      /\ \A d \in DOMAIN heap : d # t.d => ids'[d] = ids[d]
  BY <1>1, <1>2, <1>5
<1>8. key \in Ids
  <2>1. Kids(t.d)[t.i] \in Child
    BY <1>2, <1>3
  <2> QED  BY <2>1 DEF Child
<1>9. \A d : \A j \in Nat \ {0} : /\ IdDue(t, d, j) => IdDue(g, d, j) \/ (d = t.d /\ j = t.i)
                                  /\ NameDue(t, d, j) => NameDue(g, d, j)
                                  /\ ChildDue(t, d, j) => ChildDue(g, d, j)
  BY <1>2 DEF IdDue, NameDue, ChildDue
<1>10. \A j \in Nat \ {0} : t.i < j => IdDue(g, t.d, j)
  BY <1>2 DEF IdDue
<1> HIDE DEF t, g, key
<1> DEFINE m == Put(ids[t.d], key, t.i)
<1>11. /\ m # NoMap /\ MapOn(m, Ids) /\ DOMAIN m = DOMAIN ids[t.d] \cup {key} /\ m[key] = t.i
       /\ \A x \in DOMAIN ids[t.d] : x # key => m[x] = ids[t.d][x]
  <2> DEFINE old == ids[t.d]
  <2>1. NotNil(Ids)
    BY TrimAssumption DEF NotNil
  <2>2. IsMap(old, Ids) /\ key \in Ids /\ t.i \in Nat
    BY <1>1, <1>2, <1>5, <1>8 DEF IsMap
  <2>3. m = Put(old, key, t.i)
    OBVIOUS
  <2> HIDE DEF old, m
  <2>4. IsMap(Put(old, key, t.i), Ids) /\ HasPut(Put(old, key, t.i), old, key, t.i)
    BY <2>1, <2>2, PutIs
  <2>5. IsMap(m, Ids) /\ HasPut(m, old, key, t.i)
    BY <2>3, <2>4
  <2> QED  BY <2>5 DEF IsMap, HasPut, old
<1> HIDE DEF m
<1>12. TypeOK'
  BY <1>1, <1>4, <1>7, <1>11, CallsKeepType DEF IInv, TypeOK, TypedCalls, Kids, m
<1>13. KnownKeys'
  <2>1. DOMAIN m \subseteq {Kids(t.d)[i].id : i \in DOMAIN Kids(t.d)}
    BY <1>1, <1>2, <1>3, <1>11 DEF IInv, KnownKeys, key
  <2> QED  BY <1>1, <1>2, <1>6, <1>7, <2>1 DEF IInv, KnownKeys, m
<1>14. MapsMade'
  <2>1. \A d : ~IdsDue(t, d) /\ ~NamesDue(t, d)
    BY <1>2 DEF IdsDue, NamesDue
  <2> QED  BY <1>1, <1>4, <1>6, <1>7, <1>11, <2>1 DEF IInv, MapsMade, m
<1>15. IdsFilled'
  <2> SUFFICES ASSUME NEW d \in DOMAIN heap, normalized[d], NEW j \in DOMAIN Kids(d), LastOf(IdKeys(d), j)
               PROVE  Holds(ids'[d], Kids(d)[j].id, j) \/ \E f \in Open' : IdDue(f, d, j)
    BY <1>1, <1>6, SameKeys DEF IdsFilled
  <2>1. Holds(ids[d], Kids(d)[j].id, j) \/ \E f \in Open : IdDue(f, d, j)
    BY DEF IInv, IdsFilled
  <2>2. CASE d # t.d
    BY <1>4, <1>5, <1>7, <1>9, <2>1, <2>2
  <2>3. CASE d = t.d /\ j = t.i
    BY <1>7, <1>11, <2>3 DEF Holds, m, key
  <2>4. CASE d = t.d /\ j # t.i
    <3>1. CASE Kids(d)[j].id = key
      <4>1. t.i <= j
        BY <1>3, <2>4, <3>1 DEF LastOf, IdKeys, key
      <4> QED  BY <1>2, <1>4, <1>5, <1>10, <2>4, <4>1
    <3>2. CASE Kids(d)[j].id # key
      <4>1. Holds(ids[d], Kids(d)[j].id, j) => Holds(ids'[d], Kids(d)[j].id, j)
        BY <1>7, <1>11, <2>4, <3>2 DEF Holds, m
      <4> QED  BY <1>4, <1>5, <1>9, <2>1, <2>4, <4>1
    <3> QED  BY <3>1, <3>2
  <2> QED  BY <2>2, <2>3, <2>4
<1>16. NamesFilled'
  <2> SUFFICES ASSUME NEW d \in DOMAIN heap, normalized[d], NEW j \in DOMAIN Kids(d), LastOf(NameKeys(d), j)
               PROVE  Holds(names[d], Kids(d)[j].name, j) \/ \E f \in Open' : NameDue(f, d, j)
    BY <1>1, <1>6, SameKeys DEF NamesFilled
  <2>1. Holds(names[d], Kids(d)[j].name, j) \/ \E f \in Open : NameDue(f, d, j)
    BY DEF IInv, NamesFilled
  <2> QED  BY <1>4, <1>5, <1>9, <2>1
<1>17. ChildrenMarked'
  <2>1. \A c : ~MarkDue(t, c)
    BY <1>2 DEF MarkDue
  <2> QED  BY <1>1, <1>4, <1>5, <1>6, <1>9, <2>1 DEF IInv, ChildrenMarked
<1> QED  BY <1>12, <1>13, <1>14, <1>15, <1>16, <1>17 DEF IInv

LEMMA PutNameStep == ASSUME IInv, NEW p \in Procs, PutName(p) PROVE IInv'
<1> DEFINE t == Top(p)
           g == [d |-> t.d, at |-> "child", i |-> t.i]
           key == Kids(t.d)[t.i].name
<1>1. /\ Running(p, "name") /\ names[t.d] # NoMap
      /\ names' = [names EXCEPT ![t.d] = Put(names[t.d], key, t.i)]
      /\ Goto(p, "child", t.i) /\ UNCHANGED <<heap, normalized, ids, crashed>> /\ "child" \in At
  BY DEF PutName, At
<1>2. t.at = "name" /\ t.d \in DOMAIN heap /\ t.i \in Nat \ {0} /\ Kids(t.d) \in Seq(Child)
  BY <1>1, Standing, Basics
<1>3. t.i \in DOMAIN Kids(t.d) /\ t.i <= Len(Kids(t.d))
  BY <1>1, <1>2, Standing
<1>4. calls' \in [Procs -> Seq(GoodFrame)] /\ (\A f \in Open : f = t \/ f \in Open') /\ g \in Open'
  BY <1>1, <1>2, <1>3, Went
<1>5. DOMAIN names = DOMAIN heap /\ MapOn(names[t.d], Names) /\ \A d \in DOMAIN heap : DOMAIN Kids(d) \subseteq Nat \ {0}
  BY <1>2, Basics DEF IInv, TypeOK
<1>6. DOMAIN heap' = DOMAIN heap /\ \A d : Kids(d)' = Kids(d)
  BY <1>1 DEF Kids
<1>7. /\ DOMAIN names' = DOMAIN heap /\ names'[t.d] = Put(names[t.d], key, t.i)
      /\ \A d \in DOMAIN heap : d # t.d => names'[d] = names[d]
  BY <1>1, <1>2, <1>5
<1>8. key \in Names
  <2>1. Kids(t.d)[t.i] \in Child
    BY <1>2, <1>3
  <2> QED  BY <2>1 DEF Child
<1>9. \A d : \A j \in Nat \ {0} : /\ NameDue(t, d, j) => NameDue(g, d, j) \/ (d = t.d /\ j = t.i)
                                  /\ IdDue(t, d, j) => IdDue(g, d, j)
                                  /\ ChildDue(t, d, j) => ChildDue(g, d, j)
  BY <1>2 DEF IdDue, NameDue, ChildDue
<1>10. \A j \in Nat \ {0} : t.i < j => NameDue(g, t.d, j)
  BY <1>2 DEF NameDue
<1> HIDE DEF t, g, key
<1> DEFINE m == Put(names[t.d], key, t.i)
<1>11. /\ m # NoMap /\ MapOn(m, Names) /\ DOMAIN m = DOMAIN names[t.d] \cup {key} /\ m[key] = t.i
       /\ \A x \in DOMAIN names[t.d] : x # key => m[x] = names[t.d][x]
  <2> DEFINE old == names[t.d]
  <2>1. NotNil(Names)
    BY TrimAssumption DEF NotNil
  <2>2. IsMap(old, Names) /\ key \in Names /\ t.i \in Nat
    BY <1>1, <1>2, <1>5, <1>8 DEF IsMap
  <2>3. m = Put(old, key, t.i)
    OBVIOUS
  <2> HIDE DEF old, m
  <2>4. IsMap(Put(old, key, t.i), Names) /\ HasPut(Put(old, key, t.i), old, key, t.i)
    BY <2>1, <2>2, PutIs
  <2>5. IsMap(m, Names) /\ HasPut(m, old, key, t.i)
    BY <2>3, <2>4
  <2> QED  BY <2>5 DEF IsMap, HasPut, old
<1> HIDE DEF m
<1>12. TypeOK'
  BY <1>1, <1>4, <1>7, <1>11, CallsKeepType DEF IInv, TypeOK, TypedCalls, Kids, m
<1>13. KnownKeys'
  <2>1. DOMAIN m \subseteq {Kids(t.d)[i].name : i \in DOMAIN Kids(t.d)}
    BY <1>1, <1>2, <1>3, <1>11 DEF IInv, KnownKeys, key
  <2> QED  BY <1>1, <1>2, <1>6, <1>7, <2>1 DEF IInv, KnownKeys, m
<1>14. MapsMade'
  <2>1. \A d : ~IdsDue(t, d) /\ ~NamesDue(t, d)
    BY <1>2 DEF IdsDue, NamesDue
  <2> QED  BY <1>1, <1>4, <1>6, <1>7, <1>11, <2>1 DEF IInv, MapsMade, m
<1>15. NamesFilled'
  <2> SUFFICES ASSUME NEW d \in DOMAIN heap, normalized[d], NEW j \in DOMAIN Kids(d), LastOf(NameKeys(d), j)
               PROVE  Holds(names'[d], Kids(d)[j].name, j) \/ \E f \in Open' : NameDue(f, d, j)
    BY <1>1, <1>6, SameKeys DEF NamesFilled
  <2>1. Holds(names[d], Kids(d)[j].name, j) \/ \E f \in Open : NameDue(f, d, j)
    BY DEF IInv, NamesFilled
  <2>2. CASE d # t.d
    BY <1>4, <1>5, <1>7, <1>9, <2>1, <2>2
  <2>3. CASE d = t.d /\ j = t.i
    BY <1>7, <1>11, <2>3 DEF Holds, m, key
  <2>4. CASE d = t.d /\ j # t.i
    <3>1. CASE Kids(d)[j].name = key
      <4>1. t.i <= j
        BY <1>3, <2>4, <3>1 DEF LastOf, NameKeys, key
      <4> QED  BY <1>2, <1>4, <1>5, <1>10, <2>4, <4>1
    <3>2. CASE Kids(d)[j].name # key
      <4>1. Holds(names[d], Kids(d)[j].name, j) => Holds(names'[d], Kids(d)[j].name, j)
        BY <1>7, <1>11, <2>4, <3>2 DEF Holds, m
      <4> QED  BY <1>4, <1>5, <1>9, <2>1, <2>4, <4>1
    <3> QED  BY <3>1, <3>2
  <2> QED  BY <2>2, <2>3, <2>4
<1>16. IdsFilled'
  <2> SUFFICES ASSUME NEW d \in DOMAIN heap, normalized[d], NEW j \in DOMAIN Kids(d), LastOf(IdKeys(d), j)
               PROVE  Holds(ids[d], Kids(d)[j].id, j) \/ \E f \in Open' : IdDue(f, d, j)
    BY <1>1, <1>6, SameKeys DEF IdsFilled
  <2>1. Holds(ids[d], Kids(d)[j].id, j) \/ \E f \in Open : IdDue(f, d, j)
    BY DEF IInv, IdsFilled
  <2> QED  BY <1>4, <1>5, <1>9, <2>1
<1>17. ChildrenMarked'
  <2>1. \A c : ~MarkDue(t, c)
    BY <1>2 DEF MarkDue
  <2> SUFFICES ASSUME NEW d \in DOMAIN heap, normalized[d], NEW j \in DOMAIN Kids(d), Kids(d)[j].desc # Nil
               PROVE  \/ normalized[Kids(d)[j].desc]
                      \/ \E f \in Open' : ChildDue(f, d, j) \/ MarkDue(f, Kids(d)[j].desc)
    BY <1>1, <1>6 DEF ChildrenMarked
  <2>2. \/ normalized[Kids(d)[j].desc]
        \/ \E f \in Open : ChildDue(f, d, j) \/ MarkDue(f, Kids(d)[j].desc)
    BY DEF IInv, ChildrenMarked
  <2> QED  BY <1>4, <1>5, <1>9, <2>1, <2>2
<1> QED  BY <1>12, <1>13, <1>14, <1>15, <1>16, <1>17 DEF IInv
LEMMA NoneOpen ==
    ASSUME NEW T, GoodCalls \/ calls = [p \in Procs |-> <<>>], Quiet
    PROVE  calls \in [Procs -> Seq(T)] /\ \A p \in Procs : DOMAIN calls[p] = {}
<1>1. \A p \in Procs : calls[p] = <<>>
  BY DEF Quiet
<1>2. <<>> \in Seq(T) /\ DOMAIN <<>> = {}
  OBVIOUS
<1>3. calls = [p \in Procs |-> calls[p]]
  BY DEF GoodCalls
<1> QED  BY <1>1, <1>2, <1>3

\* Reading JSON: no call is open, and what is read into is not marked.
LEMMA RebuildStep ==
    ASSUME ~ReuseNormalized, IInv, NEW t \in 1 .. Len(heap) + 1, Rebuild(t)
    PROVE  IInv'
<1>1. /\ heap' \in Seq(Node) /\ Closed(heap') /\ Len(heap) <= Len(heap') /\ heap \in Seq(Node)
      /\ normalized \in [DOMAIN heap -> BOOLEAN]
      /\ DOMAIN ids = DOMAIN heap /\ DOMAIN names = DOMAIN heap /\ crashed \in BOOLEAN
      /\ \A e \in DOMAIN heap : MapOn(ids[e], Ids) /\ MapOn(names[e], Names)
  BY DEF Rebuild, IInv, TypeOK
<1>2. DOMAIN heap \subseteq DOMAIN heap' /\ \A e \in DOMAIN heap \ {t} : Kids(e)' = Kids(e)
  BY <1>1 DEF Rebuild, Kids
<1>3. Quiet /\ calls' = calls /\ crashed' = crashed
  BY DEF Rebuild, MayRead, ResetMaps
<1>4. Open = {} /\ Open' = {}
  BY <1>3 DEF Quiet, Open
<1>5. t \in DOMAIN heap => ~normalized[t]
  BY DEF Rebuild, MayRead
<1>6. /\ normalized' \in [DOMAIN heap' -> BOOLEAN] /\ DOMAIN ids' = DOMAIN heap' /\ DOMAIN names' = DOMAIN heap'
      /\ \A e \in DOMAIN heap' : /\ normalized'[e] <=> e \in DOMAIN heap /\ normalized[e]
                                 /\ e \in DOMAIN heap \ {t} => ids'[e] = ids[e] /\ names'[e] = names[e]
                                 /\ e \notin DOMAIN heap \ {t} => ids'[e] = NoMap /\ names'[e] = NoMap
  BY <1>1 DEF Rebuild, ResetMaps
<1>7. \A e \in DOMAIN heap' : normalized'[e] => e \in DOMAIN heap \ {t} /\ normalized[e]
  BY <1>5, <1>6
<1>8. TypeOK'
  <2>1. \A e \in DOMAIN heap' : MapOn(ids'[e], Ids) /\ MapOn(names'[e], Names)
    BY <1>1, <1>6 DEF MapOn
  <2>2. GoodCalls
    BY Basics
  <2>3. TypedCalls'
    <3> DEFINE T == FrameType'
    <3>1. calls' \in [Procs -> Seq(T)] /\ \A p \in Procs : DOMAIN calls'[p] = {}
      BY <1>3, <2>2, NoneOpen
    <3> QED  BY <3>1 DEF TypedCalls
  <2> QED  BY <1>1, <1>3, <1>6, <2>1, <2>3 DEF TypeOK, TypedCalls, Kids
<1>9. KnownKeys'
  BY <1>2, <1>6 DEF IInv, KnownKeys
<1>10. MapsMade'
  BY <1>4, <1>6, <1>7 DEF IInv, MapsMade
<1>11. \A d \in DOMAIN heap \ {t} : \A j : /\ LastOf(IdKeys(d), j)' <=> LastOf(IdKeys(d), j)
                                           /\ LastOf(NameKeys(d), j)' <=> LastOf(NameKeys(d), j)
  BY <1>2 DEF LastOf, IdKeys, NameKeys
<1>12. IdsFilled'
  BY <1>2, <1>4, <1>6, <1>7, <1>11 DEF IInv, IdsFilled
<1>13. NamesFilled'
  BY <1>2, <1>4, <1>6, <1>7, <1>11 DEF IInv, NamesFilled
<1>14. ChildrenMarked'
  <2>1. \A d \in DOMAIN heap : \A j \in DOMAIN Kids(d) : Kids(d)[j].desc # Nil => Kids(d)[j].desc \in DOMAIN heap
    BY Basics DEF Nil
  <2>2. \A c \in DOMAIN heap : normalized[c] => normalized'[c]
    BY <1>2, <1>6
  <2> QED  BY <1>2, <1>4, <1>7, <2>1, <2>2 DEF IInv, ChildrenMarked
<1> QED  BY <1>8, <1>9, <1>10, <1>12, <1>13, <1>14 DEF IInv

-----------------------------------------------------------------------------
(***************************************************************************)
(* The theorems.                                                           *)
(***************************************************************************)
LEMMA InitIInv == Init => IInv
<1> SUFFICES ASSUME Init PROVE IInv
  OBVIOUS
<1>1. heap \in Seq(Node) /\ Closed(heap)
  BY TrimAssumption DEF Init
<1>2. normalized \in [DOMAIN heap -> BOOLEAN] /\ \A d \in DOMAIN heap : ~normalized[d] /\ ids[d] = NoMap /\ names[d] = NoMap
  BY DEF Init
<1>3. calls \in [Procs -> Seq(FrameType)] /\ \A p \in Procs : DOMAIN calls[p] = {}
  <2> DEFINE T == FrameType
  <2>1. Quiet /\ calls = [p \in Procs |-> <<>>]
    BY DEF Init, Quiet
  <2> HIDE DEF T
  <2>2. calls \in [Procs -> Seq(T)] /\ \A p \in Procs : DOMAIN calls[p] = {}
    BY <2>1, NoneOpen
  <2> QED  BY <2>2 DEF T
<1>4. DOMAIN ids = DOMAIN heap /\ DOMAIN names = DOMAIN heap /\ crashed \in BOOLEAN
  BY DEF Init
<1>5. TypeOK
  BY <1>1, <1>2, <1>3, <1>4 DEF TypeOK, MapOn
<1> QED  BY <1>2, <1>5 DEF IInv, KnownKeys, MapsMade, IdsFilled, NamesFilled, ChildrenMarked

LEMMA NextIInv == ASSUME ~ReuseNormalized PROVE IInv /\ [Next]_vars => IInv'
<1> SUFFICES ASSUME IInv, [Next]_vars PROVE IInv'
  OBVIOUS
<1>1. ASSUME NEW p \in Procs, Call(p) \/ Normalize(p) PROVE IInv'
  BY <1>1, CallStep, AlreadyNormalizedStep, NotNormalizedStep, MarkStep, MakeIdsStep, MakeNamesStep,
     PutIdStep, PutNameStep, NoChildStep, DescendStep, AllDoneStep DEF Normalize
<1>2. CASE Crash
  BY <1>2, CrashStep
<1>3. ASSUME NEW t \in 1 .. Len(heap) + 1, Rebuild(t) PROVE IInv'
  BY <1>3, RebuildStep
<1>4. CASE UNCHANGED vars
  <2>1. GoodCalls /\ UNCHANGED <<heap, normalized, ids, names>> /\ crashed' \in BOOLEAN
    BY <1>4, Basics, BooleanCrashed DEF vars
  <2>2. calls' \in [Procs -> Seq(GoodFrame)] /\ \A f \in Open : f \in Open'
    BY <1>4, <2>1 DEF vars, GoodCalls, Open
  <2> QED  BY <2>1, <2>2, ControlStep
<1> QED  BY <1>1, <1>2, <1>3, <1>4 DEF Next, NextNormalize

\* With no call open, what is still to be done by one is done.
LEMMA QuietNormalized == IInv => Normalized
<1> SUFFICES ASSUME IInv, Quiet, NEW d \in DOMAIN heap, normalized[d]
             PROVE  Complete(d) /\ \A c \in ChildrenOf(heap, d) : normalized[c]
  BY DEF Normalized
<1>1. Open = {}
  BY DEF Quiet, Open
<1>2. Kids(d) \in Seq(Child) /\ MapOn(ids[d], Ids) /\ MapOn(names[d], Names)
  BY Basics DEF IInv, TypeOK
<1>3. ids[d] # NoMap /\ names[d] # NoMap
  BY <1>1 DEF IInv, MapsMade
<1>4. \A j \in DOMAIN Kids(d) : Kids(d)[j].id \in Ids /\ Kids(d)[j].name \in Names
  <2>1. \A j \in DOMAIN Kids(d) : Kids(d)[j] \in Child
    BY <1>2
  <2> QED  BY <2>1 DEF Child
<1>5. ids[d] = Full(IdKeys(d))
  <2> DEFINE ks == IdKeys(d)
             m == ids[d]
  <2>1. ks \in Seq(Ids) /\ DOMAIN ks = DOMAIN Kids(d) /\ \A j \in DOMAIN ks : ks[j] = Kids(d)[j].id
    BY <1>2, <1>4 DEF IdKeys
  <2>2. m \in [DOMAIN m -> Nat]
    BY <1>2, <1>3 DEF MapOn
  <2>3. DOMAIN m \subseteq {ks[i] : i \in DOMAIN ks}
    <3>1. DOMAIN m \subseteq {Kids(d)[i].id : i \in DOMAIN Kids(d)}
      BY <1>3 DEF IInv, KnownKeys
    <3> HIDE DEF ks, m
    <3> QED  BY <2>1, <3>1
  <2>4. \A j \in DOMAIN ks : LastOf(ks, j) => ks[j] \in DOMAIN m /\ m[ks[j]] = j
    BY <1>1, <2>1 DEF IInv, IdsFilled, Holds
  <2> HIDE DEF ks, m
  <2>5. m = Full(ks)
    BY <2>1, <2>2, <2>3, <2>4, FullIs
  <2> QED  BY <2>5 DEF ks, m
<1>6. names[d] = Full(NameKeys(d))
  <2> DEFINE ks == NameKeys(d)
             m == names[d]
  <2>1. ks \in Seq(Names) /\ DOMAIN ks = DOMAIN Kids(d) /\ \A j \in DOMAIN ks : ks[j] = Kids(d)[j].name
    BY <1>2, <1>4 DEF NameKeys
  <2>2. m \in [DOMAIN m -> Nat]
    BY <1>2, <1>3 DEF MapOn
  <2>3. DOMAIN m \subseteq {ks[i] : i \in DOMAIN ks}
    <3>1. DOMAIN m \subseteq {Kids(d)[i].name : i \in DOMAIN Kids(d)}
      BY <1>3 DEF IInv, KnownKeys
    <3> HIDE DEF ks, m
    <3> QED  BY <2>1, <3>1
  <2>4. \A j \in DOMAIN ks : LastOf(ks, j) => ks[j] \in DOMAIN m /\ m[ks[j]] = j
    BY <1>1, <2>1 DEF IInv, NamesFilled, Holds
  <2> HIDE DEF ks, m
  <2>5. m = Full(ks)
    BY <2>1, <2>2, <2>3, <2>4, FullIs
  <2> QED  BY <2>5 DEF ks, m
<1>7. \A c \in ChildrenOf(heap, d) : normalized[c]
  BY <1>1 DEF IInv, ChildrenMarked, ChildrenOf, Kids
<1> QED  BY <1>5, <1>6, <1>7 DEF Complete

LEMMA AlwaysIInv == ASSUME ~ReuseNormalized PROVE Spec => []IInv
<1>1. Init => IInv
  BY InitIInv
<1>2. IInv /\ [Next]_vars => IInv'
  BY NextIInv
<1> QED  BY <1>1, <1>2, PTL DEF Spec

\* The heap of descriptors, their flags and maps, and the open calls of Normalize (trim/desc.go)
\* keep their types when JSON is not read into descriptors that were normalized.
THEOREM DescTypes == ASSUME ~ReuseNormalized PROVE Spec => []TypeOK
<1>1. IInv => TypeOK
  BY DEF IInv
<1> QED  BY <1>1, AlwaysIInv, PTL

\* Normalize (trim/desc.go): whenever no call is open, a descriptor that is marked has both its
\* maps, complete, and marked children, whatever the graph and however many goroutines ran at
\* once, when JSON is not read into descriptors that were normalized.
THEOREM DescNormalized == ASSUME ~ReuseNormalized PROVE Spec => []Normalized
<1>1. IInv => Normalized
  BY QuietNormalized
<1> QED  BY <1>1, AlwaysIInv, PTL

-----------------------------------------------------------------------------
(***************************************************************************)
(* What holds while a text is written.                                     *)
(***************************************************************************)
Path == Seq(Nat)
Members == [name : Names, id : Ids, how : {"nil", "desc", "ref"}, ref : Path]
Objects == [kind : Kinds, type : Types, children : Seq(Members)]
Opens(h) == [d : DOMAIN h, path : Path, i : Nat \ {0}]
Texts == UNION {[S -> Objects] : S \in SUBSET Path}
Visits(h) == UNION {[S -> Path] : S \in SUBSET DOMAIN h}

\* The descriptors and their texts: each has its own path, and every path but the root's is
\* that of a child that was written.
Met(s, d) ==
    /\ d \in DOMAIN s.visited /\ s.visited[d] = <<>>
    /\ \A x, y \in DOMAIN s.visited : s.visited[x] = s.visited[y] => x = y
    /\ DOMAIN s.text = {s.visited[x] : x \in DOMAIN s.visited}
    /\ \A p \in DOMAIN s.text :
          \/ p = <<>>
          \/ \E q \in DOMAIN s.text : \E j \in DOMAIN s.text[q].children : p = Append(q, j)

\* The member m, at place j of what is written at path, is the child c.
Tells(v, path, j, m, c) ==
    /\ m.name = c.name /\ m.id = c.id
    /\ \/ m.how = "nil" /\ c.desc = Nil
       \/ m.how = "ref" /\ c.desc \in DOMAIN v /\ m.ref = v[c.desc]
       \/ m.how = "desc" /\ c.desc \in DOMAIN v /\ v[c.desc] = Append(path, j)

\* What is written of a descriptor is a beginning of it.  The place `but` is being written.
Faithful(s, h, but) ==
    \A x \in DOMAIN s.visited : LET o == s.text[s.visited[x]] IN
        /\ o.kind = h[x].kind /\ o.type = h[x].type
        /\ Len(o.children) <= Len(h[x].children)
        /\ \A j \in DOMAIN o.children : <<x, j>> # but =>
              Tells(s.visited, s.visited[x], j, o.children[j], h[x].children[j])

\* Objects are open where they lack children, each once.
OpenOnce(s, h) ==
    /\ \A k \in DOMAIN s.open :
          /\ s.open[k].d \in DOMAIN s.visited
          /\ s.open[k].path = s.visited[s.open[k].d]
          /\ s.open[k].i = Len(s.text[s.open[k].path].children) + 1
    /\ \A k, l \in DOMAIN s.open : s.open[k].d = s.open[l].d => k = l
    /\ \A x \in DOMAIN s.visited :
          \/ \E k \in DOMAIN s.open : s.open[k].d = x
          \/ Len(s.text[s.visited[x]].children) = Len(h[x].children)

WInv(s, h, d, but) ==
    /\ s \in [open : Seq(Opens(h)), visited : Visits(h), text : Texts]
    /\ Met(s, d) /\ Faithful(s, h, but) /\ OpenOnce(s, h)

\* No place is being written.
None == <<0, 0>>

-----------------------------------------------------------------------------
(* Parts of the invariant *)

LEMMA NodeIs ==
    ASSUME NEW h \in Seq(Node), NEW x \in DOMAIN h
    PROVE  /\ h[x] \in Node /\ h[x].kind \in Kinds /\ h[x].type \in Types
           /\ h[x].children \in Seq(Child)
           /\ Len(h[x].children) \in Nat /\ DOMAIN h[x].children = 1 .. Len(h[x].children)
           /\ \A j \in DOMAIN h[x].children : h[x].children[j] \in Child
           /\ x \in Nat \ {0}
<1>1. h[x] \in Node
  OBVIOUS
<1>2. h[x].kind \in Kinds /\ h[x].type \in Types /\ h[x].children \in Seq(Child)
  BY <1>1 DEF Node
<1>3. /\ Len(h[x].children) \in Nat /\ DOMAIN h[x].children = 1 .. Len(h[x].children)
      /\ \A j \in DOMAIN h[x].children : h[x].children[j] \in Child
  BY <1>2
<1> QED  BY <1>1, <1>2, <1>3

LEMMA WTypes ==
    ASSUME NEW h \in Seq(Node), NEW d, NEW s, NEW but, WInv(s, h, d, but)
    PROVE  /\ s = [open |-> s.open, visited |-> s.visited, text |-> s.text]
           /\ s.open \in Seq(Opens(h)) /\ s.visited \in Visits(h) /\ s.text \in Texts
           /\ s.visited \in [DOMAIN s.visited -> Path] /\ DOMAIN s.visited \subseteq DOMAIN h
           /\ s.text \in [DOMAIN s.text -> Objects] /\ DOMAIN s.text \subseteq Path
           /\ \A p \in DOMAIN s.text :
                 /\ p \in Path /\ s.text[p] \in Objects /\ s.text[p].children \in Seq(Members)
                 /\ Len(s.text[p].children) \in Nat
                 /\ DOMAIN s.text[p].children = 1 .. Len(s.text[p].children)
           /\ \A x \in DOMAIN s.visited : s.visited[x] \in DOMAIN s.text /\ x \in DOMAIN h
           /\ Met(s, d) /\ Faithful(s, h, but) /\ OpenOnce(s, h)
<1>1. s \in [open : Seq(Opens(h)), visited : Visits(h), text : Texts]
  BY DEF WInv
<1>2. /\ s = [open |-> s.open, visited |-> s.visited, text |-> s.text]
      /\ s.open \in Seq(Opens(h)) /\ s.visited \in Visits(h) /\ s.text \in Texts
  BY <1>1
<1>3. s.visited \in [DOMAIN s.visited -> Path] /\ DOMAIN s.visited \subseteq DOMAIN h
  BY <1>2 DEF Visits
<1>4. s.text \in [DOMAIN s.text -> Objects] /\ DOMAIN s.text \subseteq Path
  BY <1>2 DEF Texts
<1>5. ASSUME NEW p \in DOMAIN s.text
      PROVE  /\ p \in Path /\ s.text[p] \in Objects /\ s.text[p].children \in Seq(Members)
             /\ Len(s.text[p].children) \in Nat
             /\ DOMAIN s.text[p].children = 1 .. Len(s.text[p].children)
  <2>1. p \in Path /\ s.text[p] \in Objects
    BY <1>4
  <2>2. s.text[p].children \in Seq(Members)
    BY <2>1 DEF Objects
  <2> QED  BY <2>1, <2>2
<1>6. Met(s, d) /\ Faithful(s, h, but) /\ OpenOnce(s, h)
  BY DEF WInv
<1>7. \A x \in DOMAIN s.visited : s.visited[x] \in DOMAIN s.text /\ x \in DOMAIN h
  BY <1>3, <1>6 DEF Met
<1> QED  BY <1>2, <1>3, <1>4, <1>5, <1>6, <1>7

-----------------------------------------------------------------------------
(* A member is written *)

LEMMA TopFrame ==
    ASSUME NEW h \in Seq(Node), NEW d, NEW s, NEW but, WInv(s, h, d, but), s.open # <<>>,
           NEW f, f = Last(s.open)
    PROVE  /\ f = s.open[Len(s.open)] /\ Len(s.open) \in DOMAIN s.open /\ f \in Opens(h)
           /\ f.d \in DOMAIN s.visited /\ f.path = s.visited[f.d] /\ f.path \in DOMAIN s.text
           /\ f.i = Len(s.text[f.path].children) + 1
           /\ f.d \in DOMAIN h /\ f.path \in Path /\ f.i \in Nat \ {0}
<1>1. /\ s.open \in Seq(Opens(h)) /\ s.text \in [DOMAIN s.text -> Objects] /\ OpenOnce(s, h)
      /\ \A x \in DOMAIN s.visited : s.visited[x] \in DOMAIN s.text
  BY WTypes
<1>2. Len(s.open) \in DOMAIN s.open /\ f = s.open[Len(s.open)] /\ f \in Opens(h)
  BY <1>1 DEF Last
<1>3. /\ f.d \in DOMAIN s.visited /\ f.path = s.visited[f.d]
      /\ f.i = Len(s.text[f.path].children) + 1 /\ f.path \in DOMAIN s.text
  BY <1>1, <1>2 DEF OpenOnce
<1>4. f.d \in DOMAIN h /\ f.path \in Path /\ f.i \in Nat \ {0}
  BY <1>2 DEF Opens
<1> QED  BY <1>2, <1>3, <1>4

\* The frame of the object now stands at the next child, and the object has one more.
Longer(w, s, h, f, m) ==
    /\ w.visited = s.visited
    /\ w.open \in Seq(Opens(h)) /\ Len(w.open) = Len(s.open) /\ DOMAIN w.open = DOMAIN s.open
    /\ \A k \in DOMAIN s.open : k # Len(s.open) => w.open[k] = s.open[k]
    /\ w.open[Len(s.open)].d = f.d /\ w.open[Len(s.open)].path = f.path
    /\ w.open[Len(s.open)].i = f.i + 1
    /\ w.text \in [DOMAIN s.text -> Objects] /\ DOMAIN w.text = DOMAIN s.text
    /\ \A p \in DOMAIN s.text : p # f.path => w.text[p] = s.text[p]
    /\ w.text[f.path].kind = s.text[f.path].kind /\ w.text[f.path].type = s.text[f.path].type
    /\ w.text[f.path].children = Append(s.text[f.path].children, m)

LEMMA WroteIs ==
    ASSUME NEW h \in Seq(Node), NEW d, NEW s, WInv(s, h, d, None), s.open # <<>>,
           NEW m \in Members, NEW f, f = Last(s.open),
           NEW w, w = Wrote(s, f.path, m)
    PROVE  /\ w \in [open : Seq(Opens(h)), visited : Visits(h), text : Texts]
           /\ Longer(w, s, h, f, m)
<1> DEFINE cs == s.text[f.path].children
           n == Len(s.open)
           g == [f EXCEPT !.i = f.i + 1]
           o == [s.text[f.path] EXCEPT !.children = Append(cs, m)]
<1>1. /\ s = [open |-> s.open, visited |-> s.visited, text |-> s.text]
      /\ s.open \in Seq(Opens(h)) /\ s.text \in [DOMAIN s.text -> Objects]
      /\ s.visited \in Visits(h) /\ DOMAIN s.text \subseteq Path
  BY WTypes
<1>2. /\ n \in DOMAIN s.open /\ f = s.open[n] /\ f \in Opens(h)
      /\ f.d \in DOMAIN h /\ f.path \in Path /\ f.i \in Nat \ {0} /\ f.path \in DOMAIN s.text
  <2>1. /\ f = s.open[Len(s.open)] /\ Len(s.open) \in DOMAIN s.open /\ f \in Opens(h)
        /\ f.d \in DOMAIN h /\ f.path \in Path /\ f.i \in Nat \ {0} /\ f.path \in DOMAIN s.text
    BY TopFrame
  <2> QED  BY <2>1
<1>3. w = [s EXCEPT !.open = [s.open EXCEPT ![n] = [s.open[n] EXCEPT !.i = s.open[n].i + 1]],
                    !.text = [s.text EXCEPT ![f.path] = o]]
  BY <1>1 DEF Wrote
<1>4. /\ cs \in Seq(Members) /\ Append(cs, m) \in Seq(Members) /\ s.text[f.path] \in Objects
  <2>1. s.text[f.path] \in Objects
    BY <1>1, <1>2
  <2>2. cs \in Seq(Members)
    BY <2>1 DEF Objects
  <2> HIDE DEF cs
  <2> QED  BY <2>1, <2>2
<1>5. /\ o \in Objects /\ o.kind = s.text[f.path].kind /\ o.type = s.text[f.path].type
      /\ o.children = Append(cs, m)
  <2> HIDE DEF cs
  <2> QED  BY <1>4 DEF Objects
<1>6. g \in Opens(h) /\ g.d = f.d /\ g.path = f.path /\ g.i = f.i + 1
  BY <1>2 DEF Opens
<1>7. g = [s.open[n] EXCEPT !.i = s.open[n].i + 1]
  BY <1>2
<1> HIDE DEF cs, n, g, o
<1>8. w = [open |-> [s.open EXCEPT ![n] = g], visited |-> s.visited,
           text |-> [s.text EXCEPT ![f.path] = o]]
  BY <1>1, <1>3, <1>7
<1>9. /\ w.open = [s.open EXCEPT ![n] = g] /\ w.visited = s.visited
      /\ w.text = [s.text EXCEPT ![f.path] = o]
  BY <1>8
<1>10. /\ w.open \in Seq(Opens(h)) /\ Len(w.open) = Len(s.open) /\ DOMAIN w.open = DOMAIN s.open
       /\ \A k \in DOMAIN s.open : k # n => w.open[k] = s.open[k]
       /\ w.open[n] = g
  <2>1. n \in 1 .. Len(s.open) /\ DOMAIN s.open = 1 .. Len(s.open)
    BY <1>1, <1>2
  <2>2. /\ w.open \in Seq(Opens(h)) /\ Len(w.open) = Len(s.open)
        /\ \A k \in 1 .. Len(s.open) : w.open[k] = IF k = n THEN g ELSE s.open[k]
    BY <1>1, <1>6, <1>9, <2>1, ExceptSeq
  <2>3. DOMAIN w.open = 1 .. Len(w.open)
    BY <2>2
  <2> QED  BY <2>1, <2>2, <2>3
<1>11. /\ w.text \in [DOMAIN s.text -> Objects] /\ DOMAIN w.text = DOMAIN s.text
       /\ \A p \in DOMAIN s.text : p # f.path => w.text[p] = s.text[p]
       /\ w.text[f.path] = o
  BY <1>1, <1>2, <1>5, <1>9
<1>12. w.text \in Texts
  BY <1>1, <1>11 DEF Texts
<1>13. w \in [open : Seq(Opens(h)), visited : Visits(h), text : Texts]
  BY <1>1, <1>8, <1>9, <1>10, <1>12
<1> QED  BY <1>5, <1>6, <1>9, <1>10, <1>11, <1>13 DEF Longer, n, cs

\* The path of a child that was not written yet is new.
LEMMA NewPath ==
    ASSUME NEW h \in Seq(Node), NEW d, NEW s, NEW but, WInv(s, h, d, but),
           NEW p \in DOMAIN s.text, NEW j \in Nat, j > Len(s.text[p].children)
    PROVE  Append(p, j) \notin DOMAIN s.text
<1>1. p \in Path /\ Len(s.text[p].children) \in Nat
  BY WTypes
<1>2. SUFFICES ASSUME Append(p, j) \in DOMAIN s.text PROVE FALSE
  OBVIOUS
<1>3. Append(p, j) # <<>>
  BY <1>1, AppendProperties, ZenonT(60) DEF Path
<1>4. PICK q \in DOMAIN s.text : \E i \in DOMAIN s.text[q].children : Append(p, j) = Append(q, i)
  <2>1. Met(s, d)
    BY WTypes
  <2> QED  BY <1>2, <1>3, <2>1 DEF Met
<1>5. q \in Path /\ DOMAIN s.text[q].children = 1 .. Len(s.text[q].children)
      /\ Len(s.text[q].children) \in Nat
  BY WTypes
<1>6. PICK i \in DOMAIN s.text[q].children : Append(p, j) = Append(q, i)
  BY <1>4
<1>7. i \in Nat /\ i <= Len(s.text[q].children)
  BY <1>5
<1>8. p = q /\ j = i
  BY <1>1, <1>5, <1>6, <1>7, AppendInjective DEF Path
<1> QED  BY <1>1, <1>7, <1>8

LEMMA WroteKeeps ==
    ASSUME NEW h \in Seq(Node), NEW d, NEW s, WInv(s, h, d, None), s.open # <<>>,
           NEW m \in Members, NEW f, f = Last(s.open), f.i <= Len(h[f.d].children),
           NEW w, w = Wrote(s, f.path, m)
    PROVE  /\ WInv(w, h, d, <<f.d, f.i>>) /\ w.visited = s.visited
           /\ Append(f.path, f.i) \notin DOMAIN w.text
           /\ f.path \in DOMAIN w.text /\ f.i \in DOMAIN w.text[f.path].children
           /\ w.text[f.path].children[f.i] = m
           /\ f.d \in DOMAIN s.visited /\ f.path = s.visited[f.d] /\ f.i \in DOMAIN h[f.d].children
<1> DEFINE cs == s.text[f.path].children
           n == Len(s.open)
<1>1. /\ f = s.open[n] /\ n \in DOMAIN s.open /\ f \in Opens(h)
      /\ f.d \in DOMAIN s.visited /\ f.path = s.visited[f.d] /\ f.i = Len(cs) + 1
      /\ f.path \in DOMAIN s.text
  <2>1. /\ f = s.open[Len(s.open)] /\ Len(s.open) \in DOMAIN s.open /\ f \in Opens(h)
        /\ f.d \in DOMAIN s.visited /\ f.path = s.visited[f.d] /\ f.path \in DOMAIN s.text
        /\ f.i = Len(s.text[f.path].children) + 1
    BY TopFrame
  <2> QED  BY <2>1
<1>2. /\ s.open \in Seq(Opens(h)) /\ s.visited \in Visits(h)
      /\ s.text \in [DOMAIN s.text -> Objects] /\ DOMAIN s.text \subseteq Path
      /\ \A x \in DOMAIN s.visited : s.visited[x] \in DOMAIN s.text /\ x \in DOMAIN h
      /\ Met(s, d) /\ Faithful(s, h, None) /\ OpenOnce(s, h)
      /\ \A p \in DOMAIN s.text :
            /\ p \in Path /\ s.text[p] \in Objects /\ s.text[p].children \in Seq(Members)
            /\ Len(s.text[p].children) \in Nat
            /\ DOMAIN s.text[p].children = 1 .. Len(s.text[p].children)
  BY WTypes
<1>4. /\ cs \in Seq(Members) /\ Len(cs) \in Nat /\ DOMAIN cs = 1 .. Len(cs)
      /\ Append(cs, m) \in Seq(Members) /\ Len(Append(cs, m)) = Len(cs) + 1
      /\ DOMAIN Append(cs, m) = 1 .. Len(cs) + 1
      /\ \A j \in DOMAIN cs : Append(cs, m)[j] = cs[j]
      /\ Append(cs, m)[Len(cs) + 1] = m
  <2>1. cs \in Seq(Members) /\ Len(cs) \in Nat /\ DOMAIN cs = 1 .. Len(cs)
    BY <1>1, <1>2
  <2> HIDE DEF cs
  <2> QED  BY <2>1
<1>a. /\ f.d \in DOMAIN h /\ f.path \in Path /\ f.i \in Nat \ {0} /\ f.i \in DOMAIN h[f.d].children
  <2>1. f.d \in DOMAIN h /\ f.path \in Path /\ f.i \in Nat \ {0}
    BY <1>1 DEF Opens
  <2>2. DOMAIN h[f.d].children = 1 .. Len(h[f.d].children) /\ Len(h[f.d].children) \in Nat
    BY <2>1, NodeIs
  <2> QED  BY <2>1, <2>2
<1>b. Append(f.path, f.i) \notin DOMAIN s.text
  <2>1. f.i > Len(s.text[f.path].children) /\ f.i \in Nat
    <3>1. f.i = Len(cs) + 1 /\ Len(cs) \in Nat
      BY <1>1, <1>4
    <3> HIDE DEF cs
    <3>2. f.i > Len(cs) /\ f.i \in Nat
      BY <3>1
    <3> QED  BY <3>2 DEF cs
  <2> QED  BY <1>1, <2>1, NewPath
<1> HIDE DEF cs, n
<1>7. w \in [open : Seq(Opens(h)), visited : Visits(h), text : Texts] /\ Longer(w, s, h, f, m)
  BY WroteIs
<1>5. /\ w.open \in Seq(Opens(h)) /\ Len(w.open) = Len(s.open) /\ DOMAIN w.open = DOMAIN s.open
      /\ \A k \in DOMAIN s.open : k # n => w.open[k] = s.open[k]
      /\ w.open[n].d = f.d /\ w.open[n].path = f.path /\ w.open[n].i = f.i + 1
  BY <1>7 DEF Longer, n
<1>6. /\ w.text \in [DOMAIN s.text -> Objects] /\ DOMAIN w.text = DOMAIN s.text
      /\ \A p \in DOMAIN s.text : p # f.path => w.text[p] = s.text[p]
      /\ w.text[f.path].kind = s.text[f.path].kind /\ w.text[f.path].type = s.text[f.path].type
      /\ w.text[f.path].children = Append(cs, m)
  BY <1>7 DEF Longer, cs
<1>8. w.visited = s.visited
  BY <1>7 DEF Longer
<1>c. \A p \in DOMAIN s.text : \A j \in DOMAIN s.text[p].children :
         j \in DOMAIN w.text[p].children /\ w.text[p].children[j] = s.text[p].children[j]
  <2> SUFFICES ASSUME NEW p \in DOMAIN s.text, NEW j \in DOMAIN s.text[p].children
               PROVE  j \in DOMAIN w.text[p].children /\ w.text[p].children[j] = s.text[p].children[j]
    OBVIOUS
  <2>1. CASE p # f.path
    BY <1>6, <2>1
  <2>2. CASE p = f.path
    <3>1. j \in DOMAIN cs /\ j \in DOMAIN Append(cs, m)
      BY <1>4, <2>2 DEF cs
    <3> QED  BY <1>4, <1>6, <2>2, <3>1 DEF cs
  <2> QED  BY <2>1, <2>2
<1>9. Met(w, d)
  <2>1. /\ d \in DOMAIN w.visited /\ w.visited[d] = <<>>
        /\ \A x, y \in DOMAIN w.visited : w.visited[x] = w.visited[y] => x = y
        /\ DOMAIN w.text = {w.visited[x] : x \in DOMAIN w.visited}
    BY <1>2, <1>6, <1>8 DEF Met
  <2>2. ASSUME NEW p \in DOMAIN w.text, p # <<>>
        PROVE  \E q \in DOMAIN w.text : \E j \in DOMAIN w.text[q].children : p = Append(q, j)
    <3>0. p \in DOMAIN s.text /\ Met(s, d)
      BY <1>2, <1>6
    <3>1. PICK q \in DOMAIN s.text : \E j \in DOMAIN s.text[q].children : p = Append(q, j)
      BY <2>2, <3>0 DEF Met
    <3>2. PICK j \in DOMAIN s.text[q].children : p = Append(q, j)
      BY <3>1
    <3>3. q \in DOMAIN w.text /\ j \in DOMAIN w.text[q].children
      BY <1>6, <1>c
    <3> QED  BY <3>2, <3>3
  <2> QED  BY <2>1, <2>2 DEF Met
<1>10. Faithful(w, h, <<f.d, f.i>>)
  <2> SUFFICES ASSUME NEW x \in DOMAIN s.visited
               PROVE  LET o == w.text[s.visited[x]] IN
                      /\ o.kind = h[x].kind /\ o.type = h[x].type
                      /\ Len(o.children) <= Len(h[x].children)
                      /\ \A j \in DOMAIN o.children : <<x, j>> # <<f.d, f.i>> =>
                            Tells(s.visited, s.visited[x], j, o.children[j], h[x].children[j])
    BY <1>8, ZenonT(60) DEF Faithful
  <2> DEFINE p == s.visited[x]
             o == w.text[p]
  <2>1. p \in DOMAIN s.text /\ x \in DOMAIN h
    BY <1>2
  <2>2. /\ s.text[p].kind = h[x].kind /\ s.text[p].type = h[x].type
        /\ Len(s.text[p].children) <= Len(h[x].children)
        /\ \A j \in DOMAIN s.text[p].children : <<x, j>> # None =>
              Tells(s.visited, p, j, s.text[p].children[j], h[x].children[j])
    BY <1>2 DEF Faithful
  <2>3. \A j : <<x, j>> # None
    BY <2>1, NodeIs DEF None
  <2>4. \A j \in DOMAIN s.text[p].children :
           Tells(s.visited, p, j, s.text[p].children[j], h[x].children[j])
    BY <2>2, <2>3
  <2>5. CASE x = f.d
    <3>1. p = f.path
      BY <1>1, <2>5
    <3>2. o.kind = h[x].kind /\ o.type = h[x].type
      BY <1>6, <2>2, <3>1
    <3>3. o.children = Append(cs, m) /\ s.text[p].children = cs
      BY <1>6, <3>1 DEF cs
    <3>4. Len(o.children) <= Len(h[x].children)
      BY <1>1, <1>4, <2>5, <3>3
    <3>5. ASSUME NEW j \in DOMAIN o.children, <<x, j>> # <<f.d, f.i>>
          PROVE  Tells(s.visited, p, j, o.children[j], h[x].children[j])
      <4>1. j # f.i
        BY <2>5, <3>5
      <4>2. j \in DOMAIN cs
        <5> HIDE DEF o
        <5> QED  BY <1>1, <1>4, <3>3, <4>1
      <4>3. o.children[j] = cs[j]
        BY <1>4, <3>3, <4>2
      <4> QED  BY <2>4, <3>3, <4>2, <4>3
    <3> QED  BY <3>2, <3>4, <3>5
  <2>6. CASE x # f.d
    <3>1. p # f.path
      BY <1>1, <1>2, <2>6 DEF Met
    <3>2. o = s.text[p]
      BY <1>6, <2>1, <3>1
    <3> QED  BY <2>2, <2>4, <3>2
  <2> QED  BY <2>5, <2>6
<1>11. OpenOnce(w, h)
  <2>1. ASSUME NEW k \in DOMAIN w.open
        PROVE  /\ w.open[k].d \in DOMAIN w.visited
               /\ w.open[k].path = w.visited[w.open[k].d]
               /\ w.open[k].i = Len(w.text[w.open[k].path].children) + 1
    <3>0. k \in DOMAIN s.open
      BY <1>5
    <3>1. CASE k = n
      BY <1>1, <1>4, <1>5, <1>6, <1>8, <3>1, ZenonT(60)
    <3>2. CASE k # n
      <4>1. w.open[k] = s.open[k]
        BY <1>5, <3>0, <3>2
      <4>2. /\ s.open[k].d \in DOMAIN s.visited /\ s.open[k].path = s.visited[s.open[k].d]
            /\ s.open[k].i = Len(s.text[s.open[k].path].children) + 1
        BY <1>2, <3>0 DEF OpenOnce
      <4>3. s.open[k].d # f.d
        BY <1>1, <1>2, <3>0, <3>2 DEF OpenOnce
      <4>4. s.open[k].path # f.path /\ s.open[k].path \in DOMAIN s.text
        BY <1>1, <1>2, <4>2, <4>3 DEF Met
      <4>5. w.text[s.open[k].path] = s.text[s.open[k].path]
        BY <1>6, <4>4
      <4> QED  BY <1>8, <4>1, <4>2, <4>5
    <3> QED  BY <3>1, <3>2
  <2>2. \A k \in DOMAIN w.open : w.open[k].d = s.open[k].d
    BY <1>1, <1>5
  <2>3. \A k, l \in DOMAIN w.open : w.open[k].d = w.open[l].d => k = l
    BY <1>2, <1>5, <2>2, SMTT(30) DEF OpenOnce
  <2>4. ASSUME NEW x \in DOMAIN w.visited
        PROVE  \/ \E k \in DOMAIN w.open : w.open[k].d = x
               \/ Len(w.text[w.visited[x]].children) = Len(h[x].children)
    <3>1. CASE x = f.d
      BY <1>1, <1>5, <3>1
    <3>2. CASE x # f.d
      <4>1. s.visited[x] # f.path /\ s.visited[x] \in DOMAIN s.text
        BY <1>1, <1>2, <1>8, <3>2 DEF Met
      <4>2. w.text[w.visited[x]] = s.text[s.visited[x]]
        BY <1>6, <1>8, <4>1
      <4>3. \/ \E k \in DOMAIN s.open : s.open[k].d = x
            \/ Len(s.text[s.visited[x]].children) = Len(h[x].children)
        BY <1>2, <1>8 DEF OpenOnce
      <4> QED  BY <1>5, <2>2, <4>2, <4>3
    <3> QED  BY <3>1, <3>2
  <2> QED  BY <2>1, <2>3, <2>4 DEF OpenOnce
<1>12. WInv(w, h, d, <<f.d, f.i>>)
  BY <1>7, <1>9, <1>10, <1>11 DEF WInv
<1>13. f.i \in DOMAIN w.text[f.path].children /\ w.text[f.path].children[f.i] = m
  <2>1. f.i = Len(cs) + 1 /\ w.text[f.path].children = Append(cs, m)
    BY <1>1, <1>6
  <2>2. Len(cs) + 1 \in 1 .. Len(cs) + 1
    BY <1>4
  <2> QED  BY <1>4, <2>1, <2>2
<1> QED  BY <1>1, <1>6, <1>8, <1>12, <1>13, <1>a, <1>b

-----------------------------------------------------------------------------
(* An object is opened *)

\* c is now the innermost open object, at the path np, with no children yet.
Wider(z, w, h, c, np) ==
    /\ z.open = Append(w.open, [d |-> c, path |-> np, i |-> 1])
    /\ DOMAIN z.visited = DOMAIN w.visited \cup {c}
    /\ \A x \in DOMAIN w.visited : z.visited[x] = w.visited[x]
    /\ z.visited[c] = np
    /\ DOMAIN z.text = DOMAIN w.text \cup {np}
    /\ \A p \in DOMAIN w.text : z.text[p] = w.text[p]
    /\ z.text[np] = [kind |-> h[c].kind, type |-> h[c].type, children |-> <<>>]

LEMMA OpenedIs ==
    ASSUME NEW h \in Seq(Node), NEW w, w.open \in Seq(Opens(h)),
           w.visited \in Visits(h), w.text \in Texts,
           NEW c \in DOMAIN h, c \notin DOMAIN w.visited,
           NEW np \in Path, np \notin DOMAIN w.text,
           NEW z, z = Opened(w, h, c, np)
    PROVE  /\ z \in [open : Seq(Opens(h)), visited : Visits(h), text : Texts]
           /\ Wider(z, w, h, c, np)
<1> DEFINE g == [d |-> c, path |-> np, i |-> 1]
           o == [kind |-> h[c].kind, type |-> h[c].type, children |-> <<>>]
<1>1. z = [open |-> Append(w.open, g), visited |-> Put(w.visited, c, np), text |-> Put(w.text, np, o)]
  BY DEF Opened, NodeOf
<1>2. g \in Opens(h)
  BY DEF Opens
<1>3. o \in Objects
  BY NodeIs DEF Objects
<1> HIDE DEF g, o
<1>4. /\ z.open = Append(w.open, g) /\ z.visited = Put(w.visited, c, np)
      /\ z.text = Put(w.text, np, o)
  BY <1>1
<1>5. /\ DOMAIN z.visited = DOMAIN w.visited \cup {c}
      /\ \A x \in DOMAIN w.visited : z.visited[x] = w.visited[x]
      /\ z.visited[c] = np
  BY <1>4 DEF Put
<1>6. /\ DOMAIN z.text = DOMAIN w.text \cup {np}
      /\ \A p \in DOMAIN w.text : z.text[p] = w.text[p]
      /\ z.text[np] = o
  BY <1>4 DEF Put
<1>7. z.visited \in Visits(h)
  <2>1. w.visited \in [DOMAIN w.visited -> Path] /\ DOMAIN w.visited \in SUBSET DOMAIN h
    BY DEF Visits
  <2>2. z.visited = [x \in DOMAIN w.visited \cup {c} |-> z.visited[x]]
    BY <1>4, <1>5 DEF Put
  <2>3. z.visited \in [DOMAIN w.visited \cup {c} -> Path]
    BY <1>5, <2>1, <2>2
  <2> QED  BY <2>1, <2>3 DEF Visits
<1>8. z.text \in Texts
  <2>1. w.text \in [DOMAIN w.text -> Objects] /\ DOMAIN w.text \in SUBSET Path
    BY DEF Texts
  <2>2. z.text = [x \in DOMAIN w.text \cup {np} |-> z.text[x]]
    BY <1>4, <1>6 DEF Put
  <2>3. z.text \in [DOMAIN w.text \cup {np} -> Objects]
    BY <1>3, <1>6, <2>1, <2>2
  <2> QED  BY <2>1, <2>3 DEF Texts
<1>9. z.open \in Seq(Opens(h))
  BY <1>2, <1>4
<1>10. z \in [open : Seq(Opens(h)), visited : Visits(h), text : Texts]
  BY <1>1, <1>4, <1>7, <1>8, <1>9
<1> QED  BY <1>4, <1>5, <1>6, <1>10 DEF Wider, g, o

LEMMA TellsMore ==
    ASSUME NEW v, NEW w, DOMAIN v \subseteq DOMAIN w, \A x \in DOMAIN v : w[x] = v[x],
           NEW path, NEW j, NEW m, NEW c, Tells(v, path, j, m, c)
    PROVE  Tells(w, path, j, m, c)
BY DEF Tells

LEMMA OpenedKeeps ==
    ASSUME NEW h \in Seq(Node), NEW d, NEW w, NEW but, WInv(w, h, d, but),
           NEW c \in DOMAIN h, c \notin DOMAIN w.visited,
           NEW q \in DOMAIN w.text, NEW j \in DOMAIN w.text[q].children,
           NEW np, np = Append(q, j), np \notin DOMAIN w.text,
           NEW z, z = Opened(w, h, c, np)
    PROVE  WInv(z, h, d, but) /\ Wider(z, w, h, c, np)
<1>1. /\ w.open \in Seq(Opens(h)) /\ w.visited \in Visits(h) /\ w.text \in Texts
      /\ \A x \in DOMAIN w.visited : w.visited[x] \in DOMAIN w.text /\ x \in DOMAIN h
      /\ Met(w, d) /\ Faithful(w, h, but) /\ OpenOnce(w, h)
  BY WTypes
<1>2. q \in Path /\ j \in Nat
  BY WTypes
<1>3. np \in Path
  BY <1>2, AppendProperties DEF Path
<1>4. /\ z \in [open : Seq(Opens(h)), visited : Visits(h), text : Texts]
      /\ Wider(z, w, h, c, np)
  BY <1>1, <1>3, OpenedIs
<1>a. z.open = Append(w.open, [d |-> c, path |-> np, i |-> 1])
  BY <1>4 DEF Wider
<1>5. /\ DOMAIN z.visited = DOMAIN w.visited \cup {c}
      /\ \A x \in DOMAIN w.visited : z.visited[x] = w.visited[x]
      /\ z.visited[c] = np
      /\ DOMAIN z.text = DOMAIN w.text \cup {np}
      /\ \A p \in DOMAIN w.text : z.text[p] = w.text[p]
  BY <1>4 DEF Wider
<1>6. z.text[np].kind = h[c].kind /\ z.text[np].type = h[c].type /\ z.text[np].children = <<>>
  BY <1>4 DEF Wider
<1>7. Met(z, d)
  <2>1. d \in DOMAIN z.visited /\ z.visited[d] = <<>>
    BY <1>1, <1>5 DEF Met
  <2>2. \A x \in DOMAIN w.visited : z.visited[x] # z.visited[c]
    BY <1>1, <1>5
  <2>3. \A x, y \in DOMAIN w.visited : z.visited[x] = z.visited[y] => x = y
    BY <1>1, <1>5 DEF Met
  <2>4. \A x, y \in DOMAIN z.visited : z.visited[x] = z.visited[y] => x = y
    <3> SUFFICES ASSUME NEW x \in DOMAIN z.visited, NEW y \in DOMAIN z.visited,
                        z.visited[x] = z.visited[y]
                 PROVE  x = y
      OBVIOUS
    <3>1. (x \in DOMAIN w.visited \/ x = c) /\ (y \in DOMAIN w.visited \/ y = c)
      BY <1>5
    <3> QED  BY <2>2, <2>3, <3>1
  <2>5. DOMAIN w.text = {w.visited[x] : x \in DOMAIN w.visited}
    BY <1>1 DEF Met
  <2>6. DOMAIN z.text = {z.visited[x] : x \in DOMAIN z.visited}
    <3>1. \A p \in DOMAIN z.text : \E x \in DOMAIN z.visited : p = z.visited[x]
      <4> SUFFICES ASSUME NEW p \in DOMAIN z.text PROVE \E x \in DOMAIN z.visited : p = z.visited[x]
        OBVIOUS
      <4>1. CASE p = np
        BY <1>5, <4>1
      <4>2. CASE p # np
        <5>1. p \in DOMAIN w.text
          BY <1>5, <4>2
        <5>2. PICK x \in DOMAIN w.visited : p = w.visited[x]
          BY <2>5, <5>1
        <5> QED  BY <1>5, <5>2
      <4> QED  BY <4>1, <4>2
    <3>2. \A x \in DOMAIN z.visited : z.visited[x] \in DOMAIN z.text
      <4> SUFFICES ASSUME NEW x \in DOMAIN z.visited PROVE z.visited[x] \in DOMAIN z.text
        OBVIOUS
      <4>1. x = c \/ x \in DOMAIN w.visited
        BY <1>5
      <4> QED  BY <1>1, <1>5, <4>1
    <3> QED  BY <3>1, <3>2
  <2>7. ASSUME NEW p \in DOMAIN z.text, p # <<>>
        PROVE  \E r \in DOMAIN z.text : \E i \in DOMAIN z.text[r].children : p = Append(r, i)
    <3>1. CASE p = np
      BY <1>5, <3>1
    <3>2. CASE p # np
      <4>1. p \in DOMAIN w.text
        BY <1>5, <3>2
      <4>2. PICK r \in DOMAIN w.text : \E i \in DOMAIN w.text[r].children : p = Append(r, i)
        BY <1>1, <2>7, <4>1 DEF Met
      <4>3. r \in DOMAIN z.text /\ z.text[r] = w.text[r]
        BY <1>5
      <4> QED  BY <4>2, <4>3
    <3> QED  BY <3>1, <3>2
  <2> QED  BY <2>1, <2>4, <2>6, <2>7 DEF Met
<1>8. Faithful(z, h, but)
  <2> SUFFICES ASSUME NEW x \in DOMAIN z.visited
               PROVE  LET o == z.text[z.visited[x]] IN
                      /\ o.kind = h[x].kind /\ o.type = h[x].type
                      /\ Len(o.children) <= Len(h[x].children)
                      /\ \A i \in DOMAIN o.children : <<x, i>> # but =>
                            Tells(z.visited, z.visited[x], i, o.children[i], h[x].children[i])
    BY DEF Faithful
  <2>1. CASE x = c
    <3>1. Len(h[c].children) \in Nat
      BY NodeIs
    <3>2. z.visited[x] = np
      BY <1>5, <2>1
    <3> DEFINE e == z.text[np].children
    <3>3. e = <<>>
      BY <1>6
    <3>4. DOMAIN e = {} /\ Len(e) = 0
      BY <3>3, EmptyMap, EmptySeq
    <3> HIDE DEF e
    <3> QED  BY <1>6, <2>1, <3>1, <3>2, <3>4 DEF e
  <2>2. CASE x # c
    <3>1. x \in DOMAIN w.visited
      BY <1>5, <2>2
    <3> DEFINE o == w.text[w.visited[x]]
    <3>2. /\ o.kind = h[x].kind /\ o.type = h[x].type
          /\ Len(o.children) <= Len(h[x].children)
          /\ \A i \in DOMAIN o.children : <<x, i>> # but =>
                Tells(w.visited, w.visited[x], i, o.children[i], h[x].children[i])
      BY <1>1, <3>1 DEF Faithful
    <3>3. z.visited[x] = w.visited[x] /\ z.text[z.visited[x]] = o
      BY <1>1, <1>5, <3>1
    <3>4. DOMAIN w.visited \subseteq DOMAIN z.visited /\ \A y \in DOMAIN w.visited : z.visited[y] = w.visited[y]
      BY <1>5
    <3> HIDE DEF o
    <3>5. \A i \in DOMAIN o.children : <<x, i>> # but =>
             Tells(z.visited, w.visited[x], i, o.children[i], h[x].children[i])
      BY <3>2, <3>4, TellsMore
    <3> QED  BY <3>2, <3>3, <3>5
  <2> QED  BY <2>1, <2>2
<1>9. OpenOnce(z, h)
  <2> DEFINE n == Len(w.open) + 1
  <2>1. /\ DOMAIN z.open = DOMAIN w.open \cup {n} /\ n \notin DOMAIN w.open
        /\ \A k \in DOMAIN w.open : z.open[k] = w.open[k]
        /\ z.open[n] = [d |-> c, path |-> np, i |-> 1]
    <3>1. [d |-> c, path |-> np, i |-> 1] \in Opens(h)
      BY <1>3 DEF Opens
    <3>2. Len(w.open) \in Nat /\ DOMAIN w.open = 1 .. Len(w.open)
      BY <1>1
    <3>3. Len(z.open) = n /\ DOMAIN z.open = 1 .. n
      BY <1>1, <1>a, <3>1, <3>2
    <3> QED  BY <1>1, <1>a, <3>1, <3>2, <3>3
  <2>2. z.open[n].d = c /\ z.open[n].path = np /\ z.open[n].i = 1
    BY <2>1
  <2> HIDE DEF n
  <2>3. ASSUME NEW k \in DOMAIN w.open
        PROVE  /\ w.open[k].d \in DOMAIN w.visited
               /\ w.open[k].path = w.visited[w.open[k].d]
               /\ w.open[k].i = Len(w.text[w.open[k].path].children) + 1
               /\ w.open[k].path \in DOMAIN w.text
    BY <1>1 DEF OpenOnce
  <2>4. ASSUME NEW k \in DOMAIN z.open
        PROVE  /\ z.open[k].d \in DOMAIN z.visited
               /\ z.open[k].path = z.visited[z.open[k].d]
               /\ z.open[k].i = Len(z.text[z.open[k].path].children) + 1
    <3>1. CASE k = n
      <4>1. Len(z.text[np].children) = 0
        BY <1>6, EmptySeq
      <4>2. 1 = Len(z.text[np].children) + 1
        BY <4>1
      <4>3. z.open[k].d = c /\ z.open[k].path = np /\ z.open[k].i = 1
        BY <2>2, <3>1
      <4> QED  BY <1>5, <4>2, <4>3
    <3>2. CASE k # n
      <4>1. k \in DOMAIN w.open /\ z.open[k] = w.open[k]
        BY <2>1, <3>2
      <4>2. /\ w.open[k].d \in DOMAIN w.visited /\ w.open[k].path = w.visited[w.open[k].d]
            /\ w.open[k].i = Len(w.text[w.open[k].path].children) + 1
            /\ w.open[k].path \in DOMAIN w.text
        BY <2>3, <4>1
      <4> QED  BY <1>5, <4>1, <4>2
    <3> QED  BY <3>1, <3>2
  <2>5. \A k, l \in DOMAIN w.open : w.open[k].d = w.open[l].d => k = l
    BY <1>1 DEF OpenOnce
  <2>6. \A k, l \in DOMAIN z.open : z.open[k].d = z.open[l].d => k = l
    BY <2>1, <2>2, <2>3, <2>5
  <2>7. ASSUME NEW x \in DOMAIN z.visited
        PROVE  \/ \E k \in DOMAIN z.open : z.open[k].d = x
               \/ Len(z.text[z.visited[x]].children) = Len(h[x].children)
    <3>1. CASE x = c
      BY <2>1, <2>2, <3>1
    <3>2. CASE x # c
      <4>1. x \in DOMAIN w.visited /\ z.text[z.visited[x]] = w.text[w.visited[x]]
        BY <1>1, <1>5, <3>2
      <4>2. \/ \E k \in DOMAIN w.open : w.open[k].d = x
            \/ Len(w.text[w.visited[x]].children) = Len(h[x].children)
        BY <1>1, <4>1 DEF OpenOnce
      <4> QED  BY <2>1, <4>1, <4>2
    <3> QED  BY <3>1, <3>2
  <2> QED  BY <2>4, <2>6, <2>7 DEF OpenOnce
<1> QED  BY <1>4, <1>7, <1>8, <1>9 DEF WInv

\* The root is opened first.
LEMMA StartHolds ==
    ASSUME NEW h \in Seq(Node), NEW d \in DOMAIN h
    PROVE  WInv(Start(h, d), h, d, None)
<1> DEFINE w == [open |-> <<>>, visited |-> <<>>, text |-> <<>>]
           z == Start(h, d)
<1>1. DOMAIN <<>> = {}
  BY EmptyMap
<1>2. w.open = <<>> /\ w.visited = <<>> /\ w.text = <<>>
  OBVIOUS
<1>3. <<>> \in [{} -> Path] /\ <<>> \in [{} -> Objects]
  BY <1>1
<1>4. /\ w.open \in Seq(Opens(h)) /\ w.visited \in Visits(h) /\ w.text \in Texts
      /\ d \notin DOMAIN w.visited /\ <<>> \notin DOMAIN w.text
  <2>1. w.open \in Seq(Opens(h))
    BY <1>2
  <2>2. w.visited \in Visits(h)
    BY <1>2, <1>3 DEF Visits
  <2>3. w.text \in Texts
    BY <1>2, <1>3 DEF Texts
  <2> QED  BY <1>1, <1>2, <2>1, <2>2, <2>3
<1>5. z = Opened(w, h, d, <<>>) /\ <<>> \in Path
  BY DEF Start, Path
<1> HIDE DEF w, z
<1>6. /\ z \in [open : Seq(Opens(h)), visited : Visits(h), text : Texts]
      /\ Wider(z, w, h, d, <<>>)
  BY <1>4, <1>5, OpenedIs
<1>7. /\ DOMAIN z.visited = {d} /\ z.visited[d] = <<>> /\ DOMAIN z.text = {<<>>}
  BY <1>1, <1>2, <1>6 DEF Wider
<1>8. /\ z.text[<<>>].kind = h[d].kind /\ z.text[<<>>].type = h[d].type
      /\ z.text[<<>>].children = <<>>
  BY <1>6 DEF Wider
<1>9. z.open = <<[d |-> d, path |-> <<>>, i |-> 1]>>
  BY <1>2, <1>6 DEF Wider
<1>10. /\ DOMAIN z.open = {1} /\ z.open[1].d = d /\ z.open[1].path = <<>> /\ z.open[1].i = 1
  BY <1>9
<1> DEFINE e == z.text[<<>>].children
<1>11. DOMAIN e = {} /\ Len(e) = 0
  BY <1>1, <1>8, EmptySeq
<1>12. Met(z, d)
  BY <1>7 DEF Met
<1>13. Faithful(z, h, None)
  <2>1. Len(h[d].children) \in Nat
    BY NodeIs
  <2>2. 0 <= Len(h[d].children)
    BY <2>1
  <2> HIDE DEF e
  <2> QED  BY <1>7, <1>8, <1>11, <2>2 DEF Faithful, e
<1>14. OpenOnce(z, h)
  <2>1. 1 = Len(e) + 1
    BY <1>11
  <2> HIDE DEF e
  <2> QED  BY <1>7, <1>10, <2>1 DEF OpenOnce, e
<1> QED  BY <1>6, <1>12, <1>13, <1>14 DEF WInv, z

\* An object is closed when it has all its children.
LEMMA CloseKeeps ==
    ASSUME NEW h \in Seq(Node), NEW d, NEW s, WInv(s, h, d, None), s.open # <<>>,
           NEW f, f = Last(s.open), f.i > Len(h[f.d].children),
           NEW w, w = [s EXCEPT !.open = Front(s.open)]
    PROVE  /\ WInv(w, h, d, None) /\ w.visited = s.visited /\ w.text = s.text
           /\ w.open = Front(s.open)
           /\ Len(s.text[s.visited[f.d]].children) = Len(h[f.d].children)
<1> DEFINE n == Len(s.open)
<1>1. /\ s = [open |-> s.open, visited |-> s.visited, text |-> s.text]
      /\ s.open \in Seq(Opens(h)) /\ s.visited \in Visits(h) /\ s.text \in Texts
      /\ \A x \in DOMAIN s.visited : s.visited[x] \in DOMAIN s.text /\ x \in DOMAIN h
      /\ Met(s, d) /\ Faithful(s, h, None) /\ OpenOnce(s, h)
      /\ \A p \in DOMAIN s.text : Len(s.text[p].children) \in Nat
  BY WTypes
<1>2. /\ f = s.open[n] /\ n \in DOMAIN s.open /\ f \in Opens(h)
      /\ f.d \in DOMAIN s.visited /\ f.path = s.visited[f.d] /\ f.path \in DOMAIN s.text
      /\ f.i = Len(s.text[f.path].children) + 1 /\ f.d \in DOMAIN h
  <2>1. /\ f = s.open[Len(s.open)] /\ Len(s.open) \in DOMAIN s.open /\ f \in Opens(h)
        /\ f.d \in DOMAIN s.visited /\ f.path = s.visited[f.d] /\ f.path \in DOMAIN s.text
        /\ f.i = Len(s.text[f.path].children) + 1 /\ f.d \in DOMAIN h
    BY TopFrame
  <2> QED  BY <2>1
<1>3. w = [open |-> Front(s.open), visited |-> s.visited, text |-> s.text]
  BY <1>1
<1>4. w.open = Front(s.open) /\ w.visited = s.visited /\ w.text = s.text
  BY <1>3
<1>5. /\ w.open \in Seq(Opens(h)) /\ Len(w.open) = n - 1 /\ \A k \in 1 .. n - 1 : w.open[k] = s.open[k]
  BY <1>1, <1>4, FrontIs
<1>6. n \in Nat \ {0} /\ DOMAIN s.open = 1 .. n /\ DOMAIN w.open = 1 .. n - 1
  BY <1>1, <1>2, <1>5
<1>7. Len(s.text[s.visited[f.d]].children) = Len(h[f.d].children)
  <2>1. Len(s.text[s.visited[f.d]].children) <= Len(h[f.d].children)
    BY <1>1, <1>2 DEF Faithful
  <2>2. Len(h[f.d].children) \in Nat /\ Len(s.text[s.visited[f.d]].children) \in Nat
    BY <1>1, <1>2, NodeIs
  <2>3. Len(s.text[s.visited[f.d]].children) + 1 > Len(h[f.d].children)
    BY <1>2
  <2> DEFINE a == Len(s.text[s.visited[f.d]].children)
             b == Len(h[f.d].children)
  <2>4. a <= b /\ a \in Nat /\ b \in Nat /\ a + 1 > b
    BY <2>1, <2>2, <2>3
  <2> HIDE DEF a, b
  <2>5. a = b
    BY <2>4
  <2> QED  BY <2>5 DEF a, b
<1> HIDE DEF n
<1>8. w \in [open : Seq(Opens(h)), visited : Visits(h), text : Texts]
  BY <1>1, <1>3, <1>4, <1>5
<1>9. Met(w, d) /\ Faithful(w, h, None)
  <2>1. Met(w, d)
    <3>1. Met(s, d) /\ w.visited = s.visited /\ w.text = s.text
      BY <1>1, <1>4
    <3>2. /\ d \in DOMAIN s.visited /\ s.visited[d] = <<>>
          /\ \A x, y \in DOMAIN s.visited : s.visited[x] = s.visited[y] => x = y
          /\ DOMAIN s.text = {s.visited[x] : x \in DOMAIN s.visited}
      BY <3>1 DEF Met
    <3>3. \A p \in DOMAIN s.text :
             \/ p = <<>>
             \/ \E q \in DOMAIN s.text : \E j \in DOMAIN s.text[q].children : p = Append(q, j)
      BY <3>1 DEF Met
    <3>4. d \in DOMAIN w.visited /\ w.visited[d] = <<>>
      BY <3>1, <3>2
    <3>5. \A x, y \in DOMAIN w.visited : w.visited[x] = w.visited[y] => x = y
      BY <3>1, <3>2
    <3>6. DOMAIN w.text = {w.visited[x] : x \in DOMAIN w.visited}
      BY <3>1, <3>2
    <3>7. \A p \in DOMAIN w.text :
             \/ p = <<>>
             \/ \E q \in DOMAIN w.text : \E j \in DOMAIN w.text[q].children : p = Append(q, j)
      BY <3>1, <3>3
    <3> QED  BY <3>4, <3>5, <3>6, <3>7 DEF Met
  <2>2. Faithful(w, h, None)
    BY <1>1, <1>4 DEF Faithful
  <2> QED  BY <2>1, <2>2
<1>10. \A k \in DOMAIN w.open : k \in DOMAIN s.open /\ w.open[k] = s.open[k]
  BY <1>5, <1>6
<1>11. OpenOnce(w, h)
  <2>1. \A k \in DOMAIN w.open :
           /\ w.open[k].d \in DOMAIN w.visited /\ w.open[k].path = w.visited[w.open[k].d]
           /\ w.open[k].i = Len(w.text[w.open[k].path].children) + 1
    BY <1>1, <1>4, <1>10 DEF OpenOnce
  <2>2. \A k, l \in DOMAIN w.open : w.open[k].d = w.open[l].d => k = l
    BY <1>1, <1>10 DEF OpenOnce
  <2>3. ASSUME NEW x \in DOMAIN w.visited
        PROVE  \/ \E k \in DOMAIN w.open : w.open[k].d = x
               \/ Len(w.text[w.visited[x]].children) = Len(h[x].children)
    <3>1. CASE x = f.d
      BY <1>4, <1>7, <3>1
    <3>2. CASE x # f.d
      <4>1. \/ \E k \in DOMAIN s.open : s.open[k].d = x
            \/ Len(s.text[s.visited[x]].children) = Len(h[x].children)
        BY <1>1, <1>4 DEF OpenOnce
      <4>2. ASSUME NEW k \in DOMAIN s.open, s.open[k].d = x
            PROVE  k \in DOMAIN w.open /\ w.open[k].d = x
        <5>1. k # n
          BY <1>2, <3>2, <4>2
        <5> QED  BY <1>5, <1>6, <4>2, <5>1
      <4> QED  BY <1>4, <4>1, <4>2
    <3> QED  BY <3>1, <3>2
  <2> QED  BY <2>1, <2>2, <2>3 DEF OpenOnce
<1> QED  BY <1>4, <1>7, <1>8, <1>9, <1>11 DEF WInv

-----------------------------------------------------------------------------
(***************************************************************************)
(* Writing ends: every step does one more piece of the work.               *)
(***************************************************************************)
\* The child j of x is written, or, behind the last child, x is closed.
IsDone(s, h, x, j) ==
    /\ x \in DOMAIN s.visited
    /\ \/ j <= Len(s.text[s.visited[x]].children)
       \/ j = Len(h[x].children) + 1 /\ \A k \in DOMAIN s.open : s.open[k].d # x
Done(s, h) == {w \in Work(h) : IsDone(s, h, w[1], w[2])}

LEMMA WorkIs ==
    ASSUME NEW h \in Seq(Node)
    PROVE  /\ IsFiniteSet(Work(h))
           /\ \A w \in Work(h) : /\ w = <<w[1], w[2]>> /\ w[1] \in DOMAIN h
                                 /\ w[2] \in 1 .. Len(h[w[1]].children) + 1
           /\ \A x \in DOMAIN h : \A j \in 1 .. Len(h[x].children) + 1 :
                 <<x, j>> \in Work(h) /\ <<x, j>>[1] = x /\ <<x, j>>[2] = j
<1> DEFINE P(x) == {x} \X (1 .. Len(h[x].children) + 1)
           S == {P(x) : x \in DOMAIN h}
           F == [x \in DOMAIN h |-> P(x)]
<1>1. Work(h) = UNION S
  BY DEF Work
<1>2. \A x \in DOMAIN h : IsFiniteSet(P(x))
  <2> SUFFICES ASSUME NEW x \in DOMAIN h PROVE IsFiniteSet(P(x))
    OBVIOUS
  <2>1. IsFiniteSet({x})
    BY FS_Singleton
  <2>2. Len(h[x].children) + 1 \in Int
    BY NodeIs
  <2>3. IsFiniteSet(1 .. Len(h[x].children) + 1)
    BY <2>2, FS_Interval
  <2> QED  BY <2>1, <2>3, FS_Product
<1>3. IsFiniteSet(DOMAIN h)
  <2>1. DOMAIN h = 1 .. Len(h) /\ Len(h) \in Nat
    OBVIOUS
  <2> QED  BY <2>1, FS_Interval
<1>4. \A w : w \in UNION S <=> \E x \in DOMAIN h : w \in P(x)
  OBVIOUS
<1>5. \A x : \A w \in P(x) : w = <<w[1], w[2]>> /\ w[1] = x /\ w[2] \in 1 .. Len(h[x].children) + 1
  OBVIOUS
<1>6. \A x \in DOMAIN h : \A j \in 1 .. Len(h[x].children) + 1 :
         <<x, j>> \in P(x) /\ <<x, j>>[1] = x /\ <<x, j>>[2] = j
  OBVIOUS
<1> HIDE DEF P
<1>7. F \in Surjection(DOMAIN h, S)
  BY DEF Surjection
<1> HIDE DEF F
<1>8. IsFiniteSet(S) /\ \A T \in S : IsFiniteSet(T)
  BY <1>2, <1>3, <1>7, FS_Surjection
<1> HIDE DEF S
<1>9. IsFiniteSet(Work(h))
  BY <1>1, <1>8, FS_UNION
<1>10. \A w \in Work(h) : \E x \in DOMAIN h : w \in P(x)
  BY <1>1, <1>4
<1>11. \A x \in DOMAIN h : P(x) \subseteq Work(h)
  BY <1>1, <1>4
<1>12. \A w \in Work(h) : /\ w = <<w[1], w[2]>> /\ w[1] \in DOMAIN h
                          /\ w[2] \in 1 .. Len(h[w[1]].children) + 1
  BY <1>5, <1>10
<1>13. \A x \in DOMAIN h : \A j \in 1 .. Len(h[x].children) + 1 :
          <<x, j>> \in Work(h) /\ <<x, j>>[1] = x /\ <<x, j>>[2] = j
  BY <1>6, <1>11
<1> QED  BY <1>9, <1>12, <1>13

LEMMA DoneWrote ==
    ASSUME NEW h \in Seq(Node), NEW d, NEW s, WInv(s, h, d, None), s.open # <<>>,
           NEW m \in Members, NEW f, f = Last(s.open), f.i <= Len(h[f.d].children),
           NEW w, w = Wrote(s, f.path, m)
    PROVE  /\ ~IsDone(s, h, f.d, f.i)
           /\ \A x \in DOMAIN h : \A j \in Nat :
                 IsDone(w, h, x, j) <=> IsDone(s, h, x, j) \/ (x = f.d /\ j = f.i)
<1> DEFINE cs == s.text[f.path].children
           n == Len(s.open)
<1>1. /\ f = s.open[n] /\ n \in DOMAIN s.open
      /\ f.d \in DOMAIN s.visited /\ f.path = s.visited[f.d] /\ f.path \in DOMAIN s.text
      /\ f.i = Len(cs) + 1 /\ f.d \in DOMAIN h
  <2>1. /\ f = s.open[Len(s.open)] /\ Len(s.open) \in DOMAIN s.open
        /\ f.d \in DOMAIN s.visited /\ f.path = s.visited[f.d] /\ f.path \in DOMAIN s.text
        /\ f.i = Len(s.text[f.path].children) + 1 /\ f.d \in DOMAIN h
    BY TopFrame
  <2> QED  BY <2>1
<1>2. Longer(w, s, h, f, m)
  BY WroteIs
<1>3. /\ w.visited = s.visited /\ DOMAIN w.open = DOMAIN s.open
      /\ \A k \in DOMAIN s.open : w.open[k].d = s.open[k].d
      /\ \A p \in DOMAIN s.text : p # f.path => w.text[p] = s.text[p]
      /\ w.text[f.path].children = Append(cs, m)
  BY <1>1, <1>2 DEF Longer
<1>4. cs \in Seq(Members) /\ Len(cs) \in Nat
  BY <1>1, WTypes
<1>5. Met(s, d) /\ \A x \in DOMAIN s.visited : s.visited[x] \in DOMAIN s.text
  BY WTypes
<1>6. Len(h[f.d].children) \in Nat
  BY <1>1, NodeIs
<1> HIDE DEF cs, n
<1>7. Len(w.text[f.path].children) = Len(cs) + 1
  BY <1>3, <1>4
<1>8. ~IsDone(s, h, f.d, f.i)
  <2>1. ~(f.i <= Len(cs)) /\ ~(f.i = Len(h[f.d].children) + 1)
    BY <1>1, <1>4, <1>6
  <2> QED  BY <1>1, <2>1 DEF IsDone, cs
<1>9. ASSUME NEW x \in DOMAIN h, NEW j \in Nat
      PROVE  IsDone(w, h, x, j) <=> IsDone(s, h, x, j) \/ (x = f.d /\ j = f.i)
  <2>1. CASE x = f.d
    <3>1. IsDone(w, h, x, j) <=> j <= Len(w.text[f.path].children)
      BY <1>1, <1>3, <2>1 DEF IsDone
    <3>2. IsDone(s, h, x, j) <=> j <= Len(cs)
      BY <1>1, <2>1 DEF IsDone, cs
    <3> DEFINE l == Len(cs)
               i == f.i
    <3>3. l \in Nat /\ i = l + 1
      BY <1>1, <1>4 DEF cs
    <3>4. IsDone(w, h, x, j) <=> j <= l + 1
      BY <1>7, <3>1
    <3> HIDE DEF l, i
    <3>5. j <= l + 1 <=> j <= l \/ j = i
      BY <3>3
    <3> QED  BY <2>1, <3>2, <3>4, <3>5 DEF l, i
  <2>2. CASE x # f.d
    <3>1. CASE x \in DOMAIN s.visited
      <4>1. s.visited[x] # f.path
        BY <1>1, <1>5, <2>2, <3>1 DEF Met
      <4>2. w.text[w.visited[x]] = s.text[s.visited[x]]
        BY <1>3, <1>5, <3>1, <4>1
      <4>3. (\A k \in DOMAIN w.open : w.open[k].d # x) <=> (\A k \in DOMAIN s.open : s.open[k].d # x)
        BY <1>3
      <4> QED  BY <1>3, <2>2, <4>2, <4>3 DEF IsDone
    <3>2. CASE x \notin DOMAIN s.visited
      BY <1>3, <2>2, <3>2 DEF IsDone
    <3> QED  BY <3>1, <3>2
  <2> QED  BY <2>1, <2>2
<1> QED  BY <1>8, <1>9

LEMMA DoneOpened ==
    ASSUME NEW h \in Seq(Node), NEW d, NEW w, NEW but, WInv(w, h, d, but),
           NEW c \in DOMAIN h, c \notin DOMAIN w.visited,
           NEW np, NEW z, Wider(z, w, h, c, np)
    PROVE  \A x \in DOMAIN h : \A j \in Nat \ {0} : IsDone(z, h, x, j) <=> IsDone(w, h, x, j)
<1> DEFINE n == Len(w.open) + 1
           g == [d |-> c, path |-> np, i |-> 1]
<1>1. /\ DOMAIN z.visited = DOMAIN w.visited \cup {c}
      /\ \A x \in DOMAIN w.visited : z.visited[x] = w.visited[x]
      /\ z.visited[c] = np
      /\ \A p \in DOMAIN w.text : z.text[p] = w.text[p]
  BY DEF Wider
<1>2. z.text[np].children = <<>> /\ z.open = Append(w.open, g)
  BY DEF Wider
<1>3. w.open \in Seq(Opens(h)) /\ \A x \in DOMAIN w.visited : w.visited[x] \in DOMAIN w.text
  BY WTypes
<1>4. g.d = c
  OBVIOUS
<1> HIDE DEF g
<1>5. /\ DOMAIN z.open = DOMAIN w.open \cup {n} /\ z.open[n] = g
      /\ \A k \in DOMAIN w.open : z.open[k] = w.open[k]
  <2>1. /\ Len(z.open) = Len(w.open) + 1 /\ z.open[Len(w.open) + 1] = g
        /\ \A k \in 1 .. Len(w.open) : z.open[k] = w.open[k]
        /\ DOMAIN z.open = 1 .. Len(w.open) + 1
    BY <1>2, <1>3
  <2>2. Len(w.open) \in Nat /\ DOMAIN w.open = 1 .. Len(w.open)
    BY <1>3
  <2> QED  BY <2>1, <2>2
<1> HIDE DEF n
<1>6. Len(z.text[np].children) = 0
  BY <1>2, EmptySeq
<1> SUFFICES ASSUME NEW x \in DOMAIN h, NEW j \in Nat \ {0}
             PROVE  IsDone(z, h, x, j) <=> IsDone(w, h, x, j)
  OBVIOUS
<1>7. CASE x = c
  <2>1. ~(j <= Len(z.text[np].children))
    BY <1>6
  <2>2. n \in DOMAIN z.open /\ z.open[n].d = c
    BY <1>4, <1>5
  <2>3. ~IsDone(z, h, x, j)
    BY <1>1, <1>7, <2>1, <2>2 DEF IsDone
  <2>4. ~IsDone(w, h, x, j)
    BY <1>7 DEF IsDone
  <2> QED  BY <2>3, <2>4
<1>8. CASE x # c /\ x \in DOMAIN w.visited
  <2>1. z.text[z.visited[x]] = w.text[w.visited[x]] /\ x \in DOMAIN z.visited
    BY <1>1, <1>3, <1>8
  <2>2. (\A k \in DOMAIN z.open : z.open[k].d # x) <=> (\A k \in DOMAIN w.open : w.open[k].d # x)
    BY <1>4, <1>5, <1>8
  <2> QED  BY <1>8, <2>1, <2>2 DEF IsDone
<1>9. CASE x # c /\ x \notin DOMAIN w.visited
  BY <1>1, <1>9 DEF IsDone
<1> QED  BY <1>7, <1>8, <1>9

LEMMA DoneClosed ==
    ASSUME NEW h \in Seq(Node), NEW d, NEW s, WInv(s, h, d, None), s.open # <<>>,
           NEW f, f = Last(s.open), f.i > Len(h[f.d].children),
           NEW w, w = [s EXCEPT !.open = Front(s.open)]
    PROVE  LET e == Len(h[f.d].children) + 1 IN
           /\ ~IsDone(s, h, f.d, e)
           /\ \A x \in DOMAIN h : \A j \in Nat :
                 IsDone(w, h, x, j) <=> IsDone(s, h, x, j) \/ (x = f.d /\ j = e)
<1> DEFINE n == Len(s.open)
           e == Len(h[f.d].children) + 1
<1>1. /\ f = s.open[n] /\ n \in DOMAIN s.open /\ f.d \in DOMAIN s.visited /\ f.d \in DOMAIN h
  <2>1. /\ f = s.open[Len(s.open)] /\ Len(s.open) \in DOMAIN s.open
        /\ f.d \in DOMAIN s.visited /\ f.d \in DOMAIN h
    BY TopFrame
  <2> QED  BY <2>1
<1>2. /\ w.visited = s.visited /\ w.text = s.text /\ w.open = Front(s.open)
      /\ Len(s.text[s.visited[f.d]].children) = Len(h[f.d].children)
  BY CloseKeeps
<1>3. s.open \in Seq(Opens(h)) /\ OpenOnce(s, h)
  BY WTypes
<1>4. w.open \in Seq(Opens(h)) /\ Len(w.open) = n - 1 /\ \A k \in 1 .. n - 1 : w.open[k] = s.open[k]
  BY <1>2, <1>3, FrontIs
<1>5. n \in Nat \ {0} /\ DOMAIN s.open = 1 .. n /\ DOMAIN w.open = 1 .. n - 1
  BY <1>1, <1>3, <1>4
<1>6. Len(h[f.d].children) \in Nat
  BY <1>1, NodeIs
<1> HIDE DEF n
<1>7. \A k \in DOMAIN w.open : k \in DOMAIN s.open /\ k # n /\ w.open[k] = s.open[k]
  BY <1>4, <1>5
<1>8. \A k \in DOMAIN s.open : k # n => k \in DOMAIN w.open /\ w.open[k] = s.open[k]
  BY <1>4, <1>5
<1>9. ~(e <= Len(s.text[s.visited[f.d]].children))
  BY <1>2, <1>6
<1>10. \A k \in DOMAIN w.open : w.open[k].d # f.d
  BY <1>1, <1>3, <1>7 DEF OpenOnce
<1> HIDE DEF e
<1>11. ~IsDone(s, h, f.d, e)
  BY <1>1, <1>9 DEF IsDone
<1>12. ASSUME NEW x \in DOMAIN h, NEW j \in Nat
       PROVE  IsDone(w, h, x, j) <=> IsDone(s, h, x, j) \/ (x = f.d /\ j = e)
  <2>1. CASE x = f.d
    <3>1. IsDone(w, h, x, j) <=> j <= Len(s.text[s.visited[x]].children) \/ j = e
      BY <1>1, <1>2, <1>10, <2>1 DEF IsDone, e
    <3>2. IsDone(s, h, x, j) <=> j <= Len(s.text[s.visited[x]].children)
      BY <1>1, <2>1 DEF IsDone
    <3> QED  BY <2>1, <3>1, <3>2
  <2>2. CASE x # f.d
    <3>1. (\A k \in DOMAIN w.open : w.open[k].d # x) <=> (\A k \in DOMAIN s.open : s.open[k].d # x)
      BY <1>1, <1>7, <1>8, <2>2
    <3> QED  BY <1>2, <2>2, <3>1 DEF IsDone
  <2> QED  BY <2>1, <2>2
<1> QED  BY <1>11, <1>12 DEF e

\* What one more piece of work means to the set of all.
Adds(t, s, h, x, e) ==
    /\ ~IsDone(s, h, x, e)
    /\ \A y \in DOMAIN h : \A j \in Nat \ {0} :
          IsDone(t, h, y, j) <=> IsDone(s, h, y, j) \/ (y = x /\ j = e)

LEMMA OneMore ==
    ASSUME NEW h \in Seq(Node), NEW s, NEW t, NEW x \in DOMAIN h,
           NEW e \in 1 .. Len(h[x].children) + 1, Adds(t, s, h, x, e)
    PROVE  \E w \in Work(h) \ Done(s, h) : Done(t, h) = Done(s, h) \cup {w}
<1> DEFINE w == <<x, e>>
<1>1. w \in Work(h) /\ w[1] = x /\ w[2] = e
  BY WorkIs
<1>2. \A v \in Work(h) : v = <<v[1], v[2]>> /\ v[1] \in DOMAIN h /\ v[2] \in Nat \ {0}
  <2>1. \A v \in Work(h) : /\ v = <<v[1], v[2]>> /\ v[1] \in DOMAIN h
                           /\ v[2] \in 1 .. Len(h[v[1]].children) + 1
    BY WorkIs
  <2>2. \A y \in DOMAIN h : Len(h[y].children) \in Nat
    BY NodeIs
  <2> QED  BY <2>1, <2>2
<1>3. w \notin Done(s, h)
  BY <1>1 DEF Done, Adds
<1>4. ASSUME NEW v \in Work(h) PROVE v \in Done(t, h) <=> v \in Done(s, h) \/ v = w
  <2>1. v = <<v[1], v[2]>> /\ v[1] \in DOMAIN h /\ v[2] \in Nat \ {0}
    BY <1>2
  <2>2. IsDone(t, h, v[1], v[2]) <=> IsDone(s, h, v[1], v[2]) \/ (v[1] = x /\ v[2] = e)
    BY <2>1 DEF Adds
  <2>3. v = w <=> v[1] = x /\ v[2] = e
    BY <1>1, <2>1
  <2> HIDE DEF w
  <2> QED  BY <2>2, <2>3 DEF Done
<1> HIDE DEF w
<1>5. Done(t, h) \subseteq Work(h) /\ Done(s, h) \subseteq Work(h)
  BY DEF Done
<1>6. Done(t, h) = Done(s, h) \cup {w}
  BY <1>1, <1>4, <1>5
<1> QED  BY <1>1, <1>3, <1>6

LEMMA ChildIs ==
    ASSUME NEW h \in Seq(Node), Closed(h), NEW x \in DOMAIN h, NEW i \in DOMAIN h[x].children
    PROVE  LET c == h[x].children[i] IN
           /\ c \in Child /\ c.name \in Names /\ c.id \in Ids /\ c.desc \in Nat
           /\ c.desc # Nil => c.desc \in DOMAIN h
<1>1. h[x].children[i] \in Child
  BY NodeIs
<1>2. h[x].children[i].desc \in 0 .. Len(h)
  BY DEF Closed
<1> QED  BY <1>1, <1>2 DEF Child, Nil

\* A step of marshalWithPath.
LEMMA StepKeeps ==
    ASSUME NEW h \in Seq(Node), Closed(h), NEW d, NEW s, WInv(s, h, d, None),
           NEW t, t = MarshalStep(s, h)
    PROVE  /\ WInv(t, h, d, None)
           /\ s.open = <<>> => t = s
           /\ s.open # <<>> => \E w \in Work(h) \ Done(s, h) : Done(t, h) = Done(s, h) \cup {w}
<1>1. CASE s.open = <<>>
  BY <1>1 DEF MarshalStep
<1>2. CASE s.open # <<>>
  <2> DEFINE f == Last(s.open)
  <2>1. /\ f.d \in DOMAIN h /\ f.i \in Nat \ {0} /\ f.path \in Path
        /\ f.d \in DOMAIN s.visited /\ f.path = s.visited[f.d]
    BY <1>2, TopFrame
  <2>2. Len(h[f.d].children) \in Nat /\ DOMAIN h[f.d].children = 1 .. Len(h[f.d].children)
    BY <2>1, NodeIs
  <2>3. CASE f.i > Len(h[f.d].children)
    <3>1. t = [s EXCEPT !.open = Front(s.open)]
      BY <1>2, <2>3 DEF MarshalStep
    <3>2. WInv(t, h, d, None)
      <4> HIDE DEF f
      <4> QED  BY <1>2, <2>3, <3>1, CloseKeeps DEF f
    <3> DEFINE e == Len(h[f.d].children) + 1
    <3>3. /\ ~IsDone(s, h, f.d, e)
          /\ \A x \in DOMAIN h : \A j \in Nat :
                IsDone(t, h, x, j) <=> IsDone(s, h, x, j) \/ (x = f.d /\ j = e)
      BY <1>2, <2>3, <3>1, DoneClosed
    <3>6. Adds(t, s, h, f.d, e)
      BY <3>3 DEF Adds
    <3>4. e \in 1 .. Len(h[f.d].children) + 1
      BY <2>2
    <3> HIDE DEF e, f
    <3>5. \E w \in Work(h) \ Done(s, h) : Done(t, h) = Done(s, h) \cup {w}
      BY <2>1, <3>4, <3>6, OneMore
    <3> QED  BY <1>2, <3>2, <3>5
  <2>4. CASE ~(f.i > Len(h[f.d].children))
    <3> DEFINE c == h[f.d].children[f.i]
    <3>1. t = MarshalChild(s, h, f, c)
      BY <1>2, <2>4 DEF MarshalStep
    <3>2. f.i <= Len(h[f.d].children) /\ f.i \in DOMAIN h[f.d].children
          /\ f.i \in 1 .. Len(h[f.d].children) + 1
      <4> HIDE DEF f
      <4> QED  BY <2>1, <2>2, <2>4
    <3>3. c.name \in Names /\ c.id \in Ids /\ (c.desc # Nil => c.desc \in DOMAIN h)
      BY <2>1, <3>2, ChildIs
    <3> HIDE DEF c, f
    <3>4. ASSUME ~IsDone(s, h, f.d, f.i),
                 \A x \in DOMAIN h : \A j \in Nat \ {0} :
                    IsDone(t, h, x, j) <=> IsDone(s, h, x, j) \/ (x = f.d /\ j = f.i)
          PROVE  \E w \in Work(h) \ Done(s, h) : Done(t, h) = Done(s, h) \cup {w}
      <4>1. Adds(t, s, h, f.d, f.i)
        BY <3>4 DEF Adds
      <4> QED  BY <2>1, <3>2, <4>1, OneMore
    <3>5. ASSUME NEW m \in Members, NEW w, w = Wrote(s, f.path, m)
          PROVE  /\ WInv(w, h, d, <<f.d, f.i>>) /\ w.visited = s.visited
                 /\ Append(f.path, f.i) \notin DOMAIN w.text
                 /\ f.path \in DOMAIN w.text /\ f.i \in DOMAIN w.text[f.path].children
                 /\ w.text[f.path].children[f.i] = m
                 /\ ~IsDone(s, h, f.d, f.i)
                 /\ \A x \in DOMAIN h : \A j \in Nat :
                       IsDone(w, h, x, j) <=> IsDone(s, h, x, j) \/ (x = f.d /\ j = f.i)
      <4>1. f = Last(s.open)
        BY DEF f
      <4>2. /\ WInv(w, h, d, <<f.d, f.i>>) /\ w.visited = s.visited
            /\ Append(f.path, f.i) \notin DOMAIN w.text
            /\ f.path \in DOMAIN w.text /\ f.i \in DOMAIN w.text[f.path].children
            /\ w.text[f.path].children[f.i] = m
        BY <1>2, <3>2, <3>5, <4>1, WroteKeeps
      <4>3. /\ ~IsDone(s, h, f.d, f.i)
            /\ \A x \in DOMAIN h : \A j \in Nat :
                  IsDone(w, h, x, j) <=> IsDone(s, h, x, j) \/ (x = f.d /\ j = f.i)
        BY <1>2, <3>2, <3>5, <4>1, DoneWrote
      <4> QED  BY <4>2, <4>3
    <3>6. ASSUME NEW m \in Members, NEW v, NEW u, WInv(u, h, d, <<f.d, f.i>>), v = u.visited,
                 f.path = v[f.d], f.d \in DOMAIN v,
                 u.text[f.path].children[f.i] = m, Tells(v, f.path, f.i, m, c)
          PROVE  WInv(u, h, d, None)
      <4>1. /\ u \in [open : Seq(Opens(h)), visited : Visits(h), text : Texts]
            /\ Met(u, d) /\ Faithful(u, h, <<f.d, f.i>>) /\ OpenOnce(u, h)
        BY <3>6 DEF WInv
      <4>2. \A x \in DOMAIN u.visited : LET o == u.text[u.visited[x]] IN
               /\ o.kind = h[x].kind /\ o.type = h[x].type
               /\ Len(o.children) <= Len(h[x].children)
        BY <4>1 DEF Faithful
      <4>3. ASSUME NEW x \in DOMAIN u.visited, NEW j \in DOMAIN u.text[u.visited[x]].children
            PROVE  Tells(u.visited, u.visited[x], j, u.text[u.visited[x]].children[j], h[x].children[j])
        <5>1. CASE <<x, j>> = <<f.d, f.i>>
          <6>1. x = f.d /\ j = f.i
            BY <5>1
          <6> QED  BY <3>6, <6>1 DEF c
        <5>2. CASE <<x, j>> # <<f.d, f.i>>
          BY <4>1, <5>2 DEF Faithful
        <5> QED  BY <5>1, <5>2
      <4>4. Faithful(u, h, None)
        BY <4>2, <4>3 DEF Faithful
      <4> QED  BY <4>1, <4>4 DEF WInv
    <3>7. CASE c.desc = Nil
      <4> DEFINE m == Member(c, "nil", <<>>)
      <4>1. m \in Members /\ Tells(s.visited, f.path, f.i, m, c)
        BY <3>3, <3>7 DEF Member, Members, Path, Tells
      <4>2. t = Wrote(s, f.path, m)
        BY <3>1, <3>7 DEF MarshalChild
      <4> HIDE DEF m
      <4>3. WInv(t, h, d, None)
        BY <2>1, <3>5, <3>6, <4>1, <4>2
      <4>4. \E w \in Work(h) \ Done(s, h) : Done(t, h) = Done(s, h) \cup {w}
        BY <3>4, <3>5, <4>1, <4>2
      <4> QED  BY <1>2, <4>3, <4>4
    <3>8. CASE c.desc # Nil /\ c.desc \in DOMAIN s.visited
      <4> DEFINE m == Member(c, "ref", s.visited[c.desc])
      <4>0. s.visited[c.desc] \in Path
        BY <3>8, WTypes
      <4>1. m \in Members /\ Tells(s.visited, f.path, f.i, m, c)
        BY <3>3, <3>8, <4>0 DEF Member, Members, Tells
      <4>2. t = Wrote(s, f.path, m)
        BY <3>1, <3>8 DEF MarshalChild
      <4> HIDE DEF m
      <4>3. WInv(t, h, d, None)
        BY <2>1, <3>5, <3>6, <4>1, <4>2
      <4>4. \E w \in Work(h) \ Done(s, h) : Done(t, h) = Done(s, h) \cup {w}
        BY <3>4, <3>5, <4>1, <4>2
      <4> QED  BY <1>2, <4>3, <4>4
    <3>9. CASE c.desc # Nil /\ c.desc \notin DOMAIN s.visited
      <4> DEFINE m == Member(c, "desc", <<>>)
                 w == Wrote(s, f.path, m)
                 np == Append(f.path, f.i)
      <4>0. c.desc \in DOMAIN h
        BY <3>3, <3>9
      <4>1. m \in Members /\ m.how = "desc" /\ m.name = c.name /\ m.id = c.id
        BY <3>3 DEF Member, Members, Path
      <4>2. t = Opened(w, h, c.desc, np)
        BY <3>1, <3>9 DEF MarshalChild
      <4> HIDE DEF m
      <4>3. /\ WInv(w, h, d, <<f.d, f.i>>) /\ w.visited = s.visited
            /\ np \notin DOMAIN w.text
            /\ f.path \in DOMAIN w.text /\ f.i \in DOMAIN w.text[f.path].children
            /\ w.text[f.path].children[f.i] = m
            /\ ~IsDone(s, h, f.d, f.i)
            /\ \A x \in DOMAIN h : \A j \in Nat :
                  IsDone(w, h, x, j) <=> IsDone(s, h, x, j) \/ (x = f.d /\ j = f.i)
        BY <3>5, <4>1
      <4>4. np = Append(f.path, f.i)
        OBVIOUS
      <4> HIDE DEF w, np
      <4>5. WInv(t, h, d, <<f.d, f.i>>) /\ Wider(t, w, h, c.desc, np)
        BY <3>9, <4>0, <4>2, <4>3, <4>4, OpenedKeeps
      <4>6. /\ DOMAIN t.visited = DOMAIN s.visited \cup {c.desc} /\ t.visited[c.desc] = np
            /\ \A x \in DOMAIN s.visited : t.visited[x] = s.visited[x]
            /\ \A p \in DOMAIN w.text : t.text[p] = w.text[p]
        BY <4>3, <4>5 DEF Wider
      <4>7. Tells(t.visited, f.path, f.i, m, c)
        BY <4>1, <4>4, <4>6 DEF Tells
      <4>8. f.path = t.visited[f.d] /\ f.d \in DOMAIN t.visited
            /\ t.text[f.path].children[f.i] = m
        BY <2>1, <4>3, <4>6
      <4>9. WInv(t, h, d, None)
        BY <3>6, <4>1, <4>5, <4>7, <4>8
      <4>10. \A x \in DOMAIN h : \A j \in Nat \ {0} : IsDone(t, h, x, j) <=> IsDone(w, h, x, j)
        BY <3>9, <4>0, <4>3, <4>5, DoneOpened
      <4>11. \A x \in DOMAIN h : \A j \in Nat \ {0} :
                IsDone(t, h, x, j) <=> IsDone(s, h, x, j) \/ (x = f.d /\ j = f.i)
        BY <4>3, <4>10
      <4>12. \E u \in Work(h) \ Done(s, h) : Done(t, h) = Done(s, h) \cup {u}
        BY <3>4, <4>1, <4>3, <4>11
      <4> QED  BY <1>2, <4>9, <4>12
    <3> QED  BY <3>7, <3>8, <3>9
  <2> QED  BY <2>3, <2>4
<1> QED  BY <1>1, <1>2

\* A set of naturals has a least one.
LEMMA LeastOne ==
    ASSUME NEW S \in SUBSET Nat, S # {}
    PROVE  \E i \in S : \A j \in S : i <= j
<1> DEFINE R == {ss \in Nat \X Nat : ss[1] < ss[2]}
<1>1. IsWellFoundedOn(R, Nat)
  BY NatLessThanWellFounded DEF OpToRel
<1>2. PICK i \in S : \A j \in S : <<j, i>> \notin R
  <2> HIDE DEF R
  <2> QED  BY <1>1, WFMin
<1>3. \A j \in S : ~(j < i)
  BY <1>2
<1> QED  BY <1>2, <1>3

\* The states of marshalWithPath up to the n-th.
IsRun(f, n, h, d) == f = [k \in 0 .. n |-> IF k = 0 THEN Start(h, d) ELSE MarshalStep(f[k - 1], h)]

LEMMA RunExists ==
    ASSUME NEW h, NEW d, NEW n \in Nat
    PROVE  \E f : IsRun(f, n, h, d)
<1> DEFINE S == {k \in Nat : ~\E f : IsRun(f, k, h, d)}
<1> SUFFICES ASSUME S # {} PROVE FALSE
  OBVIOUS
<1>1. PICK k \in S : \A j \in S : k <= j
  BY LeastOne
<1>2. CASE k = 0
  <2> DEFINE f == [i \in 0 .. 0 |-> Start(h, d)]
  <2>1. \A i \in 0 .. 0 : i = 0
    OBVIOUS
  <2>2. f = [i \in 0 .. 0 |-> IF i = 0 THEN Start(h, d) ELSE MarshalStep(f[i - 1], h)]
    BY <2>1
  <2>3. IsRun(f, 0, h, d)
    BY <2>2 DEF IsRun
  <2> QED  BY <1>1, <1>2, <2>3
<1>3. CASE k # 0
  <2>1. k \in Nat /\ k - 1 \in Nat /\ k - 1 \notin S
    BY <1>1, <1>3
  <2>2. PICK f : IsRun(f, k - 1, h, d)
    BY <2>1
  <2>3. f = [i \in 0 .. k - 1 |-> IF i = 0 THEN Start(h, d) ELSE MarshalStep(f[i - 1], h)]
    BY <2>2 DEF IsRun
  <2>a. \A i \in 0 .. k - 1 : f[i] = IF i = 0 THEN Start(h, d) ELSE MarshalStep(f[i - 1], h)
    BY <2>3
  <2> DEFINE g == [i \in 0 .. k |-> IF i <= k - 1 THEN f[i] ELSE MarshalStep(f[k - 1], h)]
  <2>4. \A i \in 0 .. k : i <= k - 1 => g[i] = f[i]
    OBVIOUS
  <2>5. ASSUME NEW i \in 0 .. k
        PROVE  g[i] = IF i = 0 THEN Start(h, d) ELSE MarshalStep(g[i - 1], h)
    <3>1. CASE i <= k - 1
      <4>1. i \in 0 .. k - 1 /\ g[i] = f[i]
        BY <2>1, <2>4, <3>1
      <4>2. i # 0 => i - 1 \in 0 .. k /\ i - 1 <= k - 1
        BY <2>1, <3>1
      <4>3. i # 0 => g[i - 1] = f[i - 1]
        BY <2>4, <4>2
      <4> HIDE DEF g
      <4> QED  BY <2>a, <4>1, <4>3
    <3>2. CASE ~(i <= k - 1)
      <4>1. i = k /\ i # 0 /\ i - 1 \in 0 .. k /\ i - 1 <= k - 1
        BY <2>1, <3>2
      <4>2. g[i] = MarshalStep(f[k - 1], h)
        BY <3>2
      <4>3. g[i - 1] = f[k - 1]
        BY <2>4, <4>1
      <4> HIDE DEF g
      <4> QED  BY <4>1, <4>2, <4>3
    <3> QED  BY <3>1, <3>2
  <2>6. g = [i \in 0 .. k |-> g[i]]
    OBVIOUS
  <2> HIDE DEF g
  <2>7. g = [i \in 0 .. k |-> IF i = 0 THEN Start(h, d) ELSE MarshalStep(g[i - 1], h)]
    BY <2>5, <2>6
  <2>8. IsRun(g, k, h, d)
    BY <2>7 DEF IsRun
  <2> QED  BY <1>1, <2>8
<1> QED  BY <1>2, <1>3

LEMMA StepsIs ==
    ASSUME NEW h \in Seq(Node)
    PROVE  Steps(h) \in Nat
BY WorkIs, FS_CardinalityType DEF Steps

LEMMA RunIs ==
    ASSUME NEW h \in Seq(Node), NEW d
    PROVE  LET r == Marshalling(h, d) IN
           /\ r[0] = Start(h, d)
           /\ \A k \in 0 .. Steps(h) : k # 0 => r[k] = MarshalStep(r[k - 1], h)
<1> DEFINE r == Marshalling(h, d)
           n == Steps(h)
<1>1. n \in Nat
  BY StepsIs
<1>2. \E f : IsRun(f, n, h, d)
  BY <1>1, RunExists
<1>3. r = CHOOSE f : IsRun(f, n, h, d)
  BY DEF Marshalling, IsRun
<1> HIDE DEF r, n
<1>4. IsRun(r, n, h, d)
  BY <1>2, <1>3
<1>5. r = [k \in 0 .. n |-> IF k = 0 THEN Start(h, d) ELSE MarshalStep(r[k - 1], h)]
  BY <1>4 DEF IsRun
<1>6. \A k \in 0 .. n : r[k] = IF k = 0 THEN Start(h, d) ELSE MarshalStep(r[k - 1], h)
  BY <1>5
<1>7. 0 \in 0 .. n
  BY <1>1
<1> QED  BY <1>6, <1>7 DEF r, n

\* After k steps the text is finished, or k pieces of the work are done.
LEMMA RunHolds ==
    ASSUME NEW h \in Seq(Node), Closed(h), NEW d \in DOMAIN h, NEW k \in 0 .. Steps(h)
    PROVE  LET s == Marshalling(h, d)[k] IN
           /\ WInv(s, h, d, None)
           /\ s.open = <<>> \/ Cardinality(Done(s, h)) = k
<1> DEFINE r == Marshalling(h, d)
           n == Steps(h)
           P(i) == /\ WInv(r[i], h, d, None)
                   /\ r[i].open = <<>> \/ Cardinality(Done(r[i], h)) = i
           S == {i \in 0 .. n : ~P(i)}
<1>1. n \in Nat
  BY StepsIs
<1>2. r[0] = Start(h, d) /\ \A i \in 0 .. n : i # 0 => r[i] = MarshalStep(r[i - 1], h)
  BY RunIs
<1> HIDE DEF r, n
<1>3. P(0)
  <2>1. WInv(r[0], h, d, None)
    BY <1>2, StartHolds
  <2>2. Done(r[0], h) = {}
    <3> DEFINE s == Start(h, d)
    <3>1. s.open = <<[d |-> d, path |-> <<>>, i |-> 1]>>
      BY DEF Start, Opened
    <3>2. 1 \in DOMAIN s.open /\ s.open[1].d = d
      BY <3>1
    <3>3. DOMAIN s.visited = {d} /\ s.visited[d] = <<>>
      <4>1. s.visited = Put(<<>>, d, <<>>)
        BY DEF Start, Opened
      <4> QED  BY <4>1, EmptyMap DEF Put
    <3>4. s.text[<<>>].children = <<>>
      <4>1. s.text = Put(<<>>, <<>>, NodeOf(h[d].kind, h[d].type, <<>>))
        BY DEF Start, Opened
      <4>2. s.text[<<>>] = NodeOf(h[d].kind, h[d].type, <<>>)
        BY <4>1 DEF Put
      <4> QED  BY <4>2 DEF NodeOf
    <3> HIDE DEF s
    <3>5. \A x : \A j \in Nat \ {0} : ~IsDone(s, h, x, j)
      <4>1. Len(s.text[<<>>].children) = 0
        BY <3>4, EmptySeq
      <4> QED  BY <3>2, <3>3, <4>1 DEF IsDone
    <3>6. \A w \in Work(h) : w[2] \in Nat \ {0}
      <4>1. \A w \in Work(h) : w[1] \in DOMAIN h /\ w[2] \in 1 .. Len(h[w[1]].children) + 1
        BY WorkIs
      <4>2. \A x \in DOMAIN h : Len(h[x].children) \in Nat
        BY NodeIs
      <4> QED  BY <4>1, <4>2
    <3> QED  BY <1>2, <3>5, <3>6 DEF Done, s
  <2> QED  BY <2>1, <2>2, FS_EmptySet
<1>4. ASSUME NEW i \in 0 .. n, i # 0, P(i - 1) PROVE P(i)
  <2> DEFINE s == r[i - 1]
             t == r[i]
  <2>1. t = MarshalStep(s, h)
    BY <1>2, <1>4
  <2>2. WInv(s, h, d, None) /\ (s.open = <<>> \/ Cardinality(Done(s, h)) = i - 1)
    BY <1>4
  <2> HIDE DEF s, t
  <2>3. /\ WInv(t, h, d, None)
        /\ s.open = <<>> => t = s
        /\ s.open # <<>> => \E w \in Work(h) \ Done(s, h) : Done(t, h) = Done(s, h) \cup {w}
    BY <2>1, <2>2, StepKeeps
  <2>4. t.open = <<>> \/ Cardinality(Done(t, h)) = i
    <3>1. CASE s.open = <<>>
      BY <2>3, <3>1
    <3>2. CASE s.open # <<>>
      <4>1. PICK w \in Work(h) \ Done(s, h) : Done(t, h) = Done(s, h) \cup {w}
        BY <2>3, <3>2
      <4>2. IsFiniteSet(Done(s, h))
        BY WorkIs, FS_Subset DEF Done
      <4>3. Cardinality(Done(t, h)) = Cardinality(Done(s, h)) + 1
        BY <4>1, <4>2, FS_AddElement
      <4>4. Cardinality(Done(s, h)) = i - 1 /\ i \in Int
        BY <2>2, <3>2
      <4> QED  BY <4>3, <4>4
    <3> QED  BY <3>1, <3>2
  <2> QED  BY <2>3, <2>4 DEF t
<1> HIDE DEF P
<1>5. SUFFICES ASSUME S # {} PROVE FALSE
  <2>1. P(k) => /\ WInv(r[k], h, d, None)
                /\ r[k].open = <<>> \/ Cardinality(Done(r[k], h)) = k
    BY DEF P
  <2>2. k \in 0 .. n
    BY DEF n
  <2> QED  BY <2>1, <2>2 DEF r
<1>6. PICK i \in S : \A j \in S : i <= j
  <2>1. S \in SUBSET Nat
    BY <1>1
  <2> HIDE DEF S
  <2> QED  BY <1>5, <2>1, LeastOne
<1>7. i \in 0 .. n /\ ~P(i) /\ i # 0
  BY <1>3, <1>6
<1>8. i - 1 \in 0 .. n /\ ~(i <= i - 1)
  BY <1>1, <1>7
<1>9. P(i - 1)
  BY <1>6, <1>8
<1> QED  BY <1>4, <1>7, <1>9

\* What a finished text says.
Whole(s, h, d) ==
    /\ Met(s, d)
    /\ s.visited \in Visits(h) /\ s.text \in Texts
    /\ \A x \in DOMAIN s.visited : LET o == s.text[s.visited[x]] IN
          /\ o.kind = h[x].kind /\ o.type = h[x].type
          /\ DOMAIN o.children = DOMAIN h[x].children
          /\ \A j \in DOMAIN o.children :
                Tells(s.visited, s.visited[x], j, o.children[j], h[x].children[j])

LEMMA WritingEnds ==
    ASSUME NEW h \in Seq(Node), Closed(h), NEW d \in DOMAIN h
    PROVE  Whole(Marshalling(h, d)[Steps(h)], h, d)
<1> DEFINE s == Marshalling(h, d)[Steps(h)]
<1>1. Steps(h) \in Nat /\ Steps(h) \in 0 .. Steps(h)
  BY StepsIs
<1>2. WInv(s, h, d, None) /\ (s.open = <<>> \/ Cardinality(Done(s, h)) = Steps(h))
  BY <1>1, RunHolds
<1> HIDE DEF s
<1>3. /\ s.open \in Seq(Opens(h)) /\ s.visited \in Visits(h) /\ s.text \in Texts
      /\ Met(s, d) /\ Faithful(s, h, None) /\ OpenOnce(s, h)
      /\ \A x \in DOMAIN s.visited : s.visited[x] \in DOMAIN s.text /\ x \in DOMAIN h
      /\ \A p \in DOMAIN s.text : /\ Len(s.text[p].children) \in Nat
                                  /\ DOMAIN s.text[p].children = 1 .. Len(s.text[p].children)
  BY <1>2, WTypes
<1>4. s.open = <<>>
  <2> SUFFICES ASSUME s.open # <<>> PROVE FALSE
    OBVIOUS
  <2>1. Done(s, h) = Work(h)
    <3>1. IsFiniteSet(Work(h)) /\ Done(s, h) \in SUBSET Work(h)
      BY WorkIs DEF Done
    <3> QED  BY <1>2, <3>1, FS_Subset DEF Steps
  <2> DEFINE f == Last(s.open)
             e == Len(h[f.d].children) + 1
  <2>2. /\ f = s.open[Len(s.open)] /\ Len(s.open) \in DOMAIN s.open
        /\ f.d \in DOMAIN s.visited /\ f.d \in DOMAIN h
    BY <1>2, TopFrame
  <2> HIDE DEF f
  <2>3. Len(h[f.d].children) \in Nat /\ e \in 1 .. e
    BY <2>2, NodeIs
  <2>4. <<f.d, e>> \in Work(h) /\ <<f.d, e>>[1] = f.d /\ <<f.d, e>>[2] = e
    BY <2>2, <2>3, WorkIs
  <2>5. IsDone(s, h, f.d, e)
    BY <2>1, <2>4 DEF Done
  <2>6. Len(s.text[s.visited[f.d]].children) <= Len(h[f.d].children)
        /\ Len(s.text[s.visited[f.d]].children) \in Nat
    BY <1>3, <2>2 DEF Faithful
  <2>7. ~(e <= Len(s.text[s.visited[f.d]].children))
    <3> DEFINE a == Len(s.text[s.visited[f.d]].children)
               b == Len(h[f.d].children)
    <3>1. a <= b /\ a \in Nat /\ b \in Nat
      BY <2>3, <2>6
    <3> HIDE DEF a, b
    <3>2. ~(b + 1 <= a)
      BY <3>1
    <3> QED  BY <3>2 DEF a, b
  <2> QED  BY <2>2, <2>5, <2>7 DEF IsDone
<1>5. DOMAIN s.open = {}
  BY <1>4, EmptyMap
<1>6. ASSUME NEW x \in DOMAIN s.visited
      PROVE  LET o == s.text[s.visited[x]] IN
             /\ o.kind = h[x].kind /\ o.type = h[x].type
             /\ DOMAIN o.children = DOMAIN h[x].children
             /\ \A j \in DOMAIN o.children :
                   Tells(s.visited, s.visited[x], j, o.children[j], h[x].children[j])
  <2> DEFINE o == s.text[s.visited[x]]
  <2>1. /\ o.kind = h[x].kind /\ o.type = h[x].type
        /\ \A j \in DOMAIN o.children : <<x, j>> # None =>
              Tells(s.visited, s.visited[x], j, o.children[j], h[x].children[j])
    BY <1>3 DEF Faithful
  <2>2. Len(o.children) = Len(h[x].children)
    BY <1>3, <1>5 DEF OpenOnce
  <2>3. DOMAIN o.children = 1 .. Len(o.children) /\ DOMAIN h[x].children = 1 .. Len(h[x].children)
        /\ x # 0
    BY <1>3, NodeIs
  <2>4. \A j : <<x, j>> # None
    BY <2>3 DEF None
  <2> HIDE DEF o
  <2>5. DOMAIN o.children = DOMAIN h[x].children
    BY <2>2, <2>3
  <2> QED  BY <2>1, <2>4, <2>5 DEF o
<1> QED  BY <1>3, <1>6 DEF Whole, s

-----------------------------------------------------------------------------
(***************************************************************************)
(* Reading a text.                                                         *)
(***************************************************************************)
LEMMA FinitePaths ==
    ASSUME NEW h \in Seq(Node), NEW d, NEW s, Whole(s, h, d)
    PROVE  IsFiniteSet(DOMAIN s.text)
<1> DEFINE V == DOMAIN s.visited
           P == DOMAIN s.text
           F == [x \in V |-> s.visited[x]]
<1>1. V \in SUBSET DOMAIN h /\ P = {s.visited[x] : x \in V}
  BY DEF Whole, Met, Visits
<1>2. DOMAIN h = 1 .. Len(h) /\ Len(h) \in Nat
  OBVIOUS
<1>3. IsFiniteSet(DOMAIN h)
  BY <1>2, FS_Interval
<1>4. IsFiniteSet(V)
  <2> HIDE DEF V
  <2> QED  BY <1>1, <1>3, FS_Subset
<1>5. F \in Surjection(V, P)
  <2> HIDE DEF V, P
  <2> QED  BY <1>1 DEF Surjection
<1> HIDE DEF V, F, P
<1>6. IsFiniteSet(P)
  BY <1>4, <1>5, FS_Surjection
<1> QED  BY <1>6 DEF P

\* The new descriptors: one for each path but the root's.
LEMMA AllocatedIs ==
    ASSUME NEW text, IsFiniteSet(DOMAIN text)
    PROVE  LET a == Allocated(text)
               S == DOMAIN text \ {<<>>} IN
           /\ Len(a) \in Nat /\ DOMAIN a = 1 .. Len(a) /\ a \in [1 .. Len(a) -> S]
           /\ \A p \in S : \E k \in DOMAIN a : a[k] = p
           /\ \A k, l \in DOMAIN a : a[k] = a[l] => k = l
<1> DEFINE a == Allocated(text)
           S == DOMAIN text \ {<<>>}
           n == Cardinality(S)
<1>1. IsFiniteSet(S)
  BY FS_Subset
<1> HIDE DEF S
<1>2. n \in Nat /\ ExistsBijection(1 .. n, S)
  BY <1>1, FS_CardinalityType
<1>3. \E f \in [1 .. n -> S] : IsInjective(f)
  BY <1>2 DEF ExistsBijection, Bijection, Injection
<1>4. a = CHOOSE f \in [1 .. n -> S] : IsInjective(f)
  BY DEF Allocated, SetToSeq, S
<1> HIDE DEF a, n
<1>5. a \in [1 .. n -> S] /\ IsInjective(a)
  BY <1>3, <1>4
<1>6. Len(a) = n /\ DOMAIN a = 1 .. n
  <2>1. a \in Seq(S)
    BY <1>2, <1>5
  <2> QED  BY <1>2, <1>5, <2>1
<1>7. a \in Surjection(1 .. n, S)
  <2>1. a \in Injection(1 .. n, S)
    BY <1>5 DEF Injection
  <2>2. IsFiniteSet(1 .. n) /\ Cardinality(1 .. n) = n
    BY <1>2, FS_Interval
  <2> QED  BY <1>1, <2>1, <2>2, FS_Injection DEF n
<1>8. \A p \in S : \E k \in DOMAIN a : a[k] = p
  BY <1>6, <1>7 DEF Surjection
<1>9. \A k, l \in DOMAIN a : a[k] = a[l] => k = l
  BY <1>5 DEF IsInjective
<1> QED  BY <1>2, <1>5, <1>6, <1>8, <1>9 DEF a, S

\* The root is read into t, and each other path has a new descriptor of its own.
LEMMA PlaceIs ==
    ASSUME NEW text, IsFiniteSet(DOMAIN text), NEW g \in Seq(Node), NEW t \in DOMAIN g
    PROVE  LET a == Allocated(text) IN
           /\ Place(text, g, t, <<>>) = t
           /\ \A p \in DOMAIN text : Place(text, g, t, p) \in 1 .. Len(g) + Len(a)
           /\ \A p \in DOMAIN text \ {<<>>} : Place(text, g, t, p) > Len(g)
           /\ \A p, q \in DOMAIN text : Place(text, g, t, p) = Place(text, g, t, q) => p = q
           /\ \A k \in DOMAIN a : a[k] \in DOMAIN text \ {<<>>} /\ Place(text, g, t, a[k]) = Len(g) + k
<1> DEFINE a == Allocated(text)
           S == DOMAIN text \ {<<>>}
           K(p) == CHOOSE k \in DOMAIN a : a[k] = p
           P(p) == Place(text, g, t, p)
<1>1. /\ Len(a) \in Nat /\ DOMAIN a = 1 .. Len(a) /\ a \in [1 .. Len(a) -> S]
      /\ \A p \in S : \E k \in DOMAIN a : a[k] = p
      /\ \A k, l \in DOMAIN a : a[k] = a[l] => k = l
  BY AllocatedIs
<1>2. Len(g) \in Nat /\ t \in 1 .. Len(g)
  OBVIOUS
<1>3. P(<<>>) = t
  BY DEF Place
<1>4. \A p \in S : P(p) = Len(g) + K(p)
  BY DEF Place
<1> HIDE DEF P, a
<1>5. \A p \in S : K(p) \in DOMAIN a /\ a[K(p)] = p
  BY <1>1
<1>6. \A k \in DOMAIN a : a[k] \in S
  BY <1>1
<1> HIDE DEF S, K
<1>7. \A k \in DOMAIN a : K(a[k]) = k
  BY <1>1, <1>5, <1>6
<1>8. \A p \in S : K(p) \in Nat /\ 1 <= K(p) /\ K(p) <= Len(a)
  BY <1>1, <1>5
<1>9. \A p \in S : P(p) \in 1 .. Len(g) + Len(a) /\ P(p) > Len(g)
  BY <1>1, <1>2, <1>4, <1>8
<1>10. t \in 1 .. Len(g) + Len(a) /\ ~(t > Len(g))
  BY <1>1, <1>2
<1>11. \A p \in DOMAIN text : p = <<>> \/ p \in S
  BY DEF S
<1>12. \A p, q \in S : P(p) = P(q) => p = q
  <2> SUFFICES ASSUME NEW p \in S, NEW q \in S, P(p) = P(q) PROVE p = q
    OBVIOUS
  <2>1. K(p) = K(q)
    BY <1>2, <1>4, <1>8
  <2> QED  BY <1>5, <2>1
<1>13. \A p, q \in DOMAIN text : P(p) = P(q) => p = q
  BY <1>3, <1>9, <1>10, <1>11, <1>12
<1>14. \A p \in DOMAIN text : P(p) \in 1 .. Len(g) + Len(a)
  BY <1>3, <1>9, <1>10, <1>11
<1>15. \A k \in DOMAIN a : a[k] \in S /\ P(a[k]) = Len(g) + k
  BY <1>4, <1>6, <1>7
<1> QED  BY <1>3, <1>9, <1>13, <1>14, <1>15 DEF P, a, S

\* Where the child i of x is read.
ReadAt(s, h, g, t, x, i) ==
    IF h[x].children[i].desc = Nil THEN Nil ELSE Place(s.text, g, t, s.visited[h[x].children[i].desc])

\* x, with its children at the places where they are read.
ReadOf(s, h, g, t, x) ==
    NodeOf(h[x].kind, h[x].type,
           [i \in DOMAIN h[x].children |->
               [name |-> h[x].children[i].name, id |-> h[x].children[i].id,
                desc |-> ReadAt(s, h, g, t, x, i)]])

\* resolveRefs finds the descriptor that was written, in its place or elsewhere.
LEMMA TargetIs ==
    ASSUME NEW h \in Seq(Node), NEW d, NEW s, Whole(s, h, d), NEW g, NEW t,
           NEW x \in DOMAIN s.visited, NEW i \in DOMAIN h[x].children
    PROVE  LET c == h[x].children[i]
               m == s.text[s.visited[x]].children[i] IN
           /\ m.name = c.name /\ m.id = c.id
           /\ c.desc # Nil => c.desc \in DOMAIN s.visited
           /\ Target(s.text, g, t, s.visited[x], i) = ReadAt(s, h, g, t, x, i)
<1> DEFINE c == h[x].children[i]
           path == s.visited[x]
           m == s.text[path].children[i]
<1>1. Tells(s.visited, path, i, m, c)
  BY DEF Whole
<1>2. Nil \notin DOMAIN s.visited
  <2>1. DOMAIN s.visited \subseteq DOMAIN h
    BY DEF Whole, Visits
  <2>2. 0 \notin DOMAIN h
    OBVIOUS
  <2> QED  BY <2>1, <2>2 DEF Nil
<1>3. Target(s.text, g, t, path, i) =
         CASE m.how = "nil"  -> Nil
           [] m.how = "desc" -> Place(s.text, g, t, Append(path, i))
           [] m.how = "ref"  -> Place(s.text, g, t, m.ref)
  BY DEF Target
<1> HIDE DEF c, path, m
<1>4. CASE m.how = "nil" /\ c.desc = Nil
  BY <1>1, <1>3, <1>4 DEF Tells, ReadAt, c, path, m
<1>5. CASE m.how = "ref" /\ c.desc \in DOMAIN s.visited /\ m.ref = s.visited[c.desc]
  <2>1. Target(s.text, g, t, path, i) = Place(s.text, g, t, s.visited[c.desc])
    BY <1>3, <1>5
  <2> QED  BY <1>1, <1>2, <1>5, <2>1 DEF Tells, ReadAt, c, path, m
<1>6. CASE m.how = "desc" /\ c.desc \in DOMAIN s.visited /\ s.visited[c.desc] = Append(path, i)
  <2>1. Target(s.text, g, t, path, i) = Place(s.text, g, t, s.visited[c.desc])
    BY <1>3, <1>6
  <2> QED  BY <1>1, <1>2, <1>6, <2>1 DEF Tells, ReadAt, c, path, m
<1> QED  BY <1>1, <1>4, <1>5, <1>6 DEF Tells

LEMMA ObjectIs ==
    ASSUME NEW h \in Seq(Node), NEW d, NEW s, Whole(s, h, d), NEW g, NEW t,
           NEW x \in DOMAIN s.visited
    PROVE  Object(s.text, g, t, s.visited[x]) = ReadOf(s, h, g, t, x)
<1> DEFINE path == s.visited[x]
           T(i) == Target(s.text, g, t, path, i)
           A == [i \in DOMAIN s.text[path].children |->
                   [name |-> s.text[path].children[i].name, id |-> s.text[path].children[i].id,
                    desc |-> T(i)]]
           U(i) == ReadAt(s, h, g, t, x, i)
           B == [i \in DOMAIN h[x].children |->
                   [name |-> h[x].children[i].name, id |-> h[x].children[i].id, desc |-> U(i)]]
<1>1. /\ s.text[path].kind = h[x].kind /\ s.text[path].type = h[x].type
      /\ DOMAIN s.text[path].children = DOMAIN h[x].children
  BY DEF Whole
<1>2. \A i \in DOMAIN h[x].children :
         /\ s.text[path].children[i].name = h[x].children[i].name
         /\ s.text[path].children[i].id = h[x].children[i].id
         /\ T(i) = U(i)
  <2> SUFFICES ASSUME NEW i \in DOMAIN h[x].children
               PROVE  /\ s.text[path].children[i].name = h[x].children[i].name
                      /\ s.text[path].children[i].id = h[x].children[i].id
                      /\ T(i) = U(i)
    OBVIOUS
  <2>1. /\ s.text[s.visited[x]].children[i].name = h[x].children[i].name
        /\ s.text[s.visited[x]].children[i].id = h[x].children[i].id
    BY TargetIs
  <2>2. Target(s.text, g, t, s.visited[x], i) = ReadAt(s, h, g, t, x, i)
    BY TargetIs
  <2> QED  BY <2>1, <2>2
<1>3. Object(s.text, g, t, path) = NodeOf(s.text[path].kind, s.text[path].type, A)
  BY DEF Object, Read
<1>4. ReadOf(s, h, g, t, x) = NodeOf(h[x].kind, h[x].type, B)
  BY DEF ReadOf
<1> HIDE DEF T, U, path
<1>5. A = B
  BY <1>1, <1>2
<1> HIDE DEF A, B
<1> QED  BY <1>1, <1>3, <1>4, <1>5 DEF path

LEMMA ReadOfIs ==
    ASSUME NEW h \in Seq(Node), NEW d, NEW s, Whole(s, h, d),
           NEW g \in Seq(Node), NEW t \in DOMAIN g, NEW x \in DOMAIN s.visited
    PROVE  LET n == Len(g) + Len(Allocated(s.text))
               o == ReadOf(s, h, g, t, x) IN
           /\ o \in Node
           /\ \A i \in DOMAIN o.children : o.children[i].desc \in 0 .. n
           /\ o.kind = h[x].kind /\ o.type = h[x].type
           /\ o.children = [i \in DOMAIN h[x].children |->
                  [h[x].children[i] EXCEPT !.desc = ReadAt(s, h, g, t, x, i)]]
<1> DEFINE n == Len(g) + Len(Allocated(s.text))
           U(i) == ReadAt(s, h, g, t, x, i)
           B == [i \in DOMAIN h[x].children |->
                   [name |-> h[x].children[i].name, id |-> h[x].children[i].id, desc |-> U(i)]]
           o == ReadOf(s, h, g, t, x)
<1>1. IsFiniteSet(DOMAIN s.text)
  BY FinitePaths
<1>2. x \in DOMAIN h /\ \A y \in DOMAIN s.visited : s.visited[y] \in DOMAIN s.text
  BY DEF Whole, Visits, Met
<1>3. \A p \in DOMAIN s.text : Place(s.text, g, t, p) \in 1 .. n
  BY <1>1, PlaceIs
<1>4. n \in Nat
  <2>1. Len(Allocated(s.text)) \in Nat
    BY <1>1, AllocatedIs
  <2>2. Len(g) \in Nat
    OBVIOUS
  <2> QED  BY <2>1, <2>2
<1>5. /\ h[x].kind \in Kinds /\ h[x].type \in Types /\ Len(h[x].children) \in Nat
      /\ DOMAIN h[x].children = 1 .. Len(h[x].children)
      /\ \A i \in DOMAIN h[x].children : h[x].children[i] \in Child
  BY <1>2, NodeIs
<1> HIDE DEF n
<1>6. \A i \in DOMAIN h[x].children : U(i) \in 0 .. n
  <2> SUFFICES ASSUME NEW i \in DOMAIN h[x].children PROVE U(i) \in 0 .. n
    OBVIOUS
  <2>1. h[x].children[i].desc # Nil => h[x].children[i].desc \in DOMAIN s.visited
    BY TargetIs
  <2>2. CASE h[x].children[i].desc = Nil
    BY <1>4, <2>2 DEF Nil, ReadAt
  <2>3. CASE h[x].children[i].desc # Nil
    <3>1. U(i) \in 1 .. n
      BY <1>2, <1>3, <2>1, <2>3 DEF ReadAt
    <3> HIDE DEF U
    <3> QED  BY <1>4, <3>1
  <2> QED  BY <2>2, <2>3
<1>7. o = NodeOf(h[x].kind, h[x].type, B)
  BY DEF ReadOf
<1>8. B = [i \in DOMAIN h[x].children |->
              [h[x].children[i] EXCEPT !.desc = U(i)]]
  <2>1. \A i \in DOMAIN h[x].children :
           [name |-> h[x].children[i].name, id |-> h[x].children[i].id, desc |-> U(i)]
              = [h[x].children[i] EXCEPT !.desc = U(i)]
    <3> SUFFICES ASSUME NEW i \in DOMAIN h[x].children
                 PROVE  [name |-> h[x].children[i].name, id |-> h[x].children[i].id, desc |-> U(i)]
                           = [h[x].children[i] EXCEPT !.desc = U(i)]
      OBVIOUS
    <3> DEFINE c == h[x].children[i]
               u == U(i)
    <3>1. c \in Child
      BY <1>5
    <3> HIDE DEF c, u
    <3>2. [name |-> c.name, id |-> c.id, desc |-> u] = [c EXCEPT !.desc = u]
      BY <3>1 DEF Child
    <3> QED  BY <3>2 DEF c, u
  <2> QED  BY <2>1
<1>9. \A i \in DOMAIN h[x].children :
         [name |-> h[x].children[i].name, id |-> h[x].children[i].id, desc |-> U(i)] \in Child
  BY <1>4, <1>5, <1>6 DEF Child
<1> DEFINE C == [i \in DOMAIN h[x].children |->
                    [h[x].children[i] EXCEPT !.desc = ReadAt(s, h, g, t, x, i)]]
<1>a. B = C
  BY <1>8
<1>10. B \in [1 .. Len(h[x].children) -> Child]
  <2> HIDE DEF U
  <2> QED  BY <1>5, <1>9
<1>11. DOMAIN B = DOMAIN h[x].children /\ \A i \in DOMAIN B : B[i].desc \in 0 .. n
  <2> HIDE DEF U
  <2> QED  BY <1>6
<1> HIDE DEF U, B, o, C
<1>12. B \in Seq(Child)
  BY <1>5, <1>10
<1>13. o \in Node /\ o.kind = h[x].kind /\ o.type = h[x].type /\ o.children = B
  BY <1>5, <1>7, <1>12 DEF NodeOf, Node
<1>14. /\ \A i \in DOMAIN o.children : o.children[i].desc \in 0 .. n
       /\ o.children = C
  BY <1>11, <1>13, <1>a
<1> QED  BY <1>13, <1>14 DEF o, C, n

\* What is read, read into t of g.
LEMMA ReadingIs ==
    ASSUME NEW h \in Seq(Node), NEW d, NEW s, Whole(s, h, d),
           NEW g \in Seq(Node), NEW t \in DOMAIN g, NEW r, r = UnmarshalJSON(s.text, g, t)
    PROVE  LET n == Len(g) + Len(Allocated(s.text)) IN
           /\ r \in Seq(Node) /\ Len(r) = n /\ Len(g) <= n /\ n \in Nat
           /\ \A e \in DOMAIN g \ {t} : r[e] = g[e]
           /\ \A x \in DOMAIN s.visited : r[Place(s.text, g, t, s.visited[x])] = ReadOf(s, h, g, t, x)
           /\ \A e \in DOMAIN r : \/ e \in DOMAIN g \ {t}
                                  \/ \E x \in DOMAIN s.visited : r[e] = ReadOf(s, h, g, t, x)
<1> DEFINE a == Allocated(s.text)
           n == Len(g) + Len(a)
           root == Object(s.text, g, t, <<>>)
           u == [g EXCEPT ![t] = root]
           v == [k \in DOMAIN a |-> Object(s.text, g, t, a[k])]
<1>1. IsFiniteSet(DOMAIN s.text)
  BY FinitePaths
<1>2. /\ Len(a) \in Nat /\ DOMAIN a = 1 .. Len(a)
      /\ \A p \in DOMAIN s.text \ {<<>>} : \E k \in DOMAIN a : a[k] = p
  BY <1>1, AllocatedIs
<1>3. /\ Place(s.text, g, t, <<>>) = t
      /\ \A k \in DOMAIN a : a[k] \in DOMAIN s.text \ {<<>>} /\ Place(s.text, g, t, a[k]) = Len(g) + k
  BY <1>1, PlaceIs
<1>4. /\ d \in DOMAIN s.visited /\ s.visited[d] = <<>>
      /\ \A p \in DOMAIN s.text : \E x \in DOMAIN s.visited : p = s.visited[x]
      /\ \A x \in DOMAIN s.visited : s.visited[x] \in DOMAIN s.text
  BY DEF Whole, Met
<1>5. \A x \in DOMAIN s.visited : Object(s.text, g, t, s.visited[x]) = ReadOf(s, h, g, t, x)
  BY ObjectIs
<1>6. \A x \in DOMAIN s.visited : ReadOf(s, h, g, t, x) \in Node
  BY ReadOfIs
<1>7. r = u \o v
  BY DEF UnmarshalJSON
<1>8. root = ReadOf(s, h, g, t, d) /\ root \in Node
  BY <1>4, <1>5, <1>6
<1>9. \A k \in DOMAIN a : v[k] = Object(s.text, g, t, a[k]) /\ v[k] \in Node
                          /\ \E x \in DOMAIN s.visited : a[k] = s.visited[x] /\ v[k] = ReadOf(s, h, g, t, x)
  <2> SUFFICES ASSUME NEW k \in DOMAIN a
               PROVE  /\ v[k] = Object(s.text, g, t, a[k]) /\ v[k] \in Node
                      /\ \E x \in DOMAIN s.visited : a[k] = s.visited[x] /\ v[k] = ReadOf(s, h, g, t, x)
    OBVIOUS
  <2>1. v[k] = Object(s.text, g, t, a[k])
    OBVIOUS
  <2> HIDE DEF v, a
  <2>2. PICK x \in DOMAIN s.visited : a[k] = s.visited[x]
    BY <1>3, <1>4
  <2> QED  BY <1>5, <1>6, <2>1, <2>2
<1>10. DOMAIN v = 1 .. Len(a)
  BY <1>2
<1>a. v = [k \in 1 .. Len(a) |-> v[k]]
  BY <1>2
<1> HIDE DEF v, a, root
<1>11. v \in Seq(Node) /\ Len(v) = Len(a)
  <2>1. v \in [1 .. Len(a) -> Node]
    BY <1>2, <1>9, <1>a
  <2>2. v \in Seq(Node)
    BY <1>2, <2>1
  <2> QED  BY <1>2, <1>10, <2>2
<1>12. /\ u \in Seq(Node) /\ Len(u) = Len(g) /\ u[t] = root
       /\ \A e \in DOMAIN g \ {t} : u[e] = g[e]
  <2>1. t \in 1 .. Len(g) /\ DOMAIN g = 1 .. Len(g)
    OBVIOUS
  <2> QED  BY <1>8, <2>1, ExceptSeq
<1> HIDE DEF u
<1>13. /\ r \in Seq(Node) /\ Len(r) = n
       /\ \A i \in 1 .. n : r[i] = IF i <= Len(g) THEN u[i] ELSE v[i - Len(g)]
  <2>1. /\ u \o v \in Seq(Node) /\ Len(u \o v) = Len(u) + Len(v)
        /\ \A i \in 1 .. Len(u) + Len(v) : (u \o v)[i] = IF i <= Len(u) THEN u[i] ELSE v[i - Len(u)]
    <3>1. u \in Seq(Node) /\ v \in Seq(Node)
      BY <1>11, <1>12
    <3> QED  BY <3>1, ConcatProperties
  <2>2. Len(u) = Len(g) /\ Len(v) = Len(a)
    BY <1>11, <1>12
  <2> QED  BY <1>7, <2>1, <2>2
<1>14. Len(g) \in Nat /\ DOMAIN g = 1 .. Len(g) /\ n \in Nat /\ Len(g) <= n /\ DOMAIN r = 1 .. n
  <2>1. Len(g) \in Nat /\ DOMAIN g = 1 .. Len(g)
    OBVIOUS
  <2>2. n \in Nat /\ Len(g) <= n
    BY <1>2, <2>1
  <2> HIDE DEF n
  <2> QED  BY <1>13, <2>1, <2>2
<1>15. \A e \in DOMAIN g : r[e] = u[e]
  BY <1>13, <1>14
<1>16. \A k \in DOMAIN a : r[Len(g) + k] = v[k]
  <2> SUFFICES ASSUME NEW k \in DOMAIN a PROVE r[Len(g) + k] = v[k]
    OBVIOUS
  <2>1. k \in Nat /\ 1 <= k /\ k <= Len(a)
    BY <1>2
  <2>2. Len(g) + k \in 1 .. n /\ ~(Len(g) + k <= Len(g)) /\ (Len(g) + k) - Len(g) = k
    BY <1>2, <1>14, <2>1
  <2> QED  BY <1>13, <2>2
<1>17. ASSUME NEW x \in DOMAIN s.visited
       PROVE  r[Place(s.text, g, t, s.visited[x])] = ReadOf(s, h, g, t, x)
  <2>1. CASE s.visited[x] = <<>>
    BY <1>3, <1>5, <1>12, <1>15, <2>1 DEF root
  <2>2. CASE s.visited[x] # <<>>
    <3>1. PICK k \in DOMAIN a : a[k] = s.visited[x]
      BY <1>2, <1>4, <2>2
    <3>2. Place(s.text, g, t, s.visited[x]) = Len(g) + k
      BY <1>3, <3>1
    <3>3. v[k] = Object(s.text, g, t, s.visited[x])
      BY <1>9, <3>1
    <3> QED  BY <1>5, <1>16, <3>2, <3>3
  <2> QED  BY <2>1, <2>2
<1>18. ASSUME NEW e \in DOMAIN r
       PROVE  e \in DOMAIN g \ {t} \/ \E x \in DOMAIN s.visited : r[e] = ReadOf(s, h, g, t, x)
  <2>1. CASE e \in DOMAIN g /\ e = t
    BY <1>4, <1>8, <1>12, <1>15, <2>1
  <2>2. CASE e \notin DOMAIN g
    <3>1. e - Len(g) \in DOMAIN a /\ Len(g) + (e - Len(g)) = e
      BY <1>2, <1>14, <2>2
    <3> DEFINE k == e - Len(g)
    <3>2. r[e] = v[k]
      BY <1>16, <3>1
    <3> QED  BY <1>9, <3>1, <3>2
  <2> QED  BY <2>1, <2>2
<1>19. \A e \in DOMAIN g \ {t} : r[e] = g[e]
  BY <1>12, <1>15
<1> QED  BY <1>13, <1>14, <1>17, <1>18, <1>19 DEF a

-----------------------------------------------------------------------------
(***************************************************************************)
(* The same graph.                                                         *)
(***************************************************************************)
LEMMA ReachIs ==
    ASSUME NEW h \in Seq(Node), Closed(h), NEW d \in DOMAIN h
    PROVE  /\ d \in Reach(h, d) /\ Reach(h, d) \subseteq DOMAIN h
           /\ \A x \in Reach(h, d) : ChildrenOf(h, x) \subseteq Reach(h, d)
<1>1. d \in Reach(h, d) /\ Reach(h, d) \subseteq DOMAIN h
  BY DEF Reach
<1>2. ASSUME NEW x \in Reach(h, d), NEW c \in ChildrenOf(h, x)
      PROVE  c \in Reach(h, d)
  <2>1. x \in DOMAIN h
    BY <1>1
  <2>2. c \in DOMAIN h
    <3>1. PICK i \in DOMAIN h[x].children : c = h[x].children[i].desc /\ c # Nil
      BY <1>2 DEF ChildrenOf
    <3> QED  BY <2>1, <3>1, ChildIs
  <2>3. ASSUME NEW S \in SUBSET DOMAIN h, d \in S, WithChildren(h, S)
        PROVE  c \in S
    <3>1. x \in S
      BY <2>3 DEF Reach
    <3> QED  BY <2>3, <3>1 DEF WithChildren
  <2> QED  BY <2>2, <2>3 DEF Reach
<1> QED  BY <1>1, <1>2

LEMMA ReadBack ==
    ASSUME NEW h \in Seq(Node), Closed(h), NEW d \in DOMAIN h,
           NEW g \in Seq(Node), NEW t \in DOMAIN g,
           NEW r, r = UnmarshalJSON(MarshalJSON(h, d), g, t)
    PROVE  SameGraph(h, d, r, t)
<1> DEFINE s == Marshalling(h, d)[Steps(h)]
           V == DOMAIN s.visited
           R == Reach(h, d)
           At2(x) == Place(s.text, g, t, s.visited[x])
           n == Len(g) + Len(Allocated(s.text))
           f == [x \in R |-> At2(x)]
<1>1. Whole(s, h, d) /\ r = UnmarshalJSON(s.text, g, t)
  BY WritingEnds DEF MarshalJSON
<1> HIDE DEF s
<1>2. /\ Len(r) = n /\ n \in Nat /\ r \in Seq(Node)
      /\ \A x \in V : r[At2(x)] = ReadOf(s, h, g, t, x)
  BY <1>1, ReadingIs
<1>3. /\ V \in SUBSET DOMAIN h /\ d \in V /\ s.visited[d] = <<>>
      /\ \A x \in V : s.visited[x] \in DOMAIN s.text
      /\ \A x, y \in V : s.visited[x] = s.visited[y] => x = y
  <2>1. V \in SUBSET DOMAIN h
    BY <1>1 DEF Whole, Visits
  <2> QED  BY <1>1, <2>1 DEF Whole, Met
<1>4. IsFiniteSet(DOMAIN s.text)
  BY <1>1, FinitePaths
<1>5. /\ Place(s.text, g, t, <<>>) = t
      /\ \A p \in DOMAIN s.text : Place(s.text, g, t, p) \in 1 .. n
      /\ \A p, q \in DOMAIN s.text : Place(s.text, g, t, p) = Place(s.text, g, t, q) => p = q
  BY <1>4, PlaceIs
<1>6. At2(d) = t /\ (\A x \in V : At2(x) \in 1 .. n) /\ \A x, y \in V : At2(x) = At2(y) => x = y
  BY <1>3, <1>5
<1>7. \A x \in V : \A i \in DOMAIN h[x].children :
         h[x].children[i].desc # Nil => h[x].children[i].desc \in V
  BY <1>1, TargetIs
<1>8. \A x \in V : LET o == r[At2(x)] IN
         /\ o.kind = h[x].kind /\ o.type = h[x].type
         /\ o.children = [i \in DOMAIN h[x].children |->
                [h[x].children[i] EXCEPT !.desc = ReadAt(s, h, g, t, x, i)]]
  <2> SUFFICES ASSUME NEW x \in V
               PROVE  LET o == r[At2(x)] IN
                      /\ o.kind = h[x].kind /\ o.type = h[x].type
                      /\ o.children = [i \in DOMAIN h[x].children |->
                             [h[x].children[i] EXCEPT !.desc = ReadAt(s, h, g, t, x, i)]]
    OBVIOUS
  <2> DEFINE o == ReadOf(s, h, g, t, x)
  <2>1. r[At2(x)] = o
    BY <1>2
  <2> HIDE DEF At2
  <2>2. /\ o.kind = h[x].kind /\ o.type = h[x].type
        /\ o.children = [i \in DOMAIN h[x].children |->
               [h[x].children[i] EXCEPT !.desc = ReadAt(s, h, g, t, x, i)]]
    BY <1>1, ReadOfIs
  <2> QED  BY <2>1, <2>2
<1>b. \A x \in V : \A i \in DOMAIN h[x].children :
         ReadAt(s, h, g, t, x, i) = IF h[x].children[i].desc = Nil THEN Nil ELSE At2(h[x].children[i].desc)
  BY DEF ReadAt
<1>9. /\ d \in R /\ R \subseteq DOMAIN h
      /\ \A x \in R : ChildrenOf(h, x) \subseteq R
  BY ReachIs
<1>10. R \subseteq V
  <2>1. WithChildren(h, V)
    BY <1>7 DEF WithChildren, ChildrenOf
  <2> QED  BY <1>3, <2>1 DEF Reach
<1>11. DOMAIN r = 1 .. n
  BY <1>2
<1> HIDE DEF At2, n
<1>12. ASSUME NEW x \in V, NEW i \in DOMAIN h[x].children, h[x].children[i].desc # Nil
       PROVE  At2(h[x].children[i].desc) \in ChildrenOf(r, At2(x))
  <2> DEFINE c == h[x].children[i]
             o == r[At2(x)]
  <2>1. c \in Child /\ x \in DOMAIN h /\ c.desc \in V
    BY <1>3, <1>7, <1>12, ChildIs
  <2>2. i \in DOMAIN o.children /\ o.children[i] = [c EXCEPT !.desc = At2(c.desc)]
    <3>1. o.children = [j \in DOMAIN h[x].children |->
                           [h[x].children[j] EXCEPT !.desc = ReadAt(s, h, g, t, x, j)]]
      BY <1>8
    <3>2. ReadAt(s, h, g, t, x, i) = At2(c.desc)
      BY <1>12, <1>b
    <3> HIDE DEF o
    <3>3. i \in DOMAIN o.children /\ o.children[i] = [h[x].children[i] EXCEPT !.desc = ReadAt(s, h, g, t, x, i)]
      BY <1>12, <3>1
    <3> QED  BY <3>2, <3>3
  <2> HIDE DEF c, o
  <2>3. o.children[i].desc = At2(c.desc)
    BY <2>1, <2>2 DEF Child
  <2>4. At2(c.desc) # Nil
    <3>1. At2(c.desc) \in 1 .. n
      BY <1>6, <2>1
    <3> QED  BY <1>2, <3>1 DEF Nil
  <2> QED  BY <2>2, <2>3, <2>4 DEF ChildrenOf, c, o
<1>13. ASSUME NEW x \in R PROVE f[x] \in Reach(r, t)
  <2>1. f[x] = At2(x) /\ At2(x) \in DOMAIN r
    BY <1>6, <1>10, <1>11
  <2>2. ASSUME NEW S \in SUBSET DOMAIN r, t \in S, WithChildren(r, S)
        PROVE  At2(x) \in S
    <3> DEFINE U == {y \in V : At2(y) \in S}
    <3>1. U \in SUBSET DOMAIN h /\ d \in U
      BY <1>3, <1>6, <2>2
    <3>2. ASSUME NEW y \in U, NEW c \in ChildrenOf(h, y) PROVE c \in U
      <4>1. PICK i \in DOMAIN h[y].children : c = h[y].children[i].desc /\ c # Nil
        BY <3>2 DEF ChildrenOf
      <4>2. c \in V /\ At2(c) \in ChildrenOf(r, At2(y))
        BY <1>7, <1>12, <4>1
      <4> QED  BY <2>2, <4>2 DEF WithChildren
    <3>3. WithChildren(h, U)
      BY <3>2 DEF WithChildren
    <3> HIDE DEF U
    <3>4. x \in U
      BY <3>1, <3>3 DEF Reach
    <3> QED  BY <3>4 DEF U
  <2> QED  BY <2>1, <2>2 DEF Reach
<1>14. f \in [R -> Reach(r, t)] /\ f[d] = t
  BY <1>6, <1>9, <1>13
<1>15. \A x, y \in R : f[x] = f[y] => x = y
  BY <1>6, <1>10
<1>16. ASSUME NEW x \in R
       PROVE  /\ r[f[x]].kind = h[x].kind /\ r[f[x]].type = h[x].type
              /\ r[f[x]].children = [i \in DOMAIN h[x].children |->
                    [h[x].children[i] EXCEPT !.desc = IF @ = Nil THEN Nil ELSE f[@]]]
  <2>1. x \in V /\ f[x] = At2(x)
    BY <1>10
  <2>2. /\ r[f[x]].kind = h[x].kind /\ r[f[x]].type = h[x].type
        /\ r[f[x]].children = [i \in DOMAIN h[x].children |->
              [h[x].children[i] EXCEPT !.desc = ReadAt(s, h, g, t, x, i)]]
    BY <1>8, <2>1
  <2>3. ASSUME NEW i \in DOMAIN h[x].children, h[x].children[i].desc # Nil
        PROVE  f[h[x].children[i].desc] = At2(h[x].children[i].desc)
    <3>1. h[x].children[i].desc \in R
      BY <1>9, <2>3 DEF ChildrenOf
    <3> QED  BY <3>1
  <2> HIDE DEF f
  <2>4. \A i \in DOMAIN h[x].children :
           [h[x].children[i] EXCEPT !.desc = ReadAt(s, h, g, t, x, i)]
           = [h[x].children[i] EXCEPT !.desc = IF @ = Nil THEN Nil ELSE f[@]]
    BY <1>b, <2>1, <2>3
  <2> QED  BY <2>2, <2>4
<1> HIDE DEF f, R
<1>17. \E q \in [R -> Reach(r, t)] :
          /\ q[d] = t /\ \A x, y \in R : q[x] = q[y] => x = y
          /\ \A x \in R :
                /\ r[q[x]].kind = h[x].kind /\ r[q[x]].type = h[x].type
                /\ r[q[x]].children = [i \in DOMAIN h[x].children |->
                      [h[x].children[i] EXCEPT !.desc = IF @ = Nil THEN Nil ELSE q[@]]]
  BY <1>14, <1>15, <1>16
<1> QED  BY <1>17 DEF SameGraph, R

-----------------------------------------------------------------------------
(***************************************************************************)
(* The theorems.                                                           *)
(***************************************************************************)
\* What the heap and the history are in every state.
JInv == /\ heap \in Seq(Node) /\ Closed(heap)
        /\ copied \in Seq(Nat \X Nat)

\* d is written and read into t of g, which has the descriptors of the heap and perhaps t.
LEMMA ThroughIs ==
    ASSUME JInv, NEW d \in DOMAIN heap, NEW g \in Seq(Node), NEW t \in DOMAIN g, Closed(g),
           Len(heap) <= Len(g), \A e \in DOMAIN heap \ {t} : g[e] = heap[e],
           \A e \in DOMAIN g \ {t} : e \in DOMAIN heap,
           Through(d, g, t)
    PROVE  /\ JInv' /\ Rebuild(t)
           /\ SameGraph(heap, Last(copied')[1], heap', Last(copied')[2])
<1> DEFINE s == Marshalling(heap, d)[Steps(heap)]
           n == Len(g) + Len(Allocated(s.text))
<1>1. heap \in Seq(Node) /\ Closed(heap) /\ copied \in Seq(Nat \X Nat)
  BY DEF JInv
<1>2. Whole(s, heap, d) /\ heap' = UnmarshalJSON(s.text, g, t)
  BY <1>1, WritingEnds DEF Through, MarshalJSON
<1> HIDE DEF s
<1>3. /\ heap' \in Seq(Node) /\ Len(heap') = n /\ Len(g) <= n /\ n \in Nat
      /\ \A e \in DOMAIN g \ {t} : heap'[e] = g[e]
      /\ \A e \in DOMAIN heap' : \/ e \in DOMAIN g \ {t}
                                 \/ \E x \in DOMAIN s.visited : heap'[e] = ReadOf(s, heap, g, t, x)
  BY <1>1, <1>2, ReadingIs
<1>4. ASSUME NEW x \in DOMAIN s.visited, NEW i \in DOMAIN ReadOf(s, heap, g, t, x).children
      PROVE  ReadOf(s, heap, g, t, x).children[i].desc \in 0 .. n
  BY <1>1, <1>2, ReadOfIs
<1> HIDE DEF n
<1>5. /\ Len(g) \in Nat /\ Len(heap) \in Nat /\ Len(heap) <= Len(heap')
      /\ DOMAIN heap = 1 .. Len(heap) /\ DOMAIN g = 1 .. Len(g) /\ DOMAIN heap' = 1 .. n
  BY <1>1, <1>3
<1>6. Closed(heap')
  <2> SUFFICES ASSUME NEW e \in DOMAIN heap', NEW i \in DOMAIN heap'[e].children
               PROVE  heap'[e].children[i].desc \in 0 .. n
    BY <1>3 DEF Closed
  <2>1. CASE e \in DOMAIN g \ {t}
    <3>1. heap'[e] = g[e]
      BY <1>3, <2>1
    <3>2. g[e].children[i].desc \in 0 .. Len(g)
      BY <2>1, <3>1 DEF Closed
    <3>3. 0 .. Len(g) \subseteq 0 .. n
      BY <1>3, <1>5
    <3> QED  BY <3>1, <3>2, <3>3
  <2>2. CASE \E x \in DOMAIN s.visited : heap'[e] = ReadOf(s, heap, g, t, x)
    BY <1>4, <2>2
  <2> QED  BY <1>3, <2>1, <2>2
<1>7. ASSUME NEW e \in DOMAIN heap \ {t} PROVE heap'[e] = heap[e]
  <2>1. e \in DOMAIN g
    BY <1>5
  <2> QED  BY <1>3, <2>1
<1>8. Rebuild(t)
  BY <1>3, <1>5, <1>6, <1>7 DEF Rebuild, Through
<1>9. copied' = Append(copied, <<d, t>>) /\ <<d, t>> \in Nat \X Nat
  BY <1>1 DEF Through
<1>10. copied' \in Seq(Nat \X Nat) /\ Last(copied') = <<d, t>>
  <2>1. /\ Append(copied, <<d, t>>) \in Seq(Nat \X Nat)
        /\ Len(Append(copied, <<d, t>>)) = Len(copied) + 1
        /\ Append(copied, <<d, t>>)[Len(copied) + 1] = <<d, t>>
    BY <1>1, <1>9, AppendProperties
  <2> QED  BY <1>9, <2>1 DEF Last
<1>11. SameGraph(heap, d, heap', t)
  BY <1>1, ReadBack DEF Through
<1>12. Last(copied')[1] = d /\ Last(copied')[2] = t
  BY <1>10
<1> QED  BY <1>3, <1>6, <1>8, <1>10, <1>11, <1>12 DEF JInv

LEMMA JStep ==
    ASSUME JInv, [JSONNext]_jsonVars
    PROVE  /\ JInv' /\ [Next]_vars
           /\ copied' # copied => SameGraph(heap, Last(copied')[1], heap', Last(copied')[2])
<1>1. heap \in Seq(Node) /\ Closed(heap) /\ copied \in Seq(Nat \X Nat)
  BY DEF JInv
<1>2. CASE UNCHANGED jsonVars
  BY <1>1, <1>2 DEF jsonVars, vars, JInv
<1>3. CASE NextNormalize /\ UNCHANGED copied
  <2>1. heap' = heap
    BY <1>3 DEF NextNormalize, Normalize, Call, AlreadyNormalized, NotNormalized, Mark, MakeIds,
                MakeNames, PutId, PutName, NoChild, Descend, AllDone, Crash
  <2> QED  BY <1>1, <1>3, <2>1 DEF JInv, Next
<1>4. CASE \E d \in DOMAIN heap : Copy(d) \/ \E t \in DOMAIN heap : Reload(d, t)
  <2>1. PICK d \in DOMAIN heap : Copy(d) \/ \E t \in DOMAIN heap : Reload(d, t)
    BY <1>4
  <2>2. Len(heap) \in Nat /\ DOMAIN heap = 1 .. Len(heap)
    BY <1>1
  <2>3. CASE Copy(d)
    <3> DEFINE new == NodeOf(heap[d].kind, heap[d].type, <<>>)
               g == Append(heap, new)
               t == Len(heap) + 1
    <3>1. new \in Node /\ new.children = <<>>
      <4>1. heap[d].kind \in Kinds /\ heap[d].type \in Types
        BY <1>1, NodeIs
      <4>2. <<>> \in Seq(Child)
        BY EmptySeq
      <4>3. new = [kind |-> heap[d].kind, type |-> heap[d].type, children |-> <<>>]
        BY DEF NodeOf
      <4> HIDE DEF new
      <4> QED  BY <4>1, <4>2, <4>3 DEF Node
    <3>2. Through(d, g, t)
      BY <2>3 DEF Copy
    <3> HIDE DEF new
    <3>3. /\ g \in Seq(Node) /\ Len(g) = Len(heap) + 1 /\ g[t] = new
          /\ \A e \in 1 .. Len(heap) : g[e] = heap[e]
      BY <1>1, <3>1, AppendProperties
    <3>4. DOMAIN g = 1 .. Len(heap) + 1
      BY <3>3
    <3> HIDE DEF g
    <3>5. t \in DOMAIN g /\ t \in 1 .. Len(heap) + 1
      BY <2>2, <3>4
    <3>6. \A e \in DOMAIN g \ {t} : e \in DOMAIN heap
      BY <2>2, <3>4
    <3>7. Closed(g)
      <4> SUFFICES ASSUME NEW e \in DOMAIN g, NEW i \in DOMAIN g[e].children
                   PROVE  g[e].children[i].desc \in 0 .. Len(g)
        BY DEF Closed
      <4>1. CASE e = t
        BY <3>1, <3>3, <4>1, EmptyMap
      <4>2. CASE e # t
        <5>1. e \in DOMAIN heap /\ g[e] = heap[e]
          BY <2>2, <3>3, <3>6, <4>2
        <5>2. heap[e].children[i].desc \in 0 .. Len(heap)
          BY <1>1, <5>1 DEF Closed
        <5>3. 0 .. Len(heap) \subseteq 0 .. Len(g)
          BY <2>2, <3>3
        <5> QED  BY <5>1, <5>2, <5>3
      <4> QED  BY <4>1, <4>2
    <3>8. Len(heap) <= Len(g) /\ \A e \in DOMAIN heap \ {t} : g[e] = heap[e]
      BY <2>2, <3>3
    <3> HIDE DEF t
    <3>9. /\ JInv' /\ Rebuild(t)
          /\ SameGraph(heap, Last(copied')[1], heap', Last(copied')[2])
      BY <3>2, <3>3, <3>5, <3>6, <3>7, <3>8, ThroughIs
    <3> QED  BY <3>5, <3>9 DEF Next
  <2>4. CASE \E t \in DOMAIN heap : Reload(d, t)
    <3>1. PICK t \in DOMAIN heap : Through(d, heap, t)
      BY <2>4 DEF Reload
    <3>2. Len(heap) <= Len(heap) /\ t \in 1 .. Len(heap) + 1
      BY <2>2
    <3>3. /\ JInv' /\ Rebuild(t)
          /\ SameGraph(heap, Last(copied')[1], heap', Last(copied')[2])
      BY <1>1, <3>1, <3>2, ThroughIs
    <3> QED  BY <3>2, <3>3 DEF Next
  <2> QED  BY <2>1, <2>3, <2>4
<1> QED  BY <1>2, <1>3, <1>4 DEF JSONNext

LEMMA JStart == JSONInit => Init /\ JInv
<1> SUFFICES ASSUME JSONInit PROVE Init /\ JInv
  OBVIOUS
<1>1. heap \in Seq(Node) /\ Closed(heap)
  BY TrimAssumption DEF JSONInit, Init
<1>2. copied \in Seq(Nat \X Nat)
  BY DEF JSONInit
<1> QED  BY <1>1, <1>2 DEF JInv, JSONInit

\* MarshalJSON and UnmarshalJSON (trim/desc.go): whatever the descriptors, writing one and
\* reading it, into itself too, changes no other descriptor, leaves no reference open, and takes
\* away the maps, but not the mark, of the one that is read into.
THEOREM JSONRebuilds == JSONSpec => Rebuilds
<1>1. JSONInit => Init /\ JInv
  BY JStart
<1>2. JInv /\ [JSONNext]_jsonVars => JInv' /\ [Next]_vars
  BY JStep
<1> QED  BY <1>1, <1>2, PTL DEF JSONSpec, Rebuilds, Spec

\* MarshalJSON and UnmarshalJSON (trim/desc.go): whatever the descriptors, what was written and
\* read again is the same graph.  No path names two descriptors, every reference is found, and
\* shared descriptors and cycles come back as they were.
THEOREM JSONSurvives == JSONSpec => SurvivesJSON
<1> DEFINE Same == copied' # copied => SameGraph(heap, Last(copied')[1], heap', Last(copied')[2])
<1>1. JSONInit => JInv
  BY JStart
<1>2. JInv /\ [JSONNext]_jsonVars => JInv' /\ Same
  BY JStep
<1>3. JInv /\ [JSONNext]_jsonVars => [Same]_jsonVars
  BY <1>2
<1> QED  BY <1>1, <1>2, <1>3, PTL DEF JSONSpec, SurvivesJSON

\* Normalize (trim/desc.go) with JSON written and read in between: types, and whenever no call
\* is open, what is marked has both its maps and marked children, when JSON is not read into
\* descriptors that were normalized.
THEOREM JSONNormalized == ASSUME ~ReuseNormalized PROVE JSONSpec => [](TypeOK /\ Normalized)
<1>1. JSONSpec => Spec
  BY JSONRebuilds DEF Rebuilds
<1>2. Spec => []TypeOK
  BY DescTypes
<1>3. Spec => []Normalized
  BY DescNormalized
<1> QED  BY <1>1, <1>2, <1>3, PTL
=============================================================================
