-------------------------- MODULE J2PVisitorProofs --------------------------
(***************************************************************************)
(* Proofs about J2PVisitor: its types and open lengths, and that no        *)
(* callback loses what others have written.                                *)
(***************************************************************************)
EXTENDS J2PVisitor, SequenceTheorems, FiniteSetTheorems, WellFoundedInduction, TLAPS

-----------------------------------------------------------------------------
(* The inductive invariant *)

\* The frames above sp are cleared: OnNull raises sp without writing one.
Clean(v) == \A i \in (v.sp + 1)..(StkDepth - 1) : v.stk[i] = EmptyFrame

\* The message to convert to stays at the bottom, and has no length.
Rooted(v) == v.stk[0].typ = "obj" /\ v.stk[0].lenPos = 0

FrameOK(fr) ==
    /\ fr.typ = "map" => fr.f \in Field /\ fr.f.shape = "map"
    /\ fr.lenPos # 0 => fr.f \in Field /\ fr.typ # "nil"
    /\ fr.f \in Field => fr.msg = NoMsg
    /\ fr.typ = "obj" => fr.msg # NoMsg \/ fr.f \in Field

\* An open length is behind its tag.
OpenAt(b, at) == at \in 2..Len(b) /\ b[at].k = "len" /\ b[at - 1].k = "tag"
OpenLengths(v) ==
    \A i \in 0..v.sp : v.stk[i].lenPos # 0 =>
        /\ OpenAt(v.buf, v.stk[i].lenPos)
        /\ \A j \in 0..(i - 1) : v.stk[j].lenPos < v.stk[i].lenPos

Good(v) == /\ v \in Visitor
           /\ Clean(v) /\ Rooted(v) /\ OpenLengths(v)
           /\ \A i \in 0..v.sp : FrameOK(v.stk[i])

\* An object in the place of a packed list has the frame of one with the
\* length of a list.  Only its own end may find it there, which writes the
\* length back; the end of an empty list would take the length away and leave
\* the frame.
PackedObj(fr) == fr.typ = "obj" /\ fr.f \in Field /\ IsPacked(fr.f)
PackedOnTop(v, last) ==
    \A i \in 0..v.sp : PackedObj(v.stk[i]) =>
        i = v.sp /\ ~v.inskip /\ (v.gfd = NoField \/ last = "objBegin")
LastEv == IF pos = 0 THEN "none" ELSE src[pos].ev

IInv ==
    /\ TypeOK
    /\ pc = "idle" => vu = NewVisitor
    /\ pc = "run"  => Good(vu) /\ PackedOnTop(vu, LastEv)

-----------------------------------------------------------------------------
(* The output *)

\* A cell of each kind that is written.
LEMMA CellTypes ==
    ASSUME NEW n \in Nat, NEW x \in Texts, NEW kind \in Kinds
    PROVE  /\ Tag(n, kind) \in CellSet /\ Tag(n, kind).k = "tag"
           /\ Val(x) \in CellSet /\ Cell("key", 0, x) \in CellSet
           /\ Cell("len", n, "") \in CellSet /\ Cell("more", n, "") \in CellSet
           /\ Cell("len", n, "").k = "len" /\ Cell("more", n, "").k = "more"
  BY DocAssumption DEF Tag, Val, Cell, Wire, CellSet, Kinds

\* A length is a sequence of cells that begins with the one looked for.
LEMMA LenCellsTypes ==
    ASSUME NEW n \in Nat
    PROVE  /\ LenCells(n) \in Seq(CellSet)
           /\ Len(LenCells(n)) \in Nat \ {0}
           /\ LenCells(n)[1].k = "len"
           /\ \A i \in 1..Len(LenCells(n)) : LenCells(n)[i].k \in {"len", "more"}
  <1> DEFINE W == {w \in 1..9 : n >= VarintBase ^ w}
             c == Cell("len", n, "")
             d == Cell("more", n, "")
             rest == [i \in 1..(SizeVarint(n) - 1) |-> d]
  <1>1. Cardinality(W) \in Nat
    <2>1. IsFiniteSet(1..9)
      <3>1. 1 \in Int /\ 9 \in Int
        OBVIOUS
      <3> QED
        BY <3>1, FS_Interval
    <2>2. IsFiniteSet(W)
      BY <2>1, FS_Subset
    <2> QED
      BY <2>2, FS_CardinalityType
  <1>2. SizeVarint(n) - 1 \in Nat
    BY <1>1 DEF SizeVarint
  <1>3. c \in CellSet /\ d \in CellSet /\ c.k = "len" /\ d.k = "more"
    BY CellTypes, DocAssumption DEF Cell, CellSet
  <1> HIDE DEF c, d
  <1>4. rest \in Seq(CellSet) /\ \A i \in 1..Len(rest) : rest[i] = d
    <2>1. /\ rest \in [1..(SizeVarint(n) - 1) -> CellSet]
          /\ \A i \in 1..(SizeVarint(n) - 1) : rest[i] = d
      BY <1>2, <1>3
    <2> HIDE DEF rest
    <2>2. rest \in Seq(CellSet) /\ Len(rest) = SizeVarint(n) - 1
      BY <1>2, <2>1, SeqDef, LenProperties
    <2> QED
      BY <2>1, <2>2
  <1>5. <<c>> \in Seq(CellSet) /\ Len(<<c>>) = 1 /\ <<c>>[1] = c
    BY <1>3
  <1>6. LenCells(n) = <<c>> \o rest
    BY DEF LenCells, c, d
  <1> HIDE DEF rest
  <1>7. /\ <<c>> \o rest \in Seq(CellSet) /\ Len(<<c>> \o rest) = 1 + Len(rest) /\ Len(rest) \in Nat
        /\ (<<c>> \o rest)[1] = c
    BY <1>4, <1>5, ConcatProperties, LenProperties
  <1>8. ASSUME NEW i \in 1..(1 + Len(rest)) PROVE (<<c>> \o rest)[i].k \in {"len", "more"}
    <2>1. (<<c>> \o rest)[i] = IF i <= 1 THEN <<c>>[i] ELSE rest[i - 1]
      BY <1>4, <1>5, ConcatProperties
    <2>2. i = 1 \/ i - 1 \in 1..Len(rest)
      BY <1>7
    <2> QED
      BY <1>3, <1>4, <1>5, <2>1, <2>2
  <1> QED
    BY <1>3, <1>6, <1>7, <1>8

\* One output behind another.
LEMMA Joined ==
    ASSUME NEW s \in Seq(CellSet), NEW t \in Seq(CellSet)
    PROVE  /\ s \o t \in Seq(CellSet) /\ Len(s \o t) = Len(s) + Len(t)
           /\ Len(s) \in Nat /\ Len(t) \in Nat
           /\ \A i \in 1..Len(s) : (s \o t)[i] = s[i]
           /\ \A i \in 1..Len(t) : (s \o t)[Len(s) + i] = t[i]
  <1>1. Len(s) \in Nat /\ Len(t) \in Nat
    BY LenProperties
  <1>2. /\ s \o t \in Seq(CellSet) /\ Len(s \o t) = Len(s) + Len(t)
        /\ \A i \in 1..(Len(s) + Len(t)) : (s \o t)[i] = IF i <= Len(s) THEN s[i] ELSE t[i - Len(s)]
    BY ConcatProperties
  <1>3. \A i \in 1..Len(s) : (s \o t)[i] = s[i]
    BY <1>1, <1>2
  <1>4. \A i \in 1..Len(t) : (s \o t)[Len(s) + i] = t[i]
    <2> SUFFICES ASSUME NEW i \in 1..Len(t) PROVE (s \o t)[Len(s) + i] = t[i]
      OBVIOUS
    <2>1. Len(s) + i \in 1..(Len(s) + Len(t)) /\ ~(Len(s) + i <= Len(s)) /\ Len(s) + i - Len(s) = i
      BY <1>1
    <2> QED
      BY <1>2, <2>1
  <1> QED
    BY <1>1, <1>2, <1>3, <1>4

LEMMA TwoCells ==
    ASSUME NEW c \in CellSet, NEW d \in CellSet
    PROVE  /\ <<c>> \in Seq(CellSet) /\ <<d>> \in Seq(CellSet)
           /\ <<c, d>> \in Seq(CellSet) /\ Len(<<c, d>>) = 2
           /\ <<c>> \o <<d>> = <<c, d>>
  <1>1. /\ <<c>> \in Seq(CellSet) /\ Len(<<c>>) = 1 /\ <<c>>[1] = c
        /\ <<d>> \in Seq(CellSet) /\ Len(<<d>>) = 1 /\ <<d>>[1] = d
        /\ <<c, d>> \in Seq(CellSet) /\ Len(<<c, d>>) = 2
        /\ <<c, d>>[1] = c /\ <<c, d>>[2] = d
    OBVIOUS
  <1> DEFINE s == <<c>>
             t == <<d>>
             u == <<c, d>>
  <1> HIDE DEF s, t, u
  <1>2. /\ s \in Seq(CellSet) /\ Len(s) = 1 /\ s[1] = c
        /\ t \in Seq(CellSet) /\ Len(t) = 1 /\ t[1] = d
        /\ u \in Seq(CellSet) /\ Len(u) = 2 /\ u[1] = c /\ u[2] = d
    BY <1>1 DEF s, t, u
  <1>3. /\ s \o t \in Seq(CellSet) /\ Len(s \o t) = Len(s) + Len(t)
        /\ \A i \in 1..Len(s) : (s \o t)[i] = s[i]
        /\ \A i \in 1..Len(t) : (s \o t)[Len(s) + i] = t[i]
    BY <1>2, Joined
  <1>4. Len(s \o t) = Len(u) /\ \A i \in 1..Len(s \o t) : (s \o t)[i] = u[i]
    <2>1. Len(s \o t) = 2 /\ (s \o t)[1] = c /\ (s \o t)[1 + 1] = d
      BY <1>2, <1>3
    <2> QED
      BY <1>2, <2>1
  <1>5. s \o t = u
    BY <1>2, <1>3, <1>4, SeqEqual
  <1> QED
    BY <1>1, <1>5 DEF s, t, u

\* FinishSpeculativeLength leaves what is before the length, and a length there.
LEMMA FinishLengthTypes ==
    ASSUME NEW b \in Seq(CellSet), NEW at \in 1..Len(b),
           NEW r, r = FinishLength(b, at)
    PROVE  /\ r \in Seq(CellSet) /\ Len(r) >= at /\ Len(r) \in Nat
           /\ r[at].k = "len"
           /\ \A i \in 1..(at - 1) : r[i] = b[i]
  <1> DEFINE pre == SubSeq(b, 1, at - 1)
             mid == LenCells(Len(b) - at)
             post == SubSeq(b, at + 1, Len(b))
  <1>1. Len(b) \in Nat /\ \A i \in 1..Len(b) : b[i] \in CellSet
    BY LenProperties, ElementOfSeq
  <1>2. pre \in Seq(CellSet) /\ Len(pre) = at - 1 /\ \A i \in 1..(at - 1) : pre[i] = b[i]
    <2>1. \A i \in 1..(at - 1) : b[i] \in CellSet
      BY <1>1
    <2>2. /\ pre \in Seq(CellSet)
          /\ Len(pre) = IF 1 <= at - 1 THEN (at - 1) - 1 + 1 ELSE 0
          /\ \A i \in 1..((at - 1) - 1 + 1) : pre[i] = b[1 + i - 1]
      BY <1>1, <2>1, SubSeqProperties
    <2> QED
      BY <1>1, <2>2
  <1>3. post \in Seq(CellSet)
    <2>1. \A i \in (at + 1)..Len(b) : b[i] \in CellSet
      BY <1>1
    <2> QED
      BY <1>1, <2>1, SubSeqProperties
  <1>4. mid \in Seq(CellSet) /\ Len(mid) \in Nat \ {0} /\ mid[1].k = "len"
    <2>1. Len(b) - at \in Nat
      BY <1>1
    <2> QED
      BY <2>1, LenCellsTypes
  <1>5. r = (pre \o mid) \o post
    BY DEF FinishLength
  <1> HIDE DEF pre, mid, post
  <1>6. /\ pre \o mid \in Seq(CellSet) /\ Len(pre \o mid) = Len(pre) + Len(mid)
        /\ \A i \in 1..Len(pre) : (pre \o mid)[i] = pre[i]
        /\ \A i \in 1..Len(mid) : (pre \o mid)[Len(pre) + i] = mid[i]
    BY <1>2, <1>4, Joined
  <1> DEFINE a == pre \o mid
  <1>7. r = a \o post /\ a \in Seq(CellSet)
    BY <1>5, <1>6
  <1> HIDE DEF a
  <1>8. /\ r \in Seq(CellSet) /\ Len(r) = Len(a) + Len(post) /\ Len(post) \in Nat
        /\ \A i \in 1..Len(a) : r[i] = a[i]
    BY <1>3, <1>7, Joined
  <1>9. Len(a) = at - 1 + Len(mid) /\ at \in 1..Len(a)
    BY <1>1, <1>2, <1>4, <1>6 DEF a
  <1>10. a[at] = mid[1] /\ \A i \in 1..(at - 1) : a[i] = b[i]
    BY <1>1, <1>2, <1>4, <1>6 DEF a
  <1>11. Len(r) >= at /\ Len(r) \in Nat
    BY <1>1, <1>8, <1>9
  <1>12. r[at] = a[at] /\ \A i \in 1..(at - 1) : r[i] = a[i]
    BY <1>1, <1>8, <1>9
  <1> QED
    BY <1>1, <1>4, <1>8, <1>10, <1>11, <1>12

-----------------------------------------------------------------------------
(* The stack *)

\* w has the lower frames of v, and nothing above them.
Keeps(w, v) ==
    /\ w.sp \in 0..v.sp
    /\ \A i \in 0..w.sp : w.stk[i] = v.stk[i]
    /\ \A i \in (w.sp + 1)..(StkDepth - 1) : w.stk[i] = EmptyFrame

\* What a visitor is made of.
LEMMA VisitorFacts ==
    ASSUME NEW v \in Visitor
    PROVE  /\ v.sp \in 0..(StkDepth - 1) /\ v.sp \in Nat /\ StkDepth \in Nat \ {0}
           /\ v.stk \in [0..(StkDepth - 1) -> Frame] /\ v.gfd \in Field \cup {NoField}
           /\ v.inskip \in BOOLEAN /\ v.buf \in Seq(CellSet) /\ Len(v.buf) \in Nat
           /\ \A i \in 0..(StkDepth - 1) : v.stk[i] \in Frame /\ v.stk[i].lenPos \in Nat
           /\ Top(v) = v.stk[v.sp] /\ Top(v) \in Frame /\ 0 \in 0..(StkDepth - 1)
  BY SizeAssumption, LenProperties DEF Visitor, Frame, Top

\* Lower frames stay good on an output that keeps what they are about.
LEMMA KeepsGood ==
    ASSUME NEW v, Good(v), NEW w \in Visitor, Keeps(w, v),
           NEW n \in 0..Len(v.buf), n <= Len(w.buf),
           \A i \in 1..n : w.buf[i] = v.buf[i],
           \A i \in 0..w.sp : v.stk[i].lenPos <= n
    PROVE  Good(w)
  <1>1. v \in Visitor
    BY DEF Good
  <1>2. /\ v.sp \in 0..(StkDepth - 1) /\ v.sp \in Nat /\ w.sp \in 0..v.sp /\ w.sp \in Nat
        /\ StkDepth \in Nat /\ Len(v.buf) \in Nat /\ Len(w.buf) \in Nat
    BY <1>1, VisitorFacts DEF Keeps
  <1>3. \A i \in 0..w.sp : w.stk[i] = v.stk[i] /\ i \in 0..v.sp
    BY <1>2 DEF Keeps
  <1>4. Clean(w)
    BY DEF Clean, Keeps
  <1>5. Rooted(w)
    BY <1>2, <1>3 DEF Rooted, Good
  <1>6. \A i \in 0..w.sp : FrameOK(w.stk[i])
    BY <1>3 DEF Good
  <1>7. OpenLengths(w)
    <2> SUFFICES ASSUME NEW i \in 0..w.sp, w.stk[i].lenPos # 0
                 PROVE  /\ OpenAt(w.buf, w.stk[i].lenPos)
                        /\ \A j \in 0..(i - 1) : w.stk[j].lenPos < w.stk[i].lenPos
      BY DEF OpenLengths
    <2>1. /\ OpenAt(v.buf, v.stk[i].lenPos) /\ w.stk[i] = v.stk[i]
          /\ \A j \in 0..(i - 1) : v.stk[j].lenPos < v.stk[i].lenPos
      BY <1>3 DEF OpenLengths, Good
    <2>2. v.stk[i].lenPos <= n /\ n \in Nat
      BY <1>2
    <2>3. OpenAt(w.buf, v.stk[i].lenPos)
      <3> DEFINE at == v.stk[i].lenPos
      <3>1. at \in 2..Len(v.buf) /\ v.buf[at].k = "len" /\ v.buf[at - 1].k = "tag" /\ at <= n
        BY <2>1, <2>2 DEF OpenAt
      <3> HIDE DEF at
      <3>2. at \in 1..n /\ at - 1 \in 1..n /\ at \in 2..Len(w.buf)
        BY <1>2, <2>2, <3>1
      <3>3. w.buf[at] = v.buf[at] /\ w.buf[at - 1] = v.buf[at - 1]
        BY <3>2
      <3> QED
        BY <3>1, <3>2, <3>3 DEF OpenAt, at
    <2>4. \A j \in 0..(i - 1) : w.stk[j] = v.stk[j]
      BY <1>2, <1>3
    <2> QED
      BY <2>1, <2>3, <2>4
  <1> QED
    BY <1>4, <1>5, <1>6, <1>7 DEF Good

\* Open lengths are inside the output.
LEMMA OpenInside ==
    ASSUME NEW v, Good(v), NEW i \in 0..v.sp
    PROVE  v.stk[i].lenPos \in 0..Len(v.buf)
  <1>1. v \in Visitor /\ Len(v.buf) \in Nat /\ i \in 0..(StkDepth - 1) /\ v.stk[i].lenPos \in Nat
    BY VisitorFacts DEF Good
  <1>2. v.stk[i].lenPos # 0 => v.stk[i].lenPos \in 2..Len(v.buf)
    BY DEF Good, OpenLengths, OpenAt
  <1> QED
    BY <1>1, <1>2

\* Nothing has changed but the descriptor of the key, or inskip.
LEMMA RestGood ==
    ASSUME NEW v, Good(v), NEW w \in Visitor, w.sp = v.sp, w.stk = v.stk, w.buf = v.buf
    PROVE  Good(w)
  BY DEF Good, Clean, Rooted, OpenLengths

\* Output is appended.
LEMMA WriteGood ==
    ASSUME NEW v, Good(v), NEW cells \in Seq(CellSet)
    PROVE  LET w == Write(v, cells)
           IN  /\ w \in Visitor /\ Good(w)
               /\ w.sp = v.sp /\ w.stk = v.stk /\ w.gfd = v.gfd /\ w.inskip = v.inskip
               /\ w.buf = v.buf \o cells
  <1> DEFINE w == Write(v, cells)
             b == v.buf \o cells
  <1>1. v \in Visitor /\ v.buf \in Seq(CellSet)
    BY VisitorFacts DEF Good
  <1>2. /\ b \in Seq(CellSet) /\ Len(b) = Len(v.buf) + Len(cells) /\ Len(cells) \in Nat
        /\ \A i \in 1..Len(v.buf) : b[i] = v.buf[i] /\ Len(v.buf) \in Nat
    BY <1>1, Joined
  <1>3. w = [v EXCEPT !.buf = b]
    BY DEF Write
  <1> HIDE DEF b
  <1>4. /\ w \in Visitor /\ w.buf = b
        /\ w.sp = v.sp /\ w.stk = v.stk /\ w.gfd = v.gfd /\ w.inskip = v.inskip
    BY <1>1, <1>2, <1>3 DEF Visitor
  <1> HIDE DEF w
  <1>5. Keeps(w, v)
    BY <1>1, <1>4, VisitorFacts DEF Keeps, Good, Clean
  <1>6. Len(v.buf) \in 0..Len(v.buf) /\ Len(v.buf) <= Len(w.buf) /\ Len(v.buf) \in Nat
    BY <1>1, <1>2, <1>4, LenProperties
  <1>7. \A i \in 0..w.sp : v.stk[i].lenPos <= Len(v.buf)
    BY <1>4, <1>6, OpenInside
  <1>8. Good(w)
    BY <1>2, <1>4, <1>5, <1>6, <1>7, KeepsGood
  <1> QED
    BY <1>4, <1>8 DEF w, b

\* A length has been written back: its frame is the top one's, as before.
LEMMA FinishGood ==
    ASSUME NEW v, Good(v), Top(v).lenPos # 0
    PROVE  LET w == Finish(v).v
           IN  /\ Finish(v).pc = "run" /\ w \in Visitor /\ Good(w)
               /\ w.sp = v.sp /\ w.stk = v.stk /\ w.gfd = v.gfd /\ w.inskip = v.inskip
  <1> DEFINE at == Top(v).lenPos
             b == FinishLength(v.buf, at)
             w == Finish(v).v
  <1>1. /\ v \in Visitor /\ v.buf \in Seq(CellSet) /\ Len(v.buf) \in Nat
        /\ v.sp \in 0..(StkDepth - 1) /\ v.sp \in Nat /\ Top(v) = v.stk[v.sp]
    BY VisitorFacts DEF Good
  <1>2. v.sp \in 0..v.sp
    BY <1>1
  <1>3. /\ OpenAt(v.buf, at)
        /\ \A j \in 0..(v.sp - 1) : v.stk[j].lenPos < at
    BY <1>1, <1>2 DEF Good, OpenLengths
  <1>4. at \in 2..Len(v.buf) /\ at \in 1..Len(v.buf) /\ v.buf[at - 1].k = "tag"
    BY <1>1, <1>3 DEF OpenAt
  <1>5. /\ b \in Seq(CellSet) /\ Len(b) >= at /\ Len(b) \in Nat /\ b[at].k = "len"
        /\ \A i \in 1..(at - 1) : b[i] = v.buf[i]
    BY <1>1, <1>4, FinishLengthTypes, SMTT(30)
  <1>6. Finish(v) = Going([v EXCEPT !.buf = b])
    BY DEF Finish
  <1> HIDE DEF b
  <1>7. /\ w \in Visitor /\ w.buf = b /\ Finish(v).pc = "run"
        /\ w.sp = v.sp /\ w.stk = v.stk /\ w.gfd = v.gfd /\ w.inskip = v.inskip
    BY <1>1, <1>5, <1>6 DEF Visitor, Going, Ends
  <1> HIDE DEF w
  <1>8. OpenLengths(w)
    <2> SUFFICES ASSUME NEW i \in 0..v.sp, v.stk[i].lenPos # 0
                 PROVE  /\ OpenAt(b, v.stk[i].lenPos)
                        /\ \A j \in 0..(i - 1) : v.stk[j].lenPos < v.stk[i].lenPos
      BY <1>7 DEF OpenLengths
    <2>1. /\ OpenAt(v.buf, v.stk[i].lenPos)
          /\ \A j \in 0..(i - 1) : v.stk[j].lenPos < v.stk[i].lenPos
      BY DEF Good, OpenLengths
    <2>2. CASE i = v.sp
      <3>1. at - 1 \in 1..(at - 1) /\ at \in 2..Len(b)
        BY <1>1, <1>4, <1>5, SMTT(30)
      <3>2. OpenAt(b, at)
        BY <1>4, <1>5, <3>1 DEF OpenAt
      <3> QED
        BY <1>1, <2>1, <2>2, <3>2
    <2>3. CASE i # v.sp
      <3> DEFINE ai == v.stk[i].lenPos
      <3>1. i \in 0..(v.sp - 1)
        BY <1>1, <2>3
      <3>2. ai < at /\ ai \in 2..Len(v.buf) /\ v.buf[ai].k = "len" /\ v.buf[ai - 1].k = "tag"
        BY <1>3, <2>1, <3>1 DEF OpenAt
      <3> HIDE DEF ai, at
      <3>3. ai \in 1..(at - 1) /\ ai - 1 \in 1..(at - 1) /\ ai \in 2..Len(b)
        BY <1>1, <1>4, <1>5, <3>2
      <3>4. OpenAt(b, ai)
        BY <1>5, <3>2, <3>3 DEF OpenAt
      <3> QED
        BY <2>1, <3>4 DEF ai
    <2> QED
      BY <2>2, <2>3
  <1>9. Good(w)
    BY <1>7, <1>8 DEF Good, Clean, Rooted
  <1> QED
    BY <1>7, <1>9 DEF w

\* pop
LEMMA PopGood ==
    ASSUME NEW v, Good(v), v.sp # 0
    PROVE  LET w == Pop(v)
           IN  /\ w \in Visitor /\ Good(w) /\ w.sp = v.sp - 1 /\ Keeps(w, v)
               /\ w.gfd = v.gfd /\ w.inskip = v.inskip /\ w.buf = v.buf
  <1> DEFINE w == Pop(v)
  <1>1. /\ v \in Visitor /\ v.sp \in 0..(StkDepth - 1) /\ v.sp \in Nat /\ Len(v.buf) \in Nat
        /\ StkDepth \in Nat \ {0} /\ v.stk \in [0..(StkDepth - 1) -> Frame]
    BY VisitorFacts DEF Good
  <1>2. (v.sp - 1) % StkDepth = v.sp - 1 /\ v.sp - 1 \in 0..(StkDepth - 1)
    BY <1>1
  <1>3. EmptyFrame \in Frame
    BY DEF EmptyFrame, Frame
  <1>4. w = [v EXCEPT !.stk = [v.stk EXCEPT ![v.sp] = EmptyFrame], !.sp = v.sp - 1]
    BY <1>1, <1>2 DEF Pop, Visitor
  <1> HIDE DEF w
  <1>5. /\ w \in Visitor /\ w.sp = v.sp - 1 /\ w.stk = [v.stk EXCEPT ![v.sp] = EmptyFrame]
        /\ w.gfd = v.gfd /\ w.inskip = v.inskip /\ w.buf = v.buf
    BY <1>1, <1>2, <1>3, <1>4 DEF Visitor
  <1>6. \A i \in (v.sp + 1)..(StkDepth - 1) : v.stk[i] = EmptyFrame
    BY DEF Good, Clean
  <1>7. Keeps(w, v)
    <2>1. w.sp \in 0..v.sp
      BY <1>1, <1>5
    <2>2. \A i \in 0..w.sp : w.stk[i] = v.stk[i]
      BY <1>1, <1>5
    <2>3. \A i \in (w.sp + 1)..(StkDepth - 1) : w.stk[i] = EmptyFrame
      BY <1>1, <1>5, <1>6
    <2> QED
      BY <2>1, <2>2, <2>3 DEF Keeps
  <1>8. \A i \in 0..w.sp : v.stk[i].lenPos <= Len(v.buf)
    BY <1>1, <1>5, OpenInside
  <1>9. Len(v.buf) \in 0..Len(v.buf) /\ Len(v.buf) <= Len(w.buf)
    BY <1>1, <1>5
  <1>10. Good(w)
    BY <1>5, <1>7, <1>8, <1>9, KeepsGood
  <1> QED
    BY <1>5, <1>7, <1>10 DEF w

-----------------------------------------------------------------------------
(* The end of a value *)

\* What the end of a value leaves: if the call goes on, lower frames of v on a
\* good stack, and no descriptor of a key.
Ended(r, v) ==
    /\ r.pc \in {"run", "failed", "panic"} /\ r.v \in Visitor
    /\ r.pc = "run" => /\ Good(r.v) /\ Keeps(r.v, v)
                       /\ r.v.gfd = NoField /\ r.v.inskip = v.inskip

\* A visitor keeps its own frames.
LEMMA KeepsSelf ==
    ASSUME NEW v, Good(v), NEW w, w.sp = v.sp, w.stk = v.stk
    PROVE  Keeps(w, v)
  BY VisitorFacts DEF Good, Clean, Keeps

LEMMA KeepsTrans ==
    ASSUME NEW u \in Visitor, NEW v \in Visitor, NEW w \in Visitor, Keeps(w, v), Keeps(v, u)
    PROVE  Keeps(w, u)
  <1>1. u.sp \in Nat /\ v.sp \in 0..u.sp /\ w.sp \in 0..v.sp /\ v.sp \in Nat
    BY VisitorFacts DEF Keeps
  <1>2. w.sp \in 0..u.sp /\ \A i \in 0..w.sp : i \in 0..v.sp
    BY <1>1
  <1> QED
    BY <1>2 DEF Keeps

LEMMA EndEntryEnds ==
    ASSUME NEW v, Good(v), v.gfd = NoField
    PROVE  Ended(EndEntry(v), v)
  <1>1. v \in Visitor /\ v.sp \in Nat /\ Top(v) = v.stk[v.sp]
    BY VisitorFacts DEF Good
  <1>2. CASE Top(v).typ # "map"
    <2>1. EndEntry(v) = Going(v)
      BY <1>2 DEF EndEntry
    <2> QED
      BY <1>1, <2>1, KeepsSelf DEF Ended, Going, Ends
  <1>3. CASE Top(v).typ = "map" /\ Top(v).lenPos = 0
    <2>1. Finish(v) = Ends("panic", v)
      BY <1>3 DEF Finish
    <2>2. EndEntry(v) = Ends("panic", v)
      BY <1>3, <2>1 DEF EndEntry, Ends
    <2> QED
      BY <1>1, <2>2 DEF Ended, Ends
  <1>4. CASE Top(v).typ = "map" /\ Top(v).lenPos # 0
    <2> DEFINE w == Finish(v).v
    <2>1. /\ Finish(v).pc = "run" /\ w \in Visitor /\ Good(w)
          /\ w.sp = v.sp /\ w.stk = v.stk /\ w.gfd = v.gfd /\ w.inskip = v.inskip
      BY <1>4, FinishGood
    <2>2. EndEntry(v) = Going(Pop(w))
      BY <1>4, <2>1 DEF EndEntry
    <2> HIDE DEF w
    <2>3. v.sp # 0
      BY <1>1, <1>4 DEF Good, Rooted
    <2>4. Good(Pop(w)) /\ Keeps(Pop(w), w) /\ Pop(w).gfd = w.gfd /\ Pop(w).inskip = w.inskip
          /\ Pop(w) \in Visitor
      BY <2>1, <2>3, PopGood
    <2>5. Keeps(Pop(w), v)
      BY <2>1, <2>4 DEF Keeps
    <2> QED
      BY <2>1, <2>2, <2>4, <2>5 DEF Ended, Going, Ends
  <1> QED
    BY <1>2, <1>3, <1>4

\* onValueEnd
LEMMA ValueEndEnds ==
    ASSUME NEW v, Good(v)
    PROVE  Ended(ValueEnd(v), v)
  <1>1. /\ v \in Visitor /\ v.sp \in Nat /\ Top(v) = v.stk[v.sp] /\ Top(v) \in Frame
        /\ v.gfd \in Field \cup {NoField}
    BY VisitorFacts DEF Good
  <1>2. CASE v.gfd # NoField
    <2> DEFINE w == [v EXCEPT !.gfd = NoField]
    <2>1. /\ w \in Visitor /\ w.sp = v.sp /\ w.stk = v.stk /\ w.buf = v.buf /\ w.inskip = v.inskip
          /\ w.gfd = NoField
      BY <1>1 DEF Visitor
    <2>2. ValueEnd(v) = EndEntry(w)
      BY <1>2 DEF ValueEnd
    <2> HIDE DEF w
    <2>3. Good(w)
      BY <2>1, RestGood
    <2>4. Ended(EndEntry(w), w)
      BY <2>1, <2>3, EndEntryEnds
    <2> QED
      BY <2>1, <2>2, <2>4 DEF Ended, Keeps
  <1>3. CASE v.gfd = NoField /\ v.sp = 0
    <2>1. ValueEnd(v) = Going(v)
      BY <1>3 DEF ValueEnd
    <2> QED
      BY <1>1, <1>3, <2>1, KeepsSelf DEF Ended, Going, Ends
  <1>4. CASE v.gfd = NoField /\ v.sp # 0 /\ Top(v).typ = "obj"
    <2> DEFINE w == Pop(v)
    <2>1. ValueEnd(v) = EndEntry(w)
      BY <1>4 DEF ValueEnd
    <2>2. w \in Visitor /\ Good(w) /\ Keeps(w, v) /\ w.gfd = NoField /\ w.inskip = v.inskip
      BY <1>4, PopGood
    <2> HIDE DEF w
    <2>3. Ended(EndEntry(w), w)
      BY <2>2, EndEntryEnds
    <2> QED
      BY <1>1, <2>1, <2>2, <2>3, KeepsTrans DEF Ended
  <1>5. CASE v.gfd = NoField /\ v.sp # 0 /\ Top(v).typ \in {"arr", "map"}
    <2>1. ValueEnd(v) = Going(Pop(v))
      BY <1>5 DEF ValueEnd
    <2> QED
      BY <1>5, <2>1, PopGood DEF Ended, Going, Ends
  <1>6. CASE v.gfd = NoField /\ v.sp # 0 /\ Top(v).typ \notin {"obj", "arr", "map"}
    <2>1. ValueEnd(v) = Ends("failed", v)
      BY <1>6 DEF ValueEnd
    <2> QED
      BY <1>1, <2>1 DEF Ended, Ends
  <1> QED
    BY <1>2, <1>3, <1>4, <1>5, <1>6

\* A set of naturals has a least one.
LEMMA Least ==
    ASSUME NEW S \in SUBSET Nat, S # {}
    PROVE  \E i \in S : \A j \in S : i <= j
  <1> DEFINE R == {ss \in Nat \X Nat : ss[1] < ss[2]}
  <1>1. IsWellFoundedOn(R, Nat)
    BY NatLessThanWellFounded DEF OpToRel
  <1>2. PICK i \in S : \A j \in S : <<j, i>> \notin R
    <2> HIDE DEF R
    <2> QED
      BY <1>1, WFMin
  <1>3. \A j \in S : ~(j < i)
    BY <1>2
  <1> QED
    BY <1>2, <1>3

\* The loop at the end of OnArrayEnd ends above a frame that is no list.
LEMMA PopListsFacts ==
    ASSUME NEW v \in Visitor,
           \A i \in (v.sp + 1)..(StkDepth - 1) : v.stk[i] = EmptyFrame
    PROVE  LET w == PopLists(v)
           IN  /\ w \in Visitor /\ Keeps(w, v)
               /\ w.gfd = v.gfd /\ w.inskip = v.inskip /\ w.buf = v.buf
               /\ v.sp # 0 /\ Top(v).typ = "arr" => w.sp < v.sp
  <1> DEFINE U == UnderLists(v)
             low == CHOOSE i \in U : \A j \in U : i <= j
             k == [i \in DOMAIN v.stk |-> IF i \in (low + 1)..v.sp THEN EmptyFrame ELSE v.stk[i]]
             w == PopLists(v)
  <1>1. /\ v.sp \in 0..(StkDepth - 1) /\ v.sp \in Nat /\ StkDepth \in Nat \ {0}
        /\ v.stk \in [0..(StkDepth - 1) -> Frame] /\ Top(v) = v.stk[v.sp]
    BY VisitorFacts
  <1>2. U \subseteq 0..v.sp /\ v.sp \in U
    BY <1>1 DEF UnderLists
  <1>3. low \in U /\ \A j \in U : low <= j
    <2>1. U \in SUBSET Nat /\ U # {}
      BY <1>1, <1>2
    <2> HIDE DEF U
    <2>2. \E i \in U : \A j \in U : i <= j
      BY <2>1, Least
    <2> QED
      BY <2>2
  <1>4. w = [v EXCEPT !.sp = low, !.stk = k]
    BY DEF PopLists
  <1>5. low \in 0..v.sp /\ low \in 0..(StkDepth - 1) /\ low \in Nat
    BY <1>1, <1>2, <1>3
  <1>6. v.sp # 0 /\ Top(v).typ = "arr" => low < v.sp
    <2> HAVE v.sp # 0 /\ Top(v).typ = "arr"
    <2>1. v.sp - 1 \in U
      BY <1>1 DEF UnderLists
    <2>2. low <= v.sp - 1
      BY <1>3, <2>1
    <2> QED
      BY <1>1, <1>5, <2>2
  <1> HIDE DEF low, U
  <1>7. k \in [0..(StkDepth - 1) -> Frame]
    BY <1>1 DEF EmptyFrame, Frame
  <1>8. (\A i \in 0..low : k[i] = v.stk[i]) /\ \A i \in (low + 1)..(StkDepth - 1) : k[i] = EmptyFrame
    <2>1. DOMAIN v.stk = 0..(StkDepth - 1)
      BY <1>1
    <2>2. ASSUME NEW i \in 0..low  PROVE  k[i] = v.stk[i]
      <3>1. i \in DOMAIN v.stk /\ i \notin (low + 1)..v.sp
        BY <1>1, <1>5, <2>1
      <3> QED
        BY <3>1
    <2>3. ASSUME NEW i \in (low + 1)..(StkDepth - 1)  PROVE  k[i] = EmptyFrame
      <3>1. i \in DOMAIN v.stk /\ (i \in (low + 1)..v.sp \/ i \in (v.sp + 1)..(StkDepth - 1))
        BY <1>1, <1>5, <2>1
      <3> QED
        BY <3>1
    <2> QED
      BY <2>2, <2>3
  <1> HIDE DEF k, w
  <1>9. /\ w \in Visitor /\ w.sp = low /\ w.stk = k
        /\ w.gfd = v.gfd /\ w.inskip = v.inskip /\ w.buf = v.buf
    BY <1>4, <1>5, <1>7 DEF Visitor
  <1>10. Keeps(w, v)
    BY <1>5, <1>8, <1>9 DEF Keeps
  <1> QED
    BY <1>6, <1>9, <1>10 DEF w

\* The end of a list
LEMMA EndListEnds ==
    ASSUME NEW v, Good(v)
    PROVE  Ended(EndList(v), v)
  <1> DEFINE r == ValueEnd(v)
             w == PopLists(r.v)
  <1>1. Ended(r, v) /\ v \in Visitor
    BY ValueEndEnds DEF Good
  <1> HIDE DEF r
  <1>2. CASE r.pc # "run"
    <2>1. EndList(v) = r
      BY <1>2 DEF EndList, r
    <2> QED
      BY <1>1, <2>1
  <1>3. CASE r.pc = "run"
    <2>1. EndList(v) = Going(w)
      BY <1>3 DEF EndList, r
    <2>2. r.v \in Visitor /\ Good(r.v) /\ Keeps(r.v, v) /\ r.v.gfd = NoField
          /\ r.v.inskip = v.inskip
      BY <1>1, <1>3 DEF Ended
    <2>3. \A i \in (r.v.sp + 1)..(StkDepth - 1) : r.v.stk[i] = EmptyFrame
      BY <2>2 DEF Good, Clean
    <2>4. /\ w \in Visitor /\ Keeps(w, r.v)
          /\ w.gfd = r.v.gfd /\ w.inskip = r.v.inskip /\ w.buf = r.v.buf
      BY <2>2, <2>3, PopListsFacts
    <2> HIDE DEF w
    <2>5. Len(r.v.buf) \in Nat /\ r.v.sp \in Nat /\ w.sp \in 0..r.v.sp
      BY <2>2, <2>4, VisitorFacts DEF Keeps
    <2>6. \A i \in 0..w.sp : r.v.stk[i].lenPos <= Len(r.v.buf)
      BY <2>2, <2>5, OpenInside
    <2>7. Len(r.v.buf) \in 0..Len(r.v.buf) /\ Len(r.v.buf) <= Len(w.buf)
      BY <2>4, <2>5
    <2>8. Good(w)
      BY <2>2, <2>4, <2>6, <2>7, KeepsGood
    <2>9. Keeps(w, v)
      BY <1>1, <2>2, <2>4, KeepsTrans
    <2> QED
      BY <2>1, <2>2, <2>4, <2>8, <2>9 DEF Ended, Going, Ends
  <1> QED
    BY <1>2, <1>3

\* The end of an empty packed list takes back its tag and its length; the frame
\* of the list goes with them.
LEMMA TakeBackEnds ==
    ASSUME NEW v, Good(v), v.gfd # NoField, Top(v).typ = "arr",
           Top(v).lenPos # 0, Top(v).lenPos = Len(v.buf)
    PROVE  Ended(EndList(TakeBack(v)), v)
  <1> DEFINE n == Len(v.buf) - 2
             b == SubSeq(v.buf, 1, Top(v).lenPos - 2)
             u == [v EXCEPT !.buf = b, !.gfd = NoField]
             w == PopLists(u)
  <1>1. /\ v \in Visitor /\ v.buf \in Seq(CellSet) /\ Len(v.buf) \in Nat
        /\ v.sp \in 0..(StkDepth - 1) /\ v.sp \in Nat /\ Top(v) = v.stk[v.sp]
    BY VisitorFacts DEF Good
  <1>2. v.sp # 0 /\ v.sp \in 0..v.sp
    BY <1>1 DEF Good, Rooted
  <1>3. /\ OpenAt(v.buf, Len(v.buf))
        /\ \A j \in 0..(v.sp - 1) : v.stk[j].lenPos < Len(v.buf)
    BY <1>1, <1>2 DEF Good, OpenLengths
  <1>4. n \in Nat /\ n \in 0..Len(v.buf) /\ v.buf[Len(v.buf) - 1].k = "tag"
    BY <1>1, <1>3 DEF OpenAt
  <1>5. b \in Seq(CellSet) /\ Len(b) = n /\ \A i \in 1..n : b[i] = v.buf[i]
    <2>1. \A i \in 1..n : v.buf[i] \in CellSet
      BY <1>1, <1>4, ElementOfSeq
    <2>2. b = SubSeq(v.buf, 1, n)
      OBVIOUS
    <2> HIDE DEF b
    <2>3. /\ SubSeq(v.buf, 1, n) \in Seq(CellSet)
          /\ Len(SubSeq(v.buf, 1, n)) = IF 1 <= n THEN n - 1 + 1 ELSE 0
          /\ \A i \in 1..(n - 1 + 1) : SubSeq(v.buf, 1, n)[i] = v.buf[1 + i - 1]
      BY <1>4, <2>1, SubSeqProperties
    <2> QED
      BY <1>4, <2>2, <2>3
  <1> HIDE DEF b
  <1>6. /\ TakeBack(v) = [v EXCEPT !.buf = b]
        /\ u \in Visitor /\ u.sp = v.sp /\ u.stk = v.stk /\ u.buf = b /\ u.gfd = NoField
        /\ u.inskip = v.inskip /\ Top(u) = Top(v)
    BY <1>1, <1>5 DEF TakeBack, b, Visitor, Top
  <1>7. EndList(TakeBack(v)) = Going(w)
    <2> DEFINE t == [v EXCEPT !.buf = b]
    <2>1. t.gfd = v.gfd /\ [t EXCEPT !.gfd = NoField] = u
      BY <1>1 DEF Visitor
    <2>2. ValueEnd(t) = EndEntry(u)
      BY <2>1 DEF ValueEnd
    <2>3. EndEntry(u) = Going(u)
      BY <1>6 DEF EndEntry
    <2> QED
      BY <1>6, <2>2, <2>3 DEF EndList, Going, Ends
  <1> HIDE DEF u
  <1>8. /\ w \in Visitor /\ Keeps(w, u)
        /\ w.gfd = NoField /\ w.inskip = v.inskip /\ w.buf = b /\ w.sp < v.sp
    <2>1. \A i \in (u.sp + 1)..(StkDepth - 1) : u.stk[i] = EmptyFrame
      BY <1>6 DEF Good, Clean
    <2> QED
      BY <1>2, <1>6, <2>1, PopListsFacts
  <1> HIDE DEF w
  <1>9. Keeps(w, v) /\ w.sp \in Nat
    BY <1>1, <1>6, <1>8 DEF Keeps
  <1>10. \A i \in 0..w.sp : v.stk[i].lenPos <= n
    <2> SUFFICES ASSUME NEW i \in 0..w.sp PROVE v.stk[i].lenPos <= n
      OBVIOUS
    <2>1. i \in 0..(v.sp - 1) /\ i \in 0..v.sp
      BY <1>1, <1>8, <1>9
    <2>2. v.stk[i].lenPos < Len(v.buf) /\ v.stk[i].lenPos \in 0..Len(v.buf)
      BY <1>3, <2>1, OpenInside
    <2>3. v.stk[i].lenPos # 0 => v.buf[v.stk[i].lenPos].k = "len"
      BY <2>1 DEF Good, OpenLengths, OpenAt
    <2>4. v.stk[i].lenPos # Len(v.buf) - 1
      BY <1>3, <1>4, <2>3 DEF OpenAt
    <2> QED
      BY <1>1, <1>4, <2>2, <2>4
  <1>11. Good(w)
    <2> HIDE DEF n
    <2>1. n <= Len(w.buf) /\ \A i \in 1..n : w.buf[i] = v.buf[i]
      BY <1>4, <1>5, <1>8
    <2> QED
      BY <1>4, <1>8, <1>9, <1>10, <2>1, KeepsGood
  <1> QED
    BY <1>7, <1>8, <1>9, <1>11 DEF Ended, Going, Ends

-----------------------------------------------------------------------------
(* New frames *)

\* What a new frame leaves: if the call goes on, one more frame on those of v.
Opened(r, v, typ, f) ==
    /\ r.pc \in {"run", "failed"} /\ r.v \in Visitor
    /\ r.pc = "run" => /\ Good(r.v) /\ r.v.sp = v.sp + 1
                       /\ \A i \in 0..v.sp : r.v.stk[i] = v.stk[i]
                       /\ r.v.stk[v.sp + 1].typ = typ /\ r.v.stk[v.sp + 1].f = f
                       /\ r.v.gfd = v.gfd /\ r.v.inskip = v.inskip

\* incrSP
LEMMA IncrFacts ==
    ASSUME NEW v, Good(v)
    PROVE  LET w == IncrSP(v)
           IN  /\ w \in Visitor /\ w.stk = v.stk /\ w.buf = v.buf
               /\ w.gfd = v.gfd /\ w.inskip = v.inskip
               /\ w.sp # 0 => w.sp = v.sp + 1 /\ w.sp \in 0..(StkDepth - 1)
                              /\ v.stk[w.sp] = EmptyFrame
  <1> DEFINE w == IncrSP(v)
  <1>1. /\ v \in Visitor /\ v.sp \in 0..(StkDepth - 1) /\ v.sp \in Nat /\ StkDepth \in Nat \ {0}
    BY VisitorFacts DEF Good
  <1>2. (v.sp + 1) % StkDepth = IF v.sp + 1 = StkDepth THEN 0 ELSE v.sp + 1
    <2>1. CASE v.sp + 1 = StkDepth
      BY <1>1, <2>1
    <2>2. CASE v.sp + 1 < StkDepth
      BY <1>1, <2>2
    <2> QED
      BY <1>1, <2>1, <2>2
  <1> DEFINE s == IF v.sp + 1 = StkDepth THEN 0 ELSE v.sp + 1
  <1>3. w = [v EXCEPT !.sp = s] /\ s \in 0..(StkDepth - 1)
    BY <1>1, <1>2 DEF IncrSP
  <1> HIDE DEF w, s
  <1>4. /\ w \in Visitor /\ w.stk = v.stk /\ w.buf = v.buf
        /\ w.gfd = v.gfd /\ w.inskip = v.inskip
        /\ w.sp = s
    BY <1>1, <1>3 DEF Visitor
  <1>5. w.sp # 0 => w.sp = v.sp + 1 /\ w.sp \in (v.sp + 1)..(StkDepth - 1) /\ w.sp \in 0..(StkDepth - 1)
    BY <1>1, <1>4 DEF s
  <1> QED
    BY <1>4, <1>5 DEF w, Good, Clean

\* push
LEMMA PushOpens ==
    ASSUME NEW v, Good(v), NEW typ \in {"obj", "arr", "map"}, NEW f \in Field, NEW at \in Nat,
           typ = "map" => f.shape = "map",
           at # 0 => OpenAt(v.buf, at) /\ \A j \in 0..v.sp : v.stk[j].lenPos < at
    PROVE  Opened(Push(v, typ, f, at), v, typ, f)
  <1> DEFINE u == IncrSP(v)
             fr == [typ |-> typ, msg |-> NoMsg, f |-> f, lenPos |-> at]
             w == [u EXCEPT !.stk = [u.stk EXCEPT ![u.sp] = fr]]
             r == Push(v, typ, f, at)
  <1>1. /\ v \in Visitor /\ v.sp \in 0..(StkDepth - 1) /\ v.sp \in Nat /\ StkDepth \in Nat \ {0}
        /\ v.stk \in [0..(StkDepth - 1) -> Frame]
    BY VisitorFacts DEF Good
  <1>2. /\ u \in Visitor /\ u.stk = v.stk /\ u.buf = v.buf
        /\ u.gfd = v.gfd /\ u.inskip = v.inskip
        /\ u.sp # 0 => u.sp = v.sp + 1 /\ u.sp \in 0..(StkDepth - 1)
    BY IncrFacts
  <1>3. r = Ends(IF u.sp = 0 THEN "failed" ELSE "run", w)
    <2>1. w = [u EXCEPT !.stk[u.sp] = fr]
      OBVIOUS
    <2> HIDE DEF u, fr, w
    <2> QED
      BY <2>1 DEF Push, u, fr
  <1>4. fr \in Frame /\ FrameOK(fr)
    <2>1. fr.f = f /\ fr.msg = NoMsg /\ fr.typ = typ /\ fr.lenPos = at
      OBVIOUS
    <2>2. fr \in Frame
      BY DEF Frame
    <2>3. typ # "nil"
      OBVIOUS
    <2> HIDE DEF fr
    <2> QED
      BY <2>1, <2>2, <2>3 DEF FrameOK
  <1>5. u.sp \in 0..(StkDepth - 1)
    BY <1>2, VisitorFacts
  <1>6. fr.typ = typ /\ fr.f = f /\ fr.lenPos = at
    OBVIOUS
  <1> HIDE DEF u, fr
  <1>7. /\ w \in Visitor /\ w.sp = u.sp /\ w.buf = v.buf /\ w.gfd = v.gfd /\ w.inskip = v.inskip
        /\ w.stk = [v.stk EXCEPT ![u.sp] = fr]
    BY <1>2, <1>4, <1>5 DEF Visitor
  <1> HIDE DEF w, r
  <1>8. CASE u.sp = 0
    BY <1>3, <1>7, <1>8 DEF Opened, Ends, r
  <1>9. CASE u.sp # 0
    <2>1. w.sp = v.sp + 1 /\ v.sp + 1 \in 0..(StkDepth - 1) /\ w.stk = [v.stk EXCEPT ![v.sp + 1] = fr]
      BY <1>2, <1>7, <1>9
    <2>2. w.stk[v.sp + 1] = fr /\ \A i \in 0..(StkDepth - 1) : i # v.sp + 1 => w.stk[i] = v.stk[i]
      BY <1>1, <2>1
    <2>3. \A i \in 0..v.sp : w.stk[i] = v.stk[i]
      BY <1>1, <2>2
    <2>4. Clean(w)
      <3>1. \A i \in (v.sp + 2)..(StkDepth - 1) : w.stk[i] = v.stk[i] /\ v.stk[i] = EmptyFrame
        BY <1>1, <2>2 DEF Good, Clean
      <3> QED
        BY <1>1, <2>1, <3>1 DEF Clean
    <2>5. Rooted(w)
      BY <1>1, <2>3 DEF Good, Rooted
    <2>6. \A i \in 0..w.sp : i \in 0..v.sp \/ i = v.sp + 1
      BY <1>1, <2>1
    <2>7. \A i \in 0..w.sp : FrameOK(w.stk[i])
      BY <1>4, <2>2, <2>3, <2>6 DEF Good
    <2>8. OpenLengths(w)
      <3> SUFFICES ASSUME NEW i \in 0..w.sp, w.stk[i].lenPos # 0
                   PROVE  /\ OpenAt(v.buf, w.stk[i].lenPos)
                          /\ \A j \in 0..(i - 1) : w.stk[j].lenPos < w.stk[i].lenPos
        BY <1>7 DEF OpenLengths
      <3>1. CASE i = v.sp + 1
        <4>1. w.stk[i].lenPos = at /\ at # 0
          BY <1>6, <2>2, <3>1
        <4>2. \A j \in 0..(i - 1) : j \in 0..v.sp /\ w.stk[j] = v.stk[j]
          BY <1>1, <2>3, <3>1
        <4> QED
          BY <4>1, <4>2
      <3>2. CASE i \in 0..v.sp
        <4>1. w.stk[i] = v.stk[i] /\ \A j \in 0..(i - 1) : j \in 0..v.sp /\ w.stk[j] = v.stk[j]
          BY <1>1, <2>3, <3>2
        <4> QED
          BY <3>2, <4>1 DEF Good, OpenLengths
      <3> QED
        BY <2>6, <3>1, <3>2
    <2>9. Good(w)
      BY <1>7, <2>4, <2>5, <2>7, <2>8 DEF Good
    <2>10. r.pc = "run" /\ r.v = w
      BY <1>3, <1>9 DEF Ends
    <2>11. /\ w.sp = v.sp + 1 /\ w.stk[v.sp + 1].typ = typ /\ w.stk[v.sp + 1].f = f
      BY <1>6, <2>1, <2>2
    <2> QED
      BY <1>7, <2>3, <2>9, <2>10, <2>11 DEF Opened, r
  <1> QED
    BY <1>8, <1>9

\* A tag and a length are written.
LEMMA LengthWritten ==
    ASSUME NEW v, Good(v), NEW f \in Field
    PROVE  LET b == SpeculativeLength(Append(v.buf, Tag(f.num, "msg")))
               w == [v EXCEPT !.buf = b]
           IN  /\ w \in Visitor /\ Good(w) /\ w.buf = b
               /\ w.sp = v.sp /\ w.stk = v.stk /\ w.gfd = v.gfd /\ w.inskip = v.inskip
               /\ OpenAt(b, Len(b)) /\ Len(b) \in Nat
               /\ \A j \in 0..w.sp : w.stk[j].lenPos < Len(b)
  <1> DEFINE tag == Tag(f.num, "msg")
             len == Cell("len", 0, "")
             w == Write(v, <<tag, len>>)
  <1>1. v \in Visitor /\ v.buf \in Seq(CellSet) /\ Len(v.buf) \in Nat
    BY VisitorFacts DEF Good
  <1>2. tag \in CellSet /\ tag.k = "tag" /\ len \in CellSet /\ len.k = "len"
    <2>1. f.num \in Nat /\ "msg" \in Kinds /\ 0 \in Nat /\ "" \in Texts
      BY DocAssumption DEF Field, Kinds
    <2> QED
      BY <2>1, CellTypes
  <1>3. SpeculativeLength(Append(v.buf, tag)) = v.buf \o <<tag, len>>
    <2> DEFINE a == Append(v.buf, tag)
    <2>1. SpeculativeLength(a) = Append(a, len)
      BY DEF SpeculativeLength
    <2> HIDE DEF tag, len
    <2>2. a \in Seq(CellSet) /\ a = v.buf \o <<tag>>
      BY <1>1, <1>2, AppendProperties, AppendIsConcat
    <2>3. Append(a, len) = a \o <<len>>
      BY <1>2, <2>2, AppendIsConcat
    <2>4. /\ <<tag>> \in Seq(CellSet) /\ <<len>> \in Seq(CellSet)
          /\ <<tag>> \o <<len>> = <<tag, len>>
      BY <1>2, TwoCells
    <2>5. (v.buf \o <<tag>>) \o <<len>> = v.buf \o (<<tag>> \o <<len>>)
      BY <1>1, <2>4, ConcatAssociative
    <2> QED
      BY <2>1, <2>2, <2>3, <2>4, <2>5
  <1> HIDE DEF tag, len
  <1>4. <<tag, len>> \in Seq(CellSet) /\ Len(<<tag, len>>) = 2
        /\ <<tag, len>>[1] = tag /\ <<tag, len>>[2] = len
    BY <1>2
  <1>5. /\ w \in Visitor /\ Good(w)
        /\ w.sp = v.sp /\ w.stk = v.stk /\ w.gfd = v.gfd /\ w.inskip = v.inskip
        /\ w.buf = v.buf \o <<tag, len>>
    BY <1>4, WriteGood
  <1>6. /\ Len(w.buf) = Len(v.buf) + 2
        /\ w.buf[Len(v.buf) + 1] = tag /\ w.buf[Len(v.buf) + 2] = len
    <2> DEFINE t == <<tag, len>>
    <2>1. t \in Seq(CellSet) /\ Len(t) = 2 /\ t[1] = tag /\ t[2] = len
      BY <1>4
    <2>2. w.buf = v.buf \o t
      BY <1>5
    <2> HIDE DEF t, w
    <2>3. /\ Len(v.buf \o t) = Len(v.buf) + Len(t)
          /\ \A i \in 1..Len(t) : (v.buf \o t)[Len(v.buf) + i] = t[i]
      BY <1>1, <2>1, Joined
    <2>4. 1 \in 1..Len(t) /\ 2 \in 1..Len(t)
      BY <2>1
    <2> QED
      BY <2>1, <2>2, <2>3, <2>4
  <1>7. OpenAt(w.buf, Len(w.buf))
    <2> DEFINE n == Len(v.buf)
    <2>1. n \in Nat /\ Len(w.buf) = n + 2 /\ w.buf[n + 1] = tag /\ w.buf[n + 2] = len
      BY <1>1, <1>6
    <2> HIDE DEF n, w
    <2>2. n + 2 \in 2..(n + 2) /\ n + 2 - 1 = n + 1
      BY <2>1
    <2> QED
      BY <1>2, <2>1, <2>2 DEF OpenAt
  <1>8. \A j \in 0..w.sp : w.stk[j].lenPos < Len(w.buf)
    BY <1>1, <1>5, <1>6, OpenInside
  <1>9. Len(w.buf) \in Nat
    BY <1>1, <1>6
  <1>10. w = [v EXCEPT !.buf = SpeculativeLength(Append(v.buf, tag))]
    BY <1>3 DEF Write
  <1>11. w.buf = SpeculativeLength(Append(v.buf, tag))
    BY <1>3, <1>5
  <1> HIDE DEF w
  <1> QED
    BY <1>5, <1>7, <1>8, <1>9, <1>10, <1>11 DEF tag

\* A frame is pushed for the length.
LEMMA OpenOpens ==
    ASSUME NEW v, Good(v), NEW typ \in {"obj", "arr"}, NEW f \in Field
    PROVE  Opened(Open(v, typ, f), v, typ, f)
  <1> DEFINE b == SpeculativeLength(Append(v.buf, Tag(f.num, "msg")))
             w == [v EXCEPT !.buf = b]
  <1>1. /\ w \in Visitor /\ Good(w) /\ w.buf = b
        /\ w.sp = v.sp /\ w.stk = v.stk /\ w.gfd = v.gfd /\ w.inskip = v.inskip
        /\ OpenAt(b, Len(b)) /\ Len(b) \in Nat
        /\ \A j \in 0..w.sp : w.stk[j].lenPos < Len(b)
    BY LengthWritten
  <1>2. Open(v, typ, f) = Push(w, typ, f, Len(w.buf))
    BY DEF Open
  <1>3. typ \in {"obj", "arr", "map"} /\ typ # "map"
    OBVIOUS
  <1> HIDE DEF w, b
  <1>4. Opened(Push(w, typ, f, Len(w.buf)), w, typ, f)
    BY <1>1, <1>3, PushOpens
  <1> QED
    BY <1>1, <1>2, <1>4 DEF Opened

\* The value of a map entry is a field.
LEMMA ValueFieldType ==
    ASSUME NEW f \in Field
    PROVE  ValueField(f) \in Field
  <1>1. f \in [num : Nat, kind : Kinds, shape : {"one", "list", "map"},
               msg : Messages \cup {NoMsg}, key : {"str", "num", "other"}, val : Kinds]
    BY DEF Field
  <1> DEFINE m == IF f.val = "msg" THEN f.msg ELSE NoMsg
  <1>2. m \in Messages \cup {NoMsg} /\ (m # NoMsg => f.val = "msg")
    BY <1>1
  <1> HIDE DEF m
  <1> DEFINE g == [f EXCEPT !.num = 2, !.kind = f.val, !.shape = "one", !.val = "int",
                           !.msg = m, !.key = "other"]
  <1>3. "int" \in Kinds /\ f.val \in Kinds
    BY <1>1 DEF Kinds
  <1>4. /\ g \in [num : Nat, kind : Kinds, shape : {"one", "list", "map"},
                  msg : Messages \cup {NoMsg}, key : {"str", "num", "other"}, val : Kinds]
        /\ g.msg = m /\ g.shape = "one" /\ g.kind = f.val
    BY <1>1, <1>2, <1>3
  <1>5. ValueField(f) = g
    BY DEF ValueField, m
  <1> HIDE DEF g
  <1>6. g \in Field
    BY <1>2, <1>4 DEF Field
  <1> QED
    BY <1>5, <1>6

\* The tag, the length and the key of a map entry, and its frame.
LEMMA EntryOpens ==
    ASSUME Good(vu), NEW f \in Field, f.shape = "map", Tok \in Event
    PROVE  /\ Entry(f).pc \in {"run", "failed"} /\ Entry(f).v \in Visitor
           /\ Entry(f).pc = "run" =>
                /\ Good(Entry(f).v) /\ Entry(f).v.sp = vu.sp + 1
                /\ \A i \in 0..vu.sp : Entry(f).v.stk[i] = vu.stk[i]
                /\ Entry(f).v.stk[vu.sp + 1].typ = "map"
  <1> DEFINE b == SpeculativeLength(Append(vu.buf, Tag(f.num, "msg")))
             w == [vu EXCEPT !.buf = b]
             k == <<Tag(1, IF f.key = "num" THEN "int" ELSE "str"), Cell("key", 0, KeyText)>>
             u == [vu EXCEPT !.buf = b \o k]
             r == Push(u, "map", f, Len(b))
  <1>0. vu \in Visitor
    BY DEF Good
  <1>1. CASE f.key = "other"
    BY <1>0, <1>1 DEF Entry, Ends
  <1>2. CASE f.key # "other"
    <2>1. /\ w \in Visitor /\ Good(w) /\ w.buf = b
          /\ w.sp = vu.sp /\ w.stk = vu.stk /\ w.gfd = vu.gfd /\ w.inskip = vu.inskip
          /\ OpenAt(b, Len(b)) /\ Len(b) \in Nat
          /\ \A j \in 0..w.sp : w.stk[j].lenPos < Len(b)
      BY LengthWritten
    <2>2. k \in Seq(CellSet)
      <3>1. KeyText \in Texts
        BY DocAssumption DEF KeyText, Event
      <3>2. "int" \in Kinds /\ "str" \in Kinds /\ 1 \in Nat
        BY DEF Kinds
      <3>3. Tag(1, IF f.key = "num" THEN "int" ELSE "str") \in CellSet
            /\ Cell("key", 0, KeyText) \in CellSet
        BY <3>1, <3>2, CellTypes
      <3> QED
        BY <3>3, TwoCells
    <2>3. u = Write(w, k)
      BY <1>0, <2>1 DEF Write, Visitor
    <2> HIDE DEF k
    <2>4. /\ u \in Visitor /\ Good(u)
          /\ u.sp = w.sp /\ u.stk = w.stk /\ u.gfd = w.gfd /\ u.inskip = w.inskip
          /\ u.buf = w.buf \o k
      BY <2>1, <2>2, <2>3, WriteGood
    <2>5. Entry(f) = IF r.pc = "run" THEN Going([r.v EXCEPT !.gfd = ValueField(f)]) ELSE r
      BY <1>2 DEF Entry, k
    <2> HIDE DEF w, u
    <2>6. OpenAt(u.buf, Len(b))
      <3>1. b \in Seq(CellSet) /\ u.buf = b \o k
        BY <2>1, <2>4, VisitorFacts
      <3> HIDE DEF b
      <3>2. /\ Len(u.buf) = Len(b) + Len(k) /\ Len(k) \in Nat /\ u.buf \in Seq(CellSet)
            /\ \A i \in 1..Len(b) : u.buf[i] = b[i]
        BY <2>2, <3>1, Joined
      <3>3. Len(b) \in 2..Len(b) /\ b[Len(b)].k = "len" /\ b[Len(b) - 1].k = "tag"
        BY <2>1 DEF OpenAt
      <3>4. Len(b) \in 2..Len(u.buf) /\ Len(b) \in 1..Len(b) /\ Len(b) - 1 \in 1..Len(b)
        BY <2>1, <3>2, <3>3
      <3> QED
        BY <3>2, <3>3, <3>4 DEF OpenAt
    <2> HIDE DEF b
    <2>7. Opened(r, u, "map", f)
      <3>1. \A j \in 0..u.sp : u.stk[j].lenPos < Len(b)
        BY <2>1, <2>4
      <3> QED
        BY <2>1, <2>4, <2>6, <3>1, PushOpens
    <2> HIDE DEF r
    <2>8. CASE r.pc # "run"
      BY <2>5, <2>7, <2>8 DEF Opened
    <2>9. CASE r.pc = "run"
      <3> DEFINE x == [r.v EXCEPT !.gfd = ValueField(f)]
      <3>1. Entry(f).pc = "run" /\ Entry(f).v = x
        BY <2>5, <2>9 DEF Going, Ends
      <3>2. ValueField(f) \in Field
        BY ValueFieldType
      <3>3. r.v \in Visitor /\ Good(r.v)
        BY <2>7, <2>9 DEF Opened
      <3>4. x \in Visitor /\ x.sp = r.v.sp /\ x.stk = r.v.stk /\ x.buf = r.v.buf
        BY <3>2, <3>3 DEF Visitor
      <3> HIDE DEF x
      <3>5. Good(x)
        BY <3>3, <3>4, RestGood
      <3> QED
        BY <2>1, <2>4, <2>7, <2>9, <3>1, <3>4, <3>5 DEF Opened
    <2> QED
      BY <2>8, <2>9
  <1> QED
    BY <1>1, <1>2

-----------------------------------------------------------------------------
(* The callbacks *)

\* No object stands in the place of a packed list.
NoPacked(v) == \A i \in 0..v.sp : ~PackedObj(v.stk[i])

\* The next event is one of a text.
LEMMA TokFacts ==
    ASSUME IInv, NEW evs, On(evs)
    PROVE  /\ pc = "run" /\ Good(vu) /\ PackedOnTop(vu, LastEv)
           /\ src \in Docs /\ pos \in Nat /\ pos + 1 \in 1..Len(src) /\ Len(src) \in Nat
           /\ Tok \in Event /\ Tok.ev \in evs /\ src' = src /\ disallow' = disallow
           /\ LastEv = "objBegin" => Tok.ev \in {"key", "objEnd", "bad"}
  <1> USE DEF On
  <1>1. /\ pc = "run" /\ pos < Len(src) /\ Tok.ev \in evs /\ src' = src /\ disallow' = disallow
        /\ Good(vu) /\ PackedOnTop(vu, LastEv)
    BY DEF IInv, On, Tok
  <1>2. src \in Docs \cup {<<>>} /\ pos \in 0..Len(src)
    BY DEF IInv, TypeOK
  <1>3. src \in Docs
    <2>1. src # <<>>
      <3> SUFFICES ASSUME src = <<>> PROVE FALSE
        OBVIOUS
      <3>1. Len(src) = 0
        OBVIOUS
      <3> QED
        BY <1>1, <1>2, <3>1
    <2> QED
      BY <1>2, <2>1
  <1>4. src \in Seq(Event)
    BY <1>3, DocAssumption
  <1>5. Len(src) \in Nat /\ pos \in Nat /\ pos + 1 \in 1..Len(src)
    BY <1>1, <1>2, <1>4, LenProperties
  <1>6. Tok \in Event
    BY <1>4, <1>5, ElementOfSeq DEF Tok
  <1>7. LastEv = "objBegin" => Tok.ev \in {"key", "objEnd", "bad"}
    <2> SUFFICES ASSUME LastEv = "objBegin" PROVE Tok.ev \in {"key", "objEnd", "bad"}
      OBVIOUS
    <2>1. pos # 0 /\ src[pos].ev = "objBegin"
      BY DEF LastEv
    <2>2. pos \in 1..(Len(src) - 1)
      BY <1>5, <2>1
    <2>3. src[pos + 1].ev \in {"key", "objEnd", "bad"}
      BY <1>3, <2>1, <2>2, DocAssumption
    <2> QED
      BY <2>3 DEF Tok
  <1> QED
    BY <1>1, <1>3, <1>5, <1>6, <1>7

\* A callback keeps the invariant if what it leaves is good.
LEMMA AfterKeeps ==
    ASSUME IInv, NEW evs, On(evs), NEW r, After(r),
           r.pc \in {"run", "failed", "panic"}, r.v \in Visitor,
           r.pc = "run" => Good(r.v) /\ PackedOnTop(r.v, Tok.ev)
    PROVE  IInv'
  <1> USE DEF On, After
  <1>1. /\ pos \in Nat /\ pos + 1 \in 1..Len(src) /\ Len(src) \in Nat /\ src \in Docs
        /\ src' = src /\ disallow' = disallow
    BY TokFacts
  <1>2. pc' = r.pc /\ vu' = r.v /\ pos' = pos + 1
    BY DEF After
  <1>3. TypeOK'
    <2>1. pos' \in 0..Len(src') /\ src' \in Docs \cup {<<>>}
      BY <1>1, <1>2
    <2>2. disallow' \in BOOLEAN
      BY <1>1 DEF IInv, TypeOK
    <2> QED
      BY <1>2, <2>1, <2>2 DEF TypeOK
  <1>4. LastEv' = Tok.ev
    BY <1>1, <1>2 DEF LastEv, Tok
  <1>5. pc' = "run" => Good(vu') /\ PackedOnTop(vu', LastEv')
    BY <1>2, <1>4
  <1> QED
    BY <1>2, <1>3, <1>5 DEF IInv

\* Without such an object none comes to be by what keeps frames.
LEMMA KeepsNoPacked ==
    ASSUME NEW v \in Visitor, NoPacked(v), NEW w, Keeps(w, v), NEW c
    PROVE  NoPacked(w) /\ PackedOnTop(w, c)
  <1>1. v.sp \in Nat /\ w.sp \in 0..v.sp
    BY VisitorFacts DEF Keeps
  <1>2. \A i \in 0..w.sp : i \in 0..v.sp /\ w.stk[i] = v.stk[i]
    BY <1>1 DEF Keeps
  <1> QED
    BY <1>2 DEF NoPacked, PackedOnTop

\* Such an object is on top, or nowhere.
LEMMA PackedIsTop ==
    ASSUME NEW v, Good(v), NEW c, PackedOnTop(v, c)
    PROVE  /\ PackedObj(Top(v)) => ~v.inskip /\ (v.gfd = NoField \/ c = "objBegin")
           /\ ~PackedObj(Top(v)) => NoPacked(v)
           /\ v.inskip => NoPacked(v)
  <1>1. v.sp \in 0..v.sp /\ Top(v) = v.stk[v.sp]
    BY VisitorFacts DEF Good
  <1> QED
    BY <1>1 DEF PackedOnTop, NoPacked

\* The end of a value keeps the invariant.
LEMMA EndedKeeps ==
    ASSUME IInv, NEW evs, On(evs), NEW r, After(r), Ended(r, vu)
    PROVE  IInv'
  <1>1. Good(vu) /\ PackedOnTop(vu, LastEv)
    BY TokFacts
  <1>2. r.pc = "run" => PackedOnTop(r.v, Tok.ev)
    <2> SUFFICES ASSUME r.pc = "run", NEW i \in 0..r.v.sp, PackedObj(r.v.stk[i])
                 PROVE  i = r.v.sp /\ ~r.v.inskip /\ r.v.gfd = NoField
      BY DEF PackedOnTop
    <2>1. Keeps(r.v, vu) /\ r.v.gfd = NoField /\ r.v.inskip = vu.inskip
      BY DEF Ended
    <2>2. vu.sp \in Nat /\ r.v.sp \in 0..vu.sp
      BY <1>1, <2>1, VisitorFacts DEF Good, Keeps
    <2>3. i \in 0..vu.sp /\ r.v.stk[i] = vu.stk[i]
      BY <2>1, <2>2 DEF Keeps
    <2>4. i = vu.sp /\ ~vu.inskip
      BY <1>1, <2>3 DEF PackedOnTop
    <2> QED
      BY <2>1, <2>2, <2>4
  <1> QED
    BY <1>2, AfterKeeps DEF Ended

\* An error keeps the invariant.
LEMMA FailKeeps ==
    ASSUME IInv, NEW evs, On(evs), NEW how \in {"failed", "panic"}, NEW v \in Visitor,
           After(Ends(how, v))
    PROVE  IInv'
  <1>1. Ends(how, v).pc = how /\ Ends(how, v).v = v
    BY DEF Ends
  <1> QED
    BY <1>1, AfterKeeps

\* A value is skipped.
LEMMA SkippedKeeps ==
    ASSUME IInv, NEW evs, On(evs), Skipped
    PROVE  IInv'
  <1> DEFINE w == [vu EXCEPT !.inskip = FALSE]
  <1>1. Good(vu) /\ PackedOnTop(vu, LastEv) /\ vu.inskip /\ vu \in Visitor
    BY TokFacts DEF Skipped, Good
  <1>2. w \in Visitor /\ w.sp = vu.sp /\ w.stk = vu.stk /\ w.buf = vu.buf
    BY <1>1 DEF Visitor
  <1>3. Going(w).pc = "run" /\ Going(w).v = w /\ After(Going(w))
    BY DEF Going, Ends, Skipped
  <1> HIDE DEF w
  <1>4. Good(w)
    BY <1>1, <1>2, RestGood
  <1>5. PackedOnTop(w, Tok.ev)
    BY <1>1, <1>2, PackedIsTop DEF NoPacked, PackedOnTop
  <1> QED
    BY <1>2, <1>3, <1>4, <1>5, AfterKeeps

\* A scalar has been written.
LEMMA AfterScalarEnds ==
    ASSUME NEW v, Good(v), NEW cells \in Seq(CellSet)
    PROVE  Ended(AfterScalar(Write(v, cells)), v)
  <1> DEFINE w == Write(v, cells)
  <1>1. /\ w \in Visitor /\ Good(w)
        /\ w.sp = v.sp /\ w.stk = v.stk /\ w.gfd = v.gfd /\ w.inskip = v.inskip
    BY WriteGood
  <1> HIDE DEF w
  <1>2. Ended(AfterScalar(w), w)
    <2>1. CASE w.gfd # NoField
      BY <1>1, <2>1, ValueEndEnds DEF AfterScalar
    <2>2. CASE w.gfd = NoField
      BY <1>1, <2>2, KeepsSelf DEF AfterScalar, Ended, Going, Ends
    <2> QED
      BY <2>1, <2>2
  <1> QED
    BY <1>1, <1>2 DEF Ended, Keeps, w

\* The empty frame above the others, which OnNull raises sp to, is a good one.
LEMMA RaisedGood ==
    ASSUME NEW v, Good(v), NEW w \in Visitor, w.stk = v.stk, w.buf = v.buf,
           w.sp = v.sp + 1, w.sp \in 0..(StkDepth - 1), v.stk[w.sp] = EmptyFrame
    PROVE  Good(w)
  <1>1. v.sp \in Nat /\ StkDepth \in Nat
    BY VisitorFacts DEF Good
  <1>2. \A i \in 0..w.sp : i \in 0..v.sp \/ i = w.sp
    BY <1>1
  <1>3. EmptyFrame.lenPos = 0 /\ EmptyFrame.f = NoField /\ EmptyFrame.typ = "nil"
        /\ EmptyFrame.msg = NoMsg
    BY DEF EmptyFrame
  <1>4. NoField \notin Field
    BY DescAssumption
  <1>5. FrameOK(EmptyFrame)
    BY <1>3, <1>4 DEF FrameOK
  <1>6. Clean(w)
    <2>1. \A i \in (w.sp + 1)..(StkDepth - 1) : i \in (v.sp + 1)..(StkDepth - 1)
      BY <1>1
    <2> QED
      BY <2>1 DEF Good, Clean
  <1>7. Rooted(w)
    BY DEF Good, Rooted
  <1>8. \A i \in 0..w.sp : FrameOK(w.stk[i])
    BY <1>2, <1>5 DEF Good
  <1>9. \A i \in 0..w.sp : w.stk[i].lenPos # 0 => i \in 0..v.sp
    BY <1>2, <1>3
  <1>10. OpenLengths(w)
    BY <1>9 DEF Good, OpenLengths
  <1> QED
    BY <1>6, <1>7, <1>8, <1>10 DEF Good

LEMMA OnNullKeeps == ASSUME IInv, OnNull PROVE IInv'
  <1> DEFINE w == IncrSP(vu)
  <1> USE DEF On, After
  <1>1. On({"null"})
    BY DEF OnNull
  <1>2. /\ Good(vu) /\ PackedOnTop(vu, LastEv) /\ vu \in Visitor /\ LastEv # "objBegin"
    <2>1. /\ Good(vu) /\ PackedOnTop(vu, LastEv) /\ Tok.ev \in {"null"}
          /\ LastEv = "objBegin" => Tok.ev \in {"key", "objEnd", "bad"}
      BY <1>1, TokFacts
    <2> QED
      BY <2>1 DEF Good
  <1>3. /\ w \in Visitor /\ w.stk = vu.stk /\ w.buf = vu.buf
        /\ w.gfd = vu.gfd /\ w.inskip = vu.inskip
        /\ w.sp # 0 => w.sp = vu.sp + 1 /\ w.sp \in 0..(StkDepth - 1) /\ vu.stk[w.sp] = EmptyFrame
    BY <1>2, IncrFacts
  <1>4. CASE Skipped
    BY <1>1, <1>4, SkippedKeeps
  <1>5. CASE ~vu.inskip /\ After(IF w.sp = 0 THEN Ends("failed", w) ELSE ValueEnd(w))
    <2> HIDE DEF w
    <2>1. CASE w.sp = 0
      <3>1. After(Ends("failed", w))
        BY <1>5, <2>1
      <3> QED
        BY <1>1, <1>3, <3>1, FailKeeps
    <2>2. CASE w.sp # 0
      <3> DEFINE r == ValueEnd(w)
      <3>1. After(r)
        BY <1>5, <2>2
      <3>2. vu.sp \in Nat /\ w.sp = vu.sp + 1 /\ Top(w) = EmptyFrame
        BY <1>2, <1>3, <2>2, VisitorFacts DEF Top
      <3>3. \A i \in 0..w.sp : i \in 0..vu.sp \/ i = w.sp
        BY <3>2
      <3>4. EmptyFrame.typ = "nil"
        BY DEF EmptyFrame
      <3>6. ~PackedObj(EmptyFrame)
        BY <3>4 DEF PackedObj
      <3>7. Good(w)
        BY <1>2, <1>3, <2>2, RaisedGood
      <3>8. Ended(r, w)
        BY <3>7, ValueEndEnds
      <3>9. CASE PackedObj(Top(vu))
        <4>1. vu.gfd = NoField
          BY <1>2, <3>9, PackedIsTop
        <4>2. r = Ends("failed", w)
          BY <1>3, <2>2, <3>2, <3>4, <4>1 DEF ValueEnd
        <4> QED
          BY <1>1, <1>3, <3>1, <4>2, FailKeeps
      <3>10. CASE ~PackedObj(Top(vu))
        <4>1. NoPacked(vu)
          BY <1>2, <3>10, PackedIsTop
        <4>2. NoPacked(w)
          BY <1>3, <3>2, <3>3, <3>6, <4>1 DEF NoPacked
        <4> HIDE DEF r
        <4>3. r.pc = "run" => PackedOnTop(r.v, Tok.ev)
          BY <1>3, <3>8, <4>2, KeepsNoPacked DEF Ended
        <4> QED
          BY <1>1, <3>1, <3>8, <4>3, AfterKeeps DEF Ended
      <3> QED
        BY <3>9, <3>10
    <2> QED
      BY <2>1, <2>2
  <1> QED
    BY <1>4, <1>5 DEF OnNull

\* The field a value is for is one.
LEMMA FieldOfType ==
    ASSUME vu \in Visitor, FieldOf # NoField
    PROVE  FieldOf \in Field
  BY VisitorFacts DEF FieldOf, Frame

LEMMA OnNumberKeeps == ASSUME IInv, OnNumber PROVE IInv'
  <1>1. On({"bool", "int", "float"})
    BY DEF OnNumber
  <1>2. Good(vu) /\ vu \in Visitor /\ Tok \in Event
    BY <1>1, TokFacts DEF Good
  <1>3. CASE Skipped
    BY <1>1, <1>3, SkippedKeeps
  <1>4. CASE After(Ends("panic", vu))
    BY <1>1, <1>2, <1>4, FailKeeps
  <1>5. CASE /\ FieldOf \notin {NoField, ZeroField}
             /\ LET tag == IF FieldOf.shape = "list" THEN <<>>
                           ELSE <<Tag(FieldOf.num, FieldOf.kind)>>
                IN  After(IF FieldOf.kind \in Takes(Tok.ev)
                          THEN AfterScalar(Write(vu, tag \o <<Val(Tok.x)>>))
                          ELSE Ends("failed", vu))
    <2> DEFINE tag == IF FieldOf.shape = "list" THEN <<>> ELSE <<Tag(FieldOf.num, FieldOf.kind)>>
               cells == tag \o <<Val(Tok.x)>>
    <2>1. cells \in Seq(CellSet)
      <3>1. FieldOf \in Field
        BY <1>2, <1>5, FieldOfType
      <3>2. FieldOf.num \in Nat /\ FieldOf.kind \in Kinds /\ Tok.x \in Texts
        BY <1>2, <3>1 DEF Field, Event
      <3>3. Tag(FieldOf.num, FieldOf.kind) \in CellSet /\ Val(Tok.x) \in CellSet
        BY <3>2, CellTypes
      <3>4. tag \in Seq(CellSet) /\ <<Val(Tok.x)>> \in Seq(CellSet)
        BY <3>3
      <3> HIDE DEF tag
      <3> QED
        BY <3>4, Joined
    <2>2. CASE FieldOf.kind \in Takes(Tok.ev)
      <3>1. After(AfterScalar(Write(vu, cells)))
        BY <1>5, <2>2
      <3> HIDE DEF cells
      <3>2. Ended(AfterScalar(Write(vu, cells)), vu)
        BY <1>2, <2>1, AfterScalarEnds
      <3> QED
        BY <1>1, <3>1, <3>2, EndedKeeps
    <2>3. CASE FieldOf.kind \notin Takes(Tok.ev)
      <3>1. After(Ends("failed", vu))
        BY <1>5, <2>3
      <3> QED
        BY <1>1, <1>2, <3>1, FailKeeps
    <2> QED
      BY <2>2, <2>3
  <1> QED
    BY <1>3, <1>4, <1>5 DEF OnNumber

LEMMA OnStringKeeps == ASSUME IInv, OnString PROVE IInv'
  <1> USE DEF On, After
  <1>1. On({"str"})
    BY DEF OnString
  <1>2. Good(vu) /\ vu \in Visitor /\ Tok \in Event
    BY <1>1, TokFacts DEF Good
  <1>3. CASE Skipped
    BY <1>1, <1>3, SkippedKeeps
  <1>4. CASE After(Ends("panic", vu))
    BY <1>1, <1>2, <1>4, FailKeeps
  <1>5. CASE ~Skipped /\ ~After(Ends("panic", vu))
    <2>0. StringField # NoField
      BY <1>5 DEF OnString
    <2> DEFINE cells == <<Tag(StringField.num, StringField.kind), Val(Tok.x)>>
    <2>1. cells \in Seq(CellSet)
      <3>1. StringField \in Field
        BY <1>2, <2>0, VisitorFacts DEF StringField, Frame
      <3>2. StringField.num \in Nat /\ StringField.kind \in Kinds /\ Tok.x \in Texts
        BY <1>2, <3>1 DEF Field, Event
      <3>3. Tag(StringField.num, StringField.kind) \in CellSet /\ Val(Tok.x) \in CellSet
        BY <3>2, CellTypes
      <3> QED
        BY <3>3, TwoCells
    <2>2. CASE StringFits
      <3>1. After(AfterScalar(Write(vu, cells)))
        BY <1>5, <2>2 DEF OnString
      <3> HIDE DEF cells
      <3>2. Ended(AfterScalar(Write(vu, cells)), vu)
        BY <1>2, <2>1, AfterScalarEnds
      <3> QED
        BY <1>1, <3>1, <3>2, EndedKeeps
    <2>3. CASE ~StringFits
      <3>1. After(Ends("failed", vu))
        BY <1>5, <2>3 DEF OnString
      <3> QED
        BY <1>1, <1>2, <3>1, FailKeeps
    <2> QED
      BY <2>2, <2>3
  <1> QED
    BY <1>3, <1>4, <1>5

\* The traversal jumps to the end of a container.
LEMMA SkipContainerKeeps ==
    ASSUME IInv, NEW evs, On(evs), SkipContainer
    PROVE  IInv'
  <1>1. /\ Good(vu) /\ PackedOnTop(vu, LastEv) /\ src \in Docs /\ pos \in Nat /\ Len(src) \in Nat
        /\ pos + 1 \in 1..Len(src) /\ src' = src /\ disallow' = disallow /\ pc = "run"
        /\ vu.inskip /\ vu' = vu
    BY TokFacts DEF SkipContainer
  <1>2. NoPacked(vu)
    BY <1>1, PackedIsTop
  <1>3. pos' \in 0..Len(src) /\ pc' \in {"run", "failed"}
    <2>1. CASE Closes = {}
      BY <1>1, <2>1 DEF SkipContainer
    <2>2. CASE Closes # {}
      <3> DEFINE e == CHOOSE x \in Closes : TRUE
      <3>1. e \in Closes /\ Closes \subseteq (pos + 1)..Len(src)
        BY <2>2 DEF Closes
      <3>2. pos' = e - 1 /\ pc' = pc
        BY <2>2 DEF SkipContainer
      <3> HIDE DEF e
      <3> QED
        BY <1>1, <3>1, <3>2
    <2> QED
      BY <2>1, <2>2
  <1>4. TypeOK'
    <2>1. pos' \in 0..Len(src')
      BY <1>1, <1>3
    <2> QED
      BY <1>1, <1>3, <2>1 DEF IInv, TypeOK
  <1>5. Good(vu') /\ PackedOnTop(vu', LastEv')
    BY <1>1, <1>2 DEF NoPacked, PackedOnTop
  <1> QED
    BY <1>3, <1>4, <1>5 DEF IInv

\* A new frame keeps the invariant, unless it is that of an object in the
\* place of a packed list which comes by another event than the begin of an object.
LEMMA OpenedKeeps ==
    ASSUME IInv, NEW evs, On(evs), NEW r, After(r), NoPacked(vu),
           r.pc \in {"run", "failed", "panic"}, r.v \in Visitor,
           r.pc = "run" =>
             /\ Good(r.v) /\ r.v.sp = vu.sp + 1
             /\ \A i \in 0..vu.sp : r.v.stk[i] = vu.stk[i]
             /\ r.v.stk[vu.sp + 1].typ = "obj" => Tok.ev = "objBegin" /\ ~r.v.inskip
    PROVE  IInv'
  <1>1. r.pc = "run" => PackedOnTop(r.v, Tok.ev)
    <2> SUFFICES ASSUME r.pc = "run", NEW i \in 0..r.v.sp, PackedObj(r.v.stk[i])
                 PROVE  i = r.v.sp /\ ~r.v.inskip /\ Tok.ev = "objBegin"
      BY DEF PackedOnTop
    <2>1. r.v.sp = vu.sp + 1 /\ vu.sp \in Nat
      BY TokFacts, VisitorFacts DEF Good
    <2>2. i \in 0..vu.sp \/ i = vu.sp + 1
      BY <2>1
    <2>3. i \notin 0..vu.sp
      BY DEF NoPacked
    <2>4. i = vu.sp + 1 /\ r.v.stk[vu.sp + 1].typ = "obj"
      BY <2>2, <2>3 DEF PackedObj
    <2> QED
      BY <2>1, <2>4
  <1> QED
    BY <1>1, AfterKeeps

\* Going on with nothing changed.
LEMMA SameKeeps ==
    ASSUME IInv, NEW evs, On(evs), After(Going(vu)), vu.gfd = NoField
    PROVE  IInv'
  <1>1. Good(vu) /\ PackedOnTop(vu, LastEv) /\ vu \in Visitor
    BY TokFacts DEF Good
  <1>2. Going(vu).pc = "run" /\ Going(vu).v = vu
    BY DEF Going, Ends
  <1>3. PackedOnTop(vu, Tok.ev)
    BY <1>1 DEF PackedOnTop
  <1> QED
    BY <1>1, <1>2, <1>3, AfterKeeps

LEMMA OnObjectBeginKeeps == ASSUME IInv, OnObjectBegin PROVE IInv'
  <1>1. On({"objBegin"})
    BY DEF OnObjectBegin
  <1>2. /\ Good(vu) /\ PackedOnTop(vu, LastEv) /\ vu \in Visitor
        /\ Tok.ev = "objBegin" /\ LastEv # "objBegin"
    <2>1. /\ Good(vu) /\ PackedOnTop(vu, LastEv) /\ Tok.ev \in {"objBegin"}
          /\ LastEv = "objBegin" => Tok.ev \in {"key", "objEnd", "bad"}
      BY <1>1, TokFacts
    <2> QED
      BY <2>1 DEF Good
  <1>3. CASE SkipContainer
    BY <1>1, <1>3, SkipContainerKeeps
  <1>4. CASE FieldOf = NoField /\ After(Going(vu))
    <2>1. vu.gfd = NoField
      BY <1>4 DEF FieldOf
    <2> QED
      BY <1>1, <1>4, <2>1, SameKeeps
  <1>5. CASE After(Ends("panic", vu))
    BY <1>1, <1>2, <1>5, FailKeeps
  <1>6. CASE /\ ~vu.inskip /\ FieldOf \notin {NoField, ZeroField}
             /\ After(IF FieldOf.shape = "map" THEN Push(vu, "map", FieldOf, 0)
                      ELSE Open(vu, "obj", FieldOf))
    <2>1. FieldOf \in Field
      BY <1>2, <1>6, FieldOfType
    <2>2. NoPacked(vu)
      <3>1. SUFFICES ASSUME PackedObj(Top(vu)) PROVE FALSE
        BY <1>2, PackedIsTop
      <3>2. vu.gfd = NoField /\ Top(vu).typ = "obj"
        BY <1>2, <3>1, PackedIsTop DEF PackedObj
      <3> QED
        BY <1>6, <3>2 DEF FieldOf
    <2>3. CASE FieldOf.shape = "map"
      <3> DEFINE r == Push(vu, "map", FieldOf, 0)
      <3>1. Opened(r, vu, "map", FieldOf)
        BY <1>2, <2>1, <2>3, PushOpens
      <3>2. After(r)
        BY <1>6, <2>3
      <3> HIDE DEF r
      <3> QED
        BY <1>1, <2>2, <3>1, <3>2, OpenedKeeps DEF Opened
    <2>4. CASE FieldOf.shape # "map"
      <3> DEFINE r == Open(vu, "obj", FieldOf)
      <3>1. Opened(r, vu, "obj", FieldOf)
        BY <1>2, <2>1, OpenOpens
      <3>2. After(r)
        BY <1>6, <2>4
      <3> HIDE DEF r
      <3> QED
        BY <1>1, <1>2, <1>6, <2>2, <3>1, <3>2, OpenedKeeps DEF Opened
    <2> QED
      BY <2>3, <2>4
  <1> QED
    BY <1>3, <1>4, <1>5, <1>6 DEF OnObjectBegin

LEMMA OnArrayBeginKeeps == ASSUME IInv, OnArrayBegin PROVE IInv'
  <1>1. On({"arrBegin"})
    BY DEF OnArrayBegin
  <1>2. /\ Good(vu) /\ PackedOnTop(vu, LastEv) /\ vu \in Visitor /\ LastEv # "objBegin"
    <2>1. /\ Good(vu) /\ PackedOnTop(vu, LastEv) /\ Tok.ev \in {"arrBegin"}
          /\ LastEv = "objBegin" => Tok.ev \in {"key", "objEnd", "bad"}
      BY <1>1, TokFacts
    <2> QED
      BY <2>1 DEF Good
  <1>3. CASE SkipContainer
    BY <1>1, <1>3, SkipContainerKeeps
  <1>4. CASE vu.gfd = NoField /\ After(Going(vu))
    BY <1>1, <1>4, SameKeeps
  <1>5. CASE After(Ends("panic", vu))
    BY <1>1, <1>2, <1>5, FailKeeps
  <1>6. CASE /\ ~vu.inskip /\ vu.gfd \notin {NoField, ZeroField}
             /\ After(IF IsPacked(vu.gfd) THEN Open(vu, "arr", vu.gfd)
                      ELSE Push(vu, "arr", vu.gfd, 0))
    <2>1. vu.gfd \in Field
      BY <1>2, <1>6, VisitorFacts
    <2>2. NoPacked(vu)
      BY <1>2, <1>6, PackedIsTop
    <2> DEFINE r == IF IsPacked(vu.gfd) THEN Open(vu, "arr", vu.gfd)
                    ELSE Push(vu, "arr", vu.gfd, 0)
    <2>3. Opened(r, vu, "arr", vu.gfd)
      BY <1>2, <2>1, OpenOpens, PushOpens
    <2>4. After(r)
      BY <1>6
    <2> HIDE DEF r
    <2> QED
      BY <1>1, <2>2, <2>3, <2>4, OpenedKeeps DEF Opened
  <1> QED
    BY <1>3, <1>4, <1>5, <1>6 DEF OnArrayBegin

\* A key keeps the frames, on which there is no object in the place of a list.
LEMMA KeyKeeps ==
    ASSUME IInv, NEW evs, On(evs), NoPacked(vu), NEW w \in Visitor, After(Going(w)),
           w.sp = vu.sp, w.stk = vu.stk, w.buf = vu.buf
    PROVE  IInv'
  <1>1. Good(vu) /\ Good(w)
    BY TokFacts, RestGood
  <1>2. PackedOnTop(w, Tok.ev)
    BY DEF NoPacked, PackedOnTop
  <1>3. Going(w).pc = "run" /\ Going(w).v = w
    BY DEF Going, Ends
  <1> QED
    BY <1>1, <1>2, <1>3, AfterKeeps

LEMMA MemberKeeps ==
    ASSUME IInv, NEW evs, On(evs), NoPacked(vu), NEW m \in Messages, After(Member(m))
    PROVE  IInv'
  <1> DEFINE found == {e \in FieldsOf[m] : e.name = Tok.x}
             f == (CHOOSE e \in found : TRUE).desc
             w == [vu EXCEPT !.gfd = f]
             u == [vu EXCEPT !.inskip = TRUE]
  <1>1. vu \in Visitor
    BY TokFacts DEF Good
  <1>2. CASE found # {}
    <2>1. After(Going(w))
      BY <1>2 DEF Member
    <2>2. f \in Field
      <3>1. (CHOOSE e \in found : TRUE) \in FieldsOf[m]
        BY <1>2
      <3>2. FieldsOf[m] \subseteq [name : Texts, desc : Field]
        BY DescAssumption
      <3> QED
        BY <3>1, <3>2
    <2> HIDE DEF f
    <2>3. w \in Visitor /\ w.sp = vu.sp /\ w.stk = vu.stk /\ w.buf = vu.buf
      BY <1>1, <2>2 DEF Visitor
    <2> HIDE DEF w
    <2> QED
      BY <2>1, <2>3, KeyKeeps
  <1>3. CASE found = {} /\ disallow
    <2>1. After(Ends("failed", vu))
      BY <1>3 DEF Member
    <2> QED
      BY <1>1, <2>1, FailKeeps
  <1>4. CASE found = {} /\ ~disallow
    <2>1. After(Going(u))
      BY <1>4 DEF Member
    <2>2. u \in Visitor /\ u.sp = vu.sp /\ u.stk = vu.stk /\ u.buf = vu.buf
      BY <1>1 DEF Visitor
    <2> HIDE DEF u
    <2> QED
      BY <2>1, <2>2, KeyKeeps
  <1> QED
    BY <1>2, <1>3, <1>4

LEMMA OnObjectKeyKeeps == ASSUME IInv, OnObjectKey PROVE IInv'
  <1>1. On({"key"})
    BY DEF OnObjectKey
  <1>2. /\ Good(vu) /\ PackedOnTop(vu, LastEv) /\ vu \in Visitor /\ Tok \in Event
    BY <1>1, TokFacts DEF Good
  <1>3. /\ vu.sp \in 0..vu.sp /\ Top(vu) = vu.stk[vu.sp] /\ Top(vu) \in Frame
        /\ FrameOK(Top(vu))
    BY <1>2, VisitorFacts DEF Good
  <1>4. CASE /\ Top(vu).typ = "obj"
             /\ After(IF MessageOf(Top(vu)) = NoMsg THEN Ends("panic", vu)
                      ELSE Member(MessageOf(Top(vu))))
    <2>1. CASE MessageOf(Top(vu)) = NoMsg
      <3>1. After(Ends("panic", vu))
        BY <1>4, <2>1
      <3> QED
        BY <1>1, <1>2, <3>1, FailKeeps
    <2>2. CASE MessageOf(Top(vu)) # NoMsg /\ (Top(vu).msg # NoMsg \/ Top(vu).f \in Field)
      <3>1. MessageOf(Top(vu)) \in Messages
        BY <1>3, <2>2 DEF MessageOf, Frame, Field
      <3>2. NoPacked(vu)
        <4>1. SUFFICES ASSUME PackedObj(Top(vu)) PROVE FALSE
          BY <1>2, PackedIsTop
        <4>2. Top(vu).f \in Field /\ IsPacked(Top(vu).f)
          BY <4>1 DEF PackedObj
        <4>3. Top(vu).msg = NoMsg
          BY <1>3, <4>2 DEF FrameOK
        <4>4. Top(vu).f.msg = NoMsg
          BY <4>2 DEF IsPacked, Field
        <4> QED
          BY <2>2, <4>3, <4>4 DEF MessageOf
      <3>3. After(Member(MessageOf(Top(vu))))
        BY <1>4, <2>2
      <3> QED
        BY <1>1, <3>1, <3>2, <3>3, MemberKeeps
    <2>3. Top(vu).msg # NoMsg \/ Top(vu).f \in Field
      BY <1>3, <1>4 DEF FrameOK
    <2> QED
      BY <2>1, <2>2, <2>3
  <1>5. CASE Top(vu).typ # "obj"
    <2>1. NoPacked(vu)
      BY <1>2, <1>5, PackedIsTop DEF PackedObj
    <2>2. CASE Top(vu).typ = "map" /\ After(Entry(Top(vu).f))
      <3> DEFINE r == Entry(Top(vu).f)
      <3>1. Top(vu).f \in Field /\ Top(vu).f.shape = "map"
        BY <1>3, <2>2 DEF FrameOK
      <3>2. /\ r.pc \in {"run", "failed"} /\ r.v \in Visitor
            /\ r.pc = "run" => /\ Good(r.v) /\ r.v.sp = vu.sp + 1
                               /\ \A i \in 0..vu.sp : r.v.stk[i] = vu.stk[i]
                               /\ r.v.stk[vu.sp + 1].typ = "map"
        BY <1>2, <3>1, EntryOpens
      <3>3. After(r)
        BY <2>2
      <3> HIDE DEF r
      <3> QED
        BY <1>1, <2>1, <3>2, <3>3, OpenedKeeps
    <2>3. CASE Top(vu).typ = "arr" /\ After(Going([vu EXCEPT !.gfd = Top(vu).f]))
      <3> DEFINE w == [vu EXCEPT !.gfd = Top(vu).f]
      <3>1. w \in Visitor /\ w.sp = vu.sp /\ w.stk = vu.stk /\ w.buf = vu.buf
        <4>1. Top(vu).f \in Field \cup {NoField}
          BY <1>3 DEF Frame
        <4> QED
          BY <1>2, <4>1 DEF Visitor
      <3>2. After(Going(w))
        BY <2>3
      <3> HIDE DEF w
      <3> QED
        BY <1>1, <2>1, <3>1, <3>2, KeyKeeps
    <2>4. CASE Top(vu).typ = "nil" /\ After(Going([vu EXCEPT !.gfd = ZeroField]))
      <3> DEFINE w == [vu EXCEPT !.gfd = ZeroField]
      <3>1. w \in Visitor /\ w.sp = vu.sp /\ w.stk = vu.stk /\ w.buf = vu.buf
        <4>1. ZeroField \in Field
          BY DEF ZeroField, Field, Kinds
        <4> HIDE DEF ZeroField
        <4> QED
          BY <1>2, <4>1 DEF Visitor
      <3>2. After(Going(w))
        BY <2>4
      <3> HIDE DEF w
      <3> QED
        BY <1>1, <2>1, <3>1, <3>2, KeyKeeps
    <2> QED
      BY <1>5, <2>2, <2>3, <2>4 DEF OnObjectKey
  <1> QED
    BY <1>4, <1>5 DEF OnObjectKey

LEMMA OnObjectEndKeeps == ASSUME IInv, OnObjectEnd PROVE IInv'
  <1>1. On({"objEnd"})
    BY DEF OnObjectEnd
  <1>2. Good(vu)
    BY <1>1, TokFacts
  <1>3. CASE Skipped
    BY <1>1, <1>3, SkippedKeeps
  <1>4. CASE After(ValueEnd(vu))
    BY <1>1, <1>2, <1>4, ValueEndEnds, EndedKeeps
  <1>5. CASE Top(vu).lenPos # 0 /\ After(ValueEnd(Finish(vu).v))
    <2> DEFINE w == Finish(vu).v
    <2>1. /\ w \in Visitor /\ Good(w)
          /\ w.sp = vu.sp /\ w.stk = vu.stk /\ w.gfd = vu.gfd /\ w.inskip = vu.inskip
      BY <1>2, <1>5, FinishGood
    <2>2. After(ValueEnd(w))
      BY <1>5
    <2> HIDE DEF w
    <2>3. Ended(ValueEnd(w), vu)
      BY <2>1, ValueEndEnds DEF Ended, Keeps
    <2> QED
      BY <1>1, <2>2, <2>3, EndedKeeps
  <1> QED
    BY <1>3, <1>4, <1>5 DEF OnObjectEnd

LEMMA OnArrayEndKeeps == ASSUME IInv, OnArrayEnd PROVE IInv'
  <1> DEFINE packed == Top(vu).lenPos # 0 /\ IsPacked(Top(vu).f)
             empty == IsEmptyLength(vu.buf, Top(vu).lenPos)
  <1>1. On({"arrEnd"})
    BY DEF OnArrayEnd
  <1>2. /\ Good(vu) /\ PackedOnTop(vu, LastEv) /\ vu \in Visitor /\ LastEv # "objBegin"
    <2>1. /\ Good(vu) /\ PackedOnTop(vu, LastEv) /\ Tok.ev \in {"arrEnd"}
          /\ LastEv = "objBegin" => Tok.ev \in {"key", "objEnd", "bad"}
      BY <1>1, TokFacts
    <2> QED
      BY <2>1 DEF Good
  <1>3. CASE Skipped
    BY <1>1, <1>3, SkippedKeeps
  <1>4. CASE After(EndList(vu))
    BY <1>1, <1>2, <1>4, EndListEnds, EndedKeeps
  <1>5. CASE packed /\ After(EndList(Finish(vu).v))
    <2> DEFINE w == Finish(vu).v
    <2>1. /\ w \in Visitor /\ Good(w)
          /\ w.sp = vu.sp /\ w.stk = vu.stk /\ w.gfd = vu.gfd /\ w.inskip = vu.inskip
      BY <1>2, <1>5, FinishGood
    <2>2. After(EndList(w))
      BY <1>5
    <2> HIDE DEF w
    <2>3. Ended(EndList(w), vu)
      BY <2>1, EndListEnds DEF Ended, Keeps
    <2> QED
      BY <1>1, <2>2, <2>3, EndedKeeps
  <1>6. CASE /\ packed /\ empty
             /\ After(IF vu.gfd = NoField THEN Ends("panic", vu) ELSE EndList(TakeBack(vu)))
    <2>1. CASE vu.gfd = NoField
      <3>1. After(Ends("panic", vu))
        BY <1>6, <2>1
      <3> QED
        BY <1>1, <1>2, <3>1, FailKeeps
    <2>2. CASE vu.gfd # NoField
      <3>1. After(EndList(TakeBack(vu)))
        BY <1>6, <2>2
      <3>2. Top(vu).typ = "arr"
        <4>1. Top(vu) \in Frame /\ FrameOK(Top(vu))
          <5>1. vu.sp \in 0..vu.sp /\ Top(vu) = vu.stk[vu.sp] /\ Top(vu) \in Frame
            BY <1>2, VisitorFacts
          <5> QED
            BY <1>2, <5>1 DEF Good
        <4>2. Top(vu).f \in Field /\ Top(vu).typ # "nil"
          BY <1>6, <4>1 DEF FrameOK
        <4>3. Top(vu).typ # "map"
          BY <1>6, <4>1 DEF FrameOK, IsPacked
        <4>4. Top(vu).typ # "obj"
          <5>1. ~PackedObj(Top(vu))
            BY <1>2, <2>2, PackedIsTop
          <5> QED
            BY <1>6, <4>2, <5>1 DEF PackedObj
        <4> QED
          BY <4>1, <4>2, <4>3, <4>4 DEF Frame
      <3>3. Top(vu).lenPos # 0 /\ Top(vu).lenPos = Len(vu.buf)
        BY <1>6 DEF IsEmptyLength
      <3>4. Ended(EndList(TakeBack(vu)), vu)
        BY <1>2, <2>2, <3>2, <3>3, TakeBackEnds
      <3> QED
        BY <1>1, <3>1, <3>4, EndedKeeps
    <2> QED
      BY <2>1, <2>2
  <1> QED
    BY <1>3, <1>4, <1>5, <1>6 DEF OnArrayEnd

-----------------------------------------------------------------------------
(* The call *)

LEMMA MalformedKeeps == ASSUME IInv, Malformed PROVE IInv'
  <1>1. On({"bad"}) /\ After(Ends("failed", vu))
    BY DEF Malformed
  <1>2. vu \in Visitor
    BY DEF IInv, TypeOK
  <1> QED
    BY <1>1, <1>2, FailKeeps

LEMMA ResultKeeps == ASSUME IInv, Result PROVE IInv'
  BY DEF IInv, TypeOK, Result

\* The visitor of the pool, and that of a new call.
LEMMA NewVisitorType == NewVisitor \in Visitor
  <1>1. EmptyFrame \in Frame
    BY DEF EmptyFrame, Frame
  <1>2. 0 \in 0..(StkDepth - 1)
    BY SizeAssumption
  <1>3. <<>> \in Seq(CellSet)
    OBVIOUS
  <1> QED
    BY <1>1, <1>2, <1>3 DEF NewVisitor, Visitor

LEMMA CallKeeps == ASSUME IInv, Call PROVE IInv'
  <1> DEFINE root == [typ |-> "obj", msg |-> Root, f |-> NoField, lenPos |-> 0]
             w == Started(NewVisitor)
  <1>1. vu' = w /\ pc' = "run" /\ pos' = 0 /\ src' \in Docs /\ disallow' \in BOOLEAN
    BY DEF IInv, Call
  <1>2. StkDepth \in Nat \ {0} /\ Root \in Messages /\ NoMsg \notin Messages /\ NoField \notin Field
    BY SizeAssumption, DescAssumption
  <1>3. 0 \in 0..(StkDepth - 1)
    BY <1>2
  <1> DEFINE k == [i \in 0..(StkDepth - 1) |-> IF i = 0 THEN root ELSE EmptyFrame]
  <1>4. w = [sp |-> 0, stk |-> k, gfd |-> NoField, inskip |-> FALSE, buf |-> <<>>]
    <2> DEFINE a == [i \in 0..(StkDepth - 1) |-> EmptyFrame]
               b == [a EXCEPT ![0].msg = Root]
               c == [b EXCEPT ![0].typ = "obj"]
    <2>1. b = [i \in 0..(StkDepth - 1) |-> IF i = 0 THEN [EmptyFrame EXCEPT !.msg = Root]
                                           ELSE EmptyFrame]
      BY <1>3
    <2>2. c = [i \in 0..(StkDepth - 1) |->
                IF i = 0 THEN [[EmptyFrame EXCEPT !.msg = Root] EXCEPT !.typ = "obj"]
                ELSE EmptyFrame]
      <3> HIDE DEF b
      <3> QED
        BY <1>3, <2>1
    <2>3. [[EmptyFrame EXCEPT !.msg = Root] EXCEPT !.typ = "obj"] = root
      <3>1. [EmptyFrame EXCEPT !.msg = Root]
            = [typ |-> "nil", msg |-> Root, f |-> NoField, lenPos |-> 0]
        BY DEF EmptyFrame
      <3>2. [[typ |-> "nil", msg |-> Root, f |-> NoField, lenPos |-> 0] EXCEPT !.typ = "obj"]
            = root
        OBVIOUS
      <3> QED
        BY <3>1, <3>2
    <2>4. c = k
      BY <2>2, <2>3
    <2>5. w = [NewVisitor EXCEPT !.stk = c]
      <3>1. NewVisitor.sp = 0 /\ NewVisitor.stk = a
        BY DEF NewVisitor
      <3>2. w = [NewVisitor EXCEPT !.stk[0].msg = Root, !.stk[0].typ = "obj"]
        BY <3>1 DEF Started
      <3> QED
        BY <3>1, <3>2
    <2> HIDE DEF a, b, c, k
    <2> QED
      BY <2>4, <2>5 DEF NewVisitor
  <1>5. k \in [0..(StkDepth - 1) -> Frame]
    BY <1>2 DEF EmptyFrame, Frame
  <1>6. k[0].typ = "obj" /\ k[0].msg = Root /\ k[0].f = NoField /\ k[0].lenPos = 0
    BY <1>3
  <1>7. \A i \in 1..(StkDepth - 1) : k[i] = EmptyFrame
    BY <1>2
  <1> HIDE DEF k, root, w
  <1>8. /\ w \in Visitor /\ w.sp = 0 /\ w.stk = k /\ w.gfd = NoField /\ w.buf = <<>>
    <2>1. <<>> \in Seq(CellSet)
      OBVIOUS
    <2> QED
      BY <1>3, <1>4, <1>5, <2>1 DEF Visitor
  <1>9. \A i \in 0..w.sp : i = 0
    BY <1>8
  <1>10. Good(w)
    <2>1. Clean(w)
      BY <1>7, <1>8 DEF Clean
    <2>2. Rooted(w)
      BY <1>6, <1>8 DEF Rooted
    <2>3. OpenLengths(w)
      BY <1>6, <1>8, <1>9 DEF OpenLengths
    <2>4. FrameOK(k[0])
      BY <1>2, <1>6 DEF FrameOK
    <2> QED
      BY <1>8, <1>9, <2>1, <2>2, <2>3, <2>4 DEF Good
  <1>11. \A c : PackedOnTop(w, c)
    BY <1>2, <1>6, <1>8, <1>9 DEF PackedOnTop, PackedObj
  <1>12. TypeOK'
    <2>1. src' \in Seq(Event)
      BY <1>1, DocAssumption
    <2>2. Len(src') \in Nat
      BY <2>1, LenProperties
    <2>3. pos' \in 0..Len(src')
      BY <1>1, <2>2
    <2> QED
      BY <1>1, <1>8, <2>3 DEF TypeOK
  <1> QED
    BY <1>1, <1>10, <1>11, <1>12 DEF IInv

LEMMA ReleaseKeeps == ASSUME IInv, Release PROVE IInv'
  <1>1. /\ vu' = Reset(vu) /\ pc' = "idle" /\ pos' = 0 /\ src' = <<>> /\ disallow' = FALSE
        /\ vu \in Visitor
    BY DEF IInv, TypeOK, Release
  <1>2. vu' = NewVisitor
    BY <1>1 DEF Reset, NewVisitor, Visitor
  <1>3. pos' \in 0..Len(src')
    <2>1. Len(<<>>) = 0
      OBVIOUS
    <2> QED
      BY <1>1, <2>1
  <1>4. vu' \in Visitor
    BY <1>2, NewVisitorType
  <1> QED
    BY <1>1, <1>2, <1>3, <1>4 DEF IInv, TypeOK

LEMMA InitIInv == ASSUME Init PROVE IInv
  <1>1. pos \in 0..Len(src)
    <2>1. Len(<<>>) = 0
      OBVIOUS
    <2> QED
      BY <2>1 DEF Init
  <1> QED
    BY <1>1, NewVisitorType DEF Init, IInv, TypeOK

LEMMA StutterKeeps == ASSUME IInv, UNCHANGED vars PROVE IInv'
  BY DEF IInv, TypeOK, vars, Good, Clean, Rooted, OpenLengths, OpenAt, FrameOK, PackedOnTop,
         PackedObj, LastEv

\* IInv is inductive: it holds when the pool makes the visitor, and the
\* callbacks, the result, and the call's begin and end keep it.
THEOREM Inductive == Spec => []IInv
  <1>1. Init => IInv
    BY InitIInv
  <1>2. IInv /\ [Next]_vars => IInv'
    <2> SUFFICES ASSUME IInv, [Next]_vars PROVE IInv'
      OBVIOUS
    <2>1. CASE OnValue
      BY <2>1, OnNullKeeps, OnNumberKeeps, OnStringKeeps DEF OnValue
    <2>2. CASE OnContainer
      BY <2>2, OnObjectBeginKeeps, OnObjectKeyKeeps, OnObjectEndKeeps, OnArrayBeginKeeps,
         OnArrayEndKeeps DEF OnContainer
    <2>3. CASE Malformed
      BY <2>3, MalformedKeeps
    <2>4. CASE Result
      BY <2>4, ResultKeeps
    <2>5. CASE Call
      BY <2>5, CallKeeps
    <2>6. CASE Release
      BY <2>6, ReleaseKeeps
    <2>7. CASE Stop \/ UNCHANGED vars
      BY <2>7, StutterKeeps DEF Stop
    <2> QED
      BY <2>1, <2>2, <2>3, <2>4, <2>5, <2>6, <2>7 DEF Next
  <1> QED
    BY <1>1, <1>2, PTL DEF Spec

\* Every variable keeps its type; above all sp stays inside the stack, and
\* every descriptor the visitor follows is one.
THEOREM TypeCorrect == Spec => []TypeOK
  <1>1. IInv => TypeOK
    BY DEF IInv
  <1> QED
    BY <1>1, Inductive, PTL

\* The positions in the stack are those of lengths, each inside the ones below,
\* whatever the message, the text and the depth of the stack: a length is never
\* written back over something else.
THEOREM LengthsStayNested == Spec => []LengthsNested
  <1>1. IInv => LengthsNested
    <2> SUFFICES ASSUME IInv, pc = "run", NEW i \in 0..vu.sp, vu.stk[i].lenPos # 0
                 PROVE  /\ vu.stk[i].lenPos <= Len(vu.buf)
                        /\ vu.buf[vu.stk[i].lenPos].k = "len"
                        /\ \A j \in 0..(i - 1) : vu.stk[j].lenPos < vu.stk[i].lenPos
      BY DEF LengthsNested
    <2>1. Good(vu) /\ Len(vu.buf) \in Nat
      BY VisitorFacts DEF IInv, Good
    <2>2. /\ OpenAt(vu.buf, vu.stk[i].lenPos)
          /\ \A j \in 0..(i - 1) : vu.stk[j].lenPos < vu.stk[i].lenPos
      BY <2>1 DEF Good, OpenLengths
    <2> QED
      BY <2>1, <2>2 DEF OpenAt
  <1> QED
    BY <1>1, Inductive, PTL

-----------------------------------------------------------------------------
(* What is kept *)

\* b has the cells of a, those behind `at` moved by d, and none but those of
\* lengths come in between.
Shifted(b, a, at, d) ==
    /\ a \in Seq(CellSet) /\ b \in Seq(CellSet)
    /\ at \in 0..Len(a) /\ d \in Nat /\ Len(a) + d <= Len(b)
    /\ \A i \in 1..at : b[i] = a[i] \/ (i \notin Written(a) /\ i \notin Written(b))
    /\ \A i \in (at + 1)..(at + d) : i \notin Written(b)
    /\ \A i \in (at + 1)..Len(a) : b[i + d] = a[i]

\* Then the n-th cell that is no part of a length is as before.
LEMMA ShiftKeeps ==
    ASSUME NEW a, NEW b, NEW at, NEW d, Shifted(b, a, at, d)
    PROVE  Kept(b, a)
  <1>1. /\ Len(a) \in Nat /\ Len(b) \in Nat /\ at \in Nat /\ d \in Nat /\ at <= Len(a)
        /\ Len(a) + d <= Len(b)
    BY LenProperties DEF Shifted
  <1> DEFINE M(i) == IF i <= at THEN i ELSE i + d
  <1>2. \A i \in Written(a) : i \in 1..Len(a) /\ i \in Nat
    BY <1>1 DEF Written
  <1>3. \A i \in Written(b) : i \in 1..Len(b) /\ i \in Nat
    BY <1>1 DEF Written
  <1>4. ASSUME NEW i \in Written(a) PROVE M(i) \in Written(b) /\ b[M(i)] = a[i]
    <2>1. i \in 1..Len(a) /\ i \in Nat /\ a[i].k \notin {"len", "more"}
      BY <1>2 DEF Written
    <2>2. CASE i <= at
      <3>1. i \in 1..at /\ M(i) = i /\ i \in 1..Len(b)
        BY <1>1, <2>1, <2>2
      <3>2. b[i] = a[i]
        BY <3>1 DEF Shifted
      <3> QED
        BY <2>1, <3>1, <3>2 DEF Written
    <2>3. CASE ~(i <= at)
      <3>1. i \in (at + 1)..Len(a) /\ M(i) = i + d /\ i + d \in 1..Len(b)
        BY <1>1, <2>1, <2>3
      <3>2. b[i + d] = a[i]
        BY <3>1 DEF Shifted
      <3> QED
        BY <2>1, <3>1, <3>2 DEF Written
    <2> QED
      BY <2>2, <2>3
  <1>5. ASSUME NEW i \in Written(a), NEW j \in Written(b), j <= M(i)
        PROVE  \E h \in Written(a) : h <= i /\ M(h) = j
    <2>1. i \in 1..Len(a) /\ i \in Nat /\ j \in 1..Len(b) /\ j \in Nat
      BY <1>2, <1>3
    <2>2. CASE j <= at
      <3>1. j \in 1..at /\ M(j) = j /\ j \in 1..Len(a)
        BY <1>1, <2>1, <2>2
      <3>2. j \in Written(a)
        BY <3>1 DEF Shifted, Written
      <3>3. j <= i
        BY <1>1, <1>5, <2>1, <2>2
      <3> QED
        BY <3>1, <3>2, <3>3
    <2>3. CASE ~(j <= at)
      <3> DEFINE h == j - d
      <3>1. j \notin (at + 1)..(at + d)
        BY DEF Shifted
      <3>2. h \in Nat /\ h > at /\ ~(h <= at) /\ h <= i /\ h + d = j
        BY <1>1, <1>5, <2>1, <2>3, <3>1
      <3>3. h \in (at + 1)..Len(a) /\ M(h) = j /\ h \in 1..Len(a)
        BY <1>1, <2>1, <3>2
      <3> HIDE DEF h
      <3>4. b[h + d] = a[h] /\ b[j].k \notin {"len", "more"}
        BY <3>3 DEF Shifted, Written
      <3>5. h \in Written(a)
        BY <3>2, <3>3, <3>4 DEF Written
      <3> QED
        BY <3>2, <3>3, <3>5
    <2> QED
      BY <2>2, <2>3
  <1>6. \A g \in Nat, h \in Nat : (g <= h <=> M(g) <= M(h)) /\ (M(g) = M(h) => g = h)
    BY <1>1
  <1> HIDE DEF M
  <1>7. ASSUME NEW i \in Written(a) PROVE Place(b, M(i)) = Place(a, i)
    <2> DEFINE S == {j \in Written(a) : j <= i}
               T == {j \in Written(b) : j <= M(i)}
               f == [j \in S |-> M(j)]
    <2>1. IsFiniteSet(S)
      <3>1. IsFiniteSet(1..Len(a)) /\ S \subseteq 1..Len(a)
        BY <1>1, <1>2, FS_Interval
      <3> QED
        BY <3>1, FS_Subset
    <2>2. IsFiniteSet(T)
      <3>1. IsFiniteSet(1..Len(b)) /\ T \subseteq 1..Len(b)
        BY <1>1, <1>3, FS_Interval
      <3> QED
        BY <3>1, FS_Subset
    <2>3. \A j \in S : M(j) \in T
      BY <1>2, <1>4, <1>6
    <2>4. \A j \in T : \E h \in S : M(h) = j
      BY <1>5
    <2>5. \A g \in S, h \in S : M(g) = M(h) => g = h
      BY <1>2, <1>6
    <2>6. Place(b, M(i)) = Cardinality(T) /\ Place(a, i) = Cardinality(S)
      BY DEF Place
    <2> HIDE DEF S, T
    <2>7. f \in Bijection(S, T)
      BY <2>3, <2>4, <2>5 DEF Bijection, Injection, IsInjective, Surjection
    <2> HIDE DEF f
    <2> QED
      BY <2>1, <2>6, <2>7, FS_Bijection DEF ExistsBijection
  <1> QED
    BY <1>4, <1>7 DEF Kept

LEMMA KeptTrans ==
    ASSUME NEW a, NEW b, NEW c, Kept(b, a), Kept(c, b)
    PROVE  Kept(c, a)
  BY DEF Kept

LEMMA KeptSelf ==
    ASSUME NEW a
    PROVE  Kept(a, a)
  BY DEF Kept

\* Output is appended.
LEMMA JoinedKeeps ==
    ASSUME NEW a \in Seq(CellSet), NEW t \in Seq(CellSet)
    PROVE  Kept(a \o t, a)
  <1> DEFINE b == a \o t
  <1>1. /\ b \in Seq(CellSet) /\ Len(b) = Len(a) + Len(t) /\ Len(a) \in Nat /\ Len(t) \in Nat
        /\ \A i \in 1..Len(a) : b[i] = a[i]
    BY Joined
  <1> HIDE DEF b
  <1>2. Shifted(b, a, Len(a), 0)
    BY <1>1 DEF Shifted
  <1> QED
    BY <1>2, ShiftKeeps DEF b

\* A length is written back: what is behind it moves.
LEMMA FinishLengthKeeps ==
    ASSUME NEW b \in Seq(CellSet), NEW at \in 1..Len(b), b[at].k = "len"
    PROVE  Kept(FinishLength(b, at), b)
  <1> DEFINE pre == SubSeq(b, 1, at - 1)
             mid == LenCells(Len(b) - at)
             post == SubSeq(b, at + 1, Len(b))
             a == pre \o mid
             r == FinishLength(b, at)
             d == Len(mid) - 1
  <1>1. Len(b) \in Nat /\ at \in Nat /\ at <= Len(b) /\ \A i \in 1..Len(b) : b[i] \in CellSet
    BY LenProperties, ElementOfSeq
  <1>2. pre \in Seq(CellSet) /\ Len(pre) = at - 1 /\ \A i \in 1..(at - 1) : pre[i] = b[i]
    <2>1. \A i \in 1..(at - 1) : b[i] \in CellSet
      BY <1>1
    <2>2. /\ pre \in Seq(CellSet)
          /\ Len(pre) = IF 1 <= at - 1 THEN (at - 1) - 1 + 1 ELSE 0
          /\ \A i \in 1..((at - 1) - 1 + 1) : pre[i] = b[1 + i - 1]
      BY <1>1, <2>1, SubSeqProperties
    <2> QED
      BY <1>1, <2>2
  <1>3. /\ post \in Seq(CellSet) /\ Len(post) = Len(b) - at
        /\ \A i \in 1..(Len(b) - at) : post[i] = b[at + i]
    <2>1. \A i \in (at + 1)..Len(b) : b[i] \in CellSet
      BY <1>1
    <2>2. /\ post \in Seq(CellSet)
          /\ Len(post) = IF at + 1 <= Len(b) THEN Len(b) - (at + 1) + 1 ELSE 0
          /\ \A i \in 1..(Len(b) - (at + 1) + 1) : post[i] = b[(at + 1) + i - 1]
      BY <1>1, <2>1, SubSeqProperties
    <2> QED
      BY <1>1, <2>2
  <1>4. /\ mid \in Seq(CellSet) /\ Len(mid) \in Nat \ {0}
        /\ \A i \in 1..Len(mid) : mid[i].k \in {"len", "more"}
    <2>1. Len(b) - at \in Nat
      BY <1>1
    <2> QED
      BY <2>1, LenCellsTypes
  <1>5. r = a \o post
    BY DEF FinishLength
  <1> HIDE DEF pre, mid, post, r
  <1>6. /\ a \in Seq(CellSet) /\ Len(a) = Len(pre) + Len(mid)
        /\ \A i \in 1..Len(pre) : a[i] = pre[i]
        /\ \A i \in 1..Len(mid) : a[Len(pre) + i] = mid[i]
    BY <1>2, <1>4, Joined
  <1> HIDE DEF a
  <1>7. /\ r \in Seq(CellSet) /\ Len(r) = Len(a) + Len(post)
        /\ \A i \in 1..Len(a) : r[i] = a[i]
        /\ \A i \in 1..Len(post) : r[Len(a) + i] = post[i]
    BY <1>3, <1>5, <1>6, Joined
  <1>8. d \in Nat /\ Len(a) = at + d /\ Len(r) = Len(b) + d /\ at \in 0..Len(b) /\ Len(pre) = at - 1
    BY <1>1, <1>2, <1>3, <1>4, <1>6, <1>7
  <1>9. ASSUME NEW i \in at..(at + d) PROVE i \notin Written(r)
    <2>1. i \in 1..Len(a) /\ i - (at - 1) \in 1..Len(mid) /\ Len(pre) + (i - (at - 1)) = i
      BY <1>1, <1>4, <1>8
    <2>2. r[i] = a[i] /\ a[i] = mid[i - (at - 1)]
      BY <1>6, <1>7, <2>1
    <2> QED
      BY <1>4, <2>1, <2>2 DEF Written
  <1>10. ASSUME NEW i \in 1..at PROVE r[i] = b[i] \/ (i \notin Written(b) /\ i \notin Written(r))
    <2>1. CASE i = at
      <3>1. i \in at..(at + d)
        BY <1>1, <1>8, <2>1
      <3> QED
        BY <1>9, <2>1, <3>1 DEF Written
    <2>2. CASE i # at
      <3>1. i \in 1..(at - 1) /\ i \in 1..Len(a) /\ i \in 1..Len(pre)
        BY <1>1, <1>8, <2>2
      <3> QED
        BY <1>2, <1>6, <1>7, <3>1
    <2> QED
      BY <2>1, <2>2
  <1>11. ASSUME NEW i \in (at + 1)..Len(b) PROVE r[i + d] = b[i]
    <2>1. i - at \in 1..Len(post) /\ i - at \in 1..(Len(b) - at) /\ Len(a) + (i - at) = i + d
          /\ at + (i - at) = i
      BY <1>1, <1>3, <1>8
    <2> QED
      BY <1>3, <1>7, <2>1, ZenonT(60)
  <1>12. \A i \in (at + 1)..(at + d) : i \notin Written(r)
    BY <1>1, <1>8, <1>9
  <1> HIDE DEF d
  <1>13. Shifted(r, b, at, d)
    BY <1>7, <1>8, <1>10, <1>11, <1>12 DEF Shifted
  <1> QED
    BY <1>13, ShiftKeeps DEF r

-----------------------------------------------------------------------------
(* The visitor *)

\* FinishSpeculativeLength at the top frame
LEMMA FinishKeeps ==
    ASSUME NEW v, Good(v)
    PROVE  Kept(Finish(v).v.buf, v.buf)
  <1> DEFINE at == Top(v).lenPos
  <1>1. v \in Visitor /\ v.buf \in Seq(CellSet) /\ v.sp \in 0..v.sp /\ Top(v) = v.stk[v.sp]
    BY VisitorFacts DEF Good
  <1>2. CASE at = 0
    <2>1. Finish(v) = Ends("panic", v)
      BY <1>2 DEF Finish
    <2> QED
      BY <2>1, KeptSelf DEF Ends
  <1>3. CASE at # 0
    <2> DEFINE c == FinishLength(v.buf, at)
    <2>1. OpenAt(v.buf, at)
      BY <1>1, <1>3 DEF Good, OpenLengths
    <2>2. at \in 1..Len(v.buf) /\ v.buf[at].k = "len"
      <3>1. at \in 2..Len(v.buf) /\ Len(v.buf) \in Nat /\ v.buf[at].k = "len"
        BY <1>1, <2>1, LenProperties DEF OpenAt
      <3> HIDE DEF at
      <3> QED
        BY <3>1
    <2>3. Kept(c, v.buf)
      BY <1>1, <2>2, FinishLengthKeeps
    <2>4. Finish(v) = Going([v EXCEPT !.buf = c])
      BY <1>3 DEF Finish
    <2> HIDE DEF c, at
    <2>5. Finish(v).v.buf = c
      BY <1>1, <2>4 DEF Going, Ends, Visitor
    <2> QED
      BY <2>3, <2>5
  <1> QED
    BY <1>2, <1>3

LEMMA EndEntryKept ==
    ASSUME NEW v, Good(v)
    PROVE  Kept(EndEntry(v).v.buf, v.buf)
  <1> DEFINE r == Finish(v)
  <1>1. Kept(r.v.buf, v.buf)
    BY FinishKeeps
  <1>2. CASE Top(v).typ # "map"
    <2>1. EndEntry(v) = Going(v)
      BY <1>2 DEF EndEntry
    <2> QED
      BY <2>1, KeptSelf DEF Going, Ends
  <1>3. CASE Top(v).typ = "map" /\ r.pc # "run"
    <2>1. EndEntry(v) = r
      BY <1>3 DEF EndEntry
    <2> QED
      BY <1>1, <2>1
  <1>4. CASE Top(v).typ = "map" /\ r.pc = "run"
    <2>1. EndEntry(v) = Going(Pop(r.v)) /\ Top(v).lenPos # 0
      BY <1>4 DEF EndEntry, Finish, Ends
    <2>2. r.v \in Visitor
      BY <2>1, FinishGood
    <2> HIDE DEF r
    <2>3. Pop(r.v).buf = r.v.buf
      BY <2>2 DEF Pop, Visitor
    <2>4. EndEntry(v).v.buf = r.v.buf
      BY <2>1, <2>3 DEF Going, Ends
    <2> QED
      BY <1>1, <2>4
  <1> QED
    BY <1>2, <1>3, <1>4

\* onValueEnd
LEMMA ValueEndKept ==
    ASSUME NEW v, Good(v)
    PROVE  Kept(ValueEnd(v).v.buf, v.buf)
  <1>1. /\ v \in Visitor /\ v.sp \in Nat /\ Top(v) = v.stk[v.sp] /\ Top(v) \in Frame
        /\ v.gfd \in Field \cup {NoField}
    BY VisitorFacts DEF Good
  <1>2. CASE v.gfd # NoField
    <2> DEFINE w == [v EXCEPT !.gfd = NoField]
    <2>1. w \in Visitor /\ w.sp = v.sp /\ w.stk = v.stk /\ w.buf = v.buf
      BY <1>1 DEF Visitor
    <2>2. ValueEnd(v) = EndEntry(w)
      BY <1>2 DEF ValueEnd
    <2> HIDE DEF w
    <2>3. Good(w)
      BY <2>1, RestGood
    <2> QED
      BY <2>1, <2>2, <2>3, EndEntryKept
  <1>3. CASE v.gfd = NoField /\ v.sp = 0
    <2>1. ValueEnd(v) = Going(v)
      BY <1>3 DEF ValueEnd
    <2> QED
      BY <2>1, KeptSelf DEF Going, Ends
  <1>4. CASE v.gfd = NoField /\ v.sp # 0 /\ Top(v).typ = "obj"
    <2> DEFINE w == Pop(v)
    <2>1. ValueEnd(v) = EndEntry(w)
      BY <1>4 DEF ValueEnd
    <2>2. Good(w) /\ w.buf = v.buf
      BY <1>4, PopGood
    <2> HIDE DEF w
    <2> QED
      BY <2>1, <2>2, EndEntryKept
  <1>5. CASE v.gfd = NoField /\ v.sp # 0 /\ Top(v).typ \in {"arr", "map"}
    <2>1. ValueEnd(v) = Going(Pop(v)) /\ Pop(v).buf = v.buf
      BY <1>5, PopGood DEF ValueEnd
    <2> QED
      BY <2>1, KeptSelf DEF Going, Ends
  <1>6. CASE v.gfd = NoField /\ v.sp # 0 /\ Top(v).typ \notin {"obj", "arr", "map"}
    <2>1. ValueEnd(v) = Ends("failed", v)
      BY <1>6 DEF ValueEnd
    <2> QED
      BY <2>1, KeptSelf DEF Ends
  <1> QED
    BY <1>2, <1>3, <1>4, <1>5, <1>6

\* The end of a list
LEMMA EndListKept ==
    ASSUME NEW v, Good(v)
    PROVE  Kept(EndList(v).v.buf, v.buf)
  <1> DEFINE r == ValueEnd(v)
  <1>1. Kept(r.v.buf, v.buf) /\ r.v \in Visitor
    BY ValueEndKept, ValueEndEnds DEF Ended
  <1>2. CASE r.pc # "run"
    <2>1. EndList(v) = r
      BY <1>2 DEF EndList
    <2> QED
      BY <1>1, <2>1
  <1>3. CASE r.pc = "run"
    <2>1. EndList(v) = Going(PopLists(r.v))
      BY <1>3 DEF EndList
    <2> HIDE DEF r
    <2>2. PopLists(r.v).buf = r.v.buf
      BY <1>1 DEF PopLists, Visitor
    <2> QED
      BY <1>1, <2>1, <2>2 DEF Going, Ends
  <1> QED
    BY <1>2, <1>3

\* push writes nothing.
LEMMA PushKeeps ==
    ASSUME NEW v \in Visitor, NEW typ, NEW f, NEW at
    PROVE  Push(v, typ, f, at).v.buf = v.buf
  BY DEF Push, IncrSP, Ends, Visitor

\* AppendSpeculativeLength behind a tag
LEMMA LengthKept ==
    ASSUME NEW v \in Visitor, NEW f \in Field
    PROVE  LET b == SpeculativeLength(Append(v.buf, Tag(f.num, "msg")))
           IN  Kept(b, v.buf) /\ b \in Seq(CellSet)
  <1> DEFINE tag == Tag(f.num, "msg")
             len == Cell("len", 0, "")
             a == Append(v.buf, tag)
  <1>1. tag \in CellSet /\ len \in CellSet
    <2>1. f.num \in Nat /\ "msg" \in Kinds /\ 0 \in Nat /\ "" \in Texts
      BY DocAssumption DEF Field, Kinds
    <2> QED
      BY <2>1, CellTypes
  <1>2. v.buf \in Seq(CellSet)
    BY VisitorFacts
  <1>3. SpeculativeLength(a) = Append(a, len)
    BY DEF SpeculativeLength
  <1> HIDE DEF tag, len
  <1>4. <<tag>> \in Seq(CellSet) /\ <<len>> \in Seq(CellSet)
    BY <1>1
  <1>5. a = v.buf \o <<tag>> /\ a \in Seq(CellSet)
    BY <1>1, <1>2, AppendIsConcat, AppendProperties
  <1>6. Kept(a, v.buf)
    BY <1>2, <1>4, <1>5, JoinedKeeps
  <1> HIDE DEF a
  <1>7. Append(a, len) = a \o <<len>> /\ Append(a, len) \in Seq(CellSet)
    BY <1>1, <1>5, AppendIsConcat, AppendProperties
  <1>8. Kept(Append(a, len), a)
    BY <1>4, <1>5, <1>7, JoinedKeeps
  <1>9. Kept(Append(a, len), v.buf)
    BY <1>6, <1>8, KeptTrans
  <1> QED
    BY <1>3, <1>7, <1>9 DEF a, tag

LEMMA OpenKeeps ==
    ASSUME NEW v, Good(v), NEW typ, NEW f \in Field
    PROVE  Kept(Open(v, typ, f).v.buf, v.buf)
  <1> DEFINE b == SpeculativeLength(Append(v.buf, Tag(f.num, "msg")))
             w == [v EXCEPT !.buf = b]
  <1>1. w \in Visitor /\ w.buf = b
    BY LengthWritten
  <1>2. Kept(b, v.buf)
    BY LengthKept DEF Good
  <1>3. Open(v, typ, f) = Push(w, typ, f, Len(w.buf))
    BY DEF Open
  <1> HIDE DEF w, b
  <1> QED
    BY <1>1, <1>2, <1>3, PushKeeps

\* The tag, the length and the key of a map entry
LEMMA EntryKeeps ==
    ASSUME Good(vu), NEW f \in Field, Tok \in Event
    PROVE  Kept(Entry(f).v.buf, vu.buf)
  <1> DEFINE b == SpeculativeLength(Append(vu.buf, Tag(f.num, "msg")))
             k == <<Tag(1, IF f.key = "num" THEN "int" ELSE "str"), Cell("key", 0, KeyText)>>
             u == [vu EXCEPT !.buf = b \o k]
             r == Push(u, "map", f, Len(b))
  <1>1. vu \in Visitor /\ vu.buf \in Seq(CellSet)
    BY VisitorFacts DEF Good
  <1>2. CASE f.key = "other"
    BY <1>2, KeptSelf DEF Entry, Ends
  <1>3. CASE f.key # "other"
    <2>1. Kept(b, vu.buf) /\ b \in Seq(CellSet)
      BY <1>1, LengthKept
    <2>2. k \in Seq(CellSet)
      <3>1. KeyText \in Texts
        BY DocAssumption DEF KeyText, Event
      <3>2. "int" \in Kinds /\ "str" \in Kinds /\ 1 \in Nat
        BY DEF Kinds
      <3>3. Tag(1, IF f.key = "num" THEN "int" ELSE "str") \in CellSet
            /\ Cell("key", 0, KeyText) \in CellSet
        BY <3>1, <3>2, CellTypes
      <3> QED
        BY <3>3, TwoCells
    <2>3. Entry(f) = IF r.pc = "run" THEN Going([r.v EXCEPT !.gfd = ValueField(f)]) ELSE r
      BY <1>3 DEF Entry
    <2> HIDE DEF b, k
    <2>4. Kept(b \o k, vu.buf) /\ b \o k \in Seq(CellSet)
      <3>1. Kept(b \o k, b) /\ b \o k \in Seq(CellSet)
        BY <2>1, <2>2, JoinedKeeps, Joined
      <3> QED
        BY <2>1, <3>1, KeptTrans
    <2>5. u \in Visitor /\ u.buf = b \o k
      BY <1>1, <2>4 DEF Visitor
    <2> HIDE DEF u
    <2>6. r.v.buf = u.buf
      BY <2>5, PushKeeps, SMTT(30)
    <2>7. r.v.buf = [r.v EXCEPT !.gfd = ValueField(f)].buf
      BY DEF Push, IncrSP, Ends
    <2> HIDE DEF r
    <2> QED
      BY <2>3, <2>4, <2>5, <2>6, <2>7 DEF Going, Ends
  <1> QED
    BY <1>2, <1>3

-----------------------------------------------------------------------------
(* The callbacks *)

\* The output after the step is kept.
LEMMA AfterKept ==
    ASSUME NEW r, After(r), Kept(r.v.buf, vu.buf)
    PROVE  Kept(vu'.buf, vu.buf)
  BY DEF After

\* Nothing is written.
LEMMA SkippedKept ==
    ASSUME vu \in Visitor, Skipped
    PROVE  Kept(vu'.buf, vu.buf)
  <1>1. vu'.buf = vu.buf
    BY DEF Skipped, After, Going, Ends, Visitor
  <1> QED
    BY <1>1, KeptSelf

LEMMA SameKept ==
    ASSUME NEW how, After(Ends(how, vu))
    PROVE  Kept(vu'.buf, vu.buf)
  <1>1. vu'.buf = vu.buf
    BY DEF After, Ends
  <1> QED
    BY <1>1, KeptSelf

\* A scalar has been written.
LEMMA AfterScalarKept ==
    ASSUME NEW v, Good(v), NEW cells \in Seq(CellSet)
    PROVE  Kept(AfterScalar(Write(v, cells)).v.buf, v.buf)
  <1> DEFINE w == Write(v, cells)
  <1>1. w \in Visitor /\ Good(w) /\ w.buf = v.buf \o cells
    BY WriteGood
  <1>2. Kept(w.buf, v.buf)
    BY <1>1, JoinedKeeps, VisitorFacts DEF Good
  <1> HIDE DEF w
  <1>3. Kept(AfterScalar(w).v.buf, w.buf)
    <2>1. CASE w.gfd # NoField
      BY <1>1, <2>1, ValueEndKept DEF AfterScalar
    <2>2. CASE w.gfd = NoField
      BY <2>2, KeptSelf DEF AfterScalar, Going, Ends
    <2> QED
      BY <2>1, <2>2
  <1>4. Kept(AfterScalar(w).v.buf, v.buf)
    BY <1>2, <1>3, KeptTrans
  <1> QED
    BY <1>4 DEF w

LEMMA OnNullKept == ASSUME IInv, OnNull PROVE Kept(vu'.buf, vu.buf)
  <1> DEFINE w == IncrSP(vu)
  <1>1. On({"null"})
    BY DEF OnNull
  <1>2. Good(vu) /\ vu \in Visitor
    BY <1>1, TokFacts DEF Good
  <1>3. CASE Skipped
    BY <1>2, <1>3, SkippedKept
  <1>4. CASE ~vu.inskip /\ After(IF w.sp = 0 THEN Ends("failed", w) ELSE ValueEnd(w))
    <2>1. /\ w \in Visitor /\ w.stk = vu.stk /\ w.buf = vu.buf
          /\ w.sp # 0 => w.sp = vu.sp + 1 /\ w.sp \in 0..(StkDepth - 1)
                         /\ vu.stk[w.sp] = EmptyFrame
      BY <1>2, IncrFacts
    <2> HIDE DEF w
    <2>2. CASE w.sp = 0
      <3>1. vu' = w
        BY <1>4, <2>2 DEF After, Ends
      <3> QED
        BY <2>1, <3>1, KeptSelf
    <2>3. CASE w.sp # 0
      <3>1. After(ValueEnd(w))
        BY <1>4, <2>3
      <3>2. Good(w)
        BY <1>2, <2>1, <2>3, RaisedGood
      <3> QED
        BY <2>1, <3>1, <3>2, ValueEndKept, AfterKept
    <2> QED
      BY <2>2, <2>3
  <1> QED
    BY <1>3, <1>4 DEF OnNull

LEMMA OnNumberKept == ASSUME IInv, OnNumber PROVE Kept(vu'.buf, vu.buf)
  <1>1. On({"bool", "int", "float"})
    BY DEF OnNumber
  <1>2. Good(vu) /\ vu \in Visitor /\ Tok \in Event
    BY <1>1, TokFacts DEF Good
  <1>3. CASE Skipped
    BY <1>2, <1>3, SkippedKept
  <1>4. CASE After(Ends("panic", vu))
    BY <1>4, SameKept
  <1>5. CASE /\ FieldOf \notin {NoField, ZeroField}
             /\ LET tag == IF FieldOf.shape = "list" THEN <<>>
                           ELSE <<Tag(FieldOf.num, FieldOf.kind)>>
                IN  After(IF FieldOf.kind \in Takes(Tok.ev)
                          THEN AfterScalar(Write(vu, tag \o <<Val(Tok.x)>>))
                          ELSE Ends("failed", vu))
    <2> DEFINE tag == IF FieldOf.shape = "list" THEN <<>> ELSE <<Tag(FieldOf.num, FieldOf.kind)>>
               cells == tag \o <<Val(Tok.x)>>
    <2>1. cells \in Seq(CellSet)
      <3>1. FieldOf \in Field
        BY <1>2, <1>5, FieldOfType
      <3>2. FieldOf.num \in Nat /\ FieldOf.kind \in Kinds /\ Tok.x \in Texts
        BY <1>2, <3>1 DEF Field, Event
      <3>3. Tag(FieldOf.num, FieldOf.kind) \in CellSet /\ Val(Tok.x) \in CellSet
        BY <3>2, CellTypes
      <3>4. tag \in Seq(CellSet) /\ <<Val(Tok.x)>> \in Seq(CellSet)
        BY <3>3
      <3> HIDE DEF tag
      <3> QED
        BY <3>4, Joined
    <2>2. CASE FieldOf.kind \in Takes(Tok.ev)
      <3>1. After(AfterScalar(Write(vu, cells)))
        BY <1>5, <2>2
      <3> HIDE DEF cells
      <3> QED
        BY <1>2, <2>1, <3>1, AfterScalarKept, AfterKept
    <2>3. CASE FieldOf.kind \notin Takes(Tok.ev)
      <3>1. After(Ends("failed", vu))
        BY <1>5, <2>3
      <3> QED
        BY <3>1, SameKept
    <2> QED
      BY <2>2, <2>3
  <1> QED
    BY <1>3, <1>4, <1>5 DEF OnNumber

LEMMA OnStringKept == ASSUME IInv, OnString PROVE Kept(vu'.buf, vu.buf)
  <1>1. On({"str"})
    BY DEF OnString
  <1>2. Good(vu) /\ vu \in Visitor /\ Tok \in Event
    BY <1>1, TokFacts DEF Good
  <1>3. CASE Skipped
    BY <1>2, <1>3, SkippedKept
  <1>4. CASE After(Ends("panic", vu))
    BY <1>4, SameKept
  <1>5. CASE ~Skipped /\ ~After(Ends("panic", vu))
    <2>0. StringField # NoField
      BY <1>5 DEF OnString
    <2> DEFINE cells == <<Tag(StringField.num, StringField.kind), Val(Tok.x)>>
    <2>1. cells \in Seq(CellSet)
      <3>1. StringField \in Field
        BY <1>2, <2>0, VisitorFacts DEF StringField, Frame
      <3>2. StringField.num \in Nat /\ StringField.kind \in Kinds /\ Tok.x \in Texts
        BY <1>2, <3>1 DEF Field, Event
      <3>3. Tag(StringField.num, StringField.kind) \in CellSet /\ Val(Tok.x) \in CellSet
        BY <3>2, CellTypes
      <3> QED
        BY <3>3, TwoCells
    <2>2. CASE StringFits
      <3>1. After(AfterScalar(Write(vu, cells)))
        BY <1>5, <2>2 DEF OnString
      <3> HIDE DEF cells
      <3> QED
        BY <1>2, <2>1, <3>1, AfterScalarKept, AfterKept
    <2>3. CASE ~StringFits
      <3>1. After(Ends("failed", vu))
        BY <1>5, <2>3 DEF OnString
      <3> QED
        BY <3>1, SameKept
    <2> QED
      BY <2>2, <2>3
  <1> QED
    BY <1>3, <1>4, <1>5

LEMMA OnObjectBeginKept == ASSUME IInv, OnObjectBegin PROVE Kept(vu'.buf, vu.buf)
  <1>1. Good(vu) /\ vu \in Visitor
    <2>1. On({"objBegin"})
      BY DEF OnObjectBegin
    <2> QED
      BY <2>1, TokFacts DEF Good
  <1>2. CASE SkipContainer
    BY <1>2, KeptSelf DEF SkipContainer
  <1>3. CASE After(Going(vu)) \/ After(Ends("panic", vu))
    BY <1>3, SameKept DEF Going
  <1>4. CASE /\ FieldOf \notin {NoField, ZeroField}
             /\ After(IF FieldOf.shape = "map" THEN Push(vu, "map", FieldOf, 0)
                      ELSE Open(vu, "obj", FieldOf))
    <2> DEFINE r == IF FieldOf.shape = "map" THEN Push(vu, "map", FieldOf, 0)
                    ELSE Open(vu, "obj", FieldOf)
    <2>1. FieldOf \in Field
      BY <1>1, <1>4, FieldOfType
    <2>2. Kept(r.v.buf, vu.buf)
      <3>1. Kept(Push(vu, "map", FieldOf, 0).v.buf, vu.buf)
        BY <1>1, PushKeeps, KeptSelf
      <3>2. Kept(Open(vu, "obj", FieldOf).v.buf, vu.buf)
        BY <1>1, <2>1, OpenKeeps
      <3> QED
        BY <3>1, <3>2
    <2> QED
      BY <1>4, <2>2, AfterKept
  <1> QED
    BY <1>2, <1>3, <1>4 DEF OnObjectBegin

LEMMA OnArrayBeginKept == ASSUME IInv, OnArrayBegin PROVE Kept(vu'.buf, vu.buf)
  <1>1. Good(vu) /\ vu \in Visitor
    <2>1. On({"arrBegin"})
      BY DEF OnArrayBegin
    <2> QED
      BY <2>1, TokFacts DEF Good
  <1>2. CASE SkipContainer
    BY <1>2, KeptSelf DEF SkipContainer
  <1>3. CASE After(Going(vu)) \/ After(Ends("panic", vu))
    BY <1>3, SameKept DEF Going
  <1>4. CASE /\ vu.gfd \notin {NoField, ZeroField}
             /\ After(IF IsPacked(vu.gfd) THEN Open(vu, "arr", vu.gfd)
                      ELSE Push(vu, "arr", vu.gfd, 0))
    <2> DEFINE r == IF IsPacked(vu.gfd) THEN Open(vu, "arr", vu.gfd)
                    ELSE Push(vu, "arr", vu.gfd, 0)
    <2>1. vu.gfd \in Field
      BY <1>1, <1>4, VisitorFacts
    <2>2. Kept(r.v.buf, vu.buf)
      <3>1. Kept(Push(vu, "arr", vu.gfd, 0).v.buf, vu.buf)
        BY <1>1, PushKeeps, KeptSelf
      <3>2. Kept(Open(vu, "arr", vu.gfd).v.buf, vu.buf)
        BY <1>1, <2>1, OpenKeeps
      <3> QED
        BY <3>1, <3>2
    <2> QED
      BY <1>4, <2>2, AfterKept
  <1> QED
    BY <1>2, <1>3, <1>4 DEF OnArrayBegin

LEMMA OnObjectKeyKept == ASSUME IInv, OnObjectKey PROVE Kept(vu'.buf, vu.buf)
  <1>1. Good(vu) /\ vu \in Visitor /\ Tok \in Event
    <2>1. On({"key"})
      BY DEF OnObjectKey
    <2> QED
      BY <2>1, TokFacts DEF Good
  <1>2. CASE After(IF MessageOf(Top(vu)) = NoMsg THEN Ends("panic", vu)
                   ELSE Member(MessageOf(Top(vu))))
    <2>1. vu'.buf = vu.buf
      BY <1>1, <1>2 DEF After, Ends, Member, Going, Visitor
    <2> QED
      BY <2>1, KeptSelf
  <1>3. CASE Top(vu).typ = "map" /\ After(Entry(Top(vu).f))
    <2>1. Top(vu).f \in Field
      <3>1. vu.sp \in 0..vu.sp /\ Top(vu) = vu.stk[vu.sp]
        BY <1>1, VisitorFacts
      <3>2. FrameOK(Top(vu))
        BY <1>1, <3>1 DEF Good
      <3> QED
        BY <1>3, <3>2 DEF FrameOK
    <2> QED
      BY <1>1, <1>3, <2>1, EntryKeeps, AfterKept
  <1>4. CASE \E f : After(Going([vu EXCEPT !.gfd = f]))
    <2>1. vu'.buf = vu.buf
      BY <1>1, <1>4 DEF After, Going, Ends, Visitor
    <2> QED
      BY <2>1, KeptSelf
  <1> QED
    BY <1>2, <1>3, <1>4 DEF OnObjectKey

LEMMA OnObjectEndKept == ASSUME IInv, OnObjectEnd PROVE Kept(vu'.buf, vu.buf)
  <1>1. Good(vu) /\ vu \in Visitor
    <2>1. On({"objEnd"})
      BY DEF OnObjectEnd
    <2> QED
      BY <2>1, TokFacts DEF Good
  <1>2. CASE Skipped
    BY <1>1, <1>2, SkippedKept
  <1>3. CASE After(ValueEnd(vu))
    BY <1>1, <1>3, ValueEndKept, AfterKept
  <1>4. CASE Top(vu).lenPos # 0 /\ After(ValueEnd(Finish(vu).v))
    <2> DEFINE w == Finish(vu).v
    <2>1. Good(w) /\ Kept(w.buf, vu.buf) /\ After(ValueEnd(w))
      BY <1>1, <1>4, FinishGood, FinishKeeps
    <2> HIDE DEF w
    <2>2. Kept(ValueEnd(w).v.buf, w.buf)
      BY <2>1, ValueEndKept
    <2>3. Kept(ValueEnd(w).v.buf, vu.buf)
      BY <2>1, <2>2, KeptTrans
    <2> QED
      BY <2>1, <2>3, AfterKept
  <1> QED
    BY <1>2, <1>3, <1>4 DEF OnObjectEnd

\* The end of an empty packed list takes its tag away, and its length.
LEMMA TakenBack ==
    ASSUME NEW v, Good(v), v.gfd # NoField, Top(v).typ # "map", Top(v).lenPos = Len(v.buf)
    PROVE  EndList(TakeBack(v)).v.buf = SubSeq(v.buf, 1, Len(v.buf) - 2)
  <1> DEFINE b == SubSeq(v.buf, 1, Len(v.buf) - 2)
             t == [v EXCEPT !.buf = b]
             u == [t EXCEPT !.gfd = NoField]
  <1>1. v \in Visitor
    BY DEF Good
  <1>2. TakeBack(v) = t
    BY DEF TakeBack
  <1> HIDE DEF b
  <1>3. t.gfd = v.gfd /\ u.stk = v.stk /\ u.sp = v.sp /\ u.buf = b
    BY <1>1 DEF Visitor
  <1>4. ValueEnd(t) = EndEntry(u)
    BY <1>3 DEF ValueEnd
  <1> HIDE DEF t, u
  <1>5. EndEntry(u) = Going(u)
    BY <1>3 DEF EndEntry, Top
  <1>6. EndList(t) = Going(PopLists(u))
    BY <1>4, <1>5 DEF EndList, Going, Ends
  <1>7. PopLists(u).buf = u.buf
    BY DEF PopLists
  <1> QED
    BY <1>2, <1>3, <1>6, <1>7 DEF Going, Ends, b

LEMMA OnArrayEndKept ==
    ASSUME IInv, OnArrayEnd
    PROVE  \/ Kept(vu'.buf, vu.buf)
           \/ /\ src[pos + 1].ev = "arrEnd" /\ Top(vu).lenPos = Len(vu.buf)
              /\ vu'.buf = SubSeq(vu.buf, 1, Len(vu.buf) - 2)
  <1> DEFINE packed == Top(vu).lenPos # 0 /\ IsPacked(Top(vu).f)
             empty == IsEmptyLength(vu.buf, Top(vu).lenPos)
  <1>1. Good(vu) /\ vu \in Visitor /\ Tok.ev = "arrEnd"
    <2>1. On({"arrEnd"})
      BY DEF OnArrayEnd
    <2>2. Good(vu) /\ Tok.ev \in {"arrEnd"}
      BY <2>1, TokFacts
    <2> QED
      BY <2>2 DEF Good
  <1>2. CASE Skipped
    BY <1>1, <1>2, SkippedKept
  <1>3. CASE After(EndList(vu))
    BY <1>1, <1>3, EndListKept, AfterKept
  <1>4. CASE packed /\ After(EndList(Finish(vu).v))
    <2> DEFINE w == Finish(vu).v
    <2>1. Good(w) /\ Kept(w.buf, vu.buf) /\ After(EndList(w))
      BY <1>1, <1>4, FinishGood, FinishKeeps
    <2> HIDE DEF w
    <2>2. Kept(EndList(w).v.buf, w.buf)
      BY <2>1, EndListKept
    <2>3. Kept(EndList(w).v.buf, vu.buf)
      BY <2>1, <2>2, KeptTrans
    <2> QED
      BY <2>1, <2>3, AfterKept
  <1>5. CASE /\ packed /\ empty
             /\ After(IF vu.gfd = NoField THEN Ends("panic", vu) ELSE EndList(TakeBack(vu)))
    <2>1. CASE vu.gfd = NoField
      <3>1. After(Ends("panic", vu))
        BY <1>5, <2>1
      <3> QED
        BY <3>1, SameKept
    <2>2. CASE vu.gfd # NoField
      <3>1. After(EndList(TakeBack(vu)))
        BY <1>5, <2>2
      <3>2. Top(vu).typ # "map"
        <4>1. vu.sp \in 0..vu.sp /\ Top(vu) = vu.stk[vu.sp]
          BY <1>1, VisitorFacts
        <4>2. FrameOK(Top(vu))
          BY <1>1, <4>1 DEF Good
        <4> QED
          BY <1>5, <4>2 DEF FrameOK, IsPacked
      <3>3. Top(vu).lenPos = Len(vu.buf)
        BY <1>5 DEF IsEmptyLength
      <3>4. EndList(TakeBack(vu)).v.buf = SubSeq(vu.buf, 1, Len(vu.buf) - 2)
        BY <1>1, <2>2, <3>2, <3>3, TakenBack
      <3> QED
        BY <1>1, <3>1, <3>3, <3>4 DEF After, Tok
    <2> QED
      BY <2>1, <2>2
  <1> QED
    BY <1>2, <1>3, <1>4, <1>5 DEF OnArrayEnd

-----------------------------------------------------------------------------
(* The theorem *)

\* No callback loses, changes or moves about what earlier ones have written,
\* for every message, text and depth of the stack: a length that needs more
\* bytes than were set aside moves what is behind it, and keeps it.
THEOREM OutputKept == Spec => KeptOutput
  <1>1. ASSUME IInv, [Next]_vars, pc = "run"
        PROVE  \/ Kept(vu'.buf, vu.buf)
               \/ /\ src[pos + 1].ev = "arrEnd" /\ Top(vu).lenPos = Len(vu.buf)
                  /\ vu'.buf = SubSeq(vu.buf, 1, Len(vu.buf) - 2)
    <2>1. CASE OnValue
      BY <1>1, <2>1, OnNullKept, OnNumberKept, OnStringKept DEF OnValue
    <2>2. CASE OnContainer
      BY <1>1, <2>2, OnObjectBeginKept, OnObjectKeyKept, OnObjectEndKept, OnArrayBeginKept,
         OnArrayEndKept DEF OnContainer
    <2>3. CASE Malformed
      BY <2>3, SameKept DEF Malformed
    <2>4. CASE Result \/ Stop \/ UNCHANGED vars
      <3>1. vu' = vu
        BY <2>4 DEF Result, Stop, vars
      <3> QED
        BY <3>1, KeptSelf
    <2>5. CASE Call \/ Release
      BY <1>1, <2>5 DEF Call, Release
    <2> QED
      BY <1>1, <2>1, <2>2, <2>3, <2>4, <2>5 DEF Next
  <1>2. IInv /\ [Next]_vars =>
          [pc = "run" =>
             \/ Kept(vu'.buf, vu.buf)
             \/ /\ src[pos + 1].ev = "arrEnd" /\ Top(vu).lenPos = Len(vu.buf)
                /\ vu'.buf = SubSeq(vu.buf, 1, Len(vu.buf) - 2)]_vars
    BY <1>1
  <1> QED
    BY <1>2, Inductive, PTL DEF Spec, KeptOutput
=============================================================================
