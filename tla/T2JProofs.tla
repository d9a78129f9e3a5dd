----------------------------- MODULE T2JProofs -----------------------------
(***************************************************************************)
(* Proofs about T2J, for any IDL, any messages and any number of           *)
(* goroutines: the types, that a bitmap belongs to one open struct, and    *)
(* that the marks to be seen in it are of fields of that struct.           *)
(***************************************************************************)
EXTENDS T2J, TLAPS, SequenceTheorems, FiniteSetTheorems, WellFoundedInduction

-----------------------------------------------------------------------------
(***************************************************************************)
(* Sequences, whatever their elements are.                                 *)
(***************************************************************************)
IsSeq(s) == s \in Seq({s[i] : i \in DOMAIN s})

LEMMA SeqIsSeq ==
    ASSUME NEW S, NEW s \in Seq(S)
    PROVE  IsSeq(s)
<1>1. /\ Len(s) \in Nat /\ DOMAIN s = 1 .. Len(s)
      /\ s = [i \in 1 .. Len(s) |-> s[i]]
  OBVIOUS
<1> DEFINE R == {s[i] : i \in DOMAIN s}
<1>2. s \in [1 .. Len(s) -> R]
  BY <1>1
<1> HIDE DEF R
<1>3. s \in Seq(R)
  BY <1>1, <1>2
<1> QED  BY <1>3 DEF IsSeq, R

LEMMA SeqShape ==
    ASSUME NEW s, IsSeq(s)
    PROVE  /\ Len(s) \in Nat /\ DOMAIN s = 1 .. Len(s)
           /\ s # <<>> <=> Len(s) > 0
<1> DEFINE R == {s[i] : i \in DOMAIN s}
<1>1. s \in Seq(R)
  BY DEF IsSeq
<1> HIDE DEF R
<1> QED  BY <1>1

LEMMA Pushed ==
    ASSUME NEW s, IsSeq(s), NEW x
    PROVE  /\ IsSeq(Append(s, x)) /\ Len(Append(s, x)) = Len(s) + 1 /\ Append(s, x) # <<>>
           /\ Append(s, x)[Len(s) + 1] = x /\ Last(Append(s, x)) = x /\ Front(Append(s, x)) = s
           /\ \A i \in 1 .. Len(s) : Append(s, x)[i] = s[i]
<1> DEFINE R == {s[i] : i \in DOMAIN s}
           t == Append(s, x)
<1>1. s \in Seq(R)
  BY DEF IsSeq
<1> HIDE DEF R
<1>2. s \in Seq(R \cup {x}) /\ t \in Seq(R \cup {x})
  BY <1>1
<1>3. IsSeq(t)
  BY <1>2, SeqIsSeq
<1>4. /\ Len(t) = Len(s) + 1 /\ DOMAIN t = 1 .. Len(s) + 1 /\ Len(s) \in Nat
      /\ t[Len(s) + 1] = x
      /\ \A i \in 1 .. Len(s) : t[i] = s[i]
  BY <1>2
<1>5. Last(t) = x
  BY <1>4 DEF Last
<1>6. Front(t) = s
  <2>1. Front(t) = [i \in 1 .. Len(s) |-> t[i]]
    BY <1>2, <1>4 DEF Front
  <2>2. s = [i \in 1 .. Len(s) |-> s[i]]
    BY <1>1
  <2> QED  BY <1>4, <2>1, <2>2
<1> QED  BY <1>2, <1>3, <1>4, <1>5, <1>6

LEMMA Popped ==
    ASSUME NEW s, IsSeq(s), s # <<>>
    PROVE  /\ IsSeq(Front(s)) /\ Len(s) \in Nat \ {0} /\ Len(Front(s)) = Len(s) - 1
           /\ Last(s) = s[Len(s)]
           /\ \A i \in 1 .. Len(s) - 1 : Front(s)[i] = s[i]
<1> DEFINE R == {s[i] : i \in DOMAIN s}
<1>1. s \in Seq(R)
  BY DEF IsSeq
<1> HIDE DEF R
<1>2. Len(s) \in Nat \ {0}
  BY <1>1
<1>3. Front(s) = [i \in 1 .. Len(s) - 1 |-> s[i]]
  BY <1>1, <1>2 DEF Front
<1>4. Front(s) \in Seq(R)
  BY <1>1, <1>2, <1>3
<1>5. IsSeq(Front(s))
  BY <1>4, SeqIsSeq
<1> QED  BY <1>2, <1>3, <1>4, <1>5 DEF Last

LEMMA Retopped ==
    ASSUME NEW s, IsSeq(s), s # <<>>, NEW x
    PROVE  /\ IsSeq(Append(Front(s), x)) /\ Len(Append(Front(s), x)) = Len(s) /\ Len(s) \in Nat \ {0}
           /\ Append(Front(s), x) # <<>>
           /\ Append(Front(s), x)[Len(s)] = x /\ Last(Append(Front(s), x)) = x
           /\ Front(Append(Front(s), x)) = Front(s)
           /\ \A i \in 1 .. Len(s) - 1 : Append(Front(s), x)[i] = s[i]
<1>1. /\ IsSeq(Front(s)) /\ Len(s) \in Nat \ {0} /\ Len(Front(s)) = Len(s) - 1
      /\ \A i \in 1 .. Len(s) - 1 : Front(s)[i] = s[i]
  BY Popped
<1> DEFINE u == Front(s)
<1> HIDE DEF u
<1>2. /\ IsSeq(Append(u, x)) /\ Len(Append(u, x)) = Len(u) + 1 /\ Append(u, x) # <<>>
      /\ Append(u, x)[Len(u) + 1] = x /\ Last(Append(u, x)) = x /\ Front(Append(u, x)) = u
      /\ \A i \in 1 .. Len(u) : Append(u, x)[i] = u[i]
  BY <1>1, Pushed DEF u
<1> QED  BY <1>1, <1>2 DEF u

-----------------------------------------------------------------------------
(***************************************************************************)
(* How many of the first n frames there are with a reader, or with an      *)
(* output, of their own.                                                   *)
(***************************************************************************)
UnsetTo(s, n) == Cardinality({i \in 1 .. n : s[i].unset})
BusyTo(s, n)  == Cardinality({i \in 1 .. n : s[i].busy})

LEMMA UnsetNext ==
    ASSUME NEW s, NEW n \in Nat
    PROVE  /\ UnsetTo(s, n) \in Nat
           /\ UnsetTo(s, n + 1) = IF s[n + 1].unset THEN UnsetTo(s, n) + 1 ELSE UnsetTo(s, n)
<1> DEFINE A == {i \in 1 .. n : s[i].unset}
           B == {i \in 1 .. n + 1 : s[i].unset}
<1>1. IsFiniteSet(1 .. n)
  BY FS_Interval
<1>2. IsFiniteSet(A) /\ Cardinality(A) \in Nat
  <2>1. A \in SUBSET (1 .. n)
    OBVIOUS
  <2> QED  BY <1>1, <2>1, FS_Subset, FS_CardinalityType
<1>3. B = IF s[n + 1].unset THEN A \cup {n + 1} ELSE A
  OBVIOUS
<1>4. n + 1 \notin A
  OBVIOUS
<1> HIDE DEF A, B
<1>5. Cardinality(A \cup {n + 1}) = Cardinality(A) + 1
  BY <1>2, <1>4, FS_AddElement
<1> QED  BY <1>2, <1>3, <1>5 DEF UnsetTo, A, B

LEMMA BusyNext ==
    ASSUME NEW s, NEW n \in Nat
    PROVE  /\ BusyTo(s, n) \in Nat
           /\ BusyTo(s, n + 1) = IF s[n + 1].busy THEN BusyTo(s, n) + 1 ELSE BusyTo(s, n)
<1> DEFINE A == {i \in 1 .. n : s[i].busy}
           B == {i \in 1 .. n + 1 : s[i].busy}
<1>1. IsFiniteSet(1 .. n)
  BY FS_Interval
<1>2. IsFiniteSet(A) /\ Cardinality(A) \in Nat
  <2>1. A \in SUBSET (1 .. n)
    OBVIOUS
  <2> QED  BY <1>1, <2>1, FS_Subset, FS_CardinalityType
<1>3. B = IF s[n + 1].busy THEN A \cup {n + 1} ELSE A
  OBVIOUS
<1>4. n + 1 \notin A
  OBVIOUS
<1> HIDE DEF A, B
<1>5. Cardinality(A \cup {n + 1}) = Cardinality(A) + 1
  BY <1>2, <1>4, FS_AddElement
<1> QED  BY <1>2, <1>3, <1>5 DEF BusyTo, A, B

\* Frames below are what counts.
LEMMA SameTo ==
    ASSUME NEW s, NEW t, NEW n, \A i \in 1 .. n : t[i] = s[i]
    PROVE  UnsetTo(t, n) = UnsetTo(s, n) /\ BusyTo(t, n) = BusyTo(s, n)
<1>1. /\ {i \in 1 .. n : t[i].unset} = {i \in 1 .. n : s[i].unset}
      /\ {i \in 1 .. n : t[i].busy} = {i \in 1 .. n : s[i].busy}
  OBVIOUS
<1> QED  BY <1>1 DEF UnsetTo, BusyTo

LEMMA UnsetMonotone ==
    ASSUME NEW s, NEW n \in Nat, NEW i \in 0 .. n
    PROVE  UnsetTo(s, i) \in Nat /\ UnsetTo(s, n) \in Nat /\ UnsetTo(s, i) <= UnsetTo(s, n)
<1> DEFINE A == {j \in 1 .. i : s[j].unset}
           B == {j \in 1 .. n : s[j].unset}
<1>1. IsFiniteSet(1 .. n)
  BY FS_Interval
<1>2. B \in SUBSET (1 .. n) /\ A \in SUBSET B
  OBVIOUS
<1> HIDE DEF A, B
<1>3. IsFiniteSet(B)
  BY <1>1, <1>2, FS_Subset
<1>4. IsFiniteSet(A) /\ Cardinality(A) <= Cardinality(B)
  BY <1>2, <1>3, FS_Subset
<1> QED  BY <1>3, <1>4, FS_CardinalityType DEF UnsetTo, A, B

-----------------------------------------------------------------------------
(***************************************************************************)
(* Frames and calls are records with the fields they begin with.           *)
(***************************************************************************)
FrameKeys == {"k", "typ", "s", "bm", "resp", "root", "comma", "exc", "id", "left", "hm", "busy",
              "val", "unset", "from"}
CallKeys  == {"call", "ret", "in", "outs", "stk", "sets"}
IsFrame(f) == DOMAIN f = FrameKeys /\ f = [x \in FrameKeys |-> f[x]]
IsCall(c)  == DOMAIN c = CallKeys /\ c = [x \in CallKeys |-> c[x]]

StructKinds == {"fields", "unsets"}

\* What a frame says by itself.
FrameOK(f) ==
    /\ IsFrame(f)
    /\ f.k \in {"value", "fields", "unsets", "elems", "http"}
    /\ f.unset \in BOOLEAN /\ f.busy \in BOOLEAN
    /\ f.unset \/ f.busy => f.k = "http"
    /\ f.busy => f.val = <<>>
    /\ f.k \in {"value", "elems"} => f.typ \in DOMAIN Types
    /\ f.k = "elems" => Kind(f.typ) \in {"list", "map"}
    /\ f.k \in StructKinds \cup {"http"} => f.s \in DOMAIN Structs
    /\ f.k = "http" => f.id \in DOMAIN Structs[f.s]

\* A value for a mapping is one of a field of the struct below.
Under(f, g) == g.k = "http" => f.k \in StructKinds /\ f.s = g.s
StackOK(s) == /\ IsSeq(s)
              /\ \A i \in 1 .. Len(s) : FrameOK(s[i])
              /\ s # <<>> => s[1].k # "http"
              /\ \A i \in 1 .. Len(s) - 1 : Under(s[i], s[i + 1])

\* The readers: one more than there are missing fields being written; a mapping that fails
\* goes back to a place in the reader that its frame reads from.
ReaderKeys == {"buf", "at"}
ReaderOK(r) == /\ DOMAIN r = ReaderKeys /\ r = [x \in ReaderKeys |-> r[x]]
               /\ Len(r.buf) \in Nat
               /\ r.at \in 1 .. Len(r.buf) + 1
ReadersOK(c) ==
    /\ IsSeq(c.in)
    /\ Len(c.in) = 1 + UnsetTo(c.stk, Len(c.stk))
    /\ \A i \in 1 .. Len(c.in) : ReaderOK(c.in[i])
BackOK(c) == 
    \A i \in 1 .. Len(c.stk) :
       c.stk[i].k = "http" /\ ~c.stk[i].unset =>
          c.stk[i].from \in 1 .. Len(c.in[1 + UnsetTo(c.stk, i)].buf) + 1
OutputsOK(c) == IsSeq(c.outs) /\ Len(c.outs) = 1 + BusyTo(c.stk, Len(c.stk))

Running(c) == IsCall(c) /\ c.ret = "none" /\ StackOK(c.stk) /\ ReadersOK(c) /\ BackOK(c) /\ OutputsOK(c)
Returned(c) == IsCall(c) /\ c.stk = <<>> /\ c.ret \in {"idle", "ok", "error", "exception", "panic"}
CallOK(c) == Running(c) \/ Returned(c)

\* d has no struct open that c has not, with the same bitmap at the same place.
Opened(f)   == f.k \in StructKinds
Keeps(c, d) == \A i \in DOMAIN d.stk : Opened(d.stk[i]) =>
                  /\ i \in DOMAIN c.stk /\ Opened(c.stk[i])
                  /\ c.stk[i].bm = d.stk[i].bm /\ c.stk[i].s = d.stk[i].s


-----------------------------------------------------------------------------
(***************************************************************************)
(* What the operations on a call preserve.                                 *)
(***************************************************************************)
LEMMA KeepsSame == ASSUME NEW c, NEW d, d.stk = c.stk PROVE Keeps(c, d)
BY DEF Keeps

LEMMA KeepsTrans == ASSUME NEW c, NEW d, NEW e, Keeps(c, d), Keeps(d, e) PROVE Keeps(c, e)
BY DEF Keeps

LEMMA RunningShape ==
    ASSUME NEW c, Running(c)
    PROVE  /\ IsCall(c) /\ c.ret = "none" /\ IsSeq(c.stk) /\ Len(c.stk) \in Nat /\ DOMAIN c.stk = 1 .. Len(c.stk)
           /\ c.stk # <<>> <=> Len(c.stk) > 0
           /\ c.stk # <<>> => Top(c) = c.stk[Len(c.stk)] /\ FrameOK(Top(c))
           /\ IsSeq(c.in) /\ c.in # <<>> /\ Reader(c) = c.in[Len(c.in)] /\ ReaderOK(Reader(c))
           /\ Len(c.in) \in Nat \ {0}
           /\ IsSeq(c.outs) /\ c.outs # <<>>
<1>1. IsCall(c) /\ c.ret = "none" /\ StackOK(c.stk) /\ ReadersOK(c) /\ OutputsOK(c)
  BY DEF Running
<1>2. IsSeq(c.stk) /\ IsSeq(c.in) /\ IsSeq(c.outs)
  BY <1>1 DEF StackOK, ReadersOK, OutputsOK
<1>3. Len(c.stk) \in Nat /\ DOMAIN c.stk = 1 .. Len(c.stk) /\ (c.stk # <<>> <=> Len(c.stk) > 0)
  BY <1>2, SeqShape
<1>4. UnsetTo(c.stk, Len(c.stk)) \in Nat /\ BusyTo(c.stk, Len(c.stk)) \in Nat
  BY <1>3, UnsetNext, BusyNext
<1>5. Len(c.in) \in Nat \ {0} /\ Len(c.outs) \in Nat \ {0}
  BY <1>1, <1>4 DEF ReadersOK, OutputsOK
<1>6. c.in # <<>> /\ c.outs # <<>>
  BY <1>2, <1>5, SeqShape
<1>7. Reader(c) = c.in[Len(c.in)]
  BY <1>2, <1>6, Popped DEF Reader
<1>8. ReaderOK(Reader(c))
  BY <1>1, <1>5, <1>7 DEF ReadersOK
<1>9. c.stk # <<>> => Top(c) = c.stk[Len(c.stk)]
  BY <1>2, Popped DEF Top
<1>10. c.stk # <<>> => FrameOK(c.stk[Len(c.stk)])
  BY <1>1, <1>3 DEF StackOK
<1> QED  BY <1>1, <1>2, <1>3, <1>5, <1>6, <1>7, <1>8, <1>9, <1>10

LEMMA ReturnOK ==
    ASSUME NEW c, IsCall(c), NEW ret \in {"idle", "ok", "error", "exception", "panic"}
    PROVE  CallOK(Return(c, ret)) /\ Keeps(c, Return(c, ret)) /\ Return(c, ret).stk = <<>>
<1>1. /\ IsCall(Return(c, ret)) /\ Return(c, ret).ret = ret /\ Return(c, ret).stk = <<>>
  BY DEF Return, IsCall, CallKeys
<1>2. Keeps(c, Return(c, ret))
  BY <1>1 DEF Keeps
<1> QED  BY <1>1, <1>2 DEF CallOK, Returned

\* Other output, as much of it.
LEMMA OutputOK ==
    ASSUME NEW c, Running(c), NEW outs, IsSeq(outs), Len(outs) = Len(c.outs)
    PROVE  LET d == [c EXCEPT !.outs = outs]
           IN  /\ Running(d) /\ d.stk = c.stk /\ d.in = c.in /\ d.call = c.call
               /\ Keeps(c, d)
<1> DEFINE d == [c EXCEPT !.outs = outs]
<1>1. IsCall(d) /\ d.ret = c.ret /\ d.stk = c.stk /\ d.in = c.in /\ d.outs = outs /\ d.call = c.call
  BY DEF Running, IsCall, CallKeys
<1> HIDE DEF d
<1>2. Running(d)
  BY <1>1 DEF Running, ReadersOK, BackOK, OutputsOK
<1> QED  BY <1>1, <1>2, KeepsSame DEF d

LEMMA WriteOK ==
    ASSUME NEW c, Running(c), NEW ts
    PROVE  /\ Running(Write(c, ts)) /\ Keeps(c, Write(c, ts))
           /\ Write(c, ts).stk = c.stk /\ Write(c, ts).in = c.in /\ Write(c, ts).call = c.call
<1>1. IsSeq(c.outs) /\ c.outs # <<>> /\ IsCall(c)
  BY RunningShape
<1> DEFINE outs == Append(Front(c.outs), Last(c.outs) \o ts)
<1>2. IsSeq(outs) /\ Len(outs) = Len(c.outs)
  BY <1>1, Retopped
<1>3. Write(c, ts) = [c EXCEPT !.outs = outs]
  BY <1>1 DEF Write
<1> HIDE DEF outs
<1> QED  BY <1>2, <1>3, OutputOK

LEMMA MoveOK ==
    ASSUME NEW c, Running(c), NEW at \in 1 .. Len(Reader(c).buf) + 1
    PROVE  /\ Running(MoveTo(c, at)) /\ Keeps(c, MoveTo(c, at))
           /\ MoveTo(c, at).stk = c.stk /\ MoveTo(c, at).outs = c.outs /\ MoveTo(c, at).call = c.call
           /\ Reader(MoveTo(c, at)).buf = Reader(c).buf
           /\ Reader(MoveTo(c, at)).at = at
<1> DEFINE r == [Last(c.in) EXCEPT !.at = at]
           in == Append(Front(c.in), r)
           d == MoveTo(c, at)
<1>1. /\ IsCall(c) /\ IsSeq(c.in) /\ c.in # <<>> /\ Last(c.in) = c.in[Len(c.in)] /\ ReaderOK(Last(c.in))
      /\ IsSeq(c.stk) /\ Len(c.stk) \in Nat /\ Len(c.in) \in Nat \ {0}
  BY RunningShape DEF Reader
<1>2. ReaderOK(r) /\ r.buf = Last(c.in).buf /\ r.at = at
  BY <1>1 DEF ReaderOK, ReaderKeys, Reader
<1> HIDE DEF r
<1>3. /\ IsSeq(in) /\ Len(in) = Len(c.in) /\ in[Len(c.in)] = r /\ Last(in) = r
      /\ \A i \in 1 .. Len(c.in) - 1 : in[i] = c.in[i]
  BY <1>1, Retopped
<1>4. d = [c EXCEPT !.in = in]
  BY <1>1 DEF MoveTo, IsCall, CallKeys, r
<1> HIDE DEF in
<1>5. IsCall(d) /\ d.ret = c.ret /\ d.stk = c.stk /\ d.in = in /\ d.outs = c.outs /\ d.call = c.call
  BY <1>1, <1>4 DEF IsCall, CallKeys
<1> HIDE DEF d
<1>6. \A i \in 1 .. Len(c.in) : in[i].buf = c.in[i].buf /\ ReaderOK(in[i])
  <2>1. \A i \in 1 .. Len(c.in) : ReaderOK(c.in[i])
    BY DEF Running, ReadersOK
  <2>2. ASSUME NEW i \in 1 .. Len(c.in), i # Len(c.in) PROVE i \in 1 .. Len(c.in) - 1
    BY <1>1, <2>2
  <2> QED  BY <1>1, <1>2, <1>3, <2>1, <2>2
<1>7. ReadersOK(d)
  BY <1>3, <1>5, <1>6 DEF Running, ReadersOK
<1>8. BackOK(d)
  <2> SUFFICES ASSUME NEW i \in 1 .. Len(c.stk), c.stk[i].k = "http", ~c.stk[i].unset
               PROVE  c.stk[i].from \in 1 .. Len(in[1 + UnsetTo(c.stk, i)].buf) + 1
    BY <1>5 DEF BackOK
  <2>1. UnsetTo(c.stk, i) \in Nat /\ UnsetTo(c.stk, i) <= UnsetTo(c.stk, Len(c.stk))
    BY <1>1, UnsetMonotone
  <2>2. UnsetTo(c.stk, Len(c.stk)) \in Nat /\ Len(c.in) = 1 + UnsetTo(c.stk, Len(c.stk))
    BY <1>1, UnsetNext DEF Running, ReadersOK
  <2>3. 1 + UnsetTo(c.stk, i) \in 1 .. Len(c.in)
    BY <2>1, <2>2
  <2> QED  BY <1>6, <2>3 DEF Running, BackOK
<1>9. Running(d)
  BY <1>5, <1>7, <1>8 DEF Running, OutputsOK
<1> QED  BY <1>2, <1>3, <1>5, <1>9, KeepsSame DEF d, Reader

LEMMA AdvanceOK ==
    ASSUME NEW c, Running(c), Ahead(c).t # "eof"
    PROVE  /\ Running(Advance(c)) /\ Keeps(c, Advance(c))
           /\ Advance(c).stk = c.stk /\ Advance(c).outs = c.outs /\ Advance(c).call = c.call
           /\ Reader(Advance(c)).buf = Reader(c).buf
<1>1. ReaderOK(Reader(c))
  BY RunningShape
<1>2. Reader(c).at <= Len(Reader(c).buf)
  BY DEF Ahead, Next1, NoToken, Token
<1>3. Reader(c).at + 1 \in 1 .. Len(Reader(c).buf) + 1
  BY <1>1, <1>2 DEF ReaderOK
<1> QED  BY <1>3, MoveOK DEF Advance

\* The frames of a stack that has another one on top, instead of the old one or above it.
LEMMA StackRetopped ==
    ASSUME NEW s, StackOK(s), s # <<>>, NEW f, FrameOK(f),
           f.k = "http" => s[Len(s)].k = "http" /\ f.s = s[Len(s)].s
    PROVE  StackOK(Append(Front(s), f))
<1> DEFINE t == Append(Front(s), f)
<1>1. /\ IsSeq(t) /\ Len(t) = Len(s) /\ Len(s) \in Nat \ {0} /\ t # <<>> /\ t[Len(s)] = f
      /\ \A i \in 1 .. Len(s) - 1 : t[i] = s[i]
  <2>1. IsSeq(s)
    BY DEF StackOK
  <2> QED  BY <2>1, Retopped
<1> HIDE DEF t
<1>2. \A i \in 1 .. Len(t) : FrameOK(t[i])
  BY <1>1 DEF StackOK
<1>3. t[1].k # "http"
  BY <1>1 DEF StackOK
<1>4. ASSUME NEW i \in 1 .. Len(t) - 1 PROVE Under(t[i], t[i + 1])
  <2>1. t[i] = s[i] /\ Under(s[i], s[i + 1])
    BY <1>1 DEF StackOK
  <2>2. CASE i + 1 = Len(s)
    BY <1>1, <2>1, <2>2 DEF Under
  <2>3. CASE i + 1 # Len(s)
    BY <1>1, <2>1, <2>3
  <2> QED  BY <2>2, <2>3
<1> QED  BY <1>1, <1>2, <1>3, <1>4 DEF StackOK, t

LEMMA StackPushed ==
    ASSUME NEW s, StackOK(s), NEW f, FrameOK(f), f.k = "http" => s # <<>> /\ Under(s[Len(s)], f)
    PROVE  StackOK(Append(s, f))
<1> DEFINE t == Append(s, f)
<1>1. /\ IsSeq(t) /\ Len(t) = Len(s) + 1 /\ Len(s) \in Nat /\ t # <<>> /\ t[Len(s) + 1] = f
      /\ \A i \in 1 .. Len(s) : t[i] = s[i]
      /\ s # <<>> <=> Len(s) > 0
  BY Pushed, SeqShape DEF StackOK
<1> HIDE DEF t
<1>2. \A i \in 1 .. Len(t) : FrameOK(t[i])
  BY <1>1 DEF StackOK
<1>3. t[1].k # "http"
  BY <1>1 DEF StackOK
<1>4. ASSUME NEW i \in 1 .. Len(t) - 1 PROVE Under(t[i], t[i + 1])
  <2>1. CASE i = Len(s)
    BY <1>1, <2>1 DEF Under
  <2>2. CASE i # Len(s)
    BY <1>1, <2>2 DEF StackOK
  <2> QED  BY <2>1, <2>2
<1> QED  BY <1>1, <1>2, <1>3, <1>4 DEF StackOK, t

LEMMA StackPopped ==
    ASSUME NEW s, StackOK(s), s # <<>>
    PROVE  StackOK(Front(s))
<1> DEFINE t == Front(s)
<1>1. /\ IsSeq(t) /\ Len(t) = Len(s) - 1 /\ Len(s) \in Nat \ {0}
      /\ \A i \in 1 .. Len(s) - 1 : t[i] = s[i]
      /\ t # <<>> <=> Len(t) > 0
  BY Popped, SeqShape DEF StackOK
<1> HIDE DEF t
<1> QED  BY <1>1 DEF StackOK, t

\* Frames that leave their struct as it is.
SameStruct(f, g) == Opened(g) => Opened(f) /\ g.bm = f.bm /\ g.s = f.s

LEMMA RetopOK ==
    ASSUME NEW c, Running(c), c.stk # <<>>, NEW f, FrameOK(f),
           f.unset = Top(c).unset, f.busy = Top(c).busy,
           f.k = "http" => Top(c).k = "http" /\ f.s = Top(c).s /\ f.from = Top(c).from
    PROVE  /\ Running(Retop(c, f))
           /\ Retop(c, f).stk = Append(Front(c.stk), f) /\ Retop(c, f).in = c.in
           /\ Retop(c, f).outs = c.outs /\ Retop(c, f).call = c.call
           /\ Retop(c, f).stk # <<>> /\ Top(Retop(c, f)) = f
           /\ SameStruct(Top(c), f) => Keeps(c, Retop(c, f))
<1> DEFINE s == c.stk
           t == Append(Front(s), f)
           d == Retop(c, f)
<1>1. /\ IsSeq(s) /\ IsCall(c) /\ StackOK(s) /\ Top(c) = s[Len(s)] /\ s # <<>> /\ DOMAIN s = 1 .. Len(s)
  BY RunningShape DEF Running
<1>2. IsCall(d) /\ d.ret = c.ret /\ d.stk = t /\ d.in = c.in /\ d.outs = c.outs /\ d.call = c.call
  BY <1>1 DEF Retop, IsCall, CallKeys
<1>3. /\ IsSeq(t) /\ Len(t) = Len(s) /\ Len(s) \in Nat \ {0} /\ t # <<>> /\ t[Len(s)] = f /\ Last(t) = f
      /\ \A i \in 1 .. Len(s) - 1 : t[i] = s[i]
  BY <1>1, Retopped
<1>4. StackOK(t)
  BY <1>1, StackRetopped
<1>5. DOMAIN t = 1 .. Len(s)
  BY <1>3, SeqShape
<1> HIDE DEF s, t, d
<1>6. /\ \A i \in 1 .. Len(s) : t[i].unset = s[i].unset /\ t[i].busy = s[i].busy
  BY <1>1, <1>3
<1>7. ASSUME NEW i \in 1 .. Len(s) PROVE UnsetTo(t, i) = UnsetTo(s, i)
  <2>1. {j \in 1 .. i : t[j].unset} = {j \in 1 .. i : s[j].unset}
    BY <1>6
  <2> QED  BY <2>1 DEF UnsetTo
<1>8. BusyTo(t, Len(s)) = BusyTo(s, Len(s))
  <2>1. {j \in 1 .. Len(s) : t[j].busy} = {j \in 1 .. Len(s) : s[j].busy}
    BY <1>6
  <2> QED  BY <2>1 DEF BusyTo
<1>9. ReadersOK(d) /\ OutputsOK(d)
  BY <1>2, <1>3, <1>7, <1>8 DEF Running, ReadersOK, OutputsOK, s
<1>10. BackOK(d)
  <2> SUFFICES ASSUME NEW i \in 1 .. Len(s), t[i].k = "http", ~t[i].unset
               PROVE  t[i].from \in 1 .. Len(c.in[1 + UnsetTo(s, i)].buf) + 1
    BY <1>2, <1>3, <1>7 DEF BackOK
  <2>1. s[i].k = "http" /\ ~s[i].unset /\ s[i].from = t[i].from
    BY <1>1, <1>3, <1>6
  <2> QED  BY <2>1 DEF Running, BackOK, s
<1>11. SameStruct(Top(c), f) => Keeps(c, d)
  BY <1>1, <1>2, <1>3, <1>5 DEF SameStruct, Keeps, s
<1> QED  BY <1>2, <1>3, <1>4, <1>9, <1>10, <1>11 DEF Running, s, t, d, Top

\* A frame on top; k is how many readers, o how many outputs come with it.
LEMMA PushCounts ==
    ASSUME NEW s, IsSeq(s), NEW f
    PROVE  /\ UnsetTo(Append(s, f), Len(s) + 1) = IF f.unset THEN UnsetTo(s, Len(s)) + 1 ELSE UnsetTo(s, Len(s))
           /\ BusyTo(Append(s, f), Len(s) + 1) = IF f.busy THEN BusyTo(s, Len(s)) + 1 ELSE BusyTo(s, Len(s))
           /\ \A i \in 1 .. Len(s) : UnsetTo(Append(s, f), i) = UnsetTo(s, i)
<1> DEFINE t == Append(s, f)
<1>1. Len(s) \in Nat /\ t[Len(s) + 1] = f /\ \A i \in 1 .. Len(s) : t[i] = s[i]
  BY Pushed, SeqShape
<1> HIDE DEF t
<1>2. UnsetTo(t, Len(s)) = UnsetTo(s, Len(s)) /\ BusyTo(t, Len(s)) = BusyTo(s, Len(s))
  BY <1>1, SameTo
<1>3. ASSUME NEW i \in 1 .. Len(s) PROVE UnsetTo(t, i) = UnsetTo(s, i)
  BY <1>1, SameTo
<1>4. /\ UnsetTo(t, Len(s) + 1) = IF f.unset THEN UnsetTo(t, Len(s)) + 1 ELSE UnsetTo(t, Len(s))
      /\ BusyTo(t, Len(s) + 1) = IF f.busy THEN BusyTo(t, Len(s)) + 1 ELSE BusyTo(t, Len(s))
  BY <1>1, UnsetNext, BusyNext
<1> QED  BY <1>2, <1>3, <1>4 DEF t

LEMMA PushOK ==
    ASSUME NEW c, Running(c), NEW f, FrameOK(f), ~f.unset, ~f.busy, ~Opened(f),
           f.k = "http" => /\ c.stk # <<>> /\ Under(Top(c), f)
                           /\ f.from \in 1 .. Len(Reader(c).buf) + 1
    PROVE  /\ Running(Push(c, f)) /\ Keeps(c, Push(c, f))
           /\ Push(c, f).stk = Append(c.stk, f) /\ Push(c, f).in = c.in
           /\ Push(c, f).outs = c.outs /\ Push(c, f).call = c.call
<1> DEFINE s == c.stk
           t == Append(s, f)
           d == Push(c, f)
<1>1. /\ IsSeq(s) /\ IsCall(c) /\ StackOK(s) /\ DOMAIN s = 1 .. Len(s) /\ Len(s) \in Nat
      /\ s # <<>> => Top(c) = s[Len(s)]
      /\ Reader(c) = c.in[Len(c.in)]
  BY RunningShape DEF Running
<1>2. IsCall(d) /\ d.ret = c.ret /\ d.stk = t /\ d.in = c.in /\ d.outs = c.outs /\ d.call = c.call
  BY <1>1 DEF Push, IsCall, CallKeys
<1>3. /\ IsSeq(t) /\ Len(t) = Len(s) + 1 /\ t[Len(s) + 1] = f
      /\ \A i \in 1 .. Len(s) : t[i] = s[i]
  BY <1>1, Pushed
<1>4. StackOK(t)
  BY <1>1, StackPushed
<1>5. /\ UnsetTo(t, Len(t)) = UnsetTo(s, Len(s)) /\ BusyTo(t, Len(t)) = BusyTo(s, Len(s))
      /\ \A i \in 1 .. Len(s) : UnsetTo(t, i) = UnsetTo(s, i)
  BY <1>1, <1>3, PushCounts
<1>6. DOMAIN t = 1 .. Len(t)
  BY <1>3, SeqShape
<1> HIDE DEF s, t, d
<1>7. ReadersOK(d) /\ OutputsOK(d)
  BY <1>2, <1>5 DEF Running, ReadersOK, OutputsOK, s
<1>8. BackOK(d)
  <2> SUFFICES ASSUME NEW i \in 1 .. Len(t), t[i].k = "http", ~t[i].unset
               PROVE  t[i].from \in 1 .. Len(c.in[1 + UnsetTo(t, i)].buf) + 1
    BY <1>2 DEF BackOK
  <2>1. CASE i \in 1 .. Len(s)
    BY <1>3, <1>5, <2>1 DEF Running, BackOK, s
  <2>2. CASE i = Len(s) + 1
    <3>1. 1 + UnsetTo(t, i) = Len(c.in)
      BY <1>3, <1>5, <2>2 DEF Running, ReadersOK, s
    <3> QED  BY <1>1, <1>3, <2>2, <3>1
  <2> QED  BY <1>1, <1>3, <2>1, <2>2
<1>9. Keeps(c, d)
  BY <1>1, <1>2, <1>3, <1>6 DEF Keeps, s
<1> QED  BY <1>2, <1>4, <1>7, <1>8, <1>9 DEF Running, s, t, d

\* The last frame leaves; counts are those of the frames below.
LEMMA PopCounts ==
    ASSUME NEW s, IsSeq(s), s # <<>>
    PROVE  LET f == s[Len(s)]
               t == Front(s)
           IN  /\ UnsetTo(s, Len(s)) = IF f.unset THEN UnsetTo(t, Len(t)) + 1 ELSE UnsetTo(t, Len(t))
               /\ BusyTo(s, Len(s)) = IF f.busy THEN BusyTo(t, Len(t)) + 1 ELSE BusyTo(t, Len(t))
               /\ UnsetTo(t, Len(t)) \in Nat /\ BusyTo(t, Len(t)) \in Nat
               /\ \A i \in 1 .. Len(t) : /\ UnsetTo(t, i) = UnsetTo(s, i)
                                         /\ UnsetTo(t, i) \in Nat /\ UnsetTo(t, i) <= UnsetTo(t, Len(t))
<1> DEFINE f == s[Len(s)]
           t == Front(s)
           n == Len(t)
<1>1. n \in Nat /\ Len(s) = n + 1 /\ \A i \in 1 .. n : t[i] = s[i]
  BY Popped
<1> HIDE DEF t, n
<1>2. UnsetTo(t, n) = UnsetTo(s, n) /\ BusyTo(t, n) = BusyTo(s, n)
  BY <1>1, SameTo
<1>3. ASSUME NEW i \in 1 .. n
      PROVE  UnsetTo(t, i) = UnsetTo(s, i) /\ UnsetTo(t, i) \in Nat /\ UnsetTo(t, i) <= UnsetTo(t, n)
  <2>1. UnsetTo(t, i) = UnsetTo(s, i)
    BY <1>1, SameTo
  <2>2. UnsetTo(t, i) \in Nat /\ UnsetTo(t, i) <= UnsetTo(t, n)
    BY <1>1, UnsetMonotone
  <2> QED  BY <2>1, <2>2
<1>4. /\ UnsetTo(s, n) \in Nat /\ BusyTo(s, n) \in Nat
      /\ UnsetTo(s, n + 1) = IF s[n + 1].unset THEN UnsetTo(s, n) + 1 ELSE UnsetTo(s, n)
      /\ BusyTo(s, n + 1) = IF s[n + 1].busy THEN BusyTo(s, n) + 1 ELSE BusyTo(s, n)
  BY <1>1, UnsetNext, BusyNext
<1> QED  BY <1>1, <1>2, <1>3, <1>4 DEF t, n

LEMMA PopOK ==
    ASSUME NEW c, Running(c), c.stk # <<>>, ~Top(c).unset, ~Top(c).busy
    PROVE  /\ Running(Pop(c)) /\ Keeps(c, Pop(c))
           /\ Pop(c).stk = Front(c.stk) /\ Pop(c).in = c.in
           /\ Pop(c).outs = c.outs /\ Pop(c).call = c.call
<1> DEFINE s == c.stk
           t == Front(s)
           d == Pop(c)
<1>1. IsSeq(s) /\ IsCall(c) /\ StackOK(s) /\ Top(c) = s[Len(s)] /\ s # <<>> /\ DOMAIN s = 1 .. Len(s)
  BY RunningShape DEF Running
<1>2. IsCall(d) /\ d.ret = c.ret /\ d.stk = t /\ d.in = c.in /\ d.outs = c.outs /\ d.call = c.call
  BY <1>1 DEF Pop, IsCall, CallKeys
<1>3. IsSeq(t) /\ Len(t) = Len(s) - 1 /\ Len(s) \in Nat \ {0} /\ \A i \in 1 .. Len(s) - 1 : t[i] = s[i]
  BY <1>1, Popped
<1>4. StackOK(t)
  BY <1>1, StackPopped
<1>5. /\ UnsetTo(t, Len(t)) = UnsetTo(s, Len(s)) /\ BusyTo(t, Len(t)) = BusyTo(s, Len(s))
      /\ \A i \in 1 .. Len(t) : UnsetTo(t, i) = UnsetTo(s, i)
  BY <1>1, PopCounts
<1>6. DOMAIN t = 1 .. Len(t)
  BY <1>3, SeqShape
<1> HIDE DEF s, t, d
<1>7. ReadersOK(d) /\ OutputsOK(d)
  BY <1>2, <1>5 DEF Running, ReadersOK, OutputsOK, s
<1>8. BackOK(d)
  BY <1>2, <1>3, <1>5, SMTT(30) DEF Running, BackOK, s
<1>9. Keeps(c, d)
  BY <1>1, <1>2, <1>3, <1>6 DEF Keeps, s
<1> QED  BY <1>2, <1>4, <1>7, <1>8, <1>9 DEF Running, s, t, d

\* The end of a missing field: its reader goes too.
LEMMA UnsetPopOK ==
    ASSUME NEW c, Running(c), c.stk # <<>>, Top(c).unset, ~Top(c).busy
    PROVE  LET d == [Pop(c) EXCEPT !.in = Front(@)]
           IN  /\ Running(d) /\ Keeps(c, d)
               /\ d.stk = Front(c.stk) /\ d.outs = c.outs /\ d.call = c.call
<1> DEFINE s == c.stk
           t == Front(s)
           in == Front(c.in)
           d == [Pop(c) EXCEPT !.in = Front(@)]
<1>1. /\ IsSeq(s) /\ IsCall(c) /\ StackOK(s) /\ Top(c) = s[Len(s)] /\ s # <<>> /\ DOMAIN s = 1 .. Len(s)
      /\ IsSeq(c.in) /\ c.in # <<>>
  BY RunningShape DEF Running
<1>2. IsCall(d) /\ d.ret = c.ret /\ d.stk = t /\ d.in = in /\ d.outs = c.outs /\ d.call = c.call
  BY <1>1 DEF Pop, IsCall, CallKeys
<1>3. IsSeq(t) /\ Len(t) = Len(s) - 1 /\ Len(s) \in Nat \ {0} /\ \A i \in 1 .. Len(s) - 1 : t[i] = s[i]
  BY <1>1, Popped
<1>4. /\ IsSeq(in) /\ Len(in) = Len(c.in) - 1 /\ Len(c.in) \in Nat \ {0}
      /\ \A i \in 1 .. Len(c.in) - 1 : in[i] = c.in[i]
  BY <1>1, Popped
<1>5. StackOK(t)
  BY <1>1, StackPopped
<1>6. /\ UnsetTo(t, Len(t)) + 1 = UnsetTo(s, Len(s)) /\ BusyTo(t, Len(t)) = BusyTo(s, Len(s))
      /\ UnsetTo(t, Len(t)) \in Nat
      /\ \A i \in 1 .. Len(t) : /\ UnsetTo(t, i) = UnsetTo(s, i)
                                /\ UnsetTo(t, i) \in Nat /\ UnsetTo(t, i) <= UnsetTo(t, Len(t))
  BY <1>1, PopCounts
<1>7. DOMAIN t = 1 .. Len(t)
  BY <1>3, SeqShape
<1> HIDE DEF s, t, d, in
<1>8. Len(c.in) = 1 + UnsetTo(s, Len(s)) /\ \A i \in 1 .. Len(c.in) : ReaderOK(c.in[i])
  BY DEF Running, ReadersOK, s
<1>9. ReadersOK(d)
  <2>1. Len(in) = 1 + UnsetTo(t, Len(t))
    BY <1>4, <1>6, <1>8
  <2>2. \A i \in 1 .. Len(in) : i \in 1 .. Len(c.in) - 1 /\ i \in 1 .. Len(c.in)
    BY <1>4
  <2>3. \A i \in 1 .. Len(in) : ReaderOK(in[i])
    BY <1>4, <1>8, <2>2
  <2> QED  BY <1>2, <1>4, <2>1, <2>3 DEF ReadersOK
<1>10. OutputsOK(d)
  BY <1>2, <1>6 DEF Running, OutputsOK, s
<1>11. BackOK(d)
  <2> SUFFICES ASSUME NEW i \in 1 .. Len(t), t[i].k = "http", ~t[i].unset
               PROVE  t[i].from \in 1 .. Len(in[1 + UnsetTo(t, i)].buf) + 1
    BY <1>2 DEF BackOK
  <2>1. in[1 + UnsetTo(t, i)] = c.in[1 + UnsetTo(s, i)]
    BY <1>4, <1>6, <1>8
  <2>2. s[i].from \in 1 .. Len(c.in[1 + UnsetTo(s, i)].buf) + 1 /\ t[i] = s[i]
    BY <1>3 DEF Running, BackOK, s
  <2> QED  BY <2>1, <2>2
<1>12. Keeps(c, d)
  BY <1>1, <1>2, <1>3, <1>7 DEF Keeps, s
<1> QED  BY <1>2, <1>5, <1>9, <1>10, <1>11, <1>12 DEF Running, s, t, d

\* A missing field that is mapped: a reader of its own, with the value that stands for it.
LEMMA UnsetPushOK ==
    ASSUME NEW c, Running(c), c.stk # <<>>, NEW f, FrameOK(f), f.k = "http", f.unset, ~f.busy,
           Under(Top(c), f), NEW r, ReaderOK(r)
    PROVE  LET d == [Push(c, f) EXCEPT !.in = Append(@, r)]
           IN  Running(d) /\ Keeps(c, d)
<1> DEFINE s == c.stk
           t == Append(s, f)
           in == Append(c.in, r)
           d == [Push(c, f) EXCEPT !.in = Append(@, r)]
<1>1. /\ IsSeq(s) /\ IsCall(c) /\ StackOK(s) /\ DOMAIN s = 1 .. Len(s) /\ Len(s) \in Nat
      /\ s # <<>> /\ Top(c) = s[Len(s)] /\ IsSeq(c.in)
  BY RunningShape DEF Running
<1>2. IsCall(d) /\ d.ret = c.ret /\ d.stk = t /\ d.in = in /\ d.outs = c.outs
  BY <1>1 DEF Push, IsCall, CallKeys
<1>3. /\ IsSeq(t) /\ Len(t) = Len(s) + 1 /\ t[Len(s) + 1] = f
      /\ \A i \in 1 .. Len(s) : t[i] = s[i]
  BY <1>1, Pushed
<1>4. /\ IsSeq(in) /\ Len(in) = Len(c.in) + 1 /\ in[Len(c.in) + 1] = r
      /\ \A i \in 1 .. Len(c.in) : in[i] = c.in[i]
  BY <1>1, Pushed
<1>5. StackOK(t)
  BY <1>1, StackPushed
<1>6. /\ UnsetTo(t, Len(t)) = UnsetTo(s, Len(s)) + 1 /\ BusyTo(t, Len(t)) = BusyTo(s, Len(s))
      /\ \A i \in 1 .. Len(s) : UnsetTo(t, i) = UnsetTo(s, i)
  BY <1>1, <1>3, PushCounts
<1>7. DOMAIN t = 1 .. Len(t)
  BY <1>3, SeqShape
<1>8. ASSUME NEW i \in 1 .. Len(s)
      PROVE  UnsetTo(s, i) \in Nat /\ UnsetTo(s, Len(s)) \in Nat /\ UnsetTo(s, i) <= UnsetTo(s, Len(s))
  BY <1>1, UnsetMonotone
<1> HIDE DEF s, t, d, in
<1>9. /\ Len(c.in) = 1 + UnsetTo(s, Len(s)) /\ UnsetTo(s, Len(s)) \in Nat
      /\ \A i \in 1 .. Len(c.in) : ReaderOK(c.in[i])
  BY <1>1, UnsetNext DEF Running, ReadersOK, s
<1>10. ReadersOK(d)
  BY <1>2, <1>4, <1>6, <1>9 DEF ReadersOK
<1>11. OutputsOK(d)
  BY <1>2, <1>6 DEF Running, OutputsOK, s
<1>12. BackOK(d)
  <2> SUFFICES ASSUME NEW i \in 1 .. Len(t), t[i].k = "http", ~t[i].unset
               PROVE  t[i].from \in 1 .. Len(in[1 + UnsetTo(t, i)].buf) + 1
    BY <1>2 DEF BackOK
  <2>1. i \in 1 .. Len(s)
    BY <1>1, <1>3
  <2>2. in[1 + UnsetTo(t, i)] = c.in[1 + UnsetTo(s, i)]
    <3>1. 1 + UnsetTo(s, i) \in 1 .. Len(c.in)
      BY <1>8, <1>9, <2>1
    <3> QED  BY <1>4, <1>6, <2>1, <3>1
  <2>3. s[i].from \in 1 .. Len(c.in[1 + UnsetTo(s, i)].buf) + 1 /\ t[i] = s[i]
    BY <1>3, <2>1 DEF Running, BackOK, s
  <2> QED  BY <2>2, <2>3
<1>13. Keeps(c, d)
  BY <1>1, <1>2, <1>3, <1>7 DEF Keeps, Opened, StructKinds, s
<1> QED  BY <1>2, <1>5, <1>10, <1>11, <1>12, <1>13 DEF Running, s, t, d

\* The JSON of a mapped value begins, with an output of its own, and ends.
Outputs(f) == IF f.busy THEN 1 ELSE 0

LEMMA RetopOutputOK ==
    ASSUME NEW c, Running(c), c.stk # <<>>, NEW f, FrameOK(f), f.k = "http", Top(c).k = "http",
           f.unset = Top(c).unset, f.s = Top(c).s, f.from = Top(c).from,
           NEW outs, IsSeq(outs), Len(outs) = Len(c.outs) + Outputs(f) - Outputs(Top(c))
    PROVE  LET d == [Retop(c, f) EXCEPT !.outs = outs]
           IN  /\ Running(d) /\ Keeps(c, d) /\ IsCall(d) /\ d.stk # <<>> /\ Top(d) = f
               /\ d.call = c.call
<1> DEFINE s == c.stk
           t == Append(Front(s), f)
           d == [Retop(c, f) EXCEPT !.outs = outs]
<1>1. /\ IsSeq(s) /\ IsCall(c) /\ StackOK(s) /\ Top(c) = s[Len(s)] /\ s # <<>> /\ DOMAIN s = 1 .. Len(s)
      /\ FrameOK(s[Len(s)])
  BY RunningShape DEF Running
<1>2. IsCall(d) /\ d.ret = c.ret /\ d.stk = t /\ d.in = c.in /\ d.outs = outs /\ d.call = c.call
  BY <1>1 DEF Retop, IsCall, CallKeys
<1>3. /\ IsSeq(t) /\ Len(t) = Len(s) /\ Len(s) \in Nat \ {0} /\ t # <<>> /\ t[Len(s)] = f /\ Last(t) = f
      /\ Front(t) = Front(s)
      /\ \A i \in 1 .. Len(s) - 1 : t[i] = s[i]
  BY <1>1, Retopped
<1>4. StackOK(t)
  BY <1>1, StackRetopped
<1>5. DOMAIN t = 1 .. Len(s)
  BY <1>3, SeqShape
<1>6. /\ BusyTo(s, Len(s)) = BusyTo(Front(s), Len(Front(s))) + Outputs(Top(c))
      /\ BusyTo(Front(s), Len(Front(s))) \in Nat
  BY <1>1, PopCounts DEF Outputs
<1>7. BusyTo(t, Len(t)) = BusyTo(Front(s), Len(Front(s))) + Outputs(f)
  <2>1. /\ BusyTo(t, Len(t)) = IF t[Len(t)].busy THEN BusyTo(Front(t), Len(Front(t))) + 1
                               ELSE BusyTo(Front(t), Len(Front(t)))
        /\ BusyTo(Front(t), Len(Front(t))) \in Nat
    BY <1>3, PopCounts
  <2> QED  BY <1>3, <2>1 DEF Outputs
<1> HIDE DEF s, t, d
<1>8. \A i \in 1 .. Len(s) : t[i].unset = s[i].unset
  BY <1>1, <1>3
<1>9. ASSUME NEW i \in 1 .. Len(s) PROVE UnsetTo(t, i) = UnsetTo(s, i)
  <2>1. {j \in 1 .. i : t[j].unset} = {j \in 1 .. i : s[j].unset}
    BY <1>8
  <2> QED  BY <2>1 DEF UnsetTo
<1>10. ReadersOK(d)
  BY <1>2, <1>3, <1>9 DEF Running, ReadersOK, s
<1>11. OutputsOK(d)
  <2>1. Len(c.outs) = 1 + BusyTo(s, Len(s)) /\ Outputs(f) \in {0, 1} /\ Outputs(Top(c)) \in {0, 1}
    BY DEF Running, OutputsOK, Outputs, s
  <2>2. Len(outs) = 1 + BusyTo(t, Len(t))
    BY <1>6, <1>7, <2>1
  <2> QED  BY <1>2, <2>2 DEF OutputsOK
<1>12. BackOK(d)
  <2> SUFFICES ASSUME NEW i \in 1 .. Len(s), t[i].k = "http", ~t[i].unset
               PROVE  t[i].from \in 1 .. Len(c.in[1 + UnsetTo(s, i)].buf) + 1
    BY <1>2, <1>3, <1>9 DEF BackOK
  <2>1. s[i].k = "http" /\ ~s[i].unset /\ s[i].from = t[i].from
    BY <1>1, <1>3, <1>8
  <2> QED  BY <2>1 DEF Running, BackOK, s
<1>13. Keeps(c, d)
  BY <1>1, <1>2, <1>3, <1>5 DEF Keeps, Opened, StructKinds, s
<1> QED  BY <1>2, <1>3, <1>4, <1>10, <1>11, <1>12, <1>13 DEF Running, d, Top

-----------------------------------------------------------------------------
(***************************************************************************)
(* What the helpers of the actions preserve.                               *)
(***************************************************************************)
LEMMA FrameIs ==
    /\ IsFrame(Frame) /\ Frame.k = "value" /\ Frame.unset = FALSE /\ Frame.busy = FALSE
    /\ Frame.val = <<>>
BY DEF IsFrame, FrameKeys, Frame

LEMMA ValueFrameOK ==
    ASSUME NEW typ \in DOMAIN Types, NEW resp
    PROVE  LET f == ValueFrame(typ, resp)
           IN  FrameOK(f) /\ ~f.unset /\ ~f.busy /\ ~Opened(f) /\ f.k = "value"
<1> DEFINE f == ValueFrame(typ, resp)
<1>1. IsFrame(f) /\ f.k = "value" /\ f.unset = FALSE /\ f.busy = FALSE /\ f.typ = typ
  BY FrameIs DEF ValueFrame, IsFrame, FrameKeys
<1> HIDE DEF f
<1>2. FrameOK(f) /\ ~Opened(f)
  BY <1>1 DEF FrameOK, Opened, StructKinds
<1> QED  BY <1>1, <1>2 DEF f

\* The frame of a struct goes on: other bookkeeping, the same struct and bitmap.
LEMMA StructFrame ==
    ASSUME NEW f, FrameOK(f), Opened(f), NEW g, IsFrame(g), g.k \in StructKinds, g.s = f.s, g.bm = f.bm,
           g.unset = f.unset, g.busy = f.busy, g.typ = f.typ, g.val = f.val
    PROVE  /\ FrameOK(g) /\ SameStruct(f, g) /\ Opened(g) /\ g.k # "http"
           /\ f.unset = FALSE /\ f.busy = FALSE
BY DEF FrameOK, Opened, StructKinds, SameStruct

LEMMA SkipFieldOK ==
    ASSUME NEW c, Running(c), NEW kind
    PROVE  CallOK(SkipField(c, kind)) /\ Keeps(c, SkipField(c, kind))
<1> DEFINE at == SkipType(Reader(c).buf, kind, Reader(c).at)
<1>1. IsCall(c)
  BY RunningShape
<1> HIDE DEF at
<1>2. CASE at \in 1 .. Len(Reader(c).buf) + 1
  <2>1. SkipField(c, kind) = MoveTo(c, at)
    BY <1>2 DEF SkipField, at
  <2> QED  BY <1>2, <2>1, MoveOK DEF CallOK
<1>3. CASE at \notin 1 .. Len(Reader(c).buf) + 1
  <2>1. SkipField(c, kind) = Return(c, "error")
    BY <1>3 DEF SkipField, at
  <2> QED  BY <1>1, <2>1, ReturnOK
<1> QED  BY <1>2, <1>3

LEMMA MemberOK ==
    ASSUME NEW c, Running(c), c.stk # <<>>, Opened(Top(c)), NEW id \in DOMAIN Structs[Top(c).s]
    PROVE  CallOK(Member(c, Top(c), id)) /\ Keeps(c, Member(c, Top(c), id))
<1> DEFINE g == Top(c)
           field == Structs[g.s][id]
           exc  == c.call.opts.exc /\ g.root /\ id # 0
           g1   == [g EXCEPT !.comma = TRUE, !.id = 0, !.exc = exc,
                             !.k = IF exc THEN "unsets" ELSE "fields"]
           cut  == [Retop(c, g1) EXCEPT !.outs = Append(Front(@), <<>>)]
           more == Write(Retop(c, g1), CommaIf(g.comma) \o Key(id))
           c1   == IF exc THEN cut ELSE more
           value == ValueFrame(field.typ, g.root /\ g.resp)
           quote == Write(c1, <<<<"quoted", Ahead(c).n>>>>)
<1>1. FrameOK(g) /\ IsCall(c) /\ IsSeq(c.outs) /\ c.outs # <<>>
  BY RunningShape
<1>2. /\ IsFrame(g1) /\ g1.k \in StructKinds /\ g1.s = g.s /\ g1.bm = g.bm /\ g1.unset = g.unset
      /\ g1.busy = g.busy /\ g1.typ = g.typ /\ g1.val = g.val
  BY <1>1 DEF FrameOK, IsFrame, FrameKeys, StructKinds
<1>3. FrameOK(g1) /\ SameStruct(g, g1) /\ g1.k # "http"
  BY <1>1, <1>2, StructFrame
<1>4. field.typ \in DOMAIN Types
  BY <1>1, DescAssumption DEF FrameOK, Opened
<1>5. FrameOK(value) /\ ~value.unset /\ ~value.busy /\ ~Opened(value) /\ value.k # "http"
  BY <1>4, ValueFrameOK
<1> HIDE DEF g1, value
<1>6. /\ Running(Retop(c, g1)) /\ Keeps(c, Retop(c, g1))
      /\ Retop(c, g1).in = c.in /\ Retop(c, g1).outs = c.outs
  BY <1>1, <1>2, <1>3, RetopOK
<1> DEFINE d == Retop(c, g1)
<1> HIDE DEF d
<1>7. Running(more) /\ Keeps(d, more) /\ more.in = c.in
  BY <1>6, WriteOK DEF d
<1>8. Running(cut) /\ Keeps(d, cut) /\ cut.in = c.in
  <2> DEFINE outs == Append(Front(c.outs), <<>>)
  <2>1. IsSeq(outs) /\ Len(outs) = Len(c.outs)
    BY <1>1, Retopped
  <2>2. cut = [d EXCEPT !.outs = outs]
    BY <1>6 DEF d
  <2> HIDE DEF outs
  <2> QED  BY <1>6, <2>1, <2>2, OutputOK DEF d
<1>9. Running(c1) /\ Keeps(c, c1) /\ c1.in = c.in /\ IsCall(c1)
  BY <1>6, <1>7, <1>8, KeepsTrans DEF d, Running
<1> HIDE DEF c1
<1>10. CASE ~(c.call.opts.vm /\ field.vm)
  <2>1. Member(c, g, id) = Push(c1, value)
    BY <1>10 DEF Member, c1, g1, value
  <2>2. Running(Push(c1, value)) /\ Keeps(c1, Push(c1, value))
    BY <1>5, <1>9, PushOK
  <2> QED  BY <1>9, <2>1, <2>2, KeepsTrans DEF CallOK
<1>11. CASE (c.call.opts.vm /\ field.vm) /\ Ahead(c).t = "val"
  <2>1. Member(c, g, id) = Advance(quote)
    BY <1>11 DEF Member, c1, g1
  <2>2. Running(quote) /\ Keeps(c1, quote) /\ quote.in = c.in
    BY <1>9, WriteOK
  <2>3. Ahead(quote).t # "eof"
    BY <1>11, <2>2 DEF Ahead, Reader
  <2> HIDE DEF quote
  <2>4. Running(Advance(quote)) /\ Keeps(quote, Advance(quote))
    BY <2>2, <2>3, AdvanceOK
  <2> QED  BY <1>9, <2>1, <2>2, <2>4, KeepsTrans DEF CallOK
<1>12. CASE (c.call.opts.vm /\ field.vm) /\ Ahead(c).t # "val"
  <2>1. Member(c, g, id) = Return(c, "error")
    BY <1>12 DEF Member
  <2> QED  BY <1>1, <2>1, ReturnOK
<1> QED  BY <1>10, <1>11, <1>12

LEMMA MissingMemberOK ==
    ASSUME NEW c, Running(c), c.stk # <<>>, Opened(Top(c)), NEW id
    PROVE  Running(MissingMember(c, Top(c), id)) /\ Keeps(c, MissingMember(c, Top(c), id))
<1> DEFINE g == Top(c)
           g1 == [g EXCEPT !.comma = TRUE, !.id = id + 1]
           ts == CommaIf(g.comma) \o Key(id) \o EmptyJSON(Structs[g.s][id])
<1>1. FrameOK(g)
  BY RunningShape
<1>2. /\ IsFrame(g1) /\ g1.k \in StructKinds /\ g1.s = g.s /\ g1.bm = g.bm /\ g1.unset = g.unset
      /\ g1.busy = g.busy /\ g1.typ = g.typ /\ g1.val = g.val
  BY <1>1 DEF FrameOK, IsFrame, FrameKeys, Opened
<1>3. FrameOK(g1) /\ SameStruct(g, g1) /\ g1.k # "http"
  BY <1>1, <1>2, StructFrame
<1>4. MissingMember(c, g, id) = Write(Retop(c, g1), ts)
  BY DEF MissingMember
<1> HIDE DEF g1, ts
<1>5. Running(Retop(c, g1)) /\ Keeps(c, Retop(c, g1))
  BY <1>1, <1>2, <1>3, RetopOK
<1> DEFINE d == Retop(c, g1)
<1> HIDE DEF d
<1>6. Running(Write(d, ts)) /\ Keeps(d, Write(d, ts))
  BY <1>5, WriteOK DEF d
<1> QED  BY <1>4, <1>5, <1>6, KeepsTrans DEF d

LEMMA MappedOK ==
    ASSUME NEW c, Running(c), c.stk # <<>>, Opened(Top(c)), NEW f, NEW ok,
           f.id \in DOMAIN Structs[Top(c).s], f.from \in 1 .. Len(Reader(c).buf) + 1
    PROVE  CallOK(Mapped(c, f, ok)) /\ Keeps(c, Mapped(c, f, ok))
<1> DEFINE d == MoveTo(c, f.from)
<1>1. Running(d) /\ Keeps(c, d) /\ d.stk = c.stk
  BY MoveOK
<1> HIDE DEF d
<1>2. Top(d) = Top(c)
  BY <1>1 DEF Top
<1>3. CallOK(Member(d, Top(c), f.id)) /\ Keeps(d, Member(d, Top(c), f.id))
  BY <1>1, <1>2, MemberOK
<1>4. Keeps(c, Member(d, Top(c), f.id))
  BY <1>1, <1>3, KeepsTrans
<1>5. Mapped(c, f, ok) = c \/ Mapped(c, f, ok) = Member(d, Top(c), f.id)
  BY DEF Mapped, d
<1> QED  BY <1>3, <1>4, <1>5, KeepsSame DEF CallOK

LEMMA MappedMissingOK ==
    ASSUME NEW c, Running(c), c.stk # <<>>, Opened(Top(c)), NEW f, NEW ok
    PROVE  CallOK(MappedMissing(c, f, ok)) /\ Keeps(c, MappedMissing(c, f, ok))
<1> DEFINE g == Top(c)
           g1 == [g EXCEPT !.id = f.id + 1]
<1>1. FrameOK(g)
  BY RunningShape
<1>2. /\ IsFrame(g1) /\ g1.k \in StructKinds /\ g1.s = g.s /\ g1.bm = g.bm /\ g1.unset = g.unset
      /\ g1.busy = g.busy /\ g1.typ = g.typ /\ g1.val = g.val
  BY <1>1 DEF FrameOK, IsFrame, FrameKeys, Opened
<1>3. FrameOK(g1) /\ SameStruct(g, g1) /\ g1.k # "http"
  BY <1>1, <1>2, StructFrame
<1>4. MappedMissing(c, f, ok) = Retop(c, g1) \/ MappedMissing(c, f, ok) = MissingMember(c, g, f.id)
  BY DEF MappedMissing
<1> HIDE DEF g1
<1>5. Running(Retop(c, g1)) /\ Keeps(c, Retop(c, g1))
  BY <1>1, <1>2, <1>3, RetopOK
<1>6. Running(MissingMember(c, g, f.id)) /\ Keeps(c, MissingMember(c, g, f.id))
  BY MissingMemberOK
<1> QED  BY <1>4, <1>5, <1>6 DEF CallOK

\* Below the frame of a mapping there is the one of its struct.
LEMMA BelowHttp ==
    ASSUME NEW s, StackOK(s), s # <<>>, s[Len(s)].k = "http"
    PROVE  /\ Front(s) # <<>> /\ Opened(Last(Front(s))) /\ Last(Front(s)).s = s[Len(s)].s
<1> DEFINE t == Front(s)
<1>1. /\ IsSeq(t) /\ Len(t) = Len(s) - 1 /\ Len(s) \in Nat \ {0}
      /\ \A i \in 1 .. Len(s) - 1 : t[i] = s[i]
  <2>1. IsSeq(s)
    BY DEF StackOK
  <2> QED  BY <2>1, Popped
<1>2. Len(s) # 1
  BY DEF StackOK
<1>3. t # <<>> /\ Last(t) = t[Len(t)]
  BY <1>1, <1>2, SeqShape, Popped
<1>4. Under(s[Len(s) - 1], s[Len(s)])
  <2>1. Len(s) - 1 \in 1 .. Len(s) - 1 /\ (Len(s) - 1) + 1 = Len(s)
    BY <1>1, <1>2
  <2> QED  BY <2>1 DEF StackOK
<1>5. t[Len(t)] = s[Len(s) - 1]
  BY <1>1, <1>2
<1> HIDE DEF t
<1> QED  BY <1>3, <1>4, <1>5 DEF Under, Opened, t

\* The end of a mapping, and what its struct does then.
HttpDone(d, f, ok) == IF f.unset THEN MappedMissing([Pop(d) EXCEPT !.in = Front(@)], f, ok)
                      ELSE Mapped(Pop(d), f, ok)

LEMMA HttpDoneOK ==
    ASSUME NEW c, Running(c), c.stk # <<>>, Top(c).k = "http", ~Top(c).busy, NEW ok
    PROVE  CallOK(HttpDone(c, Top(c), ok)) /\ Keeps(c, HttpDone(c, Top(c), ok))
<1> DEFINE f == Top(c)
<1>1. /\ FrameOK(f) /\ StackOK(c.stk) /\ f = c.stk[Len(c.stk)] /\ Len(c.stk) \in Nat /\ Len(c.stk) > 0
      /\ Reader(c) = c.in[Len(c.in)]
  BY RunningShape DEF Running
<1>2. Front(c.stk) # <<>> /\ Opened(Last(Front(c.stk))) /\ Last(Front(c.stk)).s = f.s
  BY <1>1, BelowHttp
<1>3. f.id \in DOMAIN Structs[f.s] /\ f.unset \in BOOLEAN
  BY <1>1 DEF FrameOK
<1> HIDE DEF f
<1>4. CASE f.unset
  <2> DEFINE d == [Pop(c) EXCEPT !.in = Front(@)]
  <2>1. Running(d) /\ Keeps(c, d) /\ d.stk = Front(c.stk)
    BY <1>4, UnsetPopOK DEF f
  <2>2. HttpDone(c, f, ok) = MappedMissing(d, f, ok)
    BY <1>4 DEF HttpDone
  <2> HIDE DEF d
  <2>3. CallOK(MappedMissing(d, f, ok)) /\ Keeps(d, MappedMissing(d, f, ok))
    BY <1>2, <2>1, MappedMissingOK DEF Top
  <2> QED  BY <2>1, <2>2, <2>3, KeepsTrans DEF f
<1>5. CASE ~f.unset
  <2> DEFINE d == Pop(c)
  <2>1. Running(d) /\ Keeps(c, d) /\ d.stk = Front(c.stk) /\ d.in = c.in
    BY <1>5, PopOK DEF f
  <2>2. f.from \in 1 .. Len(Reader(c).buf) + 1
    <3>1. c.in[1 + UnsetTo(c.stk, Len(c.stk))] = Reader(c)
      BY <1>1 DEF Running, ReadersOK
    <3>2. f.k = "http"
      BY DEF f
    <3> QED  BY <1>1, <1>5, <3>1, <3>2, SMTT(30) DEF Running, BackOK
  <2>3. HttpDone(c, f, ok) = Mapped(d, f, ok)
    BY <1>5 DEF HttpDone
  <2> HIDE DEF d
  <2>4. Reader(d) = Reader(c)
    BY <2>1 DEF Reader
  <2>5. CallOK(Mapped(d, f, ok)) /\ Keeps(d, Mapped(d, f, ok))
    BY <1>2, <1>3, <2>1, <2>2, <2>4, MappedOK DEF Top
  <2> QED  BY <2>1, <2>3, <2>5, KeepsTrans DEF f
<1> QED  BY <1>3, <1>4, <1>5

\* What the response was given does not matter to the call.
LEMMA SetsOK ==
    ASSUME NEW c, Running(c), NEW sets
    PROVE  LET d == [c EXCEPT !.sets = sets]
           IN  Running(d) /\ Keeps(c, d) /\ d.stk = c.stk
<1> DEFINE d == [c EXCEPT !.sets = sets]
<1>1. IsCall(d) /\ d.ret = c.ret /\ d.stk = c.stk /\ d.in = c.in /\ d.outs = c.outs /\ d.call = c.call
  BY DEF Running, IsCall, CallKeys
<1> HIDE DEF d
<1>2. Running(d)
  BY <1>1 DEF Running, ReadersOK, BackOK, OutputsOK
<1> QED  BY <1>1, <1>2, KeepsSame DEF d

-----------------------------------------------------------------------------
(***************************************************************************)
(* The memory of a bitmap.                                                 *)
(***************************************************************************)
\* Of the numbers in a finite set one is the largest.
LEMMA MaxIs ==
    ASSUME NEW S, IsFiniteSet(S), S \subseteq Nat, S # {}
    PROVE  Max(S) \in S /\ \A y \in S : y <= Max(S)
<1> DEFINE R == OpToRel(<, Nat)
           Over(x) == {y \in S : y > x}
           T == {n \in Nat : \E x \in S : n = Cardinality(Over(x))}
<1>1. IsWellFoundedOn(R, Nat)
  BY NatLessThanWellFounded
<1>2. \A m, n \in Nat : m < n => <<m, n>> \in R
  BY DEF OpToRel
<1>3. ASSUME NEW x \in S PROVE IsFiniteSet(Over(x)) /\ Cardinality(Over(x)) \in Nat
  <2>1. Over(x) \in SUBSET S
    OBVIOUS
  <2> QED  BY <2>1, FS_Subset, FS_CardinalityType
<1>4. T \subseteq Nat /\ T # {}
  BY <1>3
<1> HIDE DEF R
<1>5. PICK n \in T : \A m \in T : ~(<<m, n>> \in R)
  <2> HIDE DEF T
  <2> QED  BY <1>1, <1>4, WFMin
<1>6. PICK x \in S : n = Cardinality(Over(x))
  OBVIOUS
<1>7. ASSUME NEW y \in S, y > x PROVE FALSE
  <2>1. Over(y) \in SUBSET Over(x) /\ y \in Over(x) /\ y \notin Over(y)
    <3>1. x \in Nat /\ y \in Nat /\ \A z \in S : z \in Nat /\ (z > y => z > x)
      BY <1>7
    <3>2. Over(y) \subseteq Over(x)
      BY <3>1
    <3>3. y \in Over(x)
      BY <1>7
    <3>4. y \notin Over(y)
      BY <3>1
    <3> QED  BY <3>2, <3>3, <3>4
  <2> HIDE DEF Over
  <2>2. Cardinality(Over(y)) < Cardinality(Over(x))
    BY <1>3, <2>1, FS_Subset
  <2>3. Cardinality(Over(y)) \in T
    BY <1>3
  <2> QED  BY <1>2, <1>3, <1>5, <1>6, <2>2, <2>3
<1>8. \A y \in S : x >= y
  BY <1>7
<1> HIDE DEF Over, T
<1>9. Max(S) \in S /\ \A y \in S : Max(S) >= y
  BY <1>8 DEF Max
<1> QED  BY <1>9

\* A bit lies in the word that Set and Clear address.
LEMMA InWord ==
    ASSUME NEW x \in Nat
    PROVE  x \div WordBits \in Nat /\ x < (x \div WordBits + 1) * WordBits
<1>1. WordBits \in Nat /\ WordBits > 0
  BY BitmapAssumption
<1>2. \A b \in Nat : b > 0 => x \div b \in Nat /\ x < (x \div b + 1) * b
  OBVIOUS
<1> QED  BY <1>1, <1>2

LEMMA MoreWords ==
    ASSUME NEW m \in Nat, NEW n \in Nat, m <= n
    PROVE  m * WordBits \in Nat /\ n * WordBits \in Nat /\ m * WordBits <= n * WordBits
<1>1. WordBits \in Nat
  BY BitmapAssumption
<1>2. \A b \in Nat : (n - m) * b >= 0 /\ n * b = m * b + (n - m) * b
  OBVIOUS
<1> QED  BY <1>1, <1>2

LEMMA WordsOK ==
    ASSUME NEW s \in DOMAIN Structs
    PROVE  /\ Words(s) \in Nat
           /\ Marked(s) \subseteq Nat
           /\ \A x \in Marked(s) : x < Words(s) * WordBits
<1> DEFINE D == DOMAIN Structs[s]
           WordAt(x) == x \div WordBits + 1
           W == {WordAt(x) : x \in D}
           S == {Cardinality(D)} \cup W
<1>1. IsFiniteSet(D) /\ D \subseteq Nat
  BY DescAssumption
<1>2. Cardinality(D) \in Nat
  BY <1>1, FS_CardinalityType
<1> HIDE DEF D
<1>3. \A x \in D : WordAt(x) \in Nat /\ x < WordAt(x) * WordBits
  BY <1>1, InWord
<1> HIDE DEF WordAt
<1>4. IsFiniteSet(W) /\ W \subseteq Nat
  <2>1. W \subseteq Nat
    BY <1>3
  <2>2. IsFiniteSet(W)
    <3> DEFINE f == [x \in D |-> WordAt(x)]
    <3>1. f \in Surjection(D, W)
      BY DEF Surjection
    <3> HIDE DEF f
    <3> QED  BY <1>1, <3>1, FS_Surjection
  <2> QED  BY <2>1, <2>2
<1> HIDE DEF W
<1>5. IsFiniteSet(S) /\ S \subseteq Nat /\ S # {}
  <2>1. IsFiniteSet(W \cup {Cardinality(D)})
    BY <1>4, FS_AddElement
  <2>2. S = W \cup {Cardinality(D)}
    OBVIOUS
  <2> QED  BY <1>2, <1>4, <2>1, <2>2
<1> HIDE DEF S
<1>6. Max(S) \in Nat /\ \A y \in S : y <= Max(S)
  BY <1>5, MaxIs
<1>7. Words(s) = Max(S)
  BY DEF Words, S, W, WordAt, D
<1>8. ASSUME NEW x \in D PROVE x < Words(s) * WordBits
  <2>1. WordAt(x) \in S
    BY DEF S, W
  <2>2. WordAt(x) * WordBits \in Nat /\ Max(S) * WordBits \in Nat /\ WordAt(x) * WordBits <= Max(S) * WordBits
    BY <1>3, <1>6, <2>1, MoreWords
  <2> QED  BY <1>1, <1>3, <1>7, <2>2
<1>9. Marked(s) \subseteq D
  BY DEF Marked, D
<1> QED  BY <1>1, <1>6, <1>7, <1>8, <1>9

\* Bits lie within the words there are.
Memory == {m \in [len : Nat, cap : Nat, bits : SUBSET Nat] :
              m.len <= m.cap /\ \A x \in m.bits : x < m.cap * WordBits}

LEMMA NewBitmapOK == NewBitmap \in Memory
BY BitmapAssumption DEF NewBitmap, Memory

\* Only marks of the struct are to be seen, whatever the bitmap was used for before.
LEMMA CopyToOK ==
    ASSUME NEW s \in DOMAIN Structs, NEW m \in Memory
    PROVE  CopyTo(s, m) \in Memory /\ Visible(CopyTo(s, m)) \subseteq Marked(s)
<1> DEFINE W == Words(s)
           n == CopyTo(s, m)
<1>1. W \in Nat /\ Marked(s) \subseteq Nat /\ \A x \in Marked(s) : x < W * WordBits
  BY WordsOK
<1>2. /\ m.len \in Nat /\ m.cap \in Nat /\ m.bits \subseteq Nat
      /\ m = [len |-> m.len, cap |-> m.cap, bits |-> m.bits]
      /\ \A x \in m.bits : x < m.cap * WordBits
  BY DEF Memory
<1> HIDE DEF W
<1>3. CASE W > m.cap
  <2>1. n = [len |-> W, cap |-> W, bits |-> Marked(s)]
    BY <1>3 DEF CopyTo, W
  <2> HIDE DEF n
  <2>2. n \in Memory /\ Visible(n) \subseteq Marked(s)
    BY <1>1, <2>1 DEF Memory, Visible
  <2> QED  BY <2>2 DEF n
<1>4. CASE ~(W > m.cap)
  <2> DEFINE dirty == {x \in m.bits : x >= W * WordBits}
  <2>1. n = [len |-> W, cap |-> m.cap, bits |-> Marked(s) \cup dirty]
    BY <1>2, <1>4 DEF CopyTo, W
  <2> HIDE DEF n
  <2>2. W * WordBits \in Nat /\ m.cap * WordBits \in Nat /\ W * WordBits <= m.cap * WordBits
    BY <1>1, <1>2, <1>4, MoreWords
  <2>3. ASSUME NEW x \in Marked(s) \cup dirty PROVE x \in Nat /\ x < m.cap * WordBits
    BY <1>1, <1>2, <2>2
  <2>4. n \in Memory
    BY <1>1, <1>2, <1>4, <2>1, <2>3 DEF Memory
  <2>5. Visible(n) \subseteq Marked(s)
    <3> SUFFICES ASSUME NEW x \in Visible(n), x \notin Marked(s) PROVE FALSE
      OBVIOUS
    <3>1. x \in dirty /\ x < W * WordBits
      BY <2>1 DEF Visible
    <3> QED  BY <1>2, <2>2, <3>1
  <2> QED  BY <2>4, <2>5 DEF n
<1> QED  BY <1>3, <1>4

\* A mark less, and none that was not there.
LEMMA ClearOK ==
    ASSUME NEW m \in Memory, NEW id \in Nat
    PROVE  Clear(m, id) \in Memory /\ Visible(Clear(m, id)) \subseteq Visible(m)
<1> DEFINE n == id \div WordBits + 1
           d == Clear(m, id)
<1>1. /\ m.len \in Nat /\ m.cap \in Nat /\ m.bits \subseteq Nat /\ m.len <= m.cap
      /\ m = [len |-> m.len, cap |-> m.cap, bits |-> m.bits]
      /\ \A x \in m.bits : x < m.cap * WordBits
  BY DEF Memory
<1>2. n \in Nat
  BY InWord
<1> HIDE DEF n
<1>3. CASE m.len < n
  <2>1. d = [len |-> n, cap |-> 2 * n, bits |-> Visible(m) \ {id}]
    BY <1>3 DEF Clear, n
  <2> HIDE DEF d
  <2>2. /\ m.len * WordBits \in Nat /\ (2 * n) * WordBits \in Nat
        /\ m.len * WordBits <= (2 * n) * WordBits
    BY <1>1, <1>2, <1>3, MoreWords
  <2>3. ASSUME NEW x \in Visible(m) PROVE x \in Nat /\ x < (2 * n) * WordBits
    BY <1>1, <2>2 DEF Visible
  <2>4. d \in Memory
    BY <1>2, <2>1, <2>3 DEF Memory
  <2>5. Visible(d) \subseteq Visible(m)
    BY <2>1 DEF Visible
  <2> QED  BY <2>4, <2>5 DEF d
<1>4. CASE ~(m.len < n)
  <2>1. d = [len |-> m.len, cap |-> m.cap, bits |-> m.bits \ {id}]
    BY <1>1, <1>4 DEF Clear, n
  <2> HIDE DEF d
  <2>2. d \in Memory /\ Visible(d) \subseteq Visible(m)
    BY <1>1, <2>1 DEF Memory, Visible
  <2> QED  BY <2>2 DEF d
<1> QED  BY <1>3, <1>4

LEMMA EmptiedOK ==
    ASSUME NEW m \in Memory
    PROVE  [m EXCEPT !.len = 0] \in Memory /\ Visible([m EXCEPT !.len = 0]) \subseteq Visible(m)
<1> DEFINE d == [m EXCEPT !.len = 0]
<1>1. /\ m.len \in Nat /\ m.cap \in Nat /\ m.bits \subseteq Nat
      /\ \A x \in m.bits : x < m.cap * WordBits
      /\ d = [len |-> 0, cap |-> m.cap, bits |-> m.bits]
  BY DEF Memory
<1> HIDE DEF d
<1>2. d \in Memory
  BY <1>1 DEF Memory
<1>3. Visible(d) = {}
  <2>1. 0 * WordBits = 0
    BY BitmapAssumption
  <2> QED  BY <1>1, <2>1 DEF Visible
<1> QED  BY <1>2, <1>3 DEF d

-----------------------------------------------------------------------------
(***************************************************************************)
(* The inductive invariant.  That a bitmap belongs to one struct is what   *)
(* keeps the marks of another struct out of it, and the counts of readers  *)
(* and outputs hold only because a frame below a mapping is that of its    *)
(* struct and because a mapping goes back to a place in its own reader.    *)
(***************************************************************************)
IInv == /\ DOMAIN st = Procs
        /\ \A p \in Procs : CallOK(st[p])
        /\ pool \subseteq Bitmaps
        /\ mem \in [Bitmaps -> Memory]
        /\ BitmapsExclusive
        /\ MarksOwned

LEMMA StructFrameIs ==
    ASSUME NEW p
    PROVE  StructFrames(p) = {i \in DOMAIN st[p].stk : Opened(st[p].stk[i])}
BY DEF StructFrames, Opened, StructKinds

\* The states it holds in give what TypeOK says.
LEMMA IInvTypes == IInv => TypeOK
<1> SUFFICES ASSUME IInv PROVE TypeOK
  OBVIOUS
<1>1. ASSUME NEW b \in Bitmaps
      PROVE  /\ mem[b].len \in 0 .. mem[b].cap
             /\ \A x \in mem[b].bits : x \in 0 .. mem[b].cap * WordBits - 1
  <2>1. mem[b] \in Memory
    BY DEF IInv
  <2>2. mem[b].cap \in Nat /\ mem[b].cap * WordBits \in Nat
    BY <2>1, MoreWords DEF Memory
  <2> QED  BY <2>1, <2>2 DEF Memory
<1>2. ASSUME NEW p \in Procs
      PROVE  LET c == st[p]
             IN  /\ c.ret \in {"idle", "none", "ok", "error", "exception", "panic"}
                 /\ c.stk # <<>> => c.ret = "none"
                 /\ c.ret = "none" =>
                      /\ Len(c.in) = 1 + Cardinality({i \in DOMAIN c.stk : c.stk[i].unset})
                      /\ Len(c.outs) = 1 + Cardinality({i \in DOMAIN c.stk : c.stk[i].busy})
                      /\ \A i \in DOMAIN c.in : c.in[i].at \in 1 .. Len(c.in[i].buf) + 1
  <2> DEFINE c == st[p]
  <2>1. CASE Returned(c)
    BY <2>1 DEF Returned
  <2>2. CASE Running(c)
    <3>1. /\ c.ret = "none" /\ DOMAIN c.stk = 1 .. Len(c.stk) /\ IsSeq(c.in)
      BY <2>2, RunningShape
    <3>2. DOMAIN c.in = 1 .. Len(c.in)
      BY <3>1, SeqShape
    <3>3. /\ Len(c.in) = 1 + UnsetTo(c.stk, Len(c.stk)) /\ Len(c.outs) = 1 + BusyTo(c.stk, Len(c.stk))
          /\ \A i \in 1 .. Len(c.in) : ReaderOK(c.in[i])
      BY <2>2 DEF Running, ReadersOK, OutputsOK
    <3> QED  BY <3>1, <3>2, <3>3 DEF UnsetTo, BusyTo, ReaderOK
  <2> QED  BY <2>1, <2>2 DEF IInv, CallOK
<1> QED  BY <1>1, <1>2 DEF TypeOK, IInv

LEMMA InitIInv == Init => IInv
<1> SUFFICES ASSUME Init PROVE IInv
  OBVIOUS
<1>1. DOMAIN st = Procs /\ \A p \in Procs : st[p] = Idle
  BY DEF Init
<1>2. IsCall(Idle) /\ Idle.stk = <<>> /\ Idle.ret = "idle"
  BY DEF Idle, IsCall, CallKeys
<1>3. \A p \in Procs : CallOK(st[p]) /\ StructFrames(p) = {}
  <2>1. CallOK(Idle)
    BY <1>2 DEF CallOK, Returned
  <2> QED  BY <1>1, <1>2, <2>1 DEF StructFrames
<1>4. mem \in [Bitmaps -> Memory] /\ pool = {}
  BY NewBitmapOK DEF Init
<1>5. BitmapsExclusive /\ MarksOwned
  BY <1>3 DEF BitmapsExclusive, MarksOwned
<1> QED  BY <1>1, <1>3, <1>4, <1>5 DEF IInv

\* A step of one call that opens no struct, and that puts into the pool no bitmap of a
\* struct that stays open.
LEMMA KeepingStep ==
    ASSUME IInv, NEW self \in Procs, NEW d, CallOK(d), Keeps(st[self], d), Go(self, d),
           pool' \subseteq Bitmaps, mem' \in [Bitmaps -> Memory],
           \A b \in Bitmaps : Visible(mem[b])' \subseteq Visible(mem[b]),
           \A i \in DOMAIN d.stk : Opened(d.stk[i]) => d.stk[i].bm \notin pool',
           \A q \in Procs \ {self} : \A j \in StructFrames(q) : st[q].stk[j].bm \notin pool'
    PROVE  IInv'
<1>1. DOMAIN st = Procs
  BY DEF IInv
<1>2. DOMAIN st' = Procs /\ st'[self] = d /\ \A q \in Procs \ {self} : st'[q] = st[q]
  BY <1>1 DEF Go
<1>3. \A q \in Procs : CallOK(st'[q])
  BY <1>2 DEF IInv
<1>4. ASSUME NEW q \in Procs, NEW j \in StructFrames(q)'
      PROVE  /\ j \in StructFrames(q)
             /\ st'[q].stk[j].bm = st[q].stk[j].bm /\ st'[q].stk[j].s = st[q].stk[j].s
             /\ st'[q].stk[j].bm \notin pool'
  <2>1. j \in DOMAIN st'[q].stk /\ Opened(st'[q].stk[j])
    BY StructFrameIs DEF StructFrames, Opened, StructKinds
  <2>2. CASE q = self
    BY <1>2, <2>1, <2>2, StructFrameIs DEF Keeps
  <2>3. CASE q # self
    BY <1>2, <2>1, <2>3, StructFrameIs
  <2> QED  BY <2>2, <2>3
<1>5. BitmapsExclusive'
  <2> SUFFICES ASSUME NEW p \in Procs, NEW i \in StructFrames(p)'
               PROVE  /\ st'[p].stk[i].bm \in Bitmaps \ pool'
                      /\ \A q \in Procs : \A j \in StructFrames(q)' :
                            st'[p].stk[i].bm = st'[q].stk[j].bm => p = q /\ i = j
    BY DEF BitmapsExclusive
  <2> QED  BY <1>4 DEF IInv, BitmapsExclusive
<1>6. MarksOwned'
  <2> SUFFICES ASSUME NEW p \in Procs, NEW i \in StructFrames(p)'
               PROVE  Visible(mem'[st'[p].stk[i].bm]) \subseteq Marked(st'[p].stk[i].s)
    BY DEF MarksOwned
  <2>1. st[p].stk[i].bm \in Bitmaps /\ Visible(mem[st[p].stk[i].bm]) \subseteq Marked(st[p].stk[i].s)
    BY <1>4 DEF IInv, BitmapsExclusive, MarksOwned
  <2>2. Visible(mem'[st[p].stk[i].bm]) \subseteq Visible(mem[st[p].stk[i].bm])
    BY <2>1
  <2> QED  BY <1>4, <2>1, <2>2
<1> QED  BY <1>2, <1>3, <1>5, <1>6 DEF IInv

\* The most frequent one: the bitmaps stay as they are.
LEMMA PlainStep ==
    ASSUME IInv, NEW self \in Procs, NEW d, CallOK(d), Keeps(st[self], d), Go(self, d),
           UNCHANGED pool, mem' \in [Bitmaps -> Memory],
           \A b \in Bitmaps : Visible(mem[b])' \subseteq Visible(mem[b])
    PROVE  IInv'
<1>1. \A q \in Procs : \A j \in StructFrames(q) : st[q].stk[j].bm \notin pool
  BY DEF IInv, BitmapsExclusive
<1>2. \A i \in DOMAIN d.stk : Opened(d.stk[i]) => d.stk[i].bm \notin pool
  BY <1>1, StructFrameIs DEF Keeps
<1>3. pool' \subseteq Bitmaps
  BY DEF IInv
<1> QED  BY <1>1, <1>2, <1>3, KeepingStep

LEMMA SameStep ==
    ASSUME IInv, NEW self \in Procs, NEW d, CallOK(d), Keeps(st[self], d), Go(self, d), Same
    PROVE  IInv'
<1>1. UNCHANGED pool /\ mem' \in [Bitmaps -> Memory]
  BY DEF IInv, Same
<1>2. \A b \in Bitmaps : Visible(mem[b])' \subseteq Visible(mem[b])
  BY DEF Same, Visible
<1> QED  BY <1>1, <1>2, PlainStep

\* What a step of a call begins with.
LEMMA AtIs ==
    ASSUME IInv, NEW self \in Procs, NEW k, At(self, k)
    PROVE  /\ Running(st[self]) /\ IsCall(st[self]) /\ st[self].stk # <<>>
           /\ FrameOK(Top(st[self])) /\ Top(st[self]).k = k
           /\ Top(st[self]) = st[self].stk[Len(st[self].stk)]
<1>1. Running(st[self])
  BY DEF IInv, CallOK, Returned, At
<1> QED  BY <1>1, RunningShape DEF At

-----------------------------------------------------------------------------
(***************************************************************************)
(* The steps.                                                              *)
(***************************************************************************)
LEMMA ReadScalarStep ==
    ASSUME IInv, NEW self \in Procs, ReadScalar(self)
    PROVE  IInv'
<1> DEFINE c == st[self]
           p == Pop(c)
           d == IF Ahead(c).t = "val" THEN Write(Advance(p), Lit(Ahead(c).n)) ELSE Return(c, "error")
<1>1. At(self, "value") /\ Go(self, d) /\ Same
  BY DEF ReadScalar
<1>2. Running(c) /\ IsCall(c) /\ c.stk # <<>> /\ FrameOK(Top(c)) /\ Top(c).k = "value"
  BY <1>1, AtIs
<1>3. Running(p) /\ Keeps(c, p) /\ p.in = c.in
  BY <1>2, PopOK DEF FrameOK
<1>4. CallOK(d) /\ Keeps(c, d)
  <2>1. CASE Ahead(c).t = "val"
    <3>1. Ahead(p).t # "eof"
      BY <1>3, <2>1 DEF Ahead, Reader
    <3> HIDE DEF p
    <3>2. Running(Advance(p)) /\ Keeps(p, Advance(p))
      BY <1>3, <3>1, AdvanceOK
    <3> DEFINE a == Advance(p)
    <3> HIDE DEF a
    <3>3. Running(Write(a, Lit(Ahead(c).n))) /\ Keeps(a, Write(a, Lit(Ahead(c).n)))
      BY <3>2, WriteOK DEF a
    <3> QED  BY <1>3, <2>1, <3>2, <3>3, KeepsTrans DEF CallOK, a
  <2>2. CASE Ahead(c).t # "val"
    BY <1>2, <2>2, ReturnOK
  <2> QED  BY <2>1, <2>2
<1> HIDE DEF d
<1> QED  BY <1>1, <1>4, SameStep

LEMMA OpenElemsStep ==
    ASSUME IInv, NEW self \in Procs, OpenElems(self)
    PROVE  IInv'
<1> DEFINE c == st[self]
           typ == Top(c).typ
           fits == /\ Ahead(c).t = Kind(typ)
                   /\ Ahead(c).et = Kind(Types[typ].e)
                   /\ Kind(typ) = "map" => Ahead(c).kt = Kind(Types[typ].key)
           g == [Frame EXCEPT !.k = "elems", !.typ = typ, !.left = Ahead(c).n]
           a == Advance(c)
           r == Retop(a, g)
           d == IF fits THEN Write(r, Opening(typ)) ELSE Return(c, "error")
<1>1. At(self, "value") /\ Kind(typ) \in {"list", "map"} /\ Go(self, d) /\ Same
  BY DEF OpenElems
<1>2. Running(c) /\ IsCall(c) /\ c.stk # <<>> /\ FrameOK(Top(c)) /\ Top(c).k = "value"
  BY <1>1, AtIs
<1>3. CallOK(d) /\ Keeps(c, d)
  <2>1. CASE fits
    <3>1. Ahead(c).t # "eof"
      BY <1>1, <2>1
    <3>2. Running(a) /\ Keeps(c, a) /\ a.stk = c.stk
      BY <1>2, <3>1, AdvanceOK
    <3>3. /\ IsFrame(g) /\ g.k = "elems" /\ g.typ = typ /\ g.unset = FALSE /\ g.busy = FALSE
      BY FrameIs DEF IsFrame, FrameKeys
    <3> HIDE DEF g
    <3>4. FrameOK(g) /\ SameStruct(Top(c), g)
      BY <1>1, <1>2, <3>3 DEF FrameOK, SameStruct, Opened, StructKinds
    <3>5. Top(a) = Top(c) /\ Top(c).unset = FALSE /\ Top(c).busy = FALSE
      BY <1>2, <3>2 DEF Top, FrameOK
    <3> HIDE DEF a
    <3>6. Running(r) /\ Keeps(a, r)
      BY <1>2, <3>2, <3>3, <3>4, <3>5, RetopOK
    <3> HIDE DEF r
    <3>7. Running(Write(r, Opening(typ))) /\ Keeps(r, Write(r, Opening(typ)))
      BY <3>6, WriteOK
    <3> QED  BY <2>1, <3>2, <3>6, <3>7, KeepsTrans DEF CallOK, r, a, g
  <2>2. CASE ~fits
    BY <1>2, <2>2, ReturnOK
  <2> QED  BY <2>1, <2>2
<1> HIDE DEF d
<1> QED  BY <1>1, <1>3, SameStep

LEMMA ElementStep ==
    ASSUME IInv, NEW self \in Procs, Element(self)
    PROVE  IInv'
<1> DEFINE c == st[self]
           f == Top(c)
           g == [f EXCEPT !.left = @ - 1, !.comma = TRUE]
           r == Retop(c, g)
           v == ValueFrame(Types[f.typ].e, FALSE)
           next == Write(Push(r, v), CommaIf(f.comma))
           keyOk == Ahead(c).t = "val" /\ Kind(Types[f.typ].key) \in {"int", "str"}
           d == IF f.left = 0 THEN Write(Pop(c), Closing(f.typ))
                ELSE IF Kind(f.typ) = "list" THEN next
                ELSE IF keyOk THEN Write(Advance(next), Key(Ahead(c).n))
                ELSE Return(c, "error")
<1>1. At(self, "elems") /\ Go(self, d) /\ Same
  BY DEF Element
<1>2. Running(c) /\ IsCall(c) /\ c.stk # <<>> /\ FrameOK(f) /\ f.k = "elems"
  BY <1>1, AtIs
<1>3. f.unset = FALSE /\ f.busy = FALSE /\ f.typ \in DOMAIN Types /\ Kind(f.typ) \in {"list", "map"}
  BY <1>2 DEF FrameOK
<1>4. Running(Write(Pop(c), Closing(f.typ))) /\ Keeps(c, Write(Pop(c), Closing(f.typ)))
  <2> DEFINE p == Pop(c)
  <2>1. Running(p) /\ Keeps(c, p)
    BY <1>2, <1>3, PopOK
  <2> HIDE DEF p
  <2>2. Running(Write(p, Closing(f.typ))) /\ Keeps(p, Write(p, Closing(f.typ)))
    BY <2>1, WriteOK
  <2> QED  BY <2>1, <2>2, KeepsTrans DEF p
<1>5. Running(next) /\ Keeps(c, next) /\ next.in = c.in
  <2>1. /\ IsFrame(g) /\ g.k = "elems" /\ g.typ = f.typ /\ g.unset = FALSE /\ g.busy = FALSE
    BY <1>2, <1>3 DEF FrameOK, IsFrame, FrameKeys
  <2> HIDE DEF g
  <2>2. FrameOK(g) /\ SameStruct(f, g)
    BY <1>3, <2>1 DEF FrameOK, SameStruct, Opened, StructKinds
  <2>3. Running(r) /\ Keeps(c, r) /\ r.in = c.in
    <3>1. /\ g.unset = Top(c).unset /\ g.busy = Top(c).busy /\ g.k # "http"
          /\ FrameOK(g) /\ SameStruct(Top(c), g)
      BY <1>3, <2>1, <2>2
    <3> HIDE DEF f, c
    <3> QED  BY <1>2, <3>1, RetopOK
  <2>4. Types[f.typ].e \in DOMAIN Types
    BY <1>3, DescAssumption DEF Kind
  <2>5. FrameOK(v) /\ ~v.unset /\ ~v.busy /\ ~Opened(v) /\ v.k # "http"
    BY <2>4, ValueFrameOK
  <2> HIDE DEF r, v
  <2>6. Running(Push(r, v)) /\ Keeps(r, Push(r, v)) /\ Push(r, v).in = r.in
    BY <2>3, <2>5, PushOK
  <2> DEFINE e == Push(r, v)
  <2> HIDE DEF e
  <2>7. Running(Write(e, CommaIf(f.comma))) /\ Keeps(e, Write(e, CommaIf(f.comma)))
        /\ Write(e, CommaIf(f.comma)).in = e.in
    BY <2>6, WriteOK DEF e
  <2> QED  BY <2>3, <2>6, <2>7, KeepsTrans DEF e, r, v, g
<1> HIDE DEF next
<1>6. CASE keyOk
  <2>1. Ahead(next).t # "eof"
    BY <1>5, <1>6 DEF Ahead, Reader
  <2> DEFINE a == Advance(next)
  <2>2. Running(a) /\ Keeps(next, a)
    BY <1>5, <2>1, AdvanceOK
  <2> HIDE DEF a
  <2>3. Running(Write(a, Key(Ahead(c).n))) /\ Keeps(a, Write(a, Key(Ahead(c).n)))
    BY <2>2, WriteOK
  <2>4. /\ Running(Write(Advance(next), Key(Ahead(c).n)))
        /\ Keeps(c, Write(Advance(next), Key(Ahead(c).n)))
    BY <1>5, <2>2, <2>3, KeepsTrans DEF a
  <2>5. CallOK(d) /\ Keeps(c, d)
    BY <1>4, <1>5, <1>6, <2>4 DEF CallOK
  <2> HIDE DEF d
  <2> QED  BY <1>1, <2>5, SameStep
<1>7. CASE ~keyOk
  <2>1. CallOK(d) /\ Keeps(c, d)
    <3>1. CallOK(Return(c, "error")) /\ Keeps(c, Return(c, "error"))
      BY <1>2, ReturnOK, SMTT(30)
    <3> QED  BY <1>4, <1>5, <1>7, <3>1 DEF CallOK
  <2> HIDE DEF d
  <2> QED  BY <1>1, <2>1, SameStep
<1> HIDE DEF keyOk
<1> QED  BY <1>6, <1>7

\* The stop byte ends the loop over the fields.
LEMMA FieldsStep ==
    ASSUME IInv, NEW self \in Procs, Fields(self)
    PROVE  IInv'
<1> DEFINE c == st[self]
           f == Top(c)
           tok == Ahead(c)
           g == [f EXCEPT !.k = "unsets", !.id = 0]
           r == Retop(c, g)
           a == Advance(c)
           stop == tok.t = "stop"
           skip == tok.t = "field" /\ ~c.call.opts.disallow
           d == CASE stop -> Advance(r)
                  [] skip -> SkipField(a, tok.et)
                  [] OTHER -> Return(c, "error")
<1>1. At(self, "fields") /\ Go(self, d) /\ Same
  BY DEF Fields
<1>2. Running(c) /\ IsCall(c) /\ c.stk # <<>> /\ FrameOK(f) /\ f.k = "fields"
  BY <1>1, AtIs
<1> HIDE DEF c
<1>3. CASE stop
  <2>1. /\ IsFrame(g) /\ g.k = "unsets" /\ g.s = f.s /\ g.bm = f.bm /\ g.unset = f.unset
        /\ g.busy = f.busy /\ g.typ = f.typ /\ g.val = f.val
    BY <1>2 DEF FrameOK, IsFrame, FrameKeys
  <2> HIDE DEF g
  <2>2. FrameOK(g) /\ SameStruct(f, g)
    BY <1>2, <2>1, StructFrame DEF Opened, StructKinds
  <2>3. Running(r) /\ Keeps(c, r) /\ r.in = c.in
    <3> HIDE DEF f
    <3>1. f = Top(c)
      BY DEF f
    <3> QED  BY <1>2, <2>1, <2>2, <3>1, RetopOK
  <2> HIDE DEF r
  <2>4. Ahead(r).t # "eof"
    BY <1>3, <2>3 DEF Ahead, Reader
  <2>5. Running(Advance(r)) /\ Keeps(r, Advance(r))
    BY <2>3, <2>4, AdvanceOK
  <2>6. d = Advance(r)
    BY <1>3
  <2> HIDE DEF d
  <2>7. CallOK(d) /\ Keeps(c, d)
    BY <2>3, <2>5, <2>6, KeepsTrans DEF CallOK
  <2> QED  BY <1>1, <2>7, SameStep DEF c
<1>4. CASE skip
  <2>1. Running(a) /\ Keeps(c, a)
    BY <1>2, <1>4, AdvanceOK
  <2>2. d = SkipField(a, tok.et)
    BY <1>4
  <2> HIDE DEF a, d
  <2>3. CallOK(d) /\ Keeps(c, d)
    BY <2>1, <2>2, SkipFieldOK, KeepsTrans
  <2> QED  BY <1>1, <2>3, SameStep DEF c
<1>5. CASE ~stop /\ ~skip
  <2>1. d = Return(c, "error")
    BY <1>5
  <2> HIDE DEF d
  <2>2. CallOK(d) /\ Keeps(c, d)
    BY <1>2, <2>1, ReturnOK
  <2> QED  BY <1>1, <2>2, SameStep DEF c
<1> HIDE DEF stop, skip
<1> QED  BY <1>3, <1>4, <1>5

LEMMA KnownFieldStep ==
    ASSUME IInv, NEW self \in Procs, KnownField(self)
    PROVE  IInv'
<1> DEFINE c == st[self]
           f == Top(c)
           tok == Ahead(c)
           field == Structs[f.s][tok.id]
           c1 == Advance(c)
           opts == c.call.opts
           g == [Frame EXCEPT !.k = "http", !.s = f.s, !.id = tok.id, !.resp = f.resp,
                              !.from = Reader(c1).at]
           base == f.root /\ opts.base /\ field.base /\ c.call.hasBase
           http == f.resp /\ opts.http /\ field.hms # <<>>
           d == IF base THEN SkipField(c1, "struct")
                ELSE IF http THEN Push(c1, g) ELSE Member(c1, f, tok.id)
<1>1. /\ At(self, "fields") /\ tok.t = "field" /\ tok.id \in DOMAIN Structs[f.s]
      /\ mem' = [mem EXCEPT ![f.bm] = Clear(@, tok.id)]
      /\ Go(self, d) /\ UNCHANGED pool
  BY DEF KnownField
<1>2. /\ Running(c) /\ IsCall(c) /\ c.stk # <<>> /\ FrameOK(f) /\ f.k = "fields"
      /\ f = c.stk[Len(c.stk)]
  BY <1>1, AtIs
<1>3. Len(c.stk) \in StructFrames(self)
  BY <1>2, RunningShape DEF StructFrames
<1>4. f.bm \in Bitmaps
  BY <1>2, <1>3 DEF IInv, BitmapsExclusive
<1>5. tok.id \in Nat
  BY <1>1, <1>2, DescAssumption DEF FrameOK, StructKinds
<1>6. mem' \in [Bitmaps -> Memory] /\ \A b \in Bitmaps : Visible(mem[b])' \subseteq Visible(mem[b])
  <2>1. mem \in [Bitmaps -> Memory]
    BY DEF IInv
  <2>2. /\ Clear(mem[f.bm], tok.id) \in Memory
        /\ Visible(Clear(mem[f.bm], tok.id)) \subseteq Visible(mem[f.bm])
    BY <1>4, <1>5, <2>1, ClearOK
  <2> HIDE DEF f, tok
  <2>3. mem'[f.bm] = Clear(mem[f.bm], tok.id) /\ \A b \in Bitmaps : b # f.bm => mem'[b] = mem[b]
    BY <1>1, <1>4, <2>1
  <2>4. mem' \in [Bitmaps -> Memory]
    BY <1>1, <1>4, <2>1, <2>2
  <2>5. ASSUME NEW b \in Bitmaps PROVE Visible(mem'[b]) \subseteq Visible(mem[b])
    BY <2>2, <2>3
  <2> QED  BY <2>4, <2>5 DEF Visible
<1> HIDE DEF c
<1>7. Running(c1) /\ Keeps(c, c1) /\ c1.stk = c.stk
  BY <1>1, <1>2, AdvanceOK
<1>8. c1.stk # <<>> /\ Top(c1) = f /\ ReaderOK(Reader(c1))
  BY <1>2, <1>7, RunningShape DEF Top
<1>9. CallOK(SkipField(c1, "struct")) /\ Keeps(c1, SkipField(c1, "struct"))
  BY <1>7, SkipFieldOK
<1>10. Running(Push(c1, g)) /\ Keeps(c1, Push(c1, g))
  <2>1. /\ IsFrame(g) /\ g.k = "http" /\ g.s = f.s /\ g.id = tok.id /\ g.unset = FALSE
        /\ g.busy = FALSE /\ g.from = Reader(c1).at
    BY FrameIs DEF IsFrame, FrameKeys
  <2>2. Reader(c1).at \in 1 .. Len(Reader(c1).buf) + 1
    BY <1>8 DEF ReaderOK
  <2> HIDE DEF g, f, tok, c1
  <2>3. FrameOK(g) /\ Under(f, g) /\ ~Opened(g)
    BY <1>1, <1>2, <2>1 DEF FrameOK, Under, Opened, StructKinds
  <2> QED  BY <1>7, <1>8, <2>1, <2>2, <2>3, PushOK
<1>11. CallOK(Member(c1, f, tok.id)) /\ Keeps(c1, Member(c1, f, tok.id))
  <2>1. Opened(f)
    BY <1>2 DEF Opened, StructKinds
  <2> HIDE DEF f, tok, c1
  <2> QED  BY <1>1, <1>7, <1>8, <2>1, MemberOK
<1>12. CallOK(d) /\ Keeps(c1, d)
  <2> HIDE DEF base, http, g, f, tok, c1
  <2> QED  BY <1>9, <1>10, <1>11 DEF CallOK
<1> HIDE DEF d, c1
<1>13. Keeps(c, d)
  BY <1>7, <1>12, KeepsTrans
<1> QED  BY <1>1, <1>6, <1>12, <1>13, PlainStep DEF c

LEMMA HttpReadStep ==
    ASSUME IInv, NEW self \in Procs, HttpRead(self)
    PROVE  IInv'
<1> DEFINE c == st[self]
           f == Top(c)
           field == FieldOf(f)
           complex == Kind(field.typ) \notin Scalars
           g == [f EXCEPT !.busy = TRUE]
           h == [f EXCEPT !.val = Lit(Ahead(c).n)]
           v == ValueFrame(field.typ, f.resp)
           r == Retop(c, h)
           d == IF complex THEN [Push(Retop(c, g), v) EXCEPT !.outs = Append(@, <<>>)]
                ELSE IF Ahead(c).t = "val" THEN Advance(r) ELSE Return(c, "error")
<1>1. At(self, "http") /\ f.val = <<>> /\ ~f.busy /\ Go(self, d) /\ Same
  BY DEF HttpRead
<1>2. Running(c) /\ IsCall(c) /\ c.stk # <<>> /\ FrameOK(f) /\ f.k = "http" /\ f = Top(c)
  BY <1>1, AtIs
<1> HIDE DEF c, f
<1>3. f.s \in DOMAIN Structs /\ f.id \in DOMAIN Structs[f.s]
  BY <1>2 DEF FrameOK
<1>4. field.typ \in DOMAIN Types
  BY <1>3, DescAssumption DEF FieldOf
<1>5. CASE complex
  <2> DEFINE outs == Append(c.outs, <<>>)
             e == [Retop(c, g) EXCEPT !.outs = outs]
  <2>1. IsSeq(outs) /\ Len(outs) = Len(c.outs) + 1 /\ Len(c.outs) \in Nat
    BY <1>2, RunningShape, Pushed, SeqShape
  <2>2. /\ IsFrame(g) /\ g.k = "http" /\ g.s = f.s /\ g.id = f.id /\ g.unset = f.unset
        /\ g.busy = TRUE /\ g.from = f.from /\ g.val = f.val
    BY <1>2 DEF FrameOK, IsFrame, FrameKeys
  <2>3. Push(Retop(c, g), v).outs = c.outs
    BY <1>2 DEF Push, Retop, IsCall, CallKeys
  <2>4. [Push(Retop(c, g), v) EXCEPT !.outs = Append(@, <<>>)] = Push(e, v)
    BY <1>2 DEF Push, Retop, IsCall, CallKeys
  <2> HIDE DEF g, outs
  <2>5. FrameOK(g)
    BY <1>1, <1>2, <1>3, <2>2 DEF FrameOK, StructKinds
  <2>6. Running(e) /\ Keeps(c, e)
    <3>1. Outputs(g) = 1 /\ Outputs(Top(c)) = 0
      BY <1>1, <1>2, <2>2 DEF Outputs
    <3>2. Len(outs) = Len(c.outs) + Outputs(g) - Outputs(Top(c))
      BY <2>1, <3>1
    <3> QED  BY <1>2, <2>1, <2>2, <2>5, <3>2, RetopOutputOK
  <2> HIDE DEF e
  <2>7. FrameOK(v) /\ ~v.unset /\ ~v.busy /\ ~Opened(v) /\ v.k # "http"
    BY <1>4, ValueFrameOK
  <2> HIDE DEF v
  <2>8. Running(Push(e, v)) /\ Keeps(e, Push(e, v))
    BY <2>6, <2>7, PushOK
  <2>9. d = Push(e, v)
    BY <1>5, <2>4
  <2> HIDE DEF d
  <2>10. CallOK(d) /\ Keeps(c, d)
    BY <2>6, <2>8, <2>9, KeepsTrans DEF CallOK
  <2> QED  BY <1>1, <2>10, SameStep DEF c
<1>6. CASE ~complex /\ Ahead(c).t = "val"
  <2>1. /\ IsFrame(h) /\ h.k = "http" /\ h.s = f.s /\ h.id = f.id /\ h.unset = f.unset
        /\ h.busy = f.busy /\ h.from = f.from
    BY <1>2 DEF FrameOK, IsFrame, FrameKeys
  <2> HIDE DEF h
  <2>2. FrameOK(h) /\ SameStruct(f, h)
    BY <1>1, <1>2, <1>3, <2>1 DEF FrameOK, StructKinds, SameStruct, Opened
  <2>3. Running(r) /\ Keeps(c, r) /\ r.in = c.in
    BY <1>2, <2>1, <2>2, RetopOK
  <2> HIDE DEF r
  <2>4. Ahead(r).t # "eof"
    BY <1>6, <2>3 DEF Ahead, Reader
  <2>5. Running(Advance(r)) /\ Keeps(r, Advance(r))
    BY <2>3, <2>4, AdvanceOK
  <2>6. d = Advance(r)
    BY <1>6
  <2> HIDE DEF d
  <2>7. CallOK(d) /\ Keeps(c, d)
    BY <2>3, <2>5, <2>6, KeepsTrans DEF CallOK
  <2> QED  BY <1>1, <2>7, SameStep DEF c
<1>7. CASE ~complex /\ Ahead(c).t # "val"
  <2>1. d = Return(c, "error")
    BY <1>7
  <2> HIDE DEF d
  <2>2. CallOK(d) /\ Keeps(c, d)
    BY <1>2, <2>1, ReturnOK
  <2> QED  BY <1>1, <2>2, SameStep DEF c
<1> HIDE DEF complex
<1> QED  BY <1>5, <1>6, <1>7

LEMMA HttpJSONStep ==
    ASSUME IInv, NEW self \in Procs, HttpJSON(self)
    PROVE  IInv'
<1> DEFINE c == st[self]
           f == Top(c)
           g == [f EXCEPT !.val = Last(c.outs), !.busy = FALSE]
           outs == Front(c.outs)
           d == [Retop(c, g) EXCEPT !.outs = outs]
<1>1. /\ At(self, "http") /\ f.val = <<>> /\ f.busy /\ Same
      /\ Go(self, [Retop(c, g) EXCEPT !.outs = Front(@)])
  BY DEF HttpJSON
<1>2. Running(c) /\ IsCall(c) /\ c.stk # <<>> /\ FrameOK(f) /\ f.k = "http" /\ f = Top(c)
  BY <1>1, AtIs
<1> HIDE DEF c, f
<1>3. IsSeq(c.outs) /\ c.outs # <<>>
  BY <1>2, RunningShape
<1>4. IsSeq(outs) /\ Len(outs) = Len(c.outs) - 1 /\ Len(c.outs) \in Nat
  BY <1>3, Popped
<1>5. [Retop(c, g) EXCEPT !.outs = Front(@)] = d
  BY <1>2 DEF Retop, IsCall, CallKeys
<1>6. /\ IsFrame(g) /\ g.k = "http" /\ g.s = f.s /\ g.id = f.id /\ g.unset = f.unset
      /\ g.busy = FALSE /\ g.from = f.from
  BY <1>2 DEF FrameOK, IsFrame, FrameKeys
<1> HIDE DEF g, outs
<1>7. FrameOK(g)
  BY <1>2, <1>6 DEF FrameOK, StructKinds
<1>8. Running(d) /\ Keeps(c, d)
  <2>1. Outputs(g) = 0 /\ Outputs(Top(c)) = 1
    BY <1>1, <1>2, <1>6 DEF Outputs
  <2>2. Len(outs) = Len(c.outs) + Outputs(g) - Outputs(Top(c))
    BY <1>4, <2>1
  <2> QED  BY <1>2, <1>4, <1>6, <1>7, <2>2, RetopOutputOK
<1>9. Go(self, d)
  BY <1>1, <1>5
<1> HIDE DEF d
<1> QED  BY <1>1, <1>8, <1>9, SameStep DEF c, CallOK

LEMMA HttpSetStep ==
    ASSUME IInv, NEW self \in Procs, HttpSet(self)
    PROVE  IInv'
<1> DEFINE c == st[self]
           f == Top(c)
           hms == FieldOf(f).hms
           r == IF f.hm > Len(hms) THEN "end" ELSE Response(hms[f.hm], f.resp, f.val)
           sets == Append(c.sets, <<hms[f.hm], f.id, f.val>>)
           e == [c EXCEPT !.sets = sets]
           g == [f EXCEPT !.hm = @ + 1]
           d == CASE r = "end"   -> HttpDone(c, f, FALSE)
                  [] r = "ok"    -> HttpDone([c EXCEPT !.sets = Append(@, <<hms[f.hm], f.id, f.val>>)],
                                             f, TRUE)
                  [] r = "panic" -> Return(c, "panic")
                  [] r = "error" -> IF c.call.opts.omit THEN Retop(c, g) ELSE Return(c, "error")
<1>1. At(self, "http") /\ f.val # <<>> /\ Go(self, d) /\ Same
  BY DEF HttpSet, HttpDone
<1>2. Running(c) /\ IsCall(c) /\ c.stk # <<>> /\ FrameOK(f) /\ f.k = "http" /\ f = Top(c)
  BY <1>1, AtIs
<1>3. ~f.busy
  BY <1>1, <1>2 DEF FrameOK
<1>4. r \in {"end", "ok", "panic", "error"}
  BY DEF Response
<1> HIDE DEF c, f, hms, r
<1>5. CallOK(HttpDone(c, f, FALSE)) /\ Keeps(c, HttpDone(c, f, FALSE))
  BY <1>2, <1>3, HttpDoneOK
<1>6. CallOK(HttpDone(e, f, TRUE)) /\ Keeps(c, HttpDone(e, f, TRUE))
  <2> HIDE DEF sets
  <2>1. Running(e) /\ Keeps(c, e) /\ e.stk = c.stk
    BY <1>2, SetsOK
  <2> HIDE DEF e
  <2>2. e.stk # <<>> /\ Top(e) = f
    BY <1>2, <2>1 DEF Top
  <2>3. CallOK(HttpDone(e, f, TRUE)) /\ Keeps(e, HttpDone(e, f, TRUE))
    BY <1>2, <1>3, <2>1, <2>2, HttpDoneOK
  <2> QED  BY <2>1, <2>3, KeepsTrans
<1>7. Running(Retop(c, g)) /\ Keeps(c, Retop(c, g))
  <2>1. /\ IsFrame(g) /\ g.k = "http" /\ g.s = f.s /\ g.id = f.id /\ g.unset = f.unset
        /\ g.busy = f.busy /\ g.from = f.from
    BY <1>2 DEF FrameOK, IsFrame, FrameKeys
  <2> HIDE DEF g
  <2>2. FrameOK(g) /\ SameStruct(f, g)
    BY <1>2, <1>3, <2>1 DEF FrameOK, StructKinds, SameStruct, Opened
  <2> QED  BY <1>2, <2>1, <2>2, RetopOK
<1>8. /\ CallOK(Return(c, "panic")) /\ Keeps(c, Return(c, "panic"))
      /\ CallOK(Return(c, "error")) /\ Keeps(c, Return(c, "error"))
  BY <1>2, ReturnOK
<1>9. d \in {HttpDone(c, f, FALSE), HttpDone(e, f, TRUE), Return(c, "panic"), Return(c, "error"),
             Retop(c, g)}
  <2> HIDE DEF g, HttpDone
  <2>1. [c EXCEPT !.sets = Append(@, <<hms[f.hm], f.id, f.val>>)] = e
    OBVIOUS
  <2> HIDE DEF e
  <2> QED  BY <1>4, <2>1
<1> HIDE DEF d, e, g
<1>10. CallOK(d) /\ Keeps(c, d)
  BY <1>5, <1>6, <1>7, <1>8, <1>9 DEF CallOK
<1> QED  BY <1>1, <1>10, SameStep DEF c

LEMMA EmptyValueIs ==
    ASSUME NEW field, field.typ \in DOMAIN Types
    PROVE  Len(EmptyValue(field)) = 1
<1>1. Kind(field.typ) \in Scalars \cup {"struct", "list", "map"}
  BY DescAssumption DEF Kind, Scalars
<1>2. \A x : Len(<<x>>) = 1
  OBVIOUS
<1> QED  BY <1>1, <1>2 DEF EmptyValue, Scalars

LEMMA UnsetStep ==
    ASSUME IInv, NEW self \in Procs, Unset(self)
    PROVE  IInv'
<1> DEFINE c == st[self]
           f == Top(c)
           id == Min(Marks(f))
           field == Structs[f.s][id]
           opts == c.call.opts
           g == [f EXCEPT !.id = id + 1]
           http == [Frame EXCEPT !.k = "http", !.s = f.s, !.id = id, !.resp = f.resp, !.unset = TRUE]
           r == [buf |-> EmptyValue(field), at |-> 1]
           e == [Push(c, http) EXCEPT !.in = Append(@, r)]
           d == IF id \notin DOMAIN Structs[f.s] THEN Return(c, "panic")
                ELSE IF field.req = "required" /\ ~opts.wReq THEN Return(c, "error")
                ELSE IF Skipped(field, opts) THEN Retop(c, g)
                ELSE IF opts.http /\ field.hms # <<>> THEN e
                ELSE MissingMember(c, f, id)
<1>1. At(self, "unsets") /\ Go(self, d) /\ Same
  BY DEF Unset
<1>2. Running(c) /\ IsCall(c) /\ c.stk # <<>> /\ FrameOK(f) /\ f.k = "unsets" /\ f = Top(c)
  BY <1>1, AtIs
<1> HIDE DEF c, f, id
<1>3. Opened(f)
  BY <1>2 DEF Opened, StructKinds
<1>4. Running(Retop(c, g)) /\ Keeps(c, Retop(c, g))
  <2>1. /\ IsFrame(g) /\ g.k \in StructKinds /\ g.s = f.s /\ g.bm = f.bm /\ g.unset = f.unset
        /\ g.busy = f.busy /\ g.typ = f.typ /\ g.val = f.val
    BY <1>2 DEF FrameOK, IsFrame, FrameKeys, StructKinds
  <2> HIDE DEF g
  <2>2. FrameOK(g) /\ SameStruct(f, g) /\ g.k # "http"
    BY <1>2, <1>3, <2>1, StructFrame
  <2> QED  BY <1>2, <2>1, <2>2, RetopOK
<1>5. ASSUME id \in DOMAIN Structs[f.s] PROVE Running(e) /\ Keeps(c, e)
  <2>1. /\ IsFrame(http) /\ http.k = "http" /\ http.s = f.s /\ http.id = id /\ http.unset = TRUE
        /\ http.busy = FALSE
    BY FrameIs DEF IsFrame, FrameKeys
  <2> HIDE DEF http
  <2>2. FrameOK(http) /\ Under(f, http)
    BY <1>2, <1>5, <2>1 DEF FrameOK, Under, StructKinds
  <2>3. field.typ \in DOMAIN Types
    BY <1>2, <1>5, DescAssumption DEF FrameOK, StructKinds
  <2>4. ReaderOK(r)
    BY <2>3, EmptyValueIs DEF ReaderOK, ReaderKeys
  <2> HIDE DEF r
  <2> QED  BY <1>2, <2>1, <2>2, <2>4, UnsetPushOK
<1>6. /\ Running(MissingMember(c, f, id)) /\ Keeps(c, MissingMember(c, f, id))
  BY <1>2, <1>3, MissingMemberOK
<1>7. /\ CallOK(Return(c, "panic")) /\ Keeps(c, Return(c, "panic"))
      /\ CallOK(Return(c, "error")) /\ Keeps(c, Return(c, "error"))
  BY <1>2, ReturnOK
<1> HIDE DEF g, e
<1>8. CallOK(d) /\ Keeps(c, d)
  BY <1>4, <1>5, <1>6, <1>7 DEF CallOK
<1> HIDE DEF d
<1> QED  BY <1>1, <1>8, SameStep DEF c

\* The bitmap of a struct that is opened is one that no open struct has.
LEMMA OpenStructStep ==
    ASSUME IInv, NEW self \in Procs, OpenStruct(self)
    PROVE  IInv'
<1> DEFINE c == st[self]
           f == Top(c)
           s == Types[f.typ].s
           n == Len(c.stk)
<1>1. PICK b \in pool \cup New :
        /\ mem' = [mem EXCEPT ![b] = CopyTo(s, IF b \in pool THEN mem[b] ELSE NewBitmap)]
        /\ pool' = pool \ {b}
        /\ Go(self, Write(Retop(c, [f EXCEPT !.k = "fields", !.s = s, !.bm = b]), <<<<"obj">>>>))
  BY DEF OpenStruct
<1> DEFINE g == [f EXCEPT !.k = "fields", !.s = s, !.bm = b]
           d == Write(Retop(c, g), <<<<"obj">>>>)
<1>2. At(self, "value") /\ Kind(f.typ) = "struct"
  BY DEF OpenStruct
<1>3. Running(c) /\ IsCall(c) /\ c.stk # <<>> /\ FrameOK(f) /\ f.k = "value" /\ f = Top(c)
  BY <1>2, AtIs
<1>4. DOMAIN st = Procs /\ mem \in [Bitmaps -> Memory] /\ pool \subseteq Bitmaps
  BY DEF IInv
<1>5. s \in DOMAIN Structs
  BY <1>2, <1>3, DescAssumption DEF FrameOK, Kind
<1>6. /\ b \in Bitmaps
      /\ \A q \in Procs : \A j \in StructFrames(q) : st[q].stk[j].bm # b
  <2>1. CASE b \in pool
    BY <1>4, <2>1 DEF IInv, BitmapsExclusive
  <2>2. CASE b \notin pool
    <3>1. b \in Unused
      BY <2>2 DEF New, Unused
    <3>2. b \in Bitmaps /\ \A q \in Procs : b \notin Held(q)
      BY <3>1 DEF Unused, InUse
    <3>3. \A q \in Procs : \A j \in DOMAIN st[q].stk : st[q].stk[j].bm # b
      BY <3>2 DEF Held
    <3> QED  BY <3>2, <3>3 DEF StructFrames
  <2> QED  BY <2>1, <2>2
<1> HIDE DEF f, s
<1>7. /\ CopyTo(s, IF b \in pool THEN mem[b] ELSE NewBitmap) \in Memory
      /\ Visible(CopyTo(s, IF b \in pool THEN mem[b] ELSE NewBitmap)) \subseteq Marked(s)
  <2>1. (IF b \in pool THEN mem[b] ELSE NewBitmap) \in Memory
    BY <1>4, <1>6, NewBitmapOK
  <2> DEFINE m == IF b \in pool THEN mem[b] ELSE NewBitmap
  <2> HIDE DEF m
  <2>2. CopyTo(s, m) \in Memory /\ Visible(CopyTo(s, m)) \subseteq Marked(s)
    BY <1>5, <2>1, CopyToOK DEF m
  <2> QED  BY <2>2 DEF m
<1>8. /\ mem' \in [Bitmaps -> Memory] /\ Visible(mem'[b]) \subseteq Marked(s)
      /\ \A x \in Bitmaps \ {b} : mem'[x] = mem[x]
  <2> DEFINE new == CopyTo(s, IF b \in pool THEN mem[b] ELSE NewBitmap)
  <2> HIDE DEF new
  <2>1. mem' = [mem EXCEPT ![b] = new] /\ new \in Memory /\ Visible(new) \subseteq Marked(s)
    BY <1>1, <1>7 DEF new
  <2>2. mem'[b] = new
    BY <1>4, <1>6, <2>1
  <2> QED  BY <1>4, <1>6, <2>1, <2>2
<1>9. /\ IsFrame(g) /\ g.k = "fields" /\ g.s = s /\ g.bm = b /\ g.unset = f.unset
      /\ g.busy = f.busy /\ f.unset = FALSE /\ f.busy = FALSE
  BY <1>3 DEF FrameOK, IsFrame, FrameKeys
<1> HIDE DEF g
<1>10. FrameOK(g) /\ g.k # "http"
  BY <1>5, <1>9 DEF FrameOK, StructKinds
<1>11. Running(d) /\ d.stk = Append(Front(c.stk), g)
  <2> HIDE DEF c
  <2>1. Running(Retop(c, g)) /\ Retop(c, g).stk = Append(Front(c.stk), g)
    BY <1>3, <1>9, <1>10, RetopOK
  <2> DEFINE r == Retop(c, g)
  <2> HIDE DEF r
  <2>2. Running(Write(r, <<<<"obj">>>>)) /\ Write(r, <<<<"obj">>>>).stk = r.stk
    BY <2>1, WriteOK DEF r
  <2> QED  BY <2>1, <2>2 DEF r
<1>12. /\ n \in Nat \ {0} /\ DOMAIN d.stk = 1 .. n /\ d.stk[n] = g
       /\ \A j \in 1 .. n - 1 : d.stk[j] = c.stk[j]
       /\ DOMAIN c.stk = 1 .. n
  <2> HIDE DEF c
  <2>1. IsSeq(c.stk)
    BY <1>3, RunningShape
  <2> DEFINE t == Append(Front(c.stk), g)
  <2>2. /\ IsSeq(t) /\ Len(t) = n /\ n \in Nat \ {0} /\ t[n] = g
        /\ \A j \in 1 .. n - 1 : t[j] = c.stk[j]
    BY <1>3, <2>1, Retopped
  <2>3. d.stk = t
    BY <1>11
  <2> HIDE DEF t, d
  <2> QED  BY <2>1, <2>2, <2>3, SeqShape
<1>13. Go(self, d)
  BY <1>1 DEF g
<1> HIDE DEF d, n
<1>14. DOMAIN st' = Procs /\ st'[self] = d /\ \A q \in Procs \ {self} : st'[q] = st[q]
  BY <1>4, <1>13 DEF Go
<1>15. ASSUME NEW q \in Procs, NEW j \in StructFrames(q)'
       PROVE  \/ q = self /\ j = n /\ st'[q].stk[j].bm = b /\ st'[q].stk[j].s = s
              \/ /\ j \in StructFrames(q) /\ st'[q].stk[j].bm = st[q].stk[j].bm
                 /\ st'[q].stk[j].s = st[q].stk[j].s
  <2>1. j \in DOMAIN st'[q].stk /\ Opened(st'[q].stk[j])
    BY DEF StructFrames, Opened, StructKinds
  <2>2. CASE q = self /\ j = n
    BY <1>9, <1>12, <1>14, <2>2
  <2>3. CASE q = self /\ j # n
    <3>1. j \in 1 .. n - 1
      BY <1>12, <1>14, <2>1, <2>3
    <3>2. st'[q].stk[j] = st[q].stk[j] /\ j \in DOMAIN st[q].stk
      BY <1>12, <1>14, <2>3, <3>1
    <3> QED  BY <2>1, <3>2, StructFrameIs
  <2>4. CASE q # self
    BY <1>14, <2>1, <2>4, StructFrameIs
  <2> QED  BY <2>2, <2>3, <2>4
<1>16. BitmapsExclusive'
  <2> SUFFICES ASSUME NEW p \in Procs, NEW i \in StructFrames(p)'
               PROVE  /\ st'[p].stk[i].bm \in Bitmaps \ pool'
                      /\ \A q \in Procs : \A j \in StructFrames(q)' :
                            st'[p].stk[i].bm = st'[q].stk[j].bm => p = q /\ i = j
    BY DEF BitmapsExclusive
  <2>1. st'[p].stk[i].bm \in Bitmaps \ pool'
    BY <1>1, <1>6, <1>15 DEF IInv, BitmapsExclusive
  <2>2. ASSUME NEW q \in Procs, NEW j \in StructFrames(q)', st'[p].stk[i].bm = st'[q].stk[j].bm
        PROVE  p = q /\ i = j
    <3>1. CASE st'[p].stk[i].bm = b
      <4>1. ASSUME NEW x \in Procs, NEW k \in StructFrames(x)', st'[x].stk[k].bm = b
            PROVE  x = self /\ k = n
        BY <1>6, <1>15, <4>1
      <4> QED  BY <2>2, <3>1, <4>1
    <3>2. CASE st'[p].stk[i].bm # b
      BY <1>15, <2>2, <3>2 DEF IInv, BitmapsExclusive
    <3> QED  BY <3>1, <3>2
  <2> QED  BY <2>1, <2>2
<1>17. MarksOwned'
  <2> SUFFICES ASSUME NEW p \in Procs, NEW i \in StructFrames(p)'
               PROVE  Visible(mem'[st'[p].stk[i].bm]) \subseteq Marked(st'[p].stk[i].s)
    BY DEF MarksOwned
  <2>1. CASE st'[p].stk[i].bm = b /\ st'[p].stk[i].s = s
    BY <1>8, <2>1
  <2>2. CASE ~(st'[p].stk[i].bm = b /\ st'[p].stk[i].s = s)
    <3>1. /\ i \in StructFrames(p) /\ st'[p].stk[i].bm = st[p].stk[i].bm
          /\ st'[p].stk[i].s = st[p].stk[i].s
      BY <1>15, <2>2
    <3>2. st[p].stk[i].bm \in Bitmaps \ {b}
      BY <1>6, <3>1 DEF IInv, BitmapsExclusive
    <3>3. mem'[st[p].stk[i].bm] = mem[st[p].stk[i].bm]
      BY <1>8, <3>2
    <3> QED  BY <3>1, <3>3 DEF IInv, MarksOwned
  <2> QED  BY <2>1, <2>2
<1>18. \A q \in Procs : CallOK(st'[q])
  BY <1>11, <1>14 DEF IInv, CallOK, d
<1> QED  BY <1>1, <1>4, <1>8, <1>14, <1>16, <1>17, <1>18 DEF IInv

\* The bitmap of the struct that ends goes back to the pool; no other open struct has it.
LEMMA CloseStructStep ==
    ASSUME IInv, NEW self \in Procs, CloseStruct(self)
    PROVE  IInv'
<1> DEFINE c == st[self]
           f == Top(c)
           n == Len(c.stk)
           p == Pop(c)
           e == Write(p, <<<<"endobj">>>>)
           d == IF f.exc THEN Return(c, "exception") ELSE e
<1>1. /\ At(self, "unsets") /\ Go(self, d) /\ pool' = pool \cup {f.bm}
      /\ mem' = [mem EXCEPT ![f.bm].len = 0]
  BY DEF CloseStruct
<1>2. /\ Running(c) /\ IsCall(c) /\ c.stk # <<>> /\ FrameOK(f) /\ f.k = "unsets" /\ f = Top(c)
      /\ f = c.stk[n]
  BY <1>1, AtIs
<1>3. n \in StructFrames(self) /\ n \in Nat \ {0} /\ DOMAIN c.stk = 1 .. n /\ IsSeq(c.stk)
  BY <1>2, RunningShape DEF StructFrames
<1>4. f.bm \in Bitmaps \ pool /\ pool \subseteq Bitmaps /\ mem \in [Bitmaps -> Memory]
  BY <1>2, <1>3 DEF IInv, BitmapsExclusive
<1>5. \A q \in Procs : \A j \in StructFrames(q) :
        ~(q = self /\ j = n) => st[q].stk[j].bm \notin pool'
  BY <1>1, <1>2, <1>3 DEF IInv, BitmapsExclusive
<1> HIDE DEF f, n
<1>6. mem' \in [Bitmaps -> Memory] /\ \A b \in Bitmaps : Visible(mem[b])' \subseteq Visible(mem[b])
  <2> DEFINE new == [mem[f.bm] EXCEPT !.len = 0]
  <2>1. new \in Memory /\ Visible(new) \subseteq Visible(mem[f.bm])
    BY <1>4, EmptiedOK
  <2>2. mem' = [mem EXCEPT ![f.bm] = new]
    BY <1>1, <1>4
  <2> HIDE DEF new
  <2>3. mem' \in [Bitmaps -> Memory]
    BY <1>4, <2>1, <2>2
  <2>4. ASSUME NEW b \in Bitmaps PROVE Visible(mem'[b]) \subseteq Visible(mem[b])
    BY <1>4, <2>1, <2>2
  <2> QED  BY <2>3, <2>4 DEF Visible
<1>7. /\ CallOK(d) /\ Keeps(c, d)
      /\ d.stk = <<>> \/ d.stk = Front(c.stk)
  <2> HIDE DEF c
  <2>1. Running(p) /\ Keeps(c, p) /\ p.stk = Front(c.stk)
    BY <1>2, PopOK DEF FrameOK
  <2> HIDE DEF p
  <2>2. Running(e) /\ Keeps(p, e) /\ e.stk = p.stk
    BY <2>1, WriteOK
  <2>3. CallOK(Return(c, "exception")) /\ Keeps(c, Return(c, "exception")) /\ Return(c, "exception").stk = <<>>
    BY <1>2, ReturnOK
  <2> HIDE DEF e
  <2> QED  BY <2>1, <2>2, <2>3, KeepsTrans DEF CallOK
<1> HIDE DEF d
<1>8. ASSUME NEW i \in DOMAIN d.stk, Opened(d.stk[i]) PROVE d.stk[i].bm \notin pool'
  <2>1. i # n
    <3>1. CASE d.stk = <<>>
      BY <3>1
    <3>2. CASE d.stk = Front(c.stk)
      <4>1. IsSeq(Front(c.stk)) /\ Len(Front(c.stk)) = n - 1
        BY <1>2, <1>3, Popped DEF n
      <4>2. DOMAIN Front(c.stk) = 1 .. n - 1
        BY <4>1, SeqShape
      <4> QED  BY <1>3, <3>2, <4>2
    <3> QED  BY <1>7, <3>1, <3>2
  <2>2. i \in StructFrames(self) /\ st[self].stk[i].bm = d.stk[i].bm
    BY <1>7, <1>8, StructFrameIs DEF Keeps
  <2> QED  BY <1>5, <2>1, <2>2
<1>9. pool' \subseteq Bitmaps
  BY <1>1, <1>4
<1> QED  BY <1>1, <1>5, <1>6, <1>7, <1>8, <1>9, KeepingStep

LEMMA DoStep ==
    ASSUME IInv, NEW self \in Procs, Do(self)
    PROVE  IInv'
<1> DEFINE c == st[self]
<1>1. st[self].ret = "idle" /\ Same
  BY DEF Do
<1>2. PICK call \in Calls[self] :
        Go(self, [Idle EXCEPT !.call = call, !.ret = "none", !.outs = <<<<>>>>,
                              !.in = <<[buf |-> call.msg, at |-> 1]>>,
                              !.stk = <<[ValueFrame(call.typ, call.opts.http) EXCEPT !.root = TRUE]>>])
  BY DEF Do
<1> DEFINE r == [buf |-> call.msg, at |-> 1]
           v == ValueFrame(call.typ, call.opts.http)
           f == [v EXCEPT !.root = TRUE]
           d == [Idle EXCEPT !.call = call, !.ret = "none", !.outs = <<<<>>>>, !.in = <<r>>, !.stk = <<f>>]
<1>3. call.typ \in DOMAIN Types /\ Len(call.msg) \in Nat
  BY CallAssumption
<1>4. ReaderOK(r)
  BY <1>3 DEF ReaderOK, ReaderKeys
<1>5. FrameOK(v) /\ ~v.unset /\ ~v.busy /\ v.k = "value" /\ IsFrame(v)
  BY <1>3, ValueFrameOK DEF FrameOK
<1> HIDE DEF v, r
<1>6. /\ IsFrame(f) /\ f.k = v.k /\ f.typ = v.typ /\ f.unset = v.unset /\ f.busy = v.busy
      /\ f.val = v.val
  BY <1>5 DEF IsFrame, FrameKeys
<1> HIDE DEF f
<1>7. FrameOK(f) /\ f.k = "value" /\ ~f.unset /\ ~f.busy /\ ~Opened(f)
  BY <1>5, <1>6 DEF FrameOK, Opened, StructKinds
<1>8. /\ IsCall(d) /\ d.ret = "none" /\ d.outs = <<<<>>>> /\ d.in = <<r>> /\ d.stk = <<f>>
  BY DEF Idle, IsCall, CallKeys
<1>9. \A x : IsSeq(<<x>>) /\ Len(<<x>>) = 1 /\ <<x>>[1] = x /\ DOMAIN <<x>> = 1 .. 1
  <2> SUFFICES ASSUME NEW x PROVE IsSeq(<<x>>) /\ Len(<<x>>) = 1 /\ <<x>>[1] = x /\ DOMAIN <<x>> = 1 .. 1
    OBVIOUS
  <2>1. <<x>> \in Seq({x})
    OBVIOUS
  <2>2. IsSeq(<<x>>)
    BY <2>1, SeqIsSeq
  <2> QED  BY <2>2
<1>10. Go(self, d)
  BY <1>2 DEF r, f, v
<1> HIDE DEF d
<1>11. UnsetTo(<<f>>, 1) = 0 /\ BusyTo(<<f>>, 1) = 0
  <2>1. {i \in 1 .. 1 : <<f>>[i].unset} = {} /\ {i \in 1 .. 1 : <<f>>[i].busy} = {}
    BY <1>7, <1>9
  <2> QED  BY <2>1, FS_EmptySet DEF UnsetTo, BusyTo
<1>12. StackOK(d.stk)
  BY <1>7, <1>8, <1>9 DEF StackOK
<1>13. ReadersOK(d) /\ OutputsOK(d)
  BY <1>4, <1>8, <1>9, <1>11 DEF ReadersOK, OutputsOK
<1>14. BackOK(d) /\ Keeps(c, d)
  BY <1>7, <1>8, <1>9 DEF BackOK, Keeps
<1>15. CallOK(d)
  BY <1>8, <1>12, <1>13, <1>14 DEF CallOK, Running
<1> QED  BY <1>1, <1>10, <1>14, <1>15, SameStep

LEMMA FinishStep ==
    ASSUME IInv, NEW self \in Procs, Finish(self)
    PROVE  IInv'
<1> DEFINE d == Return(st[self], "ok")
<1>1. Go(self, d) /\ Same /\ IsCall(st[self])
  BY DEF Finish, IInv, CallOK, Running, Returned
<1>2. CallOK(d) /\ Keeps(st[self], d)
  BY <1>1, ReturnOK
<1> HIDE DEF d
<1> QED  BY <1>1, <1>2, SameStep

LEMMA NextIInv == IInv /\ [Next]_vars => IInv'
<1> SUFFICES ASSUME IInv, [Next]_vars PROVE IInv'
  OBVIOUS
<1>1. CASE UNCHANGED vars
  BY <1>1 DEF vars, IInv, BitmapsExclusive, MarksOwned, StructFrames, Visible
<1>2. CASE Next
  <2>1. PICK self \in Procs : Do(self) \/ Step(self)
    BY <1>2 DEF Next
  <2> QED  BY <2>1, ReadScalarStep, OpenElemsStep, ElementStep, OpenStructStep, FieldsStep,
              KnownFieldStep, HttpReadStep, HttpJSONStep, HttpSetStep, UnsetStep,
              CloseStructStep, DoStep, FinishStep DEF Step
<1> QED  BY <1>1, <1>2

-----------------------------------------------------------------------------
\* In every behaviour, whatever the IDL, the messages and the goroutines are, the invariant
\* holds (impl.go, do and doRecurse; thrift/utils.go, the bitmap pool).
THEOREM Invariant == Spec => []IInv
<1> QED  BY InitIInv, NextIInv, PTL DEF Spec

\* Each call has a reader for each missing field being written and an output for each mapped
\* value, no reader is behind its buffer, and the marks of a bitmap lie in its words.
THEOREM TypeCorrect == Spec => []TypeOK
<1> QED  BY Invariant, IInvTypes, PTL

\* A requires bitmap belongs to one open struct of one goroutine and is not in the pool
\* meanwhile (NewRequiresBitmap and FreeRequiresBitmap in impl.go).
THEOREM BitmapsStayExclusive == Spec => []BitmapsExclusive
<1>1. IInv => BitmapsExclusive
  BY DEF IInv
<1> QED  BY Invariant, <1>1, PTL

\* What a bitmap was used for before is never seen: the marks HandleRequires meets are of
\* fields of the struct at hand (CopyTo and Set in thrift/utils.go).
THEOREM MarksStayOwned == Spec => []MarksOwned
<1>1. IInv => MarksOwned
  BY DEF IInv
<1> QED  BY Invariant, <1>1, PTL
=============================================================================
