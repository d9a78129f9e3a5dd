----------------------------- MODULE P2JProofs -----------------------------
(***************************************************************************)
(* Proofs about P2J, for any input: the reader stays in it and never goes  *)
(* back, the open calls are what the code can stand in, and what a nested  *)
(* message believes to be left of it is what is left and what it skipped.  *)
(***************************************************************************)
EXTENDS P2J, SequenceTheorems, WellFoundedInduction, TLAPS

USE WireAssumption

-----------------------------------------------------------------------------
(***************************************************************************)
(* Reading.                                                                *)
(***************************************************************************)
\* A set of naturals has a least one.
LEMMA LeastOne ==
    ASSUME NEW S \in SUBSET Nat, S # {}
    PROVE  \E i \in S : \A j \in S : i <= j
<1> DEFINE R == {ss \in Nat \X Nat : ss[1] < ss[2]}
<1>1. IsWellFoundedOn(R, Nat)
  BY NatLessThanWellFounded DEF OpToRel
<1>2. PICK i \in S : \A j \in S : <<j, i>> \notin R
  <2> HIDE DEF R
  <2> QED  BY <1>1, WFMin
<1>3. \A j \in S : ~(j < i)
  BY <1>2
<1> QED  BY <1>2, <1>3

LEMMA DigitOf ==
    ASSUME NEW b \in Byte, NEW n \in Nat
    PROVE  (b % Base) + Base * n \in Nat
<1>1. b \in Nat /\ Base \in Nat /\ Base > 0
  BY DEF Byte
<1>2. b % Base \in Nat
  BY <1>1
<1>3. Base * n \in Nat
  BY <1>1
<1> HIDE DEF Byte
<1> QED  BY <1>2, <1>3

\* The numbers that the digits up to end make, from each position.
IsValue(f, buf, at, end) ==
    f = [i \in at .. end |-> IF i = end THEN 0 ELSE (buf[i + 1] % Base) + Base * f[i + 1]]

\* Digits are read from the last to the first, so the numbers exist from every position on.
LEMMA ValueExists ==
    ASSUME NEW buf, NEW end \in Nat, NEW n \in Nat, n <= end
    PROVE  \E f : IsValue(f, buf, end - n, end)
<1> DEFINE S == {k \in 0 .. end : ~\E f : IsValue(f, buf, end - k, end)}
<1> SUFFICES ASSUME S # {} PROVE FALSE
  OBVIOUS
<1>1. PICK k \in S : \A j \in S : k <= j
  <2>1. S \in SUBSET Nat
    OBVIOUS
  <2> HIDE DEF S
  <2> QED  BY <2>1, LeastOne
<1>2. CASE k = 0
  <2> DEFINE f == [i \in end - 0 .. end |-> 0]
  <2>1. \A i \in end - 0 .. end : i = end
    OBVIOUS
  <2>2. IsValue(f, buf, end - 0, end)
    BY <2>1 DEF IsValue
  <2> QED  BY <1>1, <1>2, <2>2
<1>3. CASE k # 0
  <2>1. k \in 0 .. end /\ k - 1 \in 0 .. end /\ k - 1 \notin S
    BY <1>1, <1>3
  <2>2. PICK f : IsValue(f, buf, end - (k - 1), end)
    BY <2>1
  <2>3. \A i \in end - (k - 1) .. end :
           f[i] = IF i = end THEN 0 ELSE (buf[i + 1] % Base) + Base * f[i + 1]
    BY <2>2 DEF IsValue
  <2> DEFINE c == (buf[end - k + 1] % Base) + Base * f[end - k + 1]
             g == [i \in end - k .. end |-> IF i = end - k THEN c ELSE f[i]]
  <2>4. \A i \in end - k .. end : g[i] = IF i = end - k THEN c ELSE f[i]
    OBVIOUS
  <2>5. g = [i \in end - k .. end |-> g[i]]
    OBVIOUS
  <2> HIDE DEF g
  <2>6. ASSUME NEW i \in end - k .. end
        PROVE  g[i] = IF i = end THEN 0 ELSE (buf[i + 1] % Base) + Base * g[i + 1]
    <3>1. i # end => i + 1 \in end - k .. end /\ i + 1 # end - k
      BY <2>1
    <3>2. i # end => g[i + 1] = f[i + 1]
      BY <2>4, <3>1
    <3>3. CASE i = end - k
      <4>1. g[i] = c /\ i # end
        BY <1>3, <2>1, <2>4, <3>3
      <4> QED  BY <3>2, <3>3, <4>1
    <3>4. CASE i # end - k
      <4>1. i \in end - (k - 1) .. end /\ g[i] = f[i]
        BY <2>1, <2>4, <3>4
      <4> HIDE DEF c
      <4> QED  BY <2>3, <3>2, <4>1
    <3> QED  BY <3>3, <3>4
  <2>7. IsValue(g, buf, end - k, end)
    BY <2>5, <2>6 DEF IsValue
  <2> QED  BY <1>1, <2>7
<1> QED  BY <1>2, <1>3

LEMMA DigitsAreNumber ==
    ASSUME NEW buf \in Seq(Byte), NEW end \in 0 .. Len(buf), NEW at \in 0 .. end
    PROVE  Digits(buf, at, end) \in Nat
<1> DEFINE f == CHOOSE g : IsValue(g, buf, at, end)
<1>1. Len(buf) \in Nat /\ at \in Nat /\ end \in Nat /\ at <= end
  OBVIOUS
<1>2. Digits(buf, at, end) = f[at]
  BY DEF Digits, IsValue
<1>3. IsValue(f, buf, at, end)
  <2>1. end - at \in Nat /\ end - at <= end /\ end - (end - at) = at
    BY <1>1
  <2>2. \E g : IsValue(g, buf, end - (end - at), end)
    BY <1>1, <2>1, ValueExists
  <2> QED  BY <2>1, <2>2
<1> HIDE DEF f
<1>4. \A i \in at .. end : f[i] = IF i = end THEN 0 ELSE (buf[i + 1] % Base) + Base * f[i + 1]
  BY <1>3 DEF IsValue
<1> DEFINE S == {k \in 0 .. end - at : f[end - k] \notin Nat}
<1>5. S = {}
  <2> SUFFICES ASSUME S # {} PROVE FALSE
    OBVIOUS
  <2>1. PICK k \in S : \A j \in S : k <= j
    <3>1. S \in SUBSET Nat
      BY <1>1
    <3> HIDE DEF S
    <3> QED  BY <3>1, LeastOne
  <2>2. k # 0
    <3>1. f[end] = 0
      BY <1>1, <1>4
    <3> QED  BY <1>1, <2>1, <3>1
  <2>3. k - 1 \in 0 .. end - at /\ k - 1 \notin S
    BY <1>1, <2>1, <2>2
  <2>4. end - (k - 1) = end - k + 1 /\ end - k \in at .. end /\ end - k # end /\ end - k + 1 \in 1 .. Len(buf)
    BY <1>1, <2>1, <2>2
  <2>5. f[end - k + 1] \in Nat
    BY <2>3, <2>4
  <2>6. f[end - k] = (buf[end - k + 1] % Base) + Base * f[end - k + 1]
    BY <1>4, <2>4
  <2>7. buf[end - k + 1] \in Byte
    BY <2>4
  <2>8. f[end - k] \in Nat
    BY <2>5, <2>6, <2>7, DigitOf
  <2> QED  BY <2>1, <2>8
<1>6. end - at \in 0 .. end - at /\ end - (end - at) = at
  BY <1>1
<1> QED  BY <1>2, <1>5, <1>6

\* Where reading from a position can end.
After(buf, at) == {Fail} \cup {i \in Nat : at <= i /\ i <= Len(buf)}

LEMMA VarintIs ==
    ASSUME NEW buf \in Seq(Byte), NEW at \in Nat \cup {Fail}
    PROVE  /\ ReadVarint(buf, at).v \in Nat /\ ReadVarint(buf, at).at \in After(buf, at)
           /\ at = Fail => ReadVarint(buf, at).at = Fail
<1>1. Len(buf) \in Nat /\ \A i \in 1 .. Len(buf) : buf[i] \in Byte
  OBVIOUS
<1>2. CASE at # Fail /\ \E i \in at + 1 .. Len(buf) : buf[i] < Base
  <2> DEFINE S == {i \in at + 1 .. Len(buf) : buf[i] < Base}
             end == CHOOSE i \in at + 1 .. Len(buf) : EndsAt(buf, at, i)
  <2>1. at \in Nat
    BY <1>2
  <2>2. PICK i \in S : \A j \in S : i <= j
    <3>1. S \in SUBSET Nat /\ S # {}
      BY <1>1, <1>2, <2>1
    <3> HIDE DEF S
    <3> QED  BY <3>1, LeastOne
  <2>3. \A j \in at + 1 .. i - 1 : buf[j] >= Base
    <3> SUFFICES ASSUME NEW j \in at + 1 .. i - 1 PROVE buf[j] >= Base
      OBVIOUS
    <3>1. j \in 1 .. Len(buf) /\ j \in at + 1 .. Len(buf) /\ ~(i <= j)
      BY <1>1, <2>1, <2>2
    <3>2. buf[j] \in Nat
      BY <1>1, <3>1 DEF Byte
    <3>3. ~(buf[j] < Base)
      BY <2>2, <3>1
    <3> QED  BY <3>2, <3>3
  <2>4. EndsAt(buf, at, i) /\ i \in at + 1 .. Len(buf)
    BY <2>2, <2>3 DEF EndsAt
  <2>5. end \in at + 1 .. Len(buf)
    BY <2>4
  <2>6. ReadVarint(buf, at) = [v |-> Digits(buf, at, end), at |-> end]
    BY <1>2 DEF ReadVarint
  <2> HIDE DEF end
  <2>7. end \in 0 .. Len(buf) /\ at \in 0 .. end
    BY <1>1, <2>1, <2>5
  <2>8. Digits(buf, at, end) \in Nat
    BY <2>7, DigitsAreNumber
  <2> QED  BY <1>1, <1>2, <2>1, <2>5, <2>6, <2>8 DEF After
<1>3. CASE ~(at # Fail /\ \E i \in at + 1 .. Len(buf) : buf[i] < Base)
  <2>1. ReadVarint(buf, at) = [v |-> 0, at |-> Fail]
    BY <1>3 DEF ReadVarint
  <2> QED  BY <2>1 DEF After
<1> QED  BY <1>2, <1>3

LEMMA TagIs ==
    ASSUME NEW buf \in Seq(Byte), NEW at \in Nat \cup {Fail}
    PROVE  /\ ConsumeTag(buf, at).num \in Nat /\ ConsumeTag(buf, at).wire \in 0 .. 3
           /\ ConsumeTag(buf, at).at \in After(buf, at)
           /\ at = Fail => ConsumeTag(buf, at).at = Fail
<1> DEFINE r == ReadVarint(buf, at)
<1>1. r.v \in Nat /\ r.at \in After(buf, at) /\ (at = Fail => r.at = Fail)
  BY VarintIs
<1>2. ConsumeTag(buf, at) = [num |-> r.v \div 4, wire |-> r.v % 4,
                             at |-> IF r.v \div 4 < 1 THEN Fail ELSE r.at]
  BY DEF ConsumeTag
<1> HIDE DEF r
<1>3. r.v \div 4 \in Nat /\ r.v % 4 \in 0 .. 3
  BY <1>1
<1> QED  BY <1>1, <1>2, <1>3 DEF After

LEMMA AdvanceIs ==
    ASSUME NEW buf \in Seq(Byte), NEW at \in Nat \cup {Fail}, NEW size \in Nat
    PROVE  /\ Advance(buf, at, size) \in After(buf, at)
           /\ at = Fail => Advance(buf, at, size) = Fail
<1>1. Len(buf) \in Nat
  OBVIOUS
<1> QED  BY <1>1 DEF Advance, After, Fail

LEMMA SkipIs ==
    ASSUME NEW buf \in Seq(Byte), NEW at \in 0 .. Len(buf), NEW wire
    PROVE  Skip(buf, at, wire) \in After(buf, at)
<1> DEFINE r == ReadVarint(buf, at)
<1>1. Len(buf) \in Nat /\ at \in Nat
  OBVIOUS
<1>2. r.v \in Nat /\ r.at \in After(buf, at)
  BY <1>1, VarintIs
<1> HIDE DEF r
<1>3. Advance(buf, r.at, r.v) \in After(buf, at)
  <2>1. r.at \in Nat \cup {Fail}
    BY <1>2 DEF After
  <2>2. Advance(buf, r.at, r.v) \in After(buf, r.at) /\ (r.at = Fail => Advance(buf, r.at, r.v) = Fail)
    BY <1>2, <2>1, AdvanceIs
  <2>3. CASE r.at = Fail
    BY <2>2, <2>3 DEF After
  <2>4. CASE r.at # Fail
    <3>1. r.at \in Nat /\ at <= r.at
      BY <1>2, <2>4 DEF After
    <3> QED  BY <1>1, <2>2, <3>1 DEF After
  <2> QED  BY <2>3, <2>4
<1>4. Advance(buf, at, FixedWidth) \in After(buf, at)
  BY <1>1, AdvanceIs
<1>5. at \in After(buf, at)
  BY <1>1 DEF After
<1>6. CASE wire = Varint
  BY <1>2, <1>6 DEF Skip, Varint, Fixed, Bytes, r
<1>7. CASE wire = Fixed
  BY <1>4, <1>7 DEF Skip, Varint, Fixed, Bytes
<1>8. CASE wire = Bytes
  BY <1>3, <1>8 DEF Skip, Varint, Fixed, Bytes, r
<1>9. CASE wire \notin {Varint, Fixed, Bytes}
  BY <1>5, <1>9 DEF Skip
<1> QED  BY <1>6, <1>7, <1>8, <1>9

-----------------------------------------------------------------------------
(***************************************************************************)
(* The inductive invariant.  A call that waits for another one is a        *)
(* message, or a list or map in the middle of an entry; only the innermost *)
(* one is anything else.                                                   *)
(***************************************************************************)
Fits(f) == /\ f.k \in {"root", "msg"} => f.desc.typ = "msg"
           /\ f.k = "packed" => f.desc.typ = "list" /\ f.desc.elem \in Scalars
           /\ f.k \in {"item", "next"} => f.desc.typ = "list"
           /\ f.k \in {"pair", "pairs"} => f.desc.typ = "map"

Waits(f) == f.k \in {"root", "msg", "next", "pairs"}

\* A message's count is exact at a position.
Exact(f, at) == f.k = "msg" => f.left = f.end - at + f.skipped

StackOK(s, at) ==
    /\ s \in Seq(Frames)
    /\ \A i \in 1 .. Len(s) : Fits(s[i])
    /\ \A i \in 1 .. Len(s) - 1 : Waits(s[i]) /\ Exact(s[i], s[i].start)
    /\ s # <<>> => Exact(s[Len(s)], at)

IInv == /\ call \in Calls /\ rd \in 0 .. Len(Buf)
        /\ out \in Seq(Token) /\ ret \in {"none", "ok", "error"}
        /\ StackOK(stk, rd)
        /\ ret # "none" => stk = <<>>

LEMMA Consequences == IInv => TypeOK /\ BudgetIsExact
<1> SUFFICES ASSUME IInv PROVE TypeOK /\ BudgetIsExact
  OBVIOUS
<1>1. TypeOK
  BY DEF IInv, StackOK, TypeOK
<1>2. stk \in Seq(Frames) /\ Len(stk) \in Nat /\ DOMAIN stk = 1 .. Len(stk)
  BY DEF IInv, StackOK
<1>3. BudgetIsExact
  <2> SUFFICES ASSUME NEW i \in DOMAIN stk, stk[i].k = "msg" PROVE stk[i].left = Below(i) + stk[i].skipped
    BY DEF BudgetIsExact
  <2>1. i \in 1 .. Len(stk) /\ stk # <<>>
    BY <1>2
  <2>2. CASE i = Len(stk)
    BY <2>1, <2>2 DEF IInv, StackOK, Exact, Below
  <2>3. CASE i # Len(stk)
    <3>1. i \in 1 .. Len(stk) - 1
      BY <1>2, <2>1, <2>3
    <3> QED  BY <2>3, <3>1 DEF IInv, StackOK, Exact, Below
  <2> QED  BY <2>2, <2>3
<1> QED  BY <1>1, <1>3

-----------------------------------------------------------------------------
(***************************************************************************)
(* Stacks.                                                                 *)
(***************************************************************************)
LEMMA StackShape ==
    ASSUME NEW s, NEW at, StackOK(s, at), s # <<>>
    PROVE  /\ s \in Seq(Frames) /\ Len(s) \in Nat \ {0} /\ s[Len(s)] \in Frames
           /\ Fits(s[Len(s)]) /\ Last(s) = s[Len(s)]
<1>1. s \in Seq(Frames) /\ Len(s) \in Nat \ {0}
  BY EmptySeq DEF StackOK
<1> QED  BY <1>1 DEF StackOK, Last

\* The innermost call goes on.
LEMMA RetopOK ==
    ASSUME NEW s, NEW at, StackOK(s, at), s # <<>>,
           NEW f \in Frames, Fits(f), NEW to, Exact(f, to)
    PROVE  StackOK([s EXCEPT ![Len(s)] = f], to)
<1> DEFINE t == [s EXCEPT ![Len(s)] = f]
<1>1. s \in Seq(Frames) /\ Len(s) \in Nat \ {0}
  BY StackShape
<1>2. /\ t \in Seq(Frames) /\ Len(t) = Len(s)
      /\ \A j \in 1 .. Len(s) : t[j] = IF j = Len(s) THEN f ELSE s[j]
  BY <1>1, ExceptSeq
<1> HIDE DEF t
<1>3. \A i \in 1 .. Len(t) : Fits(t[i])
  BY <1>1, <1>2 DEF StackOK
<1>4. \A i \in 1 .. Len(t) - 1 : t[i] = s[i] /\ i \in 1 .. Len(s) - 1
  BY <1>1, <1>2
<1>5. \A i \in 1 .. Len(t) - 1 : Waits(t[i]) /\ Exact(t[i], t[i].start)
  BY <1>4 DEF StackOK
<1>6. t[Len(t)] = f
  BY <1>1, <1>2
<1> QED  BY <1>2, <1>3, <1>5, <1>6 DEF StackOK, t

\* The innermost call calls another one.
LEMMA PushOK ==
    ASSUME NEW s, NEW at, StackOK(s, at), s # <<>>,
           NEW f \in Frames, Fits(f), Waits(f), Exact(f, f.start),
           NEW g \in Frames, Fits(g), NEW to, Exact(g, to)
    PROVE  StackOK(Append([s EXCEPT ![Len(s)] = f], g), to)
<1> DEFINE r == [s EXCEPT ![Len(s)] = f]
           t == Append(r, g)
<1>1. Len(s) \in Nat \ {0} /\ StackOK(r, f.start)
  BY StackShape, RetopOK
<1>2. r \in Seq(Frames) /\ Len(r) = Len(s) /\ r[Len(s)] = f
  <2>1. s \in Seq(Frames) /\ Len(s) \in 1 .. Len(s)
    BY <1>1 DEF StackOK
  <2> QED  BY <2>1, ExceptSeq
<1> HIDE DEF r
<1>3. /\ t \in Seq(Frames) /\ Len(t) = Len(r) + 1 /\ t[Len(r) + 1] = g
      /\ \A i \in 1 .. Len(r) : t[i] = r[i]
  BY <1>2, AppendProperties
<1> HIDE DEF t
<1>4. \A i \in 1 .. Len(t) : Fits(t[i])
  BY <1>1, <1>2, <1>3 DEF StackOK
<1>5. ASSUME NEW i \in 1 .. Len(t) - 1 PROVE Waits(t[i]) /\ Exact(t[i], t[i].start)
  <2>1. i \in 1 .. Len(r) /\ t[i] = r[i]
    BY <1>1, <1>2, <1>3
  <2>2. CASE i = Len(r)
    BY <1>2, <2>1, <2>2
  <2>3. CASE i # Len(r)
    <3>1. i \in 1 .. Len(r) - 1
      BY <1>1, <1>2, <2>1, <2>3
    <3> QED  BY <1>1, <2>1, <3>1 DEF StackOK
  <2> QED  BY <2>2, <2>3
<1> QED  BY <1>3, <1>4, <1>5 DEF StackOK, t, r

LEMMA FrontIs ==
    ASSUME NEW s \in Seq(Frames), s # <<>>
    PROVE  /\ Front(s) \in Seq(Frames) /\ Len(Front(s)) = Len(s) - 1 /\ Len(s) \in Nat \ {0}
           /\ \A i \in 1 .. Len(s) - 1 : Front(s)[i] = s[i]
           /\ Front(s) = <<>> <=> Len(s) = 1
<1>1. Len(s) \in Nat \ {0}
  BY EmptySeq
<1>2. \A i \in 1 .. Len(s) - 1 : s[i] \in Frames
  BY <1>1
<1> DEFINE n == Len(s) - 1
           u == SubSeq(s, 1, n)
<1>3. n \in Nat /\ n \in Int /\ 1 \in Int
  BY <1>1
<1>4. Front(s) \in Seq(Frames) /\ Len(Front(s)) = Len(s) - 1 /\ \A i \in 1 .. Len(s) - 1 : Front(s)[i] = s[i]
  <2>1. /\ u \in Seq(Frames) /\ Len(u) = IF 1 <= n THEN n - 1 + 1 ELSE 0
        /\ \A i \in 1 .. n - 1 + 1 : u[i] = s[1 + i - 1]
    <3> HIDE DEF n
    <3> QED  BY <1>2, <1>3, SubSeqProperties DEF n
  <2>2. Front(s) = u
    BY DEF Front
  <2> HIDE DEF u, n
  <2>3. Len(u) = n /\ \A i \in 1 .. n : u[i] = s[i]
    BY <1>3, <2>1
  <2> QED  BY <2>1, <2>2, <2>3 DEF n
<1>5. Front(s) = <<>> <=> Len(Front(s)) = 0
  BY <1>4, EmptySeq
<1> QED  BY <1>1, <1>4, <1>5

\* The innermost call comes back: the message that waited counts from where its field began.
LEMMA PoppedOK ==
    ASSUME NEW at, StackOK(stk, at), stk # <<>>, NEW to \in Nat
    PROVE  StackOK(Popped(to), to) /\ (Len(stk) = 1 <=> Popped(to) = <<>>)
<1> DEFINE s == Front(stk)
<1>1. /\ s \in Seq(Frames) /\ Len(s) = Len(stk) - 1 /\ Len(stk) \in Nat \ {0}
      /\ \A i \in 1 .. Len(stk) - 1 : s[i] = stk[i]
      /\ s = <<>> <=> Len(stk) = 1
  BY FrontIs DEF StackOK
<1>2. Popped(to) = IF s = <<>> THEN s ELSE [s EXCEPT ![Len(s)] = Resume(s[Len(s)], to)]
  BY DEF Popped
<1> HIDE DEF s
<1>3. CASE s = <<>>
  BY <1>1, <1>2, <1>3, EmptySeq DEF StackOK
<1>4. CASE s # <<>>
  <2> DEFINE f == s[Len(s)]
             g == Resume(f, to)
  <2>1. /\ Len(s) \in Nat \ {0} /\ f = stk[Len(stk) - 1] /\ Len(stk) - 1 \in 1 .. Len(stk) - 1
        /\ f \in Frames
    BY <1>1, <1>4, EmptySeq
  <2>2. Fits(f) /\ Waits(f) /\ Exact(f, f.start)
    BY <1>1, <2>1 DEF StackOK
  <2>3. StackOK(s, f.start)
    <3>1. \A i \in 1 .. Len(s) : s[i] = stk[i] /\ i \in 1 .. Len(stk)
      BY <1>1
    <3>2. \A i \in 1 .. Len(s) - 1 : i \in 1 .. Len(stk) - 1 /\ i \in 1 .. Len(s)
      BY <1>1
    <3> QED  BY <1>1, <2>2, <3>1, <3>2 DEF StackOK
  <2> HIDE DEF f
  <2>4. g \in Frames /\ Fits(g) /\ Exact(g, to)
    <3>1. CASE f.k = "msg"
      <4>1. f.left \in Int /\ f.start \in Nat /\ f.end \in Int /\ f.left - (to - f.start) \in Int
            /\ f.skipped \in Nat
        BY <2>1 DEF Frames
      <4>2. g = [f EXCEPT !.left = f.left - (to - f.start)]
        BY <3>1 DEF Resume
      <4>3. g \in Frames
        BY <2>1, <4>1, <4>2 DEF Frames
      <4>4. g.k = f.k /\ g.desc = f.desc /\ g.end = f.end /\ g.left = f.left - (to - f.start)
            /\ g.skipped = f.skipped
        BY <2>1, <4>2 DEF Frames
      <4>5. f.left = f.end - f.start + f.skipped
        BY <2>2, <3>1 DEF Exact
      <4> HIDE DEF g
      <4>6. g.left = g.end - to + g.skipped
        BY <4>1, <4>4, <4>5
      <4> QED  BY <2>2, <4>3, <4>4, <4>6 DEF Fits, Exact
    <3>2. CASE f.k # "msg"
      BY <2>1, <2>2, <3>2 DEF Resume, Exact
    <3> QED  BY <3>1, <3>2
  <2> HIDE DEF g
  <2>5. StackOK([s EXCEPT ![Len(s)] = g], to)
    BY <1>4, <2>3, <2>4, RetopOK
  <2>6. Popped(to) = [s EXCEPT ![Len(s)] = g]
    BY <1>2, <1>4 DEF f, g
  <2>7. Len([s EXCEPT ![Len(s)] = g]) = Len(s)
    <3>1. Len(s) \in 1 .. Len(s)
      BY <2>1
    <3> QED  BY <1>1, <2>4, <3>1, ExceptSeq
  <2>8. Popped(to) # <<>>
    BY <2>1, <2>6, <2>7, EmptySeq
  <2> QED  BY <1>1, <1>4, <2>5, <2>6, <2>8
<1> QED  BY <1>3, <1>4

\* An error leaves the calls up to a list.
LEMMA CaughtOK ==
    ASSUME NEW at, StackOK(stk, at), stk # <<>>, NEW to
    PROVE  StackOK(Caught, to)
<1>1. stk \in Seq(Frames) /\ Len(stk) \in Nat \ {0}
  BY StackShape
<1>2. CASE Waiting = {}
  BY <1>2, EmptySeq DEF Caught, StackOK
<1>3. CASE Waiting # {}
  <2> DEFINE m == Max(Waiting)
  <2>1. Waiting \subseteq 1 .. Len(stk) - 1 /\ \A i \in Waiting : stk[i].k = "next"
    <3>1. Front(stk) \in Seq(Frames) /\ Len(Front(stk)) = Len(stk) - 1
      BY <1>1, FrontIs
    <3>2. DOMAIN Front(stk) = 1 .. Len(stk) - 1
      BY <3>1, LenProperties
    <3> QED  BY <3>2 DEF Waiting
  <2>2. m \in Waiting
    <3> DEFINE S == {n \in Nat : \E i \in Waiting : n = Len(stk) - i}
    <3>1. S \in SUBSET Nat /\ S # {}
      <4>1. PICK i \in Waiting : TRUE
        BY <1>3
      <4>2. Len(stk) - i \in Nat
        BY <1>1, <2>1
      <4> QED  BY <4>2
    <3> HIDE DEF S
    <3>2. PICK n \in S : \A j \in S : n <= j
      BY <3>1, LeastOne
    <3>3. PICK i \in Waiting : n = Len(stk) - i
      BY <3>2 DEF S
    <3>4. \A j \in Waiting : j <= i
      <4> SUFFICES ASSUME NEW j \in Waiting PROVE j <= i
        OBVIOUS
      <4>1. Len(stk) - j \in S
        BY <1>1, <2>1 DEF S
      <4>2. n <= Len(stk) - j
        BY <3>2, <4>1
      <4> QED  BY <1>1, <2>1, <3>3, <4>2
    <3> QED  BY <3>4 DEF Max
  <2> HIDE DEF m
  <2>3. m \in 1 .. Len(stk) - 1 /\ stk[m].k = "next"
    BY <2>1, <2>2
  <2>4. Caught = SubSeq(stk, 1, m)
    BY <1>3 DEF Caught, m
  <2> DEFINE t == SubSeq(stk, 1, m)
  <2>5. /\ t \in Seq(Frames) /\ Len(t) = m /\ \A i \in 1 .. m : t[i] = stk[i]
    <3>1. m \in Nat \ {0} /\ m \in Int /\ 1 \in Int /\ \A i \in 1 .. m : stk[i] \in Frames
      BY <1>1, <2>3
    <3>2. /\ t \in Seq(Frames) /\ Len(t) = IF 1 <= m THEN m - 1 + 1 ELSE 0
          /\ \A i \in 1 .. m - 1 + 1 : t[i] = stk[1 + i - 1]
      BY <3>1, SubSeqProperties
    <3> HIDE DEF t
    <3> QED  BY <3>1, <3>2
  <2> HIDE DEF t
  <2>6. \A i \in 1 .. m : i \in 1 .. Len(stk) - 1 /\ i \in 1 .. Len(stk)
    BY <1>1, <2>3
  <2>7. Exact(t[Len(t)], to)
    BY <2>3, <2>5 DEF Exact
  <2>8. \A i \in 1 .. Len(t) - 1 : i \in 1 .. m
    BY <2>3, <2>5
  <2> QED  BY <2>4, <2>5, <2>6, <2>7, <2>8 DEF StackOK, t
<1> QED  BY <1>2, <1>3

-----------------------------------------------------------------------------
(***************************************************************************)
(* Tokens.                                                                 *)
(***************************************************************************)
LEMMA OneToken ==
    ASSUME NEW t \in Token
    PROVE  <<t>> \in Seq(Token)
OBVIOUS

LEMMA Marks ==
    /\ <<>> \in Seq(Token)
    /\ Quote \in Token /\ Comma \in Token /\ Colon \in Token
    /\ <<Comma>> \in Seq(Token) /\ <<Quote>> \in Seq(Token) /\ <<Colon>> \in Seq(Token)
    /\ \A t : Open(t) \in Token /\ Close(t) \in Token
              /\ <<Open(t)>> \in Seq(Token) /\ <<Close(t)>> \in Seq(Token)
<1>1. Quote \in Token /\ Comma \in Token /\ Colon \in Token
  BY DEF Token
<1>2. ASSUME NEW t PROVE Open(t) \in Token /\ Close(t) \in Token
  <2>1. \A b \in {"[", "]", "{", "}"} : <<b>> \in Token
    BY DEF Token
  <2>2. Open(t) = <<IF t = "list" THEN "[" ELSE "{">> /\ Close(t) = <<IF t = "list" THEN "]" ELSE "}">>
    BY DEF Open, Close
  <2> QED  BY <2>1, <2>2
<1> QED  BY <1>1, <1>2, OneToken, EmptySeq

LEMMA LitIs ==
    ASSUME NEW kind \in Scalars, NEW v,
           kind \in VarintKinds => v \in Nat, kind \in {"fix", "str"} => v \in Seq(Byte)
    PROVE  Lit(kind, v) \in Seq(Token)
<1> DEFINE t == <<kind, v>>
<1>1. t \in Token
  <2>1. CASE kind \in VarintKinds
    BY <2>1 DEF Token
  <2>2. CASE kind \in {"fix", "str"}
    BY <2>2 DEF Token
  <2> QED  BY <2>1, <2>2 DEF Scalars
<1> HIDE DEF t
<1>2. Quote \in Token
  BY Marks
<1>3. <<t>> \in Seq(Token) /\ <<Quote, t, Quote>> \in Seq(Token)
  <2> HIDE DEF Token
  <2> QED  BY <1>1, <1>2
<1> QED  BY <1>3 DEF Lit, t

LEMMA NameIs ==
    ASSUME NEW num \in Nat
    PROVE  Name(num) \in Seq(Token)
<1> DEFINE t == <<"name", num>>
<1>1. t \in Token
  BY DEF Token
<1> HIDE DEF t
<1>2. Colon \in Token
  BY Marks
<1> QED  BY <1>1, <1>2 DEF Name, t

LEMMA QuotedIs ==
    ASSUME NEW desc
    PROVE  Quoted(desc) \in Seq(Token)
BY Marks DEF Quoted

LEMMA Joined ==
    ASSUME NEW s \in Seq(Token), NEW t \in Seq(Token)
    PROVE  s \o t \in Seq(Token)
<1> HIDE DEF Token
<1> QED  BY ConcatProperties

-----------------------------------------------------------------------------
(***************************************************************************)
(* The steps of a stack as steps of a conversion.                          *)
(***************************************************************************)
\* What is so of the innermost call.
LEMMA Inner ==
    ASSUME IInv, Running
    PROVE  /\ Top \in Frames /\ Fits(Top) /\ Exact(Top, rd) /\ Top.desc \in Descs
           /\ stk # <<>> /\ ret = "none" /\ StackOK(stk, rd)
           /\ call \in Calls /\ Buf \in Seq(Byte) /\ Len(Buf) \in Nat
           /\ rd \in Nat /\ rd <= Len(Buf)
<1>1. /\ stk # <<>> /\ ret = "none" /\ StackOK(stk, rd) /\ call \in Calls
      /\ rd \in 0 .. Len(Buf)
  BY DEF IInv, Running
<1>2. Buf \in Seq(Byte) /\ Len(Buf) \in Nat
  <2>1. Buf \in Seq(Byte)
    BY <1>1, P2JAssumption DEF Buf
  <2> QED  BY <2>1
<1>3. Top \in Frames /\ Fits(Top) /\ Top = stk[Len(stk)]
  BY <1>1, StackShape DEF Top
<1>4. Exact(Top, rd)
  BY <1>1, <1>3 DEF StackOK
<1>5. Top.desc \in Descs
  BY <1>3 DEF Frames
<1> QED  BY <1>1, <1>2, <1>3, <1>4, <1>5

LEMMA Carry ==
    ASSUME IInv, call' = call, NEW at \in Nat, rd' = at, rd <= at, at <= Len(Buf),
           out' \in Seq(Token), StackOK(stk', at),
           ret' \in {"none", "ok", "error"}, ret' # "none" => stk' = <<>>
    PROVE  IInv' /\ rd' >= rd
<1>1. call \in Calls /\ rd \in 0 .. Len(Buf) /\ Len(Buf') = Len(Buf)
  BY DEF IInv, Buf
<1>2. Buf \in Seq(Byte)
  BY <1>1, P2JAssumption DEF Buf
<1>3. rd' \in 0 .. Len(Buf')
  BY <1>1, <1>2
<1> HIDE DEF Token
<1> QED  BY <1>1, <1>3 DEF IInv

LEMMA GoesOn ==
    ASSUME IInv, Running, call' = call, ret' = ret,
           NEW at \in Nat, rd' = at, rd <= at, at <= Len(Buf), out' \in Seq(Token),
           NEW f \in Frames, Fits(f), Exact(f, at), stk' = Retop(f)
    PROVE  IInv' /\ rd' >= rd
<1>1. StackOK(stk, rd) /\ stk # <<>> /\ ret = "none"
  BY Inner
<1>2. StackOK(stk', at)
  BY <1>1, RetopOK DEF Retop
<1> QED  BY <1>1, <1>2, Carry

LEMMA FrameIs ==
    ASSUME NEW k \in {"root", "msg", "value", "packed", "item", "pair"}, NEW desc \in Descs
    PROVE  /\ Frame(k, desc) \in Frames
           /\ Frame(k, desc).k = k /\ Frame(k, desc).desc = desc /\ Frame(k, desc).skipped = 0
BY DEF Frame, Frames, Varint

LEMMA CallsOn ==
    ASSUME IInv, Running, call' = call, ret' = ret,
           NEW at \in Nat, rd' = at, rd <= at, at <= Len(Buf), out' \in Seq(Token),
           NEW f \in Frames, Fits(f), Waits(f), Exact(f, f.start),
           NEW desc \in Descs, NEW wire \in 0 .. 3, NEW left \in Int,
           stk' = Push(f, ValueFrame(desc, wire, left))
    PROVE  IInv' /\ rd' >= rd
<1> DEFINE g == ValueFrame(desc, wire, left)
<1>1. StackOK(stk, rd) /\ stk # <<>> /\ ret = "none"
  BY Inner
<1> DEFINE h == Frame("value", desc)
<1>2. h \in Frames /\ h.k = "value"
  BY FrameIs
<1> HIDE DEF h
<1>3. g \in Frames /\ Fits(g) /\ Exact(g, at)
  <2>1. g = [h EXCEPT !.wire = wire, !.left = left]
    BY DEF ValueFrame, h
  <2>2. g \in Frames /\ g.k = "value"
    BY <1>2, <2>1 DEF Frames
  <2> HIDE DEF g
  <2> QED  BY <2>2 DEF Fits, Exact
<1> HIDE DEF g
<1>4. StackOK(stk', at)
  BY <1>1, <1>3, PushOK DEF Push, Retop, g
<1> QED  BY <1>1, <1>4, Carry

LEMMA ComesBack ==
    ASSUME IInv, Running, call' = call,
           NEW at \in Nat, rd' = at, rd <= at, at <= Len(Buf), out' \in Seq(Token),
           Return(at)
    PROVE  IInv' /\ rd' >= rd
<1>1. StackOK(stk, rd) /\ stk # <<>> /\ ret = "none"
  BY Inner
<1>2. StackOK(stk', at) /\ (Len(stk) = 1 <=> stk' = <<>>)
  BY <1>1, PoppedOK DEF Return
<1>3. ret' \in {"none", "ok", "error"} /\ (ret' # "none" => stk' = <<>>)
  BY <1>1, <1>2 DEF Return
<1> QED  BY <1>2, <1>3, Carry

LEMMA FailsOn ==
    ASSUME IInv, Running, call' = call,
           NEW at \in Nat, rd' = at, rd <= at, at <= Len(Buf), out' \in Seq(Token), Throw
    PROVE  IInv' /\ rd' >= rd
<1>1. StackOK(stk, rd) /\ stk # <<>> /\ ret = "none"
  BY Inner
<1>2. StackOK(stk', at)
  BY <1>1, CaughtOK DEF Throw
<1>3. ret' \in {"none", "ok", "error"} /\ (ret' # "none" => stk' = <<>>)
  BY <1>1 DEF Throw
<1> QED  BY <1>2, <1>3, Carry

LEMMA FailsAt ==
    ASSUME IInv, Running, NEW at \in Nat, rd <= at, at <= Len(Buf), ThrowAt(at)
    PROVE  IInv' /\ rd' >= rd
<1>1. call' = call /\ rd' = at /\ out' = out /\ Throw
  BY DEF ThrowAt, Goto
<1>2. out' \in Seq(Token)
  BY <1>1 DEF IInv
<1> QED  BY <1>1, <1>2, FailsOn

\* Writing keeps the types of the output.
LEMMA Writes ==
    ASSUME IInv, NEW t \in Seq(Token), Write(t)
    PROVE  out' \in Seq(Token)
BY Joined DEF IInv, Write

-----------------------------------------------------------------------------
(***************************************************************************)
(* Scalars.                                                                *)
(***************************************************************************)
LEMMA BytesAre ==
    ASSUME Buf \in Seq(Byte), NEW at \in Nat \cup {Fail}, NEW size \in Nat
    PROVE  /\ ReadBytes(at, size).at \in After(Buf, at)
           /\ at = Fail => ReadBytes(at, size).at = Fail
           /\ ReadBytes(at, size).v \in Seq(Byte)
<1> DEFINE end == Advance(Buf, at, size)
<1>1. end \in After(Buf, at) /\ (at = Fail => end = Fail)
  BY AdvanceIs
<1>2. ReadBytes(at, size) = [at |-> end, v |-> IF end = Fail THEN <<>> ELSE SubSeq(Buf, at + 1, end)]
  BY DEF ReadBytes
<1> HIDE DEF end
<1>3. CASE end = Fail
  BY <1>1, <1>2, <1>3, EmptySeq
<1>4. CASE end # Fail
  <2>1. at \in Nat /\ end \in Nat /\ at <= end /\ end <= Len(Buf) /\ Len(Buf) \in Nat
    BY <1>1, <1>4 DEF After
  <2>2. at + 1 \in Int /\ end \in Int /\ \A i \in at + 1 .. end : Buf[i] \in Byte
    <3>1. \A i \in at + 1 .. end : i \in 1 .. Len(Buf)
      BY <2>1
    <3> QED  BY <2>1, <3>1
  <2>3. SubSeq(Buf, at + 1, end) \in Seq(Byte)
    BY <2>2, SubSeqProperties
  <2> QED  BY <1>1, <1>2, <1>4, <2>3
<1> QED  BY <1>3, <1>4

LEMMA ScalarIs ==
    ASSUME Buf \in Seq(Byte), NEW at \in Nat \cup {Fail}, NEW kind \in Scalars
    PROVE  /\ ReadScalar(kind, at).at \in After(Buf, at)
           /\ at = Fail => ReadScalar(kind, at).at = Fail
           /\ Lit(kind, ReadScalar(kind, at).v) \in Seq(Token)
<1> DEFINE r == ReadVarint(Buf, at)
<1>1. r.v \in Nat /\ r.at \in After(Buf, at) /\ (at = Fail => r.at = Fail)
  BY VarintIs
<1>2. kind \in VarintKinds \/ kind = "fix" \/ kind = "str"
  BY DEF Scalars
<1>3. "fix" \notin VarintKinds /\ "str" \notin VarintKinds
  BY DEF VarintKinds
<1>4. CASE kind \in VarintKinds
  <2>1. ReadScalar(kind, at) = r
    BY <1>3, <1>4 DEF ReadScalar
  <2>2. kind \notin {"fix", "str"}
    BY <1>3, <1>4
  <2> HIDE DEF r
  <2>3. Lit(kind, r.v) \in Seq(Token)
    BY <1>1, <1>4, <2>2, LitIs
  <2> QED  BY <1>1, <2>1, <2>3
<1>5. CASE kind = "fix"
  <2> DEFINE b == ReadBytes(at, FixedWidth)
  <2>1. ReadScalar(kind, at) = b
    BY <1>3, <1>5 DEF ReadScalar
  <2>2. b.at \in After(Buf, at) /\ (at = Fail => b.at = Fail) /\ b.v \in Seq(Byte)
    BY BytesAre
  <2> HIDE DEF b
  <2>3. Lit(kind, b.v) \in Seq(Token)
    BY <1>3, <1>5, <2>2, LitIs
  <2> QED  BY <2>1, <2>2, <2>3
<1>6. CASE kind = "str"
  <2> DEFINE b == ReadBytes(r.at, r.v)
  <2>1. ReadScalar(kind, at) = b
    BY <1>3, <1>6 DEF ReadScalar
  <2>2. r.at \in Nat \cup {Fail}
    BY <1>1 DEF After
  <2>3. b.at \in After(Buf, r.at) /\ (r.at = Fail => b.at = Fail) /\ b.v \in Seq(Byte)
    BY <1>1, <2>2, BytesAre
  <2> HIDE DEF b, r
  <2>4. Lit(kind, b.v) \in Seq(Token)
    BY <1>3, <1>6, <2>3, LitIs
  <2>5. b.at \in After(Buf, at)
    <3>1. CASE r.at = Fail
      BY <2>3, <3>1 DEF After
    <3>2. CASE r.at # Fail
      <4>1. r.at \in Nat /\ (at # Fail => at \in Nat /\ at <= r.at) /\ (at = Fail => FALSE)
        BY <1>1, <3>2 DEF After
      <4> QED  BY <2>3, <4>1 DEF After
    <3> QED  BY <3>1, <3>2
  <2>6. at = Fail => b.at = Fail
    BY <1>1, <2>3
  <2> QED  BY <2>1, <2>4, <2>5, <2>6
<1> QED  BY <1>2, <1>4, <1>5, <1>6

\* Where a reader can go from a position in the input, if it does not fail.
LEMMA Reached ==
    ASSUME NEW at \in Nat, NEW end \in After(Buf, at), end # Fail
    PROVE  end \in Nat /\ at <= end /\ end <= Len(Buf)
BY DEF After

\* The tag, varint or scalar at the reader.
LEMMA HereIs ==
    ASSUME IInv, Running
    PROVE  /\ ReadVarint(Buf, rd).v \in Nat /\ ReadVarint(Buf, rd).at \in After(Buf, rd)
           /\ ConsumeTag(Buf, rd).num \in Nat /\ ConsumeTag(Buf, rd).wire \in 0 .. 3
           /\ ConsumeTag(Buf, rd).at \in After(Buf, rd)
           /\ \A kind \in Scalars : /\ ReadScalar(kind, rd).at \in After(Buf, rd)
                                    /\ Lit(kind, ReadScalar(kind, rd).v) \in Seq(Token)
<1>1. Buf \in Seq(Byte) /\ rd \in Nat \cup {Fail}
  BY Inner
<1>2. ReadVarint(Buf, rd).v \in Nat /\ ReadVarint(Buf, rd).at \in After(Buf, rd)
  BY <1>1, VarintIs
<1>3. /\ ConsumeTag(Buf, rd).num \in Nat /\ ConsumeTag(Buf, rd).wire \in 0 .. 3
      /\ ConsumeTag(Buf, rd).at \in After(Buf, rd)
  BY <1>1, TagIs
<1> QED  BY <1>1, <1>2, <1>3, ScalarIs

\* A failed tag leaves the reader in the input.
LEMMA TagFailedIs ==
    ASSUME IInv, Running
    PROVE  TagFailed \in Nat /\ rd <= TagFailed /\ TagFailed <= Len(Buf)
<1> DEFINE at == ReadVarint(Buf, rd).at
<1>1. at \in After(Buf, rd) /\ rd \in Nat /\ rd <= Len(Buf)
  BY HereIs, Inner
<1>2. TagFailed = IF at = Fail THEN rd ELSE at
  BY DEF TagFailed
<1> HIDE DEF at
<1> QED  BY <1>1, <1>2, Reached

\* An error where the reader is.
LEMMA FailsHere ==
    ASSUME IInv, Running, ThrowAt(rd)
    PROVE  IInv' /\ rd' >= rd
BY Inner, FailsAt

-----------------------------------------------------------------------------
(***************************************************************************)
(* The steps.                                                              *)
(***************************************************************************)
LEMMA DoKeeps ==
    ASSUME IInv, Do
    PROVE  IInv' /\ rd' >= rd
<1>1. /\ call \in Calls /\ rd \in 0 .. Len(Buf) /\ out \in Seq(Token)
      /\ call' = call /\ rd' = rd /\ ret' = ret /\ ret = "none"
  BY DEF IInv, Do
<1>2. Buf \in Seq(Byte) /\ call.desc \in Descs
  BY <1>1, P2JAssumption DEF Buf
<1>3. Len(Buf) \in Nat /\ rd \in Nat /\ rd <= Len(Buf)
  BY <1>1, <1>2
<1>4. ASSUME NEW f \in Frames, Fits(f), f.k # "msg"
      PROVE  StackOK(<<f>>, rd)
  <2>1. <<f>> \in Seq(Frames) /\ Len(<<f>>) = 1 /\ <<f>>[1] = f
    OBVIOUS
  <2> QED  BY <1>4, <2>1 DEF StackOK, Exact
<1>5. out' \in Seq(Token) /\ StackOK(stk', rd)
  <2>1. CASE call.desc.typ = "msg"
    <3> DEFINE h == Frame("root", call.desc)
               f == [h EXCEPT !.end = Len(Buf)]
    <3>1. h \in Frames /\ h.k = "root" /\ h.desc = call.desc
      BY <1>2, FrameIs
    <3>2. stk' = <<f>> /\ Write(<<Open("msg")>>)
      BY <2>1 DEF Do
    <3>3. <<Open("msg")>> \in Seq(Token)
      BY Marks
    <3>4. out' \in Seq(Token)
      BY <3>2, <3>3, Writes
    <3> HIDE DEF h
    <3>5. f \in Frames /\ f.k = "root" /\ f.desc = call.desc
      BY <1>3, <3>1 DEF Frames
    <3> HIDE DEF f
    <3>6. StackOK(<<f>>, rd)
      BY <1>4, <2>1, <3>5 DEF Fits
    <3> QED  BY <3>2, <3>4, <3>6
  <2>2. CASE call.desc.typ # "msg"
    <3> DEFINE h == Frame("value", call.desc)
               w == WireOf(call.desc.typ)
               f == ValueFrame(call.desc, w, Len(Buf))
    <3>1. h \in Frames /\ h.k = "value"
      BY <1>2, FrameIs
    <3>2. stk' = <<f>> /\ out' = out
      BY <2>2 DEF Do
    <3>3. w \in 0 .. 3
      BY DEF WireOf, Varint, Fixed, Bytes
    <3>4. f = [h EXCEPT !.wire = w, !.left = Len(Buf)]
      BY DEF ValueFrame
    <3> HIDE DEF h, w
    <3> HIDE DEF f
    <3>5. f \in Frames /\ f.k = "value"
      <4> DEFINE n == Len(Buf)
      <4>1. n \in Int
        BY <1>3
      <4>2. f = [h EXCEPT !.wire = w, !.left = n]
        BY <3>4
      <4> HIDE DEF n
      <4> QED  BY <3>1, <3>3, <4>1, <4>2 DEF Frames
    <3>6. StackOK(<<f>>, rd)
      BY <1>4, <3>5 DEF Fits
    <3> QED  BY <1>1, <3>2, <3>6
  <2> QED  BY <2>1, <2>2
<1> QED  BY <1>1, <1>3, <1>5, Carry

LEMMA BadTagKeeps ==
    ASSUME IInv, BadTag
    PROVE  IInv' /\ rd' >= rd
<1>1. Running /\ ThrowAt(TagFailed)
  BY DEF BadTag, InMessage, AtMessage, At
<1> QED  BY <1>1, TagFailedIs, FailsAt

LEMMA UnknownFieldKeeps ==
    ASSUME IInv, UnknownField
    PROVE  IInv' /\ rd' >= rd
<1> DEFINE tag == ConsumeTag(Buf, rd)
           end == Skip(Buf, tag.at, tag.wire)
           f == [Top EXCEPT !.skipped = Top.skipped + (end - rd)]
<1>1. Running
  BY DEF UnknownField, InMessage, AtMessage, At
<1>2. /\ tag.at # Fail
      /\ IF Opts.disallow \/ end = Fail THEN ThrowAt(tag.at)
         ELSE Goto(end) /\ stk' = Retop(f) /\ UNCHANGED <<call, out, ret>>
  BY DEF UnknownField
<1>3. tag.at \in After(Buf, rd) /\ rd \in Nat /\ Buf \in Seq(Byte) /\ Len(Buf) \in Nat
  BY <1>1, HereIs, Inner
<1>4. tag.at \in Nat /\ rd <= tag.at /\ tag.at <= Len(Buf)
  <2> HIDE DEF tag
  <2> QED  BY <1>2, <1>3, Reached
<1>5. end \in After(Buf, tag.at)
  <2> HIDE DEF tag
  <2> QED  BY <1>3, <1>4, SkipIs
<1> HIDE DEF tag, end
<1>6. CASE Opts.disallow \/ end = Fail
  BY <1>1, <1>2, <1>4, <1>6, FailsAt
<1>7. CASE ~(Opts.disallow \/ end = Fail)
  <2>1. end \in Nat /\ rd <= end /\ end <= Len(Buf)
    BY <1>3, <1>4, <1>5, <1>7, Reached
  <2>2. rd' = end /\ call' = call /\ out' = out /\ stk' = Retop(f) /\ ret' = ret
    BY <1>2, <1>7 DEF Goto
  <2>3. out' \in Seq(Token)
    BY <1>1, <2>2, Inner DEF IInv
  <2>4. Top \in Frames /\ Fits(Top) /\ Exact(Top, rd)
    BY <1>1, Inner
  <2>5. Top.left \in Int /\ Top.end \in Int /\ Top.skipped \in Nat
    BY <2>4 DEF Frames
  <2> DEFINE n == Top.skipped + (end - rd)
  <2>6. n \in Nat /\ f = [Top EXCEPT !.skipped = n]
    BY <1>3, <2>1, <2>5
  <2> HIDE DEF n, f
  <2>7. f \in Frames /\ f.skipped = n /\ f.k = Top.k /\ f.desc = Top.desc /\ f.left = Top.left /\ f.end = Top.end
    BY <2>4, <2>6 DEF Frames
  <2>8. n = Top.skipped + (end - rd)
    BY DEF n
  <2>9. Exact(f, end)
    BY <1>3, <2>1, <2>4, <2>5, <2>7, <2>8 DEF Exact
  <2>10. Fits(f)
    BY <2>4, <2>7 DEF Fits
  <2> QED  BY <1>1, <2>1, <2>2, <2>3, <2>7, <2>9, <2>10, GoesOn
<1> QED  BY <1>6, <1>7

LEMMA FieldKeeps ==
    ASSUME IInv, Field
    PROVE  IInv' /\ rd' >= rd
<1> DEFINE tag == ConsumeTag(Buf, rd)
           left == LeftFor(Top, tag.at)
           f == [Top EXCEPT !.comma = TRUE, !.left = left, !.start = tag.at]
           desc == Messages[Top.desc.msg][tag.num]
           text == (IF Top.comma THEN <<Comma>> ELSE <<>>) \o Name(tag.num)
<1>1. Running /\ Top.k \in {"msg", "root"}
  BY DEF Field, InMessage, AtMessage, At
<1>2. /\ tag.at # Fail /\ tag.num \in DOMAIN Messages[Top.desc.msg]
      /\ stk' = Push(f, ValueFrame(desc, tag.wire, left))
      /\ rd' = tag.at /\ Write(text) /\ call' = call /\ ret' = ret
  BY DEF Field, Known, Goto
<1>3. /\ tag.at \in After(Buf, rd) /\ tag.num \in Nat /\ tag.wire \in 0 .. 3
      /\ Top \in Frames /\ Fits(Top) /\ Exact(Top, rd) /\ Top.desc \in Descs
      /\ rd \in Nat /\ Len(Buf) \in Nat
  BY <1>1, HereIs, Inner
<1>4. tag.at \in Nat /\ rd <= tag.at /\ tag.at <= Len(Buf)
  <2> HIDE DEF tag
  <2> QED  BY <1>2, <1>3, Reached
<1>5. desc \in Descs
  <2>1. Top.desc.msg \in DOMAIN Messages
    BY <1>3 DEF Descs
  <2> HIDE DEF tag
  <2> QED  BY <1>2, <2>1, P2JAssumption
<1>6. text \in Seq(Token)
  <2> HIDE DEF tag
  <2>1. Name(tag.num) \in Seq(Token) /\ <<Comma>> \in Seq(Token) /\ <<>> \in Seq(Token)
    BY <1>3, NameIs, Marks
  <2> QED  BY <2>1, Joined
<1>7. out' \in Seq(Token)
  <2> HIDE DEF text
  <2> QED  BY <1>2, <1>6, Writes
<1> HIDE DEF tag, desc, text
<1>8. Top.left \in Int /\ Top.end \in Int /\ Top.k \in {"msg", "root"}
      /\ Top.skipped \in Nat
  BY <1>1, <1>3 DEF Frames
<1>9. left = IF Top.k = "root" THEN Top.end - tag.at ELSE Top.left - (tag.at - rd)
  BY DEF LeftFor
<1>10. left \in Int
  BY <1>3, <1>4, <1>8, <1>9
<1> HIDE DEF left
<1>11. /\ f \in Frames /\ f.k = Top.k /\ f.desc = Top.desc /\ f.end = Top.end
       /\ f.left = left /\ f.start = tag.at /\ f.skipped = Top.skipped
  BY <1>3, <1>4, <1>10 DEF Frames
<1> HIDE DEF f
<1>12. Fits(f) /\ Waits(f)
  BY <1>3, <1>8, <1>11 DEF Fits, Waits
<1>13. Exact(f, f.start)
  <2> SUFFICES ASSUME f.k = "msg" PROVE left = Top.end - tag.at + Top.skipped
    BY <1>11 DEF Exact
  <2>1. Top.k = "msg" /\ Top.left = Top.end - rd + Top.skipped
    BY <1>3, <1>11 DEF Exact
  <2>2. left = Top.left - (tag.at - rd)
    BY <1>9, <2>1
  <2> QED  BY <1>3, <1>4, <1>8, <2>1, <2>2, SMTT(30)
<1> QED  BY <1>1, <1>2, <1>3, <1>4, <1>5, <1>7, <1>10, <1>11, <1>12, <1>13, CallsOn

\* A call that writes an end and comes back where the reader is.
LEMMA Closes ==
    ASSUME IInv, Running, NEW t, Write(<<Close(t)>>), Return(rd), call' = call, rd' = rd
    PROVE  IInv' /\ rd' >= rd
<1>1. rd \in Nat /\ rd <= Len(Buf)
  BY Inner
<1>2. out' \in Seq(Token)
  BY Marks, Writes
<1> QED  BY <1>1, <1>2, ComesBack

LEMMA CloseKeeps ==
    ASSUME IInv, CloseMessage \/ ClosePacked \/ CloseList \/ CloseMap
    PROVE  IInv' /\ rd' >= rd
<1>1. Running /\ call' = call /\ rd' = rd /\ Return(rd)
  BY DEF CloseMessage, AtMessage, ClosePacked, CloseList, EndOfList, MoreItems, CloseMap, EndOfMap,
         MorePairs, At
<1>2. \E t : Write(<<Close(t)>>)
  BY DEF CloseMessage, ClosePacked, CloseList, CloseMap
<1> QED  BY <1>1, <1>2, Closes

LEMMA ScalarKeeps ==
    ASSUME IInv, Scalar
    PROVE  IInv' /\ rd' >= rd
<1> DEFINE r == ReadScalar(Top.desc.typ, rd)
<1>1. Running /\ Top.desc.typ \in Scalars
  BY DEF Scalar, At
<1>2. IF r.at = Fail THEN ThrowAt(rd)
      ELSE Goto(r.at) /\ Write(Lit(Top.desc.typ, r.v)) /\ Return(r.at) /\ UNCHANGED call
  BY DEF Scalar
<1>3. r.at \in After(Buf, rd) /\ Lit(Top.desc.typ, r.v) \in Seq(Token) /\ rd \in Nat
  BY <1>1, HereIs, Inner
<1> HIDE DEF r
<1>4. CASE r.at = Fail
  BY <1>1, <1>2, <1>4, FailsHere
<1>5. CASE r.at # Fail
  <2>1. r.at \in Nat /\ rd <= r.at /\ r.at <= Len(Buf)
    BY <1>3, <1>5, Reached
  <2>2. rd' = r.at /\ Write(Lit(Top.desc.typ, r.v)) /\ Return(r.at) /\ call' = call
    BY <1>2, <1>5 DEF Goto
  <2>3. out' \in Seq(Token)
    BY <1>3, <2>2, Writes
  <2> QED  BY <1>1, <2>1, <2>2, <2>3, ComesBack
<1> QED  BY <1>4, <1>5

LEMMA OpenMessageKeeps ==
    ASSUME IInv, OpenMessage
    PROVE  IInv' /\ rd' >= rd
<1> DEFINE l == ReadVarint(Buf, rd)
           h == Frame("msg", Top.desc)
           e == l.at + l.v
           f == [h EXCEPT !.end = e, !.left = l.v]
<1>1. Running /\ Top.desc.typ = "msg"
  BY DEF OpenMessage, At
<1>2. IF l.at = Fail THEN ThrowAt(rd)
      ELSE Goto(l.at) /\ Write(<<Open("msg")>>) /\ stk' = Retop(f) /\ UNCHANGED <<call, ret>>
  BY DEF OpenMessage
<1>3. l.v \in Nat /\ l.at \in After(Buf, rd) /\ rd \in Nat /\ Top.desc \in Descs
  BY <1>1, HereIs, Inner
<1> HIDE DEF l
<1>4. CASE l.at = Fail
  BY <1>1, <1>2, <1>4, FailsHere
<1>5. CASE l.at # Fail
  <2>1. l.at \in Nat /\ rd <= l.at /\ l.at <= Len(Buf)
    BY <1>3, <1>5, Reached
  <2>2. rd' = l.at /\ Write(<<Open("msg")>>) /\ stk' = Retop(f) /\ call' = call /\ ret' = ret
    BY <1>2, <1>5 DEF Goto
  <2>3. h \in Frames /\ h.k = "msg" /\ h.desc = Top.desc /\ h.skipped = 0
    BY <1>3, FrameIs
  <2>e. e \in Int /\ l.v \in Int
    BY <1>3, <2>1
  <2> HIDE DEF h, e
  <2>4. /\ f \in Frames /\ f.k = "msg" /\ f.desc = Top.desc
        /\ f.end = e /\ f.left = l.v /\ f.skipped = 0
    BY <2>3, <2>e DEF Frames
  <2> HIDE DEF f
  <2>5. Fits(f) /\ Exact(f, l.at)
    <3>1. l.v = e - l.at + 0
      BY <1>3, <2>1 DEF e
    <3> QED  BY <1>1, <2>4, <3>1 DEF Fits, Exact
  <2>6. out' \in Seq(Token)
    BY <2>2, Marks, Writes
  <2> QED  BY <1>1, <2>1, <2>2, <2>4, <2>5, <2>6, GoesOn
<1> QED  BY <1>4, <1>5

LEMMA OpenPackedKeeps ==
    ASSUME IInv, OpenPacked
    PROVE  IInv' /\ rd' >= rd
<1> DEFINE l == ReadVarint(Buf, rd)
           h == Frame("packed", Top.desc)
           e == l.at + l.v
           f == [h EXCEPT !.start = l.at, !.end = e]
<1>1. Running /\ IsPacked(Top.desc)
  BY DEF OpenPacked, AtList, At
<1>2. /\ Write(<<Open("list")>>) /\ call' = call
      /\ IF l.at = Fail THEN Goto(rd) /\ Throw ELSE Goto(l.at) /\ stk' = Retop(f) /\ UNCHANGED ret
  BY DEF OpenPacked
<1>3. /\ l.v \in Nat /\ l.at \in After(Buf, rd) /\ Top.desc \in Descs
      /\ rd \in Nat /\ rd <= Len(Buf)
  BY <1>1, HereIs, Inner
<1> HIDE DEF l
<1>4. out' \in Seq(Token)
  BY <1>2, Marks, Writes
<1>5. CASE l.at = Fail
  <2>1. rd' = rd /\ Throw
    BY <1>2, <1>5 DEF Goto
  <2> QED  BY <1>1, <1>2, <1>3, <1>4, <2>1, FailsOn
<1>6. CASE l.at # Fail
  <2>1. l.at \in Nat /\ rd <= l.at /\ l.at <= Len(Buf)
    BY <1>3, <1>6, Reached
  <2>2. rd' = l.at /\ stk' = Retop(f) /\ ret' = ret
    BY <1>2, <1>6 DEF Goto
  <2>3. h \in Frames /\ h.k = "packed" /\ h.desc = Top.desc
    BY <1>3, FrameIs
  <2>e. e \in Int
    BY <1>3, <2>1
  <2> HIDE DEF h, e
  <2>4. f \in Frames /\ f.k = "packed" /\ f.desc = Top.desc
    BY <2>1, <2>3, <2>e DEF Frames
  <2> HIDE DEF f
  <2>5. Fits(f) /\ Exact(f, l.at)
    BY <1>1, <2>4 DEF Fits, Exact, IsPacked
  <2> QED  BY <1>1, <1>2, <1>4, <2>1, <2>2, <2>4, <2>5, GoesOn
<1> QED  BY <1>5, <1>6

LEMMA PackedElementKeeps ==
    ASSUME IInv, PackedElement
    PROVE  IInv' /\ rd' >= rd
<1> DEFINE r == ReadScalar(Top.desc.elem, rd)
           at == IF r.at = Fail THEN rd ELSE r.at
           a == IF r.at = Fail THEN <<>> ELSE Lit(Top.desc.elem, r.v)
           b == IF at # Top.start /\ at # Top.end THEN <<Comma>> ELSE <<>>
<1>1. Running /\ Top.k = "packed"
  BY DEF PackedElement, At
<1>2. rd' = at /\ Write(a \o b) /\ call' = call /\ stk' = stk /\ ret' = ret
  BY DEF PackedElement, Goto
<1>3. Top.desc.elem \in Scalars
  BY <1>1, Inner DEF Fits
<1>4. /\ r.at \in After(Buf, rd) /\ Lit(Top.desc.elem, r.v) \in Seq(Token)
      /\ rd \in Nat /\ rd <= Len(Buf)
  BY <1>1, <1>3, HereIs, Inner
<1> HIDE DEF r
<1>5. at \in Nat /\ rd <= at /\ at <= Len(Buf)
  BY <1>4, Reached
<1> HIDE DEF at
<1>6. a \in Seq(Token) /\ b \in Seq(Token)
  BY <1>4, Marks
<1> HIDE DEF a, b
<1>7. out' \in Seq(Token)
  <2>1. a \o b \in Seq(Token)
    BY <1>6, Joined
  <2> QED  BY <1>2, <2>1, Writes
<1>8. StackOK(stk, rd) /\ Top = stk[Len(stk)] /\ ret = "none"
  BY <1>1, Inner, StackShape DEF Top
<1>9. StackOK(stk', at)
  BY <1>1, <1>2, <1>8 DEF StackOK, Exact
<1> QED  BY <1>2, <1>5, <1>7, <1>8, <1>9, Carry

LEMMA OpenUnpackedKeeps ==
    ASSUME IInv, OpenUnpacked
    PROVE  IInv' /\ rd' >= rd
<1> DEFINE h == Frame("item", Top.desc)
           e == rd + Top.left
           f == [h EXCEPT !.end = e, !.wire = Top.wire]
<1>1. Running /\ Top.desc.typ = "list"
  BY DEF OpenUnpacked, AtList, At
<1>2. Write(<<Open("list")>>) /\ stk' = Retop(f) /\ call' = call /\ rd' = rd /\ ret' = ret
  BY DEF OpenUnpacked
<1>3. Top \in Frames /\ Top.desc \in Descs /\ rd \in Nat /\ rd <= Len(Buf)
  BY <1>1, Inner
<1>4. e \in Int /\ Top.wire \in 0 .. 3
  BY <1>3 DEF Frames
<1>5. h \in Frames /\ h.k = "item" /\ h.desc = Top.desc
  BY <1>3, FrameIs
<1> HIDE DEF h, e
<1>6. f \in Frames /\ f.k = "item" /\ f.desc = Top.desc
  BY <1>4, <1>5 DEF Frames
<1> HIDE DEF f
<1>7. Fits(f) /\ Exact(f, rd)
  BY <1>1, <1>6 DEF Fits, Exact
<1>8. out' \in Seq(Token)
  BY <1>2, Marks, Writes
<1> QED  BY <1>1, <1>2, <1>3, <1>6, <1>7, <1>8, GoesOn

\* The kinds inside a list or map.
LEMMA ElemIs ==
    ASSUME NEW desc \in Descs
    PROVE  Elem(desc) \in Descs
<1>1. desc.elem \in Scalars \cup {"msg", "list", "map"}
  BY DEF Descs
<1> QED  BY <1>1 DEF Elem, Descs

LEMMA ItemKeeps ==
    ASSUME IInv, Item
    PROVE  IInv' /\ rd' >= rd
<1> DEFINE l == ReadVarint(Buf, rd)
           f == [Top EXCEPT !.k = "next"]
           left == l.at + l.v - rd
<1>1. Running /\ Top.k = "item"
  BY DEF Item, At
<1>2. IF l.at = Fail THEN ThrowAt(rd)
      ELSE stk' = Push(f, ValueFrame(Elem(Top.desc), Top.wire, left)) /\ UNCHANGED <<call, rd, out, ret>>
  BY DEF Item
<1>3. /\ l.v \in Nat /\ l.at \in After(Buf, rd) /\ Top \in Frames /\ Fits(Top) /\ Top.desc \in Descs
      /\ rd \in Nat /\ rd <= Len(Buf)
  BY <1>1, HereIs, Inner
<1> HIDE DEF l
<1>4. CASE l.at = Fail
  BY <1>1, <1>2, <1>4, FailsHere
<1>5. CASE l.at # Fail
  <2>1. l.at \in Nat
    BY <1>3, <1>5, Reached
  <2>2. left \in Int
    BY <1>3, <2>1
  <2>3. f \in Frames /\ f.k = "next" /\ f.desc = Top.desc /\ Top.wire \in 0 .. 3
    BY <1>3 DEF Frames
  <2> HIDE DEF f, left
  <2>4. Fits(f) /\ Waits(f) /\ Exact(f, f.start)
    BY <1>1, <1>3, <2>3 DEF Fits, Waits, Exact
  <2>5. out' \in Seq(Token) /\ rd' = rd /\ call' = call /\ ret' = ret
    BY <1>2, <1>5 DEF IInv
  <2>6. Elem(Top.desc) \in Descs
    BY <1>3, ElemIs
  <2> QED  BY <1>1, <1>2, <1>3, <1>5, <2>2, <2>3, <2>4, <2>5, <2>6, CallsOn
<1> QED  BY <1>4, <1>5

LEMMA NextItemKeeps ==
    ASSUME IInv, NextItem
    PROVE  IInv' /\ rd' >= rd
<1> DEFINE tag == ConsumeTag(Buf, rd)
           f == [Top EXCEPT !.k = "item"]
<1>1. Running /\ Top.k = "next"
  BY DEF NextItem, MoreItems, At
<1>2. /\ tag.at # Fail /\ rd' = tag.at /\ Write(<<Comma>>) /\ stk' = Retop(f)
      /\ call' = call /\ ret' = ret
  BY DEF NextItem, Goto
<1>3. /\ tag.at \in After(Buf, rd) /\ Top \in Frames /\ Fits(Top) /\ rd \in Nat
  BY <1>1, HereIs, Inner
<1> HIDE DEF tag
<1>4. tag.at \in Nat /\ rd <= tag.at /\ tag.at <= Len(Buf)
  BY <1>2, <1>3, Reached
<1>5. f \in Frames /\ f.k = "item" /\ f.desc = Top.desc
  BY <1>3 DEF Frames
<1> HIDE DEF f
<1>6. Fits(f) /\ Exact(f, tag.at)
  BY <1>1, <1>3, <1>5 DEF Fits, Exact
<1>7. out' \in Seq(Token)
  BY <1>2, Marks, Writes
<1> QED  BY <1>1, <1>2, <1>4, <1>5, <1>6, <1>7, GoesOn

LEMMA BadEntryTagKeeps ==
    ASSUME IInv, BadItemTag \/ BadPairTag
    PROVE  IInv' /\ rd' >= rd
<1>1. Running /\ ThrowAt(rd)
  BY DEF BadItemTag, BadPairTag, MoreItems, MorePairs, At
<1> QED  BY <1>1, FailsHere

LEMMA OpenMapKeeps ==
    ASSUME IInv, OpenMap
    PROVE  IInv' /\ rd' >= rd
<1> DEFINE l == ReadVarint(Buf, rd)
           h == Frame("pair", Top.desc)
           e == rd + Top.left
           f == [h EXCEPT !.end = e]
<1>1. Running /\ Top.desc.typ = "map"
  BY DEF OpenMap, At
<1>2. IF l.at = Fail THEN ThrowAt(rd)
      ELSE Goto(l.at) /\ Write(<<Open("map")>>) /\ stk' = Retop(f) /\ UNCHANGED <<call, ret>>
  BY DEF OpenMap
<1>3. l.at \in After(Buf, rd) /\ Top \in Frames /\ Top.desc \in Descs /\ rd \in Nat
  BY <1>1, HereIs, Inner
<1> HIDE DEF l
<1>4. CASE l.at = Fail
  BY <1>1, <1>2, <1>4, FailsHere
<1>5. CASE l.at # Fail
  <2>1. l.at \in Nat /\ rd <= l.at /\ l.at <= Len(Buf)
    BY <1>3, <1>5, Reached
  <2>2. rd' = l.at /\ Write(<<Open("map")>>) /\ stk' = Retop(f) /\ call' = call /\ ret' = ret
    BY <1>2, <1>5 DEF Goto
  <2>3. h \in Frames /\ h.k = "pair" /\ h.desc = Top.desc /\ e \in Int
    <3>1. e \in Int
      BY <1>3 DEF Frames
    <3> QED  BY <1>3, <3>1, FrameIs
  <2> HIDE DEF h, e
  <2>4. f \in Frames /\ f.k = "pair" /\ f.desc = Top.desc
    BY <2>3 DEF Frames
  <2> HIDE DEF f
  <2>5. Fits(f) /\ Exact(f, l.at)
    BY <1>1, <2>4 DEF Fits, Exact
  <2>6. out' \in Seq(Token)
    BY <2>2, Marks, Writes
  <2> QED  BY <1>1, <2>1, <2>2, <2>4, <2>5, <2>6, GoesOn
<1> QED  BY <1>4, <1>5

LEMMA NextPairKeeps ==
    ASSUME IInv, NextPair
    PROVE  IInv' /\ rd' >= rd
<1> DEFINE tag == ConsumeTag(Buf, rd)
           l == ReadVarint(Buf, tag.at)
           f == [Top EXCEPT !.k = "pair"]
<1>1. Running /\ Top.k = "pairs"
  BY DEF NextPair, MorePairs, At
<1>2. /\ tag.at # Fail /\ Write(<<Comma>>) /\ call' = call
      /\ IF l.at = Fail THEN Goto(tag.at) /\ Throw
         ELSE Goto(l.at) /\ stk' = Retop(f) /\ UNCHANGED ret
  BY DEF NextPair
<1>3. /\ tag.at \in After(Buf, rd) /\ Top \in Frames /\ Fits(Top) /\ rd \in Nat /\ Buf \in Seq(Byte)
  BY <1>1, HereIs, Inner
<1> HIDE DEF tag
<1>4. tag.at \in Nat /\ rd <= tag.at /\ tag.at <= Len(Buf)
  BY <1>2, <1>3, Reached
<1>5. l.at \in After(Buf, tag.at)
  BY <1>3, <1>4, VarintIs
<1> HIDE DEF l
<1>6. f \in Frames /\ f.k = "pair" /\ f.desc = Top.desc
  BY <1>3 DEF Frames
<1> HIDE DEF f
<1>7. Fits(f) /\ \A to : Exact(f, to)
  BY <1>1, <1>3, <1>6 DEF Fits, Exact
<1>8. out' \in Seq(Token)
  BY <1>2, Marks, Writes
<1>9. CASE l.at = Fail
  <2>1. rd' = tag.at /\ Throw
    BY <1>2, <1>9 DEF Goto
  <2> QED  BY <1>1, <1>2, <1>4, <1>8, <2>1, FailsOn
<1>10. CASE l.at # Fail
  <2>1. l.at \in Nat /\ rd <= l.at /\ l.at <= Len(Buf)
    <3>1. l.at \in Nat /\ tag.at <= l.at /\ l.at <= Len(Buf)
      BY <1>4, <1>5, <1>10, Reached
    <3> QED  BY <1>3, <1>4, <3>1
  <2>2. rd' = l.at /\ stk' = Retop(f) /\ ret' = ret
    BY <1>2, <1>10 DEF Goto
  <2> QED  BY <1>1, <1>2, <1>6, <1>7, <1>8, <2>1, <2>2, GoesOn
<1> QED  BY <1>9, <1>10

LEMMA PairKeeps ==
    ASSUME IInv, Pair
    PROVE  IInv' /\ rd' >= rd
<1> DEFINE tag == ConsumeTag(Buf, rd)
           key == ReadScalar(Top.desc.key, tag.at)
           value == ConsumeTag(Buf, key.at)
           at == IF value.at # Fail    THEN value.at
                 ELSE IF key.at # Fail THEN key.at
                 ELSE IF tag.at # Fail THEN tag.at
                 ELSE TagFailed
           before == IF tag.at # Fail THEN Quoted(Top.desc) ELSE <<>>
           text == IF key.at # Fail THEN Lit(Top.desc.key, key.v) \o Quoted(Top.desc) \o <<Colon>>
                   ELSE <<>>
           f == [Top EXCEPT !.k = "pairs"]
<1>1. Running /\ Top.k = "pair"
  BY DEF Pair, At
<1>2. /\ rd' = at /\ call' = call /\ Write(before \o text)
      /\ IF value.at = Fail THEN Throw
         ELSE stk' = Push(f, ValueFrame(Elem(Top.desc), Bytes, 0)) /\ UNCHANGED ret
  BY DEF Pair, Goto
<1>3. /\ tag.at \in After(Buf, rd) /\ Top \in Frames /\ Fits(Top) /\ Top.desc \in Descs
      /\ rd \in Nat /\ rd <= Len(Buf) /\ Len(Buf) \in Nat /\ Buf \in Seq(Byte)
  BY <1>1, HereIs, Inner
<1>4. Top.desc.key \in Scalars
  BY <1>3 DEF Descs
<1>5. TagFailed \in Nat /\ rd <= TagFailed /\ TagFailed <= Len(Buf)
  BY <1>1, TagFailedIs
<1> HIDE DEF tag
<1>6. tag.at \in Nat \cup {Fail}
  BY <1>3 DEF After
<1>7. /\ key.at \in After(Buf, tag.at) /\ (tag.at = Fail => key.at = Fail)
      /\ Lit(Top.desc.key, key.v) \in Seq(Token)
  BY <1>3, <1>4, <1>6, ScalarIs
<1> HIDE DEF key
<1>8. key.at \in Nat \cup {Fail}
  BY <1>7 DEF After
<1>9. value.at \in After(Buf, key.at) /\ (key.at = Fail => value.at = Fail)
  BY <1>3, <1>8, TagIs
<1> HIDE DEF value
<1>10. at \in Nat /\ rd <= at /\ at <= Len(Buf)
  <2>1. tag.at # Fail => tag.at \in Nat /\ rd <= tag.at /\ tag.at <= Len(Buf)
    BY <1>3, Reached
  <2>2. key.at # Fail => tag.at # Fail /\ key.at \in Nat /\ tag.at <= key.at /\ key.at <= Len(Buf)
    BY <1>7, <2>1, Reached
  <2>3. value.at # Fail => key.at # Fail /\ value.at \in Nat /\ key.at <= value.at /\ value.at <= Len(Buf)
    BY <1>9, <2>2, Reached
  <2>4. CASE tag.at = Fail
    <3>1. value.at = Fail /\ key.at = Fail
      BY <1>7, <1>9, <2>4
    <3> QED  BY <1>5, <2>4, <3>1
  <2>5. CASE tag.at # Fail /\ key.at = Fail
    <3>1. value.at = Fail
      BY <1>9, <2>5
    <3> QED  BY <2>1, <2>5, <3>1
  <2>6. CASE key.at # Fail /\ value.at = Fail
    BY <1>3, <2>1, <2>2, <2>6
  <2>7. CASE value.at # Fail
    BY <1>3, <2>1, <2>2, <2>3, <2>7
  <2> QED  BY <2>4, <2>5, <2>6, <2>7
<1> HIDE DEF at
<1>11. out' \in Seq(Token)
  <2>1. Quoted(Top.desc) \in Seq(Token)
    BY QuotedIs
  <2>2. Lit(Top.desc.key, key.v) \o Quoted(Top.desc) \in Seq(Token)
    BY <1>7, <2>1, Joined
  <2>3. (Lit(Top.desc.key, key.v) \o Quoted(Top.desc)) \o <<Colon>> \in Seq(Token)
    BY <2>2, Marks, Joined
  <2>4. before \in Seq(Token) /\ text \in Seq(Token)
    BY <2>1, <2>3, Marks
  <2> HIDE DEF before, text
  <2>5. before \o text \in Seq(Token)
    BY <2>4, Joined
  <2> QED  BY <1>2, <2>5, Writes
<1>12. CASE value.at = Fail
  <2>1. Throw
    BY <1>2, <1>12
  <2> QED  BY <1>1, <1>2, <1>10, <1>11, <2>1, FailsOn
<1>13. CASE value.at # Fail
  <2>1. stk' = Push(f, ValueFrame(Elem(Top.desc), Bytes, 0)) /\ ret' = ret
    BY <1>2, <1>13
  <2>2. f \in Frames /\ f.k = "pairs" /\ f.desc = Top.desc
    BY <1>3 DEF Frames
  <2> HIDE DEF f
  <2>3. Fits(f) /\ Waits(f) /\ Exact(f, f.start)
    BY <1>1, <1>3, <2>2 DEF Fits, Waits, Exact
  <2>4. Elem(Top.desc) \in Descs /\ Bytes \in 0 .. 3 /\ 0 \in Int
    BY <1>3, ElemIs DEF Bytes
  <2> QED  BY <1>1, <1>2, <1>10, <1>11, <2>1, <2>2, <2>3, <2>4, CallsOn
<1> QED  BY <1>12, <1>13

-----------------------------------------------------------------------------
(***************************************************************************)
(* The theorems.                                                           *)
(***************************************************************************)
LEMMA Starts == Init => IInv
<1> SUFFICES ASSUME Init PROVE IInv
  OBVIOUS
<1>1. call \in Calls /\ rd = 0 /\ out = <<>> /\ stk = <<>> /\ ret = "none"
  BY DEF Init
<1>2. Buf \in Seq(Byte)
  BY <1>1, P2JAssumption DEF Buf
<1>3. rd \in 0 .. Len(Buf)
  BY <1>1, <1>2
<1>4. out \in Seq(Token) /\ StackOK(stk, rd)
  BY <1>1, Marks, EmptySeq DEF StackOK
<1> QED  BY <1>1, <1>3, <1>4 DEF IInv

LEMMA Keeps == IInv /\ [Next]_vars => IInv' /\ rd' >= rd
<1> SUFFICES ASSUME IInv, [Next]_vars PROVE IInv' /\ rd' >= rd
  OBVIOUS
<1>1. CASE UNCHANGED vars
  <2>1. call' = call /\ rd' = rd /\ out' = out /\ stk' = stk /\ ret' = ret
    BY <1>1 DEF vars
  <2>2. Buf \in Seq(Byte) /\ rd \in 0 .. Len(Buf)
    BY P2JAssumption DEF IInv, Buf
  <2> QED  BY <2>1, <2>2 DEF IInv, Buf
<1>2. CASE Next
  BY <1>2, DoKeeps, BadTagKeeps, UnknownFieldKeeps, FieldKeeps, CloseKeeps, ScalarKeeps,
     OpenMessageKeeps, OpenPackedKeeps, PackedElementKeeps, OpenUnpackedKeeps, ItemKeeps,
     NextItemKeeps, BadEntryTagKeeps, OpenMapKeeps, PairKeeps, NextPairKeeps DEF Next
<1> QED  BY <1>1, <1>2

\* doRecurse and what it calls (conv/p2j/impl.go): whatever bytes are converted, and whatever
\* errors were dropped, the reader is a position in them and every open call at a known place.
THEOREM InputTypes == Spec => []TypeOK
<1>1. Init => IInv
  BY Starts
<1>2. IInv /\ [Next]_vars => IInv'
  BY Keeps
<1>3. IInv => TypeOK
  BY Consequences
<1> QED  BY <1>1, <1>2, <1>3, PTL DEF Spec

\* unmarshalSingular (conv/p2j/impl.go): whatever bytes are converted, however its fields ended and
\* whichever errors were dropped below it, a nested message believes that so much is left of it as
\* is, and what it has skipped of unknown fields besides.
THEOREM BudgetExact == Spec => []BudgetIsExact
<1>1. Init => IInv
  BY Starts
<1>2. IInv /\ [Next]_vars => IInv'
  BY Keeps
<1>3. IInv => BudgetIsExact
  BY Consequences
<1> QED  BY <1>1, <1>2, <1>3, PTL DEF Spec

\* BinaryProtocol.Read in all of conv/p2j/impl.go: no step, not the one that drops the error of
\* a list item either, puts the reader back, so that no byte is converted twice.
THEOREM OnlyForward == Spec => [][rd' >= rd]_vars
<1>1. Init => IInv
  BY Starts
<1>2. IInv /\ [Next]_vars => IInv' /\ rd' >= rd
  BY Keeps
<1>3. IInv /\ [Next]_vars => [rd' >= rd]_vars
  BY <1>2
<1> QED  BY <1>1, <1>2, <1>3, PTL DEF Spec
=============================================================================
