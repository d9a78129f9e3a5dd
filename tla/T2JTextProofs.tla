--------------------------- MODULE T2JTextProofs ---------------------------
(***************************************************************************)
(* Proofs about T2J: whatever message is converted, what is written is the *)
(* beginning of a JSON text, and a whole one when the call returns it.     *)
(* The invariant says of each output which frames it was written for, and  *)
(* that what is open in the text is what these frames show (Texts); that   *)
(* calls are in order (IInv) is taken from T2JProofs.                      *)
(***************************************************************************)
EXTENDS T2JProofs

-----------------------------------------------------------------------------
(***************************************************************************)
(* Texts that grow.                                                        *)
(***************************************************************************)
LEMMA LeastOne ==
    ASSUME NEW S \in SUBSET Nat, S # {}
    PROVE  \E i \in S : \A j \in S : i <= j
<1> DEFINE R == {ss \in Nat \X Nat : ss[1] < ss[2]}
<1>1. IsWellFoundedOn(R, Nat)
  BY NatLessThanWellFounded DEF OpToRel
<1>2. PICK i \in S : \A j \in S : <<j, i>> \notin R
  <2> HIDE DEF R
  <2> QED  BY <1>1, WFMin
<1>3. \A j \in S : ~(j < i)
  BY <1>2
<1> QED  BY <1>2, <1>3

\* What each beginning of a text has open, up to the n-th.
Opens(f, n, text) == f = [i \in 0 .. n |-> IF i = 0 THEN <<"value">> ELSE Takes(f[i - 1], text[i])]

LEMMA OpensExists ==
    ASSUME NEW text, NEW n \in Nat
    PROVE  \E f : Opens(f, n, text)
<1> DEFINE S == {k \in Nat : ~\E f : Opens(f, k, text)}
<1> SUFFICES ASSUME S # {} PROVE FALSE
  OBVIOUS
<1>1. PICK k \in S : \A j \in S : k <= j
  <2>1. S \in SUBSET Nat
    OBVIOUS
  <2> HIDE DEF S
  <2> QED  BY <2>1, LeastOne
<1>2. CASE k = 0
  <2> DEFINE f == [i \in 0 .. 0 |-> <<"value">>]
  <2>1. \A i \in 0 .. 0 : i = 0
    OBVIOUS
  <2>2. f = [i \in 0 .. 0 |-> IF i = 0 THEN <<"value">> ELSE Takes(f[i - 1], text[i])]
    BY <2>1
  <2> HIDE DEF f
  <2>3. Opens(f, 0, text)
    BY <2>2 DEF Opens
  <2> QED  BY <1>1, <1>2, <2>3
<1>3. CASE k # 0
  <2>1. k \in Nat /\ k - 1 \in Nat /\ ~(k <= k - 1)
    BY <1>1, <1>3
  <2>2. k - 1 \notin S
    <3> HIDE DEF S
    <3> QED  BY <1>1, <2>1
  <2>3. PICK f : Opens(f, k - 1, text)
    BY <2>1, <2>2
  <2>4. \A i \in 0 .. k - 1 : f[i] = IF i = 0 THEN <<"value">> ELSE Takes(f[i - 1], text[i])
    <3>1. f = [i \in 0 .. k - 1 |-> IF i = 0 THEN <<"value">> ELSE Takes(f[i - 1], text[i])]
      BY <2>3 DEF Opens
    <3> QED  BY <3>1
  <2> DEFINE g == [i \in 0 .. k |-> IF i <= k - 1 THEN f[i] ELSE Takes(f[k - 1], text[k])]
  <2>5. ASSUME NEW i \in 0 .. k
        PROVE  g[i] = IF i = 0 THEN <<"value">> ELSE Takes(g[i - 1], text[i])
    <3>1. CASE i <= k - 1
      <4>1. i \in 0 .. k - 1 /\ g[i] = f[i]
        BY <2>1, <3>1
      <4>2. i # 0 => g[i - 1] = f[i - 1]
        BY <2>1, <3>1
      <4> HIDE DEF g
      <4> QED  BY <2>4, <4>1, <4>2
    <3>2. CASE ~(i <= k - 1)
      <4>1. i = k /\ i # 0 /\ i - 1 \in 0 .. k /\ i - 1 <= k - 1
        BY <2>1, <3>2
      <4>2. g[i] = Takes(f[k - 1], text[k]) /\ g[i - 1] = f[k - 1]
        BY <3>2, <4>1
      <4> HIDE DEF g
      <4> QED  BY <4>1, <4>2
    <3> QED  BY <3>1, <3>2
  <2>6. g = [i \in 0 .. k |-> g[i]]
    OBVIOUS
  <2> HIDE DEF g
  <2>7. g = [i \in 0 .. k |-> IF i = 0 THEN <<"value">> ELSE Takes(g[i - 1], text[i])]
    BY <2>5, <2>6
  <2>8. Opens(g, k, text)
    BY <2>7 DEF Opens
  <2> QED  BY <1>1, <2>8
<1> QED  BY <1>2, <1>3

LEMMA OpensIs ==
    ASSUME NEW f, NEW n \in Nat, NEW text, Opens(f, n, text)
    PROVE  f[0] = <<"value">> /\ \A i \in 1 .. n : f[i] = Takes(f[i - 1], text[i])
<1>1. f = [i \in 0 .. n |-> IF i = 0 THEN <<"value">> ELSE Takes(f[i - 1], text[i])]
  BY DEF Opens
<1>2. \A i \in 0 .. n : f[i] = IF i = 0 THEN <<"value">> ELSE Takes(f[i - 1], text[i])
  BY <1>1
<1>3. 0 \in 0 .. n /\ \A i \in 1 .. n : i \in 0 .. n /\ i # 0
  OBVIOUS
<1> QED  BY <1>2, <1>3

\* What is open after n tokens depends on these only.
LEMMA OpensSame ==
    ASSUME NEW n \in Nat, NEW m \in Nat, n <= m, NEW s, NEW t, \A i \in 1 .. n : t[i] = s[i],
           NEW f, Opens(f, n, s), NEW g, Opens(g, m, t)
    PROVE  g[n] = f[n]
<1> DEFINE S == {i \in Nat : i <= n /\ g[i] # f[i]}
<1>1. f[0] = <<"value">> /\ \A i \in 1 .. n : f[i] = Takes(f[i - 1], s[i])
  BY OpensIs
<1>2. g[0] = <<"value">> /\ \A i \in 1 .. m : g[i] = Takes(g[i - 1], t[i])
  BY OpensIs
<1> SUFFICES ASSUME S # {} PROVE FALSE
  OBVIOUS
<1>3. PICK i \in S : \A j \in S : i <= j
  <2>1. S \in SUBSET Nat
    OBVIOUS
  <2> HIDE DEF S
  <2> QED  BY <2>1, LeastOne
<1>4. i \in 1 .. n /\ g[i] # f[i]
  BY <1>1, <1>2, <1>3
<1>5. i - 1 \in Nat /\ i - 1 <= n /\ ~(i <= i - 1)
  BY <1>4
<1>6. g[i - 1] = f[i - 1]
  BY <1>3, <1>5
<1>7. i \in 1 .. m
  BY <1>4
<1> QED  BY <1>1, <1>2, <1>4, <1>6, <1>7

LEMMA OpenInIs ==
    ASSUME NEW text, Len(text) \in Nat
    PROVE  \E f : Opens(f, Len(text), text) /\ OpenIn(text) = f[Len(text)]
<1>1. \E f : Opens(f, Len(text), text)
  BY OpensExists
<1> DEFINE f == CHOOSE f : Opens(f, Len(text), text)
<1>2. OpenIn(text) = f[Len(text)]
  BY DEF OpenIn, Opens
<1>3. Opens(f, Len(text), text)
  BY <1>1
<1> QED  BY <1>2, <1>3

LEMMA OpenInNothing == OpenIn(<<>>) = <<"value">>
<1>1. Len(<<>>) = 0
  OBVIOUS
<1>2. PICK f : Opens(f, 0, <<>>) /\ OpenIn(<<>>) = f[0]
  BY <1>1, OpenInIs
<1> QED  BY <1>2, OpensIs

LEMMA OpenInMore ==
    ASSUME NEW s, IsSeq(s), NEW t
    PROVE  OpenIn(Append(s, t)) = Takes(OpenIn(s), t)
<1> DEFINE n == Len(s)
           u == Append(s, t)
<1>1. /\ n \in Nat /\ Len(u) = n + 1 /\ u[n + 1] = t /\ \A i \in 1 .. n : u[i] = s[i]
  BY SeqShape, Pushed
<1> HIDE DEF u, n
<1>2. PICK f : Opens(f, n, s) /\ OpenIn(s) = f[n]
  BY <1>1, OpenInIs DEF n
<1>3. PICK g : Opens(g, n + 1, u) /\ OpenIn(u) = g[n + 1]
  <2>1. n + 1 \in Nat
    BY <1>1
  <2> QED  BY <1>1, <2>1, OpenInIs
<1>4. g[n] = f[n]
  <2>1. n + 1 \in Nat /\ n <= n + 1
    BY <1>1
  <2> QED  BY <1>1, <1>2, <1>3, <2>1, OpensSame, SMTT(30)
<1>5. g[n + 1] = Takes(g[n], u[n + 1])
  <2>1. n + 1 \in Nat /\ n + 1 \in 1 .. n + 1 /\ (n + 1) - 1 = n
    BY <1>1
  <2> HIDE DEF Opens
  <2>2. \A i \in 1 .. n + 1 : g[i] = Takes(g[i - 1], u[i])
    BY <1>3, <2>1, OpensIs
  <2> QED  BY <2>1, <2>2
<1> QED  BY <1>1, <1>2, <1>3, <1>4, <1>5 DEF u

LEMMA Joined ==
    ASSUME NEW s, IsSeq(s), NEW t, IsSeq(t)
    PROVE  /\ IsSeq(s \o t) /\ s \o <<>> = s /\ <<>> \o s = s
           /\ \A x : s \o <<x>> = Append(s, x)
<1> DEFINE R == {s[i] : i \in DOMAIN s} \cup {t[i] : i \in DOMAIN t}
<1>1. s \in Seq(R) /\ t \in Seq(R)
  <2> DEFINE A == {s[i] : i \in DOMAIN s}
             B == {t[i] : i \in DOMAIN t}
  <2>1. s \in Seq(A) /\ t \in Seq(B)
    BY DEF IsSeq
  <2> HIDE DEF A, B
  <2>2. s \in Seq(A \cup B) /\ t \in Seq(A \cup B)
    BY <2>1
  <2> QED  BY <2>2 DEF A, B
<1> HIDE DEF R
<1>2. s \o t \in Seq(R)
  BY <1>1
<1>3. IsSeq(s \o t)
  BY <1>2, SeqIsSeq
<1>4. s \o <<>> = s /\ <<>> \o s = s
  BY <1>1, ConcatEmptySeq
<1>5. ASSUME NEW x PROVE s \o <<x>> = Append(s, x)
  <2>1. s \in Seq(R \cup {x}) /\ x \in R \cup {x}
    BY <1>1
  <2> QED  BY <2>1, AppendIsConcat
<1> QED  BY <1>3, <1>4, <1>5

LEMMA Regrouped ==
    ASSUME NEW s, IsSeq(s), NEW t, IsSeq(t), NEW u, IsSeq(u)
    PROVE  (s \o t) \o u = s \o (t \o u)
<1> DEFINE A == {s[i] : i \in DOMAIN s}
           B == {t[i] : i \in DOMAIN t}
           C == {u[i] : i \in DOMAIN u}
<1>1. s \in Seq(A) /\ t \in Seq(B) /\ u \in Seq(C)
  BY DEF IsSeq
<1> HIDE DEF A, B, C
<1> DEFINE R == A \cup B \cup C
<1>2. s \in Seq(R) /\ t \in Seq(R) /\ u \in Seq(R)
  BY <1>1
<1> HIDE DEF R
<1> QED  BY <1>2, ConcatAssociative

LEMMA EmptyIsSeq == IsSeq(<<>>)
<1>1. <<>> \in Seq({})
  OBVIOUS
<1> QED  BY <1>1, SeqIsSeq

LEMMA TokensAre ==
    ASSUME NEW a
    PROVE  /\ IsSeq(<<a>>)
           /\ \A b : IsSeq(<<a, b>>) /\ <<a, b>> = <<a>> \o <<b>>
<1>1. <<a>> \in Seq({a})
  OBVIOUS
<1>2. ASSUME NEW b PROVE IsSeq(<<a, b>>) /\ <<a, b>> = <<a>> \o <<b>>
  <2>1. <<a, b>> \in Seq({a, b})
    OBVIOUS
  <2>2. IsSeq(<<a, b>>)
    BY <2>1, SeqIsSeq
  <2>3. <<a, b>> = <<a>> \o <<b>>
    OBVIOUS
  <2> QED  BY <2>2, <2>3
<1> QED  BY <1>1, <1>2, SeqIsSeq

\* One token or two more.
LEMMA OneMore ==
    ASSUME NEW s, IsSeq(s), NEW a
    PROVE  IsSeq(s \o <<a>>) /\ OpenIn(s \o <<a>>) = Takes(OpenIn(s), a)
<1>1. IsSeq(<<a>>)
  BY TokensAre
<1>2. IsSeq(s \o <<a>>) /\ s \o <<a>> = Append(s, a)
  BY <1>1, Joined
<1> QED  BY <1>2, OpenInMore

LEMMA TwoMore ==
    ASSUME NEW s, IsSeq(s), NEW a, NEW b
    PROVE  s \o <<a, b>> = (s \o <<a>>) \o <<b>>
<1> DEFINE u == <<a>>
           v == <<b>>
<1>1. IsSeq(u) /\ IsSeq(v) /\ <<a, b>> = u \o v
  BY TokensAre
<1> HIDE DEF u, v
<1>2. (s \o u) \o v = s \o (u \o v)
  BY <1>1, Regrouped
<1> QED  BY <1>1, <1>2 DEF u, v

-----------------------------------------------------------------------------
(***************************************************************************)
(* What is open when a token has come.                                     *)
(***************************************************************************)
\* A value may come, and then open is w: it has to, or it is the first of a list, in which w has
\* the element already.
Ready(open, w) == \/ open = Append(w, "value")
                  \/ \E q : IsSeq(q) /\ w = Append(q, "array") /\ open = Append(q, "array0")

LEMMA FirstOfToken ==
    ASSUME NEW k
    PROVE  <<k>>[1] = k /\ \A n : <<k, n>>[1] = k
OBVIOUS

LEMMA TakesValue ==
    ASSUME NEW w, IsSeq(w), NEW open, Ready(open, w), NEW t
    PROVE  /\ t[1] \in {"lit", "quoted"} => Takes(open, t) = w
           /\ t[1] = "arr" => Takes(open, t) = Append(w, "array0")
           /\ t[1] = "obj" => Takes(open, t) = Append(w, "object0")
<1> DEFINE in == Last(open)
           out == Front(open)
           under == IF in = "value" THEN out ELSE Append(out, "array")
<1>1. open # <<>> /\ in \in {"value", "array0"} /\ under = w
  <2>1. CASE open = Append(w, "value")
    BY <2>1, Pushed
  <2>2. CASE \E q : IsSeq(q) /\ w = Append(q, "array") /\ open = Append(q, "array0")
    <3>1. PICK q : IsSeq(q) /\ w = Append(q, "array") /\ open = Append(q, "array0")
      BY <2>2
    <3>2. open # <<>> /\ in = "array0" /\ out = q
      BY <3>1, Pushed
    <3> QED  BY <3>1, <3>2
  <2> QED  BY <2>1, <2>2 DEF Ready
<1>2. Takes(open, t) =
        CASE in \in {"value", "array0"} /\ t[1] \in {"lit", "quoted"}           -> under
          [] in \in {"value", "array0"} /\ t[1] = "arr"                         -> Append(under, "array0")
          [] in \in {"value", "array0"} /\ t[1] = "obj"                         -> Append(under, "object0")
          [] in \in {"array0", "array"} /\ t[1] = "endarr"   -> out
          [] in \in {"object0", "object"} /\ t[1] = "endobj" -> out
          [] in = "array" /\ t[1] = "comma"                -> Append(open, "value")
          [] in = "object" /\ t[1] = "comma"               -> Append(out, "comma")
          [] in \in {"object0", "comma"} /\ t[1] = "key"     -> Append(out, "key")
          [] in = "key" /\ t[1] = "colon"                  -> Append(Append(out, "object"), "value")
          [] OTHER                                      -> Broken
  BY <1>1 DEF Takes
<1> HIDE DEF in, out, under
<1> QED  BY <1>1, <1>2

LEMMA TakesMark ==
    ASSUME NEW w, IsSeq(w), NEW in, NEW t
    PROVE  /\ in \in {"array0", "array"} /\ t[1] = "endarr" => Takes(Append(w, in), t) = w
           /\ in \in {"object0", "object"} /\ t[1] = "endobj" => Takes(Append(w, in), t) = w
           /\ in = "array" /\ t[1] = "comma" => Takes(Append(w, in), t) = Append(Append(w, in), "value")
           /\ in = "object" /\ t[1] = "comma" => Takes(Append(w, in), t) = Append(w, "comma")
           /\ in \in {"object0", "comma"} /\ t[1] = "key" => Takes(Append(w, in), t) = Append(w, "key")
           /\ in = "key" /\ t[1] = "colon" =>
                 Takes(Append(w, in), t) = Append(Append(w, "object"), "value")
<1> DEFINE open == Append(w, in)
           under == IF in = "value" THEN w ELSE Append(w, "array")
<1>1. open # <<>> /\ Last(open) = in /\ Front(open) = w
  BY Pushed
<1> HIDE DEF open
<1>2. Takes(open, t) =
        CASE in \in {"value", "array0"} /\ t[1] \in {"lit", "quoted"}           -> under
          [] in \in {"value", "array0"} /\ t[1] = "arr"                         -> Append(under, "array0")
          [] in \in {"value", "array0"} /\ t[1] = "obj"                         -> Append(under, "object0")
          [] in \in {"array0", "array"} /\ t[1] = "endarr"   -> w
          [] in \in {"object0", "object"} /\ t[1] = "endobj" -> w
          [] in = "array" /\ t[1] = "comma"                -> Append(open, "value")
          [] in = "object" /\ t[1] = "comma"               -> Append(w, "comma")
          [] in \in {"object0", "comma"} /\ t[1] = "key"     -> Append(w, "key")
          [] in = "key" /\ t[1] = "colon"                  -> Append(Append(w, "object"), "value")
          [] OTHER                                      -> Broken
  BY <1>1 DEF Takes
<1> HIDE DEF under
<1> QED  BY <1>2 DEF open

-----------------------------------------------------------------------------
(***************************************************************************)
(* What the operations write.                                              *)
(***************************************************************************)
LEMMA CommaIs ==
    ASSUME NEW b
    PROVE  IsSeq(CommaIf(b))
BY TokensAre, EmptyIsSeq DEF CommaIf

LEMMA ElementText ==
    ASSUME NEW t, IsSeq(t), NEW w, IsSeq(w), NEW comma,
           OpenIn(t) = Append(w, IF comma THEN "array" ELSE "array0")
    PROVE  IsSeq(t \o CommaIf(comma)) /\ Ready(OpenIn(t \o CommaIf(comma)), Append(w, "array"))
<1>1. CASE comma
  <2>1. CommaIf(comma) = <<<<"comma">>>>
    BY <1>1 DEF CommaIf
  <2>2. /\ IsSeq(t \o <<<<"comma">>>>)
        /\ OpenIn(t \o <<<<"comma">>>>) = Takes(OpenIn(t), <<"comma">>)
    BY OneMore
  <2>3. Takes(Append(w, "array"), <<"comma">>) = Append(Append(w, "array"), "value")
    BY FirstOfToken, TakesMark
  <2> QED  BY <1>1, <2>1, <2>2, <2>3 DEF Ready
<1>2. CASE ~comma
  <2>1. t \o CommaIf(comma) = t
    BY <1>2, Joined DEF CommaIf
  <2> QED  BY <1>2, <2>1 DEF Ready
<1> QED  BY <1>1, <1>2

LEMMA CommaText ==
    ASSUME NEW t, IsSeq(t), NEW w, IsSeq(w), NEW comma,
           OpenIn(t) = Append(w, IF comma THEN "object" ELSE "object0")
    PROVE  /\ IsSeq(t \o CommaIf(comma))
           /\ \E in \in {"object0", "comma"} : OpenIn(t \o CommaIf(comma)) = Append(w, in)
<1>1. CASE comma
  <2>1. CommaIf(comma) = <<<<"comma">>>>
    BY <1>1 DEF CommaIf
  <2>2. /\ IsSeq(t \o <<<<"comma">>>>)
        /\ OpenIn(t \o <<<<"comma">>>>) = Takes(OpenIn(t), <<"comma">>)
    BY OneMore
  <2>3. Takes(Append(w, "object"), <<"comma">>) = Append(w, "comma")
    BY FirstOfToken, TakesMark
  <2> QED  BY <1>1, <2>1, <2>2, <2>3
<1>2. CASE ~comma
  <2>1. t \o CommaIf(comma) = t
    BY <1>2, Joined DEF CommaIf
  <2> QED  BY <1>2, <2>1
<1> QED  BY <1>1, <1>2

\* The key of a member, behind the comma or with it.
LEMMA KeyText ==
    ASSUME NEW t, IsSeq(t), NEW w, IsSeq(w), NEW comma, NEW id,
           OpenIn(t) = Append(w, IF comma THEN "object" ELSE "object0")
    PROVE  /\ IsSeq(CommaIf(comma) \o Key(id))
           /\ (t \o CommaIf(comma)) \o Key(id) = t \o (CommaIf(comma) \o Key(id))
           /\ IsSeq(t \o (CommaIf(comma) \o Key(id)))
           /\ OpenIn(t \o (CommaIf(comma) \o Key(id))) = Append(Append(w, "object"), "value")
<1> DEFINE u == t \o CommaIf(comma)
<1>1. IsSeq(u) /\ \E in \in {"object0", "comma"} : OpenIn(u) = Append(w, in)
  BY CommaText
<1>2. IsSeq(Key(id)) /\ IsSeq(CommaIf(comma))
  BY TokensAre, CommaIs DEF Key
<1>3. u \o Key(id) = t \o (CommaIf(comma) \o Key(id))
  BY <1>2, Regrouped
<1>4. IsSeq(CommaIf(comma) \o Key(id))
  BY <1>2, Joined
<1> HIDE DEF u
<1>5. IsSeq(u \o Key(id)) /\ OpenIn(u \o Key(id)) = Takes(Takes(OpenIn(u), <<"key", id>>), <<"colon">>)
  <2> DEFINE v == u \o <<<<"key", id>>>>
  <2>1. u \o Key(id) = v \o <<<<"colon">>>>
    BY <1>1, TwoMore, SMTT(30) DEF Key
  <2>2. IsSeq(v) /\ OpenIn(v) = Takes(OpenIn(u), <<"key", id>>)
    BY <1>1, OneMore
  <2> HIDE DEF v
  <2>3. IsSeq(v \o <<<<"colon">>>>) /\ OpenIn(v \o <<<<"colon">>>>) = Takes(OpenIn(v), <<"colon">>)
    BY <2>2, OneMore
  <2> QED  BY <2>1, <2>2, <2>3
<1>6. Takes(OpenIn(u), <<"key", id>>) = Append(w, "key")
  BY <1>1, FirstOfToken, TakesMark
<1>7. Takes(Append(w, "key"), <<"colon">>) = Append(Append(w, "object"), "value")
  BY FirstOfToken, TakesMark
<1> QED  BY <1>3, <1>4, <1>5, <1>6, <1>7 DEF u

LEMMA ValueText ==
    ASSUME NEW t, IsSeq(t), NEW w, IsSeq(w), Ready(OpenIn(t), w), NEW n
    PROVE  /\ IsSeq(t \o Lit(n)) /\ OpenIn(t \o Lit(n)) = w
           /\ IsSeq(t \o <<<<"quoted", n>>>>) /\ OpenIn(t \o <<<<"quoted", n>>>>) = w
           /\ IsSeq(t \o <<<<"arr">>>>) /\ OpenIn(t \o <<<<"arr">>>>) = Append(w, "array0")
           /\ IsSeq(t \o <<<<"obj">>>>) /\ OpenIn(t \o <<<<"obj">>>>) = Append(w, "object0")
<1>1. IsSeq(t \o Lit(n)) /\ OpenIn(t \o Lit(n)) = Takes(OpenIn(t), <<"lit", n>>)
  BY OneMore DEF Lit
<1>2. IsSeq(t \o <<<<"quoted", n>>>>) /\ OpenIn(t \o <<<<"quoted", n>>>>) = Takes(OpenIn(t), <<"quoted", n>>)
  BY OneMore
<1>3. IsSeq(t \o <<<<"arr">>>>) /\ OpenIn(t \o <<<<"arr">>>>) = Takes(OpenIn(t), <<"arr">>)
  BY OneMore
<1>4. IsSeq(t \o <<<<"obj">>>>) /\ OpenIn(t \o <<<<"obj">>>>) = Takes(OpenIn(t), <<"obj">>)
  BY OneMore
<1>5. /\ <<"lit", n>>[1] = "lit" /\ <<"quoted", n>>[1] = "quoted" /\ <<"arr">>[1] = "arr"
      /\ <<"obj">>[1] = "obj"
  BY FirstOfToken
<1>6. /\ Takes(OpenIn(t), <<"lit", n>>) = w /\ Takes(OpenIn(t), <<"quoted", n>>) = w
  BY <1>5, TakesValue
<1>7. Takes(OpenIn(t), <<"arr">>) = Append(w, "array0")
  BY <1>5, TakesValue
<1>8. Takes(OpenIn(t), <<"obj">>) = Append(w, "object0")
  BY <1>5, TakesValue
<1> QED  BY <1>1, <1>2, <1>3, <1>4, <1>6, <1>7, <1>8

LEMMA EndText ==
    ASSUME NEW t, IsSeq(t), NEW w, IsSeq(w), NEW in, OpenIn(t) = Append(w, in)
    PROVE  /\ IsSeq(t \o <<<<"endarr">>>>)
           /\ in \in {"array", "array0"} => OpenIn(t \o <<<<"endarr">>>>) = w
           /\ IsSeq(t \o <<<<"endobj">>>>)
           /\ in \in {"object", "object0"} => OpenIn(t \o <<<<"endobj">>>>) = w
<1>1. IsSeq(t \o <<<<"endarr">>>>) /\ OpenIn(t \o <<<<"endarr">>>>) = Takes(OpenIn(t), <<"endarr">>)
  BY OneMore
<1>2. IsSeq(t \o <<<<"endobj">>>>) /\ OpenIn(t \o <<<<"endobj">>>>) = Takes(OpenIn(t), <<"endobj">>)
  BY OneMore
<1> QED  BY <1>1, <1>2, FirstOfToken, TakesMark

LEMMA EmptyText ==
    ASSUME NEW t, IsSeq(t), NEW w, IsSeq(w), OpenIn(t) = Append(w, "value"), NEW field
    PROVE  /\ IsSeq(EmptyJSON(field))
           /\ IsSeq(t \o EmptyJSON(field)) /\ OpenIn(t \o EmptyJSON(field)) = w
<1>1. Ready(OpenIn(t), w)
  BY DEF Ready
<1>2. CASE Kind(field.typ) \in Scalars
  <2>1. EmptyJSON(field) = Lit(Default(field))
    BY <1>2 DEF EmptyJSON, Scalars
  <2> DEFINE n == Default(field)
  <2> HIDE DEF n
  <2>2. IsSeq(t \o Lit(n)) /\ OpenIn(t \o Lit(n)) = w
    BY <1>1, ValueText
  <2>3. IsSeq(Lit(n))
    BY TokensAre DEF Lit
  <2> QED  BY <2>1, <2>2, <2>3 DEF n
<1>3. CASE Kind(field.typ) = "list"
  <2>1. EmptyJSON(field) = <<<<"arr">>, <<"endarr">>>>
    BY <1>3 DEF EmptyJSON, Scalars
  <2>2. /\ IsSeq(t \o <<<<"arr">>, <<"endarr">>>>)
        /\ OpenIn(t \o <<<<"arr">>, <<"endarr">>>>) = Takes(Takes(OpenIn(t), <<"arr">>), <<"endarr">>)
    <3> DEFINE v == t \o <<<<"arr">>>>
    <3>1. t \o <<<<"arr">>, <<"endarr">>>> = v \o <<<<"endarr">>>>
      BY TwoMore
    <3>2. IsSeq(v) /\ OpenIn(v) = Takes(OpenIn(t), <<"arr">>)
      BY OneMore
    <3> HIDE DEF v
    <3>3. IsSeq(v \o <<<<"endarr">>>>) /\ OpenIn(v \o <<<<"endarr">>>>) = Takes(OpenIn(v), <<"endarr">>)
      BY <3>2, OneMore
    <3> QED  BY <3>1, <3>2, <3>3
  <2>3. Takes(OpenIn(t), <<"arr">>) = Append(w, "array0")
    BY <1>1, FirstOfToken, TakesValue
  <2>4. Takes(Append(w, "array0"), <<"endarr">>) = w
    BY FirstOfToken, TakesMark
  <2> QED  BY <2>1, <2>2, <2>3, <2>4, TokensAre
<1>4. CASE Kind(field.typ) \notin Scalars \cup {"list"}
  <2>1. EmptyJSON(field) = <<<<"obj">>, <<"endobj">>>>
    BY <1>4 DEF EmptyJSON, Scalars
  <2>2. /\ IsSeq(t \o <<<<"obj">>, <<"endobj">>>>)
        /\ OpenIn(t \o <<<<"obj">>, <<"endobj">>>>) = Takes(Takes(OpenIn(t), <<"obj">>), <<"endobj">>)
    <3> DEFINE v == t \o <<<<"obj">>>>
    <3>1. t \o <<<<"obj">>, <<"endobj">>>> = v \o <<<<"endobj">>>>
      BY TwoMore
    <3>2. IsSeq(v) /\ OpenIn(v) = Takes(OpenIn(t), <<"obj">>)
      BY OneMore
    <3> HIDE DEF v
    <3>3. IsSeq(v \o <<<<"endobj">>>>) /\ OpenIn(v \o <<<<"endobj">>>>) = Takes(OpenIn(v), <<"endobj">>)
      BY <3>2, OneMore
    <3> QED  BY <3>1, <3>2, <3>3
  <2>3. Takes(OpenIn(t), <<"obj">>) = Append(w, "object0")
    BY <1>1, FirstOfToken, TakesValue
  <2>4. Takes(Append(w, "object0"), <<"endobj">>) = w
    BY FirstOfToken, TakesMark
  <2> QED  BY <2>1, <2>2, <2>3, <2>4, TokensAre
<1> QED  BY <1>2, <1>3, <1>4

LEMMA MissingText ==
    ASSUME NEW t, IsSeq(t), NEW w, IsSeq(w), NEW comma, NEW id, NEW field,
           OpenIn(t) = Append(w, IF comma THEN "object" ELSE "object0")
    PROVE  /\ IsSeq(t \o (CommaIf(comma) \o Key(id) \o EmptyJSON(field)))
           /\ OpenIn(t \o (CommaIf(comma) \o Key(id) \o EmptyJSON(field))) = Append(w, "object")
<1> DEFINE k == CommaIf(comma) \o Key(id)
           u == t \o k
           v == Append(w, "object")
<1>1. IsSeq(k) /\ IsSeq(u) /\ OpenIn(u) = Append(v, "value") /\ IsSeq(v)
  BY KeyText, Pushed
<1> DEFINE e == EmptyJSON(field)
<1>2. u \o e = t \o (k \o e)
  <2>1. IsSeq(e)
    <3> HIDE DEF u, v
    <3> QED  BY <1>1, EmptyText
  <2>2. IsSeq(k)
    BY <1>1
  <2> HIDE DEF k, e
  <2> QED  BY <2>1, <2>2, Regrouped, SMTT(30)
<1> HIDE DEF u, v
<1>3. IsSeq(u \o e) /\ OpenIn(u \o e) = v
  BY <1>1, EmptyText
<1> QED  BY <1>2, <1>3 DEF v

LEMMA LitIsJSON == ASSUME NEW n PROVE IsJSON(Lit(n))
<1>1. IsSeq(<<>>) /\ <<>> \o Lit(n) = Lit(n)
  <2>1. IsSeq(Lit(n))
    BY TokensAre DEF Lit
  <2> QED  BY <2>1, EmptyIsSeq, Joined
<1>2. OpenIn(<<>>) = Append(<<>>, "value")
  BY OpenInNothing
<1> DEFINE t == <<>>
<1>a. Ready(OpenIn(t), t)
  BY <1>2 DEF Ready
<1>b. IsSeq(t)
  BY <1>1
<1> HIDE DEF t
<1>3. OpenIn(t \o Lit(n)) = t
  BY <1>a, <1>b, ValueText
<1> QED  BY <1>1, <1>3 DEF IsJSON, t

-----------------------------------------------------------------------------
(***************************************************************************)
(* The frames show what is open in the texts: those above a mapped value   *)
(* that is being written in the text of its own, the others in the text of *)
(* the call.  A frame that has raised an exception has emptied its text.   *)
(***************************************************************************)
Sym(f) == IF f.k = "value" THEN "value"
          ELSE IF f.k = "elems" /\ Kind(f.typ) = "list"
               THEN IF f.comma THEN "array" ELSE "array0"
               ELSE IF f.comma THEN "object" ELSE "object0"

\* Of the frames from, but without, the l-th up to the n-th.
Symbols(s, l, n) == [i \in 1 .. n - l |-> Sym(s[l + i])]

\* What is open in the text of the frame f, with w for the frames below.
Shows(open, w, f) == IF f.k = "value" THEN Ready(open, w)
                     ELSE IF f.k = "http" THEN open = w
                     ELSE open = Append(w, Sym(f))

Reads(open, s, l, n) == IF n = l THEN open = <<>> ELSE Shows(open, Symbols(s, l, n - 1), s[n])

Within(s, l, n) == \A i \in l + 1 .. n : ~s[i].busy

\* The text of a call that mixes missing fields with an exception may be anything.
Free(call, j) == j = 1 /\ Mixed(call)

\* The first frame of the first text.
Start(s) == IF s # <<>> /\ s[1].exc THEN 1 ELSE 0

\* seg has the place of the frame that each text was begun for.
Places(c, seg) ==
    /\ IsSeq(seg) /\ Len(seg) = Len(c.outs)
    /\ \A j \in 1 .. Len(seg) : seg[j] \in 0 .. Len(c.stk)
    /\ seg[1] = Start(c.stk)
    /\ \A j \in 2 .. Len(seg) : c.stk[seg[j]].busy
    /\ \A i, j \in 1 .. Len(seg) : i < j => seg[i] < seg[j]

Part(c, j, l, m, n) == /\ Within(c.stk, l, m)
                       /\ Free(c.call, j) \/ Reads(OpenIn(c.outs[j]), c.stk, l, n)

Shown(c, seg) ==
    /\ Places(c, seg)
    /\ \A j \in 1 .. Len(seg) - 1 : Part(c, j, seg[j], seg[j + 1] - 1, seg[j + 1])
    /\ Part(c, Len(seg), seg[Len(seg)], Len(c.stk), Len(c.stk))

\* A frame in its place: the root alone raises an exception.
Fits(f, i, call) ==
    /\ f.root \/ f.exc => i = 1
    /\ f.exc => f.k = "unsets" /\ call.opts.exc
    /\ f.k = "value" => ~f.comma
    /\ f.k \in StructKinds => Kind(f.typ) = "struct" /\ f.s = Types[f.typ].s
    /\ i = 1 => f.typ = call.typ
    /\ f.val # <<>> => IsJSON(f.val)

\* What is below another frame; and below a mapping, for one that is missing or not.
Covers(f) == f.k # "value" /\ (f.k = "http" => f.busy)
Over(f, g, call) == g.k = "http" => /\ ~g.unset => f.k = "fields"
                                    /\ f.exc => Mixed(call)
Shape(c)  == /\ \A i \in 1 .. Len(c.stk) : Fits(c.stk[i], i, c.call)
             /\ \A i \in 1 .. Len(c.stk) - 1 : Covers(c.stk[i])
             /\ \A i \in 2 .. Len(c.stk) : Over(c.stk[i - 1], c.stk[i], c.call)

Given(c)  == IsSeq(c.sets) /\ \A i \in 1 .. Len(c.sets) : IsJSON(c.sets[i][3])
Seqs(c)   == \A j \in 1 .. Len(c.outs) : IsSeq(c.outs[j])
Texts(c)  == Shape(c) /\ Given(c) /\ Seqs(c) /\ \E seg : Shown(c, seg)

\* What a call says of itself when it is over.
Says(c) == /\ \A i \in DOMAIN c.sets : IsJSON(c.sets[i][3])
           /\ \A i \in DOMAIN c.outs : IsBeginning(c.outs[i]) \/ (i = 1 /\ Mixed(c.call))
           /\ c.ret \in {"ok", "exception"} => IsJSON(c.outs[1]) \/ Mixed(c.call)

-----------------------------------------------------------------------------
(***************************************************************************)
(* What the frames show.                                                   *)
(***************************************************************************)
LEMMA SymIs == \A f : Sym(f) \in {"value", "array", "array0", "object", "object0"}
BY DEF Sym

LEMMA SymbolsIs ==
    ASSUME NEW s, NEW l \in Nat, NEW n \in Nat, l <= n
    PROVE  /\ IsSeq(Symbols(s, l, n)) /\ Len(Symbols(s, l, n)) = n - l
           /\ \A i \in 1 .. n - l : Symbols(s, l, n)[i] = Sym(s[l + i])
<1> DEFINE S == {"value", "array", "array0", "object", "object0"}
           w == Symbols(s, l, n)
<1>1. n - l \in Nat
  OBVIOUS
<1>2. \A i \in 1 .. n - l : Sym(s[l + i]) \in S
  BY SymIs
<1>3. w = [i \in 1 .. n - l |-> Sym(s[l + i])]
  BY DEF Symbols
<1> HIDE DEF S, w
<1>4. w \in Seq(S) /\ Len(w) = n - l
  BY <1>1, <1>2, <1>3
<1>5. IsSeq(w)
  BY <1>4, SeqIsSeq
<1> QED  BY <1>3, <1>4, <1>5 DEF w

LEMMA SymbolsNext ==
    ASSUME NEW s, NEW l \in Nat, NEW n \in Nat, l < n
    PROVE  Symbols(s, l, n) = Append(Symbols(s, l, n - 1), Sym(s[n]))
<1> DEFINE S == {"value", "array", "array0", "object", "object0"}
           w == Symbols(s, l, n)
           v == Symbols(s, l, n - 1)
           x == Sym(s[n])
<1>1. n - 1 \in Nat /\ l <= n - 1 /\ l <= n /\ n - l \in Nat \ {0} /\ (n - 1) - l = (n - l) - 1 /\ l + (n - l) = n
  OBVIOUS
<1>2. /\ w = [i \in 1 .. n - l |-> Sym(s[l + i])]
      /\ v = [i \in 1 .. (n - l) - 1 |-> Sym(s[l + i])]
  BY <1>1 DEF Symbols
<1>3. \A i \in 1 .. n - l : Sym(s[l + i]) \in S
  BY SymIs
<1>4. x \in S
  BY SymIs
<1> DEFINE m == n - l
<1>5. m \in Nat \ {0} /\ Sym(s[l + m]) = x
  BY <1>1
<1> HIDE DEF S, w, v, x, m
<1>6. v \in Seq(S) /\ Len(v) = m - 1 /\ \A i \in 1 .. m - 1 : v[i] = Sym(s[l + i])
  BY <1>2, <1>3, <1>5 DEF m
<1>7. /\ Append(v, x) \in Seq(S) /\ Len(Append(v, x)) = m
      /\ \A i \in 1 .. m - 1 : Append(v, x)[i] = v[i]
      /\ Append(v, x)[m] = x
  <2>1. Len(v) + 1 = m
    BY <1>5, <1>6
  <2> QED  BY <1>4, <1>6, <2>1, AppendProperties
<1>8. Append(v, x) = [i \in 1 .. m |-> Append(v, x)[i]]
  <2> DEFINE u == Append(v, x)
  <2> HIDE DEF u
  <2>1. u \in Seq(S) /\ Len(u) = m
    BY <1>7 DEF u
  <2>2. u = [i \in 1 .. m |-> u[i]]
    BY <2>1
  <2> QED  BY <2>2 DEF u
<1>9. \A i \in 1 .. m : Append(v, x)[i] = Sym(s[l + i])
  <2> SUFFICES ASSUME NEW i \in 1 .. m PROVE Append(v, x)[i] = Sym(s[l + i])
    OBVIOUS
  <2>1. CASE i = m
    BY <1>5, <1>7, <2>1
  <2>2. CASE i # m
    <3>1. i \in 1 .. m - 1
      BY <1>5, <2>2
    <3> QED  BY <1>6, <1>7, <3>1
  <2> QED  BY <2>1, <2>2
<1>10. w = [i \in 1 .. m |-> Sym(s[l + i])]
  BY <1>2 DEF m
<1>11. w = Append(v, x)
  BY <1>8, <1>9, <1>10
<1> QED  BY <1>11 DEF w, v, x

LEMMA SymbolsNone == ASSUME NEW s, NEW l \in Nat PROVE Symbols(s, l, l) = <<>>
<1> DEFINE w == Symbols(s, l, l)
<1>1. IsSeq(w) /\ Len(w) = l - l
  <2>1. l <= l
    OBVIOUS
  <2> HIDE DEF w
  <2> QED  BY <2>1, SymbolsIs DEF w
<1> HIDE DEF w
<1>2. w = <<>>
  BY <1>1, SeqShape
<1> QED  BY <1>2 DEF w

LEMMA SymbolsSame ==
    ASSUME NEW s, NEW t, NEW l \in Nat, NEW n \in Nat, \A i \in l + 1 .. n : Sym(t[i]) = Sym(s[i])
    PROVE  Symbols(t, l, n) = Symbols(s, l, n)
<1>1. \A i \in 1 .. n - l : l + i \in l + 1 .. n
  OBVIOUS
<1>2. \A i \in 1 .. n - l : Sym(t[l + i]) = Sym(s[l + i])
  BY <1>1
<1> QED  BY <1>2 DEF Symbols

LEMMA ReadsSame ==
    ASSUME NEW s, NEW t, NEW l \in Nat, NEW n \in Nat, l <= n,
           \A i \in 1 .. n - 1 : t[i] = s[i],
           n # l => t[n].k = s[n].k /\ Sym(t[n]) = Sym(s[n]),
           NEW open, Reads(open, s, l, n)
    PROVE  Reads(open, t, l, n)
<1>1. CASE n = l
  BY <1>1 DEF Reads
<1>2. CASE n # l
  <2>1. n - 1 \in Nat /\ \A i \in l + 1 .. n - 1 : Sym(t[i]) = Sym(s[i])
    BY <1>2
  <2>2. Symbols(t, l, n - 1) = Symbols(s, l, n - 1)
    BY <2>1, SymbolsSame
  <2> QED  BY <1>2, <2>2 DEF Reads, Shows
<1> QED  BY <1>1, <1>2

\* It is the beginning of a text at least.
LEMMA ReadsBeginning ==
    ASSUME NEW s, NEW l \in Nat, NEW n \in Nat, l <= n, NEW open, Reads(open, s, l, n)
    PROVE  open # Broken
<1>1. Broken = Append(<<>>, "broken") /\ Broken # <<>> /\ Last(Broken) = "broken"
  <2>1. Broken = Append(<<>>, "broken")
    BY DEF Broken
  <2> QED  BY <2>1, EmptyIsSeq, Pushed
<1>2. CASE n = l
  BY <1>1, <1>2 DEF Reads
<1>3. CASE n # l
  <2> DEFINE w == Symbols(s, l, n - 1)
  <2>1. n - 1 \in Nat /\ l <= n - 1
    BY <1>3
  <2>2. IsSeq(w)
    BY <2>1, SymbolsIs
  <2>3. w # Broken
    <3>1. CASE n - 1 = l
      BY <1>1, <3>1, SymbolsNone
    <3>2. CASE n - 1 # l
      <4>1. w = Append(Symbols(s, l, n - 1 - 1), Sym(s[n - 1]))
        BY <2>1, <3>2, SymbolsNext
      <4>2. IsSeq(Symbols(s, l, n - 1 - 1))
        <5>1. n - 1 - 1 \in Nat /\ l <= n - 1 - 1
          BY <2>1, <3>2
        <5> QED  BY <5>1, SymbolsIs
      <4>3. Last(w) = Sym(s[n - 1])
        BY <4>1, <4>2, Pushed, ZenonT(60)
      <4> QED  BY <1>1, <4>3, SymIs
    <3> QED  BY <3>1, <3>2
  <2>4. Shows(open, w, s[n])
    BY <1>3 DEF Reads
  <2> HIDE DEF w
  <2>5. CASE s[n].k = "value"
    <3>1. Ready(open, w)
      BY <2>4, <2>5 DEF Shows
    <3>2. Last(open) \in {"value", "array0"}
      <4>1. CASE open = Append(w, "value")
        BY <2>2, <4>1, Pushed
      <4>2. CASE \E q : IsSeq(q) /\ w = Append(q, "array") /\ open = Append(q, "array0")
        BY <4>2, Pushed
      <4> QED  BY <3>1, <4>1, <4>2 DEF Ready
    <3> QED  BY <1>1, <3>2
  <2>6. CASE s[n].k = "http"
    BY <2>3, <2>4, <2>6 DEF Shows
  <2>7. CASE s[n].k \notin {"value", "http"}
    <3>1. open = Append(w, Sym(s[n]))
      BY <2>4, <2>7 DEF Shows
    <3>2. Last(open) = Sym(s[n])
      BY <2>2, <3>1, Pushed
    <3> QED  BY <1>1, <3>2, SymIs
  <2> QED  BY <2>5, <2>6, <2>7
<1> QED  BY <1>2, <1>3

-----------------------------------------------------------------------------
(***************************************************************************)
(* Changes of the last frame and of the last text.                         *)
(***************************************************************************)
LEMMA ShownShape ==
    ASSUME NEW c, Running(c), NEW seg, Shown(c, seg)
    PROVE  /\ Len(seg) \in Nat \ {0} /\ Len(c.outs) = Len(seg)
           /\ \A j \in 1 .. Len(seg) : seg[j] \in Nat /\ seg[j] <= Len(c.stk) /\ seg[j] <= seg[Len(seg)]
<1>1. IsSeq(c.outs) /\ c.outs # <<>> /\ Len(c.stk) \in Nat
  BY RunningShape
<1>2. Len(c.outs) \in Nat \ {0}
  BY <1>1, SeqShape
<1>3. Len(seg) = Len(c.outs) /\ \A j \in 1 .. Len(seg) : seg[j] \in 0 .. Len(c.stk)
  BY DEF Shown, Places
<1>4. ASSUME NEW j \in 1 .. Len(seg) PROVE seg[j] <= seg[Len(seg)]
  <2>1. Len(seg) \in 1 .. Len(seg) /\ seg[j] \in Nat /\ seg[Len(seg)] \in Nat
    BY <1>1, <1>2, <1>3
  <2>2. CASE j = Len(seg)
    BY <2>1, <2>2
  <2>3. CASE j # Len(seg)
    <3>1. j < Len(seg)
      BY <2>1, <2>3
    <3>2. seg[j] < seg[Len(seg)]
      BY <2>1, <3>1 DEF Shown, Places
    <3> QED  BY <2>1, <3>2
  <2> QED  BY <2>2, <2>3
<1> QED  BY <1>1, <1>2, <1>3, <1>4

\* The frame on top belongs to the last text, unless that was begun for it.
LEMMA LastPlace ==
    ASSUME NEW c, Running(c), NEW seg, Shown(c, seg), c.stk # <<>>
    PROVE  /\ Top(c).busy => seg[Len(seg)] = Len(c.stk) /\ Len(seg) > 1
           /\ ~Top(c).busy /\ ~Top(c).exc => seg[Len(seg)] < Len(c.stk)
<1> DEFINE n == Len(c.stk)
           m == Len(seg)
<1>1. n \in Nat \ {0} /\ Top(c) = c.stk[n] /\ FrameOK(c.stk[n]) /\ c.stk[1].k # "http"
  <2>1. n \in Nat /\ n > 0 /\ Top(c) = c.stk[n] /\ FrameOK(Top(c)) /\ StackOK(c.stk)
    BY RunningShape DEF Running
  <2> QED  BY <2>1 DEF StackOK
<1>2. m \in Nat \ {0} /\ seg[m] \in Nat /\ seg[m] <= n
  <2>1. m \in Nat \ {0} /\ \A j \in 1 .. m : seg[j] \in Nat /\ seg[j] <= n
    BY ShownShape
  <2>2. m \in 1 .. m
    BY <2>1
  <2> QED  BY <2>1, <2>2
<1>3. Within(c.stk, seg[m], n) /\ seg[1] = Start(c.stk) /\ \A j \in 2 .. m : c.stk[seg[j]].busy
  BY DEF Shown, Places, Part
<1> HIDE DEF n, m
<1>4. ASSUME Top(c).busy PROVE seg[m] = n /\ m > 1
  <2>1. seg[m] = n
    <3>1. SUFFICES ASSUME seg[m] # n PROVE FALSE
      OBVIOUS
    <3>2. n \in seg[m] + 1 .. n
      BY <1>1, <1>2, <3>1
    <3> QED  BY <1>1, <1>3, <1>4, <3>2 DEF Within
  <2>2. n # 1
    BY <1>1, <1>4 DEF FrameOK
  <2>3. m # 1
    BY <1>1, <1>3, <2>1, <2>2 DEF Start
  <2> QED  BY <1>2, <2>1, <2>3
<1>5. ASSUME ~Top(c).busy, ~Top(c).exc PROVE seg[m] < n
  <2>1. SUFFICES ASSUME seg[m] = n PROVE FALSE
    BY <1>1, <1>2
  <2>2. CASE m = 1
    <3>1. n = 1 /\ c.stk[1].exc
      BY <1>1, <1>3, <2>1, <2>2 DEF Start
    <3> QED  BY <1>1, <1>5, <3>1
  <2>3. CASE m # 1
    <3>1. m \in 2 .. m
      BY <1>2, <2>3
    <3> QED  BY <1>1, <1>3, <1>5, <2>1, <3>1
  <2> QED  BY <2>2, <2>3
<1> QED  BY <1>4, <1>5 DEF n, m

\* Other frames on top and other output in the last text, which they show.
LEMMA TopChange ==
    ASSUME NEW c, Running(c), NEW seg, Shown(c, seg), c.stk # <<>>,
           NEW d, d.call = c.call, Len(d.outs) = Len(c.outs),
           \A j \in 1 .. Len(c.outs) - 1 : d.outs[j] = c.outs[j],
           Len(d.stk) \in Nat, Len(d.stk) >= Len(c.stk) - 1,
           \A i \in 1 .. Len(c.stk) - 1 : d.stk[i] = c.stk[i],
           \A i \in Len(c.stk) .. Len(d.stk) : ~d.stk[i].busy,
           Start(d.stk) = Start(c.stk),
           seg[Len(seg)] < Len(c.stk) \/ (Len(seg) = 1 /\ Len(d.stk) >= Len(c.stk)),
           \/ Free(c.call, Len(seg))
           \/ Reads(OpenIn(d.outs[Len(seg)]), d.stk, seg[Len(seg)], Len(d.stk))
    PROVE  Shown(d, seg)
<1> DEFINE n == Len(c.stk)
           m == Len(seg)
           o == Len(d.stk)
<1>1. n \in Nat \ {0} /\ o \in Nat /\ o >= n - 1
  BY RunningShape
<1>2. /\ m \in Nat \ {0} /\ Len(d.outs) = m
      /\ \A j \in 1 .. m : seg[j] \in Nat /\ seg[j] <= n /\ seg[j] <= seg[m]
  BY ShownShape
<1>3. m \in 1 .. m
  BY <1>2
<1>4. ASSUME NEW j \in 1 .. m PROVE seg[j] \in 0 .. o
  BY <1>1, <1>2, <1>3
<1>5. ASSUME NEW j \in 2 .. m PROVE j \in 1 .. m /\ seg[j] \in 1 .. n - 1 /\ d.stk[seg[j]] = c.stk[seg[j]]
  <2>1. 1 < j /\ j \in 1 .. m /\ 1 \in 1 .. m /\ m # 1
    BY <1>2
  <2>2. seg[1] < seg[j]
    BY <2>1 DEF Shown, Places
  <2>3. seg[m] < n
    BY <2>1
  <2>4. seg[1] \in Nat /\ seg[j] \in Nat /\ seg[j] <= seg[m] /\ seg[m] \in Nat
    BY <1>2, <1>3, <2>1
  <2>5. seg[j] \in 1 .. n - 1
    <3> HIDE DEF n, m
    <3> QED  BY <1>1, <2>2, <2>3, <2>4
  <2> QED  BY <2>1, <2>5
<1>6. Places(d, seg)
  BY <1>2, <1>4, <1>5 DEF Shown, Places
<1>7. ASSUME NEW j \in 1 .. m - 1 PROVE Part(d, j, seg[j], seg[j + 1] - 1, seg[j + 1])
  <2>1. j + 1 \in 2 .. m /\ j \in 1 .. m /\ j < j + 1 /\ j \in 1 .. Len(c.outs) - 1
    BY <1>2
  <2>2. seg[j + 1] \in 1 .. n - 1 /\ seg[j] < seg[j + 1] /\ seg[j] \in Nat
    BY <1>2, <1>5, <2>1 DEF Shown, Places
  <2>3. \A i \in 1 .. seg[j + 1] : d.stk[i] = c.stk[i]
    BY <1>1, <2>2
  <2>4. Part(c, j, seg[j], seg[j + 1] - 1, seg[j + 1])
    BY DEF Shown
  <2>5. d.outs[j] = c.outs[j]
    BY <2>1
  <2> DEFINE a == seg[j]
             b == seg[j + 1]
  <2>6. a \in Nat /\ b \in Nat /\ a < b
    BY <2>2
  <2> HIDE DEF a, b
  <2>7. Within(d.stk, a, b - 1)
    <3>1. Within(c.stk, a, b - 1)
      BY <2>4 DEF Part, a, b
    <3>2. \A i \in a + 1 .. b - 1 : i \in 1 .. b
      BY <2>6
    <3> QED  BY <2>3, <3>1, <3>2 DEF Within, b
  <2>8. ASSUME NEW open, Reads(open, c.stk, a, b) PROVE Reads(open, d.stk, a, b)
    <3>1. \A i \in 1 .. b - 1 : d.stk[i] = c.stk[i]
      BY <2>3, <2>6, SMTT(30) DEF b
    <3>2. d.stk[b].k = c.stk[b].k /\ Sym(d.stk[b]) = Sym(c.stk[b])
      <4>1. b \in 1 .. b
        BY <2>6
      <4> QED  BY <2>3, <4>1 DEF b
    <3>3. a <= b
      BY <2>6
    <3> QED  BY <2>6, <2>8, <3>1, <3>2, <3>3, ReadsSame
  <2> QED  BY <2>4, <2>5, <2>7, <2>8 DEF Part, a, b
<1>8. Within(d.stk, seg[m], o)
  <2> SUFFICES ASSUME NEW i \in seg[m] + 1 .. o PROVE ~d.stk[i].busy
    BY DEF Within
  <2>1. CASE i >= n
    <3>1. i \in n .. o
      BY <1>1, <1>2, <1>3, <2>1
    <3> QED  BY <3>1
  <2>2. CASE i < n
    <3>1. i \in 1 .. n - 1 /\ i \in seg[m] + 1 .. n
      BY <1>1, <1>2, <1>3, <2>2
    <3>2. Within(c.stk, seg[m], n)
      BY DEF Shown, Part
    <3> QED  BY <3>1, <3>2 DEF Within
  <2> QED  BY <1>1, <1>2, <1>3, <2>1, <2>2
<1>9. Part(d, m, seg[m], o, o)
  BY <1>8 DEF Part
<1> QED  BY <1>6, <1>7, <1>9 DEF Shown

LEMMA RetopPushed ==
    ASSUME NEW s, IsSeq(s), s # <<>>, NEW g, NEW h
    PROVE  LET t == Append(Append(Front(s), g), h)
           IN  /\ Len(s) \in Nat \ {0} /\ Len(t) = Len(s) + 1 /\ t # <<>>
               /\ t[Len(s)] = g /\ t[Len(s) + 1] = h
               /\ \A i \in 1 .. Len(s) - 1 : t[i] = s[i]
<1> DEFINE u == Append(Front(s), g)
           n == Len(s)
<1>1. /\ IsSeq(u) /\ Len(u) = n /\ n \in Nat \ {0} /\ u[n] = g
      /\ \A i \in 1 .. n - 1 : u[i] = s[i]
  BY Retopped
<1> HIDE DEF u, n
<1>2. /\ Len(Append(u, h)) = n + 1 /\ Append(u, h) # <<>> /\ Append(u, h)[n + 1] = h
      /\ \A i \in 1 .. n : Append(u, h)[i] = u[i]
  BY <1>1, Pushed
<1>3. n \in 1 .. n /\ \A i \in 1 .. n - 1 : i \in 1 .. n
  BY <1>1
<1> QED  BY <1>1, <1>2, <1>3 DEF u, n

\* d has the outputs of c, the last one with other text.
OutsFrom(c, d) == /\ IsSeq(d.outs) /\ Len(d.outs) = Len(c.outs) /\ IsSeq(Last(d.outs))
                  /\ \A j \in 1 .. Len(c.outs) - 1 : d.outs[j] = c.outs[j]

LEMMA OutsAre ==
    ASSUME NEW c, Running(c), Seqs(c), NEW d, OutsFrom(c, d)
    PROVE  /\ Seqs(d) /\ Len(c.outs) \in Nat \ {0} /\ IsSeq(Last(c.outs))
           /\ Last(c.outs) = c.outs[Len(c.outs)] /\ Last(d.outs) = d.outs[Len(c.outs)]
<1>1. IsSeq(c.outs) /\ c.outs # <<>>
  BY RunningShape
<1>2. Len(c.outs) \in Nat \ {0} /\ Last(c.outs) = c.outs[Len(c.outs)]
  BY <1>1, Popped
<1>3. IsSeq(d.outs) /\ d.outs # <<>>
  <2>1. IsSeq(d.outs) /\ Len(d.outs) > 0
    BY <1>2 DEF OutsFrom
  <2> QED  BY <2>1, SeqShape
<1>4. Last(d.outs) = d.outs[Len(c.outs)]
  BY <1>3, Popped DEF OutsFrom
<1>5. Seqs(d)
  <2> SUFFICES ASSUME NEW j \in 1 .. Len(c.outs) PROVE IsSeq(d.outs[j])
    BY DEF Seqs, OutsFrom
  <2>1. CASE j = Len(c.outs)
    BY <1>4, <2>1 DEF OutsFrom
  <2>2. CASE j # Len(c.outs)
    <3>1. j \in 1 .. Len(c.outs) - 1
      BY <1>2, <2>2
    <3> QED  BY <3>1 DEF OutsFrom, Seqs
  <2> QED  BY <2>1, <2>2
<1>6. IsSeq(Last(c.outs))
  <2>1. Len(c.outs) \in 1 .. Len(c.outs)
    BY <1>2
  <2> QED  BY <1>2, <2>1 DEF Seqs
<1> QED  BY <1>2, <1>4, <1>5, <1>6

\* Frames in their places.
LEMMA ShapeChange ==
    ASSUME NEW c, Running(c), Shape(c), c.stk # <<>>, NEW d, d.call = c.call,
           Len(d.stk) \in Nat, Len(d.stk) >= Len(c.stk) - 1,
           \A i \in 1 .. Len(c.stk) - 1 : d.stk[i] = c.stk[i],
           \A i \in Len(c.stk) .. Len(d.stk) : Fits(d.stk[i], i, c.call),
           \A i \in Len(c.stk) .. Len(d.stk) - 1 : Covers(d.stk[i]),
           \A i \in Len(c.stk) .. Len(d.stk) : i > 1 => Over(d.stk[i - 1], d.stk[i], c.call)
    PROVE  Shape(d)
<1> DEFINE n == Len(c.stk)
           o == Len(d.stk)
<1>1. n \in Nat \ {0} /\ o \in Nat /\ o >= n - 1
  BY RunningShape
<1>2. ASSUME NEW i \in 1 .. o PROVE Fits(d.stk[i], i, d.call)
  <2>1. CASE i >= n
    <3>1. i \in n .. o
      BY <1>1, <2>1
    <3> QED  BY <3>1
  <2>2. CASE i < n
    <3>1. i \in 1 .. n - 1 /\ i \in 1 .. n
      BY <1>1, <2>2
    <3> QED  BY <3>1 DEF Shape
  <2> QED  BY <1>1, <2>1, <2>2
<1>3. ASSUME NEW i \in 1 .. o - 1 PROVE Covers(d.stk[i])
  <2>1. CASE i >= n
    <3>1. i \in n .. o - 1
      BY <1>1, <2>1
    <3> QED  BY <3>1
  <2>2. CASE i < n
    <3>1. i \in 1 .. n - 1
      BY <1>1, <2>2
    <3> QED  BY <3>1 DEF Shape
  <2> QED  BY <1>1, <2>1, <2>2
<1>4. ASSUME NEW i \in 2 .. o PROVE Over(d.stk[i - 1], d.stk[i], d.call)
  <2>1. CASE i >= n
    <3>1. i \in n .. o /\ i > 1
      BY <1>1, <2>1
    <3> QED  BY <3>1
  <2>2. CASE i < n
    <3>1. i \in 1 .. n - 1 /\ i - 1 \in 1 .. n - 1 /\ i \in 2 .. n
      BY <1>1, <2>2
    <3> QED  BY <3>1 DEF Shape
  <2> QED  BY <1>1, <2>1, <2>2
<1> QED  BY <1>2, <1>3, <1>4 DEF Shape

\* What the last text has open, and what it shows of the frame on top.
LEMMA TopShows ==
    ASSUME NEW c, Running(c), Shape(c), NEW seg, Shown(c, seg), c.stk # <<>>, ~Top(c).busy,
           ~Top(c).exc, ~Free(c.call, Len(seg))
    PROVE  LET n == Len(c.stk)
               l == seg[Len(seg)]
               w == Symbols(c.stk, l, n - 1)
           IN  /\ n \in Nat \ {0} /\ l \in Nat /\ l < n /\ IsSeq(w)
               /\ Shows(OpenIn(Last(c.outs)), w, Top(c))
<1> DEFINE n == Len(c.stk)
           l == seg[Len(seg)]
           w == Symbols(c.stk, l, n - 1)
<1>1. n \in Nat \ {0} /\ Top(c) = c.stk[n] /\ IsSeq(c.outs) /\ c.outs # <<>>
  BY RunningShape
<1>2. Len(c.outs) = Len(seg) /\ l \in Nat
  <2>1. Len(seg) \in Nat \ {0} /\ Len(c.outs) = Len(seg) /\ \A j \in 1 .. Len(seg) : seg[j] \in Nat
    BY ShownShape
  <2>2. Len(seg) \in 1 .. Len(seg)
    BY <2>1
  <2> QED  BY <2>1, <2>2
<1>3. l < n
  BY LastPlace
<1>4. Last(c.outs) = c.outs[Len(seg)]
  BY <1>1, <1>2, Popped
<1>5. Reads(OpenIn(Last(c.outs)), c.stk, l, n)
  BY <1>4 DEF Shown, Part
<1>6. IsSeq(w)
  <2>1. n - 1 \in Nat /\ l <= n - 1
    BY <1>1, <1>2, <1>3
  <2> HIDE DEF n, l
  <2> QED  BY <1>2, <2>1, SymbolsIs
<1>7. Shows(OpenIn(Last(c.outs)), w, Top(c))
  <2> HIDE DEF w, l, n
  <2> QED  BY <1>1, <1>2, <1>3, <1>5 DEF Reads, w
<1> QED  BY <1>1, <1>2, <1>3, <1>6, <1>7

\* The call on top ends.
LEMMA PoppedTexts ==
    ASSUME NEW c, Running(c), Texts(c), c.stk # <<>>, ~Top(c).busy, ~Top(c).exc,
           NEW d, d.call = c.call, d.sets = c.sets, d.stk = Front(c.stk), OutsFrom(c, d),
           \A w : IsSeq(w) /\ Shows(OpenIn(Last(c.outs)), w, Top(c)) => OpenIn(Last(d.outs)) = w
    PROVE  Texts(d)
<1> DEFINE n == Len(c.stk)
<1>1. Shape(c) /\ Given(c) /\ Seqs(c)
  BY DEF Texts
<1>2. PICK seg : Shown(c, seg)
  BY DEF Texts
<1> DEFINE m == Len(seg)
           l == seg[m]
<1>3. /\ IsSeq(c.stk) /\ n \in Nat \ {0} /\ Len(d.stk) = n - 1 /\ Top(c) = c.stk[n] /\ IsSeq(d.stk)
      /\ \A i \in 1 .. n - 1 : d.stk[i] = c.stk[i]
  <2>1. IsSeq(c.stk) /\ Top(c) = c.stk[n]
    BY RunningShape
  <2> QED  BY <2>1, Popped
<1>4. Seqs(d) /\ Last(d.outs) = d.outs[Len(c.outs)] /\ Len(d.outs) = Len(c.outs)
  BY <1>1, OutsAre DEF OutsFrom
<1>5. m \in Nat \ {0} /\ Len(c.outs) = m
  BY <1>2, ShownShape
<1>6. l < n
  BY <1>2, LastPlace
<1>7. Start(d.stk) = Start(c.stk)
  <2>1. CASE n = 1
    <3>1. d.stk = <<>>
      BY <1>3, <2>1, SeqShape
    <3> QED  BY <1>3, <2>1, <3>1 DEF Start
  <2>2. CASE n # 1
    <3>1. 1 \in 1 .. n - 1 /\ Len(d.stk) > 0
      <4>1. n \in Nat \ {0} /\ Len(d.stk) = n - 1
        BY <1>3
      <4> HIDE DEF n
      <4> QED  BY <2>2, <4>1
    <3>2. d.stk # <<>> /\ d.stk[1] = c.stk[1]
      BY <1>3, <3>1, SeqShape
    <3> QED  BY <3>2 DEF Start
  <2> QED  BY <2>1, <2>2
<1>8. ASSUME ~Free(c.call, m) PROVE Reads(OpenIn(d.outs[m]), d.stk, l, n - 1)
  <2> DEFINE w == Symbols(c.stk, l, n - 1)
  <2>1. l \in Nat /\ IsSeq(w) /\ Shows(OpenIn(Last(c.outs)), w, Top(c))
    BY <1>1, <1>2, <1>8, TopShows
  <2>2. OpenIn(d.outs[m]) = w
    <3>1. OpenIn(Last(d.outs)) = w
      <4> HIDE DEF w
      <4> QED  BY <2>1
    <3> QED  BY <1>4, <1>5, <3>1
  <2>3. Within(c.stk, l, n)
    BY <1>2 DEF Shown, Part
  <2> HIDE DEF l, n
  <2>4. CASE n - 1 = l
    BY <1>3, <2>1, <2>2, <2>4, SymbolsNone DEF Reads
  <2>5. CASE n - 1 # l
    <3>1. n - 1 \in Nat /\ l < n - 1 /\ n - 1 \in l + 1 .. n /\ n - 1 \in 1 .. n - 1 /\ n - 1 - 1 \in Nat
      BY <1>3, <1>6, <2>1, <2>5
    <3>2. Covers(c.stk[n - 1]) /\ ~c.stk[n - 1].busy
      BY <1>1, <2>3, <3>1 DEF Shape, Within, n
    <3>3. w = Append(Symbols(c.stk, l, n - 1 - 1), Sym(c.stk[n - 1]))
      BY <2>1, <3>1, SymbolsNext
    <3>4. Symbols(d.stk, l, n - 1 - 1) = Symbols(c.stk, l, n - 1 - 1)
      <4>1. \A i \in l + 1 .. n - 1 - 1 : d.stk[i] = c.stk[i]
        BY <1>3, <2>1, <3>1
      <4>2. \A i \in l + 1 .. n - 1 - 1 : Sym(d.stk[i]) = Sym(c.stk[i])
        BY <4>1
      <4> QED  BY <2>1, <3>1, <4>2, SymbolsSame, ZenonT(60)
    <3>5. d.stk[n - 1] = c.stk[n - 1]
      BY <1>3, <3>1
    <3> HIDE DEF w
    <3>6. Shows(w, Symbols(d.stk, l, n - 1 - 1), d.stk[n - 1])
      BY <3>2, <3>3, <3>4, <3>5 DEF Covers, Shows
    <3> QED  BY <2>2, <2>5, <3>6 DEF Reads
  <2> QED  BY <2>4, <2>5
<1>9. Shown(d, seg)
  <2>1. \A i \in n .. Len(d.stk) : ~d.stk[i].busy
    BY <1>3
  <2>2. Len(d.stk) \in Nat /\ Len(d.stk) >= n - 1
    BY <1>3
  <2>3. \A j \in 1 .. Len(c.outs) - 1 : d.outs[j] = c.outs[j]
    BY DEF OutsFrom
  <2>4. Free(c.call, m) \/ Reads(OpenIn(d.outs[m]), d.stk, l, Len(d.stk))
    BY <1>3, <1>8
  <2> HIDE DEF Shown
  <2> QED  BY <1>2, <1>3, <1>4, <1>6, <1>7, <2>1, <2>2, <2>3, <2>4, TopChange
<1>10. Shape(d)
  <2>1. Len(d.stk) \in Nat /\ Len(d.stk) >= n - 1
    BY <1>3
  <2>2. n .. Len(d.stk) = {} /\ n .. Len(d.stk) - 1 = {}
    BY <1>3
  <2> QED  BY <1>1, <1>3, <2>1, <2>2, ShapeChange
<1> QED  BY <1>1, <1>4, <1>9, <1>10 DEF Texts, Given

\* The frame that has raised an exception is alone.
LEMMA Alone ==
    ASSUME NEW c, Running(c), Shape(c), NEW seg, Shown(c, seg), c.stk # <<>>, Top(c).exc
    PROVE  Len(c.stk) = 1 /\ Len(seg) = 1 /\ seg[1] = 1 /\ Start(c.stk) = 1
<1>1. Len(c.stk) \in Nat \ {0} /\ Top(c) = c.stk[Len(c.stk)]
  BY RunningShape
<1>2. Len(c.stk) = 1
  <2>1. Len(c.stk) \in 1 .. Len(c.stk)
    BY <1>1
  <2> QED  BY <1>1, <2>1 DEF Shape, Fits
<1>3. Start(c.stk) = 1
  BY <1>1, <1>2 DEF Start
<1>4. Len(seg) \in Nat \ {0} /\ \A j \in 1 .. Len(seg) : seg[j] \in Nat /\ seg[j] <= 1
  BY <1>2, ShownShape
<1>5. seg[1] = 1
  BY <1>3 DEF Shown, Places
<1>6. Len(seg) = 1
  <2>1. SUFFICES ASSUME Len(seg) # 1 PROVE FALSE
    OBVIOUS
  <2> DEFINE m == Len(seg)
  <2>a. m \in Nat \ {0} /\ m # 1
    BY <1>4, <2>1
  <2>b. 1 \in 1 .. m /\ m \in 1 .. m /\ 1 < m
    <3> HIDE DEF m
    <3> QED  BY <2>a
  <2>2. 1 \in 1 .. Len(seg) /\ Len(seg) \in 1 .. Len(seg) /\ 1 < Len(seg)
    BY <2>b
  <2>3. seg[1] < seg[Len(seg)]
    BY <2>2 DEF Shown, Places
  <2> QED  BY <1>4, <1>5, <2>2, <2>3
<1> QED  BY <1>2, <1>3, <1>5, <1>6

\* Another frame in the place of the one on top.
LEMMA RetoppedTexts ==
    ASSUME NEW c, Running(c), Texts(c), c.stk # <<>>, ~Top(c).busy,
           NEW g, ~g.busy, g.exc <=> Top(c).exc, Fits(g, Len(c.stk), c.call),
           g.k = "http" => Top(c).k = "http" /\ g.unset = Top(c).unset,
           NEW d, d.call = c.call, d.sets = c.sets, d.stk = Append(Front(c.stk), g), OutsFrom(c, d),
           Top(c).exc => Mixed(c.call),
           ~Top(c).exc => \A w : IsSeq(w) /\ Shows(OpenIn(Last(c.outs)), w, Top(c)) =>
                                    Shows(OpenIn(Last(d.outs)), w, g)
    PROVE  Texts(d)
<1> DEFINE n == Len(c.stk)
<1>1. Shape(c) /\ Given(c) /\ Seqs(c)
  BY DEF Texts
<1>2. PICK seg : Shown(c, seg)
  BY DEF Texts
<1> DEFINE m == Len(seg)
           l == seg[m]
<1>3. /\ IsSeq(c.stk) /\ n \in Nat \ {0} /\ Len(d.stk) = n /\ Top(c) = c.stk[n] /\ d.stk[n] = g
      /\ d.stk # <<>>
      /\ \A i \in 1 .. n - 1 : d.stk[i] = c.stk[i]
  <2>1. IsSeq(c.stk) /\ Top(c) = c.stk[n]
    BY RunningShape
  <2> QED  BY <2>1, Retopped
<1>4. Seqs(d) /\ Last(d.outs) = d.outs[Len(c.outs)] /\ Len(d.outs) = Len(c.outs)
  BY <1>1, OutsAre DEF OutsFrom
<1>5. m \in Nat \ {0} /\ Len(c.outs) = m
  BY <1>2, ShownShape
<1>6. Start(d.stk) = Start(c.stk)
  <2>1. CASE n = 1
    BY <1>3, <2>1 DEF Start
  <2>2. CASE n # 1
    <3>1. 1 \in 1 .. n - 1
      <4>1. n \in Nat \ {0}
        BY <1>3
      <4> HIDE DEF n
      <4> QED  BY <2>2, <4>1
    <3> QED  BY <1>3, <3>1 DEF Start
  <2> QED  BY <2>1, <2>2
<1>7. /\ l < n \/ (m = 1 /\ Len(d.stk) >= n)
      /\ Free(c.call, m) \/ Reads(OpenIn(d.outs[m]), d.stk, l, n)
  <2>1. CASE Top(c).exc
    BY <1>1, <1>2, <1>3, <2>1, Alone DEF Free
  <2>2. CASE ~Top(c).exc
    <3>1. l < n
      BY <1>2, <2>2, LastPlace
    <3>2. ASSUME ~Free(c.call, m) PROVE Reads(OpenIn(d.outs[m]), d.stk, l, n)
      <4> DEFINE w == Symbols(c.stk, l, n - 1)
      <4>1. l \in Nat /\ IsSeq(w) /\ Shows(OpenIn(Last(c.outs)), w, Top(c))
        BY <1>1, <1>2, <2>2, <3>2, TopShows
      <4>2. Shows(OpenIn(d.outs[m]), w, g)
        <5>1. Shows(OpenIn(Last(d.outs)), w, g)
          <6> HIDE DEF w
          <6> QED  BY <2>2, <4>1
        <5> QED  BY <1>4, <1>5, <5>1
      <4> HIDE DEF l, n, Shows
      <4>3. Symbols(d.stk, l, n - 1) = w
        <5>1. \A i \in l + 1 .. n - 1 : d.stk[i] = c.stk[i]
          <6>1. l \in Nat
            BY <4>1
          <6>2. \A i \in l + 1 .. n - 1 : i \in 1 .. n - 1
            BY <6>1
          <6> QED  BY <1>3, <6>2
        <5>2. \A i \in l + 1 .. n - 1 : Sym(d.stk[i]) = Sym(c.stk[i])
          BY <5>1
        <5>3. n - 1 \in Nat /\ l \in Nat
          BY <1>3, <4>1
        <5> QED  BY <5>2, <5>3, SymbolsSame
      <4> HIDE DEF w
      <4>4. n # l
        BY <1>3, <3>1, <4>1
      <4> QED  BY <1>3, <4>2, <4>3, <4>4 DEF Reads
    <3> QED  BY <3>1, <3>2
  <2> QED  BY <2>1, <2>2
<1>8. \A i \in n .. Len(d.stk) : i = n
  BY <1>3
<1>9. Shown(d, seg)
  <2>1. \A i \in n .. Len(d.stk) : ~d.stk[i].busy
    BY <1>3, <1>8
  <2>2. Len(d.stk) \in Nat /\ Len(d.stk) >= n - 1
    BY <1>3
  <2>3. \A j \in 1 .. Len(c.outs) - 1 : d.outs[j] = c.outs[j]
    BY DEF OutsFrom
  <2>4. Free(c.call, m) \/ Reads(OpenIn(d.outs[m]), d.stk, l, Len(d.stk))
    BY <1>3, <1>7
  <2> HIDE DEF Shown
  <2> QED  BY <1>2, <1>3, <1>4, <1>6, <1>7, <2>1, <2>2, <2>3, <2>4, TopChange
<1>10. Shape(d)
  <2>1. Len(d.stk) \in Nat /\ Len(d.stk) >= n - 1
    BY <1>3
  <2>2. n .. Len(d.stk) - 1 = {}
    BY <1>3
  <2>3. \A i \in n .. Len(d.stk) : Fits(d.stk[i], i, c.call)
    BY <1>3, <1>8
  <2>4. ASSUME NEW i \in n .. Len(d.stk), i > 1 PROVE Over(d.stk[i - 1], d.stk[i], c.call)
    <3>1. i = n /\ n \in Nat \ {0}
      BY <1>3, <1>8
    <3> HIDE DEF n
    <3>2. n - 1 \in 1 .. n - 1 /\ n \in 2 .. n
      BY <2>4, <3>1
    <3>3. Over(c.stk[n - 1], Top(c), c.call)
      BY <1>1, <1>3, <3>2 DEF Shape, n
    <3> QED  BY <1>3, <3>1, <3>2, <3>3 DEF Over
  <2> QED  BY <1>1, <1>3, <2>1, <2>2, <2>3, <2>4, ShapeChange
<1> QED  BY <1>1, <1>4, <1>9, <1>10 DEF Texts, Given

\* Another frame in the place of the one on top, and one above it.
LEMMA PushedTexts ==
    ASSUME NEW c, Running(c), Texts(c), c.stk # <<>>, ~Top(c).busy,
           NEW g, ~g.busy, g.exc <=> Top(c).exc, Fits(g, Len(c.stk), c.call), g.k \notin {"value", "http"},
           NEW h, ~h.busy, ~h.exc, Fits(h, Len(c.stk) + 1, c.call), Over(g, h, c.call),
           NEW d, d.call = c.call, d.sets = c.sets, d.stk = Append(Append(Front(c.stk), g), h),
           OutsFrom(c, d),
           Top(c).exc => Mixed(c.call),
           ~Top(c).exc => \A w : IsSeq(w) /\ Shows(OpenIn(Last(c.outs)), w, Top(c)) =>
                                    Shows(OpenIn(Last(d.outs)), Append(w, Sym(g)), h)
    PROVE  Texts(d)
<1> DEFINE n == Len(c.stk)
<1>1. Shape(c) /\ Given(c) /\ Seqs(c)
  BY DEF Texts
<1>2. PICK seg : Shown(c, seg)
  BY DEF Texts
<1> DEFINE m == Len(seg)
           l == seg[m]
<1>3. /\ IsSeq(c.stk) /\ n \in Nat \ {0} /\ Len(d.stk) = n + 1 /\ Top(c) = c.stk[n]
      /\ d.stk[n] = g /\ d.stk[n + 1] = h /\ d.stk # <<>>
      /\ \A i \in 1 .. n - 1 : d.stk[i] = c.stk[i]
  <2>1. IsSeq(c.stk) /\ Top(c) = c.stk[n]
    BY RunningShape
  <2> DEFINE s == c.stk
  <2>2. IsSeq(s) /\ s # <<>> /\ d.stk = Append(Append(Front(s), g), h)
    BY <2>1
  <2> HIDE DEF s
  <2>3. /\ Len(s) \in Nat \ {0} /\ Len(d.stk) = Len(s) + 1 /\ d.stk # <<>>
        /\ d.stk[Len(s)] = g /\ d.stk[Len(s) + 1] = h
        /\ \A i \in 1 .. Len(s) - 1 : d.stk[i] = s[i]
    BY <2>2, RetopPushed
  <2> QED  BY <2>1, <2>3 DEF s
<1>4. Seqs(d) /\ Last(d.outs) = d.outs[Len(c.outs)] /\ Len(d.outs) = Len(c.outs)
  BY <1>1, OutsAre DEF OutsFrom
<1>5. m \in Nat \ {0} /\ Len(c.outs) = m
  BY <1>2, ShownShape
<1>6. Start(d.stk) = Start(c.stk)
  <2>1. CASE n = 1
    BY <1>3, <2>1 DEF Start
  <2>2. CASE n # 1
    <3>1. 1 \in 1 .. n - 1
      <4>1. n \in Nat \ {0}
        BY <1>3
      <4> HIDE DEF n
      <4> QED  BY <2>2, <4>1
    <3> QED  BY <1>3, <3>1 DEF Start
  <2> QED  BY <2>1, <2>2
<1>7. /\ l < n \/ (m = 1 /\ Len(d.stk) >= n)
      /\ Free(c.call, m) \/ Reads(OpenIn(d.outs[m]), d.stk, l, n + 1)
  <2>1. CASE Top(c).exc
    BY <1>1, <1>2, <1>3, <2>1, Alone DEF Free
  <2>2. CASE ~Top(c).exc
    <3>1. l < n
      BY <1>2, <2>2, LastPlace
    <3>2. ASSUME ~Free(c.call, m) PROVE Reads(OpenIn(d.outs[m]), d.stk, l, n + 1)
      <4> DEFINE w == Symbols(c.stk, l, n - 1)
      <4>1. l \in Nat /\ IsSeq(w) /\ Shows(OpenIn(Last(c.outs)), w, Top(c))
        BY <1>1, <1>2, <2>2, <3>2, TopShows
      <4>2. Shows(OpenIn(d.outs[m]), Append(w, Sym(g)), h)
        <5>1. Shows(OpenIn(Last(d.outs)), Append(w, Sym(g)), h)
          <6> HIDE DEF w
          <6> QED  BY <2>2, <4>1
        <5> QED  BY <1>4, <1>5, <5>1
      <4> HIDE DEF l, n, Shows
      <4>3. Symbols(d.stk, l, n - 1) = w
        <5>1. \A i \in l + 1 .. n - 1 : d.stk[i] = c.stk[i]
          <6>1. l \in Nat
            BY <4>1
          <6>2. \A i \in l + 1 .. n - 1 : i \in 1 .. n - 1
            BY <6>1
          <6> QED  BY <1>3, <6>2
        <5>2. \A i \in l + 1 .. n - 1 : Sym(d.stk[i]) = Sym(c.stk[i])
          BY <5>1
        <5>3. n - 1 \in Nat /\ l \in Nat
          BY <1>3, <4>1
        <5> QED  BY <5>2, <5>3, SymbolsSame
      <4>4. Symbols(d.stk, l, n) = Append(w, Sym(g))
        <5>1. l \in Nat /\ n \in Nat /\ l < n
          BY <1>3, <3>1, <4>1
        <5>2. Symbols(d.stk, l, n) = Append(Symbols(d.stk, l, n - 1), Sym(d.stk[n]))
          BY <5>1, SymbolsNext
        <5> QED  BY <1>3, <4>3, <5>2
      <4> HIDE DEF w
      <4>5. n + 1 # l /\ (n + 1) - 1 = n
        BY <1>3, <3>1, <4>1
      <4> QED  BY <1>3, <4>2, <4>4, <4>5 DEF Reads
    <3> QED  BY <3>1, <3>2
  <2> QED  BY <2>1, <2>2
<1>8. \A i \in n .. Len(d.stk) : i = n \/ i = n + 1
  BY <1>3
<1>9. Shown(d, seg)
  <2>1. \A i \in n .. Len(d.stk) : ~d.stk[i].busy
    BY <1>3, <1>8
  <2>2. Len(d.stk) \in Nat /\ Len(d.stk) >= n - 1
    BY <1>3
  <2>3. \A j \in 1 .. Len(c.outs) - 1 : d.outs[j] = c.outs[j]
    BY DEF OutsFrom
  <2>4. Free(c.call, m) \/ Reads(OpenIn(d.outs[m]), d.stk, l, Len(d.stk))
    BY <1>3, <1>7
  <2> HIDE DEF Shown
  <2> QED  BY <1>2, <1>3, <1>4, <1>6, <1>7, <2>1, <2>2, <2>3, <2>4, TopChange
<1>10. Shape(d)
  <2>1. Len(d.stk) \in Nat /\ Len(d.stk) >= n - 1
    BY <1>3
  <2>2. \A i \in n .. Len(d.stk) - 1 : i = n
    BY <1>3
  <2>3. \A i \in n .. Len(d.stk) : Fits(d.stk[i], i, c.call)
    BY <1>3, <1>8
  <2>4. \A i \in n .. Len(d.stk) - 1 : Covers(d.stk[i])
    BY <1>3, <2>2 DEF Covers
  <2>5. ASSUME NEW i \in n .. Len(d.stk), i > 1 PROVE Over(d.stk[i - 1], d.stk[i], c.call)
    <3>1. CASE i = n
      BY <1>3, <3>1 DEF Over
    <3>2. CASE i = n + 1
      <4>1. i - 1 = n
        BY <1>3, <3>2
      <4> QED  BY <1>3, <3>2, <4>1
    <3> QED  BY <1>8, <3>1, <3>2
  <2> QED  BY <1>1, <1>3, <2>1, <2>3, <2>4, <2>5, ShapeChange
<1> QED  BY <1>1, <1>4, <1>9, <1>10 DEF Texts, Given

-----------------------------------------------------------------------------
(***************************************************************************)
(* The operations on a call.                                               *)
(***************************************************************************)
LEMMA PopParts ==
    ASSUME NEW c, IsCall(c)
    PROVE  /\ IsCall(Pop(c)) /\ Pop(c).call = c.call /\ Pop(c).sets = c.sets /\ Pop(c).outs = c.outs
           /\ Pop(c).in = c.in /\ Pop(c).stk = Front(c.stk) /\ Pop(c).ret = c.ret
BY DEF Pop, IsCall, CallKeys

LEMMA PushParts ==
    ASSUME NEW c, IsCall(c), NEW f
    PROVE  LET d == Push(c, f)
           IN  /\ IsCall(d) /\ d.call = c.call /\ d.sets = c.sets /\ d.outs = c.outs
               /\ d.in = c.in /\ d.stk = Append(c.stk, f) /\ d.ret = c.ret
BY DEF Push, IsCall, CallKeys

LEMMA RetopParts ==
    ASSUME NEW c, IsCall(c), NEW f
    PROVE  LET d == Retop(c, f)
           IN  /\ IsCall(d) /\ d.call = c.call /\ d.sets = c.sets /\ d.outs = c.outs
               /\ d.in = c.in /\ d.stk = Append(Front(c.stk), f) /\ d.ret = c.ret
BY DEF Retop, IsCall, CallKeys

LEMMA WriteParts ==
    ASSUME NEW c, IsCall(c), NEW ts
    PROVE  LET d == Write(c, ts)
           IN  /\ IsCall(d) /\ d.call = c.call /\ d.sets = c.sets
               /\ d.outs = Append(Front(c.outs), Last(c.outs) \o ts)
               /\ d.in = c.in /\ d.stk = c.stk /\ d.ret = c.ret
<1> DEFINE outs == Append(Front(c.outs), Last(c.outs) \o ts)
<1>1. Write(c, ts) = [c EXCEPT !.outs = outs]
  BY DEF Write, IsCall, CallKeys
<1> HIDE DEF outs
<1> QED  BY <1>1 DEF IsCall, CallKeys, outs

LEMMA MoveParts ==
    ASSUME NEW c, IsCall(c), NEW at
    PROVE  LET d == MoveTo(c, at)
           IN  /\ IsCall(d) /\ d.call = c.call /\ d.sets = c.sets /\ d.outs = c.outs
               /\ d.stk = c.stk /\ d.ret = c.ret
<1> DEFINE in == Append(Front(c.in), [Last(c.in) EXCEPT !.at = at])
<1>1. MoveTo(c, at) = [c EXCEPT !.in = in]
  BY DEF MoveTo, IsCall, CallKeys
<1> HIDE DEF in
<1> QED  BY <1>1 DEF IsCall, CallKeys

LEMMA AdvanceParts ==
    ASSUME NEW c, IsCall(c)
    PROVE  LET d == Advance(c)
           IN  /\ IsCall(d) /\ d.call = c.call /\ d.sets = c.sets /\ d.outs = c.outs
               /\ d.stk = c.stk /\ d.ret = c.ret
BY MoveParts DEF Advance

LEMMA ReturnParts ==
    ASSUME NEW c, IsCall(c), NEW ret
    PROVE  LET d == Return(c, ret)
           IN  d.call = c.call /\ d.sets = c.sets /\ d.outs = c.outs /\ d.ret = ret
BY DEF Return, IsCall, CallKeys

\* The same texts, or more in the last one.
LEMMA SameOuts ==
    ASSUME NEW c, Running(c), Seqs(c), NEW d, d.outs = c.outs
    PROVE  OutsFrom(c, d) /\ Last(d.outs) = Last(c.outs)
<1>1. IsSeq(c.outs) /\ c.outs # <<>>
  BY RunningShape
<1>2. Last(c.outs) = c.outs[Len(c.outs)] /\ Len(c.outs) \in 1 .. Len(c.outs)
  BY <1>1, Popped
<1> QED  BY <1>1, <1>2 DEF OutsFrom, Seqs

LEMMA MoreOuts ==
    ASSUME NEW c, Running(c), NEW text, IsSeq(text), NEW d, d.outs = Append(Front(c.outs), text)
    PROVE  OutsFrom(c, d) /\ Last(d.outs) = text /\ Front(d.outs) = Front(c.outs)
<1>1. IsSeq(c.outs) /\ c.outs # <<>>
  BY RunningShape
<1> QED  BY <1>1, Retopped DEF OutsFrom

LEMMA SameTexts ==
    ASSUME NEW c, Texts(c), NEW d, d.call = c.call, d.stk = c.stk, d.outs = c.outs,
           Given(d)
    PROVE  Texts(d)
<1>1. Shape(d) /\ Seqs(d)
  BY DEF Texts, Shape, Seqs
<1>2. PICK seg : Shown(c, seg)
  BY DEF Texts
<1>3. Shown(d, seg)
  BY <1>2 DEF Shown, Places, Part
<1> QED  BY <1>1, <1>3 DEF Texts

\* A call that returns says what is to be said of its texts.
LEMMA Said ==
    ASSUME NEW c, Running(c), Texts(c), NEW d, d.call = c.call, d.sets = c.sets, d.outs = c.outs,
           d.ret \in {"ok", "exception"} => IsJSON(c.outs[1]) \/ Mixed(c.call)
    PROVE  Says(d)
<1>1. PICK seg : Shown(c, seg)
  BY DEF Texts
<1> DEFINE m == Len(seg)
<1>2. /\ m \in Nat \ {0} /\ Len(c.outs) = m /\ IsSeq(c.outs) /\ Len(c.stk) \in Nat
      /\ \A j \in 1 .. m : seg[j] \in Nat /\ seg[j] <= Len(c.stk)
  BY <1>1, ShownShape, RunningShape
<1>3. DOMAIN c.outs = 1 .. m
  BY <1>2, SeqShape
<1>4. ASSUME NEW i \in 1 .. m PROVE IsBeginning(c.outs[i]) \/ (i = 1 /\ Mixed(c.call))
  <2>1. SUFFICES ASSUME ~Free(c.call, i) PROVE OpenIn(c.outs[i]) # Broken
    BY DEF IsBeginning, Free
  <2>2. CASE i = m
    <3>1. Reads(OpenIn(c.outs[i]), c.stk, seg[i], Len(c.stk))
      BY <1>1, <2>1, <2>2 DEF Shown, Part
    <3> QED  BY <1>2, <3>1, ReadsBeginning
  <2>3. CASE i # m
    <3>1. i \in 1 .. m - 1 /\ i + 1 \in 1 .. m /\ i < i + 1
      BY <1>2, <2>3
    <3>2. Reads(OpenIn(c.outs[i]), c.stk, seg[i], seg[i + 1])
      BY <1>1, <2>1, <3>1 DEF Shown, Part
    <3>3. seg[i] \in Nat /\ seg[i + 1] \in Nat /\ seg[i] <= seg[i + 1]
      <4>1. seg[i] < seg[i + 1]
        BY <1>1, <3>1 DEF Shown, Places
      <4> QED  BY <1>2, <3>1, <4>1
    <3> QED  BY <3>2, <3>3, ReadsBeginning
  <2> QED  BY <2>2, <2>3
<1>5. \A i \in DOMAIN c.sets : IsJSON(c.sets[i][3])
  <2>1. Given(c)
    BY DEF Texts
  <2> QED  BY <2>1, SeqShape DEF Given
<1> QED  BY <1>3, <1>4, <1>5 DEF Says

\* What the invariant is of one call.
Tells(c) == /\ c.ret = "none" => Texts(c)
            /\ c.ret \notin {"idle", "none"} => Says(c)

LEMMA Failed ==
    ASSUME NEW c, Running(c), Texts(c), NEW ret \in {"error", "panic"}
    PROVE  Tells(Return(c, ret))
<1> DEFINE d == Return(c, ret)
<1>1. IsCall(c)
  BY DEF Running
<1>2. d.call = c.call /\ d.sets = c.sets /\ d.outs = c.outs /\ d.ret = ret
  BY <1>1, ReturnParts
<1> HIDE DEF d
<1>3. Says(d)
  BY <1>2, Said
<1> QED  BY <1>2, <1>3 DEF Tells, d

-----------------------------------------------------------------------------
(***************************************************************************)
(* What the helpers of the actions write.                                  *)
(***************************************************************************)
LEMMA TopFits ==
    ASSUME NEW c, Running(c), Texts(c), c.stk # <<>>
    PROVE  /\ IsCall(c) /\ Shape(c) /\ Given(c) /\ Seqs(c)
           /\ IsSeq(c.stk) /\ IsSeq(c.outs) /\ c.outs # <<>> /\ IsSeq(Last(c.outs))
           /\ Len(c.stk) \in Nat \ {0} /\ Top(c) = c.stk[Len(c.stk)] /\ FrameOK(Top(c))
           /\ Fits(Top(c), Len(c.stk), c.call)
<1>1. /\ IsCall(c) /\ IsSeq(c.stk) /\ IsSeq(c.outs) /\ c.outs # <<>> /\ Len(c.stk) \in Nat \ {0}
      /\ Top(c) = c.stk[Len(c.stk)] /\ FrameOK(Top(c))
  BY RunningShape
<1>2. Shape(c) /\ Given(c) /\ Seqs(c)
  BY DEF Texts
<1>3. Fits(Top(c), Len(c.stk), c.call)
  <2> DEFINE n == Len(c.stk)
  <2>1. n \in Nat \ {0} /\ Top(c) = c.stk[n] /\ \A i \in 1 .. n : Fits(c.stk[i], i, c.call)
    BY <1>1, <1>2 DEF Shape
  <2> HIDE DEF n
  <2>2. n \in 1 .. n
    BY <2>1
  <2>3. Fits(Top(c), n, c.call)
    BY <2>1, <2>2
  <2> QED  BY <2>3 DEF n
<1>4. IsSeq(Last(c.outs))
  <2>1. Last(c.outs) = c.outs[Len(c.outs)] /\ Len(c.outs) \in 1 .. Len(c.outs)
    BY <1>1, Popped
  <2> QED  BY <1>2, <2>1 DEF Seqs
<1> QED  BY <1>1, <1>2, <1>3, <1>4

\* The frame of a struct fits with other bookkeeping.
LEMMA StructFits ==
    ASSUME NEW f, NEW i, NEW call, Fits(f, i, call), f.k \in StructKinds,
           NEW g, g.root = f.root, g.typ = f.typ, g.s = f.s, g.val = f.val, g.k \in StructKinds,
           g.exc => i = 1 /\ g.k = "unsets" /\ call.opts.exc
    PROVE  Fits(g, i, call)
BY DEF Fits, StructKinds

LEMMA ValueFits ==
    ASSUME NEW typ, NEW resp, NEW n \in Nat \ {0}, NEW call
    PROVE  LET v == ValueFrame(typ, resp)
           IN  /\ v.k = "value" /\ ~v.busy /\ ~v.exc /\ ~v.comma /\ ~v.root /\ v.val = <<>> /\ v.typ = typ
               /\ Fits(v, n + 1, call)
               /\ \A g : Over(g, v, call)
<1> DEFINE v == ValueFrame(typ, resp)
<1>1. /\ v.k = "value" /\ v.busy = FALSE /\ v.exc = FALSE /\ v.comma = FALSE /\ v.root = FALSE
      /\ v.val = <<>> /\ v.typ = typ
  BY DEF ValueFrame, Frame
<1> HIDE DEF v
<1>2. n + 1 # 1
  OBVIOUS
<1> QED  BY <1>1, <1>2 DEF Fits, Over, StructKinds, v

\* A frame that raises an exception is the only one, and so is its text.
LEMMA RaisedTexts ==
    ASSUME NEW c, Running(c), Texts(c), c.stk # <<>>, Top(c).k = "fields", Top(c).root,
           NEW g, g.exc, ~g.busy, g.k = "unsets", Fits(g, 1, c.call),
           NEW d, d.call = c.call, d.sets = c.sets, IsSeq(d.outs), Len(d.outs) = Len(c.outs),
           IsSeq(Last(d.outs)), IsSeq(d.stk), d.stk # <<>>, d.stk[1] = g,
           \/ Len(d.stk) = 1 /\ OpenIn(Last(d.outs)) = <<>>
           \/ /\ Len(d.stk) = 2 /\ OpenIn(Last(d.outs)) = Append(<<>>, "value")
              /\ d.stk[2].k = "value" /\ ~d.stk[2].busy /\ Fits(d.stk[2], 2, c.call)
    PROVE  Texts(d)
<1>1. /\ IsCall(c) /\ Shape(c) /\ Given(c) /\ Len(c.stk) \in Nat \ {0}
      /\ Top(c) = c.stk[Len(c.stk)] /\ FrameOK(Top(c)) /\ Fits(Top(c), Len(c.stk), c.call)
  BY TopFits
<1>2. Len(c.stk) = 1 /\ ~Top(c).exc /\ ~Top(c).busy
  BY <1>1 DEF Fits, FrameOK
<1>3. PICK seg : Shown(c, seg)
  BY DEF Texts
<1>4. Len(seg) = 1
  <2> DEFINE m == Len(seg)
  <2>1. m \in Nat \ {0}
    BY <1>3, ShownShape
  <2>2. \A j \in 1 .. m : seg[j] \in 0 .. 1
    BY <1>2, <1>3 DEF Shown, Places
  <2>3. seg[m] < 1
    BY <1>2, <1>3, LastPlace
  <2>4. \A j \in 2 .. m : c.stk[seg[j]].busy
    BY <1>3 DEF Shown, Places
  <2>5. seg[1] = 0
    BY <1>1, <1>2, <1>3 DEF Shown, Places, Start
  <2>6. \A i, j \in 1 .. m : i < j => seg[i] < seg[j]
    BY <1>3 DEF Shown, Places
  <2> HIDE DEF m
  <2>7. SUFFICES ASSUME m # 1 PROVE FALSE
    BY DEF m
  <2>8. 1 \in 1 .. m /\ m \in 1 .. m /\ 1 < m
    BY <2>1, <2>7
  <2>9. seg[1] < seg[m]
    BY <2>6, <2>8
  <2> QED  BY <2>2, <2>3, <2>5, <2>8, <2>9
<1>5. Len(d.outs) = 1 /\ Last(d.outs) = d.outs[1]
  <2>1. Len(d.outs) = 1
    BY <1>3, <1>4, ShownShape
  <2>2. d.outs # <<>>
    BY <2>1, SeqShape
  <2> QED  BY <2>1, <2>2, Popped
<1> DEFINE at == <<1>>
<1>6. IsSeq(at) /\ Len(at) = 1 /\ at[1] = 1
  BY TokensAre
<1> HIDE DEF at
<1>7. Start(d.stk) = 1
  BY DEF Start
<1> DEFINE n == Len(d.stk)
<1>8. n \in {1, 2}
  OBVIOUS
<1>15. /\ \A i \in 1 .. n : i = 1 \/ (i = 2 /\ n = 2)
       /\ \A i \in 1 + 1 .. n : i = 2 /\ n = 2
       /\ \A i \in 2 .. n : i = 2 /\ n = 2
       /\ \A i \in 1 .. n - 1 : i = 1
       /\ 1 \in 0 .. n
  <2> HIDE DEF n
  <2> QED  BY <1>8
<1>9. Places(d, at)
  <2>1. \A j \in 1 .. Len(at) : j = 1
    BY <1>6
  <2>2. 1 \in 0 .. Len(d.stk)
    BY <1>15
  <2>3. 2 .. Len(at) = {}
    BY <1>6
  <2> QED  BY <1>5, <1>6, <1>7, <2>1, <2>2, <2>3 DEF Places
<1>10. Within(d.stk, 1, Len(d.stk))
  <2>1. \A i \in 1 + 1 .. Len(d.stk) : i = 2 /\ Len(d.stk) = 2
    BY <1>15
  <2> QED  BY <2>1 DEF Within
<1>11. Reads(OpenIn(d.outs[1]), d.stk, 1, Len(d.stk))
  <2>1. CASE Len(d.stk) = 1
    BY <1>5, <2>1 DEF Reads
  <2>2. CASE Len(d.stk) = 2
    <3>1. Symbols(d.stk, 1, 2 - 1) = <<>>
      <4>1. 2 - 1 = 1
        OBVIOUS
      <4> QED  BY <4>1, SymbolsNone
    <3> QED  BY <1>5, <2>2, <3>1 DEF Reads, Shows, Ready
  <2> QED  BY <1>8, <2>1, <2>2
<1>12. Shown(d, at)
  <2>1. 1 .. Len(at) - 1 = {}
    BY <1>6
  <2>2. Part(d, 1, 1, Len(d.stk), Len(d.stk))
    BY <1>10, <1>11 DEF Part
  <2> QED  BY <1>6, <1>9, <2>1, <2>2 DEF Shown
<1>13. Shape(d)
  <2>1. \A i \in 1 .. Len(d.stk) : i = 1 \/ (i = 2 /\ Len(d.stk) = 2)
    BY <1>15
  <2>2. \A i \in 1 .. Len(d.stk) - 1 : i = 1
    BY <1>15
  <2>3. \A i \in 2 .. Len(d.stk) : i = 2 /\ d.stk[2].k = "value"
    <3>1. Len(d.stk) = 2 => d.stk[2].k = "value"
      OBVIOUS
    <3> QED  BY <1>15, <3>1
  <2>4. \A i \in 1 .. Len(d.stk) : Fits(d.stk[i], i, d.call)
    BY <2>1
  <2>5. \A i \in 1 .. Len(d.stk) - 1 : Covers(d.stk[i])
    BY <2>2 DEF Covers
  <2>6. \A i \in 2 .. Len(d.stk) : Over(d.stk[i - 1], d.stk[i], d.call)
    BY <2>3 DEF Over
  <2> QED  BY <2>4, <2>5, <2>6 DEF Shape
<1>14. Seqs(d) /\ Given(d)
  <2>1. \A j \in 1 .. Len(d.outs) : j = 1
    BY <1>5
  <2> QED  BY <1>1, <1>5, <2>1 DEF Seqs, Given
<1> QED  BY <1>12, <1>13, <1>14 DEF Texts

\* A member of a struct: its comma, its key, and its value, quoted or by a call; the text of an
\* exception is the value alone.
LEMMA MemberTexts ==
    ASSUME NEW c, Running(c), Texts(c), c.stk # <<>>, Top(c).k = "fields", NEW id
    PROVE  Tells(Member(c, Top(c), id))
<1> DEFINE g == Top(c)
           n == Len(c.stk)
           field == Structs[g.s][id]
           exc  == c.call.opts.exc /\ g.root /\ id # 0
           g1   == [g EXCEPT !.comma = TRUE, !.id = 0, !.exc = exc,
                             !.k = IF exc THEN "unsets" ELSE "fields"]
           ts   == CommaIf(g.comma) \o Key(id)
           cut  == [Retop(c, g1) EXCEPT !.outs = Append(Front(@), <<>>)]
           more == Write(Retop(c, g1), ts)
           c1   == IF exc THEN cut ELSE more
           v    == ValueFrame(field.typ, g.root /\ g.resp)
           q    == <<<<"quoted", Ahead(c).n>>>>
           text == IF exc THEN <<>> ELSE Last(c.outs) \o ts
<1>1. /\ IsCall(c) /\ IsSeq(c.stk) /\ IsSeq(c.outs) /\ c.outs # <<>> /\ IsSeq(Last(c.outs))
      /\ n \in Nat \ {0} /\ FrameOK(g) /\ Fits(g, n, c.call) /\ Seqs(c)
  BY TopFits
<1>2. ~g.exc /\ ~g.busy
  BY <1>1 DEF Fits, FrameOK
<1>3. /\ g1.root = g.root /\ g1.exc = exc /\ g1.comma = TRUE /\ g1.typ = g.typ /\ g1.s = g.s
      /\ g1.val = g.val /\ g1.busy = g.busy /\ g1.k = IF exc THEN "unsets" ELSE "fields"
  BY <1>1 DEF FrameOK, IsFrame, FrameKeys
<1>4. exc => n = 1
  BY <1>1 DEF Fits
<1>5. IsSeq(ts)
  <2>1. IsSeq(CommaIf(g.comma)) /\ IsSeq(Key(id))
    BY CommaIs, TokensAre DEF Key
  <2> QED  BY <2>1, Joined
<1>6. IsSeq(text)
  BY <1>1, <1>5, EmptyIsSeq, Joined
<1>7. IsSeq(q)
  BY TokensAre
<1> HIDE DEF g1, n, ts, q, exc
<1>8. Fits(g1, n, c.call)
  <2>1. g1.k \in StructKinds /\ g.k \in StructKinds
    BY <1>3 DEF StructKinds
  <2>2. g1.exc => n = 1 /\ g1.k = "unsets" /\ c.call.opts.exc
    BY <1>3, <1>4 DEF exc
  <2> HIDE DEF g
  <2> QED  BY <1>1, <1>3, <2>1, <2>2, StructFits
<1>9. /\ IsCall(c1) /\ c1.call = c.call /\ c1.sets = c.sets /\ c1.in = c.in /\ c1.ret = c.ret
      /\ c1.stk = Append(Front(c.stk), g1) /\ c1.outs = Append(Front(c.outs), text)
  <2> DEFINE r == Retop(c, g1)
  <2>1. /\ IsCall(r) /\ r.call = c.call /\ r.sets = c.sets /\ r.in = c.in /\ r.ret = c.ret
        /\ r.stk = Append(Front(c.stk), g1) /\ r.outs = c.outs
    BY <1>1, RetopParts
  <2> HIDE DEF r
  <2>2. CASE exc
    <3>1. c1 = [r EXCEPT !.outs = Append(Front(@), <<>>)] /\ text = <<>>
      BY <2>2 DEF r
    <3> HIDE DEF c1, text
    <3> QED  BY <2>1, <3>1 DEF IsCall, CallKeys
  <2>3. CASE ~exc
    <3>1. c1 = Write(r, ts) /\ text = Last(c.outs) \o ts
      BY <2>3 DEF r
    <3> HIDE DEF c1, text
    <3>2. /\ IsCall(c1) /\ c1.call = r.call /\ c1.sets = r.sets /\ c1.in = r.in /\ c1.ret = r.ret
          /\ c1.stk = r.stk /\ c1.outs = Append(Front(r.outs), Last(r.outs) \o ts)
      BY <2>1, <3>1, WriteParts
    <3> QED  BY <2>1, <3>1, <3>2
  <2> QED  BY <2>2, <2>3
<1>10. OutsFrom(c, c1) /\ Last(c1.outs) = text /\ Front(c1.outs) = Front(c.outs)
  <2> HIDE DEF c1, text
  <2> QED  BY <1>6, <1>9, MoreOuts
<1>11. ASSUME ~exc, NEW w, IsSeq(w), Shows(OpenIn(Last(c.outs)), w, g)
       PROVE  OpenIn(text) = Append(Append(w, "object"), "value")
  <2>1. OpenIn(Last(c.outs)) = Append(w, IF g.comma THEN "object" ELSE "object0")
    BY <1>11 DEF Shows, Sym
  <2>2. text = Last(c.outs) \o ts
    BY <1>11
  <2> DEFINE t == Last(c.outs)
             comma == g.comma
  <2>3. IsSeq(t) /\ OpenIn(t) = Append(w, IF comma THEN "object" ELSE "object0")
    BY <1>1, <2>1
  <2> HIDE DEF t, comma
  <2>4. OpenIn(t \o (CommaIf(comma) \o Key(id))) = Append(Append(w, "object"), "value")
    BY <1>11, <2>3, KeyText
  <2> QED  BY <2>2, <2>4 DEF ts, t, comma
<1>12. ASSUME ~exc PROVE Sym(g1) = "object"
  BY <1>3, <1>12 DEF Sym
<1> HIDE DEF c1, text
<1>13. CASE ~(c.call.opts.vm /\ field.vm)
  <2> DEFINE d == Push(c1, v)
  <2>1. Member(c, g, id) = d
    BY <1>13 DEF Member, c1, g1, exc, ts
  <2>2. /\ d.call = c.call /\ d.sets = c.sets /\ d.outs = c1.outs /\ d.ret = c.ret
        /\ d.stk = Append(Append(Front(c.stk), g1), v)
    <3> HIDE DEF v
    <3> QED  BY <1>9, PushParts
  <2>3. /\ v.k = "value" /\ ~v.busy /\ ~v.exc /\ Fits(v, n + 1, c.call) /\ Over(g1, v, c.call)
    BY <1>1, ValueFits
  <2> HIDE DEF d, v
  <2>4. OutsFrom(c, d) /\ Last(d.outs) = text
    BY <1>10, <2>2 DEF OutsFrom
  <2>5. Texts(d)
    <3>1. CASE exc
      <4>1. g1.exc /\ ~g1.busy /\ g1.k = "unsets" /\ g.root
        BY <1>2, <1>3, <3>1 DEF exc
      <4>2. /\ IsSeq(d.stk) /\ d.stk # <<>> /\ Len(d.stk) = 2 /\ d.stk[1] = g1 /\ d.stk[2] = v
        <5> DEFINE s == c.stk
        <5>1. IsSeq(s) /\ s # <<>> /\ Len(s) = 1 /\ d.stk = Append(Append(Front(s), g1), v)
          BY <1>1, <1>4, <2>2, <3>1 DEF n
        <5> HIDE DEF s
        <5> DEFINE t == Append(Append(Front(s), g1), v)
        <5>6. IsSeq(s) /\ s # <<>>
          BY <5>1
        <5>4. Len(t) = Len(s) + 1 /\ t # <<>> /\ t[Len(s)] = g1 /\ t[Len(s) + 1] = v
          BY <5>6, RetopPushed
        <5>5. t = d.stk
          BY <5>1
        <5> HIDE DEF t
        <5>2. Len(d.stk) = 2 /\ d.stk # <<>> /\ d.stk[1] = g1 /\ d.stk[2] = v
          BY <5>1, <5>4, <5>5
        <5>3. IsSeq(Append(Front(s), g1))
          BY <5>1, Retopped
        <5> QED  BY <5>1, <5>2, <5>3, Pushed
      <4>3. OpenIn(Last(d.outs)) = Append(<<>>, "value")
        BY <2>4, <3>1, OpenInNothing DEF text
      <4>4. IsSeq(d.outs) /\ Len(d.outs) = Len(c.outs) /\ IsSeq(Last(d.outs))
        BY <2>4 DEF OutsFrom
      <4>5. Fits(g1, 1, c.call) /\ Fits(v, 2, c.call)
        BY <1>4, <1>8, <2>3, <3>1
      <4> QED  BY <2>2, <2>3, <4>1, <4>2, <4>3, <4>4, <4>5, RaisedTexts
    <3>2. CASE ~exc
      <4>1. \A w : IsSeq(w) /\ Shows(OpenIn(Last(c.outs)), w, g) =>
                     Shows(OpenIn(Last(d.outs)), Append(w, Sym(g1)), v)
        BY <1>11, <1>12, <2>3, <2>4, <3>2 DEF Shows, Ready
      <4>2. g1.k \notin {"value", "http"} /\ ~g1.busy /\ (g1.exc <=> Top(c).exc)
        BY <1>2, <1>3, <3>2
      <4>3. ~Top(c).exc /\ ~Top(c).busy
        BY <1>2
      <4>4. Fits(g1, Len(c.stk), c.call) /\ Fits(v, Len(c.stk) + 1, c.call)
        BY <1>8, <2>3 DEF n
      <4>5. \A w : IsSeq(w) /\ Shows(OpenIn(Last(c.outs)), w, Top(c)) =>
                     Shows(OpenIn(Last(d.outs)), Append(w, Sym(g1)), v)
        BY <4>1
      <4> HIDE DEF g
      <4> QED  BY <2>2, <2>3, <2>4, <4>2, <4>3, <4>4, <4>5, PushedTexts
    <3> QED  BY <3>1, <3>2
  <2>6. d.ret = "none"
    BY <2>2 DEF Running
  <2> QED  BY <2>1, <2>5, <2>6 DEF Tells
<1>14. CASE (c.call.opts.vm /\ field.vm) /\ Ahead(c).t = "val"
  <2> DEFINE u == Write(c1, q)
             d == Advance(u)
  <2>1. Member(c, g, id) = d
    BY <1>14 DEF Member, c1, g1, exc, ts, q
  <2>2. /\ IsCall(u) /\ u.call = c.call /\ u.sets = c.sets /\ u.ret = c.ret
        /\ u.stk = Append(Front(c.stk), g1) /\ u.outs = Append(Front(c.outs), text \o q)
    <3>1. /\ IsCall(u) /\ u.call = c1.call /\ u.sets = c1.sets /\ u.ret = c1.ret
          /\ u.stk = c1.stk /\ u.outs = Append(Front(c1.outs), Last(c1.outs) \o q)
      BY <1>9, WriteParts
    <3> HIDE DEF u
    <3> QED  BY <1>9, <1>10, <3>1
  <2> HIDE DEF u
  <2>3. /\ d.call = c.call /\ d.sets = c.sets /\ d.ret = c.ret
        /\ d.stk = Append(Front(c.stk), g1) /\ d.outs = Append(Front(c.outs), text \o q)
    BY <2>2, AdvanceParts
  <2> HIDE DEF d
  <2>4. IsSeq(text \o q)
    BY <1>6, <1>7, Joined
  <2>5. OutsFrom(c, d) /\ Last(d.outs) = text \o q
    <3> DEFINE long == text \o q
    <3> HIDE DEF long
    <3>1. IsSeq(long) /\ d.outs = Append(Front(c.outs), long)
      BY <2>3, <2>4 DEF long
    <3>2. OutsFrom(c, d) /\ Last(d.outs) = long
      BY <3>1, MoreOuts
    <3> QED  BY <3>2 DEF long
  <2>6. ASSUME NEW w, IsSeq(w), OpenIn(text) = Append(w, "value") PROVE OpenIn(text \o q) = w
    <3>1. Ready(OpenIn(text), w)
      BY <2>6 DEF Ready
    <3> QED  BY <1>6, <2>6, <3>1, ValueText DEF q
  <2>7. Texts(d)
    <3>1. CASE exc
      <4>1. g1.exc /\ ~g1.busy /\ g1.k = "unsets" /\ g.root
        BY <1>2, <1>3, <3>1 DEF exc
      <4>2. IsSeq(d.stk) /\ d.stk # <<>> /\ Len(d.stk) = 1 /\ d.stk[1] = g1
        <5> DEFINE s == c.stk
        <5>1. IsSeq(s) /\ s # <<>> /\ Len(s) = 1 /\ d.stk = Append(Front(s), g1)
          BY <1>1, <1>4, <2>3, <3>1 DEF n
        <5> HIDE DEF s
        <5> QED  BY <5>1, Retopped
      <4>3. OpenIn(Last(d.outs)) = <<>>
        <5>1. OpenIn(text) = Append(<<>>, "value")
          BY <3>1, OpenInNothing DEF text
        <5> QED  BY <2>5, <2>6, <5>1, EmptyIsSeq
      <4>4. IsSeq(d.outs) /\ Len(d.outs) = Len(c.outs) /\ IsSeq(Last(d.outs))
        BY <2>5 DEF OutsFrom
      <4>5. Fits(g1, 1, c.call)
        BY <1>4, <1>8, <3>1
      <4> QED  BY <2>3, <4>1, <4>2, <4>3, <4>4, <4>5, RaisedTexts
    <3>2. CASE ~exc
      <4>1. ASSUME NEW w, IsSeq(w), Shows(OpenIn(Last(c.outs)), w, g)
            PROVE  Shows(OpenIn(Last(d.outs)), w, g1)
        <5>1. OpenIn(text) = Append(Append(w, "object"), "value")
          BY <1>11, <3>2, <4>1
        <5>2. IsSeq(Append(w, "object"))
          BY <4>1, Pushed
        <5>3. OpenIn(Last(d.outs)) = Append(w, "object")
          BY <2>5, <2>6, <5>1, <5>2
        <5> QED  BY <1>3, <1>12, <3>2, <5>3 DEF Shows
      <4>2. g1.k # "http" /\ ~g1.busy /\ (g1.exc <=> Top(c).exc)
        BY <1>2, <1>3, <3>2
      <4>3. ~Top(c).exc /\ ~Top(c).busy
        BY <1>2
      <4>4. Fits(g1, Len(c.stk), c.call)
        BY <1>8 DEF n
      <4>5. \A w : IsSeq(w) /\ Shows(OpenIn(Last(c.outs)), w, Top(c)) =>
                     Shows(OpenIn(Last(d.outs)), w, g1)
        BY <4>1
      <4> HIDE DEF g
      <4> QED  BY <2>3, <2>5, <4>2, <4>3, <4>4, <4>5, RetoppedTexts
    <3> QED  BY <3>1, <3>2
  <2>8. d.ret = "none"
    BY <2>3 DEF Running
  <2> QED  BY <2>1, <2>7, <2>8 DEF Tells
<1>15. CASE (c.call.opts.vm /\ field.vm) /\ Ahead(c).t # "val"
  <2>1. Member(c, g, id) = Return(c, "error")
    BY <1>15 DEF Member
  <2> QED  BY <2>1, Failed
<1> QED  BY <1>13, <1>14, <1>15

\* A member that is missing in the message, written by its default or empty.
LEMMA MissingMemberTexts ==
    ASSUME NEW c, Running(c), Texts(c), c.stk # <<>>, Opened(Top(c)), Top(c).exc => Mixed(c.call), NEW id
    PROVE  Texts(MissingMember(c, Top(c), id)) /\ MissingMember(c, Top(c), id).ret = "none"
<1> DEFINE g == Top(c)
           n == Len(c.stk)
           g1 == [g EXCEPT !.comma = TRUE, !.id = id + 1]
           field == Structs[g.s][id]
           ts == CommaIf(g.comma) \o Key(id) \o EmptyJSON(field)
           r == Retop(c, g1)
           d == Write(r, ts)
           t == Last(c.outs)
<1>1. /\ IsCall(c) /\ c.ret = "none" /\ IsSeq(c.stk) /\ IsSeq(c.outs) /\ c.outs # <<>> /\ IsSeq(t)
      /\ n \in Nat \ {0} /\ FrameOK(g) /\ Fits(g, n, c.call) /\ Seqs(c)
  BY TopFits DEF Running
<1>2. ~g.busy /\ g.k \in StructKinds /\ (g.exc => n = 1 /\ g.k = "unsets" /\ c.call.opts.exc)
  BY <1>1 DEF Fits, FrameOK, Opened, StructKinds
<1>3. /\ g1.root = g.root /\ g1.exc = g.exc /\ g1.comma = TRUE /\ g1.typ = g.typ /\ g1.s = g.s
      /\ g1.val = g.val /\ g1.busy = g.busy /\ g1.k = g.k
  BY <1>1 DEF FrameOK, IsFrame, FrameKeys
<1>4. MissingMember(c, g, id) = d
  BY DEF MissingMember
<1> HIDE DEF g1, n, t
<1>5. Fits(g1, n, c.call)
  <2> HIDE DEF g
  <2> QED  BY <1>1, <1>2, <1>3, StructFits
<1>6. /\ IsCall(r) /\ r.call = c.call /\ r.sets = c.sets /\ r.ret = c.ret /\ r.outs = c.outs
      /\ r.stk = Append(Front(c.stk), g1)
  BY <1>1, RetopParts
<1> HIDE DEF r, ts
<1>7. /\ d.call = c.call /\ d.sets = c.sets /\ d.ret = c.ret
      /\ d.stk = Append(Front(c.stk), g1) /\ d.outs = Append(Front(c.outs), t \o ts)
  <2>1. /\ d.call = r.call /\ d.sets = r.sets /\ d.ret = r.ret /\ d.stk = r.stk
        /\ d.outs = Append(Front(r.outs), Last(r.outs) \o ts)
    BY <1>6, WriteParts
  <2> HIDE DEF d
  <2> QED  BY <1>6, <2>1 DEF t
<1> HIDE DEF d
<1>8. IsSeq(ts)
  <2>1. IsSeq(CommaIf(g.comma)) /\ IsSeq(Key(id))
    BY CommaIs, TokensAre DEF Key
  <2>2. IsSeq(EmptyJSON(field))
    <3>1. OpenIn(<<>>) = Append(<<>>, "value")
      BY OpenInNothing
    <3> QED  BY <3>1, EmptyIsSeq, EmptyText
  <2> DEFINE a == CommaIf(g.comma)
             b == Key(id)
             e == EmptyJSON(field)
  <2> HIDE DEF a, b, e
  <2>3. IsSeq(a \o b)
    BY <2>1, Joined DEF a, b
  <2>4. IsSeq((a \o b) \o e)
    BY <2>2, <2>3, Joined DEF e
  <2> QED  BY <2>4 DEF ts, a, b, e
<1>9. OutsFrom(c, d) /\ Last(d.outs) = t \o ts
  <2> DEFINE long == t \o ts
  <2>1. IsSeq(long)
    BY <1>1, <1>8, Joined
  <2> HIDE DEF long
  <2>2. d.outs = Append(Front(c.outs), long)
    BY <1>7 DEF long
  <2>3. OutsFrom(c, d) /\ Last(d.outs) = long
    BY <2>1, <2>2, MoreOuts
  <2> QED  BY <2>3 DEF long
<1>10. ASSUME NEW w, IsSeq(w), Shows(OpenIn(Last(c.outs)), w, Top(c))
       PROVE  Shows(OpenIn(Last(d.outs)), w, g1)
  <2> DEFINE comma == g.comma
  <2>1. OpenIn(t) = Append(w, IF comma THEN "object" ELSE "object0")
    BY <1>2, <1>10 DEF Shows, Sym, StructKinds, t
  <2> HIDE DEF comma, field
  <2>2. OpenIn(t \o (CommaIf(comma) \o Key(id) \o EmptyJSON(field))) = Append(w, "object")
    BY <1>1, <1>10, <2>1, MissingText
  <2>3. OpenIn(Last(d.outs)) = Append(w, "object")
    BY <1>9, <2>2 DEF ts, comma
  <2> QED  BY <1>2, <1>3, <2>3 DEF Shows, Sym, StructKinds
<1>11. Texts(d)
  <2>1. ~Top(c).busy /\ ~g1.busy /\ (g1.exc <=> Top(c).exc) /\ Fits(g1, Len(c.stk), c.call)
        /\ g1.k # "http"
    BY <1>2, <1>3, <1>5 DEF n, StructKinds
  <2> HIDE DEF g
  <2> QED  BY <1>7, <1>9, <1>10, <2>1, RetoppedTexts
<1> QED  BY <1>1, <1>4, <1>7, <1>11

\* The marks of a missing field move on, whatever it was given.
LEMMA PassedTexts ==
    ASSUME NEW c, Running(c), Texts(c), c.stk # <<>>, Opened(Top(c)), Top(c).exc => Mixed(c.call), NEW id
    PROVE  LET d == Retop(c, [Top(c) EXCEPT !.id = id]) IN Texts(d) /\ d.ret = "none"
<1> DEFINE g == Top(c)
           g1 == [g EXCEPT !.id = id]
           d == Retop(c, g1)
<1>1. /\ IsCall(c) /\ c.ret = "none" /\ FrameOK(g) /\ Fits(g, Len(c.stk), c.call) /\ Seqs(c)
  BY TopFits DEF Running
<1>2. ~g.busy /\ g.k \in StructKinds
  BY <1>1 DEF FrameOK, Opened, StructKinds
<1>3. /\ g1.root = g.root /\ g1.exc = g.exc /\ g1.comma = g.comma /\ g1.typ = g.typ /\ g1.s = g.s
      /\ g1.val = g.val /\ g1.busy = g.busy /\ g1.k = g.k
  BY <1>1 DEF FrameOK, IsFrame, FrameKeys
<1> HIDE DEF g1
<1>4. Fits(g1, Len(c.stk), c.call)
  BY <1>1, <1>3 DEF Fits
<1>5. /\ d.call = c.call /\ d.sets = c.sets /\ d.ret = c.ret /\ d.outs = c.outs
      /\ d.stk = Append(Front(c.stk), g1)
  BY <1>1, RetopParts
<1> HIDE DEF d
<1>6. OutsFrom(c, d) /\ Last(d.outs) = Last(c.outs)
  BY <1>1, <1>5, SameOuts
<1>7. \A w : IsSeq(w) /\ Shows(OpenIn(Last(c.outs)), w, Top(c)) => Shows(OpenIn(Last(d.outs)), w, g1)
  BY <1>3, <1>6 DEF Shows, Sym
<1>8. Texts(d)
  <2>1. ~Top(c).busy /\ ~g1.busy /\ (g1.exc <=> Top(c).exc) /\ g1.k # "http"
    BY <1>2, <1>3 DEF StructKinds
  <2> HIDE DEF g
  <2> QED  BY <1>4, <1>5, <1>6, <1>7, <2>1, RetoppedTexts
<1> QED  BY <1>1, <1>5, <1>8 DEF d, g1

LEMMA SkipFieldTexts ==
    ASSUME NEW c, Running(c), Texts(c), NEW kind
    PROVE  Tells(SkipField(c, kind))
<1> DEFINE at == SkipType(Reader(c).buf, kind, Reader(c).at)
           d == MoveTo(c, at)
<1>1. IsCall(c) /\ c.ret = "none" /\ Given(c)
  BY DEF Running, Texts
<1>2. d.call = c.call /\ d.sets = c.sets /\ d.outs = c.outs /\ d.stk = c.stk /\ d.ret = c.ret
  <2> HIDE DEF at
  <2> QED  BY <1>1, MoveParts
<1>3. SkipField(c, kind) \in {d, Return(c, "error")}
  BY DEF SkipField
<1> HIDE DEF d
<1>4. Tells(d)
  <2>1. Given(d)
    BY <1>1, <1>2 DEF Given
  <2>2. Texts(d)
    BY <1>2, <2>1, SameTexts
  <2> QED  BY <1>1, <1>2, <2>2 DEF Tells
<1>5. Tells(Return(c, "error"))
  BY Failed
<1> QED  BY <1>3, <1>4, <1>5

\* The mappings of a field are through: back to its struct.
LEMMA HttpDoneTexts ==
    ASSUME NEW c, Running(c), Texts(c), c.stk # <<>>, Top(c).k = "http", ~Top(c).busy, NEW ok
    PROVE  Tells(HttpDone(c, Top(c), ok))
<1> DEFINE f == Top(c)
           n == Len(c.stk)
           d == IF f.unset THEN [Pop(c) EXCEPT !.in = Front(@)] ELSE Pop(c)
<1>1. /\ IsCall(c) /\ c.ret = "none" /\ Shape(c) /\ Given(c) /\ Seqs(c) /\ IsSeq(c.stk)
      /\ n \in Nat \ {0} /\ f = c.stk[n] /\ FrameOK(f) /\ Fits(f, n, c.call) /\ StackOK(c.stk)
  BY TopFits DEF Running
<1>2. ~f.exc /\ f.unset \in BOOLEAN
  BY <1>1 DEF Fits, FrameOK
<1>3. Front(c.stk) # <<>> /\ Opened(Last(Front(c.stk)))
  BY <1>1, BelowHttp
<1>4. Last(Front(c.stk)) = c.stk[n - 1] /\ n \in 2 .. n
  <2> DEFINE s == Front(c.stk)
  <2>1. IsSeq(s) /\ Len(s) = n - 1 /\ \A i \in 1 .. n - 1 : s[i] = c.stk[i]
    BY <1>1, Popped
  <2> HIDE DEF s, n
  <2>2. Last(s) = s[n - 1] /\ n - 1 \in Nat \ {0}
    BY <1>3, <2>1, Popped DEF s
  <2>3. n - 1 \in 1 .. n - 1 /\ n \in 2 .. n
    <3>1. n \in Nat /\ n - 1 \in Nat \ {0}
      BY <1>1, <2>2 DEF n
    <3> QED  BY <3>1
  <2> QED  BY <2>1, <2>2, <2>3 DEF s
<1>5. Over(Last(Front(c.stk)), f, c.call)
  <2> HIDE DEF n
  <2> QED  BY <1>1, <1>4 DEF Shape, n
<1>6. /\ d.call = c.call /\ d.sets = c.sets /\ d.outs = c.outs /\ d.stk = Front(c.stk) /\ d.ret = "none"
  <2> DEFINE p == Pop(c)
  <2>1. /\ IsCall(p) /\ p.call = c.call /\ p.sets = c.sets /\ p.outs = c.outs /\ p.stk = Front(c.stk)
        /\ p.ret = c.ret
    BY <1>1, PopParts
  <2>2. d = p \/ d = [p EXCEPT !.in = Front(@)]
    OBVIOUS
  <2> HIDE DEF p, d
  <2> QED  BY <1>1, <2>1, <2>2 DEF IsCall, CallKeys
<1>7. Running(d)
  <2>1. CASE f.unset
    BY <2>1, UnsetPopOK
  <2>2. CASE ~f.unset
    BY <2>2, PopOK
  <2> QED  BY <2>1, <2>2
<1>8. HttpDone(c, f, ok) = IF f.unset THEN MappedMissing(d, f, ok) ELSE Mapped(d, f, ok)
  BY DEF HttpDone
<1> HIDE DEF d, n
<1>9. Texts(d)
  <2>1. OutsFrom(c, d) /\ Last(d.outs) = Last(c.outs)
    BY <1>1, <1>6, SameOuts
  <2>2. \A w : IsSeq(w) /\ Shows(OpenIn(Last(c.outs)), w, Top(c)) => OpenIn(Last(d.outs)) = w
    BY <2>1 DEF Shows
  <2>3. ~Top(c).exc
    BY <1>2
  <2> HIDE DEF f
  <2> QED  BY <1>6, <2>1, <2>2, <2>3, PoppedTexts
<1>10. Top(d) = Last(Front(c.stk)) /\ d.stk # <<>> /\ Opened(Top(d))
  BY <1>3, <1>6 DEF Top
<1>11. /\ Top(d).exc => Mixed(d.call)
       /\ ~f.unset => Top(d).k = "fields"
  BY <1>5, <1>6, <1>10 DEF Over
<1> HIDE DEF f
<1>12. CASE f.unset
  <2> DEFINE e == Retop(d, [Top(d) EXCEPT !.id = f.id + 1])
  <2>1. Texts(e) /\ e.ret = "none"
    BY <1>7, <1>9, <1>10, <1>11, PassedTexts
  <2>2. Texts(MissingMember(d, Top(d), f.id)) /\ MissingMember(d, Top(d), f.id).ret = "none"
    BY <1>7, <1>9, <1>10, <1>11, MissingMemberTexts
  <2>3. MappedMissing(d, f, ok) \in {e, MissingMember(d, Top(d), f.id)}
    BY DEF MappedMissing
  <2> HIDE DEF e
  <2> QED  BY <1>8, <1>12, <2>1, <2>2, <2>3 DEF Tells, f
<1>13. CASE ~f.unset
  <2> DEFINE e == MoveTo(d, f.from)
  <2>1. Tells(d)
    BY <1>6, <1>9 DEF Tells
  <2>2. Running(e)
    <3>1. /\ Len(c.stk) > 0 /\ Reader(c) = c.in[Len(c.in)]
      BY RunningShape
    <3>2. f.from \in 1 .. Len(Reader(c).buf) + 1
      <4>1. c.in[1 + UnsetTo(c.stk, Len(c.stk))] = Reader(c)
        BY <3>1 DEF Running, ReadersOK
      <4>2. f.k = "http"
        BY DEF f
      <4>3. Len(c.stk) \in 1 .. Len(c.stk) /\ c.stk[Len(c.stk)] = f
        BY <1>1 DEF n
      <4> QED  BY <1>13, <4>1, <4>2, <4>3 DEF Running, BackOK
    <3>3. Reader(d) = Reader(c)
      <4>1. d = Pop(c)
        BY <1>13 DEF d
      <4>2. d.in = c.in
        BY <1>1, <4>1, PopParts
      <4> QED  BY <4>2 DEF Reader
    <3> QED  BY <1>7, <3>2, <3>3, MoveOK
  <2>3. e.call = d.call /\ e.sets = d.sets /\ e.outs = d.outs /\ e.stk = d.stk /\ e.ret = d.ret
    BY <1>7, MoveParts DEF Running
  <2>4. Mapped(d, f, ok) \in {d, Member(e, Top(d), f.id)}
    BY DEF Mapped
  <2> HIDE DEF e
  <2>5. Texts(e) /\ e.stk # <<>> /\ Top(e) = Top(d)
    <3>1. Given(e)
      BY <1>9, <2>3 DEF Given, Texts
    <3> QED  BY <1>9, <1>10, <2>3, <3>1, SameTexts DEF Top
  <2>6. Tells(Member(e, Top(d), f.id))
    BY <1>11, <1>13, <2>2, <2>5, MemberTexts
  <2> QED  BY <1>8, <1>13, <2>1, <2>4, <2>6 DEF f
<1> QED  BY <1>12, <1>13

-----------------------------------------------------------------------------
(***************************************************************************)
(* The steps.                                                              *)
(***************************************************************************)
WInv == \A p \in Procs : Tells(st[p])

LEMMA TextStep ==
    ASSUME IInv, WInv, NEW self \in Procs, NEW d, Tells(d), Go(self, d)
    PROVE  WInv'
<1>1. DOMAIN st = Procs
  BY DEF IInv
<1>2. \A q \in Procs : st'[q] = IF q = self THEN d ELSE st[q]
  BY <1>1 DEF Go
<1>3. \A q \in Procs : Tells(st'[q])
  BY <1>2 DEF WInv
<1> QED  BY <1>3 DEF WInv, Tells, Texts, Says, Shape, Given, Seqs, Shown, Places, Part, Fits, Over

\* What a step of a call begins with.
LEMMA AtTexts ==
    ASSUME IInv, WInv, NEW self \in Procs, NEW k, At(self, k)
    PROVE  LET c == st[self]
           IN  /\ Running(c) /\ Texts(c) /\ c.stk # <<>> /\ Top(c).k = k
               /\ IsCall(c) /\ c.ret = "none" /\ Given(c) /\ Seqs(c) /\ IsSeq(c.stk)
               /\ IsSeq(c.outs) /\ c.outs # <<>> /\ IsSeq(Last(c.outs))
               /\ Len(c.stk) \in Nat \ {0} /\ FrameOK(Top(c)) /\ Fits(Top(c), Len(c.stk), c.call)
<1> DEFINE c == st[self]
<1>1. Running(c) /\ c.stk # <<>> /\ Top(c).k = k /\ c.ret = "none"
  BY AtIs, RunningShape
<1>2. Texts(c)
  BY <1>1 DEF WInv, Tells
<1> HIDE DEF c
<1>3. /\ IsCall(c) /\ Given(c) /\ Seqs(c) /\ IsSeq(c.stk) /\ IsSeq(c.outs) /\ c.outs # <<>>
      /\ IsSeq(Last(c.outs)) /\ Len(c.stk) \in Nat \ {0} /\ FrameOK(Top(c))
      /\ Fits(Top(c), Len(c.stk), c.call)
  BY <1>1, <1>2, TopFits
<1> QED  BY <1>1, <1>2, <1>3 DEF c

\* More in the last text.
LEMMA MoreText ==
    ASSUME NEW c, Running(c), Texts(c), c.stk # <<>>, NEW ts, IsSeq(ts),
           NEW d, d.outs = Append(Front(c.outs), Last(c.outs) \o ts)
    PROVE  OutsFrom(c, d) /\ Last(d.outs) = Last(c.outs) \o ts
<1> DEFINE long == Last(c.outs) \o ts
<1>1. IsSeq(long)
  BY TopFits, Joined
<1>2. d.outs = Append(Front(c.outs), long)
  OBVIOUS
<1> HIDE DEF long
<1>3. OutsFrom(c, d) /\ Last(d.outs) = long
  BY <1>1, <1>2, MoreOuts
<1> QED  BY <1>3 DEF long

LEMMA ReadScalarTexts ==
    ASSUME IInv, WInv, NEW self \in Procs, ReadScalar(self)
    PROVE  WInv'
<1> DEFINE c == st[self]
           n == Ahead(c).n
           p == Pop(c)
           a == Advance(p)
           e == Write(a, Lit(n))
           d == IF Ahead(c).t = "val" THEN e ELSE Return(c, "error")
<1>1. At(self, "value") /\ Go(self, d)
  BY DEF ReadScalar
<1>2. /\ Running(c) /\ Texts(c) /\ c.stk # <<>> /\ Top(c).k = "value" /\ IsCall(c) /\ c.ret = "none"
      /\ FrameOK(Top(c)) /\ Fits(Top(c), Len(c.stk), c.call) /\ IsSeq(Last(c.outs))
  BY <1>1, AtTexts
<1>3. ~Top(c).busy /\ ~Top(c).exc
  BY <1>2 DEF FrameOK, Fits
<1> HIDE DEF c, n
<1>4. /\ IsCall(p) /\ p.call = c.call /\ p.sets = c.sets /\ p.outs = c.outs /\ p.stk = Front(c.stk)
      /\ p.ret = c.ret
  BY <1>2, PopParts
<1> HIDE DEF p
<1>5. /\ IsCall(a) /\ a.call = p.call /\ a.sets = p.sets /\ a.outs = p.outs /\ a.stk = p.stk
      /\ a.ret = p.ret
  BY <1>4, AdvanceParts
<1> HIDE DEF a
<1>6. /\ e.call = a.call /\ e.sets = a.sets /\ e.stk = a.stk /\ e.ret = a.ret
      /\ e.outs = Append(Front(a.outs), Last(a.outs) \o Lit(n))
  BY <1>5, WriteParts
<1> HIDE DEF e
<1>7. Tells(e)
  <2>1. IsSeq(Lit(n))
    BY TokensAre DEF Lit
  <2>2. OutsFrom(c, e) /\ Last(e.outs) = Last(c.outs) \o Lit(n)
    BY <1>2, <1>4, <1>5, <1>6, <2>1, MoreText
  <2>3. ASSUME NEW w, IsSeq(w), Shows(OpenIn(Last(c.outs)), w, Top(c)) PROVE OpenIn(Last(e.outs)) = w
    <3>1. Ready(OpenIn(Last(c.outs)), w)
      BY <1>2, <2>3 DEF Shows
    <3> DEFINE t == Last(c.outs)
    <3>2. IsSeq(t) /\ Ready(OpenIn(t), w)
      BY <1>2, <3>1
    <3> HIDE DEF t
    <3>3. OpenIn(t \o Lit(n)) = w
      BY <2>3, <3>2, ValueText
    <3> QED  BY <2>2, <3>3 DEF t
  <2>4. e.call = c.call /\ e.sets = c.sets /\ e.stk = Front(c.stk) /\ e.ret = "none"
    BY <1>2, <1>4, <1>5, <1>6
  <2>5. Texts(e)
    BY <1>2, <1>3, <2>2, <2>3, <2>4, PoppedTexts
  <2> QED  BY <2>4, <2>5 DEF Tells
<1>8. Tells(Return(c, "error"))
  BY <1>2, Failed
<1>9. Tells(d)
  BY <1>7, <1>8
<1> HIDE DEF d
<1> QED  BY <1>1, <1>9, TextStep

LEMMA OpenElemsTexts ==
    ASSUME IInv, WInv, NEW self \in Procs, OpenElems(self)
    PROVE  WInv'
<1> DEFINE c == st[self]
           typ == Top(c).typ
           fits == /\ Ahead(c).t = Kind(typ)
                   /\ Ahead(c).et = Kind(Types[typ].e)
                   /\ Kind(typ) = "map" => Ahead(c).kt = Kind(Types[typ].key)
           g == [Frame EXCEPT !.k = "elems", !.typ = typ, !.left = Ahead(c).n]
           ts == Opening(typ)
           a == Advance(c)
           r == Retop(a, g)
           e == Write(r, ts)
           d == IF fits THEN e ELSE Return(c, "error")
<1>1. At(self, "value") /\ Kind(typ) \in {"list", "map"} /\ Go(self, d)
  BY DEF OpenElems
<1>2. /\ Running(c) /\ Texts(c) /\ c.stk # <<>> /\ Top(c).k = "value" /\ IsCall(c) /\ c.ret = "none"
      /\ FrameOK(Top(c)) /\ Fits(Top(c), Len(c.stk), c.call) /\ IsSeq(Last(c.outs))
  BY <1>1, AtTexts
<1>3. ~Top(c).busy /\ ~Top(c).exc
  BY <1>2 DEF FrameOK, Fits
<1>4. /\ g.k = "elems" /\ g.typ = typ /\ g.busy = FALSE /\ g.exc = FALSE /\ g.root = FALSE
      /\ g.comma = FALSE /\ g.val = <<>>
  BY DEF Frame
<1> HIDE DEF c, g, ts, fits
<1>5. Fits(g, Len(c.stk), c.call)
  BY <1>2, <1>4 DEF Fits, StructKinds
<1>6. /\ IsCall(a) /\ a.call = c.call /\ a.sets = c.sets /\ a.outs = c.outs /\ a.stk = c.stk
      /\ a.ret = c.ret
  BY <1>2, AdvanceParts
<1> HIDE DEF a
<1>7. /\ IsCall(r) /\ r.call = a.call /\ r.sets = a.sets /\ r.outs = a.outs /\ r.ret = a.ret
      /\ r.stk = Append(Front(a.stk), g)
  BY <1>6, RetopParts
<1> HIDE DEF r
<1>8. /\ e.call = r.call /\ e.sets = r.sets /\ e.stk = r.stk /\ e.ret = r.ret
      /\ e.outs = Append(Front(r.outs), Last(r.outs) \o ts)
  BY <1>7, WriteParts
<1> HIDE DEF e
<1>9. Tells(e)
  <2>1. IsSeq(ts)
    BY TokensAre DEF ts, Opening
  <2>2. OutsFrom(c, e) /\ Last(e.outs) = Last(c.outs) \o ts
    BY <1>2, <1>6, <1>7, <1>8, <2>1, MoreText
  <2>3. ASSUME NEW w, IsSeq(w), Shows(OpenIn(Last(c.outs)), w, Top(c))
        PROVE  Shows(OpenIn(Last(e.outs)), w, g)
    <3>1. Ready(OpenIn(Last(c.outs)), w)
      BY <1>2, <2>3 DEF Shows
    <3>2. /\ OpenIn(Last(c.outs) \o <<<<"arr">>>>) = Append(w, "array0")
          /\ OpenIn(Last(c.outs) \o <<<<"obj">>>>) = Append(w, "object0")
      BY <1>2, <2>3, <3>1, ValueText
    <3> QED  BY <1>1, <1>4, <2>2, <3>2 DEF Shows, Sym, ts, Opening
  <2>4. e.call = c.call /\ e.sets = c.sets /\ e.stk = Append(Front(c.stk), g) /\ e.ret = "none"
    BY <1>2, <1>6, <1>7, <1>8
  <2>5. Texts(e)
    <3>1. ~g.busy /\ (g.exc <=> Top(c).exc) /\ g.k # "http"
      BY <1>3, <1>4
    <3> QED  BY <1>2, <1>3, <1>5, <2>2, <2>3, <2>4, <3>1, RetoppedTexts
  <2> QED  BY <2>4, <2>5 DEF Tells
<1>10. Tells(Return(c, "error"))
  BY <1>2, Failed
<1>11. Tells(d)
  BY <1>9, <1>10
<1> HIDE DEF d
<1> QED  BY <1>1, <1>11, TextStep

LEMMA ElementTexts ==
    ASSUME IInv, WInv, NEW self \in Procs, Element(self)
    PROVE  WInv'
<1> DEFINE c == st[self]
           f == Top(c)
           n == Len(c.stk)
           t == Last(c.outs)
           g == [f EXCEPT !.left = @ - 1, !.comma = TRUE]
           v == ValueFrame(Types[f.typ].e, FALSE)
           end == Write(Pop(c), Closing(f.typ))
           u == Push(Retop(c, g), v)
           next == Write(u, CommaIf(f.comma))
           keyOk == Ahead(c).t = "val" /\ Kind(Types[f.typ].key) \in {"int", "str"}
           id == Ahead(c).n
           a == Advance(next)
           e == Write(a, Key(id))
           d == IF f.left = 0 THEN end
                ELSE IF Kind(f.typ) = "list" THEN next
                ELSE IF keyOk THEN e ELSE Return(c, "error")
<1>1. At(self, "elems") /\ Go(self, d)
  BY DEF Element
<1>2. /\ Running(c) /\ Texts(c) /\ c.stk # <<>> /\ f.k = "elems" /\ IsCall(c) /\ c.ret = "none"
      /\ FrameOK(f) /\ Fits(f, n, c.call) /\ IsSeq(t) /\ n \in Nat \ {0}
  BY <1>1, AtTexts
<1>3. ~f.busy /\ ~f.exc /\ Kind(f.typ) \in {"list", "map"}
  BY <1>2 DEF FrameOK, Fits
<1>4. /\ g.k = "elems" /\ g.typ = f.typ /\ g.busy = f.busy /\ g.exc = f.exc /\ g.root = f.root
      /\ g.comma = TRUE /\ g.val = f.val
  BY <1>2 DEF FrameOK, IsFrame, FrameKeys
<1> HIDE DEF c, g, keyOk, id, t, n
<1>5. Fits(g, n, c.call)
  BY <1>2, <1>3, <1>4 DEF Fits, StructKinds
<1>6. /\ v.k = "value" /\ ~v.busy /\ ~v.exc /\ Fits(v, n + 1, c.call) /\ Over(g, v, c.call)
  BY <1>2, ValueFits, ZenonT(60)
<1> HIDE DEF v
<1>7. Tells(end)
  <2> DEFINE ts == Closing(f.typ)
             p == Pop(c)
  <2>1. /\ IsCall(p) /\ p.call = c.call /\ p.sets = c.sets /\ p.outs = c.outs /\ p.stk = Front(c.stk)
        /\ p.ret = c.ret
    BY <1>2, PopParts
  <2> HIDE DEF p, ts
  <2>2. /\ end.call = p.call /\ end.sets = p.sets /\ end.stk = p.stk /\ end.ret = p.ret
        /\ end.outs = Append(Front(p.outs), Last(p.outs) \o ts)
    <3>1. end = Write(p, ts)
      BY DEF p, ts
    <3> HIDE DEF end
    <3> QED  BY <2>1, <3>1, WriteParts
  <2> HIDE DEF end
  <2>3. IsSeq(ts)
    BY TokensAre DEF ts, Closing
  <2>4. OutsFrom(c, end) /\ Last(end.outs) = t \o ts
    BY <1>2, <2>1, <2>2, <2>3, MoreText DEF t
  <2>5. ASSUME NEW w, IsSeq(w), Shows(OpenIn(Last(c.outs)), w, Top(c)) PROVE OpenIn(Last(end.outs)) = w
    <3>1. OpenIn(t) = Append(w, Sym(f))
      BY <1>2, <2>5 DEF Shows, t
    <3>2. /\ Kind(f.typ) = "list" => Sym(f) \in {"array", "array0"} /\ ts = <<<<"endarr">>>>
          /\ Kind(f.typ) # "list" => Sym(f) \in {"object", "object0"} /\ ts = <<<<"endobj">>>>
      BY <1>2 DEF Sym, ts, Closing
    <3> DEFINE in == Sym(f)
    <3> HIDE DEF in
    <3>3. /\ in \in {"array", "array0"} => OpenIn(t \o <<<<"endarr">>>>) = w
          /\ in \in {"object", "object0"} => OpenIn(t \o <<<<"endobj">>>>) = w
      BY <1>2, <2>5, <3>1, EndText DEF in
    <3> QED  BY <2>4, <3>2, <3>3 DEF in
  <2>6. end.call = c.call /\ end.sets = c.sets /\ end.stk = Front(c.stk) /\ end.ret = "none"
    BY <1>2, <2>1, <2>2
  <2>7. Texts(end)
    BY <1>2, <1>3, <2>4, <2>5, <2>6, PoppedTexts
  <2> QED  BY <2>6, <2>7 DEF Tells
<1>8. /\ IsCall(u) /\ u.call = c.call /\ u.sets = c.sets /\ u.outs = c.outs /\ u.ret = c.ret
      /\ u.stk = Append(Append(Front(c.stk), g), v)
  <2> DEFINE r == Retop(c, g)
  <2>1. /\ IsCall(r) /\ r.call = c.call /\ r.sets = c.sets /\ r.outs = c.outs /\ r.ret = c.ret
        /\ r.stk = Append(Front(c.stk), g)
    BY <1>2, RetopParts
  <2> HIDE DEF r
  <2>2. /\ IsCall(u) /\ u.call = r.call /\ u.sets = r.sets /\ u.outs = r.outs /\ u.ret = r.ret
        /\ u.stk = Append(r.stk, v)
    BY <2>1, PushParts DEF r
  <2> HIDE DEF u
  <2> QED  BY <2>1, <2>2
<1> HIDE DEF u
<1>9. /\ IsCall(next) /\ next.call = c.call /\ next.sets = c.sets /\ next.ret = c.ret /\ next.stk = u.stk
      /\ next.outs = Append(Front(c.outs), t \o CommaIf(f.comma))
  <2> DEFINE ts == CommaIf(f.comma)
  <2> HIDE DEF ts
  <2>1. /\ IsCall(next) /\ next.call = u.call /\ next.sets = u.sets /\ next.ret = u.ret /\ next.stk = u.stk
        /\ next.outs = Append(Front(u.outs), Last(u.outs) \o ts)
    <3>1. next = Write(u, ts)
      BY DEF ts
    <3> HIDE DEF next
    <3> QED  BY <1>8, <3>1, WriteParts
  <2> HIDE DEF next
  <2> QED  BY <1>8, <2>1 DEF t, ts
<1> HIDE DEF next, f
<1>10. IsSeq(CommaIf(f.comma)) /\ IsSeq(Key(id))
  BY CommaIs, TokensAre DEF Key
<1>11. OutsFrom(c, next) /\ Last(next.outs) = t \o CommaIf(f.comma) /\ IsSeq(Last(next.outs))
       /\ Front(next.outs) = Front(c.outs)
  <2> DEFINE ts == CommaIf(f.comma)
             long == t \o ts
  <2>1. IsSeq(long)
    BY <1>2, <1>10, Joined
  <2>2. next.outs = Append(Front(c.outs), long)
    BY <1>9
  <2> HIDE DEF ts, long
  <2>3. OutsFrom(c, next) /\ Last(next.outs) = long /\ Front(next.outs) = Front(c.outs)
    BY <1>2, <2>1, <2>2, MoreOuts
  <2> QED  BY <2>1, <2>3 DEF long, ts
<1>12. f = Top(c) /\ ~g.busy /\ (g.exc <=> Top(c).exc) /\ g.k \notin {"value", "http"}
  BY <1>3, <1>4 DEF f
<1>13. ASSUME Kind(f.typ) = "list" PROVE Tells(next)
  <2>1. ASSUME NEW w, IsSeq(w), Shows(OpenIn(Last(c.outs)), w, Top(c))
        PROVE  Shows(OpenIn(Last(next.outs)), Append(w, Sym(g)), v)
    <3> DEFINE comma == f.comma
    <3>1. OpenIn(t) = Append(w, IF comma THEN "array" ELSE "array0")
      BY <1>2, <1>12, <1>13, <2>1 DEF Shows, Sym, t
    <3> HIDE DEF comma
    <3>2. Ready(OpenIn(t \o CommaIf(comma)), Append(w, "array"))
      BY <1>2, <2>1, <3>1, ElementText
    <3>3. Sym(g) = "array"
      BY <1>4, <1>13 DEF Sym
    <3> QED  BY <1>6, <1>11, <3>2, <3>3 DEF Shows, comma
  <2>2. next.call = c.call /\ next.sets = c.sets /\ next.stk = Append(Append(Front(c.stk), g), v)
        /\ next.ret = "none"
    BY <1>2, <1>8, <1>9
  <2>3. Texts(next)
    BY <1>2, <1>3, <1>5, <1>6, <1>11, <1>12, <2>1, <2>2, PushedTexts DEF n
  <2> QED  BY <2>2, <2>3 DEF Tells
<1>14. ASSUME Kind(f.typ) = "map" PROVE Tells(e)
  <2> DEFINE comma == f.comma
             t1 == t \o CommaIf(comma)
             ts == Key(id)
             long == t1 \o ts
  <2>1. /\ IsCall(a) /\ a.call = next.call /\ a.sets = next.sets /\ a.outs = next.outs /\ a.stk = next.stk
        /\ a.ret = next.ret
    BY <1>9, AdvanceParts
  <2> HIDE DEF a, comma, t1, ts, long
  <2>2. /\ e.call = a.call /\ e.sets = a.sets /\ e.stk = a.stk /\ e.ret = a.ret
        /\ e.outs = Append(Front(a.outs), Last(a.outs) \o ts)
    <3>1. e = Write(a, ts)
      BY DEF ts
    <3> HIDE DEF e
    <3> QED  BY <2>1, <3>1, WriteParts
  <2> HIDE DEF e
  <2>3. IsSeq(long)
    BY <1>10, <1>11, Joined DEF long, ts, t1, comma
  <2>4. e.outs = Append(Front(c.outs), long)
    BY <1>11, <2>1, <2>2 DEF long, t1, comma
  <2>5. OutsFrom(c, e) /\ Last(e.outs) = long
    BY <1>2, <2>3, <2>4, MoreOuts
  <2>6. ASSUME NEW w, IsSeq(w), Shows(OpenIn(Last(c.outs)), w, Top(c))
        PROVE  Shows(OpenIn(Last(e.outs)), Append(w, Sym(g)), v)
    <3>1. OpenIn(t) = Append(w, IF comma THEN "object" ELSE "object0")
      BY <1>2, <1>12, <1>14, <2>6 DEF Shows, Sym, t, comma
    <3>2. /\ (t \o CommaIf(comma)) \o Key(id) = t \o (CommaIf(comma) \o Key(id))
          /\ OpenIn(t \o (CommaIf(comma) \o Key(id))) = Append(Append(w, "object"), "value")
      BY <1>2, <2>6, <3>1, KeyText
    <3>3. OpenIn(Last(e.outs)) = Append(Append(w, "object"), "value")
      BY <2>5, <3>2 DEF long, t1, ts
    <3>4. Sym(g) = "object"
      BY <1>4, <1>14 DEF Sym
    <3> QED  BY <1>6, <3>3, <3>4 DEF Shows, Ready
  <2>7. e.call = c.call /\ e.sets = c.sets /\ e.stk = Append(Append(Front(c.stk), g), v)
        /\ e.ret = "none"
    BY <1>2, <1>8, <1>9, <2>1, <2>2
  <2>8. Texts(e)
    BY <1>2, <1>3, <1>5, <1>6, <1>12, <2>5, <2>6, <2>7, PushedTexts DEF n
  <2> QED  BY <2>7, <2>8 DEF Tells
<1>15. Tells(Return(c, "error"))
  BY <1>2, Failed
<1> HIDE DEF e, end
<1>16. Tells(d)
  BY <1>3, <1>7, <1>13, <1>14, <1>15
<1> HIDE DEF d
<1> QED  BY <1>1, <1>16, TextStep

LEMMA OpenStructTexts ==
    ASSUME IInv, WInv, NEW self \in Procs, OpenStruct(self)
    PROVE  WInv'
<1> DEFINE c == st[self]
           f == Top(c)
           s == Types[f.typ].s
           ts == <<<<"obj">>>>
<1>1. At(self, "value") /\ Kind(f.typ) = "struct"
  BY DEF OpenStruct
<1>2. /\ Running(c) /\ Texts(c) /\ c.stk # <<>> /\ Top(c).k = "value" /\ IsCall(c) /\ c.ret = "none"
      /\ FrameOK(Top(c)) /\ Fits(Top(c), Len(c.stk), c.call) /\ IsSeq(Last(c.outs))
  BY <1>1, AtTexts
<1>3. PICK b : Go(self, Write(Retop(c, [f EXCEPT !.k = "fields", !.s = s, !.bm = b]), ts))
  BY DEF OpenStruct
<1> DEFINE g == [f EXCEPT !.k = "fields", !.s = s, !.bm = b]
           r == Retop(c, g)
           d == Write(r, ts)
<1>4. ~f.busy /\ ~f.exc /\ ~f.comma
  BY <1>2 DEF FrameOK, Fits
<1>5. /\ g.k = "fields" /\ g.typ = f.typ /\ g.busy = f.busy /\ g.exc = f.exc /\ g.root = f.root
      /\ g.comma = f.comma /\ g.val = f.val /\ g.s = s
  BY <1>2 DEF FrameOK, IsFrame, FrameKeys
<1>6. Go(self, d)
  BY <1>3
<1> HIDE DEF c, g, ts, f
<1>7. Fits(g, Len(c.stk), c.call)
  BY <1>1, <1>2, <1>4, <1>5 DEF Fits, StructKinds, f
<1>8. /\ IsCall(r) /\ r.call = c.call /\ r.sets = c.sets /\ r.outs = c.outs /\ r.ret = c.ret
      /\ r.stk = Append(Front(c.stk), g)
  BY <1>2, RetopParts
<1> HIDE DEF r
<1>9. /\ d.call = r.call /\ d.sets = r.sets /\ d.stk = r.stk /\ d.ret = r.ret
      /\ d.outs = Append(Front(r.outs), Last(r.outs) \o ts)
  BY <1>8, WriteParts
<1> HIDE DEF d
<1>10. IsSeq(ts)
  BY TokensAre DEF ts
<1>11. OutsFrom(c, d) /\ Last(d.outs) = Last(c.outs) \o ts
  BY <1>2, <1>8, <1>9, <1>10, MoreText
<1>12. ASSUME NEW w, IsSeq(w), Shows(OpenIn(Last(c.outs)), w, Top(c))
       PROVE  Shows(OpenIn(Last(d.outs)), w, g)
  <2>1. Ready(OpenIn(Last(c.outs)), w)
    BY <1>2, <1>12 DEF Shows
  <2>2. OpenIn(Last(c.outs) \o <<<<"obj">>>>) = Append(w, "object0")
    BY <1>2, <1>12, <2>1, ValueText
  <2> QED  BY <1>4, <1>5, <1>11, <2>2 DEF Shows, Sym, ts
<1>13. d.call = c.call /\ d.sets = c.sets /\ d.stk = Append(Front(c.stk), g) /\ d.ret = "none"
  BY <1>2, <1>8, <1>9
<1>14. Texts(d)
  <2>1. ~Top(c).busy /\ ~Top(c).exc /\ ~g.busy /\ (g.exc <=> Top(c).exc) /\ g.k # "http"
    BY <1>4, <1>5 DEF f
  <2> QED  BY <1>2, <1>7, <1>11, <1>12, <1>13, <2>1, RetoppedTexts
<1>15. Tells(d)
  BY <1>13, <1>14 DEF Tells
<1> QED  BY <1>6, <1>15, TextStep

LEMMA AdvancedTexts ==
    ASSUME NEW c, Running(c), Texts(c)
    PROVE  LET d == Advance(c) IN Texts(d) /\ d.ret = "none" /\ d.stk = c.stk /\ IsCall(d) /\ d.call = c.call
                                  /\ d.sets = c.sets /\ d.outs = c.outs
<1> DEFINE d == Advance(c)
<1>1. IsCall(c) /\ c.ret = "none" /\ Given(c)
  BY DEF Running, Texts
<1>2. /\ IsCall(d) /\ d.call = c.call /\ d.sets = c.sets /\ d.outs = c.outs /\ d.stk = c.stk
      /\ d.ret = c.ret
  BY <1>1, AdvanceParts
<1> HIDE DEF d
<1>3. Given(d)
  BY <1>1, <1>2 DEF Given
<1>4. Texts(d)
  BY <1>2, <1>3, SameTexts
<1> QED  BY <1>1, <1>2, <1>4 DEF d

LEMMA FieldsTexts ==
    ASSUME IInv, WInv, NEW self \in Procs, Fields(self)
    PROVE  WInv'
<1> DEFINE c == st[self]
           f == Top(c)
           tok == Ahead(c)
           g == [f EXCEPT !.k = "unsets", !.id = 0]
           r == Retop(c, g)
           e == Advance(r)
           a == Advance(c)
           stop == tok.t = "stop"
           skip == tok.t = "field" /\ ~c.call.opts.disallow
           d == CASE stop -> e
                  [] skip -> SkipField(a, tok.et)
                  [] OTHER -> Return(c, "error")
<1>1. At(self, "fields") /\ Go(self, d)
  BY DEF Fields
<1>2. /\ Running(c) /\ Texts(c) /\ c.stk # <<>> /\ f.k = "fields" /\ IsCall(c) /\ c.ret = "none"
      /\ FrameOK(f) /\ Fits(f, Len(c.stk), c.call) /\ IsSeq(Last(c.outs)) /\ Seqs(c)
  BY <1>1, AtTexts
<1>3. ~f.busy /\ ~f.exc
  BY <1>2 DEF FrameOK, Fits
<1>4. /\ g.k = "unsets" /\ g.typ = f.typ /\ g.busy = f.busy /\ g.exc = f.exc /\ g.root = f.root
      /\ g.comma = f.comma /\ g.val = f.val /\ g.s = f.s
  BY <1>2 DEF FrameOK, IsFrame, FrameKeys
<1> HIDE DEF c, g, tok
<1>5. Fits(g, Len(c.stk), c.call)
  <2> HIDE DEF f
  <2> QED  BY <1>2, <1>3, <1>4, StructFits DEF StructKinds
<1>6. /\ IsCall(r) /\ r.call = c.call /\ r.sets = c.sets /\ r.outs = c.outs /\ r.ret = c.ret
      /\ r.stk = Append(Front(c.stk), g)
  BY <1>2, RetopParts
<1> HIDE DEF r
<1>7. /\ e.call = r.call /\ e.sets = r.sets /\ e.stk = r.stk /\ e.ret = r.ret /\ e.outs = r.outs
  BY <1>6, AdvanceParts
<1> HIDE DEF e
<1>8. Tells(e)
  <2>1. OutsFrom(c, e) /\ Last(e.outs) = Last(c.outs)
    BY <1>2, <1>6, <1>7, SameOuts
  <2>2. \A w : IsSeq(w) /\ Shows(OpenIn(Last(c.outs)), w, Top(c)) => Shows(OpenIn(Last(e.outs)), w, g)
    BY <1>2, <1>4, <2>1 DEF Shows, Sym
  <2>3. e.call = c.call /\ e.sets = c.sets /\ e.stk = Append(Front(c.stk), g) /\ e.ret = "none"
    BY <1>2, <1>6, <1>7
  <2>4. ~Top(c).busy /\ ~Top(c).exc /\ ~g.busy /\ (g.exc <=> Top(c).exc) /\ g.k # "http"
    BY <1>3, <1>4
  <2> HIDE DEF f
  <2>5. Texts(e)
    BY <1>2, <1>5, <2>1, <2>2, <2>3, <2>4, RetoppedTexts
  <2> QED  BY <2>3, <2>5 DEF Tells
<1>9. ASSUME skip PROVE Tells(SkipField(a, tok.et))
  <2>1. Running(a)
    BY <1>2, <1>9, AdvanceOK DEF tok
  <2>2. Texts(a)
    BY <1>2, AdvancedTexts
  <2> HIDE DEF a
  <2> QED  BY <2>1, <2>2, SkipFieldTexts
<1>10. Tells(Return(c, "error"))
  BY <1>2, Failed
<1> HIDE DEF stop, skip, a
<1>11. Tells(d)
  BY <1>8, <1>9, <1>10
<1> HIDE DEF d
<1> QED  BY <1>1, <1>11, TextStep

\* What is appended to another element than the last one.
LEMMA Rejoined ==
    ASSUME NEW s, IsSeq(s), s # <<>>
    PROVE  Append(Front(s), Last(s)) = s
<1> DEFINE R == {s[i] : i \in DOMAIN s}
           x == Last(s)
           t == Append(Front(s), x)
<1>1. s \in Seq(R) /\ Len(s) \in Nat \ {0} /\ x = s[Len(s)]
  <2>1. s \in Seq(R)
    BY DEF IsSeq
  <2> HIDE DEF R
  <2> QED  BY <2>1, Popped
<1>2. IsSeq(t) /\ Len(t) = Len(s) /\ t[Len(s)] = x /\ \A i \in 1 .. Len(s) - 1 : t[i] = s[i]
  <2> HIDE DEF x
  <2> QED  BY Retopped
<1> HIDE DEF R, x, t
<1>3. \A i \in 1 .. Len(s) : t[i] = s[i]
  <2> SUFFICES ASSUME NEW i \in 1 .. Len(s) PROVE t[i] = s[i]
    OBVIOUS
  <2>1. CASE i = Len(s)
    BY <1>1, <1>2, <2>1
  <2>2. CASE i # Len(s)
    <3>1. i \in 1 .. Len(s) - 1
      BY <1>1, <2>2
    <3> QED  BY <1>2, <3>1
  <2> QED  BY <2>1, <2>2
<1>4. t = [i \in 1 .. Len(s) |-> t[i]]
  <2> DEFINE A == {t[i] : i \in DOMAIN t}
  <2>1. t \in Seq(A)
    BY <1>2 DEF IsSeq
  <2> HIDE DEF A
  <2> QED  BY <1>2, <2>1
<1>5. s = [i \in 1 .. Len(s) |-> s[i]]
  BY <1>1
<1> QED  BY <1>3, <1>4, <1>5 DEF t, x

\* A mapping begins, of a field that is in the message or of one that is missing.
LEMMA HttpTexts ==
    ASSUME NEW c, Running(c), Texts(c), c.stk # <<>>, Opened(Top(c)),
           NEW h, h.k = "http", ~h.busy, ~h.exc, ~h.root, h.val = <<>>,
           ~h.unset => Top(c).k = "fields", Top(c).exc => Mixed(c.call),
           NEW d, d.call = c.call, d.sets = c.sets, d.outs = c.outs, d.stk = Append(c.stk, h)
    PROVE  Texts(d)
<1> DEFINE g == Top(c)
           n == Len(c.stk)
<1>1. /\ IsSeq(c.stk) /\ n \in Nat \ {0} /\ FrameOK(g) /\ Fits(g, n, c.call) /\ Seqs(c)
  BY TopFits
<1>2. ~g.busy /\ g.k \in StructKinds
  BY <1>1 DEF FrameOK, Opened, StructKinds
<1>3. d.stk = Append(Append(Front(c.stk), g), h)
  BY <1>1, Rejoined DEF Top
<1>4. Fits(h, n + 1, c.call)
  <2>1. n + 1 # 1
    <3> HIDE DEF n
    <3> QED  BY <1>1
  <2> QED  BY <2>1 DEF Fits, StructKinds
<1>5. Over(g, h, c.call)
  BY DEF Over
<1>6. OutsFrom(c, d) /\ Last(d.outs) = Last(c.outs)
  BY <1>1, SameOuts
<1>7. \A w : IsSeq(w) /\ Shows(OpenIn(Last(c.outs)), w, g) => Shows(OpenIn(Last(d.outs)), Append(w, Sym(g)), h)
  BY <1>2, <1>6 DEF Shows, StructKinds
<1>8. (g.exc <=> Top(c).exc) /\ g.k \notin {"value", "http"}
  BY <1>2 DEF StructKinds
<1> HIDE DEF g
<1>9. g = Top(c)
  BY DEF g
<1> QED  BY <1>1, <1>2, <1>3, <1>4, <1>5, <1>6, <1>7, <1>8, <1>9, PushedTexts

LEMMA KnownFieldTexts ==
    ASSUME IInv, WInv, NEW self \in Procs, KnownField(self)
    PROVE  WInv'
<1> DEFINE c == st[self]
           f == Top(c)
           tok == Ahead(c)
           field == Structs[f.s][tok.id]
           c1 == Advance(c)
           opts == c.call.opts
           h == [Frame EXCEPT !.k = "http", !.s = f.s, !.id = tok.id, !.resp = f.resp,
                              !.from = Reader(c1).at]
           base == f.root /\ opts.base /\ field.base /\ c.call.hasBase
           http == f.resp /\ opts.http /\ field.hms # <<>>
           d == IF base THEN SkipField(c1, "struct")
                ELSE IF http THEN Push(c1, h) ELSE Member(c1, f, tok.id)
<1>1. At(self, "fields") /\ tok.t = "field" /\ Go(self, d)
  BY DEF KnownField
<1>2. /\ Running(c) /\ Texts(c) /\ c.stk # <<>> /\ f.k = "fields" /\ FrameOK(f)
      /\ Fits(f, Len(c.stk), c.call)
  BY <1>1, AtTexts
<1>3. ~f.exc /\ Opened(f)
  BY <1>2 DEF Fits, Opened, StructKinds
<1> HIDE DEF c
<1>4. Running(c1)
  BY <1>1, <1>2, AdvanceOK
<1>5. Texts(c1) /\ c1.stk = c.stk /\ IsCall(c1) /\ c1.ret = "none"
  BY <1>2, AdvancedTexts
<1>6. c1.stk # <<>> /\ Top(c1) = f
  BY <1>2, <1>5 DEF Top
<1>7. /\ h.k = "http" /\ h.busy = FALSE /\ h.exc = FALSE /\ h.root = FALSE /\ h.val = <<>>
      /\ h.unset = FALSE
  BY DEF Frame
<1> HIDE DEF c1, h, f, tok
<1>8. Tells(SkipField(c1, "struct"))
  BY <1>4, <1>5, SkipFieldTexts
<1>9. Tells(Push(c1, h))
  <2> DEFINE e == Push(c1, h)
  <2>1. /\ e.call = c1.call /\ e.sets = c1.sets /\ e.outs = c1.outs /\ e.stk = Append(c1.stk, h)
        /\ e.ret = c1.ret
    BY <1>5, PushParts
  <2> HIDE DEF e
  <2>2. Texts(e)
    BY <1>2, <1>3, <1>4, <1>5, <1>6, <1>7, <2>1, HttpTexts
  <2> QED  BY <1>5, <2>1, <2>2 DEF Tells, e
<1>10. Tells(Member(c1, f, tok.id))
  BY <1>2, <1>4, <1>5, <1>6, MemberTexts
<1> HIDE DEF base, http
<1>11. Tells(d)
  BY <1>8, <1>9, <1>10
<1> HIDE DEF d
<1> QED  BY <1>1, <1>11, TextStep

-----------------------------------------------------------------------------
(***************************************************************************)
(* The text of a mapped value of its own: it begins, and it is whole.      *)
(***************************************************************************)
LEMMA PartSame ==
    ASSUME NEW c, NEW d, d.call = c.call, NEW j, d.outs[j] = c.outs[j],
           NEW a \in Nat, NEW x \in Nat, NEW y, NEW b \in Nat, a <= b, Part(c, j, a, y, b),
           \A i \in 1 .. b - 1 : d.stk[i] = c.stk[i],
           a # b => d.stk[b].k = c.stk[b].k /\ Sym(d.stk[b]) = Sym(c.stk[b]),
           \A i \in a + 1 .. x : ~d.stk[i].busy
    PROVE  Part(d, j, a, x, b)
<1>1. Within(d.stk, a, x)
  BY DEF Within
<1>2. ASSUME NEW open, Reads(open, c.stk, a, b) PROVE Reads(open, d.stk, a, b)
  BY <1>2, ReadsSame
<1> QED  BY <1>1, <1>2 DEF Part

LEMMA BeganTexts ==
    ASSUME NEW c, Running(c), Texts(c), c.stk # <<>>, Top(c).k = "http", ~Top(c).busy,
           NEW g, g.k = "http", g.busy, Sym(g) = Sym(Top(c)), g.unset = Top(c).unset,
           Fits(g, Len(c.stk), c.call),
           NEW v, v.k = "value", ~v.busy, Fits(v, Len(c.stk) + 1, c.call),
           NEW d, d.call = c.call, d.sets = c.sets, d.stk = Append(Append(Front(c.stk), g), v),
           d.outs = Append(c.outs, <<>>)
    PROVE  Texts(d)
<1> DEFINE n == Len(c.stk)
<1>1. /\ Shape(c) /\ Given(c) /\ Seqs(c) /\ IsSeq(c.stk) /\ n \in Nat \ {0} /\ Top(c) = c.stk[n]
      /\ IsSeq(c.outs) /\ Fits(Top(c), n, c.call) /\ StackOK(c.stk)
  BY TopFits DEF Running
<1>2. PICK seg : Shown(c, seg)
  BY DEF Texts
<1> DEFINE m == Len(seg)
           seg1 == Append(seg, n)
<1>3. /\ Len(d.stk) = n + 1 /\ d.stk # <<>> /\ d.stk[n] = g /\ d.stk[n + 1] = v
      /\ \A i \in 1 .. n - 1 : d.stk[i] = c.stk[i]
  <2> DEFINE s == c.stk
  <2>1. IsSeq(s) /\ s # <<>> /\ d.stk = Append(Append(Front(s), g), v)
    BY <1>1
  <2> HIDE DEF s
  <2>2. /\ Len(s) \in Nat \ {0} /\ Len(d.stk) = Len(s) + 1 /\ d.stk # <<>>
        /\ d.stk[Len(s)] = g /\ d.stk[Len(s) + 1] = v
        /\ \A i \in 1 .. Len(s) - 1 : d.stk[i] = s[i]
    BY <2>1, RetopPushed, SMTT(30)
  <2> QED  BY <2>2 DEF s
<1>4. /\ m \in Nat \ {0} /\ Len(c.outs) = m
      /\ \A j \in 1 .. m : seg[j] \in Nat /\ seg[j] <= n /\ seg[j] <= seg[m]
  BY <1>2, ShownShape
<1>5. seg[m] < n
  <2>1. ~Top(c).exc
    BY <1>1 DEF Fits
  <2> QED  BY <1>2, <2>1, LastPlace
<1>6. n # 1
  BY <1>1 DEF StackOK
<1>7. IsSeq(seg)
  BY <1>2 DEF Shown, Places
<1>8. /\ Places(c, seg)
      /\ \A j \in 1 .. m - 1 : Part(c, j, seg[j], seg[j + 1] - 1, seg[j + 1])
      /\ Part(c, m, seg[m], n, n)
  BY <1>2 DEF Shown
<1> HIDE DEF n, m
<1>9. /\ IsSeq(seg1) /\ Len(seg1) = m + 1 /\ seg1[m + 1] = n /\ \A j \in 1 .. m : seg1[j] = seg[j]
  <2>1. IsSeq(seg1) /\ Len(seg1) = Len(seg) + 1 /\ seg1[Len(seg) + 1] = n /\ \A j \in 1 .. Len(seg) : seg1[j] = seg[j]
    BY <1>7, Pushed
  <2> QED  BY <2>1 DEF m
<1>10. Len(d.outs) = m + 1 /\ d.outs[m + 1] = <<>> /\ \A j \in 1 .. m : d.outs[j] = c.outs[j]
  <2>1. /\ Len(d.outs) = Len(c.outs) + 1 /\ d.outs[Len(c.outs) + 1] = <<>>
        /\ \A j \in 1 .. Len(c.outs) : d.outs[j] = c.outs[j]
    <3> DEFINE e == <<>>
    <3>1. d.outs = Append(c.outs, e)
      OBVIOUS
    <3> HIDE DEF e
    <3>2. /\ Len(d.outs) = Len(c.outs) + 1 /\ d.outs[Len(c.outs) + 1] = e
          /\ \A j \in 1 .. Len(c.outs) : d.outs[j] = c.outs[j]
      BY <1>1, <3>1, Pushed
    <3> QED  BY <3>2 DEF e
  <2> QED  BY <1>4, <2>1
<1> HIDE DEF seg1
<1>11. \A j \in 1 .. m + 1 : j \in 1 .. m \/ j = m + 1
  BY <1>4
<1>12. Start(d.stk) = Start(c.stk)
  <2>1. 1 \in 1 .. n - 1
    BY <1>1, <1>6
  <2> QED  BY <1>3, <2>1 DEF Start
<1>13. ASSUME NEW j \in 1 .. m PROVE seg[j] \in Nat /\ seg[j] < n
  <2>1. seg[j] \in Nat /\ seg[j] <= seg[m] /\ seg[m] \in Nat
    <3>1. m \in 1 .. m
      BY <1>4
    <3> QED  BY <1>4, <3>1
  <2> QED  BY <1>1, <1>5, <2>1
<1>14. Places(d, seg1)
  <2>1. ASSUME NEW j \in 1 .. m + 1 PROVE seg1[j] \in 0 .. n + 1
    <3>1. CASE j \in 1 .. m
      BY <1>1, <1>9, <1>13, <3>1
    <3>2. CASE j = m + 1
      BY <1>1, <1>9, <3>2
    <3> QED  BY <1>11, <3>1, <3>2
  <2>2. seg1[1] = Start(d.stk)
    <3>1. 1 \in 1 .. m /\ seg[1] = Start(c.stk)
      BY <1>4, <1>8 DEF Places
    <3> QED  BY <1>9, <1>12, <3>1
  <2>3. ASSUME NEW j \in 2 .. m + 1 PROVE d.stk[seg1[j]].busy
    <3>1. CASE j = m + 1
      BY <1>3, <1>9, <3>1
    <3>2. CASE j # m + 1
      <4>1. j \in 2 .. m /\ j \in 1 .. m /\ 1 \in 1 .. m /\ 1 < j
        BY <1>4, <3>2
      <4>2. c.stk[seg[j]].busy /\ seg[1] < seg[j]
        BY <1>8, <4>1 DEF Places, m
      <4>3. seg[j] \in 1 .. n - 1
        <5>1. seg[j] \in Nat /\ seg[j] < n /\ seg[1] \in Nat /\ n \in Nat
          BY <1>1, <1>13, <4>1
        <5> QED  BY <4>2, <5>1
      <4> QED  BY <1>3, <1>9, <4>1, <4>2, <4>3
    <3> QED  BY <3>1, <3>2
  <2>4. ASSUME NEW i \in 1 .. m + 1, NEW j \in 1 .. m + 1, i < j PROVE seg1[i] < seg1[j]
    <3>1. i \in 1 .. m
      BY <1>4, <2>4
    <3>2. CASE j = m + 1
      BY <1>9, <1>13, <3>1, <3>2
    <3>3. CASE j \in 1 .. m
      <4>1. seg[i] < seg[j]
        BY <1>8, <2>4, <3>1, <3>3 DEF Places, m
      <4> QED  BY <1>9, <3>1, <3>3, <4>1
    <3> QED  BY <1>11, <3>2, <3>3
  <2> QED  BY <1>3, <1>9, <1>10, <2>1, <2>2, <2>3, <2>4 DEF Places
<1>15. ASSUME NEW j \in 1 .. m - 1 PROVE Part(d, j, seg[j], seg[j + 1] - 1, seg[j + 1])
  <2>1. j \in 1 .. m /\ j + 1 \in 1 .. m /\ j < j + 1
    BY <1>4
  <2> DEFINE a == seg[j]
             b == seg[j + 1]
  <2>2. a \in Nat /\ b \in Nat /\ a < b /\ b < n
    <3>1. seg[j] < seg[j + 1]
      BY <1>8, <2>1 DEF Places, m
    <3> QED  BY <1>13, <2>1, <3>1
  <2>3. Part(c, j, a, b - 1, b) /\ d.outs[j] = c.outs[j]
    BY <1>8, <1>10, <2>1
  <2> HIDE DEF a, b
  <2>4. b \in 1 .. n - 1 /\ \A i \in 1 .. b : d.stk[i] = c.stk[i]
    <3>1. b \in 1 .. n - 1 /\ \A i \in 1 .. b : i \in 1 .. n - 1
      BY <1>1, <2>2
    <3> QED  BY <1>3, <3>1
  <2>5. \A i \in a + 1 .. b - 1 : i \in 1 .. b
    BY <2>2
  <2>6. \A i \in a + 1 .. b - 1 : ~d.stk[i].busy
    BY <2>3, <2>4, <2>5 DEF Part, Within
  <2>7. b \in 1 .. b /\ b - 1 \in Nat /\ a <= b /\ \A i \in 1 .. b - 1 : i \in 1 .. b
    BY <2>2
  <2>8. d.stk[b] = c.stk[b] /\ \A i \in 1 .. b - 1 : d.stk[i] = c.stk[i]
    BY <2>4, <2>7
  <2>9. Part(d, j, a, b - 1, b)
    <3> DEFINE x == b - 1
    <3>1. x \in Nat /\ Part(c, j, a, x, b) /\ \A i \in a + 1 .. x : ~d.stk[i].busy
      BY <2>3, <2>6, <2>7
    <3>2. \A i \in 1 .. b - 1 : d.stk[i] = c.stk[i]
      BY <2>8
    <3> HIDE DEF x
    <3>3. Part(d, j, a, x, b)
      BY <2>2, <2>3, <2>7, <2>8, <3>1, <3>2, PartSame
    <3> QED  BY <3>3 DEF x
  <2> QED  BY <2>9 DEF a, b
<1>16. Part(d, m, seg[m], n - 1, n)
  <2> DEFINE a == seg[m]
             x == n - 1
  <2>1. m \in 1 .. m
    BY <1>4
  <2>2. a \in Nat /\ a < n /\ n \in Nat /\ x \in Nat
    BY <1>1, <1>13, <2>1
  <2>3. Part(c, m, a, n, n) /\ d.outs[m] = c.outs[m]
    BY <1>8, <1>10, <2>1
  <2>4. ASSUME NEW i \in a + 1 .. x PROVE ~d.stk[i].busy
    <3>1. i \in a + 1 .. n /\ i \in 1 .. n - 1
      BY <2>2
    <3> QED  BY <1>3, <2>3, <3>1 DEF Part, Within
  <2>5. d.stk[n].k = c.stk[n].k /\ Sym(d.stk[n]) = Sym(c.stk[n]) /\ a <= n
    BY <1>1, <1>3, <2>2
  <2>6. \A i \in 1 .. n - 1 : d.stk[i] = c.stk[i]
    BY <1>3
  <2> HIDE DEF a, x
  <2>7. Part(d, m, a, x, n)
    BY <2>2, <2>3, <2>4, <2>5, <2>6, PartSame
  <2> QED  BY <2>7 DEF a, x
<1>17. Part(d, m + 1, n, n + 1, n + 1)
  <2>1. n \in Nat /\ n + 1 # n /\ (n + 1) - 1 = n /\ \A i \in n + 1 .. n + 1 : i = n + 1
    BY <1>1
  <2>2. Within(d.stk, n, n + 1)
    BY <1>3, <2>1 DEF Within
  <2>3. Symbols(d.stk, n, n) = <<>>
    BY <2>1, SymbolsNone
  <2>4. OpenIn(d.outs[m + 1]) = Append(<<>>, "value")
    BY <1>10, OpenInNothing
  <2>5. Reads(OpenIn(d.outs[m + 1]), d.stk, n, n + 1)
    BY <1>3, <2>1, <2>3, <2>4 DEF Reads, Shows, Ready
  <2> QED  BY <2>2, <2>5 DEF Part
<1>18. Shown(d, seg1)
  <2>1. ASSUME NEW j \in 1 .. m PROVE Part(d, j, seg1[j], seg1[j + 1] - 1, seg1[j + 1])
    <3>1. CASE j = m
      BY <1>9, <1>16, <3>1
    <3>2. CASE j # m
      <4>1. j \in 1 .. m - 1 /\ j + 1 \in 1 .. m
        BY <1>4, <3>2
      <4> QED  BY <1>9, <1>15, <4>1
    <3> QED  BY <3>1, <3>2
  <2>2. Len(seg1) - 1 = m
    BY <1>4, <1>9
  <2>3. Part(d, Len(seg1), seg1[Len(seg1)], Len(d.stk), Len(d.stk))
    BY <1>3, <1>9, <1>17
  <2> QED  BY <1>14, <2>1, <2>2, <2>3 DEF Shown
<1>19. Shape(d)
  <2>1. Len(d.stk) \in Nat /\ Len(d.stk) >= n - 1
    BY <1>1, <1>3
  <2>2. \A i \in n .. n + 1 : i = n \/ i = n + 1
    BY <1>1
  <2>3. \A i \in n .. (n + 1) - 1 : i = n
    BY <1>1
  <2>4. \A i \in n .. Len(d.stk) : Fits(d.stk[i], i, c.call)
    BY <1>3, <2>2 DEF n
  <2>5. \A i \in n .. Len(d.stk) - 1 : Covers(d.stk[i])
    BY <1>3, <2>3 DEF Covers
  <2>6. ASSUME NEW i \in n .. Len(d.stk), i > 1 PROVE Over(d.stk[i - 1], d.stk[i], c.call)
    <3>1. CASE i = n
      <4>1. n - 1 \in 1 .. n - 1 /\ n \in 2 .. n
        BY <1>1, <1>6
      <4>2. Over(c.stk[n - 1], Top(c), c.call)
        BY <1>1, <4>1 DEF Shape, n
      <4> QED  BY <1>3, <3>1, <4>1, <4>2 DEF Over
    <3>2. CASE i = n + 1
      BY <1>3, <3>2 DEF Over
    <3> QED  BY <1>3, <2>2, <3>1, <3>2
  <2> QED  BY <1>1, <1>3, <2>1, <2>4, <2>5, <2>6, ShapeChange DEF n
<1>20. Seqs(d) /\ Given(d)
  <2>1. \A j \in 1 .. m + 1 : IsSeq(d.outs[j])
    BY <1>1, <1>4, <1>10, <1>11, EmptyIsSeq DEF Seqs
  <2> QED  BY <1>1, <1>10, <2>1 DEF Seqs, Given
<1> QED  BY <1>18, <1>19, <1>20 DEF Texts

LEMMA EndedTexts ==
    ASSUME NEW c, Running(c), Texts(c), c.stk # <<>>, Top(c).k = "http", Top(c).busy
    PROVE  /\ IsJSON(Last(c.outs))
           /\ \A g, d : /\ g.k = "http" /\ ~g.busy /\ Sym(g) = Sym(Top(c)) /\ g.unset = Top(c).unset
                        /\ Fits(g, Len(c.stk), c.call)
                        /\ d.call = c.call /\ d.sets = c.sets /\ d.stk = Append(Front(c.stk), g)
                        /\ d.outs = Front(c.outs)
                        => Texts(d)
<1> DEFINE n == Len(c.stk)
<1>1. /\ Shape(c) /\ Given(c) /\ Seqs(c) /\ IsSeq(c.stk) /\ n \in Nat \ {0} /\ Top(c) = c.stk[n]
      /\ IsSeq(c.outs) /\ c.outs # <<>> /\ Fits(Top(c), n, c.call) /\ StackOK(c.stk)
  BY TopFits DEF Running
<1>2. PICK seg : Shown(c, seg)
  BY DEF Texts
<1> DEFINE m == Len(seg)
           seg1 == Front(seg)
<1>3. /\ m \in Nat \ {0} /\ Len(c.outs) = m
      /\ \A j \in 1 .. m : seg[j] \in Nat /\ seg[j] <= n /\ seg[j] <= seg[m]
  BY <1>2, ShownShape
<1>4. seg[m] = n /\ m > 1
  BY <1>2, LastPlace
<1>5. n # 1
  BY <1>1 DEF StackOK
<1>6. IsSeq(seg)
  BY <1>2 DEF Shown, Places
<1>7. /\ Places(c, seg)
      /\ \A j \in 1 .. m - 1 : Part(c, j, seg[j], seg[j + 1] - 1, seg[j + 1])
      /\ Part(c, m, seg[m], n, n)
  BY <1>2 DEF Shown
<1> HIDE DEF n
<1>8. /\ IsSeq(seg1) /\ Len(seg1) = m - 1 /\ \A j \in 1 .. m - 1 : seg1[j] = seg[j]
  <2>1. seg # <<>>
    BY <1>3, <1>6, SeqShape
  <2> QED  BY <1>6, <2>1, Popped
<1> HIDE DEF m, seg1
<1>9. IsJSON(Last(c.outs))
  <2>1. Last(c.outs) = c.outs[m]
    BY <1>1, <1>3, Popped
  <2>2. ~Free(c.call, m)
    BY <1>4 DEF Free
  <2> QED  BY <1>4, <1>7, <2>1, <2>2 DEF Part, Reads, IsJSON
<1>10. ASSUME NEW g, NEW d,
              g.k = "http", ~g.busy, Sym(g) = Sym(Top(c)), g.unset = Top(c).unset,
              Fits(g, n, c.call), d.call = c.call, d.sets = c.sets, d.stk = Append(Front(c.stk), g),
              d.outs = Front(c.outs)
       PROVE  Texts(d)
  <2>1. /\ Len(d.stk) = n /\ d.stk # <<>> /\ d.stk[n] = g
        /\ \A i \in 1 .. n - 1 : d.stk[i] = c.stk[i]
    <3> DEFINE t == Append(Front(c.stk), g)
    <3>1. Len(t) = n /\ t # <<>> /\ t[n] = g /\ \A i \in 1 .. n - 1 : t[i] = c.stk[i]
      BY <1>1, Retopped DEF n
    <3> HIDE DEF t
    <3>2. d.stk = t
      BY <1>10 DEF t
    <3> QED  BY <3>1, <3>2
  <2>2. Len(d.outs) = m - 1 /\ \A j \in 1 .. m - 1 : d.outs[j] = c.outs[j]
    <3> DEFINE u == Front(c.outs)
    <3>1. IsSeq(c.outs) /\ c.outs # <<>>
      BY <1>1
    <3>2. Len(u) = Len(c.outs) - 1 /\ \A j \in 1 .. Len(c.outs) - 1 : u[j] = c.outs[j]
      BY <3>1, Popped
    <3>3. d.outs = u
      BY <1>10
    <3> HIDE DEF u
    <3> QED  BY <1>3, <3>2, <3>3
  <2>3. Start(d.stk) = Start(c.stk)
    <3>1. 1 \in 1 .. n - 1
      BY <1>1, <1>5
    <3> QED  BY <2>1, <3>1 DEF Start
  <2>4. ASSUME NEW j \in 1 .. m - 1 PROVE seg[j] \in Nat /\ seg[j] < n
    <3>1. j \in 1 .. m /\ m \in 1 .. m /\ j < m
      BY <1>3
    <3>2. seg[j] < seg[m]
      BY <1>7, <3>1 DEF Places, m
    <3> QED  BY <1>3, <1>4, <3>1, <3>2
  <2>5. Places(d, seg1)
    <3>1. ASSUME NEW j \in 1 .. m - 1 PROVE seg1[j] \in 0 .. n
      BY <1>1, <1>8, <2>4
    <3>2. seg1[1] = Start(d.stk)
      <4>1. 1 \in 1 .. m - 1 /\ seg[1] = Start(c.stk)
        BY <1>3, <1>4, <1>7 DEF Places
      <4> QED  BY <1>8, <2>3, <4>1
    <3>3. ASSUME NEW j \in 2 .. m - 1 PROVE d.stk[seg1[j]].busy
      <4>1. j \in 2 .. m /\ j \in 1 .. m /\ j \in 1 .. m - 1 /\ 1 \in 1 .. m /\ 1 \in 1 .. m - 1 /\ 1 < j
        BY <1>3
      <4>2. c.stk[seg[j]].busy /\ seg[1] < seg[j]
        BY <1>7, <4>1 DEF Places, m
      <4>3. seg[j] \in 1 .. n - 1
        <5>1. seg[j] \in Nat /\ seg[j] < n /\ seg[1] \in Nat /\ n \in Nat
          BY <1>1, <2>4, <4>1
        <5> QED  BY <4>2, <5>1
      <4> QED  BY <1>8, <2>1, <4>1, <4>2, <4>3
    <3>4. ASSUME NEW i \in 1 .. m - 1, NEW j \in 1 .. m - 1, i < j PROVE seg1[i] < seg1[j]
      <4>1. i \in 1 .. m /\ j \in 1 .. m
        BY <1>3
      <4>2. seg[i] < seg[j]
        BY <1>7, <3>4, <4>1 DEF Places, m
      <4> QED  BY <1>8, <4>2
    <3> QED  BY <1>8, <2>1, <2>2, <3>1, <3>2, <3>3, <3>4 DEF Places
  <2>6. ASSUME NEW j \in 1 .. m - 1
        PROVE  LET a == seg[j]
                   b == seg[j + 1]
                   x == IF j = m - 1 THEN b ELSE b - 1
               IN  Part(d, j, a, x, b)
    <3> DEFINE a == seg[j]
               b == seg[j + 1]
               x == IF j = m - 1 THEN b ELSE b - 1
    <3>1. j \in 1 .. m /\ j + 1 \in 1 .. m /\ j < j + 1 /\ (j = m - 1 => j + 1 = m)
          /\ (j # m - 1 => j + 1 \in 1 .. m - 1)
      BY <1>3
    <3>2. a \in Nat /\ b \in Nat /\ a < b
      <4>1. seg[j] < seg[j + 1]
        BY <1>7, <3>1 DEF Places, m
      <4> QED  BY <1>3, <3>1, <4>1
    <3>3. Part(c, j, a, b - 1, b) /\ d.outs[j] = c.outs[j]
      BY <1>7, <2>2
    <3>4. (j = m - 1 => b = n) /\ (j # m - 1 => b < n)
      BY <1>4, <2>4, <3>1
    <3> HIDE DEF a, b
    <3>5. \A i \in 1 .. b - 1 : d.stk[i] = c.stk[i]
      <4>1. b <= n /\ n \in Nat
        BY <1>1, <3>2, <3>4
      <4>2. \A i \in 1 .. b - 1 : i \in 1 .. n - 1
        BY <3>2, <4>1
      <4> QED  BY <2>1, <4>2
    <3>6. d.stk[b].k = c.stk[b].k /\ Sym(d.stk[b]) = Sym(c.stk[b])
      <4>1. CASE j = m - 1
        <5>1. d.stk[b] = g /\ c.stk[b] = Top(c)
          BY <1>1, <2>1, <3>4, <4>1
        <5> QED  BY <1>10, <5>1
      <4>2. CASE j # m - 1
        <5>1. b \in 1 .. n - 1
          BY <1>1, <3>2, <3>4, <4>2
        <5> QED  BY <2>1, <5>1
      <4> QED  BY <4>1, <4>2
    <3>7. \A i \in a + 1 .. b - 1 : ~d.stk[i].busy
      <4>1. \A i \in a + 1 .. b - 1 : i \in 1 .. b - 1
        BY <3>2
      <4> QED  BY <3>3, <3>5, <4>1 DEF Part, Within
    <3>8. \A i \in a + 1 .. x : ~d.stk[i].busy
      <4>1. CASE j = m - 1
        <5>1. \A i \in a + 1 .. b : i = b \/ i \in a + 1 .. b - 1
          BY <3>2
        <5>2. ~d.stk[b].busy
          BY <1>10, <2>1, <3>4, <4>1
        <5> QED  BY <3>7, <4>1, <5>1, <5>2
      <4>2. CASE j # m - 1
        BY <3>7, <4>2
      <4> QED  BY <4>1, <4>2
    <3>9. x \in Nat /\ a <= b
      BY <3>2
    <3> DEFINE y == b - 1
    <3>10. Part(c, j, a, y, b)
      BY <3>3
    <3> HIDE DEF x, y
    <3>11. Part(d, j, a, x, b)
      BY <1>10, <3>2, <3>3, <3>5, <3>6, <3>8, <3>9, <3>10, PartSame
    <3> QED  BY <3>11 DEF a, b, x
  <2>7. Shown(d, seg1)
    <3>1. ASSUME NEW j \in 1 .. (m - 1) - 1 PROVE Part(d, j, seg1[j], seg1[j + 1] - 1, seg1[j + 1])
      <4>1. j \in 1 .. m - 1 /\ j + 1 \in 1 .. m - 1 /\ j # m - 1
        BY <1>3
      <4>2. Part(d, j, seg[j], seg[j + 1] - 1, seg[j + 1])
        BY <2>6, <4>1
      <4> QED  BY <1>8, <4>1, <4>2
    <3>2. Part(d, m - 1, seg1[m - 1], n, n)
      <4>1. m - 1 \in 1 .. m - 1 /\ (m - 1) + 1 = m
        BY <1>3, <1>4
      <4>2. Part(d, m - 1, seg[m - 1], seg[(m - 1) + 1], seg[(m - 1) + 1])
        BY <2>6, <4>1
      <4> QED  BY <1>4, <1>8, <4>1, <4>2
    <3> QED  BY <1>8, <2>1, <2>5, <3>1, <3>2 DEF Shown
  <2>8. Shape(d)
    <3>1. Len(d.stk) \in Nat /\ Len(d.stk) >= n - 1
      BY <1>1, <2>1
    <3>2. n .. Len(d.stk) - 1 = {} /\ \A i \in n .. Len(d.stk) : i = n
      BY <1>1, <2>1
    <3>3. \A i \in n .. Len(d.stk) : Fits(d.stk[i], i, c.call)
      BY <1>10, <2>1, <3>2
    <3>4. ASSUME NEW i \in n .. Len(d.stk), i > 1 PROVE Over(d.stk[i - 1], d.stk[i], c.call)
      <4>1. n - 1 \in 1 .. n - 1 /\ n \in 2 .. n /\ i = n
        <5>1. n - 1 \in 1 .. n - 1 /\ n \in 2 .. n
          BY <1>1, <1>5
        <5> QED  BY <3>2, <5>1
      <4>2. Over(c.stk[n - 1], Top(c), c.call)
        BY <1>1, <4>1 DEF Shape, n
      <4> QED  BY <1>10, <2>1, <4>1, <4>2 DEF Over
    <3> QED  BY <1>1, <1>10, <2>1, <3>1, <3>2, <3>3, <3>4, ShapeChange DEF n
  <2>9. Seqs(d) /\ Given(d)
    <3>1. \A j \in 1 .. m - 1 : j \in 1 .. m
      BY <1>3
    <3> QED  BY <1>1, <1>3, <1>10, <2>2, <3>1 DEF Seqs, Given
  <2> QED  BY <2>7, <2>8, <2>9 DEF Texts
<1> QED  BY <1>9, <1>10 DEF n

LEMMA HttpReadTexts ==
    ASSUME IInv, WInv, NEW self \in Procs, HttpRead(self)
    PROVE  WInv'
<1> DEFINE c == st[self]
           f == Top(c)
           field == FieldOf(f)
           complex == Kind(field.typ) \notin Scalars
           g == [f EXCEPT !.busy = TRUE]
           val == Lit(Ahead(c).n)
           h == [f EXCEPT !.val = val]
           v == ValueFrame(field.typ, f.resp)
           r == Retop(c, h)
           a == Advance(r)
           b == Retop(c, g)
           p == Push(b, v)
           e == [p EXCEPT !.outs = Append(@, <<>>)]
           d == IF complex THEN e ELSE IF Ahead(c).t = "val" THEN a ELSE Return(c, "error")
<1>1. At(self, "http") /\ f.val = <<>> /\ ~f.busy /\ Go(self, d)
  BY DEF HttpRead
<1>2. /\ Running(c) /\ Texts(c) /\ c.stk # <<>> /\ f.k = "http" /\ IsCall(c) /\ c.ret = "none"
      /\ FrameOK(f) /\ Fits(f, Len(c.stk), c.call) /\ Seqs(c) /\ f = Top(c) /\ Len(c.stk) \in Nat \ {0}
  BY <1>1, AtTexts
<1>3. ~f.exc
  BY <1>2 DEF Fits
<1> HIDE DEF c, f
<1>4. /\ g.k = "http" /\ g.busy = TRUE /\ g.unset = f.unset /\ g.exc = f.exc /\ g.root = f.root
      /\ g.comma = f.comma /\ g.typ = f.typ /\ g.val = f.val
  BY <1>2 DEF FrameOK, IsFrame, FrameKeys
<1>5. /\ h.k = "http" /\ h.busy = f.busy /\ h.unset = f.unset /\ h.exc = f.exc /\ h.root = f.root
      /\ h.comma = f.comma /\ h.typ = f.typ /\ h.val = val
  BY <1>2 DEF FrameOK, IsFrame, FrameKeys
<1>6. v.k = "value" /\ ~v.busy /\ Fits(v, Len(c.stk) + 1, c.call)
  BY <1>2, ValueFits
<1>7. IsJSON(val)
  BY LitIsJSON
<1> HIDE DEF g, h, v, val, field
<1>8. Fits(g, Len(c.stk), c.call) /\ Fits(h, Len(c.stk), c.call)
  BY <1>2, <1>4, <1>5, <1>7 DEF Fits, StructKinds
<1>9. Sym(g) = Sym(f)
  BY <1>2, <1>4 DEF Sym
<1>10. Tells(e)
  <2>1. /\ IsCall(b) /\ b.call = c.call /\ b.sets = c.sets /\ b.outs = c.outs /\ b.ret = c.ret
        /\ b.stk = Append(Front(c.stk), g)
    BY <1>2, RetopParts
  <2> HIDE DEF b
  <2>2. /\ IsCall(p) /\ p.call = b.call /\ p.sets = b.sets /\ p.outs = b.outs /\ p.ret = b.ret
        /\ p.stk = Append(b.stk, v)
    BY <2>1, PushParts
  <2> HIDE DEF p
  <2>3. /\ e.call = p.call /\ e.sets = p.sets /\ e.outs = Append(p.outs, <<>>) /\ e.ret = p.ret
        /\ e.stk = p.stk
    BY <2>2 DEF IsCall, CallKeys
  <2> HIDE DEF e
  <2>4. /\ e.call = c.call /\ e.sets = c.sets /\ e.stk = Append(Append(Front(c.stk), g), v)
        /\ e.outs = Append(c.outs, <<>>) /\ e.ret = "none"
    BY <1>2, <2>1, <2>2, <2>3
  <2>5. /\ Top(c).k = "http" /\ ~Top(c).busy /\ g.busy /\ Sym(g) = Sym(Top(c)) /\ g.unset = Top(c).unset
    BY <1>1, <1>2, <1>4, <1>9
  <2>6. Texts(e)
    BY <1>2, <1>4, <1>6, <1>8, <2>4, <2>5, BeganTexts
  <2> QED  BY <2>4, <2>6 DEF Tells
<1>11. Tells(a)
  <2>1. /\ IsCall(r) /\ r.call = c.call /\ r.sets = c.sets /\ r.outs = c.outs /\ r.ret = c.ret
        /\ r.stk = Append(Front(c.stk), h)
    BY <1>2, RetopParts
  <2> HIDE DEF r
  <2>2. /\ a.call = r.call /\ a.sets = r.sets /\ a.outs = r.outs /\ a.ret = r.ret /\ a.stk = r.stk
    BY <2>1, AdvanceParts
  <2> HIDE DEF a
  <2>3. /\ a.call = c.call /\ a.sets = c.sets /\ a.stk = Append(Front(c.stk), h) /\ a.outs = c.outs
        /\ a.ret = "none"
    BY <1>2, <2>1, <2>2
  <2>4. OutsFrom(c, a) /\ Last(a.outs) = Last(c.outs)
    BY <1>2, <2>3, SameOuts
  <2>5. /\ ~Top(c).busy /\ ~Top(c).exc /\ ~h.busy /\ (h.exc <=> Top(c).exc)
        /\ Top(c).k = "http" /\ h.unset = Top(c).unset
    BY <1>1, <1>2, <1>3, <1>5
  <2>6. \A w : Shows(OpenIn(Last(c.outs)), w, Top(c)) => Shows(OpenIn(Last(a.outs)), w, h)
    BY <1>5, <2>4, <2>5 DEF Shows
  <2>7. Texts(a)
    BY <1>2, <1>8, <2>3, <2>4, <2>5, <2>6, RetoppedTexts
  <2> QED  BY <2>3, <2>7 DEF Tells
<1>12. Tells(Return(c, "error"))
  BY <1>2, Failed
<1> HIDE DEF a, e, complex
<1>13. Tells(d)
  BY <1>10, <1>11, <1>12
<1> HIDE DEF d
<1> QED  BY <1>1, <1>13, TextStep DEF c

LEMMA HttpJSONTexts ==
    ASSUME IInv, WInv, NEW self \in Procs, HttpJSON(self)
    PROVE  WInv'
<1> DEFINE c == st[self]
           f == Top(c)
           val == Last(c.outs)
           g == [f EXCEPT !.val = val, !.busy = FALSE]
           b == Retop(c, g)
           d == [b EXCEPT !.outs = Front(@)]
<1>1. At(self, "http") /\ f.busy /\ Go(self, d)
  BY DEF HttpJSON
<1>2. /\ Running(c) /\ Texts(c) /\ c.stk # <<>> /\ f.k = "http" /\ IsCall(c) /\ c.ret = "none"
      /\ FrameOK(f) /\ Fits(f, Len(c.stk), c.call) /\ f = Top(c)
  BY <1>1, AtTexts
<1> HIDE DEF c, f
<1>3. /\ g.k = "http" /\ g.busy = FALSE /\ g.unset = f.unset /\ g.exc = f.exc /\ g.root = f.root
      /\ g.comma = f.comma /\ g.typ = f.typ /\ g.val = val
  BY <1>2 DEF FrameOK, IsFrame, FrameKeys
<1>4. IsJSON(val)
  BY <1>1, <1>2, EndedTexts
<1>5. Sym(g) = Sym(f)
  BY <1>2, <1>3 DEF Sym
<1> HIDE DEF g, val
<1>6. Fits(g, Len(c.stk), c.call)
  BY <1>2, <1>3, <1>4 DEF Fits, StructKinds
<1>7. /\ IsCall(b) /\ b.call = c.call /\ b.sets = c.sets /\ b.outs = c.outs /\ b.ret = c.ret
      /\ b.stk = Append(Front(c.stk), g)
  BY <1>2, RetopParts
<1> HIDE DEF b
<1>8. d.call = b.call /\ d.sets = b.sets /\ d.outs = Front(b.outs) /\ d.ret = b.ret /\ d.stk = b.stk
  BY <1>7 DEF IsCall, CallKeys
<1> HIDE DEF d
<1>9. /\ d.call = c.call /\ d.sets = c.sets /\ d.stk = Append(Front(c.stk), g) /\ d.outs = Front(c.outs)
      /\ d.ret = "none"
  BY <1>2, <1>7, <1>8
<1>10. Texts(d)
  <2>1. /\ g.k = "http" /\ ~g.busy /\ Sym(g) = Sym(Top(c)) /\ g.unset = Top(c).unset
        /\ Top(c).k = "http" /\ Top(c).busy
    BY <1>1, <1>2, <1>3, <1>5
  <2> QED  BY <1>2, <1>6, <1>9, <2>1, EndedTexts
<1>11. Tells(d)
  BY <1>9, <1>10 DEF Tells
<1> QED  BY <1>1, <1>11, TextStep DEF c

\* The response is given one more value.
LEMMA GivenMore ==
    ASSUME NEW c, Given(c), NEW x, IsJSON(x[3]), NEW d, d.sets = Append(c.sets, x)
    PROVE  Given(d)
<1> DEFINE s == c.sets
           t == Append(s, x)
<1>1. IsSeq(s) /\ \A i \in 1 .. Len(s) : IsJSON(s[i][3])
  BY DEF Given
<1>2. d.sets = t
  OBVIOUS
<1> HIDE DEF s
<1>3. /\ IsSeq(t) /\ Len(t) = Len(s) + 1 /\ t[Len(s) + 1] = x
      /\ \A i \in 1 .. Len(s) : t[i] = s[i]
  BY <1>1, Pushed
<1>4. Len(s) \in Nat
  BY <1>1, SeqShape
<1> HIDE DEF t
<1>5. ASSUME NEW i \in 1 .. Len(s) + 1 PROVE IsJSON(t[i][3])
  <2>1. i = Len(s) + 1 \/ i \in 1 .. Len(s)
    BY <1>4
  <2> QED  BY <1>1, <1>3, <2>1
<1> QED  BY <1>2, <1>3, <1>5 DEF Given

LEMMA HttpSetTexts ==
    ASSUME IInv, WInv, NEW self \in Procs, HttpSet(self)
    PROVE  WInv'
<1> DEFINE c == st[self]
           f == Top(c)
           hms == FieldOf(f).hms
           r == IF f.hm > Len(hms) THEN "end" ELSE Response(hms[f.hm], f.resp, f.val)
           set == <<hms[f.hm], f.id, f.val>>
           sets == Append(c.sets, set)
           e == [c EXCEPT !.sets = sets]
           g == [f EXCEPT !.hm = @ + 1]
           b == Retop(c, g)
           d == CASE r = "end"   -> HttpDone(c, f, FALSE)
                  [] r = "ok"    -> HttpDone([c EXCEPT !.sets = Append(@, <<hms[f.hm], f.id, f.val>>)],
                                             f, TRUE)
                  [] r = "panic" -> Return(c, "panic")
                  [] r = "error" -> IF c.call.opts.omit THEN b ELSE Return(c, "error")
<1>1. At(self, "http") /\ f.val # <<>> /\ Go(self, d)
  BY DEF HttpSet, HttpDone
<1>2. /\ Running(c) /\ Texts(c) /\ c.stk # <<>> /\ f.k = "http" /\ IsCall(c) /\ c.ret = "none"
      /\ FrameOK(f) /\ Fits(f, Len(c.stk), c.call) /\ Seqs(c) /\ Given(c) /\ f = Top(c)
  BY <1>1, AtTexts
<1>3. ~f.busy /\ ~f.exc /\ IsJSON(f.val)
  BY <1>1, <1>2 DEF FrameOK, Fits
<1>4. r \in {"end", "ok", "panic", "error"}
  BY DEF Response
<1>5. IsJSON(set[3])
  BY <1>3
<1> HIDE DEF c, f, hms, r, set
<1>6. Tells(HttpDone(c, f, FALSE))
  BY <1>2, <1>3, HttpDoneTexts
<1>7. Tells(HttpDone(e, f, TRUE))
  <2>1. /\ e.call = c.call /\ e.stk = c.stk /\ e.outs = c.outs /\ e.sets = sets
    BY <1>2 DEF IsCall, CallKeys
  <2>2. Given(e)
    BY <1>2, <1>5, <2>1, GivenMore
  <2> HIDE DEF sets
  <2>3. Running(e)
    BY <1>2, SetsOK
  <2> HIDE DEF e
  <2>4. Texts(e)
    BY <1>2, <2>1, <2>2, SameTexts
  <2>5. e.stk # <<>> /\ Top(e) = f
    BY <1>2, <2>1 DEF Top
  <2> QED  BY <1>2, <1>3, <2>3, <2>4, <2>5, HttpDoneTexts
<1>8. Tells(b)
  <2>1. /\ g.k = "http" /\ g.unset = f.unset /\ g.busy = f.busy /\ g.exc = f.exc /\ g.root = f.root
        /\ g.val = f.val /\ g.typ = f.typ /\ g.comma = f.comma
    BY <1>2 DEF FrameOK, IsFrame, FrameKeys
  <2> HIDE DEF g
  <2>2. Fits(g, Len(c.stk), c.call)
    BY <1>2, <2>1 DEF Fits, StructKinds
  <2>3. /\ b.call = c.call /\ b.sets = c.sets /\ b.outs = c.outs /\ b.ret = c.ret
        /\ b.stk = Append(Front(c.stk), g)
    BY <1>2, RetopParts
  <2> HIDE DEF b
  <2>4. OutsFrom(c, b) /\ Last(b.outs) = Last(c.outs)
    BY <1>2, <2>3, SameOuts
  <2>5. /\ ~Top(c).busy /\ ~Top(c).exc /\ ~g.busy /\ (g.exc <=> Top(c).exc)
        /\ Top(c).k = "http" /\ g.unset = Top(c).unset
    BY <1>2, <1>3, <2>1
  <2>6. \A w : Shows(OpenIn(Last(c.outs)), w, Top(c)) => Shows(OpenIn(Last(b.outs)), w, g)
    BY <2>1, <2>4, <2>5, <1>2 DEF Shows
  <2>7. Texts(b)
    BY <1>2, <2>2, <2>3, <2>4, <2>5, <2>6, RetoppedTexts
  <2> QED  BY <1>2, <2>3, <2>7 DEF Tells
<1>9. Tells(Return(c, "panic")) /\ Tells(Return(c, "error"))
  BY <1>2, Failed
<1>10. d \in {HttpDone(c, f, FALSE), HttpDone(e, f, TRUE), Return(c, "panic"), Return(c, "error"), b}
  <2> HIDE DEF b, HttpDone
  <2>1. [c EXCEPT !.sets = Append(@, <<hms[f.hm], f.id, f.val>>)] = e
    BY DEF set
  <2> HIDE DEF e
  <2> QED  BY <1>4, <2>1
<1> HIDE DEF d, e, b
<1>11. Tells(d)
  BY <1>6, <1>7, <1>8, <1>9, <1>10
<1> QED  BY <1>1, <1>11, TextStep DEF c

LEMMA UnsetTexts ==
    ASSUME IInv, WInv, NEW self \in Procs, Unset(self)
    PROVE  WInv'
<1> DEFINE c == st[self]
           f == Top(c)
           n == Len(c.stk)
           id == Min(Marks(f))
           field == Structs[f.s][id]
           opts == c.call.opts
           g == [f EXCEPT !.id = id + 1]
           http == [Frame EXCEPT !.k = "http", !.s = f.s, !.id = id, !.resp = f.resp, !.unset = TRUE]
           in == [buf |-> EmptyValue(field), at |-> 1]
           p == Push(c, http)
           e == [p EXCEPT !.in = Append(@, in)]
           d == IF id \notin DOMAIN Structs[f.s] THEN Return(c, "panic")
                ELSE IF field.req = "required" /\ ~opts.wReq THEN Return(c, "error")
                ELSE IF Skipped(field, opts) THEN Retop(c, g)
                ELSE IF opts.http /\ field.hms # <<>> THEN e
                ELSE MissingMember(c, f, id)
<1>1. At(self, "unsets") /\ Marks(f) # {} /\ Go(self, d)
  BY DEF Unset
<1>2. /\ Running(c) /\ Texts(c) /\ c.stk # <<>> /\ f.k = "unsets" /\ IsCall(c) /\ c.ret = "none"
      /\ FrameOK(f) /\ Fits(f, n, c.call) /\ Seqs(c) /\ f = Top(c) /\ n \in Nat \ {0}
  BY <1>1, AtTexts
<1>3. Opened(f)
  BY <1>2 DEF Opened, StructKinds
<1>4. f.exc => Mixed(c.call)
  <2>1. n \in StructFrames(self) /\ f = st[self].stk[n]
    BY <1>2, RunningShape DEF StructFrames
  <2>2. Visible(mem[f.bm]) \subseteq Marked(f.s)
    BY <2>1 DEF IInv, MarksOwned
  <2>3. Marked(f.s) # {}
    BY <1>1, <2>2 DEF Marks
  <2>4. SUFFICES ASSUME f.exc PROVE Mixed(c.call)
    OBVIOUS
  <2>5. /\ n = 1 /\ c.call.opts.exc /\ Kind(f.typ) = "struct" /\ f.s = Types[f.typ].s
        /\ f.typ = c.call.typ
    BY <1>2, <1>3, <2>4 DEF Fits, Opened
  <2> HIDE DEF c, f
  <2> QED  BY <2>3, <2>5 DEF Mixed
<1> HIDE DEF c, f, id
<1>5. Tells(Retop(c, g))
  <2> DEFINE to == id + 1
  <2>1. LET x == Retop(c, [Top(c) EXCEPT !.id = to]) IN Texts(x) /\ x.ret = "none"
    <3> HIDE DEF to
    <3> QED  BY <1>2, <1>3, <1>4, PassedTexts
  <2>2. Retop(c, g) = Retop(c, [Top(c) EXCEPT !.id = to])
    BY <1>2
  <2> HIDE DEF to
  <2> QED  BY <2>1, <2>2 DEF Tells
<1>6. Tells(e)
  <2>1. /\ http.k = "http" /\ http.busy = FALSE /\ http.exc = FALSE /\ http.root = FALSE
        /\ http.val = <<>> /\ http.unset = TRUE
    BY DEF Frame
  <2> HIDE DEF http, in
  <2>2. /\ IsCall(p) /\ p.call = c.call /\ p.sets = c.sets /\ p.outs = c.outs /\ p.ret = c.ret
        /\ p.stk = Append(c.stk, http)
    BY <1>2, PushParts
  <2> HIDE DEF p
  <2>3. /\ e.call = c.call /\ e.sets = c.sets /\ e.outs = c.outs /\ e.ret = c.ret
        /\ e.stk = Append(c.stk, http)
    BY <2>2 DEF IsCall, CallKeys
  <2> HIDE DEF e
  <2>4. Texts(e)
    BY <1>2, <1>3, <1>4, <2>1, <2>3, HttpTexts
  <2> QED  BY <1>2, <2>3, <2>4 DEF Tells
<1>7. Tells(MissingMember(c, f, id))
  <2>1. Texts(MissingMember(c, f, id)) /\ MissingMember(c, f, id).ret = "none"
    BY <1>2, <1>3, <1>4, MissingMemberTexts
  <2> QED  BY <2>1 DEF Tells
<1>8. Tells(Return(c, "panic")) /\ Tells(Return(c, "error"))
  BY <1>2, Failed
<1> HIDE DEF g, e
<1>9. Tells(d)
  BY <1>5, <1>6, <1>7, <1>8
<1> HIDE DEF d
<1> QED  BY <1>1, <1>9, TextStep DEF c

-----------------------------------------------------------------------------
(***************************************************************************)
(* The ends of a struct and of a call, and the theorem.                    *)
(***************************************************************************)
LEMMA CloseStructTexts ==
    ASSUME IInv, WInv, NEW self \in Procs, CloseStruct(self)
    PROVE  WInv'
<1> DEFINE c == st[self]
           f == Top(c)
           p == Pop(c)
           e == Write(p, <<<<"endobj">>>>)
           x == Return(c, "exception")
           d == IF f.exc THEN x ELSE e
<1>1. At(self, "unsets") /\ Go(self, d)
  BY DEF CloseStruct
<1>2. /\ Running(c) /\ Texts(c) /\ c.stk # <<>> /\ f.k = "unsets" /\ IsCall(c) /\ c.ret = "none"
      /\ FrameOK(f) /\ IsSeq(Last(c.outs)) /\ f = Top(c)
  BY <1>1, AtTexts
<1> HIDE DEF c, f
<1>3. ASSUME f.exc PROVE Tells(x)
  <2>1. PICK seg : Shown(c, seg)
    BY <1>2 DEF Texts
  <2>2. Len(c.stk) = 1 /\ Len(seg) = 1 /\ seg[1] = 1
    <3>1. Shape(c) /\ Top(c).exc
      BY <1>2, <1>3 DEF Texts
    <3> QED  BY <1>2, <2>1, <3>1, Alone
  <2>3. IsJSON(c.outs[1]) \/ Mixed(c.call)
    BY <2>1, <2>2 DEF Shown, Part, Reads, Free, IsJSON
  <2>4. x.call = c.call /\ x.sets = c.sets /\ x.outs = c.outs /\ x.ret = "exception"
    BY <1>2, ReturnParts
  <2> HIDE DEF x
  <2>5. Says(x)
    BY <1>2, <2>3, <2>4, Said
  <2> QED  BY <2>4, <2>5 DEF Tells
<1>4. ASSUME ~f.exc PROVE Tells(e)
  <2> DEFINE end == <<<<"endobj">>>>
  <2>1. /\ IsCall(p) /\ p.call = c.call /\ p.sets = c.sets /\ p.outs = c.outs /\ p.stk = Front(c.stk)
        /\ p.ret = c.ret
    BY <1>2, PopParts
  <2> HIDE DEF p
  <2>2. IsSeq(end)
    BY TokensAre
  <2> HIDE DEF end
  <2>3. /\ e.call = p.call /\ e.sets = p.sets /\ e.stk = p.stk /\ e.ret = p.ret
        /\ e.outs = Append(Front(p.outs), Last(p.outs) \o end)
    BY <2>1, WriteParts DEF end
  <2> HIDE DEF e
  <2>4. OutsFrom(c, e) /\ Last(e.outs) = Last(c.outs) \o end
    BY <1>2, <2>1, <2>2, <2>3, MoreText
  <2>5. ASSUME NEW w, IsSeq(w), Shows(OpenIn(Last(c.outs)), w, Top(c)) PROVE OpenIn(Last(e.outs)) = w
    <3> DEFINE t == Last(c.outs)
               in == Sym(f)
    <3>1. IsSeq(t) /\ OpenIn(t) = Append(w, in) /\ in \in {"object", "object0"}
      BY <1>2, <2>5 DEF Shows, Sym
    <3> HIDE DEF t, in
    <3>2. OpenIn(t \o end) = w
      BY <2>5, <3>1, EndText DEF end
    <3> QED  BY <2>4, <3>2 DEF t
  <2>6. ~Top(c).busy /\ ~Top(c).exc
    BY <1>2, <1>4 DEF FrameOK
  <2>7. e.call = c.call /\ e.sets = c.sets /\ e.stk = Front(c.stk) /\ e.ret = "none"
    BY <1>2, <2>1, <2>3
  <2>8. Texts(e)
    BY <1>2, <2>4, <2>5, <2>6, <2>7, PoppedTexts
  <2> QED  BY <2>7, <2>8 DEF Tells
<1>5. Tells(d)
  BY <1>3, <1>4
<1> HIDE DEF d
<1> QED  BY <1>1, <1>5, TextStep DEF c

LEMMA DoTexts ==
    ASSUME IInv, WInv, NEW self \in Procs, Do(self)
    PROVE  WInv'
<1>1. PICK call \in Calls[self] :
        Go(self, [Idle EXCEPT !.call = call, !.ret = "none", !.outs = <<<<>>>>,
                              !.in = <<[buf |-> call.msg, at |-> 1]>>,
                              !.stk = <<[ValueFrame(call.typ, call.opts.http) EXCEPT !.root = TRUE]>>])
  BY DEF Do
<1> DEFINE r == [buf |-> call.msg, at |-> 1]
           v == ValueFrame(call.typ, call.opts.http)
           f == [v EXCEPT !.root = TRUE]
           d == [Idle EXCEPT !.call = call, !.ret = "none", !.outs = <<<<>>>>, !.in = <<r>>, !.stk = <<f>>]
           seg == <<0>>
<1>2. /\ f.k = "value" /\ f.typ = call.typ /\ f.busy = FALSE /\ f.exc = FALSE /\ f.comma = FALSE
      /\ f.val = <<>>
  BY DEF ValueFrame, Frame
<1>3. /\ d.call = call /\ d.ret = "none" /\ d.outs = <<<<>>>> /\ d.stk = <<f>> /\ d.sets = <<>>
  BY DEF Idle
<1>4. Go(self, d)
  BY <1>1 DEF r, f, v
<1> HIDE DEF d, f
<1>5. \A x : IsSeq(<<x>>) /\ Len(<<x>>) = 1 /\ <<x>>[1] = x /\ <<x>> # <<>>
  <2> SUFFICES ASSUME NEW x PROVE IsSeq(<<x>>) /\ Len(<<x>>) = 1 /\ <<x>>[1] = x /\ <<x>> # <<>>
    OBVIOUS
  <2>1. <<x>> \in Seq({x})
    OBVIOUS
  <2>2. IsSeq(<<x>>)
    BY <2>1, SeqIsSeq
  <2> QED  BY <2>2
<1> DEFINE empty == <<>>
<1>6. IsSeq(empty) /\ Len(empty) = 0
  BY EmptyIsSeq
<1>7. OpenIn(empty) = Append(<<>>, "value")
  BY OpenInNothing
<1> HIDE DEF seg, empty
<1>8. Len(d.stk) = 1 /\ d.stk[1] = f /\ d.stk # <<>> /\ Len(d.outs) = 1 /\ d.outs[1] = empty
  BY <1>3, <1>5 DEF empty
<1>9. IsSeq(seg) /\ Len(seg) = 1 /\ seg[1] = 0
  BY <1>5 DEF seg
<1>10. /\ \A i \in 1 .. 1 : i = 1
       /\ 1 .. 1 - 1 = {} /\ 2 .. 1 = {} /\ 1 .. 0 = {}
       /\ \A i \in 0 + 1 .. 1 : i = 1
       /\ 0 \in 0 .. 1
  OBVIOUS
<1>11. Shape(d)
  <2>1. Fits(f, 1, d.call)
    BY <1>2, <1>3 DEF Fits, StructKinds
  <2> QED  BY <1>8, <1>10, <2>1 DEF Shape
<1>12. Given(d) /\ Seqs(d)
  BY <1>3, <1>6, <1>8, <1>10 DEF Given, Seqs, empty
<1>13. Places(d, seg)
  <2>1. Start(d.stk) = 0
    BY <1>2, <1>8 DEF Start
  <2>2. \A i, j \in 1 .. 1 : ~(i < j)
    OBVIOUS
  <2> QED  BY <1>8, <1>9, <1>10, <2>1, <2>2 DEF Places
<1>14. Part(d, 1, 0, 1, 1)
  <2>1. Within(d.stk, 0, 1)
    BY <1>2, <1>8, <1>10 DEF Within
  <2>2. Symbols(d.stk, 0, 0) = <<>>
    BY SymbolsNone
  <2>3. 1 - 1 = 0 /\ 1 # 0
    OBVIOUS
  <2>4. Reads(OpenIn(d.outs[1]), d.stk, 0, 1)
    BY <1>2, <1>7, <1>8, <2>2, <2>3 DEF Reads, Shows, Ready
  <2> QED  BY <2>1, <2>4 DEF Part
<1>15. Texts(d)
  BY <1>8, <1>9, <1>10, <1>11, <1>12, <1>13, <1>14 DEF Texts, Shown
<1>16. Tells(d)
  BY <1>3, <1>15 DEF Tells
<1> QED  BY <1>4, <1>16, TextStep

LEMMA FinishTexts ==
    ASSUME IInv, WInv, NEW self \in Procs, Finish(self)
    PROVE  WInv'
<1> DEFINE c == st[self]
           d == Return(c, "ok")
<1>1. c.ret = "none" /\ c.stk = <<>> /\ Go(self, d)
  BY DEF Finish
<1>2. Running(c) /\ Texts(c)
  <2>1. CallOK(c) /\ Tells(c)
    BY DEF IInv, WInv
  <2> QED  BY <1>1, <2>1 DEF CallOK, Returned, Tells
<1> HIDE DEF c
<1>3. PICK seg : Shown(c, seg)
  BY <1>2 DEF Texts
<1> DEFINE m == Len(seg)
<1>4. m \in Nat \ {0} /\ Len(c.outs) = m /\ Len(c.stk) = 0
  BY <1>1, <1>2, <1>3, ShownShape
<1>5. /\ \A j \in 1 .. m : seg[j] \in 0 .. 0
      /\ \A i, j \in 1 .. m : i < j => seg[i] < seg[j]
      /\ Part(c, m, seg[m], 0, 0)
  BY <1>3, <1>4 DEF Shown, Places
<1> HIDE DEF m
<1>6. m = 1 /\ seg[1] = 0
  <2>1. 1 \in 1 .. m /\ m \in 1 .. m
    BY <1>4
  <2>2. seg[1] = 0 /\ seg[m] = 0
    BY <1>5, <2>1
  <2>3. ~(1 < m)
    BY <1>5, <2>1, <2>2
  <2> QED  BY <1>4, <2>2, <2>3
<1>7. IsJSON(c.outs[1]) \/ Mixed(c.call)
  BY <1>5, <1>6 DEF Part, Reads, Free, IsJSON
<1>8. d.call = c.call /\ d.sets = c.sets /\ d.outs = c.outs /\ d.ret = "ok"
  BY <1>2, ReturnParts DEF Running
<1> HIDE DEF d
<1>9. Says(d)
  BY <1>2, <1>7, <1>8, Said
<1>10. Tells(d)
  BY <1>8, <1>9 DEF Tells
<1> QED  BY <1>1, <1>10, TextStep DEF c

LEMMA InitWInv == Init => WInv
<1>1. Idle.ret = "idle"
  BY DEF Idle
<1>2. ASSUME Init, NEW p \in Procs PROVE Tells(st[p])
  <2>1. st[p] = Idle
    BY <1>2 DEF Init
  <2> QED  BY <1>1, <2>1 DEF Tells
<1> QED  BY <1>2 DEF WInv

LEMMA NextWInv == IInv /\ WInv /\ [Next]_vars => WInv'
<1> SUFFICES ASSUME IInv, WInv, [Next]_vars PROVE WInv'
  OBVIOUS
<1>1. CASE UNCHANGED vars
  <2>1. st' = st
    BY <1>1 DEF vars
  <2>2. \A p \in Procs : Tells(st'[p])
    BY <2>1 DEF WInv
  <2> QED  BY <2>2 DEF WInv, Tells, Texts, Says, Shape, Given, Seqs, Shown, Places, Part, Fits, Over
<1>2. CASE Next
  <2>1. PICK self \in Procs : Do(self) \/ Step(self)
    BY <1>2 DEF Next
  <2> QED  BY <2>1, ReadScalarTexts, OpenElemsTexts, ElementTexts, OpenStructTexts, FieldsTexts,
              KnownFieldTexts, HttpReadTexts, HttpJSONTexts, HttpSetTexts, UnsetTexts,
              CloseStructTexts, DoTexts, FinishTexts DEF Step
<1> QED  BY <1>1, <1>2

LEMMA TextsAreJSON == IInv /\ WInv => WritesJSON
<1> SUFFICES ASSUME IInv, WInv, NEW p \in Procs, st[p].ret # "idle" PROVE Says(st[p])
  BY DEF WritesJSON, Says
<1> DEFINE c == st[p]
<1>1. CallOK(c) /\ Tells(c)
  BY DEF IInv, WInv
<1>2. CASE c.ret = "none"
  <2>1. Running(c) /\ Texts(c)
    BY <1>1, <1>2 DEF CallOK, Returned, Tells
  <2>2. c.ret \notin {"ok", "exception"}
    BY <1>2
  <2> HIDE DEF c
  <2>3. Says(c)
    BY <2>1, <2>2, Said
  <2> QED  BY <2>3 DEF c
<1>3. CASE c.ret # "none"
  BY <1>1, <1>3 DEF Tells
<1> QED  BY <1>2, <1>3

-----------------------------------------------------------------------------
\* Whatever the IDL, the message, the options and the goroutines are, what each open call of
\* do or doRecurse has written is the beginning of a JSON text, and what the response is given
\* and what is returned, with or without an exception, is a whole one (impl.go).  The one case left
\* out is an exception that a struct with missing fields raises.
THEOREM OutputIsJSON == Spec => []WritesJSON
<1>1. Init => IInv /\ WInv
  BY InitIInv, InitWInv
<1>2. IInv /\ WInv /\ [Next]_vars => (IInv /\ WInv)'
  BY NextIInv, NextWInv
<1>3. IInv /\ WInv => WritesJSON
  BY TextsAreJSON
<1> QED  BY <1>1, <1>2, <1>3, PTL DEF Spec
=============================================================================
