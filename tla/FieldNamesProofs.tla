-------------------------- MODULE FieldNamesProofs --------------------------
(***************************************************************************)
(* Proofs about FieldNames, for all names, values and hash functions: the  *)
(* types, that a built map answers what was set, and that the hash map is  *)
(* never full.                                                             *)
(***************************************************************************)
EXTENDS FieldNames, FiniteSetTheorems, TLAPS

USE NamesAssumption

\* No name twice.
NoTwins(ps) == \A i, j \in DOMAIN ps : ps[i].key = ps[j].key => i = j
Has(ps, k)  == \E i \in DOMAIN ps : ps[i].key = k

\* How many entries of built are in the structure.
Filled == IF filling = 0 THEN Len(built) ELSE filling - 1

-----------------------------------------------------------------------------
(***************************************************************************)
(* Sequences of pairs.                                                     *)
(***************************************************************************)
\* The value of the only pair with a name.
LEMMA FindIs ==
    ASSUME NEW S, NEW ps \in Seq(S), NoTwins(ps), NEW i \in DOMAIN ps
    PROVE  Find(ps, ps[i].key) = ps[i].val
<1>1. FirstAt(ps, ps[i].key, i)
  BY DEF FirstAt, NoTwins
<1>2. \A j \in DOMAIN ps : FirstAt(ps, ps[i].key, j) => j = i
  BY DEF FirstAt, NoTwins
<1> QED  BY <1>1, <1>2 DEF Find

LEMMA FindNone ==
    ASSUME NEW S, NEW ps \in Seq(S), NEW k, ~Has(ps, k)
    PROVE  Find(ps, k) = None
BY DEF Find, Has, FirstAt

\* Put on pairs without twins: types, no twins, the new pair, the others.
LEMMA PutIs ==
    ASSUME NEW ps \in Seq(Pair), NoTwins(ps), NEW k \in Keys, NEW v \in Vals
    PROVE  /\ Put(ps, k, v) \in Seq(Pair)
           /\ NoTwins(Put(ps, k, v))
           /\ \E i \in DOMAIN Put(ps, k, v) : Put(ps, k, v)[i] = [key |-> k, val |-> v]
           /\ \A i \in DOMAIN Put(ps, k, v) :
                 \/ Put(ps, k, v)[i] = [key |-> k, val |-> v]
                 \/ \E j \in DOMAIN ps : ps[j] = Put(ps, k, v)[i] /\ ps[j].key # k
           /\ \A j \in DOMAIN ps : ps[j].key # k => \E i \in DOMAIN Put(ps, k, v) : Put(ps, k, v)[i] = ps[j]
<1> DEFINE new == [key |-> k, val |-> v]
<1>0. new \in Pair
  BY DEF Pair
<1>1. CASE Has(ps, k)
  <2>1. PICK m \in DOMAIN ps : ps[m].key = k
    BY <1>1 DEF Has
  <2>2. \A i \in DOMAIN ps : FirstAt(ps, k, i) <=> i = m
    BY <2>1 DEF FirstAt, NoTwins
  <2>3. Put(ps, k, v) = [i \in DOMAIN ps |-> IF FirstAt(ps, k, i) THEN [ps[i] EXCEPT !.val = v] ELSE ps[i]]
    BY <1>1 DEF Put, Has
  <2>4. [ps[m] EXCEPT !.val = v] = new
    <3>1. ps[m] \in Pair
      OBVIOUS
    <3>2. ps[m] = [key |-> k, val |-> ps[m].val]
      BY <2>1, <3>1 DEF Pair
    <3> QED  BY <3>2
  <2>5. Put(ps, k, v) = [i \in DOMAIN ps |-> IF i = m THEN new ELSE ps[i]]
    BY <2>2, <2>3, <2>4
  <2>6. Put(ps, k, v) \in Seq(Pair) /\ DOMAIN Put(ps, k, v) = DOMAIN ps
    BY <1>0, <2>5
  <2>7. \A i \in DOMAIN ps : Put(ps, k, v)[i] = IF i = m THEN new ELSE ps[i]
    BY <2>5
  <2> HIDE DEF new
  <2>8. new.key = k
    BY DEF new
  <2>9. NoTwins(Put(ps, k, v))
    BY <2>1, <2>6, <2>7, <2>8 DEF NoTwins
  <2>10. \A i \in DOMAIN Put(ps, k, v) :
            Put(ps, k, v)[i] = new \/ \E j \in DOMAIN ps : ps[j] = Put(ps, k, v)[i] /\ ps[j].key # k
    BY <2>1, <2>6, <2>7 DEF NoTwins
  <2>11. \A j \in DOMAIN ps : ps[j].key # k => \E i \in DOMAIN Put(ps, k, v) : Put(ps, k, v)[i] = ps[j]
    BY <2>1, <2>6, <2>7
  <2> QED  BY <2>1, <2>6, <2>7, <2>9, <2>10, <2>11 DEF new
<1>2. CASE ~Has(ps, k)
  <2>1. Put(ps, k, v) = Append(ps, new)
    BY <1>2 DEF Put, Has
  <2> HIDE DEF new
  <2>2. Append(ps, new) \in Seq(Pair) /\ Len(Append(ps, new)) = Len(ps) + 1
        /\ DOMAIN Append(ps, new) = 1 .. Len(ps) + 1 /\ DOMAIN ps = 1 .. Len(ps)
    BY <1>0
  <2>3. Append(ps, new)[Len(ps) + 1] = new /\ \A i \in 1 .. Len(ps) : Append(ps, new)[i] = ps[i]
    BY <1>0
  <2>4. new.key = k
    BY DEF new
  <2>5. \A i \in DOMAIN ps : ps[i].key # k
    BY <1>2 DEF Has
  <2>6. NoTwins(Append(ps, new))
    BY <2>2, <2>3, <2>4, <2>5 DEF NoTwins
  <2> QED  BY <2>1, <2>2, <2>3, <2>5, <2>6 DEF new
<1> QED  BY <1>1, <1>2

-----------------------------------------------------------------------------
(***************************************************************************)
(* The inductive invariant.                                                *)
(***************************************************************************)
\* The collected pairs, and those the last Build started from.
Collected ==
    /\ NoTwins(all) /\ NoTwins(built)
    /\ filling # 0 => all = built /\ kind # "none"
    /\ kind # "none" => Len(built) > 0
    /\ maxKeyLength > 0 => \E i \in DOMAIN all : all[i].key # <<>>
    /\ kind = "trie" => \E i \in DOMAIN built : built[i].key # <<>>
    /\ empty # None => \E i \in DOMAIN built : built[i].key = <<>> /\ built[i].val = empty

\* The slots: what was added can be found, what is found was added, and there are no more
\* slots in use than entries added.
UsedSlots(t) == {p \in 0 .. t.N - 1 : Used(t, p)}
InHash(t) ==
    /\ t.N = LoadFactor * Len(built)
    /\ t.c <= IF filling = 0 THEN Len(built) + 1 ELSE filling - 1
    /\ Cardinality(UsedSlots(t)) <= t.c
    /\ \A i \in 1 .. Filled : Hash(built[i].key) # 0 =>
          \E d \in 0 .. t.N - 1 : FoundAt(t, Hash(built[i].key), built[i].key, d)
    /\ \A p \in UsedSlots(t) :
          /\ t.b[p].hash = Hash(t.b[p].key)
          /\ \E i \in 1 .. Filled : built[i].key = t.b[p].key /\ built[i].val = t.b[p].val

\* The nodes, the same way.
InNode(t, p) == /\ t.leaves
                /\ NodeOf(t, p.key) + 1 \in DOMAIN t.nodes
                /\ \E m \in DOMAIN t.nodes[NodeOf(t, p.key) + 1] : t.nodes[NodeOf(t, p.key) + 1][m] = p
InTrie(t) ==
    /\ \A j \in DOMAIN t.nodes : NoTwins(t.nodes[j])
    /\ \A i \in 1 .. Filled : built[i].key # <<>> => InNode(t, built[i])
    /\ \A j \in DOMAIN t.nodes : \A m \in DOMAIN t.nodes[j] :
          \E i \in 1 .. Filled : built[i] = t.nodes[j][m]
    /\ \A i \in 1 .. Filled : built[i].key = <<>> => t.empty = built[i].val
    /\ (\A i \in 1 .. Filled : built[i].key # <<>>) => t.empty = None

IsHash(t) == t = [N |-> t.N, c |-> t.c, b |-> t.b]

IInv == /\ TypeOK /\ IsHash(hash)
        /\ Collected
        /\ kind = "hash" => InHash(hash)
        /\ kind = "trie" => InTrie(trie)

-----------------------------------------------------------------------------
(***************************************************************************)
(* The hash map.                                                           *)
(***************************************************************************)
IsTable(t) == /\ IsHash(t) /\ t.N \in Nat \ {0} /\ t.c \in Nat
              /\ t.b \in [0 .. t.N - 1 -> Slots]

LEMMA HashNat == ASSUME NEW k \in Keys PROVE Hash(k) \in Nat
OBVIOUS

\* Probing stays inside the slots.
LEMMA SlotIn ==
    ASSUME NEW t, t.N \in Nat \ {0}, NEW h \in Nat, NEW d \in Nat
    PROVE  Slot(t, h, d) \in 0 .. t.N - 1
<1>1. h % t.N \in 0 .. t.N - 1
  OBVIOUS
<1>2. (h % t.N) + d \in Nat
  BY <1>1
<1> QED  BY <1>2 DEF Slot

\* HashPut fills one slot that was free and leaves the others alone.
LEMMA HashPutIs ==
    ASSUME NEW t, IsTable(t), NEW k \in Keys, NEW v \in Values,
           NEW d \in 0 .. t.N - 1, FreeAfter(t, k, d)
    PROVE  LET u == HashPut(t, k, v, d)
               s == Slot(t, Hash(k), d)
           IN  /\ IsTable(u) /\ u.N = t.N /\ u.c = t.c + 1
               /\ s \in 0 .. t.N - 1 /\ ~Used(t, s)
               /\ u.b[s].hash = Hash(k) /\ u.b[s].key = k /\ u.b[s].val = v
               /\ \A p \in 0 .. t.N - 1 : p # s => u.b[p] = t.b[p]
<1> DEFINE u == HashPut(t, k, v, d)
           s == Slot(t, Hash(k), d)
           r == [hash |-> Hash(k), key |-> k, val |-> v]
<1>1. s \in 0 .. t.N - 1
  BY HashNat, SlotIn DEF IsTable
<1>2. ~Used(t, s)
  BY DEF FreeAfter
<1>3. r \in Slots /\ r.hash = Hash(k) /\ r.key = k /\ r.val = v
  BY HashNat DEF Slots
<1> HIDE DEF s, r
<1>4. u = [N |-> t.N, c |-> t.c + 1, b |-> [t.b EXCEPT ![s] = r]]
  <2>1. t = [N |-> t.N, c |-> t.c, b |-> t.b]
    BY DEF IsTable, IsHash
  <2>2. u = [t EXCEPT !.c = t.c + 1, !.b[s] = r]
    BY DEF HashPut, s, r
  <2> HIDE DEF u
  <2> QED  BY <2>1, <2>2
<1> HIDE DEF u
<1>5. u.N = t.N /\ u.c = t.c + 1 /\ u.b = [t.b EXCEPT ![s] = r]
  BY <1>4
<1>6. u.b[s] = r /\ \A p \in 0 .. t.N - 1 : p # s => u.b[p] = t.b[p]
  BY <1>1, <1>5 DEF IsTable
<1>7. IsTable(u)
  <2>1. u.b \in [0 .. u.N - 1 -> Slots]
    BY <1>1, <1>3, <1>5 DEF IsTable
  <2>2. IsHash(u)
    BY <1>4, <1>5 DEF IsHash
  <2> QED  BY <1>5, <2>1, <2>2 DEF IsTable
<1> QED  BY <1>1, <1>2, <1>3, <1>5, <1>6, <1>7 DEF u, s

\* What can be found stays so: its slot and those before it are in use, and the new name went
\* into a free one.
LEMMA FoundStays ==
    ASSUME NEW t, IsTable(t), NEW u, u.N = t.N,
           NEW s \in 0 .. t.N - 1, ~Used(t, s),
           \A p \in 0 .. t.N - 1 : p # s => u.b[p] = t.b[p],
           NEW h \in Nat, NEW k, NEW d \in 0 .. t.N - 1, FoundAt(t, h, k, d)
    PROVE  FoundAt(u, h, k, d)
<1>1. \A e \in 0 .. d : Slot(u, h, e) = Slot(t, h, e) /\ Slot(t, h, e) \in 0 .. t.N - 1
  <2>1. ASSUME NEW e \in 0 .. d PROVE Slot(t, h, e) \in 0 .. t.N - 1
    <3>1. e \in Nat
      OBVIOUS
    <3> QED  BY <3>1, SlotIn DEF IsTable
  <2> QED  BY <2>1 DEF Slot
<1>2. \A e \in 0 .. d : Used(t, Slot(t, h, e))
  BY DEF FoundAt, Passes, Holds, IsTable
<1>3. \A e \in 0 .. d : u.b[Slot(t, h, e)] = t.b[Slot(t, h, e)]
  BY <1>1, <1>2
<1>4. \A e \in 0 .. d : /\ Used(u, Slot(u, h, e)) <=> Used(t, Slot(t, h, e))
                        /\ Holds(u, Slot(u, h, e), h, k) <=> Holds(t, Slot(t, h, e), h, k)
  BY <1>1, <1>3 DEF Used, Holds
<1> QED  BY <1>4 DEF FoundAt, Passes, IsTable

\* A name that no slot holds can be found where it was put.
LEMMA FoundWherePut ==
    ASSUME NEW t, IsTable(t), NEW u, u.N = t.N, NEW k \in Keys, NEW d \in 0 .. t.N - 1,
           FreeAfter(t, k, d),
           u.b[Slot(t, Hash(k), d)].hash = Hash(k), u.b[Slot(t, Hash(k), d)].key = k,
           \A p \in 0 .. t.N - 1 : p # Slot(t, Hash(k), d) => u.b[p] = t.b[p],
           \A p \in UsedSlots(t) : t.b[p].key # k,
           Hash(k) # 0
    PROVE  FoundAt(u, Hash(k), k, d)
<1> DEFINE s(e) == Slot(t, Hash(k), e)
<1>0. ~Used(t, s(d)) /\ \A e \in 0 .. d - 1 : Used(t, s(e))
  BY DEF FreeAfter
<1>1. \A e \in 0 .. d : Slot(u, Hash(k), e) = s(e) /\ s(e) \in 0 .. t.N - 1
  <2>1. ASSUME NEW e \in 0 .. d PROVE s(e) \in 0 .. t.N - 1
    <3>1. e \in Nat /\ Hash(k) \in Nat
      BY HashNat
    <3> QED  BY <3>1, SlotIn DEF IsTable
  <2> QED  BY <2>1 DEF Slot
<1> HIDE DEF s
<1>2. \A e \in 0 .. d - 1 : s(e) # s(d) /\ s(e) \in UsedSlots(t)
  BY <1>0, <1>1 DEF UsedSlots, IsTable
<1>3. \A e \in 0 .. d - 1 : u.b[s(e)] = t.b[s(e)]
  BY <1>1, <1>2 DEF s, IsTable
<1>4. \A e \in 0 .. d - 1 : Used(u, s(e)) /\ ~Holds(u, s(e), Hash(k), k)
  BY <1>0, <1>2, <1>3 DEF Used, Holds
<1>5. Holds(u, s(d), Hash(k), k)
  BY DEF s, Holds, Used
<1> QED  BY <1>1, <1>4, <1>5 DEF FoundAt, Passes, IsTable

LEMMA UsedFinite ==
    ASSUME NEW t, t.N \in Nat
    PROVE  IsFiniteSet(UsedSlots(t)) /\ Cardinality(UsedSlots(t)) \in Nat
<1>1. IsFiniteSet(0 .. t.N - 1)
  BY FS_Interval
<1>2. IsFiniteSet(UsedSlots(t))
  BY <1>1, FS_Subset DEF UsedSlots
<1> QED  BY <1>2, FS_CardinalityType

\* One more slot is in use at most.
LEMMA UsedGrows ==
    ASSUME NEW t, t.N \in Nat, NEW u, u.N = t.N, NEW s \in 0 .. t.N - 1,
           \A p \in 0 .. t.N - 1 : p # s => u.b[p] = t.b[p]
    PROVE  Cardinality(UsedSlots(u)) <= Cardinality(UsedSlots(t)) + 1
<1>1. UsedSlots(u) \subseteq UsedSlots(t) \cup {s}
  BY DEF UsedSlots, Used
<1>3. IsFiniteSet(UsedSlots(t))
  BY UsedFinite
<1>4. IsFiniteSet(UsedSlots(t) \cup {s}) /\ Cardinality(UsedSlots(t) \cup {s}) <= Cardinality(UsedSlots(t)) + 1
  <2>1. Cardinality(UsedSlots(t)) \in Nat
    BY <1>3, FS_CardinalityType
  <2> DEFINE S == UsedSlots(t)
  <2>2. IsFiniteSet(S) /\ Cardinality(S) \in Nat
    BY <1>3, <2>1
  <2> HIDE DEF S
  <2>3. /\ IsFiniteSet(S \cup {s})
        /\ Cardinality(S \cup {s}) = IF s \in S THEN Cardinality(S) ELSE Cardinality(S) + 1
    BY <2>2, FS_AddElement
  <2>4. IsFiniteSet(S \cup {s}) /\ Cardinality(S \cup {s}) <= Cardinality(S) + 1
    BY <2>2, <2>3
  <2> QED  BY <2>4 DEF S
<1>5. Cardinality(UsedSlots(u)) <= Cardinality(UsedSlots(t) \cup {s})
  BY <1>1, <1>4, FS_Subset
<1>6. IsFiniteSet(UsedSlots(u))
  BY <1>1, <1>4, FS_Subset
<1>7. /\ Cardinality(UsedSlots(u)) \in Nat /\ Cardinality(UsedSlots(t)) \in Nat
      /\ Cardinality(UsedSlots(t) \cup {s}) \in Nat
  BY <1>3, <1>4, <1>6, FS_CardinalityType
<1> QED  BY <1>4, <1>5, <1>7

\* An empty table uses no slot.
LEMMA NewHashIs ==
    ASSUME NEW n \in Nat
    PROVE  /\ IsHash(NewHash(n)) /\ NewHash(n).N = n /\ NewHash(n).c = 0
           /\ NewHash(n).b \in [0 .. n - 1 -> Slots]
           /\ UsedSlots(NewHash(n)) = {} /\ Cardinality(UsedSlots(NewHash(n))) = 0
<1>1. NewHash(n) = [N |-> n, c |-> 0, b |-> [p \in 0 .. n - 1 |-> Free]]
  BY DEF NewHash
<1>2. Free \in Slots /\ Free.hash = 0
  BY DEF Free, Slots, Values
<1> HIDE DEF Free
<1>3. UsedSlots(NewHash(n)) = {}
  BY <1>1, <1>2 DEF UsedSlots, Used
<1>4. Cardinality(UsedSlots(NewHash(n))) = 0
  BY <1>3, FS_EmptySet
<1>5. NewHash(n).N = n /\ NewHash(n).c = 0 /\ NewHash(n).b \in [0 .. n - 1 -> Slots]
  BY <1>1, <1>2
<1>6. IsHash(NewHash(n))
  BY <1>1 DEF IsHash
<1> QED  BY <1>3, <1>4, <1>5, <1>6

\* What probing finds is in a slot.
LEMMA HeldSlot ==
    ASSUME NEW t, IsTable(t), NEW h \in Nat, NEW k, NEW d \in 0 .. t.N - 1, FoundAt(t, h, k, d)
    PROVE  Slot(t, h, d) \in UsedSlots(t) /\ t.b[Slot(t, h, d)].key = k
<1>1. Slot(t, h, d) \in 0 .. t.N - 1
  <2>1. d \in Nat
    OBVIOUS
  <2> QED  BY <2>1, SlotIn DEF IsTable
<1> QED  BY <1>1 DEF FoundAt, Holds, UsedSlots

\* A filled table answers as its pairs do.
LEMMA HashAnswers ==
    ASSUME IsTable(hash), InHash(hash), built \in Seq(Pair), NoTwins(built), filling = 0,
           NEW k \in Asked, Hash(k) # 0
    PROVE  HashGet(hash, k) = Find(built, k)
<1> DEFINE h == Hash(k)
           D == 0 .. hash.N - 1
<1>0. h \in Nat
  OBVIOUS
<1>1. Filled = Len(built) /\ DOMAIN built = 1 .. Filled
  BY DEF Filled
<1>2. ASSUME NEW d \in D, FoundAt(hash, h, k, d)
      PROVE  Has(built, k) /\ hash.b[Slot(hash, h, d)].val = Find(built, k)
  <2>1. Slot(hash, h, d) \in UsedSlots(hash) /\ hash.b[Slot(hash, h, d)].key = k
    BY <1>0, <1>2, HeldSlot
  <2>2. PICK i \in DOMAIN built : built[i].key = k /\ built[i].val = hash.b[Slot(hash, h, d)].val
    BY <1>1, <2>1 DEF InHash
  <2> QED  BY <2>2, FindIs DEF Has
<1>3. CASE \E d \in D : FoundAt(hash, h, k, d)
  <2>1. FoundAt(hash, h, k, CHOOSE d \in D : FoundAt(hash, h, k, d))
        /\ (CHOOSE d \in D : FoundAt(hash, h, k, d)) \in D
    BY <1>3
  <2> QED  BY <1>2, <1>3, <2>1 DEF HashGet
<1>4. CASE ~\E d \in D : FoundAt(hash, h, k, d)
  <2>1. HashGet(hash, k) = None
    BY <1>4 DEF HashGet
  <2>2. ~Has(built, k)
    BY <1>1, <1>4 DEF InHash, Has
  <2> QED  BY <2>1, <2>2, FindNone
<1> QED  BY <1>3, <1>4

\* A table whose slots are not all in use.
LEMMA RoomLeft ==
    ASSUME IsTable(hash), InHash(hash), built \in Seq(Pair), Len(built) > 0,
           filling \in 0 .. Len(built) + 1
    PROVE  \E p \in 0 .. hash.N - 1 : ~Used(hash, p)
<1> DEFINE n == Len(built)
           U == UsedSlots(hash)
<1>1. n \in Nat /\ n >= 1
  OBVIOUS
<1>2. hash.N >= 3 * n
  <2>1. hash.N = LoadFactor * n
    BY DEF InHash
  <2> HIDE DEF n
  <2>2. \A a \in Nat : a >= 3 => a * n >= 3 * n
    BY <1>1
  <2> QED  BY <2>1, <2>2
<1>3. hash.c <= n + 1 /\ Cardinality(U) <= hash.c
  <2>1. hash.c <= IF filling = 0 THEN n + 1 ELSE filling - 1
    BY DEF InHash
  <2>2. filling \in Int /\ filling <= n + 1 /\ hash.c \in Int
    BY DEF IsTable
  <2>3. Cardinality(U) <= hash.c
    BY DEF InHash
  <2> HIDE DEF n
  <2> QED  BY <1>1, <2>1, <2>2, <2>3
<1>4. IsFiniteSet(0 .. hash.N - 1) /\ Cardinality(0 .. hash.N - 1) = hash.N
  <2>1. hash.N \in Nat /\ hash.N >= 1
    BY DEF IsTable
  <2>2. /\ IsFiniteSet(0 .. hash.N - 1)
        /\ Cardinality(0 .. hash.N - 1) = IF 0 > hash.N - 1 THEN 0 ELSE (hash.N - 1) - 0 + 1
    <3> DEFINE b == hash.N - 1
    <3>1. b \in Int /\ 0 \in Int
      BY <2>1
    <3> HIDE DEF b
    <3>2. IsFiniteSet(0 .. b) /\ Cardinality(0 .. b) = IF 0 > b THEN 0 ELSE b - 0 + 1
      BY <3>1, FS_Interval
    <3> QED  BY <3>2 DEF b
  <2> QED  BY <2>1, <2>2
<1>5. SUFFICES ASSUME \A p \in 0 .. hash.N - 1 : Used(hash, p) PROVE FALSE
  OBVIOUS
<1>6. U = 0 .. hash.N - 1
  BY <1>5 DEF UsedSlots
<1> QED  BY <1>1, <1>2, <1>3, <1>4, <1>6 DEF IsTable

\* Adding the entry that Build is at.
LEMMA FillHashKeeps ==
    ASSUME IsTable(hash), InHash(hash), built \in Seq(Pair), NoTwins(built),
           filling \in 1 .. Len(built), filling' = filling + 1, UNCHANGED built,
           HashGet(hash, built[filling].key) = None => HashSet(built[filling].key, built[filling].val),
           HashGet(hash, built[filling].key) # None => UNCHANGED hash
    PROVE  IsTable(hash') /\ InHash(hash)'
<1> DEFINE k == built[filling].key
           v == built[filling].val
<1>0. k \in Keys /\ v \in Vals /\ v \in Values /\ Hash(k) \in Nat
  <2>1. built[filling] \in Pair
    OBVIOUS
  <2> QED  BY <2>1, HashNat DEF Pair, Values
<1>1. Filled = filling - 1 /\ Filled' = filling /\ filling # 0 /\ filling' # 0
  BY DEF Filled
<1>2. \A p \in UsedSlots(hash) : hash.b[p].key # k
  <2> SUFFICES ASSUME NEW p \in UsedSlots(hash) PROVE hash.b[p].key # k
    OBVIOUS
  <2>1. PICK i \in 1 .. Filled : built[i].key = hash.b[p].key
    BY DEF InHash
  <2>2. i \in DOMAIN built /\ filling \in DOMAIN built /\ i # filling
    BY <1>1
  <2> QED  BY <2>1, <2>2 DEF NoTwins
<1>3. HashGet(hash, k) = None
  <2>1. \A d \in 0 .. hash.N - 1 : ~FoundAt(hash, Hash(k), k, d)
    BY <1>0, <1>2, HeldSlot
  <2> QED  BY <2>1 DEF HashGet
<1>4. PICK d \in 0 .. hash.N - 1 : FreeAfter(hash, k, d) /\ hash' = HashPut(hash, k, v, d)
  BY <1>3 DEF HashSet
<1> DEFINE s == Slot(hash, Hash(k), d)
<1>5. /\ IsTable(hash') /\ hash'.N = hash.N /\ hash'.c = hash.c + 1
      /\ s \in 0 .. hash.N - 1 /\ ~Used(hash, s)
      /\ hash'.b[s].hash = Hash(k) /\ hash'.b[s].key = k /\ hash'.b[s].val = v
      /\ \A p \in 0 .. hash.N - 1 : p # s => hash'.b[p] = hash.b[p]
  BY <1>0, <1>4, HashPutIs
<1>6. hash'.N = LoadFactor * Len(built') /\ hash'.c <= filling' - 1
  BY <1>1, <1>5 DEF InHash, IsTable
<1>7. Cardinality(UsedSlots(hash')) <= hash'.c
  <2>1. Cardinality(UsedSlots(hash')) <= Cardinality(UsedSlots(hash)) + 1
    BY <1>5, UsedGrows DEF IsTable
  <2>2. \A t : IsTable(t) => Cardinality(UsedSlots(t)) \in Nat
    BY UsedFinite DEF IsTable
  <2>3. Cardinality(UsedSlots(hash')) \in Nat /\ Cardinality(UsedSlots(hash)) \in Nat
    BY <1>5, <2>2
  <2> QED  BY <1>5, <2>1, <2>3 DEF InHash, IsTable
<1>8. ASSUME NEW i \in 1 .. Filled', Hash(built[i].key) # 0
      PROVE  \E e \in 0 .. hash'.N - 1 : FoundAt(hash', Hash(built[i].key), built[i].key, e)
  <2>1. CASE i = filling
    BY <1>0, <1>2, <1>4, <1>5, <1>8, <2>1, FoundWherePut
  <2>2. CASE i # filling
    <3>1. i \in 1 .. Filled /\ Hash(built[i].key) \in Nat
      <4>1. built[i] \in Pair
        BY <1>1
      <4> QED  BY <1>1, <2>2, <4>1, HashNat DEF Pair
    <3>2. PICK e \in 0 .. hash.N - 1 : FoundAt(hash, Hash(built[i].key), built[i].key, e)
      BY <1>8, <3>1 DEF InHash
    <3>3. FoundAt(hash', Hash(built[i].key), built[i].key, e)
      BY <1>5, <3>1, <3>2, FoundStays
    <3> QED  BY <1>5, <3>3
  <2> QED  BY <2>1, <2>2
<1>9. ASSUME NEW p \in UsedSlots(hash')
      PROVE  /\ hash'.b[p].hash = Hash(hash'.b[p].key)
             /\ \E i \in 1 .. Filled' : built[i].key = hash'.b[p].key /\ built[i].val = hash'.b[p].val
  <2>1. CASE p = s
    BY <1>1, <1>5, <2>1
  <2>2. CASE p # s
    <3>1. p \in UsedSlots(hash) /\ hash'.b[p] = hash.b[p]
      BY <1>5, <2>2 DEF UsedSlots, Used
    <3>2. /\ hash.b[p].hash = Hash(hash.b[p].key)
          /\ \E i \in 1 .. Filled : built[i].key = hash.b[p].key /\ built[i].val = hash.b[p].val
      BY <3>1 DEF InHash
    <3>3. 1 .. Filled \subseteq 1 .. Filled'
      BY <1>1
    <3> QED  BY <3>1, <3>2, <3>3
  <2> QED  BY <2>1, <2>2
<1> QED  BY <1>1, <1>5, <1>6, <1>7, <1>8, <1>9 DEF InHash

\* Adding the empty name once more.
LEMMA FinishHashKeeps ==
    ASSUME IsTable(hash), InHash(hash), built \in Seq(Pair), NoTwins(built),
           filling = Len(built) + 1, filling' = 0, UNCHANGED built,
           empty # None => HashSet(<<>>, empty),
           empty = None => UNCHANGED hash,
           empty # None => \E i \in DOMAIN built : built[i].key = <<>> /\ built[i].val = empty
    PROVE  IsTable(hash') /\ InHash(hash)'
<1>1. Filled = Len(built) /\ Filled' = Len(built) /\ filling # 0
  BY DEF Filled
<1>2. CASE empty = None
  <2>1. hash' = hash /\ hash.c <= Len(built) + 1
    BY <1>1, <1>2 DEF InHash, IsTable
  <2> QED  BY <1>1, <2>1 DEF InHash
<1>3. CASE empty # None
  <2>1. PICK m \in DOMAIN built : built[m].key = <<>> /\ built[m].val = empty
    BY <1>3
  <2>2. <<>> \in Keys /\ empty \in Values /\ Hash(<<>>) \in Nat
    <3>1. built[m] \in Pair
      OBVIOUS
    <3>2. <<>> \in Keys /\ empty \in Vals
      BY <2>1, <3>1 DEF Pair
    <3> QED  BY <3>2, HashNat DEF Values
  <2>3. PICK d \in 0 .. hash.N - 1 : FreeAfter(hash, <<>>, d) /\ hash' = HashPut(hash, <<>>, empty, d)
    BY <1>3 DEF HashSet
  <2> DEFINE s == Slot(hash, Hash(<<>>), d)
  <2>5. /\ IsTable(hash') /\ hash'.N = hash.N /\ hash'.c = hash.c + 1
        /\ s \in 0 .. hash.N - 1 /\ ~Used(hash, s)
        /\ hash'.b[s].hash = Hash(<<>>) /\ hash'.b[s].key = <<>> /\ hash'.b[s].val = empty
        /\ \A p \in 0 .. hash.N - 1 : p # s => hash'.b[p] = hash.b[p]
    BY <2>2, <2>3, HashPutIs
  <2>6. hash'.N = LoadFactor * Len(built') /\ hash'.c <= Len(built') + 1
    BY <1>1, <2>5 DEF InHash, IsTable
  <2>7. Cardinality(UsedSlots(hash')) <= hash'.c
    <3>1. Cardinality(UsedSlots(hash')) <= Cardinality(UsedSlots(hash)) + 1
      BY <2>5, UsedGrows DEF IsTable
    <3>2. \A t : IsTable(t) => Cardinality(UsedSlots(t)) \in Nat
      BY UsedFinite DEF IsTable
    <3>3. Cardinality(UsedSlots(hash')) \in Nat /\ Cardinality(UsedSlots(hash)) \in Nat
      BY <2>5, <3>2
    <3> QED  BY <2>5, <3>1, <3>3 DEF InHash, IsTable
  <2>8. ASSUME NEW i \in 1 .. Filled', Hash(built[i].key) # 0
        PROVE  \E e \in 0 .. hash'.N - 1 : FoundAt(hash', Hash(built[i].key), built[i].key, e)
    <3>1. i \in 1 .. Filled /\ Hash(built[i].key) \in Nat
      <4>1. built[i] \in Pair
        BY <1>1
      <4> QED  BY <1>1, <4>1, HashNat DEF Pair
    <3>2. PICK e \in 0 .. hash.N - 1 : FoundAt(hash, Hash(built[i].key), built[i].key, e)
      BY <2>8, <3>1 DEF InHash
    <3>3. FoundAt(hash', Hash(built[i].key), built[i].key, e)
      BY <2>5, <3>1, <3>2, FoundStays
    <3> QED  BY <2>5, <3>3
  <2>9. ASSUME NEW p \in UsedSlots(hash')
        PROVE  /\ hash'.b[p].hash = Hash(hash'.b[p].key)
               /\ \E i \in 1 .. Filled' : built[i].key = hash'.b[p].key /\ built[i].val = hash'.b[p].val
    <3>1. CASE p = s
      BY <1>1, <2>1, <2>5, <3>1
    <3>2. CASE p # s
      <4>1. p \in UsedSlots(hash) /\ hash'.b[p] = hash.b[p]
        BY <2>5, <3>2 DEF UsedSlots, Used
      <4>2. /\ hash.b[p].hash = Hash(hash.b[p].key)
            /\ \E i \in 1 .. Filled : built[i].key = hash.b[p].key /\ built[i].val = hash.b[p].val
        BY <4>1 DEF InHash
      <4> QED  BY <1>1, <4>1, <4>2
    <3> QED  BY <3>1, <3>2
  <2> QED  BY <1>1, <2>5, <2>6, <2>7, <2>8, <2>9 DEF InHash
<1> QED  BY <1>2, <1>3

-----------------------------------------------------------------------------
(***************************************************************************)
(* The trie.                                                               *)
(***************************************************************************)
LEMMA SeqElement ==
    ASSUME NEW S, NEW s \in Seq(S), NEW i \in 1 .. Len(s)
    PROVE  s[i] \in S
OBVIOUS

LEMMA NodeIn ==
    ASSUME NEW t, t.pos \in Nat, NEW k \in Asked, k # <<>>
    PROVE  NodeOf(t, k) \in Nat
<1>1. k \in Seq(0 .. 255) /\ Len(k) \in Nat /\ Len(k) >= 1
  OBVIOUS
<1>2. \A i \in 1 .. Len(k) : k[i] \in 0 .. 255
  BY <1>1, SeqElement
<1>3. (IF t.pos > Len(k) - 1 THEN Len(k) ELSE t.pos + 1) \in 1 .. Len(k)
  BY <1>1
<1>4. ByteAt(k, t.pos) \in 0 .. 255
  BY <1>2, <1>3 DEF ByteAt
<1>5. \A c \in 0 .. 255 : ascii2Int(c) \in Nat
  BY DEF ascii2Int
<1> QED  BY <1>4, <1>5 DEF NodeOf

LEMMA GrownIs ==
    ASSUME NEW nodes \in Seq(Seq(Pair)), NEW n \in Nat
    PROVE  /\ Grown(nodes, n) \in Seq(Seq(Pair))
           /\ DOMAIN nodes \subseteq DOMAIN Grown(nodes, n) /\ 1 .. n \subseteq DOMAIN Grown(nodes, n)
           /\ \A j \in DOMAIN nodes : Grown(nodes, n)[j] = nodes[j]
           /\ \A j \in DOMAIN Grown(nodes, n) : j \notin DOMAIN nodes => Grown(nodes, n)[j] = <<>>
<1>1. CASE n <= Len(nodes)
  BY <1>1 DEF Grown
<1>2. CASE n > Len(nodes)
  <2>1. Grown(nodes, n) = [i \in 1 .. n |-> IF i <= Len(nodes) THEN nodes[i] ELSE <<>>]
    BY <1>2 DEF Grown
  <2>2. \A i \in 1 .. n : (IF i <= Len(nodes) THEN nodes[i] ELSE <<>>) \in Seq(Pair)
    OBVIOUS
  <2>3. Grown(nodes, n) \in Seq(Seq(Pair)) /\ DOMAIN Grown(nodes, n) = 1 .. n
    BY <2>1, <2>2
  <2>4. DOMAIN nodes = 1 .. Len(nodes)
    OBVIOUS
  <2> QED  BY <1>2, <2>1, <2>3, <2>4
<1> QED  BY <1>1, <1>2

\* TrieSet puts the pair into the node of its name, perhaps a new one.
LEMMA TrieSetIs ==
    ASSUME NEW t \in Tries, NEW k \in Keys, k # <<>>, NEW v \in Vals
    PROVE  LET u == TrieSet(t, k, v)
               j == NodeOf(t, k) + 1
               g == Grown(t.nodes, j)
           IN  /\ u \in Tries /\ u.pos = t.pos /\ u.empty = t.empty /\ u.leaves
               /\ j \in DOMAIN g /\ g \in Seq(Seq(Pair))
               /\ u.nodes = [g EXCEPT ![j] = Put(g[j], k, v)]
<1> DEFINE u == TrieSet(t, k, v)
           j == NodeOf(t, k) + 1
           g == Grown(t.nodes, j)
           c == IF \E i \in DOMAIN g[j] : g[j][i].key = k THEN t.count ELSE t.count + 1
           ns == [g EXCEPT ![j] = Put(g[j], k, v)]
<1>1. t.pos \in Nat /\ t.count \in Nat /\ t.nodes \in Seq(Seq(Pair)) /\ t.empty \in Values
  BY DEF Tries
<1>2. j \in Nat /\ j >= 1
  <2>1. NodeOf(t, k) \in Nat
    BY <1>1, NodeIn
  <2> QED  BY <2>1
<1>3. u = [t EXCEPT !.leaves = TRUE, !.nodes = ns, !.count = c]
  BY DEF TrieSet
<1> HIDE DEF j, u
<1>4. g \in Seq(Seq(Pair)) /\ j \in DOMAIN g
  <2>1. g \in Seq(Seq(Pair)) /\ 1 .. j \subseteq DOMAIN g
    BY <1>1, <1>2, GrownIs
  <2> QED  BY <1>2, <2>1
<1> HIDE DEF g
<1>5. g[j] \in Seq(Pair)
  BY <1>4
<1>6. Put(g[j], k, v) \in Seq(Pair)
  <2>1. [key |-> k, val |-> v] \in Pair
    BY DEF Pair
  <2>2. \A p \in Pair : [p EXCEPT !.val = v] \in Pair
    BY DEF Pair
  <2> DEFINE q == g[j]
             f == [i \in DOMAIN q |-> IF FirstAt(q, k, i) THEN [q[i] EXCEPT !.val = v] ELSE q[i]]
  <2>3. q \in Seq(Pair) /\ DOMAIN q = 1 .. Len(q) /\ Len(q) \in Nat
    BY <1>5
  <2> HIDE DEF q
  <2>6. \A i \in 1 .. Len(q) : q[i] \in Pair
    BY <2>3, SeqElement
  <2>7. \A i \in 1 .. Len(q) : f[i] \in Pair
    BY <2>2, <2>3, <2>6
  <2>4. f \in Seq(Pair)
    BY <2>3, <2>7
  <2>5. Append(g[j], [key |-> k, val |-> v]) \in Seq(Pair)
    BY <1>5, <2>1
  <2> QED  BY <2>4, <2>5 DEF Put, q
<1>7. ns \in Seq(Seq(Pair))
  BY <1>4, <1>6
<1>8. c \in Nat
  BY <1>1
<1> HIDE DEF ns, c
<1>9. u = [pos |-> t.pos, empty |-> t.empty, count |-> c, leaves |-> TRUE, nodes |-> ns]
  BY <1>3 DEF Tries
<1>10. u \in Tries
  BY <1>1, <1>7, <1>8, <1>9 DEF Tries
<1> QED  BY <1>4, <1>9, <1>10 DEF u, g, j, ns

LEMMA TrieSetEmptyIs ==
    ASSUME NEW t \in Tries, NEW v \in Values
    PROVE  /\ TrieSet(t, <<>>, v) \in Tries
           /\ TrieSet(t, <<>>, v).pos = t.pos /\ TrieSet(t, <<>>, v).empty = v
           /\ TrieSet(t, <<>>, v).leaves = t.leaves /\ TrieSet(t, <<>>, v).nodes = t.nodes
<1> DEFINE c == IF t.empty = None THEN t.count + 1 ELSE t.count
<1>1. TrieSet(t, <<>>, v) = [t EXCEPT !.empty = v, !.count = c]
  BY DEF TrieSet, TrieSetEmpty
<1>2. c \in Nat
  BY DEF Tries
<1> HIDE DEF c
<1>3. TrieSet(t, <<>>, v) = [pos |-> t.pos, empty |-> v, count |-> c, leaves |-> t.leaves, nodes |-> t.nodes]
  BY <1>1 DEF Tries
<1> QED  BY <1>2, <1>3 DEF Tries

\* A filled trie answers as its pairs do.
LEMMA TrieAnswers ==
    ASSUME trie \in Tries, InTrie(trie), built \in Seq(Pair), NoTwins(built), filling = 0,
           \E i \in DOMAIN built : built[i].key # <<>>,
           NEW k \in Asked
    PROVE  TrieGet(trie, k) = Find(built, k)
<1>1. Filled = Len(built) /\ DOMAIN built = 1 .. Filled
  BY DEF Filled
<1>2. CASE k = <<>>
  <2>1. TrieGet(trie, k) = trie.empty
    BY <1>2 DEF TrieGet
  <2>2. CASE Has(built, k)
    BY <1>1, <1>2, <2>1, <2>2, FindIs DEF InTrie, Has
  <2>3. CASE ~Has(built, k)
    BY <1>1, <1>2, <2>1, <2>3, FindNone DEF InTrie, Has
  <2> QED  BY <2>2, <2>3
<1>3. CASE k # <<>>
  <2> DEFINE j == NodeOf(trie, k) + 1
  <2>1. trie.leaves /\ trie.nodes \in Seq(Seq(Pair)) /\ NodeOf(trie, k) \in Nat
    <3>1. trie.leaves
      BY <1>1 DEF InTrie, InNode
    <3>2. trie.pos \in Nat /\ trie.nodes \in Seq(Seq(Pair))
      BY DEF Tries
    <3> QED  BY <1>3, <3>1, <3>2, NodeIn
  <2>2. Has(built, k) => j \in DOMAIN trie.nodes /\ Has(trie.nodes[j], k)
    BY <1>1, <1>3 DEF InTrie, InNode, Has
  <2>3. CASE Beyond(trie, k)
    <3>1. j \notin DOMAIN trie.nodes
      BY <2>1, <2>3 DEF Beyond
    <3>2. TrieGet(trie, k) = None
      BY <1>3, <2>1, <2>3 DEF TrieGet
    <3> QED  BY <2>2, <3>1, <3>2, FindNone
  <2>4. CASE ~Beyond(trie, k)
    <3>1. j \in DOMAIN trie.nodes
      BY <2>1, <2>4 DEF Beyond
    <3>2. TrieGet(trie, k) = Find(trie.nodes[j], k)
      BY <1>3, <2>1, <2>4 DEF TrieGet
    <3>3. trie.nodes[j] \in Seq(Pair) /\ NoTwins(trie.nodes[j])
      BY <2>1, <3>1 DEF InTrie
    <3>4. CASE Has(trie.nodes[j], k)
      <4>1. PICK m \in DOMAIN trie.nodes[j] : trie.nodes[j][m].key = k
        BY <3>4 DEF Has
      <4>2. PICK i \in DOMAIN built : built[i] = trie.nodes[j][m]
        BY <1>1, <3>1, <4>1 DEF InTrie
      <4> HIDE DEF j
      <4>3. Find(trie.nodes[j], k) = trie.nodes[j][m].val
        BY <3>3, <4>1, FindIs
      <4>4. Find(built, k) = built[i].val
        BY <4>1, <4>2, FindIs
      <4> QED  BY <3>2, <4>2, <4>3, <4>4
    <3>5. CASE ~Has(trie.nodes[j], k)
      <4>1. ~Has(built, k)
        BY <2>2, <3>5
      <4> HIDE DEF j
      <4> QED  BY <3>2, <3>3, <3>5, <4>1, FindNone
    <3> QED  BY <3>4, <3>5
  <2> QED  BY <2>3, <2>4
<1> QED  BY <1>2, <1>3

\* Adding the entry that Build is at.
LEMMA FillTrieKeeps ==
    ASSUME trie \in Tries, InTrie(trie), built \in Seq(Pair), NoTwins(built),
           filling \in 1 .. Len(built), filling' = filling + 1, UNCHANGED built,
           trie' = TrieSet(trie, built[filling].key, built[filling].val)
    PROVE  trie' \in Tries /\ InTrie(trie)'
<1> DEFINE k == built[filling].key
           v == built[filling].val
           Old(p) == \E i \in 1 .. Filled : built[i] = p
           New(p) == \E i \in 1 .. Filled' : built[i] = p
<1>0. k \in Keys /\ v \in Vals /\ v \in Values /\ built[filling] = [key |-> k, val |-> v]
  <2>1. built[filling] \in Pair
    OBVIOUS
  <2> QED  BY <2>1 DEF Pair, Values
<1>1. Filled = filling - 1 /\ Filled' = filling /\ filling # 0
  BY DEF Filled
<1>2. 1 .. Filled' = (1 .. Filled) \cup {filling} /\ filling \notin 1 .. Filled
  BY <1>1
<1>3. 1 .. Filled' \subseteq DOMAIN built
  BY <1>1
<1>6. \A p : Old(p) => New(p)
  BY <1>2
<1>7. New([key |-> k, val |-> v])
  BY <1>0, <1>2
<1>8. \A j \in DOMAIN trie.nodes : \A m \in DOMAIN trie.nodes[j] : Old(trie.nodes[j][m])
  BY DEF InTrie
<1> HIDE DEF Old, New
<1>4. CASE k = <<>>
  <2>1. trie' \in Tries /\ trie'.pos = trie.pos /\ trie'.empty = v
        /\ trie'.leaves = trie.leaves /\ trie'.nodes = trie.nodes
    BY <1>0, <1>4, TrieSetEmptyIs
  <2>2. \A i \in 1 .. Filled' : built[i].key = <<>> => i = filling
    BY <1>3, <1>2, <1>4 DEF NoTwins
  <2>3. \A x : NodeOf(trie', x) = NodeOf(trie, x)
    BY <2>1 DEF NodeOf
  <2>5. \A i \in 1 .. Filled' : built[i].key # <<>> => i \in 1 .. Filled
    BY <1>2, <1>4
  <2>6. \A j \in DOMAIN trie'.nodes : NoTwins(trie'.nodes[j])
    BY <2>1 DEF InTrie
  <2>7. \A i \in 1 .. Filled' : built[i].key # <<>> => InNode(trie', built[i])
    <3>1. \A p : InNode(trie, p) => InNode(trie', p)
      BY <2>1, <2>3 DEF InNode
    <3> QED  BY <2>5, <3>1 DEF InTrie
  <2>8. \A j \in DOMAIN trie'.nodes : \A m \in DOMAIN trie'.nodes[j] : New(trie'.nodes[j][m])
    BY <1>6, <1>8, <2>1
  <2>9. \A i \in 1 .. Filled' : built[i].key = <<>> => trie'.empty = built[i].val
    BY <2>1, <2>2
  <2>10. ~\A i \in 1 .. Filled' : built[i].key # <<>>
    BY <1>2, <1>4
  <2> QED  BY <2>1, <2>6, <2>7, <2>8, <2>9, <2>10 DEF InTrie, New
<1>5. CASE k # <<>>
  <2> DEFINE j == NodeOf(trie, k) + 1
             g == Grown(trie.nodes, j)
             q == Put(g[j], k, v)
  <2>0. trie.nodes \in Seq(Seq(Pair)) /\ NodeOf(trie, k) \in Nat
    <3>1. trie.nodes \in Seq(Seq(Pair)) /\ trie.pos \in Nat
      BY DEF Tries
    <3> QED  BY <1>0, <1>5, <3>1, NodeIn
  <2>1. /\ trie' \in Tries /\ trie'.pos = trie.pos /\ trie'.empty = trie.empty /\ trie'.leaves
        /\ j \in DOMAIN g /\ g \in Seq(Seq(Pair))
        /\ trie'.nodes = [g EXCEPT ![j] = q]
    BY <1>0, <1>5, TrieSetIs
  <2>2. \A x : NodeOf(trie', x) = NodeOf(trie, x)
    BY <2>1 DEF NodeOf
  <2>3. /\ DOMAIN trie.nodes \subseteq DOMAIN g
        /\ \A n \in DOMAIN trie.nodes : g[n] = trie.nodes[n]
        /\ \A n \in DOMAIN g : n \notin DOMAIN trie.nodes => g[n] = <<>>
    <3>1. j \in Nat
      BY <2>0
    <3> HIDE DEF j
    <3> QED  BY <2>0, <3>1, GrownIs
  <2> HIDE DEF j, g
  <2>4. g[j] \in Seq(Pair) /\ NoTwins(g[j]) /\ \A m \in DOMAIN g[j] : Old(g[j][m])
    <3>1. g[j] \in Seq(Pair)
      BY <2>1
    <3>2. CASE j \in DOMAIN trie.nodes
      BY <1>8, <2>3, <3>1, <3>2 DEF InTrie
    <3>3. CASE j \notin DOMAIN trie.nodes
      <4>1. g[j] = <<>>
        BY <2>1, <2>3, <3>3
      <4> QED  BY <3>1, <4>1 DEF NoTwins
    <3> QED  BY <3>2, <3>3
  <2>5. /\ q \in Seq(Pair) /\ NoTwins(q)
        /\ \E i \in DOMAIN q : q[i] = [key |-> k, val |-> v]
        /\ \A i \in DOMAIN q : \/ q[i] = [key |-> k, val |-> v]
                               \/ \E n \in DOMAIN g[j] : g[j][n] = q[i] /\ g[j][n].key # k
        /\ \A n \in DOMAIN g[j] : g[j][n].key # k => \E i \in DOMAIN q : q[i] = g[j][n]
    <3>1. k \in Keys /\ v \in Vals /\ g[j] \in Seq(Pair) /\ NoTwins(g[j])
      BY <1>0, <2>4
    <3> DEFINE a == g[j]
    <3>2. a \in Seq(Pair) /\ NoTwins(a)
      BY <3>1
    <3> HIDE DEF k, v, a
    <3>3. /\ Put(a, k, v) \in Seq(Pair)
          /\ NoTwins(Put(a, k, v))
          /\ \E i \in DOMAIN Put(a, k, v) : Put(a, k, v)[i] = [key |-> k, val |-> v]
          /\ \A i \in DOMAIN Put(a, k, v) :
                \/ Put(a, k, v)[i] = [key |-> k, val |-> v]
                \/ \E n \in DOMAIN a : a[n] = Put(a, k, v)[i] /\ a[n].key # k
          /\ \A n \in DOMAIN a : a[n].key # k => \E i \in DOMAIN Put(a, k, v) : Put(a, k, v)[i] = a[n]
      BY <3>1, <3>2, PutIs, SMTT(60)
    <3> QED  BY <3>3 DEF a
  <2> HIDE DEF q
  <2>6. trie'.nodes[j] = q /\ DOMAIN trie'.nodes = DOMAIN g
        /\ \A n \in DOMAIN g : n # j => trie'.nodes[n] = g[n]
    BY <2>1
  <2>9. ASSUME NEW n \in DOMAIN trie'.nodes, n # j
        PROVE  \/ trie'.nodes[n] = <<>>
               \/ n \in DOMAIN trie.nodes /\ trie'.nodes[n] = trie.nodes[n]
    BY <2>3, <2>6, <2>9
  <2>10. ASSUME NEW n \in DOMAIN trie'.nodes
         PROVE  NoTwins(trie'.nodes[n]) /\ \A m \in DOMAIN trie'.nodes[n] : New(trie'.nodes[n][m])
    <3>1. CASE n = j
      <4>1. \A i \in DOMAIN q : New(q[i])
        BY <1>6, <1>7, <2>4, <2>5
      <4> QED  BY <2>5, <2>6, <3>1, <4>1
    <3>2. CASE n # j /\ trie'.nodes[n] = <<>>
      BY <3>2 DEF NoTwins
    <3>3. CASE n \in DOMAIN trie.nodes /\ trie'.nodes[n] = trie.nodes[n]
      BY <1>6, <1>8, <3>3 DEF InTrie
    <3> QED  BY <2>9, <3>1, <3>2, <3>3
  <2>11. ASSUME NEW i \in 1 .. Filled', built[i].key # <<>>
         PROVE  InNode(trie', built[i])
    <3>1. CASE i = filling
      <4>1. j \in DOMAIN trie'.nodes /\ \E m \in DOMAIN trie'.nodes[j] : trie'.nodes[j][m] = built[i]
        BY <1>0, <2>1, <2>5, <2>6, <3>1
      <4> QED  BY <2>1, <2>2, <3>1, <4>1 DEF j, InNode
    <3>2. CASE i # filling
      <4> DEFINE n == NodeOf(trie, built[i].key) + 1
      <4>1. n \in DOMAIN trie.nodes /\ \E m \in DOMAIN trie.nodes[n] : trie.nodes[n][m] = built[i]
        <5>1. InNode(trie, built[i])
          BY <1>2, <2>11, <3>2 DEF InTrie
        <5> QED  BY <5>1 DEF InNode
      <4>2. built[i].key # k
        BY <1>2, <1>3, <3>2 DEF NoTwins
      <4> HIDE DEF n, k
      <4>3. n \in DOMAIN g /\ \E m \in DOMAIN g[n] : g[n][m] = built[i]
        BY <2>3, <4>1
      <4>4. n \in DOMAIN trie'.nodes /\ \E m \in DOMAIN trie'.nodes[n] : trie'.nodes[n][m] = built[i]
        <5>1. CASE n = j
          BY <2>1, <2>5, <2>6, <4>2, <4>3, <5>1
        <5>2. CASE n # j
          BY <2>6, <4>3, <5>2
        <5> QED  BY <5>1, <5>2
      <4> QED  BY <2>1, <2>2, <4>4, ZenonT(60) DEF n, InNode
    <3> QED  BY <3>1, <3>2
  <2>12. \A i \in 1 .. Filled' : built[i].key = <<>> => trie'.empty = built[i].val
    <3>1. \A i \in 1 .. Filled' : built[i].key = <<>> => i \in 1 .. Filled
      BY <1>2, <1>5
    <3> QED  BY <2>1, <3>1 DEF InTrie
  <2>13. (\A i \in 1 .. Filled' : built[i].key # <<>>) => trie'.empty = None
    BY <1>2, <2>1 DEF InTrie
  <2> QED  BY <2>1, <2>2, <2>10, <2>11, <2>12, <2>13, SMTT(30) DEF InTrie, New
<1> QED  BY <1>4, <1>5

\* The empty name once more.
LEMMA FinishTrieKeeps ==
    ASSUME trie \in Tries, InTrie(trie), built \in Seq(Pair), NoTwins(built),
           filling = Len(built) + 1, filling' = 0, UNCHANGED built, empty \in Values,
           trie' = IF empty = None THEN trie ELSE [trie EXCEPT !.empty = empty],
           empty # None => \E i \in DOMAIN built : built[i].key = <<>> /\ built[i].val = empty
    PROVE  trie' \in Tries /\ InTrie(trie)'
<1>1. Filled = Len(built) /\ Filled' = Filled /\ DOMAIN built = 1 .. Filled
  BY DEF Filled
<1>2. trie' \in Tries /\ trie'.pos = trie.pos /\ trie'.leaves = trie.leaves /\ trie'.nodes = trie.nodes
      /\ trie'.empty = IF empty = None THEN trie.empty ELSE empty
  BY DEF Tries
<1>3. \A i \in 1 .. Filled : built[i].key = <<>> => trie'.empty = built[i].val
  BY <1>1, <1>2 DEF NoTwins, InTrie
<1>4. (\A i \in 1 .. Filled : built[i].key # <<>>) => trie'.empty = None
  BY <1>1, <1>2 DEF InTrie
<1>5. \A x : NodeOf(trie', x) = NodeOf(trie, x)
  BY <1>2 DEF NodeOf
<1>6. \A i \in 1 .. Filled : built[i].key # <<>> => InNode(trie', built[i])
  <2>1. \A p : InNode(trie, p) => InNode(trie', p)
    BY <1>2, <1>5 DEF InNode
  <2> QED  BY <2>1 DEF InTrie
<1>7. \A j \in DOMAIN trie'.nodes : \A m \in DOMAIN trie'.nodes[j] :
         \E i \in 1 .. Filled : built[i] = trie'.nodes[j][m]
  BY <1>2 DEF InTrie
<1>8. \A j \in DOMAIN trie'.nodes : NoTwins(trie'.nodes[j])
  BY <1>2 DEF InTrie
<1> QED  BY <1>1, <1>2, <1>3, <1>4, <1>6, <1>7, <1>8 DEF InTrie

-----------------------------------------------------------------------------
(***************************************************************************)
(* Every step keeps the invariant.                                         *)
(***************************************************************************)
LEMMA NewTrieIs ==
    ASSUME NEW pos \in Nat
    PROVE  NewTrie(pos) \in Tries
BY DEF NewTrie, Tries, Values

\* Put keeps the types, twins or not.
LEMMA PutType ==
    ASSUME NEW ps \in Seq(Pair), NEW k \in Keys, NEW v \in Vals
    PROVE  Put(ps, k, v) \in Seq(Pair)
<1>1. [key |-> k, val |-> v] \in Pair /\ \A p \in Pair : [p EXCEPT !.val = v] \in Pair
  BY DEF Pair
<1> DEFINE f == [i \in DOMAIN ps |-> IF FirstAt(ps, k, i) THEN [ps[i] EXCEPT !.val = v] ELSE ps[i]]
<1>2. \A i \in DOMAIN ps : f[i] \in Pair
  BY <1>1
<1>3. f \in Seq(Pair)
  BY <1>2
<1> QED  BY <1>1, <1>3 DEF Put

LEMMA InitHolds == Init => IInv
<1> SUFFICES ASSUME Init PROVE IInv
  OBVIOUS
<1> USE DEF Init
<1>1. all \in Seq(Pair) /\ built \in Seq(Pair) /\ Len(all) = 0 /\ DOMAIN all = {} /\ DOMAIN built = {}
  OBVIOUS
<1>2. hash.N \in Nat /\ hash.c \in Nat /\ hash.b \in [0 .. hash.N - 1 -> Slots] /\ IsHash(hash)
  BY NewHashIs
<1>3. TypeOK
  <2>1. trie \in Tries
    BY NewTrieIs
  <2>2. filling \in 0 .. Len(all) + 1
    BY <1>1
  <2> QED  BY <1>1, <1>2, <2>1, <2>2 DEF TypeOK, Values
<1>4. Collected
  BY <1>1 DEF Collected, NoTwins
<1> QED  BY <1>2, <1>3, <1>4 DEF IInv

LEMMA SetKeeps == ASSUME IInv, NEW k \in Keys, NEW v \in Vals, Set(k, v) PROVE IInv'
<1> USE DEF IInv, Set
<1>1. /\ all' \in Seq(Pair) /\ NoTwins(all')
      /\ \E i \in DOMAIN all' : all'[i] = [key |-> k, val |-> v]
      /\ \A j \in DOMAIN all : all[j].key # k => \E i \in DOMAIN all' : all'[i] = all[j]
  BY PutIs, SMTT(30) DEF TypeOK, Collected
<1>2. maxKeyLength' \in Nat /\ Len(k) \in Nat
  <2>1. k \in Seq(0 .. 255)
    OBVIOUS
  <2> QED  BY <2>1 DEF TypeOK
<1>3. TypeOK'
  <2>1. filling' \in 0 .. Len(all') + 1
    BY <1>1
  <2> QED  BY <1>1, <1>2, <2>1 DEF TypeOK
<1>4. maxKeyLength' > 0 => \E i \in DOMAIN all' : all'[i].key # <<>>
  <2>1. CASE k # <<>>
    BY <1>1, <2>1
  <2>2. CASE k = <<>>
    <3>1. maxKeyLength' = maxKeyLength
      BY <2>2 DEF TypeOK
    <3> QED  BY <1>1, <2>2, <3>1 DEF Collected
  <2> QED  BY <2>1, <2>2
<1>5. Collected'
  BY <1>1, <1>4 DEF Collected
<1>6. Filled' = Filled
  BY DEF Filled
<1>7. (kind = "hash" => InHash(hash))' /\ (kind = "trie" => InTrie(trie))'
  BY <1>6 DEF InHash, InTrie
<1>8. IsHash(hash')
  OBVIOUS
<1> QED  BY <1>3, <1>5, <1>7, <1>8

\* What a Build starts with, whichever structure it chooses.
LEMMA StartKeeps ==
    ASSUME IInv, NEW noTrie \in BOOLEAN, StartBuild(noTrie), kind' \in {"trie", "hash"},
           kind' = "trie" => maxKeyLength > 0
    PROVE  /\ Collected' /\ Len(built') \in Nat /\ Len(built') > 0
           /\ filling' = 1 /\ Filled' = 0 /\ filling' \in 0 .. Len(all') + 1
           /\ all' \in Seq(Pair) /\ built' \in Seq(Pair) /\ maxKeyLength' \in Nat /\ empty' \in Values
<1> USE DEF IInv, StartBuild
<1>1. all' = all /\ built' = all /\ all \in Seq(Pair) /\ Len(all) > 0 /\ maxKeyLength' \in Nat
      /\ NoTwins(all)
  BY DEF TypeOK, Collected
<1>2. empty' # None => \E i \in DOMAIN all : all[i].key = <<>> /\ all[i].val = empty'
  <2>1. CASE Has(all, <<>>)
    <3>1. PICK i \in DOMAIN all : all[i].key = <<>>
      BY <2>1 DEF Has
    <3>2. Find(all, <<>>) = all[i].val
      BY <1>1, <3>1, FindIs
    <3> QED  BY <3>1, <3>2 DEF EmptyVal
  <2>2. CASE ~Has(all, <<>>)
    <3>1. Find(all, <<>>) = None
      BY <1>1, <2>2, FindNone
    <3> QED  BY <3>1 DEF EmptyVal
  <2> QED  BY <2>1, <2>2
<1>3. empty' \in Values
  <2>1. CASE empty' = None
    BY <2>1 DEF Values
  <2>2. CASE empty' # None
    <3>1. PICK i \in DOMAIN all : all[i].val = empty'
      BY <1>2, <2>2
    <3>2. all[i] \in Pair
      BY <1>1
    <3> QED  BY <3>1, <3>2 DEF Pair, Values
  <2> QED  BY <2>1, <2>2
<1>4. Collected'
  BY <1>1, <1>2 DEF Collected
<1>5. Filled' = 0 /\ filling' = 1
  BY DEF Filled
<1> QED  BY <1>1, <1>3, <1>4, <1>5

LEMMA BuildTrieKeeps == ASSUME IInv, BuildTrie PROVE IInv'
<1> USE DEF IInv, BuildTrie
<1>1. PICK pos \in Positions : Ideal(pos) /\ trie' = NewTrie(pos)
  OBVIOUS
<1>2. pos \in Nat /\ maxKeyLength > 0
  BY <1>1 DEF Positions, TypeOK
<1>3. /\ Collected' /\ filling' = 1 /\ Filled' = 0 /\ filling' \in 0 .. Len(all') + 1
      /\ all' \in Seq(Pair) /\ built' \in Seq(Pair) /\ maxKeyLength' \in Nat /\ empty' \in Values
  BY <1>2, StartKeeps
<1>4. /\ IsHash(hash') /\ hash'.N = 0 /\ hash'.c = 0 /\ hash'.b \in [0 .. hash'.N - 1 -> Slots]
  BY NewHashIs
<1>5. trie' \in Tries /\ trie'.nodes = <<>> /\ trie'.empty = None
  BY <1>1, <1>2, NewTrieIs DEF NewTrie
<1>6. TypeOK'
  BY <1>3, <1>4, <1>5 DEF TypeOK
<1>7. InTrie(trie)'
  BY <1>3, <1>5 DEF InTrie
<1> QED  BY <1>3, <1>4, <1>6, <1>7

LEMMA BuildHashKeeps == ASSUME IInv, NEW noTrie \in BOOLEAN, BuildHash(noTrie) PROVE IInv'
<1> USE DEF IInv, BuildHash
<1> DEFINE n == Len(all) * LoadFactor
<1>1. /\ Collected' /\ filling' = 1 /\ Filled' = 0 /\ filling' \in 0 .. Len(all') + 1
      /\ all' \in Seq(Pair) /\ built' \in Seq(Pair) /\ maxKeyLength' \in Nat /\ empty' \in Values
  BY StartKeeps
<1>2. n \in Nat /\ n = LoadFactor * Len(built') /\ hash' = NewHash(n)
  BY DEF TypeOK, StartBuild
<1> HIDE DEF n
<1>3. /\ IsHash(hash') /\ hash'.N = n /\ hash'.c = 0 /\ hash'.b \in [0 .. hash'.N - 1 -> Slots]
      /\ UsedSlots(hash') = {} /\ Cardinality(UsedSlots(hash')) = 0
  BY <1>2, NewHashIs
<1>4. trie' = NewTrie(0) /\ trie' \in Tries
  BY NewTrieIs
<1>5. TypeOK'
  BY <1>1, <1>2, <1>3, <1>4, SMTT(30) DEF TypeOK
<1>6. InHash(hash)'
  BY <1>1, <1>2, <1>3 DEF InHash
<1> QED  BY <1>1, <1>3, <1>5, <1>6

\* The hash map that is there is a table.
LEMMA TableThere == ASSUME IInv, kind = "hash" PROVE IsTable(hash)
<1>1. hash.N = LoadFactor * Len(built) /\ Len(built) \in Nat /\ Len(built) > 0
  BY DEF IInv, InHash, Collected, TypeOK
<1>2. hash.N # 0
  BY <1>1
<1> QED  BY <1>2 DEF IInv, TypeOK, IsTable

LEMMA FillTrieStep == ASSUME IInv, FillTrie PROVE IInv'
<1> USE DEF IInv, FillTrie, Fill
<1>1. /\ built = all /\ all \in Seq(Pair) /\ filling \in 1 .. Len(built)
      /\ NoTwins(built) /\ trie \in Tries /\ InTrie(trie)
  BY DEF TypeOK, Collected
<1>2. trie' \in Tries /\ InTrie(trie)'
  BY <1>1, FillTrieKeeps DEF Entry
<1>3. filling' \in 0 .. Len(all') + 1 /\ filling' # 0
  BY <1>1
<1>4. TypeOK'
  BY <1>2, <1>3 DEF TypeOK
<1>5. Collected'
  BY <1>1, <1>3 DEF Collected
<1>6. IsHash(hash')
  OBVIOUS
<1> QED  BY <1>2, <1>4, <1>5, <1>6

LEMMA FillHashStep == ASSUME IInv, FillHash PROVE IInv'
<1> USE DEF IInv, FillHash, Fill
<1>1. /\ built = all /\ all \in Seq(Pair) /\ filling \in 1 .. Len(built)
      /\ NoTwins(built) /\ IsTable(hash) /\ InHash(hash)
  BY TableThere DEF TypeOK, Collected
<1>2. IsTable(hash') /\ InHash(hash)'
  <2>1. HashGet(hash, built[filling].key) = None => HashSet(built[filling].key, built[filling].val)
    BY <1>1 DEF Entry
  <2>2. HashGet(hash, built[filling].key) # None => UNCHANGED hash
    BY <1>1 DEF Entry
  <2>3. filling' = filling + 1 /\ UNCHANGED built
    OBVIOUS
  <2> QED  BY <1>1, <2>1, <2>2, <2>3, FillHashKeeps
<1>3. filling' \in 0 .. Len(all') + 1 /\ filling' # 0
  BY <1>1
<1>4. TypeOK'
  BY <1>2, <1>3 DEF TypeOK, IsTable
<1>5. Collected'
  BY <1>1, <1>3 DEF Collected
<1> QED  BY <1>2, <1>4, <1>5 DEF IsTable

LEMMA FinishStep == ASSUME IInv, Finish PROVE IInv'
<1> USE DEF IInv, Finish
<1>1. /\ built = all /\ all \in Seq(Pair) /\ filling = Len(built) + 1 /\ filling' = 0
      /\ NoTwins(built) /\ kind \in {"trie", "hash"} /\ empty \in Values
      /\ empty # None => \E i \in DOMAIN built : built[i].key = <<>> /\ built[i].val = empty
  BY DEF TypeOK, Collected
<1>2. Collected'
  BY <1>1 DEF Collected
<1>3. filling' \in 0 .. Len(all') + 1
  BY <1>1
<1>4. CASE kind = "trie"
  <2>1. UNCHANGED hash /\ trie' = IF empty = None THEN trie ELSE [trie EXCEPT !.empty = empty]
    BY <1>4
  <2>2. trie \in Tries /\ InTrie(trie)
    BY <1>4 DEF TypeOK
  <2>3. trie' \in Tries /\ InTrie(trie)'
    BY <1>1, <2>1, <2>2, FinishTrieKeeps
  <2>4. TypeOK'
    BY <1>3, <1>4, <2>1, <2>3 DEF TypeOK
  <2> QED  BY <1>2, <1>4, <2>1, <2>3, <2>4
<1>5. CASE kind = "hash"
  <2>1. UNCHANGED trie /\ (empty = None => UNCHANGED hash) /\ (empty # None => HashSet(<<>>, empty))
    BY <1>5
  <2>2. IsTable(hash) /\ InHash(hash)
    BY <1>5, TableThere
  <2>3. IsTable(hash') /\ InHash(hash)'
    BY <1>1, <2>1, <2>2, FinishHashKeeps
  <2>4. TypeOK'
    BY <1>3, <1>5, <2>1, <2>3 DEF TypeOK, IsTable
  <2> QED  BY <1>2, <1>5, <2>1, <2>3, <2>4 DEF IsTable
<1> QED  BY <1>1, <1>4, <1>5

LEMMA NextKeeps == IInv /\ [Next]_vars => IInv'
<1> SUFFICES ASSUME IInv, [Next]_vars PROVE IInv'
  OBVIOUS
<1>1. CASE \E k \in Keys, v \in Vals : Set(k, v)
  BY <1>1, SetKeeps
<1>2. CASE BuildTrie
  BY <1>2, BuildTrieKeeps
<1>3. CASE \E noTrie \in BOOLEAN : BuildHash(noTrie)
  BY <1>3, BuildHashKeeps
<1>4. CASE FillTrie
  BY <1>4, FillTrieStep
<1>5. CASE FillHash
  BY <1>5, FillHashStep
<1>6. CASE Finish
  BY <1>6, FinishStep
<1>7. CASE UNCHANGED vars
  <2>1. Filled' = Filled
    BY <1>7 DEF vars, Filled
  <2> QED  BY <1>7, <2>1 DEF vars, IInv, TypeOK, Collected, InHash, InTrie, IsHash
<1> QED  BY <1>1, <1>2, <1>3, <1>4, <1>5, <1>6, <1>7 DEF Next

LEMMA Inductive == Spec => []IInv
<1>1. Init => IInv
  BY InitHolds
<1>2. IInv /\ [Next]_vars => IInv'
  BY NextKeeps
<1> QED  BY <1>1, <1>2, PTL DEF Spec

-----------------------------------------------------------------------------
(***************************************************************************)
(* The theorems.                                                           *)
(***************************************************************************)
\* The map and both structures always have their types, whichever names are set and built.
THEOREM NamesTypes == Spec => []TypeOK
<1>1. IInv => TypeOK
  BY DEF IInv
<1> QED  BY <1>1, Inductive, PTL

\* A map that was built answers the value set last before the Build, for every set of names,
\* every position the trie uses and every hash function, but for names whose hash is 0.
THEOREM NamesAnswers == Spec => []Answers
<1>1. IInv => Answers
  <2> SUFFICES ASSUME IInv, Ready, NEW k \in Asked, ~Lost(k) PROVE Get(k) = Find(built, k)
    BY DEF Answers
  <2>1. filling = 0 /\ built \in Seq(Pair) /\ NoTwins(built) /\ kind \in {"trie", "hash"}
    BY DEF Ready, IInv, TypeOK, Collected
  <2>2. CASE kind = "trie"
    <3>1. trie \in Tries /\ InTrie(trie) /\ \E i \in DOMAIN built : built[i].key # <<>>
      BY <2>2 DEF IInv, TypeOK, Collected
    <3> QED  BY <2>1, <2>2, <3>1, TrieAnswers DEF Get
  <2>3. CASE kind = "hash"
    <3>1. IsTable(hash) /\ InHash(hash) /\ Hash(k) # 0
      BY <2>3, TableThere DEF IInv, Lost
    <3> QED  BY <2>1, <2>3, <3>1, HashAnswers DEF Get
  <2> QED  BY <2>1, <2>2, <2>3
<1> QED  BY <1>1, Inductive, PTL

\* However many names there are and however they collide, the hash map has a free slot: the
\* probing loops of Get and Set end.
THEOREM NamesNeverFull == Spec => []NeverFull
<1>1. IInv => NeverFull
  <2> SUFFICES ASSUME IInv, kind = "hash" PROVE \E p \in 0 .. hash.N - 1 : ~Used(hash, p)
    BY DEF NeverFull
  <2>1. built \in Seq(Pair) /\ Len(built) > 0 /\ filling \in 0 .. Len(built) + 1
    BY DEF IInv, TypeOK, Collected
  <2> QED  BY <2>1, TableThere, RoomLeft DEF IInv
<1> QED  BY <1>1, Inductive, PTL
=============================================================================
