----------------------------- MODULE FieldNames -----------------------------
(***************************************************************************)
(* How a descriptor finds a field by its name: FieldNameMap of             *)
(* internal/util over the hash map and the trie of internal/caching.       *)
(* Set only collects; Build chooses one of the two structures and fills it *)
(* entry by entry.  A name is a sequence of bytes.  What a lookup answers  *)
(* is an operator: it changes nothing.                                     *)
(***************************************************************************)
EXTENDS Integers, Sequences, FiniteSets

CONSTANTS Keys,           \* names that are set
          Asked,          \* names that are looked up, those and others
          Vals,           \* field descriptors
          None,           \* nil
          Panic,          \* the answer of a lookup that dereferences nil
          Hash(_),        \* DJBHash32
          LoadFactor,     \* defaultHashMapLoadFactor
          MaxBucket       \* defaultMaxBucketSize

ASSUME NamesAssumption ==
    /\ Keys \subseteq Asked /\ Asked \subseteq Seq(0 .. 255)
    /\ None \notin Vals /\ Panic \notin Vals /\ Panic # None
    /\ \A k \in Asked : Hash(k) \in Nat
    /\ LoadFactor \in Nat /\ LoadFactor >= 3
    /\ MaxBucket \in Nat

VARIABLES all,            \* the pairs that were set, in order
          maxKeyLength,
          kind,           \* which structure is there: "none", "trie" or "hash"
          trie, hash,
          filling,        \* 0, or the index in all of the entry that Build adds next
          empty,          \* Build's own copy of the value of the empty name
          built           \* history: the pairs the last Build started from

vars == <<all, maxKeyLength, kind, trie, hash, filling, empty, built>>

Pair == [key : Keys, val : Vals]

\* The value of a name in a sequence of pairs: the first one counts.
FirstAt(ps, k, i) == ps[i].key = k /\ \A j \in 1 .. i - 1 : ps[j].key # k
Find(ps, k) == IF \E i \in DOMAIN ps : FirstAt(ps, k, i)
               THEN ps[CHOOSE i \in DOMAIN ps : FirstAt(ps, k, i)].val
               ELSE None
\* The pairs with a new value for a name: in its place, or at the end.
Put(ps, k, v) ==
    IF \E i \in DOMAIN ps : ps[i].key = k
    THEN [i \in DOMAIN ps |-> IF FirstAt(ps, k, i) THEN [ps[i] EXCEPT !.val = v] ELSE ps[i]]
    ELSE Append(ps, [key |-> k, val |-> v])

-----------------------------------------------------------------------------
(***************************************************************************)
(* The trie: one position of the name chooses a node by the byte there,    *)
(* and a node is a short list of pairs.  leaves says that the root has a   *)
(* list (it has one once a name other than the empty one was set).         *)
(***************************************************************************)
NewTrie(pos) == [pos |-> pos, empty |-> None, count |-> 0, leaves |-> FALSE, nodes |-> <<>>]

ascii2Int(c) == IF c < 46 THEN (255 + c - 46) % 256 ELSE c - 46

\* The last byte stands in for a position behind it.
ByteAt(k, pos) == k[IF pos > Len(k) - 1 THEN Len(k) ELSE pos + 1]
NodeOf(t, k)   == ascii2Int(ByteAt(k, t.pos))

\* Growing the index keeps the nodes it has.
Grown(nodes, n) == IF n <= Len(nodes) THEN nodes
                   ELSE [i \in 1 .. n |-> IF i <= Len(nodes) THEN nodes[i] ELSE <<>>]

TrieSetEmpty(t, v) == [t EXCEPT !.empty = v, !.count = IF t.empty = None THEN t.count + 1 ELSE t.count]

TrieSet(t, k, v) ==
    LET j     == NodeOf(t, k) + 1
        nodes == Grown(t.nodes, j)
    IN  IF k = <<>> THEN TrieSetEmpty(t, v)
        ELSE [t EXCEPT !.leaves = TRUE,
                       !.nodes  = [nodes EXCEPT ![j] = Put(nodes[j], k, v)],
                       !.count  = IF \E i \in DOMAIN nodes[j] : nodes[j][i].key = k
                                  THEN t.count ELSE t.count + 1]

Beyond(t, k) == NodeOf(t, k) >= Len(t.nodes)

TrieGet(t, k) ==
    IF k = <<>> THEN t.empty
    ELSE IF ~t.leaves THEN Panic
    ELSE IF Beyond(t, k) THEN None
    ELSE Find(t.nodes[NodeOf(t, k) + 1], k)

-----------------------------------------------------------------------------
(***************************************************************************)
(* The hash map: open addressing.  A slot whose hash is 0 is free.         *)
(***************************************************************************)
Free == [hash |-> 0, key |-> <<>>, val |-> None]
\* Mutant: as many slots as names.
NewHashTight(n) == LET m == n \div LoadFactor
                   IN  [N |-> m, c |-> 0, b |-> [p \in 0 .. m - 1 |-> Free]]

NewHash(n) == [N |-> n, c |-> 0, b |-> [p \in 0 .. n - 1 |-> Free]]

\* The slot after d steps of probing.
Slot(t, h, d) == ((h % t.N) + d) % t.N
Used(t, p)    == t.b[p].hash # 0
Holds(t, p, h, k) == Used(t, p) /\ t.b[p].hash = h /\ t.b[p].key = k

\* Probing with hash h passes over d slots and goes on: they are used, by other names.
Passes(t, h, k, d) == \A e \in 0 .. d - 1 : Used(t, Slot(t, h, e)) /\ ~Holds(t, Slot(t, h, e), h, k)
FoundAt(t, h, k, d) == Passes(t, h, k, d) /\ Holds(t, Slot(t, h, d), h, k)

HashGet(t, k) ==
    LET h == Hash(k) IN
    IF \E d \in 0 .. t.N - 1 : FoundAt(t, h, k, d)
    THEN t.b[Slot(t, h, CHOOSE d \in 0 .. t.N - 1 : FoundAt(t, h, k, d))].val
    ELSE None

\* Mutant: the first slot is taken, free or not.
FreeAfterNone(t, k, d) == d = 0

\* Set looks for a free slot only, not for the name: without one it does not end.
FreeAfter(t, k, d) == /\ \A e \in 0 .. d - 1 : Used(t, Slot(t, Hash(k), e))
                      /\ ~Used(t, Slot(t, Hash(k), d))
HashPut(t, k, v, d) == [t EXCEPT !.c = t.c + 1,
                                 !.b[Slot(t, Hash(k), d)] = [hash |-> Hash(k), key |-> k, val |-> v]]
HashSet(k, v) == \E d \in 0 .. hash.N - 1 : FreeAfter(hash, k, d) /\ hash' = HashPut(hash, k, v, d)

-----------------------------------------------------------------------------
(***************************************************************************)
(* FieldNameMap.                                                           *)
(***************************************************************************)
Init == /\ all = <<>> /\ built = <<>> /\ maxKeyLength = 0
        /\ kind = "none" /\ trie = NewTrie(0) /\ hash = NewHash(0)
        /\ filling = 0 /\ empty = None

Set(k, v) == /\ filling = 0
             /\ maxKeyLength' = IF Len(k) > maxKeyLength THEN Len(k) ELSE maxKeyLength
             /\ all' = Put(all, k, v)
             /\ UNCHANGED <<kind, trie, hash, filling, empty, built>>

\* How many different bytes the names have at a position; a name too short has a 0 there.
Char(k, i)    == IF i < Len(k) THEN k[i + 1] ELSE 0
Distinct(i)   == Cardinality({Char(all[j].key, i) : j \in DOMAIN all})
Positions     == 0 .. maxKeyLength - 1
\* The average bucket is below MaxBucket and at no position smaller; of equals, the last position.
Ideal(i) == /\ i \in Positions
            /\ Len(all) < MaxBucket * Distinct(i)
            /\ \A j \in Positions : IF j > i THEN Distinct(j) < Distinct(i)
                                    ELSE Distinct(j) <= Distinct(i)

\* Build copies the value of the empty name while it counts bytes, if it counts any.
EmptyVal(noTrie) == IF noTrie \/ maxKeyLength = 0 THEN None ELSE Find(all, <<>>)

StartBuild(noTrie) ==
    /\ filling = 0 /\ all # <<>>
    /\ filling' = 1 /\ built' = all
    /\ empty' = EmptyVal(noTrie)
    /\ UNCHANGED <<all, maxKeyLength>>

BuildTrie == /\ StartBuild(FALSE)
             /\ \E pos \in Positions : Ideal(pos) /\ trie' = NewTrie(pos)
             /\ kind' = "trie"
             /\ hash' = NewHash(0)

\* Mutant: the trie of an earlier Build stays.
BuildHashOnly(noTrie) == /\ StartBuild(noTrie)
                         /\ noTrie \/ ~\E pos \in Positions : Ideal(pos)
                         /\ kind' = "hash"
                         /\ hash' = NewHash(Len(all) * LoadFactor)
                         /\ UNCHANGED trie

BuildHash(noTrie) == /\ StartBuild(noTrie)
                     /\ noTrie \/ ~\E pos \in Positions : Ideal(pos)
                     /\ kind' = "hash"
                     /\ hash' = NewHash(Len(all) * LoadFactor)
                     /\ trie' = NewTrie(0)

\* The loop over all.
Entry == all[filling]
Fill(k) == /\ kind = k /\ filling \in DOMAIN all
           /\ filling' = filling + 1
           /\ UNCHANGED <<all, maxKeyLength, kind, empty, built>>

FillTrie == /\ Fill("trie")
            /\ trie' = TrieSet(trie, Entry.key, Entry.val)
            /\ UNCHANGED hash

FillHash == /\ Fill("hash")
            /\ IF HashGet(hash, Entry.key) = None THEN HashSet(Entry.key, Entry.val) ELSE UNCHANGED hash
            /\ UNCHANGED trie

\* The empty name once more.
Finish == /\ filling > Len(all)
          /\ CASE empty = None   -> UNCHANGED <<trie, hash>>
               [] empty # None /\ kind = "trie" -> trie' = [trie EXCEPT !.empty = empty] /\ UNCHANGED hash
               [] OTHER          -> HashSet(<<>>, empty) /\ UNCHANGED trie
          /\ filling' = 0
          /\ UNCHANGED <<all, maxKeyLength, kind, empty, built>>

Next == \/ \E k \in Keys, v \in Vals : Set(k, v)
        \/ BuildTrie
        \/ \E noTrie \in BOOLEAN : BuildHash(noTrie)
        \/ FillTrie \/ FillHash
        \/ Finish

Spec == Init /\ [][Next]_vars

-----------------------------------------------------------------------------
\* What FieldNameMap answers.
Get(k) == CASE kind = "trie" -> TrieGet(trie, k)
            [] kind = "hash" -> HashGet(hash, k)
            [] OTHER         -> None

\* A name whose hash is 0 is lost in the hash map: its slot still counts as free.
Lost(k) == kind = "hash" /\ Hash(k) = 0

Ready == filling = 0 /\ kind # "none"

(***************************************************************************)
(* Properties.                                                             *)
(***************************************************************************)
Values == Vals \cup {None}
Tries  == [pos : Nat, empty : Values, count : Nat, leaves : BOOLEAN, nodes : Seq(Seq(Pair))]
Slots  == [hash : Nat, key : Keys \cup {<<>>}, val : Values]

\* Every structure has its type, there is one of the two at most, as Get asks for the trie
\* first, and the entry that Build is at exists.
TypeOK == /\ all \in Seq(Pair) /\ built \in Seq(Pair)
          /\ maxKeyLength \in Nat
          /\ kind \in {"none", "trie", "hash"}
          /\ trie \in Tries
          /\ kind = "hash" => trie = NewTrie(0)
          /\ hash.N \in Nat /\ hash.c \in Nat /\ hash.b \in [0 .. hash.N - 1 -> Slots]
          /\ filling \in 0 .. Len(all) + 1
          /\ empty \in Values

\* Once built, a lookup answers what was set last for the name before the Build, whichever
\* structure was chosen, however names collide, and nothing for any other name.
Answers == Ready => \A k \in Asked : Lost(k) \/ Get(k) = Find(built, k)

\* The hash map is never full (caching/map.go:84): a search for a free slot, or for a name
\* that is not there, ends.
NeverFull == kind = "hash" => \E p \in 0 .. hash.N - 1 : ~Used(hash, p)
=============================================================================
