----------------------------- MODULE ProtoTree -----------------------------
(***************************************************************************)
(* What GetByPath, SetByPath, UnsetByPath, GetMany and SetMany promise,    *)
(* without bytes: the Value holds a tree.  A message is a function from    *)
(* field numbers, a map from keys, a list from 1 .. n; a path names one    *)
(* child per step.                                                         *)
(***************************************************************************)
EXTENDS Integers, Sequences, SequencesExt, Functions

CONSTANTS InitDocs,  \* the trees a Value starts from
          Gets,      \* paths
          Sets,      \* calls [path, sub, val, fits]: the node sub means the tree val, and
                     \* fits says that it has the type of the place
          Unsets,    \* paths
          GetManys,  \* calls [path, steps]
          SetManys   \* calls [path, steps, vals]; every value has the type of its place

VARIABLES doc, call, res

tree == <<doc, call, res>>

\* A list index counts from 0.
Child(p) == CASE p.t = "index"  -> p.n + 1
              [] p.t = "strKey" -> p.k
              [] OTHER          -> p.n

\* The sub-tree at a path, in a sequence of one, or nothing.
Lookup(v, path) ==
    FoldLeft(LAMBDA found, p : IF found # <<>> /\ Child(p) \in DOMAIN found[1]
                               THEN <<found[1][Child(p)]>> ELSE <<>>,
             <<v>>, path)

Present(v, path) == Lookup(v, path) # <<>>

ParentOf(path) == SubSeq(path, 1, Len(path) - 1)

\* Put x at a path whose parent is there; a new list element goes to the end.
PutChild(v, p, x) ==
    IF p.t = "index" /\ Child(p) \notin DOMAIN v THEN Append(v, x)
    ELSE [k \in DOMAIN v \cup {Child(p)} |-> IF k = Child(p) THEN x ELSE v[k]]

RECURSIVE Put(_, _, _)
Put(v, path, x) ==
    PutChild(v, Head(path), IF Len(path) = 1 THEN x ELSE Put(v[Child(Head(path))], Tail(path), x))

DropChild(v, p) ==
    IF p.t = "index" THEN RemoveAt(v, Child(p)) ELSE Restrict(v, DOMAIN v \ {Child(p)})

\* Remove what is at a path; a level that this leaves empty is removed too.
RECURSIVE RemoveAtPath(_, _)
RemoveAtPath(v, path) ==
    LET p   == Head(path)
        sub == RemoveAtPath(v[Child(p)], Tail(path))
    IN  IF Len(path) = 1 \/ DOMAIN sub = {} THEN DropChild(v, p) ELSE PutChild(v, p, sub)

-----------------------------------------------------------------------------
NoCall == [op |-> "none"]

Init == /\ doc \in InitDocs
        /\ call = NoCall
        /\ res = <<"ok">>

Get == /\ call = NoCall
       /\ \E path \in Gets :
            /\ call' = [op |-> "get", path |-> path]
            /\ res' = IF Present(doc, path) THEN <<"ok", Lookup(doc, path)[1]>> ELSE <<"missing">>
       /\ UNCHANGED doc

\* A value of another type does not replace what is there.
Set == /\ call = NoCall
       /\ \E c \in Sets :
            /\ call' = [op |-> "set", path |-> c.path, sub |-> c.sub]
            /\ IF Present(doc, ParentOf(c.path)) /\ (Present(doc, c.path) => c.fits)
               THEN /\ doc' = Put(doc, c.path, c.val)
                    /\ res' = <<"ok", Present(doc, c.path)>>
               ELSE /\ res' = <<"error">>
                    /\ UNCHANGED doc

\* Nothing is to be done below a parent that is missing.
Unset == /\ call = NoCall
         /\ \E path \in Unsets :
              /\ call' = [op |-> "unset", path |-> path]
              /\ IF Present(doc, path)
                 THEN doc' = RemoveAtPath(doc, path) /\ res' = <<"ok">>
                 ELSE /\ res' = IF Present(doc, ParentOf(path)) THEN <<"error">> ELSE <<"ok">>
                      /\ UNCHANGED doc

GetSome == /\ call = NoCall
           /\ \E c \in GetManys :
                /\ call' = [op |-> "getMany", path |-> c.path, steps |-> c.steps]
                /\ res' = IF Present(doc, c.path)
                          THEN <<"ok", [i \in DOMAIN c.steps |-> Lookup(doc, Append(c.path, c.steps[i]))]>>
                          ELSE <<"error">>
           /\ UNCHANGED doc

\* All of the children, or none.
SetSome == /\ call = NoCall
           /\ \E c \in SetManys :
                /\ call' = [op |-> "setMany", path |-> c.path, steps |-> c.steps]
                /\ IF Present(doc, c.path)
                   THEN /\ doc' = FoldLeft(LAMBDA v, i : Put(v, Append(c.path, c.steps[i]), c.vals[i]),
                                           doc, [i \in DOMAIN c.steps |-> i])
                        /\ res' = <<"ok">>
                   ELSE /\ res' = <<"error">>
                        /\ UNCHANGED doc

Return == /\ call # NoCall
          /\ call' = NoCall
          /\ res' = <<"ok">>
          /\ UNCHANGED doc

Next == Get \/ Set \/ Unset \/ GetSome \/ SetSome \/ Return

Spec == Init /\ [][Next]_tree
=============================================================================
