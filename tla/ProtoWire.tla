----------------------------- MODULE ProtoWire -----------------------------
(***************************************************************************)
(* The protobuf wire format: ProtoRead, writing varints and tags, and      *)
(* skipping all elements of a list or map.                                 *)
(***************************************************************************)
EXTENDS ProtoRead

\* Op(x), with x worked out before Op is.
With(x, Op(_)) == CHOOSE r \in {Op(v) : v \in {x}} : TRUE

RECURSIVE AppendVarint(_)
AppendVarint(v) == IF v < Base THEN <<v>>
                   ELSE <<(v % Base) + Base>> \o AppendVarint(v \div Base)

AppendTag(num, wire) == AppendVarint(num * 4 + wire)

RECURSIVE SkipVarints(_, _, _, _)
SkipVarints(buf, at, end, size) ==
    IF at = Fail \/ at >= end THEN [at |-> at, size |-> size]
    ELSE With(ReadVarint(buf, at).at, LAMBDA next : SkipVarints(buf, next, end, size + 1))

RECURSIVE SkipSameNumber(_, _, _, _)
SkipSameNumber(buf, at, num, size) ==
    LET After(tag) ==
            CASE tag.at = Fail -> [at |-> Fail, size |-> size]
              [] tag.num # num -> [at |-> at, size |-> size]
              [] OTHER -> With(Skip(buf, tag.at, tag.wire),
                               LAMBDA next : SkipSameNumber(buf, next, num, size + 1))
    IN  IF at = Fail \/ at >= Len(buf) THEN [at |-> at, size |-> size]
        ELSE With(ConsumeTag(buf, at), After)

\* SkipAllElements: over a packed list, or over the run of entries with the number.
\* The elements of a packed list are counted as varints, whatever their type.
SkipAllElements(buf, at, num, packed) ==
    IF packed
    THEN With(ReadVarint(buf, ConsumeTag(buf, at).at),
              LAMBDA len : SkipVarints(buf, len.at, len.at + len.v, 0))
    ELSE SkipSameNumber(buf, at, num, 0)
=============================================================================
