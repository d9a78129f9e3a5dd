------------------------------ MODULE GoValue ------------------------------
(***************************************************************************)
(* Go types and values as package trim meets them through reflect, and the *)
(* three layouts it reads from the tags of a struct.                       *)
(* A value carries its type.  Values are trees: what two of them share in  *)
(* memory is not told apart.                                               *)
(***************************************************************************)
EXTENDS Integers, Sequences, SequencesExt, FiniteSets, TLC

CONSTANTS Layout,   \* the fields of each struct type
          Nil       \* nil, of whatever type

Integer(bits) == <<"int", bits>>
Str == <<"string">>
Boxed == <<"interface">>
Ptr(t) == <<"ptr", t>>
Slice(t) == <<"slice", t>>
Array(t, n) == <<"array", t, n>>
Map(t) == <<"map", t>>
Struct(s) == <<"struct", s>>
Bytes == <<"bytes">>                  \* protobuf fields: a sequence of fields, see TrimValue
UnknownFields == <<"unknown">>        \* thrift fields: a function from ids, or not readable

Kind(t) == t[1]
Elem(t) == t[2]
Fields(t) == Layout[t[2]]

Val(t, v) == [type |-> t, val |-> v]
KindOf(x) == Kind(x.type)
IsNil(x) == x.val = Nil
Iface(x) == Val(Boxed, x)

RECURSIVE Zero(_)
Zero(t) ==
    CASE Kind(t) = "int" -> Val(t, 0)
      [] Kind(t) = "string" -> Val(t, "")
      [] Kind(t) = "bytes" -> Val(t, <<>>)
      [] Kind(t) = "unknown" -> Val(t, [ok |-> TRUE, ids |-> <<>>])
      [] Kind(t) = "array" -> Val(t, [i \in 1 .. t[3] |-> Zero(Elem(t))])
      [] Kind(t) = "struct" -> Val(t, [i \in DOMAIN Fields(t) |-> Zero(Fields(t)[i].type)])
      [] OTHER -> Val(t, Nil)

RECURSIVE WellTyped(_)
WellTyped(x) ==
    CASE KindOf(x) = "int" -> x.val \in -(2 ^ (Elem(x.type) - 1)) .. 2 ^ (Elem(x.type) - 1) - 1
      [] KindOf(x) = "string" -> x.val \in STRING
      [] KindOf(x) = "struct" ->
            /\ DOMAIN x.val = DOMAIN Fields(x.type)
            /\ \A i \in DOMAIN x.val : x.val[i].type = Fields(x.type)[i].type /\ WellTyped(x.val[i])
      [] KindOf(x) \in {"slice", "array", "map"} ->
            IsNil(x) \/ \A i \in DOMAIN x.val : x.val[i].type = Elem(x.type) /\ WellTyped(x.val[i])
      [] KindOf(x) = "ptr" -> IsNil(x) \/ (x.val.type = Elem(x.type) /\ WellTyped(x.val))
      [] KindOf(x) = "interface" -> IsNil(x) \/ (KindOf(x.val) # "interface" /\ WellTyped(x.val))
      [] OTHER -> TRUE

\* A nil map reads as an empty one, a nil slice has no elements.
Entries(x) == IF IsNil(x) THEN <<>> ELSE x.val
\* A pointer that is followed for writing is allocated first.
Pointee(x) == IF IsNil(x) THEN Zero(Elem(x.type)) ELSE x.val

-----------------------------------------------------------------------------
(***************************************************************************)
(* Assignment of one value to another type.                                *)
(***************************************************************************)
AssignableTo(s, t) == s = t \/ t = Boxed
Wrap(bits, n) == ((n + 2 ^ (bits - 1)) % (2 ^ bits)) - 2 ^ (bits - 1)
\* An integer converts to a string, as a code point.
ConvertibleTo(s, t) == Kind(s) = "int" /\ Kind(t) \in {"int", "string"}
Convert(x, t) ==
    CASE t = x.type -> x
      [] t = Boxed /\ t # x.type -> Iface(x)
      [] Kind(t) = "int" /\ t # x.type -> Val(t, Wrap(Elem(t), x.val))
      [] Kind(t) = "string" -> Val(t, "U+" \o ToString(x.val))

-----------------------------------------------------------------------------
(***************************************************************************)
(* Layouts: the index of the field with a tag, and of the special fields.  *)
(* 0 stands for a missing index.                                           *)
(***************************************************************************)
LastOf(indices) == IF indices = {} THEN 0 ELSE CHOOSE i \in indices : \A j \in indices : j <= i
Special == {"_unknownFields", "XXX_unrecognized", "XXX_NoUnkeyedLiteral"}
GoNamed(t, go) == LastOf({i \in DOMAIN Fields(t) : Fields(t)[i].go = go})

\* getStructFieldInfo
ThriftField(t, id) ==
    LastOf({i \in DOMAIN Fields(t) : Fields(t)[i].thrift = id /\ Fields(t)[i].go # "_unknownFields"})
UnknownIndex(t) == GoNamed(t, "_unknownFields")
\* getPBStructFieldInfo
PbField(t, name) ==
    LastOf({i \in DOMAIN Fields(t) : Fields(t)[i].pb = name /\ Fields(t)[i].go \notin Special})
UnrecognizedIndex(t) == GoNamed(t, "XXX_unrecognized")
LiteralIndex(t) == GoNamed(t, "XXX_NoUnkeyedLiteral")
\* getJSONStructFieldInfo: where there is no literal field its index stays 0, the first field.
JsonField(t, name) ==
    LastOf({i \in DOMAIN Fields(t) : Fields(t)[i].json = name /\ Fields(t)[i].go # "XXX_NoUnkeyedLiteral"})
JsonLiteralIndex(t) == IF LiteralIndex(t) = 0 THEN 1 ELSE LiteralIndex(t)
=============================================================================
