----------------------------- MODULE ProtoRead -----------------------------
(***************************************************************************)
(* Reading the protobuf wire format as proto/binary does: varints, tags    *)
(* and skipping, over a buffer of small "bytes".  A byte is a number below *)
(* 2 * Base and carries a digit in base Base; a byte of Base or more says  *)
(* that another follows.  A tag keeps two bits for the wire type.  So      *)
(* lengths and field numbers still change their width at a boundary, only  *)
(* earlier than in the real format (Base = 128, three bits).               *)
(* Positions count from 0, as BinaryProtocol.Read does.                    *)
(***************************************************************************)
EXTENDS Integers, Sequences

CONSTANTS Base,        \* digits of one varint byte
          FixedWidth   \* bytes of a fixed-width value

ASSUME WireAssumption == /\ Base \in Nat /\ Base >= 8
                         /\ FixedWidth \in Nat \ {0}

Byte == 0 .. 2 * Base - 1

\* The outcome of a failed read, in place of a position; what is read from there fails too.
Fail == -1

Varint  == 0
Fixed   == 1
Bytes   == 2

\* next: the position after size bytes, if they are there.
Advance(buf, at, size) == IF at = Fail \/ at + size > Len(buf) THEN Fail ELSE at + size

\* The number whose digits are the bytes between two positions, the lowest first.
Digits(buf, at, end) ==
    LET value[i \in at .. end] == IF i = end THEN 0 ELSE (buf[i + 1] % Base) + Base * value[i + 1]
    IN  value[at]

\* The varint at a position: its value v and the position after it.
EndsAt(buf, at, i) == buf[i] < Base /\ \A j \in at + 1 .. i - 1 : buf[j] >= Base
ReadVarint(buf, at) ==
    IF at # Fail /\ \E i \in at + 1 .. Len(buf) : buf[i] < Base
    THEN LET end == CHOOSE i \in at + 1 .. Len(buf) : EndsAt(buf, at, i)
         IN  [v |-> Digits(buf, at, end), at |-> end]
    ELSE [v |-> 0, at |-> Fail]

\* A tag; field numbers start at 1.
ConsumeTag(buf, at) ==
    LET r == ReadVarint(buf, at)
    IN  [num  |-> r.v \div 4,
         wire |-> r.v % 4,
         at   |-> IF r.v \div 4 < 1 THEN Fail ELSE r.at]

\* Skip over a value: a wire type without a case is not an error and moves nothing.
Skip(buf, at, wire) ==
    CASE wire = Varint -> ReadVarint(buf, at).at
      [] wire = Fixed  -> Advance(buf, at, FixedWidth)
      [] wire = Bytes  -> LET r == ReadVarint(buf, at) IN Advance(buf, r.at, r.v)
      [] OTHER         -> at
=============================================================================
