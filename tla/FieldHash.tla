----------------------------- MODULE FieldHash -----------------------------
(***************************************************************************)
(* The hash function of field names.  HashBits is its width, 32 in the     *)
(* code.                                                                   *)
(***************************************************************************)
EXTENDS Integers, SequencesExt

CONSTANTS HashBits, HashSeed   \* 5381 in the code

Wrap(n) == n % 2 ^ HashBits
Step(h, c) == Wrap(h * 33 + c)

DJBHash32(k) == FoldLeft(Step, Wrap(HashSeed), k)
=============================================================================
