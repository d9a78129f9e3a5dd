--------------------------- MODULE MC_FieldNames ---------------------------
(***************************************************************************)
(* Instances of FieldNames for TLC.                                        *)
(***************************************************************************)
EXTENDS FieldNames, FieldHash

\* Names that share most of their bytes, so that the hash map is chosen too, and bytes below,
\* just behind and above the index of the trie.
MCKeys  == {<<>>, <<98>>, <<98, 98>>, <<98, 98, 97>>}
MCAsked == MCKeys \cup {<<45>>, <<99>>, <<97, 98>>, <<200>>}
MCVals == {"f", "g"}
=============================================================================
