------------------------------ MODULE JSONText ------------------------------
(***************************************************************************)
(* JSON texts as sequences of tokens: what a beginning of a text has open, *)
(* read from the left with a stack.  A token is a tuple that starts with   *)
(* its kind: "lit" and "quoted" are values, "obj", "endobj", "arr" and     *)
(* "endarr" the brackets, "key" is the key of a member.                    *)
(***************************************************************************)
EXTENDS Integers, SequencesExt

\* No beginning of a text.
Broken == <<"broken">>

\* What is open, the innermost last: "object0" and "array0" have nothing in them, "object" and
\* "array" end with an entry; in a "comma" a key has to come, in a "key" its colon; and "value" is
\* a value that has to come.  Takes is what is open after one more token.
Takes(open, token) ==
    LET t     == token[1]
        in    == Last(open)
        out   == Front(open)
        value == in \in {"value", "array0"}
        under == IF in = "value" THEN out ELSE Append(out, "array")
    IN  IF open = <<>> THEN Broken
        ELSE CASE value /\ t \in {"lit", "quoted"}           -> under
               [] value /\ t = "arr"                         -> Append(under, "array0")
               [] value /\ t = "obj"                         -> Append(under, "object0")
               [] in \in {"array0", "array"} /\ t = "endarr"   -> out
               [] in \in {"object0", "object"} /\ t = "endobj" -> out
               [] in = "array" /\ t = "comma"                -> Append(open, "value")
               [] in = "object" /\ t = "comma"               -> Append(out, "comma")
               [] in \in {"object0", "comma"} /\ t = "key"     -> Append(out, "key")
               [] in = "key" /\ t = "colon"                  -> Append(Append(out, "object"), "value")
               [] OTHER                                      -> Broken

OpenIn(text) ==
    LET open[i \in 0 .. Len(text)] == IF i = 0 THEN <<"value">> ELSE Takes(open[i - 1], text[i])
    IN  open[Len(text)]

IsBeginning(text) == OpenIn(text) # Broken
IsJSON(text)      == OpenIn(text) = <<>>
=============================================================================
