----------------------------- MODULE MCEFString -----------------------------
(* A text that begins and ends with a space and has more behind its terminator, and *)
(* one that is not ASCII and malformed at its end.                         *)
EXTENDS EFString, TLC

CONSTANTS s1, s2, s3, b1, b2, f1, f2

MCContents ==
  f1 :> <<" ", "a", " ", "0", "a">> @@ f2 :> <<"e", "x">>
MCComplying == "UTF7" :> {"a", " "} @@ "UTF8" :> {"a", " ", "e"}

Symmetry == Permutations(Strings) \cup Permutations(Heap)
=============================================================================
