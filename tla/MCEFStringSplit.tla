-------------------------- MODULE MCEFStringSplit --------------------------
(* Texts of characters of one, two and three bytes, with separators that   *)
(* overlap themselves, share bytes with other characters or are empty.     *)
EXTENDS EFStringSplit, TLC

A == <<65>>
E == <<195, 169>>
H == <<225, 169, 169>>

MCTexts == {FlattenSeq(s) : s \in BoundedSeq({A, E}, 5) \cup BoundedSeq({A, E, H}, 3)}
MCSeparators == {FlattenSeq(s) : s \in BoundedSeq({A, E}, 2)} \cup {H}
MCBehind == {<<0>>, <<65, 0>>, <<169, 0>>}
=============================================================================
