---------------------------- MODULE MCEFFileHandle ----------------------------
(* A file of at most two pages of two bytes, EFIndex of four bits; seeks   *)
(* in the pages, past them and to where a sum overflows.                   *)
EXTENDS EFFileHandle

MCOffsets == {-8, -1, 1, 3, 7}
MCLengths == {-1, 0, 1, 3}
MCCounts  == {0, 1}
MCBuffers == {[i \in 0 .. 2 |-> IF i = 1 THEN 0 ELSE 1]}
=============================================================================
