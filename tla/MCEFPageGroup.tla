---------------------------- MODULE MCEFPageGroup ----------------------------
(* Groups of up to three pages, some shorter and some longer than the page *)
(* length of two; transfers that start before, in, between and after the   *)
(* pages and reach up to past the end.                                     *)
EXTENDS EFPageGroup, Sequences

Prefix(lengths, i) == 
  LET sum[n \in 0 .. i] == IF n = 0 THEN 0 ELSE sum[n - 1] + lengths[n] IN sum[i]

LayoutOf(lengths) ==
  [count |-> Len(lengths),
   start |-> [i \in 0 .. Len(lengths) |-> Prefix(lengths, i)]]

MCLayouts == {LayoutOf(s) : s \in {<<>>, <<2>>, <<1, 2>>, <<3, 1>>, <<1, 1, 2>>}}
MCOffsets == -1 .. 6
MCLengths == -1 .. 4
MCBuffers == {[i \in 0 .. 3 |-> IF i = 1 THEN 0 ELSE 1]}
=============================================================================
