----------------------------- MODULE MCEFNumber -----------------------------
(* Widths that grow as those of the code do, small enough to enumerate.    *)
EXTENDS EFNumber

CONSTANTS n1, n2

MCBits == [t \in Types |-> t + 2]
=============================================================================
