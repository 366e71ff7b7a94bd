---------------------------- MODULE MCEFObjectGraph ----------------------------
(* Five objects are the fewest that EFFileHandleCreate needs while its     *)
(* group's first array is not yet released.                                *)
EXTENDS EFObjectGraph, TLC

Symmetry == Permutations(Refs)
=============================================================================
