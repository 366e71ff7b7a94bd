-------------------------- MODULE MCEFClassRegistry --------------------------
(* Two built-in classes and one of a client for a table of two slots: the  *)
(* last registration, whichever it is, finds the table full.               *)
EXTENDS EFClassRegistry
=============================================================================
