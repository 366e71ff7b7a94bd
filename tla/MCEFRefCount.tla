---------------------------- MODULE MCEFRefCount ----------------------------
(* Three threads and three references: two releases can race for the last  *)
(* reference while a third thread still uses the object.                   *)
EXTENDS EFRefCount
=============================================================================
