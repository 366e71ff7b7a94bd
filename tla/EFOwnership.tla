---------------------------- MODULE EFOwnership ----------------------------
(***************************************************************************)
(* What reference counting promises to the clients of EmexFoundation,      *)
(* without saying how: an object exists while somebody holds a reference   *)
(* to it and is destroyed, once, when nobody does.  There is no counter    *)
(* here and no step of a release: a reference is a token, and the object   *)
(* is reclaimed at some point after its last token is given up.            *)
(***************************************************************************)
CONSTANTS Threads, References, NoOne

VARIABLES
  state,     \* "unborn", "alive" or "gone"
  immortal,  \* a string literal (EF_STR): never created, never destroyed
  holder     \* which thread holds each reference, or NoOne

vars == <<state, immortal, holder>>

Outstanding == {r \in References : holder[r] # NoOne}

Init ==
  /\ immortal \in BOOLEAN
  /\ state = IF immortal THEN "alive" ELSE "unborn"
  /\ holder = [r \in References |-> NoOne]

(* The creator of an object gets its first reference; anyone may name a    *)
(* string literal.                                                         *)
Obtain(t, r) ==
  /\ holder[r] = NoOne
  /\ immortal \/ state = "unborn"
  /\ state' = "alive"
  /\ holder' = [holder EXCEPT ![r] = t]
  /\ UNCHANGED immortal

(* Only who holds a reference can make another one.                        *)
Share(t, r) ==
  /\ \E s \in References : holder[s] = t
  /\ holder[r] = NoOne
  /\ holder' = [holder EXCEPT ![r] = t]
  /\ UNCHANGED <<state, immortal>>

Give(t, u, r) ==
  /\ holder[r] = t
  /\ holder' = [holder EXCEPT ![r] = u]
  /\ UNCHANGED <<state, immortal>>

Drop(t, r) ==
  /\ holder[r] = t
  /\ holder' = [holder EXCEPT ![r] = NoOne]
  /\ UNCHANGED <<state, immortal>>

Destroy ==
  /\ state = "alive"
  /\ ~immortal
  /\ Outstanding = {}
  /\ state' = "gone"
  /\ UNCHANGED <<immortal, holder>>

Next ==
  \/ \E t \in Threads, r \in References :
       Obtain(t, r) \/ Share(t, r) \/ Drop(t, r)
  \/ \E t, u \in Threads, r \in References : Give(t, u, r)
  \/ Destroy

Spec == Init /\ [][Next]_vars

(* An object nobody references is reclaimed: ownership leaks nothing.      *)
FairSpec == Spec /\ WF_vars(Destroy)
=============================================================================
