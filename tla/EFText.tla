------------------------------- MODULE EFText -------------------------------
(***************************************************************************)
(* What strings promise: each is a text of its own.  Nothing that is done  *)
(* to another string, and no failure, changes it, and one that is not      *)
(* mutable never changes.                                                  *)
(***************************************************************************)
EXTENDS Sequences, Naturals

CONSTANTS
  Strings,
  Given,  \* the texts clients make strings from
  Space,  \* the characters that trimming removes
  NoText  \* the text of a string that does not exist

VARIABLES
  text,    \* string -> its text
  mutable, \* the strings that may change
  got,     \* the text that the latest call has read
  ret      \* whether the latest call has done what it was asked

vars == <<text, mutable, got, ret>>

Exists(s) == text[s] # NoText

Init ==
  /\ text = [s \in Strings |-> NoText]
  /\ mutable = {}
  /\ got = <<>>
  /\ ret = TRUE

(* A string that is not mutable, of a text of the client, ...              *)
Create(s, t) ==
  /\ ~Exists(s)
  /\ text' = [text EXCEPT ![s] = t]
  /\ ret' = TRUE /\ got' = <<>>
  /\ UNCHANGED mutable

(* ... and one of either kind, of the text of a string.                    *)
Copy(s, r, m) ==
  /\ ~Exists(s) /\ Exists(r)
  /\ text' = [text EXCEPT ![s] = text[r]]
  /\ mutable' = IF m THEN mutable \cup {s} ELSE mutable
  /\ ret' = TRUE /\ got' = <<>>

(* A text without the spaces around it.                                    *)
IsTrimmed(t, core) ==
  \E i \in 0 .. Len(t) :
    /\ i + Len(core) <= Len(t)
    /\ core = SubSeq(t, i + 1, i + Len(core))
    /\ \A j \in 1 .. Len(t) : j <= i \/ j > i + Len(core) => t[j] \in Space
    /\ core # <<>> => core[1] \notin Space /\ core[Len(core)] \notin Space

Trim(s) ==
  /\ s \in mutable
  /\ \E i, j \in 0 .. Len(text[s]) :
       /\ IsTrimmed(text[s], SubSeq(text[s], i + 1, j))
       /\ text' = [text EXCEPT ![s] = SubSeq(@, i + 1, j)]
  /\ ret' = TRUE /\ got' = <<>>
  /\ UNCHANGED mutable

AppendString(s, r) ==
  /\ s \in mutable /\ Exists(r)
  /\ text' = [text EXCEPT ![s] = @ \o text[r]]
  /\ ret' = TRUE /\ got' = <<>>
  /\ UNCHANGED mutable

Read(s) ==
  /\ Exists(s)
  /\ got' = text[s]
  /\ ret' = TRUE
  /\ UNCHANGED <<text, mutable>>

Forget(s) ==
  /\ Exists(s)
  /\ text' = [text EXCEPT ![s] = NoText]
  /\ mutable' = mutable \ {s}
  /\ ret' = TRUE /\ got' = <<>>

Fail == ret' = FALSE /\ got' = <<>> /\ UNCHANGED <<text, mutable>>

Next ==
  \/ Fail
  \/ \E s \in Strings :
       \/ \E t \in Given : Create(s, t)
       \/ \E r \in Strings, m \in BOOLEAN : Copy(s, r, m)
       \/ Trim(s)
       \/ \E r \in Strings : AppendString(s, r)
       \/ Read(s)
       \/ Forget(s)

Spec == Init /\ [][Next]_vars
=============================================================================
