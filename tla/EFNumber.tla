------------------------------ MODULE EFNumber ------------------------------
(***************************************************************************)
(* Numbers: a type and a union that holds a value of its width.  Memory of *)
(* objects is zero when it is allocated, and low bytes come first.         *)
(*                                                                         *)
(* EFNumberCreate stores no type: the field keeps the zero of calloc,      *)
(* which is kEFNumberTypeSInt8, and every reader takes the number for one. *)
(***************************************************************************)
EXTENDS Integers

CONSTANTS
  Numbers, \* the addresses of number objects
  Bits,    \* type -> width: 8, 16, 32 and 64, or narrower ones that grow alike
  Null

kEFNumberTypeSInt8 == 0
Types == 0 .. 3
BadType == 4

Signed(w) == -(2 ^ (w - 1)) .. 2 ^ (w - 1) - 1

VARIABLES
  type,    \* number -> its type field, Null without an object
  content, \* number -> the bits of its union
  given    \* number -> what its client has created it from

vars == <<type, content, given>>

Live(n) == type[n] # Null

Init ==
  /\ type = [n \in Numbers |-> Null]
  /\ content = [n \in Numbers |-> 0]
  /\ given = [n \in Numbers |-> Null]
-----------------------------------------------------------------------------
(* The member of the union that a reader of type t takes.                  *)
View(t, bits) ==
  LET low == bits % 2 ^ Bits[t]
  IN IF low < 2 ^ (Bits[t] - 1) THEN low ELSE low - 2 ^ Bits[t]

(* EFNumberCreate.  The object may not be allocated, and one of a bad type *)
(* is released at once.                                                    *)
EFNumberCreate(n, t, v) ==
  \/ UNCHANGED vars
  \/ /\ t \in Types
     /\ type' = [type EXCEPT ![n] = kEFNumberTypeSInt8]
     /\ content' = [content EXCEPT ![n] = v % 2 ^ Bits[t]]
     /\ given' = [given EXCEPT ![n] = [type |-> t, value |-> v]]

EFRelease(n) ==
  /\ type' = [type EXCEPT ![n] = Null]
  /\ content' = [content EXCEPT ![n] = 0]
  /\ given' = [given EXCEPT ![n] = Null]

(* The readers, which change nothing.                                      *)
EFNumberGetType(n)     == type[n]
EFNumberGetByteSize(n) == Bits[type[n]]
SInt64Value(n)         == View(type[n], content[n])

EFNumberCompare(n, m) ==
  IF SInt64Value(n) = SInt64Value(m) THEN "EqualTo"
  ELSE IF SInt64Value(n) > SInt64Value(m) THEN "GreaterThan" ELSE "LessThan"

NumberEqual(n, m) ==
  type[n] = type[m] /\ View(type[n], content[n]) = View(type[m], content[m])

(* EFNumberGetValue for a variable of type t with these bits: it writes as *)
(* many bytes as the number has, whatever type it is asked for.            *)
EFNumberGetValue(n, t, bits) ==
  LET w == Bits[type[n]]
  IN View(t, (bits \div 2 ^ w) * 2 ^ w + (SInt64Value(n) % 2 ^ w))

Next ==
  \/ \E n \in Numbers, t \in Types :
       ~Live(n) /\ \E v \in Signed(Bits[t]) : EFNumberCreate(n, t, v)
  \/ \E n \in Numbers : ~Live(n) /\ EFNumberCreate(n, BadType, 0)
  \/ \E n \in Numbers : Live(n) /\ EFRelease(n)

Spec == Init /\ [][Next]_vars
-----------------------------------------------------------------------------
(* EFNumber.c:73 refuses two numbers because they are "not the same type   *)
(* of number": those that are equal were created with one type.            *)
EqualIsSameType ==
  \A n, m \in Numbers : Live(n) /\ Live(m) /\ NumberEqual(n, m) => given[n].type = given[m].type
=============================================================================
