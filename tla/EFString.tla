------------------------------ MODULE EFString ------------------------------
(***************************************************************************)
(* Strings and the memory their characters are in.  A string has its       *)
(* characters behind its own header (it is inlined), in a buffer that it   *)
(* allocates and frees (it is mutable), or in a buffer of somebody else.   *)
(*                                                                         *)
(* Memory is a function from places to what is there, a sequence that is   *)
(* empty where nothing is allocated; the place of inlined characters is    *)
(* the string itself.  A character stands for one well-formed sequence of  *)
(* bytes (see EFStringEncoding), or for bytes that are malformed.          *)
(*                                                                         *)
(* A release here is the last one (EFRefCount has the others).             *)
(***************************************************************************)
EXTENDS Integers, Sequences, FiniteSets

CONSTANTS
  Strings,    \* the addresses of string objects
  Heap,       \* the addresses that malloc and realloc answer
  Foreign,    \* the buffers of clients, literals among them ...
  contents,   \* ... and what is in them
  Character, Space, NUL,
  Encodings, Complying, \* encoding -> the characters it accepts
  Null,
  MaxLength,  \* no append makes a string longer than this (a bound)
  Borrowing   \* whether clients leave a mutable string alone while a copy
              \* shares its buffer

Places == Strings \cup Heap \cup Foreign

ASSUME PlacesAssumption ==
  /\ Strings \cap Heap = {} /\ Strings \cap Foreign = {} /\ Heap \cap Foreign = {}
  /\ Null \notin Places
ASSUME CharacterAssumption ==
  /\ NUL \notin Character
  /\ Null \notin Seq(Character \cup {NUL})
  /\ \A e \in Encodings : Complying[e] \subseteq Character
ASSUME ContentsAssumption ==
  \A f \in Foreign : contents[f] \in Seq(Character \cup {NUL}) /\ contents[f] # <<>>
ASSUME BoundAssumption == MaxLength \in Nat /\ Borrowing \in BOOLEAN

VARIABLES
  memory,    \* place -> what is in it
  buffer,    \* string -> the place its characters are in, Null without an object
  length, encoding, isMutable, \* the other fields
  got, ret,  \* as in EFText
  crashed    \* the process has ended at a null pointer

object == <<buffer, length, encoding, isMutable>>
vars   == <<memory, buffer, length, encoding, isMutable, got, ret, crashed>>

Live(s)  == buffer[s] # Null
Text(s)  == SubSeq(memory[buffer[s]], 1, length[s])
isInlined(s) == buffer[s] = s
FreeHeap == {b \in Heap : memory[b] = <<>>}

(* Whether another string has its characters in the buffer of this one.    *)
Lent(s) == isMutable[s] /\ \E t \in Strings : t # s /\ buffer[t] = buffer[s]

Init ==
  /\ memory = [p \in Places |-> IF p \in Foreign THEN contents[p] ELSE <<>>]
  /\ buffer = [s \in Strings |-> Null]
  /\ length = [s \in Strings |-> 0]
  /\ encoding = [s \in Strings |-> Null]
  /\ isMutable = [s \in Strings |-> FALSE]
  /\ got = <<>> /\ ret = TRUE /\ crashed = FALSE

Fail ==
  /\ ret' = FALSE /\ got' = <<>>
  /\ UNCHANGED <<memory, object, crashed>>
-----------------------------------------------------------------------------
(* __EFStringValidateEncoding, character by character.                     *)
Validates(e, t) == \A i \in 1 .. Len(t) : t[i] \in Complying[e]

(* The characters before the first terminator, at most n of them.          *)
IsStrnlen(len, m, n) ==
  /\ len \in 0 .. n
  /\ \A i \in 1 .. len : m[i] # NUL
  /\ len < n => m[len + 1] = NUL

Construct(s, b, n, e, mutable) ==
  /\ buffer' = [buffer EXCEPT ![s] = b]
  /\ length' = [length EXCEPT ![s] = n]
  /\ encoding' = [encoding EXCEPT ![s] = e]
  /\ isMutable' = [isMutable EXCEPT ![s] = mutable]
  /\ ret' = TRUE /\ got' = <<>>
  /\ UNCHANGED crashed

(* The buffer of a mutable string.  One that fails to be allocated is      *)
(* written to nevertheless.                                                *)
CopyToHeap(s, t, len, e) ==
  \/ \E b \in FreeHeap :
       /\ memory' = [memory EXCEPT ![b] = Append(t, NUL)]
       /\ Construct(s, b, len, e, TRUE)
  \/ crashed' = TRUE /\ UNCHANGED <<memory, object, got, ret>>

CopyInline(s, t, len, e) ==
  /\ memory' = [memory EXCEPT ![s] = Append(t, NUL)]
  /\ Construct(s, s, len, e, FALSE)

Share(s, place, len, e) ==
  /\ Construct(s, place, len, e, FALSE)
  /\ UNCHANGED memory

(* __EFStringCreate, which fails when the text does not comply or the      *)
(* object cannot be allocated.                                             *)
StringCreate(s, place, n, e, inlined, mutable) ==
  \/ Fail
  \/ \E len \in 0 .. n :
       LET t == SubSeq(memory[place], 1, len) IN
       /\ IsStrnlen(len, memory[place], n)
       /\ Validates(e, t)
       /\ \/ mutable /\ CopyToHeap(s, t, len, e)
          \/ ~mutable /\ inlined /\ CopyInline(s, t, len, e)
          \/ ~mutable /\ ~inlined /\ Share(s, place, len, e)

(* EFStringCreateWithCBuffer, EFStringCreateWithCString and, not inlined,  *)
(* their NoCopy forms.                                                     *)
CreateFromForeign(s, f, n, e, inlined) == StringCreate(s, f, n, e, inlined, FALSE)

(* EFStringCreateCopy and EFStringCreateMutableCopy.  A mutable string is  *)
(* not inlined, and so a copy of it that is not mutable shares its buffer. *)
CreateCopy(s, r, mutable) ==
  StringCreate(s, buffer[r], length[r], encoding[r], isInlined(r), mutable)

FreeKeepsBuffer(s) ==
  /\ memory' = [memory EXCEPT ![s] = <<>>]
  /\ buffer' = [buffer EXCEPT ![s] = Null]
  /\ length' = [length EXCEPT ![s] = 0]
  /\ encoding' = [encoding EXCEPT ![s] = Null]
  /\ isMutable' = [isMutable EXCEPT ![s] = FALSE]
  /\ ret' = TRUE /\ got' = <<>>
  /\ UNCHANGED crashed

(* The last EFRelease: __EFStringDeinit and EFObjectDealloc.               *)
Free(s) ==
  /\ memory' = [p \in Places |->
                  IF p = s \/ (isMutable[s] /\ p = buffer[s]) THEN <<>> ELSE memory[p]]
  /\ buffer' = [buffer EXCEPT ![s] = Null]
  /\ length' = [length EXCEPT ![s] = 0]
  /\ encoding' = [encoding EXCEPT ![s] = Null]
  /\ isMutable' = [isMutable EXCEPT ![s] = FALSE]
  /\ ret' = TRUE /\ got' = <<>>
  /\ UNCHANGED crashed
-----------------------------------------------------------------------------
(* EFStringGetCString into a buffer of this size.                          *)
GetCString(s, size, e) ==
  IF Validates(e, Text(s)) /\ length[s] + 1 <= size
  THEN /\ got' = Text(s)
       /\ ret' = TRUE
       /\ UNCHANGED <<memory, object, crashed>>
  ELSE Fail

(* What the two loops of EFStringTrimWhitespace find: the first character  *)
(* that is no space, the end without one, and the last one.                *)
IsFirst(i, t) ==
  /\ i \in 1 .. Len(t) + 1
  /\ \A j \in 1 .. i - 1 : t[j] \in Space
  /\ i <= Len(t) => t[i] \notin Space
IsLast(i, t) ==
  /\ i \in 0 .. Len(t)
  /\ \A j \in i + 1 .. Len(t) : t[j] \in Space
  /\ i > 0 => t[i] \notin Space

Set(s, m, n) ==
  /\ memory' = [memory EXCEPT ![buffer[s]] = m]
  /\ length' = [length EXCEPT ![s] = n]
  /\ ret' = TRUE /\ got' = <<>>
  /\ UNCHANGED <<buffer, encoding, isMutable, crashed>>

MovedByNone(m, start, n) ==
  [i \in 1 .. Len(m) |-> IF i = n + 1 THEN NUL ELSE m[i]]

(* The memmove of n characters to the front, and the new terminator; the   *)
(* rest of the buffer keeps what was there.                                *)
Moved(m, start, n) ==
  [i \in 1 .. Len(m) |->
    IF i <= n THEN m[i + start] ELSE IF i = n + 1 THEN NUL ELSE m[i]]

LengthUnchecked(first, last, n) == last - first + 1

(* Nothing is left of a string of spaces.                                  *)
LengthBetween(first, last, n) == IF first > n THEN 0 ELSE last - first + 1

(* EFStringTrimWhitespace.                                                 *)
TrimWhitespace(s) ==
  \/ ~isMutable[s] /\ Fail
  \/ /\ isMutable[s]
     /\ \E first \in 1 .. length[s] + 1, last \in 0 .. length[s] :
          LET newLen == LengthBetween(first, last, length[s]) IN
          /\ IsFirst(first, Text(s)) /\ IsLast(last, Text(s))
          /\ Set(s, Moved(memory[buffer[s]], first - 1, newLen), newLen)

AppendUnchecked(s, r) ==
  \/ Fail
  \/ /\ isMutable[s]
     /\ length[s] + length[r] <= MaxLength
     /\ \E b \in FreeHeap \cup {buffer[s]} :
          /\ memory' = [p \in Places |->
                          IF p = b THEN Append(Text(s) \o Text(r), NUL)
                          ELSE IF p = buffer[s] THEN <<>> ELSE memory[p]]
          /\ buffer' = [buffer EXCEPT ![s] = b]
     /\ length' = [length EXCEPT ![s] = @ + length[r]]
     /\ ret' = TRUE /\ got' = <<>>
     /\ UNCHANGED <<encoding, isMutable, crashed>>

(* EFStringAppendString.  realloc may move the buffer; when a string is    *)
(* appended to itself its characters are read at the new place.            *)
AppendString(s, r) ==
  \/ Fail
  \/ /\ isMutable[s]
     /\ Validates(encoding[s], Text(r))
     /\ length[s] + length[r] <= MaxLength
     /\ \E b \in FreeHeap \cup {buffer[s]} :
          /\ r # s /\ buffer[r] = buffer[s] => b = buffer[s]
          /\ memory' = [p \in Places |->
                          IF p = b THEN Append(Text(s) \o Text(r), NUL)
                          ELSE IF p = buffer[s] THEN <<>> ELSE memory[p]]
          /\ buffer' = [buffer EXCEPT ![s] = b]
     /\ length' = [length EXCEPT ![s] = @ + length[r]]
     /\ ret' = TRUE /\ got' = <<>>
     /\ UNCHANGED <<encoding, isMutable, crashed>>

EqualOverFirst(s, t) ==
  /\ encoding[s] # encoding[t] =>
       Validates(encoding[t], Text(s)) /\ Validates(encoding[s], Text(t))
  /\ \A i \in 1 .. length[s] : i <= length[t] /\ memory[buffer[s]][i] = memory[buffer[t]][i]

(* __EFStringEqual.                                                        *)
StringEqual(s, t) ==
  /\ length[s] = length[t]
  /\ encoding[s] # encoding[t] =>
       Validates(encoding[t], Text(s)) /\ Validates(encoding[s], Text(t))
  /\ \A i \in 1 .. length[s] : memory[buffer[s]][i] = memory[buffer[t]][i]
-----------------------------------------------------------------------------
(* What a call does with characters that are gone is not modelled.         *)
Intact(s) == Live(s) /\ length[s] <= Len(memory[buffer[s]])

MayChange(s) == Intact(s) /\ (Borrowing => ~Lent(s))

Call ==
  \/ \E s \in Strings, f \in Foreign, e \in Encodings, inlined \in BOOLEAN :
       \E n \in 0 .. Len(contents[f]) :
         ~Live(s) /\ CreateFromForeign(s, f, n, e, inlined)
  \/ \E s, r \in Strings, mutable \in BOOLEAN :
       ~Live(s) /\ Intact(r) /\ CreateCopy(s, r, mutable)
  \/ \E s \in Strings, e \in Encodings :
       \E size \in {length[s], length[s] + 1} : Intact(s) /\ GetCString(s, size, e)
  \/ \E s \in Strings : MayChange(s) /\ TrimWhitespace(s)
  \/ \E s, r \in Strings : MayChange(s) /\ Intact(r) /\ AppendString(s, r)
  \/ \E s \in Strings : MayChange(s) /\ Free(s)

Next == ~crashed /\ Call

Spec == Init /\ [][Next]_vars
-----------------------------------------------------------------------------
Word == Seq(Character)

TypeOK ==
  /\ memory \in [Places -> Seq(Character \cup {NUL})]
  /\ buffer \in [Strings -> Places \cup {Null}]
  /\ length \in [Strings -> Nat]
  /\ encoding \in [Strings -> Encodings \cup {Null}]
  /\ isMutable \in [Strings -> BOOLEAN]
  /\ got \in Word /\ ret \in BOOLEAN /\ crashed \in BOOLEAN
  /\ \A s \in Strings : Live(s) => encoding[s] \in Encodings

(* Where characters can be; those of clients are never written to.         *)
Placed ==
  /\ \A s \in Strings : buffer[s] \in Strings => buffer[s] = s
  /\ \A s \in Strings : isMutable[s] => buffer[s] \in Heap
  /\ \A f \in Foreign : memory[f] = contents[f]

(* Every buffer that is allocated has one mutable string that will free    *)
(* it, so that none leaks and none is freed twice; and what a string owns  *)
(* has room for its text and a terminator behind it.                       *)
BuffersOwned ==
  /\ Placed
  /\ \A b \in Heap :
       memory[b] # <<>> => \E s \in Strings : isMutable[s] /\ buffer[s] = b
  /\ \A s, t \in Strings :
       isMutable[s] /\ isMutable[t] /\ buffer[s] = buffer[t] => s = t
  /\ \A s \in Strings : (memory[s] # <<>>) <=> isInlined(s)
  /\ \A s \in Strings : isMutable[s] \/ isInlined(s) =>
       length[s] < Len(memory[buffer[s]]) /\ memory[buffer[s]][length[s] + 1] = NUL

(* The text of a string is there, complies with its encoding and has no    *)
(* terminator in it, whatever it was appended to or copied from.           *)
TextsComply ==
  \A s \in Strings : Live(s) =>
    /\ memory[buffer[s]] # <<>>
    /\ Intact(s) /\ Validates(encoding[s], Text(s))

(* Strings are equal when their texts are, whatever their encodings, and   *)
(* wherever their characters are.                                          *)
EqualIsSameText ==
  \A s, t \in Strings : Live(s) /\ Live(t) =>
    (StringEqual(s, t) <=> Text(s) = Text(t))

(* EFString.c:819: a "string must be mutable to be compatible with         *)
(* operations like appending".  A string that is not mutable keeps its     *)
(* text for as long as it lives.                                           *)
ImmutableStays ==
  [][\A s \in Strings : Live(s) /\ ~isMutable[s] /\ buffer'[s] # Null =>
       /\ length'[s] <= Len(memory'[buffer'[s]])
       /\ SubSeq(memory'[buffer'[s]], 1, length'[s]) = Text(s)]_vars

(* Each string is a text of its own: no call on another one changes it.    *)
Value == INSTANCE EFText WITH
  Given   <- UNION {{SubSeq(contents[f], 1, n) : n \in 0 .. Len(contents[f])} : f \in Foreign},
  NoText  <- Null,
  text    <- [s \in Strings |-> IF Live(s) THEN Text(s) ELSE Null],
  mutable <- {s \in Strings : isMutable[s]}

ImplementsText == Value!Spec
=============================================================================
