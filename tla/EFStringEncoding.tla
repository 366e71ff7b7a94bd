-------------------------- MODULE EFStringEncoding --------------------------
(***************************************************************************)
(* The encodings of strings, as __EFStringValidateEncoding decides them,   *)
(* and as RFC 3629, which it names as its source, defines them.  A mask    *)
(* and a comparison of the code is a range of bytes here.                  *)
(***************************************************************************)
EXTENDS Naturals, Sequences

Encodings == {"UTF7", "UTF8"}
Byte == 0 .. 255
NUL  == 0

(* The bytes that a first byte announces, 0 when it cannot be a first one. *)
SequenceLength(c) ==
  CASE c \in 0 .. 127   -> 1
    [] c \in 192 .. 223 -> 2
    [] c \in 224 .. 239 -> 3
    [] c \in 240 .. 247 -> 4
    [] OTHER            -> 0

IsContinuation(c) == c \in 128 .. 191

(* The code point of n bytes that begin after index i.                     *)
CodePoint(b, i, n) ==
  CASE n = 1 -> b[i + 1]
    [] n = 2 -> (b[i + 1] - 192) * 64 + (b[i + 2] - 128)
    [] n = 3 -> ((b[i + 1] - 224) * 64 + (b[i + 2] - 128)) * 64 + (b[i + 3] - 128)
    [] OTHER -> (((b[i + 1] - 240) * 64 + (b[i + 2] - 128)) * 64
                   + (b[i + 3] - 128)) * 64 + (b[i + 4] - 128)

min_cp == <<0, 128, 2048, 65536>>

AllowsSurrogates(cp, n) == cp >= min_cp[n] /\ cp <= 1114111

IsScalar(cp, n) ==
  /\ cp >= min_cp[n]
  /\ cp <= 1114111
  /\ ~(cp >= 55296 /\ cp <= 57343)
-----------------------------------------------------------------------------
(* RFC 3629, section 4: the syntax of one character.                       *)
UTF8_1(c) == Len(c) = 1 /\ c[1] \in 0 .. 127
UTF8_2(c) == Len(c) = 2 /\ c[1] \in 194 .. 223 /\ c[2] \in 128 .. 191
UTF8_3(c) ==
  /\ Len(c) = 3 /\ c[3] \in 128 .. 191
  /\ \/ c[1] = 224 /\ c[2] \in 160 .. 191
     \/ c[1] \in 225 .. 236 /\ c[2] \in 128 .. 191
     \/ c[1] = 237 /\ c[2] \in 128 .. 159
     \/ c[1] \in 238 .. 239 /\ c[2] \in 128 .. 191
UTF8_4(c) ==
  /\ Len(c) = 4 /\ c[3] \in 128 .. 191 /\ c[4] \in 128 .. 191
  /\ \/ c[1] = 240 /\ c[2] \in 144 .. 191
     \/ c[1] \in 241 .. 243 /\ c[2] \in 128 .. 191
     \/ c[1] = 244 /\ c[2] \in 128 .. 143

IsCharacter(e, c) ==
  \/ UTF8_1(c)
  \/ e = "UTF8" /\ (UTF8_2(c) \/ UTF8_3(c) \/ UTF8_4(c))

(* The first n bytes are characters that begin after each of these indices *)
(* and end at the next.                                                    *)
IsDivision(starts, e, b, n) ==
  /\ starts \subseteq 0 .. n /\ 0 \in starts /\ n \in starts
  /\ \A s \in starts : s < n =>
       \E t \in starts : s < t /\ IsCharacter(e, SubSeq(b, s + 1, t))

WellFormed(e, b, n) == \E starts \in SUBSET (0 .. n) : IsDivision(starts, e, b, n)
=============================================================================
