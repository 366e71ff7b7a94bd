------------------------ MODULE EFStringSplitProofs ------------------------
(***************************************************************************)
(* Splitting never cuts a character in two, for every string, separator    *)
(* and buffer: a component begins at the beginning of the string or where  *)
(* a separator ends, ends where one begins or the string does, and a text  *)
(* occurs in another at boundaries of its characters only, since the bytes *)
(* that begin a character differ from those that continue one. What lies   *)
(* between two boundaries is a text, so that only memory can fail.         *)
(*                                                                         *)
(* Splitting is right, for every string whose buffer ends where it does:   *)
(* the components so far, joined, are the string up to the last match, and *)
(* the separator does not occur between that and where the loop stands.    *)
(***************************************************************************)
EXTENDS EFStringSplit, SequenceTheorems, FiniteSetTheorems, TLAPS

(* A piece of a sequence has the elements of the sequence.                 *)
LEMMA Bytes ==
  ASSUME NEW b \in Seq(Byte), NEW j \in Nat, NEW t \in Nat, j < t, t <= Len(b)
  PROVE  /\ Len(SubSeq(b, j + 1, t)) = t - j
         /\ \A k \in 1 .. t - j : SubSeq(b, j + 1, t)[k] = b[j + k]
         /\ \A k \in 1 .. t - j : b[j + k] \in Byte
  OBVIOUS

LEMMA FirstBytes ==
  ASSUME NEW x \in Byte
  PROVE  /\ x \in 0 .. 127 => SequenceLength(x) = 1 /\ ~IsContinuation(x)
         /\ x \in 192 .. 223 => SequenceLength(x) = 2 /\ ~IsContinuation(x)
         /\ x \in 224 .. 239 => SequenceLength(x) = 3 /\ ~IsContinuation(x)
         /\ x \in 240 .. 247 => SequenceLength(x) = 4 /\ ~IsContinuation(x)
  BY DEF SequenceLength, IsContinuation, Byte

LEMMA CharacterShape ==
  ASSUME NEW w \in Seq(Byte), UTF8_1(w) \/ UTF8_2(w) \/ UTF8_3(w) \/ UTF8_4(w)
  PROVE  /\ Len(w) = SequenceLength(w[1]) /\ ~IsContinuation(w[1])
         /\ \A k \in 2 .. Len(w) : IsContinuation(w[k])
<1>1. Len(w) > 0 => w[1] \in Byte
  OBVIOUS
<1>2. CASE UTF8_1(w)
  BY <1>1, <1>2, FirstBytes DEF UTF8_1
<1>3. CASE UTF8_2(w)
  <2>1. Len(w) = 2 /\ w[1] \in 192 .. 223 /\ w[2] \in 128 .. 191
    BY <1>3 DEF UTF8_2
  <2> QED  BY <2>1, <1>1, FirstBytes DEF IsContinuation
<1>4. CASE UTF8_3(w)
  <2>1. /\ Len(w) = 3 /\ w[1] \in 224 .. 239
        /\ w[2] \in 128 .. 191 /\ w[3] \in 128 .. 191
    BY <1>4 DEF UTF8_3
  <2> QED  BY <2>1, <1>1, FirstBytes DEF IsContinuation
<1>5. CASE UTF8_4(w)
  <2>1. /\ Len(w) = 4 /\ w[1] \in 240 .. 247
        /\ w[2] \in 128 .. 191 /\ w[3] \in 128 .. 191 /\ w[4] \in 128 .. 191
    BY <1>5 DEF UTF8_4
  <2> QED  BY <2>1, <1>1, FirstBytes DEF IsContinuation
<1> QED  BY <1>2, <1>3, <1>4, <1>5

(* The first byte of a character of either encoding says how long it is,   *)
(* and none but the first can begin a character.                           *)
LEMMA CharacterBytes ==
  ASSUME NEW e, NEW b \in Seq(Byte), NEW j \in Nat, NEW t \in Nat, j < t, t <= Len(b),
         IsCharacter(e, SubSeq(b, j + 1, t))
  PROVE  /\ t - j = SequenceLength(b[j + 1])
         /\ ~IsContinuation(b[j + 1])
         /\ \A k \in j + 1 .. t - 1 : IsContinuation(b[k + 1])
<1> DEFINE w == SubSeq(b, j + 1, t)
           n == t - j
<1>1. /\ Len(w) = n /\ n \in Nat /\ n > 0 /\ w \in Seq(Byte)
      /\ \A k \in 1 .. n : w[k] = b[j + k]
  BY Bytes
<1>2. UTF8_1(w) \/ UTF8_2(w) \/ UTF8_3(w) \/ UTF8_4(w)
  BY DEF IsCharacter
<1> HIDE DEF w, n
<1>3. /\ n = SequenceLength(w[1]) /\ ~IsContinuation(w[1])
      /\ \A k \in 2 .. n : IsContinuation(w[k])
  BY <1>1, <1>2, CharacterShape
<1>4. w[1] = b[j + 1]
  BY <1>1
<1>5. ASSUME NEW k \in j + 1 .. t - 1
      PROVE  IsContinuation(b[k + 1])
  <2>1. k + 1 - j \in 2 .. n /\ k + 1 - j \in 1 .. n /\ j + (k + 1 - j) = k + 1
    BY DEF n
  <2>2. IsContinuation(w[k + 1 - j]) /\ w[k + 1 - j] = b[j + (k + 1 - j)]
    BY <2>1, <1>1, <1>3
  <2> QED  BY <2>1, <2>2
<1> QED  BY <1>3, <1>4, <1>5 DEF n

(* A set of numbers that has one below n has a greatest below n.           *)
LEMMA GreatestBelow ==
  ASSUME NEW D \in SUBSET Nat, NEW n \in Nat, NEW d \in D, d < n
  PROVE  \E s \in D : s < n /\ \A u \in D : u < n => u <= s
<1> DEFINE R == StrictSubsetOrdering(Nat)
           T == {u .. n : u \in {v \in D : v < n}}
<1>1. T \subseteq FiniteSubsetsOf(Nat) /\ T # {}
  <2>1. ASSUME NEW u \in Nat
        PROVE  u .. n \in FiniteSubsetsOf(Nat)
    <3>1. IsFiniteSet(u .. n)
      BY FS_Interval
    <3>2. u .. n \in SUBSET Nat
      OBVIOUS
    <3> QED  BY <3>1, <3>2 DEF FiniteSubsetsOf
  <2>2. d .. n \in T
    OBVIOUS
  <2>3. \A x \in T : \E u \in Nat : x = u .. n
    OBVIOUS
  <2> HIDE DEF T
  <2> QED  BY <2>1, <2>2, <2>3
<1>2. IsWellFoundedOn(R, FiniteSubsetsOf(Nat))
  BY FS_StrictSubsetOrderingWellFounded
<1> HIDE DEF R
<1>3. PICK x \in T : \A y \in T : <<y, x>> \notin R
  <2> HIDE DEF T
  <2> QED  BY <1>1, <1>2, WFMin
<1>4. PICK s \in D : s < n /\ x = s .. n
  BY <1>3
<1>5. ASSUME NEW u \in D, u < n
      PROVE  u <= s
  <2>1. u .. n \in T
    BY <1>5
  <2>2. <<u .. n, s .. n>> \notin R
    BY <2>1, <1>3, <1>4
  <2>3. u .. n \in SUBSET Nat /\ s .. n \in SUBSET Nat
    OBVIOUS
  <2>4. ~(u .. n \subseteq s .. n /\ u .. n # s .. n)
    BY <2>2, <2>3 DEF R, StrictSubsetOrdering
  <2> QED  BY <2>4, <1>4, <1>5
<1> QED  BY <1>4, <1>5

(* Every byte of a text that divides is in a character: after index k - 1  *)
(* there is one that begins before k and ends not before it.               *)
LEMMA Covering ==
  ASSUME NEW e, NEW b \in Seq(Byte), NEW D, IsDivision(D, e, b, Len(b)),
         NEW k \in 1 .. Len(b)
  PROVE  \E s \in D, t \in D : /\ s < k /\ k <= t
                               /\ IsCharacter(e, SubSeq(b, s + 1, t))
<1>1. Len(b) \in Nat /\ D \subseteq 0 .. Len(b) /\ D \in SUBSET Nat /\ 0 \in D /\ 0 < k /\ k \in Nat
  BY DEF IsDivision
<1>2. PICK s \in D : s < k /\ \A u \in D : u < k => u <= s
  BY <1>1, GreatestBelow, Zenon
<1>3. PICK t \in D : s < t /\ IsCharacter(e, SubSeq(b, s + 1, t))
  BY <1>1, <1>2 DEF IsDivision
<1>4. k <= t
  BY <1>1, <1>2, <1>3
<1> QED  BY <1>2, <1>3, <1>4

(* Where a character may begin or the text ends.                           *)
Boundary(b, k) == k \in 0 .. Len(b) /\ (k < Len(b) => ~IsContinuation(b[k + 1]))

(* A text has one division: the one at its boundaries.                     *)
LEMMA DivisionIsBoundaries ==
  ASSUME NEW e, NEW b \in Seq(Byte), NEW D, IsDivision(D, e, b, Len(b)), NEW k
  PROVE  k \in D <=> Boundary(b, k)
<1>1. Len(b) \in Nat /\ D \subseteq 0 .. Len(b) /\ 0 \in D /\ Len(b) \in D
  BY DEF IsDivision
<1>2. ASSUME k \in D
      PROVE  Boundary(b, k)
  <2>1. SUFFICES ASSUME k < Len(b) PROVE ~IsContinuation(b[k + 1])
    BY <1>1, <1>2 DEF Boundary
  <2>2. PICK t \in D : k < t /\ IsCharacter(e, SubSeq(b, k + 1, t))
    BY <1>2, <2>1 DEF IsDivision
  <2>3. k \in Nat /\ t \in Nat /\ t <= Len(b)
    BY <1>1, <1>2
  <2> QED  BY <2>2, <2>3, CharacterBytes
<1>3. ASSUME Boundary(b, k), k \notin D
      PROVE  FALSE
  <2>1. k \in 1 .. Len(b) /\ k < Len(b)
    BY <1>1, <1>3 DEF Boundary
  <2>2. PICK s \in D, t \in D : s < k /\ k <= t /\ IsCharacter(e, SubSeq(b, s + 1, t))
    BY <2>1, Covering
  <2>3. s \in Nat /\ t \in Nat /\ t <= Len(b) /\ s < t /\ k \in s + 1 .. t - 1
    BY <1>1, <1>3, <2>1, <2>2
  <2>4. IsContinuation(b[k + 1])
    BY <2>2, <2>3, CharacterBytes
  <2> QED  BY <2>1, <2>4, <1>3 DEF Boundary
<1> QED  BY <1>2, <1>3

(* What lies between two boundaries of a text is a text.                   *)
LEMMA BetweenBoundaries ==
  ASSUME NEW e, NEW b \in Seq(Byte), WellFormed(e, b, Len(b)),
         NEW j, NEW k, Boundary(b, j), Boundary(b, k), j <= k
  PROVE  LET c == SubSeq(b, j + 1, k) IN WellFormed(e, c, Len(c))
<1> DEFINE c == SubSeq(b, j + 1, k)
           n == k - j
<1>1. PICK D : IsDivision(D, e, b, Len(b))
  BY DEF WellFormed
<1>2. /\ Len(b) \in Nat /\ j \in 0 .. Len(b) /\ k \in 0 .. Len(b)
      /\ n \in Nat /\ Len(c) = n
  BY DEF Boundary
<1>3. j \in D /\ k \in D /\ D \subseteq 0 .. Len(b)
  <2>1. D \subseteq 0 .. Len(b)
    BY <1>1 DEF IsDivision
  <2> QED  BY <2>1, <1>1, DivisionIsBoundaries
<1> DEFINE E == {s \in 0 .. n : j + s \in D}
<1>4. E \in SUBSET (0 .. n) /\ 0 \in E /\ n \in E
  BY <1>2, <1>3
<1>5. ASSUME NEW s \in E, s < n
      PROVE  \E t \in E : s < t /\ IsCharacter(e, SubSeq(c, s + 1, t))
  <2>1. j + s \in D /\ j + s < k /\ s \in Nat
    BY <1>5, <1>2
  <2>2. PICK t \in D : j + s < t /\ IsCharacter(e, SubSeq(b, j + s + 1, t))
    BY <2>1, <1>1, <1>2 DEF IsDivision
  <2>3. t \in 0 .. Len(b)
    BY <1>3
  <2>4. t <= k
    <3>1. SUFFICES ASSUME k < t PROVE FALSE
      BY <2>3, <1>2
    <3>2. k \in j + s + 1 .. t - 1 /\ k < Len(b)
      BY <3>1, <2>1, <2>3, <1>2
    <3>3. j + s \in Nat /\ t \in Nat /\ t <= Len(b)
      BY <2>1, <2>3, <1>2
    <3>4. IsContinuation(b[k + 1])
      BY <3>2, <3>3, <2>2, CharacterBytes
    <3> QED  BY <3>2, <3>4 DEF Boundary
  <2>5. SubSeq(c, s + 1, t - j) = SubSeq(b, j + s + 1, t)
    <3>1. /\ j + 1 \in 1 .. Len(b) + 1 /\ k \in j .. Len(b)
          /\ s + 1 \in 1 .. n + 1 /\ t - j \in s .. n
      BY <2>1, <2>2, <2>3, <2>4, <1>2
    <3> QED  BY <3>1, <2>1, <2>2, <2>3, <2>4, <1>2
  <2>6. t - j \in E /\ s < t - j
    BY <2>1, <2>2, <2>3, <2>4, <1>2
  <2> QED  BY <2>2, <2>5, <2>6
<1>6. IsDivision(E, e, c, n)
  BY <1>4, <1>5 DEF IsDivision
<1> QED  BY <1>2, <1>4, <1>6 DEF WellFormed

(* A text that occurs in another begins and ends at boundaries of it.      *)
THEOREM OccurrenceAtBoundaries ==
  ASSUME NEW e, NEW b \in Seq(Byte), WellFormed(e, b, Len(b)),
         NEW f, NEW c \in Seq(Byte), WellFormed(f, c, Len(c)), Len(c) > 0,
         NEW j \in Nat, j + Len(c) <= Len(b), \A k \in 1 .. Len(c) : b[j + k] = c[k]
  PROVE  Boundary(b, j) /\ Boundary(b, j + Len(c))
<1> DEFINE n == Len(c)
<1>1. n \in Nat /\ n > 0 /\ Len(b) \in Nat /\ j + n <= Len(b)
  OBVIOUS
<1>2. PICK D : IsDivision(D, e, b, Len(b))
  BY DEF WellFormed
<1>3. PICK C : IsDivision(C, f, c, n)
  BY DEF WellFormed
<1>4. \A s \in 0 .. n - 1 : b[j + s + 1] = c[s + 1]
  BY <1>1
<1>5. ASSUME NEW s \in C, s < n
      PROVE  s \in 0 .. n - 1 /\ Boundary(b, j + s)
  <2>1. s \in 0 .. n - 1
    BY <1>1, <1>3, <1>5 DEF IsDivision
  <2>2. Boundary(c, s)
    BY <1>3, DivisionIsBoundaries
  <2>3. ~IsContinuation(c[s + 1])
    BY <2>1, <2>2, <1>1 DEF Boundary
  <2> QED  BY <2>1, <2>3, <1>1, <1>4 DEF Boundary
<1>6. Boundary(b, j)
  <2>1. 0 \in C
    BY <1>3 DEF IsDivision
  <2> QED  BY <2>1, <1>1, <1>5
<1>7. PICK s \in C, t \in C : s < n /\ n <= t /\ IsCharacter(f, SubSeq(c, s + 1, t))
  <2>1. n \in 1 .. Len(c)
    BY <1>1
  <2> QED  BY <2>1, <1>3, Covering
<1>8. s \in 0 .. n - 1 /\ t = n /\ n - s = SequenceLength(c[s + 1])
  <2>1. s \in 0 .. n - 1 /\ t = n
    BY <1>1, <1>3, <1>5, <1>7 DEF IsDivision
  <2> QED  BY <2>1, <1>1, <1>7, CharacterBytes
<1>9. j + s \in D /\ j + s < Len(b)
  BY <1>1, <1>2, <1>5, <1>7, <1>8, DivisionIsBoundaries
<1>10. PICK u \in D : j + s < u /\ IsCharacter(e, SubSeq(b, j + s + 1, u))
  BY <1>2, <1>9 DEF IsDivision
<1>11. u - (j + s) = SequenceLength(b[j + s + 1]) /\ u \in Nat
  <2>1. j + s \in Nat /\ u \in Nat /\ u <= Len(b)
    BY <1>1, <1>2, <1>8 DEF IsDivision
  <2> QED  BY <2>1, <1>10, CharacterBytes
<1>12. u = j + n
  BY <1>1, <1>4, <1>8, <1>11
<1> QED  BY <1>2, <1>6, <1>10, <1>12, DivisionIsBoundaries
-----------------------------------------------------------------------------
(* The loop stands at or behind the end of the last match.  Where that is  *)
(* still in the string, a character begins.                                *)
IInv ==
  /\ TypeOK
  /\ string \in Texts /\ separator \in Separators /\ behind \in Behind
  /\ WellFormed(encoding, string, Len(string))
  /\ lastLengthMatch <= Len(string) => Boundary(string, lastLengthMatch)
  /\ Len(separator) = 0 => i = 0
  /\ pc \in {"split", "last"} => ~Refused
  /\ pc = "call" => components = <<>>
  /\ pc = "last" => i >= Len(string)
  /\ pc # "done" => ret = "none"
  /\ OnlyMemoryFails

(* What the proofs below use of the types.                                 *)
LEMMA TypesOfState ==
  ASSUME IInv
  PROVE  /\ string \in Seq(Byte) /\ Len(string) \in Nat
         /\ separator \in Seq(Byte) /\ Len(separator) \in Nat
         /\ behind \in Seq(Byte)
         /\ WellFormed("UTF8", separator, Len(separator))
         /\ i \in Nat /\ lastLengthMatch \in Nat /\ lastLengthMatch <= i
         /\ capacity \in Nat /\ Len(components) <= capacity
         /\ components \in Seq(Seq(Byte))
<1>1. Seq(Byte \ {NUL}) \subseteq Seq(Byte)
  OBVIOUS
<1> QED  BY <1>1, TextsAssumption, BehindAssumption DEF IInv, TypeOK

(* Before anything has matched, the component begins with the string.      *)
LEMMA BeginningIsBoundary ==
  ASSUME NEW e, NEW b \in Seq(Byte), WellFormed(e, b, Len(b))
  PROVE  Boundary(b, 0)
<1>1. PICK D : IsDivision(D, e, b, Len(b))
  BY DEF WellFormed
<1>2. 0 \in D
  BY <1>1 DEF IsDivision
<1> QED  BY <1>1, <1>2, DivisionIsBoundaries

LEMMA Initially == Init => IInv
<1> SUFFICES ASSUME Init PROVE IInv
  OBVIOUS
<1>1. string \in Seq(Byte) /\ Len(string) \in Nat /\ Len(separator) \in Nat
  <2>1. Seq(Byte \ {NUL}) \subseteq Seq(Byte)
    OBVIOUS
  <2> QED  BY <2>1, TextsAssumption DEF Init
<1>2. Boundary(string, 0)
  BY <1>1, BeginningIsBoundary DEF Init
<1>3. TypeOK
  <2>1. 0 \in 0 .. Len(string) + Len(separator)
    BY <1>1
  <2>2. <<>> \in Seq(Seq(Byte)) /\ Len(<<>>) = 0
    OBVIOUS
  <2>3. i = 0 /\ lastLengthMatch = 0 /\ 0 \in 0 .. 0
    BY DEF Init
  <2>4. components \in Seq(Seq(Byte)) /\ Len(components) <= 0 /\ capacity = 0
    BY <2>2 DEF Init
  <2>5. /\ i \in 0 .. Len(string) + Len(separator) /\ lastLengthMatch \in 0 .. i
        /\ capacity \in Nat /\ Len(components) <= capacity
    BY <2>1, <2>3, <2>4
  <2> QED  BY <2>4, <2>5 DEF Init, TypeOK
<1> QED  BY <1>2, <1>3 DEF Init, IInv, OnlyMemoryFails

(* A match in the string begins at a boundary, and ends at one unless it   *)
(* goes on behind the string.                                              *)
LEMMA MatchAtBoundaries ==
  ASSUME IInv, i < Len(string), Matches(i)
  PROVE  /\ Boundary(string, i)
         /\ i + Len(separator) <= Len(string) => Boundary(string, i + Len(separator))
<1> DEFINE n == Len(separator)
<1>1. /\ string \in Seq(Byte) /\ Len(string) \in Nat /\ i \in Nat
      /\ separator \in Seq(Byte) /\ n \in Nat /\ behind \in Seq(Byte)
      /\ WellFormed(encoding, string, Len(string))
      /\ WellFormed("UTF8", separator, n)
  BY TypesOfState DEF IInv
<1>2. CASE n = 0
  <2>1. i = 0
    BY <1>2 DEF IInv
  <2>2. Boundary(string, 0)
    BY <1>1, BeginningIsBoundary
  <2> QED  BY <2>1, <2>2, <1>2
<1>3. CASE n > 0
  <2>1. \A k \in 1 .. n : i + k <= Len(string) => string[i + k] = separator[k]
    BY <1>1 DEF Matches
  <2>2. Boundary(string, i)
    <3>1. string[i + 1] = separator[1]
      BY <2>1, <1>1, <1>3
    <3>2. Boundary(separator, 0)
      BY <1>1, BeginningIsBoundary
    <3>3. ~IsContinuation(separator[1])
      BY <3>2, <1>1, <1>3 DEF Boundary
    <3> QED  BY <3>1, <3>3, <1>1 DEF Boundary
  <2>3. ASSUME i + n <= Len(string)
        PROVE  Boundary(string, i + n)
    <3>1. \A k \in 1 .. n : string[i + k] = separator[k]
      BY <2>1, <2>3, <1>1
    <3> QED  BY <3>1, <2>3, <1>1, <1>3, OccurrenceAtBoundaries
  <2> QED  BY <2>2, <2>3
<1> QED  BY <1>1, <1>2, <1>3

(* So a component is a text, and it is only for a lack of memory that      *)
(* there is none.                                                          *)
LEMMA ComponentIsText ==
  ASSUME IInv, NEW k, Boundary(string, k), lastLengthMatch <= k
  PROVE  LET c == Piece(lastLengthMatch, k)
         IN  WellFormed(encoding, c, Len(c)) /\ c \in Seq(Byte)
<1>1. /\ string \in Seq(Byte) /\ Len(string) \in Nat /\ lastLengthMatch \in Nat
      /\ WellFormed(encoding, string, Len(string))
  BY TypesOfState DEF IInv
<1>2. k \in Nat /\ k <= Len(string)
  BY <1>1 DEF Boundary
<1>3. Boundary(string, lastLengthMatch)
  BY <1>1, <1>2 DEF IInv
<1>4. SubSeq(string, lastLengthMatch + 1, k) \in Seq(Byte)
  BY <1>1, <1>2
<1> QED  BY <1>1, <1>3, <1>4, BetweenBoundaries DEF Piece

LEMMA CountIsNat ==
  ASSUME IInv
  PROVE  Cardinality({j \in 0 .. Len(string) - 1 : Matches(j)}) \in Nat
<1> DEFINE S == {j \in 0 .. Len(string) - 1 : Matches(j)}
<1>1. IsFiniteSet(0 .. Len(string) - 1)
  BY TypesOfState, FS_Interval
<1>2. S \in SUBSET (0 .. Len(string) - 1)
  OBVIOUS
<1> HIDE DEF S
<1>3. IsFiniteSet(S)
  BY <1>1, <1>2, FS_Subset
<1>4. Cardinality(S) \in Nat
  BY <1>3, FS_CardinalityType
<1> QED  BY <1>4 DEF S

(* Appending a component keeps the array within its capacity.              *)
LEMMA Appended ==
  ASSUME IInv, NEW c \in Seq(Byte), AppendComponent(c)
  PROVE  /\ components' \in Seq(Seq(Byte))
         /\ capacity' \in Nat /\ Len(components') <= capacity'
<1>1. /\ components \in Seq(Seq(Byte)) /\ capacity \in Nat
      /\ Len(components) <= capacity
  BY TypesOfState
<1>2. /\ components' = Append(components, c)
      /\ capacity' = IF Len(components) >= capacity THEN capacity + 5 ELSE capacity
  BY DEF AppendComponent, Full
<1>3. Len(components') = Len(components) + 1 /\ components' \in Seq(Seq(Byte))
  BY <1>1, <1>2
<1>4. Len(components) \in Nat
  BY <1>1
<1> QED  BY <1>1, <1>2, <1>3, <1>4

(* A return for want of memory, or after a refusal.                        *)
LEMMA Returned ==
  ASSUME IInv, NEW r \in {"array", "NULL", "abort"}, NEW hungry \in BOOLEAN,
         Return(r, hungry),
         r = "NULL" => Refused \/ hungry, r = "abort" => hungry
  PROVE  IInv'
<1>1. UNCHANGED <<string, encoding, behind, separator, separatorEncoding,
                  i, lastLengthMatch, capacity, components>>
  BY DEF Return, arguments
<1>2. pc' = "done" /\ ret' = r /\ starved' = (starved \/ hungry)
  BY DEF Return
<1>3. Refused' = Refused
  BY <1>1 DEF Refused
<1>4. starved' \in BOOLEAN
  BY <1>2 DEF IInv, TypeOK
<1>5. TypeOK'
  BY <1>1, <1>2, <1>4 DEF IInv, TypeOK
<1>6. OnlyMemoryFails'
  <2>1. hungry => starved'
    BY <1>2
  <2> QED  BY <2>1, <1>2, <1>3 DEF OnlyMemoryFails
<1> QED  BY <1>1, <1>2, <1>5, <1>6 DEF IInv
-----------------------------------------------------------------------------
LEMMA CallKeeps == IInv /\ Call => IInv'
<1> SUFFICES ASSUME IInv, Call PROVE IInv'
  OBVIOUS
<1>1. CASE Refused /\ Return("NULL", FALSE)
  BY <1>1, Returned
<1>2. CASE ~Refused /\ Return("NULL", TRUE)
  BY <1>2, Returned
<1>3. CASE /\ ~Refused /\ pc' = "split"
           /\ capacity' = Cardinality({j \in 0 .. Len(string) - 1 : Matches(j)})
           /\ UNCHANGED <<arguments, i, lastLengthMatch, components, ret, starved>>
  <2> DEFINE count == Cardinality({j \in 0 .. Len(string) - 1 : Matches(j)})
  <2>1. count \in Nat
    BY CountIsNat
  <2>2. capacity' = count
    BY <1>3
  <2> HIDE DEF count
  <2>3. ret = "none" /\ components = <<>> /\ Len(<<>>) = 0
    BY DEF Call, IInv
  <2>4. TypeOK'
    BY <2>1, <2>2, <2>3, <1>3 DEF IInv, TypeOK, arguments
  <2>5. ~Refused'
    BY <1>3 DEF Refused, arguments
  <2> QED  BY <2>3, <2>4, <2>5, <1>3 DEF IInv, OnlyMemoryFails, arguments
<1> QED  BY <1>1, <1>2, <1>3 DEF Call

LEMMA SkipKeeps == IInv /\ Skip => IInv'
<1> SUFFICES ASSUME IInv, Skip PROVE IInv'
  OBVIOUS
<1>1. /\ i < Len(string) /\ ~Matches(i) /\ i' = i + 1
      /\ UNCHANGED <<string, encoding, behind, separator, separatorEncoding, pc,
                     lastLengthMatch, capacity, components, ret, starved>>
  BY DEF Skip, arguments
<1>2. /\ Len(string) \in Nat /\ Len(separator) \in Nat /\ i \in Nat
      /\ lastLengthMatch \in Nat /\ lastLengthMatch <= i
  BY TypesOfState
<1>3. Len(separator) # 0
  BY <1>1, <1>2 DEF Matches
<1>4. i' \in 0 .. Len(string) + Len(separator) /\ lastLengthMatch \in 0 .. i'
  BY <1>1, <1>2
<1>5. TypeOK'
  BY <1>1, <1>4 DEF IInv, TypeOK
<1>6. pc = "split"
  BY DEF Skip
<1>7. Refused' = Refused
  BY <1>1 DEF Refused
<1>8. Len(separator)' # 0
  BY <1>1, <1>3
<1>9. lastLengthMatch' <= Len(string)' => Boundary(string, lastLengthMatch)'
  BY <1>1 DEF IInv
<1>10. OnlyMemoryFails'
  BY <1>1, <1>7 DEF IInv, OnlyMemoryFails
<1>11. /\ string' \in Texts /\ separator' \in Separators /\ behind' \in Behind
       /\ WellFormed(encoding', string', Len(string'))
       /\ pc' = "split" /\ ret' = "none" /\ ~Refused'
  BY <1>1, <1>6, <1>7 DEF IInv
<1> QED  BY <1>5, <1>8, <1>9, <1>10, <1>11 DEF IInv

LEMMA SplitKeeps == IInv /\ Split => IInv'
<1> SUFFICES ASSUME IInv, Split PROVE IInv'
  OBVIOUS
<1>1. /\ i < Len(string) /\ Matches(i) /\ AppendComponent(Piece(lastLengthMatch, i))
      /\ i' = i + Len(separator) /\ lastLengthMatch' = i + Len(separator)
      /\ UNCHANGED <<string, encoding, behind, separator, separatorEncoding, pc,
                     ret, starved>>
  BY DEF Split, arguments
<1>2. /\ Len(string) \in Nat /\ Len(separator) \in Nat /\ i \in Nat
      /\ lastLengthMatch \in Nat /\ lastLengthMatch <= i
  BY TypesOfState
<1>3. /\ Boundary(string, i)
      /\ i + Len(separator) <= Len(string) => Boundary(string, i + Len(separator))
  BY <1>1, MatchAtBoundaries
<1>4. /\ components' \in Seq(Seq(Byte))
      /\ capacity' \in Nat /\ Len(components') <= capacity'
  BY <1>1, <1>2, <1>3, ComponentIsText, Appended
<1>5. i' \in 0 .. Len(string) + Len(separator) /\ lastLengthMatch' \in 0 .. i'
  BY <1>1, <1>2
<1>6. TypeOK'
  BY <1>1, <1>4, <1>5 DEF IInv, TypeOK
<1>7. pc = "split"
  BY DEF Split
<1>8. Refused' = Refused
  BY <1>1 DEF Refused
<1>9. lastLengthMatch' <= Len(string)' => Boundary(string, lastLengthMatch)'
  BY <1>1, <1>3 DEF Boundary
<1>10. Len(separator)' = 0 => i' = 0
  BY <1>1, <1>2 DEF IInv
<1> QED  BY <1>1, <1>6, <1>7, <1>8, <1>9, <1>10 DEF IInv, OnlyMemoryFails

LEMMA SplitFailsKeeps == IInv /\ SplitFails => IInv'
<1> SUFFICES ASSUME IInv, SplitFails PROVE IInv'
  OBVIOUS
<1>1. i < Len(string) /\ Matches(i)
  BY DEF SplitFails
<1>2. lastLengthMatch <= i /\ Boundary(string, i)
  BY <1>1, TypesOfState, MatchAtBoundaries
<1>3. LET c == Piece(lastLengthMatch, i) IN WellFormed(encoding, c, Len(c))
  BY <1>2, ComponentIsText
<1>4. Return("NULL", TRUE)
  <2>1. ASSUME NEW hungry \in BOOLEAN, NoComponent(Piece(lastLengthMatch, i), hungry)
        PROVE  hungry = TRUE
    BY <2>1, <1>3 DEF NoComponent
  <2> QED  BY <2>1 DEF SplitFails
<1> QED  BY <1>4, Returned

LEMMA LoopEndsKeeps == IInv /\ LoopEnds => IInv'
<1> SUFFICES ASSUME IInv, LoopEnds PROVE IInv'
  OBVIOUS
<1>1. /\ pc = "split" /\ i >= Len(string) /\ pc' = "last"
      /\ UNCHANGED <<string, encoding, behind, separator, separatorEncoding, i,
                     lastLengthMatch, capacity, components, ret, starved>>
  BY DEF LoopEnds, arguments
<1>2. TypeOK'
  BY <1>1 DEF IInv, TypeOK
<1>3. Refused' = Refused
  BY <1>1 DEF Refused
<1> QED  BY <1>1, <1>2, <1>3 DEF IInv, OnlyMemoryFails

LEMMA LastComponentKeeps == IInv /\ LastComponent => IInv'
<1> SUFFICES ASSUME IInv, LastComponent PROVE IInv'
  OBVIOUS
<1>1. CASE Len(string) - lastLengthMatch <= 0 /\ Return("array", FALSE)
  BY <1>1, Returned
<1>2. CASE Len(string) - lastLengthMatch > 0
  <2>1. Len(string) \in Nat /\ lastLengthMatch \in Nat /\ lastLengthMatch <= Len(string)
    BY <1>2, TypesOfState
  <2>2. Boundary(string, Len(string))
    BY <2>1 DEF Boundary
  <2>3. WellFormed(encoding, Rest, Len(Rest)) /\ Rest \in Seq(Byte)
    BY <2>1, <2>2, ComponentIsText DEF Rest
  <2>4. CASE \E hungry \in BOOLEAN : NoComponent(Rest, hungry) /\ Return("abort", hungry)
    <3>1. Return("abort", TRUE)
      BY <2>3, <2>4 DEF NoComponent
    <3> QED  BY <3>1, Returned
  <2>5. CASE Full /\ Return("NULL", TRUE)
    BY <2>5, Returned
  <2>6. CASE /\ AppendComponent(Rest) /\ pc' = "done" /\ ret' = "array"
             /\ UNCHANGED <<arguments, i, lastLengthMatch, starved>>
    <3>1. UNCHANGED <<string, encoding, behind, separator, separatorEncoding, i,
                      lastLengthMatch, starved>>
      BY <2>6 DEF arguments
    <3>2. /\ components' \in Seq(Seq(Byte))
          /\ capacity' \in Nat /\ Len(components') <= capacity'
      BY <2>3, <2>6, Appended
    <3>3. TypeOK'
      BY <2>6, <3>1, <3>2 DEF IInv, TypeOK
    <3>4. Refused' = Refused
      BY <3>1 DEF Refused
    <3> QED  BY <2>6, <3>1, <3>3, <3>4 DEF IInv, OnlyMemoryFails
  <2>7. ~(Len(string) - lastLengthMatch <= 0)
    BY <1>2, <2>1
  <2> QED  BY <2>4, <2>5, <2>6, <2>7, Zenon DEF LastComponent
<1>3. Len(string) \in Nat /\ lastLengthMatch \in Nat
  BY TypesOfState
<1> QED  BY <1>1, <1>2, <1>3 DEF LastComponent

LEMMA Stays == IInv /\ [Next]_vars => IInv'
<1> SUFFICES ASSUME IInv, [Next]_vars PROVE IInv'
  OBVIOUS
<1>1. CASE UNCHANGED vars
  <2>1. UNCHANGED <<string, encoding, behind, separator, separatorEncoding, pc, i,
                    lastLengthMatch, capacity, components, ret, starved>>
    BY <1>1 DEF vars, arguments
  <2> QED  BY <2>1 DEF IInv, TypeOK, OnlyMemoryFails, Refused
<1>2. CASE Next
  BY <1>2, CallKeeps, SkipKeeps, SplitKeeps, SplitFailsKeeps, LoopEndsKeeps,
     LastComponentKeeps, Zenon DEF Next
<1> QED  BY <1>1, <1>2

LEMMA Inductive == Spec => []IInv
<1> QED  BY Initially, Stays, PTL DEF Spec

(* No component has a negative length, and the array has room for every    *)
(* component, whatever is split at what.                                   *)
THEOREM TypeCorrect == Spec => []TypeOK
<1>1. IInv => TypeOK
  BY DEF IInv
<1> QED  BY <1>1, Inductive, PTL

(* EFStringComponentsSplitBySeparator refuses what it checks for and fails *)
(* when memory is short; no component is refused for its bytes, for        *)
(* strings, separators and buffers of any length.                          *)
THEOREM OnlyMemoryMakesSplittingFail == Spec => []OnlyMemoryFails
<1>1. IInv => OnlyMemoryFails
  BY DEF IInv
<1> QED  BY <1>1, Inductive, PTL
-----------------------------------------------------------------------------
LEMMA LeastOf ==
  ASSUME NEW S \in SUBSET Nat, S # {}
  PROVE  \E n \in S : \A m \in S : n <= m
<1>1. PICK R : R = OpToRel(<, Nat)
  OBVIOUS
<1>2. IsWellFoundedOn(R, Nat)
  BY <1>1, NatLessThanWellFounded
<1>3. PICK n \in S : \A m \in S : <<m, n>> \notin R
  BY <1>2, WFMin
<1>4. \A m, k \in Nat : <<m, k>> \in R <=> m < k
  BY <1>1 DEF OpToRel
<1>5. \A m \in S : m \in Nat /\ n \in Nat /\ ~(m < n)
  BY <1>3, <1>4
<1> QED  BY <1>5

(* Joining the components.  FlattenSeq is a recursive function: there is   *)
(* one, by the least length that has none, and functions of two sequences  *)
(* agree where the sequences do, by the least index where they do not.     *)
Flattens(f, ss, n) ==
  f = [k \in 1 .. n |-> IF k = 1 THEN ss[k] ELSE f[k - 1] \o ss[k]]

LEMMA FlattensOnce ==
  ASSUME NEW ss, NEW f, NEW n \in Nat, Flattens(f, ss, n)
  PROVE  \E g : Flattens(g, ss, n + 1)
<1> DEFINE g == [k \in 1 .. n + 1 |-> IF k = 1 THEN ss[k] ELSE f[k - 1] \o ss[k]]
<1>1. \A k \in 1 .. n + 1 : k # 1 => k - 1 \in 1 .. n /\ k - 1 \in 1 .. n + 1
  OBVIOUS
<1>2. \A k \in 1 .. n : g[k] = f[k]
  <2> TAKE k \in 1 .. n
  <2>1. f = [j \in 1 .. n |-> IF j = 1 THEN ss[j] ELSE f[j - 1] \o ss[j]]
    BY DEF Flattens
  <2>2. f[k] = [j \in 1 .. n |-> IF j = 1 THEN ss[j] ELSE f[j - 1] \o ss[j]][k]
    BY <2>1
  <2> QED  BY <2>2
<1>3. g = [k \in 1 .. n + 1 |-> IF k = 1 THEN ss[k] ELSE g[k - 1] \o ss[k]]
  <2>1. \A k \in 1 .. n + 1 : (IF k = 1 THEN ss[k] ELSE f[k - 1] \o ss[k])
                                = (IF k = 1 THEN ss[k] ELSE g[k - 1] \o ss[k])
    BY <1>1, <1>2
  <2>2. PICK h : h = g
    OBVIOUS
  <2> HIDE DEF g
  <2>3. h = [k \in 1 .. n + 1 |-> IF k = 1 THEN ss[k] ELSE h[k - 1] \o ss[k]]
    BY <2>1, <2>2 DEF g
  <2> QED  BY <2>2, <2>3
<1> QED  BY <1>3 DEF Flattens

LEMMA FlattensExists ==
  ASSUME NEW ss, NEW n \in Nat
  PROVE  \E f : Flattens(f, ss, n)
<1> DEFINE S == {m \in Nat : ~\E f : Flattens(f, ss, m)}
<1> SUFFICES S = {}
  OBVIOUS
<1> SUFFICES ASSUME S # {} PROVE FALSE
  OBVIOUS
<1>1. S \in SUBSET Nat
  OBVIOUS
<1>2. PICK m \in S : \A k \in S : m <= k
  BY <1>1, LeastOf
<1>3. m \in Nat /\ ~\E f : Flattens(f, ss, m)
  OBVIOUS
<1>4. Flattens([k \in 1 .. 0 |-> 0], ss, 0)
  BY DEF Flattens
<1>5. m # 0 /\ m - 1 \in Nat /\ m - 1 + 1 = m /\ ~(m <= m - 1)
  BY <1>3, <1>4
<1>6. PICK f : Flattens(f, ss, m - 1)
  BY <1>2, <1>5
<1> HIDE DEF S
<1>7. \E g : Flattens(g, ss, m - 1 + 1)
  BY <1>5, <1>6, FlattensOnce
<1> QED  BY <1>3, <1>5, <1>7

LEMMA FlattensAgree ==
  \A ss, tt, f, g : \A n, m \in Nat :
    n <= m /\ (\A k \in 1 .. n : ss[k] = tt[k]) /\ Flattens(f, ss, n) /\ Flattens(g, tt, m)
      => \A k \in 1 .. n : f[k] = g[k]
<1> SUFFICES ASSUME NEW ss, NEW tt, NEW f, NEW g, NEW n \in Nat, NEW m \in Nat, n <= m,
                    \A k \in 1 .. n : ss[k] = tt[k], Flattens(f, ss, n), Flattens(g, tt, m)
             PROVE  \A k \in 1 .. n : f[k] = g[k]
  OBVIOUS
<1> DEFINE S == {k \in 1 .. n : f[k] # g[k]}
<1> SUFFICES ASSUME S # {} PROVE FALSE
  OBVIOUS
<1>1. S \in SUBSET Nat
  OBVIOUS
<1>2. PICK k \in S : \A j \in S : k <= j
  BY <1>1, LeastOf
<1>3. k \in 1 .. n /\ k \in 1 .. m /\ f[k] # g[k]
  OBVIOUS
<1>4. /\ f[k] = IF k = 1 THEN ss[k] ELSE f[k - 1] \o ss[k]
      /\ g[k] = IF k = 1 THEN tt[k] ELSE g[k - 1] \o tt[k]
  <2>1. f = [j \in 1 .. n |-> IF j = 1 THEN ss[j] ELSE f[j - 1] \o ss[j]]
    BY DEF Flattens
  <2>2. g = [j \in 1 .. m |-> IF j = 1 THEN tt[j] ELSE g[j - 1] \o tt[j]]
    BY DEF Flattens
  <2>3. f[k] = [j \in 1 .. n |-> IF j = 1 THEN ss[j] ELSE f[j - 1] \o ss[j]][k]
    BY <2>1
  <2>4. g[k] = [j \in 1 .. m |-> IF j = 1 THEN tt[j] ELSE g[j - 1] \o tt[j]][k]
    BY <2>2
  <2> QED  BY <2>3, <2>4, <1>3
<1>5. k # 1
  BY <1>3, <1>4
<1>6. k - 1 \in 1 .. n /\ ~(k <= k - 1)
  BY <1>3, <1>5
<1>7. f[k - 1] = g[k - 1]
  BY <1>2, <1>6
<1> QED  BY <1>3, <1>4, <1>5, <1>7

Agree(ss, tt, n) == \A k \in 1 .. n : ss[k] = tt[k]

LEMMA FlattensMore ==
  \A ss, tt, f, g : \A n, m \in Nat :
    m = n + 1 /\ Agree(ss, tt, n) /\ Flattens(f, ss, n) /\ Flattens(g, tt, m)
      => g[m] = IF n = 0 THEN tt[m] ELSE f[n] \o tt[m]
<1> SUFFICES ASSUME NEW ss, NEW tt, NEW f, NEW g, NEW n \in Nat, NEW m \in Nat, m = n + 1,
                    Agree(ss, tt, n), Flattens(f, ss, n), Flattens(g, tt, m)
             PROVE  g[m] = IF n = 0 THEN tt[m] ELSE f[n] \o tt[m]
  OBVIOUS
<1>1. n <= m
  OBVIOUS
<1>2. \A k \in 1 .. n : f[k] = g[k]
  BY <1>1, FlattensAgree DEF Agree
<1>3. g = [k \in 1 .. m |-> IF k = 1 THEN tt[k] ELSE g[k - 1] \o tt[k]]
  BY DEF Flattens
<1>4. g[m] = [k \in 1 .. m |-> IF k = 1 THEN tt[k] ELSE g[k - 1] \o tt[k]][m]
  BY <1>3
<1>5. g[m] = IF n = 0 THEN tt[m] ELSE g[n] \o tt[m]
  BY <1>4
<1>6. n # 0 => n \in 1 .. n
  OBVIOUS
<1> QED  BY <1>2, <1>5, <1>6

(* A sequence of one more piece is longer by that piece.                   *)
LEMMA FlattenOneMore ==
  ASSUME NEW A, NEW ss \in Seq(Seq(A)), NEW tt \in Seq(Seq(A)), Len(tt) = Len(ss) + 1,
         \A k \in 1 .. Len(ss) : ss[k] = tt[k]
  PROVE  FlattenSeq(tt) = FlattenSeq(ss) \o tt[Len(tt)]
<1>1. PICK n, m : n = Len(ss) /\ m = Len(tt)
  OBVIOUS
<1>2. n \in Nat /\ m \in Nat /\ m = n + 1 /\ ~(m = 0)
  BY <1>1
<1>3. PICK g : g = CHOOSE f : Flattens(f, tt, m)
  OBVIOUS
<1>4. PICK f : f = CHOOSE h : Flattens(h, ss, n)
  OBVIOUS
<1>5. Flattens(g, tt, m) /\ Flattens(f, ss, n)
  BY <1>2, <1>3, <1>4, FlattensExists
<1>6. Agree(ss, tt, n)
  BY <1>1 DEF Agree
<1>7. FlattenSeq(tt) = g[m]
  BY <1>1, <1>2, <1>3 DEF FlattenSeq, Flattens
<1>8. CASE n = 0
  <2>1. ss = <<>>
    BY <1>1, <1>8, EmptySeq
  <2>2. FlattenSeq(ss) = ss
    BY <1>1, <1>8 DEF FlattenSeq
  <2>3. tt[m] \in Seq(A)
    BY <1>1, <1>2
  <2>4. <<>> \o tt[m] = tt[m]
    BY <2>3
  <2>5. g[m] = tt[m]
    BY <1>2, <1>5, <1>6, <1>8, FlattensMore
  <2> QED  BY <2>1, <2>2, <2>4, <2>5, <1>1, <1>7
<1>9. CASE n # 0
  <2>1. FlattenSeq(ss) = f[n]
    BY <1>1, <1>4, <1>9 DEF FlattenSeq, Flattens
  <2>2. g[m] = IF n = 0 THEN tt[m] ELSE f[n] \o tt[m]
    BY ONLY <1>2, <1>5, <1>6, FlattensMore
  <2> QED  BY <2>1, <2>2, <1>1, <1>7, <1>9
<1> QED  BY <1>8, <1>9

-----------------------------------------------------------------------------
Ended(cs) == [k \in 1 .. Len(cs) |-> cs[k] \o separator]

(* When the buffer ends where the string does: the components so far,      *)
(* each with a separator behind it, are the string up to the last match;   *)
(* none of them ends later than it could, and none could end between the   *)
(* last match and where the loop stands.                                   *)
EndInTime(cs) ==
  \A k \in 1 .. Len(cs) : \A j \in 0 .. Len(cs[k]) - 1 : ~OccursAt(cs[k] \o separator, j)

SoFar ==
  /\ pc = "call" => i = 0 /\ lastLengthMatch = 0
  /\ behind[1] = NUL /\ pc \in {"split", "last"} =>
       /\ i <= Len(string)
       /\ FlattenSeq(Ended(components)) = SubSeq(string, 1, lastLengthMatch)
       /\ EndInTime(components)
       /\ \A j \in lastLengthMatch .. i - 1 : ~OccursAt(string, j)

LEMMA Pieces ==
  ASSUME NEW b \in Seq(Byte), NEW l \in Nat, NEW m \in Nat, NEW n \in Nat,
         l <= m, m <= n, n <= Len(b)
  PROVE  SubSeq(b, l + 1, m) \o SubSeq(b, m + 1, n) = SubSeq(b, l + 1, n)
<1>1. l + 1 \in 1 .. Len(b) + 1 /\ m \in l + 1 - 1 .. Len(b) /\ n \in m .. Len(b)
  OBVIOUS
<1> QED  BY <1>1, ConcatAdjacentSubSeq

LEMMA FirstPieces ==
  ASSUME NEW b \in Seq(Byte), NEW m \in Nat, NEW n \in Nat, m <= n, n <= Len(b)
  PROVE  SubSeq(b, 1, m) \o SubSeq(b, m + 1, n) = SubSeq(b, 1, n)
<1>1. 1 \in 1 .. Len(b) + 1 /\ m \in 1 - 1 .. Len(b) /\ n \in m .. Len(b)
  OBVIOUS
<1> QED  BY <1>1, ConcatAdjacentSubSeq

(* strncmp and the separator, of which no byte is a NUL, meet at the NUL   *)
(* behind the string: a match is an occurrence.                            *)
LEMMA MatchIsOccurrence ==
  ASSUME IInv, behind[1] = NUL, NEW j \in Nat, j < Len(string)
  PROVE  Matches(j) <=> OccursAt(string, j)
<1> DEFINE n == Len(separator)
           L == Len(string)
           buffer == string \o behind
<1>1. /\ string \in Seq(Byte) /\ L \in Nat /\ separator \in Seq(Byte) /\ n \in Nat
      /\ behind \in Seq(Byte)
  BY TypesOfState
<1>2. \A k \in 1 .. n : separator[k] # NUL
  <2>1. separator \in Seq(Byte \ {NUL})
    BY TextsAssumption DEF IInv
  <2> QED  BY <2>1
<1>3. behind # <<>>
  BY BehindAssumption DEF IInv
<1>4. Len(behind) \in Nat /\ Len(behind) >= 1
  BY <1>1, <1>3, EmptySeq
<1>5. /\ Len(buffer) = L + Len(behind)
      /\ \A k \in 1 .. L : buffer[k] = string[k]
      /\ buffer[L + 1] = behind[1]
  BY <1>1, <1>4
<1> HIDE DEF buffer
<1>6. Matches(j) <=> \A k \in 1 .. n : j + k <= Len(buffer) /\ buffer[j + k] = separator[k]
  BY DEF Matches, buffer
<1>7. ASSUME Matches(j), j + n > L PROVE FALSE
  <2>1. L + 1 - j \in 1 .. n /\ j + (L + 1 - j) = L + 1
    BY <1>1, <1>7
  <2>2. buffer[L + 1] = separator[L + 1 - j]
    BY <2>1, <1>6, <1>7
  <2> QED  BY <2>1, <2>2, <1>2, <1>5
<1>8. CASE j + n <= L
  <2> DEFINE w == SubSeq(string, j + 1, j + n)
  <2>1. w \in Seq(Byte) /\ Len(w) = n /\ \A k \in 1 .. n : w[k] = string[j + k]
    BY <1>1, <1>8
  <2>2. \A k \in 1 .. n : /\ j + k \in 1 .. L /\ j + k <= Len(buffer)
                          /\ buffer[j + k] = string[j + k]
    BY <1>1, <1>4, <1>5, <1>8
  <2> HIDE DEF w
  <2>3. Matches(j) <=> \A k \in 1 .. n : w[k] = separator[k]
    BY <2>1, <2>2, <1>6
  <2>4. (\A k \in 1 .. n : w[k] = separator[k]) <=> w = separator
    BY <2>1, <1>1, SeqEqual
  <2>5. OccursAt(string, j) <=> w = separator
    BY <1>8 DEF OccursAt, w
  <2> QED  BY <2>3, <2>4, <2>5
<1>9. CASE ~(j + n <= L)
  <2>1. ~OccursAt(string, j)
    BY <1>9 DEF OccursAt
  <2> QED  BY <2>1, <1>1, <1>7, <1>9
<1> QED  BY <1>8, <1>9

(* An occurrence in a piece of a text is one in the text.                  *)
LEMMA OccurrenceInPiece ==
  ASSUME separator \in Seq(Byte), NEW b \in Seq(Byte), NEW l \in Nat, NEW m \in Nat,
         l <= m, m <= Len(b), NEW j \in Nat, OccursAt(SubSeq(b, l + 1, m), j)
  PROVE  OccursAt(b, l + j) /\ l + j + Len(separator) <= m
<1> DEFINE n == Len(separator)
           p == SubSeq(b, l + 1, m)
           w == SubSeq(p, j + 1, j + n)
           v == SubSeq(b, l + j + 1, l + j + n)
<1>1. /\ p \in Seq(Byte) /\ Len(p) = m - l /\ \A k \in 1 .. m - l : p[k] = b[l + k]
  OBVIOUS
<1> HIDE DEF p
<1>2. n \in Nat /\ j + n <= m - l /\ w = separator
  BY <1>1 DEF OccursAt, p
<1>3. w \in Seq(Byte) /\ Len(w) = n /\ \A k \in 1 .. n : w[k] = p[j + k]
  BY <1>1, <1>2
<1>4. v \in Seq(Byte) /\ Len(v) = n /\ \A k \in 1 .. n : v[k] = b[l + j + k]
  <2>1. l + j \in Nat /\ l + j + n <= Len(b) /\ l + j + n \in Nat
    BY <1>2
  <2>2. PICK x : x = l + j
    OBVIOUS
  <2>3. /\ SubSeq(b, x + 1, x + n) \in Seq(Byte) /\ Len(SubSeq(b, x + 1, x + n)) = n
        /\ \A k \in 1 .. n : SubSeq(b, x + 1, x + n)[k] = b[x + k]
    BY <2>1, <2>2, <1>2
  <2> QED  BY <2>2, <2>3
<1> HIDE DEF v, w
<1>5. \A k \in 1 .. n : v[k] = w[k]
  <2> TAKE k \in 1 .. n
  <2>1. j + k \in 1 .. m - l /\ l + (j + k) = l + j + k
    BY <1>2
  <2> QED  BY <2>1, <1>1, <1>3, <1>4
<1>6. v = w
  BY <1>3, <1>4, <1>5, SeqEqual
<1>7. l + j + n <= Len(b) /\ l + j + n <= m
  BY <1>2
<1> QED  BY <1>2, <1>6, <1>7 DEF OccursAt, v

(* A component that ends at the first occurrence, with the separator       *)
(* behind it.                                                              *)
LEMMA PieceEnds ==
  ASSUME separator \in Seq(Byte), NEW b \in Seq(Byte), NEW l \in Nat, NEW m \in Nat,
         l <= m, m <= Len(b), OccursAt(b, m), \A j \in l .. m - 1 : ~OccursAt(b, j)
  PROVE  LET c == SubSeq(b, l + 1, m)
         IN  /\ c \o separator = SubSeq(b, l + 1, m + Len(separator))
             /\ \A j \in 0 .. Len(c) - 1 : ~OccursAt(c \o separator, j)
<1> DEFINE n == Len(separator)
           c == SubSeq(b, l + 1, m)
           w == SubSeq(b, m + 1, m + n)
           p == SubSeq(b, l + 1, m + n)
<1>1. n \in Nat /\ m + n <= Len(b) /\ w = separator
  BY DEF OccursAt
<1>2. m + n \in Nat /\ m <= m + n
  BY <1>1
<1>3. c \o w = p
  BY <1>1, <1>2, Pieces
<1>4. Len(c) = m - l
  OBVIOUS
<1> HIDE DEF c, w, p
<1>5. c \o separator = p
  BY <1>1, <1>3
<1>6. ASSUME NEW j \in 0 .. Len(c) - 1, OccursAt(p, j) PROVE FALSE
  <2>1. j \in Nat /\ m + n \in Nat /\ l <= m + n /\ l + j \in l .. m - 1
    BY <1>1, <1>4
  <2>2. OccursAt(b, l + j)
    BY <2>1, <1>1, <1>6, OccurrenceInPiece DEF p
  <2> QED  BY <2>1, <2>2
<1> QED  BY <1>5, <1>6 DEF c, p

LEMMA Appending ==
  ASSUME NEW cs \in Seq(Seq(Byte)), NEW c \in Seq(Byte)
  PROVE  \A k \in 1 .. Len(Append(cs, c)) :
           \/ k \in 1 .. Len(cs) /\ Append(cs, c)[k] = cs[k]
           \/ Append(cs, c)[k] = c
<1>1. PICK n, ds : n = Len(cs) /\ ds = Append(cs, c)
  OBVIOUS
<1>2. n \in Nat /\ Len(ds) = n + 1 /\ ds[n + 1] = c /\ \A k \in 1 .. n : ds[k] = cs[k]
  BY <1>1
<1>3. \A k \in 1 .. Len(ds) : k \in 1 .. n \/ k = n + 1
  BY <1>2
<1>4. \A k \in 1 .. Len(ds) : (k \in 1 .. n /\ ds[k] = cs[k]) \/ ds[k] = c
  BY ONLY <1>2, <1>3
<1> QED  BY <1>1, <1>4

(* One component more, with its separator.                                 *)
LEMMA EndedOneMore ==
  ASSUME separator \in Seq(Byte), NEW cs \in Seq(Seq(Byte)), NEW c \in Seq(Byte)
  PROVE  /\ FlattenSeq(Ended(Append(cs, c))) = FlattenSeq(Ended(cs)) \o (c \o separator)
         /\ Ended(cs) = [k \in 1 .. Len(Append(cs, c)) - 1 |-> Append(cs, c)[k] \o separator]
<1> DEFINE n == Len(cs)
           ds == Append(cs, c)
           ss == Ended(cs)
           tt == Ended(ds)
<1>1. /\ ds \in Seq(Seq(Byte)) /\ n \in Nat /\ Len(ds) = n + 1 /\ ds[n + 1] = c
      /\ \A k \in 1 .. n : ds[k] = cs[k]
  OBVIOUS
<1> HIDE DEF ds
<1>2. ASSUME NEW x \in Seq(Seq(Byte))
      PROVE  /\ Ended(x) \in Seq(Seq(Byte)) /\ Len(Ended(x)) = Len(x)
             /\ \A k \in 1 .. Len(x) : Ended(x)[k] = x[k] \o separator
  <2>1. \A k \in 1 .. Len(x) : x[k] \o separator \in Seq(Byte)
    BY <1>2
  <2>2. Len(x) \in Nat
    BY <1>2
  <2> QED  BY <2>1, <2>2 DEF Ended
<1>3. /\ ss \in Seq(Seq(Byte)) /\ Len(ss) = n
      /\ \A k \in 1 .. n : ss[k] = cs[k] \o separator
  BY <1>2
<1>4. /\ tt \in Seq(Seq(Byte)) /\ Len(tt) = n + 1
      /\ \A k \in 1 .. n + 1 : tt[k] = ds[k] \o separator
  BY <1>1, <1>2
<1> HIDE DEF ss, tt
<1>5. \A k \in 1 .. Len(ss) : ss[k] = tt[k]
  <2> TAKE k \in 1 .. Len(ss)
  <2>1. k \in 1 .. n /\ k \in 1 .. n + 1
    BY <1>1, <1>3
  <2>2. ss[k] = cs[k] \o separator /\ tt[k] = ds[k] \o separator /\ ds[k] = cs[k]
    BY <2>1, <1>1, <1>3, <1>4
  <2> QED  BY <2>2
<1>6. FlattenSeq(tt) = FlattenSeq(ss) \o tt[Len(tt)]
  BY <1>3, <1>4, <1>5, FlattenOneMore
<1>7. tt[Len(tt)] = c \o separator
  <2>1. n + 1 \in 1 .. n + 1
    BY <1>1
  <2>2. tt[n + 1] = ds[n + 1] \o separator
    BY <2>1, <1>4
  <2> QED  BY <2>2, <1>1, <1>4
<1>8. Ended(cs) = [k \in 1 .. Len(ds) - 1 |-> ds[k] \o separator]
  <2>1. Len(ds) - 1 = n
    BY <1>1
  <2> QED  BY <2>1, <1>1 DEF Ended
<1> QED  BY <1>6, <1>7, <1>8 DEF ss, tt, ds

LEMMA SoFarInitially == Init => SoFar /\ SplitIsRight
  BY DEF Init, SoFar, SplitIsRight

LEMMA SoFarReturned ==
  ASSUME SoFar, NEW r \in {"NULL", "abort"}, NEW hungry, Return(r, hungry)
  PROVE  SoFar' /\ SplitIsRight'
  BY DEF SoFar, SplitIsRight, Return, arguments

LEMMA SoFarCall == IInv /\ SoFar /\ Call => SoFar' /\ SplitIsRight'
<1> SUFFICES ASSUME IInv, SoFar, Call PROVE SoFar' /\ SplitIsRight'
  OBVIOUS
<1>1. CASE Return("NULL", FALSE) \/ Return("NULL", TRUE)
  BY <1>1, SoFarReturned
<1>2. CASE /\ pc' = "split"
           /\ UNCHANGED <<arguments, i, lastLengthMatch, components, ret, starved>>
  <2>1. /\ string \in Seq(Byte) /\ Len(string) \in Nat
    BY TypesOfState
  <2>2. i = 0 /\ lastLengthMatch = 0 /\ components = <<>> /\ ret = "none"
    BY DEF Call, IInv, SoFar
  <2>3. /\ i' = 0 /\ lastLengthMatch' = 0 /\ components' = <<>> /\ ret' = "none"
        /\ string' = string
    BY <1>2, <2>2 DEF arguments
  <2>4. Ended(<<>>)' = <<>>
    BY DEF Ended
  <2>5. FlattenSeq(<<>>) = <<>>
    BY DEF FlattenSeq
  <2>6. SubSeq(string, 1, 0) = <<>>
    BY <2>1
  <2>7. FlattenSeq(Ended(components))' = SubSeq(string, 1, lastLengthMatch)'
    BY <2>3, <2>4, <2>5, <2>6 DEF Ended
  <2>8. EndInTime(components)'
    BY <2>3 DEF EndInTime
  <2>9. (\A j \in lastLengthMatch .. i - 1 : ~OccursAt(string, j))'
    BY <2>3
  <2> QED  BY <1>2, <2>1, <2>3, <2>7, <2>8, <2>9 DEF SoFar, SplitIsRight
<1> QED  BY <1>1, <1>2 DEF Call

LEMMA SoFarSkip == IInv /\ SoFar /\ Skip => SoFar' /\ SplitIsRight'
<1> SUFFICES ASSUME IInv, SoFar, Skip PROVE SoFar' /\ SplitIsRight'
  OBVIOUS
<1>1. /\ pc = "split" /\ i < Len(string) /\ ~Matches(i) /\ i' = i + 1
      /\ UNCHANGED <<string, behind, separator, pc, lastLengthMatch, components, ret>>
  BY DEF Skip, arguments
<1>2. i \in Nat /\ lastLengthMatch \in Nat /\ Len(string) \in Nat /\ ret = "none"
  BY <1>1, TypesOfState DEF IInv
<1>3. CASE behind[1] = NUL
  <2>1. ~OccursAt(string, i)
    BY <1>1, <1>2, <1>3, MatchIsOccurrence
  <2>2. \A j \in lastLengthMatch .. i : ~OccursAt(string, j)
    <3> TAKE j \in lastLengthMatch .. i
    <3>1. j = i \/ j \in lastLengthMatch .. i - 1
      BY <1>2
    <3> QED  BY <3>1, <2>1, <1>1, <1>3 DEF SoFar
  <2>3. (\A j \in lastLengthMatch .. i - 1 : ~OccursAt(string, j))'
    BY <2>2, <1>1, <1>2 DEF OccursAt
  <2>4. i' <= Len(string)'
    BY <1>1, <1>2
  <2>5. EndInTime(components)'
    BY <1>1, <1>3 DEF SoFar, EndInTime, OccursAt
  <2>6. FlattenSeq(Ended(components))' = SubSeq(string, 1, lastLengthMatch)'
    BY <1>1, <1>3 DEF SoFar, Ended
  <2> QED  BY <2>3, <2>4, <2>5, <2>6, <1>1, <1>2 DEF SoFar, SplitIsRight
<1>4. CASE behind[1] # NUL
  BY <1>1, <1>2, <1>4 DEF SoFar, SplitIsRight
<1> QED  BY <1>3, <1>4

LEMMA SoFarSplit == IInv /\ SoFar /\ Split => SoFar' /\ SplitIsRight'
<1> SUFFICES ASSUME IInv, SoFar, Split PROVE SoFar' /\ SplitIsRight'
  OBVIOUS
<1> DEFINE c == Piece(lastLengthMatch, i)
           n == Len(separator)
<1>1. /\ pc = "split" /\ i < Len(string) /\ Matches(i) /\ AppendComponent(c)
      /\ i' = i + n /\ lastLengthMatch' = i + n
      /\ UNCHANGED <<string, behind, separator, pc, ret>>
  BY DEF Split, arguments
<1>2. /\ string \in Seq(Byte) /\ Len(string) \in Nat
      /\ separator \in Seq(Byte) /\ n \in Nat
      /\ i \in Nat /\ lastLengthMatch \in Nat /\ lastLengthMatch <= i
      /\ components \in Seq(Seq(Byte)) /\ ret = "none"
  BY <1>1, TypesOfState DEF IInv
<1>3. CASE behind[1] = NUL
  <2>1. /\ FlattenSeq(Ended(components)) = SubSeq(string, 1, lastLengthMatch)
        /\ EndInTime(components)
        /\ \A j \in lastLengthMatch .. i - 1 : ~OccursAt(string, j)
    BY <1>1, <1>3 DEF SoFar
  <2>2. OccursAt(string, i) /\ i + n <= Len(string)
    BY <1>1, <1>2, <1>3, MatchIsOccurrence DEF OccursAt
  <2>3. c \in Seq(Byte) /\ c = SubSeq(string, lastLengthMatch + 1, i)
    BY <1>1, <1>2 DEF Piece
  <2>4. /\ c \o separator = SubSeq(string, lastLengthMatch + 1, i + n)
        /\ \A j \in 0 .. Len(c) - 1 : ~OccursAt(c \o separator, j)
    <3>1. PICK b, l, m : b = string /\ l = lastLengthMatch /\ m = i
      OBVIOUS
    <3>2. /\ b \in Seq(Byte) /\ l \in Nat /\ m \in Nat /\ l <= m /\ m <= Len(b)
          /\ OccursAt(b, m) /\ \A j \in l .. m - 1 : ~OccursAt(b, j)
      BY <3>1, <2>1, <2>2, <1>1, <1>2
    <3>3. LET d == SubSeq(b, l + 1, m)
          IN  /\ d \o separator = SubSeq(b, l + 1, m + n)
              /\ \A j \in 0 .. Len(d) - 1 : ~OccursAt(d \o separator, j)
      BY ONLY <3>2, <1>2, PieceEnds
    <3> QED  BY <3>1, <3>3 DEF Piece
  <2> HIDE DEF c
  <2>5. components' = Append(components, c)
    BY <1>1 DEF AppendComponent
  <2>6. FlattenSeq(Ended(components))' = SubSeq(string, 1, lastLengthMatch)'
    <3>1. FlattenSeq(Ended(Append(components, c)))
            = SubSeq(string, 1, lastLengthMatch) \o SubSeq(string, lastLengthMatch + 1, i + n)
      BY <2>1, <2>3, <2>4, <1>2, EndedOneMore
    <3>2. i + n \in Nat /\ lastLengthMatch <= i + n
      BY <1>2
    <3>3. SubSeq(string, 1, lastLengthMatch) \o SubSeq(string, lastLengthMatch + 1, i + n)
            = SubSeq(string, 1, i + n)
      BY <3>2, <2>2, <1>2, FirstPieces
    <3>4. Ended(components)' = Ended(Append(components, c))
      BY <2>5, <1>1 DEF Ended
    <3> QED  BY <3>1, <3>3, <3>4, <1>1
  <2>7. EndInTime(components)'
    <3>1. \A k \in 1 .. Len(Append(components, c)) :
            \/ k \in 1 .. Len(components) /\ Append(components, c)[k] = components[k]
            \/ Append(components, c)[k] = c
      BY <2>3, <1>2, Appending
    <3>2. EndInTime(Append(components, c))
      BY <3>1, <2>1, <2>4 DEF EndInTime
    <3> QED  BY <3>2, <2>5, <1>1 DEF EndInTime, OccursAt
  <2>8. (\A j \in lastLengthMatch .. i - 1 : ~OccursAt(string, j))'
    BY <1>1, <1>2
  <2>9. i' <= Len(string)'
    BY <2>2, <1>1
  <2> QED  BY <2>6, <2>7, <2>8, <2>9, <1>1, <1>2 DEF SoFar, SplitIsRight
<1>4. CASE behind[1] # NUL
  BY <1>1, <1>2, <1>4 DEF SoFar, SplitIsRight
<1> QED  BY <1>3, <1>4

LEMMA SoFarSplitFails == IInv /\ SoFar /\ SplitFails => SoFar' /\ SplitIsRight'
  BY SoFarReturned DEF SplitFails

LEMMA SoFarLoopEnds == IInv /\ SoFar /\ LoopEnds => SoFar' /\ SplitIsRight'
<1> SUFFICES ASSUME IInv, SoFar, LoopEnds PROVE SoFar' /\ SplitIsRight'
  OBVIOUS
<1>1. /\ pc = "split" /\ pc' = "last" /\ ret = "none"
      /\ UNCHANGED <<string, behind, separator, i, lastLengthMatch, components, ret>>
  BY DEF LoopEnds, arguments, IInv
<1>2. Ended(components)' = Ended(components)
  BY <1>1 DEF Ended
<1>3. EndInTime(components)' = EndInTime(components)
  BY <1>1 DEF EndInTime, OccursAt
<1>4. (\A j \in lastLengthMatch .. i - 1 : ~OccursAt(string, j))'
        = (\A j \in lastLengthMatch .. i - 1 : ~OccursAt(string, j))
  BY <1>1 DEF OccursAt
<1> QED  BY <1>1, <1>2, <1>3, <1>4 DEF SoFar, SplitIsRight

(* Behind the loop there is a separator: with an empty one the loop does   *)
(* not end.                                                                *)
LEMMA SeparatorAtEnd ==
  ASSUME IInv, pc = "last"
  PROVE  Len(separator) > 0 /\ \A j \in 0 .. 0 : ~OccursAt(<<>>, j)
<1>1. /\ Len(string) \in Nat /\ Len(separator) \in Nat /\ i \in Nat
      /\ separator \in Seq(Byte)
  BY TypesOfState
<1>2. i >= Len(string) /\ ~(Len(separator) >= Len(string))
  BY DEF IInv, Refused
<1>3. Len(separator) # 0
  BY <1>1, <1>2 DEF IInv
<1>4. ASSUME OccursAt(<<>>, 0) PROVE FALSE
  BY <1>1, <1>3, <1>4 DEF OccursAt
<1> QED  BY <1>1, <1>3, <1>4

LEMMA SoFarLast == IInv /\ SoFar /\ LastComponent => SoFar' /\ SplitIsRight'
<1> SUFFICES ASSUME IInv, SoFar, LastComponent PROVE SoFar' /\ SplitIsRight'
  OBVIOUS
<1>1. pc = "last"
  BY DEF LastComponent
<1>2. /\ string \in Seq(Byte) /\ Len(string) \in Nat
      /\ separator \in Seq(Byte) /\ Len(separator) \in Nat
      /\ i \in Nat /\ lastLengthMatch \in Nat /\ lastLengthMatch <= i
      /\ components \in Seq(Seq(Byte)) /\ Len(components) \in Nat
  BY TypesOfState
<1>3. ASSUME behind[1] = NUL
      PROVE  /\ lastLengthMatch <= Len(string) /\ i = Len(string)
             /\ FlattenSeq(Ended(components)) = SubSeq(string, 1, lastLengthMatch)
             /\ EndInTime(components)
             /\ \A j \in lastLengthMatch .. i - 1 : ~OccursAt(string, j)
  <2>1. i >= Len(string)
    BY <1>1 DEF IInv
  <2>2. /\ i <= Len(string)
        /\ FlattenSeq(Ended(components)) = SubSeq(string, 1, lastLengthMatch)
        /\ EndInTime(components)
        /\ \A j \in lastLengthMatch .. i - 1 : ~OccursAt(string, j)
    BY <1>1, <1>3 DEF SoFar
  <2> QED  BY <2>1, <2>2, <1>2
<1>4. CASE Len(string) - lastLengthMatch <= 0 /\ Return("array", FALSE)
  <2>1. /\ pc' = "done"
        /\ UNCHANGED <<string, behind, separator, components>>
    BY <1>4 DEF Return, arguments
  <2>2. ASSUME behind[1] = NUL PROVE IsSplit(components, string)
    <3>1. lastLengthMatch = Len(string)
      BY <1>2, <1>3, <1>4, <2>2
    <3>2. SubSeq(string, 1, Len(string)) = string /\ string \o <<>> = string
      BY <1>2
    <3>3. string = FlattenSeq(Ended(components)) \o <<>>
      BY <3>1, <3>2, <1>3, <2>2
    <3>4. \A k \in 1 .. Len(components) : \A j \in 0 .. Len(components[k]) - 1 :
            ~OccursAt(Ended(components)[k], j)
      BY <1>2, <1>3, <2>2 DEF EndInTime, Ended
    <3>5. \A j \in 0 .. Len(<<>>) : ~OccursAt(<<>>, j)
      <4>1. Len(<<>>) = 0
        OBVIOUS
      <4> QED  BY <4>1, <1>1, SeparatorAtEnd
    <3>6. PICK n : n = Len(components)
      OBVIOUS
    <3>7. n \in {Len(components) - 1, Len(components)} \cap Nat /\ ~(n < Len(components))
      BY <3>6, <1>2
    <3>8. Ended(components) = [k \in 1 .. n |-> components[k] \o separator]
      BY <3>6 DEF Ended
    <3> QED  BY <3>3, <3>4, <3>5, <3>6, <3>7, <3>8 DEF IsSplit
  <2>3. behind[1] = NUL => IsSplit(components, string)'
    BY <2>1, <2>2 DEF IsSplit, OccursAt
  <2> QED  BY <2>1, <2>3 DEF SoFar, SplitIsRight
<1>5. CASE \E hungry \in BOOLEAN : Return("abort", hungry)
  BY <1>5, SoFarReturned
<1>6. CASE Return("NULL", TRUE)
  BY <1>6, SoFarReturned
<1>7. CASE /\ Len(string) - lastLengthMatch > 0 /\ AppendComponent(Rest)
           /\ pc' = "done" /\ UNCHANGED arguments
  <2> DEFINE cs == Append(components, Rest)
  <2>1. /\ components' = cs
        /\ UNCHANGED <<string, behind, separator>>
    BY <1>7 DEF AppendComponent, arguments
  <2>2. lastLengthMatch < Len(string) /\ Rest = SubSeq(string, lastLengthMatch + 1, Len(string))
    BY <1>2, <1>7 DEF Rest, Piece
  <2>3. Rest \in Seq(Byte) /\ Len(Rest) = Len(string) - lastLengthMatch /\ Rest # <<>>
    <3>1. PICK w : w = SubSeq(string, lastLengthMatch + 1, Len(string))
      OBVIOUS
    <3>2. w \in Seq(Byte) /\ Len(w) = Len(string) - lastLengthMatch
      BY <3>1, <2>2, <1>2
    <3>3. w # <<>>
      BY <3>2, <2>2, <1>2, EmptySeq
    <3> QED  BY <3>1, <3>2, <3>3, <2>2
  <2>4. /\ Len(cs) = Len(components) + 1 /\ cs[Len(cs)] = Rest
        /\ \A k \in 1 .. Len(components) : cs[k] = components[k]
    BY <1>2, <2>3
  <2>5. Ended(components) = [k \in 1 .. Len(cs) - 1 |-> cs[k] \o separator]
    BY <1>2, <2>3, EndedOneMore
  <2> HIDE DEF cs
  <2>6. ASSUME behind[1] = NUL PROVE IsSplit(cs, string)
    <3>1. string = FlattenSeq(Ended(components)) \o Rest
      <4>1. lastLengthMatch <= Len(string)
        BY <1>2, <2>2
      <4>2. SubSeq(string, 1, lastLengthMatch) \o SubSeq(string, lastLengthMatch + 1, Len(string))
              = SubSeq(string, 1, Len(string))
        <5>1. PICK m, n : m = lastLengthMatch /\ n = Len(string)
          OBVIOUS
        <5>2. m \in Nat /\ n \in Nat /\ m <= n /\ n <= Len(string)
          BY <5>1, <4>1, <1>2
        <5>3. SubSeq(string, 1, m) \o SubSeq(string, m + 1, n) = SubSeq(string, 1, n)
          BY <5>2, <1>2, FirstPieces
        <5> QED  BY <5>1, <5>3
      <4>3. SubSeq(string, 1, Len(string)) = string
        BY <1>2
      <4> QED  BY <4>2, <4>3, <2>2, <1>3, <2>6
    <3>2. \A k \in 1 .. Len(components) : \A j \in 0 .. Len(cs[k]) - 1 :
            ~OccursAt(Ended(components)[k], j)
      BY <1>3, <2>4, <2>6 DEF EndInTime, Ended
    <3>3. \A j \in 0 .. Len(Rest) : ~OccursAt(Rest, j)
      <4> SUFFICES ASSUME NEW j \in 0 .. Len(Rest), OccursAt(Rest, j) PROVE FALSE
        OBVIOUS
      <4>1. j \in Nat /\ lastLengthMatch <= Len(string)
        BY <2>2, <2>3, <1>2
      <4>2. OccursAt(string, lastLengthMatch + j) /\ lastLengthMatch + j + Len(separator) <= Len(string)
        <5>1. OccursAt(SubSeq(string, lastLengthMatch + 1, Len(string)), j)
          BY <2>2
        <5>2. Len(string) <= Len(string)
          BY <1>2
        <5> QED  BY <5>1, <5>2, <4>1, <1>2, OccurrenceInPiece
      <4>3. Len(separator) > 0
        BY <1>1, SeparatorAtEnd
      <4>4. lastLengthMatch + j \in lastLengthMatch .. i - 1
        BY <4>1, <4>2, <4>3, <1>2, <1>3, <2>6
      <4> QED  BY <4>2, <4>4, <1>3, <2>6
    <3>4. PICK n : n = Len(components)
      OBVIOUS
    <3>5. n \in {Len(cs) - 1, Len(cs)} \cap Nat /\ n # Len(cs) /\ n < Len(cs) /\ n = Len(cs) - 1
      BY <3>4, <2>4, <1>2
    <3>6. Ended(components) = [k \in 1 .. n |-> cs[k] \o separator]
      BY <3>5, <2>5
    <3> QED  BY <3>1, <3>2, <3>3, <3>4, <3>5, <3>6, <2>3, <2>4 DEF IsSplit
  <2>7. behind[1] = NUL => IsSplit(components, string)'
    BY <2>1, <2>6 DEF IsSplit, OccursAt
  <2> QED  BY <1>7, <2>1, <2>7 DEF SoFar, SplitIsRight
<1>8. \/ Len(string) - lastLengthMatch <= 0 /\ Return("array", FALSE)
      \/ \E hungry \in BOOLEAN : Return("abort", hungry)
      \/ Return("NULL", TRUE)
      \/ /\ Len(string) - lastLengthMatch > 0 /\ AppendComponent(Rest)
         /\ pc' = "done" /\ UNCHANGED arguments
  BY DEF LastComponent
<1> QED  BY <1>4, <1>5, <1>6, <1>7, <1>8

LEMMA SoFarStays == IInv /\ SoFar /\ SplitIsRight /\ [Next]_vars => SoFar' /\ SplitIsRight'
<1> SUFFICES ASSUME IInv, SoFar, SplitIsRight, [Next]_vars PROVE SoFar' /\ SplitIsRight'
  OBVIOUS
<1>1. CASE UNCHANGED vars
  <2>1. UNCHANGED <<string, behind, separator, pc, i, lastLengthMatch, components, ret>>
    BY <1>1 DEF vars, arguments
  <2>2. Ended(components)' = Ended(components)
    BY <2>1 DEF Ended
  <2>3. EndInTime(components)' = EndInTime(components)
    BY <2>1 DEF EndInTime, OccursAt
  <2>4. (\A j \in lastLengthMatch .. i - 1 : ~OccursAt(string, j))'
          = (\A j \in lastLengthMatch .. i - 1 : ~OccursAt(string, j))
    BY <2>1 DEF OccursAt
  <2>5. IsSplit(components, string)' = IsSplit(components, string)
    BY <2>1 DEF IsSplit, OccursAt
  <2>6. SoFar'
    BY <2>1, <2>2, <2>3, <2>4 DEF SoFar
  <2>7. SplitIsRight'
    BY <2>1, <2>5 DEF SplitIsRight
  <2> QED  BY <2>6, <2>7
<1>2. CASE Next
  BY <1>2, SoFarCall, SoFarSkip, SoFarSplit, SoFarSplitFails, SoFarLoopEnds, SoFarLast,
     Zenon DEF Next
<1> QED  BY <1>1, <1>2

(* When the buffer ends where the string does, the components that         *)
(* EFStringComponentsSplitBySeparator returns, joined with the separator,  *)
(* are the string, and each ends where the separator first occurs, for     *)
(* every string and separator.                                             *)
THEOREM SplittingIsRight == Spec => []SplitIsRight
<1> DEFINE SInv == SoFar /\ SplitIsRight
<1>1. Init => SInv
  BY SoFarInitially
<1>2. IInv /\ SInv /\ [Next]_vars => SInv'
  BY SoFarStays
<1>3. SInv => SplitIsRight
  OBVIOUS
<1> HIDE DEF SInv
<1> QED  BY <1>1, <1>2, <1>3, Inductive, PTL DEF Spec
=============================================================================
