---------------------- MODULE EFStringValidationProofs ----------------------
(***************************************************************************)
(* The validator answers what RFC 3629 says, for every buffer. First, one  *)
(* iteration accepts a character exactly when the grammar of the RFC has   *)
(* it. Then, what is accepted so far divides into characters; and since    *)
(* the first byte of a character fixes where it ends, every division of    *)
(* the whole has a character that begins where the loop stands. A refusal  *)
(* then refutes every division.                                            *)
(***************************************************************************)
EXTENDS EFStringValidation, SequenceTheorems, TLAPS

(* A piece of a sequence has the elements of the sequence.                 *)
LEMMA Bytes ==
  ASSUME NEW b \in Seq(Byte), NEW j \in Nat, NEW t \in Nat, j < t, t <= Len(b)
  PROVE  /\ Len(SubSeq(b, j + 1, t)) = t - j
         /\ \A k \in 1 .. t - j : SubSeq(b, j + 1, t)[k] = b[j + k]
         /\ \A k \in 1 .. t - j : b[j + k] \in Byte
  OBVIOUS

(* The number of bytes that a first byte announces.                        *)
LEMMA Lengths ==
  ASSUME NEW c \in Byte
  PROVE  /\ SequenceLength(c) \in 0 .. 4
         /\ SequenceLength(c) = 1 <=> c <= 127
         /\ SequenceLength(c) = 2 <=> c \in 192 .. 223
         /\ SequenceLength(c) = 3 <=> c \in 224 .. 239
         /\ SequenceLength(c) = 4 <=> c \in 240 .. 247
  BY DEF SequenceLength, Byte

LEMMA One ==
  ASSUME NEW w \in Byte
  PROVE  /\ SequenceLength(w) = 1 <=> w \in 0 .. 127
         /\ w \in 0 .. 127 => IsScalar(w, 1)
  BY DEF SequenceLength, IsScalar, min_cp, Byte

(* Two bytes are in the table of the RFC when the code accepts them, ...   *)
LEMMA Two ==
  ASSUME NEW w \in Byte, NEW x \in Byte
  PROVE  w \in 194 .. 223 /\ x \in 128 .. 191
           <=> /\ w \in 192 .. 223 /\ x \in 128 .. 191
               /\ IsScalar((w - 192) * 64 + (x - 128), 2)
  BY DEF IsScalar, min_cp, Byte

(* ... and so are three ...                                                *)
Table3(w, x) ==
  \/ w = 224 /\ x \in 160 .. 191
  \/ w \in 225 .. 236 /\ x \in 128 .. 191
  \/ w = 237 /\ x \in 128 .. 159
  \/ w \in 238 .. 239 /\ x \in 128 .. 191

LEMMA Three ==
  ASSUME NEW w \in Byte, NEW x \in Byte, NEW y \in Byte
  PROVE  y \in 128 .. 191 =>
           (Table3(w, x) <=>
             /\ w \in 224 .. 239 /\ x \in 128 .. 191
             /\ IsScalar(((w - 224) * 64 + (x - 128)) * 64 + (y - 128), 3))
  BY DEF Table3, IsScalar, min_cp, Byte

(* ... and four.                                                           *)
Table4(w, x) ==
  \/ w = 240 /\ x \in 144 .. 191
  \/ w \in 241 .. 243 /\ x \in 128 .. 191
  \/ w = 244 /\ x \in 128 .. 143

LEMMA Four ==
  ASSUME NEW w \in Byte, NEW x \in Byte, NEW y \in Byte, NEW z \in Byte
  PROVE  y \in 128 .. 191 /\ z \in 128 .. 191 =>
           (Table4(w, x) <=>
             /\ w \in 240 .. 247 /\ x \in 128 .. 191
             /\ IsScalar((((w - 240) * 64 + (x - 128)) * 64 + (y - 128)) * 64
                            + (z - 128), 4))
  BY DEF Table4, IsScalar, min_cp, Byte

(* What an iteration accepts at an index.                                  *)
AcceptsUTF8(b, j, n) ==
  /\ n = SequenceLength(b[j + 1]) /\ n # 0
  /\ \A k \in 2 .. n : IsContinuation(b[j + k])
  /\ IsScalar(CodePoint(b, j, n), n)

(* The bytes between two indices are a character of the RFC exactly when   *)
(* the iteration at the first accepts as many.                             *)
THEOREM CharacterOfRFC3629 ==
  ASSUME NEW b \in Seq(Byte), NEW j \in Nat, NEW t \in Nat, j < t, t <= Len(b)
  PROVE  IsCharacter("UTF8", SubSeq(b, j + 1, t)) <=> AcceptsUTF8(b, j, t - j)
<1> DEFINE c == SubSeq(b, j + 1, t)
           n == t - j
<1> SUFFICES IsCharacter("UTF8", c) <=> AcceptsUTF8(b, j, n)  OBVIOUS
<1>1. /\ Len(c) = n /\ n \in Nat /\ n > 0
      /\ \A k \in 1 .. n : c[k] = b[j + k] /\ b[j + k] \in Byte
  BY Bytes
<1> HIDE DEF c, n
<1>2. b[j + 1] \in Byte /\ c[1] = b[j + 1]
  BY <1>1
<1>3. CASE n = 1
  <2>1. AcceptsUTF8(b, j, 1) <=> b[j + 1] \in 0 .. 127
    <3>1. CodePoint(b, j, 1) = b[j + 1]
      BY DEF CodePoint
    <3>2. SequenceLength(b[j + 1]) = 1 <=> b[j + 1] \in 0 .. 127
      BY <1>2, One
    <3>3. b[j + 1] \in 0 .. 127 => IsScalar(b[j + 1], 1)
      BY <1>2, One
    <3> QED  BY <3>1, <3>2, <3>3 DEF AcceptsUTF8
  <2>2. IsCharacter("UTF8", c) <=> b[j + 1] \in 0 .. 127
    <3>1. IsCharacter("UTF8", c) <=> c[1] \in 0 .. 127
      BY <1>1, <1>3 DEF IsCharacter, UTF8_1, UTF8_2, UTF8_3, UTF8_4
    <3> QED  BY <3>1, <1>2
  <2> QED  BY <2>1, <2>2, <1>3
<1>4. CASE n = 2
  <2>1. b[j + 2] \in Byte /\ c[2] = b[j + 2]
    BY <1>1, <1>4
  <2>2. AcceptsUTF8(b, j, n) <=>
          /\ b[j + 1] \in 192 .. 223 /\ b[j + 2] \in 128 .. 191
          /\ IsScalar((b[j + 1] - 192) * 64 + (b[j + 2] - 128), 2)
    BY <1>2, <1>4, Lengths DEF AcceptsUTF8, CodePoint, IsContinuation
  <2>3. IsCharacter("UTF8", c) <=> b[j + 1] \in 194 .. 223 /\ b[j + 2] \in 128 .. 191
    <3>1. IsCharacter("UTF8", c) <=> c[1] \in 194 .. 223 /\ c[2] \in 128 .. 191
      BY <1>1, <1>4 DEF IsCharacter, UTF8_1, UTF8_2, UTF8_3, UTF8_4
    <3> QED  BY <3>1, <2>1, <1>2
  <2>4. b[j + 1] \in 194 .. 223 /\ b[j + 2] \in 128 .. 191 <=>
          /\ b[j + 1] \in 192 .. 223 /\ b[j + 2] \in 128 .. 191
          /\ IsScalar((b[j + 1] - 192) * 64 + (b[j + 2] - 128), 2)
    BY <2>1, <1>2, Two, ZenonT(60)
  <2> QED  BY <2>2, <2>3, <2>4
<1>5. CASE n = 3
  <2>1. /\ b[j + 2] \in Byte /\ c[2] = b[j + 2]
        /\ b[j + 3] \in Byte /\ c[3] = b[j + 3]
    BY <1>1, <1>5
  <2>2. AcceptsUTF8(b, j, n) <=>
          /\ b[j + 1] \in 224 .. 239
          /\ b[j + 2] \in 128 .. 191 /\ b[j + 3] \in 128 .. 191
          /\ IsScalar(((b[j + 1] - 224) * 64 + (b[j + 2] - 128)) * 64 + (b[j + 3] - 128), 3)
    BY <1>2, <1>5, Lengths DEF AcceptsUTF8, CodePoint, IsContinuation
  <2>3. IsCharacter("UTF8", c) <=>
          b[j + 3] \in 128 .. 191 /\ Table3(b[j + 1], b[j + 2])
    <3>1. IsCharacter("UTF8", c) <=> c[3] \in 128 .. 191 /\ Table3(c[1], c[2])
      BY <1>1, <1>5 DEF IsCharacter, UTF8_1, UTF8_2, UTF8_3, UTF8_4, Table3
    <3> QED  BY <3>1, <2>1, <1>2
  <2>4. b[j + 3] \in 128 .. 191 =>
          (Table3(b[j + 1], b[j + 2]) <=>
            /\ b[j + 1] \in 224 .. 239 /\ b[j + 2] \in 128 .. 191
            /\ IsScalar(((b[j + 1] - 224) * 64 + (b[j + 2] - 128)) * 64 + (b[j + 3] - 128), 3))
    BY <2>1, <1>2, Three, ZenonT(60)
  <2> QED  BY <2>2, <2>3, <2>4
<1>6. CASE n = 4
  <2>1. /\ b[j + 2] \in Byte /\ c[2] = b[j + 2]
        /\ b[j + 3] \in Byte /\ c[3] = b[j + 3]
        /\ b[j + 4] \in Byte /\ c[4] = b[j + 4]
    BY <1>1, <1>6
  <2>2. AcceptsUTF8(b, j, n) <=>
          /\ b[j + 1] \in 240 .. 247
          /\ b[j + 2] \in 128 .. 191 /\ b[j + 3] \in 128 .. 191 /\ b[j + 4] \in 128 .. 191
          /\ IsScalar((((b[j + 1] - 240) * 64 + (b[j + 2] - 128)) * 64
                         + (b[j + 3] - 128)) * 64 + (b[j + 4] - 128), 4)
    BY <1>2, <1>6, Lengths DEF AcceptsUTF8, CodePoint, IsContinuation
  <2>3. IsCharacter("UTF8", c) <=>
          /\ b[j + 3] \in 128 .. 191 /\ b[j + 4] \in 128 .. 191
          /\ Table4(b[j + 1], b[j + 2])
    <3>1. IsCharacter("UTF8", c) <=>
            c[3] \in 128 .. 191 /\ c[4] \in 128 .. 191 /\ Table4(c[1], c[2])
      BY <1>1, <1>6 DEF IsCharacter, UTF8_1, UTF8_2, UTF8_3, UTF8_4, Table4
    <3> QED  BY <3>1, <2>1, <1>2
  <2>4. b[j + 3] \in 128 .. 191 /\ b[j + 4] \in 128 .. 191 =>
          (Table4(b[j + 1], b[j + 2]) <=>
            /\ b[j + 1] \in 240 .. 247 /\ b[j + 2] \in 128 .. 191
            /\ IsScalar((((b[j + 1] - 240) * 64 + (b[j + 2] - 128)) * 64
                           + (b[j + 3] - 128)) * 64 + (b[j + 4] - 128), 4))
    BY <2>1, <1>2, Four, ZenonT(60)
  <2> QED  BY <2>2, <2>3, <2>4
<1>7. CASE n > 4
  <2>1. ~AcceptsUTF8(b, j, n)
    <3>1. SequenceLength(b[j + 1]) \in 0 .. 4
      BY <1>2, Lengths
    <3> QED  BY <3>1, <1>1, <1>7 DEF AcceptsUTF8
  <2> QED  BY <2>1, <1>1, <1>7 DEF IsCharacter, UTF8_1, UTF8_2, UTF8_3, UTF8_4
<1> QED  BY <1>1, <1>3, <1>4, <1>5, <1>6, <1>7
-----------------------------------------------------------------------------
(* The same for ASCII.                                                     *)
LEMMA CharacterOfASCII ==
  ASSUME NEW b \in Seq(Byte), NEW j \in Nat, NEW t \in Nat, j < t, t <= Len(b)
  PROVE  /\ b[j + 1] \in Byte
         /\ IsCharacter("UTF7", SubSeq(b, j + 1, t)) <=> t = j + 1 /\ ~(b[j + 1] > 127)
<1> DEFINE c == SubSeq(b, j + 1, t)
<1>1. Len(c) = t - j /\ c[1] = b[j + 1] /\ b[j + 1] \in Byte
  BY Bytes
<1> HIDE DEF c
<1>2. IsCharacter("UTF7", c) <=> Len(c) = 1 /\ c[1] \in 0 .. 127
  BY DEF IsCharacter, UTF8_1
<1>3. b[j + 1] \in 0 .. 127 <=> ~(b[j + 1] > 127)
  <2>1. \A w \in Byte : w \in 0 .. 127 <=> ~(w > 127)
    BY DEF Byte
  <2> QED  BY <2>1, <1>1
<1> QED  BY <1>1, <1>2, <1>3 DEF c

(* Every division of the first m bytes has a character that begins, or     *)
(* the last one that ends, at j.                                           *)
Forced(e, b, j, m) ==
  \A starts \in SUBSET (0 .. m) : IsDivision(starts, e, b, m) => j \in starts

IInv ==
  /\ TypeOK
  /\ WellFormed(encoding, buffer, i)
  /\ Forced(encoding, buffer, i, length)
  /\ answer = "yes" => i = length
  /\ answer = "no" => ~WellFormed(encoding, buffer, length)

(* The only character that begins at j moves both facts to its end.        *)
LEMMA Advance ==
  ASSUME NEW e, NEW b, NEW m \in Nat, NEW j \in Nat, NEW n \in Nat,
         n > 0, j + n <= m,
         IsCharacter(e, SubSeq(b, j + 1, j + n)),
         \A t \in j + 1 .. m : IsCharacter(e, SubSeq(b, j + 1, t)) => t = j + n,
         WellFormed(e, b, j), Forced(e, b, j, m)
  PROVE  WellFormed(e, b, j + n) /\ Forced(e, b, j + n, m)
<1>1. WellFormed(e, b, j + n)
  <2>1. PICK starts \in SUBSET (0 .. j) : IsDivision(starts, e, b, j)
    BY DEF WellFormed
  <2> DEFINE more == starts \cup {j + n}
  <2>2. more \in SUBSET (0 .. j + n) /\ 0 \in more /\ j + n \in more
    BY <2>1 DEF IsDivision
  <2>3. ASSUME NEW s \in more, s < j + n
        PROVE  \E t \in more : s < t /\ IsCharacter(e, SubSeq(b, s + 1, t))
    <3>1. s \in starts /\ s \in 0 .. j
      BY <2>3, <2>1
    <3>2. CASE s = j
      BY <3>2
    <3>3. CASE s < j
      BY <3>1, <3>3, <2>1 DEF IsDivision
    <3> QED  BY <3>1, <3>2, <3>3
  <2>4. IsDivision(more, e, b, j + n)
    BY <2>2, <2>3 DEF IsDivision
  <2> QED  BY <2>2, <2>4 DEF WellFormed
<1>2. ASSUME NEW starts \in SUBSET (0 .. m), IsDivision(starts, e, b, m)
      PROVE  j + n \in starts
  <2>1. j \in starts /\ j < m
    BY <1>2 DEF Forced
  <2>2. PICK t \in starts : j < t /\ IsCharacter(e, SubSeq(b, j + 1, t))
    BY <2>1, <1>2 DEF IsDivision
  <2>3. t \in j + 1 .. m
    BY <2>2
  <2> QED  BY <2>2, <2>3
<1> QED  BY <1>1, <1>2 DEF Forced

(* Without one there is no division of the whole.                          *)
LEMMA Refute ==
  ASSUME NEW e, NEW b, NEW m \in Nat, NEW j \in Nat, j < m,
         \A t \in j + 1 .. m : ~IsCharacter(e, SubSeq(b, j + 1, t)),
         Forced(e, b, j, m)
  PROVE  ~WellFormed(e, b, m)
<1> SUFFICES ASSUME NEW starts \in SUBSET (0 .. m), IsDivision(starts, e, b, m)
             PROVE  FALSE
  BY DEF WellFormed
<1>1. j \in starts
  BY DEF Forced
<1>2. PICK t \in starts : j < t /\ IsCharacter(e, SubSeq(b, j + 1, t))
  BY <1>1 DEF IsDivision
<1>3. t \in j + 1 .. m
  BY <1>2
<1> QED  BY <1>2, <1>3

LEMMA Initially == Init => IInv
<1> SUFFICES ASSUME Init PROVE IInv
  OBVIOUS
<1>1. Len(buffer) \in Nat
  BY BuffersAssumption DEF Init
<1>2. TypeOK
  BY <1>1 DEF Init, TypeOK
<1>3. IsDivision({0}, encoding, buffer, 0)
  BY DEF IsDivision
<1>4. WellFormed(encoding, buffer, i)
  BY <1>3 DEF WellFormed, Init
<1>5. Forced(encoding, buffer, i, length)
  BY DEF Forced, IsDivision, Init
<1> QED  BY <1>2, <1>4, <1>5 DEF IInv, Init

(* A step that refuses, given that no character begins at i.               *)
LEMMA Refusal ==
  ASSUME IInv, Running, NEW k \in Nat, Refuse(k), k > i, k <= length,
         \A t \in i + 1 .. length : ~IsCharacter(encoding, SubSeq(buffer, i + 1, t))
  PROVE  IInv'
<1>1. i \in Nat /\ length \in Nat /\ i < length
  BY BuffersAssumption DEF IInv, TypeOK, Running
<1>2. ~WellFormed(encoding, buffer, length)
  BY <1>1, Refute DEF IInv
<1>3. TypeOK'
  BY <1>1 DEF IInv, TypeOK, Refuse
<1> QED  BY <1>2, <1>3 DEF IInv, Refuse

(* A step that accepts the only character that begins at i.                *)
LEMMA Acceptance ==
  ASSUME IInv, Running, NEW n \in Nat, Accept(n), n > 0, i + n <= length,
         IsCharacter(encoding, SubSeq(buffer, i + 1, i + n)),
         \A t \in i + 1 .. length :
           IsCharacter(encoding, SubSeq(buffer, i + 1, t)) => t = i + n
  PROVE  IInv'
<1>1. i \in Nat /\ length \in Nat
  BY BuffersAssumption DEF IInv, TypeOK
<1>2. WellFormed(encoding, buffer, i + n) /\ Forced(encoding, buffer, i + n, length)
  BY <1>1, Advance DEF IInv
<1>3. TypeOK'
  BY <1>1 DEF IInv, TypeOK, Accept
<1> QED  BY <1>2, <1>3 DEF IInv, Accept, Running

LEMMA Stays == IInv /\ [Next]_vars => IInv'
<1> SUFFICES ASSUME IInv, [Next]_vars PROVE IInv'
  OBVIOUS
<1>0. /\ buffer \in Seq(Byte) /\ i \in Nat /\ length \in Nat /\ Len(buffer) \in Nat
      /\ i <= length /\ length <= Len(buffer)
  BY BuffersAssumption DEF IInv, TypeOK
<1>1. CASE UTF7
  <2>1. i < length /\ Running /\ encoding = "UTF7"
    BY <1>1 DEF UTF7, Running
  <2>2. \A t \in i + 1 .. length :
          IsCharacter(encoding, SubSeq(buffer, i + 1, t))
            <=> t = i + 1 /\ ~(buffer[i + 1] > 127)
    BY <1>0, <2>1, CharacterOfASCII
  <2>3. CASE buffer[i + 1] > 127
    <3>1. Refuse(i + 1)
      BY <1>1, <2>3 DEF UTF7
    <3> QED  BY <3>1, <2>1, <2>2, <2>3, <1>0, Refusal
  <2>4. CASE ~(buffer[i + 1] > 127)
    <3>1. Accept(1)
      BY <1>1, <2>4 DEF UTF7
    <3>2. IsCharacter(encoding, SubSeq(buffer, i + 1, i + 1))
      BY <2>1, <2>2, <2>4, <1>0
    <3> QED  BY <3>1, <3>2, <2>1, <2>2, <1>0, Acceptance
  <2> QED  BY <2>3, <2>4
<1>2. CASE UTF8
  <2>1. i < length /\ Running /\ encoding = "UTF8"
    BY <1>2 DEF UTF8, Running
  <2> DEFINE n == SequenceLength(buffer[i + 1])
  <2>2. \A t \in i + 1 .. length :
          IsCharacter(encoding, SubSeq(buffer, i + 1, t)) <=> AcceptsUTF8(buffer, i, t - i)
    BY <1>0, <2>1, CharacterOfRFC3629
  <2>3. n \in 0 .. 4
    <3>1. buffer[i + 1] \in Byte
      BY <1>0, <2>1
    <3> QED  BY <3>1, Lengths
  <2>4. \/ (n = 0 \/ Truncated(n)) /\ Refuse(i + 1)
        \/ n # 0 /\ ~Truncated(n) /\ \E k \in 2 .. n : Breaks(k, n) /\ Refuse(i + k)
        \/ /\ n # 0 /\ ~Truncated(n) /\ \A k \in 2 .. n : IsContinuation(buffer[i + k])
           /\ IF IsScalar(CodePoint(buffer, i, n), n) THEN Accept(n) ELSE Refuse(i + n)
    BY <1>2 DEF UTF8
  <2>5. \A t \in i + 1 .. length : AcceptsUTF8(buffer, i, t - i) =>
          /\ t - i = n /\ n # 0
          /\ \A k \in 2 .. n : IsContinuation(buffer[i + k])
          /\ IsScalar(CodePoint(buffer, i, n), n)
    BY DEF AcceptsUTF8
  <2> HIDE DEF n
  <2>6. CASE (n = 0 \/ Truncated(n)) /\ Refuse(i + 1)
    <3>1. \A t \in i + 1 .. length : ~IsCharacter(encoding, SubSeq(buffer, i + 1, t))
      <4> SUFFICES ASSUME NEW t \in i + 1 .. length, AcceptsUTF8(buffer, i, t - i)
                   PROVE  FALSE
        BY <2>2
      <4>1. t - i = n /\ n # 0
        BY <2>5
      <4>2. ~(i + n > length)
        BY <4>1, <2>3, <1>0
      <4> QED  BY <4>1, <4>2, <2>6 DEF Truncated
    <3> QED  BY <3>1, <2>1, <2>6, <1>0, Refusal
  <2>7. CASE n # 0 /\ ~Truncated(n) /\ \E k \in 2 .. n : Breaks(k, n) /\ Refuse(i + k)
    <3>1. PICK k \in 2 .. n : Breaks(k, n) /\ Refuse(i + k)
      BY <2>7
    <3>2. \A t \in i + 1 .. length : ~IsCharacter(encoding, SubSeq(buffer, i + 1, t))
      BY <3>1, <2>2, <2>5 DEF Breaks
    <3>3. i + k \in Nat /\ i + k > i /\ i + k <= length
      BY <3>1, <2>3, <2>7, <1>0 DEF Truncated
    <3> QED  BY <3>1, <3>2, <3>3, <2>1, Refusal
  <2>8. CASE /\ n # 0 /\ ~Truncated(n) /\ \A k \in 2 .. n : IsContinuation(buffer[i + k])
             /\ IF IsScalar(CodePoint(buffer, i, n), n) THEN Accept(n) ELSE Refuse(i + n)
    <3>1. n \in Nat /\ n > 0 /\ i + n \in Nat /\ i + n > i /\ i + n <= length
      BY <2>3, <2>8, <1>0 DEF Truncated
    <3>2. CASE IsScalar(CodePoint(buffer, i, n), n)
      <4>1. i + n \in i + 1 .. length /\ (i + n) - i = n
        BY <3>1, <1>0
      <4>2. AcceptsUTF8(buffer, i, n)
        BY <2>8, <3>2 DEF AcceptsUTF8, n
      <4>3. IsCharacter(encoding, SubSeq(buffer, i + 1, i + n))
        BY <4>1, <4>2, <2>2
      <4>4. \A t \in i + 1 .. length :
              IsCharacter(encoding, SubSeq(buffer, i + 1, t)) => t = i + n
        BY <2>2, <2>5, <1>0, <3>1
      <4>5. Accept(n)
        BY <2>8, <3>2
      <4> QED  BY <4>3, <4>4, <4>5, <3>1, <2>1, Acceptance
    <3>3. CASE ~IsScalar(CodePoint(buffer, i, n), n)
      <4>1. \A t \in i + 1 .. length : ~IsCharacter(encoding, SubSeq(buffer, i + 1, t))
        BY <2>2, <2>5, <3>3
      <4>2. Refuse(i + n)
        BY <2>8, <3>3
      <4> QED  BY <4>1, <4>2, <3>1, <2>1, Refusal
    <3> QED  BY <3>2, <3>3
  <2> QED  BY <2>4, <2>6, <2>7, <2>8
<1>3. CASE Return
  <2>1. i = length
    BY <1>0, <1>3 DEF Return
  <2> QED  BY <2>1, <1>3 DEF Return, IInv, TypeOK
<1>4. CASE UNCHANGED vars
  BY <1>4 DEF vars, IInv, TypeOK
<1> QED  BY <1>1, <1>2, <1>3, <1>4 DEF Next

LEMMA Inductive == Spec => []IInv
<1> QED  BY Initially, Stays, PTL DEF Spec

(* No byte behind the length is read, for any buffer.                      *)
THEOREM TypeCorrect == Spec => []TypeOK
<1>1. IInv => TypeOK
  BY DEF IInv
<1> QED  BY <1>1, Inductive, PTL

(* __EFStringValidateEncoding accepts the well-formed texts of RFC 3629    *)
(* and no others, whatever the bytes and their number.                     *)
THEOREM ValidatesRFC3629 == Spec => []AnswerIsRFC3629
<1>1. IInv => AnswerIsRFC3629
  BY DEF IInv, TypeOK, AnswerIsRFC3629
<1> QED  BY <1>1, Inductive, PTL
=============================================================================
