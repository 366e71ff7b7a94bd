------------------------- MODULE EFStringValidation -------------------------
(***************************************************************************)
(* __EFStringValidateEncoding at work on the first bytes of a buffer, one  *)
(* iteration of its loops at a time.  The buffer may go on behind what is  *)
(* to be validated, as that of EFStringCreateWithCBuffer does.             *)
(***************************************************************************)
EXTENDS EFStringEncoding, Integers

CONSTANT Buffers
ASSUME BuffersAssumption == Buffers \subseteq Seq(Byte)

VARIABLES
  buffer, length, encoding, \* the arguments
  i,     \* the bytes accepted so far
  read,  \* the furthest byte that has been read
  answer \* "none" while the loop runs, "yes", "no"

vars == <<buffer, length, encoding, i, read, answer>>

Init ==
  /\ buffer \in Buffers
  /\ length \in 0 .. Len(buffer)
  /\ encoding \in Encodings
  /\ i = 0 /\ read = 0 /\ answer = "none"

Refuse(k) == answer' = "no" /\ read' = k /\ UNCHANGED <<buffer, length, encoding, i>>
Accept(n) == i' = i + n /\ read' = i + n /\ UNCHANGED <<buffer, length, encoding, answer>>

Running == answer = "none" /\ i < length

UTF7 ==
  /\ Running /\ encoding = "UTF7"
  /\ IF buffer[i + 1] > 127 THEN Refuse(i + 1) ELSE Accept(1)

BufferEnds(n) == i + n > Len(buffer)
Truncated(n)  == i + n > length

(* The first of the bytes that must continue a character and does not.     *)
Breaks(k, n) ==
  /\ k \in 2 .. n
  /\ ~IsContinuation(buffer[i + k])
  /\ \A j \in 2 .. k - 1 : IsContinuation(buffer[i + j])

UTF8 ==
  /\ Running /\ encoding = "UTF8"
  /\ LET n == SequenceLength(buffer[i + 1]) IN
     \/ (n = 0 \/ Truncated(n)) /\ Refuse(i + 1)
     \/ /\ n # 0 /\ ~Truncated(n)
        /\ \/ \E k \in 2 .. n : Breaks(k, n) /\ Refuse(i + k)
           \/ /\ \A k \in 2 .. n : IsContinuation(buffer[i + k])
              /\ IF IsScalar(CodePoint(buffer, i, n), n) THEN Accept(n) ELSE Refuse(i + n)

Return ==
  /\ answer = "none" /\ i >= length
  /\ answer' = "yes"
  /\ UNCHANGED <<buffer, length, encoding, i, read>>

Next == UTF7 \/ UTF8 \/ Return

Spec == Init /\ [][Next]_vars
-----------------------------------------------------------------------------
(* No byte behind the length is read, whatever the last character          *)
(* announces.                                                              *)
TypeOK ==
  /\ buffer \in Buffers /\ length \in 0 .. Len(buffer) /\ encoding \in Encodings
  /\ i \in 0 .. length
  /\ read \in i .. length
  /\ answer \in {"none", "yes", "no"}

(* EFString.c:51 names RFC 3629: the bytes are accepted exactly when they  *)
(* can be divided into the characters of its syntax (or are ASCII), and so *)
(* overlong forms, surrogates and truncated characters are refused.        *)
AnswerIsRFC3629 ==
  answer # "none" => (answer = "yes" <=> WellFormed(encoding, buffer, length))
=============================================================================
