--------------------------- MODULE EFStringSplit ---------------------------
(***************************************************************************)
(* EFStringComponentsSplitBySeparator, one iteration of its loop at a      *)
(* time, on bytes.  Every allocation may fail.  That validation answers    *)
(* WellFormed is what EFStringValidationProofs proves.                     *)
(*                                                                         *)
(* The buffer of a string that is not a copy may go on behind the string,  *)
(* where strncmp does not know that it ends.                               *)
(***************************************************************************)
EXTENDS EFStringEncoding, Integers, SequencesExt

CONSTANTS
  Texts,        \* the bytes of strings, ...
  Separators,
  Behind,       \* ... what their buffers hold behind them, a NUL at its end
  MaxComponents \* how many components memory has room for

ASSUME TextsAssumption ==
  \A t \in Texts \cup Separators : t \in Seq(Byte \ {NUL}) /\ WellFormed("UTF8", t, Len(t))
ASSUME BehindAssumption ==
  \A h \in Behind : h \in Seq(Byte) /\ h # <<>> /\ h[Len(h)] = NUL
ASSUME MemoryAssumption == MaxComponents \in Nat

VARIABLES
  string, encoding, behind, separator, separatorEncoding, \* the arguments
  pc,         \* "call", "split" in the loop, "last" behind it, "done"
  i,
  lastLengthMatch,
  capacity,   \* how many components the array has room for ...
  components, \* ... and those it has
  ret,        \* "none", "array", "NULL"; "abort" when an assertion has failed
  starved     \* whether an allocation has failed

arguments == <<string, encoding, behind, separator, separatorEncoding>>
vars == <<arguments, pc, i, lastLengthMatch, capacity, components, ret, starved>>

Init ==
  /\ string \in Texts /\ separator \in Separators /\ behind \in Behind
  /\ encoding \in Encodings /\ WellFormed(encoding, string, Len(string))
  /\ separatorEncoding \in Encodings
  /\ WellFormed(separatorEncoding, separator, Len(separator))
  /\ pc = "call" /\ i = 0 /\ lastLengthMatch = 0
  /\ capacity = 0 /\ components = <<>> /\ ret = "none" /\ starved = FALSE

Return(r, hungry) ==
  /\ pc' = "done" /\ ret' = r
  /\ starved' = (starved \/ hungry)
  /\ UNCHANGED <<arguments, i, lastLengthMatch, capacity, components>>

(* strncmp of the bytes after index j with the separator.                  *)
Matches(j) ==
  LET buffer == string \o behind IN
  \A k \in 1 .. Len(separator) :
    j + k <= Len(buffer) /\ buffer[j + k] = separator[k]

Refused ==
  \/ encoding # separatorEncoding /\ ~WellFormed(encoding, separator, Len(separator))
  \/ Len(separator) >= Len(string)

(* The checks, the count, which overlapping matches make too large, and    *)
(* the array.                                                              *)
Call ==
  /\ pc = "call"
  /\ \/ Refused /\ Return("NULL", FALSE)
     \/ ~Refused /\ Return("NULL", TRUE)
     \/ /\ ~Refused
        /\ capacity' = Cardinality({j \in 0 .. Len(string) - 1 : Matches(j)})
        /\ pc' = "split"
        /\ UNCHANGED <<arguments, i, lastLengthMatch, components, ret, starved>>

PieceOneShort(j, k) == SubSeq(string, j + 1, k - 1)

(* The bytes of the string from one index to another.                      *)
Piece(j, k) == SubSeq(string, j + 1, k)

(* EFStringCreateWithCBuffer of a piece, which answers NULL when the piece *)
(* does not comply or memory is short ...                                  *)
NoComponent(c, hungry) ==
  \/ ~WellFormed(encoding, c, Len(c)) /\ hungry = FALSE
  \/ WellFormed(encoding, c, Len(c)) /\ hungry = TRUE

(* ... and EFArrayAppendValue, which reallocates a full array.             *)
Full == Len(components) >= capacity

AppendComponent(c) ==
  /\ WellFormed(encoding, c, Len(c))
  /\ Len(components) < MaxComponents
  /\ components' = Append(components, c)
  /\ capacity' = IF Full THEN capacity + 5 ELSE capacity

SkipStays ==
  /\ pc = "split" /\ i < Len(string)
  /\ ~Matches(i)
  /\ UNCHANGED vars

Skip ==
  /\ pc = "split" /\ i < Len(string)
  /\ ~Matches(i)
  /\ i' = i + 1
  /\ UNCHANGED <<arguments, pc, lastLengthMatch, capacity, components, ret, starved>>

SplitOverlapping ==
  /\ pc = "split" /\ i < Len(string)
  /\ Matches(i)
  /\ AppendComponent(Piece(lastLengthMatch, i))
  /\ lastLengthMatch' = i + Len(separator)
  /\ i' = i + 1
  /\ UNCHANGED <<arguments, pc, ret, starved>>

SplitKeepsSeparator ==
  /\ pc = "split" /\ i < Len(string)
  /\ Matches(i)
  /\ AppendComponent(Piece(lastLengthMatch, i))
  /\ lastLengthMatch' = i
  /\ i' = i + Len(separator)
  /\ UNCHANGED <<arguments, pc, ret, starved>>

(* A match: the component before it.  An empty separator always matches,   *)
(* and then i stays where it is.                                           *)
Split ==
  /\ pc = "split" /\ i < Len(string)
  /\ Matches(i)
  /\ AppendComponent(Piece(lastLengthMatch, i))
  /\ lastLengthMatch' = i + Len(separator)
  /\ i' = i + Len(separator)
  /\ UNCHANGED <<arguments, pc, ret, starved>>

SplitFails ==
  /\ pc = "split" /\ i < Len(string)
  /\ Matches(i)
  /\ \/ \E hungry \in BOOLEAN :
          NoComponent(Piece(lastLengthMatch, i), hungry) /\ Return("NULL", hungry)
     \/ Full /\ Return("NULL", TRUE)

LoopEnds ==
  /\ pc = "split" /\ i >= Len(string)
  /\ pc' = "last"
  /\ UNCHANGED <<arguments, i, lastLengthMatch, capacity, components, ret, starved>>

Rest == Piece(lastLengthMatch, Len(string))

(* What is left is the last component, unless nothing is.  A component     *)
(* that cannot be made is released all the same, which an assertion of     *)
(* EFRelease does not survive.                                             *)
LastComponent ==
  /\ pc = "last"
  /\ \/ Len(string) - lastLengthMatch <= 0 /\ Return("array", FALSE)
     \/ /\ Len(string) - lastLengthMatch > 0
        /\ \/ \E hungry \in BOOLEAN : NoComponent(Rest, hungry) /\ Return("abort", hungry)
           \/ Full /\ Return("NULL", TRUE)
           \/ /\ AppendComponent(Rest)
              /\ pc' = "done" /\ ret' = "array"
              /\ UNCHANGED <<arguments, i, lastLengthMatch, starved>>

Next == Call \/ Skip \/ Split \/ SplitFails \/ LoopEnds \/ LastComponent

Fairness == WF_vars(Next)

Spec == Init /\ [][Next]_vars /\ Fairness
-----------------------------------------------------------------------------
(* A component never begins behind where the loop stands, so that its      *)
(* length is not negative, and the array has room for what is in it.       *)
TypeOK ==
  /\ pc \in {"call", "split", "last", "done"}
  /\ i \in 0 .. Len(string) + Len(separator)
  /\ lastLengthMatch \in 0 .. i
  /\ capacity \in Nat /\ Len(components) <= capacity
  /\ components \in Seq(Seq(Byte))
  /\ ret \in {"none", "array", "NULL", "abort"}
  /\ starved \in BOOLEAN

(* The separator occurs in a sequence of bytes after index j.              *)
OccursAt(t, j) ==
  j + Len(separator) <= Len(t) /\ SubSeq(t, j + 1, j + Len(separator)) = separator

(* All components but the last, and the last too when nothing was left,    *)
(* end where the separator first occurs after their beginning.             *)
IsSplit(cs, t) ==
  \E n \in {Len(cs) - 1, Len(cs)} \cap Nat :
    LET ended == [k \in 1 .. n |-> cs[k] \o separator]
        rest  == IF n = Len(cs) THEN <<>> ELSE cs[Len(cs)]
    IN /\ t = FlattenSeq(ended) \o rest
       /\ n < Len(cs) => rest # <<>>
       /\ \A j \in 0 .. Len(rest) : ~OccursAt(rest, j)
       /\ \A k \in 1 .. n : \A j \in 0 .. Len(cs[k]) - 1 : ~OccursAt(ended[k], j)

(* The components, joined with the separator, are the string, and no       *)
(* occurrence of the separator is in them or was taken too late, when the  *)
(* buffer ends where the string does.                                      *)
SplitIsRight ==
  ret = "array" /\ behind[1] = NUL => IsSplit(components, string)

(* A well-formed string falls into well-formed components, whatever the    *)
(* separator and the buffer: only the checks and a lack of memory refuse.  *)
OnlyMemoryFails ==
  /\ ret = "NULL" => Refused \/ starved
  /\ ret = "abort" => starved

(* Every call returns; for an empty separator, which makes no progress,    *)
(* because memory ends.                                                    *)
Returns == <>(ret # "none")
=============================================================================
