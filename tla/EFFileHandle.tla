---------------------------- MODULE EFFileHandle ----------------------------
(***************************************************************************)
(* The virtual file of an EFFileHandle: a page group, a position and an    *)
(* end.  A call that grows the group or zeroes it takes one step for each  *)
(* iteration of its loop; the page group is the flat store that            *)
(* EFPageGroup implements.  Files of the operating system are passed       *)
(* through to it and are not modelled.                                     *)
(*                                                                         *)
(* An EFIndex is a number of -(MaxIndex + 1) .. MaxIndex.                  *)
(***************************************************************************)
EXTENDS Integers

CONSTANTS
  Byte, Zero,
  PageLength,       \* __EFPageGetPageLength
  MaxIndex,
  MaxSize,          \* no memory for a group longer than this
  Offsets, Lengths, \* the arguments of calls (bounds)
  Buffers,          \* the buffers of callers (a bound) ...
  BufferSize        \* ... and how many bytes each has

ASSUME ByteAssumption == Zero \in Byte
ASSUME SizeAssumption ==
  /\ PageLength \in Nat \ {0}
  /\ MaxIndex \in Nat /\ MaxSize \in Nat /\ PageLength <= MaxSize
  /\ MaxSize + BufferSize <= MaxIndex
ASSUME ArgumentsAssumption ==
  /\ Offsets \subseteq -(MaxIndex + 1) .. MaxIndex
  /\ Lengths \subseteq -(MaxIndex + 1) .. MaxIndex
  /\ BufferSize \in Nat /\ Buffers \subseteq [0 .. BufferSize - 1 -> Byte]

VARIABLES
  size, store, buffer, moved, \* the page group, as in EFByteStore
  offset, endOffset,          \* the fields of vfd
  pc,                         \* "idle", or the loop a call is in
  from, to, length, data,     \* its locals, at rest outside of it
  ret,                        \* what the latest call returned
  lastWritten                 \* ghost: one past the last byte ever written

group  == <<size, store, buffer, moved>>
vfd    == <<offset, endOffset>>
locals == <<from, to, length, data>>
vars   == <<size, store, buffer, moved, offset, endOffset, pc, from, to, length,
            data, ret, lastWritten>>

Group == INSTANCE EFByteStore WITH ret <- moved

Smaller(m, n) == IF m < n THEN m ELSE n
Larger(m, n)  == IF m > n THEN m ELSE n

(* What becomes of a sum the code does not check.                          *)
Wrap(n) == ((n + MaxIndex + 1) % (2 * (MaxIndex + 1))) - (MaxIndex + 1)

zeros == [i \in 0 .. PageLength - 1 |-> Zero]

(* EFFileHandleCreate: a group of one page.                                *)
Init ==
  /\ size = PageLength
  /\ store = [x \in 0 .. PageLength - 1 |-> Zero]
  /\ buffer \in Buffers
  /\ moved = 0
  /\ offset = 0 /\ endOffset = 0
  /\ pc = "idle"
  /\ from = 0 /\ to = 0 /\ length = 0 /\ data = zeros
  /\ ret = 0
  /\ lastWritten = 0

Return(r) ==
  /\ pc' = "idle"
  /\ ret' = r
  /\ from' = 0 /\ to' = 0 /\ length' = 0 /\ data' = zeros
-----------------------------------------------------------------------------
EFFileHandleRead(n, b) ==
  /\ pc = "idle"
  /\ Group!Read(offset, n, b)
  /\ offset' = IF moved' > 0 THEN offset + moved' ELSE offset
  /\ ret' = moved'
  /\ UNCHANGED <<pc, locals, endOffset, lastWritten>>

WriteGrowsToStart(n, b) ==
  /\ pc = "idle"
  /\ pc' = "write"
  /\ from' = offset
  /\ to' = offset
  /\ length' = n
  /\ data' = b
  /\ UNCHANGED <<group, vfd, ret, lastWritten>>

(* EFFileHandleWrite, up to its loop.                                      *)
EFFileHandleWrite(n, b) ==
  /\ pc = "idle"
  /\ pc' = "write"
  /\ from' = offset
  /\ to' = Wrap(offset + n)
  /\ length' = n
  /\ data' = b
  /\ UNCHANGED <<group, vfd, ret, lastWritten>>

(* One iteration of either growing loop.                                   *)
Extend ==
  /\ pc \in {"write", "truncate"}
  /\ to > size
  /\ size + PageLength <= MaxSize
  /\ Group!Grow
  /\ UNCHANGED <<pc, vfd, locals, ret, lastWritten>>

(* EFPageGroupExtend may fail at any time, and has to when there is no     *)
(* memory.  The pages the loop has added stay.                             *)
ExtendFails ==
  /\ pc \in {"write", "truncate"}
  /\ to > size
  /\ Return(-1)
  /\ UNCHANGED <<group, vfd, lastWritten>>

WriteMovesEnd ==
  /\ pc = "write"
  /\ to <= size
  /\ Group!Write(from, length, data)
  /\ offset' = from + moved'
  /\ endOffset' = offset'
  /\ lastWritten' = IF moved' > 0 THEN Larger(lastWritten, offset') ELSE lastWritten
  /\ Return(moved')

WriteEnds ==
  /\ pc = "write"
  /\ to <= size
  /\ Group!Write(from, length, data)
  /\ offset' = from + moved'
  /\ endOffset' = Larger(endOffset, offset')
  /\ lastWritten' = IF moved' > 0 THEN Larger(lastWritten, offset') ELSE lastWritten
  /\ Return(moved')

(* EFFileHandleTruncate, up to its first loop.                             *)
EFFileHandleTruncate(n) ==
  /\ pc = "idle"
  /\ IF n < 0
     THEN Return(-1)
     ELSE pc' = "truncate" /\ to' = n /\ UNCHANGED <<from, length, data, ret>>
  /\ UNCHANGED <<group, vfd, lastWritten>>

(* The group holds the new length: what is there up to the end is zeroed.  *)
(* The end is not moved, and -1 is the only answer.                        *)
TruncateEnds ==
  /\ pc = "truncate"
  /\ to <= size
  /\ IF to < endOffset
     THEN pc' = "zero" /\ from' = to /\ to' = endOffset /\ UNCHANGED <<length, data, ret>>
     ELSE Return(-1)
  /\ UNCHANGED <<group, vfd, lastWritten>>

ZeroSameChunk ==
  /\ pc = "zero"
  /\ from < to
  /\ LET chunk == Smaller(to - from, PageLength)
     IN Group!Write(from, chunk, zeros)
  /\ UNCHANGED <<pc, vfd, locals, ret, lastWritten>>

ZeroChunk ==
  /\ pc = "zero"
  /\ from < to
  /\ LET chunk == Smaller(to - from, PageLength)
     IN Group!Write(from, chunk, zeros) /\ from' = from + chunk
  /\ UNCHANGED <<pc, vfd, to, length, data, ret, lastWritten>>

ZeroEnds ==
  /\ pc = "zero"
  /\ from >= to
  /\ Return(-1)
  /\ UNCHANGED <<group, vfd, lastWritten>>

SeekBeforeStart(base, o) ==
  /\ pc = "idle"
  /\ LET newOffset == base + o
         refused   == newOffset > MaxIndex
     IN /\ offset' = IF refused THEN offset ELSE newOffset
        /\ ret' = IF refused THEN -1 ELSE newOffset
  /\ UNCHANGED <<group, endOffset, pc, locals, lastWritten>>

(* EFFileHandleSeek from the beginning, the position or the end: an        *)
(* overflow and a negative position are refused.                           *)
EFFileHandleSeek(base, o) ==
  /\ pc = "idle"
  /\ LET newOffset == base + o
         refused   == newOffset > MaxIndex \/ newOffset < 0
     IN /\ offset' = IF refused THEN offset ELSE newOffset
        /\ ret' = IF refused THEN -1 ELSE newOffset
  /\ UNCHANGED <<group, endOffset, pc, locals, lastWritten>>
-----------------------------------------------------------------------------
Call ==
  \/ \E n \in Lengths, b \in Buffers :
       /\ n <= BufferSize
       /\ EFFileHandleRead(n, b) \/ EFFileHandleWrite(n, b)
  \/ \E n \in Lengths \cup Offsets : EFFileHandleTruncate(n)
  \/ \E o \in Offsets, base \in {0, offset, endOffset} : EFFileHandleSeek(base, o)

Step == Extend \/ ExtendFails \/ WriteEnds \/ TruncateEnds \/ ZeroChunk \/ ZeroEnds

Next == Call \/ Step

Spec == Init /\ [][Next]_vars

(* The loops of a call run on their own.                                   *)
FairSpec == Spec /\ WF_vars(Step)
-----------------------------------------------------------------------------
TypeOK ==
  /\ size \in Nat /\ size <= MaxSize
  /\ store \in [0 .. size - 1 -> Byte]
  /\ moved \in 0 .. MaxSize
  /\ offset \in 0 .. MaxIndex /\ endOffset \in 0 .. MaxIndex
  /\ pc \in {"idle", "write", "truncate", "zero"}
  /\ from \in 0 .. MaxIndex
  /\ to \in -(MaxIndex + 1) .. MaxIndex
  /\ length \in -(MaxIndex + 1) .. BufferSize
  /\ data \in Buffers \cup {zeros}
  /\ ret \in -1 .. MaxIndex
  /\ lastWritten \in 0 .. MaxSize

(* A hole left by a seek reads as zeros, whatever writes, truncations and  *)
(* failures came before: nothing is left behind the end.                   *)
TailIsZero == \A x \in endOffset .. size - 1 : store[x] = Zero

(* Nothing that was written is behind the end, or out of reach of a read.  *)
WrittenIsInside == lastWritten <= endOffset /\ lastWritten <= size

(* EFFileHandle.c:46: endOffset is the "last offset written to".           *)
EndIsLastWritten == endOffset = lastWritten

(* Every call returns.                                                     *)
Returns == pc # "idle" ~> pc = "idle"

(* A truncation that zeroes happens when its loop begins.                  *)
File == INSTANCE EFFile WITH
  content <- [x \in 0 .. MaxIndex |->
                IF x >= size \/ (pc = "zero" /\ x \in from .. to - 1) THEN Zero
                ELSE store[x]],
  position <- offset,
  end <- endOffset,
  buffer <- IF pc = "zero" THEN zeros ELSE buffer,
  ret <- IF pc = "zero" THEN -1 ELSE ret

(* Reads, writes, truncations and seeks are those of one file, each at     *)
(* once: no write is short, no failure changes a byte, the position or the *)
(* end, no read stops before the last byte that is not zero.               *)
ImplementsFile == File!Spec
=============================================================================
