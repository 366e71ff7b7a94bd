------------------------- MODULE EFFileHandleProofs -------------------------
(***************************************************************************)
(* Proofs about EFFileHandle for any page length, any width of EFIndex,    *)
(* any amount of memory, any bytes and any arguments of the calls.         *)
(***************************************************************************)
EXTENDS EFFileHandle, TLAPS

(* What a call under way knows.                                            *)
Writing ==
  pc = "write" =>
    /\ from = offset /\ to = Wrap(offset + length)
    /\ length \in Lengths /\ length <= BufferSize
    /\ data \in Buffers

Truncating == pc = "truncate" => to \in Lengths \cup Offsets /\ to >= 0

(* The zeroing loop has chunks to write, or its last one is in the buffer. *)
Zeroing == pc = "zero" => to = endOffset /\ (from < to \/ buffer = zeros)

IInv ==
  /\ TypeOK
  /\ TailIsZero
  /\ WrittenIsInside
  /\ Writing
  /\ Truncating
  /\ Zeroing
-----------------------------------------------------------------------------
LEMMA Constants ==
  /\ PageLength \in Nat \ {0} /\ MaxIndex \in Nat /\ MaxSize \in Nat
  /\ BufferSize \in Nat /\ MaxSize + BufferSize <= MaxIndex /\ PageLength <= MaxSize
  /\ Zero \in Byte
  /\ Offsets \subseteq Int /\ Lengths \subseteq Int
  /\ \A n \in Offsets \cup Lengths : n \in -(MaxIndex + 1) .. MaxIndex
  /\ \A b \in Buffers : b \in [0 .. BufferSize - 1 -> Byte]
  /\ zeros \in [0 .. PageLength - 1 -> Byte]
  /\ \A i \in 0 .. PageLength - 1 : zeros[i] = Zero
<1>1. Offsets \subseteq Int /\ Lengths \subseteq Int
  BY SizeAssumption, ArgumentsAssumption
<1>. QED
  BY <1>1, ByteAssumption, SizeAssumption, ArgumentsAssumption DEF zeros

(* A sum that wraps is an EFIndex, and one that need not is not changed.   *)
LEMMA WrapRange ==
  ASSUME NEW n \in Int PROVE Wrap(n) \in -(MaxIndex + 1) .. MaxIndex
BY SizeAssumption, SMT DEF Wrap

LEMMA WrapSame ==
  ASSUME NEW n \in -(MaxIndex + 1) .. MaxIndex PROVE Wrap(n) = n
BY SizeAssumption, SMT DEF Wrap

(* How much a transfer of the group moves.                                 *)
LEMMA AvailableFacts ==
  ASSUME TypeOK, NEW o \in Nat, NEW n \in Int
  PROVE  \E k \in Nat :
           /\ k = Group!Available(o, n)
           /\ k <= size
           /\ k > 0 => o + k <= size /\ k <= n
           /\ n <= 0 \/ o >= size => k = 0
           /\ n >= 0 /\ o + n <= size => k = n
           /\ k < n => o + k >= size
<1>. DEFINE k == Group!Available(o, n)
<1>1. /\ k \in Nat
      /\ k <= size
      /\ k > 0 => o + k <= size /\ k <= n
      /\ n <= 0 \/ o >= size => k = 0
      /\ n >= 0 /\ o + n <= size => k = n
      /\ k < n => o + k >= size
  BY DEF TypeOK, Group!Available
<1>. HIDE DEF k
<1>. QED
  BY <1>1 DEF k

(* What a write leaves in the store.                                       *)
LEMMA WriteFacts ==
  ASSUME TypeOK, NEW o \in Nat, NEW n, NEW d, Group!Write(o, n, d),
         NEW k \in Nat, k = Group!Available(o, n), \A i \in 0 .. k - 1 : d[i] \in Byte
  PROVE  /\ size' = size
         /\ moved' = k
         /\ buffer' = d
         /\ store' \in [0 .. size - 1 -> Byte]
         /\ \A x \in 0 .. size - 1 :
              store'[x] = IF x \in o .. o + k - 1 THEN d[x - o] ELSE store[x]
<1>1. moved' = k
  BY DEF Group!Write
<1>2. /\ size' = size
      /\ buffer' = d
      /\ store' = [x \in DOMAIN store |->
                     IF x \in o .. o + k - 1 THEN d[x - o] ELSE store[x]]
  BY <1>1 DEF Group!Write
<1>3. DOMAIN store = 0 .. size - 1 /\ size \in Nat /\ store \in [0 .. size - 1 -> Byte]
  BY DEF TypeOK
<1>4. ASSUME NEW x \in 0 .. size - 1, x \in o .. o + k - 1
      PROVE  d[x - o] \in Byte
  <2>1. x - o \in 0 .. k - 1
    BY <1>3, <1>4
  <2>. QED
    BY <2>1
<1>. QED
  BY <1>1, <1>2, <1>3, <1>4
-----------------------------------------------------------------------------
LEMMA InitIInv == Init => IInv
<1>. SUFFICES ASSUME Init PROVE IInv
  OBVIOUS
<1>. USE Constants DEF Init
<1>1. TypeOK
  BY DEF TypeOK
<1>2. TailIsZero
  BY DEF TailIsZero
<1>. QED
  BY <1>1, <1>2 DEF IInv, WrittenIsInside, Writing, Truncating, Zeroing

LEMMA ReadIInv ==
  ASSUME IInv, NEW n \in Lengths, NEW b \in Buffers, EFFileHandleRead(n, b)
  PROVE  IInv'
<1>. USE Constants
<1>1. TypeOK /\ pc = "idle" /\ offset \in Nat /\ n \in Int
  BY DEF IInv, EFFileHandleRead, TypeOK
<1>2. PICK k \in Nat : /\ k = Group!Available(offset, n)
                       /\ k <= size
                       /\ k > 0 => offset + k <= size
  BY <1>1, AvailableFacts
<1>3. /\ moved' = k /\ UNCHANGED <<size, store>>
      /\ offset' = IF k > 0 THEN offset + k ELSE offset
      /\ ret' = k
  BY <1>2 DEF EFFileHandleRead, Group!Read
<1>4. TypeOK'
  BY <1>1, <1>2, <1>3 DEF TypeOK, EFFileHandleRead, locals
<1>. QED
  BY <1>1, <1>3, <1>4 DEF IInv, EFFileHandleRead, locals, TailIsZero, WrittenIsInside,
                          Writing, Truncating, Zeroing

LEMMA WriteStartIInv ==
  ASSUME IInv, NEW n \in Lengths, n <= BufferSize, NEW b \in Buffers,
         EFFileHandleWrite(n, b)
  PROVE  IInv'
<1>. USE Constants DEF EFFileHandleWrite, group, vfd
<1>1. n \in -(MaxIndex + 1) .. BufferSize /\ offset + n \in Int
  BY DEF IInv, TypeOK
<1>2. to' \in -(MaxIndex + 1) .. MaxIndex
  BY <1>1, WrapRange
<1>3. TypeOK'
  BY <1>1, <1>2 DEF IInv, TypeOK
<1>. QED
  BY <1>3 DEF IInv, TailIsZero, WrittenIsInside, Writing, Truncating, Zeroing, Wrap

LEMMA ExtendIInv == ASSUME IInv, Extend PROVE IInv'
<1>. USE Constants DEF vfd, locals
<1>1. TypeOK /\ pc # "zero"
  BY DEF IInv, Extend
<1>2. /\ size' = size + PageLength /\ size' <= MaxSize
      /\ store' = [x \in 0 .. size' - 1 |-> IF x \in DOMAIN store THEN store[x] ELSE Zero]
      /\ UNCHANGED <<buffer, moved, pc, offset, endOffset, from, to, length, data, ret,
                     lastWritten>>
  BY DEF Extend, Group!Grow
<1>3. store' \in [0 .. size' - 1 -> Byte]
  BY <1>1, <1>2 DEF TypeOK
<1>4. TypeOK'
  BY <1>1, <1>2, <1>3 DEF TypeOK
<1>5. TailIsZero'
  BY <1>1, <1>2 DEF IInv, TypeOK, TailIsZero
<1>6. WrittenIsInside'
  BY <1>1, <1>2 DEF IInv, TypeOK, WrittenIsInside
<1>. QED
  BY <1>1, <1>2, <1>4, <1>5, <1>6 DEF IInv, Writing, Truncating, Zeroing, Wrap

LEMMA ExtendFailsIInv == ASSUME IInv, ExtendFails PROVE IInv'
BY Constants DEF IInv, ExtendFails, Return, group, vfd, TypeOK, TailIsZero, WrittenIsInside,
                 Writing, Truncating, Zeroing

(* The end of a write, for the invariant and for the refinement.           *)
LEMMA WriteEndsFacts ==
  ASSUME IInv, WriteEnds
  PROVE  \E k \in Nat :
           /\ k = Group!Available(offset, length)
           /\ k <= size /\ (k > 0 => offset + k <= size)
           /\ UNCHANGED size /\ moved' = k /\ buffer' = data
           /\ store' \in [0 .. size - 1 -> Byte]
           /\ \A x \in 0 .. size - 1 :
                store'[x] = IF x \in offset .. offset + k - 1
                            THEN data[x - offset] ELSE store[x]
           /\ offset' = offset + k /\ offset + k <= MaxIndex
<1>1. /\ TypeOK /\ from = offset /\ offset \in Nat /\ data \in [0 .. BufferSize - 1 -> Byte]
      /\ length \in Int /\ length <= BufferSize /\ BufferSize \in Nat
  BY Constants DEF IInv, TypeOK, Writing, WriteEnds
<1>2. Group!Write(offset, length, data) /\ offset' = offset + moved'
  BY <1>1 DEF WriteEnds
<1>3. PICK k \in Nat : /\ k = Group!Available(offset, length)
                       /\ k <= size
                       /\ k > 0 => offset + k <= size /\ k <= length
  BY <1>1, AvailableFacts
<1>4. /\ UNCHANGED size
      /\ moved' = k
      /\ buffer' = data
      /\ store' \in [0 .. size - 1 -> Byte]
      /\ \A x \in 0 .. size - 1 :
           store'[x] = IF x \in offset .. offset + k - 1
                       THEN data[x - offset] ELSE store[x]
  <2>1. ASSUME NEW i \in 0 .. k - 1 PROVE data[i] \in Byte
    BY <1>1, <1>3
  <2>. QED
    BY <1>1, <1>2, <1>3, <2>1, WriteFacts
<1>5. offset' = offset + k /\ offset + k <= MaxIndex
  BY <1>1, <1>2, <1>3, <1>4, Constants DEF TypeOK
<1>. QED
  BY <1>1, <1>3, <1>4, <1>5

LEMMA WriteEndsIInv == ASSUME IInv, WriteEnds PROVE IInv'
<1>. USE Constants
<1>1. TypeOK
  BY DEF IInv
<1>2. PICK k \in Nat :
        /\ k <= size /\ (k > 0 => offset + k <= size)
        /\ UNCHANGED size /\ moved' = k
        /\ store' \in [0 .. size - 1 -> Byte]
        /\ \A x \in 0 .. size - 1 :
             store'[x] = IF x \in offset .. offset + k - 1
                         THEN data[x - offset] ELSE store[x]
        /\ offset' = offset + k /\ offset + k <= MaxIndex
  BY WriteEndsFacts
<1>3. /\ endOffset' = Larger(endOffset, offset + k)
      /\ lastWritten' = IF k > 0 THEN Larger(lastWritten, offset + k) ELSE lastWritten
      /\ pc' = "idle" /\ ret' = k
      /\ from' = 0 /\ to' = 0 /\ length' = 0 /\ data' = zeros
  BY <1>2 DEF WriteEnds, Return
<1>4. TypeOK'
  BY <1>1, <1>2, <1>3 DEF TypeOK, Larger
<1>5. TailIsZero'
  BY <1>1, <1>2, <1>3 DEF IInv, TypeOK, TailIsZero, Larger
<1>6. WrittenIsInside'
  BY <1>1, <1>2, <1>3 DEF IInv, TypeOK, WrittenIsInside, Larger
<1>. QED
  BY <1>3, <1>4, <1>5, <1>6 DEF IInv, Writing, Truncating, Zeroing
-----------------------------------------------------------------------------
LEMMA TruncateStartIInv ==
  ASSUME IInv, NEW n \in Lengths \cup Offsets, EFFileHandleTruncate(n)
  PROVE  IInv'
BY Constants DEF EFFileHandleTruncate, IInv, Return, group, vfd, TypeOK, TailIsZero,
                 WrittenIsInside, Writing, Truncating, Zeroing

LEMMA TruncateEndsIInv == ASSUME IInv, TruncateEnds PROVE IInv'
BY Constants DEF TruncateEnds, IInv, Return, group, vfd, TypeOK, TailIsZero,
                 WrittenIsInside, Writing, Truncating, Zeroing

(* A chunk of the zeroing loop.                                            *)
LEMMA ZeroChunkFacts ==
  ASSUME IInv, ZeroChunk
  PROVE  \E chunk \in Nat, k \in Nat :
           /\ chunk > 0
           /\ from' = from + chunk /\ from + chunk <= to
           /\ UNCHANGED size /\ moved' = k /\ k <= size /\ buffer' = zeros
           /\ store' \in [0 .. size - 1 -> Byte]
           /\ \A x \in 0 .. size - 1 :
                store'[x] = IF x \in from .. from + chunk - 1 THEN Zero ELSE store[x]
<1>1. TypeOK /\ from \in Nat /\ to \in Nat /\ from < to /\ size \in Nat
  BY Constants DEF IInv, ZeroChunk, Zeroing, TypeOK
<1>2. PICK chunk \in Int : /\ chunk \in Nat /\ chunk = Smaller(to - from, PageLength)
                           /\ chunk > 0 /\ chunk <= PageLength /\ from + chunk <= to
  <2>. DEFINE c == Smaller(to - from, PageLength)
  <2>1. c \in Nat /\ c > 0 /\ c <= PageLength /\ from + c <= to
    BY <1>1, Constants DEF Smaller
  <2>. HIDE DEF c
  <2>. QED
    BY <2>1 DEF c
<1>3. Group!Write(from, chunk, zeros) /\ from' = from + chunk
  BY <1>2 DEF ZeroChunk
<1>4. PICK k \in Nat : /\ k = Group!Available(from, chunk)
                       /\ k <= size
                       /\ k > 0 => k <= chunk
                       /\ k < chunk => from + k >= size
  BY <1>1, AvailableFacts
<1>5. /\ size' = size /\ moved' = k /\ buffer' = zeros
      /\ store' \in [0 .. size - 1 -> Byte]
      /\ \A x \in 0 .. size - 1 :
           store'[x] = IF x \in from .. from + k - 1 THEN zeros[x - from] ELSE store[x]
  <2>1. ASSUME NEW i \in 0 .. k - 1 PROVE zeros[i] \in Byte
    <3>1. i \in 0 .. PageLength - 1
      BY <1>2, <1>4, Constants
    <3>. QED
      BY <3>1, Constants
  <2>. QED
    BY <1>1, <1>3, <1>4, <2>1, WriteFacts
<1>6. ASSUME NEW x \in 0 .. size - 1
      PROVE  store'[x] = IF x \in from .. from + chunk - 1 THEN Zero ELSE store[x]
  <2>1. x \in from .. from + k - 1 <=> x \in from .. from + chunk - 1
    BY <1>1, <1>4
  <2>2. x \in from .. from + chunk - 1 => x - from \in 0 .. PageLength - 1
    BY <1>1, <1>2, Constants
  <2>. QED
    BY <1>5, <2>1, <2>2, Constants
<1>. QED
  BY <1>2, <1>3, <1>4, <1>5, <1>6

LEMMA ZeroChunkIInv == ASSUME IInv, ZeroChunk PROVE IInv'
<1>. USE Constants
<1>1. TypeOK /\ pc = "zero"
  BY DEF IInv, ZeroChunk
<1>2. UNCHANGED <<pc, offset, endOffset, to, length, data, ret, lastWritten>>
  BY DEF ZeroChunk, vfd
<1>3. PICK chunk \in Nat, k \in Nat :
        /\ chunk > 0
        /\ from' = from + chunk /\ from + chunk <= to
        /\ UNCHANGED size /\ moved' = k /\ k <= size /\ buffer' = zeros
        /\ store' \in [0 .. size - 1 -> Byte]
        /\ \A x \in 0 .. size - 1 :
             store'[x] = IF x \in from .. from + chunk - 1 THEN Zero ELSE store[x]
  BY ZeroChunkFacts
<1>4. TypeOK'
  BY <1>1, <1>2, <1>3 DEF TypeOK
<1>5. TailIsZero'
  BY <1>1, <1>2, <1>3 DEF IInv, TypeOK, TailIsZero
<1>. QED
  BY <1>1, <1>2, <1>3, <1>4, <1>5
     DEF IInv, WrittenIsInside, Writing, Truncating, Zeroing, zeros

LEMMA ZeroEndsIInv == ASSUME IInv, ZeroEnds PROVE IInv'
BY Constants DEF ZeroEnds, IInv, Return, group, vfd, TypeOK, TailIsZero, WrittenIsInside,
                 Writing, Truncating, Zeroing

LEMMA SeekIInv ==
  ASSUME IInv, NEW o \in Offsets, NEW base \in {0, offset, endOffset},
         EFFileHandleSeek(base, o)
  PROVE  IInv'
<1>. USE Constants DEF EFFileHandleSeek, group, locals
<1>1. offset' \in 0 .. MaxIndex /\ ret' \in -1 .. MaxIndex
  BY DEF IInv, TypeOK
<1>2. TypeOK'
  BY <1>1 DEF IInv, TypeOK
<1>. QED
  BY <1>2 DEF IInv, TailIsZero, WrittenIsInside, Writing, Truncating, Zeroing, zeros

LEMMA NextIInv == IInv /\ [Next]_vars => IInv'
<1>. SUFFICES ASSUME IInv, [Next]_vars PROVE IInv'
  OBVIOUS
<1>1. CASE Call
  BY <1>1, ReadIInv, WriteStartIInv, TruncateStartIInv, SeekIInv DEF Call
<1>2. CASE Step
  BY <1>2, ExtendIInv, ExtendFailsIInv, WriteEndsIInv, TruncateEndsIInv, ZeroChunkIInv,
     ZeroEndsIInv DEF Step
<1>3. CASE UNCHANGED vars
  BY <1>3 DEF vars, IInv, TypeOK, TailIsZero, WrittenIsInside, Writing, Truncating,
              Zeroing, Wrap, zeros
<1>. QED
  BY <1>1, <1>2, <1>3 DEF Next

LEMMA SpecIInv == Spec => []IInv
BY InitIInv, NextIInv, PTL DEF Spec

(* Positions, ends and lengths are numbers of an EFIndex however calls,    *)
(* their failures and sums that overflow follow each other.                *)
THEOREM TypeCorrect == Spec => []TypeOK
<1>1. IInv => TypeOK
  BY DEF IInv
<1>. QED
  BY <1>1, SpecIInv, PTL

(* What is behind the end of a virtual file is zero.                       *)
THEOREM HolesAreZero == Spec => []TailIsZero
<1>1. IInv => TailIsZero
  BY DEF IInv
<1>. QED
  BY <1>1, SpecIInv, PTL

(* What was written is before the end of a virtual file.                   *)
THEOREM NothingIsLost == Spec => []WrittenIsInside
<1>1. IInv => WrittenIsInside
  BY DEF IInv
<1>. QED
  BY <1>1, SpecIInv, PTL
-----------------------------------------------------------------------------
(* The file that a handle stands for.                                      *)
Content == [x \in 0 .. MaxIndex |->
              IF x >= size \/ (pc = "zero" /\ x \in from .. to - 1) THEN Zero
              ELSE store[x]]
Buffer  == IF pc = "zero" THEN zeros ELSE buffer
Ret     == IF pc = "zero" THEN -1 ELSE ret

LEMMA InitImplements == Init => File!Init
<1>. SUFFICES ASSUME Init PROVE File!Init
  OBVIOUS
<1>1. Content = [x \in 0 .. MaxIndex |-> Zero]
  BY Constants DEF Init, Content
<1>. QED
  BY <1>1 DEF Init, File!Init, Content

(* A step that changes nothing a client can see is a stutter of the file,  *)
(* and one that changes only the answer to -1 a failure.                   *)
LEMMA SameFile ==
  ASSUME Content' = Content, Buffer' = Buffer, Ret' = Ret, UNCHANGED vfd
  PROVE  UNCHANGED File!vars
BY DEF File!vars, Content, Buffer, Ret, vfd

LEMMA FailedFile ==
  ASSUME Content' = Content, Buffer' = Buffer, Ret' = -1, UNCHANGED vfd
  PROVE  File!Fail
BY DEF File!Fail, Content, Buffer, Ret, vfd

LEMMA ReadImplements ==
  ASSUME IInv, NEW n \in Lengths, NEW b \in Buffers, EFFileHandleRead(n, b)
  PROVE  File!Read(n, b)
<1>1. /\ TypeOK /\ pc = "idle" /\ offset \in Nat /\ n \in Int /\ size \in Nat
      /\ MaxIndex \in Nat /\ size <= MaxIndex
  BY Constants DEF IInv, EFFileHandleRead, TypeOK
<1>2. PICK k \in Nat : /\ k = Group!Available(offset, n)
                       /\ k <= size
                       /\ k > 0 => offset + k <= size /\ k <= n
                       /\ n <= 0 \/ offset >= size => k = 0
                       /\ k < n => offset + k >= size
  BY <1>1, AvailableFacts
<1>3. /\ moved' = k /\ UNCHANGED <<size, store, endOffset, pc, from, to>>
      /\ buffer' = [i \in DOMAIN b |-> IF i \in 0 .. k - 1 THEN store[offset + i] ELSE b[i]]
      /\ offset' = offset + k
      /\ ret' = k
  BY <1>1, <1>2 DEF EFFileHandleRead, Group!Read, locals
<1>4. k \in 0 .. File!Larger(n, 0)
  BY <1>1, <1>2 DEF File!Larger
<1>5. k < n => \A x \in offset + k .. MaxIndex : Content[x] = Zero
  BY <1>1, <1>2 DEF Content
<1>6. offset + k <= MaxIndex + 1
  BY <1>1, <1>2 DEF TypeOK
<1>7. DOMAIN b \subseteq Int
  BY Constants
<1>8. ASSUME NEW i \in DOMAIN b
      PROVE  (IF i \in 0 .. k - 1 THEN store[offset + i] ELSE b[i])
               = (IF i < k THEN Content[offset + i] ELSE b[i])
  <2>1. i \in Nat
    BY Constants
  <2>2. i \in 0 .. k - 1 => offset + i \in 0 .. size - 1
    BY <1>1, <1>2, <2>1
  <2>3. i \in 0 .. k - 1 => store[offset + i] = Content[offset + i]
    BY <1>1, <2>2 DEF Content
  <2>. QED
    BY <2>1, <2>3
<1>9. Buffer' = [i \in DOMAIN b |-> IF i < k THEN Content[offset + i] ELSE b[i]]
  BY <1>1, <1>3, <1>8 DEF Buffer
<1>10. Content' = Content
  BY <1>1, <1>3 DEF Content
<1>11. Ret' = k
  BY <1>1, <1>3 DEF Ret
<1>. QED
  BY <1>3, <1>4, <1>5, <1>6, <1>9, <1>10, <1>11 DEF File!Read, Content, Buffer, Ret

LEMMA StartStutters ==
  ASSUME IInv, NEW n \in Lengths, NEW b \in Buffers, EFFileHandleWrite(n, b)
  PROVE  UNCHANGED File!vars
<1>1. Content' = Content /\ Buffer' = Buffer /\ Ret' = Ret /\ UNCHANGED vfd
  BY DEF EFFileHandleWrite, group, Content, Buffer, Ret
<1>. QED
  BY <1>1, SameFile

LEMMA ExtendStutters == ASSUME IInv, Extend PROVE UNCHANGED File!vars
<1>1. TypeOK /\ pc # "zero" /\ size \in Nat /\ PageLength \in Nat
  BY Constants DEF IInv, Extend, TypeOK
<1>2. /\ size' = size + PageLength
      /\ store' = [x \in 0 .. size' - 1 |-> IF x \in DOMAIN store THEN store[x] ELSE Zero]
      /\ UNCHANGED <<buffer, pc, ret>> /\ UNCHANGED vfd
  BY DEF Extend, Group!Grow
<1>3. \A x \in 0 .. MaxIndex :
        (IF x >= size' THEN Zero ELSE store'[x]) = (IF x >= size THEN Zero ELSE store[x])
  BY <1>1, <1>2 DEF TypeOK
<1>4. Content' = Content
  BY <1>1, <1>2, <1>3 DEF Content
<1>. QED
  BY <1>1, <1>2, <1>4, SameFile DEF Buffer, Ret

LEMMA ExtendFailsImplements == ASSUME IInv, ExtendFails PROVE File!Fail
<1>1. Content' = Content /\ Buffer' = Buffer /\ Ret' = -1 /\ UNCHANGED vfd
  BY DEF ExtendFails, Return, group, Content, Buffer, Ret
<1>. QED
  BY <1>1, FailedFile

(* The sum that is not checked: when it overflows, the position is behind  *)
(* the group and stays there.                                              *)
LEMMA WriteEndsImplements == ASSUME IInv, WriteEnds PROVE File!Write(length, data)
<1>1. /\ TypeOK /\ offset \in Nat /\ length \in Int /\ length <= BufferSize /\ size \in Nat
      /\ length >= -(MaxIndex + 1)
      /\ MaxIndex \in Nat /\ MaxSize \in Nat /\ BufferSize \in Nat
      /\ size <= MaxSize /\ MaxSize + BufferSize <= MaxIndex
      /\ pc = "write" /\ Wrap(offset + length) <= size
  BY Constants DEF IInv, TypeOK, Writing, WriteEnds
<1>2. PICK k \in Nat :
           /\ k = Group!Available(offset, length)
           /\ k <= size /\ (k > 0 => offset + k <= size)
           /\ UNCHANGED size /\ moved' = k /\ buffer' = data
           /\ store' \in [0 .. size - 1 -> Byte]
           /\ \A x \in 0 .. size - 1 :
                store'[x] = IF x \in offset .. offset + k - 1
                            THEN data[x - offset] ELSE store[x]
           /\ offset' = offset + k /\ offset + k <= MaxIndex
  BY WriteEndsFacts
<1>3. /\ length <= 0 \/ offset >= size => k = 0
      /\ length >= 0 /\ offset + length <= size => k = length
  BY <1>1, <1>2, AvailableFacts
<1>4. k = IF offset + length <= MaxIndex THEN File!Larger(length, 0) ELSE 0
  <2>1. CASE offset + length <= MaxIndex
    <3>1. Wrap(offset + length) = offset + length
      BY <1>1, <2>1, WrapSame
    <3>. QED
      BY <1>1, <1>3, <2>1, <3>1 DEF File!Larger
  <2>2. CASE ~(offset + length <= MaxIndex)
    <3>1. offset >= size
      BY <1>1, <2>2
    <3>. QED
      BY <1>3, <2>2, <3>1
  <2>. QED
    BY <2>1, <2>2
<1>5. /\ endOffset' = File!Larger(endOffset, offset + k)
      /\ pc' = "idle" /\ ret' = k
  BY <1>2 DEF WriteEnds, Return, Larger, File!Larger
<1>6. Content' = [x \in 0 .. MaxIndex |->
                    IF x \in offset .. offset + k - 1 THEN data[x - offset] ELSE Content[x]]
  BY <1>1, <1>2, <1>5 DEF Content
<1>7. Buffer' = data /\ Ret' = k
  BY <1>2, <1>5 DEF Buffer, Ret
<1>. QED
  BY <1>2, <1>4, <1>5, <1>6, <1>7 DEF File!Write, Content, Buffer, Ret

LEMMA TruncateStartImplements ==
  ASSUME IInv, NEW n \in Lengths \cup Offsets, EFFileHandleTruncate(n)
  PROVE  File!Fail \/ UNCHANGED File!vars
<1>1. CASE n < 0
  <2>1. Content' = Content /\ Buffer' = Buffer /\ Ret' = -1 /\ UNCHANGED vfd
    BY <1>1 DEF EFFileHandleTruncate, Return, group, Content, Buffer, Ret
  <2>. QED
    BY <2>1, FailedFile
<1>2. CASE ~(n < 0)
  <2>1. Content' = Content /\ Buffer' = Buffer /\ Ret' = Ret /\ UNCHANGED vfd
    BY <1>2 DEF EFFileHandleTruncate, group, Content, Buffer, Ret
  <2>. QED
    BY <2>1, SameFile
<1>. QED
  BY <1>1, <1>2

LEMMA TruncateEndsImplements ==
  ASSUME IInv, TruncateEnds
  PROVE  to \in Lengths \cup Offsets /\ File!Truncate(to)
<1>1. /\ TypeOK /\ TailIsZero /\ pc = "truncate" /\ to \in Nat /\ endOffset \in Nat
      /\ size \in Nat /\ MaxIndex \in Nat /\ to \in Lengths \cup Offsets
      /\ UNCHANGED <<size, store, buffer, offset, endOffset>>
  BY Constants DEF IInv, TypeOK, Truncating, TruncateEnds, group, vfd
<1>2. \A x \in 0 .. size - 1 : x >= endOffset => store[x] = Zero
  BY <1>1 DEF TailIsZero
<1>3. Content' = [x \in 0 .. MaxIndex |-> IF x < to THEN Content[x] ELSE Zero]
  <2>1. CASE to < endOffset
    <3>1. pc' = "zero" /\ from' = to /\ to' = endOffset
      BY <2>1 DEF TruncateEnds
    <3>. QED
      BY <1>1, <1>2, <3>1 DEF Content
  <2>2. CASE ~(to < endOffset)
    <3>1. pc' = "idle"
      BY <2>2 DEF TruncateEnds, Return
    <3>. QED
      BY <1>1, <1>2, <2>2, <3>1 DEF Content
  <2>. QED
    BY <2>1, <2>2
<1>4. Ret' = -1
  BY DEF TruncateEnds, Return, Ret
<1>. QED
  BY <1>1, <1>3, <1>4 DEF File!Truncate, Content, Ret

LEMMA ZeroChunkStutters == ASSUME IInv, ZeroChunk PROVE UNCHANGED File!vars
<1>1. TypeOK /\ pc = "zero" /\ from \in Nat /\ to \in Nat /\ size \in Nat
  BY DEF IInv, ZeroChunk, Zeroing, TypeOK
<1>2. UNCHANGED <<pc, to>> /\ UNCHANGED vfd
  BY DEF ZeroChunk
<1>3. PICK chunk \in Nat, k \in Nat :
        /\ chunk > 0
        /\ from' = from + chunk /\ from + chunk <= to
        /\ UNCHANGED size /\ moved' = k /\ k <= size /\ buffer' = zeros
        /\ store' \in [0 .. size - 1 -> Byte]
        /\ \A x \in 0 .. size - 1 :
             store'[x] = IF x \in from .. from + chunk - 1 THEN Zero ELSE store[x]
  BY ZeroChunkFacts
<1>4. Content' = Content
  BY <1>1, <1>2, <1>3 DEF Content
<1>5. Buffer' = Buffer /\ Ret' = Ret
  BY <1>1, <1>2 DEF Buffer, Ret, zeros
<1>. QED
  BY <1>2, <1>4, <1>5, SameFile

LEMMA ZeroEndsImplements == ASSUME IInv, ZeroEnds PROVE UNCHANGED File!vars
<1>1. /\ TypeOK /\ pc = "zero" /\ from \in Nat /\ to \in Nat /\ from >= to
      /\ buffer = zeros
  BY DEF IInv, ZeroEnds, Zeroing, TypeOK
<1>2. UNCHANGED <<size, store, buffer>> /\ UNCHANGED vfd /\ pc' = "idle" /\ ret' = -1
  BY DEF ZeroEnds, Return, group
<1>3. Content' = Content
  BY <1>1, <1>2 DEF Content
<1>4. Buffer' = Buffer /\ Ret' = Ret
  BY <1>1, <1>2 DEF Buffer, Ret
<1>. QED
  BY <1>2, <1>3, <1>4, SameFile

(* A seek the code refuses is a failure of the file.                       *)
LEMMA SeekImplements ==
  ASSUME IInv, NEW o \in Offsets, NEW base \in {0, offset, endOffset},
         EFFileHandleSeek(base, o)
  PROVE  File!Seek(base, o) \/ File!Fail
<1>1. /\ pc = "idle" /\ UNCHANGED <<size, store, buffer, endOffset, pc, from, to>>
      /\ base \in Int /\ o \in Int /\ MaxIndex \in Nat
  BY Constants DEF EFFileHandleSeek, group, locals, IInv, TypeOK
<1>2. Content' = Content /\ Buffer' = Buffer /\ Ret' = ret'
  BY <1>1 DEF Content, Buffer, Ret
<1>3. CASE base + o > MaxIndex \/ base + o < 0
  <2>1. offset' = offset /\ ret' = -1
    BY <1>3 DEF EFFileHandleSeek
  <2>. QED
    BY <1>1, <1>2, <2>1, FailedFile DEF vfd
<1>4. CASE ~(base + o > MaxIndex \/ base + o < 0)
  <2>1. offset' = base + o /\ ret' = base + o
    BY <1>4 DEF EFFileHandleSeek
  <2>2. base + o \in 0 .. MaxIndex
    BY <1>1, <1>4
  <2>. QED
    BY <1>1, <1>2, <2>1, <2>2 DEF File!Seek, Content, Buffer, Ret
<1>. QED
  BY <1>3, <1>4

(* Writes and truncations of a file whose arguments are in bounds.         *)
LEMMA FileSteps ==
  /\ \A n \in Lengths, d \in Buffers : File!Write(n, d) => File!Next
  /\ \A n \in Lengths \cup Offsets : File!Truncate(n) => File!Next
  BY Zenon DEF File!Next

LEMMA StepImplements == IInv /\ [Next]_vars => [File!Next]_(File!vars)
<1>. SUFFICES ASSUME IInv, [Next]_vars PROVE File!Next \/ UNCHANGED File!vars
  OBVIOUS
<1>1. ASSUME NEW n \in Lengths, NEW b \in Buffers, EFFileHandleRead(n, b)
      PROVE  File!Next
  BY <1>1, ReadImplements DEF File!Next
<1>2. ASSUME NEW n \in Lengths, NEW b \in Buffers, EFFileHandleWrite(n, b)
      PROVE  UNCHANGED File!vars
  BY <1>2, StartStutters
<1>3. ASSUME NEW n \in Lengths \cup Offsets, EFFileHandleTruncate(n)
      PROVE  File!Next \/ UNCHANGED File!vars
  BY <1>3, TruncateStartImplements DEF File!Next
<1>4. ASSUME NEW o \in Offsets, NEW base \in {0, offset, endOffset}, EFFileHandleSeek(base, o)
      PROVE  File!Next
  <2>1. File!Seek(base, o) \/ File!Fail
    BY <1>4, SeekImplements
  <2>. QED
    BY <2>1 DEF File!Next
<1>5. CASE Step
  <2>1. CASE Extend
    BY <2>1, ExtendStutters
  <2>2. CASE ExtendFails
    BY <2>2, ExtendFailsImplements DEF File!Next
  <2>3. CASE WriteEnds
    <3>1. length \in Lengths /\ data \in Buffers
      BY <2>3 DEF IInv, Writing, WriteEnds
    <3>2. File!Write(length, data)
      BY <2>3, WriteEndsImplements
    <3>3. PICK n \in Lengths, d \in Buffers : n = length /\ d = data
      BY <3>1
    <3>4. File!Write(n, d)
      BY <3>2, <3>3 DEF File!Write
    <3>. QED
      BY <3>4, FileSteps
  <2>4. CASE TruncateEnds
    <3>1. to \in Lengths \cup Offsets /\ File!Truncate(to)
      BY <2>4, TruncateEndsImplements
    <3>2. PICK n \in Lengths \cup Offsets : n = to
      BY <3>1
    <3>3. File!Truncate(n)
      BY <3>1, <3>2 DEF File!Truncate
    <3>. QED
      BY <3>3, FileSteps
  <2>5. CASE ZeroChunk
    BY <2>5, ZeroChunkStutters
  <2>6. CASE ZeroEnds
    BY <2>6, ZeroEndsImplements
  <2>. QED
    BY <1>5, <2>1, <2>2, <2>3, <2>4, <2>5, <2>6 DEF Step
<1>6. CASE UNCHANGED vars
  BY <1>6 DEF vars, File!vars, zeros
<1>. QED
  BY <1>1, <1>2, <1>3, <1>4, <1>5, <1>6 DEF Next, Call

(* A virtual file is a file: every call, cut into the steps of its loops   *)
(* and failing in any of them, happens at once or not at all.              *)
THEOREM HandleImplementsFile == Spec => ImplementsFile
<1>1. Spec => File!Init
  BY InitImplements DEF Spec
<1>2. Spec => [][File!Next]_(File!vars)
  BY StepImplements, SpecIInv, PTL DEF Spec
<1>. QED
  BY <1>1, <1>2 DEF ImplementsFile, File!Spec
=============================================================================
