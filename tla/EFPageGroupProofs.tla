-------------------------- MODULE EFPageGroupProofs --------------------------
(***************************************************************************)
(* Proofs about EFPageGroup for any layout of pages, any page length, any  *)
(* bytes and any arguments of the transfers.                               *)
(***************************************************************************)
EXTENDS EFPageGroup, TLAPS

Layout == IsLayout([count |-> count, start |-> start])

(* What a transfer under way knows: base is where page index begins, what  *)
(* is left fits the group and the caller's buffer, ...                     *)
Underway ==
  pc # "idle" =>
    /\ index \in 0 .. count /\ base = start[index]
    /\ off >= 0 /\ off + length <= EFPageGroupGetLength
    /\ done + length <= BufferSize

(* ... in the first loop no page walked past reaches the offset, ...       *)
Walking ==
  pc = "walk" => base <= off /\ off < EFPageGroupGetLength /\ done = 0

(* ... and in the second the next byte is in page index.                   *)
Copying ==
  pc = "copy" /\ length > 0 =>
    index < count /\ off \in start[index] .. start[index + 1] - 1

Resting == pc = "idle" => off = 0 /\ length = 0 /\ base = 0 /\ index = 0 /\ done = 0

IInv ==
  /\ TypeOK
  /\ Underway
  /\ Walking
  /\ Copying
  /\ Resting
-----------------------------------------------------------------------------
(* A layout in terms of the variables.                                     *)
LEMMA LayoutFacts ==
  ASSUME TypeOK
  PROVE  /\ count \in Nat
         /\ start \in [0 .. count -> Nat]
         /\ start[0] = 0
         /\ \A i, j \in 0 .. count : i < j => start[i] < start[j]
         /\ \A x \in 0 .. start[count] - 1 :
              \E p \in 0 .. count - 1 : x \in start[p] .. start[p + 1] - 1
BY DEF TypeOK, IsLayout

LEMMA LayoutIs ==
  ASSUME NEW c \in Nat, NEW s \in [0 .. c -> Nat],
         s[0] = 0,
         \A i, j \in 0 .. c : i < j => s[i] < s[j],
         \A x \in 0 .. s[c] - 1 :
           \E p \in 0 .. c - 1 : x \in s[p] .. s[p + 1] - 1
  PROVE  IsLayout([count |-> c, start |-> s])
BY DEF IsLayout

(* Pages do not overlap, so an address is in one page only.                *)
LEMMA OnePage ==
  ASSUME NEW c, NEW s, IsLayout([count |-> c, start |-> s]),
         NEW p \in 0 .. c - 1, NEW q \in 0 .. c - 1,
         NEW x \in s[p] .. s[p + 1] - 1, x \in s[q] .. s[q + 1] - 1
  PROVE  q = p
<1>1. /\ c \in Nat /\ s \in [0 .. c -> Nat]
      /\ \A i, j \in 0 .. c : i < j => s[i] < s[j]
  BY DEF IsLayout
<1>2. ASSUME NEW i \in 0 .. c - 1, NEW j \in 0 .. c - 1, i < j
      PROVE  s[i + 1] <= s[j]
  <2>1. i + 1 \in 0 .. c /\ j \in 0 .. c /\ (i + 1 = j \/ i + 1 < j)
    BY <1>1, <1>2
  <2>2. s[i + 1] \in Nat /\ s[j] \in Nat
    BY <1>1, <2>1
  <2>3. i + 1 < j => s[i + 1] < s[j]
    BY <1>1, <2>1
  <2>. QED
    BY <2>1, <2>2, <2>3
<1>3. /\ p \in 0 .. c /\ p + 1 \in 0 .. c /\ q \in 0 .. c /\ q + 1 \in 0 .. c
      /\ p \in Int /\ q \in Int
  BY <1>1
<1>4. s[p] \in Nat /\ s[p + 1] \in Nat /\ s[q] \in Nat /\ s[q + 1] \in Nat
  BY <1>1, <1>3
<1>5. ~(p < q)
  <2>1. p < q => s[p + 1] <= s[q]
    BY <1>2
  <2>. QED
    BY <1>4, <2>1
<1>6. ~(q < p)
  <2>1. q < p => s[q + 1] <= s[p]
    BY <1>2
  <2>. QED
    BY <1>4, <2>1
<1>. QED
  BY <1>3, <1>5, <1>6

LEMMA PageOfIs ==
  ASSUME TypeOK, NEW p \in 0 .. count - 1, NEW x \in start[p] .. start[p + 1] - 1
  PROVE  PageOf(x) = p
<1>1. \A q \in 0 .. count - 1 : x \in start[q] .. start[q + 1] - 1 => q = p
  BY OnePage DEF TypeOK
<1>. QED
  BY <1>1 DEF PageOf

(* The same, of the layout after a step.                                   *)
LEMMA PageOfIsAfter ==
  ASSUME TypeOK', NEW p \in 0 .. count' - 1, NEW x \in start'[p] .. start'[p + 1] - 1
  PROVE  PageOf(x)' = p
<1>1. \A q \in 0 .. count' - 1 : x \in start'[q] .. start'[q + 1] - 1 => q = p
  BY OnePage DEF TypeOK
<1>. QED
  BY <1>1 DEF PageOf

(* Every address of the group is in one of its pages.                      *)
LEMMA PageOfIn ==
  ASSUME TypeOK, NEW x \in 0 .. start[count] - 1
  PROVE  /\ PageOf(x) \in 0 .. count - 1
         /\ x \in start[PageOf(x)] .. start[PageOf(x) + 1] - 1
         /\ ByteAt(x) \in Byte
<1>1. PICK p \in 0 .. count - 1 : x \in start[p] .. start[p + 1] - 1
  BY LayoutFacts
<1>2. PageOf(x) = p
  BY <1>1, PageOfIs
<1>3. start[p] \in Nat /\ start[p + 1] \in Nat
  <2>1. p \in 0 .. count /\ p + 1 \in 0 .. count
    BY LayoutFacts
  <2>. QED
    BY <2>1, LayoutFacts
<1>4. bytes[p] \in [0 .. start[p + 1] - start[p] - 1 -> Byte]
  BY <1>1 DEF TypeOK, EFPageGetLength
<1>5. x - start[p] \in 0 .. start[p + 1] - start[p] - 1
  BY <1>1, <1>3
<1>. QED
  BY <1>1, <1>2, <1>4, <1>5 DEF ByteAt

(* The length of a page that is there.                                     *)
LEMMA PageLengths ==
  ASSUME TypeOK, NEW p \in 0 .. count - 1
  PROVE  /\ p \in 0 .. count /\ p + 1 \in 0 .. count
         /\ start[p] \in Nat /\ start[p + 1] \in Nat /\ start[p] < start[p + 1]
         /\ start[p + 1] <= start[count]
         /\ EFPageGetLength(p) \in Nat \ {0}
         /\ start[p] + EFPageGetLength(p) = start[p + 1]
<1>1. p \in 0 .. count /\ p + 1 \in 0 .. count /\ count \in 0 .. count
  BY LayoutFacts
<1>2. start[p] \in Nat /\ start[p + 1] \in Nat /\ start[count] \in Nat
  BY <1>1, LayoutFacts
<1>3. start[p] < start[p + 1]
  BY <1>1, LayoutFacts
<1>4. start[p + 1] <= start[count]
  <2>1. p + 1 = count \/ p + 1 < count
    BY <1>1
  <2>2. p + 1 < count => start[p + 1] < start[count]
    BY <1>1, LayoutFacts
  <2>. QED
    BY <1>2, <2>1, <2>2
<1>. QED
  BY <1>1, <1>2, <1>3, <1>4 DEF EFPageGetLength

LEMMA TotalType ==
  ASSUME TypeOK
  PROVE  EFPageGroupGetLength \in Nat
<1>1. count \in 0 .. count
  BY LayoutFacts
<1>. QED
  BY <1>1, LayoutFacts DEF EFPageGroupGetLength
-----------------------------------------------------------------------------
LEMMA InitIInv == Init => IInv
<1> SUFFICES ASSUME Init PROVE IInv
  OBVIOUS
<1>1. PICK L \in Layouts : count = L.count /\ start = L.start
  BY DEF Init
<1>2. IsLayout([count |-> count, start |-> start])
  BY <1>1, LayoutsAssumption DEF IsLayout
<1>3. \A p \in 0 .. count - 1 : bytes[p] \in [0 .. EFPageGetLength(p) - 1 -> Byte]
  BY ByteAssumption DEF Init
<1>4. b \in [0 .. BufferSize - 1 -> Byte]
  BY ArgumentsAssumption DEF Init
<1>5. TypeOK
  BY <1>2, <1>3, <1>4 DEF Init, TypeOK
<1>. QED
  BY <1>5 DEF Init, IInv, Underway, Walking, Copying, Resting

LEMMA XferIInv ==
  ASSUME IInv, NEW kind \in {"read", "write"}, NEW o \in Offsets, NEW n \in Lengths,
         NEW f \in Buffers, n <= BufferSize, Xfer(kind, o, n, f)
  PROVE  IInv'
<1>1. o \in Int /\ n \in Int /\ f \in [0 .. BufferSize - 1 -> Byte] /\ BufferSize \in Nat
  BY ArgumentsAssumption
<1>2. EFPageGroupGetLength \in Nat /\ TypeOK
  BY TotalType DEF IInv
<1>3. /\ pc = "idle" /\ xfer' = kind /\ b' = f
      /\ UNCHANGED <<count, start, bytes, base, index, done>>
  BY DEF Xfer, pages
<1>4. CASE o < 0 \/ n < 0 \/ o >= EFPageGroupGetLength
  <2>1. pc' = "idle" /\ length' = 0 /\ ret' = 0 /\ off' = 0
    BY <1>4 DEF Xfer
  <2>2. TypeOK'
    BY <1>1, <1>2, <1>3, <2>1 DEF TypeOK, EFPageGetLength
  <2>. QED
    BY <1>3, <2>1, <2>2 DEF IInv, Underway, Walking, Copying, Resting
<1>5. CASE o >= 0 /\ n >= 0 /\ o < EFPageGroupGetLength
  <2>1. /\ pc' = "walk" /\ ret' = ret /\ off' = o
        /\ length' = Minimum(n, EFPageGroupGetLength - o)
    BY <1>1, <1>2, <1>5 DEF Xfer
  <2>2. length' \in Nat /\ o + length' <= EFPageGroupGetLength /\ length' <= BufferSize
    BY <1>1, <1>2, <1>5, <2>1 DEF Minimum
  <2>3. TypeOK'
    BY <1>1, <1>2, <1>3, <2>1, <2>2 DEF TypeOK, EFPageGetLength
  <2>4. base = 0 /\ index = 0 /\ done = 0 /\ start[0] = 0 /\ count \in Nat
    BY <1>2, <1>3, LayoutFacts DEF IInv, Resting
  <2>5. Underway'
    BY <1>1, <1>3, <1>5, <2>1, <2>2, <2>4 DEF Underway, EFPageGroupGetLength
  <2>6. Walking'
    BY <1>1, <1>3, <1>5, <2>1, <2>4 DEF Walking, EFPageGroupGetLength
  <2>. QED
    BY <2>1, <2>3, <2>5, <2>6 DEF IInv, Copying, Resting
<1>. QED
  BY <1>1, <1>2, <1>4, <1>5

LEMMA WalkOnIInv == ASSUME IInv, WalkOn PROVE IInv'
<1>1. TypeOK /\ index \in 0 .. count - 1 /\ base = start[index]
  BY LayoutFacts DEF WalkOn, IInv, Underway
<1>2. /\ base' = start[index + 1] /\ index' = index + 1
      /\ base' <= off /\ index' \in 0 .. count /\ base' \in Nat /\ index' \in Nat
  BY <1>1, PageLengths DEF WalkOn
<1>3. UNCHANGED <<count, start, bytes, pc, xfer, off, b, length, done, ret>>
  BY DEF WalkOn, pages
<1>4. TypeOK'
  BY <1>1, <1>2, <1>3 DEF TypeOK, EFPageGetLength
<1>. QED
  BY <1>2, <1>3, <1>4 DEF WalkOn, IInv, Underway, Walking, Copying, Resting,
     EFPageGroupGetLength

LEMMA WalkEndsIInv == ASSUME IInv, WalkEnds PROVE IInv'
<1>0. count \in Nat /\ count \in 0 .. count
  BY LayoutFacts DEF IInv
<1>1. /\ TypeOK /\ index \in 0 .. count /\ base = start[index] /\ off \in Int
      /\ base <= off /\ off < start[count]
  BY DEF WalkEnds, IInv, Underway, Walking, TypeOK, EFPageGroupGetLength
<1>2. UNCHANGED <<count, start, bytes, xfer, off, b, length, base, index, done, ret>>
      /\ pc' = "copy"
  BY DEF WalkEnds, pages, locals
<1>3. index \in 0 .. count - 1
  <2>1. start[index] \in Nat /\ start[count] \in Nat
    BY <1>0, <1>1, LayoutFacts
  <2>2. index # count
    BY <1>1, <2>1
  <2>. QED
    BY <1>0, <1>1, <2>2
<1>4. off \in start[index] .. start[index + 1] - 1
  <2>1. base + EFPageGetLength(index) > off
    BY <1>3, LayoutFacts, <1>1 DEF WalkEnds
  <2>2. /\ start[index] \in Nat /\ start[index + 1] \in Nat
        /\ start[index] + EFPageGetLength(index) = start[index + 1]
    BY <1>1, <1>3, PageLengths
  <2>. QED
    BY <1>1, <2>1, <2>2
<1>5. TypeOK'
  BY <1>1, <1>2 DEF TypeOK, EFPageGetLength
<1>6. Underway' /\ Walking' /\ Resting'
  BY <1>2 DEF WalkEnds, IInv, Underway, Walking, Resting, EFPageGroupGetLength
<1>7. Copying'
  BY <1>0, <1>2, <1>3, <1>4 DEF Copying
<1>. QED
  BY <1>5, <1>6, <1>7 DEF IInv

(* What an iteration of the copying loop is about to move.                 *)
LEMMA CopyFacts ==
  ASSUME IInv, pc = "copy", length > 0,
         NEW pageOff, pageOff = off - base,
         NEW n, n = Minimum(length, EFPageGetLength(index) - pageOff)
  PROVE  /\ index \in 0 .. count - 1
         /\ start[index] \in Nat /\ start[index + 1] \in Nat
         /\ base = start[index] /\ off \in Nat /\ length \in Nat /\ done \in Nat
         /\ pageOff \in Nat /\ n \in Nat \ {0} /\ n <= length
         /\ pageOff + n <= EFPageGetLength(index)
         /\ off + n <= start[index + 1]
         /\ n = length \/ off + n = start[index + 1]
         /\ EFPageGetLength(index) = start[index + 1] - start[index]
<1>1. /\ TypeOK /\ index \in Nat /\ index < count /\ base = start[index] /\ off \in Int
      /\ off >= 0 /\ length \in Nat /\ done \in Nat
      /\ off \in start[index] .. start[index + 1] - 1
  BY DEF IInv, TypeOK, Underway, Copying
<1>2. index \in 0 .. count - 1
  BY <1>1, LayoutFacts
<1>3. /\ start[index] \in Nat /\ start[index + 1] \in Nat
      /\ EFPageGetLength(index) = start[index + 1] - start[index]
  BY <1>1, <1>2, PageLengths DEF EFPageGetLength
<1>4. pageOff \in Nat /\ EFPageGetLength(index) - pageOff = start[index + 1] - off
  BY <1>1, <1>3
<1>5. start[index + 1] - off \in Nat \ {0}
  BY <1>1, <1>3
<1>6. n = IF length < start[index + 1] - off THEN length ELSE start[index + 1] - off
  BY <1>4 DEF Minimum
<1>7. /\ n \in Nat \ {0} /\ n <= length /\ n <= start[index + 1] - off
      /\ n = length \/ n = start[index + 1] - off
  BY <1>1, <1>5, <1>6
<1>8. /\ off + n <= start[index + 1]
      /\ n = length \/ off + n = start[index + 1]
  BY <1>1, <1>3, <1>7
<1>9. pageOff + n <= EFPageGetLength(index)
  BY <1>1, <1>3, <1>4, <1>7, <1>8
<1>. QED
  BY <1>1, <1>2, <1>3, <1>4, <1>7, <1>8, <1>9

LEMMA CopyIInv == ASSUME IInv, Copy PROVE IInv'
<1> DEFINE pageOff == off - base
           n == Minimum(length, EFPageGetLength(index) - pageOff)
<1>1. /\ TypeOK /\ pc = "copy" /\ length > 0
      /\ UNCHANGED <<count, start, pc, xfer, ret>>
      /\ done' = done + n /\ length' = length - n /\ off' = off + n
      /\ base' = base + EFPageGetLength(index) /\ index' = index + 1
  BY DEF Copy, IInv
<1>2. /\ index \in 0 .. count - 1
      /\ start[index] \in Nat /\ start[index + 1] \in Nat
      /\ base = start[index] /\ off \in Nat /\ length \in Nat /\ done \in Nat
      /\ pageOff \in Nat /\ n \in Nat \ {0} /\ n <= length
      /\ pageOff + n <= EFPageGetLength(index)
      /\ off + n <= start[index + 1]
      /\ n = length \/ off + n = start[index + 1]
      /\ EFPageGetLength(index) = start[index + 1] - start[index]
  BY <1>1, CopyFacts
<1>3. /\ DOMAIN bytes = 0 .. count - 1
      /\ \A p \in 0 .. count - 1 : bytes[p] \in [0 .. EFPageGetLength(p) - 1 -> Byte]
      /\ b \in [0 .. BufferSize - 1 -> Byte]
      /\ BufferSize \in Nat /\ done + length <= BufferSize
      /\ off + length <= start[count]
  BY <1>1, ArgumentsAssumption DEF IInv, TypeOK, Underway, EFPageGroupGetLength
<1> HIDE DEF pageOff, n
<1>4. /\ DOMAIN bytes' = 0 .. count - 1
      /\ \A p \in 0 .. count - 1 : bytes'[p] \in [0 .. EFPageGetLength(p) - 1 -> Byte]
      /\ b' \in [0 .. BufferSize - 1 -> Byte]
  <2>1. CASE xfer = "write"
    <3>1. bytes' = [bytes EXCEPT ![index] =
                     [o \in DOMAIN bytes[index] |->
                        IF o \in pageOff .. pageOff + n - 1
                        THEN b[done + o - pageOff] ELSE bytes[index][o]]]
          /\ b' = b
      BY <2>1 DEF Copy, pageOff, n
    <3>2. \A o \in pageOff .. pageOff + n - 1 : done + o - pageOff \in 0 .. BufferSize - 1
      BY <1>2, <1>3
    <3>. QED
      BY <1>2, <1>3, <3>1, <3>2
  <2>2. CASE xfer # "write"
    <3>1. b' = [i \in DOMAIN b |->
                 IF i \in done .. done + n - 1
                 THEN bytes[index][pageOff + i - done] ELSE b[i]]
          /\ bytes' = bytes
      BY <2>2 DEF Copy, pageOff, n
    <3>2. \A i \in done .. done + n - 1 :
            pageOff + i - done \in 0 .. EFPageGetLength(index) - 1
      BY <1>2
    <3>3. \A i \in done .. done + n - 1 : bytes[index][pageOff + i - done] \in Byte
      BY <1>2, <1>3, <3>2
    <3>. QED
      BY <1>3, <3>1, <3>3
  <2>. QED
    BY <2>1, <2>2
<1>5. TypeOK'
  <2>1. /\ off' \in Int /\ length' \in Nat /\ base' \in Nat /\ index' \in Nat
        /\ done' \in Nat
    BY <1>1, <1>2
  <2>. QED
    BY <1>1, <1>4, <2>1 DEF TypeOK, EFPageGetLength
<1>6. Underway'
  BY <1>1, <1>2, <1>3, LayoutFacts DEF Underway, EFPageGroupGetLength
<1>7. Copying'
  <2> SUFFICES ASSUME length' > 0
               PROVE  index' < count /\ off' \in start[index'] .. start[index' + 1] - 1
    BY <1>1 DEF Copying
  <2>1. n # length /\ off' = start[index + 1]
    BY <1>1, <1>2
  <2>2. start[index + 1] < start[count]
    BY <1>1, <1>2, <1>3, <2>1, LayoutFacts
  <2>3. index' \in 0 .. count - 1
    <3>1. count \in Nat
      BY <1>1, LayoutFacts
    <3>2. index + 1 # count
      BY <1>2, <2>2
    <3>. QED
      BY <1>1, <1>2, <3>1, <3>2
  <2>4. /\ start[index'] < start[index' + 1]
        /\ start[index'] \in Nat /\ start[index' + 1] \in Nat /\ count \in Nat
    BY <1>1, <2>3, PageLengths, LayoutFacts
  <2>5. off' = start[index']
    BY <1>1, <2>1
  <2>. QED
    BY <2>3, <2>4, <2>5
<1>8. Walking' /\ Resting'
  <2>1. pc' = "copy"
    BY <1>1
  <2>. QED
    BY <2>1 DEF Walking, Resting
<1>. QED
  BY <1>5, <1>6, <1>7, <1>8 DEF IInv

LEMMA ReturnIInv == ASSUME IInv, Return PROVE IInv'
BY DEF Return, pages, IInv, TypeOK, EFPageGetLength, Underway, Walking, Copying,
   Resting

(* What the group is after EFPageGroupExtend: the old addresses are in the *)
(* old pages, the new ones in the new page.                                *)
LEMMA ExtendLayout ==
  ASSUME TypeOK, EFPageGroupExtend
  PROVE  /\ IsLayout([count |-> count', start |-> start'])
         /\ count' = count + 1 /\ count \in Nat /\ start[count] \in Nat
         /\ \A i \in 0 .. count : start'[i] = start[i]
         /\ start'[count + 1] = start[count] + PageLength
<1>1. /\ count \in Nat /\ start \in [0 .. count -> Nat] /\ start[0] = 0
      /\ \A i, j \in 0 .. count : i < j => start[i] < start[j]
  BY LayoutFacts
<1>2. /\ count' = count + 1
      /\ start' = [i \in 0 .. count + 1 |->
                    IF i <= count THEN start[i] ELSE start[count] + PageLength]
  BY DEF EFPageGroupExtend
<1>3. start[count] \in Nat /\ PageLength \in Nat /\ PageLength > 0
  BY <1>1, PageLengthAssumption
<1>4. /\ \A i \in 0 .. count : start'[i] = start[i]
      /\ start'[count + 1] = start[count] + PageLength
  BY <1>1, <1>2
<1>5. start' \in [0 .. count' -> Nat] /\ start'[0] = 0
  BY <1>1, <1>2, <1>3
<1>6. ASSUME NEW i \in 0 .. count', NEW j \in 0 .. count', i < j
      PROVE  start'[i] < start'[j]
  <2>1. i \in 0 .. count /\ start'[i] = start[i] /\ start[i] \in Nat
    BY <1>1, <1>2, <1>4, <1>6
  <2>2. CASE j \in 0 .. count
    BY <1>1, <1>4, <1>6, <2>1, <2>2
  <2>3. CASE j = count + 1
    <3>1. start[i] <= start[count]
      <4>1. (i = count \/ i < count) /\ count \in 0 .. count
        BY <1>1, <2>1
      <4>2. i < count => start[i] < start[count]
        BY <1>1, <2>1, <4>1
      <4>. QED
        BY <1>3, <2>1, <4>1, <4>2
    <3>. QED
      BY <1>3, <1>4, <2>1, <2>3, <3>1
  <2>. QED
    BY <1>1, <1>2, <2>2, <2>3
<1>7. ASSUME NEW x \in 0 .. start'[count'] - 1
      PROVE  \E p \in 0 .. count' - 1 : x \in start'[p] .. start'[p + 1] - 1
  <2>1. CASE x < start[count]
    <3>1. PICK p \in 0 .. count - 1 : x \in start[p] .. start[p + 1] - 1
      BY <1>3, <1>7, <2>1, LayoutFacts
    <3>2. p \in 0 .. count /\ p + 1 \in 0 .. count
      BY <1>1
    <3>. QED
      BY <1>1, <1>2, <1>4, <3>1, <3>2
  <2>2. CASE x >= start[count]
    <3>1. x \in start'[count] .. start'[count + 1] - 1 /\ count \in 0 .. count' - 1
      BY <1>1, <1>2, <1>3, <1>4, <1>7, <2>2
    <3>. QED
      BY <3>1
  <2>. QED
    BY <1>3, <1>7, <2>1, <2>2
<1>8. count' \in Nat
  BY <1>1, <1>2
<1>. QED
  BY <1>1, <1>2, <1>3, <1>4, <1>5, <1>6, <1>7, <1>8, LayoutIs

LEMMA ExtendIInv == ASSUME IInv, EFPageGroupExtend PROVE IInv'
<1>1. /\ TypeOK /\ count' = count + 1 /\ count \in Nat /\ start[count] \in Nat
      /\ \A i \in 0 .. count : start'[i] = start[i]
      /\ start'[count + 1] = start[count] + PageLength
      /\ IsLayout([count |-> count', start |-> start'])
  BY ExtendLayout DEF IInv
<1>2. /\ bytes' = [p \in 0 .. count |->
                    IF p < count THEN bytes[p]
                    ELSE [o \in 0 .. PageLength - 1 |-> Zero]]
      /\ pc = "idle"
      /\ UNCHANGED <<pc, xfer, off, b, length, base, index, done, ret>>
  BY DEF EFPageGroupExtend, locals
<1>3. ASSUME NEW p \in 0 .. count' - 1
      PROVE  bytes'[p] \in [0 .. start'[p + 1] - start'[p] - 1 -> Byte]
  <2>1. CASE p < count
    <3>1. p \in 0 .. count - 1 /\ p \in 0 .. count /\ p + 1 \in 0 .. count
      BY <1>1, <2>1
    <3>2. bytes'[p] = bytes[p] /\ start'[p] = start[p] /\ start'[p + 1] = start[p + 1]
      BY <1>1, <1>2, <2>1, <3>1
    <3>. QED
      BY <1>1, <3>1, <3>2 DEF TypeOK, EFPageGetLength
  <2>2. CASE p = count
    <3>1. start'[p + 1] - start'[p] = PageLength
      BY <1>1, <2>2, PageLengthAssumption
    <3>. QED
      BY <1>1, <1>2, <2>2, <3>1, ByteAssumption
  <2>. QED
    BY <1>1, <2>1, <2>2
<1>4. DOMAIN bytes' = 0 .. count' - 1
  BY <1>1, <1>2
<1>5. TypeOK'
  BY <1>1, <1>2, <1>3, <1>4 DEF TypeOK, EFPageGetLength
<1>. QED
  BY <1>2, <1>5 DEF IInv, Underway, Walking, Copying, Resting

LEMMA MergeLayout ==
  ASSUME TypeOK, EFPageGroupMerge
  PROVE  /\ IsLayout([count |-> count', start |-> start'])
         /\ count' = 1 /\ start'[0] = 0 /\ start'[1] = start[count]
         /\ start[count] \in Nat \ {0}
<1>1. /\ count' = 1
      /\ start' = [i \in 0 .. 1 |-> IF i = 0 THEN 0 ELSE start[count]]
  BY DEF EFPageGroupMerge, EFPageGroupGetLength
<1>2. start[count] \in Nat /\ start[count] > 0
  <2>1. count \in Nat /\ count > 0 /\ 0 \in 0 .. count /\ count \in 0 .. count
    BY LayoutFacts DEF EFPageGroupMerge
  <2>. QED
    BY <2>1, LayoutFacts
<1>3. /\ start' \in [0 .. 1 -> Nat] /\ start'[0] = 0 /\ start'[1] = start[count]
  BY <1>1, <1>2
<1>4. \A i, j \in 0 .. 1 : i < j => start'[i] < start'[j]
  BY <1>2, <1>3
<1>5. \A x \in 0 .. start'[1] - 1 :
        \E p \in 0 .. 1 - 1 : x \in start'[p] .. start'[p + 1] - 1
  BY <1>2, <1>3
<1>6. IsLayout([count |-> 1, start |-> start'])
  BY <1>3, <1>4, <1>5, LayoutIs
<1>. QED
  BY <1>1, <1>2, <1>3, <1>6

LEMMA MergeIInv == ASSUME IInv, EFPageGroupMerge PROVE IInv'
<1>1. /\ TypeOK /\ IsLayout([count |-> count', start |-> start'])
      /\ count' = 1 /\ start'[0] = 0 /\ start'[1] = start[count]
      /\ start[count] \in Nat \ {0}
  BY MergeLayout DEF IInv
<1>2. /\ bytes' = [p \in 0 .. 0 |-> [x \in 0 .. start[count] - 1 |-> ByteAt(x)]]
      /\ pc = "idle"
      /\ UNCHANGED <<pc, xfer, off, b, length, base, index, done, ret>>
  BY DEF EFPageGroupMerge, EFPageGroupGetLength, locals
<1>3. \A x \in 0 .. start[count] - 1 : ByteAt(x) \in Byte
  BY <1>1, PageOfIn
<1>4. /\ DOMAIN bytes' = 0 .. count' - 1
      /\ \A p \in 0 .. count' - 1 :
           bytes'[p] \in [0 .. start'[p + 1] - start'[p] - 1 -> Byte]
  BY <1>1, <1>2, <1>3
<1>5. TypeOK'
  BY <1>1, <1>2, <1>4 DEF TypeOK, EFPageGetLength
<1>. QED
  BY <1>2, <1>5 DEF IInv, Underway, Walking, Copying, Resting

LEMMA NextIInv == IInv /\ [Next]_vars => IInv'
<1> SUFFICES ASSUME IInv, [Next]_vars PROVE IInv'
  OBVIOUS
<1>1. CASE Call
  BY <1>1, XferIInv DEF Call
<1>2. CASE UNCHANGED vars
  BY <1>2 DEF vars, IInv, TypeOK, EFPageGetLength, EFPageGroupGetLength, Underway,
     Walking, Copying, Resting
<1>. QED
  BY <1>1, <1>2, WalkOnIInv, WalkEndsIInv, CopyIInv, ReturnIInv, ExtendIInv,
     MergeIInv DEF Next

LEMMA SpecIInv == Spec => []IInv
BY InitIInv, NextIInv, PTL DEF Spec

(* The layout of the pages stays one, and every page keeps its length.     *)
THEOREM TypeCorrect == Spec => []TypeOK
<1>1. IInv => TypeOK
  BY DEF IInv
<1>. QED
  BY <1>1, SpecIInv, PTL

(* No iteration of the copying loop leaves its page or the caller's        *)
(* buffer, and each one moves a byte.                                      *)
THEOREM CopiesStayInBounds == Spec => []CopyInBounds
<1>1. IInv => CopyInBounds
  <2> SUFFICES ASSUME IInv, pc = "copy", length > 0
               PROVE  /\ index < count
                      /\ LET pageOff == off - base
                             n == Minimum(length, EFPageGetLength(index) - pageOff)
                         IN /\ n > 0
                            /\ pageOff >= 0 /\ pageOff + n <= EFPageGetLength(index)
                            /\ done + n <= BufferSize
    BY DEF CopyInBounds
  <2> DEFINE pageOff == off - base
             n == Minimum(length, EFPageGetLength(index) - pageOff)
  <2>1. /\ n \in Nat \ {0} /\ n <= length /\ length \in Nat /\ done \in Nat
        /\ pageOff \in Nat /\ pageOff + n <= EFPageGetLength(index)
    BY CopyFacts
  <2>2. index < count /\ done + length <= BufferSize
    BY DEF IInv, Copying, Underway
  <2> HIDE DEF n, pageOff
  <2>3. n > 0 /\ pageOff >= 0 /\ done + n <= BufferSize
    BY <2>1, <2>2, ArgumentsAssumption
  <2>. QED
    BY <2>1, <2>2, <2>3 DEF n, pageOff
<1>. QED
  BY <1>1, SpecIInv, PTL
-----------------------------------------------------------------------------
(* The state of the abstraction, field by field.                           *)
AbsStore ==
  [x \in 0 .. EFPageGroupGetLength - 1 |->
     IF xfer = "write" /\ Pending(x) THEN b[done + x - off] ELSE ByteAt(x)]
AbsBuffer ==
  [i \in DOMAIN b |->
     IF xfer = "read" /\ Pending(off + i - done) THEN ByteAt(off + i - done) ELSE b[i]]
AbsRet == IF pc = "idle" THEN ret ELSE done + length

LEMMA SameAbstraction ==
  ASSUME EFPageGroupGetLength' = EFPageGroupGetLength,
         AbsStore' = AbsStore, AbsBuffer' = AbsBuffer, AbsRet' = AbsRet
  PROVE  UNCHANGED Store!vars
BY DEF AbsStore, AbsBuffer, AbsRet, Store!vars

(* Between transfers the abstraction is the bytes of the pages.            *)
LEMMA IdleAbstraction ==
  ASSUME IInv, pc = "idle"
  PROVE  /\ AbsStore = [x \in 0 .. EFPageGroupGetLength - 1 |-> ByteAt(x)]
         /\ AbsBuffer = b
         /\ AbsRet = ret
<1>1. \A x : ~Pending(x)
  BY DEF Pending
<1>2. b = [i \in DOMAIN b |-> b[i]]
  BY DEF IInv, TypeOK
<1>. QED
  BY <1>1, <1>2 DEF AbsStore, AbsBuffer, AbsRet

(* The bytes of the pages are what they are until a page changes.          *)
LEMMA SameBytes ==
  ASSUME UNCHANGED <<count, start, bytes>>
  PROVE  /\ EFPageGroupGetLength' = EFPageGroupGetLength
         /\ \A x : ByteAt(x)' = ByteAt(x)
BY DEF EFPageGroupGetLength, ByteAt, PageOf

LEMMA ReturnStutters == ASSUME IInv, Return PROVE UNCHANGED Store!vars
<1>1. length = 0
  <2>1. /\ length \in Nat /\ index \in Nat /\ count \in Nat
        /\ length > 0 => index < count
        /\ length = 0 \/ index >= count
    BY LayoutFacts DEF Return, IInv, TypeOK, Copying
  <2>. QED
    BY <2>1
<1>2. \A x : ~Pending(x) /\ ~Pending(x)'
  BY <1>1 DEF Pending, Return, IInv, TypeOK
<1>3. UNCHANGED <<count, start, bytes, xfer, b>> /\ pc' = "idle" /\ ret' = done
  BY DEF Return, pages
<1>4. EFPageGroupGetLength' = EFPageGroupGetLength /\ \A x : ByteAt(x)' = ByteAt(x)
  BY <1>3, SameBytes
<1>5. AbsStore' = AbsStore
  BY <1>2, <1>4 DEF AbsStore
<1>6. AbsBuffer' = AbsBuffer
  BY <1>2, <1>3 DEF AbsBuffer
<1>7. AbsRet' = AbsRet
  BY <1>1, <1>3 DEF AbsRet, Return, IInv, TypeOK
<1>. QED
  BY <1>4, <1>5, <1>6, <1>7, SameAbstraction

LEMMA WalkStutters == ASSUME IInv, WalkOn \/ WalkEnds PROVE UNCHANGED Store!vars
<1>1. /\ UNCHANGED <<count, start, bytes, xfer, off, b, length, done, ret>>
      /\ pc = "walk" /\ pc' # "idle"
  BY DEF WalkOn, WalkEnds, pages, locals
<1>2. EFPageGroupGetLength' = EFPageGroupGetLength /\ \A x : ByteAt(x)' = ByteAt(x)
  BY <1>1, SameBytes
<1>3. \A x : Pending(x)' = Pending(x)
  BY <1>1 DEF Pending
<1>. QED
  BY <1>1, <1>2, <1>3, SameAbstraction DEF AbsStore, AbsBuffer, AbsRet

(* An iteration of the copying loop moves bytes the abstraction has        *)
(* already: what is pending becomes what is in the pages, or the buffer.   *)
LEMMA CopyStutters == ASSUME IInv, Copy PROVE UNCHANGED Store!vars
<1> DEFINE pageOff == off - base
           n == Minimum(length, EFPageGetLength(index) - pageOff)
<1>1. /\ TypeOK /\ pc = "copy" /\ length > 0
      /\ UNCHANGED <<count, start, pc, xfer, ret>>
      /\ done' = done + n /\ length' = length - n /\ off' = off + n
  BY DEF Copy, IInv
<1>2. /\ index \in 0 .. count - 1
      /\ start[index] \in Nat /\ start[index + 1] \in Nat
      /\ base = start[index] /\ off \in Nat /\ length \in Nat /\ done \in Nat
      /\ pageOff \in Nat /\ n \in Nat \ {0} /\ n <= length
      /\ pageOff + n <= EFPageGetLength(index)
      /\ off + n <= start[index + 1]
      /\ EFPageGetLength(index) = start[index + 1] - start[index]
  BY <1>1, CopyFacts
<1>3. /\ DOMAIN bytes = 0 .. count - 1
      /\ \A p \in 0 .. count - 1 : DOMAIN bytes[p] = 0 .. EFPageGetLength(p) - 1
      /\ DOMAIN b = 0 .. BufferSize - 1 /\ BufferSize \in Nat
      /\ done + length <= BufferSize /\ off + length <= start[count]
      /\ xfer \in {"read", "write"}
  BY <1>1, ArgumentsAssumption DEF IInv, TypeOK, Underway, EFPageGroupGetLength
<1>4. EFPageGroupGetLength' = EFPageGroupGetLength /\ \A x : PageOf(x)' = PageOf(x)
  BY <1>1 DEF EFPageGroupGetLength, PageOf
<1>5. /\ EFPageGroupGetLength = start[count] /\ start[count] \in Nat
      /\ start[index + 1] <= start[count]
  BY <1>1, <1>2, TotalType, PageLengths DEF EFPageGroupGetLength
<1>c. xfer = "write" =>
        /\ b' = b
        /\ bytes' = [bytes EXCEPT ![index] =
                      [o \in DOMAIN bytes[index] |->
                         IF o \in pageOff .. pageOff + n - 1
                         THEN b[done + o - pageOff] ELSE bytes[index][o]]]
  BY DEF Copy
<1>d. xfer = "read" =>
        /\ bytes' = bytes
        /\ b' = [i \in DOMAIN b |->
                  IF i \in done .. done + n - 1
                  THEN bytes[index][pageOff + i - done] ELSE b[i]]
  BY DEF Copy
<1>e. pageOff = off - start[index]
  BY <1>2
<1> HIDE DEF pageOff, n
<1>6. \A x \in off .. off + n - 1 :
        /\ PageOf(x) = index /\ x \in 0 .. start[count] - 1
        /\ x - start[index] \in pageOff .. pageOff + n - 1
        /\ x - start[index] \in 0 .. EFPageGetLength(index) - 1
        /\ ByteAt(x) = bytes[index][x - start[index]]
  <2> SUFFICES ASSUME NEW x \in off .. off + n - 1
               PROVE  /\ PageOf(x) = index /\ x \in 0 .. start[count] - 1
                      /\ x - start[index] \in pageOff .. pageOff + n - 1
                      /\ x - start[index] \in 0 .. EFPageGetLength(index) - 1
                      /\ ByteAt(x) = bytes[index][x - start[index]]
    OBVIOUS
  <2>1. /\ x \in start[index] .. start[index + 1] - 1
        /\ x \in 0 .. start[count] - 1
        /\ x - start[index] \in pageOff .. pageOff + n - 1
        /\ x - start[index] \in 0 .. EFPageGetLength(index) - 1
    BY <1>2, <1>5, <1>e
  <2>2. PageOf(x) = index
    BY <1>1, <1>2, <2>1, PageOfIs
  <2>. QED
    BY <2>1, <2>2 DEF ByteAt
<1>7. /\ \A x : Pending(x) <=> x \in off .. off + length - 1
      /\ \A x : Pending(x)' <=> x \in off + n .. off + length - 1
  <2>1. off' = off + n /\ off' + length' - 1 = off + length - 1
    BY <1>1, <1>2
  <2>2. off' .. off' + length' - 1 = off + n .. off + length - 1
    BY <2>1
  <2>3. pc # "idle" /\ pc' # "idle"
    BY <1>1
  <2>. QED
    BY <2>2, <2>3 DEF Pending
<1>8. AbsRet' = AbsRet
  <2>1. pc # "idle" /\ pc' # "idle"
    BY <1>1
  <2>2. done' + length' = done + length
    BY <1>1, <1>2
  <2>. QED
    BY <2>1, <2>2 DEF AbsRet
<1>9. CASE xfer = "write"
  <2>1. ASSUME NEW x \in 0 .. start[count] - 1
        PROVE  (IF Pending(x) THEN b[done + x - off] ELSE ByteAt(x))'
                 = IF Pending(x) THEN b[done + x - off] ELSE ByteAt(x)
    <3>1. CASE x \in off .. off + n - 1
      <4>1. Pending(x) /\ ~Pending(x)'
        BY <1>2, <1>7, <3>1
      <4>2. ByteAt(x)' = bytes'[index][x - start[index]]
        BY <1>1, <1>4, <1>6, <3>1 DEF ByteAt
      <4>3. bytes'[index][x - start[index]] = b[done + (x - start[index]) - pageOff]
        BY <1>2, <1>3, <1>6, <1>9, <1>c, <3>1
      <4>4. done + (x - start[index]) - pageOff = done + x - off
        BY <1>2, <1>e
      <4>. QED
        BY <4>1, <4>2, <4>3, <4>4
    <3>2. CASE x \in off + n .. off + length - 1
      <4>1. Pending(x) /\ Pending(x)'
        BY <1>2, <1>7, <3>2
      <4>2. done' + x - off' = done + x - off
        BY <1>1, <1>2
      <4>. QED
        BY <1>9, <1>c, <4>1, <4>2
    <3>3. CASE x \notin off .. off + length - 1
      <4>1. ~Pending(x) /\ ~Pending(x)'
        BY <1>2, <1>7, <3>3
      <4>2. /\ PageOf(x) \in 0 .. count - 1
            /\ x \in start[PageOf(x)] .. start[PageOf(x) + 1] - 1
            /\ start[PageOf(x)] \in Nat /\ start[PageOf(x) + 1] \in Nat
        BY <1>1, PageOfIn, PageLengths
      <4>3. x - start[PageOf(x)] \in 0 .. EFPageGetLength(PageOf(x)) - 1
        BY <4>2 DEF EFPageGetLength
      <4>4. PageOf(x) = index => x - start[index] \notin pageOff .. pageOff + n - 1
        BY <1>2, <1>e, <3>3
      <4>5. bytes'[PageOf(x)][x - start[PageOf(x)]] = bytes[PageOf(x)][x - start[PageOf(x)]]
        <5>1. CASE PageOf(x) = index
          <6>1. /\ x - start[index] \in DOMAIN bytes[index]
                /\ x - start[index] \notin pageOff .. pageOff + n - 1
            BY <1>2, <1>3, <4>3, <4>4, <5>1
          <6>2. \A o \in DOMAIN bytes[index] :
                  o \notin pageOff .. pageOff + n - 1 => bytes'[index][o] = bytes[index][o]
            BY <1>2, <1>3, <1>9, <1>c
          <6>. QED
            BY <5>1, <6>1, <6>2
        <5>2. CASE PageOf(x) # index
          BY <1>3, <1>9, <1>c, <4>2, <5>2
        <5>. QED
          BY <5>1, <5>2
      <4>6. ByteAt(x)' = ByteAt(x)
        BY <1>1, <1>4, <4>5 DEF ByteAt
      <4>. QED
        BY <4>1, <4>6
    <3>. QED
      BY <1>2, <3>1, <3>2, <3>3
  <2>2. AbsStore' = AbsStore
    BY <1>1, <1>4, <1>5, <1>9, <2>1 DEF AbsStore
  <2>3. AbsBuffer' = AbsBuffer
    BY <1>1, <1>9, <1>c DEF AbsBuffer
  <2>. QED
    BY <1>4, <1>8, <2>2, <2>3, SameAbstraction
<1>10. CASE xfer = "read"
  <2>1. \A x : ByteAt(x)' = ByteAt(x)
    BY <1>1, <1>10, <1>d, SameBytes
  <2>2. AbsStore' = AbsStore
    BY <1>1, <1>4, <1>10, <2>1 DEF AbsStore
  <2>3. ASSUME NEW i \in 0 .. BufferSize - 1
        PROVE  (IF Pending(off + i - done) THEN ByteAt(off + i - done) ELSE b[i])'
                 = IF Pending(off + i - done) THEN ByteAt(off + i - done) ELSE b[i]
    <3>1. PICK y \in Int : y = off + i - done
      BY <1>2, <1>3
    <3>2. off' + i - done' = y
      BY <1>1, <1>2, <1>3, <3>1
    <3>3. SUFFICES (IF Pending(y)' THEN ByteAt(y)' ELSE b'[i])
                     = IF Pending(y) THEN ByteAt(y) ELSE b[i]
      <4>1. Pending(off + i - done) = Pending(y) /\ ByteAt(off + i - done) = ByteAt(y)
        BY <3>1
      <4>2. Pending(off + i - done)' = Pending(y)'
        BY <3>2 DEF Pending
      <4>3. ByteAt(off + i - done)' = ByteAt(y)'
        <5>1. \A u : u = y => ByteAt(u)' = ByteAt(y)'
          OBVIOUS
        <5>. QED
          BY <3>2, <5>1 DEF ByteAt, PageOf
      <4>. QED
        BY <4>1, <4>2, <4>3
    <3>4. CASE i \in done .. done + n - 1
      <4>1. y \in off .. off + n - 1
        BY <1>2, <3>1, <3>4
      <4>2. Pending(y) /\ ~Pending(y)'
        BY <1>2, <1>7, <4>1
      <4>3. b'[i] = bytes[index][pageOff + i - done]
        BY <1>3, <1>10, <1>d, <3>4
      <4>4. pageOff + i - done = y - start[index]
        BY <1>2, <1>3, <1>e, <3>1
      <4>. QED
        BY <1>6, <4>1, <4>2, <4>3, <4>4
    <3>5. CASE i \notin done .. done + n - 1
      <4>1. b'[i] = b[i]
        BY <1>3, <1>10, <1>d, <3>5
      <4>2. y \notin off .. off + n - 1
        BY <1>2, <1>3, <3>1, <3>5
      <4>3. Pending(y)' <=> Pending(y)
        BY <1>2, <1>7, <4>2
      <4>. QED
        BY <2>1, <4>1, <4>3
    <3>. QED
      BY <3>4, <3>5
  <2>4. DOMAIN b' = DOMAIN b
    BY <1>10, <1>d
  <2>5. AbsBuffer' = AbsBuffer
    BY <1>1, <1>3, <1>10, <2>3, <2>4 DEF AbsBuffer
  <2>. QED
    BY <1>4, <1>8, <2>2, <2>5, SameAbstraction
<1>. QED
  BY <1>3, <1>9, <1>10

(* A call of EFPageGroupRead or EFPageGroupWrite is the transfer.          *)
LEMMA XferImplements ==
  ASSUME IInv, NEW kind \in {"read", "write"}, NEW o \in Offsets, NEW n \in Lengths,
         NEW f \in Buffers, Xfer(kind, o, n, f)
  PROVE  Store!Write(o, n, f) \/ Store!Read(o, n, f)
<1> DEFINE total == EFPageGroupGetLength
           m     == Store!Available(o, n)
<1>1. /\ o \in Int /\ n \in Int /\ DOMAIN f = 0 .. BufferSize - 1 /\ BufferSize \in Nat
      /\ f = [i \in DOMAIN f |-> f[i]]
  BY ArgumentsAssumption
<1>2. total \in Nat
  BY TotalType DEF IInv
<1>3. /\ pc = "idle" /\ xfer' = kind /\ b' = f
      /\ UNCHANGED <<count, start, bytes, base, index, done>> /\ done = 0
  BY DEF Xfer, pages, IInv, Resting
<1>4. total' = total /\ \A x : ByteAt(x)' = ByteAt(x)
  BY <1>3, SameBytes
<1>5. /\ AbsStore = [x \in 0 .. total - 1 |-> ByteAt(x)]
      /\ AbsBuffer = b /\ AbsRet = ret
  BY <1>3, IdleAbstraction
<1>6. /\ m \in Nat /\ AbsRet' = m
      /\ \A x : Pending(x)' <=> m > 0 /\ x \in o .. o + m - 1
      /\ m > 0 => off' = o /\ o \in Nat
  <2>1. CASE o < 0 \/ n < 0 \/ o >= total
    <3>1. m = 0 /\ pc' = "idle" /\ ret' = 0
      BY <2>1 DEF Xfer, Store!Available
    <3>. QED
      BY <3>1 DEF AbsRet, Pending
  <2>2. CASE o >= 0 /\ n >= 0 /\ o < total
    <3>1. pc' = "walk" /\ off' = o /\ length' = Minimum(n, total - o) /\ done' = 0
      BY <1>1, <1>2, <1>3, <2>2 DEF Xfer
    <3>2. Minimum(n, total - o) = m /\ m \in Nat
      BY <1>1, <1>2, <2>2 DEF Store!Available, Minimum
    <3>3. done' + length' = m
      BY <3>1, <3>2
    <3>4. AbsRet' = m
      BY <3>1, <3>3 DEF AbsRet
    <3>5. \A x : Pending(x)' <=> x \in o .. o + m - 1
      BY <3>1, <3>2 DEF Pending
    <3>6. m = 0 => o .. o + m - 1 = {}
      BY <1>1
    <3>7. m = 0 \/ m > 0
      BY <3>2
    <3>. QED
      BY <1>1, <2>2, <3>1, <3>2, <3>4, <3>5, <3>6, <3>7
  <2>. QED
    BY <1>1, <1>2, <2>1, <2>2
<1> HIDE DEF m
<1>7. m = 0 => o .. o + m - 1 = {} /\ 0 .. m - 1 = {}
  BY <1>1
<1>8. CASE kind = "write"
  <2>1. ASSUME NEW x \in 0 .. total - 1
        PROVE  (IF Pending(x)' THEN b'[done' + x - off'] ELSE ByteAt(x)')
                 = IF x \in o .. o + m - 1 THEN f[x - o] ELSE ByteAt(x)
    <3>1. CASE m = 0
      BY <1>4, <1>6, <1>7, <3>1
    <3>2. CASE m > 0
      <4>1. x \in Int /\ done' + x - off' = x - o
        BY <1>1, <1>2, <1>3, <1>6, <3>2
      <4>. QED
        BY <1>3, <1>4, <1>6, <3>2, <4>1
    <3>. QED
      BY <1>6, <3>1, <3>2
  <2>2. AbsStore' = [x \in 0 .. total - 1 |->
                       IF x \in o .. o + m - 1 THEN f[x - o] ELSE ByteAt(x)]
    <3>1. AbsStore' = [x \in 0 .. total' - 1 |->
                         IF Pending(x)' THEN b'[done' + x - off'] ELSE ByteAt(x)']
      BY <1>3, <1>8 DEF AbsStore
    <3>. QED
      BY <1>4, <2>1, <3>1
  <2>3. AbsStore' = [x \in DOMAIN AbsStore |->
                       IF x \in o .. o + AbsRet' - 1 THEN f[x - o] ELSE AbsStore[x]]
    BY <1>5, <1>6, <2>2
  <2>4. AbsBuffer' = f
    BY <1>1, <1>3, <1>8 DEF AbsBuffer
  <2>5. Store!Write(o, n, f)
    BY <1>4, <1>6, <2>3, <2>4 DEF Store!Write, AbsStore, AbsBuffer, AbsRet, m
  <2>. QED
    BY <2>5
<1>9. CASE kind = "read"
  <2>1. AbsStore' = AbsStore
    BY <1>3, <1>4, <1>5, <1>9 DEF AbsStore
  <2>2. ASSUME NEW i \in DOMAIN f
        PROVE  (IF Pending(off + i - done) THEN ByteAt(off + i - done) ELSE b[i])'
                 = IF i \in 0 .. m - 1 THEN AbsStore[o + i] ELSE f[i]
    <3>1. CASE m = 0
      BY <1>3, <1>6, <1>7, <3>1 DEF Pending
    <3>2. CASE m > 0
      <4>1. off' + i - done' = o + i /\ i \in Nat
        BY <1>1, <1>3, <1>6, <3>2
      <4>2. Pending(off + i - done)' = Pending(o + i)'
        BY <4>1 DEF Pending
      <4>3. ByteAt(off + i - done)' = ByteAt(o + i)'
        <5>1. \A u : u = o + i => ByteAt(u)' = ByteAt(o + i)'
          OBVIOUS
        <5>. QED
          BY <4>1, <5>1 DEF ByteAt, PageOf
      <4>4. Pending(o + i)' <=> i \in 0 .. m - 1
        BY <1>1, <1>6, <3>2, <4>1
      <4>5. i \in 0 .. m - 1 => o + i \in 0 .. total - 1
        BY <1>1, <1>2, <1>6, <3>2, <4>1 DEF m, Store!Available
      <4>. QED
        BY <1>3, <1>4, <1>5, <4>2, <4>3, <4>4, <4>5
    <3>. QED
      BY <1>6, <3>1, <3>2
  <2>3. AbsBuffer' = [i \in DOMAIN f |-> IF i \in 0 .. AbsRet' - 1 THEN AbsStore[o + i] ELSE f[i]]
    BY <1>3, <1>6, <1>9, <2>2 DEF AbsBuffer
  <2>4. Store!Read(o, n, f)
    BY <1>4, <1>6, <2>1, <2>3 DEF Store!Read, AbsStore, AbsBuffer, AbsRet, m
  <2>. QED
    BY <2>4
<1>. QED
  BY <1>8, <1>9

LEMMA ExtendImplements == ASSUME IInv, EFPageGroupExtend PROVE Store!Grow
<1> DEFINE total == EFPageGroupGetLength
<1>1. /\ TypeOK /\ TypeOK' /\ count' = count + 1 /\ count \in Nat /\ start[count] \in Nat
      /\ \A i \in 0 .. count : start'[i] = start[i]
      /\ start'[count + 1] = start[count] + PageLength
      /\ PageLength \in Nat /\ PageLength > 0
  BY ExtendLayout, ExtendIInv, PageLengthAssumption DEF IInv
<1>2. /\ bytes' = [p \in 0 .. count |->
                    IF p < count THEN bytes[p]
                    ELSE [o \in 0 .. PageLength - 1 |-> Zero]]
      /\ pc = "idle"
      /\ UNCHANGED <<pc, xfer, off, b, length, base, index, done, ret>>
  BY DEF EFPageGroupExtend, locals
<1>3. total = start[count] /\ total' = start[count] + PageLength
  BY <1>1 DEF EFPageGroupGetLength
<1>4. /\ AbsStore = [x \in 0 .. total - 1 |-> ByteAt(x)] /\ AbsBuffer = b /\ AbsRet = ret
      /\ AbsStore' = [x \in 0 .. total' - 1 |-> ByteAt(x)'] /\ AbsBuffer' = b' /\ AbsRet' = ret'
  <2>1. \A x : ~Pending(x) /\ ~Pending(x)'
    BY <1>2 DEF Pending
  <2>2. b = [j \in DOMAIN b |-> b[j]]
    BY <1>1 DEF TypeOK
  <2>. QED
    BY <1>2, <2>1, <2>2 DEF AbsStore, AbsBuffer, AbsRet
<1>5. ASSUME NEW x \in 0 .. total' - 1, NEW p \in 0 .. count' - 1,
             x \in start'[p] .. start'[p + 1] - 1
      PROVE  PageOf(x)' = p
  BY <1>1, <1>5, PageOfIsAfter
<1>6. ASSUME NEW x \in 0 .. total - 1
      PROVE  ByteAt(x)' = ByteAt(x)
  <2>1. /\ PageOf(x) \in 0 .. count - 1
        /\ x \in start[PageOf(x)] .. start[PageOf(x) + 1] - 1
    BY <1>1, <1>3, PageOfIn
  <2>2. /\ start'[PageOf(x)] = start[PageOf(x)]
        /\ start'[PageOf(x) + 1] = start[PageOf(x) + 1]
    BY <1>1, <2>1
  <2>3. PageOf(x)' = PageOf(x)
    <3>1. x \in 0 .. total' - 1 /\ PageOf(x) \in 0 .. count' - 1
      BY <1>1, <1>3, <2>1
    <3>. QED
      BY <1>5, <2>1, <2>2, <3>1
  <2>4. bytes'[PageOf(x)] = bytes[PageOf(x)]
    BY <1>1, <1>2, <2>1
  <2>. QED
    BY <2>2, <2>3, <2>4 DEF ByteAt
<1>7. ASSUME NEW x \in 0 .. total' - 1, x \notin 0 .. total - 1
      PROVE  ByteAt(x)' = Zero
  <2>1. x \in start'[count] .. start'[count + 1] - 1 /\ count \in 0 .. count' - 1
    BY <1>1, <1>3, <1>7
  <2>2. PageOf(x)' = count
    BY <1>5, <2>1
  <2>3. x - start'[count] \in 0 .. PageLength - 1
    BY <1>1, <2>1
  <2>4. bytes'[count] = [o \in 0 .. PageLength - 1 |-> Zero]
    BY <1>1, <1>2
  <2>. QED
    BY <2>2, <2>3, <2>4 DEF ByteAt
<1>8. AbsStore' = [x \in 0 .. total' - 1 |->
                     IF x \in DOMAIN AbsStore THEN AbsStore[x] ELSE Zero]
  BY <1>4, <1>6, <1>7
<1>. QED
  BY <1>2, <1>3, <1>4, <1>8 DEF Store!Grow, AbsStore, AbsBuffer, AbsRet

(* One page holds what the pages held.                                     *)
LEMMA MergeStutters == ASSUME IInv, EFPageGroupMerge PROVE UNCHANGED Store!vars
<1>1. /\ TypeOK /\ TypeOK' /\ count' = 1 /\ start'[0] = 0 /\ start'[1] = start[count]
      /\ start[count] \in Nat \ {0}
  BY MergeLayout, MergeIInv DEF IInv
<1>2. /\ bytes' = [p \in 0 .. 0 |-> [x \in 0 .. start[count] - 1 |-> ByteAt(x)]]
      /\ pc = "idle"
      /\ UNCHANGED <<pc, xfer, off, b, length, base, index, done, ret>>
  BY DEF EFPageGroupMerge, EFPageGroupGetLength, locals
<1>3. EFPageGroupGetLength' = EFPageGroupGetLength /\ EFPageGroupGetLength = start[count]
  BY <1>1 DEF EFPageGroupGetLength
<1>4. ASSUME NEW x \in 0 .. start[count] - 1
      PROVE  ByteAt(x)' = ByteAt(x)
  <2>1. x \in start'[0] .. start'[0 + 1] - 1 /\ 0 \in 0 .. count' - 1
    BY <1>1
  <2>2. PageOf(x)' = 0
    BY <1>1, <2>1, PageOfIsAfter
  <2>3. bytes'[0][x - start'[0]] = ByteAt(x)
    BY <1>1, <1>2
  <2>. QED
    BY <2>2, <2>3 DEF ByteAt
<1>5. \A x : ~Pending(x) /\ ~Pending(x)'
  BY <1>2 DEF Pending
<1>6. AbsStore' = AbsStore
  BY <1>3, <1>4, <1>5 DEF AbsStore
<1>7. AbsBuffer' = AbsBuffer /\ AbsRet' = AbsRet
  BY <1>2, <1>5 DEF AbsBuffer, AbsRet
<1>. QED
  BY <1>3, <1>6, <1>7, SameAbstraction

LEMMA InitImplements == Init => Store!Init
<1> SUFFICES ASSUME Init PROVE Store!Init
  OBVIOUS
<1>1. IInv /\ pc = "idle" /\ ret = 0 /\ b \in Buffers
  BY InitIInv DEF Init
<1>2. TypeOK /\ EFPageGroupGetLength \in Nat
  BY <1>1, TotalType DEF IInv
<1>3. AbsStore \in [0 .. EFPageGroupGetLength - 1 -> Byte]
  <2>1. \A x \in 0 .. EFPageGroupGetLength - 1 : ByteAt(x) \in Byte
    BY <1>2, PageOfIn DEF EFPageGroupGetLength
  <2>. QED
    BY <1>1, <2>1, IdleAbstraction
<1>4. AbsBuffer = b /\ AbsRet = ret
  BY <1>1, IdleAbstraction
<1>. QED
  BY <1>1, <1>2, <1>3, <1>4 DEF Store!Init, AbsStore, AbsBuffer, AbsRet

LEMMA StepImplements == IInv /\ [Next]_vars => [Store!Next]_(Store!vars)
<1> SUFFICES ASSUME IInv, [Next]_vars PROVE Store!Next \/ UNCHANGED Store!vars
  OBVIOUS
<1>1. CASE Call
  BY <1>1, XferImplements DEF Call, Store!Next
<1>2. CASE EFPageGroupExtend
  BY <1>2, ExtendImplements DEF Store!Next
<1>3. CASE UNCHANGED vars
  <2>1. UNCHANGED <<count, start, bytes, pc, xfer, off, b, length, done, ret>>
    BY <1>3 DEF vars
  <2>2. EFPageGroupGetLength' = EFPageGroupGetLength /\ \A x : ByteAt(x)' = ByteAt(x)
    BY <2>1, SameBytes
  <2>3. \A x : Pending(x)' = Pending(x)
    BY <2>1 DEF Pending
  <2>. QED
    BY <2>1, <2>2, <2>3, SameAbstraction DEF AbsStore, AbsBuffer, AbsRet
<1>. QED
  BY <1>1, <1>2, <1>3, WalkStutters, CopyStutters, ReturnStutters, MergeStutters
     DEF Next

(* Reads, writes, extensions and merges of a group of pages, loop by loop, *)
(* are those of one flat store of bytes, whatever the layout of the pages. *)
THEOREM GroupImplementsByteStore == Spec => ImplementsByteStore
<1>1. Spec => Store!Init
  BY InitImplements DEF Spec
<1>2. Spec => [][Store!Next]_(Store!vars)
  BY StepImplements, SpecIInv, PTL DEF Spec
<1>. QED
  BY <1>1, <1>2 DEF ImplementsByteStore, Store!Spec

=============================================================================
