---------------------------- MODULE EFPageGroup ----------------------------
(***************************************************************************)
(* The bytes of an EFPageGroup: EFPageGroupRead and EFPageGroupWrite, one  *)
(* step for each iteration of the loops of __EFPageGroupXfer, with         *)
(* EFPageGroupExtend and EFPageGroupMerge between transfers.               *)
(*                                                                         *)
(* Pages are numbered from 0 and have any positive lengths: a group made   *)
(* by EFPageGroupCreateWithPages or merged before has pages that are not   *)
(* of the system's page length.  No page is in the group twice.  A group   *)
(* is used by one thread at a time: nothing in it synchronizes.            *)
(***************************************************************************)
EXTENDS Integers

CONSTANTS
  Byte, Zero,       \* what a byte holds, and what fresh memory holds
  PageLength,       \* __EFPageGetPageLength
  Layouts,          \* the groups we start from, as tables of starts
  Offsets, Lengths, \* the arguments of transfers (bounds)
  Buffers,          \* the buffers of callers (a bound) ...
  BufferSize,       \* ... and how many bytes each has
  MaxLength         \* no EFPageGroupExtend beyond this length (a bound)

(* L.start[i] is the sum of the lengths of the pages before page i; no     *)
(* page is empty and no address is between pages.                          *)
IsLayout(L) ==
  /\ L.count \in Nat
  /\ L.start \in [0 .. L.count -> Nat]
  /\ L.start[0] = 0
  /\ \A i, j \in 0 .. L.count : i < j => L.start[i] < L.start[j]
  /\ \A x \in 0 .. L.start[L.count] - 1 :
       \E p \in 0 .. L.count - 1 : x \in L.start[p] .. L.start[p + 1] - 1

ASSUME ByteAssumption == Zero \in Byte
ASSUME PageLengthAssumption == PageLength \in Nat \ {0}
ASSUME LayoutsAssumption == \A L \in Layouts : IsLayout(L)
ASSUME ArgumentsAssumption ==
  /\ Offsets \subseteq Int /\ Lengths \subseteq Int
  /\ BufferSize \in Nat /\ Buffers \subseteq [0 .. BufferSize - 1 -> Byte]

VARIABLES
  count, start,  \* how many pages, and the layout they make
  bytes,         \* page -> offset in the page -> byte
  pc,            \* "idle", or which loop of __EFPageGroupXfer
  xfer, off, b, length, base, index, done,  \* its arguments and locals, the
                                            \* numbers 0 outside of it
  ret            \* what it last returned

pages  == <<count, start, bytes>>
locals == <<xfer, off, b, length, base, index, done>>
vars   == <<count, start, bytes, pc, xfer, off, b, length, base, index, done, ret>>

EFPageGetLength(p)   == start[p + 1] - start[p]
EFPageGroupGetLength == start[count]
Minimum(m, n)        == IF m < n THEN m ELSE n

(* The page an address of the group is in, and the byte there.             *)
PageOf(x) == CHOOSE p \in 0 .. count - 1 : x \in start[p] .. start[p + 1] - 1
ByteAt(x) == bytes[PageOf(x)][x - start[PageOf(x)]]

Init ==
  /\ \E L \in Layouts : count = L.count /\ start = L.start
  /\ bytes = [p \in 0 .. count - 1 |->
                [o \in 0 .. EFPageGetLength(p) - 1 |-> Zero]]
  /\ pc = "idle"
  /\ xfer = "read"
  /\ b \in Buffers
  /\ off = 0 /\ length = 0 /\ base = 0 /\ index = 0 /\ done = 0 /\ ret = 0
-----------------------------------------------------------------------------
XferAnyLength(kind, o, n, buffer) ==
  /\ pc = "idle"
  /\ LET total   == EFPageGroupGetLength
         nothing == o < 0 \/ o >= total
     IN /\ pc' = IF nothing THEN "idle" ELSE "walk"
        /\ length' = IF nothing THEN 0 ELSE Minimum(n, total - o)
        /\ ret' = IF nothing THEN 0 ELSE ret
        /\ off' = IF nothing THEN 0 ELSE o
  /\ xfer' = kind
  /\ b' = buffer
  /\ UNCHANGED <<pages, base, index, done>>

XferBeforeStart(kind, o, n, buffer) ==
  /\ pc = "idle"
  /\ LET total   == EFPageGroupGetLength
         nothing == n < 0 \/ o >= total
     IN /\ pc' = IF nothing THEN "idle" ELSE "walk"
        /\ length' = IF nothing THEN 0 ELSE Minimum(n, total - o)
        /\ ret' = IF nothing THEN 0 ELSE ret
        /\ off' = IF nothing THEN 0 ELSE o
  /\ xfer' = kind
  /\ b' = buffer
  /\ UNCHANGED <<pages, base, index, done>>

(* Up to the first loop: a transfer that is out of range returns 0, one    *)
(* that reaches past the end is cut.                                       *)
Xfer(kind, o, n, buffer) ==
  /\ pc = "idle"
  /\ LET total   == EFPageGroupGetLength
         nothing == o < 0 \/ n < 0 \/ o >= total
     IN /\ pc' = IF nothing THEN "idle" ELSE "walk"
        /\ length' = IF nothing THEN 0 ELSE Minimum(n, total - o)
        /\ ret' = IF nothing THEN 0 ELSE ret
        /\ off' = IF nothing THEN 0 ELSE o
  /\ xfer' = kind
  /\ b' = buffer
  /\ UNCHANGED <<pages, base, index, done>>

(* Walk past a page that ends at or before the offset ...                  *)
WalkOn ==
  /\ pc = "walk"
  /\ index < count
  /\ base + EFPageGetLength(index) <= off
  /\ base' = base + EFPageGetLength(index)
  /\ index' = index + 1
  /\ UNCHANGED <<pages, pc, xfer, off, b, length, done, ret>>

(* ... and stop at the page that contains it.                              *)
WalkEnds ==
  /\ pc = "walk"
  /\ index < count => base + EFPageGetLength(index) > off
  /\ pc' = "copy"
  /\ UNCHANGED <<pages, locals, ret>>

CopySamePage ==
  /\ pc = "copy"
  /\ length > 0 /\ index < count
  /\ LET pageOff == off - base
         n == Minimum(length, EFPageGetLength(index) - pageOff)
     IN /\ IF xfer = "write"
           THEN /\ bytes' = [bytes EXCEPT ![index] =
                               [o \in DOMAIN bytes[index] |->
                                  IF o \in pageOff .. pageOff + n - 1
                                  THEN b[done + o - pageOff] ELSE bytes[index][o]]]
                /\ UNCHANGED b
           ELSE /\ b' = [i \in DOMAIN b |->
                          IF i \in done .. done + n - 1
                          THEN bytes[index][pageOff + i - done] ELSE b[i]]
                /\ UNCHANGED bytes
        /\ done' = done + n
        /\ length' = length - n
        /\ off' = off + n
  /\ UNCHANGED <<count, start, pc, xfer, base, index, ret>>

CopyBufferFromStart ==
  /\ pc = "copy"
  /\ length > 0 /\ index < count
  /\ LET pageOff == off - base
         n == Minimum(length, EFPageGetLength(index) - pageOff)
     IN /\ IF xfer = "write"
           THEN /\ bytes' = [bytes EXCEPT ![index] =
                               [o \in DOMAIN bytes[index] |->
                                  IF o \in pageOff .. pageOff + n - 1
                                  THEN b[o - pageOff] ELSE bytes[index][o]]]
                /\ UNCHANGED b
           ELSE /\ b' = [i \in DOMAIN b |->
                          IF i \in done .. done + n - 1
                          THEN bytes[index][pageOff + i - done] ELSE b[i]]
                /\ UNCHANGED bytes
        /\ done' = done + n
        /\ length' = length - n
        /\ off' = off + n
        /\ base' = base + EFPageGetLength(index)
        /\ index' = index + 1
  /\ UNCHANGED <<count, start, pc, xfer, ret>>

(* One iteration of the copying loop: n bytes of one page.                 *)
Copy ==
  /\ pc = "copy"
  /\ length > 0 /\ index < count
  /\ LET pageOff == off - base
         n == Minimum(length, EFPageGetLength(index) - pageOff)
     IN /\ IF xfer = "write"
           THEN /\ bytes' = [bytes EXCEPT ![index] =
                               [o \in DOMAIN bytes[index] |->
                                  IF o \in pageOff .. pageOff + n - 1
                                  THEN b[done + o - pageOff] ELSE bytes[index][o]]]
                /\ UNCHANGED b
           ELSE /\ b' = [i \in DOMAIN b |->
                          IF i \in done .. done + n - 1
                          THEN bytes[index][pageOff + i - done] ELSE b[i]]
                /\ UNCHANGED bytes
        /\ done' = done + n
        /\ length' = length - n
        /\ off' = off + n
        /\ base' = base + EFPageGetLength(index)
        /\ index' = index + 1
  /\ UNCHANGED <<count, start, pc, xfer, ret>>

Return ==
  /\ pc = "copy"
  /\ length = 0 \/ index >= count
  /\ pc' = "idle"
  /\ ret' = done
  /\ off' = 0 /\ length' = 0 /\ base' = 0 /\ index' = 0 /\ done' = 0
  /\ UNCHANGED <<pages, xfer, b>>
-----------------------------------------------------------------------------
(* EFPageGroupExtend: a fresh page of the system's length at the end.      *)
(* When the page or its place in the array cannot be had, nothing changes. *)
EFPageGroupExtend ==
  /\ pc = "idle"
  /\ EFPageGroupGetLength + PageLength <= MaxLength
  /\ count' = count + 1
  /\ start' = [i \in 0 .. count + 1 |->
                 IF i <= count THEN start[i] ELSE start[count] + PageLength]
  /\ bytes' = [p \in 0 .. count |->
                 IF p < count THEN bytes[p] ELSE [o \in 0 .. PageLength - 1 |-> Zero]]
  /\ UNCHANGED <<pc, locals, ret>>

(* EFPageGroupMerge: one page of the total length takes the place of all.  *)
(* A group without pages stays as it is, one whose new page cannot be had  *)
(* too.                                                                    *)
EFPageGroupMerge ==
  /\ pc = "idle"
  /\ count > 0
  /\ count' = 1
  /\ start' = [i \in 0 .. 1 |-> IF i = 0 THEN 0 ELSE EFPageGroupGetLength]
  /\ bytes' = [p \in 0 .. 0 |-> [x \in 0 .. EFPageGroupGetLength - 1 |-> ByteAt(x)]]
  /\ UNCHANGED <<pc, locals, ret>>
-----------------------------------------------------------------------------
Call ==
  \E kind \in {"read", "write"}, o \in Offsets, n \in Lengths, f \in Buffers :
    n <= BufferSize /\ Xfer(kind, o, n, f)

Next ==
  \/ Call
  \/ WalkOn \/ WalkEnds \/ Copy \/ Return
  \/ EFPageGroupExtend \/ EFPageGroupMerge

Spec == Init /\ [][Next]_vars

(* The loops run on their own.                                             *)
FairSpec == Spec /\ WF_vars(WalkOn \/ WalkEnds \/ Copy \/ Return)
-----------------------------------------------------------------------------
TypeOK ==
  /\ IsLayout([count |-> count, start |-> start])
  /\ DOMAIN bytes = 0 .. count - 1
  /\ \A p \in 0 .. count - 1 : bytes[p] \in [0 .. EFPageGetLength(p) - 1 -> Byte]
  /\ pc \in {"idle", "walk", "copy"}
  /\ xfer \in {"read", "write"}
  /\ off \in Int
  /\ length \in Nat /\ base \in Nat /\ index \in Nat /\ done \in Nat /\ ret \in Nat
  /\ b \in [0 .. BufferSize - 1 -> Byte]

(* An iteration of the copying loop stays inside its page and inside the   *)
(* caller's buffer, and moves at least one byte.                           *)
CopyInBounds ==
  pc = "copy" /\ length > 0 =>
    /\ index < count
    /\ LET pageOff == off - base
           n == Minimum(length, EFPageGetLength(index) - pageOff)
       IN /\ n > 0
          /\ pageOff >= 0 /\ pageOff + n <= EFPageGetLength(index)
          /\ done + n <= BufferSize

(* Every transfer returns.                                                 *)
Returns == pc # "idle" ~> pc = "idle"

(* Refinement: while a transfer runs, the store of the abstraction already *)
(* has the bytes the loop has still to copy.                               *)
Pending(x) == pc # "idle" /\ x \in off .. off + length - 1

Store == INSTANCE EFByteStore WITH
  size <- EFPageGroupGetLength,
  store <- [x \in 0 .. EFPageGroupGetLength - 1 |->
              IF xfer = "write" /\ Pending(x) THEN b[done + x - off] ELSE ByteAt(x)],
  buffer <- [i \in DOMAIN b |->
              IF xfer = "read" /\ Pending(off + i - done)
              THEN ByteAt(off + i - done) ELSE b[i]],
  ret <- IF pc = "idle" THEN ret ELSE done + length

(* Whatever the layout of the pages, transfers, extensions and merges are  *)
(* those of one flat store; in particular a merge changes no byte.         *)
ImplementsByteStore == Store!Spec
=============================================================================
