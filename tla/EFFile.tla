------------------------------- MODULE EFFile -------------------------------
(***************************************************************************)
(* What a virtual file promises to the one who reads and writes it: bytes  *)
(* at every address, zero until written, a position, an end, and calls     *)
(* that happen at once or not at all.                                      *)
(***************************************************************************)
EXTENDS Integers

CONSTANTS
  Byte, Zero,
  MaxIndex,                        \* the largest address (of EFIndex)
  Offsets, Lengths, Buffers        \* the arguments of calls (bounds)

VARIABLES
  content,   \* address -> byte
  position,  \* where the next read or write begins
  end,       \* what EFFileHandleGetLength answers
  buffer,    \* the buffer of the latest read or write
  ret        \* what the latest call returned

vars == <<content, position, end, buffer, ret>>

Larger(m, n) == IF m > n THEN m ELSE n

Init ==
  /\ content = [x \in 0 .. MaxIndex |-> Zero]
  /\ position = 0 /\ end = 0 /\ ret = 0
  /\ buffer \in Buffers

(* A read is short only when all that follows is zero.                     *)
Read(n, data) ==
  \E k \in 0 .. Larger(n, 0) :
    /\ k < n => \A x \in position + k .. MaxIndex : content[x] = Zero
    /\ position + k <= MaxIndex + 1
    /\ buffer' = [i \in DOMAIN data |->
                    IF i < k THEN content[position + i] ELSE data[i]]
    /\ position' = position + k
    /\ ret' = k
    /\ UNCHANGED <<content, end>>

(* A write is never short: it fails and changes nothing, writes all of its *)
(* bytes, or writes none (when n is not positive, or the last byte would   *)
(* be past the addresses).                                                 *)
Write(n, data) ==
  LET k == IF position + n <= MaxIndex THEN Larger(n, 0) ELSE 0
  IN /\ content' = [x \in DOMAIN content |->
                      IF x \in position .. position + k - 1
                      THEN data[x - position] ELSE content[x]]
     /\ position' = position + k
     /\ end' = Larger(end, position + k)
     /\ buffer' = data
     /\ ret' = k

(* What was past the new end is gone; the end stays where it is.           *)
Truncate(n) ==
  /\ n >= 0
  /\ content' = [x \in DOMAIN content |-> IF x < n THEN content[x] ELSE Zero]
  /\ ret' = -1
  /\ UNCHANGED <<position, end>>

Seek(base, o) ==
  /\ base + o \in 0 .. MaxIndex
  /\ position' = base + o
  /\ ret' = position'
  /\ UNCHANGED <<content, end, buffer>>

Fail == ret' = -1 /\ UNCHANGED <<content, position, end, buffer>>

Next ==
  \/ \E n \in Lengths, data \in Buffers : Read(n, data) \/ Write(n, data)
  \/ \E n \in Lengths \cup Offsets : Truncate(n)
  \/ \E o \in Offsets : Seek(0, o) \/ Seek(position, o) \/ Seek(end, o)
  \/ Fail

Spec == Init /\ [][Next]_vars
=============================================================================
