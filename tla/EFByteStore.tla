---------------------------- MODULE EFByteStore ----------------------------
(***************************************************************************)
(* What a page group promises to those who read and write it: one flat     *)
(* store of bytes that grows by zeros at its end, and transfers that move  *)
(* as many of the requested bytes as the store holds, in one step.         *)
(***************************************************************************)
EXTENDS Integers

CONSTANTS Byte, Zero, Offsets, Lengths, Buffers, PageLength

VARIABLES
  size,    \* how many bytes there are
  store,   \* address -> byte
  buffer,  \* the caller's buffer of the latest transfer
  ret      \* what that transfer returned

vars == <<size, store, buffer, ret>>

(* How many of n bytes from o on the store has.                            *)
Available(o, n) ==
  IF o < 0 \/ n < 0 \/ o >= size THEN 0
  ELSE IF n > size - o THEN size - o ELSE n

(* A store is given with any size and any bytes.                           *)
Init ==
  /\ size \in Nat
  /\ store \in [0 .. size - 1 -> Byte]
  /\ buffer \in Buffers
  /\ ret = 0

Write(o, n, data) ==
  /\ ret' = Available(o, n)
  /\ store' = [x \in DOMAIN store |->
                 IF x \in o .. o + ret' - 1 THEN data[x - o] ELSE store[x]]
  /\ buffer' = data
  /\ UNCHANGED size

(* The part of the buffer that is not filled keeps what it had.            *)
Read(o, n, data) ==
  /\ ret' = Available(o, n)
  /\ buffer' = [i \in DOMAIN data |->
                  IF i \in 0 .. ret' - 1 THEN store[o + i] ELSE data[i]]
  /\ UNCHANGED <<size, store>>

Grow ==
  /\ size' = size + PageLength
  /\ store' = [x \in 0 .. size' - 1 |-> IF x \in DOMAIN store THEN store[x] ELSE Zero]
  /\ UNCHANGED <<buffer, ret>>

Next ==
  \/ \E o \in Offsets, n \in Lengths, data \in Buffers :
       Write(o, n, data) \/ Read(o, n, data)
  \/ Grow

Spec == Init /\ [][Next]_vars
=============================================================================
