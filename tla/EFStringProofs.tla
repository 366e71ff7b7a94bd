--------------------------- MODULE EFStringProofs ---------------------------
(***************************************************************************)
(* Strings own their buffers, always; and each is a text of its own as     *)
(* long as clients leave a mutable string alone while a copy shares its    *)
(* buffer.  What every step shows first is that it leaves the characters   *)
(* of all other strings where and as they are (Undisturbed).               *)
(***************************************************************************)
EXTENDS EFString, SequenceTheorems, TLAPS

Characters == Character \cup {NUL}

LEMMA Prefix ==
  ASSUME NEW S, NEW m \in Seq(S), NEW n \in Nat, n <= Len(m)
  PROVE  /\ SubSeq(m, 1, n) \in Seq(S)
         /\ Len(SubSeq(m, 1, n)) = n
         /\ \A i \in 1 .. n : SubSeq(m, 1, n)[i] = m[i]
  OBVIOUS

LEMMA Terminated ==
  ASSUME NEW t \in Seq(Characters)
  PROVE  /\ Append(t, NUL) \in Seq(Characters)
         /\ Append(t, NUL) # <<>>
         /\ Len(Append(t, NUL)) = Len(t) + 1
         /\ Append(t, NUL)[Len(t) + 1] = NUL
         /\ SubSeq(Append(t, NUL), 1, Len(t)) = t
<1>1. NUL \in Characters
  BY DEF Characters
<1>2. /\ Append(t, NUL) \in Seq(Characters)
      /\ Len(Append(t, NUL)) = Len(t) + 1
      /\ Append(t, NUL)[Len(t) + 1] = NUL
  BY <1>1
<1>3. SubSeq(Append(t, NUL), 1, Len(t)) = t
  BY <1>1
<1> QED  BY <1>2, <1>3

(* A call on s leaves the other strings as they are.                       *)
Undisturbed(s) ==
  \A t \in Strings \ {s} :
    /\ buffer'[t] = buffer[t] /\ length'[t] = length[t]
    /\ encoding'[t] = encoding[t] /\ isMutable'[t] = isMutable[t]
    /\ Live(t) => memory'[buffer[t]] = memory[buffer[t]]

IInv == TypeOK /\ BuffersOwned /\ (Borrowing => TextsComply)

LEMMA Initially == Init => IInv
<1> SUFFICES ASSUME Init PROVE IInv
  OBVIOUS
<1> USE DEF Init, Live
<1>1. TypeOK
  <2>1. memory \in [Places -> Seq(Character \cup {NUL})]
    BY ContentsAssumption DEF Places
  <2>2. <<>> \in Word
    BY DEF Word
  <2> QED  BY <2>1, <2>2 DEF TypeOK
<1>2. BuffersOwned
  BY PlacesAssumption DEF BuffersOwned, Placed, isInlined, Places
<1>3. TextsComply
  BY DEF TextsComply
<1> QED  BY <1>1, <1>2, <1>3 DEF IInv

(* The text of a string whose characters are there.                        *)
LEMMA TextOfIntact ==
  ASSUME TypeOK, NEW s \in Strings, Intact(s)
  PROVE  /\ buffer[s] \in Places /\ memory[buffer[s]] \in Seq(Characters)
         /\ length[s] \in Nat /\ length[s] <= Len(memory[buffer[s]])
         /\ Text(s) \in Seq(Characters) /\ Len(Text(s)) = length[s]
         /\ \A i \in 1 .. length[s] : Text(s)[i] = memory[buffer[s]][i]
         /\ encoding[s] \in Encodings
<1>1. buffer[s] \in Places /\ encoding[s] \in Encodings
  BY DEF TypeOK, Intact, Live
<1>2. /\ memory[buffer[s]] \in Seq(Characters)
      /\ length[s] \in Nat /\ length[s] <= Len(memory[buffer[s]])
  BY <1>1 DEF TypeOK, Intact, Characters
<1> QED  BY <1>1, <1>2, Prefix DEF Text

-----------------------------------------------------------------------------
(* A new mutable string in a free buffer.                                  *)
LEMMA NewInHeap ==
  ASSUME TypeOK, BuffersOwned, NEW s \in Strings, ~Live(s), NEW b \in FreeHeap,
         NEW t \in Seq(Characters), NEW e \in Encodings,
         memory' = [memory EXCEPT ![b] = Append(t, NUL)],
         Construct(s, b, Len(t), e, TRUE)
  PROVE  /\ TypeOK' /\ BuffersOwned'
         /\ TextsComply => Undisturbed(s)
         /\ buffer'[s] = b /\ length'[s] = Len(t) /\ encoding'[s] = e /\ isMutable'[s]
         /\ memory'[b] = Append(t, NUL)
<1>1. /\ b \in Heap /\ b \in Places /\ memory[b] = <<>> /\ b # Null /\ b \notin Strings
      /\ b \notin Foreign
  BY PlacesAssumption DEF FreeHeap, Places
<1>2. /\ Append(t, NUL) \in Seq(Character \cup {NUL}) /\ Append(t, NUL) # <<>>
      /\ Len(t) \in Nat /\ Len(Append(t, NUL)) = Len(t) + 1
      /\ Append(t, NUL)[Len(t) + 1] = NUL
  BY Terminated DEF Characters
<1> HIDE DEF FreeHeap
<1>3. TypeOK'
  <2>1. <<>> \in Word
    BY DEF Word
  <2> QED  BY <1>1, <1>2, <2>1 DEF TypeOK, Construct, Live
<1>4. /\ buffer' = [buffer EXCEPT ![s] = b] /\ length' = [length EXCEPT ![s] = Len(t)]
      /\ encoding' = [encoding EXCEPT ![s] = e]
      /\ isMutable' = [isMutable EXCEPT ![s] = TRUE]
  BY DEF Construct
<1>5. \A x \in Strings : isMutable[x] =>
        buffer[x] \in Heap /\ buffer[x] # b /\ x # s /\ memory[buffer[x]] # <<>>
  <2> SUFFICES ASSUME NEW x \in Strings, isMutable[x]
               PROVE  buffer[x] \in Heap /\ memory[buffer[x]] # <<>> /\ buffer[x] # Null
    BY <1>1 DEF Live
  <2>1. buffer[x] \in Heap /\ length[x] < Len(memory[buffer[x]])
    BY DEF BuffersOwned, Placed
  <2>2. memory[buffer[x]] # <<>>
    BY <2>1 DEF TypeOK
  <2> QED  BY <2>1, <2>2, PlacesAssumption DEF Places
<1>6. \A p \in Places \ {b} : memory'[p] = memory[p]
  BY DEF TypeOK
<1>7. /\ buffer'[s] = b /\ length'[s] = Len(t) /\ encoding'[s] = e /\ isMutable'[s]
      /\ memory'[b] = Append(t, NUL)
  BY <1>1, <1>4 DEF TypeOK
<1>8. \A x \in Strings \ {s} :
        /\ buffer'[x] = buffer[x] /\ length'[x] = length[x]
        /\ encoding'[x] = encoding[x] /\ isMutable'[x] = isMutable[x]
  BY <1>4 DEF TypeOK
<1>9. BuffersOwned'
  <2>1. Placed'
    BY <1>1, <1>6, <1>7, <1>8 DEF BuffersOwned, Placed, Places
  <2>2. ASSUME NEW h \in Heap, memory'[h] # <<>>
        PROVE  \E x \in Strings : isMutable'[x] /\ buffer'[x] = h
    BY <2>2, <1>1, <1>5, <1>6, <1>7, <1>8 DEF BuffersOwned, Places
  <2>3. ASSUME NEW x \in Strings, NEW y \in Strings,
               isMutable'[x], isMutable'[y], buffer'[x] = buffer'[y]
        PROVE  x = y
    BY <2>3, <1>5, <1>7, <1>8 DEF BuffersOwned
  <2>4. ASSUME NEW x \in Strings
        PROVE  (memory'[x] # <<>>) <=> (buffer'[x] = x)
    BY <1>1, <1>6, <1>7, <1>8, PlacesAssumption DEF BuffersOwned, isInlined, Places, Live
  <2>5. ASSUME NEW x \in Strings, isMutable'[x] \/ buffer'[x] = x
        PROVE  /\ length'[x] < Len(memory'[buffer'[x]])
               /\ memory'[buffer'[x]][length'[x] + 1] = NUL
    <3>1. CASE x = s
      BY <3>1, <1>2, <1>7
    <3>2. CASE x # s
      <4>1. buffer[x] # b /\ buffer[x] \in Places
        BY <3>2, <2>5, <1>1, <1>5, <1>8 DEF Places
      <4> QED  BY <4>1, <3>2, <2>5, <1>6, <1>8 DEF BuffersOwned, isInlined
    <3> QED  BY <3>1, <3>2
  <2> QED  BY <2>1, <2>2, <2>3, <2>4, <2>5 DEF BuffersOwned, isInlined
<1>10. ASSUME TextsComply
       PROVE  Undisturbed(s)
  <2>1. \A x \in Strings : Live(x) => buffer[x] \in Places /\ buffer[x] # b
    BY <1>1, <1>10 DEF TextsComply, TypeOK, Live
  <2> QED  BY <2>1, <1>6, <1>8 DEF Undisturbed
<1> QED  BY <1>3, <1>7, <1>9, <1>10

(* A new string with its characters behind its header.                     *)
LEMMA NewInline ==
  ASSUME TypeOK, BuffersOwned, NEW s \in Strings, ~Live(s),
         NEW t \in Seq(Characters), NEW e \in Encodings,
         memory' = [memory EXCEPT ![s] = Append(t, NUL)],
         Construct(s, s, Len(t), e, FALSE)
  PROVE  /\ TypeOK' /\ BuffersOwned' /\ Undisturbed(s)
         /\ buffer'[s] = s /\ length'[s] = Len(t) /\ encoding'[s] = e /\ ~isMutable'[s]
         /\ memory'[s] = Append(t, NUL)
<1>1. s \in Places /\ s # Null /\ s \notin Heap /\ s \notin Foreign
  BY PlacesAssumption DEF Places
<1>2. /\ Append(t, NUL) \in Seq(Character \cup {NUL}) /\ Append(t, NUL) # <<>>
      /\ Len(t) \in Nat /\ Len(Append(t, NUL)) = Len(t) + 1
      /\ Append(t, NUL)[Len(t) + 1] = NUL
  BY Terminated DEF Characters
<1>3. TypeOK'
  <2>1. <<>> \in Word
    BY DEF Word
  <2> QED  BY <1>1, <1>2, <2>1 DEF TypeOK, Construct, Live
<1>4. /\ buffer' = [buffer EXCEPT ![s] = s] /\ length' = [length EXCEPT ![s] = Len(t)]
      /\ encoding' = [encoding EXCEPT ![s] = e]
      /\ isMutable' = [isMutable EXCEPT ![s] = FALSE]
  BY DEF Construct
<1>5. \A x \in Strings : buffer[x] # s
  BY <1>1 DEF BuffersOwned, Placed, Live
<1>6. \A p \in Places \ {s} : memory'[p] = memory[p]
  BY DEF TypeOK
<1>7. /\ buffer'[s] = s /\ length'[s] = Len(t) /\ encoding'[s] = e /\ ~isMutable'[s]
      /\ memory'[s] = Append(t, NUL)
  BY <1>1, <1>4 DEF TypeOK
<1>8. \A x \in Strings \ {s} :
        /\ buffer'[x] = buffer[x] /\ length'[x] = length[x]
        /\ encoding'[x] = encoding[x] /\ isMutable'[x] = isMutable[x]
  BY <1>4 DEF TypeOK
<1>9. BuffersOwned'
  <2>0. ~isMutable[s]
    BY PlacesAssumption DEF BuffersOwned, Placed, Live, Places
  <2>1. Placed'
    BY <1>1, <1>6, <1>7, <1>8 DEF BuffersOwned, Placed, Places
  <2>2. ASSUME NEW h \in Heap, memory'[h] # <<>>
        PROVE  \E x \in Strings : isMutable'[x] /\ buffer'[x] = h
    BY <2>2, <2>0, <1>1, <1>6, <1>8 DEF BuffersOwned, Places
  <2>3. ASSUME NEW x \in Strings, NEW y \in Strings,
               isMutable'[x], isMutable'[y], buffer'[x] = buffer'[y]
        PROVE  x = y
    BY <2>3, <1>7, <1>8 DEF BuffersOwned
  <2>4. ASSUME NEW x \in Strings
        PROVE  (memory'[x] # <<>>) <=> (buffer'[x] = x)
    BY <1>1, <1>2, <1>6, <1>7, <1>8 DEF BuffersOwned, isInlined, Places
  <2>5. ASSUME NEW x \in Strings, isMutable'[x] \/ buffer'[x] = x
        PROVE  /\ length'[x] < Len(memory'[buffer'[x]])
               /\ memory'[buffer'[x]][length'[x] + 1] = NUL
    <3>1. CASE x = s
      BY <3>1, <1>2, <1>7
    <3>2. CASE x # s
      <4>1. buffer[x] # s /\ buffer[x] \in Places
        BY <3>2, <2>5, <1>5, <1>8 DEF Places, BuffersOwned, Placed
      <4> QED  BY <4>1, <3>2, <2>5, <1>6, <1>8 DEF BuffersOwned, isInlined
    <3> QED  BY <3>1, <3>2
  <2> QED  BY <2>1, <2>2, <2>3, <2>4, <2>5 DEF BuffersOwned, isInlined
<1>10. Undisturbed(s)
  <2>1. \A x \in Strings : Live(x) => buffer[x] \in Places /\ buffer[x] # s
    BY <1>5 DEF TypeOK, Live
  <2> QED  BY <2>1, <1>6, <1>8 DEF Undisturbed
<1> QED  BY <1>3, <1>7, <1>9, <1>10

(* A new string with its characters in a buffer of somebody else.          *)
LEMMA NewShared ==
  ASSUME TypeOK, BuffersOwned, NEW s \in Strings, ~Live(s),
         NEW p \in Places \ Strings, NEW n \in Nat, NEW e \in Encodings,
         UNCHANGED memory, Construct(s, p, n, e, FALSE)
  PROVE  /\ TypeOK' /\ BuffersOwned' /\ Undisturbed(s)
         /\ buffer'[s] = p /\ length'[s] = n /\ encoding'[s] = e /\ ~isMutable'[s]
<1>1. p # Null /\ p # s /\ p \notin Strings
  BY PlacesAssumption
<1>2. TypeOK'
  <2>1. <<>> \in Word
    BY DEF Word
  <2> QED  BY <1>1, <2>1 DEF TypeOK, Construct, Live
<1>3. /\ buffer'[s] = p /\ length'[s] = n /\ encoding'[s] = e /\ ~isMutable'[s]
      /\ \A x \in Strings \ {s} :
           /\ buffer'[x] = buffer[x] /\ length'[x] = length[x]
           /\ encoding'[x] = encoding[x] /\ isMutable'[x] = isMutable[x]
  BY DEF Construct, TypeOK
<1>4. BuffersOwned'
  <2>0. ~isMutable[s] /\ buffer[s] # s
    BY PlacesAssumption DEF BuffersOwned, Placed, Live, Places
  <2>1. Placed'
    BY <1>1, <1>3 DEF BuffersOwned, Placed
  <2>2. ASSUME NEW h \in Heap, memory'[h] # <<>>
        PROVE  \E x \in Strings : isMutable'[x] /\ buffer'[x] = h
    BY <2>2, <2>0, <1>3 DEF BuffersOwned
  <2>3. ASSUME NEW x \in Strings, NEW y \in Strings,
               isMutable'[x], isMutable'[y], buffer'[x] = buffer'[y]
        PROVE  x = y
    BY <2>3, <1>3 DEF BuffersOwned
  <2>4. ASSUME NEW x \in Strings
        PROVE  (memory'[x] # <<>>) <=> (buffer'[x] = x)
    BY <2>0, <1>1, <1>3 DEF BuffersOwned, isInlined
  <2>5. ASSUME NEW x \in Strings, isMutable'[x] \/ buffer'[x] = x
        PROVE  /\ length'[x] < Len(memory'[buffer'[x]])
               /\ memory'[buffer'[x]][length'[x] + 1] = NUL
    BY <2>5, <1>1, <1>3 DEF BuffersOwned, isInlined
  <2> QED  BY <2>1, <2>2, <2>3, <2>4, <2>5 DEF BuffersOwned, isInlined
<1>5. Undisturbed(s)
  BY <1>3 DEF Undisturbed
<1> QED  BY <1>2, <1>3, <1>4, <1>5

(* The last release of a string.                                           *)
LEMMA Freed ==
  ASSUME TypeOK, BuffersOwned, NEW s \in Strings, Live(s), Free(s)
  PROVE  /\ TypeOK' /\ BuffersOwned'
         /\ ~Lent(s) => Undisturbed(s)
         /\ buffer'[s] = Null /\ ~isMutable'[s]
<1>1. s \in Places /\ s # Null /\ s \notin Heap /\ s \notin Foreign
  BY PlacesAssumption DEF Places
<1>2. TypeOK'
  <2>1. <<>> \in Word /\ <<>> \in Seq(Character \cup {NUL})
    BY DEF Word
  <2>2. memory' \in [Places -> Seq(Character \cup {NUL})]
    BY <2>1 DEF Free, TypeOK
  <2> QED  BY <2>1, <2>2 DEF TypeOK, Free, Live
<1>3. /\ buffer'[s] = Null /\ ~isMutable'[s]
      /\ \A x \in Strings \ {s} :
           /\ buffer'[x] = buffer[x] /\ length'[x] = length[x]
           /\ encoding'[x] = encoding[x] /\ isMutable'[x] = isMutable[x]
  BY DEF Free, TypeOK
<1>4. /\ memory'[s] = <<>>
      /\ isMutable[s] => memory'[buffer[s]] = <<>>
      /\ \A p \in Places \ {s} : (isMutable[s] => p # buffer[s]) => memory'[p] = memory[p]
  BY <1>1 DEF Free, TypeOK, Live
<1>5. isMutable[s] => buffer[s] \in Heap
  BY DEF BuffersOwned, Placed
<1>6. \A x \in Strings \ {s} : buffer[x] # s
  BY DEF BuffersOwned, Placed
<1> HIDE DEF Free
<1>7. BuffersOwned'
  <2>1. Placed'
    BY <1>1, <1>3, <1>4, <1>5, PlacesAssumption DEF BuffersOwned, Placed, Places
  <2>2. ASSUME NEW h \in Heap, memory'[h] # <<>>
        PROVE  \E x \in Strings : isMutable'[x] /\ buffer'[x] = h
    <3>1. (isMutable[s] => h # buffer[s]) /\ memory[h] # <<>>
      BY <2>2, <1>1, <1>4 DEF Places
    <3>2. PICK x \in Strings : isMutable[x] /\ buffer[x] = h
      BY <3>1 DEF BuffersOwned
    <3> QED  BY <3>1, <3>2, <1>3
  <2>3. ASSUME NEW x \in Strings, NEW y \in Strings,
               isMutable'[x], isMutable'[y], buffer'[x] = buffer'[y]
        PROVE  x = y
    BY <2>3, <1>3 DEF BuffersOwned
  <2>4. ASSUME NEW x \in Strings
        PROVE  (memory'[x] # <<>>) <=> (buffer'[x] = x)
    BY <1>1, <1>3, <1>4, <1>5, PlacesAssumption DEF BuffersOwned, isInlined, Places
  <2>5. ASSUME NEW x \in Strings, isMutable'[x] \/ buffer'[x] = x
        PROVE  /\ length'[x] < Len(memory'[buffer'[x]])
               /\ memory'[buffer'[x]][length'[x] + 1] = NUL
    <3>1. x # s
      BY <2>5, <1>1, <1>3
    <3>2. buffer[x] \in Places \ {s} /\ (isMutable[s] => buffer[x] # buffer[s])
      BY <3>1, <2>5, <1>3, <1>5, <1>6, PlacesAssumption DEF BuffersOwned, Placed, Places
    <3> QED  BY <3>1, <3>2, <2>5, <1>3, <1>4 DEF BuffersOwned, isInlined
  <2> QED  BY <2>1, <2>2, <2>3, <2>4, <2>5 DEF BuffersOwned, isInlined
<1>8. ASSUME ~Lent(s)
      PROVE  Undisturbed(s)
  <2>1. \A x \in Strings \ {s} : Live(x) =>
          buffer[x] \in Places \ {s} /\ (isMutable[s] => buffer[x] # buffer[s])
    BY <1>6, <1>8 DEF TypeOK, Live, Lent
  <2> QED  BY <2>1, <1>3, <1>4 DEF Undisturbed
<1> QED  BY <1>2, <1>3, <1>7, <1>8

(* A mutable string gets new characters in its buffer, or in another one   *)
(* that was free, and then its buffer is.                                  *)
LEMMA Rewritten ==
  ASSUME TypeOK, BuffersOwned, NEW s \in Strings, isMutable[s],
         NEW b \in FreeHeap \cup {buffer[s]},
         NEW m \in Seq(Characters), NEW n \in Nat, n < Len(m), m[n + 1] = NUL,
         memory' = [p \in Places |-> IF p = b THEN m
                                     ELSE IF p = buffer[s] THEN <<>> ELSE memory[p]],
         buffer' = [buffer EXCEPT ![s] = b], length' = [length EXCEPT ![s] = n],
         ret' = TRUE, got' = <<>>, UNCHANGED <<encoding, isMutable, crashed>>
  PROVE  /\ TypeOK' /\ BuffersOwned'
         /\ TextsComply /\ ~Lent(s) => Undisturbed(s)
         /\ buffer'[s] = b /\ memory'[b] = m /\ length'[s] = n
<1>1. /\ b \in Heap /\ b \in Places /\ b # Null /\ b \notin Strings /\ b \notin Foreign
      /\ buffer[s] \in Heap /\ buffer[s] \in Places /\ buffer[s] # Null
      /\ b # buffer[s] => memory[b] = <<>>
  BY PlacesAssumption DEF FreeHeap, Places, BuffersOwned, Placed
<1> HIDE DEF FreeHeap
<1>2. TypeOK'
  <2>1. <<>> \in Word /\ <<>> \in Seq(Character \cup {NUL})
    BY DEF Word
  <2>2. memory' \in [Places -> Seq(Character \cup {NUL})]
    BY <2>1 DEF TypeOK, Characters
  <2> QED  BY <2>1, <2>2, <1>1 DEF TypeOK, Live
<1>3. /\ buffer'[s] = b /\ length'[s] = n /\ encoding' = encoding /\ isMutable' = isMutable
      /\ \A x \in Strings \ {s} : buffer'[x] = buffer[x] /\ length'[x] = length[x]
  BY DEF TypeOK
<1>4. /\ memory'[b] = m /\ (b # buffer[s] => memory'[buffer[s]] = <<>>)
      /\ \A p \in Places \ {b, buffer[s]} : memory'[p] = memory[p]
  BY <1>1
<1>5. \A x \in Strings : isMutable[x] => buffer[x] \in Heap /\ memory[buffer[x]] # <<>>
  <2> SUFFICES ASSUME NEW x \in Strings, isMutable[x]
               PROVE  buffer[x] \in Heap /\ memory[buffer[x]] # <<>>
    OBVIOUS
  <2>1. buffer[x] \in Heap /\ length[x] < Len(memory[buffer[x]])
    BY DEF BuffersOwned, Placed
  <2> QED  BY <2>1 DEF TypeOK
<1>6. \A x \in Strings : isMutable[x] /\ x # s => buffer[x] # b /\ buffer[x] # buffer[s]
  BY <1>1, <1>5 DEF BuffersOwned
<1>7. BuffersOwned'
  <2>1. Placed'
    BY <1>1, <1>3, <1>4, PlacesAssumption DEF BuffersOwned, Placed, Places
  <2>2. ASSUME NEW h \in Heap, memory'[h] # <<>>
        PROVE  \E x \in Strings : isMutable'[x] /\ buffer'[x] = h
    <3>1. CASE h = b
      BY <3>1, <1>3
    <3>2. CASE h # b
      <4>1. h # buffer[s] /\ memory[h] # <<>>
        BY <3>2, <2>2, <1>4 DEF Places
      <4>2. PICK x \in Strings : isMutable[x] /\ buffer[x] = h
        BY <4>1 DEF BuffersOwned
      <4> QED  BY <4>1, <4>2, <1>3
    <3> QED  BY <3>1, <3>2
  <2>3. ASSUME NEW x \in Strings, NEW y \in Strings,
               isMutable'[x], isMutable'[y], buffer'[x] = buffer'[y]
        PROVE  x = y
    BY <2>3, <1>3, <1>6 DEF BuffersOwned
  <2>4. ASSUME NEW x \in Strings
        PROVE  (memory'[x] # <<>>) <=> (buffer'[x] = x)
    BY <1>1, <1>3, <1>4, PlacesAssumption DEF BuffersOwned, isInlined, Places
  <2>5. ASSUME NEW x \in Strings, isMutable'[x] \/ buffer'[x] = x
        PROVE  /\ length'[x] < Len(memory'[buffer'[x]])
               /\ memory'[buffer'[x]][length'[x] + 1] = NUL
    <3>1. CASE x = s
      BY <3>1, <1>3, <1>4
    <3>2. CASE x # s
      <4>1. buffer[x] \in Places /\ buffer[x] # b /\ buffer[x] # buffer[s]
        BY <3>2, <2>5, <1>1, <1>3, <1>5, <1>6, PlacesAssumption DEF Places
      <4> QED  BY <4>1, <3>2, <2>5, <1>3, <1>4 DEF BuffersOwned, isInlined
    <3> QED  BY <3>1, <3>2
  <2> QED  BY <2>1, <2>2, <2>3, <2>4, <2>5 DEF BuffersOwned, isInlined
<1>8. ASSUME TextsComply, ~Lent(s)
      PROVE  Undisturbed(s)
  <2>1. \A x \in Strings \ {s} : Live(x) =>
          buffer[x] \in Places /\ buffer[x] # b /\ buffer[x] # buffer[s]
    BY <1>1, <1>8 DEF TypeOK, Live, Lent, TextsComply
  <2> QED  BY <2>1, <1>3, <1>4 DEF Undisturbed
<1> QED  BY <1>2, <1>3, <1>4, <1>7, <1>8

-----------------------------------------------------------------------------
(* Nothing changed, but for what the call answers.                         *)
Unchanged == UNCHANGED <<memory, object>>

LEMMA NothingChanged ==
  ASSUME IInv, Unchanged, got' \in Word, ret' \in BOOLEAN, crashed' \in BOOLEAN
  PROVE  IInv'
<1> USE DEF Unchanged, object
<1>1. TypeOK'
  BY DEF IInv, TypeOK, Live
<1>2. BuffersOwned'
  BY DEF IInv, BuffersOwned, Placed, isInlined
<1>3. Borrowing => TextsComply'
  BY DEF IInv, TextsComply, Intact, Live, Validates, Text
<1> QED  BY <1>1, <1>2, <1>3 DEF IInv

(* The text that s has after a call, a new one of encoding e.              *)
Becomes(s, t, e) ==
  /\ Live(s)' /\ Intact(s)' /\ memory'[buffer'[s]] # <<>>
  /\ Text(s)' = t /\ encoding'[s] = e

(* All other strings complied and were left alone.                         *)
LEMMA TextsFollow ==
  ASSUME TypeOK, TextsComply, NEW s \in Strings, Undisturbed(s),
         ~Live(s)' \/ \E t, e : Becomes(s, t, e) /\ Validates(e, t)
  PROVE  TextsComply'
<1> SUFFICES ASSUME NEW x \in Strings, Live(x)'
             PROVE  /\ (memory[buffer[x]])' # <<>>
                    /\ Intact(x)' /\ Validates(encoding[x], Text(x))'
  BY DEF TextsComply
<1>1. CASE x = s
  <2>1. PICK t, e : Becomes(s, t, e) /\ Validates(e, t)
    BY <1>1
  <2> QED  BY <1>1, <2>1 DEF Becomes, Validates
<1>2. CASE x # s
  <2>1. /\ buffer'[x] = buffer[x] /\ length'[x] = length[x] /\ encoding'[x] = encoding[x]
        /\ Live(x) /\ memory'[buffer[x]] = memory[buffer[x]]
    BY <1>2 DEF Undisturbed, Live
  <2>2. memory[buffer[x]] # <<>> /\ Intact(x) /\ Validates(encoding[x], Text(x))
    BY <2>1 DEF TextsComply
  <2> QED  BY <2>1, <2>2 DEF Intact, Live, Validates, Text
<1> QED  BY <1>1, <1>2

(* A string that is created has the first characters of the place it is    *)
(* made from as its text, or nothing has changed.                          *)
LEMMA Created ==
  ASSUME TypeOK, BuffersOwned, NEW s \in Strings, ~Live(s),
         NEW place \in Places, NEW n \in Nat, n <= Len(memory[place]),
         NEW e \in Encodings, NEW inlined \in BOOLEAN, NEW mutable \in BOOLEAN,
         ~mutable /\ ~inlined => place \notin Strings,
         mutable \/ inlined \/ memory[place] # <<>>  \/ ~Borrowing,
         StringCreate(s, place, n, e, inlined, mutable)
  PROVE  \/ Fail
         \/ Unchanged /\ UNCHANGED <<got, ret>> /\ crashed' = TRUE
         \/ /\ TypeOK' /\ BuffersOwned'
            /\ TextsComply => Undisturbed(s)
            /\ isMutable'[s] = mutable /\ ret' = TRUE /\ got' = <<>>
            /\ \E len \in 0 .. n :
                 LET t == SubSeq(memory[place], 1, len) IN
                 /\ IsStrnlen(len, memory[place], n) /\ Validates(e, t)
                 /\ Borrowing => Becomes(s, t, e)
<1>1. memory[place] \in Seq(Characters)
  BY DEF TypeOK, Characters
<1>2. CASE Fail
  BY <1>2
<1>3. ASSUME ~Fail
      PROVE  \/ Unchanged /\ UNCHANGED <<got, ret>> /\ crashed' = TRUE
             \/ /\ TypeOK' /\ BuffersOwned'
                /\ TextsComply => Undisturbed(s)
                /\ isMutable'[s] = mutable /\ ret' = TRUE /\ got' = <<>>
                /\ \E len \in 0 .. n :
                     LET t == SubSeq(memory[place], 1, len) IN
                     /\ IsStrnlen(len, memory[place], n) /\ Validates(e, t)
                     /\ Borrowing => Becomes(s, t, e)
  <2>1. PICK len \in 0 .. n :
          LET t == SubSeq(memory[place], 1, len) IN
          /\ IsStrnlen(len, memory[place], n)
          /\ Validates(e, t)
          /\ \/ mutable /\ CopyToHeap(s, t, len, e)
             \/ ~mutable /\ inlined /\ CopyInline(s, t, len, e)
             \/ ~mutable /\ ~inlined /\ Share(s, place, len, e)
    BY <1>3 DEF StringCreate
  <2> DEFINE t == SubSeq(memory[place], 1, len)
  <2>2. /\ len \in Nat /\ len <= Len(memory[place])
        /\ t \in Seq(Characters) /\ Len(t) = len
    BY <1>1, Prefix
  <2>3. /\ Append(t, NUL) # <<>> /\ Len(Append(t, NUL)) = len + 1
        /\ SubSeq(Append(t, NUL), 1, len) = t
    <3> HIDE DEF t
    <3> QED  BY <2>2, Terminated
  <2>4. CASE mutable /\ CopyToHeap(s, t, len, e)
    <3>1. CASE crashed' = TRUE /\ UNCHANGED <<memory, object, got, ret>>
      BY <3>1 DEF Unchanged
    <3>2. ASSUME NEW b \in FreeHeap, memory' = [memory EXCEPT ![b] = Append(t, NUL)],
                 Construct(s, b, len, e, TRUE)
          PROVE  /\ TypeOK' /\ BuffersOwned'
                 /\ TextsComply => Undisturbed(s)
                 /\ isMutable'[s] = mutable /\ ret' = TRUE /\ got' = <<>>
                 /\ Becomes(s, t, e)
      <4> HIDE DEF t
      <4>1. /\ TypeOK' /\ BuffersOwned' /\ (TextsComply => Undisturbed(s))
            /\ buffer'[s] = b /\ length'[s] = len /\ encoding'[s] = e /\ isMutable'[s]
            /\ memory'[b] = Append(t, NUL)
        BY <2>2, <3>2, NewInHeap
      <4>2. b # Null /\ isMutable'[s] \in BOOLEAN
        BY <4>1, PlacesAssumption DEF FreeHeap, Places, TypeOK
      <4>3. Becomes(s, t, e)
        BY <2>2, <2>3, <4>1, <4>2 DEF Becomes, Live, Intact, Text
      <4> QED  BY <2>4, <3>2, <4>1, <4>2, <4>3 DEF Construct
    <3>3. (\E b \in FreeHeap : memory' = [memory EXCEPT ![b] = Append(t, NUL)]
                              /\ Construct(s, b, len, e, TRUE))
          \/ (crashed' = TRUE /\ UNCHANGED <<memory, object, got, ret>>)
      BY <2>4 DEF CopyToHeap
    <3> QED  BY <2>1, <3>1, <3>2, <3>3
  <2>5. CASE ~mutable /\ inlined /\ CopyInline(s, t, len, e)
    <3> HIDE DEF t
    <3>0. memory' = [memory EXCEPT ![s] = Append(t, NUL)] /\ Construct(s, s, len, e, FALSE)
      BY <2>5 DEF CopyInline
    <3>1. /\ TypeOK' /\ BuffersOwned' /\ Undisturbed(s)
          /\ buffer'[s] = s /\ length'[s] = len /\ encoding'[s] = e /\ ~isMutable'[s]
          /\ memory'[s] = Append(t, NUL)
      BY <2>2, <3>0, NewInline
    <3>2. s # Null /\ isMutable'[s] \in BOOLEAN
      BY <3>1, PlacesAssumption DEF Places, TypeOK
    <3>3. Becomes(s, t, e)
      BY <2>2, <2>3, <3>1, <3>2 DEF Becomes, Live, Intact, Text
    <3>4. isMutable'[s] = mutable /\ ret' = TRUE /\ got' = <<>>
      BY <2>5, <3>0, <3>1, <3>2 DEF Construct
    <3> QED  BY <2>1, <3>1, <3>3, <3>4 DEF t
  <2>6. CASE ~mutable /\ ~inlined /\ Share(s, place, len, e)
    <3>0. UNCHANGED memory /\ Construct(s, place, len, e, FALSE) /\ place \in Places \ Strings
      BY <2>6 DEF Share
    <3>1. /\ TypeOK' /\ BuffersOwned' /\ Undisturbed(s)
          /\ buffer'[s] = place /\ length'[s] = len /\ encoding'[s] = e /\ ~isMutable'[s]
      BY <2>2, <3>0, NewShared
    <3>2. place # Null /\ isMutable'[s] \in BOOLEAN
      BY <3>1, PlacesAssumption DEF TypeOK
    <3>3. Borrowing => Becomes(s, t, e)
      BY <2>2, <2>6, <3>0, <3>1, <3>2 DEF Becomes, Live, Intact, Text
    <3>4. isMutable'[s] = mutable /\ ret' = TRUE /\ got' = <<>>
      BY <2>6, <3>0, <3>1, <3>2 DEF Construct
    <3> QED  BY <2>1, <3>1, <3>3, <3>4
  <2> QED  BY <2>1, <2>4, <2>5, <2>6
<1> QED  BY <1>2, <1>3

(* What is left between the first and the last character that are no       *)
(* spaces is the text, without the spaces around it.                       *)
LEMMA Between ==
  ASSUME NEW t \in Seq(Characters), NEW first \in 1 .. Len(t) + 1, NEW last \in 0 .. Len(t),
         IsFirst(first, t), IsLast(last, t)
  PROVE  LET n == LengthBetween(first, last, Len(t)) IN
         /\ n \in Nat /\ first - 1 + n <= Len(t)
         /\ n > 0 => n = last - first + 1
         /\ Value!IsTrimmed(t, SubSeq(t, first, first - 1 + n))
         /\ \E i, j \in 0 .. Len(t) :
              SubSeq(t, first, first - 1 + n) = SubSeq(t, i + 1, j)
<1>1. CASE first > Len(t)
  <2>1. /\ LengthBetween(first, last, Len(t)) = 0 /\ first = Len(t) + 1
        /\ \A j \in 1 .. Len(t) : t[j] \in Space
    BY <1>1 DEF LengthBetween, IsFirst
  <2>2. SubSeq(t, first, first - 1 + 0) = <<>> /\ SubSeq(t, 0 + 1, 0) = <<>>
    BY <2>1
  <2>3. Value!IsTrimmed(t, <<>>)
    <3>1. 0 \in 0 .. Len(t) /\ 0 + Len(<<>>) <= Len(t) /\ <<>> = SubSeq(t, 0 + 1, 0 + Len(<<>>))
      OBVIOUS
    <3> QED  BY <2>1, <3>1 DEF Value!IsTrimmed
  <2>4. 0 \in Nat /\ 0 \in 0 .. Len(t) /\ first - 1 + 0 <= Len(t) /\ ~(0 > 0)
    BY <2>1
  <2>5. \E i, j \in 0 .. Len(t) : SubSeq(t, first, first - 1 + 0) = SubSeq(t, i + 1, j)
    BY <2>2, <2>4, Zenon
  <2> QED  BY <2>1, <2>2, <2>3, <2>4, <2>5, Zenon
<1>2. CASE first <= Len(t)
  <2>1. t[first] \notin Space
    BY <1>2 DEF IsFirst
  <2>2. first <= last
    BY <1>2, <2>1 DEF IsLast
  <2>3. LengthBetween(first, last, Len(t)) = last - first + 1
    BY <1>2 DEF LengthBetween
  <2> DEFINE core == SubSeq(t, first, last)
  <2>4. /\ core \in Seq(Characters) /\ Len(core) = last - first + 1
        /\ core[1] = t[first] /\ core[Len(core)] = t[last]
    BY <1>2, <2>2
  <2>5. Value!IsTrimmed(t, core)
    <3>1. /\ first - 1 \in 0 .. Len(t) /\ first - 1 + Len(core) <= Len(t)
          /\ first - 1 + 1 = first /\ first - 1 + Len(core) = last
      BY <1>2, <2>2, <2>4
    <3>2. ASSUME NEW j \in 1 .. Len(t), j <= first - 1 \/ j > last
          PROVE  t[j] \in Space
      BY <3>2 DEF IsFirst, IsLast
    <3>3. t[last] \notin Space
      BY <2>2 DEF IsLast
    <3>4. core[1] \notin Space /\ core[Len(core)] \notin Space
      BY <2>1, <2>4, <3>3
    <3>5. core = SubSeq(t, first - 1 + 1, first - 1 + Len(core))
      BY <3>1
    <3> HIDE DEF core
    <3> QED  BY <3>1, <3>2, <3>4, <3>5 DEF Value!IsTrimmed
  <2>6. /\ first - 1 + (last - first + 1) = last /\ first - 1 + 1 = first
        /\ first - 1 \in 0 .. Len(t) /\ last \in 0 .. Len(t) /\ last - first + 1 \in Nat
        /\ last <= Len(t)
    BY <1>2, <2>2
  <2>7. \E i, j \in 0 .. Len(t) : SubSeq(t, first, last) = SubSeq(t, i + 1, j)
    <3>1. SubSeq(t, first, last) = SubSeq(t, first - 1 + 1, last)
      BY <2>6
    <3> QED  BY <2>6, <3>1, Zenon
  <2> QED  BY <2>3, <2>5, <2>6, <2>7, Zenon
<1> QED  BY <1>1, <1>2

(* EFStringTrimWhitespace.                                                 *)
LEMMA Trimmed ==
  ASSUME TypeOK, BuffersOwned, NEW s \in Strings, Intact(s), TrimWhitespace(s), ~Fail
  PROVE  /\ TypeOK' /\ BuffersOwned'
         /\ TextsComply /\ ~Lent(s) => Undisturbed(s)
         /\ isMutable[s] /\ isMutable' = isMutable /\ ret' = TRUE /\ got' = <<>>
         /\ \E i, j \in 0 .. Len(Text(s)) :
              LET core == SubSeq(Text(s), i + 1, j) IN
              Value!IsTrimmed(Text(s), core) /\ Becomes(s, core, encoding[s])
<1>1. /\ isMutable[s] /\ buffer[s] \in Places /\ memory[buffer[s]] \in Seq(Characters)
      /\ length[s] \in Nat /\ length[s] < Len(memory[buffer[s]])
      /\ Text(s) \in Seq(Characters) /\ Len(Text(s)) = length[s]
      /\ \A i \in 1 .. length[s] : Text(s)[i] = memory[buffer[s]][i]
  BY TextOfIntact DEF BuffersOwned, TrimWhitespace
<1>2. PICK first \in 1 .. length[s] + 1, last \in 0 .. length[s] :
        /\ IsFirst(first, Text(s)) /\ IsLast(last, Text(s))
        /\ Set(s, Moved(memory[buffer[s]], first - 1, LengthBetween(first, last, length[s])),
               LengthBetween(first, last, length[s]))
  BY DEF TrimWhitespace
<1> DEFINE b == buffer[s]
           t == Text(s)
           n == LengthBetween(first, last, length[s])
           m == Moved(memory[b], first - 1, n)
           core == SubSeq(t, first, first - 1 + n)
<1>3. /\ n \in Nat /\ first - 1 + n <= Len(t)
      /\ Value!IsTrimmed(t, core)
      /\ \E i, j \in 0 .. Len(t) : core = SubSeq(t, i + 1, j)
  <2>1. t \in Seq(Characters) /\ first \in 1 .. Len(t) + 1 /\ last \in 0 .. Len(t)
        /\ IsFirst(first, t) /\ IsLast(last, t) /\ n = LengthBetween(first, last, Len(t))
    BY <1>1, <1>2
  <2> HIDE DEF t, n
  <2> QED  BY <2>1, Between
<1>4. n < Len(memory[b]) /\ n <= length[s]
  BY <1>1, <1>3
<1> HIDE DEF n
<1>0. n \in Nat
  BY <1>3
<1>5. /\ m \in Seq(Characters) /\ Len(m) = Len(memory[b]) /\ m[n + 1] = NUL
      /\ \A i \in 1 .. n : m[i] = memory[b][i + (first - 1)]
  <2>1. NUL \in Characters
    BY DEF Characters
  <2>2. ASSUME NEW i \in 1 .. Len(memory[b])
        PROVE  m[i] \in Characters
    <3>1. CASE i <= n
      <4>1. i + (first - 1) \in 1 .. Len(memory[b])
        BY <1>1, <1>3, <1>4, <3>1
      <4> QED  BY <1>1, <3>1, <4>1 DEF Moved
    <3>2. CASE ~(i <= n)
      BY <1>1, <2>1, <3>2 DEF Moved
    <3> QED  BY <3>1, <3>2
  <2>3. m = [i \in 1 .. Len(memory[b]) |-> m[i]] /\ DOMAIN m = 1 .. Len(memory[b])
    BY DEF Moved
  <2>4. m \in [1 .. Len(memory[b]) -> Characters]
    BY <2>2, <2>3
  <2>5. Len(memory[b]) \in Nat
    BY <1>1
  <2>6. m \in Seq(Characters)
    BY <2>4, <2>5
  <2>7. Len(m) = Len(memory[b])
    BY <2>3, <2>5, <2>6
  <2>8. n + 1 \in 1 .. Len(memory[b]) /\ ~(n + 1 <= n)
    BY <1>3, <1>4, <2>5
  <2>9. m[n + 1] = NUL
    BY <2>8 DEF Moved
  <2>10. \A i \in 1 .. n : i \in 1 .. Len(memory[b]) /\ i <= n
    BY <1>3, <1>4, <2>5
  <2>11. \A i \in 1 .. n : m[i] = memory[b][i + (first - 1)]
    BY <2>10 DEF Moved
  <2> QED  BY <2>6, <2>7, <2>9, <2>11
<1>6. /\ memory' = [memory EXCEPT ![b] = m] /\ length' = [length EXCEPT ![s] = n]
      /\ ret' = TRUE /\ got' = <<>>
      /\ UNCHANGED <<buffer, encoding, isMutable, crashed>>
  BY <1>2 DEF Set, n
<1>7. /\ TypeOK' /\ BuffersOwned'
      /\ TextsComply /\ ~Lent(s) => Undisturbed(s)
      /\ buffer'[s] = b /\ memory'[b] = m /\ length'[s] = n
  <2> HIDE DEF m
  <2>1. buffer' = [buffer EXCEPT ![s] = b]
    BY <1>6 DEF TypeOK
  <2>2. memory' = [p \in Places |-> IF p = b THEN m ELSE IF p = buffer[s] THEN <<>> ELSE memory[p]]
    BY <1>6 DEF TypeOK
  <2> HIDE DEF b
  <2>3. b \in FreeHeap \cup {buffer[s]}
    BY DEF b
  <2>4. n < Len(m)
    BY <1>4, <1>5
  <2> QED  BY <1>1, <1>3, <1>5, <1>6, <2>1, <2>2, <2>3, <2>4, Rewritten
<1>8. Becomes(s, core, encoding[s])
  <2>0. n <= Len(m)
    BY <1>1, <1>3, <1>4, <1>5
  <2>1. Live(s)' /\ Intact(s)'
    BY <1>1, <1>7, <2>0, PlacesAssumption DEF Live, Intact
  <2>2. m # <<>>
    BY <1>3, <1>4, <1>5
  <2>3. Text(s)' = SubSeq(m, 1, n)
    BY <1>7 DEF Text
  <2>4. /\ SubSeq(m, 1, n) \in Seq(Characters) /\ Len(SubSeq(m, 1, n)) = n
        /\ \A i \in 1 .. n : SubSeq(m, 1, n)[i] = m[i]
    <3> HIDE DEF m, b, t, core
    <3> QED  BY <1>0, <1>5, <2>0, Prefix
  <2>5. /\ core \in Seq(Characters) /\ Len(core) = n
        /\ \A i \in 1 .. n : core[i] = t[i + (first - 1)]
    <3>1. t \in Seq(Characters) /\ first \in Nat /\ first >= 1 /\ first - 1 + n <= Len(t)
      BY <1>1, <1>2, <1>3
    <3> HIDE DEF t, m
    <3> QED  BY <1>0, <3>1
  <2>6. \A i \in 1 .. n : t[i + (first - 1)] = memory[b][i + (first - 1)]
    <3>0. first \in Nat /\ first >= 1 /\ first - 1 + n <= length[s] /\ length[s] \in Nat
      BY <1>1, <1>2, <1>3
    <3>1. \A i \in 1 .. n : i + (first - 1) \in 1 .. length[s]
      <4> HIDE DEF t, m, b, core
      <4> QED  BY <1>0, <3>0
    <3> QED  BY <1>1, <3>1
  <2>7. SubSeq(m, 1, n) = core
    <3> HIDE DEF m, core, t, b
    <3>1. \A i \in 1 .. n : SubSeq(m, 1, n)[i] = core[i]
      BY <1>5, <2>4, <2>5, <2>6
    <3> QED  BY <2>4, <2>5, <3>1, SeqEqual
  <2> QED  BY <1>6, <1>7, <2>1, <2>2, <2>3, <2>7 DEF Becomes
<1> QED  BY <1>1, <1>3, <1>6, <1>7, <1>8

(* EFStringAppendString.                                                   *)
LEMMA Appended ==
  ASSUME TypeOK, BuffersOwned, NEW s \in Strings, NEW r \in Strings,
         Intact(s), Intact(r), AppendString(s, r), ~Fail
  PROVE  /\ TypeOK' /\ BuffersOwned'
         /\ TextsComply /\ ~Lent(s) => Undisturbed(s)
         /\ isMutable[s] /\ isMutable' = isMutable /\ ret' = TRUE /\ got' = <<>>
         /\ Validates(encoding[s], Text(r))
         /\ Becomes(s, Text(s) \o Text(r), encoding[s])
<1> DEFINE t == Text(s) \o Text(r)
<1>1. /\ t \in Seq(Characters) /\ Len(t) = length[s] + length[r]
      /\ length[s] \in Nat /\ length[r] \in Nat
  <2>1. /\ Text(s) \in Seq(Characters) /\ Len(Text(s)) = length[s] /\ length[s] \in Nat
        /\ Text(r) \in Seq(Characters) /\ Len(Text(r)) = length[r] /\ length[r] \in Nat
    BY TextOfIntact
  <2> QED  BY <2>1
<1>2. PICK b \in FreeHeap \cup {buffer[s]} :
        /\ memory' = [p \in Places |->
                        IF p = b THEN Append(t, NUL)
                        ELSE IF p = buffer[s] THEN <<>> ELSE memory[p]]
        /\ buffer' = [buffer EXCEPT ![s] = b]
  BY DEF AppendString
<1>3. /\ isMutable[s] /\ Validates(encoding[s], Text(r))
      /\ length' = [length EXCEPT ![s] = @ + length[r]]
      /\ ret' = TRUE /\ got' = <<>> /\ UNCHANGED <<encoding, isMutable, crashed>>
  BY DEF AppendString
<1> HIDE DEF t
<1>4. /\ Append(t, NUL) \in Seq(Characters) /\ Append(t, NUL) # <<>>
      /\ Len(Append(t, NUL)) = Len(t) + 1 /\ Append(t, NUL)[Len(t) + 1] = NUL
      /\ SubSeq(Append(t, NUL), 1, Len(t)) = t
  BY <1>1, Terminated
<1>5. length' = [length EXCEPT ![s] = Len(t)] /\ Len(t) \in Nat /\ Len(t) < Len(Append(t, NUL))
  BY <1>1, <1>3, <1>4 DEF TypeOK
<1>6. /\ TypeOK' /\ BuffersOwned'
      /\ TextsComply /\ ~Lent(s) => Undisturbed(s)
      /\ buffer'[s] = b /\ memory'[b] = Append(t, NUL) /\ length'[s] = Len(t)
  <2> HIDE DEF FreeHeap
  <2> QED  BY <1>2, <1>3, <1>4, <1>5, Rewritten
<1>7. b # Null
  BY <1>2, PlacesAssumption DEF FreeHeap, Places, Intact, Live
<1>8. Becomes(s, t, encoding[s])
  <2>1. Live(s)' /\ Intact(s)'
    BY <1>5, <1>6, <1>7 DEF Live, Intact
  <2> QED  BY <1>3, <1>4, <1>6, <2>1 DEF Becomes, Text
<1> QED  BY <1>3, <1>6, <1>8 DEF t
-----------------------------------------------------------------------------
LEMMA FailStays ==
  ASSUME IInv, Fail
  PROVE  IInv'
<1>1. <<>> \in Word
  BY DEF Word
<1>2. Unchanged /\ got' \in Word /\ ret' \in BOOLEAN /\ crashed' \in BOOLEAN
  BY <1>1 DEF Fail, Unchanged, IInv, TypeOK
<1> QED  BY <1>2, NothingChanged

(* What StringCreate is called with for the characters of a client ...     *)
LEMMA FromForeign ==
  ASSUME IInv, NEW f \in Foreign, NEW n \in 0 .. Len(contents[f])
  PROVE  /\ f \in Places /\ f \notin Strings /\ n \in Nat
         /\ memory[f] = contents[f] /\ n <= Len(memory[f]) /\ memory[f] # <<>>
<1>1. memory[f] = contents[f]
  BY DEF IInv, BuffersOwned, Placed
<1>2. Len(contents[f]) \in Nat
  BY ContentsAssumption
<1> QED  BY <1>1, <1>2, ContentsAssumption, PlacesAssumption DEF Places

(* ... and for a copy.                                                     *)
LEMMA FromString ==
  ASSUME IInv, NEW r \in Strings, Intact(r)
  PROVE  /\ buffer[r] \in Places /\ length[r] \in Nat /\ length[r] <= Len(memory[buffer[r]])
         /\ encoding[r] \in Encodings /\ isInlined(r) \in BOOLEAN
         /\ ~isInlined(r) => buffer[r] \notin Strings
         /\ memory[buffer[r]] # <<>> \/ ~Borrowing
<1>1. TypeOK /\ (Borrowing => TextsComply)
  BY DEF IInv
<1>2. ~isInlined(r) => buffer[r] \notin Strings
  BY DEF IInv, BuffersOwned, Placed, isInlined
<1>3. memory[buffer[r]] # <<>> \/ ~Borrowing
  BY <1>1 DEF TextsComply, Intact
<1> QED  BY <1>1, <1>2, <1>3, TextOfIntact DEF isInlined

(* What a successful call on s does, and what complies after it.           *)
LEMMA ChangeStays ==
  ASSUME IInv, NEW s \in Strings, TypeOK', BuffersOwned',
         Borrowing => Undisturbed(s) /\ (~Live(s)' \/ \E t, e : Becomes(s, t, e) /\ Validates(e, t))
  PROVE  IInv'
  BY TextsFollow DEF IInv

LEMMA CreateStays ==
  ASSUME IInv, NEW s \in Strings, ~Live(s),
         NEW place \in Places, NEW n \in Nat, n <= Len(memory[place]),
         NEW e \in Encodings, NEW inlined \in BOOLEAN, NEW mutable \in BOOLEAN,
         ~mutable /\ ~inlined => place \notin Strings,
         memory[place] # <<>> \/ ~Borrowing,
         StringCreate(s, place, n, e, inlined, mutable)
  PROVE  IInv'
<1>1. TypeOK /\ BuffersOwned /\ (Borrowing => TextsComply)
  BY DEF IInv
<1>2. CASE Fail
  BY <1>2, FailStays
<1>3. CASE Unchanged /\ UNCHANGED <<got, ret>> /\ crashed' = TRUE
  <2>1. got' \in Word /\ ret' \in BOOLEAN
    BY <1>1, <1>3 DEF TypeOK
  <2> QED  BY <1>3, <2>1, NothingChanged
<1>4. CASE /\ TypeOK' /\ BuffersOwned'
           /\ TextsComply => Undisturbed(s)
           /\ isMutable'[s] = mutable /\ ret' = TRUE /\ got' = <<>>
           /\ \E len \in 0 .. n :
                LET t == SubSeq(memory[place], 1, len) IN
                /\ IsStrnlen(len, memory[place], n) /\ Validates(e, t)
                /\ Borrowing => Becomes(s, t, e)
  BY <1>1, <1>4, ChangeStays, Zenon
<1> QED  BY <1>1, <1>2, <1>3, <1>4, Created

LEMMA TrimStays ==
  ASSUME IInv, NEW s \in Strings, MayChange(s), TrimWhitespace(s)
  PROVE  IInv'
<1>1. CASE Fail
  BY <1>1, FailStays
<1>2. CASE ~Fail
  <2>1. TypeOK /\ BuffersOwned /\ Intact(s) /\ (Borrowing => TextsComply /\ ~Lent(s))
    BY DEF IInv, MayChange
  <2>2. /\ TypeOK' /\ BuffersOwned'
        /\ TextsComply /\ ~Lent(s) => Undisturbed(s)
        /\ \E i, j \in 0 .. Len(Text(s)) :
             LET core == SubSeq(Text(s), i + 1, j) IN
             Value!IsTrimmed(Text(s), core) /\ Becomes(s, core, encoding[s])
    BY <1>2, <2>1, Trimmed
  <2>3. PICK i, j \in 0 .. Len(Text(s)) : Becomes(s, SubSeq(Text(s), i + 1, j), encoding[s])
    BY <2>2
  <2>4. ASSUME Borrowing
        PROVE  Validates(encoding[s], SubSeq(Text(s), i + 1, j))
    <3>1. Validates(encoding[s], Text(s))
      BY <2>1, <2>4 DEF TextsComply, Intact
    <3>2. Text(s) \in Seq(Characters)
      BY <2>1, TextOfIntact
    <3>3. ASSUME NEW k \in 1 .. Len(SubSeq(Text(s), i + 1, j))
          PROVE  /\ k + i \in 1 .. Len(Text(s))
                 /\ SubSeq(Text(s), i + 1, j)[k] = Text(s)[k + i]
      BY <3>2
    <3> QED  BY <3>1, <3>3 DEF Validates
  <2>5. Borrowing => Undisturbed(s) /\ \E t, e : Becomes(s, t, e) /\ Validates(e, t)
    BY <2>1, <2>2, <2>3, <2>4
  <2> QED  BY <2>2, <2>5, ChangeStays
<1> QED  BY <1>1, <1>2

LEMMA AppendStays ==
  ASSUME IInv, NEW s \in Strings, NEW r \in Strings,
         MayChange(s), Intact(r), AppendString(s, r)
  PROVE  IInv'
<1>1. CASE Fail
  BY <1>1, FailStays
<1>2. CASE ~Fail
  <2>1. TypeOK /\ BuffersOwned /\ Intact(s) /\ (Borrowing => TextsComply /\ ~Lent(s))
    BY DEF IInv, MayChange
  <2>2. /\ TypeOK' /\ BuffersOwned'
        /\ TextsComply /\ ~Lent(s) => Undisturbed(s)
        /\ Validates(encoding[s], Text(r))
        /\ Becomes(s, Text(s) \o Text(r), encoding[s])
    BY <1>2, <2>1, Appended
  <2>3. ASSUME Borrowing
        PROVE  Validates(encoding[s], Text(s) \o Text(r))
    <3>1. Validates(encoding[s], Text(s))
      BY <2>1, <2>3 DEF TextsComply, Intact
    <3>2. Text(s) \in Seq(Characters) /\ Text(r) \in Seq(Characters)
      BY <2>1, TextOfIntact
    <3>3. ASSUME NEW k \in 1 .. Len(Text(s) \o Text(r))
          PROVE  \/ k \in 1 .. Len(Text(s)) /\ (Text(s) \o Text(r))[k] = Text(s)[k]
                 \/ /\ k - Len(Text(s)) \in 1 .. Len(Text(r))
                    /\ (Text(s) \o Text(r))[k] = Text(r)[k - Len(Text(s))]
      BY <3>2
    <3> QED  BY <2>2, <3>1, <3>3 DEF Validates
  <2>4. Borrowing => Undisturbed(s) /\ \E t, e : Becomes(s, t, e) /\ Validates(e, t)
    BY <2>1, <2>2, <2>3
  <2> QED  BY <2>2, <2>4, ChangeStays
<1> QED  BY <1>1, <1>2

LEMMA FreeStays ==
  ASSUME IInv, NEW s \in Strings, MayChange(s), Free(s)
  PROVE  IInv'
<1>1. TypeOK /\ BuffersOwned /\ Live(s) /\ (Borrowing => ~Lent(s))
  BY DEF IInv, MayChange, Intact
<1>2. TypeOK' /\ BuffersOwned' /\ (~Lent(s) => Undisturbed(s)) /\ ~Live(s)'
  BY <1>1, Freed DEF Live
<1> QED  BY <1>1, <1>2, ChangeStays

(* What a client reads is a text without a terminator in it.               *)
LEMMA ReadIsWord ==
  ASSUME IInv, NEW s \in Strings, Intact(s), NEW e \in Encodings, Validates(e, Text(s))
  PROVE  Text(s) \in Word
<1>1. Text(s) \in Seq(Characters)
  BY TextOfIntact DEF IInv
<1>2. \A i \in 1 .. Len(Text(s)) : Text(s)[i] \in Character
  BY CharacterAssumption DEF Validates
<1> DEFINE t == Text(s)
<1> HIDE DEF t
<1>3. t \in Seq(Characters) /\ \A i \in 1 .. Len(t) : t[i] \in Character
  BY <1>1, <1>2 DEF t
<1>4. t = [i \in 1 .. Len(t) |-> t[i]] /\ Len(t) \in Nat
  BY <1>3
<1>5. t \in Seq(Character)
  BY <1>3, <1>4
<1> QED  BY <1>5 DEF t, Word

LEMMA GetStays ==
  ASSUME IInv, NEW s \in Strings, Intact(s), NEW e \in Encodings, NEW size,
         GetCString(s, size, e)
  PROVE  IInv'
<1>1. CASE Fail
  BY <1>1, FailStays
<1>2. CASE ~Fail
  <2>1. Validates(e, Text(s)) /\ got' = Text(s) /\ ret' = TRUE /\ UNCHANGED <<memory, object, crashed>>
    BY <1>2 DEF GetCString
  <2>2. got' \in Word /\ ret' \in BOOLEAN /\ crashed' \in BOOLEAN
    BY <2>1, ReadIsWord DEF IInv, TypeOK
  <2> QED  BY <2>1, <2>2, NothingChanged DEF Unchanged
<1> QED  BY <1>1, <1>2

LEMMA Stays == IInv /\ [Next]_vars => IInv'
<1> SUFFICES ASSUME IInv, [Next]_vars PROVE IInv'
  OBVIOUS
<1>1. ASSUME NEW s \in Strings, NEW f \in Foreign, NEW e \in Encodings, NEW inlined \in BOOLEAN,
             NEW n \in 0 .. Len(contents[f]), ~Live(s), CreateFromForeign(s, f, n, e, inlined)
      PROVE  IInv'
  BY <1>1, FromForeign, CreateStays DEF CreateFromForeign
<1>2. ASSUME NEW s \in Strings, NEW r \in Strings, NEW mutable \in BOOLEAN,
             ~Live(s), Intact(r), CreateCopy(s, r, mutable)
      PROVE  IInv'
  <2>1. /\ buffer[r] \in Places /\ length[r] \in Nat /\ length[r] <= Len(memory[buffer[r]])
        /\ encoding[r] \in Encodings /\ isInlined(r) \in BOOLEAN
        /\ ~isInlined(r) => buffer[r] \notin Strings
        /\ memory[buffer[r]] # <<>> \/ ~Borrowing
    BY <1>2, FromString
  <2>2. StringCreate(s, buffer[r], length[r], encoding[r], isInlined(r), mutable)
    BY <1>2 DEF CreateCopy
  <2> HIDE DEF isInlined
  <2> QED  BY <1>2, <2>1, <2>2, CreateStays
<1>3. CASE UNCHANGED vars
  <2>1. Unchanged /\ got' \in Word /\ ret' \in BOOLEAN /\ crashed' \in BOOLEAN
    BY <1>3 DEF vars, object, Unchanged, IInv, TypeOK
  <2> QED  BY <2>1, NothingChanged
<1> QED
  BY <1>1, <1>2, <1>3, GetStays, TrimStays, AppendStays, FreeStays DEF Next, Call

LEMMA Invariant == Spec => []IInv
  BY Initially, Stays, PTL DEF Spec

(* The fields of strings, and what is in memory, keep their types; what a  *)
(* client reads has no terminator in it.                                   *)
THEOREM TypeCorrect == Spec => []TypeOK
<1>1. IInv => TypeOK
  BY DEF IInv
<1> QED  BY <1>1, Invariant, PTL

(* Whatever clients do, borrowed buffers included: no buffer of a mutable  *)
(* string leaks or is freed twice, no string writes to memory of a client, *)
(* and what a string owns is terminated behind its text.                   *)
THEOREM BuffersAreOwned == Spec => []BuffersOwned
<1>1. IInv => BuffersOwned
  BY DEF IInv
<1> QED  BY <1>1, Invariant, PTL

(* The text of every string is there and complies with its encoding, as    *)
(* long as a mutable string is left alone while a copy shares its buffer.  *)
THEOREM TextsAlwaysComply ==
  ASSUME Borrowing
  PROVE  Spec => []TextsComply
<1>1. IInv => TextsComply
  BY DEF IInv
<1> QED  BY <1>1, Invariant, PTL

(* Equal strings are strings of one text, in whatever encoding and place.  *)
THEOREM EqualMeansSameText ==
  ASSUME Borrowing
  PROVE  Spec => []EqualIsSameText
<1>1. IInv => EqualIsSameText
  <2> SUFFICES ASSUME IInv, NEW s \in Strings, NEW t \in Strings, Live(s), Live(t)
               PROVE  StringEqual(s, t) <=> Text(s) = Text(t)
    BY DEF EqualIsSameText
  <2>1. /\ TypeOK /\ Intact(s) /\ Intact(t)
        /\ Validates(encoding[s], Text(s)) /\ Validates(encoding[t], Text(t))
    BY DEF IInv, TextsComply
  <2>2. /\ Text(s) \in Seq(Characters) /\ Len(Text(s)) = length[s] /\ length[s] \in Nat
        /\ \A i \in 1 .. length[s] : Text(s)[i] = memory[buffer[s]][i]
    BY <2>1, TextOfIntact
  <2>3. /\ Text(t) \in Seq(Characters) /\ Len(Text(t)) = length[t] /\ length[t] \in Nat
        /\ \A i \in 1 .. length[t] : Text(t)[i] = memory[buffer[t]][i]
    BY <2>1, TextOfIntact
  <2>4. ASSUME StringEqual(s, t)
        PROVE  Text(s) = Text(t)
    <3>1. Len(Text(s)) = Len(Text(t)) /\ \A i \in 1 .. Len(Text(s)) : Text(s)[i] = Text(t)[i]
      BY <2>2, <2>3, <2>4 DEF StringEqual
    <3> QED  BY <2>2, <2>3, <3>1, SeqEqual
  <2>5. ASSUME Text(s) = Text(t)
        PROVE  StringEqual(s, t)
    <3>1. length[s] = length[t] /\ \A i \in 1 .. length[s] : memory[buffer[s]][i] = memory[buffer[t]][i]
      BY <2>2, <2>3, <2>5
    <3>2. Validates(encoding[t], Text(s)) /\ Validates(encoding[s], Text(t))
      BY <2>1, <2>5
    <3> QED  BY <3>1, <3>2 DEF StringEqual
  <2> QED  BY <2>4, <2>5
<1> QED  BY <1>1, Invariant, PTL
-----------------------------------------------------------------------------
(* The refinement mapping.                                                 *)
text    == [s \in Strings |-> IF Live(s) THEN Text(s) ELSE Null]
mutable == {s \in Strings : isMutable[s]}

LEMMA TextIsNotNull ==
  ASSUME TypeOK, NEW s \in Strings, Intact(s)
  PROVE  Text(s) # Null
<1>1. Text(s) \in Seq(Character \cup {NUL})
  BY TextOfIntact DEF Characters
<1> QED  BY <1>1, CharacterAssumption

(* Other strings keep their texts.                                         *)
LEMMA OnlyOneChanges ==
  ASSUME TypeOK, TypeOK', NEW s \in Strings, Undisturbed(s),
         NEW t, IF Live(s)' THEN Text(s)' = t ELSE t = Null
  PROVE  /\ text' = [text EXCEPT ![s] = t]
         /\ isMutable'[s] => mutable' = mutable \cup {s}
         /\ ~isMutable'[s] => mutable' = mutable \ {s}
<1>1. ASSUME NEW x \in Strings, x # s
      PROVE  text'[x] = text[x] /\ isMutable'[x] = isMutable[x]
  BY <1>1 DEF Undisturbed, text, Live, Text
<1>2. text'[s] = t
  BY DEF text
<1>3. text' = [text EXCEPT ![s] = t]
  BY <1>1, <1>2 DEF text
<1>4. isMutable'[s] => mutable' = mutable \cup {s}
  BY <1>1 DEF mutable
<1>5. ~isMutable'[s] => mutable' = mutable \ {s}
  BY <1>1 DEF mutable
<1> QED  BY <1>3, <1>4, <1>5

LEMMA FailImplements ==
  ASSUME Fail
  PROVE  Value!Fail
<1>1. text' = text /\ mutable' = mutable
  BY DEF Fail, object, text, mutable, Live, Text
<1> QED  BY <1>1 DEF Fail, Value!Fail, text, mutable

(* A character that complies is no terminator, and so all of a text is     *)
(* copied.                                                                 *)
LEMMA CopiesAll ==
  ASSUME IInv, Borrowing, NEW r \in Strings, Intact(r), NEW len \in 0 .. length[r],
         IsStrnlen(len, memory[buffer[r]], length[r])
  PROVE  len = length[r]
<1>1. Validates(encoding[r], Text(r))
  BY DEF IInv, TextsComply, Intact
<1>2. /\ length[r] \in Nat /\ Len(Text(r)) = length[r] /\ encoding[r] \in Encodings
      /\ \A i \in 1 .. length[r] : Text(r)[i] = memory[buffer[r]][i]
  BY TextOfIntact DEF IInv
<1>3. ASSUME len < length[r]
      PROVE  FALSE
  <2>1. len + 1 \in 1 .. length[r] /\ memory[buffer[r]][len + 1] = NUL
    BY <1>2, <1>3 DEF IsStrnlen
  <2>2. Text(r)[len + 1] \in Character
    BY <1>1, <1>2, <2>1, CharacterAssumption DEF Validates
  <2> QED  BY <1>2, <2>1, <2>2, CharacterAssumption
<1> QED  BY <1>2, <1>3

LEMMA NotLiveNotMutable ==
  ASSUME IInv, NEW s \in Strings, ~Live(s)
  PROVE  ~isMutable[s] /\ s \notin mutable /\ text[s] = Null
  BY PlacesAssumption DEF IInv, BuffersOwned, Placed, Live, Places, mutable, text

(* A creation gives one string a text, fails, or ends the process.         *)
Gives(s, place, n, m) ==
  \/ Value!Fail
  \/ UNCHANGED <<text, mutable, got, ret>>
  \/ /\ mutable' = (IF m THEN mutable \cup {s} ELSE mutable)
     /\ ret' = TRUE /\ got' = <<>>
     /\ \E len \in 0 .. n :
          /\ IsStrnlen(len, memory[place], n)
          /\ text' = [text EXCEPT ![s] = SubSeq(memory[place], 1, len)]

LEMMA CreateImplements ==
  ASSUME IInv, IInv', Borrowing, NEW s \in Strings, ~Live(s),
         NEW place \in Places, NEW n \in Nat, n <= Len(memory[place]),
         NEW e \in Encodings, NEW inlined \in BOOLEAN, NEW m \in BOOLEAN,
         ~m /\ ~inlined => place \notin Strings, memory[place] # <<>>,
         StringCreate(s, place, n, e, inlined, m)
  PROVE  Gives(s, place, n, m)
<1>1. TypeOK /\ BuffersOwned /\ TextsComply /\ TypeOK'
  BY DEF IInv
<1>2. CASE Fail
  BY <1>2, FailImplements DEF Gives
<1>3. CASE Unchanged /\ UNCHANGED <<got, ret>>
  <2>1. UNCHANGED <<text, mutable, got, ret>>
    BY <1>3 DEF Unchanged, object, text, mutable, Live, Text
  <2> QED  BY <2>1 DEF Gives
<1>4. ASSUME Undisturbed(s), isMutable'[s] = m, ret' = TRUE, got' = <<>>,
             NEW len \in 0 .. n, IsStrnlen(len, memory[place], n),
             Becomes(s, SubSeq(memory[place], 1, len), e)
      PROVE  /\ mutable' = (IF m THEN mutable \cup {s} ELSE mutable)
             /\ text' = [text EXCEPT ![s] = SubSeq(memory[place], 1, len)]
  <2>1. Live(s)' /\ Text(s)' = SubSeq(memory[place], 1, len)
    BY <1>4 DEF Becomes
  <2>2. /\ text' = [text EXCEPT ![s] = SubSeq(memory[place], 1, len)]
        /\ isMutable'[s] => mutable' = mutable \cup {s}
        /\ ~isMutable'[s] => mutable' = mutable \ {s}
    BY <1>1, <1>4, <2>1, OnlyOneChanges
  <2> QED  BY <1>4, <2>2, NotLiveNotMutable
<1>5. CASE /\ TypeOK' /\ BuffersOwned'
           /\ TextsComply => Undisturbed(s)
           /\ isMutable'[s] = m /\ ret' = TRUE /\ got' = <<>>
           /\ \E len \in 0 .. n :
                LET t == SubSeq(memory[place], 1, len) IN
                /\ IsStrnlen(len, memory[place], n) /\ Validates(e, t)
                /\ Borrowing => Becomes(s, t, e)
  <2>1. PICK len \in 0 .. n :
          /\ IsStrnlen(len, memory[place], n)
          /\ Becomes(s, SubSeq(memory[place], 1, len), e)
    BY <1>5
  <2>2. /\ mutable' = (IF m THEN mutable \cup {s} ELSE mutable)
        /\ text' = [text EXCEPT ![s] = SubSeq(memory[place], 1, len)]
    BY <1>1, <1>4, <1>5, <2>1
  <2> QED  BY <1>5, <2>1, <2>2 DEF Gives
<1>6. \/ Fail
      \/ Unchanged /\ UNCHANGED <<got, ret>> /\ crashed' = TRUE
      \/ /\ TypeOK' /\ BuffersOwned'
         /\ TextsComply => Undisturbed(s)
         /\ isMutable'[s] = m /\ ret' = TRUE /\ got' = <<>>
         /\ \E len \in 0 .. n :
              LET t == SubSeq(memory[place], 1, len) IN
              /\ IsStrnlen(len, memory[place], n) /\ Validates(e, t)
              /\ Borrowing => Becomes(s, t, e)
  BY <1>1, Created
<1> QED  BY <1>2, <1>3, <1>5, <1>6 DEF Gives

LEMMA InitImplements == Init => Value!Init
  BY DEF Init, Value!Init, Live

LEMMA GetImplements ==
  ASSUME IInv, NEW s \in Strings, Intact(s), NEW e \in Encodings, NEW size,
         GetCString(s, size, e)
  PROVE  Value!Fail \/ Value!Read(s)
<1>1. CASE Fail
  BY <1>1, FailImplements
<1>2. CASE ~Fail
  <2>1. got' = Text(s) /\ ret' = TRUE /\ UNCHANGED <<memory, object>>
    BY <1>2 DEF GetCString
  <2>2. text' = text /\ mutable' = mutable
    BY <2>1 DEF object, text, mutable, Live, Text
  <2>3. text[s] = Text(s) /\ text[s] # Null
    BY TextIsNotNull DEF IInv, text, Intact
  <2> QED  BY <2>1, <2>2, <2>3 DEF Value!Read, Value!Exists, text, mutable
<1> QED  BY <1>1, <1>2

LEMMA TrimImplements ==
  ASSUME IInv, IInv', Borrowing, NEW s \in Strings, MayChange(s), TrimWhitespace(s)
  PROVE  Value!Fail \/ Value!Trim(s)
<1>1. CASE Fail
  BY <1>1, FailImplements
<1>2. CASE ~Fail
  <2>1. TypeOK /\ TypeOK' /\ BuffersOwned /\ Intact(s) /\ TextsComply /\ ~Lent(s)
    BY DEF IInv, MayChange
  <2>2. /\ Undisturbed(s)
        /\ isMutable[s] /\ isMutable' = isMutable /\ ret' = TRUE /\ got' = <<>>
        /\ \E i, j \in 0 .. Len(Text(s)) :
             LET core == SubSeq(Text(s), i + 1, j) IN
             Value!IsTrimmed(Text(s), core) /\ Becomes(s, core, encoding[s])
    BY <1>2, <2>1, Trimmed
  <2>3. PICK i, j \in 0 .. Len(Text(s)) :
          /\ Value!IsTrimmed(Text(s), SubSeq(Text(s), i + 1, j))
          /\ Becomes(s, SubSeq(Text(s), i + 1, j), encoding[s])
    BY <2>2
  <2>4. Live(s)' /\ Text(s)' = SubSeq(Text(s), i + 1, j)
    BY <2>3 DEF Becomes
  <2>5. text' = [text EXCEPT ![s] = SubSeq(Text(s), i + 1, j)]
    BY <2>1, <2>2, <2>4, OnlyOneChanges
  <2>6. mutable' = mutable /\ s \in mutable /\ text[s] = Text(s)
    BY <2>1, <2>2 DEF mutable, text, Intact
  <2>7. /\ i \in 0 .. Len(text[s]) /\ j \in 0 .. Len(text[s])
        /\ Value!IsTrimmed(text[s], SubSeq(text[s], i + 1, j))
        /\ text' = [text EXCEPT ![s] = SubSeq(text[s], i + 1, j)]
    BY <2>3, <2>5, <2>6
  <2> QED  BY <2>2, <2>6, <2>7 DEF Value!Trim, text, mutable
<1> QED  BY <1>1, <1>2

LEMMA AppendImplements ==
  ASSUME IInv, IInv', Borrowing, NEW s \in Strings, NEW r \in Strings,
         MayChange(s), Intact(r), AppendString(s, r)
  PROVE  Value!Fail \/ Value!AppendString(s, r)
<1>1. CASE Fail
  BY <1>1, FailImplements
<1>2. CASE ~Fail
  <2>1. TypeOK /\ TypeOK' /\ BuffersOwned /\ Intact(s) /\ TextsComply /\ ~Lent(s)
    BY DEF IInv, MayChange
  <2>2. /\ Undisturbed(s)
        /\ isMutable[s] /\ isMutable' = isMutable /\ ret' = TRUE /\ got' = <<>>
        /\ Becomes(s, Text(s) \o Text(r), encoding[s])
    BY <1>2, <2>1, Appended
  <2>3. Live(s)' /\ Text(s)' = Text(s) \o Text(r)
    BY <2>2 DEF Becomes
  <2>4. text' = [text EXCEPT ![s] = Text(s) \o Text(r)]
    BY <2>1, <2>2, <2>3, OnlyOneChanges
  <2>5. mutable' = mutable /\ s \in mutable
    BY <2>2 DEF mutable
  <2>6. text[s] = Text(s) /\ text[r] = Text(r) /\ text[r] # Null
    BY <2>1, TextIsNotNull DEF text, Intact
  <2>7. text' = [text EXCEPT ![s] = text[s] \o text[r]]
    BY <2>4, <2>6
  <2> QED  BY <2>2, <2>5, <2>6, <2>7 DEF Value!AppendString, Value!Exists, text, mutable
<1> QED  BY <1>1, <1>2

LEMMA FreeImplements ==
  ASSUME IInv, IInv', Borrowing, NEW s \in Strings, MayChange(s), Free(s)
  PROVE  Value!Forget(s)
<1>1. TypeOK /\ TypeOK' /\ BuffersOwned /\ Live(s) /\ Intact(s) /\ ~Lent(s)
  BY DEF IInv, MayChange, Intact
<1>2. Undisturbed(s) /\ ~Live(s)' /\ ~isMutable'[s]
  BY <1>1, Freed DEF Live
<1>3. text' = [text EXCEPT ![s] = Null] /\ mutable' = mutable \ {s}
  BY <1>1, <1>2, OnlyOneChanges
<1>4. text[s] # Null
  BY <1>1, TextIsNotNull DEF text
<1>5. ret' = TRUE /\ got' = <<>>
  BY DEF Free
<1> QED  BY <1>3, <1>4, <1>5 DEF Value!Forget, Value!Exists, text, mutable

(* Every step of strings is a step of texts, or changes no text.           *)
LEMMA StepImplements ==
  IInv /\ IInv' /\ Borrowing /\ [Next]_vars => [Value!Next]_(Value!vars)
<1> SUFFICES ASSUME IInv, IInv', Borrowing, [Next]_vars
             PROVE  Value!Next \/ UNCHANGED <<text, mutable, got, ret>>
  BY DEF Value!vars, text, mutable
<1>1. ASSUME NEW s \in Strings, NEW f \in Foreign, NEW e \in Encodings, NEW inlined \in BOOLEAN,
             NEW n \in 0 .. Len(contents[f]), ~Live(s), CreateFromForeign(s, f, n, e, inlined)
      PROVE  Value!Next \/ UNCHANGED <<text, mutable, got, ret>>
  <2>1. /\ f \in Places /\ f \notin Strings /\ n \in Nat
        /\ memory[f] = contents[f] /\ n <= Len(memory[f]) /\ memory[f] # <<>>
    BY FromForeign
  <2>2. \/ Value!Fail
        \/ UNCHANGED <<text, mutable, got, ret>>
        \/ /\ mutable' = mutable /\ ret' = TRUE /\ got' = <<>>
           /\ \E len \in 0 .. n : text' = [text EXCEPT ![s] = SubSeq(contents[f], 1, len)]
    <3>1. StringCreate(s, f, n, e, inlined, FALSE) /\ FALSE \in BOOLEAN
      BY <1>1 DEF CreateFromForeign
    <3>2. Gives(s, f, n, FALSE)
      BY <1>1, <2>1, <3>1, CreateImplements
    <3> QED  BY <2>1, <3>2 DEF Gives
  <2>3. ASSUME mutable' = mutable, ret' = TRUE, got' = <<>>,
               NEW len \in 0 .. n, text' = [text EXCEPT ![s] = SubSeq(contents[f], 1, len)]
        PROVE  Value!Next
    <3> DEFINE given == UNION {{SubSeq(contents[g], 1, k) : k \in 0 .. Len(contents[g])} : g \in Foreign}
    <3>1. len \in 0 .. Len(contents[f])
      BY ContentsAssumption
    <3>2. SubSeq(contents[f], 1, len) \in given
      BY <3>1
    <3>3. Value!Create(s, SubSeq(contents[f], 1, len))
      BY <1>1, <2>3, NotLiveNotMutable DEF Value!Create, Value!Exists, text, mutable
    <3> QED  BY <3>2, <3>3, Zenon DEF Value!Next
  <2> QED  BY <2>2, <2>3 DEF Value!Next
<1>2. ASSUME NEW s \in Strings, NEW r \in Strings, NEW m \in BOOLEAN,
             ~Live(s), Intact(r), CreateCopy(s, r, m)
      PROVE  Value!Next \/ UNCHANGED <<text, mutable, got, ret>>
  <2>1. /\ buffer[r] \in Places /\ length[r] \in Nat /\ length[r] <= Len(memory[buffer[r]])
        /\ encoding[r] \in Encodings /\ isInlined(r) \in BOOLEAN
        /\ ~isInlined(r) => buffer[r] \notin Strings
        /\ memory[buffer[r]] # <<>>
    BY <1>2, FromString
  <2>2. StringCreate(s, buffer[r], length[r], encoding[r], isInlined(r), m)
    BY <1>2 DEF CreateCopy
  <2>3. \/ Value!Fail
        \/ UNCHANGED <<text, mutable, got, ret>>
        \/ /\ mutable' = (IF m THEN mutable \cup {s} ELSE mutable)
           /\ ret' = TRUE /\ got' = <<>>
           /\ \E len \in 0 .. length[r] :
                /\ IsStrnlen(len, memory[buffer[r]], length[r])
                /\ text' = [text EXCEPT ![s] = SubSeq(memory[buffer[r]], 1, len)]
    <3>1. Gives(s, buffer[r], length[r], m)
      BY <1>2, <2>1, <2>2, CreateImplements
    <3> QED  BY <3>1 DEF Gives
  <2>4. ASSUME mutable' = (IF m THEN mutable \cup {s} ELSE mutable), ret' = TRUE, got' = <<>>,
               NEW len \in 0 .. length[r], IsStrnlen(len, memory[buffer[r]], length[r]),
               text' = [text EXCEPT ![s] = SubSeq(memory[buffer[r]], 1, len)]
        PROVE  Value!Copy(s, r, m)
    <3>1. SubSeq(memory[buffer[r]], 1, len) = Text(r)
      BY <1>2, <2>4, CopiesAll DEF Text
    <3>2. text[r] = Text(r) /\ text[r] # Null
      BY <1>2, TextIsNotNull DEF IInv, text, Intact
    <3>3. text' = [text EXCEPT ![s] = text[r]] /\ text[s] = Null
      BY <1>2, <2>4, <3>1, <3>2, NotLiveNotMutable
    <3> QED  BY <2>4, <3>2, <3>3 DEF Value!Copy, Value!Exists, text, mutable
  <2> QED  BY <2>3, <2>4 DEF Value!Next
<1>3. ASSUME NEW s \in Strings, NEW e \in Encodings, NEW size, Intact(s), GetCString(s, size, e)
      PROVE  Value!Next
  BY <1>3, GetImplements DEF Value!Next
<1>4. ASSUME NEW s \in Strings, MayChange(s), TrimWhitespace(s)
      PROVE  Value!Next
  BY <1>4, TrimImplements DEF Value!Next
<1>5. ASSUME NEW s \in Strings, NEW r \in Strings, MayChange(s), Intact(r), AppendString(s, r)
      PROVE  Value!Next
  BY <1>5, AppendImplements DEF Value!Next
<1>6. ASSUME NEW s \in Strings, MayChange(s), Free(s)
      PROVE  Value!Next
  BY <1>6, FreeImplements DEF Value!Next
<1>7. CASE UNCHANGED vars
  BY <1>7 DEF vars, object, text, mutable, Live, Text
<1> QED
  BY <1>1, <1>2, <1>3, <1>4, <1>5, <1>6, <1>7 DEF Next, Call

(* Strings are texts: wherever their characters are, however buffers move  *)
(* and whatever fails, each call does what it does to texts, to one string *)
(* and at once, as long as shared buffers are left alone.                  *)
THEOREM StringsImplementText ==
  ASSUME Borrowing
  PROVE  Spec => ImplementsText
<1>1. Spec => Value!Init
  BY InitImplements DEF Spec
<1>2. IInv /\ IInv' /\ [Next]_vars => [Value!Next]_(Value!vars)
  BY StepImplements
<1>3. Spec => [][Value!Next]_(Value!vars)
  BY <1>2, Invariant, PTL DEF Spec
<1> QED  BY <1>1, <1>3 DEF ImplementsText, Value!Spec
=============================================================================
