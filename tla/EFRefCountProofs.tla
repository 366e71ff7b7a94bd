-------------------------- MODULE EFRefCountProofs --------------------------
(***************************************************************************)
(* Proofs about EFRefCount for any set of threads and any finite bound on  *)
(* the references outstanding at once.                                     *)
(***************************************************************************)
EXTENDS EFRefCount, FiniteSetTheorems, TLAPS

(* t is inside the EFRelease that found the counter at one.                *)
Closing(t) == frame[t] = "deinit" \/ (frame[t] = "released" /\ old[t] = 1)

(* The thread in a closing release is alone: nobody owns a reference, and  *)
(* no other thread is in one.                                              *)
ClosingAlone ==
  \A t \in Threads : Closing(t) =>
    /\ Outstanding = {}
    /\ \A u \in Threads : Closing(u) => u = t

(* Where a thread is in EFRelease agrees with the state of the object.     *)
FramesAgree ==
  \A t \in Threads :
    /\ frame[t] # "idle" => ~is_stack_obj
    /\ frame[t] = "released" => old[t] > 0
    /\ frame[t] = "released" /\ old[t] = 1 => phase = "live"
    /\ frame[t] = "deinit" => phase = "deinit"

(* The last access of every thread to a heap object either is published    *)
(* through the counter or happens before what some owner does next.        *)
AccessesCovered ==
  /\ \A t \in Threads : t \in ordered[t]
  /\ ~is_stack_obj =>
       \A u \in Threads :
         u \in published \/ \E r \in Outstanding : u \in ordered[holder[r]]

IInv ==
  /\ TypeOK
  /\ RefCountExact
  /\ NoUseAfterFree
  /\ is_stack_obj => phase = "live"
  /\ ClosingAlone
  /\ FramesAgree
  /\ AccessesCovered
  /\ TeardownAfterEveryAccess
-----------------------------------------------------------------------------
(* Finitely many references are outstanding, so the counter is a number.   *)
LEMMA OutstandingFinite ==
  /\ IsFiniteSet(Outstanding)
  /\ Cardinality(Outstanding) \in Nat
  /\ Cardinality(Outstanding) = 0 <=> Outstanding = {}
<1>1. Outstanding \in SUBSET References
  BY DEF Outstanding
<1>2. IsFiniteSet(Outstanding)
  BY <1>1, FS_Subset, ReferencesAssumption
<1>. QED
  BY <1>2, FS_CardinalityType, FS_EmptySet

(* Handing out a free token adds one outstanding reference.                *)
LEMMA OutstandingAdd ==
  ASSUME TypeOK, NEW t \in Threads, NEW r \in References,
         holder[r] = NoOne, holder' = [holder EXCEPT ![r] = t]
  PROVE  /\ Outstanding' = Outstanding \cup {r}
         /\ Cardinality(Outstanding') = Cardinality(Outstanding) + 1
<1>1. Outstanding' = Outstanding \cup {r}
  BY ThreadsAssumption DEF Outstanding, TypeOK
<1>2. r \notin Outstanding
  BY DEF Outstanding
<1>. QED
  BY <1>1, <1>2, OutstandingFinite, FS_AddElement

(* Giving a token up removes one outstanding reference.                    *)
LEMMA OutstandingRemove ==
  ASSUME TypeOK, NEW t \in Threads, NEW r \in References,
         holder[r] = t, holder' = [holder EXCEPT ![r] = NoOne]
  PROVE  /\ Outstanding' = Outstanding \ {r}
         /\ Cardinality(Outstanding') = Cardinality(Outstanding) - 1
         /\ r \in Outstanding
         /\ Cardinality(Outstanding) > 0
<1>1. Outstanding' = Outstanding \ {r}
  BY DEF Outstanding, TypeOK
<1>2. r \in Outstanding
  BY ThreadsAssumption DEF Outstanding
<1>3. Cardinality(Outstanding') = Cardinality(Outstanding) - 1
  BY <1>1, <1>2, OutstandingFinite, FS_RemoveElement
<1>4. Cardinality(Outstanding) > 0
  BY <1>2, OutstandingFinite
<1>. QED
  BY <1>1, <1>2, <1>3, <1>4

(* A thread that holds a token keeps the object out of every teardown.     *)
LEMMA HolderExcludesClosing ==
  ASSUME IInv, NEW r \in Outstanding
  PROVE  /\ phase = "live"
         /\ \A t \in Threads : ~Closing(t)
BY DEF IInv, NoUseAfterFree, ClosingAlone
-----------------------------------------------------------------------------
LEMMA InitIInv == Init => IInv
<1> SUFFICES ASSUME Init PROVE IInv
  OBVIOUS
<1>1. Outstanding = {}
  BY DEF Init, Outstanding
<1>2. Cardinality(Outstanding) = 0
  BY <1>1, FS_EmptySet
<1>3. TypeOK
  BY DEF Init, TypeOK
<1>. QED
  BY <1>1, <1>2, <1>3 DEF Init, IInv, RefCountExact, NoUseAfterFree, ClosingAlone,
     Closing, FramesAgree, AccessesCovered, TeardownAfterEveryAccess

(* Every step preserves the invariant: one step of the proof per action.   *)
LEMMA NextIInv == IInv /\ [Next]_vars => IInv'
<1> SUFFICES ASSUME IInv, [Next]_vars PROVE IInv'
  OBVIOUS
<1> USE ThreadsAssumption
<1>t. TypeOK
  BY DEF IInv
<1>1. ASSUME NEW t \in Threads, NEW r \in References, Alloc(t, r)
      PROVE  IInv'
  <2>1. Outstanding = {} /\ refcount = 0 /\ ~is_stack_obj
    BY <1>1, OutstandingFinite DEF IInv, NoUseAfterFree, RefCountExact, Alloc
  <2>2. holder[r] = NoOne
    BY <2>1 DEF Outstanding
  <2>3. Outstanding' = {r} /\ Cardinality(Outstanding') = 1
    <3>1. holder' = [holder EXCEPT ![r] = t]
      BY <1>1 DEF Alloc
    <3>2. Outstanding' = Outstanding \cup {r}
      BY <3>1, <1>t, <2>2, OutstandingAdd
    <3>3. Outstanding' = {r}
      BY <3>2, <2>1
    <3>. QED
      BY <3>3, FS_Singleton
  <2>4. TypeOK'
    BY <1>1, <1>t DEF Alloc, Touch, TypeOK, local
  <2>5. \A u \in Threads : ~Closing(u)
    BY <1>1 DEF Alloc, IInv, FramesAgree, Closing
  <2>6. AccessesCovered'
    <3>1. holder'[r] = t
      BY <1>1, <1>t DEF Alloc, TypeOK
    <3>2. \A u \in Threads : u # t => (u \in published' \/ u \in ordered'[t])
      BY <1>1, <1>t, <2>1 DEF Alloc, Touch, IInv, AccessesCovered, TypeOK
    <3>3. \A u \in Threads : u \in ordered'[u]
      BY <1>1, <1>t DEF Alloc, Touch, IInv, AccessesCovered, TypeOK
    <3>. QED
      BY <2>3, <3>1, <3>2, <3>3 DEF AccessesCovered
  <2>. QED
    BY <1>1, <1>t, <2>1, <2>3, <2>4, <2>5, <2>6
       DEF Alloc, IInv, RefCountExact, NoUseAfterFree, ClosingAlone, Closing,
           FramesAgree, TeardownAfterEveryAccess, local
<1>2. ASSUME NEW t \in Threads, NEW r \in References, Literal(t, r)
      PROVE  IInv'
  <2>1. TypeOK'
    BY <1>2, <1>t DEF Literal, TypeOK, header, local, memory
  <2>. QED
    BY <1>2, <1>t, <2>1
       DEF Literal, IInv, RefCountExact, NoUseAfterFree, ClosingAlone, Closing,
           FramesAgree, AccessesCovered, TeardownAfterEveryAccess, header, local,
           memory
<1>3. ASSUME NEW t \in Threads, NEW r \in References, Retain(t, r)
      PROVE  IInv'
  <2>1. PICK s \in Outstanding : holder[s] = t
    BY <1>3 DEF Retain, Holds, Outstanding
  <2>2. phase = "live" /\ \A u \in Threads : ~Closing(u)
    BY <2>1, HolderExcludesClosing
  <2>3. /\ Outstanding' = Outstanding \cup {r}
        /\ Cardinality(Outstanding') = Cardinality(Outstanding) + 1
    BY <1>3, <1>t, OutstandingAdd DEF Retain
  <2>4. TypeOK'
    BY <1>3, <1>t DEF Retain, Touch, TypeOK, local
  <2>5. AccessesCovered'
    <3>1. holder'[r] = t /\ \A q \in Outstanding : holder'[q] = holder[q]
      BY <1>3, <1>t DEF Retain, TypeOK, Outstanding
    <3>2. \A u \in Threads : u \in ordered'[u]
      BY <1>3, <1>t DEF Retain, Touch, IInv, AccessesCovered, TypeOK
    <3>3. ASSUME ~is_stack_obj, NEW u \in Threads
          PROVE  u \in published' \/ \E q \in Outstanding' : u \in ordered'[holder'[q]]
      <4>1. CASE u = t
        BY <4>1, <2>3, <3>1, <3>2
      <4>2. CASE u # t /\ u \in published
        BY <4>2, <1>3 DEF Retain, Touch
      <4>3. CASE u # t /\ u \notin published
        <5>1. PICK q \in Outstanding : u \in ordered[holder[q]]
          BY <3>3, <4>3 DEF IInv, AccessesCovered
        <5>2. holder[q] \in Threads
          BY <1>t DEF TypeOK, Outstanding
        <5>3. u \in ordered'[holder[q]]
          BY <1>3, <1>t, <4>3, <5>1, <5>2 DEF Retain, Touch, TypeOK
        <5>. QED
          BY <5>1, <5>3, <3>1, <2>3
      <4>. QED
        BY <4>1, <4>2, <4>3
    <3>4. is_stack_obj' = is_stack_obj
      BY <1>3 DEF Retain
    <3>. QED
      BY <3>2, <3>3, <3>4 DEF AccessesCovered
  <2>. QED
    BY <1>3, <1>t, <2>2, <2>3, <2>4, <2>5, OutstandingFinite
       DEF Retain, IInv, RefCountExact, NoUseAfterFree, ClosingAlone, Closing,
           FramesAgree, TeardownAfterEveryAccess, local
<1>4. ASSUME NEW t \in Threads, NEW r \in References, ReleaseStatic(t, r)
      PROVE  IInv'
  <2>1. TypeOK'
    BY <1>4, <1>t DEF ReleaseStatic, TypeOK, header, local, memory
  <2>2. \A u \in Threads : ~Closing(u)
    BY <1>4 DEF ReleaseStatic, IInv, FramesAgree, Closing
  <2>. QED
    BY <1>4, <1>t, <2>1, <2>2
       DEF ReleaseStatic, IInv, RefCountExact, NoUseAfterFree, ClosingAlone,
           Closing, FramesAgree, AccessesCovered, TeardownAfterEveryAccess, header,
           local, memory
<1>5. ASSUME NEW t \in Threads, NEW r \in References, ReleaseDecrement(t, r)
      PROVE  IInv'
  <2>1. /\ Outstanding' = Outstanding \ {r}
        /\ Cardinality(Outstanding') = Cardinality(Outstanding) - 1
        /\ r \in Outstanding
        /\ Cardinality(Outstanding) > 0
    BY <1>5, <1>t, OutstandingRemove DEF ReleaseDecrement
  <2>2. phase = "live" /\ \A u \in Threads : ~Closing(u)
    BY <2>1, HolderExcludesClosing
  <2>3. refcount = Cardinality(Outstanding) /\ refcount \in Nat /\ refcount > 0
    BY <1>5, <2>1, OutstandingFinite DEF ReleaseDecrement, IInv, RefCountExact
  <2>4. TypeOK'
    BY <1>5, <1>t, <2>3 DEF ReleaseDecrement, TypeOK
  <2>5. refcount' = Cardinality(Outstanding')
    BY <1>5, <2>1, <2>3 DEF ReleaseDecrement
  <2>6. \A u \in Threads : u # t => ~Closing(u)'
    BY <1>5, <1>t, <2>2 DEF ReleaseDecrement, Closing, TypeOK
  <2>7. Closing(t)' => Outstanding' = {}
    <3>1. old'[t] = refcount
      BY <1>5, <1>t DEF ReleaseDecrement, TypeOK
    <3>2. Closing(t)' => Cardinality(Outstanding') = 0
      BY <1>5, <1>t, <2>1, <2>3, <3>1 DEF ReleaseDecrement, Closing, TypeOK
    <3>3. Cardinality(Outstanding') = 0 => Outstanding' = {}
      <4>1. IsFiniteSet(Outstanding')
        BY <2>1, OutstandingFinite, FS_RemoveElement
      <4>. QED
        BY <4>1, FS_EmptySet
    <3>. QED
      BY <3>2, <3>3
  <2>8. FramesAgree'
    BY <1>5, <1>t, <2>2, <2>3 DEF ReleaseDecrement, IInv, FramesAgree, TypeOK
  <2>9. AccessesCovered'
    <3>1. ASSUME NEW u \in Threads
          PROVE  u \in published' \/ \E q \in Outstanding' : u \in ordered'[holder'[q]]
      <4>1. CASE u \in published
        BY <4>1, <1>5 DEF ReleaseDecrement
      <4>2. CASE u \notin published
        <5>1. PICK q \in Outstanding : u \in ordered[holder[q]]
          BY <4>2, <1>5 DEF IInv, AccessesCovered, ReleaseDecrement
        <5>2. CASE q = r
          BY <5>1, <5>2, <1>5 DEF ReleaseDecrement
        <5>3. CASE q # r /\ u # t
          <6>1. holder'[q] = holder[q] /\ holder[q] \in Threads
            BY <5>3, <1>5, <1>t DEF ReleaseDecrement, TypeOK, Outstanding
          <6>2. u \in ordered'[holder[q]]
            BY <6>1, <5>1, <5>3, <1>5, <1>t DEF ReleaseDecrement, TypeOK
          <6>. QED
            BY <6>1, <6>2, <5>3, <2>1
        <5>4. CASE u = t
          BY <5>4, <1>5 DEF ReleaseDecrement, IInv, AccessesCovered
        <5>. QED
          BY <5>2, <5>3, <5>4
      <4>. QED
        BY <4>1, <4>2
    <3>2. \A u \in Threads : u \in ordered'[u]
      BY <1>5, <1>t DEF ReleaseDecrement, IInv, AccessesCovered, TypeOK
    <3>. QED
      BY <3>1, <3>2 DEF AccessesCovered
  <2>. QED
    BY <1>5, <1>t, <2>1, <2>2, <2>4, <2>5, <2>6, <2>7, <2>8, <2>9
       DEF ReleaseDecrement, IInv, RefCountExact, NoUseAfterFree, ClosingAlone,
           Closing, TeardownAfterEveryAccess, TypeOK
<1>6. ASSUME NEW t \in Threads, Use(t)
      PROVE  IInv'
  <2>1. PICK s \in Outstanding : holder[s] = t
    BY <1>6 DEF Use, Holds, Outstanding
  <2>2. phase = "live" /\ \A u \in Threads : ~Closing(u)
    BY <2>1, HolderExcludesClosing
  <2>3. TypeOK'
    BY <1>6, <1>t DEF Use, Touch, TypeOK, header, local
  <2>4. AccessesCovered'
    <3>1. \A u \in Threads : u \in ordered'[u]
      BY <1>6, <1>t DEF Use, Touch, IInv, AccessesCovered, TypeOK
    <3>2. ASSUME ~is_stack_obj, NEW u \in Threads
          PROVE  u \in published' \/ \E q \in Outstanding : u \in ordered'[holder[q]]
      <4>1. CASE u = t
        BY <4>1, <2>1, <3>1
      <4>2. CASE u # t /\ u \in published
        BY <4>2, <1>6 DEF Use, Touch
      <4>3. CASE u # t /\ u \notin published
        <5>1. PICK q \in Outstanding : u \in ordered[holder[q]]
          BY <3>2, <4>3 DEF IInv, AccessesCovered
        <5>2. holder[q] \in Threads
          BY <1>t DEF TypeOK, Outstanding
        <5>. QED
          BY <1>6, <1>t, <4>3, <5>1, <5>2 DEF Use, Touch, TypeOK
      <4>. QED
        BY <4>1, <4>2, <4>3
    <3>. QED
      BY <3>1, <3>2, <1>6 DEF AccessesCovered, Use, header, Outstanding
  <2>. QED
    BY <1>6, <1>t, <2>2, <2>3, <2>4
       DEF Use, IInv, RefCountExact, NoUseAfterFree, ClosingAlone, Closing,
           FramesAgree, TeardownAfterEveryAccess, header, local, Outstanding
<1>7. ASSUME NEW t \in Threads, ReleaseLast(t)
      PROVE  IInv'
  <2>1. Closing(t) /\ Outstanding = {}
    BY <1>7 DEF ReleaseLast, WasLast, Closing, IInv, ClosingAlone
  <2>2. TypeOK'
    BY <1>7, <1>t DEF ReleaseLast, TypeOK
  <2>3. ~is_stack_obj
    BY <1>7 DEF ReleaseLast, IInv, FramesAgree
  <2>4. published = Threads
    BY <1>t, <2>1, <2>3 DEF IInv, AccessesCovered, TypeOK
  <2>5. \A u \in Threads : Closing(u)' => u = t
    BY <1>7, <1>t, <2>1 DEF ReleaseLast, Closing, IInv, ClosingAlone, TypeOK
  <2>6. FramesAgree'
    <3>1. \A u \in Threads : u # t => ~Closing(u)
      BY <2>1 DEF IInv, ClosingAlone
    <3>. QED
      BY <1>7, <1>t, <2>3, <3>1 DEF ReleaseLast, IInv, FramesAgree, Closing, TypeOK
  <2>7. AccessesCovered' /\ TeardownAfterEveryAccess'
    BY <1>7, <1>t, <2>4, <2>5 DEF ReleaseLast, IInv, AccessesCovered,
       TeardownAfterEveryAccess, TypeOK, Closing
  <2>. QED
    BY <1>7, <2>1, <2>2, <2>3, <2>5, <2>6, <2>7
       DEF ReleaseLast, IInv, RefCountExact, NoUseAfterFree, ClosingAlone,
           Outstanding
<1>8. ASSUME NEW t \in Threads, ReleaseOthersRemain(t)
      PROVE  IInv'
  <2>1. TypeOK'
    BY <1>8, <1>t DEF ReleaseOthersRemain, TypeOK, header, memory
  <2>2. ~exited'
    BY <1>8, <1>t DEF ReleaseOthersRemain, IInv, FramesAgree, TypeOK
  <2>3. \A u \in Threads : Closing(u)' => Closing(u)
    BY <1>8, <1>t DEF ReleaseOthersRemain, Closing, TypeOK
  <2>4. FramesAgree' /\ TeardownAfterEveryAccess'
    BY <1>8, <1>t DEF ReleaseOthersRemain, IInv, FramesAgree,
       TeardownAfterEveryAccess, TypeOK, header, memory
  <2>. QED
    BY <1>8, <2>1, <2>2, <2>3, <2>4
       DEF ReleaseOthersRemain, IInv, RefCountExact, NoUseAfterFree, ClosingAlone,
           AccessesCovered, Outstanding, header, memory
<1>9. ASSUME NEW t \in Threads, Dealloc(t)
      PROVE  IInv'
  <2>1. Closing(t) /\ Outstanding = {} /\ ~is_stack_obj
    BY <1>9 DEF Dealloc, Closing, IInv, ClosingAlone, FramesAgree
  <2>2. TypeOK'
    BY <1>9, <1>t DEF Dealloc, TypeOK, memory
  <2>3. \A u \in Threads : ~Closing(u)'
    BY <1>9, <1>t, <2>1 DEF Dealloc, Closing, IInv, ClosingAlone, TypeOK
  <2>4. FramesAgree' /\ TeardownAfterEveryAccess'
    BY <1>9, <1>t, <2>1, <2>3 DEF Dealloc, IInv, FramesAgree,
       TeardownAfterEveryAccess, TypeOK, memory, Closing
  <2>. QED
    BY <1>9, <2>1, <2>2, <2>3, <2>4
       DEF Dealloc, IInv, RefCountExact, NoUseAfterFree, ClosingAlone,
           AccessesCovered, Outstanding, memory
<1>10. ASSUME NEW t \in Threads, NEW u \in Threads, NEW r \in References,
              HandOver(t, u, r)
       PROVE  IInv'
  <2>1. r \in Outstanding /\ Outstanding' = Outstanding
    BY <1>10, <1>t DEF HandOver, Outstanding, TypeOK
  <2>2. phase = "live" /\ \A w \in Threads : ~Closing(w)
    BY <2>1, HolderExcludesClosing
  <2>3. TypeOK'
    BY <1>10, <1>t DEF HandOver, TypeOK, header, local
  <2>4. \A w \in Threads : ordered[w] \subseteq ordered'[w]
    BY <1>10, <1>t DEF HandOver, TypeOK
  <2>5. AccessesCovered'
    <3>1. ASSUME ~is_stack_obj, NEW w \in Threads, w \notin published
          PROVE  \E q \in Outstanding : w \in ordered'[holder'[q]]
      <4>1. PICK q \in Outstanding : w \in ordered[holder[q]]
        BY <3>1 DEF IInv, AccessesCovered
      <4>2. CASE q = r
        <5>1. holder[r] = t /\ holder'[r] = u /\ ordered[t] \subseteq ordered'[u]
          BY <1>10, <1>t DEF HandOver, TypeOK
        <5>. QED
          BY <5>1, <4>1, <4>2
      <4>3. CASE q # r
        <5>1. holder'[q] = holder[q] /\ holder[q] \in Threads
          BY <1>10, <1>t, <4>3 DEF HandOver, TypeOK, Outstanding
        <5>. QED
          BY <5>1, <4>1, <2>4
      <4>. QED
        BY <4>2, <4>3
    <3>. QED
      BY <1>10, <2>1, <2>4, <3>1 DEF HandOver, IInv, AccessesCovered, header
  <2>. QED
    BY <1>10, <2>1, <2>2, <2>3, <2>5
       DEF HandOver, IInv, RefCountExact, NoUseAfterFree, ClosingAlone, Closing,
           FramesAgree, TeardownAfterEveryAccess, header, local
<1>11. CASE UNCHANGED vars
  BY <1>11 DEF IInv, vars, TypeOK, RefCountExact, NoUseAfterFree, ClosingAlone,
     Closing, FramesAgree, AccessesCovered, TeardownAfterEveryAccess, Outstanding
<1>. QED
  BY <1>1, <1>2, <1>3, <1>4, <1>5, <1>6, <1>7, <1>8, <1>9, <1>10, <1>11 DEF Next
-----------------------------------------------------------------------------
LEMMA SpecIInv == Spec => []IInv
BY InitIInv, NextIInv, PTL DEF Spec

(* The counter never goes below zero, whatever the clients interleave.     *)
THEOREM TypeCorrect == Spec => []TypeOK
<1>1. IInv => TypeOK
  BY DEF IInv
<1>. QED
  BY <1>1, SpecIInv, PTL

(* The counter of a heap object is the number of references owned.         *)
THEOREM CountIsExact == Spec => []RefCountExact
<1>1. IInv => RefCountExact
  BY DEF IInv
<1>. QED
  BY <1>1, SpecIInv, PTL

(* Who owns a reference never meets an object torn down or freed, and      *)
(* EFRelease never takes its fatal path.                                   *)
THEOREM ReferencesKeepAlive == Spec => []NoUseAfterFree
<1>1. IInv => NoUseAfterFree
  BY DEF IInv
<1>. QED
  BY <1>1, SpecIInv, PTL

(* The deinit handler is never run by two releases, nor on a literal.      *)
THEOREM DeinitRunsAlone == Spec => []SingleDeinit
<1>1. IInv => SingleDeinit
  BY DEF IInv, SingleDeinit, ClosingAlone, Closing, FramesAgree
<1>. QED
  BY <1>1, SpecIInv, PTL

(* The teardown is ordered after the last access of every thread.          *)
THEOREM TeardownIsOrdered == Spec => []TeardownAfterEveryAccess
<1>1. IInv => TeardownAfterEveryAccess
  BY DEF IInv
<1>. QED
  BY <1>1, SpecIInv, PTL
-----------------------------------------------------------------------------
(* What a step of the counter is to the owners of the references.          *)
LEMMA StepImplements == IInv /\ [Next]_vars => [Ownership!Next]_(Ownership!vars)
<1> SUFFICES ASSUME IInv, [Next]_vars
             PROVE  [Ownership!Next]_(Ownership!vars)
  OBVIOUS
<1>t. TypeOK
  BY DEF IInv
<1>1. ASSUME NEW t \in Threads, NEW r \in References, Alloc(t, r)
      PROVE  Ownership!Obtain(t, r)
  <2>1. holder[r] = NoOne
    BY <1>1 DEF Alloc, IInv, NoUseAfterFree, Outstanding
  <2>. QED
    BY <1>1, <2>1 DEF Alloc, Ownership!Obtain
<1>2. ASSUME NEW t \in Threads, NEW r \in References, Literal(t, r)
      PROVE  Ownership!Obtain(t, r)
  BY <1>2 DEF Literal, Ownership!Obtain, header, IInv
<1>3. ASSUME NEW t \in Threads, NEW r \in References, Retain(t, r)
      PROVE  Ownership!Share(t, r)
  BY <1>3 DEF Retain, Holds, Ownership!Share
<1>4. ASSUME NEW t \in Threads, NEW r \in References, ReleaseStatic(t, r)
      PROVE  Ownership!Drop(t, r)
  BY <1>4 DEF ReleaseStatic, header, Ownership!Drop
<1>5. ASSUME NEW t \in Threads, NEW r \in References, ReleaseDecrement(t, r)
      PROVE  Ownership!Drop(t, r)
  BY <1>5 DEF ReleaseDecrement, Ownership!Drop
<1>6. ASSUME NEW t \in Threads, NEW u \in Threads, NEW r \in References,
             HandOver(t, u, r)
      PROVE  Ownership!Give(t, u, r)
  BY <1>6 DEF HandOver, header, Ownership!Give
<1>7. ASSUME NEW t \in Threads, Dealloc(t)
      PROVE  Ownership!Destroy
  <2>1. ~is_stack_obj /\ phase = "deinit" /\ Outstanding = {}
    BY <1>7 DEF Dealloc, IInv, ClosingAlone, FramesAgree, Closing
  <2>. QED
    BY <1>7, <2>1 DEF Dealloc, Ownership!Destroy, Ownership!Outstanding,
       Outstanding
<1>8. ASSUME NEW t \in Threads, Use(t) \/ ReleaseOthersRemain(t)
      PROVE  UNCHANGED Ownership!vars
  BY <1>8 DEF Use, ReleaseOthersRemain, header, Ownership!vars
<1>9. ASSUME NEW t \in Threads, ReleaseLast(t)
      PROVE  UNCHANGED Ownership!vars
  <2>1. phase = "live"
    BY <1>9 DEF ReleaseLast, WasLast, IInv, FramesAgree
  <2>. QED
    BY <1>9, <2>1 DEF ReleaseLast, Ownership!vars
<1>10. CASE UNCHANGED vars
  BY <1>10 DEF vars, Ownership!vars
<1>. QED
  BY <1>1, <1>2, <1>3, <1>4, <1>5, <1>6, <1>7, <1>8, <1>9, <1>10
     DEF Next, Ownership!Next

(* Every behaviour of the counter is one of references owned, shared,      *)
(* given, dropped and of an object destroyed once, after the last of them. *)
THEOREM CounterImplementsOwnership == Spec => Ownership!Spec
<1>1. Init => Ownership!Init
  BY DEF Init, Ownership!Init
<1>. QED
  BY <1>1, StepImplements, SpecIInv, PTL DEF Spec, Ownership!Spec
=============================================================================
