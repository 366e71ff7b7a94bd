------------------------ MODULE EFClassRegistryProofs ------------------------
(***************************************************************************)
(* Proofs about EFClassRegistry for any set of threads and classes and any *)
(* size of the table.                                                      *)
(***************************************************************************)
EXTENDS EFClassRegistry, TLAPS

(* t runs EFClassRegister; between Claim and Publish it owns a number.     *)
Registering(t) == pc[t] \in {"claim", "assign", "publish", "leave"}
Owns(t)        == pc[t] \in {"assign", "publish"}

(* c is registered, under number i.                                        *)
Registered(c, i) == once[c] = "done" /\ typeID[c] = i

(* A registration has one thread, and each owner its own number, unused.   *)
OneRegistrar ==
  /\ \A t \in Threads : Registering(t) =>
       cls[t] \in Classes /\ once[cls[t]] = "running"
  /\ \A t, u \in Threads :
       Registering(t) /\ Registering(u) /\ cls[t] = cls[u] => t = u

NumbersOwned ==
  /\ \A t \in Threads : Owns(t) =>
       id[t] \in Slots /\ id[t] < ev_class_next /\ ev_class_table[id[t]] = NoClass
  /\ \A t, u \in Threads : Owns(t) /\ Owns(u) /\ id[t] = id[u] => t = u
  /\ \A i \in Slots : i >= ev_class_next => ev_class_table[i] = NoClass

(* Which field a thread in a registration has filled already.              *)
FieldsFilled ==
  \A t \in Threads :
    /\ pc[t] = "publish" => typeID[cls[t]] = id[t]
    /\ pc[t] = "leave" =>
         /\ typeID[cls[t]] = id[t]
         /\ id[t] # kEFNotATypeID => ev_class_table[id[t]] = cls[t]
         /\ id[t] = kEFNotATypeID => ev_class_next >= EF_MAX_CLASSES
    /\ pc[t] \in {"claim", "assign"} => typeID[cls[t]] = kEFNotATypeID
    /\ pc[t] \in {"once", "answer"} => cls[t] \in BuiltIn
    /\ pc[t] = "answer" => once[cls[t]] = "done"
    /\ pc[t] = "construct" =>
         /\ cls[t] \in Classes
         /\ once[cls[t]] = "done"
         /\ typeID[cls[t]] # kEFNotATypeID

(* A class whose registration is over is in its slot, or found none.       *)
RegisteredInSlot ==
  \A c \in Classes :
    /\ once[c] = "new" => typeID[c] = kEFNotATypeID
    /\ once[c] = "done" =>
         /\ typeID[c] # kEFNotATypeID => ev_class_table[typeID[c]] = c
         /\ typeID[c] = kEFNotATypeID => ev_class_next >= EF_MAX_CLASSES

(* A class is in no slot but its own.                                      *)
SlotsNumbered ==
  \A i \in Slots : ev_class_table[i] # NoClass => typeID[ev_class_table[i]] = i

ResultsRegistered ==
  /\ \A a \in answers : Registered(a[1], a[2])
  /\ \A o \in objects : Registered(o[1], o[2]) /\ o[2] # kEFNotATypeID

NoNumberLost ==
  \A i \in Slots : i < ev_class_next =>
    \/ ev_class_table[i] # NoClass
    \/ \E t \in Threads : Owns(t) /\ id[t] = i

IInv ==
  /\ TypeOK
  /\ OneRegistrar
  /\ NumbersOwned
  /\ FieldsFilled
  /\ RegisteredInSlot
  /\ ResultsRegistered
  /\ NoNumberLost
  /\ SlotsNumbered
-----------------------------------------------------------------------------
LEMMA InitIInv == Init => IInv
<1> SUFFICES ASSUME Init PROVE IInv
  OBVIOUS
<1> USE ClassesAssumption DEF Init, Slots, kEFNotATypeID
<1>1. TypeOK
  <2>1. ev_class_next \in Nat \ {0}
    OBVIOUS
  <2>2. once \in [Classes -> {"new", "running", "done"}]
    OBVIOUS
  <2>. QED
    BY <2>1, <2>2 DEF TypeOK
<1>2. OneRegistrar /\ NumbersOwned /\ FieldsFilled
  BY DEF OneRegistrar, NumbersOwned, FieldsFilled, Registering, Owns
<1>3. RegisteredInSlot /\ ResultsRegistered /\ NoNumberLost /\ SlotsNumbered
  BY DEF RegisteredInSlot, ResultsRegistered, NoNumberLost, SlotsNumbered
<1>. QED
  BY <1>1, <1>2, <1>3 DEF IInv

(* Every step preserves the invariant: one step of the proof per action,   *)
(* and under it one per conjunct.                                          *)
LEMMA NextIInv == IInv /\ [Next]_vars => IInv'
<1> SUFFICES ASSUME IInv, [Next]_vars PROVE IInv'
  OBVIOUS
<1> USE ClassesAssumption DEF Slots, kEFNotATypeID, Goto
<1>1. ASSUME NEW t \in Threads, NEW c \in Classes, GetTypeID(t, c)
      PROVE  IInv'
  <2>1. TypeOK'
    BY <1>1 DEF GetTypeID, registry, IInv, TypeOK, FieldsFilled, OneRegistrar, TypeOK
  <2>2. OneRegistrar'
    BY <1>1 DEF GetTypeID, registry, IInv, TypeOK, FieldsFilled, OneRegistrar, OneRegistrar, Registering
  <2>3. NumbersOwned'
    BY <1>1 DEF GetTypeID, registry, IInv, TypeOK, FieldsFilled, OneRegistrar, NumbersOwned, Owns
  <2>4. FieldsFilled'
    BY <1>1 DEF GetTypeID, registry, IInv, TypeOK, FieldsFilled, OneRegistrar, FieldsFilled
  <2>5. RegisteredInSlot'
    BY <1>1 DEF GetTypeID, registry, IInv, TypeOK, FieldsFilled, OneRegistrar, RegisteredInSlot
  <2>6. ResultsRegistered'
    BY <1>1 DEF GetTypeID, registry, IInv, TypeOK, FieldsFilled, OneRegistrar, ResultsRegistered, Registered
  <2>7. NoNumberLost'
    BY <1>1 DEF GetTypeID, registry, IInv, TypeOK, FieldsFilled, OneRegistrar, NoNumberLost, Owns
  <2>8. SlotsNumbered'
    BY <1>1 DEF GetTypeID, registry, IInv, TypeOK, FieldsFilled, OneRegistrar, SlotsNumbered
  <2>. QED
    BY <2>1, <2>2, <2>3, <2>4, <2>5, <2>6, <2>7, <2>8 DEF IInv
<1>2. ASSUME NEW t \in Threads, NEW c \in Classes, Register(t, c)
      PROVE  IInv'
  <2>1. TypeOK'
    BY <1>2 DEF Register, registry, IInv, TypeOK, FieldsFilled, OneRegistrar, TypeOK
  <2>2. OneRegistrar'
    BY <1>2 DEF Register, registry, IInv, TypeOK, FieldsFilled, OneRegistrar, OneRegistrar, Registering
  <2>3. NumbersOwned'
    BY <1>2 DEF Register, registry, IInv, TypeOK, FieldsFilled, OneRegistrar, NumbersOwned, Owns
  <2>4. FieldsFilled'
    <3>1. ASSUME NEW u \in Threads, u # t
          PROVE  pc'[u] = pc[u] /\ cls'[u] = cls[u] /\ id'[u] = id[u]
      BY <1>2, <3>1 DEF Register, IInv, TypeOK
    <3>2. pc'[t] = "claim" /\ cls'[t] = c /\ typeID[c] = 0 /\ once[c] = "new"
      BY <1>2 DEF Register, IInv, TypeOK, RegisteredInSlot
    <3>3. \A d \in Classes : once[d] = "done" => once'[d] = "done"
      BY <1>2 DEF Register, IInv, TypeOK
    <3>4. \A u \in Threads : pc[u] = "answer" => cls[u] \in Classes
      BY DEF IInv, FieldsFilled, Classes
    <3>. QED
      BY <1>2, <3>1, <3>2, <3>3, <3>4 DEF Register, IInv, FieldsFilled
  <2>5. RegisteredInSlot'
    BY <1>2 DEF Register, registry, IInv, TypeOK, FieldsFilled, OneRegistrar, RegisteredInSlot
  <2>6. ResultsRegistered'
    BY <1>2 DEF Register, registry, IInv, TypeOK, FieldsFilled, OneRegistrar, ResultsRegistered, Registered
  <2>7. NoNumberLost'
    BY <1>2 DEF Register, registry, IInv, TypeOK, FieldsFilled, OneRegistrar, NoNumberLost, Owns
  <2>8. SlotsNumbered'
    BY <1>2 DEF Register, registry, IInv, TypeOK, FieldsFilled, OneRegistrar, SlotsNumbered
  <2>. QED
    BY <2>1, <2>2, <2>3, <2>4, <2>5, <2>6, <2>7, <2>8 DEF IInv
<1>3. ASSUME NEW t \in Threads, EnterOnce(t)
      PROVE  IInv'
  <2>1. TypeOK'
    BY <1>3 DEF EnterOnce, registry, IInv, TypeOK, FieldsFilled, OneRegistrar, TypeOK
  <2>2. OneRegistrar'
    <3>1. ASSUME NEW u \in Threads, u # t
          PROVE  pc'[u] = pc[u] /\ cls'[u] = cls[u]
      BY <1>3, <3>1 DEF EnterOnce, IInv, TypeOK
    <3>2. pc'[t] = "claim" /\ cls'[t] = cls[t] /\ cls[t] \in Classes
      BY <1>3 DEF EnterOnce, IInv, TypeOK, FieldsFilled, Classes
    <3>3. once[cls[t]] = "new" /\ once'[cls[t]] = "running"
      BY <1>3, <3>2 DEF EnterOnce, IInv, TypeOK
    <3>4. \A d \in Classes : once[d] = "running" => once'[d] = "running"
      BY <1>3 DEF EnterOnce, IInv, TypeOK
    <3>5. \A u \in Threads : Registering(u) => cls[u] \in Classes /\ cls[u] # cls[t]
      BY <3>3 DEF IInv, OneRegistrar
    <3>6. \A u \in Threads : u # t /\ Registering(u)' => Registering(u)
      BY <3>1 DEF Registering
    <3>. QED
      BY <3>1, <3>2, <3>3, <3>4, <3>5, <3>6 DEF IInv, OneRegistrar
  <2>3. NumbersOwned'
    BY <1>3 DEF EnterOnce, registry, IInv, TypeOK, FieldsFilled, OneRegistrar, NumbersOwned, Owns
  <2>4. FieldsFilled'
    <3>1. ASSUME NEW u \in Threads, u # t
          PROVE  pc'[u] = pc[u] /\ cls'[u] = cls[u] /\ id'[u] = id[u]
      BY <1>3, <3>1 DEF EnterOnce, IInv, TypeOK
    <3>2. pc'[t] = "claim" /\ cls'[t] = cls[t] /\ cls[t] \in Classes
      BY <1>3 DEF EnterOnce, IInv, TypeOK, FieldsFilled, Classes
    <3>3. typeID[cls[t]] = 0 /\ once[cls[t]] = "new"
      BY <1>3, <3>2 DEF EnterOnce, IInv, RegisteredInSlot
    <3>4. \A d \in Classes : once[d] = "done" => once'[d] = "done"
      BY <1>3 DEF EnterOnce, IInv, TypeOK
    <3>5. \A u \in Threads : pc[u] = "answer" => cls[u] \in Classes
      BY DEF IInv, FieldsFilled, Classes
    <3>. QED
      BY <1>3, <3>1, <3>2, <3>3, <3>4, <3>5 DEF EnterOnce, IInv, FieldsFilled
  <2>5. RegisteredInSlot'
    BY <1>3 DEF EnterOnce, registry, IInv, TypeOK, FieldsFilled, OneRegistrar, RegisteredInSlot
  <2>6. ResultsRegistered'
    BY <1>3 DEF EnterOnce, registry, IInv, TypeOK, FieldsFilled, OneRegistrar, ResultsRegistered, Registered
  <2>7. NoNumberLost'
    BY <1>3 DEF EnterOnce, registry, IInv, TypeOK, FieldsFilled, OneRegistrar, NoNumberLost, Owns
  <2>8. SlotsNumbered'
    BY <1>3 DEF EnterOnce, registry, IInv, TypeOK, FieldsFilled, OneRegistrar, SlotsNumbered
  <2>. QED
    BY <2>1, <2>2, <2>3, <2>4, <2>5, <2>6, <2>7, <2>8 DEF IInv
<1>4. ASSUME NEW t \in Threads, SkipOnce(t)
      PROVE  IInv'
  <2>1. TypeOK'
    BY <1>4 DEF SkipOnce, registry, IInv, TypeOK, FieldsFilled, OneRegistrar, TypeOK
  <2>2. OneRegistrar'
    BY <1>4 DEF SkipOnce, registry, IInv, TypeOK, FieldsFilled, OneRegistrar, OneRegistrar, Registering
  <2>3. NumbersOwned'
    BY <1>4 DEF SkipOnce, registry, IInv, TypeOK, FieldsFilled, OneRegistrar, NumbersOwned, Owns
  <2>4. FieldsFilled'
    BY <1>4 DEF SkipOnce, registry, IInv, TypeOK, FieldsFilled, OneRegistrar, FieldsFilled
  <2>5. RegisteredInSlot'
    BY <1>4 DEF SkipOnce, registry, IInv, TypeOK, FieldsFilled, OneRegistrar, RegisteredInSlot
  <2>6. ResultsRegistered'
    BY <1>4 DEF SkipOnce, registry, IInv, TypeOK, FieldsFilled, OneRegistrar, ResultsRegistered, Registered
  <2>7. NoNumberLost'
    BY <1>4 DEF SkipOnce, registry, IInv, TypeOK, FieldsFilled, OneRegistrar, NoNumberLost, Owns
  <2>8. SlotsNumbered'
    BY <1>4 DEF SkipOnce, registry, IInv, TypeOK, FieldsFilled, OneRegistrar, SlotsNumbered
  <2>. QED
    BY <2>1, <2>2, <2>3, <2>4, <2>5, <2>6, <2>7, <2>8 DEF IInv
<1>5. ASSUME NEW t \in Threads, Claim(t)
      PROVE  IInv'
  <2>1. TypeOK'
    BY <1>5 DEF Claim, registry, IInv, TypeOK, FieldsFilled, OneRegistrar, TypeOK
  <2>2. OneRegistrar'
    BY <1>5 DEF Claim, registry, IInv, TypeOK, FieldsFilled, OneRegistrar, OneRegistrar, Registering
  <2>3. NumbersOwned'
    BY <1>5 DEF Claim, registry, IInv, TypeOK, FieldsFilled, OneRegistrar, NumbersOwned, Owns
  <2>4. FieldsFilled'
    BY <1>5 DEF Claim, registry, IInv, TypeOK, FieldsFilled, OneRegistrar, FieldsFilled
  <2>5. RegisteredInSlot'
    BY <1>5 DEF Claim, registry, IInv, TypeOK, FieldsFilled, OneRegistrar, RegisteredInSlot
  <2>6. ResultsRegistered'
    BY <1>5 DEF Claim, registry, IInv, TypeOK, FieldsFilled, OneRegistrar, ResultsRegistered, Registered
  <2>7. NoNumberLost'
    BY <1>5 DEF Claim, registry, IInv, TypeOK, FieldsFilled, OneRegistrar, NoNumberLost, Owns
  <2>8. SlotsNumbered'
    BY <1>5 DEF Claim, registry, IInv, TypeOK, FieldsFilled, OneRegistrar, SlotsNumbered
  <2>. QED
    BY <2>1, <2>2, <2>3, <2>4, <2>5, <2>6, <2>7, <2>8 DEF IInv
<1>6. ASSUME NEW t \in Threads, Assign(t)
      PROVE  IInv'
  <2>1. TypeOK'
    BY <1>6 DEF Assign, registry, IInv, TypeOK, FieldsFilled, OneRegistrar, TypeOK
  <2>2. OneRegistrar'
    BY <1>6 DEF Assign, registry, IInv, TypeOK, FieldsFilled, OneRegistrar, OneRegistrar, Registering
  <2>3. NumbersOwned'
    BY <1>6 DEF Assign, registry, IInv, TypeOK, FieldsFilled, OneRegistrar, NumbersOwned, Owns
  <2>4. FieldsFilled'
    <3>1. ASSUME NEW u \in Threads, u # t
          PROVE  /\ pc'[u] = pc[u]
                 /\ Registering(u) => typeID'[cls[u]] = typeID[cls[u]]
                 /\ once[cls[u]] = "done" => typeID'[cls[u]] = typeID[cls[u]]
      <4>1. Registering(t) /\ cls[t] \in Classes /\ once[cls[t]] = "running"
        BY <1>6 DEF Assign, IInv, OneRegistrar, Registering
      <4>2. Registering(u) => cls[u] # cls[t]
        BY <3>1, <4>1 DEF IInv, OneRegistrar
      <4>. QED
        BY <1>6, <3>1, <4>1, <4>2 DEF Assign, IInv, TypeOK
    <3>2. pc'[t] = "publish" /\ typeID'[cls[t]] = id[t]
      BY <1>6 DEF Assign, IInv, TypeOK, OneRegistrar, Registering
    <3>. QED
      BY <1>6, <3>1, <3>2 DEF Assign, IInv, FieldsFilled, Registering
  <2>5. RegisteredInSlot'
    <3>1. cls[t] \in Classes /\ once[cls[t]] = "running"
      BY <1>6 DEF Assign, IInv, OneRegistrar, Registering
    <3>2. \A d \in Classes : once[d] # "running" => typeID'[d] = typeID[d]
      BY <1>6, <3>1 DEF Assign, IInv, TypeOK
    <3>. QED
      BY <1>6, <3>2 DEF Assign, IInv, RegisteredInSlot
  <2>6. ResultsRegistered'
    <3>1. cls[t] \in Classes /\ once[cls[t]] = "running"
      BY <1>6 DEF Assign, IInv, OneRegistrar, Registering
    <3>2. \A d \in Classes : once[d] # "running" => typeID'[d] = typeID[d]
      BY <1>6, <3>1 DEF Assign, IInv, TypeOK
    <3>3. /\ \A a \in answers : a[1] \in Classes
          /\ \A o \in objects : o[1] \in Classes
      BY DEF IInv, TypeOK
    <3>. QED
      BY <1>6, <3>2, <3>3 DEF Assign, IInv, ResultsRegistered, Registered
  <2>7. NoNumberLost'
    BY <1>6 DEF Assign, registry, IInv, TypeOK, FieldsFilled, OneRegistrar, NoNumberLost, Owns
  <2>8. SlotsNumbered'
    BY <1>6 DEF Assign, registry, IInv, TypeOK, FieldsFilled, OneRegistrar, SlotsNumbered
  <2>. QED
    BY <2>1, <2>2, <2>3, <2>4, <2>5, <2>6, <2>7, <2>8 DEF IInv
<1>7. ASSUME NEW t \in Threads, Publish(t)
      PROVE  IInv'
  <2>1. TypeOK'
    BY <1>7 DEF Publish, registry, IInv, TypeOK, FieldsFilled, OneRegistrar, TypeOK
  <2>2. OneRegistrar'
    BY <1>7 DEF Publish, registry, IInv, TypeOK, FieldsFilled, OneRegistrar, OneRegistrar, Registering
  <2>3. NumbersOwned'
    BY <1>7 DEF Publish, registry, IInv, TypeOK, FieldsFilled, OneRegistrar, NumbersOwned, Owns
  <2>4. FieldsFilled'
    <3>1. id[t] \in Slots /\ ev_class_table[id[t]] = NoClass
      BY <1>7 DEF Publish, IInv, NumbersOwned, Owns
    <3>2. \A i \in Slots : ev_class_table[i] # NoClass =>
            ev_class_table'[i] = ev_class_table[i]
      BY <1>7, <3>1 DEF Publish, IInv, TypeOK
    <3>3. /\ pc'[t] = "leave"
          /\ ev_class_table'[id[t]] = cls[t]
          /\ typeID[cls[t]] = id[t]
          /\ id[t] # 0
      BY <1>7, <3>1 DEF Publish, IInv, TypeOK, FieldsFilled
    <3>4. ASSUME NEW u \in Threads, u # t
          PROVE  /\ pc'[u] = pc[u]
                 /\ pc[u] = "leave" /\ id[u] # 0 =>
                      ev_class_table'[id[u]] = cls[u]
      <4>1. pc'[u] = pc[u]
        BY <1>7, <3>4 DEF Publish, IInv, TypeOK
      <4>2. CASE pc[u] = "leave" /\ id[u] # 0
        <5>1. id[u] \in Slots /\ ev_class_table[id[u]] = cls[u] /\ cls[u] \in Classes
          BY <4>2 DEF IInv, TypeOK, FieldsFilled, OneRegistrar, Registering
        <5>. QED
          BY <4>1, <5>1, <3>2
      <4>. QED
        BY <4>1, <4>2
    <3>. QED
      BY <1>7, <3>3, <3>4 DEF Publish, IInv, FieldsFilled
  <2>5. RegisteredInSlot'
    <3>1. id[t] \in Slots /\ ev_class_table[id[t]] = NoClass
      BY <1>7 DEF Publish, IInv, NumbersOwned, Owns
    <3>2. \A i \in Slots : ev_class_table[i] # NoClass =>
            ev_class_table'[i] = ev_class_table[i]
      BY <1>7, <3>1 DEF Publish, IInv, TypeOK
    <3>3. \A d \in Classes : typeID[d] # 0 => typeID[d] \in Slots
      BY DEF IInv, TypeOK
    <3>. QED
      BY <1>7, <3>2, <3>3 DEF Publish, IInv, RegisteredInSlot
  <2>6. ResultsRegistered'
    BY <1>7 DEF Publish, registry, IInv, TypeOK, FieldsFilled, OneRegistrar, ResultsRegistered, Registered
  <2>7. NoNumberLost'
    <3>1. id[t] \in Slots /\ cls[t] \in Classes /\ ev_class_table'[id[t]] = cls[t]
      BY <1>7 DEF Publish, IInv, TypeOK, NumbersOwned, Owns, OneRegistrar, Registering
    <3>2. \A i \in Slots : i # id[t] => ev_class_table'[i] = ev_class_table[i]
      BY <1>7 DEF Publish, IInv, TypeOK
    <3>3. \A u \in Threads : u # t /\ Owns(u) => Owns(u)'
      BY <1>7 DEF Publish, IInv, TypeOK, Owns
    <3>4. ev_class_next' = ev_class_next /\ id' = id
      BY <1>7 DEF Publish
    <3>. QED
      BY <3>1, <3>2, <3>3, <3>4 DEF IInv, NoNumberLost
  <2>8. SlotsNumbered'
    BY <1>7 DEF Publish, registry, IInv, TypeOK, FieldsFilled, OneRegistrar, SlotsNumbered
  <2>. QED
    BY <2>1, <2>2, <2>3, <2>4, <2>5, <2>6, <2>7, <2>8 DEF IInv
<1>8. ASSUME NEW t \in Threads, ReturnToClient(t)
      PROVE  IInv'
  <2>1. TypeOK'
    <3>1. <<cls[t], id[t]>> \in Classes \X (Slots \cup {kEFNotATypeID})
      BY <1>8 DEF ReturnToClient, IInv, TypeOK, FieldsFilled, OneRegistrar, Registering, Classes
    <3>. QED
      BY <1>8, <3>1 DEF ReturnToClient, Return, registry, IInv, TypeOK
  <2>2. OneRegistrar'
    BY <1>8 DEF ReturnToClient, Return, registry, IInv, TypeOK, FieldsFilled, OneRegistrar, OneRegistrar, Registering
  <2>3. NumbersOwned'
    BY <1>8 DEF ReturnToClient, Return, registry, IInv, TypeOK, FieldsFilled, OneRegistrar, NumbersOwned, Owns
  <2>4. FieldsFilled'
    BY <1>8 DEF ReturnToClient, Return, registry, IInv, TypeOK, FieldsFilled, OneRegistrar, FieldsFilled
  <2>5. RegisteredInSlot'
    BY <1>8 DEF ReturnToClient, Return, registry, IInv, TypeOK, FieldsFilled, OneRegistrar, RegisteredInSlot
  <2>6. ResultsRegistered'
    <3>1. /\ cls[t] \in Classes
          /\ once[cls[t]] = "running"
          /\ typeID[cls[t]] = id[t]
      BY <1>8 DEF ReturnToClient, IInv, FieldsFilled, OneRegistrar, Registering
    <3>2. \A d \in Classes : once[d] = "done" => once'[d] = "done"
      BY <1>8 DEF ReturnToClient, IInv, TypeOK
    <3>3. once'[cls[t]] = "done" /\ typeID' = typeID
      BY <1>8, <3>1 DEF ReturnToClient, IInv, TypeOK
    <3>4. /\ \A a \in answers : a[1] \in Classes
          /\ \A o \in objects : o[1] \in Classes
      BY DEF IInv, TypeOK
    <3>5. ASSUME NEW a \in answers' PROVE Registered(a[1], a[2])'
      <4>1. CASE a = <<cls[t], id[t]>>
        BY <4>1, <3>1, <3>3 DEF Registered
      <4>2. CASE a \in answers
        BY <4>2, <3>2, <3>3, <3>4 DEF IInv, ResultsRegistered, Registered
      <4>. QED
        BY <1>8, <4>1, <4>2 DEF ReturnToClient
    <3>. QED
      BY <1>8, <3>2, <3>3, <3>4, <3>5 DEF ReturnToClient, IInv, ResultsRegistered,
         Registered
  <2>7. NoNumberLost'
    BY <1>8 DEF ReturnToClient, Return, registry, IInv, TypeOK, FieldsFilled, OneRegistrar, NoNumberLost, Owns
  <2>8. SlotsNumbered'
    BY <1>8 DEF ReturnToClient, Return, registry, IInv, TypeOK, FieldsFilled, OneRegistrar, SlotsNumbered
  <2>. QED
    BY <2>1, <2>2, <2>3, <2>4, <2>5, <2>6, <2>7, <2>8 DEF IInv
<1>9. ASSUME NEW t \in Threads, ReturnToOnce(t)
      PROVE  IInv'
  <2>1. TypeOK'
    BY <1>9 DEF ReturnToOnce, registry, IInv, TypeOK, FieldsFilled, OneRegistrar, TypeOK
  <2>2. OneRegistrar'
    BY <1>9 DEF ReturnToOnce, registry, IInv, TypeOK, FieldsFilled, OneRegistrar, OneRegistrar, Registering
  <2>3. NumbersOwned'
    BY <1>9 DEF ReturnToOnce, registry, IInv, TypeOK, FieldsFilled, OneRegistrar, NumbersOwned, Owns
  <2>4. FieldsFilled'
    <3>1. ASSUME NEW u \in Threads, u # t
          PROVE  pc'[u] = pc[u]
      BY <1>9, <3>1 DEF ReturnToOnce, IInv, TypeOK
    <3>2. pc'[t] = "answer" /\ cls[t] \in BuiltIn /\ once'[cls[t]] = "done"
      BY <1>9 DEF ReturnToOnce, IInv, TypeOK, Classes
    <3>3. \A d \in Classes : once[d] = "done" => once'[d] = "done"
      BY <1>9 DEF ReturnToOnce, IInv, TypeOK
    <3>4. \A u \in Threads : pc[u] = "answer" => cls[u] \in Classes
      BY DEF IInv, FieldsFilled, Classes
    <3>. QED
      BY <1>9, <3>1, <3>2, <3>3, <3>4 DEF ReturnToOnce, IInv, FieldsFilled
  <2>5. RegisteredInSlot'
    BY <1>9 DEF ReturnToOnce, registry, IInv, TypeOK, FieldsFilled, OneRegistrar, RegisteredInSlot
  <2>6. ResultsRegistered'
    BY <1>9 DEF ReturnToOnce, registry, IInv, TypeOK, FieldsFilled, OneRegistrar, ResultsRegistered, Registered
  <2>7. NoNumberLost'
    BY <1>9 DEF ReturnToOnce, registry, IInv, TypeOK, FieldsFilled, OneRegistrar, NoNumberLost, Owns
  <2>8. SlotsNumbered'
    BY <1>9 DEF ReturnToOnce, registry, IInv, TypeOK, FieldsFilled, OneRegistrar, SlotsNumbered
  <2>. QED
    BY <2>1, <2>2, <2>3, <2>4, <2>5, <2>6, <2>7, <2>8 DEF IInv
<1>10. ASSUME NEW t \in Threads, Answer(t)
      PROVE  IInv'
  <2>1. TypeOK'
    <3>1. <<cls[t], typeID[cls[t]]>> \in Classes \X (Slots \cup {kEFNotATypeID})
      BY <1>10 DEF Answer, IInv, TypeOK, FieldsFilled, OneRegistrar, Registering, Classes
    <3>. QED
      BY <1>10, <3>1 DEF Answer, Return, registry, IInv, TypeOK
  <2>2. OneRegistrar'
    BY <1>10 DEF Answer, Return, registry, IInv, TypeOK, FieldsFilled, OneRegistrar, OneRegistrar, Registering
  <2>3. NumbersOwned'
    BY <1>10 DEF Answer, Return, registry, IInv, TypeOK, FieldsFilled, OneRegistrar, NumbersOwned, Owns
  <2>4. FieldsFilled'
    BY <1>10 DEF Answer, Return, registry, IInv, TypeOK, FieldsFilled, OneRegistrar, FieldsFilled
  <2>5. RegisteredInSlot'
    BY <1>10 DEF Answer, Return, registry, IInv, TypeOK, FieldsFilled, OneRegistrar, RegisteredInSlot
  <2>6. ResultsRegistered'
    BY <1>10 DEF Answer, Return, registry, IInv, TypeOK, FieldsFilled, OneRegistrar, ResultsRegistered, Registered
  <2>7. NoNumberLost'
    BY <1>10 DEF Answer, Return, registry, IInv, TypeOK, FieldsFilled, OneRegistrar, NoNumberLost, Owns
  <2>8. SlotsNumbered'
    BY <1>10 DEF Answer, Return, registry, IInv, TypeOK, FieldsFilled, OneRegistrar, SlotsNumbered
  <2>. QED
    BY <2>1, <2>2, <2>3, <2>4, <2>5, <2>6, <2>7, <2>8 DEF IInv
<1>11. ASSUME NEW t \in Threads, NEW a \in answers, Lookup(t, a)
      PROVE  IInv'
  <2>1. TypeOK'
    <3>1. EFClassGetByID(a[2]) \in Classes \cup {NoClass}
      BY DEF EFClassGetByID, IInv, TypeOK
    <3>. QED
      BY <1>11, <3>1 DEF Lookup, registry, IInv, TypeOK
  <2>2. OneRegistrar'
    BY <1>11 DEF Lookup, registry, IInv, TypeOK, FieldsFilled, OneRegistrar, OneRegistrar, Registering
  <2>3. NumbersOwned'
    BY <1>11 DEF Lookup, registry, IInv, TypeOK, FieldsFilled, OneRegistrar, NumbersOwned, Owns
  <2>4. FieldsFilled'
    <3>1. EFClassGetByID(a[2]) # NoClass =>
            /\ EFClassGetByID(a[2]) = a[1]
            /\ a[1] \in Classes
            /\ once[a[1]] = "done"
            /\ typeID[a[1]] # 0
      <4>1. a[1] \in Classes /\ Registered(a[1], a[2])
        BY DEF IInv, TypeOK, ResultsRegistered
      <4>2. a[2] = typeID[a[1]] /\ once[a[1]] = "done"
        BY <4>1 DEF Registered
      <4>3. CASE a[2] \in Slots
        BY <4>1, <4>2, <4>3 DEF EFClassGetByID, IInv, RegisteredInSlot
      <4>4. CASE a[2] \notin Slots
        BY <4>4 DEF EFClassGetByID
      <4>. QED
        BY <4>3, <4>4
    <3>2. ASSUME NEW u \in Threads, u # t
          PROVE  pc'[u] = pc[u] /\ cls'[u] = cls[u]
      BY <1>11, <3>2 DEF Lookup, IInv, TypeOK
    <3>3. /\ pc'[t] \in {"idle", "construct"}
          /\ pc'[t] = "construct" => EFClassGetByID(a[2]) # NoClass
          /\ cls'[t] = EFClassGetByID(a[2])
      BY <1>11 DEF Lookup, IInv, TypeOK
    <3>. QED
      BY <1>11, <3>1, <3>2, <3>3 DEF Lookup, registry, IInv, FieldsFilled
  <2>5. RegisteredInSlot'
    BY <1>11 DEF Lookup, registry, IInv, TypeOK, FieldsFilled, OneRegistrar, RegisteredInSlot
  <2>6. ResultsRegistered'
    BY <1>11 DEF Lookup, registry, IInv, TypeOK, FieldsFilled, OneRegistrar, ResultsRegistered, Registered
  <2>7. NoNumberLost'
    BY <1>11 DEF Lookup, registry, IInv, TypeOK, FieldsFilled, OneRegistrar, NoNumberLost, Owns
  <2>8. SlotsNumbered'
    BY <1>11 DEF Lookup, registry, IInv, SlotsNumbered
  <2>. QED
    BY <2>1, <2>2, <2>3, <2>4, <2>5, <2>6, <2>7, <2>8 DEF IInv
<1>12. ASSUME NEW t \in Threads, Construct(t)
      PROVE  IInv'
  <2>1. TypeOK'
    BY <1>12 DEF Construct, Return, registry, IInv, TypeOK, FieldsFilled, OneRegistrar, TypeOK
  <2>2. OneRegistrar'
    BY <1>12 DEF Construct, Return, registry, IInv, TypeOK, FieldsFilled, OneRegistrar, OneRegistrar, Registering
  <2>3. NumbersOwned'
    BY <1>12 DEF Construct, Return, registry, IInv, TypeOK, FieldsFilled, OneRegistrar, NumbersOwned, Owns
  <2>4. FieldsFilled'
    BY <1>12 DEF Construct, Return, registry, IInv, TypeOK, FieldsFilled, OneRegistrar, FieldsFilled
  <2>5. RegisteredInSlot'
    BY <1>12 DEF Construct, Return, registry, IInv, TypeOK, FieldsFilled, OneRegistrar, RegisteredInSlot
  <2>6. ResultsRegistered'
    BY <1>12 DEF Construct, Return, registry, IInv, TypeOK, FieldsFilled, OneRegistrar, ResultsRegistered, Registered
  <2>7. NoNumberLost'
    BY <1>12 DEF Construct, Return, registry, IInv, TypeOK, FieldsFilled, OneRegistrar, NoNumberLost, Owns
  <2>8. SlotsNumbered'
    BY <1>12 DEF Construct, Return, registry, IInv, TypeOK, FieldsFilled, OneRegistrar, SlotsNumbered
  <2>. QED
    BY <2>1, <2>2, <2>3, <2>4, <2>5, <2>6, <2>7, <2>8 DEF IInv
<1>13. CASE UNCHANGED vars
  BY <1>13 DEF vars, IInv, TypeOK, OneRegistrar, NumbersOwned, FieldsFilled,
     RegisteredInSlot, ResultsRegistered, NoNumberLost, SlotsNumbered,
     Registering, Owns, Registered, EFClassGetByID
<1>. QED
  BY <1>1, <1>2, <1>3, <1>4, <1>5, <1>6, <1>7, <1>8, <1>9, <1>10, <1>11, <1>12, <1>13 DEF Next, Step, Call
-----------------------------------------------------------------------------
LEMMA SpecIInv == Spec => []IInv
BY InitIInv, NextIInv, PTL DEF Spec

(* Numbers stay in the table's range and every field has its type.         *)
THEOREM TypeCorrect == Spec => []TypeOK
<1>1. IInv => TypeOK
  BY DEF IInv
<1>. QED
  BY <1>1, SpecIInv, PTL

(* A number returned by a registration finds the class it was returned     *)
(* for, in every interleaving of the registrations.                        *)
THEOREM NumbersResolve == Spec => []AnswersResolve
<1>1. IInv => AnswersResolve
  <2> SUFFICES ASSUME IInv, NEW a \in answers, a[2] # kEFNotATypeID
               PROVE  EFClassGetByID(a[2]) = a[1]
    BY DEF AnswersResolve
  <2>1. a[1] \in Classes /\ once[a[1]] = "done" /\ a[2] = typeID[a[1]]
    BY DEF IInv, TypeOK, ResultsRegistered, Registered
  <2>2. a[2] \in Slots
    BY <2>1 DEF IInv, TypeOK
  <2>. QED
    BY <2>1, <2>2 DEF EFClassGetByID, IInv, RegisteredInSlot
<1>. QED
  BY <1>1, SpecIInv, PTL

(* All calls give one answer per class.                                    *)
THEOREM NumbersAgree == Spec => []AnswersAgree
<1>1. IInv => AnswersAgree
  BY DEF IInv, ResultsRegistered, Registered, AnswersAgree
<1>. QED
  BY <1>1, SpecIInv, PTL

(* EFRelease finds the class an object was allocated for.                  *)
THEOREM HeadersResolve == Spec => []ObjectsKeepTheirClass
<1>1. IInv => ObjectsKeepTheirClass
  <2> SUFFICES ASSUME IInv, NEW o \in objects
               PROVE  EFClassGetByID(o[2]) = o[1]
    BY DEF ObjectsKeepTheirClass
  <2>1. /\ o[1] \in Classes
        /\ once[o[1]] = "done"
        /\ o[2] = typeID[o[1]]
        /\ o[2] # kEFNotATypeID
    BY DEF IInv, TypeOK, ResultsRegistered, Registered
  <2>2. o[2] \in Slots
    BY <2>1 DEF IInv, TypeOK
  <2>. QED
    BY <2>1, <2>2 DEF EFClassGetByID, IInv, RegisteredInSlot
<1>. QED
  BY <1>1, SpecIInv, PTL

(* A registration fails only when the whole table is taken.                *)
THEOREM FullMeansFull == Spec => []ExhaustionIsReal
<1>1. IInv => ExhaustionIsReal
  <2> SUFFICES ASSUME IInv, NEW a \in answers, a[2] = kEFNotATypeID, NEW i \in Slots
               PROVE  \/ ev_class_table[i] # NoClass
                      \/ \E t \in Threads : Owns(t) /\ id[t] = i
    BY DEF ExhaustionIsReal, Owns
  <2>1. a[1] \in Classes /\ once[a[1]] = "done" /\ typeID[a[1]] = kEFNotATypeID
    BY DEF IInv, TypeOK, ResultsRegistered, Registered
  <2>2. ev_class_next >= EF_MAX_CLASSES
    BY <2>1 DEF IInv, RegisteredInSlot
  <2>3. i < ev_class_next
    BY <2>2, ClassesAssumption DEF Slots, IInv, TypeOK
  <2>. QED
    BY <2>3 DEF IInv, NoNumberLost
<1>. QED
  BY <1>1, SpecIInv, PTL

(* EFObjectAlloc asserts only for a class the full table turned away: it   *)
(* has no number, and all slots are in the hands of other classes.         *)
THEOREM AbortMeansFull == Spec => AbortOnlyWhenFull
<1> DEFINE OthersHave(c) ==
             /\ typeID[c] = kEFNotATypeID
             /\ \A i \in Slots :
                  \/ ev_class_table[i] \in Classes \ {c}
                  \/ \E u \in Threads : /\ pc[u] \in {"assign", "publish"}
                                        /\ id[u] = i /\ cls[u] # c
<1>1. ASSUME IInv, NEW a \in answers, EFClassGetByID(a[2]) = NoClass
      PROVE  a[2] = kEFNotATypeID /\ OthersHave(a[1])
  <2>1. a[1] \in Classes /\ once[a[1]] = "done" /\ a[2] = typeID[a[1]]
    BY <1>1 DEF IInv, TypeOK, ResultsRegistered, Registered
  <2>2. typeID[a[1]] = kEFNotATypeID
    <3>1. SUFFICES ASSUME typeID[a[1]] # kEFNotATypeID PROVE FALSE
      OBVIOUS
    <3>2. a[2] \in Slots /\ ev_class_table[a[2]] = a[1]
      BY <1>1, <2>1, <3>1 DEF IInv, TypeOK, RegisteredInSlot
    <3>. QED
      BY <1>1, <2>1, <3>2, ClassesAssumption DEF EFClassGetByID
  <2>3. ASSUME NEW i \in Slots
        PROVE  \/ ev_class_table[i] \in Classes \ {a[1]}
               \/ \E u \in Threads : /\ pc[u] \in {"assign", "publish"}
                                     /\ id[u] = i /\ cls[u] # a[1]
    <3>1. i # kEFNotATypeID
      BY DEF Slots, kEFNotATypeID
    <3>2. ev_class_next >= EF_MAX_CLASSES /\ i < ev_class_next
      BY <1>1, <2>1, <2>2, ClassesAssumption DEF IInv, TypeOK, RegisteredInSlot, Slots
    <3>3. CASE ev_class_table[i] # NoClass
      <4>1. ev_class_table[i] \in Classes /\ typeID[ev_class_table[i]] = i
        BY <1>1, <3>3 DEF IInv, TypeOK, SlotsNumbered
      <4>. QED
        BY <4>1, <2>2, <3>1
    <3>4. ASSUME NEW u \in Threads, Owns(u), id[u] = i
          PROVE  cls[u] # a[1]
      BY <1>1, <2>1, <3>4 DEF IInv, OneRegistrar, Registering, Owns
    <3>. QED
      BY <1>1, <3>2, <3>3, <3>4 DEF IInv, NoNumberLost, Owns
  <2>. QED
    BY <2>1, <2>2, <2>3
<1>2. ASSUME IInv, NEW t \in Threads, NEW a \in answers, Lookup(t, a), aborted'
      PROVE  a[2] = kEFNotATypeID /\ OthersHave(a[1])
  BY <1>1, <1>2 DEF Lookup
<1>3. IInv /\ [Next]_vars =>
        [\A t \in Threads, a \in answers : Lookup(t, a) /\ aborted' =>
           /\ a[2] = kEFNotATypeID
           /\ typeID[a[1]] = kEFNotATypeID
           /\ \A i \in Slots :
                \/ ev_class_table[i] \in Classes \ {a[1]}
                \/ \E u \in Threads : /\ pc[u] \in {"assign", "publish"}
                                      /\ id[u] = i /\ cls[u] # a[1]]_vars
  BY <1>2
<1>. QED
  BY <1>3, SpecIInv, PTL DEF Spec, AbortOnlyWhenFull

(* No step changes a slot that holds a class.                              *)
THEOREM SlotsKeepTheirClass == Spec => SlotsWrittenOnce
<1>1. IInv /\ [Next]_vars =>
        [\A i \in Slots : ev_class_table[i] # NoClass =>
           ev_class_table'[i] = ev_class_table[i]]_vars
  <2> SUFFICES ASSUME IInv, Next, NEW i \in Slots, ev_class_table[i] # NoClass
               PROVE  ev_class_table'[i] = ev_class_table[i]
    OBVIOUS
  <2>1. ASSUME NEW t \in Threads, Publish(t)
        PROVE  ev_class_table'[i] = ev_class_table[i]
    <3>1. ev_class_table[id[t]] = NoClass
      BY <2>1 DEF Publish, IInv, NumbersOwned, Owns
    <3>. QED
      BY <2>1, <3>1 DEF Publish, IInv, TypeOK
  <2>2. ASSUME ~ \E t \in Threads : Publish(t)
        PROVE  ev_class_table' = ev_class_table
    BY <2>2 DEF Next, Step, Call, GetTypeID, Register, EnterOnce, SkipOnce, Claim,
       Assign, ReturnToClient, ReturnToOnce, Answer, Lookup, Construct, registry
  <2>. QED
    BY <2>1, <2>2
<1>. QED
  BY <1>1, SpecIInv, PTL DEF Spec, SlotsWrittenOnce
=============================================================================
