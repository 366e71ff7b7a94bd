--------------------------- MODULE EFClassRegistry ---------------------------
(***************************************************************************)
(* The table of classes: EFClassRegister at the grain of its three shared  *)
(* writes, the EF*GetTypeID functions that call it through pthread_once,   *)
(* and EFObjectAlloc looking a class up by its number.                     *)
(*                                                                         *)
(* Built-in classes are registered on the first call of their GetTypeID,   *)
(* by whichever thread comes first.  A client's class is registered by one *)
(* direct call, the discipline every class of the library follows.         *)
(***************************************************************************)
EXTENDS Integers

CONSTANTS
  Threads,
  BuiltIn,        \* the classes of the library
  Direct,         \* the classes of clients
  EF_MAX_CLASSES, \* size of the table; slot 0 stays empty
  NoClass         \* NULL

Classes == BuiltIn \cup Direct
Slots   == 1 .. EF_MAX_CLASSES - 1

kEFNotATypeID == 0

ASSUME ClassesAssumption ==
  /\ BuiltIn \cap Direct = {}
  /\ NoClass \notin Classes
  /\ EF_MAX_CLASSES \in Nat \ {0}

VARIABLES
  ev_class_next,  \* the next number to hand out
  ev_class_table, \* number -> class
  typeID,         \* the field of each class, 0 until registered
  once,           \* the pthread_once control of a built-in class; for a
                  \* client's class, whether its one registration has begun
  pc, cls, id,    \* per thread: place in a call, its class, local id
  answers,        \* ghost: what calls returned, as <<class, number>>
  objects,        \* ghost: what was allocated, as <<class, number in header>>
  aborted         \* an assert failed

registry == <<ev_class_next, ev_class_table, typeID, once>>
vars == <<ev_class_next, ev_class_table, typeID, once, pc, cls, id, answers,
          objects, aborted>>

Init ==
  /\ ev_class_next = 1
  /\ ev_class_table = [i \in Slots |-> NoClass]
  /\ typeID = [c \in Classes |-> kEFNotATypeID]
  /\ once = [c \in Classes |-> "new"]
  /\ pc = [t \in Threads |-> "idle"]
  /\ cls = [t \in Threads |-> NoClass]
  /\ id = [t \in Threads |-> kEFNotATypeID]
  /\ answers = {}
  /\ objects = {}
  /\ aborted = FALSE

Goto(t, place) == pc' = [pc EXCEPT ![t] = place]

(* A call returns: its locals are gone.                                    *)
Return(t) ==
  /\ Goto(t, "idle")
  /\ cls' = [cls EXCEPT ![t] = NoClass]
  /\ id' = [id EXCEPT ![t] = kEFNotATypeID]

EFClassGetByID(i) == IF i \in Slots THEN ev_class_table[i] ELSE NoClass
-----------------------------------------------------------------------------
GetTypeIDWithoutOnce(t, c) ==
  /\ pc[t] = "idle"
  /\ c \in BuiltIn
  /\ Goto(t, IF typeID[c] = kEFNotATypeID THEN "claim" ELSE "answer")
  /\ cls' = [cls EXCEPT ![t] = c]
  /\ UNCHANGED <<registry, id, answers, objects, aborted>>

(* EFArrayGetTypeID and its six siblings: into pthread_once.               *)
GetTypeID(t, c) ==
  /\ pc[t] = "idle"
  /\ c \in BuiltIn
  /\ Goto(t, "once")
  /\ cls' = [cls EXCEPT ![t] = c]
  /\ UNCHANGED <<registry, id, answers, objects, aborted>>

(* pthread_once runs the routine in the first thread ...                   *)
EnterOnce(t) ==
  /\ pc[t] = "once"
  /\ once[cls[t]] = "new"
  /\ once' = [once EXCEPT ![cls[t]] = "running"]
  /\ Goto(t, "claim")
  /\ UNCHANGED <<ev_class_next, ev_class_table, typeID, cls, id, answers,
                 objects, aborted>>

(* ... and holds the others until it is done.                              *)
SkipOnce(t) ==
  /\ pc[t] = "once"
  /\ once[cls[t]] = "done"
  /\ Goto(t, "answer")
  /\ UNCHANGED <<registry, cls, id, answers, objects, aborted>>

(* A client calls EFClassRegister itself.                                  *)
Register(t, c) ==
  /\ pc[t] = "idle"
  /\ c \in Direct
  /\ once[c] = "new"
  /\ once' = [once EXCEPT ![c] = "running"]
  /\ Goto(t, "claim")
  /\ cls' = [cls EXCEPT ![t] = c]
  /\ UNCHANGED <<ev_class_next, ev_class_table, typeID, id, answers, objects,
                 aborted>>
-----------------------------------------------------------------------------
ClaimNotAtomic(t) ==
  /\ pc[t] = "claim"
  /\ id' = [id EXCEPT ![t] = IF ev_class_next \in Slots THEN ev_class_next
                             ELSE kEFNotATypeID]
  /\ ev_class_next' \in {ev_class_next, ev_class_next + 1}
  /\ Goto(t, IF ev_class_next >= EF_MAX_CLASSES THEN "leave" ELSE "assign")
  /\ UNCHANGED <<ev_class_table, typeID, once, cls, answers, objects, aborted>>

ClaimOffByOne(t) ==
  /\ pc[t] = "claim"
  /\ LET full == ev_class_next >= EF_MAX_CLASSES - 1 IN
     /\ id' = [id EXCEPT ![t] = IF full THEN kEFNotATypeID ELSE ev_class_next]
     /\ Goto(t, IF full THEN "leave" ELSE "assign")
  /\ ev_class_next' = ev_class_next + 1
  /\ UNCHANGED <<ev_class_table, typeID, once, cls, answers, objects, aborted>>

ClaimRetries(t) ==
  /\ pc[t] = "claim"
  /\ LET full == ev_class_next >= EF_MAX_CLASSES IN
     /\ id' = [id EXCEPT ![t] = IF full THEN kEFNotATypeID ELSE ev_class_next]
     /\ Goto(t, IF full THEN "claim" ELSE "assign")
     /\ ev_class_next' = IF full THEN ev_class_next ELSE ev_class_next + 1
  /\ UNCHANGED <<ev_class_table, typeID, once, cls, answers, objects, aborted>>

ClaimUnchecked(t) ==
  /\ pc[t] = "claim"
  /\ id' = [id EXCEPT ![t] = ev_class_next]
  /\ Goto(t, "assign")
  /\ ev_class_next' = ev_class_next + 1
  /\ UNCHANGED <<ev_class_table, typeID, once, cls, answers, objects, aborted>>

(* fetch_add of the next number; past the end the call returns at once.    *)
Claim(t) ==
  /\ pc[t] = "claim"
  /\ LET full == ev_class_next >= EF_MAX_CLASSES IN
     /\ id' = [id EXCEPT ![t] = IF full THEN kEFNotATypeID ELSE ev_class_next]
     /\ Goto(t, IF full THEN "leave" ELSE "assign")
  /\ ev_class_next' = ev_class_next + 1
  /\ UNCHANGED <<ev_class_table, typeID, once, cls, answers, objects, aborted>>

AssignForgotten(t) ==
  /\ pc[t] = "assign"
  /\ Goto(t, "publish")
  /\ UNCHANGED <<registry, cls, id, answers, objects, aborted>>

(* cls->typeID = id                                                        *)
Assign(t) ==
  /\ pc[t] = "assign"
  /\ typeID' = [typeID EXCEPT ![cls[t]] = id[t]]
  /\ Goto(t, "publish")
  /\ UNCHANGED <<ev_class_next, ev_class_table, once, cls, id, answers, objects,
                 aborted>>

PublishNextSlot(t) ==
  /\ pc[t] = "publish"
  /\ ev_class_table' = [i \in Slots |-> IF i = id[t] + 1 THEN cls[t]
                                        ELSE ev_class_table[i]]
  /\ Goto(t, "leave")
  /\ UNCHANGED <<ev_class_next, typeID, once, cls, id, answers, objects, aborted>>

(* The store that lets a lookup find the class.                            *)
Publish(t) ==
  /\ pc[t] = "publish"
  /\ ev_class_table' = [ev_class_table EXCEPT ![id[t]] = cls[t]]
  /\ Goto(t, "leave")
  /\ UNCHANGED <<ev_class_next, typeID, once, cls, id, answers, objects, aborted>>

(* EFClassRegister returns to the client, with its local id ...            *)
ReturnToClient(t) ==
  /\ pc[t] = "leave"
  /\ cls[t] \in Direct
  /\ once' = [once EXCEPT ![cls[t]] = "done"]
  /\ answers' = answers \cup {<<cls[t], id[t]>>}
  /\ Return(t)
  /\ UNCHANGED <<ev_class_next, ev_class_table, typeID, objects, aborted>>

(* ... or to pthread_once, which lets go of the threads that wait.         *)
ReturnToOnce(t) ==
  /\ pc[t] = "leave"
  /\ cls[t] \in BuiltIn
  /\ once' = [once EXCEPT ![cls[t]] = "done"]
  /\ Goto(t, "answer")
  /\ UNCHANGED <<ev_class_next, ev_class_table, typeID, cls, id, answers, objects,
                 aborted>>

(* GetTypeID returns the field of its class.                               *)
Answer(t) ==
  /\ pc[t] = "answer"
  /\ answers' = answers \cup {<<cls[t], typeID[cls[t]]>>}
  /\ Return(t)
  /\ UNCHANGED <<registry, objects, aborted>>
-----------------------------------------------------------------------------
(* EFObjectAlloc with a number some call returned: the lookup, whose       *)
(* failure is an assert ...                                                *)
Lookup(t, a) ==
  /\ pc[t] = "idle"
  /\ a \in answers
  /\ LET class == EFClassGetByID(a[2]) IN
     /\ cls' = [cls EXCEPT ![t] = class]
     /\ aborted' = (class = NoClass)
     /\ Goto(t, IF class = NoClass THEN "idle" ELSE "construct")
  /\ UNCHANGED <<registry, id, answers, objects>>

(* ... and the header, whose number is read from the class.                *)
Construct(t) ==
  /\ pc[t] = "construct"
  /\ objects' = objects \cup {<<cls[t], typeID[cls[t]]>>}
  /\ Return(t)
  /\ UNCHANGED <<registry, answers, aborted>>
-----------------------------------------------------------------------------
(* The steps of a thread inside a call.                                    *)
Step(t) ==
  \/ EnterOnce(t) \/ SkipOnce(t)
  \/ Claim(t) \/ Assign(t) \/ Publish(t)
  \/ ReturnToClient(t) \/ ReturnToOnce(t) \/ Answer(t)
  \/ Construct(t)

Call(t) ==
  \/ \E c \in Classes : GetTypeID(t, c) \/ Register(t, c)
  \/ \E a \in answers : Lookup(t, a)

Next == ~aborted /\ \E t \in Threads : Step(t) \/ Call(t)

Spec == Init /\ [][Next]_vars

(* No step inside a call waits for anything but pthread_once, so a thread  *)
(* the scheduler runs takes it.  Nobody need call.                         *)
FairSpec == Spec /\ \A t \in Threads : WF_vars(~aborted /\ Step(t))
-----------------------------------------------------------------------------
TypeOK ==
  /\ ev_class_next \in Nat \ {0}
  /\ ev_class_table \in [Slots -> Classes \cup {NoClass}]
  /\ typeID \in [Classes -> Slots \cup {kEFNotATypeID}]
  /\ once \in [Classes -> {"new", "running", "done"}]
  /\ pc \in [Threads -> {"idle", "once", "claim", "assign", "publish", "leave",
                         "answer", "construct"}]
  /\ cls \in [Threads -> Classes \cup {NoClass}]
  /\ id \in [Threads -> Slots \cup {kEFNotATypeID}]
  /\ answers \subseteq Classes \X (Slots \cup {kEFNotATypeID})
  /\ objects \subseteq Classes \X (Slots \cup {kEFNotATypeID})
  /\ aborted \in BOOLEAN

(* A number a call returned finds the class it was returned for, from the  *)
(* moment of the return on: so no two classes are given one number, however *)
(* their registrations interleave.                                         *)
AnswersResolve ==
  \A a \in answers : a[2] # kEFNotATypeID => EFClassGetByID(a[2]) = a[1]

(* All calls of a class's GetTypeID, in any thread and racing with the     *)
(* registration, give the same answer: EFEqual may compare them.           *)
AnswersAgree ==
  \A a, b \in answers : a[1] = b[1] => a[2] = b[2]

(* The number in an object's header finds the class it was allocated for,  *)
(* whose deinit EFRelease will run.                                        *)
ObjectsKeepTheirClass ==
  \A o \in objects : EFClassGetByID(o[2]) = o[1]

(* A slot, once published, keeps its class.                                *)
SlotsWrittenOnce ==
  [][\A i \in Slots : ev_class_table[i] # NoClass =>
       ev_class_table'[i] = ev_class_table[i]]_vars

(* kEFNotATypeID is returned only when every slot is published or in the   *)
(* hands of a thread about to publish it: no slot is lost to a race.       *)
ExhaustionIsReal ==
  \A a \in answers : a[2] = kEFNotATypeID =>
    \A i \in Slots :
      \/ ev_class_table[i] # NoClass
      \/ \E t \in Threads : pc[t] \in {"assign", "publish"} /\ id[t] = i

(* EFObjectAlloc's assert ends the process only when the answer it looks up *)
(* is that of a class whose one registration found the table full: the     *)
(* class has no number, and every slot is another class's already or is    *)
(* about to be. So a class that could be registered never ends a client.   *)
AbortOnlyWhenFull ==
  [][\A t \in Threads, a \in answers : Lookup(t, a) /\ aborted' =>
       /\ a[2] = kEFNotATypeID
       /\ typeID[a[1]] = kEFNotATypeID
       /\ \A i \in Slots :
            \/ ev_class_table[i] \in Classes \ {a[1]}
            \/ \E u \in Threads : /\ pc[u] \in {"assign", "publish"}
                                  /\ id[u] = i /\ cls[u] # a[1]]_vars

(* Every call returns: nobody waits forever in pthread_once.               *)
CallsReturn ==
  \A t \in Threads : pc[t] # "idle" ~> (pc[t] = "idle" \/ aborted)
=============================================================================
