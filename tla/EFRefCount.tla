----------------------------- MODULE EFRefCount -----------------------------
(***************************************************************************)
(* The life of one EFObject shared by threads: EFObjectAlloc, EFRetain and *)
(* EFRelease at the grain of their atomic operations, with the memory      *)
(* orders they ask for.                                                    *)
(*                                                                         *)
(* A reference a thread owns is a token of References, so that the counter *)
(* (code) and the references it stands for (ghost) are separate things.    *)
(* The contract of the clients is in the guards: a thread calls into the   *)
(* object only while it holds a token, and gives one up with each release. *)
(* Nothing else about the object guards a call, as nothing does in C.      *)
(*                                                                         *)
(* Memory order is ghost state too.  ordered[t] is the set of threads      *)
(* whose latest access to the object happens before what t does now, and   *)
(* published the set of those whose latest access happens before whoever   *)
(* acquires the counter's release sequence (C11: read-modify-writes, the   *)
(* relaxed ones of EFRetain included, continue it).                        *)
(***************************************************************************)
EXTENDS Integers, FiniteSets

CONSTANTS
  Threads,      \* the threads that share the object
  References,   \* the references that can be outstanding at once (a bound)
  NoOne         \* holder of a token that is not outstanding

ASSUME ThreadsAssumption == Threads # {} /\ NoOne \notin Threads
ASSUME ReferencesAssumption == IsFiniteSet(References)

VARIABLES
  is_stack_obj, \* header flag, set once: the object is a static literal
  refcount,     \* header counter
  phase,        \* the memory: "unborn", "live", "deinit" or "freed"
  frame,        \* where each thread is in EFRelease
  old,          \* each thread's local old: the counter before its decrement
  exited,       \* EFRelease called exit(1)
  holder,       \* ghost: who owns each reference
  ordered,      \* ghost: accesses that happen before each thread's next step
  published     \* ghost: accesses an acquire of the counter would order

header == <<is_stack_obj, refcount, phase>>
local  == <<frame, old, exited>>
memory == <<ordered, published>>
vars   == <<is_stack_obj, refcount, phase, frame, old, exited, holder, ordered,
            published>>

Outstanding == {r \in References : holder[r] # NoOne}
Holds(t)    == \E r \in References : holder[r] = t

Init ==
  /\ is_stack_obj \in BOOLEAN
  /\ refcount = 0
  /\ phase = IF is_stack_obj THEN "live" ELSE "unborn"
  /\ frame = [t \in Threads |-> "idle"]
  /\ old = [t \in Threads |-> 0]
  /\ exited = FALSE
  /\ holder = [r \in References |-> NoOne]
  /\ ordered = [t \in Threads |-> Threads]
  /\ published = Threads
-----------------------------------------------------------------------------
(* t accesses the object: no other thread is ordered after this access     *)
(* until t passes it on.                                                   *)
Touch(t) ==
  /\ published' = published \ {t}
  /\ ordered' = [u \in Threads |->
                   IF u = t THEN ordered[u] \cup {t} ELSE ordered[u] \ {t}]

(* __EFAllocatorDefaultAllocate: calloc, header, class->init.              *)
Alloc(t, r) ==
  /\ phase = "unborn"
  /\ phase' = "live"
  /\ refcount' = 1
  /\ holder' = [holder EXCEPT ![r] = t]
  /\ Touch(t)
  /\ UNCHANGED <<is_stack_obj, local>>

(* EF_STR: an expression that evaluates to a static object.                *)
Literal(t, r) ==
  /\ is_stack_obj
  /\ frame[t] = "idle"
  /\ holder[r] = NoOne
  /\ holder' = [holder EXCEPT ![r] = t]
  /\ UNCHANGED <<header, local, memory>>

(* Any call of t on the object that is not a retain or a release.          *)
Use(t) ==
  /\ frame[t] = "idle"
  /\ Holds(t)
  /\ Touch(t)
  /\ UNCHANGED <<header, local, holder>>

(* t hands one of its references to u over a channel that synchronizes.    *)
HandOver(t, u, r) ==
  /\ frame[t] = "idle"
  /\ holder[r] = t
  /\ holder' = [holder EXCEPT ![r] = u]
  /\ ordered' = [ordered EXCEPT ![u] = @ \cup ordered[t]]
  /\ UNCHANGED <<header, local, published>>
-----------------------------------------------------------------------------
RetainLosesUpdate(t, r) ==
  /\ frame[t] = "idle"
  /\ Holds(t)
  /\ holder[r] = NoOne
  /\ refcount' \in {refcount, refcount + 1}
  /\ holder' = [holder EXCEPT ![r] = t]
  /\ Touch(t)
  /\ UNCHANGED <<is_stack_obj, phase, local>>

Retain(t, r) ==
  /\ frame[t] = "idle"
  /\ Holds(t)
  /\ holder[r] = NoOne
  /\ refcount' = IF is_stack_obj THEN refcount ELSE refcount + 1
  /\ holder' = [holder EXCEPT ![r] = t]
  /\ Touch(t)
  /\ UNCHANGED <<is_stack_obj, phase, local>>

ReleaseStaticCounts(t, r) ==
  /\ is_stack_obj
  /\ frame[t] = "idle"
  /\ holder[r] = t
  /\ holder' = [holder EXCEPT ![r] = NoOne]
  /\ old' = [old EXCEPT ![t] = refcount]
  /\ refcount' = refcount - 1
  /\ frame' = [frame EXCEPT ![t] = "released"]
  /\ UNCHANGED <<is_stack_obj, phase, exited, memory>>

(* EFRelease of a static object returns at once.                           *)
ReleaseStatic(t, r) ==
  /\ is_stack_obj
  /\ frame[t] = "idle"
  /\ holder[r] = t
  /\ holder' = [holder EXCEPT ![r] = NoOne]
  /\ UNCHANGED <<header, local, memory>>

ReleaseRelaxed(t, r) ==
  /\ ~is_stack_obj
  /\ frame[t] = "idle"
  /\ holder[r] = t
  /\ holder' = [holder EXCEPT ![r] = NoOne]
  /\ old' = [old EXCEPT ![t] = refcount]
  /\ refcount' = refcount - 1
  /\ frame' = [frame EXCEPT ![t] = "released"]
  /\ Touch(t)
  /\ UNCHANGED <<is_stack_obj, phase, exited>>

(* atomic_fetch_sub_explicit(&refcount, 1, memory_order_release), itself   *)
(* an access: it and what happens before it are now before whoever         *)
(* acquires the counter.                                                   *)
ReleaseDecrement(t, r) ==
  /\ ~is_stack_obj
  /\ frame[t] = "idle"
  /\ holder[r] = t
  /\ holder' = [holder EXCEPT ![r] = NoOne]
  /\ old' = [old EXCEPT ![t] = refcount]
  /\ refcount' = refcount - 1
  /\ frame' = [frame EXCEPT ![t] = "released"]
  /\ ordered' = [u \in Threads |-> IF u = t THEN ordered[u] ELSE ordered[u] \ {t}]
  /\ published' = published \cup ordered[t]
  /\ UNCHANGED <<is_stack_obj, phase, exited>>

LastByReload(t) == refcount = 0
LastOffByOne(t) == old[t] \in {1, 2}
LastAfterZero(t) == old[t] = 0

(* The local copy decides, never a second look at the counter.             *)
WasLast(t) == old[t] = 1

(* old == 1: acquire fence, class lookup, entry into class->deinit.        *)
ReleaseLast(t) ==
  /\ frame[t] = "released"
  /\ WasLast(t)
  /\ frame' = [frame EXCEPT ![t] = "deinit"]
  /\ phase' = "deinit"
  /\ ordered' = [ordered EXCEPT ![t] = @ \cup published]
  /\ UNCHANGED <<is_stack_obj, refcount, old, exited, holder, published>>

(* old > 1: done, without another look at the object.  old <= 0: exit(1).  *)
ReleaseOthersRemain(t) ==
  /\ frame[t] = "released"
  /\ ~WasLast(t)
  /\ frame' = [frame EXCEPT ![t] = "idle"]
  /\ exited' = (old[t] <= 0)
  /\ UNCHANGED <<header, old, holder, memory>>

(* class->deinit has returned: EFObjectDealloc gives the memory back.      *)
Dealloc(t) ==
  /\ frame[t] = "deinit"
  /\ frame' = [frame EXCEPT ![t] = "idle"]
  /\ phase' = "freed"
  /\ UNCHANGED <<is_stack_obj, refcount, old, exited, holder, memory>>
-----------------------------------------------------------------------------
Next ==
  /\ ~exited
  /\ \/ \E t \in Threads, r \in References :
          \/ Alloc(t, r)
          \/ Literal(t, r)
          \/ Retain(t, r)
          \/ ReleaseStatic(t, r)
          \/ ReleaseDecrement(t, r)
     \/ \E t \in Threads :
          \/ Use(t)
          \/ ReleaseLast(t)
          \/ ReleaseOthersRemain(t)
          \/ Dealloc(t)
     \/ \E t, u \in Threads, r \in References : HandOver(t, u, r)

Spec == Init /\ [][Next]_vars

(* A thread inside EFRelease waits for nobody, so the scheduler lets it    *)
(* finish.  Clients are free never to call again.                          *)
Fairness ==
  \A t \in Threads : /\ WF_vars(ReleaseLast(t))
                     /\ WF_vars(ReleaseOthersRemain(t))
                     /\ WF_vars(Dealloc(t))

FairSpec == Spec /\ Fairness
-----------------------------------------------------------------------------
(* The types; that refcount is a natural number says no release of a       *)
(* client that owns what it releases drives the counter below zero.        *)
TypeOK ==
  /\ is_stack_obj \in BOOLEAN
  /\ refcount \in Nat
  /\ phase \in {"unborn", "live", "deinit", "freed"}
  /\ frame \in [Threads -> {"idle", "released", "deinit"}]
  /\ old \in [Threads -> Nat]
  /\ exited \in BOOLEAN
  /\ holder \in [References -> Threads \cup {NoOne}]
  /\ ordered \in [Threads -> SUBSET Threads]
  /\ published \in SUBSET Threads

(* The counter of a heap object is the number of references owned by       *)
(* somebody, whatever the interleaving of EFRetain and EFRelease; that of  *)
(* a static object is never touched.                                       *)
RefCountExact ==
  refcount = IF is_stack_obj THEN 0 ELSE Cardinality(Outstanding)

(* While anyone owns a reference, the object is neither being torn down    *)
(* nor freed, and EFRelease's fatal path is never taken.                   *)
NoUseAfterFree ==
  /\ Outstanding # {} => phase = "live"
  /\ ~exited

(* At most one thread runs the deinit handler, and only on a heap object.  *)
SingleDeinit ==
  \A t \in Threads : frame[t] = "deinit" =>
    /\ phase = "deinit"
    /\ ~is_stack_obj
    /\ \A u \in Threads : frame[u] = "deinit" => u = t

(* The handler and the free happen after every access of every thread: the *)
(* release order of the decrement and the acquire fence leave no data race *)
(* between a thread's last use and the teardown by another thread.         *)
TeardownAfterEveryAccess ==
  \A t \in Threads : frame[t] = "deinit" => ordered[t] = Threads

(* Refinement: what the counter implements is ownership.                   *)
Ownership == INSTANCE EFOwnership WITH
  state <- IF phase = "freed" THEN "gone"
           ELSE IF phase = "unborn" THEN "unborn" ELSE "alive",
  immortal <- is_stack_obj

(* Every behaviour of the counter is one of EFOwnership's: references come *)
(* only from references, teardown happens once and after the last release, *)
(* and an object nobody references is eventually freed.                    *)
ImplementsOwnership == Ownership!FairSpec
=============================================================================
