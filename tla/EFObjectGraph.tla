---------------------------- MODULE EFObjectGraph ----------------------------
(***************************************************************************)
(* Who keeps whom: EFPage, EFArray, EFPageGroup and virtual EFFileHandle   *)
(* objects on one heap, with their reference counts.                       *)
(*                                                                         *)
(* A call of the client is a program: the sequence of what its C function  *)
(* does to objects, where each step that can fail carries what is done     *)
(* then.  A release that frees an object puts the releases its deinit does *)
(* in front of what is left of the program, as the C stack does.  One      *)
(* thread runs: nothing in the containers synchronizes.                    *)
(***************************************************************************)
EXTENDS Integers, Sequences, SequencesExt, FiniteSets

CONSTANTS
  Refs,      \* the addresses of objects
  Callbacks, \* which callbacks clients give to arrays: subset of {"object", "default"}
  ItemKinds, \* which objects clients put into arrays (a bound)
  MaxItems,  \* no array of a client gets more items than this (a bound)
  MaxHeld    \* ... and no client keeps more references to one object (a bound)

ASSUME RefsAssumption == IsFiniteSet(Refs)

VARIABLES
  kind,      \* what is at an address: "none" or a class
  refcount,
  items,     \* the items of an array, the array of a group, the group of a file
  cap,       \* how many items fit before the next realloc
  callbacks, isMutable,
  client,    \* how many references the client owns ...
  local,     \* ... and the call that runs
  todo       \* the rest of the call that runs

heap == <<kind, refcount, items, cap, callbacks, isMutable>>
vars == <<kind, refcount, items, cap, callbacks, isMutable, client, local, todo>>

Live(r) == kind[r] # "none"
Free    == {r \in Refs : ~Live(r)}

(* Whether the teardown of an object releases its items.                   *)
Retains(r) == kind[r] \in {"group", "file"} \/ callbacks[r] = "object"

Init ==
  /\ kind = [r \in Refs |-> "none"]
  /\ refcount = [r \in Refs |-> 0]
  /\ items = [r \in Refs |-> <<>>]
  /\ cap = [r \in Refs |-> 0]
  /\ callbacks = [r \in Refs |-> "default"]
  /\ isMutable = [r \in Refs |-> FALSE]
  /\ client = [r \in Refs |-> 0]
  /\ local = [r \in Refs |-> 0]
  /\ todo = <<>>
-----------------------------------------------------------------------------
(* The steps of programs.                                                  *)
New(r, k, c, cb, fail) ==
  [op |-> "new", r |-> r, kind |-> k, cap |-> c, callbacks |-> cb, fail |-> fail]
Insert(a, i, r, fail)  == [op |-> "insert", a |-> a, i |-> i, r |-> r, fail |-> fail]
AppendTo(a, r, fail)   == [op |-> "append", a |-> a, r |-> r, fail |-> fail]
RemoveFrom(a, i)       == [op |-> "remove", a |-> a, i |-> i]
Adopt(r, s)            == [op |-> "adopt", a |-> r, r |-> s]
Freeze(a)              == [op |-> "freeze", a |-> a]
Keep(r)                == [op |-> "keep", r |-> r]
Release(r)             == [op |-> "release", r |-> r]

(* What releases expand to: a container's reference goes, an item leaves   *)
(* its array, an object is deallocated.                                    *)
Drop(r)     == [op |-> "drop", r |-> r]
Shift(a, i) == [op |-> "shift", a |-> a, i |-> i]
Dealloc(r)  == [op |-> "dealloc", r |-> r]

step == Head(todo)
Does(op) == todo # <<>> /\ step.op = op

(* EFObjectAlloc, with the calloc of an array's items or the mmap of a     *)
(* page: each may fail, and what succeeded is undone.                      *)
DoNew ==
  /\ Does("new")
  /\ LET r == step.r IN
     \/ /\ kind' = [kind EXCEPT ![r] = step.kind]
        /\ refcount' = [refcount EXCEPT ![r] = 1]
        /\ items' = [items EXCEPT ![r] = <<>>]
        /\ cap' = [cap EXCEPT ![r] = step.cap]
        /\ callbacks' = [callbacks EXCEPT ![r] = step.callbacks]
        /\ isMutable' = [isMutable EXCEPT ![r] = TRUE]
        /\ local' = [local EXCEPT ![r] = @ + 1]
        /\ todo' = Tail(todo)
     \/ /\ todo' = step.fail
        /\ UNCHANGED <<heap, local>>
  /\ UNCHANGED client

PutBorrows(a, i, r) ==
  LET full    == Len(items[a]) >= cap[a]
      refused == ~isMutable[a] \/ i > Len(items[a]) + 1
  IN \/ /\ ~refused
        /\ cap' = [cap EXCEPT ![a] = IF full THEN @ + 5 ELSE @]
        /\ items' = [items EXCEPT ![a] = InsertAt(@, i, r)]
        /\ todo' = Tail(todo)
        /\ UNCHANGED <<kind, refcount, callbacks, isMutable>>
     \/ /\ refused \/ full
        /\ todo' = step.fail
        /\ UNCHANGED heap

PutRetainsFirst(a, i, r) ==
  LET full    == Len(items[a]) >= cap[a]
      refused == ~isMutable[a] \/ i > Len(items[a]) + 1
  IN /\ refcount' = [refcount EXCEPT ![r] = IF callbacks[a] = "object" THEN @ + 1 ELSE @]
     /\ \/ /\ ~refused
           /\ cap' = [cap EXCEPT ![a] = IF full THEN @ + 5 ELSE @]
           /\ items' = [items EXCEPT ![a] = InsertAt(@, i, r)]
           /\ todo' = Tail(todo)
           /\ UNCHANGED <<kind, callbacks, isMutable>>
        \/ /\ refused \/ full
           /\ todo' = step.fail
           /\ UNCHANGED <<kind, items, cap, callbacks, isMutable>>

(* EFArrayAppendValue and EFArrayInsertValueAtIndex: refused when the      *)
(* array is immutable or the index beyond its end; room first, then the    *)
(* callback's retain, then the item.                                       *)
Put(a, i, r) ==
  LET full    == Len(items[a]) >= cap[a]
      refused == ~isMutable[a] \/ i > Len(items[a]) + 1
  IN \/ /\ ~refused
        /\ cap' = [cap EXCEPT ![a] = IF full THEN @ + 5 ELSE @]
        /\ refcount' = [refcount EXCEPT ![r] = IF callbacks[a] = "object" THEN @ + 1 ELSE @]
        /\ items' = [items EXCEPT ![a] = InsertAt(@, i, r)]
        /\ todo' = Tail(todo)
        /\ UNCHANGED <<kind, callbacks, isMutable>>
     \/ /\ refused \/ full
        /\ todo' = step.fail
        /\ UNCHANGED heap

DoAppend ==
  /\ Does("append")
  /\ Put(step.a, Len(items[step.a]) + 1, step.r)
  /\ UNCHANGED <<client, local>>

DoInsert ==
  /\ Does("insert")
  /\ Put(step.a, step.i, step.r)
  /\ UNCHANGED <<client, local>>

(* EFArrayRemoveValueAtIndex: the callback's release while the item is     *)
(* still in its place, then the memmove.                                   *)
DoRemove ==
  /\ Does("remove")
  /\ LET a == step.a
         i == step.i
         refused == ~isMutable[a] \/ i > Len(items[a])
         drop == IF callbacks[a] = "object" THEN <<Drop(items[a][i])>> ELSE <<>>
     IN todo' = IF refused THEN Tail(todo) ELSE drop \o <<Shift(a, i)>> \o Tail(todo)
  /\ UNCHANGED <<heap, client, local>>

DoShift ==
  /\ Does("shift")
  /\ items' = [items EXCEPT ![step.a] = RemoveAt(@, step.i)]
  /\ todo' = Tail(todo)
  /\ UNCHANGED <<kind, refcount, cap, callbacks, isMutable, client, local>>

AdoptRetains ==
  /\ Does("adopt")
  /\ items' = [items EXCEPT ![step.a] = <<step.r>>]
  /\ refcount' = [refcount EXCEPT ![step.r] = @ + 1]
  /\ todo' = Tail(todo)
  /\ UNCHANGED <<kind, cap, callbacks, isMutable, client, local>>

(* A group takes its array, a file its group.                              *)
DoAdopt ==
  /\ Does("adopt")
  /\ items' = [items EXCEPT ![step.a] = <<step.r>>]
  /\ local' = [local EXCEPT ![step.r] = @ - 1]
  /\ todo' = Tail(todo)
  /\ UNCHANGED <<kind, refcount, cap, callbacks, isMutable, client>>

DoFreeze ==
  /\ Does("freeze")
  /\ isMutable' = [isMutable EXCEPT ![step.a] = FALSE]
  /\ todo' = Tail(todo)
  /\ UNCHANGED <<kind, refcount, items, cap, callbacks, client, local>>

(* The call returns an object: its reference is now the client's.          *)
DoKeep ==
  /\ Does("keep")
  /\ local' = [local EXCEPT ![step.r] = @ - 1]
  /\ client' = [client EXCEPT ![step.r] = @ + 1]
  /\ todo' = Tail(todo)
  /\ UNCHANGED heap

(* EFRelease; the last one runs the deinit of the class.                   *)
Deinit(r) == IF Retains(r) THEN [i \in 1 .. Len(items[r]) |-> Drop(items[r][i])] ELSE <<>>

EFRelease(r) ==
  /\ refcount' = [refcount EXCEPT ![r] = @ - 1]
  /\ todo' = (IF refcount[r] = 1 THEN Deinit(r) \o <<Dealloc(r)>> ELSE <<>>) \o Tail(todo)
  /\ UNCHANGED <<kind, items, cap, callbacks, isMutable, client>>

DoRelease ==
  /\ Does("release")
  /\ EFRelease(step.r)
  /\ local' = [local EXCEPT ![step.r] = @ - 1]

DoDrop ==
  /\ Does("drop")
  /\ EFRelease(step.r)
  /\ UNCHANGED local

DoDealloc ==
  /\ Does("dealloc")
  /\ LET r == step.r IN
     /\ kind' = [kind EXCEPT ![r] = "none"]
     /\ items' = [items EXCEPT ![r] = <<>>]
     /\ cap' = [cap EXCEPT ![r] = 0]
     /\ callbacks' = [callbacks EXCEPT ![r] = "default"]
     /\ isMutable' = [isMutable EXCEPT ![r] = FALSE]
  /\ todo' = Tail(todo)
  /\ UNCHANGED <<refcount, client, local>>

Step ==
  \/ DoNew \/ DoAppend \/ DoInsert \/ DoRemove \/ DoShift \/ DoAdopt
  \/ DoFreeze \/ DoKeep \/ DoRelease \/ DoDrop \/ DoDealloc
-----------------------------------------------------------------------------
(* The programs of the calls; done is what the caller does with a success  *)
(* and fail what it does with NULL or false.                               *)
EFPageCreate(p, fail) == <<New(p, "page", 0, "default", fail)>>

(* __EFArrayCreateCopy of array a into c.                                  *)
EFArrayCreateMutableCopy(c, a, fail) ==
  <<New(c, "array", Len(items[a]), callbacks[a], fail)>>
    \o [i \in 1 .. Len(items[a]) |-> AppendTo(c, items[a][i], <<Release(c)>> \o fail)]

EFArrayCreateCopy(c, a) == EFArrayCreateMutableCopy(c, a, <<>>) \o <<Freeze(c), Keep(c)>>

(* EFPageGroupCreateWithPages of an array with these items and callbacks:  *)
(* a copy of its own, c, and the group g.                                  *)
EFPageGroupCreateWithPages(g, c, its, cb, fail) ==
  <<New(c, "array", Len(its), cb, fail)>>
    \o [i \in 1 .. Len(its) |-> AppendTo(c, its[i], <<Release(c)>> \o fail)]
    \o <<New(g, "group", 0, "default", <<Release(c)>> \o fail), Adopt(g, c)>>

CreateForgetsArray(g, c, a, p, fail) ==
  <<New(a, "array", 1, "object", fail)>>
    \o EFPageCreate(p, fail)
    \o <<AppendTo(a, p, <<Release(p), Release(a)>> \o fail), Release(p)>>
    \o EFPageGroupCreateWithPages(g, c, <<p>>, "object", <<Release(a)>> \o fail)
    \o <<Release(a)>>

EFPageGroupCreate(g, c, a, p, fail) ==
  <<New(a, "array", 1, "object", fail)>>
    \o EFPageCreate(p, <<Release(a)>> \o fail)
    \o <<AppendTo(a, p, <<Release(p), Release(a)>> \o fail), Release(p)>>
    \o EFPageGroupCreateWithPages(g, c, <<p>>, "object", <<Release(a)>> \o fail)
    \o <<Release(a)>>

ExtendReleasesTwice(g, p) ==
  EFPageCreate(p, <<>>)
    \o <<AppendTo(items[g][1], p, <<Release(p)>>), Release(p), Release(p)>>

EFPageGroupExtend(g, p) ==
  EFPageCreate(p, <<>>) \o <<AppendTo(items[g][1], p, <<Release(p)>>), Release(p)>>

MergeReleasesFirst(g, p) ==
  LET a == items[g][1] IN
  EFPageCreate(p, <<>>)
    \o <<Release(p), AppendTo(a, p, <<>>)>>
    \o [i \in 1 .. Len(items[a]) |-> RemoveFrom(a, 1)]

EFPageGroupMerge(g, p) ==
  LET a == items[g][1] IN
  EFPageCreate(p, <<>>)
    \o <<AppendTo(a, p, <<Release(p)>>), Release(p)>>
    \o [i \in 1 .. Len(items[a]) |-> RemoveFrom(a, 1)]

EFFileHandleCreate(f, g, c, a, p) ==
  <<New(f, "file", 0, "default", <<>>)>>
    \o EFPageGroupCreate(g, c, a, p, <<Release(f)>>)
    \o <<Adopt(f, g), Keep(f)>>
-----------------------------------------------------------------------------
(* What a client may call, with objects it holds.                          *)
Held(k) == {r \in Refs : client[r] > 0 /\ kind[r] = k}
Fresh(n) == {s \in [1 .. n -> Free] : \A i, j \in 1 .. n : i # j => s[i] # s[j]}
Values == {r \in Refs : client[r] > 0}

Create ==
  \/ \E s \in Fresh(1) :
       \/ todo' = EFPageCreate(s[1], <<>>) \o <<Keep(s[1])>>
       \/ \E cb \in Callbacks : todo' = <<New(s[1], "array", 0, cb, <<>>), Keep(s[1])>>
       \/ \E a \in Held("array") :
            \/ todo' = EFArrayCreateCopy(s[1], a)
            \/ todo' = EFArrayCreateMutableCopy(s[1], a, <<>>) \o <<Keep(s[1])>>
       \/ \E g \in Held("group") : todo' = EFArrayCreateCopy(s[1], items[g][1])
  \/ \E s \in Fresh(2), a \in Held("array") :
       /\ \A i \in 1 .. Len(items[a]) : kind[items[a][i]] = "page"
       /\ todo' = EFPageGroupCreateWithPages(s[1], s[2], items[a], callbacks[a], <<>>)
                    \o <<Keep(s[1])>>
  \/ \E s \in Fresh(4) :
       todo' = EFPageGroupCreate(s[1], s[2], s[3], s[4], <<>>) \o <<Keep(s[1])>>
  \/ \E s \in Fresh(5) : todo' = EFFileHandleCreate(s[1], s[2], s[3], s[4], s[5])

Change ==
  \/ \E a \in Held("array"), r \in {v \in Values : kind[v] \in ItemKinds} :
       /\ Len(items[a]) < MaxItems
       /\ \/ todo' = <<AppendTo(a, r, <<>>)>>
          \/ \E i \in 1 .. Len(items[a]) + 1 : todo' = <<Insert(a, i, r, <<>>)>>
  \/ \E a \in Held("array") : \E i \in 1 .. Len(items[a]) : todo' = <<RemoveFrom(a, i)>>
  \/ \E g \in Held("group"), s \in Fresh(1) :
       \/ Len(items[items[g][1]]) < MaxItems /\ todo' = EFPageGroupExtend(g, s[1])
       \/ Len(items[items[g][1]]) > 0 /\ todo' = EFPageGroupMerge(g, s[1])
  \/ \E f \in Held("file"), s \in Fresh(1) :
       LET g == items[f][1] IN
       /\ Len(items[items[g][1]]) < MaxItems
       /\ todo' = EFPageGroupExtend(g, s[1])

(* The client gives up a reference, or takes one more: of an object it     *)
(* holds, or of an item of an array it holds.                              *)
LetGo == \E r \in Values :
  /\ client' = [client EXCEPT ![r] = @ - 1]
  /\ local' = [local EXCEPT ![r] = @ + 1]
  /\ todo' = <<Release(r)>>
  /\ UNCHANGED heap

EFRetain ==
  \E r \in Values \cup UNION {ToSet(items[a]) : a \in Held("array")} :
    /\ client[r] < MaxHeld
    /\ refcount' = [refcount EXCEPT ![r] = @ + 1]
    /\ client' = [client EXCEPT ![r] = @ + 1]
    /\ UNCHANGED <<kind, items, cap, callbacks, isMutable, local, todo>>

Call ==
  /\ todo = <<>>
  /\ \/ (Create \/ Change) /\ UNCHANGED <<heap, client, local>>
     \/ LetGo
     \/ EFRetain

Next == Call \/ Step

Spec == Init /\ [][Next]_vars

-----------------------------------------------------------------------------
TypeOK ==
  /\ kind \in [Refs -> {"none", "page", "array", "group", "file"}]
  /\ refcount \in [Refs -> Nat]
  /\ items \in [Refs -> Seq(Refs)]
  /\ cap \in [Refs -> Nat]
  /\ callbacks \in [Refs -> {"object", "default"}]
  /\ isMutable \in [Refs -> BOOLEAN]
  /\ client \in [Refs -> Nat] /\ local \in [Refs -> Nat]
  /\ \A r \in Refs : kind[r] \in {"group", "file"} => Len(items[r]) <= 1
  /\ \A r \in Refs : kind[r] = "array" => Len(items[r]) <= cap[r]

(* The places that keep an object: the items of objects that are not being *)
(* torn down, but for the one a removal is taking out.                     *)
Keeping(a)    == Live(a) /\ refcount[a] > 0 /\ Retains(a)
Leaving(a, i) == \E k \in 1 .. Len(todo) :
                   todo[k].op = "shift" /\ todo[k].a = a /\ todo[k].i = i
Places == UNION {{a} \X {i \in 1 .. Len(items[a]) : ~Leaving(a, i)} :
                   a \in {b \in Refs : Keeping(b)}}
Keepers(r) == {pl \in Places : items[pl[1]][pl[2]] = r}

(* The references that todo will drop, each at its depth in that stack.    *)
Drops(r) == {d \in 0 .. Len(todo) - 1 :
               todo[Len(todo) - d].op = "drop" /\ todo[Len(todo) - d].r = r}

(* Every reference is accounted for, at every step of every call, failed   *)
(* ones too: the count of an object is the number of those who will        *)
(* release it.                                                             *)
RefsAccounted ==
  \A r \in Refs :
    refcount[r] = client[r] + local[r] + Cardinality(Keepers(r)) + Cardinality(Drops(r))

(* What an object keeps is there, and so is what a client has.             *)
NoDangling ==
  /\ \A pl \in Places : Live(items[pl[1]][pl[2]])
  /\ \A r \in Refs : client[r] > 0 => Live(r)

(* No step touches an object that is not there, or allocates one that is.  *)
NoUseAfterFree ==
  todo # <<>> =>
    IF step.op = "new" THEN ~Live(step.r)
    ELSE /\ step.op \in {"append", "insert", "adopt", "keep", "release", "drop", "dealloc"} =>
              Live(step.r)
         /\ step.op \in {"append", "insert", "remove", "adopt", "freeze", "shift"} =>
              Live(step.a)

(* A client that has given up everything it was given leaves an empty heap, *)
(* whichever steps of its calls failed: no call keeps what it does not      *)
(* return, and no container outlives its last owner.                        *)
NoLeaks ==
  todo = <<>> /\ (\A r \in Refs : client[r] = 0) => \A r \in Refs : ~Live(r)

(* The array of a group is its own and can grow, and holds only pages: no  *)
(* client can change what is in the group but by calls on the group.       *)
GroupsArePrivate ==
  todo = <<>> =>
    \A g \in Refs : kind[g] = "group" =>
      /\ Len(items[g]) = 1
      /\ LET a == items[g][1] IN
         /\ kind[a] = "array" /\ isMutable[a]
         /\ refcount[a] = 1 /\ client[a] = 0
         /\ \A i \in 1 .. Len(items[a]) : kind[items[a][i]] = "page"

(* EFPageGroup.c:122: "we need a reference our selves".  The pages of a    *)
(* group are there as long as the group is.                                *)
GroupsHoldTheirPages ==
  todo = <<>> =>
    \A g \in Refs : kind[g] = "group" =>
      \A i \in 1 .. Len(items[items[g][1]]) : kind[items[items[g][1]][i]] = "page"
=============================================================================
