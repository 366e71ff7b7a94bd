------------------------ MODULE EFObjectGraphProofs ------------------------
(***************************************************************************)
(* Proofs about EFObjectGraph, for every heap, every bound and every       *)
(* program the calls write.                                                *)
(*                                                                         *)
(* The counts alone are not inductive: whether a step keeps them depends   *)
(* on the program it belongs to. The invariant says therefore that what is *)
(* left of the program can be finished on some ground, that is, on what a  *)
(* program may rely on where it stands, and that this ground tells the     *)
(* truth about the heap. It comes in four parts: programs and grounds; the *)
(* heap between two steps; each step on its ground; the program of each    *)
(* call, from the ground the client offers. The theorems are at the end.   *)
(***************************************************************************)
EXTENDS EFObjectGraph, FiniteSetTheorems, SequenceTheorems, TLAPS

(* Clients give arrays the callbacks of objects.  With the default ones an *)
(* array does not keep its items: see the run group_default_callbacks.     *)
Retaining == Callbacks \subseteq {"object"}

(* Clients put only pages into arrays.  Arrays in arrays can be cyclic, and *)
(* a cycle is never freed.                                                 *)
OnlyPages == ItemKinds \subseteq {"page"}
-----------------------------------------------------------------------------
(* What a program may rely on where it stands: the objects the client      *)
(* holds and those the call owns, the addresses it has not used yet, its   *)
(* groups and files that have adopted nothing, its arrays that a group     *)
(* will adopt, who has what, and what is of which class.                   *)
Kinds    == {"page", "array", "group", "file"}
Releases == [op : {"release"}, r : Refs]
Steps ==
       [op : {"new"}, r : Refs, kind : Kinds, cap : Nat,
        callbacks : {"object", "default"}, fail : Seq(Releases)]
  \cup [op : {"insert"}, a : Refs, i : Nat, r : Refs, fail : Seq(Releases)]
  \cup [op : {"append"}, a : Refs, r : Refs, fail : Seq(Releases)]
  \cup [op : {"remove", "shift"}, a : Refs, i : Nat]
  \cup [op : {"adopt"}, a : Refs, r : Refs]
  \cup [op : {"freeze"}, a : Refs]
  \cup [op : {"keep", "release", "drop", "dealloc"}, r : Refs]

Grounds == [held : SUBSET Refs, own : SUBSET Refs, fresh : SUBSET Refs,
            bare : SUBSET Refs, priv : SUBSET Refs,
            has : SUBSET (Refs \X Refs), is : SUBSET (Refs \X Kinds)]

Owner(S, a) ==
  \/ a \in S.held \cup S.own
  \/ \E g \in S.held \cup S.own : <<g, a>> \in S.has
Reached(S, x) == Owner(S, x) \/ \E a \in Refs : Owner(S, a) /\ <<a, x>> \in S.has
Sound(S) ==
  /\ \A a, x \in Refs : <<a, x>> \in S.has => Owner(S, a)
  /\ \A r \in Refs, k \in Kinds : <<r, k>> \in S.is => Reached(S, r)
  /\ S.bare \subseteq S.own
  /\ S.priv \subseteq S.own

(* A sequence of releases that gives back just what is in X.               *)
Undoes(p, X) ==
  /\ p \in Seq(Releases)
  /\ \A k \in 1 .. Len(p) : p[k].r \in X
  /\ \A x \in X : \E k \in 1 .. Len(p) : p[k].r = x
  /\ \A j, k \in 1 .. Len(p) : p[j].r = p[k].r => j = k

(* The steps a program may take on ground S, and the ground T after them.  *)
Fewer(S, T) == T.held = S.held /\ T.fresh \subseteq S.fresh /\ T.priv \subseteq S.priv
NoMore(S, T) == Fewer(S, T) /\ T.has \subseteq S.has /\ T.is \subseteq S.is

AllowsNew(s, S, T) ==
  /\ s.r \in S.fresh
  /\ s.callbacks = IF s.kind = "array" THEN "object" ELSE "default"
  /\ Undoes(s.fail, S.own)
  /\ T.held = S.held /\ T.own = S.own \cup {s.r}
  /\ T.fresh \subseteq S.fresh \ {s.r}
  /\ T.has \subseteq S.has /\ T.is \subseteq S.is \cup {<<s.r, s.kind>>}
  /\ T.bare = S.bare \cup IF s.kind \in {"group", "file"} THEN {s.r} ELSE {}
  /\ T.priv \subseteq S.priv \cup IF s.kind = "array" THEN {s.r} ELSE {}

(* Only pages go where the array may be a group's.                         *)
AllowsPut(s, S, T) ==
  /\ <<s.a, "array">> \in S.is /\ Reached(S, s.r)
  /\ \/ <<s.r, "page">> \in S.is
     \/ /\ ~OnlyPages
        /\ s.a \in S.held \/ s.a \in S.own \ S.priv
        /\ s.r \in S.held \/ \E b \in Refs : <<b, "array">> \in S.is /\ <<b, s.r>> \in S.has
  /\ s.op = "insert" => s.i > 0
  /\ Undoes(s.fail, S.own)
  /\ Fewer(S, T) /\ T.own = S.own /\ T.bare = S.bare /\ T.is \subseteq S.is
  /\ T.has \subseteq S.has \cup {<<s.a, s.r>>}

AllowsTake(s, S, T) ==
  /\ <<s.a, "array">> \in S.is /\ \A x \in Refs : <<s.a, x>> \notin S.has
  /\ s.i > 0
  /\ T = S

AllowsAdopt(s, S, T) ==
  /\ s.a \in S.bare /\ s.r \in S.own
  /\ \/ <<s.a, "group">> \in S.is /\ s.r \in S.priv
     \/ <<s.a, "file">> \in S.is /\ <<s.r, "group">> \in S.is /\ s.r \notin S.bare
  /\ NoMore(S, T) /\ T.own = S.own \ {s.r} /\ T.bare = S.bare \ {s.a}

AllowsFreeze(s, S, T) == s.a \in S.own \ S.priv /\ <<s.a, "array">> \in S.is /\ T = S

AllowsKeep(s, S, T) ==
  /\ s.r \in S.own /\ s.r \notin S.priv \cup S.bare
  /\ NoMore(S, T) /\ T.own = S.own \ {s.r} /\ T.bare = S.bare

AllowsRelease(s, S, T) ==
  /\ s.r \in S.own
  /\ NoMore(S, T) /\ T.own = S.own \ {s.r} /\ T.bare = S.bare \ {s.r}

Allows(s, S, T) ==
  \/ s.op = "new" /\ AllowsNew(s, S, T)
  \/ s.op \in {"append", "insert"} /\ AllowsPut(s, S, T)
  \/ s.op \in {"remove", "shift"} /\ AllowsTake(s, S, T)
  \/ s.op = "adopt" /\ AllowsAdopt(s, S, T)
  \/ s.op = "freeze" /\ AllowsFreeze(s, S, T)
  \/ s.op = "keep" /\ AllowsKeep(s, S, T)
  \/ s.op = "release" /\ AllowsRelease(s, S, T)
  \/ s.op \in {"drop", "dealloc"} /\ T = S

(* A program that owns nothing when it is done: the grounds it passes.     *)
Passes(p, f) ==
  /\ f \in [1 .. Len(p) + 1 -> Grounds]
  /\ \A k \in 1 .. Len(p) + 1 : Sound(f[k])
  /\ \A k \in 1 .. Len(p) : Allows(p[k], f[k], f[k + 1])
  /\ f[Len(p) + 1].own = {}
Completes(p, S) == p \in Seq(Steps) /\ \E f : Passes(p, f) /\ f[1] = S
-----------------------------------------------------------------------------
LEMMA Emptied ==
  ASSUME NEW S \in Grounds, Sound(S), S.own = {}
  PROVE  Completes(<<>>, S)
<1> DEFINE f == [k \in 1 .. 1 |-> S]
<1>1. Len(<<>>) = 0 /\ <<>> \in Seq(Steps)  OBVIOUS
<1>2. f \in [1 .. 0 + 1 -> Grounds] /\ f[1] = S /\ \A k \in 1 .. 1 : f[k] = S  OBVIOUS
<1>3. Passes(<<>>, f)  BY <1>1, <1>2 DEF Passes
<1>4. QED  BY <1>1, <1>2, <1>3 DEF Completes

(* A program in front of another, ground by ground.                        *)
LEMMA Prefixed ==
  ASSUME NEW q \in Seq(Steps), NEW h \in [1 .. Len(q) + 1 -> Grounds],
         \A k \in 1 .. Len(q) : Sound(h[k]) /\ Allows(q[k], h[k], h[k + 1]),
         NEW p, Completes(p, h[Len(q) + 1])
  PROVE  Completes(q \o p, h[1])
<1> DEFINE m == Len(q)
           n == Len(p)
<1>1. p \in Seq(Steps) /\ \E g : Passes(p, g) /\ g[1] = h[m + 1]  BY DEF Completes
<1>2. PICK g : Passes(p, g) /\ g[1] = h[m + 1]  BY <1>1
<1>3. m \in Nat /\ n \in Nat  BY <1>1
<1>4. /\ q \o p \in Seq(Steps) /\ Len(q \o p) = m + n
      /\ \A k \in 1 .. m + n : (q \o p)[k] = IF k <= m THEN q[k] ELSE p[k - m]
  BY <1>1
<1> DEFINE f == [k \in 1 .. m + n + 1 |-> IF k <= m THEN h[k] ELSE g[k - m]]
<1>5. /\ g \in [1 .. n + 1 -> Grounds] /\ g[n + 1].own = {}
      /\ \A k \in 1 .. n + 1 : Sound(g[k])
      /\ \A k \in 1 .. n : Allows(p[k], g[k], g[k + 1])
  BY <1>2 DEF Passes
<1>6. \A k \in 1 .. m + 1 : k \in 1 .. m + n + 1 /\ f[k] = h[k]
  BY <1>2, <1>3
<1>7. \A k \in 1 .. n + 1 : m + k \in 1 .. m + n + 1 /\ f[m + k] = g[k]
  BY <1>3
<1>8. f \in [1 .. m + n + 1 -> Grounds]
  BY <1>3, <1>5
<1> HIDE DEF f, m, n
<1>9. \A k \in 1 .. m + n + 1 : k \in 1 .. m \/ (k - m \in 1 .. n + 1 /\ k = m + (k - m))
  BY <1>3
<1>10. \A k \in 1 .. m + n + 1 : Sound(f[k])
  <2> TAKE k \in 1 .. m + n + 1
  <2>1. CASE k \in 1 .. m
    BY <2>1, <1>3, <1>6 DEF m
  <2>2. CASE k - m \in 1 .. n + 1 /\ k = m + (k - m)
    BY <2>2, <1>5, <1>7
  <2>3. QED  BY <2>1, <2>2, <1>9
<1>11. \A k \in 1 .. m + n : Allows((q \o p)[k], f[k], f[k + 1])
  <2> TAKE k \in 1 .. m + n
  <2>1. CASE k \in 1 .. m
    <3>1. k \in 1 .. m + 1 /\ k + 1 \in 1 .. m + 1 /\ k <= m  BY <2>1, <1>3
    <3>2. f[k] = h[k] /\ f[k + 1] = h[k + 1]  BY <3>1, <1>6
    <3>3. (q \o p)[k] = q[k]  BY <3>1, <1>4
    <3>4. Allows(q[k], h[k], h[k + 1])  BY <2>1 DEF m
    <3>5. QED  BY <3>2, <3>3, <3>4
  <2>2. CASE k - m \in 1 .. n
    <3>1. /\ k - m \in 1 .. n + 1 /\ (k - m) + 1 \in 1 .. n + 1 /\ ~(k <= m)
          /\ m + (k - m) = k /\ m + ((k - m) + 1) = k + 1
      BY <2>2, <1>3
    <3>2. f[k] = g[k - m] /\ f[k + 1] = g[(k - m) + 1]  BY <3>1, <1>7
    <3>3. (q \o p)[k] = p[k - m]  BY <3>1, <1>4
    <3>4. Allows(p[k - m], g[k - m], g[(k - m) + 1])  BY <2>2, <1>5
    <3>5. QED  BY <3>2, <3>3, <3>4
  <2>3. k \in 1 .. m \/ k - m \in 1 .. n  BY <1>3
  <2>4. QED  BY ONLY <2>1, <2>2, <2>3
<1>12. f[m + n + 1].own = {}
  BY <1>3, <1>5, <1>7
<1>13. f[1] = h[1]
  BY <1>3, <1>6
<1>14. Passes(q \o p, f)
  BY <1>4, <1>8, <1>10, <1>11, <1>12 DEF Passes
<1>15. QED  BY <1>4, <1>13, <1>14 DEF Completes

(* Steps that leave the ground as it is.                                   *)
LEMMA Looping ==
  ASSUME NEW q \in Seq(Steps), NEW p, NEW S \in Grounds, Sound(S),
         \A k \in 1 .. Len(q) : Allows(q[k], S, S), Completes(p, S)
  PROVE  Completes(q \o p, S)
<1> DEFINE h == [k \in 1 .. Len(q) + 1 |-> S]
<1>1. h \in [1 .. Len(q) + 1 -> Grounds] /\ \A k \in 1 .. Len(q) + 1 : h[k] = S  OBVIOUS
<1>2. Len(q) \in Nat  OBVIOUS
<1> HIDE DEF h
<1>3. \A k \in 1 .. Len(q) : k \in 1 .. Len(q) + 1 /\ k + 1 \in 1 .. Len(q) + 1  BY <1>2
<1>4. \A k \in 1 .. Len(q) : Sound(h[k]) /\ Allows(q[k], h[k], h[k + 1])
  BY <1>1, <1>3
<1>5. h[1] = S /\ h[Len(q) + 1] = S  BY <1>1, <1>2
<1>6. QED  BY <1>1, <1>4, <1>5, Prefixed

LEMMA Proceeding ==
  ASSUME NEW p, NEW S, Completes(p, S), p # <<>>
  PROVE  /\ p \in Seq(Steps) /\ Head(p) \in Steps /\ S \in Grounds /\ Sound(S)
         /\ \E T \in Grounds : Sound(T) /\ Allows(Head(p), S, T) /\ Completes(Tail(p), T)
<1>1. PICK f : Passes(p, f) /\ f[1] = S  BY DEF Completes
<1>2. p \in Seq(Steps)  BY DEF Completes
<1> DEFINE n == Len(p) - 1
           g == [k \in 1 .. n + 1 |-> f[k + 1]]
<1>3. /\ Len(p) \in Nat /\ n \in Nat /\ Len(p) = n + 1 /\ Head(p) = p[1] /\ Head(p) \in Steps
      /\ Tail(p) \in Seq(Steps) /\ Len(Tail(p)) = n
      /\ \A k \in 1 .. n : Tail(p)[k] = p[k + 1]
  BY <1>2
<1>4. /\ f \in [1 .. n + 1 + 1 -> Grounds] /\ f[n + 1 + 1].own = {}
      /\ \A k \in 1 .. n + 1 + 1 : Sound(f[k])
      /\ \A k \in 1 .. n + 1 : Allows(p[k], f[k], f[k + 1])
  BY <1>1, <1>3 DEF Passes
<1>5. /\ \A k \in 1 .. n + 1 : k + 1 \in 1 .. n + 1 + 1 /\ g[k] = f[k + 1]
      /\ \A k \in 1 .. n : k + 1 \in 1 .. n + 1 /\ g[k + 1] = f[k + 1 + 1]
      /\ g \in [1 .. n + 1 -> Grounds]
  BY <1>3, <1>4
<1> HIDE DEF n, g
<1>6. Passes(Tail(p), g)
  <2>1. \A k \in 1 .. n + 1 : Sound(g[k])  BY <1>4, <1>5
  <2>2. \A k \in 1 .. n : Allows(Tail(p)[k], g[k], g[k + 1])
    <3> TAKE k \in 1 .. n
    <3>1. k + 1 \in 1 .. n + 1 /\ k \in 1 .. n + 1  BY <1>3
    <3>2. g[k] = f[k + 1] /\ g[k + 1] = f[k + 1 + 1] /\ Tail(p)[k] = p[k + 1]
      BY <3>1, <1>3, <1>5
    <3>3. QED  BY <3>1, <3>2, <1>4
  <2>3. n + 1 \in 1 .. n + 1  BY <1>3
  <2>4. QED  BY <2>1, <2>2, <2>3, <1>3, <1>4, <1>5 DEF Passes
<1>7. g[1] = f[1 + 1] /\ g[1] \in Grounds /\ Sound(g[1]) /\ S \in Grounds /\ Sound(S)
  BY <1>1, <1>3, <1>4, <1>5
<1>8. Allows(Head(p), S, g[1])  BY <1>1, <1>3, <1>4, <1>7
<1>9. Completes(Tail(p), g[1])  BY <1>3, <1>6 DEF Completes
<1>10. QED  BY <1>2, <1>3, <1>7, <1>8, <1>9

(* What is done when a step has failed.                                    *)
Bared(S) == [held |-> S.held, own |-> S.own, fresh |-> {}, bare |-> S.bare,
             priv |-> {}, has |-> {}, is |-> {}]

LEMMA Undoing ==
  ASSUME NEW S \in Grounds, Sound(S), NEW p, Undoes(p, S.own)
  PROVE  Completes(p, Bared(S)) /\ Bared(S) \in Grounds /\ Sound(Bared(S))
<1> DEFINE n == Len(p)
           Back(k) == {x \in S.own : \E j \in 1 .. n : j < k /\ p[j].r = x}
           h == [k \in 1 .. n + 1 |->
                   [held |-> S.held, own |-> S.own \ Back(k), fresh |-> {},
                    bare |-> S.bare \ Back(k), priv |-> {}, has |-> {}, is |-> {}]]
<1>1. /\ p \in Seq(Releases) /\ n \in Nat
      /\ \A k \in 1 .. n : p[k].op = "release" /\ p[k].r \in S.own /\ p[k].r \in Refs /\ p[k] \in Steps
      /\ \A x \in S.own : \E k \in 1 .. n : p[k].r = x
      /\ \A j, k \in 1 .. n : p[j].r = p[k].r => j = k
  <2>1. \A k \in 1 .. n : p[k] \in Releases  BY DEF Undoes
  <2>2. Releases \subseteq Steps  BY DEF Releases, Steps
  <2>3. \A s \in Releases : s.op = "release" /\ s.r \in Refs  BY DEF Releases
  <2>4. QED  BY <2>1, <2>2, <2>3 DEF Undoes
<1>2. p \in Seq(Steps)  BY <1>1
<1>3. S.bare \subseteq S.own /\ S.own \subseteq Refs /\ S.held \subseteq Refs  BY DEF Sound, Grounds
<1>4. h \in [1 .. n + 1 -> Grounds]
  BY <1>1, <1>3 DEF Grounds
<1>5. \A k \in 1 .. n + 1 :
        /\ h[k].held = S.held /\ h[k].own = S.own \ Back(k) /\ h[k].fresh = {}
        /\ h[k].bare = S.bare \ Back(k) /\ h[k].priv = {} /\ h[k].has = {} /\ h[k].is = {}
  OBVIOUS
<1>6. Back(1) = {}  BY <1>1
<1>7. Back(n + 1) = S.own  BY <1>1
<1>8. \A k \in 1 .. n : Back(k + 1) = Back(k) \cup {p[k].r} /\ p[k].r \notin Back(k)
  BY <1>1
<1> HIDE DEF Back, h
<1>9. \A k \in 1 .. n + 1 : Sound(h[k])
  BY <1>3, <1>5 DEF Sound
<1>10. \A k \in 1 .. n : Allows(p[k], h[k], h[k + 1])
  <2> TAKE k \in 1 .. n
  <2>1. k \in 1 .. n + 1 /\ k + 1 \in 1 .. n + 1  BY <1>1
  <2>2. AllowsRelease(p[k], h[k], h[k + 1])
    <3> DEFINE B == Back(k)
               C == Back(k + 1)
    <3>1. C = B \cup {p[k].r} /\ p[k].r \notin B /\ p[k].r \in S.own  BY <1>1, <1>8
    <3>2. h[k].own = S.own \ B /\ h[k].bare = S.bare \ B  BY <2>1, <1>5
    <3>3. h[k + 1].own = S.own \ C /\ h[k + 1].bare = S.bare \ C  BY <2>1, <1>5
    <3> HIDE DEF B, C
    <3>4. p[k].r \in h[k].own  BY <3>1, <3>2
    <3>5. h[k + 1].own = h[k].own \ {p[k].r}  BY <3>1, <3>2, <3>3
    <3>6. h[k + 1].bare = h[k].bare \ {p[k].r}  BY <3>1, <3>2, <3>3
    <3>7. NoMore(h[k], h[k + 1])  BY <2>1, <1>5 DEF NoMore, Fewer
    <3>8. QED  BY <3>4, <3>5, <3>6, <3>7 DEF AllowsRelease
  <2>3. QED  BY <2>2, <1>1 DEF Allows
<1>11. h[n + 1].own = {}  BY <1>1, <1>5, <1>7
<1>12. h[1] = Bared(S)
  <2>1. S.own \ {} = S.own /\ S.bare \ {} = S.bare  OBVIOUS
  <2>2. h[1] = [held |-> S.held, own |-> S.own \ Back(1), fresh |-> {},
                bare |-> S.bare \ Back(1), priv |-> {}, has |-> {}, is |-> {}]
    BY <1>1 DEF h
  <2>3. QED  BY <2>1, <2>2, <1>6 DEF Bared
<1>13. Completes(p, h[1])
  BY <1>2, <1>4, <1>9, <1>10, <1>11 DEF Completes, Passes
<1>14. h[1] \in Grounds /\ Sound(h[1])  BY <1>1, <1>4, <1>9
<1>15. QED  BY <1>12, <1>13, <1>14


-----------------------------------------------------------------------------
(* Counting.  What the arrays, groups and files A keep of x.               *)
Kept(A, its, x) == {pl \in A \X Nat : pl[2] \in 1 .. Len(its[pl[1]]) /\ its[pl[1]][pl[2]] = x}

LEMMA KeptFinite ==
  ASSUME NEW A \in SUBSET Refs, NEW its \in [Refs -> Seq(Refs)], NEW x
  PROVE  IsFiniteSet(Kept(A, its, x))
<1> DEFINE f == [a \in Refs |-> {a} \X (1 .. Len(its[a]))]
           W == {f[a] : a \in Refs}
<1>1. f \in Surjection(Refs, W)  BY DEF Surjection
<1>2. IsFiniteSet(W)  BY <1>1, FS_Surjection, RefsAssumption
<1>3. \A V \in W : IsFiniteSet(V)
  <2> SUFFICES ASSUME NEW a \in Refs PROVE IsFiniteSet({a} \X (1 .. Len(its[a])))
    OBVIOUS
  <2>1. IsFiniteSet({a})  BY FS_Singleton
  <2>2. Len(its[a]) \in Int  OBVIOUS
  <2>3. IsFiniteSet(1 .. Len(its[a]))  BY <2>2, FS_Interval
  <2>4. QED  BY <2>1, <2>3, FS_Product
<1>4. IsFiniteSet(UNION W)  BY <1>2, <1>3, FS_UNION
<1>5. Kept(A, its, x) \subseteq UNION W
  <2> SUFFICES ASSUME NEW a \in A, NEW i \in 1 .. Len(its[a])
               PROVE  <<a, i>> \in UNION W
    BY DEF Kept
  <2>1. <<a, i>> \in f[a] /\ f[a] \in W  OBVIOUS
  <2>2. QED  BY <2>1
<1>6. QED  BY <1>4, <1>5, FS_Subset

LEMMA SameCount ==
  ASSUME NEW K, NEW L, IsFiniteSet(K), NEW f \in [K -> L],
         \A x, y \in K : f[x] = f[y] => x = y,
         \A z \in L : \E x \in K : f[x] = z
  PROVE  IsFiniteSet(L) /\ Cardinality(L) = Cardinality(K)
<1>1. f \in Injection(K, L)  BY DEF Injection, IsInjective
<1>2. f \in Surjection(K, L)  BY DEF Surjection
<1>3. f \in Bijection(K, L)  BY <1>1, <1>2 DEF Bijection
<1>4. ExistsBijection(K, L)  BY <1>3 DEF ExistsBijection
<1>5. QED  BY <1>4, FS_Bijection

LEMMA Joined ==
  ASSUME NEW u \in Seq(Refs), NEW v \in Seq(Refs)
  PROVE  /\ u \o v \in Seq(Refs) /\ Len(u \o v) = Len(u) + Len(v)
         /\ \A j \in 1 .. Len(u) : (u \o v)[j] = u[j]
         /\ \A j \in 1 .. Len(v) : (u \o v)[Len(u) + j] = v[j]
  OBVIOUS

LEMMA Inserted ==
  ASSUME NEW s \in Seq(Refs), NEW r \in Refs, NEW i \in 1 .. Len(s) + 1
  PROVE  /\ InsertAt(s, i, r) \in Seq(Refs)
         /\ Len(InsertAt(s, i, r)) = Len(s) + 1
         /\ \A j \in 1 .. Len(s) + 1 :
              InsertAt(s, i, r)[j] = IF j < i THEN s[j] ELSE IF j = i THEN r ELSE s[j - 1]
<1> DEFINE u == SubSeq(s, 1, i - 1)
           v == SubSeq(s, i, Len(s))
<1>1. /\ u \in Seq(Refs) /\ Len(u) = i - 1 /\ \A j \in 1 .. i - 1 : u[j] = s[j]
  OBVIOUS
<1>2. /\ v \in Seq(Refs) /\ Len(v) = Len(s) - i + 1
      /\ \A j \in 1 .. Len(s) - i + 1 : v[j] = s[i + j - 1]
  OBVIOUS
<1>3. InsertAt(s, i, r) = u \o <<r>> \o v  BY DEF InsertAt
<1> HIDE DEF u, v
<1>4. /\ u \o <<r>> \in Seq(Refs) /\ Len(u \o <<r>>) = i
      /\ \A j \in 1 .. i : (u \o <<r>>)[j] = IF j < i THEN s[j] ELSE r
  BY <1>1
<1> DEFINE w == u \o <<r>>
<1>5. /\ w \o v \in Seq(Refs) /\ Len(w \o v) = Len(s) + 1
      /\ \A j \in 1 .. i : (w \o v)[j] = w[j]
      /\ \A j \in 1 .. Len(s) - i + 1 : (w \o v)[i + j] = v[j]
  <2> HIDE DEF w
  <2>1. w \in Seq(Refs) /\ Len(w) = i  BY <1>4 DEF w
  <2>2. i + (Len(s) - i + 1) = Len(s) + 1  OBVIOUS
  <2>3. QED  BY <2>1, <2>2, <1>2, Joined
<1> HIDE DEF w
<1>6. \A j \in 1 .. Len(s) + 1 : (w \o v)[j] = IF j < i THEN s[j] ELSE IF j = i THEN r ELSE s[j - 1]
  <2> TAKE j \in 1 .. Len(s) + 1
  <2>1. CASE j <= i
    BY <2>1, <1>4, <1>5 DEF w
  <2>2. CASE j > i
    <3>1. j - i \in 1 .. Len(s) - i + 1 /\ i + (j - i) - 1 = j - 1 /\ i + (j - i) = j
      BY <2>2
    <3>2. (w \o v)[j] = v[j - i]  BY <3>1, <1>5
    <3>3. v[j - i] = s[j - 1]  BY <3>1, <1>2
    <3>4. QED  BY <2>2, <3>2, <3>3
  <2>3. j <= i \/ j > i  OBVIOUS
  <2>4. QED  BY ONLY <2>1, <2>2, <2>3
<1>7. QED  BY <1>3, <1>5, <1>6 DEF w

LEMMA InsertedEach ==
  \A s \in Seq(Refs), r \in Refs, i \in Nat : i \in 1 .. Len(s) + 1 =>
    /\ InsertAt(s, i, r) \in Seq(Refs)
    /\ Len(InsertAt(s, i, r)) = Len(s) + 1
    /\ \A j \in 1 .. Len(s) + 1 :
         InsertAt(s, i, r)[j] = IF j < i THEN s[j] ELSE IF j = i THEN r ELSE s[j - 1]
  BY Inserted

LEMMA Removed ==
  ASSUME NEW s \in Seq(Refs), NEW i \in 1 .. Len(s)
  PROVE  /\ RemoveAt(s, i) \in Seq(Refs)
         /\ Len(RemoveAt(s, i)) = Len(s) - 1
         /\ \A j \in 1 .. Len(s) - 1 : RemoveAt(s, i)[j] = IF j < i THEN s[j] ELSE s[j + 1]
<1> DEFINE u == SubSeq(s, 1, i - 1)
           v == SubSeq(s, i + 1, Len(s))
<1>1. /\ u \in Seq(Refs) /\ Len(u) = i - 1 /\ \A j \in 1 .. i - 1 : u[j] = s[j]
  OBVIOUS
<1>2. /\ v \in Seq(Refs) /\ Len(v) = Len(s) - i
      /\ \A j \in 1 .. Len(s) - i : v[j] = s[i + j]
  OBVIOUS
<1>3. RemoveAt(s, i) = u \o v  BY DEF RemoveAt
<1> HIDE DEF u, v
<1>4. /\ u \o v \in Seq(Refs) /\ Len(u \o v) = Len(s) - 1
      /\ \A j \in 1 .. i - 1 : (u \o v)[j] = u[j]
      /\ \A j \in 1 .. Len(s) - i : (u \o v)[i - 1 + j] = v[j]
  <2>1. (i - 1) + (Len(s) - i) = Len(s) - 1  OBVIOUS
  <2>2. /\ u \o v \in Seq(Refs) /\ Len(u \o v) = Len(u) + Len(v)
        /\ \A j \in 1 .. Len(u) : (u \o v)[j] = u[j]
        /\ \A j \in 1 .. Len(v) : (u \o v)[Len(u) + j] = v[j]
    BY <1>1, <1>2, Joined
  <2>3. QED  BY <2>1, <2>2, <1>1, <1>2
<1>5. \A j \in 1 .. Len(s) - 1 : (u \o v)[j] = IF j < i THEN s[j] ELSE s[j + 1]
  <2> TAKE j \in 1 .. Len(s) - 1
  <2>1. CASE j < i
    BY <2>1, <1>1, <1>4
  <2>2. CASE j >= i
    <3>1. /\ j - (i - 1) \in 1 .. Len(s) - i /\ i + (j - (i - 1)) = j + 1
          /\ i - 1 + (j - (i - 1)) = j
      BY <2>2
    <3>2. (u \o v)[j] = v[j - (i - 1)]  BY <3>1, <1>4
    <3>3. v[j - (i - 1)] = s[j + 1]  BY <3>1, <1>2
    <3>4. QED  BY <2>2, <3>2, <3>3
  <2>3. j < i \/ j >= i  OBVIOUS
  <2>4. QED  BY ONLY <2>1, <2>2, <2>3
<1>6. QED  BY <1>3, <1>4, <1>5


(* Places of a from the i-th on move up by one.                            *)
LEMMA Spread ==
  ASSUME NEW K \in SUBSET (Refs \X Nat), NEW L \in SUBSET (Refs \X Nat), IsFiniteSet(K),
         NEW a \in Refs, NEW i \in Nat, <<a, i>> \notin L,
         \A b \in Refs, j \in Nat : b # a \/ j < i => (<<b, j>> \in K <=> <<b, j>> \in L),
         \A j \in Nat : j >= i => (<<a, j>> \in K <=> <<a, j + 1>> \in L)
  PROVE  IsFiniteSet(L) /\ Cardinality(L) = Cardinality(K)
<1> DEFINE f == [pl \in K |-> IF pl[1] = a /\ pl[2] >= i THEN <<a, pl[2] + 1>> ELSE pl]
<1>1. \A b \in Refs, j \in Nat : <<b, j>> \in K =>
        f[<<b, j>>] = IF b = a /\ j >= i THEN <<a, j + 1>> ELSE <<b, j>>
  OBVIOUS
<1>2. \A pl \in K : pl \in Refs \X Nat /\ pl = <<pl[1], pl[2]>> /\ pl[1] \in Refs /\ pl[2] \in Nat
  OBVIOUS
<1>3. \A pl \in L : pl \in Refs \X Nat /\ pl = <<pl[1], pl[2]>> /\ pl[1] \in Refs /\ pl[2] \in Nat
  OBVIOUS
<1>4. \A b \in Refs, j \in Nat : <<b, j>> \in K => f[<<b, j>>] \in L
  <2> TAKE b \in Refs, j \in Nat
  <2> HAVE <<b, j>> \in K
  <2>1. CASE b = a /\ j >= i
    BY <2>1, <1>1
  <2>2. CASE ~(b = a /\ j >= i)
    BY <2>2, <1>1
  <2>3. QED  BY <2>1, <2>2
<1>5. \A pl \in K : f[pl] \in L
  <2> TAKE pl \in K
  <2>1. f[<<pl[1], pl[2]>>] \in L  BY <1>2, <1>4
  <2>2. QED  BY <2>1, <1>2
<1>6. f \in [K -> L]  BY <1>5
<1>7. \A b, c \in Refs, j, k \in Nat :
        /\ <<b, j>> \in K /\ <<c, k>> \in K /\ f[<<b, j>>] = f[<<c, k>>]
        => b = c /\ j = k
  <2> TAKE b, c \in Refs, j, k \in Nat
  <2> HAVE /\ <<b, j>> \in K /\ <<c, k>> \in K /\ f[<<b, j>>] = f[<<c, k>>]
  <2> DEFINE up(d, l) == d = a /\ l >= i
  <2>1. /\ up(b, j) => f[<<b, j>>] = <<a, j + 1>>
        /\ ~up(b, j) => f[<<b, j>>] = <<b, j>>
        /\ up(c, k) => f[<<c, k>>] = <<a, k + 1>>
        /\ ~up(c, k) => f[<<c, k>>] = <<c, k>>
    BY <1>1
  <2> HIDE DEF f
  <2>2. CASE up(b, j) /\ up(c, k)
    <3>1. <<a, j + 1>> = <<a, k + 1>>  BY <2>1, <2>2
    <3>2. j + 1 = k + 1  BY <3>1
    <3>3. QED  BY <2>2, <3>2
  <2>3. CASE up(b, j) /\ ~up(c, k)
    <3>1. <<a, j + 1>> = <<c, k>>  BY <2>1, <2>3
    <3>2. c = a /\ k = j + 1  BY <3>1
    <3>3. QED  BY <2>3, <3>2
  <2>4. CASE ~up(b, j) /\ up(c, k)
    <3>1. <<b, j>> = <<a, k + 1>>  BY <2>1, <2>4
    <3>2. b = a /\ j = k + 1  BY <3>1
    <3>3. QED  BY <2>4, <3>2
  <2>5. CASE ~up(b, j) /\ ~up(c, k)
    BY <2>1, <2>5
  <2>6. QED  BY <2>2, <2>3, <2>4, <2>5
<1>8. \A x, y \in K : f[x] = f[y] => x = y
  <2> TAKE x, y \in K
  <2> HAVE f[x] = f[y]
  <2>1. x = <<x[1], x[2]>> /\ y = <<y[1], y[2]>>  BY <1>2
  <2>2. f[<<x[1], x[2]>>] = f[<<y[1], y[2]>>]  BY <2>1
  <2> DEFINE b == x[1]
             j == x[2]
             c == y[1]
             k == y[2]
  <2>3. /\ b \in Refs /\ j \in Nat /\ c \in Refs /\ k \in Nat
        /\ <<b, j>> \in K /\ <<c, k>> \in K /\ f[<<b, j>>] = f[<<c, k>>]
    BY <2>1, <2>2, <1>2
  <2> HIDE DEF b, c, j, k, f
  <2>4. b = c /\ j = k  BY <2>3, <1>7
  <2>5. x = <<b, j>> /\ y = <<c, k>>  BY <2>1 DEF b, c, j, k
  <2>6. QED  BY <2>4, <2>5
<1>9. \A z \in L : \E x \in K : f[x] = z
  <2> TAKE z \in L
  <2> DEFINE b == z[1]
             j == z[2]
  <2>1. b \in Refs /\ j \in Nat /\ z = <<b, j>>  BY <1>3
  <2> HIDE DEF f, b, j
  <2>2. CASE b = a /\ j > i
    <3>1. j - 1 \in Nat /\ j - 1 >= i /\ j - 1 + 1 = j  BY <2>1, <2>2
    <3>2. <<a, j - 1>> \in K  BY <2>1, <2>2, <3>1
    <3>3. f[<<a, j - 1>>] = <<a, j>>  BY <3>1, <3>2, <1>1
    <3>4. QED  BY <2>1, <2>2, <3>2, <3>3
  <2>3. CASE b # a \/ j < i
    <3>1. <<b, j>> \in K  BY <2>1, <2>3
    <3>2. ~(b = a /\ j >= i)  BY <2>1, <2>3
    <3>3. f[<<b, j>>] = <<b, j>>  BY <2>1, <3>1, <3>2, <1>1
    <3>4. QED  BY <2>1, <3>1, <3>3
  <2>4. ~(b = a /\ j = i)  BY <2>1
  <2>5. (b = a /\ j > i) \/ b # a \/ j < i  BY <2>1, <2>4
  <2>6. QED  BY <2>2, <2>3, <2>5
<1> HIDE DEF f
<1>10. QED  BY <1>6, <1>8, <1>9, SameCount

Spreads(K, L, a, i) ==
  /\ \A b \in Refs, j \in Nat : b # a \/ j < i => (<<b, j>> \in K <=> <<b, j>> \in L)
  /\ \A j \in Nat : j >= i => (<<a, j>> \in K <=> <<a, j + 1>> \in L)
  /\ <<a, i>> \notin L

LEMMA SpreadCount ==
  \A K, L \in SUBSET (Refs \X Nat), a \in Refs, i \in Nat :
    IsFiniteSet(K) /\ Spreads(K, L, a, i) => Cardinality(L) = Cardinality(K)
<1> TAKE K, L \in SUBSET (Refs \X Nat), a \in Refs, i \in Nat
<1> HAVE IsFiniteSet(K) /\ Spreads(K, L, a, i)
<1> QED BY Spread DEF Spreads

Tables == [Refs -> Seq(Refs)]
Widens(its, its2, a, i, r) ==
  /\ a \in Refs /\ r \in Refs /\ i \in 1 .. Len(its[a]) + 1
  /\ its2[a] = InsertAt(its[a], i, r) /\ \A b \in Refs : b # a => its2[b] = its[b]
Narrows(its, its2, a, i) ==
  /\ a \in Refs /\ i \in 1 .. Len(its[a])
  /\ its2[a] = RemoveAt(its[a], i) /\ \A b \in Refs : b # a => its2[b] = its[b]

LEMMA Widened ==
  ASSUME NEW A \in SUBSET Refs, NEW its \in Tables, NEW its2 \in Tables, NEW x,
         NEW a \in A, NEW i, NEW r, Widens(its, its2, a, i, r)
  PROVE  /\ x = r => Cardinality(Kept(A, its2, x)) = Cardinality(Kept(A, its, x)) + 1
         /\ x # r => Cardinality(Kept(A, its2, x)) = Cardinality(Kept(A, its, x))
<1> DEFINE K == Kept(A, its, x)
           K2 == Kept(A, its2, x)
           L == K2 \ {<<a, i>>}
<1>1. /\ a \in Refs /\ i \in Nat /\ its[a] \in Seq(Refs) /\ r \in Refs
      /\ i \in 1 .. Len(its[a]) + 1
  BY DEF Widens, Tables
<1> DEFINE n == Len(its[a])
<1>2. n \in Nat  BY <1>1
<1>3. /\ its2[a] \in Seq(Refs) /\ Len(its2[a]) = n + 1
      /\ \A j \in 1 .. n + 1 :
           its2[a][j] = IF j < i THEN its[a][j] ELSE IF j = i THEN r ELSE its[a][j - 1]
  <2>1. its2[a] = InsertAt(its[a], i, r)  BY DEF Widens
  <2>2. /\ InsertAt(its[a], i, r) \in Seq(Refs) /\ Len(InsertAt(its[a], i, r)) = n + 1
        /\ \A j \in 1 .. n + 1 : InsertAt(its[a], i, r)[j] =
             IF j < i THEN its[a][j] ELSE IF j = i THEN r ELSE its[a][j - 1]
    <3> DEFINE s == its[a]
    <3>1. s \in Seq(Refs) /\ i \in 1 .. Len(s) + 1 /\ r \in Refs /\ i \in Nat  BY <1>1
    <3> HIDE DEF s
    <3>2. /\ InsertAt(s, i, r) \in Seq(Refs) /\ Len(InsertAt(s, i, r)) = Len(s) + 1
          /\ \A j \in 1 .. Len(s) + 1 : InsertAt(s, i, r)[j] =
               IF j < i THEN s[j] ELSE IF j = i THEN r ELSE s[j - 1]
      BY ONLY <3>1, InsertedEach, Zenon
    <3>3. QED  BY ONLY <3>2 DEF s
  <2>3. QED  BY <2>1, <2>2
<1>4. \A b \in Refs : b # a => its2[b] = its[b]  BY DEF Widens
<1>6. IsFiniteSet(K) /\ IsFiniteSet(K2)  BY KeptFinite DEF Tables
<1>7. K \in SUBSET (Refs \X Nat) /\ K2 \in SUBSET (Refs \X Nat) /\ L \in SUBSET (Refs \X Nat)
  BY DEF Kept
<1>8. \A b \in Refs, j \in Nat :
        /\ <<b, j>> \in K <=> b \in A /\ j \in 1 .. Len(its[b]) /\ its[b][j] = x
        /\ <<b, j>> \in K2 <=> b \in A /\ j \in 1 .. Len(its2[b]) /\ its2[b][j] = x
  BY DEF Kept
<1> HIDE DEF K, K2, n
<1>9. \A b \in Refs, j \in Nat : b # a \/ j < i => (<<b, j>> \in K <=> <<b, j>> \in L)
  <2> TAKE b \in Refs, j \in Nat
  <2>1. CASE b # a
    BY <2>1, <1>4, <1>8
  <2>2. CASE b = a /\ j < i
    <3>1. j \in 1 .. n <=> j \in 1 .. n + 1  BY <2>2, <1>1, <1>2 DEF n
    <3>2. j \in 1 .. n => its2[a][j] = its[a][j]  BY <2>2, <3>1, <1>3
    <3>3. <<a, j>> # <<a, i>>  BY <2>2, <1>1
    <3>4. QED  BY <2>2, <3>1, <3>2, <3>3, <1>1, <1>3, <1>8 DEF n
  <2>3. QED  BY <2>1, <2>2
<1>10. \A j \in Nat : j >= i => (<<a, j>> \in K <=> <<a, j + 1>> \in L)
  <2> TAKE j \in Nat
  <2> HAVE j >= i
  <2>1. i \in Nat /\ i >= 1 /\ j >= 1 /\ j + 1 \in Nat /\ j + 1 # i /\ ~(j + 1 < i) /\ j + 1 - 1 = j
    BY <1>1
  <2>2. j \in 1 .. n <=> j + 1 \in 1 .. n + 1  BY <2>1, <1>2
  <2>3. j + 1 \in 1 .. n + 1 => its2[a][j + 1] = its[a][j]
    <3> DEFINE m == j + 1
    <3>1. ~(m < i) /\ m # i /\ m - 1 = j  BY <2>1
    <3> HIDE DEF m
    <3>2. m \in 1 .. n + 1 => its2[a][m] = its[a][m - 1]  BY <3>1, <1>3
    <3>3. QED  BY <3>1, <3>2 DEF m
  <2>4. <<a, j + 1>> # <<a, i>>  BY <2>1
  <2>5. QED  BY <2>1, <2>2, <2>3, <2>4, <1>1, <1>3, <1>8 DEF n
<1>11. <<a, i>> \notin L  OBVIOUS
<1>12. Cardinality(L) = Cardinality(K)
  <2> HIDE DEF L
  <2>1. IsFiniteSet(K) /\ K \in SUBSET (Refs \X Nat) /\ L \in SUBSET (Refs \X Nat)
    BY <1>6, <1>7
  <2>2. a \in Refs /\ i \in Nat  BY <1>1
  <2>3. Spreads(K, L, a, i)  BY ONLY <1>9, <1>10, <1>11 DEF Spreads
  <2>4. QED  BY ONLY <2>1, <2>2, <2>3, SpreadCount
<1>13. <<a, i>> \in K2 <=> x = r
  <2>1. i \in 1 .. n + 1 /\ ~(i < i)  BY <1>1, <1>2 DEF n
  <2>2. its2[a][i] = r  BY <2>1, <1>3
  <2>3. QED  BY <2>1, <2>2, <1>1, <1>3, <1>8
<1>14. Cardinality(L) = IF <<a, i>> \in K2 THEN Cardinality(K2) - 1 ELSE Cardinality(K2)
  BY <1>6, FS_RemoveElement
<1>15. Cardinality(K) \in Nat /\ Cardinality(K2) \in Nat  BY <1>6, FS_CardinalityType
<1>16. /\ x = r => Cardinality(K2) = Cardinality(K) + 1
       /\ x # r => Cardinality(K2) = Cardinality(K)
  BY <1>12, <1>13, <1>14, <1>15
<1>17. QED  BY <1>16 DEF K, K2

LEMMA Narrowed ==
  ASSUME NEW A \in SUBSET Refs, NEW its \in Tables, NEW its2 \in Tables, NEW x,
         NEW a \in A, NEW i, Narrows(its, its2, a, i)
  PROVE  Cardinality(Kept(A, its2, x)) = Cardinality(Kept(A, its, x) \ {<<a, i>>})
<1> DEFINE K == Kept(A, its, x)
           K2 == Kept(A, its2, x)
           L == K \ {<<a, i>>}
<1>1. a \in Refs /\ i \in Nat /\ its[a] \in Seq(Refs) /\ i \in 1 .. Len(its[a])
  BY DEF Narrows, Tables
<1> DEFINE n == Len(its[a])
<1>2. n \in Nat  BY <1>1
<1>3. /\ its2[a] \in Seq(Refs) /\ Len(its2[a]) = n - 1
      /\ \A j \in 1 .. n - 1 : its2[a][j] = IF j < i THEN its[a][j] ELSE its[a][j + 1]
  BY <1>1, Removed DEF Narrows
<1>4. \A b \in Refs : b # a => its2[b] = its[b]  BY DEF Narrows
<1>6. IsFiniteSet(K) /\ IsFiniteSet(K2)  BY KeptFinite DEF Tables
<1>7. K \in SUBSET (Refs \X Nat) /\ K2 \in SUBSET (Refs \X Nat) /\ L \in SUBSET (Refs \X Nat)
  BY DEF Kept
<1>8. \A b \in Refs, j \in Nat :
        /\ <<b, j>> \in K <=> b \in A /\ j \in 1 .. Len(its[b]) /\ its[b][j] = x
        /\ <<b, j>> \in K2 <=> b \in A /\ j \in 1 .. Len(its2[b]) /\ its2[b][j] = x
  BY DEF Kept
<1> HIDE DEF K, K2, n
<1>9. \A b \in Refs, j \in Nat : b # a \/ j < i => (<<b, j>> \in K2 <=> <<b, j>> \in L)
  <2> TAKE b \in Refs, j \in Nat
  <2>1. CASE b # a
    BY <2>1, <1>4, <1>8
  <2>2. CASE b = a /\ j < i
    <3>1. j \in 1 .. n <=> j \in 1 .. n - 1  BY <2>2, <1>1, <1>2 DEF n
    <3>2. j \in 1 .. n => its2[a][j] = its[a][j]  BY <2>2, <3>1, <1>3
    <3>3. <<a, j>> # <<a, i>>  BY <2>2, <1>1
    <3>4. QED  BY <2>2, <3>1, <3>2, <3>3, <1>1, <1>3, <1>8 DEF n
  <2>3. QED  BY <2>1, <2>2
<1>10. \A j \in Nat : j >= i => (<<a, j>> \in K2 <=> <<a, j + 1>> \in L)
  <2> TAKE j \in Nat
  <2> HAVE j >= i
  <2>1. i \in Nat /\ i >= 1 /\ j >= 1 /\ j + 1 \in Nat /\ j + 1 # i /\ ~(j < i)
    BY <1>1
  <2>2. j \in 1 .. n - 1 <=> j + 1 \in 1 .. n  BY <2>1, <1>2
  <2>3. j \in 1 .. n - 1 => its2[a][j] = its[a][j + 1]  BY <2>1, <1>3
  <2>4. <<a, j + 1>> # <<a, i>>  BY <2>1
  <2>5. QED  BY <2>1, <2>2, <2>3, <2>4, <1>1, <1>3, <1>8 DEF n
<1>11. <<a, i>> \notin L  OBVIOUS
<1>12. Cardinality(L) = Cardinality(K2)
  <2> HIDE DEF L
  <2>1. IsFiniteSet(K2) /\ K2 \in SUBSET (Refs \X Nat) /\ L \in SUBSET (Refs \X Nat)
    BY <1>6, <1>7
  <2>2. a \in Refs /\ i \in Nat  BY <1>1
  <2>3. Spreads(K2, L, a, i)  BY ONLY <1>9, <1>10, <1>11 DEF Spreads
  <2>4. QED  BY ONLY <2>1, <2>2, <2>3, SpreadCount
<1>13. QED  BY <1>12 DEF K, K2


-----------------------------------------------------------------------------
(* What holds of the heap at every step.  An object that is not there is   *)
(* not counted; one that is there and has no count is being torn down, and *)
(* todo deallocates it, once; what is torn down comes before a removal, and *)
(* that before the rest of the call; an array keeps its items.             *)
Typed == TypeOK /\ todo \in Seq(Steps)
Tears(k) == todo[k].op \in {"drop", "dealloc"}
Buries(k, r) == todo[k].op = "dealloc" /\ todo[k].r = r

Unburied ==
  /\ \A r \in Refs : ~Live(r) => refcount[r] = 0
  /\ \A r \in Refs : (Live(r) /\ refcount[r] = 0) <=> \E k \in 1 .. Len(todo) : Buries(k, r)
  /\ \A r \in Refs, j, k \in 1 .. Len(todo) : Buries(j, r) /\ Buries(k, r) => j = k
ArraysRetain == \A r \in Refs : Live(r) => (callbacks[r] = "object" <=> kind[r] = "array")
Stacked ==
  \A j, k \in 1 .. Len(todo) :
    j < k /\ (Tears(k) \/ todo[k].op = "shift") => Tears(j)

Holders     == {a \in Refs : Keeping(a)}
Place(a, i) == a \in Holders /\ i \in 1 .. Len(items[a]) /\ ~Leaving(a, i)
ArraysOfPages ==
  OnlyPages => \A a \in Refs, i \in Nat :
                 kind[a] = "array" /\ Place(a, i) => kind[items[a][i]] = "page"

Heaped == Typed /\ RefsAccounted /\ Unburied /\ ArraysRetain /\ Stacked /\ ArraysOfPages

(* That ground S tells the truth about the heap.  An array is private when *)
(* one reference to it is all there is, and that is not a client's.        *)
PrivateArray(a) ==
  /\ kind[a] = "array" /\ isMutable[a] /\ refcount[a] = 1 /\ client[a] = 0
  /\ \A i \in Nat : Place(a, i) => kind[items[a][i]] = "page"
Item(a, i, x) ==
  Live(a) /\ Retains(a) /\ i \in 1 .. Len(items[a]) /\ ~Leaving(a, i) /\ items[a][i] = x

Grounded(S) ==
  /\ S \in Grounds
  /\ \A r \in Refs : local[r] = IF r \in S.own THEN 1 ELSE 0
  /\ \A r \in S.fresh : ~Live(r)
  /\ \A r \in S.held : client[r] > 0
  /\ \A a, x \in Refs : <<a, x>> \in S.has => \E i \in Nat : Item(a, i, x)
  /\ \A r \in Refs, k \in Kinds : <<r, k>> \in S.is => kind[r] = k
  /\ \A r \in S.bare : kind[r] \in {"group", "file"} /\ items[r] = <<>> /\ refcount[r] = 1
  /\ \A r \in S.priv : PrivateArray(r)
  /\ \A k \in 1 .. Len(todo) : todo[k].op = "shift" =>
       /\ <<todo[k].a, "array">> \in S.is /\ \A x \in Refs : <<todo[k].a, x>> \notin S.has
       /\ todo[k].i \in 1 .. Len(items[todo[k].a])
GroupsOwn(S) ==
  \A g \in Refs : kind[g] = "group" /\ refcount[g] > 0 /\ g \notin S.bare =>
    Len(items[g]) = 1 /\ PrivateArray(items[g][1])
FilesOwn(S) ==
  \A f \in Refs : kind[f] = "file" /\ refcount[f] > 0 /\ f \notin S.bare =>
    /\ Len(items[f]) = 1
    /\ kind[items[f][1]] = "group" /\ items[f][1] \notin S.bare
Holds(S) == Grounded(S) /\ GroupsOwn(S) /\ FilesOwn(S)

IInv == Heaped /\ \E S : Holds(S) /\ Completes(todo, S)
-----------------------------------------------------------------------------
(* The places that keep, and the counts.                                   *)
LEMMA StepFields ==
  \A s \in Steps :
    /\ s.op \in {"new", "append", "insert", "remove", "shift", "adopt", "freeze", "keep",
                 "release", "drop", "dealloc"}
    /\ s.op = "new" => /\ s.r \in Refs /\ s.kind \in Kinds /\ s.cap \in Nat
                       /\ s.callbacks \in {"object", "default"} /\ s.fail \in Seq(Releases)
    /\ s.op = "insert" => s.a \in Refs /\ s.i \in Nat /\ s.r \in Refs /\ s.fail \in Seq(Releases)
    /\ s.op = "append" => s.a \in Refs /\ s.r \in Refs /\ s.fail \in Seq(Releases)
    /\ s.op \in {"remove", "shift"} => s.a \in Refs /\ s.i \in Nat
    /\ s.op = "adopt" => s.a \in Refs /\ s.r \in Refs
    /\ s.op = "freeze" => s.a \in Refs
    /\ s.op \in {"keep", "release", "drop", "dealloc"} => s.r \in Refs
<1> TAKE s \in Steps
<1>1. CASE s \in [op : {"new"}, r : Refs, kind : Kinds, cap : Nat,
                  callbacks : {"object", "default"}, fail : Seq(Releases)]
  BY <1>1
<1>2. CASE s \in [op : {"insert"}, a : Refs, i : Nat, r : Refs, fail : Seq(Releases)]
  BY <1>2
<1>3. CASE s \in [op : {"append"}, a : Refs, r : Refs, fail : Seq(Releases)]
  BY <1>3
<1>4. CASE s \in [op : {"remove", "shift"}, a : Refs, i : Nat]
  BY <1>4
<1>5. CASE s \in [op : {"adopt"}, a : Refs, r : Refs]
  BY <1>5
<1>6. CASE s \in [op : {"freeze"}, a : Refs]
  BY <1>6
<1>7. CASE s \in [op : {"keep", "release", "drop", "dealloc"}, r : Refs]
  BY <1>7
<1>8. QED  BY <1>1, <1>2, <1>3, <1>4, <1>5, <1>6, <1>7 DEF Steps

LEMMA ItemsAreRefs ==
  TypeOK => \A a \in Refs :
    /\ items[a] \in Seq(Refs) /\ Len(items[a]) \in Nat
    /\ \A i \in Nat : i \in 1 .. Len(items[a]) => items[a][i] \in Refs
    /\ Len(items[a]) = 1 => items[a][1] \in Refs
<1> SUFFICES ASSUME TypeOK, NEW a \in Refs
             PROVE  /\ items[a] \in Seq(Refs) /\ Len(items[a]) \in Nat
                    /\ \A i \in Nat : i \in 1 .. Len(items[a]) => items[a][i] \in Refs
                    /\ Len(items[a]) = 1 => items[a][1] \in Refs
  OBVIOUS
<1>1. items[a] \in Seq(Refs)  BY DEF TypeOK
<1>2. Len(items[a]) \in Nat /\ \A i \in 1 .. Len(items[a]) : items[a][i] \in Refs  BY <1>1
<1>3. QED  BY <1>1, <1>2

LEMMA PlacesAre ==
  TypeOK => /\ Places \subseteq Refs \X Nat
            /\ \A a \in Refs, i \in Nat : <<a, i>> \in Places <=> Place(a, i)
<1> SUFFICES ASSUME TypeOK
             PROVE  /\ Places \subseteq Refs \X Nat
                    /\ \A a \in Refs, i \in Nat : <<a, i>> \in Places <=> Place(a, i)
  OBVIOUS
<1>1. \A pl : pl \in Places <=>
        \E a \in Holders : \E i \in 1 .. Len(items[a]) : ~Leaving(a, i) /\ pl = <<a, i>>
  BY DEF Places, Holders
<1>2. \A a \in Holders : a \in Refs /\ \A i \in 1 .. Len(items[a]) : i \in Nat  BY DEF Holders
<1>3. QED  BY <1>1, <1>2 DEF Place

LEMMA KeepersAre ==
  TypeOK => \A x \in Refs :
    /\ Keepers(x) = {pl \in Kept(Holders, items, x) : ~Leaving(pl[1], pl[2])}
    /\ IsFiniteSet(Keepers(x))
    /\ Keepers(x) \subseteq Refs \X Nat
    /\ \A a \in Refs, i \in Nat : <<a, i>> \in Keepers(x) <=> Place(a, i) /\ items[a][i] = x
<1> SUFFICES ASSUME TypeOK, NEW x \in Refs
             PROVE  /\ Keepers(x) = {pl \in Kept(Holders, items, x) : ~Leaving(pl[1], pl[2])}
                    /\ IsFiniteSet(Keepers(x))
                    /\ Keepers(x) \subseteq Refs \X Nat
                    /\ \A a \in Refs, i \in Nat :
                         <<a, i>> \in Keepers(x) <=> Place(a, i) /\ items[a][i] = x
  OBVIOUS
<1>1. Places \subseteq Refs \X Nat  BY PlacesAre
<1>2. \A a \in Refs, i \in Nat : <<a, i>> \in Keepers(x) <=> Place(a, i) /\ items[a][i] = x
  <2> TAKE a \in Refs, i \in Nat
  <2>1. <<a, i>> \in Places <=> Place(a, i)  BY PlacesAre
  <2>2. <<a, i>> \in Keepers(x) <=> <<a, i>> \in Places /\ items[a][i] = x  BY DEF Keepers
  <2>3. QED  BY <2>1, <2>2
<1>3. Keepers(x) \subseteq Refs \X Nat  BY <1>1 DEF Keepers
<1> DEFINE K == {pl \in Kept(Holders, items, x) : ~Leaving(pl[1], pl[2])}
<1>4. K \subseteq Refs \X Nat  BY DEF Kept, Holders
<1>5. \A a \in Refs, i \in Nat : <<a, i>> \in K <=> Place(a, i) /\ items[a][i] = x
  BY DEF Kept, Place
<1> HIDE DEF K
<1>6. K = Keepers(x)
  <2>1. \A pl \in Refs \X Nat : pl \in K <=> pl \in Keepers(x)  BY <1>2, <1>5
  <2>2. QED  BY <2>1, <1>3, <1>4
<1>7. IsFiniteSet(Keepers(x))
  <2>1. items \in [Refs -> Seq(Refs)] /\ Holders \in SUBSET Refs  BY DEF TypeOK, Holders
  <2>2. IsFiniteSet(Kept(Holders, items, x))  BY <2>1, KeptFinite
  <2>3. K \subseteq Kept(Holders, items, x)  BY DEF K
  <2>4. QED  BY <2>2, <2>3, <1>6, FS_Subset
<1>8. QED  BY <1>2, <1>3, <1>6, <1>7 DEF K

LEMMA DropsFinite ==
  Typed => \A x \in Refs : IsFiniteSet(Drops(x))
<1> SUFFICES ASSUME Typed, NEW x \in Refs PROVE IsFiniteSet(Drops(x))
  OBVIOUS
<1>1. Len(todo) - 1 \in Int  BY DEF Typed
<1>2. IsFiniteSet(0 .. Len(todo) - 1)  BY <1>1, FS_Interval
<1>3. QED  BY <1>2, FS_Subset DEF Drops

LEMMA AtLeast ==
  ASSUME NEW K, IsFiniteSet(K)
  PROVE  /\ Cardinality(K) \in Nat
         /\ Cardinality(K) = 0 <=> K = {}
         /\ Cardinality(K) <= 1 => \A x, y \in K : x = y
<1>1. Cardinality(K) \in Nat  BY FS_CardinalityType
<1>2. Cardinality(K) = 0 <=> K = {}  BY FS_EmptySet
<1>3. ASSUME Cardinality(K) = 1 PROVE \A x, y \in K : x = y  BY <1>3, FS_Singleton
<1>4. QED  BY <1>1, <1>2, <1>3

(* Who has a reference counts, and one reference is one's alone.           *)
LEMMA Backed ==
  Typed /\ RefsAccounted => \A x \in Refs :
    /\ refcount[x] \in Nat
    /\ client[x] > 0 => refcount[x] > 0
    /\ local[x] > 0 => refcount[x] > 0
    /\ Drops(x) # {} => refcount[x] > 0
    /\ \A a \in Refs, i \in Nat : Place(a, i) /\ items[a][i] = x => refcount[x] > 0
    /\ refcount[x] = 0 => client[x] = 0 /\ local[x] = 0 /\ Keepers(x) = {} /\ Drops(x) = {}
<1> SUFFICES ASSUME Typed, RefsAccounted, NEW x \in Refs
             PROVE  /\ refcount[x] \in Nat
                    /\ client[x] > 0 => refcount[x] > 0
                    /\ local[x] > 0 => refcount[x] > 0
                    /\ Drops(x) # {} => refcount[x] > 0
                    /\ \A a \in Refs, i \in Nat :
                         Place(a, i) /\ items[a][i] = x => refcount[x] > 0
                    /\ refcount[x] = 0 =>
                         client[x] = 0 /\ local[x] = 0 /\ Keepers(x) = {} /\ Drops(x) = {}
  OBVIOUS
<1> DEFINE k == Cardinality(Keepers(x))
           d == Cardinality(Drops(x))
<1>1. k \in Nat /\ (k = 0 <=> Keepers(x) = {})  BY KeepersAre, AtLeast DEF Typed
<1>2. d \in Nat /\ (d = 0 <=> Drops(x) = {})  BY DropsFinite, AtLeast
<1>3. refcount[x] = client[x] + local[x] + k + d  BY DEF RefsAccounted
<1>4. refcount[x] \in Nat /\ client[x] \in Nat /\ local[x] \in Nat  BY DEF Typed, TypeOK
<1>5. \A a \in Refs, i \in Nat : Place(a, i) /\ items[a][i] = x => Keepers(x) # {}
  BY KeepersAre DEF Typed
<1> HIDE DEF k, d
<1>6. refcount[x] >= client[x] /\ refcount[x] >= local[x] /\ refcount[x] >= k /\ refcount[x] >= d
  BY <1>1, <1>2, <1>3, <1>4
<1>7. refcount[x] = 0 => client[x] = 0 /\ local[x] = 0 /\ k = 0 /\ d = 0
  BY <1>1, <1>2, <1>4, <1>6
<1>8. client[x] > 0 \/ local[x] > 0 \/ k # 0 \/ d # 0 => refcount[x] > 0
  BY <1>1, <1>2, <1>4, <1>6
<1>9. /\ Drops(x) # {} => refcount[x] > 0
      /\ \A a \in Refs, i \in Nat : Place(a, i) /\ items[a][i] = x => refcount[x] > 0
  BY <1>1, <1>2, <1>5, <1>8
<1>10. refcount[x] = 0 => client[x] = 0 /\ local[x] = 0 /\ Keepers(x) = {} /\ Drops(x) = {}
  BY <1>1, <1>2, <1>7
<1>11. QED  BY <1>4, <1>8, <1>9, <1>10

LEMMA Sole ==
  Typed /\ RefsAccounted => \A x \in Refs : refcount[x] = 1 =>
    /\ client[x] > 0 => local[x] = 0 /\ Keepers(x) = {} /\ Drops(x) = {}
    /\ local[x] > 0 => client[x] = 0 /\ Keepers(x) = {} /\ Drops(x) = {}
    /\ Drops(x) # {} => client[x] = 0 /\ local[x] = 0 /\ Keepers(x) = {}
    /\ \A a \in Refs, i \in Nat : Place(a, i) /\ items[a][i] = x =>
         /\ client[x] = 0 /\ local[x] = 0 /\ Drops(x) = {}
         /\ \A b \in Refs, j \in Nat : Place(b, j) /\ items[b][j] = x => b = a /\ j = i
<1> SUFFICES ASSUME Typed, RefsAccounted, NEW x \in Refs, refcount[x] = 1
             PROVE  /\ client[x] > 0 => local[x] = 0 /\ Keepers(x) = {} /\ Drops(x) = {}
                    /\ local[x] > 0 => client[x] = 0 /\ Keepers(x) = {} /\ Drops(x) = {}
                    /\ Drops(x) # {} => client[x] = 0 /\ local[x] = 0 /\ Keepers(x) = {}
                    /\ \A a \in Refs, i \in Nat : Place(a, i) /\ items[a][i] = x =>
                         /\ client[x] = 0 /\ local[x] = 0 /\ Drops(x) = {}
                         /\ \A b \in Refs, j \in Nat :
                              Place(b, j) /\ items[b][j] = x => b = a /\ j = i
  OBVIOUS
<1> DEFINE k == Cardinality(Keepers(x))
           d == Cardinality(Drops(x))
<1>1. k \in Nat /\ (k = 0 <=> Keepers(x) = {}) /\ (k <= 1 => \A y, z \in Keepers(x) : y = z)
  BY KeepersAre, AtLeast DEF Typed
<1>2. d \in Nat /\ (d = 0 <=> Drops(x) = {})  BY DropsFinite, AtLeast
<1>3. 1 = client[x] + local[x] + k + d  BY DEF RefsAccounted
<1>4. client[x] \in Nat /\ local[x] \in Nat  BY DEF Typed, TypeOK
<1>5. \A a \in Refs, i \in Nat : Place(a, i) /\ items[a][i] = x => <<a, i>> \in Keepers(x)
  BY KeepersAre DEF Typed
<1> HIDE DEF k, d
<1>6. k <= 1  BY <1>1, <1>2, <1>3, <1>4
<1>7. \A a, b \in Refs, i, j \in Nat :
        Place(a, i) /\ items[a][i] = x /\ Place(b, j) /\ items[b][j] = x => b = a /\ j = i
  <2> TAKE a, b \in Refs, i, j \in Nat
  <2> SUFFICES ASSUME Place(a, i), items[a][i] = x, Place(b, j), items[b][j] = x
               PROVE  b = a /\ j = i
    OBVIOUS
  <2>1. <<a, i>> \in Keepers(x) /\ <<b, j>> \in Keepers(x)  BY <1>5
  <2>2. <<a, i>> = <<b, j>>  BY <2>1, <1>1, <1>6
  <2>3. QED  BY ONLY <2>2
<1>8. /\ k > 0 => client[x] = 0 /\ local[x] = 0 /\ d = 0
      /\ d > 0 => client[x] = 0 /\ local[x] = 0 /\ k = 0
      /\ client[x] > 0 => local[x] = 0 /\ k = 0 /\ d = 0
      /\ local[x] > 0 => client[x] = 0 /\ k = 0 /\ d = 0
  <2> DEFINE c == client[x]
             l == local[x]
  <2>1. k \in Nat /\ d \in Nat /\ c \in Nat /\ l \in Nat /\ 1 = c + l + k + d
    BY <1>1, <1>2, <1>3, <1>4
  <2> HIDE DEF c, l
  <2>2. /\ k > 0 => c = 0 /\ l = 0 /\ d = 0
        /\ d > 0 => c = 0 /\ l = 0 /\ k = 0
        /\ c > 0 => l = 0 /\ k = 0 /\ d = 0
        /\ l > 0 => c = 0 /\ k = 0 /\ d = 0
    BY ONLY <2>1
  <2>3. QED  BY ONLY <2>2 DEF c, l
<1>9. (Keepers(x) # {} => k > 0) /\ (Drops(x) # {} => d > 0)
  BY <1>1, <1>2
<1>10. \A a \in Refs, i \in Nat : Place(a, i) /\ items[a][i] = x =>
        client[x] = 0 /\ local[x] = 0 /\ Drops(x) = {}
  <2> TAKE a \in Refs, i \in Nat
  <2> SUFFICES ASSUME Place(a, i), items[a][i] = x
               PROVE  client[x] = 0 /\ local[x] = 0 /\ Drops(x) = {}
    OBVIOUS
  <2>1. Keepers(x) # {}  BY <1>5
  <2>2. QED  BY <2>1, <1>2, <1>8, <1>9
<1>11. /\ client[x] > 0 => local[x] = 0 /\ Keepers(x) = {} /\ Drops(x) = {}
       /\ local[x] > 0 => client[x] = 0 /\ Keepers(x) = {} /\ Drops(x) = {}
       /\ Drops(x) # {} => client[x] = 0 /\ local[x] = 0 /\ Keepers(x) = {}
  BY <1>1, <1>2, <1>8, <1>9
<1>12. QED  BY <1>7, <1>10, <1>11


(* What a ground reaches is counted, and what it says is kept is kept.     *)
Standing(S) ==
  /\ S \in Grounds /\ Sound(S)
  /\ \A r \in S.own : local[r] > 0
  /\ \A r \in S.held : client[r] > 0
  /\ \A a, x \in Refs : <<a, x>> \in S.has => \E i \in Nat : Item(a, i, x)

LEMMA OwnersCount ==
  \A S : Typed /\ RefsAccounted /\ Standing(S) =>
    /\ \A a \in Refs : Owner(S, a) => refcount[a] > 0
    /\ \A x \in Refs : Reached(S, x) => refcount[x] > 0
    /\ \A a, x \in Refs : <<a, x>> \in S.has => \E i \in Nat : Place(a, i) /\ items[a][i] = x
    /\ \A x \in Refs : Reached(S, x) => client[x] > 0 \/ local[x] > 0 \/ Keepers(x) # {}
<1> SUFFICES ASSUME NEW S, Typed, RefsAccounted, Standing(S)
             PROVE  /\ \A a \in Refs : Owner(S, a) => refcount[a] > 0
                    /\ \A x \in Refs : Reached(S, x) => refcount[x] > 0
                    /\ \A a, x \in Refs : <<a, x>> \in S.has =>
                         \E i \in Nat : Place(a, i) /\ items[a][i] = x
                    /\ \A x \in Refs :
                         Reached(S, x) => client[x] > 0 \/ local[x] > 0 \/ Keepers(x) # {}
  OBVIOUS
<1> DEFINE H == S.held \cup S.own
           Kept1(x) == \E a \in Refs, i \in Nat : Place(a, i) /\ items[a][i] = x
<1>1. H \subseteq Refs  BY DEF Standing, Grounds
<1>2. \A r \in H : client[r] > 0 \/ local[r] > 0  BY DEF Standing
<1>3. \A r \in H : refcount[r] > 0  BY <1>1, <1>2, Backed
<1>4. \A a, x \in Refs : <<a, x>> \in S.has /\ refcount[a] > 0 =>
        \E i \in Nat : Place(a, i) /\ items[a][i] = x
  BY DEF Standing, Item, Place, Holders, Keeping
<1>5. \A x \in Refs : Kept1(x) => refcount[x] > 0 /\ Keepers(x) # {}
  BY Backed, KeepersAre DEF Typed
<1>6. \A a \in Refs : Owner(S, a) => a \in H \/ Kept1(a)
  BY <1>1, <1>3, <1>4 DEF Owner
<1>7. \A a \in Refs : Owner(S, a) => refcount[a] > 0
  BY <1>3, <1>5, <1>6
<1>8. \A a, x \in Refs : <<a, x>> \in S.has => \E i \in Nat : Place(a, i) /\ items[a][i] = x
  BY <1>4, <1>7 DEF Standing, Sound
<1>9. \A x \in Refs : Reached(S, x) => x \in H \/ Kept1(x)
  BY <1>6, <1>8 DEF Reached
<1> HIDE DEF H, Kept1
<1>10. \A x \in Refs : Reached(S, x) => refcount[x] > 0
  BY <1>3, <1>5, <1>9
<1>11. \A x \in Refs : Reached(S, x) => client[x] > 0 \/ local[x] > 0 \/ Keepers(x) # {}
  BY <1>2, <1>5, <1>9
<1>12. QED  BY <1>7, <1>8, <1>10, <1>11

LEMMA GroundedStands ==
  \A S : Grounded(S) /\ Sound(S) => Standing(S)
<1> SUFFICES ASSUME NEW S, Grounded(S), Sound(S) PROVE Standing(S)
  OBVIOUS
<1>1. \A r \in S.own : r \in Refs  BY DEF Grounded, Grounds
<1>2. \A r \in S.own : local[r] > 0  BY <1>1 DEF Grounded
<1>3. QED  BY <1>2 DEF Grounded, Standing


-----------------------------------------------------------------------------
(* What is left to do.  Outside a teardown and a removal a program is      *)
(* quiet: nothing is dropped, deallocated or leaving.                      *)
Quiet(p) == \A k \in 1 .. Len(p) : p[k].op \notin {"drop", "dealloc", "shift"}

LEMMA Heads ==
  Typed /\ todo # <<>> =>
    /\ step \in Steps /\ step = todo[1] /\ Len(todo) \in Nat /\ Len(todo) >= 1
    /\ Tail(todo) \in Seq(Steps) /\ Len(Tail(todo)) = Len(todo) - 1
    /\ \A k \in 1 .. Len(Tail(todo)) : Tail(todo)[k] = todo[k + 1] /\ k + 1 \in 1 .. Len(todo)
  BY DEF Typed, step

LEMMA Quieted ==
  Typed /\ Stacked /\ todo # <<>> =>
    /\ step.op \notin {"drop", "dealloc"} => Quiet(Tail(todo))
    /\ step.op \notin {"drop", "dealloc", "shift"} => Quiet(todo)
<1> SUFFICES ASSUME Typed, Stacked, todo # <<>>, step.op \notin {"drop", "dealloc"}
             PROVE  /\ Quiet(Tail(todo))
                    /\ step.op # "shift" => Quiet(todo)
  OBVIOUS
<1>1. /\ step = todo[1] /\ Len(todo) \in Nat /\ Len(todo) >= 1 /\ Len(Tail(todo)) = Len(todo) - 1
      /\ \A k \in 1 .. Len(Tail(todo)) : Tail(todo)[k] = todo[k + 1] /\ k + 1 \in 1 .. Len(todo)
  BY Heads
<1>2. ~Tears(1)  BY <1>1 DEF Tears
<1>3. \A k \in 1 .. Len(todo) : 1 < k => ~Tears(k) /\ todo[k].op # "shift"
  BY <1>1, <1>2 DEF Stacked
<1>4. \A k \in 1 .. Len(todo) : 1 < k => todo[k].op \notin {"drop", "dealloc", "shift"}
  BY <1>3 DEF Tears
<1>5. Quiet(Tail(todo))
  <2> SUFFICES ASSUME NEW k \in 1 .. Len(Tail(todo))
               PROVE  Tail(todo)[k].op \notin {"drop", "dealloc", "shift"}
    BY DEF Quiet
  <2>1. 1 < k + 1  OBVIOUS
  <2>2. QED  BY <2>1, <1>1, <1>4
<1>6. ASSUME step.op # "shift" PROVE Quiet(todo)
  <2>1. \A k \in 1 .. Len(todo) : k = 1 \/ 1 < k  OBVIOUS
  <2>2. QED  BY <2>1, <1>1, <1>4, <1>6 DEF Quiet
<1>7. QED  BY <1>5, <1>6

LEMMA QuietFails ==
  \A p \in Seq(Releases) : p \in Seq(Steps) /\ Quiet(p)
<1> TAKE p \in Seq(Releases)
<1>1. \A k \in 1 .. Len(p) : p[k] \in Releases  OBVIOUS
<1>2. \A s \in Releases : s \in Steps /\ s.op = "release"  BY DEF Releases, Steps
<1>3. QED  BY <1>1, <1>2 DEF Quiet

LEMMA QuietHeap ==
  Typed /\ Quiet(todo) =>
    /\ Stacked
    /\ \A a, i : ~Leaving(a, i)
    /\ \A x \in Refs : Drops(x) = {}
    /\ \A k \in 1 .. Len(todo), r \in Refs : ~Buries(k, r)
    /\ \A k \in 1 .. Len(todo) : todo[k].op # "shift"
    /\ \A x \in Refs : Keepers(x) = Kept(Holders, items, x)
    /\ \A a \in Refs, i \in Nat : Place(a, i) <=> a \in Holders /\ i \in 1 .. Len(items[a])
<1> SUFFICES ASSUME Typed, Quiet(todo)
             PROVE  /\ Stacked
                    /\ \A a, i : ~Leaving(a, i)
                    /\ \A x \in Refs : Drops(x) = {}
                    /\ \A k \in 1 .. Len(todo), r \in Refs : ~Buries(k, r)
                    /\ \A k \in 1 .. Len(todo) : todo[k].op # "shift"
                    /\ \A x \in Refs : Keepers(x) = Kept(Holders, items, x)
                    /\ \A a \in Refs, i \in Nat :
                         Place(a, i) <=> a \in Holders /\ i \in 1 .. Len(items[a])
  OBVIOUS
<1>1. \A k \in 1 .. Len(todo) : todo[k].op \notin {"drop", "dealloc", "shift"}  BY DEF Quiet
<1>2. Stacked  BY <1>1 DEF Stacked, Tears
<1>3. \A a, i : ~Leaving(a, i)  BY <1>1 DEF Leaving
<1>4. \A x \in Refs : Drops(x) = {}
  <2>1. Len(todo) \in Nat  BY DEF Typed
  <2>2. \A d \in 0 .. Len(todo) - 1 : Len(todo) - d \in 1 .. Len(todo)  BY <2>1
  <2>3. QED  BY <2>2, <1>1 DEF Drops
<1>5. \A k \in 1 .. Len(todo), r \in Refs : ~Buries(k, r)  BY <1>1 DEF Buries
<1>6. \A x \in Refs : Keepers(x) = Kept(Holders, items, x)
  BY <1>3, KeepersAre DEF Typed
<1>7. QED  BY <1>1, <1>2, <1>3, <1>4, <1>5, <1>6 DEF Place

LEMMA QuietHeapNext ==
  (Typed /\ Quiet(todo) =>
    /\ Stacked
    /\ \A a, i : ~Leaving(a, i)
    /\ \A x \in Refs : Drops(x) = {}
    /\ \A k \in 1 .. Len(todo), r \in Refs : ~Buries(k, r)
    /\ \A k \in 1 .. Len(todo) : todo[k].op # "shift"
    /\ \A x \in Refs : Keepers(x) = Kept(Holders, items, x)
    /\ \A a \in Refs, i \in Nat : Place(a, i) <=> a \in Holders /\ i \in 1 .. Len(items[a]))'
  BY QuietHeap, PTL

(* A quiet heap: an object is there just when it is counted.               *)
QuietAccounts ==
  /\ \A x \in Refs : refcount[x] = client[x] + local[x] + Cardinality(Kept(Holders, items, x))
  /\ \A r \in Refs : Live(r) <=> refcount[r] > 0

LEMMA QuietHeaped ==
  Typed /\ Quiet(todo) /\ ArraysRetain /\ ArraysOfPages => (QuietAccounts <=> Heaped)
<1> SUFFICES ASSUME Typed, Quiet(todo), ArraysRetain, ArraysOfPages
             PROVE  QuietAccounts <=> Heaped
  OBVIOUS
<1>1. /\ Stacked
      /\ \A x \in Refs : Drops(x) = {}
      /\ \A k \in 1 .. Len(todo), r \in Refs : ~Buries(k, r)
      /\ \A x \in Refs : Keepers(x) = Kept(Holders, items, x)
  BY QuietHeap
<1>2. Cardinality({}) = 0  BY FS_EmptySet
<1>3. \A x \in Refs : Cardinality(Keepers(x)) \in Nat /\ refcount[x] \in Nat
                      /\ client[x] \in Nat /\ local[x] \in Nat
  BY KeepersAre, AtLeast DEF Typed, TypeOK
<1>4. RefsAccounted <=>
        \A x \in Refs : refcount[x] = client[x] + local[x] + Cardinality(Kept(Holders, items, x))
  <2> SUFFICES ASSUME NEW x \in Refs
               PROVE  client[x] + local[x] + Cardinality(Keepers(x)) + Cardinality(Drops(x))
                        = client[x] + local[x] + Cardinality(Kept(Holders, items, x))
    BY DEF RefsAccounted
  <2>1. Keepers(x) = Kept(Holders, items, x) /\ Cardinality(Drops(x)) = 0  BY <1>1, <1>2
  <2> DEFINE k == Cardinality(Keepers(x))
  <2>2. k \in Nat /\ client[x] \in Nat /\ local[x] \in Nat  BY <1>3
  <2> HIDE DEF k
  <2>3. client[x] + local[x] + k + 0 = client[x] + local[x] + k  BY <2>2
  <2>4. QED  BY <2>1, <2>3 DEF k
<1>5. Unburied <=> \A r \in Refs : Live(r) <=> refcount[r] > 0
  <2>1. Unburied <=> \A r \in Refs : (~Live(r) => refcount[r] = 0) /\ ~(Live(r) /\ refcount[r] = 0)
    BY <1>1 DEF Unburied
  <2>2. QED  BY <2>1, <1>3
<1>6. QED  BY <1>1, <1>4, <1>5 DEF Heaped, QuietAccounts

LEMMA QuietHeapedNext ==
  (Typed /\ Quiet(todo) /\ ArraysRetain /\ ArraysOfPages => (QuietAccounts <=> Heaped))'
  BY QuietHeaped, PTL
-----------------------------------------------------------------------------
(* A step on the ground of the program, and the ground after it.           *)
Ready(S, T) ==
  /\ Heaped /\ Holds(S) /\ S \in Grounds /\ Sound(S) /\ T \in Grounds /\ Sound(T)
  /\ todo # <<>> /\ Allows(step, S, T)

LEMMA ReadyFacts ==
  \A S, T : Ready(S, T) =>
    /\ Typed /\ TypeOK /\ RefsAccounted /\ Unburied /\ ArraysRetain /\ Stacked /\ ArraysOfPages
    /\ Grounded(S) /\ GroupsOwn(S) /\ FilesOwn(S) /\ Standing(S)
    /\ step \in Steps /\ Tail(todo) \in Seq(Steps)
    /\ \A x \in Refs : Live(x) <=> kind[x] # "none"
    /\ \A x \in Refs : Reached(S, x) => refcount[x] > 0 /\ Live(x)
<1> SUFFICES ASSUME NEW S, NEW T, Ready(S, T)
             PROVE  /\ Typed /\ TypeOK /\ RefsAccounted /\ Unburied /\ ArraysRetain /\ Stacked
                    /\ ArraysOfPages
                    /\ Grounded(S) /\ GroupsOwn(S) /\ FilesOwn(S) /\ Standing(S)
                    /\ step \in Steps /\ Tail(todo) \in Seq(Steps)
                    /\ \A x \in Refs : Live(x) <=> kind[x] # "none"
                    /\ \A x \in Refs : Reached(S, x) => refcount[x] > 0 /\ Live(x)
  OBVIOUS
<1>1. /\ Typed /\ TypeOK /\ RefsAccounted /\ Unburied /\ ArraysRetain /\ Stacked /\ ArraysOfPages
      /\ Grounded(S) /\ GroupsOwn(S) /\ FilesOwn(S) /\ Sound(S) /\ todo # <<>>
  BY DEF Ready, Heaped, Holds, Typed
<1>2. Standing(S)  BY <1>1, GroundedStands
<1>3. step \in Steps /\ Tail(todo) \in Seq(Steps)  BY <1>1, Heads
<1>4. \A x \in Refs : Reached(S, x) => refcount[x] > 0  BY <1>1, <1>2, OwnersCount
<1>5. \A x \in Refs : refcount[x] > 0 => Live(x)  BY <1>1 DEF Unburied
<1>6. QED  BY <1>1, <1>2, <1>3, <1>4, <1>5 DEF Live

(* A step that fails leaves the heap, and what is owned is given back.     *)
LEMMA FailingHolds ==
  ASSUME NEW S, NEW T, Ready(S, T), Quiet(todo),
         step.fail \in Seq(Releases), Undoes(step.fail, S.own),
         todo' = step.fail, UNCHANGED <<heap, client, local>>
  PROVE  Heaped' /\ \E G : Holds(G)' /\ Completes(todo', G)
<1> DEFINE G == Bared(S)
<1>1. /\ Typed /\ TypeOK /\ RefsAccounted /\ Unburied /\ ArraysRetain /\ ArraysOfPages
      /\ Grounded(S) /\ GroupsOwn(S) /\ FilesOwn(S) /\ Heaped
  BY ReadyFacts DEF Ready
<1>2. S \in Grounds /\ Sound(S)  BY DEF Ready
<1>3. Completes(todo', G) /\ G \in Grounds  BY <1>2, Undoing
<1>4. todo' \in Seq(Steps) /\ Quiet(todo')  BY QuietFails
<1>5. /\ kind' = kind /\ refcount' = refcount /\ items' = items /\ cap' = cap
      /\ callbacks' = callbacks /\ isMutable' = isMutable /\ client' = client /\ local' = local
  BY DEF heap
<1>6. Typed'  BY <1>1, <1>4, <1>5 DEF Typed, TypeOK
<1>7. Holders' = Holders  BY <1>5 DEF Holders, Keeping, Live, Retains
<1>8. \A a \in Refs, i \in Nat : Place(a, i) <=> a \in Holders /\ i \in 1 .. Len(items[a])
  BY <1>1, QuietHeap
<1>9. /\ \A k \in 1 .. Len(todo') : todo'[k].op # "shift"
      /\ \A a \in Refs, i \in Nat : Place(a, i)' <=> a \in Holders' /\ i \in 1 .. Len(items'[a])
  BY <1>4, <1>6, QuietHeapNext
<1>10. \A a \in Refs, i \in Nat : Place(a, i)' <=> Place(a, i)
  BY <1>4, <1>5, <1>6, <1>7, <1>8, <1>9
<1>11. ArraysOfPages' /\ ArraysRetain'
  BY <1>1, <1>5, <1>10 DEF ArraysOfPages, ArraysRetain, Live
<1>12. Heaped'
  <2>1. QuietAccounts  BY <1>1, QuietHeaped
  <2>2. QuietAccounts'  BY <2>1, <1>5, <1>7 DEF QuietAccounts, Live
  <2>3. QED  BY <2>2, QuietHeapedNext, <1>4, <1>6, <1>11
<1>13. \A a \in Refs : PrivateArray(a) <=> PrivateArray(a)'
  BY <1>5, <1>10 DEF PrivateArray
<1>14. /\ G.held = S.held /\ G.own = S.own /\ G.fresh = {} /\ G.bare = S.bare
       /\ G.priv = {} /\ G.has = {} /\ G.is = {}
  BY DEF Bared
<1>15. Grounded(G)'
  <2> HIDE DEF G
  <2>1. \A k \in 1 .. Len(todo') : todo'[k].op # "shift"  BY <1>4, <1>6, <1>9
  <2>2. QED  BY <2>1, <1>1, <1>3, <1>5, <1>14 DEF Grounded
<1>16. GroupsOwn(G)'
  <2>1. \A g \in Refs : Len(items[g]) = 1 => items[g][1] \in Refs
    BY <1>1, ItemsAreRefs
  <2>2. QED  BY <2>1, <1>1, <1>5, <1>13, <1>14 DEF GroupsOwn
<1>17. FilesOwn(G)'
  BY <1>1, <1>5, <1>14 DEF FilesOwn
<1>18. QED  BY <1>3, <1>12, <1>15, <1>16, <1>17 DEF Holds

LEMMA NewHolds ==
  ASSUME NEW S, NEW T, Ready(S, T), Does("new"),
         kind' = [kind EXCEPT ![step.r] = step.kind],
         refcount' = [refcount EXCEPT ![step.r] = 1],
         items' = [items EXCEPT ![step.r] = <<>>],
         cap' = [cap EXCEPT ![step.r] = step.cap],
         callbacks' = [callbacks EXCEPT ![step.r] = step.callbacks],
         isMutable' = [isMutable EXCEPT ![step.r] = TRUE],
         local' = [local EXCEPT ![step.r] = @ + 1],
         client' = client, todo' = Tail(todo)
  PROVE  Heaped' /\ Holds(T)'
<1> DEFINE r == step.r
<1>1. /\ Typed /\ TypeOK /\ RefsAccounted /\ Unburied /\ ArraysRetain /\ Stacked /\ ArraysOfPages
      /\ Grounded(S) /\ GroupsOwn(S) /\ FilesOwn(S) /\ Heaped
      /\ step \in Steps /\ Tail(todo) \in Seq(Steps)
  BY ReadyFacts DEF Ready
<1>2. /\ step.op = "new" /\ r \in Refs /\ step.kind \in Kinds /\ step.cap \in Nat
      /\ step.callbacks \in {"object", "default"}
  BY <1>1, StepFields DEF Does
<1>3. AllowsNew(step, S, T)  BY <1>2 DEF Ready, Allows
<1>4. ~Live(r)  BY <1>1, <1>3 DEF Grounded, AllowsNew
<1>5. refcount[r] = 0  BY <1>1, <1>2, <1>4 DEF Unburied
<1>6. client[r] = 0 /\ local[r] = 0 /\ Keepers(r) = {}
  BY <1>1, <1>2, <1>5, Backed
<1>7. \A x \in Refs : x # r =>
        /\ kind'[x] = kind[x] /\ refcount'[x] = refcount[x] /\ items'[x] = items[x]
        /\ cap'[x] = cap[x] /\ callbacks'[x] = callbacks[x] /\ isMutable'[x] = isMutable[x]
        /\ local'[x] = local[x]
  BY <1>1 DEF TypeOK
<1>8. /\ kind'[r] = step.kind /\ refcount'[r] = 1 /\ items'[r] = <<>> /\ cap'[r] = step.cap
      /\ callbacks'[r] = step.callbacks /\ isMutable'[r] = TRUE /\ local'[r] = 1
  BY <1>1, <1>2, <1>6 DEF TypeOK
<1>9. Quiet(todo) /\ Quiet(todo') /\ todo' \in Seq(Steps)
  BY <1>1, <1>2, Quieted DEF Ready
<1>10. Typed'
  <2>1. TypeOK'
    <3>1. <<>> \in Seq(Refs) /\ Len(<<>>) = 0  OBVIOUS
    <3>2. local' \in [Refs -> Nat]  BY <1>1, <1>2 DEF TypeOK
    <3>3. /\ kind' \in [Refs -> {"none", "page", "array", "group", "file"}]
          /\ refcount' \in [Refs -> Nat] /\ items' \in [Refs -> Seq(Refs)]
          /\ cap' \in [Refs -> Nat] /\ callbacks' \in [Refs -> {"object", "default"}]
          /\ isMutable' \in [Refs -> BOOLEAN] /\ client' \in [Refs -> Nat]
      BY <1>1, <1>2, <3>1 DEF TypeOK, Kinds
    <3>4. \A x \in Refs : /\ kind'[x] \in {"group", "file"} => Len(items'[x]) <= 1
                          /\ kind'[x] = "array" => Len(items'[x]) <= cap'[x]
      <4> TAKE x \in Refs
      <4>1. CASE x = r  BY <4>1, <1>2, <1>8, <3>1
      <4>2. CASE x # r  BY <4>2, <1>1, <1>7 DEF TypeOK
      <4>3. QED  BY <4>1, <4>2
    <3>5. QED  BY <3>2, <3>3, <3>4 DEF TypeOK
  <2>2. QED  BY <2>1, <1>9 DEF Typed
<1>11. \A a \in Refs : a # r => (a \in Holders' <=> a \in Holders)
  BY <1>7 DEF Holders, Keeping, Live, Retains
<1>12. r \notin Holders  BY <1>4 DEF Holders, Keeping
<1>13. \A a \in Refs, i \in Nat : Place(a, i) <=> a \in Holders /\ i \in 1 .. Len(items[a])
  BY <1>1, <1>9, QuietHeap
<1>14. /\ \A k \in 1 .. Len(todo') : todo'[k].op # "shift"
       /\ \A a, i : ~Leaving(a, i)'
       /\ \A a \in Refs, i \in Nat : Place(a, i)' <=> a \in Holders' /\ i \in 1 .. Len(items'[a])
  BY <1>9, <1>10, QuietHeapNext
<1>15. /\ \A a \in Refs, i \in Nat : Place(a, i)' <=> Place(a, i)
       /\ \A a \in Refs, i \in Nat : Place(a, i) => items'[a] = items[a] /\ a # r /\ items[a][i] \in Refs
  <2> SUFFICES ASSUME NEW a \in Refs, NEW i \in Nat
               PROVE  /\ Place(a, i)' <=> Place(a, i)
                      /\ Place(a, i) => items'[a] = items[a] /\ a # r /\ items[a][i] \in Refs
    OBVIOUS
  <2>1. Place(a, i)' <=> a \in Holders' /\ i \in 1 .. Len(items'[a])  BY <1>9, <1>10, <1>14
  <2>2. Place(a, i) <=> a \in Holders /\ i \in 1 .. Len(items[a])  BY <1>13
  <2>3. CASE a = r
    <3>1. Len(items'[a]) = 0  BY <2>3, <1>8
    <3>2. QED  BY <2>1, <2>2, <2>3, <3>1, <1>12
  <2>4. CASE a # r
    BY <2>1, <2>2, <2>4, <1>1, <1>7, <1>11, ItemsAreRefs
  <2>5. QED  BY <2>3, <2>4
<1>16. \A a \in Refs, i \in Nat : Place(a, i) => items[a][i] # r
  BY <1>1, <1>2, <1>5, Backed
<1>17. ArraysOfPages'
  BY <1>1, <1>7, <1>15, <1>16 DEF ArraysOfPages
<1>18. ArraysRetain'
  <2> SUFFICES ASSUME NEW x \in Refs, Live(x)'
               PROVE  callbacks'[x] = "object" <=> kind'[x] = "array"
    BY DEF ArraysRetain
  <2>1. CASE x = r  BY <2>1, <1>3, <1>8 DEF AllowsNew
  <2>2. CASE x # r  BY <2>2, <1>1, <1>7 DEF ArraysRetain, Live
  <2>3. QED  BY <2>1, <2>2
<1>19. Heaped'
  <2>1. QuietAccounts  BY <1>1, <1>9, QuietHeaped
  <2>2. QuietAccounts'
    <3>1. \A x \in Refs : Kept(Holders', items', x) = Kept(Holders, items, x)
      <4> TAKE x \in Refs
      <4>1. Holders \subseteq Refs /\ Holders' \subseteq Refs  BY DEF Holders
      <4>2. \A a \in Refs, i \in Nat :
              (a \in Holders' /\ i \in 1 .. Len(items'[a]) /\ items'[a][i] = x)
                <=> (a \in Holders /\ i \in 1 .. Len(items[a]) /\ items[a][i] = x)
        BY <1>9, <1>10, <1>13, <1>14, <1>15
      <4>3. QED  BY <4>1, <4>2 DEF Kept
    <3>2. Kept(Holders, items, r) = {}
      BY <1>1, <1>2, <1>6, <1>9, QuietHeap
    <3>3. Cardinality({}) = 0  BY FS_EmptySet
    <3>4. \A x \in Refs : refcount'[x] = client'[x] + local'[x] + Cardinality(Kept(Holders', items', x))
      <4> TAKE x \in Refs
      <4>1. CASE x = r
        <5>1. Kept(Holders', items', x) = {}  BY <4>1, <1>2, <3>1, <3>2
        <5>2. refcount'[x] = 1 /\ client'[x] = 0 /\ local'[x] = 1  BY <4>1, <1>6, <1>8
        <5>3. Cardinality(Kept(Holders', items', x)) = 0  BY <5>1, <3>3
        <5>4. QED  BY ONLY <5>2, <5>3
      <4>2. CASE x # r
        BY <4>2, <2>1, <1>7, <3>1 DEF QuietAccounts
      <4>3. QED  BY <4>1, <4>2
    <3>5. \A x \in Refs : Live(x)' <=> refcount'[x] > 0
      <4> TAKE x \in Refs
      <4>1. CASE x = r
        BY <4>1, <1>2, <1>8 DEF Live, Kinds
      <4>2. CASE x # r
        BY <4>2, <2>1, <1>7 DEF QuietAccounts, Live
      <4>3. QED  BY <4>1, <4>2
    <3>6. QED  BY <3>4, <3>5 DEF QuietAccounts
  <2>3. QED  BY <2>2, QuietHeapedNext, <1>9, <1>10, <1>17, <1>18
<1>20. \A a \in Refs : PrivateArray(a) => PrivateArray(a)'
  <2> SUFFICES ASSUME NEW a \in Refs, PrivateArray(a) PROVE PrivateArray(a)'
    OBVIOUS
  <2>1. a # r  BY <1>5 DEF PrivateArray
  <2>2. \A i \in Nat : Place(a, i)' => kind'[items'[a][i]] = "page"
    BY <2>1, <1>7, <1>15, <1>16 DEF PrivateArray
  <2>3. QED  BY <2>1, <2>2, <1>7 DEF PrivateArray
<1>21. Grounded(T)'
  <2>1. \A x \in Refs : local'[x] = IF x \in T.own THEN 1 ELSE 0
    BY <1>1, <1>3, <1>7, <1>8 DEF Grounded, AllowsNew
  <2>2. \A x \in T.fresh : ~Live(x)'
    BY <1>1, <1>3, <1>7 DEF Grounded, AllowsNew, Live, Ready, Grounds
  <2>3. \A x \in T.held : client'[x] > 0
    BY <1>1, <1>3 DEF Grounded, AllowsNew
  <2>4. \A a, x \in Refs : <<a, x>> \in T.has => \E i \in Nat : Item(a, i, x)'
    <3> SUFFICES ASSUME NEW a \in Refs, NEW x \in Refs, <<a, x>> \in T.has
                 PROVE  \E i \in Nat : Item(a, i, x)'
      OBVIOUS
    <3>1. PICK i \in Nat : Item(a, i, x)  BY <1>1, <1>3 DEF Grounded, AllowsNew
    <3>2. a # r  BY <3>1, <1>4 DEF Item
    <3>3. ~Leaving(a, i)'  BY <1>9, <1>10, <1>14
    <3>4. Item(a, i, x)'  BY <3>1, <3>2, <3>3, <1>7 DEF Item, Live, Retains
    <3>5. QED  BY <3>4
  <2>5. \A x \in Refs, k \in Kinds : <<x, k>> \in T.is => kind'[x] = k
    <3> SUFFICES ASSUME NEW x \in Refs, NEW k \in Kinds, <<x, k>> \in T.is PROVE kind'[x] = k
      OBVIOUS
    <3>1. CASE <<x, k>> = <<r, step.kind>>  BY <3>1, <1>8
    <3>2. CASE <<x, k>> \in S.is
      <4>1. kind[x] = k  BY <3>2, <1>1 DEF Grounded
      <4>2. x # r  BY <4>1, <1>4 DEF Live, Kinds
      <4>3. QED  BY <4>1, <4>2, <1>7
    <3>3. QED  BY <3>1, <3>2, <1>3 DEF AllowsNew
  <2>6. \A x \in T.bare : kind'[x] \in {"group", "file"} /\ items'[x] = <<>> /\ refcount'[x] = 1
    <3> SUFFICES ASSUME NEW x \in T.bare
                 PROVE  kind'[x] \in {"group", "file"} /\ items'[x] = <<>> /\ refcount'[x] = 1
      OBVIOUS
    <3>1. x \in Refs  BY DEF Ready, Grounds
    <3>2. CASE x = r /\ step.kind \in {"group", "file"}  BY <3>2, <1>8
    <3>3. CASE x \in S.bare
      <4>1. kind[x] \in {"group", "file"} /\ items[x] = <<>> /\ refcount[x] = 1
        BY <3>3, <1>1 DEF Grounded
      <4>2. x # r  BY <4>1, <1>5
      <4>3. QED  BY <3>1, <4>1, <4>2, <1>7
    <3>4. QED  BY <3>2, <3>3, <1>3 DEF AllowsNew
  <2>7. \A x \in T.priv : PrivateArray(x)'
    <3> SUFFICES ASSUME NEW x \in T.priv PROVE PrivateArray(x)'
      OBVIOUS
    <3>1. x \in Refs  BY DEF Ready, Grounds
    <3>2. CASE x \in S.priv  BY <3>1, <3>2, <1>1, <1>20 DEF Grounded
    <3>3. CASE x = r /\ step.kind = "array"
      <4>1. \A i \in Nat : ~Place(x, i)'  BY <3>3, <1>2, <1>12, <1>13, <1>15
      <4>2. QED  BY <3>3, <4>1, <1>6, <1>8 DEF PrivateArray
    <3>4. QED  BY <3>2, <3>3, <1>3 DEF AllowsNew
  <2>8. \A k \in 1 .. Len(todo') : todo'[k].op # "shift"  BY <1>9, <1>10, <1>14
  <2>9. T \in Grounds  BY DEF Ready
  <2>10. QED  BY ONLY <2>1, <2>2, <2>3, <2>4, <2>5, <2>6, <2>7, <2>8, <2>9 DEF Grounded
<1>22. GroupsOwn(T)'
  <2> SUFFICES ASSUME NEW g \in Refs, kind'[g] = "group", refcount'[g] > 0, g \notin T.bare
               PROVE  Len(items'[g]) = 1 /\ PrivateArray(items[g][1])'
    BY DEF GroupsOwn
  <2>1. g # r /\ g \notin S.bare  BY <1>3, <1>8 DEF AllowsNew
  <2>2. Len(items[g]) = 1 /\ PrivateArray(items[g][1])  BY <2>1, <1>1, <1>7 DEF GroupsOwn
  <2>3. items[g][1] \in Refs  BY <2>2, <1>1, ItemsAreRefs
  <2>4. QED  BY <2>1, <2>2, <2>3, <1>7, <1>20
<1>23. FilesOwn(T)'
  <2> SUFFICES ASSUME NEW f \in Refs, kind'[f] = "file", refcount'[f] > 0, f \notin T.bare
               PROVE  /\ Len(items'[f]) = 1
                      /\ kind'[items'[f][1]] = "group" /\ items'[f][1] \notin T.bare
    BY DEF FilesOwn
  <2>1. f # r /\ f \notin S.bare  BY <1>3, <1>8 DEF AllowsNew
  <2>2. Len(items[f]) = 1 /\ kind[items[f][1]] = "group" /\ items[f][1] \notin S.bare
    BY <2>1, <1>1, <1>7 DEF FilesOwn
  <2>3. items[f][1] \in Refs  BY <2>2, <1>1, ItemsAreRefs
  <2>4. items[f][1] # r  BY <2>2, <1>4 DEF Live
  <2>5. QED  BY <2>1, <2>2, <2>3, <2>4, <1>3, <1>7 DEF AllowsNew
<1>24. QED  BY <1>19, <1>21, <1>22, <1>23 DEF Holds

(* The arrays of groups, and those that will be: nobody else has them.     *)
Guarded(S, b) ==
  /\ PrivateArray(b)
  /\ \/ b \in S.priv
     \/ \E g \in Refs : kind[g] = "group" /\ Place(g, 1) /\ items[g][1] = b

LEMMA GuardedAlone ==
  \A S, T : Ready(S, T) => \A b \in Refs : Guarded(S, b) =>
    /\ PrivateArray(b) /\ refcount[b] = 1 /\ kind[b] = "array" /\ client[b] = 0
    /\ b \notin S.held /\ (b \in S.own => b \in S.priv) /\ Drops(b) = {}
    /\ \A c \in Refs, j \in Nat : Place(c, j) /\ items[c][j] = b => kind[c] = "group"
<1> SUFFICES ASSUME NEW S, NEW T, Ready(S, T), NEW b \in Refs, Guarded(S, b)
             PROVE  /\ PrivateArray(b) /\ refcount[b] = 1 /\ kind[b] = "array" /\ client[b] = 0
                    /\ b \notin S.held /\ (b \in S.own => b \in S.priv) /\ Drops(b) = {}
                    /\ \A c \in Refs, j \in Nat :
                         Place(c, j) /\ items[c][j] = b => kind[c] = "group"
  OBVIOUS
<1>1. Typed /\ TypeOK /\ RefsAccounted /\ Grounded(S) /\ Sound(S)  BY ReadyFacts DEF Ready
<1>2. PrivateArray(b) /\ refcount[b] = 1 /\ kind[b] = "array" /\ client[b] = 0
  BY DEF Guarded, PrivateArray
<1>3. b \notin S.held  BY <1>1, <1>2 DEF Grounded
<1>4. CASE b \in S.priv
  <2>1. b \in S.own  BY <1>1, <1>4 DEF Sound
  <2>2. local[b] > 0  BY <1>1, <2>1 DEF Grounded
  <2>3. Keepers(b) = {} /\ Drops(b) = {}  BY <1>1, <1>2, <2>2, Sole
  <2>4. \A c \in Refs, j \in Nat : ~(Place(c, j) /\ items[c][j] = b)  BY <1>1, <2>3, KeepersAre
  <2>5. QED  BY <1>2, <1>3, <1>4, <2>3, <2>4
<1>5. CASE \E g \in Refs : kind[g] = "group" /\ Place(g, 1) /\ items[g][1] = b
  <2>1. PICK g \in Refs : kind[g] = "group" /\ Place(g, 1) /\ items[g][1] = b  BY <1>5
  <2>2. /\ local[b] = 0 /\ Drops(b) = {}
        /\ \A c \in Refs, j \in Nat : Place(c, j) /\ items[c][j] = b => c = g /\ j = 1
    BY <1>1, <1>2, <2>1, Sole
  <2>3. b \notin S.own  BY <1>1, <2>2 DEF Grounded
  <2>4. QED  BY <1>2, <1>3, <2>1, <2>2, <2>3
<1>6. QED  BY <1>4, <1>5 DEF Guarded

LEMMA GuardedOnes ==
  \A S, T : Ready(S, T) =>
    /\ \A b \in S.priv : b \in Refs /\ Guarded(S, b)
    /\ \A g \in Refs : kind[g] = "group" /\ refcount[g] > 0 /\ g \notin S.bare =>
         Len(items[g]) = 1 /\ items[g][1] \in Refs /\ Place(g, 1) /\ Guarded(S, items[g][1])
    /\ \A f \in Refs : kind[f] = "file" /\ refcount[f] > 0 /\ f \notin S.bare =>
         Len(items[f]) = 1 /\ items[f][1] \in Refs /\ Place(f, 1) /\ refcount[items[f][1]] > 0
<1> SUFFICES ASSUME NEW S, NEW T, Ready(S, T)
             PROVE  /\ \A b \in S.priv : b \in Refs /\ Guarded(S, b)
                    /\ \A g \in Refs : kind[g] = "group" /\ refcount[g] > 0 /\ g \notin S.bare =>
                         /\ Len(items[g]) = 1 /\ items[g][1] \in Refs
                         /\ Place(g, 1) /\ Guarded(S, items[g][1])
                    /\ \A f \in Refs : kind[f] = "file" /\ refcount[f] > 0 /\ f \notin S.bare =>
                         /\ Len(items[f]) = 1 /\ items[f][1] \in Refs
                         /\ Place(f, 1) /\ refcount[items[f][1]] > 0
  OBVIOUS
<1>1. Typed /\ TypeOK /\ RefsAccounted /\ Grounded(S) /\ GroupsOwn(S) /\ FilesOwn(S) /\ Sound(S)
  BY ReadyFacts DEF Ready
<1>2. \A b \in S.priv : b \in Refs /\ Guarded(S, b)
  BY <1>1 DEF Grounded, Guarded, Ready, Grounds
<1>3. \A k \in 1 .. Len(todo) : todo[k].op = "shift" => kind[todo[k].a] = "array"
  <2> SUFFICES ASSUME NEW k \in 1 .. Len(todo), todo[k].op = "shift"
               PROVE  kind[todo[k].a] = "array"
    OBVIOUS
  <2>1. todo[k] \in Steps  BY <1>1 DEF Typed
  <2>2. todo[k].a \in Refs  BY <2>1, StepFields
  <2>3. QED  BY <2>2, <1>1 DEF Grounded, Kinds
<1>4. \A c \in Refs, i \in Nat : kind[c] \in {"group", "file"} => ~Leaving(c, i)
  BY <1>3 DEF Leaving
<1>5. \A c \in Refs : kind[c] \in {"group", "file"} /\ refcount[c] > 0 /\ Len(items[c]) = 1 =>
        Place(c, 1) /\ items[c][1] \in Refs
  BY <1>1, <1>4, ItemsAreRefs DEF Place, Holders, Keeping, Live, Retains
<1>6. \A g \in Refs : kind[g] = "group" /\ refcount[g] > 0 /\ g \notin S.bare =>
         Len(items[g]) = 1 /\ items[g][1] \in Refs /\ Place(g, 1) /\ Guarded(S, items[g][1])
  BY <1>1, <1>5 DEF GroupsOwn, Guarded
<1>7. \A f \in Refs : kind[f] = "file" /\ refcount[f] > 0 /\ f \notin S.bare =>
         Len(items[f]) = 1 /\ items[f][1] \in Refs /\ Place(f, 1) /\ refcount[items[f][1]] > 0
  BY <1>1, <1>5, Backed DEF FilesOwn
<1>8. QED  BY <1>2, <1>6, <1>7

LEMMA BareAlone ==
  \A S, T : Ready(S, T) => \A b \in S.bare :
    /\ b \in Refs /\ refcount[b] = 1 /\ items[b] = <<>> /\ kind[b] \in {"group", "file"}
    /\ b \in S.own /\ b \notin S.held /\ Keepers(b) = {} /\ Drops(b) = {}
<1> SUFFICES ASSUME NEW S, NEW T, Ready(S, T), NEW b \in S.bare
             PROVE  /\ b \in Refs /\ refcount[b] = 1 /\ items[b] = <<>>
                    /\ kind[b] \in {"group", "file"}
                    /\ b \in S.own /\ b \notin S.held /\ Keepers(b) = {} /\ Drops(b) = {}
  OBVIOUS
<1>1. Typed /\ RefsAccounted /\ Grounded(S) /\ Sound(S)  BY ReadyFacts DEF Ready
<1>2. b \in Refs /\ refcount[b] = 1 /\ items[b] = <<>> /\ kind[b] \in {"group", "file"} /\ b \in S.own
  BY <1>1 DEF Grounded, Grounds, Sound
<1>3. local[b] > 0  BY <1>1, <1>2 DEF Grounded
<1>4. client[b] = 0 /\ Keepers(b) = {} /\ Drops(b) = {}
  BY <1>1, <1>2, <1>3, Sole DEF Typed, TypeOK
<1>5. QED  BY <1>1, <1>2, <1>4 DEF Grounded

LEMMA PutHolds ==
  ASSUME NEW S, NEW T, Ready(S, T), step.op \in {"append", "insert"},
         NEW a, NEW r, NEW i, a = step.a, r = step.r, i \in 1 .. Len(items[a]) + 1, isMutable[a],
         cap' = [cap EXCEPT ![a] = IF Len(items[a]) >= cap[a] THEN @ + 5 ELSE @],
         refcount' = [refcount EXCEPT ![r] = IF callbacks[a] = "object" THEN @ + 1 ELSE @],
         items' = [items EXCEPT ![a] = InsertAt(@, i, r)],
         todo' = Tail(todo), UNCHANGED <<kind, callbacks, isMutable, client, local>>
  PROVE  Heaped' /\ Holds(T)'
<1>1. /\ Typed /\ TypeOK /\ RefsAccounted /\ Unburied /\ ArraysRetain /\ Stacked /\ ArraysOfPages
      /\ Grounded(S) /\ GroupsOwn(S) /\ FilesOwn(S) /\ Standing(S) /\ Heaped
      /\ step \in Steps /\ Tail(todo) \in Seq(Steps)
      /\ \A x \in Refs : Reached(S, x) => refcount[x] > 0 /\ Live(x)
      /\ Sound(S) /\ S \in Grounds /\ T \in Grounds
  BY ReadyFacts DEF Ready
<1>2. a \in Refs /\ r \in Refs  BY <1>1, StepFields
<1>3. AllowsPut(step, S, T)  BY <1>1, StepFields DEF Ready, Allows
<1>4. refcount[r] > 0 /\ Live(r)  BY <1>1, <1>2, <1>3 DEF AllowsPut
<1>5. kind[a] = "array" /\ refcount[a] > 0
  <2>1. <<a, "array">> \in S.is /\ "array" \in Kinds  BY <1>3 DEF AllowsPut, Kinds
  <2>2. QED  BY <2>1, <1>1, <1>2 DEF Grounded, Sound
<1>6. callbacks[a] = "object" /\ a \in Holders
  BY <1>1, <1>2, <1>5 DEF ArraysRetain, Holders, Keeping, Live, Retains
<1>7. kind' = kind /\ callbacks' = callbacks /\ isMutable' = isMutable /\ client' = client
      /\ local' = local
  OBVIOUS
<1>8. /\ refcount'[r] = refcount[r] + 1
      /\ \A x \in Refs : x # r => refcount'[x] = refcount[x]
      /\ \A x \in Refs : refcount'[x] > 0 <=> refcount[x] > 0
  <2>1. refcount'[r] = refcount[r] + 1 /\ \A x \in Refs : x # r => refcount'[x] = refcount[x]
    BY <1>1, <1>2, <1>6 DEF TypeOK
  <2>2. refcount[r] \in Nat  BY <1>1, <1>2 DEF TypeOK
  <2>3. refcount'[r] > 0  BY <2>1, <2>2
  <2>4. QED  BY <2>1, <2>3, <1>4
<1> DEFINE n == Len(items[a])
<1>9. /\ n \in Nat /\ items'[a] \in Seq(Refs) /\ Len(items'[a]) = n + 1
      /\ \A j \in 1 .. n + 1 :
           items'[a][j] = IF j < i THEN items[a][j] ELSE IF j = i THEN r ELSE items[a][j - 1]
      /\ \A x \in Refs : x # a => items'[x] = items[x]
  <2>1. items[a] \in Seq(Refs) /\ n \in Nat  BY <1>1, <1>2, ItemsAreRefs
  <2>2. items'[a] = InsertAt(items[a], i, r)  BY <1>1, <1>2 DEF TypeOK
  <2>3. \A x \in Refs : x # a => items'[x] = items[x]  BY <1>1, <1>2 DEF TypeOK
  <2>4. i \in 1 .. n + 1  OBVIOUS
  <2>5. /\ InsertAt(items[a], i, r) \in Seq(Refs) /\ Len(InsertAt(items[a], i, r)) = n + 1
        /\ \A j \in 1 .. n + 1 : InsertAt(items[a], i, r)[j] =
             IF j < i THEN items[a][j] ELSE IF j = i THEN r ELSE items[a][j - 1]
    <3> DEFINE s == items[a]
    <3>1. i \in Nat  BY <2>1
    <3>2. s \in Seq(Refs) /\ i \in 1 .. Len(s) + 1 /\ r \in Refs  BY <2>1, <2>4, <1>2
    <3> HIDE DEF s
    <3>3. /\ InsertAt(s, i, r) \in Seq(Refs) /\ Len(InsertAt(s, i, r)) = Len(s) + 1
          /\ \A j \in 1 .. Len(s) + 1 : InsertAt(s, i, r)[j] =
               IF j < i THEN s[j] ELSE IF j = i THEN r ELSE s[j - 1]
      BY ONLY <3>1, <3>2, InsertedEach, Zenon
    <3>4. QED  BY ONLY <3>3 DEF s
  <2>6. QED  BY <2>1, <2>2, <2>3, <2>5
<1>10. Quiet(todo) /\ Quiet(todo') /\ todo' \in Seq(Steps)
  BY <1>1, Quieted DEF Ready
<1>11. Typed'
  <2>1. refcount' \in [Refs -> Nat] /\ cap' \in [Refs -> Nat] /\ items' \in [Refs -> Seq(Refs)]
    <3>1. refcount' \in [Refs -> Nat]
      <4> DEFINE c == IF callbacks[a] = "object" THEN refcount[r] + 1 ELSE refcount[r]
      <4>1. refcount' = [refcount EXCEPT ![r] = c]  OBVIOUS
      <4>2. refcount[r] \in Nat  BY <1>1, <1>2 DEF TypeOK
      <4>3. c \in Nat  BY <4>2
      <4> HIDE DEF c
      <4>4. QED  BY <4>1, <4>3, <1>1 DEF TypeOK
    <3>2. cap' \in [Refs -> Nat]
      <4> DEFINE c == IF Len(items[a]) >= cap[a] THEN cap[a] + 5 ELSE cap[a]
      <4>1. cap' = [cap EXCEPT ![a] = c]  BY <1>1, <1>2 DEF TypeOK
      <4>2. cap[a] \in Nat  BY <1>1, <1>2 DEF TypeOK
      <4>3. c \in Nat  BY <4>2
      <4> HIDE DEF c
      <4>4. QED  BY <4>1, <4>3, <1>1 DEF TypeOK
    <3>3. items' \in [Refs -> Seq(Refs)]
      <4>1. InsertAt(items[a], i, r) \in Seq(Refs)  BY <1>1, <1>2, <1>9 DEF TypeOK
      <4>2. QED  BY <4>1, <1>1, <1>2 DEF TypeOK
    <3>4. QED  BY <3>1, <3>2, <3>3
  <2>2. \A x \in Refs : /\ kind'[x] \in {"group", "file"} => Len(items'[x]) <= 1
                        /\ kind'[x] = "array" => Len(items'[x]) <= cap'[x]
    <3> TAKE x \in Refs
    <3>1. CASE x = a
      <4>1. cap[a] \in Nat /\ n <= cap[a]  BY <1>1, <1>2, <1>5 DEF TypeOK
      <4>2. cap'[a] = IF n >= cap[a] THEN cap[a] + 5 ELSE cap[a]  BY <1>1, <1>2 DEF TypeOK
      <4> HIDE DEF n
      <4>3. n + 1 <= cap'[a]  BY <4>1, <4>2, <1>9
      <4>4. QED  BY <3>1, <4>3, <1>5, <1>7, <1>9
    <3>2. CASE x # a
      <4>1. cap'[x] = cap[x]  BY <3>2, <1>1, <1>2 DEF TypeOK
      <4>2. QED  BY <3>2, <4>1, <1>1, <1>7, <1>9 DEF TypeOK
    <3>3. QED  BY <3>1, <3>2
  <2>3. QED  BY <2>1, <2>2, <1>1, <1>7, <1>10 DEF Typed, TypeOK
<1>12. Holders' = Holders  BY <1>7, <1>8 DEF Holders, Keeping, Live, Retains
<1>13. /\ \A b, j : ~Leaving(b, j)
       /\ \A b \in Refs, j \in Nat : Place(b, j) <=> b \in Holders /\ j \in 1 .. Len(items[b])
  BY <1>1, <1>10, QuietHeap
<1>14. /\ \A k \in 1 .. Len(todo') : todo'[k].op # "shift"
       /\ \A b, j : ~Leaving(b, j)'
       /\ \A b \in Refs, j \in Nat : Place(b, j)' <=> b \in Holders' /\ j \in 1 .. Len(items'[b])
  BY <1>10, <1>11, QuietHeapNext
<1>15. \A b \in Refs, j \in Nat : Place(b, j)' <=> b \in Holders /\ j \in 1 .. Len(items'[b])
  BY <1>10, <1>11, <1>12, <1>14
<1> HIDE DEF n
<1>16. \A j \in Nat : j \in 1 .. n =>
         \E l \in Nat : l \in 1 .. n + 1 /\ items'[a][l] = items[a][j]
  <2> SUFFICES ASSUME NEW j \in Nat, j \in 1 .. n
               PROVE  \E l \in Nat : l \in 1 .. n + 1 /\ items'[a][l] = items[a][j]
    OBVIOUS
  <2>1. CASE j < i
    <3>1. j \in 1 .. n + 1  BY <1>9
    <3>2. items'[a][j] = items[a][j]  BY <2>1, <3>1, <1>9
    <3>3. QED  BY <3>1, <3>2
  <2>2. CASE j >= i
    <3>1. /\ j + 1 \in Nat /\ j + 1 \in 1 .. n + 1 /\ ~(j + 1 < i) /\ j + 1 # i /\ j + 1 - 1 = j
      BY <2>2, <1>9
    <3>2. items'[a][j + 1] = items[a][j]  BY <3>1, <1>9
    <3>3. QED  BY <3>1, <3>2
  <2>3. i \in Nat  BY <1>9 DEF n
  <2>4. QED  BY <2>1, <2>2, <2>3
<1>17. \A j \in Nat : j \in 1 .. n + 1 =>
         items'[a][j] = r \/ \E l \in Nat : l \in 1 .. n /\ items[a][l] = items'[a][j]
  <2> SUFFICES ASSUME NEW j \in Nat, j \in 1 .. n + 1, j # i
               PROVE  \E l \in Nat : l \in 1 .. n /\ items[a][l] = items'[a][j]
    BY <1>9
  <2>1. i \in Nat /\ i \in 1 .. n + 1  BY <1>9 DEF n
  <2>2. CASE j < i
    <3>1. j \in 1 .. n  BY <2>1, <2>2, <1>9
    <3>2. QED  BY <2>2, <3>1, <1>9
  <2>3. CASE j > i
    <3>1. j - 1 \in Nat /\ j - 1 \in 1 .. n /\ ~(j < i) /\ j # i  BY <2>1, <2>3, <1>9
    <3>2. items'[a][j] = items[a][j - 1]  BY <3>1, <1>9
    <3>3. QED  BY <3>1, <3>2
  <2>4. QED  BY <2>1, <2>2, <2>3
<1>18. \A b \in Refs, j \in Nat : Place(b, j)' =>
         \/ b = a /\ items'[b][j] = r
         \/ \E l \in Nat : Place(b, l) /\ items[b][l] = items'[b][j]
  <2> SUFFICES ASSUME NEW b \in Refs, NEW j \in Nat, Place(b, j)'
               PROVE  \/ b = a /\ items'[b][j] = r
                      \/ \E l \in Nat : Place(b, l) /\ items[b][l] = items'[b][j]
    OBVIOUS
  <2>1. b \in Holders /\ j \in 1 .. Len(items'[b])  BY <1>15
  <2>2. CASE b = a  BY <2>1, <2>2, <1>9, <1>13, <1>17 DEF n
  <2>3. CASE b # a  BY <2>1, <2>3, <1>9, <1>13
  <2>4. QED  BY <2>2, <2>3
<1>19. ArraysOfPages'
  <2> SUFFICES ASSUME OnlyPages, NEW b \in Refs, NEW j \in Nat, kind[b] = "array", Place(b, j)'
               PROVE  kind[items'[b][j]] = "page"
    BY <1>7 DEF ArraysOfPages
  <2>1. CASE b = a /\ items'[b][j] = r
    <3>1. <<r, "page">> \in S.is /\ "page" \in Kinds  BY <1>3 DEF AllowsPut, Kinds
    <3>2. QED  BY <2>1, <3>1, <1>1, <1>2 DEF Grounded
  <2>2. CASE \E l \in Nat : Place(b, l) /\ items[b][l] = items'[b][j]
    BY <2>2, <1>1 DEF ArraysOfPages
  <2>3. QED  BY <2>1, <2>2, <1>18
<1>20. ArraysRetain'  BY <1>1, <1>7 DEF ArraysRetain, Live
<1>21. Heaped'
  <2>1. QuietAccounts  BY <1>1, <1>10, QuietHeaped
  <2>2. QuietAccounts'
    <3>1. \A x \in Refs : Live(x)' <=> refcount'[x] > 0
      BY <2>1, <1>7, <1>8 DEF QuietAccounts, Live
    <3>2. \A x \in Refs : refcount'[x] = client'[x] + local'[x] + Cardinality(Kept(Holders', items', x))
      <4> TAKE x \in Refs
      <4> DEFINE k == Cardinality(Kept(Holders, items, x))
                 l == Cardinality(Kept(Holders, items', x))
      <4>1. Holders \in SUBSET Refs /\ items \in [Refs -> Seq(Refs)]  BY <1>1 DEF Holders, TypeOK
      <4>2. Widens(items, items', a, i, r)  BY <1>1, <1>2, <1>9 DEF TypeOK, Widens
      <4>3. l = k + IF x = r THEN 1 ELSE 0
        <5>1. items \in Tables /\ items' \in Tables  BY <1>1, <1>11 DEF Typed, TypeOK, Tables
        <5>2. /\ x = r => l = k + 1
              /\ x # r => l = k
          BY ONLY <4>1, <4>2, <5>1, <1>6, Widened
        <5>3. k \in Nat  BY <4>1, KeptFinite, AtLeast
        <5> HIDE DEF k, l
        <5>4. QED  BY <5>2, <5>3
      <4>4. k \in Nat  BY <4>1, KeptFinite, AtLeast
      <4>5. refcount[x] = client[x] + local[x] + k /\ client[x] \in Nat /\ local[x] \in Nat
        BY <2>1, <1>1 DEF QuietAccounts, TypeOK
      <4> HIDE DEF k, l
      <4>6. refcount'[x] = client[x] + local[x] + l
        BY <4>3, <4>4, <4>5, <1>8
      <4>7. QED  BY <4>6, <1>7, <1>12 DEF l
    <3>3. QED  BY <3>1, <3>2 DEF QuietAccounts
  <2>3. QED  BY <2>2, QuietHeapedNext, <1>10, <1>11, <1>19, <1>20
<1>22. \A b \in Refs : Guarded(S, b) => b # r /\ PrivateArray(b)'
  <2> SUFFICES ASSUME NEW b \in Refs, Guarded(S, b) PROVE b # r /\ PrivateArray(b)'
    OBVIOUS
  <2>1. /\ PrivateArray(b) /\ refcount[b] = 1 /\ kind[b] = "array" /\ client[b] = 0
        /\ b \notin S.held /\ (b \in S.own => b \in S.priv)
        /\ \A c \in Refs, j \in Nat : Place(c, j) /\ items[c][j] = b => kind[c] = "group"
    BY GuardedAlone
  <2>2. CASE <<r, "page">> \in S.is
    <3>1. kind[r] = "page"  BY <2>2, <1>1, <1>2 DEF Grounded, Kinds
    <3>2. \A j \in Nat : Place(b, j)' => kind[items'[b][j]] = "page"
      BY <2>1, <3>1, <1>18 DEF PrivateArray
    <3>3. b # r  BY <2>1, <3>1
    <3>4. QED  BY <2>1, <3>2, <3>3, <1>7, <1>8 DEF PrivateArray
  <2>3. CASE /\ a \in S.held \/ a \in S.own \ S.priv
             /\ r \in S.held \/ \E c \in Refs : <<c, "array">> \in S.is /\ <<c, r>> \in S.has
    <3>1. b # a  BY <2>1, <2>3
    <3>2. b # r
      <4>1. ASSUME NEW c \in Refs, <<c, "array">> \in S.is, <<c, r>> \in S.has, b = r
            PROVE  FALSE
        <5>1. \E j \in Nat : Place(c, j) /\ items[c][j] = b
          BY <4>1, <1>1, <1>2, OwnersCount
        <5>2. kind[c] = "array"  BY <4>1, <1>1 DEF Grounded, Kinds
        <5>3. QED  BY <5>1, <5>2, <2>1
      <4>2. QED  BY <2>1, <2>3, <4>1
    <3>3. \A j \in Nat : Place(b, j)' => kind[items'[b][j]] = "page"
      BY <2>1, <3>1, <1>18 DEF PrivateArray
    <3>4. QED  BY <2>1, <3>2, <3>3, <1>7, <1>8 DEF PrivateArray
  <2>4. QED  BY <2>2, <2>3, <1>3 DEF AllowsPut
<1>23. \A b \in S.bare : b # r /\ b # a
  <2> SUFFICES ASSUME NEW b \in S.bare PROVE b # r /\ b # a
    OBVIOUS
  <2>1. b \in Refs /\ kind[b] \in {"group", "file"} /\ b \notin S.held /\ Keepers(b) = {}
    BY BareAlone
  <2>2. <<r, "page">> \in S.is => b # r  BY <2>1, <1>1, <1>2 DEF Grounded, Kinds
  <2>3. ASSUME NEW c \in Refs, <<c, r>> \in S.has, b = r PROVE FALSE
    <3>1. \E j \in Nat : Place(c, j) /\ items[c][j] = b  BY <2>3, <1>1, <1>2, OwnersCount
    <3>2. QED  BY <3>1, <2>1, <1>1, KeepersAre
  <2>4. QED  BY <2>1, <2>2, <2>3, <1>3, <1>5 DEF AllowsPut
<1>24. Grounded(T)'
  <2>1. \A x \in Refs : local'[x] = IF x \in T.own THEN 1 ELSE 0
    BY <1>1, <1>3, <1>7 DEF Grounded, AllowsPut
  <2>2. \A x \in T.fresh : ~Live(x)'
    BY <1>1, <1>3, <1>7 DEF Grounded, AllowsPut, Fewer, Live
  <2>3. \A x \in T.held : client'[x] > 0
    BY <1>1, <1>3, <1>7 DEF Grounded, AllowsPut, Fewer
  <2>4. \A b, x \in Refs : <<b, x>> \in T.has => \E j \in Nat : Item(b, j, x)'
    <3> SUFFICES ASSUME NEW b \in Refs, NEW x \in Refs, <<b, x>> \in T.has
                 PROVE  \E j \in Nat : Item(b, j, x)'
      OBVIOUS
    <3>1. \A j \in Nat : Item(b, j, x)' <=>
            Live(b) /\ Retains(b) /\ j \in 1 .. Len(items'[b]) /\ items'[b][j] = x
      BY <1>7, <1>10, <1>11, <1>14 DEF Item, Live, Retains
    <3>2. CASE <<b, x>> = <<a, r>>
      <4>1. i \in Nat /\ i \in 1 .. n + 1 /\ items'[a][i] = r  BY <1>9 DEF n
      <4>2. Live(a) /\ Retains(a)  BY <1>5, <1>6 DEF Live, Retains
      <4>3. b = a /\ x = r  BY <3>2
      <4>4. Item(b, i, x)'  BY <3>1, <4>1, <4>2, <4>3, <1>9
      <4>5. QED  BY <4>1, <4>4
    <3>3. CASE <<b, x>> \in S.has
      <4>1. PICK j \in Nat : Item(b, j, x)  BY <3>3, <1>1 DEF Grounded
      <4>2. Live(b) /\ Retains(b) /\ j \in 1 .. Len(items[b]) /\ items[b][j] = x  BY <4>1 DEF Item
      <4>3. CASE b = a
        <5>1. PICK l \in Nat : l \in 1 .. n + 1 /\ items'[a][l] = x
          BY <4>2, <4>3, <1>16 DEF n
        <5>2. Item(b, l, x)'  BY <3>1, <4>2, <4>3, <5>1, <1>9
        <5>3. QED  BY <5>2
      <4>4. CASE b # a
        <5>1. Item(b, j, x)'  BY <3>1, <4>2, <4>4, <1>9
        <5>2. QED  BY <5>1
      <4>5. QED  BY <4>3, <4>4
    <3>4. QED  BY <3>2, <3>3, <1>3 DEF AllowsPut
  <2>5. \A x \in Refs, k \in Kinds : <<x, k>> \in T.is => kind'[x] = k
    BY <1>1, <1>3, <1>7 DEF Grounded, AllowsPut
  <2>6. \A x \in T.bare : kind'[x] \in {"group", "file"} /\ items'[x] = <<>> /\ refcount'[x] = 1
    <3> SUFFICES ASSUME NEW x \in T.bare
                 PROVE  kind'[x] \in {"group", "file"} /\ items'[x] = <<>> /\ refcount'[x] = 1
      OBVIOUS
    <3>1. x \in S.bare /\ x # r /\ x # a  BY <1>3, <1>23 DEF AllowsPut
    <3>2. x \in Refs /\ refcount[x] = 1 /\ items[x] = <<>> /\ kind[x] \in {"group", "file"}
      BY <3>1, BareAlone
    <3>3. QED  BY <3>1, <3>2, <1>7, <1>8, <1>9
  <2>7. \A x \in T.priv : PrivateArray(x)'
    BY <1>3, <1>22, GuardedOnes DEF AllowsPut, Fewer
  <2>8. \A k \in 1 .. Len(todo') : todo'[k].op # "shift"  BY <1>10, <1>11, <1>14
  <2>9. T \in Grounds  BY <1>1
  <2>10. QED  BY ONLY <2>1, <2>2, <2>3, <2>4, <2>5, <2>6, <2>7, <2>8, <2>9 DEF Grounded
<1>25. GroupsOwn(T)'
  <2> SUFFICES ASSUME NEW g \in Refs, kind[g] = "group", refcount'[g] > 0, g \notin T.bare
               PROVE  Len(items'[g]) = 1 /\ PrivateArray(items[g][1])'
    BY <1>7 DEF GroupsOwn
  <2>1. refcount[g] > 0 /\ g \notin S.bare /\ g # a  BY <1>3, <1>5, <1>8 DEF AllowsPut
  <2>2. Len(items[g]) = 1 /\ items[g][1] \in Refs /\ Guarded(S, items[g][1])
    BY <2>1, GuardedOnes
  <2>3. QED  BY <2>1, <2>2, <1>9, <1>22
<1>26. FilesOwn(T)'
  <2> SUFFICES ASSUME NEW f \in Refs, kind[f] = "file", refcount'[f] > 0, f \notin T.bare
               PROVE  /\ Len(items'[f]) = 1
                      /\ kind[items'[f][1]] = "group" /\ items'[f][1] \notin T.bare
    BY <1>7 DEF FilesOwn
  <2>1. refcount[f] > 0 /\ f \notin S.bare /\ f # a  BY <1>3, <1>5, <1>8 DEF AllowsPut
  <2>2. QED  BY <2>1, <1>1, <1>3, <1>9 DEF FilesOwn, AllowsPut
<1>27. QED  BY <1>21, <1>24, <1>25, <1>26 DEF Holds

LEMMA AdoptHolds ==
  ASSUME NEW S, NEW T, Ready(S, T), NEW a, NEW r, a = step.a, r = step.r, DoAdopt
  PROVE  Heaped' /\ Holds(T)'
<1>1. /\ Typed /\ TypeOK /\ RefsAccounted /\ Unburied /\ ArraysRetain /\ Stacked /\ ArraysOfPages
      /\ Grounded(S) /\ GroupsOwn(S) /\ FilesOwn(S) /\ Heaped
      /\ step \in Steps /\ Tail(todo) \in Seq(Steps)
      /\ Sound(S) /\ S \in Grounds /\ T \in Grounds
  BY ReadyFacts DEF Ready
<1>2. step.op = "adopt" /\ a \in Refs /\ r \in Refs  BY <1>1, StepFields DEF DoAdopt, Does
<1>3. AllowsAdopt(step, S, T)  BY <1>2 DEF Ready, Allows
<1>4. /\ a \in S.bare /\ kind[a] \in {"group", "file"} /\ items[a] = <<>> /\ refcount[a] = 1
  BY <1>3, BareAlone DEF AllowsAdopt
<1>5. /\ r \in S.own /\ local[r] = 1
      /\ \/ kind[a] = "group" /\ r \in S.priv /\ kind[r] = "array"
         \/ kind[a] = "file" /\ kind[r] = "group" /\ r \notin S.bare
  <2>1. local[r] = 1  BY <1>1, <1>2, <1>3 DEF AllowsAdopt, Grounded
  <2>2. ASSUME r \in S.priv PROVE kind[r] = "array"  BY <2>2, <1>1 DEF Grounded, PrivateArray
  <2>3. QED  BY <2>1, <2>2, <1>1, <1>2, <1>3 DEF AllowsAdopt, Grounded, Kinds
<1>6. a # r  BY <1>4, <1>5
<1>7. /\ kind' = kind /\ refcount' = refcount /\ cap' = cap /\ callbacks' = callbacks
      /\ isMutable' = isMutable /\ client' = client /\ todo' = Tail(todo)
  BY DEF DoAdopt
<1>8. /\ items'[a] = <<r>> /\ \A x \in Refs : x # a => items'[x] = items[x]
      /\ local'[r] = 0 /\ \A x \in Refs : x # r => local'[x] = local[x]
  BY <1>1, <1>2, <1>5 DEF DoAdopt, TypeOK
<1>9. <<r>> \in Seq(Refs) /\ Len(<<r>>) = 1 /\ <<r>>[1] = r /\ Len(<<>>) = 0  BY <1>2
<1>10. Quiet(todo) /\ Quiet(todo') /\ todo' \in Seq(Steps)
  BY <1>1, <1>2, <1>7, Quieted DEF Ready
<1>11. Typed'
  <2>1. items' \in [Refs -> Seq(Refs)]  BY <1>1, <1>9 DEF DoAdopt, TypeOK
  <2>2. local' \in [Refs -> Nat]
    <3>1. local' = [local EXCEPT ![r] = local[r] - 1]  BY DEF DoAdopt
    <3>2. local[r] - 1 \in Nat  BY <1>5
    <3>3. QED  BY <3>1, <3>2, <1>1 DEF TypeOK
  <2>3. \A x \in Refs : /\ kind'[x] \in {"group", "file"} => Len(items'[x]) <= 1
                        /\ kind'[x] = "array" => Len(items'[x]) <= cap'[x]
    <3> TAKE x \in Refs
    <3>1. CASE x = a  BY <3>1, <1>4, <1>7, <1>8, <1>9
    <3>2. CASE x # a  BY <3>2, <1>1, <1>7, <1>8 DEF TypeOK
    <3>3. QED  BY <3>1, <3>2
  <2>4. QED  BY <2>1, <2>2, <2>3, <1>1, <1>7, <1>10 DEF Typed, TypeOK
<1>12. Holders' = Holders  BY <1>7 DEF Holders, Keeping, Live, Retains
<1>13. a \in Holders  BY <1>2, <1>4 DEF Holders, Keeping, Live, Retains
<1>14. \A b \in Refs, j \in Nat : Place(b, j) <=> b \in Holders /\ j \in 1 .. Len(items[b])
  BY <1>1, <1>10, QuietHeap
<1>15. /\ \A k \in 1 .. Len(todo') : todo'[k].op # "shift"
       /\ \A b, j : ~Leaving(b, j)'
       /\ \A b \in Refs, j \in Nat : Place(b, j)' <=> b \in Holders /\ j \in 1 .. Len(items'[b])
  BY <1>10, <1>11, <1>12, QuietHeapNext
<1>16. \A b \in Refs, j \in Nat : kind[b] = "array" => b # a /\ (Place(b, j)' <=> Place(b, j))
  BY <1>4, <1>8, <1>14, <1>15
<1>17. ArraysOfPages' /\ ArraysRetain'
  BY <1>1, <1>7, <1>8, <1>16 DEF ArraysOfPages, ArraysRetain, Live
<1>18. Heaped'
  <2>1. QuietAccounts  BY <1>1, <1>10, QuietHeaped
  <2>2. QuietAccounts'
    <3>1. \A x \in Refs : Live(x)' <=> refcount'[x] > 0
      BY <2>1, <1>7 DEF QuietAccounts, Live
    <3>2. \A x \in Refs : refcount'[x] = client'[x] + local'[x] + Cardinality(Kept(Holders', items', x))
      <4> TAKE x \in Refs
      <4> DEFINE k == Cardinality(Kept(Holders, items, x))
                 l == Cardinality(Kept(Holders, items', x))
      <4>1. Holders \in SUBSET Refs /\ items \in Tables /\ items' \in Tables
        BY <1>1, <1>11 DEF Holders, Typed, TypeOK, Tables
      <4>2. Widens(items, items', a, 1, r)
        <5> DEFINE s == <<>>
        <5>1. s \in Seq(Refs) /\ Len(s) = 0 /\ 1 \in 1 .. Len(s) + 1 /\ 1 \in Nat /\ r \in Refs
          BY <1>2, <1>9
        <5> HIDE DEF s
        <5>2. /\ InsertAt(s, 1, r) \in Seq(Refs) /\ Len(InsertAt(s, 1, r)) = Len(s) + 1
              /\ \A j \in 1 .. Len(s) + 1 : InsertAt(s, 1, r)[j] =
                   IF j < 1 THEN s[j] ELSE IF j = 1 THEN r ELSE s[j - 1]
          BY ONLY <5>1, InsertedEach, Zenon
        <5>3. Len(InsertAt(s, 1, r)) = 1 /\ InsertAt(s, 1, r)[1] = r  BY <5>1, <5>2
        <5>4. InsertAt(s, 1, r) = <<r>>  BY <5>2, <5>3, <1>9
        <5>5. QED  BY <5>1, <5>4, <1>2, <1>4, <1>8 DEF Widens, s
      <4>3. (x = r => l = k + 1) /\ (x # r => l = k)
        BY ONLY <4>1, <4>2, <1>13, Widened
      <4>4. k \in Nat  BY <1>1, <4>1, KeptFinite, AtLeast DEF TypeOK
      <4>5. /\ refcount[x] = client[x] + local[x] + k
            /\ client[x] \in Nat /\ local[x] \in Nat /\ local'[x] \in Nat
        BY <2>1, <1>1, <1>11 DEF QuietAccounts, Typed, TypeOK
      <4> HIDE DEF k, l
      <4>6. refcount[x] = client[x] + local'[x] + l
        BY <4>3, <4>4, <4>5, <1>5, <1>8
      <4>7. QED  BY <4>6, <1>7, <1>12 DEF l
    <3>3. QED  BY <3>1, <3>2 DEF QuietAccounts
  <2>3. QED  BY <2>2, QuietHeapedNext, <1>10, <1>11, <1>17
<1>19. \A b \in Refs : PrivateArray(b) => PrivateArray(b)'
  BY <1>7, <1>8, <1>16 DEF PrivateArray
<1>20. Grounded(T)'
  <2>1. \A x \in Refs : local'[x] = IF x \in T.own THEN 1 ELSE 0
    BY <1>1, <1>2, <1>3, <1>8 DEF Grounded, AllowsAdopt
  <2>2. \A x \in T.fresh : ~Live(x)'
    BY <1>1, <1>3, <1>7 DEF Grounded, AllowsAdopt, NoMore, Fewer, Live
  <2>3. \A x \in T.held : client'[x] > 0
    BY <1>1, <1>3, <1>7 DEF Grounded, AllowsAdopt, NoMore, Fewer
  <2>4. \A b, x \in Refs : <<b, x>> \in T.has => \E j \in Nat : Item(b, j, x)'
    <3> SUFFICES ASSUME NEW b \in Refs, NEW x \in Refs, <<b, x>> \in T.has
                 PROVE  \E j \in Nat : Item(b, j, x)'
      OBVIOUS
    <3>1. PICK j \in Nat : Item(b, j, x)  BY <1>1, <1>3 DEF Grounded, AllowsAdopt, NoMore
    <3>2. b # a  BY <3>1, <1>4, <1>9 DEF Item
    <3>3. Item(b, j, x)'  BY <3>1, <3>2, <1>7, <1>8, <1>15 DEF Item, Live, Retains
    <3>4. QED  BY <3>3
  <2>5. \A x \in Refs, k \in Kinds : <<x, k>> \in T.is => kind'[x] = k
    BY <1>1, <1>3, <1>7 DEF Grounded, AllowsAdopt, NoMore
  <2>6. \A x \in T.bare : kind'[x] \in {"group", "file"} /\ items'[x] = <<>> /\ refcount'[x] = 1
    <3> SUFFICES ASSUME NEW x \in T.bare
                 PROVE  kind'[x] \in {"group", "file"} /\ items'[x] = <<>> /\ refcount'[x] = 1
      OBVIOUS
    <3>1. x \in S.bare /\ x # a  BY <1>3 DEF AllowsAdopt
    <3>2. x \in Refs /\ refcount[x] = 1 /\ items[x] = <<>> /\ kind[x] \in {"group", "file"}
      BY <3>1, BareAlone
    <3>3. QED  BY <3>1, <3>2, <1>7, <1>8
  <2>7. \A x \in T.priv : PrivateArray(x)'
    <3>1. \A x \in T.priv : x \in S.priv /\ x \in Refs
      BY <1>1, <1>3 DEF AllowsAdopt, NoMore, Fewer, Grounds
    <3>2. QED  BY <3>1, <1>1, <1>19 DEF Grounded
  <2>8. T \in Grounds  BY <1>1
  <2>9. QED  BY ONLY <2>1, <2>2, <2>3, <2>4, <2>5, <2>6, <2>7, <2>8, <1>15 DEF Grounded
<1>21. GroupsOwn(T)'
  <2> SUFFICES ASSUME NEW g \in Refs, kind[g] = "group", refcount[g] > 0, g \notin T.bare
               PROVE  Len(items'[g]) = 1 /\ PrivateArray(items[g][1])'
    BY <1>7 DEF GroupsOwn
  <2>1. CASE g = a
    <3>1. r \in S.priv  BY <2>1, <1>5
    <3>2. PrivateArray(r)'  BY <3>1, <1>1, <1>2, <1>19 DEF Grounded
    <3>3. items'[g] = <<r>>  BY <2>1, <1>8
    <3>4. QED  BY <3>2, <3>3, <1>9
  <2>2. CASE g # a
    <3>1. g \notin S.bare  BY <2>2, <1>3 DEF AllowsAdopt
    <3>2. Len(items[g]) = 1 /\ items[g][1] \in Refs /\ PrivateArray(items[g][1])
      BY <3>1, <1>1, ItemsAreRefs DEF GroupsOwn
    <3>3. QED  BY <2>2, <3>2, <1>8, <1>19
  <2>3. QED  BY <2>1, <2>2
<1>22. FilesOwn(T)'
  <2> SUFFICES ASSUME NEW f \in Refs, kind[f] = "file", refcount[f] > 0, f \notin T.bare
               PROVE  /\ Len(items'[f]) = 1
                      /\ kind[items'[f][1]] = "group" /\ items'[f][1] \notin T.bare
    BY <1>7 DEF FilesOwn
  <2>1. CASE f = a
    BY <2>1, <1>3, <1>5, <1>8, <1>9 DEF AllowsAdopt
  <2>2. CASE f # a
    <3>1. f \notin S.bare  BY <2>2, <1>3 DEF AllowsAdopt
    <3>2. QED  BY <2>2, <3>1, <1>1, <1>3, <1>8 DEF FilesOwn, AllowsAdopt
  <2>3. QED  BY <2>1, <2>2
<1>23. QED  BY <1>18, <1>20, <1>21, <1>22 DEF Holds
LEMMA FreezeHolds ==
  ASSUME NEW S, NEW T, Ready(S, T), NEW a, a = step.a, DoFreeze
  PROVE  Heaped' /\ Holds(T)'
<1>1. /\ Typed /\ TypeOK /\ RefsAccounted /\ Unburied /\ ArraysRetain /\ Stacked /\ ArraysOfPages
      /\ Grounded(S) /\ GroupsOwn(S) /\ FilesOwn(S) /\ Heaped
      /\ step \in Steps /\ Tail(todo) \in Seq(Steps)
      /\ Sound(S) /\ S \in Grounds /\ T \in Grounds
  BY ReadyFacts DEF Ready
<1>2. step.op = "freeze" /\ a \in Refs  BY <1>1, StepFields DEF DoFreeze, Does
<1>3. a \in S.own /\ a \notin S.priv /\ T = S  BY <1>2 DEF Ready, Allows, AllowsFreeze
<1>4. /\ kind' = kind /\ refcount' = refcount /\ items' = items /\ cap' = cap
      /\ callbacks' = callbacks /\ client' = client /\ local' = local /\ todo' = Tail(todo)
  BY DEF DoFreeze
<1>5. \A x \in Refs : x # a => isMutable'[x] = isMutable[x]
  BY <1>1 DEF DoFreeze, TypeOK
<1>6. Quiet(todo) /\ Quiet(todo') /\ todo' \in Seq(Steps)
  BY <1>1, <1>2, <1>4, Quieted DEF Ready
<1>7. Typed'
  <2>1. isMutable' \in [Refs -> BOOLEAN]  BY <1>1 DEF DoFreeze, TypeOK
  <2>2. QED  BY <2>1, <1>1, <1>4, <1>6 DEF Typed, TypeOK
<1>8. Holders' = Holders  BY <1>4 DEF Holders, Keeping, Live, Retains
<1>9. \A b \in Refs, j \in Nat : Place(b, j) <=> b \in Holders /\ j \in 1 .. Len(items[b])
  BY <1>1, <1>6, QuietHeap
<1>10. /\ \A k \in 1 .. Len(todo') : todo'[k].op # "shift"
       /\ \A b, j : ~Leaving(b, j)'
       /\ \A b \in Refs, j \in Nat : Place(b, j)' <=> b \in Holders' /\ j \in 1 .. Len(items'[b])
  BY <1>6, <1>7, QuietHeapNext
<1>11. \A b \in Refs, j \in Nat : Place(b, j)' <=> Place(b, j)
  BY <1>4, <1>6, <1>7, <1>8, <1>9, <1>10
<1>12. ArraysOfPages' /\ ArraysRetain'
  BY <1>1, <1>4, <1>11 DEF ArraysOfPages, ArraysRetain, Live
<1>13. Heaped'
  <2>1. QuietAccounts  BY <1>1, <1>6, QuietHeaped
  <2>2. QuietAccounts'  BY <2>1, <1>4, <1>8 DEF QuietAccounts, Live
  <2>3. QED  BY <2>2, QuietHeapedNext, <1>6, <1>7, <1>12
<1>14. \A b \in Refs : Guarded(S, b) => PrivateArray(b)'
  <2> SUFFICES ASSUME NEW b \in Refs, Guarded(S, b) PROVE PrivateArray(b)'
    OBVIOUS
  <2>1. PrivateArray(b) /\ (b \in S.own => b \in S.priv)  BY GuardedAlone
  <2>2. b # a  BY <2>1, <1>3
  <2>3. QED  BY <2>1, <2>2, <1>4, <1>5, <1>11 DEF PrivateArray
<1>15. Grounded(S)'
  <2>1. \A x \in S.priv : PrivateArray(x)'  BY <1>14, GuardedOnes
  <2>2. \A b, x \in Refs : <<b, x>> \in S.has => \E j \in Nat : Item(b, j, x)'
    <3> SUFFICES ASSUME NEW b \in Refs, NEW x \in Refs, <<b, x>> \in S.has
                 PROVE  \E j \in Nat : Item(b, j, x)'
      OBVIOUS
    <3>1. PICK j \in Nat : Item(b, j, x)  BY <1>1 DEF Grounded
    <3>2. ~Leaving(b, j)'  BY <1>6, <1>7, <1>10
    <3>3. Item(b, j, x)'  BY <3>1, <3>2, <1>4 DEF Item, Live, Retains
    <3>4. QED  BY <3>3
  <2>3. \A k \in 1 .. Len(todo') : todo'[k].op # "shift"  BY <1>6, <1>7, <1>10
  <2>4. QED  BY <2>1, <2>2, <2>3, <1>1, <1>4 DEF Grounded, Live
<1>16. GroupsOwn(S)'
  <2> SUFFICES ASSUME NEW g \in Refs, kind[g] = "group", refcount[g] > 0, g \notin S.bare
               PROVE  Len(items[g]) = 1 /\ PrivateArray(items[g][1])'
    BY <1>4 DEF GroupsOwn
  <2>1. Len(items[g]) = 1 /\ items[g][1] \in Refs /\ Guarded(S, items[g][1])  BY GuardedOnes
  <2>2. QED  BY <2>1, <1>4, <1>14
<1>17. FilesOwn(S)'  BY <1>1, <1>4 DEF FilesOwn
<1>18. QED  BY <1>3, <1>13, <1>15, <1>16, <1>17 DEF Holds

LEMMA KeepHolds ==
  ASSUME NEW S, NEW T, Ready(S, T), NEW r, r = step.r, DoKeep
  PROVE  Heaped' /\ Holds(T)'
<1>1. /\ Typed /\ TypeOK /\ RefsAccounted /\ Unburied /\ ArraysRetain /\ Stacked /\ ArraysOfPages
      /\ Grounded(S) /\ GroupsOwn(S) /\ FilesOwn(S) /\ Heaped
      /\ step \in Steps /\ Tail(todo) \in Seq(Steps)
      /\ Sound(S) /\ S \in Grounds /\ T \in Grounds
  BY ReadyFacts DEF Ready
<1>2. step.op = "keep" /\ r \in Refs  BY <1>1, StepFields DEF DoKeep, Does
<1>3. /\ r \in S.own /\ r \notin S.priv
      /\ T.held = S.held /\ T.fresh \subseteq S.fresh /\ T.priv \subseteq S.priv
      /\ T.has \subseteq S.has /\ T.is \subseteq S.is
      /\ T.own = S.own \ {r} /\ T.bare = S.bare
  BY <1>2 DEF Ready, Allows, AllowsKeep, NoMore, Fewer
<1>4. /\ kind' = kind /\ refcount' = refcount /\ items' = items /\ cap' = cap
      /\ callbacks' = callbacks /\ isMutable' = isMutable /\ todo' = Tail(todo)
  BY DEF DoKeep, heap
<1>5. local[r] = 1 /\ client[r] \in Nat  BY <1>1, <1>2, <1>3 DEF Grounded, TypeOK
<1>6. /\ local'[r] = 0 /\ client'[r] = client[r] + 1
      /\ \A x \in Refs : x # r => local'[x] = local[x] /\ client'[x] = client[x]
  BY <1>1, <1>2, <1>5 DEF DoKeep, TypeOK
<1>7. Quiet(todo) /\ Quiet(todo') /\ todo' \in Seq(Steps)
  BY <1>1, <1>2, <1>4, Quieted DEF Ready
<1>8. Typed'
  <2>1. local' \in [Refs -> Nat]
    <3>1. local' = [local EXCEPT ![r] = 0]  BY <1>1, <1>2, <1>5 DEF DoKeep, TypeOK
    <3>2. QED  BY <3>1, <1>1 DEF TypeOK
  <2>2. client' \in [Refs -> Nat]
    <3> DEFINE c == client[r] + 1
    <3>1. client' = [client EXCEPT ![r] = c]  BY DEF DoKeep
    <3>2. c \in Nat  BY <1>5
    <3> HIDE DEF c
    <3>3. QED  BY <3>1, <3>2, <1>1 DEF TypeOK
  <2>3. QED  BY <2>1, <2>2, <1>1, <1>4, <1>7 DEF Typed, TypeOK
<1>9. Holders' = Holders  BY <1>4 DEF Holders, Keeping, Live, Retains
<1>10. \A b \in Refs, j \in Nat : Place(b, j) <=> b \in Holders /\ j \in 1 .. Len(items[b])
  BY <1>1, <1>7, QuietHeap
<1>11. /\ \A k \in 1 .. Len(todo') : todo'[k].op # "shift"
       /\ \A b, j : ~Leaving(b, j)'
       /\ \A b \in Refs, j \in Nat : Place(b, j)' <=> b \in Holders' /\ j \in 1 .. Len(items'[b])
  BY <1>7, <1>8, QuietHeapNext
<1>12. \A b \in Refs, j \in Nat : Place(b, j)' <=> Place(b, j)
  BY <1>4, <1>7, <1>8, <1>9, <1>10, <1>11
<1>13. ArraysOfPages' /\ ArraysRetain'
  BY <1>1, <1>4, <1>12 DEF ArraysOfPages, ArraysRetain, Live
<1>14. Heaped'
  <2>1. QuietAccounts  BY <1>1, <1>7, QuietHeaped
  <2>2. QuietAccounts'
    <3>1. \A x \in Refs : Live(x)' <=> refcount'[x] > 0  BY <2>1, <1>4 DEF QuietAccounts, Live
    <3>2. \A x \in Refs : refcount'[x] = client'[x] + local'[x] + Cardinality(Kept(Holders', items', x))
      <4> TAKE x \in Refs
      <4>1. refcount[x] = client[x] + local[x] + Cardinality(Kept(Holders, items, x))
        BY <2>1 DEF QuietAccounts
      <4>2. client'[x] + local'[x] = client[x] + local[x]
        <5>1. CASE x = r  BY <5>1, <1>5, <1>6
        <5>2. CASE x # r  BY <5>2, <1>6
        <5>3. QED  BY <5>1, <5>2
      <4>3. QED  BY <4>1, <4>2, <1>4, <1>9
    <3>3. QED  BY <3>1, <3>2 DEF QuietAccounts
  <2>3. QED  BY <2>2, QuietHeapedNext, <1>7, <1>8, <1>13
<1>15. \A b \in Refs : Guarded(S, b) => PrivateArray(b)'
  <2> SUFFICES ASSUME NEW b \in Refs, Guarded(S, b) PROVE PrivateArray(b)'
    OBVIOUS
  <2>1. PrivateArray(b) /\ (b \in S.own => b \in S.priv)  BY GuardedAlone
  <2>2. b # r  BY <2>1, <1>3
  <2>3. QED  BY <2>1, <2>2, <1>4, <1>6, <1>12 DEF PrivateArray
<1>16. Grounded(T)'
  <2>1. \A x \in T.priv : PrivateArray(x)'  BY <1>3, <1>15, GuardedOnes
  <2>2. \A b, x \in Refs : <<b, x>> \in T.has => \E j \in Nat : Item(b, j, x)'
    <3> SUFFICES ASSUME NEW b \in Refs, NEW x \in Refs, <<b, x>> \in T.has
                 PROVE  \E j \in Nat : Item(b, j, x)'
      OBVIOUS
    <3>1. PICK j \in Nat : Item(b, j, x)  BY <1>1, <1>3 DEF Grounded
    <3>2. ~Leaving(b, j)'  BY <1>7, <1>8, <1>11
    <3>3. Item(b, j, x)'  BY <3>1, <3>2, <1>4 DEF Item, Live, Retains
    <3>4. QED  BY <3>3
  <2>3. \A k \in 1 .. Len(todo') : todo'[k].op # "shift"  BY <1>7, <1>8, <1>11
  <2>4. \A x \in Refs : local'[x] = IF x \in T.own THEN 1 ELSE 0
    BY <1>1, <1>3, <1>6 DEF Grounded
  <2>5. \A x \in T.held : client'[x] > 0
    <3> TAKE x \in T.held
    <3>1. x \in Refs /\ client[x] > 0  BY <1>1, <1>3 DEF Grounded, Grounds
    <3>2. QED  BY <3>1, <1>5, <1>6
  <2>6. /\ \A x \in T.fresh : ~Live(x)'
        /\ \A x \in Refs, k \in Kinds : <<x, k>> \in T.is => kind'[x] = k
        /\ \A x \in T.bare : kind'[x] \in {"group", "file"} /\ items'[x] = <<>> /\ refcount'[x] = 1
    BY <1>1, <1>3, <1>4 DEF Grounded, Live
  <2>7. QED  BY <2>1, <2>2, <2>3, <2>4, <2>5, <2>6, <1>1 DEF Grounded
<1>17. GroupsOwn(T)'
  <2> SUFFICES ASSUME NEW g \in Refs, kind[g] = "group", refcount[g] > 0, g \notin S.bare
               PROVE  Len(items[g]) = 1 /\ PrivateArray(items[g][1])'
    BY <1>3, <1>4 DEF GroupsOwn
  <2>1. Len(items[g]) = 1 /\ items[g][1] \in Refs /\ Guarded(S, items[g][1])  BY GuardedOnes
  <2>2. QED  BY <2>1, <1>4, <1>15
<1>18. FilesOwn(T)'  BY <1>1, <1>3, <1>4 DEF FilesOwn
<1>19. QED  BY <1>14, <1>16, <1>17, <1>18 DEF Holds
-----------------------------------------------------------------------------
(* What is pushed on todo: its drops are counted beside those below.       *)
Dropping(p, x) == {d \in 0 .. Len(p) - 1 : p[Len(p) - d].op = "drop" /\ p[Len(p) - d].r = x}

LEMMA Pushed ==
  \A p, q \in Seq(Steps), x \in Refs :
    /\ IsFiniteSet(Dropping(p, x)) /\ Cardinality(Dropping(p, x)) \in Nat
    /\ Cardinality(Dropping(q \o p, x)) = Cardinality(Dropping(p, x)) + Cardinality(Dropping(q, x))
<1> TAKE p, q \in Seq(Steps), x \in Refs
<1> DEFINE m == Len(q)
           n == Len(p)
           P == Dropping(p, x)
           Q == Dropping(q, x)
           D == Dropping(q \o p, x)
           E == D \ P
           f == [e \in Q |-> n + e]
<1>1. m \in Nat /\ n \in Nat  OBVIOUS
<1>2. /\ q \o p \in Seq(Steps) /\ Len(q \o p) = m + n
      /\ \A k \in 1 .. m + n : (q \o p)[k] = IF k <= m THEN q[k] ELSE p[k - m]
  OBVIOUS
<1>3. \A d \in Nat : d \in P <=> d < n /\ p[n - d].op = "drop" /\ p[n - d].r = x
  BY <1>1 DEF Dropping
<1>4. \A e \in Nat : e \in Q <=> e < m /\ q[m - e].op = "drop" /\ q[m - e].r = x
  BY <1>1 DEF Dropping
<1>5. P \subseteq Nat /\ Q \subseteq Nat /\ D \subseteq Nat  BY DEF Dropping
<1>6. \A d \in Nat : d \in D <=>
        d < m + n /\ (q \o p)[m + n - d].op = "drop" /\ (q \o p)[m + n - d].r = x
  BY <1>1, <1>2 DEF Dropping
<1>7. IsFiniteSet(P) /\ IsFiniteSet(Q) /\ IsFiniteSet(D)
  <2> DEFINE l == Len(q \o p)
  <2>1. IsFiniteSet(0 .. n - 1) /\ IsFiniteSet(0 .. m - 1) /\ IsFiniteSet(0 .. l - 1)
    <3>1. n - 1 \in Int /\ m - 1 \in Int /\ l - 1 \in Int  BY <1>1, <1>2
    <3> HIDE DEF l, m, n
    <3>2. QED  BY <3>1, FS_Interval
  <2>2. P \subseteq 0 .. n - 1 /\ Q \subseteq 0 .. m - 1 /\ D \subseteq 0 .. Len(q \o p) - 1
    BY DEF Dropping
  <2>3. QED  BY <2>1, <2>2, FS_Subset
<1> HIDE DEF P, Q, D, m, n
<1>8. \A d \in Nat : d < n => (d \in D <=> d \in P)
  <2> SUFFICES ASSUME NEW d \in Nat, d < n PROVE d \in D <=> d \in P
    OBVIOUS
  <2> DEFINE k == m + n - d
  <2>1. d < m + n /\ k \in 1 .. m + n /\ ~(k <= m) /\ k - m = n - d
    BY <1>1
  <2>2. d \in D <=> (q \o p)[k].op = "drop" /\ (q \o p)[k].r = x  BY <2>1, <1>6
  <2> HIDE DEF k
  <2>3. (q \o p)[k] = p[n - d]  BY <2>1, <1>2
  <2>4. QED  BY <2>2, <2>3, <1>3
<1>9. \A e \in Nat : n + e \in D <=> e \in Q
  <2> TAKE e \in Nat
  <2>1. CASE e < m
    <3>1. n + e \in Nat /\ n + e < m + n /\ m + n - (n + e) = m - e
          /\ m - e \in 1 .. m + n /\ m - e <= m
      BY <2>1, <1>1
    <3>2. (q \o p)[m - e] = q[m - e]  BY <3>1, <1>2
    <3> DEFINE d == n + e
    <3>3. d \in Nat /\ d < m + n /\ m + n - d = m - e  BY <3>1
    <3> HIDE DEF d
    <3>4. d \in D <=> (q \o p)[m - e].op = "drop" /\ (q \o p)[m - e].r = x
      BY <3>3, <1>6
    <3>5. QED  BY <3>2, <3>4, <2>1, <1>4 DEF d
  <2>2. CASE ~(e < m)
    <3>1. n + e \in Nat /\ ~(n + e < m + n)  BY <2>2, <1>1
    <3>2. QED  BY <3>1, <2>2, <1>4, <1>6
  <2>3. QED  BY <2>1, <2>2
<1>10. P \subseteq D
  BY <1>1, <1>3, <1>5, <1>8
<1>11. \A d \in E : d \in Nat /\ d - n \in Nat /\ n + (d - n) = d
  <2> SUFFICES ASSUME NEW d \in E PROVE d \in Nat /\ d - n \in Nat /\ n + (d - n) = d
    OBVIOUS
  <2>1. d \in Nat /\ d \in D /\ d \notin P  BY <1>5
  <2>2. ~(d < n)  BY <2>1, <1>8
  <2>3. QED  BY <2>1, <2>2, <1>1
<1>12. f \in [Q -> E]
  <2> SUFFICES ASSUME NEW e \in Q PROVE n + e \in E
    OBVIOUS
  <2>1. e \in Nat /\ n + e \in Nat /\ ~(n + e < n)  BY <1>1, <1>5
  <2>2. n + e \in D  BY <2>1, <1>9
  <2>3. n + e \notin P  BY <2>1, <1>3
  <2>4. QED  BY <2>2, <2>3
<1>13. \A y, z \in Q : f[y] = f[z] => y = z
  <2> SUFFICES ASSUME NEW y \in Q, NEW z \in Q, n + y = n + z PROVE y = z
    OBVIOUS
  <2>1. y \in Nat /\ z \in Nat  BY <1>5
  <2>2. QED  BY <2>1, <1>1
<1>14. \A d \in E : \E e \in Q : f[e] = d
  <2> SUFFICES ASSUME NEW d \in E PROVE \E e \in Q : n + e = d
    OBVIOUS
  <2>1. d - n \in Nat /\ n + (d - n) = d  BY <1>11
  <2>2. d - n \in Q  BY <2>1, <1>9
  <2>3. QED  BY <2>1, <2>2
<1> HIDE DEF f
<1>15. IsFiniteSet(E) /\ Cardinality(E) = Cardinality(Q)
  BY <1>7, <1>12, <1>13, <1>14, SameCount
<1>16. Cardinality(P) \in Nat /\ Cardinality(Q) \in Nat  BY <1>7, FS_CardinalityType
<1>17. D = P \cup E /\ P \cap E = {}  BY <1>10
<1> HIDE DEF E
<1>18. Cardinality(D) = Cardinality(P) + Cardinality(E)
  <2>1. Cardinality(P \cup E) = Cardinality(P) + Cardinality(E) - Cardinality(P \cap E)
    BY <1>7, <1>15, FS_Union
  <2>2. Cardinality(P \cap E) = 0  BY <1>17, FS_EmptySet
  <2>3. Cardinality(P) + Cardinality(E) - 0 = Cardinality(P) + Cardinality(E)
    BY <1>15, <1>16
  <2>4. QED  BY <2>1, <2>2, <2>3, <1>17
<1>19. QED  BY <1>7, <1>15, <1>16, <1>18 DEF P, Q, D

LEMMA DropsOne ==
  \A s \in Steps, x \in Refs :
    /\ s.op = "drop" /\ s.r = x => Cardinality(Dropping(<<s>>, x)) = 1
    /\ ~(s.op = "drop" /\ s.r = x) => Cardinality(Dropping(<<s>>, x)) = 0
<1> SUFFICES ASSUME NEW s \in Steps, NEW x \in Refs
             PROVE  /\ s.op = "drop" /\ s.r = x => Cardinality(Dropping(<<s>>, x)) = 1
                    /\ ~(s.op = "drop" /\ s.r = x) => Cardinality(Dropping(<<s>>, x)) = 0
  OBVIOUS
<1>1. /\ Len(<<s>>) = 1 /\ <<s>>[1] = s /\ 0 \in 0 .. 1 - 1
      /\ \A d \in 0 .. 1 - 1 : d = 0 /\ 1 - d = 1
  OBVIOUS
<1>2. s.op = "drop" /\ s.r = x => Dropping(<<s>>, x) = {0}  BY <1>1 DEF Dropping
<1>3. ~(s.op = "drop" /\ s.r = x) => Dropping(<<s>>, x) = {}  BY <1>1 DEF Dropping
<1>4. Cardinality({0}) = 1 /\ Cardinality({}) = 0  BY FS_Singleton, FS_EmptySet
<1>5. QED  BY <1>2, <1>3, <1>4

(* The drops a teardown pushes: one for each item.                         *)
Dropped(s) == [i \in 1 .. Len(s) |-> Drop(s[i])]
At(s, x)   == {i \in 1 .. Len(s) : s[i] = x}

LEMMA DropsItems ==
  \A s \in Seq(Refs), x \in Refs :
    /\ Dropped(s) \in Seq(Steps) /\ Len(Dropped(s)) = Len(s)
    /\ \A i \in 1 .. Len(s) : Dropped(s)[i] = Drop(s[i])
    /\ IsFiniteSet(At(s, x)) /\ Cardinality(At(s, x)) \in Nat
    /\ Cardinality(Dropping(Dropped(s), x)) = Cardinality(At(s, x))
<1> TAKE s \in Seq(Refs), x \in Refs
<1> DEFINE n == Len(s)
           q == Dropped(s)
           K == At(s, x)
           L == Dropping(q, x)
           f == [i \in K |-> n - i]
<1>1. n \in Nat /\ \A i \in 1 .. n : s[i] \in Refs  OBVIOUS
<1>2. \A y \in Refs : Drop(y) \in Steps /\ Drop(y).op = "drop" /\ Drop(y).r = y
  BY DEF Drop, Steps
<1>3. q \in Seq(Steps) /\ Len(q) = n /\ \A i \in 1 .. n : q[i] = Drop(s[i])
  BY <1>1, <1>2 DEF Dropped
<1>4. \A i \in 1 .. n : q[i].op = "drop" /\ q[i].r = s[i]  BY <1>1, <1>2, <1>3
<1>5. IsFiniteSet(K) /\ Cardinality(K) \in Nat
  <2>1. IsFiniteSet(1 .. n)  BY <1>1, FS_Interval
  <2>2. K \subseteq 1 .. n  BY DEF At
  <2>3. QED  BY <2>1, <2>2, FS_Subset, FS_CardinalityType
<1>6. \A i \in K : i \in 1 .. n /\ s[i] = x  BY DEF At
<1> HIDE DEF q, n
<1>7. \A d : d \in L <=> d \in 0 .. n - 1 /\ q[n - d].op = "drop" /\ q[n - d].r = x
  BY <1>3 DEF Dropping
<1> HIDE DEF K, L
<1>8. f \in [K -> L]
  <2> SUFFICES ASSUME NEW i \in K PROVE n - i \in L
    OBVIOUS
  <2>1. i \in 1 .. n /\ n - i \in 0 .. n - 1 /\ n - (n - i) = i  BY <1>1, <1>6
  <2>2. QED  BY <2>1, <1>4, <1>6, <1>7
<1>9. \A y, z \in K : f[y] = f[z] => y = z
  <2> SUFFICES ASSUME NEW y \in K, NEW z \in K, n - y = n - z PROVE y = z
    OBVIOUS
  <2>1. y \in 1 .. n /\ z \in 1 .. n  BY <1>6
  <2>2. QED  BY <2>1, <1>1
<1>10. \A d \in L : \E i \in K : f[i] = d
  <2> SUFFICES ASSUME NEW d \in L PROVE \E i \in K : n - i = d
    OBVIOUS
  <2>1. d \in 0 .. n - 1 /\ q[n - d].r = x  BY <1>7
  <2>2. n - d \in 1 .. n /\ n - (n - d) = d  BY <2>1, <1>1
  <2>3. n - d \in K  BY <2>1, <2>2, <1>4 DEF K, At, n
  <2>4. QED  BY <2>2, <2>3
<1> HIDE DEF f
<1>11. Cardinality(L) = Cardinality(K)  BY <1>5, <1>8, <1>9, <1>10, SameCount
<1>12. QED  BY <1>3, <1>5, <1>11 DEF K, L, q, n
(* The places of an object that is torn down are the drops pushed for it.  *)
LEMMA TornCount ==
  ASSUME NEW K \in SUBSET (Refs \X Nat), NEW K2, IsFiniteSet(K), NEW r \in Refs,
         NEW s \in Seq(Refs), NEW x \in Refs,
         \A b \in Refs, j \in Nat : <<b, j>> \in K2 <=> <<b, j>> \in K /\ b # r,
         K2 \subseteq Refs \X Nat,
         \A j \in Nat : <<r, j>> \in K <=> j \in At(s, x)
  PROVE  Cardinality(K2) + Cardinality(At(s, x)) = Cardinality(K)
<1> DEFINE E == K \ K2
           I == At(s, x)
           f == [j \in I |-> <<r, j>>]
<1>1. \A b \in Refs, j \in Nat : <<b, j>> \in E <=> <<b, j>> \in K /\ b = r
  OBVIOUS
<1>2. E \subseteq Refs \X Nat /\ I \subseteq Nat  BY DEF At
<1>3. IsFiniteSet(I) /\ Cardinality(I) \in Nat  BY DropsItems
<1> HIDE DEF E, I
<1>4. f \in [I -> E]
  <2> SUFFICES ASSUME NEW j \in I PROVE <<r, j>> \in E
    OBVIOUS
  <2>1. j \in Nat  BY <1>2
  <2>2. QED  BY <2>1, <1>1 DEF I
<1>5. \A y, z \in I : f[y] = f[z] => y = z  OBVIOUS
<1>6. \A z \in E : \E j \in I : f[j] = z
  <2> SUFFICES ASSUME NEW z \in E PROVE \E j \in I : <<r, j>> = z
    OBVIOUS
  <2>1. PICK b \in Refs, j \in Nat : z = <<b, j>>  BY <1>2
  <2>2. b = r /\ <<r, j>> \in K  BY <2>1, <1>1
  <2>3. j \in I  BY <2>2 DEF I
  <2>4. QED  BY <2>1, <2>2, <2>3
<1> HIDE DEF f
<1>7. IsFiniteSet(E) /\ Cardinality(E) = Cardinality(I)  BY <1>3, <1>4, <1>5, <1>6, SameCount
<1>8. K2 \subseteq K
  <2>1. \A pl \in K2 : \E b \in Refs, j \in Nat : pl = <<b, j>>  OBVIOUS
  <2>2. QED  BY <2>1
<1>9. IsFiniteSet(K2) /\ Cardinality(K2) \in Nat  BY <1>8, FS_Subset, FS_CardinalityType
<1>10. K = K2 \cup E /\ K2 \cap E = {}  BY <1>8 DEF E
<1>11. Cardinality(K2 \cup E) = Cardinality(K2) + Cardinality(E) - Cardinality(K2 \cap E)
  BY <1>7, <1>9, FS_Union
<1>12. Cardinality(K2 \cap E) = 0  BY <1>10, FS_EmptySet
<1>13. Cardinality(K2) + Cardinality(E) - 0 = Cardinality(K2) + Cardinality(E)
  BY <1>3, <1>7, <1>9
<1>14. QED  BY <1>7, <1>10, <1>11, <1>12, <1>13 DEF I

(* The program t with q in the place of its first step.                    *)
Replacing(t, q, p) ==
  /\ p \in Seq(Steps) /\ Len(p) \in Nat /\ Len(q) \in Nat /\ Len(t) \in Nat
  /\ \A k \in 1 .. Len(q) : k \in 1 .. Len(p) /\ p[k] = q[k]
  /\ \A k \in 2 .. Len(t) : Len(q) + k - 1 \in 1 .. Len(p) /\ p[Len(q) + k - 1] = t[k]
  /\ \A k \in 1 .. Len(p) :
       k \in 1 .. Len(q) \/ (k - Len(q) + 1 \in 2 .. Len(t) /\ p[k] = t[k - Len(q) + 1])

LEMMA JoinedSteps ==
  \A q, u \in Seq(Steps) :
    /\ q \o u \in Seq(Steps) /\ Len(q \o u) = Len(q) + Len(u) /\ Len(q) \in Nat /\ Len(u) \in Nat
    /\ \A k \in 1 .. Len(q) + Len(u) : (q \o u)[k] = IF k <= Len(q) THEN q[k] ELSE u[k - Len(q)]
  OBVIOUS

LEMMA Replaced ==
  \A t, q \in Seq(Steps) : t # <<>> =>
    /\ Replacing(t, q, q \o Tail(t))
    /\ \A x \in Refs :
         /\ Cardinality(Dropping(t, x)) \in Nat /\ Cardinality(Dropping(q, x)) \in Nat
         /\ Cardinality(Dropping(<<Head(t)>>, x)) \in Nat
         /\ Cardinality(Dropping(t, x)) + Cardinality(Dropping(q, x)) =
              Cardinality(Dropping(q \o Tail(t), x)) + Cardinality(Dropping(<<Head(t)>>, x))
<1> SUFFICES ASSUME NEW t \in Seq(Steps), NEW q \in Seq(Steps), t # <<>>
             PROVE  /\ Replacing(t, q, q \o Tail(t))
                    /\ \A x \in Refs :
                         /\ Cardinality(Dropping(t, x)) \in Nat /\ Cardinality(Dropping(q, x)) \in Nat
                         /\ Cardinality(Dropping(<<Head(t)>>, x)) \in Nat
                         /\ Cardinality(Dropping(t, x)) + Cardinality(Dropping(q, x)) =
                              Cardinality(Dropping(q \o Tail(t), x))
                                + Cardinality(Dropping(<<Head(t)>>, x))
  OBVIOUS
<1> DEFINE u == Tail(t)
           h == <<Head(t)>>
<1>1. /\ u \in Seq(Steps) /\ h \in Seq(Steps) /\ t = h \o u /\ Len(t) \in Nat /\ Len(t) >= 1
      /\ Len(u) = Len(t) - 1 /\ \A k \in 1 .. Len(t) - 1 : u[k] = t[k + 1]
  OBVIOUS
<1> HIDE DEF u, h
<1> DEFINE p == q \o u
           m == Len(q)
           n == Len(t)
<1>2. /\ p \in Seq(Steps) /\ Len(p) = m + (n - 1) /\ m \in Nat /\ n \in Nat /\ n >= 1
      /\ \A k \in 1 .. m + (n - 1) : p[k] = IF k <= m THEN q[k] ELSE u[k - m]
  <2>1. /\ p \in Seq(Steps) /\ Len(p) = m + Len(u) /\ m \in Nat
        /\ \A k \in 1 .. m + Len(u) : p[k] = IF k <= m THEN q[k] ELSE u[k - m]
    BY <1>1, JoinedSteps
  <2>2. Len(u) = n - 1 /\ n \in Nat /\ n >= 1  BY <1>1
  <2> HIDE DEF p, m, n
  <2>3. QED  BY <2>1, <2>2
<1> HIDE DEF p, m, n
<1>3. \A k \in 1 .. m : k \in 1 .. Len(p) /\ p[k] = q[k]  BY <1>2
<1>4. \A k \in 2 .. n : m + k - 1 \in 1 .. Len(p) /\ p[m + k - 1] = t[k]
  <2> TAKE k \in 2 .. n
  <2> DEFINE l == m + k - 1
  <2>1. l \in 1 .. m + (n - 1) /\ ~(l <= m) /\ l - m = k - 1 /\ k - 1 \in 1 .. n - 1
        /\ (k - 1) + 1 = k
    BY <1>2
  <2> HIDE DEF l
  <2>2. p[l] = u[k - 1] /\ u[k - 1] = t[(k - 1) + 1]  BY <2>1, <1>1, <1>2 DEF n
  <2>3. QED  BY <2>1, <2>2, <1>2 DEF l
<1>5. \A k \in 1 .. Len(p) : k \in 1 .. m \/ (k - m + 1 \in 2 .. n /\ p[k] = t[k - m + 1])
  <2> SUFFICES ASSUME NEW k \in 1 .. Len(p), k \notin 1 .. m
               PROVE  k - m + 1 \in 2 .. n /\ p[k] = t[k - m + 1]
    OBVIOUS
  <2>1. k \in 1 .. m + (n - 1) /\ ~(k <= m) /\ k - m \in 1 .. n - 1 /\ k - m + 1 \in 2 .. n
    BY <1>2
  <2>2. p[k] = u[k - m] /\ u[k - m] = t[k - m + 1]  BY <2>1, <1>1, <1>2 DEF n
  <2>3. QED  BY <2>1, <2>2
<1>6. Replacing(t, q, p)  BY <1>2, <1>3, <1>4, <1>5 DEF Replacing, m, n
<1>7. ASSUME NEW x \in Refs
      PROVE  /\ Cardinality(Dropping(t, x)) \in Nat /\ Cardinality(Dropping(q, x)) \in Nat
             /\ Cardinality(Dropping(h, x)) \in Nat
             /\ Cardinality(Dropping(t, x)) + Cardinality(Dropping(q, x)) =
                  Cardinality(Dropping(p, x)) + Cardinality(Dropping(h, x))
  <2> DEFINE ct == Cardinality(Dropping(t, x))
             cq == Cardinality(Dropping(q, x))
             cu == Cardinality(Dropping(u, x))
             ch == Cardinality(Dropping(h, x))
             cp == Cardinality(Dropping(p, x))
  <2>1. ct \in Nat /\ cq \in Nat /\ cu \in Nat /\ ch \in Nat  BY <1>1, Pushed
  <2>2. cp = cu + cq  BY <1>1, Pushed DEF p
  <2>3. ct = cu + ch
    <3>1. Cardinality(Dropping(h \o u, x)) = cu + ch  BY <1>1, Pushed
    <3>2. QED  BY <3>1, <1>1
  <2> HIDE DEF ct, cq, cu, ch, cp
  <2>4. ct + cq = cp + ch  BY <2>1, <2>2, <2>3
  <2>5. QED  BY <2>1, <2>4 DEF ct, cq, ch, cp
<1>8. QED  BY <1>6, <1>7 DEF p, u, h
(* A release, and the drop of a container's reference: what it tears down  *)
(* it puts on todo.                                                        *)
Torn(r) == IF refcount[r] = 1 THEN Deinit(r) \o <<Dealloc(r)>> ELSE <<>>
Tearing(r, q) ==
  /\ q \in Seq(Steps) /\ Len(q) \in Nat
  /\ \A k \in 1 .. Len(q) : q[k].op \in {"drop", "dealloc"}
  /\ \A k \in 1 .. Len(q) : q[k].op = "dealloc" => q[k].r = r /\ k = Len(q)
  /\ refcount[r] = 1 => Len(q) \in 1 .. Len(q) /\ q[Len(q)] = Dealloc(r)
  /\ refcount[r] # 1 => Len(q) = 0
  /\ \A x \in Refs :
       /\ refcount[r] = 1 /\ Retains(r) =>
            Cardinality(Dropping(q, x)) = Cardinality(At(items[r], x))
       /\ refcount[r] # 1 \/ ~Retains(r) => Cardinality(Dropping(q, x)) = 0

LEMMA TearingSteps ==
  TypeOK => \A r \in Refs : \A q : q = Torn(r) => Tearing(r, q)
<1> SUFFICES ASSUME TypeOK, NEW r \in Refs, NEW q, q = Torn(r)
             PROVE  Tearing(r, q)
  OBVIOUS
<1>1. <<>> \in Seq(Steps) /\ Len(<<>>) = 0 /\ \A k \in 1 .. Len(<<>>) : FALSE  OBVIOUS
<1>2. \A x : Dropping(<<>>, x) = {}  BY <1>1 DEF Dropping
<1>3. Cardinality({}) = 0  BY FS_EmptySet
<1>4. CASE refcount[r] # 1
  <2>1. q = <<>>  BY <1>4 DEF Torn
  <2>2. QED  BY <2>1, <1>1, <1>2, <1>3, <1>4 DEF Tearing
<1>5. CASE refcount[r] = 1
  <2>1. PICK u : u = Deinit(r)  OBVIOUS
  <2>2. PICK d : d = Dealloc(r)  OBVIOUS
  <2>3. d \in Steps /\ d.op = "dealloc" /\ d.r = r  BY <2>2 DEF Dealloc, Steps
  <2>4. /\ u \in Seq(Steps) /\ \A k \in 1 .. Len(u) : u[k].op = "drop"
        /\ \A x \in Refs : /\ Retains(r) => Cardinality(Dropping(u, x)) = Cardinality(At(items[r], x))
                           /\ ~Retains(r) => Cardinality(Dropping(u, x)) = 0
    <3>1. CASE Retains(r)
      <4>1. items[r] \in Seq(Refs)  BY DEF TypeOK
      <4>2. u = Dropped(items[r])  BY <2>1, <3>1 DEF Deinit, Dropped
      <4>3. \A i \in 1 .. Len(items[r]) : Drop(items[r][i]).op = "drop"  BY DEF Drop
      <4>4. QED  BY <3>1, <4>1, <4>2, <4>3, DropsItems
    <3>2. CASE ~Retains(r)
      <4>1. u = <<>>  BY <2>1, <3>2 DEF Deinit
      <4>2. QED  BY <3>2, <4>1, <1>1, <1>2, <1>3
    <3>3. QED  BY <3>1, <3>2
  <2>5. PICK w : w = <<d>>  OBVIOUS
  <2>6. w \in Seq(Steps) /\ Len(w) = 1 /\ w[1] = d  BY <2>3, <2>5
  <2>7. /\ q = u \o w /\ q \in Seq(Steps) /\ Len(u) \in Nat /\ Len(q) = Len(u) + 1
        /\ \A k \in 1 .. Len(u) + 1 : q[k] = IF k <= Len(u) THEN u[k] ELSE w[k - Len(u)]
    <3>1. q = u \o w  BY <1>5, <2>1, <2>2, <2>5 DEF Torn
    <3>2. /\ u \o w \in Seq(Steps) /\ Len(u \o w) = Len(u) + Len(w) /\ Len(u) \in Nat
          /\ \A k \in 1 .. Len(u) + Len(w) :
               (u \o w)[k] = IF k <= Len(u) THEN u[k] ELSE w[k - Len(u)]
      BY <2>4, <2>6, JoinedSteps
    <3>3. QED  BY <3>1, <3>2, <2>6
  <2> DEFINE m == Len(u)
  <2>8. m \in Nat  BY <2>7
  <2>9. \A k \in 1 .. m : q[k] = u[k]  BY <2>7
  <2>10. q[m + 1] = d
    <3> HIDE DEF m
    <3>1. m + 1 \in 1 .. m + 1 /\ ~(m + 1 <= m) /\ m + 1 - m = 1  BY <2>8
    <3>2. QED  BY <3>1, <2>6, <2>7 DEF m
  <2> HIDE DEF m
  <2>11. \A k \in 1 .. m + 1 : k \in 1 .. m \/ k = m + 1  BY <2>8
  <2>12. Len(q) = m + 1 /\ m + 1 \in 1 .. m + 1 /\ m + 1 \in Nat  BY <2>7, <2>8 DEF m
  <2>13. \A k \in 1 .. Len(q) : /\ q[k].op \in {"drop", "dealloc"}
                                /\ q[k].op = "dealloc" => q[k].r = r /\ k = Len(q)
    <3> SUFFICES ASSUME NEW k \in 1 .. m + 1
                 PROVE  /\ q[k].op \in {"drop", "dealloc"}
                        /\ q[k].op = "dealloc" => q[k].r = r /\ k = m + 1
      BY <2>12
    <3>1. CASE k \in 1 .. m
      <4>1. q[k].op = "drop"  BY <3>1, <2>4, <2>9 DEF m
      <4>2. QED  BY <4>1
    <3>2. CASE k = m + 1  BY <3>2, <2>3, <2>10
    <3>3. QED  BY <3>1, <3>2, <2>11
  <2>14. \A x \in Refs : Cardinality(Dropping(q, x)) = Cardinality(Dropping(u, x))
    <3> TAKE x \in Refs
    <3> DEFINE c == Cardinality(Dropping(u, x))
               e == Cardinality(Dropping(w, x))
    <3>1. Cardinality(Dropping(q, x)) = e + c /\ c \in Nat
      BY <2>4, <2>6, <2>7, Pushed
    <3>2. e = 0  BY <2>3, <2>5, DropsOne
    <3> HIDE DEF c, e
    <3>3. QED  BY <3>1, <3>2 DEF c
  <2>15. QED  BY <2>2, <2>4, <2>7, <2>10, <2>12, <2>13, <2>14, <1>5 DEF Tearing
<1>6. QED  BY <1>4, <1>5
(* One reference goes, the caller's own or a container's.                  *)
Lets(r) ==
  /\ r = step.r /\ step.op \in {"release", "drop"} /\ EFRelease(r)
  /\ step.op = "release" => local' = [local EXCEPT ![r] = @ - 1]
  /\ step.op = "drop" => local' = local

LEMMA LetsFacts ==
  ASSUME NEW S, NEW T, Ready(S, T), NEW r, Lets(r)
  PROVE  /\ r \in Refs /\ refcount[r] > 0 /\ Live(r)
         /\ T.held = S.held /\ T.fresh \subseteq S.fresh /\ T.priv \subseteq S.priv
         /\ T.has \subseteq S.has /\ T.is \subseteq S.is /\ T.bare \subseteq S.bare
         /\ step.op = "release" => /\ r \in S.own /\ local[r] = 1 /\ local'[r] = 0
                                   /\ T.own = S.own \ {r} /\ T.bare = S.bare \ {r}
         /\ step.op = "drop" => T = S /\ Drops(r) # {} /\ local'[r] = local[r]
         /\ \A x \in Refs : x # r => local'[x] = local[x]
         /\ local' \in [Refs -> Nat]
         /\ refcount'[r] = refcount[r] - 1 /\ \A x \in Refs : x # r => refcount'[x] = refcount[x]
         /\ refcount' \in [Refs -> Nat] /\ refcount[r] \in Nat
         /\ kind' = kind /\ items' = items /\ cap' = cap /\ callbacks' = callbacks
         /\ isMutable' = isMutable /\ client' = client
         /\ refcount[r] = 1 => \A i : ~Leaving(r, i)
<1>1. /\ Typed /\ TypeOK /\ RefsAccounted /\ Unburied /\ Stacked
      /\ Grounded(S) /\ Standing(S) /\ step \in Steps /\ Sound(S) /\ todo # <<>>
  BY ReadyFacts DEF Ready
<1>2. r \in Refs  BY <1>1, StepFields DEF Lets
<1>3. ASSUME step.op = "release" PROVE AllowsRelease(step, S, T)
  BY <1>3 DEF Ready, Allows
<1>4. step.op = "drop" => T = S  BY DEF Ready, Allows
<1>5. step.op = "release" =>
        /\ r \in S.own /\ T.own = S.own \ {r} /\ T.bare = S.bare \ {r}
        /\ T.held = S.held /\ T.fresh \subseteq S.fresh /\ T.priv \subseteq S.priv
        /\ T.has \subseteq S.has /\ T.is \subseteq S.is
  BY <1>3 DEF AllowsRelease, NoMore, Fewer, Lets
<1>6. step.op = "release" \/ step.op = "drop"  BY DEF Lets
<1>7. step.op = "release" => local[r] = 1  BY <1>1, <1>2, <1>5 DEF Grounded
<1>8. step.op = "drop" => Drops(r) # {}
  <2> SUFFICES ASSUME step.op = "drop" PROVE Drops(r) # {}
    OBVIOUS
  <2> DEFINE d == Len(todo) - 1
  <2>1. step = todo[1] /\ Len(todo) \in Nat /\ Len(todo) >= 1  BY <1>1, Heads
  <2>2. d \in 0 .. Len(todo) - 1 /\ Len(todo) - d = 1  BY <2>1
  <2> HIDE DEF d
  <2>3. d \in Drops(r)  BY <2>1, <2>2 DEF Drops, Lets
  <2>4. QED  BY <2>3
<1>9. refcount[r] > 0 /\ refcount[r] \in Nat
  <2>1. step.op = "release" => local[r] > 0  BY <1>7
  <2>2. QED  BY <2>1, <1>1, <1>2, <1>6, <1>8, Backed
<1>10. Live(r)  BY <1>1, <1>2, <1>9 DEF Unburied
<1>11. /\ local' \in [Refs -> Nat] /\ \A x \in Refs : x # r => local'[x] = local[x]
       /\ step.op = "release" => local'[r] = 0
       /\ step.op = "drop" => local'[r] = local[r]
  <2>1. local \in [Refs -> Nat]  BY <1>1 DEF TypeOK
  <2>2. CASE step.op = "release"
    <3>1. local' = [local EXCEPT ![r] = 0]  BY <2>1, <2>2, <1>2, <1>7 DEF Lets
    <3>2. QED  BY <3>1, <2>1, <2>2, <1>2
  <2>3. CASE step.op = "drop"  BY <2>1, <2>3 DEF Lets
  <2>4. QED  BY <2>2, <2>3, <1>6
<1>12. /\ refcount' \in [Refs -> Nat] /\ refcount'[r] = refcount[r] - 1
       /\ \A x \in Refs : x # r => refcount'[x] = refcount[x]
  <2> DEFINE c == refcount[r] - 1
  <2>1. refcount \in [Refs -> Nat]  BY <1>1 DEF TypeOK
  <2>2. refcount' = [refcount EXCEPT ![r] = c]  BY <2>1, <1>2 DEF Lets, EFRelease
  <2>3. c \in Nat  BY <1>9
  <2> HIDE DEF c
  <2>4. /\ refcount' \in [Refs -> Nat] /\ refcount'[r] = c
        /\ \A x \in Refs : x # r => refcount'[x] = refcount[x]
    BY <2>1, <2>2, <2>3, <1>2
  <2>5. QED  BY <2>4 DEF c
<1>13. /\ kind' = kind /\ items' = items /\ cap' = cap /\ callbacks' = callbacks
       /\ isMutable' = isMutable /\ client' = client
  BY DEF Lets, EFRelease
<1>14. ASSUME refcount[r] = 1 PROVE \A i : ~Leaving(r, i)
  <2>1. CASE step.op = "release"
    <3>1. Quiet(todo)  BY <2>1, <1>1, Quieted
    <3>2. QED  BY <3>1, <1>1, QuietHeap
  <2>2. CASE step.op = "drop"
    <3> SUFFICES ASSUME NEW i, Leaving(r, i) PROVE FALSE
      OBVIOUS
    <3>1. PICK k \in 1 .. Len(todo) : todo[k].op = "shift" /\ todo[k].a = r  BY DEF Leaving
    <3>2. <<r, "array">> \in S.is /\ "array" \in Kinds  BY <3>1, <1>1 DEF Grounded, Kinds
    <3>3. Reached(S, r)  BY <3>2, <1>1, <1>2 DEF Sound
    <3>4. client[r] > 0 \/ local[r] > 0 \/ Keepers(r) # {}
      BY <3>3, <1>1, <1>2, OwnersCount
    <3>5. client[r] = 0 /\ local[r] = 0 /\ Keepers(r) = {}
      BY <2>2, <1>1, <1>2, <1>8, <1>14, Sole
    <3>6. QED  BY <3>4, <3>5
  <2>3. QED  BY <2>1, <2>2, <1>6
<1>15. /\ T.held = S.held /\ T.fresh \subseteq S.fresh /\ T.priv \subseteq S.priv
       /\ T.has \subseteq S.has /\ T.is \subseteq S.is /\ T.bare \subseteq S.bare
  BY <1>4, <1>5, <1>6
<1>16. QED
  BY <1>2, <1>4, <1>5, <1>7, <1>8, <1>9, <1>10, <1>11, <1>12, <1>13, <1>14, <1>15
LEMMA KeepersAreNext ==
  (TypeOK => \A x \in Refs :
    /\ Keepers(x) = {pl \in Kept(Holders, items, x) : ~Leaving(pl[1], pl[2])}
    /\ IsFiniteSet(Keepers(x))
    /\ Keepers(x) \subseteq Refs \X Nat
    /\ \A a \in Refs, i \in Nat : <<a, i>> \in Keepers(x) <=> Place(a, i) /\ items[a][i] = x)'
  BY KeepersAre, PTL

LEMMA LetsCounts ==
  ASSUME NEW S, NEW T, Ready(S, T), NEW r, Lets(r)
  PROVE  /\ Typed'
         /\ \E q \in Seq(Steps) :
              /\ Tearing(r, q) /\ todo' = q \o Tail(todo)
              /\ Replacing(todo, q, todo')
         /\ \A a, i : Leaving(a, i)' <=> Leaving(a, i)
         /\ \A a \in Refs, i \in Nat :
              Place(a, i)' <=> Place(a, i) /\ ~(a = r /\ refcount[r] = 1)
         /\ RefsAccounted'
<1>1. /\ Typed /\ TypeOK /\ RefsAccounted /\ step \in Steps /\ Tail(todo) \in Seq(Steps)
      /\ todo # <<>>
  BY ReadyFacts DEF Ready
<1>2. /\ r \in Refs /\ refcount[r] > 0 /\ Live(r) /\ refcount[r] \in Nat
      /\ step.op = "release" => local[r] = 1 /\ local'[r] = 0
      /\ step.op = "drop" => local'[r] = local[r]
      /\ \A x \in Refs : x # r => local'[x] = local[x]
      /\ local' \in [Refs -> Nat]
      /\ refcount'[r] = refcount[r] - 1 /\ \A x \in Refs : x # r => refcount'[x] = refcount[x]
      /\ refcount' \in [Refs -> Nat]
      /\ kind' = kind /\ items' = items /\ cap' = cap /\ callbacks' = callbacks
      /\ isMutable' = isMutable /\ client' = client
      /\ refcount[r] = 1 => \A i : ~Leaving(r, i)
  BY LetsFacts
<1>3. PICK q : q = Torn(r)  OBVIOUS
<1>4. /\ q \in Seq(Steps) /\ Len(q) \in Nat
      /\ \A k \in 1 .. Len(q) : q[k].op \in {"drop", "dealloc"}
      /\ \A x \in Refs :
           /\ refcount[r] = 1 /\ Retains(r) =>
                Cardinality(Dropping(q, x)) = Cardinality(At(items[r], x))
           /\ refcount[r] # 1 \/ ~Retains(r) => Cardinality(Dropping(q, x)) = 0
  <2>1. Tearing(r, q)  BY <1>1, <1>2, <1>3, TearingSteps
  <2>2. QED  BY <2>1 DEF Tearing
<1>5. todo' = q \o Tail(todo)  BY <1>3 DEF Lets, EFRelease, Torn
<1>6. todo \in Seq(Steps)  BY <1>1 DEF Typed
<1>7. Replacing(todo, q, todo')  BY <1>1, <1>4, <1>5, <1>6, Replaced
<1>8. Typed'
  <2>1. todo' \in Seq(Steps)  BY <1>7 DEF Replacing
  <2>2. TypeOK'  BY <1>1, <1>2 DEF TypeOK
  <2>3. QED  BY <2>1, <2>2 DEF Typed
<1>9. \A a, i : Leaving(a, i)' <=> Leaving(a, i)
  <2> TAKE a, i
  <2>1. step = todo[1] /\ Len(todo) \in Nat  BY <1>1, Heads
  <2>2. ASSUME Leaving(a, i)' PROVE Leaving(a, i)
    <3>1. PICK k \in 1 .. Len(todo') : todo'[k].op = "shift" /\ todo'[k].a = a /\ todo'[k].i = i
      BY <2>2 DEF Leaving
    <3>2. k \notin 1 .. Len(q)
      <4>1. ASSUME k \in 1 .. Len(q) PROVE FALSE
        <5>1. todo'[k] = q[k]  BY <4>1, <1>7 DEF Replacing
        <5>2. q[k].op \in {"drop", "dealloc"}  BY <4>1, <1>4
        <5>3. QED  BY <3>1, <5>1, <5>2
      <4>2. QED  BY <4>1
    <3> DEFINE l == k - Len(q) + 1
    <3>3. l \in 2 .. Len(todo) /\ todo'[k] = todo[l]  BY <3>2, <1>7 DEF Replacing
    <3> HIDE DEF l
    <3>4. l \in 1 .. Len(todo)  BY <3>3, <2>1
    <3>5. QED  BY <3>1, <3>3, <3>4 DEF Leaving
  <2>3. ASSUME Leaving(a, i) PROVE Leaving(a, i)'
    <3>1. PICK k \in 1 .. Len(todo) : todo[k].op = "shift" /\ todo[k].a = a /\ todo[k].i = i
      BY <2>3 DEF Leaving
    <3>2. k # 1  BY <3>1, <2>1 DEF Lets
    <3>3. k \in 2 .. Len(todo)  BY <3>2, <2>1
    <3> DEFINE l == Len(q) + k - 1
    <3>4. l \in 1 .. Len(todo') /\ todo'[l] = todo[k]  BY <3>3, <1>7 DEF Replacing
    <3> HIDE DEF l
    <3>5. QED  BY <3>1, <3>4 DEF Leaving
  <2>4. QED  BY <2>2, <2>3
<1>10. \A a \in Refs : a \in Holders' <=> a \in Holders /\ ~(a = r /\ refcount[r] = 1)
  <2> TAKE a \in Refs
  <2>1. Retains(a)' <=> Retains(a)  BY <1>2 DEF Retains
  <2>2. Live(a)' <=> Live(a)  BY <1>2 DEF Live
  <2>3. refcount'[a] > 0 <=> refcount[a] > 0 /\ ~(a = r /\ refcount[r] = 1)
    <3>1. CASE a = r  BY <3>1, <1>2
    <3>2. CASE a # r  BY <3>2, <1>2
    <3>3. QED  BY <3>1, <3>2
  <2>4. QED  BY <2>1, <2>2, <2>3 DEF Holders, Keeping
<1>11. \A a \in Refs, i \in Nat : Place(a, i)' <=> Place(a, i) /\ ~(a = r /\ refcount[r] = 1)
  BY <1>2, <1>9, <1>10 DEF Place
<1>12. \A x \in Refs : Cardinality(Keepers(x)') + Cardinality(Dropping(q, x)) = Cardinality(Keepers(x))
  <2> TAKE x \in Refs
  <2> DEFINE K == Keepers(x)
             L == Keepers(x)'
  <2>1. /\ IsFiniteSet(K) /\ K \subseteq Refs \X Nat
        /\ \A a \in Refs, i \in Nat : <<a, i>> \in K <=> Place(a, i) /\ items[a][i] = x
    BY <1>1, KeepersAre
  <2>2. /\ L \subseteq Refs \X Nat
        /\ \A a \in Refs, i \in Nat : <<a, i>> \in L <=> Place(a, i)' /\ items[a][i] = x
    BY <1>2, <1>8, KeepersAreNext DEF Typed
  <2> HIDE DEF K, L
  <2>3. Cardinality(K) \in Nat  BY <2>1, FS_CardinalityType
  <2>4. CASE refcount[r] = 1 /\ Retains(r)
    <3>1. items[r] \in Seq(Refs)  BY <1>1, <1>2 DEF TypeOK
    <3>2. \A j \in Nat : <<r, j>> \in K <=> j \in At(items[r], x)
      <4>1. \A j \in Nat : Place(r, j) <=> j \in 1 .. Len(items[r])
        BY <2>4, <1>2 DEF Place, Holders, Keeping
      <4>2. QED  BY <4>1, <2>1, <1>2 DEF At
    <3>3. \A b \in Refs, j \in Nat : <<b, j>> \in L <=> <<b, j>> \in K /\ b # r
      BY <2>1, <2>2, <2>4, <1>11
    <3>4. Cardinality(L) + Cardinality(At(items[r], x)) = Cardinality(K)
      <4>1. K \in SUBSET (Refs \X Nat) /\ L \subseteq Refs \X Nat /\ IsFiniteSet(K) /\ r \in Refs
        BY <2>1, <2>2, <1>2
      <4>2. PICK s : s = items[r]  OBVIOUS
      <4>3. s \in Seq(Refs) /\ \A j \in Nat : <<r, j>> \in K <=> j \in At(s, x)
        BY <4>2, <3>1, <3>2
      <4>4. Cardinality(L) + Cardinality(At(s, x)) = Cardinality(K)
        BY ONLY <4>1, <4>3, <3>3, x \in Refs, TornCount
      <4>5. QED  BY <4>2, <4>4
    <3>5. QED  BY <3>4, <2>4, <1>4 DEF K, L
  <2>5. CASE refcount[r] # 1 \/ ~Retains(r)
    <3>1. \A b \in Refs, j \in Nat : <<b, j>> \in L <=> <<b, j>> \in K
      <4>1. \A b \in Refs, j \in Nat : Place(b, j) => ~(b = r /\ refcount[r] = 1)
        BY <2>5 DEF Place, Holders, Keeping
      <4>2. \A b \in Refs, j \in Nat : Place(b, j)' <=> Place(b, j)  BY <4>1, <1>11
      <4>3. QED  BY <4>2, <2>1, <2>2
    <3>2. L = K
      <4>1. \A pl \in Refs \X Nat : pl \in L <=> pl \in K  BY <3>1
      <4>2. QED  BY <4>1, <2>1, <2>2
    <3>3. Cardinality(Dropping(q, x)) = 0  BY <2>5, <1>4
    <3>4. QED  BY <3>2, <3>3, <2>3 DEF K, L
  <2>6. QED  BY <2>4, <2>5
<1>13. RefsAccounted'
  <2> SUFFICES ASSUME NEW x \in Refs
               PROVE  refcount'[x] = client'[x] + local'[x] + Cardinality(Keepers(x)')
                                       + Cardinality(Drops(x)')
    BY DEF RefsAccounted
  <2> DEFINE k == Cardinality(Keepers(x))
             k2 == Cardinality(Keepers(x)')
             d == Cardinality(Dropping(todo, x))
             d2 == Cardinality(Dropping(todo', x))
             h == Cardinality(Dropping(<<Head(todo)>>, x))
             e == Cardinality(Dropping(q, x))
  <2>1. Drops(x) = Dropping(todo, x) /\ Drops(x)' = Dropping(todo', x)
    BY DEF Drops, Dropping
  <2>2. d \in Nat /\ e \in Nat /\ h \in Nat /\ d + e = d2 + h
    BY <1>1, <1>4, <1>5, <1>6, Replaced
  <2>3. /\ step.op = "drop" /\ x = r => h = 1
        /\ ~(step.op = "drop" /\ x = r) => h = 0
    BY <1>1, DropsOne DEF step, Lets
  <2>4. k2 + e = k  BY <1>12
  <2>5. k \in Nat /\ k2 \in Nat /\ d2 \in Nat
    <3>1. IsFiniteSet(Keepers(x)) /\ IsFiniteSet(Keepers(x)')
      BY <1>1, <1>8, KeepersAre, KeepersAreNext DEF Typed
    <3>2. todo' \in Seq(Steps)  BY <1>8 DEF Typed
    <3>3. QED  BY <3>1, <3>2, <1>6, FS_CardinalityType, Pushed
  <2>6. refcount[x] = client[x] + local[x] + k + d
    BY <1>1, <2>1 DEF RefsAccounted
  <2>7. refcount[x] \in Nat /\ client[x] \in Nat /\ local[x] \in Nat /\ local'[x] \in Nat
    BY <1>1, <1>2 DEF TypeOK
  <2> HIDE DEF k, k2, d, d2, h, e
  <2>8. refcount'[x] = client[x] + local'[x] + k2 + d2
    <3>1. CASE x # r
      <4>1. refcount'[x] = refcount[x] /\ local'[x] = local[x] /\ h = 0  BY <3>1, <2>3, <1>2
      <4>2. QED  BY ONLY <4>1, <2>2, <2>4, <2>5, <2>6, <2>7
    <3>2. CASE x = r /\ step.op = "drop"
      <4>1. refcount'[x] = refcount[x] - 1 /\ local'[x] = local[x] /\ h = 1
        BY <3>2, <2>3, <1>2
      <4>2. QED  BY ONLY <4>1, <2>2, <2>4, <2>5, <2>6, <2>7
    <3>3. CASE x = r /\ step.op = "release"
      <4>1. refcount'[x] = refcount[x] - 1 /\ local[x] = 1 /\ local'[x] = 0 /\ h = 0
        BY <3>3, <2>3, <1>2
      <4>2. QED  BY ONLY <4>1, <2>2, <2>4, <2>5, <2>6, <2>7
    <3>4. QED  BY <3>1, <3>2, <3>3 DEF Lets
  <2>9. QED  BY <2>1, <2>8, <1>2 DEF k2, d2
<1>14. Tearing(r, q)  BY <1>1, <1>2, <1>3, TearingSteps
<1>15. QED  BY <1>4, <1>5, <1>7, <1>8, <1>9, <1>11, <1>13, <1>14
LEMMA LetsHolds ==
  ASSUME NEW S, NEW T, Ready(S, T), NEW r, Lets(r)
  PROVE  Heaped' /\ Holds(T)'
<1>1. /\ Typed /\ TypeOK /\ RefsAccounted /\ Unburied /\ ArraysRetain /\ Stacked /\ ArraysOfPages
      /\ Grounded(S) /\ GroupsOwn(S) /\ FilesOwn(S) /\ todo # <<>>
      /\ step \in Steps /\ Tail(todo) \in Seq(Steps)
      /\ Sound(S) /\ S \in Grounds /\ T \in Grounds /\ Sound(T)
  BY ReadyFacts DEF Ready
<1>2. /\ r \in Refs /\ refcount[r] > 0 /\ Live(r) /\ refcount[r] \in Nat
      /\ T.held = S.held /\ T.fresh \subseteq S.fresh /\ T.priv \subseteq S.priv
      /\ T.has \subseteq S.has /\ T.is \subseteq S.is /\ T.bare \subseteq S.bare
      /\ step.op = "release" => /\ r \in S.own /\ local[r] = 1 /\ local'[r] = 0
                                /\ T.own = S.own \ {r} /\ T.bare = S.bare \ {r}
      /\ step.op = "drop" => T = S /\ Drops(r) # {} /\ local'[r] = local[r]
      /\ \A x \in Refs : x # r => local'[x] = local[x]
      /\ refcount'[r] = refcount[r] - 1 /\ \A x \in Refs : x # r => refcount'[x] = refcount[x]
      /\ kind' = kind /\ items' = items /\ cap' = cap /\ callbacks' = callbacks
      /\ isMutable' = isMutable /\ client' = client
  BY LetsFacts
<1>3. /\ Typed' /\ RefsAccounted'
      /\ \A a, i : Leaving(a, i)' <=> Leaving(a, i)
      /\ \A a \in Refs, i \in Nat :
           Place(a, i)' <=> Place(a, i) /\ ~(a = r /\ refcount[r] = 1)
  BY LetsCounts
<1>4. PICK q \in Seq(Steps) :
        Tearing(r, q) /\ todo' = q \o Tail(todo) /\ Replacing(todo, q, todo')
  BY LetsCounts
<1>5. step.op \in {"release", "drop"} /\ step = todo[1] /\ Len(todo) \in Nat /\ Len(todo) >= 1
  BY <1>1, Heads DEF Lets
<1>6. /\ Len(q) \in Nat
      /\ \A k \in 1 .. Len(q) : q[k].op \in {"drop", "dealloc"}
      /\ \A k \in 1 .. Len(q) : q[k].op = "dealloc" => q[k].r = r /\ k = Len(q)
      /\ refcount[r] = 1 => Len(q) \in 1 .. Len(q) /\ q[Len(q)] = Dealloc(r)
      /\ refcount[r] # 1 => Len(q) = 0
  BY <1>4 DEF Tearing
<1> DEFINE m == Len(q)
           n == Len(todo)
           t == todo'
<1>7. /\ m \in Nat /\ n \in Nat /\ n >= 1 /\ Len(t) \in Nat
      /\ \A k \in 1 .. m : k \in 1 .. Len(t) /\ t[k] = q[k]
      /\ \A k \in 2 .. n : m + k - 1 \in 1 .. Len(t) /\ t[m + k - 1] = todo[k]
      /\ \A k \in 1 .. Len(t) : k \in 1 .. m \/ (k - m + 1 \in 2 .. n /\ t[k] = todo[k - m + 1])
  BY <1>4, <1>5 DEF Replacing
<1>8. \A k \in 1 .. n, x \in Refs : Buries(k, x) => k \in 2 .. n
  BY <1>5 DEF Buries
<1>9. ArraysOfPages' /\ ArraysRetain'
  BY <1>1, <1>2, <1>3 DEF ArraysOfPages, ArraysRetain, Live
<1>10. Stacked'
  <2> SUFFICES ASSUME NEW j \in 1 .. Len(t), NEW k \in 1 .. Len(t), j < k,
                      t[k].op \in {"drop", "dealloc"} \/ t[k].op = "shift"
               PROVE  t[j].op \in {"drop", "dealloc"}
    BY DEF Stacked, Tears
  <2>1. CASE j \in 1 .. m  BY <2>1, <1>6, <1>7
  <2>2. CASE j \notin 1 .. m
    <3> DEFINE j2 == j - m + 1
               k2 == k - m + 1
    <3>1. k \notin 1 .. m  BY <2>2, <1>7
    <3>2. j2 \in 2 .. n /\ t[j] = todo[j2] /\ k2 \in 2 .. n /\ t[k] = todo[k2]
      BY <2>2, <3>1, <1>7
    <3>3. j2 \in 1 .. n /\ k2 \in 1 .. n /\ j2 < k2  BY <3>2, <1>7
    <3> HIDE DEF j2, k2
    <3>4. Tears(k2) \/ todo[k2].op = "shift"  BY <3>2 DEF Tears
    <3>5. Tears(j2)  BY <3>3, <3>4, <1>1 DEF Stacked
    <3>6. QED  BY <3>2, <3>5 DEF Tears
  <2>3. QED  BY <2>1, <2>2
<1>11. \A k \in 1 .. Len(t), x \in Refs :
         t[k].op = "dealloc" /\ t[k].r = x =>
           \/ x = r /\ refcount[r] = 1 /\ k = m
           \/ k - m + 1 \in 2 .. n /\ Buries(k - m + 1, x)
  <2> SUFFICES ASSUME NEW k \in 1 .. Len(t), NEW x \in Refs, t[k].op = "dealloc", t[k].r = x
               PROVE  \/ x = r /\ refcount[r] = 1 /\ k = m
                      \/ k - m + 1 \in 2 .. n /\ Buries(k - m + 1, x)
    OBVIOUS
  <2>1. CASE k \in 1 .. m
    <3>1. m # 0  BY <2>1, <1>7
    <3>2. refcount[r] = 1  BY <3>1, <1>6
    <3>3. q[k].op = "dealloc" /\ q[k].r = x  BY <2>1, <1>7
    <3>4. QED  BY <2>1, <3>2, <3>3, <1>6
  <2>2. CASE k - m + 1 \in 2 .. n /\ t[k] = todo[k - m + 1]
    BY <2>2 DEF Buries
  <2>3. QED  BY <2>1, <2>2, <1>7
<1>12. \A k \in 2 .. n, x \in Refs : Buries(k, x) =>
         \E l \in 1 .. Len(t) : t[l].op = "dealloc" /\ t[l].r = x
  <2> SUFFICES ASSUME NEW k \in 2 .. n, NEW x \in Refs, Buries(k, x)
               PROVE  \E l \in 1 .. Len(t) : t[l].op = "dealloc" /\ t[l].r = x
    OBVIOUS
  <2>1. m + k - 1 \in 1 .. Len(t) /\ t[m + k - 1] = todo[k]  BY <1>7
  <2>2. QED  BY <2>1 DEF Buries
<1>13. refcount[r] = 1 => \E l \in 1 .. Len(t) : t[l].op = "dealloc" /\ t[l].r = r
  <2>1. Dealloc(r).op = "dealloc" /\ Dealloc(r).r = r  BY DEF Dealloc
  <2>2. QED  BY <2>1, <1>6, <1>7
<1>14. \A k \in 1 .. n : ~Buries(k, r)
  BY <1>1, <1>2 DEF Unburied
<1> HIDE DEF m, n, t
<1>15. Unburied'
  <2>1. \A x \in Refs : ~Live(x)' => refcount'[x] = 0
    <3> SUFFICES ASSUME NEW x \in Refs, ~Live(x)' PROVE refcount'[x] = 0
      OBVIOUS
    <3>1. ~Live(x)  BY <1>2 DEF Live
    <3>2. x # r /\ refcount[x] = 0  BY <3>1, <1>1, <1>2 DEF Unburied
    <3>3. QED  BY <3>2, <1>2
  <2>2. \A x \in Refs : (Live(x)' /\ refcount'[x] = 0) <=>
          \E k \in 1 .. Len(t) : t[k].op = "dealloc" /\ t[k].r = x
    <3> TAKE x \in Refs
    <3>1. Live(x)' <=> Live(x)  BY <1>2 DEF Live
    <3>2. (Live(x) /\ refcount[x] = 0) <=> \E k \in 1 .. n : Buries(k, x)
      BY <1>1 DEF Unburied, n
    <3>3. CASE x = r
      <4>1. refcount'[r] = 0 <=> refcount[r] = 1  BY <1>2
      <4>2. \A k : k \in 2 .. n => k \in 1 .. n  BY <1>7
      <4>3. (\E k \in 1 .. Len(t) : t[k].op = "dealloc" /\ t[k].r = r) => refcount[r] = 1
        BY <4>2, <1>2, <1>11, <1>14
      <4>4. QED  BY <3>1, <3>3, <4>1, <4>3, <1>2, <1>13
    <3>4. CASE x # r
      <4>1. refcount'[x] = refcount[x]  BY <3>4, <1>2
      <4>2. \A k : k \in 2 .. n => k \in 1 .. n  BY <1>7
      <4>3. (\E k \in 1 .. Len(t) : t[k].op = "dealloc" /\ t[k].r = x)
              => \E k \in 1 .. n : Buries(k, x)
        BY <3>4, <4>2, <1>11
      <4>4. (\E k \in 1 .. n : Buries(k, x))
              => \E k \in 1 .. Len(t) : t[k].op = "dealloc" /\ t[k].r = x
        BY <1>8, <1>12 DEF n
      <4>5. QED  BY <3>1, <3>2, <4>1, <4>3, <4>4
    <3>5. QED  BY <3>3, <3>4
  <2>3. \A x \in Refs, j, k \in 1 .. Len(t) :
          t[j].op = "dealloc" /\ t[j].r = x /\ t[k].op = "dealloc" /\ t[k].r = x => j = k
    <3> SUFFICES ASSUME NEW x \in Refs, NEW j \in 1 .. Len(t), NEW k \in 1 .. Len(t),
                        t[j].op = "dealloc", t[j].r = x, t[k].op = "dealloc", t[k].r = x
                 PROVE  j = k
      OBVIOUS
    <3>1. \A l : l \in 2 .. n => l \in 1 .. n  BY <1>7
    <3>2. CASE x = r  BY <3>1, <3>2, <1>2, <1>11, <1>14
    <3>3. CASE x # r
      <4> DEFINE j2 == j - m + 1
                 k2 == k - m + 1
      <4>1. j2 \in 1 .. n /\ k2 \in 1 .. n /\ Buries(j2, x) /\ Buries(k2, x)
        BY <3>1, <3>3, <1>11
      <4> HIDE DEF j2, k2
      <4>2. j2 = k2  BY <4>1, <1>1 DEF Unburied, n
      <4>3. QED  BY <4>2, <1>7 DEF j2, k2
    <3>4. QED  BY <3>2, <3>3
  <2>4. QED  BY ONLY <2>1, <2>2, <2>3 DEF Unburied, Buries, t
<1>16. Heaped'  BY <1>3, <1>9, <1>10, <1>15 DEF Heaped
<1>17. \A b \in Refs : Guarded(S, b) /\ b # r => PrivateArray(b)'
  <2> SUFFICES ASSUME NEW b \in Refs, Guarded(S, b), b # r PROVE PrivateArray(b)'
    OBVIOUS
  <2>1. PrivateArray(b)  BY GuardedAlone
  <2>2. QED  BY <2>1, <1>2, <1>3 DEF PrivateArray
<1>18. \A g \in Refs : kind[g] = "group" /\ Place(g, 1) /\ items[g][1] = r => refcount[r] # 1
  <2> SUFFICES ASSUME NEW g \in Refs, Place(g, 1), items[g][1] = r, refcount[r] = 1 PROVE FALSE
    OBVIOUS
  <2>1. local[r] = 0 /\ Drops(r) = {}  BY <1>1, <1>2, Sole
  <2>2. QED  BY <2>1, <1>2, <1>5
<1>19. Grounded(T)'
  <2>1. \A x \in Refs : local'[x] = IF x \in T.own THEN 1 ELSE 0
    BY <1>1, <1>2, <1>5 DEF Grounded
  <2>2. \A b, x \in Refs : <<b, x>> \in T.has => \E j \in Nat : Item(b, j, x)'
    <3> SUFFICES ASSUME NEW b \in Refs, NEW x \in Refs, <<b, x>> \in T.has
                 PROVE  \E j \in Nat : Item(b, j, x)'
      OBVIOUS
    <3>1. PICK j \in Nat : Item(b, j, x)  BY <1>1, <1>2 DEF Grounded
    <3>2. Item(b, j, x)'  BY <3>1, <1>2, <1>3 DEF Item, Live, Retains
    <3>3. QED  BY <3>2
  <2>3. \A x \in T.bare : kind'[x] \in {"group", "file"} /\ items'[x] = <<>> /\ refcount'[x] = 1
    <3> SUFFICES ASSUME NEW x \in T.bare
                 PROVE  kind'[x] \in {"group", "file"} /\ items'[x] = <<>> /\ refcount'[x] = 1
      OBVIOUS
    <3>1. /\ x \in Refs /\ refcount[x] = 1 /\ items[x] = <<>> /\ kind[x] \in {"group", "file"}
          /\ Drops(x) = {}
      BY <1>2, BareAlone
    <3>2. x # r  BY <3>1, <1>2, <1>5
    <3>3. QED  BY <3>1, <3>2, <1>2
  <2>4. \A x \in T.priv : PrivateArray(x)'
    <3> SUFFICES ASSUME NEW x \in T.priv PROVE PrivateArray(x)'
      OBVIOUS
    <3>1. x \in S.priv /\ x \in Refs /\ Guarded(S, x)  BY <1>2, GuardedOnes
    <3>2. x # r
      <4>1. Drops(x) = {}  BY <3>1, GuardedAlone
      <4>2. x \in T.own  BY <1>1 DEF Sound
      <4>3. QED  BY <4>1, <4>2, <1>2, <1>5
    <3>3. QED  BY <3>1, <3>2, <1>17
  <2>5. \A k \in 1 .. Len(todo') : todo'[k].op = "shift" =>
          /\ <<todo'[k].a, "array">> \in T.is /\ \A x \in Refs : <<todo'[k].a, x>> \notin T.has
          /\ todo'[k].i \in 1 .. Len(items'[todo'[k].a])
    <3> SUFFICES ASSUME NEW k \in 1 .. Len(t), t[k].op = "shift"
                 PROVE  /\ <<t[k].a, "array">> \in T.is /\ \A x \in Refs : <<t[k].a, x>> \notin T.has
                        /\ t[k].i \in 1 .. Len(items[t[k].a])
      BY <1>2 DEF t
    <3> DEFINE l == k - m + 1
    <3>1. k \notin 1 .. m
      <4>1. ASSUME k \in 1 .. m PROVE FALSE
        <5>1. t[k] = q[k] /\ q[k].op \in {"drop", "dealloc"}  BY <4>1, <1>6, <1>7 DEF m
        <5>2. QED  BY <5>1
      <4>2. QED  BY <4>1
    <3>2. l \in 2 .. n /\ t[k] = todo[l]  BY <3>1, <1>7
    <3> HIDE DEF l
    <3>3. l \in 1 .. n  BY <3>2, <1>7
    <3>4. todo[l].op = "shift"  BY <3>2
    <3>5. /\ <<todo[l].a, "array">> \in S.is /\ \A x \in Refs : <<todo[l].a, x>> \notin S.has
          /\ todo[l].i \in 1 .. Len(items[todo[l].a])
      BY <3>3, <3>4, <1>1 DEF Grounded, n
    <3>6. step.op = "drop"
      <4>1. ASSUME step.op = "release" PROVE FALSE
        <5>1. Quiet(todo)  BY <4>1, <1>1, Quieted
        <5>2. QED  BY <5>1, <3>3, <3>4 DEF Quiet, n
      <4>2. QED  BY <4>1, <1>5
    <3>7. T = S  BY <3>6, <1>2
    <3>8. QED  BY <3>2, <3>5, <3>7
  <2>6. /\ \A x \in T.fresh : ~Live(x)'
        /\ \A x \in T.held : client'[x] > 0
        /\ \A x \in Refs, k \in Kinds : <<x, k>> \in T.is => kind'[x] = k
    BY <1>1, <1>2 DEF Grounded, Live
  <2>7. QED  BY ONLY <2>1, <2>2, <2>3, <2>4, <2>5, <2>6, <1>1 DEF Grounded
<1>20. \A x \in Refs : refcount'[x] > 0 => refcount[x] > 0 /\ ~(x = r /\ refcount[r] = 1)
  BY <1>2
<1>21. \A x \in Refs : refcount'[x] > 0 /\ x \notin T.bare => x \notin S.bare
  <2> SUFFICES ASSUME NEW x \in Refs, refcount'[x] > 0, x \notin T.bare, x \in S.bare PROVE FALSE
    OBVIOUS
  <2>1. refcount[x] = 1  BY BareAlone
  <2>2. x = r  BY <1>2, <1>5
  <2>3. QED  BY <2>1, <2>2, <1>20
<1>22. GroupsOwn(T)'
  <2> SUFFICES ASSUME NEW g \in Refs, kind[g] = "group", refcount'[g] > 0, g \notin T.bare
               PROVE  Len(items[g]) = 1 /\ PrivateArray(items[g][1])'
    BY <1>2 DEF GroupsOwn
  <2>1. refcount[g] > 0 /\ g \notin S.bare  BY <1>20, <1>21
  <2>2. /\ Len(items[g]) = 1 /\ items[g][1] \in Refs /\ Place(g, 1)
        /\ Guarded(S, items[g][1])
    BY <2>1, GuardedOnes
  <2>3. items[g][1] # r
    <3>1. refcount[items[g][1]] = 1  BY <2>2, GuardedAlone
    <3>2. QED  BY <3>1, <2>2, <1>18
  <2>4. QED  BY <2>2, <2>3, <1>2, <1>17
<1>23. FilesOwn(T)'
  <2> SUFFICES ASSUME NEW f \in Refs, kind[f] = "file", refcount'[f] > 0, f \notin T.bare
               PROVE  /\ Len(items[f]) = 1
                      /\ kind[items[f][1]] = "group" /\ items[f][1] \notin T.bare
    BY <1>2 DEF FilesOwn
  <2>1. refcount[f] > 0 /\ f \notin S.bare  BY <1>20, <1>21
  <2>2. QED  BY <2>1, <1>1, <1>2 DEF FilesOwn
<1>24. QED  BY <1>16, <1>19, <1>22, <1>23 DEF Holds
LEMMA TwoSteps ==
  \A d, s \in Steps : <<d>> \o <<s>> = <<d, s>>
<1> SUFFICES ASSUME NEW X, NEW d \in X, NEW s \in X PROVE <<d>> \o <<s>> = <<d, s>>
  OBVIOUS
<1>1. /\ <<d>> \in Seq(X) /\ <<s>> \in Seq(X) /\ Len(<<d>>) = 1 /\ Len(<<s>>) = 1
      /\ <<d>>[1] = d /\ <<s>>[1] = s
  OBVIOUS
<1>2. PICK u, v : u = <<d>> /\ v = <<s>>  OBVIOUS
<1>3. /\ u \o v \in Seq(X) /\ Len(u \o v) = 2 /\ (u \o v)[1] = d /\ (u \o v)[2] = s
  BY <1>1, <1>2
<1>4. \A w \in Seq(X) : Len(w) = 2 /\ w[1] = d /\ w[2] = s => w = <<d, s>>
  <2> TAKE w \in Seq(X)
  <2> HAVE Len(w) = 2 /\ w[1] = d /\ w[2] = s
  <2>1. <<d, s>> \in Seq(X) /\ Len(<<d, s>>) = 2 /\ <<d, s>>[1] = d /\ <<d, s>>[2] = s  OBVIOUS
  <2>2. \A k \in 1 .. 2 : k = 1 \/ k = 2  OBVIOUS
  <2>3. \A k \in 1 .. 2 : w[k] = <<d, s>>[k]  BY <2>1, <2>2
  <2>4. QED  BY <2>1, <2>3, SeqEqual
<1>5. QED  BY <1>2, <1>3, <1>4

LEMMA LetsCompletes ==
  ASSUME NEW S, NEW T, Ready(S, T), NEW r, Lets(r), Completes(Tail(todo), T)
  PROVE  Completes(todo', T)
<1>1. PICK q \in Seq(Steps) : Tearing(r, q) /\ todo' = q \o Tail(todo)  BY LetsCounts
<1>2. \A k \in 1 .. Len(q) : q[k].op \in {"drop", "dealloc"}  BY <1>1 DEF Tearing
<1>3. \A k \in 1 .. Len(q) : Allows(q[k], T, T)  BY <1>2 DEF Allows
<1>4. T \in Grounds /\ Sound(T)  BY DEF Ready
<1>5. QED  BY <1>1, <1>3, <1>4, Looping

(* An item is taken out: first what the array kept it for is dropped, and  *)
(* from then on its place does not keep it.                                *)
LEMMA RemoveHolds ==
  ASSUME NEW S, NEW T, Ready(S, T), DoRemove, Completes(Tail(todo), T)
  PROVE  Heaped' /\ Holds(T)' /\ Completes(todo', T)
<1>1. /\ Typed /\ TypeOK /\ RefsAccounted /\ Unburied /\ ArraysRetain /\ Stacked /\ ArraysOfPages
      /\ Grounded(S) /\ GroupsOwn(S) /\ FilesOwn(S) /\ todo # <<>> /\ Heaped /\ Holds(S)
      /\ step \in Steps /\ Tail(todo) \in Seq(Steps)
      /\ Sound(S) /\ S \in Grounds /\ T \in Grounds /\ Sound(T)
      /\ \A x \in Refs : Reached(S, x) => refcount[x] > 0 /\ Live(x)
  BY ReadyFacts DEF Ready
<1>2. step.op = "remove"  BY DEF DoRemove, Does
<1>3. PICK a, i : a = step.a /\ i = step.i  OBVIOUS
<1>4. /\ a \in Refs /\ i \in Nat /\ i > 0 /\ T = S
      /\ <<a, "array">> \in S.is /\ \A x \in Refs : <<a, x>> \notin S.has
  BY <1>1, <1>2, <1>3, StepFields DEF Ready, Allows, AllowsTake
<1>5. kind[a] = "array" /\ refcount[a] > 0 /\ Live(a)
  BY <1>1, <1>4 DEF Grounded, Sound, Kinds
<1>6. /\ kind' = kind /\ refcount' = refcount /\ items' = items /\ cap' = cap
      /\ callbacks' = callbacks /\ isMutable' = isMutable /\ client' = client /\ local' = local
  BY DEF DoRemove, heap
<1>7. Quiet(todo) /\ Quiet(Tail(todo))  BY <1>1, <1>2, Quieted
<1>8. /\ RefsAccounted <=> QuietAccounts
      /\ \A b, j : ~Leaving(b, j)
      /\ \A x \in Refs : Drops(x) = {}
      /\ \A k \in 1 .. Len(todo), x \in Refs : ~Buries(k, x)
      /\ \A x \in Refs : Keepers(x) = Kept(Holders, items, x)
      /\ \A b \in Refs, j \in Nat : Place(b, j) <=> b \in Holders /\ j \in 1 .. Len(items[b])
  BY <1>1, <1>7, QuietHeap, QuietHeaped
<1>9. Holders' = Holders  BY <1>6 DEF Holders, Keeping, Live, Retains
<1>10. callbacks[a] = "object" /\ a \in Holders
  BY <1>1, <1>4, <1>5 DEF ArraysRetain, Holders, Keeping, Retains
<1>11. CASE ~isMutable[a] \/ i > Len(items[a])
  <2>1. todo' = Tail(todo)  BY <1>3, <1>11 DEF DoRemove
  <2>2. Typed' /\ Quiet(todo')  BY <2>1, <1>1, <1>6, <1>7 DEF Typed, TypeOK
  <2>3. /\ \A k \in 1 .. Len(todo') : todo'[k].op # "shift"
        /\ \A b, j : ~Leaving(b, j)'
        /\ \A b \in Refs, j \in Nat : Place(b, j)' <=> b \in Holders' /\ j \in 1 .. Len(items'[b])
    BY <2>2, QuietHeapNext
  <2>4. \A b \in Refs, j \in Nat : Place(b, j)' <=> Place(b, j)
    BY <2>3, <1>6, <1>8, <1>9
  <2>5. ArraysOfPages' /\ ArraysRetain'
    BY <2>4, <1>1, <1>6 DEF ArraysOfPages, ArraysRetain, Live
  <2>6. Heaped'
    <3>1. QuietAccounts  BY <1>1, <1>8
    <3>2. QuietAccounts'  BY <3>1, <1>6, <1>9 DEF QuietAccounts, Live
    <3>3. QED  BY <3>2, QuietHeapedNext, <2>2, <2>5
  <2>7. \A b \in Refs : PrivateArray(b) => PrivateArray(b)'
    BY <2>4, <1>6 DEF PrivateArray
  <2>8. Grounded(S)'
    <3>1. \A b, x \in Refs : <<b, x>> \in S.has => \E j \in Nat : Item(b, j, x)'
      <4> SUFFICES ASSUME NEW b \in Refs, NEW x \in Refs, <<b, x>> \in S.has
                   PROVE  \E j \in Nat : Item(b, j, x)'
        OBVIOUS
      <4>1. PICK j \in Nat : Item(b, j, x)  BY <1>1 DEF Grounded
      <4>2. Item(b, j, x)'  BY <4>1, <2>3, <1>6 DEF Item, Live, Retains
      <4>3. QED  BY <4>2
    <3>2. \A x \in S.priv : PrivateArray(x)'
      BY <2>7, <1>1 DEF Grounded, Grounds
    <3>3. QED  BY <3>1, <3>2, <2>3, <1>1, <1>6 DEF Grounded, Live
  <2>9. GroupsOwn(S)'
    <3> SUFFICES ASSUME NEW g \in Refs, kind[g] = "group", refcount[g] > 0, g \notin S.bare
                 PROVE  Len(items[g]) = 1 /\ PrivateArray(items[g][1])'
      BY <1>6 DEF GroupsOwn
    <3>1. Len(items[g]) = 1 /\ items[g][1] \in Refs /\ PrivateArray(items[g][1])
      BY <1>1, ItemsAreRefs DEF GroupsOwn
    <3>2. QED  BY <3>1, <2>7, <1>6
  <2>10. FilesOwn(S)'  BY <1>1, <1>6 DEF FilesOwn
  <2>11. QED  BY <2>1, <2>6, <2>8, <2>9, <2>10, <1>4 DEF Holds
<1>12. CASE isMutable[a] /\ ~(i > Len(items[a]))
  <2>1. /\ items[a] \in Seq(Refs) /\ Len(items[a]) \in Nat /\ i \in 1 .. Len(items[a])
        /\ items[a][i] \in Refs
    BY <1>1, <1>4, <1>12, ItemsAreRefs
  <2>2. PICK x0, d, s : x0 = items[a][i] /\ d = Drop(x0) /\ s = Shift(a, i)  OBVIOUS
  <2>3. /\ d \in Steps /\ d.op = "drop" /\ d.r = x0
        /\ s \in Steps /\ s.op = "shift" /\ s.a = a /\ s.i = i
    BY <2>1, <2>2, <1>4 DEF Drop, Shift, Steps
  <2>4. PICK q : q = <<d, s>>  OBVIOUS
  <2>5. q \in Seq(Steps) /\ Len(q) = 2 /\ q[1] = d /\ q[2] = s  BY <2>3, <2>4
  <2>6. todo' = q \o Tail(todo)
    <3>1. todo' = <<Drop(items[a][i])>> \o <<Shift(a, i)>> \o Tail(todo)
      BY <1>3, <1>10, <1>12 DEF DoRemove
    <3>2. <<d>> \o <<s>> = <<d, s>>  BY <2>3, TwoSteps
    <3>3. QED  BY <3>1, <3>2, <2>2, <2>4
  <2>7. Replacing(todo, q, todo')  BY <2>5, <2>6, <1>1, Replaced DEF Typed
  <2> DEFINE t == todo'
             n == Len(todo)
  <2>8. /\ n \in Nat /\ n >= 1 /\ Len(t) \in Nat /\ t \in Seq(Steps)
        /\ 1 \in 1 .. Len(t) /\ t[1] = d /\ 2 \in 1 .. Len(t) /\ t[2] = s
        /\ \A k \in 1 .. Len(t) : k = 1 \/ k = 2 \/ (k - 1 \in 2 .. n /\ t[k] = todo[k - 1])
    <3>1. /\ Len(t) \in Nat /\ Len(todo) \in Nat /\ t \in Seq(Steps)
          /\ \A k \in 1 .. 2 : k \in 1 .. Len(t) /\ t[k] = q[k]
          /\ \A k \in 1 .. Len(t) :
               k \in 1 .. 2 \/ (k - 2 + 1 \in 2 .. Len(todo) /\ t[k] = todo[k - 2 + 1])
      BY <2>5, <2>7 DEF Replacing
    <3>2. Len(todo) >= 1  BY <1>1, Heads
    <3> HIDE DEF t
    <3>3. 1 \in 1 .. 2 /\ 2 \in 1 .. 2 /\ \A k \in 1 .. 2 : k = 1 \/ k = 2  OBVIOUS
    <3>4. \A k \in 1 .. Len(t) : k - 2 + 1 = k - 1  OBVIOUS
    <3>5. QED  BY <3>1, <3>2, <3>3, <3>4, <2>5
  <2>9. \A k \in 2 .. n : todo[k].op \notin {"drop", "dealloc", "shift"}
    BY <2>8, <1>7 DEF Quiet
  <2> HIDE DEF t, n
  <2>10. \A k \in 1 .. Len(t) : k # 1 /\ k # 2 => t[k].op \notin {"drop", "dealloc", "shift"}
    BY <2>8, <2>9
  <2>11. Typed'  BY <2>8, <1>1, <1>6 DEF Typed, TypeOK, t
  <2>12. Stacked'
    <3> SUFFICES ASSUME NEW j \in 1 .. Len(t), NEW k \in 1 .. Len(t), j < k,
                        t[k].op \in {"drop", "dealloc"} \/ t[k].op = "shift"
                 PROVE  t[j].op \in {"drop", "dealloc"}
      BY DEF Stacked, Tears, t
    <3>1. k = 1 \/ k = 2  BY <2>10
    <3>2. j = 1  BY <3>1, <2>8
    <3>3. QED  BY <3>2, <2>3, <2>8
  <2>13. \A b, j : Leaving(b, j)' <=> b = a /\ j = i
    <3> TAKE b, j
    <3>1. ASSUME Leaving(b, j)' PROVE b = a /\ j = i
      <4>1. PICK k \in 1 .. Len(t) : t[k].op = "shift" /\ t[k].a = b /\ t[k].i = j
        BY <3>1 DEF Leaving, t
      <4>2. k = 2  BY <4>1, <2>3, <2>8, <2>10
      <4>3. QED  BY <4>1, <4>2, <2>3, <2>8
    <3>2. ASSUME b = a, j = i PROVE Leaving(b, j)'
      BY <3>2, <2>3, <2>8 DEF Leaving, t
    <3>3. QED  BY <3>1, <3>2
  <2>14. \A b \in Refs, j \in Nat : Place(b, j)' <=> Place(b, j) /\ ~(b = a /\ j = i)
    BY <2>13, <1>6, <1>8, <1>9 DEF Place
  <2>15. ArraysOfPages' /\ ArraysRetain'
    BY <2>14, <1>1, <1>6 DEF ArraysOfPages, ArraysRetain, Live
  <2>16. Unburied'
    <3>1. \A k \in 1 .. Len(t), x \in Refs : ~(t[k].op = "dealloc" /\ t[k].r = x)
      BY <2>3, <2>8, <2>10
    <3>2. \A x \in Refs : /\ ~Live(x) => refcount[x] = 0
                          /\ ~(Live(x) /\ refcount[x] = 0)
      BY <1>1, <1>8 DEF Unburied
    <3>3. \A x \in Refs : Live(x)' <=> Live(x)  BY <1>6 DEF Live
    <3>4. QED  BY <3>1, <3>2, <3>3, <1>6 DEF Unburied, Buries, t
  <2>17. RefsAccounted'
    <3> SUFFICES ASSUME NEW x \in Refs
                 PROVE  refcount[x] = client[x] + local[x] + Cardinality(Keepers(x)')
                                        + Cardinality(Drops(x)')
      BY <1>6 DEF RefsAccounted
    <3> DEFINE K == Keepers(x)
               L == Keepers(x)'
               d2 == Cardinality(Dropping(todo', x))
    <3>1. /\ IsFiniteSet(K) /\ K \subseteq Refs \X Nat
          /\ \A b \in Refs, j \in Nat : <<b, j>> \in K <=> Place(b, j) /\ items[b][j] = x
      BY <1>1, KeepersAre
    <3>2. /\ IsFiniteSet(L) /\ L \subseteq Refs \X Nat
          /\ \A b \in Refs, j \in Nat : <<b, j>> \in L <=> Place(b, j)' /\ items[b][j] = x
      BY <2>11, <1>6, KeepersAreNext DEF Typed
    <3>3. Drops(x)' = Dropping(todo', x)  BY DEF Drops, Dropping
    <3>4. refcount[x] = client[x] + local[x] + Cardinality(K)
      BY <1>1, <1>8 DEF QuietAccounts
    <3>5. client[x] \in Nat /\ local[x] \in Nat  BY <1>1 DEF TypeOK
    <3>6. d2 = IF x = x0 THEN 1 ELSE 0
      <4>1. PICK u, v : u = <<d>> /\ v = <<s>>  OBVIOUS
      <4>2. u \in Seq(Steps) /\ v \in Seq(Steps) /\ q = u \o v
        <5>1. <<d>> \o <<s>> = <<d, s>>  BY <2>3, TwoSteps
        <5>2. <<d>> \in Seq(Steps) /\ <<s>> \in Seq(Steps)  BY <2>3
        <5>3. QED  BY <5>1, <5>2, <4>1, <2>4
      <4>3. PICK w : w = Tail(todo)  OBVIOUS
      <4>4. w \in Seq(Steps) /\ todo' = q \o w /\ Quiet(w)  BY <4>3, <2>6, <1>1, <1>7
      <4>5. Dropping(w, x) = {}
        <5>1. Len(w) \in Nat  BY <4>4
        <5>2. \A e \in 0 .. Len(w) - 1 : Len(w) - e \in 1 .. Len(w)  BY <5>1
        <5>3. QED  BY <5>2, <4>4 DEF Dropping, Quiet
      <4>6. Cardinality(Dropping(w, x)) = 0  BY <4>5, FS_EmptySet
      <4>7. Cardinality(Dropping(v, x)) = 0  BY <4>1, <2>3, DropsOne
      <4>8. /\ x = x0 => Cardinality(Dropping(u, x)) = 1
            /\ x # x0 => Cardinality(Dropping(u, x)) = 0
        BY <4>1, <2>3, DropsOne
      <4>9. d2 = Cardinality(Dropping(w, x)) + Cardinality(Dropping(q, x))
        BY <4>4, <2>5, Pushed
      <4>10. Cardinality(Dropping(q, x)) = Cardinality(Dropping(v, x)) + Cardinality(Dropping(u, x))
        BY <4>2, Pushed
      <4> HIDE DEF d2
      <4>11. QED  BY <4>6, <4>7, <4>8, <4>9, <4>10
    <3> HIDE DEF K, L, d2
    <3>7. L = K \ {<<a, i>>}
      <4>1. \A b \in Refs, j \in Nat : <<b, j>> \in L <=> <<b, j>> \in K /\ <<b, j>> # <<a, i>>
        BY <3>1, <3>2, <2>14
      <4>2. \A pl \in Refs \X Nat : pl \in L <=> pl \in K /\ pl # <<a, i>>
        BY <4>1
      <4>3. QED  BY <4>2, <3>1, <3>2
    <3>8. <<a, i>> \in K <=> x = x0
      <4>1. Place(a, i)  BY <2>1, <1>4, <1>8, <1>10
      <4>2. QED  BY <4>1, <2>2, <3>1, <1>4
    <3>9. Cardinality(L) = IF <<a, i>> \in K THEN Cardinality(K) - 1 ELSE Cardinality(K)
      BY <3>1, <3>7, FS_RemoveElement
    <3>10. Cardinality(K) \in Nat /\ Cardinality(L) \in Nat  BY <3>1, <3>2, FS_CardinalityType
    <3>11. Cardinality(L) + d2 = Cardinality(K)
      BY <3>6, <3>8, <3>9, <3>10
    <3>12. d2 \in Nat  BY <3>6
    <3> DEFINE c == client[x]
               o == local[x]
               k == Cardinality(K)
               l == Cardinality(L)
    <3>13. c \in Nat /\ o \in Nat /\ k \in Nat /\ l \in Nat /\ d2 \in Nat /\ l + d2 = k
           /\ refcount[x] = c + o + k
      BY <3>4, <3>5, <3>10, <3>11, <3>12
    <3> HIDE DEF c, o, k, l
    <3>14. refcount[x] = c + o + l + d2  BY ONLY <3>13
    <3>15. QED  BY <3>3, <3>14 DEF c, o, l, L, d2
  <2>18. Heaped'  BY <2>11, <2>12, <2>15, <2>16, <2>17 DEF Heaped
  <2>19. \A b \in Refs : PrivateArray(b) => PrivateArray(b)'
    BY <2>14, <1>6 DEF PrivateArray
  <2>20. Grounded(S)'
    <3>1. \A b, x \in Refs : <<b, x>> \in S.has => \E j \in Nat : Item(b, j, x)'
      <4> SUFFICES ASSUME NEW b \in Refs, NEW x \in Refs, <<b, x>> \in S.has
                   PROVE  \E j \in Nat : Item(b, j, x)'
        OBVIOUS
      <4>1. PICK j \in Nat : Item(b, j, x)  BY <1>1 DEF Grounded
      <4>2. b # a  BY <1>4
      <4>3. Item(b, j, x)'  BY <4>1, <4>2, <2>13, <1>6 DEF Item, Live, Retains
      <4>4. QED  BY <4>3
    <3>2. \A x \in S.priv : PrivateArray(x)'
      BY <2>19, <1>1 DEF Grounded, Grounds
    <3>3. \A k \in 1 .. Len(todo') : todo'[k].op = "shift" =>
            /\ <<todo'[k].a, "array">> \in S.is /\ \A x \in Refs : <<todo'[k].a, x>> \notin S.has
            /\ todo'[k].i \in 1 .. Len(items'[todo'[k].a])
      <4> SUFFICES ASSUME NEW k \in 1 .. Len(t), t[k].op = "shift"
                   PROVE  /\ <<t[k].a, "array">> \in S.is /\ \A x \in Refs : <<t[k].a, x>> \notin S.has
                          /\ t[k].i \in 1 .. Len(items[t[k].a])
        BY <1>6 DEF t
      <4>1. k = 2  BY <2>3, <2>8, <2>10
      <4>2. t[k].a = a /\ t[k].i = i  BY <4>1, <2>3, <2>8
      <4>3. QED  BY <4>2, <2>1, <1>4
    <3>4. QED  BY <3>1, <3>2, <3>3, <1>1, <1>6 DEF Grounded, Live
  <2>21. GroupsOwn(S)'
    <3> SUFFICES ASSUME NEW g \in Refs, kind[g] = "group", refcount[g] > 0, g \notin S.bare
                 PROVE  Len(items[g]) = 1 /\ PrivateArray(items[g][1])'
      BY <1>6 DEF GroupsOwn
    <3>1. Len(items[g]) = 1 /\ items[g][1] \in Refs /\ PrivateArray(items[g][1])
      BY <1>1, ItemsAreRefs DEF GroupsOwn
    <3>2. QED  BY <3>1, <2>19, <1>6
  <2>22. FilesOwn(S)'  BY <1>1, <1>6 DEF FilesOwn
  <2>23. Completes(todo', S)
    <3>1. Allows(d, S, S)  BY <2>3 DEF Allows
    <3>2. Allows(s, S, S)  BY <2>3, <1>4 DEF Allows, AllowsTake
    <3>3. \A k \in 1 .. Len(q) : Allows(q[k], S, S)
      <4>1. \A k \in 1 .. 2 : k = 1 \/ k = 2  OBVIOUS
      <4>2. QED  BY <4>1, <3>1, <3>2, <2>5
    <3>4. QED  BY <3>3, <2>5, <2>6, <1>1, <1>4, Looping
  <2>24. QED  BY <2>18, <2>20, <2>21, <2>22, <2>23, <1>4 DEF Holds
<1>13. QED
  <2>1. Len(items[a]) \in Nat /\ i \in Nat /\ isMutable[a] \in BOOLEAN
    BY <1>1, <1>4, ItemsAreRefs DEF TypeOK
  <2>2. QED  BY <2>1, <1>11, <1>12
LEMMA ShiftHolds ==
  ASSUME NEW S, NEW T, Ready(S, T), DoShift
  PROVE  Heaped' /\ Holds(T)'
<1>1. /\ Typed /\ TypeOK /\ RefsAccounted /\ Unburied /\ ArraysRetain /\ Stacked /\ ArraysOfPages
      /\ Grounded(S) /\ GroupsOwn(S) /\ FilesOwn(S) /\ todo # <<>>
      /\ step \in Steps /\ Tail(todo) \in Seq(Steps)
      /\ Sound(S) /\ S \in Grounds /\ T \in Grounds /\ Sound(T)
      /\ \A x \in Refs : Reached(S, x) => refcount[x] > 0 /\ Live(x)
  BY ReadyFacts DEF Ready
<1>2. step.op = "shift"  BY DEF DoShift, Does
<1>3. PICK a, i : a = step.a /\ i = step.i  OBVIOUS
<1>4. /\ a \in Refs /\ i \in Nat /\ T = S
      /\ <<a, "array">> \in S.is /\ \A x \in Refs : <<a, x>> \notin S.has
  BY <1>1, <1>2, <1>3, StepFields DEF Ready, Allows, AllowsTake
<1>5. kind[a] = "array" /\ refcount[a] > 0 /\ Live(a)
  BY <1>1, <1>4 DEF Grounded, Sound, Kinds
<1>6. /\ kind' = kind /\ refcount' = refcount /\ cap' = cap /\ callbacks' = callbacks
      /\ isMutable' = isMutable /\ client' = client /\ local' = local /\ todo' = Tail(todo)
      /\ items' = [items EXCEPT ![a] = RemoveAt(@, i)]
  BY <1>3 DEF DoShift
<1>7. /\ step = todo[1] /\ Len(todo) \in Nat /\ Len(todo) >= 1 /\ Len(Tail(todo)) = Len(todo) - 1
      /\ Quiet(Tail(todo))
      /\ \A k \in 1 .. Len(Tail(todo)) : Tail(todo)[k] = todo[k + 1]
  BY <1>1, <1>2, Heads, Quieted
<1>8. \A k \in 1 .. Len(todo) : k # 1 => todo[k].op \notin {"drop", "dealloc", "shift"}
  <2> SUFFICES ASSUME NEW k \in 1 .. Len(todo), k # 1
               PROVE  todo[k].op \notin {"drop", "dealloc", "shift"}
    OBVIOUS
  <2> DEFINE l == k - 1
  <2>1. l \in 1 .. Len(Tail(todo)) /\ l + 1 = k  BY <1>7
  <2> HIDE DEF l
  <2>2. Tail(todo)[l] = todo[k]  BY <2>1, <1>7
  <2>3. Tail(todo)[l].op \notin {"drop", "dealloc", "shift"}  BY <2>1, <1>7 DEF Quiet
  <2>4. QED  BY <2>2, <2>3
<1>9. \A b, j : Leaving(b, j) <=> b = a /\ j = i
  BY <1>2, <1>3, <1>7, <1>8 DEF Leaving
<1>10. \A x \in Refs : Drops(x) = {}
  <2>1. \A d \in 0 .. Len(todo) - 1 : Len(todo) - d \in 1 .. Len(todo)  BY <1>7
  <2>2. \A k \in 1 .. Len(todo) : todo[k].op # "drop"  BY <1>2, <1>7, <1>8
  <2>3. QED  BY <2>1, <2>2 DEF Drops
<1>11. i \in 1 .. Len(items[a])
  <2>1. 1 \in 1 .. Len(todo)  BY <1>7
  <2>2. QED  BY <2>1, <1>1, <1>2, <1>3, <1>7 DEF Grounded
<1>12. items[a] \in Seq(Refs) /\ Len(items[a]) \in Nat  BY <1>1, <1>4, ItemsAreRefs
<1> DEFINE n == Len(items[a])
<1>13. /\ items'[a] \in Seq(Refs) /\ Len(items'[a]) = n - 1
       /\ \A j \in 1 .. n - 1 : items'[a][j] = IF j < i THEN items[a][j] ELSE items[a][j + 1]
       /\ \A b \in Refs : b # a => items'[b] = items[b]
       /\ items' \in [Refs -> Seq(Refs)]
       /\ items'[a] = RemoveAt(items[a], i)
  <2>1. items \in [Refs -> Seq(Refs)]  BY <1>1 DEF TypeOK
  <2>2. items'[a] = RemoveAt(items[a], i)  BY <2>1, <1>4, <1>6
  <2>3. \A b \in Refs : b # a => items'[b] = items[b]  BY <2>1, <1>6
  <2>4. /\ RemoveAt(items[a], i) \in Seq(Refs) /\ Len(RemoveAt(items[a], i)) = n - 1
        /\ \A j \in 1 .. n - 1 :
             RemoveAt(items[a], i)[j] = IF j < i THEN items[a][j] ELSE items[a][j + 1]
    BY <1>11, <1>12, Removed
  <2>5. items' \in [Refs -> Seq(Refs)]  BY <2>1, <2>4, <1>6
  <2>6. QED  BY <2>2, <2>3, <2>4, <2>5
<1>14. Quiet(todo') /\ todo' \in Seq(Steps)  BY <1>1, <1>6, <1>7
<1>15. Typed'
  <2>1. \A x \in Refs : /\ kind[x] \in {"group", "file"} => Len(items'[x]) <= 1
                        /\ kind[x] = "array" => Len(items'[x]) <= cap[x]
    <3> TAKE x \in Refs
    <3>1. CASE x = a
      <4>1. cap[a] \in Nat /\ n <= cap[a]  BY <1>1, <1>4, <1>5 DEF TypeOK
      <4>2. n - 1 <= cap[a]  BY <4>1, <1>12
      <4>3. QED  BY <3>1, <4>2, <1>5, <1>13
    <3>2. CASE x # a  BY <3>2, <1>1, <1>13 DEF TypeOK
    <3>3. QED  BY <3>1, <3>2
  <2>2. QED  BY <2>1, <1>1, <1>6, <1>13, <1>14 DEF Typed, TypeOK
<1>16. Holders' = Holders  BY <1>6 DEF Holders, Keeping, Live, Retains
<1>17. a \in Holders
  BY <1>1, <1>4, <1>5 DEF ArraysRetain, Holders, Keeping, Retains
<1>18. \A b \in Refs, j \in Nat :
         Place(b, j) <=> b \in Holders /\ j \in 1 .. Len(items[b]) /\ ~(b = a /\ j = i)
  BY <1>9 DEF Place
<1>19. /\ \A k \in 1 .. Len(todo') : todo'[k].op # "shift"
       /\ \A b, j : ~Leaving(b, j)'
       /\ \A b \in Refs, j \in Nat : Place(b, j)' <=> b \in Holders /\ j \in 1 .. Len(items'[b])
  BY <1>14, <1>15, <1>16, QuietHeapNext
<1> HIDE DEF n
<1>20. \A b \in Refs, j \in Nat : Place(b, j)' =>
         \E l \in Nat : Place(b, l) /\ items[b][l] = items'[b][j]
  <2> SUFFICES ASSUME NEW b \in Refs, NEW j \in Nat, Place(b, j)'
               PROVE  \E l \in Nat : Place(b, l) /\ items[b][l] = items'[b][j]
    OBVIOUS
  <2>1. b \in Holders /\ j \in 1 .. Len(items'[b])  BY <1>19
  <2>2. CASE b # a
    <3>1. Place(b, j) /\ items[b][j] = items'[b][j]  BY <2>1, <2>2, <1>13, <1>18
    <3>2. QED  BY <3>1
  <2>3. CASE b = a
    <3>1. n \in Nat /\ i \in 1 .. n /\ j \in 1 .. n - 1
      BY <2>1, <2>3, <1>11, <1>12, <1>13 DEF n
    <3>2. CASE j < i
      <4>1. j \in 1 .. n /\ j # i  BY <3>1, <3>2
      <4>2. items'[a][j] = items[a][j]  BY <3>1, <3>2, <1>13
      <4>3. Place(a, j)  BY <4>1, <1>4, <1>17, <1>18 DEF n
      <4>4. QED  BY <2>3, <4>2, <4>3
    <3>3. CASE ~(j < i)
      <4>1. j + 1 \in 1 .. n /\ j + 1 # i /\ j + 1 \in Nat  BY <3>1, <3>3
      <4>2. items'[a][j] = items[a][j + 1]  BY <3>1, <3>3, <1>13
      <4>3. Place(a, j + 1)  BY <4>1, <1>4, <1>17, <1>18 DEF n
      <4>4. QED  BY <2>3, <4>1, <4>2, <4>3
    <3>4. QED  BY <3>2, <3>3
  <2>4. QED  BY <2>2, <2>3
<1>21. ArraysOfPages' /\ ArraysRetain'
  <2>1. ArraysOfPages'
    <3> SUFFICES ASSUME OnlyPages, NEW b \in Refs, NEW j \in Nat, kind[b] = "array", Place(b, j)'
                 PROVE  kind[items'[b][j]] = "page"
      BY <1>6 DEF ArraysOfPages
    <3>1. PICK l \in Nat : Place(b, l) /\ items[b][l] = items'[b][j]  BY <1>20
    <3>2. QED  BY <3>1, <1>1 DEF ArraysOfPages
  <2>2. ArraysRetain'  BY <1>1, <1>6 DEF ArraysRetain, Live
  <2>3. QED  BY <2>1, <2>2
<1>22. Heaped'
  <2>1. \A x \in Refs : Live(x)' <=> refcount'[x] > 0
    <3>1. \A k \in 1 .. Len(todo), x \in Refs : ~Buries(k, x)
      BY <1>2, <1>7, <1>8 DEF Buries
    <3>2. \A x \in Refs : (~Live(x) => refcount[x] = 0) /\ ~(Live(x) /\ refcount[x] = 0)
      BY <3>1, <1>1 DEF Unburied
    <3>3. \A x \in Refs : refcount[x] \in Nat  BY <1>1 DEF TypeOK
    <3>4. QED  BY <3>2, <3>3, <1>6 DEF Live
  <2>2. \A x \in Refs : refcount'[x] = client'[x] + local'[x] + Cardinality(Kept(Holders', items', x))
    <3> TAKE x \in Refs
    <3> DEFINE K == Kept(Holders, items, x)
               L == Kept(Holders, items', x)
    <3>1. /\ Holders \in SUBSET Refs /\ items \in Tables /\ items' \in Tables
          /\ Narrows(items, items', a, i)
      BY <1>1, <1>4, <1>11, <1>13 DEF Holders, TypeOK, Tables, Narrows
    <3>2. Cardinality(L) = Cardinality(K \ {<<a, i>>})  BY ONLY <3>1, <1>17, Narrowed
    <3>3. Keepers(x) = K \ {<<a, i>>}
      <4>1. Keepers(x) = {pl \in K : ~Leaving(pl[1], pl[2])}  BY <1>1, KeepersAre
      <4>2. \A pl \in K : pl = <<pl[1], pl[2]>>  BY DEF Kept
      <4>3. \A pl \in K : Leaving(pl[1], pl[2]) <=> pl = <<a, i>>  BY <4>2, <1>9
      <4> HIDE DEF K
      <4>4. QED  BY <4>1, <4>3
    <3>4. Cardinality(Drops(x)) = 0  BY <1>10, FS_EmptySet
    <3>5. IsFiniteSet(Keepers(x))  BY <1>1, KeepersAre
    <3> DEFINE k == Cardinality(Keepers(x))
    <3>6. k \in Nat  BY <3>5, FS_CardinalityType
    <3>7. client[x] \in Nat /\ local[x] \in Nat  BY <1>1 DEF TypeOK
    <3>8. refcount[x] = client[x] + local[x] + k + 0  BY <3>4, <1>1 DEF RefsAccounted
    <3> HIDE DEF k, K, L
    <3>9. refcount[x] = client[x] + local[x] + k  BY <3>6, <3>7, <3>8
    <3>10. QED  BY <3>2, <3>3, <3>9, <1>6, <1>16 DEF k, L
  <2>3. QuietAccounts'  BY <2>1, <2>2 DEF QuietAccounts
  <2>4. QED  BY <2>3, QuietHeapedNext, <1>14, <1>15, <1>21
<1>23. \A b \in Refs : PrivateArray(b) => PrivateArray(b)'
  <2> SUFFICES ASSUME NEW b \in Refs, PrivateArray(b) PROVE PrivateArray(b)'
    OBVIOUS
  <2>1. \A j \in Nat : Place(b, j)' => kind[items'[b][j]] = "page"
    <3> SUFFICES ASSUME NEW j \in Nat, Place(b, j)' PROVE kind[items'[b][j]] = "page"
      OBVIOUS
    <3>1. PICK l \in Nat : Place(b, l) /\ items[b][l] = items'[b][j]  BY <1>20
    <3>2. QED  BY <3>1 DEF PrivateArray
  <2>2. QED  BY <2>1, <1>6 DEF PrivateArray
<1>24. Grounded(S)'
  <2>1. \A b, x \in Refs : <<b, x>> \in S.has => \E j \in Nat : Item(b, j, x)'
    <3> SUFFICES ASSUME NEW b \in Refs, NEW x \in Refs, <<b, x>> \in S.has
                 PROVE  \E j \in Nat : Item(b, j, x)'
      OBVIOUS
    <3>1. PICK j \in Nat : Item(b, j, x)  BY <1>1 DEF Grounded
    <3>2. b # a  BY <1>4
    <3>3. Item(b, j, x)'  BY <3>1, <3>2, <1>6, <1>13, <1>19 DEF Item, Live, Retains
    <3>4. QED  BY <3>3
  <2>2. \A x \in S.priv : PrivateArray(x)'
    BY <1>23, <1>1 DEF Grounded, Grounds
  <2>3. \A x \in S.bare : kind'[x] \in {"group", "file"} /\ items'[x] = <<>> /\ refcount'[x] = 1
    <3> SUFFICES ASSUME NEW x \in S.bare
                 PROVE  kind'[x] \in {"group", "file"} /\ items'[x] = <<>> /\ refcount'[x] = 1
      OBVIOUS
    <3>1. x \in Refs /\ refcount[x] = 1 /\ items[x] = <<>> /\ kind[x] \in {"group", "file"}
      BY BareAlone
    <3>2. x # a  BY <3>1, <1>5
    <3>3. QED  BY <3>1, <3>2, <1>6, <1>13
  <2>4. /\ \A x \in S.fresh : ~Live(x)'
        /\ \A x \in S.held : client'[x] > 0
        /\ \A x \in Refs, k \in Kinds : <<x, k>> \in S.is => kind'[x] = k
        /\ \A x \in Refs : local'[x] = IF x \in S.own THEN 1 ELSE 0
    BY <1>1, <1>6 DEF Grounded, Live
  <2>5. QED  BY ONLY <2>1, <2>2, <2>3, <2>4, <1>1, <1>19 DEF Grounded
<1>25. GroupsOwn(S)'
  <2> SUFFICES ASSUME NEW g \in Refs, kind[g] = "group", refcount[g] > 0, g \notin S.bare
               PROVE  Len(items'[g]) = 1 /\ PrivateArray(items[g][1])'
    BY <1>6 DEF GroupsOwn
  <2>1. Len(items[g]) = 1 /\ items[g][1] \in Refs /\ PrivateArray(items[g][1])
    BY <1>1, ItemsAreRefs DEF GroupsOwn
  <2>2. g # a  BY <1>5
  <2>3. QED  BY <2>1, <2>2, <1>13, <1>23
<1>26. FilesOwn(S)'
  <2> SUFFICES ASSUME NEW f \in Refs, kind[f] = "file", refcount[f] > 0, f \notin S.bare
               PROVE  /\ Len(items'[f]) = 1
                      /\ kind[items'[f][1]] = "group" /\ items'[f][1] \notin S.bare
    BY <1>6 DEF FilesOwn
  <2>1. f # a  BY <1>5
  <2>2. QED  BY <2>1, <1>1, <1>13 DEF FilesOwn
<1>27. QED  BY <1>4, <1>22, <1>24, <1>25, <1>26 DEF Holds
LEMMA DeallocHolds ==
  ASSUME NEW S, NEW T, Ready(S, T), DoDealloc
  PROVE  Heaped' /\ Holds(T)'
<1>1. /\ Typed /\ TypeOK /\ RefsAccounted /\ Unburied /\ ArraysRetain /\ Stacked /\ ArraysOfPages
      /\ Grounded(S) /\ GroupsOwn(S) /\ FilesOwn(S) /\ Standing(S) /\ todo # <<>>
      /\ step \in Steps /\ Tail(todo) \in Seq(Steps)
      /\ Sound(S) /\ S \in Grounds /\ T \in Grounds /\ Sound(T)
      /\ \A x \in Refs : Reached(S, x) => refcount[x] > 0 /\ Live(x)
  BY ReadyFacts DEF Ready
<1>2. step.op = "dealloc" /\ T = S  BY DEF DoDealloc, Does, Ready, Allows
<1>3. PICK r : r = step.r  OBVIOUS
<1>4. r \in Refs  BY <1>1, <1>2, <1>3, StepFields
<1> DEFINE n == Len(todo)
<1>5. /\ step = todo[1] /\ n \in Nat /\ n >= 1 /\ 1 \in 1 .. n /\ todo' = Tail(todo)
      /\ Len(todo') \in Nat /\ Len(todo') = n - 1
      /\ \A k \in 1 .. Len(todo') : todo'[k] = todo[k + 1] /\ k + 1 \in 1 .. n
  BY <1>1, Heads DEF DoDealloc
<1>6. Buries(1, r)  BY <1>2, <1>3, <1>5 DEF Buries
<1>7. Live(r) /\ refcount[r] = 0  BY <1>1, <1>4, <1>5, <1>6 DEF Unburied
<1>8. client[r] = 0 /\ local[r] = 0 /\ Keepers(r) = {} /\ Drops(r) = {}
  BY <1>1, <1>4, <1>7, Backed
<1>9. \A k \in 1 .. n : Buries(k, r) => k = 1
  BY <1>1, <1>4, <1>5, <1>6 DEF Unburied
<1>10. /\ refcount' = refcount /\ client' = client /\ local' = local
       /\ kind'[r] = "none" /\ items'[r] = <<>> /\ cap'[r] = 0 /\ callbacks'[r] = "default"
       /\ isMutable'[r] = FALSE
       /\ \A x \in Refs : x # r =>
            /\ kind'[x] = kind[x] /\ items'[x] = items[x] /\ cap'[x] = cap[x]
            /\ callbacks'[x] = callbacks[x] /\ isMutable'[x] = isMutable[x]
  BY <1>1, <1>3, <1>4 DEF DoDealloc, TypeOK
<1>11. Typed'
  <2>1. Len(<<>>) = 0 /\ <<>> \in Seq(Refs)  BY <1>4
  <2>2. /\ kind' \in [Refs -> {"none", "page", "array", "group", "file"}]
        /\ items' \in [Refs -> Seq(Refs)] /\ cap' \in [Refs -> Nat]
        /\ callbacks' \in [Refs -> {"object", "default"}] /\ isMutable' \in [Refs -> BOOLEAN]
    BY <2>1, <1>1, <1>3, <1>4 DEF DoDealloc, TypeOK
  <2>3. \A x \in Refs : /\ kind'[x] \in {"group", "file"} => Len(items'[x]) <= 1
                        /\ kind'[x] = "array" => Len(items'[x]) <= cap'[x]
    <3> TAKE x \in Refs
    <3>1. CASE x = r  BY <3>1, <1>10
    <3>2. CASE x # r  BY <3>2, <1>1, <1>10 DEF TypeOK
    <3>3. QED  BY <3>1, <3>2
  <2>4. QED  BY <2>2, <2>3, <1>1, <1>5, <1>10 DEF Typed, TypeOK
<1>12. \A k \in 1 .. n : k # 1 => k - 1 \in 1 .. Len(todo') /\ todo'[k - 1] = todo[k]
  <2> SUFFICES ASSUME NEW k \in 1 .. n, k # 1
               PROVE  k - 1 \in 1 .. Len(todo') /\ todo'[k - 1] = todo[k]
    OBVIOUS
  <2> DEFINE l == k - 1
  <2>1. l \in 1 .. Len(todo') /\ l + 1 = k  BY <1>5
  <2> HIDE DEF l
  <2>2. todo'[l] = todo[k]  BY <2>1, <1>5
  <2>3. QED  BY <2>1, <2>2 DEF l
<1>13. \A a, i : Leaving(a, i)' <=> Leaving(a, i)
  <2> TAKE a, i
  <2>1. ASSUME Leaving(a, i)' PROVE Leaving(a, i)
    BY <2>1, <1>5 DEF Leaving
  <2>2. ASSUME Leaving(a, i) PROVE Leaving(a, i)'
    <3>1. PICK k \in 1 .. n : todo[k].op = "shift" /\ todo[k].a = a /\ todo[k].i = i
      BY <2>2 DEF Leaving
    <3>2. k # 1  BY <3>1, <1>2, <1>5
    <3>3. k - 1 \in 1 .. Len(todo') /\ todo'[k - 1] = todo[k]  BY <3>2, <1>12
    <3>4. QED  BY <3>1, <3>3 DEF Leaving
  <2>3. QED  BY <2>1, <2>2
<1>14. r \notin Holders' /\ r \notin Holders  BY <1>7, <1>10 DEF Holders, Keeping
<1>15. \A a \in Refs : a # r => (a \in Holders' <=> a \in Holders)
  BY <1>10 DEF Holders, Keeping, Live, Retains
<1>16. \A a \in Refs, i \in Nat : Place(a, i)' <=> Place(a, i)
  BY <1>10, <1>13, <1>14, <1>15 DEF Place
<1>17. \A a \in Refs, i \in Nat : Place(a, i) =>
         a # r /\ items'[a] = items[a] /\ items[a][i] # r /\ items[a][i] \in Refs
  <2> SUFFICES ASSUME NEW a \in Refs, NEW i \in Nat, Place(a, i)
               PROVE  a # r /\ items'[a] = items[a] /\ items[a][i] # r /\ items[a][i] \in Refs
    OBVIOUS
  <2>1. a # r /\ i \in 1 .. Len(items[a])  BY <1>14 DEF Place
  <2>2. items[a][i] \in Refs  BY <2>1, <1>1, ItemsAreRefs
  <2>3. items[a][i] # r  BY <1>1, <1>4, <1>7, Backed
  <2>4. QED  BY <2>1, <2>2, <2>3, <1>10
<1>18. ArraysOfPages' /\ ArraysRetain'
  <2>1. ArraysOfPages'  BY <1>1, <1>10, <1>16, <1>17 DEF ArraysOfPages
  <2>2. ArraysRetain'  BY <1>1, <1>10 DEF ArraysRetain, Live
  <2>3. QED  BY <2>1, <2>2
<1>19. RefsAccounted'
  <2> SUFFICES ASSUME NEW x \in Refs
               PROVE  refcount[x] = client[x] + local[x] + Cardinality(Keepers(x)')
                                      + Cardinality(Drops(x)')
    BY <1>10 DEF RefsAccounted
  <2>1. Keepers(x)' = Keepers(x)
    <3> DEFINE K == Keepers(x)
               L == Keepers(x)'
    <3>1. /\ K \subseteq Refs \X Nat
          /\ \A b \in Refs, j \in Nat : <<b, j>> \in K <=> Place(b, j) /\ items[b][j] = x
      BY <1>1, KeepersAre
    <3>2. /\ L \subseteq Refs \X Nat
          /\ \A b \in Refs, j \in Nat : <<b, j>> \in L <=> Place(b, j)' /\ items'[b][j] = x
      BY <1>11, KeepersAreNext DEF Typed
    <3> HIDE DEF K, L
    <3>3. \A b \in Refs, j \in Nat : <<b, j>> \in L <=> <<b, j>> \in K
      <4> TAKE b \in Refs, j \in Nat
      <4>1. CASE Place(b, j)
        <5>1. items'[b] = items[b] /\ Place(b, j)'  BY <4>1, <1>16, <1>17
        <5>2. QED  BY <4>1, <5>1, <3>1, <3>2
      <4>2. CASE ~Place(b, j)
        <5>1. ~Place(b, j)'  BY <4>2, <1>16
        <5>2. QED  BY <4>2, <5>1, <3>1, <3>2
      <4>3. QED  BY <4>1, <4>2
    <3>4. \A pl \in Refs \X Nat : pl \in L <=> pl \in K  BY <3>3
    <3>5. QED  BY <3>1, <3>2, <3>4 DEF K, L
  <2>2. Cardinality(Drops(x)') = Cardinality(Drops(x))
    <3>1. Drops(x) = Dropping(todo, x) /\ Drops(x)' = Dropping(todo', x)
      BY DEF Drops, Dropping
    <3>2. PICK q : q = <<>>  OBVIOUS
    <3>3. q \in Seq(Steps) /\ todo' = q \o Tail(todo) /\ todo \in Seq(Steps)
      BY <3>2, <1>1, <1>5 DEF Typed
    <3> DEFINE c == Cardinality(Dropping(todo, x))
               c2 == Cardinality(Dropping(q \o Tail(todo), x))
               h == Cardinality(Dropping(<<Head(todo)>>, x))
               e == Cardinality(Dropping(q, x))
    <3>4. c \in Nat /\ e \in Nat /\ h \in Nat /\ c + e = c2 + h
      BY <3>3, <1>1, Replaced
    <3>5. h = 0  BY <1>1, <1>2, DropsOne DEF step
    <3>6. e = 0
      <4>1. Len(<<>>) = 0  OBVIOUS
      <4>2. Dropping(q, x) = {}  BY <3>2, <4>1 DEF Dropping
      <4>3. QED  BY <4>2, FS_EmptySet
    <3>7. c2 \in Nat  BY <3>3, <1>11, Pushed DEF Typed
    <3> HIDE DEF c, c2, h, e
    <3>8. c2 = c  BY <3>4, <3>5, <3>6, <3>7
    <3>9. QED  BY <3>1, <3>3, <3>8 DEF c, c2
  <2>3. QED  BY <2>1, <2>2, <1>1 DEF RefsAccounted
<1>20. Unburied'
  <2>1. \A x \in Refs : ~Live(x)' => refcount[x] = 0
    <3> SUFFICES ASSUME NEW x \in Refs, ~Live(x)', x # r PROVE refcount[x] = 0
      BY <1>7
    <3>1. ~Live(x)  BY <1>10 DEF Live
    <3>2. QED  BY <3>1, <1>1 DEF Unburied
  <2>2. \A x \in Refs, k \in 1 .. Len(todo') : Buries(k, x)' <=> Buries(k + 1, x)
    BY <1>5 DEF Buries
  <2>3. \A x \in Refs : (Live(x)' /\ refcount[x] = 0) <=> \E k \in 1 .. Len(todo') : Buries(k, x)'
    <3> TAKE x \in Refs
    <3>1. CASE x = r
      <4>1. ~Live(x)'  BY <3>1, <1>10 DEF Live
      <4>2. \A k \in 1 .. Len(todo') : k + 1 # 1 /\ k + 1 \in 1 .. n  BY <1>5
      <4>3. \A k \in 1 .. Len(todo') : ~Buries(k, x)'  BY <3>1, <4>2, <2>2, <1>9
      <4>4. QED  BY <4>1, <4>3
    <3>2. CASE x # r
      <4>1. Live(x)' <=> Live(x)  BY <3>2, <1>10 DEF Live
      <4>2. (Live(x) /\ refcount[x] = 0) <=> \E k \in 1 .. n : Buries(k, x)
        BY <1>1 DEF Unburied
      <4>3. ASSUME NEW k \in 1 .. n, Buries(k, x) PROVE \E l \in 1 .. Len(todo') : Buries(l, x)'
        <5>1. k # 1  BY <4>3, <3>2, <1>3, <1>5 DEF Buries
        <5>2. k - 1 \in 1 .. Len(todo') /\ todo'[k - 1] = todo[k]  BY <5>1, <1>12
        <5>3. Buries(k - 1, x)'  BY <5>2, <4>3 DEF Buries
        <5>4. QED  BY <5>2, <5>3
      <4>4. ASSUME NEW k \in 1 .. Len(todo'), Buries(k, x)' PROVE \E l \in 1 .. n : Buries(l, x)
        BY <4>4, <2>2, <1>5
      <4>5. QED  BY <4>1, <4>2, <4>3, <4>4
    <3>3. QED  BY <3>1, <3>2
  <2>4. \A x \in Refs, j, k \in 1 .. Len(todo') : Buries(j, x)' /\ Buries(k, x)' => j = k
    <3> SUFFICES ASSUME NEW x \in Refs, NEW j \in 1 .. Len(todo'), NEW k \in 1 .. Len(todo'),
                        Buries(j, x)', Buries(k, x)'
                 PROVE  j = k
      OBVIOUS
    <3>1. Buries(j + 1, x) /\ Buries(k + 1, x)  BY <2>2
    <3>2. j + 1 \in 1 .. n /\ k + 1 \in 1 .. n  BY <1>5
    <3>3. j + 1 = k + 1  BY <3>1, <3>2, <1>1 DEF Unburied
    <3>4. QED  BY <3>3
  <2>5. QED  BY <2>1, <2>3, <2>4, <1>10 DEF Unburied
<1>21. Stacked'
  <2> SUFFICES ASSUME NEW j \in 1 .. Len(todo'), NEW k \in 1 .. Len(todo'), j < k,
                      todo'[k].op \in {"drop", "dealloc"} \/ todo'[k].op = "shift"
               PROVE  todo'[j].op \in {"drop", "dealloc"}
    BY DEF Stacked, Tears
  <2>1. /\ j + 1 \in 1 .. n /\ k + 1 \in 1 .. n /\ j + 1 < k + 1
        /\ todo'[j] = todo[j + 1] /\ todo'[k] = todo[k + 1]
    BY <1>5
  <2>2. Tears(j + 1)  BY <2>1, <1>1 DEF Stacked, Tears
  <2>3. QED  BY <2>1, <2>2 DEF Tears
<1>22. Heaped'  BY <1>11, <1>18, <1>19, <1>20, <1>21 DEF Heaped
<1> HIDE DEF n
<1>23. \A b \in Refs : PrivateArray(b) => PrivateArray(b)'
  <2> SUFFICES ASSUME NEW b \in Refs, PrivateArray(b) PROVE PrivateArray(b)'
    OBVIOUS
  <2>1. b # r  BY <1>7 DEF PrivateArray
  <2>2. \A i \in Nat : Place(b, i)' => kind'[items'[b][i]] = "page"
    BY <1>10, <1>16, <1>17 DEF PrivateArray
  <2>3. QED  BY <2>1, <2>2, <1>10 DEF PrivateArray
<1>24. \A x \in Refs : Reached(S, x) => x # r  BY <1>1, <1>7
<1>25. Grounded(S)'
  <2>1. \A b, x \in Refs : <<b, x>> \in S.has => \E j \in Nat : Item(b, j, x)'
    <3> SUFFICES ASSUME NEW b \in Refs, NEW x \in Refs, <<b, x>> \in S.has
                 PROVE  \E j \in Nat : Item(b, j, x)'
      OBVIOUS
    <3>1. PICK j \in Nat : Item(b, j, x)  BY <1>1 DEF Grounded
    <3>2. b # r  BY <1>1, <1>24 DEF Sound, Reached
    <3>3. Item(b, j, x)'  BY <3>1, <3>2, <1>10, <1>13 DEF Item, Live, Retains
    <3>4. QED  BY <3>3
  <2>2. \A x \in S.priv : PrivateArray(x)'
    BY <1>23, <1>1 DEF Grounded, Grounds
  <2>3. \A x \in S.bare : kind'[x] \in {"group", "file"} /\ items'[x] = <<>> /\ refcount'[x] = 1
    <3> SUFFICES ASSUME NEW x \in S.bare
                 PROVE  kind'[x] \in {"group", "file"} /\ items'[x] = <<>> /\ refcount'[x] = 1
      OBVIOUS
    <3>1. x \in Refs /\ refcount[x] = 1 /\ items[x] = <<>> /\ kind[x] \in {"group", "file"}
      BY BareAlone
    <3>2. x # r  BY <3>1, <1>7
    <3>3. QED  BY <3>1, <3>2, <1>10
  <2>4. \A k \in 1 .. Len(todo') : todo'[k].op = "shift" =>
          /\ <<todo'[k].a, "array">> \in S.is /\ \A x \in Refs : <<todo'[k].a, x>> \notin S.has
          /\ todo'[k].i \in 1 .. Len(items'[todo'[k].a])
    <3> SUFFICES ASSUME NEW k \in 1 .. Len(todo'), todo'[k].op = "shift"
                 PROVE  /\ <<todo'[k].a, "array">> \in S.is
                        /\ \A x \in Refs : <<todo'[k].a, x>> \notin S.has
                        /\ todo'[k].i \in 1 .. Len(items'[todo'[k].a])
      OBVIOUS
    <3>1. PICK s : s = todo'[k]  OBVIOUS
    <3>2. todo[k + 1] = s /\ k + 1 \in 1 .. Len(todo)  BY <3>1, <1>5 DEF n
    <3>3. /\ <<s.a, "array">> \in S.is /\ \A x \in Refs : <<s.a, x>> \notin S.has
          /\ s.i \in 1 .. Len(items[s.a])
      BY <3>1, <3>2, <1>1 DEF Grounded
    <3>4. s \in Steps /\ s.op = "shift"  BY <3>1, <1>11 DEF Typed
    <3>5. s.a \in Refs  BY <3>4, StepFields
    <3>6. s.a # r  BY <3>3, <3>5, <1>1, <1>24 DEF Sound, Kinds
    <3>7. QED  BY <3>1, <3>3, <3>5, <3>6, <1>10
  <2>5. /\ \A x \in S.fresh : ~Live(x)'
        /\ \A x \in S.held : client'[x] > 0
        /\ \A x \in Refs : local'[x] = IF x \in S.own THEN 1 ELSE 0
    <3>1. \A x \in S.fresh : x \in Refs  BY <1>1 DEF Grounds
    <3>2. QED  BY <3>1, <1>1, <1>10 DEF Grounded, Live
  <2>6. \A x \in Refs, k \in Kinds : <<x, k>> \in S.is => kind'[x] = k
    BY <1>1, <1>10, <1>24 DEF Grounded, Sound
  <2>7. QED  BY ONLY <2>1, <2>2, <2>3, <2>4, <2>5, <2>6, <1>1 DEF Grounded
<1>26. GroupsOwn(S)'
  <2> SUFFICES ASSUME NEW g \in Refs, kind'[g] = "group", refcount'[g] > 0, g \notin S.bare
               PROVE  Len(items'[g]) = 1 /\ PrivateArray(items[g][1])'
    BY DEF GroupsOwn
  <2>1. g # r  BY <1>10
  <2>2. Len(items[g]) = 1 /\ items[g][1] \in Refs /\ PrivateArray(items[g][1])
    BY <2>1, <1>1, <1>10, ItemsAreRefs DEF GroupsOwn
  <2>3. QED  BY <2>1, <2>2, <1>10, <1>23
<1>27. FilesOwn(S)'
  <2> SUFFICES ASSUME NEW f \in Refs, kind'[f] = "file", refcount'[f] > 0, f \notin S.bare
               PROVE  /\ Len(items'[f]) = 1
                      /\ kind'[items'[f][1]] = "group" /\ items'[f][1] \notin S.bare
    BY DEF FilesOwn
  <2>1. f # r  BY <1>10
  <2>2. kind[f] = "file" /\ refcount[f] > 0 /\ items'[f] = items[f]  BY <2>1, <1>10
  <2>3. /\ Len(items[f]) = 1 /\ items[f][1] \in Refs /\ refcount[items[f][1]] > 0
        /\ kind[items[f][1]] = "group" /\ items[f][1] \notin S.bare
    BY <2>2, <1>1, GuardedOnes DEF FilesOwn
  <2>4. items[f][1] # r  BY <2>3, <1>7
  <2>5. QED  BY <2>2, <2>3, <2>4, <1>10
<1>28. QED  BY <1>2, <1>22, <1>25, <1>26, <1>27 DEF Holds
-----------------------------------------------------------------------------
(* Every step of a program takes the heap from the ground before it to the *)
(* ground after it, or to the program that undoes what the call has done.  *)
LEMMA Witnessed ==
  ASSUME NEW T, Holds(T)', Completes(todo', T)
  PROVE  \E G : Holds(G)' /\ Completes(todo', G)
  OBVIOUS

LEMMA PutsHold ==
  ASSUME NEW S, NEW T, Ready(S, T), Completes(Tail(todo), T), NEW i, i \in Nat, i > 0,
         step.op \in {"append", "insert"}, Put(step.a, i, step.r), UNCHANGED <<client, local>>
  PROVE  Heaped' /\ \E G : Holds(G)' /\ Completes(todo', G)
<1>1. Typed /\ TypeOK /\ Stacked /\ step \in Steps /\ todo # <<>>
  BY ReadyFacts DEF Ready
<1>2. AllowsPut(step, S, T)  BY <1>1, StepFields DEF Ready, Allows
<1>3. /\ step.fail \in Seq(Releases) /\ Undoes(step.fail, S.own) /\ Quiet(todo)
      /\ step.a \in Refs /\ step.r \in Refs
  BY <1>1, <1>2, StepFields, Quieted DEF AllowsPut
<1>4. CASE todo' = step.fail /\ UNCHANGED heap
  BY <1>3, <1>4, FailingHolds
<1>5. CASE ~(todo' = step.fail /\ UNCHANGED heap)
  <2>1. PICK a, r : a = step.a /\ r = step.r  OBVIOUS
  <2>2. /\ isMutable[a] /\ ~(i > Len(items[a]) + 1)
        /\ cap' = [cap EXCEPT ![a] = IF Len(items[a]) >= cap[a] THEN @ + 5 ELSE @]
        /\ refcount' = [refcount EXCEPT ![r] = IF callbacks[a] = "object" THEN @ + 1 ELSE @]
        /\ items' = [items EXCEPT ![a] = InsertAt(@, i, r)]
        /\ todo' = Tail(todo) /\ UNCHANGED <<kind, callbacks, isMutable>>
    BY <2>1, <1>5 DEF Put
  <2>3. Len(items[a]) \in Nat  BY <2>1, <1>1, <1>3, ItemsAreRefs
  <2>4. i \in 1 .. Len(items[a]) + 1  BY <2>2, <2>3
  <2>5. Heaped' /\ Holds(T)'  BY <2>1, <2>2, <2>4, PutHolds
  <2>6. Completes(todo', T)  BY <2>2
  <2>7. QED  BY <2>5, <2>6, Witnessed
<1>6. QED  BY <1>4, <1>5

LEMMA StepHolds ==
  ASSUME NEW S, NEW T, Ready(S, T), Completes(Tail(todo), T), Step
  PROVE  Heaped' /\ \E G : Holds(G)' /\ Completes(todo', G)
<1>1. Typed /\ TypeOK /\ Stacked /\ step \in Steps /\ todo # <<>>
  BY ReadyFacts DEF Ready
<1>2. CASE DoNew
  <2>1. step.op = "new"  BY <1>2 DEF DoNew, Does
  <2>2. AllowsNew(step, S, T)  BY <2>1 DEF Ready, Allows
  <2>3. step.fail \in Seq(Releases) /\ Undoes(step.fail, S.own) /\ Quiet(todo)
    BY <2>1, <2>2, <1>1, StepFields, Quieted DEF AllowsNew
  <2>4. CASE todo' = step.fail /\ UNCHANGED <<heap, local>>
    BY <2>3, <2>4, <1>2, FailingHolds DEF DoNew
  <2>5. CASE ~(todo' = step.fail /\ UNCHANGED <<heap, local>>)
    <3>1. /\ kind' = [kind EXCEPT ![step.r] = step.kind]
          /\ refcount' = [refcount EXCEPT ![step.r] = 1]
          /\ items' = [items EXCEPT ![step.r] = <<>>]
          /\ cap' = [cap EXCEPT ![step.r] = step.cap]
          /\ callbacks' = [callbacks EXCEPT ![step.r] = step.callbacks]
          /\ isMutable' = [isMutable EXCEPT ![step.r] = TRUE]
          /\ local' = [local EXCEPT ![step.r] = @ + 1]
          /\ client' = client /\ todo' = Tail(todo)
      BY <2>5, <1>2 DEF DoNew
    <3>2. Heaped' /\ Holds(T)'  BY <3>1, <1>2, NewHolds DEF DoNew
    <3>3. Completes(todo', T)  BY <3>1
    <3>4. QED  BY <3>2, <3>3, Witnessed
  <2>6. QED  BY <2>4, <2>5
<1>3. CASE DoAppend
  <2>1. PICK i : i = Len(items[step.a]) + 1  OBVIOUS
  <2>2. step.op \in {"append", "insert"} /\ Put(step.a, i, step.r) /\ UNCHANGED <<client, local>>
    BY <2>1, <1>3 DEF DoAppend, Does
  <2>3. step.a \in Refs  BY <2>2, <1>1, StepFields
  <2>4. Len(items[step.a]) \in Nat  BY <2>3, <1>1, ItemsAreRefs
  <2>5. i \in Nat /\ i > 0  BY <2>1, <2>4
  <2>6. QED  BY <2>2, <2>5, PutsHold
<1>4. CASE DoInsert
  <2>1. PICK i : i = step.i  OBVIOUS
  <2>2. step.op = "insert" /\ Put(step.a, i, step.r) /\ UNCHANGED <<client, local>>
    BY <2>1, <1>4 DEF DoInsert, Does
  <2>3. AllowsPut(step, S, T)  BY <2>2 DEF Ready, Allows
  <2>4. i \in Nat /\ i > 0  BY <2>1, <2>2, <2>3, <1>1, StepFields DEF AllowsPut
  <2>5. QED  BY <2>2, <2>4, PutsHold
<1>5. CASE DoRemove
  <2>1. Heaped' /\ Holds(T)' /\ Completes(todo', T)  BY <1>5, RemoveHolds
  <2>2. QED  BY <2>1, Witnessed
<1>6. CASE DoShift
  <2>1. Heaped' /\ Holds(T)' /\ Completes(todo', T)  BY <1>6, ShiftHolds DEF DoShift
  <2>2. QED  BY <2>1, Witnessed
<1>7. CASE DoAdopt
  <2>1. PICK a, r : a = step.a /\ r = step.r  OBVIOUS
  <2>2. Heaped' /\ Holds(T)'  BY <2>1, <1>7, AdoptHolds
  <2>3. Completes(todo', T)  BY <1>7 DEF DoAdopt
  <2>4. QED  BY <2>2, <2>3, Witnessed
<1>8. CASE DoFreeze
  <2>1. PICK a : a = step.a  OBVIOUS
  <2>2. Heaped' /\ Holds(T)'  BY <2>1, <1>8, FreezeHolds
  <2>3. Completes(todo', T)  BY <1>8 DEF DoFreeze
  <2>4. QED  BY <2>2, <2>3, Witnessed
<1>9. CASE DoKeep
  <2>1. PICK r : r = step.r  OBVIOUS
  <2>2. Heaped' /\ Holds(T)'  BY <2>1, <1>9, KeepHolds
  <2>3. Completes(todo', T)  BY <1>9 DEF DoKeep
  <2>4. QED  BY <2>2, <2>3, Witnessed
<1>10. CASE DoRelease \/ DoDrop
  <2>1. PICK r : r = step.r  OBVIOUS
  <2>2. Lets(r)  BY <2>1, <1>10 DEF Lets, DoRelease, DoDrop, Does
  <2>3. Heaped' /\ Holds(T)' /\ Completes(todo', T)  BY <2>2, LetsHolds, LetsCompletes
  <2>4. QED  BY <2>3, Witnessed
<1>11. CASE DoDealloc
  <2>1. Heaped' /\ Holds(T)'  BY <1>11, DeallocHolds
  <2>2. Completes(todo', T)  BY <1>11 DEF DoDealloc
  <2>3. QED  BY <2>1, <2>2, Witnessed
<1>12. QED
  BY <1>2, <1>3, <1>4, <1>5, <1>6, <1>7, <1>8, <1>9, <1>10, <1>11 DEF Step
-----------------------------------------------------------------------------
(* The programs of the calls, from one ground to another.                  *)
Calm(s) == s.op \notin {"drop", "dealloc", "shift"}
Walks(p, S, T, h) ==
  /\ h \in [1 .. Len(p) + 1 -> Grounds] /\ h[1] = S /\ h[Len(p) + 1] = T
  /\ \A k \in 1 .. Len(p) + 1 : Sound(h[k])
  /\ \A k \in 1 .. Len(p) : Calm(p[k]) /\ Allows(p[k], h[k], h[k + 1])
Leads(p, S, T) == p \in Seq(Steps) /\ \E h : Walks(p, S, T, h)

LEMMA LeadsFacts ==
  ASSUME NEW p, NEW S, NEW T, Leads(p, S, T)
  PROVE  /\ p \in Seq(Steps) /\ Quiet(p) /\ S \in Grounds /\ Sound(S) /\ T \in Grounds /\ Sound(T)
         /\ T.own = {} => Completes(p, S)
<1>1. PICK h : Walks(p, S, T, h)  BY DEF Leads
<1>2. p \in Seq(Steps) /\ Len(p) \in Nat  BY DEF Leads
<1>3. 1 \in 1 .. Len(p) + 1 /\ Len(p) + 1 \in 1 .. Len(p) + 1  BY <1>2
<1>4. S \in Grounds /\ Sound(S) /\ T \in Grounds /\ Sound(T)
  BY <1>1, <1>3 DEF Walks
<1>5. Quiet(p)  BY <1>1 DEF Walks, Quiet, Calm
<1>6. T.own = {} => Passes(p, h) /\ h[1] = S  BY <1>1 DEF Walks, Passes
<1>7. QED  BY <1>2, <1>4, <1>5, <1>6 DEF Completes

LEMMA LeadsOne ==
  ASSUME NEW s \in Steps, Calm(s), NEW S \in Grounds, NEW T \in Grounds, Sound(S), Sound(T),
         Allows(s, S, T)
  PROVE  Leads(<<s>>, S, T)
<1> DEFINE h == [k \in 1 .. 2 |-> IF k = 1 THEN S ELSE T]
<1>1. <<s>> \in Seq(Steps) /\ Len(<<s>>) = 1 /\ <<s>>[1] = s  OBVIOUS
<1>2. h \in [1 .. 1 + 1 -> Grounds] /\ h[1] = S /\ h[1 + 1] = T  OBVIOUS
<1> HIDE DEF h
<1>3. \A k \in 1 .. 1 : Calm(<<s>>[k]) /\ Allows(<<s>>[k], h[k], h[k + 1])
  BY <1>1, <1>2
<1>4. \A k \in 1 .. 1 + 1 : Sound(h[k])  BY <1>2
<1>5. Walks(<<s>>, S, T, h)  BY <1>1, <1>2, <1>3, <1>4 DEF Walks
<1>6. QED  BY <1>1, <1>5 DEF Leads

(* Steps that leave the ground as it is.                                   *)
LEMMA LeadsAround ==
  ASSUME NEW q \in Seq(Steps), NEW S \in Grounds, Sound(S),
         \A k \in 1 .. Len(q) : Calm(q[k]) /\ Allows(q[k], S, S)
  PROVE  Leads(q, S, S)
<1> DEFINE h == [k \in 1 .. Len(q) + 1 |-> S]
<1>1. h \in [1 .. Len(q) + 1 -> Grounds] /\ \A k \in 1 .. Len(q) + 1 : h[k] = S  OBVIOUS
<1>2. Len(q) \in Nat  OBVIOUS
<1> HIDE DEF h
<1>3. \A k \in 1 .. Len(q) : k \in 1 .. Len(q) + 1 /\ k + 1 \in 1 .. Len(q) + 1  BY <1>2
<1>4. \A k \in 1 .. Len(q) : Calm(q[k]) /\ Allows(q[k], h[k], h[k + 1])
  BY <1>1, <1>3
<1>5. h[1] = S /\ h[Len(q) + 1] = S  BY <1>1, <1>2
<1>6. Walks(q, S, S, h)  BY <1>1, <1>4, <1>5 DEF Walks
<1>7. QED  BY <1>6 DEF Leads

LEMMA LeadsOn ==
  ASSUME NEW q, NEW p, NEW S, NEW T, NEW U, Leads(q, S, T), Leads(p, T, U)
  PROVE  Leads(q \o p, S, U)
<1>1. PICK h : Walks(q, S, T, h)  BY DEF Leads
<1>2. PICK g : Walks(p, T, U, g)  BY DEF Leads
<1>3. q \in Seq(Steps) /\ p \in Seq(Steps)  BY DEF Leads
<1>4. PICK m, n : m = Len(q) /\ n = Len(p)  OBVIOUS
<1>5. m \in Nat /\ n \in Nat  BY <1>3, <1>4
<1>6. /\ q \o p \in Seq(Steps) /\ Len(q \o p) = m + n
      /\ \A k \in 1 .. m + n : (q \o p)[k] = IF k <= m THEN q[k] ELSE p[k - m]
  BY <1>3, <1>4, JoinedSteps
<1>7. PICK w : w = q \o p  OBVIOUS
<1>8. /\ h \in [1 .. m + 1 -> Grounds] /\ h[1] = S /\ h[m + 1] = T
      /\ \A k \in 1 .. m + 1 : Sound(h[k])
      /\ \A k \in 1 .. m : Calm(q[k]) /\ Allows(q[k], h[k], h[k + 1])
  BY <1>1, <1>4 DEF Walks
<1>9. /\ g \in [1 .. n + 1 -> Grounds] /\ g[1] = T /\ g[n + 1] = U
      /\ \A k \in 1 .. n + 1 : Sound(g[k])
      /\ \A k \in 1 .. n : Calm(p[k]) /\ Allows(p[k], g[k], g[k + 1])
  BY <1>2, <1>4 DEF Walks
<1>10. PICK f : f = [k \in 1 .. m + n + 1 |-> IF k <= m THEN h[k] ELSE g[k - m]]  OBVIOUS
<1>11. \A k \in 1 .. m + 1 : k \in 1 .. m + n + 1 /\ f[k] = h[k]
  BY <1>5, <1>8, <1>9, <1>10
<1>12. \A k \in 1 .. n + 1 : m + k \in 1 .. m + n + 1 /\ f[m + k] = g[k]
  BY <1>5, <1>10
<1>13. f \in [1 .. m + n + 1 -> Grounds]
  BY <1>5, <1>8, <1>9, <1>10
<1>14. \A k \in 1 .. m + n + 1 : k \in 1 .. m + 1 \/ (k - m \in 1 .. n + 1 /\ k = m + (k - m))
  BY <1>5
<1>15. \A k \in 1 .. m + n + 1 : Sound(f[k])
  <2> TAKE k \in 1 .. m + n + 1
  <2>1. CASE k \in 1 .. m + 1
    BY <2>1, <1>8, <1>11
  <2>2. CASE k - m \in 1 .. n + 1 /\ k = m + (k - m)
    BY <2>2, <1>9, <1>12
  <2>3. QED  BY <2>1, <2>2, <1>14
<1>16. \A k \in 1 .. m + n : Calm(w[k]) /\ Allows(w[k], f[k], f[k + 1])
  <2> TAKE k \in 1 .. m + n
  <2>1. CASE k \in 1 .. m
    <3>1. k \in 1 .. m + 1 /\ k + 1 \in 1 .. m + 1 /\ k <= m  BY <2>1, <1>5
    <3>2. f[k] = h[k] /\ f[k + 1] = h[k + 1]  BY <3>1, <1>11
    <3>3. w[k] = q[k]  BY <3>1, <1>6, <1>7
    <3>4. Calm(q[k]) /\ Allows(q[k], h[k], h[k + 1])  BY <2>1, <1>8
    <3>5. QED  BY <3>2, <3>3, <3>4
  <2>2. CASE k - m \in 1 .. n
    <3>1. /\ k - m \in 1 .. n + 1 /\ (k - m) + 1 \in 1 .. n + 1 /\ ~(k <= m)
          /\ m + (k - m) = k /\ m + ((k - m) + 1) = k + 1
      BY <2>2, <1>5
    <3>2. f[k] = g[k - m] /\ f[k + 1] = g[(k - m) + 1]  BY <3>1, <1>12
    <3>3. w[k] = p[k - m]  BY <3>1, <1>6, <1>7
    <3>4. Calm(p[k - m]) /\ Allows(p[k - m], g[k - m], g[(k - m) + 1])  BY <2>2, <1>9
    <3>5. QED  BY <3>2, <3>3, <3>4
  <2>3. k \in 1 .. m \/ k - m \in 1 .. n  BY <1>5
  <2>4. QED  BY ONLY <2>1, <2>2, <2>3
<1>17. f[1] = S /\ f[m + n + 1] = U
  <2>1. f[1] = S  BY <1>5, <1>8, <1>11
  <2>2. n + 1 \in 1 .. n + 1 /\ m + (n + 1) = m + n + 1  BY <1>5
  <2>3. f[m + (n + 1)] = U  BY <2>2, <1>9, <1>12
  <2>4. QED  BY <2>1, <2>2, <2>3
<1>18. Walks(w, S, U, f)
  <2>1. Len(w) = m + n  BY <1>6, <1>7
  <2>2. QED  BY <2>1, <1>13, <1>15, <1>16, <1>17 DEF Walks
<1>19. QED  BY <1>6, <1>7, <1>18 DEF Leads

LEMMA LeadsTwice ==
  ASSUME NEW s \in Steps, NEW t \in Steps, NEW S, NEW T, NEW U,
         Leads(<<s>>, S, T), Leads(<<t>>, T, U)
  PROVE  Leads(<<s, t>>, S, U)
<1>1. Leads(<<s>> \o <<t>>, S, U)  BY LeadsOn
<1>2. QED  BY <1>1, TwoSteps

(* The steps as the programs write them, and what undoes them.             *)
LEMMA Written ==
  /\ \A r \in Refs, k \in Kinds, c \in Nat, cb \in {"object", "default"}, f \in Seq(Releases) :
       New(r, k, c, cb, f) \in Steps /\ Calm(New(r, k, c, cb, f))
  /\ \A a, r \in Refs, i \in Nat, f \in Seq(Releases) :
       Insert(a, i, r, f) \in Steps /\ Calm(Insert(a, i, r, f))
  /\ \A a, r \in Refs, f \in Seq(Releases) :
       AppendTo(a, r, f) \in Steps /\ Calm(AppendTo(a, r, f))
  /\ \A a \in Refs, i \in Nat : RemoveFrom(a, i) \in Steps /\ Calm(RemoveFrom(a, i))
  /\ \A a, r \in Refs : Adopt(a, r) \in Steps /\ Calm(Adopt(a, r))
  /\ \A a \in Refs : Freeze(a) \in Steps /\ Calm(Freeze(a))
  /\ \A r \in Refs : Keep(r) \in Steps /\ Calm(Keep(r))
  /\ \A r \in Refs : Release(r) \in Releases /\ Release(r) \in Steps /\ Calm(Release(r))
<1>1. \A r \in Refs, k \in Kinds, c \in Nat, cb \in {"object", "default"}, f \in Seq(Releases) :
        New(r, k, c, cb, f) \in Steps /\ Calm(New(r, k, c, cb, f))
  BY DEF New, Steps, Calm
<1>2. \A a, r \in Refs, i \in Nat, f \in Seq(Releases) :
        Insert(a, i, r, f) \in Steps /\ Calm(Insert(a, i, r, f))
  BY DEF Insert, Steps, Calm
<1>3. \A a, r \in Refs, f \in Seq(Releases) :
        AppendTo(a, r, f) \in Steps /\ Calm(AppendTo(a, r, f))
  BY DEF AppendTo, Steps, Calm
<1>4. \A a \in Refs, i \in Nat : RemoveFrom(a, i) \in Steps /\ Calm(RemoveFrom(a, i))
  BY DEF RemoveFrom, Steps, Calm
<1>5. \A a, r \in Refs : Adopt(a, r) \in Steps /\ Calm(Adopt(a, r))
  BY DEF Adopt, Steps, Calm
<1>6. \A a \in Refs : Freeze(a) \in Steps /\ Calm(Freeze(a))
  BY DEF Freeze, Steps, Calm
<1>7. \A r \in Refs : Keep(r) \in Steps /\ Calm(Keep(r))
  BY DEF Keep, Steps, Calm
<1>8. \A r \in Refs : Release(r) \in Releases /\ Release(r) \in Steps /\ Calm(Release(r))
  BY DEF Release, Releases, Steps, Calm
<1>9. QED  BY <1>1, <1>2, <1>3, <1>4, <1>5, <1>6, <1>7, <1>8

LEMMA UndoesNothing ==
  Undoes(<<>>, {})
<1>1. <<>> \in Seq(Releases) /\ Len(<<>>) = 0  OBVIOUS
<1>2. QED  BY <1>1 DEF Undoes

LEMMA UndoesMore ==
  ASSUME NEW X, NEW p, Undoes(p, X), NEW r \in Refs, r \notin X
  PROVE  Undoes(<<Release(r)>> \o p, X \cup {r})
<1>1. Release(r) \in Releases /\ Release(r).r = r  BY Written DEF Release
<1>2. PICK d : d = Release(r)  OBVIOUS
<1>3. p \in Seq(Releases) /\ <<d>> \in Seq(Releases)  BY <1>1, <1>2 DEF Undoes
<1>4. PICK n : n = Len(p)  OBVIOUS
<1>5. n \in Nat  BY <1>3, <1>4
<1>6. PICK w : w = <<d>> \o p  OBVIOUS
<1>7. /\ w \in Seq(Releases) /\ Len(w) = n + 1 /\ w[1] = d
      /\ \A k \in 2 .. n + 1 : k - 1 \in 1 .. n /\ w[k] = p[k - 1]
      /\ \A k \in 1 .. n : k + 1 \in 2 .. n + 1 /\ w[k + 1] = p[k]
  BY <1>3, <1>4, <1>6
<1>8. /\ \A k \in 1 .. n : p[k].r \in X
      /\ \A x \in X : \E k \in 1 .. n : p[k].r = x
      /\ \A j, k \in 1 .. n : p[j].r = p[k].r => j = k
  BY <1>4 DEF Undoes
<1>9. d.r = r  BY <1>1, <1>2
<1>10. \A k \in 1 .. n + 1 : k = 1 \/ k \in 2 .. n + 1  BY <1>5
<1>11. 1 \in 1 .. n + 1 /\ \A k \in 2 .. n + 1 : k \in 1 .. n + 1  BY <1>5
<1>12. \A k \in 1 .. n + 1 : w[k].r \in X \cup {r}
  BY <1>7, <1>8, <1>9, <1>10
<1>13. \A x \in X \cup {r} : \E k \in 1 .. n + 1 : w[k].r = x
  <2> TAKE x \in X \cup {r}
  <2>1. CASE x = r  BY <2>1, <1>7, <1>9, <1>11
  <2>2. CASE x # r
    <3>1. PICK k \in 1 .. n : p[k].r = x  BY <2>2, <1>8
    <3>2. QED  BY <3>1, <1>7, <1>11
  <2>3. QED  BY <2>1, <2>2
<1>14. \A j, k \in 1 .. n + 1 : w[j].r = w[k].r => j = k
  <2> SUFFICES ASSUME NEW j \in 1 .. n + 1, NEW k \in 1 .. n + 1, w[j].r = w[k].r
               PROVE  j = k
    OBVIOUS
  <2>1. CASE j = 1 /\ k = 1  BY <2>1
  <2>2. CASE j \in 2 .. n + 1 /\ k \in 2 .. n + 1
    <3>1. j - 1 = k - 1  BY <2>2, <1>7, <1>8
    <3>2. QED  BY <3>1, <1>5
  <2>3. CASE j = 1 /\ k \in 2 .. n + 1  BY <2>3, <1>7, <1>8, <1>9
  <2>4. CASE k = 1 /\ j \in 2 .. n + 1  BY <2>4, <1>7, <1>8, <1>9
  <2>5. QED  BY <2>1, <2>2, <2>3, <2>4, <1>10
<1>15. Undoes(w, X \cup {r})  BY <1>7, <1>12, <1>13, <1>14 DEF Undoes
<1>16. QED  BY <1>2, <1>6, <1>15

LEMMA UndoesOne ==
  ASSUME NEW r \in Refs
  PROVE  Undoes(<<Release(r)>>, {r})
<1>1. Undoes(<<Release(r)>> \o <<>>, {} \cup {r})  BY UndoesNothing, UndoesMore
<1>2. Release(r) \in Releases  BY Written
<1>3. <<Release(r)>> \o <<>> = <<Release(r)>> /\ {} \cup {r} = {r}  BY <1>2
<1>4. QED  BY <1>1, <1>3

LEMMA UndoesTwo ==
  ASSUME NEW X, NEW p, Undoes(p, X), NEW a \in Refs, NEW r \in Refs, a \notin X, r \notin X, a # r
  PROVE  Undoes(<<Release(r), Release(a)>> \o p, X \cup {a, r})
<1>1. Undoes(<<Release(a)>> \o p, X \cup {a})  BY UndoesMore
<1>2. Undoes(<<Release(r)>> \o (<<Release(a)>> \o p), (X \cup {a}) \cup {r})
  BY <1>1, UndoesMore
<1>3. (X \cup {a}) \cup {r} = X \cup {a, r}  OBVIOUS
<1>4. <<Release(r)>> \o (<<Release(a)>> \o p) = <<Release(r), Release(a)>> \o p
  <2>1. PICK c, d : c = Release(a) /\ d = Release(r)  OBVIOUS
  <2>2. c \in Releases /\ d \in Releases /\ c \in Steps /\ d \in Steps /\ p \in Seq(Releases)
    BY <2>1, Written DEF Undoes
  <2>3. <<c>> \in Seq(Releases) /\ <<d>> \in Seq(Releases) /\ <<d>> \o <<c>> = <<d, c>>
    BY <2>2, TwoSteps
  <2>4. (<<d>> \o <<c>>) \o p = <<d>> \o (<<c>> \o p)  BY <2>2, <2>3, ConcatAssociative
  <2>5. QED  BY <2>1, <2>3, <2>4
<1>5. QED  BY <1>2, <1>3, <1>4

(* The grounds of one call: what the call owns, and has made so, on top of *)
(* the ground it starts from.                                              *)
Base(B) == B \in Grounds /\ Sound(B) /\ B.own = {} /\ B.bare = {} /\ B.priv = {}
Stands(S, B, o, f, b, p, K, J) ==
  /\ Base(B) /\ o \in SUBSET Refs /\ f \in SUBSET B.fresh /\ f \cap o = {}
  /\ b \in SUBSET o /\ p \in SUBSET o /\ K \in SUBSET (o \X Refs) /\ J \in SUBSET (Refs \X Kinds)
  /\ \A r, k : <<r, k>> \in J => r \in o \/ \E a \in o : <<a, r>> \in K
  /\ S = [held |-> B.held, own |-> o, fresh |-> f, bare |-> b, priv |-> p,
          has |-> B.has \cup K, is |-> B.is \cup J]

LEMMA StandsFacts ==
  ASSUME NEW S, NEW B, NEW o, NEW f, NEW b, NEW p, NEW K, NEW J, Stands(S, B, o, f, b, p, K, J)
  PROVE  /\ S \in Grounds /\ Sound(S) /\ Base(B)
         /\ S.held = B.held /\ S.own = o /\ S.fresh = f /\ S.bare = b /\ S.priv = p
         /\ S.has = B.has \cup K /\ S.is = B.is \cup J
         /\ o \subseteq Refs /\ f \subseteq Refs
         /\ \A x \in Refs : Reached(B, x) => Reached(S, x)
         /\ \A x \in o : Reached(S, x)
<1>1. /\ B \in Grounds /\ Sound(B) /\ B.own = {}
      /\ o \subseteq Refs /\ f \subseteq B.fresh /\ b \subseteq o /\ p \subseteq o
      /\ \A a, x : <<a, x>> \in K => a \in o
      /\ K \subseteq Refs \X Refs /\ J \subseteq Refs \X Kinds
      /\ \A r, k : <<r, k>> \in J => r \in o \/ \E a \in o : <<a, r>> \in K
  BY DEF Stands, Base
<1>2. /\ S.held = B.held /\ S.own = o /\ S.fresh = f /\ S.bare = b /\ S.priv = p
      /\ S.has = B.has \cup K /\ S.is = B.is \cup J
  BY DEF Stands
<1>3. /\ B.held \subseteq Refs /\ B.fresh \subseteq Refs
      /\ B.has \subseteq Refs \X Refs /\ B.is \subseteq Refs \X Kinds
  BY <1>1 DEF Grounds
<1>4. S \in Grounds
  <2>1. /\ f \in SUBSET Refs /\ b \in SUBSET Refs /\ p \in SUBSET Refs
        /\ B.has \cup K \in SUBSET (Refs \X Refs) /\ B.is \cup J \in SUBSET (Refs \X Kinds)
    BY <1>1, <1>3
  <2>2. S = [held |-> B.held, own |-> o, fresh |-> f, bare |-> b, priv |-> p,
             has |-> B.has \cup K, is |-> B.is \cup J]
    BY DEF Stands
  <2>3. QED  BY <2>1, <2>2, <1>1, <1>3 DEF Grounds
<1>5. \A a : Owner(B, a) => Owner(S, a)
  BY <1>1, <1>2 DEF Owner
<1>6. \A x \in Refs : Reached(B, x) => Reached(S, x)
  BY <1>2, <1>5 DEF Reached
<1>7. \A x \in o : Owner(S, x)  BY <1>2 DEF Owner
<1>8. \A x \in o : Reached(S, x)  BY <1>7 DEF Reached
<1>9. Sound(S)
  <2>1. \A a, x \in Refs : <<a, x>> \in S.has => Owner(S, a)
    BY <1>1, <1>2, <1>5, <1>7 DEF Sound
  <2>2. \A r \in Refs, k \in Kinds : <<r, k>> \in S.is => Reached(S, r)
    <3> SUFFICES ASSUME NEW r \in Refs, NEW k \in Kinds, <<r, k>> \in S.is PROVE Reached(S, r)
      OBVIOUS
    <3>1. CASE <<r, k>> \in B.is
      <4>1. Reached(B, r)  BY <3>1, <1>1 DEF Sound
      <4>2. QED  BY <4>1, <1>6
    <3>2. CASE r \in o  BY <3>2, <1>8
    <3>3. CASE \E a \in o : <<a, r>> \in K
      <4>1. PICK a \in o : <<a, r>> \in K  BY <3>3
      <4>2. a \in Refs /\ Owner(S, a) /\ <<a, r>> \in S.has  BY <4>1, <1>1, <1>2, <1>7
      <4>3. QED  BY <4>2 DEF Reached
    <3>4. QED  BY <3>1, <3>2, <3>3, <1>1, <1>2
  <2>3. QED  BY <2>1, <2>2, <1>1, <1>2 DEF Sound
<1>10. Base(B)  BY DEF Stands
<1>11. QED  BY <1>1, <1>2, <1>3, <1>4, <1>6, <1>8, <1>9, <1>10

LEMMA StandsAtFirst ==
  ASSUME NEW B, Base(B)
  PROVE  Stands(B, B, {}, B.fresh, {}, {}, {}, {})
<1>1. B = [held |-> B.held, own |-> B.own, fresh |-> B.fresh, bare |-> B.bare, priv |-> B.priv,
           has |-> B.has, is |-> B.is]
  BY DEF Base, Grounds
<1>2. B.has \cup {} = B.has /\ B.is \cup {} = B.is /\ B.fresh \cap {} = {}  OBVIOUS
<1>3. B = [held |-> B.held, own |-> {}, fresh |-> B.fresh, bare |-> {}, priv |-> {},
           has |-> B.has \cup {}, is |-> B.is \cup {}]
  BY <1>1, <1>2 DEF Base
<1>4. {} \in SUBSET ({} \X Refs) /\ {} \in SUBSET (Refs \X Kinds)  OBVIOUS
<1>5. QED  BY <1>2, <1>3, <1>4 DEF Stands

LEMMA NewLeads ==
  ASSUME NEW S, NEW T, NEW B, NEW o, NEW f, NEW b, NEW p, NEW K, NEW J, NEW q,
         NEW r, NEW k \in Kinds, NEW c \in Nat, NEW fail, Undoes(fail, o), r \in f,
         Stands(S, B, o, f, b, p, K, J),
         q \subseteq p \cup IF k = "array" THEN {r} ELSE {},
         Stands(T, B, o \cup {r}, f \ {r}, b \cup IF k \in {"group", "file"} THEN {r} ELSE {},
                q, K, J \cup {<<r, k>>})
  PROVE  Leads(<<New(r, k, c, IF k = "array" THEN "object" ELSE "default", fail)>>, S, T)
<1>1. PICK s, cb : cb = (IF k = "array" THEN "object" ELSE "default") /\ s = New(r, k, c, cb, fail)
  OBVIOUS
<1>2. /\ S \in Grounds /\ Sound(S) /\ S.own = o /\ S.fresh = f /\ S.bare = b /\ S.priv = p
      /\ S.has = B.has \cup K /\ S.is = B.is \cup J /\ S.held = B.held /\ f \subseteq Refs
  BY StandsFacts
<1>3. /\ T \in Grounds /\ Sound(T) /\ T.own = o \cup {r} /\ T.fresh = f \ {r}
      /\ T.bare = b \cup IF k \in {"group", "file"} THEN {r} ELSE {}
      /\ T.priv = q /\ T.has = B.has \cup K /\ T.held = B.held
      /\ T.is = B.is \cup (J \cup {<<r, k>>})
  BY StandsFacts
<1>4. /\ s.op = "new" /\ s.r = r /\ s.kind = k /\ s.callbacks = cb /\ s.fail = fail
      /\ s \in Steps /\ Calm(s)
  <2>1. fail \in Seq(Releases) /\ r \in Refs /\ cb \in {"object", "default"}
    BY <1>1, <1>2 DEF Undoes
  <2>2. s \in Steps /\ Calm(s)  BY <2>1, <1>1, Written
  <2>3. QED  BY <2>2, <1>1 DEF New
<1>5. AllowsNew(s, S, T)
  BY <1>1, <1>2, <1>3, <1>4 DEF AllowsNew
<1>6. Allows(s, S, T)  BY <1>4, <1>5 DEF Allows
<1>7. Leads(<<s>>, S, T)  BY <1>2, <1>3, <1>4, <1>6, LeadsOne
<1>8. QED  BY <1>1, <1>7

Welcome(S, a, r) ==
  /\ <<a, "array">> \in S.is /\ Reached(S, r)
  /\ \/ <<r, "page">> \in S.is
     \/ /\ ~OnlyPages
        /\ a \in S.held \/ a \in S.own \ S.priv
        /\ r \in S.held \/ \E c \in Refs : <<c, "array">> \in S.is /\ <<c, r>> \in S.has

LEMMA PutAllowed ==
  ASSUME NEW S, NEW T, NEW a \in Refs, NEW r \in Refs, Welcome(S, a, r),
         NEW fail, Undoes(fail, S.own), T.held = S.held, T.fresh \subseteq S.fresh,
         T.priv \subseteq S.priv, T.own = S.own, T.bare = S.bare, T.is \subseteq S.is,
         T.has \subseteq S.has \cup {<<a, r>>}
  PROVE  /\ AppendTo(a, r, fail) \in Steps /\ Calm(AppendTo(a, r, fail))
         /\ Allows(AppendTo(a, r, fail), S, T)
         /\ \A i \in Nat : i > 0 =>
              /\ Insert(a, i, r, fail) \in Steps /\ Calm(Insert(a, i, r, fail))
              /\ Allows(Insert(a, i, r, fail), S, T)
<1>1. fail \in Seq(Releases)  BY DEF Undoes
<1>2. ASSUME NEW s, s.a = a, s.r = r, s.fail = fail, s.op \in {"append", "insert"},
             s.op = "insert" => s.i > 0
      PROVE  Allows(s, S, T)
  BY <1>2 DEF Allows, AllowsPut, Fewer, Welcome
<1>3. Allows(AppendTo(a, r, fail), S, T)
  <2>1. PICK s : s = AppendTo(a, r, fail)  OBVIOUS
  <2>2. s.a = a /\ s.r = r /\ s.fail = fail /\ s.op = "append"  BY <2>1 DEF AppendTo
  <2>3. QED  BY <2>1, <2>2, <1>2
<1>4. ASSUME NEW i \in Nat, i > 0 PROVE Allows(Insert(a, i, r, fail), S, T)
  <2>1. PICK s : s = Insert(a, i, r, fail)  OBVIOUS
  <2>2. s.a = a /\ s.r = r /\ s.fail = fail /\ s.op = "insert" /\ s.i = i  BY <2>1 DEF Insert
  <2>3. QED  BY <2>1, <2>2, <1>2, <1>4
<1>5. QED  BY <1>1, <1>3, <1>4, Written

LEMMA GivesAway ==
  ASSUME NEW S, NEW T, NEW B, NEW o, NEW f, NEW b, NEW p, NEW K, NEW J, NEW r \in o, r \notin b,
         NEW q, NEW L, NEW I, L \subseteq K, I \subseteq J, q \subseteq p,
         Stands(S, B, o, f, b, p, K, J), Stands(T, B, o \ {r}, f, b, q, L, I)
  PROVE  /\ Leads(<<Release(r)>>, S, T)
         /\ r \notin p => Leads(<<Keep(r)>>, S, T)
         /\ \A a \in b : <<a, "group">> \in S.is /\ r \in p => 
              \A U : Stands(U, B, o \ {r}, f, b \ {a}, q, L, I) => Leads(<<Adopt(a, r)>>, S, U)
         /\ \A a \in b : <<a, "file">> \in S.is /\ <<r, "group">> \in S.is =>
              \A U : Stands(U, B, o \ {r}, f, b \ {a}, q, L, I) => Leads(<<Adopt(a, r)>>, S, U)
<1>1. /\ S \in Grounds /\ Sound(S) /\ S.own = o /\ S.fresh = f /\ S.bare = b /\ S.priv = p
      /\ S.has = B.has \cup K /\ S.is = B.is \cup J /\ S.held = B.held
  BY StandsFacts
<1>2. r \in Refs /\ b \subseteq Refs  BY DEF Stands
<1>3. ASSUME NEW U, NEW v, Stands(U, B, o \ {r}, f, v, q, L, I)
      PROVE  /\ U \in Grounds /\ Sound(U) /\ NoMore(S, U) /\ U.own = S.own \ {r} /\ U.bare = v
  <2>1. /\ U \in Grounds /\ Sound(U) /\ U.own = o \ {r} /\ U.fresh = f /\ U.bare = v /\ U.priv = q
        /\ U.has = B.has \cup L /\ U.is = B.is \cup I /\ U.held = B.held
    BY <1>3, StandsFacts
  <2>2. QED  BY <2>1, <1>1 DEF NoMore, Fewer
<1>4. /\ T \in Grounds /\ Sound(T) /\ NoMore(S, T) /\ T.own = S.own \ {r} /\ T.bare = b
  BY <1>3
<1>5. Leads(<<Release(r)>>, S, T)
  <2>1. PICK s : s = Release(r)  OBVIOUS
  <2>2. s \in Steps /\ Calm(s) /\ s.op = "release" /\ s.r = r
    BY <2>1, <1>2, Written DEF Release
  <2>3. AllowsRelease(s, S, T)
    <3>1. b = b \ {r}  OBVIOUS
    <3>2. QED  BY <3>1, <2>2, <1>1, <1>4 DEF AllowsRelease
  <2>4. Allows(s, S, T)  BY <2>2, <2>3 DEF Allows
  <2>5. QED  BY <2>1, <2>2, <2>4, <1>1, <1>4, LeadsOne
<1>6. ASSUME r \notin p PROVE Leads(<<Keep(r)>>, S, T)
  <2>1. PICK s : s = Keep(r)  OBVIOUS
  <2>2. s \in Steps /\ Calm(s) /\ s.op = "keep" /\ s.r = r
    BY <2>1, <1>2, Written DEF Keep
  <2>3. AllowsKeep(s, S, T)  BY <2>2, <1>1, <1>4, <1>6 DEF AllowsKeep
  <2>4. Allows(s, S, T)  BY <2>2, <2>3 DEF Allows
  <2>5. QED  BY <2>1, <2>2, <2>4, <1>1, <1>4, LeadsOne
<1>7. ASSUME NEW a \in b, NEW U, Stands(U, B, o \ {r}, f, b \ {a}, q, L, I),
             \/ <<a, "group">> \in S.is /\ r \in p
             \/ <<a, "file">> \in S.is /\ <<r, "group">> \in S.is
      PROVE  Leads(<<Adopt(a, r)>>, S, U)
  <2>1. PICK s : s = Adopt(a, r)  OBVIOUS
  <2>2. s \in Steps /\ Calm(s) /\ s.op = "adopt" /\ s.a = a /\ s.r = r
    BY <2>1, <1>2, Written DEF Adopt
  <2>3. U \in Grounds /\ Sound(U) /\ NoMore(S, U) /\ U.own = S.own \ {r} /\ U.bare = b \ {a}
    BY <1>3, <1>7
  <2>4. AllowsAdopt(s, S, U)  BY <2>2, <2>3, <1>1, <1>7 DEF AllowsAdopt
  <2>5. Allows(s, S, U)  BY <2>2, <2>4 DEF Allows
  <2>6. QED  BY <2>1, <2>2, <2>3, <2>5, <1>1, LeadsOne
<1>8. QED  BY <1>5, <1>6, <1>7

LEMMA FreezeLeads ==
  ASSUME NEW S \in Grounds, Sound(S), NEW a \in S.own \ S.priv, <<a, "array">> \in S.is
  PROVE  Leads(<<Freeze(a)>>, S, S)
<1>1. PICK s : s = Freeze(a)  OBVIOUS
<1>2. a \in Refs  BY DEF Grounds
<1>3. s \in Steps /\ Calm(s) /\ s.op = "freeze" /\ s.a = a
  BY <1>1, <1>2, Written DEF Freeze
<1>4. Allows(s, S, S)  BY <1>3 DEF Allows, AllowsFreeze
<1>5. QED  BY <1>1, <1>3, <1>4, LeadsOne

LEMMA NewArrayLeads ==
  ASSUME NEW S, NEW T, NEW B, NEW o, NEW f, NEW b, NEW p, NEW K, NEW J, NEW q,
         NEW r, NEW c \in Nat, NEW fail, Undoes(fail, o), r \in f,
         Stands(S, B, o, f, b, p, K, J), q \subseteq p \cup {r},
         Stands(T, B, o \cup {r}, f \ {r}, b, q, K, J \cup {<<r, "array">>})
  PROVE  Leads(<<New(r, "array", c, "object", fail)>>, S, T)
<1>1. PICK k : k = "array"  OBVIOUS
<1>2. /\ k \in Kinds /\ (IF k = "array" THEN "object" ELSE "default") = "object"
      /\ (IF k = "array" THEN {r} ELSE {}) = {r}
      /\ b \cup (IF k \in {"group", "file"} THEN {r} ELSE {}) = b
  BY <1>1 DEF Kinds
<1>3. Leads(<<New(r, k, c, IF k = "array" THEN "object" ELSE "default", fail)>>, S, T)
  BY <1>1, <1>2, NewLeads
<1>4. QED  BY <1>1, <1>2, <1>3

LEMMA NewPageLeads ==
  ASSUME NEW S, NEW T, NEW B, NEW o, NEW f, NEW b, NEW p, NEW K, NEW J,
         NEW r, NEW fail, Undoes(fail, o), r \in f,
         Stands(S, B, o, f, b, p, K, J),
         Stands(T, B, o \cup {r}, f \ {r}, b, p, K, J \cup {<<r, "page">>})
  PROVE  Leads(EFPageCreate(r, fail), S, T)
<1>1. PICK k : k = "page"  OBVIOUS
<1>2. /\ k \in Kinds /\ (IF k = "array" THEN "object" ELSE "default") = "default"
      /\ p \subseteq p \cup (IF k = "array" THEN {r} ELSE {})
      /\ b \cup (IF k \in {"group", "file"} THEN {r} ELSE {}) = b
  BY <1>1 DEF Kinds
<1>3. Leads(<<New(r, k, 0, IF k = "array" THEN "object" ELSE "default", fail)>>, S, T)
  BY <1>1, <1>2, NewLeads
<1>4. QED  BY <1>1, <1>2, <1>3 DEF EFPageCreate

LEMMA NewContainerLeads ==
  ASSUME NEW S, NEW T, NEW B, NEW o, NEW f, NEW b, NEW p, NEW K, NEW J,
         NEW r, NEW k \in {"group", "file"}, NEW fail, Undoes(fail, o), r \in f,
         Stands(S, B, o, f, b, p, K, J),
         Stands(T, B, o \cup {r}, f \ {r}, b \cup {r}, p, K, J \cup {<<r, k>>})
  PROVE  Leads(<<New(r, k, 0, "default", fail)>>, S, T)
<1>1. /\ k \in Kinds /\ (IF k = "array" THEN "object" ELSE "default") = "default"
      /\ p \subseteq p \cup (IF k = "array" THEN {r} ELSE {})
      /\ (IF k \in {"group", "file"} THEN {r} ELSE {}) = {r}
  BY DEF Kinds
<1>2. Leads(<<New(r, k, 0, IF k = "array" THEN "object" ELSE "default", fail)>>, S, T)
  BY <1>1, NewLeads
<1>3. QED  BY <1>1, <1>2

(* A new array with these items.                                           *)
Copies(c, its, fail) ==
  <<New(c, "array", Len(its), "object", fail)>>
    \o [i \in 1 .. Len(its) |-> AppendTo(c, its[i], <<Release(c)>> \o fail)]

LEMMA CopyLeads ==
  ASSUME NEW S, NEW T, NEW B, NEW o, NEW f, NEW b, NEW p, NEW K, NEW J, NEW q,
         NEW c, NEW its \in Seq(Refs), NEW fail, Undoes(fail, o), c \in f,
         Stands(S, B, o, f, b, p, K, J), q \subseteq p \cup {c},
         Stands(T, B, o \cup {c}, f \ {c}, b, q, K, J \cup {<<c, "array">>}),
         \A i \in 1 .. Len(its) : Welcome(T, c, its[i])
  PROVE  Leads(Copies(c, its, fail), S, T)
<1>1. PICK n, undo : n = Len(its) /\ undo = <<Release(c)>> \o fail  OBVIOUS
<1>2. n \in Nat /\ \A i \in 1 .. n : its[i] \in Refs  BY <1>1
<1>3. Leads(<<New(c, "array", n, "object", fail)>>, S, T)  BY <1>2, NewArrayLeads
<1>4. c \in Refs /\ c \notin o /\ T \in Grounds /\ Sound(T) /\ T.own = o \cup {c}
  <2>1. T \in Grounds /\ Sound(T) /\ T.own = o \cup {c} /\ f \subseteq Refs  BY StandsFacts
  <2>2. f \cap o = {}  BY DEF Stands
  <2>3. QED  BY <2>1, <2>2
<1>5. Undoes(undo, T.own)  BY <1>1, <1>4, UndoesMore
<1>6. PICK w : w = [i \in 1 .. n |-> AppendTo(c, its[i], undo)]  OBVIOUS
<1>7. \A i \in 1 .. n : /\ AppendTo(c, its[i], undo) \in Steps /\ Calm(AppendTo(c, its[i], undo))
                        /\ Allows(AppendTo(c, its[i], undo), T, T)
  <2> SUFFICES ASSUME NEW i \in 1 .. n
               PROVE  /\ AppendTo(c, its[i], undo) \in Steps /\ Calm(AppendTo(c, its[i], undo))
                      /\ Allows(AppendTo(c, its[i], undo), T, T)
    OBVIOUS
  <2>1. PICK r : r = its[i]  OBVIOUS
  <2>2. r \in Refs /\ Welcome(T, c, r)  BY <2>1, <1>1, <1>2
  <2>3. /\ AppendTo(c, r, undo) \in Steps /\ Calm(AppendTo(c, r, undo))
        /\ Allows(AppendTo(c, r, undo), T, T)
    BY <2>2, <1>4, <1>5, PutAllowed
  <2>4. QED  BY <2>1, <2>3
<1>8. w \in Seq(Steps) /\ Len(w) = n /\ \A i \in 1 .. n : w[i] = AppendTo(c, its[i], undo)
  BY <1>2, <1>6, <1>7
<1>9. Leads(w, T, T)  BY <1>4, <1>7, <1>8, LeadsAround
<1>10. Leads(<<New(c, "array", n, "object", fail)>> \o w, S, T)  BY <1>3, <1>9, LeadsOn
<1>11. QED  BY <1>1, <1>6, <1>10 DEF Copies

LEMMA Stood ==
  ASSUME NEW B, Base(B), NEW o \in SUBSET Refs, NEW f \in SUBSET B.fresh, f \cap o = {},
         NEW b \in SUBSET o, NEW p \in SUBSET o, NEW K \in SUBSET (o \X Refs),
         NEW J \in SUBSET (Refs \X Kinds),
         \A r, k : <<r, k>> \in J => r \in o \/ \E a \in o : <<a, r>> \in K
  PROVE  \E S : Stands(S, B, o, f, b, p, K, J)
  BY DEF Stands

LEMMA GroupLeads ==
  ASSUME NEW S, NEW T, NEW B, NEW o, NEW f, NEW b, NEW K, NEW J, NEW g \in f, NEW c \in f, g # c,
         NEW its \in Seq(Refs), NEW fail, Undoes(fail, o),
         Stands(S, B, o, f, b, {}, K, J),
         Stands(T, B, o \cup {g}, f \ {g, c}, b, {}, K, J \cup {<<g, "group">>}),
         \A i \in 1 .. Len(its) : Reached(S, its[i]) /\ <<its[i], "page">> \in S.is
  PROVE  Leads(EFPageGroupCreateWithPages(g, c, its, "object", fail), S, T)
<1>1. /\ Base(B) /\ o \in SUBSET Refs /\ f \in SUBSET B.fresh /\ f \cap o = {} /\ b \in SUBSET o
      /\ K \in SUBSET (o \X Refs) /\ J \in SUBSET (Refs \X Kinds)
      /\ \A r, k : <<r, k>> \in J => r \in o \/ \E a \in o : <<a, r>> \in K
      /\ f \subseteq Refs
  <2>1. f \subseteq Refs  BY StandsFacts
  <2>2. QED  BY <2>1 DEF Stands
<1>2. c \in Refs /\ g \in Refs /\ c \notin o /\ g \notin o /\ c \notin b /\ g \notin b
  BY <1>1
<1>3. PICK o1, f1, p1, J1 :
        /\ o1 = o \cup {c} /\ f1 = f \ {c} /\ p1 = {c} /\ J1 = J \cup {<<c, "array">>}
  OBVIOUS
<1>4. PICK o2, f2, b2, J2 :
        /\ o2 = o1 \cup {g} /\ f2 = f1 \ {g} /\ b2 = b \cup {g} /\ J2 = J1 \cup {<<g, "group">>}
  OBVIOUS
<1>5. PICK S1 : Stands(S1, B, o1, f1, b, p1, K, J1)
  <2>1. /\ o1 \in SUBSET Refs /\ f1 \in SUBSET B.fresh /\ f1 \cap o1 = {} /\ b \in SUBSET o1
        /\ p1 \in SUBSET o1
    BY <1>1, <1>2, <1>3
  <2>2. K \in SUBSET (o1 \X Refs)  BY <1>1, <1>3
  <2>3. J1 \in SUBSET (Refs \X Kinds)  BY <1>1, <1>2, <1>3 DEF Kinds
  <2>4. \A r, k : <<r, k>> \in J1 => r \in o1 \/ \E a \in o1 : <<a, r>> \in K
    BY <1>1, <1>3
  <2>5. QED  BY <2>1, <2>2, <2>3, <2>4, <1>1, Stood
<1>6. PICK S2 : Stands(S2, B, o2, f2, b2, p1, K, J2)
  <2>1. /\ o2 \in SUBSET Refs /\ f2 \in SUBSET B.fresh /\ f2 \cap o2 = {} /\ b2 \in SUBSET o2
        /\ p1 \in SUBSET o2
    BY <1>1, <1>2, <1>3, <1>4
  <2>2. K \in SUBSET (o2 \X Refs)  BY <1>1, <1>3, <1>4
  <2>3. J2 \in SUBSET (Refs \X Kinds)  BY <1>1, <1>2, <1>3, <1>4 DEF Kinds
  <2>4. \A r, k : <<r, k>> \in J2 => r \in o2 \/ \E a \in o2 : <<a, r>> \in K
    BY <1>1, <1>3, <1>4
  <2>5. QED  BY <2>1, <2>2, <2>3, <2>4, <1>1, Stood
<1>7. PICK S3 : Stands(S3, B, o2 \ {c}, f2, b2, {}, K, J \cup {<<g, "group">>})
  <2>1. /\ o2 \ {c} \in SUBSET Refs /\ f2 \in SUBSET B.fresh /\ f2 \cap (o2 \ {c}) = {}
        /\ b2 \in SUBSET (o2 \ {c}) /\ {} \in SUBSET (o2 \ {c})
    BY <1>1, <1>2, <1>3, <1>4
  <2>2. K \in SUBSET ((o2 \ {c}) \X Refs)  BY <1>1, <1>2, <1>3, <1>4
  <2>3. J \cup {<<g, "group">>} \in SUBSET (Refs \X Kinds)  BY <1>1, <1>2 DEF Kinds
  <2>4. \A r, k : <<r, k>> \in J \cup {<<g, "group">>} =>
          r \in o2 \ {c} \/ \E a \in o2 \ {c} : <<a, r>> \in K
    <3>1. g \in o2 \ {c} /\ o \subseteq o2 \ {c}  BY <1>2, <1>3, <1>4
    <3>2. QED  BY <3>1, <1>1
  <2>5. QED  BY <2>1, <2>2, <2>3, <2>4, <1>1, Stood
<1>8. Leads(Copies(c, its, fail), S, S1)
  <2>1. \A i \in 1 .. Len(its) : Welcome(S1, c, its[i])
    <3>1. S1.is = B.is \cup J1 /\ S1.has = B.has \cup K /\ S1.held = B.held /\ S1.own = o1
      BY <1>5, StandsFacts
    <3>2. S.is = B.is \cup J /\ S.has = B.has \cup K /\ S.held = B.held /\ S.own = o
      BY StandsFacts
    <3>3. \A a : Owner(S, a) => Owner(S1, a)  BY <3>1, <3>2, <1>3 DEF Owner
    <3>4. \A x : Reached(S, x) => Reached(S1, x)  BY <3>1, <3>2, <3>3 DEF Reached
    <3>5. <<c, "array">> \in S1.is /\ S.is \subseteq S1.is  BY <3>1, <3>2, <1>3
    <3>6. QED  BY <3>4, <3>5 DEF Welcome
  <2>2. p1 \subseteq {} \cup {c}  BY <1>3
  <2>3. QED  BY <2>1, <2>2, <1>3, <1>5, CopyLeads
<1>9. PICK undo : undo = <<Release(c)>> \o fail  OBVIOUS
<1>10. Undoes(undo, o1)  BY <1>2, <1>3, <1>9, UndoesMore
<1>11. Leads(<<New(g, "group", 0, "default", undo)>>, S1, S2)
  <2>1. g \in f1  BY <1>3
  <2>2. QED  BY <2>1, <1>4, <1>5, <1>6, <1>10, NewContainerLeads
<1>12. Leads(<<Adopt(g, c)>>, S2, T)
  <2>1. c \in o2 /\ c \notin b2 /\ g \in b2 /\ c \in p1  BY <1>2, <1>3, <1>4
  <2>2. <<g, "group">> \in S2.is  BY <1>4, <1>6, StandsFacts
  <2>3. PICK q : q = {}  OBVIOUS
  <2>4. o2 \ {c} = o \cup {g} /\ f2 = f \ {g, c} /\ b2 \ {g} = b  BY <1>2, <1>3, <1>4
  <2>5. Stands(T, B, o2 \ {c}, f2, b2 \ {g}, q, K, J \cup {<<g, "group">>})  BY <2>3, <2>4
  <2>6. Stands(S3, B, o2 \ {c}, f2, b2, q, K, J \cup {<<g, "group">>})  BY <2>3, <1>7
  <2>7. q \subseteq p1 /\ K \subseteq K /\ J \cup {<<g, "group">>} \subseteq J2
    BY <2>3, <1>3, <1>4
  <2>8. QED  BY <2>1, <2>2, <2>5, <2>6, <2>7, <1>6, GivesAway
<1>13. New(g, "group", 0, "default", undo) \in Steps /\ Adopt(g, c) \in Steps
  BY <1>2, <1>10, Written DEF Undoes, Kinds
<1>14. Leads(<<New(g, "group", 0, "default", undo), Adopt(g, c)>>, S1, T)
  BY <1>11, <1>12, <1>13, LeadsTwice
<1>15. Leads(Copies(c, its, fail) \o <<New(g, "group", 0, "default", undo), Adopt(g, c)>>, S, T)
  BY <1>8, <1>14, LeadsOn
<1>16. QED  BY <1>9, <1>15 DEF Copies, EFPageGroupCreateWithPages

LEMMA PageGroupLeads ==
  ASSUME NEW S, NEW T, NEW B, NEW o, NEW f, NEW b, NEW J,
         NEW g \in f, NEW c \in f, NEW a \in f, NEW p \in f,
         g # c, g # a, g # p, c # a, c # p, a # p, NEW fail, Undoes(fail, o),
         Stands(S, B, o, f, b, {}, {}, J),
         Stands(T, B, o \cup {g}, f \ {g, c, a, p}, b, {}, {}, J \cup {<<g, "group">>})
  PROVE  Leads(EFPageGroupCreate(g, c, a, p, fail), S, T)
<1>1. /\ Base(B) /\ o \in SUBSET Refs /\ f \in SUBSET B.fresh /\ f \cap o = {} /\ b \in SUBSET o
      /\ J \in SUBSET (Refs \X Kinds) /\ \A r, k : <<r, k>> \in J => r \in o
      /\ f \subseteq Refs
  <2>1. f \subseteq Refs  BY StandsFacts
  <2>2. QED  BY <2>1 DEF Stands
<1>2. /\ a \in Refs /\ g \in Refs /\ p \in Refs /\ a \notin o /\ g \notin o /\ p \notin o
      /\ a \notin b /\ p \notin b
  BY <1>1
<1>3. PICK o1, f1, J1 : o1 = o \cup {a} /\ f1 = f \ {a} /\ J1 = J \cup {<<a, "array">>}
  OBVIOUS
<1>4. PICK o2, f2, J2, K :
        /\ o2 = o1 \cup {p} /\ f2 = f1 \ {p} /\ J2 = J1 \cup {<<p, "page">>} /\ K = {<<a, p>>}
  OBVIOUS
<1>5. PICK o5, f5, J5 :
        o5 = o1 \cup {g} /\ f5 = f2 \ {g, c} /\ J5 = J2 \cup {<<g, "group">>}
  OBVIOUS
<1>6. PICK none : none = {}  OBVIOUS
<1>7. PICK S1 : Stands(S1, B, o1, f1, b, none, none, J1)
  <2>1. /\ o1 \in SUBSET Refs /\ f1 \in SUBSET B.fresh /\ f1 \cap o1 = {} /\ b \in SUBSET o1
        /\ none \in SUBSET o1 /\ none \in SUBSET (o1 \X Refs)
    BY <1>1, <1>2, <1>3, <1>6
  <2>2. J1 \in SUBSET (Refs \X Kinds)  BY <1>1, <1>2, <1>3 DEF Kinds
  <2>3. \A r, k : <<r, k>> \in J1 => r \in o1  BY <1>1, <1>3
  <2>4. QED  BY <2>1, <2>2, <2>3, <1>1, Stood
<1>8. /\ o2 \in SUBSET Refs /\ f2 \in SUBSET B.fresh /\ f2 \cap o2 = {} /\ b \in SUBSET o2
      /\ none \in SUBSET o2 /\ none \in SUBSET (o2 \X Refs) /\ none \in SUBSET o1
      /\ f2 \cap o1 = {} /\ b \in SUBSET o1 /\ o1 \in SUBSET Refs
  BY <1>1, <1>2, <1>3, <1>4, <1>6
<1>9. /\ J2 \in SUBSET (Refs \X Kinds) /\ K \in SUBSET (o1 \X Refs) /\ K \in SUBSET (o2 \X Refs)
      /\ a \in o1 /\ a \in o2
  BY <1>1, <1>2, <1>3, <1>4 DEF Kinds
<1>10. \A r, k : <<r, k>> \in J2 => r \in o2 /\ (r \in o1 \/ (r = p /\ <<a, r>> \in K))
  BY <1>1, <1>3, <1>4
<1>11. PICK S2 : Stands(S2, B, o2, f2, b, none, none, J2)
  BY <1>1, <1>8, <1>9, <1>10, Stood
<1>12. PICK S3 : Stands(S3, B, o2, f2, b, none, K, J2)
  BY <1>1, <1>8, <1>9, <1>10, Stood
<1>13. PICK S4 : Stands(S4, B, o1, f2, b, none, K, J2)
  BY <1>1, <1>8, <1>9, <1>10, Stood
<1>14. PICK S5 : Stands(S5, B, o5, f5, b, none, K, J5)
  <2>1. /\ o5 \in SUBSET Refs /\ f5 \in SUBSET B.fresh /\ f5 \cap o5 = {} /\ b \in SUBSET o5
        /\ none \in SUBSET o5
    BY <1>1, <1>2, <1>3, <1>4, <1>5, <1>6
  <2>2. J5 \in SUBSET (Refs \X Kinds) /\ K \in SUBSET (o5 \X Refs)
    BY <1>2, <1>5, <1>9 DEF Kinds
  <2>3. \A r, k : <<r, k>> \in J5 => r \in o5 \/ \E e \in o5 : <<e, r>> \in K
    BY <1>5, <1>9, <1>10
  <2>4. QED  BY <2>1, <2>2, <2>3, <1>1, Stood
<1>15. PICK w1, w2 : w1 = <<Release(a)>> \o fail /\ w2 = <<Release(p), Release(a)>> \o fail
  OBVIOUS
<1>16. Undoes(w1, o1) /\ Undoes(w2, o2)
  <2>1. o2 = o \cup {a, p}  BY <1>3, <1>4
  <2>2. QED  BY <2>1, <1>2, <1>3, <1>15, UndoesMore, UndoesTwo
<1>17. PICK q1, q2, q3, q4 :
         /\ q1 = <<New(a, "array", 1, "object", fail)>>
         /\ q2 = EFPageCreate(p, w1)
         /\ q3 = <<AppendTo(a, p, w2), Release(p)>>
         /\ q4 = EFPageGroupCreateWithPages(g, c, <<p>>, "object", w1)
  OBVIOUS
<1>18. Leads(q1, S, S1)
  <2>1. Stands(S, B, o, f, b, none, none, J)  BY <1>6
  <2>2. none \subseteq none \cup {a}  OBVIOUS
  <2>3. QED  BY <2>1, <2>2, <1>3, <1>7, <1>17, NewArrayLeads
<1>19. Leads(q2, S1, S2)
  <2>1. p \in f1  BY <1>3
  <2>2. QED  BY <2>1, <1>4, <1>7, <1>11, <1>16, <1>17, NewPageLeads
<1>20. /\ S2 \in Grounds /\ S3 \in Grounds /\ Sound(S2) /\ Sound(S3)
       /\ S3.held = S2.held /\ S3.fresh = S2.fresh /\ S3.priv = S2.priv /\ S3.own = S2.own
       /\ S3.bare = S2.bare /\ S3.is = S2.is /\ S2.own = o2 /\ S3.is = B.is \cup J2
       /\ S3.has \subseteq S2.has \cup {<<a, p>>} /\ S4.is = B.is \cup J2
  <2>1. /\ S2 \in Grounds /\ Sound(S2) /\ S2.held = B.held /\ S2.own = o2 /\ S2.fresh = f2
        /\ S2.bare = b /\ S2.priv = none /\ S2.has = B.has \cup none /\ S2.is = B.is \cup J2
    BY <1>11, StandsFacts
  <2>2. /\ S3 \in Grounds /\ Sound(S3) /\ S3.held = B.held /\ S3.own = o2 /\ S3.fresh = f2
        /\ S3.bare = b /\ S3.priv = none /\ S3.has = B.has \cup K /\ S3.is = B.is \cup J2
    BY <1>12, StandsFacts
  <2>3. S4.is = B.is \cup J2  BY <1>13, StandsFacts
  <2>4. QED  BY <2>1, <2>2, <2>3, <1>4, <1>6
<1>21. Leads(<<AppendTo(a, p, w2)>>, S2, S3)
  <2>1. Reached(S2, p)  BY <1>4, <1>11, StandsFacts
  <2>2. Welcome(S2, a, p)  BY <2>1, <1>3, <1>4, <1>20 DEF Welcome
  <2>3. /\ AppendTo(a, p, w2) \in Steps /\ Calm(AppendTo(a, p, w2))
        /\ Allows(AppendTo(a, p, w2), S2, S3)
    BY <2>2, <1>2, <1>16, <1>20, PutAllowed
  <2>4. QED  BY <2>3, <1>20, LeadsOne
<1>22. Leads(<<Release(p)>>, S3, S4)
  <2>1. p \in o2 /\ p \notin b /\ o2 \ {p} = o1  BY <1>2, <1>3, <1>4
  <2>2. Stands(S4, B, o2 \ {p}, f2, b, none, K, J2)  BY <2>1, <1>13
  <2>3. none \subseteq none /\ K \subseteq K /\ J2 \subseteq J2  OBVIOUS
  <2>4. QED  BY <2>1, <2>2, <2>3, <1>12, GivesAway
<1>23. Leads(q3, S2, S4)
  <2>1. AppendTo(a, p, w2) \in Steps /\ Release(p) \in Steps
    BY <1>2, <1>16, Written DEF Undoes
  <2>2. QED  BY <2>1, <1>17, <1>21, <1>22, LeadsTwice
<1>24. Leads(q4, S4, S5)
  <2>1. PICK its : its = <<p>>  OBVIOUS
  <2>2. its \in Seq(Refs) /\ Len(its) = 1 /\ its[1] = p  BY <2>1, <1>2
  <2>3. Reached(S4, p)
    <3>1. a \in S4.own /\ <<a, p>> \in S4.has  BY <1>4, <1>9, <1>13, StandsFacts
    <3>2. QED  BY <3>1, <1>2 DEF Reached, Owner
  <2>4. <<p, "page">> \in S4.is  BY <1>4, <1>20
  <2>5. \A i \in 1 .. Len(its) : Reached(S4, its[i]) /\ <<its[i], "page">> \in S4.is
    BY <2>2, <2>3, <2>4
  <2>6. g \in f2 /\ c \in f2  BY <1>3, <1>4
  <2>7. Stands(S4, B, o1, f2, b, {}, K, J2)  BY <1>6, <1>13
  <2>8. Stands(S5, B, o1 \cup {g}, f2 \ {g, c}, b, {}, K, J2 \cup {<<g, "group">>})
    BY <1>5, <1>6, <1>14
  <2>9. Leads(EFPageGroupCreateWithPages(g, c, its, "object", w1), S4, S5)
    BY <2>2, <2>5, <2>6, <2>7, <2>8, <1>16, GroupLeads
  <2>10. QED  BY <2>1, <2>9, <1>17
<1>25. Leads(<<Release(a)>>, S5, T)
  <2>1. a \in o5 /\ a \notin b  BY <1>2, <1>3, <1>5
  <2>2. o5 \ {a} = o \cup {g} /\ f5 = f \ {g, c, a, p}  BY <1>2, <1>3, <1>4, <1>5
  <2>3. PICK I : I = J \cup {<<g, "group">>}  OBVIOUS
  <2>4. Stands(T, B, o5 \ {a}, f5, b, none, none, I)  BY <2>2, <2>3, <1>6
  <2>5. none \subseteq none /\ none \subseteq K /\ I \subseteq J5  BY <2>3, <1>3, <1>4, <1>5, <1>6
  <2>6. QED  BY <2>1, <2>4, <2>5, <1>14, GivesAway
<1>26. Leads(q1 \o q2, S, S2)  BY <1>18, <1>19, LeadsOn
<1>27. Leads((q1 \o q2) \o q3, S, S4)  BY <1>26, <1>23, LeadsOn
<1>28. Leads(((q1 \o q2) \o q3) \o q4, S, S5)  BY <1>27, <1>24, LeadsOn
<1>29. Leads((((q1 \o q2) \o q3) \o q4) \o <<Release(a)>>, S, T)  BY <1>28, <1>25, LeadsOn
<1>30. QED  BY <1>15, <1>17, <1>29 DEF EFPageGroupCreate

(* What the calls do from the ground they start on.                        *)
Ends(p, B) == \E T : Leads(p, B, T) /\ T.own = {}

LEMMA LastLeads ==
  ASSUME NEW S, NEW T, NEW B, NEW o, NEW f, NEW J, NEW r \in o,
         Stands(S, B, o, f, {}, {}, {}, J), Stands(T, B, o \ {r}, f, {}, {}, {}, {})
  PROVE  Leads(<<Release(r)>>, S, T) /\ Leads(<<Keep(r)>>, S, T)
<1>1. PICK b, p, K, q, L, I : b = {} /\ p = {} /\ K = {} /\ q = {} /\ L = {} /\ I = {}
  OBVIOUS
<1>2. /\ r \notin b /\ r \notin p /\ L \subseteq K /\ I \subseteq J /\ q \subseteq p
      /\ Stands(S, B, o, f, b, p, K, J) /\ Stands(T, B, o \ {r}, f, b, q, L, I)
  BY <1>1
<1>3. QED  BY ONLY <1>2, r \in o, GivesAway

LEMMA LastEnds ==
  ASSUME NEW S, NEW B, NEW f, NEW J, NEW r, Stands(S, B, {r}, f, {}, {}, {}, J),
         NEW q, Leads(q, B, S)
  PROVE  Ends(q \o <<Keep(r)>>, B) /\ Ends(q \o <<Release(r)>>, B)
<1>1. PICK o, none : o = {r} /\ none = {}  OBVIOUS
<1>2. Base(B) /\ f \in SUBSET B.fresh /\ r \in Refs  BY DEF Stands
<1>3. PICK T : Stands(T, B, none, f, none, none, none, none)
  BY <1>1, <1>2, Stood
<1>4. r \in o /\ r \notin none /\ o \ {r} = none /\ none \subseteq J /\ none \subseteq none
  BY <1>1
<1>5. Stands(S, B, o, f, none, none, none, J)  BY <1>1
<1>6. Stands(T, B, o \ {r}, f, none, none, none, none)  BY <1>3, <1>4
<1>7. Leads(<<Release(r)>>, S, T) /\ Leads(<<Keep(r)>>, S, T)
  BY <1>1, <1>4, <1>5, <1>6, LastLeads
<1>8. Leads(q \o <<Keep(r)>>, B, T) /\ Leads(q \o <<Release(r)>>, B, T)
  BY <1>7, LeadsOn
<1>9. T.own = {}  BY <1>1, <1>3, StandsFacts
<1>10. QED  BY <1>8, <1>9 DEF Ends

LEMMA OneStands ==
  ASSUME NEW B, Base(B), NEW r \in Refs, NEW f \in SUBSET B.fresh, r \notin f, NEW k \in Kinds
  PROVE  /\ \E S : Stands(S, B, {r}, f, {}, {}, {}, {<<r, k>>})
         /\ \E S : Stands(S, B, {} \cup {r}, f, {}, {}, {}, {} \cup {<<r, k>>})
<1>1. PICK J : J = {<<r, k>>}  OBVIOUS
<1>2. /\ {r} \in SUBSET Refs /\ f \cap {r} = {} /\ {} \in SUBSET {r} /\ J \in SUBSET (Refs \X Kinds)
      /\ {} \in SUBSET ({r} \X Refs) /\ \A x, y : <<x, y>> \in J => x \in {r}
  BY <1>1
<1>3. \E S : Stands(S, B, {r}, f, {}, {}, {}, J)  BY <1>2, Stood
<1>4. {} \cup {r} = {r} /\ {} \cup {<<r, k>>} = {<<r, k>>}  OBVIOUS
<1>5. QED  BY <1>1, <1>3, <1>4

LEMMA PageEnds ==
  ASSUME NEW B, Base(B), NEW p \in B.fresh
  PROVE  Ends(EFPageCreate(p, <<>>) \o <<Keep(p)>>, B)
<1>1. B.fresh \ {p} \in SUBSET B.fresh /\ p \notin B.fresh \ {p} /\ p \in Refs /\ "page" \in Kinds
  BY DEF Base, Grounds, Kinds
<1>2. PICK S : Stands(S, B, {p}, B.fresh \ {p}, {}, {}, {}, {<<p, "page">>})
  BY <1>1, OneStands
<1>3. Stands(S, B, {} \cup {p}, B.fresh \ {p}, {}, {}, {}, {} \cup {<<p, "page">>})
  BY <1>2
<1>4. Leads(EFPageCreate(p, <<>>), B, S)
  BY <1>3, StandsAtFirst, UndoesNothing, NewPageLeads
<1>5. QED  BY <1>2, <1>4, LastEnds

LEMMA ArrayEnds ==
  ASSUME NEW B, Base(B), NEW a \in B.fresh
  PROVE  Ends(<<New(a, "array", 0, "object", <<>>), Keep(a)>>, B)
<1>1. B.fresh \ {a} \in SUBSET B.fresh /\ a \notin B.fresh \ {a} /\ a \in Refs /\ "array" \in Kinds
  BY DEF Base, Grounds, Kinds
<1>2. PICK S : Stands(S, B, {a}, B.fresh \ {a}, {}, {}, {}, {<<a, "array">>})
  BY <1>1, OneStands
<1>3. Stands(S, B, {} \cup {a}, B.fresh \ {a}, {}, {}, {}, {} \cup {<<a, "array">>})
  BY <1>2
<1>4. Leads(<<New(a, "array", 0, "object", <<>>)>>, B, S)
  BY <1>3, StandsAtFirst, UndoesNothing, NewArrayLeads
<1>5. Ends(<<New(a, "array", 0, "object", <<>>)>> \o <<Keep(a)>>, B)  BY <1>2, <1>4, LastEnds
<1>6. New(a, "array", 0, "object", <<>>) \in Steps /\ Keep(a) \in Steps
  BY <1>1, Written, UndoesNothing DEF Undoes
<1>7. QED  BY <1>5, <1>6, TwoSteps

Copyable(B, r) ==
  /\ Reached(B, r)
  /\ \/ <<r, "page">> \in B.is
     \/ ~OnlyPages /\ \E c \in Refs : <<c, "array">> \in B.is /\ <<c, r>> \in B.has

LEMMA CopyEnds ==
  ASSUME NEW B, Base(B), NEW c \in B.fresh, NEW its \in Seq(Refs),
         \A i \in 1 .. Len(its) : Copyable(B, its[i])
  PROVE  /\ Ends(Copies(c, its, <<>>) \o <<Keep(c)>>, B)
         /\ Ends(Copies(c, its, <<>>) \o <<Freeze(c), Keep(c)>>, B)
<1>1. B.fresh \ {c} \in SUBSET B.fresh /\ c \notin B.fresh \ {c} /\ c \in Refs /\ "array" \in Kinds
  BY DEF Base, Grounds, Kinds
<1>2. PICK S : Stands(S, B, {c}, B.fresh \ {c}, {}, {}, {}, {<<c, "array">>})
  BY <1>1, OneStands
<1>3. Stands(S, B, {} \cup {c}, B.fresh \ {c}, {}, {}, {}, {} \cup {<<c, "array">>})
  BY <1>2
<1>4. /\ S \in Grounds /\ Sound(S) /\ S.own = {c} /\ S.priv = {} /\ S.is = B.is \cup {<<c, "array">>}
      /\ S.has = B.has /\ \A x \in Refs : Reached(B, x) => Reached(S, x)
  <2>1. PICK o, f, J, none :
          o = {c} /\ f = B.fresh \ {c} /\ J = {<<c, "array">>} /\ none = {}
    OBVIOUS
  <2>2. Stands(S, B, o, f, none, none, none, J)  BY <2>1, <1>2
  <2>3. /\ S \in Grounds /\ Sound(S) /\ S.own = o /\ S.priv = none /\ S.is = B.is \cup J
        /\ S.has = B.has \cup none /\ \A x \in Refs : Reached(B, x) => Reached(S, x)
    BY ONLY <2>2, StandsFacts
  <2>4. QED  BY <2>1, <2>3
<1>5. \A i \in 1 .. Len(its) : Welcome(S, c, its[i])
  <2> SUFFICES ASSUME NEW i \in 1 .. Len(its) PROVE Welcome(S, c, its[i])
    OBVIOUS
  <2>1. PICK r : r = its[i]  OBVIOUS
  <2>2. r \in Refs /\ Copyable(B, r)  BY <2>1
  <2>3. Welcome(S, c, r)  BY <2>2, <1>4 DEF Welcome, Copyable
  <2>4. QED  BY <2>1, <2>3
<1>6. Leads(Copies(c, its, <<>>), B, S)
  BY <1>3, <1>5, StandsAtFirst, UndoesNothing, CopyLeads
<1>7. Ends(Copies(c, its, <<>>) \o <<Keep(c)>>, B)  BY <1>2, <1>6, LastEnds
<1>8. Ends(Copies(c, its, <<>>) \o <<Freeze(c), Keep(c)>>, B)
  <2>1. Leads(<<Freeze(c)>>, S, S)  BY <1>4, FreezeLeads
  <2>2. Leads(Copies(c, its, <<>>) \o <<Freeze(c)>>, B, S)  BY <2>1, <1>6, LeadsOn
  <2>3. Ends((Copies(c, its, <<>>) \o <<Freeze(c)>>) \o <<Keep(c)>>, B)
    BY <2>2, <1>2, LastEnds
  <2>4. Freeze(c) \in Steps /\ Keep(c) \in Steps  BY <1>1, Written
  <2>5. PICK w : w = Copies(c, its, <<>>)  OBVIOUS
  <2>6. w \in Seq(Steps)  BY <2>5, <1>6, LeadsFacts
  <2>7. PICK u, v : u = Freeze(c) /\ v = Keep(c)  OBVIOUS
  <2>8. <<u>> \in Seq(Steps) /\ <<v>> \in Seq(Steps)  BY <2>4, <2>7
  <2>9. (w \o <<u>>) \o <<v>> = w \o (<<u>> \o <<v>>)  BY <2>6, <2>8, ConcatAssociative
  <2>10. <<u>> \o <<v>> = <<u, v>>  BY <2>4, <2>7, TwoSteps
  <2>11. QED  BY <2>3, <2>5, <2>7, <2>9, <2>10
<1>9. QED  BY <1>7, <1>8

LEMMA GroupEnds ==
  ASSUME NEW B, Base(B), NEW g \in B.fresh, NEW c \in B.fresh, g # c, NEW its \in Seq(Refs),
         \A i \in 1 .. Len(its) : Reached(B, its[i]) /\ <<its[i], "page">> \in B.is
  PROVE  Ends(EFPageGroupCreateWithPages(g, c, its, "object", <<>>) \o <<Keep(g)>>, B)
<1>1. /\ B.fresh \ {g, c} \in SUBSET B.fresh /\ g \notin B.fresh \ {g, c} /\ g \in Refs
      /\ "group" \in Kinds
  BY DEF Base, Grounds, Kinds
<1>2. PICK S : Stands(S, B, {g}, B.fresh \ {g, c}, {}, {}, {}, {<<g, "group">>})
  BY <1>1, OneStands
<1>3. Stands(S, B, {} \cup {g}, B.fresh \ {g, c}, {}, {}, {}, {} \cup {<<g, "group">>})
  BY <1>2
<1>4. Leads(EFPageGroupCreateWithPages(g, c, its, "object", <<>>), B, S)
  BY <1>3, StandsAtFirst, UndoesNothing, GroupLeads
<1>5. QED  BY <1>2, <1>4, LastEnds

LEMMA PageGroupEnds ==
  ASSUME NEW B, Base(B), NEW g \in B.fresh, NEW c \in B.fresh, NEW a \in B.fresh, NEW p \in B.fresh,
         g # c, g # a, g # p, c # a, c # p, a # p
  PROVE  Ends(EFPageGroupCreate(g, c, a, p, <<>>) \o <<Keep(g)>>, B)
<1>1. PICK f : f = B.fresh \ {g, c, a, p}  OBVIOUS
<1>2. f \in SUBSET B.fresh /\ g \notin f /\ g \in Refs /\ "group" \in Kinds
  BY <1>1 DEF Base, Grounds, Kinds
<1>3. PICK S : Stands(S, B, {g}, f, {}, {}, {}, {<<g, "group">>})
  BY <1>2, OneStands
<1>4. Stands(S, B, {} \cup {g}, f, {}, {}, {}, {} \cup {<<g, "group">>})
  BY <1>3
<1>5. Leads(EFPageGroupCreate(g, c, a, p, <<>>), B, S)
  BY <1>1, <1>4, StandsAtFirst, UndoesNothing, PageGroupLeads
<1>6. QED  BY <1>3, <1>5, LastEnds

LEMMA FileEnds ==
  ASSUME NEW B, Base(B), NEW x \in B.fresh, NEW g \in B.fresh, NEW c \in B.fresh,
         NEW a \in B.fresh, NEW p \in B.fresh,
         x # g, x # c, x # a, x # p, g # c, g # a, g # p, c # a, c # p, a # p
  PROVE  Ends(EFFileHandleCreate(x, g, c, a, p), B)
<1>1. B.fresh \subseteq Refs /\ Base(B)  BY DEF Base, Grounds
<1>2. PICK f1, f2 : f1 = B.fresh \ {x} /\ f2 = f1 \ {g, c, a, p}  OBVIOUS
<1>3. PICK o1, o2, J1, J2 :
        /\ o1 = {x} /\ o2 = {x, g} /\ J1 = {<<x, "file">>} /\ J2 = J1 \cup {<<g, "group">>}
  OBVIOUS
<1>4. PICK b, p0, K : b = {x} /\ p0 = {} /\ K = {}  OBVIOUS
<1>5. PICK S1 : Stands(S1, B, o1, f1, b, p0, K, J1)
  <2>1. /\ o1 \in SUBSET Refs /\ f1 \in SUBSET B.fresh /\ f1 \cap o1 = {} /\ b \in SUBSET o1
        /\ p0 \in SUBSET o1 /\ K \in SUBSET (o1 \X Refs) /\ J1 \in SUBSET (Refs \X Kinds)
        /\ \A r, k : <<r, k>> \in J1 => r \in o1
    BY <1>1, <1>2, <1>3, <1>4 DEF Kinds
  <2>2. QED  BY <2>1, <1>1, Stood
<1>6. PICK S2 : Stands(S2, B, o2, f2, b, p0, K, J2)
  <2>1. /\ o2 \in SUBSET Refs /\ f2 \in SUBSET B.fresh /\ f2 \cap o2 = {} /\ b \in SUBSET o2
        /\ p0 \in SUBSET o2 /\ K \in SUBSET (o2 \X Refs) /\ J2 \in SUBSET (Refs \X Kinds)
        /\ \A r, k : <<r, k>> \in J2 => r \in o2
    BY <1>1, <1>2, <1>3, <1>4 DEF Kinds
  <2>2. QED  BY <2>1, <1>1, Stood
<1>7. /\ o1 \in SUBSET Refs /\ f2 \in SUBSET B.fresh /\ f2 \cap o1 = {} /\ b \in SUBSET o1
      /\ p0 \in SUBSET o1 /\ K \in SUBSET (o1 \X Refs) /\ J1 \in SUBSET (Refs \X Kinds)
      /\ {} \in SUBSET o1 /\ \A r, k : <<r, k>> \in J1 => r \in o1
  BY <1>1, <1>2, <1>3, <1>4 DEF Kinds
<1>8. PICK S3 : Stands(S3, B, o1, f2, {}, p0, K, J1)  BY <1>1, <1>7, Stood
<1>9. PICK S4 : Stands(S4, B, o1, f2, b, p0, K, J1)  BY <1>1, <1>7, Stood
<1>10. Leads(<<New(x, "file", 0, "default", <<>>)>>, B, S1)
  <2>1. PICK none : none = {}  OBVIOUS
  <2>2. Stands(B, B, none, B.fresh, none, none, none, none) /\ Undoes(<<>>, none)
    BY <2>1, StandsAtFirst, UndoesNothing
  <2>3. Stands(S1, B, none \cup {x}, B.fresh \ {x}, none \cup {x}, none, none, none \cup {<<x, "file">>})
    <3>1. none \cup {x} = o1 /\ none \cup {<<x, "file">>} = J1 /\ o1 = b /\ none = p0 /\ none = K
      BY <2>1, <1>3, <1>4
    <3>2. QED  BY <3>1, <1>2, <1>5
  <2>4. QED  BY <2>2, <2>3, NewContainerLeads
<1>11. PICK w : w = <<Release(x)>>  OBVIOUS
<1>12. Undoes(w, o1) /\ x \in Refs /\ g \in Refs  BY <1>1, <1>3, <1>11, UndoesOne
<1>13. Leads(EFPageGroupCreate(g, c, a, p, w), S1, S2)
  <2>1. g \in f1 /\ c \in f1 /\ a \in f1 /\ p \in f1  BY <1>2
  <2>2. o2 = o1 \cup {g}  BY <1>3
  <2>3. Stands(S1, B, o1, f1, b, {}, {}, J1)  BY <1>4, <1>5
  <2>4. Stands(S2, B, o1 \cup {g}, f1 \ {g, c, a, p}, b, {}, {}, J1 \cup {<<g, "group">>})
    BY <2>2, <1>2, <1>3, <1>4, <1>6
  <2>5. QED  BY <2>1, <2>3, <2>4, <1>12, PageGroupLeads
<1>14. Leads(<<Adopt(x, g)>>, S2, S3)
  <2>0. o2 \ {g} = o1 /\ b \ {x} = {}  BY <1>3, <1>4
  <2>1. g \in o2 /\ g \notin b /\ x \in b  BY <1>3, <1>4
  <2>2. <<x, "file">> \in S2.is /\ <<g, "group">> \in S2.is  BY <1>3, <1>6, StandsFacts
  <2>3. PICK q, L : q = p0 /\ L = K  OBVIOUS
  <2>4. L \subseteq K /\ q \subseteq p0 /\ J1 \subseteq J2  BY <2>3, <1>3
  <2>5. Stands(S4, B, o2 \ {g}, f2, b, q, L, J1)  BY <2>0, <2>3, <1>9
  <2>6. Stands(S3, B, o2 \ {g}, f2, b \ {x}, q, L, J1)  BY <2>0, <2>3, <1>8
  <2>7. QED  BY ONLY <2>1, <2>2, <2>4, <2>5, <2>6, <1>6, GivesAway
<1>15. PICK q1, q2 : q1 = <<New(x, "file", 0, "default", <<>>)>> /\ q2 = EFPageGroupCreate(g, c, a, p, w)
  OBVIOUS
<1>16. Leads((q1 \o q2) \o <<Adopt(x, g)>>, B, S3)
  <2>1. Leads(q1 \o q2, B, S2)  BY <1>10, <1>13, <1>15, LeadsOn
  <2>2. QED  BY <2>1, <1>14, LeadsOn
<1>17. Ends(((q1 \o q2) \o <<Adopt(x, g)>>) \o <<Keep(x)>>, B)
  <2>1. Stands(S3, B, {x}, f2, {}, {}, {}, J1)  BY <1>3, <1>4, <1>8
  <2>2. QED  BY <2>1, <1>16, LastEnds
<1>18. ((q1 \o q2) \o <<Adopt(x, g)>>) \o <<Keep(x)>> = (q1 \o q2) \o <<Adopt(x, g), Keep(x)>>
  <2>1. PICK v : v = q1 \o q2  OBVIOUS
  <2>2. PICK s, t : s = Adopt(x, g) /\ t = Keep(x)  OBVIOUS
  <2>3. s \in Steps /\ t \in Steps  BY <2>2, <1>12, Written
  <2>4. v \in Seq(Steps)
    <3>1. Leads(q1 \o q2, B, S2)  BY <1>10, <1>13, <1>15, LeadsOn
    <3>2. QED  BY <3>1, <2>1 DEF Leads
  <2>5. <<s>> \in Seq(Steps) /\ <<t>> \in Seq(Steps)  BY <2>3
  <2>6. (v \o <<s>>) \o <<t>> = v \o (<<s>> \o <<t>>)  BY <2>4, <2>5, ConcatAssociative
  <2>7. <<s>> \o <<t>> = <<s, t>>  BY <2>3, TwoSteps
  <2>8. QED  BY <2>1, <2>2, <2>6, <2>7
<1>19. QED  BY <1>11, <1>15, <1>17, <1>18 DEF EFFileHandleCreate

LEMMA PutEnds ==
  ASSUME NEW B, Base(B), NEW a \in Refs, NEW r \in Refs, Welcome(B, a, r)
  PROVE  /\ Ends(<<AppendTo(a, r, <<>>)>>, B)
         /\ \A i \in Nat : i > 0 => Ends(<<Insert(a, i, r, <<>>)>>, B)
<1>1. B \in Grounds /\ Sound(B) /\ B.own = {} /\ Undoes(<<>>, B.own)
  BY UndoesNothing DEF Base
<1>2. /\ AppendTo(a, r, <<>>) \in Steps /\ Calm(AppendTo(a, r, <<>>))
      /\ Allows(AppendTo(a, r, <<>>), B, B)
      /\ \A i \in Nat : i > 0 =>
           /\ Insert(a, i, r, <<>>) \in Steps /\ Calm(Insert(a, i, r, <<>>))
           /\ Allows(Insert(a, i, r, <<>>), B, B)
  BY <1>1, PutAllowed
<1>3. Leads(<<AppendTo(a, r, <<>>)>>, B, B)  BY <1>1, <1>2, LeadsOne
<1>4. \A i \in Nat : i > 0 => Leads(<<Insert(a, i, r, <<>>)>>, B, B)  BY <1>1, <1>2, LeadsOne
<1>5. QED  BY <1>1, <1>3, <1>4 DEF Ends

Extends(a, p) == EFPageCreate(p, <<>>) \o <<AppendTo(a, p, <<Release(p)>>), Release(p)>>

LEMMA ExtendLeads ==
  ASSUME NEW B, Base(B), NEW a \in Refs, <<a, "array">> \in B.is, NEW p \in B.fresh
  PROVE  \E T : /\ Leads(Extends(a, p), B, T)
                /\ T.own = {} /\ T.has = B.has /\ T.is = B.is
<1>1. PICK o, f, J, none :
        o = {p} /\ f = B.fresh \ {p} /\ J = {<<p, "page">>} /\ none = {}
  OBVIOUS
<1>2. /\ f \in SUBSET B.fresh /\ p \notin f /\ p \in Refs /\ "page" \in Kinds
      /\ o \ {p} = none /\ none \subseteq Refs /\ p \in o
  BY <1>1 DEF Base, Grounds, Kinds
<1>3. PICK S : Stands(S, B, {p}, f, {}, {}, {}, {<<p, "page">>})
  BY <1>2, OneStands
<1>4. PICK T : Stands(T, B, none, f, none, none, none, none)  BY <1>1, <1>2, Stood
<1>5. Leads(EFPageCreate(p, <<>>), B, S)
  <2>1. Stands(S, B, {} \cup {p}, B.fresh \ {p}, {}, {}, {}, {} \cup {<<p, "page">>})
    BY <1>1, <1>3
  <2>2. QED  BY <2>1, StandsAtFirst, UndoesNothing, NewPageLeads
<1>6. Stands(S, B, o, f, none, none, none, J)  BY <1>1, <1>3
<1>7. /\ S \in Grounds /\ Sound(S) /\ S.own = o /\ S.is = B.is \cup J
      /\ \A x \in o : Reached(S, x)
  BY <1>6, StandsFacts
<1>8. Undoes(<<Release(p)>>, S.own)  BY <1>1, <1>2, <1>7, UndoesOne
<1>9. PICK w : w = <<Release(p)>>  OBVIOUS
<1>10. Welcome(S, a, p)  BY <1>1, <1>2, <1>7 DEF Welcome
<1>11. /\ AppendTo(a, p, w) \in Steps /\ Calm(AppendTo(a, p, w)) /\ Allows(AppendTo(a, p, w), S, S)
  BY <1>2, <1>8, <1>9, <1>10, PutAllowed
<1>12. Leads(<<AppendTo(a, p, w)>>, S, S)  BY <1>7, <1>11, LeadsOne
<1>13. Leads(<<Release(p)>>, S, T)
  <2>1. Stands(S, B, o, f, {}, {}, {}, J) /\ Stands(T, B, o \ {p}, f, {}, {}, {}, {})
    BY <1>1, <1>2, <1>4, <1>6
  <2>2. QED  BY <2>1, <1>2, LastLeads
<1>14. Leads(<<AppendTo(a, p, w), Release(p)>>, S, T)
  BY <1>2, <1>11, <1>12, <1>13, Written, LeadsTwice
<1>15. Leads(Extends(a, p), B, T)  BY <1>5, <1>9, <1>14, LeadsOn DEF Extends
<1>16. T.own = none /\ T.has = B.has \cup none /\ T.is = B.is \cup none  BY <1>4, StandsFacts
<1>17. QED  BY <1>1, <1>15, <1>16

LEMMA ExtendEnds ==
  ASSUME NEW B, Base(B), NEW a \in Refs, <<a, "array">> \in B.is, NEW p \in B.fresh
  PROVE  Ends(Extends(a, p), B)
  BY ExtendLeads DEF Ends

LEMMA TakeLeads ==
  ASSUME NEW S \in Grounds, Sound(S), NEW a \in Refs, <<a, "array">> \in S.is,
         \A x \in Refs : <<a, x>> \notin S.has
  PROVE  /\ \A i \in Nat : i > 0 => Leads(<<RemoveFrom(a, i)>>, S, S)
         /\ \A n \in Nat : Leads([i \in 1 .. n |-> RemoveFrom(a, 1)], S, S)
<1>1. \A i \in Nat : i > 0 => /\ RemoveFrom(a, i) \in Steps /\ Calm(RemoveFrom(a, i))
                              /\ Allows(RemoveFrom(a, i), S, S)
  <2> SUFFICES ASSUME NEW i \in Nat, i > 0
               PROVE  /\ RemoveFrom(a, i) \in Steps /\ Calm(RemoveFrom(a, i))
                      /\ Allows(RemoveFrom(a, i), S, S)
    OBVIOUS
  <2>1. PICK s : s = RemoveFrom(a, i)  OBVIOUS
  <2>2. s \in Steps /\ Calm(s) /\ s.op = "remove" /\ s.a = a /\ s.i = i
    BY <2>1, Written DEF RemoveFrom
  <2>3. Allows(s, S, S)  BY <2>2 DEF Allows, AllowsTake
  <2>4. QED  BY <2>1, <2>2, <2>3
<1>2. \A i \in Nat : i > 0 => Leads(<<RemoveFrom(a, i)>>, S, S)  BY <1>1, LeadsOne
<1>3. ASSUME NEW n \in Nat PROVE Leads([i \in 1 .. n |-> RemoveFrom(a, 1)], S, S)
  <2>1. PICK w, s : w = [i \in 1 .. n |-> s] /\ s = RemoveFrom(a, 1)  OBVIOUS
  <2>2. s \in Steps /\ Calm(s) /\ Allows(s, S, S)  BY <2>1, <1>1
  <2>3. w \in Seq(Steps) /\ Len(w) = n /\ \A k \in 1 .. n : w[k] = s  BY <2>1, <2>2
  <2>4. Leads(w, S, S)  BY <2>2, <2>3, LeadsAround
  <2>5. QED  BY <2>1, <2>4
<1>4. QED  BY <1>2, <1>3

LEMMA TakeEnds ==
  ASSUME NEW B, Base(B), NEW a \in Refs, <<a, "array">> \in B.is,
         \A x \in Refs : <<a, x>> \notin B.has
  PROVE  /\ \A i \in Nat : i > 0 => Ends(<<RemoveFrom(a, i)>>, B)
         /\ \A p \in B.fresh, n \in Nat :
              Ends(Extends(a, p) \o [i \in 1 .. n |-> RemoveFrom(a, 1)], B)
<1>1. B \in Grounds /\ Sound(B) /\ B.own = {}  BY DEF Base
<1>2. \A i \in Nat : i > 0 => Ends(<<RemoveFrom(a, i)>>, B)  BY <1>1, TakeLeads DEF Ends
<1>3. ASSUME NEW p \in B.fresh, NEW n \in Nat
      PROVE  Ends(Extends(a, p) \o [i \in 1 .. n |-> RemoveFrom(a, 1)], B)
  <2>1. PICK T : Leads(Extends(a, p), B, T) /\ T.own = {} /\ T.has = B.has /\ T.is = B.is
    BY ExtendLeads
  <2>2. T \in Grounds /\ Sound(T)  BY <2>1, LeadsFacts
  <2>3. Leads([i \in 1 .. n |-> RemoveFrom(a, 1)], T, T)  BY <2>1, <2>2, TakeLeads
  <2>4. Leads(Extends(a, p) \o [i \in 1 .. n |-> RemoveFrom(a, 1)], B, T)
    BY <2>1, <2>3, LeadsOn
  <2>5. QED  BY <2>1, <2>4 DEF Ends
<1>4. QED  BY <1>2, <1>3
-----------------------------------------------------------------------------
(* Between calls: the client's references and the items are all there is.  *)
Between ==
  /\ Typed /\ TypeOK /\ RefsAccounted /\ ArraysRetain /\ ArraysOfPages /\ QuietAccounts
  /\ Quiet(todo)
  /\ \A r \in Refs : local[r] = 0 /\ (client[r] > 0 => refcount[r] > 0)
  /\ \A a, i : ~Leaving(a, i)
  /\ \A a \in Refs, i \in Nat : Place(a, i) <=> a \in Holders /\ i \in 1 .. Len(items[a])
  /\ \A a \in Refs : refcount[a] > 0 /\ kind[a] \in {"array", "group", "file"} => a \in Holders
  /\ \A a \in Refs, i \in Nat : Place(a, i) => items[a][i] \in Refs /\ refcount[items[a][i]] > 0
  /\ \A g \in Refs : kind[g] = "group" /\ refcount[g] > 0 =>
       Len(items[g]) = 1 /\ items[g][1] \in Refs /\ PrivateArray(items[g][1])
  /\ \A f \in Refs : kind[f] = "file" /\ refcount[f] > 0 =>
       Len(items[f]) = 1 /\ items[f][1] \in Refs /\ kind[items[f][1]] = "group"

LEMMA DoneOwns ==
  \A S : Completes(<<>>, S) => S \in Grounds /\ Sound(S) /\ S.own = {}
<1> SUFFICES ASSUME NEW S, Completes(<<>>, S) PROVE S \in Grounds /\ Sound(S) /\ S.own = {}
  OBVIOUS
<1>1. PICK p : p = <<>>  OBVIOUS
<1>2. Len(p) = 0 /\ Completes(p, S)  BY <1>1
<1>3. PICK f : Passes(p, f) /\ f[1] = S  BY <1>2 DEF Completes
<1>4. /\ f \in [1 .. 0 + 1 -> Grounds] /\ \A k \in 1 .. 0 + 1 : Sound(f[k])
      /\ f[0 + 1].own = {}
  BY <1>2, <1>3 DEF Passes
<1>5. QED  BY <1>3, <1>4

LEMMA IdleFacts ==
  IInv /\ todo = <<>> => Between
<1> SUFFICES ASSUME IInv, todo = <<>> PROVE Between
  OBVIOUS
<1>1. PICK S : Holds(S) /\ Completes(todo, S)  BY DEF IInv
<1>2. S \in Grounds /\ Sound(S) /\ S.own = {}  BY <1>1, DoneOwns
<1>3. /\ Typed /\ TypeOK /\ RefsAccounted /\ ArraysRetain /\ ArraysOfPages /\ Unburied /\ Heaped
      /\ Grounded(S) /\ GroupsOwn(S) /\ FilesOwn(S)
  BY <1>1 DEF IInv, Heaped, Typed, Holds
<1>4. Len(todo) = 0  OBVIOUS
<1>5. Quiet(todo)  BY <1>4 DEF Quiet
<1>6. S.bare = {}  BY <1>2 DEF Sound
<1>7. QuietAccounts  BY <1>3, <1>5, QuietHeaped
<1>8. /\ \A a, i : ~Leaving(a, i)
      /\ \A a \in Refs, i \in Nat : Place(a, i) <=> a \in Holders /\ i \in 1 .. Len(items[a])
  BY <1>3, <1>5, QuietHeap
<1>9. \A r \in Refs : local[r] = 0 /\ (client[r] > 0 => refcount[r] > 0)
  BY <1>2, <1>3, Backed DEF Grounded
<1>10. \A a \in Refs : refcount[a] > 0 /\ kind[a] \in {"array", "group", "file"} => a \in Holders
  BY <1>3 DEF Holders, Keeping, Live, Retains, ArraysRetain
<1>11. \A a \in Refs, i \in Nat : Place(a, i) => items[a][i] \in Refs /\ refcount[items[a][i]] > 0
  <2> SUFFICES ASSUME NEW a \in Refs, NEW i \in Nat, Place(a, i)
               PROVE  items[a][i] \in Refs /\ refcount[items[a][i]] > 0
    OBVIOUS
  <2>1. items[a][i] \in Refs  BY <1>3, ItemsAreRefs DEF Place
  <2>2. QED  BY <2>1, <1>3, Backed
<1>12. \A g \in Refs : kind[g] = "group" /\ refcount[g] > 0 =>
         Len(items[g]) = 1 /\ items[g][1] \in Refs /\ PrivateArray(items[g][1])
  BY <1>3, <1>6, ItemsAreRefs DEF GroupsOwn
<1>13. \A f \in Refs : kind[f] = "file" /\ refcount[f] > 0 =>
         Len(items[f]) = 1 /\ items[f][1] \in Refs /\ kind[items[f][1]] = "group"
  BY <1>3, <1>6, ItemsAreRefs DEF FilesOwn
<1>14. QED
  BY <1>3, <1>5, <1>7, <1>8, <1>9, <1>10, <1>11, <1>12, <1>13 DEF Between

(* A ground a call may start on.                                           *)
Opens(B) ==
  /\ Base(B)
  /\ \A r \in B.fresh : ~Live(r)
  /\ \A r \in B.held : client[r] > 0
  /\ \A a, x \in Refs : <<a, x>> \in B.has => \E i \in Nat : Item(a, i, x)
  /\ \A r \in Refs, k \in Kinds : <<r, k>> \in B.is => kind[r] = k

LEMMA Calling ==
  ASSUME IInv, todo = <<>>, NEW B, Opens(B), UNCHANGED <<heap, client, local>>, Ends(todo', B)
  PROVE  IInv'
<1>1. Between  BY IdleFacts
<1>2. /\ Typed /\ TypeOK /\ ArraysRetain /\ ArraysOfPages /\ QuietAccounts
      /\ \A r \in Refs : local[r] = 0
      /\ \A a, i : ~Leaving(a, i)
      /\ \A a \in Refs, i \in Nat : Place(a, i) <=> a \in Holders /\ i \in 1 .. Len(items[a])
      /\ \A a \in Refs, i \in Nat : Place(a, i) => items[a][i] \in Refs
  BY <1>1 DEF Between
<1>3. PICK T : Leads(todo', B, T) /\ T.own = {}  BY DEF Ends
<1>4. todo' \in Seq(Steps) /\ Quiet(todo') /\ Completes(todo', B)  BY <1>3, LeadsFacts
<1>5. /\ kind' = kind /\ refcount' = refcount /\ items' = items /\ cap' = cap
      /\ callbacks' = callbacks /\ isMutable' = isMutable /\ client' = client /\ local' = local
  BY DEF heap
<1>6. Typed'  BY <1>2, <1>4, <1>5 DEF Typed, TypeOK
<1>7. Holders' = Holders  BY <1>5 DEF Holders, Keeping, Live, Retains
<1>8. /\ \A k \in 1 .. Len(todo') : todo'[k].op # "shift"
      /\ \A a, i : ~Leaving(a, i)'
      /\ \A a \in Refs, i \in Nat : Place(a, i)' <=> a \in Holders' /\ i \in 1 .. Len(items'[a])
  BY <1>4, <1>6, QuietHeapNext
<1>9. \A a \in Refs, i \in Nat : Place(a, i)' <=> Place(a, i)
  BY <1>2, <1>5, <1>7, <1>8
<1>10. ArraysOfPages' /\ ArraysRetain'
  BY <1>2, <1>5, <1>9 DEF ArraysOfPages, ArraysRetain, Live
<1>11. QuietAccounts'  BY <1>2, <1>5, <1>7 DEF QuietAccounts, Live
<1>12. Heaped'  BY <1>4, <1>6, <1>10, <1>11, QuietHeapedNext
<1>13. \A a \in Refs : PrivateArray(a) <=> PrivateArray(a)'
  BY <1>5, <1>9 DEF PrivateArray
<1>14. B \in Grounds /\ B.own = {} /\ B.bare = {} /\ B.priv = {} /\ B.fresh \subseteq Refs
       /\ B.held \subseteq Refs
  BY DEF Opens, Base, Grounds
<1>15. Grounded(B)'
  <2>1. \A a, x \in Refs : <<a, x>> \in B.has => \E i \in Nat : Item(a, i, x)'
    <3> SUFFICES ASSUME NEW a \in Refs, NEW x \in Refs, <<a, x>> \in B.has
                 PROVE  \E i \in Nat : Item(a, i, x)'
      OBVIOUS
    <3>1. PICK i \in Nat : Item(a, i, x)  BY DEF Opens
    <3>2. Item(a, i, x)'  BY <3>1, <1>5, <1>8 DEF Item, Live, Retains
    <3>3. QED  BY <3>2
  <2>2. /\ \A r \in B.fresh : ~Live(r)'
        /\ \A r \in B.held : client'[r] > 0
        /\ \A r \in Refs, k \in Kinds : <<r, k>> \in B.is => kind'[r] = k
        /\ \A r \in Refs : local'[r] = IF r \in B.own THEN 1 ELSE 0
    BY <1>2, <1>5, <1>14 DEF Opens, Live
  <2>3. QED  BY <2>1, <2>2, <1>8, <1>14 DEF Grounded
<1>16. GroupsOwn(B)'
  <2> SUFFICES ASSUME NEW g \in Refs, kind'[g] = "group", refcount'[g] > 0
               PROVE  Len(items'[g]) = 1 /\ PrivateArray(items[g][1])'
    BY DEF GroupsOwn
  <2>1. Len(items[g]) = 1 /\ items[g][1] \in Refs /\ PrivateArray(items[g][1])
    BY <1>1, <1>5 DEF Between
  <2>2. QED  BY <2>1, <1>5, <1>13
<1>17. FilesOwn(B)'
  BY <1>1, <1>5, <1>14 DEF FilesOwn, Between
<1>18. QED  BY <1>4, <1>12, <1>15, <1>16, <1>17 DEF IInv, Holds

(* What a client can get at: what it holds, and what that keeps.           *)
Hold(a, x) == \E i \in Nat : Item(a, i, x)
Known(a)   == client[a] > 0 \/ \E g \in Refs : client[g] > 0 /\ Hold(g, a)
Within(x)  == Known(x) \/ \E a \in Refs : Known(a) /\ Hold(a, x)

Full(B) ==
  /\ Opens(B) /\ B.held = Values /\ B.fresh = Free
  /\ \A a, x \in Refs : Known(a) /\ Hold(a, x) => <<a, x>> \in B.has
  /\ \A r \in Refs : Within(r) => Reached(B, r) /\ \A k \in Kinds : kind[r] = k => <<r, k>> \in B.is

LEMMA Opening ==
  Between => \E B : Full(B)
<1> SUFFICES ASSUME Between PROVE \E B : Full(B)
  OBVIOUS
<1>1. PICK has : has = {pl \in Refs \X Refs : Known(pl[1]) /\ Hold(pl[1], pl[2])}  OBVIOUS
<1>2. PICK is : is = {rk \in Refs \X Kinds : Within(rk[1]) /\ kind[rk[1]] = rk[2]}  OBVIOUS
<1>3. PICK B : B = [held |-> Values, own |-> {}, fresh |-> Free, bare |-> {}, priv |-> {},
                    has |-> has, is |-> is]
  OBVIOUS
<1>4. \A a, x \in Refs : <<a, x>> \in has <=> Known(a) /\ Hold(a, x)  BY <1>1
<1>5. \A r \in Refs, k \in Kinds : <<r, k>> \in is <=> Within(r) /\ kind[r] = k  BY <1>2
<1>6. /\ B.held = Values /\ B.own = {} /\ B.fresh = Free /\ B.bare = {} /\ B.priv = {}
      /\ B.has = has /\ B.is = is
  BY <1>3
<1>7. B \in Grounds
  <2>1. Values \in SUBSET Refs /\ Free \in SUBSET Refs  BY DEF Values, Free
  <2>2. has \in SUBSET (Refs \X Refs) /\ is \in SUBSET (Refs \X Kinds)  BY <1>1, <1>2
  <2>3. QED  BY <2>1, <2>2, <1>3 DEF Grounds
<1>8. \A r \in Refs : r \in Values <=> client[r] > 0  BY DEF Values
<1>9. \A a \in Refs : Known(a) <=> Owner(B, a)
  <2> TAKE a \in Refs
  <2>1. ASSUME Known(a) PROVE Owner(B, a)
    <3>1. CASE client[a] > 0  BY <3>1, <1>6, <1>8 DEF Owner
    <3>2. CASE \E g \in Refs : client[g] > 0 /\ Hold(g, a)
      <4>1. PICK g \in Refs : client[g] > 0 /\ Hold(g, a)  BY <3>2
      <4>2. Known(g)  BY <4>1 DEF Known
      <4>3. <<g, a>> \in has /\ g \in Values  BY <4>1, <4>2, <1>4, <1>8
      <4>4. QED  BY <4>3, <1>6 DEF Owner
    <3>3. QED  BY <2>1, <3>1, <3>2 DEF Known
  <2>2. ASSUME Owner(B, a) PROVE Known(a)
    <3>1. CASE a \in Values  BY <3>1, <1>8 DEF Known
    <3>2. CASE \E g \in Values : <<g, a>> \in has
      <4>1. PICK g \in Values : <<g, a>> \in has  BY <3>2
      <4>2. g \in Refs /\ client[g] > 0  BY DEF Values
      <4>3. Hold(g, a)  BY <4>1, <4>2, <1>4
      <4>4. QED  BY <4>2, <4>3 DEF Known
    <3>3. QED  BY <2>2, <3>1, <3>2, <1>6 DEF Owner
  <2>3. QED  BY <2>1, <2>2
<1>10. \A x \in Refs : Within(x) <=> Reached(B, x)
  BY <1>4, <1>6, <1>9 DEF Within, Reached
<1>11. Sound(B)
  <2>1. \A a, x \in Refs : <<a, x>> \in B.has => Owner(B, a)  BY <1>4, <1>6, <1>9
  <2>2. \A r \in Refs, k \in Kinds : <<r, k>> \in B.is => Reached(B, r)  BY <1>5, <1>6, <1>10
  <2>3. QED  BY <2>1, <2>2, <1>6 DEF Sound
<1>12. Opens(B)
  <2>1. Base(B)  BY <1>6, <1>7, <1>11 DEF Base
  <2>2. /\ \A r \in B.fresh : ~Live(r)
        /\ \A r \in B.held : client[r] > 0
    BY <1>6 DEF Free, Values
  <2>3. \A a, x \in Refs : <<a, x>> \in B.has => \E i \in Nat : Item(a, i, x)
    BY <1>4, <1>6 DEF Hold
  <2>4. QED  BY <2>1, <2>2, <2>3, <1>5, <1>6 DEF Opens
<1>13. Full(B)  BY <1>4, <1>5, <1>6, <1>10, <1>12 DEF Full
<1>14. QED  BY <1>13

(* A known object is there; an array of a known group is the group's own.  *)
LEMMA KnownFacts ==
  Between =>
    /\ \A r \in Refs : Known(r) => refcount[r] > 0 /\ Live(r)
    /\ \A r \in Refs : client[r] > 0 => Known(r) /\ Within(r)
    /\ \A r \in Refs : Known(r) => Within(r)
    /\ \A a \in Refs, i \in Nat : Known(a) /\ kind[a] \in {"array", "group", "file"}
                                    /\ i \in 1 .. Len(items[a]) =>
         /\ items[a][i] \in Refs /\ Place(a, i) /\ Hold(a, items[a][i]) /\ Within(items[a][i])
         /\ client[a] > 0 => Known(items[a][i])
<1> SUFFICES ASSUME Between
             PROVE  /\ \A r \in Refs : Known(r) => refcount[r] > 0 /\ Live(r)
                    /\ \A r \in Refs : client[r] > 0 => Known(r) /\ Within(r)
                    /\ \A r \in Refs : Known(r) => Within(r)
                    /\ \A a \in Refs, i \in Nat :
                         Known(a) /\ kind[a] \in {"array", "group", "file"}
                           /\ i \in 1 .. Len(items[a]) =>
                         /\ items[a][i] \in Refs /\ Place(a, i) /\ Hold(a, items[a][i])
                         /\ Within(items[a][i]) /\ (client[a] > 0 => Known(items[a][i]))
  OBVIOUS
<1>1. /\ \A r \in Refs : client[r] > 0 => refcount[r] > 0
      /\ \A r \in Refs : refcount[r] > 0 => Live(r)
      /\ \A a, i : ~Leaving(a, i)
      /\ \A a \in Refs, i \in Nat : Place(a, i) <=> a \in Holders /\ i \in 1 .. Len(items[a])
      /\ \A a \in Refs : refcount[a] > 0 /\ kind[a] \in {"array", "group", "file"} => a \in Holders
      /\ \A a \in Refs, i \in Nat : Place(a, i) => items[a][i] \in Refs /\ refcount[items[a][i]] > 0
  BY DEF Between, QuietAccounts
<1>2. \A a, x \in Refs, i \in Nat : Item(a, i, x) /\ refcount[a] > 0 => Place(a, i) /\ items[a][i] = x
  BY <1>1 DEF Item, Holders, Keeping
<1>3. \A r \in Refs : Known(r) => refcount[r] > 0 /\ Live(r)
  <2> SUFFICES ASSUME NEW r \in Refs, Known(r) PROVE refcount[r] > 0
    BY <1>1
  <2>1. CASE client[r] > 0  BY <2>1, <1>1
  <2>2. CASE \E g \in Refs : client[g] > 0 /\ Hold(g, r)
    <3>1. PICK g \in Refs, i \in Nat : client[g] > 0 /\ Item(g, i, r)  BY <2>2 DEF Hold
    <3>2. Place(g, i) /\ items[g][i] = r  BY <3>1, <1>1, <1>2
    <3>3. QED  BY <3>2, <1>1
  <2>3. QED  BY <2>1, <2>2 DEF Known
<1>4. \A r \in Refs : (client[r] > 0 => Known(r)) /\ (Known(r) => Within(r))
  BY DEF Known, Within
<1>5. ASSUME NEW a \in Refs, NEW i \in Nat, Known(a), kind[a] \in {"array", "group", "file"},
             i \in 1 .. Len(items[a])
      PROVE  /\ items[a][i] \in Refs /\ Place(a, i) /\ Hold(a, items[a][i])
             /\ Within(items[a][i]) /\ (client[a] > 0 => Known(items[a][i]))
  <2>1. PICK x : x = items[a][i]  OBVIOUS
  <2>2. Place(a, i) /\ a \in Holders /\ x \in Refs  BY <2>1, <1>1, <1>3, <1>5
  <2>3. Item(a, i, x)  BY <2>1, <2>2, <1>1, <1>5 DEF Item, Holders, Keeping
  <2>4. Hold(a, x)  BY <2>3 DEF Hold
  <2>5. Within(x)  BY <2>4, <1>5 DEF Within
  <2>6. client[a] > 0 => Known(x)  BY <2>4 DEF Known
  <2>7. QED  BY <2>1, <2>2, <2>4, <2>5, <2>6
<1>6. QED  BY <1>3, <1>4, <1>5

LEMMA Copied ==
  ASSUME Between, NEW B, Full(B), NEW a \in Refs, Known(a), kind[a] = "array"
  PROVE  /\ callbacks[a] = "object" /\ items[a] \in Seq(Refs)
         /\ \A i \in 1 .. Len(items[a]) : Copyable(B, items[a][i])
         /\ <<a, "array">> \in B.is
<1>1. Live(a) /\ Within(a)  BY KnownFacts
<1>2. callbacks[a] = "object" /\ items[a] \in Seq(Refs) /\ Len(items[a]) \in Nat
  BY <1>1, ItemsAreRefs DEF Between, ArraysRetain
<1>3. "array" \in Kinds /\ "page" \in Kinds  BY DEF Kinds
<1>4. <<a, "array">> \in B.is  BY <1>1, <1>3 DEF Full
<1>5. ASSUME NEW i \in 1 .. Len(items[a]) PROVE Copyable(B, items[a][i])
  <2>1. PICK x : x = items[a][i]  OBVIOUS
  <2>2. i \in Nat  BY <1>2
  <2>3. x \in Refs /\ Place(a, i) /\ Hold(a, x) /\ Within(x)  BY <2>1, <2>2, KnownFacts
  <2>4. Reached(B, x) /\ <<a, x>> \in B.has  BY <2>3 DEF Full
  <2>5. OnlyPages => <<x, "page">> \in B.is
    <3> SUFFICES ASSUME OnlyPages PROVE <<x, "page">> \in B.is
      OBVIOUS
    <3>1. kind[x] = "page"  BY <2>1, <2>2, <2>3 DEF Between, ArraysOfPages
    <3>2. QED  BY <3>1, <2>3, <1>3 DEF Full
  <2>6. Copyable(B, x)  BY <2>4, <2>5, <1>4 DEF Copyable
  <2>7. QED  BY <2>1, <2>6
<1>6. QED  BY <1>2, <1>4, <1>5

LEMMA GroupArray ==
  ASSUME Between, NEW g \in Refs, Within(g), kind[g] = "group", refcount[g] > 0
  PROVE  /\ items[g][1] \in Refs /\ kind[items[g][1]] = "array" /\ Len(items[g]) = 1
         /\ Known(g) => Hold(g, items[g][1]) /\ Within(items[g][1])
         /\ client[g] > 0 => Known(items[g][1])
<1>1. Len(items[g]) = 1 /\ items[g][1] \in Refs /\ PrivateArray(items[g][1])  BY DEF Between
<1>2. kind[items[g][1]] = "array"  BY <1>1 DEF PrivateArray
<1>3. 1 \in 1 .. Len(items[g]) /\ 1 \in Nat  BY <1>1
<1>4. Known(g) => Hold(g, items[g][1]) /\ Within(items[g][1]) /\ (client[g] > 0 => Known(items[g][1]))
  BY <1>3, KnownFacts
<1>5. client[g] > 0 => Known(g)  BY DEF Known
<1>6. QED  BY <1>1, <1>2, <1>4, <1>5

LEMMA CreateHolds ==
  ASSUME IInv, Retaining, todo = <<>>, Create, UNCHANGED <<heap, client, local>>
  PROVE  IInv'
<1>1. Between  BY IdleFacts
<1>2. PICK B : Full(B)  BY <1>1, Opening
<1>3. Opens(B) /\ Base(B) /\ B.fresh = Free  BY <1>2 DEF Full, Opens
<1> SUFFICES Ends(todo', B)  BY <1>3, Calling
<1>4. \A a \in Held("array") :
        /\ a \in Refs /\ Known(a) /\ kind[a] = "array" /\ callbacks[a] = "object"
        /\ items[a] \in Seq(Refs)
        /\ \A i \in 1 .. Len(items[a]) : Copyable(B, items[a][i])
  <2> SUFFICES ASSUME NEW a \in Held("array")
               PROVE  /\ a \in Refs /\ Known(a) /\ kind[a] = "array" /\ callbacks[a] = "object"
                      /\ items[a] \in Seq(Refs)
                      /\ \A i \in 1 .. Len(items[a]) : Copyable(B, items[a][i])
    OBVIOUS
  <2>1. a \in Refs /\ Known(a) /\ kind[a] = "array"  BY DEF Held, Known
  <2>2. QED  BY <2>1, <1>1, <1>2, Copied
<1>5. ASSUME NEW s \in Fresh(1)
      PROVE  s[1] \in B.fresh
  BY <1>3 DEF Fresh
<1>6. ASSUME NEW s \in Fresh(1), todo' = EFPageCreate(s[1], <<>>) \o <<Keep(s[1])>>
      PROVE  Ends(todo', B)
  <2>1. PICK p : p = s[1]  OBVIOUS
  <2>2. p \in B.fresh  BY <2>1, <1>5
  <2>3. Ends(EFPageCreate(p, <<>>) \o <<Keep(p)>>, B)  BY <2>2, <1>3, PageEnds
  <2>4. QED  BY <2>1, <2>3, <1>6
<1>7. ASSUME NEW s \in Fresh(1), NEW cb \in Callbacks,
             todo' = <<New(s[1], "array", 0, cb, <<>>), Keep(s[1])>>
      PROVE  Ends(todo', B)
  <2>1. PICK a : a = s[1]  OBVIOUS
  <2>2. a \in B.fresh /\ cb = "object"  BY <2>1, <1>5 DEF Retaining
  <2>3. Ends(<<New(a, "array", 0, "object", <<>>), Keep(a)>>, B)  BY <2>2, <1>3, ArrayEnds
  <2>4. QED  BY <2>1, <2>2, <2>3, <1>7
<1>8. ASSUME NEW c \in B.fresh, NEW a \in Refs, Known(a), kind[a] = "array"
      PROVE  /\ Ends(EFArrayCreateCopy(c, a), B)
             /\ Ends(EFArrayCreateMutableCopy(c, a, <<>>) \o <<Keep(c)>>, B)
  <2>1. /\ callbacks[a] = "object" /\ items[a] \in Seq(Refs)
        /\ \A i \in 1 .. Len(items[a]) : Copyable(B, items[a][i])
    BY <1>1, <1>2, <1>8, Copied
  <2>2. PICK its : its = items[a]  OBVIOUS
  <2>3. /\ Ends(Copies(c, its, <<>>) \o <<Keep(c)>>, B)
        /\ Ends(Copies(c, its, <<>>) \o <<Freeze(c), Keep(c)>>, B)
    BY <2>1, <2>2, <1>3, CopyEnds
  <2>4. EFArrayCreateMutableCopy(c, a, <<>>) = Copies(c, its, <<>>)
    BY <2>1, <2>2 DEF EFArrayCreateMutableCopy, Copies
  <2>5. QED  BY <2>3, <2>4 DEF EFArrayCreateCopy
<1>9. ASSUME NEW s \in Fresh(1), NEW a \in Held("array"),
             \/ todo' = EFArrayCreateCopy(s[1], a)
             \/ todo' = EFArrayCreateMutableCopy(s[1], a, <<>>) \o <<Keep(s[1])>>
      PROVE  Ends(todo', B)
  BY <1>4, <1>5, <1>8, <1>9
<1>10. ASSUME NEW s \in Fresh(1), NEW g \in Held("group"),
              todo' = EFArrayCreateCopy(s[1], items[g][1])
       PROVE  Ends(todo', B)
  <2>1. g \in Refs /\ client[g] > 0 /\ kind[g] = "group"  BY DEF Held
  <2>2. Within(g) /\ refcount[g] > 0  BY <2>1, <1>1, KnownFacts DEF Between
  <2>3. items[g][1] \in Refs /\ kind[items[g][1]] = "array" /\ Known(items[g][1])
    BY <2>1, <2>2, <1>1, GroupArray
  <2>4. QED  BY <2>3, <1>5, <1>8, <1>10
<1>11. ASSUME NEW s \in Fresh(2), NEW a \in Held("array"),
              \A i \in 1 .. Len(items[a]) : kind[items[a][i]] = "page",
              todo' = EFPageGroupCreateWithPages(s[1], s[2], items[a], callbacks[a], <<>>)
                        \o <<Keep(s[1])>>
       PROVE  Ends(todo', B)
  <2>1. PICK g, c, its : g = s[1] /\ c = s[2] /\ its = items[a]  OBVIOUS
  <2>2. g \in B.fresh /\ c \in B.fresh /\ g # c
    <3>1. s \in [1 .. 2 -> Free] /\ s[1] # s[2]  BY DEF Fresh
    <3>2. QED  BY <3>1, <2>1, <1>3
  <2>3. its \in Seq(Refs) /\ callbacks[a] = "object"  BY <2>1, <1>4
  <2>4. \A i \in 1 .. Len(its) : Reached(B, its[i]) /\ <<its[i], "page">> \in B.is
    <3> SUFFICES ASSUME NEW i \in 1 .. Len(its)
                 PROVE  Reached(B, its[i]) /\ <<its[i], "page">> \in B.is
      OBVIOUS
    <3>1. PICK x : x = its[i]  OBVIOUS
    <3>2. i \in Nat /\ x \in Refs /\ kind[x] = "page" /\ "page" \in Kinds
      BY <3>1, <2>1, <2>3, <1>11 DEF Kinds
    <3>3. Within(x)  BY <3>1, <3>2, <2>1, <1>1, <1>4, KnownFacts
    <3>4. Reached(B, x) /\ <<x, "page">> \in B.is  BY <3>2, <3>3, <1>2 DEF Full
    <3>5. QED  BY <3>1, <3>4
  <2>5. Ends(EFPageGroupCreateWithPages(g, c, its, "object", <<>>) \o <<Keep(g)>>, B)
    BY <2>2, <2>3, <2>4, <1>3, GroupEnds
  <2>6. QED  BY <2>1, <2>3, <2>5, <1>11
<1>12. ASSUME NEW s \in Fresh(4),
              todo' = EFPageGroupCreate(s[1], s[2], s[3], s[4], <<>>) \o <<Keep(s[1])>>
       PROVE  Ends(todo', B)
  <2>1. PICK g, c, a, p : g = s[1] /\ c = s[2] /\ a = s[3] /\ p = s[4]  OBVIOUS
  <2>2. s \in [1 .. 4 -> Free] /\ \A i, j \in 1 .. 4 : i # j => s[i] # s[j]  BY DEF Fresh
  <2>3. /\ g \in B.fresh /\ c \in B.fresh /\ a \in B.fresh /\ p \in B.fresh
        /\ g # c /\ g # a /\ g # p /\ c # a /\ c # p /\ a # p
    BY <2>1, <2>2, <1>3
  <2>4. Ends(EFPageGroupCreate(g, c, a, p, <<>>) \o <<Keep(g)>>, B)
    BY <2>3, <1>3, PageGroupEnds
  <2>5. QED  BY <2>1, <2>4, <1>12
<1>13. ASSUME NEW s \in Fresh(5), todo' = EFFileHandleCreate(s[1], s[2], s[3], s[4], s[5])
       PROVE  Ends(todo', B)
  <2>1. PICK x, g, c, a, p : x = s[1] /\ g = s[2] /\ c = s[3] /\ a = s[4] /\ p = s[5]  OBVIOUS
  <2>2. s \in [1 .. 5 -> Free] /\ \A i, j \in 1 .. 5 : i # j => s[i] # s[j]  BY DEF Fresh
  <2>3. /\ x \in B.fresh /\ g \in B.fresh /\ c \in B.fresh /\ a \in B.fresh /\ p \in B.fresh
        /\ x # g /\ x # c /\ x # a /\ x # p /\ g # c /\ g # a /\ g # p /\ c # a /\ c # p /\ a # p
    BY <2>1, <2>2, <1>3
  <2>4. Ends(EFFileHandleCreate(x, g, c, a, p), B)  BY <2>3, <1>3, FileEnds
  <2>5. QED  BY <2>1, <2>4, <1>13
<1>14. QED  BY <1>6, <1>7, <1>9, <1>10, <1>11, <1>12, <1>13 DEF Create
(* What a removal may start on: nothing of the array is relied on.         *)
LEMMA TakeOpening ==
  ASSUME Between, NEW a \in Refs, kind[a] = "array",
         client[a] > 0 \/ \E g \in Refs : client[g] > 0 /\ kind[g] = "group" /\ Hold(g, a)
  PROVE  \E B : /\ Opens(B) /\ B.fresh = Free /\ <<a, "array">> \in B.is
                /\ \A x \in Refs : <<a, x>> \notin B.has
<1>1. PICK has \in SUBSET (Refs \X Refs) :
        /\ \A b, x \in Refs : <<b, x>> \in has => client[b] > 0 /\ b # a /\ Hold(b, x)
        /\ client[a] > 0 \/ \E g \in Refs : client[g] > 0 /\ <<g, a>> \in has
  <2>1. CASE client[a] > 0
    <3>1. PICK none : none = {}  OBVIOUS
    <3>2. /\ none \in SUBSET (Refs \X Refs) /\ \A b, x \in Refs : <<b, x>> \notin none
      BY <3>1
    <3>3. QED  BY <3>2, <2>1
  <2>2. CASE \E g \in Refs : client[g] > 0 /\ kind[g] = "group" /\ Hold(g, a)
    <3>1. PICK g \in Refs : client[g] > 0 /\ kind[g] = "group" /\ Hold(g, a)  BY <2>2
    <3>2. PICK one : one = {<<g, a>>}  OBVIOUS
    <3>3. /\ one \in SUBSET (Refs \X Refs) /\ <<g, a>> \in one
          /\ \A b, x \in Refs : <<b, x>> \in one => b = g /\ x = a
      BY <3>2
    <3>4. g # a  BY <3>1
    <3>5. QED  BY <3>1, <3>3, <3>4
  <2>3. QED  BY <2>1, <2>2
<1>2. PICK is : is = {<<a, "array">>}  OBVIOUS
<1>3. PICK B : B = [held |-> Values, own |-> {}, fresh |-> Free, bare |-> {}, priv |-> {},
                    has |-> has, is |-> is]
  OBVIOUS
<1>4. /\ B.held = Values /\ B.own = {} /\ B.fresh = Free /\ B.bare = {} /\ B.priv = {}
      /\ B.has = has /\ B.is = is
  BY <1>3
<1>5. /\ <<a, "array">> \in is /\ is \in SUBSET (Refs \X Kinds)
      /\ \A r \in Refs, k \in Kinds : <<r, k>> \in is => r = a /\ k = "array"
  BY <1>2 DEF Kinds
<1>6. B \in Grounds
  <2>1. Values \in SUBSET Refs /\ Free \in SUBSET Refs  BY DEF Values, Free
  <2>2. QED  BY <2>1, <1>1, <1>3, <1>5 DEF Grounds
<1>7. \A r \in Refs : r \in Values <=> client[r] > 0  BY DEF Values
<1>8. Sound(B)
  <2>1. \A b, x \in Refs : <<b, x>> \in B.has => Owner(B, b)  BY <1>1, <1>4, <1>7 DEF Owner
  <2>2. Owner(B, a)
    <3>1. CASE client[a] > 0  BY <3>1, <1>4, <1>7 DEF Owner
    <3>2. CASE \E g \in Refs : client[g] > 0 /\ <<g, a>> \in has
      <4>1. PICK g \in Refs : client[g] > 0 /\ <<g, a>> \in has  BY <3>2
      <4>2. g \in B.held /\ <<g, a>> \in B.has  BY <4>1, <1>4, <1>7
      <4>3. QED  BY <4>2 DEF Owner
    <3>3. QED  BY <3>1, <3>2, <1>1
  <2>3. \A r \in Refs, k \in Kinds : <<r, k>> \in B.is => Reached(B, r)
    BY <2>2, <1>4, <1>5 DEF Reached
  <2>4. QED  BY <2>1, <2>3, <1>4 DEF Sound
<1>9. Opens(B)
  <2>1. Base(B)  BY <1>4, <1>6, <1>8 DEF Base
  <2>2. /\ \A r \in B.fresh : ~Live(r)
        /\ \A r \in B.held : client[r] > 0
    BY <1>4 DEF Free, Values
  <2>3. \A b, x \in Refs : <<b, x>> \in B.has => \E i \in Nat : Item(b, i, x)
    BY <1>1, <1>4 DEF Hold
  <2>4. \A r \in Refs, k \in Kinds : <<r, k>> \in B.is => kind[r] = k
    BY <1>4, <1>5
  <2>5. QED  BY <2>1, <2>2, <2>3, <2>4 DEF Opens
<1>10. \A x \in Refs : <<a, x>> \notin B.has  BY <1>1, <1>4
<1>11. QED  BY <1>4, <1>5, <1>9, <1>10

LEMMA PutWelcome ==
  ASSUME Between, NEW B, Full(B), NEW a \in Held("array"), NEW r \in Values, kind[r] \in ItemKinds
  PROVE  a \in Refs /\ r \in Refs /\ Welcome(B, a, r)
<1>1. /\ a \in Refs /\ client[a] > 0 /\ kind[a] = "array"
      /\ r \in Refs /\ client[r] > 0
  BY DEF Held, Values
<1>2. Known(a) /\ Within(r)  BY <1>1, KnownFacts
<1>3. <<a, "array">> \in B.is  BY <1>1, <1>2, Copied
<1>4. /\ Reached(B, r) /\ B.held = Values
      /\ \A k \in Kinds : kind[r] = k => <<r, k>> \in B.is
  BY <1>1, <1>2 DEF Full
<1>5. OnlyPages => <<r, "page">> \in B.is
  BY <1>4 DEF OnlyPages, Kinds
<1>6. a \in B.held /\ r \in B.held  BY <1>1, <1>4 DEF Values
<1>7. QED  BY <1>1, <1>3, <1>4, <1>5, <1>6 DEF Welcome

LEMMA ChangeHolds ==
  ASSUME IInv, todo = <<>>, Change, UNCHANGED <<heap, client, local>>
  PROVE  IInv'
<1>1. Between  BY IdleFacts
<1>2. PICK B : Full(B)  BY <1>1, Opening
<1>3. Opens(B) /\ Base(B) /\ B.fresh = Free  BY <1>2 DEF Full, Opens
<1>4. ASSUME NEW a \in Held("array"), NEW r \in {v \in Values : kind[v] \in ItemKinds},
             \/ todo' = <<AppendTo(a, r, <<>>)>>
             \/ \E i \in 1 .. Len(items[a]) + 1 : todo' = <<Insert(a, i, r, <<>>)>>
      PROVE  IInv'
  <2>1. a \in Refs /\ r \in Refs /\ Welcome(B, a, r)  BY <1>1, <1>2, PutWelcome
  <2>2. /\ Ends(<<AppendTo(a, r, <<>>)>>, B)
        /\ \A i \in Nat : i > 0 => Ends(<<Insert(a, i, r, <<>>)>>, B)
    BY <2>1, <1>3, PutEnds
  <2>3. \A i \in 1 .. Len(items[a]) + 1 : i \in Nat /\ i > 0
    BY <2>1, <1>1, ItemsAreRefs DEF Between
  <2>4. Ends(todo', B)  BY <2>2, <2>3, <1>4
  <2>5. QED  BY <2>4, <1>3, Calling
<1>5. ASSUME NEW a \in Held("array"), NEW i \in 1 .. Len(items[a]),
             todo' = <<RemoveFrom(a, i)>>
      PROVE  IInv'
  <2>1. a \in Refs /\ client[a] > 0 /\ kind[a] = "array"  BY DEF Held
  <2>2. i \in Nat /\ i > 0  BY <2>1, <1>1, ItemsAreRefs DEF Between
  <2>3. PICK C : Opens(C) /\ <<a, "array">> \in C.is /\ \A x \in Refs : <<a, x>> \notin C.has
    BY <2>1, <1>1, TakeOpening
  <2>4. Base(C)  BY <2>3 DEF Opens
  <2>5. Ends(<<RemoveFrom(a, i)>>, C)  BY <2>1, <2>2, <2>3, <2>4, TakeEnds
  <2>6. QED  BY <2>3, <2>5, <1>5, Calling
<1>6. ASSUME NEW g \in Refs, Known(g), kind[g] = "group", refcount[g] > 0,
             NEW s \in Fresh(1), todo' = EFPageGroupExtend(g, s[1])
      PROVE  IInv'
  <2>1. PICK p, a : p = s[1] /\ a = items[g][1]  OBVIOUS
  <2>2. p \in B.fresh  BY <2>1, <1>3 DEF Fresh
  <2>3. Within(g)  BY <1>1, <1>6, KnownFacts
  <2>4. a \in Refs /\ kind[a] = "array" /\ Within(a)  BY <2>1, <2>3, <1>1, <1>6, GroupArray
  <2>5. <<a, "array">> \in B.is  BY <2>4, <1>2 DEF Full, Kinds
  <2>6. Ends(Extends(a, p), B)  BY <2>2, <2>4, <2>5, <1>3, ExtendEnds
  <2>7. todo' = Extends(a, p)  BY <2>1, <1>6 DEF EFPageGroupExtend, Extends
  <2>8. QED  BY <2>6, <2>7, <1>3, Calling
<1>7. \A g \in Held("group") :
        /\ g \in Refs /\ client[g] > 0 /\ Known(g) /\ Within(g) /\ kind[g] = "group"
        /\ refcount[g] > 0
  BY <1>1, KnownFacts DEF Held, Between
<1>8. ASSUME NEW g \in Held("group"), NEW s \in Fresh(1), todo' = EFPageGroupMerge(g, s[1])
      PROVE  IInv'
  <2>1. PICK p, a, n : p = s[1] /\ a = items[g][1] /\ n = Len(items[a])  OBVIOUS
  <2>2. a \in Refs /\ kind[a] = "array" /\ Hold(g, a)  BY <2>1, <1>1, <1>7, GroupArray
  <2>3. n \in Nat  BY <2>1, <2>2, <1>1, ItemsAreRefs DEF Between
  <2>4. PICK C : /\ Opens(C) /\ C.fresh = Free /\ <<a, "array">> \in C.is
                 /\ \A x \in Refs : <<a, x>> \notin C.has
    BY <2>2, <1>1, <1>7, TakeOpening
  <2>5. Base(C) /\ p \in C.fresh  BY <2>1, <2>4 DEF Opens, Fresh
  <2>6. Ends(Extends(a, p) \o [i \in 1 .. n |-> RemoveFrom(a, 1)], C)
    BY <2>2, <2>3, <2>4, <2>5, TakeEnds
  <2>7. todo' = Extends(a, p) \o [i \in 1 .. n |-> RemoveFrom(a, 1)]
    BY <2>1, <1>8 DEF EFPageGroupMerge, Extends
  <2>8. QED  BY <2>4, <2>6, <2>7, Calling
<1>9. ASSUME NEW f \in Held("file"), NEW s \in Fresh(1),
             todo' = EFPageGroupExtend(items[f][1], s[1])
      PROVE  IInv'
  <2>1. PICK g : g = items[f][1]  OBVIOUS
  <2>2. f \in Refs /\ client[f] > 0 /\ kind[f] = "file" /\ refcount[f] > 0
    BY <1>1 DEF Held, Between
  <2>3. Len(items[f]) = 1 /\ g \in Refs /\ kind[g] = "group"  BY <2>1, <2>2, <1>1 DEF Between
  <2>4. 1 \in 1 .. Len(items[f]) /\ 1 \in Nat /\ Known(f)  BY <2>2, <2>3, <1>1, KnownFacts
  <2>5. Known(g)  BY <2>1, <2>2, <2>4, <1>1, KnownFacts
  <2>6. refcount[g] > 0  BY <2>3, <2>5, <1>1, KnownFacts
  <2>7. QED  BY <2>1, <2>3, <2>5, <2>6, <1>6, <1>9
<1>10. QED  BY <1>4, <1>5, <1>6, <1>7, <1>8, <1>9 DEF Change
(* The client alone: a reference given up is the call's to release, one    *)
(* taken is one more.                                                      *)
Nothing(o) == [held |-> {}, own |-> o, fresh |-> {}, bare |-> {}, priv |-> {},
               has |-> {}, is |-> {}]

LEMMA NothingFacts ==
  ASSUME NEW o \in SUBSET Refs
  PROVE  /\ Nothing(o) \in Grounds /\ Sound(Nothing(o)) /\ Bared(Nothing(o)) = Nothing(o)
         /\ Nothing(o).own = o
<1>1. Nothing(o) \in Grounds  BY DEF Nothing, Grounds
<1>2. Sound(Nothing(o))  BY DEF Nothing, Sound
<1>3. QED  BY <1>1, <1>2 DEF Nothing, Bared

LEMMA LetGoHolds ==
  ASSUME IInv, todo = <<>>, LetGo
  PROVE  IInv'
<1>1. Between  BY IdleFacts
<1>2. /\ Typed /\ TypeOK /\ ArraysRetain /\ ArraysOfPages /\ QuietAccounts
      /\ \A x \in Refs : local[x] = 0
      /\ \A a \in Refs, i \in Nat : Place(a, i) <=> a \in Holders /\ i \in 1 .. Len(items[a])
  BY <1>1 DEF Between
<1>3. PICK r \in Values :
        /\ client' = [client EXCEPT ![r] = @ - 1]
        /\ local' = [local EXCEPT ![r] = @ + 1]
        /\ todo' = <<Release(r)>> /\ UNCHANGED heap
  BY DEF LetGo
<1>4. /\ r \in Refs /\ client[r] > 0
      /\ kind' = kind /\ refcount' = refcount /\ items' = items /\ cap' = cap
      /\ callbacks' = callbacks /\ isMutable' = isMutable
  BY <1>3 DEF heap, Values
<1>5. client \in [Refs -> Nat] /\ local \in [Refs -> Nat]  BY <1>2 DEF TypeOK
<1>6. /\ client' \in [Refs -> Nat] /\ local' \in [Refs -> Nat]
      /\ client'[r] = client[r] - 1 /\ local'[r] = 1
      /\ \A x \in Refs : x # r => client'[x] = client[x] /\ local'[x] = 0
  BY <1>2, <1>3, <1>4, <1>5
<1>7. PICK S : S = Nothing({r})  OBVIOUS
<1>8. S \in Grounds /\ Sound(S) /\ Bared(S) = S /\ S.own = {r}
  BY <1>4, <1>7, NothingFacts
<1>9. Completes(todo', S)
  <2>1. Undoes(todo', S.own)  BY <1>3, <1>4, <1>8, UndoesOne
  <2>2. Completes(todo', Bared(S))  BY <2>1, <1>8, Undoing
  <2>3. QED  BY <2>2, <1>8
<1>10. todo' \in Seq(Steps) /\ Len(todo') = 1 /\ todo'[1].op = "release"
  BY <1>3, <1>9 DEF Completes, Release
<1>11. Quiet(todo')  BY <1>10 DEF Quiet
<1>12. Typed'  BY <1>2, <1>4, <1>6, <1>10 DEF Typed, TypeOK
<1>13. Holders' = Holders  BY <1>4 DEF Holders, Keeping, Live, Retains
<1>14. /\ \A k \in 1 .. Len(todo') : todo'[k].op # "shift"
       /\ \A a \in Refs, i \in Nat : Place(a, i)' <=> a \in Holders' /\ i \in 1 .. Len(items'[a])
  BY <1>11, <1>12, QuietHeapNext
<1>15. \A a \in Refs, i \in Nat : Place(a, i)' <=> Place(a, i)  BY <1>2, <1>4, <1>13, <1>14
<1>16. ArraysOfPages' /\ ArraysRetain'
  BY <1>2, <1>4, <1>15 DEF ArraysOfPages, ArraysRetain, Live
<1>17. QuietAccounts'
  <2>1. ASSUME NEW x \in Refs
        PROVE  refcount'[x] = client'[x] + local'[x] + Cardinality(Kept(Holders', items', x))
    <3>1. PICK k : k = Cardinality(Kept(Holders, items, x))  OBVIOUS
    <3>2. refcount[x] = client[x] + local[x] + k  BY <3>1, <1>2 DEF QuietAccounts
    <3>3. CASE x = r
      <4>1. refcount[r] = client[r] + 0 + k /\ client[r] \in Nat
        BY <3>2, <3>3, <1>2, <1>4, <1>5
      <4>2. k \in Int
        <5>1. Keepers(x) = Kept(Holders, items, x) /\ IsFiniteSet(Keepers(x))
          BY <1>1, <1>2, KeepersAre, QuietHeap DEF Between
        <5>2. QED  BY <5>1, <3>1, AtLeast
      <4>3. client[r] + 0 + k = client[r] - 1 + 1 + k  BY <4>1, <4>2
      <4>4. QED  BY <4>1, <4>3, <3>1, <3>3, <1>4, <1>6, <1>13
    <3>4. CASE x # r  BY <3>1, <3>2, <3>4, <1>2, <1>4, <1>6, <1>13
    <3>5. QED  BY <3>3, <3>4
  <2>2. QED  BY <2>1, <1>2, <1>4 DEF QuietAccounts, Live
<1>18. Heaped'  BY <1>11, <1>12, <1>16, <1>17, QuietHeapedNext
<1>19. Grounded(S)'
  BY <1>4, <1>6, <1>7, <1>8, <1>14 DEF Grounded, Nothing
<1>20. GroupsOwn(S)'
  <2> SUFFICES ASSUME NEW g \in Refs, kind'[g] = "group", refcount'[g] > 0
               PROVE  Len(items'[g]) = 1 /\ PrivateArray(items[g][1])'
    BY <1>4 DEF GroupsOwn
  <2>1. PICK a : a = items[g][1]  OBVIOUS
  <2>2. Len(items[g]) = 1 /\ a \in Refs /\ PrivateArray(a)
    BY <2>1, <1>1, <1>4 DEF Between
  <2>3. client[a] = 0 /\ a # r  BY <2>2, <1>4 DEF PrivateArray
  <2>4. client'[a] = 0  BY <2>2, <2>3, <1>6
  <2>5. PrivateArray(a)'  BY <2>2, <2>4, <1>4, <1>15 DEF PrivateArray
  <2>6. QED  BY <2>1, <2>2, <2>5, <1>4
<1>21. FilesOwn(S)'
  BY <1>1, <1>4, <1>7 DEF FilesOwn, Between, Nothing
<1>22. QED  BY <1>9, <1>18, <1>19, <1>20, <1>21 DEF IInv, Holds

LEMMA EFRetainHolds ==
  ASSUME IInv, todo = <<>>, EFRetain
  PROVE  IInv'
<1>1. Between  BY IdleFacts
<1>2. /\ Typed /\ TypeOK /\ RefsAccounted /\ ArraysRetain /\ ArraysOfPages /\ QuietAccounts
      /\ \A x \in Refs : local[x] = 0 /\ (client[x] > 0 => refcount[x] > 0)
      /\ \A a \in Refs, i \in Nat : Place(a, i) <=> a \in Holders /\ i \in 1 .. Len(items[a])
  BY <1>1 DEF Between
<1>3. PICK r \in Values \cup UNION {ToSet(items[a]) : a \in Held("array")} :
        /\ refcount' = [refcount EXCEPT ![r] = @ + 1]
        /\ client' = [client EXCEPT ![r] = @ + 1]
        /\ UNCHANGED <<kind, items, cap, callbacks, isMutable, local, todo>>
  BY DEF EFRetain
<1>4. /\ kind' = kind /\ items' = items /\ cap' = cap /\ callbacks' = callbacks
      /\ isMutable' = isMutable /\ local' = local /\ todo' = <<>> /\ todo' = todo
  BY <1>3
<1>5. \/ r \in Refs /\ client[r] > 0
      \/ \E a \in Refs, i \in Nat : kind[a] = "array" /\ Place(a, i) /\ items[a][i] = r
  <2>1. CASE r \in Values  BY <2>1 DEF Values
  <2>2. CASE r \in UNION {ToSet(items[a]) : a \in Held("array")}
    <3>1. PICK a \in Held("array") : r \in ToSet(items[a])  BY <2>2
    <3>2. a \in Refs /\ client[a] > 0 /\ kind[a] = "array"  BY DEF Held
    <3>3. items[a] \in Seq(Refs) /\ Len(items[a]) \in Nat  BY <3>2, <1>2, ItemsAreRefs
    <3>4. PICK i \in 1 .. Len(items[a]) : items[a][i] = r  BY <3>1, <3>3 DEF ToSet
    <3>5. Place(a, i) /\ i \in Nat  BY <3>2, <3>3, <3>4, <1>1, KnownFacts
    <3>6. QED  BY <3>2, <3>4, <3>5
  <2>3. QED  BY <2>1, <2>2, <1>3
<1>6. r \in Refs /\ refcount[r] > 0  BY <1>1, <1>2, <1>5 DEF Between
<1>7. client \in [Refs -> Nat] /\ refcount \in [Refs -> Nat]  BY <1>2 DEF TypeOK
<1>8. /\ client' \in [Refs -> Nat] /\ refcount' \in [Refs -> Nat]
      /\ client'[r] = client[r] + 1 /\ refcount'[r] = refcount[r] + 1
      /\ \A x \in Refs : x # r => client'[x] = client[x] /\ refcount'[x] = refcount[x]
      /\ \A x \in Refs : refcount'[x] > 0 <=> refcount[x] > 0
  BY <1>3, <1>6, <1>7
<1>9. PICK S : S = Nothing({})  OBVIOUS
<1>10. S \in Grounds /\ Sound(S) /\ S.own = {}  BY <1>9, NothingFacts
<1>11. Completes(todo', S)  BY <1>4, <1>10, Emptied
<1>12. Quiet(todo') /\ Len(todo') = 0  BY <1>4 DEF Quiet
<1>13. Typed'
  BY <1>2, <1>4, <1>8 DEF Typed, TypeOK
<1>14. Holders' = Holders  BY <1>4, <1>8 DEF Holders, Keeping, Live, Retains
<1>15. \A a \in Refs, i \in Nat : Place(a, i)' <=> a \in Holders' /\ i \in 1 .. Len(items'[a])
  BY <1>12, <1>13, QuietHeapNext
<1>16. \A a \in Refs, i \in Nat : Place(a, i)' <=> Place(a, i)  BY <1>2, <1>4, <1>14, <1>15
<1>17. ArraysOfPages' /\ ArraysRetain'
  BY <1>2, <1>4, <1>16 DEF ArraysOfPages, ArraysRetain, Live
<1>18. QuietAccounts'
  <2>1. ASSUME NEW x \in Refs
        PROVE  refcount'[x] = client'[x] + local'[x] + Cardinality(Kept(Holders', items', x))
    <3>1. PICK k : k = Cardinality(Kept(Holders, items, x))  OBVIOUS
    <3>2. refcount[x] = client[x] + 0 + k /\ client[x] \in Nat
      BY <3>1, <1>2, <1>7 DEF QuietAccounts
    <3>3. k \in Int
      <4>1. Keepers(x) = Kept(Holders, items, x) /\ IsFiniteSet(Keepers(x))
        BY <1>1, <1>2, KeepersAre, QuietHeap DEF Between
      <4>2. QED  BY <4>1, <3>1, AtLeast
    <3>4. CASE x = r
      <4>1. client[x] + 0 + k + 1 = client[x] + 1 + 0 + k  BY <3>2, <3>3
      <4>2. QED  BY <4>1, <3>1, <3>2, <3>4, <1>2, <1>4, <1>8, <1>14
    <3>5. CASE x # r  BY <3>1, <3>2, <3>5, <1>2, <1>4, <1>8, <1>14
    <3>6. QED  BY <3>4, <3>5
  <2>2. QED  BY <2>1, <1>2, <1>4, <1>8 DEF QuietAccounts, Live
<1>19. Heaped'  BY <1>12, <1>13, <1>17, <1>18, QuietHeapedNext
<1>20. Grounded(S)'
  BY <1>2, <1>4, <1>9, <1>10, <1>12 DEF Grounded, Nothing
<1>21. GroupsOwn(S)'
  <2> SUFFICES ASSUME NEW g \in Refs, kind'[g] = "group", refcount'[g] > 0
               PROVE  Len(items'[g]) = 1 /\ PrivateArray(items[g][1])'
    BY <1>4 DEF GroupsOwn
  <2>1. PICK a : a = items[g][1]  OBVIOUS
  <2>2. Len(items[g]) = 1 /\ a \in Refs /\ PrivateArray(a) /\ kind[g] = "group" /\ refcount[g] > 0
    BY <2>1, <1>1, <1>4, <1>8 DEF Between
  <2>3. client[a] = 0 /\ refcount[a] = 1  BY <2>2 DEF PrivateArray
  <2>4. Place(g, 1) /\ 1 \in Nat  BY <2>2, <1>1 DEF Between
  <2>5. a # r
    <3> SUFFICES ASSUME a = r PROVE FALSE
      OBVIOUS
    <3>1. PICK b \in Refs, i \in Nat : kind[b] = "array" /\ Place(b, i) /\ items[b][i] = a
      BY <2>3, <1>5
    <3>2. b = g  BY <3>1, <2>1, <2>2, <2>3, <2>4, <1>2, Sole
    <3>3. QED  BY <3>1, <3>2, <2>2
  <2>6. client'[a] = 0 /\ refcount'[a] = 1  BY <2>2, <2>3, <2>5, <1>8
  <2>7. PrivateArray(a)'  BY <2>2, <2>6, <1>4, <1>16 DEF PrivateArray
  <2>8. QED  BY <2>1, <2>2, <2>7, <1>4
<1>22. FilesOwn(S)'
  BY <1>1, <1>4, <1>8, <1>9 DEF FilesOwn, Between, Nothing
<1>23. QED  BY <1>11, <1>19, <1>20, <1>21, <1>22 DEF IInv, Holds
-----------------------------------------------------------------------------
(* The invariant, from the first state on.                                 *)
LEMMA InitHolds ==
  Init => IInv
<1> SUFFICES ASSUME Init PROVE IInv
  OBVIOUS
<1>1. /\ \A r \in Refs : /\ kind[r] = "none" /\ refcount[r] = 0 /\ items[r] = <<>>
                         /\ client[r] = 0 /\ local[r] = 0 /\ ~Live(r)
      /\ todo = <<>> /\ Len(todo) = 0
  BY DEF Init, Live
<1>2. todo \in Seq(Steps) /\ Quiet(todo)  BY <1>1 DEF Quiet
<1>3. TypeOK
  <2>1. <<>> \in Seq(Refs)  OBVIOUS
  <2>2. QED  BY <2>1, <1>1 DEF Init, TypeOK
<1>4. Typed  BY <1>2, <1>3 DEF Typed
<1>5. Holders = {}  BY <1>1 DEF Holders, Keeping
<1>6. ArraysRetain /\ ArraysOfPages  BY <1>1, <1>5 DEF ArraysRetain, ArraysOfPages, Place
<1>7. QuietAccounts
  <2>1. \A x \in Refs : Kept(Holders, items, x) = {}  BY <1>5 DEF Kept
  <2>2. \A x \in Refs : Cardinality(Kept(Holders, items, x)) = 0  BY <2>1, FS_EmptySet
  <2>3. 0 = 0 + 0 + 0 /\ ~(0 > 0)  OBVIOUS
  <2>4. QED  BY <2>2, <2>3, <1>1 DEF QuietAccounts
<1>8. Heaped  BY <1>2, <1>4, <1>6, <1>7, QuietHeaped
<1>9. PICK S : S = Nothing({})  OBVIOUS
<1>10. S \in Grounds /\ Sound(S) /\ S.own = {}  BY <1>9, NothingFacts
<1>11. Completes(todo, S)  BY <1>1, <1>10, Emptied
<1>12. Grounded(S)  BY <1>1, <1>9, <1>10 DEF Grounded, Nothing
<1>13. GroupsOwn(S) /\ FilesOwn(S)  BY <1>1 DEF GroupsOwn, FilesOwn
<1>14. QED  BY <1>8, <1>11, <1>12, <1>13 DEF IInv, Holds

LEMMA StandingStill ==
  IInv /\ UNCHANGED vars => IInv'
<1> SUFFICES ASSUME IInv, UNCHANGED vars PROVE IInv'
  OBVIOUS
<1>1. /\ kind' = kind /\ refcount' = refcount /\ items' = items /\ cap' = cap
      /\ callbacks' = callbacks /\ isMutable' = isMutable /\ client' = client
      /\ local' = local /\ todo' = todo
  BY DEF vars
<1>2. Typed /\ RefsAccounted /\ Unburied /\ ArraysRetain /\ Stacked /\ ArraysOfPages
  BY DEF IInv, Heaped
<1>3. Holders' = Holders /\ Places' = Places
  BY <1>1 DEF Holders, Places, Keeping, Leaving, Live, Retains
<1>4. \A a, i : Place(a, i)' <=> Place(a, i)
  BY <1>1, <1>3 DEF Place, Leaving
<1>5. Typed' /\ Unburied' /\ ArraysRetain' /\ Stacked'
  BY <1>1, <1>2 DEF Typed, TypeOK, Unburied, ArraysRetain, Stacked, Live, Buries, Tears
<1>6. ArraysOfPages'  BY <1>1, <1>2, <1>4 DEF ArraysOfPages
<1>7. \A x : Keepers(x)' = Keepers(x) /\ Drops(x)' = Drops(x)
  BY <1>1, <1>3 DEF Keepers, Drops
<1>8. RefsAccounted'  BY <1>1, <1>2, <1>7 DEF RefsAccounted
<1>9. PICK S : Holds(S) /\ Completes(todo, S)  BY DEF IInv
<1>10. \A a : PrivateArray(a)' <=> PrivateArray(a)  BY <1>1, <1>4 DEF PrivateArray
<1>11. \A a, i, x : Item(a, i, x)' <=> Item(a, i, x)
  BY <1>1 DEF Item, Live, Retains, Leaving
<1>12. Grounded(S)'
  BY <1>1, <1>9, <1>10, <1>11 DEF Holds, Grounded, Live
<1>13. GroupsOwn(S)' /\ FilesOwn(S)'
  BY <1>1, <1>9, <1>10 DEF Holds, GroupsOwn, FilesOwn
<1>14. Completes(todo', S)  BY <1>1, <1>9
<1>15. QED  BY <1>5, <1>6, <1>8, <1>12, <1>13, <1>14 DEF IInv, Heaped, Holds

LEMMA Readied ==
  IInv /\ todo # <<>> => \E S, T : Ready(S, T) /\ Completes(Tail(todo), T)
<1> SUFFICES ASSUME IInv, todo # <<>>
             PROVE  \E S, T : Ready(S, T) /\ Completes(Tail(todo), T)
  OBVIOUS
<1>1. PICK S : Holds(S) /\ Completes(todo, S)  BY DEF IInv
<1>2. S \in Grounds /\ Sound(S)
      /\ \E T \in Grounds : Sound(T) /\ Allows(step, S, T) /\ Completes(Tail(todo), T)
  BY <1>1, Proceeding DEF step
<1>3. PICK T \in Grounds : Sound(T) /\ Allows(step, S, T) /\ Completes(Tail(todo), T)
  BY <1>2
<1>4. Ready(S, T)  BY <1>1, <1>2, <1>3 DEF Ready, IInv
<1>5. QED  BY <1>3, <1>4

LEMMA NextHolds ==
  ASSUME Retaining, IInv, [Next]_vars
  PROVE  IInv'
<1>1. CASE UNCHANGED vars  BY <1>1, StandingStill
<1>2. CASE Call
  <2>1. todo = <<>>  BY <1>2 DEF Call
  <2>2. CASE Create /\ UNCHANGED <<heap, client, local>>  BY <2>1, <2>2, CreateHolds
  <2>3. CASE Change /\ UNCHANGED <<heap, client, local>>  BY <2>1, <2>3, ChangeHolds
  <2>4. CASE LetGo  BY <2>1, <2>4, LetGoHolds
  <2>5. CASE EFRetain  BY <2>1, <2>5, EFRetainHolds
  <2>6. QED  BY <2>2, <2>3, <2>4, <2>5, <1>2 DEF Call
<1>3. CASE Step
  <2>1. todo # <<>>
    BY <1>3 DEF Step, Does, DoNew, DoAppend, DoInsert, DoRemove, DoShift, DoAdopt, DoFreeze,
                DoKeep, DoRelease, DoDrop, DoDealloc
  <2>2. PICK S, T : Ready(S, T) /\ Completes(Tail(todo), T)  BY <2>1, Readied
  <2>3. Heaped' /\ \E G : Holds(G)' /\ Completes(todo', G)  BY <2>2, <1>3, StepHolds
  <2>4. QED  BY <2>3 DEF IInv
<1>4. QED  BY <1>1, <1>2, <1>3 DEF Next

(* The inductive invariant: the heap is in order, and the rest of the call *)
(* is a program that can be finished from here, owning nothing at its end. *)
THEOREM Inductive ==
  ASSUME Retaining
  PROVE  Spec => []IInv
<1>1. Init => IInv  BY InitHolds
<1>2. IInv /\ [Next]_vars => IInv'  BY NextHolds
<1>3. QED  BY <1>1, <1>2, PTL DEF Spec
(* The type invariant, for every number of objects and every bound.        *)
THEOREM TypeCorrect ==
  ASSUME Retaining
  PROVE  Spec => []TypeOK
<1>1. IInv => TypeOK  BY DEF IInv, Heaped, Typed
<1>2. QED  BY <1>1, Inductive, PTL

(* Every reference is accounted for at every step of every call, whichever *)
(* steps failed: the counts are those of the owners EFRelease will hear    *)
(* from.                                                                   *)
THEOREM CountsAreRight ==
  ASSUME Retaining
  PROVE  Spec => []RefsAccounted
<1>1. IInv => RefsAccounted  BY DEF IInv, Heaped
<1>2. QED  BY <1>1, Inductive, PTL

(* What an array, a group or a file keeps is there, and so is what a       *)
(* client has.                                                             *)
THEOREM NothingDangles ==
  ASSUME Retaining
  PROVE  Spec => []NoDangling
<1>1. IInv => NoDangling
  <2> SUFFICES ASSUME IInv PROVE NoDangling
    OBVIOUS
  <2>1. Typed /\ TypeOK /\ RefsAccounted /\ Unburied  BY DEF IInv, Heaped, Typed
  <2>2. \A r \in Refs : refcount[r] > 0 => Live(r)  BY <2>1 DEF Unburied
  <2>3. \A r \in Refs : client[r] > 0 => Live(r)  BY <2>1, <2>2, Backed
  <2>4. ASSUME NEW a \in Refs, NEW i \in Nat, Place(a, i)
        PROVE  Live(items[a][i])
    <3>1. PICK x : x = items[a][i]  OBVIOUS
    <3>2. x \in Refs  BY <3>1, <2>1, <2>4, ItemsAreRefs DEF Place
    <3>3. refcount[x] > 0  BY <3>1, <3>2, <2>1, <2>4, Backed
    <3>4. QED  BY <3>1, <3>2, <3>3, <2>2
  <2>5. \A pl \in Places : Live(items[pl[1]][pl[2]])
    <3> SUFFICES ASSUME NEW pl \in Places PROVE Live(items[pl[1]][pl[2]])
      OBVIOUS
    <3>1. pl \in Refs \X Nat  BY <2>1, PlacesAre
    <3>2. PICK a \in Refs, i \in Nat : pl = <<a, i>>  BY <3>1
    <3>3. Place(a, i) /\ pl[1] = a /\ pl[2] = i  BY <3>2, <2>1, PlacesAre
    <3>4. QED  BY <3>3, <2>4
  <2>6. QED  BY <2>3, <2>5 DEF NoDangling
<1>2. QED  BY <1>1, Inductive, PTL

(* No step of any call touches an object that is not there, nor allocates  *)
(* one that is: a program only names what its ground reaches, and a        *)
(* teardown what is counted.                                               *)
THEOREM NothingUsedAfterFree ==
  ASSUME Retaining
  PROVE  Spec => []NoUseAfterFree
<1>1. IInv => NoUseAfterFree
  <2> SUFFICES ASSUME IInv, todo # <<>> PROVE NoUseAfterFree
    BY DEF NoUseAfterFree
  <2>1. PICK S, T : Ready(S, T)  BY Readied
  <2>2. /\ Typed /\ TypeOK /\ RefsAccounted /\ Unburied /\ Grounded(S) /\ step \in Steps
        /\ \A x \in Refs : Live(x) <=> kind[x] # "none"
        /\ \A x \in Refs : Reached(S, x) => refcount[x] > 0 /\ Live(x)
    BY <2>1, ReadyFacts
  <2>3. Allows(step, S, T) /\ S \in Grounds /\ Sound(S)  BY <2>1 DEF Ready
  <2>4. /\ S.own \subseteq Refs /\ S.fresh \subseteq Refs /\ S.bare \subseteq S.own
        /\ \A x \in S.own : Live(x)
        /\ \A x \in S.fresh : ~Live(x)
        /\ \A x \in Refs : <<x, "array">> \in S.is => Live(x)
    <3>1. S.own \subseteq Refs /\ S.fresh \subseteq Refs /\ S.bare \subseteq S.own
      BY <2>3 DEF Grounds, Sound
    <3>2. \A x \in S.own : Reached(S, x)  BY DEF Reached, Owner
    <3>3. \A x \in Refs : <<x, "array">> \in S.is => kind[x] = "array"
      BY <2>2 DEF Grounded, Kinds
    <3>4. \A x \in S.fresh : ~Live(x)  BY <2>2 DEF Grounded
    <3>5. QED  BY <3>1, <3>2, <3>3, <3>4, <2>2
  <2>5. CASE step.op = "new"
    <3>1. step.r \in S.fresh  BY <2>3, <2>5 DEF Allows, AllowsNew
    <3>2. QED  BY <3>1, <2>4, <2>5 DEF NoUseAfterFree
  <2>6. CASE step.op \in {"append", "insert"}
    <3>1. <<step.a, "array">> \in S.is /\ Reached(S, step.r)
      BY <2>3, <2>6 DEF Allows, AllowsPut
    <3>2. step.a \in Refs /\ step.r \in Refs  BY <2>2, <2>6, StepFields
    <3>3. QED  BY <3>1, <3>2, <2>2, <2>4, <2>6 DEF NoUseAfterFree
  <2>7. CASE step.op \in {"remove", "shift"}
    <3>1. <<step.a, "array">> \in S.is  BY <2>3, <2>7 DEF Allows, AllowsTake
    <3>2. step.a \in Refs  BY <2>2, <2>7, StepFields
    <3>3. QED  BY <3>1, <3>2, <2>4, <2>7 DEF NoUseAfterFree
  <2>8. CASE step.op = "adopt"
    <3>1. step.a \in S.own /\ step.r \in S.own  BY <2>3, <2>4, <2>8 DEF Allows, AllowsAdopt
    <3>2. QED  BY <3>1, <2>4, <2>8 DEF NoUseAfterFree
  <2>9. CASE step.op = "freeze"
    <3>1. step.a \in S.own  BY <2>3, <2>9 DEF Allows, AllowsFreeze
    <3>2. QED  BY <3>1, <2>4, <2>9 DEF NoUseAfterFree
  <2>10. CASE step.op \in {"keep", "release"}
    <3>1. step.r \in S.own  BY <2>3, <2>10 DEF Allows, AllowsKeep, AllowsRelease
    <3>2. QED  BY <3>1, <2>4, <2>10 DEF NoUseAfterFree
  <2>11. CASE step.op \in {"drop", "dealloc"}
    <3>1. step.r \in Refs  BY <2>2, <2>11, StepFields
    <3>2. PICK n : n = Len(todo)  OBVIOUS
    <3>3. n \in Nat /\ n > 0 /\ todo[1] = step /\ 1 \in 1 .. n
      BY <3>2, <2>2 DEF Typed, step
    <3>4. CASE step.op = "drop"
      <4>1. n - 1 \in 0 .. n - 1 /\ n - (n - 1) = 1  BY <3>3
      <4>2. n - 1 \in Drops(step.r)  BY <4>1, <3>2, <3>3, <3>4 DEF Drops
      <4>3. refcount[step.r] > 0  BY <4>2, <3>1, <2>2, Backed
      <4>4. Live(step.r)  BY <4>3, <3>1, <2>2 DEF Unburied
      <4>5. QED  BY <4>4, <3>4 DEF NoUseAfterFree
    <3>5. CASE step.op = "dealloc"
      <4>1. Buries(1, step.r)  BY <3>3, <3>5 DEF Buries
      <4>2. Live(step.r)  BY <4>1, <3>1, <3>2, <3>3, <2>2 DEF Unburied
      <4>3. QED  BY <4>2, <3>5 DEF NoUseAfterFree
    <3>6. QED  BY <3>4, <3>5, <2>11
  <2>12. QED
    BY <2>2, <2>5, <2>6, <2>7, <2>8, <2>9, <2>10, <2>11, StepFields
<1>2. QED  BY <1>1, Inductive, PTL

(* Between calls a group has one array, with the only reference to it, and *)
(* that array can grow and holds only pages.                               *)
THEOREM GroupsKeepToThemselves ==
  ASSUME Retaining
  PROVE  Spec => []GroupsArePrivate
<1>1. IInv => GroupsArePrivate
  <2> SUFFICES ASSUME IInv, todo = <<>>, NEW g \in Refs, kind[g] = "group"
               PROVE  /\ Len(items[g]) = 1
                      /\ kind[items[g][1]] = "array" /\ isMutable[items[g][1]]
                      /\ refcount[items[g][1]] = 1 /\ client[items[g][1]] = 0
                      /\ \A i \in 1 .. Len(items[items[g][1]]) :
                           kind[items[items[g][1]][i]] = "page"
    BY DEF GroupsArePrivate
  <2>1. Between  BY IdleFacts
  <2>2. refcount[g] > 0  BY <2>1 DEF Between, QuietAccounts, Live
  <2>3. PICK a : a = items[g][1]  OBVIOUS
  <2>4. Len(items[g]) = 1 /\ a \in Refs /\ PrivateArray(a)  BY <2>1, <2>2, <2>3 DEF Between
  <2>5. /\ kind[a] = "array" /\ isMutable[a] /\ refcount[a] = 1 /\ client[a] = 0
        /\ \A i \in Nat : Place(a, i) => kind[items[a][i]] = "page"
    BY <2>4 DEF PrivateArray
  <2>6. a \in Holders  BY <2>1, <2>4, <2>5 DEF Between
  <2>7. \A i \in 1 .. Len(items[a]) : i \in Nat /\ Place(a, i)
    BY <2>1, <2>4, <2>6, ItemsAreRefs DEF Between
  <2>8. \A i \in 1 .. Len(items[a]) : kind[items[a][i]] = "page"  BY <2>5, <2>7
  <2>9. QED  BY <2>3, <2>4, <2>5, <2>8
<1>2. QED  BY <1>1, Inductive, PTL

(* A client that has given up everything leaves an empty heap, as long as  *)
(* no array is put into an array: nothing keeps a file, so files go, then  *)
(* groups, then arrays, then pages.                                        *)
THEOREM NothingLeaks ==
  ASSUME Retaining, OnlyPages
  PROVE  Spec => []NoLeaks
<1>1. IInv => NoLeaks
  <2> SUFFICES ASSUME IInv, todo = <<>>, \A r \in Refs : client[r] = 0
               PROVE  \A r \in Refs : ~Live(r)
    BY DEF NoLeaks
  <2>1. Between  BY IdleFacts
  <2>2. /\ \A r \in Refs : refcount[r] = client[r] + local[r] + Cardinality(Kept(Holders, items, r))
        /\ \A r \in Refs : Live(r) <=> refcount[r] > 0
        /\ \A r \in Refs : local[r] = 0
        /\ \A a \in Refs, i \in Nat : Place(a, i) <=> a \in Holders /\ i \in 1 .. Len(items[a])
    BY <2>1 DEF Between, QuietAccounts
  <2>3. /\ \A a \in Refs, i \in Nat : kind[a] = "array" /\ Place(a, i) => kind[items[a][i]] = "page"
        /\ \A g \in Refs : kind[g] = "group" /\ refcount[g] > 0 =>
             Len(items[g]) = 1 /\ kind[items[g][1]] = "array"
        /\ \A f \in Refs : kind[f] = "file" /\ refcount[f] > 0 =>
             Len(items[f]) = 1 /\ kind[items[f][1]] = "group"
    BY <2>1 DEF Between, ArraysOfPages, PrivateArray
  <2>4. ASSUME NEW r \in Refs, Live(r)
        PROVE  \E a \in Refs, i \in Nat : Place(a, i) /\ items[a][i] = r
    <3>1. PICK K : K = Kept(Holders, items, r)  OBVIOUS
    <3>2. K # {}
      <4> SUFFICES ASSUME K = {} PROVE FALSE
        OBVIOUS
      <4>1. Cardinality(K) = 0  BY FS_EmptySet
      <4>2. refcount[r] = 0 + 0 + 0  BY <4>1, <3>1, <2>2
      <4>3. QED  BY <4>2, <2>2, <2>4
    <3>3. PICK pl : pl \in K  BY <3>2
    <3>4. PICK a \in Holders, i \in Nat : pl = <<a, i>> /\ i \in 1 .. Len(items[a]) /\ items[a][i] = r
      BY <3>1, <3>3 DEF Kept
    <3>5. a \in Refs  BY DEF Holders
    <3>6. QED  BY <3>4, <3>5, <2>2
  <2>5. ASSUME NEW a \in Refs, NEW i \in Nat, Place(a, i)
        PROVE  /\ Live(a) /\ kind[a] \in {"array", "group", "file"}
               /\ kind[a] = "array" => kind[items[a][i]] = "page"
               /\ kind[a] = "group" => kind[items[a][i]] = "array"
               /\ kind[a] = "file" => kind[items[a][i]] = "group"
    <3>1. /\ a \in Holders /\ i \in 1 .. Len(items[a])
          /\ Live(a) /\ refcount[a] > 0 /\ Retains(a)
      BY <2>2, <2>5 DEF Holders, Keeping
    <3>2. kind[a] \in {"array", "group", "file"}
      BY <3>1, <2>1 DEF Retains, ArraysRetain, Between
    <3>3. kind[a] = "array" => kind[items[a][i]] = "page"  BY <2>3, <2>5
    <3>4. ASSUME kind[a] \in {"group", "file"} PROVE i = 1
      <4>1. Len(items[a]) = 1  BY <3>1, <3>4, <2>3
      <4>2. QED  BY <4>1, <3>1
    <3>5. QED  BY <3>1, <3>2, <3>3, <3>4, <2>3
  <2>6. \A r \in Refs : Live(r) => kind[r] \in {"page", "array", "group", "file"}
    BY <2>1 DEF Between, TypeOK, Live
  <2>7. \A r \in Refs : ~(Live(r) /\ kind[r] = "file")  BY <2>4, <2>5
  <2>8. \A r \in Refs : ~(Live(r) /\ kind[r] = "group")  BY <2>4, <2>5, <2>7
  <2>9. \A r \in Refs : ~(Live(r) /\ kind[r] = "array")  BY <2>4, <2>5, <2>8
  <2>10. \A r \in Refs : ~(Live(r) /\ kind[r] = "page")  BY <2>4, <2>5, <2>7, <2>8, <2>9
  <2>11. QED  BY <2>6, <2>7, <2>8, <2>9, <2>10
<1>2. QED  BY <1>1, Inductive, PTL

=============================================================================
