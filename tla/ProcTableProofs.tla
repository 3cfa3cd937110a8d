-------------------------- MODULE ProcTableProofs ---------------------------
(***************************************************************************)
(* The sibling lists of ProcLinks stay doubly linked and do_wait meets all *)
(* children, get_pid returns a unique pid, and the process table keeps     *)
(* what its two parts keep, for any finite set of processes, any           *)
(* MAX_PROCESS and any MAX_PID.                                            *)
(***************************************************************************)
EXTENDS ProcTable, FiniteSetTheorems, WellFoundedInduction, TLAPS

(* The family links.                                                       *)

(* The inductive invariant.                                                *)
LinksInv ==
  /\ TypeOK
  /\ DoublyLinked
  /\ OnlyLiveHaveKids
  /\ state[initproc] = "live"
  /\ exiting # NULL => state[exiting] = "zombie"

(* The initial state satisfies the invariant.                              *)
LEMMA InitLinks == Init => LinksInv
BY LinksAssumption DEF Init, LinksInv, TypeOK, DoublyLinked, OnlyLiveHaveKids, Linked,
   Stale, Proc, Ptr, Nulls

(* Every step keeps the invariant.                                         *)
LEMMA NextLinks == LinksInv /\ [Next]_vars => LinksInv'
<1> SUFFICES ASSUME LinksInv, [Next]_vars PROVE LinksInv'
  OBVIOUS
<1> USE LinksAssumption DEF LinksInv, TypeOK, Proc, Ptr
<1>1. ASSUME NEW p \in Proc, do_exit(p) PROVE LinksInv'
  BY <1>1 DEF do_exit, DoublyLinked, OnlyLiveHaveKids, Linked, Stale
<1>2. ASSUME NEW c \in Proc, do_wait(c) PROVE LinksInv'
  <2>1. TypeOK' /\ state'[initproc] = "live" /\ exiting' = NULL
    BY <1>2 DEF do_wait, remove_links, Store
  <2>2. OnlyLiveHaveKids'
    BY <1>2 DEF do_wait, remove_links, Store, DoublyLinked, OnlyLiveHaveKids, Linked, Stale
  <2>3. DoublyLinked'
    BY <1>2, SMTT(40) DEF do_wait, remove_links, Store, DoublyLinked, OnlyLiveHaveKids, Linked, Stale
  <2> QED BY <2>1, <2>2, <2>3
<1>3. ASSUME NEW p \in Proc, NEW c \in Proc, do_fork(p, c) PROVE LinksInv'
  <2>1. TypeOK' /\ state'[initproc] = "live" /\ exiting' = NULL
    BY <1>3 DEF do_fork, LinkFirst, Store
  <2>2. OnlyLiveHaveKids'
    BY <1>3 DEF do_fork, LinkFirst, Store, DoublyLinked, OnlyLiveHaveKids, Linked, Stale
  <2>3. DoublyLinked'
    BY <1>3, SMTT(40) DEF do_fork, LinkFirst, Store, DoublyLinked, OnlyLiveHaveKids, Linked, Stale
  <2> QED BY <2>1, <2>2, <2>3
<1>4. ASSUME Adopt PROVE LinksInv'
  <2>1. TypeOK' /\ state'[initproc] = "live" /\ (exiting' # NULL => state'[exiting'] = "zombie")
    BY <1>4 DEF Adopt, LinkFirst, Store
  <2>2. OnlyLiveHaveKids'
    BY <1>4 DEF Adopt, LinkFirst, Store, DoublyLinked, OnlyLiveHaveKids, Linked, Stale
  <2> DEFINE c == cptr[exiting]  h == cptr[initproc]  o == optr[c]
  <2>a. exiting \in Proc \ {initproc} /\ c \in Proc /\ initproc \in Proc
    BY <1>4 DEF Adopt
  <2>b. Linked(c) /\ parent[c] = exiting
    BY <1>4, <2>a DEF Adopt, DoublyLinked
  <2>c. h \in Ptr /\ (h # NULL => Linked(h) /\ parent[h] = initproc)
    BY <2>a DEF DoublyLinked
  <2>d. o \in Ptr /\ (o # NULL => Linked(o) /\ parent[o] = exiting /\ yptr[o] = c)
    BY <2>a, <2>b DEF DoublyLinked
  <2>e. o # c
    BY <2>a, <2>b, <1>4 DEF DoublyLinked, Adopt
  <2>3. /\ exiting \in Proc \ {initproc} /\ Linked(c) /\ c \in Proc /\ parent[c] = exiting
        /\ h \in Ptr \ {c} /\ (h # NULL => Linked(h) /\ parent[h] = initproc)
        /\ o \in Ptr /\ o # c /\ (o # NULL => o # h)
        /\ o # NULL => Linked(o) /\ parent[o] = exiting /\ yptr[o] = c
    BY <2>a, <2>b, <2>c, <2>d, <2>e
  <2>4. /\ state' = state /\ exiting' = exiting
        /\ \A d \in Proc :
             /\ parent'[d] = IF d = c THEN initproc ELSE parent[d]
             /\ optr'[d] = IF d = c THEN h ELSE optr[d]
             /\ yptr'[d] = IF d = h THEN c ELSE IF d = c THEN NULL ELSE yptr[d]
             /\ cptr'[d] = IF d = initproc THEN c ELSE IF d = exiting THEN o ELSE cptr[d]
    BY <1>4, <2>3 DEF Adopt, LinkFirst, Store
  <2> HIDE DEF c, h, o
  <2>5. ASSUME NEW d \in Proc, Linked(d)' PROVE
          /\ parent'[d] \in Proc
          /\ optr'[d] # NULL =>
               /\ Linked(optr[d])' /\ parent'[optr'[d]] = parent'[d] /\ yptr'[optr'[d]] = d
          /\ (yptr'[d] # NULL /\ ~Stale(d)') =>
               /\ Linked(yptr[d])' /\ parent'[yptr'[d]] = parent'[d] /\ optr'[yptr'[d]] = d
          /\ (yptr'[d] = NULL \/ Stale(d)') => cptr'[parent'[d]] = d
    <3>1. Linked(d) BY <2>4, <2>5 DEF Linked
    <3>2. CASE d = c BY <2>3, <2>4, <3>1, <3>2 DEF DoublyLinked, Linked, Stale
    <3>3. CASE d = h BY <2>3, <2>4, <3>1, <3>3 DEF DoublyLinked, Linked, Stale, h
    <3>4. CASE d = o BY <2>3, <2>4, <3>1, <3>4 DEF DoublyLinked, Linked, Stale, c, o
    <3>5. CASE d \notin {c, h, o}
      BY <2>3, <2>4, <3>1, <3>5 DEF DoublyLinked, Linked, Stale, c, h, o
    <3> QED BY <3>2, <3>3, <3>4, <3>5
  <2>6. ASSUME NEW p \in Proc, state'[p] # "free", cptr'[p] # NULL PROVE
          /\ Linked(cptr[p])' /\ parent'[cptr'[p]] = p
          /\ yptr'[cptr'[p]] = NULL \/ Stale(cptr[p])'
          /\ \A d \in Proc : Linked(d)' => optr'[d] # cptr'[p]
    <3>1. CASE p = initproc BY <2>3, <2>4, <2>6, <3>1 DEF DoublyLinked, Linked, Stale, c, h
    <3>2. CASE p = exiting BY <2>3, <2>4, <2>6, <3>2 DEF DoublyLinked, Linked, Stale
    <3>3. CASE p \notin {initproc, exiting}
      BY <2>3, <2>4, <2>6, <3>3 DEF DoublyLinked, Linked, Stale, c, h
    <3> QED BY <3>1, <3>2, <3>3
  <2>7. DoublyLinked'
    BY <2>5, <2>6 DEF DoublyLinked
  <2> QED BY <2>1, <2>2, <2>7
<1>5. ASSUME ExitDone PROVE LinksInv'
  BY <1>5 DEF ExitDone, DoublyLinked, OnlyLiveHaveKids, Linked, Stale
<1>6. CASE UNCHANGED vars
  BY <1>6 DEF vars, DoublyLinked, OnlyLiveHaveKids, Linked, Stale
<1> QED
  BY <1>1, <1>2, <1>3, <1>4, <1>5, <1>6 DEF Next

(* No order of forks, exits and waits breaks a sibling list: the pointers  *)
(* of set_links, remove_links and the loop of do_exit agree with one       *)
(* another, and only live processes have children.                         *)
THEOREM ListsAreSound == Spec => [](DoublyLinked /\ OnlyLiveHaveKids)
<1>1. LinksInv => DoublyLinked /\ OnlyLiveHaveKids
  BY DEF LinksInv
<1> QED
  BY <1>1, InitLinks, NextLinks, PTL DEF Spec

-----------------------------------------------------------------------------
(* No process comes behind itself: every set of linked processes has one   *)
(* whose older sibling is not in it.                                       *)
LinkedProcs == {c \in Proc : Linked(c)}

Ordered == \A S \in SUBSET LinkedProcs : S # {} => \E c \in S : optr[c] \notin S

LEMMA InitOrdered == Init => Ordered
BY LinksAssumption DEF Init, Ordered, LinkedProcs, Linked, Proc

(* A process moves to the head of a list nobody's optr leads to.           *)
LEMMA HeadKeepsOrder ==
  ASSUME Ordered, NEW c \in LinkedProcs', NEW h, h # c,
         LinkedProcs' \subseteq LinkedProcs \cup {c},
         optr'[c] = h,
         \A d \in LinkedProcs' : d # c => optr'[d] = optr[d] /\ optr[d] # c
  PROVE  Ordered'
<1> SUFFICES ASSUME NEW S \in SUBSET LinkedProcs', S # {}
             PROVE  \E d \in S : optr'[d] \notin S
  BY DEF Ordered
<1> DEFINE T == S \ {c}
<1>1. CASE T = {}
  <2>1. S = {c}
    BY <1>1
  <2> QED
    BY <2>1
<1>2. CASE T # {}
  <2>1. T \in SUBSET LinkedProcs
    OBVIOUS
  <2>2. PICK d \in T : optr[d] \notin T
    BY <1>2, <2>1 DEF Ordered
  <2> QED
    BY <2>1, <2>2
<1> QED
  BY <1>1, <1>2

LEMMA NextOrdered == LinksInv /\ Ordered /\ [Next]_vars => Ordered'
<1> SUFFICES ASSUME LinksInv, Ordered, [Next]_vars PROVE Ordered'
  OBVIOUS
<1> USE LinksAssumption
<1>1. ASSUME optr' = optr, \A c \in Proc : state'[c] # "free" => state[c] # "free"
      PROVE  Ordered'
  BY <1>1 DEF Ordered, LinkedProcs, Linked
<1>2. ASSUME NEW p \in Proc, do_exit(p) PROVE Ordered'
  BY <1>1, <1>2 DEF do_exit, LinksInv, TypeOK
<1>3. ASSUME NEW p \in Proc, NEW c \in Proc, do_fork(p, c) PROVE Ordered'
  <2> DEFINE h == Store(cptr, c, NULL)[p]
  <2>1. /\ state \in [Proc -> {"free", "live", "zombie"}] /\ state[c] = "free"
        /\ state[p] = "live" /\ c # initproc /\ c # NULL /\ p # c
        /\ state' = [state EXCEPT ![c] = "live"]
        /\ optr' = Store(optr, c, h)
    BY <1>3 DEF do_fork, LinkFirst, LinksInv, TypeOK, Proc
  <2>2. h = cptr[p]
    BY <2>1 DEF Store
  <2>3. h # c
    BY <2>1, <2>2 DEF LinksInv, DoublyLinked, Linked
  <2> HIDE DEF h
  <2>4. c \in LinkedProcs' /\ LinkedProcs' = LinkedProcs \cup {c}
    BY <2>1 DEF LinkedProcs, Linked
  <2>5. \A d \in LinkedProcs' : d # c => optr'[d] = optr[d] /\ optr[d] # c
    BY <2>1, <2>4 DEF LinksInv, DoublyLinked, Linked, LinkedProcs, Store
  <2>6. optr'[c] = h
    BY <2>1 DEF Store
  <2> QED
    BY <2>3, <2>4, <2>5, <2>6, HeadKeepsOrder
<1>4. CASE Adopt
  <2> DEFINE c == cptr[exiting]  h == Store(cptr, exiting, optr[c])[initproc]
  <2>1. /\ c \in Proc /\ exiting \in Proc /\ state[exiting] = "zombie" /\ state[initproc] = "live"
        /\ state' = state
        /\ optr' = Store(optr, c, h)
    BY <1>4 DEF Adopt, LinkFirst, LinksInv, TypeOK, Ptr
  <2>2. h = cptr[initproc] /\ initproc # exiting
    BY <2>1 DEF Store, Proc
  <2>3. c \in LinkedProcs /\ parent[c] = exiting
    BY <1>4, <2>1 DEF LinksInv, DoublyLinked, LinkedProcs, Adopt
  <2>4. h # c
    <3>1. initproc \in Proc /\ state[initproc] # "free" /\ (h # NULL => parent[h] = initproc)
      BY <2>1, <2>2 DEF LinksInv, DoublyLinked, Proc
    <3>2. c # NULL
      BY <1>4 DEF Adopt
    <3> QED
      BY <2>2, <2>3, <3>1, <3>2
  <2>5. \A d \in LinkedProcs : optr[d] # c
    BY <1>4, <2>1 DEF LinksInv, DoublyLinked, LinkedProcs, Adopt
  <2> HIDE DEF c, h
  <2>6. LinkedProcs' = LinkedProcs
    BY <2>1 DEF LinkedProcs, Linked
  <2>7. optr'[c] = h /\ \A d \in LinkedProcs : d # c => optr'[d] = optr[d]
    BY <2>1 DEF Store, LinkedProcs
  <2> QED
    BY <2>3, <2>4, <2>5, <2>6, <2>7, HeadKeepsOrder
<1>5. ASSUME NEW c \in Proc, do_wait(c) PROVE Ordered'
  <2> DEFINE y == yptr[c]  o == optr[c]
  <2>1. /\ state \in [Proc -> {"free", "live", "zombie"}]
        /\ c # initproc /\ state[c] = "zombie" /\ ~Stale(c) /\ y \in Ptr
        /\ state' = [state EXCEPT ![c] = "free"]
        /\ optr' = Store(optr, y, o)
    BY <1>5 DEF do_wait, remove_links, LinksInv, TypeOK, Stale
  <2>2. c \in LinkedProcs /\ LinkedProcs' = LinkedProcs \ {c}
    BY <2>1 DEF LinkedProcs, Linked
  <2>3. y # NULL => y \in LinkedProcs /\ optr[y] = c
    BY <2>1, <2>2 DEF LinksInv, DoublyLinked, LinkedProcs, Ptr
  <2> HIDE DEF y, o
  <2>4. \A d \in LinkedProcs : optr'[d] = IF d = y THEN o ELSE optr[d]
    BY <2>1 DEF Store, LinkedProcs
  <2> SUFFICES ASSUME NEW S \in SUBSET LinkedProcs', S # {}
               PROVE  \E d \in S : optr'[d] \notin S
    BY DEF Ordered
  <2>5. CASE y \notin S
    <3>1. S \in SUBSET LinkedProcs
      BY <2>2
    <3>2. PICK d \in S : optr[d] \notin S
      BY <3>1 DEF Ordered
    <3> QED
      BY <2>4, <2>5, <3>1, <3>2
  <2>6. CASE y \in S
    <3> DEFINE T == S \cup {c}
    <3>1. T \in SUBSET LinkedProcs /\ T # {}
      BY <2>2
    <3>2. PICK d \in T : optr[d] \notin T
      BY <3>1 DEF Ordered
    <3>3. y \in LinkedProcs /\ optr[y] = c
      BY <2>2, <2>3, <2>6, <3>1 DEF LinkedProcs, Proc
    <3>4. d # y
      BY <3>2, <3>3
    <3>5. CASE d = c
      <4>1. optr'[y] = o /\ o = optr[c]
        BY <2>4, <3>3 DEF o
      <4> QED
        BY <2>6, <3>2, <3>5, <4>1
    <3>6. CASE d # c
      <4>1. d \in S /\ optr'[d] = optr[d]
        BY <2>4, <3>1, <3>2, <3>4, <3>6
      <4> QED
        BY <3>2, <4>1
    <3> QED
      BY <3>5, <3>6
  <2> QED
    BY <2>5, <2>6
<1>6. CASE ExitDone \/ UNCHANGED vars
  BY <1>1, <1>6 DEF ExitDone, vars
<1> QED
  BY <1>2, <1>3, <1>4, <1>5, <1>6 DEF Next

-----------------------------------------------------------------------------
(* Induction over the natural numbers, in a form without operators.        *)
LEMMA LeastNat ==
  ASSUME NEW T, T \subseteq Nat, T # {}
  PROVE  \E x \in T : \A y \in T : x <= y
<1> DEFINE R == OpToRel(<, Nat)
<1>1. IsWellFoundedOn(R, Nat)
  BY NatLessThanWellFounded
<1>2. \E x \in T : \A y \in T : ~(<<y, x>> \in R)
  <2> HIDE DEF R
  <2> QED
    BY <1>1, WFMin
<1>3. \A x, y \in Nat : ~(<<y, x>> \in R) => x <= y
  BY DEF OpToRel
<1> HIDE DEF R
<1>4. \A x \in T : x \in Nat
  OBVIOUS
<1> QED
  BY <1>2, <1>3, <1>4, Zenon

LEMMA SetInduction ==
  ASSUME NEW S, 0 \in S, \A n \in Nat : n \in S => n + 1 \in S
  PROVE  Nat \subseteq S
<1> SUFFICES ASSUME Nat \ S # {} PROVE FALSE
  OBVIOUS
<1>1. PICK x \in Nat \ S : \A y \in Nat \ S : x <= y
  BY LeastNat
<1>2. x # 0 /\ x - 1 \in Nat /\ x - 1 \notin Nat \ S
  BY <1>1
<1> QED
  BY <1>1, <1>2

(* The recursion of Kid defines a function.                                *)
IsWalk(f, first, next, n) ==
  f = [i \in 0..n |-> IF i = 0 THEN first
                      ELSE IF f[i - 1] = NULL THEN NULL ELSE next[f[i - 1]]]

LEMMA WalkExists ==
  ASSUME NEW first, NEW next, NEW n \in Nat
  PROVE  \E f : IsWalk(f, first, next, n)
<1> DEFINE S == {i \in Nat : \E f : IsWalk(f, first, next, i)}
<1>1. 0 \in S
  <2> DEFINE f == [i \in 0..0 |-> first]
  <2>1. IsWalk(f, first, next, 0)
    BY DEF IsWalk
  <2> QED
    BY <2>1
<1>2. ASSUME NEW i \in Nat, i \in S PROVE i + 1 \in S
  <2>1. PICK f : IsWalk(f, first, next, i)
    BY <1>2
  <2> DEFINE e == IF f[i] = NULL THEN NULL ELSE next[f[i]]
             g == [j \in 0..i + 1 |-> IF j = i + 1 THEN e ELSE f[j]]
             h == [j \in 0..i + 1 |-> IF j = 0 THEN first
                      ELSE IF g[j - 1] = NULL THEN NULL ELSE next[g[j - 1]]]
  <2>2. \A j \in 0..i : f[j] = IF j = 0 THEN first
                        ELSE IF f[j - 1] = NULL THEN NULL ELSE next[f[j - 1]]
    BY <2>1 DEF IsWalk
  <2>3. ASSUME NEW j \in 0..i + 1 PROVE g[j] = h[j]
    <3>1. CASE j = 0
      BY <2>2, <3>1
    <3>2. CASE j \in 1..i
      <4>1. j \in 0..i /\ j # i + 1 /\ j - 1 \in 0..i + 1 /\ j - 1 # i + 1 /\ j # 0
        BY <3>2
      <4>2. g[j] = f[j] /\ g[j - 1] = f[j - 1]
        BY <4>1
      <4> QED
        BY <2>2, <4>1, <4>2
    <3>3. CASE j = i + 1
      <4>1. g[j] = e /\ j - 1 = i /\ g[i] = f[i] /\ j # 0
        BY <3>3
      <4> QED
        BY <4>1
    <3> QED
      BY <3>1, <3>2, <3>3
  <2>4. g = h
    BY <2>3
  <2>5. IsWalk(g, first, next, i + 1)
    BY <2>4 DEF IsWalk
  <2> QED
    BY <2>5
<1>3. Nat \subseteq S
  <2> HIDE DEF S
  <2> QED
    BY <1>1, <1>2, SetInduction
<1> QED
  BY <1>3

LEMMA KidIsWalk ==
  ASSUME NEW p, Cardinality(Proc) \in Nat
  PROVE  IsWalk(Kid(p), cptr[p], optr, Cardinality(Proc))
<1>1. \E f : IsWalk(f, cptr[p], optr, Cardinality(Proc))
  <2> DEFINE first == cptr[p]  n == Cardinality(Proc)
  <2>1. n \in Nat
    OBVIOUS
  <2> HIDE DEF first, n
  <2>2. \E f : IsWalk(f, first, optr, n)
    BY <2>1, WalkExists
  <2> QED
    BY <2>2 DEF first, n
<1> QED
  BY <1>1 DEF Kid, IsWalk

-----------------------------------------------------------------------------
(* A set of processes that holds the younger sibling of each of its        *)
(* members, none of them the youngest, is empty: yptr would permute it.    *)
LEMMA SomeoneIsYoungest ==
  ASSUME LinksInv, Ordered, NEW T \in SUBSET LinkedProcs,
         \A c \in T : yptr[c] \in T /\ optr[yptr[c]] = c
  PROVE  T = {}
<1> SUFFICES ASSUME T # {} PROVE FALSE
  OBVIOUS
<1> DEFINE f == [c \in T |-> yptr[c]]
<1>1. IsFiniteSet(T)
  <2>1. IsFiniteSet(Proc)
    <3>1. Proc = Users \cup {initproc}
      BY DEF Proc
    <3> QED
      BY <3>1, LinksAssumption, FS_AddElement
  <2> QED
    BY <2>1, FS_Subset DEF LinkedProcs
<1>2. f \in Injection(T, T)
  BY DEF Injection, IsInjective
<1>3. f \in Surjection(T, T)
  <2> HIDE DEF f
  <2> QED
    BY <1>1, <1>2, FS_Injection
<1>4. \A c \in T : \E d \in T : yptr[d] = c
  BY <1>3 DEF Surjection
<1>5. \A c \in T : optr[c] \in T
  BY <1>4
<1> QED
  BY <1>5 DEF Ordered

KidsOf(p) == {c \in Proc : Linked(c) /\ parent[c] = p}

(* Along the walk there are only children of p, and NULL is its end.       *)
LEMMA WalkMeetsKids ==
  ASSUME LinksInv, NEW p \in Proc, state[p] # "free", NEW n \in Nat, NEW w,
         IsWalk(w, cptr[p], optr, n)
  PROVE  \A i \in 0..n : w[i] \in KidsOf(p) \cup {NULL}
<1> DEFINE S == {i \in Nat : i <= n => w[i] \in KidsOf(p) \cup {NULL}}
<1>0. \A i \in 0..n : w[i] = IF i = 0 THEN cptr[p]
                             ELSE IF w[i - 1] = NULL THEN NULL ELSE optr[w[i - 1]]
  BY DEF IsWalk
<1>1. 0 \in S
  BY <1>0 DEF LinksInv, DoublyLinked, TypeOK, Ptr, KidsOf
<1>2. ASSUME NEW i \in Nat, i \in S PROVE i + 1 \in S
  <2> SUFFICES ASSUME i + 1 <= n PROVE w[i + 1] \in KidsOf(p) \cup {NULL}
    OBVIOUS
  <2>1. w[i + 1] = IF w[i] = NULL THEN NULL ELSE optr[w[i]]
    <3>1. i + 1 \in 0..n /\ i + 1 # 0 /\ (i + 1) - 1 = i
      OBVIOUS
    <3> QED
      BY <1>0, <3>1
  <2>2. w[i] \in KidsOf(p) \cup {NULL}
    BY <1>2
  <2> QED
    BY <2>1, <2>2, LinksAssumption DEF LinksInv, DoublyLinked, TypeOK, Ptr, KidsOf
<1>3. Nat \subseteq S
  <2> HIDE DEF S
  <2> QED
    BY <1>1, <1>2, SetInduction
<1> QED
  BY <1>3

(* Once the walk has met NULL it stays there.                              *)
LEMMA WalkStaysNull ==
  ASSUME NEW first, NEW next, NEW n \in Nat, NEW w, IsWalk(w, first, next, n),
         NEW m \in 0..n, w[m] = NULL
  PROVE  w[n] = NULL
<1> DEFINE S == {i \in Nat : m + i <= n => w[m + i] = NULL}
<1>0. \A i \in 0..n : w[i] = IF i = 0 THEN first
                             ELSE IF w[i - 1] = NULL THEN NULL ELSE next[w[i - 1]]
  BY DEF IsWalk
<1>1. 0 \in S
  OBVIOUS
<1>2. ASSUME NEW i \in Nat, i \in S PROVE i + 1 \in S
  <2> SUFFICES ASSUME m + (i + 1) <= n PROVE w[m + (i + 1)] = NULL
    OBVIOUS
  <2>1. m + (i + 1) \in 0..n /\ m + (i + 1) # 0 /\ (m + (i + 1)) - 1 = m + i
    OBVIOUS
  <2>2. w[m + i] = NULL
    BY <1>2
  <2> QED
    BY <1>0, <2>1, <2>2
<1>3. Nat \subseteq S
  <2> HIDE DEF S
  <2> QED
    BY <1>1, <1>2, SetInduction
<1>4. n - m \in S /\ m + (n - m) = n
  BY <1>3
<1> QED
  BY <1>4

(* A walk with as many steps as there are processes has come to its end.   *)
LEMMA WalkEnds ==
  ASSUME LinksInv, Ordered, NEW p \in Proc, state[p] # "free",
         NEW n \in Nat, n = Cardinality(Proc), NEW w, IsWalk(w, cptr[p], optr, n)
  PROVE  w[n] = NULL
<1> SUFFICES ASSUME w[n] # NULL PROVE FALSE
  OBVIOUS
<1>1. \A i \in 0..n : w[i] # NULL
  BY WalkStaysNull
<1>2. \A i \in 0..n : w[i] \in KidsOf(p)
  BY <1>1, WalkMeetsKids
<1>3. \A i \in 0..n - 1 : w[i + 1] = optr[w[i]]
  <2> SUFFICES ASSUME NEW i \in 0..n - 1 PROVE w[i + 1] = optr[w[i]]
    OBVIOUS
  <2>1. i \in 0..n /\ i + 1 \in 0..n /\ i + 1 # 0 /\ (i + 1) - 1 = i
    OBVIOUS
  <2>2. \A j \in 0..n : w[j] = IF j = 0 THEN cptr[p]
                               ELSE IF w[j - 1] = NULL THEN NULL ELSE optr[w[j - 1]]
    BY DEF IsWalk
  <2> QED
    BY <1>1, <2>1, <2>2
<1>4. \A i, j \in 0..n : i < j => w[i] # w[j]
  <2> SUFFICES ASSUME NEW i \in 0..n, NEW j \in 0..n, i < j, w[i] = w[j] PROVE FALSE
    OBVIOUS
  <2> DEFINE C == {w[m] : m \in i..j - 1}
  <2>1. C \in SUBSET LinkedProcs /\ C # {}
    <3>1. \A m \in i..j - 1 : m \in 0..n
      OBVIOUS
    <3>2. i \in i..j - 1
      OBVIOUS
    <3> QED
      BY <1>2, <3>1, <3>2 DEF KidsOf, LinkedProcs
  <2>2. ASSUME NEW m \in i..j - 1 PROVE optr[w[m]] \in C
    <3>1. m \in 0..n - 1 /\ optr[w[m]] = w[m + 1]
      BY <1>3
    <3>2. CASE m = j - 1
      <4>1. m + 1 = j /\ i \in i..j - 1
        BY <3>2
      <4> QED
        BY <3>1, <4>1
    <3>3. CASE m # j - 1
      <4>1. m + 1 \in i..j - 1
        BY <3>3
      <4> QED
        BY <3>1, <4>1
    <3> QED
      BY <3>2, <3>3
  <2> QED
    BY <2>1, <2>2 DEF Ordered
<1> DEFINE f == [i \in 0..n |-> w[i]]
<1>5. IsFiniteSet(Proc)
  <2>1. Proc = Users \cup {initproc}
    BY DEF Proc
  <2> QED
    BY <2>1, LinksAssumption, FS_AddElement
<1>6. f \in [0..n -> Proc]
  BY <1>2 DEF KidsOf
<1>7. IsFiniteSet(0..n) /\ Cardinality(0..n) = n + 1
  <2>1. 0 \in Int /\ n \in Int /\ ~(0 > n) /\ (n - 0) + 1 = n + 1
    OBVIOUS
  <2> QED
    BY <2>1, FS_Interval
<1>8. \E x, y \in 0..n : x # y /\ f[x] = f[y]
  <2>1. Cardinality(Proc) < Cardinality(0..n)
    BY <1>7
  <2> HIDE DEF f
  <2> QED
    BY <1>5, <1>6, <1>7, <2>1, FS_PigeonHole
<1> QED
  BY <1>4, <1>8

LEMMA InvGivesKids == LinksInv /\ Ordered => KidsExact
<1> SUFFICES ASSUME LinksInv, Ordered, exiting = NULL
             PROVE  /\ \A c \in Proc : Linked(c) => state[parent[c]] = "live"
                    /\ \A p \in Proc : state[p] # "free" =>
                         /\ Kid(p)[Cardinality(Proc)] = NULL
                         /\ {Kid(p)[n] : n \in 0..Cardinality(Proc)} \ {NULL} = KidsOf(p)
  BY DEF KidsExact, KidsOf
<1>1. IsFiniteSet(Proc) /\ Cardinality(Proc) \in Nat
  <2>1. Proc = Users \cup {initproc}
    BY DEF Proc
  <2>2. IsFiniteSet(Proc)
    BY <2>1, LinksAssumption, FS_AddElement
  <2> QED
    BY <2>2, FS_CardinalityType
<1>2. \A c \in LinkedProcs :
        /\ yptr[c] = NULL => cptr[parent[c]] = c
        /\ yptr[c] # NULL => /\ yptr[c] \in LinkedProcs /\ parent[yptr[c]] = parent[c]
                             /\ optr[yptr[c]] = c
        /\ parent[c] \in Proc
  BY DEF LinksInv, DoublyLinked, LinkedProcs, Stale, TypeOK, Ptr
<1>3. ASSUME NEW c \in Proc, Linked(c) PROVE state[parent[c]] = "live"
  <2> DEFINE p == parent[c]
  <2>1. p \in Proc
    BY <1>2, <1>3 DEF LinkedProcs
  <2>2. CASE cptr[p] = NULL
    <3>1. KidsOf(p) \in SUBSET LinkedProcs
      BY DEF KidsOf, LinkedProcs
    <3>2. \A d \in KidsOf(p) : yptr[d] \in KidsOf(p) /\ optr[yptr[d]] = d
      <4> SUFFICES ASSUME NEW d \in KidsOf(p)
                   PROVE  yptr[d] \in KidsOf(p) /\ optr[yptr[d]] = d
        OBVIOUS
      <4>1. d \in LinkedProcs /\ parent[d] = p /\ d # NULL
        BY LinksAssumption DEF KidsOf, LinkedProcs, Proc
      <4>2. yptr[d] # NULL
        BY <1>2, <2>2, <4>1
      <4> QED
        BY <1>2, <4>1, <4>2 DEF KidsOf, LinkedProcs
    <3>3. KidsOf(p) = {}
      BY <3>1, <3>2, SomeoneIsYoungest
    <3> QED
      BY <1>3, <3>3 DEF KidsOf
  <2>3. CASE cptr[p] # NULL
    <3>1. p # exiting
      BY <2>1, LinksAssumption DEF Proc
    <3> QED
      BY <2>1, <2>3, <3>1 DEF LinksInv, OnlyLiveHaveKids
  <2> QED
    BY <2>2, <2>3
<1>4. ASSUME NEW p \in Proc, state[p] # "free"
      PROVE  /\ Kid(p)[Cardinality(Proc)] = NULL
             /\ {Kid(p)[n] : n \in 0..Cardinality(Proc)} \ {NULL} = KidsOf(p)
  <2> DEFINE n == Cardinality(Proc)  w == Kid(p)
             M == {w[i] : i \in 0..n} \ {NULL}
  <2>1. n \in Nat /\ n = Cardinality(Proc) /\ IsWalk(w, cptr[p], optr, n)
    BY <1>1, KidIsWalk
  <2>0. {Kid(p)[i] : i \in 0..Cardinality(Proc)} \ {NULL} = M
    OBVIOUS
  <2> HIDE DEF n, w
  <2>2. w[n] = NULL
    BY <1>4, <2>1, WalkEnds
  <2>3. M \subseteq KidsOf(p)
    BY <1>4, <2>1, WalkMeetsKids
  <2>4. \A i \in 0..n : w[i] = IF i = 0 THEN cptr[p]
                        ELSE IF w[i - 1] = NULL THEN NULL ELSE optr[w[i - 1]]
    BY <2>1 DEF IsWalk
  <2> DEFINE T == KidsOf(p) \ M
  <2>5. ASSUME NEW c \in T PROVE yptr[c] \in T /\ optr[yptr[c]] = c
    <3>1. c \in LinkedProcs /\ parent[c] = p /\ c # NULL /\ c \notin M
      BY LinksAssumption DEF KidsOf, LinkedProcs, Proc
    <3>2. yptr[c] # NULL
      <4> SUFFICES ASSUME yptr[c] = NULL PROVE FALSE
        OBVIOUS
      <4>1. w[0] = c /\ 0 \in 0..n
        BY <1>2, <2>1, <2>4, <3>1
      <4> QED
        BY <3>1, <4>1
    <3>3. yptr[c] \in KidsOf(p) /\ optr[yptr[c]] = c
      BY <1>2, <3>1, <3>2 DEF KidsOf, LinkedProcs
    <3>4. yptr[c] \notin M
      <4> SUFFICES ASSUME yptr[c] \in M PROVE FALSE
        OBVIOUS
      <4>1. PICK i \in 0..n : w[i] = yptr[c]
        OBVIOUS
      <4>2. i # n
        BY <2>2, <3>2, <4>1
      <4>3. i + 1 \in 0..n /\ i + 1 # 0 /\ (i + 1) - 1 = i
        BY <2>1, <4>2
      <4>4. w[i + 1] = c
        BY <2>4, <3>2, <3>3, <4>1, <4>3
      <4> QED
        BY <3>1, <4>3, <4>4
    <3> QED
      BY <3>3, <3>4
  <2>6. T \in SUBSET LinkedProcs
    BY DEF KidsOf, LinkedProcs
  <2>7. T = {}
    <3> HIDE DEF T
    <3> QED
      BY <2>5, <2>6, SomeoneIsYoungest
  <2>8. M = KidsOf(p)
    BY <2>3, <2>7
  <2> QED
    BY <2>0, <2>2, <2>8 DEF n, w
<1> QED
  BY <1>3, <1>4

(* Theorem: the loop in do_wait over the children of a process ends and    *)
(* meets exactly the processes whose parent it is, and every process has a *)
(* live parent that can meet it, after any sequence of forks, exits and    *)
(* waits.                                                                  *)
THEOREM WaitMeetsAllKids == Spec => []KidsExact
<1>1. Init => LinksInv /\ Ordered
  BY InitLinks, InitOrdered
<1>2. LinksInv /\ Ordered /\ [Next]_vars => LinksInv' /\ Ordered'
  BY NextLinks, NextOrdered
<1> QED
  BY <1>1, <1>2, InvGivesKids, PTL DEF Spec

-----------------------------------------------------------------------------
(* get_pid.                                                                *)

(* The pids the scan has looked at are outside the window it narrows.      *)
ScanWindow ==
  at = "scan" =>
    /\ last_pid < next_safe
    /\ \A p \in pids \ todo : p < last_pid \/ p >= next_safe

(* The inductive invariant.                                                *)
PidInv == (at # "scan" => todo = {}) /\ PidTypeOK /\ ScanWindow /\ SafeWindow /\ UniquePid

(* The first pid, init's, satisfies the invariant.                         *)
LEMMA InitPids == PidInit => PidInv
BY PidAssumption DEF PidInit, PidInv, PidTypeOK, ScanWindow, SafeWindow, UniquePid

(* Every step of get_pid, do_fork and do_wait keeps the invariant.         *)
LEMMA NextPids == PidInv /\ [PidNext]_pidVars => PidInv'
<1> SUFFICES ASSUME PidInv, [PidNext]_pidVars PROVE PidInv'
  OBVIOUS
<1> USE PidAssumption DEF PidInv, PidTypeOK, ScanWindow, SafeWindow, UniquePid
<1>1. CASE Enter
  <2>1. at = "out" /\ pids' = pids
    BY <1>1 DEF Enter
  <2>2. CASE StartScan(1)
    BY <2>1, <2>2 DEF StartScan
  <2>3. CASE last_pid + 1 < MAX_PID /\ StartScan(last_pid + 1)
    BY <2>1, <2>3 DEF StartScan
  <2>4. CASE /\ last_pid + 1 < MAX_PID /\ last_pid + 1 < next_safe
             /\ last_pid' = last_pid + 1 /\ at' = "got" /\ UNCHANGED <<next_safe, todo>>
    BY <2>1, <2>4
  <2> QED
    BY <1>1, <2>2, <2>3, <2>4 DEF Enter
<1>2. CASE Scan
  <2>1. PICK p \in todo : Collision(p) \/ Bound(p)
    BY <1>2 DEF Scan
  <2>2. at = "scan" /\ pids' = pids
    BY <1>2 DEF Scan
  <2>3. CASE Collision(p)
    <3>1. CASE last_pid + 1 >= next_safe /\ StartScan(IF last_pid + 1 >= MAX_PID THEN 1 ELSE last_pid + 1)
      BY <2>2, <3>1 DEF StartScan
    <3>2. CASE /\ p = last_pid /\ last_pid + 1 < next_safe /\ last_pid' = last_pid + 1
               /\ todo' = todo \ {p} /\ UNCHANGED <<next_safe, at>>
      BY <2>1, <2>2, <3>2
    <3> QED
      BY <2>3, <3>1, <3>2 DEF Collision
  <2>4. CASE Bound(p)
    BY <2>1, <2>2, <2>4 DEF Bound
  <2> QED
    BY <2>1, <2>3, <2>4
<1>3. CASE Return
  BY <1>3 DEF Return
<1>4. CASE Link
  BY <1>4 DEF Link
<1>5. CASE \E p \in pids : Unlink(p)
  BY <1>5 DEF Unlink
<1>6. CASE UNCHANGED pidVars
  BY <1>6 DEF pidVars
<1> QED
  BY <1>1, <1>2, <1>3, <1>4, <1>5, <1>6 DEF PidNext

(* Every pid get_pid returns is legal and not in use.                      *)
THEOREM PidsAreUnique == PidSpec => []UniquePid
<1>1. PidInv => UniquePid
  BY DEF PidInv
<1> QED
  BY <1>1, InitPids, NextPids, PTL DEF PidSpec

-----------------------------------------------------------------------------
(* The table.                                                              *)

InTable(p) == state[p] # "free"

(* The inductive invariant: that of each part, and between them that the   *)
(* pids get_pid scans are those of the processes in the table.             *)
TableInv ==
  /\ LinksInv
  /\ PidInv
  /\ pid \in [Proc -> Nat]
  /\ pids = {pid[p] : p \in {q \in Proc : InTable(q)}}
  /\ PidNamesOneProcess

(* The table after proc_init satisfies the invariant.                      *)
LEMMA InitTable == TableInit => TableInv
<1> SUFFICES ASSUME TableInit PROVE TableInv
  OBVIOUS
<1>1. LinksInv /\ PidInv
  BY InitLinks, InitPids DEF TableInit
<1>2. \A p \in Proc : InTable(p) <=> p = initproc
  BY LinksAssumption DEF TableInit, Init, InTable, Proc
<1>3. initproc \in Proc
  BY DEF Proc
<1> QED
  BY <1>1, <1>2, <1>3 DEF TableInit, PidInit, TableInv, PidNamesOneProcess, InTable

(* A fork puts one process under a pid nobody has.                         *)
LEMMA ForkTable ==
  ASSUME TableInv, NEW p \in Proc, NEW c \in Proc, Forks(p, c)
  PROVE  /\ [Next]_vars /\ [PidNext]_pidVars
         /\ pid' \in [Proc -> Nat]
         /\ pids' = {pid'[q] : q \in {r \in Proc : InTable(r)'}}
         /\ PidNamesOneProcess'
<1>1. [Next]_vars /\ [PidNext]_pidVars
  BY DEF Forks, Next, PidNext
<1>2. /\ state \in [Proc -> {"free", "live", "zombie"}] /\ state[c] = "free"
      /\ state' = [state EXCEPT ![c] = "live"]
  BY DEF Forks, do_fork, TableInv, LinksInv, TypeOK
<1>3. /\ pid' = [pid EXCEPT ![c] = last_pid] /\ pids' = pids \cup {last_pid}
      /\ last_pid \in Nat /\ last_pid \notin pids
  BY PidAssumption DEF Forks, Hashes, Link, TableInv, PidInv, PidTypeOK, UniquePid
<1>4. \A q \in Proc : InTable(q)' <=> InTable(q) \/ q = c
  BY <1>2 DEF InTable
<1>5. \A q \in Proc : q # c => pid'[q] = pid[q]
  BY <1>3 DEF TableInv
<1>6. pid'[c] = last_pid /\ ~InTable(c)
  BY <1>2, <1>3 DEF TableInv, InTable
<1>7. pid' \in [Proc -> Nat]
  BY <1>3 DEF TableInv
<1>8. pids' = {pid'[q] : q \in {r \in Proc : InTable(r)'}}
  BY <1>3, <1>4, <1>5, <1>6 DEF TableInv
<1>9. \A q \in Proc : InTable(q) => pid[q] # last_pid
  BY <1>3 DEF TableInv
<1>10. PidNamesOneProcess'
  BY <1>4, <1>5, <1>6, <1>9 DEF TableInv, PidNamesOneProcess, InTable
<1> QED
  BY <1>1, <1>7, <1>8, <1>10

(* A wait takes the pid of one zombie out of the table.                    *)
LEMMA WaitTable ==
  ASSUME TableInv, NEW c \in Proc, Waits(c)
  PROVE  /\ [Next]_vars /\ [PidNext]_pidVars
         /\ pid' \in [Proc -> Nat]
         /\ pids' = {pid'[q] : q \in {r \in Proc : InTable(r)'}}
         /\ PidNamesOneProcess'
<1>1. /\ state \in [Proc -> {"free", "live", "zombie"}] /\ state[c] = "zombie"
      /\ state' = [state EXCEPT ![c] = "free"]
  BY DEF Waits, do_wait, TableInv, LinksInv, TypeOK
<1>2. InTable(c) /\ pid[c] \in pids
  BY <1>1 DEF InTable, TableInv
<1>3. [Next]_vars /\ [PidNext]_pidVars
  BY <1>2 DEF Waits, Next, PidNext
<1>4. pid' = [pid EXCEPT ![c] = 0] /\ pids' = pids \ {pid[c]}
  BY DEF Waits, Unlink
<1>5. \A q \in Proc : InTable(q)' <=> InTable(q) /\ q # c
  BY <1>1 DEF InTable
<1>6. \A q \in Proc : q # c => pid'[q] = pid[q]
  BY <1>4 DEF TableInv
<1>7. \A q \in Proc : InTable(q) /\ q # c => pid[q] # pid[c]
  BY <1>2 DEF TableInv, PidNamesOneProcess, InTable
<1>8. pids' = {pid'[q] : q \in {r \in Proc : InTable(r)'}}
  BY <1>4, <1>5, <1>6, <1>7 DEF TableInv
<1>9. pid' \in [Proc -> Nat]
  BY <1>4 DEF TableInv
<1>10. PidNamesOneProcess'
  BY <1>5, <1>6 DEF TableInv, PidNamesOneProcess, InTable
<1> QED
  BY <1>3, <1>8, <1>9, <1>10

(* The steps that leave the table as it is: get_pid and do_exit.           *)
LEMMA OtherTable ==
  ASSUME TableInv, GetsPid \/ Exits \/ UNCHANGED tableVars
  PROVE  /\ [Next]_vars /\ [PidNext]_pidVars
         /\ pid' = pid /\ pids' = pids
         /\ \A p \in Proc : InTable(p)' <=> InTable(p)
<1>1. CASE GetsPid
  <2>1. UNCHANGED vars /\ pid' = pid /\ pids' = pids
    BY <1>1 DEF GetsPid, Enter, Scan, Return
  <2>2. PidNext
    BY <1>1 DEF GetsPid, PidNext
  <2> QED
    BY <2>1, <2>2 DEF vars, InTable
<1>2. CASE Exits
  <2>1. UNCHANGED pidVars /\ pid' = pid /\ pids' = pids
    BY <1>2 DEF Exits, pidVars
  <2>2. Next
    BY <1>2 DEF Exits, Next
  <2>3. ASSUME NEW p \in Proc, do_exit(p) PROVE \A q \in Proc : InTable(q)' <=> InTable(q)
    BY <2>3 DEF do_exit, TableInv, LinksInv, TypeOK, InTable
  <2>4. ASSUME Adopt \/ ExitDone PROVE \A q \in Proc : InTable(q)' <=> InTable(q)
    <3>1. state' = state
      BY <2>4 DEF Adopt, ExitDone
    <3> QED
      BY <3>1 DEF InTable
  <2> QED
    BY <1>2, <2>1, <2>2, <2>3, <2>4 DEF Exits
<1>3. CASE UNCHANGED tableVars
  BY <1>3 DEF tableVars, vars, pidVars, InTable
<1> QED
  BY <1>1, <1>2, <1>3

(* Every step is a step of each part, and keeps the invariant.             *)
LEMMA NextTable ==
  TableInv /\ [TableNext]_tableVars => TableInv' /\ [Next]_vars /\ [PidNext]_pidVars
<1> SUFFICES ASSUME TableInv, [TableNext]_tableVars
             PROVE  TableInv' /\ [Next]_vars /\ [PidNext]_pidVars
  OBVIOUS
<1>1. ASSUME [Next]_vars, [PidNext]_pidVars PROVE LinksInv' /\ PidInv'
  BY <1>1, NextLinks, NextPids DEF TableInv
<1>2. CASE \E p, c \in Proc : Forks(p, c)
  BY <1>1, <1>2, ForkTable DEF TableInv
<1>3. CASE \E c \in Proc : Waits(c)
  BY <1>1, <1>3, WaitTable DEF TableInv
<1>4. CASE GetsPid \/ Exits \/ UNCHANGED tableVars
  <2>1. /\ [Next]_vars /\ [PidNext]_pidVars /\ pid' = pid /\ pids' = pids
        /\ \A p \in Proc : InTable(p)' <=> InTable(p)
    BY <1>4, OtherTable
  <2>2. PidNamesOneProcess'
    BY <2>1 DEF TableInv, PidNamesOneProcess, InTable
  <2>3. pids' = {pid'[q] : q \in {r \in Proc : InTable(r)'}} /\ pid' \in [Proc -> Nat]
    BY <2>1 DEF TableInv
  <2> QED
    BY <1>1, <2>1, <2>2, <2>3 DEF TableInv
<1> QED
  BY <1>2, <1>3, <1>4 DEF TableNext

(* The process table implements both of its parts: what do_fork, do_exit   *)
(* and do_wait do together is, seen from the links, a behaviour of         *)
(* ProcLinks, and seen from the pids a behaviour of GetPid.                *)
THEOREM TableRefines == TableSpec => Spec /\ PidSpec
<1>1. TableInit => Init /\ PidInit
  BY DEF TableInit
<1> QED
  BY <1>1, InitTable, NextTable, PTL DEF TableSpec, Spec, PidSpec

(* find_proc is a function of the pid, the sibling lists are sound, and    *)
(* do_wait meets exactly the children of its caller, in every run of the   *)
(* whole table.                                                            *)
THEOREM TableIsSound == TableSpec => [](PidNamesOneProcess /\ DoublyLinked /\ KidsExact)
<1>1. TableInv => PidNamesOneProcess /\ DoublyLinked
  BY DEF TableInv, LinksInv
<1> QED
  BY <1>1, InitTable, NextTable, TableRefines, WaitMeetsAllKids, PTL DEF TableSpec
=============================================================================
