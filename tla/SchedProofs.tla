---------------------------- MODULE SchedProofs -----------------------------
(***************************************************************************)
(* Proofs about Sched and the skew heap of StrideSched for any number of   *)
(* processes, any strides and any priorities; about TimerList for any      *)
(* number of timers; and about Stdin for any number of readers, any buffer *)
(* size and any length of a read.                                          *)
(***************************************************************************)
EXTENDS Sched, Interrupts, FiniteSetTheorems, SequenceTheorems,
        WellFoundedInduction, TLAPS

(* Induction over the natural numbers, in a form without operators.        *)
LEMMA LeastNat ==
  ASSUME NEW T, T \subseteq Nat, T # {}
  PROVE  \E x \in T : \A y \in T : x <= y
<1> DEFINE R == OpToRel(<, Nat)
<1>1. IsWellFoundedOn(R, Nat)
  BY NatLessThanWellFounded
<1>2. \E x \in T : \A y \in T : ~(<<y, x>> \in R)
  <2> HIDE DEF R
  <2> QED
    BY <1>1, WFMin
<1>3. \A x, y \in Nat : ~(<<y, x>> \in R) => x <= y
  BY DEF OpToRel
<1> HIDE DEF R
<1>4. \A x \in T : x \in Nat
  OBVIOUS
<1> QED
  BY <1>2, <1>3, <1>4, Zenon

LEMMA SetInduction ==
  ASSUME NEW S, 0 \in S, \A n \in Nat : n \in S => n + 1 \in S
  PROVE  Nat \subseteq S
<1> SUFFICES ASSUME Nat \ S # {} PROVE FALSE
  OBVIOUS
<1>1. PICK x \in Nat \ S : \A y \in Nat \ S : x <= y
  BY LeastNat
<1>2. x # 0 /\ x - 1 \in Nat /\ x - 1 \notin Nat \ S
  BY <1>1
<1> QED
  BY <1>1, <1>2

nProc == Cardinality(Proc)

LEMMA nProcNat == nProc \in Nat /\ IsFiniteSet(Proc) /\ NULL \notin Proc
BY StrideAssumption, FS_CardinalityType DEF nProc

-----------------------------------------------------------------------------
(* The heap.  Its pointers lead to processes or are NULL.                  *)
HeapType(h) ==
  h \in [root : Node, parent : [Proc -> Node], left : [Proc -> Node], right : [Proc -> Node]]

Kids(h, x) == {h.left[x], h.right[x]} \ {NULL}

(* The processes of Q form trees with roots in R.                          *)
Forest(h, Q, R) ==
  /\ Q \subseteq Proc /\ R \subseteq Q
  /\ \A x \in Q : Kids(h, x) \subseteq Q \ R
  /\ \A x \in Q : h.left[x] = h.right[x] => h.left[x] = NULL
  /\ \A x \in Q : \A y \in Kids(h, x) : h.parent[y] = x
  /\ \A S : R \subseteq S /\ (\A x \in S \cap Q : Kids(h, x) \subseteq S) => Q \subseteq S

(* Nobody is behind one of his children.                                   *)
Ordered(stride, h, Q) ==
  \A x \in Q : \A y \in Kids(h, x) : proc_stride_comp_f(stride, x, y) # 1

(* The processes of Q form a tree below the root, or Q is empty.           *)
IsTree(h, Q) == HeapType(h) /\ Forest(h, Q, {h.root} \ {NULL})

(* The root of g is a or b, and kept the parent pointer it had in h.       *)
RootFrom(g, h, a, b) ==
  g.root # NULL => (g.root = a \/ g.root = b) /\ g.parent[g.root] = h.parent[g.root]

(* What skew_heap_merge may be called with.                                *)
Mergeable(h, Q, a, b) ==
  /\ HeapType(h)
  /\ a \in Node /\ b \in Node /\ (a = b => a = NULL)
  /\ Forest(h, Q, {a, b} \ {NULL})

(* The recursion of Calls defines a function.                              *)
IsCalls(c, stride, h, a, b, n) ==
  c = [k \in 0..n |-> IF k = 0 THEN <<a, b>> ELSE Inner(stride, h, c[k - 1])]

LEMMA CallsExist ==
  ASSUME NEW stride, NEW h, NEW a, NEW b, NEW n \in Nat
  PROVE  \E c : IsCalls(c, stride, h, a, b, n)
<1> DEFINE S == {i \in Nat : \E c : IsCalls(c, stride, h, a, b, i)}
<1>1. 0 \in S
  <2> DEFINE f == [k \in 0..0 |-> <<a, b>>]
  <2>1. IsCalls(f, stride, h, a, b, 0)
    BY DEF IsCalls
  <2> QED
    BY <2>1
<1>2. ASSUME NEW i \in Nat, i \in S PROVE i + 1 \in S
  <2>1. PICK f : IsCalls(f, stride, h, a, b, i)
    BY <1>2
  <2> DEFINE e == Inner(stride, h, f[i])
             g == [j \in 0..i + 1 |-> IF j = i + 1 THEN e ELSE f[j]]
             d == [j \in 0..i + 1 |-> IF j = 0 THEN <<a, b>> ELSE Inner(stride, h, g[j - 1])]
  <2>2. \A j \in 0..i : f[j] = IF j = 0 THEN <<a, b>> ELSE Inner(stride, h, f[j - 1])
    BY <2>1 DEF IsCalls
  <2>3. ASSUME NEW j \in 0..i + 1 PROVE g[j] = d[j]
    <3>1. CASE j = 0
      BY <2>2, <3>1
    <3>2. CASE j \in 1..i
      <4>1. j \in 0..i /\ j # i + 1 /\ j - 1 \in 0..i + 1 /\ j - 1 # i + 1 /\ j # 0
        BY <3>2
      <4>2. g[j] = f[j] /\ g[j - 1] = f[j - 1]
        BY <4>1
      <4> QED
        BY <2>2, <4>1, <4>2
    <3>3. CASE j = i + 1
      <4>1. g[j] = e /\ j - 1 = i /\ g[i] = f[i] /\ j # 0
        BY <3>3
      <4> QED
        BY <4>1
    <3> QED
      BY <3>1, <3>2, <3>3
  <2>4. g = d
    BY <2>3
  <2>5. IsCalls(g, stride, h, a, b, i + 1)
    BY <2>4 DEF IsCalls
  <2> QED
    BY <2>5
<1>3. Nat \subseteq S
  <2> HIDE DEF S
  <2> QED
    BY <1>1, <1>2, SetInduction
<1> QED
  BY <1>3

LEMMA CallsStep ==
  ASSUME NEW stride, NEW h, NEW a, NEW b
  PROVE  LET c == Calls(stride, h, a, b)
         IN  /\ c[0] = <<a, b>>
             /\ \A k \in 0..nProc - 1 : c[k + 1] = Inner(stride, h, c[k])
<1> DEFINE c == Calls(stride, h, a, b)
<1>1. nProc \in Nat
  BY nProcNat
<1>2. \E f : IsCalls(f, stride, h, a, b, nProc)
  BY <1>1, CallsExist
<1>3. IsCalls(c, stride, h, a, b, nProc)
  BY <1>2 DEF IsCalls, Calls, nProc
<1> HIDE DEF c
<1>4. \A k \in 0..nProc : c[k] = IF k = 0 THEN <<a, b>> ELSE Inner(stride, h, c[k - 1])
  BY <1>3 DEF IsCalls
<1>5. c[0] = <<a, b>>
  BY <1>1, <1>4
<1>6. ASSUME NEW k \in 0..nProc - 1
      PROVE  c[k + 1] = Inner(stride, h, c[k])
  <2>1. k + 1 \in 0..nProc /\ k + 1 # 0 /\ (k + 1) - 1 = k
    BY <1>1
  <2> QED
    BY <1>4, <2>1
<1> QED
  BY <1>5, <1>6 DEF c

-----------------------------------------------------------------------------
(* The calls.  Those that have returned something to link are behind us.   *)
Args(d) == {d[1], d[2]} \ {NULL}

Place(h, R, D, z) == z \in R \/ (h.parent[z] \in D /\ h.right[h.parent[z]] = z)

CallOK(h, Q, R, D, d) ==
  /\ d \in Node \X Node
  /\ d[1] = d[2] => d[1] = NULL
  /\ D \subseteq Q /\ Args(d) \subseteq Q
  /\ Args(d) \cap D = {}
  /\ \A z \in D \cup Args(d) : Place(h, R, D, z)

(* A call either ends the merge or moves one step down the right children  *)
(* of the process that wins.                                               *)
LEMMA InnerIs ==
  ASSUME NEW stride, NEW h, NEW d, d \in Node \X Node, Proper(d)
  PROVE  \E i, j \in {1, 2} :
           /\ i # j
           /\ Returned(stride, d) = d[i]
           /\ Inner(stride, h, d)[i] = h.right[d[i]]
           /\ Inner(stride, h, d)[j] = d[j]
           /\ Inner(stride, h, d) = <<Inner(stride, h, d)[1], Inner(stride, h, d)[2]>>
           /\ i = 1 <=> FirstWins(stride, d)
<1>1. CASE FirstWins(stride, d)
  <2>1. Returned(stride, d) = d[1] /\ Inner(stride, h, d) = <<h.right[d[1]], d[2]>>
    BY <1>1 DEF Returned, Inner, Proper
  <2> QED
    BY <1>1, <2>1
<1>2. CASE ~FirstWins(stride, d)
  <2>1. Returned(stride, d) = d[2] /\ Inner(stride, h, d) = <<d[1], h.right[d[2]]>>
    BY <1>2 DEF Returned, Inner, Proper
  <2> QED
    BY <1>2, <2>1
<1> QED
  BY <1>1, <1>2

LEMMA InnerKeeps ==
  ASSUME NEW stride, NEW h, NEW Q, NEW R, NEW D, NEW d,
         HeapType(h), Forest(h, Q, R), CallOK(h, Q, R, D, d), Proper(d)
  PROVE  /\ CallOK(h, Q, R, D \cup {Returned(stride, d)}, Inner(stride, h, d))
         /\ Returned(stride, d) \in Args(d)
<1>0. d \in Node \X Node
  BY DEF CallOK
<1>1. PICK i \in {1, 2}, j \in {1, 2} :
           /\ i # j
           /\ Returned(stride, d) = d[i]
           /\ Inner(stride, h, d)[i] = h.right[d[i]]
           /\ Inner(stride, h, d)[j] = d[j]
           /\ Inner(stride, h, d) = <<Inner(stride, h, d)[1], Inner(stride, h, d)[2]>>
  BY <1>0, InnerIs
<1> DEFINE w == d[i]  y == d[j]  z == h.right[w]  e == Inner(stride, h, d)  D2 == D \cup {w}
<1>2. /\ w # NULL /\ y # NULL /\ w # y /\ Args(d) = {w, y}
      /\ w \in Q /\ y \in Q /\ w \notin D /\ y \notin D
      /\ Place(h, R, D, w) /\ Place(h, R, D, y)
  BY <1>0, <1>1 DEF Proper, CallOK, Args
<1>3. Q \subseteq Proc /\ R \subseteq Q /\ NULL \notin Proc /\ z \in Node /\ y \in Node
  BY <1>2, nProcNat DEF Forest, HeapType, Node
<1>4. e \in Node \X Node /\ Args(e) = {z, y} \ {NULL}
  BY <1>1, <1>3 DEF Args
<1>5. z # NULL => z \in Q /\ z \notin R /\ h.parent[z] = w
  BY <1>2 DEF Forest, Kids
<1>6. z # NULL => z # y
  <2> SUFFICES ASSUME z # NULL, z = y PROVE FALSE
    OBVIOUS
  <2> QED
    BY <1>2, <1>5 DEF Place
<1>7. z # NULL => z \notin D2
  <2> SUFFICES ASSUME z # NULL, z \in D2 PROVE FALSE
    OBVIOUS
  <2>1. Place(h, R, D, z)
    BY <1>2 DEF CallOK
  <2> QED
    BY <1>2, <1>5, <2>1 DEF Place
<1>8. \A x \in D2 \cup ({z, y} \ {NULL}) : Place(h, R, D2, x)
  <2> SUFFICES ASSUME NEW x \in D2 \cup ({z, y} \ {NULL}) PROVE Place(h, R, D2, x)
    OBVIOUS
  <2>1. CASE x \in D \cup {w, y}
    <3>1. Place(h, R, D, x)
      BY <1>2, <2>1 DEF CallOK
    <3> QED
      BY <3>1 DEF Place
  <2>2. CASE x = z /\ z # NULL
    BY <1>5, <2>2 DEF Place
  <2> QED
    BY <2>1, <2>2
<1>9. /\ e[1] = e[2] => e[1] = NULL
      /\ D2 \subseteq Q /\ Args(e) \subseteq Q /\ Args(e) \cap D2 = {}
  <2>1. e[i] = z /\ e[j] = y
    BY <1>1
  <2>2. D \subseteq Q
    BY DEF CallOK
  <2> QED
    BY <1>1, <1>2, <1>4, <1>5, <1>6, <1>7, <2>1, <2>2
<1> QED
  BY <1>1, <1>2, <1>4, <1>8, <1>9 DEF CallOK

Dead(stride, c, j) == {Returned(stride, c[i]) : i \in {i \in 0..j - 1 : Proper(c[i])}}

LEMMA CallsOK ==
  ASSUME NEW stride, NEW h, NEW Q, NEW a, NEW b, Mergeable(h, Q, a, b)
  PROVE  LET c == Calls(stride, h, a, b)
         IN  \A j \in 0..nProc : CallOK(h, Q, {a, b} \ {NULL}, Dead(stride, c, j), c[j])
<1> DEFINE c == Calls(stride, h, a, b)  R == {a, b} \ {NULL}
           S == {j \in Nat : j <= nProc => CallOK(h, Q, R, Dead(stride, c, j), c[j])}
<1>0. nProc \in Nat
  BY nProcNat
<1>1. c[0] = <<a, b>> /\ \A k \in 0..nProc - 1 : c[k + 1] = Inner(stride, h, c[k])
  BY CallsStep
<1> HIDE DEF c
<1>2. 0 \in S
  <2>1. Dead(stride, c, 0) = {}
    BY DEF Dead
  <2>2. c[0] \in Node \X Node /\ c[0][1] = a /\ c[0][2] = b /\ Args(c[0]) = R
    BY <1>1 DEF Mergeable, Args
  <2>3. CallOK(h, Q, R, {}, c[0])
    BY <2>2 DEF Mergeable, CallOK, Place, Forest
  <2> QED
    BY <2>1, <2>3
<1>3. ASSUME NEW j \in Nat, j \in S PROVE j + 1 \in S
  <2> SUFFICES ASSUME j + 1 <= nProc
               PROVE  CallOK(h, Q, R, Dead(stride, c, j + 1), c[j + 1])
    OBVIOUS
  <2>1. CallOK(h, Q, R, Dead(stride, c, j), c[j]) /\ c[j + 1] = Inner(stride, h, c[j])
    BY <1>0, <1>1, <1>3
  <2>2. CASE Proper(c[j])
    <3>1. Dead(stride, c, j + 1) = Dead(stride, c, j) \cup {Returned(stride, c[j])}
      <4>1. {i \in 0..(j + 1) - 1 : Proper(c[i])} = {i \in 0..j - 1 : Proper(c[i])} \cup {j}
        BY <2>2
      <4> QED
        BY <4>1 DEF Dead
    <3> QED
      BY <2>1, <2>2, <3>1, InnerKeeps DEF Mergeable
  <2>3. CASE ~Proper(c[j])
    <3>1. c[j + 1] = c[j]
      BY <2>1, <2>3 DEF Inner
    <3>2. Dead(stride, c, j + 1) = Dead(stride, c, j)
      <4>1. {i \in 0..(j + 1) - 1 : Proper(c[i])} = {i \in 0..j - 1 : Proper(c[i])}
        BY <2>3
      <4> QED
        BY <4>1 DEF Dead
    <3> QED
      BY <2>1, <3>1, <3>2
  <2> QED
    BY <2>2, <2>3
<1>4. Nat \subseteq S
  <2> HIDE DEF S
  <2> QED
    BY <1>2, <1>3, SetInduction
<1>5. \A j \in 0..nProc : CallOK(h, Q, R, Dead(stride, c, j), c[j])
  BY <1>0, <1>4
<1> QED
  BY <1>5 DEF c

-----------------------------------------------------------------------------
(* No two calls are won by the same process, so they come to an end.       *)
LEMMA ReturnedIs ==
  ASSUME NEW stride, NEW d, d \in Node \X Node
  PROVE  /\ Returned(stride, d) \in {d[1], d[2]}
         /\ Returned(stride, d) = NULL => d[1] = NULL /\ d[2] = NULL
BY DEF Returned

LEMMA ProperBefore ==
  ASSUME NEW stride, NEW h, NEW a, NEW b, NEW i \in 0..nProc, NEW j \in 0..nProc, i <= j
  PROVE  LET c == Calls(stride, h, a, b)
         IN  ~Proper(c[i]) => c[j] = c[i]
<1> DEFINE c == Calls(stride, h, a, b)
           S == {n \in Nat : i + n <= nProc => c[i + n] = c[i]}
<1>0. nProc \in Nat
  BY nProcNat
<1>1. \A k \in 0..nProc - 1 : c[k + 1] = Inner(stride, h, c[k])
  BY CallsStep
<1> HIDE DEF c
<1> SUFFICES ASSUME ~Proper(c[i]) PROVE c[j] = c[i]
  BY DEF c
<1>2. 0 \in S
  OBVIOUS
<1>3. ASSUME NEW n \in Nat, n \in S PROVE n + 1 \in S
  <2> SUFFICES ASSUME i + (n + 1) <= nProc PROVE c[i + (n + 1)] = c[i]
    OBVIOUS
  <2>1. c[i + n] = c[i] /\ i + n \in 0..nProc - 1 /\ (i + n) + 1 = i + (n + 1)
    BY <1>0, <1>3
  <2>2. c[(i + n) + 1] = Inner(stride, h, c[i + n])
    BY <1>1, <2>1
  <2> QED
    BY <2>1, <2>2 DEF Inner
<1>4. Nat \subseteq S
  <2> HIDE DEF S
  <2> QED
    BY <1>2, <1>3, SetInduction
<1>5. j - i \in Nat /\ i + (j - i) = j /\ j <= nProc
  BY <1>0
<1> QED
  BY <1>4, <1>5

LEMMA TopsDiffer ==
  ASSUME NEW stride, NEW h, NEW Q, NEW a, NEW b, Mergeable(h, Q, a, b),
         NEW i \in 0..nProc, NEW j \in 0..nProc, i < j
  PROVE  LET c == Calls(stride, h, a, b)
         IN  Proper(c[i]) /\ Returned(stride, c[j]) # NULL
               => Returned(stride, c[i]) # Returned(stride, c[j])
<1> DEFINE c == Calls(stride, h, a, b)
<1>0. nProc \in Nat
  BY nProcNat
<1>1. CallOK(h, Q, {a, b} \ {NULL}, Dead(stride, c, j), c[j])
  BY CallsOK
<1> HIDE DEF c
<1> SUFFICES ASSUME Proper(c[i]), Returned(stride, c[j]) # NULL
             PROVE  Returned(stride, c[i]) # Returned(stride, c[j])
  BY DEF c
<1>2. Returned(stride, c[j]) \in Args(c[j])
  BY <1>1, ReturnedIs DEF CallOK, Args
<1>3. i \in 0..j - 1
  BY <1>0
<1>4. Returned(stride, c[i]) \in Dead(stride, c, j)
  BY <1>3 DEF Dead
<1> QED
  BY <1>1, <1>2, <1>4 DEF CallOK

LEMMA CallsEnd ==
  ASSUME NEW stride, NEW h, NEW Q, NEW a, NEW b, Mergeable(h, Q, a, b)
  PROVE  ~Proper(Calls(stride, h, a, b)[nProc])
<1> DEFINE c == Calls(stride, h, a, b)
           top == [k \in 0..nProc |-> Returned(stride, c[k])]
<1> SUFFICES ASSUME Proper(c[nProc]) PROVE FALSE
  OBVIOUS
<1>0. nProc \in Nat /\ IsFiniteSet(Proc)
  BY nProcNat
<1>1. \A k \in 0..nProc : CallOK(h, Q, {a, b} \ {NULL}, Dead(stride, c, k), c[k])
  BY CallsOK
<1>2. ASSUME NEW k \in 0..nProc PROVE Proper(c[k])
  <2>1. nProc \in 0..nProc /\ k <= nProc
    BY <1>0
  <2>2. ~Proper(c[k]) => c[nProc] = c[k]
    BY <2>1, ProperBefore
  <2> QED
    BY <2>2
<1>3. \A i, j \in 0..nProc : i < j /\ Returned(stride, c[j]) # NULL
         => Returned(stride, c[i]) # Returned(stride, c[j])
  BY <1>2, TopsDiffer
<1> HIDE DEF c
<1>4. ASSUME NEW k \in 0..nProc PROVE Returned(stride, c[k]) \in Proc
  <2>1. c[k] \in Node \X Node /\ Proper(c[k])
    BY <1>1, <1>2 DEF CallOK
  <2> QED
    BY <2>1, ReturnedIs DEF Proper, Node
<1>5. top \in [0..nProc -> Proc]
  BY <1>4
<1>6. IsFiniteSet(0..nProc) /\ Cardinality(0..nProc) = nProc + 1
  <2>1. 0 \in Int /\ nProc \in Int /\ ~(0 > nProc) /\ nProc - 0 + 1 = nProc + 1
    BY <1>0
  <2> QED
    BY <2>1, FS_Interval
<1>7. \E i, j \in 0..nProc : i # j /\ top[i] = top[j]
  <2>1. Cardinality(Proc) < Cardinality(0..nProc)
    BY <1>0, <1>6 DEF nProc
  <2> HIDE DEF top
  <2> QED
    BY <1>0, <1>5, <1>6, <2>1, FS_PigeonHole
<1>8. PICK i \in 0..nProc, j \in 0..nProc : i < j /\ top[i] = top[j]
  <2>1. PICK i \in 0..nProc, j \in 0..nProc : i # j /\ top[i] = top[j]
    BY <1>7
  <2>2. i < j \/ j < i
    BY <1>0, <2>1
  <2> QED
    BY <2>1, <2>2
<1>9. Returned(stride, c[j]) # NULL
  BY <1>4, nProcNat
<1> QED
  BY <1>3, <1>8, <1>9

-----------------------------------------------------------------------------
(* What the merge writes.                                                  *)
Linking(c) == {k \in 0..nProc - 1 : Proper(c[k])}

LEMMA TopType ==
  ASSUME NEW stride, NEW h, NEW Q, NEW a, NEW b, Mergeable(h, Q, a, b), NEW k \in 0..nProc
  PROVE  LET c == Calls(stride, h, a, b)
         IN  /\ Returned(stride, c[k]) \in Q \cup {NULL}
             /\ Returned(stride, c[k]) # NULL =>
                  /\ Returned(stride, c[k]) \in Args(c[k])
                  /\ Place(h, {a, b} \ {NULL}, Dead(stride, c, k), Returned(stride, c[k]))
             /\ Proper(c[k]) => Returned(stride, c[k]) # NULL
<1> DEFINE c == Calls(stride, h, a, b)
<1>1. CallOK(h, Q, {a, b} \ {NULL}, Dead(stride, c, k), c[k])
  BY CallsOK
<1> HIDE DEF c
<1>2. c[k] \in Node \X Node
  BY <1>1 DEF CallOK
<1>3. Returned(stride, c[k]) \in {c[k][1], c[k][2]}
  BY <1>2, ReturnedIs
<1> QED
  BY <1>1, <1>3 DEF c, CallOK, Args, Proper

LEMMA LinkingOnce ==
  ASSUME NEW stride, NEW h, NEW Q, NEW a, NEW b, Mergeable(h, Q, a, b),
         NEW k \in Linking(Calls(stride, h, a, b)), NEW m \in Linking(Calls(stride, h, a, b))
  PROVE  LET c == Calls(stride, h, a, b)
         IN  /\ Returned(stride, c[k]) = Returned(stride, c[m]) => k = m
             /\ Returned(stride, c[k + 1]) = Returned(stride, c[m + 1]) =>
                  k = m \/ Returned(stride, c[k + 1]) = NULL
<1> DEFINE c == Calls(stride, h, a, b)
<1>0. /\ nProc \in Nat /\ Proper(c[k]) /\ Proper(c[m])
      /\ k \in 0..nProc /\ m \in 0..nProc /\ k + 1 \in 0..nProc /\ m + 1 \in 0..nProc
  BY nProcNat DEF Linking
<1>1. \A i, j \in 0..nProc : i < j /\ Proper(c[i]) /\ Returned(stride, c[j]) # NULL
         => Returned(stride, c[i]) # Returned(stride, c[j])
  BY TopsDiffer
<1>2. \A i, j \in 0..nProc : i <= j /\ Proper(c[j]) => Proper(c[i])
  <2>1. \A i, j \in 0..nProc : i <= j /\ ~Proper(c[i]) => c[j] = c[i]
    BY ProperBefore
  <2> QED
    BY <2>1
<1>3. Returned(stride, c[k]) # NULL /\ Returned(stride, c[m]) # NULL
  BY <1>0, TopType
<1> HIDE DEF c
<1>4. CASE k < m
  <2>1. k + 1 <= m /\ k + 1 < m + 1
    BY <1>0, <1>4
  <2>2. Proper(c[k + 1])
    BY <1>0, <1>2, <2>1
  <2> QED
    BY <1>0, <1>1, <1>3, <1>4, <2>1, <2>2 DEF c
<1>5. CASE m < k
  <2>1. m + 1 <= k /\ m + 1 < k + 1
    BY <1>0, <1>5
  <2>2. Proper(c[m + 1])
    BY <1>0, <1>2, <2>1
  <2> QED
    BY <1>0, <1>1, <1>3, <1>5, <2>1, <2>2 DEF c
<1> QED
  BY <1>0, <1>4, <1>5 DEF c

LEMMA MergeWrites ==
  ASSUME NEW stride, NEW h, NEW Q, NEW a, NEW b, Mergeable(h, Q, a, b)
  PROVE  LET c == Calls(stride, h, a, b)
             g == skew_heap_merge(stride, h, a, b)
         IN  /\ HeapType(g)
             /\ g.root = Returned(stride, c[0])
             /\ \A k \in Linking(c) :
                  /\ g.left[Returned(stride, c[k])] = Returned(stride, c[k + 1])
                  /\ g.right[Returned(stride, c[k])] = h.left[Returned(stride, c[k])]
                  /\ Returned(stride, c[k + 1]) # NULL =>
                       g.parent[Returned(stride, c[k + 1])] = Returned(stride, c[k])
             /\ \A x \in Proc :
                  /\ (\A k \in Linking(c) : Returned(stride, c[k]) # x) =>
                       g.left[x] = h.left[x] /\ g.right[x] = h.right[x]
                  /\ (\A k \in Linking(c) : Returned(stride, c[k + 1]) # x) =>
                       g.parent[x] = h.parent[x]
<1> DEFINE c == Calls(stride, h, a, b)
           g == skew_heap_merge(stride, h, a, b)
           top(k) == Returned(stride, c[k])
           L == Linking(c)
           won(x) == {k \in L : top(k) = x}
           over(x) == {k \in L : top(k + 1) = x}
<1>0. nProc \in Nat /\ \A k \in L : k \in 0..nProc /\ k + 1 \in 0..nProc /\ Proper(c[k])
  BY nProcNat DEF Linking
<1>1. g = [root |-> top(0),
       left |-> [x \in Proc |-> IF won(x) = {} THEN h.left[x]
                                ELSE top((CHOOSE k \in won(x) : TRUE) + 1)],
       right |-> [x \in Proc |-> IF won(x) = {} THEN h.right[x] ELSE h.left[x]],
       parent |-> [x \in Proc |-> IF over(x) = {} THEN h.parent[x]
                                  ELSE top(CHOOSE k \in over(x) : TRUE)]]
  BY DEF skew_heap_merge, Linking, nProc
<1>2. Q \subseteq Proc /\ HeapType(h)
  BY DEF Mergeable, Forest
<1>3. \A k \in 0..nProc : top(k) \in Node /\ (Proper(c[k]) => top(k) \in Proc)
  BY <1>2, TopType DEF Node
<1>4. \A k, m \in L : /\ top(k) = top(m) => k = m
                      /\ top(k + 1) = top(m + 1) => k = m \/ top(k + 1) = NULL
  BY LinkingOnce
<1> HIDE DEF c, g, L
<1>5. \A k \in L : top(k) \in Proc /\ top(k + 1) \in Node
  BY <1>0, <1>3
<1> HIDE DEF top
<1>6. /\ \A x \in Proc : won(x) # {} => (CHOOSE k \in won(x) : TRUE) \in won(x)
      /\ \A x \in Proc : over(x) # {} => (CHOOSE k \in over(x) : TRUE) \in over(x)
  OBVIOUS
<1>7. /\ \A k \in L : (CHOOSE m \in won(top(k)) : TRUE) = k
      /\ \A k \in L : top(k + 1) # NULL => (CHOOSE m \in over(top(k + 1)) : TRUE) = k
  <2>1. \A k \in L : won(top(k)) = {k}
    BY <1>4
  <2>2. \A k \in L : top(k + 1) # NULL => over(top(k + 1)) = {k}
    BY <1>4
  <2> QED
    BY <2>1, <2>2
<1>8. HeapType(g)
  <2>1. top(0) \in Node
    BY <1>0, <1>3
  <2>2. \A x \in Proc : h.left[x] \in Node /\ h.right[x] \in Node /\ h.parent[x] \in Node
    BY <1>2 DEF HeapType
  <2>3. \A x \in Proc : won(x) # {} => top((CHOOSE k \in won(x) : TRUE) + 1) \in Node
    BY <1>5, <1>6
  <2>4. \A x \in Proc : over(x) # {} => top(CHOOSE k \in over(x) : TRUE) \in Node
    BY <1>5, <1>6 DEF Node
  <2> HIDE DEF won, over
  <2> QED
    BY <1>1, <2>1, <2>2, <2>3, <2>4 DEF HeapType
<1>9. ASSUME NEW k \in L
      PROVE  /\ g.left[top(k)] = top(k + 1)
             /\ g.right[top(k)] = h.left[top(k)]
             /\ top(k + 1) # NULL => g.parent[top(k + 1)] = top(k)
  <2>1. won(top(k)) # {} /\ over(top(k + 1)) # {}
    OBVIOUS
  <2>2. top(k) \in Proc /\ (top(k + 1) # NULL => top(k + 1) \in Proc)
    BY <1>5 DEF Node
  <2>3. /\ (CHOOSE m \in won(top(k)) : TRUE) = k
        /\ top(k + 1) # NULL => (CHOOSE m \in over(top(k + 1)) : TRUE) = k
    BY <1>7
  <2> HIDE DEF won, over
  <2> QED
    BY <1>1, <2>1, <2>2, <2>3
<1>10. ASSUME NEW x \in Proc
       PROVE  /\ (\A k \in L : top(k) # x) => g.left[x] = h.left[x] /\ g.right[x] = h.right[x]
              /\ (\A k \in L : top(k + 1) # x) => g.parent[x] = h.parent[x]
  <2>1. (\A k \in L : top(k) # x) => won(x) = {}
    OBVIOUS
  <2>2. (\A k \in L : top(k + 1) # x) => over(x) = {}
    OBVIOUS
  <2> HIDE DEF won, over
  <2> QED
    BY <1>1, <2>1, <2>2
<1>11. g.root = top(0)
  BY <1>1
<1> QED
  BY <1>8, <1>9, <1>10, <1>11 DEF c, g, L, top

-----------------------------------------------------------------------------
(* Every argument of a call is returned by it or by a call inside it.      *)
LEMMA ArgsReturn ==
  ASSUME NEW stride, NEW h, NEW Q, NEW a, NEW b, Mergeable(h, Q, a, b)
  PROVE  LET c == Calls(stride, h, a, b)
         IN  \A j \in 0..nProc : \A z \in Args(c[j]) :
               \E k \in j..nProc : z = Returned(stride, c[k])
<1> DEFINE c == Calls(stride, h, a, b)
           Returns(j) == \A z \in Args(c[j]) : \E k \in j..nProc : z = Returned(stride, c[k])
           S == {n \in Nat : n <= nProc => Returns(nProc - n)}
<1>0. nProc \in Nat
  BY nProcNat
<1>1. \A k \in 0..nProc - 1 : c[k + 1] = Inner(stride, h, c[k])
  BY CallsStep
<1>2. ~Proper(c[nProc])
  BY CallsEnd
<1>3. \A j \in 0..nProc : c[j] \in Node \X Node
  BY CallsOK DEF CallOK
<1> HIDE DEF c
<1>4. 0 \in S
  <2>1. nProc \in nProc..nProc /\ nProc - 0 = nProc /\ nProc \in 0..nProc
    BY <1>0
  <2>2. \A z \in Args(c[nProc]) : z = Returned(stride, c[nProc])
    BY <1>2 DEF Args, Proper, Returned
  <2> QED
    BY <2>1, <2>2
<1>5. ASSUME NEW n \in Nat, n \in S PROVE n + 1 \in S
  <2> SUFFICES ASSUME n + 1 <= nProc PROVE Returns(nProc - (n + 1))
    OBVIOUS
  <2> DEFINE j == nProc - (n + 1)
  <2>1. j \in 0..nProc - 1 /\ j \in 0..nProc /\ nProc - n = j + 1 /\ j \in j..nProc
    BY <1>0
  <2>2. Returns(j + 1) /\ c[j + 1] = Inner(stride, h, c[j])
    <3>1. Returns(nProc - n)
      BY <1>0, <1>5
    <3>2. Returns(j + 1)
      <4> HIDE DEF Returns
      <4> QED
        BY <2>1, <3>1, Zenon
    <3>3. c[j + 1] = Inner(stride, h, c[j])
      <4> HIDE DEF j
      <4> QED
        BY <1>1, <2>1
    <3> QED
      BY <3>2, <3>3, Zenon
  <2> HIDE DEF j
  <2>3. (j + 1)..nProc \subseteq j..nProc
    BY <1>0, <2>1
  <2>4. ASSUME NEW z \in Args(c[j])
        PROVE  \E k \in j..nProc : z = Returned(stride, c[k])
    <3>1. CASE z = Returned(stride, c[j])
      BY <2>1, <3>1
    <3>2. CASE z # Returned(stride, c[j])
      <4>1. z \in Args(c[j + 1])
        <5>1. CASE Proper(c[j])
          <6>1. PICK i \in {1, 2}, m \in {1, 2} :
                  i # m /\ Returned(stride, c[j]) = c[j][i] /\ c[j + 1][m] = c[j][m]
            BY <1>3, <2>1, <2>2, <5>1, InnerIs
          <6> QED
            BY <3>2, <6>1 DEF Args
        <5>2. CASE ~Proper(c[j])
          BY <2>2, <5>2 DEF Inner
        <5> QED
          BY <5>1, <5>2
      <4> QED
        BY <2>2, <2>3, <4>1
    <3> QED
      BY <3>1, <3>2
  <2> QED
    BY <2>4 DEF j
<1>6. Nat \subseteq S
  <2> HIDE DEF S
  <2> QED
    BY <1>4, <1>5, SetInduction
<1>7. ASSUME NEW j \in 0..nProc PROVE Returns(j)
  <2>1. nProc - j \in Nat /\ nProc - j <= nProc /\ nProc - (nProc - j) = j
    BY <1>0
  <2> QED
    BY <1>6, <2>1
<1> QED
  BY <1>7 DEF c

(* A process that is returned is a root or a right child of one that wins. *)
LEMMA TopPlace ==
  ASSUME NEW stride, NEW h, NEW Q, NEW a, NEW b, Mergeable(h, Q, a, b), NEW k \in 0..nProc
  PROVE  LET c == Calls(stride, h, a, b)
             z == Returned(stride, c[k])
         IN  z # NULL =>
               \/ z \in {a, b} \ {NULL}
               \/ \E m \in Linking(c) : h.parent[z] = Returned(stride, c[m])
                                        /\ h.right[Returned(stride, c[m])] = z
<1> DEFINE c == Calls(stride, h, a, b)  z == Returned(stride, c[k])
<1>0. nProc \in Nat
  BY nProcNat
<1>1. z # NULL => Place(h, {a, b} \ {NULL}, Dead(stride, c, k), z)
  BY TopType
<1> HIDE DEF c
<1>2. 0..k - 1 \subseteq 0..nProc - 1
  BY <1>0
<1>3. \A x \in Dead(stride, c, k) : \E m \in Linking(c) : x = Returned(stride, c[m])
  BY <1>2 DEF Dead, Linking
<1> QED
  BY <1>1, <1>3 DEF c, Place

LEMMA MergeKids ==
  ASSUME NEW stride, NEW h, NEW Q, NEW a, NEW b, Mergeable(h, Q, a, b)
  PROVE  LET g == skew_heap_merge(stride, h, a, b)
             R == {g.root} \ {NULL}
         IN  /\ R \subseteq {a, b} \ {NULL}
             /\ \A x \in Q : Kids(g, x) \subseteq Q \ R
             /\ \A x \in Q : g.left[x] = g.right[x] => g.left[x] = NULL
             /\ \A x \in Q : \A y \in Kids(g, x) : g.parent[y] = x
             /\ g.root # NULL => g.parent[g.root] = h.parent[g.root]
             /\ \A x \in Proc \ Q : g.left[x] = h.left[x] /\ g.right[x] = h.right[x]
                                    /\ g.parent[x] = h.parent[x]
<1> DEFINE c == Calls(stride, h, a, b)
           g == skew_heap_merge(stride, h, a, b)
           top(k) == Returned(stride, c[k])
           R == {a, b} \ {NULL}
           R2 == {g.root} \ {NULL}
           L == Linking(c)
<1>0. /\ nProc \in Nat /\ 0 \in 0..nProc
      /\ \A k \in L : k \in 0..nProc /\ k + 1 \in 0..nProc /\ Proper(c[k])
  BY nProcNat DEF Linking
<1>1. /\ HeapType(g)
      /\ g.root = top(0)
      /\ \A k \in L :
           /\ g.left[top(k)] = top(k + 1)
           /\ g.right[top(k)] = h.left[top(k)]
           /\ top(k + 1) # NULL => g.parent[top(k + 1)] = top(k)
      /\ \A x \in Proc :
           /\ (\A k \in L : top(k) # x) => g.left[x] = h.left[x] /\ g.right[x] = h.right[x]
           /\ (\A k \in L : top(k + 1) # x) => g.parent[x] = h.parent[x]
  BY MergeWrites
<1>2. Q \subseteq Proc /\ R \subseteq Q /\ NULL \notin Q
  BY nProcNat DEF Mergeable, Forest
<1>3. \A k \in 0..nProc : top(k) \in Q \cup {NULL} /\ (Proper(c[k]) => top(k) # NULL)
  BY TopType
<1>4. \A k \in 0..nProc : top(k) # NULL =>
        \/ top(k) \in R
        \/ \E m \in L : h.parent[top(k)] = top(m) /\ h.right[top(m)] = top(k)
  BY TopPlace
<1>5. \A k \in L : top(k + 1) # top(0) \/ top(k + 1) = NULL
  <2> SUFFICES ASSUME NEW k \in L, top(k + 1) # NULL PROVE top(k + 1) # top(0)
    OBVIOUS
  <2>1. Proper(c[0])
    <3>1. ~Proper(c[0]) => c[k] = c[0]
      <4>1. 0 <= k
        BY <1>0
      <4> QED
        BY <1>0, <4>1, ProperBefore
    <3> QED
      BY <1>0, <3>1
  <2>2. 0 < k + 1
    BY <1>0
  <2> QED
    BY <1>0, <2>1, <2>2, TopsDiffer
<1>6. top(0) \in R \cup {NULL}
  <2>1. c[0] = <<a, b>>
    BY CallsStep
  <2> QED
    BY <2>1 DEF Returned
<1>7. /\ \A x \in Q : Kids(h, x) \subseteq Q \ R
      /\ \A x \in Q : h.left[x] = h.right[x] => h.left[x] = NULL
      /\ \A x \in Q : \A y \in Kids(h, x) : h.parent[y] = x
  BY DEF Mergeable, Forest
<1> HIDE DEF c, g, L, top
(* Neither a left child nor a child of someone who wins nothing moves.     *)
<1>8. ASSUME NEW x \in Q, NEW y \in Kids(h, x), NEW k \in 0..nProc,
             y = h.left[x] \/ \A m \in L : top(m) # x
      PROVE  top(k) # y
  <2> SUFFICES ASSUME top(k) = y PROVE FALSE
    OBVIOUS
  <2>1. y \notin R /\ y # NULL /\ h.parent[y] = x
    BY <1>7 DEF Kids
  <2>2. PICK m \in L : h.parent[y] = top(m) /\ h.right[top(m)] = y
    BY <1>4, <2>1
  <2>3. top(m) = x /\ h.right[x] = y
    BY <2>1, <2>2
  <2> QED
    BY <1>7, <1>8, <2>1, <2>3
<1>9. ASSUME NEW x \in Q
      PROVE  /\ Kids(g, x) \subseteq Q \ R2
             /\ g.left[x] = g.right[x] => g.left[x] = NULL
             /\ \A y \in Kids(g, x) : g.parent[y] = x
  <2>1. CASE \E k \in L : top(k) = x
    <3>1. PICK k \in L : top(k) = x
      BY <2>1
    <3>2. g.left[x] = top(k + 1) /\ g.right[x] = h.left[x] /\ k + 1 \in 0..nProc
      BY <1>0, <1>1, <3>1
    <3>3. h.left[x] # NULL => h.left[x] \in Kids(h, x) /\ h.left[x] \in Q \ R
      BY <1>7 DEF Kids
    <3>4. h.left[x] # NULL => \A m \in 0..nProc : top(m) # h.left[x]
      BY <1>8, <3>3
    <3>5. h.left[x] # NULL => g.parent[h.left[x]] = x
      <4> SUFFICES ASSUME h.left[x] # NULL PROVE g.parent[h.left[x]] = x
        OBVIOUS
      <4>1. \A m \in L : top(m + 1) # h.left[x]
        BY <1>0, <3>4
      <4>2. h.left[x] \in Proc /\ h.parent[h.left[x]] = x
        BY <1>2, <1>7, <3>3
      <4> QED
        BY <1>1, <4>1, <4>2
    <3>6. top(k + 1) # NULL => top(k + 1) \in Q /\ top(k + 1) # top(0) /\ g.parent[top(k + 1)] = x
      BY <1>0, <1>1, <1>3, <1>5, <3>1
    <3>7. R2 \subseteq R
      BY <1>1, <1>6
    <3> QED
      BY <1>1, <3>2, <3>3, <3>4, <3>5, <3>6, <3>7 DEF Kids
  <2>2. CASE \A k \in L : top(k) # x
    <3>1. g.left[x] = h.left[x] /\ g.right[x] = h.right[x]
      BY <1>1, <1>2, <2>2
    <3>2. Kids(g, x) = Kids(h, x)
      BY <3>1 DEF Kids
    <3>3. ASSUME NEW y \in Kids(h, x) PROVE g.parent[y] = x
      <4>1. \A m \in L : top(m + 1) # y
        BY <1>0, <1>8, <2>2
      <4>2. y \in Proc /\ h.parent[y] = x
        BY <1>2, <1>7
      <4> QED
        BY <1>1, <4>1, <4>2
    <3>4. R2 \subseteq R
      BY <1>1, <1>6
    <3> QED
      BY <1>7, <3>1, <3>2, <3>3, <3>4
  <2> QED
    BY <2>1, <2>2
<1>10. g.root # NULL => g.parent[g.root] = h.parent[g.root]
  <2> SUFFICES ASSUME g.root # NULL PROVE g.parent[g.root] = h.parent[g.root]
    OBVIOUS
  <2>1. g.root \in Proc
    BY <1>1, <1>2, <1>6
  <2>2. \A k \in L : top(k + 1) # g.root
    BY <1>1, <1>5
  <2> QED
    BY <1>1, <2>1, <2>2
<1>11. ASSUME NEW x \in Proc \ Q
       PROVE  g.left[x] = h.left[x] /\ g.right[x] = h.right[x] /\ g.parent[x] = h.parent[x]
  <2>1. x # NULL
    BY nProcNat
  <2>2. \A k \in L : top(k) # x /\ top(k + 1) # x
    BY <1>0, <1>3, <2>1
  <2> QED
    BY <1>1, <2>2
<1>12. R2 \subseteq R
  BY <1>1, <1>6
<1> QED
  BY <1>9, <1>10, <1>11, <1>12 DEF g

(* Whoever was in one of the trees is in the merged one.                   *)
LEMMA MergeReaches ==
  ASSUME NEW stride, NEW h, NEW Q, NEW a, NEW b, Mergeable(h, Q, a, b), NEW T,
         {skew_heap_merge(stride, h, a, b).root} \ {NULL} \subseteq T,
         \A x \in T \cap Q : Kids(skew_heap_merge(stride, h, a, b), x) \subseteq T
  PROVE  Q \subseteq T
<1> DEFINE c == Calls(stride, h, a, b)
           g == skew_heap_merge(stride, h, a, b)
           top(k) == Returned(stride, c[k])
           R == {a, b} \ {NULL}
           L == Linking(c)
           S == {n \in Nat : n <= nProc => top(n) \in T \cup {NULL}}
<1>0. nProc \in Nat /\ 0 \in 0..nProc
  BY nProcNat
<1>1. /\ g.root = top(0)
      /\ \A k \in L : g.left[top(k)] = top(k + 1) /\ g.right[top(k)] = h.left[top(k)]
      /\ \A x \in Proc : (\A k \in L : top(k) # x) =>
           g.left[x] = h.left[x] /\ g.right[x] = h.right[x]
  BY MergeWrites
<1>2. Q \subseteq Proc /\ NULL \notin Q
  BY nProcNat DEF Mergeable, Forest
<1>3. \A k \in 0..nProc : top(k) \in Q \cup {NULL} /\ (Proper(c[k]) => top(k) # NULL)
  BY TopType
<1>4. /\ c[0] = <<a, b>>
      /\ \A k \in 0..nProc - 1 : c[k + 1] = Inner(stride, h, c[k])
  BY CallsStep
<1>5. \A j \in 0..nProc : \A z \in Args(c[j]) : \E k \in j..nProc : z = top(k)
  BY ArgsReturn
<1>6. ~Proper(c[nProc]) /\ \A j \in 0..nProc : c[j] \in Node \X Node
  BY CallsEnd, CallsOK DEF CallOK
<1>7. {g.root} \ {NULL} \subseteq T /\ \A x \in T \cap Q : Kids(g, x) \subseteq T
  OBVIOUS
<1> HIDE DEF c, g
<1>8. 0 \in S
  BY <1>1, <1>7
<1>9. ASSUME NEW n \in Nat, n \in S PROVE n + 1 \in S
  <2> SUFFICES ASSUME n + 1 <= nProc PROVE top(n + 1) \in T \cup {NULL}
    OBVIOUS
  <2>1. n \in 0..nProc - 1 /\ n \in 0..nProc /\ top(n) \in T \cup {NULL}
    BY <1>0, <1>9
  <2>2. CASE Proper(c[n])
    <3>1. n \in L /\ top(n) \in T \cap Q
      BY <1>3, <2>1, <2>2 DEF Linking
    <3>2. top(n + 1) = g.left[top(n)]
      BY <1>1, <3>1
    <3>3. Kids(g, top(n)) \subseteq T
      BY <1>7, <3>1
    <3> HIDE DEF top
    <3> QED
      BY <3>2, <3>3 DEF Kids
  <2>3. CASE ~Proper(c[n])
    BY <1>4, <2>1, <2>3 DEF Inner
  <2> QED
    BY <2>2, <2>3
<1>10. Nat \subseteq S
  <2> HIDE DEF S
  <2> QED
    BY <1>8, <1>9, SetInduction
<1>11. \A k \in 0..nProc : top(k) \in T \cup {NULL}
  BY <1>0, <1>10
<1>12. \A j \in 0..nProc : Args(c[j]) \subseteq T
  <2> SUFFICES ASSUME NEW j \in 0..nProc, NEW z \in Args(c[j]) PROVE z \in T
    OBVIOUS
  <2>1. PICK k \in j..nProc : z = top(k)
    BY <1>5
  <2>2. k \in 0..nProc
    BY <1>0
  <2> QED
    BY <1>11, <2>1, <2>2 DEF Args
<1>13. R \subseteq T
  BY <1>0, <1>4, <1>12 DEF Args
<1>14. ASSUME NEW x \in T \cap Q PROVE Kids(h, x) \subseteq T
  <2>1. CASE \E k \in L : top(k) = x
    <3>1. PICK k \in L : top(k) = x
      BY <2>1
    <3>2. /\ k \in 0..nProc - 1 /\ k \in 0..nProc /\ k + 1 \in 0..nProc /\ Proper(c[k])
          /\ c[k + 1] = Inner(stride, h, c[k])
      BY <1>0, <1>4 DEF Linking
    <3>3. PICK i \in {1, 2} : top(k) = c[k][i] /\ c[k + 1][i] = h.right[c[k][i]]
      BY <1>6, <3>2, InnerIs
    <3>4. h.right[x] # NULL => h.right[x] \in T
      BY <1>12, <3>1, <3>2, <3>3 DEF Args
    <3>5. h.left[x] # NULL => h.left[x] \in T
      <4>1. g.right[x] = h.left[x] /\ Kids(g, x) \subseteq T
        BY <1>1, <1>7, <3>1
      <4> QED
        BY <4>1 DEF Kids
    <3> QED
      BY <3>4, <3>5 DEF Kids
  <2>2. CASE \A k \in L : top(k) # x
    <3>1. g.left[x] = h.left[x] /\ g.right[x] = h.right[x]
      BY <1>1, <1>2, <2>2
    <3> QED
      BY <1>7, <3>1 DEF Kids
  <2> QED
    BY <2>1, <2>2
<1> HIDE DEF top
<1>15. Forest(h, Q, R)
  BY DEF Mergeable
<1> QED
  BY <1>13, <1>14, <1>15 DEF Forest

(* Merging the two trees of a forest leaves one tree.                      *)
LEMMA MergeForest ==
  ASSUME NEW stride, NEW h, NEW Q, NEW a, NEW b, Mergeable(h, Q, a, b)
  PROVE  LET g == skew_heap_merge(stride, h, a, b)
         IN  /\ IsTree(g, Q)
             /\ RootFrom(g, h, a, b)
             /\ \A x \in Proc \ Q : g.left[x] = h.left[x] /\ g.right[x] = h.right[x]
                                    /\ g.parent[x] = h.parent[x]
<1> DEFINE g == skew_heap_merge(stride, h, a, b)
           R == {g.root} \ {NULL}
<1>1. HeapType(g)
  BY MergeWrites
<1>2. /\ R \subseteq {a, b} \ {NULL}
      /\ \A x \in Q : Kids(g, x) \subseteq Q \ R
      /\ \A x \in Q : g.left[x] = g.right[x] => g.left[x] = NULL
      /\ \A x \in Q : \A y \in Kids(g, x) : g.parent[y] = x
      /\ g.root # NULL => g.parent[g.root] = h.parent[g.root]
      /\ \A x \in Proc \ Q : g.left[x] = h.left[x] /\ g.right[x] = h.right[x]
                             /\ g.parent[x] = h.parent[x]
  BY MergeKids
<1>3. \A T : R \subseteq T /\ (\A x \in T \cap Q : Kids(g, x) \subseteq T) => Q \subseteq T
  BY MergeReaches
<1>4. Q \subseteq Proc /\ {a, b} \ {NULL} \subseteq Q
  BY DEF Mergeable, Forest
<1> HIDE DEF g
<1>5. Forest(g, Q, R)
  BY <1>2, <1>3, <1>4 DEF Forest
<1>6. IsTree(g, Q)
  BY <1>1, <1>5 DEF IsTree
<1>7. RootFrom(g, h, a, b)
  BY <1>2 DEF RootFrom
<1> QED
  BY <1>2, <1>6, <1>7 DEF g

(* An order that the comparison keeps is kept by the merge.                *)
LEMMA MergeOrdered ==
  ASSUME NEW stride, NEW h, NEW Q, NEW a, NEW b, Mergeable(h, Q, a, b),
         Ordered(stride, h, Q),
         \A x, y \in Q : proc_stride_comp_f(stride, x, y) = 1 =>
                           proc_stride_comp_f(stride, y, x) = -1
  PROVE  Ordered(stride, skew_heap_merge(stride, h, a, b), Q)
<1> DEFINE c == Calls(stride, h, a, b)
           g == skew_heap_merge(stride, h, a, b)
           top(k) == Returned(stride, c[k])
           L == Linking(c)
<1>0. nProc \in Nat
  BY nProcNat
<1>1. /\ \A k \in L : g.left[top(k)] = top(k + 1) /\ g.right[top(k)] = h.left[top(k)]
      /\ \A x \in Proc : (\A k \in L : top(k) # x) =>
           g.left[x] = h.left[x] /\ g.right[x] = h.right[x]
  BY MergeWrites
<1>2. Q \subseteq Proc
  BY DEF Mergeable, Forest
<1>3. \A k \in 0..nProc - 1 : c[k + 1] = Inner(stride, h, c[k])
  BY CallsStep
<1>4. \A j \in 0..nProc : c[j] \in Node \X Node /\ Args(c[j]) \subseteq Q
  BY CallsOK DEF CallOK
<1>5. \A k \in 0..nProc : top(k) # NULL => top(k) \in Args(c[k])
  BY TopType
<1> HIDE DEF c, g
<1>6. ASSUME NEW k \in L, top(k + 1) # NULL
      PROVE  proc_stride_comp_f(stride, top(k), top(k + 1)) # 1
  <2>1. /\ k \in 0..nProc - 1 /\ k \in 0..nProc /\ k + 1 \in 0..nProc /\ Proper(c[k])
        /\ c[k + 1] = Inner(stride, h, c[k])
    BY <1>0, <1>3 DEF Linking
  <2>2. PICK i \in {1, 2}, j \in {1, 2} :
          /\ i # j
          /\ top(k) = c[k][i]
          /\ c[k + 1][i] = h.right[c[k][i]]
          /\ c[k + 1][j] = c[k][j]
          /\ i = 1 <=> FirstWins(stride, c[k])
    BY <1>4, <2>1, InnerIs
  <2>3. c[k][1] \in Q /\ c[k][2] \in Q
    BY <1>4, <2>1 DEF Args, Proper
  <2>4. top(k + 1) \in {h.right[top(k)], c[k][j]}
    BY <1>5, <1>6, <2>1, <2>2 DEF Args
  <2>5. CASE top(k + 1) = h.right[top(k)]
    <3>1. top(k) \in Q /\ top(k + 1) \in Kids(h, top(k))
      BY <1>6, <2>2, <2>3, <2>5 DEF Kids
    <3> HIDE DEF top
    <3> QED
      BY <3>1 DEF Ordered
  <2>6. CASE top(k + 1) = c[k][j]
    <3>1. CASE i = 1
      <4>1. proc_stride_comp_f(stride, c[k][1], c[k][2]) = -1
        BY <2>2, <3>1 DEF FirstWins
      <4>2. top(k) = c[k][1] /\ top(k + 1) = c[k][2]
        BY <2>2, <2>6, <3>1
      <4> QED
        BY <4>1, <4>2
    <3>2. CASE i = 2
      <4>1. proc_stride_comp_f(stride, c[k][1], c[k][2]) # -1
        BY <2>2, <3>2 DEF FirstWins
      <4>2. top(k) = c[k][2] /\ top(k + 1) = c[k][1]
        BY <2>2, <2>6, <3>2
      <4> QED
        BY <2>3, <4>1, <4>2
    <3> QED
      BY <3>1, <3>2
  <2> QED
    BY <2>4, <2>5, <2>6
<1>7. ASSUME NEW x \in Q, NEW y \in Kids(g, x)
      PROVE  proc_stride_comp_f(stride, x, y) # 1
  <2>1. CASE \E k \in L : top(k) = x
    <3>1. PICK k \in L : top(k) = x
      BY <2>1
    <3>2. (y = top(k + 1) \/ y = h.left[x]) /\ y # NULL
      BY <1>1, <3>1 DEF Kids
    <3>3. CASE y = top(k + 1)
      BY <1>6, <3>1, <3>2, <3>3
    <3>4. CASE y = h.left[x]
      BY <3>2, <3>4 DEF Ordered, Kids
    <3> QED
      BY <3>2, <3>3, <3>4
  <2>2. CASE \A k \in L : top(k) # x
    <3>1. g.left[x] = h.left[x] /\ g.right[x] = h.right[x]
      BY <1>1, <1>2, <2>2
    <3> QED
      BY <3>1 DEF Ordered, Kids
  <2> QED
    BY <2>1, <2>2
<1> QED
  BY <1>7 DEF Ordered, g

-----------------------------------------------------------------------------
(* Inserting and removing the root.                                        *)
IsHeap(h, Q) ==
  /\ HeapType(h)
  /\ Forest(h, Q, {h.root} \ {NULL})
  /\ h.root # NULL => h.parent[h.root] = NULL

LEMMA NoHeapIsHeap == IsHeap(NoHeap, {}) /\ \A stride : Ordered(stride, NoHeap, {})
<1>1. HeapType(NoHeap) /\ NoHeap.root = NULL
  BY DEF NoHeap, HeapType, Node
<1> QED
  BY <1>1 DEF IsHeap, Forest, Ordered

LEMMA RootIn ==
  ASSUME NEW h, NEW Q, IsHeap(h, Q)
  PROVE  Q \subseteq Proc /\ (Q = {} <=> h.root = NULL) /\ (h.root # NULL => h.root \in Q)
<1> DEFINE R == {h.root} \ {NULL}
<1>1. Forest(h, Q, R)
  BY DEF IsHeap
<1>2. h.root = NULL => Q = {}
  <2> SUFFICES ASSUME h.root = NULL PROVE Q \subseteq {}
    OBVIOUS
  <2>1. R \subseteq {} /\ \A x \in {} \cap Q : Kids(h, x) \subseteq {}
    OBVIOUS
  <2> HIDE DEF R
  <2> QED
    BY <1>1, <2>1 DEF Forest
<1> QED
  BY <1>1, <1>2 DEF Forest

LEMMA InsertKeeps ==
  ASSUME NEW stride, NEW h, NEW Q, IsHeap(h, Q), NEW p \in Proc \ Q
  PROVE  LET g == skew_heap_insert(stride, h, p)
         IN  /\ IsHeap(g, Q \cup {p})
             /\ Ordered(stride, h, Q) /\
                (\A x, y \in Q \cup {p} : proc_stride_comp_f(stride, x, y) = 1 =>
                                            proc_stride_comp_f(stride, y, x) = -1)
                => Ordered(stride, g, Q \cup {p})
<1> DEFINE i == skew_heap_init(h, p)
           g == skew_heap_merge(stride, i, h.root, p)
           Q2 == Q \cup {p}
           R == {h.root} \ {NULL}
           R2 == {h.root, p} \ {NULL}
<1>1. /\ HeapType(h) /\ Forest(h, Q, R) /\ NULL \notin Proc /\ Q \subseteq Proc
      /\ h.root \in Node /\ (h.root # NULL => h.root \in Q) /\ p # NULL
  BY RootIn, nProcNat DEF IsHeap, HeapType
<1>2. /\ HeapType(i)
      /\ i.left[p] = NULL /\ i.right[p] = NULL /\ i.parent[p] = NULL
      /\ \A x \in Proc \ {p} : /\ i.left[x] = h.left[x] /\ i.right[x] = h.right[x]
                               /\ i.parent[x] = h.parent[x]
  BY <1>1 DEF skew_heap_init, HeapType, Node
<1> HIDE DEF i
<1>3. Kids(i, p) = {} /\ \A x \in Q : x \in Proc \ {p} /\ Kids(i, x) = Kids(h, x)
  BY <1>1, <1>2 DEF Kids
<1>4. Forest(i, Q2, R2)
  <2>1. Q2 \subseteq Proc /\ R2 \subseteq Q2
    BY <1>1
  <2>2. ASSUME NEW x \in Q2
        PROVE  /\ Kids(i, x) \subseteq Q2 \ R2
               /\ i.left[x] = i.right[x] => i.left[x] = NULL
               /\ \A y \in Kids(i, x) : i.parent[y] = x
    <3>1. CASE x = p
      BY <1>2, <1>3, <3>1
    <3>2. CASE x \in Q
      <4>1. Kids(h, x) \subseteq Q \ R /\ (h.left[x] = h.right[x] => h.left[x] = NULL)
            /\ \A y \in Kids(h, x) : h.parent[y] = x
        BY <1>1, <3>2 DEF Forest
      <4> QED
        BY <1>1, <1>2, <1>3, <3>2, <4>1
    <3> QED
      BY <3>1, <3>2
  <2>3. ASSUME NEW S, R2 \subseteq S, \A x \in S \cap Q2 : Kids(i, x) \subseteq S
        PROVE  Q2 \subseteq S
    <3>1. R \subseteq S /\ \A x \in S \cap Q : Kids(h, x) \subseteq S
      BY <1>3, <2>3
    <3>2. Q \subseteq S
      BY <1>1, <3>1 DEF Forest
    <3> QED
      BY <1>1, <2>3, <3>2
  <2> QED
    BY <2>1, <2>2, <2>3 DEF Forest
<1>5. Mergeable(i, Q2, h.root, p)
  <2>1. h.root \in Node /\ p \in Node /\ h.root # p
    BY <1>1 DEF Node
  <2> HIDE DEF Q2
  <2> QED
    BY <1>2, <1>4, <2>1 DEF Mergeable
<1>6. /\ HeapType(g) /\ Forest(g, Q2, {g.root} \ {NULL})
      /\ g.root # NULL => g.root \in {h.root, p} /\ g.parent[g.root] = i.parent[g.root]
  <2> HIDE DEF Q2
  <2>1. IsTree(g, Q2)
    BY <1>5, MergeForest
  <2>2. RootFrom(g, i, h.root, p)
    BY <1>5, MergeForest
  <2> HIDE DEF g
  <2> QED
    BY <2>1, <2>2 DEF IsTree, RootFrom
<1>7. Ordered(stride, h, Q) => Ordered(stride, i, Q2)
  BY <1>3 DEF Ordered
<1>8. Ordered(stride, i, Q2) /\
        (\A x, y \in Q2 : proc_stride_comp_f(stride, x, y) = 1 =>
                            proc_stride_comp_f(stride, y, x) = -1)
      => Ordered(stride, g, Q2)
  BY <1>5, MergeOrdered
<1> HIDE DEF g
<1>9. g.root # NULL => g.parent[g.root] = NULL
  BY <1>1, <1>2, <1>6 DEF IsHeap
<1>10. IsHeap(g, Q2)
  BY <1>6, <1>9 DEF IsHeap
<1>11. skew_heap_insert(stride, h, p) = g
  BY DEF skew_heap_insert, g, i
<1> QED
  BY <1>7, <1>8, <1>10, <1>11

LEMMA RemoveKeeps ==
  ASSUME NEW stride, NEW h, NEW Q, IsHeap(h, Q), h.root # NULL
  PROVE  LET g == skew_heap_remove(stride, h, h.root)
             Q2 == Q \ {h.root}
         IN  /\ IsHeap(g, Q2)
             /\ Ordered(stride, h, Q2) /\
                (\A x, y \in Q2 : proc_stride_comp_f(stride, x, y) = 1 =>
                                    proc_stride_comp_f(stride, y, x) = -1)
                => Ordered(stride, g, Q2)
<1> DEFINE p == h.root
           Q2 == Q \ {p}
           l == h.left[p]
           r == h.right[p]
           m == skew_heap_merge(stride, h, l, r)
           g == Adopted(m, NULL)
           R2 == {l, r} \ {NULL}
<1>1. /\ HeapType(h) /\ Forest(h, Q, {p}) /\ NULL \notin Proc /\ Q \subseteq Proc
      /\ p \in Q /\ h.parent[p] = NULL
  <2>1. {p} \ {NULL} = {p}
    OBVIOUS
  <2> QED
    BY <2>1, RootIn, nProcNat DEF IsHeap
<1>2. /\ \A x \in Q : Kids(h, x) \subseteq Q2
      /\ \A x \in Q : h.left[x] = h.right[x] => h.left[x] = NULL
      /\ \A x \in Q : \A y \in Kids(h, x) : h.parent[y] = x
  BY <1>1 DEF Forest
<1>3. Kids(h, p) = R2 /\ R2 \subseteq Q2 /\ l \in Node /\ r \in Node /\ (l = r => l = NULL)
  BY <1>1, <1>2 DEF Kids, HeapType
<1>4. Forest(h, Q2, R2)
  <2>1. ASSUME NEW x \in Q2 PROVE Kids(h, x) \subseteq Q2 \ R2
    BY <1>1, <1>2, <1>3
  <2>2. ASSUME NEW S, R2 \subseteq S, \A x \in S \cap Q2 : Kids(h, x) \subseteq S
        PROVE  Q2 \subseteq S
    <3>1. \A x \in (S \cup {p}) \cap Q : Kids(h, x) \subseteq S \cup {p}
      BY <1>3, <2>2
    <3>2. Q \subseteq S \cup {p}
      BY <1>1, <3>1 DEF Forest
    <3> QED
      BY <3>2
  <2> QED
    BY <1>1, <1>2, <1>3, <2>1, <2>2 DEF Forest
<1>5. Mergeable(h, Q2, l, r)
  BY <1>1, <1>3, <1>4 DEF Mergeable
<1>6. HeapType(m) /\ Forest(m, Q2, {m.root} \ {NULL})
  <2>1. IsTree(m, Q2)
    BY <1>5, MergeForest
  <2> QED
    BY <2>1 DEF IsTree
<1>7. Ordered(stride, h, Q2) /\
        (\A x, y \in Q2 : proc_stride_comp_f(stride, x, y) = 1 =>
                            proc_stride_comp_f(stride, y, x) = -1)
      => Ordered(stride, m, Q2)
  BY <1>5, MergeOrdered
<1>8. skew_heap_remove(stride, h, p) = g
  BY <1>1 DEF skew_heap_remove
<1> HIDE DEF m
<1>9. /\ HeapType(g) /\ g.root = m.root /\ g.left = m.left /\ g.right = m.right
      /\ m.root # NULL => m.root \in Q2 /\ g.parent[m.root] = NULL
      /\ \A x \in Q2 : x # m.root => g.parent[x] = m.parent[x]
  <2>1. CASE m.root = NULL
    BY <1>1, <1>6, <2>1 DEF Adopted, HeapType, Node
  <2>2. CASE m.root # NULL
    <3>1. m.root \in Q2 /\ m.root \in Proc
      BY <1>1, <1>6, <2>2 DEF Forest
    <3> QED
      BY <1>1, <1>6, <2>2, <3>1 DEF Adopted, HeapType, Node
  <2> QED
    BY <2>1, <2>2
<1> HIDE DEF g
<1>10. \A x : Kids(g, x) = Kids(m, x)
  BY <1>9 DEF Kids
<1>11. Forest(g, Q2, {g.root} \ {NULL})
  <2>1. \A x \in Q2 : \A y \in Kids(m, x) : g.parent[y] = x
    <3> SUFFICES ASSUME NEW x \in Q2, NEW y \in Kids(m, x) PROVE g.parent[y] = x
      OBVIOUS
    <3>1. y \in Q2 \ ({m.root} \ {NULL}) /\ m.parent[y] = x /\ y # NULL
      BY <1>6 DEF Forest, Kids
    <3> QED
      BY <1>9, <3>1
  <2>2. /\ Q2 \subseteq Proc /\ {m.root} \ {NULL} \subseteq Q2
        /\ \A x \in Q2 : Kids(m, x) \subseteq Q2 \ ({m.root} \ {NULL})
        /\ \A x \in Q2 : m.left[x] = m.right[x] => m.left[x] = NULL
        /\ \A S : {m.root} \ {NULL} \subseteq S /\ (\A x \in S \cap Q2 : Kids(m, x) \subseteq S)
              => Q2 \subseteq S
    BY <1>6 DEF Forest
  <2> HIDE DEF Q2
  <2> QED
    BY <1>9, <1>10, <2>1, <2>2 DEF Forest
<1>12. IsHeap(g, Q2)
  BY <1>9, <1>11 DEF IsHeap
<1>13. Ordered(stride, m, Q2) => Ordered(stride, g, Q2)
  BY <1>10 DEF Ordered
<1> QED
  BY <1>7, <1>8, <1>12, <1>13

(* What the property says of a heap.                                       *)
LEMMA HeapIsTreelike ==
  ASSUME NEW h, NEW Q, IsHeap(h, Q)
  PROVE  Members(h) = Q /\ Treelike(h)
<1> DEFINE R == {h.root} \ {NULL}
           Closed == {S \in SUBSET Node :
                        /\ h.root \in S
                        /\ \A x \in S \ {NULL} : h.left[x] \in S /\ h.right[x] \in S}
<1>1. /\ HeapType(h) /\ Forest(h, Q, R) /\ NULL \notin Proc /\ Q \subseteq Proc /\ NULL \in Node
      /\ h.root # NULL => h.parent[h.root] = NULL /\ h.root \in Q
  BY RootIn, nProcNat DEF IsHeap, Node
<1>2. Q \cup {NULL} \in Closed
  <2>1. Q \cup {NULL} \in SUBSET Node /\ h.root \in Q \cup {NULL}
    BY <1>1 DEF Node
  <2>2. \A x \in Q : Kids(h, x) \subseteq Q
    BY <1>1 DEF Forest
  <2> QED
    BY <2>1, <2>2 DEF Kids
<1>3. ASSUME NEW S \in Closed PROVE Q \subseteq S
  <2>1. R \subseteq S
    BY <1>3
  <2>2. \A x \in S \cap Q : Kids(h, x) \subseteq S
    BY <1>1, <1>3 DEF Kids
  <2> QED
    BY <1>1, <2>1, <2>2 DEF Forest
<1>4. Members(h) = Q
  <2>1. Members(h) = {x \in Proc : \A S \in Closed : x \in S}
    BY DEF Members
  <2> HIDE DEF Closed
  <2> QED
    BY <1>1, <1>2, <1>3, <2>1
<1>5. ASSUME NEW y \in Q, y # h.root PROVE \E x \in Q : y \in Kids(h, x)
  <2> SUFFICES ASSUME \A x \in Q : y \notin Kids(h, x) PROVE FALSE
    OBVIOUS
  <2>1. R \subseteq Q \ {y} /\ \A x \in (Q \ {y}) \cap Q : Kids(h, x) \subseteq Q \ {y}
    BY <1>1, <1>5 DEF Forest
  <2> QED
    BY <1>1, <2>1 DEF Forest
<1>6. /\ \A x \in Q : \A y \in Kids(h, x) : h.parent[y] = x
      /\ \A x \in Q : h.left[x] = h.right[x] => h.left[x] = NULL
      /\ \A x \in Q : Kids(h, x) \subseteq Q \ R
  BY <1>1 DEF Forest
<1>7. ASSUME NEW x \in Q, NEW y \in Q
      PROVE  h.parent[y] = x <=> y \in {h.left[x], h.right[x]}
  <2>1. y \in {h.left[x], h.right[x]} <=> y \in Kids(h, x)
    BY <1>1 DEF Kids
  <2>2. ASSUME h.parent[y] = x PROVE y \in Kids(h, x)
    <3>1. y # h.root
      BY <1>1, <2>2
    <3>2. PICK z \in Q : y \in Kids(h, z)
      BY <1>5, <3>1
    <3> QED
      BY <1>6, <2>2, <3>2
  <2> QED
    BY <1>6, <2>1, <2>2
<1> QED
  BY <1>1, <1>4, <1>6, <1>7 DEF Treelike

-----------------------------------------------------------------------------
(* The scheduler.                                                          *)
Ready == Proc \ (asleep \cup {current})

ListOK(q, Q) ==
  /\ q \in Seq(Proc)
  /\ \A i, j \in 1..Len(q) : q[i] = q[j] => i = j
  /\ Q = {q[i] : i \in 1..Len(q)}

(* The queue of a class holds the processes of Q.                          *)
Holds(class, list, pool, Q) ==
  \/ class = "RR" /\ pool = NoHeap /\ ListOK(list, Q)
  \/ class = "stride" /\ list = <<>> /\ IsHeap(pool, Q)

SchedInv ==
  /\ current \in Proc \cup {idleproc}
  /\ asleep \subseteq Proc /\ current \notin asleep
  /\ Holds(sched_class, run_list, lab6_run_pool, Ready)
  /\ proc_num = Cardinality(Ready)

LEMMA AppendOK ==
  ASSUME NEW q, NEW Q, ListOK(q, Q), NEW p \in Proc \ Q
  PROVE  ListOK(Append(q, p), Q \cup {p})
<1> DEFINE s == Append(q, p)
<1>1. q \in Seq(Proc) /\ Len(q) \in Nat /\ \A i \in 1..Len(q) : q[i] \in Q /\ q[i] # p
  BY DEF ListOK
<1>2. /\ s \in Seq(Proc) /\ Len(s) = Len(q) + 1 /\ s[Len(q) + 1] = p
      /\ \A i \in 1..Len(q) : s[i] = q[i]
  BY <1>1
<1> HIDE DEF s
<1>3. \A i \in 1..Len(s) : i \in 1..Len(q) \/ i = Len(q) + 1
  BY <1>1, <1>2
<1>4. \A i, j \in 1..Len(s) : s[i] = s[j] => i = j
  BY <1>1, <1>2, <1>3 DEF ListOK
<1>5. Q \cup {p} = {s[i] : i \in 1..Len(s)}
  <2>1. \A x \in Q : \E i \in 1..Len(s) : x = s[i]
    <3> SUFFICES ASSUME NEW x \in Q PROVE \E i \in 1..Len(s) : x = s[i]
      OBVIOUS
    <3>1. PICK i \in 1..Len(q) : x = q[i]
      BY DEF ListOK
    <3> QED
      BY <1>1, <1>2, <3>1
  <2>2. p = s[Len(q) + 1] /\ Len(q) + 1 \in 1..Len(s)
    BY <1>1, <1>2
  <2>3. \A i \in 1..Len(s) : s[i] \in Q \cup {p}
    BY <1>1, <1>2, <1>3
  <2> QED
    BY <2>1, <2>2, <2>3
<1> QED
  BY <1>2, <1>4, <1>5 DEF ListOK, s

LEMMA TailOK ==
  ASSUME NEW q, NEW Q, ListOK(q, Q), q # <<>>
  PROVE  Head(q) \in Q /\ ListOK(Tail(q), Q \ {Head(q)})
<1> DEFINE s == Tail(q)  p == Head(q)
<1>1. q \in Seq(Proc) /\ Len(q) \in Nat \ {0} /\ p = q[1]
  BY DEF ListOK
<1>2. /\ s \in Seq(Proc) /\ Len(s) = Len(q) - 1
      /\ \A i \in 1..Len(s) : s[i] = q[i + 1]
  BY <1>1
<1> HIDE DEF s, p
<1>3. \A i \in 1..Len(s) : i + 1 \in 1..Len(q) /\ i + 1 # 1
  BY <1>1, <1>2
<1>4. \A i, j \in 1..Len(s) : s[i] = s[j] => i = j
  <2> SUFFICES ASSUME NEW i \in 1..Len(s), NEW j \in 1..Len(s), s[i] = s[j] PROVE i = j
    OBVIOUS
  <2>1. i + 1 = j + 1
    BY <1>2, <1>3 DEF ListOK
  <2> QED
    BY <2>1
<1>5. 1 \in 1..Len(q) /\ p \in Q
  BY <1>1 DEF ListOK
<1>6. Q \ {p} = {s[i] : i \in 1..Len(s)}
  <2>1. \A i \in 1..Len(s) : s[i] \in Q \ {p}
    BY <1>1, <1>2, <1>3, <1>5 DEF ListOK
  <2>2. ASSUME NEW x \in Q \ {p} PROVE \E i \in 1..Len(s) : x = s[i]
    <3>1. PICK j \in 1..Len(q) : x = q[j]
      BY DEF ListOK
    <3>2. j - 1 \in 1..Len(s) /\ (j - 1) + 1 = j
      BY <1>1, <1>2, <2>2, <3>1
    <3> QED
      BY <1>2, <3>1, <3>2
  <2> QED
    BY <2>1, <2>2
<1> QED
  BY <1>2, <1>4, <1>5, <1>6 DEF ListOK, s, p

LEMMA ReadyFinite ==
  IsFiniteSet(Ready) /\ \A Q \in SUBSET Proc : IsFiniteSet(Q) /\ Cardinality(Q) \in Nat
<1>1. \A Q \in SUBSET Proc : IsFiniteSet(Q) /\ Cardinality(Q) \in Nat
  BY nProcNat, FS_Subset, FS_CardinalityType
<1> QED
  BY <1>1 DEF Ready

(* schedule() takes the next process from the queue.                       *)
Picks(Q) ==
  /\ Holds(sched_class', run_list', lab6_run_pool', Q \ {current'})
  /\ current' \in Q \/ (Q = {} /\ current' = idleproc)

LEMMA RRPicks ==
  ASSUME NEW q, NEW Q, ListOK(q, Q), RR_pick_next(q),
         sched_class' = sched_class, lab6_run_pool = NoHeap, idleproc \notin Q
  PROVE  Picks(Q)
<1>1. sched_class' = "RR" /\ lab6_run_pool' = NoHeap
  BY DEF RR_pick_next
<1>2. CASE q = <<>>
  <2>1. 1..Len(q) = {}
    BY <1>2
  <2>2. Q = {} /\ Q \ {current'} = Q
    BY <2>1 DEF ListOK
  <2>3. current' = idleproc /\ run_list' = q
    BY <1>2 DEF RR_pick_next
  <2>4. ListOK(run_list', Q \ {current'})
    BY <2>2, <2>3
  <2> QED
    BY <1>1, <2>2, <2>3, <2>4 DEF Picks, Holds
<1>3. CASE q # <<>>
  <2>1. current' = Head(q) /\ run_list' = Tail(q)
    BY <1>3 DEF RR_pick_next
  <2>2. Head(q) \in Q /\ ListOK(Tail(q), Q \ {Head(q)})
    BY <1>3, TailOK
  <2>3. ListOK(run_list', Q \ {current'})
    BY <2>1, <2>2
  <2> QED
    BY <1>1, <2>1, <2>2, <2>3 DEF Picks, Holds
<1> QED
  BY <1>2, <1>3

LEMMA stridePicks ==
  ASSUME NEW h, NEW Q, IsHeap(h, Q), stride_pick_next(h),
         sched_class' = sched_class, run_list = <<>>, idleproc \notin Q
  PROVE  Picks(Q)
<1>1. sched_class' = "stride" /\ run_list' = <<>>
  BY DEF stride_pick_next
<1>2. (Q = {} <=> h.root = NULL) /\ (h.root # NULL => h.root \in Q)
  BY RootIn
<1>3. CASE h.root = NULL
  <2>1. current' = idleproc /\ lab6_run_pool' = h /\ Q = {} /\ Q \ {current'} = Q
    BY <1>2, <1>3 DEF stride_pick_next
  <2>2. IsHeap(lab6_run_pool', Q \ {current'})
    BY <2>1
  <2> QED
    BY <1>1, <2>1, <2>2 DEF Picks, Holds
<1>4. CASE h.root # NULL
  <2>1. current' = h.root /\ lab6_run_pool' = skew_heap_remove(lab6_stride', h, h.root)
    BY <1>4 DEF stride_pick_next
  <2>2. IsHeap(skew_heap_remove(lab6_stride', h, h.root), Q \ {h.root})
    BY <1>4, RemoveKeeps
  <2>3. IsHeap(lab6_run_pool', Q \ {current'})
    BY <2>1, <2>2
  <2> QED
    BY <1>1, <1>2, <1>4, <2>1, <2>3 DEF Picks, Holds
<1> QED
  BY <1>3, <1>4

LEMMA ScheduleKeeps ==
  ASSUME SchedInv, NEW back, schedule(back),
         back \in {{}, {current}}, back \subseteq Proc,
         Ready \cup back = Proc \ asleep', asleep' \subseteq Proc
  PROVE  /\ SchedInv'
         /\ Ready' = (Ready \cup back) \ {current'}
         /\ \/ current' \in Ready \cup back
            \/ Ready \cup back = {} /\ current' = idleproc
<1> DEFINE Q == Ready \cup back
<1>1. /\ Q \subseteq Proc /\ idleproc \notin Proc
      /\ current \notin Ready /\ sched_class' = sched_class
      /\ back # {} => back = {current} /\ current \in Proc \ Ready
  BY SchedAssumption DEF Ready, schedule
<1>2. Picks(Q)
  <2>1. CASE sched_class = "RR"
    <3> DEFINE q == IF back = {} THEN run_list ELSE RR_enqueue(run_list, current)
    <3>1. ListOK(run_list, Ready) /\ lab6_run_pool = NoHeap
      BY <2>1 DEF SchedInv, Holds
    <3>2. ListOK(q, Q)
      <4>1. CASE back = {}
        BY <3>1, <4>1
      <4>2. CASE back # {}
        <5>1. ListOK(Append(run_list, current), Ready \cup {current})
          BY <1>1, <3>1, <4>2, AppendOK
        <5> QED
          BY <1>1, <4>2, <5>1 DEF RR_enqueue
      <4> QED
        BY <4>1, <4>2
    <3>3. RR_pick_next(q)
      BY <2>1 DEF schedule, stride_pick_next
    <3> HIDE DEF q, Q
    <3> QED
      BY <1>1, <3>1, <3>2, <3>3, RRPicks
  <2>2. CASE sched_class = "stride"
    <3> DEFINE h == IF back = {} THEN lab6_run_pool ELSE stride_enqueue(lab6_run_pool, current)
    <3>1. IsHeap(lab6_run_pool, Ready) /\ run_list = <<>>
      BY <2>2 DEF SchedInv, Holds
    <3>2. IsHeap(h, Q)
      <4>1. CASE back = {}
        BY <3>1, <4>1
      <4>2. CASE back # {}
        <5>1. IsHeap(skew_heap_insert(lab6_stride, lab6_run_pool, current), Ready \cup {current})
          BY <1>1, <3>1, <4>2, InsertKeeps
        <5> QED
          BY <1>1, <4>2, <5>1 DEF stride_enqueue
      <4> QED
        BY <4>1, <4>2
    <3>3. stride_pick_next(h)
      BY <2>2 DEF schedule, RR_pick_next
    <3> HIDE DEF h, Q
    <3> QED
      BY <1>1, <3>1, <3>2, <3>3, stridePicks
  <2> QED
    BY <2>1, <2>2 DEF SchedInv, Holds
<1>3. current' \in Q \/ (Q = {} /\ current' = idleproc)
  BY <1>2 DEF Picks
<1>4. Ready' = Q \ {current'}
  BY DEF Ready
<1>5. proc_num' = Cardinality(Q \ {current'})
  <2>1. proc_num' = Cardinality(Ready) + Cardinality(back) - (IF current' = idleproc THEN 0 ELSE 1)
    BY DEF schedule, SchedInv
  <2>2. /\ Cardinality(Ready) + Cardinality(back) = Cardinality(Q)
        /\ Cardinality(Ready) \in Nat /\ Cardinality(back) \in Nat /\ Cardinality(Q) \in Nat
        /\ IsFiniteSet(Q)
    <3>1. CASE back = {}
      BY <3>1, ReadyFinite, FS_EmptySet, FS_CardinalityType
    <3>2. CASE back # {}
      <4>1. Cardinality(back) = 1
        BY <1>1, <3>2, FS_Singleton
      <4>2. Cardinality(Ready \cup {current}) = Cardinality(Ready) + 1
        BY <1>1, ReadyFinite, FS_AddElement
      <4>3. Q = Ready \cup {current} /\ Cardinality(Ready) \in Nat
        BY <1>1, <3>2, ReadyFinite, FS_CardinalityType
      <4>4. IsFiniteSet(Q) /\ Cardinality(Q) \in Nat
        BY <1>1, ReadyFinite
      <4> HIDE DEF Q
      <4> QED
        BY <4>1, <4>2, <4>3, <4>4
    <3> QED
      BY <3>1, <3>2
  <2> HIDE DEF Q
  <2>3. CASE current' \in Q
    <3>1. current' # idleproc
      BY <1>1, <2>3
    <3>2. Cardinality(Q \ {current'}) = Cardinality(Q) - 1
      BY <2>2, <2>3, FS_RemoveElement
    <3> QED
      BY <2>1, <2>2, <3>1, <3>2
  <2>4. CASE Q = {} /\ current' = idleproc
    <3>1. Q \ {current'} = Q
      BY <2>4
    <3> QED
      BY <2>1, <2>2, <2>4, <3>1
  <2> QED
    BY <1>3, <2>3, <2>4
<1>6. current' \in Proc \cup {idleproc} /\ current' \notin asleep'
  BY <1>1, <1>3
<1>7. Holds(sched_class', run_list', lab6_run_pool', Ready')
  BY <1>2, <1>4 DEF Picks
<1>8. SchedInv'
  BY <1>4, <1>5, <1>6, <1>7 DEF SchedInv
<1> QED
  BY <1>3, <1>4, <1>8

LEMMA InitHolds == Init => SchedInv /\ Queued = {} /\ sched_class \in {"RR", "stride"}
<1> SUFFICES ASSUME Init PROVE SchedInv /\ Queued = {} /\ sched_class \in {"RR", "stride"}
  OBVIOUS
<1>1. Ready = {} /\ run_list = <<>> /\ lab6_run_pool = NoHeap /\ sched_class \in {"RR", "stride"}
  BY DEF Init, Ready
<1>2. ListOK(<<>>, {})
  BY DEF ListOK
<1>3. Holds(sched_class, run_list, lab6_run_pool, Ready)
  BY <1>1, <1>2, NoHeapIsHeap DEF Holds
<1>4. current = idleproc /\ asleep = Proc /\ proc_num = 0 /\ idleproc \notin Proc
  BY SchedAssumption DEF Init
<1>5. SchedInv
  BY <1>1, <1>3, <1>4, FS_EmptySet DEF SchedInv
<1>6. Members(NoHeap) = {}
  BY NoHeapIsHeap, HeapIsTreelike
<1>7. Queued = {}
  BY <1>1, <1>6 DEF Queued, Listed
<1> QED
  BY <1>1, <1>5, <1>7

LEMMA WakeKeeps ==
  ASSUME SchedInv, NEW p \in Proc, wakeup_proc(p)
  PROVE  SchedInv' /\ Ready' = Ready \cup {p} /\ p \notin Ready
<1>1. /\ p \in asleep /\ asleep' = asleep \ {p} /\ current' = current /\ sched_class' = sched_class
      /\ proc_num' = proc_num + 1
      /\ current \notin asleep /\ p \in Proc \ Ready
  BY DEF wakeup_proc, SchedInv, Ready
<1>2. Ready' = Ready \cup {p}
  BY <1>1 DEF Ready
<1>3. Holds(sched_class', run_list', lab6_run_pool', Ready \cup {p})
  <2>1. CASE sched_class = "RR"
    <3>1. ListOK(run_list, Ready) /\ lab6_run_pool = NoHeap
      BY <2>1 DEF SchedInv, Holds
    <3>2. run_list' = Append(run_list, p) /\ lab6_run_pool' = lab6_run_pool
      BY <2>1 DEF wakeup_proc, RR_enqueue
    <3>3. ListOK(Append(run_list, p), Ready \cup {p})
      BY <1>1, <3>1, AppendOK
    <3>4. ListOK(run_list', Ready \cup {p})
      BY <3>2, <3>3
    <3> QED
      BY <1>1, <2>1, <3>1, <3>2, <3>4 DEF Holds
  <2>2. CASE sched_class = "stride"
    <3>1. IsHeap(lab6_run_pool, Ready) /\ run_list = <<>>
      BY <2>2 DEF SchedInv, Holds
    <3>2. lab6_run_pool' = skew_heap_insert(lab6_stride, lab6_run_pool, p) /\ run_list' = run_list
      BY <2>2 DEF wakeup_proc, stride_enqueue
    <3>3. IsHeap(skew_heap_insert(lab6_stride, lab6_run_pool, p), Ready \cup {p})
      BY <1>1, <3>1, InsertKeeps
    <3>4. IsHeap(lab6_run_pool', Ready \cup {p})
      BY <3>2, <3>3
    <3> QED
      BY <1>1, <2>2, <3>1, <3>2, <3>4 DEF Holds
  <2> QED
    BY <2>1, <2>2 DEF SchedInv, Holds
<1>4. Cardinality(Ready \cup {p}) = Cardinality(Ready) + 1
  BY <1>1, ReadyFinite, FS_AddElement
<1>5. Holds(sched_class', run_list', lab6_run_pool', Ready') /\ proc_num' = Cardinality(Ready')
  BY <1>1, <1>2, <1>3, <1>4 DEF SchedInv
<1>6. current' \in Proc \cup {idleproc} /\ asleep' \subseteq Proc /\ current' \notin asleep'
  BY <1>1 DEF SchedInv
<1>7. SchedInv'
  BY <1>5, <1>6 DEF SchedInv
<1> QED
  BY <1>1, <1>2, <1>7

(* What the three callers of schedule() put back.                          *)
LEMMA CallersPutBack ==
  ASSUME SchedInv, Preempt \/ Yield \/ Sleep
  PROVE  \E back \in {{}, {current} \ {idleproc}} :
           /\ schedule(back)
           /\ back \in {{}, {current}} /\ back \subseteq Proc
           /\ Ready \cup back = Proc \ asleep' /\ asleep' \subseteq Proc
<1>1. /\ current \in Proc \cup {idleproc} /\ idleproc \notin Proc
      /\ asleep \subseteq Proc /\ current \notin asleep
  BY SchedAssumption DEF SchedInv
<1>2. CASE Preempt
  BY <1>1, <1>2 DEF Preempt, Ready
<1>3. CASE Yield
  <2>1. {current} \ {idleproc} = {current} /\ current \in Proc
    BY <1>1, <1>3 DEF Yield
  <2> QED
    BY <1>1, <1>3, <2>1 DEF Yield, Ready
<1>4. CASE Sleep
  <2>1. current \in Proc
    BY <1>4, SchedAssumption DEF Sleep
  <2> QED
    BY <1>1, <1>4, <2>1 DEF Sleep, Ready
<1> QED
  BY <1>2, <1>3, <1>4

(* Neither the timer nor a new priority moves anybody.                     *)
Still == Tick \/ (\E priority \in Priority : lab6_set_priority(priority)) \/ UNCHANGED vars

LEMMA TickKeeps ==
  ASSUME SchedInv, Still
  PROVE  SchedInv' /\ Ready' = Ready
<1>1. /\ sched_class' = sched_class /\ run_list' = run_list /\ lab6_run_pool' = lab6_run_pool
      /\ proc_num' = proc_num /\ current' = current /\ asleep' = asleep
  BY DEF Still, Tick, lab6_set_priority, vars, queue
<1>2. Ready' = Ready
  BY <1>1 DEF Ready
<1> QED
  BY <1>1, <1>2 DEF SchedInv

LEMMA NextKeeps == SchedInv /\ [Next]_vars => SchedInv'
<1> SUFFICES ASSUME SchedInv, [Next]_vars PROVE SchedInv'
  OBVIOUS
<1>1. CASE Preempt \/ Yield \/ Sleep
  BY <1>1, CallersPutBack, ScheduleKeeps
<1>2. CASE Still
  BY <1>2, TickKeeps
<1>3. CASE \E p \in Proc : wakeup_proc(p)
  BY <1>3, WakeKeeps
<1> QED
  BY <1>1, <1>2, <1>3 DEF Next, Still

(* The inductive invariant of the scheduler: the list is free of           *)
(* duplicates, the pointers of the heap form one tree, and either holds    *)
(* exactly the processes that can run and do not.                          *)
THEOREM SchedulerInvariant == Spec => []SchedInv
BY InitHolds, NextKeeps, PTL DEF Spec

LEMMA QueueIsReady ==
  ASSUME SchedInv
  PROVE  /\ Queued = Ready /\ Treelike(lab6_run_pool)
         /\ Len(run_list) = Cardinality(Listed)
<1>1. CASE sched_class = "RR"
  <2>1. lab6_run_pool = NoHeap /\ ListOK(run_list, Ready)
    BY <1>1 DEF SchedInv, Holds
  <2>2. Members(NoHeap) = {} /\ Treelike(NoHeap)
    BY NoHeapIsHeap, HeapIsTreelike
  <2> DEFINE n == Len(run_list)
  <2>3. n \in Nat /\ DOMAIN run_list = 1..n /\ run_list \in [1..n -> Proc]
    BY <2>1 DEF ListOK
  <2>4. Listed = Ready
    BY <2>1, <2>3 DEF ListOK, Listed
  <2>5. Cardinality(Listed) = n
    <3>1. run_list \in Bijection(1..n, Listed)
      BY <2>1, <2>3 DEF Listed, ListOK, Bijection, Injection, Surjection, IsInjective
    <3>2. ExistsBijection(1..n, Listed)
      BY <3>1 DEF ExistsBijection
    <3> QED
      BY <2>3, <3>2, FS_CountingElements
  <2> QED
    BY <2>1, <2>2, <2>4, <2>5 DEF Queued
<1>2. CASE sched_class = "stride"
  <2>1. run_list = <<>> /\ IsHeap(lab6_run_pool, Ready)
    BY <1>2 DEF SchedInv, Holds
  <2>2. Members(lab6_run_pool) = Ready /\ Treelike(lab6_run_pool)
    BY <2>1, HeapIsTreelike
  <2>3. Listed = {} /\ Len(run_list) = 0
    BY <2>1 DEF Listed
  <2> QED
    BY <2>2, <2>3, FS_EmptySet DEF Queued
<1> QED
  BY <1>1, <1>2 DEF SchedInv, Holds

(* Theorem: wakeup_proc and schedule() leave every process in exactly one  *)
(* place, and the pointers of the skew heap sound.                         *)
THEOREM EverybodyInOnePlace == Spec => []OnePlace
<1>1. SchedInv => OnePlace
  BY QueueIsReady DEF OnePlace, SchedInv, Ready
<1> QED
  BY SchedulerInvariant, <1>1, PTL

(* Theorem: schedule() of either class is a step of the abstract class.    *)
THEOREM QueueIsAScheduler == Spec => RunsTheReady
<1>1. Init => Either!Init
  BY InitHolds DEF Init, Either!Init
<1>2. SchedInv => Queued = Ready
  BY QueueIsReady
<1>3. SchedInv' => (Queued = Ready)'
  BY <1>2, PTL
<1>4. SchedInv /\ SchedInv' /\ [Next]_vars => [Either!Next]_(Either!vars)
  <2> SUFFICES ASSUME SchedInv, SchedInv', [Next]_vars
               PROVE  Either!Next \/ UNCHANGED Either!vars
    OBVIOUS
  <2>1. Queued = Ready
    BY QueueIsReady
  <2>2. Queued' = Ready'
    BY <1>3
  <2>3. CASE Preempt \/ Yield \/ Sleep
    <3>1. PICK back \in {{}, {current} \ {idleproc}} :
            /\ schedule(back)
            /\ back \in {{}, {current}} /\ back \subseteq Proc
            /\ Ready \cup back = Proc \ asleep' /\ asleep' \subseteq Proc
      BY <2>3, CallersPutBack
    <3>2. /\ Ready' = (Ready \cup back) \ {current'}
          /\ \/ current' \in Ready \cup back
             \/ Ready \cup back = {} /\ current' = idleproc
      BY <3>1, ScheduleKeeps
    <3> DEFINE q == Ready \cup back
    <3>3. q \in {Queued, Queued \cup ({current} \ {idleproc})}
      BY <2>1, <3>1
    <3>4. Queued' = q \ {current'} /\ (current' \in q \/ (q = {} /\ current' = idleproc))
      BY <2>2, <3>2
    <3>5. current' \in Proc \cup {idleproc}
      BY DEF SchedInv
    <3>6. Either!Switch(current')
      BY <3>3, <3>4 DEF Either!Switch
    <3> QED
      BY <3>5, <3>6 DEF Either!Next
  <2>4. CASE Still
    <3>1. Ready' = Ready /\ current' = current
      BY <2>4, TickKeeps DEF Still, Tick, lab6_set_priority, vars
    <3> QED
      BY <2>1, <2>2, <3>1 DEF Either!vars
  <2>5. CASE \E p \in Proc : wakeup_proc(p)
    <3>1. PICK p \in Proc : wakeup_proc(p)
      BY <2>5
    <3>2. Ready' = Ready \cup {p} /\ p \notin Ready /\ current' = current /\ p # current
      BY <3>1, WakeKeeps DEF wakeup_proc, SchedInv
    <3>3. Either!Wake(p)
      BY <2>1, <2>2, <3>2 DEF Either!Wake
    <3> QED
      BY <3>3 DEF Either!Next
  <2> QED
    BY <2>3, <2>4, <2>5 DEF Next, Still
<1> QED
  BY <1>1, <1>4, SchedulerInvariant, PTL DEF Spec, RunsTheReady

(* Theorem: no process in the list of round robin is overtaken.            *)
THEOREM ListIsFIFO == Spec => NoOvertaking
<1> DEFINE Forward == \A i \in DOMAIN run_list :
                        \/ current' = run_list[i]
                        \/ \E j \in DOMAIN run_list' : j <= i /\ run_list'[j] = run_list[i]
<1>1. SchedInv /\ SchedInv' /\ [Next]_vars => Forward \/ UNCHANGED vars
  <2> SUFFICES ASSUME SchedInv, [Next]_vars, NEW i \in DOMAIN run_list, ~UNCHANGED vars
               PROVE  \/ current' = run_list[i]
                      \/ \E j \in DOMAIN run_list' : j <= i /\ run_list'[j] = run_list[i]
    OBVIOUS
  <2>1. sched_class = "RR" /\ lab6_run_pool = NoHeap /\ run_list \in Seq(Proc)
    BY DEF SchedInv, Holds, ListOK
  <2>2. DOMAIN run_list = 1..Len(run_list) /\ Len(run_list) \in Nat /\ i \in 1..Len(run_list)
    BY <2>1
  <2>3. CASE Preempt \/ Yield \/ Sleep
    <3>1. PICK back : schedule(back) /\ back \in {{}, {current}} /\ back \subseteq Proc
      BY <2>3, CallersPutBack
    <3> DEFINE q == IF back = {} THEN run_list ELSE RR_enqueue(run_list, current)
    <3>2. /\ q \in Seq(Proc) /\ Len(q) \in Nat /\ Len(q) >= Len(run_list)
          /\ q[i] = run_list[i] /\ i \in 1..Len(q)
      <4>1. CASE back = {}
        BY <2>1, <2>2, <4>1
      <4>2. CASE back # {}
        <5>1. current \in Proc /\ q = Append(run_list, current)
          BY <3>1, <4>2 DEF RR_enqueue
        <5> HIDE DEF q
        <5> QED
          BY <2>1, <2>2, <5>1
      <4> QED
        BY <4>1, <4>2
    <3>3. RR_pick_next(q)
      BY <2>1, <3>1 DEF schedule, stride_pick_next
    <3> HIDE DEF q
    <3>4. current' = q[1] /\ run_list' = Tail(q)
      BY <3>2, <3>3 DEF RR_pick_next
    <3>5. CASE i = 1
      BY <3>2, <3>4, <3>5
    <3>6. CASE i # 1
      <4>1. i - 1 \in 1..Len(Tail(q)) /\ Tail(q)[i - 1] = q[i] /\ i - 1 <= i
        BY <3>2, <3>6
      <4>2. DOMAIN Tail(q) = 1..Len(Tail(q))
        BY <3>2, <3>6
      <4> QED
        BY <3>2, <3>4, <4>1, <4>2
    <3> QED
      BY <3>5, <3>6
  <2>4. CASE Still
    <3>1. run_list' = run_list
      BY <2>4 DEF Still, Tick, lab6_set_priority, vars, queue
    <3> QED
      BY <2>2, <3>1
  <2>5. CASE \E p \in Proc : wakeup_proc(p)
    <3>1. PICK p \in Proc : run_list' = Append(run_list, p)
      BY <2>1, <2>5 DEF wakeup_proc, RR_enqueue
    <3>2. i \in 1..Len(Append(run_list, p)) /\ Append(run_list, p)[i] = run_list[i]
          /\ DOMAIN Append(run_list, p) = 1..Len(Append(run_list, p))
      BY <2>1, <2>2
    <3> QED
      BY <2>2, <3>1, <3>2
  <2> QED
    BY <2>3, <2>4, <2>5 DEF Next, Still
<1> QED
  BY <1>1, SchedulerInvariant, PTL DEF Spec, NoOvertaking

-----------------------------------------------------------------------------
(* Strides modulo Mod.                                                     *)
LEMMA Wrapped ==
  ASSUME NEW a \in Int, 0 - Mod <= a, a < 2 * Mod, Mod > 0
  PROVE  a % Mod = IF a < 0 THEN a + Mod ELSE IF a < Mod THEN a ELSE a - Mod
<1> DEFINE q == a \div Mod
           r == a % Mod
<1>1. Mod \in Int /\ Mod > 0
  BY StrideAssumption
<1>2. q \in Int /\ a = Mod * q + r
  BY <1>1
<1>3. r \in 0..Mod - 1
  BY <1>1
<1> HIDE DEF q, r
<1>4. /\ q <= -2 => Mod * q <= 0 - 2 * Mod
      /\ q >= 2 => Mod * q >= 2 * Mod
      /\ q = -1 => Mod * q = 0 - Mod
      /\ q = 0 => Mod * q = 0
      /\ q = 1 => Mod * q = Mod
      /\ Mod * q \in Int
  BY <1>1, <1>2
<1>5. q \in {-1, 0, 1}
  BY <1>1, <1>2, <1>3, <1>4
<1>6. r = IF a < 0 THEN a + Mod ELSE IF a < Mod THEN a ELSE a - Mod
  BY <1>1, <1>2, <1>3, <1>4, <1>5
<1> QED
  BY <1>6 DEF r

LEMMA PassBound ==
  ASSUME NEW n \in Nat \ {0}
  PROVE  Pass(n) \in 0..BIG_STRIDE
<1> DEFINE q == BIG_STRIDE \div n
           r == BIG_STRIDE % n
<1>1. BIG_STRIDE \in Nat /\ n \in Int /\ n > 0
  BY StrideAssumption
<1>2. q \in Int /\ BIG_STRIDE = n * q + r
  BY <1>1
<1>3. r \in 0..n - 1
  BY <1>1
<1> HIDE DEF q, r
<1>4. q < 0 => n * q <= 0 - n
  BY <1>1, <1>2
<1>5. q > BIG_STRIDE => n * q > BIG_STRIDE
  BY <1>1, <1>2
<1>6. n * q \in Int
  BY <1>1, <1>2
<1>7. q \in 0..BIG_STRIDE
  BY <1>1, <1>2, <1>3, <1>4, <1>5, <1>6
<1>8. n # 0
  BY <1>1
<1> QED
  BY <1>7, <1>8 DEF Pass, q

StrideType(stride) == stride \in [Proc -> 0..Mod - 1]

(* How far p is ahead of q.                                                *)
Ahead(stride, p, q) == (stride[p] - stride[q]) % Mod

Window(stride) ==
  \A p, q \in Proc : Ahead(stride, p, q) <= BIG_STRIDE \/ Ahead(stride, p, q) >= Mod - BIG_STRIDE

LEMMA AheadIs ==
  ASSUME NEW stride, StrideType(stride), NEW p \in Proc, NEW q \in Proc
  PROVE  Ahead(stride, p, q) = IF stride[p] < stride[q] THEN stride[p] - stride[q] + Mod
                               ELSE stride[p] - stride[q]
<1>1. stride[p] \in 0..Mod - 1 /\ stride[q] \in 0..Mod - 1 /\ Mod \in Nat
  BY StrideAssumption DEF StrideType
<1> DEFINE a == stride[p] - stride[q]
<1>2. a \in Int /\ 0 - Mod <= a /\ a < Mod /\ Mod > 0 /\ a < 2 * Mod
      /\ (a < 0 <=> stride[p] < stride[q])
  BY <1>1
<1> HIDE DEF a
<1>3. a % Mod = IF a < 0 THEN a + Mod ELSE IF a < Mod THEN a ELSE a - Mod
  BY <1>2, Wrapped
<1>4. a % Mod = IF stride[p] < stride[q] THEN a + Mod ELSE a
  BY <1>2, <1>3
<1> QED
  BY <1>4 DEF Ahead, a

(* Who is ahead of a process is not behind it.                             *)
LEMMA CompOpposite ==
  ASSUME NEW stride, StrideType(stride), NEW p \in Proc, NEW q \in Proc,
         proc_stride_comp_f(stride, p, q) = 1
  PROVE  proc_stride_comp_f(stride, q, p) = -1
<1> DEFINE c == Ahead(stride, p, q)
           d == Ahead(stride, q, p)
<1>1. stride[p] \in 0..Mod - 1 /\ stride[q] \in 0..Mod - 1 /\ Mod \in Nat
  BY StrideAssumption DEF StrideType
<1>2. /\ c = IF stride[p] < stride[q] THEN stride[p] - stride[q] + Mod ELSE stride[p] - stride[q]
      /\ d = IF stride[q] < stride[p] THEN stride[q] - stride[p] + Mod ELSE stride[q] - stride[p]
  BY AheadIs
<1>3. c # 0 /\ c < Mod \div 2
  BY DEF proc_stride_comp_f, Ahead
<1> HIDE DEF c, d
<1>4. d # 0 /\ ~(d < Mod \div 2)
  BY <1>1, <1>2, <1>3
<1> QED
  BY <1>4 DEF proc_stride_comp_f, Ahead, d

(* Within the window: p is not ahead of q iff q is ahead by BIG_STRIDE at  *)
(* most.                                                                   *)
LEMMA NotAhead ==
  ASSUME NEW stride, StrideType(stride), Window(stride), NEW p \in Proc, NEW q \in Proc,
         BIG_STRIDE > 0
  PROVE  proc_stride_comp_f(stride, p, q) # 1 <=> Ahead(stride, q, p) <= BIG_STRIDE
<1> DEFINE c == Ahead(stride, p, q)
           d == Ahead(stride, q, p)
<1>1. /\ stride[p] \in 0..Mod - 1 /\ stride[q] \in 0..Mod - 1
      /\ Mod \in Nat /\ BIG_STRIDE \in Nat /\ 3 * BIG_STRIDE < Mod
  BY StrideAssumption DEF StrideType
<1>2. /\ c = IF stride[p] < stride[q] THEN stride[p] - stride[q] + Mod ELSE stride[p] - stride[q]
      /\ d = IF stride[q] < stride[p] THEN stride[q] - stride[p] + Mod ELSE stride[q] - stride[p]
  BY AheadIs
<1>3. c <= BIG_STRIDE \/ c >= Mod - BIG_STRIDE
  BY DEF Window
<1>4. proc_stride_comp_f(stride, p, q) # 1 <=> c = 0 \/ c >= Mod \div 2
  <2>1. c \in Int /\ Mod \div 2 \in Int
    BY <1>1, <1>2
  <2> QED
    BY <2>1 DEF proc_stride_comp_f, Ahead
<1> HIDE DEF c, d
<1>5. BIG_STRIDE < Mod \div 2 /\ Mod - BIG_STRIDE >= Mod \div 2
  BY <1>1
<1>6. c = 0 \/ c >= Mod \div 2 <=> d <= BIG_STRIDE
  BY <1>1, <1>2, <1>3, <1>5
<1> QED
  BY <1>4, <1>6 DEF d

(* Within the window the comparison is transitive.                         *)
LEMMA CompTransitive ==
  ASSUME NEW stride, StrideType(stride), Window(stride), BIG_STRIDE > 0,
         NEW p \in Proc, NEW q \in Proc, NEW r \in Proc,
         proc_stride_comp_f(stride, p, q) # 1, proc_stride_comp_f(stride, q, r) # 1
  PROVE  proc_stride_comp_f(stride, p, r) # 1
<1>1. Ahead(stride, q, p) <= BIG_STRIDE /\ Ahead(stride, r, q) <= BIG_STRIDE
  BY NotAhead
<1>2. Ahead(stride, r, p) <= BIG_STRIDE \/ Ahead(stride, r, p) >= Mod - BIG_STRIDE
  BY DEF Window
<1>3. /\ stride[p] \in 0..Mod - 1 /\ stride[q] \in 0..Mod - 1 /\ stride[r] \in 0..Mod - 1
      /\ Mod \in Nat /\ BIG_STRIDE \in Nat /\ 3 * BIG_STRIDE < Mod
  BY StrideAssumption DEF StrideType
<1>4. /\ Ahead(stride, q, p) = IF stride[q] < stride[p] THEN stride[q] - stride[p] + Mod
                                                        ELSE stride[q] - stride[p]
      /\ Ahead(stride, r, q) = IF stride[r] < stride[q] THEN stride[r] - stride[q] + Mod
                                                        ELSE stride[r] - stride[q]
      /\ Ahead(stride, r, p) = IF stride[r] < stride[p] THEN stride[r] - stride[p] + Mod
                                                        ELSE stride[r] - stride[p]
  BY AheadIs
<1>5. Ahead(stride, r, p) <= BIG_STRIDE
  BY <1>1, <1>2, <1>3, <1>4
<1> QED
  BY <1>5, NotAhead

LEMMA AdvancedIs ==
  ASSUME NEW x \in 0..Mod - 1, NEW d \in 0..BIG_STRIDE
  PROVE  (x + d) % Mod = IF x + d < Mod THEN x + d ELSE (x + d) - Mod
<1>1. \A a \in Int : 0 <= a /\ a < 2 * Mod => a % Mod = IF a < Mod THEN a ELSE a - Mod
  <2> SUFFICES ASSUME NEW a \in Int, 0 <= a, a < 2 * Mod
               PROVE  a % Mod = IF a < Mod THEN a ELSE a - Mod
    OBVIOUS
  <2>1. Mod > 0 /\ 0 - Mod <= a /\ ~(a < 0)
    BY StrideAssumption
  <2> QED
    BY <2>1, Wrapped
<1>2. x + d \in Int /\ 0 <= x + d /\ x + d < 2 * Mod
  BY StrideAssumption
<1> QED
  BY <1>1, <1>2, Zenon

(* The process that is not ahead of any other may be advanced by           *)
(* BIG_STRIDE at most.                                                     *)
LEMMA AdvanceKeepsWindow ==
  ASSUME NEW stride, StrideType(stride), Window(stride), BIG_STRIDE > 0,
         NEW p \in Proc, NEW d \in 0..BIG_STRIDE,
         \A q \in Proc : proc_stride_comp_f(stride, p, q) # 1
  PROVE  LET s == [stride EXCEPT ![p] = (@ + d) % Mod]
         IN  StrideType(s) /\ Window(s)
<1> DEFINE new == (stride[p] + d) % Mod
           s == [stride EXCEPT ![p] = new]
<1>1. Mod \in Nat /\ BIG_STRIDE \in Nat /\ 3 * BIG_STRIDE < Mod
  BY StrideAssumption
<1>2. stride[p] \in 0..Mod - 1 /\ stride \in [Proc -> 0..Mod - 1]
  BY DEF StrideType
<1>3. new = IF stride[p] + d < Mod THEN stride[p] + d ELSE (stride[p] + d) - Mod
  BY <1>2, AdvancedIs
<1> HIDE DEF new
<1>4. new \in 0..Mod - 1
  BY <1>1, <1>2, <1>3
<1>5. StrideType(s) /\ s[p] = new /\ \A q \in Proc \ {p} : s[q] = stride[q]
  BY <1>2, <1>4 DEF StrideType
<1> HIDE DEF s
<1>6. \A q \in Proc : stride[q] \in 0..Mod - 1
  BY <1>2
<1>7. ASSUME NEW q \in Proc, q # p
      PROVE  /\ Ahead(s, p, q) <= BIG_STRIDE \/ Ahead(s, p, q) >= Mod - BIG_STRIDE
             /\ Ahead(s, q, p) <= BIG_STRIDE \/ Ahead(s, q, p) >= Mod - BIG_STRIDE
  <2>1. Ahead(stride, q, p) <= BIG_STRIDE
    BY NotAhead
  <2>2. Ahead(stride, q, p) = IF stride[q] < stride[p] THEN stride[q] - stride[p] + Mod
                                                       ELSE stride[q] - stride[p]
    BY AheadIs
  <2>3. /\ Ahead(s, p, q) = IF new < stride[q] THEN new - stride[q] + Mod ELSE new - stride[q]
        /\ Ahead(s, q, p) = IF stride[q] < new THEN stride[q] - new + Mod ELSE stride[q] - new
    BY <1>5, <1>7, AheadIs
  <2> QED
    BY <1>1, <1>3, <1>4, <1>6, <2>1, <2>2, <2>3
<1>8. ASSUME NEW q \in Proc, NEW r \in Proc
      PROVE  Ahead(s, q, r) <= BIG_STRIDE \/ Ahead(s, q, r) >= Mod - BIG_STRIDE
  <2>1. CASE q # p /\ r # p
    <3>1. Ahead(s, q, r) = Ahead(stride, q, r)
      BY <1>5, <2>1 DEF Ahead
    <3> QED
      BY <3>1 DEF Window
  <2>2. CASE q = p /\ r = p
    <3>1. Ahead(s, p, p) = 0
      BY <1>4, <1>5, AheadIs
    <3> QED
      BY <1>1, <2>2, <3>1
  <2> QED
    BY <1>7, <2>1, <2>2
<1>9. Window(s)
  BY <1>8 DEF Window
<1> QED
  BY <1>5, <1>9 DEF s, new

(* The root of an ordered heap is not ahead of anybody in it.              *)
LEMMA RootIsMinimum ==
  ASSUME NEW stride, StrideType(stride), Window(stride), BIG_STRIDE > 0,
         NEW h, NEW Q, IsHeap(h, Q), Ordered(stride, h, Q), h.root # NULL
  PROVE  \A q \in Q : proc_stride_comp_f(stride, h.root, q) # 1
<1> DEFINE p == h.root
           S == {q \in Q : proc_stride_comp_f(stride, p, q) # 1}
<1>1. Q \subseteq Proc /\ p \in Q
  BY RootIn
<1>2. Forest(h, Q, {p} \ {NULL})
  BY DEF IsHeap
<1> HIDE DEF p
<1>3. p \in S
  <2>1. Ahead(stride, p, p) = 0
    <3>1. stride[p] \in 0..Mod - 1 /\ Mod \in Nat
      BY <1>1, StrideAssumption DEF StrideType
    <3> QED
      BY <1>1, <3>1, AheadIs
  <2>2. Ahead(stride, p, p) <= BIG_STRIDE
    BY <2>1, StrideAssumption
  <2> QED
    BY <1>1, <2>2, NotAhead
<1>4. ASSUME NEW x \in S \cap Q PROVE Kids(h, x) \subseteq S
  <2> SUFFICES ASSUME NEW y \in Kids(h, x) PROVE y \in S
    OBVIOUS
  <2>1. y \in Q /\ proc_stride_comp_f(stride, x, y) # 1
    BY <1>2 DEF Forest, Ordered
  <2>2. proc_stride_comp_f(stride, p, y) # 1
    BY <1>1, <2>1, CompTransitive
  <2> QED
    BY <2>1, <2>2
<1>5. Q \subseteq S
  <2> HIDE DEF S
  <2> QED
    BY <1>2, <1>3, <1>4 DEF Forest
<1> QED
  BY <1>5 DEF p

(* What stays true of the stride class while nobody sleeps.                *)
StrideInv ==
  /\ sched_class = "stride"
  /\ StrideType(lab6_stride) /\ Window(lab6_stride)
  /\ lab6_priority \in [Proc -> Nat \ {0}]
  /\ Ordered(lab6_stride, lab6_run_pool, Ready)

Awake == current # idleproc => asleep = {}

LEMMA PriorityIsPositive ==
  ASSUME StrideInv, NEW p \in Proc
  PROVE  BIG_STRIDE > 0 /\ Pass(lab6_priority[p]) \in 0..BIG_STRIDE
<1>1. lab6_priority[p] \in Nat \ {0} /\ BIG_STRIDE \in Nat \ {0}
  BY StrideAssumption DEF StrideInv
<1> QED
  BY <1>1, PassBound

(* Only the root is advanced, and the order of the others is that of       *)
(* before.                                                                 *)
LEMMA OrderOfOthers ==
  ASSUME NEW stride, StrideType(stride), NEW s, StrideType(s),
         NEW h, NEW Q, IsHeap(h, Q), Ordered(stride, h, Q), h.root # NULL,
         \A x \in Proc \ {h.root} : s[x] = stride[x]
  PROVE  Ordered(s, skew_heap_remove(s, h, h.root), Q \ {h.root})
<1> DEFINE Q2 == Q \ {h.root}
<1>1. Q \subseteq Proc
  BY RootIn
<1>2. \A x \in Q2 : Kids(h, x) \subseteq Q2
  BY DEF IsHeap, Forest
<1>3. \A x, y \in Q2 : proc_stride_comp_f(s, x, y) = proc_stride_comp_f(stride, x, y)
  BY <1>1 DEF proc_stride_comp_f
<1>4. Ordered(s, h, Q2)
  BY <1>2, <1>3 DEF Ordered
<1>5. \A x, y \in Q2 : proc_stride_comp_f(s, x, y) = 1 => proc_stride_comp_f(s, y, x) = -1
  BY <1>1, CompOpposite
<1> QED
  BY <1>4, <1>5, RemoveKeeps

LEMMA InsertOrdered ==
  ASSUME NEW stride, StrideType(stride), NEW h, NEW Q, IsHeap(h, Q), Ordered(stride, h, Q),
         NEW p \in Proc \ Q
  PROVE  Ordered(stride, skew_heap_insert(stride, h, p), Q \cup {p})
<1>1. \A x, y \in Q \cup {p} : proc_stride_comp_f(stride, x, y) = 1 =>
                                 proc_stride_comp_f(stride, y, x) = -1
  BY RootIn, CompOpposite
<1> QED
  BY <1>1, InsertKeeps

LEMMA ScheduleKeepsOrder ==
  ASSUME SchedInv, StrideInv, Preempt \/ Yield \/ Sleep, Awake'
  PROVE  StrideInv'
<1>1. PICK back :
        /\ schedule(back)
        /\ back \in {{}, {current}} /\ back \subseteq Proc
        /\ Ready \cup back = Proc \ asleep' /\ asleep' \subseteq Proc
  BY CallersPutBack
<1> DEFINE Q == Ready \cup back
           h == IF back = {} THEN lab6_run_pool ELSE stride_enqueue(lab6_run_pool, current)
<1>2. /\ IsHeap(lab6_run_pool, Ready) /\ Ordered(lab6_stride, lab6_run_pool, Ready)
      /\ StrideType(lab6_stride) /\ Window(lab6_stride) /\ sched_class = "stride"
  BY DEF SchedInv, Holds, StrideInv
<1>3. IsHeap(h, Q) /\ Ordered(lab6_stride, h, Q)
  <2>1. CASE back = {}
    BY <1>2, <2>1
  <2>2. CASE back # {}
    <3>1. Q = Ready \cup {current} /\ current \in Proc \ Ready
      BY <1>1, <2>2 DEF Ready
    <3> DEFINE g == skew_heap_insert(lab6_stride, lab6_run_pool, current)
    <3>2. IsHeap(g, Ready \cup {current}) /\ Ordered(lab6_stride, g, Ready \cup {current})
      BY <1>2, <3>1, InsertKeeps, InsertOrdered
    <3>3. h = g
      BY <2>2 DEF stride_enqueue
    <3> HIDE DEF g, h
    <3> QED
      BY <3>1, <3>2, <3>3
  <2> QED
    BY <2>1, <2>2
<1>4. stride_pick_next(h) /\ lab6_priority' = lab6_priority /\ sched_class' = sched_class
  BY <1>1, <1>2 DEF schedule, RR_pick_next
<1>5. Ready' = Q \ {current'}
  BY <1>1, ScheduleKeeps
<1>6. Q = Proc \ asleep'
  BY <1>1
<1> HIDE DEF h, Q
<1>7. (Q = {} <=> h.root = NULL) /\ (h.root # NULL => h.root \in Q) /\ Q \subseteq Proc
  BY <1>3, RootIn
<1>8. CASE h.root = NULL
  <2>1. Ready' = {} /\ lab6_stride' = lab6_stride
    BY <1>4, <1>5, <1>7, <1>8 DEF stride_pick_next
  <2>2. Ordered(lab6_stride', lab6_run_pool', Ready')
    BY <2>1 DEF Ordered
  <2> QED
    BY <1>2, <1>4, <2>1, <2>2 DEF StrideInv
<1>9. CASE h.root # NULL
  <2> DEFINE p == h.root
             d == Pass(lab6_priority[p])
             s == [lab6_stride EXCEPT ![p] = (@ + d) % Mod]
  <2>1. /\ current' = p /\ lab6_stride' = s
        /\ lab6_run_pool' = skew_heap_remove(lab6_stride', h, p)
    BY <1>4, <1>9 DEF stride_pick_next
  <2>2. p \in Proc /\ BIG_STRIDE > 0 /\ d \in 0..BIG_STRIDE
    BY <1>7, <1>9, PriorityIsPositive
  <2>3. Q = Proc
    BY <1>6, <2>1, <2>2, SchedAssumption DEF Awake
  <2>4. \A q \in Q : proc_stride_comp_f(lab6_stride, p, q) # 1
    BY <1>2, <1>3, <1>9, <2>2, RootIsMinimum
  <2>5. \A x \in Proc \ {p} : s[x] = lab6_stride[x]
    BY <1>2 DEF StrideType
  <2> HIDE DEF d
  <2>6. StrideType(s) /\ Window(s)
    BY <1>2, <2>2, <2>3, <2>4, AdvanceKeepsWindow
  <2> HIDE DEF s
  <2>7. Ordered(s, skew_heap_remove(s, h, p), Q \ {p})
    BY <1>2, <1>3, <1>9, <2>5, <2>6, OrderOfOthers
  <2>8. Ordered(lab6_stride', lab6_run_pool', Ready')
    BY <1>5, <2>1, <2>7
  <2> QED
    BY <1>2, <1>4, <2>1, <2>6, <2>8 DEF StrideInv
<1> QED
  BY <1>8, <1>9

LEMMA StrideInvKeeps == SchedInv /\ StrideInv /\ Awake' /\ [Next]_vars => StrideInv'
<1> SUFFICES ASSUME SchedInv, StrideInv, Awake', [Next]_vars PROVE StrideInv'
  OBVIOUS
<1>1. CASE Preempt \/ Yield \/ Sleep
  BY <1>1, ScheduleKeepsOrder
<1>2. CASE Still
  <2>1. /\ lab6_stride' = lab6_stride /\ lab6_run_pool' = lab6_run_pool
        /\ sched_class' = sched_class /\ Ready' = Ready
    BY <1>2, TickKeeps DEF Still, Tick, lab6_set_priority, vars, queue
  <2>2. lab6_priority' \in [Proc -> Nat \ {0}]
    <3>1. CASE lab6_priority' = lab6_priority
      BY <3>1 DEF StrideInv
    <3>2. CASE \E priority \in Priority : lab6_set_priority(priority)
      <4>1. PICK priority \in Priority : lab6_set_priority(priority)
        BY <3>2
      <4> DEFINE new == IF priority = 0 THEN 1 ELSE priority
      <4>2. new \in Nat \ {0}
        BY SchedAssumption, StrideAssumption
      <4> HIDE DEF new
      <4>3. lab6_priority' = [lab6_priority EXCEPT ![current] = new]
        BY <4>1 DEF lab6_set_priority, new
      <4> QED
        BY <4>2, <4>3 DEF StrideInv
    <3> QED
      BY <1>2, <3>1, <3>2 DEF Still, Tick, vars
  <2> QED
    BY <2>1, <2>2 DEF StrideInv
<1>3. CASE \E p \in Proc : wakeup_proc(p)
  <2>1. PICK p \in Proc : wakeup_proc(p)
    BY <1>3
  <2>2. Ready' = Ready \cup {p} /\ p \in Proc \ Ready
    BY <2>1, WakeKeeps
  <2>3. /\ lab6_run_pool' = skew_heap_insert(lab6_stride, lab6_run_pool, p)
        /\ lab6_stride' = lab6_stride /\ lab6_priority' = lab6_priority
        /\ sched_class' = sched_class
    BY <2>1 DEF wakeup_proc, stride_enqueue, StrideInv
  <2>4. Ordered(lab6_stride, skew_heap_insert(lab6_stride, lab6_run_pool, p), Ready \cup {p})
    BY <2>2, InsertOrdered DEF SchedInv, Holds, StrideInv
  <2>5. Ordered(lab6_stride', lab6_run_pool', Ready')
    BY <2>2, <2>3, <2>4
  <2> QED
    BY <2>3, <2>5 DEF StrideInv
<1> QED
  BY <1>1, <1>2, <1>3 DEF Next, Still

(* Theorem: while nobody sleeps, and with a priority for every process,    *)
(* however large, and whatever lab6_set_priority makes of it,              *)
(* the strides stay within one BIG_STRIDE of each other, and the process   *)
(* at the root of the skew heap is one with the smallest stride.           *)
THEOREM StridePicksMinimum == Spec => MinimumWhileAwake
<1> DEFINE Started == /\ sched_class = "stride"
                      /\ StrideWindow
                      /\ \A p \in Proc : lab6_priority[p] > 0
<1>1. Init /\ Started => StrideInv
  <2> SUFFICES ASSUME Init, Started PROVE StrideInv
    OBVIOUS
  <2>1. /\ StrideType(lab6_stride) /\ lab6_priority \in [Proc -> 0..Mod - 1]
        /\ lab6_run_pool = NoHeap /\ Ready = {}
    BY SchedAssumption DEF Init, StrideType, Ready
  <2>2. lab6_priority \in [Proc -> Nat \ {0}]
    BY <2>1, StrideAssumption
  <2>3. Ordered(lab6_stride, lab6_run_pool, Ready)
    BY <2>1, NoHeapIsHeap
  <2>4. Window(lab6_stride)
    BY DEF StrideWindow, Window, Ahead
  <2> QED
    BY <2>1, <2>2, <2>3, <2>4 DEF StrideInv
<1>2. SchedInv /\ StrideInv => PickIsMinimum /\ StrideWindow
  <2> SUFFICES ASSUME SchedInv, StrideInv PROVE PickIsMinimum /\ StrideWindow
    OBVIOUS
  <2>1. StrideWindow
    BY DEF StrideInv, StrideWindow, Window, Ahead
  <2>2. Queued = Ready /\ IsHeap(lab6_run_pool, Ready)
    BY QueueIsReady DEF SchedInv, Holds, StrideInv
  <2>3. CASE lab6_run_pool.root # NULL
    <3>1. lab6_run_pool.root \in Proc
      BY <2>2, <2>3, RootIn
    <3>2. BIG_STRIDE > 0
      BY <3>1, PriorityIsPositive
    <3> QED
      BY <2>1, <2>2, <2>3, <3>2, RootIsMinimum DEF PickIsMinimum, StrideInv
  <2> QED
    BY <2>1, <2>3 DEF PickIsMinimum
<1>3. Undisturbed => Started /\ []Awake
  BY PTL DEF Undisturbed, Awake
<1> HIDE DEF Started
<1> QED
  BY <1>1, <1>2, <1>3, SchedulerInvariant, StrideInvKeeps, PTL DEF Spec, MinimumWhileAwake

-----------------------------------------------------------------------------
(* The timer list.                                                         *)
Entries == Seq([timer : Timer, expires : Nat])

(* Every timer is linked once, and the next tick fires none too late.      *)
DeltaList(l) ==
  /\ l \in Entries
  /\ \A i, j \in 1..Len(l) : l[i].timer = l[j].timer => i = j
  /\ l # <<>> => l[1].expires > 0

IsTicks(f, l, n) == f = [i \in 0..n |-> IF i = 0 THEN 0 ELSE f[i - 1] + l[i].expires]

LEMMA TicksExist ==
  ASSUME NEW l, NEW n \in Nat
  PROVE  \E f : IsTicks(f, l, n)
<1> DEFINE S == {i \in Nat : \E f : IsTicks(f, l, i)}
<1>1. 0 \in S
  <2> DEFINE f == [k \in 0..0 |-> 0]
  <2>1. IsTicks(f, l, 0)
    BY DEF IsTicks
  <2> QED
    BY <2>1
<1>2. ASSUME NEW i \in Nat, i \in S PROVE i + 1 \in S
  <2>1. PICK f : IsTicks(f, l, i)
    BY <1>2
  <2> DEFINE e == f[i] + l[i + 1].expires
             g == [j \in 0..i + 1 |-> IF j = i + 1 THEN e ELSE f[j]]
             d == [j \in 0..i + 1 |-> IF j = 0 THEN 0 ELSE g[j - 1] + l[j].expires]
  <2>2. \A j \in 0..i : f[j] = IF j = 0 THEN 0 ELSE f[j - 1] + l[j].expires
    BY <2>1 DEF IsTicks
  <2>3. ASSUME NEW j \in 0..i + 1 PROVE g[j] = d[j]
    <3>1. CASE j = 0
      BY <2>2, <3>1
    <3>2. CASE j \in 1..i
      <4>1. j \in 0..i /\ j # i + 1 /\ j - 1 \in 0..i + 1 /\ j - 1 # i + 1 /\ j # 0
        BY <3>2
      <4>2. g[j] = f[j] /\ g[j - 1] = f[j - 1]
        BY <4>1
      <4> QED
        BY <2>2, <4>1, <4>2
    <3>3. CASE j = i + 1
      <4>1. g[j] = e /\ j - 1 = i /\ g[i] = f[i] /\ j # 0
        BY <3>3
      <4> QED
        BY <3>3, <4>1
    <3> QED
      BY <3>1, <3>2, <3>3
  <2>4. g = d
    BY <2>3
  <2>5. IsTicks(g, l, i + 1)
    BY <2>4 DEF IsTicks
  <2> QED
    BY <2>5
<1>3. Nat \subseteq S
  <2> HIDE DEF S
  <2> QED
    BY <1>1, <1>2, SetInduction
<1> QED
  BY <1>3

(* The ticks to the entries of a list are the running sums of expires.     *)
LEMMA TicksStep ==
  ASSUME NEW l \in Entries
  PROVE  LET T == TicksTo(l)
         IN  /\ Len(l) \in Nat
             /\ \A i \in 1..Len(l) : l[i].expires \in Nat /\ l[i].timer \in Timer
             /\ T[0] = 0
             /\ \A i \in 1..Len(l) : T[i] = T[i - 1] + l[i].expires
<1> DEFINE T == TicksTo(l)
<1>1. Len(l) \in Nat /\ \A i \in 1..Len(l) : l[i].expires \in Nat /\ l[i].timer \in Timer
  <2> DEFINE R == [timer : Timer, expires : Nat]
  <2>1. \A x \in R : x.expires \in Nat /\ x.timer \in Timer
    OBVIOUS
  <2>2. l \in Seq(R)
    BY DEF Entries
  <2> HIDE DEF R
  <2>3. Len(l) \in Nat /\ \A i \in 1..Len(l) : l[i] \in R
    BY <2>2
  <2> QED
    BY <2>1, <2>3
<1>2. \E f : IsTicks(f, l, Len(l))
  BY <1>1, TicksExist
<1>3. IsTicks(T, l, Len(l))
  BY <1>2 DEF IsTicks, TicksTo
<1> HIDE DEF T
<1>4. \A i \in 0..Len(l) : T[i] = IF i = 0 THEN 0 ELSE T[i - 1] + l[i].expires
  BY <1>3 DEF IsTicks
<1>5. T[0] = 0 /\ \A i \in 1..Len(l) : T[i] = T[i - 1] + l[i].expires
  BY <1>1, <1>4
<1> QED
  BY <1>1, <1>5 DEF T

LEMMA TicksAre ==
  ASSUME NEW l \in Entries, NEW g, g[0] = 0,
         \A i \in 1..Len(l) : g[i] = g[i - 1] + l[i].expires
  PROVE  \A i \in 0..Len(l) : TicksTo(l)[i] = g[i]
<1> DEFINE T == TicksTo(l)
           S == {i \in Nat : i <= Len(l) => T[i] = g[i]}
<1>1. /\ Len(l) \in Nat /\ T[0] = 0
      /\ \A i \in 1..Len(l) : T[i] = T[i - 1] + l[i].expires
  BY TicksStep
<1> HIDE DEF T
<1>2. 0 \in S
  BY <1>1
<1>3. ASSUME NEW i \in Nat, i \in S PROVE i + 1 \in S
  <2> SUFFICES ASSUME i + 1 <= Len(l) PROVE T[i + 1] = g[i + 1]
    OBVIOUS
  <2>1. i + 1 \in 1..Len(l) /\ (i + 1) - 1 = i /\ T[i] = g[i]
    BY <1>1, <1>3
  <2>2. T[i + 1] = T[i] + l[i + 1].expires /\ g[i + 1] = g[i] + l[i + 1].expires
    BY <1>1, <2>1
  <2> QED
    BY <2>1, <2>2
<1>4. Nat \subseteq S
  <2> HIDE DEF S
  <2> QED
    BY <1>2, <1>3, SetInduction
<1> QED
  BY <1>1, <1>4 DEF T

(* They never fall, and are positive from the first on.                    *)
LEMMA TicksRise ==
  ASSUME NEW l, DeltaList(l)
  PROVE  LET T == TicksTo(l)
         IN  /\ \A i \in 0..Len(l) : T[i] \in Nat
             /\ \A i \in 1..Len(l) : T[i] >= l[1].expires /\ T[i] > 0
<1> DEFINE T == TicksTo(l)
           S == {i \in Nat : i <= Len(l) => /\ T[i] \in Nat
                                            /\ i # 0 => T[i] >= l[1].expires}
<1>1. /\ Len(l) \in Nat /\ T[0] = 0
      /\ \A i \in 1..Len(l) : l[i].expires \in Nat
      /\ \A i \in 1..Len(l) : T[i] = T[i - 1] + l[i].expires
  BY TicksStep DEF DeltaList
<1> HIDE DEF T
<1>2. 0 \in S
  BY <1>1
<1>3. ASSUME NEW i \in Nat, i \in S PROVE i + 1 \in S
  <2> SUFFICES ASSUME i + 1 <= Len(l)
               PROVE  T[i + 1] \in Nat /\ T[i + 1] >= l[1].expires
    BY <1>3
  <2>1. /\ i + 1 \in 1..Len(l) /\ (i + 1) - 1 = i /\ T[i] \in Nat
        /\ i # 0 => T[i] >= l[1].expires
        /\ l[i + 1].expires \in Nat /\ l[1].expires \in Nat
    BY <1>1, <1>3
  <2>2. T[i + 1] = T[i] + l[i + 1].expires
    BY <1>1, <2>1
  <2>3. CASE i = 0
    BY <1>1, <2>1, <2>2, <2>3
  <2>4. CASE i # 0
    BY <2>1, <2>2, <2>4
  <2> QED
    BY <2>3, <2>4
<1>4. Nat \subseteq S
  <2> HIDE DEF S
  <2> QED
    BY <1>2, <1>3, SetInduction
<1>5. /\ \A i \in 0..Len(l) : T[i] \in Nat
      /\ \A i \in 1..Len(l) : T[i] >= l[1].expires
  BY <1>1, <1>4
<1>6. \A i \in 1..Len(l) : l # <<>> /\ l[1].expires > 0 /\ l[1].expires \in Nat
  BY <1>1 DEF DeltaList
<1>7. \A i \in 1..Len(l) : T[i] > 0
  BY <1>5, <1>6
<1> QED
  BY <1>5, <1>7 DEF T

(* The ticks ticks of every timer, as l has them.                           *)
LeftIn(l) == [t \in Timer |-> IF t \in Range1(l) THEN TicksTo(l)[IndexOf(l, t)] ELSE 0]

LEMMA LeftIs ==
  ASSUME NEW l, DeltaList(l)
  PROVE  /\ \A i \in 1..Len(l) : l[i].timer \in Timer /\ l[i].timer \in Range1(l)
                                 /\ IndexOf(l, l[i].timer) = i
                                 /\ LeftIn(l)[l[i].timer] = TicksTo(l)[i]
         /\ \A t \in Timer \ Range1(l) : LeftIn(l)[t] = 0
         /\ \A t \in Range1(l) : \E i \in 1..Len(l) : t = l[i].timer
<1>1. /\ l \in Entries /\ Len(l) \in Nat /\ DOMAIN l = 1..Len(l)
      /\ \A i \in 1..Len(l) : l[i].timer \in Timer
  <2>1. l \in Entries
    BY DEF DeltaList
  <2>2. Len(l) \in Nat /\ DOMAIN l = 1..Len(l)
    BY <2>1 DEF Entries
  <2>3. \A i \in 1..Len(l) : l[i].timer \in Timer
    BY <2>1, TicksStep
  <2> QED
    BY <2>1, <2>2, <2>3
<1>2. ASSUME NEW i \in 1..Len(l) PROVE IndexOf(l, l[i].timer) = i /\ l[i].timer \in Range1(l)
  BY <1>1 DEF IndexOf, Range1, DeltaList
<1>3. \A t \in Range1(l) : \E i \in 1..Len(l) : t = l[i].timer
  BY <1>1 DEF Range1
<1> QED
  BY <1>1, <1>2, <1>3 DEF LeftIn

(* Two lists with the ticks of each other's timers.                        *)
LEMMA SameLeft ==
  ASSUME NEW l, DeltaList(l), NEW ticks, ticks = [t \in Timer |-> ticks[t]],
         \A i \in 1..Len(l) : ticks[l[i].timer] = TicksTo(l)[i],
         \A t \in Timer \ Range1(l) : ticks[t] = 0
  PROVE  LeftIn(l) = ticks
<1>1. ASSUME NEW t \in Timer PROVE LeftIn(l)[t] = ticks[t]
  <2>1. CASE t \in Range1(l)
    <3>1. PICK i \in 1..Len(l) : t = l[i].timer
      BY <2>1, LeftIs
    <3> QED
      BY <3>1, LeftIs
  <2>2. CASE t \notin Range1(l)
    BY <2>2, LeftIs
  <2> QED
    BY <2>1, <2>2
<1>2. LeftIn(l) = [t \in Timer |-> LeftIn(l)[t]]
  BY DEF LeftIn
<1> QED
  BY <1>1, <1>2

(* add_timer.                                                              *)
LEMMA ToPlaceIs ==
  ASSUME NEW l, DeltaList(l), NEW n \in Nat
  PROVE  \A i \in 1..Len(l) + 1 : ToPlace(l, n)[i] = n - TicksTo(l)[i - 1]
<1> DEFINE T == TicksTo(l)
           m == ToPlace(l, n)
           g == [i \in 1..Len(l) + 1 |-> n - T[i - 1]]
           S == {i \in Nat : i + 1 \in 1..Len(l) + 1 => m[i + 1] = n - T[i]}
<1>1. /\ Len(l) \in Nat /\ T[0] = 0 /\ \A i \in 0..Len(l) : T[i] \in Nat
      /\ \A i \in 1..Len(l) : l[i].expires \in Nat
      /\ \A i \in 1..Len(l) : T[i] = T[i - 1] + l[i].expires
  BY TicksStep, TicksRise DEF DeltaList
<1> HIDE DEF T
<1>2. g = [i \in 1..Len(l) + 1 |-> IF i = 1 THEN n ELSE g[i - 1] - l[i - 1].expires]
  <2> SUFFICES ASSUME NEW i \in 1..Len(l) + 1
               PROVE  g[i] = IF i = 1 THEN n ELSE g[i - 1] - l[i - 1].expires
    BY Zenon
  <2>1. CASE i = 1
    BY <1>1, <2>1
  <2>2. CASE i # 1
    <3>1. /\ i - 1 \in 1..Len(l) /\ i - 1 \in 1..Len(l) + 1 /\ (i - 1) - 1 \in 0..Len(l)
          /\ i - 1 \in 0..Len(l)
      BY <1>1, <2>2
    <3>2. g[i] = n - T[i - 1] /\ g[i - 1] = n - T[(i - 1) - 1]
      BY <3>1
    <3>3. T[i - 1] = T[(i - 1) - 1] + l[i - 1].expires
      BY <1>1, <3>1
    <3>4. T[i - 1] \in Nat /\ T[(i - 1) - 1] \in Nat /\ l[i - 1].expires \in Nat
      BY <1>1, <3>1
    <3> HIDE DEF g
    <3> QED
      BY <2>2, <3>2, <3>3, <3>4
  <2> QED
    BY <2>1, <2>2
<1>3. m = [i \in 1..Len(l) + 1 |-> IF i = 1 THEN n ELSE m[i - 1] - l[i - 1].expires]
  <2> HIDE DEF g
  <2> QED
    BY <1>2 DEF ToPlace
<1> HIDE DEF m, g
<1>4. \A i \in 1..Len(l) + 1 : m[i] = IF i = 1 THEN n ELSE m[i - 1] - l[i - 1].expires
  BY <1>3
<1>5. 0 \in S
  <2>1. 1 \in 1..Len(l) + 1 /\ n - 0 = n
    BY <1>1
  <2> QED
    BY <1>1, <1>4, <2>1
<1>6. ASSUME NEW i \in Nat, i \in S PROVE i + 1 \in S
  <2> SUFFICES ASSUME (i + 1) + 1 \in 1..Len(l) + 1 PROVE m[(i + 1) + 1] = n - T[i + 1]
    OBVIOUS
  <2>1. /\ i + 1 \in 1..Len(l) + 1 /\ i + 1 \in 1..Len(l) /\ (i + 1) + 1 # 1
        /\ ((i + 1) + 1) - 1 = i + 1 /\ (i + 1) - 1 = i /\ i \in 0..Len(l)
    BY <1>1
  <2>2. m[i + 1] = n - T[i]
    BY <1>6, <2>1
  <2>3. m[(i + 1) + 1] = m[i + 1] - l[i + 1].expires
    BY <1>4, <2>1
  <2>4. T[i + 1] = T[i] + l[i + 1].expires /\ T[i] \in Nat /\ l[i + 1].expires \in Nat
    BY <1>1, <2>1
  <2> QED
    BY <2>2, <2>3, <2>4
<1>7. Nat \subseteq S
  <2> HIDE DEF S
  <2> QED
    BY <1>5, <1>6, SetInduction
<1>8. ASSUME NEW i \in 1..Len(l) + 1 PROVE m[i] = n - T[i - 1]
  <2>1. i - 1 \in Nat /\ (i - 1) + 1 = i
    BY <1>1
  <2> QED
    BY <1>7, <2>1
<1> QED
  BY <1>8 DEF m, T

LEMMA StopsAtIs ==
  ASSUME NEW l, DeltaList(l), NEW n \in Nat
  PROVE  LET i == StopsAt(l, n)
         IN  /\ i \in 1..Len(l) + 1
             /\ \A j \in 1..i - 1 : ToPlace(l, n)[j] >= l[j].expires
             /\ i = Len(l) + 1 \/ ToPlace(l, n)[i] < l[i].expires
<1> DEFINE m == ToPlace(l, n)
           P(i) == /\ \A j \in 1..i - 1 : m[j] >= l[j].expires
                   /\ i = Len(l) + 1 \/ m[i] < l[i].expires
           S == {i \in 1..Len(l) + 1 : i = Len(l) + 1 \/ m[i] < l[i].expires}
<1>1. /\ Len(l) \in Nat /\ \A i \in 1..Len(l) : l[i].expires \in Nat
      /\ \A i \in 1..Len(l) : m[i] \in Int
  <2>1. /\ Len(l) \in Nat /\ \A i \in 1..Len(l) : l[i].expires \in Nat
        /\ \A i \in 0..Len(l) : TicksTo(l)[i] \in Nat
    BY TicksStep, TicksRise DEF DeltaList
  <2>2. ASSUME NEW i \in 1..Len(l) PROVE m[i] \in Int
    <3>1. i \in 1..Len(l) + 1 /\ i - 1 \in 0..Len(l)
      BY <2>1
    <3>2. m[i] = n - TicksTo(l)[i - 1]
      BY <3>1, ToPlaceIs
    <3> QED
      BY <2>1, <3>1, <3>2
  <2> QED
    BY <2>1, <2>2
<1> HIDE DEF m
<1>2. S \subseteq Nat /\ Len(l) + 1 \in S
  BY <1>1
<1>3. PICK i \in S : \A j \in S : i <= j
  <2> HIDE DEF S
  <2> QED
    BY <1>2, LeastNat
<1>4. P(i)
  <2> SUFFICES ASSUME NEW j \in 1..i - 1 PROVE m[j] >= l[j].expires
    BY <1>3
  <2>1. j \in 1..Len(l) /\ j \in 1..Len(l) + 1 /\ ~(i <= j)
    BY <1>1, <1>3
  <2>2. ~(m[j] < l[j].expires)
    BY <1>3, <2>1
  <2> QED
    BY <1>1, <2>1, <2>2
<1>5. \E k \in 1..Len(l) + 1 : P(k)
  BY <1>3, <1>4
<1>6. StopsAt(l, n) = CHOOSE k \in 1..Len(l) + 1 : P(k)
  BY DEF StopsAt, m
<1> HIDE DEF P
<1>7. StopsAt(l, n) \in 1..Len(l) + 1 /\ P(StopsAt(l, n))
  BY <1>5, <1>6
<1> QED
  BY <1>7 DEF P, m

(* l2 is l with entry e linked at i, and x for what was there.             *)
Inserted(l2, l, i, e, x) ==
  /\ l2 \in Entries /\ Len(l2) = Len(l) + 1
  /\ \A j \in 1..i - 1 : l2[j] = l[j]
  /\ l2[i] = e
  /\ i <= Len(l) => l2[i + 1] = x
  /\ \A j \in i + 2..Len(l) + 1 : l2[j] = l[j - 1]

LEMMA InsertBeforeIs ==
  ASSUME NEW l \in Entries, NEW i \in 1..Len(l), NEW t \in Timer, NEW n \in Nat,
         l[i].expires - n \in Nat
  PROVE  Inserted(InsertBefore(l, i, t, n), l, i, Entry(t, n),
                  [l[i] EXCEPT !.expires = @ - n])
<1> DEFINE R == [timer : Timer, expires : Nat]
           e == Entry(t, n)
           x == [l[i] EXCEPT !.expires = @ - n]
           a == SubSeq(l, 1, i - 1)
           b == a \o <<e>>
           c == b \o <<x>>
           d == SubSeq(l, i + 1, Len(l))
           l2 == c \o d
<1>1. l \in Seq(R) /\ Len(l) \in Nat /\ i \in Int /\ i >= 1 /\ i <= Len(l)
  BY DEF Entries
<1>2. e \in R
  BY DEF Entry
<1>3. x \in R
  <2>1. l[i] \in R
    <3> HIDE DEF R
    <3> QED
      BY <1>1
  <2> QED
    BY <2>1
<1> HIDE DEF R, e, x
<1>4. a \in Seq(R) /\ Len(a) = i - 1 /\ \A j \in 1..i - 1 : a[j] = l[j]
  BY <1>1
<1> HIDE DEF a
<1>5. b \in Seq(R) /\ Len(b) = i /\ b[i] = e /\ \A j \in 1..i - 1 : b[j] = a[j]
  <2>1. b = Append(a, e) /\ Len(a) + 1 = i
    BY <1>1, <1>2, <1>4
  <2> HIDE DEF b
  <2> QED
    BY <1>1, <1>2, <1>4, <2>1
<1> HIDE DEF b
<1>6. c \in Seq(R) /\ Len(c) = i + 1 /\ c[i + 1] = x /\ \A j \in 1..i : c[j] = b[j]
  <2>1. c = Append(b, x)
    BY <1>1, <1>3, <1>5
  <2> HIDE DEF c
  <2> QED
    BY <1>1, <1>3, <1>5, <2>1
<1> HIDE DEF c
<1>7. d \in Seq(R) /\ Len(d) = Len(l) - i /\ \A j \in 1..Len(l) - i : d[j] = l[i + j]
  BY <1>1
<1> HIDE DEF d
<1>8. /\ l2 \in Seq(R) /\ Len(l2) = Len(l) + 1
      /\ \A j \in 1..Len(l) + 1 : l2[j] = IF j <= i + 1 THEN c[j] ELSE d[j - (i + 1)]
  <2>1. /\ l2 \in Seq(R) /\ Len(l2) = Len(c) + Len(d)
        /\ \A j \in 1..Len(c) + Len(d) : l2[j] = IF j <= Len(c) THEN c[j] ELSE d[j - Len(c)]
    BY <1>6, <1>7, ConcatProperties
  <2>2. Len(c) = i + 1 /\ Len(c) + Len(d) = Len(l) + 1
    BY <1>1, <1>6, <1>7
  <2> HIDE DEF l2
  <2> QED
    BY <2>1, <2>2
<1> HIDE DEF l2
<1>9. ASSUME NEW j \in 1..i - 1 PROVE l2[j] = l[j]
  <2>1. j \in 1..Len(l) + 1 /\ j <= i + 1 /\ j \in 1..i
    BY <1>1
  <2> QED
    BY <1>4, <1>5, <1>6, <1>8, <2>1
<1>10. l2[i] = e
  <2>1. i \in 1..Len(l) + 1 /\ i <= i + 1 /\ i \in 1..i
    BY <1>1
  <2> QED
    BY <1>5, <1>6, <1>8, <2>1
<1>11. l2[i + 1] = x
  <2>1. i + 1 \in 1..Len(l) + 1 /\ i + 1 <= i + 1
    BY <1>1
  <2> QED
    BY <1>6, <1>8, <2>1
<1>12. ASSUME NEW j \in i + 2..Len(l) + 1 PROVE l2[j] = l[j - 1]
  <2>1. j \in 1..Len(l) + 1 /\ ~(j <= i + 1) /\ j - (i + 1) \in 1..Len(l) - i
        /\ i + (j - (i + 1)) = j - 1
    BY <1>1
  <2>2. l2[j] = d[j - (i + 1)]
    BY <1>8, <2>1
  <2>3. d[j - (i + 1)] = l[i + (j - (i + 1))]
    BY <1>7, <2>1
  <2> QED
    BY <2>1, <2>2, <2>3
<1>13. Inserted(l2, l, i, e, x)
  BY <1>8, <1>9, <1>10, <1>11, <1>12 DEF Inserted, Entries, R
<1>14. l2 = InsertBefore(l, i, t, n)
  BY DEF l2, c, b, a, d, e, x, InsertBefore
<1> QED
  BY <1>13, <1>14 DEF e, x

LEMMA AddKeeps ==
  ASSUME NEW l, DeltaList(l), NEW t \in Timer \ Range1(l), NEW n \in Nat \ {0}
  PROVE  /\ DeltaList(Added(l, t, n))
         /\ LeftIn(Added(l, t, n)) = [LeftIn(l) EXCEPT ![t] = n]
<1> DEFINE T == TicksTo(l)
           i == StopsAt(l, n)
           m == ToPlace(l, n)[i]
           l2 == Added(l, t, n)
           N == Len(l)
           x == [l[i] EXCEPT !.expires = @ - m]
<1>1. /\ l \in Entries /\ N \in Nat /\ T[0] = 0 /\ \A k \in 0..N : T[k] \in Nat
      /\ \A k \in 1..N : l[k].expires \in Nat /\ l[k].timer \in Timer
      /\ \A k \in 1..N : T[k] = T[k - 1] + l[k].expires
  BY TicksStep, TicksRise DEF DeltaList
<1>2. /\ i \in 1..N + 1
      /\ \A j \in 1..i - 1 : ToPlace(l, n)[j] >= l[j].expires
      /\ i = N + 1 \/ m < l[i].expires
  BY StopsAtIs
<1>3. i - 1 \in 0..N /\ m = n - T[i - 1]
  <2>1. i - 1 \in 0..N
    BY <1>1, <1>2
  <2>2. \A k \in 1..N + 1 : ToPlace(l, n)[k] = n - T[k - 1]
    BY ToPlaceIs
  <2>3. i \in 1..N + 1
    BY <1>2
  <2> HIDE DEF i, N
  <2> QED
    BY <2>1, <2>2, <2>3
<1>4. m \in Nat /\ (i = 1 => m = n)
  <2>1. CASE i = 1
    BY <1>1, <1>3, <2>1
  <2>2. CASE i # 1
    <3>1. i - 1 \in 1..i - 1 /\ i - 1 \in 1..N /\ i - 1 \in 1..N + 1 /\ (i - 1) - 1 \in 0..N
      BY <1>1, <1>2, <2>2
    <3>2. ToPlace(l, n)[i - 1] >= l[i - 1].expires
      BY <1>2, <3>1
    <3>3. ToPlace(l, n)[i - 1] = n - T[(i - 1) - 1]
      BY <3>1, ToPlaceIs
    <3>4. T[i - 1] = T[(i - 1) - 1] + l[i - 1].expires
      BY <1>1, <3>1
    <3>5. /\ T[i - 1] \in Nat /\ T[(i - 1) - 1] \in Nat /\ l[i - 1].expires \in Nat
      BY <1>1, <1>3, <3>1
    <3> HIDE DEF T, m, i
    <3> QED
      BY <1>3, <2>2, <3>2, <3>3, <3>4, <3>5
  <2> QED
    BY <2>1, <2>2
<1> HIDE DEF T, i
<1>5. Inserted(l2, l, i, Entry(t, m), x)
  <2>1. CASE i = N + 1
    <3> DEFINE R == [timer : Timer, expires : Nat]
    <3>1. l \in Seq(R)
      BY <1>1 DEF Entries
    <3>2. Entry(t, m) \in R
      BY <1>4 DEF Entry
    <3>3. l2 = Append(l, Entry(t, m))
      BY <2>1 DEF Added, i
    <3> HIDE DEF l2, R, m
    <3>4. /\ l2 \in Seq(R) /\ Len(l2) = N + 1 /\ l2[N + 1] = Entry(t, m)
          /\ \A j \in 1..N : l2[j] = l[j]
      BY <3>1, <3>2, <3>3
    <3>5. /\ \A j \in 1..i - 1 : l2[j] = l[j]
          /\ ~(i <= N)
          /\ \A j \in i + 2..N + 1 : l2[j] = l[j - 1]
      BY <1>1, <2>1, <3>4
    <3> QED
      BY <2>1, <3>4, <3>5 DEF Inserted, Entries, R
  <2>2. CASE i # N + 1
    <3>1. i \in 1..N /\ m < l[i].expires /\ l[i].expires \in Nat
      BY <1>1, <1>2, <2>2
    <3>2. l[i].expires - m \in Nat
      BY <1>4, <3>1
    <3>3. l2 = InsertBefore(l, i, t, m)
      BY <2>2 DEF Added, i
    <3> HIDE DEF l2, m
    <3> QED
      BY <1>1, <1>4, <3>1, <3>2, <3>3, InsertBeforeIs
  <2> QED
    BY <2>1, <2>2
<1>6. i <= N => /\ i \in 1..N /\ m < l[i].expires
                /\ x.timer = l[i].timer /\ x.expires = l[i].expires - m
  <2> SUFFICES ASSUME i <= N PROVE /\ i \in 1..N /\ m < l[i].expires
                                   /\ x.timer = l[i].timer /\ x.expires = l[i].expires - m
    OBVIOUS
  <2>1. i \in 1..N /\ m < l[i].expires
    BY <1>1, <1>2
  <2>2. l[i] \in [timer : Timer, expires : Nat]
    <3> DEFINE R == [timer : Timer, expires : Nat]
    <3>1. l \in Seq(R)
      BY <1>1 DEF Entries
    <3> HIDE DEF R
    <3>2. l[i] \in R
      BY <2>1, <3>1
    <3> QED
      BY <3>2 DEF R
  <2> QED
    BY <2>1, <2>2
<1>7. Entry(t, m).timer = t /\ Entry(t, m).expires = m
  BY DEF Entry
<1> HIDE DEF m, x, l2
<1> DEFINE at(j) == IF j > i THEN j - 1 ELSE j
<1>8. /\ l2 \in Entries /\ Len(l2) = N + 1 /\ l2[i].timer = t /\ l2[i].expires = m
      /\ \A j \in 1..N + 1 : j # i => at(j) \in 1..N /\ l2[j].timer = l[at(j)].timer
  <2>1. ASSUME NEW j \in 1..N + 1, j # i
        PROVE  at(j) \in 1..N /\ l2[j].timer = l[at(j)].timer
    <3>1. CASE j < i
      <4>1. j \in 1..i - 1 /\ at(j) = j /\ j \in 1..N
        BY <1>1, <1>2, <3>1
      <4> QED
        BY <1>5, <4>1 DEF Inserted
    <3>2. CASE j = i + 1
      <4>1. at(j) = i /\ i <= N
        BY <1>1, <1>2, <3>2
      <4> QED
        BY <1>5, <1>6, <3>2, <4>1 DEF Inserted
    <3>3. CASE j > i + 1
      <4>1. j \in i + 2..N + 1 /\ at(j) = j - 1 /\ at(j) \in 1..N
        BY <1>1, <1>2, <3>3
      <4> QED
        BY <1>5, <4>1 DEF Inserted
    <3> QED
      BY <1>1, <1>2, <2>1, <3>1, <3>2, <3>3
  <2> QED
    BY <1>5, <1>7, <2>1 DEF Inserted
<1>9. DeltaList(l2)
  <2>1. ASSUME NEW j \in 1..Len(l2), NEW k \in 1..Len(l2), l2[j].timer = l2[k].timer
        PROVE  j = k
    <3>1. \A y \in 1..N : l[y].timer # t
      <4>1. \A y \in 1..Len(l) : l[y].timer \in Range1(l)
        BY LeftIs
      <4>2. t \notin Range1(l)
        OBVIOUS
      <4> QED
        BY <4>1, <4>2, Zenon
    <3>2. CASE j = i \/ k = i
      <4>1. \A y \in 1..N + 1 : y # i => l2[y].timer # t
        <5> SUFFICES ASSUME NEW y \in 1..N + 1, y # i PROVE l2[y].timer # t
          OBVIOUS
        <5>1. at(y) \in 1..N /\ l2[y].timer = l[at(y)].timer
          BY <1>8
        <5> HIDE DEF at
        <5> QED
          BY <3>1, <5>1
      <4>2. l2[i].timer = t /\ j \in 1..N + 1 /\ k \in 1..N + 1
        BY <1>8
      <4> QED
        BY <2>1, <3>2, <4>1, <4>2
    <3>3. CASE j # i /\ k # i
      <4>1. at(j) = at(k)
        BY <1>8, <2>1, <3>3 DEF DeltaList
      <4> QED
        BY <1>1, <1>2, <1>8, <3>3, <4>1
    <3> QED
      BY <3>2, <3>3
  <2>2. l2[1].expires > 0
    <3>1. CASE i = 1
      BY <1>4, <1>8, <3>1
    <3>2. CASE i # 1
      <4>1. 1 \in 1..i - 1 /\ 1 \in 1..N /\ l # <<>>
        BY <1>1, <1>2, <3>2
      <4> QED
        BY <1>5, <4>1 DEF Inserted, DeltaList
    <3> QED
      BY <3>1, <3>2
  <2> QED
    BY <1>8, <2>1, <2>2 DEF DeltaList
<1> DEFINE g == [j \in 0..N + 1 |-> IF j < i THEN T[j] ELSE IF j = i THEN n ELSE T[j - 1]]
<1>10. g[0] = 0 /\ \A j \in 1..Len(l2) : g[j] = g[j - 1] + l2[j].expires
  <2>1. g[0] = 0
    BY <1>1, <1>2
  <2>2. ASSUME NEW j \in 1..N + 1 PROVE g[j] = g[j - 1] + l2[j].expires
    <3>0. j \in 0..N + 1 /\ j - 1 \in 0..N + 1
      BY <1>1
    <3>1. CASE j < i
      <4>1. j \in 1..i - 1 /\ j \in 1..N /\ j - 1 < i
        BY <1>1, <1>2, <3>1
      <4>2. g[j] = T[j] /\ g[j - 1] = T[j - 1] /\ l2[j] = l[j]
        BY <1>5, <3>0, <3>1, <4>1 DEF Inserted
      <4> HIDE DEF g
      <4> QED
        BY <1>1, <4>1, <4>2
    <3>2. CASE j = i
      <4>1. g[j] = n /\ g[j - 1] = T[j - 1]
        BY <1>1, <1>2, <3>0, <3>2
      <4>2. T[j - 1] \in Nat
        BY <1>1, <1>3, <3>2
      <4> HIDE DEF g
      <4> QED
        BY <1>3, <1>8, <3>2, <4>1, <4>2
    <3>3. CASE j = i + 1
      <4>1. ~(j < i) /\ j # i /\ j - 1 = i /\ ~(i < i) /\ i <= N /\ i \in 0..N + 1
        BY <1>1, <1>2, <3>3
      <4>2. g[j] = T[i] /\ g[j - 1] = n
        BY <3>0, <4>1
      <4>3. l2[j].expires = l[i].expires - m
        BY <1>5, <1>6, <3>3, <4>1 DEF Inserted
      <4>4. T[i] = T[i - 1] + l[i].expires /\ T[i - 1] \in Nat /\ l[i].expires \in Nat
        BY <1>1, <1>3, <1>6, <4>1
      <4> HIDE DEF g
      <4> QED
        BY <1>3, <4>2, <4>3, <4>4
    <3>4. CASE j > i + 1
      <4>1. /\ ~(j < i) /\ j # i /\ ~(j - 1 < i) /\ j - 1 # i
            /\ j \in i + 2..N + 1 /\ j - 1 \in 1..N
        BY <1>1, <1>2, <3>4
      <4>2. g[j] = T[j - 1] /\ g[j - 1] = T[(j - 1) - 1] /\ l2[j] = l[j - 1]
        BY <1>5, <3>0, <4>1 DEF Inserted
      <4> HIDE DEF g
      <4> QED
        BY <1>1, <4>1, <4>2
    <3> QED
      BY <1>1, <1>2, <3>1, <3>2, <3>3, <3>4
  <2> QED
    BY <1>8, <2>1, <2>2
<1>11. \A j \in 0..N + 1 : TicksTo(l2)[j] = g[j]
  <2> HIDE DEF g
  <2>1. l2 \in Entries
    BY <1>8
  <2>2. \A j \in 0..Len(l2) : TicksTo(l2)[j] = g[j]
    BY <1>10, <2>1, TicksAre
  <2> QED
    BY <1>8, <2>2
<1> DEFINE ticks == [LeftIn(l) EXCEPT ![t] = n]
<1>12. ASSUME NEW j \in 1..Len(l2) PROVE ticks[l2[j].timer] = TicksTo(l2)[j]
  <2>1. j \in 1..N + 1 /\ j \in 0..N + 1
    BY <1>1, <1>8
  <2>2. CASE j = i
    BY <1>8, <1>11, <2>1, <2>2 DEF LeftIn
  <2>3. CASE j # i
    <3>1. at(j) \in 1..N /\ l2[j].timer = l[at(j)].timer
      BY <1>8, <2>1, <2>3
    <3>2. l[at(j)].timer # t /\ l[at(j)].timer \in Timer /\ LeftIn(l)[l[at(j)].timer] = T[at(j)]
      BY <3>1, LeftIs DEF T
    <3>3. ticks[l2[j].timer] = T[at(j)]
      BY <3>1, <3>2 DEF LeftIn
    <3>4. g[j] = T[at(j)]
      BY <1>1, <1>2, <2>1, <2>3
    <3> QED
      BY <1>11, <2>1, <3>3, <3>4
  <2> QED
    BY <2>2, <2>3
<1>13. ASSUME NEW u \in Timer \ Range1(l2) PROVE ticks[u] = 0
  <2>1. u # t
    <3>1. i \in 1..Len(l2)
      BY <1>1, <1>2, <1>8
    <3> QED
      BY <1>8, <1>9, <3>1, LeftIs
  <2>2. u \notin Range1(l)
    <3> SUFFICES ASSUME u \in Range1(l) PROVE FALSE
      OBVIOUS
    <3>1. PICK k \in 1..N : u = l[k].timer
      BY LeftIs
    <3> DEFINE j == IF k < i THEN k ELSE k + 1
    <3>2. j \in 1..N + 1 /\ j # i /\ at(j) = k
      BY <1>1, <1>2
    <3> HIDE DEF j, at
    <3>3. l2[j].timer = u /\ j \in 1..Len(l2)
      BY <1>8, <3>1, <3>2
    <3> QED
      BY <1>9, <3>3, LeftIs
  <2> QED
    BY <2>1, <2>2, LeftIs DEF LeftIn
<1>14. ticks = [u \in Timer |-> ticks[u]]
  BY DEF LeftIn
<1> HIDE DEF ticks
<1>15. LeftIn(l2) = ticks
  BY <1>9, <1>12, <1>13, <1>14, SameLeft
<1> QED
  BY <1>9, <1>15 DEF l2, ticks

(* del_timer.                                                              *)
LEMMA DelKeeps ==
  ASSUME NEW l, DeltaList(l), NEW i \in 1..Len(l)
  PROVE  /\ DeltaList(Without(l, i))
         /\ LeftIn(Without(l, i)) = [LeftIn(l) EXCEPT ![l[i].timer] = 0]
<1> DEFINE T == TicksTo(l)
           N == Len(l)
           l2 == Without(l, i)
           R == [timer : Timer, expires : Nat]
           at(j) == IF j < i THEN j ELSE j + 1
<1>1. /\ l \in Entries /\ N \in Nat /\ T[0] = 0 /\ \A k \in 0..N : T[k] \in Nat
      /\ \A k \in 1..N : l[k].expires \in Nat /\ l[k].timer \in Timer
      /\ \A k \in 1..N : T[k] = T[k - 1] + l[k].expires
  BY TicksStep, TicksRise DEF DeltaList
<1>2. \A k \in 1..N : l[k] \in R
  <2>1. l \in Seq(R)
    BY <1>1 DEF Entries
  <2> HIDE DEF R
  <2> QED
    BY <2>1
<1>3. i \in Int /\ i >= 1 /\ i <= N
  BY <1>1
<1> HIDE DEF T, N
<1>4. ASSUME NEW j \in 1..N - 1
      PROVE  /\ at(j) \in 1..N /\ l2[j] \in R /\ l2[j].timer = l[at(j)].timer
             /\ j < i => l2[j] = l[j]
             /\ j = i => l2[j].expires = l[j + 1].expires + l[i].expires
             /\ j > i => l2[j] = l[j + 1]
  <2>1. l2[j] = IF j < i THEN l[j]
                ELSE IF j = i THEN [l[j + 1] EXCEPT !.expires = @ + l[i].expires]
                ELSE l[j + 1]
    BY DEF Without, N
  <2>2. at(j) \in 1..N /\ j \in 1..N /\ j + 1 \in 1..N
    BY <1>1, <1>3
  <2> HIDE DEF l2
  <2>3. CASE j < i
    BY <1>2, <1>3, <2>1, <2>2, <2>3
  <2>4. CASE j = i
    <3> DEFINE y == l[j + 1]  e == l[i].expires
    <3>1. y \in R /\ e \in Nat /\ at(j) = j + 1 /\ l2[j] = [y EXCEPT !.expires = @ + e]
      BY <1>1, <1>2, <1>3, <2>1, <2>2, <2>4
    <3> HIDE DEF y, e
    <3>2. l2[j] \in R /\ l2[j].timer = y.timer /\ l2[j].expires = y.expires + e
      BY <3>1
    <3> QED
      BY <1>3, <2>2, <2>4, <3>1, <3>2 DEF y, e
  <2>5. CASE j > i
    BY <1>2, <1>3, <2>1, <2>2, <2>5
  <2> QED
    BY <1>1, <1>3, <2>3, <2>4, <2>5
<1>5. l2 \in Entries /\ Len(l2) = N - 1
  <2> HIDE DEF R
  <2>1. N - 1 \in Nat
    BY <1>1, <1>3
  <2>2. l2 \in [1..N - 1 -> R]
    <3>1. l2 = [j \in 1..N - 1 |-> l2[j]]
      BY DEF Without, N
    <3> HIDE DEF l2
    <3> QED
      BY <1>4, <3>1
  <2> HIDE DEF l2
  <2>3. l2 \in Seq(R) /\ Len(l2) = N - 1
    BY <2>1, <2>2, SeqDef, LenProperties
  <2> QED
    BY <2>3 DEF Entries, R
<1> HIDE DEF l2, R
<1>6. DeltaList(l2)
  <2>1. ASSUME NEW j \in 1..Len(l2), NEW k \in 1..Len(l2), l2[j].timer = l2[k].timer
        PROVE  j = k
    <3>1. l[at(j)].timer = l[at(k)].timer /\ at(j) \in 1..N /\ at(k) \in 1..N
      BY <1>4, <1>5, <2>1
    <3>2. at(j) = at(k)
      <4> HIDE DEF at
      <4> QED
        BY <3>1 DEF DeltaList, N
    <3> QED
      BY <1>1, <1>3, <1>5, <3>2
  <2>2. ASSUME l2 # <<>> PROVE l2[1].expires > 0
    <3>1. 1 \in 1..N - 1 /\ 1 \in 1..N /\ 1 + 1 \in 1..N
      <4>1. Len(l2) # 0
        BY <1>5, <2>2, EmptySeq DEF Entries
      <4> QED
        BY <1>1, <1>5, <4>1
    <3>2. l[1].expires > 0
      <4>1. l # <<>>
        BY <3>1 DEF N
      <4> QED
        BY <4>1 DEF DeltaList
    <3>3. CASE i = 1
      BY <1>1, <1>4, <3>1, <3>2, <3>3
    <3>4. CASE i # 1
      BY <1>3, <1>4, <3>1, <3>2, <3>4
    <3> QED
      BY <3>3, <3>4
  <2> QED
    BY <1>5, <2>1, <2>2 DEF DeltaList
<1> DEFINE g == [j \in 0..N - 1 |-> IF j < i THEN T[j] ELSE T[j + 1]]
<1>7. g[0] = 0 /\ \A j \in 1..Len(l2) : g[j] = g[j - 1] + l2[j].expires
  <2>1. g[0] = 0
    BY <1>1, <1>3
  <2>2. ASSUME NEW j \in 1..N - 1 PROVE g[j] = g[j - 1] + l2[j].expires
    <3>0. j \in 0..N - 1 /\ j - 1 \in 0..N - 1 /\ j \in 1..N /\ j + 1 \in 1..N
          /\ (j + 1) - 1 = j /\ (j - 1) + 1 = j
      BY <1>1
    <3>1. CASE j < i
      <4>1. g[j] = T[j] /\ g[j - 1] = T[j - 1] /\ l2[j] = l[j]
        BY <1>3, <1>4, <3>0, <3>1
      <4> HIDE DEF g
      <4> QED
        BY <1>1, <3>0, <4>1
    <3>2. CASE j = i
      <4>1. g[j] = T[j + 1] /\ g[j - 1] = T[j - 1]
        BY <1>3, <3>0, <3>2
      <4>2. l2[j].expires = l[j + 1].expires + l[j].expires
        BY <1>4, <3>2
      <4>3. /\ T[j + 1] = T[j] + l[j + 1].expires /\ T[j] = T[j - 1] + l[j].expires
            /\ T[j - 1] \in Nat /\ l[j].expires \in Nat /\ l[j + 1].expires \in Nat
        <5>1. j - 1 \in 0..N
          BY <1>1
        <5>2. T[j + 1] = T[(j + 1) - 1] + l[j + 1].expires
          BY <1>1, <3>0
        <5> QED
          BY <1>1, <3>0, <5>1, <5>2
      <4> HIDE DEF g
      <4> QED
        BY <4>1, <4>2, <4>3
    <3>3. CASE j > i
      <4>1. ~(j < i) /\ ~(j - 1 < i)
        BY <1>3, <3>3
      <4>2. g[j] = T[j + 1] /\ g[j - 1] = T[j]
        BY <3>0, <4>1
      <4>3. l2[j] = l[j + 1]
        BY <1>4, <3>3
      <4>4. T[j + 1] = T[(j + 1) - 1] + l[j + 1].expires
        BY <1>1, <3>0
      <4> HIDE DEF g
      <4> QED
        BY <3>0, <4>2, <4>3, <4>4
    <3> QED
      BY <1>1, <1>3, <3>1, <3>2, <3>3
  <2> QED
    BY <1>5, <2>1, <2>2
<1>8. \A j \in 0..N - 1 : TicksTo(l2)[j] = g[j]
  <2> HIDE DEF g
  <2>1. \A j \in 0..Len(l2) : TicksTo(l2)[j] = g[j]
    BY <1>5, <1>7, TicksAre
  <2> QED
    BY <1>5, <2>1
<1> DEFINE t == l[i].timer
           ticks == [LeftIn(l) EXCEPT ![t] = 0]
<1>9. ASSUME NEW j \in 1..Len(l2) PROVE ticks[l2[j].timer] = TicksTo(l2)[j]
  <2>1. j \in 1..N - 1 /\ j \in 0..N - 1
    BY <1>1, <1>5
  <2>2. at(j) \in 1..N /\ l2[j].timer = l[at(j)].timer /\ at(j) # i
    BY <1>1, <1>3, <1>4, <2>1
  <2>3. g[j] = T[at(j)]
    BY <1>1, <1>3, <2>1
  <2> HIDE DEF at, g
  <2>4. l[at(j)].timer # t /\ l[at(j)].timer \in Timer /\ LeftIn(l)[l[at(j)].timer] = T[at(j)]
    <3>1. i \in 1..N
      BY <1>1, <1>3
    <3> QED
      BY <2>2, <3>1, LeftIs DEF T, N, DeltaList
  <2>5. ticks[l2[j].timer] = T[at(j)]
    BY <2>2, <2>4 DEF LeftIn
  <2> QED
    BY <1>8, <2>1, <2>3, <2>5
<1>10. ASSUME NEW u \in Timer \ Range1(l2) PROVE ticks[u] = 0
  <2>1. CASE u = t
    BY <2>1 DEF LeftIn
  <2>2. CASE u # t /\ u \notin Range1(l)
    BY <2>2, LeftIs DEF LeftIn
  <2>3. CASE u # t /\ u \in Range1(l)
    <3>1. PICK k \in 1..N : u = l[k].timer
      BY <2>3, LeftIs DEF N
    <3> DEFINE j == IF k < i THEN k ELSE k - 1
    <3>2. j \in 1..N - 1 /\ at(j) = k
      <4>1. k # i
        BY <2>3, <3>1
      <4> QED
        BY <1>1, <1>3, <4>1
    <3> HIDE DEF j, at
    <3>3. l2[j].timer = u /\ j \in 1..Len(l2)
      BY <1>4, <1>5, <3>1, <3>2
    <3> QED
      BY <1>6, <3>3, LeftIs
  <2> QED
    BY <2>1, <2>2, <2>3
<1>11. ticks = [u \in Timer |-> ticks[u]]
  BY DEF LeftIn
<1> HIDE DEF ticks
<1>12. LeftIn(l2) = ticks
  BY <1>6, <1>9, <1>10, <1>11, SameLeft
<1> QED
  BY <1>6, <1>12 DEF l2, ticks

(* run_timer_list.                                                         *)
LEMMA ExpiredPrefixIs ==
  ASSUME NEW l \in Entries
  PROVE  LET k == ExpiredPrefix(l)
         IN  /\ k \in 0..Len(l)
             /\ \A i \in 1..k : l[i].expires = 0
             /\ k = Len(l) \/ l[k + 1].expires # 0
<1> DEFINE S == {k \in 0..Len(l) : k = Len(l) \/ l[k + 1].expires # 0}
           P(k) == /\ \A i \in 1..k : l[i].expires = 0
                   /\ k = Len(l) \/ l[k + 1].expires # 0
<1>1. Len(l) \in Nat
  BY TicksStep
<1>2. S \subseteq Nat /\ Len(l) \in S
  BY <1>1
<1>3. PICK k \in S : \A j \in S : k <= j
  <2> HIDE DEF S
  <2> QED
    BY <1>2, LeastNat
<1>4. P(k)
  <2> SUFFICES ASSUME NEW i \in 1..k PROVE l[i].expires = 0
    BY <1>3
  <2>1. i - 1 \in 0..Len(l) /\ ~(k <= i - 1) /\ (i - 1) + 1 = i /\ i - 1 # Len(l)
    BY <1>1, <1>3
  <2>2. ~(l[(i - 1) + 1].expires # 0)
    BY <1>3, <2>1
  <2> QED
    BY <2>1, <2>2
<1>5. \E j \in 0..Len(l) : P(j)
  BY <1>3, <1>4
<1>6. ExpiredPrefix(l) = CHOOSE j \in 0..Len(l) : P(j)
  BY DEF ExpiredPrefix
<1> HIDE DEF P
<1>7. ExpiredPrefix(l) \in 0..Len(l) /\ P(ExpiredPrefix(l))
  BY <1>5, <1>6
<1> QED
  BY <1>7 DEF P

LEMMA RunKeeps ==
  ASSUME NEW l, DeltaList(l), l # <<>>
  PROVE  LET l1 == [l EXCEPT ![1].expires = @ - 1]
             k == ExpiredPrefix(l1)
             l2 == SubSeq(l1, k + 1, Len(l1))
         IN  /\ DeltaList(l2)
             /\ Range1(SubSeq(l1, 1, k)) = {t \in Timer : LeftIn(l)[t] = 1}
             /\ LeftIn(l2) = [t \in Timer |-> IF LeftIn(l)[t] > 0 THEN LeftIn(l)[t] - 1 ELSE 0]
<1> DEFINE T == TicksTo(l)
           N == Len(l)
           R == [timer : Timer, expires : Nat]
           l1 == [l EXCEPT ![1].expires = @ - 1]
           k == ExpiredPrefix(l1)
           l2 == SubSeq(l1, k + 1, Len(l1))
           T1 == TicksTo(l1)
           T2 == TicksTo(l2)
           s == SubSeq(l1, 1, k)
<1>1. /\ l \in Entries /\ N \in Nat /\ T[0] = 0 /\ \A j \in 0..N : T[j] \in Nat
      /\ \A j \in 1..N : l[j].expires \in Nat /\ l[j].timer \in Timer /\ T[j] > 0
      /\ \A j \in 1..N : T[j] = T[j - 1] + l[j].expires
  BY TicksStep, TicksRise DEF DeltaList
<1>2. l \in Seq(R) /\ N >= 1 /\ 1 \in 1..N /\ l[1].expires > 0
  <2>1. l \in Seq(R) /\ l[1].expires > 0
    BY <1>1 DEF Entries, DeltaList
  <2> HIDE DEF R
  <2>2. N # 0
    BY <2>1, EmptySeq
  <2> QED
    BY <1>1, <2>1, <2>2
<1>3. /\ l1 \in Entries /\ Len(l1) = N
      /\ \A j \in 1..N : l1[j].timer = l[j].timer
      /\ l1[1].expires = l[1].expires - 1
      /\ \A j \in 2..N : l1[j] = l[j]
  <2> DEFINE y == l[1]
             z == [y EXCEPT !.expires = @ - 1]
  <2>1. y \in R
    <3> HIDE DEF R
    <3> QED
      BY <1>2
  <2>2. y.expires - 1 \in Nat
    BY <1>1, <1>2
  <2> HIDE DEF y
  <2>3. z \in R /\ z.timer = y.timer /\ z.expires = y.expires - 1
    BY <2>1, <2>2
  <2>4. l1 = [l EXCEPT ![1] = z]
    BY DEF y
  <2> HIDE DEF z, R, l1
  <2>5. l1 \in Seq(R) /\ Len(l1) = N /\ l1[1] = z /\ \A j \in 2..N : l1[j] = l[j]
    BY <1>1, <1>2, <2>3, <2>4
  <2>6. ASSUME NEW j \in 1..N PROVE l1[j].timer = l[j].timer
    <3>1. j = 1 \/ j \in 2..N
      BY <1>1
    <3> QED
      BY <2>3, <2>5, <3>1 DEF y
  <2> QED
    BY <2>3, <2>5, <2>6 DEF y, R, Entries
<1> HIDE DEF T, N
<1>4. /\ k \in 0..N /\ \A i \in 1..k : l1[i].expires = 0
      /\ k = N \/ l1[k + 1].expires # 0
  BY <1>3, ExpiredPrefixIs
<1> HIDE DEF k, l1
<1>5. /\ T1[0] = 0 /\ \A j \in 1..N : T1[j] = T1[j - 1] + l1[j].expires
      /\ \A j \in 1..N : l1[j].expires \in Nat /\ l1[j].timer \in Timer
  BY <1>3, TicksStep
<1>6. ASSUME NEW j \in 1..N PROVE T1[j] = T[j] - 1
  <2> DEFINE g == [i \in 0..N |-> IF i = 0 THEN 0 ELSE T[i] - 1]
  <2>1. g[0] = 0
    BY <1>1
  <2>2. ASSUME NEW i \in 1..N PROVE g[i] = g[i - 1] + l1[i].expires
    <3>1. i \in 0..N /\ i - 1 \in 0..N /\ i # 0 /\ g[i] = T[i] - 1
      BY <1>1
    <3>2. T[i] \in Nat /\ T[i - 1] \in Nat /\ T[i] = T[i - 1] + l[i].expires /\ l[i].expires \in Nat
      BY <1>1, <3>1
    <3>3. CASE i = 1
      <4>1. g[i - 1] = 0 /\ T[i - 1] = 0 /\ l1[i].expires = l[i].expires - 1
        BY <1>1, <1>3, <3>3
      <4> HIDE DEF g
      <4> QED
        BY <3>1, <3>2, <4>1
    <3>4. CASE i # 1
      <4>1. i - 1 # 0 /\ g[i - 1] = T[i - 1] - 1
        BY <3>1, <3>4
      <4>2. l1[i] = l[i]
        BY <1>1, <1>3, <3>4
      <4> HIDE DEF g
      <4> QED
        BY <3>1, <3>2, <4>1, <4>2
    <3> QED
      BY <3>3, <3>4
  <2>3. j \in 0..N /\ g[j] = T[j] - 1
    BY <1>1
  <2> HIDE DEF g, T1
  <2>4. \A i \in 1..Len(l1) : g[i] = g[i - 1] + l1[i].expires
    BY <1>3, <2>2
  <2>5. \A i \in 0..Len(l1) : TicksTo(l1)[i] = g[i]
    BY <1>3, <2>1, <2>4, TicksAre
  <2> QED
    BY <1>3, <2>3, <2>5 DEF T1
<1>7. \A j \in 0..k : T1[j] = 0
  <2> DEFINE S == {j \in Nat : j <= k => T1[j] = 0}
  <2> HIDE DEF T1
  <2>1. 0 \in S
    BY <1>5
  <2>2. ASSUME NEW j \in Nat, j \in S PROVE j + 1 \in S
    <3> SUFFICES ASSUME j + 1 <= k PROVE T1[j + 1] = 0
      OBVIOUS
    <3>0. j <= k /\ j + 1 \in 1..N /\ j + 1 \in 1..k /\ (j + 1) - 1 = j
      BY <1>1, <1>4
    <3>1. j + 1 \in 1..N /\ j + 1 \in 1..k /\ (j + 1) - 1 = j /\ T1[j] = 0
      BY <2>2, <3>0
    <3>2. T1[j + 1] = T1[j] + l1[j + 1].expires /\ l1[j + 1].expires = 0
      BY <1>4, <1>5, <3>1
    <3> QED
      BY <3>1, <3>2
  <2>3. Nat \subseteq S
    <3> HIDE DEF S
    <3> QED
      BY <2>1, <2>2, SetInduction
  <2> QED
    BY <1>1, <1>4, <2>3
<1>8. /\ l2 \in Entries /\ Len(l2) = N - k /\ \A j \in 1..N - k : l2[j] = l1[k + j]
      /\ Len(s) = k /\ DOMAIN s = 1..k /\ \A j \in 1..k : s[j] = l1[j]
  <2>1. l1 \in Seq(R) /\ k \in Int /\ 0 <= k /\ k <= N
    BY <1>1, <1>3, <1>4 DEF Entries
  <2> HIDE DEF R
  <2>2. l2 \in Seq(R) /\ Len(l2) = N - k /\ \A j \in 1..N - k : l2[j] = l1[k + j]
    BY <1>1, <1>3, <2>1
  <2>3. s \in Seq(R) /\ Len(s) = k /\ DOMAIN s = 1..k /\ \A j \in 1..k : s[j] = l1[j]
    BY <1>1, <1>3, <2>1
  <2> QED
    BY <2>2, <2>3 DEF R, Entries
<1> HIDE DEF l2, s, T1, T2
<1>9. DeltaList(l2)
  <2>1. ASSUME NEW j \in 1..Len(l2), NEW i \in 1..Len(l2), l2[j].timer = l2[i].timer
        PROVE  j = i
    <3>1. k + j \in 1..N /\ k + i \in 1..N /\ j \in 1..N - k /\ i \in 1..N - k
      BY <1>1, <1>4, <1>8
    <3>2. l[k + j].timer = l[k + i].timer
      BY <1>3, <1>8, <2>1, <3>1
    <3>3. k + j = k + i
      BY <3>1, <3>2 DEF DeltaList, N
    <3> QED
      BY <1>1, <1>4, <1>8, <3>3
  <2>2. ASSUME l2 # <<>> PROVE l2[1].expires > 0
    <3>1. Len(l2) # 0
      BY <1>8, <2>2, EmptySeq DEF Entries
    <3>2. 1 \in 1..N - k /\ k + 1 \in 1..N /\ k # N
      BY <1>1, <1>4, <1>8, <3>1
    <3>3. l2[1] = l1[k + 1] /\ l1[k + 1].expires # 0 /\ l1[k + 1].expires \in Nat
      BY <1>4, <1>5, <1>8, <3>2
    <3> QED
      BY <3>3
  <2> QED
    BY <1>8, <2>1, <2>2 DEF DeltaList
<1>10. ASSUME NEW j \in 1..N - k PROVE T2[j] = T1[k + j] /\ T2[j] > 0 /\ T2[j] \in Nat
  <2> DEFINE g == [i \in 0..N - k |-> T1[k + i]]
  <2>1. g[0] = 0
    <3>1. 0 \in 0..N - k /\ k + 0 = k /\ k \in 0..k
      BY <1>1, <1>4
    <3> QED
      BY <1>7, <3>1
  <2>2. ASSUME NEW i \in 1..Len(l2) PROVE g[i] = g[i - 1] + l2[i].expires
    <3>1. /\ i \in 0..N - k /\ i - 1 \in 0..N - k /\ i \in 1..N - k
          /\ k + i \in 1..N /\ k + (i - 1) = (k + i) - 1
      BY <1>1, <1>4, <1>8
    <3>2. g[i] = T1[k + i] /\ g[i - 1] = T1[(k + i) - 1] /\ l2[i] = l1[k + i]
      BY <1>8, <3>1
    <3> HIDE DEF g
    <3> QED
      BY <1>5, <3>1, <3>2
  <2>3. j \in 0..N - k /\ j \in 1..Len(l2) /\ j \in 0..Len(l2) /\ g[j] = T1[k + j]
    BY <1>1, <1>4, <1>8
  <2> HIDE DEF g
  <2>4. \A i \in 0..Len(l2) : TicksTo(l2)[i] = g[i]
    BY <1>8, <2>1, <2>2, TicksAre
  <2>5. \A i \in 1..Len(l2) : TicksTo(l2)[i] > 0
    BY <1>9, TicksRise
  <2>6. \A i \in 0..Len(l2) : TicksTo(l2)[i] \in Nat
    BY <1>9, TicksRise
  <2> QED
    BY <2>3, <2>4, <2>5, <2>6 DEF T2
<1>11. ASSUME NEW j \in 1..N
       PROVE  /\ LeftIn(l)[l[j].timer] = T[j] /\ T[j] \in Nat /\ T[j] > 0
              /\ T[j] = 1 <=> j \in 1..k
  <2>1. LeftIn(l)[l[j].timer] = T[j]
    BY LeftIs DEF T, N
  <2>2. T[j] \in Nat /\ T[j] > 0 /\ T1[j] = T[j] - 1
    BY <1>1, <1>6
  <2>3. CASE j \in 1..k
    <3>1. T1[j] = 0
      BY <1>1, <1>4, <1>7, <2>3
    <3> QED
      BY <2>1, <2>2, <2>3, <3>1
  <2>4. CASE j \notin 1..k
    <3>1. j - k \in 1..N - k /\ k + (j - k) = j
      BY <1>1, <1>4, <2>4
    <3>2. T1[j] > 0
      BY <1>10, <3>1
    <3> QED
      BY <2>1, <2>2, <2>4, <3>2
  <2> QED
    BY <2>3, <2>4
<1>12. ASSUME NEW t \in Timer \ Range1(l) PROVE LeftIn(l)[t] = 0
  BY LeftIs
<1>13. \A t \in Range1(l) : t \in Timer /\ \E j \in 1..N : t = l[j].timer
  <2>1. \A t \in Range1(l) : \E j \in 1..N : t = l[j].timer
    BY LeftIs DEF N
  <2> QED
    BY <1>1, <2>1
<1>14. Range1(s) = {t \in Timer : LeftIn(l)[t] = 1}
  <2>1. ASSUME NEW t \in Range1(s) PROVE t \in Timer /\ LeftIn(l)[t] = 1
    <3>1. PICK j \in 1..k : t = s[j].timer
      BY <1>8 DEF Range1
    <3>2. j \in 1..N /\ t = l[j].timer
      BY <1>1, <1>3, <1>4, <1>8, <3>1
    <3> QED
      BY <1>1, <1>11, <3>1, <3>2
  <2>2. ASSUME NEW t \in Timer, LeftIn(l)[t] = 1 PROVE t \in Range1(s)
    <3>1. t \in Range1(l)
      BY <1>12, <2>2
    <3>2. PICK j \in 1..N : t = l[j].timer
      BY <1>13, <3>1
    <3>3. j \in 1..k
      BY <1>11, <2>2, <3>2
    <3>4. t = s[j].timer
      BY <1>3, <1>8, <3>2, <3>3
    <3> QED
      BY <1>8, <3>3, <3>4 DEF Range1
  <2> QED
    BY <2>1, <2>2
<1> DEFINE ticks == [t \in Timer |-> IF LeftIn(l)[t] > 0 THEN LeftIn(l)[t] - 1 ELSE 0]
<1>15. ASSUME NEW j \in 1..Len(l2) PROVE ticks[l2[j].timer] = T2[j]
  <2>1. j \in 1..N - k /\ k + j \in 1..N
    BY <1>1, <1>4, <1>8
  <2>2. l2[j].timer = l[k + j].timer /\ l[k + j].timer \in Timer
    BY <1>1, <1>3, <1>8, <2>1
  <2>3. T2[j] = T[k + j] - 1
    BY <1>6, <1>10, <2>1
  <2>4. LeftIn(l)[l[k + j].timer] = T[k + j] /\ T[k + j] > 0
    BY <1>11, <2>1
  <2> QED
    BY <2>2, <2>3, <2>4
<1>16. ASSUME NEW t \in Timer \ Range1(l2) PROVE ticks[t] = 0
  <2>1. CASE t \notin Range1(l)
    <3>1. LeftIn(l)[t] = 0
      BY <1>12, <2>1
    <3> QED
      BY <3>1
  <2>2. CASE t \in Range1(l)
    <3>1. PICK j \in 1..N : t = l[j].timer
      BY <1>13, <2>2
    <3>2. j \in 1..k
      <4> SUFFICES ASSUME j \notin 1..k PROVE FALSE
        OBVIOUS
      <4>1. j - k \in 1..N - k /\ k + (j - k) = j
        BY <1>1, <1>4
      <4>2. l2[j - k].timer = t
        BY <1>3, <1>8, <3>1, <4>1
      <4> QED
        BY <1>8, <1>9, <4>1, <4>2, LeftIs
    <3>3. LeftIn(l)[t] = 1
      BY <1>11, <3>1, <3>2
    <3> QED
      BY <3>3
  <2> QED
    BY <2>1, <2>2
<1>17. ticks = [t \in Timer |-> ticks[t]]
  OBVIOUS
<1> HIDE DEF ticks
<1>18. LeftIn(l2) = ticks
  BY <1>9, <1>15, <1>16, <1>17, SameLeft DEF T2
<1> QED
  BY <1>9, <1>14, <1>18 DEF l1, k, l2, s, ticks

TimerInv == DeltaList(timer_list)

LEMMA LeftIsLeftIn == Left = LeftIn(timer_list)
BY DEF Left, LeftIn, InList

LEMMA TimerInitHolds == TimerInit => TimerInv /\ Abstract!Init
<1> SUFFICES ASSUME TimerInit PROVE TimerInv /\ Abstract!Init
  OBVIOUS
<1>1. timer_list = <<>> /\ fired = {}
  BY DEF TimerInit
<1>2. DeltaList(<<>>)
  BY DEF DeltaList, Entries
<1>3. Range1(<<>>) = {}
  BY DEF Range1
<1>4. Left = [t \in Timer |-> 0]
  BY <1>1, <1>3, LeftIsLeftIn DEF LeftIn
<1> QED
  BY <1>1, <1>2, <1>4 DEF TimerInv, Abstract!Init

(* Each step does to the ticks ticks what the timer of Timers does.         *)
LEMMA TimerStep ==
  ASSUME TimerInv, TimerNext
  PROVE  /\ TimerInv'
         /\ \/ \E t \in Timer, n \in 1..MaxExpires :
                 /\ LeftIn(timer_list)[t] = 0
                 /\ LeftIn(timer_list') = [LeftIn(timer_list) EXCEPT ![t] = n]
                 /\ fired' = {}
            \/ \E t \in Timer :
                 /\ LeftIn(timer_list') = [LeftIn(timer_list) EXCEPT ![t] = 0]
                 /\ fired' = {}
            \/ /\ fired' = {t \in Timer : LeftIn(timer_list)[t] = 1}
               /\ LeftIn(timer_list') =
                    [t \in Timer |-> IF LeftIn(timer_list)[t] > 0
                                     THEN LeftIn(timer_list)[t] - 1 ELSE 0]
<1> DEFINE l == timer_list
<1>1. DeltaList(l)
  BY DEF TimerInv
<1>2. ASSUME NEW t \in Timer, NEW n \in 1..MaxExpires, add_timer(t, n)
      PROVE  /\ DeltaList(l') /\ LeftIn(l)[t] = 0
             /\ LeftIn(l') = [LeftIn(l) EXCEPT ![t] = n] /\ fired' = {}
  <2>1. t \in Timer \ Range1(l) /\ n \in Nat \ {0} /\ l' = Added(l, t, n) /\ fired' = {}
    BY <1>2, TimerAssumption DEF add_timer, InList
  <2> HIDE DEF l
  <2> QED
    BY <1>1, <2>1, AddKeeps, LeftIs
<1>3. ASSUME NEW t \in Timer, del_timer(t)
      PROVE  /\ DeltaList(l')
             /\ LeftIn(l') = [LeftIn(l) EXCEPT ![t] = 0] /\ fired' = {}
  <2>1. fired' = {}
    BY <1>3 DEF del_timer
  <2>2. CASE t \in Range1(l)
    <3>1. l' = Without(l, IndexOf(l, t))
      BY <1>3, <2>2 DEF del_timer, InList
    <3> HIDE DEF l
    <3>2. PICK i \in 1..Len(l) : t = l[i].timer
      BY <1>1, <2>2, LeftIs
    <3>3. IndexOf(l, t) = i
      BY <1>1, <3>2, LeftIs
    <3> QED
      BY <1>1, <2>1, <3>1, <3>2, <3>3, DelKeeps
  <2>3. CASE t \notin Range1(l)
    <3>1. l' = l
      BY <1>3, <2>3 DEF del_timer, InList
    <3> HIDE DEF l
    <3>2. LeftIn(l)[t] = 0
      BY <1>1, <2>3, LeftIs
    <3>3. LeftIn(l) = [LeftIn(l) EXCEPT ![t] = 0]
      BY <3>2 DEF LeftIn
    <3> QED
      BY <1>1, <2>1, <3>1, <3>3
  <2> QED
    BY <2>2, <2>3
<1>4. ASSUME run_timer_list
      PROVE  /\ DeltaList(l') /\ fired' = {t \in Timer : LeftIn(l)[t] = 1}
             /\ LeftIn(l') = [t \in Timer |-> IF LeftIn(l)[t] > 0 THEN LeftIn(l)[t] - 1 ELSE 0]
  <2>1. CASE l = <<>>
    <3>1. l' = l /\ fired' = {}
      BY <1>4, <2>1 DEF run_timer_list
    <3>2. \A t \in Timer : LeftIn(l)[t] = 0
      <4>1. Range1(l) = {}
        BY <2>1 DEF Range1
      <4> QED
        BY <4>1 DEF LeftIn
    <3>3. LeftIn(l) = [t \in Timer |-> LeftIn(l)[t]]
      BY DEF LeftIn
    <3> HIDE DEF l
    <3> QED
      BY <1>1, <3>1, <3>2, <3>3
  <2>2. CASE l # <<>>
    <3> DEFINE l1 == [l EXCEPT ![1].expires = @ - 1]
               k == ExpiredPrefix(l1)
    <3>1. fired' = Range1(SubSeq(l1, 1, k)) /\ l' = SubSeq(l1, k + 1, Len(l1))
      BY <1>4, <2>2 DEF run_timer_list
    <3> HIDE DEF l
    <3> QED
      BY <1>1, <2>2, <3>1, RunKeeps
  <2> QED
    BY <2>1, <2>2
<1>5. CASE \E t \in Timer, n \in 1..MaxExpires : add_timer(t, n)
  BY <1>2, <1>5 DEF TimerInv
<1>6. CASE \E t \in Timer : del_timer(t)
  BY <1>3, <1>6 DEF TimerInv
<1>7. CASE run_timer_list
  BY <1>4, <1>7 DEF TimerInv
<1> QED
  BY <1>5, <1>6, <1>7 DEF TimerNext, SetTimers

LEMMA TimerInvHolds == TimerSpec => []TimerInv
<1>1. TimerInv /\ [TimerNext]_timerVars => TimerInv'
  <2> SUFFICES ASSUME TimerInv, [TimerNext]_timerVars PROVE TimerInv'
    OBVIOUS
  <2>1. CASE TimerNext
    BY <2>1, TimerStep
  <2>2. CASE UNCHANGED timerVars
    BY <2>2 DEF timerVars, TimerInv
  <2> QED
    BY <2>1, <2>2
<1> QED
  BY <1>1, TimerInitHolds, PTL DEF TimerSpec

(* Theorem: the sorted list of differences counts every timer down on its  *)
(* own and fires it at its tick, for any number of timers.                 *)
THEOREM TimersFireOnTime == TimerSpec => FiresOnTime
<1>1. (Left = LeftIn(timer_list))'
  BY LeftIsLeftIn, PTL
<1>2. TimerInv /\ [TimerNext]_timerVars => [Abstract!Next]_(Abstract!vars)
  <2> SUFFICES ASSUME TimerInv, [TimerNext]_timerVars
               PROVE  Abstract!Next \/ UNCHANGED Abstract!vars
    OBVIOUS
  <2>1. Left = LeftIn(timer_list) /\ Left' = LeftIn(timer_list')
    BY <1>1, LeftIsLeftIn
  <2>2. CASE TimerNext
    BY <2>1, <2>2, TimerStep
       DEF Abstract!Next, Abstract!Add, Abstract!Del, Abstract!Tick
  <2>3. CASE UNCHANGED timerVars
    BY <2>1, <2>3 DEF timerVars, Abstract!vars
  <2> QED
    BY <2>2, <2>3
<1> QED
  BY <1>2, TimerInvHolds, TimerInitHolds, PTL
     DEF TimerSpec, FiresOnTime, Abstract!Spec

-----------------------------------------------------------------------------
(* The keyboard device.                                                    *)
Flags == {"none", "WT_INTERRUPTED", "WT_KBD"}

StdinType ==
  /\ stdin_buffer \in [0..STDIN_BUFSIZE - 1 -> Nat]
  /\ p_rpos \in Nat /\ p_wpos \in Nat /\ typed \in Nat
  /\ wait_queue \in Seq(Reader)
  /\ sleeping \subseteq Reader
  /\ left \in [Reader -> Nat]
  /\ wakeup_flags \in [Reader -> Flags]
  /\ delivered \in Seq(Nat) /\ accepted \in Seq(Nat)

(* Every reader is queued at most once, and only inside its call.          *)
QueueInv ==
  /\ \A r \in sleeping : \E i \in 1..Len(wait_queue) : wait_queue[i] = r
  /\ \A i, j \in 1..Len(wait_queue) : wait_queue[i] = wait_queue[j] => i = j
  /\ \A i \in 1..Len(wait_queue) : left[wait_queue[i]] > 0

(* No accepted character was typed later than the last one.                *)
BufferInv ==
  /\ InOrder
  /\ \A i \in 1..p_wpos : accepted[i] <= typed

StdinInv == StdinType /\ QueueInv /\ NobodySleepsOnData /\ BufferInv

-----------------------------------------------------------------------------
(* Positions less than a buffer apart have different slots, and positions  *)
(* a buffer apart have the same.                                           *)
LEMMA Division ==
  ASSUME NEW a \in Nat
  PROVE  /\ a % STDIN_BUFSIZE \in 0..STDIN_BUFSIZE - 1
         /\ \E q \in Int : a = STDIN_BUFSIZE * q + (a % STDIN_BUFSIZE)
<1>1. STDIN_BUFSIZE \in Int /\ STDIN_BUFSIZE > 0
  BY StdinAssumption
<1>2. a \div STDIN_BUFSIZE \in Int
      /\ a = STDIN_BUFSIZE * (a \div STDIN_BUFSIZE) + (a % STDIN_BUFSIZE)
  BY <1>1
<1>3. a % STDIN_BUFSIZE \in 0..STDIN_BUFSIZE - 1
  BY <1>1
<1> QED
  BY <1>2, <1>3

LEMMA MultipleIsFar ==
  ASSUME NEW B \in Nat \ {0}, NEW d \in Int, B * d < B, B * d > 0 - B
  PROVE  d = 0
<1>1. d > 0 => B * d >= B
  OBVIOUS
<1>2. d < 0 => B * d <= 0 - B
  OBVIOUS
<1> QED
  BY <1>1, <1>2

LEMMA SlotsDiffer ==
  ASSUME NEW a \in Nat, NEW b \in Nat, a < b, b < a + STDIN_BUFSIZE
  PROVE  a % STDIN_BUFSIZE # b % STDIN_BUFSIZE
<1> SUFFICES ASSUME a % STDIN_BUFSIZE = b % STDIN_BUFSIZE PROVE FALSE
  OBVIOUS
<1>1. STDIN_BUFSIZE \in Nat \ {0}
  BY StdinAssumption
<1> DEFINE r == a % STDIN_BUFSIZE
<1>2. PICK qa \in Int : a = STDIN_BUFSIZE * qa + r
  BY Division
<1>3. PICK qb \in Int : b = STDIN_BUFSIZE * qb + r
  BY Division
<1>4. r \in Int
  BY Division
<1> HIDE DEF r
<1>5. STDIN_BUFSIZE * (qb - qa) = b - a
  BY <1>1, <1>2, <1>3, <1>4
<1>6. qb - qa = 0
  BY <1>1, <1>5, MultipleIsFar
<1> QED
  BY <1>1, <1>5, <1>6

LEMMA SlotsRepeat ==
  ASSUME NEW a \in Nat
  PROVE  (a + STDIN_BUFSIZE) % STDIN_BUFSIZE = a % STDIN_BUFSIZE
<1>1. STDIN_BUFSIZE \in Nat \ {0} /\ a + STDIN_BUFSIZE \in Nat
  BY StdinAssumption
<1> DEFINE b == a + STDIN_BUFSIZE
           ra == a % STDIN_BUFSIZE
           rb == b % STDIN_BUFSIZE
<1>2. PICK qa \in Int : a = STDIN_BUFSIZE * qa + ra
  BY Division
<1>3. PICK qb \in Int : b = STDIN_BUFSIZE * qb + rb
  BY <1>1, Division
<1>4. ra \in 0..STDIN_BUFSIZE - 1 /\ rb \in 0..STDIN_BUFSIZE - 1
  BY <1>1, Division
<1> HIDE DEF ra, rb
<1>5. STDIN_BUFSIZE * (qb - qa - 1) = ra - rb
  BY <1>1, <1>2, <1>3, <1>4
<1>6. qb - qa - 1 = 0
  BY <1>1, <1>4, <1>5, MultipleIsFar
<1> QED
  BY <1>1, <1>4, <1>5, <1>6 DEF ra, rb

-----------------------------------------------------------------------------
(* A queue that holds every sleeper, everybody once, and reader r not.     *)
QueueWithout(q, r) ==
  /\ q \in Seq(Reader)
  /\ \A x \in sleeping : \E i \in 1..Len(q) : q[i] = x
  /\ \A i, j \in 1..Len(q) : q[i] = q[j] => i = j
  /\ \A i \in 1..Len(q) : left[q[i]] > 0 /\ q[i] # r

LEMMA DequeuedEffect ==
  ASSUME StdinType, QueueInv, NEW r \in Reader, r \notin sleeping
  PROVE  QueueWithout(Dequeued(r), r)
<1> DEFINE q == wait_queue
<1>1. q \in Seq(Reader) /\ Len(q) \in Nat
  BY DEF StdinType
<1>2. CASE \A i \in 1..Len(q) : q[i] # r
  <2>1. Dequeued(r) = q
    BY <1>2 DEF Dequeued, RemoveFirst
  <2> QED
    BY <1>1, <1>2, <2>1 DEF QueueWithout, QueueInv
<1>3. ASSUME NEW m \in 1..Len(q), q[m] = r
      PROVE  QueueWithout(Dequeued(r), r)
  <2>1. \A i \in 1..Len(q) : q[i] = r <=> i = m
    BY <1>3 DEF QueueInv
  <2>2. SelectInSeq(q, LAMBDA v : v = r) = m
    <3>1. {i \in 1..Len(q) : q[i] = r} = {m}
      BY <2>1
    <3> QED
      BY <3>1 DEF SelectInSeq, Min
  <2> DEFINE a == SubSeq(q, 1, m - 1)
             b == SubSeq(q, m + 1, Len(q))
             d == a \o b
  <2>3. Dequeued(r) = d
    BY <1>3, <2>2 DEF Dequeued, RemoveFirst, RemoveAt
  <2>4. /\ a \in Seq(Reader) /\ Len(a) = m - 1
        /\ \A i \in 1..m - 1 : a[i] = q[i]
    BY <1>1, SubSeqProperties
  <2>5. /\ b \in Seq(Reader) /\ Len(b) = Len(q) - m
        /\ \A i \in 1..Len(q) - m : b[i] = q[m + i]
    BY <1>1, SubSeqProperties
  <2> HIDE DEF a, b
  <2>6. /\ d \in Seq(Reader) /\ Len(d) = Len(q) - 1
        /\ \A i \in 1..Len(d) : d[i] = IF i < m THEN q[i] ELSE q[i + 1]
    <3>1. /\ d \in Seq(Reader) /\ Len(d) = Len(a) + Len(b)
          /\ \A i \in 1..Len(a) + Len(b) : d[i] = IF i <= Len(a) THEN a[i] ELSE b[i - Len(a)]
      BY <2>4, <2>5, ConcatProperties
    <3>2. ASSUME NEW i \in 1..Len(d)
          PROVE  d[i] = IF i < m THEN q[i] ELSE q[i + 1]
      <4>1. CASE i < m
        BY <4>1, <3>1, <2>4, <2>5, <1>1
      <4>2. CASE i >= m
        <5>1. i - (m - 1) \in 1..Len(q) - m /\ d[i] = b[i - (m - 1)]
          BY <4>2, <3>1, <2>4, <2>5, <1>1
        <5>2. b[i - (m - 1)] = q[m + (i - (m - 1))] /\ m + (i - (m - 1)) = i + 1
          BY <5>1, <2>5, <1>1
        <5> QED
          BY <4>2, <5>1, <5>2
      <4> QED
        BY <4>1, <4>2
    <3> QED
      BY <1>1, <2>4, <2>5, <3>1, <3>2
  <2> HIDE DEF d
  <2>7. \A x \in sleeping : \E i \in 1..Len(d) : d[i] = x
    <3> SUFFICES ASSUME NEW x \in sleeping
                 PROVE  \E i \in 1..Len(d) : d[i] = x
      OBVIOUS
    <3>1. PICK i \in 1..Len(q) : q[i] = x
      BY DEF QueueInv
    <3>2. i # m
      BY <1>3, <3>1
    <3>3. CASE i < m
      BY <1>1, <2>6, <3>1, <3>3
    <3>4. CASE i > m
      <4>1. i - 1 \in 1..Len(d) /\ d[i - 1] = q[(i - 1) + 1] /\ (i - 1) + 1 = i
        BY <1>1, <2>6, <3>4
      <4> QED
        BY <3>1, <4>1
    <3> QED
      BY <3>2, <3>3, <3>4
  <2>8. \A i \in 1..Len(d) : \E k \in 1..Len(q) :
          d[i] = q[k] /\ k # m /\ k = IF i < m THEN i ELSE i + 1
    BY <1>1, <2>6
  <2>9. \A i, j \in 1..Len(d) : d[i] = d[j] => i = j
    <3> SUFFICES ASSUME NEW i \in 1..Len(d), NEW j \in 1..Len(d), d[i] = d[j]
                 PROVE  i = j
      OBVIOUS
    <3>1. PICK x \in 1..Len(q) : d[i] = q[x] /\ x = IF i < m THEN i ELSE i + 1
      BY <2>8
    <3>2. PICK y \in 1..Len(q) : d[j] = q[y] /\ y = IF j < m THEN j ELSE j + 1
      BY <2>8
    <3>3. x = y
      BY <3>1, <3>2 DEF QueueInv
    <3> QED
      BY <1>1, <2>6, <3>1, <3>2, <3>3
  <2>10. \A i \in 1..Len(d) : left[d[i]] > 0 /\ d[i] # r
    BY <2>1, <2>8 DEF QueueInv
  <2> QED
    BY <2>3, <2>6, <2>7, <2>9, <2>10 DEF QueueWithout
<1> QED
  BY <1>2, <1>3

(* The loop of dev_stdin_read.                                             *)
LEMMA LoopKeeps ==
  ASSUME StdinInv, NEW r \in Reader, NEW n \in Nat \ {0}, NEW q,
         QueueWithout(q, r), r \notin sleeping, ReadLoop(r, n, q)
  PROVE  StdinInv'
<1> DEFINE k == Least(n, p_wpos - p_rpos)
           new == [i \in 1..k |-> stdin_buffer[(p_rpos + i - 1) % STDIN_BUFSIZE]]
<1>1. /\ p_rpos \in Nat /\ p_wpos \in Nat /\ p_wpos - p_rpos \in 0..STDIN_BUFSIZE
      /\ k \in 0..n /\ k <= p_wpos - p_rpos /\ (k < n => k = p_wpos - p_rpos)
      /\ typed \in Nat /\ STDIN_BUFSIZE \in Nat \ {0}
  BY StdinAssumption DEF StdinInv, StdinType, BufferInv, InOrder, Least
<1>2. /\ p_rpos' = p_rpos + k
      /\ delivered' = delivered \o new
      /\ left' = [left EXCEPT ![r] = n - k]
      /\ UNCHANGED <<stdin_buffer, p_wpos, killed, typed, accepted>>
  BY DEF ReadLoop, Took
<1>3. \/ /\ k = n /\ wait_queue' = q
         /\ UNCHANGED <<sleeping, wakeup_flags>>
      \/ /\ k < n
         /\ wait_queue' = Append(q, r)
         /\ sleeping' = sleeping \cup {r}
         /\ wakeup_flags' = [wakeup_flags EXCEPT ![r] = "WT_INTERRUPTED"]
  BY DEF ReadLoop
<1>4. \A i \in 1..k : /\ p_rpos + i - 1 \in Nat
                      /\ (p_rpos + i - 1) % STDIN_BUFSIZE \in 0..STDIN_BUFSIZE - 1
                      /\ stdin_buffer[(p_rpos + i - 1) % STDIN_BUFSIZE] \in Nat
  <2> SUFFICES ASSUME NEW i \in 1..k
               PROVE  /\ p_rpos + i - 1 \in Nat
                      /\ (p_rpos + i - 1) % STDIN_BUFSIZE \in 0..STDIN_BUFSIZE - 1
                      /\ stdin_buffer[(p_rpos + i - 1) % STDIN_BUFSIZE] \in Nat
    OBVIOUS
  <2>1. p_rpos + i - 1 \in Nat
    BY <1>1
  <2> DEFINE a == p_rpos + i - 1
  <2>2. a % STDIN_BUFSIZE \in 0..STDIN_BUFSIZE - 1
    BY <2>1, Division
  <2> HIDE DEF a
  <2>3. stdin_buffer[a % STDIN_BUFSIZE] \in Nat
    BY <2>2 DEF StdinInv, StdinType
  <2> QED
    BY <2>1, <2>2, <2>3 DEF a
<1>5. /\ new \in Seq(Nat) /\ Len(new) = k
      /\ \A i \in 1..k : new[i] = stdin_buffer[(p_rpos + i - 1) % STDIN_BUFSIZE]
  <2>1. /\ new \in [1..k -> Nat]
        /\ \A i \in 1..k : new[i] = stdin_buffer[(p_rpos + i - 1) % STDIN_BUFSIZE]
    BY <1>4
  <2>2. k \in Nat
    BY <1>1
  <2> HIDE DEF new, k
  <2>3. new \in Seq(Nat)
    BY <2>1, <2>2, IsASeq
  <2>4. Len(new) = k
    BY <2>1, <2>2, <2>3, LenProperties
  <2> QED
    BY <2>1, <2>3, <2>4
<1> HIDE DEF k, new
<1>6. /\ delivered' \in Seq(Nat) /\ Len(delivered') = p_rpos + k
      /\ \A i \in 1..p_rpos : delivered'[i] = delivered[i]
      /\ \A i \in 1..k : delivered'[p_rpos + i] = new[i]
  <2>1. delivered \in Seq(Nat) /\ Len(delivered) = p_rpos
    BY DEF StdinInv, StdinType, BufferInv, InOrder
  <2>2. /\ delivered' \in Seq(Nat) /\ Len(delivered') = p_rpos + k
        /\ \A i \in 1..p_rpos + k : delivered'[i] = IF i <= p_rpos THEN delivered[i] ELSE new[i - p_rpos]
    <3>1. delivered' = delivered \o new
      BY <1>2
    <3>2. new \in Seq(Nat) /\ Len(new) = k
      BY <1>5
    <3>3. /\ delivered \o new \in Seq(Nat)
          /\ Len(delivered \o new) = Len(delivered) + Len(new)
          /\ \A i \in 1..Len(delivered) + Len(new) :
               (delivered \o new)[i] = IF i <= Len(delivered) THEN delivered[i]
                                       ELSE new[i - Len(delivered)]
      BY <2>1, <3>2, ConcatProperties
    <3> QED
      BY <2>1, <3>1, <3>2, <3>3
  <2>3. \A i \in 1..k : p_rpos + i \in 1..p_rpos + k /\ ~(p_rpos + i <= p_rpos) /\ (p_rpos + i) - p_rpos = i
    BY <1>1
  <2>4. \A i \in 1..k : delivered'[p_rpos + i] = new[i]
    BY <2>2, <2>3
  <2> QED
    BY <1>1, <2>2, <2>4
<1>7. /\ Append(q, r) \in Seq(Reader) /\ Len(Append(q, r)) = Len(q) + 1
      /\ \A i \in 1..Len(q) : Append(q, r)[i] = q[i]
      /\ Append(q, r)[Len(q) + 1] = r
      /\ Len(q) \in Nat
  BY AppendProperties DEF QueueWithout
<1>8. StdinType'
  <2>1. wait_queue' \in Seq(Reader) /\ sleeping' \subseteq Reader
    BY <1>3, <1>7 DEF QueueWithout, StdinInv, StdinType
  <2>2. left' \in [Reader -> Nat]
    BY <1>1, <1>2 DEF StdinInv, StdinType
  <2>3. wakeup_flags' \in [Reader -> Flags]
    BY <1>3 DEF StdinInv, StdinType, Flags
  <2>4. p_rpos' \in Nat
    BY <1>1, <1>2
  <2> QED
    BY <1>2, <1>6, <2>1, <2>2, <2>3, <2>4 DEF StdinInv, StdinType
<1>9. QueueInv'
  <2>1. CASE k = n /\ wait_queue' = q /\ sleeping' = sleeping
    BY <1>2, <2>1 DEF QueueInv, QueueWithout, StdinInv, StdinType
  <2>2. CASE k < n /\ wait_queue' = Append(q, r) /\ sleeping' = sleeping \cup {r}
    <3>1. left'[r] > 0 /\ \A x \in Reader \ {r} : left'[x] = left[x]
      BY <1>1, <1>2, <2>2 DEF StdinInv, StdinType
    <3>2. \A i \in 1..Len(wait_queue') :
            \/ i = Len(q) + 1 /\ wait_queue'[i] = r
            \/ i \in 1..Len(q) /\ wait_queue'[i] = q[i]
      BY <1>7, <2>2
    <3>3. \A i \in 1..Len(q) : q[i] \in Reader \ {r} /\ left[q[i]] > 0
      BY DEF QueueWithout
    <3>4. \A i, j \in 1..Len(wait_queue') : wait_queue'[i] = wait_queue'[j] => i = j
      BY <3>2, <3>3 DEF QueueWithout
    <3>5. \A i \in 1..Len(wait_queue') : left'[wait_queue'[i]] > 0
      BY <3>1, <3>2, <3>3
    <3>6. \A x \in sleeping' : \E i \in 1..Len(wait_queue') : wait_queue'[i] = x
      <4>1. ASSUME NEW x \in sleeping
            PROVE  \E i \in 1..Len(wait_queue') : wait_queue'[i] = x
        <5>1. PICK i \in 1..Len(q) : q[i] = x
          BY DEF QueueWithout
        <5> QED
          BY <1>7, <2>2, <5>1
      <4>2. \E i \in 1..Len(wait_queue') : wait_queue'[i] = r
        BY <1>7, <2>2
      <4> QED
        BY <2>2, <4>1, <4>2
    <3> QED
      BY <3>4, <3>5, <3>6 DEF QueueInv
  <2> QED
    BY <1>3, <2>1, <2>2
<1>10. NobodySleepsOnData'
  BY <1>1, <1>2, <1>3 DEF NobodySleepsOnData, StdinInv
<1>11. BufferInv'
  <2>1. /\ Len(accepted) = p_wpos
        /\ \A i \in p_rpos + 2..p_wpos : stdin_buffer[(i - 1) % STDIN_BUFSIZE] = accepted[i]
        /\ p_rpos < p_wpos =>
             \/ stdin_buffer[p_rpos % STDIN_BUFSIZE] = accepted[p_rpos + 1]
             \/ ~Room /\ stdin_buffer[p_rpos % STDIN_BUFSIZE] = typed
        /\ \A i \in 1..p_rpos : delivered[i] >= accepted[i]
    BY DEF StdinInv, BufferInv, InOrder
  <2>0. \A i \in 1..p_wpos : accepted[i] <= typed /\ accepted[i] \in Nat
    <3>1. accepted \in Seq(Nat)
      BY DEF StdinInv, StdinType
    <3>2. \A i \in 1..p_wpos : accepted[i] \in Nat
      BY <2>1, <3>1, LenProperties
    <3> QED
      BY <3>2 DEF StdinInv, BufferInv
  <2>2. \A i \in (p_rpos + k) + 2..p_wpos : stdin_buffer[(i - 1) % STDIN_BUFSIZE] = accepted[i]
    BY <1>1, <2>1
  <2>3. p_rpos + k < p_wpos =>
          \/ stdin_buffer[(p_rpos + k) % STDIN_BUFSIZE] = accepted[(p_rpos + k) + 1]
          \/ ~Room' /\ stdin_buffer[(p_rpos + k) % STDIN_BUFSIZE] = typed
    <3>1. CASE k = 0
      BY <1>1, <1>2, <2>1, <3>1 DEF Room
    <3>2. CASE k > 0 /\ p_rpos + k < p_wpos
      <4>1. /\ (p_rpos + k) + 1 \in p_rpos + 2..p_wpos
            /\ ((p_rpos + k) + 1) - 1 = p_rpos + k
        BY <1>1, <3>2
      <4> QED
        BY <2>1, <4>1
    <3> QED
      BY <1>1, <3>1, <3>2
  <2>4. \A i \in 1..k : new[i] >= accepted[p_rpos + i]
    <3> SUFFICES ASSUME NEW i \in 1..k
                 PROVE  new[i] >= accepted[p_rpos + i]
      OBVIOUS
    <3>1. p_rpos + i \in 1..p_wpos /\ p_rpos + i - 1 = (p_rpos + i) - 1
      BY <1>1
    <3>2. accepted[p_rpos + i] <= typed /\ accepted[p_rpos + i] \in Nat
      BY <2>0, <3>1
    <3>3. CASE i = 1
      <4>1. p_rpos + i - 1 = p_rpos /\ p_rpos < p_wpos /\ p_rpos + i = p_rpos + 1
        BY <1>1, <3>1, <3>3
      <4>2. new[i] = stdin_buffer[p_rpos % STDIN_BUFSIZE]
        BY <1>5, <4>1
      <4> QED
        BY <1>1, <2>1, <3>2, <4>1, <4>2
    <3>4. CASE i # 1
      <4>1. p_rpos + i \in p_rpos + 2..p_wpos
        BY <1>1, <3>4
      <4>2. stdin_buffer[((p_rpos + i) - 1) % STDIN_BUFSIZE] = accepted[p_rpos + i]
        BY <2>1, <4>1
      <4>3. new[i] = stdin_buffer[(p_rpos + i - 1) % STDIN_BUFSIZE]
        BY <1>5
      <4> QED
        BY <3>1, <3>2, <4>2, <4>3
    <3> QED
      BY <3>3, <3>4
  <2>5. \A i \in 1..p_rpos + k : delivered'[i] >= accepted[i]
    <3> SUFFICES ASSUME NEW i \in 1..p_rpos + k
                 PROVE  delivered'[i] >= accepted[i]
      OBVIOUS
    <3>1. CASE i <= p_rpos
      BY <1>1, <1>6, <2>1, <3>1
    <3>2. CASE i > p_rpos
      <4>1. i - p_rpos \in 1..k /\ p_rpos + (i - p_rpos) = i
        BY <1>1, <3>2
      <4> QED
        BY <1>6, <2>4, <4>1
    <3> QED
      BY <1>1, <3>1, <3>2
  <2>6. p_wpos - (p_rpos + k) \in 0..STDIN_BUFSIZE
    BY <1>1
  <2> QED
    BY <1>2, <1>6, <2>0, <2>1, <2>2, <2>3, <2>5, <2>6 DEF BufferInv, InOrder
<1> QED
  BY <1>8, <1>9, <1>10, <1>11 DEF StdinInv

-----------------------------------------------------------------------------
LEMMA StdinInitHolds == StdinInit => StdinInv
<1> SUFFICES ASSUME StdinInit PROVE StdinInv
  OBVIOUS
<1>1. STDIN_BUFSIZE \in Nat \ {0}
  BY StdinAssumption
<1>2. <<>> \in Seq(Nat) /\ <<>> \in Seq(Reader) /\ Len(<<>>) = 0
  BY EmptySeq
<1>3. StdinType
  BY <1>1, <1>2 DEF StdinInit, StdinType, Flags
<1>4. QueueInv
  BY <1>2 DEF StdinInit, QueueInv
<1>5. NobodySleepsOnData
  BY DEF StdinInit, NobodySleepsOnData
<1>6. BufferInv
  BY <1>1, <1>2 DEF StdinInit, BufferInv, InOrder
<1> QED
  BY <1>3, <1>4, <1>5, <1>6 DEF StdinInv

(* A character is typed: with room its slot is not one of the unread       *)
(* ones, without it is that of the oldest unread one.                      *)
LEMMA WriteKeeps == StdinInv /\ dev_stdin_write => StdinInv'
<1> SUFFICES ASSUME StdinInv, dev_stdin_write PROVE StdinInv'
  OBVIOUS
<1> DEFINE B == STDIN_BUFSIZE
           slot == p_wpos % B
<1>1. /\ p_rpos \in Nat /\ p_wpos \in Nat /\ p_wpos - p_rpos \in 0..B
      /\ typed \in Nat /\ B \in Nat \ {0}
      /\ stdin_buffer \in [0..B - 1 -> Nat]
      /\ accepted \in Seq(Nat) /\ Len(accepted) = p_wpos
  BY StdinAssumption DEF StdinInv, StdinType, BufferInv, InOrder
<1>2. slot \in 0..B - 1
  BY <1>1, Division
<1>3. /\ stdin_buffer' = [stdin_buffer EXCEPT ![slot] = typed + 1]
      /\ p_wpos' = IF Room THEN p_wpos + 1 ELSE p_wpos
      /\ accepted' = IF Room THEN Append(accepted, typed + 1) ELSE accepted
      /\ typed' = typed + 1
      /\ UNCHANGED <<p_rpos, left, killed, delivered>>
      /\ wait_queue' = <<>>
      /\ sleeping' = sleeping \ Waiting
      /\ wakeup_flags' = [r \in Reader |-> IF r \in Waiting THEN "WT_KBD" ELSE wakeup_flags[r]]
  BY DEF dev_stdin_write, wakeup_queue
<1>4. \A a \in Nat : a < p_wpos /\ p_wpos < a + B =>
        stdin_buffer'[a % B] = stdin_buffer[a % B]
  <2> SUFFICES ASSUME NEW a \in Nat, a < p_wpos, p_wpos < a + B
               PROVE  stdin_buffer'[a % B] = stdin_buffer[a % B]
    OBVIOUS
  <2> DEFINE x == a % B
  <2>1. x # slot
    BY <1>1, SlotsDiffer
  <2>2. x \in 0..B - 1
    BY <1>1, Division
  <2> HIDE DEF x, slot
  <2>3. stdin_buffer'[x] = stdin_buffer[x]
    BY <1>1, <1>3, <2>1, <2>2
  <2> QED
    BY <2>3 DEF x
<1>5. stdin_buffer'[slot] = typed + 1 /\ stdin_buffer' \in [0..B - 1 -> Nat]
  <2> HIDE DEF slot
  <2> QED
    BY <1>1, <1>2, <1>3
<1>6. sleeping' = {} /\ Len(wait_queue') = 0 /\ wait_queue' \in Seq(Reader)
  <2>1. Len(wait_queue') = 0 /\ wait_queue' \in Seq(Reader)
    BY <1>3, EmptySeq
  <2>2. sleeping \subseteq Waiting
    <3>1. DOMAIN wait_queue = 1..Len(wait_queue)
      BY LenProperties DEF StdinInv, StdinType
    <3> QED
      BY <3>1 DEF Waiting, StdinInv, QueueInv
  <2> QED
    BY <1>3, <2>1, <2>2
<1>7. /\ accepted' \in Seq(Nat) /\ Len(accepted') = p_wpos'
      /\ \A i \in 1..p_wpos : accepted'[i] = accepted[i]
      /\ Room => accepted'[p_wpos + 1] = typed + 1
  <2>1. CASE Room
    <3>1. /\ Append(accepted, typed + 1) \in Seq(Nat)
          /\ Len(Append(accepted, typed + 1)) = p_wpos + 1
          /\ \A i \in 1..p_wpos : Append(accepted, typed + 1)[i] = accepted[i]
          /\ Append(accepted, typed + 1)[p_wpos + 1] = typed + 1
      <4> DEFINE e == typed + 1
      <4>1. e \in Nat /\ accepted \in Seq(Nat)
        BY <1>1
      <4> HIDE DEF e
      <4>2. /\ Append(accepted, e) \in Seq(Nat)
            /\ Len(Append(accepted, e)) = Len(accepted) + 1
            /\ \A i \in 1..Len(accepted) : Append(accepted, e)[i] = accepted[i]
            /\ Append(accepted, e)[Len(accepted) + 1] = e
        BY <4>1, AppendProperties
      <4> QED
        BY <1>1, <4>2 DEF e
    <3> QED
      BY <1>3, <2>1, <3>1
  <2>2. CASE ~Room
    BY <1>1, <1>3, <2>2
  <2> QED
    BY <2>1, <2>2
<1>8. StdinType'
  <2>1. wakeup_flags' \in [Reader -> Flags]
    BY <1>3 DEF StdinInv, StdinType, Flags
  <2>2. p_wpos' \in Nat /\ typed' \in Nat
    BY <1>1, <1>3
  <2> QED
    BY <1>3, <1>5, <1>6, <1>7, <2>1, <2>2 DEF StdinInv, StdinType
<1>9. QueueInv' /\ NobodySleepsOnData'
  BY <1>6 DEF QueueInv, NobodySleepsOnData
<1>10. /\ \A i \in p_rpos + 2..p_wpos : stdin_buffer[(i - 1) % B] = accepted[i]
       /\ p_rpos < p_wpos =>
            \/ stdin_buffer[p_rpos % B] = accepted[p_rpos + 1]
            \/ ~Room /\ stdin_buffer[p_rpos % B] = typed
       /\ \A i \in 1..p_rpos : delivered[i] >= accepted[i]
       /\ Len(delivered) = p_rpos
       /\ \A i \in 1..p_wpos : accepted[i] <= typed
  BY DEF StdinInv, BufferInv, InOrder
<1>11. \A i \in p_rpos + 2..p_wpos : stdin_buffer'[(i - 1) % B] = accepted'[i]
  <2> SUFFICES ASSUME NEW i \in p_rpos + 2..p_wpos
               PROVE  stdin_buffer'[(i - 1) % B] = accepted'[i]
    OBVIOUS
  <2>1. i - 1 \in Nat /\ i - 1 < p_wpos /\ p_wpos < (i - 1) + B /\ i \in 1..p_wpos
    BY <1>1
  <2>2. stdin_buffer'[(i - 1) % B] = stdin_buffer[(i - 1) % B]
    BY <1>4, <2>1
  <2> QED
    BY <1>7, <1>10, <2>1, <2>2
<1>12. \A i \in 1..p_rpos : delivered'[i] >= accepted'[i]
  <2>1. \A i \in 1..p_rpos : i \in 1..p_wpos
    BY <1>1
  <2> QED
    BY <1>3, <1>7, <1>10, <2>1
<1> HIDE DEF slot
<1>13. BufferInv'
  <2>1. CASE Room
    <3>1. p_wpos' = p_wpos + 1 /\ p_wpos < p_rpos + B /\ p_rpos' = p_rpos
      BY <1>1, <1>3, <2>1 DEF Room
    <3>2. p_wpos' - p_rpos' \in 0..B
      BY <1>1, <3>1
    <3>3. \A i \in p_rpos + 2..p_wpos + 1 : stdin_buffer'[(i - 1) % B] = accepted'[i]
      <4>1. ASSUME NEW i \in p_rpos + 2..p_wpos + 1, i # p_wpos + 1
            PROVE  stdin_buffer'[(i - 1) % B] = accepted'[i]
        <5>1. i \in p_rpos + 2..p_wpos
          BY <1>1, <4>1
        <5> QED
          BY <1>11, <5>1
      <4>2. stdin_buffer'[((p_wpos + 1) - 1) % B] = accepted'[p_wpos + 1]
        <5>1. (p_wpos + 1) - 1 = p_wpos
          BY <1>1
        <5> QED
          BY <1>5, <1>7, <2>1, <5>1 DEF slot
      <4> QED
        BY <4>1, <4>2
    <3>4. stdin_buffer'[p_rpos % B] = accepted'[p_rpos + 1]
      <4>1. CASE p_rpos = p_wpos
        BY <1>5, <1>7, <2>1, <4>1 DEF slot
      <4>2. CASE p_rpos < p_wpos
        <5>1. stdin_buffer'[p_rpos % B] = stdin_buffer[p_rpos % B]
          BY <1>1, <1>4, <3>1, <4>2
        <5>2. p_rpos + 1 \in 1..p_wpos
          BY <1>1, <4>2
        <5> QED
          BY <1>7, <1>10, <2>1, <4>2, <5>1, <5>2
      <4> QED
        BY <1>1, <4>1, <4>2
    <3>5. \A i \in 1..p_wpos + 1 : accepted'[i] <= typed + 1
      <4> SUFFICES ASSUME NEW i \in 1..p_wpos + 1 PROVE accepted'[i] <= typed + 1
        OBVIOUS
      <4>1. CASE i = p_wpos + 1
        BY <1>1, <1>7, <2>1, <4>1
      <4>2. CASE i # p_wpos + 1
        <5>1. i \in 1..p_wpos
          BY <1>1, <4>2
        <5>2. accepted[i] \in Nat
          BY <1>1, <5>1, LenProperties
        <5> QED
          BY <1>1, <1>7, <1>10, <5>1, <5>2
      <4> QED
        BY <4>1, <4>2
    <3> QED
      BY <1>3, <1>7, <1>10, <1>12, <3>1, <3>2, <3>3, <3>4, <3>5 DEF BufferInv, InOrder
  <2>2. CASE ~Room
    <3>1. p_wpos' = p_wpos /\ p_wpos = p_rpos + B /\ p_rpos' = p_rpos
      BY <1>1, <1>3, <2>2 DEF Room
    <3>2. ~Room'
      BY <1>1, <3>1 DEF Room
    <3>3. stdin_buffer'[p_rpos % B] = typed'
      <4>1. slot = p_rpos % B
        BY <1>1, <3>1, SlotsRepeat DEF slot
      <4> QED
        BY <1>3, <1>5, <4>1
    <3>4. \A i \in 1..p_wpos : accepted'[i] <= typed'
      <4> SUFFICES ASSUME NEW i \in 1..p_wpos PROVE accepted'[i] <= typed'
        OBVIOUS
      <4>1. accepted[i] \in Nat
        BY <1>1, LenProperties
      <4> QED
        BY <1>1, <1>3, <1>7, <1>10, <4>1
    <3> QED
      BY <1>1, <1>3, <1>7, <1>10, <1>11, <1>12, <3>1, <3>2, <3>3, <3>4 DEF BufferInv, InOrder
  <2> QED
    BY <2>1, <2>2
<1> QED
  BY <1>8, <1>9, <1>13 DEF StdinInv

LEMMA ReadKeeps ==
  ASSUME StdinInv, NEW r \in Reader, NEW len \in 1..MaxLen, dev_stdin_read(r, len)
  PROVE  StdinInv'
<1>1. left[r] = 0 /\ ReadLoop(r, len, wait_queue)
  BY DEF dev_stdin_read
<1>2. QueueWithout(wait_queue, r)
  BY <1>1 DEF QueueWithout, StdinInv, StdinType, QueueInv
<1>3. r \notin sleeping
  BY <1>2 DEF QueueWithout
<1>4. len \in Nat \ {0}
  BY StdinAssumption
<1> QED
  BY <1>1, <1>2, <1>3, <1>4, LoopKeeps

LEMMA ResumeKeeps ==
  ASSUME StdinInv, NEW r \in Reader, ReadResume(r)
  PROVE  StdinInv'
<1>1. r \notin sleeping /\ left[r] \in Nat \ {0}
  BY DEF ReadResume, StdinInv, StdinType
<1>2. QueueWithout(Dequeued(r), r)
  BY <1>1, DequeuedEffect DEF StdinInv
<1>3. CASE ReadLoop(r, left[r], Dequeued(r))
  <2> DEFINE n == left[r]
             q == Dequeued(r)
  <2> HIDE DEF n, q
  <2>1. n \in Nat \ {0} /\ QueueWithout(q, r) /\ ReadLoop(r, n, q)
    BY <1>1, <1>2, <1>3 DEF n, q
  <2> QED
    BY <1>1, <2>1, LoopKeeps
<1>4. CASE /\ wait_queue' = Dequeued(r)
           /\ left' = [left EXCEPT ![r] = 0]
           /\ UNCHANGED <<stdin_buffer, p_rpos, p_wpos, sleeping, wakeup_flags, killed,
                          typed, delivered, accepted>>
  <2>1. wait_queue' \in Seq(Reader) /\ left' \in [Reader -> Nat]
    BY <1>2, <1>4 DEF QueueWithout, StdinInv, StdinType
  <2>2. \A i \in 1..Len(wait_queue') : left'[wait_queue'[i]] > 0
    <3> SUFFICES ASSUME NEW i \in 1..Len(wait_queue') PROVE left'[wait_queue'[i]] > 0
      OBVIOUS
    <3>1. wait_queue'[i] # r /\ left[wait_queue'[i]] > 0 /\ wait_queue'[i] \in Reader
      BY <1>2, <1>4, <2>1 DEF QueueWithout
    <3> QED
      BY <1>4, <3>1 DEF StdinInv, StdinType
  <2>3. QueueInv'
    BY <1>2, <1>4, <2>2 DEF QueueWithout, QueueInv
  <2> QED
    BY <1>4, <2>1, <2>3 DEF StdinInv, StdinType, NobodySleepsOnData, BufferInv, InOrder, Room
<1> QED
  BY <1>3, <1>4 DEF ReadResume

LEMMA StdinNextKeeps == StdinInv /\ [StdinNext]_stdinVars => StdinInv'
<1> SUFFICES ASSUME StdinInv, [StdinNext]_stdinVars PROVE StdinInv'
  OBVIOUS
<1>1. CASE dev_stdin_write
  BY <1>1, WriteKeeps
<1>2. ASSUME NEW r \in Reader, NEW len \in 1..MaxLen, dev_stdin_read(r, len)
      PROVE  StdinInv'
  BY <1>2, ReadKeeps
<1>3. ASSUME NEW r \in Reader, ReadResume(r) PROVE StdinInv'
  BY <1>3, ResumeKeeps
<1>4. ASSUME NEW r \in Reader, do_kill(r) PROVE StdinInv'
  BY <1>4 DEF do_kill, StdinInv, StdinType, QueueInv, NobodySleepsOnData, BufferInv, InOrder, Room
<1>5. CASE UNCHANGED stdinVars
  BY <1>5 DEF stdinVars, StdinInv, StdinType, QueueInv, NobodySleepsOnData, BufferInv, InOrder, Room
<1> QED
  BY <1>1, <1>2, <1>3, <1>4, <1>5 DEF StdinNext, Readers

(* The inductive invariant of the keyboard device.                         *)
THEOREM SpecInv == StdinSpec => []StdinInv
BY StdinInitHolds, StdinNextKeeps, PTL DEF StdinSpec

(* Theorem: no reader is left sleeping by dev_stdin_write or by the loop of  *)
(* dev_stdin_read while there are characters to read.                      *)
THEOREM SleepersHaveNothing == StdinSpec => []NobodySleepsOnData
<1>1. StdinInv => NobodySleepsOnData
  BY DEF StdinInv
<1> QED
  BY SpecInv, <1>1, PTL

(* Theorem: a full ring buffer loses characters but never gives one to two *)
(* readers or out of order.                                                *)
THEOREM CharactersInOrder == StdinSpec => []InOrder
<1>1. StdinInv => InOrder
  BY DEF StdinInv, BufferInv
<1> QED
  BY SpecInv, <1>1, PTL

(* Theorem: wait_current_del takes every wait_t off the queue before       *)
(* dev_stdin_read, on whose stack it lives, returns.                       *)
THEOREM QueueIsOnLiveStacks == StdinSpec => []QueueOnLiveStacks
<1>1. StdinInv => QueueOnLiveStacks
  <2> SUFFICES ASSUME StdinInv PROVE QueueOnLiveStacks
    OBVIOUS
  <2> DEFINE n == Len(wait_queue)
  <2>1. n \in Nat /\ DOMAIN wait_queue = 1..n /\ wait_queue \in [1..n -> Reader]
    BY LenProperties DEF StdinInv, StdinType
  <2>2. Cardinality(Waiting) = n
    <3>1. wait_queue \in Bijection(1..n, Waiting)
      BY <2>1 DEF Waiting, Bijection, Injection, Surjection, IsInjective, StdinInv, QueueInv
    <3>2. ExistsBijection(1..n, Waiting)
      BY <3>1 DEF ExistsBijection
    <3> QED
      BY <2>1, <3>2, FS_CountingElements
  <2>3. sleeping \subseteq Waiting
    BY <2>1 DEF Waiting, StdinInv, QueueInv
  <2>4. \A r \in Waiting : left[r] > 0
    BY <2>1 DEF Waiting, StdinInv, QueueInv
  <2> QED
    BY <2>2, <2>3, <2>4 DEF QueueOnLiveStacks
<1> QED
  BY SpecInv, <1>1, PTL

-----------------------------------------------------------------------------
(* Theorem: the timer interrupt, which runs the timers and then the        *)
(* keyboard in one step, is a step of each of the two, so what the         *)
(* theorems above say of them holds of both together.                      *)
THEOREM HandlerRunsBoth == InterruptSpec => TimerSpec /\ StdinSpec
<1>1. [InterruptNext]_<<timerVars, stdinVars>> => [TimerNext]_timerVars
  BY DEF InterruptNext, interrupt_handler, TimerNext
<1>2. [InterruptNext]_<<timerVars, stdinVars>> => [StdinNext]_stdinVars
  BY DEF InterruptNext, interrupt_handler, StdinNext
<1> QED
  BY <1>1, <1>2, PTL DEF InterruptSpec, InterruptInit, TimerSpec, StdinSpec

=============================================================================
