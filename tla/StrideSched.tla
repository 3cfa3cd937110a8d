---------------------------- MODULE StrideSched -----------------------------
(***************************************************************************)
(* The stride class of lab8 (kern/schedule/default_sched_stride.c) and the *)
(* skew heap of libs/skew_heap.h, as operators.  Strides are unsigned      *)
(* integers that wrap around at Mod and are compared by their signed       *)
(* difference.  A heap is a record of the root pointer and the pointers    *)
(* parent, left and right of every process, in the heap or not.            *)
(***************************************************************************)
EXTENDS Integers, Sequences, FiniteSets

CONSTANTS
  Proc, NULL,
  Mod,         \* 2^32 in the code
  BIG_STRIDE   \* 100000 in the code

ASSUME StrideAssumption ==
  /\ IsFiniteSet(Proc) /\ NULL \notin Proc
  /\ Mod \in Nat /\ BIG_STRIDE \in Nat \ {0} /\ 3 * BIG_STRIDE < Mod

Node == Proc \cup {NULL}

(* The sign of the signed difference.                                      *)
proc_stride_comp_f(stride, p, q) ==
  LET c == (stride[p] - stride[q]) % Mod
  IN  IF c = 0 THEN 0 ELSE IF c < Mod \div 2 THEN 1 ELSE -1

Proper(c) == c[1] # NULL /\ c[2] # NULL

(* Mutant: the larger root goes up.                                        *)
FirstWins_max(stride, c) == proc_stride_comp_f(stride, c[1], c[2]) = 1

(* Which of the two roots of a call goes up.                               *)
FirstWins(stride, c) == proc_stride_comp_f(stride, c[1], c[2]) = -1

(* What the call skew_heap_merge(c[1], c[2]) returns.                      *)
Returned(stride, c) ==
  IF c[1] = NULL THEN c[2]
  ELSE IF c[2] = NULL \/ FirstWins(stride, c) THEN c[1]
  ELSE c[2]

(* The call that skew_heap_merge(c[1], c[2]) makes of itself.              *)
Inner(stride, h, c) ==
  IF ~Proper(c) THEN c
  ELSE IF FirstWins(stride, c) THEN <<h.right[c[1]], c[2]>>
  ELSE <<c[1], h.right[c[2]]>>

(* The calls by their depth: each but the last is won by a process of its  *)
(* own.                                                                    *)
Calls(stride, h, a, b) ==
  LET c[k \in 0..Cardinality(Proc)] ==
        IF k = 0 THEN <<a, b>> ELSE Inner(stride, h, c[k - 1])
  IN  c

(* Each call links what the call inside it returns below what it returns   *)
(* itself: as the left child, whose place on the right the old left child  *)
(* takes.                                                                  *)
skew_heap_merge(stride, h, a, b) ==
  LET c == Calls(stride, h, a, b)
      top(k) == Returned(stride, c[k])
      linking == {k \in 0..Cardinality(Proc) - 1 : Proper(c[k])}
      won(x) == {k \in linking : top(k) = x}
      over(x) == {k \in linking : top(k + 1) = x}
  IN  [root |-> top(0),
       left |-> [x \in Proc |-> IF won(x) = {} THEN h.left[x]
                                ELSE top((CHOOSE k \in won(x) : TRUE) + 1)],
       right |-> [x \in Proc |-> IF won(x) = {} THEN h.right[x] ELSE h.left[x]],
       parent |-> [x \in Proc |-> IF over(x) = {} THEN h.parent[x]
                                  ELSE top(CHOOSE k \in over(x) : TRUE)]]

skew_heap_init(h, p) ==
  [h EXCEPT !.left[p] = NULL, !.right[p] = NULL, !.parent[p] = NULL]

skew_heap_insert(stride, h, p) ==
  skew_heap_merge(stride, skew_heap_init(h, p), h.root, p)

(* Mutant: the new root of m keeps its parent pointer.                     *)
Adopted_not(m, up) == m

Adopted(m, up) == IF m.root = NULL THEN m ELSE [m EXCEPT !.parent[m.root] = up]

(* The merged children take the place of p: below its parent, or as root.  *)
skew_heap_remove(stride, h, p) ==
  LET up == h.parent[p]
      m == Adopted(skew_heap_merge(stride, h, h.left[p], h.right[p]), up)
  IN  IF up = NULL THEN m
      ELSE IF m.left[up] = p THEN [m EXCEPT !.root = h.root, !.left[up] = m.root]
      ELSE [m EXCEPT !.root = h.root, !.right[up] = m.root]

NoHeap ==
  LET none == [p \in Proc |-> NULL]
  IN  [root |-> NULL, parent |-> none, left |-> none, right |-> none]

(* The processes in heap h: those that the child pointers lead to.         *)
Members(h) ==
  LET Closed == {S \in SUBSET Node :
                   /\ h.root \in S
                   /\ \A x \in S \ {NULL} : h.left[x] \in S /\ h.right[x] \in S}
  IN  {x \in Proc : \A S \in Closed : x \in S}

(* Every process in the heap hangs where its parent pointer says, and in   *)
(* no other place.                                                         *)
Treelike(h) ==
  LET M == Members(h)
  IN  /\ h.root # NULL => h.parent[h.root] = NULL
      /\ \A x \in M : h.left[x] = h.right[x] => h.left[x] = NULL
      /\ \A x, y \in M : h.parent[y] = x <=> y \in {h.left[x], h.right[x]}

(* Mutant: the stride is not advanced.                                     *)
Pass_none(priority) == 0

(* BIG_STRIDE / priority, which is 0 for a priority above BIG_STRIDE; the  *)
(* processor divides by zero without a trap and returns all ones.          *)
Pass(priority) == IF priority = 0 THEN Mod - 1 ELSE BIG_STRIDE \div priority
=============================================================================
