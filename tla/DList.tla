------------------------------- MODULE DList --------------------------------
(***************************************************************************)
(* The circular doubly linked lists of libs/list.h.  A heap of entries is  *)
(* a record of two functions, the next and the prev pointers.              *)
(***************************************************************************)
EXTENDS Integers

(* __list_add(elm, prev, next), assignment by assignment.                  *)
list_link(L, e, p, n) ==
  [next |-> [L.next EXCEPT ![p] = e, ![e] = n],
   prev |-> [L.prev EXCEPT ![n] = e, ![e] = p]]

list_add_after(L, le, e) == list_link(L, e, le, L.next[le])
list_add_before(L, le, e) == list_link(L, e, L.prev[le], le)

(* list_del: the neighbours that e names are linked to each other.         *)
list_del(L, e) ==
  [next |-> [L.next EXCEPT ![L.prev[e]] = L.next[e]],
   prev |-> [L.prev EXCEPT ![L.next[e]] = L.prev[e]]]

(* A list with nothing but its head.                                       *)
list_init(Entry) == [next |-> [e \in Entry |-> e], prev |-> [e \in Entry |-> e]]

(* The k-th entry of a walk along the next pointers from head.             *)
Walk(L, head, max) ==
  LET w[k \in 0..max] == IF k = 0 THEN head ELSE L.next[w[k - 1]]
  IN  w

(* The list is sound: a walk from head comes back after at most max steps, *)
(* and every next pointer on it has its prev pointer.                      *)
WellLinked(L, head, max) ==
  LET w == Walk(L, head, max)
  IN  /\ \E k \in 1..max : w[k] = head
      /\ \A k \in 0..max - 1 : L.prev[w[k + 1]] = w[k]
=============================================================================
