---------------------------- MODULE AddressSpaces ---------------------------
(***************************************************************************)
(* What the memory management promises a user program: every process has a *)
(* memory of its own, a page of which comes into being with its first use, *)
(* keeps what was last stored in it and is copied by fork.                 *)
(***************************************************************************)
CONSTANTS
  Mm, Va, Data,
  Image  \* what a program may find in its pages when it starts

VARIABLE space  \* the pages of every address space and what they hold

NoPages == [v \in {} |-> 0]

Init == space = [m \in Mm |-> NoPages]

Store(m, v, d) ==
  /\ v \in DOMAIN space[m]
  /\ space' = [space EXCEPT ![m][v] = d]

(* A page that was never used holds anything.                              *)
Touch(m, v, d) ==
  /\ v \notin DOMAIN space[m]
  /\ space' = [space EXCEPT ![m] =
               [w \in DOMAIN @ \cup {v} |-> IF w = v THEN d ELSE @[w]]]

Fork(m, n) ==
  /\ space[n] = NoPages
  /\ space' = [space EXCEPT ![n] = space[m]]

(* A program takes over an address space, which held another one or none.  *)
Exec(m, image) == space' = [space EXCEPT ![m] = image]

Exit(m) == space' = [space EXCEPT ![m] = NoPages]

Next ==
  \/ \E m \in Mm, d \in Data : \/ \E v \in DOMAIN space[m] : Store(m, v, d)
                             \/ \E v \in Va \ DOMAIN space[m] : Touch(m, v, d)
  \/ \E m, n \in Mm : Fork(m, n)
  \/ \E m \in Mm, image \in Image : Exec(m, image)
  \/ \E m \in Mm : Exit(m)

Spec == Init /\ [][Next]_space
=============================================================================
