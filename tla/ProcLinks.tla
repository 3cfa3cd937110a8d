----------------------------- MODULE ProcLinks ------------------------------
(***************************************************************************)
(* The family pointers of kern/process/proc.c: parent, cptr (youngest      *)
(* child), yptr and optr (younger and older sibling), as do_fork, do_exit  *)
(* and do_wait change them.  The loop of do_exit that gives the children   *)
(* to initproc runs with interrupts off; it is taken apart into one step   *)
(* per child so that it can be reasoned about.                             *)
(***************************************************************************)
EXTENDS Integers, FiniteSets

CONSTANTS Users, initproc, NULL

ASSUME LinksAssumption ==
  /\ IsFiniteSet(Users)
  /\ initproc \notin Users
  /\ NULL \notin Users \cup {initproc}

Proc == Users \cup {initproc}
Ptr == Proc \cup {NULL}

VARIABLES
  state,                     \* "free", "live" or "zombie"
  parent, cptr, yptr, optr,  \* the pointers of every proc_struct
  exiting                    \* the process in the loop of do_exit, or NULL

vars == <<state, parent, cptr, yptr, optr, exiting>>

Nulls == [p \in Proc |-> NULL]

Init ==
  /\ state = [p \in Proc |-> IF p = initproc THEN "live" ELSE "free"]
  /\ parent = Nulls
  /\ cptr = Nulls
  /\ yptr = Nulls
  /\ optr = Nulls
  /\ exiting = NULL

(* f with f[p] set to v; a NULL pointer is not followed.                   *)
Store(f, p, v) == [q \in Proc |-> IF q = p THEN v ELSE f[q]]

(* Mutant: the older sibling is not told about the younger one.            *)
LinkFirst_oneWay(f, y, o, c, p) ==
  /\ yptr' = Store(y, c, NULL)
  /\ optr' = Store(o, c, f[p])
  /\ cptr' = Store(f, p, c)
  /\ parent' = Store(parent, c, p)

(* c becomes the youngest child of p; f, y and o are cptr, yptr and optr   *)
(* as the caller has left them.                                            *)
LinkFirst(f, y, o, c, p) ==
  /\ yptr' = Store(Store(y, c, NULL), f[p], c)
  /\ optr' = Store(o, c, f[p])
  /\ cptr' = Store(f, p, c)
  /\ parent' = Store(parent, c, p)

(* do_fork: a fresh proc_struct, its parent, and set_links.                *)
do_fork(p, c) ==
  /\ exiting = NULL
  /\ state[p] = "live"
  /\ state[c] = "free"
  /\ state' = [state EXCEPT ![c] = "live"]
  /\ LinkFirst(Store(cptr, c, NULL), yptr, optr, c, p)
  /\ UNCHANGED exiting

do_exit(p) ==
  /\ exiting = NULL
  /\ state[p] = "live"
  /\ p # initproc
  /\ state' = [state EXCEPT ![p] = "zombie"]
  /\ exiting' = p
  /\ UNCHANGED <<parent, cptr, yptr, optr>>

(* One round of the while loop.                                            *)
Adopt ==
  /\ exiting # NULL
  /\ cptr[exiting] # NULL
  /\ LET c == cptr[exiting]
     IN  LinkFirst(Store(cptr, exiting, optr[c]), yptr, optr, c, initproc)
  /\ UNCHANGED <<state, exiting>>

ExitDone ==
  /\ exiting # NULL
  /\ cptr[exiting] = NULL
  /\ exiting' = NULL
  /\ UNCHANGED <<state, parent, cptr, yptr, optr>>

(* Mutant: the parent's pointer is never moved on.                         *)
remove_links_keepFirst(c) ==
  /\ yptr' = Store(yptr, optr[c], yptr[c])
  /\ optr' = Store(optr, yptr[c], optr[c])
  /\ UNCHANGED cptr

remove_links(c) ==
  /\ yptr' = Store(yptr, optr[c], yptr[c])
  /\ optr' = Store(optr, yptr[c], optr[c])
  /\ cptr' = IF yptr[c] = NULL THEN Store(cptr, parent[c], optr[c]) ELSE cptr

(* The end of do_wait of the parent: c is unlinked and freed.              *)
do_wait(c) ==
  /\ exiting = NULL
  /\ c # initproc
  /\ state[c] = "zombie"
  /\ state[parent[c]] = "live"
  /\ remove_links(c)
  /\ state' = [state EXCEPT ![c] = "free"]
  /\ UNCHANGED <<parent, exiting>>

Next ==
  \/ \E p \in Proc : do_exit(p) \/ do_wait(p)
  \/ \E p, c \in Proc : do_fork(p, c)
  \/ Adopt \/ ExitDone

Spec == Init /\ [][Next]_vars

-----------------------------------------------------------------------------
TypeOK ==
  /\ state \in [Proc -> {"free", "live", "zombie"}]
  /\ parent \in [Proc -> Ptr]
  /\ cptr \in [Proc -> Ptr]
  /\ yptr \in [Proc -> Ptr]
  /\ optr \in [Proc -> Ptr]
  /\ exiting \in Ptr

Linked(c) == c # initproc /\ state[c] # "free"

(* The head of the exiting process's list still points at the sibling that *)
(* the last round of the loop took away.                                   *)
Stale(c) == exiting # NULL /\ cptr[exiting] = c

(* Sibling lists are doubly linked: what one pointer says, the pointer     *)
(* back confirms, and no pointer leads to a process that is gone or has    *)
(* another parent.  cptr leads to the youngest.                            *)
DoublyLinked ==
  /\ \A c \in Proc : Linked(c) =>
       /\ parent[c] \in Proc
       /\ optr[c] # NULL =>
            /\ Linked(optr[c]) /\ parent[optr[c]] = parent[c]
            /\ yptr[optr[c]] = c
       /\ (yptr[c] # NULL /\ ~Stale(c)) =>
            /\ Linked(yptr[c]) /\ parent[yptr[c]] = parent[c]
            /\ optr[yptr[c]] = c
       /\ (yptr[c] = NULL \/ Stale(c)) => cptr[parent[c]] = c
  /\ \A p \in Proc : (state[p] # "free" /\ cptr[p] # NULL) =>
       /\ Linked(cptr[p]) /\ parent[cptr[p]] = p
       /\ yptr[cptr[p]] = NULL \/ Stale(cptr[p])
       /\ \A c \in Proc : Linked(c) => optr[c] # cptr[p]

(* Only a live process, or the one in the loop of do_exit, has children:   *)
(* no list hangs on a proc_struct that do_wait frees or do_fork reuses.    *)
OnlyLiveHaveKids ==
  \A p \in Proc : state[p] # "live" /\ p # exiting => cptr[p] = NULL

(* The n-th process of the loop in do_wait over the children of p.         *)
Kid(p) ==
  LET kid[n \in 0..Cardinality(Proc)] ==
        IF n = 0 THEN cptr[p] ELSE IF kid[n - 1] = NULL THEN NULL ELSE optr[kid[n - 1]]
  IN  kid

(* The loop in do_wait over the children of a process ends and meets       *)
(* exactly the processes whose parent it is, and every process is met by   *)
(* one that is still there.                                                *)
KidsExact ==
  exiting = NULL =>
    /\ \A c \in Proc : Linked(c) => state[parent[c]] = "live"
    /\ \A p \in Proc : state[p] # "free" =>
      /\ Kid(p)[Cardinality(Proc)] = NULL
      /\ {Kid(p)[n] : n \in 0..Cardinality(Proc)} \ {NULL}
           = {c \in Proc : Linked(c) /\ parent[c] = p}
=============================================================================
