----------------------------- MODULE SchedClass -----------------------------
(***************************************************************************)
(* What the core scheduler (kern/schedule/sched.c) and the module Kernel   *)
(* expect of a scheduling class: schedule() puts the current process back  *)
(* when it can still run, takes any runnable process, or idle if there is  *)
(* none, and leaves no runnable process out for ever.                      *)
(***************************************************************************)
CONSTANTS Proc, idleproc

VARIABLES
  ready,    \* the processes in the run queue
  current

vars == <<ready, current>>

Init == ready = {} /\ current = idleproc

(* schedule(), after the current process has (or has not) gone to sleep.   *)
Switch(next) ==
  \E q \in {ready, ready \cup ({current} \ {idleproc})} :
    /\ next \in q \/ (q = {} /\ next = idleproc)
    /\ current' = next
    /\ ready' = q \ {next}

Wake(p) ==
  /\ p \notin ready \cup {current}
  /\ ready' = ready \cup {p}
  /\ UNCHANGED current

Next ==
  \/ \E p \in Proc \cup {idleproc} : Switch(p)
  \/ \E p \in Proc : Wake(p)

(* A process that is in the run queue at ever new schedule() calls is      *)
(* picked at one of them, and schedule() is called again and again.        *)
Spec ==
  /\ Init /\ [][Next]_vars
  /\ \A p \in Proc : SF_vars(p \in ready /\ Switch(p))
=============================================================================
