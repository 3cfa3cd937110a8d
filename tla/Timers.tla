------------------------------- MODULE Timers -------------------------------
(***************************************************************************)
(* What the timers of kern/schedule/sched.c promise, and what Kernel       *)
(* assumes of them: every timer has a number of ticks left, each tick      *)
(* takes one off all of them, and a timer fires at the tick that takes the *)
(* last one.                                                               *)
(***************************************************************************)
EXTENDS Integers

CONSTANTS
  Timer,       \* the timers, one per process that may sleep
  MaxExpires   \* bound: longest time a timer is set to

VARIABLES
  left,        \* ticks left; 0: the timer is not set
  fired        \* the timers the last tick fired

vars == <<left, fired>>

Init ==
  /\ left = [t \in Timer |-> 0]
  /\ fired = {}

Add(t, n) ==
  /\ left[t] = 0
  /\ left' = [left EXCEPT ![t] = n]
  /\ fired' = {}

Del(t) ==
  /\ left' = [left EXCEPT ![t] = 0]
  /\ fired' = {}

Tick ==
  /\ fired' = {t \in Timer : left[t] = 1}
  /\ left' = [t \in Timer |-> IF left[t] > 0 THEN left[t] - 1 ELSE 0]

Next ==
  \/ \E t \in Timer, n \in 1..MaxExpires : Add(t, n)
  \/ \E t \in Timer : Del(t)
  \/ Tick

Spec == Init /\ [][Next]_vars
=============================================================================
