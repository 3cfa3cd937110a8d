------------------------------ MODULE Monitor -------------------------------
(***************************************************************************)
(* The monitors of kern/sync/monitor.c, built from semaphores.  A thread's *)
(* place pc[t] is a tuple: a label, what the label is about, and the place *)
(* it goes on from, so that the steps inside cond_signal, cond_wait and    *)
(* down() know where their caller continues.  One step per semaphore       *)
(* operation; threads interleave between any two steps.                    *)
(***************************************************************************)
EXTENDS Integers, Sequences

CONSTANTS
  Thread,
  CV,
  Sem    \* the semaphores of the program, the monitor's among them

mutex == <<"mutex">>
next == <<"next">>
cv_sem(c) == <<"cv", c>>
MonSem == {mutex, next} \cup {cv_sem(c) : c \in CV}

VARIABLES
  value, wait_queue, asleep, wakeup_flags,  \* the semaphores, see SemOps
  count,       \* cv[c].count
  next_count,  \* mtp->next_count
  pc

INSTANCE SemOps

monVars == <<value, wait_queue, asleep, wakeup_flags, count, next_count, pc>>

(* The monitor is initialised; it is not in use.                           *)
monitor_init ==
  /\ value' = [x \in Sem |-> IF x = mutex THEN 1 ELSE IF x \in MonSem THEN 0 ELSE value[x]]
  /\ wait_queue' = [x \in Sem |-> IF x \in MonSem THEN <<>> ELSE wait_queue[x]]
  /\ count' = [c \in CV |-> 0]
  /\ next_count' = 0
  /\ UNCHANGED <<asleep, wakeup_flags>>

Goto(t, from, to) == pc[t] = from /\ pc' = [pc EXCEPT ![t] = to]

(* down(x), which goes on at k.                                            *)
Down(t, x, k) ==
  /\ \/ Goto(t, <<"down", x, k>>, k) /\ down_take(x)
     \/ Goto(t, <<"down", x, k>>, <<"blocked", x, k>>) /\ down_sleep(t, x)
     \/ Goto(t, <<"blocked", x, k>>, k) /\ down_resume(t, x)
  /\ UNCHANGED <<count, next_count>>

(* The way out of the monitor: a sleeping signaller goes on before anybody *)
(* new comes in.                                                           *)
Leave ==
  \/ next_count > 0 /\ up(next)
  \/ next_count <= 0 /\ up(mutex)

(* Mutant: the signaller goes on beside the thread it woke.                *)
cond_signal_noWait(t, c, k) ==
  /\ Goto(t, <<"signal", c, k>>, k)
  /\ \/ count[c] > 0 /\ up(cv_sem(c))
     \/ count[c] <= 0 /\ UNCHANGED <<value, wait_queue, asleep, wakeup_flags>>
  /\ UNCHANGED <<count, next_count>>

cond_signal(t, c, k) ==
  \/ /\ Goto(t, <<"signal", c, k>>, k)
     /\ count[c] <= 0
     /\ UNCHANGED <<value, wait_queue, asleep, wakeup_flags, count, next_count>>
  \/ /\ Goto(t, <<"signal", c, k>>, <<"down", next, <<"signalled", c, k>>>>)
     /\ count[c] > 0
     /\ next_count' = next_count + 1
     /\ up(cv_sem(c))
     /\ UNCHANGED count
  \/ Down(t, next, <<"signalled", c, k>>)
  \/ /\ Goto(t, <<"signalled", c, k>>, k)
     /\ next_count' = next_count - 1
     /\ UNCHANGED <<value, wait_queue, asleep, wakeup_flags, count>>

(* Mutant: the waiter is not counted.                                      *)
cond_wait_noCount(t, c, k) ==
  \/ /\ Goto(t, <<"wait", c, k>>, <<"down", cv_sem(c), <<"woken", c, k>>>>)
     /\ Leave
     /\ UNCHANGED <<count, next_count>>
  \/ Down(t, cv_sem(c), <<"woken", c, k>>)
  \/ /\ Goto(t, <<"woken", c, k>>, k)
     /\ UNCHANGED <<value, wait_queue, asleep, wakeup_flags, count, next_count>>

cond_wait(t, c, k) ==
  \/ /\ Goto(t, <<"wait", c, k>>, <<"down", cv_sem(c), <<"woken", c, k>>>>)
     /\ count' = [count EXCEPT ![c] = @ + 1]
     /\ Leave
     /\ UNCHANGED next_count
  \/ Down(t, cv_sem(c), <<"woken", c, k>>)
  \/ /\ Goto(t, <<"woken", c, k>>, k)
     /\ count' = [count EXCEPT ![c] = @ - 1]
     /\ UNCHANGED <<value, wait_queue, asleep, wakeup_flags, next_count>>

(* A thread is active in the monitor from the return of the down() that    *)
(* let it in to the up() that lets another one in: it has called cond_wait *)
(* or cond_signal, or come back from it, or is at one of the caller's own  *)
(* places inside.                                                          *)
Active(t, inside) == pc[t][1] \in {"signal", "signalled", "wait", "woken"} \cup inside
=============================================================================
