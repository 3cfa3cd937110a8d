------------------------------- MODULE SemOps -------------------------------
(***************************************************************************)
(* Semaphores (kern/sync/sem.c) on wait queues (kern/sync/wait.c).  The    *)
(* body of every operation runs with interrupts off, so it is one step;    *)
(* down() that sleeps is two, before and behind its schedule().  What runs *)
(* in between is up to the modules that use these operations.              *)
(***************************************************************************)
EXTENDS Integers, Sequences, SequencesExt

CONSTANTS Thread, Sem

VARIABLES
  value,         \* sem->value
  wait_queue,    \* sem->wait_queue, its waiting threads in order
  asleep,        \* threads in state PROC_SLEEPING with wait_state WT_KSEM
  wakeup_flags   \* wait->wakeup_flags of the thread's wait_t

semVars == <<value, wait_queue, asleep, wakeup_flags>>

sem_init(v) ==
  /\ value = v
  /\ wait_queue = [s \in Sem |-> <<>>]
  /\ asleep = {}
  /\ wakeup_flags = [t \in Thread |-> "none"]

(* Mutant: the permit is given to the waiter and to the counter.           *)
up_double(s) ==
  \/ /\ wait_queue[s] = <<>>
     /\ value' = [value EXCEPT ![s] = @ + 1]
     /\ UNCHANGED <<wait_queue, asleep, wakeup_flags>>
  \/ /\ wait_queue[s] # <<>>
     /\ value' = [value EXCEPT ![s] = @ + 1]
     /\ wait_queue' = [wait_queue EXCEPT ![s] = Tail(@)]
     /\ asleep' = asleep \ {Head(wait_queue[s])}
     /\ wakeup_flags' = [wakeup_flags EXCEPT ![Head(wait_queue[s])] = "WT_KSEM"]

(* up(): the first waiter is taken off the queue and woken, the permit     *)
(* goes straight to it; without a waiter the counter goes up.              *)
up(s) ==
  \/ /\ wait_queue[s] = <<>>
     /\ value' = [value EXCEPT ![s] = @ + 1]
     /\ UNCHANGED <<wait_queue, asleep, wakeup_flags>>
  \/ /\ wait_queue[s] # <<>>
     /\ wait_queue' = [wait_queue EXCEPT ![s] = Tail(@)]
     /\ asleep' = asleep \ {Head(wait_queue[s])}
     /\ wakeup_flags' = [wakeup_flags EXCEPT ![Head(wait_queue[s])] = "WT_KSEM"]
     /\ UNCHANGED value

(* down() and try_down() that find a permit.                               *)
down_take(s) ==
  /\ value[s] > 0
  /\ value' = [value EXCEPT ![s] = @ - 1]
  /\ UNCHANGED <<wait_queue, asleep, wakeup_flags>>

(* down() of thread t that finds none, up to its schedule().               *)
down_sleep(t, s) ==
  /\ value[s] <= 0
  /\ wait_queue' = [wait_queue EXCEPT ![s] = Append(@, t)]
  /\ asleep' = asleep \cup {t}
  /\ wakeup_flags' = [wakeup_flags EXCEPT ![t] = "WT_INTERRUPTED"]
  /\ UNCHANGED value

(* down() of thread t behind its schedule(): wait_current_del, and the     *)
(* wait_t goes with the frame.                                             *)
down_resume(t, s) ==
  /\ t \notin asleep
  /\ wait_queue' = [wait_queue EXCEPT ![s] = RemoveFirst(@, t)]
  /\ wakeup_flags' = [wakeup_flags EXCEPT ![t] = "none"]
  /\ UNCHANGED <<value, asleep>>

(* Mutant: WT_KSEM contains WT_INTERRUPTED.                                *)
KsemInterruptible_yes == TRUE

(* proc.h: WT_KSEM does not contain WT_INTERRUPTED.                        *)
KsemInterruptible == FALSE

(* do_kill of thread t as far as its sleep is concerned.                   *)
kill_wakes(t) ==
  /\ asleep' = IF KsemInterruptible THEN asleep \ {t} ELSE asleep
  /\ UNCHANGED <<value, wait_queue, wakeup_flags>>
=============================================================================
