----------------------------- MODULE Interrupts -----------------------------
(***************************************************************************)
(* The timer interrupt (kern/trap/trap.c) joins the timers and the         *)
(* keyboard: one interrupt runs the timer list and then hands the          *)
(* character that has been typed, if any, to the device.  Between          *)
(* interrupts processes set and delete timers, read, and kill readers.     *)
(***************************************************************************)
EXTENDS TimerList, Stdin

InterruptInit == TimerInit /\ StdinInit

(* The case IRQ_S_TIMER of interrupt_handler.  cons_getc returns 0 when no *)
(* key has been typed, and dev_stdin_write ignores that.                   *)
interrupt_handler ==
  /\ run_timer_list
  /\ dev_stdin_write \/ UNCHANGED stdinVars

InterruptNext ==
  \/ interrupt_handler
  \/ SetTimers /\ UNCHANGED stdinVars
  \/ Readers /\ UNCHANGED timerVars

InterruptSpec == InterruptInit /\ [][InterruptNext]_<<timerVars, stdinVars>>

(* Timers are alike, and so are readers.                                   *)
Alike == Permutations(Timer) \cup Permutations(Reader)
=============================================================================
