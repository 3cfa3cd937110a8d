---------------------------- MODULE CountingSem -----------------------------
(***************************************************************************)
(* What a semaphore promises: a number of permits, each held by at most    *)
(* one thread.  A thread that wants one gets one only when there is one.   *)
(***************************************************************************)
EXTENDS Integers

CONSTANTS Thread, Permits

VARIABLES
  permits,  \* permits nobody holds
  wants,    \* threads inside down()
  holds     \* threads that hold a permit

vars == <<permits, wants, holds>>

Init ==
  /\ permits = Permits
  /\ wants = {}
  /\ holds = {}

Want(t) ==
  /\ t \notin wants \cup holds
  /\ wants' = wants \cup {t}
  /\ UNCHANGED <<permits, holds>>

Acquire(t) ==
  /\ t \notin holds
  /\ permits > 0
  /\ permits' = permits - 1
  /\ holds' = holds \cup {t}
  /\ wants' = wants \ {t}

Release(t) ==
  /\ t \in holds
  /\ permits' = permits + 1
  /\ holds' = holds \ {t}
  /\ UNCHANGED wants

Next == \E t \in Thread : Want(t) \/ Acquire(t) \/ Release(t)

Spec == Init /\ [][Next]_vars
=============================================================================
