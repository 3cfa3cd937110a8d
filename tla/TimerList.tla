----------------------------- MODULE TimerList ------------------------------
(***************************************************************************)
(* The timer list of kern/schedule/sched.c: a list sorted by expiry in     *)
(* which a timer's expires counts the ticks after its predecessor.  Each   *)
(* operation runs with interrupts off, so it is one step.                  *)
(***************************************************************************)
EXTENDS Integers, Sequences

CONSTANTS
  Timer,
  MaxExpires   \* bound: longest time a timer is set to

ASSUME TimerAssumption == MaxExpires \in Nat

VARIABLES
  timer_list,  \* sequence of [timer, expires]
  fired        \* the timers whose process the last run_timer_list woke

timerVars == <<timer_list, fired>>

Range1(s) == {s[i].timer : i \in DOMAIN s}
InList(t) == t \in Range1(timer_list)
IndexOf(l, t) == CHOOSE i \in DOMAIN l : l[i].timer = t

Entry(t, n) == [timer |-> t, expires |-> n]

(* Mutant: the timer that is passed keeps its expires.                     *)
InsertBefore_keepNext(l, i, t, n) ==
  SubSeq(l, 1, i - 1) \o <<Entry(t, n)>> \o SubSeq(l, i, Len(l))

(* t is linked in front of l[i], which from now on counts from t.          *)
InsertBefore(l, i, t, n) ==
  SubSeq(l, 1, i - 1) \o <<Entry(t, n)>>
    \o <<[l[i] EXCEPT !.expires = @ - n]>> \o SubSeq(l, i + 1, Len(l))

(* What the while loop of add_timer leaves of n when it gets to each of    *)
(* the timers of l.                                                        *)
ToPlace(l, n) ==
  LET m[i \in 1..Len(l) + 1] == IF i = 1 THEN n ELSE m[i - 1] - l[i - 1].expires
  IN  m

(* The loop stops at the first timer that has more ticks to go.            *)
StopsAt(l, n) ==
  CHOOSE i \in 1..Len(l) + 1 :
    /\ \A j \in 1..i - 1 : ToPlace(l, n)[j] >= l[j].expires
    /\ i = Len(l) + 1 \/ ToPlace(l, n)[i] < l[i].expires

Added(l, t, n) ==
  LET i == StopsAt(l, n)
      m == ToPlace(l, n)[i]
  IN  IF i = Len(l) + 1 THEN Append(l, Entry(t, m)) ELSE InsertBefore(l, i, t, m)

(* l without its i-th timer, whose ticks go to its successor.              *)
Without(l, i) ==
  [j \in 1..Len(l) - 1 |->
     IF j < i THEN l[j]
     ELSE IF j = i THEN [l[j + 1] EXCEPT !.expires = @ + l[i].expires]
     ELSE l[j + 1]]

(* How many timers the while loop of run_timer_list fires: the leading     *)
(* ones with nothing left.                                                 *)
ExpiredPrefix(l) ==
  CHOOSE k \in 0..Len(l) :
    /\ \A i \in 1..k : l[i].expires = 0
    /\ k = Len(l) \/ l[k + 1].expires # 0

-----------------------------------------------------------------------------
TimerInit ==
  /\ timer_list = <<>>
  /\ fired = {}

(* add_timer asserts that the timer is not linked and has time to go.      *)
add_timer(t, n) ==
  /\ ~InList(t)
  /\ timer_list' = Added(timer_list, t, n)
  /\ fired' = {}

del_timer(t) ==
  /\ timer_list' = IF InList(t) THEN Without(timer_list, IndexOf(timer_list, t))
                   ELSE timer_list
  /\ fired' = {}

run_timer_list ==
  \/ /\ timer_list = <<>>
     /\ fired' = {}
     /\ UNCHANGED timer_list
  \/ /\ timer_list # <<>>
     /\ LET l == [timer_list EXCEPT ![1].expires = @ - 1]
            k == ExpiredPrefix(l)
        IN  /\ fired' = Range1(SubSeq(l, 1, k))
            /\ timer_list' = SubSeq(l, k + 1, Len(l))

(* What processes do with timers.                                          *)
SetTimers ==
  \/ \E t \in Timer, n \in 1..MaxExpires : add_timer(t, n)
  \/ \E t \in Timer : del_timer(t)

TimerNext == SetTimers \/ run_timer_list

TimerSpec == TimerInit /\ [][TimerNext]_timerVars

-----------------------------------------------------------------------------
(* The ticks after which each timer of l fires.                            *)
TicksTo(l) ==
  LET f[i \in 0..Len(l)] == IF i = 0 THEN 0 ELSE f[i - 1] + l[i].expires
  IN  f

Left == [t \in Timer |-> IF InList(t) THEN TicksTo(timer_list)[IndexOf(timer_list, t)] ELSE 0]

Abstract == INSTANCE Timers WITH left <- Left, fired <- fired

(* The delta list is a faithful timer queue: every timer fires at exactly  *)
(* the tick it was set for, whatever timers are added before or deleted    *)
(* around it in the meantime.                                              *)
FiresOnTime == Abstract!Spec
=============================================================================
