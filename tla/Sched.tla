------------------------------- MODULE Sched --------------------------------
(***************************************************************************)
(* The core scheduler (kern/schedule/sched.c): schedule(), wakeup_proc and *)
(* the timer tick, over a run queue that belongs to the scheduling class   *)
(* sched_init has chosen: round robin (lab6 and lab7, default_sched_c.c)   *)
(* or stride (lab8, StrideSched).                                          *)
(***************************************************************************)
EXTENDS StrideSched

CONSTANTS
  idleproc, MAX_TIME_SLICE,
  InitStride,    \* what alloc_proc may leave in lab6_stride
  Priority,      \* what alloc_proc may leave in lab6_priority, and user programs ask for
  Sleepers       \* the processes that sleep under the stride class

ASSUME SchedAssumption ==
  /\ MAX_TIME_SLICE \in Nat \ {0} /\ idleproc \notin Proc
  /\ InitStride \subseteq 0..Mod - 1
  /\ Priority \subseteq 0..Mod - 1
  /\ Sleepers \subseteq Proc

VARIABLES
  sched_class,    \* "RR" or "stride"
  run_list,       \* rq->run_list of round robin, a sequence
  lab6_run_pool,  \* rq->lab6_run_pool of stride, a heap
  proc_num,       \* rq->proc_num
  time_slice, need_resched, lab6_stride, lab6_priority,
  current,
  asleep          \* the processes in state PROC_SLEEPING

queue == <<run_list, lab6_run_pool, proc_num, lab6_stride>>
vars == <<sched_class, queue, time_slice, need_resched, lab6_priority, current, asleep>>

(* Every process is still to be woken by do_fork, for the first time.      *)
(* alloc_proc sets neither lab6_stride nor lab6_priority.                  *)
Init ==
  /\ run_list = <<>>
  /\ lab6_run_pool = NoHeap
  /\ proc_num = 0
  /\ time_slice = [p \in Proc |-> 0]
  /\ need_resched = [p \in Proc \cup {idleproc} |-> p = idleproc]
  /\ current = idleproc
  /\ asleep = Proc
  /\ \/ /\ sched_class = "RR"
        /\ lab6_stride = [p \in Proc |-> 0]
        /\ lab6_priority = [p \in Proc |-> 0]
     \/ /\ sched_class = "stride"
        /\ lab6_stride \in [Proc -> InitStride]
        /\ lab6_priority \in [Proc -> Priority]

-----------------------------------------------------------------------------
(* What enqueue leaves in the time slice, in both classes.                 *)
EnqueuedSlice(p) ==
  [time_slice EXCEPT ![p] = IF @ = 0 \/ @ > MAX_TIME_SLICE THEN MAX_TIME_SLICE ELSE @]

(* Mutant: the process goes to the head of the list.                       *)
RR_enqueue_head(q, p) == <<p>> \o q

RR_enqueue(q, p) == Append(q, p)

stride_enqueue(h, p) == skew_heap_insert(lab6_stride, h, p)

(* pick_next of list q and dequeue of what it picked.                      *)
RR_pick_next(q) ==
  /\ sched_class = "RR"
  /\ current' = IF q = <<>> THEN idleproc ELSE Head(q)
  /\ run_list' = IF q = <<>> THEN q ELSE Tail(q)
  /\ UNCHANGED <<lab6_run_pool, lab6_stride>>

(* The same of heap h: the stride of the root is advanced while it is      *)
(* still in the heap.                                                      *)
stride_pick_next(h) ==
  /\ sched_class = "stride"
  /\ \/ /\ h.root = NULL
        /\ current' = idleproc
        /\ lab6_run_pool' = h
        /\ UNCHANGED lab6_stride
     \/ /\ h.root # NULL
        /\ current' = h.root
        /\ lab6_stride' = [lab6_stride EXCEPT ![h.root] = (@ + Pass(lab6_priority[h.root])) % Mod]
        /\ lab6_run_pool' = skew_heap_remove(lab6_stride', h, h.root)
  /\ UNCHANGED run_list

(* schedule(): back is the process that goes back into the queue, if any.  *)
schedule(back) ==
  /\ need_resched' = [need_resched EXCEPT ![current] = FALSE]
  /\ time_slice' = IF back = {} THEN time_slice ELSE EnqueuedSlice(current)
  /\ \/ RR_pick_next(IF back = {} THEN run_list ELSE RR_enqueue(run_list, current))
     \/ stride_pick_next(IF back = {} THEN lab6_run_pool ELSE stride_enqueue(lab6_run_pool, current))
  /\ proc_num' = proc_num + Cardinality(back) - (IF current' = idleproc THEN 0 ELSE 1)
  /\ UNCHANGED <<sched_class, lab6_priority>>

(* The end of trap() and the loop of cpu_idle.                             *)
Preempt ==
  /\ need_resched[current]
  /\ schedule({current} \ {idleproc})
  /\ UNCHANGED asleep

(* do_yield, which sets need_resched and is preempted at once.             *)
Yield ==
  /\ current # idleproc
  /\ schedule({current})
  /\ UNCHANGED asleep

(* Any call that sleeps and calls schedule().                              *)
Sleep ==
  /\ current \in IF sched_class = "RR" THEN Proc ELSE Sleepers
  /\ asleep' = asleep \cup {current}
  /\ schedule({})

wakeup_proc(p) ==
  /\ p \in asleep
  /\ asleep' = asleep \ {p}
  /\ time_slice' = EnqueuedSlice(p)
  /\ proc_num' = proc_num + 1
  /\ \/ sched_class = "RR" /\ run_list' = RR_enqueue(run_list, p) /\ UNCHANGED lab6_run_pool
     \/ sched_class = "stride" /\ lab6_run_pool' = stride_enqueue(lab6_run_pool, p) /\ UNCHANGED run_list
  /\ UNCHANGED <<sched_class, lab6_stride, need_resched, lab6_priority, current>>

(* RR_proc_tick and stride_proc_tick.                                      *)
proc_tick ==
  /\ current # idleproc
  /\ time_slice' = [time_slice EXCEPT ![current] = IF @ > 0 THEN @ - 1 ELSE @]
  /\ need_resched' = [need_resched EXCEPT ![current] = @ \/ time_slice'[current] = 0]

(* sched_class_proc_tick.                                                  *)
Tick ==
  /\ \/ proc_tick
     \/ /\ current = idleproc
        /\ need_resched' = [need_resched EXCEPT ![current] = TRUE]
        /\ UNCHANGED time_slice
  /\ UNCHANGED <<sched_class, queue, lab6_priority, current, asleep>>

(* Any priority but 0 goes.  Round robin never reads it.                   *)
lab6_set_priority(priority) ==
  /\ sched_class = "stride"
  /\ current # idleproc
  /\ lab6_priority' = [lab6_priority EXCEPT ![current] = IF priority = 0 THEN 1 ELSE priority]
  /\ UNCHANGED <<sched_class, queue, time_slice, need_resched, current, asleep>>

Next ==
  \/ Preempt \/ Yield \/ Sleep \/ Tick
  \/ \E priority \in Priority : lab6_set_priority(priority)
  \/ \E p \in Proc : wakeup_proc(p)

Spec == Init /\ [][Next]_vars

(* What schedule() does first.                                             *)
Rescheduled ==
  /\ need_resched[current]
  /\ need_resched' = [need_resched EXCEPT ![current] = FALSE]

(* The timer goes on ticking, and a trap that finds need_resched set calls *)
(* schedule().                                                             *)
FairSpec == Spec /\ WF_vars(Tick) /\ WF_need_resched(Rescheduled)

-----------------------------------------------------------------------------
Listed == {run_list[i] : i \in DOMAIN run_list}

Queued == Listed \cup Members(lab6_run_pool)

(* Every process is in exactly one place: running, asleep or once in the   *)
(* list or the heap, whatever the strides are and however they compare.    *)
(* So the assertions of RR_enqueue and RR_dequeue on run_link hold.        *)
OnePlace ==
  /\ Len(run_list) = Cardinality(Listed)
  /\ Treelike(lab6_run_pool)
  /\ proc_num = Cardinality(Queued)
  /\ Queued = Proc \ (asleep \cup {current})
  /\ current \notin asleep

(* Nobody overtakes a process in the list: it only ever moves forward.     *)
NoOvertaking ==
  [][\A i \in DOMAIN run_list :
       \/ current' = run_list[i]
       \/ \E j \in DOMAIN run_list' : j <= i /\ run_list'[j] = run_list[i]]_vars

Either == INSTANCE SchedClass WITH ready <- Queued

(* Under either class schedule() puts back nobody but the current process, *)
(* and runs someone from the queue unless the queue is empty.              *)
RunsTheReady == Either!Init /\ [][Either!Next]_(Either!vars)

RoundRobin ==
  INSTANCE SchedClass WITH
    ready <- IF sched_class = "RR" THEN Queued ELSE {},
    current <- IF sched_class = "RR" THEN current ELSE idleproc

(* Both classes are scheduling classes as Kernel assumes one, and round    *)
(* robin is fair as well: nobody stays in its queue for ever.              *)
IsSchedClass == RunsTheReady /\ RoundRobin!Spec

(* The root of the heap is not behind anybody in it.                       *)
PickIsMinimum ==
  lab6_run_pool.root # NULL =>
    \A p \in Queued : proc_stride_comp_f(lab6_stride, lab6_run_pool.root, p) # 1

(* The strides lie within one BIG_STRIDE of each other.                    *)
StrideWindow ==
  \A p, q \in Proc :
    LET c == (lab6_stride[p] - lab6_stride[q]) % Mod
    IN  c <= BIG_STRIDE \/ c >= Mod - BIG_STRIDE

(* What the stride class relies on: every process has got a priority, the  *)
(* strides start close together, and while a process runs nobody sleeps or *)
(* is still to be forked.                                                  *)
Undisturbed ==
  /\ sched_class = "stride"
  /\ StrideWindow
  /\ \A p \in Proc : lab6_priority[p] > 0
  /\ [](current # idleproc => asleep = {})

(* "pick the element from the run-queue, with the minimum value of stride" *)
(* (default_sched_stride.c:105): while nobody sleeps the strides stay      *)
(* within one BIG_STRIDE of each other across their wrap-around, so that   *)
(* the signed comparison orders them and stride_pick_next picks a process  *)
(* that is behind no other.                                                *)
MinimumWhileAwake == Undisturbed => [](PickIsMinimum /\ StrideWindow)

(* While nobody sleeps every process runs again and again, however the     *)
(* priorities differ and change, as long as none is above BIG_STRIDE: the  *)
(* stride of such a process never advances, and while it is the lowest     *)
(* nobody else is picked.                                                  *)
NobodyStarves ==
  Undisturbed /\ [](\A p \in Proc : lab6_priority[p] <= BIG_STRIDE)
    => \A p \in Proc : (asleep = {}) ~> (current = p)
=============================================================================
