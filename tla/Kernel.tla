------------------------------- MODULE Kernel -------------------------------
(***************************************************************************)
(* The life cycle of processes in the lab8 kernel: do_fork, do_exit,       *)
(* do_wait, do_kill, do_yield, do_sleep (kern/process/proc.c), the generic *)
(* scheduler and the timers that drive it (kern/schedule/sched.c), and the *)
(* end of trap() (kern/trap/trap.c).                                       *)
(*                                                                         *)
(* The kernel runs on one hart and is never preempted: a system call runs  *)
(* with interrupts off, and trap() calls schedule() only on its way back   *)
(* to user mode.  So a step of this module is a stretch of kernel code     *)
(* between two points where control can really move: entry of a system     *)
(* call, a call of schedule(), the end of trap().  pc records where a      *)
(* process continues when schedule() switches back to it.                  *)
(*                                                                         *)
(* Abstractions, each with a module of its own: the timer list is the      *)
(* number of ticks each timer has left (TimerList), the family pointers    *)
(* cptr/yptr/optr are the parent function (ProcLinks), a pid is the        *)
(* proc_struct it names (GetPid), and the scheduling class behind          *)
(* sched_class is a set from which pick_next may take any member (Sched).  *)
(* Memory is not modelled: an allocation may fail at any fork.             *)
(***************************************************************************)
EXTENDS Integers, FiniteSets

CONSTANTS
  Users,        \* proc_structs other than idle's and init's
  idleproc,     \* pid 0, the idle loop
  initproc,     \* pid 1, the thread that runs init_main
  MAX_PROCESS,  \* proc.h: limit on nr_process
  MaxSleep,     \* bound: longest time given to do_sleep
  Watched       \* the processes that KilledSleeperExits and SleepsEnd speak of

ASSUME KernelAssumption ==
  /\ IsFiniteSet(Users)
  /\ idleproc # initproc
  /\ idleproc \notin Users
  /\ initproc \notin Users
  /\ MAX_PROCESS \in Nat
  /\ MaxSleep \in Nat
  /\ Watched \subseteq Users \cup {initproc}

Proc == Users \cup {idleproc, initproc}

VARIABLES
  state,        \* proc->state; "FREE": the proc_struct is not allocated
  wait_state,   \* proc->wait_state; "NONE" is 0
  exiting,      \* the processes whose flags have PF_EXITING
  need_resched, \* the processes whose need_resched is 1
  parent,       \* proc->parent
  runq,         \* the run queue behind sched_class
  current,      \* the running process
  timer,        \* ticks left of the timer a process sleeps on; 0: not in timer_list
  pc,           \* where the process continues
  waitfor,      \* the pids do_wait was asked for: all of them for pid 0
  nr_process,   \* number of processes linked into proc_list, and idle
  panicked      \* the kernel has called panic()

vars == <<state, wait_state, exiting, need_resched, parent, runq, current,
          timer, pc, waitfor, nr_process, panicked>>

States == {"FREE", "SLEEPING", "RUNNABLE", "ZOMBIE"}
WaitStates == {"NONE", "WT_CHILD", "WT_TIMER"}

(***************************************************************************)
(* "user": in user mode, or dead.  "ret": at the end of trap(), before     *)
(* PF_EXITING and need_resched are looked at.  "wait", "sleep": behind the *)
(* schedule() of do_wait and do_sleep.  "idle": cpu_idle.  "boot", "loop", *)
(* "done": init_main before its fork, in its do_wait loop, behind it.      *)
(***************************************************************************)
PCs == {"user", "ret", "wait", "sleep", "idle", "boot", "loop", "done"}

Live(p) == state[p] # "FREE"

(* Mutant: do_wait(pid) does not compare the parent.                       *)
Children_anyParent(p) == {c \in Proc : Live(c) /\ c # idleproc}

Children(p) == {c \in Proc : Live(c) /\ parent[c] = p /\ c # idleproc}

-----------------------------------------------------------------------------
(* The machine after proc_init: idle is current and wants to reschedule.   *)
Init ==
  /\ state = [p \in Proc |-> IF p \in Users THEN "FREE" ELSE "RUNNABLE"]
  /\ wait_state = [p \in Proc |-> "NONE"]
  /\ exiting = {}
  /\ need_resched = {idleproc}
  /\ parent = [p \in Proc |-> idleproc]
  /\ runq = {initproc}
  /\ current = idleproc
  /\ timer = [p \in Proc |-> 0]
  /\ pc = [p \in Proc |-> IF p = idleproc THEN "idle"
                          ELSE IF p = initproc THEN "boot" ELSE "user"]
  /\ waitfor = [p \in Proc |-> {}]
  /\ nr_process = 2
  /\ panicked = FALSE

(* wakeup_proc on every member of S: the state, wait_state and run queue   *)
(* it leaves, starting from states st.  A RUNNABLE process is only warned  *)
(* about.                                                                  *)
WokenState(st, S) ==
  [p \in Proc |-> IF p \in S THEN "RUNNABLE" ELSE st[p]]

WokenWait(st, S) ==
  [p \in Proc |-> IF p \in S /\ st[p] # "RUNNABLE" THEN "NONE" ELSE wait_state[p]]

WokenQueue(st, S) ==
  runq \cup {p \in S : st[p] # "RUNNABLE" /\ p # current /\ p # idleproc}

(* Mutant: current is not queued again.                                    *)
Schedule_dropCurrent(st, q) ==
  /\ need_resched' = need_resched \ {current}
  /\ \/ q = {} /\ current' = idleproc /\ runq' = {}
     \/ \E next \in q : current' = next /\ runq' = q \ {next}

(* schedule() with processes in states st and run queue q.                 *)
Schedule(st, q) ==
  LET ready == IF st[current] = "RUNNABLE" /\ current # idleproc
               THEN q \cup {current} ELSE q
  IN  /\ need_resched' = need_resched \ {current}
      /\ \/ /\ ready = {}
            /\ current' = idleproc
            /\ runq' = {}
         \/ \E next \in ready :
              /\ current' = next
              /\ runq' = ready \ {next}

Goto(p, where) == pc' = [pc EXCEPT ![p] = where]

panic ==
  /\ panicked' = TRUE
  /\ UNCHANGED <<state, wait_state, exiting, need_resched, parent, runq,
                 current, timer, pc, waitfor, nr_process>>

-----------------------------------------------------------------------------
(* do_fork when every allocation succeeds: child takes over a free         *)
(* proc_struct, is linked as a child of current and made runnable; current *)
(* continues at next.  A failure of setup_kstack or copy_mm is SysNop.     *)
(* copy_files, called when the child is in the run queue already, does not *)
(* fail: it allocates single pages, and alloc_pages(1) never returns NULL  *)
(* once swap_init has run.                                                 *)
do_fork(child, next) ==
  /\ nr_process < MAX_PROCESS
  /\ state[child] = "FREE"
  /\ state' = [state EXCEPT ![child] = "RUNNABLE"]
  /\ wait_state' = [wait_state EXCEPT ![child] = "NONE"]
  /\ exiting' = exiting \ {child}
  /\ need_resched' = need_resched \ {child}
  /\ parent' = [parent EXCEPT ![child] = current]
  /\ runq' = runq \cup {child}
  /\ nr_process' = nr_process + 1
  /\ pc' = [pc EXCEPT ![child] = "user", ![current] = next]
  /\ UNCHANGED <<current, timer, waitfor, panicked>>

(* Mutant: init is not woken for a child it inherits as a zombie.          *)
ExitWakes_parentOnly == {p \in {parent[current]} : wait_state[p] = "WT_CHILD"}

(* Mutant: the parent is not woken.                                        *)
ExitWakes_none == {}

(* Whom do_exit of current wakes: its parent when that waits for a child,  *)
(* and init when it waits and inherits a zombie.                           *)
ExitWakes ==
  {p \in {parent[current]} : wait_state[p] = "WT_CHILD"}
    \cup {p \in {initproc} :
            /\ wait_state[p] = "WT_CHILD"
            /\ \E c \in Children(current) : state[c] = "ZOMBIE"}

(* Mutant: the children keep their dead parent.                            *)
Adopted_not == parent

(* The parents once the children of current have gone to init.             *)
Adopted == [p \in Proc |-> IF p \in Children(current) THEN initproc ELSE parent[p]]

do_exit ==
  \/ /\ current \in {idleproc, initproc}
     /\ panic
  \/ /\ current \notin {idleproc, initproc}
     /\ LET st == [state EXCEPT ![current] = "ZOMBIE"]
        IN  /\ state' = WokenState(st, ExitWakes)
            /\ wait_state' = WokenWait(st, ExitWakes)
            /\ Schedule(state', WokenQueue(st, ExitWakes))
     /\ parent' = Adopted
     /\ waitfor' = [waitfor EXCEPT ![current] = {}]
     /\ Goto(current, "user")
     /\ UNCHANGED <<exiting, timer, nr_process, panicked>>

(* The part of do_wait behind the label found: unhash, unlink and free c;  *)
(* what a free proc_struct holds is never read.                            *)
Reap(c) ==
  /\ state' = [state EXCEPT ![c] = "FREE"]
  /\ exiting' = exiting \ {c}
  /\ parent' = [parent EXCEPT ![c] = idleproc]
  /\ nr_process' = nr_process - 1
  /\ UNCHANGED <<wait_state, timer, panicked>>

(* do_wait of current from the label repeat, for the pids in w, and what   *)
(* its caller does with the result: a system call returns, init_main calls *)
(* schedule() and repeats, or leaves its loop when it has no children.     *)
do_wait(w) ==
  LET kids == Children(current) \cap w
      dead == {c \in kids : state[c] = "ZOMBIE"}
  IN  \/ /\ kids = {}
         /\ Goto(current, IF current = initproc THEN "done" ELSE "ret")
         /\ waitfor' = [waitfor EXCEPT ![current] = {}]
         /\ UNCHANGED <<state, wait_state, exiting, need_resched, parent, runq,
                        current, timer, nr_process, panicked>>
      \/ \E c \in dead :
           /\ Reap(c)
           /\ waitfor' = [waitfor EXCEPT ![current] = {}]
           /\ \/ /\ current = initproc
                 /\ Goto(current, "loop")
                 /\ Schedule(state, runq)
              \/ /\ current # initproc
                 /\ Goto(current, "ret")
                 /\ UNCHANGED <<need_resched, runq, current>>
      \/ /\ kids # {}
         /\ dead = {}
         /\ state' = [state EXCEPT ![current] = "SLEEPING"]
         /\ wait_state' = [wait_state EXCEPT ![current] = "WT_CHILD"]
         /\ waitfor' = [waitfor EXCEPT ![current] = w]
         /\ Goto(current, "wait")
         /\ Schedule(state', runq)
         /\ UNCHANGED <<exiting, parent, timer, nr_process, panicked>>

(* do_kill(p).  A free proc_struct is not found; every wait of this module *)
(* is interruptible (WT_CHILD and WT_TIMER contain WT_INTERRUPTED).        *)
do_kill(p) ==
  LET woken == {q \in {p} : q \notin exiting /\ Live(q) /\ wait_state[q] # "NONE"}
  IN  /\ exiting' = IF Live(p) THEN exiting \cup {p} ELSE exiting
      /\ state' = WokenState(state, woken)
      /\ wait_state' = WokenWait(state, woken)
      /\ runq' = WokenQueue(state, woken)
      /\ UNCHANGED <<need_resched, parent, current, timer, waitfor,
                     nr_process, panicked>>

(* do_sleep(t), t > 0, up to its schedule().                               *)
do_sleep(t) ==
  /\ state' = [state EXCEPT ![current] = "SLEEPING"]
  /\ wait_state' = [wait_state EXCEPT ![current] = "WT_TIMER"]
  /\ timer' = [timer EXCEPT ![current] = t]
  /\ Goto(current, "sleep")
  /\ Schedule(state', runq)
  /\ UNCHANGED <<exiting, parent, waitfor, nr_process, panicked>>

-----------------------------------------------------------------------------
(* System calls of the current process, each up to the end of trap().      *)
InUser == ~panicked /\ pc[current] = "user"

SysFork == InUser /\ \E child \in Users : do_fork(child, "ret")

(* A call that changes nothing here: fork out of memory or processes, wait *)
(* with a bad code_store, sleep(0), kill of an unknown pid.                *)
SysNop ==
  /\ InUser
  /\ Goto(current, "ret")
  /\ UNCHANGED <<state, wait_state, exiting, need_resched, parent, runq,
                 current, timer, waitfor, nr_process, panicked>>

SysExit == InUser /\ do_exit

SysWait == InUser /\ \E w \in {Proc} \cup {{p} : p \in Proc \ {idleproc}} : do_wait(w)

SysKill ==
  /\ InUser
  /\ \E p \in Proc \ {idleproc} : do_kill(p)
  /\ Goto(current, "ret")

SysYield ==
  /\ InUser
  /\ need_resched' = need_resched \cup {current}
  /\ Goto(current, "ret")
  /\ UNCHANGED <<state, wait_state, exiting, parent, runq, current, timer,
                 waitfor, nr_process, panicked>>

SysSleep == InUser /\ \E t \in 1..MaxSleep : do_sleep(t)

(* The end of trap() for a trap from user mode.                            *)
TrapReturn ==
  /\ ~panicked
  /\ pc[current] = "ret"
  /\ \/ current \in exiting /\ do_exit
     \/ /\ current \notin exiting
        /\ Goto(current, "user")
        /\ \/ current \in need_resched /\ Schedule(state, runq)
           \/ current \notin need_resched /\ UNCHANGED <<need_resched, runq, current>>
        /\ UNCHANGED <<state, wait_state, exiting, parent, timer, waitfor,
                       nr_process, panicked>>

(* Mutant: do_wait does not look at PF_EXITING.                            *)
WaitResume_deaf ==
  ~panicked /\ pc[current] = "wait" /\ do_wait(waitfor[current])

(* do_wait behind its schedule().                                          *)
WaitResume ==
  /\ ~panicked
  /\ pc[current] = "wait"
  /\ \/ current \in exiting /\ do_exit
     \/ current \notin exiting /\ do_wait(waitfor[current])

(* Mutant: the timer is not deleted.                                       *)
SleepResume_keepTimer ==
  /\ ~panicked
  /\ pc[current] = "sleep"
  /\ Goto(current, "ret")
  /\ UNCHANGED <<state, wait_state, exiting, need_resched, parent, runq,
                 current, timer, waitfor, nr_process, panicked>>

(* do_sleep behind its schedule(): del_timer, and the call returns.        *)
SleepResume ==
  /\ ~panicked
  /\ pc[current] = "sleep"
  /\ timer' = [timer EXCEPT ![current] = 0]
  /\ Goto(current, "ret")
  /\ UNCHANGED <<state, wait_state, exiting, need_resched, parent, runq,
                 current, waitfor, nr_process, panicked>>

-----------------------------------------------------------------------------
(* The kernel threads.                                                     *)
IdleSchedule ==
  /\ ~panicked
  /\ pc[current] = "idle"
  /\ current \in need_resched
  /\ Schedule(state, runq)
  /\ UNCHANGED <<state, wait_state, exiting, parent, timer, pc, waitfor,
                 nr_process, panicked>>

(* init_main creates user_main, which becomes the first user process.      *)
InitFork ==
  /\ ~panicked
  /\ pc[current] = "boot"
  /\ \/ \E child \in Users : do_fork(child, "loop")
     \/ panic

InitWait == ~panicked /\ pc[current] = "loop" /\ do_wait(Proc)

(* init_main returns, and a kernel thread that returns calls do_exit.      *)
InitExit == ~panicked /\ pc[current] = "done" /\ do_exit

(* The processes whose timer runs out at the next tick.                    *)
Expired == {p \in Proc : timer[p] = 1}

(* Mutant: the timers count on below zero.                                 *)
CountedDown_past0 == [p \in Proc |-> timer[p] - 1]

CountedDown == [p \in Proc |-> IF timer[p] > 0 THEN timer[p] - 1 ELSE 0]

(* The timer interrupt.  It is taken in user mode, or while a kernel       *)
(* thread runs; run_timer_list counts the timers down and wakes the        *)
(* processes whose time is up; the scheduling class may ask for a switch   *)
(* from current, and does so when current is idle.                         *)
Tick ==
  /\ ~panicked
  /\ pc[current] \in {"user", "idle", "boot", "loop", "done"}
  /\ state' = WokenState(state, Expired)
  /\ wait_state' = WokenWait(state, Expired)
  /\ runq' = WokenQueue(state, Expired)
  /\ timer' = CountedDown
  /\ \/ need_resched' = need_resched \cup {current}
     \/ current # idleproc /\ UNCHANGED need_resched
  /\ Goto(current, IF pc[current] = "user" THEN "ret" ELSE pc[current])
  /\ UNCHANGED <<exiting, parent, current, waitfor, nr_process, panicked>>

(* panic() never returns.                                                  *)
Halted == panicked /\ UNCHANGED vars

Run ==
  \/ SysFork \/ SysNop \/ SysExit \/ SysWait \/ SysKill \/ SysYield \/ SysSleep
  \/ TrapReturn \/ WaitResume \/ SleepResume
  \/ IdleSchedule \/ InitFork \/ InitWait \/ InitExit

Next == Run \/ Tick \/ Halted

Spec == Init /\ [][Next]_vars

(***************************************************************************)
(* Fairness.  Kernel code that is current goes on; the timer interrupt     *)
(* stays pending until interrupts are on again, so it is taken however     *)
(* often the process enters the kernel in between; the class eventually    *)
(* ends the slice of the running process and eventually picks every        *)
(* process in the run queue.                                               *)
(***************************************************************************)
KernelStep ==
  \/ TrapReturn \/ WaitResume \/ SleepResume
  \/ IdleSchedule \/ InitFork \/ InitWait \/ InitExit

Fairness ==
  /\ WF_vars(KernelStep)
  /\ SF_vars(Tick /\ current \in need_resched')
  /\ \A p \in Proc : []<>(p \notin runq \/ panicked)

FairSpec == Spec /\ Fairness

-----------------------------------------------------------------------------
TypeOK ==
  /\ state \in [Proc -> States]
  /\ wait_state \in [Proc -> WaitStates]
  /\ exiting \subseteq Proc
  /\ need_resched \subseteq Proc
  /\ parent \in [Proc -> Proc]
  /\ runq \subseteq Proc
  /\ current \in Proc
  /\ timer \in [Proc -> 0..MaxSleep]
  /\ pc \in [Proc -> PCs]
  /\ waitfor \in [Proc -> SUBSET Proc]
  /\ nr_process \in Int
  /\ panicked \in BOOLEAN

(* No runnable process is lost and none is queued while it runs, sleeps or *)
(* is dead: the run queue holds exactly the runnable processes other than  *)
(* the running one and idle, and the running process is runnable (the      *)
(* enqueue and dequeue calls of wakeup_proc and schedule()).               *)
RunQueueExact ==
  /\ state[current] = "RUNNABLE"
  /\ runq = {p \in Proc \ {current, idleproc} : state[p] = "RUNNABLE"}

(* Whoever sleeps has something that will wake it: a running timer, or a   *)
(* child it waits for, none of which is a zombie already (do_exit, do_kill *)
(* and run_timer_list against the sleeps of do_wait and do_sleep).         *)
EverySleeperHasAWaker ==
  \A p \in Proc : state[p] = "SLEEPING" =>
    \/ wait_state[p] = "WT_TIMER" /\ timer[p] > 0
    \/ /\ wait_state[p] = "WT_CHILD"
       /\ Children(p) \cap waitfor[p] # {}
       /\ \A c \in Children(p) \cap waitfor[p] : state[c] # "ZOMBIE"

(* A wait_state is left on no process that is not asleep, so the targets   *)
(* of do_exit's and do_kill's wakeup_proc are never zombies and its        *)
(* assertion state != PROC_ZOMBIE cannot fail; nor can the assertion on    *)
(* wait_state in do_fork.                                                  *)
OnlySleepersWait ==
  \A p \in Proc : wait_state[p] # "NONE" => state[p] = "SLEEPING"

(* The timer of do_sleep lives on the kernel stack of the sleeper: while   *)
(* it is in timer_list the sleeper has neither returned from do_sleep nor  *)
(* exited, also when do_kill woke it early.                                *)
TimerOnLiveStack ==
  \A p \in Proc : timer[p] > 0 => pc[p] = "sleep" /\ state[p] \in {"SLEEPING", "RUNNABLE"}

(* No process is ever the child of a dead one: do_exit hands its children  *)
(* to init in the same step, so somebody is left to reap each of them.     *)
NoOrphans ==
  \A p \in Proc : Live(p) => state[parent[p]] \in {"RUNNABLE", "SLEEPING"}

(* The assertions init_main makes behind its loop: no child is left, and   *)
(* idle and init are the only processes.                                   *)
InitAssertions ==
  pc[initproc] = "done" =>
    /\ nr_process = 2
    /\ \A p \in Users : ~Live(p)

(* A proc_struct is freed only when its process is a zombie, and only by   *)
(* its parent ("only after do_wait function, all resources of the child    *)
(* proces are free", proc.c:932); and a zombie never comes back to life.  *)
FreedOnlyByParent ==
  [][\A p \in Proc :
       /\ (Live(p) /\ state'[p] = "FREE") => state[p] = "ZOMBIE" /\ parent[p] = current
       /\ state[p] = "ZOMBIE" => state'[p] \in {"ZOMBIE", "FREE"}]_vars

Dead(p) == state[p] \in {"ZOMBIE", "FREE"}

(* do_kill "kill[s the] process with pid" (proc.c:992): a killed process   *)
(* exits sooner or later, wherever the kill met it.                        *)
KilledExits ==
  \A p \in Users : (p \in exiting /\ Live(p)) ~> (Dead(p) \/ panicked)

(* A process killed inside a system call exits: do_kill wakes it from its  *)
(* sleep, and the end of trap() or of do_wait's sleep takes it to do_exit. *)
KilledSleeperExits ==
  \A p \in Watched \ {initproc} :
    (p \in exiting /\ state[p] = "RUNNABLE" /\ pc[p] \in {"wait", "sleep", "ret"})
       ~> (Dead(p) \/ panicked)

(* Sleeps end: do_sleep comes back when its ticks are over, and do_wait    *)
(* when a child it waits for is a zombie, whichever of the timer, the exit *)
(* of the child and a kill comes first.                                    *)
SleepsEnd ==
  \A p \in Watched :
    (\/ pc[p] = "sleep"
     \/ pc[p] = "wait" /\ \E c \in Children(p) \cap waitfor[p] : state[c] = "ZOMBIE")
       ~> (pc[p] \notin {"sleep", "wait"} \/ Dead(p) \/ panicked)
=============================================================================
