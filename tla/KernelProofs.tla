---------------------------- MODULE KernelProofs ----------------------------
(***************************************************************************)
(* Proofs about Kernel for any finite set of user processes and any        *)
(* limits: the safety properties TLC checks on a small instance.           *)
(***************************************************************************)
EXTENDS Kernel, FiniteSetTheorems, TLAPS

(* What idle and init always are, and where the code of each kind of       *)
(* process can be.                                                         *)
Shape ==
  /\ state[idleproc] = "RUNNABLE"
  /\ state[initproc] \in {"RUNNABLE", "SLEEPING"}
  /\ parent[idleproc] = idleproc
  /\ parent[initproc] = idleproc
  /\ pc[idleproc] = "idle"
  /\ pc[initproc] \in {"boot", "loop", "wait", "done"}
  /\ \A u \in Users : parent[u] # u /\ pc[u] \in {"user", "ret", "wait", "sleep"}

(* The reason a process sleeps for is the call it sleeps in.               *)
SleepShape ==
  \A p \in Proc : state[p] = "SLEEPING" =>
    \/ wait_state[p] = "WT_CHILD" /\ pc[p] = "wait"
    \/ wait_state[p] = "WT_TIMER" /\ pc[p] = "sleep"

(* The inductive invariant.                                                *)
KernelInv ==
  /\ TypeOK
  /\ RunQueueExact
  /\ Shape
  /\ SleepShape
  /\ OnlySleepersWait
  /\ EverySleeperHasAWaker
  /\ TimerOnLiveStack
  /\ NoOrphans

-----------------------------------------------------------------------------
(* The machine after proc_init satisfies the invariant.                    *)
LEMMA InitEstablishes == Init => KernelInv
<1> SUFFICES ASSUME Init PROVE KernelInv
  OBVIOUS
<1> USE KernelAssumption DEF Init, Proc
<1>1. TypeOK
  <2>1. /\ state \in [Proc -> States] /\ wait_state \in [Proc -> WaitStates]
        /\ parent \in [Proc -> Proc] /\ pc \in [Proc -> PCs]
        /\ waitfor \in [Proc -> SUBSET Proc] /\ timer \in [Proc -> 0..MaxSleep]
    BY DEF States, WaitStates, PCs
  <2>2. /\ exiting \subseteq Proc /\ need_resched \subseteq Proc
        /\ runq \subseteq Proc /\ current \in Proc /\ nr_process \in Int
    OBVIOUS
  <2>3. panicked \in BOOLEAN
    BY Zenon
  <2> QED
    BY <2>1, <2>2, <2>3 DEF TypeOK
<1>2. RunQueueExact
  BY DEF RunQueueExact
<1>3. Shape /\ SleepShape
  BY DEF Shape, SleepShape
<1>4. OnlySleepersWait /\ EverySleeperHasAWaker /\ TimerOnLiveStack
  BY DEF OnlySleepersWait, EverySleeperHasAWaker, TimerOnLiveStack
<1>5. NoOrphans
  BY DEF NoOrphans, Live
<1> QED
  BY <1>1, <1>2, <1>3, <1>4, <1>5 DEF KernelInv

(* schedule(), called when the run queue it starts from is right for the   *)
(* states it starts from, leaves the run queue right: it queues current    *)
(* when that is runnable and takes out the process it switches to.         *)
LEMMA ScheduleExact ==
  ASSUME TypeOK, NEW q,
         state' \in [Proc -> States],
         state'[idleproc] = "RUNNABLE",
         q = {p \in Proc \ {current, idleproc} : state'[p] = "RUNNABLE"},
         Schedule(state', q)
  PROVE  /\ RunQueueExact'
         /\ runq' \subseteq Proc
         /\ current' \in Proc
         /\ need_resched' \subseteq Proc
<1> DEFINE ready == IF state'[current] = "RUNNABLE" /\ current # idleproc
                    THEN q \cup {current} ELSE q
<1>1. ready = {p \in Proc \ {idleproc} : state'[p] = "RUNNABLE"}
  BY DEF TypeOK
<1>2. need_resched' = need_resched \ {current}
  BY DEF Schedule
<1>3. CASE ready = {} /\ current' = idleproc /\ runq' = {}
  BY <1>1, <1>2, <1>3 DEF RunQueueExact, TypeOK, Proc
<1>4. CASE \E next \in ready : current' = next /\ runq' = ready \ {next}
  BY <1>1, <1>2, <1>4 DEF RunQueueExact, TypeOK
<1> QED
  BY <1>3, <1>4 DEF Schedule

(* wakeup_proc keeps the run queue right whatever set of live processes it *)
(* is applied to.                                                          *)
LEMMA WakeExact ==
  ASSUME TypeOK, NEW st \in [Proc -> States], NEW S \in SUBSET Proc,
         runq = {p \in Proc \ {current, idleproc} : st[p] = "RUNNABLE"}
  PROVE  /\ WokenState(st, S) \in [Proc -> States]
         /\ WokenWait(st, S) \in [Proc -> WaitStates]
         /\ WokenQueue(st, S) =
              {p \in Proc \ {current, idleproc} : WokenState(st, S)[p] = "RUNNABLE"}
<1>1. WokenState(st, S) \in [Proc -> States]
  BY DEF WokenState, States
<1>2. WokenWait(st, S) \in [Proc -> WaitStates]
  BY DEF WokenWait, WaitStates, TypeOK
<1>3. WokenQueue(st, S) =
        {p \in Proc \ {current, idleproc} : WokenState(st, S)[p] = "RUNNABLE"}
  BY DEF WokenQueue, WokenState
<1> QED
  BY <1>1, <1>2, <1>3

(* schedule() when nothing has changed yet, or no schedule() at all.       *)
LEMMA MoveExact ==
  ASSUME KernelInv, state' = state,
         \/ Schedule(state, runq)
         \/ UNCHANGED <<need_resched, runq, current>>
  PROVE  /\ RunQueueExact'
         /\ runq' \subseteq Proc
         /\ current' \in Proc
         /\ need_resched' \subseteq Proc
<1>1. CASE Schedule(state, runq)
  <2>1. Schedule(state', runq)
    BY <1>1
  <2>2. state' \in [Proc -> States] /\ state'[idleproc] = "RUNNABLE"
    BY DEF KernelInv, TypeOK, Shape
  <2>3. runq = {p \in Proc \ {current, idleproc} : state'[p] = "RUNNABLE"}
    BY DEF KernelInv, RunQueueExact
  <2> QED
    BY <2>1, <2>2, <2>3, ScheduleExact DEF KernelInv
<1>2. CASE UNCHANGED <<need_resched, runq, current>>
  BY <1>2 DEF KernelInv, TypeOK, RunQueueExact
<1> QED
  BY <1>1, <1>2

(* A panic leaves everything as it was.                                    *)
LEMMA PanicPreserves == ASSUME KernelInv, panic PROVE KernelInv'
<1>1. panicked' \in BOOLEAN
  BY Zenon DEF panic
<1> QED
  BY <1>1 DEF panic, KernelInv, TypeOK, RunQueueExact, Shape, SleepShape,
     OnlySleepersWait, EverySleeperHasAWaker, TimerOnLiveStack, NoOrphans, Children, Live

(* do_exit preserves the invariant: the exiting process takes its place in *)
(* no queue, whoever waits for it is woken, and its children are init's.   *)
LEMMA ExitPreserves ==
  ASSUME KernelInv, ~panicked,
         pc[current] \in {"user", "ret", "wait", "done"},
         do_exit
  PROVE  KernelInv'
<1> USE KernelAssumption
<1>1. CASE panic
  BY <1>1, PanicPreserves
<1>2. CASE ~panic
  <2> DEFINE kids  == Children(current)
             st    == [state EXCEPT ![current] = "ZOMBIE"]
             woken == {p \in {parent[current]} : wait_state[p] = "WT_CHILD"}
                        \cup {p \in {initproc} :
                                /\ wait_state[p] = "WT_CHILD"
                                /\ \E c \in kids : state[c] = "ZOMBIE"}
  <2>0. woken = ExitWakes /\ Adopted = [p \in Proc |-> IF p \in kids THEN initproc ELSE parent[p]]
    BY DEF ExitWakes, Adopted
  <2>1. /\ current \notin {idleproc, initproc}
        /\ state' = WokenState(st, woken)
        /\ wait_state' = WokenWait(st, woken)
        /\ parent' = [p \in Proc |-> IF p \in kids THEN initproc ELSE parent[p]]
        /\ Schedule(state', WokenQueue(st, woken))
        /\ waitfor' = [waitfor EXCEPT ![current] = {}]
        /\ pc' = [pc EXCEPT ![current] = "user"]
        /\ UNCHANGED <<exiting, timer, nr_process, panicked>>
    BY <1>2, <2>0 DEF do_exit, Goto
  <2>2. current \in Users /\ current \in Proc
    BY <2>1 DEF KernelInv, TypeOK, Proc
  <2>3. woken \subseteq Proc
    BY <2>2 DEF KernelInv, TypeOK, Proc
  <2>4. \A p \in woken : state[p] = "SLEEPING" /\ p # current
    BY <2>2, <2>3 DEF KernelInv, OnlySleepersWait, RunQueueExact
  <2>5. st \in [Proc -> States]
    BY <2>2 DEF KernelInv, TypeOK, States
  <2>6. runq = {p \in Proc \ {current, idleproc} : st[p] = "RUNNABLE"}
    BY <2>2 DEF KernelInv, TypeOK, RunQueueExact
  <2>7. /\ state' \in [Proc -> States]
        /\ wait_state' \in [Proc -> WaitStates]
        /\ WokenQueue(st, woken) =
             {p \in Proc \ {current, idleproc} : state'[p] = "RUNNABLE"}
    <3>1. TypeOK /\ woken \in SUBSET Proc
      BY <2>3 DEF KernelInv
    <3> HIDE DEF st, woken
    <3> QED
      BY <2>1, <3>1, <2>5, <2>6, WakeExact
  <2>8. \A p \in Proc : /\ p \in woken => state'[p] = "RUNNABLE" /\ wait_state'[p] = "NONE"
                        /\ p = current => state'[p] = "ZOMBIE"
                        /\ (p \notin woken /\ p # current) => state'[p] = state[p]
                        /\ p \notin woken => wait_state'[p] = wait_state[p]
    BY <2>1, <2>2, <2>3, <2>4 DEF WokenState, WokenWait, KernelInv, TypeOK
  <2>pc. /\ pc' \in [Proc -> PCs]
         /\ \A p \in Proc : pc'[p] = IF p = current THEN "user" ELSE pc[p]
    BY <2>1, <2>2 DEF KernelInv, TypeOK, PCs
  <2>9. RunQueueExact' /\ runq' \subseteq Proc /\ current' \in Proc /\ need_resched' \subseteq Proc
    <3>1. state'[idleproc] = "RUNNABLE"
      BY <2>1, <2>4, <2>8 DEF KernelInv, Shape, Proc
    <3> QED
      BY <2>1, <2>7, <3>1, ScheduleExact DEF KernelInv
  <2>10. TypeOK'
    <3>1. parent' \in [Proc -> Proc] /\ waitfor' \in [Proc -> SUBSET Proc]
      BY <2>1, <2>2 DEF KernelInv, TypeOK, Proc
    <3> QED
      BY <2>1, <2>7, <2>9, <2>pc, <3>1 DEF KernelInv, TypeOK
  <2>11. Shape'
    <3>1. state'[idleproc] = "RUNNABLE" /\ state'[initproc] \in {"RUNNABLE", "SLEEPING"}
      BY <2>1, <2>8 DEF KernelInv, Shape, Proc
    <3>2. parent'[idleproc] = idleproc /\ parent'[initproc] = idleproc
      BY <2>1 DEF KernelInv, Shape, Children, Proc
    <3>3. \A u \in Users : parent'[u] # u
      BY <2>1 DEF KernelInv, Shape, Proc
    <3> QED
      BY <2>1, <2>pc, <3>1, <3>2, <3>3 DEF KernelInv, Shape, Proc
  <2>12. SleepShape' /\ OnlySleepersWait'
    <3>1. wait_state[current] = "NONE"
      BY <2>2 DEF KernelInv, OnlySleepersWait, RunQueueExact, TypeOK
    <3>2. \A p \in Proc : wait_state'[p] # "NONE" =>
                           wait_state'[p] = wait_state[p] /\ p \notin woken /\ p # current
      BY <2>8, <3>1
    <3>3. \A p \in Proc : state'[p] = "SLEEPING" =>
                           state[p] = "SLEEPING" /\ wait_state'[p] = wait_state[p]
      BY <2>8
    <3>4. OnlySleepersWait'
      BY <2>8, <3>2 DEF KernelInv, OnlySleepersWait
    <3>5. ASSUME NEW p \in Proc, state'[p] = "SLEEPING"
          PROVE  \/ wait_state'[p] = "WT_CHILD" /\ pc'[p] = "wait"
                 \/ wait_state'[p] = "WT_TIMER" /\ pc'[p] = "sleep"
      <4>1. p # current
        BY <2>8, <3>5
      <4>2. pc'[p] = pc[p] /\ state[p] = "SLEEPING" /\ wait_state'[p] = wait_state[p]
        BY <2>pc, <3>3, <3>5, <4>1
      <4> QED
        BY <4>2 DEF KernelInv, SleepShape
    <3>6. SleepShape'
      BY <3>5 DEF SleepShape
    <3> QED
      BY <3>4, <3>6
  <2>13. TimerOnLiveStack'
    BY <2>1, <2>2, <2>4, <2>8, <2>pc DEF KernelInv, TimerOnLiveStack
  <2>14. NoOrphans'
    <3> SUFFICES ASSUME NEW p \in Proc, Live(p)'
                 PROVE  state'[parent'[p]] \in {"RUNNABLE", "SLEEPING"}
      BY DEF NoOrphans
    <3>1. Live(p)
      BY <2>4, <2>8, <2>2 DEF Live, KernelInv, RunQueueExact
    <3>2. CASE p \in kids
      BY <2>1, <2>11, <3>2 DEF Shape
    <3>3. CASE p \notin kids
      <4>1. parent[p] # current
        BY <2>1, <3>1, <3>3 DEF Children, KernelInv, Shape
      <4> QED
        BY <2>1, <2>2, <2>8, <3>1, <3>3, <4>1 DEF KernelInv, NoOrphans, TypeOK
    <3> QED
      BY <3>2, <3>3
  <2>15. EverySleeperHasAWaker'
    <3> SUFFICES ASSUME NEW p \in Proc, state'[p] = "SLEEPING"
                 PROVE  \/ wait_state'[p] = "WT_TIMER" /\ timer'[p] > 0
                        \/ /\ wait_state'[p] = "WT_CHILD"
                           /\ Children(p)' \cap waitfor'[p] # {}
                           /\ \A c \in Children(p)' \cap waitfor'[p] : state'[c] # "ZOMBIE"
      BY DEF EverySleeperHasAWaker
    <3>1. p \notin woken /\ p # current /\ state[p] = "SLEEPING" /\ wait_state'[p] = wait_state[p]
      BY <2>8
    <3>2. CASE wait_state[p] = "WT_TIMER"
      BY <2>1, <3>1, <3>2 DEF KernelInv, EverySleeperHasAWaker
    <3>3. CASE wait_state[p] = "WT_CHILD"
      <4>1. parent[current] # p
        BY <3>1, <3>3
      <4>2. waitfor'[p] = waitfor[p]
        BY <2>1, <3>1 DEF KernelInv, TypeOK
      <4>3. \A c \in Proc : Live(c)' <=> Live(c)
        BY <2>2, <2>4, <2>8 DEF Live, KernelInv, RunQueueExact
      <4>4. CASE p # initproc
        <5>1. Children(p)' = Children(p)
          BY <2>1, <3>1, <4>3, <4>4 DEF Children, KernelInv, TypeOK
        <5>2. \A c \in Children(p) : state'[c] # "ZOMBIE" \/ state[c] = "ZOMBIE"
          BY <2>8, <4>1 DEF Children
        <5> QED
          BY <3>1, <3>3, <4>2, <5>1, <5>2 DEF KernelInv, EverySleeperHasAWaker
      <4>5. CASE p = initproc
        <5>1. \A c \in kids : state[c] # "ZOMBIE"
          BY <3>1, <3>3, <4>5
        <5>2. Children(p)' = Children(p) \cup kids
          BY <2>1, <3>1, <4>3, <4>5 DEF Children, KernelInv, TypeOK
        <5>3. \A c \in Children(p) \cup kids : state'[c] # "ZOMBIE" \/ state[c] = "ZOMBIE"
          <6>1. current \notin Children(p) \cup kids
            BY <2>1, <2>2, <4>1, <4>5 DEF Children, KernelInv, Shape
          <6> QED
            BY <2>8, <6>1 DEF Children
        <5> QED
          BY <3>1, <3>3, <4>2, <5>1, <5>2, <5>3 DEF KernelInv, EverySleeperHasAWaker
      <4> QED
        BY <4>4, <4>5
    <3> QED
      BY <3>1, <3>2, <3>3 DEF KernelInv, SleepShape
  <2> QED
    BY <2>9, <2>10, <2>11, <2>12, <2>13, <2>14, <2>15 DEF KernelInv
<1> QED
  BY <1>1, <1>2

(* do_wait preserves the invariant: it sleeps only while a child it waits  *)
(* for is alive and none is a zombie, and what it frees is in no queue and *)
(* nobody's parent.                                                        *)
LEMMA WaitPreserves ==
  ASSUME KernelInv, ~panicked, NEW w \in SUBSET Proc,
         pc[current] \in {"user", "wait", "loop"},
         do_wait(w)
  PROVE  KernelInv'
<1> USE KernelAssumption
<1> DEFINE kids == Children(current) \cap w
           dead == {c \in kids : state[c] = "ZOMBIE"}
<1>1. current \in Proc /\ current # idleproc
  BY DEF KernelInv, TypeOK, Shape
<1>2. ASSUME kids = {},
             Goto(current, IF current = initproc THEN "done" ELSE "ret"),
             waitfor' = [waitfor EXCEPT ![current] = {}],
             UNCHANGED <<state, wait_state, exiting, need_resched, parent, runq,
                         current, timer, nr_process, panicked>>
      PROVE  KernelInv'
  <2>1. TypeOK'
    BY <1>1, <1>2 DEF KernelInv, TypeOK, Goto, PCs
  <2>2. RunQueueExact' /\ OnlySleepersWait' /\ NoOrphans'
    BY <1>2 DEF KernelInv, RunQueueExact, OnlySleepersWait, NoOrphans, Live
  <2>3. \A p \in Proc : p # current => pc'[p] = pc[p] /\ waitfor'[p] = waitfor[p]
    BY <1>2 DEF KernelInv, TypeOK, Goto
  <2>4. pc'[current] = IF current = initproc THEN "done" ELSE "ret"
    BY <1>1, <1>2 DEF KernelInv, TypeOK, Goto
  <2>5. Shape'
    BY <1>1, <1>2, <2>3, <2>4 DEF KernelInv, Shape, Proc
  <2>6. SleepShape' /\ TimerOnLiveStack'
    BY <1>1, <1>2, <2>3, <2>4
       DEF KernelInv, SleepShape, TimerOnLiveStack, RunQueueExact
  <2>7. EverySleeperHasAWaker'
    BY <1>1, <1>2, <2>3 DEF KernelInv, EverySleeperHasAWaker, RunQueueExact, Children, Live
  <2> QED
    BY <2>1, <2>2, <2>5, <2>6, <2>7 DEF KernelInv
<1>3. ASSUME NEW c \in dead, Reap(c),
             waitfor' = [waitfor EXCEPT ![current] = {}],
             \/ current = initproc /\ Goto(current, "loop") /\ Schedule(state, runq)
             \/ /\ current # initproc /\ Goto(current, "ret")
                /\ UNCHANGED <<need_resched, runq, current>>
      PROVE  KernelInv'
  <2>1. /\ c \in Proc /\ state[c] = "ZOMBIE" /\ parent[c] = current
        /\ c # current /\ c # idleproc /\ c # initproc
    BY <1>1 DEF Children, KernelInv, Shape, Proc
  <2>2. \A p \in Proc : state'[p] = IF p = c THEN "FREE" ELSE state[p]
    BY <1>3, <2>1 DEF Reap, KernelInv, TypeOK
  <2>3. state' \in [Proc -> States] /\ exiting' \subseteq Proc /\ nr_process' \in Int
    BY <1>3, <2>1 DEF Reap, KernelInv, TypeOK, States
  <2>4. /\ UNCHANGED <<wait_state, timer, panicked>>
        /\ parent' \in [Proc -> Proc]
        /\ \A p \in Proc : parent'[p] = IF p = c THEN idleproc ELSE parent[p]
    BY <1>3, <2>1 DEF Reap, KernelInv, TypeOK, Proc
  <2>5. \A p \in Proc : p # current => pc'[p] = pc[p] /\ waitfor'[p] = waitfor[p]
    BY <1>3 DEF KernelInv, TypeOK, Goto
  <2>6. pc'[current] = IF current = initproc THEN "loop" ELSE "ret"
    BY <1>1, <1>3 DEF KernelInv, TypeOK, Goto
  <2>7. pc' \in [Proc -> PCs] /\ waitfor' \in [Proc -> SUBSET Proc]
    BY <1>1, <1>3 DEF KernelInv, TypeOK, Goto, PCs
  <2>8. RunQueueExact' /\ runq' \subseteq Proc /\ current' \in Proc /\ need_resched' \subseteq Proc
    <3>1. runq = {p \in Proc \ {current, idleproc} : state'[p] = "RUNNABLE"}
      BY <2>2 DEF KernelInv, RunQueueExact
    <3>2. CASE UNCHANGED <<need_resched, runq, current>>
      BY <1>1, <2>1, <2>2, <3>1, <3>2 DEF KernelInv, RunQueueExact, TypeOK
    <3>3. CASE current = initproc /\ Schedule(state, runq)
      <4>1. Schedule(state', runq)
        BY <1>1, <2>1, <2>2, <3>3 DEF Schedule
      <4>2. state'[idleproc] = "RUNNABLE"
        BY <2>1, <2>2 DEF KernelInv, Shape, Proc
      <4> QED
        BY <2>3, <3>1, <4>1, <4>2, ScheduleExact DEF KernelInv
    <3> QED
      BY <1>3, <3>2, <3>3
  <2>9. TypeOK'
    BY <2>3, <2>4, <2>7, <2>8 DEF KernelInv, TypeOK
  <2>10. Shape'
    BY <1>1, <2>1, <2>2, <2>4, <2>5, <2>6 DEF KernelInv, Shape, Proc
  <2>11. SleepShape' /\ OnlySleepersWait'
    BY <1>1, <2>1, <2>2, <2>4, <2>5
       DEF KernelInv, SleepShape, OnlySleepersWait, RunQueueExact
  <2>12. TimerOnLiveStack'
    BY <1>1, <2>1, <2>2, <2>4, <2>5 DEF KernelInv, TimerOnLiveStack
  <2>13. NoOrphans'
    BY <1>1, <2>1, <2>2, <2>4 DEF KernelInv, NoOrphans, Live, TypeOK
  <2>14. EverySleeperHasAWaker'
    <3> SUFFICES ASSUME NEW p \in Proc, state'[p] = "SLEEPING"
                 PROVE  /\ wait_state'[p] = wait_state[p]
                        /\ timer'[p] = timer[p]
                        /\ waitfor'[p] = waitfor[p]
                        /\ Children(p)' = Children(p)
                        /\ \A q \in Children(p) : state'[q] = state[q]
                        /\ state[p] = "SLEEPING"
      BY DEF KernelInv, EverySleeperHasAWaker
    <3>1. p # current /\ state[p] = "SLEEPING"
      BY <2>1, <2>2 DEF KernelInv, RunQueueExact
    <3>2. c \notin Children(p)
      BY <2>1, <3>1 DEF Children
    <3>3. Children(p)' = Children(p)
      BY <2>2, <2>4, <2>1, <3>1 DEF Children, Live
    <3> QED
      BY <2>2, <2>4, <2>5, <3>1, <3>2, <3>3 DEF Children
  <2> QED
    BY <2>8, <2>9, <2>10, <2>11, <2>12, <2>13, <2>14 DEF KernelInv
<1>4. ASSUME kids # {}, dead = {},
             state' = [state EXCEPT ![current] = "SLEEPING"],
             wait_state' = [wait_state EXCEPT ![current] = "WT_CHILD"],
             waitfor' = [waitfor EXCEPT ![current] = w],
             Goto(current, "wait"),
             Schedule(state', runq),
             UNCHANGED <<exiting, parent, timer, nr_process, panicked>>
      PROVE  KernelInv'
  <2>1. \A p \in Proc : p # current => /\ state'[p] = state[p]
                                       /\ wait_state'[p] = wait_state[p]
                                       /\ waitfor'[p] = waitfor[p]
                                       /\ pc'[p] = pc[p]
    BY <1>4 DEF KernelInv, TypeOK, Goto
  <2>2. /\ state'[current] = "SLEEPING" /\ wait_state'[current] = "WT_CHILD"
        /\ waitfor'[current] = w /\ pc'[current] = "wait"
    BY <1>1, <1>4 DEF KernelInv, TypeOK, Goto
  <2>3. /\ state' \in [Proc -> States] /\ wait_state' \in [Proc -> WaitStates]
        /\ pc' \in [Proc -> PCs] /\ waitfor' \in [Proc -> SUBSET Proc]
    BY <1>1, <1>4 DEF KernelInv, TypeOK, Goto, States, WaitStates, PCs
  <2>4. RunQueueExact' /\ runq' \subseteq Proc /\ current' \in Proc /\ need_resched' \subseteq Proc
    <3>1. runq = {p \in Proc \ {current, idleproc} : state'[p] = "RUNNABLE"}
      BY <2>1 DEF KernelInv, RunQueueExact
    <3>2. state'[idleproc] = "RUNNABLE"
      BY <1>1, <2>1 DEF KernelInv, Shape, Proc
    <3> QED
      BY <1>4, <2>3, <3>1, <3>2, ScheduleExact DEF KernelInv
  <2>5. TypeOK'
    BY <1>4, <2>3, <2>4 DEF KernelInv, TypeOK
  <2>6. \A p \in Proc : Live(p)' <=> Live(p)
    BY <2>1, <2>2 DEF Live, KernelInv, RunQueueExact
  <2>7. Shape'
    BY <1>1, <1>4, <2>1, <2>2 DEF KernelInv, Shape, Proc
  <2>8. SleepShape' /\ OnlySleepersWait'
    BY <2>1, <2>2 DEF KernelInv, SleepShape, OnlySleepersWait
  <2>9. TimerOnLiveStack'
    BY <1>1, <1>4, <2>1, <2>2 DEF KernelInv, TimerOnLiveStack
  <2>10. NoOrphans'
    BY <1>4, <2>1, <2>2, <2>6 DEF KernelInv, NoOrphans, TypeOK
  <2>11. EverySleeperHasAWaker'
    <3>1. \A p \in Proc : Children(p)' = Children(p)
      BY <1>4, <2>6 DEF Children
    <3>2. \A p \in Proc : p # current /\ state[p] = "SLEEPING" =>
            \A c \in Children(p) \cap waitfor[p] : state'[c] = "ZOMBIE" => state[c] = "ZOMBIE"
      BY <2>1, <2>2 DEF Children
    <3>3. \A c \in Children(current) \cap w : state'[c] # "ZOMBIE"
      BY <1>4, <2>1, <2>2 DEF Children
    <3> QED
      BY <1>1, <1>4, <2>1, <2>2, <3>1, <3>2, <3>3 DEF KernelInv, EverySleeperHasAWaker
  <2> QED
    BY <2>4, <2>5, <2>7, <2>8, <2>9, <2>10, <2>11 DEF KernelInv
<1> QED
  BY <1>2, <1>3, <1>4 DEF do_wait

(* do_fork preserves the invariant: the child enters the run queue once,   *)
(* as the child of a process that is running.                              *)
LEMMA ForkPreserves ==
  ASSUME KernelInv, ~panicked, NEW child \in Users, NEW next \in PCs,
         do_fork(child, next),
         current # idleproc,
         current = initproc => next = "loop",
         current # initproc => next = "ret" /\ pc[current] = "user"
  PROVE  KernelInv'
<1> USE KernelAssumption
<1>1. /\ current \in Proc /\ child \in Proc /\ child # current
      /\ child # idleproc /\ child # initproc
      /\ state[child] = "FREE"
  BY DEF do_fork, KernelInv, TypeOK, RunQueueExact, Proc
<1>2. /\ \A p \in Proc : p # child => /\ state'[p] = state[p]
                                      /\ wait_state'[p] = wait_state[p]
                                      /\ parent'[p] = parent[p]
      /\ state'[child] = "RUNNABLE" /\ wait_state'[child] = "NONE"
      /\ parent'[child] = current
  BY <1>1 DEF do_fork, KernelInv, TypeOK
<1>3. /\ \A p \in Proc : p # child /\ p # current => pc'[p] = pc[p]
      /\ pc'[child] = "user" /\ pc'[current] = next
  BY <1>1 DEF do_fork, KernelInv, TypeOK
<1>4. TypeOK'
  BY <1>1 DEF do_fork, KernelInv, TypeOK, States, WaitStates, PCs
<1>5. RunQueueExact'
  BY <1>1, <1>2 DEF do_fork, KernelInv, RunQueueExact
<1>6. Shape'
  BY <1>1, <1>2, <1>3 DEF KernelInv, Shape, Proc
<1>7. SleepShape' /\ OnlySleepersWait'
  BY <1>1, <1>2, <1>3 DEF KernelInv, SleepShape, OnlySleepersWait, RunQueueExact
<1>8. TimerOnLiveStack'
  <2>1. timer[child] = 0 /\ timer[current] = 0
    BY <1>1 DEF KernelInv, TimerOnLiveStack, TypeOK, Shape
  <2>2. timer' = timer
    BY DEF do_fork
  <2>3. \A p \in Proc : timer'[p] > 0 => p # child /\ p # current /\ timer[p] > 0
    BY <1>1, <2>1, <2>2
  <2> QED
    BY <1>2, <1>3, <2>3 DEF KernelInv, TimerOnLiveStack
<1>9. NoOrphans'
  BY <1>1, <1>2 DEF KernelInv, NoOrphans, Live, RunQueueExact, TypeOK
<1>10. EverySleeperHasAWaker'
  <2> SUFFICES ASSUME NEW p \in Proc, state'[p] = "SLEEPING"
               PROVE  /\ wait_state'[p] = wait_state[p]
                      /\ timer'[p] = timer[p]
                      /\ waitfor'[p] = waitfor[p]
                      /\ Children(p)' = Children(p)
                      /\ \A q \in Children(p) : state'[q] = state[q]
                      /\ state[p] = "SLEEPING"
    BY DEF KernelInv, EverySleeperHasAWaker
  <2>1. p # child /\ p # current /\ state[p] = "SLEEPING"
    BY <1>1, <1>2 DEF KernelInv, RunQueueExact
  <2>2. child \notin Children(p)
    BY <1>1 DEF Children, Live
  <2>3. Children(p)' = Children(p)
    BY <1>1, <1>2, <2>1, <2>2 DEF Children, Live
  <2> QED
    BY <1>2, <2>1, <2>2, <2>3 DEF do_fork, Children
<1> QED
  BY <1>4, <1>5, <1>6, <1>7, <1>8, <1>9, <1>10 DEF KernelInv

(* Waking processes that are asleep or runnable, by do_kill or by the      *)
(* timer interrupt, preserves the invariant when current does not change   *)
(* and every timer that runs out belongs to a process that is woken.       *)
LEMMA WakePreserves ==
  ASSUME KernelInv, NEW S \in SUBSET Proc,
         \A p \in S : state[p] \in {"SLEEPING", "RUNNABLE"},
         state' = WokenState(state, S),
         wait_state' = WokenWait(state, S),
         runq' = WokenQueue(state, S),
         UNCHANGED <<current, parent, waitfor, nr_process, panicked>>,
         exiting' \subseteq Proc, need_resched' \subseteq Proc,
         timer' \in [Proc -> 0..MaxSleep],
         \A p \in Proc : /\ timer'[p] > 0 => timer[p] > 0
                         /\ timer[p] > 0 => timer'[p] > 0 \/ p \in S,
         \/ Goto(current, pc[current])
         \/ pc[current] = "user" /\ Goto(current, "ret")
  PROVE  KernelInv'
<1> USE KernelAssumption
<1>1. current \in Proc
  BY DEF KernelInv, TypeOK
<1>2. /\ state' \in [Proc -> States]
      /\ wait_state' \in [Proc -> WaitStates]
      /\ runq' = {p \in Proc \ {current, idleproc} : state'[p] = "RUNNABLE"}
  BY WakeExact DEF KernelInv, TypeOK, RunQueueExact
<1>3. \A p \in Proc : state'[p] = IF p \in S THEN "RUNNABLE" ELSE state[p]
  BY DEF WokenState
<1>4. \A p \in Proc : wait_state'[p] = IF p \in S /\ state[p] # "RUNNABLE"
                                       THEN "NONE" ELSE wait_state[p]
  BY DEF WokenWait
<1>5. /\ \A p \in Proc : p # current => pc'[p] = pc[p]
      /\ pc'[current] = pc[current] \/ (pc[current] = "user" /\ pc'[current] = "ret")
      /\ pc' \in [Proc -> PCs]
  BY <1>1 DEF Goto, KernelInv, TypeOK, PCs
<1>6. TypeOK'
  BY <1>2, <1>5 DEF KernelInv, TypeOK
<1>7. RunQueueExact'
  BY <1>1, <1>2, <1>3 DEF KernelInv, RunQueueExact
<1>8. Shape'
  BY <1>1, <1>3, <1>5 DEF KernelInv, Shape, Proc
<1>9. SleepShape' /\ OnlySleepersWait'
  BY <1>1, <1>3, <1>4, <1>5 DEF KernelInv, SleepShape, OnlySleepersWait, RunQueueExact
<1>10. TimerOnLiveStack'
  BY <1>1, <1>3, <1>5 DEF KernelInv, TimerOnLiveStack
<1>11. \A p \in Proc : Live(p)' <=> Live(p)
  BY <1>3 DEF Live
<1>12. NoOrphans'
  BY <1>3, <1>11 DEF KernelInv, NoOrphans, TypeOK
<1>13. EverySleeperHasAWaker'
  <2>1. \A p \in Proc : Children(p)' = Children(p)
    BY <1>11 DEF Children
  <2>2. \A p \in Proc : state'[p] = "SLEEPING" =>
          p \notin S /\ state[p] = "SLEEPING" /\ wait_state'[p] = wait_state[p]
    BY <1>3, <1>4
  <2>3. \A c \in Proc : state'[c] = "ZOMBIE" => state[c] = "ZOMBIE"
    BY <1>3
  <2> QED
    BY <2>1, <2>2, <2>3 DEF KernelInv, EverySleeperHasAWaker, Children
<1> QED
  BY <1>6, <1>7, <1>8, <1>9, <1>10, <1>12, <1>13 DEF KernelInv

(* Steps that only move current's pc, at most through schedule(), and that *)
(* may cancel current's timer, preserve the invariant.                     *)
LEMMA MovePreserves ==
  ASSUME KernelInv, NEW where \in PCs,
         Goto(current, where),
         UNCHANGED <<state, wait_state, exiting, parent, waitfor, nr_process, panicked>>,
         RunQueueExact', runq' \subseteq Proc, current' \in Proc, need_resched' \subseteq Proc,
         \/ timer' = timer /\ timer[current] = 0
         \/ timer' = [timer EXCEPT ![current] = 0],
         current = idleproc => where = "idle",
         current = initproc => where = pc[current],
         current \in Users => where \in {"user", "ret"}
  PROVE  KernelInv'
<1> USE KernelAssumption
<1>1. current \in Proc /\ state[current] = "RUNNABLE"
  BY DEF KernelInv, TypeOK, RunQueueExact
<1>2. /\ \A p \in Proc : p # current => pc'[p] = pc[p] /\ timer'[p] = timer[p]
      /\ pc'[current] = where /\ timer'[current] = 0
      /\ pc' \in [Proc -> PCs] /\ timer' \in [Proc -> 0..MaxSleep]
  BY <1>1 DEF Goto, KernelInv, TypeOK
<1>3. TypeOK'
  BY <1>2 DEF KernelInv, TypeOK
<1>4. Shape'
  BY <1>1, <1>2 DEF KernelInv, Shape, Proc
<1>5. SleepShape' /\ OnlySleepersWait'
  BY <1>1, <1>2 DEF KernelInv, SleepShape, OnlySleepersWait
<1>6. TimerOnLiveStack'
  BY <1>1, <1>2 DEF KernelInv, TimerOnLiveStack
<1>7. NoOrphans'
  BY DEF KernelInv, NoOrphans, Live
<1>8. EverySleeperHasAWaker'
  BY <1>1, <1>2 DEF KernelInv, EverySleeperHasAWaker, Children, Live
<1> QED
  BY <1>3, <1>4, <1>5, <1>6, <1>7, <1>8 DEF KernelInv

(* do_sleep preserves the invariant: the sleeper has a running timer.      *)
LEMMA SleepPreserves ==
  ASSUME KernelInv, NEW t \in 1..MaxSleep, pc[current] = "user", do_sleep(t)
  PROVE  KernelInv'
<1> USE KernelAssumption
<1>1. current \in Proc /\ current \in Users
  BY DEF KernelInv, TypeOK, Shape, Proc
<1>2. \A p \in Proc : p # current => /\ state'[p] = state[p]
                                     /\ wait_state'[p] = wait_state[p]
                                     /\ timer'[p] = timer[p]
                                     /\ pc'[p] = pc[p]
  BY DEF do_sleep, Goto, KernelInv, TypeOK
<1>3. /\ state'[current] = "SLEEPING" /\ wait_state'[current] = "WT_TIMER"
      /\ timer'[current] = t /\ pc'[current] = "sleep" /\ t > 0
  BY <1>1 DEF do_sleep, Goto, KernelInv, TypeOK
<1>4. /\ state' \in [Proc -> States] /\ wait_state' \in [Proc -> WaitStates]
      /\ timer' \in [Proc -> 0..MaxSleep] /\ pc' \in [Proc -> PCs]
  BY <1>1 DEF do_sleep, Goto, KernelInv, TypeOK, States, WaitStates, PCs
<1>5. UNCHANGED <<exiting, parent, waitfor, nr_process, panicked>>
  BY DEF do_sleep
<1>6. RunQueueExact' /\ runq' \subseteq Proc /\ current' \in Proc /\ need_resched' \subseteq Proc
  <2>1. runq = {p \in Proc \ {current, idleproc} : state'[p] = "RUNNABLE"}
    BY <1>2 DEF KernelInv, RunQueueExact
  <2>2. state'[idleproc] = "RUNNABLE"
    BY <1>1, <1>2 DEF KernelInv, Shape, Proc
  <2> QED
    BY <1>4, <2>1, <2>2, ScheduleExact DEF KernelInv, do_sleep
<1>7. TypeOK'
  BY <1>4, <1>5, <1>6 DEF KernelInv, TypeOK
<1>8. Shape'
  BY <1>1, <1>2, <1>3, <1>5 DEF KernelInv, Shape, Proc
<1>9. SleepShape' /\ OnlySleepersWait'
  BY <1>2, <1>3 DEF KernelInv, SleepShape, OnlySleepersWait
<1>10. TimerOnLiveStack'
  BY <1>2, <1>3 DEF KernelInv, TimerOnLiveStack
<1>11. \A p \in Proc : Live(p)' <=> Live(p)
  BY <1>2, <1>3 DEF Live, KernelInv, RunQueueExact
<1>12. NoOrphans'
  BY <1>2, <1>3, <1>5, <1>11 DEF KernelInv, NoOrphans, TypeOK
<1>13. EverySleeperHasAWaker'
  <2>1. \A p \in Proc : Children(p)' = Children(p)
    BY <1>5, <1>11 DEF Children
  <2>2. \A c \in Proc : state'[c] = "ZOMBIE" => state[c] = "ZOMBIE"
    BY <1>2, <1>3
  <2> QED
    BY <1>2, <1>3, <1>5, <2>1, <2>2 DEF KernelInv, EverySleeperHasAWaker, Children
<1> QED
  BY <1>6, <1>7, <1>8, <1>9, <1>10, <1>12, <1>13 DEF KernelInv

(* Every step of the kernel preserves the invariant.                       *)
LEMMA NextPreserves == KernelInv /\ [Next]_vars => KernelInv'
<1> SUFFICES ASSUME KernelInv, [Next]_vars PROVE KernelInv'
  OBVIOUS
<1> USE KernelAssumption
<1>1. TypeOK /\ current \in Proc
  BY DEF KernelInv, TypeOK
<1>2. /\ pc[current] \in {"user", "ret", "sleep"} => current \in Users
      /\ current \in Users => current # initproc /\ current # idleproc
      /\ pc[current] \in {"boot", "loop", "done"} => current = initproc
      /\ pc[current] = "idle" => current = idleproc
      /\ pc[current] # "sleep" => timer[current] = 0
  BY <1>1 DEF KernelInv, Shape, Proc, TimerOnLiveStack, TypeOK
<1>3. CASE SysFork
  BY <1>2, <1>3, ForkPreserves DEF SysFork, InUser, PCs
<1>4. CASE SysNop
  BY <1>1, <1>2, <1>4, MovePreserves
     DEF SysNop, InUser, PCs, KernelInv, RunQueueExact, TypeOK
<1>5. CASE SysExit
  BY <1>5, ExitPreserves DEF SysExit, InUser
<1>6. CASE SysWait
  BY <1>6, WaitPreserves DEF SysWait, InUser
<1>7. CASE SysKill
  <2>1. PICK p \in Proc \ {idleproc} : do_kill(p)
    BY <1>7 DEF SysKill
  <2> DEFINE S == {q \in {p} : q \notin exiting /\ Live(q) /\ wait_state[q] # "NONE"}
  <2>2. S \in SUBSET Proc /\ \A q \in S : state[q] \in {"SLEEPING", "RUNNABLE"}
    BY DEF KernelInv, OnlySleepersWait
  <2>3. /\ state' = WokenState(state, S)
        /\ wait_state' = WokenWait(state, S)
        /\ runq' = WokenQueue(state, S)
        /\ UNCHANGED <<current, parent, waitfor, nr_process, panicked>>
        /\ UNCHANGED <<need_resched, timer>>
    BY <2>1 DEF do_kill
  <2>4. exiting' \subseteq Proc
    BY <1>1, <2>1 DEF do_kill, TypeOK
  <2>5. need_resched' \subseteq Proc /\ timer' \in [Proc -> 0..MaxSleep]
    BY <1>1, <2>3 DEF TypeOK
  <2>6. pc[current] = "user" /\ Goto(current, "ret")
    BY <1>7 DEF SysKill, InUser
  <2> HIDE DEF S
  <2> QED
    BY <2>2, <2>3, <2>4, <2>5, <2>6, WakePreserves
<1>8. CASE SysYield
  BY <1>1, <1>2, <1>8, MovePreserves
     DEF SysYield, InUser, PCs, KernelInv, RunQueueExact, TypeOK
<1>9. CASE SysSleep
  BY <1>9, SleepPreserves DEF SysSleep, InUser
<1>10. CASE TrapReturn
  <2>1. CASE current \in exiting /\ do_exit
    BY <1>10, <2>1, ExitPreserves DEF TrapReturn
  <2>2. ASSUME Goto(current, "user"),
               \/ Schedule(state, runq)
               \/ UNCHANGED <<need_resched, runq, current>>,
               UNCHANGED <<state, wait_state, exiting, parent, timer, waitfor,
                           nr_process, panicked>>
        PROVE  KernelInv'
    <3>1. RunQueueExact' /\ runq' \subseteq Proc /\ current' \in Proc /\ need_resched' \subseteq Proc
      BY <1>1, <2>2, MoveExact DEF KernelInv
    <3> QED
      BY <1>2, <1>10, <2>2, <3>1, MovePreserves DEF TrapReturn, PCs
  <2> QED
    BY <1>10, <2>1, <2>2 DEF TrapReturn
<1>11. CASE WaitResume
  <2>1. waitfor[current] \in SUBSET Proc
    BY <1>1 DEF TypeOK
  <2> QED
    BY <1>11, <2>1, ExitPreserves, WaitPreserves DEF WaitResume
<1>12. CASE SleepResume
  BY <1>1, <1>2, <1>12, MovePreserves
     DEF SleepResume, PCs, KernelInv, RunQueueExact, TypeOK
<1>13. CASE IdleSchedule
  <2>1. RunQueueExact' /\ runq' \subseteq Proc /\ current' \in Proc /\ need_resched' \subseteq Proc
    BY <1>13, MoveExact DEF IdleSchedule, KernelInv
  <2>2. Goto(current, "idle")
    BY <1>1, <1>13 DEF IdleSchedule, Goto, TypeOK
  <2> QED
    BY <1>2, <1>13, <2>1, <2>2, MovePreserves DEF IdleSchedule, PCs
<1>14. CASE InitFork
  <2>1. CASE panic
    BY <2>1, PanicPreserves
  <2>2. CASE \E child \in Users : do_fork(child, "loop")
    BY <1>2, <1>14, <2>2, ForkPreserves DEF InitFork, PCs
  <2> QED
    BY <1>14, <2>1, <2>2 DEF InitFork
<1>15. CASE InitWait
  BY <1>15, WaitPreserves DEF InitWait
<1>16. CASE InitExit
  BY <1>16, ExitPreserves DEF InitExit
<1>17. CASE Tick
  <2> DEFINE fired == {p \in Proc : timer[p] = 1}
  <2>1. fired \in SUBSET Proc /\ \A p \in fired : state[p] \in {"SLEEPING", "RUNNABLE"}
    BY DEF KernelInv, TimerOnLiveStack
  <2>2. /\ state' = WokenState(state, fired)
        /\ wait_state' = WokenWait(state, fired)
        /\ runq' = WokenQueue(state, fired)
        /\ UNCHANGED <<current, parent, waitfor, nr_process, panicked>>
        /\ exiting' = exiting
    BY <1>17 DEF Tick, Expired, CountedDown
  <2>3. exiting' \subseteq Proc /\ need_resched' \subseteq Proc
    BY <1>1, <1>17, <2>2 DEF Tick, TypeOK
  <2>4. timer' = [p \in Proc |-> IF timer[p] > 0 THEN timer[p] - 1 ELSE 0]
    BY <1>17 DEF Tick, Expired, CountedDown
  <2>5. /\ timer' \in [Proc -> 0..MaxSleep]
        /\ \A p \in Proc : /\ timer'[p] > 0 => timer[p] > 0
                           /\ timer[p] > 0 => timer'[p] > 0 \/ p \in fired
    BY <1>1, <2>4 DEF TypeOK
  <2>6. Goto(current, pc[current]) \/ (pc[current] = "user" /\ Goto(current, "ret"))
    BY <1>17 DEF Tick, Expired, CountedDown
  <2> HIDE DEF fired
  <2> QED
    BY <2>1, <2>2, <2>3, <2>5, <2>6, WakePreserves
<1>18. CASE UNCHANGED vars
  BY <1>18 DEF vars, KernelInv, TypeOK, RunQueueExact, Shape, SleepShape,
     OnlySleepersWait, EverySleeperHasAWaker, TimerOnLiveStack, NoOrphans, Children, Live
<1> QED
  BY <1>3, <1>4, <1>5, <1>6, <1>7, <1>8, <1>9, <1>10, <1>11, <1>12, <1>13, <1>14,
     <1>15, <1>16, <1>17, <1>18 DEF Next, Run, Halted

(* The invariant holds in every reachable state.                           *)
THEOREM KernelInvariance == Spec => []KernelInv
<1>1. Init => KernelInv
  BY InitEstablishes
<1>2. KernelInv /\ [Next]_vars => KernelInv'
  BY NextPreserves
<1> QED
  BY <1>1, <1>2, PTL DEF Spec

(* No runnable process is lost, none is queued twice or while it runs,     *)
(* sleeps or is dead, whatever the interleaving of system calls, timer     *)
(* interrupts and kills.                                                   *)
THEOREM RunQueueIsExact == Spec => []RunQueueExact
<1>1. KernelInv => RunQueueExact
  BY DEF KernelInv
<1> QED
  BY <1>1, KernelInvariance, PTL

(* No wake-up is lost: whoever sleeps in do_wait or do_sleep still has a   *)
(* child to wait for, none of them a zombie, or a running timer.           *)
THEOREM NoLostWakeup == Spec => []EverySleeperHasAWaker
<1>1. KernelInv => EverySleeperHasAWaker
  BY DEF KernelInv
<1> QED
  BY <1>1, KernelInvariance, PTL

(* The assertions of wakeup_proc and do_fork hold, no timer outlives the   *)
(* stack frame it is in, and no process is the child of a dead one.        *)
THEOREM SafeSleeps == Spec => [](OnlySleepersWait /\ TimerOnLiveStack /\ NoOrphans)
<1>1. KernelInv => OnlySleepersWait /\ TimerOnLiveStack /\ NoOrphans
  BY DEF KernelInv
<1> QED
  BY <1>1, KernelInvariance, PTL

-----------------------------------------------------------------------------
(* What one step may do to a live process: it is freed by its parent's     *)
(* do_wait, as a zombie, or not at all; and a zombie stays one until then. *)
ReapStep ==
  \A p \in Proc :
    /\ (Live(p) /\ state'[p] = "FREE") => state[p] = "ZOMBIE" /\ parent[p] = current
    /\ state[p] = "ZOMBIE" => state'[p] \in {"ZOMBIE", "FREE"}

(* do_exit frees nothing and revives nothing.                              *)
LEMMA ExitReaps == ASSUME KernelInv, do_exit PROVE ReapStep
<1>1. CASE panic
  BY <1>1 DEF panic, ReapStep, Live
<1>2. CASE ~panic
  <2> DEFINE st == [state EXCEPT ![current] = "ZOMBIE"]
  <2>1. state' = WokenState(st, ExitWakes)
    BY <1>2 DEF do_exit
  <2>2. \A p \in Proc : p \in ExitWakes => state[p] = "SLEEPING"
    BY DEF KernelInv, OnlySleepersWait, ExitWakes
  <2>3. \A p \in Proc : state'[p] \in {"RUNNABLE", "ZOMBIE", state[p]}
    BY <2>1 DEF WokenState, KernelInv, TypeOK
  <2>4. \A p \in Proc : state[p] = "ZOMBIE" => state'[p] = "ZOMBIE"
    BY <2>1, <2>2 DEF WokenState, KernelInv, TypeOK
  <2> QED
    BY <2>3, <2>4 DEF ReapStep, Live
<1> QED
  BY <1>1, <1>2

(* do_wait frees a zombie child of its caller, or nothing.                 *)
LEMMA WaitReaps == ASSUME KernelInv, NEW w, do_wait(w) PROVE ReapStep
<1>1. state \in [Proc -> States] /\ state[current] = "RUNNABLE"
  BY DEF KernelInv, TypeOK, RunQueueExact
<1>2. CASE state' = state
  BY <1>2 DEF ReapStep, Live
<1>3. CASE \E c \in Children(current) : state[c] = "ZOMBIE" /\ Reap(c)
  BY <1>1, <1>3 DEF Reap, ReapStep, Children, Live
<1>4. CASE state' = [state EXCEPT ![current] = "SLEEPING"]
  BY <1>1, <1>4 DEF ReapStep, Live
<1> QED
  BY <1>2, <1>3, <1>4 DEF do_wait

(* Only do_wait frees a proc_struct, only a zombie's, and only that of a   *)
(* child of its caller.                                                    *)
THEOREM ReapingIsSafe == Spec => FreedOnlyByParent
<1>1. KernelInv /\ [Next]_vars => [ReapStep]_vars
  <2> SUFFICES ASSUME KernelInv, Next PROVE ReapStep
    OBVIOUS
  <2>1. state \in [Proc -> States] /\ state[current] = "RUNNABLE"
    BY DEF KernelInv, TypeOK, RunQueueExact
  <2>2. CASE SysFork \/ InitFork
    <3>1. CASE panic
      BY <3>1 DEF panic, ReapStep, Live
    <3>2. CASE \E child \in Users : state[child] = "FREE" /\ state' = [state EXCEPT ![child] = "RUNNABLE"]
      BY <2>1, <3>2 DEF ReapStep, Live
    <3> QED
      BY <2>2, <3>1, <3>2 DEF SysFork, InitFork, do_fork
  <2>3. CASE SysExit \/ InitExit
    BY <2>3, ExitReaps DEF SysExit, InitExit
  <2>4. CASE SysWait \/ InitWait
    BY <2>4, WaitReaps DEF SysWait, InitWait
  <2>5. CASE SysKill
    <3>1. PICK p \in Proc \ {idleproc} : do_kill(p)
      BY <2>5 DEF SysKill
    <3>2. wait_state[p] # "NONE" => state[p] = "SLEEPING"
      BY DEF KernelInv, OnlySleepersWait
    <3> QED
      BY <3>1, <3>2 DEF do_kill, WokenState, ReapStep, Live
  <2>6. CASE SysSleep
    BY <2>1, <2>6 DEF SysSleep, do_sleep, ReapStep, Live
  <2>7. CASE SysNop \/ SysYield \/ SleepResume \/ IdleSchedule \/ Halted
    BY <2>7 DEF SysNop, SysYield, SleepResume, IdleSchedule, Halted, vars, ReapStep, Live
  <2>8. CASE TrapReturn
    <3>1. CASE do_exit
      BY <3>1, ExitReaps
    <3>2. CASE state' = state
      BY <3>2 DEF ReapStep, Live
    <3> QED
      BY <2>8, <3>1, <3>2 DEF TrapReturn
  <2>9. CASE WaitResume
    BY <2>9, ExitReaps, WaitReaps DEF WaitResume
  <2>10. CASE Tick
    <3>1. state' = WokenState(state, {p \in Proc : timer[p] = 1})
      BY <2>10 DEF Tick, Expired
    <3>2. \A p \in Proc : timer[p] = 1 => state[p] \in {"SLEEPING", "RUNNABLE"}
      BY DEF KernelInv, TimerOnLiveStack
    <3> QED
      BY <3>1, <3>2 DEF WokenState, ReapStep, Live
  <2> QED
    BY <2>2, <2>3, <2>4, <2>5, <2>6, <2>7, <2>8, <2>9, <2>10 DEF Next, Run
<1> QED
  BY <1>1, KernelInvariance, PTL DEF Spec, FreedOnlyByParent, ReapStep

-----------------------------------------------------------------------------
(* What init_main's assertions rest on: nr_process counts the processes    *)
(* that exist, and the parent pointers of the user processes lead to init  *)
(* and never in a circle, so that init has a child as long as any exists,  *)
(* and init waits for any child.                                           *)
LiveUsers == {u \in Users : Live(u)}

FamilyInv ==
  /\ nr_process = 2 + Cardinality(LiveUsers)
  /\ \A u \in LiveUsers : parent[u] \in LiveUsers \cup {initproc}
  /\ \A S \in SUBSET LiveUsers : S # {} => \E u \in S : parent[u] \notin S
  /\ pc[initproc] = "done" => LiveUsers = {}
  /\ pc[initproc] = "wait" => waitfor[initproc] = Proc

LEMMA InitIsAFamily == Init => FamilyInv
<1> SUFFICES ASSUME Init PROVE FamilyInv
  OBVIOUS
<1>1. LiveUsers = {}
  BY KernelAssumption DEF Init, LiveUsers, Live, Proc
<1>2. nr_process = 2 + Cardinality(LiveUsers)
  BY <1>1, FS_EmptySet DEF Init
<1>3. pc[initproc] = "boot"
  BY KernelAssumption DEF Init, Proc
<1> QED
  BY <1>1, <1>2, <1>3 DEF FamilyInv

(* A step that creates and frees nobody, and gives children to init if it  *)
(* gives them to anybody.                                                  *)
QuietStep ==
  /\ \A u \in Users : state'[u] = "FREE" <=> state[u] = "FREE"
  /\ \A u \in LiveUsers : parent'[u] \in {parent[u], initproc}
  /\ nr_process' = nr_process
  /\ pc'[initproc] = "done" => pc[initproc] = "done" \/ Children(initproc) = {}
  /\ pc'[initproc] = "wait" => waitfor'[initproc] = Proc

LEMMA QuietKeeps == ASSUME KernelInv, FamilyInv, QuietStep PROVE FamilyInv'
<1>1. LiveUsers' = LiveUsers
  BY DEF LiveUsers, Live, QuietStep
<1>2. initproc \notin LiveUsers
  BY KernelAssumption DEF LiveUsers
<1>3. \A u \in LiveUsers : parent'[u] \in LiveUsers \cup {initproc}
  BY DEF FamilyInv, QuietStep
<1>4. ASSUME NEW S \in SUBSET LiveUsers, S # {}
      PROVE  \E u \in S : parent'[u] \notin S
  BY <1>2, <1>4 DEF FamilyInv, QuietStep
<1>5. ASSUME Children(initproc) = {} PROVE LiveUsers = {}
  <2> SUFFICES ASSUME LiveUsers # {} PROVE FALSE
    OBVIOUS
  <2>1. PICK u \in LiveUsers : parent[u] \notin LiveUsers
    BY DEF FamilyInv
  <2>2. parent[u] = initproc /\ u # idleproc /\ u \in Proc /\ Live(u)
    BY <2>1, KernelAssumption DEF FamilyInv, LiveUsers, Proc
  <2>3. u \in Children(initproc)
    BY <2>2 DEF Children
  <2> QED
    BY <1>5, <2>3
<1>6. pc'[initproc] = "done" => LiveUsers = {}
  BY <1>5 DEF FamilyInv, QuietStep
<1> QED
  BY <1>1, <1>3, <1>4, <1>6 DEF FamilyInv, QuietStep

LEMMA ForkKeepsFamily ==
  ASSUME KernelInv, FamilyInv, NEW child \in Users, NEW next \in {"ret", "loop"},
         do_fork(child, next), current # idleproc, pc[initproc] # "done"
  PROVE  FamilyInv'
<1>1. /\ state \in [Proc -> States] /\ parent \in [Proc -> Proc] /\ pc \in [Proc -> PCs]
      /\ child \in Proc /\ current \in Proc /\ state[current] = "RUNNABLE"
  BY DEF KernelInv, TypeOK, RunQueueExact, Proc
<1>2. child \notin LiveUsers /\ current # child
  BY <1>1 DEF do_fork, LiveUsers, Live
<1>3. LiveUsers' = LiveUsers \cup {child}
  BY <1>1 DEF do_fork, LiveUsers, Live
<1>4. parent'[child] = current /\ \A u \in LiveUsers : parent'[u] = parent[u]
  BY <1>1, <1>2 DEF do_fork, LiveUsers, Proc
<1>5. current \in LiveUsers \cup {initproc}
  BY <1>1 DEF LiveUsers, Live, Proc
<1>6. nr_process' = 2 + Cardinality(LiveUsers')
  <2>1. IsFiniteSet(LiveUsers)
    BY KernelAssumption, FS_Subset DEF LiveUsers
  <2>2. Cardinality(LiveUsers') = Cardinality(LiveUsers) + 1 /\ Cardinality(LiveUsers) \in Nat
    BY <1>2, <1>3, <2>1, FS_AddElement, FS_CardinalityType
  <2> QED
    BY <2>2 DEF FamilyInv, do_fork
<1>7. \A u \in LiveUsers' : parent'[u] \in LiveUsers' \cup {initproc}
  BY <1>3, <1>4, <1>5 DEF FamilyInv
<1>8. ASSUME NEW S \in SUBSET LiveUsers', S # {}
      PROVE  \E u \in S : parent'[u] \notin S
  <2> DEFINE T == S \ {child}
  <2>1. CASE T = {}
    <3>1. S = {child}
      BY <1>8, <2>1
    <3> QED
      BY <1>2, <1>4, <3>1
  <2>2. CASE T # {}
    <3>1. T \in SUBSET LiveUsers
      BY <1>3
    <3>2. PICK u \in T : parent[u] \notin T
      BY <2>2, <3>1 DEF FamilyInv
    <3>3. parent[u] # child
      BY <1>2, <3>1, <3>2, KernelAssumption DEF FamilyInv
    <3> QED
      BY <1>4, <3>1, <3>2, <3>3
  <2> QED
    BY <2>1, <2>2
<1>9. pc'[initproc] \notin {"done", "wait"} \/ pc'[initproc] = pc[initproc]
  <2>1. initproc # child /\ initproc \in Proc
    BY KernelAssumption DEF Proc
  <2>2. pc' = [pc EXCEPT ![child] = "user", ![current] = next]
    BY DEF do_fork
  <2>3. CASE current = initproc
    BY <1>1, <2>1, <2>2, <2>3
  <2>4. CASE current # initproc
    BY <1>1, <2>1, <2>2, <2>4
  <2> QED
    BY <2>3, <2>4
<1> QED
  BY <1>6, <1>7, <1>8, <1>9 DEF FamilyInv, do_fork

LEMMA ExitKeepsFamily == ASSUME KernelInv, FamilyInv, do_exit PROVE FamilyInv'
<1>1. /\ state \in [Proc -> States] /\ parent \in [Proc -> Proc] /\ pc \in [Proc -> PCs]
      /\ current \in Proc /\ state[current] = "RUNNABLE"
  BY DEF KernelInv, TypeOK, RunQueueExact
<1>2. CASE panic
  BY <1>2, QuietKeeps DEF panic, QuietStep, FamilyInv
<1>3. CASE ~panic
  <2> DEFINE st == [state EXCEPT ![current] = "ZOMBIE"]
  <2>1. /\ state' = WokenState(st, ExitWakes)
        /\ parent' = Adopted /\ nr_process' = nr_process
        /\ Goto(current, "user") /\ current \notin {idleproc, initproc}
    BY <1>3 DEF do_exit
  <2>2. \A p \in ExitWakes : state[p] = "SLEEPING"
    BY DEF KernelInv, OnlySleepersWait, ExitWakes, TypeOK, Proc
  <2>3. \A u \in Users : u \in Proc
    BY DEF Proc
  <2>4. \A u \in Users : state'[u] = "FREE" <=> state[u] = "FREE"
    BY <1>1, <2>1, <2>2, <2>3 DEF WokenState
  <2>5. \A u \in LiveUsers : parent'[u] \in {parent[u], initproc}
    BY <2>1, <2>3 DEF Adopted, LiveUsers
  <2>6. pc'[initproc] = pc[initproc]
    BY <1>1, <2>1 DEF Goto
  <2>7. waitfor'[initproc] = waitfor[initproc]
    <3>1. waitfor' = [waitfor EXCEPT ![current] = {}] /\ waitfor \in [Proc -> SUBSET Proc]
      BY <1>3 DEF do_exit, KernelInv, TypeOK
    <3> QED
      BY <2>1, <3>1 DEF Proc
  <2> QED
    BY <2>1, <2>4, <2>5, <2>6, <2>7, QuietKeeps DEF QuietStep, FamilyInv
<1> QED
  BY <1>2, <1>3

LEMMA WaitKeepsFamily ==
  ASSUME KernelInv, FamilyInv, NEW w \in SUBSET Proc, do_wait(w),
         pc[initproc] = "done" => current # initproc,
         current = initproc => w = Proc
  PROVE  FamilyInv'
<1>1. /\ state \in [Proc -> States] /\ parent \in [Proc -> Proc] /\ pc \in [Proc -> PCs]
      /\ current \in Proc /\ state[current] = "RUNNABLE" /\ initproc \in Proc
      /\ waitfor \in [Proc -> SUBSET Proc]
  BY DEF KernelInv, TypeOK, RunQueueExact, Proc
<1>2. \A v : waitfor' = [waitfor EXCEPT ![current] = v] =>
               waitfor'[initproc] = IF current = initproc THEN v ELSE waitfor[initproc]
  BY <1>1
<1>3. CASE /\ Children(current) \cap w = {}
           /\ Goto(current, IF current = initproc THEN "done" ELSE "ret")
           /\ waitfor' = [waitfor EXCEPT ![current] = {}]
           /\ UNCHANGED <<state, parent, nr_process>>
  <2>1. pc'[initproc] = "done" => pc[initproc] = "done" \/ Children(initproc) = {}
    <3>1. CASE current = initproc
      <4>1. Children(initproc) \subseteq Proc
        BY DEF Children
      <4> QED
        BY <1>3, <3>1, <4>1
    <3>2. CASE current # initproc
      BY <1>1, <1>3, <3>2 DEF Goto
    <3> QED
      BY <3>1, <3>2
  <2>2. pc'[initproc] = "wait" => waitfor'[initproc] = Proc
    <3>1. pc'[initproc] = "wait" => current # initproc /\ pc[initproc] = "wait"
      BY <1>1, <1>3 DEF Goto
    <3> QED
      BY <1>3, <1>2, <3>1 DEF FamilyInv
  <2> QED
    BY <1>3, <2>1, <2>2, QuietKeeps DEF QuietStep
<1>4. ASSUME NEW c \in Children(current), state[c] = "ZOMBIE", Reap(c),
             waitfor' = [waitfor EXCEPT ![current] = {}],
             \/ Goto(current, "loop")
             \/ Goto(current, "ret")
      PROVE  FamilyInv'
  <2>1. c \in Users /\ c \in Proc /\ c # idleproc
    BY <1>4 DEF Children, KernelInv, Shape, Proc
  <2>2. c \in LiveUsers /\ LiveUsers' = LiveUsers \ {c}
    BY <1>1, <1>4, <2>1 DEF LiveUsers, Live, Reap, Proc
  <2>3. \A u \in LiveUsers' : parent'[u] = parent[u]
    BY <1>1, <1>4, <2>1, <2>2 DEF Reap, LiveUsers, Proc
  <2>4. nr_process' = 2 + Cardinality(LiveUsers')
    <3>1. IsFiniteSet(LiveUsers)
      BY KernelAssumption, FS_Subset DEF LiveUsers
    <3>2. Cardinality(LiveUsers') = Cardinality(LiveUsers) - 1 /\ Cardinality(LiveUsers) \in Nat
      BY <2>2, <3>1, FS_RemoveElement, FS_CardinalityType
    <3> QED
      BY <1>4, <3>2 DEF FamilyInv, Reap
  <2>5. \A u \in LiveUsers : parent[u] # c
    BY <1>4, <2>1 DEF KernelInv, NoOrphans, LiveUsers, Proc
  <2>6. \A u \in LiveUsers' : parent'[u] \in LiveUsers' \cup {initproc}
    BY <2>2, <2>3, <2>5 DEF FamilyInv
  <2>7. ASSUME NEW S \in SUBSET LiveUsers', S # {}
        PROVE  \E u \in S : parent'[u] \notin S
    BY <2>2, <2>3, <2>7 DEF FamilyInv
  <2>8. pc'[initproc] = "done" => pc[initproc] = "done"
    BY <1>1, <1>4 DEF Goto
  <2>9. pc'[initproc] = "wait" => waitfor'[initproc] = Proc
    <3>1. pc'[initproc] = "wait" => current # initproc /\ pc[initproc] = "wait"
      BY <1>1, <1>4 DEF Goto
    <3> QED
      BY <1>4, <1>2, <3>1 DEF FamilyInv
  <2> QED
    BY <2>2, <2>4, <2>6, <2>7, <2>8, <2>9 DEF FamilyInv
<1>5. CASE /\ state' = [state EXCEPT ![current] = "SLEEPING"]
           /\ Goto(current, "wait")
           /\ waitfor' = [waitfor EXCEPT ![current] = w]
           /\ UNCHANGED <<parent, nr_process>>
  <2>1. pc'[initproc] = "done" => pc[initproc] = "done"
    BY <1>1, <1>5 DEF Goto
  <2>2. \A u \in Users : state'[u] = "FREE" <=> state[u] = "FREE"
    BY <1>1, <1>5 DEF Proc
  <2>3. pc'[initproc] = "wait" => waitfor'[initproc] = Proc
    <3>1. pc'[initproc] = "wait" => current = initproc \/ pc[initproc] = "wait"
      BY <1>1, <1>5 DEF Goto
    <3> QED
      BY <1>5, <1>2, <3>1 DEF FamilyInv
  <2> QED
    BY <1>5, <2>1, <2>2, <2>3, QuietKeeps DEF QuietStep
<1> QED
  BY <1>3, <1>4, <1>5 DEF do_wait

LEMMA NextKeepsFamily == KernelInv /\ FamilyInv /\ [Next]_vars => FamilyInv'
<1> SUFFICES ASSUME KernelInv, FamilyInv, [Next]_vars PROVE FamilyInv'
  OBVIOUS
<1>1. /\ state \in [Proc -> States] /\ parent \in [Proc -> Proc] /\ pc \in [Proc -> PCs]
      /\ current \in Proc /\ state[current] = "RUNNABLE" /\ initproc \in Proc
      /\ waitfor \in [Proc -> SUBSET Proc]
  BY DEF KernelInv, TypeOK, RunQueueExact, Proc
<1>2. /\ pc[idleproc] = "idle" /\ pc[initproc] \in {"boot", "loop", "wait", "done"}
      /\ \A u \in Users : pc[u] \in {"user", "ret", "wait", "sleep"}
  BY DEF KernelInv, Shape
<1>3. /\ current = initproc \/ current = idleproc \/ current \in Users
      /\ initproc # idleproc /\ initproc \notin Users /\ idleproc \notin Users
  BY <1>1, KernelAssumption DEF Proc
<1>4. current \in Users => pc[initproc] # "done"
  BY <1>1 DEF FamilyInv, LiveUsers, Live
<1>5. ASSUME UNCHANGED <<parent, nr_process, waitfor>>,
             \A u \in Users : state'[u] = "FREE" <=> state[u] = "FREE",
             pc'[initproc] = pc[initproc]
      PROVE  FamilyInv'
  BY <1>5, QuietKeeps DEF QuietStep, FamilyInv
<1>6. ASSUME NEW to, Goto(current, to), current \in Users
      PROVE  pc'[initproc] = pc[initproc]
  BY <1>1, <1>3, <1>6 DEF Goto
<1>7. CASE SysFork
  <2>1. current \in Users
    BY <1>2, <1>3, <1>7 DEF SysFork, InUser
  <2> QED
    BY <1>3, <1>4, <1>7, <2>1, ForkKeepsFamily DEF SysFork
<1>8. CASE SysNop \/ SysYield \/ SleepResume
  <2>1. current \in Users
    BY <1>2, <1>3, <1>8 DEF SysNop, SysYield, SleepResume, InUser
  <2>2. pc'[initproc] = pc[initproc]
    BY <1>6, <1>8, <2>1 DEF SysNop, SysYield, SleepResume
  <2> QED
    BY <1>5, <1>8, <2>2 DEF SysNop, SysYield, SleepResume
<1>9. CASE SysExit \/ InitExit
  BY <1>9, ExitKeepsFamily DEF SysExit, InitExit
<1>10. CASE SysWait
  <2>1. current \in Users
    BY <1>2, <1>3, <1>10 DEF SysWait, InUser
  <2>2. PICK w \in {Proc} \cup {{p} : p \in Proc \ {idleproc}} : do_wait(w)
    BY <1>10 DEF SysWait
  <2>3. w \in SUBSET Proc
    OBVIOUS
  <2> QED
    BY <1>3, <2>1, <2>2, <2>3, WaitKeepsFamily
<1>11. CASE SysKill
  <2>1. PICK p \in Proc \ {idleproc} : do_kill(p)
    BY <1>11 DEF SysKill
  <2>2. current \in Users
    BY <1>2, <1>3, <1>11 DEF SysKill, InUser
  <2>3. pc'[initproc] = pc[initproc]
    BY <1>6, <1>11, <2>2 DEF SysKill
  <2>4. \A u \in Users : state'[u] = "FREE" <=> state[u] = "FREE"
    BY <2>1 DEF do_kill, WokenState, Live, Proc
  <2>5. UNCHANGED <<parent, nr_process, waitfor>>
    BY <2>1 DEF do_kill
  <2> QED
    BY <1>5, <2>3, <2>4, <2>5
<1>12. CASE SysSleep
  <2>1. current \in Users
    BY <1>2, <1>3, <1>12 DEF SysSleep, InUser
  <2>2. pc'[initproc] = pc[initproc]
    BY <1>6, <1>12, <2>1 DEF SysSleep, do_sleep
  <2>3. \A u \in Users : state'[u] = "FREE" <=> state[u] = "FREE"
    BY <1>1, <1>12 DEF SysSleep, do_sleep, Proc
  <2>4. UNCHANGED <<parent, nr_process, waitfor>>
    BY <1>12 DEF SysSleep, do_sleep
  <2> QED
    BY <1>5, <2>2, <2>3, <2>4
<1>13. CASE TrapReturn
  <2>1. current \in Users
    BY <1>2, <1>3, <1>13 DEF TrapReturn
  <2>2. CASE do_exit
    BY <2>2, ExitKeepsFamily
  <2>3. CASE Goto(current, "user") /\ UNCHANGED <<state, parent, nr_process, waitfor>>
    BY <1>5, <1>6, <2>1, <2>3
  <2> QED
    BY <1>13, <2>2, <2>3 DEF TrapReturn
<1>14. CASE WaitResume
  <2>1. CASE do_exit
    BY <2>1, ExitKeepsFamily
  <2>2. CASE do_wait(waitfor[current])
    <3> DEFINE w == waitfor[current]
    <3>1. w \in SUBSET Proc
      BY <1>1
    <3>2. pc[current] = "wait"
      BY <1>14 DEF WaitResume
    <3>3. current = initproc => w = Proc
      BY <3>2 DEF FamilyInv
    <3>4. pc[initproc] = "done" => current # initproc
      BY <3>2
    <3>5. do_wait(w)
      BY <2>2
    <3> HIDE DEF w
    <3> QED
      BY <3>1, <3>3, <3>4, <3>5, WaitKeepsFamily
  <2> QED
    BY <1>14, <2>1, <2>2 DEF WaitResume
<1>15. CASE IdleSchedule
  BY <1>5, <1>15 DEF IdleSchedule
<1>16. CASE InitFork
  <2>1. current = initproc /\ pc[initproc] = "boot"
    BY <1>2, <1>3, <1>16 DEF InitFork
  <2>2. CASE panic
    BY <1>5, <2>2 DEF panic
  <2>3. CASE \E child \in Users : do_fork(child, "loop")
    BY <1>3, <2>1, <2>3, ForkKeepsFamily
  <2> QED
    BY <1>16, <2>2, <2>3 DEF InitFork
<1>17. CASE InitWait
  <2>1. current = initproc /\ pc[initproc] = "loop" /\ do_wait(Proc)
    BY <1>2, <1>3, <1>17 DEF InitWait
  <2>2. Proc \in SUBSET Proc
    OBVIOUS
  <2> QED
    BY <2>1, <2>2, WaitKeepsFamily
<1>18. CASE Tick
  <2>1. state' = WokenState(state, {p \in Proc : timer[p] = 1})
    BY <1>18 DEF Tick, Expired
  <2>2. \A p \in Proc : timer[p] = 1 => state[p] \in {"SLEEPING", "RUNNABLE"}
    BY DEF KernelInv, TimerOnLiveStack
  <2>3. \A u \in Users : state'[u] = "FREE" <=> state[u] = "FREE"
    BY <2>1, <2>2 DEF WokenState, Proc
  <2>4. pc'[initproc] = pc[initproc]
    BY <1>1, <1>2, <1>3, <1>18 DEF Tick, Goto
  <2>5. UNCHANGED <<parent, nr_process, waitfor>>
    BY <1>18 DEF Tick
  <2> QED
    BY <1>5, <2>3, <2>4, <2>5
<1>19. CASE Halted \/ UNCHANGED vars
  BY <1>5, <1>19 DEF Halted, vars
<1> QED
  BY <1>7, <1>8, <1>9, <1>10, <1>11, <1>12, <1>13, <1>14, <1>15, <1>16, <1>17, <1>18, <1>19
     DEF Next, Run

(* The parent pointers are a tree with its root at init in every reachable *)
(* state, and nr_process is the number of its members and idle.            *)
THEOREM FamilyInvariance == Spec => []FamilyInv
BY InitIsAFamily, NextKeepsFamily, KernelInvariance, PTL DEF Spec

(* Theorem: the assertions init_main makes behind its loop hold, whatever  *)
(* the processes did: no process is lost from the family, so init leaves   *)
(* its do_wait loop only when idle and init are the only processes.        *)
THEOREM InitAssertionsHold == Spec => []InitAssertions
<1>1. FamilyInv => InitAssertions
  BY FS_EmptySet DEF FamilyInv, InitAssertions, LiveUsers
<1> QED
  BY <1>1, FamilyInvariance, PTL

(* Theorem: every variable of the process life cycle keeps its type.       *)
THEOREM TypesHold == Spec => []TypeOK
<1>1. KernelInv => TypeOK
  BY DEF KernelInv
<1> QED
  BY <1>1, KernelInvariance, PTL
=============================================================================
