----------------------------- MODULE CheckSync ------------------------------
(***************************************************************************)
(* check_sync() of kern/sync/check_sync.c: the dining philosophers with    *)
(* semaphores, and when all of them have quit, in a monitor with one       *)
(* condition variable per philosopher.  Anybody may kill a philosopher at  *)
(* any time.                                                               *)
(***************************************************************************)
EXTENDS Integers, Sequences, FiniteSets

CONSTANTS N, TIMES

ASSUME PhiAssumption == N \in Nat /\ N > 1 /\ TIMES \in Nat \ {0}

Phil == 0..N - 1
LEFT(i) == (i - 1 + N) % N
RIGHT(i) == (i + 1) % N

(* The semaphores of the first solution; the monitor has its own.          *)
mutex_sema == <<"mutex_sema">>
s(i) == <<"s", i>>
SemaSem == {mutex_sema} \cup {s(i) : i \in Phil}
PhiMonSem == {<<"mutex">>, <<"next">>} \cup {<<"cv", i>> : i \in Phil}

VARIABLES
  value, wait_queue, asleep, wakeup_flags,  \* the semaphores, see SemOps
  count, next_count, pc,  \* the monitor, see Monitor
  solution,  \* the solution at work, "sema" or "condvar"
  state,     \* its state_sema or state_condvar: "THINKING", "HUNGRY" or "EATING"
  iter       \* meals a philosopher has begun

INSTANCE Monitor WITH Thread <- Phil, CV <- Phil, Sem <- SemaSem \cup PhiMonSem

sems == <<value, wait_queue, asleep, wakeup_flags>>
mon == <<sems, count, next_count>>
vars == <<mon, pc, solution, state, iter>>

(* In front of phi_take_forks and of phi_put_forks, where the philosopher  *)
(* sleeps a while; lock is mutex_sema or mutex.                            *)
Take(lock) == <<"down", lock, <<"hungry">>>>
Put(lock) == <<"down", lock, <<"testL">>>>

Init ==
  /\ sem_init([x \in SemaSem \cup PhiMonSem |-> IF x = mutex_sema THEN 1 ELSE 0])
  /\ count = [c \in Phil |-> 0]
  /\ next_count = 0
  /\ pc = [i \in Phil |-> Take(mutex_sema)]
  /\ solution = "sema"
  /\ state = [i \in Phil |-> "THINKING"]
  /\ iter = [i \in Phil |-> 1]

(* Mutant: only the left neighbour is looked at.                           *)
MayEat_leftOnly(i, st) == st[i] = "HUNGRY" /\ st[LEFT(i)] # "EATING"

MayEat(i, st) ==
  /\ st[i] = "HUNGRY"
  /\ st[LEFT(i)] # "EATING"
  /\ st[RIGHT(i)] # "EATING"

(* The loop of a philosopher behind phi_put_forks.                         *)
Again(i, lock) ==
  /\ Goto(i, <<"forks_down">>, IF iter[i] < TIMES THEN Take(lock) ELSE <<"quit">>)
  /\ iter' = [iter EXCEPT ![i] = IF @ < TIMES THEN @ + 1 ELSE @]
  /\ UNCHANGED <<count, next_count, state>>

-----------------------------------------------------------------------------
(* With semaphores.  phi_test_sema(j), called by i; st is state_sema as    *)
(* the caller has set it.                                                  *)
phi_test_sema(i, j, st, from, to) ==
  /\ Goto(i, from, to)
  /\ \/ MayEat(j, st) /\ state' = [st EXCEPT ![j] = "EATING"] /\ up(s(j))
     \/ ~MayEat(j, st) /\ state' = st /\ UNCHANGED sems
  /\ UNCHANGED <<count, next_count, iter>>

phi_take_forks_sema(i) ==
  \/ Down(i, mutex_sema, <<"hungry">>) /\ UNCHANGED <<state, iter>>
  \/ phi_test_sema(i, i, [state EXCEPT ![i] = "HUNGRY"], <<"hungry">>, <<"tested">>)
  \/ /\ Goto(i, <<"tested">>, <<"down", s(i), Put(mutex_sema)>>)
     /\ up(mutex_sema)
     /\ UNCHANGED <<count, next_count, state, iter>>
  \/ Down(i, s(i), Put(mutex_sema)) /\ UNCHANGED <<state, iter>>

(* Mutant: the right neighbour is not told.                                *)
phi_put_forks_sema_leftOnly(i) ==
  \/ Down(i, mutex_sema, <<"testL">>) /\ UNCHANGED <<state, iter>>
  \/ phi_test_sema(i, LEFT(i), [state EXCEPT ![i] = "THINKING"], <<"testL">>, <<"forks_down">>)
  \/ Again(i, mutex_sema) /\ up(mutex_sema)

phi_put_forks_sema(i) ==
  \/ Down(i, mutex_sema, <<"testL">>) /\ UNCHANGED <<state, iter>>
  \/ phi_test_sema(i, LEFT(i), [state EXCEPT ![i] = "THINKING"], <<"testL">>, <<"testR">>)
  \/ phi_test_sema(i, RIGHT(i), state, <<"testR">>, <<"forks_down">>)
  \/ Again(i, mutex_sema) /\ up(mutex_sema)

philosopher_using_semaphore(i) ==
  /\ solution = "sema"
  /\ phi_take_forks_sema(i) \/ phi_put_forks_sema(i)
  /\ UNCHANGED solution

-----------------------------------------------------------------------------
(* In the monitor.  phi_test_condvar(j), called by i, up to the            *)
(* cond_signal it may call.                                                *)
phi_test_condvar(i, j, st, from, to) ==
  /\ \/ /\ MayEat(j, st)
        /\ state' = [st EXCEPT ![j] = "EATING"]
        /\ Goto(i, from, <<"signal", j, to>>)
     \/ /\ ~MayEat(j, st)
        /\ state' = st
        /\ Goto(i, from, to)
  /\ UNCHANGED <<mon, iter>>

(* Mutant: the philosopher does not wait for its forks.                    *)
phi_take_forks_condvar_noWait(i) ==
  \/ Down(i, mutex, <<"hungry">>) /\ UNCHANGED <<state, iter>>
  \/ phi_test_condvar(i, i, [state EXCEPT ![i] = "HUNGRY"], <<"hungry">>, <<"forks">>)
  \/ cond_signal(i, i, <<"forks">>) /\ UNCHANGED <<state, iter>>
  \/ /\ Goto(i, <<"forks">>, Put(mutex))
     /\ Leave
     /\ UNCHANGED <<count, next_count, state, iter>>

phi_take_forks_condvar(i) ==
  \/ Down(i, mutex, <<"hungry">>) /\ UNCHANGED <<state, iter>>
  \/ phi_test_condvar(i, i, [state EXCEPT ![i] = "HUNGRY"], <<"hungry">>, <<"tested">>)
  \/ cond_signal(i, i, <<"tested">>) /\ UNCHANGED <<state, iter>>
  \/ /\ Goto(i, <<"tested">>,
             IF state[i] = "HUNGRY" THEN <<"wait", i, <<"forks">>>> ELSE <<"forks">>)
     /\ UNCHANGED <<mon, state, iter>>
  \/ cond_wait(i, i, <<"forks">>) /\ UNCHANGED <<state, iter>>
  \/ /\ Goto(i, <<"forks">>, Put(mutex))
     /\ Leave
     /\ UNCHANGED <<count, next_count, state, iter>>

phi_put_forks_condvar(i) ==
  \/ Down(i, mutex, <<"testL">>) /\ UNCHANGED <<state, iter>>
  \/ phi_test_condvar(i, LEFT(i), [state EXCEPT ![i] = "THINKING"], <<"testL">>, <<"testR">>)
  \/ cond_signal(i, LEFT(i), <<"testR">>) /\ UNCHANGED <<state, iter>>
  \/ phi_test_condvar(i, RIGHT(i), state, <<"testR">>, <<"forks_down">>)
  \/ cond_signal(i, RIGHT(i), <<"forks_down">>) /\ UNCHANGED <<state, iter>>
  \/ Again(i, mutex) /\ Leave

philosopher_using_condvar(i) ==
  /\ solution = "condvar"
  /\ phi_take_forks_condvar(i) \/ phi_put_forks_condvar(i)
  /\ UNCHANGED solution

-----------------------------------------------------------------------------
AllQuit == \A i \in Phil : pc[i] = <<"quit">>

(* check_sync has collected the philosophers of the first solution and     *)
(* starts those of the second.                                             *)
StartCondvar ==
  /\ solution = "sema" /\ AllQuit
  /\ monitor_init
  /\ solution' = "condvar"
  /\ state' = [i \in Phil |-> "THINKING"]
  /\ iter' = [i \in Phil |-> 1]
  /\ pc' = [i \in Phil |-> Take(mutex)]

Finished == solution = "condvar" /\ AllQuit /\ UNCHANGED vars

Kill(i) ==
  /\ i \in asleep
  /\ kill_wakes(i)
  /\ UNCHANGED <<count, next_count, pc, solution, state, iter>>

philosopher(i) == philosopher_using_semaphore(i) \/ philosopher_using_condvar(i)

Next == (\E i \in Phil : philosopher(i) \/ Kill(i)) \/ StartCondvar \/ Finished

Spec == Init /\ [][Next]_vars

(* Every thread that can run goes on, check_sync among them.               *)
FairSpec == Spec /\ WF_vars(StartCondvar) /\ \A i \in Phil : WF_vars(philosopher(i))

-----------------------------------------------------------------------------
(* down() is never woken by anything but up(), not even by do_kill: who is *)
(* asleep is in the queue and can be found by up(), who is not has been    *)
(* handed the permit, and the assertion flags == 0 holds.                  *)
DownNotInterrupted ==
  \A i \in Phil : \A x \in SemaSem \cup PhiMonSem :
    pc[i][1] = "blocked" /\ pc[i][2] = x =>
      IF i \in asleep THEN \E k \in DOMAIN wait_queue[x] : wait_queue[x][k] = i
                      ELSE wakeup_flags[i] = "WT_KSEM"

Inside == {"hungry", "tested", "forks", "testL", "testR", "forks_down"}

(* "Only one process at a time may be active in a monitor" (monitor.h:12), *)
(* and one between down(&mutex) and up(&mutex) of the first solution.      *)
OneInMonitor == Cardinality({i \in Phil : Active(i, Inside)}) <= 1

(* A philosopher that is back from phi_take_forks, or about to be.         *)
HasForks(i) ==
  \/ pc[i] = <<"forks">>
  \/ \E lock \in {mutex_sema, mutex} :
       pc[i] \in {Put(lock), <<"blocked", lock, <<"testL">>>>}

(* A philosopher that has its forks has two: no neighbour has them.        *)
NeighboursDoNotEat == \A i \in Phil : HasForks(i) => ~HasForks(LEFT(i))

(* What a philosopher was woken for still holds when it runs: nobody gets  *)
(* in between the signaller and the thread it woke, so the code may test   *)
(* with if and not with while.                                             *)
SignalledStillEats == \A i \in Phil : HasForks(i) => state[i] = "EATING"

At(x) == {i \in Phil : \E k \in {<<"hungry">>, <<"testL">>} : pc[i] = <<"blocked", x, k>>}

Permit == INSTANCE CountingSem WITH
  Thread  <- Phil,
  Permits <- 1,
  permits <- value[mutex_sema] + Cardinality(At(mutex_sema) \ asleep),
  wants   <- At(mutex_sema),
  holds   <- {i \in Phil : solution = "sema" /\ pc[i][1] \in Inside}

(* The hand-off from up() to the waiter it wakes is a counting semaphore:  *)
(* no permit is lost or made, whoever is killed or comes in between.       *)
IsCountingSem == Permit!Spec

(* check_sync returns: no permit and no signal is lost, and nobody is left *)
(* in down() or in the monitor.                                            *)
EverybodyQuits == <>(solution = "condvar" /\ AllQuit)
=============================================================================
