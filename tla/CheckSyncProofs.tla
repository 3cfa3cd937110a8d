-------------------------- MODULE CheckSyncProofs ---------------------------
(***************************************************************************)
(* Proofs about CheckSync for any number of philosophers and of meals: the *)
(* semaphores, the monitor that is built from them and the two solutions   *)
(* of the dining philosophers.                                             *)
(***************************************************************************)
EXTENDS CheckSync, SequenceTheorems, FiniteSetTheorems, TLAPS

AllSem == SemaSem \cup PhiMonSem

(* The mutex of the solution at work, and the semaphores through which it  *)
(* hands on the right to be inside.                                        *)
Lock == IF solution = "sema" THEN mutex_sema ELSE mutex
Locks == IF solution = "sema" THEN {mutex_sema} ELSE PhiMonSem

ActiveLabels == {"signal", "signalled", "wait", "woken"} \cup Inside

(* The queues hold exactly the threads that sleep in down(), each once and *)
(* in the queue of its semaphore; who is awake in down() was woken by up().*)
SemType ==
  /\ value \in [AllSem -> Nat]
  /\ wait_queue \in [AllSem -> Seq(Phil)]
  /\ asleep \subseteq Phil
  /\ wakeup_flags \in [Phil -> {"none", "WT_INTERRUPTED", "WT_KSEM"}]

Queued ==
  \A x \in AllSem : \A k \in 1..Len(wait_queue[x]) :
    /\ wait_queue[x][k] \in asleep
    /\ pc[wait_queue[x][k]][1] = "blocked"
    /\ pc[wait_queue[x][k]][2] = x
    /\ \A l \in 1..Len(wait_queue[x]) : wait_queue[x][k] = wait_queue[x][l] => k = l

Sleeping ==
  \A t \in asleep :
    /\ pc[t][1] = "blocked"
    /\ \E k \in 1..Len(wait_queue[pc[t][2]]) : wait_queue[pc[t][2]][k] = t

Woken == \A t \in Phil \ asleep : pc[t][1] = "blocked" => wakeup_flags[t] = "WT_KSEM"

SemInv == SemType /\ Queued /\ Sleeping /\ Woken

(* Who may be inside: an active thread, or one that up() has woken to be.  *)
Holder(i) ==
  \/ pc[i][1] \in ActiveLabels
  \/ pc[i][1] = "blocked" /\ pc[i][2] \in Locks /\ i \notin asleep

(* There is one right to be inside: a permit of one of the semaphores, or  *)
(* one thread.                                                             *)
TokenInv ==
  /\ \A x \in Locks : value[x] <= 1 /\ \A y \in Locks : value[x] > 0 /\ value[y] > 0 => x = y
  /\ \A x \in Locks : value[x] > 0 => \A i \in Phil : ~Holder(i)
  /\ \A i, j \in Phil : Holder(i) /\ Holder(j) => i = j

(* Inside cond_signal(c), which goes on at k.                              *)
Signalling(i, c, k) ==
  pc[i] \in {<<"signal", c, k>>, <<"down", next, <<"signalled", c, k>>>>,
             <<"blocked", next, <<"signalled", c, k>>>>, <<"signalled", c, k>>}

(* The places where a philosopher has no forks and asks for none, where it *)
(* asks for them, and where it has them.                                   *)
Thinking(i) ==
  \/ pc[i] \in {Take(Lock), <<"blocked", Lock, <<"hungry">>>>, <<"hungry">>,
                <<"testR">>, <<"forks_down">>, <<"quit">>}
  \/ /\ solution = "condvar"
     /\ \E c \in Phil, k \in {<<"testR">>, <<"forks_down">>} : Signalling(i, c, k)

Asking(i) ==
  \/ pc[i] = <<"tested">>
  \/ solution = "sema" /\ pc[i] \in {<<"down", s(i), Put(mutex_sema)>>,
                                     <<"blocked", s(i), Put(mutex_sema)>>}
  \/ solution = "condvar" /\ pc[i] \in {<<"wait", i, <<"forks">>>>,
                                        <<"down", cv_sem(i), <<"woken", i, <<"forks">>>>>>,
                                        <<"blocked", cv_sem(i), <<"woken", i, <<"forks">>>>>>}

Eating(i) ==
  \/ pc[i] \in {Put(Lock), <<"blocked", Lock, <<"testL">>>>, <<"testL">>}
  \/ /\ solution = "condvar"
     /\ \/ pc[i] \in {<<"woken", i, <<"forks">>>>, <<"forks">>}
        \/ Signalling(i, i, <<"tested">>)

Place(i) ==
  \/ Thinking(i) /\ state[i] = "THINKING"
  \/ Asking(i) /\ state[i] \in {"HUNGRY", "EATING"}
  \/ Eating(i) /\ state[i] = "EATING"

PlaceInv ==
  /\ solution \in {"sema", "condvar"}
  /\ pc = [i \in Phil |-> pc[i]]
  /\ state \in [Phil -> {"THINKING", "HUNGRY", "EATING"}]
  /\ count \in [Phil -> Int] /\ next_count \in Int
  /\ \A i \in Phil : Place(i)

(* Neighbours do not eat together, and who is given a permit or a signal   *)
(* to go on with its forks is eating.                                      *)
Apart == \A i \in Phil : state[i] = "EATING" => state[LEFT(i)] # "EATING"

SemaPermit ==
  \A i \in Phil : solution = "sema" /\ value[s(i)] > 0 =>
    /\ value[s(i)] = 1
    /\ state[i] = "EATING"
    /\ pc[i] \in {<<"tested">>, <<"down", s(i), Put(mutex_sema)>>}

CondPermit ==
  \A i \in Phil : solution = "condvar" /\ value[cv_sem(i)] > 0 => state[i] = "EATING"

WokenEats ==
  \A i \in Phil \ asleep :
    pc[i][1] = "blocked" /\ pc[i][2] \in {s(i), cv_sem(i)} => state[i] = "EATING"

SignalEats == \A i \in Phil : pc[i][1] = "signal" => state[pc[i][2]] = "EATING"

EatInv == Apart /\ SemaPermit /\ CondPermit /\ WokenEats /\ SignalEats

PhiInv == SemInv /\ TokenInv /\ PlaceInv /\ EatInv

-----------------------------------------------------------------------------
(* The semaphores.  up() adds a permit when nobody waits, and otherwise    *)
(* wakes one thread that waits for it and takes no other out of the queue. *)
LEMMA SameQueues ==
  ASSUME SemInv, NEW t \in Phil, t \notin asleep,
         \A i \in Phil \ {t} : pc'[i] = pc[i], UNCHANGED <<wait_queue, asleep>>
  PROVE  Queued' /\ Sleeping'
<1>1. \A i \in asleep : pc'[i] = pc[i]
  BY DEF SemInv, SemType
<1>2. Queued'
  <2> SUFFICES ASSUME NEW x \in AllSem, NEW k \in 1..Len(wait_queue[x])
               PROVE  /\ wait_queue[x][k] \in asleep
                      /\ pc'[wait_queue[x][k]][1] = "blocked"
                      /\ pc'[wait_queue[x][k]][2] = x
                      /\ \A l \in 1..Len(wait_queue[x]) :
                           wait_queue[x][k] = wait_queue[x][l] => k = l
    BY DEF Queued
  <2> QED
    BY <1>1 DEF SemInv, Queued
<1>3. Sleeping'
  BY <1>1 DEF SemInv, Sleeping
<1> QED
  BY <1>2, <1>3

LEMMA UpEffect ==
  ASSUME SemInv, NEW x \in AllSem, up(x)
  PROVE  \/ /\ wait_queue[x] = <<>>
            /\ value' = [value EXCEPT ![x] = @ + 1]
            /\ UNCHANGED <<wait_queue, asleep, wakeup_flags>>
         \/ \E h \in asleep :
              /\ pc[h][1] = "blocked" /\ pc[h][2] = x
              /\ Len(wait_queue[x]) \in Nat \ {0} /\ wait_queue[x][1] = h
              /\ wait_queue' = [wait_queue EXCEPT ![x] = Tail(@)]
              /\ asleep' = asleep \ {h}
              /\ wakeup_flags' = [wakeup_flags EXCEPT ![h] = "WT_KSEM"]
              /\ value' = value
<1> DEFINE q == wait_queue[x]
<1>1. q \in Seq(Phil)
  BY DEF SemInv, SemType, Queued, Sleeping, Woken
<1>2. CASE q = <<>>
  BY <1>2 DEF up
<1>3. CASE q # <<>>
  <2>1. Len(q) \in Nat \ {0} /\ Head(q) = q[1]
    BY <1>1, <1>3
  <2>2. q[1] \in asleep /\ pc[q[1]][1] = "blocked" /\ pc[q[1]][2] = x
    BY <2>1 DEF SemInv, SemType, Queued, Sleeping, Woken
  <2> QED
    BY <1>3, <2>1, <2>2 DEF up
<1> QED
  BY <1>2, <1>3

LEMMA UpSem ==
  ASSUME SemInv, NEW t \in Phil, NEW x \in AllSem, up(x),
         pc[t][1] # "blocked", pc'[t][1] # "blocked",
         \A i \in Phil \ {t} : pc'[i] = pc[i]
  PROVE  SemInv'
<1>1. CASE /\ value' = [value EXCEPT ![x] = @ + 1]
           /\ UNCHANGED <<wait_queue, asleep, wakeup_flags>>
  <2>1. value' \in [AllSem -> Nat]
    BY <1>1 DEF SemInv, SemType, Queued, Sleeping, Woken
  <2>2. t \notin asleep
    BY DEF SemInv, Sleeping
  <2>3. Queued' /\ Sleeping'
    BY <1>1, <2>2, SameQueues
  <2>4. Woken'
    BY <1>1, <2>2 DEF SemInv, Woken
  <2> QED
    BY <1>1, <2>1, <2>3, <2>4 DEF SemInv, SemType
<1>2. CASE \E h \in asleep :
              /\ pc[h][1] = "blocked" /\ pc[h][2] = x
              /\ Len(wait_queue[x]) \in Nat \ {0} /\ wait_queue[x][1] = h
              /\ wait_queue' = [wait_queue EXCEPT ![x] = Tail(@)]
              /\ asleep' = asleep \ {h}
              /\ wakeup_flags' = [wakeup_flags EXCEPT ![h] = "WT_KSEM"]
              /\ value' = value
  <2> DEFINE q == wait_queue[x]
  <2>1. PICK h \in asleep :
              /\ pc[h][1] = "blocked" /\ pc[h][2] = x
              /\ Len(q) \in Nat \ {0} /\ q[1] = h
              /\ wait_queue' = [wait_queue EXCEPT ![x] = Tail(@)]
              /\ asleep' = asleep \ {h}
              /\ wakeup_flags' = [wakeup_flags EXCEPT ![h] = "WT_KSEM"]
              /\ value' = value
    BY <1>2
  <2>2. /\ q \in Seq(Phil) /\ q # <<>>
        /\ Tail(q) \in Seq(Phil) /\ Len(Tail(q)) = Len(q) - 1
        /\ \A k \in 1..Len(Tail(q)) : Tail(q)[k] = q[k + 1]
    <3>1. q \in Seq(Phil) /\ q # <<>>
      BY <2>1 DEF SemInv, SemType, Queued, Sleeping, Woken
    <3> QED
      BY <3>1, HeadTailProperties
  <2>3. /\ wait_queue' \in [AllSem -> Seq(Phil)]
        /\ wait_queue'[x] = Tail(q)
        /\ \A y \in AllSem \ {x} : wait_queue'[y] = wait_queue[y]
    BY <2>1, <2>2 DEF SemInv, SemType, Queued, Sleeping, Woken
  <2>4. /\ value' \in [AllSem -> Nat] /\ asleep' \subseteq Phil
        /\ wakeup_flags' \in [Phil -> {"none", "WT_INTERRUPTED", "WT_KSEM"}]
    BY <2>1 DEF SemInv, SemType, Queued, Sleeping, Woken
  <2>5. \A i \in asleep : pc'[i] = pc[i] /\ i \in Phil
    BY DEF SemInv, SemType, Queued, Sleeping, Woken
  <2>6. ASSUME NEW y \in AllSem, NEW k \in 1..Len(wait_queue'[y])
        PROVE  /\ wait_queue'[y][k] \in asleep'
               /\ pc'[wait_queue'[y][k]][1] = "blocked"
               /\ pc'[wait_queue'[y][k]][2] = y
               /\ \A l \in 1..Len(wait_queue'[y]) :
                    wait_queue'[y][k] = wait_queue'[y][l] => k = l
    <3>1. CASE y = x
      <4>1. /\ k + 1 \in 1..Len(q) /\ wait_queue'[y][k] = q[k + 1]
            /\ \A l \in 1..Len(wait_queue'[y]) :
                 l + 1 \in 1..Len(q) /\ wait_queue'[y][l] = q[l + 1] /\ (k + 1 = l + 1 => k = l)
        BY <3>1, <2>1, <2>2, <2>3
      <4>2. 1 \in 1..Len(q) /\ k + 1 # 1
        BY <2>1, <2>2, <2>3, <3>1
      <4>3. q[k + 1] \in asleep /\ pc[q[k + 1]][1] = "blocked" /\ pc[q[k + 1]][2] = x
            /\ \A l \in 1..Len(q) : q[k + 1] = q[l] => k + 1 = l
        BY <4>1 DEF SemInv, SemType, Queued, Sleeping, Woken
      <4>4. q[k + 1] # h
        BY <4>2, <4>3, <2>1
      <4> QED
        BY <4>1, <4>3, <4>4, <2>1, <2>5, <3>1
    <3>2. CASE y # x
      <4>1. wait_queue'[y] = wait_queue[y]
        BY <3>2, <2>3
      <4>2. /\ wait_queue[y][k] \in asleep
            /\ pc[wait_queue[y][k]][1] = "blocked"
            /\ pc[wait_queue[y][k]][2] = y
            /\ \A l \in 1..Len(wait_queue[y]) : wait_queue[y][k] = wait_queue[y][l] => k = l
        BY <4>1 DEF SemInv, SemType, Queued, Sleeping, Woken
      <4> QED
        BY <4>1, <4>2, <2>1, <2>5, <3>2
    <3> QED
      BY <3>1, <3>2
  <2>7. ASSUME NEW u \in asleep'
        PROVE  /\ pc'[u][1] = "blocked"
               /\ \E k \in 1..Len(wait_queue'[pc'[u][2]]) : wait_queue'[pc'[u][2]][k] = u
    <3>1. u \in asleep /\ u # h /\ pc'[u] = pc[u]
      BY <2>1, <2>5
    <3>2. PICK k \in 1..Len(wait_queue[pc[u][2]]) : wait_queue[pc[u][2]][k] = u
      BY <3>1 DEF SemInv, SemType, Queued, Sleeping, Woken
    <3>3. pc[u][1] = "blocked"
      BY <3>1 DEF SemInv, SemType, Queued, Sleeping, Woken
    <3>4. CASE pc[u][2] = x
      <4>1. k \in 1..Len(q) /\ q[k] = u /\ k # 1
        BY <3>1, <3>2, <3>4, <2>1
      <4>2. k - 1 \in 1..Len(Tail(q)) /\ Tail(q)[k - 1] = q[(k - 1) + 1] /\ (k - 1) + 1 = k
        BY <4>1, <2>1, <2>2
      <4>3. pc'[u][2] = x /\ k - 1 \in 1..Len(wait_queue'[x]) /\ wait_queue'[x][k - 1] = u
        BY <4>1, <4>2, <2>3, <3>1, <3>4
      <4> QED
        BY <4>3, <3>1, <3>3
    <3>5. CASE pc[u][2] # x
      BY <3>1, <3>2, <3>3, <3>5, <2>1, <2>3 DEF SemInv, SemType, Queued, Sleeping, Woken
    <3> QED
      BY <3>4, <3>5
  <2>8. ASSUME NEW u \in Phil \ asleep', pc'[u][1] = "blocked"
        PROVE  wakeup_flags'[u] = "WT_KSEM"
    <3>1. u # t /\ pc'[u] = pc[u]
      BY <2>8
    <3>2. CASE u = h
      BY <3>2, <2>1 DEF SemInv, SemType, Queued, Sleeping, Woken
    <3>3. CASE u # h
      BY <3>1, <3>3, <2>1, <2>8 DEF SemInv, SemType, Queued, Sleeping, Woken
    <3> QED
      BY <3>2, <3>3
  <2> QED
    BY <2>3, <2>4, <2>6, <2>7, <2>8 DEF SemInv, SemType, Queued, Sleeping, Woken
<1> QED
  BY <1>1, <1>2, UpEffect

(* A step that leaves the semaphores alone, or takes a permit.             *)
LEMMA QuietSem ==
  ASSUME SemInv, NEW t \in Phil, pc[t][1] # "blocked", pc'[t][1] # "blocked",
         \A i \in Phil \ {t} : pc'[i] = pc[i],
         value' \in [AllSem -> Nat], UNCHANGED <<wait_queue, asleep, wakeup_flags>>
  PROVE  SemInv'
<1>1. t \notin asleep
  BY DEF SemInv, Sleeping
<1>2. Queued' /\ Sleeping'
  BY <1>1, SameQueues
<1>3. Woken'
  BY <1>1 DEF SemInv, Woken
<1> QED
  BY <1>2, <1>3 DEF SemInv, SemType

LEMMA SleepSem ==
  ASSUME SemInv, NEW t \in Phil, NEW x \in AllSem, down_sleep(t, x),
         pc[t][1] # "blocked", pc'[t][1] = "blocked", pc'[t][2] = x,
         \A i \in Phil \ {t} : pc'[i] = pc[i]
  PROVE  SemInv'
<1> DEFINE q == wait_queue[x]
<1>1. /\ wait_queue' = [wait_queue EXCEPT ![x] = Append(@, t)]
      /\ asleep' = asleep \cup {t}
      /\ wakeup_flags' = [wakeup_flags EXCEPT ![t] = "WT_INTERRUPTED"]
      /\ value' = value
  BY DEF down_sleep
<1>2. q \in Seq(Phil) /\ Len(q) \in Nat
  BY DEF SemInv, SemType, Queued, Sleeping, Woken
<1>3. /\ Append(q, t) \in Seq(Phil) /\ Len(Append(q, t)) = Len(q) + 1
      /\ \A k \in 1..Len(q) : Append(q, t)[k] = q[k]
      /\ Append(q, t)[Len(q) + 1] = t
  BY <1>2, AppendProperties
<1>4. /\ wait_queue' \in [AllSem -> Seq(Phil)]
      /\ wait_queue'[x] = Append(q, t)
      /\ \A y \in AllSem \ {x} : wait_queue'[y] = wait_queue[y]
  BY <1>1, <1>3 DEF SemInv, SemType, Queued, Sleeping, Woken
<1>5. /\ value' \in [AllSem -> Nat] /\ asleep' \subseteq Phil
      /\ wakeup_flags' \in [Phil -> {"none", "WT_INTERRUPTED", "WT_KSEM"}]
  BY <1>1 DEF SemInv, SemType, Queued, Sleeping, Woken
<1>6. t \notin asleep /\ \A i \in asleep : pc'[i] = pc[i] /\ i \in Phil
  BY DEF SemInv, SemType, Queued, Sleeping, Woken
<1>7. ASSUME NEW y \in AllSem, NEW k \in 1..Len(wait_queue'[y])
      PROVE  /\ wait_queue'[y][k] \in asleep'
             /\ pc'[wait_queue'[y][k]][1] = "blocked"
             /\ pc'[wait_queue'[y][k]][2] = y
             /\ \A l \in 1..Len(wait_queue'[y]) :
                  wait_queue'[y][k] = wait_queue'[y][l] => k = l
  <2>1. CASE y # x
    <3>1. wait_queue'[y] = wait_queue[y]
      BY <2>1, <1>4
    <3>2. /\ wait_queue[y][k] \in asleep
          /\ pc[wait_queue[y][k]][1] = "blocked"
          /\ pc[wait_queue[y][k]][2] = y
          /\ \A l \in 1..Len(wait_queue[y]) : wait_queue[y][k] = wait_queue[y][l] => k = l
      BY <3>1 DEF SemInv, SemType, Queued, Sleeping, Woken
    <3> QED
      BY <3>1, <3>2, <1>1, <1>6
  <2>2. CASE y = x
    <3>1. \A l \in 1..Len(wait_queue'[y]) :
            \/ l = Len(q) + 1 /\ wait_queue'[y][l] = t
            \/ l \in 1..Len(q) /\ wait_queue'[y][l] = q[l] /\ q[l] \in asleep
      BY <2>2, <1>2, <1>3, <1>4 DEF SemInv, SemType, Queued, Sleeping, Woken
    <3>2. \A l, m \in 1..Len(q) : q[l] = q[m] => l = m
      BY DEF SemInv, SemType, Queued, Sleeping, Woken
    <3>3. \A l \in 1..Len(q) : pc[q[l]][1] = "blocked" /\ pc[q[l]][2] = x
      BY DEF SemInv, SemType, Queued, Sleeping, Woken
    <3> QED
      BY <3>1, <3>2, <3>3, <2>2, <1>1, <1>6
  <2> QED
    BY <2>1, <2>2
<1>8. ASSUME NEW u \in asleep'
      PROVE  /\ pc'[u][1] = "blocked"
             /\ \E k \in 1..Len(wait_queue'[pc'[u][2]]) : wait_queue'[pc'[u][2]][k] = u
  <2>1. CASE u = t
    BY <2>1, <1>2, <1>3, <1>4
  <2>2. CASE u # t
    <3>1. u \in asleep /\ pc'[u] = pc[u]
      BY <2>2, <1>1, <1>6
    <3>2. PICK k \in 1..Len(wait_queue[pc[u][2]]) : wait_queue[pc[u][2]][k] = u
      BY <3>1 DEF SemInv, SemType, Queued, Sleeping, Woken
    <3>3. pc[u][1] = "blocked"
      BY <3>1 DEF SemInv, SemType, Queued, Sleeping, Woken
    <3>4. CASE pc[u][2] = x
      <4>1. k \in 1..Len(Append(q, t)) /\ Append(q, t)[k] = u
        BY <3>2, <3>4, <1>2, <1>3
      <4>2. pc'[u][2] = x /\ wait_queue'[x] = Append(q, t)
        BY <1>4, <3>1, <3>4
      <4> HIDE DEF q
      <4> QED
        BY <4>1, <4>2, <3>1, <3>3
    <3>5. CASE pc[u][2] # x
      BY <3>1, <3>2, <3>3, <3>5, <1>1, <1>4 DEF SemInv, SemType, Queued, Sleeping, Woken
    <3> QED
      BY <3>4, <3>5
  <2> QED
    BY <2>1, <2>2
<1>9. ASSUME NEW u \in Phil \ asleep', pc'[u][1] = "blocked"
      PROVE  wakeup_flags'[u] = "WT_KSEM"
  <2>1. u \in Phil \ asleep /\ u # t /\ pc'[u] = pc[u]
    BY <1>9, <1>1
  <2>2. wakeup_flags'[u] = wakeup_flags[u]
    BY <2>1, <1>1 DEF SemInv, SemType, Queued, Sleeping, Woken
  <2> QED
    BY <1>9, <2>1, <2>2 DEF SemInv, SemType, Queued, Sleeping, Woken
<1> QED
  BY <1>4, <1>5, <1>7, <1>8, <1>9 DEF SemInv, SemType, Queued, Sleeping, Woken

(* Who goes on behind its schedule() has been taken out of the queue.      *)
LEMMA ResumeSem ==
  ASSUME SemInv, NEW t \in Phil, NEW x \in AllSem, down_resume(t, x),
         pc'[t][1] # "blocked",
         \A i \in Phil \ {t} : pc'[i] = pc[i]
  PROVE  /\ SemInv'
         /\ t \notin asleep
         /\ UNCHANGED <<value, wait_queue, asleep>>
<1>1. wait_queue[x] \in Seq(Phil) /\ t \notin asleep
  BY DEF SemInv, SemType, Queued, Sleeping, Woken, down_resume
<1>2. \A k \in 1..Len(wait_queue[x]) : wait_queue[x][k] # t
  BY <1>1 DEF SemInv, SemType, Queued, Sleeping, Woken
<1>3. RemoveFirst(wait_queue[x], t) = wait_queue[x]
  BY <1>2 DEF RemoveFirst
<1>4. wait_queue' = wait_queue
  <2>1. wait_queue' = [wait_queue EXCEPT ![x] = RemoveFirst(wait_queue[x], t)]
    BY DEF down_resume
  <2> QED
    BY <1>3, <2>1 DEF SemInv, SemType, Queued, Sleeping, Woken
<1>5. /\ value' = value /\ asleep' = asleep
      /\ wakeup_flags' = [wakeup_flags EXCEPT ![t] = "none"]
  BY DEF down_resume
<1>6. wakeup_flags' \in [Phil -> {"none", "WT_INTERRUPTED", "WT_KSEM"}]
  BY <1>5 DEF SemInv, SemType, Queued, Sleeping, Woken
<1>7. Queued' /\ Sleeping'
  BY <1>1, <1>4, <1>5, SameQueues
<1>8. ASSUME NEW u \in Phil \ asleep', pc'[u][1] = "blocked"
      PROVE  wakeup_flags'[u] = "WT_KSEM"
  <2>1. u \in Phil \ asleep /\ u # t /\ pc'[u] = pc[u]
    BY <1>5, <1>8
  <2>2. wakeup_flags'[u] = wakeup_flags[u]
    BY <2>1, <1>5 DEF SemInv, SemType, Queued, Sleeping, Woken
  <2> QED
    BY <1>8, <2>1, <2>2 DEF SemInv, SemType, Queued, Sleeping, Woken
<1>9. SemType' /\ Woken'
  BY <1>4, <1>5, <1>6, <1>8 DEF SemInv, SemType, Woken
<1> QED
  BY <1>1, <1>4, <1>5, <1>7, <1>9 DEF SemInv
-----------------------------------------------------------------------------
(* The right to be inside.  A step that hands out no permit of Locks and   *)
(* lets nobody in keeps the count.                                         *)
LEMMA QuietToken ==
  ASSUME TokenInv, solution' = solution,
         \A x \in Locks : value'[x] = value[x],
         \A i \in Phil : Holder(i)' => Holder(i)
  PROVE  TokenInv'
<1>1. Locks' = Locks
  BY DEF Locks
<1> QED
  BY <1>1 DEF TokenInv

(* The same for a step of thread t that leaves the sleepers alone.         *)
LEMMA QuietStep ==
  ASSUME SemInv, TokenInv, NEW t \in Phil, solution' = solution, asleep' = asleep,
         \A x \in Locks : value'[x] = value[x],
         \A i \in Phil \ {t} : pc'[i] = pc[i],
         pc'[t][1] \in ActiveLabels => Holder(t),
         pc'[t][1] # "blocked"
  PROVE  TokenInv'
<1>1. \A i \in Phil : Holder(i)' => Holder(i)
  BY DEF Holder, Locks
<1> QED
  BY <1>1, QuietToken

LEMMA LocksAreSem == Locks \subseteq AllSem
  BY DEF Locks, AllSem, SemaSem, PhiMonSem

(* up() by the thread inside, on its way out: the right passes to the      *)
(* permit or to the thread that is woken.                                  *)
LEMMA UpPasses ==
  ASSUME SemInv, TokenInv, NEW t \in Phil, NEW x \in Locks, up(x),
         Holder(t), solution' = solution,
         pc'[t][1] \notin ActiveLabels, pc'[t][1] # "blocked",
         \A i \in Phil \ {t} : pc'[i] = pc[i]
  PROVE  TokenInv'
<1>1. x \in AllSem /\ Locks' = Locks /\ \A y \in Locks : value[y] \in Nat
  BY LocksAreSem DEF Locks, SemInv, SemType
<1>2. \A y \in Locks : value[y] = 0
  BY <1>1 DEF TokenInv
<1>3. \A i \in Phil \ {t} : ~Holder(i)
  BY DEF TokenInv
<1>4. ~Holder(t)'
  BY DEF Holder
<1>5. CASE /\ value' = [value EXCEPT ![x] = @ + 1]
           /\ UNCHANGED <<wait_queue, asleep, wakeup_flags>>
  <2>1. \A i \in Phil : ~Holder(i)'
    BY <1>1, <1>3, <1>4, <1>5 DEF Holder
  <2>2. \A y \in Locks : value'[y] = IF y = x THEN 1 ELSE 0
    BY <1>1, <1>2, <1>5, LocksAreSem DEF SemInv, SemType
  <2> QED
    BY <1>1, <2>1, <2>2 DEF TokenInv
<1>6. CASE \E h \in asleep : asleep' = asleep \ {h} /\ value' = value
  <2>1. PICK h \in asleep : asleep' = asleep \ {h} /\ value' = value
    BY <1>6
  <2>2. \A i \in Phil : Holder(i)' => i = h
    BY <1>1, <1>3, <1>4, <2>1 DEF Holder
  <2> QED
    BY <1>1, <1>2, <2>1, <2>2 DEF TokenInv
<1> QED
  BY <1>1, <1>5, <1>6, UpEffect

(* up() of a semaphore that nobody needs to come in, by the thread inside. *)
LEMMA UpInside ==
  ASSUME SemInv, TokenInv, NEW t \in Phil, NEW x \in AllSem \ Locks, up(x),
         Holder(t), solution' = solution,
         pc'[t][1] # "blocked",
         \A i \in Phil \ {t} : pc'[i] = pc[i]
  PROVE  TokenInv'
<1>1. Locks' = Locks
  BY DEF Locks
<1>2. CASE /\ value' = [value EXCEPT ![x] = @ + 1]
           /\ UNCHANGED <<wait_queue, asleep, wakeup_flags>>
  <2>1. \A y \in Locks : value'[y] = value[y]
    BY <1>2, LocksAreSem DEF SemInv, SemType
  <2> QED
    BY <1>2, <2>1, QuietStep
<1>3. CASE \E h \in asleep : pc[h][1] = "blocked" /\ pc[h][2] = x
                             /\ asleep' = asleep \ {h} /\ value' = value
  <2>1. PICK h \in asleep : pc[h][1] = "blocked" /\ pc[h][2] = x
                            /\ asleep' = asleep \ {h} /\ value' = value
    BY <1>3
  <2>2. \A i \in Phil \ {t} : Holder(i)' => Holder(i)
    BY <1>1, <2>1 DEF Holder, ActiveLabels, Inside
  <2> QED
    BY <2>1, <2>2, QuietToken
<1> QED
  BY <1>2, <1>3, UpEffect

(* down() of a semaphore of the lock, behind which thread t is inside.     *)
LEMMA DownEnters ==
  ASSUME SemInv, TokenInv, NEW t \in Phil, NEW x \in Locks, NEW k,
         Down(t, x, k), pc = [i \in Phil |-> pc[i]],
         k[1] \in ActiveLabels, solution' = solution
  PROVE  SemInv' /\ TokenInv'
<1>1. x \in AllSem /\ Locks' = Locks /\ \A y \in Locks : value[y] \in Nat
  BY LocksAreSem DEF Locks, SemInv, SemType
<1>2. "down" \notin ActiveLabels /\ "blocked" \notin ActiveLabels
  BY DEF ActiveLabels, Inside
<1>3. CASE Goto(t, <<"down", x, k>>, k) /\ down_take(x)
  <2>1. /\ pc[t][1] = "down" /\ pc'[t] = k /\ \A i \in Phil \ {t} : pc'[i] = pc[i]
        /\ value[x] > 0 /\ value' = [value EXCEPT ![x] = @ - 1]
        /\ UNCHANGED <<wait_queue, asleep, wakeup_flags>>
    BY <1>3 DEF Goto, down_take
  <2>2. value' \in [AllSem -> Nat] /\ \A y \in Locks : value'[y] = 0
    BY <1>1, <2>1, LocksAreSem DEF SemInv, SemType, TokenInv
  <2>3. SemInv'
    BY <1>2, <2>1, <2>2, QuietSem
  <2>4. \A i \in Phil \ {t} : ~Holder(i)'
    BY <1>1, <2>1 DEF TokenInv, Holder
  <2> QED
    BY <1>1, <2>2, <2>3, <2>4 DEF TokenInv
<1>4. CASE Goto(t, <<"down", x, k>>, <<"blocked", x, k>>) /\ down_sleep(t, x)
  <2>1. /\ pc[t][1] = "down" /\ pc'[t][1] = "blocked" /\ pc'[t][2] = x
        /\ \A i \in Phil \ {t} : pc'[i] = pc[i]
        /\ down_sleep(t, x)
    BY <1>4 DEF Goto
  <2>2. SemInv'
    BY <1>1, <2>1, SleepSem
  <2>3. asleep' = asleep \cup {t} /\ value' = value
    BY <2>1 DEF down_sleep
  <2>4. \A i \in Phil : Holder(i)' => Holder(i)
    BY <1>1, <1>2, <2>1, <2>3 DEF Holder
  <2> QED
    BY <2>2, <2>3, <2>4, QuietToken
<1>5. CASE Goto(t, <<"blocked", x, k>>, k) /\ down_resume(t, x)
  <2>1. /\ pc[t][1] = "blocked" /\ pc[t][2] = x /\ pc'[t][1] = k[1]
        /\ \A i \in Phil \ {t} : pc'[i] = pc[i]
        /\ down_resume(t, x)
    BY <1>5 DEF Goto
  <2>2. SemInv' /\ t \notin asleep /\ UNCHANGED <<value, wait_queue, asleep>>
    BY <1>1, <1>2, <2>1, ResumeSem
  <2>3. Holder(t)
    BY <2>1, <2>2 DEF Holder
  <2> QED
    BY <1>2, <2>1, <2>2, <2>3, QuietStep
<1> QED
  BY <1>3, <1>4, <1>5 DEF Down

-----------------------------------------------------------------------------
(* The table.                                                              *)
LEMMA Neighbours ==
  ASSUME NEW i \in Phil
  PROVE  /\ LEFT(i) \in Phil /\ RIGHT(i) \in Phil
         /\ LEFT(i) # i /\ RIGHT(i) # i
         /\ RIGHT(LEFT(i)) = i /\ LEFT(RIGHT(i)) = i
<1>1. \A j \in Phil : LEFT(j) = IF j = 0 THEN N - 1 ELSE j - 1
  BY PhiAssumption, SMT DEF Phil, LEFT
<1>2. \A j \in Phil : RIGHT(j) = IF j = N - 1 THEN 0 ELSE j + 1
  BY PhiAssumption, SMT DEF Phil, RIGHT
<1> QED
  BY <1>1, <1>2, PhiAssumption, SMT DEF Phil

LEMMA SemNames ==
  /\ mutex_sema \in AllSem /\ mutex \in AllSem /\ next \in AllSem
  /\ \A i \in Phil : s(i) \in AllSem /\ cv_sem(i) \in AllSem
  /\ \A i \in Phil : s(i) \notin {mutex_sema, mutex, next} /\ cv_sem(i) \notin {mutex_sema, mutex, next}
  /\ \A i, j \in Phil : s(i) # cv_sem(j) /\ (s(i) = s(j) => i = j) /\ (cv_sem(i) = cv_sem(j) => i = j)
  BY DEF AllSem, SemaSem, PhiMonSem, mutex_sema, mutex, next, s, cv_sem

(* A step of philosopher i that moves nobody else, and changes the state   *)
(* of another only to let it eat.                                          *)
LEMMA PlaceStep ==
  ASSUME PlaceInv, NEW i \in Phil, NEW to, pc' = [pc EXCEPT ![i] = to],
         solution' = solution,
         state' \in [Phil -> {"THINKING", "HUNGRY", "EATING"}],
         count' \in [Phil -> Int], next_count' \in Int,
         \A j \in Phil \ {i} : \/ state'[j] = state[j]
                               \/ state[j] = "HUNGRY" /\ state'[j] = "EATING",
         Place(i)'
  PROVE  PlaceInv'
<1>1. ASSUME NEW j \in Phil \ {i}
      PROVE  Place(j)'
  <2>1. pc'[j] = pc[j] /\ Lock' = Lock /\ Place(j)
    BY DEF PlaceInv, Lock
  <2>2. /\ Thinking(j) => Thinking(j)'
        /\ Asking(j) => Asking(j)'
        /\ Eating(j) => Eating(j)'
    BY <2>1 DEF Thinking, Asking, Eating, Signalling
  <2> QED
    BY <2>1, <2>2 DEF Place
<1>2. pc' = [j \in Phil |-> pc'[j]]
  BY DEF PlaceInv
<1> QED
  BY <1>1, <1>2 DEF PlaceInv

(* A step of philosopher i that changes nobody's state.                    *)
LEMMA EatStep ==
  ASSUME EatInv, NEW i \in Phil, NEW to, pc' = [pc EXCEPT ![i] = to],
         pc = [j \in Phil |-> pc[j]],
         solution' = solution, state' = state,
         \A j \in Phil : solution = "sema" /\ value'[s(j)] > 0 =>
           value'[s(j)] = value[s(j)] /\ (j = i => to \in {<<"tested">>, <<"down", s(i), Put(mutex_sema)>>}),
         \A j \in Phil : solution = "condvar" /\ value'[cv_sem(j)] > 0 => state[j] = "EATING",
         \A j \in asleep \ asleep' : pc[j][2] \in {s(j), cv_sem(j)} => state[j] = "EATING",
         i \in asleep' \/ to[1] # "blocked",
         to[1] = "signal" => state[to[2]] = "EATING"
  PROVE  EatInv'
<1>1. pc'[i] = to /\ \A j \in Phil \ {i} : pc'[j] = pc[j]
  OBVIOUS
<1>2. SemaPermit'
  BY <1>1 DEF EatInv, SemaPermit
<1>3. CondPermit'
  BY DEF CondPermit
<1>4. WokenEats'
  <2> SUFFICES ASSUME NEW j \in Phil \ asleep', pc'[j][1] = "blocked",
                      pc'[j][2] \in {s(j), cv_sem(j)}
               PROVE  state[j] = "EATING"
    BY DEF WokenEats
  <2>1. j # i /\ pc'[j] = pc[j]
    BY <1>1
  <2> QED
    BY <2>1 DEF EatInv, WokenEats
<1>5. SignalEats'
  BY <1>1 DEF EatInv, SignalEats
<1> QED
  BY <1>2, <1>3, <1>4, <1>5 DEF EatInv, Apart

(* Handing on the right to be inside does not concern who eats.            *)
LEMMA EatUp ==
  ASSUME SemInv, EatInv, NEW i \in Phil, NEW from, NEW to, Goto(i, from, to),
         pc = [j \in Phil |-> pc[j]],
         NEW x \in {mutex_sema, mutex, next}, up(x),
         solution' = solution, state' = state,
         solution = "sema" /\ value[s(i)] > 0 => to = <<"down", s(i), Put(mutex_sema)>>,
         to[1] \notin {"blocked", "signal"}
  PROVE  EatInv'
<1>1. x \in AllSem /\ pc' = [pc EXCEPT ![i] = to]
  BY SemNames DEF Goto
<1>2. \A j \in Phil : value'[s(j)] = value[s(j)] /\ value'[cv_sem(j)] = value[cv_sem(j)]
  <2>1. \/ value' = [value EXCEPT ![x] = @ + 1]
        \/ value' = value
    BY <1>1, UpEffect
  <2> QED
    BY <2>1, SemNames DEF SemInv, SemType
<1>3. \A j \in asleep \ asleep' : pc[j][2] = x
  BY <1>1, UpEffect
<1>4. \A j \in asleep \ asleep' : pc[j][2] \notin {s(j), cv_sem(j)}
  BY <1>3, SemNames DEF SemInv, SemType
<1> QED
  BY <1>1, <1>2, <1>4, EatStep DEF EatInv, SemaPermit, CondPermit

LEMMA EatDown ==
  ASSUME SemInv, EatInv, NEW i \in Phil, NEW x \in AllSem, NEW k, Down(i, x, k),
         pc = [j \in Phil |-> pc[j]],
         \A j \in Phil : x # s(j),
         solution' = solution, state' = state,
         solution = "sema" => value[s(i)] <= 0,
         k[1] \notin {"blocked", "signal"}
  PROVE  EatInv'
<1>1. PICK to \in {k, <<"blocked", x, k>>} :
        pc' = [pc EXCEPT ![i] = to] /\ (i \in asleep' \/ to[1] # "blocked") /\ to[1] # "signal"
  <2>1. CASE Goto(i, <<"down", x, k>>, k) /\ down_take(x)
    BY <2>1 DEF Goto
  <2>2. CASE Goto(i, <<"down", x, k>>, <<"blocked", x, k>>) /\ down_sleep(i, x)
    BY <2>2 DEF Goto, down_sleep
  <2>3. CASE Goto(i, <<"blocked", x, k>>, k) /\ down_resume(i, x)
    BY <2>3 DEF Goto
  <2> QED
    BY <2>1, <2>2, <2>3 DEF Down
<1>2. \A j \in Phil : value'[s(j)] = value[s(j)]
                      /\ (value'[cv_sem(j)] > 0 => value[cv_sem(j)] > 0)
  <2>1. \/ value' = [value EXCEPT ![x] = @ - 1] /\ value[x] > 0
        \/ value' = value
    BY DEF Down, down_take, down_sleep, down_resume
  <2>2. value' = [value EXCEPT ![x] = @ - 1] =>
          \A y \in AllSem : value'[y] = IF y = x THEN value[y] - 1 ELSE value[y]
    BY DEF SemInv, SemType
  <2> QED
    BY <2>1, <2>2, SemNames DEF SemInv, SemType
<1>3. asleep \ asleep' = {}
  BY DEF Down, down_take, down_sleep, down_resume
<1>4. \A j \in Phil : value[s(j)] \in Int
  BY SemNames DEF SemInv, SemType
<1>5. \A j \in Phil : solution = "condvar" /\ value'[cv_sem(j)] > 0 => state[j] = "EATING"
  BY <1>2 DEF EatInv, CondPermit
<1>6. \A j \in Phil : solution = "sema" /\ value'[s(j)] > 0 =>
           value'[s(j)] = value[s(j)] /\ (j = i => to \in {<<"tested">>, <<"down", s(i), Put(mutex_sema)>>})
  BY <1>2, <1>4
<1> QED
  BY <1>1, <1>3, <1>5, <1>6, EatStep

(* What a place looks like, and what it says about the philosopher's       *)
(* state.                                                                  *)
LEMMA PlaceLabels ==
  ASSUME NEW i \in Phil
  PROVE  /\ Thinking(i) =>
              \/ pc[i][1] \in {"hungry", "testR", "forks_down", "quit", "signal", "signalled"}
              \/ pc[i][1] \in {"down", "blocked"} /\ pc[i][2] = Lock /\ pc[i][3] = <<"hungry">>
              \/ pc[i][1] \in {"down", "blocked"} /\ pc[i][2] = next
         /\ Asking(i) =>
              \/ pc[i][1] \in {"tested", "wait"}
              \/ pc[i][1] \in {"down", "blocked"} /\ pc[i][2] \in {s(i), cv_sem(i)}
         /\ Eating(i) =>
              \/ pc[i][1] \in {"testL", "woken", "forks", "signal", "signalled"}
              \/ pc[i][1] \in {"down", "blocked"} /\ pc[i][2] = Lock /\ pc[i][3] = <<"testL">>
              \/ pc[i][1] \in {"down", "blocked"} /\ pc[i][2] = next
<1>1. ASSUME Thinking(i)
      PROVE  \/ pc[i][1] \in {"hungry", "testR", "forks_down", "quit", "signal", "signalled"}
             \/ pc[i][1] \in {"down", "blocked"} /\ pc[i][2] = Lock /\ pc[i][3] = <<"hungry">>
             \/ pc[i][1] \in {"down", "blocked"} /\ pc[i][2] = next
  BY <1>1 DEF Thinking, Signalling, Take
<1>2. ASSUME Asking(i)
      PROVE  \/ pc[i][1] \in {"tested", "wait"}
             \/ pc[i][1] \in {"down", "blocked"} /\ pc[i][2] \in {s(i), cv_sem(i)}
  BY <1>2 DEF Asking
<1>3. ASSUME Eating(i)
      PROVE  \/ pc[i][1] \in {"testL", "woken", "forks", "signal", "signalled"}
             \/ pc[i][1] \in {"down", "blocked"} /\ pc[i][2] = Lock /\ pc[i][3] = <<"testL">>
             \/ pc[i][1] \in {"down", "blocked"} /\ pc[i][2] = next
  BY <1>3 DEF Eating, Signalling, Put
<1> QED
  BY <1>1, <1>2, <1>3

LEMMA WhereState ==
  ASSUME PlaceInv, NEW i \in Phil
  PROVE  /\ pc[i] \in {Take(Lock), <<"blocked", Lock, <<"hungry">>>>} => state[i] = "THINKING"
         /\ pc[i][1] \in {"hungry", "testR", "forks_down", "quit"} => state[i] = "THINKING"
         /\ pc[i][1] \in {"tested", "wait"} => state[i] \in {"HUNGRY", "EATING"}
         /\ pc[i] \in {Put(Lock), <<"blocked", Lock, <<"testL">>>>} => state[i] = "EATING"
         /\ pc[i][1] \in {"testL", "woken", "forks"} => state[i] = "EATING"
         /\ pc[i][1] \in {"down", "blocked"} /\ pc[i][2] \in {s(i), cv_sem(i)} =>
              Asking(i) /\ state[i] \in {"HUNGRY", "EATING"}
         /\ pc[i][1] \in {"down", "blocked"} =>
              pc[i][2] \in {mutex_sema, mutex, next, s(i), cv_sem(i)}
<1>1. Place(i)
  BY DEF PlaceInv
<1>2. Lock \in {mutex_sema, mutex} /\ Lock # next
  BY DEF Lock, mutex_sema, mutex, next
<1>3. Lock \notin {s(i), cv_sem(i)} /\ next \notin {s(i), cv_sem(i)}
  BY <1>2, SemNames
<1>4. CASE Thinking(i) /\ state[i] = "THINKING"
  <2>1. pc[i] \notin {Put(Lock), <<"blocked", Lock, <<"testL">>>>}
    BY <1>2, <1>4, PlaceLabels DEF Put
  <2> QED
    BY <1>2, <1>3, <1>4, <2>1, PlaceLabels
<1>5. CASE Asking(i) /\ state[i] \in {"HUNGRY", "EATING"}
  <2>1. /\ pc[i] \notin {Put(Lock), <<"blocked", Lock, <<"testL">>>>}
        /\ pc[i] \notin {Take(Lock), <<"blocked", Lock, <<"hungry">>>>}
    BY <1>3, <1>5, PlaceLabels DEF Put, Take
  <2> QED
    BY <1>2, <1>3, <1>5, <2>1, PlaceLabels
<1>6. CASE Eating(i) /\ state[i] = "EATING"
  <2>1. pc[i] \notin {Take(Lock), <<"blocked", Lock, <<"hungry">>>>}
    BY <1>2, <1>6, PlaceLabels DEF Take
  <2> QED
    BY <1>2, <1>3, <1>6, <2>1, PlaceLabels
<1> QED
  BY <1>1, <1>4, <1>5, <1>6 DEF Place

-----------------------------------------------------------------------------
(* The steps of the philosophers.  down() of the mutex of either solution. *)
LEMMA DownLock ==
  ASSUME PhiInv, NEW i \in Phil, NEW k \in {<<"hungry">>, <<"testL">>},
         Down(i, Lock, k), UNCHANGED <<state, solution>>
  PROVE  PhiInv'
<1>1. Lock \in Locks /\ Lock \in {mutex_sema, mutex} /\ Lock' = Lock
  BY DEF Lock, Locks, PhiMonSem, mutex
<1>2. pc = [j \in Phil |-> pc[j]] /\ k[1] \in ActiveLabels
      /\ k[1] \notin {"blocked", "signal"}
  BY DEF PhiInv, PlaceInv, ActiveLabels, Inside
<1>3. SemInv' /\ TokenInv'
  BY <1>1, <1>2, DownEnters DEF PhiInv
<1>4. PICK to \in {k, <<"blocked", Lock, k>>} :
        /\ pc' = [pc EXCEPT ![i] = to]
        /\ pc[i] \in {<<"down", Lock, k>>, <<"blocked", Lock, k>>}
  BY DEF Down, Goto
<1>5. PlaceInv'
  <2>1. CASE k = <<"hungry">>
    <3>1. state[i] = "THINKING"
      BY <1>4, <2>1, WhereState DEF PhiInv, Take
    <3>2. Place(i)'
      BY <1>1, <1>2, <1>4, <2>1, <3>1 DEF Place, Thinking, PhiInv, PlaceInv
    <3> QED
      BY <1>4, <3>2, PlaceStep DEF PhiInv, PlaceInv, Down
  <2>2. CASE k = <<"testL">>
    <3>1. state[i] = "EATING"
      BY <1>4, <2>2, WhereState DEF PhiInv, Put
    <3>2. Place(i)'
      BY <1>1, <1>2, <1>4, <2>2, <3>1 DEF Place, Eating, PhiInv, PlaceInv
    <3> QED
      BY <1>4, <3>2, PlaceStep DEF PhiInv, PlaceInv, Down
  <2> QED
    BY <2>1, <2>2
<1>6. EatInv'
  <2>1. \A j \in Phil : Lock # s(j)
    BY <1>1, SemNames
  <2>2. solution = "sema" => value[s(i)] <= 0
    <3>1. pc[i] # <<"tested">> /\ pc[i] # <<"down", s(i), Put(mutex_sema)>>
      BY <1>4, <2>1
    <3>2. value[s(i)] \in Nat
      BY SemNames DEF PhiInv, SemInv, SemType
    <3> QED
      BY <3>1, <3>2 DEF PhiInv, EatInv, SemaPermit
  <2>3. Lock \in AllSem
    BY <1>1, SemNames
  <2> QED
    BY <1>2, <2>1, <2>2, <2>3, EatDown DEF PhiInv
<1> QED
  BY <1>3, <1>5, <1>6 DEF PhiInv

(* A philosopher that is not about to take the permit of its semaphore has *)
(* none.                                                                   *)
LEMMA NoPermit ==
  ASSUME PhiInv, NEW i \in Phil, solution = "sema",
         pc[i][1] # "tested",
         pc[i][1] = "down" => pc[i][2] # s(i)
  PROVE  value[s(i)] = 0
<1>1. value[s(i)] \in Nat
  BY SemNames DEF PhiInv, SemInv, SemType
<1> QED
  BY <1>1 DEF PhiInv, EatInv, SemaPermit

(* A step that leaves the semaphores alone keeps what is said of them.     *)
LEMMA QuietSems ==
  ASSUME PhiInv, NEW i \in Phil, NEW to, pc' = [pc EXCEPT ![i] = to],
         UNCHANGED <<value, wait_queue, asleep, wakeup_flags, solution>>,
         pc[i][1] \in ActiveLabels, to[1] # "blocked"
  PROVE  SemInv' /\ TokenInv'
<1>1. /\ pc'[i] = to /\ \A j \in Phil \ {i} : pc'[j] = pc[j]
      /\ pc[i][1] # "blocked"
      /\ Holder(i)
  BY DEF PhiInv, PlaceInv, ActiveLabels, Inside, Holder
<1>2. SemInv'
  BY <1>1, QuietSem DEF PhiInv, SemInv, SemType
<1>3. TokenInv'
  BY <1>1, QuietStep DEF PhiInv
<1> QED
  BY <1>2, <1>3

LEMMA TestApart ==
  ASSUME NEW j \in Phil, NEW st,
         \A y \in Phil : st[y] = "EATING" => st[LEFT(y)] # "EATING",
         \/ /\ MayEat(j, st)
            /\ \A y \in Phil \ {j} : state'[y] = st[y]
         \/ state' = st
  PROVE  Apart'
<1>1. CASE MayEat(j, st) /\ \A y \in Phil \ {j} : state'[y] = st[y]
  <2>1. SUFFICES ASSUME NEW y \in Phil, state'[y] = "EATING"
                 PROVE  state'[LEFT(y)] # "EATING"
    BY DEF Apart
  <2>2. CASE y = j
    BY <1>1, <2>2, Neighbours DEF MayEat
  <2>3. CASE LEFT(y) = j
    <3>1. y = RIGHT(j) /\ y # j
      BY <2>3, Neighbours
    <3> QED
      BY <1>1, <2>1, <3>1 DEF MayEat
  <2>4. CASE y # j /\ LEFT(y) # j
    BY <1>1, <2>1, <2>4, Neighbours
  <2> QED
    BY <2>2, <2>3, <2>4
<1>2. CASE state' = st
  BY <1>2 DEF Apart
<1> QED
  BY <1>1, <1>2

(* What a test, phi_test_sema or phi_test_condvar, does to the states when *)
(* philosopher i has set its own to v first, which makes them st.          *)
LEMMA TestStates ==
  ASSUME PhiInv, NEW i \in Phil, NEW j \in Phil, NEW v \in {"THINKING", "HUNGRY"},
         NEW st \in [Phil -> {"THINKING", "HUNGRY", "EATING"}],
         st[i] = v, \A y \in Phil \ {i} : st[y] = state[y],
         state' \in [Phil -> {"THINKING", "HUNGRY", "EATING"}],
         \/ /\ MayEat(j, st)
            /\ state'[j] = "EATING"
            /\ \A y \in Phil \ {j} : state'[y] = st[y]
         \/ state' = st,
         j = i \/ v = "THINKING"
  PROVE  /\ Apart'
         /\ \A y \in Phil \ {i} : \/ state'[y] = state[y]
                                  \/ y = j /\ state[y] = "HUNGRY" /\ state'[y] = "EATING"
         /\ state'[i] \in {v, "EATING"}
         /\ v = "THINKING" => state'[i] = v
<1>1. \A y \in Phil : st[y] = "EATING" => st[LEFT(y)] # "EATING"
  <2>1. \A y \in Phil : st[y] = "EATING" => state[y] = "EATING"
    OBVIOUS
  <2> QED
    BY <2>1, Neighbours DEF PhiInv, EatInv, Apart
<1>2. Apart'
  BY <1>1, TestApart
<1>3. MayEat(j, st) => st[j] = "HUNGRY"
  BY DEF MayEat
<1> QED
  BY <1>2, <1>3

(* phi_test_sema.                                                          *)
LEMMA TestSema ==
  ASSUME PhiInv, solution = "sema", solution' = solution,
         NEW i \in Phil, NEW j \in Phil, NEW v \in {"THINKING", "HUNGRY"},
         NEW from \in {<<"hungry">>, <<"testL">>, <<"testR">>}, NEW to,
         phi_test_sema(i, j, [state EXCEPT ![i] = v], from, to),
         \/ v = "HUNGRY" /\ to = <<"tested">> /\ i = j
         \/ v = "THINKING" /\ to \in {<<"testR">>, <<"forks_down">>}
  PROVE  PhiInv'
<1> DEFINE st == [state EXCEPT ![i] = v]
<1>1. /\ pc' = [pc EXCEPT ![i] = to] /\ pc'[i] = to /\ \A y \in Phil \ {i} : pc'[y] = pc[y]
      /\ pc[i] = from /\ pc[i][1] \in ActiveLabels \ {"tested"} /\ pc[i][1] # "blocked"
      /\ to[1] \in ActiveLabels /\ to[1] \notin {"blocked", "signal"}
  BY DEF phi_test_sema, Goto, PhiInv, PlaceInv, ActiveLabels, Inside
<1>2. /\ Apart'
      /\ state' \in [Phil -> {"THINKING", "HUNGRY", "EATING"}]
      /\ \A y \in Phil \ {i} : \/ state'[y] = state[y]
                               \/ y = j /\ state[y] = "HUNGRY" /\ state'[y] = "EATING"
      /\ state'[i] \in {v, "EATING"} /\ (v = "THINKING" => state'[i] = v)
  <2>1. /\ st \in [Phil -> {"THINKING", "HUNGRY", "EATING"}]
        /\ st[i] = v /\ \A y \in Phil \ {i} : st[y] = state[y]
    BY DEF PhiInv, PlaceInv
  <2>2. \/ MayEat(j, st) /\ state' = [st EXCEPT ![j] = "EATING"]
        \/ state' = st
    BY DEF phi_test_sema
  <2> HIDE DEF st
  <2>3. /\ state' \in [Phil -> {"THINKING", "HUNGRY", "EATING"}]
        /\ \/ /\ MayEat(j, st)
              /\ state'[j] = "EATING"
              /\ \A y \in Phil \ {j} : state'[y] = st[y]
           \/ state' = st
    BY <2>1, <2>2
  <2>4. j = i \/ v = "THINKING"
    OBVIOUS
  <2> QED
    BY <2>1, <2>3, <2>4, TestStates
<1>3. PlaceInv'
  <2>1. Place(i)'
    BY <1>1, <1>2 DEF Place, Thinking, Asking
  <2> QED
    BY <1>1, <1>2, <2>1, PlaceStep DEF PhiInv, PlaceInv, phi_test_sema
<1>4. Holder(i)
  BY <1>1 DEF Holder
<1>5. \A y \in Phil : pc'[y][1] # "signal"
  <2> SUFFICES ASSUME NEW y \in Phil \ {i}, pc[y][1] = "signal"
               PROVE  FALSE
    BY <1>1
  <2>1. Holder(y)
    BY DEF Holder, ActiveLabels
  <2> QED
    BY <1>4, <2>1 DEF PhiInv, TokenInv
<1>6. CASE MayEat(j, st) /\ state' = [st EXCEPT ![j] = "EATING"] /\ up(s(j))
  <2>1. s(j) \in AllSem \ Locks /\ \A y \in Phil : s(y) = s(j) => y = j
    BY SemNames DEF Locks
  <2>2. SemInv'
    BY <1>1, <1>6, <2>1, UpSem DEF PhiInv
  <2>3. TokenInv'
    BY <1>1, <1>4, <1>6, <2>1, UpInside DEF PhiInv
  <2>4. state'[j] = "EATING" /\ st[j] = "HUNGRY" /\ (j # i => state[j] = "HUNGRY")
        /\ (j = i => to = <<"tested">>)
    BY <1>6 DEF MayEat, PhiInv, PlaceInv
  <2>5. value[s(j)] = 0
    <3>1. CASE j = i
      BY <1>1, <3>1, NoPermit
    <3>2. CASE j # i
      <4>1. value[s(j)] \in Nat
        BY <2>1 DEF PhiInv, SemInv, SemType
      <4> QED
        BY <2>4, <3>2, <4>1 DEF PhiInv, EatInv, SemaPermit
    <3> QED
      BY <3>1, <3>2
  <2>6. wait_queue[s(j)] = <<>> => pc'[j] \in {<<"tested">>, <<"down", s(j), Put(mutex_sema)>>}
    <3>1. CASE j = i
      BY <1>1, <2>4, <3>1
    <3>2. CASE j # i /\ wait_queue[s(j)] = <<>>
      <4>1. Asking(j) /\ pc'[j] = pc[j]
        BY <1>1, <2>4, <3>2 DEF PhiInv, PlaceInv, Place
      <4>2. ASSUME pc[j] = <<"blocked", s(j), Put(mutex_sema)>>
            PROVE  FALSE
        <5>1. pc[j][1] = "blocked" /\ pc[j][2] = s(j)
          BY <4>2
        <5>2. CASE j \in asleep
          <6>1. \E k \in 1..Len(wait_queue[s(j)]) : wait_queue[s(j)][k] = j
            BY <5>1, <5>2 DEF PhiInv, SemInv, Sleeping
          <6> QED
            BY <3>2, <6>1
        <5>3. CASE j \notin asleep
          BY <5>1, <5>3, <2>4, <3>2 DEF PhiInv, EatInv, WokenEats
        <5> QED
          BY <5>2, <5>3
      <4> QED
        BY <4>1, <4>2 DEF Asking
    <3> QED
      BY <3>1, <3>2
  <2>7. \/ value' = [value EXCEPT ![s(j)] = @ + 1] /\ wait_queue[s(j)] = <<>> /\ asleep' = asleep
        \/ value' = value /\ \A u \in asleep \ asleep' : pc[u][2] = s(j)
    BY <1>6, <2>1, UpEffect DEF PhiInv
  <2>8. \A y \in Phil : s(y) \in AllSem /\ value[s(y)] \in Nat
        /\ (value'[s(y)] = value[s(y)] \/ (y = j /\ value'[s(y)] = 1 /\ wait_queue[s(j)] = <<>>))
    <3>1. value \in [AllSem -> Nat] /\ \A y \in Phil : s(y) \in AllSem /\ (s(y) = s(j) <=> y = j)
      BY SemNames DEF PhiInv, SemInv, SemType
    <3>2. CASE value' = value
      BY <3>1, <3>2
    <3>3. CASE value' = [value EXCEPT ![s(j)] = @ + 1] /\ wait_queue[s(j)] = <<>>
      BY <2>5, <3>1, <3>3
    <3> QED
      BY <2>7, <3>2, <3>3
  <2>9. SemaPermit'
    <3> SUFFICES ASSUME NEW y \in Phil, value'[s(y)] > 0
                 PROVE  /\ value'[s(y)] = 1
                        /\ state'[y] = "EATING"
                        /\ pc'[y] \in {<<"tested">>, <<"down", s(y), Put(mutex_sema)>>}
      BY DEF SemaPermit
    <3>1. CASE y = j
      BY <2>4, <2>5, <2>6, <2>8, <3>1
    <3>2. CASE y # j
      <4>1. value[s(y)] > 0
        BY <2>8, <3>2
      <4>2. y # i
        BY <1>1, <4>1, NoPermit
      <4> QED
        BY <1>1, <1>2, <2>8, <3>2, <4>1, <4>2 DEF PhiInv, EatInv, SemaPermit
    <3> QED
      BY <3>1, <3>2
  <2>10. WokenEats'
    <3> SUFFICES ASSUME NEW y \in Phil \ asleep', pc'[y][1] = "blocked",
                        pc'[y][2] \in {s(y), cv_sem(y)}
                 PROVE  state'[y] = "EATING"
      BY DEF WokenEats
    <3>1. y # i /\ pc'[y] = pc[y]
      BY <1>1
    <3>2. CASE y \notin asleep
      BY <1>2, <3>1, <3>2 DEF PhiInv, EatInv, WokenEats
    <3>3. CASE y \in asleep
      <4>1. pc[y][2] = s(j)
        BY <2>7, <3>3
      <4>2. y = j
        BY <3>1, <4>1, SemNames
      <4> QED
        BY <2>4, <4>2
    <3> QED
      BY <3>2, <3>3
  <2>11. CondPermit' /\ SignalEats'
    BY <1>5 DEF CondPermit, SignalEats
  <2> QED
    BY <1>2, <1>3, <2>2, <2>3, <2>9, <2>10, <2>11 DEF PhiInv, EatInv
<1>7. CASE state' = st /\ UNCHANGED sems
  <2>1. UNCHANGED <<value, wait_queue, asleep, wakeup_flags>>
    BY <1>7 DEF sems
  <2>2. SemInv' /\ TokenInv'
    BY <1>1, <2>1, QuietSems
  <2>3. SemaPermit'
    <3>1. value[s(i)] = 0
      BY <1>1, NoPermit
    <3> QED
      BY <1>1, <1>2, <2>1, <3>1 DEF PhiInv, EatInv, SemaPermit
  <2>4. WokenEats'
    BY <1>1, <1>2, <2>1 DEF PhiInv, EatInv, WokenEats
  <2>5. CondPermit' /\ SignalEats'
    BY <1>5 DEF CondPermit, SignalEats
  <2> QED
    BY <1>2, <1>3, <2>2, <2>3, <2>4, <2>5 DEF PhiInv, EatInv
<1> QED
  BY <1>6, <1>7 DEF phi_test_sema

(* phi_test_condvar.                                                       *)
LEMMA TestCondvar ==
  ASSUME PhiInv, solution = "condvar", solution' = solution,
         NEW i \in Phil, NEW j \in Phil, NEW v \in {"THINKING", "HUNGRY"},
         NEW from \in {<<"hungry">>, <<"testL">>, <<"testR">>}, NEW to,
         phi_test_condvar(i, j, [state EXCEPT ![i] = v], from, to),
         \/ v = "HUNGRY" /\ to = <<"tested">> /\ i = j
         \/ v = "THINKING" /\ to \in {<<"testR">>, <<"forks_down">>}
  PROVE  PhiInv'
<1> DEFINE st == [state EXCEPT ![i] = v]
<1>1. PICK to1 \in {to, <<"signal", j, to>>} :
        /\ pc' = [pc EXCEPT ![i] = to1]
        /\ to1 # to => state' = [st EXCEPT ![j] = "EATING"]
  BY DEF phi_test_condvar, Goto
<1>2. /\ pc'[i] = to1 /\ \A y \in Phil \ {i} : pc'[y] = pc[y]
      /\ pc[i] = from /\ pc[i][1] \in ActiveLabels /\ pc[i][1] # "blocked"
      /\ to1[1] \in ActiveLabels /\ to1[1] # "blocked"
      /\ to1[1] = "signal" => to1 # to /\ to1[2] = j
  BY <1>1 DEF phi_test_condvar, Goto, PhiInv, PlaceInv, ActiveLabels, Inside
<1>3. /\ Apart'
      /\ state' \in [Phil -> {"THINKING", "HUNGRY", "EATING"}]
      /\ \A y \in Phil \ {i} : \/ state'[y] = state[y]
                               \/ y = j /\ state[y] = "HUNGRY" /\ state'[y] = "EATING"
      /\ state'[i] \in {v, "EATING"} /\ (v = "THINKING" => state'[i] = v)
  <2>1. /\ st \in [Phil -> {"THINKING", "HUNGRY", "EATING"}]
        /\ st[i] = v /\ \A y \in Phil \ {i} : st[y] = state[y]
    BY DEF PhiInv, PlaceInv
  <2>2. \/ MayEat(j, st) /\ state' = [st EXCEPT ![j] = "EATING"]
        \/ state' = st
    BY DEF phi_test_condvar
  <2> HIDE DEF st
  <2>3. /\ state' \in [Phil -> {"THINKING", "HUNGRY", "EATING"}]
        /\ \/ /\ MayEat(j, st)
              /\ state'[j] = "EATING"
              /\ \A y \in Phil \ {j} : state'[y] = st[y]
           \/ state' = st
    BY <2>1, <2>2
  <2>4. j = i \/ v = "THINKING"
    OBVIOUS
  <2> QED
    BY <2>1, <2>3, <2>4, TestStates
<1>4. UNCHANGED <<value, wait_queue, asleep, wakeup_flags, count, next_count>>
  BY DEF phi_test_condvar, mon, sems
<1>5. SemInv' /\ TokenInv'
  BY <1>1, <1>2, <1>4, QuietSems
<1>6. PlaceInv'
  <2>1. st[i] = v
    BY DEF PhiInv, PlaceInv
  <2>2. ASSUME to1 = to
        PROVE  Place(i)'
    BY <1>2, <1>3, <2>2 DEF Place, Thinking, Asking
  <2>3. ASSUME to1 = <<"signal", j, to>>, v = "HUNGRY"
        PROVE  Place(i)'
    <3>1. state'[i] = "EATING"
      BY <1>1, <2>1, <2>3, <1>2 DEF PhiInv, PlaceInv
    <3>2. Eating(i)'
      BY <1>2, <2>3 DEF Eating, Signalling
    <3> QED
      BY <3>1, <3>2 DEF Place
  <2>4. ASSUME to1 = <<"signal", j, to>>, v = "THINKING"
        PROVE  Place(i)'
    <3>1. Thinking(i)'
      BY <1>2, <2>4 DEF Thinking, Signalling
    <3> QED
      BY <1>3, <2>4, <3>1 DEF Place
  <2> QED
    BY <1>1, <1>3, <1>4, <2>2, <2>3, <2>4, PlaceStep DEF PhiInv, PlaceInv
<1>7. Holder(i) /\ \A y \in Phil : Holder(y) => y = i
  BY <1>2 DEF Holder, PhiInv, TokenInv
<1>8. SemaPermit' /\ CondPermit'
  <2>1. \A y \in Phil : cv_sem(y) \in Locks
    BY DEF Locks, PhiMonSem, cv_sem
  <2>2. \A y \in Phil : ~(value[cv_sem(y)] > 0)
    BY <1>7, <2>1 DEF PhiInv, TokenInv
  <2> QED
    BY <1>4, <2>2 DEF SemaPermit, CondPermit
<1>9. WokenEats'
  BY <1>2, <1>3, <1>4 DEF PhiInv, EatInv, WokenEats
<1>10. SignalEats'
  <2> SUFFICES ASSUME NEW y \in Phil, pc'[y][1] = "signal"
               PROVE  state'[pc'[y][2]] = "EATING"
    BY DEF SignalEats
  <2>1. CASE y = i
    BY <1>1, <1>2, <2>1 DEF PhiInv, PlaceInv
  <2>2. CASE y # i
    <3>1. Holder(y)
      BY <1>2, <2>2 DEF Holder, ActiveLabels
    <3> QED
      BY <1>7, <2>2, <3>1
  <2> QED
    BY <2>1, <2>2
<1> QED
  BY <1>3, <1>5, <1>6, <1>8, <1>9, <1>10 DEF PhiInv, EatInv

(* up() on the way out, which philosopher i goes on from at to.            *)
LEMMA Leaves ==
  ASSUME PhiInv, NEW i \in Phil, NEW from, NEW to, Goto(i, from, to),
         NEW x \in Locks, x \in {mutex_sema, mutex, next}, up(x),
         from[1] \in ActiveLabels, to[1] \notin ActiveLabels, to[1] # "blocked",
         solution = "sema" /\ from[1] = "tested" => to = <<"down", s(i), Put(mutex_sema)>>,
         UNCHANGED <<state, solution>>,
         count' \in [Phil -> Int], next_count' \in Int,
         Place(i)'
  PROVE  PhiInv'
<1>1. /\ x \in AllSem /\ pc = [j \in Phil |-> pc[j]]
      /\ pc[i] = from /\ pc' = [pc EXCEPT ![i] = to]
  BY LocksAreSem DEF Goto, PhiInv, PlaceInv
<1>2. /\ pc[i][1] # "blocked" /\ pc'[i] = to
      /\ \A j \in Phil \ {i} : pc'[j] = pc[j]
      /\ Holder(i)
  BY <1>1 DEF ActiveLabels, Inside, Holder
<1>3. SemInv'
  BY <1>1, <1>2, UpSem DEF PhiInv
<1>4. TokenInv'
  BY <1>1, <1>2, UpPasses DEF PhiInv
<1>5. PlaceInv'
  BY <1>1, PlaceStep DEF PhiInv, PlaceInv
<1>6. EatInv'
  <2>1. solution = "sema" /\ value[s(i)] > 0 => to = <<"down", s(i), Put(mutex_sema)>>
    <3>1. CASE from[1] # "tested" /\ solution = "sema"
      <4>1. value[s(i)] = 0
        BY <1>1, <3>1, NoPermit DEF ActiveLabels, Inside
      <4> QED
        BY <4>1
    <3> QED
      BY <3>1
  <2>2. to[1] \notin {"blocked", "signal"}
    BY DEF ActiveLabels
  <2> QED
    BY <1>1, <2>1, <2>2, EatUp DEF PhiInv
<1> QED
  BY <1>3, <1>4, <1>5, <1>6 DEF PhiInv

(* down() of the philosopher's own semaphore.                              *)
LEMMA DownForks ==
  ASSUME PhiInv, solution = "sema", solution' = solution, state' = state,
         NEW i \in Phil, Down(i, s(i), Put(mutex_sema))
  PROVE  PhiInv'
<1> DEFINE k == Put(mutex_sema)
<1>1. /\ pc = [j \in Phil |-> pc[j]] /\ Lock = mutex_sema /\ Lock' = mutex_sema
      /\ s(i) \in AllSem \ Locks /\ k[1] = "down" /\ k # <<"down", s(i), k>>
      /\ UNCHANGED <<count, next_count>>
  BY SemNames DEF PhiInv, PlaceInv, Lock, Locks, Put, Down
<1>2. value \in [AllSem -> Nat]
  BY DEF PhiInv, SemInv, SemType
<1>3. pc[i][1] \in {"down", "blocked"} /\ pc[i][2] = s(i)
  BY DEF Down, Goto
<1>4. Asking(i) /\ state[i] \in {"HUNGRY", "EATING"}
  BY <1>3, WhereState DEF PhiInv
<1>5. CASE Goto(i, <<"down", s(i), k>>, k) /\ down_take(s(i))
  <2>1. /\ pc' = [pc EXCEPT ![i] = k] /\ pc'[i] = k /\ \A j \in Phil \ {i} : pc'[j] = pc[j]
        /\ pc[i][1] # "blocked" /\ pc'[i][1] # "blocked" /\ pc'[i][1] \notin ActiveLabels
        /\ value[s(i)] > 0 /\ value' = [value EXCEPT ![s(i)] = @ - 1]
        /\ UNCHANGED <<wait_queue, asleep, wakeup_flags>>
    BY <1>1, <1>5 DEF Goto, down_take, ActiveLabels, Inside
  <2>2. value[s(i)] = 1 /\ state[i] = "EATING"
    BY <2>1 DEF PhiInv, EatInv, SemaPermit
  <2>3. value' \in [AllSem -> Nat] /\ value'[s(i)] = 0
        /\ \A y \in AllSem \ {s(i)} : value'[y] = value[y]
    BY <1>1, <1>2, <2>1, <2>2
  <2>4. SemInv'
    BY <2>1, <2>3, QuietSem DEF PhiInv
  <2>5. TokenInv'
    <3>1. \A y \in Locks : value'[y] = value[y]
      BY <1>1, <2>3, LocksAreSem
    <3> QED
      BY <2>1, <3>1, QuietStep DEF PhiInv
  <2>6. PlaceInv'
    <3>1. Place(i)'
      BY <1>1, <2>1, <2>2 DEF Place, Eating
    <3> QED
      BY <1>1, <2>1, <3>1, PlaceStep DEF PhiInv, PlaceInv
  <2>7. EatInv'
    <3>1. \A j \in Phil : value'[s(j)] > 0 => j # i /\ value'[s(j)] = value[s(j)]
      BY <2>3, SemNames
    <3>2. k[1] \notin {"blocked", "signal"} /\ asleep \ asleep' = {}
      BY <1>1, <2>1
    <3> QED
      BY <1>1, <2>1, <3>1, <3>2, EatStep DEF PhiInv
  <2> QED
    BY <2>4, <2>5, <2>6, <2>7 DEF PhiInv
<1>6. CASE Goto(i, <<"down", s(i), k>>, <<"blocked", s(i), k>>) /\ down_sleep(i, s(i))
  <2> DEFINE to == <<"blocked", s(i), k>>
  <2>1. /\ pc' = [pc EXCEPT ![i] = to] /\ pc'[i] = to /\ \A j \in Phil \ {i} : pc'[j] = pc[j]
        /\ pc[i][1] # "blocked" /\ pc'[i][1] = "blocked" /\ pc'[i][2] = s(i)
        /\ value[s(i)] <= 0 /\ value' = value /\ asleep' = asleep \cup {i}
        /\ down_sleep(i, s(i))
    BY <1>1, <1>6 DEF Goto, down_sleep
  <2>2. SemInv'
    BY <1>1, <2>1, SleepSem DEF PhiInv
  <2>3. TokenInv'
    <3>1. \A j \in Phil : Holder(j)' => Holder(j)
      BY <1>1, <2>1 DEF Holder, Locks, ActiveLabels, Inside
    <3> QED
      BY <2>1, <3>1, QuietToken DEF PhiInv
  <2>4. PlaceInv'
    <3>1. Place(i)'
      BY <1>1, <1>4, <2>1 DEF Place, Asking
    <3> QED
      BY <1>1, <2>1, <3>1, PlaceStep DEF PhiInv, PlaceInv
  <2>5. EatInv'
    <3>1. i \in asleep' /\ asleep \ asleep' = {} /\ to[1] # "signal"
          /\ ~(value[s(i)] > 0)
      BY <1>1, <1>2, <2>1
    <3> HIDE DEF to
    <3> QED
      BY <1>1, <2>1, <3>1, EatStep DEF PhiInv
  <2> QED
    BY <2>2, <2>3, <2>4, <2>5 DEF PhiInv
<1>7. CASE Goto(i, <<"blocked", s(i), k>>, k) /\ down_resume(i, s(i))
  <2>1. /\ pc' = [pc EXCEPT ![i] = k] /\ pc'[i] = k /\ \A j \in Phil \ {i} : pc'[j] = pc[j]
        /\ pc[i][1] = "blocked" /\ pc'[i][1] # "blocked" /\ pc'[i][1] \notin ActiveLabels
        /\ down_resume(i, s(i))
    BY <1>1, <1>7 DEF Goto, ActiveLabels, Inside
  <2>2. SemInv' /\ i \notin asleep /\ UNCHANGED <<value, wait_queue, asleep>>
    BY <1>1, <2>1, ResumeSem DEF PhiInv
  <2>3. state[i] = "EATING"
    BY <1>3, <2>1, <2>2 DEF PhiInv, EatInv, WokenEats
  <2>4. TokenInv'
    BY <2>1, <2>2, QuietStep DEF PhiInv
  <2>5. PlaceInv'
    <3>1. Place(i)'
      BY <1>1, <2>1, <2>3 DEF Place, Eating
    <3> QED
      BY <1>1, <2>1, <3>1, PlaceStep DEF PhiInv, PlaceInv
  <2>6. EatInv'
    <3>1. value[s(i)] = 0
      BY <2>1, NoPermit
    <3>2. k[1] \notin {"blocked", "signal"} /\ asleep \ asleep' = {}
      BY <1>1, <2>2
    <3> QED
      BY <1>1, <2>1, <2>2, <3>1, <3>2, EatStep DEF PhiInv
  <2> QED
    BY <2>2, <2>4, <2>5, <2>6 DEF PhiInv
<1> QED
  BY <1>5, <1>6, <1>7 DEF Down

LEMMA SemaphoreStep ==
  ASSUME PhiInv, NEW i \in Phil, philosopher_using_semaphore(i)
  PROVE  PhiInv'
<1>1. /\ solution = "sema" /\ solution' = solution
      /\ Lock = mutex_sema /\ mutex_sema \in Locks /\ Lock' = Lock
      /\ state \in [Phil -> {"THINKING", "HUNGRY", "EATING"}]
      /\ count \in [Phil -> Int] /\ next_count \in Int
      /\ pc = [j \in Phil |-> pc[j]]
  BY DEF philosopher_using_semaphore, Lock, Locks, PhiInv, PlaceInv
<1>2. CASE \E k \in {<<"hungry">>, <<"testL">>} : Down(i, mutex_sema, k) /\ UNCHANGED <<state, iter>>
  BY <1>1, <1>2, DownLock
<1>3. CASE phi_test_sema(i, i, [state EXCEPT ![i] = "HUNGRY"], <<"hungry">>, <<"tested">>)
  BY <1>1, <1>3, TestSema
<1>4. CASE /\ Goto(i, <<"tested">>, <<"down", s(i), Put(mutex_sema)>>)
           /\ up(mutex_sema)
           /\ UNCHANGED <<count, next_count, state, iter>>
  <2>1. pc[i] = <<"tested">> /\ pc'[i] = <<"down", s(i), Put(mutex_sema)>>
    BY <1>1, <1>4 DEF Goto
  <2>2. state[i] \in {"HUNGRY", "EATING"}
    BY <2>1, WhereState DEF PhiInv
  <2>3. Place(i)'
    BY <1>1, <1>4, <2>1, <2>2 DEF Place, Asking
  <2>4. "tested" \in ActiveLabels /\ "down" \notin ActiveLabels
    BY DEF ActiveLabels, Inside
  <2> QED
    BY <1>1, <1>4, <2>3, <2>4, Leaves
<1>5. CASE Down(i, s(i), Put(mutex_sema)) /\ UNCHANGED <<state, iter>>
  BY <1>1, <1>5, DownForks
<1>6. CASE phi_test_sema(i, LEFT(i), [state EXCEPT ![i] = "THINKING"], <<"testL">>, <<"testR">>)
  BY <1>1, <1>6, TestSema, Neighbours
<1>7. CASE phi_test_sema(i, RIGHT(i), state, <<"testR">>, <<"forks_down">>)
  <2>1. pc[i][1] = "testR"
    BY <1>7 DEF phi_test_sema, Goto
  <2>2. state[i] = "THINKING"
    BY <2>1, WhereState DEF PhiInv
  <2>3. state = [state EXCEPT ![i] = "THINKING"]
    BY <1>1, <2>2
  <2>4. phi_test_sema(i, RIGHT(i), [state EXCEPT ![i] = "THINKING"], <<"testR">>, <<"forks_down">>)
    BY <1>7, <2>3
  <2> QED
    BY <1>1, <2>4, TestSema, Neighbours
<1>8. CASE Again(i, mutex_sema) /\ up(mutex_sema)
  <2>1. PICK to \in {Take(mutex_sema), <<"quit">>} : Goto(i, <<"forks_down">>, to)
    BY <1>8 DEF Again
  <2>2. pc[i] = <<"forks_down">> /\ pc'[i] = to
    BY <1>1, <2>1 DEF Goto
  <2>3. state[i] = "THINKING" /\ state' = state
    BY <1>8, <2>2, WhereState DEF PhiInv, Again
  <2>4. Place(i)'
    BY <1>1, <2>2, <2>3 DEF Place, Thinking
  <2>5. "forks_down" \in ActiveLabels /\ to[1] \notin ActiveLabels /\ to[1] # "blocked"
    BY DEF ActiveLabels, Inside, Take
  <2>6. count' = count /\ next_count' = next_count
    BY <1>8 DEF Again
  <2> QED
    BY <1>1, <1>8, <2>1, <2>3, <2>4, <2>5, <2>6, Leaves
<1> QED
  BY <1>1, <1>2, <1>3, <1>4, <1>5, <1>6, <1>7, <1>8
     DEF philosopher_using_semaphore, phi_take_forks_sema, phi_put_forks_sema

-----------------------------------------------------------------------------
(* In the monitor.                                                         *)
LEMMA MonLocks ==
  ASSUME solution = "condvar"
  PROVE  /\ mutex \in Locks /\ next \in Locks /\ \A c \in Phil : cv_sem(c) \in Locks
         /\ Lock = mutex
  BY DEF Locks, PhiMonSem, mutex, next, cv_sem, Lock

(* The places inside cond_signal(c), called by i, and behind it.           *)
SignalPlace(i, c, k) ==
  \/ k = <<"tested">> /\ c = i
  \/ k \in {<<"testR">>, <<"forks_down">>}

LEMMA SignalState ==
  ASSUME PlaceInv, solution = "condvar", NEW i \in Phil, NEW c \in Phil, NEW k,
         SignalPlace(i, c, k), Signalling(i, c, k)
  PROVE  /\ k = <<"tested">> => state[i] = "EATING"
         /\ k # <<"tested">> => state[i] = "THINKING"
<1>1. Place(i) /\ Lock = mutex
  BY MonLocks DEF PlaceInv
<1>2. pc[i][1] \in {"signal", "signalled"} \/ (pc[i][1] \in {"down", "blocked"} /\ pc[i][2] = next)
  BY DEF Signalling
<1>3. next # mutex /\ next \notin {s(i), cv_sem(i)}
  BY SemNames DEF next, mutex
<1>4. ~Asking(i)
  BY <1>2, <1>3, PlaceLabels
<1>5. ASSUME NEW d, NEW l, Signalling(i, d, l)
      PROVE  d = c /\ l = k
  BY <1>5 DEF Signalling
<1>6. ASSUME k = <<"tested">>, Thinking(i)
      PROVE  FALSE
  <2>1. pc[i] \notin {Take(mutex), <<"blocked", mutex, <<"hungry">>>>, <<"hungry">>,
                      <<"testR">>, <<"forks_down">>, <<"quit">>}
    BY <1>2, <1>3 DEF Take
  <2>2. PICK d \in Phil, l \in {<<"testR">>, <<"forks_down">>} : Signalling(i, d, l)
    BY <1>1, <1>6, <2>1 DEF Thinking
  <2> QED
    BY <1>5, <1>6, <2>2
<1>7. ASSUME k # <<"tested">>, Eating(i)
      PROVE  FALSE
  <2>1. pc[i] \notin {Put(mutex), <<"blocked", mutex, <<"testL">>>>, <<"testL">>,
                      <<"woken", i, <<"forks">>>>, <<"forks">>}
    BY <1>2, <1>3 DEF Put
  <2>2. Signalling(i, i, <<"tested">>)
    BY <1>1, <1>7, <2>1 DEF Eating
  <2> QED
    BY <1>5, <1>7, <2>2
<1> QED
  BY <1>1, <1>4, <1>6, <1>7 DEF Place

(* A place inside cond_signal keeps its caller's state.                    *)
LEMMA SignalKeepsPlace ==
  ASSUME PlaceInv, solution = "condvar", solution' = solution, state' = state,
         NEW i \in Phil, NEW c \in Phil, NEW k,
         SignalPlace(i, c, k), Signalling(i, c, k),
         Signalling(i, c, k)' \/ pc'[i] = k
  PROVE  Place(i)'
<1>1. /\ k = <<"tested">> => state[i] = "EATING"
      /\ k # <<"tested">> => state[i] = "THINKING"
  BY SignalState
<1>2. CASE k = <<"tested">>
  BY <1>1, <1>2 DEF Place, Asking, Eating, SignalPlace
<1>3. CASE k # <<"tested">>
  BY <1>1, <1>3 DEF Place, Thinking, SignalPlace
<1> QED
  BY <1>2, <1>3

(* down() in the monitor.                                                  *)
LEMMA DownMonitor ==
  ASSUME PhiInv, solution = "condvar", solution' = solution, state' = state,
         NEW i \in Phil, NEW x \in Locks, NEW k, Down(i, x, k),
         k[1] \in ActiveLabels, k[1] # "signal", Place(i)'
  PROVE  PhiInv'
<1>1. /\ pc = [j \in Phil |-> pc[j]] /\ x \in AllSem
      /\ UNCHANGED <<count, next_count>>
      /\ \A j \in Phil : x # s(j)
      /\ k[1] # "blocked"
  BY LocksAreSem DEF PhiInv, PlaceInv, Down, Locks, PhiMonSem, s, ActiveLabels, Inside
<1>2. SemInv' /\ TokenInv'
  BY <1>1, DownEnters DEF PhiInv
<1>3. PICK to \in {k, <<"blocked", x, k>>} : pc' = [pc EXCEPT ![i] = to]
  BY DEF Down, Goto
<1>4. PlaceInv'
  BY <1>1, <1>3, PlaceStep DEF PhiInv, PlaceInv
<1>5. EatInv'
  BY <1>1, EatDown DEF PhiInv
<1> QED
  BY <1>2, <1>4, <1>5 DEF PhiInv

LEMMA CondSignal ==
  ASSUME PhiInv, solution = "condvar", solution' = solution, state' = state,
         NEW i \in Phil, NEW c \in Phil, NEW k, SignalPlace(i, c, k),
         cond_signal(i, c, k)
  PROVE  PhiInv'
<1>1. /\ pc = [j \in Phil |-> pc[j]]
      /\ count \in [Phil -> Int] /\ next_count \in Int
      /\ k[1] \in ActiveLabels /\ k[1] \notin {"blocked", "signal"}
  BY DEF PhiInv, PlaceInv, SignalPlace, ActiveLabels, Inside
<1>2. ASSUME NEW to, pc[i][1] \in {"signal", "signalled"}, pc' = [pc EXCEPT ![i] = to],
             to = k, UNCHANGED <<value, wait_queue, asleep, wakeup_flags>>,
             count' = count, next_count' \in Int,
             Signalling(i, c, k)
      PROVE  PhiInv'
  <2>1. pc'[i] = k
    BY <1>1, <1>2
  <2>2. SemInv' /\ TokenInv'
    BY <1>1, <1>2, QuietSems DEF ActiveLabels
  <2>3. Place(i)'
    BY <1>2, <2>1, SignalKeepsPlace DEF PhiInv
  <2>4. PlaceInv'
    BY <1>1, <1>2, <2>3, PlaceStep DEF PhiInv, PlaceInv
  <2>5. EatInv'
    BY <1>1, <1>2, EatStep DEF PhiInv, EatInv, CondPermit
  <2> QED
    BY <2>2, <2>4, <2>5 DEF PhiInv
<1>3. CASE /\ Goto(i, <<"signal", c, k>>, k)
           /\ count[c] <= 0
           /\ UNCHANGED <<value, wait_queue, asleep, wakeup_flags, count, next_count>>
  <2>1. Signalling(i, c, k) /\ pc[i][1] = "signal" /\ pc' = [pc EXCEPT ![i] = k]
    BY <1>3 DEF Goto, Signalling
  <2> QED
    BY <1>1, <1>2, <1>3, <2>1
<1>4. CASE /\ Goto(i, <<"signalled", c, k>>, k)
           /\ next_count' = next_count - 1
           /\ UNCHANGED <<value, wait_queue, asleep, wakeup_flags, count>>
  <2>1. Signalling(i, c, k) /\ pc[i][1] = "signalled" /\ pc' = [pc EXCEPT ![i] = k]
    BY <1>4 DEF Goto, Signalling
  <2> QED
    BY <1>1, <1>2, <1>4, <2>1
<1>5. CASE Down(i, next, <<"signalled", c, k>>)
  <2>1. Signalling(i, c, k) /\ Signalling(i, c, k)'
    BY <1>1, <1>5 DEF Down, Goto, Signalling
  <2>2. Place(i)'
    BY <2>1, SignalKeepsPlace DEF PhiInv
  <2> DEFINE l == <<"signalled", c, k>>
  <2>3. l[1] \in ActiveLabels /\ l[1] # "signal"
    BY DEF ActiveLabels
  <2> HIDE DEF l
  <2> QED
    BY <1>5, <2>2, <2>3, DownMonitor, MonLocks DEF l
<1>6. CASE /\ Goto(i, <<"signal", c, k>>, <<"down", next, <<"signalled", c, k>>>>)
           /\ count[c] > 0
           /\ next_count' = next_count + 1
           /\ up(cv_sem(c))
           /\ UNCHANGED count
  <2> DEFINE to == <<"down", next, <<"signalled", c, k>>>>
  <2>1. /\ pc[i] = <<"signal", c, k>> /\ pc' = [pc EXCEPT ![i] = to] /\ pc'[i] = to
        /\ \A j \in Phil \ {i} : pc'[j] = pc[j]
        /\ pc[i][1] = "signal" /\ pc[i][2] = c /\ to[1] = "down"
    BY <1>1, <1>6 DEF Goto
  <2>2. Signalling(i, c, k) /\ Signalling(i, c, k)'
    BY <2>1 DEF Signalling
  <2> HIDE DEF to
  <2>3. Holder(i) /\ cv_sem(c) \in Locks /\ cv_sem(c) \in AllSem /\ "down" \notin ActiveLabels
    BY <2>1, MonLocks, SemNames DEF Holder, ActiveLabels, Inside
  <2>4. SemInv'
    BY <1>6, <2>1, <2>3, UpSem DEF PhiInv
  <2>5. TokenInv'
    BY <1>6, <2>1, <2>3, UpPasses DEF PhiInv
  <2>6. PlaceInv'
    <3>1. Place(i)'
      BY <2>2, SignalKeepsPlace DEF PhiInv
    <3>2. next_count' \in Int
      BY <1>1, <1>6
    <3> QED
      BY <1>1, <1>6, <2>1, <3>1, <3>2, PlaceStep DEF PhiInv, PlaceInv
  <2>7. EatInv'
    <3>1. state[c] = "EATING"
      BY <2>1 DEF PhiInv, EatInv, SignalEats
    <3>2. \/ value' = [value EXCEPT ![cv_sem(c)] = @ + 1] /\ asleep' = asleep
          \/ /\ value' = value
             /\ \A j \in asleep \ asleep' : pc[j][1] = "blocked" /\ pc[j][2] = cv_sem(c)
      BY <1>6, <2>3, UpEffect DEF PhiInv
    <3>3. \A j \in Phil : value'[cv_sem(j)] > 0 => state[j] = "EATING"
      <4>1. \A j \in Phil : j # c => value'[cv_sem(j)] = value[cv_sem(j)]
        BY <3>2, <2>3, SemNames DEF PhiInv, SemInv, SemType
      <4> QED
        BY <3>1, <4>1 DEF PhiInv, EatInv, CondPermit
    <3>4. \A j \in asleep \ asleep' : state[j] = "EATING"
      <4>1. SUFFICES ASSUME NEW j \in asleep \ asleep'
                     PROVE  j = c
        BY <3>1
      <4>2. pc[j][1] = "blocked" /\ pc[j][2] = cv_sem(c) /\ j \in Phil
        BY <3>2 DEF PhiInv, SemInv, SemType
      <4>3. pc[j][2] \in {mutex_sema, mutex, next, s(j), cv_sem(j)}
        BY <4>2, WhereState DEF PhiInv
      <4> QED
        BY <4>2, <4>3, SemNames
    <3> QED
      BY <1>1, <2>1, <3>3, <3>4, EatStep DEF PhiInv
  <2> QED
    BY <2>4, <2>5, <2>6, <2>7 DEF PhiInv
<1> QED
  BY <1>3, <1>4, <1>5, <1>6 DEF cond_signal

LEMMA CondWait ==
  ASSUME PhiInv, solution = "condvar", solution' = solution, state' = state,
         NEW i \in Phil, cond_wait(i, i, <<"forks">>)
  PROVE  PhiInv'
<1> DEFINE k == <<"woken", i, <<"forks">>>>
<1>1. /\ pc = [j \in Phil |-> pc[j]] /\ cv_sem(i) \in Locks
      /\ count \in [Phil -> Int] /\ next_count \in Int
  BY MonLocks DEF PhiInv, PlaceInv
<1>2. CASE /\ Goto(i, <<"wait", i, <<"forks">>>>, <<"down", cv_sem(i), k>>)
           /\ count' = [count EXCEPT ![i] = @ + 1]
           /\ Leave
           /\ UNCHANGED next_count
  <2> DEFINE from == <<"wait", i, <<"forks">>>>
             to == <<"down", cv_sem(i), k>>
  <2>1. /\ pc[i] = from /\ pc'[i] = to
        /\ from[1] = "wait" /\ to[1] = "down"
    BY <1>1, <1>2 DEF Goto
  <2>2. Place(i)'
    <3>1. state[i] \in {"HUNGRY", "EATING"}
      BY <2>1, WhereState DEF PhiInv
    <3> QED
      BY <2>1, <3>1 DEF Place, Asking
  <2>3. PICK x \in Locks : x \in {mutex_sema, mutex, next} /\ up(x)
    BY <1>2, MonLocks DEF Leave
  <2>4. count' \in [Phil -> Int] /\ Goto(i, from, to)
    BY <1>1, <1>2
  <2>5. "wait" \in ActiveLabels /\ "down" \notin ActiveLabels
    BY DEF ActiveLabels, Inside
  <2> HIDE DEF from, to
  <2> QED
    BY <1>1, <1>2, <2>1, <2>2, <2>3, <2>4, <2>5, Leaves
<1>3. CASE Down(i, cv_sem(i), k)
  <2>1. pc[i][1] \in {"down", "blocked"} /\ pc[i][2] = cv_sem(i)
    BY <1>3 DEF Down, Goto
  <2>2. state[i] \in {"HUNGRY", "EATING"}
    BY <2>1, WhereState DEF PhiInv
  <2>3. Place(i)'
    <3>1. CASE Goto(i, <<"down", cv_sem(i), k>>, k) /\ down_take(cv_sem(i))
      <4>1. state[i] = "EATING" /\ pc'[i] = k
        BY <1>1, <3>1 DEF down_take, Goto, PhiInv, EatInv, CondPermit
      <4> QED
        BY <4>1 DEF Place, Eating
    <3>2. CASE Goto(i, <<"down", cv_sem(i), k>>, <<"blocked", cv_sem(i), k>>)
      <4>1. pc'[i] = <<"blocked", cv_sem(i), k>>
        BY <1>1, <3>2 DEF Goto
      <4> QED
        BY <4>1, <2>2 DEF Place, Asking
    <3>3. CASE Goto(i, <<"blocked", cv_sem(i), k>>, k) /\ down_resume(i, cv_sem(i))
      <4>1. /\ pc[i][1] = "blocked" /\ pc[i][2] = cv_sem(i) /\ pc'[i] = k
            /\ i \notin asleep
        BY <1>1, <3>3 DEF Goto, down_resume
      <4>2. state[i] = "EATING"
        BY <4>1 DEF PhiInv, EatInv, WokenEats
      <4> QED
        BY <4>1, <4>2 DEF Place, Eating
    <3> QED
      BY <1>3, <3>1, <3>2, <3>3 DEF Down
  <2>4. k[1] \in ActiveLabels /\ k[1] # "signal"
    BY DEF ActiveLabels
  <2> HIDE DEF k
  <2> QED
    BY <1>1, <1>3, <2>3, <2>4, DownMonitor
<1>4. CASE /\ Goto(i, k, <<"forks">>)
           /\ count' = [count EXCEPT ![i] = @ - 1]
           /\ UNCHANGED <<value, wait_queue, asleep, wakeup_flags, next_count>>
  <2> DEFINE to == <<"forks">>
  <2>1. /\ pc[i][1] = "woken" /\ pc' = [pc EXCEPT ![i] = to] /\ pc'[i] = <<"forks">>
        /\ to[1] = "forks"
    BY <1>1, <1>4 DEF Goto
  <2>2. state[i] = "EATING"
    BY <2>1, WhereState DEF PhiInv
  <2>3. Place(i)'
    BY <2>1, <2>2 DEF Place, Eating
  <2>4. count' \in [Phil -> Int]
    BY <1>1, <1>4
  <2> HIDE DEF to
  <2>5. SemInv' /\ TokenInv'
    BY <1>4, <2>1, QuietSems DEF ActiveLabels
  <2>6. PlaceInv'
    BY <1>1, <1>4, <2>1, <2>3, <2>4, PlaceStep DEF PhiInv, PlaceInv
  <2>7. EatInv'
    BY <1>1, <1>4, <2>1, EatStep DEF PhiInv, EatInv, CondPermit
  <2> QED
    BY <2>5, <2>6, <2>7 DEF PhiInv
<1> QED
  BY <1>2, <1>3, <1>4 DEF cond_wait

LEMMA CondvarStep ==
  ASSUME PhiInv, NEW i \in Phil, philosopher_using_condvar(i)
  PROVE  PhiInv'
<1>1. /\ solution = "condvar" /\ solution' = solution
      /\ Lock = mutex /\ Lock' = Lock
      /\ state \in [Phil -> {"THINKING", "HUNGRY", "EATING"}]
      /\ count \in [Phil -> Int] /\ next_count \in Int
      /\ pc = [j \in Phil |-> pc[j]]
      /\ LEFT(i) \in Phil /\ RIGHT(i) \in Phil
  BY Neighbours DEF philosopher_using_condvar, Lock, PhiInv, PlaceInv
<1>2. CASE \E k \in {<<"hungry">>, <<"testL">>} : Down(i, mutex, k) /\ UNCHANGED <<state, iter>>
  BY <1>1, <1>2, DownLock
<1>3. CASE phi_test_condvar(i, i, [state EXCEPT ![i] = "HUNGRY"], <<"hungry">>, <<"tested">>)
  BY <1>1, <1>3, TestCondvar
<1>4. CASE \E c \in Phil : \E k : SignalPlace(i, c, k) /\ cond_signal(i, c, k) /\ UNCHANGED <<state, iter>>
  BY <1>1, <1>4, CondSignal
<1>5. CASE /\ Goto(i, <<"tested">>,
                   IF state[i] = "HUNGRY" THEN <<"wait", i, <<"forks">>>> ELSE <<"forks">>)
           /\ UNCHANGED <<mon, state, iter>>
  <2>1. UNCHANGED <<value, wait_queue, asleep, wakeup_flags, count, next_count>>
    BY <1>5 DEF mon, sems
  <2> DEFINE to == IF state[i] = "HUNGRY" THEN <<"wait", i, <<"forks">>>> ELSE <<"forks">>
  <2>2. /\ pc' = [pc EXCEPT ![i] = to] /\ pc'[i] = to /\ pc[i][1] = "tested"
        /\ to[1] \notin {"blocked", "signal"}
    <3>1. pc' = [pc EXCEPT ![i] = to] /\ pc[i] = <<"tested">>
      BY <1>5 DEF Goto
    <3>2. to[1] \in {"wait", "forks"}
      OBVIOUS
    <3> HIDE DEF to
    <3> QED
      BY <1>1, <3>1, <3>2
  <2>3. SemInv' /\ TokenInv'
    BY <1>1, <2>1, <2>2, QuietSems DEF ActiveLabels, Inside
  <2>4. Place(i)'
    <3>1. state[i] \in {"HUNGRY", "EATING"}
      BY <2>2, WhereState DEF PhiInv
    <3> QED
      BY <1>1, <1>5, <2>2, <3>1 DEF Place, Asking, Eating
  <2> HIDE DEF to
  <2>5. PlaceInv'
    BY <1>1, <1>5, <2>1, <2>2, <2>4, PlaceStep DEF PhiInv, PlaceInv
  <2>6. EatInv'
    BY <1>1, <1>5, <2>1, <2>2, EatStep DEF PhiInv, EatInv, CondPermit
  <2> QED
    BY <2>3, <2>5, <2>6 DEF PhiInv
<1>6. CASE cond_wait(i, i, <<"forks">>) /\ UNCHANGED <<state, iter>>
  BY <1>1, <1>6, CondWait
<1>7. CASE /\ Goto(i, <<"forks">>, Put(mutex))
           /\ Leave
           /\ UNCHANGED <<count, next_count, state, iter>>
  <2>1. pc[i] = <<"forks">> /\ pc'[i] = Put(mutex)
    BY <1>1, <1>7 DEF Goto
  <2>2. Place(i)'
    <3>1. state[i] = "EATING"
      BY <2>1, WhereState DEF PhiInv
    <3> QED
      BY <1>1, <1>7, <2>1, <3>1 DEF Place, Eating
  <2>3. PICK x \in Locks : x \in {mutex_sema, mutex, next} /\ up(x)
    BY <1>1, <1>7, MonLocks DEF Leave
  <2> DEFINE to == Put(mutex)
  <2>4. "forks" \in ActiveLabels /\ to[1] \notin ActiveLabels /\ to[1] # "blocked"
    BY DEF ActiveLabels, Inside, Put
  <2> HIDE DEF to
  <2>5. Goto(i, <<"forks">>, to)
    BY <1>7 DEF to
  <2> QED
    BY <1>1, <1>7, <2>2, <2>3, <2>4, <2>5, Leaves
<1>8. CASE phi_test_condvar(i, LEFT(i), [state EXCEPT ![i] = "THINKING"], <<"testL">>, <<"testR">>)
  BY <1>1, <1>8, TestCondvar
<1>9. CASE phi_test_condvar(i, RIGHT(i), state, <<"testR">>, <<"forks_down">>)
  <2>1. pc[i][1] = "testR"
    BY <1>9 DEF phi_test_condvar, Goto
  <2>2. state[i] = "THINKING"
    BY <2>1, WhereState DEF PhiInv
  <2>3. state = [state EXCEPT ![i] = "THINKING"]
    BY <1>1, <2>2
  <2>4. phi_test_condvar(i, RIGHT(i), [state EXCEPT ![i] = "THINKING"], <<"testR">>, <<"forks_down">>)
    BY <1>9, <2>3
  <2> QED
    BY <1>1, <2>4, TestCondvar
<1>10. CASE Again(i, mutex) /\ Leave
  <2>1. PICK to \in {Take(mutex), <<"quit">>} : Goto(i, <<"forks_down">>, to)
    BY <1>10 DEF Again
  <2>2. pc[i] = <<"forks_down">> /\ pc'[i] = to
    BY <1>1, <2>1 DEF Goto
  <2>3. state[i] = "THINKING" /\ state' = state
    BY <1>10, <2>2, WhereState DEF PhiInv, Again
  <2>4. Place(i)'
    BY <1>1, <2>2, <2>3 DEF Place, Thinking
  <2>5. "forks_down" \in ActiveLabels /\ to[1] \notin ActiveLabels /\ to[1] # "blocked"
    BY DEF ActiveLabels, Inside, Take
  <2>6. count' = count /\ next_count' = next_count
    BY <1>10 DEF Again
  <2>7. PICK x \in Locks : x \in {mutex_sema, mutex, next} /\ up(x)
    BY <1>1, <1>10, MonLocks DEF Leave
  <2> QED
    BY <1>1, <2>1, <2>3, <2>4, <2>5, <2>6, <2>7, Leaves
<1>11. ASSUME phi_take_forks_condvar(i)
       PROVE  PhiInv'
  <2>1. SignalPlace(i, i, <<"tested">>)
    BY DEF SignalPlace
  <2> QED
    BY <1>2, <1>3, <1>4, <1>5, <1>6, <1>7, <1>11, <2>1 DEF phi_take_forks_condvar
<1>12. ASSUME phi_put_forks_condvar(i)
       PROVE  PhiInv'
  <2>1. SignalPlace(i, LEFT(i), <<"testR">>) /\ SignalPlace(i, RIGHT(i), <<"forks_down">>)
    BY DEF SignalPlace
  <2> QED
    BY <1>1, <1>2, <1>4, <1>8, <1>9, <1>10, <1>12, <2>1 DEF phi_put_forks_condvar
<1> QED
  BY <1>11, <1>12 DEF philosopher_using_condvar

-----------------------------------------------------------------------------
(* check_sync and do_kill.                                                 *)
LEMMA StartStep ==
  ASSUME PhiInv, StartCondvar
  PROVE  PhiInv'
<1>1. /\ solution' = "condvar" /\ Lock' = mutex
      /\ pc' = [i \in Phil |-> Take(mutex)]
      /\ state' = [i \in Phil |-> "THINKING"]
      /\ UNCHANGED <<asleep, wakeup_flags>>
  BY DEF StartCondvar, monitor_init, Lock
<1>2. \A i \in Phil : pc[i][1] = "quit"
  BY DEF StartCondvar, AllQuit
<1>3. asleep = {} /\ \A x \in AllSem : 1..Len(wait_queue[x]) = {}
  <2>1. asleep = {}
    BY <1>2 DEF PhiInv, SemInv, SemType, Sleeping
  <2> QED
    BY <2>1 DEF PhiInv, SemInv, Queued
<1>4. /\ value' = [x \in AllSem |-> IF x = mutex THEN 1 ELSE IF x \in MonSem THEN 0 ELSE value[x]]
      /\ wait_queue' = [x \in AllSem |-> IF x \in MonSem THEN <<>> ELSE wait_queue[x]]
      /\ count' = [c \in Phil |-> 0] /\ next_count' = 0
  BY DEF StartCondvar, monitor_init, AllSem
<1>5. MonSem = PhiMonSem /\ Locks' = PhiMonSem /\ mutex \in PhiMonSem /\ PhiMonSem \subseteq AllSem
  BY <1>1 DEF MonSem, PhiMonSem, Locks, AllSem, mutex, next, cv_sem
<1>6. \A i \in Phil : pc'[i] = Take(mutex) /\ pc'[i][1] = "down"
  BY <1>1 DEF Take
<1>7. SemInv'
  <2>1. value' \in [AllSem -> Nat] /\ wait_queue' \in [AllSem -> Seq(Phil)]
    BY <1>4 DEF PhiInv, SemInv, SemType
  <2>2. \A x \in AllSem : 1..Len(wait_queue'[x]) = {}
    BY <1>3, <1>4
  <2>3. Queued'
    BY <2>2 DEF Queued
  <2>4. Sleeping' /\ Woken'
    BY <1>1, <1>3, <1>6 DEF Sleeping, Woken
  <2> QED
    BY <1>1, <2>1, <2>3, <2>4 DEF PhiInv, SemInv, SemType
<1>8. TokenInv'
  <2>1. \A i \in Phil : ~Holder(i)'
    BY <1>6 DEF Holder, ActiveLabels, Inside
  <2>2. \A x \in PhiMonSem : value'[x] = IF x = mutex THEN 1 ELSE 0
    BY <1>4, <1>5
  <2> QED
    BY <1>5, <2>1, <2>2 DEF TokenInv
<1>9. PlaceInv'
  BY <1>1, <1>4, <1>6 DEF PlaceInv, Place, Thinking
<1>10. EatInv'
  <2>1. \A i \in Phil : cv_sem(i) \in AllSem /\ cv_sem(i) \in MonSem /\ cv_sem(i) # mutex
    BY SemNames DEF MonSem
  <2>2. CondPermit'
    BY <1>4, <2>1 DEF CondPermit
  <2> QED
    BY <1>1, <1>6, <2>2, Neighbours DEF EatInv, Apart, SemaPermit, WokenEats, SignalEats
<1> QED
  BY <1>7, <1>8, <1>9, <1>10 DEF PhiInv

LEMMA InvUnchanged ==
  ASSUME PhiInv, UNCHANGED <<value, wait_queue, asleep, wakeup_flags, count, next_count, pc,
                             solution, state>>
  PROVE  PhiInv'
<1>1. SemInv'
  BY DEF PhiInv, SemInv, SemType, Queued, Sleeping, Woken
<1>2. TokenInv'
  BY DEF PhiInv, TokenInv, Holder, Locks
<1>3. PlaceInv'
  BY DEF PhiInv, PlaceInv, Place, Thinking, Asking, Eating, Signalling, Lock
<1>4. EatInv'
  BY DEF PhiInv, EatInv, Apart, SemaPermit, CondPermit, WokenEats, SignalEats
<1> QED
  BY <1>1, <1>2, <1>3, <1>4 DEF PhiInv

LEMMA InitInv == Init => PhiInv
<1> SUFFICES ASSUME Init
             PROVE  PhiInv
  OBVIOUS
<1>1. /\ solution = "sema" /\ Lock = mutex_sema /\ Locks = {mutex_sema}
      /\ pc = [i \in Phil |-> Take(mutex_sema)]
      /\ state = [i \in Phil |-> "THINKING"]
      /\ count = [c \in Phil |-> 0] /\ next_count = 0
  BY DEF Init, Lock, Locks
<1>2. /\ value = [x \in AllSem |-> IF x = mutex_sema THEN 1 ELSE 0]
      /\ wait_queue = [x \in AllSem |-> <<>>]
      /\ asleep = {}
      /\ wakeup_flags = [t \in Phil |-> "none"]
  BY DEF Init, sem_init, AllSem
<1>3. \A i \in Phil : pc[i] = Take(mutex_sema) /\ pc[i][1] = "down"
  BY <1>1 DEF Take
<1>4. SemInv
  BY <1>2, <1>3 DEF SemInv, SemType, Queued, Sleeping, Woken
<1>5. TokenInv
  <2>1. \A i \in Phil : ~Holder(i)
    BY <1>3 DEF Holder, ActiveLabels, Inside
  <2> QED
    BY <1>1, <1>2, <2>1, SemNames DEF TokenInv
<1>6. PlaceInv
  BY <1>1, <1>3 DEF PlaceInv, Place, Thinking
<1>7. EatInv
  BY <1>1, <1>2, <1>3, Neighbours, SemNames
     DEF EatInv, Apart, SemaPermit, CondPermit, WokenEats, SignalEats
<1> QED
  BY <1>4, <1>5, <1>6, <1>7 DEF PhiInv

LEMMA NextInv == PhiInv /\ [Next]_vars => PhiInv'
<1> SUFFICES ASSUME PhiInv, [Next]_vars
             PROVE  PhiInv'
  OBVIOUS
<1>1. ASSUME NEW i \in Phil, philosopher(i)
      PROVE  PhiInv'
  BY <1>1, SemaphoreStep, CondvarStep DEF philosopher
<1>2. ASSUME NEW i \in Phil, Kill(i)
      PROVE  PhiInv'
  BY <1>2, InvUnchanged DEF Kill, kill_wakes, KsemInterruptible
<1>3. CASE StartCondvar
  BY <1>3, StartStep
<1>4. CASE Finished \/ UNCHANGED vars
  BY <1>4, InvUnchanged DEF Finished, vars, mon, sems
<1> QED
  BY <1>1, <1>2, <1>3, <1>4 DEF Next

THEOREM SpecInv == Spec => []PhiInv
  BY InitInv, NextInv, PTL DEF Spec

-----------------------------------------------------------------------------
(* Whoever sleeps in down() is in the queue where up() finds it, and       *)
(* whoever is awake in it has been given the permit: "assert(wait->        *)
(* wakeup_flags == wait_state)" behind the schedule() of down() never      *)
(* fails, whoever is killed.                                               *)
THEOREM KillDoesNotInterrupt == Spec => []DownNotInterrupted
<1>1. PhiInv => DownNotInterrupted
  <2> SUFFICES ASSUME PhiInv, NEW i \in Phil, NEW x \in AllSem,
                      pc[i][1] = "blocked", pc[i][2] = x
               PROVE  IF i \in asleep THEN \E k \in DOMAIN wait_queue[x] : wait_queue[x][k] = i
                      ELSE wakeup_flags[i] = "WT_KSEM"
    BY DEF DownNotInterrupted, AllSem
  <2>1. wait_queue[x] \in Seq(Phil)
    BY DEF PhiInv, SemInv, SemType
  <2>2. DOMAIN wait_queue[x] = 1..Len(wait_queue[x])
    BY <2>1
  <2> QED
    BY <2>2 DEF PhiInv, SemInv, Sleeping, Woken
<1> QED
  BY <1>1, SpecInv, PTL

LEMMA AtMostOne ==
  ASSUME NEW A, \A i, j \in A : i = j
  PROVE  Cardinality(A) = IF A = {} THEN 0 ELSE 1
<1>1. CASE A = {}
  BY <1>1, FS_EmptySet
<1>2. CASE A # {}
  <2>1. PICK a \in A : TRUE
    BY <1>2
  <2>2. A = {a}
    BY <2>1
  <2>3. Cardinality({a}) = 1
    BY FS_Singleton
  <2> QED
    BY <1>2, <2>2, <2>3
<1> QED
  BY <1>1, <1>2

(* There is never more than one thread between down() and up() of the      *)
(* mutex, or active in the monitor, for any number of philosophers: one    *)
(* right to be inside goes from thread to thread.                          *)
THEOREM MonitorIsExclusive == Spec => []OneInMonitor
<1>1. PhiInv => OneInMonitor
  <2> SUFFICES ASSUME PhiInv
               PROVE  Cardinality({i \in Phil : Active(i, Inside)}) <= 1
    BY DEF OneInMonitor
  <2> DEFINE A == {i \in Phil : Active(i, Inside)}
  <2>1. \A i, j \in A : i = j
    <3>1. \A i \in A : i \in Phil /\ Holder(i)
      BY DEF Active, Holder, ActiveLabels
    <3> QED
      BY <3>1 DEF PhiInv, TokenInv
  <2> HIDE DEF A
  <2>2. Cardinality(A) = IF A = {} THEN 0 ELSE 1
    BY <2>1, AtMostOne
  <2> QED
    BY <2>2 DEF A
<1> QED
  BY <1>1, SpecInv, PTL

LEMMA ForksMeanEating ==
  ASSUME PhiInv, NEW i \in Phil, HasForks(i)
  PROVE  state[i] = "EATING"
<1>1. PlaceInv /\ Place(i)
  BY DEF PhiInv, PlaceInv
<1>2. CASE pc[i] = <<"forks">>
  <2>1. pc[i][1] = "forks"
    BY <1>2
  <2> QED
    BY <1>1, <2>1, WhereState
<1>3. CASE \E lock \in {mutex_sema, mutex} :
             pc[i] \in {Put(lock), <<"blocked", lock, <<"testL">>>>}
  <2>1. /\ pc[i][1] \in {"down", "blocked"} /\ pc[i][2] \in {mutex_sema, mutex}
        /\ pc[i][3] = <<"testL">>
    BY <1>3 DEF Put
  <2>2. pc[i][2] # next /\ pc[i][2] \notin {s(i), cv_sem(i)} /\ pc[i][3] # <<"hungry">>
    BY <2>1, SemNames DEF mutex_sema, mutex, next
  <2>3. ~Thinking(i) /\ ~Asking(i)
    BY <2>1, <2>2, PlaceLabels
  <2> QED
    BY <1>1, <2>3 DEF Place
<1> QED
  BY <1>2, <1>3 DEF HasForks

(* A philosopher back from phi_take_forks has both its forks: no neighbour *)
(* is back from it.                                                        *)
THEOREM ForksAreExclusive == Spec => []NeighboursDoNotEat
<1>1. PhiInv => NeighboursDoNotEat
  BY ForksMeanEating, Neighbours DEF NeighboursDoNotEat, PhiInv, EatInv, Apart
<1> QED
  BY <1>1, SpecInv, PTL

(* What a philosopher was woken for still holds when it runs.              *)
THEOREM SignalsHold == Spec => []SignalledStillEats
<1>1. PhiInv => SignalledStillEats
  BY ForksMeanEating DEF SignalledStillEats
<1> QED
  BY <1>1, SpecInv, PTL

-----------------------------------------------------------------------------
(* The first mutex implements a counting semaphore.  W has been handed the *)
(* permit and does not run yet, H holds it.                                *)
W == At(mutex_sema) \ asleep
H == {i \in Phil : solution = "sema" /\ pc[i][1] \in Inside}
permits == value[mutex_sema] + Cardinality(W)

View ==
  /\ permits = value[mutex_sema] + IF W = {} THEN 0 ELSE 1
  /\ value[mutex_sema] \in Nat
  /\ solution = "sema" =>
       /\ value[mutex_sema] <= 1
       /\ value[mutex_sema] > 0 => W = {} /\ H = {}
       /\ \A i \in W \cup H, j \in W \cup H : i = j

LEMMA PermitView == PhiInv => View
<1> SUFFICES ASSUME PhiInv
             PROVE  View
  OBVIOUS
<1>1. solution \in {"sema", "condvar"}
  BY DEF PhiInv, PlaceInv
<1>2. CASE solution = "sema"
  <2>1. \A i \in W \cup H : i \in Phil /\ Holder(i)
    BY <1>2 DEF W, H, At, Holder, Locks, ActiveLabels
  <2>2. \A i \in W \cup H, j \in W \cup H : i = j
    BY <2>1 DEF PhiInv, TokenInv
  <2>3. mutex_sema \in Locks
    BY <1>2 DEF Locks
  <2>4. value[mutex_sema] <= 1 /\ (value[mutex_sema] > 0 => W = {} /\ H = {})
    BY <2>1, <2>3 DEF PhiInv, TokenInv
  <2>5. Cardinality(W) = IF W = {} THEN 0 ELSE 1
    BY <2>2, AtMostOne
  <2> QED
    BY <2>2, <2>4, <2>5, SemNames DEF View, permits, PhiInv, SemInv, SemType
<1>3. CASE solution = "condvar"
  <2>1. W = {}
    <3>1. SUFFICES ASSUME NEW i \in Phil, pc[i][1] = "blocked", pc[i][2] = mutex_sema
                   PROVE  FALSE
      BY DEF W, At
    <3>2. Place(i) /\ Lock # mutex_sema /\ next # mutex_sema /\ mutex_sema \notin {s(i), cv_sem(i)}
      BY <1>3, SemNames DEF PhiInv, PlaceInv, Lock, mutex, mutex_sema, next
    <3> QED
      BY <3>1, <3>2, PlaceLabels DEF Place
  <2> QED
    BY <1>3, <2>1, SemNames, FS_EmptySet DEF View, permits, PhiInv, SemInv, SemType
<1> QED
  BY <1>1, <1>2, <1>3

LEMMA PermitViewNext == PhiInv' => View'
  BY PermitView, PTL

(* A step that does not concern the mutex.                                 *)
LEMMA PermitQuiet ==
  ASSUME PhiInv, NEW i \in Phil, NEW to, pc' = [pc EXCEPT ![i] = to],
         solution' = solution,
         value'[mutex_sema] = value[mutex_sema],
         solution = "sema" => (pc[i][1] \in Inside <=> to[1] \in Inside),
         pc[i][1] = "blocked" => pc[i][2] # mutex_sema,
         to[1] = "blocked" => to[2] # mutex_sema,
         \A j \in Phil : pc[j][1] = "blocked" /\ pc[j][2] = mutex_sema =>
                           (j \in asleep <=> j \in asleep')
  PROVE  UNCHANGED Permit!vars
<1>1. pc'[i] = to /\ \A j \in Phil \ {i} : pc'[j] = pc[j]
  BY DEF PhiInv, PlaceInv
<1>2. At(mutex_sema)' = At(mutex_sema)
  BY <1>1 DEF At
<1>3. W' = W
  BY <1>2 DEF W, At
<1>4. H' = H
  BY <1>1 DEF H
<1> QED
  BY <1>2, <1>3, <1>4 DEF Permit!vars, W, H

LEMMA PermitDown ==
  ASSUME PhiInv, PhiInv', solution = "sema", solution' = solution,
         NEW i \in Phil, NEW k \in {<<"hungry">>, <<"testL">>}, Down(i, mutex_sema, k)
  PROVE  Permit!Next
<1>1. /\ pc = [j \in Phil |-> pc[j]] /\ k[1] \in Inside /\ k[1] \notin {"down", "blocked"}
      /\ mutex_sema \in AllSem /\ value \in [AllSem -> Nat]
  <2>1. k[1] \in {"hungry", "testL"}
    OBVIOUS
  <2> QED
    BY <2>1, SemNames DEF PhiInv, PlaceInv, SemInv, SemType, Inside
<1>2. /\ permits = value[mutex_sema] + IF W = {} THEN 0 ELSE 1
      /\ permits' = value'[mutex_sema] + IF W' = {} THEN 0 ELSE 1
      /\ value[mutex_sema] \in Nat /\ value'[mutex_sema] \in Nat
      /\ value[mutex_sema] > 0 => W = {} /\ H = {}
      /\ \A j \in W \cup H, l \in W \cup H : j = l
  BY PermitView, PermitViewNext DEF View
<1>3. CASE Goto(i, <<"down", mutex_sema, k>>, k) /\ down_take(mutex_sema)
  <2>1. /\ pc[i][1] = "down" /\ pc'[i] = k /\ \A j \in Phil \ {i} : pc'[j] = pc[j]
        /\ value[mutex_sema] > 0 /\ value'[mutex_sema] = value[mutex_sema] - 1
        /\ asleep' = asleep
    BY <1>1, <1>3 DEF Goto, down_take
  <2>2. i \notin At(mutex_sema) /\ i \notin H
    BY <2>1 DEF At, H, Inside
  <2>3. At(mutex_sema)' = At(mutex_sema)
    <3>1. \A l : pc[i] # <<"blocked", mutex_sema, l>> /\ pc'[i] # <<"blocked", mutex_sema, l>>
      BY <1>1, <2>1
    <3> QED
      BY <2>1, <3>1 DEF At
  <2>4. W' = W /\ H' = H \cup {i}
    BY <1>1, <2>1, <2>3 DEF W, H
  <2>5. permits > 0 /\ permits' = permits - 1
    BY <1>2, <2>1, <2>4
  <2>6. Permit!Acquire(i)
    BY <2>2, <2>3, <2>4, <2>5 DEF Permit!Acquire, permits, W, H
  <2> QED
    BY <2>6 DEF Permit!Next
<1>4. CASE Goto(i, <<"down", mutex_sema, k>>, <<"blocked", mutex_sema, k>>) /\ down_sleep(i, mutex_sema)
  <2>1. /\ pc[i][1] = "down" /\ pc'[i] = <<"blocked", mutex_sema, k>>
        /\ \A j \in Phil \ {i} : pc'[j] = pc[j]
        /\ value' = value /\ asleep' = asleep \cup {i}
    BY <1>1, <1>4 DEF Goto, down_sleep
  <2>2. i \notin At(mutex_sema) /\ i \notin H
    BY <2>1 DEF At, H, Inside
  <2>3. At(mutex_sema)' = At(mutex_sema) \cup {i}
    BY <2>1 DEF At
  <2>4. W' = W /\ H' = H
    BY <2>1, <2>2, <2>3 DEF W, H, Inside
  <2>5. Permit!Want(i)
    BY <2>1, <2>2, <2>3, <2>4 DEF Permit!Want, W, H
  <2> QED
    BY <2>5 DEF Permit!Next
<1>5. CASE Goto(i, <<"blocked", mutex_sema, k>>, k) /\ down_resume(i, mutex_sema)
  <2>1. /\ pc[i] = <<"blocked", mutex_sema, k>> /\ pc'[i] = k
        /\ \A j \in Phil \ {i} : pc'[j] = pc[j]
        /\ value' = value /\ asleep' = asleep /\ i \notin asleep
    BY <1>1, <1>5 DEF Goto, down_resume
  <2>2. i \in W /\ i \notin H
    <3>1. pc[i][1] = "blocked"
      BY <2>1
    <3>2. i \in At(mutex_sema)
      BY <2>1 DEF At
    <3>3. "blocked" \notin Inside
      BY DEF Inside
    <3> QED
      BY <2>1, <3>1, <3>2, <3>3 DEF W, H
  <2>3. At(mutex_sema)' = At(mutex_sema) \ {i}
    <3>1. pc'[i][1] # "blocked"
      BY <1>1, <2>1
    <3>2. i \notin At(mutex_sema)'
      BY <3>1 DEF At
    <3>3. \A j \in Phil \ {i} : j \in At(mutex_sema)' <=> j \in At(mutex_sema)
      BY <2>1 DEF At
    <3>4. At(mutex_sema) \subseteq Phil /\ At(mutex_sema)' \subseteq Phil
      BY DEF At
    <3> QED
      BY <3>2, <3>3, <3>4
  <2>4. W' = W \ {i} /\ H' = H \cup {i}
    BY <1>1, <2>1, <2>3 DEF W, H
  <2>5. permits > 0 /\ permits' = permits - 1
    <3>1. W # {} /\ W' = {}
      BY <1>2, <2>2, <2>4
    <3> QED
      BY <1>2, <2>1, <3>1
  <2>6. Permit!Acquire(i)
    BY <2>2, <2>3, <2>4, <2>5 DEF Permit!Acquire, permits, W, H
  <2> QED
    BY <2>6 DEF Permit!Next
<1> QED
  BY <1>3, <1>4, <1>5 DEF Down

LEMMA PermitUp ==
  ASSUME PhiInv, PhiInv', solution = "sema", solution' = solution,
         NEW i \in Phil, NEW from, NEW to, Goto(i, from, to), up(mutex_sema),
         from[1] \in Inside, to[1] \notin Inside, to[1] # "blocked"
  PROVE  Permit!Next
<1>1. /\ pc[i] = from /\ pc'[i] = to /\ \A j \in Phil \ {i} : pc'[j] = pc[j]
      /\ pc[i][1] # "blocked"
      /\ mutex_sema \in AllSem /\ value \in [AllSem -> Nat]
  BY SemNames DEF Goto, PhiInv, PlaceInv, SemInv, SemType, Inside
<1>2. /\ permits = value[mutex_sema] + IF W = {} THEN 0 ELSE 1
      /\ permits' = value'[mutex_sema] + IF W' = {} THEN 0 ELSE 1
      /\ value[mutex_sema] \in Nat /\ value'[mutex_sema] \in Nat
      /\ value[mutex_sema] > 0 => W = {} /\ H = {}
      /\ \A j \in W \cup H, l \in W \cup H : j = l
  BY PermitView, PermitViewNext DEF View
<1>3. i \in H /\ H' = H \ {i} /\ At(mutex_sema)' = At(mutex_sema) /\ i \notin At(mutex_sema)
  BY <1>1 DEF H, At
<1>4. value[mutex_sema] = 0 /\ W = {} /\ permits = 0
  <2>1. W = {}
    BY <1>2, <1>3 DEF W
  <2> QED
    BY <1>2, <1>3, <2>1
<1>5. CASE value' = [value EXCEPT ![mutex_sema] = @ + 1] /\ asleep' = asleep
  <2>1. value'[mutex_sema] = 1 /\ W' = {}
    BY <1>1, <1>3, <1>4, <1>5 DEF W
  <2> QED
    BY <1>2, <1>3, <1>4, <2>1 DEF Permit!Next, Permit!Release, permits, W, H
<1>6. CASE \E h \in asleep : pc[h][1] = "blocked" /\ pc[h][2] = mutex_sema
                             /\ asleep' = asleep \ {h} /\ value' = value
  <2>1. PICK h \in asleep : pc[h][1] = "blocked" /\ pc[h][2] = mutex_sema
                            /\ asleep' = asleep \ {h} /\ value' = value
    BY <1>6
  <2>2. h \in At(mutex_sema)
    <3>1. h \in Phil /\ Place(h) /\ Lock = mutex_sema /\ next # mutex_sema
          /\ mutex_sema \notin {s(h), cv_sem(h)}
      BY SemNames DEF PhiInv, SemInv, SemType, PlaceInv, Lock, next, mutex_sema
    <3>2. pc[h] \in {<<"blocked", mutex_sema, <<"hungry">>>>, <<"blocked", mutex_sema, <<"testL">>>>}
      BY <2>1, <3>1 DEF Place, Thinking, Asking, Eating, Signalling, Take, Put
    <3> QED
      BY <3>1, <3>2 DEF At
  <2>3. W' = {h}
    BY <1>3, <1>4, <2>1, <2>2 DEF W
  <2>4. permits' = 1
    BY <1>2, <1>4, <2>1, <2>3
  <2> QED
    BY <1>3, <1>4, <2>4 DEF Permit!Next, Permit!Release, permits, W, H
<1> QED
  BY <1>1, <1>5, <1>6, UpEffect DEF PhiInv

(* The steps of the first solution.                                        *)
LEMMA PermitSemaphoreStep ==
  ASSUME PhiInv, PhiInv', NEW i \in Phil, philosopher_using_semaphore(i)
  PROVE  [Permit!Next]_(Permit!vars)
<1>1. /\ solution = "sema" /\ solution' = solution
      /\ pc = [j \in Phil |-> pc[j]] /\ mutex_sema \in AllSem
      /\ LEFT(i) \in Phil /\ RIGHT(i) \in Phil
      /\ value \in [AllSem -> Nat]
  BY SemNames, Neighbours DEF philosopher_using_semaphore, PhiInv, PlaceInv, SemInv, SemType
<1>2. ASSUME NEW k \in {<<"hungry">>, <<"testL">>}, Down(i, mutex_sema, k)
      PROVE  Permit!Next
  BY <1>1, <1>2, PermitDown
<1>3. ASSUME NEW j \in Phil, NEW st, NEW from, NEW to, phi_test_sema(i, j, st, from, to),
             from[1] \in Inside, to[1] \in Inside
      PROVE  UNCHANGED Permit!vars
  <2>1. /\ pc' = [pc EXCEPT ![i] = to] /\ pc[i] = from
        /\ from[1] # "blocked" /\ to[1] # "blocked"
    BY <1>3 DEF phi_test_sema, Goto, Inside
  <2>2. s(j) \in AllSem /\ s(j) # mutex_sema
    BY SemNames
  <2>3. CASE up(s(j))
    <3>1. /\ value'[mutex_sema] = value[mutex_sema]
          /\ \A u \in Phil : pc[u][2] = mutex_sema => (u \in asleep <=> u \in asleep')
      BY <1>1, <2>2, <2>3, UpEffect DEF PhiInv
    <3> QED
      BY <1>1, <1>3, <2>1, <3>1, PermitQuiet
  <2>4. CASE UNCHANGED sems
    <3>1. value' = value /\ asleep' = asleep
      BY <2>4 DEF sems
    <3> QED
      BY <1>1, <1>3, <2>1, <3>1, PermitQuiet
  <2> QED
    BY <1>3, <2>3, <2>4 DEF phi_test_sema
<1>4. CASE /\ Goto(i, <<"tested">>, <<"down", s(i), Put(mutex_sema)>>)
           /\ up(mutex_sema)
  <2>1. "tested" \in Inside /\ "down" \notin Inside
    BY DEF Inside
  <2> QED
    BY <1>1, <1>4, <2>1, PermitUp
<1>5. CASE Down(i, s(i), Put(mutex_sema))
  <2> DEFINE k == Put(mutex_sema)
  <2>1. /\ pc[i][1] \in {"down", "blocked"} /\ pc[i][2] = s(i)
        /\ s(i) # mutex_sema /\ s(i) \in AllSem
    BY <1>5, SemNames DEF Down, Goto
  <2>2. PICK to \in {k, <<"blocked", s(i), k>>} : pc' = [pc EXCEPT ![i] = to]
    BY <1>5 DEF Down, Goto
  <2>3. to[1] \in {"down", "blocked"} /\ (to[1] = "blocked" => to[2] = s(i))
    BY DEF Put
  <2>4. value'[mutex_sema] = value[mutex_sema]
    BY <1>1, <1>5, <2>1 DEF Down, down_take, down_sleep, down_resume
  <2>5. \A u \in Phil : pc[u][2] = mutex_sema => (u \in asleep <=> u \in asleep')
    BY <1>5, <2>1 DEF Down, down_take, down_sleep, down_resume
  <2>6. pc[i][1] \notin Inside /\ to[1] \notin Inside
    BY <2>1, <2>3 DEF Inside
  <2> HIDE DEF k
  <2> QED
    BY <1>1, <2>1, <2>2, <2>3, <2>4, <2>5, <2>6, PermitQuiet
<1>6. CASE Again(i, mutex_sema) /\ up(mutex_sema)
  <2>1. PICK to \in {Take(mutex_sema), <<"quit">>} : Goto(i, <<"forks_down">>, to)
    BY <1>6 DEF Again
  <2>2. "forks_down" \in Inside /\ to[1] \notin Inside /\ to[1] # "blocked"
    BY DEF Inside, Take
  <2> QED
    BY <1>1, <1>6, <2>1, <2>2, PermitUp
<1>7. "hungry" \in Inside /\ "tested" \in Inside /\ "testL" \in Inside /\ "testR" \in Inside
      /\ "forks_down" \in Inside
  BY DEF Inside
<1>8. ASSUME phi_take_forks_sema(i)
      PROVE  [Permit!Next]_(Permit!vars)
  BY <1>2, <1>3, <1>4, <1>5, <1>7, <1>8 DEF phi_take_forks_sema
<1>9. ASSUME phi_put_forks_sema(i)
      PROVE  [Permit!Next]_(Permit!vars)
  BY <1>1, <1>2, <1>3, <1>6, <1>7, <1>9 DEF phi_put_forks_sema
<1> QED
  BY <1>8, <1>9 DEF philosopher_using_semaphore

(* Nothing concerns the mutex in the monitor: nobody waits for it.         *)
NobodyAtMutexSema == solution = "condvar" => At(mutex_sema) = {} /\ H = {}

LEMMA MutexSemaIdle == PhiInv => NobodyAtMutexSema
<1>1. SUFFICES ASSUME PhiInv, solution = "condvar",
                      NEW i \in Phil, pc[i][1] = "blocked", pc[i][2] = mutex_sema
               PROVE  FALSE
  BY DEF NobodyAtMutexSema, At, H
<1>2. Place(i) /\ Lock # mutex_sema /\ next # mutex_sema /\ mutex_sema \notin {s(i), cv_sem(i)}
  BY <1>1, SemNames DEF PhiInv, PlaceInv, Lock, mutex, mutex_sema, next
<1> QED
  BY <1>1, <1>2, PlaceLabels DEF Place

LEMMA MutexSemaIdleNext == PhiInv' => NobodyAtMutexSema'
  BY MutexSemaIdle, PTL

LEMMA PermitCondvarStep ==
  ASSUME PhiInv, PhiInv', NEW i \in Phil, philosopher_using_condvar(i)
  PROVE  UNCHANGED Permit!vars
<1>1. /\ solution = "condvar" /\ solution' = "condvar"
      /\ At(mutex_sema) = {} /\ H = {} /\ At(mutex_sema)' = {} /\ H' = {}
      /\ value \in [AllSem -> Nat] /\ mutex_sema \in AllSem
      /\ LEFT(i) \in Phil /\ RIGHT(i) \in Phil
  BY MutexSemaIdle, MutexSemaIdleNext, SemNames, Neighbours
     DEF NobodyAtMutexSema, philosopher_using_condvar, PhiInv, SemInv, SemType
<1>2. \A x \in AllSem \ {mutex_sema} :
        up(x) \/ down_take(x) => value'[mutex_sema] = value[mutex_sema]
  BY <1>1 DEF up, down_take
<1>3. /\ mutex \in AllSem \ {mutex_sema} /\ next \in AllSem \ {mutex_sema}
      /\ \A c \in Phil : cv_sem(c) \in AllSem \ {mutex_sema}
  BY SemNames DEF mutex, mutex_sema, next
<1>4. ASSUME NEW x \in AllSem \ {mutex_sema}, NEW k, Down(i, x, k)
      PROVE  value'[mutex_sema] = value[mutex_sema]
  BY <1>2, <1>4 DEF Down, down_sleep, down_resume
<1>5. ASSUME Leave
      PROVE  value'[mutex_sema] = value[mutex_sema]
  BY <1>2, <1>3, <1>5 DEF Leave
<1>6. ASSUME NEW c \in Phil, NEW k, cond_signal(i, c, k)
      PROVE  value'[mutex_sema] = value[mutex_sema]
  BY <1>2, <1>3, <1>4, <1>6 DEF cond_signal
<1>7. ASSUME NEW c \in Phil, NEW k, cond_wait(i, c, k)
      PROVE  value'[mutex_sema] = value[mutex_sema]
  BY <1>3, <1>4, <1>5, <1>7 DEF cond_wait
<1>8. ASSUME NEW j, NEW st, NEW from, NEW to, phi_test_condvar(i, j, st, from, to)
      PROVE  value'[mutex_sema] = value[mutex_sema]
  BY <1>8 DEF phi_test_condvar, mon, sems
<1>9. value'[mutex_sema] = value[mutex_sema]
  <2>1. CASE phi_take_forks_condvar(i)
    BY <1>3, <1>4, <1>5, <1>6, <1>7, <1>8, <2>1 DEF phi_take_forks_condvar, mon, sems
  <2>2. CASE phi_put_forks_condvar(i)
    BY <1>1, <1>3, <1>4, <1>5, <1>6, <1>8, <2>2 DEF phi_put_forks_condvar
  <2> QED
    BY <2>1, <2>2 DEF philosopher_using_condvar
<1> QED
  BY <1>1, <1>9 DEF Permit!vars, H

LEMMA PermitInit == Init => Permit!Init
<1> SUFFICES ASSUME Init
             PROVE  Permit!Init
  OBVIOUS
<1>1. value[mutex_sema] = 1 /\ mutex_sema \in AllSem
  BY SemNames DEF Init, sem_init, AllSem
<1>2. \A i \in Phil : pc[i][1] = "down"
  BY DEF Init, Take
<1>3. At(mutex_sema) = {} /\ H = {}
  BY <1>2 DEF At, H, Inside
<1>4. W = {} /\ Cardinality(W) = 0
  BY <1>3, FS_EmptySet DEF W
<1> QED
  BY <1>1, <1>3, <1>4 DEF Permit!Init, W, H

LEMMA PermitNext == PhiInv /\ PhiInv' /\ [Next]_vars => [Permit!Next]_(Permit!vars)
<1> SUFFICES ASSUME PhiInv, PhiInv', [Next]_vars
             PROVE  [Permit!Next]_(Permit!vars)
  OBVIOUS
<1>1. ASSUME NEW i \in Phil, philosopher(i)
      PROVE  [Permit!Next]_(Permit!vars)
  BY <1>1, PermitSemaphoreStep, PermitCondvarStep DEF philosopher
<1>2. ASSUME UNCHANGED <<value, asleep, pc, solution>>
      PROVE  UNCHANGED Permit!vars
  BY <1>2 DEF Permit!vars, At
<1>3. ASSUME NEW i \in Phil, Kill(i)
      PROVE  UNCHANGED Permit!vars
  BY <1>2, <1>3 DEF Kill, kill_wakes, KsemInterruptible
<1>4. CASE Finished \/ UNCHANGED vars
  BY <1>2, <1>4 DEF Finished, vars, mon, sems
<1>5. CASE StartCondvar
  <2>1. \A i \in Phil : pc[i][1] = "quit"
    BY <1>5 DEF StartCondvar, AllQuit
  <2>2. At(mutex_sema) = {} /\ H = {}
    BY <2>1 DEF At, H, Inside
  <2>3. At(mutex_sema)' = {} /\ H' = {}
    BY <1>5, MutexSemaIdleNext DEF StartCondvar, NobodyAtMutexSema
  <2>4. mutex_sema \in AllSem /\ mutex_sema \notin MonSem /\ mutex_sema # mutex
    BY SemNames DEF MonSem, mutex_sema, mutex, next, cv_sem
  <2>5. value'[mutex_sema] = value[mutex_sema]
    BY <1>5, <2>4 DEF StartCondvar, monitor_init, AllSem
  <2> QED
    BY <2>2, <2>3, <2>5 DEF Permit!vars, H
<1> QED
  BY <1>1, <1>3, <1>4, <1>5 DEF Next

(* up() hands the permit to the waiter it wakes, and nothing is lost or    *)
(* made on the way: the mutex of the first solution is a counting          *)
(* semaphore with one permit, whoever is killed or comes in between.       *)
THEOREM MutexIsCountingSem == Spec => IsCountingSem
<1>1. Spec => []PhiInv
  BY SpecInv
<1>2. Init => Permit!Init
  BY PermitInit
<1>3. PhiInv /\ PhiInv' /\ [Next]_vars => [Permit!Next]_(Permit!vars)
  BY PermitNext
<1> QED
  BY <1>1, <1>2, <1>3, PTL DEF Spec, IsCountingSem, Permit!Spec
=============================================================================
