-------------------------- MODULE FileTableProofs --------------------------
(***************************************************************************)
(* Proofs about FileTable for any finite sets of processes, inodes and     *)
(* descriptors.  That the kernel is not preemptive is not used: the counts *)
(* are exact, no freed inode is used and no update is lost even when       *)
(* processes take turns between any two steps.                             *)
(***************************************************************************)
EXTENDS FileTable, FiniteSetTheorems, SequenceTheorems, TLAPS

Hows == {"plain", "trunc", "excl"}
FsLock == {"lock_sfs_fs", "woken_sfs_fs"}
SinLock == {"lock_sin", "woken_sin"}
Loading == {"sfs_load_inode", "sfs_rbuf"}
Ending == {"fd_array_free", "next_fd", "kfree", "sysfile_open"}
Exec == {"load_icode_read", "load_icode"}
InSin == {"truncate", "sfs_fsync", "sfs_wbuf", "sfs_io_nolock"}
RefSteps == {"plain", "trunc", "excl", "fd_array_open", "inode_ref_dec"}
NodeSteps ==
  {"sfs_truncfile", "inode_open_dec", "sfs_reclaim", "vop_kill", "failed_unlock"}
  \cup RefSteps \cup SinLock \cup InSin \cup Exec
Steps == NodeSteps \cup FsLock \cup Loading \cup Ending \cup {"sfs_sync"}

(* Step y may come after x in a call.                                      *)
Follows(x, y) ==
  \/ x \in FsLock /\ y \in {"sfs_load_inode", "fd_array_open", "sfs_reclaim", "sfs_sync"}
                           \cup Hows \cup Ending \cup Exec
  \/ x \in Loading /\ y \in Hows \cup {"fd_array_open"} \cup Exec
  \/ x \in Hows \cup {"sfs_truncfile", "truncate"} /\ y = "fd_array_open"
  \/ x \in {"plain", "fd_array_open", "sfs_io_nolock"} /\ y \in Exec
  \/ x = "load_icode_read" /\ y = "load_icode"
  \/ x \in SinLock /\ y \in {"truncate", "fd_array_open", "sfs_fsync", "sfs_io_nolock",
                             "inode_ref_dec", "vop_kill", "sfs_sync"} \cup Ending \cup Exec
  \/ x \in {"sfs_fsync", "sfs_wbuf"} /\ y \in {"inode_ref_dec", "vop_kill", "sfs_sync"} \cup Ending
  \/ x = "inode_open_dec" /\ y \in {"inode_ref_dec"} \cup Ending
  \/ x \in {"inode_ref_dec", "sfs_reclaim", "vop_kill", "failed_unlock"} /\ y \in Ending
  \/ x = "fd_array_free" /\ y \in {"next_fd", "kfree", "sysfile_open"}
  \/ x = "next_fd" /\ y \in {"kfree", "sysfile_open"}

(* The steps that are left of a call: in their order, as a set, the first. *)
Ordered(s) == \A i, j \in 1..Len(s) : i < j => Follows(s[i], s[j])

Elems(s) == {s[k] : k \in 1..Len(s)}
Left(t) == Elems(call[t].steps)
Now(t) == IF call[t].steps = <<>> THEN "none" ELSE Head(call[t].steps)

Some(S, T) == \E x \in T : x \in S

(* What a step still needs after it.                                       *)
Complete(S) ==
  /\ Some(S, Loading) => Some(S, Hows)
  /\ Some(S, Hows) \/ "sfs_truncfile" \in S \/ "truncate" \in S => "fd_array_open" \in S
  /\ "inode_open_dec" \in S => "inode_ref_dec" \in S
  /\ Some(S, FsLock) => "sfs_reclaim" \in S \/ "sfs_sync" \in S \/ ("sfs_load_inode" \in S)
  /\ Some(S, SinLock) => "truncate" \in S \/ "sfs_fsync" \in S \/ "sfs_io_nolock" \in S
  /\ "load_icode_read" \in S => "load_icode" \in S

(* The call has a reference, or is counted as an opener.                   *)
HasRef(S) == Some(S, RefSteps)
HasOpen(S) == "inode_open_dec" \in S \/ ("fd_array_open" \in S /\ ~Some(S, Hows))

Status == {"FD_NONE", "FD_INIT", "FD_OPENED", "FD_CLOSED"}
CallSet == [steps : Seq(Steps), node : Node \cup {none}, fd : Fd \cup {none},
            ino : Ino \cup {none}, todo : SUBSET (Fd \cup Node)]

SemType ==
  /\ value \in [Sem -> {0, 1}]
  /\ wait_queue \in [Sem -> Seq(Thread)]
  /\ asleep \subseteq Thread

NodeType ==
  /\ ino \in [Node -> Ino \cup {none}]
  /\ ref_count \in [Node -> Int] /\ open_count \in [Node -> Int]
  /\ reclaim_count \in [Node -> Int]
  /\ dirty \subseteq Node /\ stale \subseteq Ino

TableType ==
  /\ alive \subseteq Thread
  /\ fd_array \in [Thread -> [Fd -> [status : Status, node : Node \cup {none}]]]
  /\ call \in [Thread -> CallSet]
  /\ leaked \in [Node -> [ref : Nat, open : Nat]]

FileType == SemType /\ NodeType /\ TableType

Open(t) == Slots(t, "FD_OPENED")

(* What a call with these steps left knows of its inode, of the slot it    *)
(* fills or frees, and of the descriptors it closes one by one.            *)
Shape(t) ==
  /\ Ordered(call[t].steps) /\ Complete(Left(t))
  /\ Left(t) = {} => call[t] = NoCall

KnowsNode(t) ==
  /\ Some(Left(t), Loading) => call[t].node = none /\ call[t].ino \in Ino
  /\ Some(Left(t), NodeSteps) /\ ~Some(Left(t), Loading) => call[t].node \in Node
  /\ call[t].node # none =>
       /\ ino[call[t].node] # none
       /\ \/ HasRef(Left(t))
          \/ Some(Left(t), {"sfs_reclaim", "vop_kill", "failed_unlock", "sfs_sync"})
          \/ \E f \in Open(t) : fd_array[t][f].node = call[t].node

KnowsSlots(t) ==
  /\ "fd_array_open" \in Left(t) \/ "fd_array_free" \in Left(t) => call[t].fd \in Fd \ Open(t)
  /\ "next_fd" \in Left(t) => call[t].todo = Open(t)
  /\ Some(Left(t), {"kfree", "sysfile_open"}) /\ "next_fd" \notin Left(t) => Open(t) = {}
  /\ "sysfile_open" \in Left(t) => call[t].ino \in Ino
  /\ "load_icode" \in Left(t) =>
       IF "fd_array_open" \in Left(t) THEN Open(t) = {}
       ELSE Open(t) = {call[t].fd} /\ fd_array[t][call[t].fd].node = call[t].node
  /\ \A f \in Open(t) : fd_array[t][f].node \in Node /\ ino[fd_array[t][f].node] # none

(* A process without a table is in no call; initproc opens nothing and is  *)
(* the one that syncs, when all the tables are gone.                       *)
KnowsAlive(t) ==
  /\ t \notin alive => Open(t) = {} /\ (t # initproc => call[t] = NoCall)
  /\ t = initproc => Open(t) = {} /\ (call[t] # NoCall => alive = {} /\ "sfs_sync" \in Left(t))
  /\ "sfs_sync" \in Left(t) => t = initproc
  /\ "sfs_sync" \in Left(t) => \A n \in call[t].todo : n \in Node /\ ino[n] # none

CallOK(t) == Shape(t) /\ KnowsNode(t) /\ KnowsSlots(t) /\ KnowsAlive(t)

CallInv ==
  /\ alive = {} \/ initproc \in alive
  /\ \A t \in Thread : CallOK(t)

(* Who waits in which queue: the sleepers, each once.                      *)
WaitsFor(t, s) ==
  \/ Now(t) = "woken_sfs_fs" /\ s = fs_sem
  \/ Now(t) = "woken_sin" /\ s = call[t].node

QueueInv ==
  /\ \A s \in Sem : \A k \in 1..Len(wait_queue[s]) :
       wait_queue[s][k] \in asleep /\ WaitsFor(wait_queue[s][k], s)
  /\ \A s \in Sem : \A j, k \in 1..Len(wait_queue[s]) :
       wait_queue[s][j] = wait_queue[s][k] => j = k
  /\ \A t \in asleep : Now(t) \in {"woken_sfs_fs", "woken_sin"}

(* Who has a semaphore; a thread that up() has woken has it already.       *)
HasFs(t) ==
  \/ Now(t) \in Loading \cup {"sfs_reclaim", "failed_unlock"}
  \/ "vop_kill" \in Left(t)
  \/ "sfs_sync" \in Left(t) /\ Now(t) \notin FsLock
  \/ Now(t) = "woken_sfs_fs" /\ t \notin asleep

HasSin(t) == Now(t) \in InSin \/ (Now(t) = "woken_sin" /\ t \notin asleep)

Holds(t, s) == (s = fs_sem /\ HasFs(t)) \/ (s = call[t].node /\ HasSin(t))

TokenInv ==
  \A s \in Sem :
    /\ value[s] = 1 => \A t \in Thread : ~Holds(t, s)
    /\ value[s] = 0 => \E t \in Thread : Holds(t, s)
    /\ \A t, u \in Thread : Holds(t, s) /\ Holds(u, s) => t = u

(* The calls that the counts of an inode stand for.                        *)
RefOf(n) == {t \in Thread : call[t].node = n /\ HasRef(Left(t))}
OpenOf(n) == {t \in Thread : call[t].node = n /\ HasOpen(Left(t))}
ReclaimOf(n) == {t \in Thread : call[t].node = n /\ "sfs_reclaim" \in Left(t)}

Bit(b) == IF b THEN 1 ELSE 0

Counted(n) ==
  /\ ref_count[n] = Cardinality(Descriptors(n)) + leaked[n].ref + Cardinality(RefOf(n))
  /\ open_count[n] = Cardinality(Descriptors(n)) + leaked[n].open + Cardinality(OpenOf(n))
  /\ reclaim_count[n] = Cardinality(ReclaimOf(n)) + Bit(ref_count[n] > 0)

CountInv ==
  /\ \A n \in Node : ino[n] # none => Counted(n)
  /\ \A n \in Node : ino[n] = none => leaked[n].ref = 0
  /\ \A n \in Node : leaked[n].open <= leaked[n].ref
  /\ \A t \in Thread : "vop_kill" \in Left(t) =>
       ref_count[call[t].node] = 0 /\ reclaim_count[call[t].node] = 0

(* An inode is read only when it is not cached, is forgotten only when it  *)
(* is clean, and there is one for a file that is stale.                    *)
CleanInv ==
  /\ \A t \in Thread : Now(t) = "sfs_rbuf" => \A n \in Node : ino[n] # call[t].ino
  /\ \A m, n \in Node : ino[m] = ino[n] /\ ino[n] # none => m = n
  /\ \A t \in Thread : "vop_kill" \in Left(t) /\ Now(t) \in {"vop_kill", "sfs_wbuf"} =>
       call[t].node \notin dirty
  /\ \A i \in stale : \E n \in Node :
       ino[n] = i /\ (n \in dirty \/ \E t \in Thread : call[t].node = n /\ Now(t) = "sfs_wbuf")

FileInv == FileType /\ CallInv /\ QueueInv /\ TokenInv /\ CountInv /\ CleanInv
-----------------------------------------------------------------------------
(* The steps of a call.                                                    *)
LEMMA OrderedTail ==
  ASSUME NEW s \in Seq(Steps), Ordered(s), s # <<>>
  PROVE  LET r == Tail(s) IN
         /\ r \in Seq(Steps) /\ Ordered(r) /\ Head(s) \in Steps
         /\ Head(s) = s[1] /\ Len(s) \in Nat \ {0}
         /\ Elems(s) = {Head(s)} \cup Elems(r)
         /\ \A y \in Elems(r) : Follows(Head(s), y)
<1> DEFINE r == Tail(s)
<1>1. /\ r \in Seq(Steps) /\ Len(r) = Len(s) - 1 /\ Len(s) \in Nat \ {0}
      /\ \A k \in 1..Len(r) : r[k] = s[k + 1]
      /\ Head(s) = s[1] /\ Head(s) \in Steps
  OBVIOUS
<1> HIDE DEF r
<1>2. Ordered(r)
  BY <1>1 DEF Ordered
<1>3. Elems(s) = {s[1]} \cup Elems(r)
  <2>1. ASSUME NEW k \in 1..Len(s) PROVE s[k] \in {s[1]} \cup Elems(r)
    <3>1. CASE k = 1
      BY <3>1
    <3>2. CASE k # 1
      <4>1. k - 1 \in 1..Len(r) /\ r[k - 1] = s[k]
        BY <1>1, <3>2
      <4> QED
        BY <4>1 DEF Elems
    <3> QED
      BY <3>1, <3>2
  <2>2. ASSUME NEW k \in 1..Len(r) PROVE r[k] \in Elems(s)
    <3>1. k + 1 \in 1..Len(s) /\ r[k] = s[k + 1]
      BY <1>1
    <3> QED
      BY <3>1 DEF Elems
  <2>3. s[1] \in Elems(s)
    BY <1>1 DEF Elems
  <2> QED
    BY <2>1, <2>2, <2>3 DEF Elems
<1>4. ASSUME NEW k \in 1..Len(r) PROVE Follows(s[1], r[k])
  <2>1. 1 \in 1..Len(s) /\ k + 1 \in 1..Len(s) /\ 1 < k + 1 /\ r[k] = s[k + 1]
    BY <1>1
  <2> QED
    BY <2>1 DEF Ordered
<1> QED
  BY <1>1, <1>2, <1>3, <1>4 DEF Elems, r

LEMMA OrderedConcat ==
  ASSUME NEW p \in Seq(Steps), Ordered(p), NEW s \in Seq(Steps), Ordered(s),
         \A x \in Elems(p), y \in Elems(s) : Follows(x, y)
  PROVE  LET r == p \o s IN
         /\ r \in Seq(Steps) /\ Ordered(r) /\ Elems(r) = Elems(p) \cup Elems(s)
         /\ p # <<>> => r # <<>> /\ Head(r) = Head(p)
<1> DEFINE r == p \o s
<1>1. /\ r \in Seq(Steps) /\ Len(r) = Len(p) + Len(s) /\ Len(p) \in Nat /\ Len(s) \in Nat
      /\ \A k \in 1..Len(r) : r[k] = IF k <= Len(p) THEN p[k] ELSE s[k - Len(p)]
  OBVIOUS
<1>2. p # <<>> => r # <<>> /\ Head(r) = Head(p)
  OBVIOUS
<1> HIDE DEF r
<1>3. \A k \in 1..Len(r) :
        \/ k \in 1..Len(p) /\ r[k] = p[k] /\ r[k] \in Elems(p)
        \/ k > Len(p) /\ k - Len(p) \in 1..Len(s) /\ r[k] = s[k - Len(p)] /\ r[k] \in Elems(s)
  <2> TAKE k \in 1..Len(r)
  <2>1. CASE k <= Len(p)
    <3>1. k \in 1..Len(p) /\ r[k] = p[k]
      BY <1>1, <2>1
    <3> QED
      BY <3>1 DEF Elems
  <2>2. CASE ~(k <= Len(p))
    <3>1. k > Len(p) /\ k - Len(p) \in 1..Len(s) /\ r[k] = s[k - Len(p)]
      BY <1>1, <2>2
    <3> QED
      BY <3>1 DEF Elems
  <2> QED
    BY <2>1, <2>2
<1>4. Ordered(r)
  <2> SUFFICES ASSUME NEW i \in 1..Len(r), NEW j \in 1..Len(r), i < j
               PROVE  Follows(r[i], r[j])
    BY DEF Ordered
  <2>1. CASE j \in 1..Len(p) /\ r[j] = p[j]
    <3>1. i \in 1..Len(p) /\ r[i] = p[i]
      BY <1>1, <2>1
    <3> QED
      BY <2>1, <3>1 DEF Ordered
  <2>2. CASE j > Len(p) /\ j - Len(p) \in 1..Len(s) /\ r[j] = s[j - Len(p)] /\ r[j] \in Elems(s)
    <3>1. CASE r[i] \in Elems(p)
      BY <2>2, <3>1
    <3>2. CASE i > Len(p) /\ i - Len(p) \in 1..Len(s) /\ r[i] = s[i - Len(p)]
      <4>1. i - Len(p) < j - Len(p)
        BY <1>1
      <4> QED
        BY <2>2, <3>2, <4>1 DEF Ordered
    <3> QED
      BY <1>3, <3>1, <3>2
  <2> QED
    BY <1>3, <2>1, <2>2
<1>5. Elems(r) = Elems(p) \cup Elems(s)
  <2>1. \A k \in 1..Len(r) : r[k] \in Elems(p) \cup Elems(s)
    BY <1>3
  <2>2. ASSUME NEW k \in 1..Len(p) PROVE p[k] \in Elems(r)
    <3>1. k \in 1..Len(r) /\ r[k] = p[k]
      BY <1>1
    <3> QED
      BY <3>1 DEF Elems
  <2>3. ASSUME NEW k \in 1..Len(s) PROVE s[k] \in Elems(r)
    <3>1. k + Len(p) \in 1..Len(r) /\ ~(k + Len(p) <= Len(p)) /\ (k + Len(p)) - Len(p) = k
      BY <1>1
    <3>2. r[k + Len(p)] = s[k]
      BY <1>1, <3>1
    <3> QED
      BY <3>1, <3>2 DEF Elems
  <2> QED
    BY <2>1, <2>2, <2>3 DEF Elems
<1> QED
  BY <1>1, <1>2, <1>4, <1>5 DEF r

(* What is put in the place of a step.                                     *)
LEMMA Prefix1 ==
  ASSUME NEW a \in Steps
  PROVE  /\ <<a>> \in Seq(Steps) /\ Ordered(<<a>>) /\ Elems(<<a>>) = {a}
         /\ <<a>> # <<>> /\ Head(<<a>>) = a
  BY DEF Ordered, Elems

LEMMA Prefix2 ==
  ASSUME NEW a \in Steps, NEW b \in Steps, Follows(a, b)
  PROVE  /\ <<a, b>> \in Seq(Steps) /\ Ordered(<<a, b>>) /\ Elems(<<a, b>>) = {a, b}
         /\ <<a, b>> # <<>> /\ Head(<<a, b>>) = a
  BY DEF Ordered, Elems

LEMMA Prefix4 ==
  ASSUME NEW a \in Steps, NEW b \in Steps, NEW c \in Steps, NEW d \in Steps,
         Follows(a, b), Follows(a, c), Follows(b, c),
         Follows(a, d), Follows(b, d), Follows(c, d)
  PROVE  /\ <<a, b, c, d>> \in Seq(Steps) /\ Ordered(<<a, b, c, d>>)
         /\ Elems(<<a, b, c, d>>) = {a, b, c, d}
         /\ <<a, b, c, d>> # <<>> /\ Head(<<a, b, c, d>>) = a
  BY DEF Ordered, Elems

LEMMA OrderedFirst ==
  ASSUME NEW s \in Seq(Steps), Ordered(s), s # <<>>
  PROVE  \A x, y \in Elems(s) : x = y \/ Follows(x, y) \/ Follows(y, x)
<1> SUFFICES ASSUME NEW i \in 1..Len(s), NEW j \in 1..Len(s), s[i] # s[j]
             PROVE  Follows(s[i], s[j]) \/ Follows(s[j], s[i])
  BY DEF Elems
<1>1. i < j \/ j < i
  OBVIOUS
<1> QED
  BY <1>1 DEF Ordered

-----------------------------------------------------------------------------
(* The semaphores.                                                         *)
LEMMA QueueFrom ==
  ASSUME SemType',
         \A x \in Sem : \A k \in 1..Len(wait_queue'[x]) : \A u \in Thread :
           u = wait_queue'[x][k] => u \in asleep' /\ WaitsFor(u, x)',
         \A x \in Sem : \A j, k \in 1..Len(wait_queue'[x]) :
           wait_queue'[x][j] = wait_queue'[x][k] => j = k,
         \A u \in asleep' : Now(u)' \in {"woken_sfs_fs", "woken_sin"}
  PROVE  QueueInv'
<1>1. \A x \in Sem : \A k \in 1..Len(wait_queue'[x]) : wait_queue'[x][k] \in Thread
  BY DEF SemType
<1>2. ASSUME NEW x \in Sem, NEW k \in 1..Len(wait_queue'[x])
      PROVE  wait_queue'[x][k] \in asleep' /\ WaitsFor(wait_queue[x][k], x)'
  <2>1. PICK u \in Thread : u = wait_queue'[x][k]
    BY <1>1
  <2>2. u \in asleep' /\ WaitsFor(u, x)'
    BY <2>1
  <2> QED
    BY <2>1, <2>2 DEF WaitsFor, Now
<1> QED
  BY <1>2 DEF QueueInv

(* A call that keeps its permits and does not sleep.                       *)
LEMMA SameTokens ==
  ASSUME FileType, QueueInv, TokenInv, UNCHANGED <<value, wait_queue, asleep>>,
         NEW t \in Thread, t \notin asleep,
         \A u \in Thread \ {t} : call'[u] = call[u],
         \A s \in Sem : Holds(t, s)' <=> Holds(t, s)
  PROVE  SemType' /\ QueueInv' /\ TokenInv'
<1>1. SemType'
  BY DEF FileType, SemType
<1>2. \A u \in Thread \ {t} : Now(u)' = Now(u) /\ Left(u)' = Left(u)
  BY DEF Now, Left
<1>3. asleep \subseteq Thread \ {t}
  BY DEF FileType, SemType
<1>4. QueueInv'
  BY <1>2, <1>3 DEF QueueInv, WaitsFor
<1>5. \A u \in Thread, s \in Sem : Holds(u, s)' <=> Holds(u, s)
  BY <1>2 DEF Holds, HasFs, HasSin
<1>6. TokenInv'
  BY <1>5 DEF TokenInv
<1> QED
  BY <1>1, <1>4, <1>6

LEMMA TakeToken ==
  ASSUME FileType, QueueInv, TokenInv, NEW s \in Sem, down_take(s),
         NEW t \in Thread, t \notin asleep,
         \A u \in Thread \ {t} : call'[u] = call[u],
         Holds(t, s)', \A x \in Sem \ {s} : Holds(t, x)' <=> Holds(t, x)
  PROVE  SemType' /\ QueueInv' /\ TokenInv'
<1>0. value[s] = 1
  <2>1. value[s] \in {0, 1} /\ value[s] > 0
    BY DEF FileType, SemType, down_take
  <2> QED
    BY <2>1
<1>1. /\ UNCHANGED <<wait_queue, asleep>>
      /\ \A x \in Sem : value'[x] = IF x = s THEN 0 ELSE value[x]
  BY <1>0 DEF FileType, SemType, down_take
<1>2. SemType'
  BY <1>0, <1>1 DEF FileType, SemType, down_take
<1>3. \A u \in Thread \ {t} : Now(u)' = Now(u) /\ Left(u)' = Left(u)
  BY DEF Now, Left
<1>4. asleep \subseteq Thread \ {t}
  BY DEF FileType, SemType
<1>5. QueueInv'
  BY <1>1, <1>3, <1>4 DEF QueueInv, WaitsFor
<1>6. \A u \in Thread \ {t}, x \in Sem : Holds(u, x)' <=> Holds(u, x)
  BY <1>1, <1>3 DEF Holds, HasFs, HasSin
<1>7. \A u \in Thread : ~Holds(u, s)
  BY <1>0 DEF TokenInv
<1>8. TokenInv'
  BY <1>1, <1>6, <1>7 DEF TokenInv
<1> QED
  BY <1>2, <1>5, <1>8

LEMMA SleepTokens ==
  ASSUME FileType, QueueInv, TokenInv, NEW s \in Sem, NEW t \in Thread, t \notin asleep,
         down_sleep(t, s), WaitsFor(t, s)', \A u \in Thread \ {t} : call'[u] = call[u],
         \A x \in Sem : Holds(t, x)' <=> Holds(t, x)
  PROVE  SemType' /\ QueueInv' /\ TokenInv'
<1> DEFINE q == wait_queue[s]
<1>1. /\ UNCHANGED value /\ asleep' = asleep \cup {t}
      /\ wait_queue' = [wait_queue EXCEPT ![s] = Append(q, t)]
  BY DEF down_sleep
<1>2. q \in Seq(Thread) /\ Append(q, t) \in Seq(Thread) /\ Len(q) \in Nat
      /\ Len(Append(q, t)) = Len(q) + 1
      /\ \A k \in 1..Len(q) + 1 : Append(q, t)[k] = IF k = Len(q) + 1 THEN t ELSE q[k]
  BY DEF FileType, SemType
<1>3. SemType'
  BY <1>1, <1>2 DEF FileType, SemType
<1>4. \A u \in Thread \ {t} : Now(u)' = Now(u) /\ Left(u)' = Left(u)
  BY DEF Now, Left
<1>5. asleep \subseteq Thread \ {t}
  BY DEF FileType, SemType
<1>6. \A x \in Sem : wait_queue'[x] = IF x = s THEN Append(q, t) ELSE wait_queue[x]
  BY <1>1 DEF FileType, SemType
<1>7. \A k \in 1..Len(q) : q[k] # t
  BY <1>5 DEF QueueInv
<1>8. \A u \in Thread, x \in Sem : \A k \in 1..Len(wait_queue[x]) :
        u = wait_queue[x][k] => u \in asleep' /\ WaitsFor(u, x)'
  BY <1>1, <1>4, <1>5 DEF QueueInv, WaitsFor
<1>9. QueueInv'
  <2>1. ASSUME NEW x \in Sem, NEW k \in 1..Len(wait_queue'[x]),
               NEW u \in Thread, u = wait_queue'[x][k]
        PROVE  u \in asleep' /\ WaitsFor(u, x)'
    <3>1. CASE x = s /\ k = Len(q) + 1
      BY <1>1, <1>2, <1>6, <2>1, <3>1
    <3>2. CASE ~(x = s /\ k = Len(q) + 1)
      <4>1. k \in 1..Len(wait_queue[x]) /\ u = wait_queue[x][k]
        <5>1. CASE x = s
          <6>1. k \in 1..Len(q) + 1 /\ k # Len(q) + 1 /\ u = Append(q, t)[k]
            BY <1>2, <1>6, <2>1, <3>2, <5>1
          <6> QED
            BY <1>2, <5>1, <6>1
        <5>2. CASE x # s
          BY <1>6, <2>1, <5>2
        <5> QED
          BY <5>1, <5>2
      <4> QED
        BY <1>8, <4>1
    <3> QED
      BY <3>1, <3>2
  <2>2. ASSUME NEW x \in Sem, NEW j \in 1..Len(wait_queue'[x]),
               NEW k \in 1..Len(wait_queue'[x]), wait_queue'[x][j] = wait_queue'[x][k]
        PROVE  j = k
    <3>1. CASE x = s
      <4>1. j \in 1..Len(q) + 1 /\ k \in 1..Len(q) + 1 /\ Append(q, t)[j] = Append(q, t)[k]
        BY <1>2, <1>6, <2>2, <3>1
      <4>2. CASE j \in 1..Len(q) /\ k \in 1..Len(q)
        BY <1>2, <4>1, <4>2 DEF QueueInv
      <4>3. CASE j = Len(q) + 1 \/ k = Len(q) + 1
        BY <1>2, <1>7, <4>1, <4>3
      <4> QED
        BY <1>2, <4>1, <4>2, <4>3
    <3>2. CASE x # s
      BY <1>6, <2>2, <3>2 DEF QueueInv
    <3> QED
      BY <3>1, <3>2
  <2>3. ASSUME NEW u \in asleep' PROVE Now(u)' \in {"woken_sfs_fs", "woken_sin"}
    BY <1>1, <1>4, <1>5 DEF QueueInv, WaitsFor
  <2> QED
    BY <1>3, <2>1, <2>2, <2>3, QueueFrom
<1>10. \A u \in Thread, x \in Sem : Holds(u, x)' <=> Holds(u, x)
  BY <1>1, <1>4 DEF Holds, HasFs, HasSin
<1>11. TokenInv'
  BY <1>1, <1>10 DEF TokenInv
<1> QED
  BY <1>3, <1>9, <1>11

LEMMA ResumeTokens ==
  ASSUME FileType, QueueInv, TokenInv, NEW s \in Sem, NEW t \in Thread,
         down_resume(t, s), \A u \in Thread \ {t} : call'[u] = call[u],
         \A x \in Sem : Holds(t, x)' <=> Holds(t, x)
  PROVE  SemType' /\ QueueInv' /\ TokenInv'
<1>1. t \notin asleep /\ UNCHANGED <<value, asleep>>
      /\ wait_queue' = [wait_queue EXCEPT ![s] = RemoveFirst(wait_queue[s], t)]
  BY DEF down_resume
<1>2. ~\E k \in 1..Len(wait_queue[s]) : wait_queue[s][k] = t
  BY <1>1 DEF QueueInv
<1>3. RemoveFirst(wait_queue[s], t) = wait_queue[s]
  BY <1>2 DEF RemoveFirst
<1>4. wait_queue' = wait_queue
  BY <1>1, <1>3 DEF FileType, SemType
<1> QED
  BY <1>1, <1>4, SameTokens

LEMMA GiveToken ==
  ASSUME FileType, QueueInv, TokenInv, NEW s \in Sem, up(s), NEW t \in Thread, t \notin asleep,
         \A u \in Thread \ {t} : call'[u] = call[u],
         Holds(t, s), ~Holds(t, s)', \A x \in Sem \ {s} : Holds(t, x)' <=> Holds(t, x)
  PROVE  SemType' /\ QueueInv' /\ TokenInv'
<1> DEFINE q == wait_queue[s]
<1>1. \A u \in Thread \ {t} : Now(u)' = Now(u) /\ Left(u)' = Left(u)
  BY DEF Now, Left
<1>2. asleep \subseteq Thread \ {t}
  BY DEF FileType, SemType
<1>3. \A u \in Thread \ {t} : ~Holds(u, s)
  BY DEF TokenInv
<1>4. q \in Seq(Thread)
  BY DEF FileType, SemType
<1>5. CASE q = <<>>
  <2>1. value' = [value EXCEPT ![s] = @ + 1] /\ UNCHANGED <<wait_queue, asleep>>
    BY <1>5 DEF up
  <2>2. value[s] = 0
    BY DEF TokenInv, FileType, SemType
  <2>3. SemType'
    BY <2>1, <2>2 DEF FileType, SemType
  <2>4. QueueInv'
    BY <1>1, <1>2, <2>1 DEF QueueInv, WaitsFor
  <2>5. \A u \in Thread \ {t}, x \in Sem : Holds(u, x)' <=> Holds(u, x)
    BY <1>1, <2>1 DEF Holds, HasFs, HasSin
  <2>6. \A x \in Sem : value'[x] = IF x = s THEN 1 ELSE value[x]
    BY <2>1, <2>2 DEF FileType, SemType
  <2>7. TokenInv'
    BY <1>3, <2>5, <2>6 DEF TokenInv
  <2> QED
    BY <2>3, <2>4, <2>7
<1>6. CASE q # <<>>
  <2> PICK h \in Thread : h = Head(q)
    BY <1>4, <1>6
  <2>1. /\ UNCHANGED value /\ asleep' = asleep \ {h}
        /\ wait_queue' = [wait_queue EXCEPT ![s] = Tail(q)]
    BY <1>6 DEF up
  <2>2. /\ Len(q) \in Nat \ {0} /\ h = q[1] /\ 1 \in 1..Len(q)
        /\ Tail(q) \in Seq(Thread) /\ Len(Tail(q)) = Len(q) - 1
        /\ \A k \in 1..Len(q) - 1 : Tail(q)[k] = q[k + 1]
    BY <1>4, <1>6
  <2>3. h \in asleep /\ WaitsFor(h, s) /\ h \in Thread \ {t}
    BY <1>2, <2>2 DEF QueueInv
  <2> HIDE DEF q
  <2>4. SemType'
    BY <2>1, <2>2 DEF FileType, SemType
  <2>5. \A x \in Sem : wait_queue'[x] = IF x = s THEN Tail(q) ELSE wait_queue[x]
    BY <2>1 DEF FileType, SemType
  <2>6. \A x \in Sem \ {s} : \A k \in 1..Len(wait_queue[x]) : wait_queue[x][k] # h
    BY <2>3 DEF QueueInv, WaitsFor
  <2>7. \A k \in 1..Len(q) - 1 : k + 1 \in 1..Len(q) /\ q[k + 1] # h
    BY <2>2 DEF QueueInv, q
  <2>8. QueueInv'
    <3>1. ASSUME NEW x \in Sem, NEW k \in 1..Len(wait_queue'[x]),
                 NEW u \in Thread, u = wait_queue'[x][k]
          PROVE  u \in asleep' /\ WaitsFor(u, x)'
      <4>1. u \in asleep' /\ WaitsFor(u, x)
        <5>1. CASE x = s
          <6>1. k \in 1..Len(q) - 1 /\ wait_queue'[x][k] = q[k + 1]
            BY <2>2, <2>5, <5>1
          <6> QED
            BY <2>1, <2>7, <3>1, <5>1, <6>1 DEF QueueInv, q
        <5>2. CASE x # s
          BY <2>1, <2>5, <2>6, <3>1, <5>2 DEF QueueInv
        <5> QED
          BY <5>1, <5>2
      <4> QED
        BY <1>1, <1>2, <2>1, <4>1 DEF WaitsFor
    <3>2. ASSUME NEW x \in Sem, NEW j \in 1..Len(wait_queue'[x]),
                 NEW k \in 1..Len(wait_queue'[x]), wait_queue'[x][j] = wait_queue'[x][k]
          PROVE  j = k
      <4>1. CASE x = s
        <5>1. /\ j \in 1..Len(q) - 1 /\ k \in 1..Len(q) - 1
              /\ q[j + 1] = q[k + 1]
          BY <2>2, <2>5, <3>2, <4>1
        <5>2. j + 1 = k + 1
          BY <2>7, <5>1 DEF QueueInv, q
        <5> QED
          BY <2>2, <5>1, <5>2
      <4>2. CASE x # s
        BY <2>5, <3>2, <4>2 DEF QueueInv
      <4> QED
        BY <4>1, <4>2
    <3>3. ASSUME NEW u \in asleep' PROVE Now(u)' \in {"woken_sfs_fs", "woken_sin"}
      BY <1>1, <1>2, <2>1 DEF QueueInv
    <3> QED
      BY <2>4, <3>1, <3>2, <3>3, QueueFrom
  <2>9. \A u \in Thread \ {t, h}, x \in Sem : Holds(u, x)' <=> Holds(u, x)
    <3>1. \A u \in Thread \ {t, h} : u \in asleep' <=> u \in asleep
      BY <2>1
    <3> QED
      BY <1>1, <3>1 DEF Holds, HasFs, HasSin
  <2>10. \A x \in Sem : Holds(h, x)' <=> x = s \/ Holds(h, x)
    <3>1. h \notin asleep' /\ Now(h)' = Now(h) /\ Left(h)' = Left(h) /\ call'[h] = call[h]
      BY <1>1, <2>1, <2>3
    <3>2. CASE Now(h) = "woken_sfs_fs" /\ s = fs_sem
      BY <2>3, <3>1, <3>2 DEF Holds, HasFs, HasSin, InSin
    <3>3. CASE Now(h) = "woken_sin" /\ s = call[h].node
      BY <2>3, <3>1, <3>3 DEF Holds, HasFs, HasSin, InSin, FsLock, Loading
    <3> QED
      BY <2>3, <3>2, <3>3 DEF WaitsFor
  <2>11. TokenInv'
    <3>1. value[s] = 0
      BY DEF TokenInv, FileType, SemType
    <3> QED
      BY <1>3, <2>1, <2>3, <2>9, <2>10, <3>1 DEF TokenInv
  <2> QED
    BY <2>4, <2>8, <2>11
<1> QED
  BY <1>5, <1>6
-----------------------------------------------------------------------------
(* What a call in Shape looks like: the step at hand is x, the steps that  *)
(* are left are those of L.                                                *)
FirstOf(s) == IF s = <<>> THEN "none" ELSE Head(s)

Order(x, L) ==
  /\ L \subseteq Steps /\ x \in L \cup {"none"} /\ (x = "none" => L = {})
  /\ \A y \in L : x = y \/ Follows(x, y)
  /\ \A y, z \in L : y = z \/ Follows(y, z) \/ Follows(z, y)

View(x, L) == Order(x, L) /\ Complete(L)

LEMMA SeqOrder ==
  ASSUME NEW s \in Seq(Steps), Ordered(s)
  PROVE  Order(FirstOf(s), Elems(s)) /\ (Elems(s) = {} <=> s = <<>>)
<1>1. CASE s = <<>>
  <2>1. Elems(s) = {}
    BY <1>1 DEF Elems
  <2> QED
    BY <1>1, <2>1 DEF Order, FirstOf
<1>2. CASE s # <<>>
  <2>1. /\ Elems(s) = {Head(s)} \cup Elems(Tail(s))
        /\ \A y \in Elems(Tail(s)) : Follows(Head(s), y)
    BY <1>2, OrderedTail
  <2>2. Elems(s) \subseteq Steps
    BY DEF Elems
  <2>3. \A y, z \in Elems(s) : y = z \/ Follows(y, z) \/ Follows(z, y)
    BY <1>2, OrderedFirst
  <2>4. Head(s) # "none"
    BY <2>1, <2>2 DEF Steps, NodeSteps, RefSteps, SinLock, InSin, FsLock, Loading, Ending, Exec
  <2> QED
    BY <1>2, <2>1, <2>2, <2>3, <2>4 DEF Order, FirstOf
<1> QED
  BY <1>1, <1>2

LEMMA ViewOfCall ==
  ASSUME FileType, NEW t \in Thread, Shape(t)
  PROVE  View(Now(t), Left(t)) /\ (Now(t) = "none" <=> Left(t) = {})
<1>1. call[t].steps \in Seq(Steps)
  BY DEF FileType, TableType, CallSet
<1>2. Order(Now(t), Left(t)) /\ (Left(t) = {} <=> call[t].steps = <<>>)
  BY <1>1, SeqOrder DEF Shape, Now, Left, FirstOf
<1> QED
  BY <1>2 DEF View, Shape, Order, Now

(* c is the call of t with other steps: for After those that are left      *)
(* behind the step at hand, with the steps of P before them.               *)
Keeps(t, c) ==
  /\ c \in CallSet /\ Ordered(c.steps)
  /\ Order(FirstOf(c.steps), Elems(c.steps))
  /\ Elems(c.steps) = {} => c = NoCall
  /\ Elems(c.steps) # {} => /\ c.node = call[t].node /\ c.fd = call[t].fd
                            /\ c.ino = call[t].ino /\ c.todo = call[t].todo

After(t, c, P) == Keeps(t, c) /\ Elems(c.steps) = P \cup (Left(t) \ {Now(t)})

LEMMA TailOfCall ==
  ASSUME FileType, NEW t \in Thread, Shape(t), Now(t) # "none"
  PROVE  LET r == Tail(call[t].steps) IN
         /\ r \in Seq(Steps) /\ Ordered(r) /\ Elems(r) = Left(t) \ {Now(t)}
<1> DEFINE s == call[t].steps
<1>1. s \in Seq(Steps) /\ Ordered(s) /\ s # <<>> /\ Now(t) = Head(s) /\ Left(t) = Elems(s)
  BY DEF FileType, TableType, CallSet, Shape, Now, Left
<1> HIDE DEF s
<1>2. /\ Tail(s) \in Seq(Steps) /\ Ordered(Tail(s)) /\ Head(s) \in Steps
      /\ Elems(s) = {Head(s)} \cup Elems(Tail(s))
      /\ \A y \in Elems(Tail(s)) : Follows(Head(s), y)
  BY <1>1, OrderedTail
<1>3. \A x \in Steps : ~Follows(x, x)
  BY DEF Follows, Steps, NodeSteps, RefSteps, SinLock, InSin, FsLock, Loading, Ending, Exec, Hows
<1> QED
  BY <1>1, <1>2, <1>3 DEF s

LEMMA AfterFrom ==
  ASSUME FileType, NEW t \in Thread, NEW p, NEW P,
         LET r == p \o Tail(call[t].steps) IN
         /\ r \in Seq(Steps) /\ Ordered(r) /\ Elems(r) = P \cup (Left(t) \ {Now(t)})
  PROVE  After(t, Replaced(t, p), P)
         /\ Replaced(t, p).steps = p \o Tail(call[t].steps)
<1> DEFINE r == p \o Tail(call[t].steps)
           c == Replaced(t, p)
<1>1. r \in Seq(Steps) /\ Ordered(r) /\ Elems(r) = P \cup (Left(t) \ {Now(t)})
  OBVIOUS
<1>2. c = IF r = <<>> THEN NoCall ELSE [call[t] EXCEPT !.steps = r]
  BY DEF Replaced
<1>3. call[t] \in CallSet
  BY DEF FileType, TableType
<1> HIDE DEF r, c
<1>4. Order(FirstOf(r), Elems(r)) /\ (Elems(r) = {} <=> r = <<>>)
  BY <1>1, SeqOrder
<1>5. CASE r = <<>>
  <2>1. c = NoCall /\ c.steps = r /\ NoCall \in CallSet
    BY <1>2, <1>5 DEF NoCall, CallSet
  <2> QED
    BY <1>1, <1>4, <1>5, <2>1 DEF After, Keeps, c, r
<1>6. CASE r # <<>>
  <2>1. c = [call[t] EXCEPT !.steps = r]
    BY <1>2, <1>6
  <2>2. /\ c \in CallSet /\ c.steps = r /\ c.node = call[t].node /\ c.fd = call[t].fd
        /\ c.ino = call[t].ino /\ c.todo = call[t].todo
    BY <1>1, <1>3, <2>1 DEF CallSet
  <2> QED
    BY <1>1, <1>4, <1>6, <2>2 DEF After, Keeps, c, r
<1> QED
  BY <1>5, <1>6

LEMMA ReplaceWith ==
  ASSUME FileType, NEW t \in Thread, Shape(t), Now(t) # "none",
         NEW p \in Seq(Steps), Ordered(p), \A x \in Elems(p), y \in Left(t) \ {Now(t)} : Follows(x, y)
  PROVE  After(t, Replaced(t, p), Elems(p))
         /\ (p # <<>> => FirstOf(Replaced(t, p).steps) = Head(p))
<1> DEFINE r == Tail(call[t].steps)
<1>1. r \in Seq(Steps) /\ Ordered(r) /\ Elems(r) = Left(t) \ {Now(t)}
  BY TailOfCall
<1> HIDE DEF r
<1> DEFINE w == p \o r
<1>2. /\ w \in Seq(Steps) /\ Ordered(w) /\ Elems(w) = Elems(p) \cup Elems(r)
      /\ p # <<>> => w # <<>> /\ Head(w) = Head(p)
  BY <1>1, OrderedConcat
<1> HIDE DEF w
<1>3. LET u == p \o Tail(call[t].steps) IN
      u \in Seq(Steps) /\ Ordered(u) /\ Elems(u) = Elems(p) \cup (Left(t) \ {Now(t)})
  BY <1>1, <1>2 DEF w, r
<1>4. After(t, Replaced(t, p), Elems(p)) /\ Replaced(t, p).steps = w
  BY <1>3, AfterFrom DEF w, r
<1> QED
  BY <1>2, <1>4 DEF FirstOf

LEMMA Replace0 ==
  ASSUME FileType, NEW t \in Thread, Shape(t), Now(t) # "none"
  PROVE  After(t, Replaced(t, <<>>), {})
<1>1. <<>> \in Seq(Steps) /\ Ordered(<<>>) /\ Elems(<<>>) = {}
  BY DEF Ordered, Elems
<1> QED
  BY <1>1, ReplaceWith

LEMMA Replace1 ==
  ASSUME FileType, NEW t \in Thread, Shape(t), Now(t) # "none", NEW a \in Steps,
         \A y \in Left(t) \ {Now(t)} : Follows(a, y)
  PROVE  After(t, Replaced(t, <<a>>), {a}) /\ FirstOf(Replaced(t, <<a>>).steps) = a
<1>1. <<a>> \in Seq(Steps) /\ Ordered(<<a>>) /\ Elems(<<a>>) = {a} /\ <<a>> # <<>> /\ Head(<<a>>) = a
  BY Prefix1
<1> QED
  BY <1>1, ReplaceWith

LEMMA Replace2 ==
  ASSUME FileType, NEW t \in Thread, Shape(t), Now(t) # "none",
         NEW a \in Steps, NEW b \in Steps, Follows(a, b),
         \A y \in Left(t) \ {Now(t)} : Follows(a, y) /\ Follows(b, y)
  PROVE  After(t, Replaced(t, <<a, b>>), {a, b}) /\ FirstOf(Replaced(t, <<a, b>>).steps) = a
<1>1. /\ <<a, b>> \in Seq(Steps) /\ Ordered(<<a, b>>) /\ Elems(<<a, b>>) = {a, b}
      /\ <<a, b>> # <<>> /\ Head(<<a, b>>) = a
  BY Prefix2
<1> QED
  BY <1>1, ReplaceWith

(* What comes next, by the step at hand.                                   *)
LEMMA NextOfFsLock ==
  ASSUME NEW x, NEW L, View(x, L), x \in FsLock, NEW N, NEW M, M = L \ {x}, Order(N, M)
  PROVE  /\ N \in {"sfs_load_inode", "sfs_reclaim", "sfs_sync"} /\ Complete(M)
         /\ "vop_kill" \notin L /\ ("sfs_sync" \in L => N = "sfs_sync")
  BY DEF View, Order, Complete, Follows, Some, Hows, FsLock, SinLock, Loading, Ending, Exec,
         RefSteps, InSin

LEMMA WokenOfFsLock ==
  ASSUME NEW L, View("lock_sfs_fs", L), NEW M,
         M = {"woken_sfs_fs"} \cup (L \ {"lock_sfs_fs"})
  PROVE  /\ Complete(M) /\ "vop_kill" \notin L
         /\ \A y \in L \ {"lock_sfs_fs"} : Follows("woken_sfs_fs", y)
  BY DEF View, Order, Complete, Follows, Some, Hows, FsLock, SinLock, Loading, Ending, Exec,
         RefSteps, InSin

LEMMA NextOfSinLock ==
  ASSUME NEW x, NEW L, View(x, L), x \in SinLock, NEW N, NEW M, M = L \ {x}, Order(N, M)
  PROVE  N \in {"truncate", "sfs_fsync", "sfs_io_nolock"} /\ Complete(M)
  BY DEF View, Order, Complete, Follows, Some, Hows, FsLock, SinLock, Loading, Ending, Exec,
         RefSteps, InSin

LEMMA WokenOfSinLock ==
  ASSUME NEW L, View("lock_sin", L), NEW M, M = {"woken_sin"} \cup (L \ {"lock_sin"})
  PROVE  Complete(M) /\ \A y \in L \ {"lock_sin"} : Follows("woken_sin", y)
  BY DEF View, Order, Complete, Follows, Some, Hows, FsLock, SinLock, Loading, Ending, Exec,
         RefSteps, InSin

LEMMA NextOfLoading ==
  ASSUME NEW x, NEW L, View(x, L), x \in Loading, NEW N, NEW M, M = L \ {x}, Order(N, M)
  PROVE  /\ L \subseteq {x, "fd_array_open"} \cup Hows \cup Exec /\ "fd_array_open" \in L
         /\ N \in Hows /\ Complete(M)
  BY DEF View, Order, Complete, Follows, Some, Hows, FsLock, SinLock, Loading, Ending, Exec,
         RefSteps, InSin

LEMMA NextOfHow ==
  ASSUME NEW x, NEW L, View(x, L), x \in Hows \cup {"sfs_truncfile", "truncate"}
  PROVE  /\ L \subseteq {x, "fd_array_open"} \cup Exec /\ x \in L /\ "fd_array_open" \in L
         /\ "load_icode_read" \in L => "load_icode" \in L
         /\ x # "plain" => L = {x, "fd_array_open"}
<1>1. /\ L \subseteq {x, "fd_array_open"} \cup Exec /\ x \in L /\ "fd_array_open" \in L
      /\ "load_icode_read" \in L => "load_icode" \in L
  BY DEF View, Order, Complete, Follows, Some, Hows, FsLock, SinLock, Loading, Ending, Exec,
         RefSteps, InSin
<1>2. ASSUME x # "plain" PROVE "load_icode" \notin L /\ "load_icode_read" \notin L
  BY <1>2 DEF View, Order, Complete, Follows, Some, Hows, FsLock, SinLock, Loading, Ending, Exec,
         RefSteps, InSin
<1> QED
  BY <1>1, <1>2 DEF Exec

LEMMA NextOfClose ==
  ASSUME NEW L, View("inode_open_dec", L), NEW N, NEW M, M = L \ {"inode_open_dec"}, Order(N, M)
  PROVE  /\ L \subseteq {"inode_open_dec", "inode_ref_dec"} \cup Ending
         /\ "inode_ref_dec" \in L /\ N = "inode_ref_dec" /\ Complete(M)
  BY DEF View, Order, Complete, Follows, Some, Hows, FsLock, SinLock, Loading, Ending, Exec,
         RefSteps, InSin

LEMMA NextOfFsync ==
  ASSUME NEW x, NEW L, View(x, L), x \in {"sfs_fsync", "sfs_wbuf"},
         NEW N, NEW M, M = L \ {x}, Order(N, M)
  PROVE  /\ L \subseteq {x, "inode_ref_dec", "vop_kill", "sfs_sync"} \cup Ending
         /\ N \in {"inode_ref_dec", "vop_kill", "sfs_sync", "none"} \cup Ending
         /\ Complete(M)
         /\ "vop_kill" \in L => N = "vop_kill" /\ M \subseteq {"vop_kill"} \cup Ending
         /\ "sfs_sync" \in L => N = "sfs_sync"
         /\ N = "vop_kill" => "vop_kill" \in L
         /\ N = "inode_ref_dec" => "inode_ref_dec" \in L
  BY DEF View, Order, Complete, Follows, Some, Hows, FsLock, SinLock, Loading, Ending, Exec,
         RefSteps, InSin

LEMMA NextOfNode ==
  ASSUME NEW x, NEW L, View(x, L), x \in {"inode_ref_dec", "sfs_reclaim", "vop_kill", "failed_unlock"},
         NEW N, NEW M, M = L \ {x}, Order(N, M)
  PROVE  /\ L \subseteq {x} \cup Ending /\ M \subseteq Ending
         /\ N \in Ending \cup {"none"} /\ Complete(M)
  BY DEF View, Order, Complete, Follows, Some, Hows, FsLock, SinLock, Loading, Ending, Exec,
         RefSteps, InSin

LEMMA NextOfEnding ==
  ASSUME NEW x, NEW L, View(x, L), x \in Ending, NEW N, NEW M, M = L \ {x}, Order(N, M)
  PROVE  /\ L \subseteq Ending /\ "fd_array_free" \notin M /\ N \in Ending \cup {"none"}
         /\ Complete(M)
         /\ x # "fd_array_free" => "next_fd" \notin M
         /\ x \in {"kfree", "sysfile_open"} => M = {}
  BY DEF View, Order, Complete, Follows, Some, Hows, FsLock, SinLock, Loading, Ending, Exec,
         RefSteps, InSin

LEMMA NextOfExec ==
  ASSUME NEW x, NEW L, View(x, L),
         x \in {"fd_array_open", "sfs_io_nolock", "load_icode_read"},
         NEW N, NEW M, M = L \ {x}, Order(N, M)
  PROVE  /\ L \subseteq {x} \cup Exec /\ M \subseteq Exec /\ Complete(M)
         /\ N \in Exec \cup {"none"}
         /\ x = "load_icode_read" => M = {"load_icode"} /\ N = "load_icode"
<1>1. L \subseteq {x} \cup Exec
  BY DEF View, Order, Complete, Follows, Some, Hows, FsLock, SinLock, Loading, Ending, Exec,
         RefSteps, InSin
<1>2. M \subseteq Exec /\ N \in Exec \cup {"none"} /\ Complete(M)
  BY <1>1 DEF View, Order, Complete, Follows, Some, Hows, FsLock, SinLock, Loading, Ending, Exec,
         RefSteps, InSin
<1>3. ASSUME x = "load_icode_read" PROVE M = {"load_icode"} /\ N = "load_icode"
  <2>1. "load_icode" \in L
    BY <1>3 DEF View, Order, Complete
  <2>2. M = {"load_icode"}
    BY <1>1, <1>3, <2>1 DEF Exec
  <2> QED
    BY <2>2 DEF Order
<1> QED
  BY <1>1, <1>2, <1>3

LEMMA NothingNext ==
  ASSUME NEW x, NEW L, View(x, L), x \in {"load_icode", "sfs_sync"}
  PROVE  L \ {x} = {} /\ L \subseteq {x}
  BY DEF View, Order, Complete, Follows, Some, Hows, FsLock, SinLock, Loading, Ending, Exec,
         RefSteps, InSin
-----------------------------------------------------------------------------
(* The counts.  What a set gains or loses at one element.                  *)
LEMMA CardMove ==
  ASSUME NEW S, IsFiniteSet(S), NEW T, NEW e, T \ {e} = S \ {e}
  PROVE  /\ IsFiniteSet(T) /\ Cardinality(S) \in Nat /\ Cardinality(T) \in Nat
         /\ Cardinality(T) - Cardinality(S) = Bit(e \in T) - Bit(e \in S)
<1> DEFINE R == S \ {e}
<1>1. /\ IsFiniteSet(R) /\ Cardinality(R) \in Nat /\ Cardinality(S) \in Nat
      /\ Cardinality(S) = Cardinality(R) + Bit(e \in S)
  <2>1. /\ IsFiniteSet(R) /\ Cardinality(S) \in Nat
        /\ Cardinality(R) = IF e \in S THEN Cardinality(S) - 1 ELSE Cardinality(S)
    BY FS_RemoveElement, FS_CardinalityType
  <2>2. Cardinality(R) \in Nat
    BY <2>1, FS_CardinalityType
  <2> QED
    BY <2>1, <2>2 DEF Bit
<1>2. CASE e \in T
  <2>1. T = R \cup {e} /\ e \notin R
    BY <1>2
  <2>2. IsFiniteSet(T) /\ Cardinality(T) = Cardinality(R) + 1
    BY <1>1, <2>1, FS_AddElement
  <2> QED
    BY <1>1, <1>2, <2>2 DEF Bit
<1>3. CASE e \notin T
  <2>1. T = R
    BY <1>3
  <2> QED
    BY <1>1, <1>3, <2>1 DEF Bit
<1> QED
  BY <1>2, <1>3

LEMMA InDescriptors ==
  ASSUME NEW n, NEW u \in Thread, NEW f \in Fd
  PROVE  <<u, f>> \in Descriptors(n) <=> f \in Open(u) /\ fd_array[u][f].node = n
  BY DEF Descriptors, Open

LEMMA FiniteCounts ==
  ASSUME NEW n
  PROVE  /\ IsFiniteSet(Descriptors(n)) /\ IsFiniteSet(RefOf(n))
         /\ IsFiniteSet(OpenOf(n)) /\ IsFiniteSet(ReclaimOf(n))
<1>1. IsFiniteSet(Thread) /\ IsFiniteSet(Thread \X Fd)
  BY SfsInodeAssumption, FileTableAssumption, FS_Product
<1>2. /\ Descriptors(n) \in SUBSET (Thread \X Fd) /\ RefOf(n) \in SUBSET Thread
      /\ OpenOf(n) \in SUBSET Thread /\ ReclaimOf(n) \in SUBSET Thread
  BY DEF Descriptors, RefOf, OpenOf, ReclaimOf
<1> QED
  BY <1>1, <1>2, FS_Subset

LEMMA CountsMoveAll ==
  ASSUME FileType, NEW n \in Node, Counted(n), NEW t \in Thread, NEW f,
         ref_count'[n] \in Int, open_count'[n] \in Int, reclaim_count'[n] \in Int,
         leaked'[n].ref \in Nat, leaked'[n].open \in Nat,
         \A u \in Thread \ {t} : call'[u] = call[u],
         \A u \in Thread, g \in Fd : <<u, g>> # <<t, f>> => fd_array'[u][g] = fd_array[u][g],
         ref_count'[n] - ref_count[n] =
           leaked'[n].ref - leaked[n].ref
             + (Bit((<<t, f>> \in Descriptors(n))') - Bit(<<t, f>> \in Descriptors(n)))
             + (Bit((t \in RefOf(n))') - Bit(t \in RefOf(n))),
         open_count'[n] - open_count[n] =
           leaked'[n].open - leaked[n].open
             + (Bit((<<t, f>> \in Descriptors(n))') - Bit(<<t, f>> \in Descriptors(n)))
             + (Bit((t \in OpenOf(n))') - Bit(t \in OpenOf(n))),
         reclaim_count'[n] - reclaim_count[n] =
           (Bit((t \in ReclaimOf(n))') - Bit(t \in ReclaimOf(n)))
             + (Bit(ref_count'[n] > 0) - Bit(ref_count[n] > 0))
  PROVE  Counted(n)'
<1>1. \A u \in Thread \ {t} : call'[u] = call[u] /\ Left(u)' = Left(u)
  BY DEF Left
<1>2. /\ RefOf(n)' \ {t} = RefOf(n) \ {t} /\ OpenOf(n)' \ {t} = OpenOf(n) \ {t}
      /\ ReclaimOf(n)' \ {t} = ReclaimOf(n) \ {t}
  BY <1>1 DEF RefOf, OpenOf, ReclaimOf
<1>3. \A u \in Thread, g \in Fd : <<u, g>> # <<t, f>> =>
        (<<u, g>> \in Descriptors(n)' <=> <<u, g>> \in Descriptors(n))
  BY DEF Descriptors, Slots
<1>4. Descriptors(n)' \subseteq Thread \X Fd /\ Descriptors(n) \subseteq Thread \X Fd
  BY DEF Descriptors
<1>5. Descriptors(n)' \ {<<t, f>>} = Descriptors(n) \ {<<t, f>>}
  BY <1>3, <1>4
<1> DEFINE D == Descriptors(n)
           R == RefOf(n)
           O == OpenOf(n)
           C == ReclaimOf(n)
<1>6. /\ Cardinality(D) \in Nat /\ Cardinality(D') \in Nat
      /\ Cardinality(D') - Cardinality(D) = Bit((<<t, f>> \in D)') - Bit(<<t, f>> \in D)
  BY <1>5, FiniteCounts, CardMove
<1>7. /\ Cardinality(R) \in Nat /\ Cardinality(R') \in Nat
      /\ Cardinality(R') - Cardinality(R) = Bit((t \in R)') - Bit(t \in R)
  BY <1>2, FiniteCounts, CardMove
<1>8. /\ Cardinality(O) \in Nat /\ Cardinality(O') \in Nat
      /\ Cardinality(O') - Cardinality(O) = Bit((t \in O)') - Bit(t \in O)
  BY <1>2, FiniteCounts, CardMove
<1>9. /\ Cardinality(C) \in Nat /\ Cardinality(C') \in Nat
      /\ Cardinality(C') - Cardinality(C) = Bit((t \in C)') - Bit(t \in C)
  BY <1>2, FiniteCounts, CardMove
<1>10. /\ ref_count[n] \in Int /\ open_count[n] \in Int /\ reclaim_count[n] \in Int
       /\ leaked[n].ref \in Nat /\ leaked[n].open \in Nat
  BY DEF FileType, NodeType, TableType
<1>11. /\ Bit((<<t, f>> \in D)') \in Int /\ Bit(<<t, f>> \in D) \in Int
       /\ Bit((t \in R)') \in Int /\ Bit(t \in R) \in Int
       /\ Bit((t \in O)') \in Int /\ Bit(t \in O) \in Int
       /\ Bit((t \in C)') \in Int /\ Bit(t \in C) \in Int
       /\ Bit(ref_count'[n] > 0) \in Int /\ Bit(ref_count[n] > 0) \in Int
  BY DEF Bit
<1>15. /\ ref_count[n] = Cardinality(D) + leaked[n].ref + Cardinality(R)
       /\ open_count[n] = Cardinality(D) + leaked[n].open + Cardinality(O)
       /\ reclaim_count[n] = Cardinality(C) + Bit(ref_count[n] > 0)
  BY DEF Counted
<1>16. /\ ref_count'[n] - ref_count[n] =
            leaked'[n].ref - leaked[n].ref + (Bit((<<t, f>> \in D)') - Bit(<<t, f>> \in D))
              + (Bit((t \in R)') - Bit(t \in R))
       /\ open_count'[n] - open_count[n] =
            leaked'[n].open - leaked[n].open + (Bit((<<t, f>> \in D)') - Bit(<<t, f>> \in D))
              + (Bit((t \in O)') - Bit(t \in O))
       /\ reclaim_count'[n] - reclaim_count[n] =
            (Bit((t \in C)') - Bit(t \in C)) + (Bit(ref_count'[n] > 0) - Bit(ref_count[n] > 0))
  OBVIOUS
<1>17. ref_count'[n] \in Int /\ open_count'[n] \in Int /\ reclaim_count'[n] \in Int
       /\ leaked'[n].ref \in Nat /\ leaked'[n].open \in Nat
  OBVIOUS
<1> HIDE DEF D, R, O, C
<1>12. ref_count'[n] = Cardinality(D') + leaked'[n].ref + Cardinality(R')
  <2> DEFINE a == ref_count[n]
             b == ref_count'[n]
             d == Cardinality(D)
             e == Cardinality(D')
             l == leaked[n].ref
             k == leaked'[n].ref
             r == Cardinality(R)
             q == Cardinality(R')
  <2>1. /\ a \in Int /\ b \in Int /\ d \in Int /\ e \in Int
        /\ l \in Int /\ k \in Int /\ r \in Int /\ q \in Int
    BY ONLY <1>6, <1>7, <1>10, <1>17
  <2>2. a = d + l + r /\ b - a = k - l + (e - d) + (q - r)
    BY ONLY <1>6, <1>7, <1>15, <1>16
  <2> HIDE DEF a, b, d, e, l, k, r, q
  <2>3. b = e + k + q
    BY ONLY <2>1, <2>2
  <2> QED
    BY ONLY <2>3 DEF b, e, k, q
<1>13. open_count'[n] = Cardinality(D') + leaked'[n].open + Cardinality(O')
  <2> DEFINE a == open_count[n]
             b == open_count'[n]
             d == Cardinality(D)
             e == Cardinality(D')
             l == leaked[n].open
             k == leaked'[n].open
             r == Cardinality(O)
             q == Cardinality(O')
  <2>1. /\ a \in Int /\ b \in Int /\ d \in Int /\ e \in Int
        /\ l \in Int /\ k \in Int /\ r \in Int /\ q \in Int
    BY ONLY <1>6, <1>8, <1>10, <1>17
  <2>2. a = d + l + r /\ b - a = k - l + (e - d) + (q - r)
    BY ONLY <1>6, <1>8, <1>15, <1>16
  <2> HIDE DEF a, b, d, e, l, k, r, q
  <2>3. b = e + k + q
    BY ONLY <2>1, <2>2
  <2> QED
    BY ONLY <2>3 DEF b, e, k, q
<1>14. reclaim_count'[n] = Cardinality(C') + Bit(ref_count'[n] > 0)
  BY ONLY <1>9, <1>10, <1>11, <1>15, <1>16, <1>17 DEF Bit
<1> QED
  BY <1>12, <1>13, <1>14 DEF Counted, D, R, O, C

(* The same when nobody leaves the inode open.                             *)
LEMMA CountsMove ==
  ASSUME FileType, NEW n \in Node, Counted(n), NEW t \in Thread, NEW f,
         ref_count'[n] \in Int, open_count'[n] \in Int, reclaim_count'[n] \in Int,
         leaked'[n].ref \in Nat, leaked'[n].open = leaked[n].open,
         \A u \in Thread \ {t} : call'[u] = call[u],
         \A u \in Thread, g \in Fd : <<u, g>> # <<t, f>> => fd_array'[u][g] = fd_array[u][g],
         ref_count'[n] - ref_count[n] =
           leaked'[n].ref - leaked[n].ref
             + (Bit((<<t, f>> \in Descriptors(n))') - Bit(<<t, f>> \in Descriptors(n)))
             + (Bit((t \in RefOf(n))') - Bit(t \in RefOf(n))),
         open_count'[n] - open_count[n] =
           (Bit((<<t, f>> \in Descriptors(n))') - Bit(<<t, f>> \in Descriptors(n)))
             + (Bit((t \in OpenOf(n))') - Bit(t \in OpenOf(n))),
         reclaim_count'[n] - reclaim_count[n] =
           (Bit((t \in ReclaimOf(n))') - Bit(t \in ReclaimOf(n)))
             + (Bit(ref_count'[n] > 0) - Bit(ref_count[n] > 0))
  PROVE  Counted(n)'
<1> DEFINE d == Bit((<<t, f>> \in Descriptors(n))') - Bit(<<t, f>> \in Descriptors(n))
           o == Bit((t \in OpenOf(n))') - Bit(t \in OpenOf(n))
<1>1. leaked[n].open \in Nat
  BY DEF FileType, TableType
<1>2. d \in Int /\ o \in Int
  BY DEF Bit
<1>3. open_count'[n] - open_count[n] = d + o
  OBVIOUS
<1> HIDE DEF d, o
<1>4. open_count'[n] - open_count[n] = leaked'[n].open - leaked[n].open + d + o
  BY <1>1, <1>2, <1>3
<1> QED
  BY <1>1, <1>4, CountsMoveAll DEF d, o

(* An inode that is counted but not referenced is nobody's.                *)
LEMMA Unreferenced ==
  ASSUME FileType, NEW n \in Node, Counted(n), ref_count[n] = 0
  PROVE  /\ Descriptors(n) = {} /\ RefOf(n) = {} /\ leaked[n].ref = 0
         /\ reclaim_count[n] = 0 => ReclaimOf(n) = {}
<1>1. /\ Cardinality(Descriptors(n)) \in Nat /\ Cardinality(RefOf(n)) \in Nat
      /\ Cardinality(ReclaimOf(n)) \in Nat /\ leaked[n].ref \in Nat
  BY FiniteCounts, FS_CardinalityType DEF FileType, TableType
<1>2. Cardinality(Descriptors(n)) = 0 /\ Cardinality(RefOf(n)) = 0 /\ leaked[n].ref = 0
      /\ (reclaim_count[n] = 0 => Cardinality(ReclaimOf(n)) = 0)
  BY <1>1 DEF Counted, Bit
<1> QED
  BY <1>2, FiniteCounts, FS_EmptySet

LEMMA Referenced ==
  ASSUME FileType, NEW n \in Node, Counted(n)
  PROVE  /\ ref_count[n] \in Nat
         /\ ref_count[n] = 0 => Descriptors(n) = {} /\ RefOf(n) = {} /\ leaked[n].ref = 0
<1>1. /\ Cardinality(Descriptors(n)) \in Nat /\ Cardinality(RefOf(n)) \in Nat
      /\ leaked[n].ref \in Nat
  BY FiniteCounts, FS_CardinalityType DEF FileType, TableType
<1> QED
  BY <1>1, Unreferenced DEF Counted
-----------------------------------------------------------------------------
(* What a call in the invariant knows.                                     *)
LEMMA HasSome ==
  ASSUME FileType, NEW t \in Thread, NEW S
  PROVE  Has(t, S) <=> Some(Left(t), S)
<1> DEFINE s == call[t].steps
<1>1. s \in Seq(Steps)
  BY DEF FileType, TableType, CallSet
<1>2. DOMAIN s = 1..Len(s)
  BY <1>1
<1> QED
  BY <1>2 DEF Has, Some, Left, Elems

LEMMA CallFacts ==
  ASSUME FileType, CallInv, NEW t \in Thread
  PROVE  /\ CallOK(t) /\ View(Now(t), Left(t)) /\ (Now(t) = "none" <=> Left(t) = {})
         /\ call[t] \in CallSet /\ (call[t] = NoCall => Left(t) = {} /\ call[t].node = none)
<1>1. CallOK(t) /\ call[t] \in CallSet
  BY DEF CallInv, FileType, TableType
<1>2. View(Now(t), Left(t)) /\ (Now(t) = "none" <=> Left(t) = {})
  BY <1>1, ViewOfCall DEF CallOK
<1>3. ASSUME call[t] = NoCall PROVE Left(t) = {} /\ call[t].node = none
  BY <1>3 DEF NoCall, Left, Elems
<1> QED
  BY <1>1, <1>2, <1>3

(* Steps that do not go together.                                          *)
LEMMA Exclusive ==
  ASSUME NEW x, NEW L, View(x, L)
  PROVE  /\ "vop_kill" \in L => ~Some(L, Loading) /\ "sfs_sync" \notin L /\ ~HasRef(L)
                                /\ ~HasOpen(L) /\ "sfs_reclaim" \notin L
         /\ "failed_unlock" \in L => x = "failed_unlock"
         /\ "sfs_sync" \in L => ~Some(L, Loading) /\ ~HasRef(L) /\ ~HasOpen(L)
                                /\ "sfs_reclaim" \notin L
  BY DEF View, Order, Complete, Follows, Some, Hows, FsLock, SinLock, Loading, Ending, Exec,
         RefSteps, InSin, HasRef, HasOpen

(* An inode that is about to be freed is nobody else's.                    *)
LEMMA KillAlone ==
  ASSUME FileInv, NEW t \in Thread, "vop_kill" \in Left(t)
  PROVE  LET n == call[t].node IN
         /\ n \in Node /\ ino[n] # none /\ Descriptors(n) = {} /\ leaked[n].ref = 0
         /\ \A u \in Thread \ {t} : call[u].node # n
         /\ t # initproc /\ t \in alive
<1> DEFINE n == call[t].node
<1>1. CallOK(t) /\ View(Now(t), Left(t))
  BY CallFacts DEF FileInv
<1>2. ~Some(Left(t), Loading) /\ "sfs_sync" \notin Left(t)
  BY <1>1, Exclusive
<1>3. n \in Node /\ ino[n] # none
  <2>1. Some(Left(t), NodeSteps)
    BY DEF Some, NodeSteps
  <2> QED
    BY <1>1, <1>2, <2>1, SfsInodeAssumption DEF CallOK, KnowsNode
<1>4. t # initproc /\ t \in alive
  <2>1. call[t] # NoCall
    BY CallFacts DEF FileInv
  <2> QED
    BY <1>1, <1>2, <2>1 DEF CallOK, KnowsAlive
<1>5. Counted(n) /\ ref_count[n] = 0 /\ reclaim_count[n] = 0
  BY <1>3 DEF FileInv, CountInv
<1>6. Descriptors(n) = {} /\ RefOf(n) = {} /\ leaked[n].ref = 0 /\ ReclaimOf(n) = {}
  BY <1>3, <1>5, Unreferenced DEF FileInv
<1>7. fs_sem \in Sem /\ Holds(t, fs_sem)
  BY SfsInodeAssumption DEF Holds, HasFs
<1>8. ASSUME NEW u \in Thread \ {t}, call[u].node = n PROVE FALSE
  <2>1. CallOK(u) /\ View(Now(u), Left(u)) /\ call[u].node # none
    BY <1>3, <1>8, CallFacts, SfsInodeAssumption DEF FileInv
  <2>2. ~Holds(u, fs_sem)
    BY <1>7 DEF FileInv, TokenInv
  <2>3. "vop_kill" \notin Left(u) /\ "failed_unlock" \notin Left(u)
    BY <2>1, <2>2, Exclusive DEF Holds, HasFs
  <2>4. ~HasRef(Left(u)) /\ "sfs_reclaim" \notin Left(u)
    BY <1>6, <1>8 DEF RefOf, ReclaimOf
  <2>5. "sfs_sync" \notin Left(u)
    <3>1. CASE call[u] # NoCall
      BY <1>4, <2>1, <3>1 DEF CallOK, KnowsAlive
    <3>2. CASE call[u] = NoCall
      BY <3>2, CallFacts DEF FileInv
    <3> QED
      BY <3>1, <3>2
  <2>6. \A f \in Open(u) : fd_array[u][f].node # n
    BY <1>6, InDescriptors DEF Open, Slots
  <2> QED
    BY <1>8, <2>1, <2>3, <2>4, <2>5, <2>6 DEF CallOK, KnowsNode, Some
<1> QED
  BY <1>3, <1>4, <1>6, <1>8

(* The calls of the other processes, when t takes a step.                  *)
LEMMA OthersOK ==
  ASSUME FileType, CallInv, NEW t \in Thread,
         \A u \in Thread \ {t} : /\ call'[u] = call[u] /\ fd_array'[u] = fd_array[u]
                                 /\ u \in alive' <=> u \in alive,
         alive = {} => alive' = {},
         \A n \in Node : ino[n] # none /\ ino'[n] = none =>
           /\ alive # {}
           /\ \A u \in Thread \ {t} : /\ call[u].node # n
                                      /\ \A f \in Open(u) : fd_array[u][f].node # n
  PROVE  \A u \in Thread \ {t} : CallOK(u)'
<1> TAKE u \in Thread \ {t}
<1>1. CallOK(u)
  BY DEF CallInv
<1>2. Left(u)' = Left(u) /\ Open(u)' = Open(u) /\ call'[u] = call[u] /\ fd_array'[u] = fd_array[u]
  BY DEF Left, Open, Slots
<1>3. Shape(u)'
  BY <1>1, <1>2 DEF CallOK, Shape
<1>4. KnowsNode(u)'
  <2>1. ASSUME call[u].node # none PROVE ino'[call[u].node] # none
    <3>1. ino[call[u].node] # none /\ call[u].node \in Node
      BY <1>1, <2>1 DEF CallOK, KnowsNode, FileType, TableType, CallSet
    <3> QED
      BY <3>1
  <2> QED
    BY <1>1, <1>2, <2>1 DEF CallOK, KnowsNode
<1>5. KnowsSlots(u)'
  BY <1>1, <1>2 DEF CallOK, KnowsSlots
<1>6. KnowsAlive(u)'
  <2>1. ASSUME "sfs_sync" \in Left(u) PROVE \A n \in call[u].todo : n \in Node /\ ino'[n] # none
    <3>1. call[u] # NoCall
      BY <2>1, CallFacts
    <3>2. alive = {} /\ \A n \in call[u].todo : n \in Node /\ ino[n] # none
      BY <1>1, <2>1, <3>1 DEF CallOK, KnowsAlive
    <3> QED
      BY <3>2
  <2> QED
    BY <1>1, <1>2, <2>1 DEF CallOK, KnowsAlive
<1> QED
  BY <1>3, <1>4, <1>5, <1>6 DEF CallOK

(* The call of t, when its inode, its slots and its loop stay the same.    *)
KeepSteps == RefSteps \cup {"sfs_reclaim", "vop_kill", "failed_unlock", "sfs_sync"}

Continues(L, M) ==
  /\ Complete(M)
  /\ Some(M, Loading) => Some(L, Loading)
  /\ Some(M, NodeSteps) /\ ~Some(M, Loading) => Some(L, NodeSteps) /\ ~Some(L, Loading)
  /\ Some(L, KeepSteps) => Some(M, KeepSteps) \/ M = {}
  /\ "fd_array_open" \in M \/ "fd_array_free" \in M =>
       "fd_array_open" \in L \/ "fd_array_free" \in L
  /\ "next_fd" \in M => "next_fd" \in L
  /\ Some(M, {"kfree", "sysfile_open"}) /\ "next_fd" \notin M =>
       Some(L, {"kfree", "sysfile_open"}) /\ "next_fd" \notin L
  /\ "sysfile_open" \in M => "sysfile_open" \in L
  /\ "load_icode" \in M =>
       "load_icode" \in L /\ ("fd_array_open" \in M <=> "fd_array_open" \in L)
  /\ "sfs_sync" \in L => "sfs_sync" \in M \/ M = {}
  /\ "sfs_sync" \in M => "sfs_sync" \in L

LEMMA SameCall ==
  ASSUME FileType, NEW t \in Thread, NEW c, call' = [call EXCEPT ![t] = c]
  PROVE  /\ \A u \in Thread \ {t} : call'[u] = call[u]
         /\ call'[t] = c /\ Left(t)' = Elems(c.steps) /\ Now(t)' = FirstOf(c.steps)
  BY DEF FileType, TableType, Left, Now, FirstOf

LEMMA KeepsHas ==
  ASSUME NEW L
  PROVE  Some(L, KeepSteps) <=>
           HasRef(L) \/ Some(L, {"sfs_reclaim", "vop_kill", "failed_unlock", "sfs_sync"})
  BY DEF Some, KeepSteps, HasRef

LEMMA ContinuesOK ==
  ASSUME FileType, CallInv, NEW t \in Thread, Now(t) # "none", NEW c, Keeps(t, c),
         call' = [call EXCEPT ![t] = c], UNCHANGED <<ino, alive>>, Open(t)' = Open(t),
         \A f \in Open(t) : fd_array'[t][f].node = fd_array[t][f].node,
         Continues(Left(t), Elems(c.steps))
  PROVE  CallOK(t)'
<1> DEFINE L == Left(t)
           M == Elems(c.steps)
<1>1. CallOK(t) /\ call[t] \in CallSet /\ (call[t] = NoCall => L = {})
  BY CallFacts
<1>2. call'[t] = c /\ Left(t)' = M
  BY SameCall
<1>3. M = {} => c = NoCall
  BY DEF After, Keeps
<1>4. M # {} => /\ c.node = call[t].node /\ c.fd = call[t].fd
                /\ c.ino = call[t].ino /\ c.todo = call[t].todo
  BY DEF After, Keeps
<1>5. NoCall.node = none
  BY DEF NoCall
<1>12. L # {}
  BY CallFacts
<1> HIDE DEF L, M
<1>6. Continues(L, M)
  BY DEF L, M
<1>7. Shape(t)'
  BY <1>2, <1>3, <1>6 DEF Shape, After, Keeps, Continues
<1>8. \A S : Some({}, S) <=> FALSE
  BY DEF Some
<1>9. KnowsNode(t)'
  <2>1. CASE M = {}
    BY <1>2, <1>3, <1>5, <1>8, <2>1 DEF KnowsNode
  <2>2. CASE M # {}
    <3>1. Some(M, Loading) => c.node = none /\ c.ino \in Ino
      BY <1>1, <1>4, <1>6, <2>2 DEF CallOK, KnowsNode, Continues, L
    <3>2. Some(M, NodeSteps) /\ ~Some(M, Loading) => c.node \in Node
      BY <1>1, <1>4, <1>6, <2>2 DEF CallOK, KnowsNode, Continues, L
    <3>3. ASSUME c.node # none
          PROVE  /\ ino[c.node] # none
                 /\ \/ Some(M, KeepSteps)
                    \/ \E f \in Open(t) : fd_array[t][f].node = c.node
      <4>1. ino[c.node] # none
            /\ (Some(L, KeepSteps) \/ \E f \in Open(t) : fd_array[t][f].node = c.node)
        BY <1>1, <1>4, <2>2, <3>3, KeepsHas DEF CallOK, KnowsNode, L
      <4> QED
        BY <1>6, <2>2, <4>1 DEF Continues
    <3> QED
      BY <1>2, <3>1, <3>2, <3>3, KeepsHas DEF KnowsNode
  <2> QED
    BY <2>1, <2>2
<1>10. KnowsSlots(t)'
  <2>1. CASE M = {}
    BY <1>1, <1>2, <1>8, <2>1 DEF KnowsSlots, CallOK
  <2>2. CASE M # {}
    BY <1>1, <1>2, <1>4, <1>6, <2>2 DEF KnowsSlots, CallOK, Continues, L
  <2> QED
    BY <2>1, <2>2
<1>11. KnowsAlive(t)'
  <2>1. CASE M = {}
    BY <1>1, <1>2, <1>3, <2>1 DEF KnowsAlive, CallOK
  <2>2. CASE M # {}
    BY <1>1, <1>2, <1>4, <1>6, <1>12, <2>2 DEF KnowsAlive, CallOK, Continues, L
  <2> QED
    BY <2>1, <2>2
<1> QED
  BY <1>7, <1>9, <1>10, <1>11 DEF CallOK

(* What the counts see of a call.                                          *)
SameBits(L, M) ==
  /\ HasRef(M) <=> HasRef(L)
  /\ HasOpen(M) <=> HasOpen(L)
  /\ "sfs_reclaim" \in M <=> "sfs_reclaim" \in L

NoBits(L) == ~HasRef(L) /\ ~HasOpen(L) /\ "sfs_reclaim" \notin L

LEMMA EmptyHasNone == NoBits({})
  BY DEF NoBits, HasRef, HasOpen, Some

LEMMA SameCounted ==
  ASSUME FileType, CountInv, NEW t \in Thread,
         UNCHANGED <<ref_count, open_count, reclaim_count, leaked>>,
         \A n \in Node : ino'[n] # none => ino[n] # none,
         \A n \in Node : ino'[n] = none => leaked[n].ref = 0,
         \A u \in Thread \ {t} : call'[u] = call[u] /\ fd_array'[u] = fd_array[u],
         Open(t)' = Open(t), \A f \in Open(t) : fd_array'[t][f].node = fd_array[t][f].node,
         \/ call'[t].node = call[t].node /\ SameBits(Left(t), Left(t)')
         \/ NoBits(Left(t)) /\ NoBits(Left(t)')
         \/ call[t].node = none /\ call'[t].node = none,
         "vop_kill" \in Left(t)' => "vop_kill" \in Left(t) /\ call'[t].node = call[t].node
  PROVE  CountInv'
<1>1. \A u \in Thread \ {t} : call'[u] = call[u] /\ Left(u)' = Left(u) /\ Open(u)' = Open(u)
  BY DEF Left, Open, Slots
<1>2. \A n : Descriptors(n)' = Descriptors(n)
  <2> TAKE n
  <2>1. \A u \in Thread, f \in Fd : <<u, f>> \in Descriptors(n)' <=> <<u, f>> \in Descriptors(n)
    <3> TAKE u \in Thread, f \in Fd
    <3>1. CASE u = t
      BY <3>1 DEF Descriptors, Open, Slots
    <3>2. CASE u # t
      BY <1>1, <3>2 DEF Descriptors, Open, Slots
    <3> QED
      BY <3>1, <3>2
  <2>2. Descriptors(n)' \subseteq Thread \X Fd /\ Descriptors(n) \subseteq Thread \X Fd
    BY DEF Descriptors
  <2>3. \A d \in Thread \X Fd : d \in Descriptors(n)' <=> d \in Descriptors(n)
    BY <2>1
  <2> QED
    BY <2>2, <2>3
<1>3. \A n \in Node :
        RefOf(n)' = RefOf(n) /\ OpenOf(n)' = OpenOf(n) /\ ReclaimOf(n)' = ReclaimOf(n)
  BY <1>1, SfsInodeAssumption DEF RefOf, OpenOf, ReclaimOf, SameBits, NoBits
<1>4. \A n \in Node : Counted(n) => Counted(n)'
  BY <1>2, <1>3 DEF Counted
<1>5. \A u \in Thread : "vop_kill" \in Left(u)' =>
        ref_count[call'[u].node] = 0 /\ reclaim_count[call'[u].node] = 0
  BY <1>1 DEF CountInv
<1> QED
  BY <1>4, <1>5 DEF CountInv

LEMMA SameCounts ==
  ASSUME FileType, CountInv, NEW t \in Thread,
         UNCHANGED <<ino, ref_count, open_count, reclaim_count, leaked>>,
         \A u \in Thread \ {t} : call'[u] = call[u] /\ fd_array'[u] = fd_array[u],
         Open(t)' = Open(t), \A f \in Open(t) : fd_array'[t][f].node = fd_array[t][f].node,
         \/ call'[t].node = call[t].node /\ SameBits(Left(t), Left(t)')
         \/ NoBits(Left(t)) /\ NoBits(Left(t)')
         \/ call[t].node = none /\ call'[t].node = none,
         "vop_kill" \in Left(t)' => "vop_kill" \in Left(t) /\ call'[t].node = call[t].node
  PROVE  CountInv'
<1>1. \A n \in Node : ino'[n] = none => leaked[n].ref = 0
  BY DEF CountInv
<1> QED
  BY <1>1, SameCounted

LEMMA LightStep ==
  ASSUME FileInv, NEW t \in Thread, Now(t) # "none", NEW c, Keeps(t, c),
         call' = [call EXCEPT ![t] = c],
         UNCHANGED <<ino, ref_count, open_count, reclaim_count, leaked, alive>>,
         fd_array' \in [Thread -> [Fd -> [status : Status, node : Node \cup {none}]]],
         \A u \in Thread \ {t} : fd_array'[u] = fd_array[u],
         Open(t)' = Open(t), \A f \in Open(t) : fd_array'[t][f].node = fd_array[t][f].node,
         Continues(Left(t), Elems(c.steps)), SameBits(Left(t), Elems(c.steps)),
         "vop_kill" \in Elems(c.steps) => "vop_kill" \in Left(t)
  PROVE  TableType' /\ CallInv' /\ CountInv'
<1>1. /\ \A u \in Thread \ {t} : call'[u] = call[u]
      /\ call'[t] = c /\ Left(t)' = Elems(c.steps)
  BY SameCall DEF FileInv
<1>2. TableType'
  BY DEF FileInv, FileType, TableType, After, Keeps
<1>3. CallOK(t)'
  BY ContinuesOK DEF FileInv
<1>4. \A u \in Thread \ {t} : CallOK(u)'
  BY <1>1, OthersOK DEF FileInv
<1>5. CallInv'
  BY <1>3, <1>4 DEF FileInv, CallInv
<1>6. \/ call'[t].node = call[t].node /\ SameBits(Left(t), Left(t)')
      \/ NoBits(Left(t)) /\ NoBits(Left(t)')
  <2>1. CASE Elems(c.steps) = {}
    BY <1>1, <2>1, EmptyHasNone DEF SameBits, NoBits
  <2>2. CASE Elems(c.steps) # {}
    BY <1>1, <2>2 DEF After, Keeps
  <2> QED
    BY <2>1, <2>2
<1>7. "vop_kill" \in Left(t)' => "vop_kill" \in Left(t) /\ call'[t].node = call[t].node
  BY <1>1 DEF After, Keeps
<1>8. CountInv'
  BY <1>1, <1>6, <1>7, SameCounts DEF FileInv
<1> QED
  BY <1>2, <1>5, <1>8

LEMMA SameClean ==
  ASSUME CleanInv, NEW t \in Thread, UNCHANGED <<ino, dirty, stale>>,
         \A u \in Thread \ {t} : call'[u] = call[u], Now(t) # "sfs_wbuf",
         Now(t)' = "sfs_rbuf" => \A n \in Node : ino[n] # call'[t].ino,
         "vop_kill" \in Left(t)' /\ Now(t)' \in {"vop_kill", "sfs_wbuf"} =>
           call'[t].node \notin dirty
  PROVE  CleanInv'
<1>1. \A u \in Thread \ {t} : call'[u] = call[u] /\ Left(u)' = Left(u) /\ Now(u)' = Now(u)
  BY DEF Left, Now
<1>2. \A i \in stale : \E n \in Node :
        ino[n] = i /\ (n \in dirty \/ \E u \in Thread : call'[u].node = n /\ Now(u)' = "sfs_wbuf")
  BY <1>1 DEF CleanInv
<1> QED
  BY <1>1, <1>2 DEF CleanInv

(* Steps that the counts do not see, and what may come in their place.     *)
LEMMA Passing ==
  ASSUME NEW x, NEW L, View(x, L), x # "none",
         x \notin Loading \cup KeepSteps \cup {"inode_open_dec", "next_fd"},
         NEW P, \/ P = {} \/ P = {"woken_sfs_fs"}
                \/ /\ x \in SinLock \cup InSin \cup {"sfs_truncfile"}
                   /\ P \subseteq SinLock \cup InSin,
         NEW M, M = P \cup (L \ {x}), Complete(M)
  PROVE  Continues(L, M) /\ SameBits(L, M) /\ ("vop_kill" \in M => "vop_kill" \in L)
<1>1. ASSUME x \in SinLock \cup InSin \cup {"sfs_truncfile"}
      PROVE  ~Some(L, Loading) /\ Some(L, NodeSteps)
  BY <1>1 DEF View, Order, Follows, Some, Hows, Loading, SinLock, InSin, NodeSteps, RefSteps,
     FsLock, Ending, Exec
<1>2. ~Some(P, Loading) /\ ~Some(P, KeepSteps) /\ ~Some(P, Ending) /\ ~Some(P, Hows)
      /\ "inode_open_dec" \notin P
  BY DEF Some, Loading, KeepSteps, Ending, Exec, SinLock, InSin, RefSteps, Hows
<1>3. Some(P, NodeSteps) => x \in SinLock \cup InSin \cup {"sfs_truncfile"}
  BY DEF Some, NodeSteps, SinLock, InSin, RefSteps, Exec
<1>6. \A y \in Loading \cup KeepSteps : y \in M <=> y \in L
  BY <1>2 DEF Some, Loading, KeepSteps, RefSteps, Ending, Exec, SinLock, InSin
<1>4. Continues(L, M)
  <2>1. Some(M, Loading) <=> Some(L, Loading)
    BY <1>6 DEF Some, Loading, KeepSteps, RefSteps
  <2>2. Some(M, NodeSteps) /\ ~Some(M, Loading) => Some(L, NodeSteps) /\ ~Some(L, Loading)
    BY <1>1, <1>3, <2>1 DEF Some
  <2>3. Some(L, KeepSteps) => Some(M, KeepSteps)
    BY <1>6 DEF Some
  <2>4. /\ "fd_array_open" \in M <=> "fd_array_open" \in L
        /\ "fd_array_free" \in M => "fd_array_free" \in L
        /\ "next_fd" \in M <=> "next_fd" \in L
        /\ "kfree" \in M => "kfree" \in L
        /\ "sysfile_open" \in M => "sysfile_open" \in L
        /\ "load_icode" \in M => "load_icode" \in L
        /\ "sfs_sync" \in M <=> "sfs_sync" \in L
    BY <1>2 DEF Some, KeepSteps, RefSteps, Ending, SinLock, InSin
  <2>5. Some(M, {"kfree", "sysfile_open"}) => Some(L, {"kfree", "sysfile_open"})
    BY <2>4 DEF Some
  <2> QED
    BY <2>1, <2>2, <2>3, <2>4, <2>5 DEF Continues
<1>5. SameBits(L, M) /\ ("vop_kill" \in M => "vop_kill" \in L)
  BY <1>2 DEF SameBits, HasRef, HasOpen, Some, KeepSteps, RefSteps, Hows
<1> QED
  BY <1>4, <1>5

LEMMA AtNow ==
  ASSUME NEW t, NEW x, At(t, x)
  PROVE  Now(t) = x
  BY DEF At, Now

LEMMA Assembled ==
  ASSUME SemType', NodeType', TableType', CallInv', QueueInv', TokenInv', CountInv', CleanInv'
  PROVE  FileInv'
  BY DEF FileInv, FileType

(* down() of fs_sem and of sin->sem.                                       *)
LEMMA LockFsStep ==
  ASSUME FileInv, NEW t \in Thread, UNCHANGED <<nodeVars, alive, fd_array, leaked>>,
         \/ At(t, "lock_sfs_fs") /\ down_take(fs_sem) /\ GoesOn(t, <<>>)
         \/ At(t, "lock_sfs_fs") /\ down_sleep(t, fs_sem) /\ GoesOn(t, <<"woken_sfs_fs">>)
         \/ At(t, "woken_sfs_fs") /\ down_resume(t, fs_sem) /\ GoesOn(t, <<>>)
  PROVE  FileInv'
<1> DEFINE L == Left(t)
<1>1. /\ FileType /\ CallInv /\ QueueInv /\ TokenInv /\ CountInv /\ CleanInv
      /\ CallOK(t) /\ Shape(t) /\ View(Now(t), L)
  BY CallFacts DEF FileInv, CallOK
<1>2. fs_sem \in Sem /\ fs_sem \notin Node /\ none \notin Node /\ Sem = Node \cup {fs_sem}
  BY SfsInodeAssumption
<1>3. Now(t) \in FsLock /\ Now(t) # "none"
  BY AtNow DEF FsLock
<1>4. UNCHANGED <<ino, ref_count, open_count, reclaim_count, dirty, stale, leaked, alive, fd_array>>
      /\ NodeType'
      /\ fd_array' \in [Thread -> [Fd -> [status : Status, node : Node \cup {none}]]]
  BY <1>1 DEF nodeVars, FileType, NodeType, TableType
<1>5. Open(t)' = Open(t)
  BY <1>4 DEF Open, Slots
<1>6. Now(t) \notin Loading \cup KeepSteps \cup {"inode_open_dec", "next_fd"}
      /\ Now(t) # "sfs_wbuf" /\ Now(t) \notin InSin \cup SinLock
  BY <1>3 DEF FsLock, Loading, KeepSteps, RefSteps, InSin, SinLock
<1>7. ASSUME GoesOn(t, <<>>),
             \/ At(t, "lock_sfs_fs") /\ down_take(fs_sem)
             \/ At(t, "woken_sfs_fs") /\ down_resume(t, fs_sem)
      PROVE  FileInv'
  <2> DEFINE c == Replaced(t, <<>>)
             M == Elems(c.steps)
             N == FirstOf(c.steps)
  <2>1. call' = [call EXCEPT ![t] = c] /\ After(t, c, {})
    <3>1. After(t, c, {})
      BY <1>1, <1>3, Replace0
    <3> QED
      BY <1>7, <3>1 DEF GoesOn
  <2> HIDE DEF c
  <2>2. M = {} \cup (L \ {Now(t)}) /\ Order(N, M)
    BY <2>1 DEF After, Keeps
  <2>3. /\ N \in {"sfs_load_inode", "sfs_reclaim", "sfs_sync"} /\ Complete(M)
        /\ "vop_kill" \notin L /\ ("sfs_sync" \in L => N = "sfs_sync")
    BY <1>1, <1>3, <2>2, NextOfFsLock
  <2>4. Continues(L, M) /\ SameBits(L, M) /\ ("vop_kill" \in M => "vop_kill" \in L)
    BY <1>1, <1>3, <1>6, <2>2, <2>3, Passing
  <2>5. TableType' /\ CallInv' /\ CountInv'
    BY <1>3, <1>4, <1>5, <2>1, <2>4, LightStep DEF After
  <2>6. /\ \A u \in Thread \ {t} : call'[u] = call[u]
        /\ call'[t] = c /\ Left(t)' = M /\ Now(t)' = N
    BY <1>1, <2>1, SameCall
  <2>7. CleanInv'
    BY <1>1, <1>4, <1>6, <2>3, <2>4, <2>6, SameClean
  <2>8. N \in M /\ N \notin FsLock \cup InSin \cup SinLock
    BY <2>2, <2>3 DEF Order, FsLock, InSin, SinLock
  <2>9. Holds(t, fs_sem)'
    BY <2>3, <2>6, <2>8 DEF Holds, HasFs, Loading
  <2>10. \A x \in Sem \ {fs_sem} : Holds(t, x)' <=> Holds(t, x)
    BY <1>6, <2>6, <2>8 DEF Holds, HasSin, SinLock
  <2>11. SemType' /\ QueueInv' /\ TokenInv'
    <3>1. CASE At(t, "lock_sfs_fs") /\ down_take(fs_sem)
      <4>1. t \notin asleep
        BY <1>1, <3>1, AtNow DEF QueueInv
      <4> QED
        BY <1>1, <1>2, <2>6, <2>9, <2>10, <3>1, <4>1, TakeToken
    <3>2. CASE At(t, "woken_sfs_fs") /\ down_resume(t, fs_sem)
      <4>1. Now(t) = "woken_sfs_fs" /\ t \notin asleep
        BY <3>2, AtNow DEF down_resume
      <4>2. Holds(t, fs_sem)
        BY <4>1 DEF Holds, HasFs
      <4> QED
        BY <1>1, <1>2, <2>6, <2>9, <2>10, <3>2, <4>2, ResumeTokens
    <3> QED
      BY <1>7, <3>1, <3>2
  <2> QED
    BY <1>4, <2>5, <2>7, <2>11, Assembled
<1>8. CASE At(t, "lock_sfs_fs") /\ down_sleep(t, fs_sem) /\ GoesOn(t, <<"woken_sfs_fs">>)
  <2> DEFINE c == Replaced(t, <<"woken_sfs_fs">>)
             M == Elems(c.steps)
  <2>1. Now(t) = "lock_sfs_fs"
    BY <1>8, AtNow
  <2>2. \A y \in L \ {Now(t)} : Follows("woken_sfs_fs", y)
    BY <1>1, <2>1, WokenOfFsLock
  <2>3. "woken_sfs_fs" \in Steps
    BY DEF Steps, FsLock
  <2>4. /\ call' = [call EXCEPT ![t] = c] /\ After(t, c, {"woken_sfs_fs"})
        /\ FirstOf(c.steps) = "woken_sfs_fs"
    BY <1>1, <1>3, <1>8, <2>2, <2>3, Replace1 DEF GoesOn
  <2> HIDE DEF c
  <2>5. M = {"woken_sfs_fs"} \cup (L \ {Now(t)})
    BY <2>4 DEF After, Keeps
  <2>6. Complete(M) /\ "vop_kill" \notin L
    BY <1>1, <2>1, <2>5, WokenOfFsLock
  <2>7. Continues(L, M) /\ SameBits(L, M) /\ ("vop_kill" \in M => "vop_kill" \in L)
    BY <1>1, <1>3, <1>6, <2>5, <2>6, Passing
  <2>8. TableType' /\ CallInv' /\ CountInv'
    BY <1>3, <1>4, <1>5, <2>4, <2>7, LightStep DEF After
  <2>9. /\ \A u \in Thread \ {t} : call'[u] = call[u]
        /\ call'[t] = c /\ Left(t)' = M /\ Now(t)' = "woken_sfs_fs"
    BY <1>1, <2>4, SameCall
  <2>10. CleanInv'
    BY <1>1, <1>4, <1>6, <2>7, <2>9, SameClean
  <2>11. t \notin asleep /\ asleep' = asleep \cup {t}
    BY <1>1, <1>8, <2>1 DEF QueueInv, down_sleep
  <2>12. WaitsFor(t, fs_sem)'
    BY <2>9 DEF WaitsFor
  <2>13. \A x \in Sem : ~Holds(t, x)' /\ ~Holds(t, x)
    BY <2>1, <2>6, <2>7, <2>9, <2>11 DEF Holds, HasFs, HasSin, InSin, FsLock, Loading
  <2>14. SemType' /\ QueueInv' /\ TokenInv'
    BY <1>1, <1>2, <1>8, <2>9, <2>11, <2>12, <2>13, SleepTokens
  <2> QED
    BY <1>4, <2>8, <2>10, <2>14, Assembled
<1> QED
  BY <1>7, <1>8

(* A call that is about its inode has one.                                 *)
LEMMA NodeOfCall ==
  ASSUME FileInv, NEW t \in Thread, Now(t) \in NodeSteps
  PROVE  /\ ~Some(Left(t), Loading) /\ call[t].node \in Node /\ call[t].node # none
         /\ ino[call[t].node] \in Ino /\ Counted(call[t].node)
         /\ call[t].node \in Sem /\ call[t].node # fs_sem
<1>1. CallOK(t) /\ View(Now(t), Left(t)) /\ Now(t) \in Left(t)
  <2>1. CallOK(t) /\ View(Now(t), Left(t))
    BY CallFacts DEF FileInv
  <2>2. Now(t) # "none"
    BY DEF NodeSteps, RefSteps, SinLock, InSin, Exec
  <2> QED
    BY <2>1, <2>2 DEF View, Order
<1>2. ~Some(Left(t), Loading)
  BY <1>1 DEF View, Order, Follows, Some, Hows, Loading, SinLock, InSin, NodeSteps, RefSteps,
     FsLock, Ending, Exec
<1>3. Some(Left(t), NodeSteps)
  BY <1>1 DEF Some
<1>4. call[t].node \in Node /\ call[t].node # none
  BY <1>1, <1>2, <1>3, SfsInodeAssumption DEF CallOK, KnowsNode
<1>5. ino[call[t].node] # none /\ ino[call[t].node] \in Ino
  BY <1>1, <1>4 DEF CallOK, KnowsNode, FileInv, FileType, NodeType
<1> QED
  BY <1>2, <1>4, <1>5, SfsInodeAssumption DEF FileInv, CountInv

LEMMA LockSinStep ==
  ASSUME FileInv, NEW t \in Thread, UNCHANGED <<nodeVars, alive, fd_array, leaked>>,
         \/ At(t, "lock_sin") /\ down_take(call[t].node) /\ GoesOn(t, <<>>)
         \/ At(t, "lock_sin") /\ down_sleep(t, call[t].node) /\ GoesOn(t, <<"woken_sin">>)
         \/ At(t, "woken_sin") /\ down_resume(t, call[t].node) /\ GoesOn(t, <<>>)
  PROVE  FileInv'
<1> DEFINE L == Left(t)
<1>1. /\ FileType /\ CallInv /\ QueueInv /\ TokenInv /\ CountInv /\ CleanInv
      /\ CallOK(t) /\ Shape(t) /\ View(Now(t), L)
  BY CallFacts DEF FileInv, CallOK
<1>3. Now(t) \in SinLock /\ Now(t) # "none"
  BY AtNow DEF SinLock
<1> PICK n \in Node : n = call[t].node
  BY <1>3, NodeOfCall DEF NodeSteps
<1>2. n \in Sem /\ n # fs_sem /\ n # none
  BY SfsInodeAssumption
<1>4. UNCHANGED <<ino, ref_count, open_count, reclaim_count, dirty, stale, leaked, alive, fd_array>>
      /\ NodeType'
      /\ fd_array' \in [Thread -> [Fd -> [status : Status, node : Node \cup {none}]]]
  BY <1>1 DEF nodeVars, FileType, NodeType, TableType
<1>5. Open(t)' = Open(t)
  BY <1>4 DEF Open, Slots
<1>6. Now(t) \notin Loading \cup KeepSteps \cup {"inode_open_dec", "next_fd"}
      /\ Now(t) # "sfs_wbuf" /\ Now(t) \notin InSin \cup FsLock
  BY <1>3 DEF FsLock, Loading, KeepSteps, RefSteps, InSin, SinLock
<1>7. ASSUME GoesOn(t, <<>>),
             \/ At(t, "lock_sin") /\ down_take(n)
             \/ At(t, "woken_sin") /\ down_resume(t, n)
      PROVE  FileInv'
  <2> DEFINE c == Replaced(t, <<>>)
             M == Elems(c.steps)
             N == FirstOf(c.steps)
  <2>1. call' = [call EXCEPT ![t] = c] /\ After(t, c, {})
    <3>1. After(t, c, {})
      BY <1>1, <1>3, Replace0
    <3> QED
      BY <1>7, <3>1 DEF GoesOn
  <2> HIDE DEF c
  <2>2. M = {} \cup (L \ {Now(t)}) /\ Order(N, M)
    BY <2>1 DEF After, Keeps
  <2>3. N \in {"truncate", "sfs_fsync", "sfs_io_nolock"} /\ Complete(M)
    BY <1>1, <1>3, <2>2, NextOfSinLock
  <2>4. Continues(L, M) /\ SameBits(L, M) /\ ("vop_kill" \in M => "vop_kill" \in L)
    BY <1>1, <1>3, <1>6, <2>2, <2>3, Passing
  <2>5. TableType' /\ CallInv' /\ CountInv'
    BY <1>3, <1>4, <1>5, <2>1, <2>4, LightStep DEF After
  <2>6. /\ \A u \in Thread \ {t} : call'[u] = call[u]
        /\ call'[t] = c /\ Left(t)' = M /\ Now(t)' = N
    BY <1>1, <2>1, SameCall
  <2>7. CleanInv'
    BY <1>1, <1>4, <1>6, <2>3, <2>6, SameClean
  <2>8. /\ N \in M /\ N \notin FsLock \cup SinLock \cup Loading \cup {"sfs_reclaim", "failed_unlock"}
        /\ N \in InSin /\ call'[t].node = n
    BY <2>1, <2>2, <2>3, <2>6 DEF Order, FsLock, InSin, SinLock, Loading, After, Keeps
  <2>9. Holds(t, n)'
    BY <2>6, <2>8 DEF Holds, HasSin
  <2>10. Holds(t, fs_sem)' <=> Holds(t, fs_sem)
    <3>1. "vop_kill" \in M <=> "vop_kill" \in L
      BY <1>3, <2>2 DEF SinLock
    <3>2. "sfs_sync" \in M <=> "sfs_sync" \in L
      BY <1>3, <2>2 DEF SinLock
    <3>3. Now(t) \notin FsLock \cup Loading \cup {"sfs_reclaim", "failed_unlock", "woken_sfs_fs"}
      BY <1>3, <1>6 DEF SinLock
    <3>4. HasFs(t)' <=> HasFs(t)
      BY <2>6, <2>8, <3>1, <3>2, <3>3 DEF HasFs, FsLock
    <3> QED
      BY <1>2, <2>8, <3>4 DEF Holds
  <2>11. \A x \in Sem \ {n} : Holds(t, x)' <=> Holds(t, x)
    BY <1>2, <2>8, <2>10 DEF Holds
  <2>12. SemType' /\ QueueInv' /\ TokenInv'
    <3>1. CASE At(t, "lock_sin") /\ down_take(n)
      <4>1. t \notin asleep
        BY <1>1, <3>1, AtNow DEF QueueInv
      <4> QED
        BY <1>1, <1>2, <2>6, <2>9, <2>11, <3>1, <4>1, TakeToken
    <3>2. CASE At(t, "woken_sin") /\ down_resume(t, n)
      <4>1. Now(t) = "woken_sin" /\ t \notin asleep
        BY <3>2, AtNow DEF down_resume
      <4>2. Holds(t, n)
        BY <4>1 DEF Holds, HasSin
      <4> QED
        BY <1>1, <1>2, <2>6, <2>9, <2>11, <3>2, <4>2, ResumeTokens
    <3> QED
      BY <1>7, <3>1, <3>2
  <2> QED
    BY <1>4, <2>5, <2>7, <2>12, Assembled
<1>8. CASE At(t, "lock_sin") /\ down_sleep(t, n) /\ GoesOn(t, <<"woken_sin">>)
  <2> DEFINE c == Replaced(t, <<"woken_sin">>)
             M == Elems(c.steps)
  <2>1. Now(t) = "lock_sin"
    BY <1>8, AtNow
  <2>2. \A y \in L \ {Now(t)} : Follows("woken_sin", y)
    BY <1>1, <2>1, WokenOfSinLock
  <2>3. "woken_sin" \in Steps
    BY DEF Steps, NodeSteps, SinLock
  <2>4. /\ call' = [call EXCEPT ![t] = c] /\ After(t, c, {"woken_sin"})
        /\ FirstOf(c.steps) = "woken_sin"
    BY <1>1, <1>3, <1>8, <2>2, <2>3, Replace1 DEF GoesOn
  <2> HIDE DEF c
  <2>5. M = {"woken_sin"} \cup (L \ {Now(t)})
    BY <2>4 DEF After, Keeps
  <2>6. Complete(M)
    BY <1>1, <2>1, <2>5, WokenOfSinLock
  <2>7. Continues(L, M) /\ SameBits(L, M) /\ ("vop_kill" \in M => "vop_kill" \in L)
    <3>1. Now(t) \in SinLock \cup InSin \cup {"sfs_truncfile"}
          /\ {"woken_sin"} \subseteq SinLock \cup InSin
      BY <1>3 DEF SinLock
    <3> QED
      BY <1>1, <1>3, <1>6, <2>5, <2>6, <3>1, Passing
  <2>8. TableType' /\ CallInv' /\ CountInv'
    BY <1>3, <1>4, <1>5, <2>4, <2>7, LightStep DEF After
  <2>9. /\ \A u \in Thread \ {t} : call'[u] = call[u]
        /\ call'[t] = c /\ Left(t)' = M /\ Now(t)' = "woken_sin" /\ c.node = n
    BY <1>1, <2>4, <2>5, SameCall DEF After, Keeps
  <2>10. CleanInv'
    BY <1>1, <1>4, <1>6, <2>7, <2>9, SameClean
  <2>11. t \notin asleep /\ asleep' = asleep \cup {t}
    BY <1>1, <1>8, <2>1 DEF QueueInv, down_sleep
  <2>12. WaitsFor(t, n)'
    BY <2>9 DEF WaitsFor
  <2>13. \A x \in Sem : Holds(t, x)' <=> Holds(t, x)
    <3>1. HasFs(t)' <=> HasFs(t)
      <4>1. /\ "vop_kill" \in M <=> "vop_kill" \in L
            /\ "sfs_sync" \in M <=> "sfs_sync" \in L
        BY <2>1, <2>5
      <4> QED
        BY <2>1, <2>9, <4>1 DEF HasFs, FsLock, Loading
    <3>2. ~HasSin(t)' /\ ~HasSin(t)
      BY <2>1, <2>9, <2>11 DEF HasSin, InSin
    <3> QED
      BY <3>1, <3>2 DEF Holds
  <2>14. SemType' /\ QueueInv' /\ TokenInv'
    BY <1>1, <1>2, <1>8, <2>9, <2>11, <2>12, <2>13, SleepTokens
  <2> QED
    BY <1>4, <2>8, <2>10, <2>14, Assembled
<1> QED
  BY <1>7, <1>8

LEMMA LockStep ==
  ASSUME FileInv, NEW t \in Thread, Lock(t)
  PROVE  FileInv'
<1>1. UNCHANGED <<nodeVars, alive, fd_array, leaked>>
  BY DEF Lock
<1>2. \/ At(t, "lock_sfs_fs") /\ down_take(fs_sem) /\ GoesOn(t, <<>>)
      \/ At(t, "lock_sfs_fs") /\ down_sleep(t, fs_sem) /\ GoesOn(t, <<"woken_sfs_fs">>)
      \/ At(t, "woken_sfs_fs") /\ down_resume(t, fs_sem) /\ GoesOn(t, <<>>)
      \/ At(t, "lock_sin") /\ down_take(call[t].node) /\ GoesOn(t, <<>>)
      \/ At(t, "lock_sin") /\ down_sleep(t, call[t].node) /\ GoesOn(t, <<"woken_sin">>)
      \/ At(t, "woken_sin") /\ down_resume(t, call[t].node) /\ GoesOn(t, <<>>)
  BY DEF Lock
<1> QED
  BY <1>1, <1>2, LockFsStep, LockSinStep
-----------------------------------------------------------------------------
(* What a step does to the semaphores.                                     *)
LEMMA StayTokens ==
  ASSUME FileInv, NEW t \in Thread, UNCHANGED semVars,
         \A u \in Thread \ {t} : call'[u] = call[u],
         Now(t) \notin {"woken_sfs_fs", "woken_sin"}, HasFs(t)' <=> HasFs(t),
         HasSin(t)' <=> HasSin(t), HasSin(t) => call'[t].node = call[t].node
  PROVE  SemType' /\ QueueInv' /\ TokenInv'
<1>1. t \notin asleep
  BY DEF FileInv, QueueInv
<1>2. \A s \in Sem : Holds(t, s)' <=> Holds(t, s)
  BY DEF Holds
<1> QED
  BY <1>1, <1>2, SameTokens DEF FileInv, semVars

LEMMA LeaveSin ==
  ASSUME FileInv, NEW t \in Thread, Now(t) \in InSin, up(call[t].node),
         \A u \in Thread \ {t} : call'[u] = call[u],
         Now(t)' \notin InSin \cup SinLock, HasFs(t)' <=> HasFs(t)
  PROVE  SemType' /\ QueueInv' /\ TokenInv'
<1> PICK n \in Node : n = call[t].node
  BY NodeOfCall DEF NodeSteps
<1>1. n \in Sem /\ n # fs_sem
  BY SfsInodeAssumption
<1>2. t \notin asleep
  BY DEF FileInv, QueueInv, InSin
<1>3. HasSin(t) /\ ~HasSin(t)'
  BY DEF HasSin, SinLock
<1>4. Holds(t, n) /\ ~Holds(t, n)' /\ \A x \in Sem \ {n} : Holds(t, x)' <=> Holds(t, x)
  BY <1>1, <1>3 DEF Holds
<1> QED
  BY <1>1, <1>2, <1>4, GiveToken DEF FileInv

LEMMA LeaveFs ==
  ASSUME FileInv, NEW t \in Thread, up(fs_sem),
         \A u \in Thread \ {t} : call'[u] = call[u],
         Now(t) \notin InSin \cup SinLock \cup FsLock,
         Now(t)' \notin InSin \cup SinLock, HasFs(t), ~HasFs(t)'
  PROVE  SemType' /\ QueueInv' /\ TokenInv'
<1>1. fs_sem \in Sem
  BY SfsInodeAssumption
<1>2. t \notin asleep
  BY DEF FileInv, QueueInv, SinLock, FsLock
<1>3. ~HasSin(t) /\ ~HasSin(t)'
  BY DEF HasSin, SinLock
<1>4. Holds(t, fs_sem) /\ ~Holds(t, fs_sem)' /\ \A x \in Sem \ {fs_sem} : Holds(t, x)' <=> Holds(t, x)
  BY <1>3 DEF Holds
<1> QED
  BY <1>1, <1>2, <1>4, GiveToken DEF FileInv

(* What a change of the file, marked or not, does to dirty and stale.      *)
LEMMA MarkStep ==
  ASSUME FileInv, NEW t \in Thread, Now(t) \in NodeSteps, Now(t) # "sfs_wbuf",
         MarkDirty(call[t].node) \/ RaiseBlocks(call[t].node) \/ UNCHANGED nodeVars,
         \A u \in Thread \ {t} : call'[u] = call[u],
         "vop_kill" \notin Left(t)', Now(t)' # "sfs_rbuf"
  PROVE  NodeType' /\ CleanInv' /\ UNCHANGED <<ino, ref_count, open_count, reclaim_count>>
<1> PICK n \in Node : n = call[t].node
  BY NodeOfCall
<1>1. ino[n] \in Ino /\ FileType /\ CleanInv
  BY NodeOfCall DEF FileInv
<1>2. UNCHANGED <<ino, ref_count, open_count, reclaim_count>>
  BY DEF MarkDirty, RaiseBlocks, nodeVars
<1>3. CASE RaiseBlocks(n) \/ UNCHANGED nodeVars
  <2>1. UNCHANGED <<dirty, stale>>
    BY <1>3 DEF RaiseBlocks, nodeVars
  <2>2. CleanInv'
    BY <1>1, <1>2, <2>1, SameClean
  <2> QED
    BY <1>1, <1>2, <2>1, <2>2 DEF FileType, NodeType
<1>4. CASE MarkDirty(n)
  <2>1. dirty' = dirty \cup {n} /\ stale' = stale \cup {ino[n]}
    BY <1>4 DEF MarkDirty
  <2>2. NodeType'
    BY <1>1, <1>2, <2>1 DEF FileType, NodeType
  <2>3. \A u \in Thread \ {t} : call'[u] = call[u] /\ Left(u)' = Left(u) /\ Now(u)' = Now(u)
    BY DEF Left, Now
  <2>4. \A u \in Thread \ {t} : "vop_kill" \in Left(u) => call[u].node # n
    BY KillAlone
  <2>5. \A i \in stale' : \E m \in Node :
          ino[m] = i /\ (m \in dirty' \/ \E u \in Thread : call'[u].node = m /\ Now(u)' = "sfs_wbuf")
    <3> TAKE i \in stale'
    <3>1. CASE i = ino[n]
      BY <2>1, <3>1
    <3>2. CASE i # ino[n]
      <4>1. PICK m \in Node : ino[m] = i /\ (m \in dirty \/ \E u \in Thread :
              call[u].node = m /\ Now(u) = "sfs_wbuf")
        BY <1>1, <2>1, <3>2 DEF CleanInv
      <4> QED
        BY <2>1, <2>3, <4>1
    <3> QED
      BY <3>1, <3>2
  <2>6. CleanInv'
    BY <1>1, <1>2, <2>1, <2>3, <2>4, <2>5 DEF CleanInv
  <2> QED
    BY <1>2, <2>2, <2>6
<1> QED
  BY <1>3, <1>4

LEMMA SameFs ==
  ASSUME NEW t \in Thread,
         Now(t) \notin Loading \cup FsLock \cup {"sfs_reclaim", "failed_unlock"},
         Now(t)' \notin Loading \cup FsLock \cup {"sfs_reclaim", "failed_unlock"},
         "vop_kill" \in Left(t)' <=> "vop_kill" \in Left(t),
         "sfs_sync" \in Left(t)' <=> "sfs_sync" \in Left(t)
  PROVE  HasFs(t)' <=> HasFs(t)
  BY DEF HasFs, FsLock

LEMMA PassStep ==
  ASSUME FileInv, NEW t \in Thread, Now(t) # "none",
         Now(t) \notin Loading \cup KeepSteps \cup {"inode_open_dec", "next_fd"},
         NEW c, NEW P, After(t, c, P), Complete(Elems(c.steps)), call' = [call EXCEPT ![t] = c],
         \/ P = {}
         \/ /\ Now(t) \in SinLock \cup InSin \cup {"sfs_truncfile"}
            /\ P \subseteq SinLock \cup InSin,
         UNCHANGED <<ino, ref_count, open_count, reclaim_count, leaked, alive, fd_array>>
  PROVE  /\ TableType' /\ CallInv' /\ CountInv'
         /\ \A u \in Thread \ {t} : call'[u] = call[u]
         /\ call'[t] = c /\ Left(t)' = Elems(c.steps) /\ Now(t)' = FirstOf(c.steps)
         /\ "vop_kill" \in Left(t)' <=> "vop_kill" \in Left(t)
         /\ "sfs_sync" \in Left(t)' <=> "sfs_sync" \in Left(t)
<1> DEFINE L == Left(t)
           M == Elems(c.steps)
<1>1. FileType /\ View(Now(t), L)
  BY CallFacts DEF FileInv
<1>2. M = P \cup (L \ {Now(t)})
  BY DEF After, Keeps
<1>3. Continues(L, M) /\ SameBits(L, M) /\ ("vop_kill" \in M => "vop_kill" \in L)
  BY <1>1, <1>2, Passing
<1>4. fd_array' \in [Thread -> [Fd -> [status : Status, node : Node \cup {none}]]]
  BY <1>1 DEF FileType, TableType
<1>5. Open(t)' = Open(t)
  BY DEF Open, Slots
<1>6. TableType' /\ CallInv' /\ CountInv'
  BY <1>3, <1>4, <1>5, LightStep DEF After
<1>7. /\ \A u \in Thread \ {t} : call'[u] = call[u]
      /\ call'[t] = c /\ Left(t)' = M /\ Now(t)' = FirstOf(c.steps)
  BY <1>1, SameCall
<1>8. "vop_kill" \notin P /\ "sfs_sync" \notin P /\ Now(t) \notin {"vop_kill", "sfs_sync"}
  BY DEF SinLock, InSin, KeepSteps
<1> QED
  BY <1>2, <1>6, <1>7, <1>8

(* sfs_io_nolock under sin->sem.                                           *)
LEMMA SfsIoStep ==
  ASSUME FileInv, NEW t \in Thread, sfs_io(t)
  PROVE  FileInv'
<1> DEFINE c == Replaced(t, <<>>)
           M == Elems(c.steps)
           N == FirstOf(c.steps)
<1>1. Now(t) = "sfs_io_nolock" /\ UNCHANGED <<alive, fd_array, leaked>>
  BY AtNow DEF sfs_io
<1>2. /\ Now(t) # "none" /\ Now(t) \in InSin /\ Now(t) \in NodeSteps
      /\ Now(t) \notin Loading \cup KeepSteps \cup {"inode_open_dec", "next_fd"}
      /\ Now(t) \notin Loading \cup FsLock \cup {"sfs_reclaim", "failed_unlock"}
  BY <1>1 DEF InSin, NodeSteps, Loading, KeepSteps, RefSteps, FsLock
<1>3. FileType /\ Shape(t) /\ View(Now(t), Left(t))
  BY CallFacts DEF FileInv, CallOK
<1>4. After(t, c, {})
  BY <1>2, <1>3, Replace0
<1>5. call' = [call EXCEPT ![t] = c] /\ up(call[t].node)
      /\ (MarkDirty(call[t].node) \/ RaiseBlocks(call[t].node) \/ UNCHANGED nodeVars)
  BY DEF sfs_io, GoesOn
<1> HIDE DEF c
<1>6. Order(N, M) /\ M = Left(t) \ {Now(t)}
  BY <1>4 DEF After, Keeps
<1>7. N \in Exec \cup {"none"} /\ Complete(M) /\ M \subseteq Exec
  BY <1>1, <1>3, <1>6, NextOfExec
<1>8. UNCHANGED <<ino, ref_count, open_count, reclaim_count>>
  BY <1>5 DEF MarkDirty, RaiseBlocks, nodeVars
<1>9. /\ TableType' /\ CallInv' /\ CountInv'
      /\ \A u \in Thread \ {t} : call'[u] = call[u]
      /\ Left(t)' = M /\ Now(t)' = N
      /\ "vop_kill" \in Left(t)' <=> "vop_kill" \in Left(t)
      /\ "sfs_sync" \in Left(t)' <=> "sfs_sync" \in Left(t)
  BY <1>1, <1>2, <1>4, <1>5, <1>7, <1>8, PassStep
<1>10. NodeType' /\ CleanInv'
  <2>1. "vop_kill" \notin M /\ N # "sfs_rbuf" /\ Now(t) # "sfs_wbuf"
    BY <1>1, <1>7 DEF Exec
  <2> QED
    BY <1>2, <1>5, <1>9, <2>1, MarkStep
<1>11. N \notin Loading \cup FsLock \cup {"sfs_reclaim", "failed_unlock"} /\ N \notin InSin \cup SinLock
  BY <1>7 DEF Loading, FsLock, InSin, SinLock, Exec
<1>12. SemType' /\ QueueInv' /\ TokenInv'
  BY <1>2, <1>5, <1>9, <1>11, SameFs, LeaveSin
<1> QED
  BY <1>9, <1>10, <1>12, Assembled

(* A call whose steps are replaced altogether.                             *)
LEMMA OtherSteps ==
  ASSUME FileType, NEW t \in Thread, NEW s \in Seq(Steps), Ordered(s), s # <<>>
  PROVE  LET c == [call[t] EXCEPT !.steps = s] IN
         /\ Keeps(t, c) /\ c.steps = s /\ Elems(s) # {}
         /\ c.node = call[t].node /\ c.fd = call[t].fd /\ c.todo = call[t].todo
         /\ [call EXCEPT ![t].steps = s] = [call EXCEPT ![t] = c]
<1> DEFINE c == [call[t] EXCEPT !.steps = s]
<1>1. call[t] \in CallSet
  BY DEF FileType, TableType
<1>2. /\ c \in CallSet /\ c.steps = s /\ c.node = call[t].node /\ c.fd = call[t].fd
      /\ c.ino = call[t].ino /\ c.todo = call[t].todo
  BY <1>1 DEF CallSet
<1>3. Order(FirstOf(s), Elems(s)) /\ Elems(s) # {}
  BY SeqOrder
<1>4. [call EXCEPT ![t].steps = s] = [call EXCEPT ![t] = c]
  OBVIOUS
<1> HIDE DEF c
<1>5. Keeps(t, c)
  BY <1>2, <1>3 DEF Keeps
<1> QED
  BY <1>2, <1>3, <1>4, <1>5 DEF c

CloseSet == {"inode_open_dec", "inode_ref_dec", "fd_array_free"}

LEMMA CloseFirst ==
  ASSUME NEW q \in Seq(Steps), Ordered(q), Elems(q) \subseteq Ending
  PROVE  LET s == vfs_close \o q IN
         /\ s \in Seq(Steps) /\ Ordered(s)
         /\ Elems(s) = {"inode_open_dec", "inode_ref_dec"} \cup Elems(q)
         /\ s # <<>> /\ Head(s) = "inode_open_dec"
<1>1. "inode_open_dec" \in Steps /\ "inode_ref_dec" \in Steps
  BY DEF Steps, NodeSteps, RefSteps
<1>2. Follows("inode_open_dec", "inode_ref_dec")
  BY DEF Follows
<1>3. /\ vfs_close \in Seq(Steps) /\ Ordered(vfs_close)
      /\ Elems(vfs_close) = {"inode_open_dec", "inode_ref_dec"}
      /\ vfs_close # <<>> /\ Head(vfs_close) = "inode_open_dec"
  BY <1>1, <1>2, Prefix2 DEF vfs_close
<1>4. \A x \in Elems(vfs_close), y \in Elems(q) : Follows(x, y)
  BY <1>3 DEF Follows
<1> QED
  BY <1>3, <1>4, OrderedConcat

LEMMA CloseSteps ==
  LET s == vfs_close \o <<"fd_array_free">> IN
  /\ s \in Seq(Steps) /\ Ordered(s) /\ Elems(s) = CloseSet
  /\ s # <<>> /\ FirstOf(s) = "inode_open_dec"
<1> DEFINE q == <<"fd_array_free">>
<1>1. "fd_array_free" \in Steps /\ "fd_array_free" \in Ending
  BY DEF Steps, Ending, Exec
<1>2. q \in Seq(Steps) /\ Ordered(q) /\ Elems(q) = {"fd_array_free"}
  BY <1>1, Prefix1
<1> HIDE DEF q
<1> DEFINE s == vfs_close \o q
<1>3. /\ s \in Seq(Steps) /\ Ordered(s)
      /\ Elems(s) = {"inode_open_dec", "inode_ref_dec"} \cup {"fd_array_free"}
      /\ s # <<>> /\ Head(s) = "inode_open_dec"
  BY <1>1, <1>2, CloseFirst
<1> QED
  BY <1>3 DEF FirstOf, CloseSet, q

(* sfs_truncfile to length 0.                                              *)
LEMMA TruncFacts ==
  ASSUME FileInv, NEW t \in Thread, Now(t) \in {"sfs_truncfile", "truncate"}
  PROVE  /\ FileType /\ Shape(t) /\ View(Now(t), Left(t)) /\ Left(t) = {Now(t), "fd_array_open"}
         /\ Now(t) # "none" /\ Now(t) \in NodeSteps
         /\ Now(t) \notin Loading \cup KeepSteps \cup {"inode_open_dec", "next_fd"}
         /\ Now(t) \notin Loading \cup FsLock \cup {"sfs_reclaim", "failed_unlock"}
         /\ Now(t) \notin {"woken_sfs_fs", "woken_sin", "sfs_wbuf"}
<1>1. FileType /\ Shape(t) /\ View(Now(t), Left(t))
  BY CallFacts DEF FileInv, CallOK
<1>2. Left(t) = {Now(t), "fd_array_open"}
  BY <1>1, NextOfHow
<1> QED
  BY <1>1, <1>2 DEF NodeSteps, Loading, KeepSteps, RefSteps, FsLock, InSin

LEMMA TruncBeginStep ==
  ASSUME FileInv, NEW t \in Thread, At(t, "sfs_truncfile"),
         GoesOn(t, <<>>) \/ GoesOn(t, <<"lock_sin", "truncate">>),
         UNCHANGED <<semVars, nodeVars, alive, fd_array, leaked>>
  PROVE  FileInv'
<1>1. Now(t) = "sfs_truncfile"
  BY AtNow
<1>2. /\ FileType /\ Shape(t) /\ View(Now(t), Left(t)) /\ Left(t) = {Now(t), "fd_array_open"}
      /\ Now(t) # "none"
      /\ Now(t) \notin Loading \cup KeepSteps \cup {"inode_open_dec", "next_fd"}
      /\ Now(t) \notin Loading \cup FsLock \cup {"sfs_reclaim", "failed_unlock"}
      /\ Now(t) \notin {"woken_sfs_fs", "woken_sin", "sfs_wbuf"}
  BY <1>1, TruncFacts
<1>3. /\ UNCHANGED <<ino, ref_count, open_count, reclaim_count, dirty, stale, leaked, alive, fd_array>>
      /\ NodeType'
  BY <1>2 DEF nodeVars, FileType, NodeType
<1>4. PICK c, P :
        /\ call' = [call EXCEPT ![t] = c] /\ After(t, c, P)
        /\ \/ P = {}
           \/ P = {"lock_sin", "truncate"} /\ FirstOf(c.steps) = "lock_sin"
  <2>1. CASE GoesOn(t, <<>>)
    <3>1. After(t, Replaced(t, <<>>), {})
      BY <1>2, Replace0
    <3> QED
      BY <2>1, <3>1 DEF GoesOn
  <2>2. CASE GoesOn(t, <<"lock_sin", "truncate">>)
    <3>1. "lock_sin" \in Steps /\ "truncate" \in Steps /\ Follows("lock_sin", "truncate")
      BY DEF Steps, NodeSteps, SinLock, InSin, Follows
    <3>2. \A y \in Left(t) \ {Now(t)} : Follows("lock_sin", y) /\ Follows("truncate", y)
      BY <1>2 DEF Follows, SinLock
    <3>3. /\ After(t, Replaced(t, <<"lock_sin", "truncate">>), {"lock_sin", "truncate"})
          /\ FirstOf(Replaced(t, <<"lock_sin", "truncate">>).steps) = "lock_sin"
      BY <1>2, <3>1, <3>2, Replace2
    <3> QED
      BY <2>2, <3>3 DEF GoesOn
  <2> QED
    BY <2>1, <2>2
<1> DEFINE M == Elems(c.steps)
           N == FirstOf(c.steps)
<1>5. M = P \cup {"fd_array_open"} /\ Order(N, M)
  BY <1>1, <1>2, <1>4 DEF After, Keeps
<1>6. N \in {"fd_array_open", "lock_sin"}
  BY <1>4, <1>5 DEF Order
<1>7. Complete(M)
  BY <1>4, <1>5 DEF Complete, Some, Loading, Hows, FsLock, SinLock
<1>8. \/ P = {}
      \/ /\ Now(t) \in SinLock \cup InSin \cup {"sfs_truncfile"} /\ P \subseteq SinLock \cup InSin
  BY <1>1, <1>4 DEF SinLock, InSin
<1>9. /\ TableType' /\ CallInv' /\ CountInv'
      /\ \A u \in Thread \ {t} : call'[u] = call[u]
      /\ call'[t] = c /\ Left(t)' = M /\ Now(t)' = N
      /\ "vop_kill" \in Left(t)' <=> "vop_kill" \in Left(t)
      /\ "sfs_sync" \in Left(t)' <=> "sfs_sync" \in Left(t)
  BY <1>2, <1>3, <1>4, <1>7, <1>8, PassStep
<1>10. CleanInv'
  BY <1>2, <1>3, <1>6, <1>9, SameClean DEF FileInv
<1>11. N \notin Loading \cup FsLock \cup {"sfs_reclaim", "failed_unlock"}
  BY <1>6 DEF Loading, FsLock
<1>12. ~HasSin(t)' /\ ~HasSin(t)
  BY <1>1, <1>6, <1>9 DEF HasSin, InSin
<1>13. SemType' /\ QueueInv' /\ TokenInv'
  BY <1>2, <1>9, <1>11, <1>12, SameFs, StayTokens
<1> QED
  BY <1>3, <1>9, <1>10, <1>13, Assembled

LEMMA TruncateStep ==
  ASSUME FileInv, NEW t \in Thread, At(t, "truncate"), up(call[t].node),
         MarkDirty(call[t].node) \/ UNCHANGED nodeVars,
         \/ GoesOn(t, <<>>)
         \/ call' = [call EXCEPT ![t].steps = vfs_close \o <<"fd_array_free">>],
         UNCHANGED <<alive, fd_array, leaked>>
  PROVE  FileInv'
<1>1. Now(t) = "truncate" /\ Now(t) \in InSin
  BY AtNow DEF InSin
<1>2. /\ FileType /\ Shape(t) /\ View(Now(t), Left(t)) /\ Left(t) = {Now(t), "fd_array_open"}
      /\ Now(t) # "none" /\ Now(t) \in NodeSteps
      /\ Now(t) \notin Loading \cup KeepSteps \cup {"inode_open_dec", "next_fd"}
      /\ Now(t) \notin Loading \cup FsLock \cup {"sfs_reclaim", "failed_unlock"}
      /\ Now(t) \notin {"woken_sfs_fs", "woken_sin", "sfs_wbuf"}
  BY <1>1, TruncFacts
<1>3. UNCHANGED <<ino, ref_count, open_count, reclaim_count, leaked, alive, fd_array>>
      /\ fd_array' \in [Thread -> [Fd -> [status : Status, node : Node \cup {none}]]]
      /\ Open(t)' = Open(t)
  BY <1>2 DEF nodeVars, MarkDirty, FileType, TableType, Open, Slots
<1>4. PICK c : /\ call' = [call EXCEPT ![t] = c] /\ Keeps(t, c)
               /\ \/ Elems(c.steps) = {"fd_array_open"}
                  \/ Elems(c.steps) = CloseSet
  <2>1. CASE GoesOn(t, <<>>)
    <3>1. After(t, Replaced(t, <<>>), {})
      BY <1>2, Replace0
    <3>2. Elems(Replaced(t, <<>>).steps) = {"fd_array_open"}
      BY <1>1, <1>2, <3>1 DEF After
    <3> QED
      BY <2>1, <3>1, <3>2 DEF GoesOn, After
  <2>2. CASE call' = [call EXCEPT ![t].steps = vfs_close \o <<"fd_array_free">>]
    BY <1>2, <2>2, CloseSteps, OtherSteps
  <2> QED
    BY <2>1, <2>2
<1> DEFINE M == Elems(c.steps)
           N == FirstOf(c.steps)
           L == Left(t)
<1>5. N \in {"fd_array_open", "inode_open_dec"} \cup CloseSet
  BY <1>4 DEF Keeps, Order, CloseSet
<1>6. Continues(L, M) /\ SameBits(L, M) /\ "vop_kill" \notin M /\ "sfs_sync" \notin M
      /\ "vop_kill" \notin L /\ "sfs_sync" \notin L
  BY <1>1, <1>2, <1>4 DEF Continues, SameBits, HasRef, HasOpen, Some, CloseSet, Complete,
     Loading, Hows, FsLock, SinLock, NodeSteps, RefSteps, KeepSteps, InSin, Exec
<1>7. TableType' /\ CallInv' /\ CountInv'
  BY <1>2, <1>3, <1>4, <1>6, LightStep
<1>8. /\ \A u \in Thread \ {t} : call'[u] = call[u]
      /\ call'[t] = c /\ Left(t)' = M /\ Now(t)' = N
  BY <1>2, <1>4, SameCall
<1>9. /\ N \notin Loading \cup FsLock \cup {"sfs_reclaim", "failed_unlock"}
      /\ N \notin InSin \cup SinLock /\ N # "sfs_rbuf"
  BY <1>5 DEF Loading, FsLock, InSin, SinLock, CloseSet
<1>10. NodeType' /\ CleanInv'
  BY <1>2, <1>6, <1>8, <1>9, MarkStep
<1>11. SemType' /\ QueueInv' /\ TokenInv'
  BY <1>1, <1>2, <1>6, <1>8, <1>9, SameFs, LeaveSin
<1> QED
  BY <1>7, <1>10, <1>11, Assembled

LEMMA TruncfileStep ==
  ASSUME FileInv, NEW t \in Thread, sfs_truncfile(t)
  PROVE  FileInv'
<1>1. \/ /\ At(t, "sfs_truncfile")
         /\ GoesOn(t, <<>>) \/ GoesOn(t, <<"lock_sin", "truncate">>)
         /\ UNCHANGED <<semVars, nodeVars>>
      \/ /\ At(t, "truncate") /\ up(call[t].node)
         /\ MarkDirty(call[t].node) \/ UNCHANGED nodeVars
         /\ \/ GoesOn(t, <<>>)
            \/ call' = [call EXCEPT ![t].steps = vfs_close \o <<"fd_array_free">>]
  BY DEF sfs_truncfile
<1>2. UNCHANGED <<alive, fd_array, leaked>>
  BY DEF sfs_truncfile
<1> QED
  BY <1>1, <1>2, TruncBeginStep, TruncateStep

(* sfs_fsync under sin->sem.                                               *)
LEMMA FsyncFacts ==
  ASSUME FileInv, NEW t \in Thread, Now(t) \in {"sfs_fsync", "sfs_wbuf"}
  PROVE  /\ FileType /\ Shape(t) /\ View(Now(t), Left(t)) /\ CleanInv
         /\ Now(t) # "none" /\ Now(t) \in NodeSteps /\ Now(t) \in InSin
         /\ Now(t) \notin Loading \cup KeepSteps \cup {"inode_open_dec", "next_fd"}
         /\ Now(t) \notin Loading \cup FsLock \cup {"sfs_reclaim", "failed_unlock"}
         /\ Now(t) \notin {"woken_sfs_fs", "woken_sin"}
<1>1. FileType /\ Shape(t) /\ View(Now(t), Left(t)) /\ CleanInv
  BY CallFacts DEF FileInv, CallOK
<1> QED
  BY <1>1 DEF NodeSteps, Loading, KeepSteps, RefSteps, FsLock, InSin

LEMMA FsyncCleanStep ==
  ASSUME FileInv, NEW t \in Thread, At(t, "sfs_fsync"), call[t].node \notin dirty,
         up(call[t].node), GoesOn(t, <<>>), UNCHANGED <<nodeVars, alive, fd_array, leaked>>
  PROVE  FileInv'
<1> DEFINE c == Replaced(t, <<>>)
           M == Elems(c.steps)
           N == FirstOf(c.steps)
           L == Left(t)
<1>1. Now(t) = "sfs_fsync"
  BY AtNow
<1>2. /\ FileType /\ Shape(t) /\ View(Now(t), L) /\ CleanInv
      /\ Now(t) # "none" /\ Now(t) \in InSin
      /\ Now(t) \notin Loading \cup KeepSteps \cup {"inode_open_dec", "next_fd"}
      /\ Now(t) \notin Loading \cup FsLock \cup {"sfs_reclaim", "failed_unlock"}
  BY <1>1, FsyncFacts
<1>3. /\ UNCHANGED <<ino, ref_count, open_count, reclaim_count, dirty, stale, leaked, alive, fd_array>>
      /\ NodeType'
  BY <1>2 DEF nodeVars, FileType, NodeType
<1>4. After(t, c, {}) /\ call' = [call EXCEPT ![t] = c]
  BY <1>2, Replace0 DEF GoesOn
<1> HIDE DEF c
<1>5. M = L \ {Now(t)} /\ Order(N, M)
  BY <1>4 DEF After, Keeps
<1>6. Complete(M) /\ N \in {"inode_ref_dec", "vop_kill", "sfs_sync", "none"} \cup Ending
  BY <1>1, <1>2, <1>5, NextOfFsync
<1>7. /\ TableType' /\ CallInv' /\ CountInv'
      /\ \A u \in Thread \ {t} : call'[u] = call[u]
      /\ call'[t] = c /\ Left(t)' = M /\ Now(t)' = N
      /\ "vop_kill" \in Left(t)' <=> "vop_kill" \in Left(t)
      /\ "sfs_sync" \in Left(t)' <=> "sfs_sync" \in Left(t)
  BY <1>2, <1>3, <1>4, <1>6, PassStep
<1>8. "vop_kill" \in M => c.node = call[t].node
  BY <1>4 DEF After, Keeps
<1>9. N \notin Loading \cup FsLock \cup {"sfs_reclaim", "failed_unlock"} /\ N \notin InSin \cup SinLock
  BY <1>6 DEF Loading, FsLock, InSin, SinLock, Ending, Exec
<1>10. CleanInv'
  BY <1>1, <1>2, <1>3, <1>7, <1>8, <1>9, SameClean DEF Loading
<1>11. SemType' /\ QueueInv' /\ TokenInv'
  BY <1>2, <1>7, <1>9, SameFs, LeaveSin
<1> QED
  BY <1>3, <1>7, <1>10, <1>11, Assembled

LEMMA FsyncBeginStep ==
  ASSUME FileInv, NEW t \in Thread, At(t, "sfs_fsync"), FsyncBegin(call[t].node),
         GoesOn(t, <<"sfs_wbuf">>), UNCHANGED <<semVars, alive, fd_array, leaked>>
  PROVE  FileInv'
<1> DEFINE c == Replaced(t, <<"sfs_wbuf">>)
           M == Elems(c.steps)
           N == FirstOf(c.steps)
           L == Left(t)
<1>1. Now(t) = "sfs_fsync"
  BY AtNow
<1>2. /\ FileType /\ Shape(t) /\ View(Now(t), L) /\ CleanInv
      /\ Now(t) # "none" /\ Now(t) \in InSin /\ Now(t) \in NodeSteps
      /\ Now(t) \notin Loading \cup KeepSteps \cup {"inode_open_dec", "next_fd"}
      /\ Now(t) \notin Loading \cup FsLock \cup {"sfs_reclaim", "failed_unlock"}
      /\ Now(t) \notin {"woken_sfs_fs", "woken_sin"}
  BY <1>1, FsyncFacts
<1> PICK n \in Node : n = call[t].node
  BY <1>2, NodeOfCall
<1>3. /\ UNCHANGED <<ino, ref_count, open_count, reclaim_count, stale, leaked, alive, fd_array>>
      /\ dirty' = dirty \ {n}
  BY DEF FsyncBegin
<1>4. NodeType'
  BY <1>2, <1>3 DEF FileType, NodeType
<1>5. /\ "sfs_wbuf" \in Steps
      /\ L \subseteq {Now(t), "inode_ref_dec", "vop_kill", "sfs_sync"} \cup Ending
  <2>1. After(t, Replaced(t, <<>>), {})
    BY <1>2, Replace0
  <2> DEFINE d == Replaced(t, <<>>).steps
  <2>2. Elems(d) = L \ {Now(t)} /\ Order(FirstOf(d), Elems(d))
    BY <2>1 DEF After, Keeps
  <2> HIDE DEF d
  <2> QED
    BY <1>1, <1>2, <2>2, NextOfFsync DEF Steps, NodeSteps, InSin
<1>6. \A y \in L \ {Now(t)} : Follows("sfs_wbuf", y)
  BY <1>5 DEF Follows
<1>7. /\ After(t, c, {"sfs_wbuf"}) /\ call' = [call EXCEPT ![t] = c] /\ N = "sfs_wbuf"
  BY <1>2, <1>5, <1>6, Replace1 DEF GoesOn
<1> HIDE DEF c
<1>8. M = {"sfs_wbuf"} \cup (L \ {Now(t)}) /\ c.node = n
  BY <1>7 DEF After, Keeps
<1>9. Complete(M)
  BY <1>2, <1>5, <1>8 DEF View, Complete, Some, Loading, Hows, FsLock, SinLock, Ending, Exec
<1>10. {"sfs_wbuf"} \subseteq SinLock \cup InSin
  BY DEF InSin
<1>11. /\ TableType' /\ CallInv' /\ CountInv'
       /\ \A u \in Thread \ {t} : call'[u] = call[u]
       /\ call'[t] = c /\ Left(t)' = M /\ Now(t)' = N
       /\ "vop_kill" \in Left(t)' <=> "vop_kill" \in Left(t)
       /\ "sfs_sync" \in Left(t)' <=> "sfs_sync" \in Left(t)
  BY <1>2, <1>3, <1>7, <1>9, <1>10, PassStep
<1>12. CleanInv'
  <2>1. \A u \in Thread \ {t} : call'[u] = call[u] /\ Left(u)' = Left(u) /\ Now(u)' = Now(u)
    BY <1>11 DEF Left, Now
  <2>2. ASSUME NEW i \in stale'
        PROVE  \E m \in Node : ino'[m] = i /\ (m \in dirty' \/ \E u \in Thread :
                 call'[u].node = m /\ Now(u)' = "sfs_wbuf")
    <3>1. PICK m \in Node : ino[m] = i /\ (m \in dirty \/ \E u \in Thread :
            call[u].node = m /\ Now(u) = "sfs_wbuf")
      BY <1>2, <1>3 DEF CleanInv
    <3>2. CASE m = n
      BY <1>3, <1>7, <1>8, <1>11, <3>1, <3>2
    <3>3. CASE m # n
      BY <1>1, <1>3, <2>1, <3>1, <3>3
    <3> QED
      BY <3>2, <3>3
  <2>3. \A u \in Thread : "vop_kill" \in Left(u)' /\ Now(u)' \in {"vop_kill", "sfs_wbuf"} =>
          call'[u].node \notin dirty'
    BY <1>2, <1>3, <1>8, <1>11, <2>1 DEF CleanInv
  <2>4. \A u \in Thread : Now(u)' = "sfs_rbuf" => \A m \in Node : ino'[m] # call'[u].ino
    BY <1>2, <1>3, <1>7, <1>11, <2>1 DEF CleanInv
  <2>5. \A l, m \in Node : ino'[l] = ino'[m] /\ ino'[m] # none => l = m
    BY <1>2, <1>3 DEF CleanInv
  <2> QED
    BY <2>2, <2>3, <2>4, <2>5 DEF CleanInv
<1>13. N \notin Loading \cup FsLock \cup {"sfs_reclaim", "failed_unlock"} /\ N \in InSin
  BY <1>7 DEF Loading, FsLock, InSin
<1>14. HasSin(t)' /\ HasSin(t)
  BY <1>2, <1>11, <1>13 DEF HasSin
<1>15. SemType' /\ QueueInv' /\ TokenInv'
  BY <1>2, <1>8, <1>11, <1>13, <1>14, SameFs, StayTokens
<1> QED
  BY <1>4, <1>11, <1>12, <1>15, Assembled

LEMMA ReclaimingFacts ==
  ASSUME FileInv, NEW t \in Thread, Now(t) = "sfs_wbuf"
  PROVE  /\ "vop_kill" \in Left(t) => Reclaiming(t)
         /\ Reclaiming(t) => LET s == <<"failed_unlock">> \o Tail(Tail(call[t].steps)) IN
              /\ s \in Seq(Steps) /\ Ordered(s) /\ s # <<>> /\ FirstOf(s) = "failed_unlock"
              /\ "vop_kill" \in Left(t) /\ Left(t) \subseteq {"sfs_wbuf", "vop_kill"} \cup Ending
              /\ Elems(s) = {"failed_unlock"} \cup (Left(t) \ {"sfs_wbuf", "vop_kill"})
<1> DEFINE s == call[t].steps
           r == Tail(s)
           q == Tail(r)
           L == Left(t)
<1>1. FileType /\ Shape(t) /\ View(Now(t), L) /\ Now(t) # "none"
  BY FsyncFacts
<1>2. s \in Seq(Steps) /\ s # <<>> /\ Ordered(s) /\ L = Elems(s)
  BY <1>1 DEF FileType, TableType, CallSet, Now, Shape, Left
<1>3. r \in Seq(Steps) /\ Ordered(r) /\ Elems(r) = L \ {"sfs_wbuf"}
  BY <1>1, TailOfCall
<1>4. Order(FirstOf(r), Elems(r)) /\ (Elems(r) = {} <=> r = <<>>)
  BY <1>3, SeqOrder
<1>5. "vop_kill" \in L => FirstOf(r) = "vop_kill" /\ Elems(r) \subseteq {"vop_kill"} \cup Ending
  BY <1>1, <1>3, <1>4, NextOfFsync
<1>6. Len(s) > 1 <=> r # <<>>
  BY <1>2
<1>7. r # <<>> => s[2] = Head(r)
  BY <1>2
<1> HIDE DEF s, r
<1>8. ASSUME "vop_kill" \in L PROVE Reclaiming(t)
  BY <1>5, <1>3, <1>4, <1>6, <1>7, <1>8 DEF Reclaiming, FirstOf, s
<1>9. ASSUME Reclaiming(t)
      PROVE  LET w == <<"failed_unlock">> \o q IN
             /\ w \in Seq(Steps) /\ Ordered(w) /\ w # <<>> /\ FirstOf(w) = "failed_unlock"
             /\ "vop_kill" \in L /\ L \subseteq {"sfs_wbuf", "vop_kill"} \cup Ending
             /\ Elems(w) = {"failed_unlock"} \cup (L \ {"sfs_wbuf", "vop_kill"})
  <2>1. r # <<>> /\ Head(r) = "vop_kill"
    BY <1>6, <1>7, <1>9 DEF Reclaiming, s
  <2>2. /\ q \in Seq(Steps) /\ Ordered(q) /\ Elems(r) = {"vop_kill"} \cup Elems(q)
        /\ \A y \in Elems(q) : Follows("vop_kill", y)
    BY <1>3, <2>1, OrderedTail
  <2>3. "vop_kill" \notin Elems(q) /\ Elems(q) \subseteq Ending
    BY <2>2 DEF Follows, Ending, Exec, FsLock, Loading, Hows, SinLock
  <2>4. "vop_kill" \in L /\ "sfs_wbuf" \notin Elems(q)
    BY <1>3, <2>2
  <2>5. Elems(q) = L \ {"sfs_wbuf", "vop_kill"}
    BY <1>3, <2>2, <2>3, <2>4
  <2>6. "failed_unlock" \in Steps
    BY DEF Steps, NodeSteps
  <2>7. /\ <<"failed_unlock">> \in Seq(Steps) /\ Ordered(<<"failed_unlock">>)
        /\ Elems(<<"failed_unlock">>) = {"failed_unlock"} /\ <<"failed_unlock">> # <<>>
        /\ Head(<<"failed_unlock">>) = "failed_unlock"
    BY <2>6, Prefix1
  <2> DEFINE p == <<"failed_unlock">>
  <2> HIDE DEF p, q
  <2>8. \A x \in Elems(p), y \in Elems(q) : Follows(x, y)
    BY <2>3, <2>7 DEF Follows, p
  <2>9. /\ p \o q \in Seq(Steps) /\ Ordered(p \o q) /\ Elems(p \o q) = Elems(p) \cup Elems(q)
        /\ p \o q # <<>> /\ Head(p \o q) = Head(p)
    BY <2>2, <2>7, <2>8, OrderedConcat DEF p
  <2> QED
    BY <2>3, <2>4, <2>5, <2>7, <2>9 DEF p, FirstOf
<1> QED
  BY <1>8, <1>9 DEF r, s

LEMMA FsyncEndClean ==
  ASSUME FileInv, NEW t \in Thread, Now(t) = "sfs_wbuf", NEW ok \in BOOLEAN,
         FsyncEnd(call[t].node, ok), \A u \in Thread \ {t} : call'[u] = call[u],
         Now(t)' # "sfs_rbuf", "vop_kill" \in Left(t)' => ok /\ "vop_kill" \in Left(t)
                                                          /\ call'[t].node = call[t].node
  PROVE  NodeType' /\ CleanInv'
<1>1. FileType /\ CleanInv /\ Now(t) \in NodeSteps
  BY FsyncFacts
<1> PICK n \in Node : n = call[t].node
  BY <1>1, NodeOfCall
<1>2. /\ UNCHANGED <<ino, ref_count, open_count, reclaim_count>>
      /\ stale' = IF ok THEN stale \ {ino[n]} ELSE stale
      /\ dirty' = IF ok THEN dirty ELSE dirty \cup {n}
  BY DEF FsyncEnd
<1>3. NodeType'
  BY <1>1, <1>2 DEF FileType, NodeType
<1>4. \A u \in Thread \ {t} : call'[u] = call[u] /\ Left(u)' = Left(u) /\ Now(u)' = Now(u)
  BY DEF Left, Now
<1>5. ASSUME NEW i \in stale'
      PROVE  \E m \in Node : ino'[m] = i /\ (m \in dirty' \/ \E u \in Thread :
               call'[u].node = m /\ Now(u)' = "sfs_wbuf")
  <2>1. PICK m \in Node : ino[m] = i /\ (m \in dirty \/ \E u \in Thread :
          call[u].node = m /\ Now(u) = "sfs_wbuf")
    BY <1>1, <1>2, <1>5 DEF CleanInv
  <2>2. CASE m = n
    BY <1>2, <1>5, <2>1, <2>2
  <2>3. CASE m # n
    BY <1>2, <1>4, <2>1, <2>3
  <2> QED
    BY <2>2, <2>3
<1>6. ASSUME NEW u \in Thread, "vop_kill" \in Left(u)', Now(u)' \in {"vop_kill", "sfs_wbuf"}
      PROVE  call'[u].node \notin dirty'
  <2>1. CASE u = t
    BY <1>1, <1>2, <1>6, <2>1 DEF CleanInv
  <2>2. CASE u # t
    <3>1. call[u].node # n
      BY <1>4, <1>6, <2>2, KillAlone
    <3> QED
      BY <1>1, <1>2, <1>4, <1>6, <2>2, <3>1 DEF CleanInv
  <2> QED
    BY <2>1, <2>2
<1>7. \A u \in Thread : Now(u)' = "sfs_rbuf" => \A m \in Node : ino'[m] # call'[u].ino
  BY <1>1, <1>2, <1>4 DEF CleanInv
<1>8. \A l, m \in Node : ino'[l] = ino'[m] /\ ino'[m] # none => l = m
  BY <1>1, <1>2 DEF CleanInv
<1>9. CleanInv'
  BY <1>5, <1>6, <1>7, <1>8 DEF CleanInv
<1> QED
  BY <1>3, <1>9

LEMMA FsyncEndStep ==
  ASSUME FileInv, NEW t \in Thread, At(t, "sfs_wbuf"), up(call[t].node), NEW ok \in BOOLEAN,
         FsyncEnd(call[t].node, ok), ok \/ ~Reclaiming(t), GoesOn(t, <<>>),
         UNCHANGED <<alive, fd_array, leaked>>
  PROVE  FileInv'
<1> DEFINE c == Replaced(t, <<>>)
           M == Elems(c.steps)
           N == FirstOf(c.steps)
           L == Left(t)
<1>1. Now(t) = "sfs_wbuf"
  BY AtNow
<1>2. /\ FileType /\ Shape(t) /\ View(Now(t), L) /\ CleanInv
      /\ Now(t) # "none" /\ Now(t) \in InSin
      /\ Now(t) \notin Loading \cup KeepSteps \cup {"inode_open_dec", "next_fd"}
      /\ Now(t) \notin Loading \cup FsLock \cup {"sfs_reclaim", "failed_unlock"}
  BY <1>1, FsyncFacts
<1>3. UNCHANGED <<ino, ref_count, open_count, reclaim_count, leaked, alive, fd_array>>
  BY DEF FsyncEnd
<1>4. After(t, c, {}) /\ call' = [call EXCEPT ![t] = c]
  BY <1>2, Replace0 DEF GoesOn
<1> HIDE DEF c
<1>5. M = L \ {Now(t)} /\ Order(N, M)
  BY <1>4 DEF After, Keeps
<1>6. Complete(M) /\ N \in {"inode_ref_dec", "vop_kill", "sfs_sync", "none"} \cup Ending
  BY <1>1, <1>2, <1>5, NextOfFsync
<1>7. /\ TableType' /\ CallInv' /\ CountInv'
      /\ \A u \in Thread \ {t} : call'[u] = call[u]
      /\ call'[t] = c /\ Left(t)' = M /\ Now(t)' = N
      /\ "vop_kill" \in Left(t)' <=> "vop_kill" \in Left(t)
      /\ "sfs_sync" \in Left(t)' <=> "sfs_sync" \in Left(t)
  BY <1>2, <1>3, <1>4, <1>6, PassStep
<1>8. "vop_kill" \in Left(t)' => ok /\ "vop_kill" \in Left(t) /\ c.node = call[t].node
  BY <1>1, <1>4, <1>7, ReclaimingFacts DEF After, Keeps
<1>9. N \notin Loading \cup FsLock \cup {"sfs_reclaim", "failed_unlock"} /\ N \notin InSin \cup SinLock
  BY <1>6 DEF Loading, FsLock, InSin, SinLock, Ending, Exec
<1>10. NodeType' /\ CleanInv'
  BY <1>1, <1>7, <1>8, <1>9, FsyncEndClean DEF Loading
<1>11. SemType' /\ QueueInv' /\ TokenInv'
  BY <1>2, <1>7, <1>9, SameFs, LeaveSin
<1> QED
  BY <1>7, <1>10, <1>11, Assembled

LEMMA FsyncFailStep ==
  ASSUME FileInv, NEW t \in Thread, At(t, "sfs_wbuf"), up(call[t].node), Reclaiming(t),
         FsyncEnd(call[t].node, FALSE),
         call' = [call EXCEPT ![t].steps = <<"failed_unlock">> \o Tail(Tail(@))],
         UNCHANGED <<alive, fd_array, leaked>>
  PROVE  FileInv'
<1> DEFINE s == <<"failed_unlock">> \o Tail(Tail(call[t].steps))
           c == [call[t] EXCEPT !.steps = s]
           L == Left(t)
           M == Elems(s)
<1>1. Now(t) = "sfs_wbuf"
  BY AtNow
<1>2. /\ FileType /\ Shape(t) /\ View(Now(t), L) /\ CleanInv
      /\ Now(t) # "none" /\ Now(t) \in InSin
  BY <1>1, FsyncFacts
<1>3. /\ s \in Seq(Steps) /\ Ordered(s) /\ s # <<>> /\ FirstOf(s) = "failed_unlock"
      /\ "vop_kill" \in L /\ L \subseteq {"sfs_wbuf", "vop_kill"} \cup Ending
      /\ M = {"failed_unlock"} \cup (L \ {"sfs_wbuf", "vop_kill"})
  BY <1>1, ReclaimingFacts
<1>4. call' = [call EXCEPT ![t].steps = s]
  BY <1>2 DEF FileType, TableType, CallSet
<1> HIDE DEF s
<1>5. /\ Keeps(t, c) /\ c.steps = s
      /\ [call EXCEPT ![t].steps = s] = [call EXCEPT ![t] = c]
  BY <1>2, <1>3, OtherSteps
<1> HIDE DEF c
<1>6. Continues(L, M) /\ SameBits(L, M) /\ "vop_kill" \notin M
  BY <1>2, <1>3 DEF View, Continues, SameBits, HasRef, HasOpen, Some, Complete,
     Loading, Hows, FsLock, SinLock, NodeSteps, RefSteps, KeepSteps, InSin, Ending, Exec
<1>7. /\ UNCHANGED <<ino, ref_count, open_count, reclaim_count, leaked, alive, fd_array>>
      /\ fd_array' \in [Thread -> [Fd -> [status : Status, node : Node \cup {none}]]]
      /\ Open(t)' = Open(t)
  BY <1>2 DEF FsyncEnd, FileType, TableType, Open, Slots
<1>8. TableType' /\ CallInv' /\ CountInv'
  BY <1>2, <1>4, <1>5, <1>6, <1>7, LightStep
<1>9. /\ \A u \in Thread \ {t} : call'[u] = call[u]
      /\ call'[t] = c /\ Left(t)' = M /\ Now(t)' = "failed_unlock"
  <2>1. call' = [call EXCEPT ![t] = c]
    BY <1>4, <1>5
  <2>2. /\ \A u \in Thread \ {t} : call'[u] = call[u]
        /\ call'[t] = c /\ Left(t)' = Elems(c.steps) /\ Now(t)' = FirstOf(c.steps)
    BY <1>2, <2>1, SameCall
  <2> QED
    BY <1>3, <1>5, <2>2
<1>10. NodeType' /\ CleanInv'
  BY <1>1, <1>6, <1>9, FsyncEndClean
<1>11. HasFs(t)' /\ HasFs(t) /\ Now(t)' \notin InSin \cup SinLock
  BY <1>3, <1>9 DEF HasFs, InSin, SinLock
<1>12. SemType' /\ QueueInv' /\ TokenInv'
  BY <1>2, <1>9, <1>11, LeaveSin
<1> QED
  BY <1>8, <1>10, <1>12, Assembled

LEMMA FsyncStep ==
  ASSUME FileInv, NEW t \in Thread, sfs_fsync(t)
  PROVE  FileInv'
<1>1. UNCHANGED <<alive, fd_array, leaked>>
  BY DEF sfs_fsync
<1>2. CASE /\ At(t, "sfs_fsync") /\ call[t].node \notin dirty /\ up(call[t].node)
           /\ GoesOn(t, <<>>) /\ UNCHANGED nodeVars
  BY <1>1, <1>2, FsyncCleanStep
<1>3. CASE /\ At(t, "sfs_fsync") /\ FsyncBegin(call[t].node)
           /\ GoesOn(t, <<"sfs_wbuf">>) /\ UNCHANGED semVars
  BY <1>1, <1>3, FsyncBeginStep
<1>4. CASE /\ At(t, "sfs_wbuf") /\ up(call[t].node)
           /\ \E ok \in BOOLEAN :
                /\ FsyncEnd(call[t].node, ok)
                /\ IF ok \/ ~Reclaiming(t) THEN GoesOn(t, <<>>)
                   ELSE call' = [call EXCEPT ![t].steps = <<"failed_unlock">> \o Tail(Tail(@))]
  <2> PICK ok \in BOOLEAN :
        /\ FsyncEnd(call[t].node, ok)
        /\ IF ok \/ ~Reclaiming(t) THEN GoesOn(t, <<>>)
           ELSE call' = [call EXCEPT ![t].steps = <<"failed_unlock">> \o Tail(Tail(@))]
    BY <1>4
  <2>1. CASE ok \/ ~Reclaiming(t)
    BY <1>1, <1>4, <2>1, FsyncEndStep
  <2>2. CASE ~(ok \/ ~Reclaiming(t))
    <3>1. ok = FALSE
      BY <2>2
    <3> QED
      BY <1>1, <1>4, <2>2, <3>1, FsyncFailStep
  <2> QED
    BY <2>1, <2>2
<1> QED
  BY <1>2, <1>3, <1>4 DEF sfs_fsync
-----------------------------------------------------------------------------
(* The slots.  Slot f of process t gets status s and inode n.              *)
LEMMA SlotSet ==
  ASSUME FileType, NEW t \in Thread, NEW f \in Fd, NEW s \in Status, NEW n \in Node \cup {none},
         SetSlot(t, f, s, n)
  PROVE  /\ fd_array' \in [Thread -> [Fd -> [status : Status, node : Node \cup {none}]]]
         /\ \A u \in Thread \ {t} : fd_array'[u] = fd_array[u]
         /\ \A g \in Fd \ {f} : fd_array'[t][g] = fd_array[t][g]
         /\ fd_array'[t][f].node = n
         /\ s = "FD_OPENED" => Open(t)' = Open(t) \cup {f}
         /\ s # "FD_OPENED" => Open(t)' = Open(t) \ {f}
<1>1. fd_array \in [Thread -> [Fd -> [status : Status, node : Node \cup {none}]]]
  BY DEF FileType, TableType
<1>2. fd_array[t] \in [Fd -> [status : Status, node : Node \cup {none}]]
  BY <1>1
<1> DEFINE e == [status |-> s, node |-> n]
           a == [fd_array[t] EXCEPT ![f] = e]
<1>3. e \in [status : Status, node : Node \cup {none}] /\ e.status = s /\ e.node = n
  OBVIOUS
<1> HIDE DEF e
<1>4. /\ a \in [Fd -> [status : Status, node : Node \cup {none}]]
      /\ a[f] = e /\ \A g \in Fd \ {f} : a[g] = fd_array[t][g]
  BY <1>2, <1>3
<1>5. fd_array' = [fd_array EXCEPT ![t] = a]
  BY <1>1 DEF SetSlot, e
<1> HIDE DEF a
<1>6. /\ fd_array' \in [Thread -> [Fd -> [status : Status, node : Node \cup {none}]]]
      /\ \A u \in Thread \ {t} : fd_array'[u] = fd_array[u]
      /\ fd_array'[t] = a
  BY <1>1, <1>4, <1>5
<1>7. \A g \in Fd \ {f} : fd_array'[t][g] = fd_array[t][g]
  BY <1>4, <1>6
<1>8. fd_array'[t][f] = e /\ fd_array'[t][f].node = n
  BY <1>3, <1>4, <1>6
<1>9. /\ s = "FD_OPENED" => Open(t)' = Open(t) \cup {f}
      /\ s # "FD_OPENED" => Open(t)' = Open(t) \ {f}
  BY <1>3, <1>7, <1>8 DEF Open, Slots
<1> QED
  BY <1>6, <1>7, <1>8, <1>9

(* fd_array_free of a slot that is not open.                               *)
LEMMA FreeStep ==
  ASSUME FileInv, NEW t \in Thread, fd_array_free(t)
  PROVE  FileInv'
<1> DEFINE c == Replaced(t, <<>>)
           M == Elems(c.steps)
           N == FirstOf(c.steps)
           L == Left(t)
<1>1. Now(t) = "fd_array_free" /\ Now(t) \in Ending /\ Now(t) # "none" /\ Now(t) # "sfs_wbuf"
      /\ Now(t) \notin {"woken_sfs_fs", "woken_sin"}
  BY AtNow DEF fd_array_free, Ending, Exec
<1>2. FileType /\ CallOK(t) /\ Shape(t) /\ View(Now(t), L) /\ CleanInv
  BY CallFacts DEF FileInv, CallOK
<1>3. /\ UNCHANGED <<ino, ref_count, open_count, reclaim_count, dirty, stale, leaked, alive>>
      /\ NodeType' /\ UNCHANGED semVars
  BY <1>2 DEF fd_array_free, nodeVars, FileType, NodeType
<1>4. After(t, c, {}) /\ call' = [call EXCEPT ![t] = c]
  BY <1>1, <1>2, Replace0 DEF GoesOn, fd_array_free
<1> HIDE DEF c
<1>5. M = L \ {Now(t)} /\ Order(N, M) /\ "fd_array_free" \in L
  BY <1>1, <1>2, <1>4 DEF After, Keeps, View, Order
<1>6. L \subseteq Ending /\ "fd_array_free" \notin M /\ N \in Ending \cup {"none"} /\ Complete(M)
  BY <1>1, <1>2, <1>5, NextOfEnding
<1>7. /\ fd_array' \in [Thread -> [Fd -> [status : Status, node : Node \cup {none}]]]
      /\ \A u \in Thread \ {t} : fd_array'[u] = fd_array[u]
      /\ Open(t)' = Open(t) /\ \A g \in Open(t) : fd_array'[t][g].node = fd_array[t][g].node
  <2> PICK f \in Fd \ Open(t) : f = call[t].fd
    BY <1>2, <1>5 DEF CallOK, KnowsSlots
  <2>1. SetSlot(t, f, "FD_NONE", none) /\ "FD_NONE" \in Status
    BY DEF fd_array_free, Status
  <2>2. Open(t) \subseteq Fd \ {f}
    BY DEF Open, Slots
  <2>3. /\ fd_array' \in [Thread -> [Fd -> [status : Status, node : Node \cup {none}]]]
        /\ \A u \in Thread \ {t} : fd_array'[u] = fd_array[u]
        /\ \A g \in Fd \ {f} : fd_array'[t][g] = fd_array[t][g]
        /\ Open(t)' = Open(t) \ {f}
    <3>1. "FD_NONE" # "FD_OPENED" /\ none \in Node \cup {none} /\ f \in Fd
      OBVIOUS
    <3> QED
      BY ONLY <1>2, <2>1, <3>1, SlotSet
  <2> QED
    BY <2>2, <2>3
<1>8. Continues(L, M) /\ SameBits(L, M) /\ "vop_kill" \notin M
  BY <1>1, <1>5, <1>6 DEF Continues, SameBits, HasRef, HasOpen, Some, Complete,
     Loading, Hows, FsLock, SinLock, NodeSteps, RefSteps, KeepSteps, InSin, Ending, Exec
<1>9. TableType' /\ CallInv' /\ CountInv'
  BY <1>1, <1>3, <1>4, <1>7, <1>8, LightStep DEF After
<1>10. /\ \A u \in Thread \ {t} : call'[u] = call[u]
       /\ call'[t] = c /\ Left(t)' = M /\ Now(t)' = N
  BY <1>2, <1>4, SameCall
<1>11. CleanInv'
  BY <1>1, <1>2, <1>3, <1>6, <1>8, <1>10, SameClean DEF Ending, Exec
<1>12. ~HasFs(t)' /\ ~HasFs(t) /\ ~HasSin(t)' /\ ~HasSin(t)
  BY <1>1, <1>5, <1>6, <1>10 DEF HasFs, HasSin, Ending, Exec, Loading, InSin
<1>13. SemType' /\ QueueInv' /\ TokenInv'
  BY <1>1, <1>3, <1>10, <1>12, StayTokens
<1> QED
  BY <1>3, <1>9, <1>11, <1>13, Assembled

(* The counts, when a step is about inode n and slot f.                    *)
LEMMA CountStep ==
  ASSUME FileInv, NEW t \in Thread, NEW n \in Node, NEW f,
         \A m \in Node \ {n} : ino'[m] = ino[m],
         \A u \in Thread \ {t} : call'[u] = call[u],
         call[t].node \in {n, none} \/ NoBits(Left(t)), call'[t].node \in {n, none},
         \A u \in Thread, g \in Fd : <<u, g>> # <<t, f>> => fd_array'[u][g] = fd_array[u][g],
         \A m \in Node \ {n} :
           /\ ref_count'[m] = ref_count[m] /\ open_count'[m] = open_count[m]
           /\ reclaim_count'[m] = reclaim_count[m] /\ leaked'[m] = leaked[m]
           /\ (<<t, f>> \in Descriptors(m))' <=> <<t, f>> \in Descriptors(m),
         ino'[n] # none, Counted(n)', leaked'[n].open <= leaked'[n].ref,
         \A u \in Thread \ {t} : "vop_kill" \in Left(u) => call[u].node # n,
         "vop_kill" \in Left(t)' =>
           call'[t].node = n /\ ref_count'[n] = 0 /\ reclaim_count'[n] = 0
  PROVE  CountInv'
<1>1. FileType /\ CountInv /\ none \notin Node
  BY SfsInodeAssumption DEF FileInv
<1>2. ASSUME NEW m \in Node, ino'[m] # none PROVE Counted(m)'
  <2>1. CASE m = n
    BY <2>1
  <2>2. CASE m # n
    <3>1. /\ ref_count'[m] = ref_count[m] /\ open_count'[m] = open_count[m]
          /\ reclaim_count'[m] = reclaim_count[m] /\ leaked'[m] = leaked[m]
      BY <2>2
    <3>3. \A u \in Thread \ {t} : Left(u)' = Left(u)
      BY DEF Left
    <3>4. RefOf(m)' = RefOf(m) /\ OpenOf(m)' = OpenOf(m) /\ ReclaimOf(m)' = ReclaimOf(m)
      <4>1. (call[t].node # m \/ NoBits(Left(t))) /\ call'[t].node # m
        BY <1>1, <2>2
      <4>2. \A u \in Thread : /\ u \in RefOf(m)' <=> u \in RefOf(m)
                              /\ u \in OpenOf(m)' <=> u \in OpenOf(m)
                              /\ u \in ReclaimOf(m)' <=> u \in ReclaimOf(m)
        <5> TAKE u \in Thread
        <5>1. CASE u = t
          BY <4>1, <5>1 DEF RefOf, OpenOf, ReclaimOf, NoBits
        <5>2. CASE u # t
          BY <3>3, <5>2 DEF RefOf, OpenOf, ReclaimOf
        <5> QED
          BY <5>1, <5>2
      <4>3. /\ RefOf(m)' \subseteq Thread /\ OpenOf(m)' \subseteq Thread
            /\ ReclaimOf(m)' \subseteq Thread
            /\ RefOf(m) \subseteq Thread /\ OpenOf(m) \subseteq Thread
            /\ ReclaimOf(m) \subseteq Thread
        BY DEF RefOf, OpenOf, ReclaimOf
      <4> QED
        BY <4>2, <4>3
    <3>5. \A u \in Thread, g \in Fd : <<u, g>> \in Descriptors(m)' <=> <<u, g>> \in Descriptors(m)
      <4> TAKE u \in Thread, g \in Fd
      <4>1. CASE <<u, g>> = <<t, f>>
        BY <2>2, <4>1
      <4>2. CASE <<u, g>> # <<t, f>>
        BY <4>2 DEF Descriptors, Slots
      <4> QED
        BY <4>1, <4>2
    <3>6. Descriptors(m)' \subseteq Thread \X Fd /\ Descriptors(m) \subseteq Thread \X Fd
      BY DEF Descriptors
    <3>7. Descriptors(m)' = Descriptors(m)
      <4>1. \A d \in Thread \X Fd : d \in Descriptors(m)' <=> d \in Descriptors(m)
        BY <3>5
      <4> QED
        BY <3>6, <4>1
    <3>8. Counted(m)
      BY <1>1, <1>2, <2>2 DEF CountInv
    <3> QED
      BY <3>1, <3>4, <3>7, <3>8 DEF Counted
  <2> QED
    BY <2>1, <2>2
<1>3. /\ \A m \in Node : ino'[m] = none => leaked'[m].ref = 0
      /\ \A m \in Node : leaked'[m].open <= leaked'[m].ref
  BY <1>1 DEF CountInv
<1>4. ASSUME NEW u \in Thread, "vop_kill" \in Left(u)'
      PROVE  ref_count'[call'[u].node] = 0 /\ reclaim_count'[call'[u].node] = 0
  <2>1. CASE u = t
    BY <1>4, <2>1
  <2>2. CASE u # t
    <3>1. "vop_kill" \in Left(u) /\ call'[u] = call[u]
      BY <1>4, <2>2 DEF Left
    <3>2. call[u].node \in Node \ {n}
      BY <2>2, <3>1, KillAlone
    <3> QED
      BY <1>1, <3>1, <3>2 DEF CountInv
  <2> QED
    BY <2>1, <2>2
<1> QED
  BY <1>2, <1>3, <1>4 DEF CountInv

(* fd_array_open: the reference of the call becomes that of a descriptor.  *)
LEMMA OpenedStep ==
  ASSUME FileInv, NEW t \in Thread, fd_array_open(t)
  PROVE  FileInv'
<1> DEFINE c == Replaced(t, <<>>)
           L == Left(t)
           M == Elems(c.steps)
           N == FirstOf(c.steps)
<1>1. /\ Now(t) = "fd_array_open" /\ Now(t) # "none" /\ Now(t) # "sfs_wbuf"
      /\ Now(t) \notin {"woken_sfs_fs", "woken_sin"} /\ Now(t) \in NodeSteps
  BY AtNow DEF fd_array_open, NodeSteps, RefSteps
<1>2. FileType /\ CallInv /\ CallOK(t) /\ Shape(t) /\ View(Now(t), L) /\ CleanInv
  BY CallFacts DEF FileInv, CallOK
<1>3. "fd_array_open" \in L
  BY <1>1, <1>2 DEF View, Order
<1> PICK n \in Node : n = call[t].node
  BY <1>1, NodeOfCall
<1> PICK f \in Fd \ Open(t) : f = call[t].fd
  BY <1>2, <1>3 DEF CallOK, KnowsSlots
<1>4. n # none /\ ino[n] # none /\ Counted(n)
  BY <1>1, NodeOfCall, SfsInodeAssumption
<1>5. /\ UNCHANGED <<ino, ref_count, open_count, reclaim_count, dirty, stale, leaked, alive>>
      /\ NodeType' /\ UNCHANGED semVars
  BY <1>2 DEF fd_array_open, nodeVars, FileType, NodeType
<1>6. After(t, c, {}) /\ call' = [call EXCEPT ![t] = c]
  BY <1>1, <1>2, Replace0 DEF GoesOn, fd_array_open
<1> HIDE DEF c
<1>7. /\ M = L \ {Now(t)} /\ Order(N, M) /\ Ordered(c.steps) /\ c \in CallSet
      /\ M = {} => c = NoCall
      /\ M # {} => c.node = n /\ c.fd = f
  BY <1>6 DEF After, Keeps
<1>16. /\ L \subseteq {"fd_array_open"} \cup Exec /\ M \subseteq Exec /\ Complete(M)
       /\ N \in Exec \cup {"none"} /\ (M # {} => "load_icode" \in M)
  <2>1. /\ L \subseteq {"fd_array_open"} \cup Exec /\ M \subseteq Exec /\ Complete(M)
        /\ N \in Exec \cup {"none"}
    BY <1>1, <1>2, <1>7, NextOfExec
  <2> QED
    BY <2>1 DEF Complete, Exec
<1> HIDE DEF M, N
<1>8. /\ \A u \in Thread \ {t} : call'[u] = call[u]
      /\ call'[t] = c /\ Left(t)' = M /\ Now(t)' = N
  BY <1>2, <1>6, SameCall DEF M, N
<1>17. c.node \in {n, none}
  BY <1>7 DEF NoCall
<1>18. NoBits(M)
  BY <1>16 DEF NoBits, HasRef, HasOpen, Some, RefSteps, Exec
<1>9. /\ fd_array' \in [Thread -> [Fd -> [status : Status, node : Node \cup {none}]]]
      /\ \A u \in Thread \ {t} : fd_array'[u] = fd_array[u]
      /\ \A g \in Fd \ {f} : fd_array'[t][g] = fd_array[t][g]
      /\ fd_array'[t][f].node = n
      /\ Open(t)' = Open(t) \cup {f}
  <2>1. /\ SetSlot(t, f, "FD_OPENED", n) /\ "FD_OPENED" \in Status
        /\ n \in Node \cup {none} /\ f \in Fd
    BY DEF fd_array_open, Status
  <2> QED
    BY <1>2, <2>1, SlotSet
<1>10. TableType'
  BY <1>2, <1>5, <1>6, <1>7, <1>9 DEF FileType, TableType
<1>11. CallInv'
  <2>0. f \in Open(t)' /\ fd_array'[t][f].node = n
    BY <1>9
  <2>1. t \in alive /\ t # initproc
    <3>1. call[t] # NoCall
      BY <1>2, <1>3, CallFacts
    <3> QED
      BY <1>2, <1>16, <3>1 DEF CallOK, KnowsAlive, Exec
  <2>2. Shape(t)'
    BY <1>7, <1>8, <1>16 DEF Shape, M
  <2>3. KnowsNode(t)'
    <3>1. ~Some(M, Loading) /\ (Some(M, NodeSteps) => M # {})
      BY <1>16 DEF Some, Exec, Loading
    <3>2. Some(M, NodeSteps) => c.node \in Node
      BY <1>7, <3>1
    <3>3. c.node # none => ino[c.node] # none /\ c.node = n
      BY <1>4, <1>17
    <3> QED
      BY <1>5, <1>8, <2>0, <3>1, <3>2, <3>3 DEF KnowsNode
  <2>4. KnowsSlots(t)'
    <3>1. \A g \in Open(t)' : fd_array'[t][g].node \in Node /\ ino'[fd_array'[t][g].node] # none
      <4>1. ASSUME NEW g \in Open(t), g # f
            PROVE  fd_array'[t][g].node \in Node /\ ino'[fd_array'[t][g].node] # none
        <5>1. g \in Fd \ {f} /\ fd_array[t][g].node \in Node /\ ino[fd_array[t][g].node] # none
          BY <1>2, <4>1 DEF CallOK, KnowsSlots, Open, Slots
        <5> QED
          BY <1>5, <1>9, <5>1
      <4> QED
        BY <1>4, <1>5, <1>9, <4>1
    <3>2. "load_icode" \in M => Open(t)' = {f} /\ c.fd = f /\ c.node = n
      <4>1. "load_icode" \in M => "load_icode" \in L /\ M # {}
        BY <1>7
      <4>2. "load_icode" \in L => Open(t) = {}
        BY <1>2, <1>3 DEF CallOK, KnowsSlots
      <4> QED
        BY <1>7, <1>9, <4>1, <4>2
    <3> QED
      BY <1>8, <1>9, <1>16, <3>1, <3>2 DEF KnowsSlots, Exec, Some
  <2>5. KnowsAlive(t)'
    BY <1>5, <1>8, <1>16, <2>1 DEF KnowsAlive, Exec
  <2>6. \A u \in Thread \ {t} : CallOK(u)'
    BY <1>2, <1>5, <1>8, <1>9, OthersOK
  <2> QED
    BY <1>2, <1>5, <2>2, <2>3, <2>4, <2>5, <2>6 DEF CallInv, CallOK
<1>12. CountInv'
  <2>1. /\ (<<t, f>> \in Descriptors(n))' /\ ~(<<t, f>> \in Descriptors(n))
        /\ \A m \in Node \ {n} : ~(<<t, f>> \in Descriptors(m))' /\ ~(<<t, f>> \in Descriptors(m))
    <3>1. <<t, f>> \in Thread \X Fd
      OBVIOUS
    <3>2. f \in Open(t)' /\ f \notin Open(t) /\ fd_array'[t][f].node = n
      BY <1>9
    <3> QED
      BY <3>1, <3>2 DEF Descriptors, Open
  <2>2. /\ t \in RefOf(n) /\ t \in OpenOf(n) /\ ~(t \in ReclaimOf(n))
        /\ ~(t \in RefOf(n))' /\ ~(t \in OpenOf(n))' /\ ~(t \in ReclaimOf(n))'
    <3>1. HasRef(L) /\ HasOpen(L) /\ "sfs_reclaim" \notin L
      BY <1>3, <1>16 DEF HasRef, HasOpen, Some, RefSteps, Hows, Exec
    <3> QED
      BY <1>8, <1>18, <3>1 DEF RefOf, OpenOf, ReclaimOf, NoBits
  <2>3. /\ Bit((<<t, f>> \in Descriptors(n))') = 1 /\ Bit(<<t, f>> \in Descriptors(n)) = 0
        /\ Bit((t \in RefOf(n))') = 0 /\ Bit(t \in RefOf(n)) = 1
        /\ Bit((t \in OpenOf(n))') = 0 /\ Bit(t \in OpenOf(n)) = 1
        /\ Bit((t \in ReclaimOf(n))') = 0 /\ Bit(t \in ReclaimOf(n)) = 0
    BY <2>1, <2>2 DEF Bit
  <2>4. /\ ref_count[n] \in Int /\ open_count[n] \in Int /\ reclaim_count[n] \in Int
        /\ leaked[n].ref \in Nat /\ Bit(ref_count[n] > 0) \in Int
    BY <1>2 DEF FileType, NodeType, TableType, Bit
  <2>5. \A u \in Thread, g \in Fd : <<u, g>> # <<t, f>> => fd_array'[u][g] = fd_array[u][g]
    BY <1>9
  <2>6. Counted(n)'
    BY <1>2, <1>4, <1>5, <1>8, <2>3, <2>4, <2>5, CountsMove
  <2>7. \A u \in Thread \ {t} : "vop_kill" \in Left(u) => call[u].node # n
    BY KillAlone
  <2>8. leaked'[n].open <= leaked'[n].ref
    BY <1>5 DEF FileInv, CountInv
  <2>9. "vop_kill" \notin M
    BY <1>16 DEF Exec
  <2> QED
    BY <1>4, <1>5, <1>8, <1>17, <2>1, <2>5, <2>6, <2>7, <2>8, <2>9, CountStep
<1>13. CleanInv'
  BY <1>1, <1>2, <1>5, <1>8, <1>16, SameClean DEF Exec
<1>14. ~HasFs(t)' /\ ~HasFs(t) /\ ~HasSin(t)' /\ ~HasSin(t)
  BY <1>1, <1>8, <1>16 DEF HasFs, HasSin, Loading, InSin, Exec
<1>15. SemType' /\ QueueInv' /\ TokenInv'
  BY <1>1, <1>5, <1>8, <1>14, StayTokens
<1> QED
  BY <1>5, <1>10, <1>11, <1>12, <1>13, <1>15, Assembled

(* Steps that leave the slots alone.                                       *)
LEMMA MoveStep ==
  ASSUME FileInv, NEW t \in Thread, Now(t) # "none", NEW c, Keeps(t, c),
         call' = [call EXCEPT ![t] = c], UNCHANGED <<ino, leaked, alive, fd_array>>,
         Continues(Left(t), Elems(c.steps))
  PROVE  /\ TableType' /\ CallInv'
         /\ \A u \in Thread \ {t} : call'[u] = call[u]
         /\ call'[t] = c /\ Left(t)' = Elems(c.steps) /\ Now(t)' = FirstOf(c.steps)
<1>1. /\ \A u \in Thread \ {t} : call'[u] = call[u]
      /\ call'[t] = c /\ Left(t)' = Elems(c.steps) /\ Now(t)' = FirstOf(c.steps)
  BY SameCall DEF FileInv
<1>2. TableType'
  BY DEF FileInv, FileType, TableType, Keeps
<1>3. Open(t)' = Open(t)
  BY DEF Open, Slots
<1>4. CallOK(t)'
  BY <1>3, ContinuesOK DEF FileInv
<1>5. \A u \in Thread \ {t} : CallOK(u)'
  BY <1>1, OthersOK DEF FileInv
<1> QED
  BY <1>1, <1>2, <1>4, <1>5 DEF FileInv, CallInv

LEMMA CountCall ==
  ASSUME FileInv, NEW t \in Thread, NEW n \in Node, UNCHANGED <<ino, fd_array>>, ino[n] # none,
         \A u \in Thread \ {t} : call'[u] = call[u],
         call[t].node \in {n, none}, call'[t].node \in {n, none},
         ref_count'[n] \in Int, open_count'[n] \in Int, reclaim_count'[n] \in Int,
         leaked'[n].ref \in Nat, leaked'[n].ref >= leaked[n].ref, leaked'[n].open = leaked[n].open,
         \A m \in Node \ {n} :
           /\ ref_count'[m] = ref_count[m] /\ open_count'[m] = open_count[m]
           /\ reclaim_count'[m] = reclaim_count[m] /\ leaked'[m] = leaked[m],
         ref_count'[n] - ref_count[n] =
           leaked'[n].ref - leaked[n].ref + (Bit((t \in RefOf(n))') - Bit(t \in RefOf(n))),
         open_count'[n] - open_count[n] = Bit((t \in OpenOf(n))') - Bit(t \in OpenOf(n)),
         reclaim_count'[n] - reclaim_count[n] =
           (Bit((t \in ReclaimOf(n))') - Bit(t \in ReclaimOf(n)))
             + (Bit(ref_count'[n] > 0) - Bit(ref_count[n] > 0)),
         \A u \in Thread \ {t} : "vop_kill" \in Left(u) => call[u].node # n,
         "vop_kill" \in Left(t)' =>
           call'[t].node = n /\ ref_count'[n] = 0 /\ reclaim_count'[n] = 0
  PROVE  CountInv'
<1>1. FileType /\ Counted(n)
  BY DEF FileInv, CountInv
<1>2. \A m : Descriptors(m)' = Descriptors(m)
  BY DEF Descriptors, Slots
<1> DEFINE d == Bit((<<t, none>> \in Descriptors(n))')
           e == Bit(<<t, none>> \in Descriptors(n))
           r == Bit((t \in RefOf(n))')
           q == Bit(t \in RefOf(n))
           p == Bit((t \in OpenOf(n))')
           o == Bit(t \in OpenOf(n))
<1>3. d = e /\ d \in Int /\ e \in Int /\ r \in Int /\ q \in Int /\ p \in Int /\ o \in Int
  BY <1>2 DEF Bit
<1>4. /\ ref_count'[n] - ref_count[n] = leaked'[n].ref - leaked[n].ref + (r - q)
      /\ open_count'[n] - open_count[n] = p - o
  OBVIOUS
<1>5. leaked[n].ref \in Nat /\ leaked'[n].ref \in Nat
  BY <1>1 DEF FileType, TableType
<1> HIDE DEF d, e, r, q, p, o
<1>6. leaked'[n].ref - leaked[n].ref + (r - q) = leaked'[n].ref - leaked[n].ref + (d - e) + (r - q)
      /\ p - o = (d - e) + (p - o)
  BY <1>3, <1>5
<1>7. /\ ref_count'[n] - ref_count[n] = leaked'[n].ref - leaked[n].ref + (d - e) + (r - q)
      /\ open_count'[n] - open_count[n] = (d - e) + (p - o)
  BY <1>4, <1>6
<1>8. \A u \in Thread, g \in Fd : <<u, g>> # <<t, none>> => fd_array'[u][g] = fd_array[u][g]
  OBVIOUS
<1>9. Counted(n)'
  BY <1>1, <1>7, <1>8, CountsMove DEF d, e, r, q, p, o
<1>10. \A m \in Node \ {n} : (<<t, none>> \in Descriptors(m))' <=> <<t, none>> \in Descriptors(m)
  BY <1>2
<1>11. \A m \in Node \ {n} :
           /\ ref_count'[m] = ref_count[m] /\ open_count'[m] = open_count[m]
           /\ reclaim_count'[m] = reclaim_count[m] /\ leaked'[m] = leaked[m]
           /\ (<<t, none>> \in Descriptors(m))' <=> <<t, none>> \in Descriptors(m)
  BY <1>10
<1>12. leaked'[n].open <= leaked'[n].ref
  <2>1. leaked[n].open <= leaked[n].ref /\ leaked[n].open \in Nat
    BY <1>1 DEF FileInv, CountInv, FileType, TableType
  <2> QED
    BY <1>5, <2>1
<1> QED
  BY <1>8, <1>9, <1>11, <1>12, CountStep

(* vfs_close.  sfs_fsync may come in the place of a step, or nothing.      *)
LEMMA ReplaceFsync ==
  ASSUME FileType, NEW t \in Thread, Shape(t), Now(t) # "none", NEW p,
         p = <<>> \/ p = <<"lock_sin", "sfs_fsync">>,
         \A y \in Left(t) \ {Now(t)} : Follows("lock_sin", y) /\ Follows("sfs_fsync", y)
  PROVE  \E P : /\ After(t, Replaced(t, p), P)
                /\ P = {} \/ (P = {"lock_sin", "sfs_fsync"}
                              /\ FirstOf(Replaced(t, p).steps) = "lock_sin")
<1>1. CASE p = <<>>
  BY <1>1, Replace0
<1>2. CASE p = <<"lock_sin", "sfs_fsync">>
  <2>1. "lock_sin" \in Steps /\ "sfs_fsync" \in Steps /\ Follows("lock_sin", "sfs_fsync")
    BY DEF Steps, NodeSteps, SinLock, InSin, Follows
  <2>2. /\ After(t, Replaced(t, <<"lock_sin", "sfs_fsync">>), {"lock_sin", "sfs_fsync"})
        /\ FirstOf(Replaced(t, <<"lock_sin", "sfs_fsync">>).steps) = "lock_sin"
    BY <2>1, Replace2
  <2> QED
    BY <1>2, <2>2
<1> QED
  BY <1>1, <1>2

LEMMA LeftOfClose ==
  ASSUME NEW x, NEW L, View(x, L), x \in {"inode_open_dec", "inode_ref_dec", "sfs_reclaim"}
  PROVE  /\ L \subseteq {x, "inode_ref_dec"} \cup Ending /\ x \in L
         /\ x = "inode_open_dec" => "inode_ref_dec" \in L
         /\ x # "inode_open_dec" => L \subseteq {x} \cup Ending
  BY DEF View, Order, Complete, Follows, Some, Hows, FsLock, SinLock, Loading, Ending, Exec,
         RefSteps, InSin

LEMMA OpenDecStep ==
  ASSUME FileInv, NEW t \in Thread, OpenDec(t)
  PROVE  FileInv'
<1> DEFINE L == Left(t)
<1>1. /\ Now(t) = "inode_open_dec" /\ Now(t) # "none" /\ Now(t) # "sfs_wbuf"
      /\ Now(t) \notin {"woken_sfs_fs", "woken_sin"} /\ Now(t) \in NodeSteps
  BY AtNow DEF OpenDec, NodeSteps
<1>2. FileType /\ CallInv /\ CallOK(t) /\ Shape(t) /\ View(Now(t), L) /\ CleanInv
  BY CallFacts DEF FileInv, CallOK
<1>3. L \subseteq {"inode_open_dec", "inode_ref_dec"} \cup Ending
      /\ "inode_open_dec" \in L /\ "inode_ref_dec" \in L
  BY <1>1, <1>2, LeftOfClose
<1> PICK n \in Node : n = call[t].node
  BY <1>1, NodeOfCall
<1>4. n # none /\ ino[n] # none /\ Counted(n)
  BY <1>1, NodeOfCall, SfsInodeAssumption
<1>5. /\ UNCHANGED <<ino, ref_count, reclaim_count, dirty, stale, leaked, alive, fd_array>>
      /\ open_count' = [open_count EXCEPT ![n] = @ - 1] /\ UNCHANGED semVars
  BY DEF OpenDec, inode_open_dec
<1>6. /\ open_count'[n] = open_count[n] - 1
      /\ \A m \in Node \ {n} : open_count'[m] = open_count[m]
      /\ NodeType'
  BY <1>2, <1>5 DEF FileType, NodeType
<1>7. PICK p : /\ p = <<>> \/ p = <<"lock_sin", "sfs_fsync">>
               /\ call' = [call EXCEPT ![t] = Replaced(t, p)]
  BY DEF OpenDec, GoesOn, FsyncSteps
<1>8. \A y \in L \ {Now(t)} : Follows("lock_sin", y) /\ Follows("sfs_fsync", y)
  BY <1>1, <1>3 DEF Follows, SinLock
<1>9. PICK P : /\ After(t, Replaced(t, p), P)
               /\ P = {} \/ (P = {"lock_sin", "sfs_fsync"}
                             /\ FirstOf(Replaced(t, p).steps) = "lock_sin")
  BY <1>1, <1>2, <1>7, <1>8, ReplaceFsync
<1> DEFINE c == Replaced(t, p)
           M == Elems(c.steps)
           N == FirstOf(c.steps)
<1> HIDE DEF c
<1>10. /\ call' = [call EXCEPT ![t] = c] /\ Keeps(t, c) /\ M = P \cup (L \ {"inode_open_dec"})
       /\ P = {} \/ (P = {"lock_sin", "sfs_fsync"} /\ N = "lock_sin")
       /\ Order(N, M)
  BY <1>1, <1>7, <1>9 DEF After, Keeps, c
<1>11. N \in {"inode_ref_dec", "lock_sin"} /\ Complete(M)
  <2>1. CASE P = {}
    BY <1>1, <1>2, <1>10, <2>1, NextOfClose
  <2>2. CASE P = {"lock_sin", "sfs_fsync"} /\ N = "lock_sin"
    BY <1>3, <1>10, <2>2 DEF Complete, Some, Loading, Hows, FsLock, SinLock, Ending, Exec
  <2> QED
    BY <1>10, <2>1, <2>2
<1>12. Continues(L, M) /\ "vop_kill" \notin M /\ "sfs_sync" \notin M /\ M # {}
  BY <1>3, <1>10, <1>11 DEF Continues, Some, Loading, NodeSteps, KeepSteps, RefSteps, SinLock,
     InSin, Ending, Exec
<1>13. /\ TableType' /\ CallInv'
       /\ \A u \in Thread \ {t} : call'[u] = call[u]
       /\ call'[t] = c /\ Left(t)' = M /\ Now(t)' = N /\ c.node = n
  BY <1>1, <1>5, <1>10, <1>12, MoveStep DEF Keeps
<1>14. CountInv'
  <2>1. /\ t \in RefOf(n) /\ t \in OpenOf(n) /\ ~(t \in ReclaimOf(n))
        /\ (t \in RefOf(n))' /\ ~(t \in OpenOf(n))' /\ ~(t \in ReclaimOf(n))'
    BY <1>3, <1>10, <1>13 DEF RefOf, OpenOf, ReclaimOf, HasRef, HasOpen, Some, RefSteps, Hows, Ending, Exec
  <2>2. /\ Bit((t \in RefOf(n))') = 1 /\ Bit(t \in RefOf(n)) = 1
        /\ Bit((t \in OpenOf(n))') = 0 /\ Bit(t \in OpenOf(n)) = 1
        /\ Bit((t \in ReclaimOf(n))') = 0 /\ Bit(t \in ReclaimOf(n)) = 0
    BY <2>1 DEF Bit
  <2>3. /\ ref_count[n] \in Int /\ open_count[n] \in Int /\ reclaim_count[n] \in Int
        /\ leaked[n].ref \in Nat /\ Bit(ref_count[n] > 0) \in Int
    BY <1>2 DEF FileType, NodeType, TableType, Bit
  <2>4. \A u \in Thread \ {t} : "vop_kill" \in Left(u) => call[u].node # n
    BY KillAlone
  <2> QED
    BY <1>4, <1>5, <1>6, <1>12, <1>13, <2>2, <2>3, <2>4, CountCall
<1>15. CleanInv'
  BY <1>1, <1>2, <1>5, <1>11, <1>12, <1>13, SameClean
<1>16. ~HasFs(t)' /\ ~HasFs(t) /\ ~HasSin(t)' /\ ~HasSin(t)
  BY <1>1, <1>3, <1>11, <1>12, <1>13 DEF HasFs, HasSin, Loading, InSin, Ending, Exec
<1>17. SemType' /\ QueueInv' /\ TokenInv'
  BY <1>1, <1>5, <1>13, <1>16, StayTokens
<1> QED
  BY <1>6, <1>13, <1>14, <1>15, <1>17, Assembled

(* A call that has done with its inode; an inode that nobody refers to may *)
(* be freed with it.                                                       *)
LEMMA ReleaseStep ==
  ASSUME FileInv, NEW t \in Thread, ReleaseNode(t), UNCHANGED <<alive, fd_array, leaked>>,
         Now(t) \in {"inode_ref_dec", "sfs_reclaim", "vop_kill", "failed_unlock"},
         \A n \in Node : ino[n] # none /\ ino'[n] = none =>
           /\ alive # {} /\ Descriptors(n) = {}
           /\ \A u \in Thread \ {t} : call[u].node # n
  PROVE  /\ TableType' /\ CallInv'
         /\ \A u \in Thread \ {t} : call'[u] = call[u]
         /\ call'[t].node = none /\ Left(t)' = Left(t) \ {Now(t)} /\ Left(t)' \subseteq Ending
         /\ Now(t)' \in Ending \cup {"none"} /\ Left(t) \subseteq {Now(t)} \cup Ending
         /\ Now(t) \in Left(t) /\ Now(t) # "none"
<1> DEFINE L == Left(t)
           d == Replaced(t, <<>>)
           c == [d EXCEPT !.node = none]
           M == Elems(d.steps)
           N == FirstOf(d.steps)
<1>1. FileType /\ CallInv /\ CallOK(t) /\ Shape(t) /\ View(Now(t), L) /\ Now(t) # "none"
  BY CallFacts DEF FileInv, CallOK
<1>2. After(t, d, {}) /\ call' = [call EXCEPT ![t] = c]
  BY <1>1, Replace0 DEF ReleaseNode
<1> HIDE DEF d
<1>3. d \in CallSet /\ NoCall \in CallSet /\ NoCall.node = none
  BY <1>2 DEF After, Keeps, CallSet, NoCall
<1>4. /\ c \in CallSet /\ c.steps = d.steps /\ c.fd = d.fd /\ c.todo = d.todo /\ c.node = none
      /\ c.ino = d.ino /\ (d = NoCall => c = NoCall)
  BY <1>3 DEF CallSet, NoCall
<1> HIDE DEF c
<1>5. /\ M = L \ {Now(t)} /\ Order(N, M) /\ Ordered(d.steps)
      /\ M = {} => d = NoCall
      /\ M # {} => d.fd = call[t].fd /\ d.todo = call[t].todo /\ d.ino = call[t].ino
  BY <1>2 DEF After, Keeps
<1>6. /\ L \subseteq {Now(t)} \cup Ending /\ M \subseteq Ending
      /\ N \in Ending \cup {"none"} /\ Complete(M)
  BY <1>1, <1>5, NextOfNode
<1>7. Now(t) \in L /\ Now(t) \notin Ending
  BY <1>1 DEF View, Order, Ending, Exec
<1>8. /\ \A u \in Thread \ {t} : call'[u] = call[u]
      /\ call'[t] = c /\ Left(t)' = M /\ Now(t)' = N
  <2>1. /\ \A u \in Thread \ {t} : call'[u] = call[u]
        /\ call'[t] = c /\ Left(t)' = Elems(c.steps) /\ Now(t)' = FirstOf(c.steps)
    BY <1>1, <1>2, SameCall
  <2> QED
    BY <1>4, <2>1
<1>9. TableType'
  BY <1>1, <1>2, <1>4 DEF FileType, TableType
<1>10. t # initproc /\ t \in alive
  <2>1. call[t] # NoCall /\ "sfs_sync" \notin L
    BY <1>1, <1>6, <1>7, CallFacts DEF Ending, Exec
  <2> QED
    BY <1>1, <2>1 DEF CallOK, KnowsAlive
<1>11. Shape(t)'
  BY <1>4, <1>5, <1>6, <1>8 DEF Shape
<1>12. KnowsNode(t)'
  BY <1>4, <1>6, <1>8 DEF KnowsNode, Some, Loading, NodeSteps, RefSteps, SinLock, InSin, Ending, Exec
<1>13. KnowsSlots(t)'
  <2>1. Open(t)' = Open(t) /\ fd_array' = fd_array
    BY DEF Open, Slots
  <2>2. ASSUME NEW f \in Open(t)
        PROVE  fd_array[t][f].node \in Node /\ ino'[fd_array[t][f].node] # none
    <3>1. fd_array[t][f].node \in Node /\ ino[fd_array[t][f].node] # none
      BY <1>1 DEF CallOK, KnowsSlots
    <3>2. <<t, f>> \in Descriptors(fd_array[t][f].node)
      BY DEF Descriptors, Open, Slots
    <3> QED
      BY <3>1, <3>2
  <2>3. /\ "fd_array_open" \notin M
        /\ "fd_array_free" \in M => c.fd \in Fd \ Open(t)
        /\ "next_fd" \in M => c.todo = Open(t)
        /\ Some(M, {"kfree", "sysfile_open"}) /\ "next_fd" \notin M => Open(t) = {}
        /\ "sysfile_open" \in M => c.ino \in Ino
        /\ "load_icode" \notin M
    BY <1>1, <1>4, <1>5, <1>6, <1>7 DEF CallOK, KnowsSlots, Some, Ending, Exec
  <2> QED
    BY <1>8, <2>1, <2>2, <2>3 DEF KnowsSlots
<1>14. KnowsAlive(t)'
  BY <1>6, <1>8, <1>10 DEF KnowsAlive, Ending, Exec
<1>15. \A u \in Thread \ {t} : CallOK(u)'
  <2>1. \A n \in Node : ino[n] # none /\ ino'[n] = none =>
          /\ alive # {}
          /\ \A u \in Thread \ {t} : /\ call[u].node # n
                                     /\ \A f \in Open(u) : fd_array[u][f].node # n
    <3> SUFFICES ASSUME NEW n \in Node, ino[n] # none, ino'[n] = none
                 PROVE  /\ alive # {}
                        /\ \A u \in Thread \ {t} :
                             call[u].node # n /\ \A f \in Open(u) : fd_array[u][f].node # n
      OBVIOUS
    <3>1. Descriptors(n) = {}
      OBVIOUS
    <3>2. \A u \in Thread : \A f \in Open(u) : f \in Fd /\ fd_array[u][f].node # n
      BY <3>1, InDescriptors DEF Open, Slots
    <3> QED
      BY <3>2
  <2> QED
    BY <1>1, <1>8, <2>1, OthersOK
<1>16. CallInv'
  BY <1>1, <1>11, <1>12, <1>13, <1>14, <1>15 DEF CallInv, CallOK
<1> QED
  BY <1>1, <1>4, <1>5, <1>6, <1>7, <1>8, <1>9, <1>16

LEMMA RefAtLeastOne ==
  ASSUME FileInv, NEW t \in Thread, NEW n \in Node, Counted(n), t \in RefOf(n)
  PROVE  ref_count[n] \in Int /\ ref_count[n] >= 1
<1>1. Cardinality(RefOf(n)) \in Nat /\ Cardinality(RefOf(n)) # 0
  BY FiniteCounts, FS_CardinalityType, FS_EmptySet
<1>2. Cardinality(Descriptors(n)) \in Nat /\ leaked[n].ref \in Nat
  BY FiniteCounts, FS_CardinalityType DEF FileInv, FileType, TableType
<1> QED
  BY <1>1, <1>2 DEF Counted

LEMMA RefDecStep ==
  ASSUME FileInv, NEW t \in Thread, RefDec(t)
  PROVE  FileInv'
<1> DEFINE L == Left(t)
<1>1. /\ Now(t) = "inode_ref_dec" /\ Now(t) # "none" /\ Now(t) # "sfs_wbuf"
      /\ Now(t) \notin {"woken_sfs_fs", "woken_sin"} /\ Now(t) \in NodeSteps
  BY AtNow DEF RefDec, NodeSteps, RefSteps
<1>2. FileType /\ CallInv /\ CallOK(t) /\ Shape(t) /\ View(Now(t), L) /\ CleanInv
  BY CallFacts DEF FileInv, CallOK
<1>3. L \subseteq {"inode_ref_dec"} \cup Ending /\ "inode_ref_dec" \in L
  BY <1>1, <1>2, LeftOfClose
<1> PICK n \in Node : n = call[t].node
  BY <1>1, NodeOfCall
<1>4. n # none /\ ino[n] # none /\ Counted(n)
  BY <1>1, NodeOfCall, SfsInodeAssumption
<1>5. /\ UNCHANGED <<ino, open_count, reclaim_count, dirty, stale, leaked, alive, fd_array>>
      /\ ref_count' = [ref_count EXCEPT ![n] = @ - 1] /\ UNCHANGED semVars
  BY DEF RefDec, inode_ref_dec
<1>6. /\ ref_count'[n] = ref_count[n] - 1
      /\ \A m \in Node \ {n} : ref_count'[m] = ref_count[m]
      /\ NodeType'
  BY <1>2, <1>5 DEF FileType, NodeType
<1>7. t \in RefOf(n) /\ ~(t \in OpenOf(n)) /\ ~(t \in ReclaimOf(n))
  BY <1>3 DEF RefOf, OpenOf, ReclaimOf, HasRef, HasOpen, Some, RefSteps, Hows, Ending, Exec
<1>8. ref_count[n] \in Int /\ ref_count[n] >= 1
  BY <1>4, <1>7, RefAtLeastOne
<1>9. /\ open_count[n] \in Int /\ reclaim_count[n] \in Int /\ leaked[n].ref \in Nat
  BY <1>2 DEF FileType, NodeType, TableType
<1>10. \A u \in Thread \ {t} : "vop_kill" \in Left(u) => call[u].node # n
  BY KillAlone
<1>11. CASE ref_count[n] = 1
  <2> DEFINE c == Replaced(t, <<"lock_sfs_fs", "sfs_reclaim">>)
             M == Elems(c.steps)
             N == FirstOf(c.steps)
  <2>1. /\ call' = [call EXCEPT ![t] = c] /\ After(t, c, {"lock_sfs_fs", "sfs_reclaim"})
        /\ N = "lock_sfs_fs"
    <3>1. call' = [call EXCEPT ![t] = c]
      BY <1>11 DEF RefDec, GoesOn
    <3>2. /\ "lock_sfs_fs" \in Steps /\ "sfs_reclaim" \in Steps
          /\ Follows("lock_sfs_fs", "sfs_reclaim")
      BY DEF Steps, NodeSteps, FsLock, Follows
    <3>3. \A y \in L \ {Now(t)} : Follows("lock_sfs_fs", y) /\ Follows("sfs_reclaim", y)
      BY <1>1, <1>3 DEF Follows, FsLock
    <3> QED
      BY <1>1, <1>2, <3>1, <3>2, <3>3, Replace2
  <2> HIDE DEF c
  <2>2. /\ M = {"lock_sfs_fs", "sfs_reclaim"} \cup (L \ {"inode_ref_dec"})
        /\ M # {} /\ Keeps(t, c) /\ c.node = n
    BY <1>1, <2>1 DEF After, Keeps
  <2>3. Continues(L, M) /\ "vop_kill" \notin M /\ "sfs_sync" \notin M
    BY <1>3, <2>2 DEF Continues, Complete, Some, Loading, Hows, NodeSteps, KeepSteps, RefSteps,
       FsLock, SinLock, InSin, Ending, Exec
  <2>4. /\ TableType' /\ CallInv'
        /\ \A u \in Thread \ {t} : call'[u] = call[u]
        /\ call'[t] = c /\ Left(t)' = M /\ Now(t)' = N
    BY <1>1, <1>5, <2>1, <2>2, <2>3, MoveStep
  <2>5. CountInv'
    <3>1. ~(t \in RefOf(n))' /\ ~(t \in OpenOf(n))' /\ (t \in ReclaimOf(n))'
      BY <1>3, <2>2, <2>4 DEF RefOf, OpenOf, ReclaimOf, HasRef, HasOpen, Some, RefSteps, Hows, Ending, Exec
    <3>2. /\ Bit((t \in RefOf(n))') = 0 /\ Bit(t \in RefOf(n)) = 1
          /\ Bit((t \in OpenOf(n))') = 0 /\ Bit(t \in OpenOf(n)) = 0
          /\ Bit((t \in ReclaimOf(n))') = 1 /\ Bit(t \in ReclaimOf(n)) = 0
          /\ Bit(ref_count'[n] > 0) = 0 /\ Bit(ref_count[n] > 0) = 1
      BY <1>6, <1>7, <1>11, <3>1 DEF Bit
    <3> QED
      BY <1>4, <1>5, <1>6, <1>8, <1>9, <1>10, <2>2, <2>3, <2>4, <3>2, CountCall
  <2>6. CleanInv'
    BY <1>1, <1>2, <1>5, <2>1, <2>3, <2>4, SameClean
  <2>7. ~HasFs(t)' /\ ~HasFs(t) /\ ~HasSin(t)' /\ ~HasSin(t)
    BY <1>1, <1>3, <2>1, <2>3, <2>4 DEF HasFs, HasSin, Loading, InSin, Ending, Exec, FsLock
  <2>8. SemType' /\ QueueInv' /\ TokenInv'
    BY <1>1, <1>5, <2>4, <2>7, StayTokens
  <2> QED
    BY <1>6, <2>4, <2>5, <2>6, <2>8, Assembled
<1>12. CASE ref_count[n] # 1
  <2>1. ReleaseNode(t)
    BY <1>12 DEF RefDec
  <2>2. /\ TableType' /\ CallInv'
        /\ \A u \in Thread \ {t} : call'[u] = call[u]
        /\ call'[t].node = none /\ Left(t)' \subseteq Ending
        /\ Now(t)' \in Ending \cup {"none"}
    BY <1>1, <1>5, <2>1, ReleaseStep
  <2>3. CountInv'
    <3>1. ~(t \in RefOf(n))' /\ ~(t \in OpenOf(n))' /\ ~(t \in ReclaimOf(n))'
      BY <1>4, <2>2 DEF RefOf, OpenOf, ReclaimOf
    <3>2. /\ Bit((t \in RefOf(n))') = 0 /\ Bit(t \in RefOf(n)) = 1
          /\ Bit((t \in OpenOf(n))') = 0 /\ Bit(t \in OpenOf(n)) = 0
          /\ Bit((t \in ReclaimOf(n))') = 0 /\ Bit(t \in ReclaimOf(n)) = 0
      BY <1>7, <3>1 DEF Bit
    <3>3. Bit(ref_count'[n] > 0) = 1 /\ Bit(ref_count[n] > 0) = 1
      BY <1>6, <1>8, <1>12 DEF Bit
    <3>4. "vop_kill" \notin Left(t)'
      BY <2>2 DEF Ending, Exec
    <3> QED
      BY <1>4, <1>5, <1>6, <1>8, <1>9, <1>10, <2>2, <3>2, <3>3, <3>4, CountCall
  <2>4. CleanInv'
    BY <1>1, <1>2, <1>5, <2>2, SameClean DEF Ending, Exec
  <2>5. ~HasFs(t)' /\ ~HasFs(t) /\ ~HasSin(t)' /\ ~HasSin(t)
    BY <1>1, <1>3, <2>2 DEF HasFs, HasSin, Loading, InSin, Ending, Exec, FsLock
  <2>6. SemType' /\ QueueInv' /\ TokenInv'
    BY <1>1, <1>5, <2>2, <2>5, StayTokens
  <2> QED
    BY <1>6, <2>2, <2>3, <2>4, <2>6, Assembled
<1> QED
  BY <1>11, <1>12

(* sfs_reclaim under fs_sem.                                               *)
LEMMA BusyStep ==
  ASSUME FileInv, NEW t \in Thread, At(t, "sfs_reclaim"), ReclaimCount(call[t].node),
         failed_unlock(t), UNCHANGED <<alive, fd_array, leaked>>
  PROVE  FileInv'
<1> DEFINE L == Left(t)
<1>1. /\ Now(t) = "sfs_reclaim" /\ Now(t) # "sfs_wbuf" /\ Now(t) \in NodeSteps
      /\ Now(t) \notin InSin \cup SinLock \cup FsLock
  BY AtNow DEF NodeSteps, InSin, SinLock, FsLock
<1>2. FileType /\ View(Now(t), L) /\ CleanInv
  BY CallFacts DEF FileInv
<1> PICK n \in Node : n = call[t].node
  BY <1>1, NodeOfCall
<1>3. n # none /\ ino[n] # none /\ Counted(n)
  BY <1>1, NodeOfCall, SfsInodeAssumption
<1>4. /\ UNCHANGED <<ino, open_count, ref_count, dirty, stale, leaked, alive, fd_array>>
      /\ reclaim_count' = [reclaim_count EXCEPT ![n] = @ - 1]
      /\ ReleaseNode(t) /\ up(fs_sem)
  BY DEF ReclaimCount, failed_unlock
<1>5. /\ reclaim_count'[n] = reclaim_count[n] - 1
      /\ \A m \in Node \ {n} : reclaim_count'[m] = reclaim_count[m]
      /\ NodeType'
  BY <1>2, <1>4 DEF FileType, NodeType
<1>6. /\ TableType' /\ CallInv'
      /\ \A u \in Thread \ {t} : call'[u] = call[u]
      /\ call'[t].node = none /\ Left(t)' \subseteq Ending
      /\ Now(t)' \in Ending \cup {"none"} /\ L \subseteq {"sfs_reclaim"} \cup Ending
      /\ "sfs_reclaim" \in L
  BY <1>1, <1>4, ReleaseStep
<1>7. CountInv'
  <2>1. ~(t \in RefOf(n)) /\ ~(t \in OpenOf(n)) /\ t \in ReclaimOf(n)
    BY <1>6 DEF RefOf, OpenOf, ReclaimOf, HasRef, HasOpen, Some, RefSteps, Hows, Ending, Exec
  <2>2. ~(t \in RefOf(n))' /\ ~(t \in OpenOf(n))' /\ ~(t \in ReclaimOf(n))'
    BY <1>3, <1>6 DEF RefOf, OpenOf, ReclaimOf
  <2>3. /\ Bit((t \in RefOf(n))') = 0 /\ Bit(t \in RefOf(n)) = 0
        /\ Bit((t \in OpenOf(n))') = 0 /\ Bit(t \in OpenOf(n)) = 0
        /\ Bit((t \in ReclaimOf(n))') = 0 /\ Bit(t \in ReclaimOf(n)) = 1
    BY <2>1, <2>2 DEF Bit
  <2>4. /\ ref_count[n] \in Int /\ open_count[n] \in Int /\ reclaim_count[n] \in Int
        /\ leaked[n].ref \in Nat /\ Bit(ref_count[n] > 0) \in Int
    BY <1>2 DEF FileType, NodeType, TableType, Bit
  <2>5. \A u \in Thread \ {t} : "vop_kill" \in Left(u) => call[u].node # n
    BY KillAlone
  <2>6. "vop_kill" \notin Left(t)'
    BY <1>6 DEF Ending, Exec
  <2> QED
    BY <1>3, <1>4, <1>5, <1>6, <2>3, <2>4, <2>5, <2>6, CountCall
<1>8. CleanInv'
  BY <1>1, <1>2, <1>4, <1>6, SameClean DEF Ending, Exec
<1>9. HasFs(t) /\ ~HasFs(t)' /\ Now(t)' \notin InSin \cup SinLock
  BY <1>1, <1>6 DEF HasFs, Loading, InSin, SinLock, Ending, Exec, FsLock
<1>10. SemType' /\ QueueInv' /\ TokenInv'
  BY <1>1, <1>4, <1>6, <1>9, LeaveFs
<1> QED
  BY <1>5, <1>6, <1>7, <1>8, <1>10, Assembled

LEMMA UnlockStep ==
  ASSUME FileInv, NEW t \in Thread, At(t, "failed_unlock"), failed_unlock(t),
         UNCHANGED <<nodeVars, alive, fd_array, leaked>>
  PROVE  FileInv'
<1> DEFINE L == Left(t)
<1>1. /\ Now(t) = "failed_unlock" /\ Now(t) # "sfs_wbuf" /\ Now(t) \in NodeSteps
      /\ Now(t) \notin InSin \cup SinLock \cup FsLock
  BY AtNow DEF NodeSteps, InSin, SinLock, FsLock
<1>2. FileType /\ View(Now(t), L) /\ CleanInv
  BY CallFacts DEF FileInv
<1>3. /\ UNCHANGED <<ino, open_count, ref_count, reclaim_count, dirty, stale, leaked, alive, fd_array>>
      /\ ReleaseNode(t) /\ up(fs_sem) /\ NodeType'
  BY <1>2 DEF nodeVars, failed_unlock, FileType, NodeType
<1>4. /\ TableType' /\ CallInv'
      /\ \A u \in Thread \ {t} : call'[u] = call[u]
      /\ call'[t].node = none /\ Left(t)' \subseteq Ending
      /\ Now(t)' \in Ending \cup {"none"} /\ L \subseteq {"failed_unlock"} \cup Ending
  BY <1>1, <1>3, ReleaseStep
<1>5. NoBits(L) /\ NoBits(Left(t)') /\ "vop_kill" \notin Left(t)'
  BY <1>4 DEF NoBits, HasRef, HasOpen, Some, RefSteps, Ending, Exec
<1>6. CountInv'
  <2>1. Open(t)' = Open(t)
    BY <1>3 DEF Open, Slots
  <2> QED
    BY <1>3, <1>4, <1>5, <2>1, SameCounts DEF FileInv
<1>7. CleanInv'
  BY <1>1, <1>2, <1>3, <1>4, SameClean DEF Ending, Exec
<1>8. HasFs(t) /\ ~HasFs(t)' /\ Now(t)' \notin InSin \cup SinLock
  BY <1>1, <1>4 DEF HasFs, Loading, InSin, SinLock, Ending, Exec, FsLock
<1>9. SemType' /\ QueueInv' /\ TokenInv'
  BY <1>1, <1>3, <1>4, <1>8, LeaveFs
<1> QED
  BY <1>3, <1>4, <1>6, <1>7, <1>9, Assembled

LEMMA KillStep ==
  ASSUME FileInv, NEW t \in Thread, At(t, "vop_kill"), vop_kill(call[t].node), up(fs_sem),
         ReleaseNode(t), UNCHANGED <<alive, fd_array, leaked>>
  PROVE  FileInv'
<1> DEFINE L == Left(t)
<1>1. /\ Now(t) = "vop_kill" /\ Now(t) # "sfs_wbuf" /\ Now(t) \in NodeSteps
      /\ Now(t) \notin InSin \cup SinLock \cup FsLock /\ Now(t) # "none"
  BY AtNow DEF NodeSteps, InSin, SinLock, FsLock
<1>2. FileType /\ View(Now(t), L) /\ CleanInv /\ "vop_kill" \in L
  BY <1>1, CallFacts DEF FileInv, View, Order
<1> PICK n \in Node : n = call[t].node
  BY <1>1, NodeOfCall
<1>3. /\ ino[n] # none /\ Descriptors(n) = {} /\ leaked[n].ref = 0
      /\ \A u \in Thread \ {t} : call[u].node # n
      /\ t \in alive /\ none \notin Ino
  BY <1>2, KillAlone, SfsInodeAssumption
<1>4. /\ UNCHANGED <<open_count, ref_count, reclaim_count, stale, leaked, alive, fd_array>>
      /\ ino' = [ino EXCEPT ![n] = none] /\ dirty' = dirty \ {n}
  BY DEF vop_kill
<1>5. ino'[n] = none /\ (\A m \in Node \ {n} : ino'[m] = ino[m]) /\ NodeType'
  BY <1>2, <1>4 DEF FileType, NodeType
<1>6. /\ TableType' /\ CallInv'
      /\ \A u \in Thread \ {t} : call'[u] = call[u]
      /\ call'[t].node = none /\ Left(t)' \subseteq Ending
      /\ Now(t)' \in Ending \cup {"none"} /\ L \subseteq {"vop_kill"} \cup Ending
  <2>1. \A m \in Node : ino[m] # none /\ ino'[m] = none =>
          /\ alive # {} /\ Descriptors(m) = {} /\ \A u \in Thread \ {t} : call[u].node # m
    BY <1>3, <1>5
  <2> QED
    BY <1>1, <1>4, <2>1, ReleaseStep
<1>7. NoBits(L) /\ NoBits(Left(t)') /\ "vop_kill" \notin Left(t)'
  BY <1>6 DEF NoBits, HasRef, HasOpen, Some, RefSteps, Ending, Exec
<1>8. CountInv'
  <2>1. Open(t)' = Open(t)
    BY <1>4 DEF Open, Slots
  <2>2. /\ \A m \in Node : ino'[m] # none => ino[m] # none
        /\ \A m \in Node : ino'[m] = none => leaked[m].ref = 0
    BY <1>3, <1>5 DEF FileInv, CountInv
  <2> QED
    BY <1>2, <1>4, <1>6, <1>7, <2>1, <2>2, SameCounted DEF FileInv
<1>9. CleanInv'
  <2>1. \A u \in Thread \ {t} : call'[u] = call[u] /\ Left(u)' = Left(u) /\ Now(u)' = Now(u)
    BY <1>6 DEF Left, Now
  <2>2. n \notin dirty
    BY <1>1, <1>2 DEF CleanInv
  <2>3. ASSUME NEW i \in stale'
        PROVE  \E m \in Node : ino'[m] = i /\ (m \in dirty' \/ \E u \in Thread :
                 call'[u].node = m /\ Now(u)' = "sfs_wbuf")
    <3>1. PICK m \in Node : ino[m] = i /\ (m \in dirty \/ \E u \in Thread :
            call[u].node = m /\ Now(u) = "sfs_wbuf")
      BY <1>2, <1>4 DEF CleanInv
    <3>2. m # n
      BY <1>1, <1>3, <2>2, <3>1
    <3> QED
      BY <1>1, <1>4, <1>5, <2>1, <3>1, <3>2
  <2>4. \A u \in Thread : "vop_kill" \in Left(u)' /\ Now(u)' \in {"vop_kill", "sfs_wbuf"} =>
          call'[u].node \notin dirty'
    BY <1>2, <1>4, <1>7, <2>1 DEF CleanInv
  <2>5. \A u \in Thread : Now(u)' = "sfs_rbuf" => \A m \in Node : ino'[m] # call'[u].ino
    <3> SUFFICES ASSUME NEW u \in Thread, Now(u)' = "sfs_rbuf", NEW m \in Node
                 PROVE  ino'[m] # call'[u].ino
      OBVIOUS
    <3>1. u # t
      BY <1>6 DEF Ending, Exec
    <3>2. Some(Left(u), Loading) /\ CallOK(u)
      <4>1. View(Now(u), Left(u)) /\ CallOK(u)
        BY CallFacts DEF FileInv
      <4> QED
        BY <2>1, <3>1, <4>1 DEF View, Order, Some, Loading
    <3>3. call[u].ino \in Ino
      BY <3>2 DEF CallOK, KnowsNode
    <3> QED
      BY <1>2, <1>3, <1>5, <2>1, <3>1, <3>3 DEF CleanInv
  <2>6. \A l, m \in Node : ino'[l] = ino'[m] /\ ino'[m] # none => l = m
    BY <1>2, <1>5 DEF CleanInv
  <2> QED
    BY <2>3, <2>4, <2>5, <2>6 DEF CleanInv
<1>10. HasFs(t) /\ ~HasFs(t)' /\ Now(t)' \notin InSin \cup SinLock
  BY <1>1, <1>2, <1>6 DEF HasFs, Loading, InSin, SinLock, Ending, Exec, FsLock
<1>11. SemType' /\ QueueInv' /\ TokenInv'
  BY <1>1, <1>6, <1>10, LeaveFs
<1> QED
  BY <1>5, <1>6, <1>8, <1>9, <1>11, Assembled

LEMMA FsyncThen ==
  ASSUME NEW n, NEW b \in Steps, Follows("lock_sin", b), Follows("sfs_fsync", b)
  PROVE  LET p == FsyncSteps(n) \o <<b>> IN
         /\ p \in Seq(Steps) /\ Ordered(p) /\ p # <<>>
         /\ Elems(p) \subseteq {"lock_sin", "sfs_fsync", b} /\ b \in Elems(p)
         /\ n \in dirty => {"lock_sin", "sfs_fsync"} \subseteq Elems(p) /\ Head(p) = "lock_sin"
         /\ n \notin dirty => Elems(p) = {b} /\ Head(p) = b
<1> DEFINE q == <<b>>
<1>1. q \in Seq(Steps) /\ Ordered(q) /\ Elems(q) = {b} /\ q # <<>> /\ Head(q) = b
  BY Prefix1
<1> HIDE DEF q
<1>2. CASE n \in dirty
  <2> DEFINE s == <<"lock_sin", "sfs_fsync">>
  <2>1. "lock_sin" \in Steps /\ "sfs_fsync" \in Steps /\ Follows("lock_sin", "sfs_fsync")
    BY DEF Steps, NodeSteps, SinLock, InSin, Follows
  <2>2. /\ s \in Seq(Steps) /\ Ordered(s) /\ Elems(s) = {"lock_sin", "sfs_fsync"}
        /\ s # <<>> /\ Head(s) = "lock_sin"
    BY <2>1, Prefix2
  <2> HIDE DEF s
  <2>3. \A x \in Elems(s), y \in Elems(q) : Follows(x, y)
    BY <1>1, <2>2
  <2>4. /\ s \o q \in Seq(Steps) /\ Ordered(s \o q) /\ Elems(s \o q) = Elems(s) \cup Elems(q)
        /\ s \o q # <<>> /\ Head(s \o q) = Head(s)
    BY <1>1, <2>2, <2>3, OrderedConcat
  <2> QED
    BY <1>1, <1>2, <2>2, <2>4 DEF FsyncSteps, s, q
<1>3. CASE n \notin dirty
  <2>1. <<>> \o q = q
    BY <1>1
  <2>2. FsyncSteps(n) \o <<b>> = q
    BY <1>3, <2>1 DEF FsyncSteps, q
  <2> QED
    BY <1>1, <1>3, <2>2
<1> QED
  BY <1>2, <1>3

LEMMA ReclaimBeginStep ==
  ASSUME FileInv, NEW t \in Thread, At(t, "sfs_reclaim"), ReclaimCount(call[t].node),
         ~ReclaimBusy(call[t].node), GoesOn(t, FsyncSteps(call[t].node) \o <<"vop_kill">>),
         UNCHANGED <<semVars, alive, fd_array, leaked>>
  PROVE  FileInv'
<1> DEFINE L == Left(t)
<1>1. /\ Now(t) = "sfs_reclaim" /\ Now(t) # "sfs_wbuf" /\ Now(t) \in NodeSteps
      /\ Now(t) \notin InSin \cup SinLock \cup FsLock /\ Now(t) # "none"
      /\ Now(t) \notin {"woken_sfs_fs", "woken_sin"}
  BY AtNow DEF NodeSteps, InSin, SinLock, FsLock
<1>2. FileType /\ Shape(t) /\ View(Now(t), L) /\ CleanInv
  BY CallFacts DEF FileInv, CallOK
<1>3. L \subseteq {"sfs_reclaim"} \cup Ending /\ "sfs_reclaim" \in L
  BY <1>1, <1>2, LeftOfClose
<1> PICK n \in Node : n = call[t].node
  BY <1>1, NodeOfCall
<1>4. n # none /\ ino[n] # none /\ Counted(n)
  BY <1>1, NodeOfCall, SfsInodeAssumption
<1>5. /\ UNCHANGED <<ino, open_count, ref_count, dirty, stale, leaked, alive, fd_array>>
      /\ reclaim_count' = [reclaim_count EXCEPT ![n] = @ - 1]
  BY DEF ReclaimCount
<1>6. /\ reclaim_count'[n] = reclaim_count[n] - 1
      /\ \A m \in Node \ {n} : reclaim_count'[m] = reclaim_count[m]
      /\ NodeType'
  BY <1>2, <1>5 DEF FileType, NodeType
<1>7. ref_count[n] = 0 /\ reclaim_count'[n] = 0
  BY <1>2, <1>6 DEF ReclaimBusy, FileType, NodeType
<1> DEFINE p == FsyncSteps(n) \o <<"vop_kill">>
           P == Elems(p)
           c == Replaced(t, p)
           M == Elems(c.steps)
           N == FirstOf(c.steps)
<1>8. /\ p \in Seq(Steps) /\ Ordered(p) /\ p # <<>>
      /\ P \subseteq {"lock_sin", "sfs_fsync", "vop_kill"} /\ "vop_kill" \in P
      /\ n \in dirty => {"lock_sin", "sfs_fsync"} \subseteq P /\ Head(p) = "lock_sin"
      /\ n \notin dirty => P = {"vop_kill"} /\ Head(p) = "vop_kill"
  <2>1. /\ "vop_kill" \in Steps /\ Follows("lock_sin", "vop_kill")
        /\ Follows("sfs_fsync", "vop_kill")
    BY DEF Steps, NodeSteps, Follows, SinLock
  <2> QED
    BY <2>1, FsyncThen
<1> HIDE DEF p
<1>9. \A x \in P, y \in L \ {Now(t)} : Follows(x, y)
  BY <1>1, <1>3, <1>8 DEF Follows, SinLock
<1>10. call' = [call EXCEPT ![t] = c] /\ After(t, c, P) /\ N = Head(p)
  BY <1>1, <1>2, <1>8, <1>9, ReplaceWith DEF GoesOn, p
<1> HIDE DEF c
<1>11. M = P \cup (L \ {"sfs_reclaim"}) /\ Keeps(t, c) /\ c.node = n
  BY <1>1, <1>8, <1>10 DEF After, Keeps
<1>12. N \in {"lock_sin", "vop_kill"} /\ (N = "vop_kill" => n \notin dirty)
  BY <1>8, <1>10
<1>13. Continues(L, M) /\ "vop_kill" \in M /\ "sfs_sync" \notin M
  <2>1. "sfs_fsync" \in P \/ "lock_sin" \notin P
    BY <1>8
  <2> QED
    BY <1>3, <1>8, <1>11, <2>1 DEF Continues, Complete, Some, Loading, Hows, NodeSteps, KeepSteps,
       RefSteps, FsLock, SinLock, InSin, Ending, Exec
<1>14. /\ TableType' /\ CallInv'
       /\ \A u \in Thread \ {t} : call'[u] = call[u]
       /\ call'[t] = c /\ Left(t)' = M /\ Now(t)' = N
  BY <1>1, <1>5, <1>10, <1>11, <1>13, MoveStep
<1>15. CountInv'
  <2>1. ~(t \in RefOf(n)) /\ ~(t \in OpenOf(n)) /\ t \in ReclaimOf(n)
    BY <1>3 DEF RefOf, OpenOf, ReclaimOf, HasRef, HasOpen, Some, RefSteps, Hows, Ending, Exec
  <2>2. ~(t \in RefOf(n))' /\ ~(t \in OpenOf(n))' /\ ~(t \in ReclaimOf(n))'
    BY <1>3, <1>8, <1>11, <1>14 DEF RefOf, OpenOf, ReclaimOf, HasRef, HasOpen, Some, RefSteps, Hows,
       Ending, Exec
  <2>3. /\ Bit((t \in RefOf(n))') = 0 /\ Bit(t \in RefOf(n)) = 0
        /\ Bit((t \in OpenOf(n))') = 0 /\ Bit(t \in OpenOf(n)) = 0
        /\ Bit((t \in ReclaimOf(n))') = 0 /\ Bit(t \in ReclaimOf(n)) = 1
    BY <2>1, <2>2 DEF Bit
  <2>4. /\ ref_count[n] \in Int /\ open_count[n] \in Int /\ reclaim_count[n] \in Int
        /\ leaked[n].ref \in Nat /\ Bit(ref_count[n] > 0) \in Int
    BY <1>2 DEF FileType, NodeType, TableType, Bit
  <2>5. \A u \in Thread \ {t} : "vop_kill" \in Left(u) => call[u].node # n
    BY KillAlone
  <2>6. /\ ref_count'[n] - ref_count[n] = leaked'[n].ref - leaked[n].ref + (0 - 0)
        /\ open_count'[n] - open_count[n] = 0 - 0
        /\ reclaim_count'[n] - reclaim_count[n]
             = (0 - 1) + (Bit(ref_count'[n] > 0) - Bit(ref_count[n] > 0))
        /\ ref_count'[n] \in Int /\ open_count'[n] \in Int /\ reclaim_count'[n] \in Int
        /\ leaked'[n].ref \in Nat
    BY <1>5, <1>6, <2>4
  <2>7. /\ call[t].node \in {n, none} /\ call'[t].node \in {n, none}
        /\ \A m \in Node \ {n} :
             /\ ref_count'[m] = ref_count[m] /\ open_count'[m] = open_count[m]
             /\ reclaim_count'[m] = reclaim_count[m] /\ leaked'[m] = leaked[m]
        /\ "vop_kill" \in Left(t)' =>
             call'[t].node = n /\ ref_count'[n] = 0 /\ reclaim_count'[n] = 0
    BY <1>5, <1>6, <1>7, <1>11, <1>14
  <2> QED
    BY <1>4, <1>5, <1>14, <2>3, <2>5, <2>6, <2>7, CountCall
<1>16. CleanInv'
  BY <1>1, <1>2, <1>5, <1>11, <1>12, <1>14, SameClean
<1>17. HasFs(t)' /\ HasFs(t) /\ ~HasSin(t)' /\ ~HasSin(t)
  BY <1>1, <1>12, <1>13, <1>14 DEF HasFs, HasSin, Loading, InSin
<1>18. SemType' /\ QueueInv' /\ TokenInv'
  BY <1>1, <1>14, <1>17, StayTokens
<1> QED
  BY <1>6, <1>14, <1>15, <1>16, <1>18, Assembled

LEMMA ReclaimStep ==
  ASSUME FileInv, NEW t \in Thread, sfs_reclaim(t)
  PROVE  FileInv'
<1>1. UNCHANGED <<alive, fd_array, leaked>>
  BY DEF sfs_reclaim
<1>2. \/ At(t, "sfs_reclaim") /\ ReclaimCount(call[t].node) /\ failed_unlock(t)
      \/ /\ At(t, "sfs_reclaim") /\ ReclaimCount(call[t].node) /\ ~ReclaimBusy(call[t].node)
         /\ GoesOn(t, FsyncSteps(call[t].node) \o <<"vop_kill">>) /\ UNCHANGED semVars
      \/ At(t, "vop_kill") /\ vop_kill(call[t].node) /\ up(fs_sem) /\ ReleaseNode(t)
      \/ At(t, "failed_unlock") /\ failed_unlock(t) /\ UNCHANGED nodeVars
  BY DEF sfs_reclaim
<1> QED
  BY <1>1, <1>2, BusyStep, ReclaimBeginStep, KillStep, UnlockStep
-----------------------------------------------------------------------------
(* sfs_load_inode under fs_sem.                                            *)
LEMMA FsAlone ==
  ASSUME FileInv, NEW t \in Thread, HasFs(t)
  PROVE  \A u \in Thread \ {t} : "vop_kill" \notin Left(u) /\ Now(u) \notin Loading
<1>1. fs_sem \in Sem
  BY SfsInodeAssumption
<1>2. Holds(t, fs_sem)
  BY DEF Holds
<1>3. \A u \in Thread \ {t} : ~Holds(u, fs_sem)
  BY <1>1, <1>2 DEF FileInv, TokenInv
<1> QED
  BY <1>3 DEF Holds, HasFs

LEMMA LoadFacts ==
  ASSUME FileInv, NEW t \in Thread, Now(t) \in Loading
  PROVE  /\ FileType /\ CallInv /\ CallOK(t) /\ Shape(t) /\ View(Now(t), Left(t)) /\ CleanInv
         /\ Left(t) \subseteq {Now(t), "fd_array_open"} \cup Hows \cup Exec
         /\ "fd_array_open" \in Left(t) /\ Now(t) \in Left(t) /\ Some(Left(t), Hows)
         /\ call[t].node = none /\ call[t].ino \in Ino /\ call[t].fd \in Fd \ Open(t)
         /\ t \in alive /\ t # initproc /\ HasFs(t) /\ ~HasSin(t) /\ Now(t) # "none"
         /\ Now(t) \notin InSin \cup SinLock \cup FsLock /\ Now(t) # "sfs_wbuf"
         /\ Now(t) \notin {"woken_sfs_fs", "woken_sin"}
<1> DEFINE L == Left(t)
<1>1. FileType /\ CallInv /\ CallOK(t) /\ Shape(t) /\ View(Now(t), L) /\ CleanInv
  BY CallFacts DEF FileInv, CallOK
<1>2. /\ Now(t) \notin InSin \cup SinLock \cup FsLock /\ Now(t) # "sfs_wbuf" /\ Now(t) # "none"
      /\ Now(t) \notin {"woken_sfs_fs", "woken_sin"}
  BY DEF InSin, SinLock, FsLock, Loading
<1>3. Now(t) \in L /\ Some(L, Loading)
  BY <1>1, <1>2 DEF View, Order, Some
<1>4. L \subseteq {Now(t), "fd_array_open"} \cup Hows \cup Exec /\ "fd_array_open" \in L /\ Some(L, Hows)
  BY <1>1 DEF View, Order, Complete, Follows, Some, Hows, FsLock, SinLock, Loading, Ending, Exec,
         RefSteps, InSin
<1>5. call[t].node = none /\ call[t].ino \in Ino /\ call[t].fd \in Fd \ Open(t)
  BY <1>1, <1>3, <1>4 DEF CallOK, KnowsNode, KnowsSlots
<1>6. t \in alive /\ t # initproc
  <2>1. "sfs_sync" \notin L /\ L # {}
    BY <1>3, <1>4 DEF Hows, Loading, Exec
  <2>2. call[t] # NoCall
    BY <1>1, <2>1, CallFacts
  <2> QED
    BY <1>1, <2>1, <2>2 DEF CallOK, KnowsAlive
<1>7. HasFs(t) /\ ~HasSin(t)
  BY <1>2 DEF HasFs, HasSin
<1> QED
  BY <1>1, <1>2, <1>3, <1>4, <1>5, <1>6, <1>7

LEMMA LoadedStep ==
  ASSUME FileInv, NEW t \in Thread, Now(t) \in Loading, NEW n \in Node, Loaded(t, n),
         UNCHANGED <<alive, fd_array, leaked>>, ino'[n] \in Ino,
         \A m \in Node \ {n} : ino'[m] = ino[m]
  PROVE  /\ TableType' /\ CallInv' /\ SemType' /\ QueueInv' /\ TokenInv'
         /\ \A u \in Thread \ {t} : call'[u] = call[u]
         /\ call'[t].node = n /\ Left(t)' \subseteq {"fd_array_open"} \cup Hows \cup Exec
         /\ "fd_array_open" \in Left(t)' /\ Some(Left(t)', Hows) /\ Now(t)' \in Hows
<1> DEFINE L == Left(t)
           d == Replaced(t, <<>>)
           c == [d EXCEPT !.node = n]
           M == Elems(d.steps)
           N == FirstOf(d.steps)
<1>1. /\ FileType /\ CallInv /\ CallOK(t) /\ Shape(t) /\ View(Now(t), L) /\ CleanInv
      /\ L \subseteq {Now(t), "fd_array_open"} \cup Hows \cup Exec
      /\ "fd_array_open" \in L /\ Now(t) \in L /\ Some(L, Hows)
      /\ call[t].fd \in Fd \ Open(t)
      /\ t \in alive /\ t # initproc /\ HasFs(t) /\ ~HasSin(t) /\ Now(t) # "none"
      /\ Now(t) \notin InSin \cup SinLock \cup FsLock
  BY LoadFacts
<1>2. After(t, d, {}) /\ call' = [call EXCEPT ![t] = c] /\ up(fs_sem)
  BY <1>1, Replace0 DEF Loaded
<1> HIDE DEF d
<1>3. d \in CallSet
  BY <1>2 DEF After, Keeps
<1>4. c \in CallSet /\ c.steps = d.steps /\ c.fd = d.fd /\ c.node = n
  BY <1>3 DEF CallSet
<1> HIDE DEF c
<1>5. /\ M = L \ {Now(t)} /\ Order(N, M) /\ Ordered(d.steps)
      /\ M # {} => d.fd = call[t].fd
  BY <1>2 DEF After, Keeps
<1>6. N \in Hows /\ Complete(M)
  BY <1>1, <1>5, NextOfLoading
<1>7. /\ M \subseteq {"fd_array_open"} \cup Hows \cup Exec /\ "fd_array_open" \in M /\ Some(M, Hows)
      /\ N \in M /\ M # {}
  BY <1>1, <1>5, <1>6 DEF Some, Hows, Loading, Order
<1>8. /\ \A u \in Thread \ {t} : call'[u] = call[u]
      /\ call'[t] = c /\ Left(t)' = M /\ Now(t)' = N
  <2>1. /\ \A u \in Thread \ {t} : call'[u] = call[u]
        /\ call'[t] = c /\ Left(t)' = Elems(c.steps) /\ Now(t)' = FirstOf(c.steps)
    BY <1>1, <1>2, SameCall
  <2> QED
    BY <1>4, <2>1
<1>9. TableType'
  BY <1>1, <1>2, <1>4 DEF FileType, TableType
<1>10. ino'[n] # none /\ \A m \in Node : ino[m] # none => ino'[m] # none
  BY SfsInodeAssumption
<1>11. Shape(t)'
  BY <1>4, <1>5, <1>6, <1>7, <1>8 DEF Shape
<1>12. KnowsNode(t)'
  <2>1. ~Some(M, Loading) /\ HasRef(M)
    BY <1>7 DEF Some, Loading, Hows, Exec, HasRef, RefSteps
  <2> QED
    BY <1>4, <1>8, <1>10, <2>1 DEF KnowsNode
<1>13. KnowsSlots(t)'
  <2>1. Open(t)' = Open(t)
    BY DEF Open, Slots
  <2>2. /\ "next_fd" \notin M /\ ~Some(M, {"kfree", "sysfile_open"})
        /\ "sysfile_open" \notin M /\ c.fd \in Fd \ Open(t)
    BY <1>1, <1>4, <1>5, <1>7 DEF Hows, Exec, Some
  <2>3. "load_icode" \in M => Open(t) = {}
    BY <1>1, <1>5 DEF KnowsSlots, CallOK
  <2>4. \A f \in Open(t) : fd_array[t][f].node \in Node /\ ino'[fd_array[t][f].node] # none
    BY <1>1, <1>10 DEF KnowsSlots, CallOK
  <2> QED
    BY <1>7, <1>8, <2>1, <2>2, <2>3, <2>4 DEF KnowsSlots
<1>14. KnowsAlive(t)'
  BY <1>1, <1>7, <1>8 DEF KnowsAlive, Hows, Exec
<1>15. \A u \in Thread \ {t} : CallOK(u)'
  BY <1>1, <1>8, <1>10, OthersOK
<1>16. CallInv'
  BY <1>1, <1>11, <1>12, <1>13, <1>14, <1>15 DEF CallInv, CallOK
<1>17. ~HasFs(t)' /\ N \notin InSin \cup SinLock
  BY <1>6, <1>7, <1>8 DEF HasFs, Hows, Loading, FsLock, InSin, SinLock, Exec
<1>18. SemType' /\ QueueInv' /\ TokenInv'
  BY <1>1, <1>2, <1>8, <1>17, LeaveFs
<1> QED
  BY <1>4, <1>6, <1>7, <1>8, <1>9, <1>16, <1>18

LEMMA LookupStep ==
  ASSUME FileInv, NEW t \in Thread, At(t, "sfs_load_inode"), NEW n \in Cached(call[t].ino),
         lookup_sfs_nolock(n), Loaded(t, n), UNCHANGED <<alive, fd_array, leaked>>
  PROVE  FileInv'
<1>1. Now(t) = "sfs_load_inode" /\ Now(t) \in Loading
  BY AtNow DEF Loading
<1>2. /\ FileType /\ CleanInv /\ call[t].node = none /\ call[t].ino \in Ino
      /\ HasFs(t) /\ Now(t) # "sfs_wbuf"
  BY <1>1, LoadFacts
<1>3. n \in Node /\ ino[n] = call[t].ino /\ ino[n] # none /\ Counted(n)
  BY <1>2, SfsInodeAssumption DEF Cached, FileInv, CountInv
<1>4. /\ UNCHANGED <<ino, open_count, dirty, stale, leaked, fd_array>>
      /\ ref_count' = [ref_count EXCEPT ![n] = @ + 1]
      /\ reclaim_count' = [reclaim_count EXCEPT ![n] = IF ref_count[n] = 0 THEN @ + 1 ELSE @]
  BY DEF lookup_sfs_nolock
<1>5. /\ ref_count[n] \in Nat /\ open_count[n] \in Int /\ reclaim_count[n] \in Int
      /\ leaked[n].ref \in Nat
  BY <1>2, <1>3, Referenced DEF FileType, NodeType, TableType
<1>6. /\ ref_count'[n] = ref_count[n] + 1
      /\ reclaim_count'[n] = reclaim_count[n] + (IF ref_count[n] = 0 THEN 1 ELSE 0)
      /\ \A m \in Node \ {n} : ref_count'[m] = ref_count[m] /\ reclaim_count'[m] = reclaim_count[m]
  BY <1>2, <1>3, <1>4, <1>5 DEF FileType, NodeType
<1>7. NodeType'
  BY <1>2, <1>3, <1>4 DEF FileType, NodeType
<1>8. /\ TableType' /\ CallInv' /\ SemType' /\ QueueInv' /\ TokenInv'
      /\ \A u \in Thread \ {t} : call'[u] = call[u]
      /\ call'[t].node = n /\ Left(t)' \subseteq {"fd_array_open"} \cup Hows \cup Exec
      /\ "fd_array_open" \in Left(t)' /\ Some(Left(t)', Hows) /\ Now(t)' \in Hows
  BY <1>1, <1>2, <1>3, <1>4, LoadedStep
<1>9. "vop_kill" \notin Left(t)' /\ Now(t)' # "sfs_rbuf"
  BY <1>8 DEF Hows, Exec
<1>10. CountInv'
  <2>1. ~(t \in RefOf(n)) /\ ~(t \in OpenOf(n)) /\ ~(t \in ReclaimOf(n))
    BY <1>2, <1>3, SfsInodeAssumption DEF RefOf, OpenOf, ReclaimOf
  <2>2. (t \in RefOf(n))' /\ ~(t \in OpenOf(n))' /\ ~(t \in ReclaimOf(n))'
    BY <1>8 DEF RefOf, OpenOf, ReclaimOf, HasRef, HasOpen, Some, RefSteps, Hows, Exec
  <2>3. /\ Bit((t \in RefOf(n))') = 1 /\ Bit(t \in RefOf(n)) = 0
        /\ Bit((t \in OpenOf(n))') = 0 /\ Bit(t \in OpenOf(n)) = 0
        /\ Bit((t \in ReclaimOf(n))') = 0 /\ Bit(t \in ReclaimOf(n)) = 0
    BY <2>1, <2>2 DEF Bit
  <2>4. reclaim_count'[n] - reclaim_count[n] = Bit(ref_count'[n] > 0) - Bit(ref_count[n] > 0)
    <3>1. CASE ref_count[n] = 0
      BY <1>5, <1>6, <3>1 DEF Bit
    <3>2. CASE ref_count[n] # 0
      BY <1>5, <1>6, <3>2 DEF Bit
    <3> QED
      BY <3>1, <3>2
  <2>5. Bit(ref_count'[n] > 0) \in Int /\ Bit(ref_count[n] > 0) \in Int
    BY DEF Bit
  <2>6. /\ ref_count'[n] - ref_count[n] = leaked'[n].ref - leaked[n].ref + (1 - 0)
        /\ open_count'[n] - open_count[n] = 0 - 0
        /\ reclaim_count'[n] - reclaim_count[n]
             = (0 - 0) + (Bit(ref_count'[n] > 0) - Bit(ref_count[n] > 0))
        /\ ref_count'[n] \in Int /\ open_count'[n] \in Int /\ reclaim_count'[n] \in Int
        /\ leaked'[n].ref \in Nat
    BY <1>4, <1>5, <1>6, <2>4, <2>5
  <2>7. /\ call[t].node \in {n, none} /\ call'[t].node \in {n, none}
        /\ \A m \in Node \ {n} :
             /\ ref_count'[m] = ref_count[m] /\ open_count'[m] = open_count[m]
             /\ reclaim_count'[m] = reclaim_count[m] /\ leaked'[m] = leaked[m]
    BY <1>2, <1>4, <1>6, <1>8
  <2>8. \A u \in Thread \ {t} : "vop_kill" \in Left(u) => call[u].node # n
    BY <1>2, FsAlone
  <2> QED
    BY <1>3, <1>4, <1>8, <1>9, <2>3, <2>6, <2>7, <2>8, CountCall
<1>11. CleanInv'
  BY <1>2, <1>4, <1>8, <1>9, SameClean
<1> QED
  BY <1>7, <1>8, <1>10, <1>11, Assembled

LEMMA MissStep ==
  ASSUME FileInv, NEW t \in Thread, At(t, "sfs_load_inode"), Cached(call[t].ino) = {},
         GoesOn(t, <<"sfs_rbuf">>), UNCHANGED <<semVars, nodeVars, alive, fd_array, leaked>>
  PROVE  FileInv'
<1> DEFINE L == Left(t)
           c == Replaced(t, <<"sfs_rbuf">>)
           M == Elems(c.steps)
<1>1. Now(t) = "sfs_load_inode" /\ Now(t) \in Loading
  BY AtNow DEF Loading
<1>2. /\ FileType /\ Shape(t) /\ View(Now(t), L) /\ CleanInv
      /\ L \subseteq {Now(t), "fd_array_open"} \cup Hows \cup Exec
      /\ "fd_array_open" \in L /\ Now(t) \in L /\ Some(L, Hows)
      /\ HasFs(t) /\ ~HasSin(t) /\ Now(t) # "none" /\ Now(t) # "sfs_wbuf"
      /\ Now(t) \notin {"woken_sfs_fs", "woken_sin"}
  BY <1>1, LoadFacts
<1>3. /\ UNCHANGED <<ino, ref_count, open_count, reclaim_count, dirty, stale, leaked, alive, fd_array>>
      /\ NodeType'
  BY <1>2 DEF nodeVars, FileType, NodeType
<1>4. /\ call' = [call EXCEPT ![t] = c] /\ After(t, c, {"sfs_rbuf"})
      /\ FirstOf(c.steps) = "sfs_rbuf"
  <2>1. "sfs_rbuf" \in Steps /\ \A y \in L \ {Now(t)} : Follows("sfs_rbuf", y)
    BY <1>2 DEF Steps, Loading, Follows
  <2> QED
    BY <1>2, <2>1, Replace1 DEF GoesOn
<1> HIDE DEF c
<1>5. /\ M = {"sfs_rbuf"} \cup (L \ {"sfs_load_inode"}) /\ Keeps(t, c)
      /\ c.ino = call[t].ino
  BY <1>1, <1>4 DEF After, Keeps
<1>6. Continues(L, M) /\ SameBits(L, M) /\ "vop_kill" \notin M
  <2>1. /\ M \subseteq {"sfs_rbuf", "fd_array_open"} \cup Hows \cup Exec
        /\ "sfs_rbuf" \in M /\ "fd_array_open" \in M /\ "fd_array_open" \in L
        /\ \A y \in Hows \cup Exec : y \in M <=> y \in L
    BY <1>1, <1>2, <1>5 DEF Hows, Exec
  <2>2. Some(M, Loading) /\ Some(L, Loading) /\ Some(M, Hows) /\ Some(M, KeepSteps)
    BY <1>1, <1>2, <2>1 DEF Some, Loading, KeepSteps, RefSteps
  <2>3. "load_icode_read" \in M => "load_icode" \in M
    BY <1>2, <2>1 DEF View, Complete, Exec
  <2>4. /\ ~Some(M, FsLock) /\ ~Some(M, SinLock) /\ ~Some(M, Ending)
        /\ M \cap {"inode_open_dec", "sfs_sync", "vop_kill", "sfs_reclaim", "sfs_truncfile", "truncate"} = {}
    BY <2>1 DEF Some, FsLock, SinLock, Ending, Hows, Exec
  <2>5. L \cap {"inode_open_dec", "sfs_sync", "vop_kill", "sfs_reclaim"} = {}
    BY <1>1, <1>2 DEF Hows, Exec, Loading
  <2>6. Complete(M)
    BY <2>1, <2>2, <2>3, <2>4 DEF Complete
  <2>7. Continues(L, M)
    BY <2>1, <2>2, <2>4, <2>5, <2>6 DEF Continues, Some, Ending, Exec
  <2>8. SameBits(L, M)
    BY <2>1, <2>2, <2>4, <2>5 DEF SameBits, HasRef, HasOpen, Some, RefSteps, Hows
  <2> QED
    BY <2>4, <2>7, <2>8
<1>7. /\ fd_array' \in [Thread -> [Fd -> [status : Status, node : Node \cup {none}]]]
      /\ Open(t)' = Open(t)
  BY <1>2, <1>3 DEF FileType, TableType, Open, Slots
<1>8. TableType' /\ CallInv' /\ CountInv'
  BY <1>2, <1>3, <1>4, <1>5, <1>6, <1>7, LightStep
<1>9. /\ \A u \in Thread \ {t} : call'[u] = call[u]
      /\ call'[t] = c /\ Left(t)' = M /\ Now(t)' = "sfs_rbuf"
  BY <1>2, <1>4, SameCall
<1>10. CleanInv'
  BY <1>2, <1>3, <1>5, <1>6, <1>9, SameClean DEF Cached
<1>11. HasFs(t)' /\ ~HasSin(t)'
  BY <1>9 DEF HasFs, HasSin, Loading, InSin
<1>12. SemType' /\ QueueInv' /\ TokenInv'
  BY <1>2, <1>9, <1>11, StayTokens
<1> QED
  BY <1>3, <1>8, <1>10, <1>12, Assembled

LEMMA CreateStep ==
  ASSUME FileInv, NEW t \in Thread, At(t, "sfs_rbuf"), NEW n \in Node,
         sfs_create_inode(n, call[t].ino), Loaded(t, n), UNCHANGED <<alive, fd_array, leaked>>
  PROVE  FileInv'
<1> DEFINE i == call[t].ino
<1>1. Now(t) = "sfs_rbuf" /\ Now(t) \in Loading
  BY AtNow DEF Loading
<1>2. /\ FileType /\ CallInv /\ CleanInv /\ call[t].node = none /\ i \in Ino
      /\ HasFs(t) /\ Now(t) # "sfs_wbuf"
  BY <1>1, LoadFacts
<1>3. none \notin Ino /\ none \notin Node /\ n # none /\ i # none
  BY <1>2, SfsInodeAssumption
<1>4. /\ UNCHANGED <<dirty, stale, leaked, fd_array>> /\ ino[n] = none
      /\ ino' = [ino EXCEPT ![n] = i]
      /\ ref_count' = [ref_count EXCEPT ![n] = 1] /\ open_count' = [open_count EXCEPT ![n] = 0]
      /\ reclaim_count' = [reclaim_count EXCEPT ![n] = 1]
  BY DEF sfs_create_inode
<1>5. /\ ino'[n] = i /\ ref_count'[n] = 1 /\ open_count'[n] = 0 /\ reclaim_count'[n] = 1
      /\ \A m \in Node \ {n} :
           /\ ino'[m] = ino[m] /\ ref_count'[m] = ref_count[m]
           /\ open_count'[m] = open_count[m] /\ reclaim_count'[m] = reclaim_count[m]
  BY <1>2, <1>4 DEF FileType, NodeType
<1>6. NodeType'
  BY <1>2, <1>4 DEF FileType, NodeType
<1>7. /\ TableType' /\ CallInv' /\ SemType' /\ QueueInv' /\ TokenInv'
      /\ \A u \in Thread \ {t} : call'[u] = call[u]
      /\ call'[t].node = n /\ Left(t)' \subseteq {"fd_array_open"} \cup Hows \cup Exec
      /\ "fd_array_open" \in Left(t)' /\ Some(Left(t)', Hows) /\ Now(t)' \in Hows
  BY <1>1, <1>2, <1>5, LoadedStep
<1>8. "vop_kill" \notin Left(t)' /\ Now(t)' # "sfs_rbuf"
  BY <1>7 DEF Hows, Exec
<1>9. \A u \in Thread : call[u].node # n /\ \A f \in Open(u) : f \in Fd /\ fd_array[u][f].node # n
  BY <1>2, <1>3, <1>4 DEF CallInv, CallOK, KnowsNode, KnowsSlots, Open, Slots
<1>10. \A m \in Node : Descriptors(m)' = Descriptors(m)
  BY <1>4 DEF Descriptors, Slots
<1>11. Descriptors(n) = {}
  BY <1>9 DEF Descriptors, Open
<1>12. Counted(n)'
  <2>1. \A u \in Thread : u \in RefOf(n)' <=> u = t
    <3>1. t \in RefOf(n)'
      BY <1>7 DEF RefOf, HasRef, Some, RefSteps, Hows
    <3>2. \A u \in Thread \ {t} : u \notin RefOf(n)'
      BY <1>7, <1>9 DEF RefOf
    <3> QED
      BY <3>1, <3>2
  <2>2. RefOf(n)' = {t}
    BY <2>1 DEF RefOf
  <2>3. OpenOf(n)' = {} /\ ReclaimOf(n)' = {}
    <3>1. t \notin OpenOf(n)' /\ t \notin ReclaimOf(n)'
      BY <1>7 DEF OpenOf, ReclaimOf, HasOpen, Some, Hows, Exec
    <3>2. \A u \in Thread \ {t} : u \notin OpenOf(n)' /\ u \notin ReclaimOf(n)'
      BY <1>7, <1>9 DEF OpenOf, ReclaimOf
    <3> QED
      BY <3>1, <3>2 DEF OpenOf, ReclaimOf
  <2>4. Descriptors(n)' = {} /\ leaked'[n].ref = 0 /\ leaked'[n].open = 0
    <3>1. leaked[n].ref = 0 /\ leaked[n].open <= leaked[n].ref /\ leaked[n].open \in Nat
      BY <1>2, <1>4 DEF FileInv, CountInv, FileType, TableType
    <3> QED
      BY <1>4, <1>10, <1>11, <3>1
  <2>5. Cardinality({t}) = 1 /\ Cardinality({}) = 0
    BY FS_Singleton, FS_EmptySet
  <2> QED
    BY <1>5, <2>2, <2>3, <2>4, <2>5 DEF Counted, Bit
<1>13. CountInv'
  <2>1. \A u \in Thread \ {t} : "vop_kill" \in Left(u) => call[u].node # n
    BY <1>2, FsAlone
  <2>2. \A m \in Node \ {n} :
           /\ ref_count'[m] = ref_count[m] /\ open_count'[m] = open_count[m]
           /\ reclaim_count'[m] = reclaim_count[m] /\ leaked'[m] = leaked[m]
           /\ (<<t, none>> \in Descriptors(m))' <=> <<t, none>> \in Descriptors(m)
    BY <1>4, <1>5, <1>10
  <2>3. \A u \in Thread, g \in Fd : <<u, g>> # <<t, none>> => fd_array'[u][g] = fd_array[u][g]
    BY <1>4
  <2>4. leaked'[n].open <= leaked'[n].ref
    BY <1>4 DEF FileInv, CountInv
  <2> QED
    BY <1>2, <1>3, <1>5, <1>7, <1>8, <1>12, <2>1, <2>2, <2>3, <2>4, CountStep
<1>14. CleanInv'
  <2>1. \A u \in Thread \ {t} : call'[u] = call[u] /\ Left(u)' = Left(u) /\ Now(u)' = Now(u)
    BY <1>7 DEF Left, Now
  <2>2. \A m \in Node : ino[m] # i
    BY <1>1, <1>2 DEF CleanInv
  <2>3. ASSUME NEW j \in stale'
        PROVE  \E m \in Node : ino'[m] = j /\ (m \in dirty' \/ \E u \in Thread :
                 call'[u].node = m /\ Now(u)' = "sfs_wbuf")
    <3>1. PICK m \in Node : ino[m] = j /\ (m \in dirty \/ \E u \in Thread :
            call[u].node = m /\ Now(u) = "sfs_wbuf")
      BY <1>2, <1>4 DEF CleanInv
    <3>2. m # n
      BY <1>2, <1>3, <1>4, <3>1 DEF FileType, NodeType
    <3> QED
      BY <1>2, <1>4, <1>5, <2>1, <3>1, <3>2
  <2>4. \A u \in Thread : "vop_kill" \in Left(u)' /\ Now(u)' \in {"vop_kill", "sfs_wbuf"} =>
          call'[u].node \notin dirty'
    BY <1>2, <1>4, <1>8, <2>1 DEF CleanInv
  <2>5. \A u \in Thread : Now(u)' # "sfs_rbuf"
    BY <1>2, <1>8, <2>1, FsAlone DEF Loading
  <2>6. \A l, m \in Node : ino'[l] = ino'[m] /\ ino'[m] # none => l = m
    BY <1>2, <1>3, <1>5, <2>2 DEF CleanInv
  <2> QED
    BY <2>3, <2>4, <2>5, <2>6 DEF CleanInv
<1> QED
  BY <1>6, <1>7, <1>13, <1>14, Assembled

(* A call of open that fails frees its slot and is about no inode; that of *)
(* do_execve goes on with do_exit.                                         *)
GivesUp(S) == S = {"fd_array_free"} \/ S = {"fd_array_free", "kfree"}

LEMMA GiveUpSteps ==
  ASSUME NEW q, q = <<>> \/ q = <<"kfree">>
  PROVE  LET s == <<"fd_array_free">> \o q IN
         /\ s \in Seq(Steps) /\ Ordered(s) /\ FirstOf(s) = "fd_array_free" /\ GivesUp(Elems(s))
         /\ "kfree" \in Elems(s) => q # <<>>
<1> DEFINE p == <<"fd_array_free">>
<1>1. /\ "fd_array_free" \in Steps /\ "kfree" \in Steps /\ Follows("fd_array_free", "kfree")
  BY DEF Steps, Ending, Follows
<1>2. /\ p \in Seq(Steps) /\ Ordered(p) /\ Elems(p) = {"fd_array_free"}
      /\ p # <<>> /\ Head(p) = "fd_array_free"
  BY <1>1, Prefix1
<1>3. q \in Seq(Steps) /\ Ordered(q) /\ Elems(q) = IF q = <<>> THEN {} ELSE {"kfree"}
  <2>1. CASE q = <<>>
    BY <2>1 DEF Ordered, Elems
  <2>2. CASE q = <<"kfree">>
    BY <1>1, <2>2, Prefix1
  <2> QED
    BY <2>1, <2>2
<1> HIDE DEF p
<1>4. \A x \in Elems(p), y \in Elems(q) : Follows(x, y)
  BY <1>1, <1>2, <1>3
<1>5. /\ p \o q \in Seq(Steps) /\ Ordered(p \o q) /\ Elems(p \o q) = Elems(p) \cup Elems(q)
      /\ p \o q # <<>> /\ Head(p \o q) = "fd_array_free"
  BY <1>2, <1>3, <1>4, OrderedConcat
<1> QED
  BY <1>2, <1>3, <1>5 DEF FirstOf, GivesUp, p

LEMMA GiveUp ==
  ASSUME FileInv, NEW t \in Thread, NEW c \in CallSet, Ordered(c.steps),
         NEW S, GivesUp(S), Elems(c.steps) = S, FirstOf(c.steps) = "fd_array_free",
         "kfree" \in S => Open(t) = {},
         c.node = none, c.fd \in Fd \ Open(t), call' = [call EXCEPT ![t] = c],
         t \in alive, t # initproc, UNCHANGED <<ino, alive, fd_array>>,
         leaked' \in [Node -> [ref : Nat, open : Nat]]
  PROVE  /\ TableType' /\ CallInv'
         /\ \A u \in Thread \ {t} : call'[u] = call[u]
         /\ call'[t].node = none /\ Left(t)' = S /\ Now(t)' = "fd_array_free"
<1>1. FileType /\ CallInv /\ CallOK(t)
  BY CallFacts DEF FileInv
<1>3. /\ \A u \in Thread \ {t} : call'[u] = call[u]
      /\ call'[t] = c /\ Left(t)' = S /\ Now(t)' = "fd_array_free"
  BY <1>1, SameCall
<1>4. TableType'
  BY <1>1 DEF FileType, TableType
<1>5. Shape(t)'
  BY <1>3 DEF Shape, GivesUp, Complete, Some, Loading, Hows, FsLock, SinLock
<1>6. KnowsNode(t)'
  BY <1>3 DEF KnowsNode, GivesUp, Some, Loading, NodeSteps, RefSteps, SinLock, InSin, Exec
<1>7. KnowsSlots(t)'
  <2>1. Open(t)' = Open(t)
    BY DEF Open, Slots
  <2> QED
    BY <1>1, <1>3, <2>1 DEF KnowsSlots, CallOK, GivesUp, Some
<1>8. KnowsAlive(t)'
  BY <1>3 DEF KnowsAlive, GivesUp
<1>9. \A u \in Thread \ {t} : CallOK(u)'
  BY <1>1, <1>3, OthersOK
<1> QED
  BY <1>1, <1>3, <1>4, <1>5, <1>6, <1>7, <1>8, <1>9 DEF CallInv, CallOK

LEMMA LoadFailedStep ==
  ASSUME FileInv, NEW t \in Thread, At(t, "sfs_rbuf"), LoadFailed(t),
         UNCHANGED <<alive, fd_array, leaked>>
  PROVE  FileInv'
<1> DEFINE L == Left(t)
<1>1. Now(t) = "sfs_rbuf" /\ Now(t) \in Loading
  BY AtNow DEF Loading
<1>2. /\ FileType /\ CallInv /\ CallOK(t) /\ CleanInv
      /\ call[t].node = none /\ call[t].fd \in Fd \ Open(t) /\ "fd_array_open" \in L
      /\ L \subseteq {Now(t), "fd_array_open"} \cup Hows \cup Exec
      /\ t \in alive /\ t # initproc /\ HasFs(t) /\ Now(t) # "sfs_wbuf"
      /\ Now(t) \notin InSin \cup SinLock \cup FsLock
  BY <1>1, LoadFacts
<1> PICK q : /\ q = <<>> \/ (q = <<"kfree">> /\ Execs(t))
             /\ call' = [call EXCEPT ![t].steps = <<"fd_array_free">> \o q]
  BY DEF LoadFailed
<1> DEFINE s == <<"fd_array_free">> \o q
           c == [call[t] EXCEPT !.steps = s]
           S == Elems(s)
<1>3. /\ UNCHANGED <<ino, ref_count, open_count, reclaim_count, dirty, stale, leaked, alive, fd_array>>
      /\ NodeType' /\ up(fs_sem)
      /\ call' = [call EXCEPT ![t] = c]
  BY <1>2 DEF LoadFailed, nodeVars, FileType, NodeType
<1>4. /\ s \in Seq(Steps) /\ Ordered(s) /\ FirstOf(s) = "fd_array_free" /\ GivesUp(S)
      /\ "kfree" \in S => Execs(t)
  BY GiveUpSteps
<1> HIDE DEF s
<1>5. "kfree" \in S => Open(t) = {}
  <2>1. Execs(t) => "load_icode" \in L
    BY <1>2, HasSome DEF Execs, Some
  <2> QED
    BY <1>2, <1>4, <2>1 DEF CallOK, KnowsSlots
<1> HIDE DEF S
<1>6. c \in CallSet /\ c.steps = s /\ c.node = none /\ c.fd \in Fd \ Open(t)
  <2>1. call[t] \in CallSet
    BY <1>2 DEF FileType, TableType
  <2> QED
    BY <1>2, <1>4, <2>1 DEF CallSet
<1> HIDE DEF c
<1>7. /\ TableType' /\ CallInv'
      /\ \A u \in Thread \ {t} : call'[u] = call[u]
      /\ call'[t].node = none /\ Left(t)' = S /\ Now(t)' = "fd_array_free"
  <2>1. leaked' \in [Node -> [ref : Nat, open : Nat]]
    BY <1>2, <1>3 DEF FileType, TableType
  <2>2. Ordered(c.steps) /\ Elems(c.steps) = S /\ FirstOf(c.steps) = "fd_array_free"
    BY <1>4, <1>6 DEF S
  <2>3. FileInv
    OBVIOUS
  <2> QED
    BY ONLY <1>2, <1>3, <1>4, <1>5, <1>6, <2>1, <2>2, <2>3, GiveUp
<1>8. "vop_kill" \notin S /\ "sfs_sync" \notin S
  BY <1>4 DEF GivesUp
<1>9. CountInv'
  <2>1. Open(t)' = Open(t)
    BY <1>3 DEF Open, Slots
  <2> QED
    BY <1>2, <1>3, <1>7, <1>8, <2>1, SameCounts DEF FileInv
<1>10. CleanInv'
  BY <1>2, <1>3, <1>7, <1>8, SameClean
<1>11. ~HasFs(t)' /\ Now(t)' \notin InSin \cup SinLock
  BY <1>7, <1>8 DEF HasFs, Loading, InSin, SinLock, FsLock
<1>12. SemType' /\ QueueInv' /\ TokenInv'
  BY <1>2, <1>3, <1>7, <1>11, LeaveFs
<1> QED
  BY <1>3, <1>7, <1>9, <1>10, <1>12, Assembled

LEMMA LoadStep ==
  ASSUME FileInv, NEW t \in Thread, sfs_load_inode(t)
  PROVE  FileInv'
<1>1. UNCHANGED <<alive, fd_array, leaked>>
  BY DEF sfs_load_inode
<1>2. CASE At(t, "sfs_load_inode")
           /\ \E n \in Cached(call[t].ino) : lookup_sfs_nolock(n) /\ Loaded(t, n)
  BY <1>1, <1>2, LookupStep
<1>3. CASE /\ At(t, "sfs_load_inode") /\ Cached(call[t].ino) = {}
           /\ GoesOn(t, <<"sfs_rbuf">>) /\ UNCHANGED <<semVars, nodeVars>>
  BY <1>1, <1>3, MissStep
<1>4. CASE At(t, "sfs_rbuf")
           /\ \E n \in Node : sfs_create_inode(n, call[t].ino) /\ Loaded(t, n)
  BY <1>1, <1>4, CreateStep
<1>5. CASE At(t, "sfs_rbuf") /\ LoadFailed(t)
  BY <1>1, <1>5, LoadFailedStep
<1> QED
  BY <1>2, <1>3, <1>4, <1>5 DEF sfs_load_inode

(* vfs_open behind its look-up.                                            *)
LEMMA HowFacts ==
  ASSUME FileInv, NEW t \in Thread, Now(t) \in Hows
  PROVE  /\ FileType /\ CallInv /\ CallOK(t) /\ Shape(t) /\ View(Now(t), Left(t)) /\ CleanInv
         /\ Left(t) \subseteq {Now(t), "fd_array_open"} \cup Exec /\ Now(t) \in Left(t)
         /\ "fd_array_open" \in Left(t) /\ ("load_icode_read" \in Left(t) => "load_icode" \in Left(t))
         /\ (Now(t) # "plain" => Left(t) = {Now(t), "fd_array_open"}) /\ Now(t) \in NodeSteps
         /\ call[t].fd \in Fd \ Open(t)
         /\ t \in alive /\ t # initproc /\ ~HasFs(t) /\ ~HasSin(t) /\ Now(t) # "none"
         /\ Now(t) # "sfs_wbuf" /\ Now(t) \notin {"woken_sfs_fs", "woken_sin"}
         /\ call[t].node \in Node /\ call[t].node # none /\ ino[call[t].node] # none
         /\ Counted(call[t].node)
         /\ t \in RefOf(call[t].node) /\ ~(t \in OpenOf(call[t].node))
         /\ ~(t \in ReclaimOf(call[t].node))
         /\ \A u \in Thread \ {t} : "vop_kill" \in Left(u) => call[u].node # call[t].node
<1> DEFINE L == Left(t)
<1>1. FileType /\ CallInv /\ CallOK(t) /\ Shape(t) /\ View(Now(t), L) /\ CleanInv
  BY CallFacts DEF FileInv, CallOK
<1>2. /\ L \subseteq {Now(t), "fd_array_open"} \cup Exec /\ Now(t) \in L /\ "fd_array_open" \in L
      /\ "load_icode_read" \in L => "load_icode" \in L
      /\ Now(t) # "plain" => L = {Now(t), "fd_array_open"}
  BY <1>1, NextOfHow
<1>3. /\ Now(t) # "none" /\ Now(t) # "sfs_wbuf" /\ Now(t) \in NodeSteps
      /\ Now(t) \notin {"woken_sfs_fs", "woken_sin"}
  BY DEF Hows, NodeSteps, RefSteps
<1>4. call[t].fd \in Fd \ Open(t)
  BY <1>1, <1>2 DEF CallOK, KnowsSlots
<1>5. t \in alive /\ t # initproc
  <2>1. "sfs_sync" \notin L /\ L # {}
    BY <1>2 DEF Hows, Exec
  <2>2. call[t] # NoCall
    BY <1>1, <2>1, CallFacts
  <2> QED
    BY <1>1, <2>1, <2>2 DEF CallOK, KnowsAlive
<1>6. ~HasFs(t) /\ ~HasSin(t)
  BY <1>2 DEF HasFs, HasSin, Hows, Loading, InSin, Exec
<1>7. /\ call[t].node \in Node /\ call[t].node # none /\ ino[call[t].node] # none
      /\ Counted(call[t].node)
  BY <1>3, NodeOfCall, SfsInodeAssumption
<1>8. /\ t \in RefOf(call[t].node) /\ ~(t \in OpenOf(call[t].node))
      /\ ~(t \in ReclaimOf(call[t].node))
  BY <1>2 DEF RefOf, OpenOf, ReclaimOf, HasRef, HasOpen, Some, RefSteps, Hows, Exec
<1>9. \A u \in Thread \ {t} : "vop_kill" \in Left(u) => call[u].node # call[t].node
  BY KillAlone
<1> QED
  BY <1>1, <1>2, <1>3, <1>4, <1>5, <1>6, <1>7, <1>8, <1>9

LEMMA OpenIncStep ==
  ASSUME FileInv, NEW t \in Thread, inode_open_inc(call[t].node),
         \/ At(t, "plain") /\ GoesOn(t, <<>>)
         \/ At(t, "trunc") /\ GoesOn(t, <<"sfs_truncfile">>),
         UNCHANGED <<semVars, alive, fd_array, leaked>>
  PROVE  FileInv'
<1> DEFINE L == Left(t)
<1>1. Now(t) \in {"plain", "trunc"} /\ Now(t) \in Hows
  BY AtNow DEF Hows
<1>2. /\ FileType /\ Shape(t) /\ View(Now(t), L) /\ CleanInv
      /\ L \subseteq {Now(t), "fd_array_open"} \cup Exec /\ Now(t) \in L /\ "fd_array_open" \in L
      /\ "load_icode_read" \in L => "load_icode" \in L
      /\ Now(t) # "plain" => L = {Now(t), "fd_array_open"}
      /\ Now(t) # "none" /\ Now(t) # "sfs_wbuf" /\ Now(t) \notin {"woken_sfs_fs", "woken_sin"}
      /\ ~HasFs(t) /\ ~HasSin(t)
  BY <1>1, HowFacts
<1> PICK n \in Node : n = call[t].node
  BY <1>1, HowFacts
<1>3. /\ n # none /\ ino[n] # none
      /\ t \in RefOf(n) /\ ~(t \in OpenOf(n)) /\ ~(t \in ReclaimOf(n))
      /\ \A u \in Thread \ {t} : "vop_kill" \in Left(u) => call[u].node # n
  BY <1>1, HowFacts
<1>4. /\ UNCHANGED <<ino, ref_count, reclaim_count, dirty, stale, leaked, alive, fd_array>>
      /\ open_count' = [open_count EXCEPT ![n] = @ + 1]
  BY DEF inode_open_inc
<1>5. /\ open_count'[n] = open_count[n] + 1
      /\ \A m \in Node \ {n} : open_count'[m] = open_count[m]
      /\ NodeType'
  BY <1>2, <1>4 DEF FileType, NodeType
<1>6. PICK c, P : /\ call' = [call EXCEPT ![t] = c] /\ After(t, c, P)
                  /\ P = {} \/ (P = {"sfs_truncfile"} /\ Now(t) = "trunc")
  <2>1. CASE GoesOn(t, <<>>)
    BY <1>2, <2>1, Replace0 DEF GoesOn
  <2>2. CASE At(t, "trunc") /\ GoesOn(t, <<"sfs_truncfile">>)
    <3>0. Now(t) = "trunc"
      BY <2>2, AtNow
    <3>1. "sfs_truncfile" \in Steps /\ \A y \in L \ {Now(t)} : Follows("sfs_truncfile", y)
      BY <1>2, <3>0 DEF Steps, NodeSteps, Follows
    <3>2. After(t, Replaced(t, <<"sfs_truncfile">>), {"sfs_truncfile"})
      BY <1>2, <3>1, Replace1
    <3> QED
      BY <2>2, <3>0, <3>2 DEF GoesOn
  <2> QED
    BY <2>1, <2>2
<1> DEFINE M == Elems(c.steps)
           N == FirstOf(c.steps)
<1>7. /\ M = P \cup (L \ {Now(t)}) /\ "fd_array_open" \in M
      /\ M \subseteq P \cup {"fd_array_open"} \cup Exec
      /\ Order(N, M) /\ Keeps(t, c) /\ c.node = n
  <2>1. Now(t) # "fd_array_open"
    BY <1>1
  <2>2. M = P \cup (L \ {Now(t)}) /\ Order(N, M) /\ Keeps(t, c)
    BY <1>6 DEF After, Keeps
  <2>3. "fd_array_open" \in M /\ M \subseteq P \cup {"fd_array_open"} \cup Exec
    BY <1>2, <2>1, <2>2
  <2> QED
    BY <2>2, <2>3 DEF Keeps
<1>8. N \in {"fd_array_open", "sfs_truncfile"}
  BY <1>6, <1>7 DEF Order, Follows, Exec, FsLock, Loading, Hows, SinLock
<1>9. Continues(L, M) /\ "vop_kill" \notin M /\ "sfs_sync" \notin M
  BY <1>1, <1>2, <1>6, <1>7 DEF Continues, Complete, Some, Loading, Hows,
     NodeSteps, KeepSteps, RefSteps, FsLock, SinLock, InSin, Exec
<1>10. /\ TableType' /\ CallInv'
       /\ \A u \in Thread \ {t} : call'[u] = call[u]
       /\ call'[t] = c /\ Left(t)' = M /\ Now(t)' = N
  BY <1>2, <1>4, <1>6, <1>7, <1>9, MoveStep
<1>11. CountInv'
  <2>1. (t \in RefOf(n))' /\ (t \in OpenOf(n))' /\ ~(t \in ReclaimOf(n))'
    BY <1>6, <1>7, <1>10 DEF RefOf, OpenOf, ReclaimOf, HasRef, HasOpen, Some, RefSteps, Hows, Exec
  <2>2. /\ Bit((t \in RefOf(n))') = 1 /\ Bit(t \in RefOf(n)) = 1
        /\ Bit((t \in OpenOf(n))') = 1 /\ Bit(t \in OpenOf(n)) = 0
        /\ Bit((t \in ReclaimOf(n))') = 0 /\ Bit(t \in ReclaimOf(n)) = 0
    BY <1>3, <2>1 DEF Bit
  <2>3. /\ ref_count[n] \in Int /\ open_count[n] \in Int /\ reclaim_count[n] \in Int
        /\ leaked[n].ref \in Nat /\ Bit(ref_count[n] > 0) \in Int
    BY <1>2 DEF FileType, NodeType, TableType, Bit
  <2> QED
    BY <1>3, <1>4, <1>5, <1>7, <1>9, <1>10, <2>2, <2>3, CountCall
<1>12. CleanInv'
  BY <1>2, <1>4, <1>8, <1>9, <1>10, SameClean
<1>13. ~HasFs(t)' /\ ~HasSin(t)'
  BY <1>8, <1>9, <1>10 DEF HasFs, HasSin, Loading, InSin
<1>14. SemType' /\ QueueInv' /\ TokenInv'
  BY <1>2, <1>10, <1>13, StayTokens
<1> QED
  BY <1>5, <1>10, <1>11, <1>12, <1>14, Assembled

LEMMA ExclStep ==
  ASSUME FileInv, NEW t \in Thread, At(t, "excl"),
         leaked' = [leaked EXCEPT ![call[t].node].ref = @ + 1],
         call' = [call EXCEPT ![t].steps = <<"fd_array_free">>, ![t].node = none],
         UNCHANGED <<nodeVars, semVars, alive, fd_array>>
  PROVE  FileInv'
<1> DEFINE L == Left(t)
           c == [call[t] EXCEPT !.steps = <<"fd_array_free">>, !.node = none]
<1>1. Now(t) = "excl" /\ Now(t) \in Hows
  BY AtNow DEF Hows
<1>2. /\ FileType /\ CallInv /\ CleanInv /\ call[t].fd \in Fd \ Open(t)
      /\ t \in alive /\ t # initproc
      /\ Now(t) # "sfs_wbuf" /\ Now(t) \notin {"woken_sfs_fs", "woken_sin"}
      /\ ~HasFs(t) /\ ~HasSin(t)
  BY <1>1, HowFacts
<1> PICK n \in Node : n = call[t].node
  BY <1>1, HowFacts
<1>3. /\ n # none /\ ino[n] # none
      /\ t \in RefOf(n) /\ ~(t \in OpenOf(n)) /\ ~(t \in ReclaimOf(n))
      /\ \A u \in Thread \ {t} : "vop_kill" \in Left(u) => call[u].node # n
  BY <1>1, HowFacts
<1>4. /\ UNCHANGED <<ino, ref_count, open_count, reclaim_count, dirty, stale, alive, fd_array>>
      /\ NodeType' /\ call' = [call EXCEPT ![t] = c]
      /\ leaked' = [leaked EXCEPT ![n].ref = @ + 1]
  BY <1>2 DEF nodeVars, FileType, NodeType, TableType
<1>5. /\ leaked' \in [Node -> [ref : Nat, open : Nat]] /\ leaked'[n].ref = leaked[n].ref + 1
      /\ leaked'[n].open = leaked[n].open
      /\ \A m \in Node \ {n} : leaked'[m] = leaked[m]
  <2> DEFINE e == [leaked[n] EXCEPT !.ref = @ + 1]
  <2>1. leaked \in [Node -> [ref : Nat, open : Nat]]
    BY <1>2 DEF FileType, TableType
  <2>2. leaked[n] \in [ref : Nat, open : Nat]
    BY <2>1
  <2>3. e \in [ref : Nat, open : Nat] /\ e.ref = leaked[n].ref + 1 /\ e.open = leaked[n].open
    BY <2>2
  <2>4. leaked' = [leaked EXCEPT ![n] = e]
    BY <1>4
  <2> HIDE DEF e
  <2> QED
    BY <2>1, <2>3, <2>4
<1>6. /\ c \in CallSet /\ Ordered(c.steps) /\ Elems(c.steps) = {"fd_array_free"}
      /\ GivesUp({"fd_array_free"}) /\ FirstOf(c.steps) = "fd_array_free" /\ c.node = none
      /\ c.fd \in Fd \ Open(t)
  <2> PICK s : s = <<"fd_array_free">>
    OBVIOUS
  <2>1. call[t] \in CallSet
    BY <1>2 DEF FileType, TableType
  <2>2. /\ s \in Seq(Steps) /\ Ordered(s) /\ FirstOf(s) = "fd_array_free"
        /\ Elems(s) = {"fd_array_free"} /\ GivesUp({"fd_array_free"})
    <3>1. "fd_array_free" \in Steps
      BY DEF Steps, Ending
    <3> QED
      BY <3>1, Prefix1 DEF GivesUp, FirstOf
  <2>3. c = [call[t] EXCEPT !.steps = s, !.node = none]
    OBVIOUS
  <2> HIDE DEF c
  <2>4. /\ c \in CallSet /\ c.steps = s /\ c.node = none /\ c.fd = call[t].fd
    BY <2>1, <2>2, <2>3 DEF CallSet
  <2> QED
    BY <1>2, <2>2, <2>4
<1> HIDE DEF c
<1>7. /\ TableType' /\ CallInv'
      /\ \A u \in Thread \ {t} : call'[u] = call[u]
      /\ call'[t].node = none /\ Left(t)' = {"fd_array_free"} /\ Now(t)' = "fd_array_free"
  BY <1>2, <1>4, <1>5, <1>6, GiveUp
<1>8. CountInv'
  <2>1. ~(t \in RefOf(n))' /\ ~(t \in OpenOf(n))' /\ ~(t \in ReclaimOf(n))'
    BY <1>3, <1>7 DEF RefOf, OpenOf, ReclaimOf
  <2>2. /\ Bit((t \in RefOf(n))') = 0 /\ Bit(t \in RefOf(n)) = 1
        /\ Bit((t \in OpenOf(n))') = 0 /\ Bit(t \in OpenOf(n)) = 0
        /\ Bit((t \in ReclaimOf(n))') = 0 /\ Bit(t \in ReclaimOf(n)) = 0
    BY <1>3, <2>1 DEF Bit
  <2>3. /\ ref_count[n] \in Int /\ open_count[n] \in Int /\ reclaim_count[n] \in Int
        /\ leaked[n].ref \in Nat /\ Bit(ref_count[n] > 0) \in Int
    BY <1>2 DEF FileType, NodeType, TableType, Bit
  <2>4. /\ ref_count'[n] - ref_count[n] = leaked'[n].ref - leaked[n].ref + (0 - 1)
        /\ open_count'[n] - open_count[n] = 0 - 0
        /\ reclaim_count'[n] - reclaim_count[n]
             = (0 - 0) + (Bit(ref_count'[n] > 0) - Bit(ref_count[n] > 0))
        /\ ref_count'[n] \in Int /\ open_count'[n] \in Int /\ reclaim_count'[n] \in Int
        /\ leaked'[n].ref \in Nat /\ leaked'[n].ref >= leaked[n].ref
        /\ leaked'[n].open = leaked[n].open
    BY <1>4, <1>5, <2>3
  <2>5. /\ call[t].node \in {n, none} /\ call'[t].node \in {n, none}
        /\ \A m \in Node \ {n} :
             /\ ref_count'[m] = ref_count[m] /\ open_count'[m] = open_count[m]
             /\ reclaim_count'[m] = reclaim_count[m] /\ leaked'[m] = leaked[m]
        /\ "vop_kill" \notin Left(t)'
    BY <1>4, <1>5, <1>7
  <2>6. UNCHANGED <<ino, fd_array>> /\ \A u \in Thread \ {t} : call'[u] = call[u]
    BY <1>4, <1>7
  <2>7. FileInv
    OBVIOUS
  <2> QED
    BY ONLY <1>3, <2>2, <2>4, <2>5, <2>6, <2>7, CountCall
<1>9. CleanInv'
  BY <1>2, <1>4, <1>7, SameClean
<1>10. ~HasFs(t)' /\ ~HasSin(t)'
  BY <1>7 DEF HasFs, HasSin, Loading, InSin
<1>11. SemType' /\ QueueInv' /\ TokenInv'
  BY <1>2, <1>7, <1>10, StayTokens
<1> QED
  BY <1>4, <1>7, <1>8, <1>9, <1>11, Assembled

LEMMA OpenStep ==
  ASSUME FileInv, NEW t \in Thread, vfs_open(t)
  PROVE  FileInv'
<1>1. UNCHANGED <<semVars, alive, fd_array>>
  BY DEF vfs_open
<1>2. CASE /\ inode_open_inc(call[t].node) /\ UNCHANGED leaked
           /\ \/ At(t, "plain") /\ GoesOn(t, <<>>)
              \/ At(t, "trunc") /\ GoesOn(t, <<"sfs_truncfile">>)
  BY <1>1, <1>2, OpenIncStep
<1>3. CASE /\ At(t, "excl") /\ leaked' = [leaked EXCEPT ![call[t].node].ref = @ + 1]
           /\ call' = [call EXCEPT ![t].steps = <<"fd_array_free">>, ![t].node = none]
           /\ UNCHANGED nodeVars
  BY <1>1, <1>3, ExclStep
<1> QED
  BY <1>2, <1>3 DEF vfs_open
-----------------------------------------------------------------------------
(* A process that may make a call.                                         *)
LEMMA IdleFacts ==
  ASSUME FileInv, NEW t \in Thread, Idle(t)
  PROVE  /\ FileType /\ CallInv /\ CallOK(t) /\ CleanInv /\ CountInv
         /\ call[t] = NoCall /\ Left(t) = {} /\ Now(t) = "none" /\ call[t].node = none
         /\ t \in alive /\ t # initproc /\ initproc \in alive
         /\ ~HasFs(t) /\ ~HasSin(t) /\ t \notin asleep
<1>1. FileType /\ CallInv /\ CallOK(t) /\ CleanInv /\ CountInv
  BY CallFacts DEF FileInv
<1>2. call[t] = NoCall /\ t \in alive /\ t # initproc
  BY DEF Idle
<1>3. Left(t) = {} /\ Now(t) = "none" /\ call[t].node = none
  BY <1>1, <1>2, CallFacts
<1>4. initproc \in alive
  BY <1>1, <1>2 DEF CallInv
<1>5. ~HasFs(t) /\ ~HasSin(t)
  BY <1>3 DEF HasFs, HasSin, Loading, InSin
<1>6. t \notin asleep
  BY <1>3 DEF FileInv, QueueInv
<1> QED
  BY <1>1, <1>2, <1>3, <1>4, <1>5, <1>6

(* The steps of a call that has just begun, when the counts do not see it. *)
Fresh(t, c, S, x) ==
  /\ c \in CallSet /\ Ordered(c.steps) /\ Elems(c.steps) = S /\ FirstOf(c.steps) = x
  /\ Complete(S) /\ (S = {} => c = NoCall)
  /\ Some(S, Loading) => c.node = none /\ c.ino \in Ino
  /\ Some(S, NodeSteps) /\ ~Some(S, Loading) => c.node \in Node
  /\ c.node # none => NoBits(S) /\ \E f \in Open(t) : fd_array[t][f].node = c.node
  /\ "fd_array_open" \in S => c.fd \in Fd \ Open(t)
  /\ "next_fd" \in S => c.todo = Open(t)
  /\ Some(S, {"kfree", "sysfile_open"}) => "next_fd" \in S
  /\ "sysfile_open" \in S => c.ino \in Ino
  /\ "load_icode" \in S => "fd_array_open" \in S /\ Open(t) = {}
  /\ "fd_array_free" \notin S /\ "sfs_sync" \notin S /\ "vop_kill" \notin S
  /\ x \in {"none", "lock_sfs_fs", "lock_sin", "next_fd"}

LEMMA BeginStep ==
  ASSUME FileInv, NEW t \in Thread, t \in alive, t # initproc,
         NoBits(Left(t)), call[t].node = none, ~HasFs(t), ~HasSin(t),
         Now(t) \notin {"sfs_wbuf", "woken_sfs_fs", "woken_sin"},
         NEW c, NEW S, NEW x, Fresh(t, c, S, x),
         call' = [call EXCEPT ![t] = c], UNCHANGED <<semVars, nodeVars, alive, leaked>>,
         fd_array' \in [Thread -> [Fd -> [status : Status, node : Node \cup {none}]]],
         \A u \in Thread \ {t} : fd_array'[u] = fd_array[u],
         Open(t)' = Open(t), \A f \in Open(t) : fd_array'[t][f].node = fd_array[t][f].node
  PROVE  FileInv'
<1>1. FileType /\ CallInv /\ CallOK(t) /\ CleanInv /\ CountInv
  BY CallFacts DEF FileInv
<1>2. /\ \A u \in Thread \ {t} : call'[u] = call[u]
      /\ call'[t] = c /\ Left(t)' = S /\ Now(t)' = x
  BY <1>1, SameCall DEF Fresh
<1>3. TableType' /\ NodeType'
  BY <1>1 DEF FileType, TableType, NodeType, nodeVars, Fresh
<1>4. UNCHANGED <<ino, ref_count, open_count, reclaim_count, dirty, stale, leaked>>
  BY DEF nodeVars
<1>5. Shape(t)'
  BY <1>2 DEF Shape, Fresh
<1>6. \A f \in Open(t) : fd_array[t][f].node \in Node /\ ino[fd_array[t][f].node] # none
  BY <1>1 DEF CallOK, KnowsSlots
<1>7. KnowsNode(t)'
  BY <1>2, <1>4, <1>6 DEF KnowsNode, Fresh
<1>8. KnowsSlots(t)'
  BY <1>2, <1>4, <1>6 DEF KnowsSlots, Fresh
<1>9. KnowsAlive(t)'
  BY <1>1, <1>2 DEF KnowsAlive, Fresh
<1>10. \A u \in Thread \ {t} : CallOK(u)'
  BY <1>1, <1>2, <1>4, OthersOK
<1>11. CallInv'
  BY <1>1, <1>5, <1>7, <1>8, <1>9, <1>10 DEF CallInv, CallOK
<1>12. CountInv'
  <2>2. \/ NoBits(Left(t)) /\ NoBits(Left(t)')
        \/ call[t].node = none /\ call'[t].node = none
    <3>1. CASE c.node = none
      BY <1>2, <3>1
    <3>2. CASE c.node # none
      <4>1. NoBits(S)
        BY <3>2 DEF Fresh
      <4>2. NoBits(Left(t)')
        BY <1>2, <4>1
      <4> QED
        BY <4>2
    <3> QED
      BY <3>1, <3>2
  <2>3. "vop_kill" \notin Left(t)'
    BY <1>2 DEF Fresh
  <2> QED
    BY <1>1, <1>2, <1>4, <2>2, <2>3, SameCounts
<1>13. CleanInv'
  BY <1>1, <1>2, <1>4, SameClean DEF Fresh
<1>14. ~HasFs(t)' /\ ~HasSin(t)'
  BY <1>2 DEF HasFs, HasSin, Fresh, Loading, InSin
<1>15. SemType' /\ QueueInv' /\ TokenInv'
  BY <1>1, <1>2, <1>14, StayTokens
<1> QED
  BY <1>3, <1>11, <1>12, <1>13, <1>15, Assembled

LEMMA StartStep ==
  ASSUME FileInv, NEW t \in Thread, Idle(t), NEW c, NEW S, NEW x, Fresh(t, c, S, x),
         call' = [call EXCEPT ![t] = c], UNCHANGED <<semVars, nodeVars, alive, leaked>>,
         fd_array' \in [Thread -> [Fd -> [status : Status, node : Node \cup {none}]]],
         \A u \in Thread \ {t} : fd_array'[u] = fd_array[u],
         Open(t)' = Open(t), \A f \in Open(t) : fd_array'[t][f].node = fd_array[t][f].node
  PROVE  FileInv'
<1>1. /\ FileType /\ Left(t) = {} /\ Now(t) = "none" /\ call[t].node = none
      /\ t \in alive /\ t # initproc /\ ~HasFs(t) /\ ~HasSin(t)
  BY IdleFacts
<1>2. NoBits(Left(t))
  BY <1>1, EmptyHasNone
<1> QED
  BY <1>1, <1>2, BeginStep

(* file_open: a free slot becomes FD_INIT.                                 *)
LEMMA FileOpenStep ==
  ASSUME FileInv, NEW t \in Thread, NEW i \in Ino, NEW how \in Hows, file_open(t, i, how)
  PROVE  FileInv'
<1>1. FileType /\ Idle(t) /\ UNCHANGED <<semVars, nodeVars, alive, leaked>>
  BY DEF FileInv, file_open
<1> DEFINE s == <<"lock_sfs_fs", "sfs_load_inode", how, "fd_array_open">>
           S == {"lock_sfs_fs", "sfs_load_inode", how, "fd_array_open"}
<1> PICK f \in Fd : /\ FirstFree(t, f)
                    /\ SetSlot(t, f, "FD_INIT", none)
                    /\ call' = [call EXCEPT ![t] = [NoCall EXCEPT !.steps = s, !.fd = f, !.ino = i]]
  BY DEF file_open
<1> DEFINE c == [NoCall EXCEPT !.steps = s, !.fd = f, !.ino = i]
<1>2. f \in Fd \ Open(t)
  BY DEF FirstFree, Open, Slots
<1>3. /\ s \in Seq(Steps) /\ Ordered(s) /\ Elems(s) = S /\ FirstOf(s) = "lock_sfs_fs"
  <2>1. /\ "lock_sfs_fs" \in Steps /\ "sfs_load_inode" \in Steps /\ how \in Steps
        /\ "fd_array_open" \in Steps
    BY DEF Steps, NodeSteps, RefSteps, FsLock, Loading, Hows
  <2>2. /\ Follows("lock_sfs_fs", "sfs_load_inode") /\ Follows("lock_sfs_fs", how)
        /\ Follows("sfs_load_inode", how) /\ Follows("lock_sfs_fs", "fd_array_open")
        /\ Follows("sfs_load_inode", "fd_array_open") /\ Follows(how, "fd_array_open")
    BY DEF Follows, FsLock, Loading
  <2> QED
    BY <2>1, <2>2, Prefix4 DEF FirstOf
<1> HIDE DEF s
<1>4. /\ c \in CallSet /\ c.steps = s /\ c.node = none /\ c.fd = f /\ c.ino = i
  BY <1>3 DEF NoCall, CallSet
<1>5. call' = [call EXCEPT ![t] = c]
  OBVIOUS
<1> HIDE DEF c
<1>6. Complete(S)
  BY DEF Complete, Some, Loading, Hows, FsLock, SinLock
<1>7. "sfs_load_inode" \in S /\ "next_fd" \notin S /\ "load_icode" \notin S
      /\ ~Some(S, {"kfree", "sysfile_open"}) /\ "sysfile_open" \notin S
      /\ "fd_array_free" \notin S /\ "sfs_sync" \notin S /\ "vop_kill" \notin S
  BY DEF Hows, Some
<1>8. Some(S, Loading)
  BY <1>7 DEF Some, Loading
<1> HIDE DEF S
<1>9. Fresh(t, c, S, "lock_sfs_fs")
  BY <1>2, <1>3, <1>4, <1>6, <1>7, <1>8 DEF Fresh
<1>10. /\ fd_array' \in [Thread -> [Fd -> [status : Status, node : Node \cup {none}]]]
       /\ \A u \in Thread \ {t} : fd_array'[u] = fd_array[u]
       /\ \A g \in Fd \ {f} : fd_array'[t][g] = fd_array[t][g]
       /\ Open(t)' = Open(t) \ {f}
  <2>1. "FD_INIT" \in Status /\ "FD_INIT" # "FD_OPENED" /\ none \in Node \cup {none}
    BY DEF Status
  <2> QED
    BY <1>1, <2>1, SlotSet
<1>11. Open(t)' = Open(t) /\ \A g \in Open(t) : fd_array'[t][g].node = fd_array[t][g].node
  BY <1>2, <1>10 DEF Open, Slots
<1> QED
  BY <1>1, <1>5, <1>9, <1>10, <1>11, StartStep

(* file_write and file_fsync of an open descriptor.                        *)
LEMMA OnFileStep ==
  ASSUME FileInv, NEW t \in Thread, NEW f \in Fd, file_write(t, f) \/ file_fsync(t, f)
  PROVE  FileInv'
<1> PICK s : /\ OnFile(t, f, s)
             /\ s = <<>> \/ s = <<"lock_sin", "sfs_io_nolock">> \/ s = <<"lock_sin", "sfs_fsync">>
  BY DEF file_write, file_fsync, FsyncSteps
<1>1. /\ FileType /\ Idle(t) /\ UNCHANGED <<semVars, nodeVars, alive, fd_array, leaked>>
      /\ f \in Open(t)
  BY DEF FileInv, OnFile, Open
<1> PICK n \in Node : n = fd_array[t][f].node /\ n # none
  BY <1>1, IdleFacts, SfsInodeAssumption DEF CallOK, KnowsSlots
<1>2. Open(t)' = Open(t)
  BY <1>1 DEF Open, Slots
<1>3. fd_array' \in [Thread -> [Fd -> [status : Status, node : Node \cup {none}]]]
  BY <1>1 DEF FileType, TableType
<1>4. CASE s = <<>>
  <2>1. call' = [call EXCEPT ![t] = NoCall]
    BY <1>4 DEF OnFile
  <2>2. /\ NoCall \in CallSet /\ Ordered(NoCall.steps) /\ Elems(NoCall.steps) = {}
        /\ FirstOf(NoCall.steps) = "none" /\ NoCall.node = none
    BY DEF NoCall, CallSet, Ordered, Elems, FirstOf
  <2>3. Fresh(t, NoCall, {}, "none")
    BY <2>2 DEF Fresh, Complete, Some
  <2> QED
    BY <1>1, <1>2, <1>3, <2>1, <2>3, StartStep
<1>5. ASSUME NEW y \in {"sfs_io_nolock", "sfs_fsync"}, s = <<"lock_sin", y>> PROVE FileInv'
  <2> DEFINE c == [NoCall EXCEPT !.steps = s, !.node = n]
             S == {"lock_sin", y}
  <2>1. call' = [call EXCEPT ![t] = c]
    BY <1>5 DEF OnFile
  <2>2. s \in Seq(Steps) /\ Ordered(s) /\ Elems(s) = S /\ FirstOf(s) = "lock_sin"
    <3>1. "lock_sin" \in Steps /\ y \in Steps /\ Follows("lock_sin", y)
      BY DEF Steps, NodeSteps, SinLock, InSin, Follows
    <3> QED
      BY <1>5, <3>1, Prefix2 DEF FirstOf
  <2>3. c \in CallSet /\ c.steps = s /\ c.node = n
    BY <2>2 DEF NoCall, CallSet
  <2> HIDE DEF c
  <2>4. /\ Complete(S) /\ NoBits(S) /\ S # {} /\ ~Some(S, Loading)
        /\ "fd_array_open" \notin S /\ "next_fd" \notin S /\ "load_icode" \notin S
        /\ ~Some(S, {"kfree", "sysfile_open"}) /\ "sysfile_open" \notin S
        /\ "fd_array_free" \notin S /\ "sfs_sync" \notin S /\ "vop_kill" \notin S
    BY DEF Complete, NoBits, HasRef, HasOpen, Some, Loading, Hows, FsLock, SinLock, RefSteps
  <2> HIDE DEF S
  <2>5. Fresh(t, c, S, "lock_sin")
    BY <1>1, <2>2, <2>3, <2>4 DEF Fresh
  <2> QED
    BY <1>1, <1>2, <1>3, <2>1, <2>5, StartStep
<1> QED
  BY <1>4, <1>5

(* put_files and do_execve: the loop over the open descriptors begins.     *)
LEMMA CloseAllStep ==
  ASSUME FileInv, NEW t \in Thread, put_files(t) \/ \E i \in Ino : do_execve(t, i)
  PROVE  FileInv'
<1> PICK last \in {"kfree", "sysfile_open"}, i \in Ino \cup {none} :
           CloseAll(t, last, i) /\ (last = "sysfile_open" => i \in Ino)
  <2>1. CASE put_files(t)
    BY <2>1 DEF put_files
  <2>2. CASE \E i \in Ino : do_execve(t, i)
    BY <2>2 DEF do_execve
  <2> QED
    BY <2>1, <2>2
<1> DEFINE s == <<"next_fd", last>>
           S == {"next_fd", last}
           c == [NoCall EXCEPT !.steps = s, !.ino = i, !.todo = Open(t)]
<1>1. /\ FileType /\ Idle(t) /\ UNCHANGED <<semVars, nodeVars, alive, fd_array, leaked>>
      /\ call' = [call EXCEPT ![t] = c]
  BY DEF FileInv, CloseAll, Open
<1>2. s \in Seq(Steps) /\ Ordered(s) /\ Elems(s) = S /\ FirstOf(s) = "next_fd"
  <2>1. "next_fd" \in Steps /\ last \in Steps /\ Follows("next_fd", last)
    BY DEF Steps, Ending, Exec, Follows
  <2> QED
    BY <2>1, Prefix2 DEF FirstOf
<1> HIDE DEF s
<1>3. c \in CallSet /\ c.steps = s /\ c.node = none /\ c.ino = i /\ c.todo = Open(t)
  <2>1. Open(t) \subseteq Fd
    BY DEF Open, Slots
  <2> QED
    BY <1>2, <2>1 DEF NoCall, CallSet
<1> HIDE DEF c
<1>4. /\ Complete(S) /\ S # {} /\ ~Some(S, Loading) /\ ~Some(S, NodeSteps)
      /\ "fd_array_open" \notin S /\ "next_fd" \in S /\ "load_icode" \notin S
      /\ "fd_array_free" \notin S /\ "sfs_sync" \notin S /\ "vop_kill" \notin S
      /\ "sysfile_open" \in S => i \in Ino
  BY DEF Complete, Some, Loading, Hows, FsLock, SinLock, NodeSteps, RefSteps, InSin, Exec
<1> HIDE DEF S
<1>5. Fresh(t, c, S, "next_fd")
  BY <1>2, <1>3, <1>4 DEF Fresh
<1>6. Open(t)' = Open(t)
  BY <1>1 DEF Open, Slots
<1>7. fd_array' \in [Thread -> [Fd -> [status : Status, node : Node \cup {none}]]]
  BY <1>1 DEF FileType, TableType
<1> QED
  BY <1>1, <1>5, <1>6, <1>7, StartStep

(* file_dup: one more descriptor, one more reference and opener.           *)
LEMMA FileDupStep ==
  ASSUME FileInv, NEW t \in Thread, NEW e \in Fd, NEW f \in Fd, file_dup(t, e, f)
  PROVE  FileInv'
<1>1. /\ FileType /\ CallInv /\ CallOK(t) /\ CleanInv /\ CountInv /\ Idle(t)
      /\ Left(t) = {} /\ Now(t) = "none" /\ call[t].node = none
      /\ t \in alive /\ t # initproc /\ ~HasFs(t) /\ ~HasSin(t)
  BY IdleFacts DEF file_dup
<1>2. UNCHANGED <<semVars, alive, call, leaked>> /\ e \in Open(t) /\ f \in Fd \ Open(t)
  BY DEF file_dup, Open, Slots
<1> PICK n \in Node : n = fd_array[t][e].node /\ ino[n] # none
  BY <1>1, <1>2 DEF CallOK, KnowsSlots
<1>3. n # none /\ Counted(n)
  BY <1>1, SfsInodeAssumption DEF CountInv
<1>4. /\ UNCHANGED <<ino, reclaim_count, dirty, stale>>
      /\ \A m \in Node : /\ ref_count'[m] = ref_count[m] + (IF m = n THEN 1 ELSE 0)
                         /\ open_count'[m] = open_count[m] + (IF m = n THEN 1 ELSE 0)
      /\ NodeType'
  <2> DEFINE b == [m \in Node |-> IF m = n THEN 1 ELSE 0]
  <2>1. b \in [Node -> Int] /\ \A m \in Node : b[m] = IF m = n THEN 1 ELSE 0
    OBVIOUS
  <2>2. DupNodes(b)
    BY DEF file_dup
  <2> HIDE DEF b
  <2> QED
    BY <1>1, <2>1, <2>2 DEF DupNodes, FileType, NodeType
<1>5. /\ fd_array' \in [Thread -> [Fd -> [status : Status, node : Node \cup {none}]]]
      /\ \A u \in Thread \ {t} : fd_array'[u] = fd_array[u]
      /\ \A g \in Fd \ {f} : fd_array'[t][g] = fd_array[t][g]
      /\ fd_array'[t][f].node = n
      /\ Open(t)' = Open(t) \cup {f}
  <2>1. SetSlot(t, f, "FD_OPENED", n) /\ "FD_OPENED" \in Status /\ n \in Node \cup {none}
    BY DEF file_dup, Status
  <2> QED
    BY <1>1, <2>1, SlotSet
<1>6. TableType'
  BY <1>1, <1>2, <1>5 DEF FileType, TableType
<1>7. Left(t)' = {} /\ Now(t)' = "none" /\ call'[t].node = none /\ call'[t] = call[t]
  BY <1>1, <1>2 DEF Left, Now
<1>8. CallInv'
  <2>1. Shape(t)'
    BY <1>1, <1>2, <1>7 DEF Shape, CallOK
  <2>2. KnowsNode(t)'
    BY <1>7 DEF KnowsNode, Some
  <2>3. KnowsSlots(t)'
    <3>1. \A g \in Open(t)' : fd_array'[t][g].node \in Node /\ ino'[fd_array'[t][g].node] # none
      <4>1. ASSUME NEW g \in Open(t)
            PROVE  fd_array'[t][g].node \in Node /\ ino'[fd_array'[t][g].node] # none
        <5>1. g \in Fd \ {f} /\ fd_array[t][g].node \in Node /\ ino[fd_array[t][g].node] # none
          BY <1>1, <1>2, <4>1 DEF CallOK, KnowsSlots, Open, Slots
        <5> QED
          BY <1>4, <1>5, <5>1
      <4> QED
        BY <1>4, <1>5, <4>1
    <3> QED
      BY <1>7, <3>1 DEF KnowsSlots, Some
  <2>4. KnowsAlive(t)'
    BY <1>1, <1>2, <1>7 DEF KnowsAlive
  <2>5. \A u \in Thread \ {t} : CallOK(u)'
    BY <1>1, <1>2, <1>4, <1>5, OthersOK
  <2> QED
    BY <1>1, <1>2, <2>1, <2>2, <2>3, <2>4, <2>5 DEF CallInv, CallOK
<1>9. CountInv'
  <2>1. /\ (<<t, f>> \in Descriptors(n))' /\ ~(<<t, f>> \in Descriptors(n))
        /\ \A m \in Node \ {n} : ~(<<t, f>> \in Descriptors(m))' /\ ~(<<t, f>> \in Descriptors(m))
    <3>1. <<t, f>> \in Thread \X Fd /\ f \in Open(t)' /\ f \notin Open(t)
      BY <1>2, <1>5
    <3> QED
      BY <1>5, <3>1 DEF Descriptors, Open
  <2>2. /\ ~(t \in RefOf(n)) /\ ~(t \in OpenOf(n)) /\ ~(t \in ReclaimOf(n))
        /\ ~(t \in RefOf(n))' /\ ~(t \in OpenOf(n))' /\ ~(t \in ReclaimOf(n))'
    BY <1>1, <1>3, <1>7 DEF RefOf, OpenOf, ReclaimOf
  <2>3. ref_count[n] \in Int /\ ref_count[n] >= 1
    <3>1. ref_count[n] \in Nat /\ (ref_count[n] = 0 => Descriptors(n) = {})
      BY <1>1, <1>3, Referenced
    <3>2. <<t, e>> \in Descriptors(n)
      BY <1>2, InDescriptors
    <3> QED
      BY <3>1, <3>2
  <2>4. /\ Bit((<<t, f>> \in Descriptors(n))') = 1 /\ Bit(<<t, f>> \in Descriptors(n)) = 0
        /\ Bit((t \in RefOf(n))') = 0 /\ Bit(t \in RefOf(n)) = 0
        /\ Bit((t \in OpenOf(n))') = 0 /\ Bit(t \in OpenOf(n)) = 0
        /\ Bit((t \in ReclaimOf(n))') = 0 /\ Bit(t \in ReclaimOf(n)) = 0
        /\ Bit(ref_count'[n] > 0) = 1 /\ Bit(ref_count[n] > 0) = 1
    BY <1>4, <2>1, <2>2, <2>3 DEF Bit
  <2>5. /\ open_count[n] \in Int /\ reclaim_count[n] \in Int /\ leaked[n].ref \in Nat
    BY <1>1 DEF FileType, NodeType, TableType
  <2>6. /\ ref_count'[n] - ref_count[n] = leaked'[n].ref - leaked[n].ref + (1 - 0) + (0 - 0)
        /\ open_count'[n] - open_count[n] = (1 - 0) + (0 - 0)
        /\ reclaim_count'[n] - reclaim_count[n] = (0 - 0) + (1 - 1)
        /\ ref_count'[n] \in Int /\ open_count'[n] \in Int /\ reclaim_count'[n] \in Int
        /\ leaked'[n].ref \in Nat /\ leaked'[n].open = leaked[n].open
    BY <1>2, <1>4, <2>3, <2>5
  <2>7. /\ \A u \in Thread, g \in Fd : <<u, g>> # <<t, f>> => fd_array'[u][g] = fd_array[u][g]
        /\ \A u \in Thread \ {t} : call'[u] = call[u]
    BY <1>2, <1>5
  <2>8. Counted(n)'
    BY ONLY <1>1, <1>3, <2>4, <2>6, <2>7, CountsMove
  <2>9. \A u \in Thread \ {t} : "vop_kill" \in Left(u) => call[u].node # n
    <3>1. \A u \in Thread : "vop_kill" \in Left(u) => Descriptors(call[u].node) = {}
      BY KillAlone
    <3>2. <<t, e>> \in Descriptors(n)
      BY <1>2, InDescriptors
    <3> QED
      BY <3>1, <3>2
  <2>10. \A m \in Node \ {n} :
           /\ ref_count'[m] = ref_count[m] /\ open_count'[m] = open_count[m]
           /\ reclaim_count'[m] = reclaim_count[m] /\ leaked'[m] = leaked[m]
           /\ (<<t, f>> \in Descriptors(m))' <=> <<t, f>> \in Descriptors(m)
    BY <1>1, <1>2, <1>4, <2>1 DEF FileType, NodeType
  <2>11. leaked'[n].open <= leaked'[n].ref
    BY <1>1, <1>2 DEF CountInv
  <2> QED
    BY <1>1, <1>3, <1>4, <1>7, <2>7, <2>8, <2>9, <2>10, <2>11, CountStep
<1>10. CleanInv'
  BY <1>1, <1>2, <1>4, <1>7, SameClean
<1>11. ~HasFs(t)' /\ ~HasSin(t)'
  BY <1>7 DEF HasFs, HasSin, Loading, InSin
<1>12. SemType' /\ QueueInv' /\ TokenInv'
  BY <1>1, <1>2, <1>7, <1>11, StayTokens
<1> QED
  BY <1>4, <1>6, <1>8, <1>9, <1>10, <1>12, Assembled

(* fd_array_close: the reference of a descriptor becomes that of the call, *)
(* which goes on with vfs_close and fd_array_free.                         *)
CloseRest == {"next_fd", "kfree", "sysfile_open"}

LEMMA CloseSlotStep ==
  ASSUME FileInv, NEW t \in Thread, t \in alive, t # initproc,
         Left(t) \subseteq CloseRest \cup {"load_icode"},
         NEW f \in Open(t), SetSlot(t, f, "FD_CLOSED", fd_array[t][f].node),
         NEW c \in CallSet, NEW R, R \subseteq CloseRest, Ordered(c.steps),
         Elems(c.steps) = CloseSet \cup R, FirstOf(c.steps) = "inode_open_dec",
         c.node = fd_array[t][f].node, c.fd = f,
         "next_fd" \in R => c.todo = Open(t) \ {f}, "sysfile_open" \in R => c.ino \in Ino,
         Some(R, {"kfree", "sysfile_open"}) /\ "next_fd" \notin R => Open(t) = {f},
         call' = [call EXCEPT ![t] = c], UNCHANGED <<semVars, nodeVars, alive, leaked>>
  PROVE  FileInv'
<1> DEFINE L == Left(t)
           M == CloseSet \cup R
<1>1. /\ FileType /\ CallInv /\ CallOK(t) /\ View(Now(t), L) /\ CleanInv /\ CountInv
      /\ Now(t) \in L \cup {"none"}
  <2>1. FileType /\ CallInv /\ CallOK(t) /\ View(Now(t), L) /\ CleanInv /\ CountInv
    BY CallFacts DEF FileInv
  <2> QED
    BY <2>1 DEF View, Order
<1>2. /\ NoBits(L) /\ "vop_kill" \notin L /\ "sfs_sync" \notin L
      /\ Now(t) \in CloseRest \cup {"load_icode", "none"} /\ Now(t) # "sfs_wbuf"
      /\ Now(t) \notin {"woken_sfs_fs", "woken_sin"}
  BY <1>1 DEF NoBits, HasRef, HasOpen, Some, RefSteps, CloseRest
<1> PICK n \in Node : n = fd_array[t][f].node /\ ino[n] # none
  BY <1>1 DEF CallOK, KnowsSlots
<1>3. n # none /\ Counted(n) /\ f \in Fd
  BY <1>1, SfsInodeAssumption DEF CountInv, Open, Slots
<1>4. UNCHANGED <<ino, ref_count, open_count, reclaim_count, dirty, stale, leaked>> /\ NodeType'
  BY <1>1 DEF nodeVars, FileType, NodeType
<1>5. /\ fd_array' \in [Thread -> [Fd -> [status : Status, node : Node \cup {none}]]]
      /\ \A u \in Thread \ {t} : fd_array'[u] = fd_array[u]
      /\ \A g \in Fd \ {f} : fd_array'[t][g] = fd_array[t][g]
      /\ Open(t)' = Open(t) \ {f}
  <2>1. /\ SetSlot(t, f, "FD_CLOSED", n) /\ "FD_CLOSED" \in Status /\ n \in Node \cup {none}
        /\ "FD_CLOSED" # "FD_OPENED"
    BY DEF Status
  <2> QED
    BY <1>1, <1>3, <2>1, SlotSet
<1>6. /\ \A u \in Thread \ {t} : call'[u] = call[u]
      /\ call'[t] = c /\ Left(t)' = M /\ Now(t)' = "inode_open_dec"
  BY <1>1, SameCall
<1>7. TableType'
  BY <1>1, <1>4, <1>5 DEF FileType, TableType
<1>8. /\ Complete(M) /\ M # {} /\ ~Some(M, Loading) /\ HasRef(M) /\ HasOpen(M)
      /\ "sfs_reclaim" \notin M /\ "vop_kill" \notin M /\ "sfs_sync" \notin M
      /\ "fd_array_open" \notin M
      /\ "load_icode" \notin M
      /\ \A x \in CloseRest : x \in M <=> x \in R
  BY DEF Complete, Some, HasRef, HasOpen, Loading, Hows, FsLock, SinLock, RefSteps, CloseSet,
     CloseRest
<1>9. CallInv'
  <2>1. Shape(t)'
    BY <1>6, <1>8 DEF Shape
  <2>2. KnowsNode(t)'
    BY <1>4, <1>6, <1>8 DEF KnowsNode
  <2>3. KnowsSlots(t)'
    <3>1. \A g \in Open(t)' : fd_array'[t][g].node \in Node /\ ino'[fd_array'[t][g].node] # none
      <4> TAKE g \in Open(t)'
      <4>1. g \in Open(t) /\ g \in Fd \ {f}
        BY <1>5 DEF Open, Slots
      <4>2. fd_array[t][g].node \in Node /\ ino[fd_array[t][g].node] # none
        BY <1>1, <4>1 DEF CallOK, KnowsSlots
      <4> QED
        BY <1>4, <1>5, <4>1, <4>2
    <3>2. c.fd \in Fd \ Open(t)'
      BY <1>3, <1>5
    <3>3. /\ "next_fd" \in M <=> "next_fd" \in R
          /\ "sysfile_open" \in M <=> "sysfile_open" \in R
          /\ Some(M, {"kfree", "sysfile_open"}) <=> Some(R, {"kfree", "sysfile_open"})
      BY <1>8 DEF Some, CloseRest
    <3>4. Some(M, {"kfree", "sysfile_open"}) /\ "next_fd" \notin M => Open(t)' = {}
      BY <1>5, <3>3
    <3> QED
      BY <1>5, <1>6, <1>8, <3>1, <3>2, <3>3, <3>4 DEF KnowsSlots
  <2>4. KnowsAlive(t)'
    BY <1>6, <1>8 DEF KnowsAlive
  <2>5. \A u \in Thread \ {t} : CallOK(u)'
    BY <1>1, <1>4, <1>5, <1>6, OthersOK
  <2> QED
    BY <1>1, <2>1, <2>2, <2>3, <2>4, <2>5 DEF CallInv, CallOK
<1>10. CountInv'
  <2>1. /\ ~(<<t, f>> \in Descriptors(n))' /\ <<t, f>> \in Descriptors(n)
        /\ \A m \in Node \ {n} : ~(<<t, f>> \in Descriptors(m))' /\ ~(<<t, f>> \in Descriptors(m))
    <3>1. <<t, f>> \in Thread \X Fd /\ f \notin Open(t)'
      BY <1>3, <1>5
    <3> QED
      BY <3>1 DEF Descriptors, Open
  <2>2. /\ ~(t \in RefOf(n)) /\ ~(t \in OpenOf(n)) /\ ~(t \in ReclaimOf(n))
        /\ (t \in RefOf(n))' /\ (t \in OpenOf(n))' /\ ~(t \in ReclaimOf(n))'
    BY <1>2, <1>6, <1>8 DEF RefOf, OpenOf, ReclaimOf, NoBits
  <2>3. /\ Bit((<<t, f>> \in Descriptors(n))') = 0 /\ Bit(<<t, f>> \in Descriptors(n)) = 1
        /\ Bit((t \in RefOf(n))') = 1 /\ Bit(t \in RefOf(n)) = 0
        /\ Bit((t \in OpenOf(n))') = 1 /\ Bit(t \in OpenOf(n)) = 0
        /\ Bit((t \in ReclaimOf(n))') = 0 /\ Bit(t \in ReclaimOf(n)) = 0
    BY <2>1, <2>2 DEF Bit
  <2>4. /\ ref_count[n] \in Int /\ open_count[n] \in Int /\ reclaim_count[n] \in Int
        /\ leaked[n].ref \in Nat /\ Bit(ref_count[n] > 0) \in Int
    BY <1>1 DEF FileType, NodeType, TableType, Bit
  <2>5. /\ ref_count'[n] - ref_count[n] = leaked'[n].ref - leaked[n].ref + (0 - 1) + (1 - 0)
        /\ open_count'[n] - open_count[n] = (0 - 1) + (1 - 0)
        /\ reclaim_count'[n] - reclaim_count[n]
             = (0 - 0) + (Bit(ref_count'[n] > 0) - Bit(ref_count[n] > 0))
        /\ ref_count'[n] \in Int /\ open_count'[n] \in Int /\ reclaim_count'[n] \in Int
        /\ leaked'[n].ref \in Nat /\ leaked'[n].open = leaked[n].open
    BY <1>4, <2>4
  <2>6. /\ \A u \in Thread, g \in Fd : <<u, g>> # <<t, f>> => fd_array'[u][g] = fd_array[u][g]
        /\ \A u \in Thread \ {t} : call'[u] = call[u]
    BY <1>5, <1>6
  <2>7. Counted(n)'
    BY ONLY <1>1, <1>3, <2>3, <2>5, <2>6, CountsMove
  <2>8. \A u \in Thread \ {t} : "vop_kill" \in Left(u) => call[u].node # n
    <3>1. \A u \in Thread : "vop_kill" \in Left(u) => Descriptors(call[u].node) = {}
      BY KillAlone
    <3> QED
      BY <2>1, <3>1
  <2>9. \A m \in Node \ {n} :
           /\ ref_count'[m] = ref_count[m] /\ open_count'[m] = open_count[m]
           /\ reclaim_count'[m] = reclaim_count[m] /\ leaked'[m] = leaked[m]
           /\ (<<t, f>> \in Descriptors(m))' <=> <<t, f>> \in Descriptors(m)
    BY <1>4, <2>1
  <2>10. /\ call[t].node \in {n, none} \/ NoBits(Left(t))
         /\ call'[t].node \in {n, none} /\ "vop_kill" \notin Left(t)'
         /\ ino' = ino /\ ino[n] # none /\ leaked'[n].open <= leaked'[n].ref
    BY <1>1, <1>2, <1>4, <1>6, <1>8 DEF CountInv
  <2>11. FileInv
    OBVIOUS
  <2> QED
    BY ONLY <2>6, <2>7, <2>8, <2>9, <2>10, <2>11, CountStep
<1>11. CleanInv'
  BY <1>1, <1>2, <1>4, <1>6, <1>8, SameClean
<1>12. ~HasFs(t)' /\ ~HasFs(t) /\ ~HasSin(t)' /\ ~HasSin(t)
  BY <1>2, <1>6, <1>8 DEF HasFs, HasSin, Loading, InSin, CloseRest
<1>13. SemType' /\ QueueInv' /\ TokenInv'
  BY <1>2, <1>6, <1>12, StayTokens
<1> QED
  BY <1>4, <1>7, <1>9, <1>10, <1>11, <1>13, Assembled

(* file_close.                                                             *)
LEMMA FileCloseStep ==
  ASSUME FileInv, NEW t \in Thread, NEW f \in Fd, file_close(t, f)
  PROVE  FileInv'
<1> DEFINE s == vfs_close \o <<"fd_array_free">>
           c == [NoCall EXCEPT !.steps = s, !.node = fd_array[t][f].node, !.fd = f]
<1>1. /\ CallOK(t) /\ Left(t) = {} /\ t \in alive /\ t # initproc
  BY IdleFacts DEF file_close
<1>2. /\ f \in Open(t) /\ SetSlot(t, f, "FD_CLOSED", fd_array[t][f].node)
      /\ call' = [call EXCEPT ![t] = c] /\ UNCHANGED <<semVars, nodeVars, alive, leaked>>
  BY DEF file_close, Open
<1>3. /\ s \in Seq(Steps) /\ Ordered(s) /\ Elems(s) = CloseSet
      /\ FirstOf(s) = "inode_open_dec"
  BY CloseSteps
<1> HIDE DEF s
<1>4. fd_array[t][f].node \in Node
  BY <1>1, <1>2 DEF CallOK, KnowsSlots
<1>5. c \in CallSet /\ c.steps = s /\ c.node = fd_array[t][f].node /\ c.fd = f
  BY <1>3, <1>4 DEF NoCall, CallSet
<1> HIDE DEF c
<1>6. {} \subseteq CloseRest /\ Left(t) \subseteq CloseRest \cup {"load_icode"}
      /\ ~Some({}, {"kfree", "sysfile_open"})
  BY <1>1 DEF Some
<1>7. Elems(c.steps) = CloseSet \cup {}
  BY <1>3, <1>5
<1> QED
  BY <1>1, <1>2, <1>3, <1>5, <1>6, <1>7, CloseSlotStep

(* The loops of files_destroy and files_closeall: the next descriptor.     *)
LEMMA NextOfLoop ==
  ASSUME NEW L, View("next_fd", L)
  PROVE  /\ L \subseteq CloseRest /\ "next_fd" \in L
         /\ \A y \in L \ {"next_fd"} : y \in {"kfree", "sysfile_open"}
  BY DEF View, Order, Follows, Hows, FsLock, Loading, SinLock, Ending, Exec, CloseRest

LEMMA CloseOneStep ==
  ASSUME FileInv, NEW t \in Thread, At(t, "next_fd"), NEW f, f \in call[t].todo,
         SetSlot(t, f, "FD_CLOSED", fd_array[t][f].node),
         call' = [call EXCEPT ![t] = [Replaced(t, vfs_close \o <<"fd_array_free", "next_fd">>)
           EXCEPT !.node = fd_array[t][f].node, !.fd = f, !.todo = @ \ {f}]],
         UNCHANGED <<semVars, nodeVars, alive, leaked>>
  PROVE  FileInv'
<1> DEFINE L == Left(t)
           p == vfs_close \o <<"fd_array_free", "next_fd">>
           d == Replaced(t, p)
           c == [d EXCEPT !.node = fd_array[t][f].node, !.fd = f, !.todo = @ \ {f}]
<1>1. Now(t) = "next_fd"
  BY AtNow
<1>2. FileType /\ CallInv /\ CallOK(t) /\ Shape(t) /\ View("next_fd", L) /\ Now(t) # "none"
  BY <1>1, CallFacts DEF FileInv, CallOK
<1>3. /\ L \subseteq CloseRest /\ "next_fd" \in L
      /\ \A y \in L \ {"next_fd"} : y \in {"kfree", "sysfile_open"}
  BY <1>2, NextOfLoop
<1>4. t \in alive /\ t # initproc
  <2>1. "sfs_sync" \notin L /\ call[t] # NoCall
    BY <1>2, <1>3, CallFacts DEF CloseRest
  <2> QED
    BY <1>2, <2>1 DEF CallOK, KnowsAlive
<1>5. f \in Open(t) /\ call[t].todo = Open(t) /\ fd_array[t][f].node \in Node /\ f \in Fd
  <2>1. f \in Open(t) /\ call[t].todo = Open(t)
    BY <1>2, <1>3 DEF CallOK, KnowsSlots
  <2> QED
    BY <1>2, <2>1 DEF CallOK, KnowsSlots, Open, Slots
<1>6. /\ p \in Seq(Steps) /\ Ordered(p) /\ Elems(p) = CloseSet \cup {"next_fd"}
      /\ p # <<>> /\ Head(p) = "inode_open_dec"
  <2> DEFINE q == <<"fd_array_free", "next_fd">>
  <2>1. "fd_array_free" \in Steps /\ "next_fd" \in Steps /\ Follows("fd_array_free", "next_fd")
    BY DEF Steps, Ending, Exec, Follows
  <2>2. q \in Seq(Steps) /\ Ordered(q) /\ Elems(q) = {"fd_array_free", "next_fd"}
    BY <2>1, Prefix2
  <2>3. Elems(q) \subseteq Ending
    BY <2>2 DEF Ending, Exec
  <2> HIDE DEF q
  <2>4. /\ vfs_close \o q \in Seq(Steps) /\ Ordered(vfs_close \o q)
        /\ Elems(vfs_close \o q) = {"inode_open_dec", "inode_ref_dec"} \cup Elems(q)
        /\ vfs_close \o q # <<>> /\ Head(vfs_close \o q) = "inode_open_dec"
    BY <2>2, <2>3, CloseFirst
  <2> QED
    BY <2>2, <2>4 DEF q, CloseSet
<1> HIDE DEF p
<1>7. \A x \in Elems(p), y \in L \ {Now(t)} : Follows(x, y)
  BY <1>1, <1>3, <1>6 DEF Follows, CloseSet, Ending, Exec
<1>8. After(t, d, Elems(p)) /\ FirstOf(d.steps) = "inode_open_dec"
  BY <1>1, <1>2, <1>6, <1>7, ReplaceWith
<1>9. call' = [call EXCEPT ![t] = c]
  BY DEF p
<1> HIDE DEF d
<1> DEFINE R == L
<1>10. Elems(d.steps) = CloseSet \cup R /\ Ordered(d.steps) /\ d \in CallSet
       /\ d.todo = Open(t) /\ d.ino = call[t].ino
  <2>1. Elems(d.steps) = Elems(p) \cup (L \ {"next_fd"})
    BY <1>1, <1>8 DEF After
  <2>2. Elems(d.steps) = CloseSet \cup R
    BY <1>3, <1>6, <2>1
  <2> QED
    BY <1>5, <1>8, <2>2, <1>3 DEF After, Keeps
<1>11. /\ c \in CallSet /\ c.steps = d.steps /\ c.node = fd_array[t][f].node /\ c.fd = f
       /\ c.todo = Open(t) \ {f} /\ c.ino = call[t].ino
  BY <1>5, <1>10 DEF CallSet
<1> HIDE DEF c
<1>12. /\ Ordered(c.steps) /\ Elems(c.steps) = CloseSet \cup L
       /\ FirstOf(c.steps) = "inode_open_dec" /\ c.todo = Open(t) \ {f}
       /\ c.node = fd_array[t][f].node /\ c.fd = f /\ c \in CallSet
       /\ "sysfile_open" \in L => c.ino \in Ino
  BY <1>2, <1>8, <1>10, <1>11 DEF CallOK, KnowsSlots
<1>13. /\ FileInv /\ SetSlot(t, f, "FD_CLOSED", fd_array[t][f].node)
       /\ UNCHANGED <<semVars, nodeVars, alive, leaked>>
       /\ L \subseteq CloseRest \cup {"load_icode"}
  BY <1>3
<1> HIDE DEF L
<1> QED
  BY ONLY <1>3, <1>4, <1>5, <1>9, <1>12, <1>13, CloseSlotStep DEF L

(* What is left of a loop when its descriptors are closed.                 *)
LEMMA LoopFacts ==
  ASSUME FileInv, NEW t \in Thread, Now(t) \in CloseRest
  PROVE  /\ FileType /\ CallInv /\ CallOK(t) /\ Shape(t) /\ View(Now(t), Left(t)) /\ CleanInv
         /\ CountInv /\ Left(t) \subseteq CloseRest /\ Now(t) \in Left(t)
         /\ Now(t) \in {"kfree", "sysfile_open"} => Left(t) = {Now(t)}
         /\ t \in alive /\ t # initproc /\ Now(t) # "none" /\ Now(t) # "sfs_wbuf"
         /\ Now(t) \notin {"woken_sfs_fs", "woken_sin"} /\ ~HasFs(t) /\ ~HasSin(t)
<1> DEFINE L == Left(t)
<1>1. /\ FileType /\ CallInv /\ CallOK(t) /\ Shape(t) /\ View(Now(t), L) /\ CleanInv
      /\ CountInv
  BY CallFacts DEF FileInv, CallOK
<1>2. /\ L \subseteq CloseRest /\ Now(t) \in L
      /\ Now(t) \in {"kfree", "sysfile_open"} => L = {Now(t)}
  BY <1>1 DEF View, Order, Follows, Hows, FsLock, Loading, SinLock, Ending, Exec, CloseRest
<1>3. /\ Now(t) # "none" /\ Now(t) # "sfs_wbuf" /\ Now(t) \notin {"woken_sfs_fs", "woken_sin"}
  BY DEF CloseRest
<1>4. t \in alive /\ t # initproc
  <2>1. "sfs_sync" \notin L /\ call[t] # NoCall
    BY <1>1, <1>2, CallFacts DEF CloseRest
  <2> QED
    BY <1>1, <2>1 DEF CallOK, KnowsAlive
<1>5. ~HasFs(t) /\ ~HasSin(t)
  BY <1>2 DEF HasFs, HasSin, CloseRest, Loading, InSin
<1> QED
  BY <1>1, <1>2, <1>3, <1>4, <1>5

LEMMA CloseDoneStep ==
  ASSUME FileInv, NEW t \in Thread, GoesOn(t, <<>>),
         \/ At(t, "next_fd") /\ call[t].todo = {} /\ UNCHANGED alive
         \/ At(t, "kfree") /\ alive' = alive \ {t},
         UNCHANGED <<semVars, nodeVars, fd_array, leaked>>
  PROVE  FileInv'
<1> DEFINE c == Replaced(t, <<>>)
           L == Left(t)
           M == Elems(c.steps)
           N == FirstOf(c.steps)
<1>1. Now(t) \in CloseRest
  BY AtNow DEF CloseRest
<1>2. /\ FileType /\ CallInv /\ CallOK(t) /\ Shape(t) /\ CleanInv /\ CountInv
      /\ L \subseteq CloseRest /\ Now(t) \in L
      /\ Now(t) \in {"kfree", "sysfile_open"} => L = {Now(t)}
      /\ t \in alive /\ t # initproc /\ Now(t) # "none" /\ Now(t) # "sfs_wbuf"
      /\ Now(t) \notin {"woken_sfs_fs", "woken_sin"} /\ ~HasFs(t) /\ ~HasSin(t)
  BY <1>1, LoopFacts
<1>3. After(t, c, {}) /\ call' = [call EXCEPT ![t] = c]
  BY <1>2, Replace0 DEF GoesOn
<1> HIDE DEF c
<1>4. /\ M = L \ {Now(t)} /\ Keeps(t, c) /\ Order(N, M) /\ N \in M \cup {"none"}
      /\ M = {} => c = NoCall
      /\ M # {} => /\ c.node = call[t].node /\ c.fd = call[t].fd
                   /\ c.todo = call[t].todo /\ c.ino = call[t].ino
  BY <1>3 DEF After, Keeps, Order
<1>5. M \subseteq CloseRest /\ N \in CloseRest \cup {"none"}
  BY <1>2, <1>4
<1>6. /\ \A u \in Thread \ {t} : call'[u] = call[u]
      /\ call'[t] = c /\ Left(t)' = M /\ Now(t)' = N
  BY <1>2, <1>3, SameCall
<1>7. UNCHANGED <<ino, ref_count, open_count, reclaim_count, dirty, stale, leaked>>
  BY DEF nodeVars
<1>8. alive' \subseteq alive /\ alive \ {t} \subseteq alive' /\ initproc \in alive'
  BY <1>2 DEF CallInv
<1>9. TableType' /\ NodeType'
  BY <1>2, <1>3, <1>4, <1>7, <1>8 DEF FileType, TableType, NodeType, Keeps
<1>10. Open(t)' = Open(t) /\ fd_array' = fd_array
  BY DEF Open, Slots
<1>11. CallInv'
  <2>1. Shape(t)'
    BY <1>4, <1>5, <1>6 DEF Shape, Keeps, Complete, Some, Loading, Hows, FsLock, SinLock, CloseRest
  <2>2. NoCall.node = none
    BY DEF NoCall
  <2>3. ~Some(M, Loading) /\ ~Some(M, NodeSteps)
    BY <1>5 DEF Some, CloseRest, Loading, NodeSteps, RefSteps, SinLock, InSin, Exec
  <2>4. ASSUME call'[t].node # none
        PROVE  /\ ino'[call'[t].node] # none
               /\ \E f \in Open(t)' : fd_array'[t][f].node = call'[t].node
    <3>1. call'[t].node = call[t].node
      BY <1>4, <1>6, <2>2, <2>4
    <3>2. /\ ino[call[t].node] # none
          /\ \/ HasRef(L) \/ Some(L, {"sfs_reclaim", "vop_kill", "failed_unlock", "sfs_sync"})
             \/ \E f \in Open(t) : fd_array[t][f].node = call[t].node
      BY <1>2, <2>4, <3>1 DEF CallOK, KnowsNode
    <3>3. ~HasRef(L) /\ ~Some(L, {"sfs_reclaim", "vop_kill", "failed_unlock", "sfs_sync"})
      BY <1>2 DEF HasRef, Some, RefSteps, CloseRest
    <3> QED
      BY <1>7, <1>10, <3>1, <3>2, <3>3
  <2>5. KnowsNode(t)'
    BY <1>6, <2>3, <2>4 DEF KnowsNode
  <2>6. Open(t) = {}
    <3>1. CASE At(t, "next_fd") /\ call[t].todo = {}
      <4>1. Now(t) = "next_fd"
        BY <3>1, AtNow
      <4> QED
        BY <1>2, <3>1, <4>1 DEF CallOK, KnowsSlots
    <3>3. CASE At(t, "kfree")
      <4>1. Now(t) = "kfree" /\ L = {"kfree"}
        BY <1>2, <3>3, AtNow
      <4> QED
        BY <1>2, <4>1 DEF CallOK, KnowsSlots, Some
    <3> QED
      BY <3>1, <3>3
  <2>7. "next_fd" \notin M /\ "fd_array_open" \notin M /\ "fd_array_free" \notin M
        /\ "sfs_sync" \notin M /\ "load_icode" \notin M
    <3>1. "next_fd" \notin M
      <4>1. CASE Now(t) = "next_fd"
        BY <1>4, <4>1
      <4>2. CASE Now(t) # "next_fd"
        BY <1>1, <1>2, <1>4, <4>2 DEF CloseRest
      <4> QED
        BY <4>1, <4>2
    <3> QED
      BY <1>5, <3>1 DEF CloseRest
  <2>8. KnowsSlots(t)'
    <3>1. "sysfile_open" \in M => c.ino \in Ino
      BY <1>2, <1>4 DEF CallOK, KnowsSlots
    <3> QED
      BY <1>2, <1>6, <1>7, <1>10, <2>6, <2>7, <3>1 DEF CallOK, KnowsSlots
  <2>9. ASSUME t \notin alive' PROVE call'[t] = NoCall
    <3>1. Now(t) = "kfree"
      BY <1>2, <2>9, AtNow
    <3> QED
      BY <1>2, <1>4, <1>6, <3>1
  <2>10. KnowsAlive(t)'
    BY <1>2, <1>6, <1>10, <2>6, <2>7, <2>9 DEF KnowsAlive
  <2>11. \A u \in Thread \ {t} : CallOK(u)'
    <3>1. \A u \in Thread \ {t} : u \in alive' <=> u \in alive
      BY <1>8
    <3>2. alive # {}
      BY <1>2
    <3> QED
      BY <1>2, <1>6, <1>7, <3>1, <3>2, OthersOK
  <2> QED
    BY <1>8, <2>1, <2>5, <2>8, <2>10, <2>11 DEF CallInv, CallOK
<1>12. NoBits(Left(t)) /\ NoBits(Left(t)') /\ "vop_kill" \notin M
  <2>1. \A S : S \subseteq CloseRest => NoBits(S)
    BY DEF NoBits, HasRef, HasOpen, Some, RefSteps, CloseRest
  <2> QED
    BY <1>2, <1>5, <1>6, <2>1 DEF CloseRest
<1>13. CountInv'
  BY <1>2, <1>6, <1>7, <1>10, <1>12, SameCounts
<1>14. CleanInv'
  BY <1>2, <1>5, <1>6, <1>7, <1>12, SameClean DEF CloseRest
<1>15. ~HasFs(t)' /\ ~HasSin(t)'
  BY <1>5, <1>6 DEF HasFs, HasSin, Loading, InSin, CloseRest
<1>16. SemType' /\ QueueInv' /\ TokenInv'
  BY <1>2, <1>6, <1>15, StayTokens
<1> QED
  BY <1>9, <1>11, <1>13, <1>14, <1>16, Assembled

LEMMA CloseStep ==
  ASSUME FileInv, NEW t \in Thread, CloseNext(t)
  PROVE  FileInv'
<1>1. UNCHANGED <<semVars, nodeVars, leaked>>
  BY DEF CloseNext
<1>2. CASE /\ At(t, "next_fd") /\ UNCHANGED alive
           /\ \E f \in call[t].todo :
                /\ SetSlot(t, f, "FD_CLOSED", fd_array[t][f].node)
                /\ call' = [call EXCEPT ![t] = [Replaced(t, vfs_close \o <<"fd_array_free", "next_fd">>)
                     EXCEPT !.node = fd_array[t][f].node, !.fd = f, !.todo = @ \ {f}]]
  BY <1>1, <1>2, CloseOneStep
<1>3. CASE /\ GoesOn(t, <<>>) /\ UNCHANGED fd_array
           /\ \/ At(t, "next_fd") /\ call[t].todo = {} /\ UNCHANGED alive
              \/ At(t, "kfree") /\ alive' = alive \ {t}
  BY <1>1, <1>3, CloseDoneStep
<1> QED
  BY <1>2, <1>3 DEF CloseNext
-----------------------------------------------------------------------------
(* do_execve: the steps of the program's open and of load_icode.           *)
ProgramSteps ==
  <<"lock_sfs_fs", "sfs_load_inode", "plain", "fd_array_open", "load_icode_read", "load_icode">>
ProgramSet ==
  {"lock_sfs_fs", "sfs_load_inode", "plain", "fd_array_open", "load_icode_read", "load_icode"}

LEMMA ProgramOrder ==
  /\ ProgramSteps \in Seq(Steps) /\ Ordered(ProgramSteps) /\ Elems(ProgramSteps) = ProgramSet
  /\ FirstOf(ProgramSteps) = "lock_sfs_fs"
<1> DEFINE p == <<"lock_sfs_fs", "sfs_load_inode", "plain", "fd_array_open">>
           q == <<"load_icode_read", "load_icode">>
<1>1. /\ "lock_sfs_fs" \in Steps /\ "sfs_load_inode" \in Steps /\ "plain" \in Steps
      /\ "fd_array_open" \in Steps /\ "load_icode_read" \in Steps /\ "load_icode" \in Steps
  BY DEF Steps, NodeSteps, RefSteps, FsLock, Loading, Exec
<1>2. /\ Follows("lock_sfs_fs", "sfs_load_inode") /\ Follows("lock_sfs_fs", "plain")
      /\ Follows("sfs_load_inode", "plain") /\ Follows("lock_sfs_fs", "fd_array_open")
      /\ Follows("sfs_load_inode", "fd_array_open") /\ Follows("plain", "fd_array_open")
      /\ Follows("load_icode_read", "load_icode")
  BY DEF Follows, FsLock, Loading, Hows
<1>3. /\ p \in Seq(Steps) /\ Ordered(p) /\ p # <<>> /\ Head(p) = "lock_sfs_fs"
      /\ Elems(p) = {"lock_sfs_fs", "sfs_load_inode", "plain", "fd_array_open"}
  BY <1>1, <1>2, Prefix4
<1>4. q \in Seq(Steps) /\ Ordered(q) /\ Elems(q) = Exec
  BY <1>1, <1>2, Prefix2 DEF Exec
<1>5. ProgramSteps = p \o q
  BY DEF ProgramSteps
<1> HIDE DEF p, q
<1>6. \A x \in Elems(p), y \in Elems(q) : Follows(x, y)
  BY <1>3, <1>4 DEF Follows, FsLock, Loading
<1>7. /\ ProgramSteps \in Seq(Steps) /\ Ordered(ProgramSteps)
      /\ Elems(ProgramSteps) = Elems(p) \cup Elems(q)
      /\ ProgramSteps # <<>> /\ Head(ProgramSteps) = "lock_sfs_fs"
  BY <1>3, <1>4, <1>5, <1>6, OrderedConcat
<1> QED
  BY <1>3, <1>4, <1>7 DEF FirstOf, ProgramSet, Exec

LEMMA ProgramStep ==
  ASSUME FileInv, NEW t \in Thread, sysfile_open(t)
  PROVE  FileInv'
<1>1. Now(t) = "sysfile_open" /\ UNCHANGED <<semVars, nodeVars, alive, leaked>>
  BY AtNow DEF sysfile_open
<1>2. /\ FileType /\ CallInv /\ CallOK(t) /\ Shape(t) /\ CleanInv /\ CountInv
      /\ Left(t) = {"sysfile_open"} /\ t \in alive /\ t # initproc /\ ~HasFs(t) /\ ~HasSin(t)
  BY <1>1, LoopFacts DEF CloseRest
<1>3. Open(t) = {} /\ call[t].ino \in Ino
  BY <1>2 DEF CallOK, KnowsSlots, Some
<1>4. NoBits(Left(t)) /\ call[t].node = none
  BY <1>2, <1>3 DEF CallOK, KnowsNode, NoBits, HasRef, HasOpen, RefSteps, Some
<1>5. ASSUME NEW f \in Fd, FirstFree(t, f), SetSlot(t, f, "FD_INIT", none),
             call' = [call EXCEPT ![t] = [@ EXCEPT !.steps = ProgramSteps, !.fd = f]]
      PROVE  FileInv'
  <2> DEFINE c == [call[t] EXCEPT !.steps = ProgramSteps, !.fd = f]
  <2>1. call' = [call EXCEPT ![t] = c]
    BY <1>5
  <2>2. /\ c \in CallSet /\ c.steps = ProgramSteps /\ c.node = none /\ c.fd = f
        /\ c.ino \in Ino
    <3>1. call[t] \in CallSet
      BY <1>2 DEF FileType, TableType
    <3>2. c \in CallSet /\ c.steps = ProgramSteps /\ c.node = call[t].node /\ c.fd = f
          /\ c.ino = call[t].ino
      BY <3>1, ProgramOrder DEF CallSet
    <3> QED
      BY <1>3, <1>4, <3>2
  <2> HIDE DEF c
  <2>3. /\ Complete(ProgramSet) /\ Some(ProgramSet, Loading) /\ ProgramSet # {}
        /\ "next_fd" \notin ProgramSet /\ ~Some(ProgramSet, {"kfree", "sysfile_open"})
        /\ "sysfile_open" \notin ProgramSet /\ "fd_array_open" \in ProgramSet
        /\ "fd_array_free" \notin ProgramSet /\ "sfs_sync" \notin ProgramSet
        /\ "vop_kill" \notin ProgramSet
    BY DEF ProgramSet, Complete, Some, Loading, Hows, FsLock, SinLock
  <2>4. Fresh(t, c, ProgramSet, "lock_sfs_fs")
    BY <1>3, <2>2, <2>3, ProgramOrder DEF Fresh
  <2>5. /\ fd_array' \in [Thread -> [Fd -> [status : Status, node : Node \cup {none}]]]
        /\ \A u \in Thread \ {t} : fd_array'[u] = fd_array[u]
        /\ Open(t)' = Open(t) \ {f}
    <3>1. "FD_INIT" \in Status /\ "FD_INIT" # "FD_OPENED" /\ none \in Node \cup {none}
      BY DEF Status
    <3> QED
      BY <1>2, <1>5, <3>1, SlotSet
  <2> QED
    BY <1>1, <1>2, <1>3, <1>4, <2>1, <2>4, <2>5, BeginStep
<1>6. ASSUME GoesOn(t, <<"kfree">>), UNCHANGED fd_array PROVE FileInv'
  <2> DEFINE c == Replaced(t, <<"kfree">>)
             M == Elems(c.steps)
  <2>1. /\ After(t, c, {"kfree"}) /\ FirstOf(c.steps) = "kfree"
        /\ call' = [call EXCEPT ![t] = c]
    <3>1. "kfree" \in Steps
      BY DEF Steps, Ending
    <3> QED
      BY <1>1, <1>2, <1>6, <3>1, Replace1 DEF GoesOn
  <2> HIDE DEF c
  <2>2. Keeps(t, c) /\ M = {"kfree"}
    BY <1>1, <1>2, <2>1 DEF After
  <2>3. /\ Continues(Left(t), M) /\ SameBits(Left(t), M) /\ "vop_kill" \notin M
    <3> DEFINE K == {"sysfile_open"}
               E == {"kfree"}
    <3>1. /\ ~Some(K, Loading) /\ ~Some(E, Loading) /\ ~Some(E, NodeSteps) /\ ~Some(K, KeepSteps)
          /\ ~HasRef(K) /\ ~HasRef(E) /\ ~HasOpen(K) /\ ~HasOpen(E)
      BY DEF HasRef, HasOpen, RefSteps, Some, Loading, SinLock, NodeSteps, InSin, Exec, KeepSteps
    <3>2. Complete(E)
      BY DEF Complete, Some, Loading, Hows, FsLock, SinLock
    <3>3. Some(K, {"kfree", "sysfile_open"}) /\ "next_fd" \notin K
      BY DEF Some
    <3> QED
      BY <1>2, <2>2, <3>1, <3>2, <3>3 DEF Continues, SameBits
  <2>4. /\ \A u \in Thread \ {t} : call'[u] = call[u]
        /\ call'[t] = c /\ Left(t)' = M /\ Now(t)' = "kfree"
    BY <1>2, <2>1, SameCall
  <2>5. /\ UNCHANGED <<ino, ref_count, open_count, reclaim_count, leaked, alive, dirty, stale>>
        /\ Open(t)' = Open(t) /\ NodeType'
        /\ fd_array' \in [Thread -> [Fd -> [status : Status, node : Node \cup {none}]]]
    BY <1>1, <1>2, <1>6 DEF nodeVars, Open, Slots, FileType, NodeType, TableType
  <2>6. TableType' /\ CallInv' /\ CountInv'
    BY <1>1, <1>6, <2>1, <2>2, <2>3, <2>5, LightStep
  <2>7. CleanInv'
    BY <1>1, <1>2, <2>2, <2>4, <2>5, SameClean
  <2>8. ~HasFs(t)' /\ ~HasSin(t)'
    BY <2>2, <2>4 DEF HasFs, HasSin, Loading, InSin
  <2>9. SemType' /\ QueueInv' /\ TokenInv'
    BY <1>1, <1>2, <2>4, <2>8, StayTokens
  <2> QED
    BY <2>5, <2>6, <2>7, <2>9, Assembled
<1> QED
  BY <1>5, <1>6 DEF sysfile_open, ProgramSteps

(* load_icode reads its program.                                           *)
LEMMA ReadStep ==
  ASSUME FileInv, NEW t \in Thread, load_icode_read(t)
  PROVE  FileInv'
<1>1. /\ Now(t) = "load_icode_read" /\ UNCHANGED <<semVars, nodeVars, alive, fd_array, leaked>>
      /\ GoesOn(t, <<"lock_sin", "sfs_io_nolock">>)
  BY AtNow DEF load_icode_read
<1> DEFINE c == Replaced(t, <<"lock_sin", "sfs_io_nolock">>)
           L == Left(t)
           M == Elems(c.steps)
           P == {"lock_sin", "sfs_io_nolock"}
           K == {"load_icode_read", "load_icode"}
           E == {"lock_sin", "sfs_io_nolock", "load_icode"}
<1>2. /\ FileType /\ CallInv /\ Shape(t) /\ View(Now(t), L) /\ CleanInv
      /\ Now(t) # "none" /\ L = K
  <2>1. FileType /\ CallInv /\ CallOK(t) /\ View(Now(t), L) /\ CleanInv
    BY CallFacts DEF FileInv
  <2>2. Order(Now(t), L) /\ Now(t) \in L
    BY <1>1, <2>1 DEF View, Order
  <2>3. L \ {Now(t)} = {"load_icode"}
    BY <1>1, <2>1, <2>2 DEF View, Order, Follows, Complete, Hows, FsLock, Loading, SinLock, Exec
  <2> QED
    BY <1>1, <2>1, <2>2, <2>3 DEF CallOK
<1>3. /\ call' = [call EXCEPT ![t] = c] /\ After(t, c, P) /\ FirstOf(c.steps) = "lock_sin"
  <2>1. /\ "lock_sin" \in Steps /\ "sfs_io_nolock" \in Steps
        /\ Follows("lock_sin", "sfs_io_nolock")
        /\ Follows("lock_sin", "load_icode") /\ Follows("sfs_io_nolock", "load_icode")
    BY DEF Steps, NodeSteps, SinLock, InSin, Follows, Exec
  <2> QED
    BY <1>1, <1>2, <2>1, Replace2 DEF GoesOn
<1> HIDE DEF c
<1>4. Keeps(t, c) /\ M = E
  BY <1>1, <1>2, <1>3 DEF After
<1>5. Continues(L, M) /\ SameBits(L, M) /\ "vop_kill" \notin M
  <2>1. /\ ~Some(K, Loading) /\ ~Some(E, Loading) /\ Some(K, NodeSteps) /\ ~Some(K, KeepSteps)
        /\ ~HasRef(K) /\ ~HasRef(E) /\ ~HasOpen(K) /\ ~HasOpen(E)
    BY DEF HasRef, HasOpen, RefSteps, Some, Loading, SinLock, NodeSteps, InSin, Exec, KeepSteps
  <2>2. Complete(E)
    BY DEF Complete, Some, Loading, Hows, FsLock, SinLock
  <2>3. ~Some(E, {"kfree", "sysfile_open"})
    BY DEF Some
  <2> QED
    BY <1>2, <1>4, <2>1, <2>2, <2>3 DEF Continues, SameBits
<1>6. /\ \A u \in Thread \ {t} : call'[u] = call[u]
      /\ call'[t] = c /\ Left(t)' = E /\ Now(t)' = "lock_sin"
  BY <1>2, <1>3, <1>4, SameCall
<1>7. /\ UNCHANGED <<ino, ref_count, open_count, reclaim_count, leaked, alive, dirty, stale, fd_array>>
      /\ Open(t)' = Open(t) /\ NodeType'
      /\ fd_array' \in [Thread -> [Fd -> [status : Status, node : Node \cup {none}]]]
  BY <1>1, <1>2 DEF nodeVars, Open, Slots, FileType, NodeType, TableType
<1>8. TableType' /\ CallInv' /\ CountInv'
  BY <1>2, <1>3, <1>4, <1>5, <1>7, LightStep
<1>9. CleanInv'
  BY <1>1, <1>2, <1>6, <1>7, SameClean
<1>10. ~HasFs(t) /\ ~HasSin(t) /\ ~HasFs(t)' /\ ~HasSin(t)'
  BY <1>1, <1>2, <1>6 DEF HasFs, HasSin, Loading, InSin, FsLock
<1>11. SemType' /\ QueueInv' /\ TokenInv'
  BY <1>1, <1>6, <1>10, StayTokens
<1> QED
  BY <1>7, <1>8, <1>9, <1>11, Assembled

(* load_icode is the last step, and the program its only open descriptor.  *)
LEMMA IcodeFacts ==
  ASSUME FileInv, NEW t \in Thread, At(t, "load_icode")
  PROVE  /\ FileType /\ CallInv /\ CallOK(t) /\ Shape(t) /\ CleanInv /\ CountInv
         /\ Now(t) = "load_icode" /\ Left(t) = {"load_icode"} /\ Open(t) = {call[t].fd}
         /\ call[t].fd \in Fd /\ call[t].node \in Node /\ ino[call[t].node] # none
         /\ fd_array[t][call[t].fd].node = call[t].node /\ call[t].node # none
         /\ t \in alive /\ t # initproc /\ ~HasFs(t) /\ ~HasSin(t)
<1>1. /\ FileType /\ CallInv /\ CallOK(t) /\ View(Now(t), Left(t)) /\ CleanInv /\ CountInv
      /\ Now(t) = "load_icode"
  BY CallFacts, AtNow DEF FileInv
<1>2. Left(t) = {"load_icode"}
  <2>1. Now(t) \in Left(t)
    BY <1>1 DEF View, Order
  <2>2. Left(t) \subseteq {Now(t)}
    BY <1>1, NothingNext
  <2> QED
    BY <1>1, <2>1, <2>2
<1>3. Open(t) = {call[t].fd} /\ fd_array[t][call[t].fd].node = call[t].node
  BY <1>1, <1>2 DEF CallOK, KnowsSlots
<1>4. call[t].fd \in Fd /\ call[t].node \in Node /\ ino[call[t].node] # none
  BY <1>1, <1>3 DEF CallOK, KnowsSlots, Open, Slots
<1>5. t \in alive /\ t # initproc
  <2>1. "sfs_sync" \notin Left(t) /\ call[t] # NoCall
    BY <1>1, <1>2, CallFacts
  <2> QED
    BY <1>1, <2>1 DEF CallOK, KnowsAlive
<1>6. ~HasFs(t) /\ ~HasSin(t)
  BY <1>1, <1>2 DEF HasFs, HasSin, Loading, InSin, FsLock
<1> QED
  BY <1>1, <1>2, <1>3, <1>4, <1>5, <1>6, SfsInodeAssumption DEF CallOK

(* It closes the program.                                                  *)
LEMMA IcodeCloseStep ==
  ASSUME FileInv, NEW t \in Thread, At(t, "load_icode"),
         SetSlot(t, call[t].fd, "FD_CLOSED", call[t].node),
         NEW last, last = <<>> \/ last = <<"kfree">>,
         GoesOn(t, vfs_close \o <<"fd_array_free">> \o last),
         UNCHANGED <<semVars, nodeVars, alive, leaked>>
  PROVE  FileInv'
<1> DEFINE p == vfs_close \o <<"fd_array_free">> \o last
           c == Replaced(t, p)
           R == Elems(last)
<1>1. /\ FileType /\ Shape(t)
      /\ Now(t) = "load_icode" /\ Left(t) = {"load_icode"} /\ Open(t) = {call[t].fd}
      /\ fd_array[t][call[t].fd].node = call[t].node
      /\ t \in alive /\ t # initproc
  BY IcodeFacts
<1>2. last \in Seq(Steps) /\ Ordered(last) /\ R \subseteq {"kfree"}
  <2>1. "kfree" \in Steps
    BY DEF Steps, Ending
  <2> QED
    <3>1. CASE last = <<>>
      BY <3>1 DEF Ordered, Elems
    <3>2. CASE last = <<"kfree">>
      BY <2>1, <3>2, Prefix1
    <3> QED
      BY <3>1, <3>2
<1>3. /\ p \in Seq(Steps) /\ Ordered(p) /\ Elems(p) = CloseSet \cup R
      /\ p # <<>> /\ Head(p) = "inode_open_dec"
  <2> DEFINE q == vfs_close \o <<"fd_array_free">>
  <2>1. /\ q \in Seq(Steps) /\ Ordered(q) /\ Elems(q) = CloseSet
        /\ q # <<>> /\ Head(q) = "inode_open_dec"
    BY CloseSteps DEF FirstOf
  <2> HIDE DEF q
  <2>2. \A x \in Elems(q), y \in R : Follows(x, y)
    BY <1>2, <2>1 DEF Follows, CloseSet, Ending
  <2>3. /\ q \o last \in Seq(Steps) /\ Ordered(q \o last) /\ Elems(q \o last) = CloseSet \cup R
        /\ q \o last # <<>> /\ Head(q \o last) = "inode_open_dec"
    BY <1>2, <2>1, <2>2, OrderedConcat
  <2> QED
    BY <2>3 DEF q
<1> HIDE DEF p
<1>4. After(t, c, Elems(p)) /\ FirstOf(c.steps) = "inode_open_dec"
  BY <1>1, <1>3, ReplaceWith
<1>5. call' = [call EXCEPT ![t] = c]
  BY DEF GoesOn, p
<1> HIDE DEF c
<1>6. /\ c \in CallSet /\ Ordered(c.steps) /\ Elems(c.steps) = CloseSet \cup R
      /\ c.node = call[t].node /\ c.fd = call[t].fd
  <2>1. Elems(c.steps) = CloseSet \cup R
    BY <1>1, <1>3, <1>4 DEF After
  <2> QED
    BY <1>4, <2>1 DEF After, Keeps, CloseSet
<1>7. /\ R \subseteq CloseRest /\ "next_fd" \notin R /\ "sysfile_open" \notin R
      /\ Left(t) \subseteq CloseRest \cup {"load_icode"}
  BY <1>1, <1>2 DEF CloseRest
<1> PICK f \in Open(t) : f = call[t].fd
  BY <1>1
<1>8. /\ SetSlot(t, f, "FD_CLOSED", fd_array[t][f].node) /\ Open(t) = {f}
      /\ c.node = fd_array[t][f].node /\ c.fd = f /\ FileInv
      /\ UNCHANGED <<semVars, nodeVars, alive, leaked>>
  BY <1>1, <1>6
<1> HIDE DEF R
<1> QED
  BY ONLY <1>1, <1>4, <1>5, <1>6, <1>7, <1>8, CloseSlotStep

(* It fails before: descriptor and table are lost.                         *)
LEMMA IcodeLeakStep ==
  ASSUME FileInv, NEW t \in Thread, At(t, "load_icode"),
         LeftOpen(call[t].node), SetSlot(t, call[t].fd, "FD_NONE", none),
         alive' = alive \ {t}, call' = [call EXCEPT ![t] = NoCall],
         UNCHANGED <<semVars, nodeVars>>
  PROVE  FileInv'
<1> PICK f \in Fd : f = call[t].fd
  BY IcodeFacts
<1> PICK n \in Node : n = call[t].node
  BY IcodeFacts
<1>1. /\ FileType /\ CallInv /\ CallOK(t) /\ CleanInv /\ CountInv
      /\ Now(t) = "load_icode" /\ Left(t) = {"load_icode"} /\ Open(t) = {f}
      /\ fd_array[t][f].node = n /\ ino[n] # none /\ n # none
      /\ t \in alive /\ t # initproc /\ ~HasFs(t) /\ ~HasSin(t)
  BY IcodeFacts
<1>2. UNCHANGED <<ino, ref_count, open_count, reclaim_count, dirty, stale>> /\ NodeType'
  BY <1>1 DEF nodeVars, FileType, NodeType
<1>3. /\ fd_array' \in [Thread -> [Fd -> [status : Status, node : Node \cup {none}]]]
      /\ \A u \in Thread \ {t} : fd_array'[u] = fd_array[u]
      /\ \A g \in Fd \ {f} : fd_array'[t][g] = fd_array[t][g]
      /\ Open(t)' = {}
  <2>1. "FD_NONE" \in Status /\ "FD_NONE" # "FD_OPENED" /\ none \in Node \cup {none}
        /\ SetSlot(t, f, "FD_NONE", none)
    BY DEF Status
  <2>2. Open(t)' = Open(t) \ {f}
    BY <1>1, <2>1, SlotSet
  <2> QED
    BY <1>1, <2>1, <2>2, SlotSet
<1>4. /\ NoCall \in CallSet /\ Ordered(NoCall.steps) /\ Elems(NoCall.steps) = {}
      /\ FirstOf(NoCall.steps) = "none" /\ NoCall.node = none
  BY DEF NoCall, CallSet, Ordered, Elems, FirstOf
<1>5. /\ \A u \in Thread \ {t} : call'[u] = call[u]
      /\ call'[t] = NoCall /\ Left(t)' = {} /\ Now(t)' = "none"
  BY <1>1, <1>4, SameCall
<1>6. /\ leaked' \in [Node -> [ref : Nat, open : Nat]]
      /\ leaked'[n].ref = leaked[n].ref + 1 /\ leaked'[n].open = leaked[n].open + 1
      /\ \A m \in Node \ {n} : leaked'[m] = leaked[m]
  <2> DEFINE e == [ref |-> leaked[n].ref + 1, open |-> leaked[n].open + 1]
  <2>1. leaked \in [Node -> [ref : Nat, open : Nat]]
    BY <1>1 DEF FileType, TableType
  <2>2. leaked[n].ref \in Nat /\ leaked[n].open \in Nat
    BY <2>1
  <2>3. e \in [ref : Nat, open : Nat] /\ e.ref = leaked[n].ref + 1 /\ e.open = leaked[n].open + 1
    BY <2>2
  <2>4. leaked' = [leaked EXCEPT ![n] = e]
    BY DEF LeftOpen
  <2> HIDE DEF e
  <2> QED
    BY <2>1, <2>3, <2>4
<1>7. TableType'
  BY <1>1, <1>3, <1>4, <1>6 DEF FileType, TableType
<1>8. alive' \subseteq alive /\ initproc \in alive' /\ alive # {}
      /\ \A u \in Thread \ {t} : u \in alive' <=> u \in alive
  BY <1>1 DEF CallInv
<1>9. CallInv'
  <2>1. Shape(t)' /\ KnowsNode(t)' /\ KnowsAlive(t)'
    BY <1>1, <1>3, <1>4, <1>5 DEF Shape, KnowsNode, KnowsAlive, Complete, Some
  <2>2. KnowsSlots(t)'
    BY <1>3, <1>5 DEF KnowsSlots
  <2>3. \A u \in Thread \ {t} : CallOK(u)'
    BY <1>1, <1>2, <1>3, <1>5, <1>8, OthersOK
  <2> QED
    BY <1>8, <2>1, <2>2, <2>3 DEF CallInv, CallOK
<1>10. CountInv'
  <2>1. /\ ~(<<t, f>> \in Descriptors(n))' /\ <<t, f>> \in Descriptors(n)
        /\ \A m \in Node \ {n} : ~(<<t, f>> \in Descriptors(m))' /\ ~(<<t, f>> \in Descriptors(m))
    <3>1. <<t, f>> \in Thread \X Fd /\ f \notin Open(t)' /\ f \in Open(t)
      BY <1>1, <1>3
    <3> QED
      BY <1>1, <3>1 DEF Descriptors, Open
  <2>2. NoBits(Left(t)) /\ NoBits(Left(t)')
    BY <1>1, <1>5, EmptyHasNone DEF NoBits, HasRef, HasOpen, RefSteps, Some
  <2>3. /\ ~(t \in RefOf(n)) /\ ~(t \in OpenOf(n)) /\ ~(t \in ReclaimOf(n))
        /\ ~(t \in RefOf(n))' /\ ~(t \in OpenOf(n))' /\ ~(t \in ReclaimOf(n))'
    BY <2>2 DEF RefOf, OpenOf, ReclaimOf, NoBits
  <2>4. /\ Bit((<<t, f>> \in Descriptors(n))') = 0 /\ Bit(<<t, f>> \in Descriptors(n)) = 1
        /\ Bit((t \in RefOf(n))') = 0 /\ Bit(t \in RefOf(n)) = 0
        /\ Bit((t \in OpenOf(n))') = 0 /\ Bit(t \in OpenOf(n)) = 0
        /\ Bit((t \in ReclaimOf(n))') = 0 /\ Bit(t \in ReclaimOf(n)) = 0
    BY <2>1, <2>3 DEF Bit
  <2>5. /\ ref_count[n] \in Int /\ open_count[n] \in Int /\ reclaim_count[n] \in Int
        /\ leaked[n].ref \in Nat /\ leaked[n].open \in Nat /\ Bit(ref_count[n] > 0) \in Int
        /\ leaked[n].open <= leaked[n].ref
    BY <1>1 DEF FileType, NodeType, TableType, Bit, CountInv
  <2>6. /\ ref_count'[n] - ref_count[n] = leaked'[n].ref - leaked[n].ref + (0 - 1) + (0 - 0)
        /\ open_count'[n] - open_count[n] = leaked'[n].open - leaked[n].open + (0 - 1) + (0 - 0)
        /\ reclaim_count'[n] - reclaim_count[n]
             = (0 - 0) + (Bit(ref_count'[n] > 0) - Bit(ref_count[n] > 0))
        /\ ref_count'[n] \in Int /\ open_count'[n] \in Int /\ reclaim_count'[n] \in Int
        /\ leaked'[n].ref \in Nat /\ leaked'[n].open \in Nat /\ leaked'[n].open <= leaked'[n].ref
    BY <1>2, <1>6, <2>5
  <2>7. /\ \A u \in Thread, g \in Fd : <<u, g>> # <<t, f>> => fd_array'[u][g] = fd_array[u][g]
        /\ \A u \in Thread \ {t} : call'[u] = call[u]
    BY <1>3, <1>5
  <2>8. Counted(n)
    BY <1>1 DEF CountInv
  <2>9. Counted(n)'
    BY ONLY <1>1, <2>4, <2>6, <2>7, <2>8, CountsMoveAll
  <2>10. \A u \in Thread \ {t} : "vop_kill" \in Left(u) => call[u].node # n
    <3>1. \A u \in Thread : "vop_kill" \in Left(u) => Descriptors(call[u].node) = {}
      BY KillAlone
    <3> QED
      BY <2>1, <3>1
  <2>11. \A m \in Node \ {n} :
           /\ ref_count'[m] = ref_count[m] /\ open_count'[m] = open_count[m]
           /\ reclaim_count'[m] = reclaim_count[m] /\ leaked'[m] = leaked[m]
           /\ (<<t, f>> \in Descriptors(m))' <=> <<t, f>> \in Descriptors(m)
    BY <1>2, <1>6, <2>1
  <2>12. /\ call[t].node \in {n, none} \/ NoBits(Left(t))
         /\ call'[t].node \in {n, none} /\ "vop_kill" \notin Left(t)'
         /\ ino' = ino /\ ino[n] # none /\ leaked'[n].open <= leaked'[n].ref
    BY <1>1, <1>2, <1>4, <1>5, <2>6
  <2>13. FileInv
    OBVIOUS
  <2> QED
    BY ONLY <2>7, <2>9, <2>10, <2>11, <2>12, <2>13, CountStep
<1>11. CleanInv'
  BY <1>1, <1>2, <1>5, SameClean
<1>12. ~HasFs(t)' /\ ~HasSin(t)'
  BY <1>5 DEF HasFs, HasSin, Loading, InSin
<1>13. SemType' /\ QueueInv' /\ TokenInv'
  BY <1>1, <1>5, <1>12, StayTokens
<1> QED
  BY <1>2, <1>7, <1>9, <1>10, <1>11, <1>13, Assembled

LEMMA IcodeStep ==
  ASSUME FileInv, NEW t \in Thread, load_icode(t)
  PROVE  FileInv'
  BY IcodeCloseStep, IcodeLeakStep DEF load_icode
-----------------------------------------------------------------------------
(* init_main: fs_cleanup begins, and sfs_sync goes over the inodes.        *)
LEMMA SyncHasNoBits ==
  ASSUME NEW S, S \subseteq {"lock_sfs_fs", "lock_sin", "sfs_fsync", "sfs_sync"}
  PROVE  /\ NoBits(S) /\ "vop_kill" \notin S /\ "next_fd" \notin S /\ "kfree" \notin S
         /\ "fd_array_open" \notin S /\ "fd_array_free" \notin S /\ ~Some(S, Loading)
         /\ ~Some(S, Hows) /\ "sysfile_open" \notin S /\ S \cap Exec = {}
  BY DEF NoBits, HasRef, HasOpen, Some, RefSteps, Loading, Hows, Exec

LEMMA CleanupStep ==
  ASSUME FileInv, fs_cleanup
  PROVE  FileInv'
<1> PICK t \in Thread : t = initproc
  BY FileTableAssumption
<1> DEFINE s == <<"lock_sfs_fs", "sfs_sync">>
           S == {"lock_sfs_fs", "sfs_sync"}
           c == [NoCall EXCEPT !.steps = s, !.todo = {n \in Node : ino[n] # none}]
<1>1. /\ alive = {t} /\ alive' = {} /\ call' = [call EXCEPT ![t] = c]
      /\ UNCHANGED <<semVars, nodeVars, fd_array, leaked>>
  BY DEF fs_cleanup
<1>2. FileType /\ CallInv /\ CallOK(t) /\ CleanInv /\ CountInv
  BY CallFacts DEF FileInv
<1>3. call[t] = NoCall /\ Open(t) = {}
  BY <1>1, <1>2 DEF CallOK, KnowsAlive
<1>4. Left(t) = {} /\ Now(t) = "none" /\ call[t].node = none /\ ~HasFs(t) /\ ~HasSin(t)
  <2>1. Left(t) = {} /\ Now(t) = "none" /\ call[t].node = none
    BY <1>2, <1>3, CallFacts
  <2> QED
    BY <2>1 DEF HasFs, HasSin, Loading, InSin
<1>5. s \in Seq(Steps) /\ Ordered(s) /\ Elems(s) = S /\ FirstOf(s) = "lock_sfs_fs"
  <2>1. "lock_sfs_fs" \in Steps /\ "sfs_sync" \in Steps /\ Follows("lock_sfs_fs", "sfs_sync")
    BY DEF Steps, FsLock, Follows
  <2> QED
    BY <2>1, Prefix2 DEF FirstOf
<1> HIDE DEF s
<1>6. /\ c \in CallSet /\ c.steps = s /\ c.node = none
      /\ c.todo = {n \in Node : ino[n] # none}
  BY <1>5 DEF NoCall, CallSet
<1> HIDE DEF c
<1>7. /\ \A u \in Thread \ {t} : call'[u] = call[u]
      /\ call'[t] = c /\ Left(t)' = S /\ Now(t)' = "lock_sfs_fs"
  BY <1>1, <1>2, <1>5, <1>6, SameCall
<1>8. UNCHANGED <<ino, ref_count, open_count, reclaim_count, dirty, stale, leaked>> /\ NodeType'
  BY <1>1, <1>2 DEF nodeVars, FileType, NodeType
<1>9. TableType'
  BY <1>1, <1>2, <1>6 DEF FileType, TableType
<1>10. /\ NoBits(S) /\ "vop_kill" \notin S /\ "next_fd" \notin S /\ "kfree" \notin S
       /\ "fd_array_open" \notin S /\ "fd_array_free" \notin S /\ ~Some(S, Loading)
       /\ ~Some(S, Hows) /\ "sysfile_open" \notin S /\ S \cap Exec = {}
  BY SyncHasNoBits
<1>11. Complete(S) /\ ~Some(S, NodeSteps) /\ "sfs_sync" \in S
  BY <1>10 DEF Complete, Some, FsLock, SinLock, NodeSteps, RefSteps, InSin, Exec
<1> HIDE DEF S
<1>12. Open(t)' = {}
  BY <1>1, <1>3 DEF Open, Slots
<1>13. CallInv'
  <2>1. Shape(t)'
    BY <1>5, <1>6, <1>7, <1>11 DEF Shape
  <2>2. KnowsNode(t)'
    BY <1>6, <1>7, <1>10, <1>11 DEF KnowsNode
  <2>3. KnowsSlots(t)'
    BY <1>7, <1>10, <1>12 DEF KnowsSlots, Exec
  <2>4. KnowsAlive(t)'
    BY <1>1, <1>6, <1>7, <1>8, <1>11, <1>12 DEF KnowsAlive
  <2>5. \A u \in Thread \ {t} : CallOK(u)'
    BY <1>1, <1>2, <1>7, <1>8, OthersOK
  <2> QED
    BY <1>1, <2>1, <2>2, <2>3, <2>4, <2>5 DEF CallInv, CallOK
<1>14. CountInv'
  <2>1. NoBits(Left(t)) /\ NoBits(Left(t)')
    BY <1>4, <1>7, <1>10, EmptyHasNone
  <2>2. "vop_kill" \notin Left(t)' /\ Open(t)' = Open(t)
    BY <1>3, <1>7, <1>10, <1>12
  <2>3. \A u \in Thread \ {t} : call'[u] = call[u] /\ fd_array'[u] = fd_array[u]
    BY <1>1, <1>7
  <2> QED
    BY <1>2, <1>3, <1>8, <2>1, <2>2, <2>3, SameCounts
<1>15. CleanInv'
  BY <1>2, <1>4, <1>7, <1>8, <1>10, SameClean
<1>16. ~HasFs(t)' /\ ~HasSin(t)'
  BY <1>7, <1>10 DEF HasFs, HasSin, Loading, InSin, FsLock
<1>17. SemType' /\ QueueInv' /\ TokenInv'
  BY <1>1, <1>4, <1>7, <1>16, StayTokens
<1> QED
  BY <1>8, <1>9, <1>13, <1>14, <1>15, <1>17, Assembled

LEMMA SyncFacts ==
  ASSUME FileInv, NEW t \in Thread, Now(t) = "sfs_sync"
  PROVE  /\ FileType /\ CallInv /\ CallOK(t) /\ Shape(t) /\ CleanInv /\ CountInv
         /\ Left(t) = {"sfs_sync"} /\ t = initproc /\ alive = {} /\ Open(t) = {}
         /\ \A n \in call[t].todo : n \in Node /\ ino[n] # none
         /\ HasFs(t) /\ ~HasSin(t) /\ Now(t) \notin InSin \cup SinLock \cup FsLock
<1>1. /\ FileType /\ CallInv /\ CallOK(t) /\ Shape(t) /\ View(Now(t), Left(t)) /\ CleanInv
      /\ CountInv
  BY CallFacts DEF FileInv, CallOK
<1>2. Left(t) = {"sfs_sync"}
  BY <1>1, NothingNext DEF View, Order
<1>3. call[t] # NoCall
  BY <1>1, <1>2, CallFacts
<1>4. /\ t = initproc /\ alive = {} /\ Open(t) = {}
      /\ \A n \in call[t].todo : n \in Node /\ ino[n] # none
  BY <1>1, <1>2, <1>3 DEF CallOK, KnowsAlive
<1>5. HasFs(t) /\ ~HasSin(t) /\ Now(t) \notin InSin \cup SinLock \cup FsLock
  BY <1>2 DEF HasFs, HasSin, InSin, SinLock, FsLock
<1> QED
  BY <1>1, <1>2, <1>4, <1>5

LEMMA SyncOneStep ==
  ASSUME FileInv, NEW t \in Thread, At(t, "sfs_sync"), NEW n, n \in call[t].todo,
         call' = [call EXCEPT ![t] = [Replaced(t, FsyncSteps(n) \o <<"sfs_sync">>)
           EXCEPT !.node = n, !.todo = @ \ {n}]],
         UNCHANGED <<semVars, nodeVars, alive, fd_array, leaked>>
  PROVE  FileInv'
<1> DEFINE p == FsyncSteps(n) \o <<"sfs_sync">>
           P == Elems(p)
           d == Replaced(t, p)
           c == [d EXCEPT !.node = n, !.todo = @ \ {n}]
<1>1. Now(t) = "sfs_sync" /\ Now(t) # "none" /\ Now(t) # "sfs_wbuf"
      /\ Now(t) \notin {"woken_sfs_fs", "woken_sin"}
  BY AtNow
<1>2. /\ FileType /\ CallInv /\ CallOK(t) /\ Shape(t) /\ CleanInv /\ CountInv
      /\ Left(t) = {"sfs_sync"} /\ t = initproc /\ alive = {} /\ Open(t) = {}
      /\ \A m \in call[t].todo : m \in Node /\ ino[m] # none
      /\ HasFs(t) /\ ~HasSin(t)
  BY <1>1, SyncFacts
<1>3. /\ p \in Seq(Steps) /\ Ordered(p) /\ p # <<>>
      /\ P \subseteq {"lock_sin", "sfs_fsync", "sfs_sync"} /\ "sfs_sync" \in P
      /\ n \in dirty => {"lock_sin", "sfs_fsync"} \subseteq P /\ Head(p) = "lock_sin"
      /\ n \notin dirty => P = {"sfs_sync"} /\ Head(p) = "sfs_sync"
  <2>1. /\ "sfs_sync" \in Steps /\ Follows("lock_sin", "sfs_sync")
        /\ Follows("sfs_fsync", "sfs_sync")
    BY DEF Steps, Follows, SinLock
  <2> QED
    BY <2>1, FsyncThen
<1> HIDE DEF p
<1>4. \A x \in P, y \in Left(t) \ {Now(t)} : Follows(x, y)
  BY <1>1, <1>2
<1>5. After(t, d, P) /\ FirstOf(d.steps) = Head(p)
  BY <1>1, <1>2, <1>3, <1>4, ReplaceWith
<1>6. call' = [call EXCEPT ![t] = c]
  BY DEF p
<1> HIDE DEF d
<1>7. /\ Elems(d.steps) = P /\ Ordered(d.steps) /\ d \in CallSet
      /\ d.todo = call[t].todo
  BY <1>1, <1>2, <1>3, <1>5 DEF After, Keeps
<1>8. n \in Node /\ ino[n] # none /\ n # none
  BY <1>2, SfsInodeAssumption
<1>9. c \in CallSet /\ c.steps = d.steps /\ c.node = n /\ c.todo = call[t].todo \ {n}
  BY <1>7, <1>8 DEF CallSet
<1> HIDE DEF c
<1> DEFINE N == FirstOf(d.steps)
<1>10. /\ \A u \in Thread \ {t} : call'[u] = call[u]
       /\ call'[t] = c /\ Left(t)' = P /\ Now(t)' = N
  <2>1. /\ \A u \in Thread \ {t} : call'[u] = call[u]
        /\ call'[t] = c /\ Left(t)' = Elems(c.steps) /\ Now(t)' = FirstOf(c.steps)
    BY <1>2, <1>6, SameCall
  <2> QED
    BY <1>7, <1>9, <2>1
<1>11. N \in {"lock_sin", "sfs_sync"}
  BY <1>3, <1>5
<1>12. UNCHANGED <<ino, ref_count, open_count, reclaim_count, dirty, stale, leaked>> /\ NodeType'
  BY <1>2 DEF nodeVars, FileType, NodeType
<1>13. TableType'
  BY <1>2, <1>6, <1>9 DEF FileType, TableType
<1>14. /\ NoBits(P) /\ "vop_kill" \notin P /\ "next_fd" \notin P /\ "kfree" \notin P
       /\ "fd_array_open" \notin P /\ "fd_array_free" \notin P /\ ~Some(P, Loading)
       /\ ~Some(P, Hows) /\ "sysfile_open" \notin P /\ P \cap Exec = {}
  BY <1>3, SyncHasNoBits
<1>15. Complete(P) /\ Some(P, {"sfs_sync"})
  BY <1>3 DEF Complete, Some, FsLock, SinLock, Hows, Loading, Exec
<1>16. Open(t)' = {}
  BY <1>2 DEF Open, Slots
<1>17. CallInv'
  <2>1. Shape(t)'
    BY <1>3, <1>7, <1>9, <1>10, <1>15 DEF Shape
  <2>2. KnowsNode(t)'
    BY <1>3, <1>8, <1>9, <1>10, <1>12, <1>14 DEF KnowsNode, Some
  <2>3. KnowsSlots(t)'
    BY <1>10, <1>14, <1>16 DEF KnowsSlots, Exec
  <2>4. KnowsAlive(t)'
    BY <1>2, <1>3, <1>9, <1>10, <1>12, <1>16 DEF KnowsAlive
  <2>5. \A u \in Thread \ {t} : CallOK(u)'
    BY <1>2, <1>10, <1>12, OthersOK
  <2> QED
    BY <1>2, <2>1, <2>2, <2>3, <2>4, <2>5 DEF CallInv, CallOK
<1>18. CountInv'
  <2>1. NoBits(Left(t)) /\ NoBits(Left(t)')
    BY <1>2, <1>10, <1>14, SyncHasNoBits
  <2>2. "vop_kill" \notin Left(t)' /\ Open(t)' = Open(t)
    BY <1>2, <1>10, <1>14, <1>16
  <2> QED
    BY <1>2, <1>10, <1>12, <2>1, <2>2, SameCounts
<1>19. CleanInv'
  BY <1>1, <1>2, <1>10, <1>11, <1>12, <1>14, SameClean
<1>20. HasFs(t)' /\ ~HasSin(t)'
  BY <1>3, <1>10, <1>11 DEF HasFs, HasSin, InSin, FsLock
<1>21. SemType' /\ QueueInv' /\ TokenInv'
  BY <1>1, <1>2, <1>10, <1>20, StayTokens
<1> QED
  BY <1>12, <1>13, <1>17, <1>18, <1>19, <1>21, Assembled

LEMMA SyncStep ==
  ASSUME FileInv, NEW t \in Thread, sfs_sync(t)
  PROVE  FileInv'
<1>1. UNCHANGED <<nodeVars, alive, fd_array, leaked>> /\ At(t, "sfs_sync")
  BY DEF sfs_sync
<1>2. CASE /\ UNCHANGED semVars
           /\ \E n \in call[t].todo :
                call' = [call EXCEPT ![t] = [Replaced(t, FsyncSteps(n) \o <<"sfs_sync">>)
                  EXCEPT !.node = n, !.todo = @ \ {n}]]
  BY <1>1, <1>2, SyncOneStep
<1>3. CASE up(fs_sem) /\ GoesOn(t, <<>>)
  <2> DEFINE c == Replaced(t, <<>>)
             M == Elems(c.steps)
             N == FirstOf(c.steps)
  <2>1. Now(t) = "sfs_sync" /\ Now(t) # "none" /\ Now(t) # "sfs_wbuf"
    BY <1>1, AtNow
  <2>2. /\ FileType /\ Shape(t) /\ CleanInv /\ Left(t) = {"sfs_sync"} /\ HasFs(t)
        /\ Now(t) \notin InSin \cup SinLock \cup FsLock
    BY <2>1, SyncFacts
  <2>3. After(t, c, {}) /\ call' = [call EXCEPT ![t] = c]
    BY <1>3, <2>1, <2>2, Replace0 DEF GoesOn
  <2> HIDE DEF c
  <2>4. M = {} /\ N = "none" /\ Keeps(t, c)
    BY <2>1, <2>2, <2>3 DEF After, Keeps, Order
  <2>5. UNCHANGED <<ino, ref_count, open_count, reclaim_count, dirty, stale, leaked, alive,
                    fd_array>> /\ NodeType'
    BY <1>1, <2>2 DEF nodeVars, FileType, NodeType
  <2>6. Open(t)' = Open(t)
    BY <2>5 DEF Open, Slots
  <2>7. Continues(Left(t), M) /\ SameBits(Left(t), M)
    BY <2>2, <2>4 DEF Continues, Complete, SameBits, HasRef, HasOpen, Some, RefSteps, Hows
  <2>8. fd_array' \in [Thread -> [Fd -> [status : Status, node : Node \cup {none}]]]
    BY <2>2, <2>5 DEF FileType, TableType
  <2>9. TableType' /\ CallInv' /\ CountInv'
    BY <2>1, <2>3, <2>4, <2>5, <2>6, <2>7, <2>8, LightStep
  <2>10. /\ \A u \in Thread \ {t} : call'[u] = call[u]
         /\ Left(t)' = M /\ Now(t)' = N
    BY <2>2, <2>3, SameCall
  <2>11. CleanInv'
    BY <2>1, <2>2, <2>4, <2>5, <2>10, SameClean
  <2>12. ~HasFs(t)' /\ Now(t)' \notin InSin \cup SinLock
    BY <2>4, <2>10 DEF HasFs, Loading, InSin, SinLock
  <2>13. SemType' /\ QueueInv' /\ TokenInv'
    BY <1>3, <2>2, <2>10, <2>12, LeaveFs
  <2> QED
    BY <2>5, <2>9, <2>11, <2>13, Assembled
<1> QED
  BY <1>1, <1>2, <1>3 DEF sfs_sync
-----------------------------------------------------------------------------
(* copy_files: the new process gets the descriptors of its parent.         *)
CopySlots(t, n) == {f \in Open(t) : fd_array[t][f].node = n}

LEMMA CopyCard ==
  ASSUME FileType, NEW t \in Thread, NEW u \in Thread, NEW n \in Node, Open(u) = {},
         fd_array' = [fd_array EXCEPT ![u] = fd_array[t]]
  PROVE  LET k == Cardinality(CopySlots(t, n)) IN
         /\ k \in Nat /\ Cardinality(Descriptors(n)) \in Nat
         /\ Cardinality(Descriptors(n)') = Cardinality(Descriptors(n)) + k
         /\ k # 0 => Descriptors(n) # {}
<1> DEFINE F == CopySlots(t, n)
           E == {u} \X F
           D == Descriptors(n)
<1>1. F \in SUBSET Fd /\ IsFiniteSet(Fd)
  BY FileTableAssumption DEF CopySlots, Open, Slots
<1>2. IsFiniteSet(F) /\ Cardinality(F) \in Nat
  BY <1>1, FS_Subset, FS_CardinalityType
<1>3. IsFiniteSet({u}) /\ Cardinality({u}) = 1
  BY FS_Singleton
<1>4. IsFiniteSet(E) /\ Cardinality(E) = Cardinality(F)
  <2>1. IsFiniteSet(E) /\ Cardinality(E) = Cardinality({u}) * Cardinality(F)
    BY <1>2, <1>3, FS_Product
  <2> QED
    BY <1>2, <1>3, <2>1
<1>5. IsFiniteSet(D) /\ Cardinality(D) \in Nat
  BY FiniteCounts, FS_CardinalityType
<1>6. /\ \A v \in Thread \ {u} : fd_array'[v] = fd_array[v]
      /\ fd_array'[u] = fd_array[t]
  BY DEF FileType, TableType
<1>7. D' = D \cup E
  <2>1. D' \subseteq Thread \X Fd /\ D \subseteq Thread \X Fd
    BY DEF Descriptors
  <2>2. E \subseteq Thread \X Fd
    BY <1>1
  <2>3. ASSUME NEW v \in Thread, NEW g \in Fd
        PROVE  <<v, g>> \in D' <=> <<v, g>> \in D \/ <<v, g>> \in E
    <3>1. CASE v = u
      <4>1. <<v, g>> \in D' <=> g \in F
        BY <1>6, <3>1 DEF Descriptors, Slots, CopySlots, Open
      <4>2. <<v, g>> \notin D
        BY <3>1, InDescriptors
      <4>3. <<v, g>> \in E <=> g \in F
        BY <3>1
      <4> QED
        BY <4>1, <4>2, <4>3
    <3>2. CASE v # u
      <4>1. <<v, g>> \in D' <=> <<v, g>> \in D
        BY <1>6, <3>2 DEF Descriptors, Slots
      <4>2. <<v, g>> \notin E
        BY <3>2
      <4> QED
        BY <4>1, <4>2
    <3> QED
      BY <3>1, <3>2
  <2> HIDE DEF D, E
  <2>4. \A d \in Thread \X Fd : d \in D' <=> d \in D \cup E
    BY <2>3
  <2>5. D \cup E \subseteq Thread \X Fd
    BY <2>1, <2>2
  <2> QED
    BY <2>1, <2>4, <2>5
<1>8. D \cap E = {}
  <2>1. \A g \in Fd : <<u, g>> \notin D
    BY InDescriptors
  <2> QED
    BY <1>1, <2>1
<1>9. Cardinality(D') = Cardinality(D) + Cardinality(F)
  <2>1. Cardinality(D \cup E) = Cardinality(D) + Cardinality(E) - Cardinality(D \cap E)
    BY <1>4, <1>5, FS_Union
  <2>2. Cardinality(D \cap E) = 0
    BY <1>8, FS_EmptySet
  <2> QED
    BY <1>2, <1>4, <1>5, <1>7, <2>1, <2>2
<1>10. ASSUME Cardinality(F) # 0 PROVE D # {}
  <2>1. PICK f : f \in F
    BY <1>2, <1>10, FS_EmptySet
  <2>2. f \in Fd /\ f \in Open(t) /\ fd_array[t][f].node = n
    BY <1>1, <2>1 DEF CopySlots
  <2> QED
    BY <2>2, InDescriptors
<1> QED
  BY <1>2, <1>5, <1>9, <1>10

LEMMA CopyFilesStep ==
  ASSUME FileInv, NEW t \in Thread, NEW u \in Thread, copy_files(t, u)
  PROVE  FileInv'
<1>1. /\ FileType /\ CallInv /\ CallOK(t) /\ CleanInv /\ CountInv
      /\ t \in alive /\ t # initproc /\ initproc \in alive
  BY IdleFacts DEF copy_files
<1>2. /\ u \notin alive /\ alive' = alive \cup {u} /\ UNCHANGED <<semVars, call, leaked>>
      /\ fd_array' = [fd_array EXCEPT ![u] = fd_array[t]]
  BY DEF copy_files
<1>3. u # t /\ u # initproc
  BY <1>1, <1>2
<1>4. call[u] = NoCall /\ Open(u) = {} /\ Left(u) = {} /\ Now(u) = "none" /\ call[u].node = none
  <2>1. CallOK(u)
    BY <1>1 DEF CallInv
  <2>2. call[u] = NoCall /\ Open(u) = {}
    BY <1>2, <1>3, <2>1 DEF CallOK, KnowsAlive
  <2> QED
    BY <1>1, <2>2, CallFacts
<1>5. /\ UNCHANGED <<ino, reclaim_count, dirty, stale>>
      /\ \A n \in Node : /\ ref_count'[n] = ref_count[n] + Cardinality(CopySlots(t, n))
                         /\ open_count'[n] = open_count[n] + Cardinality(CopySlots(t, n))
      /\ NodeType'
  <2> DEFINE b == [n \in Node |-> Cardinality(CopySlots(t, n))]
  <2>1. DupNodes(b)
    BY DEF copy_files, CopySlots, Open
  <2>2. \A n \in Node : Cardinality(CopySlots(t, n)) \in Nat
    BY <1>1, <1>2, <1>4, CopyCard
  <2>3. b \in [Node -> Int] /\ \A n \in Node : b[n] = Cardinality(CopySlots(t, n))
    BY <2>2
  <2> HIDE DEF b
  <2> QED
    BY <1>1, <2>1, <2>3 DEF DupNodes, FileType, NodeType
<1>6. /\ \A v \in Thread \ {u} : fd_array'[v] = fd_array[v] /\ call'[v] = call[v]
      /\ fd_array'[u] = fd_array[t] /\ Open(u)' = Open(t) /\ TableType'
  BY <1>1, <1>2 DEF FileType, TableType, Open, Slots
<1>7. Left(u)' = {} /\ Now(u)' = "none" /\ call'[u] = call[u]
  BY <1>2, <1>4 DEF Left, Now
<1>8. CallInv'
  <2>1. Shape(u)'
    <3>1. Shape(u)
      BY <1>1 DEF CallInv, CallOK
    <3> QED
      BY <1>4, <1>7, <3>1 DEF Shape
  <2>2. KnowsNode(u)'
    BY <1>4, <1>7 DEF KnowsNode, Some
  <2>3. KnowsSlots(u)'
    BY <1>1, <1>5, <1>6, <1>7 DEF KnowsSlots, CallOK, Some
  <2>4. KnowsAlive(u)'
    BY <1>2, <1>3, <1>7 DEF KnowsAlive
  <2>5. \A v \in Thread \ {u} : CallOK(v)'
    <3>1. /\ \A v \in Thread \ {u} : v \in alive' <=> v \in alive
          /\ alive # {}
      BY <1>1, <1>2
    <3> QED
      BY <1>1, <1>5, <1>6, <3>1, OthersOK
  <2> QED
    BY <1>1, <1>2, <2>1, <2>2, <2>3, <2>4, <2>5 DEF CallInv, CallOK
<1>9. CountInv'
  <2>1. \A v \in Thread : Left(v)' = Left(v)
    BY <1>2 DEF Left
  <2>2. ASSUME NEW n \in Node, ino[n] # none
        PROVE  /\ Counted(n)'
               /\ ref_count[n] = 0 /\ Descriptors(n) = {} => ref_count'[n] = 0
    <3> DEFINE k == Cardinality(CopySlots(t, n))
    <3>1. /\ k \in Nat /\ Cardinality(Descriptors(n)) \in Nat
          /\ Cardinality(Descriptors(n)') = Cardinality(Descriptors(n)) + k
          /\ k # 0 => Descriptors(n) # {}
      BY <1>1, <1>2, <1>4, CopyCard
    <3>2. /\ ref_count'[n] = ref_count[n] + k /\ open_count'[n] = open_count[n] + k
          /\ reclaim_count'[n] = reclaim_count[n] /\ leaked'[n] = leaked[n]
      BY <1>2, <1>5
    <3>3. RefOf(n)' = RefOf(n) /\ OpenOf(n)' = OpenOf(n) /\ ReclaimOf(n)' = ReclaimOf(n)
      BY <1>2, <2>1 DEF RefOf, OpenOf, ReclaimOf
    <3>4. Counted(n)
      BY <1>1, <2>2 DEF CountInv
    <3>5. ref_count[n] \in Nat /\ (ref_count[n] = 0 => Descriptors(n) = {})
      BY <1>1, <3>4, Referenced
    <3>6. /\ Cardinality(RefOf(n)) \in Nat /\ Cardinality(OpenOf(n)) \in Nat
          /\ Cardinality(ReclaimOf(n)) \in Nat /\ leaked[n].ref \in Nat
          /\ leaked[n].open \in Nat
      BY <1>1, FiniteCounts, FS_CardinalityType DEF FileType, TableType
    <3> HIDE DEF k
    <3>7. ref_count'[n] > 0 <=> ref_count[n] > 0
      BY <3>1, <3>2, <3>5
    <3>8. Bit(ref_count'[n] > 0) = Bit(ref_count[n] > 0)
      BY <3>7 DEF Bit
    <3>9. /\ ref_count[n] = Cardinality(Descriptors(n)) + leaked[n].ref + Cardinality(RefOf(n))
          /\ open_count[n] = Cardinality(Descriptors(n)) + leaked[n].open + Cardinality(OpenOf(n))
          /\ reclaim_count[n] = Cardinality(ReclaimOf(n)) + Bit(ref_count[n] > 0)
      BY <3>4 DEF Counted
    <3>10. /\ ref_count'[n] = Cardinality(Descriptors(n)') + leaked'[n].ref + Cardinality(RefOf(n)')
           /\ open_count'[n] = Cardinality(Descriptors(n)') + leaked'[n].open + Cardinality(OpenOf(n)')
      BY <3>1, <3>2, <3>3, <3>6, <3>9
    <3>11. reclaim_count'[n] = Cardinality(ReclaimOf(n)') + Bit(ref_count'[n] > 0)
      BY <3>2, <3>3, <3>8, <3>9
    <3>12. ref_count[n] = 0 /\ Descriptors(n) = {} => ref_count'[n] = 0
      BY <3>1, <3>2
    <3> QED
      BY <3>10, <3>11, <3>12 DEF Counted
  <2>3. /\ \A n \in Node : ino'[n] = none => leaked'[n].ref = 0
        /\ \A n \in Node : leaked'[n].open <= leaked'[n].ref
    BY <1>1, <1>2, <1>5 DEF CountInv
  <2>4. ASSUME NEW v \in Thread, "vop_kill" \in Left(v)'
        PROVE  ref_count'[call'[v].node] = 0 /\ reclaim_count'[call'[v].node] = 0
    <3>1. "vop_kill" \in Left(v)
      BY <2>1, <2>4
    <3>2. /\ call[v].node \in Node /\ ino[call[v].node] # none
          /\ Descriptors(call[v].node) = {}
      BY <3>1, KillAlone
    <3>3. ref_count[call[v].node] = 0 /\ reclaim_count[call[v].node] = 0
      BY <1>1, <3>1 DEF CountInv
    <3> QED
      BY <1>2, <1>5, <2>2, <3>2, <3>3
  <2> QED
    BY <1>5, <2>2, <2>3, <2>4 DEF CountInv
<1>10. CleanInv'
  BY <1>1, <1>4, <1>5, <1>6, <1>7, SameClean
<1>11. ~HasFs(u)' /\ ~HasFs(u) /\ ~HasSin(u)' /\ ~HasSin(u)
  BY <1>4, <1>7 DEF HasFs, HasSin, Loading, InSin
<1>12. SemType' /\ QueueInv' /\ TokenInv'
  BY <1>2, <1>4, <1>6, <1>11, StayTokens
<1> QED
  BY <1>5, <1>6, <1>8, <1>9, <1>10, <1>12, Assembled
-----------------------------------------------------------------------------
(* The invariant holds at the start and is kept by every step.             *)
LEMMA InitOK ==
  ASSUME Init
  PROVE  FileInv
<1>1. /\ value = [s \in Sem |-> 1] /\ wait_queue = [s \in Sem |-> <<>>] /\ asleep = {}
      /\ ino = [n \in Node |-> none] /\ ref_count = [n \in Node |-> 0]
      /\ open_count = [n \in Node |-> 0] /\ reclaim_count = [n \in Node |-> 0]
      /\ dirty = {} /\ stale = {}
  BY DEF Init, InodeInit, sem_init
<1>2. /\ fd_array = [t \in Thread |-> Closed] /\ call = [t \in Thread |-> NoCall]
      /\ leaked = [n \in Node |-> [ref |-> 0, open |-> 0]]
      /\ alive \subseteq Thread /\ initproc \in alive
  BY FileTableAssumption DEF Init
<1>3. NoCall \in CallSet /\ NoCall.steps = <<>> /\ NoCall.node = none
  BY DEF NoCall, CallSet
<1>4. /\ Closed \in [Fd -> [status : Status, node : Node \cup {none}]]
      /\ \A f \in Fd : Closed[f].status = "FD_NONE"
  BY DEF Closed, Status
<1>5. ASSUME NEW t \in Thread
      PROVE  /\ call[t] = NoCall /\ Left(t) = {} /\ Now(t) = "none" /\ Open(t) = {}
             /\ ~HasFs(t) /\ ~HasSin(t)
  <2>1. call[t] = NoCall /\ Left(t) = {} /\ Now(t) = "none" /\ Open(t) = {}
    BY <1>2, <1>3, <1>4 DEF Left, Elems, Now, Open, Slots
  <2> QED
    BY <2>1 DEF HasFs, HasSin, Loading, InSin
<1>6. FileType
  <2>1. SemType
    BY <1>1 DEF SemType
  <2>2. NodeType
    BY <1>1 DEF NodeType
  <2>3. TableType
    BY <1>2, <1>3, <1>4 DEF TableType
  <2> QED
    BY <2>1, <2>2, <2>3 DEF FileType
<1>7. CallInv
  <2>1. ASSUME NEW t \in Thread PROVE CallOK(t)
    <3>1. Shape(t)
      BY <1>3, <1>5 DEF Shape, Ordered, Complete, Some
    <3>2. KnowsNode(t)
      BY <1>3, <1>5 DEF KnowsNode, Some
    <3>3. KnowsSlots(t)
      BY <1>5 DEF KnowsSlots, Some
    <3>4. KnowsAlive(t)
      BY <1>5 DEF KnowsAlive
    <3> QED
      BY <3>1, <3>2, <3>3, <3>4 DEF CallOK
  <2> QED
    BY <1>2, <2>1 DEF CallInv
<1>8. QueueInv
  BY <1>1 DEF QueueInv
<1>9. TokenInv
  BY <1>1, <1>5 DEF TokenInv, Holds
<1>10. CountInv
  BY <1>1, <1>2, <1>5 DEF CountInv
<1>11. CleanInv
  BY <1>1, <1>5 DEF CleanInv
<1> QED
  BY <1>6, <1>7, <1>8, <1>9, <1>10, <1>11 DEF FileInv

LEMMA StutterOK ==
  ASSUME FileInv, UNCHANGED vars
  PROVE  FileInv'
<1>1. /\ UNCHANGED <<value, wait_queue, asleep>>
      /\ UNCHANGED <<ino, ref_count, open_count, reclaim_count, dirty, stale>>
      /\ UNCHANGED <<alive, fd_array, call, leaked>>
  BY DEF vars, semVars, nodeVars
<1>2. FileType /\ CallInv /\ QueueInv /\ TokenInv /\ CountInv /\ CleanInv
  BY DEF FileInv
<1>3. SemType' /\ NodeType' /\ TableType'
  BY <1>1, <1>2 DEF FileType, SemType, NodeType, TableType
<1>4. \A t \in Thread : Left(t)' = Left(t) /\ Now(t)' = Now(t) /\ Open(t)' = Open(t)
  BY <1>1 DEF Left, Now, Open, Slots
<1>5. CallInv'
  <2>1. ASSUME NEW t \in Thread PROVE CallOK(t)'
    <3>1. CallOK(t)
      BY <1>2 DEF CallInv
    <3>2. Shape(t)' /\ KnowsSlots(t)' /\ KnowsAlive(t)'
      BY <1>1, <1>4, <3>1 DEF CallOK, Shape, KnowsSlots, KnowsAlive
    <3>3. KnowsNode(t)'
      BY <1>1, <1>4, <3>1 DEF CallOK, KnowsNode
    <3> QED
      BY <3>2, <3>3 DEF CallOK
  <2> QED
    BY <1>1, <1>2, <2>1 DEF CallInv
<1>6. QueueInv'
  BY <1>1, <1>2 DEF QueueInv, WaitsFor, Now
<1>7. TokenInv'
  <2>1. \A t \in Thread, s \in Sem : Holds(t, s)' <=> Holds(t, s)
    BY <1>1, <1>4 DEF Holds, HasFs, HasSin
  <2> QED
    BY <1>1, <1>2, <2>1 DEF TokenInv
<1>8. CountInv'
  <2>1. \A n \in Node : /\ Descriptors(n)' = Descriptors(n) /\ RefOf(n)' = RefOf(n)
                        /\ OpenOf(n)' = OpenOf(n) /\ ReclaimOf(n)' = ReclaimOf(n)
    BY <1>1, <1>4 DEF Descriptors, Slots, RefOf, OpenOf, ReclaimOf
  <2>2. \A n \in Node : Counted(n) => Counted(n)'
    BY <1>1, <2>1 DEF Counted
  <2> QED
    BY <1>1, <1>2, <1>4, <2>2 DEF CountInv
<1>9. CleanInv'
  BY <1>1, <1>2, <1>4 DEF CleanInv
<1> QED
  BY <1>3, <1>5, <1>6, <1>7, <1>8, <1>9, Assembled

LEMMA NextOK ==
  ASSUME FileInv, [Next]_vars
  PROVE  FileInv'
<1>1. ASSUME NEW t \in Thread, Run(t) PROVE FileInv'
  BY <1>1, LockStep, LoadStep, OpenStep, TruncfileStep, OpenedStep, FreeStep, OpenDecStep,
     RefDecStep, FsyncStep, ReclaimStep, SfsIoStep, CloseStep, ProgramStep, ReadStep,
     IcodeStep, SyncStep DEF Run
<1>2. ASSUME NEW t \in Thread, Call(t) PROVE FileInv'
  <2>1. ASSUME NEW i \in Ino, NEW how \in Hows, file_open(t, i, how) PROVE FileInv'
    BY <2>1, FileOpenStep
  <2>2. ASSUME NEW f \in Fd, file_close(t, f) PROVE FileInv'
    BY <2>2, FileCloseStep
  <2>3. ASSUME NEW f \in Fd, file_write(t, f) \/ file_fsync(t, f) PROVE FileInv'
    BY <2>3, OnFileStep
  <2>4. ASSUME NEW f \in Fd, NEW g \in Fd, file_dup(t, f, g) PROVE FileInv'
    BY <2>4, FileDupStep
  <2>5. ASSUME NEW u \in Thread, copy_files(t, u) PROVE FileInv'
    BY <2>5, CopyFilesStep
  <2>6. CASE put_files(t) \/ \E i \in Ino : do_execve(t, i)
    BY <2>6, CloseAllStep
  <2> QED
    BY <1>2, <2>1, <2>2, <2>3, <2>4, <2>5, <2>6 DEF Call, Hows
<1>3. CASE fs_cleanup
  BY <1>3, CleanupStep
<1>4. CASE UNCHANGED vars
  BY <1>4, StutterOK
<1> QED
  BY <1>1, <1>2, <1>3, <1>4 DEF Next

(* Between any two steps of vfs_open, vfs_close, file_write, file_fsync,   *)
(* copy_files, files_destroy, do_execve with a load_icode that may fail,   *)
(* and sfs_reclaim the semaphores are held by the calls that are between   *)
(* down and up, the counts of an inode are those of its descriptors, its   *)
(* calls and what vfs_open and load_icode have left behind, and no inode   *)
(* is freed while sin->dirty is set.                                       *)
THEOREM FilesAreSound == Spec => []FileInv
<1>1. Init => FileInv
  BY InitOK
<1>2. FileInv /\ [Next]_vars => FileInv'
  BY NextOK
<1> QED
  BY <1>1, <1>2, PTL DEF Spec

-----------------------------------------------------------------------------
(* What the invariant says of the properties of FileTable.                 *)
LEMMA CountsFollow ==
  ASSUME FileInv
  PROVE  CountsExact
<1> SUFFICES ASSUME NEW n \in Node, ino[n] # none
             PROVE
    /\ ref_count[n] = Cardinality(Descriptors(n)) + leaked[n].ref
         + Cardinality(Callers(n, {"plain", "trunc", "excl", "fd_array_open", "inode_ref_dec"}))
    /\ open_count[n] = Cardinality(Descriptors(n)) + leaked[n].open
         + Cardinality(Callers(n, {"inode_open_dec"}))
         + Cardinality({t \in Callers(n, {"fd_array_open"}) : ~Has(t, {"plain", "trunc", "excl"})})
    /\ reclaim_count[n] = Cardinality(Callers(n, {"sfs_reclaim"}))
         + (IF ref_count[n] > 0 THEN 1 ELSE 0)
  BY DEF CountsExact
<1>1. FileType /\ CallInv /\ Counted(n)
  BY DEF FileInv, CountInv
<1>2. \A t \in Thread : \A S : Has(t, S) <=> Some(Left(t), S)
  BY <1>1, HasSome
<1>3. \A L, x : Some(L, {x}) <=> x \in L
  BY DEF Some
<1>4. Callers(n, {"plain", "trunc", "excl", "fd_array_open", "inode_ref_dec"}) = RefOf(n)
  BY <1>2 DEF Callers, RefOf, HasRef, RefSteps
<1>5. Callers(n, {"sfs_reclaim"}) = ReclaimOf(n)
  BY <1>2, <1>3 DEF Callers, ReclaimOf
<1> DEFINE A == Callers(n, {"inode_open_dec"})
           B == {t \in Callers(n, {"fd_array_open"}) : ~Has(t, {"plain", "trunc", "excl"})}
<1>6. OpenOf(n) = A \cup B
  BY <1>2, <1>3 DEF Callers, OpenOf, HasOpen, Hows
<1>7. A \cap B = {}
  <2> SUFFICES ASSUME NEW t \in Thread, "inode_open_dec" \in Left(t), "fd_array_open" \in Left(t)
               PROVE  FALSE
    BY <1>2, <1>3 DEF Callers
  <2>1. View(Now(t), Left(t))
    BY <1>1, CallFacts
  <2> QED
    BY <2>1 DEF View, Order, Follows, Hows, FsLock, Loading, SinLock, Ending, Exec
<1>8. IsFiniteSet(A) /\ IsFiniteSet(B)
  <2>1. A \subseteq OpenOf(n) /\ B \subseteq OpenOf(n)
    BY <1>6
  <2> QED
    BY <2>1, FiniteCounts, FS_Subset
<1> HIDE DEF A, B
<1>9. Cardinality(OpenOf(n)) = Cardinality(A) + Cardinality(B)
  <2>1. Cardinality(A \cup B) = Cardinality(A) + Cardinality(B) - Cardinality(A \cap B)
    BY <1>8, FS_Union
  <2>2. Cardinality(A \cap B) = 0
    BY <1>7, FS_EmptySet
  <2>3. Cardinality(A) \in Nat /\ Cardinality(B) \in Nat
    BY <1>8, FS_CardinalityType
  <2> QED
    BY <1>6, <2>1, <2>2, <2>3
<1>10. /\ Cardinality(A) \in Nat /\ Cardinality(B) \in Nat
       /\ Cardinality(Descriptors(n)) \in Nat /\ leaked[n].open \in Nat
  BY <1>1, <1>8, FiniteCounts, FS_CardinalityType DEF FileType, TableType
<1>11. open_count[n] =
         Cardinality(Descriptors(n)) + leaked[n].open + Cardinality(A) + Cardinality(B)
  <2>1. open_count[n] = Cardinality(Descriptors(n)) + leaked[n].open + Cardinality(OpenOf(n))
    BY <1>1 DEF Counted
  <2> QED
    BY <1>9, <1>10, <2>1
<1>12. ref_count[n] = Cardinality(Descriptors(n)) + leaked[n].ref + Cardinality(RefOf(n))
       /\ reclaim_count[n] = Cardinality(ReclaimOf(n)) + (IF ref_count[n] > 0 THEN 1 ELSE 0)
  BY <1>1 DEF Counted, Bit
<1> QED
  BY <1>4, <1>5, <1>11, <1>12 DEF A, B

LEMMA NoUseFollows ==
  ASSUME FileInv
  PROVE  NoUseAfterFree
<1>1. FileType /\ CallInv /\ QueueInv /\ TokenInv /\ CleanInv
  BY DEF FileInv
<1>2. ASSUME NEW n \in Node, ino[n] = none
      PROVE  /\ Descriptors(n) = {} /\ wait_queue[n] = <<>> /\ value[n] = 1
             /\ \A t \in Thread : call[t].node # n
  <2>1. n # none /\ n \in Sem /\ n # fs_sem
    BY SfsInodeAssumption
  <2>2. \A t \in Thread : call[t].node # n
    BY <1>1, <1>2, <2>1 DEF CallInv, CallOK, KnowsNode
  <2>3. Descriptors(n) = {}
    <3>1. \A t \in Thread, f \in Fd : <<t, f>> \notin Descriptors(n)
      BY <1>1, <1>2, InDescriptors DEF CallInv, CallOK, KnowsSlots
    <3> QED
      BY <3>1 DEF Descriptors
  <2>4. wait_queue[n] = <<>>
    <3> SUFFICES ASSUME wait_queue[n] # <<>> PROVE FALSE
      OBVIOUS
    <3>1. wait_queue[n] \in Seq(Thread)
      BY <1>1, <2>1 DEF FileType, SemType
    <3>2. 1 \in 1..Len(wait_queue[n]) /\ wait_queue[n][1] \in Thread
      BY <3>1
    <3>3. WaitsFor(wait_queue[n][1], n)
      BY <1>1, <2>1, <3>2 DEF QueueInv
    <3> QED
      BY <2>1, <2>2, <3>2, <3>3 DEF WaitsFor
  <2>5. value[n] = 1
    <3>1. value[n] \in {0, 1}
      BY <1>1, <2>1 DEF FileType, SemType
    <3>2. \A t \in Thread : ~Holds(t, n)
      BY <2>1, <2>2 DEF Holds
    <3> QED
      BY <1>1, <2>1, <3>1, <3>2 DEF TokenInv
  <2> QED
    BY <2>2, <2>3, <2>4, <2>5
<1>3. ASSUME NEW i \in Ino PROVE Cardinality(Cached(i)) <= 1
  <2>1. i # none
    BY SfsInodeAssumption
  <2>2. CASE Cached(i) = {}
    BY <2>2, FS_EmptySet
  <2>3. ASSUME NEW n \in Cached(i) PROVE Cardinality(Cached(i)) <= 1
    <3>1. Cached(i) = {n}
      BY <1>1, <2>1, <2>3 DEF Cached, CleanInv
    <3>2. Cardinality({n}) = 1
      BY FS_Singleton
    <3> QED
      BY <3>1, <3>2
  <2> QED
    BY <2>2, <2>3
<1> QED
  BY <1>2, <1>3 DEF NoUseAfterFree

LEMMA NoLossFollows ==
  ASSUME FileInv
  PROVE  NoUpdateLost
<1> SUFFICES ASSUME NEW i \in stale
             PROVE  \E n \in Cached(i) : n \in dirty \/ Callers(n, {"sfs_wbuf"}) # {}
  BY DEF NoUpdateLost
<1>1. PICK n \in Node :
        ino[n] = i /\ (n \in dirty \/ \E t \in Thread : call[t].node = n /\ Now(t) = "sfs_wbuf")
  BY DEF FileInv, CleanInv
<1>2. n \in Cached(i)
  BY <1>1 DEF Cached
<1>3. ASSUME NEW t \in Thread, call[t].node = n, Now(t) = "sfs_wbuf"
      PROVE  t \in Callers(n, {"sfs_wbuf"})
  <2>1. "sfs_wbuf" \in Left(t)
    BY <1>3, CallFacts DEF FileInv, View, Order
  <2>2. Has(t, {"sfs_wbuf"})
    BY <2>1, HasSome DEF FileInv, Some
  <2> QED
    BY <1>3, <2>2 DEF Callers
<1> QED
  BY <1>1, <1>2, <1>3

(* ref_count, open_count and reclaim_count of an inode in the cache are    *)
(* the number of those who will still give one back, plus what vfs_open    *)
(* with O_EXCL and a failed load_icode never will, between any two steps   *)
(* of vfs_open, vfs_close, file_dup, dup_files, do_execve and sfs_reclaim, *)
(* whatever the number of processes and descriptors.                       *)
THEOREM CountsAreExact == Spec => []CountsExact
BY FilesAreSound, CountsFollow, PTL

(* vop_kill frees an inode only when no descriptor, no call and no waiter  *)
(* for its semaphore refers to it, and sfs_load_inode never gives a file a *)
(* second inode.                                                           *)
THEOREM FreedInodesAreNotUsed == Spec => []NoUseAfterFree
BY FilesAreSound, NoUseFollows, PTL

(* Between sfs_io_nolock or sfs_truncfile, sfs_fsync, of which the write   *)
(* may fail, and sfs_reclaim no change that was marked by sin->dirty is    *)
(* forgotten, even though sfs_bmap_load_nolock also makes changes that are *)
(* not marked.                                                             *)
THEOREM UpdatesAreKept == Spec => []NoUpdateLost
BY FilesAreSound, NoLossFollows, PTL
=============================================================================
