------------------------------- MODULE GetPid -------------------------------
(***************************************************************************)
(* get_pid of kern/process/proc.c with the process list it scans, and the  *)
(* fork and exit steps that change the list.  get_pid runs with interrupts *)
(* off; its loop is taken apart into one step per list element so that it  *)
(* can be reasoned about.  The elements come in any order: the order of    *)
(* proc_list is not assumed.                                               *)
(***************************************************************************)
EXTENDS Integers, FiniteSets

CONSTANTS MAX_PROCESS, MAX_PID

(* The static_assert of get_pid.                                           *)
ASSUME PidAssumption ==
  /\ MAX_PROCESS \in Nat
  /\ MAX_PID \in Nat
  /\ MAX_PID > MAX_PROCESS
  /\ MAX_PROCESS > 1

VARIABLES
  pids,       \* the pids in proc_list (idle, pid 0, is not in it)
  last_pid, next_safe,  \* the static variables of get_pid
  todo,       \* the pids the scan has not looked at yet
  at          \* "out", in the "scan", or "got" a pid that is not linked yet

pidVars == <<pids, last_pid, next_safe, todo, at>>

(* proc_init has created init, the first to ask for a pid.                 *)
PidInit ==
  /\ pids = {1}
  /\ last_pid = 1
  /\ next_safe = MAX_PID
  /\ todo = {}
  /\ at = "out"

(* The label inside: a scan of the whole list from last_pid l.             *)
StartScan(l) ==
  /\ last_pid' = l
  /\ next_safe' = MAX_PID
  /\ todo' = pids
  /\ at' = "scan"

(* Entry of get_pid; do_fork has checked nr_process, which counts idle.    *)
Enter ==
  /\ at = "out"
  /\ Cardinality(pids) + 1 < MAX_PROCESS
  /\ \/ last_pid + 1 >= MAX_PID /\ StartScan(1)
     \/ last_pid + 1 < MAX_PID /\ last_pid + 1 >= next_safe /\ StartScan(last_pid + 1)
     \/ /\ last_pid + 1 < MAX_PID
        /\ last_pid + 1 < next_safe
        /\ last_pid' = last_pid + 1
        /\ at' = "got"
        /\ UNCHANGED <<next_safe, todo>>
  /\ UNCHANGED pids

(* Mutant: a bound too large by one.                                       *)
Collision_offByOne(p) ==
  /\ p = last_pid
  /\ \/ last_pid + 1 > next_safe /\ StartScan(IF last_pid + 1 >= MAX_PID THEN 1 ELSE last_pid + 1)
     \/ /\ last_pid + 1 <= next_safe
        /\ last_pid' = last_pid + 1
        /\ todo' = todo \ {p}
        /\ UNCHANGED <<next_safe, at>>

(* Mutant: the scan starts over with the pid that was taken.               *)
Collision_noStep(p) == p = last_pid /\ StartScan(last_pid)

(* The scanned pid is last_pid: try the next one, from the start of the    *)
(* list when that is not known to be free.                                 *)
Collision(p) ==
  /\ p = last_pid
  /\ \/ last_pid + 1 >= next_safe /\ StartScan(IF last_pid + 1 >= MAX_PID THEN 1 ELSE last_pid + 1)
     \/ /\ last_pid + 1 < next_safe
        /\ last_pid' = last_pid + 1
        /\ todo' = todo \ {p}
        /\ UNCHANGED <<next_safe, at>>

(* Mutant: the last larger pid counts instead of the smallest.             *)
Bound_lastSeen(p) ==
  /\ p # last_pid
  /\ next_safe' = IF p > last_pid THEN p ELSE next_safe
  /\ todo' = todo \ {p}
  /\ UNCHANGED <<last_pid, at>>

(* The scanned pid is another one: it bounds the pids known to be free.    *)
Bound(p) ==
  /\ p # last_pid
  /\ next_safe' = IF p > last_pid /\ next_safe > p THEN p ELSE next_safe
  /\ todo' = todo \ {p}
  /\ UNCHANGED <<last_pid, at>>

Scan ==
  /\ at = "scan"
  /\ \E p \in todo : Collision(p) \/ Bound(p)
  /\ UNCHANGED pids

Return ==
  /\ at = "scan"
  /\ todo = {}
  /\ at' = "got"
  /\ UNCHANGED <<pids, last_pid, next_safe, todo>>

(* do_fork links the process under the pid it got.                         *)
Link ==
  /\ at = "got"
  /\ pids' = pids \cup {last_pid}
  /\ at' = "out"
  /\ UNCHANGED <<last_pid, next_safe, todo>>

(* do_wait unlinks a process.                                              *)
Unlink(p) ==
  /\ at = "out"
  /\ pids' = pids \ {p}
  /\ UNCHANGED <<last_pid, next_safe, todo, at>>

PidNext == Enter \/ Scan \/ Return \/ Link \/ \E p \in pids : Unlink(p)

PidSpec == PidInit /\ [][PidNext]_pidVars

-----------------------------------------------------------------------------
PidTypeOK ==
  /\ pids \subseteq 1..MAX_PID - 1
  /\ last_pid \in 1..MAX_PID
  /\ next_safe \in 1..MAX_PID
  /\ todo \subseteq pids
  /\ at \in {"out", "scan", "got"}

(* "alloc a unique pid for process" (proc.c:200): the pid get_pid returns  *)
(* is a legal one that no process in the list has, however the pids in use *)
(* are scattered and however often the numbers have wrapped around.        *)
UniquePid == at = "got" => last_pid \in 1..MAX_PID - 1 /\ last_pid \notin pids

(* The cache between calls is sound: no pid between last_pid and next_safe *)
(* is in use, so the fast path need not scan.                              *)
SafeWindow == at # "scan" => \A p \in pids : p <= last_pid \/ p >= next_safe

(* get_pid returns: there are more pids than processes.                    *)
Terminates == at = "scan" ~> at = "got"
=============================================================================
