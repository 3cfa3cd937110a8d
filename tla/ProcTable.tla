----------------------------- MODULE ProcTable ------------------------------
(***************************************************************************)
(* The process table of kern/process/proc.c: do_fork takes a pid from      *)
(* get_pid (GetPid) and links the process (ProcLinks), do_wait unhashes    *)
(* and unlinks it, and find_proc looks a process up by its pid.  What      *)
(* do_fork and do_exit do with interrupts off is not interleaved.          *)
(***************************************************************************)
EXTENDS ProcLinks, GetPid

VARIABLE pid  \* proc->pid; 0 while the proc_struct is not allocated

tableVars == <<vars, pidVars, pid>>

TableInit ==
  /\ Init
  /\ PidInit
  /\ pid = [p \in Proc |-> IF p = initproc THEN 1 ELSE 0]

(* do_fork up to the end of get_pid: alloc_proc has found a proc_struct.   *)
GetsPid ==
  /\ exiting = NULL
  /\ \E c \in Proc : state[c] = "free"
  /\ Enter \/ Scan \/ Return
  /\ UNCHANGED <<vars, pid>>

(* hash_proc: from now on find_proc finds c under the pid.                 *)
Hashes(c) == pid' = [pid EXCEPT ![c] = last_pid]

Forks(p, c) == do_fork(p, c) /\ Link /\ Hashes(c)

Exits ==
  /\ at = "out"
  /\ (\E p \in Proc : do_exit(p)) \/ Adopt \/ ExitDone
  /\ UNCHANGED <<pidVars, pid>>

Waits(c) ==
  /\ do_wait(c)
  /\ Unlink(pid[c])
  /\ pid' = [pid EXCEPT ![c] = 0]

TableNext ==
  \/ GetsPid
  \/ \E p, c \in Proc : Forks(p, c)
  \/ Exits
  \/ \E c \in Proc : Waits(c)

TableSpec == TableInit /\ [][TableNext]_tableVars

(* get_pid runs to its end.                                                *)
TableFairSpec == TableSpec /\ WF_tableVars(GetsPid /\ at = "scan")

-----------------------------------------------------------------------------
(* find_proc is a function of the pid: no two processes that are in the    *)
(* table, zombies included, have the same pid, however often the numbers   *)
(* have wrapped around and whoever has kept an old one.                    *)
PidNamesOneProcess ==
  \A p, q \in Proc :
    (state[p] # "free" /\ state[q] # "free" /\ pid[p] = pid[q]) => p = q
=============================================================================
