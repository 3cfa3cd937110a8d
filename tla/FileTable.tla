----------------------------- MODULE FileTable ------------------------------
(***************************************************************************)
(* Open files: the descriptor table of every process (kern/fs/file.c,      *)
(* fs.c), vfs_open and vfs_close (kern/fs/vfs/vfsfile.c) and below them    *)
(* the inode cache of the simple file system.  A call is a sequence of     *)
(* steps; other processes may run at a semaphore or a disk transfer.       *)
(* Nobody in this kernel forks with CLONE_FS, so every table belongs to    *)
(* one process.                                                            *)
(***************************************************************************)
EXTENDS SfsInode, FiniteSetsExt

CONSTANTS
  initproc,
  Fd,        \* descriptors, without those of the console
  MaxLeak,   \* bound: calls of open and execve that leave a reference behind
  Watched    \* the processes CallsReturn is checked for

ASSUME FileTableAssumption ==
  /\ initproc \in Thread /\ Watched \subseteq Thread
  /\ Fd \subseteq Nat /\ IsFiniteSet(Fd)
  /\ MaxLeak \in Nat

VARIABLES
  alive,     \* the processes that have a files_struct
  fd_array,  \* per process and descriptor: status and node
  call,      \* the call a process is in
  leaked     \* history: what nobody will give back of ref_count and open_count

vars == <<semVars, nodeVars, alive, fd_array, call, leaked>>

(* A call: the steps that are left, the inode, the descriptor and the file *)
(* number it is about, and what its loop has not come to yet.              *)
NoCall == [steps |-> <<>>, node |-> none, fd |-> none, ino |-> none, todo |-> {}]
Closed == [f \in Fd |-> [status |-> "FD_NONE", node |-> none]]

(* init_main has created user_main, which runs its program.                *)
Init ==
  /\ InodeInit
  /\ \E t \in Thread \ {initproc} : alive = {initproc, t}
  /\ fd_array = [t \in Thread |-> Closed]
  /\ call = [t \in Thread |-> NoCall]
  /\ leaked = [n \in Node |-> [ref |-> 0, open |-> 0]]

SetSlot(t, f, status, n) ==
  fd_array' = [fd_array EXCEPT ![t][f] = [status |-> status, node |-> n]]

Slots(t, status) == {f \in Fd : fd_array[t][f].status = status}

(* fd_array_alloc with NO_FD: the first slot that is free.                 *)
FirstFree(t, f) == f \in Slots(t, "FD_NONE") /\ \A g \in Slots(t, "FD_NONE") : f <= g

(* User process t may make a system call.                                  *)
Idle(t) == t \in alive \ {initproc} /\ call[t] = NoCall

(* Process t has come to a step, and goes on with others in its place.     *)
At(t, step) == call[t].steps # <<>> /\ Head(call[t].steps) = step

Has(t, steps) == \E k \in DOMAIN call[t].steps : call[t].steps[k] \in steps

Replaced(t, steps) ==
  LET s == steps \o Tail(call[t].steps)
  IN  IF s = <<>> THEN NoCall ELSE [call[t] EXCEPT !.steps = s]

GoesOn(t, steps) == call' = [call EXCEPT ![t] = Replaced(t, steps)]

(* The same when the call has done with its inode.                         *)
ReleaseNode(t) == call' = [call EXCEPT ![t] = [Replaced(t, <<>>) EXCEPT !.node = none]]

-----------------------------------------------------------------------------
(* down() of fs_sem or of sin->sem of the inode at hand.                   *)
Lock(t) ==
  \E l \in {[lock |-> "lock_sfs_fs", woken |-> "woken_sfs_fs", sem |-> fs_sem],
            [lock |-> "lock_sin", woken |-> "woken_sin", sem |-> call[t].node]} :
    /\ \/ At(t, l.lock) /\ down_take(l.sem) /\ GoesOn(t, <<>>)
       \/ At(t, l.lock) /\ down_sleep(t, l.sem) /\ GoesOn(t, <<l.woken>>)
       \/ At(t, l.woken) /\ down_resume(t, l.sem) /\ GoesOn(t, <<>>)
    /\ UNCHANGED <<nodeVars, alive, fd_array, leaked>>

(* file_open up to the semaphore of sfs_load_inode.  how is what the flags *)
(* ask for: nothing, O_CREAT|O_EXCL, or O_TRUNC.                           *)
file_open(t, i, how) ==
  /\ Idle(t)
  /\ \E f \in Fd :
       /\ FirstFree(t, f)
       /\ SetSlot(t, f, "FD_INIT", none)
       /\ call' = [call EXCEPT ![t] = [NoCall EXCEPT
            !.steps = <<"lock_sfs_fs", "sfs_load_inode", how, "fd_array_open">>,
            !.fd = f, !.ino = i]]
  /\ UNCHANGED <<semVars, nodeVars, alive, leaked>>

(* The load succeeds with inode n, or fails and file_open frees the slot.  *)
Loaded(t, n) ==
  /\ up(fs_sem)
  /\ call' = [call EXCEPT ![t] = [Replaced(t, <<>>) EXCEPT !.node = n]]

(* The file is opened by do_execve.                                        *)
Execs(t) == Has(t, {"load_icode"})

(* do_execve calls do_exit when it cannot open its program: every other    *)
(* descriptor is closed already.                                           *)
LoadFailed(t) ==
  /\ up(fs_sem)
  /\ call' = [call EXCEPT ![t].steps =
       <<"fd_array_free">> \o (IF Execs(t) THEN <<"kfree">> ELSE <<>>)]
  /\ UNCHANGED nodeVars

(* sfs_load_inode under fs_sem: the inode is in the cache, or it is read   *)
(* from disk, which may take a while, and a new inode is made for it.      *)
sfs_load_inode(t) ==
  /\ \/ /\ At(t, "sfs_load_inode")
        /\ \E n \in Cached(call[t].ino) : lookup_sfs_nolock(n) /\ Loaded(t, n)
     \/ /\ At(t, "sfs_load_inode")
        /\ Cached(call[t].ino) = {}
        /\ GoesOn(t, <<"sfs_rbuf">>)
        /\ UNCHANGED <<semVars, nodeVars>>
     \/ /\ At(t, "sfs_rbuf")
        /\ \/ \E n \in Node : sfs_create_inode(n, call[t].ino) /\ Loaded(t, n)
           \/ LoadFailed(t)
  /\ UNCHANGED <<alive, fd_array, leaked>>

(* vfs_open behind its look-up.  With O_CREAT|O_EXCL it returns -E_EXISTS  *)
(* and keeps the reference that the look-up took.                          *)
vfs_open(t) ==
  /\ \/ /\ At(t, "plain")
        /\ inode_open_inc(call[t].node)
        /\ GoesOn(t, <<>>)
        /\ UNCHANGED leaked
     \/ /\ At(t, "trunc")
        /\ inode_open_inc(call[t].node)
        /\ GoesOn(t, <<"sfs_truncfile">>)
        /\ UNCHANGED leaked
     \/ /\ At(t, "excl")
        /\ leaked' = [leaked EXCEPT ![call[t].node].ref = @ + 1]
        /\ call' = [call EXCEPT ![t].steps = <<"fd_array_free">>, ![t].node = none]
        /\ UNCHANGED nodeVars
  /\ UNCHANGED <<semVars, alive, fd_array>>

vfs_close == <<"inode_open_dec", "inode_ref_dec">>

(* sfs_truncfile to length 0 for vfs_open: the file is empty already, or   *)
(* it is changed under sin->sem; an error may come after a change.         *)
sfs_truncfile(t) ==
  /\ \/ /\ At(t, "sfs_truncfile")
        /\ \E steps \in {<<>>, <<"lock_sin", "truncate">>} : GoesOn(t, steps)
        /\ UNCHANGED <<semVars, nodeVars>>
     \/ /\ At(t, "truncate")
        /\ up(call[t].node)
        /\ \/ MarkDirty(call[t].node) /\ GoesOn(t, <<>>)
           \/ /\ MarkDirty(call[t].node) \/ UNCHANGED nodeVars
              /\ call' = [call EXCEPT ![t].steps = vfs_close \o <<"fd_array_free">>]
  /\ UNCHANGED <<alive, fd_array, leaked>>

fd_array_open(t) ==
  /\ At(t, "fd_array_open")
  /\ SetSlot(t, call[t].fd, "FD_OPENED", call[t].node)
  /\ GoesOn(t, <<>>)
  /\ UNCHANGED <<semVars, nodeVars, alive, leaked>>

fd_array_free(t) ==
  /\ At(t, "fd_array_free")
  /\ SetSlot(t, call[t].fd, "FD_NONE", none)
  /\ GoesOn(t, <<>>)
  /\ UNCHANGED <<semVars, nodeVars, alive, leaked>>

-----------------------------------------------------------------------------
(* file_close: fd_array_close, then vfs_close and fd_array_free.           *)
file_close(t, f) ==
  /\ Idle(t)
  /\ f \in Slots(t, "FD_OPENED")
  /\ SetSlot(t, f, "FD_CLOSED", fd_array[t][f].node)
  /\ call' = [call EXCEPT ![t] = [NoCall EXCEPT
       !.steps = vfs_close \o <<"fd_array_free">>,
       !.node = fd_array[t][f].node, !.fd = f]]
  /\ UNCHANGED <<semVars, nodeVars, alive, leaked>>

(* The steps of sfs_fsync, which looks at dirty before it locks.           *)
FsyncSteps(n) == IF n \in dirty THEN <<"lock_sin", "sfs_fsync">> ELSE <<>>

(* inode_open_dec; the last close writes the inode back.                   *)
OpenDec(t) ==
  LET n == call[t].node IN
  /\ At(t, "inode_open_dec")
  /\ inode_open_dec(n)
  /\ GoesOn(t, IF open_count[n] = 1 THEN FsyncSteps(n) ELSE <<>>)
  /\ UNCHANGED <<semVars, alive, fd_array, leaked>>

(* inode_ref_dec; the last reference reclaims the inode.                   *)
RefDec(t) ==
  LET n == call[t].node IN
  /\ At(t, "inode_ref_dec")
  /\ inode_ref_dec(n)
  /\ IF ref_count[n] = 1 THEN GoesOn(t, <<"lock_sfs_fs", "sfs_reclaim">>) ELSE ReleaseNode(t)
  /\ UNCHANGED <<semVars, alive, fd_array, leaked>>

(* The call of sfs_fsync at hand is the one in sfs_reclaim.                *)
Reclaiming(t) == Len(call[t].steps) > 1 /\ call[t].steps[2] = "vop_kill"

(* sfs_fsync under sin->sem; the inode may be clean by now.  An error sets *)
(* dirty again and is reported to the caller, of which only sfs_reclaim    *)
(* looks at it.                                                            *)
sfs_fsync(t) ==
  LET n == call[t].node IN
  /\ \/ /\ At(t, "sfs_fsync") /\ n \notin dirty
        /\ up(n)
        /\ GoesOn(t, <<>>)
        /\ UNCHANGED nodeVars
     \/ /\ At(t, "sfs_fsync") /\ n \in dirty
        /\ FsyncBegin(n)
        /\ GoesOn(t, <<"sfs_wbuf">>)
        /\ UNCHANGED semVars
     \/ /\ At(t, "sfs_wbuf")
        /\ up(n)
        /\ \E ok \in BOOLEAN :
             /\ FsyncEnd(n, ok)
             /\ IF ok \/ ~Reclaiming(t) THEN GoesOn(t, <<>>)
                ELSE call' = [call EXCEPT ![t].steps = <<"failed_unlock">> \o Tail(Tail(@))]
  /\ UNCHANGED <<alive, fd_array, leaked>>

(* Mutant: fs_sem is kept.                                                 *)
failed_unlock_not(t) == ReleaseNode(t) /\ UNCHANGED semVars

(* The way out of sfs_reclaim without success.                             *)
failed_unlock(t) == ReleaseNode(t) /\ up(fs_sem)

(* sfs_reclaim under fs_sem.                                               *)
sfs_reclaim(t) ==
  LET n == call[t].node IN
  /\ \/ /\ At(t, "sfs_reclaim")
        /\ ReclaimCount(n)
        /\ \/ ReclaimBusy(n) /\ failed_unlock(t)
           \/ /\ ~ReclaimBusy(n)
              /\ GoesOn(t, FsyncSteps(n) \o <<"vop_kill">>)
              /\ UNCHANGED semVars
     \/ At(t, "vop_kill") /\ vop_kill(n) /\ up(fs_sem) /\ ReleaseNode(t)
     \/ At(t, "failed_unlock") /\ failed_unlock(t) /\ UNCHANGED nodeVars
  /\ UNCHANGED <<alive, fd_array, leaked>>

-----------------------------------------------------------------------------
(* A call about the inode of an open descriptor.                           *)
OnFile(t, f, steps) ==
  /\ Idle(t)
  /\ f \in Slots(t, "FD_OPENED")
  /\ call' = [call EXCEPT ![t] =
       IF steps = <<>> THEN NoCall
       ELSE [NoCall EXCEPT !.steps = steps, !.node = fd_array[t][f].node]]
  /\ UNCHANGED <<semVars, nodeVars, alive, fd_array, leaked>>

(* file_read, file_write, and file_seek behind the end of the file.        *)
file_write(t, f) == OnFile(t, f, <<"lock_sin", "sfs_io_nolock">>)
file_fsync(t, f) == OnFile(t, f, FsyncSteps(fd_array[t][f].node))

(* sfs_io_nolock, or sfs_truncfile for sfs_tryseek, changes the inode when *)
(* the file gets a block or a new size.  A block that is added without     *)
(* dirty stays unmarked when the loop of sfs_truncfile then finds the disk *)
(* full, when the disk reports an error, or when the size was ahead of it. *)
sfs_io(t) ==
  /\ At(t, "sfs_io_nolock")
  /\ MarkDirty(call[t].node) \/ RaiseBlocks(call[t].node) \/ UNCHANGED nodeVars
  /\ up(call[t].node)
  /\ GoesOn(t, <<>>)
  /\ UNCHANGED <<alive, fd_array, leaked>>

(* file_dup into the slot g, or into the first free one when g is NO_FD.   *)
file_dup(t, f, g) ==
  /\ Idle(t)
  /\ f \in Slots(t, "FD_OPENED") /\ g \in Slots(t, "FD_NONE")
  /\ DupNodes([n \in Node |-> IF n = fd_array[t][f].node THEN 1 ELSE 0])
  /\ SetSlot(t, g, "FD_OPENED", fd_array[t][f].node)
  /\ UNCHANGED <<semVars, alive, call, leaked>>

(* copy_files of do_fork: files_create and dup_files.                      *)
copy_files(t, u) ==
  /\ Idle(t) /\ u \notin alive
  /\ alive' = alive \cup {u}
  /\ DupNodes([n \in Node |->
       Cardinality({f \in Slots(t, "FD_OPENED") : fd_array[t][f].node = n})])
  /\ fd_array' = [fd_array EXCEPT ![u] = fd_array[t]]
  /\ UNCHANGED <<semVars, call, leaked>>

(* files_destroy in do_exit and files_closeall in do_execve: every open    *)
(* descriptor is closed; then the first frees the table and the second     *)
(* opens program i.                                                        *)
CloseAll(t, last, i) ==
  /\ Idle(t)
  /\ call' = [call EXCEPT ![t] = [NoCall EXCEPT
       !.steps = <<"next_fd", last>>, !.ino = i, !.todo = Slots(t, "FD_OPENED")]]
  /\ UNCHANGED <<semVars, nodeVars, alive, fd_array, leaked>>

put_files(t) == CloseAll(t, "kfree", none)
do_execve(t, i) == CloseAll(t, "sysfile_open", i)

CloseNext(t) ==
  /\ \/ /\ At(t, "next_fd") /\ call[t].todo # {}
        /\ \E f \in call[t].todo :
             /\ \A g \in call[t].todo : f <= g
             /\ SetSlot(t, f, "FD_CLOSED", fd_array[t][f].node)
             /\ call' = [call EXCEPT ![t] =
                  [Replaced(t, vfs_close \o <<"fd_array_free", "next_fd">>)
                  EXCEPT !.node = fd_array[t][f].node, !.fd = f, !.todo = @ \ {f}]]
        /\ UNCHANGED alive
     \/ /\ At(t, "next_fd") /\ call[t].todo = {}
        /\ GoesOn(t, <<>>)
        /\ UNCHANGED <<alive, fd_array>>
     \/ /\ At(t, "kfree")
        /\ alive' = alive \ {t}
        /\ GoesOn(t, <<>>)
        /\ UNCHANGED fd_array
  /\ UNCHANGED <<semVars, nodeVars, leaked>>

(* do_execve opens its program, or goes to do_exit when it cannot.         *)
sysfile_open(t) ==
  /\ At(t, "sysfile_open")
  /\ \/ /\ \E f \in Fd :
             /\ FirstFree(t, f)
             /\ SetSlot(t, f, "FD_INIT", none)
             /\ call' = [call EXCEPT ![t] = [@ EXCEPT
                  !.steps = <<"lock_sfs_fs", "sfs_load_inode", "plain", "fd_array_open",
                              "load_icode_read", "load_icode">>,
                  !.fd = f]]
     \/ GoesOn(t, <<"kfree">>) /\ UNCHANGED fd_array
  /\ UNCHANGED <<semVars, nodeVars, alive, leaked>>

Leaks == MapThenSumSet(LAMBDA n : leaked[n].ref, Node)

(* A descriptor of inode n in a table that nobody will ever close.         *)
LeftOpen(n) == leaked' = [leaked EXCEPT ![n] = [ref |-> @.ref + 1, open |-> @.open + 1]]

(* load_icode reads the program in pieces, of which one stands for all.    *)
load_icode_read(t) ==
  /\ At(t, "load_icode_read")
  /\ GoesOn(t, <<"lock_sin", "sfs_io_nolock">>)
  /\ UNCHANGED <<semVars, nodeVars, alive, fd_array, leaked>>

(* load_icode closes the program it has read, unless it has failed before; *)
(* do_execve calls do_exit after a failure, which has no mm left and       *)
(* therefore skips put_files.  A failure behind the close loses the table  *)
(* alone.                                                                  *)
load_icode(t) ==
  LET c == call[t] IN
  /\ At(t, "load_icode")
  /\ \/ /\ SetSlot(t, c.fd, "FD_CLOSED", c.node)
        /\ \E last \in {<<>>, <<"kfree">>} : GoesOn(t, vfs_close \o <<"fd_array_free">> \o last)
        /\ UNCHANGED <<alive, leaked>>
     \/ /\ Leaks < MaxLeak
        /\ LeftOpen(c.node)
        /\ SetSlot(t, c.fd, "FD_NONE", none)
        /\ alive' = alive \ {t}
        /\ call' = [call EXCEPT ![t] = NoCall]
  /\ UNCHANGED <<semVars, nodeVars>>

(* init_main, when no other process is left: fs_cleanup calls sfs_sync.    *)
fs_cleanup ==
  /\ alive = {initproc}
  /\ alive' = {}
  /\ call' = [call EXCEPT ![initproc] = [NoCall EXCEPT
       !.steps = <<"lock_sfs_fs", "sfs_sync">>, !.todo = {n \in Node : ino[n] # none}]]
  /\ UNCHANGED <<semVars, nodeVars, fd_array, leaked>>

(* Every cached inode is written back under fs_sem; errors are ignored.    *)
sfs_sync(t) ==
  /\ \/ /\ At(t, "sfs_sync") /\ call[t].todo # {}
        /\ \E n \in call[t].todo :
             call' = [call EXCEPT ![t] = [Replaced(t, FsyncSteps(n) \o <<"sfs_sync">>)
               EXCEPT !.node = n, !.todo = @ \ {n}]]
        /\ UNCHANGED semVars
     \/ /\ At(t, "sfs_sync") /\ call[t].todo = {}
        /\ up(fs_sem)
        /\ GoesOn(t, <<>>)
  /\ UNCHANGED <<nodeVars, alive, fd_array, leaked>>

-----------------------------------------------------------------------------
(* What a process does on its own once it is in a call.                    *)
Run(t) ==
  \/ Lock(t) \/ sfs_load_inode(t) \/ vfs_open(t) \/ sfs_truncfile(t)
  \/ fd_array_open(t) \/ fd_array_free(t) \/ OpenDec(t) \/ RefDec(t)
  \/ sfs_fsync(t) \/ sfs_reclaim(t) \/ sfs_io(t) \/ CloseNext(t)
  \/ sysfile_open(t) \/ load_icode_read(t) \/ load_icode(t) \/ sfs_sync(t)

(* The kernel is not preemptive: a process gives up the processor at a     *)
(* semaphore, taken or not, or while a disk transfer is under way.         *)
Yields == {"lock_sfs_fs", "lock_sin", "woken_sfs_fs", "woken_sin", "sfs_rbuf", "sfs_wbuf",
           "truncate", "sfs_io_nolock"}

Running == {t \in Thread : call[t].steps # <<>> /\ Head(call[t].steps) \notin Yields}

MayRun(t) == Running \subseteq {t}

Call(t) ==
  \/ \E i \in Ino, how \in {"plain", "trunc"} : file_open(t, i, how)
  \/ \E i \in Ino : Leaks < MaxLeak /\ file_open(t, i, "excl")
  \/ \E f \in Fd : file_close(t, f) \/ file_write(t, f) \/ file_fsync(t, f)
  \/ \E f, g \in Fd : file_dup(t, f, g)
  \/ \E u \in Thread : copy_files(t, u)
  \/ put_files(t) \/ \E i \in Ino : do_execve(t, i)

Next == fs_cleanup \/ \E t \in Thread : MayRun(t) /\ (Run(t) \/ Call(t))

Spec == Init /\ [][Next]_vars

(* A process that can run is given the processor in the end, and disk      *)
(* transfers end.                                                          *)
FairSpec == Spec /\ \A t \in Thread : WF_vars(Run(t))

-----------------------------------------------------------------------------
(* The callers that have one of these steps before them with inode n.      *)
Callers(n, steps) == {t \in Thread : call[t].node = n /\ Has(t, steps)}

Descriptors(n) ==
  {d \in Thread \X Fd : d[2] \in Slots(d[1], "FD_OPENED") /\ fd_array[d[1]][d[2]].node = n}

(* The counts of an inode are exact at every moment.  ref_count and        *)
(* open_count are the descriptors, the calls that will still give theirs   *)
(* back, and what vfs_open and a failed load_icode left behind;            *)
(* reclaim_count is the number of sfs_reclaim calls that are waiting for   *)
(* fs_sem, plus one while there are references.                            *)
CountsExact ==
  \A n \in Node : ino[n] # none =>
    /\ ref_count[n] = Cardinality(Descriptors(n)) + leaked[n].ref
         + Cardinality(Callers(n, {"plain", "trunc", "excl", "fd_array_open", "inode_ref_dec"}))
    /\ open_count[n] = Cardinality(Descriptors(n)) + leaked[n].open
         + Cardinality(Callers(n, {"inode_open_dec"}))
         + Cardinality({t \in Callers(n, {"fd_array_open"}) : ~Has(t, {"plain", "trunc", "excl"})})
    /\ reclaim_count[n] = Cardinality(Callers(n, {"sfs_reclaim"}))
         + (IF ref_count[n] > 0 THEN 1 ELSE 0)

(* No descriptor and no call, one that waits for sin->sem included, refers *)
(* to an inode that has been freed, and a file has at most one inode.      *)
NoUseAfterFree ==
  /\ \A n \in Node : ino[n] = none =>
       /\ Descriptors(n) = {} /\ wait_queue[n] = <<>> /\ value[n] = 1
       /\ \A t \in Thread : call[t].node # n
  /\ \A i \in Ino : Cardinality(Cached(i)) <= 1

(* A change that has been marked reaches the disk before the inode is      *)
(* forgotten: while the disk is behind, the inode is in memory and marked, *)
(* or a write is under way that will mark it again if it fails.            *)
NoUpdateLost ==
  \A i \in stale : \E n \in Cached(i) : n \in dirty \/ Callers(n, {"sfs_wbuf"}) # {}

(* "true if inode modified" (sfs.h:72), of sin->dirty: the disk is behind  *)
(* only with inodes that are marked or being written.                      *)
DirtyIfModified ==
  \A i \in stale \cup unmarked : \E n \in Cached(i) : n \in dirty \/ Callers(n, {"sfs_wbuf"}) # {}

(* Every call comes back: fs_sem and the semaphores of the inodes are never*)
(* waited for in a circle, and nobody is passed over for ever.             *)
CallsReturn == \A t \in Watched : call[t] # NoCall ~> call[t] = NoCall
=============================================================================
