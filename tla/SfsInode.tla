------------------------------ MODULE SfsInode ------------------------------
(***************************************************************************)
(* The inodes of the simple file system in memory: the counts every inode  *)
(* carries (kern/fs/vfs/inode.c), the cache of inodes by number and the    *)
(* two semaphores that guard it (kern/fs/sfs/sfs_inode.c, sfs_lock.c).     *)
(* The operations here are what the code does between two semaphore        *)
(* operations or disk transfers, at which FileTable interleaves threads.   *)
(* No file is ever unlinked in this file system: nlinks is never 0.        *)
(***************************************************************************)
EXTENDS SemOps, FiniteSets

CONSTANTS
  Node,     \* memory for struct inode objects; also names their sin->sem
  Ino,      \* inode numbers of the files on disk
  fs_sem,   \* sfs->fs_sem
  none

ASSUME SfsInodeAssumption ==
  /\ Sem = Node \cup {fs_sem}
  /\ fs_sem \notin Node /\ none \notin Node \cup Ino
  /\ IsFiniteSet(Node) /\ IsFiniteSet(Thread)

VARIABLES
  ino,             \* sin->ino of an inode in the hash list; none: memory is free
  ref_count, open_count,
  reclaim_count,   \* sin->reclaim_count
  dirty,           \* the inodes with sin->dirty set
  stale,           \* the files whose inode on disk lacks a change marked by sin->dirty
  unmarked         \* history: the files whose inode on disk lacks another change

nodeVars == <<ino, ref_count, open_count, reclaim_count, dirty, stale, unmarked>>

Cached(i) == {n \in Node : ino[n] = i}

InodeInit ==
  /\ sem_init([s \in Sem |-> 1])
  /\ ino = [n \in Node |-> none]
  /\ ref_count = [n \in Node |-> 0]
  /\ open_count = [n \in Node |-> 0]
  /\ reclaim_count = [n \in Node |-> 0]
  /\ dirty = {}
  /\ stale = {}
  /\ unmarked = {}

(* Mutant: an inode that is about to be reclaimed is not marked as used.   *)
lookup_sfs_nolock_noCount(n) ==
  /\ ref_count' = [ref_count EXCEPT ![n] = @ + 1]
  /\ UNCHANGED <<ino, open_count, reclaim_count, dirty, stale, unmarked>>

(* The inode is in the cache: one more reference, and one more reclaim to  *)
(* wait for when the last reference had already been dropped.              *)
lookup_sfs_nolock(n) ==
  /\ ref_count' = [ref_count EXCEPT ![n] = @ + 1]
  /\ reclaim_count' = [reclaim_count EXCEPT ![n] = IF ref_count[n] = 0 THEN @ + 1 ELSE @]
  /\ UNCHANGED <<ino, open_count, dirty, stale, unmarked>>

(* sfs_create_inode, vop_init and sfs_set_links.                           *)
sfs_create_inode(n, i) ==
  /\ ino[n] = none
  /\ ino' = [ino EXCEPT ![n] = i]
  /\ ref_count' = [ref_count EXCEPT ![n] = 1]
  /\ open_count' = [open_count EXCEPT ![n] = 0]
  /\ reclaim_count' = [reclaim_count EXCEPT ![n] = 1]
  /\ UNCHANGED <<dirty, stale, unmarked>>

inode_open_inc(n) ==
  /\ open_count' = [open_count EXCEPT ![n] = @ + 1]
  /\ UNCHANGED <<ino, ref_count, reclaim_count, dirty, stale, unmarked>>

inode_open_dec(n) ==
  /\ open_count' = [open_count EXCEPT ![n] = @ - 1]
  /\ UNCHANGED <<ino, ref_count, reclaim_count, dirty, stale, unmarked>>

inode_ref_dec(n) ==
  /\ ref_count' = [ref_count EXCEPT ![n] = @ - 1]
  /\ UNCHANGED <<ino, open_count, reclaim_count, dirty, stale, unmarked>>

(* fd_array_dup for every node of bag: copies[n] new descriptors of n.     *)
DupNodes(copies) ==
  /\ ref_count' = [n \in Node |-> ref_count[n] + copies[n]]
  /\ open_count' = [n \in Node |-> open_count[n] + copies[n]]
  /\ UNCHANGED <<ino, reclaim_count, dirty, stale, unmarked>>

(* The inode in memory changes, and sin->dirty is set or has been set:     *)
(* sfs_io_nolock, sfs_truncfile.                                           *)
MarkDirty(n) ==
  /\ dirty' = dirty \cup {n}
  /\ stale' = stale \cup {ino[n]}
  /\ UNCHANGED <<ino, ref_count, open_count, reclaim_count, unmarked>>

(* sfs_bmap_load_nolock raises din->blocks of a clean inode.  It sets dirty*)
(* only when sfs_bmap_get_nolock has set an entry of the inode itself, not *)
(* when the new block is entered in the indirect block.                    *)
RaiseBlocks(n) ==
  /\ n \notin dirty
  /\ unmarked' = unmarked \cup {ino[n]}
  /\ UNCHANGED <<ino, ref_count, open_count, reclaim_count, dirty, stale>>

(* sfs_fsync up to its sfs_wbuf.                                           *)
FsyncBegin(n) ==
  /\ dirty' = dirty \ {n}
  /\ UNCHANGED <<ino, ref_count, open_count, reclaim_count, stale, unmarked>>

(* Mutant: the flag is not set again when the disk reports an error.       *)
FsyncEnd_forget(n, ok) ==
  /\ stale' = IF ok THEN stale \ {ino[n]} ELSE stale
  /\ unmarked' = IF ok THEN unmarked \ {ino[n]} ELSE unmarked
  /\ UNCHANGED <<ino, ref_count, open_count, reclaim_count, dirty>>

FsyncEnd(n, ok) ==
  /\ stale' = IF ok THEN stale \ {ino[n]} ELSE stale
  /\ unmarked' = IF ok THEN unmarked \ {ino[n]} ELSE unmarked
  /\ dirty' = IF ok THEN dirty ELSE dirty \cup {n}
  /\ UNCHANGED <<ino, ref_count, open_count, reclaim_count>>

(* Mutant: only the references are looked at.                              *)
ReclaimBusy_refs(n) == ref_count[n] # 0

(* sfs_reclaim, once it has fs_sem: another reclaim is under way, or the   *)
(* inode has been looked up again.                                         *)
ReclaimBusy(n) == reclaim_count[n] - 1 # 0 \/ ref_count[n] # 0

ReclaimCount(n) ==
  /\ reclaim_count' = [reclaim_count EXCEPT ![n] = @ - 1]
  /\ UNCHANGED <<ino, ref_count, open_count, dirty, stale, unmarked>>

(* sfs_remove_links, kfree(sin->din) and vop_kill.                         *)
vop_kill(n) ==
  /\ ino' = [ino EXCEPT ![n] = none]
  /\ dirty' = dirty \ {n}
  /\ UNCHANGED <<ref_count, open_count, reclaim_count, stale, unmarked>>
=============================================================================
