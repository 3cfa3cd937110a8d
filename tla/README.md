# TLA+ models of TriOS

TriOS is a RISC-V teaching kernel built in stages, `lab0` to `lab8`; each stage
copies the code of the one before and adds a part. The models follow the last
stage, `src/lab8`, and use an earlier one only for a part that `lab8` no longer
builds (the round-robin scheduling class of `lab6`). Paths below are relative to
`src/lab8` unless they name a lab.

## 1. The system

One hart, one address space per process, no preemption inside the kernel:

- a system call runs with interrupts off from its entry to the end of `trap()`;
- `trap()` (`kern/trap/trap.c:273`) calls `do_exit` or `schedule()` only for a
  trap that came from user mode;
- kernel threads (`initproc`, `idleproc`, the philosophers) run with interrupts
  on, so the timer interrupt can run in the middle of them, but it never
  switches away from them.

Control therefore moves between processes only where the code calls
`schedule()`, and a stretch of kernel code between two such points is one step
of the models. The synchronisation models are deliberately coarser about the
scheduler: threads interleave between any two semaphore operations, so their
results do not rest on kernel threads keeping the processor. `FileTable` does the
same at every semaphore and disk transfer: the disk of `lab8` is memory and never
sleeps, so its runs contain every behaviour of the code and those a real disk would add.

| Part | State | Operations | Talks to | What is hard |
|---|---|---|---|---|
| Process life cycle, `kern/process/proc.c` | `proc_struct`: state, wait_state, flags, parent, kernel stack; nr_process | do_fork, do_exit, do_wait, do_kill, do_sleep, do_yield, init_main | scheduler, timers, family links, memory, files | a kill, an exit and a wait meeting in any order; orphans; zombies inherited by init |
| Family links, `proc.c` | parent, cptr, yptr, optr | set_links, remove_links, the loop of do_exit | do_wait walks them | pointers of two lists change while one is walked |
| Process identifiers, `proc.c` | last_pid, next_safe | get_pid | proc_list | wrap-around while old processes live on |
| Scheduler core, `kern/schedule/sched.c` | run queue, current | wakeup_proc, schedule | scheduling class | queued twice, not queued, queued while running |
| Scheduling classes, `default_sched_stride.c`, lab6 `default_sched_c.c` | run list or skew heap, slices, strides | enqueue, dequeue, pick_next, proc_tick | core | 32-bit strides wrap; starvation |
| Timers, `sched.c` | delta list | add_timer, del_timer, run_timer_list | do_sleep, timer interrupt | relative counts under insertion and deletion; timers on stacks |
| Wait queues, semaphores, `kern/sync` | value, queue, wakeup_flags | up, down, try_down | scheduler, do_kill | direct hand-off; kills of sleepers |
| Monitors, `kern/sync/monitor.c` | mutex, next, next_count, cv.count, cv.sem | cond_signal, cond_wait | semaphores | Hoare hand-off with several signallers |
| Dining philosophers, `kern/sync/check_sync.c` | state of each philosopher | take and put forks | semaphores, monitors | deadlock, lost grants |
| Keyboard, `kern/fs/devs/dev_stdin.c` | ring buffer, wait queue | dev_stdin_write, dev_stdin_read | timer interrupt, do_kill | full buffer; several readers; kill against key |
| Page allocator, `kern/mm/default_pmm.c` | free list, property, nr_free | init_memmap, alloc_pages, free_pages | everything | splitting and merging on a doubly linked list |
| Page tables and VMAs, `kern/mm/pmm.c`, `vmm.c` | tables of three levels, reference counts, vma lists | get_pte, page_insert, copy_range, unmap_range, exit_range, mm_map, do_pgfault | fork, exec, exit, allocator | tables and pages freed in the right order; failure half-way; memory exhausted |
| Page replacement, `kern/mm/swap.c`, `swap_fifo.c` | list of swappable pages, swap entries | swap_out, swap_in | alloc_pages, page faults | a list shared by all address spaces; a write that fails |
| Open files, `kern/fs/file.c`, `fs.c`, `vfs/` | descriptor tables, inode counts | open, close, dup, write, fsync, fork, exec, exit | simple file system | counts across forks, failures, races and programs that cannot be loaded |
| Inode cache, `kern/fs/sfs/sfs_inode.c`, `sfs_lock.c` | inodes by number, reclaim_count, dirty, two semaphores | sfs_load_inode, sfs_fsync, sfs_reclaim, sfs_sync | VFS, disk | reclaim against look-up; lock order; disk errors; changes that are not marked |
| File contents, `sfs_inode.c`, `sfs_io.c`, `bitmap.c` | block map, free map, disk | sfs_io_nolock, sfs_truncfile, sfs_tryseek | VFS, disk | transfers cut into blocks; disk full half-way |
| Kernel heap, `kern/mm/kmalloc.c` | SLOB lists, big blocks | kmalloc, kfree | everything | rounding of sizes (not modelled) |

`PROJECT.json` lists every part, the ones that are left out with the reason, and
the hazards of the code at the lines where they bite.

## 2. Modules

| Module | Models | Used by |
|---|---|---|
| `Kernel` | life cycle of processes, `schedule()`, timer interrupt, end of `trap()` | `KernelProofs` |
| `ProcLinks` | child and sibling pointers | `ProcTable` |
| `GetPid` | the pid allocator | `ProcTable` |
| `ProcTable` | composes the two: forks that take a pid and link a process, exits, waits, look-up by pid | `ProcTableProofs` |
| `Timers` | abstract: every timer counts down on its own | `TimerList` (`FiresOnTime`) |
| `TimerList` | the delta list that implements it | `Interrupts` |
| `SchedClass` | abstract: what the core and `Kernel` expect of a class, fairness included | `Sched` (`IsSchedClass`) |
| `StrideSched` | the skew heap and strides modulo `Mod` | `Sched` |
| `Sched` | `schedule()`, `wakeup_proc` and the tick over either class, round robin or stride | `SchedProofs` |
| `SemOps` | `up`, `down` and the wait queue operations, for any set of semaphores | `Monitor`, `SfsInode` |
| `CountingSem` | abstract: permits that at most one thread holds each | `CheckSync` (`IsCountingSem`) |
| `Monitor` | `cond_signal`, `cond_wait`, leaving a monitor | `CheckSync` |
| `CheckSync` | the philosophers, with semaphores and then in a monitor, and kills | `CheckSyncProofs` |
| `Stdin` | the keyboard device | `Interrupts` |
| `Interrupts` | composes the two in the handler of the timer interrupt | `SchedProofs` |
| `DList` | the doubly linked lists of `libs/list.h` | `DefaultPmm` |
| `DefaultPmm` | first fit, pointer by pointer | `DefaultPmmProofs` |
| `AddressSpaces` | abstract: every process has a memory of its own, copied by fork, replaced by exec | `Vm` (`IsAddressSpaces`) |
| `Vm` | page tables, areas, faults, replacement, fork, exec and exit | `MCVm`, `VmProofs` |
| `MCVm` | the programs and the layout of the `vm` run | |
| `SfsInode` | counts, cache and locks of inodes | `FileTable` |
| `FileTable` | descriptor tables and the calls on open files over `SfsInode` | `FileTableProofs` |
| `FileStore` | abstract: a file is a sequence of bytes | `SfsFile` (`IsFileStore`) |
| `SfsFile` | block map, free map, transfers and truncation | `SfsFileProofs` |

### State and actions against the code

**Kernel.** A variable per field that matters, each a function on the
`proc_struct`s: `state` (`"FREE"`: not allocated), `wait_state`, `parent`,
`timer` (ticks left), `pc` (where the process continues when `schedule()`
switches to it; a dead process keeps no place), `waitfor` (the pids its `do_wait` is for); sets for the flags
`PF_EXITING` (`exiting`) and `need_resched`; `runq`, `current`, `nr_process`.
`Sys*` are the system calls, `WaitResume` and `SleepResume` the code behind the
`schedule()` of `do_wait` and `do_sleep`, `TrapReturn` the end of `trap()`,
`InitFork`/`InitWait`/`InitExit` the thread `init_main`, `IdleSchedule` the idle
loop, `Tick` the timer interrupt. `panicked` stands for a kernel that has called
`panic` (init killed, for instance). The scheduling class is a set from which
`pick_next` takes any member; `Sched` has the real ones.

**ProcLinks, GetPid, ProcTable.** `do_exit`'s loop and `get_pid`'s scan run with interrupts
off; they are taken apart into one step per element only so that the invariants
between iterations can be stated. `get_pid` scans in any order: its result may not
depend on the order of `proc_list`. `ProcTable` joins their steps as `do_fork` and
`do_wait` do, with the pid of every process as the only state of its own.

**TimerList.** The loop of `add_timer` is `ToPlace`, what it leaves of the time at each timer it passes,
and `StopsAt`, the timer at which it ends. The refinement to
`Timers` maps an entry to the sum of the counts up to it (`TicksTo`).

**Sched.** `sched_class` is chosen once, as the build does. The core's `schedule()`,
`wakeup_proc` and `sched_class_proc_tick` are shared; `run_list` belongs to round robin,
`lab6_run_pool`, `lab6_stride` and `lab6_priority` to stride, whose own `run_list` is written and
never read and is left out. At first every process is still to be forked, which is the same as asleep: `wakeup_proc`
is how `do_fork` brings it in. The skew heap is the pointers of the code, `parent` included; `skew_heap_merge`,
which calls itself, is taken apart into its calls by their depth (`Calls`), each of which links what the next one returns.
`lab6_set_priority` stores what it is given, so a priority may be above `BIG_STRIDE`, where the pass is 0, and it may
never have been set. `IsSchedClass` is the safety half of `SchedClass` for both classes (`RunsTheReady`) and all of it for round robin; in
the second part, under stride, the mapping is constant.

**Semaphores and philosophers.** `down` is one step up to its `schedule()` and one behind it
(`down_take`/`down_sleep`/`down_resume`); `up` hands the permit to the first
waiter without raising `value`. `do_kill` is included: `WT_KSEM` is not
interruptible, so the assertion of `down` must survive it. `CheckSync` runs the two
solutions one after the other as `check_sync` does; `state` is `state_sema` first and
`state_condvar` then. A place `pc[i]` is a label together with the place it goes on from,
which stands for the call stack.

**Stdin.** Characters are numbered in the order they are typed, so that order and
loss can be stated. `sleeping` holds the readers inside `schedule()`; `accepted` and `delivered` are history.

**Interrupts.** One step of `interrupt_handler` (`trap.c:143`) runs the timer list and then hands the device the
character `cons_getc` has returned, if any; everything processes do with timers and with the device happens between two of them.

**DefaultPmm.** `links` holds the `next` and `prev` pointers of every page and of
the list head. The code follows both, and after a defective insertion they
disagree, so a sequence would not do. `KeepTop` says whether clients leave the
top page alone; see the finding below.

**Vm.** An entry of a page table is named by the way to it, `<<mm, i, j, k>>`, and `use` maps
the valid entries to frames; a table is itself such an entry. Start-up runs `check_swap` on
a few frames with page replacement, writes to the swap disk failing at will; after it
`check_mm_struct` is `NULL` for ever, and an allocation that finds no frame makes the
kernel fault in `swap_out(NULL)` (`Panics`). No operation calls `schedule()`, so each is one
step. Fresh pages hold anything: the code does not clear them. `mm_count` is 1 throughout,
because only kernel threads are forked with `CLONE_VM`; TLB and `satp`, the cached last area
of `find_vma`, and stores outside writable areas are left out. `spread` is history: a
program whose areas lie in two tables of one directory has run.

**SfsInode, FileTable.** The operations of `SfsInode` are the stretches of code between two
semaphore operations or disk transfers; a call in `FileTable` is the sequence of those that
are left, and other processes run at each of them. Every disk transfer may fail.
Descriptors of the console, directories, current directories and paths are left out;
files are never unlinked here, so `nlinks` is never 0. Exec is `do_execve` up to the end of `load_icode`: it closes every descriptor,
opens the program into the empty table (`sysfile_open`), reads it through the descriptor (`load_icode_read`) and closes it
(`load_icode`). It may fail at each of these. A failure before `sysfile_close` (`proc.c:755`) leaves the program open in
a table nobody will look at again, because `do_exit` skips `put_files` when there is no `mm`.

`leaked` counts, for each inode, the references and opens nobody will give back: those of such a program, and the reference
`vfs_open` keeps when it refuses with `-E_EXISTS`; `CountsExact` shows that nothing else leaks. `dirty` is the flag as the code
sets it. A change is one of two kinds. `MarkDirty` is one that sets the flag or finds it set; until it is written back the
file is in `stale`. `RaiseBlocks` is the one of `sfs_bmap_load_nolock` that does not set it and is left so by a call that then fails;
it puts the file in `unmarked`. Reading, writing and seeking behind the end may do either (`sfs_io`).

**SfsFile.** The file system is one record, and the operators take it and return it as the
code leaves it, with the code's result (`"panic"` for a failed assertion); `Then` is the
early return. A call neither sleeps nor meets a disk error on this disk, so it is one step.
Positions are arbitrary, since a file can be truncated through another descriptor.
`SFS_MAX_FILE_SIZE` is not reached: the disk is full long before, in the code too.

## 3. Runs

| Run | Instance | Shows |
|---|---|---|
| `kernel` | 3 user processes | The run queue is exact, every sleeper has a waker, timers are on live stacks, init's closing assertions hold, a `proc_struct` is freed once, as a zombie, by its parent; a process killed inside a call exits, `do_sleep` and a `do_wait` with a zombie to collect come back |
| `kernel_kill` | 2 user processes | *violated*: finding 1 |
| `proc_table` | 3 user processes and init, pids below 6 | Sibling lists are doubly linked; `do_wait`'s walk from `cptr` ends and meets exactly the children; no two processes share a pid; `get_pid` ends |
| `check_sync` | 4 philosophers, 2 meals | Semaphores hand permits over without losing or making one; a kill does not end a `down`; one thread in the critical section or monitor; the one woken still may eat; neighbours do not eat together; everybody finishes |
| `sched` | 3 processes and idle, slice 1, strides modulo 8 from 6, `BIG_STRIDE` 2, priorities 1 to 3 set at any time, sleep under round robin | A process is in one place and the heap is a tree, even when the stride comparison is no order; both classes run what is ready and nothing else; round robin overtakes nobody and implements `SchedClass` with its fairness; once all are forked and while nobody sleeps strides stay within `BIG_STRIDE`, the heap's root is the minimum, and nobody starves unless a priority is above `BIG_STRIDE` |
| `interrupts` | 3 timers, up to 3 ticks; 3 readers, buffer of 2, 4 keys | The delta list implements independent timers; nobody sleeps on unread characters; no `wait_t` outlives its frame; characters come out in order |
| `default_pmm` | 9 pages, top page never used | No page is lost or in two blocks; the list is sound and in address order; a request fails only when no run of free pages is long enough |
| `default_pmm_top` | 6 pages | *violated*: finding 2 |
| `files` | 2 processes and init, 2 descriptors, 1 file, 2 inodes of memory, 1 leak | The three counts of an inode are exact; no inode is freed while it is referred to or waited for; a change that was marked is not forgotten before it is on disk; every call returns |
| `files_dirty` | the same | *violated*: finding 3 |
| `vm` | 2 address spaces, 20 frames, tables of 4 entries, `check_swap` with 3 pages on 2 frames | No frame is in two places, none is lost by programs with one table per directory; the FIFO is exactly the pages in memory; every process has a memory of its own |
| `sfs_file` | 2 files, 3 blocks of 2 cells, 1 direct block | Free map and block maps agree, also when a call fails half-way; reads and writes that cover no whole block are those of a sequence of bytes |

**Bounds.** Three user processes are the fewest with which init, asleep in
`do_wait` for a child, inherits the zombie of a grandchild's parent: the one case in
which `do_exit` has two processes to wake. What `kernel` checks of safety is proved
for any number of them (section 5). User slots are interchangeable, so the liveness
properties are stated for one of them and init (`Watched`). Pids below 6 for at most
4 processes in the table make `get_pid` wrap around with survivors in every position.
Four philosophers are the fewest with two who are not neighbours; the five of the code pass
with one meal each. Strides are modulo
8 and start at 6; a `BIG_STRIDE` of 2, below a third of the range, keeps the ratio the code
relies on, lets the strides wrap with the first picks, and lets a late fork fall behind by more than half
the range. A sleeper does the same by the same `wakeup_proc`, so processes do not sleep under stride in the
run (`Sleepers`), which would multiply it; the theorems have any sleepers. Priority 3 is above `BIG_STRIDE`: its pass is 0. Priority 0, where
the processor's division by zero yields all ones, is for the theorems too; `sched` with the priorities 0, 1 and 3, one sleeper and
the safety properties only was run by hand (714 112 states). Three timers are the fewest with one in the middle; the keyboard
buffer of 2 fills and wraps twice with 4 keys, and timers and readers are symmetric. Nine pages allow blocks of different sizes,
merges on both sides and blocks freed in parts; the run uses the view `Readable`,
which leaves out the fields of pages outside the list: every operation writes them
before it reads them. `files` has two inodes' worth of memory for one file, so that a second
inode of the same file would be possible if the cache allowed it, and two descriptors, the fewest that `file_dup` can be
called with. `MaxLeak` ends calls that leave a reference behind after the first, which is enough for every call to meet an inode with one. In `vm` the programs are one
within a table, one across two tables and one whose segments overlap and which is refused
half-way; 20 frames let two processes run and memory run out. Its view `Shape` names the
frames by where they are: no frame is ever shared, so states that differ in the numbers of
frames alone behave alike. In `sfs_file` three blocks let one file need its indirect block
while the other holds the last free block, both orders of running out included; its view
`Readable` leaves out free blocks, which are cleared when they are allocated, and the two files are
symmetric.

**Deadlock** is checked except where the system really stops: `default_pmm_top`, where a damaged list may leave no step, and `vm`, `files`,
`files_dirty` and `sfs_file`, which end with a panic, with everybody gone, or with data astray. For the
philosophers `EverybodyQuits` says more, for open files `CallsReturn`.

**Fairness.** `Kernel`: weak fairness of kernel code that has the processor. Strong
fairness of the timer interrupt that asks for a switch: the interrupt stays
pending while interrupts are off, so going in and out of the kernel does not
avoid it, and a class ends every slice. No process stays in the run queue for
ever: that is what `SchedClass` promises, and `sched` shows that round robin
keeps the promise from nothing but ticks going on (`WF(Tick)`) and a trap that finds
`need_resched` set calling `schedule()` (`WF` of `Rescheduled`). Philosophers and open files: weak fairness of each
thread, which is what such a class gives a runnable thread; a thread inside
leaves in the end. Nothing is assumed of threads that want nothing, of keys being
typed, or of kills. `get_pid`: weak fairness of its own loop.

## 4. Findings

1. **A killed process may never exit** (`kernel_kill`, `KilledExits`).
   `trap()` tests `PF_EXITING` before its `schedule()`. A process killed while it
   waits in the run queue there returns to user mode; if it then calls `do_wait` it
   sleeps with the flag set, and a second `do_kill` returns `-E_KILLED` without
   waking it. It exits only if a child does.
2. **First fit gives out a page twice** (`default_pmm_top`, `NeverTwice`).
   A block freed above all free blocks is linked to itself, because the search
   loop goes on after `list_add` at the tail; `list_del` then does not remove it.
   As long as the top page of memory is free the path is not taken, which is why
   the rest of the allocator is checked in `default_pmm` under `KeepTop`.
3. **A changed inode is dropped without being written** (`files_dirty`, `DirtyIfModified`).
   `sfs_bmap_load_nolock` raises `din->blocks` without setting `dirty` (`sfs_inode.c:366`); only `sfs_bmap_get_nolock` sets it, and not
   when the new block is entered in an indirect block that exists. If the call then fails (a seek behind the end finds
   the disk full and leaves `sfs_truncfile` before `dirty = 1`, or the transfer reports an error), the inode is reclaimed as if it had not changed. `sfs.h:72`
   says of `dirty` "true if inode modified". `NoUpdateLost` is therefore about the changes that were marked.

Met while modelling, part of the models, and the reason why some properties have a premise:

- **A killed reader may sleep on** (`dev_stdin.c:59`). A key typed between `do_kill` and
  the reader's turn overwrites `wakeup_flags`; if another reader takes the character, the
  killed one sleeps again with `PF_EXITING` set, where no further kill wakes it. `proc.h:73` calls
  the wait state one that "could be interrupted".
- **Whole blocks go astray** (`sfs_inode.c:635`). `sfs_io_nolock` passes the block number in
  the file where `sfs_rblock` and `sfs_wblock` want "the NO. of disk block" (`sfs_io.c:56`). At
  the beginning of a file that is block 0, which `sfs_rwblock_nolock` asserts against. `IsFileStore` and
  `ReadsBack` are therefore about transfers that cover no whole block.
- **A file may have a size without blocks, or blocks without a size.** A write that fails at its
  first piece, at a position behind the end, still raises the size (`sfs_inode.c:666`); a seek that
  runs out of blocks keeps the ones it got, and `O_TRUNC` on such a file of size 0 fails the assertion
  of `sfs_truncfile` (`:962`).
- **`vfs_open` keeps a reference** when it refuses with `-E_EXISTS` (`vfsfile.c:47`).
- **A program that cannot be loaded stays open** (`proc.c:564`). `load_icode` closes its file in line 755 only; when it fails before,
  `do_exit` finds no `mm`, takes the process for a kernel thread and skips `put_files`. The table, its descriptor
  and the counts of the inode are lost (`leaked`), although `fs.c:47` says of `files_destroy` "Called when a proc exit".
- **`exit_range` frees a directory with tables in it** (`pmm.c:430`) when they belong to another
  area than the one it is called for, against its comment "only when all pde0s in it are already
  invalid"; those tables, and nothing else, are lost (`FramesExact`, `spread`). A program with
  more than 2 MB of data, such as `user/testbss.c`, does it.
- **Out of memory is a fault**: `alloc_pages` calls `swap_out(NULL)` (`pmm.c:66`).

Two limits of the stride class that are documented rather than checked as findings. A
sleeper returns with its old stride, and a new process starts with whatever memory
held, so strides can lie more than half the range apart; the comparison is then no
order and the picked process need not be the furthest behind. `MinimumWhileAwake`
and `NobodyStarves` therefore have the premise `Undisturbed`. And `lab6_set_priority` takes any priority: above `BIG_STRIDE`
the division gives a pass of 0, the stride of the process stays where it is, and while it is the lowest nobody
else is picked. That is why `NobodyStarves` has the further premise that no priority is above `BIG_STRIDE`; `OnePlace`, `IsSchedClass` and
`MinimumWhileAwake` do not.

## 5. Proofs

Each component's proofs are in a module of its own. The theorems are about every value of
the constants that the named assumptions allow.

| Module | For any | Theorems (property of a run) |
|---|---|---|
| `KernelProofs` | finite set of user processes, `MAX_PROCESS`, sleeping times | `RunQueueIsExact`, `NoLostWakeup`, `SafeSleeps`, `ReapingIsSafe`, `InitAssertionsHold` (`InitAssertions`), `TypesHold` (`TypeOK`) |
| `ProcTableProofs` | finite set of processes, `MAX_PID > MAX_PROCESS > 1` | `ListsAreSound` (`DoublyLinked`), `WaitMeetsAllKids` (`KidsExact`), `PidsAreUnique`, `TableRefines`, `TableIsSound` |
| `CheckSyncProofs` | at least two philosophers | `KillDoesNotInterrupt`, `MonitorIsExclusive`, `ForksAreExclusive`, `SignalsHold`, `MutexIsCountingSem` |
| `SchedProofs` | finite set of processes, `Mod > 3 * BIG_STRIDE > 0`, slice, strides, priorities below `Mod` (0 and those above `BIG_STRIDE` included), sleepers | `EverybodyInOnePlace` (`OnePlace`), `QueueIsAScheduler` (`RunsTheReady` of `IsSchedClass`), `ListIsFIFO` (`NoOvertaking`), `StridePicksMinimum` (`MinimumWhileAwake`) |
| | set of timers, longest time | `TimersFireOnTime` (`FiresOnTime`) |
| | set of readers, buffer size, number of keys | `SleepersHaveNothing`, `CharactersInOrder`, `QueueIsOnLiveStacks`; for both of the last two rows together: `HandlerRunsBoth` |
| `DefaultPmmProofs` | number of pages, under `KeepTop` | `FreeListStaysSound`, `NoPageIsLost`, `RoomIsFound`, `NoPageIsGivenTwice` |
| `FileTableProofs` | finite sets of processes, inodes and files, size of the descriptor table | `CountsAreExact`, `FreedInodesAreNotUsed`, `UpdatesAreKept`, `FilesAreSound` |
| `SfsFileProofs` | number of files, size of the disk and of its blocks, entries of an inode, length of a transfer | `SfsAlwaysSane`, `BlocksStayExact` (`BlocksExact`), `ReadsAlwaysBack` (`ReadsBack`), `FilesAreStore` (`IsFileStore`) |
| `VmProofs` | address spaces, frames, size of a table, programs, layout of the stack and of `check_swap` | `MemoryInvariant`, `FramesAlwaysExact` (`FramesExact`), `SwapListAlwaysExact` (`SwapListExact`), `SpacesAreSeparate` (`IsAddressSpaces`) |

**KernelProofs.** The inductive invariant `KernelInv` is the conjunction of
`TypeOK`, `RunQueueExact`, `OnlySleepersWait`, `EverySleeperHasAWaker`,
`TimerOnLiveStack`, `NoOrphans` and two strengthenings. `Shape` says what idle and
init are and where their code can be: without it the proof cannot tell that the
heir of an orphan is alive. `SleepShape` ties the reason of a sleep to the call it
is in: without it a wake-up could leave a timer without its sleeper. That nobody who runs has a
`wait_state` left (`OnlySleepersWait`) is proved here and checked by no run. The lemmas
`ScheduleExact` and `WakeExact` say once what `schedule()` and `wakeup_proc` do to
the run queue, and there is one lemma per operation (`ExitPreserves`,
`WaitPreserves`, ...). `InitAssertions` (only idle and init are left when init ends)
needs `FamilyInv` on top: `nr_process` counts idle, init and the
processes that are not free, and their parent pointers have no cycle. "No cycle"
is stated as "every nonempty set of user processes has a member whose parent is outside it", which
needs no depth: when init has no child left, the set of all of them would have none.

**ProcTableProofs.** It has three parts. The links: the invariant needs `OnlyLiveHaveKids` (the process whose children are handed over is
dead, so that nobody forks from it in the middle) and the part of `DoublyLinked`
that ties `cptr` to the child without a younger sibling, or a hand-over could
overwrite the pointer of a child in the middle of init's list. `KidsExact`, which is
about a walk of any length, adds `Ordered` (the `optr` pointers have no cycle, in the same form):
`KidIsWalk` unfolds the recursive function of the walk, `WalkEnds` and
`WalkMeetsKids` follow it by induction, and a child that the walk misses would be in a set of siblings
that `yptr` permutes, which has no youngest member (`SomeoneIsYoungest`).

The pids: the inequality of the table is `get_pid`'s static assertion. `ScanWindow` is the
loop invariant: the pids already scanned lie outside `last_pid..next_safe-1`.

The two together: `TableRefines` shows that every step of the table
is a step, or none, of the links and of the pid allocator, so the theorems about both carry
over; `TableIsSound` adds that no two processes share a pid. Its invariant ties the
two parts together: the pids in the list are exactly those of the processes in the
table.

**CheckSyncProofs.** `PhiInv` has four parts. `SemInv`: queues against sleepers and who has been woken.
`TokenInv`: there is one right to be inside, a permit of one of the semaphores that guard
the critical section or one thread, where a thread that `up()` has woken counts although it has not run yet; this is
what makes the direct hand-off safe, and in the monitor the right moves between `mutex`, `next` and a condition variable.
`PlaceInv`: at each place of its code a philosopher's `state` is what the code there assumes. `EatInv`: neighbours do not
eat together, and whoever is given a permit or a signal for its forks is eating already.
`MutexIsCountingSem` is the refinement of `CountingSem`, step by step.

**SchedProofs.** It has five parts. The places of a process: `SchedInv` says that the list
holds each ready process once under round robin, and that the heap is one of exactly the ready processes
(`IsHeap`) under stride. `OnePlace` alone is not inductive: it looks at what the root leads to, and a merge works on
subtrees whose roots still have parent pointers. So `Forest` is about any set of processes with a set of roots: each is
the child of the one its parent pointer names or a root, and every set that holds the roots and the children of its
members holds all of them. The last part rules out cycles and processes that nothing leads to, and needs no depth. `CallsOK` is the induction over the depth
of the calls of a merge: the two arguments are roots, and each process wins at most one call, so the pointers each call
writes are its own. `MergeKids`, `MergeReaches` and `MergeForest` add them up: whatever the comparison answers, the result is a forest with the two
trees in one. `InsertKeeps` and `RemoveKeeps` follow, and `ScheduleKeeps` and `WakeKeeps` for the core over either class.

Who is picked: under the premise of `MinimumWhileAwake`, `StrideInv` has two parts, `Window`, no two strides further apart than `BIG_STRIDE` on the circle of
`Mod` values, and the heap order. Inside the window the signed difference is an order (`CompOpposite`, `CompTransitive`), for which
three times `BIG_STRIDE` must be less than `Mod`. When `schedule()` looks at the root everybody is in the heap,
the current process just put back, so the root has the smallest stride of all (`RootIsMinimum`); so advancing the root's stride by at most `BIG_STRIDE`, or by nothing when its priority is above that,
keeps the window (`AdvanceKeepsWindow`). The code advances it while it is still in the heap, so the order holds for the others
only (`OrderOfOthers`), which is enough to take it out.

The timers: `TimerInv` says that no timer is listed twice, no count is negative and the first is not 0. `TicksStep` and `TicksRise` unfold the sums, and
`AddKeeps`, `DelKeeps` and `RunKeeps` show what each operation does to them: a sum moves for the timer that
is added or deleted, or all by one tick. The three operations implement those of `Timers`.

The keyboard: `StdinInv`: every sleeping reader is in the wait queue, nobody is there twice or after its call,
nobody sleeps on data, and `InOrder`, which ties the ring buffer to what was accepted, with the bound that
nothing accepted was typed later than the last key. The arithmetic it rests on is in `SlotsDiffer`: positions less than a
buffer apart have different slots.

The interrupt: a step of the composition is a step or a stutter of each part (`HandlerRunsBoth`), so the theorems about both carry over.

**DefaultPmmProofs.** `PmmInv`: the two pointers of each entry link exactly the pages with `PG_property`,
in address order (`Chain`); their blocks do not overlap, do not touch, and cover exactly the pages
nobody holds. `LinkKeepsChain` and `DelKeepsChain` are about `__list_add` and `list_del` on any chain, `CutBlock`,
`AddBlock` and `JoinBlocks` about the blocks; `MergePrevKeeps` and `MergeNextKeeps` show that the two merges restore
"no two blocks touch" in two halves: the first leaves at most a pair at `base`, the second none. `NodesReach` says
that a walk meets every page of the chain within as many steps as there are pages. The theorems have the hypothesis
`KeepTop`, which the code does not enforce: it keeps the last page free, so that (`BlockAbove`) the search never
comes to the end of the list, where finding 2 is. Without it the theorems are false, as `default_pmm_top` shows.

**FileTableProofs.** `FileInv` has five parts besides the types, and it is an invariant whoever runs when:
that kernel code is not preempted (`MayRun`) is not used. `CallInv`: the steps a call has left are in an order the code
can have (`Follows`), none without those it relies on (`Complete`), and tell what the call knows: whether it has an inode,
which slot is its own, which descriptors it still has to close, and, in an exec, that all others are closed. `QueueInv`: the wait queues hold sleepers, each once, at the
semaphore their call is at. `TokenInv`: a semaphore is held by exactly one call when its value is 0 and by none when it is 1, a
caller that `up()` has woken included. `CountInv`: `ref_count`, `open_count` and `reclaim_count` are the numbers of descriptors
and of calls whose remaining steps give the count back, plus what is `leaked`, where every open that is lost is lost with its reference; a call that is about to free an inode finds both counts 0.
`CleanInv`: an inode is read from disk only while it is not cached, freed only when it is clean, and a file whose disk copy is
stale has an inode that is dirty or being written; it says nothing of changes that were not marked (finding 3). The three properties follow from it (`CountsFollow`, `NoUseFollows`,
`NoLossFollows`). Two lemmas carry the proofs of the steps: `LightStep` is about a step that no count sees, and
`CountsMove` says what a count of calls gains or loses when one of them changes. There is one lemma for each step of a
call (`LoadedStep`, `FsyncEndStep`, `ReclaimBeginStep`, `KillStep`, ...) and for each action of a process (`StartStep`,
`CloseStep`, `CopyFilesStep`, `SyncStep`, ...).

**SfsFileProofs.** `SfsInv`: data has gone astray, or the file system is `Sane`. `Sound` looks at all the places of a
file where a block number is kept (`Place`: its entries, direct or not, and the indirect block) through one operator,
`Held`: an entry is 0 exactly from `din->blocks` on, no two places hold the same block, a place holds a block
that is not free, and every block that is not free is in a place. `BlocksExact` is this as the run states it, on lists. Without the last part a block that
`sfs_block_free` gets could be free already, which is its assertion. `Tail0` says that the bytes behind the end of a file are
zeros; a write in the middle of a block behind the end would show what was there before, and `sfs_block_alloc`'s
clearing is what keeps it. `Load` and `Truncate` say what looking up, adding and freeing one block does
to all the bytes of all the files, in the four cases of the block map (direct, entered in the indirect block, with a new indirect block, and failed).
A transfer is followed piece by piece (`WriteStep`, `ReadStep`): after a piece that succeeds, the first `alen` bytes have been moved
and nothing else has changed. The loops of `sfs_truncfile` are followed by induction on the rounds (`Grows`, `Shrinks`). `SfsStep` sums up
the calls as `Effect`: the bytes of the files stay, a beginning of the data is stored, a file is longer, or it is empty; `FilesAreStore`
translates this to the steps of `FileStore`. The theorems rest on `NBlock <= NDIRECT + BLKSIZE`, that is, the disk is full before a file
has all the entries it may have (on the disk of `lab8` there are 480 kB for files of up to 4 MB and more): the assertion of the code at
the last entry is out of reach.

**VmProofs.** `IInv` has the three parts of `FramesExact`, as `Owned` and `NoneLost`, and what keeps them. `Owned` adds that a
free frame has the count 0 and that a table holds no page: a fork must not copy, and a leak must not take, what somebody has stored.
While user programs run, `UserPart` says that the valid entries of an address space are exactly what its pages in
memory need (`Needs`): its directory and, for each of the pages, the table above, the page table and the entry. Without it
nothing tells that `exit_mmap` meets every entry. While `check_swap` runs, `CheckPart` pins its three tables to the frames it has set up
and its pages to the frames it was left, and `SwapPart` is the FIFO. `Lists` says that the programs that ran are compact as
long as `spread` is false.

`Remap` is the only place where frames change hands, and `RemapStep` the only proof about it: when each new entry gets a frame that
was free or is being freed, no two of them the same (`Fits`), and what is dropped is tables of a program that is
spread (`Fair`), then no frame is in two places and none is lost. What is left is that the operations satisfy this. `Allocated`: the
frames `alloc_pages` takes for a set of entries are as many as the entries; it rests on the order of the entries (`Before`) being the order of
a number (`Keys`), and on ranks in a finite set (`RanksDiffer`, `RanksCover`). `SpaceFreed`: `exit_mmap` frees the directory, all pages,
and, when the areas of a directory lie in one table, all tables; it follows the loop over the areas (`AreaExited`, `AllTablesGone`).
`ProgramLoaded`: what the calls of `mm_map` have mapped after a success, a refusal and an overlap. `LoadLeft`: what a failed `load_icode` does not take
down again. There is one lemma for each action (`StoreStep`, `FaultUserStep`, `FaultCheckStep`, `SwapStep`, `EndStep`, `CopyStep`, `ExecStep`, `ExitStep`,
`PanicStep`), and one that maps it to a step of `AddressSpaces` or to none (`StoreSpace`, `FaultUserSpace`, `FaultCheckSpace`, `SwapSpace`, ...): a
page that comes back from the disk is no step, a page that is used for the first time is a `Touch`. The assumption on `CheckPages`, an
interval, is what `check_swap` does: it maps one area and touches all of its pages.

**Induction.** The library's induction theorems take operators, which the provers cannot
instantiate; the proofs use sets instead (`LeastNat` and `SetInduction`, from the
well-foundedness of the naturals), and the recursive functions of walks are shown to exist
before they are unfolded (`WalkExists`).

**Only model-checked.** Liveness everywhere (`NobodyStarves` of the stride class among it), and the fairness in
`IsSchedClass`: out of the prover's reach. Every invariant and every action property that a run finds to hold is a theorem.
`FileTable`'s `CallsReturn` is liveness and rests on `MayRun` and on fairness, which the proofs do not use.

## 6. Plan

Done: process life cycle, links, pids, scheduling, timers, semaphores, monitors and both
solutions of the philosophers, keyboard, first fit, virtual memory with page replacement, open files, inode cache,
file contents; the theorems above. The set of runs is kept to one per question; new modules
join the runs they belong to where they compose.

Next, in this order:

1. `Kmalloc` (SLOB and big blocks) on frames of `DefaultPmm`.
2. Directories: `sfs_dirent_search_nolock`, `sfs_lookup_once` and the references of directory inodes.
3. `Kernel` composed with `Vm` and `FileTable`: `do_fork` that fails half-way and takes back what it
   has done.
4. Best fit and buddy of lab2 on `DList`; the clock and LRU managers of lab3 and lab8.

## 7. Not modelled

- lab0 to lab7, except the round-robin class: they are earlier copies of the same files, most of the
  repository's lines, and a model of a copy says nothing that the model of `lab8` does not.
- Headers of register definitions (`riscv.h` and its like), assembly, drivers and SBI calls: they have
  no state of their own that a property could be about.
- Formatting, string functions, the debug monitor, user programs, the image builder: pure functions
  or clients of the calls that are modelled.
- Mounting and the device table of the VFS: set once at start-up.
- The kernel heap (`kmalloc.c`) and the buddy and best-fit allocators of lab2: not modelled yet.
- What a store outside the writable areas does (`vmm.c:466`): the processes of `Vm` make none.
- System call dispatch, trap entry and the context switch: the actions of `Kernel` start after the
  dispatch, and a switch is the assignment to `current`.

In numbers: the definitions stand for about 3 200 source lines, 3 000 of them of the 11 900 of
`lab8/kern`. Against all of the repository, with its eight earlier copies, that is under 5 in 100.
The absolute figure is low because of the copies; within `lab8/kern` about a quarter is covered,
and the file system above one inode, the drivers and the heap are the largest parts left out.
