------------------------------- MODULE Stdin --------------------------------
(***************************************************************************)
(* The keyboard device kern/fs/devs/dev_stdin.c: the timer interrupt puts  *)
(* typed characters into a ring buffer, readers take them out or sleep on  *)
(* the wait queue.  Both run with interrupts off, so a read is one step up *)
(* to its schedule() and one step behind it.  The characters are numbered  *)
(* in the order they are typed.                                            *)
(***************************************************************************)
EXTENDS Integers, Sequences, FiniteSets, SequencesExt

CONSTANTS
  Reader,
  STDIN_BUFSIZE,  \* 4096 in the code
  MaxLen,         \* the longest read
  MaxKeys         \* bound: characters typed in all

ASSUME StdinAssumption == STDIN_BUFSIZE \in Nat \ {0} /\ MaxLen \in Nat \ {0} /\ MaxKeys \in Nat

VARIABLES
  stdin_buffer,    \* slot -> character
  p_rpos, p_wpos,
  wait_queue,      \* the readers whose wait_t is queued, in order
  sleeping,          \* the readers in state PROC_SLEEPING
  wakeup_flags,    \* wait->wakeup_flags
  left,            \* characters a reader's call still wants, 0 outside
  killed,          \* the readers that have PF_EXITING set
  typed,           \* how many characters have been typed
  delivered,       \* the characters readers got, in the order of p_rpos
  accepted         \* the characters p_wpos was advanced for

stdinVars == <<stdin_buffer, p_rpos, p_wpos, wait_queue, sleeping, wakeup_flags, left,
          killed, typed, delivered, accepted>>

Waiting == {wait_queue[i] : i \in DOMAIN wait_queue}

StdinInit ==
  /\ stdin_buffer = [i \in 0..STDIN_BUFSIZE - 1 |-> 0]
  /\ p_rpos = 0 /\ p_wpos = 0
  /\ wait_queue = <<>>
  /\ sleeping = {}
  /\ wakeup_flags = [r \in Reader |-> "none"]
  /\ left = [r \in Reader |-> 0]
  /\ killed = {}
  /\ typed = 0
  /\ delivered = <<>> /\ accepted = <<>>

Room == p_wpos - p_rpos < STDIN_BUFSIZE

(* Mutant: only the first reader in the queue is woken.                    *)
wakeup_queue_first ==
  \/ wait_queue = <<>> /\ UNCHANGED <<wait_queue, sleeping, wakeup_flags>>
  \/ /\ wait_queue # <<>>
     /\ wait_queue' = Tail(wait_queue)
     /\ sleeping' = sleeping \ {Head(wait_queue)}
     /\ wakeup_flags' = [wakeup_flags EXCEPT ![Head(wait_queue)] = "WT_KBD"]

(* Everybody in the queue is taken off it and woken.                       *)
wakeup_queue ==
  /\ wait_queue' = <<>>
  /\ sleeping' = sleeping \ Waiting
  /\ wakeup_flags' = [r \in Reader |-> IF r \in Waiting THEN "WT_KBD" ELSE wakeup_flags[r]]

(* dev_stdin_write, called by the timer interrupt with the character that  *)
(* cons_getc returned.                                                     *)
dev_stdin_write ==
  /\ typed < MaxKeys
  /\ typed' = typed + 1
  /\ stdin_buffer' = [stdin_buffer EXCEPT ![p_wpos % STDIN_BUFSIZE] = typed + 1]
  /\ p_wpos' = IF Room THEN p_wpos + 1 ELSE p_wpos
  /\ accepted' = IF Room THEN Append(accepted, typed + 1) ELSE accepted
  /\ wakeup_queue
  /\ UNCHANGED <<p_rpos, left, killed, delivered>>

Least(a, b) == IF a < b THEN a ELSE b

(* Mutant: the reader leaves its wait_t in the queue.                      *)
Dequeued_not(r) == wait_queue

(* wait_current_del.                                                       *)
Dequeued(r) == RemoveFirst(wait_queue, r)

(* Mutant: a character is taken without moving on.                         *)
Took_stay(n) == p_rpos' = p_rpos

(* n characters have been taken.                                           *)
Took(n) == p_rpos' = p_rpos + n

(* The for loop of dev_stdin_read for reader r that wants n more: it takes *)
(* what there is and returns, or sleeps if that is not enough.  q is the   *)
(* wait queue as the caller has left it.                                   *)
ReadLoop(r, n, q) ==
  LET k == Least(n, p_wpos - p_rpos)
  IN  /\ Took(k)
      /\ delivered' = delivered \o [i \in 1..k |-> stdin_buffer[(p_rpos + i - 1) % STDIN_BUFSIZE]]
      /\ left' = [left EXCEPT ![r] = n - k]
      /\ \/ /\ k = n
            /\ wait_queue' = q
            /\ UNCHANGED <<sleeping, wakeup_flags>>
         \/ /\ k < n
            /\ wait_queue' = Append(q, r)
            /\ sleeping' = sleeping \cup {r}
            /\ wakeup_flags' = [wakeup_flags EXCEPT ![r] = "WT_INTERRUPTED"]
      /\ UNCHANGED <<stdin_buffer, p_wpos, killed, typed, accepted>>

dev_stdin_read(r, len) ==
  /\ left[r] = 0
  /\ r \notin killed
  /\ ReadLoop(r, len, wait_queue)

(* Behind schedule(): woken by a key the loop goes on, woken by do_kill it *)
(* is left.                                                                *)
ReadResume(r) ==
  /\ left[r] > 0
  /\ r \notin sleeping
  /\ \/ /\ wakeup_flags[r] = "WT_KBD"
        /\ ReadLoop(r, left[r], Dequeued(r))
     \/ /\ wakeup_flags[r] # "WT_KBD"
        /\ wait_queue' = Dequeued(r)
        /\ left' = [left EXCEPT ![r] = 0]
        /\ UNCHANGED <<stdin_buffer, p_rpos, p_wpos, sleeping, wakeup_flags, killed,
                       typed, delivered, accepted>>

(* do_kill of a reader that sleeps: WT_KBD contains WT_INTERRUPTED.        *)
do_kill(r) ==
  /\ r \in sleeping
  /\ r \notin killed
  /\ killed' = killed \cup {r}
  /\ sleeping' = sleeping \ {r}
  /\ UNCHANGED <<stdin_buffer, p_rpos, p_wpos, wait_queue, wakeup_flags, left,
                 typed, delivered, accepted>>

(* What processes do with the device and its readers.                      *)
Readers ==
  \/ \E r \in Reader, len \in 1..MaxLen : dev_stdin_read(r, len)
  \/ \E r \in Reader : ReadResume(r) \/ do_kill(r)

StdinNext == dev_stdin_write \/ Readers

StdinSpec == StdinInit /\ [][StdinNext]_stdinVars

-----------------------------------------------------------------------------
(* Nobody sleeps while there is something to read, however the characters  *)
(* are shared out among the readers that were woken together.              *)
NobodySleepsOnData == sleeping # {} => p_rpos = p_wpos

(* The queue holds the wait_t of every sleeper, and of nobody who has left *)
(* dev_stdin_read: the wait_t lives on the reader's stack.                 *)
QueueOnLiveStacks ==
  /\ sleeping \subseteq Waiting
  /\ Len(wait_queue) = Cardinality(Waiting)
  /\ \A r \in Waiting : left[r] > 0

(* Characters are read in the order they were typed, each by one reader    *)
(* and none twice.  In a full buffer further characters are lost, and each *)
(* is left in the slot of the oldest unread one: that one, and no other,   *)
(* may be read as a character typed later.                                 *)
InOrder ==
  /\ p_wpos - p_rpos \in 0..STDIN_BUFSIZE
  /\ Len(delivered) = p_rpos
  /\ Len(accepted) = p_wpos
  /\ \A i \in p_rpos + 2..p_wpos :
       stdin_buffer[(i - 1) % STDIN_BUFSIZE] = accepted[i]
  /\ p_rpos < p_wpos =>
       \/ stdin_buffer[p_rpos % STDIN_BUFSIZE] = accepted[p_rpos + 1]
       \/ ~Room /\ stdin_buffer[p_rpos % STDIN_BUFSIZE] = typed
  /\ \A i \in 1..p_rpos : delivered[i] >= accepted[i]
=============================================================================
