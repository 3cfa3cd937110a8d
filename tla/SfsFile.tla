------------------------------ MODULE SfsFile -------------------------------
(***************************************************************************)
(* The contents of files in kern/fs/sfs/sfs_inode.c: how a position in a   *)
(* file is found on disk through direct blocks and one indirect block, how *)
(* blocks are allocated and freed, and how a transfer is cut into blocks.  *)
(* The disk of this build is memory: a call neither sleeps nor fails for   *)
(* the disk, so it is one step.  A byte and an entry of an indirect block  *)
(* take one cell of a block each.                                          *)
(*                                                                         *)
(* The operators below take the file system and return it as the code      *)
(* leaves it, with the block found, and "ok", "E_NO_MEM", or "panic" when  *)
(* an assertion fails.                                                     *)
(***************************************************************************)
EXTENDS Integers, Sequences, FiniteSets, TLC

CONSTANTS
  File,
  BLKSIZE,     \* SFS_BLKSIZE in cells
  NDIRECT,     \* SFS_NDIRECT
  System,      \* blocks in front of the first free one: superblock, root, freemap, inodes
  NBlock,      \* blocks for data
  MaxOffset,   \* bound: the largest position of a call
  MaxLen       \* bound: the longest transfer

ASSUME SfsFileAssumption ==
  /\ BLKSIZE \in Nat \ {0} /\ NDIRECT \in Nat \ {0} /\ NBlock \in Nat
  /\ System \in Nat /\ System > 3
  /\ NBlock <= NDIRECT + BLKSIZE   \* as on the 480 kB disk: it is full before the index is too large
  /\ MaxOffset \in Nat /\ MaxLen \in Nat

VARIABLE sfs

Cell == 0..BLKSIZE - 1
Data == System..System + NBlock - 1
Zero == [c \in Cell |-> 0]

Init ==
  sfs = [freemap       |-> Data,       \* the blocks whose bit is 1
         unused_blocks |-> NBlock,
         disk          |-> [b \in 0..System + NBlock - 1 |-> Zero],
         din           |-> [f \in File |-> [size |-> 0, blocks |-> 0, indirect |-> 0,
                                            direct |-> [i \in 0..NDIRECT - 1 |-> 0]]],
         panic         |-> FALSE,
         astray        |-> FALSE]      \* data has been written past the block map

Found(fs, ino) == [fs |-> fs, ino |-> ino, ret |-> "ok"]
Failed(fs, ret) == [fs |-> fs, ino |-> 0, ret |-> ret]

(* The first free block.                                                   *)
bitmap_alloc(freemap) == CHOOSE b \in freemap : \A c \in freemap : b <= c

(* Mutant: the new block is not cleared.                                   *)
sfs_block_alloc_dirty(fs) ==
  IF fs.freemap = {} THEN Failed(fs, "E_NO_MEM")
  ELSE LET ino == bitmap_alloc(fs.freemap)
       IN  Found([fs EXCEPT !.freemap = @ \ {ino}, !.unused_blocks = @ - 1], ino)

sfs_block_alloc(fs) ==
  IF fs.freemap = {} THEN Failed(fs, "E_NO_MEM")
  ELSE LET ino == bitmap_alloc(fs.freemap)
       IN  Found([fs EXCEPT !.freemap = @ \ {ino}, !.unused_blocks = @ - 1, !.disk[ino] = Zero], ino)

sfs_block_free(fs, ino) ==
  IF ino \in fs.freemap THEN Failed(fs, "panic")
  ELSE Found([fs EXCEPT !.freemap = @ \cup {ino}, !.unused_blocks = @ + 1], 0)

(* What follows on a call that succeeds.                                   *)
Then(res, Step(_)) == IF res.ret = "ok" THEN Step(res) ELSE res

-----------------------------------------------------------------------------
(* The block map of a file.                                                *)

(* Mutant: an indirect block that was allocated for nothing is kept.       *)
Without_leak(res, ino) == res

(* A call has failed: the block allocated for it is given back.            *)
Without(res, ino) == [res EXCEPT !.fs = sfs_block_free(res.fs, ino).fs]

(* The indirect block, allocated where there is none, and its entry; when  *)
(* the second block cannot be had the first one is given back.             *)
sfs_bmap_get_sub_nolock(fs, f, index, create) ==
  LET old == fs.din[f].indirect
      ino == IF old = 0 THEN 0 ELSE fs.disk[old][index]
      Enter(ent, new) ==
        CASE new.ret = "ok" -> [new EXCEPT !.fs.disk[ent.ino][index] = new.ino,
                                           !.fs.din[f].indirect = ent.ino]
          [] new.ret # "ok" /\ old = 0 -> Without(new, ent.ino)
          [] OTHER -> new
  IN  IF ino # 0 \/ ~create THEN Found(fs, ino)
      ELSE Then(IF old = 0 THEN sfs_block_alloc(fs) ELSE Found(fs, old),
                LAMBDA ent : Enter(ent, sfs_block_alloc(ent.fs)))

sfs_bmap_get_nolock(fs, f, index, create) ==
  LET ino == fs.din[f].direct[index]
  IN  CASE index >= NDIRECT -> sfs_bmap_get_sub_nolock(fs, f, index - NDIRECT, create)
        [] index < NDIRECT /\ (ino # 0 \/ ~create) -> Found(fs, ino)
        [] OTHER -> Then(sfs_block_alloc(fs),
                         LAMBDA new : [new EXCEPT !.fs.din[f].direct[index] = new.ino])

(* The block at index, added to the file when it is the next one.          *)
sfs_bmap_load_nolock(fs, f, index) ==
  LET blocks == fs.din[f].blocks
  IN  IF index > blocks THEN Failed(fs, "panic")
      ELSE Then(sfs_bmap_get_nolock(fs, f, index, index = blocks), LAMBDA get :
             CASE get.ino \in {0} \cup get.fs.freemap -> Failed(get.fs, "panic")
               [] get.ino \notin {0} \cup get.fs.freemap /\ index = blocks ->
                    [get EXCEPT !.fs.din[f].blocks = @ + 1]
               [] OTHER -> get)

(* The indirect block itself stays with the file.                          *)
sfs_bmap_free_nolock(fs, f, index) ==
  LET din == fs.din[f]
      ent == din.indirect
      sub == index - NDIRECT
  IN  CASE index < NDIRECT /\ din.direct[index] # 0 ->
             sfs_block_free([fs EXCEPT !.din[f].direct[index] = 0], din.direct[index])
        [] index >= NDIRECT /\ ent # 0 /\ fs.disk[ent][sub] # 0 ->
             sfs_block_free([fs EXCEPT !.disk[ent][sub] = 0], fs.disk[ent][sub])
        [] OTHER -> Found(fs, 0)

(* The last block of the file is freed.                                    *)
sfs_bmap_truncate_nolock(fs, f) ==
  Then(sfs_bmap_free_nolock(fs, f, fs.din[f].blocks - 1),
       LAMBDA freed : [freed EXCEPT !.fs.din[f].blocks = @ - 1])

-----------------------------------------------------------------------------
(* Blocks up to position len.                                             *)
RoundupDiv(len) == (len + BLKSIZE - 1) \div BLKSIZE

(* The pieces a transfer is cut into: up to the end of a block it begins   *)
(* inside of, whole blocks, and the beginning of the last block; one that  *)
(* there is not has size 0.                                                *)
Piece(blk, from, size) == [blk |-> blk, from |-> from, size |-> size]

First(offset, endpos) ==
  LET blk    == offset \div BLKSIZE
      blkoff == offset % BLKSIZE
  IN  Piece(blk, blkoff,
            CASE blkoff = 0 -> 0
              [] blkoff # 0 /\ endpos \div BLKSIZE = blk -> endpos - offset
              [] OTHER -> BLKSIZE - blkoff)

Whole(offset, endpos) ==
  LET blk == RoundupDiv(offset)
  IN  Piece(blk, 0, IF blk < endpos \div BLKSIZE THEN (endpos \div BLKSIZE - blk) * BLKSIZE ELSE 0)

Last(offset, endpos) ==
  LET blk == endpos \div BLKSIZE
  IN  Piece(blk, 0, IF RoundupDiv(offset) <= blk THEN endpos % BLKSIZE ELSE 0)

(* sfs_wbuf of a piece: the bytes of the buffer behind those written.      *)
Put(fs, ino, p, io) ==
  [fs EXCEPT !.disk[ino] = [c \in Cell |->
     IF c \in p.from..p.from + p.size - 1 THEN io.buf[io.alen + c - p.from + 1] ELSE @[c]]]

(* Mutant: a piece is read from the beginning of its block.                *)
Get_start(fs, ino, p) == [k \in 1..p.size |-> fs.disk[ino][k - 1]]

(* sfs_rbuf of a piece.                                                    *)
Get(fs, ino, p) == [k \in 1..p.size |-> fs.disk[ino][p.from + k - 1]]

(* sfs_wblock and sfs_rblock of whole blocks: the block number in the file *)
(* is taken for the one on disk.                                           *)
PutWhole(fs, p, io) ==
  [fs EXCEPT !.astray = TRUE,
             !.disk = [b \in DOMAIN @ |->
                IF b \in p.blk..p.blk + p.size \div BLKSIZE - 1
                  THEN [c \in Cell |-> io.buf[io.alen + (b - p.blk) * BLKSIZE + c + 1]] ELSE @[b]]]

GetWhole(fs, p) ==
  [k \in 1..p.size |-> fs.disk[p.blk + (k - 1) \div BLKSIZE][(k - 1) % BLKSIZE]]

(* A transfer under way: buf holds the bytes to write, or the bytes read so *)
(* far; alen of them have been moved.                                       *)
Transfer(fs, ret, buf, alen) == [fs |-> fs, ret |-> ret, buf |-> buf, alen |-> alen]

(* One piece of a transfer, when its block has been looked up.  sfs_rwblock *)
(* asserts that the block is not block 0.                                   *)
Move(write, whole, io, p, load) ==
  CASE load.ret # "ok" -> Transfer(load.fs, load.ret, io.buf, io.alen)
    [] load.ret = "ok" /\ whole /\ p.blk = 0 -> Transfer(load.fs, "panic", io.buf, io.alen)
    [] OTHER ->
         Transfer(CASE ~write -> load.fs
                    [] write /\ whole -> PutWhole(load.fs, p, io)
                    [] OTHER -> Put(load.fs, load.ino, p, io),
                  "ok",
                  CASE write -> io.buf
                    [] ~write /\ whole -> io.buf \o GetWhole(load.fs, p)
                    [] OTHER -> io.buf \o Get(load.fs, load.ino, p),
                  io.alen + p.size)

Step(write, whole, f, io, p) ==
  IF p.size = 0 THEN io
  ELSE Then(io, LAMBDA acc : Move(write, whole, acc, p, sfs_bmap_load_nolock(acc.fs, f, p.blk)))

Pieces(write, f, io, offset, endpos) ==
  Step(write, FALSE, f,
       Step(write, TRUE, f,
            Step(write, FALSE, f, io, First(offset, endpos)), Whole(offset, endpos)), Last(offset, endpos))

(* Where a transfer ends.                                                  *)
EndPos(fs, f, offset, len, write) ==
  IF write \/ offset + len < fs.din[f].size THEN offset + len ELSE fs.din[f].size

(* The size is raised to the end of what was moved, also when the first    *)
(* piece failed.                                                           *)
sfs_io_nolock(fs, f, buf, offset, len, write) ==
  LET endpos == EndPos(fs, f, offset, len, write)
      start  == Transfer(fs, "ok", buf, 0)
      Sized(io) == IF offset + io.alen > fs.din[f].size
                   THEN Transfer([io.fs EXCEPT !.din[f].size = offset + io.alen], io.ret, io.buf, io.alen)
                   ELSE io
  IN  IF endpos <= offset THEN start ELSE Sized(Pieces(write, f, start, offset, endpos))

(* A round of the loops of sfs_truncfile, for the block at nblks or before *)
(* tblks, and the loops: one round for every block in between, unless one  *)
(* before it has failed.                                                   *)
Round(res, f, index, tblks) ==
  Then(res, LAMBDA r : IF index < tblks THEN sfs_bmap_load_nolock(r.fs, f, index)
                       ELSE sfs_bmap_truncate_nolock(r.fs, f))

Resized(fs, f, nblks, tblks) ==
  LET n == IF nblks < tblks THEN tblks - nblks ELSE nblks - tblks
      rounds[k \in 0..n] ==
        IF k = 0 THEN Found(fs, 0)
        ELSE Round(rounds[k - 1], f, IF nblks < tblks THEN nblks + k - 1 ELSE nblks - k, tblks)
  IN  rounds[n]

sfs_truncfile(fs, f, len) ==
  LET din   == fs.din[f]
      tblks == RoundupDiv(len)
  IN  CASE din.size = len /\ tblks = din.blocks -> Found(fs, 0)
        [] din.size = len /\ tblks # din.blocks -> Failed(fs, "panic")
        [] OTHER -> Then(Resized(fs, f, din.blocks, tblks),
                         LAMBDA res : Found([res.fs EXCEPT !.din[f].size = len], 0))

-----------------------------------------------------------------------------
(* The calls.  After a panic, and after data has gone astray, there is     *)
(* no further step.                                                        *)
Running == ~sfs.panic /\ ~sfs.astray

Returns(res) == Running /\ sfs' = [res.fs EXCEPT !.panic = res.ret = "panic"]

(* Positions are arbitrary: a file may have been truncated through another *)
(* descriptor.                                                             *)
sfs_write(f, offset, data) ==
  Returns(sfs_io_nolock(sfs, f, data, offset, Len(data), TRUE))

sfs_read(f, offset, len) ==
  Returns(sfs_io_nolock(sfs, f, <<>>, offset, len, FALSE))

sfs_tryseek(f, pos) ==
  /\ pos > sfs.din[f].size
  /\ Returns(sfs_truncfile(sfs, f, pos))

(* vfs_open with O_TRUNC or O_CREAT.                                       *)
vfs_open_truncates(f) == Returns(sfs_truncfile(sfs, f, 0))

(* What programs write: bytes that tell a position from its neighbours.    *)
Buffer == {[k \in 1..len |-> 1 + ((k - 1) % 2)] : len \in 1..MaxLen}

Next ==
  \E f \in File :
    \/ \E offset \in 0..MaxOffset, data \in Buffer : sfs_write(f, offset, data)
    \/ \E offset \in 0..MaxOffset, len \in 1..MaxLen : sfs_read(f, offset, len)
    \/ \E pos \in 0..MaxOffset : sfs_tryseek(f, pos)
    \/ vfs_open_truncates(f)

Spec == Init /\ [][Next]_sfs

(* The files are alike.                                                    *)
Symmetry == Permutations(File)

-----------------------------------------------------------------------------
(* What the code can still read: a free block is cleared when it is next   *)
(* allocated.                                                              *)
Readable ==
  [sfs EXCEPT !.disk = [b \in Data \ sfs.freemap |-> sfs.disk[b]]]

(* The blocks a file holds, a list for the lack of a block twice: by       *)
(* index, the indirect block last.                                         *)
BlocksOf(f) ==
  [i \in 1..sfs.din[f].blocks |-> sfs_bmap_get_nolock(sfs, f, i - 1, FALSE).ino]
    \o (IF sfs.din[f].indirect = 0 THEN <<>> ELSE <<sfs.din[f].indirect>>)

Entries(f) ==
  {<<i, sfs.din[f].direct[i]>> : i \in 0..NDIRECT - 1}
    \cup (IF sfs.din[f].indirect = 0 THEN {}
          ELSE {<<NDIRECT + i, sfs.disk[sfs.din[f].indirect][i]>> : i \in Cell})

(* The free map and the block maps agree: a block is free or held by one   *)
(* file in one place, no block is lost when a call fails half-way for want *)
(* of blocks, and the block map holds the first din->blocks entries and no *)
(* other.                                                                  *)
BlocksExact ==
  ~sfs.astray =>
    /\ sfs.unused_blocks = Cardinality(sfs.freemap)
    /\ \A f \in File : \A e \in Entries(f) : e[2] # 0 <=> e[1] < sfs.din[f].blocks
    /\ LET held == [f \in File |-> {BlocksOf(f)[i] : i \in DOMAIN BlocksOf(f)}]
       IN  /\ \A f \in File : Cardinality(held[f]) = Len(BlocksOf(f))
           /\ \A f, g \in File : f # g => held[f] \cap held[g] = {}
           /\ UNION {held[f] : f \in File} = Data \ sfs.freemap

(* The bytes of a file; a block that is not there yet reads as zeros.      *)
Content(f) ==
  [i \in 1..sfs.din[f].size |->
     LET index == (i - 1) \div BLKSIZE
     IN  IF index >= sfs.din[f].blocks THEN 0
         ELSE sfs.disk[BlocksOf(f)[index + 1]][(i - 1) % BLKSIZE]]

Store == INSTANCE FileStore WITH content <- [f \in File |-> Content(f)]

(* As long as no transfer covers a whole block, files are sequences of     *)
(* bytes: a write changes the bytes it is for, in its own file, and a file *)
(* that grows shows zeros and never what a block held before.  A call that *)
(* fails has written a beginning of its data, or nothing.                  *)
IsFileStore ==
  /\ Store!Init
  /\ [][~sfs'.astray =>
         \/ UNCHANGED [f \in File |-> Content(f)]
         \/ \E f \in File :
              \/ \E offset \in 0..MaxOffset, data \in Buffer : Store!Write(f, offset, data)
              \/ \E n \in 0..MaxOffset : Store!Grow(f, n)
              \/ Store!Clear(f)]_sfs

(* A read that succeeds and covers no whole block returns the bytes of the *)
(* file from its position on, as many as there are.                        *)
ReadsBack ==
  Running =>
    \A f \in File, offset \in 0..MaxOffset, len \in 1..MaxLen :
      LET io  == sfs_io_nolock(sfs, f, <<>>, offset, len, FALSE)
          end == EndPos(sfs, f, offset, len, FALSE)
      IN  offset < end /\ io.ret = "ok" /\ Whole(offset, end).size = 0
            => io.buf = SubSeq(Content(f), offset + 1, end)
=============================================================================
