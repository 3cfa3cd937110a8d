---------------------------- MODULE SfsFileProofs ---------------------------
(***************************************************************************)
(* Proofs about SfsFile for any number of files, any size of disk and of   *)
(* blocks: the block maps and the free map agree, and a file is a sequence *)
(* of bytes.                                                               *)
(***************************************************************************)
EXTENDS SfsFile, FiniteSetTheorems, SequenceTheorems, WellFoundedInduction, TLAPS

Blk == 0..System + NBlock - 1
Idx == 0..NDIRECT + BLKSIZE - 1

Din == [size : Nat, blocks : Nat, indirect : Int, direct : [0..NDIRECT - 1 -> Int]]

FsSet ==
  [freemap : SUBSET Data, unused_blocks : Int, disk : [Blk -> [Cell -> Int]],
   din : [File -> Din], panic : BOOLEAN, astray : BOOLEAN]

(* The places of a file where a block number is kept: the entries of its   *)
(* block map, and the number of the indirect block.                        *)
Place == -1..NDIRECT + BLKSIZE - 1

Held(fs, f, i) ==
  IF i = -1 THEN fs.din[f].indirect
  ELSE IF i < NDIRECT THEN fs.din[f].direct[i]
  ELSE IF fs.din[f].indirect = 0 THEN 0 ELSE fs.disk[fs.din[f].indirect][i - NDIRECT]

(* The blocks are in place.                                                *)
Counted(fs) == fs.unused_blocks = Cardinality(fs.freemap)

Mapped(fs) == \A f \in File : \A i \in Idx : Held(fs, f, i) # 0 <=> i < fs.din[f].blocks

Taken(fs) == \A f \in File : \A i \in Place : Held(fs, f, i) \in {0} \cup (Data \ fs.freemap)

Unshared(fs) ==
  \A f, g \in File : \A i, j \in Place :
    Held(fs, f, i) # 0 /\ Held(fs, f, i) = Held(fs, g, j) => f = g /\ i = j

Kept(fs) == \A b \in Data \ fs.freemap : \E f \in File : \E i \in Place : Held(fs, f, i) = b

Fits(fs) == \A f \in File : fs.din[f].blocks <= NDIRECT + BLKSIZE

Sound(fs) ==
  /\ fs \in FsSet
  /\ Counted(fs) /\ Mapped(fs) /\ Taken(fs) /\ Unshared(fs) /\ Kept(fs) /\ Fits(fs)

-----------------------------------------------------------------------------
LEMMA Constants ==
  /\ BLKSIZE \in Nat \ {0} /\ NDIRECT \in Nat \ {0} /\ NBlock \in Nat
  /\ System \in Nat /\ System > 3
  /\ Data \subseteq Blk /\ 0 \notin Data /\ Data \subseteq Nat
  /\ Zero \in [Cell -> Int]
  /\ IsFiniteSet(Data) /\ Cardinality(Data) = NBlock
<1>1. Zero \in [Cell -> Int]
  BY DEF Zero
<1>2. /\ BLKSIZE \in Nat \ {0} /\ NDIRECT \in Nat \ {0} /\ NBlock \in Nat
      /\ System \in Nat /\ System > 3
  BY SfsFileAssumption
<1>3. Data \subseteq Blk /\ 0 \notin Data /\ Data \subseteq Nat
  BY <1>2 DEF Data, Blk
<1>4. IsFiniteSet(Data) /\ Cardinality(Data) = NBlock
  BY <1>2, FS_Interval DEF Data
<1> QED
  BY <1>1, <1>2, <1>3, <1>4

LEMMA SubsetFinite ==
  ASSUME NEW S, S \subseteq Data
  PROVE  IsFiniteSet(S) /\ Cardinality(S) \in Nat
BY Constants, FS_Subset, FS_CardinalityType

(* The lowest free block.                                                  *)
LEMMA LeastNat ==
  ASSUME NEW T, T \subseteq Nat, T # {}
  PROVE  \E x \in T : \A y \in T : x <= y
<1> DEFINE R == OpToRel(<, Nat)
<1>1. IsWellFoundedOn(R, Nat)
  BY NatLessThanWellFounded
<1>2. \E x \in T : \A y \in T : ~(<<y, x>> \in R)
  <2> HIDE DEF R
  <2> QED
    BY <1>1, WFMin
<1>3. \A x, y \in Nat : ~(<<y, x>> \in R) => x <= y
  BY DEF OpToRel
<1> HIDE DEF R
<1>4. \A x \in T : x \in Nat
  OBVIOUS
<1> QED
  BY <1>2, <1>3, <1>4, Zenon

LEMMA SetInduction ==
  ASSUME NEW S, 0 \in S, \A n \in Nat : n \in S => n + 1 \in S
  PROVE  Nat \subseteq S
<1> SUFFICES ASSUME Nat \ S # {} PROVE FALSE
  OBVIOUS
<1>1. PICK x \in Nat \ S : \A y \in Nat \ S : x <= y
  BY LeastNat
<1>2. x # 0 /\ x - 1 \in Nat /\ x - 1 \notin Nat \ S
  BY <1>1
<1> QED
  BY <1>1, <1>2

LEMMA Fields ==
  ASSUME NEW fs \in FsSet
  PROVE  /\ fs.freemap \subseteq Data /\ fs.unused_blocks \in Int
         /\ fs.disk \in [Blk -> [Cell -> Int]] /\ fs.din \in [File -> Din]
         /\ fs.panic \in BOOLEAN /\ fs.astray \in BOOLEAN
         /\ \A f \in File : /\ fs.din[f] \in Din
                           /\ fs.din[f].size \in Nat /\ fs.din[f].blocks \in Nat
                           /\ fs.din[f].indirect \in Int
                           /\ fs.din[f].direct \in [0..NDIRECT - 1 -> Int]
BY DEF FsSet, Din

LEMMA AllocFree ==
  ASSUME NEW freemap, freemap \subseteq Data, freemap # {}
  PROVE  bitmap_alloc(freemap) \in freemap
<1>1. \E x \in freemap : \A y \in freemap : x <= y
  BY LeastNat, Constants
<1> QED
  BY <1>1 DEF bitmap_alloc

-----------------------------------------------------------------------------
(* sfs_block_alloc and sfs_block_free on any file system of the type.      *)
LEMMA BlockAlloc ==
  ASSUME NEW fs \in FsSet, fs.freemap # {}
  PROVE  LET new == sfs_block_alloc(fs) IN
         /\ new.ret = "ok" /\ new.ino \in fs.freemap
         /\ new = Found([fs EXCEPT !.freemap = @ \ {new.ino}, !.unused_blocks = @ - 1,
                                   !.disk[new.ino] = Zero], new.ino)
         /\ new.fs \in FsSet
<1> DEFINE ino == bitmap_alloc(fs.freemap)
<1>1. ino \in fs.freemap
  BY AllocFree, Fields
<1>2. fs.freemap \ {ino} \in SUBSET Data /\ fs.unused_blocks - 1 \in Int /\ ino \in Blk
  <2>1. fs.freemap \subseteq Data /\ fs.unused_blocks \in Int
    BY Fields
  <2> HIDE DEF ino
  <2>2. ino \in Blk
    BY <1>1, <2>1, Constants
  <2>3. fs.freemap \ {ino} \in SUBSET Data
    BY <2>1
  <2> QED
    BY <2>1, <2>2, <2>3
<1>3. [fs EXCEPT !.freemap = @ \ {ino}, !.unused_blocks = @ - 1, !.disk[ino] = Zero] \in FsSet
  <2> HIDE DEF ino
  <2> QED
    BY <1>2, Constants DEF FsSet
<1>4. sfs_block_alloc(fs) = Found([fs EXCEPT !.freemap = @ \ {ino}, !.unused_blocks = @ - 1,
                                             !.disk[ino] = Zero], ino)
  BY DEF sfs_block_alloc
<1> QED
  BY <1>1, <1>3, <1>4 DEF Found

LEMMA BlockFree ==
  ASSUME NEW fs \in FsSet, NEW ino \in Data \ fs.freemap
  PROVE  LET fs2 == [fs EXCEPT !.freemap = @ \cup {ino}, !.unused_blocks = @ + 1] IN
         sfs_block_free(fs, ino) = Found(fs2, 0) /\ fs2 \in FsSet
<1>1. fs.freemap \cup {ino} \in SUBSET Data /\ fs.unused_blocks + 1 \in Int
  BY DEF FsSet
<1>2. [fs EXCEPT !.freemap = @ \cup {ino}, !.unused_blocks = @ + 1] \in FsSet
  BY <1>1 DEF FsSet
<1> QED
  BY <1>2 DEF sfs_block_free, Found

(* The other fields that are assigned.                                     *)
LEMMA SetDirect ==
  ASSUME NEW fs \in FsSet, NEW f \in File, NEW i, NEW n \in Int
  PROVE  [fs EXCEPT !.din[f].direct[i] = n] \in FsSet
BY DEF FsSet, Din

LEMMA SetIndirect ==
  ASSUME NEW fs \in FsSet, NEW f \in File, NEW n \in Int
  PROVE  [fs EXCEPT !.din[f].indirect = n] \in FsSet
BY DEF FsSet, Din

LEMMA SetBlocks ==
  ASSUME NEW fs \in FsSet, NEW f \in File, NEW n \in Nat
  PROVE  [fs EXCEPT !.din[f].blocks = n] \in FsSet
BY DEF FsSet, Din

LEMMA SetSize ==
  ASSUME NEW fs \in FsSet, NEW f \in File, NEW n \in Nat
  PROVE  [fs EXCEPT !.din[f].size = n] \in FsSet
BY DEF FsSet, Din

LEMMA SetEntry ==
  ASSUME NEW fs \in FsSet, NEW b \in Blk, NEW i, NEW n \in Int
  PROVE  [fs EXCEPT !.disk[b][i] = n] \in FsSet
BY DEF FsSet

LEMMA SetDisk ==
  ASSUME NEW fs \in FsSet, NEW d \in [Blk -> [Cell -> Int]]
  PROVE  [fs EXCEPT !.disk = d] \in FsSet
BY DEF FsSet

-----------------------------------------------------------------------------
(* What sfs_bmap_get_nolock finds or adds, case by case.                   *)
SameFlags(fs, fs2) == fs2.panic = fs.panic /\ fs2.astray = fs.astray

LEMMA GetOld ==
  ASSUME NEW fs \in FsSet, NEW f \in File, NEW index \in Nat, NEW create \in BOOLEAN,
         Held(fs, f, index) # 0 \/ ~create
  PROVE  sfs_bmap_get_nolock(fs, f, index, create) = Found(fs, Held(fs, f, index))
<1>1. NDIRECT \in Nat
  BY Constants
<1>2. CASE index < NDIRECT
  BY <1>1, <1>2 DEF sfs_bmap_get_nolock, Held
<1>3. CASE ~(index < NDIRECT)
  <2>1. sfs_bmap_get_nolock(fs, f, index, create) = sfs_bmap_get_sub_nolock(fs, f, index - NDIRECT, create)
    BY <1>1, <1>3 DEF sfs_bmap_get_nolock
  <2>2. Held(fs, f, index) = IF fs.din[f].indirect = 0 THEN 0
                             ELSE fs.disk[fs.din[f].indirect][index - NDIRECT]
    BY <1>1, <1>3 DEF Held
  <2> QED
    BY <2>1, <2>2 DEF sfs_bmap_get_sub_nolock
<1> QED
  BY <1>2, <1>3

(* The file system fs2 after a block has been added to f: a direct one, b, *)
(* one entered in the indirect block, or one entered in a new indirect     *)
(* block, a.                                                               *)
DirectAdded(fs, fs2, f, index, b) ==
  /\ SameFlags(fs, fs2)
  /\ fs2.freemap = fs.freemap \ {b} /\ fs2.unused_blocks = fs.unused_blocks - 1
  /\ fs2.disk = [fs.disk EXCEPT ![b] = Zero]
  /\ fs2.din = [fs.din EXCEPT ![f].direct[index] = b]

SubAdded(fs, fs2, f, index, b) ==
  /\ SameFlags(fs, fs2)
  /\ fs2.freemap = fs.freemap \ {b} /\ fs2.unused_blocks = fs.unused_blocks - 1
  /\ fs2.disk = [fs.disk EXCEPT ![b] = Zero, ![fs.din[f].indirect][index - NDIRECT] = b]
  /\ fs2.din = fs.din

BothAdded(fs, fs2, f, index, a, b) ==
  /\ SameFlags(fs, fs2)
  /\ fs2.freemap = fs.freemap \ {a, b} /\ fs2.unused_blocks = fs.unused_blocks - 2
  /\ fs2.disk = [fs.disk EXCEPT ![a] = Zero, ![b] = Zero, ![a][index - NDIRECT] = b]
  /\ fs2.din = [fs.din EXCEPT ![f].indirect = a]

LEMMA GetDirect ==
  ASSUME NEW fs \in FsSet, NEW f \in File, NEW index \in 0..NDIRECT - 1,
         Held(fs, f, index) = 0, fs.freemap # {}
  PROVE  LET get == sfs_bmap_get_nolock(fs, f, index, TRUE) IN
         /\ get.ret = "ok" /\ get.ino \in fs.freemap /\ get.fs \in FsSet
         /\ get = Found(get.fs, get.ino) /\ DirectAdded(fs, get.fs, f, index, get.ino)
<1> DEFINE new == sfs_block_alloc(fs)
           b == new.ino
           get == sfs_bmap_get_nolock(fs, f, index, TRUE)
<1>1. /\ new.ret = "ok" /\ b \in fs.freemap /\ new.fs \in FsSet
      /\ new = Found([fs EXCEPT !.freemap = @ \ {b}, !.unused_blocks = @ - 1, !.disk[b] = Zero], b)
  BY BlockAlloc
<1>2. NDIRECT \in Nat /\ index \in Nat /\ index < NDIRECT /\ ~(index >= NDIRECT) /\ index # -1
  BY Constants
<1>3. fs.din[f].direct[index] = 0
  BY <1>2 DEF Held
<1>4. get = [new EXCEPT !.fs.din[f].direct[index] = b]
  <2>1. get = Then(new, LAMBDA n : [n EXCEPT !.fs.din[f].direct[index] = n.ino])
    BY <1>2, <1>3 DEF sfs_bmap_get_nolock
  <2> QED
    BY <1>1, <2>1 DEF Then
<1>5. b \in Int
  BY <1>1, Fields, Constants
<1> HIDE DEF new, get
<1> DEFINE fs1 == new.fs
           fs2 == [fs1 EXCEPT !.din[f].direct[index] = b]
<1>a. fs1 \in FsSet /\ b \in Int
  BY <1>1, <1>5
<1>6. new = [fs |-> fs1, ino |-> b, ret |-> "ok"]
  BY <1>1 DEF Found
<1>7. fs1 = [fs EXCEPT !.freemap = @ \ {b}, !.unused_blocks = @ - 1, !.disk[b] = Zero]
  BY <1>1 DEF Found
<1>8. get = Found(fs2, b)
  <2> HIDE DEF fs1, b
  <2> QED
    BY <1>4, <1>6 DEF Found
<1>9. fs2 \in FsSet
  <2> HIDE DEF b, fs1
  <2> QED
    BY <1>a, SetDirect
<1>10. /\ fs2.freemap = fs.freemap \ {b} /\ fs2.unused_blocks = fs.unused_blocks - 1
       /\ fs2.disk = [fs.disk EXCEPT ![b] = Zero]
       /\ fs2.din = [fs.din EXCEPT ![f].direct[index] = b]
       /\ SameFlags(fs, fs2)
  <2> HIDE DEF fs1, b
  <2> QED
    BY <1>1, <1>7 DEF FsSet, SameFlags
<1> HIDE DEF fs2, b
<1>11. get.fs = fs2 /\ get.ino = b /\ get.ret = "ok"
  BY <1>8 DEF Found
<1>12. b \in fs.freemap
  BY <1>1 DEF b
<1> QED
  BY <1>8, <1>9, <1>10, <1>11, <1>12 DEF get, DirectAdded

(* The file system when a free block b has been allocated, as the other    *)
(* cases see it.                                                           *)
LEMMA BlockAllocFields ==
  ASSUME NEW fs \in FsSet, fs.freemap # {}
  PROVE  \E b \in fs.freemap :
           \E fs1 \in FsSet :
             /\ sfs_block_alloc(fs) = [fs |-> fs1, ino |-> b, ret |-> "ok"]
             /\ fs1.freemap = fs.freemap \ {b} /\ fs1.unused_blocks = fs.unused_blocks - 1
             /\ fs1.disk = [fs.disk EXCEPT ![b] = Zero] /\ fs1.din = fs.din /\ SameFlags(fs, fs1)
<1> DEFINE new == sfs_block_alloc(fs)
           b == new.ino
           fs1 == [fs EXCEPT !.freemap = @ \ {b}, !.unused_blocks = @ - 1, !.disk[b] = Zero]
<1>1. /\ new.ret = "ok" /\ b \in fs.freemap /\ new.fs \in FsSet
      /\ new = Found(fs1, b)
  BY BlockAlloc
<1> HIDE DEF new, b
<1>2. new = [fs |-> fs1, ino |-> b, ret |-> "ok"] /\ fs1 \in FsSet
  <2> HIDE DEF fs1
  <2> QED
    BY <1>1 DEF Found
<1>3. /\ fs1.freemap = fs.freemap \ {b} /\ fs1.unused_blocks = fs.unused_blocks - 1
      /\ fs1.disk = [fs.disk EXCEPT ![b] = Zero] /\ fs1.din = fs.din /\ SameFlags(fs, fs1)
  BY DEF FsSet, SameFlags
<1> HIDE DEF fs1
<1> QED
  BY <1>1, <1>2, <1>3 DEF new

(* Below, a and b are blocks that sfs_block_alloc has returned.            *)
LEMMA GetSub ==
  ASSUME NEW fs \in FsSet, NEW f \in File, NEW index \in Idx, index >= NDIRECT,
         fs.din[f].indirect \in Data, Held(fs, f, index) = 0, fs.freemap # {}
  PROVE  LET get == sfs_bmap_get_nolock(fs, f, index, TRUE) IN
         /\ get.ret = "ok" /\ get.ino \in fs.freemap /\ get.fs \in FsSet
         /\ get = Found(get.fs, get.ino) /\ SubAdded(fs, get.fs, f, index, get.ino)
<1> DEFINE old == fs.din[f].indirect
           sub == index - NDIRECT
           get == sfs_bmap_get_nolock(fs, f, index, TRUE)
<1>1. PICK b \in fs.freemap, fs1 \in FsSet :
             /\ sfs_block_alloc(fs) = [fs |-> fs1, ino |-> b, ret |-> "ok"]
             /\ fs1.freemap = fs.freemap \ {b} /\ fs1.unused_blocks = fs.unused_blocks - 1
             /\ fs1.disk = [fs.disk EXCEPT ![b] = Zero] /\ fs1.din = fs.din /\ SameFlags(fs, fs1)
  BY BlockAllocFields
<1>2. /\ index \in Nat /\ NDIRECT \in Nat /\ ~(index < NDIRECT) /\ index # -1
      /\ old # 0 /\ old \in Blk /\ b \in Int
  <2>1. /\ index \in Nat /\ NDIRECT \in Nat /\ ~(index < NDIRECT) /\ index # -1
    BY Constants DEF Idx
  <2>2. old # 0 /\ old \in Blk
    BY Constants
  <2>3. b \in Data
    BY <1>1, Fields
  <2>4. b \in Int
    BY <2>3, Constants
  <2> QED
    BY <2>1, <2>2, <2>4
<1>3. fs.disk[old][sub] = 0
  BY <1>2 DEF Held
<1>4. get = sfs_bmap_get_sub_nolock(fs, f, sub, TRUE)
  BY <1>2 DEF sfs_bmap_get_nolock
<1> DEFINE new == sfs_block_alloc(fs)
           got == [new EXCEPT !.fs.disk[old][sub] = new.ino, !.fs.din[f].indirect = old]
<1>5. get = got
  <2>1. new.ret = "ok"
    BY <1>1
  <2>2. sfs_bmap_get_sub_nolock(fs, f, sub, TRUE)
          = Then(Found(fs, old), LAMBDA ent :
                   LET new2 == sfs_block_alloc(ent.fs) IN
                   CASE new2.ret = "ok" -> [new2 EXCEPT !.fs.disk[ent.ino][sub] = new2.ino,
                                                       !.fs.din[f].indirect = ent.ino]
                     [] new2.ret # "ok" /\ old = 0 -> Without(new2, ent.ino)
                     [] OTHER -> new2)
    <3> HIDE DEF sub
    <3> QED
      BY <1>2, <1>3 DEF sfs_bmap_get_sub_nolock
  <2> HIDE DEF sub, old
  <2> QED
    BY <1>4, <2>1, <2>2 DEF Then, Found
<1> DEFINE fs2 == [fs1 EXCEPT !.disk[old][sub] = b, !.din[f].indirect = old]
<1>6. get = [fs |-> fs2, ino |-> b, ret |-> "ok"]
  <2>1. new = [fs |-> fs1, ino |-> b, ret |-> "ok"]
    BY <1>1
  <2>2. got = [[new EXCEPT !.fs.disk[old][sub] = new.ino] EXCEPT !.fs.din[f].indirect = old]
    OBVIOUS
  <2> HIDE DEF old, sub, get, new
  <2>3. [new EXCEPT !.fs.disk[old][sub] = new.ino]
          = [fs |-> [fs1 EXCEPT !.disk[old][sub] = b], ino |-> b, ret |-> "ok"]
    BY <2>1
  <2> HIDE DEF got
  <2> QED
    BY <1>5, <2>2, <2>3
<1>7. fs2 \in FsSet
  <2> DEFINE fs3 == [fs1 EXCEPT !.disk[old][sub] = b]
  <2> HIDE DEF old, sub
  <2>1. fs3 \in FsSet
    BY <1>1, <1>2, SetEntry
  <2>2. fs2 = [fs3 EXCEPT !.din[f].indirect = old]
    OBVIOUS
  <2>3. old \in Int
    BY <1>2, Constants DEF Blk
  <2> HIDE DEF fs3, fs2
  <2> QED
    BY <2>1, <2>2, <2>3, SetIndirect
<1>8. /\ fs2.freemap = fs1.freemap /\ fs2.unused_blocks = fs1.unused_blocks
      /\ fs2.disk = [fs1.disk EXCEPT ![old][sub] = b]
      /\ fs2.din = [fs1.din EXCEPT ![f].indirect = old]
      /\ SameFlags(fs1, fs2)
  <2> HIDE DEF old, sub
  <2> QED
    BY DEF FsSet, SameFlags
<1>9. fs2.din = fs.din
  <2>1. fs.din \in [File -> Din]
    BY Fields
  <2>2. fs.din[f] = [fs.din[f] EXCEPT !.indirect = @]
    BY <2>1 DEF Din
  <2> HIDE DEF fs2
  <2> QED
    BY <1>1, <1>8, <2>1, <2>2
<1> HIDE DEF fs2, get
<1>10. get.fs = fs2 /\ get.ino = b /\ get.ret = "ok" /\ get = Found(fs2, b)
  BY <1>6 DEF Found
<1>11. /\ fs2.freemap = fs.freemap \ {b} /\ fs2.unused_blocks = fs.unused_blocks - 1
       /\ SameFlags(fs, fs2)
       /\ fs2.disk = [fs.disk EXCEPT ![b] = Zero, ![old][sub] = b]
  BY <1>1, <1>8 DEF SameFlags
<1> QED
  BY <1>7, <1>9, <1>10, <1>11 DEF get, SubAdded

(* There is no indirect block yet and two blocks can be had.               *)
LEMMA GetBoth ==
  ASSUME NEW fs \in FsSet, NEW f \in File, NEW index \in Idx, index >= NDIRECT,
         fs.din[f].indirect = 0, NEW x \in fs.freemap, NEW y \in fs.freemap, x # y
  PROVE  LET get == sfs_bmap_get_nolock(fs, f, index, TRUE) IN
         \E a \in fs.freemap : \E b \in fs.freemap \ {a} :
           /\ get.ret = "ok" /\ get.ino = b /\ get.fs \in FsSet
           /\ get = Found(get.fs, get.ino) /\ BothAdded(fs, get.fs, f, index, a, b)
<1> DEFINE sub == index - NDIRECT
           get == sfs_bmap_get_nolock(fs, f, index, TRUE)
<1>1. PICK a \in fs.freemap, fs1 \in FsSet :
             /\ sfs_block_alloc(fs) = [fs |-> fs1, ino |-> a, ret |-> "ok"]
             /\ fs1.freemap = fs.freemap \ {a} /\ fs1.unused_blocks = fs.unused_blocks - 1
             /\ fs1.disk = [fs.disk EXCEPT ![a] = Zero] /\ fs1.din = fs.din /\ SameFlags(fs, fs1)
  BY BlockAllocFields
<1>2. PICK b \in fs1.freemap, fs2 \in FsSet :
             /\ sfs_block_alloc(fs1) = [fs |-> fs2, ino |-> b, ret |-> "ok"]
             /\ fs2.freemap = fs1.freemap \ {b} /\ fs2.unused_blocks = fs1.unused_blocks - 1
             /\ fs2.disk = [fs1.disk EXCEPT ![b] = Zero] /\ fs2.din = fs1.din /\ SameFlags(fs1, fs2)
  <2>1. fs1.freemap # {}
    BY <1>1
  <2> QED
    BY <2>1, BlockAllocFields
<1>3. /\ index \in Nat /\ NDIRECT \in Nat /\ ~(index < NDIRECT) /\ index # -1
      /\ a \in Blk /\ b \in Int /\ a \in Int
  <2>1. /\ index \in Nat /\ NDIRECT \in Nat /\ ~(index < NDIRECT) /\ index # -1
    BY Constants DEF Idx
  <2>2. a \in Data /\ b \in Data
    BY <1>1, <1>2, Fields
  <2>3. a \in Blk /\ a \in Int /\ b \in Int
    BY <2>2, Constants
  <2> QED
    BY <2>1, <2>3
<1>4. get = sfs_bmap_get_sub_nolock(fs, f, sub, TRUE)
  BY <1>3 DEF sfs_bmap_get_nolock
<1> DEFINE new == sfs_block_alloc(fs1)
           got == [new EXCEPT !.fs.disk[a][sub] = new.ino, !.fs.din[f].indirect = a]
<1>5. get = got
  <2>1. new.ret = "ok"
    BY <1>2
  <2>2. sfs_bmap_get_sub_nolock(fs, f, sub, TRUE)
          = Then(sfs_block_alloc(fs), LAMBDA ent :
                   LET new2 == sfs_block_alloc(ent.fs) IN
                   CASE new2.ret = "ok" -> [new2 EXCEPT !.fs.disk[ent.ino][sub] = new2.ino,
                                                       !.fs.din[f].indirect = ent.ino]
                     [] new2.ret # "ok" /\ fs.din[f].indirect = 0 -> Without(new2, ent.ino)
                     [] OTHER -> new2)
    <3> HIDE DEF sub
    <3> QED
      BY DEF sfs_bmap_get_sub_nolock
  <2> DEFINE ent == sfs_block_alloc(fs)
  <2>3. ent.ret = "ok" /\ ent.fs = fs1 /\ ent.ino = a
    BY <1>1
  <2> HIDE DEF sub, ent
  <2>4. sfs_bmap_get_sub_nolock(fs, f, sub, TRUE)
          = CASE new.ret = "ok" -> got
              [] new.ret # "ok" /\ fs.din[f].indirect = 0 -> Without(new, a)
              [] OTHER -> new
    BY <2>2, <2>3 DEF Then, ent
  <2> QED
    BY <1>4, <2>1, <2>4
<1> DEFINE fs3 == [fs2 EXCEPT !.disk[a][sub] = b, !.din[f].indirect = a]
<1>6. get = [fs |-> fs3, ino |-> b, ret |-> "ok"]
  <2>1. new = [fs |-> fs2, ino |-> b, ret |-> "ok"]
    BY <1>2
  <2>2. got = [[new EXCEPT !.fs.disk[a][sub] = new.ino] EXCEPT !.fs.din[f].indirect = a]
    OBVIOUS
  <2> HIDE DEF sub, get, new
  <2>3. [new EXCEPT !.fs.disk[a][sub] = new.ino]
          = [fs |-> [fs2 EXCEPT !.disk[a][sub] = b], ino |-> b, ret |-> "ok"]
    BY <2>1
  <2> HIDE DEF got
  <2> QED
    BY <1>5, <2>2, <2>3
<1>7. fs3 \in FsSet
  <2> DEFINE fs4 == [fs2 EXCEPT !.disk[a][sub] = b]
  <2> HIDE DEF sub
  <2>1. fs4 \in FsSet
    BY <1>2, <1>3, SetEntry
  <2>2. fs3 = [fs4 EXCEPT !.din[f].indirect = a]
    OBVIOUS
  <2> HIDE DEF fs4, fs3
  <2> QED
    BY <2>1, <2>2, <1>3, SetIndirect
<1>8. /\ fs3.freemap = fs2.freemap /\ fs3.unused_blocks = fs2.unused_blocks
      /\ fs3.disk = [fs2.disk EXCEPT ![a][sub] = b]
      /\ fs3.din = [fs2.din EXCEPT ![f].indirect = a]
      /\ SameFlags(fs2, fs3)
  <2> HIDE DEF sub
  <2> QED
    BY DEF FsSet, SameFlags
<1> HIDE DEF fs3, get
<1>9. get.fs = fs3 /\ get.ino = b /\ get.ret = "ok" /\ get = Found(fs3, b)
  BY <1>6 DEF Found
<1>10. /\ fs3.freemap = fs.freemap \ {a, b}
       /\ SameFlags(fs, fs3)
       /\ fs3.disk = [fs.disk EXCEPT ![a] = Zero, ![b] = Zero, ![a][sub] = b]
       /\ fs3.din = [fs.din EXCEPT ![f].indirect = a]
  BY <1>1, <1>2, <1>8 DEF SameFlags
<1>11. fs3.unused_blocks = fs.unused_blocks - 2
  BY <1>1, <1>2, <1>8, Fields
<1>12. b \in fs.freemap \ {a}
  BY <1>1, <1>2
<1> QED
  BY <1>7, <1>9, <1>10, <1>11, <1>12 DEF get, BothAdded

(* There is not a second block for an entry: the first one, if it was for  *)
(* the indirect block, is free again, and has been cleared.                *)
LEMMA GetFails ==
  ASSUME NEW fs \in FsSet, NEW f \in File, NEW index \in Idx,
         Held(fs, f, index) = 0,
         \/ fs.freemap = {}
         \/ /\ index >= NDIRECT /\ fs.din[f].indirect = 0
            /\ \A x, y \in fs.freemap : x = y
  PROVE  LET get == sfs_bmap_get_nolock(fs, f, index, TRUE) IN
         /\ get.ret = "E_NO_MEM" /\ get.fs \in FsSet /\ SameFlags(fs, get.fs)
         /\ get.fs.freemap = fs.freemap
         /\ get.fs.unused_blocks = fs.unused_blocks
         /\ get.fs.din = fs.din
         /\ \A b \in Blk \ fs.freemap : get.fs.disk[b] = fs.disk[b]
<1> DEFINE get == sfs_bmap_get_nolock(fs, f, index, TRUE)
           ind == fs.din[f].indirect
           sub == index - NDIRECT
<1>1. NDIRECT \in Nat /\ index \in Nat /\ index # -1
  BY Constants DEF Idx
<1>2. CASE fs.freemap = {}
  <2>1. sfs_block_alloc(fs) = Failed(fs, "E_NO_MEM")
    BY <1>2 DEF sfs_block_alloc
  <2>2. get = Failed(fs, "E_NO_MEM")
    <3>1. CASE index < NDIRECT
      <4>1. get = Then(sfs_block_alloc(fs), LAMBDA new : [new EXCEPT !.fs.din[f].direct[index] = new.ino])
        <5>1. ~(index >= NDIRECT) /\ fs.din[f].direct[index] = 0
          BY <1>1, <3>1 DEF Held
        <5> QED
          BY <1>1, <3>1, <5>1 DEF sfs_bmap_get_nolock
      <4> HIDE DEF get
      <4> QED
        BY <4>1, <2>1 DEF Then, Failed
    <3>2. CASE ~(index < NDIRECT)
      <4>1. get = sfs_bmap_get_sub_nolock(fs, f, sub, TRUE)
        <5>1. index >= NDIRECT
          BY <1>1, <3>2
        <5> QED
          BY <1>1, <3>2, <5>1 DEF sfs_bmap_get_nolock
      <4>2. ind = 0 \/ fs.disk[ind][sub] = 0
        BY <1>1, <3>2 DEF Held
      <4> HIDE DEF get, sub
      <4>3. sfs_bmap_get_sub_nolock(fs, f, sub, TRUE)
              = Then(IF ind = 0 THEN sfs_block_alloc(fs) ELSE Found(fs, ind), LAMBDA ent :
                       LET new == sfs_block_alloc(ent.fs) IN
                       CASE new.ret = "ok" -> [new EXCEPT !.fs.disk[ent.ino][sub] = new.ino,
                                                          !.fs.din[f].indirect = ent.ino]
                         [] new.ret # "ok" /\ ind = 0 -> Without(new, ent.ino)
                         [] OTHER -> new)
        BY <4>2 DEF sfs_bmap_get_sub_nolock
      <4>4. CASE ind = 0
        <5> DEFINE none == sfs_block_alloc(fs)
        <5>1. none.ret # "ok"
          BY <2>1 DEF Failed
        <5> HIDE DEF none, ind
        <5> QED
          BY <4>1, <4>3, <4>4, <5>1, <2>1 DEF Then, none
      <4>5. CASE ind # 0
        <5> DEFINE old == Found(fs, ind)
        <5>1. old.ret = "ok" /\ old.fs = fs
          BY DEF Found
        <5>2. Failed(fs, "E_NO_MEM").ret # "ok"
          BY DEF Failed
        <5> HIDE DEF old, ind
        <5> QED
          BY <4>1, <4>3, <4>5, <5>1, <5>2, <2>1 DEF Then, old
      <4> QED
        BY <4>4, <4>5
    <3> QED
      BY <3>1, <3>2
  <2> HIDE DEF get
  <2>3. get.fs = fs /\ get.ret = "E_NO_MEM"
    BY <2>2 DEF Failed
  <2> QED
    BY <2>3 DEF SameFlags, get
<1>3. CASE fs.freemap # {}
  <2>0. index >= NDIRECT /\ ind = 0 /\ \A x, y \in fs.freemap : x = y
    BY <1>3
  <2>1. PICK a \in fs.freemap, fs1 \in FsSet :
             /\ sfs_block_alloc(fs) = [fs |-> fs1, ino |-> a, ret |-> "ok"]
             /\ fs1.freemap = fs.freemap \ {a} /\ fs1.unused_blocks = fs.unused_blocks - 1
             /\ fs1.disk = [fs.disk EXCEPT ![a] = Zero] /\ fs1.din = fs.din /\ SameFlags(fs, fs1)
    BY <1>3, BlockAllocFields
  <2>2. fs1.freemap = {} /\ a \in Data \ fs1.freemap
    BY <2>0, <2>1, Fields
  <2>3. sfs_block_alloc(fs1) = Failed(fs1, "E_NO_MEM")
    BY <2>2 DEF sfs_block_alloc
  <2> DEFINE fs2 == [fs1 EXCEPT !.freemap = @ \cup {a}, !.unused_blocks = @ + 1]
  <2>4. sfs_block_free(fs1, a) = Found(fs2, 0) /\ fs2 \in FsSet
    BY <2>1, <2>2, BlockFree
  <2>5. get = [fs |-> fs2, ino |-> 0, ret |-> "E_NO_MEM"]
    <3>1. get = sfs_bmap_get_sub_nolock(fs, f, sub, TRUE)
      <4>1. ~(index < NDIRECT)
        BY <1>1, <2>0
      <4> QED
        BY <1>1, <2>0, <4>1 DEF sfs_bmap_get_nolock
    <3> HIDE DEF get, sub
    <3>2. sfs_bmap_get_sub_nolock(fs, f, sub, TRUE)
            = Then(sfs_block_alloc(fs), LAMBDA ent :
                     LET new == sfs_block_alloc(ent.fs) IN
                     CASE new.ret = "ok" -> [new EXCEPT !.fs.disk[ent.ino][sub] = new.ino,
                                                        !.fs.din[f].indirect = ent.ino]
                       [] new.ret # "ok" /\ ind = 0 -> Without(new, ent.ino)
                       [] OTHER -> new)
      BY <2>0 DEF sfs_bmap_get_sub_nolock
    <3> DEFINE new == sfs_block_alloc(fs1)
    <3>3. new = [fs |-> fs1, ino |-> 0, ret |-> "E_NO_MEM"]
      BY <2>3 DEF Failed
    <3> HIDE DEF fs2, new
    <3>4. get = Without(new, a)
      <4>1. new.ret # "ok"
        BY <3>3
      <4> DEFINE ent == sfs_block_alloc(fs)
      <4>2. ent.ret = "ok" /\ ent.fs = fs1 /\ ent.ino = a
        BY <2>1
      <4> HIDE DEF ind, ent
      <4>3. get = CASE new.ret = "ok" -> [new EXCEPT !.fs.disk[a][sub] = new.ino,
                                                   !.fs.din[f].indirect = a]
                    [] new.ret # "ok" /\ ind = 0 -> Without(new, a)
                    [] OTHER -> new
        BY <3>1, <3>2, <4>2 DEF Then, ent, new
      <4> QED
        BY <2>0, <4>1, <4>3
    <3>5. Without(new, a) = [fs |-> fs2, ino |-> 0, ret |-> "E_NO_MEM"]
      BY <3>3, <2>4 DEF Without, Found
    <3> QED
      BY <3>4, <3>5
  <2>6. /\ fs2.freemap = fs1.freemap \cup {a} /\ fs2.unused_blocks = fs1.unused_blocks + 1
        /\ fs2.disk = fs1.disk /\ fs2.din = fs1.din /\ SameFlags(fs1, fs2)
    BY <2>1 DEF FsSet, SameFlags
  <2> HIDE DEF get, fs2
  <2>7. get.fs = fs2 /\ get.ret = "E_NO_MEM"
    BY <2>5
  <2>8. fs2.freemap = fs.freemap
    BY <2>1, <2>6
  <2>9. fs2.unused_blocks = fs.unused_blocks
    <3>1. fs.unused_blocks \in Int
      BY Fields
    <3> QED
      BY <2>1, <2>6, <3>1
  <2>10. \A b \in Blk \ fs.freemap : fs2.disk[b] = fs.disk[b]
    BY <2>1, <2>6, Fields
  <2> QED
    BY <2>1, <2>4, <2>6, <2>7, <2>8, <2>9, <2>10 DEF SameFlags, get
<1> QED
  BY <1>2, <1>3

-----------------------------------------------------------------------------
(* What a file holds at a cell of one of its blocks.                       *)
Byte(fs, f, i, c) == IF i < fs.din[f].blocks THEN fs.disk[Held(fs, f, i)][c] ELSE 0

Same(fs, fs2) ==
  /\ SameFlags(fs, fs2)
  /\ \A g \in File : fs2.din[g].size = fs.din[g].size
  /\ \A g \in File : \A i \in Nat : \A c \in Cell : Byte(fs2, g, i, c) = Byte(fs, g, i, c)

(* The blocks X have been allocated for the entry index of f and, when     *)
(* there are two, for its indirect block.                                  *)
Added(fs, fs2, f, index, X) ==
  /\ X \subseteq fs.freemap /\ fs2.freemap = fs.freemap \ X
  /\ fs2.unused_blocks = fs.unused_blocks - Cardinality(X)
  /\ SameFlags(fs, fs2)
  /\ \A g \in File : fs2.din[g].blocks = fs.din[g].blocks /\ fs2.din[g].size = fs.din[g].size
  /\ \A g \in File \ {f} : \A i \in Place : Held(fs2, g, i) = Held(fs, g, i)
  /\ \A i \in Place : Held(fs2, f, i) \in X \/ Held(fs2, f, i) = Held(fs, f, i)
  /\ \A i \in Place : Held(fs, f, i) # 0 => Held(fs2, f, i) = Held(fs, f, i)
  /\ \A i, j \in Place : Held(fs2, f, i) \in X /\ Held(fs2, f, i) = Held(fs2, f, j) => i = j
  /\ \A x \in X : \E i \in Place : Held(fs2, f, i) = x
  /\ \A i \in Idx : Held(fs2, f, i) \in X <=> i = index
  /\ \A x \in Blk \ X : x # Held(fs2, f, -1) => fs2.disk[x] = fs.disk[x]
  /\ fs2.disk[Held(fs2, f, index)] = Zero

LEMMA Places == Idx \subseteq Place /\ -1 \in Place /\ -1 \notin Idx /\ Idx \subseteq Nat
BY Constants DEF Idx, Place

(* The number of blocks is assigned.                                       *)
WithBlocks(fs, f, n) == [fs EXCEPT !.din[f].blocks = n]

LEMMA BlocksAssigned ==
  ASSUME NEW fs \in FsSet, NEW f \in File, NEW n \in Nat,
         NEW fs2, fs2 = WithBlocks(fs, f, n)
  PROVE  /\ fs2 \in FsSet /\ SameFlags(fs, fs2)
         /\ fs2.freemap = fs.freemap /\ fs2.unused_blocks = fs.unused_blocks
         /\ fs2.disk = fs.disk
         /\ \A g \in File : /\ fs2.din[g].size = fs.din[g].size
                           /\ fs2.din[g].blocks = (IF g = f THEN n ELSE fs.din[g].blocks)
                           /\ \A i \in Place : Held(fs2, g, i) = Held(fs, g, i)
<1>1. fs2 \in FsSet
  BY SetBlocks DEF WithBlocks
<1>2. /\ SameFlags(fs, fs2)
      /\ fs2.freemap = fs.freemap /\ fs2.unused_blocks = fs.unused_blocks
      /\ fs2.disk = fs.disk /\ fs2.din = [fs.din EXCEPT ![f].blocks = n]
  BY DEF FsSet, SameFlags, WithBlocks
<1>3. \A g \in File : /\ fs2.din[g].size = fs.din[g].size
                      /\ fs2.din[g].blocks = (IF g = f THEN n ELSE fs.din[g].blocks)
                      /\ fs2.din[g].indirect = fs.din[g].indirect
                      /\ fs2.din[g].direct = fs.din[g].direct
  BY <1>2, Fields DEF Din
<1>4. \A g \in File : \A i \in Place : Held(fs2, g, i) = Held(fs, g, i)
  BY <1>2, <1>3 DEF Held
<1> QED
  BY <1>1, <1>2, <1>3, <1>4

LEMMA CardinalityMinus ==
  ASSUME NEW S, S \subseteq Data, NEW X, X \subseteq S
  PROVE  Cardinality(S \ X) = Cardinality(S) - Cardinality(X)
<1>1. IsFiniteSet(S) /\ IsFiniteSet(X) /\ X \subseteq S
  BY SubsetFinite, FS_Subset
<1>2. S \cap X = X
  OBVIOUS
<1> QED
  BY <1>1, <1>2, FS_Difference

LEMMA AddedSound ==
  ASSUME NEW fs, Sound(fs), NEW fs2 \in FsSet, NEW f \in File, NEW index \in Idx,
         index = fs.din[f].blocks, NEW X, Added(fs, fs2, f, index, X)
  PROVE  LET fs3 == WithBlocks(fs2, f, index + 1) IN
         /\ Sound(fs3) /\ Same(fs, fs3)
         /\ \A g \in File : fs3.din[g].blocks = (IF g = f THEN index + 1 ELSE fs.din[g].blocks)
         /\ Held(fs3, f, index) = Held(fs2, f, index)
<1> DEFINE fs3 == WithBlocks(fs2, f, index + 1)
<1>0. /\ fs \in FsSet /\ index \in Nat /\ index + 1 \in Nat /\ index \in Place
      /\ fs.freemap \subseteq Data /\ 0 \notin Data /\ X \subseteq Data
  BY Places, Fields, Constants DEF Sound, Added
<1>1. /\ fs3 \in FsSet /\ SameFlags(fs2, fs3)
      /\ fs3.freemap = fs2.freemap /\ fs3.unused_blocks = fs2.unused_blocks
      /\ fs3.disk = fs2.disk
      /\ \A g \in File : /\ fs3.din[g].size = fs2.din[g].size
                         /\ fs3.din[g].blocks = (IF g = f THEN index + 1 ELSE fs2.din[g].blocks)
                         /\ \A i \in Place : Held(fs3, g, i) = Held(fs2, g, i)
  <2>1. PICK n \in Nat : n = index + 1
    BY <1>0
  <2>2. fs3 = WithBlocks(fs2, f, n)
    BY <2>1
  <2> HIDE DEF fs3
  <2>3. /\ fs3 \in FsSet /\ SameFlags(fs2, fs3)
        /\ fs3.freemap = fs2.freemap /\ fs3.unused_blocks = fs2.unused_blocks
        /\ fs3.disk = fs2.disk
        /\ \A g \in File : /\ fs3.din[g].size = fs2.din[g].size
                           /\ fs3.din[g].blocks = (IF g = f THEN n ELSE fs2.din[g].blocks)
                           /\ \A i \in Place : Held(fs3, g, i) = Held(fs2, g, i)
    BY <2>2, BlocksAssigned
  <2> QED
    BY <2>1, <2>3
<1> HIDE DEF fs3
<1>2. Counted(fs3)
  <2>1. fs3.unused_blocks = fs.unused_blocks - Cardinality(X) /\ fs3.freemap = fs.freemap \ X
    BY <1>1 DEF Added
  <2>2. fs.unused_blocks = Cardinality(fs.freemap) /\ fs.freemap \subseteq Data
    BY <1>0 DEF Sound, Counted
  <2>3. X \subseteq fs.freemap
    BY DEF Added
  <2> QED
    BY <2>1, <2>2, <2>3, CardinalityMinus DEF Counted
<1>3. Mapped(fs3)
  <2> SUFFICES ASSUME NEW g \in File, NEW i \in Idx
               PROVE  Held(fs3, g, i) # 0 <=> i < fs3.din[g].blocks
    BY DEF Mapped
  <2>1. Held(fs, g, i) # 0 <=> i < fs.din[g].blocks
    BY DEF Sound, Mapped
  <2>2. i \in Place /\ i \in Nat
    BY Places
  <2>3. CASE g # f
    BY <1>1, <2>1, <2>2, <2>3 DEF Added
  <2>4. CASE g = f /\ i = index
    <3>1. Held(fs3, f, index) \in X
      BY <1>0, <1>1 DEF Added
    <3> QED
      BY <1>0, <1>1, <2>4, <3>1
  <2>5. CASE g = f /\ i # index
    <3>1. Held(fs3, f, i) = Held(fs, f, i)
      BY <1>1, <2>2, <2>5 DEF Added
    <3> QED
      BY <1>0, <1>1, <2>1, <2>2, <2>5, <3>1
  <2> QED
    BY <2>3, <2>4, <2>5
<1>4. Taken(fs3)
  <2> SUFFICES ASSUME NEW g \in File, NEW i \in Place
               PROVE  Held(fs3, g, i) \in {0} \cup (Data \ fs3.freemap)
    BY DEF Taken
  <2>1. Held(fs, g, i) \in {0} \cup (Data \ fs.freemap)
    BY DEF Sound, Taken
  <2>2. Held(fs3, g, i) \in X \/ Held(fs3, g, i) = Held(fs, g, i)
    BY <1>1 DEF Added
  <2> QED
    BY <1>0, <1>1, <2>1, <2>2 DEF Added
<1>5. Unshared(fs3)
  <2> SUFFICES ASSUME NEW g \in File, NEW h \in File, NEW i \in Place, NEW j \in Place,
                      Held(fs3, g, i) # 0, Held(fs3, g, i) = Held(fs3, h, j)
               PROVE  g = h /\ i = j
    BY DEF Unshared
  <2>1. Held(fs3, g, i) \in X => g = f
    BY <1>0, <1>1 DEF Added, Sound, Taken
  <2>2. Held(fs3, h, j) \in X => h = f
    BY <1>0, <1>1 DEF Added, Sound, Taken
  <2>3. CASE Held(fs3, g, i) \in X
    BY <1>1, <2>1, <2>2, <2>3 DEF Added
  <2>4. CASE Held(fs3, g, i) \notin X
    BY <1>1, <2>4 DEF Added, Sound, Unshared
  <2> QED
    BY <2>3, <2>4
<1>6. Kept(fs3)
  <2> SUFFICES ASSUME NEW b \in Data \ fs3.freemap
               PROVE  \E g \in File : \E i \in Place : Held(fs3, g, i) = b
    BY DEF Kept
  <2>1. CASE b \in X
    BY <1>1, <2>1 DEF Added
  <2>2. CASE b \notin X
    <3>1. b \in Data \ fs.freemap
      BY <1>1, <2>2 DEF Added
    <3>2. PICK g \in File, i \in Place : Held(fs, g, i) = b
      BY <3>1 DEF Sound, Kept
    <3>3. b # 0
      BY <1>0
    <3> QED
      BY <1>1, <3>2, <3>3 DEF Added
  <2> QED
    BY <2>1, <2>2
<1>7. Fits(fs3)
  <2>1. index + 1 <= NDIRECT + BLKSIZE
    BY Constants DEF Idx
  <2> QED
    BY <1>1, <2>1 DEF Added, Sound, Fits
<1>8. ASSUME NEW g \in File, NEW i \in Nat, NEW c \in Cell
      PROVE  Byte(fs3, g, i, c) = Byte(fs, g, i, c)
  <2>1. CASE i < fs.din[g].blocks
    <3> DEFINE b == Held(fs, g, i)
    <3>1. i \in Idx /\ i \in Place
      <4>1. fs.din[g].blocks <= NDIRECT + BLKSIZE /\ fs.din[g].blocks \in Nat
        BY <1>0, Fields DEF Sound, Fits
      <4> QED
        BY <2>1, <4>1, Constants DEF Idx, Place
    <3>2. b # 0 /\ b \in Data \ fs.freemap
      BY <2>1, <3>1 DEF Sound, Mapped, Taken
    <3>3. Held(fs3, g, i) = b
      BY <1>1, <3>1, <3>2 DEF Added
    <3>4. b # Held(fs2, f, -1)
      BY <1>1, <1>5, <3>1, <3>2, <3>3, Places DEF Unshared
    <3>5. fs3.disk[b] = fs.disk[b]
      <4>1. b \in Blk \ X
        BY <3>2, Constants DEF Added
      <4> QED
        BY <1>1, <3>4, <4>1 DEF Added
    <3>6. i < fs3.din[g].blocks
      BY <1>0, <1>1, <2>1 DEF Added
    <3> QED
      BY <2>1, <3>3, <3>5, <3>6 DEF Byte
  <2>2. CASE ~(i < fs.din[g].blocks) /\ g = f /\ i = index
    <3>1. i < fs3.din[g].blocks
      BY <1>0, <1>1, <2>2
    <3>2. fs3.disk[Held(fs3, g, i)] = Zero
      BY <1>0, <1>1, <2>2 DEF Added
    <3> QED
      BY <2>2, <3>1, <3>2 DEF Byte, Zero
  <2>3. CASE ~(i < fs.din[g].blocks) /\ ~(g = f /\ i = index)
    <3>1. ~(i < fs3.din[g].blocks)
      BY <1>0, <1>1, <2>3 DEF Added
    <3> QED
      BY <2>3, <3>1 DEF Byte
  <2> QED
    BY <2>1, <2>2, <2>3
<1>9. Same(fs, fs3)
  BY <1>1, <1>8 DEF Same, SameFlags, Added
<1>10. Sound(fs3)
  BY <1>1, <1>2, <1>3, <1>4, <1>5, <1>6, <1>7 DEF Sound
<1> QED
  BY <1>0, <1>1, <1>9, <1>10 DEF fs3, Added

LEMMA FreeBlocks ==
  ASSUME NEW fs, Sound(fs)
  PROVE  /\ fs \in FsSet
         /\ \A b \in fs.freemap : /\ b \in Data /\ b \in Blk /\ b # 0
                                  /\ \A g \in File : \A i \in Place : Held(fs, g, i) # b
         /\ \A g \in File : fs.din[g].indirect # 0 =>
              fs.din[g].indirect \in Data \ fs.freemap /\ fs.din[g].indirect \in Blk
<1>1. fs \in FsSet /\ fs.freemap \subseteq Data
  BY Fields DEF Sound
<1>2. \A b \in fs.freemap : b \in Data /\ b \in Blk /\ b # 0
  BY <1>1, Constants
<1>3. \A b \in fs.freemap : \A g \in File : \A i \in Place : Held(fs, g, i) # b
  BY <1>2 DEF Sound, Taken
<1>4. \A g \in File : Held(fs, g, -1) = fs.din[g].indirect
  BY DEF Held
<1>5. \A g \in File : fs.din[g].indirect # 0 => fs.din[g].indirect \in Data \ fs.freemap
  BY <1>4, Places DEF Sound, Taken
<1> QED
  BY <1>1, <1>2, <1>3, <1>5, Constants

LEMMA AddedDirect ==
  ASSUME NEW fs, Sound(fs), NEW fs2 \in FsSet, NEW f \in File, NEW index \in Idx,
         index < NDIRECT, NEW b \in fs.freemap, Held(fs, f, index) = 0,
         DirectAdded(fs, fs2, f, index, b)
  PROVE  Added(fs, fs2, f, index, {b}) /\ Held(fs2, f, index) = b
<1> USE DEF DirectAdded
<1>1. /\ fs \in FsSet /\ index \in Place /\ index \in Nat /\ index # -1
      /\ NDIRECT \in Nat /\ index \in 0..NDIRECT - 1
      /\ b \in Data /\ b \in Blk /\ b # 0
  BY Places, Fields, Constants DEF Sound
<1>2. \A g \in File : /\ fs2.din[g].blocks = fs.din[g].blocks /\ fs2.din[g].size = fs.din[g].size
                      /\ fs2.din[g].indirect = fs.din[g].indirect
                      /\ fs2.din[g].direct = (IF g = f THEN [fs.din[f].direct EXCEPT ![index] = b]
                                              ELSE fs.din[g].direct)
  <2>1. fs.din \in [File -> Din]
    BY <1>1, Fields
  <2> QED
    BY <2>1 DEF Din
<1>3. \A g \in File : \A i \in Place : i >= NDIRECT =>
        Held(fs2, g, i) = Held(fs, g, i)
  <2> SUFFICES ASSUME NEW g \in File, NEW i \in Place, i >= NDIRECT
               PROVE  Held(fs2, g, i) = Held(fs, g, i)
    OBVIOUS
  <2>1. i # -1 /\ ~(i < NDIRECT)
    BY Constants DEF Place
  <2>2. CASE fs.din[g].indirect = 0
    BY <1>2, <2>1, <2>2 DEF Held
  <2>3. CASE fs.din[g].indirect # 0
    <3>1. Held(fs, g, -1) = fs.din[g].indirect
      BY DEF Held
    <3>2. fs.din[g].indirect \in Data \ fs.freemap
      BY <2>3, <3>1, Places DEF Sound, Taken
    <3>3. fs2.disk[fs.din[g].indirect] = fs.disk[fs.din[g].indirect]
      BY <1>1, <3>2, Fields, Constants
    <3> QED
      BY <1>2, <2>1, <2>3, <3>3 DEF Held
  <2> QED
    BY <2>2, <2>3
<1>4. \A g \in File : Held(fs2, g, -1) = Held(fs, g, -1)
  BY <1>2 DEF Held
<1>5. \A g \in File : \A i \in Place :
        Held(fs2, g, i) = IF g = f /\ i = index THEN b ELSE Held(fs, g, i)
  <2> SUFFICES ASSUME NEW g \in File, NEW i \in Place
               PROVE  Held(fs2, g, i) = IF g = f /\ i = index THEN b ELSE Held(fs, g, i)
    OBVIOUS
  <2>1. CASE i = -1
    BY <1>1, <1>4, <2>1
  <2>2. CASE i >= NDIRECT
    BY <1>1, <1>3, <2>2
  <2>3. CASE i # -1 /\ ~(i >= NDIRECT)
    <3>1. i \in 0..NDIRECT - 1 /\ i < NDIRECT
      BY <2>3, Constants DEF Place
    <3>2. Held(fs2, g, i) = fs2.din[g].direct[i] /\ Held(fs, g, i) = fs.din[g].direct[i]
      BY <2>3, <3>1 DEF Held
    <3>3. fs.din[g].direct \in [0..NDIRECT - 1 -> Int]
      BY <1>1, Fields
    <3> QED
      BY <1>2, <3>1, <3>2, <3>3
  <2> QED
    BY <2>1, <2>2, <2>3
<1>6. \A g \in File : \A i \in Place : Held(fs, g, i) # b
  BY <1>1 DEF Sound, Taken
<1>7. fs2.disk[b] = Zero /\ \A x \in Blk \ {b} : fs2.disk[x] = fs.disk[x]
  BY <1>1, Fields
<1>8. Cardinality({b}) = 1
  BY FS_Singleton
<1>9. Held(fs2, f, index) = b
  BY <1>1, <1>5
<1>a. fs2.unused_blocks = fs.unused_blocks - Cardinality({b})
  BY <1>8
<1> QED
  BY <1>1, <1>2, <1>5, <1>6, <1>7, <1>a, <1>9, Places DEF Added

LEMMA AddedSub ==
  ASSUME NEW fs, Sound(fs), NEW fs2 \in FsSet, NEW f \in File, NEW index \in Idx,
         index >= NDIRECT, NEW b \in fs.freemap, Held(fs, f, index) = 0,
         fs.din[f].indirect # 0, SubAdded(fs, fs2, f, index, b)
  PROVE  Added(fs, fs2, f, index, {b}) /\ Held(fs2, f, index) = b
<1> USE DEF SubAdded
<1> DEFINE ind(g) == fs.din[g].indirect
<1>1. /\ fs \in FsSet /\ index \in Place /\ index \in Nat /\ index # -1 /\ ~(index < NDIRECT)
      /\ NDIRECT \in Nat /\ b \in Data /\ b \in Blk /\ b # 0
      /\ index - NDIRECT \in Cell
  <2>1. index - NDIRECT \in Cell
    BY Constants DEF Idx, Cell
  <2> QED
    BY <2>1, Places, FreeBlocks, Constants
<1>2. \A g \in File : Held(fs, g, -1) = ind(g) /\ Held(fs2, g, -1) = ind(g)
  BY DEF Held
<1>3. \A g \in File : ind(g) # 0 => ind(g) \in Data \ fs.freemap /\ ind(g) \in Blk /\ ind(g) # b
  BY FreeBlocks
<1>4. \A g \in File : ind(g) # 0 /\ g # f => ind(g) # ind(f)
  BY <1>2, Places DEF Sound, Unshared
<1>5. /\ fs2.disk[b] = Zero
      /\ fs2.disk[ind(f)] = [fs.disk[ind(f)] EXCEPT ![index - NDIRECT] = b]
      /\ \A x \in Blk \ {b, ind(f)} : fs2.disk[x] = fs.disk[x]
  <2>1. fs.disk \in [Blk -> [Cell -> Int]]
    BY <1>1, Fields
  <2>2. ind(f) \in Blk /\ ind(f) # b
    BY <1>3
  <2> DEFINE d == [fs.disk EXCEPT ![b] = Zero]
             o == ind(f)
             s == index - NDIRECT
  <2>3. d[b] = Zero /\ DOMAIN d = Blk /\ \A x \in Blk \ {b} : d[x] = fs.disk[x]
    BY <1>1, <2>1
  <2>4. fs2.disk = [d EXCEPT ![o][s] = b]
    OBVIOUS
  <2> HIDE DEF d, o, s
  <2>5. fs2.disk[o] = [d[o] EXCEPT ![s] = b] /\ \A x \in Blk \ {o} : fs2.disk[x] = d[x]
    BY <2>2, <2>3, <2>4 DEF o
  <2> QED
    BY <1>1, <2>2, <2>3, <2>5 DEF o, s
<1>6. \A g \in File : \A i \in Place :
        Held(fs2, g, i) = IF g = f /\ i = index THEN b ELSE Held(fs, g, i)
  <2> SUFFICES ASSUME NEW g \in File, NEW i \in Place
               PROVE  Held(fs2, g, i) = IF g = f /\ i = index THEN b ELSE Held(fs, g, i)
    OBVIOUS
  <2>1. CASE i = -1
    BY <1>1, <1>2, <2>1
  <2>2. CASE i # -1 /\ i < NDIRECT
    BY <1>1, <2>2 DEF Held
  <2>3. CASE i # -1 /\ ~(i < NDIRECT)
    <3>1. i - NDIRECT \in Cell /\ i \in Int
      BY <2>3, Constants DEF Place, Cell
    <3>2. CASE ind(g) = 0
      BY <1>1, <2>3, <3>2 DEF Held
    <3>3. CASE ind(g) # 0 /\ g # f
      <4>1. fs2.disk[ind(g)] = fs.disk[ind(g)]
        BY <1>3, <1>4, <1>5, <3>3
      <4> QED
        BY <2>3, <3>3, <4>1 DEF Held
    <3>4. CASE g = f
      <4>1. Held(fs2, f, i) = fs2.disk[ind(f)][i - NDIRECT] /\ Held(fs, f, i) = fs.disk[ind(f)][i - NDIRECT]
        BY <2>3, <3>4 DEF Held
      <4>2. fs.disk[ind(f)] \in [Cell -> Int]
        BY <1>1, <1>3, Fields
      <4>3. i # index <=> i - NDIRECT # index - NDIRECT
        <5>1. i \in Int /\ index \in Int /\ NDIRECT \in Int
          BY <1>1, <3>1
        <5> QED
          BY <5>1
      <4> DEFINE s == index - NDIRECT
                 j == i - NDIRECT
                 old == fs.disk[ind(f)]
      <4>4. fs2.disk[ind(f)][j] = IF j = s THEN b ELSE old[j]
        <5>1. s \in Cell /\ j \in Cell /\ fs2.disk[ind(f)] = [old EXCEPT ![s] = b]
          BY <1>1, <1>5, <3>1
        <5> HIDE DEF s, j, old
        <5>2. old \in [Cell -> Int]
          BY <4>2 DEF old
        <5> QED
          BY <5>1, <5>2
      <4> QED
        BY <3>4, <4>1, <4>3, <4>4
    <3> QED
      BY <3>2, <3>3, <3>4
  <2> QED
    BY <2>1, <2>2, <2>3
<1>7. \A g \in File : \A i \in Place : Held(fs, g, i) # b
  BY <1>1 DEF Sound, Taken
<1>8. Cardinality({b}) = 1
  BY FS_Singleton
<1>9. Held(fs2, f, index) = b
  BY <1>1, <1>6
<1>a. fs2.unused_blocks = fs.unused_blocks - Cardinality({b})
  BY <1>8
<1> HIDE DEF ind
<1>b. /\ \A g \in File : fs2.din[g].blocks = fs.din[g].blocks /\ fs2.din[g].size = fs.din[g].size
      /\ \A x \in Blk \ {b} : x # Held(fs2, f, -1) => fs2.disk[x] = fs.disk[x]
      /\ fs2.disk[Held(fs2, f, index)] = Zero
  BY <1>2, <1>5, <1>9
<1> QED
  BY <1>1, <1>6, <1>7, <1>a, <1>b, <1>9, Places DEF Added

LEMMA AddedBoth ==
  ASSUME NEW fs, Sound(fs), NEW fs2 \in FsSet, NEW f \in File, NEW index \in Idx,
         index >= NDIRECT, NEW a \in fs.freemap, NEW b \in fs.freemap \ {a},
         fs.din[f].indirect = 0, BothAdded(fs, fs2, f, index, a, b)
  PROVE  (\E X : Added(fs, fs2, f, index, X)) /\ Held(fs2, f, index) = b
<1> USE DEF BothAdded
<1> DEFINE ind(g) == fs.din[g].indirect
<1>1. /\ fs \in FsSet /\ index \in Place /\ index \in Nat /\ index # -1 /\ ~(index < NDIRECT)
      /\ NDIRECT \in Nat /\ a \in Data /\ a \in Blk /\ a # 0 /\ b \in Data /\ b \in Blk /\ b # 0
      /\ index - NDIRECT \in Cell /\ a # b
  <2>1. index - NDIRECT \in Cell
    BY Constants DEF Idx, Cell
  <2> QED
    BY <2>1, Places, FreeBlocks, Constants
<1>2. \A g \in File : /\ fs2.din[g].blocks = fs.din[g].blocks /\ fs2.din[g].size = fs.din[g].size
                      /\ fs2.din[g].indirect = (IF g = f THEN a ELSE ind(g))
                      /\ fs2.din[g].direct = fs.din[g].direct
  <2>1. fs.din \in [File -> Din]
    BY <1>1, Fields
  <2> QED
    BY <2>1 DEF Din
<1>3. \A g \in File : ind(g) # 0 => ind(g) \in Data \ fs.freemap /\ ind(g) \in Blk
  <2>1. \A g \in File : Held(fs, g, -1) = ind(g)
    BY DEF Held
  <2> QED
    BY <2>1, Places, Constants DEF Sound, Taken
<1>5. /\ fs2.disk[b] = Zero
      /\ fs2.disk[a] = [Zero EXCEPT ![index - NDIRECT] = b]
      /\ \A x \in Blk \ {a, b} : fs2.disk[x] = fs.disk[x]
  <2>1. fs.disk \in [Blk -> [Cell -> Int]]
    BY <1>1, Fields
  <2> DEFINE d == [fs.disk EXCEPT ![a] = Zero]
             e == [d EXCEPT ![b] = Zero]
             s == index - NDIRECT
  <2>3. d[a] = Zero /\ DOMAIN d = Blk /\ \A x \in Blk \ {a} : d[x] = fs.disk[x]
    BY <1>1, <2>1
  <2>4. fs2.disk = [e EXCEPT ![a][s] = b]
    OBVIOUS
  <2> HIDE DEF d, s
  <2>5. e[b] = Zero /\ DOMAIN e = Blk /\ \A x \in Blk \ {b} : e[x] = d[x]
    BY <1>1, <2>3
  <2> HIDE DEF e
  <2>6. fs2.disk[a] = [e[a] EXCEPT ![s] = b] /\ \A x \in Blk \ {a} : fs2.disk[x] = e[x]
    BY <1>1, <2>4, <2>5
  <2> QED
    BY <1>1, <2>3, <2>5, <2>6 DEF s
<1>6. \A g \in File \ {f} : \A i \in Place : Held(fs2, g, i) = Held(fs, g, i)
  <2> SUFFICES ASSUME NEW g \in File \ {f}, NEW i \in Place
               PROVE  Held(fs2, g, i) = Held(fs, g, i)
    OBVIOUS
  <2>1. CASE ind(g) = 0
    BY <1>2, <2>1 DEF Held
  <2>2. CASE ind(g) # 0
    <3>1. ind(g) \in Blk \ {a, b}
      BY <1>3, <2>2
    <3>2. fs2.disk[ind(g)] = fs.disk[ind(g)]
      BY <1>5, <3>1
    <3> QED
      BY <1>2, <2>2, <3>2 DEF Held
  <2> QED
    BY <2>1, <2>2
<1>7. \A i \in Place :
        Held(fs2, f, i) = IF i = -1 THEN a ELSE IF i = index THEN b ELSE Held(fs, f, i)
  <2> SUFFICES ASSUME NEW i \in Place
               PROVE  Held(fs2, f, i) = IF i = -1 THEN a ELSE IF i = index THEN b ELSE Held(fs, f, i)
    OBVIOUS
  <2>1. CASE i = -1
    BY <1>2, <2>1 DEF Held
  <2>2. CASE i # -1 /\ i < NDIRECT
    BY <1>1, <1>2, <2>2 DEF Held
  <2>3. CASE i # -1 /\ ~(i < NDIRECT)
    <3>1. i - NDIRECT \in Cell /\ i \in Int
      BY <2>3, Constants DEF Place, Cell
    <3>2. Held(fs2, f, i) = fs2.disk[a][i - NDIRECT] /\ Held(fs, f, i) = 0
      BY <1>1, <1>2, <2>3 DEF Held
    <3>3. i # index <=> i - NDIRECT # index - NDIRECT
      BY <1>1, <3>1
    <3>4. Zero \in [Cell -> Int] /\ Zero[i - NDIRECT] = 0
      BY <3>1, Constants DEF Zero
    <3> DEFINE s == index - NDIRECT
               j == i - NDIRECT
    <3>5. fs2.disk[a][j] = IF j = s THEN b ELSE Zero[j]
      <4>1. s \in Cell /\ j \in Cell /\ fs2.disk[a] = [Zero EXCEPT ![s] = b]
        BY <1>1, <1>5, <3>1
      <4> HIDE DEF s, j
      <4> QED
        BY <3>4, <4>1
    <3> QED
      BY <2>3, <3>2, <3>3, <3>4, <3>5
  <2> QED
    BY <2>1, <2>2, <2>3
<1>8. \A g \in File : \A i \in Place : Held(fs, g, i) \notin {a, b}
  BY <1>1 DEF Sound, Taken
<1>9. Held(fs2, f, index) = b /\ Held(fs2, f, -1) = a
  BY <1>1, <1>7, Places
<1>a. fs2.unused_blocks = fs.unused_blocks - Cardinality({a, b})
  <2>1. Cardinality({a, b}) = 2
    <3>1. IsFiniteSet({a}) /\ Cardinality({a}) = 1 /\ b \notin {a} /\ {a} \cup {b} = {a, b}
      BY <1>1, FS_Singleton
    <3>2. Cardinality({a} \cup {b}) = Cardinality({a}) + 1
      BY <3>1, FS_AddElement
    <3> QED
      BY <3>1, <3>2
  <2> QED
    BY <2>1
<1>b. /\ \A g \in File : fs2.din[g].blocks = fs.din[g].blocks /\ fs2.din[g].size = fs.din[g].size
      /\ \A x \in Blk \ {a, b} : x # Held(fs2, f, -1) => fs2.disk[x] = fs.disk[x]
      /\ fs2.disk[Held(fs2, f, index)] = Zero
  BY <1>2, <1>5, <1>9
<1> HIDE DEF ind
<1>c. Held(fs, f, -1) = 0
  BY DEF Held
<1>d. Held(fs, f, index) = 0
  BY <1>1 DEF Held
<1>e. /\ \A i \in Place : Held(fs2, f, i) \in {a, b} \/ Held(fs2, f, i) = Held(fs, f, i)
      /\ \A i \in Place : Held(fs, f, i) # 0 => Held(fs2, f, i) = Held(fs, f, i)
      /\ \A x \in {a, b} : \E i \in Place : Held(fs2, f, i) = x
  BY <1>1, <1>7, <1>9, <1>c, <1>d, Places
<1>f. \A i \in Place : /\ Held(fs2, f, i) = a <=> i = -1
                       /\ Held(fs2, f, i) = b <=> i = index
  BY <1>1, <1>7, <1>8
<1>g. Added(fs, fs2, f, index, {a, b})
  BY <1>1, <1>6, <1>a, <1>b, <1>e, <1>f, Places DEF Added
<1> QED
  BY <1>9, <1>g

(* A file never has as many blocks as its block map has entries: the disk  *)
(* is full before.                                                         *)
LEMMA BlocksFit ==
  ASSUME NEW fs, Sound(fs), NEW f \in File
  PROVE  fs.din[f].blocks \in Idx
<1>1. /\ fs \in FsSet /\ fs.din[f].blocks \in Nat /\ fs.din[f].blocks <= NDIRECT + BLKSIZE
  BY Fields DEF Sound, Fits
<1>2. /\ NDIRECT \in Nat \ {0} /\ BLKSIZE \in Nat \ {0} /\ NBlock \in Nat
      /\ NBlock <= NDIRECT + BLKSIZE
  BY SfsFileAssumption
<1>3. ASSUME fs.din[f].blocks = NDIRECT + BLKSIZE PROVE FALSE
  <2>1. \A i \in Idx : Held(fs, f, i) # 0
    BY <1>2, <1>3 DEF Sound, Mapped, Idx
  <2>2. Held(fs, f, -1) # 0
    <3>1. NDIRECT \in Idx /\ NDIRECT # -1
      BY <1>2 DEF Idx
    <3>2. Held(fs, f, NDIRECT) # 0
      BY <2>1, <3>1
    <3> QED
      BY <1>2, <3>1, <3>2 DEF Held
  <2>3. \A i \in Place : Held(fs, f, i) \in Data
    <3>1. Place = Idx \cup {-1}
      BY <1>2 DEF Place, Idx
    <3> QED
      BY <2>1, <2>2, <3>1 DEF Sound, Taken
  <2> DEFINE m == [i \in Place |-> Held(fs, f, i)]
  <2>4. m \in Injection(Place, Data)
    <3>1. m \in [Place -> Data]
      BY <2>3
    <3>2. \A i, j \in Place : m[i] = m[j] => i = j
      BY <2>3, Constants DEF Sound, Unshared
    <3> HIDE DEF m
    <3> QED
      BY <3>1, <3>2 DEF Injection, IsInjective
  <2>5. IsFiniteSet(Place) /\ Cardinality(Place) = NDIRECT + BLKSIZE + 1
    <3>1. -1 \in Int /\ NDIRECT + BLKSIZE - 1 \in Int
      BY <1>2
    <3>2. /\ IsFiniteSet(-1..NDIRECT + BLKSIZE - 1)
          /\ Cardinality(-1..NDIRECT + BLKSIZE - 1)
               = IF -1 > NDIRECT + BLKSIZE - 1 THEN 0 ELSE (NDIRECT + BLKSIZE - 1) - (-1) + 1
      BY <3>1, FS_Interval
    <3> QED
      BY <1>2, <3>2 DEF Place
  <2> HIDE DEF m
  <2>6. Cardinality(Place) <= Cardinality(Data)
    BY <2>4, <2>5, Constants, FS_Injection
  <2> QED
    BY <1>2, <2>5, <2>6, Constants
<1> QED
  BY <1>1, <1>2, <1>3 DEF Idx

(* A block that is free again may have been cleared.                       *)
LEMMA ScratchSound ==
  ASSUME NEW fs, Sound(fs), NEW fs2 \in FsSet, SameFlags(fs, fs2),
         fs2.freemap = fs.freemap, fs2.unused_blocks = fs.unused_blocks, fs2.din = fs.din,
         \A b \in Blk \ fs.freemap : fs2.disk[b] = fs.disk[b]
  PROVE  Sound(fs2) /\ Same(fs, fs2)
<1>1. \A g \in File : \A i \in Place : Held(fs2, g, i) = Held(fs, g, i)
  <2> SUFFICES ASSUME NEW g \in File, NEW i \in Place
               PROVE  Held(fs2, g, i) = Held(fs, g, i)
    OBVIOUS
  <2>1. CASE fs.din[g].indirect = 0
    BY <2>1 DEF Held
  <2>2. CASE fs.din[g].indirect # 0
    <3>1. fs2.disk[fs.din[g].indirect] = fs.disk[fs.din[g].indirect]
      BY <2>2, FreeBlocks
    <3> QED
      BY <2>2, <3>1 DEF Held
  <2> QED
    BY <2>1, <2>2
<1>2. Counted(fs2) /\ Fits(fs2)
  BY DEF Sound, Counted, Fits
<1>3. Mapped(fs2) /\ Taken(fs2)
  BY <1>1, Places DEF Sound, Mapped, Taken
<1>4. Unshared(fs2)
  BY <1>1 DEF Sound, Unshared
<1>5. Kept(fs2)
  BY <1>1 DEF Sound, Kept
<1>6. ASSUME NEW g \in File, NEW i \in Nat, NEW c \in Cell
      PROVE  Byte(fs2, g, i, c) = Byte(fs, g, i, c)
  <2>1. CASE i < fs.din[g].blocks
    <3>1. fs.din[g].blocks \in Idx
      BY BlocksFit
    <3>2. i \in Idx /\ i \in Place
      BY <2>1, <3>1, Places, Constants DEF Idx
    <3>3. Held(fs, g, i) \in Data \ fs.freemap
      BY <2>1, <3>2 DEF Sound, Mapped, Taken
    <3>4. fs2.disk[Held(fs, g, i)] = fs.disk[Held(fs, g, i)]
      BY <3>3, Constants
    <3> QED
      BY <1>1, <3>2, <3>4 DEF Byte
  <2>2. CASE ~(i < fs.din[g].blocks)
    BY <2>2 DEF Byte
  <2> QED
    BY <2>1, <2>2
<1> QED
  BY <1>2, <1>3, <1>4, <1>5, <1>6 DEF Sound, Same

LEMMA GetNew ==
  ASSUME NEW fs, Sound(fs), NEW f \in File, NEW index, index = fs.din[f].blocks
  PROVE  LET get == sfs_bmap_get_nolock(fs, f, index, TRUE) IN
         \/ /\ get.ret = "ok" /\ get = Found(get.fs, get.ino) /\ get.fs \in FsSet
            /\ get.ino = Held(get.fs, f, index)
            /\ \E X : Added(fs, get.fs, f, index, X)
         \/ /\ get.ret = "E_NO_MEM" /\ Sound(get.fs) /\ Same(fs, get.fs) /\ get.fs.din = fs.din
<1> DEFINE get == sfs_bmap_get_nolock(fs, f, index, TRUE)
<1>1. index \in Idx /\ index \in Nat /\ fs \in FsSet /\ NDIRECT \in Nat
  BY BlocksFit, Places, Constants DEF Sound
<1>2. Held(fs, f, index) = 0
  BY <1>1 DEF Sound, Mapped
<1> HIDE DEF get
<1>3. CASE \/ fs.freemap = {}
           \/ /\ index >= NDIRECT /\ fs.din[f].indirect = 0
              /\ \A x, y \in fs.freemap : x = y
  <2>1. /\ get.ret = "E_NO_MEM" /\ get.fs \in FsSet /\ SameFlags(fs, get.fs)
        /\ get.fs.freemap = fs.freemap
        /\ get.fs.unused_blocks = fs.unused_blocks
        /\ get.fs.din = fs.din
        /\ \A b \in Blk \ fs.freemap : get.fs.disk[b] = fs.disk[b]
    BY <1>1, <1>2, <1>3, GetFails DEF get
  <2> QED
    BY <2>1, ScratchSound DEF get
<1>4. CASE fs.freemap # {} /\ index < NDIRECT
  <2>1. index \in 0..NDIRECT - 1
    BY <1>1, <1>4
  <2>2. /\ get.ret = "ok" /\ get.ino \in fs.freemap /\ get.fs \in FsSet
        /\ get = Found(get.fs, get.ino) /\ DirectAdded(fs, get.fs, f, index, get.ino)
    BY <1>1, <1>2, <1>4, <2>1, GetDirect DEF get
  <2>3. Added(fs, get.fs, f, index, {get.ino}) /\ Held(get.fs, f, index) = get.ino
    BY <1>1, <1>2, <1>4, <2>2, AddedDirect
  <2> QED
    BY <2>2, <2>3 DEF get
<1>5. CASE fs.freemap # {} /\ index >= NDIRECT /\ fs.din[f].indirect # 0
  <2>1. fs.din[f].indirect \in Data
    BY <1>5, FreeBlocks
  <2>2. /\ get.ret = "ok" /\ get.ino \in fs.freemap /\ get.fs \in FsSet
        /\ get = Found(get.fs, get.ino) /\ SubAdded(fs, get.fs, f, index, get.ino)
    BY <1>1, <1>2, <1>5, <2>1, GetSub DEF get
  <2>3. Added(fs, get.fs, f, index, {get.ino}) /\ Held(get.fs, f, index) = get.ino
    BY <1>1, <1>2, <1>5, <2>2, AddedSub
  <2> QED
    BY <2>2, <2>3 DEF get
<1>6. CASE /\ index >= NDIRECT /\ fs.din[f].indirect = 0
           /\ ~(\A x, y \in fs.freemap : x = y)
  <2>1. PICK x \in fs.freemap, y \in fs.freemap : x # y
    BY <1>6
  <2>2. PICK a \in fs.freemap : \E b \in fs.freemap \ {a} :
          /\ get.ret = "ok" /\ get.ino = b /\ get.fs \in FsSet
          /\ get = Found(get.fs, get.ino) /\ BothAdded(fs, get.fs, f, index, a, b)
    BY <1>1, <1>6, <2>1, GetBoth DEF get
  <2>4. PICK b \in fs.freemap \ {a} :
          /\ get.ret = "ok" /\ get.ino = b /\ get.fs \in FsSet
          /\ get = Found(get.fs, get.ino) /\ BothAdded(fs, get.fs, f, index, a, b)
    BY <2>2
  <2>3. (\E X : Added(fs, get.fs, f, index, X)) /\ Held(get.fs, f, index) = b
    BY <1>1, <1>6, <2>4, AddedBoth
  <2> QED
    BY <2>3, <2>4 DEF get
<1>7. index < NDIRECT \/ index >= NDIRECT
  BY <1>1
<1> QED
  BY <1>3, <1>4, <1>5, <1>6, <1>7, Zenon

(* sfs_bmap_load_nolock.                                                   *)
LEMMA Load ==
  ASSUME NEW fs, Sound(fs), NEW f \in File, NEW index \in Nat
  PROVE  LET load == sfs_bmap_load_nolock(fs, f, index) IN
         /\ Sound(load.fs) /\ Same(fs, load.fs)
         /\ load.ret \in {"ok", "E_NO_MEM", "panic"}
         /\ load.ret = "ok" => /\ index < load.fs.din[f].blocks
                               /\ load.ino = Held(load.fs, f, index)
                               /\ index <= fs.din[f].blocks
                               /\ load.fs.din[f].blocks = IF index = fs.din[f].blocks THEN index + 1
                                                          ELSE fs.din[f].blocks
<1> DEFINE load == sfs_bmap_load_nolock(fs, f, index)
           blocks == fs.din[f].blocks
           get == sfs_bmap_get_nolock(fs, f, index, index = blocks)
<1>1. fs \in FsSet /\ blocks \in Nat /\ blocks \in Idx
  BY Fields, BlocksFit DEF Sound
<1>2. Same(fs, fs)
  BY DEF Same, SameFlags
<1>3. CASE index > blocks
  <2>1. load = [fs |-> fs, ino |-> 0, ret |-> "panic"]
    BY <1>3 DEF sfs_bmap_load_nolock, Failed
  <2> HIDE DEF load
  <2>2. load.fs = fs /\ load.ret = "panic"
    BY <2>1
  <2> QED
    BY <1>2, <2>2 DEF load
<1>4. ASSUME ~(index > blocks), get.ret = "ok", get.ino \notin {0} \cup get.fs.freemap
      PROVE  load = IF index = blocks THEN [get EXCEPT !.fs.din[f].blocks = @ + 1] ELSE get
  <2>1. load = Then(get, LAMBDA g :
                 CASE g.ino \in {0} \cup g.fs.freemap -> Failed(g.fs, "panic")
                   [] g.ino \notin {0} \cup g.fs.freemap /\ index = blocks ->
                        [g EXCEPT !.fs.din[f].blocks = @ + 1]
                   [] OTHER -> g)
    BY <1>4 DEF sfs_bmap_load_nolock
  <2> HIDE DEF load, get, blocks
  <2> QED
    BY <1>4, <2>1 DEF Then
<1>5. CASE index < blocks
  <2>1. index \in Idx /\ index \in Place
    BY <1>1, <1>5, Places, Constants DEF Idx
  <2>2. Held(fs, f, index) # 0 /\ Held(fs, f, index) \notin fs.freemap
    BY <1>5, <2>1 DEF Sound, Mapped, Taken
  <2>3. get = Found(fs, Held(fs, f, index))
    BY <1>1, <1>5, <2>2, GetOld
  <2> HIDE DEF get
  <2>4. get.fs = fs /\ get.ret = "ok" /\ get.ino = Held(fs, f, index)
    BY <2>3 DEF Found
  <2>5. load = get
    <3>1. ~(index > blocks) /\ index # blocks
      BY <1>1, <1>5
    <3> HIDE DEF load
    <3> QED
      BY <1>4, <2>2, <2>4, <3>1
  <2> HIDE DEF load
  <2>6. load.fs = fs /\ load.ret = "ok" /\ load.ino = Held(fs, f, index)
    BY <2>4, <2>5
  <2>7. index # blocks /\ index <= blocks
    BY <1>1, <1>5
  <2> QED
    BY <1>2, <1>5, <2>6, <2>7 DEF load
<1>6. CASE index = blocks
  <2>1. get = sfs_bmap_get_nolock(fs, f, index, TRUE)
    BY <1>6
  <2> HIDE DEF get
  <2>2. CASE /\ get.ret = "E_NO_MEM" /\ Sound(get.fs) /\ Same(fs, get.fs)
    <3>1. load = get
      <4>1. load = Then(get, LAMBDA g :
                 CASE g.ino \in {0} \cup g.fs.freemap -> Failed(g.fs, "panic")
                   [] g.ino \notin {0} \cup g.fs.freemap /\ index = blocks ->
                        [g EXCEPT !.fs.din[f].blocks = @ + 1]
                   [] OTHER -> g)
        <5>1. ~(index > blocks)
          BY <1>1, <1>6
        <5> QED
          BY <5>1 DEF sfs_bmap_load_nolock, get
      <4> HIDE DEF load, blocks
      <4> QED
        BY <2>2, <4>1 DEF Then
    <3> HIDE DEF load
    <3> QED
      BY <2>2, <3>1 DEF load
  <2>3. CASE /\ get.ret = "ok" /\ get = Found(get.fs, get.ino) /\ get.fs \in FsSet
             /\ get.ino = Held(get.fs, f, index)
             /\ \E X : Added(fs, get.fs, f, index, X)
    <3> DEFINE fs2 == get.fs
               fs3 == WithBlocks(fs2, f, index + 1)
    <3>1. PICK X : Added(fs, fs2, f, index, X)
      BY <2>3
    <3>2. /\ Sound(fs3) /\ Same(fs, fs3) /\ fs3.din[f].blocks = index + 1
          /\ Held(fs3, f, index) = Held(fs2, f, index)
      <4>1. index \in Idx
        BY <1>1, <1>6
      <4>2. fs2 \in FsSet
        BY <2>3
      <4> HIDE DEF fs2
      <4> QED
        BY <1>6, <3>1, <4>1, <4>2, AddedSound
    <3>3. get.ino \notin {0} \cup get.fs.freemap
      <4>1. get.ino \in X
        BY <1>1, <1>6, <2>3, <3>1 DEF Added
      <4>2. X \subseteq fs.freemap /\ get.fs.freemap = fs.freemap \ X
        BY <3>1 DEF Added
      <4> QED
        BY <4>1, <4>2, FreeBlocks
    <3>4. load = [get EXCEPT !.fs.din[f].blocks = @ + 1]
      <4>1. ~(index > blocks)
        BY <1>1, <1>6
      <4> HIDE DEF load, blocks
      <4> QED
        BY <1>4, <1>6, <2>3, <3>3, <4>1 DEF blocks
    <3>5. fs2.din[f].blocks = index
      BY <1>6, <3>1 DEF Added
    <3>6. load = [fs |-> fs3, ino |-> get.ino, ret |-> "ok"]
      <4>1. get = [fs |-> fs2, ino |-> get.ino, ret |-> "ok"]
        BY <2>3 DEF Found
      <4>2. fs3 = [fs2 EXCEPT !.din[f].blocks = fs2.din[f].blocks + 1]
        BY <3>5 DEF WithBlocks
      <4> HIDE DEF fs2, fs3, load
      <4> QED
        BY <3>4, <4>1, <4>2
    <3> HIDE DEF fs3, fs2, load
    <3>7. load.fs = fs3 /\ load.ret = "ok" /\ load.ino = Held(fs3, f, index)
      BY <2>3, <3>2, <3>6 DEF fs2
    <3>8. index < index + 1 /\ index <= blocks
      BY <1>1, <1>6
    <3> QED
      BY <1>6, <3>2, <3>7, <3>8 DEF load
  <2> QED
    BY <1>6, <2>1, <2>2, <2>3, GetNew
<1> QED
  BY <1>1, <1>3, <1>5, <1>6

-----------------------------------------------------------------------------
(* The block b of f has been freed, and its entry in the block map is 0.   *)
Removed(fs, fs2, f, index, b) ==
  /\ SameFlags(fs, fs2)
  /\ fs2.freemap = fs.freemap \cup {b} /\ fs2.unused_blocks = fs.unused_blocks + 1
  /\ \A g \in File : fs2.din[g].blocks = fs.din[g].blocks /\ fs2.din[g].size = fs.din[g].size
  /\ \A g \in File : \A i \in Place :
       Held(fs2, g, i) = IF g = f /\ i = index THEN 0 ELSE Held(fs, g, i)
  /\ \A x \in Blk : x # Held(fs, f, -1) => fs2.disk[x] = fs.disk[x]

LEMMA FreeBlock ==
  ASSUME NEW fs, Sound(fs), NEW f \in File, NEW index \in Idx, NEW b,
         b = Held(fs, f, index), b # 0
  PROVE  LET freed == sfs_bmap_free_nolock(fs, f, index) IN
         /\ freed = Found(freed.fs, 0) /\ freed.fs \in FsSet
         /\ Removed(fs, freed.fs, f, index, b)
<1> DEFINE freed == sfs_bmap_free_nolock(fs, f, index)
           ent == fs.din[f].indirect
           sub == index - NDIRECT
<1>1. /\ fs \in FsSet /\ index \in Place /\ index \in Int /\ index # -1 /\ NDIRECT \in Nat
      /\ b \in Data \ fs.freemap
  <2>1. index \in Place /\ index \in Int /\ index # -1 /\ NDIRECT \in Nat
    BY Places, Constants
  <2>2. b \in Data \ fs.freemap
    BY <2>1 DEF Sound, Taken
  <2> QED
    BY <2>1, <2>2 DEF Sound
<1>2. CASE index < NDIRECT
  <2> DEFINE fs1 == [fs EXCEPT !.din[f].direct[index] = 0]
             fs2 == [fs1 EXCEPT !.freemap = @ \cup {b}, !.unused_blocks = @ + 1]
  <2>1. fs.din[f].direct[index] = b
    BY <1>1, <1>2 DEF Held
  <2>2. /\ fs1.freemap = fs.freemap /\ fs1.unused_blocks = fs.unused_blocks
        /\ fs1.disk = fs.disk /\ SameFlags(fs, fs1)
        /\ fs1.din = [fs.din EXCEPT ![f].direct[index] = 0]
    BY <1>1 DEF FsSet, SameFlags
  <2>3. fs1 \in FsSet
    <3>1. PICK n \in Int : n = 0
      OBVIOUS
    <3>2. [fs EXCEPT !.din[f].direct[index] = n] \in FsSet
      BY <1>1, SetDirect
    <3> QED
      BY <3>1, <3>2
  <2>4. freed = sfs_block_free(fs1, b)
    BY <1>1, <1>2, <2>1 DEF sfs_bmap_free_nolock
  <2> HIDE DEF fs1, freed
  <2>5. sfs_block_free(fs1, b) = Found(fs2, 0) /\ fs2 \in FsSet
    BY <1>1, <2>2, <2>3, BlockFree
  <2>6. /\ fs2.freemap = fs.freemap \cup {b} /\ fs2.unused_blocks = fs.unused_blocks + 1
        /\ fs2.disk = fs.disk /\ SameFlags(fs, fs2)
        /\ fs2.din = [fs.din EXCEPT ![f].direct[index] = 0]
    BY <2>2, <2>3 DEF FsSet, SameFlags
  <2> HIDE DEF fs2
  <2>7. \A g \in File : /\ fs2.din[g].blocks = fs.din[g].blocks /\ fs2.din[g].size = fs.din[g].size
                        /\ fs2.din[g].indirect = fs.din[g].indirect
                        /\ fs2.din[g].direct = (IF g = f THEN [fs.din[f].direct EXCEPT ![index] = 0]
                                                ELSE fs.din[g].direct)
    <3>1. fs.din \in [File -> Din]
      BY <1>1, Fields
    <3> QED
      BY <2>6, <3>1 DEF Din
  <2>8. \A g \in File : \A i \in Place :
          Held(fs2, g, i) = IF g = f /\ i = index THEN 0 ELSE Held(fs, g, i)
    <3> SUFFICES ASSUME NEW g \in File, NEW i \in Place
                 PROVE  Held(fs2, g, i) = IF g = f /\ i = index THEN 0 ELSE Held(fs, g, i)
      OBVIOUS
    <3>1. CASE i = -1
      BY <1>1, <2>7, <3>1 DEF Held
    <3>2. CASE i # -1 /\ ~(i < NDIRECT)
      BY <1>1, <1>2, <2>6, <2>7, <3>2 DEF Held
    <3>3. CASE i # -1 /\ i < NDIRECT
      <4>1. i \in 0..NDIRECT - 1
        BY <3>3, Constants DEF Place
      <4>2. Held(fs2, g, i) = fs2.din[g].direct[i] /\ Held(fs, g, i) = fs.din[g].direct[i]
        BY <3>3 DEF Held
      <4>3. fs.din[g].direct \in [0..NDIRECT - 1 -> Int]
        BY <1>1, Fields
      <4> QED
        BY <2>7, <4>1, <4>2, <4>3
    <3> QED
      BY <3>1, <3>2, <3>3
  <2>9. Removed(fs, fs2, f, index, b)
    BY <2>6, <2>7, <2>8 DEF Removed
  <2>10. freed.fs = fs2 /\ freed = Found(fs2, 0)
    BY <2>4, <2>5 DEF Found
  <2> QED
    BY <2>5, <2>9, <2>10 DEF freed
<1>3. CASE ~(index < NDIRECT)
  <2> DEFINE fs1 == [fs EXCEPT !.disk[ent][sub] = 0]
             fs2 == [fs1 EXCEPT !.freemap = @ \cup {b}, !.unused_blocks = @ + 1]
  <2>1. ent # 0 /\ fs.disk[ent][sub] = b /\ index >= NDIRECT
    BY <1>1, <1>3 DEF Held
  <2>2. /\ fs1.freemap = fs.freemap /\ fs1.unused_blocks = fs.unused_blocks
        /\ fs1.din = fs.din /\ SameFlags(fs, fs1)
        /\ fs1.disk = [fs.disk EXCEPT ![ent][sub] = 0]
    <3> HIDE DEF ent, sub
    <3> QED
      BY <1>1 DEF FsSet, SameFlags
  <2>a. ent \in Blk /\ sub \in Cell
    <3>1. ent \in Blk
      BY <2>1, FreeBlocks
    <3>2. sub \in Cell
      BY <1>1, <1>3, Constants DEF Idx, Cell
    <3> QED
      BY <3>1, <3>2
  <2>3. fs1 \in FsSet
    <3>1. PICK n \in Int : n = 0
      OBVIOUS
    <3>2. [fs EXCEPT !.disk[ent][sub] = n] \in FsSet
      <4> HIDE DEF ent, sub
      <4> QED
        BY <1>1, <2>a, SetEntry
    <3> QED
      BY <3>1, <3>2
  <2>4. freed = sfs_block_free(fs1, b)
    BY <1>1, <1>3, <2>1 DEF sfs_bmap_free_nolock
  <2> HIDE DEF fs1, freed
  <2>5. sfs_block_free(fs1, b) = Found(fs2, 0) /\ fs2 \in FsSet
    BY <1>1, <2>2, <2>3, BlockFree
  <2>6. /\ fs2.freemap = fs.freemap \cup {b} /\ fs2.unused_blocks = fs.unused_blocks + 1
        /\ fs2.disk = fs1.disk /\ SameFlags(fs, fs2) /\ fs2.din = fs.din
    BY <2>2, <2>3 DEF FsSet, SameFlags
  <2> HIDE DEF fs2
  <2>7. /\ \A x \in Blk \ {ent} : fs2.disk[x] = fs.disk[x]
        /\ \A j \in Cell : fs2.disk[ent][j] = IF j = sub THEN 0 ELSE fs.disk[ent][j]
    <3>1. fs.disk \in [Blk -> [Cell -> Int]]
      BY <1>1, Fields
    <3>2. fs.disk[ent] \in [Cell -> Int]
      BY <3>1, <2>a
    <3> HIDE DEF ent, sub
    <3> QED
      BY <2>2, <2>6, <2>a, <3>1, <3>2
  <2>8. \A g \in File : \A i \in Place :
          Held(fs2, g, i) = IF g = f /\ i = index THEN 0 ELSE Held(fs, g, i)
    <3> SUFFICES ASSUME NEW g \in File, NEW i \in Place
                 PROVE  Held(fs2, g, i) = IF g = f /\ i = index THEN 0 ELSE Held(fs, g, i)
      OBVIOUS
    <3>1. CASE i = -1
      BY <1>1, <2>6, <3>1 DEF Held
    <3>2. CASE i # -1 /\ i < NDIRECT
      BY <1>3, <2>6, <3>2 DEF Held
    <3>3. CASE i # -1 /\ ~(i < NDIRECT)
      <4>0. i \in Int /\ i - NDIRECT \in Cell
        BY <3>3, Constants DEF Place, Cell
      <4>1. CASE fs.din[g].indirect = 0
        BY <2>1, <2>6, <3>3, <4>1 DEF Held
      <4>2. CASE fs.din[g].indirect # 0 /\ g # f
        <5>1. fs.din[g].indirect # ent
          <6>1. Held(fs, g, -1) = fs.din[g].indirect /\ Held(fs, f, -1) = ent
            BY DEF Held
          <6> QED
            BY <4>2, <6>1, Places DEF Sound, Unshared
        <5>2. fs2.disk[fs.din[g].indirect] = fs.disk[fs.din[g].indirect]
          BY <2>7, <4>2, <5>1, FreeBlocks
        <5> QED
          BY <2>6, <3>3, <4>2, <5>2 DEF Held
      <4>3. CASE g = f
        <5>1. Held(fs2, f, i) = fs2.disk[ent][i - NDIRECT] /\ Held(fs, f, i) = fs.disk[ent][i - NDIRECT]
          BY <2>1, <2>6, <3>3 DEF Held
        <5>2. i = index <=> i - NDIRECT = sub
          BY <1>1, <4>0
        <5> HIDE DEF sub, ent
        <5> QED
          BY <2>7, <4>0, <4>3, <5>1, <5>2
      <4> QED
        BY <4>1, <4>2, <4>3
    <3> QED
      BY <3>1, <3>2, <3>3
  <2>9. Removed(fs, fs2, f, index, b)
    <3>1. Held(fs, f, -1) = ent
      BY DEF Held
    <3> HIDE DEF ent
    <3> QED
      BY <2>6, <2>7, <2>8, <3>1 DEF Removed
  <2>10. freed.fs = fs2 /\ freed = Found(fs2, 0)
    BY <2>4, <2>5 DEF Found
  <2> QED
    BY <2>5, <2>9, <2>10 DEF freed
<1> QED
  BY <1>2, <1>3

LEMMA RemovedSound ==
  ASSUME NEW fs, Sound(fs), NEW fs2 \in FsSet, NEW f \in File, NEW index \in Idx,
         fs.din[f].blocks = index + 1, NEW b, b = Held(fs, f, index), b # 0,
         Removed(fs, fs2, f, index, b)
  PROVE  LET fs3 == WithBlocks(fs2, f, index) IN
         /\ Sound(fs3) /\ SameFlags(fs, fs3)
         /\ \A g \in File : /\ fs3.din[g].size = fs.din[g].size
                           /\ fs3.din[g].blocks = (IF g = f THEN index ELSE fs.din[g].blocks)
         /\ \A g \in File : \A i \in Nat : \A c \in Cell :
              Byte(fs3, g, i, c) = IF g = f /\ i >= index THEN 0 ELSE Byte(fs, g, i, c)
<1> DEFINE fs3 == WithBlocks(fs2, f, index)
<1>0. /\ fs \in FsSet /\ index \in Nat /\ index \in Place
      /\ fs.freemap \subseteq Data /\ 0 \notin Data /\ b \in Data \ fs.freemap
  <2>1. fs \in FsSet /\ index \in Nat /\ index \in Place /\ 0 \notin Data
    BY Places, Constants DEF Sound
  <2>2. fs.freemap \subseteq Data
    BY <2>1, Fields
  <2>3. b \in Data \ fs.freemap
    BY <2>1 DEF Sound, Taken
  <2> QED
    BY <2>1, <2>2, <2>3
<1>1. /\ fs3 \in FsSet /\ SameFlags(fs2, fs3)
      /\ fs3.freemap = fs2.freemap /\ fs3.unused_blocks = fs2.unused_blocks
      /\ fs3.disk = fs2.disk
      /\ \A g \in File : /\ fs3.din[g].size = fs2.din[g].size
                         /\ fs3.din[g].blocks = (IF g = f THEN index ELSE fs2.din[g].blocks)
                         /\ \A i \in Place : Held(fs3, g, i) = Held(fs2, g, i)
  <2>1. PICK n \in Nat : n = index
    BY <1>0
  <2>2. fs3 = WithBlocks(fs2, f, n)
    BY <2>1
  <2> HIDE DEF fs3
  <2>3. /\ fs3 \in FsSet /\ SameFlags(fs2, fs3)
        /\ fs3.freemap = fs2.freemap /\ fs3.unused_blocks = fs2.unused_blocks
        /\ fs3.disk = fs2.disk
        /\ \A g \in File : /\ fs3.din[g].size = fs2.din[g].size
                           /\ fs3.din[g].blocks = (IF g = f THEN n ELSE fs2.din[g].blocks)
                           /\ \A i \in Place : Held(fs3, g, i) = Held(fs2, g, i)
    BY <2>2, BlocksAssigned, SMTT(30)
  <2> QED
    BY <2>1, <2>3
<1> HIDE DEF fs3
<1>h. \A g \in File : \A i \in Place :
        Held(fs3, g, i) = IF g = f /\ i = index THEN 0 ELSE Held(fs, g, i)
  BY <1>1 DEF Removed
<1>2. Counted(fs3)
  <2>1. fs3.unused_blocks = fs.unused_blocks + 1 /\ fs3.freemap = fs.freemap \cup {b}
    BY <1>1 DEF Removed
  <2>2. fs.unused_blocks = Cardinality(fs.freemap) /\ IsFiniteSet(fs.freemap) /\ b \notin fs.freemap
    BY <1>0, SubsetFinite DEF Sound, Counted
  <2>3. Cardinality(fs.freemap \cup {b}) = Cardinality(fs.freemap) + 1
    BY <2>2, FS_AddElement
  <2> QED
    BY <2>1, <2>2, <2>3 DEF Counted
<1>3. Mapped(fs3)
  <2> SUFFICES ASSUME NEW g \in File, NEW i \in Idx
               PROVE  Held(fs3, g, i) # 0 <=> i < fs3.din[g].blocks
    BY DEF Mapped
  <2>1. Held(fs, g, i) # 0 <=> i < fs.din[g].blocks
    BY DEF Sound, Mapped
  <2>2. i \in Place /\ i \in Nat
    BY Places
  <2>3. CASE g # f
    BY <1>1, <1>h, <2>1, <2>2, <2>3 DEF Removed
  <2>4. CASE g = f /\ i = index
    BY <1>0, <1>1, <1>h, <2>4
  <2>5. CASE g = f /\ i # index
    <3>1. Held(fs3, f, i) = Held(fs, f, i)
      BY <1>h, <2>2, <2>5
    <3>2. i < index + 1 <=> i < index
      BY <1>0, <2>2, <2>5
    <3>3. fs3.din[f].blocks = index
      BY <1>1
    <3> QED
      BY <2>1, <2>5, <3>1, <3>2, <3>3
  <2> QED
    BY <2>3, <2>4, <2>5
<1>4. Taken(fs3)
  <2> SUFFICES ASSUME NEW g \in File, NEW i \in Place
               PROVE  Held(fs3, g, i) \in {0} \cup (Data \ fs3.freemap)
    BY DEF Taken
  <2>1. Held(fs, g, i) \in {0} \cup (Data \ fs.freemap)
    BY DEF Sound, Taken
  <2>2. CASE g = f /\ i = index
    BY <1>h, <2>2
  <2>3. CASE ~(g = f /\ i = index)
    <3>1. Held(fs3, g, i) = Held(fs, g, i)
      BY <1>h, <2>3
    <3>2. Held(fs, g, i) # b
      BY <1>0, <2>3 DEF Sound, Unshared
    <3>3. fs3.freemap = fs.freemap \cup {b}
      BY <1>1 DEF Removed
    <3> QED
      BY <2>1, <3>1, <3>2, <3>3
  <2> QED
    BY <2>2, <2>3
<1>5. Unshared(fs3)
  BY <1>h DEF Sound, Unshared
<1>6. Kept(fs3)
  <2> SUFFICES ASSUME NEW x \in Data \ fs3.freemap
               PROVE  \E g \in File : \E i \in Place : Held(fs3, g, i) = x
    BY DEF Kept
  <2>1. x \in Data \ fs.freemap /\ x # b
    BY <1>1 DEF Removed
  <2>2. PICK g \in File, i \in Place : Held(fs, g, i) = x
    BY <2>1 DEF Sound, Kept
  <2> QED
    BY <1>h, <2>1, <2>2
<1>7. Fits(fs3)
  <2>1. index <= NDIRECT + BLKSIZE
    BY Constants DEF Idx
  <2> QED
    BY <1>1, <2>1 DEF Removed, Sound, Fits
<1>8. ASSUME NEW g \in File, NEW i \in Nat, NEW c \in Cell
      PROVE  Byte(fs3, g, i, c) = IF g = f /\ i >= index THEN 0 ELSE Byte(fs, g, i, c)
  <2>1. CASE i < fs3.din[g].blocks
    <3>1. i < fs.din[g].blocks /\ ~(g = f /\ i >= index)
      <4>1. CASE g = f
        BY <1>0, <1>1, <2>1, <4>1
      <4>2. CASE g # f
        BY <1>1, <2>1, <4>2 DEF Removed
      <4> QED
        BY <4>1, <4>2
    <3>2. i \in Idx /\ i \in Place
      <4>1. fs.din[g].blocks \in Idx
        BY BlocksFit
      <4> QED
        BY <3>1, <4>1, Places, Constants DEF Idx
    <3>3. ~(g = f /\ i = index)
      BY <1>0, <3>1
    <3> DEFINE x == Held(fs, g, i)
    <3>4. Held(fs3, g, i) = x
      BY <1>h, <3>2, <3>3
    <3>5. x # 0 /\ x \in Blk
      BY <3>1, <3>2, Constants DEF Sound, Mapped, Taken
    <3>6. x # Held(fs, f, -1)
      BY <3>2, <3>5, Places DEF Sound, Unshared
    <3>7. fs3.disk[x] = fs.disk[x]
      BY <1>1, <3>5, <3>6 DEF Removed
    <3> QED
      BY <2>1, <3>1, <3>4, <3>7 DEF Byte
  <2>2. CASE ~(i < fs3.din[g].blocks)
    <3>1. (g = f /\ i >= index) \/ ~(i < fs.din[g].blocks)
      <4>1. CASE g = f
        BY <1>0, <1>1, <2>2, <4>1
      <4>2. CASE g # f
        BY <1>1, <2>2, <4>2 DEF Removed
      <4> QED
        BY <4>1, <4>2
    <3> QED
      BY <2>2, <3>1 DEF Byte
  <2> QED
    BY <2>1, <2>2
<1>9. SameFlags(fs, fs3) /\ \A g \in File : fs3.din[g].size = fs.din[g].size
  BY <1>1 DEF SameFlags, Removed
<1>10. Sound(fs3)
  BY <1>1, <1>2, <1>3, <1>4, <1>5, <1>6, <1>7 DEF Sound
<1>11. \A g \in File : fs3.din[g].blocks = (IF g = f THEN index ELSE fs.din[g].blocks)
  BY <1>1 DEF Removed
<1> QED
  BY <1>8, <1>9, <1>10, <1>11 DEF fs3

(* sfs_bmap_truncate_nolock frees the last block of a file.                *)
LEMMA Truncate ==
  ASSUME NEW fs, Sound(fs), NEW f \in File, NEW index \in Nat, fs.din[f].blocks = index + 1
  PROVE  LET cut == sfs_bmap_truncate_nolock(fs, f) IN
         /\ cut.ret = "ok" /\ Sound(cut.fs) /\ SameFlags(fs, cut.fs)
         /\ \A g \in File : /\ cut.fs.din[g].size = fs.din[g].size
                           /\ cut.fs.din[g].blocks = (IF g = f THEN index ELSE fs.din[g].blocks)
         /\ \A g \in File : \A i \in Nat : \A c \in Cell :
              Byte(cut.fs, g, i, c) = IF g = f /\ i >= index THEN 0 ELSE Byte(fs, g, i, c)
<1> DEFINE cut == sfs_bmap_truncate_nolock(fs, f)
           freed == sfs_bmap_free_nolock(fs, f, index)
           b == Held(fs, f, index)
           fs2 == freed.fs
           fs3 == WithBlocks(fs2, f, index)
<1>1. index \in Idx
  <2>1. fs.din[f].blocks \in Idx
    BY BlocksFit
  <2> QED
    BY <2>1, Constants DEF Idx
<1>2. b # 0
  <2>1. index < index + 1
    OBVIOUS
  <2> QED
    BY <1>1, <2>1 DEF Sound, Mapped
<1>3. freed = Found(fs2, 0) /\ fs2 \in FsSet /\ Removed(fs, fs2, f, index, b)
  BY <1>1, <1>2, FreeBlock
<1>4. cut = [freed EXCEPT !.fs.din[f].blocks = @ - 1]
  <2>1. fs.din[f].blocks - 1 = index
    OBVIOUS
  <2>2. freed.ret = "ok"
    BY <1>3 DEF Found
  <2>3. cut = Then(freed, LAMBDA r : [r EXCEPT !.fs.din[f].blocks = @ - 1])
    BY <2>1 DEF sfs_bmap_truncate_nolock
  <2> HIDE DEF freed, cut
  <2> QED
    BY <2>2, <2>3 DEF Then
<1>5. fs2.din[f].blocks - 1 = index
  BY <1>3 DEF Removed
<1>6. cut = [fs |-> fs3, ino |-> 0, ret |-> "ok"]
  <2>1. freed = [fs |-> fs2, ino |-> 0, ret |-> "ok"]
    BY <1>3 DEF Found
  <2>2. fs3 = [fs2 EXCEPT !.din[f].blocks = fs2.din[f].blocks - 1]
    BY <1>5 DEF WithBlocks
  <2> HIDE DEF fs2, fs3, cut, freed
  <2> QED
    BY <1>4, <2>1, <2>2
<1> HIDE DEF fs2, cut, freed, b
<1>7. /\ Sound(fs3) /\ SameFlags(fs, fs3)
      /\ \A g \in File : /\ fs3.din[g].size = fs.din[g].size
                         /\ fs3.din[g].blocks = (IF g = f THEN index ELSE fs.din[g].blocks)
      /\ \A g \in File : \A i \in Nat : \A c \in Cell :
           Byte(fs3, g, i, c) = IF g = f /\ i >= index THEN 0 ELSE Byte(fs, g, i, c)
  BY <1>1, <1>2, <1>3, RemovedSound DEF b
<1> HIDE DEF fs3
<1>8. cut.fs = fs3 /\ cut.ret = "ok"
  BY <1>6
<1> QED
  BY <1>7, <1>8 DEF cut

-----------------------------------------------------------------------------
(* Whatever is on the disk, also behind a write that went astray, the      *)
(* operators return a file system and never take astray back.              *)
Shaped(fs) ==
  fs = [freemap |-> fs.freemap, unused_blocks |-> fs.unused_blocks, disk |-> fs.disk,
        din |-> fs.din, panic |-> fs.panic, astray |-> fs.astray]

From(fs, fs2) == Shaped(fs2) /\ fs2.astray = fs.astray

Result(fs, res) ==
  res = [fs |-> res.fs, ino |-> res.ino, ret |-> res.ret] /\ From(fs, res.fs)

LEMMA FsShaped == ASSUME NEW fs \in FsSet PROVE Shaped(fs)
BY DEF FsSet, Shaped

LEMMA FoundShaped ==
  ASSUME NEW fs, NEW fs2, From(fs, fs2), NEW ino, NEW ret
  PROVE  Result(fs, [fs |-> fs2, ino |-> ino, ret |-> ret])
BY DEF Result

LEMMA Assigned ==
  ASSUME NEW fs, Shaped(fs), NEW v
  PROVE  /\ From(fs, [fs EXCEPT !.freemap = v]) /\ From(fs, [fs EXCEPT !.unused_blocks = v])
         /\ From(fs, [fs EXCEPT !.disk = v]) /\ From(fs, [fs EXCEPT !.din = v])
<1>1. PICK a, u, d, n, p, t :
        fs = [freemap |-> a, unused_blocks |-> u, disk |-> d, din |-> n, panic |-> p, astray |-> t]
  BY DEF Shaped
<1> QED
  BY <1>1 DEF From, Shaped

LEMMA AllocShaped ==
  ASSUME NEW fs, Shaped(fs)
  PROVE  Result(fs, sfs_block_alloc(fs))
<1>1. CASE fs.freemap = {}
  BY <1>1, FoundShaped DEF sfs_block_alloc, Failed, From
<1>2. CASE fs.freemap # {}
  <2> DEFINE ino == bitmap_alloc(fs.freemap)
             fs2 == [fs EXCEPT !.freemap = @ \ {ino}, !.unused_blocks = @ - 1, !.disk[ino] = Zero]
  <2>1. From(fs, fs2)
    <3> DEFINE v1 == fs.freemap \ {ino}
               v2 == fs.unused_blocks - 1
               v3 == [fs.disk EXCEPT ![ino] = Zero]
               fs3 == [fs EXCEPT !.freemap = v1]
               fs4 == [fs3 EXCEPT !.unused_blocks = v2]
    <3>1. fs2 = [fs4 EXCEPT !.disk = v3]
      <4>1. fs2 = [[[fs EXCEPT !.freemap = @ \ {ino}] EXCEPT !.unused_blocks = fs.unused_blocks - 1]
                    EXCEPT !.disk = [fs.disk EXCEPT ![ino] = Zero]]
        OBVIOUS
      <4> QED
        BY <4>1
    <3> HIDE DEF v1, v2, v3, fs2
    <3>2. From(fs, fs3)
      BY Assigned
    <3> HIDE DEF fs3
    <3>3. From(fs3, fs4)
      BY <3>2, Assigned DEF From
    <3> HIDE DEF fs4
    <3>4. From(fs4, fs2)
      BY <3>1, <3>3, Assigned DEF From
    <3> QED
      BY <3>2, <3>3, <3>4 DEF From
  <2>2. sfs_block_alloc(fs) = [fs |-> fs2, ino |-> ino, ret |-> "ok"]
    BY <1>2 DEF sfs_block_alloc, Found
  <2> HIDE DEF fs2, ino
  <2> QED
    BY <2>1, <2>2, FoundShaped
<1> QED
  BY <1>1, <1>2

LEMMA FreeShaped ==
  ASSUME NEW fs, Shaped(fs), NEW ino
  PROVE  Result(fs, sfs_block_free(fs, ino))
<1>1. CASE ino \in fs.freemap
  BY <1>1, FoundShaped DEF sfs_block_free, Failed, From
<1>2. CASE ino \notin fs.freemap
  <2> DEFINE fs2 == [fs EXCEPT !.freemap = @ \cup {ino}, !.unused_blocks = @ + 1]
  <2>1. From(fs, fs2)
    <3> DEFINE v1 == fs.freemap \cup {ino}
               v2 == fs.unused_blocks + 1
               fs3 == [fs EXCEPT !.freemap = v1]
    <3>1. fs2 = [fs3 EXCEPT !.unused_blocks = v2]
      OBVIOUS
    <3> HIDE DEF v1, v2, fs2
    <3>2. From(fs, fs3)
      BY Assigned
    <3> HIDE DEF fs3
    <3>3. From(fs3, fs2)
      BY <3>1, <3>2, Assigned DEF From
    <3> QED
      BY <3>2, <3>3 DEF From
  <2>2. sfs_block_free(fs, ino) = [fs |-> fs2, ino |-> 0, ret |-> "ok"]
    BY <1>2 DEF sfs_block_free, Found
  <2> HIDE DEF fs2
  <2> QED
    BY <2>1, <2>2, FoundShaped
<1> QED
  BY <1>1, <1>2

LEMMA SubShaped ==
  ASSUME NEW fs, Shaped(fs), NEW f, NEW index, NEW create
  PROVE  Result(fs, sfs_bmap_get_sub_nolock(fs, f, index, create))
<1> DEFINE old == fs.din[f].indirect
           ino == IF old = 0 THEN 0 ELSE fs.disk[old][index]
           first == IF old = 0 THEN sfs_block_alloc(fs) ELSE Found(fs, old)
           get == sfs_bmap_get_sub_nolock(fs, f, index, create)
<1>1. CASE ino # 0 \/ ~create
  <2>1. get = Found(fs, ino)
    BY <1>1 DEF sfs_bmap_get_sub_nolock
  <2> HIDE DEF get, ino
  <2> QED
    BY <2>1, FoundShaped DEF Found, From, get
<1>2. CASE ~(ino # 0 \/ ~create)
  <2>1. get = Then(first, LAMBDA ent :
                 LET new == sfs_block_alloc(ent.fs) IN
                 CASE new.ret = "ok" -> [new EXCEPT !.fs.disk[ent.ino][index] = new.ino,
                                                    !.fs.din[f].indirect = ent.ino]
                   [] new.ret # "ok" /\ old = 0 -> Without(new, ent.ino)
                   [] OTHER -> new)
    BY <1>2 DEF sfs_bmap_get_sub_nolock
  <2>2. Result(fs, first)
    <3>1. Result(fs, sfs_block_alloc(fs))
      BY AllocShaped
    <3>2. Result(fs, Found(fs, old))
      BY FoundShaped DEF Found, From
    <3> QED
      BY <3>1, <3>2
  <2> DEFINE ent == first.ino
             new == sfs_block_alloc(first.fs)
             entered == [new EXCEPT !.fs.disk[ent][index] = new.ino, !.fs.din[f].indirect = ent]
  <2>3. get \in {first, new, Without(new, ent), entered}
    <3> HIDE DEF get, first, old
    <3> QED
      BY <2>1 DEF Then
  <2> HIDE DEF get, first, old
  <2>4. Result(first.fs, new) /\ first.fs.astray = fs.astray
    BY <2>2, AllocShaped DEF Result, From
  <2>5. Result(fs, new)
    BY <2>4 DEF Result, From
  <2> HIDE DEF new, ent
  <2>6. Result(fs, Without(new, ent))
    <3> DEFINE fs2 == sfs_block_free(new.fs, ent).fs
    <3>1. Without(new, ent) = [fs |-> fs2, ino |-> new.ino, ret |-> new.ret]
      <4> HIDE DEF fs2
      <4>1. Without(new, ent) = [new EXCEPT !.fs = fs2]
        BY DEF Without, fs2
      <4> QED
        BY <2>5, <4>1 DEF Result
    <3>2. From(new.fs, fs2)
      BY <2>5, FreeShaped DEF Result, From
    <3> HIDE DEF fs2
    <3> QED
      BY <2>5, <3>1, <3>2, FoundShaped DEF Result, From
  <2>7. Result(fs, entered)
    <3> DEFINE fs1 == new.fs
               fs2 == [fs1 EXCEPT !.disk[ent][index] = new.ino, !.din[f].indirect = ent]
    <3>1. entered = [fs |-> fs2, ino |-> new.ino, ret |-> new.ret]
      <4>1. entered = [[new EXCEPT !.fs.disk[ent][index] = new.ino] EXCEPT !.fs.din[f].indirect = ent]
        OBVIOUS
      <4> DEFINE n == new.ino
                 r == new.ret
      <4>2. new = [fs |-> fs1, ino |-> n, ret |-> r]
        BY <2>5 DEF Result
      <4> HIDE DEF fs1, n, r, entered
      <4>3. [new EXCEPT !.fs.disk[ent][index] = n]
              = [fs |-> [fs1 EXCEPT !.disk[ent][index] = n], ino |-> n, ret |-> r]
        BY <4>2
      <4>4. entered = [fs |-> [[fs1 EXCEPT !.disk[ent][index] = n] EXCEPT !.din[f].indirect = ent],
                       ino |-> n, ret |-> r]
        BY <4>1, <4>3 DEF n
      <4> QED
        BY <4>4 DEF n, r
    <3>2. From(fs1, fs2)
      <4>1. Shaped(fs1)
        BY <2>5 DEF Result, From
      <4> DEFINE v1 == [fs1.disk EXCEPT ![ent][index] = new.ino]
                 v2 == [fs1.din EXCEPT ![f].indirect = ent]
                 fs3 == [fs1 EXCEPT !.disk = v1]
      <4>2. fs2 = [fs3 EXCEPT !.din = v2]
        OBVIOUS
      <4> HIDE DEF v1, v2, fs2, fs1
      <4>3. From(fs1, fs3)
        BY <4>1, Assigned
      <4> HIDE DEF fs3
      <4>4. From(fs3, fs2)
        BY <4>2, <4>3, Assigned DEF From
      <4> QED
        BY <4>3, <4>4 DEF From
    <3>3. From(fs, fs2)
      BY <2>5, <3>2 DEF Result, From
    <3> HIDE DEF fs2, entered
    <3> QED
      BY <3>1, <3>3, FoundShaped
  <2> HIDE DEF entered
  <2> QED
    BY <2>2, <2>3, <2>5, <2>6, <2>7 DEF get
<1> QED
  BY <1>1, <1>2

LEMMA GetShaped ==
  ASSUME NEW fs, Shaped(fs), NEW f, NEW index, NEW create
  PROVE  Result(fs, sfs_bmap_get_nolock(fs, f, index, create))
<1> DEFINE ino == fs.din[f].direct[index]
           new == sfs_block_alloc(fs)
           entered == [new EXCEPT !.fs.din[f].direct[index] = new.ino]
           get == sfs_bmap_get_nolock(fs, f, index, create)
<1>1. get \in {sfs_bmap_get_sub_nolock(fs, f, index - NDIRECT, create), Found(fs, ino), new, entered}
  <2>1. \/ get = sfs_bmap_get_sub_nolock(fs, f, index - NDIRECT, create)
        \/ get = Found(fs, ino)
        \/ get = Then(new, LAMBDA n : [n EXCEPT !.fs.din[f].direct[index] = n.ino])
    BY DEF sfs_bmap_get_nolock
  <2> HIDE DEF get, new
  <2> QED
    BY <2>1 DEF Then
<1>2. Result(fs, new)
  BY AllocShaped
<1>3. Result(fs, Found(fs, ino))
  BY FoundShaped DEF Found, From
<1> HIDE DEF new, get
<1>4. Result(fs, entered)
  <2> DEFINE fs1 == new.fs
             fs2 == [fs1 EXCEPT !.din[f].direct[index] = new.ino]
  <2>1. entered = [fs |-> fs2, ino |-> new.ino, ret |-> new.ret]
    <3> DEFINE n == new.ino
               r == new.ret
    <3>2. new = [fs |-> fs1, ino |-> n, ret |-> r]
      BY <1>2 DEF Result
    <3> HIDE DEF fs1, n, r
    <3>3. [new EXCEPT !.fs.din[f].direct[index] = n]
            = [fs |-> [fs1 EXCEPT !.din[f].direct[index] = n], ino |-> n, ret |-> r]
      BY <3>2
    <3> QED
      BY <3>3 DEF n, r
  <2>2. From(fs1, fs2)
    <3>1. Shaped(fs1)
      BY <1>2 DEF Result, From
    <3> HIDE DEF fs1
    <3> QED
      BY <3>1 DEF From, Shaped
  <2>3. From(fs, fs2)
    BY <1>2, <2>2 DEF Result, From
  <2> HIDE DEF fs2, entered
  <2> QED
    BY <2>1, <2>3, FoundShaped
<1> HIDE DEF entered
<1> QED
  BY <1>1, <1>2, <1>3, <1>4, SubShaped DEF get

LEMMA LoadShaped ==
  ASSUME NEW fs, Shaped(fs), NEW f, NEW index
  PROVE  Result(fs, sfs_bmap_load_nolock(fs, f, index))
<1> DEFINE blocks == fs.din[f].blocks
           get == sfs_bmap_get_nolock(fs, f, index, index = blocks)
           added == [get EXCEPT !.fs.din[f].blocks = @ + 1]
           load == sfs_bmap_load_nolock(fs, f, index)
<1>1. load \in {Failed(fs, "panic"), get, Failed(get.fs, "panic"), added}
  <2>1. \/ load = Failed(fs, "panic")
        \/ load = Then(get, LAMBDA g :
                 CASE g.ino \in {0} \cup g.fs.freemap -> Failed(g.fs, "panic")
                   [] g.ino \notin {0} \cup g.fs.freemap /\ index = blocks ->
                        [g EXCEPT !.fs.din[f].blocks = @ + 1]
                   [] OTHER -> g)
    BY DEF sfs_bmap_load_nolock
  <2> HIDE DEF load, get, blocks
  <2> QED
    BY <2>1 DEF Then
<1>2. Result(fs, get)
  BY GetShaped
<1>3. Result(fs, Failed(fs, "panic"))
  BY FoundShaped DEF Failed, From
<1> HIDE DEF get, load
<1>4. Result(fs, Failed(get.fs, "panic"))
  BY <1>2, FoundShaped DEF Failed, Result
<1>5. Result(fs, added)
  <2> DEFINE fs1 == get.fs
             m == fs1.din[f].blocks + 1
             fs2 == [fs1 EXCEPT !.din[f].blocks = m]
  <2>1. added = [fs |-> fs2, ino |-> get.ino, ret |-> get.ret]
    <3> DEFINE n == get.ino
               r == get.ret
    <3>1. get = [fs |-> fs1, ino |-> n, ret |-> r]
      BY <1>2 DEF Result
    <3>2. added = [get EXCEPT !.fs.din[f].blocks = m]
      OBVIOUS
    <3> HIDE DEF fs1, n, r, m, added
    <3> QED
      BY <3>1, <3>2 DEF n, r
  <2>2. From(fs1, fs2)
    <3>1. Shaped(fs1)
      BY <1>2 DEF Result, From
    <3> HIDE DEF fs1, m
    <3> QED
      BY <3>1 DEF From, Shaped
  <2>3. From(fs, fs2)
    BY <1>2, <2>2 DEF Result, From
  <2> HIDE DEF fs2, added
  <2> QED
    BY <2>1, <2>3, FoundShaped
<1> HIDE DEF added
<1> QED
  BY <1>1, <1>2, <1>3, <1>4, <1>5 DEF load

-----------------------------------------------------------------------------
(* Positions and blocks.                                                   *)
LEMMA MultipleIsFar ==
  ASSUME NEW B \in Nat \ {0}, NEW d \in Int, B * d < B, B * d > 0 - B
  PROVE  d = 0
<1>1. d > 0 => B * d >= B
  OBVIOUS
<1>2. d < 0 => B * d <= 0 - B
  OBVIOUS
<1> QED
  BY <1>1, <1>2

LEMMA Division ==
  ASSUME NEW a \in Nat
  PROVE  /\ a \div BLKSIZE \in Nat /\ a % BLKSIZE \in Cell
         /\ a = BLKSIZE * (a \div BLKSIZE) + (a % BLKSIZE)
<1>1. BLKSIZE \in Int /\ BLKSIZE > 0
  BY Constants
<1>2. /\ a \div BLKSIZE \in Int
      /\ a = BLKSIZE * (a \div BLKSIZE) + (a % BLKSIZE)
  BY <1>1
<1>3. a % BLKSIZE \in 0..BLKSIZE - 1
  BY <1>1
<1>4. a \div BLKSIZE >= 0
  <2> DEFINE q == a \div BLKSIZE
             r == a % BLKSIZE
  <2>1. q \in Int /\ r \in 0..BLKSIZE - 1 /\ a = BLKSIZE * q + r
    BY <1>2, <1>3
  <2> HIDE DEF q, r
  <2>2. q <= -1 => BLKSIZE * q <= 0 - BLKSIZE
    BY <1>1, <2>1
  <2>3. q >= 0
    BY <1>1, <2>1, <2>2
  <2> QED
    BY <2>3 DEF q
<1> QED
  BY <1>2, <1>3, <1>4 DEF Cell

LEMMA Quotient ==
  ASSUME NEW a \in Nat, NEW q \in Int, NEW c \in Cell, a = BLKSIZE * q + c
  PROVE  a \div BLKSIZE = q /\ a % BLKSIZE = c
<1> DEFINE e == a \div BLKSIZE
           r == a % BLKSIZE
<1>1. e \in Nat /\ r \in Cell /\ a = BLKSIZE * e + r /\ BLKSIZE \in Nat \ {0}
  BY Division, Constants
<1> HIDE DEF e, r
<1>2. r \in 0..BLKSIZE - 1 /\ c \in 0..BLKSIZE - 1
  BY <1>1 DEF Cell
<1>3. BLKSIZE * (e - q) = BLKSIZE * e - BLKSIZE * q
  BY <1>1
<1>4. BLKSIZE * (e - q) = c - r
  <2>1. BLKSIZE * e \in Int /\ BLKSIZE * q \in Int
    BY <1>1
  <2> QED
    BY <1>1, <1>2, <1>3, <2>1
<1>5. e - q = 0
  <2>1. c - r < BLKSIZE /\ c - r > 0 - BLKSIZE
    BY <1>1, <1>2
  <2>2. e - q \in Int
    BY <1>1
  <2> QED
    BY <1>1, <1>4, <2>1, <2>2, MultipleIsFar
<1>6. e = q
  BY <1>1, <1>5
<1>7. r = c
  <2>1. BLKSIZE * q \in Int
    BY <1>1
  <2> QED
    BY <1>1, <1>2, <1>6, <2>1
<1> QED
  BY <1>6, <1>7 DEF e, r

(* A piece lies in its block.                                              *)
Lies(p) ==
  p.blk \in Nat /\ p.from \in Cell /\ p.size \in Nat \ {0} /\ p.from + p.size <= BLKSIZE

LEMMA InPiece ==
  ASSUME NEW p, Lies(p), NEW pos \in Nat
  PROVE  LET at == BLKSIZE * p.blk + p.from IN
         /\ at \in Nat
         /\ pos \div BLKSIZE = p.blk /\ pos % BLKSIZE \in p.from..p.from + p.size - 1
              <=> pos \in at..at + p.size - 1
         /\ pos \in at..at + p.size - 1 => (pos % BLKSIZE) - p.from = pos - at
<1> DEFINE blk == p.blk
           from == p.from
           size == p.size
           base == BLKSIZE * blk
           at == base + from
<1>1. /\ blk \in Nat /\ from \in Nat /\ from <= BLKSIZE - 1 /\ size \in Nat /\ size >= 1
      /\ from + size <= BLKSIZE /\ BLKSIZE \in Nat /\ BLKSIZE > 0 /\ base \in Nat
  BY Constants DEF Lies, Cell
<1>2. /\ pos \div BLKSIZE \in Nat /\ pos % BLKSIZE \in Cell
      /\ pos = BLKSIZE * (pos \div BLKSIZE) + (pos % BLKSIZE)
  BY Division
<1> HIDE DEF base
<1>3. ASSUME pos \in at..at + size - 1
      PROVE  pos \div BLKSIZE = blk /\ pos % BLKSIZE = pos - base
  <2> DEFINE c == pos - base
  <2>1. c \in Cell /\ pos = base + c
    BY <1>1, <1>3 DEF Cell
  <2> HIDE DEF c
  <2>2. pos = BLKSIZE * blk + c
    BY <2>1 DEF base
  <2>3. pos \div BLKSIZE = blk /\ pos % BLKSIZE = c
    <3>1. blk \in Int
      BY <1>1
    <3> HIDE DEF blk
    <3> QED
      BY <2>1, <2>2, <3>1, Quotient
  <2> QED
    BY <2>3 DEF c
<1>4. ASSUME pos \div BLKSIZE = blk
      PROVE  pos = base + (pos % BLKSIZE)
  BY <1>2, <1>4 DEF base
<1> DEFINE r == pos % BLKSIZE
           q == pos \div BLKSIZE
<1>5. r \in Int
  BY <1>2 DEF Cell
<1> HIDE DEF blk, from, size, r, q
<1>6. q = blk /\ r \in from..from + size - 1 <=> pos \in at..at + size - 1
  BY <1>1, <1>3, <1>4, <1>5 DEF q, r
<1>7. pos \in at..at + size - 1 => r - from = pos - at
  BY <1>1, <1>3, <1>5 DEF r
<1>8. at \in Nat
  BY <1>1
<1> QED
  BY <1>6, <1>7, <1>8 DEF q, r, blk, from, size, base

(* The byte of a file at a position.                                       *)
At(fs, f, pos) == Byte(fs, f, pos \div BLKSIZE, pos % BLKSIZE)

LEMMA SameAt ==
  ASSUME NEW fs, NEW fs2, Same(fs, fs2)
  PROVE  \A g \in File : \A pos \in Nat : At(fs2, g, pos) = At(fs, g, pos)
BY Division DEF Same, At

LEMMA OneHolder ==
  ASSUME NEW fs, Sound(fs), NEW g \in File, NEW h \in File, NEW i \in Place, NEW j \in Place,
         Held(fs, g, i) # 0, Held(fs, g, i) = Held(fs, h, j)
  PROVE  g = h /\ i = j
BY DEF Sound, Unshared

(* sfs_wbuf.                                                               *)
LEMMA PutBytes ==
  ASSUME NEW fs, Sound(fs), NEW f \in File, NEW p, Lies(p), p.blk < fs.din[f].blocks,
         NEW ino, ino = Held(fs, f, p.blk),
         NEW io, \A k \in 1..p.size : io.buf[io.alen + k] \in Int, io.alen \in Nat,
         NEW fs2, fs2 = Put(fs, ino, p, io)
  PROVE  /\ Sound(fs2) /\ SameFlags(fs, fs2) /\ fs2.din = fs.din
         /\ \A g \in File : \A i \in Nat : \A c \in Cell :
              Byte(fs2, g, i, c) = IF g = f /\ i = p.blk /\ c \in p.from..p.from + p.size - 1
                                   THEN io.buf[io.alen + c - p.from + 1] ELSE Byte(fs, g, i, c)
<1> DEFINE bytes == [c \in Cell |->
             IF c \in p.from..p.from + p.size - 1 THEN io.buf[io.alen + c - p.from + 1]
             ELSE fs.disk[ino][c]]
           d == [fs.disk EXCEPT ![ino] = bytes]
<1>1. fs \in FsSet /\ fs.disk \in [Blk -> [Cell -> Int]]
  BY Fields DEF Sound
<1>2. p.blk \in Idx /\ p.blk \in Place /\ p.blk # -1
  <2>1. fs.din[f].blocks \in Idx /\ p.blk \in Nat
    BY BlocksFit DEF Lies
  <2>2. p.blk \in Idx
    BY <2>1, Constants DEF Idx
  <2> QED
    BY <2>2, Places
<1>3. ino \in Data \ fs.freemap /\ ino # 0 /\ ino \in Blk
  BY <1>2, Constants DEF Sound, Mapped, Taken
<1>4. bytes \in [Cell -> Int]
  <2> SUFFICES ASSUME NEW c \in Cell PROVE bytes[c] \in Int
    OBVIOUS
  <2>1. CASE c \in p.from..p.from + p.size - 1
    <3>1. /\ c - p.from + 1 \in 1..p.size
          /\ io.alen + c - p.from + 1 = io.alen + (c - p.from + 1)
      <4> DEFINE from == p.from
                 size == p.size
                 alen == io.alen
      <4>1. from \in Int /\ size \in Int /\ c \in Int /\ alen \in Int /\ c \in from..from + size - 1
        BY <2>1 DEF Lies, Cell
      <4> HIDE DEF from, size, alen
      <4>2. c - from + 1 \in 1..size /\ alen + c - from + 1 = alen + (c - from + 1)
        BY <4>1
      <4> QED
        BY <4>2 DEF from, size, alen
    <3>2. io.buf[io.alen + c - p.from + 1] \in Int
      BY <3>1
    <3> QED
      BY <2>1, <3>2
  <2>2. CASE c \notin p.from..p.from + p.size - 1
    BY <1>1, <1>3, <2>2
  <2> QED
    BY <2>1, <2>2
<1>5. fs2 = [fs EXCEPT !.disk = d]
  BY DEF Put
<1> HIDE DEF bytes
<1>6. d \in [Blk -> [Cell -> Int]]
  BY <1>1, <1>4
<1>7. d[ino] = bytes /\ \A x \in Blk \ {ino} : d[x] = fs.disk[x]
  BY <1>1, <1>3
<1> HIDE DEF d
<1>8. /\ fs2 \in FsSet /\ fs2.disk = d /\ fs2.din = fs.din /\ fs2.freemap = fs.freemap
      /\ fs2.unused_blocks = fs.unused_blocks /\ SameFlags(fs, fs2)
  <2>1. fs2 \in FsSet
    BY <1>1, <1>5, <1>6, SetDisk
  <2> QED
    BY <1>1, <1>5, <2>1 DEF FsSet, SameFlags
<1>9. \A g \in File : \A i \in Place : Held(fs2, g, i) = Held(fs, g, i)
  <2> SUFFICES ASSUME NEW g \in File, NEW i \in Place
               PROVE  Held(fs2, g, i) = Held(fs, g, i)
    OBVIOUS
  <2>1. CASE fs.din[g].indirect = 0
    BY <1>8, <2>1 DEF Held
  <2>2. CASE fs.din[g].indirect # 0
    <3> DEFINE ind == fs.din[g].indirect
    <3>1. ind # ino
      <4>1. PICK h \in Place : h = -1
        BY Places
      <4>2. Held(fs, g, h) = ind
        BY <4>1 DEF Held
      <4> DEFINE j == p.blk
      <4>3. j \in Place /\ j # -1 /\ Held(fs, f, j) = ino
        BY <1>2
      <4> HIDE DEF j, ind
      <4>4. h # j
        BY <4>1, <4>3
      <4>5. ASSUME ind = ino PROVE FALSE
        <5>1. Held(fs, g, h) # 0 /\ Held(fs, g, h) = Held(fs, f, j)
          BY <1>3, <4>2, <4>3, <4>5
        <5> QED
          BY <4>3, <4>4, <5>1, OneHolder
      <4> QED
        BY <4>5
    <3>2. d[ind] = fs.disk[ind]
      <4>1. ind \in Blk
        BY <2>2, FreeBlocks
      <4> HIDE DEF ind
      <4> QED
        BY <1>7, <3>1, <4>1
    <3>3. fs2.din[g].indirect = ind /\ ind # 0 /\ fs2.disk[ind] = fs.disk[ind]
      BY <1>8, <2>2, <3>2
    <3>4. fs2.din[g] = fs.din[g]
      BY <1>8
    <3> HIDE DEF ind
    <3> QED
      BY <3>3, <3>4 DEF Held, ind
  <2> QED
    BY <2>1, <2>2
<1>10. Sound(fs2)
  <2>1. Counted(fs2) /\ Fits(fs2)
    BY <1>8 DEF Sound, Counted, Fits
  <2>2. Mapped(fs2) /\ Taken(fs2)
    BY <1>8, <1>9, Places DEF Sound, Mapped, Taken
  <2>3. Unshared(fs2)
    BY <1>9 DEF Sound, Unshared
  <2>4. Kept(fs2)
    BY <1>8, <1>9 DEF Sound, Kept
  <2> QED
    BY <1>8, <2>1, <2>2, <2>3, <2>4 DEF Sound
<1>11. ASSUME NEW g \in File, NEW i \in Nat, NEW c \in Cell
       PROVE  Byte(fs2, g, i, c) = IF g = f /\ i = p.blk /\ c \in p.from..p.from + p.size - 1
                                   THEN io.buf[io.alen + c - p.from + 1] ELSE Byte(fs, g, i, c)
  <2>1. CASE i < fs.din[g].blocks
    <3>1. i \in Idx /\ i \in Place
      <4>1. fs.din[g].blocks \in Idx
        BY BlocksFit
      <4> QED
        BY <2>1, <4>1, Places, Constants DEF Idx
    <3>2. Held(fs2, g, i) = Held(fs, g, i) /\ Held(fs, g, i) \in Blk
      BY <1>9, <2>1, <3>1, Constants DEF Sound, Mapped, Taken
    <3>3. Held(fs, g, i) = ino <=> g = f /\ i = p.blk
      <4>1. Unshared(fs)
        BY DEF Sound
      <4>2. ino = Held(fs, f, p.blk) /\ ino # 0 /\ p.blk \in Place /\ i \in Place
        BY <1>2, <1>3, <3>1
      <4>3. ASSUME Held(fs, g, i) = ino PROVE g = f /\ i = p.blk
        <5>1. Held(fs, g, i) # 0 /\ Held(fs, g, i) = Held(fs, f, p.blk)
          BY <4>2, <4>3
        <5> DEFINE j == p.blk
        <5>2. j \in Place /\ Held(fs, g, i) = Held(fs, f, j)
          BY <4>2, <5>1
        <5> HIDE DEF j
        <5>3. g = f /\ i = j
          BY <4>2, <5>1, <5>2, OneHolder
        <5> QED
          BY <5>3 DEF j
      <4>4. ASSUME g = f /\ i = p.blk PROVE Held(fs, g, i) = ino
        BY <4>2, <4>4
      <4> QED
        BY <4>3, <4>4
    <3>4. Byte(fs2, g, i, c) = d[Held(fs, g, i)][c] /\ Byte(fs, g, i, c) = fs.disk[Held(fs, g, i)][c]
      BY <1>8, <2>1, <3>2 DEF Byte
    <3>5. CASE g = f /\ i = p.blk
      BY <1>7, <3>3, <3>4, <3>5 DEF bytes
    <3>6. CASE ~(g = f /\ i = p.blk)
      BY <1>7, <3>2, <3>3, <3>4, <3>6
    <3> QED
      BY <3>5, <3>6
  <2>2. CASE ~(i < fs.din[g].blocks)
    <3>1. ~(g = f /\ i = p.blk)
      BY <2>2
    <3> QED
      BY <1>8, <2>2, <3>1 DEF Byte
  <2> QED
    BY <2>1, <2>2
<1> QED
  BY <1>8, <1>10, <1>11

-----------------------------------------------------------------------------
(* A transfer that has moved n bytes of buf so far.                        *)
Written(fs0, fs, f, buf, offset, n) ==
  /\ Sound(fs) /\ SameFlags(fs0, fs)
  /\ \A g \in File : fs.din[g].size = fs0.din[g].size
  /\ \A g \in File : \A pos \in Nat :
       At(fs, g, pos) = IF g = f /\ pos \in offset..offset + n - 1 THEN buf[pos - offset + 1]
                        ELSE At(fs0, g, pos)

(* A piece begins at a position; the first n bytes of a buffer are bytes.  *)
Begins(p, pos) == BLKSIZE * p.blk + p.from = pos

Bytes(buf, n) == \A k \in 1..n : buf[k] \in Int

LEMMA WrittenLoad ==
  ASSUME NEW fs0, NEW fs, NEW f \in File, NEW buf, NEW offset, NEW n,
         Written(fs0, fs, f, buf, offset, n), NEW fs2, Sound(fs2), Same(fs, fs2)
  PROVE  Written(fs0, fs2, f, buf, offset, n)
<1>1. \A g \in File : \A pos \in Nat : At(fs2, g, pos) = At(fs, g, pos)
  BY SameAt
<1> QED
  BY <1>1 DEF Written, Same, SameFlags

(* A piece of a transfer, by the outcome of the look-up of its block.      *)
Is(r, fs, ret, buf, alen) == r.fs = fs /\ r.ret = ret /\ r.buf = buf /\ r.alen = alen

LEMMA IsTransfer ==
  ASSUME NEW fs, NEW ret, NEW buf, NEW alen
  PROVE  Is(Transfer(fs, ret, buf, alen), fs, ret, buf, alen)
BY DEF Is, Transfer

PutStep(f, io, p) == Step(TRUE, FALSE, f, io, p)
PutWholeStep(f, io, p) == Step(TRUE, TRUE, f, io, p)
GetStep(f, io, p) == Step(FALSE, FALSE, f, io, p)
GetWholeStep(f, io, p) == Step(FALSE, TRUE, f, io, p)

LEMMA StepMoves ==
  ASSUME NEW io, NEW write, NEW whole, NEW f, NEW p, p.size # 0, io.ret = "ok"
  PROVE  Step(write, whole, f, io, p)
           = Move(write, whole, io, p, sfs_bmap_load_nolock(io.fs, f, p.blk))
<1>1. Step(write, whole, f, io, p)
        = Then(io, LAMBDA acc : Move(write, whole, acc, p, sfs_bmap_load_nolock(acc.fs, f, p.blk)))
  BY DEF Step
<1> QED
  BY <1>1 DEF Then

LEMMA StepStays ==
  ASSUME NEW io, NEW f, NEW p, p.size = 0 \/ io.ret # "ok"
  PROVE  /\ PutStep(f, io, p) = io /\ PutWholeStep(f, io, p) = io
         /\ GetStep(f, io, p) = io /\ GetWholeStep(f, io, p) = io
<1>1. ASSUME NEW write, NEW whole PROVE Step(write, whole, f, io, p) = io
  <2>1. CASE p.size = 0
    BY <2>1 DEF Step
  <2>2. CASE p.size # 0
    <3>1. Step(write, whole, f, io, p)
            = Then(io, LAMBDA acc : Move(write, whole, acc, p, sfs_bmap_load_nolock(acc.fs, f, p.blk)))
      BY <2>2 DEF Step
    <3> QED
      BY <2>2, <3>1 DEF Then
  <2> QED
    BY <2>1, <2>2
<1> DEFINE yes == TRUE
           no == FALSE
<1> HIDE DEF yes, no
<1>2. /\ Step(yes, no, f, io, p) = io /\ Step(yes, yes, f, io, p) = io
      /\ Step(no, no, f, io, p) = io /\ Step(no, yes, f, io, p) = io
  BY <1>1
<1> QED
  BY <1>2 DEF yes, no, PutStep, PutWholeStep, GetStep, GetWholeStep

LEMMA StepPut ==
  ASSUME NEW io, NEW f, NEW p, p.size # 0, io.ret = "ok",
         NEW load, load = sfs_bmap_load_nolock(io.fs, f, p.blk),
         NEW r, r = PutStep(f, io, p)
  PROVE  /\ load.ret # "ok" => Is(r, load.fs, load.ret, io.buf, io.alen)
         /\ load.ret = "ok" =>
              Is(r, Put(load.fs, load.ino, p, io), "ok", io.buf, io.alen + p.size)
<1> DEFINE write == TRUE
           whole == FALSE
           fs2 == Put(load.fs, load.ino, p, io)
           buf2 == io.buf
           a == io.alen + p.size
<1> HIDE DEF write, whole
<1>1. r = Move(write, whole, io, p, load)
  BY StepMoves DEF write, whole, PutStep
<1>2. load.ret # "ok" => r = Transfer(load.fs, load.ret, io.buf, io.alen)
  BY <1>1 DEF Move
<1>4. load.ret = "ok" => r = Transfer(fs2, "ok", buf2, a)
  BY <1>1 DEF Move, write, whole
<1> HIDE DEF fs2, buf2, a
<1>5. load.ret = "ok" => Is(r, fs2, "ok", buf2, a)
  BY <1>4, IsTransfer
<1> QED
  BY <1>2, <1>5, IsTransfer DEF fs2, buf2, a

LEMMA StepPutWhole ==
  ASSUME NEW io, NEW f, NEW p, p.size # 0, io.ret = "ok",
         NEW load, load = sfs_bmap_load_nolock(io.fs, f, p.blk),
         NEW r, r = PutWholeStep(f, io, p)
  PROVE  /\ load.ret # "ok" => Is(r, load.fs, load.ret, io.buf, io.alen)
         /\ load.ret = "ok" /\ p.blk = 0 => Is(r, load.fs, "panic", io.buf, io.alen)
         /\ load.ret = "ok" /\ p.blk # 0 =>
              Is(r, PutWhole(load.fs, p, io), "ok", io.buf, io.alen + p.size)
<1> DEFINE write == TRUE
           whole == TRUE
           fs2 == PutWhole(load.fs, p, io)
           buf2 == io.buf
           a == io.alen + p.size
<1> HIDE DEF write, whole
<1>1. r = Move(write, whole, io, p, load)
  BY StepMoves DEF write, whole, PutWholeStep
<1>2. load.ret # "ok" => r = Transfer(load.fs, load.ret, io.buf, io.alen)
  BY <1>1 DEF Move
<1>3. load.ret = "ok" /\ p.blk = 0 => r = Transfer(load.fs, "panic", io.buf, io.alen)
  BY <1>1 DEF Move, write, whole
<1>4. load.ret = "ok" /\ p.blk # 0 => r = Transfer(fs2, "ok", buf2, a)
  BY <1>1 DEF Move, write, whole
<1> HIDE DEF fs2, buf2, a
<1>5. load.ret = "ok" /\ p.blk # 0 => Is(r, fs2, "ok", buf2, a)
  BY <1>4, IsTransfer
<1> QED
  BY <1>2, <1>3, <1>5, IsTransfer DEF fs2, buf2, a

LEMMA StepGet ==
  ASSUME NEW io, NEW f, NEW p, p.size # 0, io.ret = "ok",
         NEW load, load = sfs_bmap_load_nolock(io.fs, f, p.blk),
         NEW r, r = GetStep(f, io, p)
  PROVE  /\ load.ret # "ok" => Is(r, load.fs, load.ret, io.buf, io.alen)
         /\ load.ret = "ok" =>
              Is(r, load.fs, "ok", io.buf \o Get(load.fs, load.ino, p), io.alen + p.size)
<1> DEFINE write == FALSE
           whole == FALSE
           fs2 == load.fs
           buf2 == io.buf \o Get(load.fs, load.ino, p)
           a == io.alen + p.size
<1> HIDE DEF write, whole
<1>1. r = Move(write, whole, io, p, load)
  BY StepMoves DEF write, whole, GetStep
<1>2. load.ret # "ok" => r = Transfer(load.fs, load.ret, io.buf, io.alen)
  BY <1>1 DEF Move
<1>4. load.ret = "ok" => r = Transfer(fs2, "ok", buf2, a)
  BY <1>1 DEF Move, write, whole
<1> HIDE DEF fs2, buf2, a
<1>5. load.ret = "ok" => Is(r, fs2, "ok", buf2, a)
  BY <1>4, IsTransfer
<1> QED
  BY <1>2, <1>5, IsTransfer DEF fs2, buf2, a

LEMMA StepGetWhole ==
  ASSUME NEW io, NEW f, NEW p, p.size # 0, io.ret = "ok",
         NEW load, load = sfs_bmap_load_nolock(io.fs, f, p.blk),
         NEW r, r = GetWholeStep(f, io, p)
  PROVE  /\ load.ret # "ok" => Is(r, load.fs, load.ret, io.buf, io.alen)
         /\ load.ret = "ok" /\ p.blk = 0 => Is(r, load.fs, "panic", io.buf, io.alen)
         /\ load.ret = "ok" /\ p.blk # 0 =>
              Is(r, load.fs, "ok", io.buf \o GetWhole(load.fs, p), io.alen + p.size)
<1> DEFINE write == FALSE
           whole == TRUE
           fs2 == load.fs
           buf2 == io.buf \o GetWhole(load.fs, p)
           a == io.alen + p.size
<1> HIDE DEF write, whole
<1>1. r = Move(write, whole, io, p, load)
  BY StepMoves DEF write, whole, GetWholeStep
<1>2. load.ret # "ok" => r = Transfer(load.fs, load.ret, io.buf, io.alen)
  BY <1>1 DEF Move
<1>3. load.ret = "ok" /\ p.blk = 0 => r = Transfer(load.fs, "panic", io.buf, io.alen)
  BY <1>1 DEF Move, write, whole
<1>4. load.ret = "ok" /\ p.blk # 0 => r = Transfer(fs2, "ok", buf2, a)
  BY <1>1 DEF Move, write, whole
<1> HIDE DEF fs2, buf2, a
<1>5. load.ret = "ok" /\ p.blk # 0 => Is(r, fs2, "ok", buf2, a)
  BY <1>4, IsTransfer
<1> QED
  BY <1>2, <1>3, <1>5, IsTransfer DEF fs2, buf2, a

(* A piece of a write inside of a block.                                   *)
LEMMA WritePiece ==
  ASSUME NEW fs0, NEW io, NEW f \in File, NEW buf, NEW offset \in Nat,
         io.buf = buf, io.alen \in Nat, io.ret = "ok",
         Written(fs0, io.fs, f, buf, offset, io.alen),
         NEW p, Lies(p), NEW at, at = offset + io.alen, Begins(p, at),
         NEW m, m = io.alen + p.size, Bytes(buf, m),
         NEW r, r = PutStep(f, io, p)
  PROVE  /\ r.buf = buf /\ r.alen = (IF r.ret = "ok" THEN m ELSE io.alen)
         /\ Written(fs0, r.fs, f, buf, offset, r.alen)
<1> DEFINE load == sfs_bmap_load_nolock(io.fs, f, p.blk)
           fs2 == Put(load.fs, load.ino, p, io)
           n == io.alen
           size == p.size
<1>0. p.blk \in Nat /\ p.from \in Nat /\ size \in Nat /\ size # 0 /\ n \in Nat
  BY DEF Lies, Cell
<1>1. /\ Sound(load.fs) /\ Same(io.fs, load.fs)
      /\ load.ret = "ok" => /\ p.blk < load.fs.din[f].blocks
                            /\ load.ino = Held(load.fs, f, p.blk)
  BY <1>0, Load DEF Written
<1>2. /\ load.ret # "ok" => Is(r, load.fs, load.ret, io.buf, io.alen)
      /\ load.ret = "ok" => Is(r, fs2, "ok", io.buf, io.alen + p.size)
  BY <1>0, StepPut
<1> HIDE DEF load
<1>3. Written(fs0, load.fs, f, buf, offset, n)
  BY <1>1, WrittenLoad
<1>5. CASE load.ret # "ok"
  <2>1. r.fs = load.fs /\ r.ret # "ok" /\ r.buf = buf /\ r.alen = n
    BY <1>2, <1>5 DEF Is
  <2> QED
    BY <1>3, <2>1
<1>6. CASE load.ret = "ok"
  <2>1. \A k \in 1..p.size : io.buf[io.alen + k] \in Int
    <3> SUFFICES ASSUME NEW k \in 1..p.size PROVE io.buf[io.alen + k] \in Int
      OBVIOUS
    <3>1. n + k \in 1..n + size
      BY <1>0
    <3> QED
      BY <3>1 DEF Bytes
  <2>2. /\ Sound(fs2) /\ SameFlags(load.fs, fs2) /\ fs2.din = load.fs.din
        /\ \A g \in File : \A i \in Nat : \A c \in Cell :
             Byte(fs2, g, i, c) = IF g = f /\ i = p.blk /\ c \in p.from..p.from + p.size - 1
                                  THEN io.buf[io.alen + c - p.from + 1] ELSE Byte(load.fs, g, i, c)
    <3> HIDE DEF fs2, load
    <3>1. fs2 = Put(load.fs, load.ino, p, io) /\ io.alen \in Nat
      BY DEF fs2
    <3> QED
      BY <1>1, <1>6, <2>1, <3>1, PutBytes
  <2> HIDE DEF fs2
  <2>3. ASSUME NEW g \in File, NEW pos \in Nat
        PROVE  At(fs2, g, pos) = IF g = f /\ pos \in offset..offset + (n + size) - 1
                                 THEN buf[pos - offset + 1] ELSE At(fs0, g, pos)
    <3> DEFINE i == pos \div BLKSIZE
               c == pos % BLKSIZE
    <3>0. at = BLKSIZE * p.blk + p.from
      BY DEF Begins
    <3>1. i \in Nat /\ c \in Cell
      BY Division
    <3>2. /\ i = p.blk /\ c \in p.from..p.from + size - 1 <=> pos \in at..at + size - 1
          /\ pos \in at..at + size - 1 => c - p.from = pos - at
      BY <3>0, InPiece
    <3>3. At(load.fs, g, pos) = IF g = f /\ pos \in offset..offset + n - 1 THEN buf[pos - offset + 1]
                                ELSE At(fs0, g, pos)
      BY <1>3 DEF Written
    <3>4. At(fs2, g, pos) = IF g = f /\ i = p.blk /\ c \in p.from..p.from + size - 1
                            THEN buf[n + c - p.from + 1] ELSE At(load.fs, g, pos)
      BY <2>2, <3>1 DEF At
    <3>5. at = offset + n
      OBVIOUS
    <3> HIDE DEF i, n, size
    <3>6. c \in Int
      BY <3>1 DEF Cell
    <3> HIDE DEF c
    <3>7. CASE pos \in at..at + size - 1
      <4>1. n + c - p.from + 1 = pos - offset + 1
        BY <1>0, <3>2, <3>5, <3>6, <3>7
      <4>2. pos \in offset..offset + (n + size) - 1 /\ ~(pos \in offset..offset + n - 1)
        BY <1>0, <3>5, <3>7
      <4> QED
        BY <3>2, <3>3, <3>4, <3>7, <4>1, <4>2
    <3>8. CASE ~(pos \in at..at + size - 1)
      <4>1. pos \in offset..offset + (n + size) - 1 <=> pos \in offset..offset + n - 1
        BY <1>0, <3>5, <3>8
      <4> QED
        BY <3>2, <3>3, <3>4, <3>8, <4>1
    <3> QED
      BY <3>7, <3>8
  <2>4. Written(fs0, fs2, f, buf, offset, n + size)
    <3>1. SameFlags(fs0, fs2) /\ \A g \in File : fs2.din[g].size = fs0.din[g].size
      BY <1>3, <2>2 DEF Written, SameFlags
    <3> HIDE DEF n, size
    <3> QED
      BY <2>2, <2>3, <3>1 DEF Written
  <2>5. r.fs = fs2 /\ r.ret = "ok" /\ r.buf = buf /\ r.alen = n + size
    BY <1>2, <1>6 DEF Is
  <2> HIDE DEF n, size
  <2> QED
    BY <2>4, <2>5 DEF n, size
<1> QED
  BY <1>5, <1>6

(* Data of a write has gone astray.                                        *)
Astray(fs) == Shaped(fs) /\ fs.astray = TRUE

(* Whole blocks of a write: the data goes astray, or the call has failed.  *)
LEMMA WriteWhole ==
  ASSUME NEW fs0, NEW io, NEW f \in File, NEW buf, NEW offset \in Nat,
         io.buf = buf, io.ret = "ok", Written(fs0, io.fs, f, buf, offset, io.alen),
         NEW p, p.blk \in Nat, p.size # 0,
         NEW r, r = PutWholeStep(f, io, p)
  PROVE  \/ Astray(r.fs)
         \/ /\ r.ret # "ok" /\ r.buf = buf /\ r.alen = io.alen
            /\ Written(fs0, r.fs, f, buf, offset, r.alen)
<1> DEFINE load == sfs_bmap_load_nolock(io.fs, f, p.blk)
           fs2 == PutWhole(load.fs, p, io)
<1>1. Sound(load.fs) /\ Same(io.fs, load.fs)
  BY Load DEF Written
<1>2. /\ load.ret # "ok" => Is(r, load.fs, load.ret, io.buf, io.alen)
      /\ load.ret = "ok" /\ p.blk = 0 => Is(r, load.fs, "panic", io.buf, io.alen)
      /\ load.ret = "ok" /\ p.blk # 0 => Is(r, fs2, "ok", io.buf, io.alen + p.size)
  BY StepPutWhole
<1> HIDE DEF load
<1>3. Written(fs0, load.fs, f, buf, offset, io.alen)
  BY <1>1, WrittenLoad
<1>4. CASE load.ret # "ok" \/ p.blk = 0
  <2>1. r.fs = load.fs /\ r.ret # "ok" /\ r.buf = buf /\ r.alen = io.alen
    BY <1>2, <1>4 DEF Is
  <2> QED
    BY <1>3, <2>1
<1>5. CASE ~(load.ret # "ok" \/ p.blk = 0)
  <2>1. Shaped(load.fs)
    BY <1>1, FsShaped DEF Sound
  <2> DEFINE fs1 == load.fs
             d == [b \in DOMAIN fs1.disk |->
                IF b \in p.blk..p.blk + p.size \div BLKSIZE - 1
                  THEN [c \in Cell |-> io.buf[io.alen + (b - p.blk) * BLKSIZE + c + 1]] ELSE fs1.disk[b]]
  <2>2. fs2 = [fs1 EXCEPT !.astray = TRUE, !.disk = d]
    BY DEF PutWhole
  <2>3. Shaped(fs2) /\ fs2.astray = TRUE
    <3>1. PICK fm, u, dk, dn, pn, t :
            fs1 = [freemap |-> fm, unused_blocks |-> u, disk |-> dk, din |-> dn, panic |-> pn, astray |-> t]
      BY <2>1 DEF Shaped
    <3> HIDE DEF d, fs1, fs2
    <3>2. fs2 = [freemap |-> fm, unused_blocks |-> u, disk |-> d, din |-> dn, panic |-> pn, astray |-> TRUE]
      BY <2>2, <3>1
    <3> QED
      BY <3>2 DEF Shaped
  <2> HIDE DEF fs2
  <2>4. r.fs = fs2
    BY <1>2, <1>5 DEF Is
  <2> QED
    BY <2>3, <2>4 DEF Astray
<1> QED
  BY <1>4, <1>5

LEMMA StepAstray ==
  ASSUME NEW io, NEW f, NEW p, Astray(io.fs),
         NEW r, r = PutStep(f, io, p)
  PROVE  Astray(r.fs)
<1> DEFINE load == sfs_bmap_load_nolock(io.fs, f, p.blk)
           fs2 == Put(load.fs, load.ino, p, io)
<1>1. CASE p.size = 0 \/ io.ret # "ok"
  <2>2. r = io
    BY <1>1, StepStays
  <2> QED
    BY <2>2
<1>2. CASE p.size # 0 /\ io.ret = "ok"
  <2>1. /\ load.ret # "ok" => Is(r, load.fs, load.ret, io.buf, io.alen)
        /\ load.ret = "ok" => Is(r, fs2, "ok", io.buf, io.alen + p.size)
    BY <1>2, StepPut
  <2>2. Shaped(load.fs) /\ load.fs.astray = TRUE
    BY LoadShaped DEF Result, From, Astray
  <2>3. Shaped(fs2) /\ fs2.astray = TRUE
    <3> DEFINE fs1 == load.fs
               d == [fs1.disk EXCEPT ![load.ino] = [c \in Cell |->
                       IF c \in p.from..p.from + p.size - 1 THEN io.buf[io.alen + c - p.from + 1]
                       ELSE fs1.disk[load.ino][c]]]
    <3>1. fs2 = [fs1 EXCEPT !.disk = d]
      BY DEF Put
    <3> HIDE DEF fs1, d, fs2
    <3>2. Shaped(fs1) /\ fs1.astray = TRUE
      BY <2>2 DEF fs1
    <3> QED
      BY <3>1, <3>2, Assigned DEF From
  <2> HIDE DEF load, fs2
  <2>4. r.fs = load.fs \/ r.fs = fs2
    BY <2>1 DEF Is
  <2> QED
    BY <2>2, <2>3, <2>4 DEF Astray
<1> QED
  BY <1>1, <1>2

(* The pieces of a transfer follow each other, and each of the first and   *)
(* the last lies in a block.                                               *)
LEMMA PiecesFit ==
  ASSUME NEW offset \in Nat, NEW endpos \in Nat, offset < endpos,
         NEW a, a = First(offset, endpos), NEW w, w = Whole(offset, endpos),
         NEW l, l = Last(offset, endpos)
  PROVE  /\ a.size # 0 => Lies(a) /\ Begins(a, offset)
         /\ l.size # 0 => Lies(l)
         /\ l.size # 0 /\ w.size = 0 => Begins(l, offset + a.size)
         /\ a.size \in Nat /\ w.size \in Nat /\ l.size \in Nat
         /\ a.blk \in Nat /\ w.blk \in Nat /\ l.blk \in Nat
         /\ a.size + w.size + l.size = endpos - offset
<1> DEFINE q == offset \div BLKSIZE
           c == offset % BLKSIZE
           r == RoundupDiv(offset)
           q2 == endpos \div BLKSIZE
           c2 == endpos % BLKSIZE
           B == BLKSIZE
<1>1. B \in Nat \ {0}
  BY Constants
<1>2. q \in Nat /\ c \in 0..B - 1 /\ offset = B * q + c
  BY Division DEF Cell
<1>3. q2 \in Nat /\ c2 \in 0..B - 1 /\ endpos = B * q2 + c2
  BY Division DEF Cell
<1>4. r = (IF c = 0 THEN q ELSE q + 1)
  <2>1. r = (offset + B - 1) \div B
    BY DEF RoundupDiv
  <2> DEFINE o == offset + B - 1
             d == IF c = 0 THEN B - 1 ELSE c - 1
             s == IF c = 0 THEN q ELSE q + 1
  <2>2. o \in Nat /\ s \in Int /\ d \in Cell
    BY <1>1, <1>2 DEF Cell
  <2>3. o = B * s + d
    <3>1. B * (q + 1) = B * q + B
      BY <1>1, <1>2
    <3> DEFINE m == B * q
               m2 == B * (q + 1)
    <3>2. m \in Int /\ m2 = m + B /\ offset = m + c
      BY <1>1, <1>2, <3>1
    <3> HIDE DEF m, m2
    <3>3. CASE c = 0
      <4>1. o = m + d
        BY <1>1, <1>2, <3>2, <3>3
      <4> QED
        BY <3>3, <4>1 DEF m
    <3>4. CASE c # 0
      <4>1. o = m2 + d
        BY <1>1, <1>2, <3>2, <3>4
      <4> QED
        BY <3>4, <4>1 DEF m2
    <3> QED
      BY <3>3, <3>4
  <2> HIDE DEF o, d, s
  <2>4. o \div B = s
    BY <2>2, <2>3, Quotient
  <2> QED
    BY <2>1, <2>4 DEF o, s
<1>5. /\ a.blk = q /\ a.from = c
      /\ a.size = IF c = 0 THEN 0 ELSE IF q2 = q THEN endpos - offset ELSE B - c
  <2> HIDE DEF q2
  <2>1. a = Piece(q, c, CASE c = 0 -> 0 [] c # 0 /\ q2 = q -> endpos - offset [] OTHER -> B - c)
    BY DEF First, q2
  <2> HIDE DEF q, c
  <2> QED
    BY <2>1 DEF Piece
<1>6. w.blk = r /\ w.from = 0 /\ w.size = IF r < q2 THEN (q2 - r) * B ELSE 0
  <2> HIDE DEF q2, r
  <2>1. w = Piece(r, 0, IF r < q2 THEN (q2 - r) * B ELSE 0)
    BY DEF Whole, q2, r
  <2> QED
    BY <2>1 DEF Piece
<1>7. l.blk = q2 /\ l.from = 0 /\ l.size = IF r <= q2 THEN c2 ELSE 0
  <2> HIDE DEF r
  <2>1. l = Piece(q2, 0, IF r <= q2 THEN c2 ELSE 0)
    BY DEF Last, r
  <2> HIDE DEF q2, c2
  <2> QED
    BY <2>1 DEF Piece
<1> HIDE DEF q, c, q2, c2, r
<1>8. q <= q2
  <2>1. q2 + 1 <= q => B * (q2 + 1) <= B * q
    <3> DEFINE k == q - (q2 + 1)
    <3>1. k \in Int /\ q = q2 + 1 + k
      BY <1>2, <1>3
    <3> HIDE DEF k
    <3>2. k \in Nat => B * k \in Nat
      BY <1>1
    <3>3. B * q = B * (q2 + 1) + B * k
      BY <1>1, <1>2, <1>3, <3>1
    <3>4. B * (q2 + 1) \in Int /\ B * k \in Int
      BY <1>1, <1>3, <3>1
    <3> QED
      BY <1>2, <1>3, <3>1, <3>2, <3>3, <3>4
  <2>2. B * (q2 + 1) = B * q2 + B
    BY <1>1, <1>3
  <2>3. B * q2 \in Int /\ B * q \in Int
    BY <1>1, <1>2, <1>3
  <2> QED
    BY <1>1, <1>2, <1>3, <2>1, <2>2, <2>3
<1> DEFINE m == B * q
           m2 == B * q2
           t == (q2 - r) * B
<1>9. m \in Nat /\ m2 \in Nat /\ offset = m + c /\ endpos = m2 + c2
  BY <1>1, <1>2, <1>3
<1>10. /\ q2 = q => m2 = m
       /\ r <= q2 => t \in Nat /\ t = m2 - (IF c = 0 THEN m ELSE m + B)
       /\ r = q2 => t = 0
  <2>1. q2 = q => m2 = m
    OBVIOUS
  <2>2. r = q2 => t = 0
    BY <1>1, <1>3
  <2>3. ASSUME r <= q2 PROVE t \in Nat
    <3> DEFINE k == q2 - r
    <3>1. k \in Nat
      BY <1>2, <1>3, <1>4, <2>3
    <3> HIDE DEF k
    <3>2. k * B \in Nat
      BY <1>1, <3>1
    <3> QED
      BY <3>2 DEF k
  <2>4. t = m2 - (IF c = 0 THEN m ELSE m + B)
    <3>1. CASE c = 0
      <4>1. r = q
        BY <1>4, <3>1
      <4>2. (q2 - q) * B = B * q2 - B * q
        BY <1>1, <1>2, <1>3
      <4> QED
        BY <3>1, <4>1, <4>2
    <3>2. CASE c # 0
      <4>1. r = q + 1
        BY <1>4, <3>2
      <4>2. (q2 - (q + 1)) * B = B * q2 - (B * q + B)
        BY <1>1, <1>2, <1>3
      <4> QED
        BY <3>2, <4>1, <4>2
    <3> QED
      BY <3>1, <3>2
  <2> QED
    BY <2>1, <2>2, <2>3, <2>4
<1>11. a.size # 0 => Lies(a) /\ B * a.blk + a.from = offset
  <2> SUFFICES ASSUME a.size # 0 PROVE Lies(a) /\ B * a.blk + a.from = offset
    OBVIOUS
  <2>1. B * a.blk + a.from = offset
    BY <1>2, <1>5
  <2> HIDE DEF m, m2
  <2>2. a.size \in Nat \ {0} /\ a.from + a.size <= B
    BY <1>1, <1>2, <1>3, <1>5, <1>9, <1>10
  <2> QED
    BY <1>2, <1>5, <2>1, <2>2 DEF Lies, Cell
<1>12. l.size # 0 => Lies(l)
  BY <1>1, <1>3, <1>7 DEF Lies, Cell
<1>13. /\ a.size \in Nat /\ w.size \in Nat /\ l.size \in Nat
       /\ a.size + w.size + l.size = endpos - offset
  <2> HIDE DEF m, m2, t
  <2>1. a.size \in Nat /\ l.size \in Nat
    BY <1>3, <1>7, <1>11 DEF Lies
  <2>2. w.size = IF r < q2 THEN t ELSE 0
    BY <1>6 DEF t
  <2>3. w.size \in Nat
    BY <1>2, <1>3, <1>4, <1>10, <2>2
  <2>4. CASE c # 0 /\ q2 = q
    BY <1>1, <1>2, <1>3, <1>4, <1>5, <1>7, <1>9, <1>10, <2>2, <2>4
  <2>5. CASE ~(c # 0 /\ q2 = q)
    <3>1. r <= q2
      BY <1>2, <1>3, <1>4, <1>8, <2>5
    <3>2. w.size = t
      BY <1>2, <1>3, <1>4, <1>10, <2>2, <3>1
    <3>3. a.size = IF c = 0 THEN 0 ELSE B - c
      BY <1>5, <2>5
    <3>4. l.size = c2
      BY <1>7, <3>1
    <3> QED
      BY <1>1, <1>2, <1>3, <1>9, <1>10, <3>1, <3>2, <3>3, <3>4
  <2> QED
    BY <2>1, <2>3, <2>4, <2>5
<1>14. l.size # 0 /\ w.size = 0 => B * l.blk + l.from = offset + a.size
  <2> SUFFICES ASSUME l.size # 0, w.size = 0 PROVE B * l.blk + l.from = offset + a.size
    OBVIOUS
  <2>1. r <= q2 /\ l.size = c2
    BY <1>7
  <2>2. t = 0
    BY <1>2, <1>3, <1>4, <1>6, <1>10, <2>1
  <2>3. B * l.blk + l.from = m2
    BY <1>7, <1>9
  <2> HIDE DEF m, m2, t
  <2> QED
    BY <1>9, <1>13, <2>1, <2>3
<1> QED
  BY <1>2, <1>3, <1>4, <1>5, <1>6, <1>7, <1>11, <1>12, <1>13, <1>14 DEF Begins

(* A write that has come to position offset + n, or has failed before.     *)
Wrote(fs0, io, f, buf, offset, n) ==
  /\ io.buf = buf /\ io.alen \in Nat /\ io.alen <= n
  /\ io.ret = "ok" => io.alen = n
  /\ Written(fs0, io.fs, f, buf, offset, io.alen)

LEMMA WroteMore ==
  ASSUME NEW fs0, NEW io, NEW f, NEW buf, NEW offset, NEW n \in Nat, NEW k \in Nat,
         Wrote(fs0, io, f, buf, offset, n), io.ret # "ok"
  PROVE  Wrote(fs0, io, f, buf, offset, n + k)
BY DEF Wrote

LEMMA BytesFewer ==
  ASSUME NEW buf, NEW n \in Nat, Bytes(buf, n), NEW k \in Nat, k <= n
  PROVE  Bytes(buf, k)
BY DEF Bytes

LEMMA WriteStep ==
  ASSUME NEW fs0, NEW io, NEW f \in File, NEW buf, NEW offset \in Nat, NEW n \in Nat,
         Wrote(fs0, io, f, buf, offset, n),
         NEW p, p.size \in Nat, p.size # 0 => Lies(p) /\ Begins(p, offset + n),
         Bytes(buf, n + p.size),
         NEW r, r = PutStep(f, io, p)
  PROVE  Wrote(fs0, r, f, buf, offset, n + p.size)
<1> DEFINE size == p.size
<1>1. CASE size = 0 \/ io.ret # "ok"
  <2>2. r = io
    BY <1>1, StepStays
  <2> HIDE DEF size
  <2>3. CASE io.ret # "ok"
    <3>1. size \in Nat
      BY DEF size
    <3>2. Wrote(fs0, io, f, buf, offset, n + size)
      BY <2>3, <3>1, WroteMore
    <3> QED
      BY <2>2, <3>2 DEF size
  <2>4. CASE size = 0
    <3>1. n + size = n
      BY <2>4
    <3> QED
      BY <2>2, <3>1 DEF size
  <2> QED
    BY <1>1, <2>3, <2>4
<1>2. CASE size # 0 /\ io.ret = "ok"
  <2>1. io.buf = buf /\ io.alen = n /\ Written(fs0, io.fs, f, buf, offset, io.alen) /\ Lies(p)
    BY <1>2 DEF Wrote
  <2> DEFINE at == offset + n
             m == n + size
  <2>2. at = offset + io.alen /\ m = io.alen + p.size /\ Begins(p, at) /\ Bytes(buf, m) /\ p.size # 0
    BY <1>2, <2>1
  <2>3. m \in Nat /\ n <= m
    OBVIOUS
  <2> HIDE DEF at, m
  <2>4. /\ r.buf = buf /\ r.alen = (IF r.ret = "ok" THEN m ELSE io.alen)
        /\ Written(fs0, r.fs, f, buf, offset, r.alen)
    BY <1>2, <2>1, <2>2, WritePiece
  <2>5. Wrote(fs0, r, f, buf, offset, m)
    BY <2>1, <2>3, <2>4 DEF Wrote
  <2> QED
    BY <2>5 DEF m
<1> QED
  BY <1>1, <1>2

PutPieces(f, io, offset, endpos) == Pieces(TRUE, f, io, offset, endpos)
GetPieces(f, io, offset, endpos) == Pieces(FALSE, f, io, offset, endpos)

LEMMA WritePieces ==
  ASSUME NEW fs, Sound(fs), NEW f \in File, NEW buf, NEW offset \in Nat, NEW endpos \in Nat,
         offset < endpos, Bytes(buf, endpos - offset),
         NEW start, start = Transfer(fs, "ok", buf, 0),
         NEW r, r = PutPieces(f, start, offset, endpos)
  PROVE  \/ Astray(r.fs)
         \/ Wrote(fs, r, f, buf, offset, endpos - offset)
<1> DEFINE a == First(offset, endpos)
           w == Whole(offset, endpos)
           l == Last(offset, endpos)
           r1 == PutStep(f, start, a)
           r2 == PutWholeStep(f, r1, w)
           asz == a.size
           wsz == w.size
           lsz == l.size
           n == endpos - offset
<1>1. r = PutStep(f, r2, l)
  BY DEF PutPieces, Pieces, PutStep, PutWholeStep
<1>2. /\ asz # 0 => Lies(a) /\ Begins(a, offset)
      /\ lsz # 0 => Lies(l)
      /\ lsz # 0 /\ wsz = 0 => Begins(l, offset + asz)
      /\ asz \in Nat /\ wsz \in Nat /\ lsz \in Nat
      /\ a.blk \in Nat /\ w.blk \in Nat /\ l.blk \in Nat
      /\ asz + wsz + lsz = endpos - offset
  BY PiecesFit
<1> HIDE DEF a, w, l
<1>3. n \in Nat /\ Bytes(buf, n)
  OBVIOUS
<1> HIDE DEF n
<1>4. asz \in Nat /\ wsz \in Nat /\ lsz \in Nat /\ n \in Nat /\ asz + wsz + lsz = n
  BY <1>2 DEF n
<1>5. Wrote(fs, start, f, buf, offset, 0)
  <2>1. Is(start, fs, "ok", buf, 0)
    BY IsTransfer
  <2>2. Written(fs, fs, f, buf, offset, 0)
    BY DEF Written, SameFlags
  <2> QED
    BY <2>1, <2>2 DEF Wrote, Is
<1>6. Wrote(fs, r1, f, buf, offset, asz)
  <2> DEFINE rr == r1
  <2>0. rr = PutStep(f, start, a)
    OBVIOUS
  <2> HIDE DEF rr, r1
  <2>1. PICK z \in Nat : z = 0
    OBVIOUS
  <2>2. Wrote(fs, start, f, buf, offset, z)
    BY <1>5, <2>1
  <2>3. a.size # 0 => Lies(a) /\ Begins(a, offset + z)
    BY <1>2, <2>1
  <2>4. Bytes(buf, z + a.size)
    <3> DEFINE k == z + a.size
    <3>1. k = asz
      BY <1>2, <2>1
    <3> HIDE DEF asz, wsz, lsz, k
    <3>2. k \in Nat /\ k <= n
      BY <1>4, <3>1
    <3>3. Bytes(buf, k)
      BY <1>3, <3>2, BytesFewer
    <3> QED
      BY <3>3 DEF k
  <2>5. a.size \in Nat
    BY <1>2
  <2>6. Wrote(fs, rr, f, buf, offset, z + a.size)
    BY <2>0, <2>2, <2>3, <2>4, <2>5, WriteStep
  <2>7. z + a.size = asz
    BY <1>2, <2>1
  <2> QED
    BY <2>6, <2>7 DEF rr
<1> HIDE DEF r1
<1>7. CASE wsz # 0 /\ r1.ret = "ok"
  <2>1. /\ r1.buf = buf /\ Written(fs, r1.fs, f, buf, offset, r1.alen) /\ r1.alen = asz
    BY <1>6, <1>7 DEF Wrote
  <2>2. \/ Astray(r2.fs)
        \/ /\ r2.ret # "ok" /\ r2.buf = buf /\ r2.alen = r1.alen
           /\ Written(fs, r2.fs, f, buf, offset, r2.alen)
    <3> DEFINE rr == r2
    <3>0. rr = PutWholeStep(f, r1, w)
      OBVIOUS
    <3> HIDE DEF rr, r2
    <3>1. w.blk \in Nat /\ w.size # 0 /\ r1.ret = "ok"
      BY <1>2, <1>7
    <3>3. r1.buf = buf /\ Written(fs, r1.fs, f, buf, offset, r1.alen)
      BY <2>1
    <3> HIDE DEF asz, wsz, lsz
    <3>2. \/ Astray(rr.fs)
          \/ /\ rr.ret # "ok" /\ rr.buf = buf /\ rr.alen = r1.alen
             /\ Written(fs, rr.fs, f, buf, offset, rr.alen)
      BY <3>0, <3>1, <3>3, WriteWhole
    <3> QED
      BY <3>2 DEF rr
  <2> HIDE DEF r2
  <2>3. CASE Astray(r2.fs)
    BY <1>1, <2>3, StepAstray
  <2>4. CASE /\ r2.ret # "ok" /\ r2.buf = buf /\ r2.alen = r1.alen
             /\ Written(fs, r2.fs, f, buf, offset, r2.alen)
    <3>1. r = r2
      BY <1>1, <2>4, StepStays
    <3> HIDE DEF asz, wsz, lsz
    <3>2. r2.alen \in Nat /\ r2.alen <= n
      BY <1>4, <2>1, <2>4
    <3> QED
      BY <2>4, <3>1, <3>2 DEF Wrote, n
  <2> QED
    BY <2>2, <2>3, <2>4
<1>8. CASE wsz = 0 \/ r1.ret # "ok"
  <2>1. r2 = r1
    BY <1>8, StepStays
  <2> HIDE DEF r2
  <2>2. CASE wsz = 0
    <3>1. Wrote(fs, r, f, buf, offset, asz + lsz)
      <4>1. Wrote(fs, r2, f, buf, offset, asz)
        BY <1>6, <2>1
      <4>2. l.size # 0 => Lies(l) /\ Begins(l, offset + asz)
        BY <1>2, <2>2
      <4>3. Bytes(buf, asz + l.size)
        <5> DEFINE k == asz + lsz
        <5> HIDE DEF asz, wsz, lsz
        <5>1. k \in Nat /\ k <= n
          BY <1>4, <2>2
        <5> HIDE DEF k
        <5>2. Bytes(buf, k)
          BY <1>3, <5>1, BytesFewer
        <5> QED
          BY <5>2 DEF k, lsz
      <4>4. asz \in Nat /\ l.size \in Nat
        BY <1>2
      <4> HIDE DEF asz
      <4> QED
        BY <1>1, <4>1, <4>2, <4>3, <4>4, WriteStep
    <3> HIDE DEF asz, wsz, lsz
    <3>2. asz + lsz = n
      BY <1>4, <2>2
    <3> QED
      BY <3>1, <3>2 DEF n
  <2>3. CASE r1.ret # "ok"
    <3>1. r = r1
      BY <1>1, <2>1, <2>3, StepStays
    <3> DEFINE d == wsz + lsz
    <3>2. d \in Nat /\ asz + d = n
      BY <1>4
    <3> HIDE DEF d, asz
    <3>3. asz \in Nat
      BY <1>2 DEF asz
    <3>4. Wrote(fs, r1, f, buf, offset, asz + d)
      BY <1>6, <2>3, <3>2, <3>3, WroteMore
    <3> QED
      BY <3>1, <3>2, <3>4 DEF n
  <2> QED
    BY <1>8, <2>2, <2>3
<1> QED
  BY <1>7, <1>8

(* The size of a file is set.                                              *)
WithSize(fs, f, n) == [fs EXCEPT !.din[f].size = n]

Sized(fs, fs2, f, n) ==
  \A g \in File : fs2.din[g].size = IF g = f THEN n ELSE fs.din[g].size

LEMMA SizeAssigned ==
  ASSUME NEW fs, Sound(fs), NEW f \in File, NEW n \in Nat,
         NEW fs2, fs2 = WithSize(fs, f, n)
  PROVE  /\ Sound(fs2) /\ SameFlags(fs, fs2) /\ Sized(fs, fs2, f, n)
         /\ \A g \in File : \A pos \in Nat : At(fs2, g, pos) = At(fs, g, pos)
<1>0. fs \in FsSet
  BY DEF Sound
<1>1. fs2 \in FsSet
  BY <1>0, SetSize DEF WithSize
<1>2. /\ SameFlags(fs, fs2)
      /\ fs2.freemap = fs.freemap /\ fs2.unused_blocks = fs.unused_blocks
      /\ fs2.disk = fs.disk /\ fs2.din = [fs.din EXCEPT ![f].size = n]
  BY <1>0 DEF FsSet, SameFlags, WithSize
<1>3. \A g \in File : /\ fs2.din[g].size = (IF g = f THEN n ELSE fs.din[g].size)
                      /\ fs2.din[g].blocks = fs.din[g].blocks
                      /\ fs2.din[g].indirect = fs.din[g].indirect
                      /\ fs2.din[g].direct = fs.din[g].direct
  BY <1>0, <1>2, Fields DEF Din
<1>4. \A g \in File : \A i \in Place : Held(fs2, g, i) = Held(fs, g, i)
  BY <1>2, <1>3 DEF Held
<1>5. Sound(fs2)
  <2>1. Counted(fs2) /\ Fits(fs2)
    BY <1>2, <1>3 DEF Sound, Counted, Fits
  <2>2. Mapped(fs2) /\ Taken(fs2)
    BY <1>2, <1>3, <1>4, Places DEF Sound, Mapped, Taken
  <2>3. Unshared(fs2)
    BY <1>4 DEF Sound, Unshared
  <2>4. Kept(fs2)
    BY <1>2, <1>4 DEF Sound, Kept
  <2> QED
    BY <1>1, <2>1, <2>2, <2>3, <2>4 DEF Sound
<1>6. ASSUME NEW g \in File, NEW i \in Nat, NEW c \in Cell
      PROVE  Byte(fs2, g, i, c) = Byte(fs, g, i, c)
  <2>1. CASE i < fs.din[g].blocks
    <3>1. i \in Place
      <4>1. fs.din[g].blocks \in Idx
        BY BlocksFit
      <4> QED
        BY <2>1, <4>1, Places, Constants DEF Idx
    <3> QED
      BY <1>2, <1>3, <1>4, <2>1, <3>1 DEF Byte
  <2>2. CASE ~(i < fs.din[g].blocks)
    BY <1>3, <2>2 DEF Byte
  <2> QED
    BY <2>1, <2>2
<1>7. \A g \in File : \A pos \in Nat : At(fs2, g, pos) = At(fs, g, pos)
  BY <1>6, Division DEF At
<1> QED
  BY <1>2, <1>3, <1>5, <1>7 DEF Sized

LEMMA AstraySized ==
  ASSUME NEW fs, Astray(fs), NEW f, NEW n, NEW fs2, fs2 = WithSize(fs, f, n)
  PROVE  Astray(fs2)
<1> DEFINE d == [fs.din EXCEPT ![f].size = n]
<1>1. fs2 = [fs EXCEPT !.din = d]
  BY DEF WithSize
<1> HIDE DEF d
<1>2. Shaped(fs)
  BY DEF Astray
<1>3. From(fs, fs2)
  <2>1. From(fs, [fs EXCEPT !.din = d])
    BY <1>2, Assigned
  <2> QED
    BY <1>1, <2>1
<1> QED
  BY <1>3 DEF Astray, From

(* sfs_io_nolock of a write that has moved n bytes.                        *)
PutIo(fs, f, buf, offset, len) == sfs_io_nolock(fs, f, buf, offset, len, TRUE)
GetIo(fs, f, offset, len) == sfs_io_nolock(fs, f, <<>>, offset, len, FALSE)

LEMMA PutIoIs ==
  ASSUME NEW fs, NEW f, NEW buf, NEW offset \in Nat, NEW len \in Nat, len # 0,
         NEW start, start = Transfer(fs, "ok", buf, 0),
         NEW endpos, endpos = offset + len,
         NEW io, io = PutPieces(f, start, offset, endpos),
         NEW r, r = PutIo(fs, f, buf, offset, len)
  PROVE  r = IF offset + io.alen > fs.din[f].size
             THEN Transfer(WithSize(io.fs, f, offset + io.alen), io.ret, io.buf, io.alen) ELSE io
<1> DEFINE write == TRUE
<1>1. EndPos(fs, f, offset, len, write) = endpos
  BY DEF EndPos
<1>2. ~(endpos <= offset)
  OBVIOUS
<1>3. io = Pieces(write, f, start, offset, endpos) /\ r = sfs_io_nolock(fs, f, buf, offset, len, write)
  BY DEF PutPieces, PutIo
<1> HIDE DEF write
<1> QED
  BY <1>1, <1>2, <1>3 DEF sfs_io_nolock, WithSize

Put1(fs, fs2, f, buf, offset, n) ==
  /\ Sound(fs2) /\ SameFlags(fs, fs2)
  /\ Sized(fs, fs2, f, IF offset + n > fs.din[f].size THEN offset + n ELSE fs.din[f].size)
  /\ \A g \in File : \A pos \in Nat :
       At(fs2, g, pos) = IF g = f /\ pos \in offset..offset + n - 1 THEN buf[pos - offset + 1]
                         ELSE At(fs, g, pos)

LEMMA WriteDone ==
  ASSUME NEW fs, Sound(fs), NEW f \in File, NEW buf, NEW offset \in Nat, NEW len \in Nat, len # 0,
         Bytes(buf, len), NEW r, r = PutIo(fs, f, buf, offset, len)
  PROVE  \/ Astray(r.fs)
         \/ \E n \in 0..len : (r.ret = "ok" => n = len) /\ Put1(fs, r.fs, f, buf, offset, n)
<1> DEFINE start == Transfer(fs, "ok", buf, 0)
           endpos == offset + len
           io == PutPieces(f, start, offset, endpos)
           n == io.alen
           fs2 == WithSize(io.fs, f, offset + n)
<1>1. r = IF offset + n > fs.din[f].size THEN Transfer(fs2, io.ret, io.buf, n) ELSE io
  <2> HIDE DEF start, endpos, io
  <2>1. start = Transfer(fs, "ok", buf, 0) /\ endpos = offset + len /\ io = PutPieces(f, start, offset, endpos)
    BY DEF start, endpos, io
  <2> QED
    BY <2>1, PutIoIs
<1>2. \/ Astray(io.fs)
      \/ Wrote(fs, io, f, buf, offset, len)
  <2>1. offset < endpos /\ endpos \in Nat /\ endpos - offset = len /\ start = Transfer(fs, "ok", buf, 0)
    OBVIOUS
  <2> DEFINE k == endpos - offset
  <2>2. k = len /\ Bytes(buf, k)
    BY <2>1
  <2>3. io = PutPieces(f, start, offset, endpos)
    OBVIOUS
  <2> HIDE DEF start, endpos, io
  <2>4. Bytes(buf, endpos - offset)
    BY <2>2
  <2> HIDE DEF k
  <2>5. Astray(io.fs) \/ Wrote(fs, io, f, buf, offset, endpos - offset)
    BY <2>1, <2>3, <2>4, WritePieces
  <2> QED
    BY <2>1, <2>5
<1> HIDE DEF start, io
<1>3. /\ offset + n > fs.din[f].size => r.fs = fs2 /\ r.ret = io.ret
      /\ ~(offset + n > fs.din[f].size) => r = io
  <2>1. ASSUME offset + n > fs.din[f].size PROVE r.fs = fs2 /\ r.ret = io.ret
    <3>1. r = Transfer(fs2, io.ret, io.buf, n)
      BY <1>1, <2>1
    <3> DEFINE t == io.ret
               b == io.buf
    <3> HIDE DEF fs2, t, b, n
    <3>2. Is(r, fs2, t, b, n)
      BY <3>1, IsTransfer DEF t, b
    <3> QED
      BY <3>2 DEF Is, t
  <2> QED
    BY <1>1, <2>1
<1>4. CASE Astray(io.fs)
  <2>1. Astray(fs2)
    <3> DEFINE m == offset + n
    <3> HIDE DEF m
    <3>1. fs2 = WithSize(io.fs, f, m)
      BY DEF m
    <3> HIDE DEF fs2
    <3> QED
      BY <1>4, <3>1, AstraySized
  <2> HIDE DEF fs2
  <2> QED
    BY <1>3, <1>4, <2>1
<1>5. CASE Wrote(fs, io, f, buf, offset, len)
  <2>1. /\ n \in 0..len
        /\ io.ret = "ok" => n = len
        /\ Written(fs, io.fs, f, buf, offset, n)
    BY <1>5 DEF Wrote
  <2>2. Sound(io.fs) /\ \A g \in File : io.fs.din[g].size = fs.din[g].size
    BY <2>1 DEF Written
  <2>3. CASE offset + n > fs.din[f].size
    <3> DEFINE m == offset + n
    <3>1. m \in Nat
      BY <2>1
    <3> HIDE DEF m
    <3>2. fs2 = WithSize(io.fs, f, m)
      BY DEF m
    <3> HIDE DEF fs2
    <3>3. /\ Sound(fs2) /\ SameFlags(io.fs, fs2) /\ Sized(io.fs, fs2, f, m)
          /\ \A g \in File : \A pos \in Nat : At(fs2, g, pos) = At(io.fs, g, pos)
      BY <2>2, <3>1, <3>2, SizeAssigned
    <3>4. SameFlags(fs, fs2)
      BY <2>1, <3>3 DEF SameFlags, Written
    <3>5. Sized(fs, fs2, f, m)
      BY <2>2, <3>3 DEF Sized
    <3>6. \A g \in File : \A pos \in Nat :
            At(fs2, g, pos) = IF g = f /\ pos \in offset..offset + n - 1 THEN buf[pos - offset + 1]
                              ELSE At(fs, g, pos)
      BY <2>1, <3>3 DEF Written
    <3>7. Put1(fs, fs2, f, buf, offset, n)
      BY <2>3, <3>3, <3>4, <3>5, <3>6 DEF Put1, m
    <3>8. r.fs = fs2 /\ r.ret = io.ret
      BY <1>3, <2>3
    <3> HIDE DEF n
    <3> QED
      BY <2>1, <3>7, <3>8
  <2>4. CASE ~(offset + n > fs.din[f].size)
    <3> DEFINE s == IF offset + n > fs.din[f].size THEN offset + n ELSE fs.din[f].size
    <3>1. s = fs.din[f].size
      BY <2>4
    <3>2. Sized(fs, io.fs, f, s)
      BY <2>2, <3>1 DEF Sized
    <3>3. Put1(fs, io.fs, f, buf, offset, n)
      BY <2>1, <3>2 DEF Put1, Written
    <3>4. r = io
      BY <1>3, <2>4
    <3> HIDE DEF n
    <3> QED
      BY <2>1, <3>3, <3>4
  <2> QED
    BY <2>3, <2>4
<1> QED
  BY <1>2, <1>4, <1>5

(* A read.                                                                 *)
LEMMA Concatenated ==
  ASSUME NEW n \in Nat, NEW m \in Nat, NEW h \in [1..n + m -> Int],
         NEW s, s = [k \in 1..n |-> h[k]], NEW t, t = [k \in 1..m |-> h[n + k]]
  PROVE  s \o t = h
<1>1. s \in Seq(Int) /\ Len(s) = n
  <2>1. \A k \in 1..n : s[k] \in Int
    OBVIOUS
  <2>2. s \in [1..n -> Int]
    BY <2>1
  <2> QED
    BY <2>2
<1>2. t \in Seq(Int) /\ Len(t) = m
  <2>1. \A k \in 1..m : t[k] \in Int
    OBVIOUS
  <2>2. t \in [1..m -> Int]
    BY <2>1
  <2> QED
    BY <2>2
<1>3. h \in Seq(Int) /\ Len(h) = n + m
  OBVIOUS
<1>4. /\ s \o t \in Seq(Int) /\ Len(s \o t) = n + m
      /\ \A k \in 1..n + m : (s \o t)[k] = IF k <= n THEN s[k] ELSE t[k - n]
  BY <1>1, <1>2
<1>5. \A k \in 1..n + m : (s \o t)[k] = h[k]
  <2> SUFFICES ASSUME NEW k \in 1..n + m PROVE (s \o t)[k] = h[k]
    OBVIOUS
  <2>1. CASE k <= n
    BY <1>4, <2>1
  <2>2. CASE ~(k <= n)
    <3>1. k - n \in 1..m /\ n + (k - n) = k
      BY <2>2
    <3>2. t[k - n] = h[n + (k - n)]
      BY <3>1
    <3> QED
      BY <1>4, <2>2, <3>1, <3>2
  <2> QED
    BY <2>1, <2>2
<1> QED
  BY <1>3, <1>4, <1>5, SeqEqual

(* The bytes of a file are numbers.                                        *)
LEMMA AtInt ==
  ASSUME NEW fs, Sound(fs), NEW f \in File, NEW pos \in Nat
  PROVE  At(fs, f, pos) \in Int
<1> DEFINE i == pos \div BLKSIZE
           c == pos % BLKSIZE
<1>1. i \in Nat /\ c \in Cell
  BY Division
<1> HIDE DEF i, c
<1>2. Byte(fs, f, i, c) \in Int
  <2>1. CASE i < fs.din[f].blocks
    <3>1. i \in Idx /\ i \in Place
      <4>1. fs.din[f].blocks \in Idx
        BY BlocksFit
      <4> QED
        BY <1>1, <2>1, <4>1, Places, Constants DEF Idx
    <3>2. Held(fs, f, i) \in Blk
      BY <2>1, <3>1, Constants DEF Sound, Mapped, Taken
    <3>3. fs.disk \in [Blk -> [Cell -> Int]]
      BY Fields DEF Sound
    <3> QED
      BY <1>1, <2>1, <3>2, <3>3 DEF Byte
  <2>2. CASE ~(i < fs.din[f].blocks)
    BY <2>2 DEF Byte
  <2> QED
    BY <2>1, <2>2
<1> QED
  BY <1>2 DEF At, i, c

(* sfs_rbuf.                                                               *)
LEMMA GetBytes ==
  ASSUME NEW fs, NEW f \in File, NEW p, Lies(p), p.blk < fs.din[f].blocks,
         NEW ino, ino = Held(fs, f, p.blk), NEW at, Begins(p, at),
         NEW k \in 1..p.size
  PROVE  Get(fs, ino, p)[k] = At(fs, f, at + k - 1)
<1> DEFINE pos == at + k - 1
           c == p.from + k - 1
           blk == p.blk
<1>1. blk \in Nat /\ p.from \in Cell /\ p.size \in Nat /\ p.from + p.size <= BLKSIZE /\ k \in 1..p.size
  BY DEF Lies
<1>2. c \in Cell
  BY <1>1, Constants DEF Cell
<1>3. pos = BLKSIZE * blk + c /\ pos \in Nat
  <2> DEFINE base == BLKSIZE * blk
  <2>1. base \in Nat /\ at = base + p.from /\ p.from \in Nat
    BY <1>1, Constants DEF Begins, Cell
  <2> HIDE DEF base
  <2>2. pos = base + c /\ pos \in Nat
    BY <1>1, <2>1
  <2> QED
    BY <2>2 DEF base
<1>4. Get(fs, ino, p)[k] = fs.disk[ino][c]
  BY DEF Get
<1> HIDE DEF pos, c
<1>5. pos \div BLKSIZE = blk /\ pos % BLKSIZE = c
  <2> HIDE DEF blk
  <2> QED
    BY <1>1, <1>2, <1>3, Quotient
<1>6. At(fs, f, pos) = fs.disk[Held(fs, f, blk)][c]
  BY <1>5 DEF At, Byte
<1> QED
  BY <1>4, <1>6 DEF pos

(* A read that has come to position offset + n of file f, or has failed.   *)
ReadSoFar(fs, f, offset, n) == [k \in 1..n |-> At(fs, f, offset + k - 1)]

HasRead(fs0, io, f, offset, n) ==
  /\ Sound(io.fs) /\ Same(fs0, io.fs) /\ io.alen \in Nat /\ io.alen <= n
  /\ io.ret = "ok" => io.alen = n

LEMMA SameTwice ==
  ASSUME NEW fs0, NEW fs, NEW fs2, Same(fs0, fs), Same(fs, fs2)
  PROVE  Same(fs0, fs2)
BY DEF Same, SameFlags

LEMMA HasReadMore ==
  ASSUME NEW fs0, NEW io, NEW f, NEW offset, NEW n \in Nat, NEW m \in Nat, n <= m,
         HasRead(fs0, io, f, offset, n), io.ret # "ok" \/ n = m
  PROVE  HasRead(fs0, io, f, offset, m)
BY DEF HasRead

Reads(r, f, io, p) == r = GetStep(f, io, p) \/ r = GetWholeStep(f, io, p)

LEMMA ReadStep ==
  ASSUME NEW fs0, NEW io, NEW f \in File, NEW offset \in Nat, NEW n \in Nat,
         HasRead(fs0, io, f, offset, n), NEW p, p.size \in Nat, p.blk \in Nat,
         NEW m, m = n + p.size, NEW r, Reads(r, f, io, p)
  PROVE  HasRead(fs0, r, f, offset, m) /\ (io.ret # "ok" \/ p.size = 0 => r = io)
<1> DEFINE load == sfs_bmap_load_nolock(io.fs, f, p.blk)
           size == p.size
           a == io.alen + size
<1>0. m \in Nat /\ n <= m
  OBVIOUS
<1>1. CASE size = 0 \/ io.ret # "ok"
  <2>1. r = io
    BY <1>1, StepStays DEF Reads
  <2>2. io.ret # "ok" \/ n = m
    BY <1>1
  <2>3. HasRead(fs0, io, f, offset, m)
    BY <1>0, <2>2, HasReadMore
  <2> QED
    BY <2>1, <2>3
<1>2. CASE size # 0 /\ io.ret = "ok"
  <2>1. /\ load.ret # "ok" => Is(r, load.fs, load.ret, io.buf, io.alen)
        /\ load.ret = "ok" => \/ Is(r, load.fs, "panic", io.buf, io.alen)
                              \/ \E buf : Is(r, load.fs, "ok", buf, a)
    <3>1. CASE r = GetStep(f, io, p)
      <4>1. /\ load.ret # "ok" => Is(r, load.fs, load.ret, io.buf, io.alen)
            /\ load.ret = "ok" => Is(r, load.fs, "ok", io.buf \o Get(load.fs, load.ino, p), a)
        BY <1>2, <3>1, StepGet
      <4> QED
        BY <4>1
    <3>2. CASE r = GetWholeStep(f, io, p)
      <4>1. /\ load.ret # "ok" => Is(r, load.fs, load.ret, io.buf, io.alen)
            /\ load.ret = "ok" /\ p.blk = 0 => Is(r, load.fs, "panic", io.buf, io.alen)
            /\ load.ret = "ok" /\ p.blk # 0 => Is(r, load.fs, "ok", io.buf \o GetWhole(load.fs, p), a)
        BY <1>2, <3>2, StepGetWhole
      <4> QED
        BY <4>1
    <3> QED
      BY <3>1, <3>2 DEF Reads
  <2>2. Sound(load.fs) /\ Same(io.fs, load.fs)
    BY Load DEF HasRead
  <2> HIDE DEF load, a
  <2>3. Same(fs0, load.fs)
    BY <2>2, SameTwice DEF HasRead
  <2>4. io.alen = n /\ a = m
    BY <1>2 DEF HasRead, a
  <2>5. r.fs = load.fs /\ r.alen \in Nat /\ r.alen <= m /\ (r.ret = "ok" => r.alen = m)
    BY <1>0, <2>1, <2>4 DEF Is
  <2> QED
    BY <1>2, <2>2, <2>3, <2>5 DEF HasRead
<1> QED
  BY <1>1, <1>2

LEMMA ReadPiece ==
  ASSUME NEW fs0, Sound(fs0), NEW io, NEW f \in File, NEW offset \in Nat, NEW n \in Nat,
         HasRead(fs0, io, f, offset, n), io.ret = "ok", io.buf = ReadSoFar(fs0, f, offset, n),
         NEW p, Lies(p), NEW at, at = offset + n, Begins(p, at),
         NEW m, m = n + p.size, NEW r, r = GetStep(f, io, p), r.ret = "ok"
  PROVE  r.buf = ReadSoFar(fs0, f, offset, m)
<1> DEFINE load == sfs_bmap_load_nolock(io.fs, f, p.blk)
           size == p.size
           s == io.buf
           t == Get(load.fs, load.ino, p)
           h == ReadSoFar(fs0, f, offset, m)
<1>0. p.blk \in Nat /\ size \in Nat /\ size # 0
  BY DEF Lies
<1>1. /\ load.ret # "ok" => Is(r, load.fs, load.ret, io.buf, io.alen)
      /\ load.ret = "ok" => Is(r, load.fs, "ok", s \o t, io.alen + p.size)
  BY <1>0, StepGet
<1>2. /\ Sound(load.fs) /\ Same(io.fs, load.fs)
      /\ load.ret = "ok" => /\ p.blk < load.fs.din[f].blocks
                            /\ load.ino = Held(load.fs, f, p.blk)
  BY <1>0, Load DEF HasRead
<1> DEFINE fs == load.fs
           ino == load.ino
<1>3. load.ret = "ok" /\ r.buf = s \o t
  <2> HIDE DEF load, s, t
  <2> QED
    BY <1>1 DEF Is
<1>4. Sound(fs) /\ Same(io.fs, fs) /\ p.blk < fs.din[f].blocks /\ ino = Held(fs, f, p.blk)
  BY <1>2, <1>3
<1> HIDE DEF load
<1>5. Same(fs0, fs)
  BY <1>4, SameTwice DEF HasRead
<1>6. \A pos \in Nat : At(fs, f, pos) = At(fs0, f, pos)
  BY <1>5, SameAt
<1>7. ASSUME NEW k \in 1..size PROVE t[k] = At(fs0, f, at + k - 1)
  <2>1. Get(fs, ino, p)[k] = At(fs, f, at + k - 1)
    <3> HIDE DEF fs, ino
    <3> QED
      BY <1>4, GetBytes
  <2>2. at + k - 1 \in Nat
    BY <1>0
  <2> QED
    BY <1>6, <2>1, <2>2
<1>8. h \in [1..m -> Int]
  <2> SUFFICES ASSUME NEW k \in 1..m PROVE At(fs0, f, offset + k - 1) \in Int
    BY DEF ReadSoFar
  <2> DEFINE pos == offset + k - 1
  <2>1. pos \in Nat
    BY <1>0
  <2> HIDE DEF pos
  <2>2. At(fs0, f, pos) \in Int
    BY <2>1, AtInt
  <2> QED
    BY <2>2 DEF pos
<1>9. s = [k \in 1..n |-> h[k]]
  <2>1. \A k \in 1..n : k \in 1..m /\ h[k] = At(fs0, f, offset + k - 1)
    BY <1>0 DEF ReadSoFar
  <2>2. s = [k \in 1..n |-> At(fs0, f, offset + k - 1)]
    BY DEF ReadSoFar
  <2> HIDE DEF h, s
  <2> QED
    BY <2>1, <2>2
<1>10. t = [k \in 1..size |-> h[n + k]]
  <2>1. \A k \in 1..size : t[k] = h[n + k]
    <3> SUFFICES ASSUME NEW k \in 1..size PROVE t[k] = h[n + k]
      OBVIOUS
    <3>1. n + k \in 1..m /\ offset + (n + k) - 1 = at + k - 1
      BY <1>0
    <3>2. h[n + k] = At(fs0, f, offset + (n + k) - 1)
      BY <3>1 DEF ReadSoFar
    <3> QED
      BY <1>7, <3>1, <3>2
  <2>2. t = [k \in 1..size |-> t[k]]
    BY DEF Get
  <2> HIDE DEF t, h
  <2> QED
    BY <2>1, <2>2
<1>11. m = n + size
  OBVIOUS
<1> HIDE DEF s, t, h, size
<1>12. s \o t = h
  <2>1. h \in [1..n + size -> Int] /\ size \in Nat
    BY <1>0, <1>8, <1>11
  <2> QED
    BY <1>9, <1>10, <2>1, Concatenated
<1> QED
  BY <1>3, <1>12 DEF h

LEMMA ReadNothing == ASSUME NEW fs, NEW f, NEW offset PROVE ReadSoFar(fs, f, offset, 0) = << >>
BY DEF ReadSoFar

LEMMA ReadPieces ==
  ASSUME NEW fs, Sound(fs), NEW f \in File, NEW offset \in Nat, NEW endpos \in Nat, offset < endpos,
         NEW start, start = Transfer(fs, "ok", << >>, 0), NEW n, n = endpos - offset,
         NEW r, r = GetPieces(f, start, offset, endpos)
  PROVE  /\ HasRead(fs, r, f, offset, n)
         /\ r.ret = "ok" /\ Whole(offset, endpos).size = 0 => r.buf = ReadSoFar(fs, f, offset, n)
<1> DEFINE a == First(offset, endpos)
           w == Whole(offset, endpos)
           l == Last(offset, endpos)
           r1 == GetStep(f, start, a)
           r2 == GetWholeStep(f, r1, w)
           asz == a.size
           wsz == w.size
           lsz == l.size
           n2 == asz + wsz
<1>1. r = GetStep(f, r2, l)
  BY DEF GetPieces, Pieces, GetStep, GetWholeStep
<1>2. /\ asz # 0 => Lies(a) /\ Begins(a, offset)
      /\ lsz # 0 => Lies(l)
      /\ lsz # 0 /\ wsz = 0 => Begins(l, offset + asz)
      /\ asz \in Nat /\ wsz \in Nat /\ lsz \in Nat
      /\ a.blk \in Nat /\ w.blk \in Nat /\ l.blk \in Nat
      /\ asz + wsz + lsz = endpos - offset
  BY PiecesFit
<1> HIDE DEF a, w, l
<1>3. asz \in Nat /\ wsz \in Nat /\ lsz \in Nat /\ n2 \in Nat /\ n2 + lsz = n
  BY <1>2
<1>4. Is(start, fs, "ok", << >>, 0)
  BY IsTransfer
<1>5. PICK z \in Nat : z = 0
  OBVIOUS
<1>6. HasRead(fs, start, f, offset, z) /\ start.buf = ReadSoFar(fs, f, offset, z) /\ start.ret = "ok"
  <2>1. Same(fs, fs)
    BY DEF Same, SameFlags
  <2> QED
    BY <1>4, <1>5, <2>1, ReadNothing DEF Is, HasRead
<1>7. HasRead(fs, r1, f, offset, asz) /\ (a.size = 0 => r1 = start)
  <2>1. asz = z + a.size
    BY <1>3, <1>5
  <2> DEFINE m == asz
             rr == r1
  <2>2. m = z + a.size /\ Reads(rr, f, start, a) /\ a.size \in Nat /\ a.blk \in Nat
    BY <1>2, <2>1 DEF Reads
  <2> HIDE DEF m, rr, r1
  <2>3. HasRead(fs, rr, f, offset, m) /\ (a.size = 0 => rr = start)
    BY <1>6, <2>2, ReadStep
  <2> QED
    BY <2>3 DEF m, rr
<1>8. r1.ret = "ok" => r1.buf = ReadSoFar(fs, f, offset, asz)
  <2> SUFFICES ASSUME r1.ret = "ok" PROVE r1.buf = ReadSoFar(fs, f, offset, asz)
    OBVIOUS
  <2>1. CASE asz = 0
    BY <1>5, <1>6, <1>7, <2>1
  <2>2. CASE asz # 0
    <3> DEFINE m == asz
               rr == r1
    <3>1. m = z + a.size /\ rr = GetStep(f, start, a) /\ rr.ret = "ok"
      BY <1>3, <1>5
    <3>2. Lies(a) /\ Begins(a, offset) /\ offset = offset + z
      BY <1>2, <1>5, <2>2
    <3> HIDE DEF m, rr, r1
    <3>3. rr.buf = ReadSoFar(fs, f, offset, m)
      BY <1>6, <3>1, <3>2, ReadPiece
    <3> QED
      BY <3>3 DEF m, rr
  <2> QED
    BY <2>1, <2>2
<1>9. HasRead(fs, r2, f, offset, n2) /\ (r1.ret # "ok" \/ w.size = 0 => r2 = r1)
  <2> DEFINE k == asz
             rr == r2
  <2>1. n2 = k + w.size /\ Reads(rr, f, r1, w) /\ w.size \in Nat /\ w.blk \in Nat
        /\ k \in Nat /\ HasRead(fs, r1, f, offset, k)
    BY <1>2, <1>7 DEF Reads
  <2> HIDE DEF k, rr, r1, r2, n2
  <2>2. HasRead(fs, rr, f, offset, n2) /\ (r1.ret # "ok" \/ w.size = 0 => rr = r1)
    BY <2>1, ReadStep
  <2> QED
    BY <2>2 DEF rr
<1> HIDE DEF r1, r2
<1>10. HasRead(fs, r, f, offset, n) /\ (r2.ret # "ok" \/ l.size = 0 => r = r2)
  <2>1. n = n2 + l.size /\ l.size \in Nat /\ l.blk \in Nat /\ n2 \in Nat /\ Reads(r, f, r2, l)
    BY <1>1, <1>2, <1>3 DEF Reads
  <2> HIDE DEF n2
  <2> QED
    BY <1>9, <2>1, ReadStep
<1>11. ASSUME r.ret = "ok", wsz = 0 PROVE r.buf = ReadSoFar(fs, f, offset, n)
  <2>1. r2.ret = "ok" /\ r2 = r1 /\ r1.ret = "ok"
    BY <1>9, <1>10, <1>11
  <2>2. n2 = asz
    BY <1>3, <1>11
  <2>3. r2.buf = ReadSoFar(fs, f, offset, n2) /\ HasRead(fs, r2, f, offset, n2)
    BY <1>8, <1>9, <2>1, <2>2
  <2>4. CASE lsz = 0
    <3>1. n = n2
      BY <1>3, <2>4
    <3> QED
      BY <1>10, <2>3, <2>4, <3>1
  <2>5. CASE lsz # 0
    <3> DEFINE at == offset + n2
    <3>1. Lies(l) /\ Begins(l, at) /\ n = n2 + l.size /\ n2 \in Nat
      BY <1>2, <1>3, <1>11, <2>2, <2>5
    <3>2. at = offset + n2
      OBVIOUS
    <3> HIDE DEF at, n2
    <3> QED
      BY <1>1, <1>11, <2>1, <2>3, <3>1, <3>2, ReadPiece
  <2> QED
    BY <2>4, <2>5
<1> QED
  BY <1>10, <1>11 DEF w, wsz

(* sfs_io_nolock of a read.                                                *)
GetEnd(fs, f, offset, len) == EndPos(fs, f, offset, len, FALSE)

LEMMA GetEndIs ==
  ASSUME NEW fs, Sound(fs), NEW f \in File, NEW offset \in Nat, NEW len \in Nat,
         NEW e, e = GetEnd(fs, f, offset, len)
  PROVE  /\ e \in Nat /\ e <= fs.din[f].size
         /\ e = IF offset + len < fs.din[f].size THEN offset + len ELSE fs.din[f].size
<1>1. fs.din[f].size \in Nat
  BY Fields DEF Sound
<1>2. e = IF offset + len < fs.din[f].size THEN offset + len ELSE fs.din[f].size
  BY DEF GetEnd, EndPos
<1> QED
  BY <1>1, <1>2

LEMMA ReadDone ==
  ASSUME NEW fs, Sound(fs), NEW f \in File, NEW offset \in Nat, NEW len \in Nat,
         NEW e, e = GetEnd(fs, f, offset, len),
         NEW r, r = GetIo(fs, f, offset, len)
  PROVE  /\ Sound(r.fs) /\ Same(fs, r.fs)
         /\ offset < e /\ r.ret = "ok" /\ Whole(offset, e).size = 0
              => r.buf = ReadSoFar(fs, f, offset, e - offset)
<1> DEFINE start == Transfer(fs, "ok", << >>, 0)
           io == GetPieces(f, start, offset, e)
           write == FALSE
           n == e - offset
<1>1. e \in Nat /\ e <= fs.din[f].size /\ fs.din[f].size \in Nat
  BY GetEndIs, Fields DEF Sound
<1>2. r = sfs_io_nolock(fs, f, << >>, offset, len, write) /\ e = EndPos(fs, f, offset, len, write)
      /\ io = Pieces(write, f, start, offset, e)
  BY DEF GetIo, GetEnd, GetPieces
<1> HIDE DEF write
<1>3. CASE e <= offset
  <2>1. r = start
    BY <1>2, <1>3 DEF sfs_io_nolock
  <2>2. r.fs = fs
    BY <2>1, IsTransfer DEF Is
  <2>3. Same(fs, fs)
    BY DEF Same, SameFlags
  <2> QED
    BY <1>1, <1>3, <2>2, <2>3
<1>4. CASE ~(e <= offset)
  <2>1. offset < e /\ start = Transfer(fs, "ok", << >>, 0) /\ n = e - offset
    BY <1>1, <1>4
  <2>2. n \in Nat
    BY <1>1, <2>1
  <2>3. /\ HasRead(fs, io, f, offset, n)
        /\ io.ret = "ok" /\ Whole(offset, e).size = 0 => io.buf = ReadSoFar(fs, f, offset, n)
    <3> DEFINE i == io
    <3>1. i = GetPieces(f, start, offset, e)
      OBVIOUS
    <3> HIDE DEF i, io, start, n
    <3>2. /\ HasRead(fs, i, f, offset, n)
          /\ i.ret = "ok" /\ Whole(offset, e).size = 0 => i.buf = ReadSoFar(fs, f, offset, n)
      BY <1>1, <2>1, <3>1, ReadPieces
    <3> QED
      BY <3>2 DEF i
  <2>4. ~(offset + io.alen > fs.din[f].size)
    <3>1. io.alen \in Nat /\ io.alen <= n
      BY <2>3 DEF HasRead
    <3> HIDE DEF io
    <3> QED
      BY <1>1, <3>1
  <2>5. r = io
    <3> HIDE DEF io
    <3> DEFINE S(x) == IF offset + x.alen > fs.din[f].size
                       THEN Transfer([x.fs EXCEPT !.din[f].size = offset + x.alen], x.ret, x.buf, x.alen)
                       ELSE x
    <3>1. r = S(Pieces(write, f, start, offset, e))
      <4> HIDE DEF S, start
      <4> QED
        BY <1>2, <1>4 DEF sfs_io_nolock, S, start
    <3>2. r = S(io)
      BY <1>2, <3>1
    <3> QED
      BY <2>4, <3>2
  <2> HIDE DEF io, n
  <2> QED
    BY <2>3, <2>5 DEF HasRead, n
<1> QED
  BY <1>3, <1>4

-----------------------------------------------------------------------------
(* The loops of sfs_truncfile: the recursion of Resized defines a function.*)
Turn(res, f, nblks, tblks, k) ==
  Round(res, f, IF nblks < tblks THEN nblks + k - 1 ELSE nblks - k, tblks)

IsRounds(w, fs, f, nblks, tblks, n) ==
  w = [k \in 0..n |-> IF k = 0 THEN Found(fs, 0) ELSE Turn(w[k - 1], f, nblks, tblks, k)]

LEMMA RoundsExist ==
  ASSUME NEW fs, NEW f, NEW nblks, NEW tblks, NEW n \in Nat
  PROVE  \E w : IsRounds(w, fs, f, nblks, tblks, n)
<1> DEFINE S == {i \in Nat : \E w : IsRounds(w, fs, f, nblks, tblks, i)}
<1>1. 0 \in S
  <2> DEFINE w == [k \in 0..0 |-> Found(fs, 0)]
  <2>1. IsRounds(w, fs, f, nblks, tblks, 0)
    BY DEF IsRounds
  <2> QED
    BY <2>1
<1>2. ASSUME NEW i \in Nat, i \in S PROVE i + 1 \in S
  <2>1. PICK w : IsRounds(w, fs, f, nblks, tblks, i)
    BY <1>2
  <2> DEFINE e == Turn(w[i], f, nblks, tblks, i + 1)
             g == [j \in 0..i + 1 |-> IF j = i + 1 THEN e ELSE w[j]]
             h == [j \in 0..i + 1 |-> IF j = 0 THEN Found(fs, 0)
                                      ELSE Turn(g[j - 1], f, nblks, tblks, j)]
  <2>2. \A j \in 0..i : w[j] = IF j = 0 THEN Found(fs, 0) ELSE Turn(w[j - 1], f, nblks, tblks, j)
    BY <2>1 DEF IsRounds
  <2>3. ASSUME NEW j \in 0..i + 1 PROVE g[j] = h[j]
    <3>1. CASE j = 0
      BY <2>2, <3>1
    <3>2. CASE j \in 1..i
      <4>1. j \in 0..i /\ j # i + 1 /\ j - 1 \in 0..i + 1 /\ j - 1 # i + 1 /\ j # 0
        BY <3>2
      <4>2. g[j] = w[j] /\ g[j - 1] = w[j - 1]
        BY <4>1
      <4> QED
        BY <2>2, <4>1, <4>2
    <3>3. CASE j = i + 1
      <4>1. g[j] = e /\ j - 1 = i /\ g[i] = w[i] /\ j # 0
        BY <3>3
      <4> QED
        BY <3>3, <4>1
    <3> QED
      BY <3>1, <3>2, <3>3
  <2>4. g = h
    BY <2>3
  <2>5. IsRounds(g, fs, f, nblks, tblks, i + 1)
    BY <2>4 DEF IsRounds
  <2> QED
    BY <2>5
<1>3. Nat \subseteq S
  <2> HIDE DEF S
  <2> QED
    BY <1>1, <1>2, SetInduction
<1> QED
  BY <1>3

LEMMA ResizedIs ==
  ASSUME NEW fs, NEW f, NEW nblks \in Nat, NEW tblks \in Nat,
         NEW n, n = IF nblks < tblks THEN tblks - nblks ELSE nblks - tblks
  PROVE  \E w : IsRounds(w, fs, f, nblks, tblks, n) /\ Resized(fs, f, nblks, tblks) = w[n]
<1>1. n \in Nat
  OBVIOUS
<1> DEFINE w == CHOOSE v : IsRounds(v, fs, f, nblks, tblks, n)
<1>2. IsRounds(w, fs, f, nblks, tblks, n)
  BY <1>1, RoundsExist
<1>3. Resized(fs, f, nblks, tblks) = w[n]
  BY DEF Resized, IsRounds, Turn
<1> QED
  BY <1>2, <1>3

(* Growing by one block after the other.                                   *)
Grown(fs0, res, f, m) ==
  /\ Sound(res.fs) /\ Same(fs0, res.fs)
  /\ res.ret = "ok" => res.fs.din[f].blocks = m

LEMMA GrownMore ==
  ASSUME NEW fs0, NEW res, NEW f \in File, NEW index \in Nat, NEW tblks \in Nat, index < tblks,
         Grown(fs0, res, f, index), NEW r, r = Round(res, f, index, tblks),
         NEW m, m = index + 1
  PROVE  Grown(fs0, r, f, m)
<1>1. CASE res.ret = "ok"
  <2> DEFINE load == sfs_bmap_load_nolock(res.fs, f, index)
  <2>1. r = load
    <3>1. r = Then(res, LAMBDA x : IF index < tblks THEN sfs_bmap_load_nolock(x.fs, f, index)
                                   ELSE sfs_bmap_truncate_nolock(x.fs, f))
      BY DEF Round
    <3> QED
      BY <1>1, <3>1 DEF Then
  <2>2. /\ Sound(load.fs) /\ Same(res.fs, load.fs)
        /\ load.ret = "ok" => load.fs.din[f].blocks = IF index = res.fs.din[f].blocks THEN index + 1
                                                      ELSE res.fs.din[f].blocks
    BY Load DEF Grown
  <2>3. Same(fs0, load.fs)
    BY <2>2, SameTwice DEF Grown
  <2> HIDE DEF load
  <2> QED
    BY <1>1, <2>1, <2>2, <2>3 DEF Grown
<1>2. CASE res.ret # "ok"
  <2>1. r = res
    <3>1. r = Then(res, LAMBDA x : IF index < tblks THEN sfs_bmap_load_nolock(x.fs, f, index)
                                   ELSE sfs_bmap_truncate_nolock(x.fs, f))
      BY DEF Round
    <3> QED
      BY <1>2, <3>1 DEF Then
  <2> QED
    BY <1>2, <2>1 DEF Grown
<1> QED
  BY <1>1, <1>2

LEMMA Grows ==
  ASSUME NEW fs, Sound(fs), NEW f \in File, NEW nblks, nblks = fs.din[f].blocks,
         NEW tblks \in Nat, nblks < tblks, NEW res, res = Resized(fs, f, nblks, tblks)
  PROVE  Grown(fs, res, f, tblks)
<1>0. nblks \in Nat
  BY Fields DEF Sound
<1> DEFINE n == tblks - nblks
<1>1. PICK w : IsRounds(w, fs, f, nblks, tblks, n) /\ res = w[n]
  <2>1. n = IF nblks < tblks THEN tblks - nblks ELSE nblks - tblks
    OBVIOUS
  <2> HIDE DEF n
  <2> QED
    BY <1>0, <2>1, ResizedIs
<1>2. \A k \in 0..n : w[k] = IF k = 0 THEN Found(fs, 0) ELSE Turn(w[k - 1], f, nblks, tblks, k)
  BY <1>1 DEF IsRounds
<1> DEFINE S == {k \in Nat : k <= n => Grown(fs, w[k], f, nblks + k)}
<1>3. 0 \in S
  <2>1. n \in Nat
    BY <1>0
  <2>2. w[0] = Found(fs, 0)
    BY <1>2, <2>1
  <2>3. Same(fs, fs)
    BY DEF Same, SameFlags
  <2>4. nblks + 0 = nblks
    BY <1>0
  <2>5. Grown(fs, w[0], f, nblks)
    BY <2>2, <2>3 DEF Grown, Found
  <2> QED
    BY <2>4, <2>5
<1>4. ASSUME NEW k \in Nat, k \in S PROVE k + 1 \in S
  <2> SUFFICES ASSUME k + 1 <= n PROVE Grown(fs, w[k + 1], f, nblks + (k + 1))
    OBVIOUS
  <2>1. Grown(fs, w[k], f, nblks + k)
    BY <1>0, <1>4
  <2>2. w[k + 1] = Turn(w[k], f, nblks, tblks, k + 1)
    <3>1. k + 1 \in 0..n /\ k + 1 # 0 /\ (k + 1) - 1 = k
      BY <1>0
    <3> QED
      BY <1>2, <3>1
  <2> DEFINE index == nblks + k
             m == nblks + (k + 1)
             res1 == w[k]
             r == w[k + 1]
  <2>3. index \in Nat /\ index < tblks /\ m = index + 1 /\ nblks + (k + 1) - 1 = index
    BY <1>0
  <2>4. r = Round(res1, f, index, tblks)
    BY <2>2, <2>3 DEF Turn
  <2>5. Grown(fs, res1, f, index)
    BY <2>1
  <2> HIDE DEF index, m, res1, r
  <2>6. Grown(fs, r, f, m)
    BY <2>3, <2>4, <2>5, GrownMore
  <2> QED
    BY <2>6 DEF r, m
<1>5. Nat \subseteq S
  <2> HIDE DEF S
  <2> QED
    BY <1>3, <1>4, SetInduction
<1>6. n \in Nat /\ nblks + n = tblks
  BY <1>0
<1>7. Grown(fs, w[n], f, nblks + n)
  BY <1>5, <1>6
<1> QED
  BY <1>1, <1>6, <1>7

(* Shrinking by one block after the other.                                 *)
Shrunk(fs0, res, f, m) ==
  /\ res.ret = "ok" /\ Sound(res.fs) /\ SameFlags(fs0, res.fs)
  /\ res.fs.din[f].blocks = m
  /\ \A g \in File : res.fs.din[g].size = fs0.din[g].size
  /\ \A g \in File : \A i \in Nat : \A c \in Cell :
       Byte(res.fs, g, i, c) = IF g = f /\ i >= m THEN 0 ELSE Byte(fs0, g, i, c)

LEMMA ShrunkMore ==
  ASSUME NEW fs0, NEW res, NEW f \in File, NEW index \in Nat, NEW tblks \in Nat, ~(index < tblks),
         NEW m, m = index + 1, Shrunk(fs0, res, f, m), NEW r, r = Round(res, f, index, tblks)
  PROVE  Shrunk(fs0, r, f, index)
<1> DEFINE cut == sfs_bmap_truncate_nolock(res.fs, f)
<1>1. r = cut
  <2>1. r = Then(res, LAMBDA x : IF index < tblks THEN sfs_bmap_load_nolock(x.fs, f, index)
                                 ELSE sfs_bmap_truncate_nolock(x.fs, f))
    BY DEF Round
  <2> QED
    BY <2>1 DEF Then, Shrunk
<1>2. /\ cut.ret = "ok" /\ Sound(cut.fs) /\ SameFlags(res.fs, cut.fs)
      /\ \A g \in File : /\ cut.fs.din[g].size = res.fs.din[g].size
                         /\ cut.fs.din[g].blocks = (IF g = f THEN index ELSE res.fs.din[g].blocks)
      /\ \A g \in File : \A i \in Nat : \A c \in Cell :
           Byte(cut.fs, g, i, c) = IF g = f /\ i >= index THEN 0 ELSE Byte(res.fs, g, i, c)
  BY Truncate DEF Shrunk
<1> HIDE DEF cut
<1>3. \A g \in File : \A i \in Nat : \A c \in Cell :
        Byte(cut.fs, g, i, c) = IF g = f /\ i >= index THEN 0 ELSE Byte(fs0, g, i, c)
  BY <1>2 DEF Shrunk
<1>4. SameFlags(fs0, cut.fs) /\ cut.fs.din[f].blocks = index
      /\ \A g \in File : cut.fs.din[g].size = fs0.din[g].size
  BY <1>2 DEF Shrunk, SameFlags
<1> QED
  BY <1>1, <1>2, <1>3, <1>4 DEF Shrunk

LEMMA Shrinks ==
  ASSUME NEW fs, Sound(fs), NEW f \in File, NEW nblks, nblks = fs.din[f].blocks,
         NEW tblks \in Nat, ~(nblks < tblks), NEW res, res = Resized(fs, f, nblks, tblks)
  PROVE  Shrunk(fs, res, f, tblks)
<1>0. nblks \in Nat
  BY Fields DEF Sound
<1> DEFINE n == nblks - tblks
<1>1. PICK w : IsRounds(w, fs, f, nblks, tblks, n) /\ res = w[n]
  <2>1. n = IF nblks < tblks THEN tblks - nblks ELSE nblks - tblks
    OBVIOUS
  <2> HIDE DEF n
  <2> QED
    BY <1>0, <2>1, ResizedIs
<1>2. \A k \in 0..n : w[k] = IF k = 0 THEN Found(fs, 0) ELSE Turn(w[k - 1], f, nblks, tblks, k)
  BY <1>1 DEF IsRounds
<1> DEFINE S == {k \in Nat : k <= n => Shrunk(fs, w[k], f, nblks - k)}
<1>3. 0 \in S
  <2>1. n \in Nat
    BY <1>0
  <2>2. w[0] = Found(fs, 0)
    BY <1>2, <2>1
  <2>3. SameFlags(fs, fs)
    BY DEF SameFlags
  <2>4. nblks - 0 = nblks
    BY <1>0
  <2>5. \A g \in File : \A i \in Nat : \A c \in Cell :
          Byte(fs, g, i, c) = IF g = f /\ i >= nblks THEN 0 ELSE Byte(fs, g, i, c)
    BY <1>0 DEF Byte
  <2>6. w[0].fs = fs /\ w[0].ret = "ok"
    BY <2>2 DEF Found
  <2>7. Shrunk(fs, w[0], f, nblks)
    BY <2>3, <2>5, <2>6 DEF Shrunk
  <2> QED
    BY <2>4, <2>7
<1>4. ASSUME NEW k \in Nat, k \in S PROVE k + 1 \in S
  <2> SUFFICES ASSUME k + 1 <= n PROVE Shrunk(fs, w[k + 1], f, nblks - (k + 1))
    OBVIOUS
  <2>1. Shrunk(fs, w[k], f, nblks - k)
    BY <1>0, <1>4
  <2>2. w[k + 1] = Turn(w[k], f, nblks, tblks, k + 1)
    <3>1. k + 1 \in 0..n /\ k + 1 # 0 /\ (k + 1) - 1 = k
      BY <1>0
    <3> QED
      BY <1>2, <3>1
  <2> DEFINE index == nblks - (k + 1)
             m == nblks - k
             res1 == w[k]
             r == w[k + 1]
  <2>3. index \in Nat /\ ~(index < tblks) /\ m = index + 1
    BY <1>0
  <2>4. r = Round(res1, f, index, tblks)
    BY <2>2 DEF Turn
  <2>5. Shrunk(fs, res1, f, m)
    BY <2>1
  <2> HIDE DEF index, m, res1, r
  <2>6. Shrunk(fs, r, f, index)
    BY <2>3, <2>4, <2>5, ShrunkMore
  <2> QED
    BY <2>6 DEF r, index
<1>5. Nat \subseteq S
  <2> HIDE DEF S
  <2> QED
    BY <1>3, <1>4, SetInduction
<1>6. n \in Nat /\ nblks - n = tblks
  BY <1>0
<1>7. Shrunk(fs, w[n], f, nblks - n)
  BY <1>5, <1>6
<1> QED
  BY <1>1, <1>6, <1>7

(* Behind the end of a file there are zeros.                               *)
Tail0(fs) ==
  \A f \in File : \A pos \in Nat : pos >= fs.din[f].size => At(fs, f, pos) = 0

LEMMA RoundupReaches ==
  ASSUME NEW len \in Nat, NEW t, t = RoundupDiv(len)
  PROVE  /\ t \in Nat
         /\ \A pos \in Nat : pos \div BLKSIZE >= t => pos >= len
         /\ len = 0 => t = 0
<1> DEFINE o == len + BLKSIZE - 1
           c == o % BLKSIZE
<1>1. o \in Nat /\ BLKSIZE \in Nat \ {0}
  BY Constants
<1>2. t = o \div BLKSIZE
  BY DEF RoundupDiv
<1>3. t \in Nat /\ c \in 0..BLKSIZE - 1 /\ o = BLKSIZE * t + c
  BY <1>1, <1>2, Division DEF Cell
<1> HIDE DEF c
<1>4. BLKSIZE * t >= len
  <2> DEFINE m == BLKSIZE * t
  <2>1. m \in Int
    BY <1>1, <1>3
  <2>2. o = m + c
    BY <1>3
  <2> HIDE DEF m
  <2>3. m >= len
    BY <1>1, <1>3, <2>1, <2>2
  <2> QED
    BY <2>3 DEF m
<1>5. ASSUME NEW pos \in Nat, pos \div BLKSIZE >= t PROVE pos >= len
  <2> DEFINE q == pos \div BLKSIZE
             e == pos % BLKSIZE
             k == q - t
  <2>1. q \in Nat /\ e \in Nat /\ pos = BLKSIZE * q + e
    <3>1. q \in Nat /\ e \in Cell /\ pos = BLKSIZE * q + e
      BY Division
    <3>2. Cell \subseteq Nat
      BY Constants DEF Cell
    <3> QED
      BY <3>1, <3>2
  <2>2. k \in Nat
    BY <1>3, <1>5, <2>1
  <2>3. BLKSIZE * q = BLKSIZE * t + BLKSIZE * k
    <3>1. q = t + k
      BY <1>3, <2>1
    <3> HIDE DEF q, k
    <3>2. BLKSIZE * (t + k) = BLKSIZE * t + BLKSIZE * k
      BY <1>1, <1>3, <2>2
    <3> QED
      BY <3>1, <3>2
  <2> HIDE DEF q, e, k
  <2>4. BLKSIZE * k \in Nat /\ BLKSIZE * t \in Nat /\ BLKSIZE * q \in Nat
    BY <1>1, <1>3, <2>1, <2>2
  <2> QED
    BY <1>4, <2>1, <2>3, <2>4
<1>6. ASSUME len = 0 PROVE t = 0
  <2> DEFINE d == BLKSIZE - 1
  <2>1. d \in Cell /\ o = BLKSIZE * 0 + d
    BY <1>1, <1>6 DEF Cell
  <2> HIDE DEF d, o
  <2>2. PICK q \in Int : q = 0
    OBVIOUS
  <2>3. o = BLKSIZE * q + d
    BY <2>1, <2>2
  <2>4. o \div BLKSIZE = q
    BY <1>1, <2>1, <2>3, Quotient
  <2> QED
    BY <1>2, <2>2, <2>4
<1> QED
  BY <1>3, <1>5, <1>6

(* sfs_truncfile.                                                          *)
LEMMA TruncfileIs ==
  ASSUME NEW fs, NEW f, NEW len, NEW tblks, tblks = RoundupDiv(len),
         NEW nblks, nblks = fs.din[f].blocks,
         NEW res, res = Resized(fs, f, nblks, tblks), NEW r, r = sfs_truncfile(fs, f, len)
  PROVE  \/ fs.din[f].size = len /\ r.fs = fs
         \/ /\ fs.din[f].size # len
            /\ res.ret = "ok" => r.fs = WithSize(res.fs, f, len) /\ r.ret = "ok"
            /\ res.ret # "ok" => r = res
<1> DEFINE fs2 == WithSize(res.fs, f, len)
           zero == 0
<1>1. CASE fs.din[f].size = len
  <2>1. r = Found(fs, 0) \/ r = Failed(fs, "panic")
    BY <1>1 DEF sfs_truncfile
  <2> QED
    BY <1>1, <2>1 DEF Found, Failed
<1>2. CASE fs.din[f].size # len
  <2>1. r = Then(res, LAMBDA x : Found(WithSize(x.fs, f, len), 0))
    BY <1>2 DEF sfs_truncfile, WithSize
  <2>2. /\ res.ret = "ok" => r = Found(fs2, zero)
        /\ res.ret # "ok" => r = res
    BY <2>1 DEF Then
  <2> HIDE DEF fs2, zero
  <2>3. r = Found(fs2, zero) => r.fs = fs2 /\ r.ret = "ok"
    BY DEF Found
  <2> QED
    BY <1>2, <2>2, <2>3 DEF fs2
<1> QED
  BY <1>1, <1>2

LEMMA Extended ==
  ASSUME NEW fs, Sound(fs), Tail0(fs), NEW f \in File, NEW len \in Nat, len > fs.din[f].size,
         NEW r, r = sfs_truncfile(fs, f, len)
  PROVE  /\ Sound(r.fs) /\ SameFlags(fs, r.fs)
         /\ \A g \in File : \A pos \in Nat : At(r.fs, g, pos) = At(fs, g, pos)
         /\ \/ Sized(fs, r.fs, f, len)
            \/ \A g \in File : r.fs.din[g].size = fs.din[g].size
<1> DEFINE nblks == fs.din[f].blocks
           tblks == RoundupDiv(len)
           res == Resized(fs, f, nblks, tblks)
           size == fs.din[f].size
<1>1. nblks \in Nat /\ size \in Nat /\ tblks \in Nat
  BY RoundupReaches, Fields DEF Sound
<1>2. \/ fs.din[f].size = len /\ r.fs = fs
      \/ /\ fs.din[f].size # len
         /\ res.ret = "ok" => r.fs = WithSize(res.fs, f, len) /\ r.ret = "ok"
         /\ res.ret # "ok" => r = res
  BY TruncfileIs
<1>3. Sound(res.fs) /\ Same(fs, res.fs)
  <2>1. CASE nblks < tblks
    <3> HIDE DEF nblks, tblks, res
    <3>1. Grown(fs, res, f, tblks)
      BY <1>1, <2>1, Grows DEF nblks, res
    <3> QED
      BY <3>1 DEF Grown
  <2>2. CASE ~(nblks < tblks)
    <3>1. Shrunk(fs, res, f, tblks)
      <4> HIDE DEF tblks
      <4> QED
        BY <1>1, <2>2, Shrinks
    <3> HIDE DEF res
    <3>2. ASSUME NEW g \in File, NEW i \in Nat, NEW c \in Cell
          PROVE  Byte(res.fs, g, i, c) = Byte(fs, g, i, c)
      <4>1. CASE g = f /\ i >= tblks
        <5> DEFINE base == BLKSIZE * i
                   pos == base + c
        <5>1. base \in Nat /\ c \in Nat
          BY Constants DEF Cell
        <5>2. pos \in Nat /\ pos = BLKSIZE * i + c
          BY <5>1
        <5> HIDE DEF pos, base
        <5>3. pos \div BLKSIZE = i /\ pos % BLKSIZE = c
          BY <5>2, Quotient
        <5>4. pos >= len
          BY <4>1, <5>2, <5>3, RoundupReaches
        <5>5. At(fs, g, pos) = 0
          BY <1>1, <4>1, <5>2, <5>4 DEF Tail0
        <5>6. Byte(fs, g, i, c) = 0
          BY <5>3, <5>5 DEF At
        <5> QED
          BY <3>1, <4>1, <5>6 DEF Shrunk
      <4>2. CASE ~(g = f /\ i >= tblks)
        BY <3>1, <4>2 DEF Shrunk
      <4> QED
        BY <4>1, <4>2
    <3> QED
      BY <3>1, <3>2 DEF Shrunk, Same
  <2> QED
    BY <2>1, <2>2
<1> HIDE DEF res, tblks, nblks
<1>4. \A g \in File : \A pos \in Nat : At(res.fs, g, pos) = At(fs, g, pos)
  BY <1>3, SameAt
<1>5. CASE res.ret = "ok"
  <2> DEFINE fs2 == WithSize(res.fs, f, len)
             fs1 == res.fs
  <2>1. r.fs = fs2
    BY <1>1, <1>2, <1>5
  <2> HIDE DEF fs2, fs1
  <2>2. /\ Sound(fs2) /\ SameFlags(fs1, fs2) /\ Sized(fs1, fs2, f, len)
        /\ \A g \in File : \A pos \in Nat : At(fs2, g, pos) = At(fs1, g, pos)
    <3>1. Sound(fs1) /\ fs2 = WithSize(fs1, f, len)
      BY <1>3 DEF fs1, fs2
    <3> QED
      BY <3>1, SizeAssigned
  <2>3. Sized(fs, fs2, f, len) /\ SameFlags(fs, fs2)
    BY <1>3, <2>2 DEF Same, SameFlags, Sized, fs1
  <2> QED
    BY <1>4, <2>1, <2>2, <2>3 DEF fs1
<1>6. CASE res.ret # "ok"
  <2>1. r.fs = res.fs
    BY <1>1, <1>2, <1>6
  <2> QED
    BY <1>3, <1>4, <2>1 DEF Same
<1> QED
  BY <1>5, <1>6

Emptied(fs, fs2, f) ==
  /\ Sized(fs, fs2, f, 0)
  /\ \A g \in File : \A pos \in Nat : At(fs2, g, pos) = IF g = f THEN 0 ELSE At(fs, g, pos)

LEMMA Cleared ==
  ASSUME NEW fs, Sound(fs), NEW f \in File, NEW len, len = 0, NEW r, r = sfs_truncfile(fs, f, len)
  PROVE  r.fs = fs \/ (Sound(r.fs) /\ SameFlags(fs, r.fs) /\ Emptied(fs, r.fs, f))
<1> DEFINE nblks == fs.din[f].blocks
           tblks == RoundupDiv(len)
           res == Resized(fs, f, nblks, tblks)
<1>1. nblks \in Nat /\ len \in Nat /\ tblks \in Nat /\ tblks = 0
  BY RoundupReaches, Fields DEF Sound
<1>2. \/ fs.din[f].size = len /\ r.fs = fs
      \/ /\ fs.din[f].size # len
         /\ res.ret = "ok" => r.fs = WithSize(res.fs, f, len) /\ r.ret = "ok"
         /\ res.ret # "ok" => r = res
  BY TruncfileIs
<1>3. Shrunk(fs, res, f, tblks)
  <2>1. ~(nblks < tblks)
    BY <1>1
  <2> HIDE DEF tblks
  <2> QED
    BY <1>1, <2>1, Shrinks
<1> HIDE DEF res, tblks
<1> DEFINE fs1 == res.fs
           fs2 == WithSize(fs1, f, len)
<1>4. r.fs = fs \/ r.fs = fs2
  BY <1>2, <1>3 DEF Shrunk
<1>5. /\ Sound(fs2) /\ SameFlags(fs1, fs2) /\ Sized(fs1, fs2, f, len)
      /\ \A g \in File : \A pos \in Nat : At(fs2, g, pos) = At(fs1, g, pos)
  <2>1. Sound(fs1) /\ fs2 = WithSize(fs1, f, len)
    BY <1>3 DEF Shrunk
  <2> HIDE DEF fs1, fs2
  <2> QED
    BY <1>1, <2>1, SizeAssigned
<1> HIDE DEF fs2
<1>6. Sized(fs, fs2, f, 0) /\ SameFlags(fs, fs2)
  BY <1>1, <1>3, <1>5 DEF Shrunk, SameFlags, Sized
<1>7. ASSUME NEW g \in File, NEW pos \in Nat
      PROVE  At(fs1, g, pos) = IF g = f THEN 0 ELSE At(fs, g, pos)
  <2> DEFINE i == pos \div BLKSIZE
             c == pos % BLKSIZE
  <2>1. i \in Nat /\ c \in Cell
    BY Division
  <2> HIDE DEF i, c
  <2>2. i >= tblks
    BY <1>1, <2>1
  <2>3. Byte(fs1, g, i, c) = IF g = f /\ i >= tblks THEN 0 ELSE Byte(fs, g, i, c)
    BY <1>3, <2>1 DEF Shrunk
  <2> QED
    BY <2>2, <2>3 DEF At, i, c
<1>8. Emptied(fs, fs2, f)
  BY <1>5, <1>6, <1>7 DEF Emptied
<1> QED
  BY <1>4, <1>5, <1>6, <1>8

-----------------------------------------------------------------------------
(* What the state is between two calls, unless data has gone astray.       *)
Sane(fs) == Sound(fs) /\ fs.astray = FALSE /\ Tail0(fs)

SfsInv == sfs.astray = TRUE \/ Sane(sfs)

(* What a call does to the bytes of the files.                             *)
Kept0(fs, fs2) ==
  \A g \in File : /\ fs2.din[g].size = fs.din[g].size
                  /\ \A pos \in Nat : At(fs2, g, pos) = At(fs, g, pos)

Stored(fs, fs2, f, buf, offset, n) ==
  /\ Sized(fs, fs2, f, IF offset + n > fs.din[f].size THEN offset + n ELSE fs.din[f].size)
  /\ \A g \in File : \A pos \in Nat :
       At(fs2, g, pos) = IF g = f /\ pos \in offset..offset + n - 1 THEN buf[pos - offset + 1]
                         ELSE At(fs, g, pos)

Longer(fs, fs2, f, len) ==
  /\ len > fs.din[f].size /\ Sized(fs, fs2, f, len)
  /\ \A g \in File : \A pos \in Nat : At(fs2, g, pos) = At(fs, g, pos)

Changed(fs, fs2) ==
  \E f \in File :
    \/ \E offset \in 0..MaxOffset, data \in Buffer : \E n \in 0..Len(data) :
         Stored(fs, fs2, f, data, offset, n)
    \/ \E len \in 0..MaxOffset : Longer(fs, fs2, f, len)
    \/ Emptied(fs, fs2, f)

Effect(fs, fs2) == Kept0(fs, fs2) \/ Changed(fs, fs2)

LEMMA BufferBytes ==
  ASSUME NEW data \in Buffer
  PROVE  /\ Len(data) \in 1..MaxLen /\ \A k \in 1..Len(data) : data[k] \in Int
         /\ data \in Seq(Int) /\ DOMAIN data = 1..Len(data)
<1>1. PICK len \in 1..MaxLen : data = [k \in 1..len |-> 1 + ((k - 1) % 2)]
  BY DEF Buffer
<1>2. len \in Nat
  BY SfsFileAssumption
<1>3. \A k \in 1..len : 1 + ((k - 1) % 2) \in Int
  BY <1>2
<1>4. data \in [1..len -> Int]
  BY <1>1, <1>3
<1>5. data \in Seq(Int) /\ Len(data) = len
  BY <1>2, <1>4
<1> QED
  BY <1>1, <1>2, <1>4, <1>5

(* The flag of a panic.                                                    *)
LEMMA Panics ==
  ASSUME NEW fs, Sound(fs), NEW b \in BOOLEAN, NEW fs2, fs2 = [fs EXCEPT !.panic = b]
  PROVE  /\ Sound(fs2) /\ fs2.astray = fs.astray
         /\ \A g \in File : fs2.din[g].size = fs.din[g].size
         /\ \A g \in File : \A pos \in Nat : At(fs2, g, pos) = At(fs, g, pos)
<1>1. fs \in FsSet
  BY DEF Sound
<1>2. fs2 \in FsSet
  BY <1>1 DEF FsSet
<1>3. /\ fs2.freemap = fs.freemap /\ fs2.unused_blocks = fs.unused_blocks
      /\ fs2.disk = fs.disk /\ fs2.din = fs.din /\ fs2.astray = fs.astray
  BY <1>1 DEF FsSet
<1>4. \A g \in File : \A i \in Place : Held(fs2, g, i) = Held(fs, g, i)
  BY <1>3 DEF Held
<1>5. Sound(fs2)
  <2>1. Counted(fs2) /\ Fits(fs2)
    BY <1>3 DEF Sound, Counted, Fits
  <2>2. Mapped(fs2) /\ Taken(fs2)
    BY <1>3, <1>4, Places DEF Sound, Mapped, Taken
  <2>3. Unshared(fs2)
    BY <1>4 DEF Sound, Unshared
  <2>4. Kept(fs2)
    BY <1>3, <1>4 DEF Sound, Kept
  <2> QED
    BY <1>2, <2>1, <2>2, <2>3, <2>4 DEF Sound
<1>6. ASSUME NEW g \in File, NEW pos \in Nat PROVE At(fs2, g, pos) = At(fs, g, pos)
  <2>1. \A i : Held(fs2, g, i) = Held(fs, g, i)
    BY <1>3 DEF Held
  <2> QED
    BY <1>3, <2>1 DEF At, Byte
<1> QED
  BY <1>3, <1>5, <1>6

LEMMA PanicsAstray ==
  ASSUME NEW fs, Astray(fs), NEW b, NEW fs2, fs2 = [fs EXCEPT !.panic = b]
  PROVE  fs2.astray = TRUE
<1>1. PICK a, u, d, n, p, t :
        fs = [freemap |-> a, unused_blocks |-> u, disk |-> d, din |-> n, panic |-> p, astray |-> t]
  BY DEF Astray, Shaped
<1>2. fs2 = [freemap |-> a, unused_blocks |-> u, disk |-> d, din |-> n, panic |-> b, astray |-> t]
  BY <1>1
<1> QED
  BY <1>1, <1>2 DEF Astray

(* The effect of a call on the state that follows.                         *)
LEMMA EffectPanics ==
  ASSUME NEW fs0, NEW fs, Sane(fs), Effect(fs0, fs), NEW b \in BOOLEAN,
         NEW fs2, fs2 = [fs EXCEPT !.panic = b]
  PROVE  Sane(fs2) /\ Effect(fs0, fs2)
<1>1. /\ Sound(fs2) /\ fs2.astray = fs.astray
      /\ \A g \in File : fs2.din[g].size = fs.din[g].size
      /\ \A g \in File : \A pos \in Nat : At(fs2, g, pos) = At(fs, g, pos)
  BY Panics DEF Sane
<1>2. Tail0(fs2)
  <2>1. Tail0(fs)
    BY DEF Sane
  <2> QED
    BY <1>1, <2>1 DEF Tail0
<1>3. ASSUME Kept0(fs0, fs) PROVE Effect(fs0, fs2)
  <2>1. Kept0(fs0, fs2)
    <3> SUFFICES ASSUME NEW g \in File
                 PROVE  /\ fs2.din[g].size = fs0.din[g].size
                        /\ \A pos \in Nat : At(fs2, g, pos) = At(fs0, g, pos)
      BY DEF Kept0
    <3>1. fs2.din[g].size = fs.din[g].size /\ \A pos \in Nat : At(fs2, g, pos) = At(fs, g, pos)
      BY <1>1
    <3>2. fs.din[g].size = fs0.din[g].size /\ \A pos \in Nat : At(fs, g, pos) = At(fs0, g, pos)
      BY <1>3 DEF Kept0
    <3> QED
      BY <3>1, <3>2
  <2> QED
    BY <2>1 DEF Effect
<1>4. ASSUME NEW f \in File, NEW offset \in 0..MaxOffset, NEW data \in Buffer, NEW n \in 0..Len(data),
             Stored(fs0, fs, f, data, offset, n)
      PROVE  Effect(fs0, fs2)
  <2>1. Stored(fs0, fs2, f, data, offset, n)
    BY <1>1, <1>4 DEF Stored, Sized
  <2> QED
    BY <2>1 DEF Effect, Changed
<1>5. ASSUME NEW f \in File, NEW len \in 0..MaxOffset, Longer(fs0, fs, f, len) PROVE Effect(fs0, fs2)
  <2>1. Longer(fs0, fs2, f, len)
    BY <1>1, <1>5 DEF Longer, Sized
  <2> QED
    BY <2>1 DEF Effect, Changed
<1>6. ASSUME NEW f \in File, Emptied(fs0, fs, f) PROVE Effect(fs0, fs2)
  <2>1. Emptied(fs0, fs2, f)
    BY <1>1, <1>6 DEF Emptied, Sized
  <2> QED
    BY <2>1 DEF Effect, Changed
<1>7. Effect(fs0, fs2)
  BY <1>3, <1>4, <1>5, <1>6 DEF Effect, Changed
<1> QED
  BY <1>1, <1>2, <1>7 DEF Sane

LEMMA WriteEffect ==
  ASSUME NEW fs, Sane(fs), NEW f \in File, NEW offset \in 0..MaxOffset, NEW data \in Buffer,
         NEW r, r = PutIo(fs, f, data, offset, Len(data))
  PROVE  Astray(r.fs) \/ (Sane(r.fs) /\ Effect(fs, r.fs))
<1> DEFINE len == Len(data)
           fs2 == r.fs
<1>1. len \in Nat /\ len # 0 /\ Bytes(data, len) /\ offset \in Nat
  BY BufferBytes, SfsFileAssumption DEF Bytes
<1>2. \/ Astray(fs2)
      \/ \E n \in 0..len : (r.ret = "ok" => n = len) /\ Put1(fs, fs2, f, data, offset, n)
  <2>1. r = PutIo(fs, f, data, offset, len) /\ Sound(fs)
    BY DEF Sane
  <2> HIDE DEF len
  <2> QED
    BY <1>1, <2>1, WriteDone
<1>3. ASSUME NEW n \in 0..len, Put1(fs, fs2, f, data, offset, n)
      PROVE  Sane(fs2) /\ Effect(fs, fs2)
  <2> DEFINE size == fs.din[f].size
             new == IF offset + n > size THEN offset + n ELSE size
  <2> HIDE DEF fs2
  <2>1. size \in Nat /\ n \in Nat
    BY <1>1, <1>3, Fields DEF Sane, Sound
  <2>2. /\ Sound(fs2) /\ SameFlags(fs, fs2) /\ Sized(fs, fs2, f, new)
        /\ \A g \in File : \A pos \in Nat :
             At(fs2, g, pos) = IF g = f /\ pos \in offset..offset + n - 1 THEN data[pos - offset + 1]
                               ELSE At(fs, g, pos)
    BY <1>3 DEF Put1
  <2>3. Tail0(fs2)
    <3> SUFFICES ASSUME NEW g \in File, NEW pos \in Nat, pos >= fs2.din[g].size PROVE At(fs2, g, pos) = 0
      BY DEF Tail0
    <3>1. fs2.din[g].size = IF g = f THEN new ELSE fs.din[g].size
      BY <2>2 DEF Sized
    <3>2. ~(g = f /\ pos \in offset..offset + n - 1) /\ pos >= fs.din[g].size
      <4>1. CASE g = f
        <5> HIDE DEF size
        <5>1. pos >= new
          BY <3>1, <4>1
        <5>2. pos >= size /\ pos >= offset + n
          BY <1>1, <2>1, <5>1
        <5>3. ~(pos \in offset..offset + n - 1)
          BY <1>1, <2>1, <5>2
        <5> QED
          BY <4>1, <5>2, <5>3 DEF size
      <4>2. CASE g # f
        BY <3>1, <4>2
      <4> QED
        BY <4>1, <4>2
    <3>3. At(fs, g, pos) = 0
      BY <3>2 DEF Sane, Tail0
    <3> QED
      BY <2>2, <3>2, <3>3
  <2>4. Stored(fs, fs2, f, data, offset, n)
    BY <2>2 DEF Stored
  <2>5. Effect(fs, fs2)
    BY <2>4 DEF Effect, Changed
  <2> QED
    BY <2>2, <2>3, <2>5 DEF Sane, SameFlags
<1> QED
  BY <1>2, <1>3

LEMMA SameEffect ==
  ASSUME NEW fs, Sane(fs), NEW fs2, Sound(fs2), SameFlags(fs, fs2), Kept0(fs, fs2)
  PROVE  Sane(fs2) /\ Effect(fs, fs2)
<1>1. Tail0(fs)
  BY DEF Sane
<1>2. Tail0(fs2)
  BY <1>1 DEF Tail0, Kept0
<1> QED
  BY <1>2 DEF Sane, SameFlags, Effect

LEMMA ReadEffect ==
  ASSUME NEW fs, Sane(fs), NEW f \in File, NEW offset \in Nat, NEW len \in Nat,
         NEW r, r = GetIo(fs, f, offset, len)
  PROVE  Sane(r.fs) /\ Effect(fs, r.fs)
<1> DEFINE e == GetEnd(fs, f, offset, len)
           fs2 == r.fs
<1>1. Sound(fs2) /\ Same(fs, fs2)
  <2>1. e = GetEnd(fs, f, offset, len) /\ Sound(fs)
    BY DEF Sane
  <2> HIDE DEF e
  <2> QED
    BY <2>1, ReadDone
<1> HIDE DEF fs2
<1>2. Kept0(fs, fs2)
  BY <1>1, SameAt DEF Kept0, Same
<1>3. SameFlags(fs, fs2)
  BY <1>1 DEF Same
<1>4. Sane(fs2) /\ Effect(fs, fs2)
  BY <1>1, <1>2, <1>3, SameEffect
<1> QED
  BY <1>4 DEF fs2

LEMMA SeekEffect ==
  ASSUME NEW fs, Sane(fs), NEW f \in File, NEW len \in 0..MaxOffset, len > fs.din[f].size,
         NEW r, r = sfs_truncfile(fs, f, len)
  PROVE  Sane(r.fs) /\ Effect(fs, r.fs)
<1> DEFINE fs2 == r.fs
<1>1. len \in Nat /\ Sound(fs) /\ Tail0(fs) /\ fs.din[f].size \in Nat
  BY SfsFileAssumption, Fields DEF Sane, Sound
<1>2. /\ Sound(fs2) /\ SameFlags(fs, fs2)
      /\ \A g \in File : \A pos \in Nat : At(fs2, g, pos) = At(fs, g, pos)
      /\ \/ Sized(fs, fs2, f, len)
         \/ \A g \in File : fs2.din[g].size = fs.din[g].size
  BY <1>1, Extended
<1> HIDE DEF fs2
<1>3. CASE Sized(fs, fs2, f, len)
  <2>1. Longer(fs, fs2, f, len)
    BY <1>2, <1>3 DEF Longer
  <2>2. Tail0(fs2)
    <3> SUFFICES ASSUME NEW g \in File, NEW pos \in Nat, pos >= fs2.din[g].size PROVE At(fs2, g, pos) = 0
      BY DEF Tail0
    <3>1. pos >= fs.din[g].size
      <4>1. CASE g = f
        <5>1. pos >= len
          BY <1>3, <4>1 DEF Sized
        <5> QED
          BY <1>1, <4>1, <5>1
      <4>2. CASE g # f
        BY <1>3, <4>2 DEF Sized
      <4> QED
        BY <4>1, <4>2
    <3>2. At(fs, g, pos) = 0
      BY <1>1, <3>1 DEF Tail0
    <3> QED
      BY <1>2, <3>2
  <2> QED
    BY <1>2, <2>1, <2>2 DEF Sane, SameFlags, Effect, Changed, fs2
<1>4. CASE \A g \in File : fs2.din[g].size = fs.din[g].size
  <2>1. Kept0(fs, fs2)
    BY <1>2, <1>4 DEF Kept0
  <2>2. Sane(fs2) /\ Effect(fs, fs2)
    BY <1>2, <2>1, SameEffect
  <2> QED
    BY <2>2 DEF fs2
<1> QED
  BY <1>2, <1>3, <1>4

LEMMA ClearEffect ==
  ASSUME NEW fs, Sane(fs), NEW f \in File, NEW len, len = 0, NEW r, r = sfs_truncfile(fs, f, len)
  PROVE  Sane(r.fs) /\ Effect(fs, r.fs)
<1> DEFINE fs2 == r.fs
<1>1. fs2 = fs \/ (Sound(fs2) /\ SameFlags(fs, fs2) /\ Emptied(fs, fs2, f))
  BY Cleared DEF Sane
<1> HIDE DEF fs2
<1>2. CASE fs2 = fs
  <2>1. SameFlags(fs, fs2) /\ Kept0(fs, fs2) /\ Sound(fs2)
    BY <1>2 DEF SameFlags, Kept0, Sane
  <2>2. Sane(fs2) /\ Effect(fs, fs2)
    BY <2>1, SameEffect
  <2> QED
    BY <2>2 DEF fs2
<1>3. CASE Sound(fs2) /\ SameFlags(fs, fs2) /\ Emptied(fs, fs2, f)
  <2>1. Tail0(fs2)
    <3> SUFFICES ASSUME NEW g \in File, NEW pos \in Nat, pos >= fs2.din[g].size PROVE At(fs2, g, pos) = 0
      BY DEF Tail0
    <3>1. CASE g = f
      BY <1>3, <3>1 DEF Emptied
    <3>2. CASE g # f
      <4>1. pos >= fs.din[g].size
        BY <1>3, <3>2 DEF Emptied, Sized
      <4> QED
        BY <1>3, <3>2, <4>1 DEF Emptied, Sane, Tail0
    <3> QED
      BY <3>1, <3>2
  <2> QED
    BY <1>3, <2>1 DEF Sane, SameFlags, Effect, Changed, fs2
<1> QED
  BY <1>1, <1>2, <1>3

(* A call, from a state in which the program still runs.                   *)
LEMMA ReturnsEffect ==
  ASSUME NEW fs, NEW r, Astray(r.fs) \/ (Sane(r.fs) /\ Effect(fs, r.fs)),
         NEW b \in BOOLEAN, NEW fs2, fs2 = [r.fs EXCEPT !.panic = b]
  PROVE  fs2.astray = TRUE \/ (Sane(fs2) /\ Effect(fs, fs2))
<1> DEFINE fs1 == r.fs
<1>1. Astray(fs1) \/ (Sane(fs1) /\ Effect(fs, fs1))
  OBVIOUS
<1>2. fs2 = [fs1 EXCEPT !.panic = b]
  OBVIOUS
<1> HIDE DEF fs1
<1>3. CASE Astray(fs1)
  BY <1>2, <1>3, PanicsAstray
<1>4. CASE Sane(fs1) /\ Effect(fs, fs1)
  BY <1>2, <1>4, EffectPanics
<1> QED
  BY <1>1, <1>3, <1>4

LEMMA SfsStep ==
  ASSUME SfsInv, Next
  PROVE  /\ sfs'.astray = TRUE \/ (Sane(sfs') /\ Effect(sfs, sfs'))
         /\ Sane(sfs)
<1>1. Sane(sfs)
  BY DEF SfsInv, Next, sfs_write, sfs_read, sfs_tryseek, vfs_open_truncates, Returns, Running
<1>2. ASSUME NEW r, Returns(r), Astray(r.fs) \/ (Sane(r.fs) /\ Effect(sfs, r.fs))
      PROVE  sfs'.astray = TRUE \/ (Sane(sfs') /\ Effect(sfs, sfs'))
  <2> DEFINE b == r.ret = "panic"
             fs == sfs
             fs2 == sfs'
  <2>1. fs2 = [r.fs EXCEPT !.panic = b] /\ b \in BOOLEAN
    BY <1>2 DEF Returns
  <2>2. Astray(r.fs) \/ (Sane(r.fs) /\ Effect(fs, r.fs))
    BY <1>2
  <2> HIDE DEF b, fs, fs2
  <2>3. fs2.astray = TRUE \/ (Sane(fs2) /\ Effect(fs, fs2))
    BY <2>1, <2>2, ReturnsEffect
  <2> QED
    BY <2>3 DEF fs, fs2
<1>3. PICK f \in File :
        \/ \E offset \in 0..MaxOffset, data \in Buffer : sfs_write(f, offset, data)
        \/ \E offset \in 0..MaxOffset, len \in 1..MaxLen : sfs_read(f, offset, len)
        \/ \E pos \in 0..MaxOffset : sfs_tryseek(f, pos)
        \/ vfs_open_truncates(f)
  BY DEF Next
<1>4. ASSUME NEW offset \in 0..MaxOffset, NEW data \in Buffer, sfs_write(f, offset, data)
      PROVE  sfs'.astray = TRUE \/ (Sane(sfs') /\ Effect(sfs, sfs'))
  <2> DEFINE r == PutIo(sfs, f, data, offset, Len(data))
  <2>1. Returns(r)
    BY <1>4 DEF sfs_write, PutIo
  <2>2. Astray(r.fs) \/ (Sane(r.fs) /\ Effect(sfs, r.fs))
    BY <1>1, WriteEffect
  <2> HIDE DEF r
  <2> QED
    BY <1>2, <2>1, <2>2
<1>5. ASSUME NEW offset \in 0..MaxOffset, NEW len \in 1..MaxLen, sfs_read(f, offset, len)
      PROVE  sfs'.astray = TRUE \/ (Sane(sfs') /\ Effect(sfs, sfs'))
  <2> DEFINE r == GetIo(sfs, f, offset, len)
  <2>1. Returns(r)
    BY <1>5 DEF sfs_read, GetIo
  <2>2. offset \in Nat /\ len \in Nat
    BY SfsFileAssumption
  <2>3. Sane(r.fs) /\ Effect(sfs, r.fs)
    BY <1>1, <2>2, ReadEffect
  <2> HIDE DEF r
  <2> QED
    BY <1>2, <2>1, <2>3
<1>6. ASSUME NEW pos \in 0..MaxOffset, sfs_tryseek(f, pos)
      PROVE  sfs'.astray = TRUE \/ (Sane(sfs') /\ Effect(sfs, sfs'))
  <2> DEFINE r == sfs_truncfile(sfs, f, pos)
  <2>1. Returns(r) /\ pos > sfs.din[f].size
    BY <1>6 DEF sfs_tryseek
  <2>2. Sane(r.fs) /\ Effect(sfs, r.fs)
    BY <1>1, <2>1, SeekEffect
  <2> HIDE DEF r
  <2> QED
    BY <1>2, <2>1, <2>2
<1>7. ASSUME vfs_open_truncates(f)
      PROVE  sfs'.astray = TRUE \/ (Sane(sfs') /\ Effect(sfs, sfs'))
  <2>1. PICK len : len = 0
    OBVIOUS
  <2> DEFINE r == sfs_truncfile(sfs, f, len)
  <2>2. Returns(r)
    BY <1>7, <2>1 DEF vfs_open_truncates
  <2>3. Sane(r.fs) /\ Effect(sfs, r.fs)
    BY <1>1, <2>1, ClearEffect
  <2> HIDE DEF r
  <2> QED
    BY <1>2, <2>2, <2>3
<1> QED
  BY <1>1, <1>3, <1>4, <1>5, <1>6, <1>7

(* An empty disk.                                                          *)
LEMMA InitSane ==
  ASSUME Init
  PROVE  Sane(sfs)
<1> DEFINE d0 == [size |-> 0, blocks |-> 0, indirect |-> 0, direct |-> [i \in 0..NDIRECT - 1 |-> 0]]
           din0 == [f \in File |-> d0]
           disk0 == [b \in 0..System + NBlock - 1 |-> Zero]
<1>1. sfs = [freemap |-> Data, unused_blocks |-> NBlock, disk |-> disk0, din |-> din0,
             panic |-> FALSE, astray |-> FALSE]
  BY DEF Init
<1>2. d0 \in Din
  BY DEF Din
<1>3. din0 \in [File -> Din] /\ disk0 \in [Blk -> [Cell -> Int]]
  BY <1>2, Constants DEF Blk
<1> HIDE DEF disk0
<1>4. \A f \in File : /\ din0[f].size = 0 /\ din0[f].blocks = 0 /\ din0[f].indirect = 0
                      /\ \A i \in 0..NDIRECT - 1 : din0[f].direct[i] = 0
  OBVIOUS
<1> HIDE DEF din0
<1>5. sfs \in FsSet /\ sfs.din = din0 /\ sfs.freemap = Data /\ sfs.unused_blocks = NBlock
      /\ sfs.astray = FALSE
  BY <1>1, <1>3, Constants DEF FsSet
<1>6. \A f \in File : \A i \in Place : Held(sfs, f, i) = 0
  BY <1>4, <1>5, Constants DEF Held, Place
<1>7. Sound(sfs)
  <2>1. Counted(sfs) /\ Fits(sfs)
    BY <1>4, <1>5, Constants DEF Counted, Fits
  <2>2. Mapped(sfs)
    BY <1>4, <1>5, <1>6, Places DEF Mapped
  <2>3. Taken(sfs) /\ Unshared(sfs) /\ Kept(sfs)
    BY <1>5, <1>6 DEF Taken, Unshared, Kept
  <2> QED
    BY <1>5, <2>1, <2>2, <2>3 DEF Sound
<1>8. Tail0(sfs)
  <2> SUFFICES ASSUME NEW f \in File, NEW pos \in Nat PROVE At(sfs, f, pos) = 0
    BY DEF Tail0
  <2>1. pos \div BLKSIZE \in Nat
    BY Division
  <2> QED
    BY <1>4, <1>5, <2>1 DEF At, Byte
<1> QED
  BY <1>5, <1>7, <1>8 DEF Sane

(* Between two calls every block is free or held by one file in one place, *)
(* and there are zeros behind the end of each file; data that has gone     *)
(* astray ends the run.                                                    *)
THEOREM SfsAlwaysSane == Spec => []SfsInv
<1>1. Init => SfsInv
  BY InitSane DEF SfsInv
<1>2. SfsInv /\ [Next]_sfs => SfsInv'
  <2>1. ASSUME SfsInv, Next PROVE SfsInv'
    BY <2>1, SfsStep DEF SfsInv
  <2>2. ASSUME SfsInv, UNCHANGED sfs PROVE SfsInv'
    BY <2>2 DEF SfsInv
  <2> QED
    BY <2>1, <2>2
<1> QED
  BY <1>1, <1>2, PTL DEF Spec

-----------------------------------------------------------------------------
(* The list of the blocks of a file.                                       *)
BlockAt(fs, f, i) == sfs_bmap_get_nolock(fs, f, i, FALSE).ino

LEMMA BlockAtIs ==
  ASSUME NEW fs, Sound(fs), NEW f \in File, NEW i \in Nat
  PROVE  BlockAt(fs, f, i) = Held(fs, f, i)
<1> DEFINE create == FALSE
<1>1. create \in BOOLEAN /\ ~create /\ fs \in FsSet
  BY DEF Sound
<1>2. BlockAt(fs, f, i) = sfs_bmap_get_nolock(fs, f, i, create).ino
  BY DEF BlockAt
<1> HIDE DEF create
<1>3. sfs_bmap_get_nolock(fs, f, i, create) = Found(fs, Held(fs, f, i))
  BY <1>1, GetOld
<1> QED
  BY <1>2, <1>3 DEF Found

(* The place of the i-th block of the list.                                *)
PlaceOf(f, i) == IF i <= sfs.din[f].blocks THEN i - 1 ELSE -1

Blocks(f) == sfs.din[f].blocks + (IF sfs.din[f].indirect = 0 THEN 0 ELSE 1)

LEMMA BlocksListed ==
  ASSUME Sound(sfs), NEW f \in File
  PROVE  /\ Blocks(f) \in Nat /\ Len(BlocksOf(f)) = Blocks(f)
         /\ DOMAIN BlocksOf(f) = 1..Blocks(f)
         /\ \A i \in 1..Blocks(f) : /\ PlaceOf(f, i) \in Place
                                   /\ BlocksOf(f)[i] = Held(sfs, f, PlaceOf(f, i))
                                   /\ Held(sfs, f, PlaceOf(f, i)) # 0
<1> DEFINE n == sfs.din[f].blocks
           ind == sfs.din[f].indirect
           s == [i \in 1..n |-> BlockAt(sfs, f, i - 1)]
           t == IF ind = 0 THEN << >> ELSE << ind >>
           m == IF ind = 0 THEN 0 ELSE 1
<1>1. n \in Nat /\ n \in Idx /\ ind \in Int
  BY BlocksFit, Fields DEF Sound
<1>2. BlocksOf(f) = s \o t
  BY DEF BlocksOf, BlockAt
<1>3. \A i \in 1..n : /\ i - 1 \in Idx /\ i - 1 \in Place /\ s[i] = Held(sfs, f, i - 1)
                      /\ Held(sfs, f, i - 1) # 0 /\ Held(sfs, f, i - 1) \in Int
  <2> SUFFICES ASSUME NEW i \in 1..n
               PROVE  /\ i - 1 \in Idx /\ i - 1 \in Place /\ s[i] = Held(sfs, f, i - 1)
                      /\ Held(sfs, f, i - 1) # 0 /\ Held(sfs, f, i - 1) \in Int
    OBVIOUS
  <2> DEFINE j == i - 1
  <2>1. j \in Nat /\ j < n
    BY <1>1
  <2>2. s[i] = BlockAt(sfs, f, j)
    OBVIOUS
  <2> HIDE DEF j, s
  <2>3. j \in Idx /\ j \in Place
    BY <1>1, <2>1, Places, Constants DEF Idx
  <2>4. s[i] = Held(sfs, f, j)
    BY <2>1, <2>2, BlockAtIs
  <2>5. Held(sfs, f, j) # 0 /\ Held(sfs, f, j) \in Int
    <3>1. Held(sfs, f, j) # 0
      BY <2>1, <2>3 DEF Sound, Mapped
    <3>2. Held(sfs, f, j) \in Data
      BY <2>3, <3>1 DEF Sound, Taken
    <3>3. \A b \in Data : b \in Int
      BY Constants
    <3> QED
      BY <3>1, <3>2, <3>3
  <2> QED
    BY <2>3, <2>4, <2>5 DEF j
<1>4. s \in Seq(Int) /\ Len(s) = n
  <2>1. s \in [1..n -> Int]
    BY <1>3
  <2> HIDE DEF s, n
  <2> QED
    BY <1>1, <2>1
<1>5. t \in Seq(Int) /\ Len(t) = m /\ (ind # 0 => t[1] = ind)
  BY <1>1
<1> HIDE DEF s, t, n, m
<1>6. /\ s \o t \in Seq(Int) /\ Len(s \o t) = n + m
      /\ \A i \in 1..n + m : (s \o t)[i] = IF i <= n THEN s[i] ELSE t[i - n]
  <2>1. m \in Nat
    BY <1>5
  <2> QED
    BY <1>1, <1>4, <1>5, <2>1
<1>7. Blocks(f) = n + m /\ n + m \in Nat
  BY <1>1 DEF Blocks, n, m
<1>8. Held(sfs, f, -1) = ind /\ -1 \in Place
  BY Places DEF Held
<1>9. ASSUME NEW i \in 1..n + m
      PROVE  /\ PlaceOf(f, i) \in Place
             /\ (s \o t)[i] = Held(sfs, f, PlaceOf(f, i))
             /\ Held(sfs, f, PlaceOf(f, i)) # 0
  <2>1. CASE i <= n
    <3>1. i \in 1..n /\ PlaceOf(f, i) = i - 1
      BY <1>1, <2>1 DEF PlaceOf, n
    <3> QED
      BY <1>3, <1>6, <2>1, <3>1
  <2>2. CASE ~(i <= n)
    <3>1. ind # 0 /\ i - n = 1 /\ PlaceOf(f, i) = -1
      BY <1>1, <2>2 DEF PlaceOf, n, m
    <3>2. (s \o t)[i] = ind
      BY <1>5, <1>6, <2>2, <3>1
    <3> QED
      BY <1>8, <3>1, <3>2
  <2> QED
    BY <2>1, <2>2
<1> QED
  BY <1>2, <1>6, <1>7, <1>9

HeldBlocks(f) == {BlocksOf(f)[i] : i \in DOMAIN BlocksOf(f)}

LEMMA HeldBlocksAre ==
  ASSUME Sound(sfs), NEW f \in File
  PROVE  HeldBlocks(f) = {Held(sfs, f, i) : i \in Place} \ {0}
<1>1. ASSUME NEW b \in HeldBlocks(f) PROVE b \in {Held(sfs, f, i) : i \in Place} \ {0}
  BY <1>1, BlocksListed DEF HeldBlocks
<1>2. ASSUME NEW j \in Place, Held(sfs, f, j) # 0 PROVE Held(sfs, f, j) \in HeldBlocks(f)
  <2> DEFINE n == sfs.din[f].blocks
             ind == sfs.din[f].indirect
  <2>0. n \in Nat /\ n \in Idx
    BY BlocksFit, Fields DEF Sound
  <2>1. CASE j = -1
    <3>1. ind # 0
      BY <1>2, <2>1 DEF Held
    <3>2. n + 1 \in 1..Blocks(f) /\ PlaceOf(f, n + 1) = -1
      BY <2>0, <3>1 DEF Blocks, PlaceOf
    <3> QED
      BY <2>1, <3>2, BlocksListed DEF HeldBlocks
  <2>2. CASE j # -1
    <3>1. j \in Idx
      BY <2>2, Constants DEF Idx, Place
    <3>2. j < n
      BY <1>2, <3>1 DEF Sound, Mapped
    <3>3. j \in Nat
      BY <3>1, Places
    <3>4. j + 1 \in 1..Blocks(f) /\ PlaceOf(f, j + 1) = j
      BY <2>0, <3>2, <3>3 DEF Blocks, PlaceOf
    <3> QED
      BY <3>4, BlocksListed DEF HeldBlocks
  <2> QED
    BY <2>1, <2>2
<1> QED
  BY <1>1, <1>2

LEMMA HeldBlocksCounted ==
  ASSUME Sound(sfs), NEW f \in File
  PROVE  Cardinality(HeldBlocks(f)) = Len(BlocksOf(f))
<1> DEFINE N == Blocks(f)
           S == 1..N
           T == HeldBlocks(f)
           g == [i \in S |-> BlocksOf(f)[i]]
<1>1. N \in Nat /\ Len(BlocksOf(f)) = N /\ DOMAIN BlocksOf(f) = S
  BY BlocksListed
<1>2. g \in [S -> T] /\ \A b \in T : \E i \in S : g[i] = b
  BY <1>1 DEF HeldBlocks
<1>3. \A i, j \in S : g[i] = g[j] => i = j
  <2> SUFFICES ASSUME NEW i \in S, NEW j \in S, g[i] = g[j] PROVE i = j
    OBVIOUS
  <2> DEFINE a == PlaceOf(f, i)
             b == PlaceOf(f, j)
  <2>1. a \in Place /\ b \in Place /\ Held(sfs, f, a) = Held(sfs, f, b) /\ Held(sfs, f, a) # 0
    BY BlocksListed
  <2> HIDE DEF a, b
  <2>2. a = b
    BY <2>1, OneHolder
  <2>3. sfs.din[f].blocks \in Nat /\ i \in Nat /\ j \in Nat /\ i >= 1 /\ j >= 1
    BY <1>1, Fields DEF Sound
  <2>4. i <= sfs.din[f].blocks + 1 /\ j <= sfs.din[f].blocks + 1
    BY <2>3 DEF Blocks
  <2> HIDE DEF N
  <2> QED
    BY <2>2, <2>3, <2>4 DEF PlaceOf, a, b
<1> HIDE DEF g, T
<1>4. IsFiniteSet(S) /\ Cardinality(S) = N
  BY <1>1, FS_Interval
<1>5. g \in Bijection(S, T)
  BY <1>2, <1>3 DEF Bijection, Injection, Surjection, IsInjective
<1>6. Cardinality(T) = Cardinality(S)
  BY <1>4, <1>5, FS_Bijection DEF ExistsBijection
<1> QED
  BY <1>1, <1>4, <1>6 DEF T


LEMMA EntriesExact ==
  ASSUME Sound(sfs), NEW f \in File, NEW e \in Entries(f)
  PROVE  e[2] # 0 <=> e[1] < sfs.din[f].blocks
<1>1. NDIRECT \in Nat \ {0} /\ BLKSIZE \in Nat \ {0}
  BY Constants
<1>2. CASE \E i \in 0..NDIRECT - 1 : e = <<i, sfs.din[f].direct[i]>>
  <2>1. PICK i \in 0..NDIRECT - 1 : e = <<i, sfs.din[f].direct[i]>>
    BY <1>2
  <2>2. i \in Idx /\ Held(sfs, f, i) = sfs.din[f].direct[i]
    BY <1>1 DEF Idx, Held
  <2>3. Held(sfs, f, i) # 0 <=> i < sfs.din[f].blocks
    BY <2>2 DEF Sound, Mapped
  <2> QED
    BY <2>1, <2>2, <2>3
<1>3. CASE /\ sfs.din[f].indirect # 0
           /\ \E c \in Cell : e = <<NDIRECT + c, sfs.disk[sfs.din[f].indirect][c]>>
  <2>1. PICK c \in Cell : e = <<NDIRECT + c, sfs.disk[sfs.din[f].indirect][c]>>
    BY <1>3
  <2> DEFINE i == NDIRECT + c
  <2>2. i \in Idx /\ i # -1 /\ ~(i < NDIRECT) /\ i - NDIRECT = c
    BY <1>1 DEF Idx, Cell
  <2> HIDE DEF i
  <2>3. Held(sfs, f, i) = sfs.disk[sfs.din[f].indirect][c]
    BY <1>3, <2>2 DEF Held
  <2>4. Held(sfs, f, i) # 0 <=> i < sfs.din[f].blocks
    BY <2>2 DEF Sound, Mapped
  <2> QED
    BY <2>1, <2>3, <2>4 DEF i
<1> QED
  BY <1>2, <1>3 DEF Entries

LEMMA SaneBlocks ==
  ASSUME SfsInv
  PROVE  BlocksExact
<1> SUFFICES ASSUME Sound(sfs)
             PROVE  /\ sfs.unused_blocks = Cardinality(sfs.freemap)
                    /\ \A f \in File : \A e \in Entries(f) : e[2] # 0 <=> e[1] < sfs.din[f].blocks
                    /\ LET held == [f \in File |-> HeldBlocks(f)]
                       IN  /\ \A f \in File : Cardinality(held[f]) = Len(BlocksOf(f))
                           /\ \A f, g \in File : f # g => held[f] \cap held[g] = {}
                           /\ UNION {held[f] : f \in File} = Data \ sfs.freemap
  BY DEF BlocksExact, HeldBlocks, SfsInv, Sane
<1>1. sfs.unused_blocks = Cardinality(sfs.freemap)
  BY DEF Sound, Counted
<1>2. ASSUME NEW f \in File, NEW g \in File, f # g, NEW b \in HeldBlocks(f), b \in HeldBlocks(g) PROVE FALSE
  <2>1. PICK i \in Place : Held(sfs, f, i) = b /\ b # 0
    BY HeldBlocksAre
  <2>2. PICK j \in Place : Held(sfs, g, j) = b
    BY <1>2, HeldBlocksAre
  <2> QED
    BY <1>2, <2>1, <2>2, OneHolder
<1>3. ASSUME NEW f \in File, NEW b \in HeldBlocks(f) PROVE b \in Data \ sfs.freemap
  <2>1. PICK i \in Place : Held(sfs, f, i) = b /\ b # 0
    BY HeldBlocksAre
  <2> QED
    BY <2>1 DEF Sound, Taken
<1>4. ASSUME NEW b \in Data \ sfs.freemap PROVE \E f \in File : b \in HeldBlocks(f)
  <2>1. PICK f \in File, i \in Place : Held(sfs, f, i) = b
    BY DEF Sound, Kept
  <2>2. b # 0
    BY Constants
  <2> QED
    BY <2>1, <2>2, HeldBlocksAre
<1>5. UNION {HeldBlocks(f) : f \in File} = Data \ sfs.freemap
  BY <1>3, <1>4
<1> DEFINE held == [f \in File |-> HeldBlocks(f)]
<1>6. \A f \in File : held[f] = HeldBlocks(f)
  OBVIOUS
<1> HIDE DEF held
<1>7. UNION {held[f] : f \in File} = Data \ sfs.freemap
  BY <1>5, <1>6
<1>8. /\ \A f \in File : Cardinality(held[f]) = Len(BlocksOf(f))
      /\ \A f, g \in File : f # g => held[f] \cap held[g] = {}
  BY <1>2, <1>6, HeldBlocksCounted
<1> QED
  BY <1>1, <1>7, <1>8, EntriesExact DEF held

(* However calls end, also half-way for want of a block, the free map and  *)
(* the block maps agree: no block is lost, and none is in a file twice or  *)
(* in two files.                                                           *)
THEOREM BlocksStayExact == Spec => []BlocksExact
<1>1. SfsInv => BlocksExact
  BY SaneBlocks
<1> QED
  BY <1>1, SfsAlwaysSane, PTL

-----------------------------------------------------------------------------
(* The bytes of a file, by position.                                       *)
LEMMA ContentIs ==
  ASSUME Sound(sfs), NEW f \in File
  PROVE  /\ Content(f) = [i \in 1..sfs.din[f].size |-> At(sfs, f, i - 1)]
         /\ Content(f) = ReadSoFar(sfs, f, 0, sfs.din[f].size)
         /\ Content(f) \in Seq(Int) /\ Len(Content(f)) = sfs.din[f].size
<1> DEFINE size == sfs.din[f].size
           n == sfs.din[f].blocks
<1>1. size \in Nat /\ n \in Nat
  BY Fields DEF Sound
<1>2. ASSUME NEW i \in 1..size PROVE Content(f)[i] = At(sfs, f, i - 1)
  <2> DEFINE pos == i - 1
             q == pos \div BLKSIZE
             c == pos % BLKSIZE
  <2>1. pos \in Nat /\ q \in Nat
    <3>1. pos \in Nat
      BY <1>1
    <3> HIDE DEF pos
    <3> QED
      BY <3>1, Division
  <2>2. Content(f)[i] = IF q >= n THEN 0 ELSE sfs.disk[BlocksOf(f)[q + 1]][c]
    BY DEF Content
  <2>3. At(sfs, f, pos) = IF q < n THEN sfs.disk[Held(sfs, f, q)][c] ELSE 0
    BY DEF At, Byte
  <2> HIDE DEF pos, q, c
  <2>4. CASE q < n
    <3> DEFINE j == q + 1
    <3>1. j \in 1..Blocks(f) /\ PlaceOf(f, j) = q
      BY <1>1, <2>1, <2>4 DEF Blocks, PlaceOf
    <3>2. BlocksOf(f)[j] = Held(sfs, f, PlaceOf(f, j))
      <4> HIDE DEF j
      <4> QED
        BY <3>1, BlocksListed
    <3>3. BlocksOf(f)[q + 1] = Held(sfs, f, q)
      BY <3>1, <3>2
    <3>4. ~(q >= n)
      BY <1>1, <2>1, <2>4
    <3> QED
      BY <2>2, <2>3, <2>4, <3>3, <3>4 DEF pos
  <2>5. CASE ~(q < n)
    <3>1. q >= n
      BY <1>1, <2>1, <2>5
    <3> QED
      BY <2>2, <2>3, <2>5, <3>1 DEF pos
  <2> QED
    BY <2>4, <2>5
<1>3. DOMAIN Content(f) = 1..size /\ Content(f) = [i \in 1..size |-> Content(f)[i]]
  BY DEF Content
<1>4. Content(f) = [i \in 1..size |-> At(sfs, f, i - 1)]
  BY <1>2, <1>3
<1>5. ASSUME NEW i \in 1..size PROVE At(sfs, f, i - 1) \in Int /\ 0 + i - 1 = i - 1
  <2>1. i - 1 \in Nat /\ 0 + i - 1 = i - 1
    BY <1>1
  <2> DEFINE pos == i - 1
  <2>2. pos \in Nat
    BY <2>1
  <2> HIDE DEF pos
  <2>3. At(sfs, f, pos) \in Int
    BY <2>2, AtInt
  <2> QED
    BY <2>1, <2>3 DEF pos
<1>6. Content(f) = ReadSoFar(sfs, f, 0, size)
  BY <1>4, <1>5 DEF ReadSoFar
<1>7. Content(f) \in [1..size -> Int]
  BY <1>4, <1>5
<1>8. Content(f) \in Seq(Int) /\ Len(Content(f)) = size
  <2> HIDE DEF size
  <2> QED
    BY <1>1, <1>7
<1> QED
  BY <1>4, <1>6, <1>8

LEMMA ContentFrom ==
  ASSUME Sound(sfs), NEW f \in File, NEW offset \in Nat, NEW e \in Nat,
         offset < e, e <= sfs.din[f].size
  PROVE  SubSeq(Content(f), offset + 1, e) = ReadSoFar(sfs, f, offset, e - offset)
<1> DEFINE s == Content(f)
           n == e - offset
<1>1. s = [i \in 1..sfs.din[f].size |-> At(sfs, f, i - 1)] /\ sfs.din[f].size \in Nat
  BY ContentIs, Fields DEF Sound
<1>2. n \in Nat /\ n > 0
  OBVIOUS
<1>3. ASSUME NEW k \in 1..n
      PROVE  /\ s[offset + k] = At(sfs, f, offset + k - 1) /\ s[offset + k] \in Int
             /\ offset + 1 + k - 1 = offset + k
  <2>1. offset + k \in 1..sfs.din[f].size /\ offset + k - 1 \in Nat
    BY <1>1, <1>2
  <2> DEFINE pos == offset + k - 1
  <2>2. At(sfs, f, pos) \in Int
    <3> pos \in Nat
      BY <2>1
    <3> HIDE DEF pos
    <3> QED
      BY AtInt
  <2>3. s[offset + k] = At(sfs, f, pos)
    <3> HIDE DEF s
    <3> QED
      BY <1>1, <2>1
  <2> QED
    BY <2>2, <2>3
<1> HIDE DEF s
<1> DEFINE t == SubSeq(s, offset + 1, e)
           r == ReadSoFar(sfs, f, offset, n)
           m == offset + 1
<1>4. \A i \in m..e : s[i] \in Int
  <2> SUFFICES ASSUME NEW i \in m..e PROVE s[i] \in Int
    OBVIOUS
  <2> DEFINE k == i - offset
  <2>1. k \in 1..n /\ offset + k = i
    OBVIOUS
  <2> HIDE DEF k
  <2> QED
    BY <1>3, <2>1
<1>5. /\ t \in Seq(Int) /\ Len(t) = IF m <= e THEN e - m + 1 ELSE 0
      /\ \A i \in 1..e - m + 1 : t[i] = s[m + i - 1]
  <2>1. m \in Int /\ t = SubSeq(s, m, e) /\ e \in Int
    OBVIOUS
  <2> HIDE DEF m, t
  <2> QED
    BY <1>4, <2>1, SubSeqProperties
<1>6. t \in Seq(Int) /\ Len(t) = n /\ \A i \in 1..n : t[i] = s[offset + i]
  <2>1. m <= e /\ e - m + 1 = n
    OBVIOUS
  <2>2. \A i \in 1..n : m + i - 1 = offset + i
    BY <1>2
  <2> HIDE DEF t, m, n
  <2> QED
    BY <1>5, <2>1, <2>2
<1>7. r \in Seq(Int) /\ Len(r) = n /\ \A i \in 1..n : r[i] = At(sfs, f, offset + i - 1)
  <2>1. r \in [1..n -> Int] /\ \A i \in 1..n : r[i] = At(sfs, f, offset + i - 1)
    BY <1>3 DEF ReadSoFar
  <2> HIDE DEF r, n
  <2> QED
    BY <1>2, <2>1
<1>8. \A i \in 1..Len(t) : t[i] = r[i]
  <2> HIDE DEF t, r, n
  <2> QED
    BY <1>3, <1>6, <1>7
<1>9. t = r
  <2> HIDE DEF t, r, n
  <2> QED
    BY <1>6, <1>7, <1>8, SeqEqual
<1> QED
  BY <1>9 DEF s

LEMMA SaneReads ==
  ASSUME SfsInv
  PROVE  ReadsBack
<1> SUFFICES ASSUME Running, NEW f \in File, NEW offset \in 0..MaxOffset, NEW len \in 1..MaxLen
             PROVE  LET io  == GetIo(sfs, f, offset, len)
                        end == GetEnd(sfs, f, offset, len)
                    IN  offset < end /\ io.ret = "ok" /\ Whole(offset, end).size = 0
                          => io.buf = SubSeq(Content(f), offset + 1, end)
  BY DEF ReadsBack, GetIo, GetEnd
<1> DEFINE io  == GetIo(sfs, f, offset, len)
           end == GetEnd(sfs, f, offset, len)
<1> SUFFICES ASSUME offset < end, io.ret = "ok", Whole(offset, end).size = 0
             PROVE  io.buf = SubSeq(Content(f), offset + 1, end)
  OBVIOUS
<1>1. Sound(sfs) /\ offset \in Nat /\ len \in Nat
  BY SfsFileAssumption DEF SfsInv, Sane, Running
<1>2. io = GetIo(sfs, f, offset, len) /\ end = GetEnd(sfs, f, offset, len)
  OBVIOUS
<1>3. offset < end /\ io.ret = "ok" /\ Whole(offset, end).size = 0
  OBVIOUS
<1> HIDE DEF io, end
<1>4. end \in Nat /\ end <= sfs.din[f].size
  BY <1>1, <1>2, GetEndIs
<1>5. io.buf = ReadSoFar(sfs, f, offset, end - offset)
  BY <1>1, <1>2, <1>3, ReadDone
<1>6. SubSeq(Content(f), offset + 1, end) = ReadSoFar(sfs, f, offset, end - offset)
  BY <1>1, <1>3, <1>4, ContentFrom
<1> QED
  BY <1>5, <1>6

(* sfs_io_nolock of a read that succeeds and covers no whole block returns *)
(* the bytes of the file from its position on.                             *)
THEOREM ReadsAlwaysBack == Spec => []ReadsBack
<1>1. SfsInv => ReadsBack
  BY SaneReads
<1> QED
  BY <1>1, SfsAlwaysSane, PTL

-----------------------------------------------------------------------------
(* The files as sequences of bytes.                                        *)
Image(fs) == [f \in File |-> [i \in 1..fs.din[f].size |-> At(fs, f, i - 1)]]

LEMMA ContentsAre == Sound(sfs) => [f \in File |-> Content(f)] = Image(sfs)
BY ContentIs DEF Image

LEMMA NextContentsAre == Sound(sfs)' => [f \in File |-> Content(f)]' = Image(sfs')
<1>1. (Sound(sfs) => [f \in File |-> Content(f)] = Image(sfs))'
  BY ContentsAre, PTL
<1> QED
  BY <1>1

LEMMA ImageOf ==
  ASSUME NEW fs, Sound(fs), NEW f \in File
  PROVE  /\ fs.din[f].size \in Nat /\ Image(fs)[f] \in Seq(Int)
         /\ Image(fs)[f] = [i \in 1..fs.din[f].size |-> At(fs, f, i - 1)]
         /\ Len(Image(fs)[f]) = fs.din[f].size
         /\ \A i \in 1..fs.din[f].size : Image(fs)[f][i] = At(fs, f, i - 1)
<1> DEFINE size == fs.din[f].size
           s == [i \in 1..size |-> At(fs, f, i - 1)]
<1>1. size \in Nat /\ Image(fs)[f] = s
  BY Fields DEF Sound, Image
<1>2. s \in [1..size -> Int]
  <2> SUFFICES ASSUME NEW i \in 1..size PROVE At(fs, f, i - 1) \in Int
    OBVIOUS
  <2> DEFINE pos == i - 1
  <2>1. pos \in Nat
    BY <1>1
  <2> HIDE DEF pos
  <2>2. At(fs, f, pos) \in Int
    BY <2>1, AtInt
  <2> QED
    BY <2>2 DEF pos
<1>3. \A i \in 1..size : s[i] = At(fs, f, i - 1)
  OBVIOUS
<1> HIDE DEF s, size
<1>4. s \in Seq(Int) /\ Len(s) = size
  BY <1>1, <1>2
<1> QED
  BY <1>1, <1>3, <1>4 DEF s, size

(* Two images that differ in one file at most.                             *)
LEMMA ImageExcept ==
  ASSUME NEW fs, NEW fs2, NEW f \in File, NEW s,
         Image(fs2)[f] = s, \A g \in File \ {f} : Image(fs2)[g] = Image(fs)[g]
  PROVE  Image(fs2) = [Image(fs) EXCEPT ![f] = s]
BY DEF Image

LEMMA ImageSame ==
  ASSUME NEW fs, NEW fs2, NEW g \in File, fs2.din[g].size = fs.din[g].size, fs.din[g].size \in Nat,
         \A pos \in Nat : At(fs2, g, pos) = At(fs, g, pos)
  PROVE  Image(fs2)[g] = Image(fs)[g]
<1> DEFINE size == fs.din[g].size
<1>1. \A i \in 1..size : At(fs2, g, i - 1) = At(fs, g, i - 1)
  <2> SUFFICES ASSUME NEW i \in 1..size PROVE At(fs2, g, i - 1) = At(fs, g, i - 1)
    OBVIOUS
  <2>1. i - 1 \in Nat
    OBVIOUS
  <2> QED
    BY <2>1
<1> QED
  BY <1>1 DEF Image

LEMMA KeptImage ==
  ASSUME NEW fs, Sound(fs), NEW fs2, Kept0(fs, fs2)
  PROVE  Image(fs2) = Image(fs)
<1>1. \A g \in File : Image(fs2)[g] = Image(fs)[g]
  BY ImageSame, Fields DEF Kept0, Sound
<1> QED
  BY <1>1 DEF Image

(* A longer file shows zeros.                                              *)
LEMMA LongerImage ==
  ASSUME NEW fs, Sane(fs), NEW fs2, Sane(fs2), NEW f \in File, NEW len \in Nat, Longer(fs, fs2, f, len)
  PROVE  /\ len > Len(Image(fs)[f])
         /\ Image(fs2) = [Image(fs) EXCEPT ![f] = Store!Padded(Image(fs)[f], len)]
<1> DEFINE s == Image(fs)[f]
           t == Image(fs2)[f]
           size == fs.din[f].size
<1>1. Sound(fs) /\ Sound(fs2) /\ Tail0(fs)
  BY DEF Sane
<1>2. /\ len > size /\ size \in Nat /\ fs2.din[f].size = len
      /\ \A g \in File : \A pos \in Nat : At(fs2, g, pos) = At(fs, g, pos)
      /\ \A g \in File \ {f} : fs2.din[g].size = fs.din[g].size
  BY <1>1, ImageOf DEF Longer, Sized
<1>3. /\ Len(s) = size /\ \A i \in 1..size : s[i] = At(fs, f, i - 1)
      /\ t = [i \in 1..len |-> At(fs2, f, i - 1)]
  BY <1>1, <1>2, ImageOf
<1>4. ASSUME NEW i \in 1..len PROVE At(fs2, f, i - 1) = IF i <= Len(s) THEN s[i] ELSE 0
  <2>1. i - 1 \in Nat
    OBVIOUS
  <2>2. At(fs2, f, i - 1) = At(fs, f, i - 1)
    BY <1>2, <2>1
  <2>3. CASE i <= size
    BY <1>2, <1>3, <2>2, <2>3
  <2>4. CASE ~(i <= size)
    <3>1. i - 1 >= size
      BY <1>2, <2>4
    <3>2. At(fs, f, i - 1) = 0
      BY <1>1, <2>1, <3>1 DEF Tail0
    <3> QED
      BY <1>3, <2>2, <2>4, <3>2
  <2> QED
    BY <2>3, <2>4
<1> HIDE DEF s, t, size
<1>5. t = Store!Padded(s, len)
  BY <1>3, <1>4 DEF Store!Padded
<1>6. ASSUME NEW g \in File \ {f} PROVE Image(fs2)[g] = Image(fs)[g]
  <2>1. fs2.din[g].size = fs.din[g].size /\ fs.din[g].size \in Nat
    BY <1>1, <1>2, ImageOf
  <2>2. \A pos \in Nat : At(fs2, g, pos) = At(fs, g, pos)
    BY <1>2
  <2> QED
    BY <2>1, <2>2, ImageSame
<1>7. Image(fs2) = [Image(fs) EXCEPT ![f] = Store!Padded(s, len)]
  BY <1>5, <1>6, ImageExcept DEF t
<1> QED
  BY <1>2, <1>3, <1>7 DEF s

LEMMA EmptiedImage ==
  ASSUME NEW fs, Sound(fs), NEW fs2, Sound(fs2), NEW f \in File, Emptied(fs, fs2, f)
  PROVE  Image(fs2) = [Image(fs) EXCEPT ![f] = << >>]
<1>1. fs2.din[f].size = 0
  BY DEF Emptied, Sized
<1>2. ASSUME NEW g \in File \ {f} PROVE Image(fs2)[g] = Image(fs)[g]
  <2>1. fs2.din[g].size = fs.din[g].size /\ fs.din[g].size \in Nat
    BY ImageOf DEF Emptied, Sized
  <2>2. \A pos \in Nat : At(fs2, g, pos) = At(fs, g, pos)
    BY DEF Emptied
  <2> QED
    BY <2>1, <2>2, ImageSame
<1>3. Image(fs2)[f] = << >>
  BY <1>1 DEF Image
<1> QED
  BY <1>2, <1>3, ImageExcept

(* The bytes that were written, at their place.                            *)
LEMMA StoredImage ==
  ASSUME NEW fs, Sane(fs), NEW fs2, Sane(fs2), NEW f \in File, NEW offset \in Nat,
         NEW data \in Seq(Int), NEW n \in 1..Len(data), Stored(fs, fs2, f, data, offset, n)
  PROVE  Image(fs2) = [Image(fs) EXCEPT ![f] = Store!Overwritten(Image(fs)[f], offset, SubSeq(data, 1, n))]
<1> DEFINE s == Image(fs)[f]
           t == Image(fs2)[f]
           size == fs.din[f].size
           new == IF offset + n > size THEN offset + n ELSE size
           d == SubSeq(data, 1, n)
<1>1. Sound(fs) /\ Sound(fs2) /\ Tail0(fs)
  BY DEF Sane
<1>0. n \in Nat /\ n >= 1 /\ n <= Len(data)
  OBVIOUS
<1>2. /\ fs2.din[f].size = new
      /\ \A g \in File : \A pos \in Nat :
           At(fs2, g, pos) = IF g = f /\ pos \in offset..offset + n - 1 THEN data[pos - offset + 1]
                             ELSE At(fs, g, pos)
      /\ \A g \in File \ {f} : fs2.din[g].size = fs.din[g].size
  BY DEF Stored, Sized
<1>3. /\ Len(s) = size /\ \A i \in 1..size : s[i] = At(fs, f, i - 1)
      /\ t = [i \in 1..fs2.din[f].size |-> At(fs2, f, i - 1)] /\ size \in Nat
  BY <1>1, ImageOf
<1>4. d \in Seq(Int) /\ Len(d) = n /\ \A k \in 1..n : d[k] = data[k]
  BY <1>0
<1>5. new \in Nat /\ new >= size /\ new >= offset + n /\ (new = size \/ new = offset + n)
  BY <1>0, <1>3
<1> DEFINE o == offset + n
<1>6. o \in Nat /\ new = Store!Larger(size, o)
  <2>1. o \in Nat /\ size \in Nat /\ new = IF o > size THEN o ELSE size
    BY <1>0, <1>3
  <2> HIDE DEF o, size, new
  <2>2. Store!Larger(size, o) = IF size > o THEN size ELSE o
    BY DEF Store!Larger
  <2> QED
    BY <2>1, <2>2
<1> HIDE DEF s, t, size, new, d
<1>7. ASSUME NEW i \in 1..new
      PROVE  At(fs2, f, i - 1) = IF i \in offset + 1..offset + Len(d) THEN d[i - offset]
                                 ELSE Store!Padded(s, Store!Larger(Len(s), i))[i]
  <2> DEFINE pos == i - 1
  <2>1. pos \in Nat /\ i \in Nat /\ i >= 1
    BY <1>5
  <2>2. CASE i \in offset + 1..offset + n
    <3>1. pos \in offset..offset + n - 1 /\ pos - offset + 1 = i - offset /\ i - offset \in 1..n
      BY <1>0, <2>2
    <3> HIDE DEF pos
    <3>2. At(fs2, f, pos) = data[pos - offset + 1]
      BY <1>2, <2>1, <3>1
    <3>3. At(fs2, f, pos) = d[i - offset]
      BY <1>4, <3>1, <3>2
    <3> QED
      BY <1>4, <2>2, <3>3 DEF pos
  <2>3. CASE i \notin offset + 1..offset + n
    <3>1. ~(pos \in offset..offset + n - 1)
      BY <1>0, <2>1, <2>3
    <3>2. At(fs2, f, pos) = At(fs, f, pos)
      <4> HIDE DEF pos
      <4> QED
        BY <1>2, <2>1, <3>1
    <3> DEFINE m == Store!Larger(Len(s), i)
    <3>3. m \in Nat /\ m >= i /\ i \in 1..m
      BY <1>3, <2>1 DEF Store!Larger
    <3> HIDE DEF m
    <3>4. Store!Padded(s, m)[i] = IF i <= size THEN s[i] ELSE 0
      BY <1>3, <3>3 DEF Store!Padded
    <3>5. CASE i <= size
      <4>1. s[i] = At(fs, f, pos)
        BY <1>3, <2>1, <3>5
      <4> QED
        BY <1>4, <2>3, <3>2, <3>4, <3>5, <4>1 DEF m, pos
    <3>6. CASE ~(i <= size)
      <4>1. pos >= size
        BY <1>3, <2>1, <3>6
      <4> HIDE DEF pos
      <4>2. At(fs, f, pos) = 0
        BY <1>1, <2>1, <4>1 DEF Tail0, size
      <4> QED
        BY <1>4, <2>3, <3>2, <3>4, <3>6, <4>2 DEF m, pos
    <3> QED
      BY <3>5, <3>6
  <2> QED
    BY <2>2, <2>3
<1>8. t = Store!Overwritten(s, offset, d)
  <2>1. new = Store!Larger(Len(s), offset + Len(d))
    BY <1>3, <1>4, <1>6
  <2>2. t = [i \in 1..new |-> At(fs2, f, i - 1)]
    BY <1>2, <1>3
  <2>3. Store!Overwritten(s, offset, d)
          = [i \in 1..new |-> IF i \in offset + 1..offset + Len(d) THEN d[i - offset]
                              ELSE Store!Padded(s, Store!Larger(Len(s), i))[i]]
    BY <2>1, Zenon DEF Store!Overwritten
  <2> QED
    BY <1>7, <2>2, <2>3, Zenon
<1>9. ASSUME NEW g \in File \ {f} PROVE Image(fs2)[g] = Image(fs)[g]
  <2>1. fs2.din[g].size = fs.din[g].size /\ fs.din[g].size \in Nat
    BY <1>1, <1>2, ImageOf
  <2>2. \A pos \in Nat : At(fs2, g, pos) = At(fs, g, pos)
    BY <1>2
  <2> QED
    BY <2>1, <2>2, ImageSame
<1> DEFINE w == Store!Overwritten(s, offset, d)
<1>10. Image(fs2)[f] = w
  BY <1>8 DEF t
<1> HIDE DEF w
<1>11. Image(fs2) = [Image(fs) EXCEPT ![f] = w]
  BY <1>9, <1>10, ImageExcept
<1> QED
  BY <1>11 DEF s, d, w

(* A call as a step of the file store.                                     *)
LEMMA EffectStep ==
  ASSUME Sane(sfs), Sane(sfs'), Effect(sfs, sfs')
  PROVE  \/ UNCHANGED [f \in File |-> Content(f)]
         \/ \E f \in File :
              \/ \E offset \in 0..MaxOffset, data \in Buffer : Store!Write(f, offset, data)
              \/ \E n \in 0..MaxOffset : Store!Grow(f, n)
              \/ Store!Clear(f)
<1> DEFINE content == [f \in File |-> Content(f)]
           fs == sfs
           fs2 == sfs'
           Goal == \/ content' = content
                   \/ \E f \in File :
                        \/ \E offset \in 0..MaxOffset, data \in Buffer : \E n \in 1..Len(data) :
                             content' = [content EXCEPT ![f] =
                                           Store!Overwritten(@, offset, SubSeq(data, 1, n))]
                        \/ \E n \in 0..MaxOffset : /\ n > Len(content[f])
                                                  /\ content' = [content EXCEPT ![f] = Store!Padded(@, n)]
                        \/ content' = [content EXCEPT ![f] = << >>]
<1>1. content = Image(fs) /\ content' = Image(fs2)
  BY ContentsAre, NextContentsAre DEF Sane
<1>2. SUFFICES Goal
  BY DEF Store!Write, Store!Grow, Store!Clear
<1>3. Sane(fs) /\ Sane(fs2) /\ Effect(fs, fs2) /\ MaxOffset \in Nat
  BY SfsFileAssumption
<1> DEFINE c == content
           c2 == content'
           Over(s, offset, data, n) == Store!Overwritten(s, offset, SubSeq(data, 1, n))
<1>4. SUFFICES \/ c2 = c
               \/ \E f \in File :
                    \/ \E offset \in 0..MaxOffset, data \in Buffer : \E n \in 1..Len(data) :
                         c2 = [c EXCEPT ![f] = Over(c[f], offset, data, n)]
                    \/ \E n \in 0..MaxOffset : n > Len(c[f]) /\ c2 = [c EXCEPT ![f] = Store!Padded(c[f], n)]
                    \/ c2 = [c EXCEPT ![f] = << >>]
  OBVIOUS
<1>5. c = Image(fs) /\ c2 = Image(fs2)
  BY <1>1
<1> HIDE DEF fs, fs2, c, c2, Goal
<1>6. ASSUME Kept0(fs, fs2) PROVE c2 = c
  BY <1>3, <1>5, <1>6, KeptImage DEF Sane
<1>7. ASSUME NEW f \in File, NEW len \in 0..MaxOffset, Longer(fs, fs2, f, len)
      PROVE  len > Len(c[f]) /\ c2 = [c EXCEPT ![f] = Store!Padded(c[f], len)]
  BY <1>3, <1>5, <1>7, LongerImage
<1>8. ASSUME NEW f \in File, Emptied(fs, fs2, f) PROVE c2 = [c EXCEPT ![f] = << >>]
  BY <1>3, <1>5, <1>8, EmptiedImage DEF Sane
<1>9. ASSUME NEW f \in File, NEW offset \in 0..MaxOffset, NEW data \in Buffer, NEW n \in 0..Len(data),
             Stored(fs, fs2, f, data, offset, n), n # 0
      PROVE  n \in 1..Len(data) /\ c2 = [c EXCEPT ![f] = Over(c[f], offset, data, n)]
  <2>1. data \in Seq(Int) /\ offset \in Nat /\ n \in 1..Len(data)
    BY <1>3, <1>9, BufferBytes
  <2>2. Image(fs2) = [Image(fs) EXCEPT ![f] = Over(Image(fs)[f], offset, data, n)]
    BY <1>3, <1>9, <2>1, StoredImage
  <2> HIDE DEF Over
  <2> QED
    BY <1>5, <2>1, <2>2
<1>10. ASSUME NEW f \in File, NEW offset \in 0..MaxOffset, NEW data \in Buffer, NEW n,
              Stored(fs, fs2, f, data, offset, n), n = 0
       PROVE  Kept0(fs, fs2) \/ Longer(fs, fs2, f, offset)
  <2> DEFINE size == fs.din[f].size
  <2>1. offset \in Nat /\ size \in Nat
    BY <1>3, Fields DEF Sane, Sound
  <2>2. \A g \in File : \A pos \in Nat : At(fs2, g, pos) = At(fs, g, pos)
    BY <1>10, <2>1 DEF Stored
  <2>3. Sized(fs, fs2, f, IF offset > size THEN offset ELSE size)
    <3>1. offset + n = offset
      BY <1>10, <2>1
    <3> QED
      BY <1>10, <3>1 DEF Stored
  <2>4. CASE offset > size
    BY <2>2, <2>3, <2>4 DEF Longer
  <2>5. CASE ~(offset > size)
    BY <2>2, <2>3, <2>5 DEF Kept0, Sized
  <2> QED
    BY <2>4, <2>5
<1>11. CASE Kept0(fs, fs2)
  BY <1>6, <1>11
<1>12. CASE Changed(fs, fs2)
  <2>1. PICK f \in File :
          \/ \E offset \in 0..MaxOffset, data \in Buffer : \E n \in 0..Len(data) :
               Stored(fs, fs2, f, data, offset, n)
          \/ \E len \in 0..MaxOffset : Longer(fs, fs2, f, len)
          \/ Emptied(fs, fs2, f)
    BY <1>12 DEF Changed
  <2> HIDE DEF Over
  <2>2. CASE \E len \in 0..MaxOffset : Longer(fs, fs2, f, len)
    BY <1>7, <2>2
  <2>3. CASE Emptied(fs, fs2, f)
    BY <1>8, <2>3
  <2>4. ASSUME NEW offset \in 0..MaxOffset, NEW data \in Buffer, NEW n \in 0..Len(data),
               Stored(fs, fs2, f, data, offset, n)
        PROVE  \/ c2 = c
               \/ \E m \in 1..Len(data) : c2 = [c EXCEPT ![f] = Over(c[f], offset, data, m)]
               \/ offset > Len(c[f]) /\ c2 = [c EXCEPT ![f] = Store!Padded(c[f], offset)]
    <3>1. CASE n = 0
      BY <1>6, <1>7, <1>10, <2>4, <3>1
    <3>2. CASE n # 0
      BY <1>9, <2>4, <3>2
    <3> QED
      BY <3>1, <3>2
  <2> QED
    BY <2>1, <2>2, <2>3, <2>4
<1> QED
  BY <1>3, <1>11, <1>12 DEF Effect

(* As long as no transfer covers a whole block, files are sequences of     *)
(* bytes: a call changes the file it is for and no other, sfs_io_nolock    *)
(* writes a beginning of its data at the position it was given, a file     *)
(* that grows shows zeros and never what a block held before, and          *)
(* O_TRUNC empties the file or changes nothing.                            *)
THEOREM FilesAreStore == Spec => IsFileStore
<1>1. Init => Store!Init
  <2> SUFFICES ASSUME Init PROVE [f \in File |-> Content(f)] = [f \in File |-> << >>]
    BY DEF Store!Init
  <2>1. Sane(sfs)
    BY InitSane
  <2>2. ASSUME NEW f \in File PROVE Content(f) = << >>
    <3>1. sfs.din[f].size = 0
      BY DEF Init
    <3>2. Content(f) = [i \in 1..0 |-> At(sfs, f, i - 1)]
      BY <2>1, <3>1, ContentIs DEF Sane
    <3> QED
      BY <3>2
  <2> QED
    BY <2>2
<1>2. SfsInv /\ [Next]_sfs
        => [~sfs'.astray =>
              \/ UNCHANGED [f \in File |-> Content(f)]
              \/ \E f \in File :
                   \/ \E offset \in 0..MaxOffset, data \in Buffer : Store!Write(f, offset, data)
                   \/ \E n \in 0..MaxOffset : Store!Grow(f, n)
                   \/ Store!Clear(f)]_sfs
  <2> SUFFICES ASSUME SfsInv, Next, ~sfs'.astray
               PROVE  \/ UNCHANGED [f \in File |-> Content(f)]
                      \/ \E f \in File :
                           \/ \E offset \in 0..MaxOffset, data \in Buffer : Store!Write(f, offset, data)
                           \/ \E n \in 0..MaxOffset : Store!Grow(f, n)
                           \/ Store!Clear(f)
    OBVIOUS
  <2>1. Sane(sfs) /\ Sane(sfs') /\ Effect(sfs, sfs')
    BY SfsStep
  <2> QED
    BY <2>1, EffectStep
<1> QED
  BY <1>1, <1>2, SfsAlwaysSane, PTL DEF Spec, IsFileStore
=============================================================================
