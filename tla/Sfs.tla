-------------------------------- MODULE Sfs --------------------------------
(***************************************************************************)
(* The simple file system, kern/fs/sfs: how a file is laid out in blocks   *)
(* and what its inode operations do to the blocks, the inode in memory and *)
(* the inode on the disk. The kernel is not preemptible and the disk is    *)
(* polled, so that nothing here ever waits: an operation is one step, and  *)
(* is written as a function of the file system before it.                  *)
(*                                                                         *)
(* A file system is a record [free, unused, block, disk, sin]:             *)
(*   free    the blocks whose bit is set in the freemap                    *)
(*   unused  super.unused_blocks                                           *)
(*   block   the words of every block                                      *)
(*   disk    the inode on the disk of every file                           *)
(*   sin     the inode in memory, or NotLoaded                             *)
(* A result is a record [fs, ret], ret an error, Ok, or the assertion that *)
(* failed: the kernel has panicked, and what fs says no longer matters.    *)
(***************************************************************************)
EXTENDS Integers, Sequences, SequencesExt, TLC

CONSTANTS
  File,               \* the files; a regular file is never created nor removed
  Block,              \* the blocks for data, numbered from 1
  SFS_BLKSIZE,        \* words in a block of data
  SFS_BLK_NENTRY,     \* block numbers in a block of entries
  SFS_NDIRECT,        \* block numbers in an inode
  SFS_MAX_FILE_SIZE,  \* bound on positions
  MAX_INODE_COUNT     \* bound on the references to an inode

ASSUME SfsAssumption ==
  /\ Block \subseteq Nat \ {0}
  /\ SFS_BLK_NENTRY <= SFS_BLKSIZE
  /\ {SFS_BLKSIZE, SFS_BLK_NENTRY, SFS_NDIRECT, SFS_MAX_FILE_SIZE, MAX_INODE_COUNT} \subseteq Nat \ {0}

Word == 0 .. SFS_BLKSIZE - 1
Cleared == [w \in Word |-> 0]

\* What is left in a free block, which nobody should ever read
Stale == [w \in Word |-> 999]

EmptyInode == [size |-> 0, blocks |-> 0,
               direct |-> [i \in 0 .. SFS_NDIRECT - 1 |-> 0], indirect |-> 0]
NotLoaded == [din |-> EmptyInode, dirty |-> FALSE, reclaim_count |-> 0,
              ref_count |-> 0, open_count |-> 0]

\* An inode becomes dirty. Its copy on the disk will be overwritten before it is
\* read, so that what it says is of no use.
Outdated == [EmptyInode EXCEPT !.size = 999]
Dirtied(fs, f) == [fs EXCEPT !.sin[f].dirty = TRUE, !.disk[f] = Outdated]

Ok == "ok"
Errors == {"E_NO_MEM", "E_INVAL", "E_EXISTS", "E_MAX_OPEN", "E_BUSY"}

\* The assertions and panics that a legal sequence of calls can reach, and the
\* ones that should hold whatever the calls.
ReachablePanics == {"index <= din->blocks", "tblks == din->blocks",
                    "index out of range", "ref_count < MAX_INODE_COUNT"}
OtherPanics == {"unused_blocks > 0", "block in use", "din->blocks != 0", "ref_count > 0",
                "open_count > 0", "ref_count >= open_count", "reclaim_count > 0",
                "killed in use"}
Panics == ReachablePanics \cup OtherPanics

Result(fs, ret) == [fs |-> fs, ret |-> ret]
Panicked(r) == r.ret \in Panics

\* The first step, then the second one unless the first failed.
Then(r, Op(_)) == IF r.ret = Ok THEN Op(r.fs) ELSE r

----------------------------------------------------------------------------
\* Mutant: the block keeps the words of the file that had it before.
Mut_BlockAlloc(fs) ==
  IF fs.free = {} THEN [fs |-> fs, ret |-> "E_NO_MEM", ino |-> 0]
  ELSE LET b == CHOOSE b \in fs.free : \A c \in fs.free : b <= c
       IN [fs |-> [fs EXCEPT !.free = @ \ {b}, !.unused = @ - 1], ret |-> Ok, ino |-> b]

\* sfs_block_alloc: the lowest free block, cleared.
BlockAlloc(fs) ==
  IF fs.free = {} THEN [fs |-> fs, ret |-> "E_NO_MEM", ino |-> 0]
  ELSE IF fs.unused = 0 THEN [fs |-> fs, ret |-> "unused_blocks > 0", ino |-> 0]
  ELSE LET b == CHOOSE b \in fs.free : \A c \in fs.free : b <= c
       IN [fs |-> [fs EXCEPT !.free = @ \ {b}, !.unused = @ - 1, !.block[b] = Cleared],
           ret |-> Ok, ino |-> b]

\* sfs_block_free does not touch the words, which are now of no use.
BlockFree(fs, b) ==
  IF b \notin Block \ fs.free THEN Result(fs, "block in use")
  ELSE Result([fs EXCEPT !.free = @ \cup {b}, !.unused = @ + 1, !.block[b] = Stale], Ok)

\* Mutant: the new indirect block is not given back.
Mut_GetSub(fs, f, i, create) ==
  LET ent == fs.sin[f].din.indirect
      ino == IF ent = 0 THEN 0 ELSE fs.block[ent][i]
      entry == IF ent # 0 THEN [fs |-> fs, ret |-> Ok, ino |-> ent] ELSE BlockAlloc(fs)
      data == BlockAlloc(entry.fs)
  IN IF ino # 0 \/ ~create THEN [fs |-> fs, ret |-> Ok, ino |-> ino]
     ELSE IF entry.ret # Ok THEN entry
     ELSE IF data.ret # Ok THEN [data EXCEPT !.fs = entry.fs]
     ELSE LET set == [data EXCEPT !.fs.block[entry.ino][i] = data.ino]
          IN IF ent # 0 THEN set
             ELSE [set EXCEPT !.fs = [Dirtied(@, f) EXCEPT !.sin[f].din.indirect = entry.ino]]

\* sfs_bmap_get_sub_nolock: the entry of an indirect block, which is itself
\* allocated first where there is none, and given back if the second
\* allocation fails.
GetSub(fs, f, i, create) ==
  LET ent == fs.sin[f].din.indirect
      ino == IF ent = 0 THEN 0 ELSE fs.block[ent][i]
      entry == IF ent # 0 THEN [fs |-> fs, ret |-> Ok, ino |-> ent] ELSE BlockAlloc(fs)
      data == BlockAlloc(entry.fs)
  IN IF ino # 0 \/ ~create THEN [fs |-> fs, ret |-> Ok, ino |-> ino]
     ELSE IF entry.ret # Ok THEN entry
     ELSE IF data.ret # Ok
          THEN [data EXCEPT !.fs = IF ent # 0 THEN fs ELSE BlockFree(entry.fs, entry.ino).fs]
     ELSE LET set == [data EXCEPT !.fs.block[entry.ino][i] = data.ino]
          IN IF ent # 0 THEN set
             ELSE [set EXCEPT !.fs = [Dirtied(@, f) EXCEPT !.sin[f].din.indirect = entry.ino]]

\* sfs_bmap_get_nolock: the block of a file with the given index.
BmapGet(fs, f, index, create) ==
  LET ino == fs.sin[f].din.direct[index]
      new == BlockAlloc(fs)
  IN IF index >= SFS_NDIRECT
     THEN IF index - SFS_NDIRECT < SFS_BLK_NENTRY
          THEN GetSub(fs, f, index - SFS_NDIRECT, create)
          ELSE [fs |-> fs, ret |-> "index out of range", ino |-> 0]
     ELSE IF ino # 0 \/ ~create THEN [fs |-> fs, ret |-> Ok, ino |-> ino]
     ELSE IF new.ret # Ok THEN new
     ELSE [new EXCEPT !.fs = [Dirtied(@, f) EXCEPT !.sin[f].din.direct[index] = new.ino]]

\* sfs_bmap_load_nolock: the same, where the index may also be the one past the
\* last block, which is then created. It does not make the inode dirty.
BmapLoad(fs, f, index) ==
  LET blocks == fs.sin[f].din.blocks
      got == BmapGet(fs, f, index, index = blocks)
  IN IF index > blocks THEN [fs |-> fs, ret |-> "index <= din->blocks", ino |-> 0]
     ELSE IF got.ret # Ok THEN got
     ELSE IF got.ino \notin Block \ got.fs.free THEN [got EXCEPT !.ret = "block in use"]
     ELSE IF index = blocks THEN [got EXCEPT !.fs.sin[f].din.blocks = @ + 1]
     ELSE got

\* sfs_bmap_free_nolock: the indirect block stays when its entries go.
BmapFree(fs, f, index) ==
  LET din == fs.sin[f].din
      i == index - SFS_NDIRECT
  IN IF index < SFS_NDIRECT
     THEN IF din.direct[index] = 0 THEN Result(fs, Ok)
          ELSE Then(BlockFree(fs, din.direct[index]), LAMBDA s :
                 Result([Dirtied(s, f) EXCEPT !.sin[f].din.direct[index] = 0], Ok))
     ELSE IF i >= SFS_BLK_NENTRY \/ din.indirect = 0 \/ fs.block[din.indirect][i] = 0
          THEN Result(fs, Ok)
          ELSE BlockFree([fs EXCEPT !.block[din.indirect][i] = 0], fs.block[din.indirect][i])

\* sfs_bmap_truncate_nolock: the last block goes.
BmapTruncate(fs, f) ==
  LET blocks == fs.sin[f].din.blocks
  IN IF blocks = 0 THEN Result(fs, "din->blocks != 0")
     ELSE Then(BmapFree(fs, f, blocks - 1), LAMBDA s :
            Result([Dirtied(s, f) EXCEPT !.sin[f].din.blocks = @ - 1], Ok))

----------------------------------------------------------------------------
RoundUpDiv(n, d) == (n + d - 1) \div d
Steps(from, to) == [i \in 1 .. to - from |-> from + i - 1]

\* sfs_truncfile: resizes a file a block at a time. When a block is not to be
\* had, the ones before it stay and the size does not change.
Truncfile(fs, f, len) ==
  LET din == fs.sin[f].din
      tblks == RoundUpDiv(len, SFS_BLKSIZE)
      Grow(r, index) == Then(r, LAMBDA s : BmapLoad(s, f, index))
      Shrink(r, index) == Then(r, LAMBDA s : BmapTruncate(s, f))
      resized == IF din.blocks < tblks
                 THEN FoldLeft(Grow, Result(fs, Ok), Steps(din.blocks, tblks))
                 ELSE FoldLeft(Shrink, Result(fs, Ok), Steps(tblks, din.blocks))
  IN IF len < 0 \/ len > SFS_MAX_FILE_SIZE THEN Result(fs, "E_INVAL")
     ELSE IF din.size = len
          THEN Result(fs, IF tblks = din.blocks THEN Ok ELSE "tblks == din->blocks")
     ELSE Then(resized, LAMBDA s :
            Result([Dirtied(s, f) EXCEPT !.sin[f].din.size = len], Ok))

\* sfs_tryseek: a position past the end makes the file longer.
Tryseek(fs, f, pos) ==
  IF pos < 0 \/ pos >= SFS_MAX_FILE_SIZE THEN Result(fs, "E_INVAL")
  ELSE IF pos > fs.sin[f].din.size THEN Truncfile(fs, f, pos)
  ELSE Result(fs, Ok)

\* Mutant: a read of a part of a block begins where the block does.
Mut_BlockWords(words, from, to) == [i \in 1 .. to - from |-> words[i - 1]]

\* sfs_rbuf, sfs_rblock: the words of a block in [from, to)
BlockWords(words, from, to) == [i \in 1 .. to - from |-> words[from + i - 1]]

\* sfs_io_nolock: block by block, the words that [offset, endpos) has in it. The
\* result also has alen, the words moved, and data, the ones read. The size is
\* updated even when the first block of a write is not to be had: to offset.
Io(fs, f, offset, buf, len, write) ==
  LET size == fs.sin[f].din.size
      Least(a, b) == IF a < b THEN a ELSE b
      endpos == Least(offset + len, IF write THEN SFS_MAX_FILE_SIZE ELSE size)
      \* The piece of the block that was loaded for index
      Move(r, index, loaded) ==
        LET base == index * SFS_BLKSIZE
            from == IF base < offset THEN offset - base ELSE 0
            to == Least(SFS_BLKSIZE, endpos - base)
            words == [w \in from .. to - 1 |-> buf[base + w - offset + 1]]
            read == BlockWords(loaded.fs.block[loaded.ino], from, to)
        IN IF loaded.ret # Ok THEN [r EXCEPT !.fs = loaded.fs, !.ret = loaded.ret]
           ELSE [fs |-> IF write THEN [loaded.fs EXCEPT !.block[loaded.ino] = words @@ @]
                        ELSE loaded.fs,
                 ret |-> Ok,
                 alen |-> r.alen + to - from,
                 data |-> IF write THEN <<>> ELSE r.data \o read]
      Piece(r, index) ==
        IF r.ret # Ok THEN r ELSE Move(r, index, BmapLoad(r.fs, f, index))
      Resize(moved) ==
        IF offset + moved.alen > size
        THEN [moved EXCEPT !.fs = [Dirtied(@, f) EXCEPT !.sin[f].din.size = offset + moved.alen]]
        ELSE moved
      start == [fs |-> fs, ret |-> Ok, alen |-> 0, data |-> <<>>]
  IN IF offset >= SFS_MAX_FILE_SIZE THEN [start EXCEPT !.ret = "E_INVAL"]
     ELSE IF len = 0 \/ (~write /\ offset >= size) THEN start
     ELSE Resize(FoldLeft(Piece, start,
                   Steps(offset \div SFS_BLKSIZE, RoundUpDiv(endpos, SFS_BLKSIZE))))
============================================================================
