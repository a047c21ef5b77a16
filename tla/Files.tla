------------------------------- MODULE Files -------------------------------
(***************************************************************************)
(* Open files: the descriptor tables of the processes (kern/fs/file.c and  *)
(* fs.c), the references that the virtual file system keeps to an inode    *)
(* (kern/fs/vfs) and, below them, the simple file system of Sfs.           *)
(*                                                                         *)
(* A system call runs to its end with no other process in between, so that *)
(* the states FD_INIT and FD_CLOSED of a descriptor and the count of those *)
(* who use it are never seen between two calls: a descriptor is Closed     *)
(* (FD_NONE) or has a file. Every process has a table of its own; what     *)
(* processes share is the inodes, after both opened the same file or after *)
(* fork.                                                                   *)
(***************************************************************************)
EXTENDS Sfs, FiniteSets

CONSTANTS
  Proc,       \* the processes
  Fd,         \* the descriptors of a table from 2 on, a set of numbers
  OpenFlags,  \* the open_flags in use, records [mode, creat, excl, trunc, append]
  Buffers,    \* what is written in one call
  Lengths,    \* how much is read in one call
  Positions   \* where a seek goes, whatever whence it is counted from

VARIABLES
  sfs,        \* the file system
  fd_array,   \* the descriptor table of every process that has one
  lost,       \* for every file, the descriptors on it in tables without a process
  panicked,   \* the assertion that stopped the kernel, or "no"
  delivered,  \* history: the words that the last call gave to its caller
  outgrown    \* history: some file has ever been longer than its blocks

vars == <<sfs, fd_array, lost, panicked, delivered, outgrown>>

Closed == [node |-> "none", pos |-> 0, readable |-> FALSE, writable |-> FALSE]
Running == DOMAIN fd_array
NewTable == [i \in Fd |-> Closed]

Init ==
  /\ sfs = [free |-> Block, unused |-> Cardinality(Block),
            block |-> [b \in Block |-> Stale],
            disk |-> [f \in File |-> EmptyInode], sin |-> [f \in File |-> NotLoaded]]
  /\ \E p \in Proc : fd_array = [q \in {p} |-> NewTable]
  /\ lost = [f \in File |-> 0]
  /\ panicked = "no"
  /\ delivered = <<>>
  /\ outgrown = FALSE

----------------------------------------------------------------------------
\* sfs_fsync, also sfs_close
Fsync(fs, f) ==
  IF fs.sin[f].dirty
  THEN Result([fs EXCEPT !.disk[f] = fs.sin[f].din, !.sin[f].dirty = FALSE], Ok)
  ELSE Result(fs, Ok)

\* inode_check, before every operation of an inode
Checked(fs, f) ==
  IF fs.sin[f].ref_count < fs.sin[f].open_count THEN Result(fs, "ref_count >= open_count")
  ELSE IF fs.sin[f].ref_count >= MAX_INODE_COUNT THEN Result(fs, "ref_count < MAX_INODE_COUNT")
  ELSE Result(fs, Ok)

\* sfs_reclaim and inode_kill. A file always has links: nothing removes one.
Reclaim(fs, f) ==
  LET count == fs.sin[f].reclaim_count - 1
      left == [fs EXCEPT !.sin[f].reclaim_count = count]
  IN IF count < 0 THEN Result(fs, "reclaim_count > 0")
     ELSE IF count # 0 \/ fs.sin[f].ref_count # 0 THEN Result(left, "E_BUSY")
     ELSE Then(Fsync(left, f), LAMBDA s :
            Result([s EXCEPT !.sin[f] = NotLoaded],
                   IF s.sin[f].open_count # 0 THEN "killed in use" ELSE Ok))

\* sfs_load_inode, at the end of a lookup: the inode in memory gets a reference,
\* or is read from the disk.
LoadInode(fs, f) ==
  LET sin == fs.sin[f] IN
  [fs EXCEPT !.sin[f] =
     IF sin # NotLoaded
     THEN [sin EXCEPT !.ref_count = @ + 1,
                      !.reclaim_count = IF sin.ref_count = 0 THEN @ + 1 ELSE @]
     ELSE [NotLoaded EXCEPT !.din = fs.disk[f], !.reclaim_count = 1, !.ref_count = 1]]

\* inode_ref_dec warns of a reclaim that fails, and goes on.
RefDec(fs, f) ==
  LET left == [fs EXCEPT !.sin[f].ref_count = @ - 1]
      reclaimed == Reclaim(left, f)
  IN IF fs.sin[f].ref_count = 0 THEN Result(fs, "ref_count > 0")
     ELSE IF left.sin[f].ref_count # 0 THEN Result(left, Ok)
     ELSE IF Panicked(reclaimed) THEN reclaimed ELSE Result(reclaimed.fs, Ok)

\* inode_open_dec
OpenDec(fs, f) ==
  LET left == [fs EXCEPT !.sin[f].open_count = @ - 1]
  IN IF fs.sin[f].open_count = 0 THEN Result(fs, "open_count > 0")
     ELSE IF left.sin[f].open_count # 0 THEN Result(left, Ok)
     ELSE Then(Checked(left, f), LAMBDA s : Fsync(s, f))

\* Mutant: the copy is not counted as open.
Mut_Share(fs, f) == [fs EXCEPT !.sin[f].ref_count = @ + 1]

\* fd_array_dup on the side of the inode
Share(fs, f) == [fs EXCEPT !.sin[f].ref_count = @ + 1, !.sin[f].open_count = @ + 1]

\* Mutant: the reference goes before the use.
Mut_VfsClose(fs, f) == Then(RefDec(fs, f), LAMBDA s : OpenDec(s, f))

\* vfs_close
VfsClose(fs, f) == Then(OpenDec(fs, f), LAMBDA s : RefDec(s, f))

\* vfs_open truncates a file that it has opened, and gives it up if it cannot.
Empty(fs, f) ==
  LET emptied == Then(Checked(fs, f), LAMBDA s : Truncfile(s, f, 0))
      Undo(failed, undone) == IF Panicked(undone) THEN undone ELSE Result(undone.fs, failed)
      Kept(r) == IF r.ret = Ok \/ Panicked(r) THEN r ELSE Undo(r.ret, VfsClose(r.fs, f))
  IN Kept(emptied)

\* vfs_open of a file that exists: O_CREAT truncates it like O_TRUNC, and with
\* O_EXCL fails but keeps the reference that the lookup took. vop_create is not
\* there to be called, hence all files exist.
VfsOpen(fs, f, flags) ==
  LET found == LoadInode(fs, f)
      opened == Then(Checked(found, f), LAMBDA s :
                  Result([s EXCEPT !.sin[f].open_count = @ + 1], Ok))
  IN IF flags.trunc /\ flags.mode = "O_RDONLY" THEN Result(fs, "E_INVAL")
     ELSE IF flags.excl /\ flags.creat THEN Result(found, "E_EXISTS")
     ELSE IF ~flags.trunc /\ ~flags.creat THEN opened
     ELSE Then(opened, LAMBDA s : Empty(s, f))

----------------------------------------------------------------------------
\* fd2file: a call on a descriptor that is not open fails and changes nothing.
Opened(p, i) == p \in Running /\ fd_array[p][i] # Closed
FreeFds(p) == {i \in Fd : fd_array[p][i] = Closed}

\* The inode of a file: the one in memory, when there is one
Current(fs, f) == IF fs.sin[f] # NotLoaded THEN fs.sin[f].din ELSE fs.disk[f]
Outgrown(fs) ==
  \E f \in File : Current(fs, f).size > Current(fs, f).blocks * SFS_BLKSIZE

\* The call ends with the file system in r, or stops the kernel.
Finish(r, tables) ==
  IF Panicked(r) THEN panicked' = r.ret /\ UNCHANGED <<sfs, fd_array, outgrown>>
  ELSE /\ sfs' = r.fs /\ fd_array' = tables
       /\ outgrown' = (outgrown \/ Outgrown(r.fs))
       /\ UNCHANGED panicked

\* file_open: O_APPEND goes to the end of the file once, here.
Open(p, f, flags) ==
  /\ FreeFds(p) # {}
  /\ LET i == CHOOSE i \in FreeFds(p) : \A j \in FreeFds(p) : i <= j
         r == VfsOpen(sfs, f, flags)
         file == [node |-> f,
                  pos |-> IF flags.append THEN r.fs.sin[f].din.size ELSE 0,
                  readable |-> flags.mode # "O_WRONLY",
                  writable |-> flags.mode # "O_RDONLY"]
     IN Finish(r, IF r.ret = Ok THEN [fd_array EXCEPT ![p][i] = file] ELSE fd_array)

\* file_close
Close(p, i) ==
  /\ Opened(p, i)
  /\ Finish(VfsClose(sfs, fd_array[p][i].node), [fd_array EXCEPT ![p][i] = Closed])

\* file_read: what was read before an error is delivered too.
Read(p, i, len) ==
  /\ Opened(p, i) /\ fd_array[p][i].readable
  /\ LET file == fd_array[p][i]
         r == Then(Checked(sfs, file.node), LAMBDA s :
                Io(s, file.node, file.pos, <<>>, len, FALSE))
     IN /\ Finish(r, [fd_array EXCEPT ![p][i].pos = @ + r.alen])
        /\ delivered' = IF Panicked(r) THEN <<>> ELSE r.data

\* file_write
Write(p, i, buf) ==
  /\ Opened(p, i) /\ fd_array[p][i].writable
  /\ LET file == fd_array[p][i]
         r == Then(Checked(sfs, file.node), LAMBDA s :
                Io(s, file.node, file.pos, buf, Len(buf), TRUE))
     IN Finish(r, [fd_array EXCEPT ![p][i].pos = @ + r.alen])

\* file_seek, to the position that whence comes to
Seek(p, i, pos) ==
  /\ Opened(p, i)
  /\ LET file == fd_array[p][i]
         r == Then(Checked(sfs, file.node), LAMBDA s : Tryseek(s, file.node, pos))
     IN Finish(r, IF r.ret = Ok THEN [fd_array EXCEPT ![p][i].pos = pos] ELSE fd_array)

\* file_fsync
FileFsync(p, i) ==
  /\ Opened(p, i)
  /\ Finish(Then(Checked(sfs, fd_array[p][i].node), LAMBDA s : Fsync(s, fd_array[p][i].node)),
            fd_array)

\* file_dup, to a descriptor that is asked for or to the first free one: the
\* copy has a position of its own.
Dup(p, i, j) ==
  /\ Opened(p, i) /\ j \in FreeFds(p)
  /\ Finish(Result(Share(sfs, fd_array[p][i].node), Ok),
            [fd_array EXCEPT ![p][j] = fd_array[p][i]])

\* The descriptors of p in the order in which loops visit them
Descriptors(p) == SetToSortSeq({i \in Fd : fd_array[p][i] # Closed}, <)

\* copy_fs gives the child a copy of the table.
Shared(p) == FoldLeft(LAMBDA fs, i : Share(fs, fd_array[p][i].node), sfs, Descriptors(p))

\* do_fork
Fork(p, q) ==
  /\ p \in Running /\ q \in Proc \ Running
  /\ Finish(Result(Shared(p), Ok), [x \in Running \cup {q} |->
                                      IF x = q THEN fd_array[p] ELSE fd_array[x]])

\* do_fork, when there is no memory for copy_mm: nothing jumps to
\* bad_fork_cleanup_fs, and the copy of the table stays without a process.
ForkFails(p) ==
  /\ p \in Running
  /\ Finish(Result(Shared(p), Ok), fd_array)
  /\ lost' = [f \in File |-> lost[f] + Cardinality({i \in Fd : fd_array[p][i].node = f})]

CloseEach(p) ==
  FoldLeft(LAMBDA r, i : Then(r, LAMBDA s : VfsClose(s, fd_array[p][i].node)),
           Result(sfs, Ok), Descriptors(p))

\* do_execve: files_closeall
Execve(p) ==
  /\ p \in Running
  /\ Finish(CloseEach(p), [fd_array EXCEPT ![p] = NewTable])

\* do_exit: files_destroy
Exit(p) ==
  /\ p \in Running
  /\ Finish(CloseEach(p), [x \in Running \ {p} |-> fd_array[x]])

\* The calls that read nothing
Call(p) ==
  \/ \E f \in File, flags \in OpenFlags : Open(p, f, flags)
  \/ \E i \in Fd : \/ Close(p, i)
                   \/ \E buf \in Buffers : Write(p, i, buf)
                   \/ \E pos \in Positions : Seek(p, i, pos)
                   \/ FileFsync(p, i)
                   \/ \E j \in Fd : Dup(p, i, j)
  \/ \E q \in Proc : Fork(p, q)
  \/ Execve(p)
  \/ Exit(p)

Next ==
  /\ panicked = "no"
  /\ \E p \in Running :
       \/ Call(p) /\ UNCHANGED lost /\ delivered' = <<>>
       \/ ForkFails(p) /\ delivered' = <<>>
       \/ \E i \in Fd, len \in Lengths : Read(p, i, len) /\ UNCHANGED lost

Spec == Init /\ [][Next]_vars

----------------------------------------------------------------------------
\* The block numbers a file holds, by where they are written down
Held(f) ==
  LET din == Current(sfs, f)
      direct == {<<f, "direct", i, din.direct[i]>> : i \in DOMAIN din.direct}
      indirect == {<<f, "indirect", 0, din.indirect>>}
      entries == IF din.indirect = 0 THEN {}
                 ELSE {<<f, "entry", w, sfs.block[din.indirect][w]>> : w \in Word}
  IN {h \in direct \cup indirect \cup entries : h[4] # 0}

\* Every block is free or is held once, by one file, and super.unused_blocks
\* says how many are free: over failed allocations, truncations, and inodes
\* dropped from memory and read again (sfs_inode.c, sfs_bmap_get_nolock to
\* sfs_truncfile).
BlocksAccounted ==
  LET held == UNION {Held(f) : f \in File} IN
  /\ \A g, h \in held : g[4] = h[4] => g = h
  /\ {h[4] : h \in held} = Block \ sfs.free
  /\ sfs.unused = Cardinality(sfs.free)

\* open_count is the number of descriptors on an inode, in all tables, those that
\* failed forks left behind included, and there are at least as many references
\* (inode.c, vfs_open, fd_array_dup and the closing loops of fs.c): no inode is
\* dropped while it is in use.
CountsExact ==
  \A f \in File :
    LET users == {<<p, i>> \in Running \X Fd : fd_array[p][i].node = f} IN
    /\ sfs.sin[f].open_count = Cardinality(users) + lost[f]
    /\ sfs.sin[f].ref_count >= sfs.sin[f].open_count

\* Of the assertions of the file system, only those of ReachablePanics fail.
AssertionsHold == panicked \notin OtherPanics

\* The files and descriptors of FileSpec, through the blocks of the files.
\* A word that no block holds reads as 0.
Content == [f \in File |->
  LET din == Current(sfs, f)
      BlockOf(index) ==
        IF index < SFS_NDIRECT THEN din.direct[index]
        ELSE IF din.indirect = 0 THEN 0 ELSE sfs.block[din.indirect][index - SFS_NDIRECT]
  IN [n \in 1 .. din.size |->
        LET b == BlockOf((n - 1) \div SFS_BLKSIZE)
        IN IF b = 0 THEN 0 ELSE sfs.block[b][(n - 1) % SFS_BLKSIZE]]]

Abstract == INSTANCE FileSpec WITH content <- Content, up <- panicked = "no"

\* Reads deliver what was written last, to whichever descriptor, as many words as
\* there are, holes and words past an earlier end read as 0, and a call on one file
\* or descriptor leaves the others alone (sfs_io_nolock and sfs_truncfile over
\* file.c): up to the first write that fails and still makes its file longer.
ReadsContent ==
  /\ Abstract!SpecInit
  /\ [][~outgrown' => [Abstract!SpecNext]_Abstract!specVars]_vars
============================================================================
