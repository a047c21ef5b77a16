------------------------------ MODULE FileSpec ------------------------------
(***************************************************************************)
(* What files are to those who use them, with no inodes and no blocks: each*)
(* is a sequence of words, and a descriptor is a place in one. The disk may*)
(* be full at any time: a write then stores a first part of its words, and *)
(* a seek that would make a file longer fails. Any call may also stop the  *)
(* kernel.                                                                 *)
(***************************************************************************)
EXTENDS Integers, Sequences

CONSTANTS File, Proc, Fd, OpenFlags, Buffers, Lengths, Positions, SFS_MAX_FILE_SIZE
VARIABLES
  content,   \* the words of every file
  fd_array,  \* the descriptor table of every process that has one
  delivered, \* the words that the last call gave to its caller
  up         \* the kernel runs

specVars == <<content, fd_array, delivered, up>>

Nowhere == [node |-> "none", pos |-> 0, readable |-> FALSE, writable |-> FALSE]
Empty == [i \in Fd |-> Nowhere]
Alive == DOMAIN fd_array
Have(p, i) == p \in Alive /\ fd_array[p][i] # Nowhere

SpecInit ==
  /\ content = [f \in File |-> <<>>]
  /\ \E p \in Proc : fd_array = [q \in {p} |-> Empty]
  /\ delivered = <<>>
  /\ up = TRUE

\* A file made as long as n, with words that read as 0
Padded(c, n) == [i \in 1 .. IF n > Len(c) THEN n ELSE Len(c) |-> IF i <= Len(c) THEN c[i] ELSE 0]

\* The content c after buf was stored at offset pos
Stored(c, pos, buf) ==
  [i \in DOMAIN Padded(c, pos + Len(buf)) |->
     IF i > pos /\ i <= pos + Len(buf) THEN buf[i - pos] ELSE Padded(c, pos)[i]]

Tables(t) == fd_array' = t /\ UNCHANGED up

SOpen(p, f, flags) ==
  /\ ~(flags.trunc /\ flags.mode = "O_RDONLY") /\ ~(flags.excl /\ flags.creat)
  /\ LET c == IF flags.trunc \/ flags.creat THEN <<>> ELSE content[f]
         file == [node |-> f, pos |-> IF flags.append THEN Len(c) ELSE 0,
                  readable |-> flags.mode # "O_WRONLY", writable |-> flags.mode # "O_RDONLY"]
     IN /\ \E i \in Fd : /\ ~Have(p, i) /\ \A j \in Fd : j < i => Have(p, j)
                         /\ Tables([fd_array EXCEPT ![p][i] = file])
        /\ content' = [content EXCEPT ![f] = c]

\* What a read of len words at pos gets
Words(c, pos, len) == SubSeq(c, pos + 1, IF pos + len > Len(c) THEN Len(c) ELSE pos + len)

SRead(p, i, len) ==
  LET file == fd_array[p][i] IN
  /\ file.readable
  /\ delivered' = Words(content[file.node], file.pos, len)
  /\ Tables([fd_array EXCEPT ![p][i].pos = @ + Len(delivered')])
  /\ UNCHANGED content

\* A write that stores nothing still makes the file as long as its offset.
SWrite(p, i, buf) ==
  LET file == fd_array[p][i] IN
  /\ file.writable
  /\ \E n \in 0 .. Len(buf) :
       /\ Tables([fd_array EXCEPT ![p][i].pos = @ + n])
       /\ content' = [content EXCEPT ![file.node] = Stored(@, file.pos, SubSeq(buf, 1, n))]

SSeek(p, i, pos) ==
  /\ pos \in 0 .. SFS_MAX_FILE_SIZE - 1
  /\ Tables([fd_array EXCEPT ![p][i].pos = pos])
  /\ content' = [content EXCEPT ![fd_array[p][i].node] = Padded(@, pos)]

\* A call that fails, or that only moves what is in memory to the disk
SNothing == Tables(fd_array) /\ UNCHANGED content

SClose(p, i) == Tables([fd_array EXCEPT ![p][i] = Nowhere]) /\ UNCHANGED content

SDup(p, i, j) ==
  /\ ~Have(p, j)
  /\ Tables([fd_array EXCEPT ![p][j] = fd_array[p][i]])
  /\ UNCHANGED content

SFork(p, q) ==
  /\ q \in Proc \ Alive
  /\ Tables([x \in Alive \cup {q} |-> IF x = q THEN fd_array[p] ELSE fd_array[x]])
  /\ UNCHANGED content

SExecve(p) == Tables([fd_array EXCEPT ![p] = Empty]) /\ UNCHANGED content
SExit(p) == Tables([x \in Alive \ {p} |-> fd_array[x]]) /\ UNCHANGED content

Stop == up' = FALSE /\ UNCHANGED <<content, fd_array>>

\* The calls that read nothing
SCall(p) ==
  \/ \E f \in File, flags \in OpenFlags : SOpen(p, f, flags)
  \/ \E i \in Fd : Have(p, i) /\
       \/ SClose(p, i)
       \/ \E buf \in Buffers : SWrite(p, i, buf)
       \/ \E pos \in Positions : SSeek(p, i, pos)
       \/ \E j \in Fd : SDup(p, i, j)
  \/ \E q \in Proc : SFork(p, q)
  \/ SExecve(p)
  \/ SExit(p)

SpecNext ==
  /\ up
  /\ \/ (Stop \/ SNothing \/ \E p \in Alive : SCall(p)) /\ delivered' = <<>>
     \/ \E p \in Alive, i \in Fd, len \in Lengths : Have(p, i) /\ SRead(p, i, len)

FileSpec == SpecInit /\ [][SpecNext]_specVars
=============================================================================
