----------------------------- MODULE StdinSpec -----------------------------
(***************************************************************************)
(* What the console input device is to those who type and those who read:  *)
(* a queue of characters. Every character is read once, in the order of    *)
(* typing, as long as the readers keep up; when the queue is full, a       *)
(* character that is typed takes the place of the one that is next to be   *)
(* read.                                                                   *)
(***************************************************************************)
EXTENDS Naturals, Sequences

CONSTANTS STDIN_BUFSIZE, Char
VARIABLES
  input,     \* the characters typed and not read
  delivered  \* the characters the last step gave to a reader

SpecInit == input = <<>> /\ delivered = <<>>

Type(c) ==
  /\ input' = IF Len(input) < STDIN_BUFSIZE THEN Append(input, c)
              ELSE <<c>> \o Tail(input)
  /\ delivered' = <<>>

Read(k) ==
  /\ delivered' = SubSeq(input, 1, k)
  /\ input' = SubSeq(input, k + 1, Len(input))

SpecNext == (\E c \in Char : Type(c)) \/ \E k \in 0 .. Len(input) : Read(k)

StdinSpec == SpecInit /\ [][SpecNext]_<<input, delivered>>
============================================================================
