------------------------------ MODULE SampleFifo ------------------------------
(***************************************************************************)
(* What engine::dsp::RingBuffer promises its two threads: a bounded FIFO   *)
(* of samples that is written and read in blocks.  A block goes in whole   *)
(* or not at all, and comes out whole or not at all; a refused call is a   *)
(* stuttering step.                                                        *)
(***************************************************************************)
EXTENDS Naturals, Sequences

CONSTANTS
  Block,     \* the blocks of samples push() may be called with
  Capacity   \* how many samples may wait

VARIABLES
  fifo,      \* samples written and not read yet, oldest first
  taken      \* history: all samples read, in the order they were read

vars == <<fifo, taken>>

Init ==
  /\ fifo = <<>>
  /\ taken = <<>>

\* push() returned true.
Push(b) ==
  /\ Len(fifo) + Len(b) <= Capacity
  /\ fifo' = fifo \o b
  /\ UNCHANGED taken

\* pop() returned true.
Pop(n) ==
  /\ taken' = taken \o SubSeq(fifo, 1, n)
  /\ fifo' = SubSeq(fifo, n + 1, Len(fifo))

\* reset(): whatever waits is discarded.
Clear ==
  /\ fifo' = <<>>
  /\ UNCHANGED taken

Next ==
  \/ \E b \in Block : Push(b)
  \/ \E n \in 1 .. Len(fifo) : Pop(n)
  \/ Clear

Spec == Init /\ [][Next]_vars
=============================================================================
