------------------------------ MODULE EventFifo ------------------------------
(***************************************************************************)
(* What engine::NoteEventQueue promises its two threads: a bounded FIFO of *)
(* note events.  Push and pop never block and are all-or-nothing, so a     *)
(* refused call is a stuttering step here.  Nothing is said of slots,      *)
(* indices or the memory order that NoteEventQueue.tla is about.           *)
(***************************************************************************)
EXTENDS Naturals, Sequences

CONSTANTS
  Event,     \* the note events
  Capacity   \* how many accepted events may wait

VARIABLES
  fifo,      \* accepted events that no pop has taken, oldest first
  received   \* the event the latest successful pop returned (initially none)

vars == <<fifo, received>>

Init == fifo = <<>>

\* push() returned true.
Push(e) ==
  /\ Len(fifo) < Capacity
  /\ fifo' = Append(fifo, e)
  /\ UNCHANGED received

\* pop() returned true.
Pop ==
  /\ fifo # <<>>
  /\ received' = Head(fifo)
  /\ fifo' = Tail(fifo)

\* reset(): whatever waits is discarded.
Clear ==
  /\ fifo' = <<>>
  /\ UNCHANGED received

Next ==
  \/ \E e \in Event : Push(e)
  \/ Pop
  \/ Clear

Spec == Init /\ [][Next]_vars
=============================================================================
