----------------------------- MODULE SpscCounters -----------------------------
(***************************************************************************)
(* The counters that engine::NoteEventQueue and engine::dsp::RingBuffer    *)
(* share as a discipline: head_ and tail_ are size_t counters that only    *)
(* grow, wrap at Word, and are masked into the storage.  Each is stored    *)
(* (release) by one thread and loaded (acquire) by the other.              *)
(***************************************************************************)
EXTENDS Integers

CONSTANTS
  Capacity,   \* capacity_
  Word        \* 2^w, the range of size_t

\* The constructors refuse a capacity that is not a power of two: a power of
\* two is what makes it divide the range of size_t, which is also wide enough
\* to tell a full storage from an empty one.
ASSUME CounterAssumption ==
  /\ Capacity \in Nat \ {0}
  /\ Word \in Nat
  /\ \E k \in 2 .. Word : Word = k * Capacity

Index == 0 .. Word - 1

\* Definitions named Faulty... are seeded faults: each replaces the definition
\* after it in a run that must then fail, and is used nowhere else.

\* size_t arithmetic: counters are added to and subtracted modulo Word.
FaultyPlus(i, n) == i + n
Plus(i, n) == (i + n) % Word
Distance(i, j) == (i - j) % Word

\* index & mask_
Slot(i) == i % Capacity

\* What an acquire load can return to a thread that last saw seen: anything
\* between that and the newest value, for coherence forbids going back.
Visible(seen, newest) == {Plus(seen, n) : n \in 0 .. Distance(newest, seen)}
=============================================================================
