------------------------------- MODULE Matcher -------------------------------
(***************************************************************************)
(* Matcher.match: the batch judgement of a sequence of played events       *)
(* against the expected notes.  The notes are taken in canonical order;    *)
(* each consumes the closest event of its own pitch that lies in its hit   *)
(* window and that no earlier note consumed.                               *)
(*                                                                         *)
(* A note is [pitch, at, opens, closes], an event [pitch, time].  Events   *)
(* are in the order of their times, which is the order the code sorts them *)
(* into; two events that agree in pitch and time are interchangeable.      *)
(***************************************************************************)
EXTENDS Integers, Sequences

CONSTANT
  PerfectBand    \* perfectBandMs

Verdict == {"MISSED", "WRONG", "GOOD", "PERFECT"}
Hit == {"GOOD", "PERFECT"}

\* No event: the code's null.
NoMatch == 0

Deviation(note, event) ==
  IF event.time >= note.at THEN event.time - note.at ELSE note.at - event.time

\* Definitions named Faulty... are seeded faults: each replaces the definition
\* after it in a run that must then fail, and is used nowhere else.
FaultyInWindow(note, event) == event.time >= note.opens
InWindow(note, event) ==
  /\ event.time >= note.opens
  /\ event.time <= note.closes

\* The events a note may consume, and the one it prefers: the least
\* deviation, and among equals the earliest.
Candidates(note, events, consumed) ==
  {i \in (DOMAIN events) \ consumed :
     events[i].pitch = note.pitch /\ InWindow(note, events[i])}

FaultyPrefers(note, events, i, j) == i >= j
Prefers(note, events, i, j) ==
  \/ Deviation(note, events[i]) < Deviation(note, events[j])
  \/ Deviation(note, events[i]) = Deviation(note, events[j]) /\ i <= j

Closest(note, events, consumed) ==
  LET candidates == Candidates(note, events, consumed)
  IN  {i \in candidates : \A j \in candidates : Prefers(note, events, i, j)}

BestEqualPitchEvent(note, events, consumed) ==
  LET closest == Closest(note, events, consumed)
  IN  IF closest = {} THEN NoMatch ELSE CHOOSE i \in closest : TRUE

\* For each note the event it consumes.
Matching(notes, events) ==
  LET matched[k \in 1 .. Len(notes)] ==
        BestEqualPitchEvent(notes[k], events, {matched[j] : j \in 1 .. k - 1})
  IN  matched

ConsumedBefore(notes, events, k) == {Matching(notes, events)[j] : j \in 1 .. k - 1}

\* Some unconsumed event of another pitch lies in the window.
WrongInWindow(note, events, consumed) ==
  \E i \in (DOMAIN events) \ consumed :
    events[i].pitch # note.pitch /\ InWindow(note, events[i])

Judge(note, events, consumed) ==
  LET best == BestEqualPitchEvent(note, events, consumed)
  IN  IF best # NoMatch
      THEN IF Deviation(note, events[best]) <= PerfectBand THEN "PERFECT" ELSE "GOOD"
      ELSE IF WrongInWindow(note, events, consumed) THEN "WRONG" ELSE "MISSED"

\* The verdicts of all notes, in canonical order.
Verdicts(notes, events) ==
  [k \in 1 .. Len(notes) |->
     Judge(notes[k], events, ConsumedBefore(notes, events, k))]
=============================================================================
