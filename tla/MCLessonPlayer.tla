--------------------------- MODULE MCLessonPlayer ---------------------------
(***************************************************************************)
(* A song at 240 bpm with a chunk of three notes, two of them a chord, and *)
(* a chunk of one; half a second each.  Frames of 50 and 100 ms, the       *)
(* code's largest.                                                         *)
(***************************************************************************)
EXTENDS LessonPlayer

MCTempoPoints == <<[atBeat |-> 0, bpm |-> 240]>>
MCDefaultBpm == 240
MCRefBpm == 120
MCEarlyWidth == 1200
MCLateWidth == 1800
MCPerfectBand == 500

MCPitch == {60, 62}
MCChunks == <<[startBeat |-> 0, endBeat |-> 200], [startBeat |-> 200, endBeat |-> 400]>>
MCPackNotes ==
  <<[pitch |-> 60, beat |-> 0], [pitch |-> 62, beat |-> 0],
    [pitch |-> 62, beat |-> 100], [pitch |-> 60, beat |-> 200]>>

MCSongs == {ToExpectedNotes(Chunks[c]) : c \in DOMAIN Chunks}
MCFrameDeltas == {500, 1000}
MCMaxFrame == 11000
MCMaxPlayed == 2
MCInstants == {500 * n : n \in 0 .. 22}
=============================================================================
