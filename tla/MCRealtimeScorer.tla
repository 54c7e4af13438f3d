-------------------------- MODULE MCRealtimeScorer --------------------------
(***************************************************************************)
(* Songs over a tempo that jumps from 60 to 240 bpm at beat 8, the case of *)
(* RealtimeScorer's KDoc: the wide window of a note before the jump closes *)
(* after the narrow windows of the notes behind it.  The songs have equal  *)
(* and different pitches in every order.                                   *)
(***************************************************************************)
EXTENDS RealtimeScorer, ScoreTiming

MCTempoPoints == <<[atBeat |-> 0, bpm |-> 60], [atBeat |-> 800, bpm |-> 240]>>
MCRefBpm == 120
MCEarlyWidth == 1200
MCLateWidth == 1800
MCPerfectBand == 500

MCPitch == {60, 62}
MCMaxPlayed == 3

\* Notes at beats 7.9, 8.01 and 8.06.
Beats == <<790, 801, 806>>
Song(pitches) == [k \in DOMAIN pitches |-> ExpectedAt(pitches[k], Beats[k])]
MCSongs ==
  {Song(<<60, 60>>), Song(<<60, 62, 60>>), Song(<<60, 60, 60>>)}

\* Where something can change for a note: the edges of its window and of the
\* PERFECT band, and just after its close.
Critical(note) ==
  {note.opens, note.at + MCPerfectBand, note.closes, note.closes + 1}
MCInstants ==
  UNION {Critical(ExpectedAt(60, Beats[k])) : k \in DOMAIN Beats}

\* The windows are those of the code's defaults.
ASSUME StandardWindows == LateAtLeastEarly
=============================================================================
