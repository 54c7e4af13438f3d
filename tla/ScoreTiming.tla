----------------------------- MODULE ScoreTiming -----------------------------
(***************************************************************************)
(* From score positions to clock times: the tempo map (TempoMap.kt) and    *)
(* the hit window around a note (ScoreConfig.windowMs).                    *)
(*                                                                         *)
(* A position is in hundredths of a beat and a time in units of 0.1 ms, so *)
(* that every quotient below is exact for the tempos of the models (those  *)
(* that divide 6000).  Entries with the linear curve, whose integral is a  *)
(* logarithm, are not modelled.                                            *)
(***************************************************************************)
EXTENDS Integers, Sequences, FiniteSetsExt

CONSTANTS
  TempoPoints,   \* the map's entries, [atBeat, bpm], by atBeat
  RefBpm,        \* the tempo at which the window widths are defined
  EarlyWidth,    \* baseEarlyMs, or beginnerEarlyMs for a beginner
  LateWidth      \* baseLateMs, or beginnerLateMs for a beginner

UnitsPerMinute == 600000
BeatParts == 100

\* What the constructors require, and what keeps the arithmetic exact.
ASSUME TimingAssumption ==
  /\ TempoPoints # <<>>
  /\ TempoPoints[1].atBeat = 0
  /\ \A i, j \in DOMAIN TempoPoints :
       i < j => TempoPoints[i].atBeat < TempoPoints[j].atBeat
  /\ \A i \in DOMAIN TempoPoints :
       (UnitsPerMinute \div BeatParts) % TempoPoints[i].bpm = 0
  /\ {RefBpm, EarlyWidth, LateWidth} \subseteq Nat \ {0}

\* The bpm in force at a beat: that of the last entry at or before it.
BpmAt(beat) ==
  TempoPoints[Max({i \in DOMAIN TempoPoints : TempoPoints[i].atBeat <= beat})].bpm

\* The time at a beat: the sum of the segments, each at its own tempo, up to
\* the beat.
BeatToTime(beat) ==
  LET segmentEnd(i) ==
        IF i = Len(TempoPoints) THEN beat ELSE Min({beat, TempoPoints[i + 1].atBeat})
      segment(i) ==
        (segmentEnd(i) - TempoPoints[i].atBeat)
          * (UnitsPerMinute \div (BeatParts * TempoPoints[i].bpm))
  IN  MapThenSumSet(segment, {i \in DOMAIN TempoPoints : TempoPoints[i].atBeat < beat})

\* A width is scaled by refBpm / bpm, clamped to [1/2, 2].
Scaled(width, beat) ==
  Max({width \div 2, Min({2 * width, (width * RefBpm) \div BpmAt(beat)})})

\* The note at a beat, with the edges of its hit window.
ExpectedAt(pitch, beat) ==
  [pitch  |-> pitch,
   at     |-> BeatToTime(beat),
   opens  |-> BeatToTime(beat) - Scaled(EarlyWidth, beat),
   closes |-> BeatToTime(beat) + Scaled(LateWidth, beat)]
=============================================================================
