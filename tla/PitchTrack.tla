------------------------------ MODULE PitchTrack ------------------------------
(***************************************************************************)
(* From pitch frames to notes (pipeline.eval.model_wrappers): the frames   *)
(* of librosa's pyin or of the numpy YIN that stands in for it, and their  *)
(* segmentation into notes.                                                *)
(*                                                                         *)
(* A frame's pitch is an integer in quarters of a semitone, Unvoiced (its  *)
(* frequency is not finite), or NaN (its frequency is, but below zero);    *)
(* times are in frames, of which one is a hop long.                        *)
(***************************************************************************)
EXTENDS Numpy, SequencesExt, FiniteSetsExt

CONSTANTS
  Unvoiced, NaN,
  midi_tolerance,   \* in quarters of a semitone
  min_note,         \* the least length of a note, in frames
  tau_min, threshold

ASSUME TrackAssumption ==
  /\ Unvoiced \notin Int /\ NaN \notin Int \cup {Unvoiced} /\ midi_tolerance \in Nat
  /\ min_note \in Nat \ {0} /\ tau_min \in Nat \ {0}

\* Definitions named Faulty... are seeded faults: each replaces the definition
\* after it in a run that must then fail, and is used nowhere else.
FaultyJoins(f0, i, j) ==
  \/ {NaN, Unvoiced} \cap {f0[j - 1], f0[j]} # {}
  \/ f0[j] - f0[j - 1] <= midi_tolerance /\ f0[j - 1] - f0[j] <= midi_tolerance

\* Frame j may belong to the run that starts with frame i: no difference from NaN is
\* greater than the tolerance.
Joins(f0, i, j) ==
  \/ NaN \in {f0[i], f0[j]}
  \/ f0[j] - f0[i] <= midi_tolerance /\ f0[i] - f0[j] <= midi_tolerance

\* The first frame after i that does not.
run_end(f0, i) ==
  Min({Len(f0) + 1} \cup {j \in i + 1 .. Len(f0) : f0[j] = Unvoiced \/ ~Joins(f0, i, j)})

\* The median pitch of the frames, rounded to a semitone; NaN if one of them is.
MedianPitch(frames) ==
  IF NaN \in ToSet(frames) THEN NaN
  ELSE LET sorted == Ascending(frames)  n == Len(frames)
       IN RoundDiv(sorted[(n + 1) \div 2] + sorted[n \div 2 + 1], 8)

\* _pitch_track_to_notes: the runs of frames close to the run's first, without
\* those that are too short.
PitchTrackToNotes(f0) ==
  LET NotesFrom[i \in 1 .. Len(f0) + 1] ==
        IF i > Len(f0) THEN <<>>
        ELSE IF f0[i] = Unvoiced THEN NotesFrom[i + 1]
        ELSE LET end == run_end(f0, i) IN
             (IF end - i < min_note THEN <<>>
              ELSE <<[on |-> i - 1, off |-> end - 1, pitch |-> MedianPitch(SubSeq(f0, i, end - 1))]>>)
             \o NotesFrom[end]
  IN NotesFrom[1]

\* round() raises on the median of a run that is long enough and has a NaN in it.
RoundRaises(f0) == \E n \in DOMAIN PitchTrackToNotes(f0) : PitchTrackToNotes(f0)[n].pitch = NaN

-----------------------------------------------------------------------------
\* The lag of a YIN curve: the first below the threshold, else that of the least value.
yin_lag(curve) ==
  LET valid == {tau \in DOMAIN curve : tau >= tau_min}
      below == {tau \in valid : curve[tau] < threshold}
  IN IF below # {} THEN Min(below)
     ELSE CHOOSE tau \in valid : \A other \in valid :
            curve[tau] < curve[other] \/ (curve[tau] = curve[other] /\ tau <= other)

\* The interpolation reads the two values after the lag's own: an IndexError where
\* there is only one.
YinRaises(frames) == \E i \in DOMAIN frames : yin_lag(frames[i].curve) = Len(frames[i].curve) - 1

\* A number of the sign of the lag as it is interpolated, that is with
\* (gamma - alpha) / denominator added to it, however much that is; the last lag is
\* left as it is.
lag_sign(curve) ==
  LET tau == yin_lag(curve) IN
  IF tau = Len(curve) THEN tau
  ELSE LET alpha == curve[tau]  beta == curve[tau + 1]  gamma == curve[tau + 2]
           denominator == 2 * (2 * beta - gamma - alpha)
       IN IF denominator = 0 THEN tau ELSE (tau * denominator + gamma - alpha) * denominator

\* The frequency is the sample rate over the lag: no other lag than 0 leaves a frame
\* unvoiced, for the curve is always longer than tau_min.
YinTrack(frames) ==
  [i \in DOMAIN frames |->
     LET sign == lag_sign(frames[i].curve)
     IN IF sign > 0 THEN frames[i].pitch ELSE IF sign = 0 THEN Unvoiced ELSE NaN]
=============================================================================
