------------------------------ MODULE EvalMetrics ------------------------------
(***************************************************************************)
(* The metrics of the evaluation harness (pipeline.eval.metrics): how an   *)
(* estimate of the notes is scored against the notes of a MIDI file.       *)
(*                                                                         *)
(* A note array is a sequence of [on, off, pitch].  Times are integers, in *)
(* a unit in which the tolerances are integers too; pitches are semitones. *)
(***************************************************************************)
EXTENDS Numpy, SequencesExt, FiniteSetsExt

CONSTANTS
  onset_tol, offset_percent, chord_cluster_tol, chord_window,
  offset_min    \* mir_eval's offset_min_tolerance, which no caller sets

\* Nothing that makes a MetricConfig changes its tolerances for chords: a note that
\* joins a chord is within the chord's window.
ASSUME MetricAssumption ==
  /\ onset_tol \in Nat /\ offset_percent \in Nat /\ offset_min \in Nat
  /\ chord_cluster_tol \in Nat /\ chord_window \in Nat /\ chord_cluster_tol <= chord_window

Within(a, b, tolerance) == a - b <= tolerance /\ b - a <= tolerance

Apart(a, b) == Max({a - b, b - a})

onsets(notes) == [i \in DOMAIN notes |-> notes[i].on]

\* The notes of all instruments of a MIDI file, in the order of their onsets.
load_midi_notes(midi) ==
  LET rows == FlattenSeq(midi)  order == argsort(onsets(rows)) IN [k \in DOMAIN rows |-> rows[order[k]]]

\* What neither _require_note_array nor mir_eval's validation of intervals refuses.
IsNoteArray(notes) == \A i \in DOMAIN notes : 0 <= notes[i].on /\ notes[i].on < notes[i].off

-----------------------------------------------------------------------------
\* mir_eval's criterion for notes, its largest matching, and its precision and
\* recall: 0 if there is nothing to match.  The pitch tolerance is in cents; one of a
\* whole number of semitones is decided by rounding errors, which are left out.
Hits(ref, est, cents) ==
  {p \in (DOMAIN ref) \X (DOMAIN est) : LET r == ref[p[1]]  e == est[p[2]] IN
     /\ Within(r.on, e.on, onset_tol) /\ Within(100 * r.pitch, 100 * e.pitch, cents)
     /\ Within(r.off, e.off, Max({offset_min, ((r.off - r.on) * offset_percent) \div 100}))}

IsMatching(edges) == \A d, e \in edges : d # e => d[1] # e[1] /\ d[2] # e[2]

MatchSize(edges) == Max({Cardinality(m) : m \in {s \in SUBSET edges : IsMatching(s)}})

note_confusion_counts(ref, est, cents) ==
  LET tp == MatchSize(Hits(ref, est, cents)) IN [tp |-> tp, fp |-> Len(est) - tp, fn |-> Len(ref) - tp]

\* F1 as a fraction; it is that of precision and recall, with 0 if there are no notes.
F1(counts) ==
  IF counts.tp = 0 THEN <<0, 1>> ELSE <<2 * counts.tp, 2 * counts.tp + counts.fp + counts.fn>>

\* mir_eval's matching of onsets: each estimate takes the first reference note that is
\* free, and if that does not make a largest matching, augmenting paths do.
Near(ref, est) ==
  {p \in (DOMAIN ref) \X (DOMAIN est) : Within(ref[p[1]].on, est[p[2]].on, onset_tol)}

FirstFree(ref, est) ==
  FoldLeft(LAMBDA pairs, e :
             LET free == {r \in DOMAIN ref : /\ Within(ref[r].on, est[e].on, onset_tol)
                                             /\ \A p \in pairs : p[1] # r}
             IN IF free = {} THEN pairs ELSE pairs \cup {<<Min(free), e>>},
           {}, [e \in DOMAIN est |-> e])

match_events(ref, est) ==
  LET near == Near(ref, est)  first == FirstFree(ref, est) IN
  IF Cardinality(first) = MatchSize(near) THEN first
  ELSE CHOOSE m \in SUBSET near : IsMatching(m) /\ Cardinality(m) = MatchSize(near)

\* The absolute errors of the matched onsets, in ascending order.
onset_errors(ref, est) ==
  LET pairs == match_events(ref, est)
      Partner(r) == (CHOOSE p \in pairs : p[1] = r)[2]
  IN Ascending([r \in {p[1] : p \in pairs} |-> Apart(ref[r].on, est[Partner(r)].on)])

\* np.percentile, in hundredths: between the two errors nearest to the rank.
percentile(errors, q) ==
  IF errors = <<>> THEN 0
  ELSE LET rank == q * (Len(errors) - 1)  low == rank \div 100 + 1
       IN 100 * errors[low] + (rank % 100) * (errors[Min({low + 1, Len(errors)})] - errors[low])

-----------------------------------------------------------------------------
\* A note joins the chord before it while it is close to that chord's first note.
_cluster_reference_chords(ref) ==
  FoldLeft(LAMBDA chords, i :
             IF chords # <<>> /\ ref[i].on - Last(chords).on <= chord_cluster_tol
             THEN [chords EXCEPT ![Len(chords)].pitches = @ \cup {ref[i].pitch}]
             ELSE Append(chords, [on |-> ref[i].on, pitches |-> {ref[i].pitch}]),
           <<>>, argsort(onsets(ref)))

\* How many chords there are of each size, and how many of them are recalled.
chord_recall_counts(ref, est) ==
  LET chords == _cluster_reference_chords(ref)
      Size(c) == Cardinality(chords[c].pitches)
      Recalled(c) == chords[c].pitches \subseteq
        {est[e].pitch : e \in {d \in DOMAIN est : Within(est[d].on, chords[c].on, chord_window)}}
  IN [size \in {Size(c) : c \in DOMAIN chords} |->
        [recalled |-> Cardinality({c \in DOMAIN chords : Size(c) = size /\ Recalled(c)}),
         total |-> Cardinality({c \in DOMAIN chords : Size(c) = size})]]

\* Definitions named Faulty... are seeded faults: each replaces the definition
\* after it in a run that must then fail, and is used nowhere else.
FaultyFree(ref, used) == DOMAIN ref

Free(ref, used) == DOMAIN ref \ used

\* Each estimated note takes the closest reference note of its pitch class that is
\* free, the first of those as close.
octave_error_counts(ref, est) ==
  FoldLeft(LAMBDA found, e :
    LET Distance(r) == Apart(ref[r].on, est[e].on)
        candidates == {r \in Free(ref, found.used) :
          /\ ref[r].pitch % 12 = est[e].pitch % 12 /\ Distance(r) <= onset_tol}
    IN IF candidates = {} THEN found
       ELSE LET closest == CHOOSE r \in candidates : \A s \in candidates :
                  Distance(r) < Distance(s) \/ (Distance(r) = Distance(s) /\ r <= s)
            IN [used |-> found.used \cup {closest}, matched |-> found.matched + 1,
                errors |-> found.errors +
                  (IF Within(est[e].pitch, ref[closest].pitch, 11) THEN 0 ELSE 1)],
    [used |-> {}, matched |-> 0, errors |-> 0], argsort(onsets(est)))
=============================================================================
