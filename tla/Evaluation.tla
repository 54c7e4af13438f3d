------------------------------ MODULE Evaluation ------------------------------
(***************************************************************************)
(* The evaluation harness (pipeline.eval.run, and cli.py's eval command    *)
(* for one pair): each pair of a corpus, an audio file and the MIDI file   *)
(* aligned to it, goes through a model wrapper and is scored, and the      *)
(* scores are pooled.  Audio files may be rewritten at any time.           *)
(*                                                                         *)
(* A take is the content of an audio file, by what the models make of it:  *)
(* the notes that yin_cli or Basic Pitch find, the frames of librosa's     *)
(* pyin, and those of the numpy YIN.                                       *)
(***************************************************************************)
EXTENDS EvalMetrics, PitchTrack

CONSTANTS
  Settings,   \* [wrapper, ready, cents, corpus, takes, rewrites]: ready if what the wrapper
              \* needs is installed (yin_cli, librosa, basic-pitch), cents the pitch tolerance,
              \* takes the audio files, rewrites the bound on how often each may be rewritten
  Retakes     \* what it may be rewritten with

Wrappers == {"ground-truth", "pyin-baseline", "engine-yin", "basic-pitch", "oaf-tflite"}

Notes == Seq([on : Int, off : Int, pitch : Int])
Takes == [notes : Notes, pyin : Seq(Int \cup {Unvoiced}), yin : Seq([pitch : Int, curve : Seq(Int)])]

ASSUME EvaluationAssumption ==
  /\ Retakes \subseteq Takes
  /\ \A s \in Settings :
       /\ s.wrapper \in Wrappers /\ s.ready \in BOOLEAN /\ s.rewrites \in Nat /\ s.cents \in Nat
       /\ s.takes \in [DOMAIN s.takes -> Takes]
       /\ s.corpus \in Seq([audio : DOMAIN s.takes, midi : Seq(Notes)])

VARIABLES
  setting,
  files,      \* audio files: [mtime, take]
  cache,      \* EngineYinWrapper._cache: notes by <<audio, mtime>>
  phase,         \* "construct", "call", "key", "read", "detect", "score", "done" or "raised"
  at,         \* the pair
  key, heard,     \* locals of predict_notes: the cache key, and the take that was read
  ref, est,   \* the pair's notes
  raws,       \* evaluate_pair_raw, and the notes it is of, for each pair so far
  held        \* the takes the pair's file has held since the call; for the properties

evaluationVars == <<setting, files, cache, phase, at, key, heard, ref, est, raws, held>>

Audio == setting.corpus[at].audio
Wrapper == setting.wrapper

EvaluationInit ==
  /\ setting \in Settings
  /\ files = [a \in DOMAIN setting.takes |-> [mtime |-> 0, take |-> setting.takes[a]]]
  /\ cache = <<>> /\ phase = "construct" /\ at = 1 /\ key = <<>>
  /\ heard = Unvoiced /\ ref = <<>> /\ est = <<>> /\ raws = <<>> /\ held = {}

-----------------------------------------------------------------------------
\* The constructors: yin_cli has to be there, and OafTfliteWrapper is a skeleton;
\* then evaluate_corpus, which asks for a pair.
Construct ==
  /\ phase = "construct"
  /\ phase' = IF \/ Wrapper = "oaf-tflite" \/ (Wrapper = "engine-yin" /\ ~setting.ready)
              \/ setting.corpus = <<>>
           THEN "raised" ELSE "call"
  /\ UNCHANGED <<setting, files, cache, at, key, heard, ref, est, raws, held>>

\* GroundTruthWrapper: the notes of the MIDI file that it was made for.
Echo == load_midi_notes(setting.corpus[1].midi)

\* The reference of the next pair, and predict_notes; Basic Pitch has to be installed.
Call ==
  /\ phase = "call" /\ at <= Len(setting.corpus)
  /\ ref' = load_midi_notes(setting.corpus[at].midi)
  /\ held' = {files[Audio].take}
  /\ CASE Wrapper = "ground-truth" ->
            est' = Echo /\ phase' = "score"
       [] Wrapper = "engine-yin" -> phase' = "key" /\ UNCHANGED est
       [] Wrapper = "basic-pitch" /\ ~setting.ready -> phase' = "raised" /\ UNCHANGED est
       [] OTHER -> phase' = "read" /\ UNCHANGED est
  /\ UNCHANGED <<setting, files, cache, at, key, heard, raws>>

\* Definitions named Faulty... are seeded faults: each replaces the definition
\* after it in a run that must then fail, and is used nowhere else.
Faulty_cache_key == <<Audio, 0>>

\* The path and the mtime; all else in it is the same throughout a run.
_cache_key == <<Audio, files[Audio].mtime>>

Lookup ==
  /\ phase = "key"
  /\ key' = _cache_key
  /\ IF key' \in DOMAIN cache THEN est' = cache[key'] /\ phase' = "score"
     ELSE phase' = "read" /\ UNCHANGED est
  /\ UNCHANGED <<setting, files, cache, at, heard, ref, raws, held>>

\* sf.read, and the resampling, in whichever library.
ReadAudio ==
  /\ phase = "read"
  /\ heard' = files[Audio].take
  /\ phase' = "detect"
  /\ UNCHANGED <<setting, files, cache, at, key, ref, est, raws, held>>

\* _run_yin_cli: the notes, which are cached, or a timeout, an exit code, no JSON.
RunYinCli ==
  /\ phase = "detect" /\ Wrapper = "engine-yin"
  /\ \/ phase' = "raised" /\ UNCHANGED <<est, cache>>
     \/ /\ est' = heard.notes
        /\ cache' = [k \in DOMAIN cache \cup {key} |-> IF k = key THEN heard.notes ELSE cache[k]]
        /\ phase' = "score"
  /\ UNCHANGED <<setting, files, at, key, heard, ref, raws, held>>

TrackPitch ==
  /\ phase = "detect" /\ Wrapper = "pyin-baseline"
  /\ IF \/ ~setting.ready /\ YinRaises(heard.yin)
        \/ RoundRaises(IF setting.ready THEN heard.pyin ELSE YinTrack(heard.yin))
     THEN phase' = "raised" /\ UNCHANGED est
     ELSE /\ est' = PitchTrackToNotes(IF setting.ready THEN heard.pyin ELSE YinTrack(heard.yin))
          /\ phase' = "score"
  /\ UNCHANGED <<setting, files, cache, at, key, heard, ref, raws, held>>

PredictBasicPitch ==
  /\ phase = "detect" /\ Wrapper = "basic-pitch"
  /\ est' = heard.notes /\ phase' = "score"
  /\ UNCHANGED <<setting, files, cache, at, key, heard, ref, raws, held>>

\* evaluate_pair_raw, and the summary of the pair, which checks both arrays.
evaluate_pair_raw ==
  [counts |-> note_confusion_counts(ref, est, setting.cents), onset_errors |-> onset_errors(ref, est),
   chords |-> chord_recall_counts(ref, est), octave |-> octave_error_counts(ref, est),
   ref |-> ref, est |-> est]

Score ==
  /\ phase = "score"
  /\ IF IsNoteArray(ref) /\ IsNoteArray(est)
     THEN raws' = Append(raws, evaluate_pair_raw) /\ at' = at + 1 /\ phase' = "call"
     ELSE phase' = "raised" /\ UNCHANGED <<raws, at>>
  /\ UNCHANGED <<setting, files, cache, key, heard, ref, est, held>>

FaultyPooled ==
  [tp |-> SumFunction([i \in DOMAIN raws |-> raws[i].counts.tp]),
   fp |-> SumFunction([i \in DOMAIN raws |-> raws[i].counts.fp]),
   fn |-> Last(raws).counts.fn]

\* The counts of the corpus, of which its precision, recall and F1 are.
Pooled ==
  [tp |-> SumFunction([i \in DOMAIN raws |-> raws[i].counts.tp]),
   fp |-> SumFunction([i \in DOMAIN raws |-> raws[i].counts.fp]),
   fn |-> SumFunction([i \in DOMAIN raws |-> raws[i].counts.fn])]

Finish ==
  /\ phase = "call" /\ at > Len(setting.corpus)
  /\ phase' = "done"
  /\ UNCHANGED <<setting, files, cache, at, key, heard, ref, est, raws, held>>

\* Another program writes an audio file: its mtime is later than any it had.
Rewrite ==
  /\ phase \notin {"construct", "done", "raised"}
  /\ \E a \in DOMAIN files : \E take \in Retakes :
       /\ files[a].mtime < setting.rewrites
       /\ files' = [files EXCEPT ![a] = [mtime |-> @.mtime + 1, take |-> take]]
       /\ held' = IF at <= Len(setting.corpus) /\ a = Audio THEN held \cup {take} ELSE held
  /\ UNCHANGED <<setting, cache, phase, at, key, heard, ref, est, raws>>

EvaluationNext ==
  \/ Construct \/ Call \/ Lookup \/ ReadAudio \/ RunYinCli \/ TrackPitch \/ PredictBasicPitch
  \/ Score \/ Finish \/ Rewrite

EvaluationSpec == EvaluationInit /\ [][EvaluationNext]_evaluationVars

-----------------------------------------------------------------------------
\* The oracle is perfect on every MIDI file, with any number of notes at once, in
\* unison or an octave apart: each note, onset, chord and octave is found, without
\* a false one and without an error.  Said of counts, not of the ratios: without notes
\* mir_eval's F1 is 0, and notes of length zero, which it refuses, are not scored.
OracleIsPerfect ==
  \A i \in DOMAIN raws : LET raw == raws[i] IN raw.est = raw.ref =>
    /\ raw.counts = [tp |-> Len(raw.ref), fp |-> 0, fn |-> 0]
    /\ Len(raw.onset_errors) = Len(raw.ref) /\ percentile(raw.onset_errors, 99) = 0
    /\ \A size \in DOMAIN raw.chords : raw.chords[size].recalled = raw.chords[size].total
    /\ raw.octave.errors = 0 /\ raw.octave.matched = Len(raw.ref)

\* The estimate that is scored is what the wrapper makes of a take that the pair's
\* own file held at some moment of the call, however often files are rewritten between
\* the cache's look at the mtime, the reading and the next pair of the same file; a
\* failure of yin_cli never becomes an estimate.
EstimateIsCurrent ==
  phase = "score" =>
    CASE Wrapper \in {"engine-yin", "basic-pitch"} -> \E take \in held : est = take.notes
      [] Wrapper = "pyin-baseline" ->
           \E take \in held : est = PitchTrackToNotes(IF setting.ready THEN take.pyin ELSE YinTrack(take.yin))
      [] OTHER -> TRUE

\* The notes of a pitch track are disjoint, in order and long enough; a note's pitches
\* stay close to its first, and it ends where they do not.  A pitch that holds still
\* for two frames less than twice that length is heard, but not always one that holds
\* still for just that length: the run before it may tear it apart.  A frame whose
\* pitch is NaN is in no note, although it joins every run.
NotesAreRuns ==
  phase = "score" /\ Wrapper = "pyin-baseline" =>
    LET f0 == IF setting.ready THEN heard.pyin ELSE YinTrack(heard.yin)
        Close(i, j) == {f0[i], f0[j]} \subseteq Int /\ Within(f0[i], f0[j], midi_tolerance)
    IN /\ \A n \in DOMAIN est : LET on == est[n].on + 1  off == est[n].off + 1 IN
            /\ off - on >= min_note /\ n > 1 => est[n - 1].off <= est[n].on
            /\ \A i \in on .. off - 1 : Close(on, i)
            /\ off <= Len(f0) => ~Close(on, off)
            /\ \E i, j \in on .. off - 1 : f0[i] - 2 <= 4 * est[n].pitch /\ 4 * est[n].pitch <= f0[j] + 2
       /\ \A i, j \in DOMAIN f0 :
            /\ j - i + 1 >= 2 * min_note - 2 /\ j >= i
            /\ \A k, l \in i .. j : Close(k, l)
            => \E n \in DOMAIN est : est[n].on + 1 <= j /\ est[n].off >= i

\* The metrics agree with each other, although each matches in its own way: the
\* octave metric, which takes the closest note and never reconsiders, misses at most
\* half of the true positives, unless the pitch tolerance is a semitone or more, when
\* these need not be of one pitch class; every percentile is in order and within the tolerance;
\* the chords account for all reference notes but those doubled in a chord.  Pooled,
\* the score of a corpus is neither below its worst pair nor above its best.
MetricsAgree ==
  /\ \A i \in DOMAIN raws :
       LET raw == raws[i]  errors == raw.onset_errors  sizes == DOMAIN raw.chords IN
       /\ setting.cents < 100 => raw.counts.tp <= 2 * raw.octave.matched
       /\ raw.counts.tp <= Len(errors)
       /\ raw.octave.matched <= Min({Len(raw.ref), Len(raw.est)})
       /\ raw.octave.errors <= raw.octave.matched
       /\ percentile(errors, 50) <= percentile(errors, 95)
       /\ percentile(errors, 95) <= percentile(errors, 99)
       /\ percentile(errors, 99) <= 100 * onset_tol
       /\ SumFunction([size \in sizes |-> size * raw.chords[size].total]) <= Len(raw.ref)
       /\ SumFunction([size \in sizes |-> size * raw.chords[size].total]) >=
            Cardinality({raw.ref[n].pitch : n \in DOMAIN raw.ref})
  /\ phase = "done" =>
       LET scores == {F1(raws[i].counts) : i \in {j \in DOMAIN raws : raws[j].ref \o raws[j].est # <<>>}}
           Below(a, b) == a[1] * b[2] <= b[1] * a[2]
       IN scores # {} => \E worst, best \in scores : Below(worst, F1(Pooled)) /\ Below(F1(Pooled), best)
=============================================================================
