# A verification project for KeyQuest

KeyQuest teaches the piano: a native engine listens to the instrument, an
Android app scrolls a score, scores what is played and gives feedback, a Python
pipeline builds the song packs, and a PHP backend serves them. This directory
holds TLA+ models of the parts that carry the program's own logic, TLC
configurations that check them on small instances, and proofs that hold for
every instance. All paths below are relative to the repository's root; the app
is `android/app/src/main/java/com/keyquest/app`, the scoring library
`android/scoring/src/main/kotlin/com/keyquest/scoring`.

Every definition is translated from the code; `PROJECT.json` maps each one to
its lines, lists the hazards the properties are for, the runs, the seeded
faults (one per property: the definitions named `Faulty...`), the findings and
the theorems.

## 1. Inventory

| component | state | operations | interacts with |
|---|---|---|---|
| note event queue (`engine/include/engine/NoteEventQueue.h`) | slots, `head_`, `tail_` | `push`, `pop`, `available`, `reset` | written by the detector's thread, read by the JNI drain; two atomics are all the two threads share |
| event transport (`jni_bridge.cpp`, `audio/EngineBridge.kt`, `audio/NoteEventFlow.kt`) | native arrays, the list under construction, a channel | `nativeDrainNoteEvents`, `drainFromJni`, the flow's loop, collection and cancellation | polls the queue every 10 ms, hands events to the collector |
| audio input (`engine/src/io/OboeInput.*`, `engine/src/dsp/RingBuffer.*`) | the ring of samples, the stream, `active_` | `open`, `start`, `stop`, `read`, the audio callback | audio thread, detector, bridge |
| detector, WAV reader (`engine/src/dsp/YinDetector.cpp`, `engine/src/wav`) | none between frames | pitch estimation, parsing | offline tools; the detector's thread does not exist yet |
| matcher and timing (`Matcher.kt`, `TempoMap.kt`, `ScoreConfig.kt`) | none | `match`, `beatToSeconds`, `windowMs` | called for every event by the scorer |
| realtime scorer (`RealtimeScorer.kt`) | events, clock, watermark, frozen prefix, tentative report | `onEvent`, `tick`, `snapshot`, `finalize` | driven by the lesson session under a delivery contract |
| batch report (`Scorer.kt`, `ChordClusterer.kt`, `MeasureMapper.kt`) | none | weights, chords, heatmap, stars | wraps the matcher |
| lesson session (`lesson/LessonSession.kt`, `lesson/ComboTracker.kt`, `songpack/ProtoScoreAdapter.kt`) | phase, chunk, loop flag, pass start, scorer, combo | `play`, `pause`, `tick`, `onEvent`, `retry`, `next` | called by the screen, from frames, touches and buttons |
| lesson player screen (`ui/LessonPlayerScreen.kt`) | the virtual frame clock, a copy of the pass start, feedback arrays, what is composed | frame loop, buttons, touches, results overlay | reads the session's plain fields during composition |
| on-screen keyboard, notation (`ui/OnScreenKeyboard.kt`, `notation/`) | pressed keys; drawing state | gestures; drawing | feeds touches to the screen |
| song packs in the app (`songpack/SongPackLoader.kt`) | none | parsing and validation | establishes what the session assumes |
| build pipeline (`pipeline/pipeline/build`, `cli.py`) | one `song.json` and `report.json` per stage, packs, the published store | ingest, build, validate, audio, publish | stages read what earlier stages left on disk |
| song batch (`cli.py`, `cmd_batch`) | a thread pool, futures, the directories of every song | take an entry, run its stages, collect results | many builds at once on one disk |
| repeat linearization (`pipeline/pipeline/build/repeats.py`) | loop counters of one traversal | unroll repeats, voltas, jumps | the normalize stage |
| song pack validator (`pipeline/pipeline/songpack/validator.py`) | a report of errors and warnings | schema checks, relations between documents | stage 10 and stage 11; the app relies on what passed |
| evaluation harness (`pipeline/pipeline/eval/run.py`, `metrics.py`, `model_wrappers.py`) | estimates cached by path and mtime, counts of a corpus | estimate, match, pool | audio files that other programs may write; `yin_cli` in a subprocess |
| MAESTRO validation (`pipeline/pipeline/eval/validate_maestro.py`) | an archive, its members and audio files in a work directory | download, extract, select, fetch, compare | the network; the next run in the same directory |
| fixtures, tones (`pipeline/scripts`, `pipeline/pipeline/eval/synth.py`) | none | write literal scores and sine waves | tests |
| backend API (`api/`) | a cached key, a database connection per worker | cache endpoint, reconnect | Dragonfly, MySQL |
| CMS, content, docs, CI | | | |

What is hard in it, and what makes each part correct:

* **Two threads and no lock** (queue, ring of samples). Loads may be stale, the
  counters wrap, and a block of samples is copied in two parts. Correct: a slot
  is never read and written at once, and each is a bounded FIFO.
* **A stream with a life of its own** (audio input). Callbacks come from a thread
  that the app does not control, until the stream is stopped or closed; stops
  may fail, and the device may go away. Correct: `read()` returns only frames that
  were pushed, every frame is read, waiting or counted as dropped, and `active_` is
  as right about the stream as can be known without being told of a lost device.
* **A chain of buffers with batches, failures and cancellation** (transport).
  Correct: every accepted event is in exactly one place, in order, and is
  delivered if the collector stays and the arrays can be pinned again.
* **Deciding early** (realtime scorer). Verdicts are frozen, shown and counted
  while events still arrive, and the windows of the notes overlap and close out
  of order where the tempo changes. Correct: what is frozen is what the batch
  scorer says at the end.
* **Callbacks on one thread that see plain fields** (session and screen).
  Frames, touches and taps come in any order and what is on the screen may lag
  behind the session. Correct: no precondition of a lower layer is broken, the
  combo and the results are those of the pass, and the screen follows.
* **State on disk between steps** (pipeline). A skipped, failed or interrupted
  step leaves files that a later command reads, perhaps about another score.
  Correct: what is packed and published went through every check, and a build
  that succeeds is made of the source it was asked to build.
* **Songs built by several threads** (batch). Stages fail or raise in any of them,
  entries may name the same directories, and the pool cancels what has not
  started. Correct: an entry fails alone, ends as it would have on its own, and the
  command ends.
* **Checks on documents that are already known to be wrong** (validator), by a
  program that must not be more lenient than the app. Correct: the verdict is
  exact, an exception loses no verdict that matters, and what the app would still
  refuse is known.
* **Numbers that are believed** (evaluation, MAESTRO validation). Each metric
  matches notes in its own way, files change behind a cache, downloads are torn.
  Correct: the oracle is perfect, the metrics agree, a stale or failed estimate is
  never scored, and VALIDATED is said only of all pieces that were asked for.

`PROJECT.json` lists the hazards line by line.

## 2. Modules

```
SpscCounters         the wrapping head_/tail_ counters and their loads
EventFifo            abstract: what the queue promises
NoteEventQueue       EXTENDS SpscCounters: one shared-memory access per step   implements EventFifo
SampleFifo           abstract: what the ring of samples promises
RingBuffer           EXTENDS SpscCounters: the ring, one memcpy per step       implements SampleFifo
AudioInput           EXTENDS RingBuffer: callback, read(), life of the stream
NoteEventFlow        EXTENDS NoteEventQueue: drain, flow, channel, collector
ScoreTiming          tempo map and hit windows
Matcher              the batch matcher
RealtimeScorer       EXTENDS Matcher: the incremental scorer
LessonSession        EXTENDS RealtimeScorer, ScoreTiming: the session's methods
LessonPlayer         EXTENDS LessonSession: the screen that drives them
SongStages           the build stages as functions on the song document
SongPipeline         EXTENDS SongStages: commands, files, kills
SongBatch            the thread pool that builds a manifest
PackValidator        the validator's checks, and what the app asks of a pack
Numpy                round() of a quotient, a stable argsort, sort
EvalMetrics          EXTENDS Numpy: the matchings and counts of the metrics
PitchTrack           EXTENDS Numpy: frames of pitches to notes, the YIN fallback
Evaluation           EXTENDS EvalMetrics, PitchTrack: wrappers, cache, corpus
MaestroValidation    EXTENDS Numpy: one step of main() per step, kills, reruns
SpscCounters_proof   the counters' arithmetic, for the two modules that follow
NoteEventFlow_proof, AudioInput_proof, LessonPlayer_proof, SongPipeline_proof,
SongBatch_proof, PackValidator_proof
                     the proofs about the module of that name and those it extends
Evaluation_proof     the proofs about MaestroValidation and Evaluation
MC...                instances for TLC
```

**NoteEventQueue.** `PushAdmit`/`PushRefuse` is the acquire load of `tail_` and
the test for room, `PushWrite` the assignment to the slot, `PushPublish` the
release store of `head_`; `PopAdmit`/`PopRefuse`, `PopRead` and `PopPublish`
are `pop()` likewise. An acquire load returns any value between the one the
thread saw last and the newest one (`Visible`): that is what C++ guarantees for
one atomic. Whoever sees a counter sees what its writer did before the store,
so the slots need no copies of their own. The counters are `size_t`: they wrap
at `Word`, of which the model only needs that the capacity divides it (the
constructor requires a power of two) and that it is at least twice the capacity.
That arithmetic is `SpscCounters`, which the ring of samples shares.
`Reset` has the guard its contract states: nobody is inside a call.

**RingBuffer.** As the queue, with blocks: `PushAdmit`/`PushRefuse` is the load of
`tail_` and the test for room, `PushFirst` and `PushRest` the two `memcpy` calls
(the second only when the block wraps), `PushPublish` the store of `head_`;
likewise for `pop()`. A thread is inside a `memcpy` from the step that enters a phase
to the step that leaves it, so `NoCopyRace` compares the slots of two phases.
`Look` is the load in `available()`. `taken` is a history of what `pop()` returned.

**AudioInput.** `CallbackPush` and `CallbackDrop` are the two outcomes of
`onAudioReady`; `ReadAvailable` is `read()` up to its call of `pop()`, `ReadPop` and
`ReadCopy` the rest. There is no action for a `pop()` that is refused, because
`read()` would not notice; `ReadNeverShort` says that there is no such `pop()`.
The lifecycle calls come from one thread, as the bridge asks, but are not atomic:
`StartStream`, `StartMark` and `StopClear`, `StopStream` are the two halves of
`start()` and `stop()`. Oboe is external. Assumed of it is what `OboeInput` relies
on: after a `stop()` that succeeds and after every `close()` no callback runs; a
`stop()` that fails may leave the stream running. `Disconnect` is Oboe's own doing
when the device goes away: it stops and closes the stream once the callback is done,
and since `open()` sets no error callback nobody is told; such a stream is `lost`, it
delivers nothing more and refuses `start()` and `stop()`. `DestroyStream` is the body of
the destructor at the end of the process, `DestroyMembers` what follows it. That
the reader's thread has ended by then is a precondition, since no code waits for it.
`OboeInput` never resets its ring, so frames captured before a stop are read
after the next start; `FramesConserved` covers that. A `stop()` that fails leaves
frames arriving while `isActive()` is false, and a lost stream leaves `isActive()`
true, so what the header says of it does not hold (section 5). `ActiveUnlessLost` is
what is left of that: only a lost device makes `active_` claim a
capture that does not run. That no callback is in the ring when the destructor frees
it has no property: the destructor closes the stream first, in a straight line of
code, and the rest is what is assumed of `close()`.

**NoteEventFlow** puts the coroutine around the consumer's side: `Pin` is the pinning of
the arrays with which `nativeDrainNoteEvents` begins, `PinFails` its return 0 before
anything is popped; `Admit`, `Read`, `Copy` are one turn of its loop, `DrainShort` and
`DrainFull` its return with fewer events than asked, or as many, to `drainFromJni`,
which calls again after a full batch; `Emit`, `Sleep`, `Wake` the loop of the flow. The
flow runs on another dispatcher than its collector, so `flowOn` puts a channel in
between. The detector is not written yet: it is one thread that offers its events in
order and retries or drops one that is refused. A collector may be cancelled at any time
(`Cancel`); the flow notices at its next suspension point (`CancelSeen`), never inside
the native call. What they throw away goes to `lost`.

**ScoreTiming, Matcher.** Times are integers in tenths of a millisecond,
positions hundredths of a beat, so that the tempos of the models give exact
quotients; the code uses doubles. A note carries its time and the edges of its
window, an event its pitch and time. `BestEqualPitchEvent` and `Matching` are
the loops of `match`: each note in canonical order takes the closest
unconsumed event of its pitch, the earliest among equals. `WRONG` never
consumes.

**RealtimeScorer.** `ScorerOnEvent`, `ScorerTick` and `FreshScorer` are
`onEvent`, `tick` and the constructor; `FillFrozen` is part of both handlers,
as in the code. `tick` does not compute the tentative verdicts again.
`OnTime` is the caller's part of the contract: an event is not older than the
clock of the latest tick. The class comment asks for more (strictly younger),
but the touch path delivers events at the very time of the latest tick. The weaker form
is sufficient, because a freeze waits until the watermark exceeds the close.

**LessonSession** holds the methods as operators that compose with the
scorer's; `TickLoops` is the tick whose pass ends while looping: it calls
`retry()` and `play()` before it returns, so the net effect is a fresh scorer
anchored at this frame. `CountNewlyFrozen` feeds the combo with what froze
between the two snapshots.

**LessonPlayer** has one action per callback. `Frame` is one turn of the frame
loop: the pending recomposition, the clock, `tick`, the snapshot read into the
feedback arrays. `shown` is what the latest composition read and `dirty` that a
snapshot state which the composition reads has changed since: the fields of the
session are plain variables, so nothing else recomposes. That rule of Compose
is the one external assumption. A touch carries the clock of the latest frame.
A frame that indexes outside of a list throws and ends the loop (`crashed`):
this is why the runs of this module do not check for deadlock.

**SongStages, SongPipeline.** One song, one command at a time, and every write to
the disk a step: `CopySource`, `WriteProvenance` and `PersistIngest` are
`pipeline ingest`; `TransformStage`, `StartAudio` with one `EncodeStem` per stem
and `StoreAudio`, `ReplacePack` and `StorePack`, and `CopyToCatalog` and
`FlipPointer` are the stages as `run_stages` calls them, `StageRaises` a stage
that ends the command. The commands `build`, `validate`, `audio` and `publish`
differ in the stages they run (`RunArgs`). A document is the source whose notes
it holds and the stages it went through; `CanRun` is what a stage needs of the
document, `Fails` and `Warns` what it says of a score: refusals of `validate`
come after it has stored its input (`StageOutput`), those of other stages are
raised before anything is stored. `KillBetweenWrites` and `KillInWrite` end the
process: `write_bytes` and `copyfile` write in place and may leave a file torn,
which whoever loads it notices, and the pack is the one file that is replaced at
once. Left out: the reports, the document of stage 11, which nothing reads, and
sources of different formats, which are stored under different names. Commands for
the same song that run at once are not modelled, except as entries of a batch.

**SongBatch.** `Take` is a pool thread that gets an entry, `CheckId` the lines of
`build_one` before its `try`, and the other actions the stages that leave
something on disk: `IngestSong`, `BuildNotes` (stages 2 to 8), `RenderStems`,
`StoreAudio`, `PackSong`, `PublishSong`. `Refuse` is a `PipelineError`, which becomes
the result FAILED, `Break` any other exception, which the future keeps for the
main thread. `Collect` is one turn of `list(pool.map(...))`: it takes the results in
the order of the manifest, and the first exception cancels all futures that have not
started. `Exit` leaves the `with` block, which waits for the threads. What is on the disk
of a song is the source that each file is made of, so a pack made of two sources is
visible. `Interfere` stands for a thread that reads what another entry of the same id
has written, or is just writing, in the same directory: the stage refuses it, which is
the result FAILED, or raises something else, which aborts the batch (the normalizer on
a document whose `validate` was refused, `stage_normalize.py:316`, the audio checks on
a sound file that is being written). A step here is coarser than a write; the kills and
the single writes are in `SongPipeline`.

**PackValidator.** One action per group of checks of `validate_pack`, in its order:
`LoadDocuments` with the schemas, `CheckManifest`, `CheckNotes`, `CheckChunks`,
`CheckLevels`. The semantic checks run whatever the schema said, so a document may be
`odd`: of a shape on which they raise. `Consistent` states the rules of
`docs/specs/songpack-v1.md` (sections 6 and 7) as relations between the fields and the
documents of a pack, independently of the loops. In two points the code does not follow
them: the opening signature is to it the earliest one and not the first
(`FirstIsEarliest` is when these are the same), and it never reads the repeat map
(`RepeatsForward`). `VerdictIsExact` says that apart from these the verdict is that of
the rules; section 5 lists the two points.
`AppLoads` is what `SongPackLoader` and the constructors of the app demand.

**EvalMetrics, PitchTrack, Evaluation.** Times are integers: hundredths of a second,
or frames; pitches of the tracks are quarters of a semitone, which the tolerance of
half a semitone and the rounding of a median tell apart. A frame may also be `NaN`: of a
finite frequency below zero, which the YIN fallback makes of a lag that its parabola
moves below zero (`lag_sign`, `YinTrack`). Such a frame joins any run, and `round()`
raises on the median of a run with one (`RoundRaises`). `MatchSize` is the maximum
matching that `mir_eval` computes, `match_events` the one it finds for the onsets: the
greedy one with which it starts, unless that is not a largest one, which only estimates
out of order can bring about (both are external). `octave_error_counts` and
`chord_recall_counts` the loops of `metrics.py`, folded over the notes. The pitch
tolerance of the command line is a part of each setting (in cents), the floor of the
offset tolerance is `mir_eval`'s own, and notes of length zero are refused by
`mir_eval` (`IsNoteArray`). A tolerance of whole semitones, at which rounding decides,
is left out.
`PitchTrackToNotes` is the segmentation, `yin_lag` the search of the YIN fallback
over a given difference function. `Evaluation` runs a corpus: `Construct` and `Call`
with the ways a wrapper may be missing, `Lookup`, `ReadAudio`, `RunYinCli` as the three
moments of `EngineYinWrapper` between which `Rewrite` may replace an audio file, `Score`
and `Finish` with the pooled counts. Signal processing is data: a take of an audio file
carries the notes, the pitches and the curves that would be found in it. A file that
is rewritten gets a later mtime; that is an assumption on the file system on which
the cache depends, and so does `EstimateIsCurrent`.

**MaestroValidation.** One action per step of `main()`: `Calibrate`, `StartDownload` and
`Download` (`urlretrieve` opens the file and then fills it), `OpenArchive`, `Extract`
one member at a time, `LoadSubset`, `EnsureMidis`, the loop over the pieces (`Reuse`,
`FetchAudio`, `NotFound`, `HttpError`, `Unreachable`), `Decide`, the same loop again, and
`Compare`. `Kill` ends the process at any point and may leave what is being written
torn; `RunAgain` starts it again in the same directory. `Calibrate` raises without
mir_eval's fixtures; a `basic_pitch` may be absent, `broken` (found by `find_spec`, not
imported) or whole, and `Compare` raises on a broken one. That the archive's content is
what MAESTRO publishes is assumed. `SubsetIndices` is the selection
of `load_test_subset`, with Python's `round()` from `Numpy`.

## 3. Runs

| run | bounds | shows |
|---|---|---|
| `note_event_queue` | 2 events, 4 slots, counters modulo 8; unbounded behaviours, 30,261 states | `QueueTypeOK`, `NoSlotRace`, and `RefinesFifo`: every behaviour is one of `EventFifo` |
| `event_transport` | 5 events, 2 slots, counters modulo 4, batches of 2, a channel of 1; 15,661 states | `TypeOK`, `Conservation`, `Delivered` |
| `audio_input` | a ring of 4 frames, counters modulo 16, 18 frames in bursts of 3 and 5, reads of up to 2 or 4; 151,974 states | `TypeOK`, `NoCopyRace`, `ReadNeverShort`, `FramesConserved`, `ActiveUnlessLost`, and `RefinesSampleFifo`: what goes through the ring is a behaviour of `SampleFifo` |
| `realtime_scorer` | 3 notes, 2 pitches, at most 3 events; 126,711 states | `ScorerTypeOK`, `FrozenIsFinal`, `SettledAtOwnClose`, `VerdictsOnlyImprove` |
| `lesson_player` | 2 chunks, 4 notes, frames of 50 and 100 ms up to 1.1 s, 2 touches per pass; 105,552 states | `TypeOK`, `ComboIsStreak`, `RequiresHold`, `OverlayIsFinal`, `ScorerUsedAsAgreed` |
| `song_pipeline` | 4 scores (clean, with a warning, refused by `validate`, refused by `levels`), 2 stems, one version, `levels` right after `hands`, 8 sorts of runs, 5 commands; 585,922 states | `TypeOK`, `PacksAreSound`, `PublishedIsSound`, `FreshBuild`, `ProvenanceMatches` |
| `song_batch` | 2 threads, manifests of 2 or 3 entries (good, refused, broken, without a source, with an invalid id, two with the same id), one song built before; 40,823 states | `OkMeansBuilt`, `OutcomeIsOwn`, `BatchEnds` |
| `pack_validator` | a sound pack and all that differ in one of five families: times, repeats (up to 2), notes and levels (up to 2 notes), chunks (up to 2), documents; 100,365 states | `VerdictIsExact`, `LoaderGap` |
| `evaluation` | references and estimates of up to 2 notes and chords of 3, tracks of up to 6 frames, in any order, curves with lags above, at and below 0, pitch tolerances of 50 and 150 cents, 3 takes and 2 rewrites; 139,211 states | `OracleIsPerfect`, `EstimateIsCurrent`, `NotesAreRuns`, `MetricsAgree` |
| `maestro_validation` | 0 to 6 pieces, limits 0 to 4, 2 URLs, with and without fixtures, `basic_pitch` absent, broken or whole, 2 runs; 2,601,298 states | `SubsetIsSpread`, `ValidatedOnAll`, `CrashHasCause` |
| `pipeline_no_audio` | as `song_pipeline` | a violated claim, section 5 |
| `lesson_chunk` | as `lesson_player` | a violated claim, section 5 |

*Why the bounds are enough.* With four slots and counters modulo eight every
relation of the two counters to the slots and to the wrap occurs, and TLC
explores the queue without a bound on the number of operations. In the
transport five events fill the queue, wrap the counters, and give full, short
and empty batches and a full channel. In the audio input, bursts of three into a
ring of four wrap again and again, five never fit, and eighteen frames take the
counters around their range of sixteen; the run does not check for deadlock
because the process ends. The scorer's song is the case of its own
class comment, a step from 60 to 240 bpm, where the wide window of a note
before the step stays open after the narrow windows of the notes behind it have
closed; the times are the edges of each note's window and of its PERFECT band
and the first instant after its close, the only ones where something can
change. In the lesson player 1.1 s is two passes of the first chunk and more,
or one of each chunk, with room for pauses, and two touches per pass suffice to
hit both tones of a chord or to hit one and miss the other. In the pipeline five
commands are an ingest, a build, a re-ingest, and two that fail, resume or
publish; the run does not check for deadlock because it ends after the fifth.
The four stages between `hands` and `levels` are alike for the runner and are left out of
the instance. One version is the default of the command line; with six commands
the invariants hold as well (3,893,703 states).

In the batch two threads are enough for any two entries to overlap at any two steps, and
a third entry is what a thread takes up, or is cancelled, when another entry has raised.
Two entries share an id in two manifests, one of them without a source of its own. The
number of threads and entries is unbounded in the proofs. The validator's rules relate
at most two notes, two chunks and two entries of a map, so sequences of two reach every
outcome of every check; the documents are varied in five families, because the checks of
one family do not read what another varies. For the metrics two notes against two are
the smallest case in which a greedy matching differs from a maximum one; chords of
three, in unison and an octave apart, are added; 150 cents are a tolerance with which
two pitch classes match. Six frames hold two runs and what lies between them. Three
calls on one file with two rewrites give a hit, a miss, and a rewrite at each moment of
either. Of the MAESTRO selection the instance reaches both ways of rounding a half; the
proof covers the rest. Two runs suffice for what one leaves to the next. None of these
four runs checks for deadlock: each of the programs ends.

*Fairness.* `NoteEventFlow` states it for `Delivered` and `SongBatch` for `BatchEnds`.
In the batch every thread runs on (weak fairness of the work of each thread, which never
waits for another one) and so does the main thread. In the transport the coroutine and
the collector keep being scheduled (weak fairness of `DrainStep` and `Receive`; the
dispatcher runs a ready coroutine), and a store of the producer becomes visible to the
drain in finite time (strong fairness of `Admit(head)`: a loop that pops again and again
does not read an outdated `head_` for ever, as C++ asks of implementations). `Admit` is
enabled only after the pins succeeded, and weak fairness of `DrainStep` allows every pin
to fail, so nothing is assumed of pins, of the detector, or of the user. `Delivered`
therefore has two parts: what has left the queue is delivered whatever later pins do;
what was accepted is, unless all pins fail from some time on.

## 4. Proofs

TLAPS proves, for every value of the constants that satisfies the assumptions of the
modules:

* `QueueTypeCorrect`, `QueueNoSlotRace`, `QueueRefinesFifo` (`NoteEventFlow_proof`),
  from `CounterAssumption` (the capacity is positive and divides the word, which is at
  least twice as large). The inductive invariant `QueueInv` is `QueueTypeOK /\ Arc /\
  Stored`. `Arc` says that going around the counter's range one meets `tail` as the
  producer saw it, `tail`, `head` as the consumer saw it and `head` in this order and
  within one capacity: the three distances `Reclaimed`, `Available` and `Unseen` add up
  to at most the capacity, and to less while a push is in progress. Neither `NoSlotRace`
  nor the tests on `head - tail` can be proved inductively without what the threads
  *saw*, which is why the stale values are state. The arithmetic modulo the word is
  isolated in a dozen lemmas. `Stored` says that the event being published is in its
  slot. The refinement follows step by step: the store of `head_` is the push, the read
  of the slot the pop, all other steps leave the waiting events alone.
* `FlowTypeCorrect`, `FlowConservation` and `FlowUsesQueue`, from `FlowAssumption`. The
  transport's steps are the queue's steps, or leave the queue alone (`FlowUsesQueue`),
  so that the queue's theorems hold of it. The invariant adds to `QueueInv` that the
  push in progress is of the next event and that a pop in progress has room in its batch
  (`Turns`), and that what the queue holds are events (`QueueHoldsEvents`).
  `Conservation` says by order and elements, not by a selected subsequence, what the way
  of an event is: the places are concatenated, and each step moves the event that is
  first in one place to the end of the next one.
* `RingTypeCorrect`, `RingNoCopyRace` and `RingRefinesSampleFifo` (`AudioInput_proof`),
  from `CounterAssumption` and `RingAssumption` (blocks are not empty and too short for
  `head - tail + n` to wrap). `Arc` is as for the queue, with the block being pushed and
  the samples being popped in the sum; `Written` and `Copied` say which part of the
  block is in its slots, and that what was copied out is what waits first. These proofs
  cover all of `RingSpec`, with `reset()` and refused pops, which `OboeInput` does not
  use. The arithmetic modulo the word is proved once, in `SpscCounters_proof`.
* `InputUsesRing` (`AudioInput_proof`): every behaviour of the audio input is one of
  `RingSpec`, so that the ring's theorems hold of it (`InputNoCopyRace`,
  `InputRefinesSampleFifo`). The point to prove is that `ReadPop` pops at most what the
  consumer has seen, `ReadInv`, from which `InputReadNeverShort` follows.
  `InputActiveUnlessLost` follows from `LifeInv`, which adds what holds between the halves
  of `start()` and `stop()`.
  `InputFramesConserved` follows from `Account`: the frames that were read or wait are
  increasing and come before those of the push in progress, which are the last that were
  delivered; reading and publishing only move frames inside that sequence, and a burst
  is appended to it or added to `dropped` as a whole. `InputTypeCorrect` needs all of
  these: that no more is dropped than was delivered is part of `Account`.
* `ScorerTypeCorrect` and `FreezeTheorem` (`LessonPlayer_proof`), from
  `ScorerAssumption`. The module first shows that the recursion in `Matching` is well
  defined (induction as the least counterexample, since the library's induction rules
  take an operator) and that an event after the close of a note and of all notes before
  it leaves what they consumed and their verdicts alone (`MatchingSettled`,
  `VerdictsSettled`). The inductive invariant `FreezeInv` adds to the theorem that the
  tentative verdicts are those of the batch over the delivered events, which `tick`
  relies on, and that the watermark is past the close of every frozen note, which makes
  every later event a late one.
* `SettledTheorem`: `SettledAtOwnClose` under the hypothesis `LateAtLeastEarly`, that
  the late window is no shorter than the early one. The comment at
  `RealtimeScorer.kt:11` gives it, and the standard windows, which `MCRealtimeScorer`
  uses, have it. One more event, the latest, makes at most one event available to a note
  that was not before (`OneMoreFree`): each earlier note takes what became available and
  gives up the one it held. The closed note could still want that one; that it is a
  right one only where the note has a better one already is where the hypothesis is
  needed (`ClosedNoteSettled`).
* `ImproveTheorem`: `VerdictsOnlyImprove`. Adding the latest event to a matching gives
  every note the verdict it had or a better one; the proof follows the notes in
  canonical order, with what is left over for the next one.
* `PlayerTypeCorrect`, `PlayerRequiresHold`, `PlayerCombo`, `PlayerOverlayFinal`,
  `PlayerUsesScorer` and `PlayerFrozenIsFinal`, from `ScorerAssumption` and
  `PlayerAssumption` (the song has a chunk, the scorer is built for the chunks' notes,
  the instants are closed under the frames' deltas). Whatever the screen does to the
  scorer is a step of `ScorerSpec` or a new scorer (`ScorerUsedAsAgreed`), so that
  `FreezeInv` is an invariant of the lesson too, and with it the freeze theorem.
  `SessionInv` adds `Streaks`, that the combo is the streak of the frozen prefix, and
  `PassInv`: neither the scorer's clock nor its last event is ahead of the frame clock
  less the start of the pass. This is why `onEvent` and `tick` never meet a time that
  runs backwards, across pauses, restarts and chunks, and it is what `RequiresHold`
  needs. `ScreenInv` relates the overlay and the composition to the session,
  `OverlayInv` the report that was computed once to the pass it is of.
* `PipelineTypeCorrect`, `PipelinePacksSound`, `PipelinePublishedSound`,
  `PipelineProvenance` and `PipelineFreshBuild` (`SongPipeline_proof`), from
  `StagesAssumption` and `PipelineAssumption`, for every set of sources, stems and
  versions and any number of commands, killed anywhere. `PipelineInv` is `DiskOK /\
  JobOK` (and the type of a history). `DiskOK` speaks of files alone: every stored
  document is torn, or what the stage it is of makes of some source (`StoredOK`), a pack
  is whole and of documents that passed (`PacksAreSound`), the pack that the last
  stage's document names is playable if the document has audio (`NamedOK`), a pointer
  names a version in the catalog whose file is torn or playable (`PublishedIsSound`,
  which judges the file as it is now, and not as it was when the pointer was written;
  that the two are the same as long as no command was killed is a part of it). `JobOK`
  says, by the step the command is at, what it has read and may rely on: the source it
  found, the stems it wrote, the pack it put together. Provenance needs a second
  invariant, `MatchInv`: as long as no command was killed, the documents, the command at
  work, the packs and the pointers each agree with the provenance of their source.
* `BatchTypeCorrect` and `BatchOkMeansBuilt` (`SongBatch_proof`), from
  `BatchAssumption`, for every manifest, any number of threads and all faults. The
  invariant is `Assigned /\ FilesOK /\ Progress`. `Assigned` says who works at what: an
  entry waits, or is one thread's, or has its result, and never two of these; without it
  a result could be overwritten by a second thread. `Progress` says for each thread, by
  the step it is at, which files of its song are made of what (`Made`), in two cases: an
  entry whose id is its own, and one that shares its directories. The first is disturbed
  by no other thread, because no other entry writes there; in the second every write is
  of a source that one of the entries gave (`Suits`), which is all that is claimed.
  `StoreKeepsMade` is the lemma about the others' writes, `SourceMade` to `CatalogMade`
  are the thread's own.
* `BatchOutcomeIsOwn`: `OutcomeIsOwn`, from the same assumption. `Fates` says of each
  entry with a valid id of its own how far it has come towards the outcome that it would
  have had alone, unless it is cancelled. No other thread can turn it: a thread at an id
  that entries share writes in no other directory (`SharedFates`), and one at an id of
  its own only in that (`OthersClaim`). The property was stated for manifests whose ids
  are all different; the proof showed that each entry needs only its own id to be so.
  `MainSaw` says what the results are that the main thread has added up when it chooses
  the exit code, or which entry's exception ended it.
* `ValidatorVerdict` and `ValidatorGap` (`PackValidator_proof`), for every set of packs,
  from `PackAssumption` (a document that is whole has fields of the types that the
  schema gives them; nothing is assumed of others). `PackInv` says that in a pack that
  is usable the errors are those of the checks before `pc`, and that one that is not has
  an error since its documents were read: whatever the later checks find or raise cannot
  take it back. Then each check is shown to find just what the rules of the
  documentation demand (`ManifestExact`, `TiesExact`, `ChunksExact`), where the list of
  signatures begins with the earliest and the repeats run forward, by facts about lists:
  which signature `min()` returns (`FirstOpens`), that as many ids as chunks are all
  distinct, and that a list that rises from each entry to the next rises
  (`RisesStepByStep`).
* `SpreadSubset` (`Evaluation_proof`): `SubsetIsSpread` for every number of pieces and
  every limit. `RoundDivBounds` bounds the rounded quotient by half on either side,
  whichever way a half goes, and `RoundDivExact` makes it exact for the last piece; from
  these two quotients whose numerators differ by `rows - 1` differ by one step or one
  more (`RoundDivStep`).
* `MaestroValidatedOnAll` and `MaestroCrashHasCause`, for any number of pieces, limit
  and runs, from `MaestroAssumption`. Neither property is inductive: what a run counts
  depends on what earlier ones left on the disk. `MaestroInv` is `RunShape` (how far the
  run has come, and that what it says agrees with what it counted), `DiskExplained`
  (whatever is damaged was damaged by a fault: without a kill the archive is extracted
  as a whole or not at all, without a kill every recording on the disk is whole or
  small, and small only after a small answer), `AudioCounted` (what the two passes over
  the audio counted is what is present, absent and blocked; a piece that the second pass
  does not score has a small file), `CrashFault` (each way to fail needs one of these
  damages, or comes of the fixtures or the package) and `DoomedStuck` (a torn archive is
  never replaced). That the selection lists each piece once comes from the folds of the
  model by induction over the number of pieces, as the least counterexample
  (`LeastNumber`, because the library's induction rules take an operator).
* `EstimateAlwaysCurrent`: `EstimateIsCurrent`, from `EvaluationAssumption` (the types
  of takes, corpora and settings), for every corpus and any number of rewritings. The
  property says nothing of the cache, so the inductive invariant `CurrentInv` must: an
  entry is of the content its file had at the mtime in its key (`CacheIsOfItsTime`),
  what a call reads after it looked up a key is what that mtime stands for, or the mtime
  has moved on (`KeyIsOfItsTime`), and what is on the disk, was heard, or comes out of
  the cache is a take the file held since the call (`PresentIsHeld`, `HeardWasHeld`).
  The second part is why an entry that is stored under an mtime the file has no longer
  does no harm: nothing asks for it again.
* `NotesAlwaysRuns`: `NotesAreRuns`, for pitch tracks of any length, with frames of
  negative frequency among them: a run with such a frame has no median, and the track
  raises if the run is long enough, so that none is in a note. `PitchTrackToNotes`
  recurs from the end of each run; it is unfolded to a function of the frames
  (`NotesFromRecursion`), and what holds of the notes from a frame on (`GoodNotes`,
  `HeardFrom`) by induction backwards over the frames. A median is between two frames of
  its run (`argsort` is a permutation: `ArgsortFacts`), and of a pitch that holds still
  the run that reaches into it takes fewer than the minimal length, or is itself long
  enough to be its note.
* `MetricsAlwaysAgree` and `OracleAlwaysPerfect`, from `MetricAssumption`, for
  references and estimates of any length and order, and any corpus. `ScoredInv` says
  that only lists of notes are scored, and that what is pooled are the counts of such;
  the rest is about the metrics. The loops over the notes in the order of their onsets
  are folds, unfolded once to functions of the number of notes gone through
  (`LeftFoldExists`, `OctaveFold`, `ClusterFold`, `FirstFreeFold`). `OctaveInv` says of
  the greedy octave matching that one of the two notes of each hit gone through is
  taken, where a hit is of one pitch class, that is with a pitch tolerance below a
  semitone (`SemitoneHits`), so that a largest matching, whose pairs share no note, is
  at most twice as large. `ClusterInv` says that the pitches gone through are in the
  chords, and that those add up to at most as many notes. A matching of the onsets has
  the largest size whether the greedy one does or not; the errors sorted are a list that
  ascends, and interpolating between neighbours keeps the order (`Interpolation`,
  `PercentileFacts`). The pooled F1 is a quotient of sums, and so between the least and
  the greatest of the quotients (`PooledBetween`). Where the estimate is the reference,
  each note with itself is a matching of all of them, hence a largest one. Other
  matchings may be as large and have onset errors, but the greedy one of `match_events`
  takes just this one, since of the notes near the k-th the first free one is the k-th
  itself (`PerfectOnsets`); likewise the octave matching takes for each note the closest
  that is free, which is the note itself (`PerfectOctaves`). That every chord is
  recalled needs that a note which joins a chord is within its window:
  `MetricAssumption` has `chord_cluster_tol <= chord_window`, 0.025 and 0.05 seconds in
  `MetricConfig`, which nothing that makes one changes (`cli.py:382`,
  `validate_maestro.py:180`, `validate_maestro.py:215`).

The theorems about a module hold for the modules that extend it: the queue's and the
ring's cite nothing but their own assumptions.

Three proof attempts corrected the project. `FreshBuild` said of a build from the first
stage after ingest that its pack went through every stage, ingest included. With
`--resume-nearest` such a build does not ask for the document of ingest and starts
without one when it is missing (`runner.py:146`), so that its pack need not have ingest
among its stages. The instance had no such command. `VerdictIsExact` called the pickup
right if any of the signatures at the least beat is long enough for it; the code takes
the first of them in the list (`validator.py:148`), and nothing forbids two. The
instance now has two such signatures, and where the earliest one is not the first the
code and the documentation differ (section 5). `match_events` was modelled as a greedy
matching; that it is always a largest one, which `MetricsAgree` needs, could not be
proved, because it is false for estimates that are not in the order of their onsets, as
Basic Pitch may return them (`mir_eval` improves such a matching). The model now does so
too, and the instance has such estimates.

Every invariant, action property and refinement that a passing run checks is proved.
Only model-checked are `Delivered` and `BatchEnds`: liveness under fairness is out of
this prover's reach, as is `ENABLED`. The induction theorems of the library take an
operator, which no prover here instantiates; where a proof needs induction it takes the
least counterexample (`LeastNumber`), and recursion is written with recursive functions
and folds. What section 5 says of the documentation was found with TLC.

## 5. Findings

Each of the following two is a run in which TLC violates a sentence of the repository.

1. `lesson_chunk`: the pass clock restarts at 0 in every chunk and the score is drawn in
   chunk-local beats, but the scorer gets its notes in beats from the start of the song.
   In any chunk that does not start at beat 0 notes are expected later than they are
   shown, by the time at which the chunk starts, although the screen's comment says that
   they cannot drift. The pack in the app's assets has such a chunk.
2. `pipeline_no_audio`: `build --no-audio` after a build with audio. Stage 10 loads the
   nearest stored document before it, which is that of stage 9 of the earlier build: the
   pack holds the notes and the stems of that build and could be published. The
   documentation promises a pack without audio.
Everything else that is checked holds. In ten more points the models do not do what a
document of the repository says. TLC finds a counterexample to each of these sentences
at the bounds of section 3; no run is kept for them, and the properties are worded so
that they do not claim them.

* *Audio input.* `isActive()` is to be true while the stream is open and started
  (`OboeInput.h:69`). After a `stop()` that failed it is false while the stream runs;
  after the device went away it is true while nothing runs, for `open()` sets no error
  callback. `ActiveUnlessLost` has the direction and the case that are left.
* *Publishing* copies the pack over the one of the same version, in place, and the
  version is 1 unless the command line says otherwise. If that version is published
  already, a kill during the copy leaves a catalog that references a torn pack, of which
  `plan_piano.md:793` says that there is no window for it. `PublishedIsSound` therefore
  speaks of torn files too.
* *Stems.* A stem is checked after it has replaced that of the earlier build, whose
  document stays. `build --from-stage 10` then packs the stem although the check refused
  it; `stage_audio.py:4` says that every stem must pass before it can be packed.
  `FreshBuild` speaks of builds of all stages, and of `PublishedIsSound` only that there
  is a file of every stem can be asked.
* *Batch.* `validate_song_id` is outside of the `try` (`cli.py:258`), so an entry without
  a valid id aborts the batch, while the comment at `cli.py:293` says that an expected
  failure fails only its song. `OutcomeIsOwn` is about entries with valid ids.
* *Opening measure.* To the validator the opening time signature is the one with the
  least beat, to the documentation the first entry of the list
  (`docs/specs/songpack-v1.md:222`). A pickup may be accepted that does not fit in the
  latter, and one refused that does.
* *Repeats.* That a repeat ends after it starts is "validator-enforced"
  (`docs/specs/songpack-v1.md:332`); the validator never reads the repeat map.
* *Oracle.* It is to have an F1 of 1 (`model_wrappers.py:65`). Of a piece without notes
  it is 0; `OracleIsPerfect` speaks of the counts.
* *Limit.* `--limit` is the maximum of the pieces to be scored
  (`validate_maestro.py:282`). With 0 one is scored, and `ValidatedOnAll` excepts it.
* *Torn recordings.* One that a killed run left half written, of more than 1024 bytes, is
  taken for a download (`validate_maestro.py:127`) by the next run, is scored, and
  VALIDATED may be said of it: `ValidatedOnAll` says that the audio is whole only if no
  run was killed.
* *Import.* `basic_pitch_available` is to be true when the package can be imported
  (`validate_maestro.py:148`), but only looks whether it can be found. If its own imports
  fail, the comparison is not blocked, and the run crashes (`CrashHasCause`).

The models also make plain what no property above contradicts.

*Lesson player* (found with TLC, no run kept). The frame pulse that is to keep the
session's fields observable is never read in the composition: after Retry the overlay
stays until something else recomposes. After Next to a chunk with fewer notes the frame
loop of the old chunk may read the new snapshot out of bounds (`crashed`). A loop replay
is noticed by a frozen count that falls; if nothing had frozen, the shown time stays
that of the pass before.

*Pipeline.* A kill in `ingest` between the score and its provenance leaves the new score
with the old provenance until it is ingested again (`ProvenanceMatches` holds as long as
no command was killed).

*Batch.* Two entries with one songId may produce a pack with the notes of one source and
the stems of the other, and one may abort the batch because of what the other is
writing; nothing refuses such a manifest.

*Validator.* It lets through four kinds of packs that the app cannot load (`LoaderGap`):
no notes for level 1, a duration of 0, a tempo map out of order, a chunk id of blanks.
On documents that the schema refuses it may raise instead of reporting.

*Evaluation.* The octave metric takes the closest free note and never reconsiders: it
may find as little as half of the true positives, and a perfect recall does not imply
that every chord is recalled. With a pitch tolerance of a semitone or more true
positives need not be of one pitch class, and the octave metric may match none of them.
A note of length zero passes the check of note arrays, and `mir_eval` raises on it. The
YIN fallback fails with an index error if the lag is the second to last, fits its
parabola around the lag above and takes what comes of it, however far away: below zero
it is a negative frequency, which in a run that is long enough raises. It never marks a
frame as unvoiced but for a lag of just 0, although its docstring says that it does
(`model_wrappers.py:434`). A steady pitch of just the minimal length may be torn apart
by the run before it (`NotesAreRuns` says from which length on it is always heard). The
cache is right only if every rewrite gives a file a later mtime.

*MAESTRO validation.* A torn archive, or MIDI files of which some are not extracted, are
never repaired: every later run in the directory ends the same way (`CrashHasCause`). A
response of at most 1024 bytes counts as audio when it arrives and not when it is found
again, so that the comparison may be of fewer pieces than counted; with none at all it
says OUTSIDE. Without the fixtures it crashes before it downloads anything.

## 6. Not modelled

* The scores, stars and chords of a report: functions of the verdicts, in floating
  point. Linear tempo ramps and rounding in time maps, including the truncation of
  a touch's time to nanoseconds, are left out for the same reason.
* Pitch detection, drawing and layout, parsing, telemetry formats: no state, or no
  control flow, for a property to be about.
* `gen_fixtures.py`, `synth.py`, `build_golden.py`: literal scores and tones for the
  tests. Of `run.py` and `cli.py` the printing of results, the parsing of arguments and
  `diff`, which only reads; of `metrics.py` the metric without offsets, which is the
  one modelled with a condition less.
* `repeats.py` (nested or unclosed repeats and voltas), the gestures of
  `OnScreenKeyboard.kt`, the cache endpoint of the API (two workers that miss at
  once) and its reconnecting database manager (a retried query) have hazards of
  their own that no model covers yet.
* The CMS, content and CI: no logic.

`PROJECT.json` gives the reason for each component.

## 7. Plan

Done: every module listed in section 2, with proofs of the native queues, the audio
input, the transport, matching and realtime scoring with the freeze theorem, the lesson
session and screen, the pipeline's commands, the batch, the validator, the evaluation
harness and the MAESTRO validation.

Left: `repeats.py` as a pure algorithm against a reference traversal; `Scorer`'s report
   over the verdicts; the keyboard's gestures; the cache endpoint and the database
   manager.
