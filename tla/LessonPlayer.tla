---------------------------- MODULE LessonPlayer ----------------------------
(***************************************************************************)
(* LessonPlayerScreen: the user of LessonSession.  It owns the virtual     *)
(* frame clock, runs the frame loop, stamps the touches and offers the     *)
(* buttons.  All of it runs on the main thread, one callback at a time.    *)
(*                                                                         *)
(* What is on the screen is the state of the session as the composition    *)
(* read it last.  The session's fields are plain variables: Compose        *)
(* recomposes, before the next frame's callback, only after a write that   *)
(* changed a snapshot state the composition read.  Of the states the       *)
(* screen writes those are frameSeconds and the pass start (and the skin   *)
(* and motion settings); framePulse and lastFrozenCount are not read       *)
(* there.  The rule of Compose is external to the repository.              *)
(***************************************************************************)
EXTENDS LessonSession

CONSTANTS
  FrameDeltas,   \* bound of the exploration: how far a frame moves the clock
  MaxFrame,      \* bound of the exploration: the last value of the clock
  DefaultBpm     \* defaultTempoBpm, the tempo the renderer scrolls at

\* The song has a chunk and the scorer is built for its chunks; the instants of
\* the exploration are those a pass clock gets to.
ASSUME PlayerAssumption ==
  /\ Len(Chunks) \in Nat \ {0} /\ DOMAIN Chunks = 1 .. Len(Chunks)
  /\ \A c \in DOMAIN Chunks : ToExpectedNotes(Chunks[c]) \in Songs
  /\ FrameDeltas \subseteq Nat /\ MaxFrame \in Nat
  /\ 0 \in Instants
  /\ \A now \in Instants, delta \in FrameDeltas :
       now + delta <= MaxFrame => now + delta \in Instants

VARIABLES
  frameSeconds,      \* the virtual frame clock
  shownPassStart,    \* the screen's own passStartFrameSeconds
  lastFrozenCount,   \* of the latest frame
  shown,             \* what the latest composition read, see Compose
  dirty,             \* a state the composition read has changed since
  crashed            \* the frame loop threw

playerVars == <<frameSeconds, shownPassStart, lastFrozenCount, shown, dirty, crashed>>
vars == <<sessionVars, playerVars>>

\* The results overlay: its report is remembered since it came up.
ResultsOverlay(old) == IF old.phase = "FINISHED" THEN old.report ELSE FinalVerdicts

\* The composition: the phase, the chunk (to which the score, the feedback
\* arrays and the frame loop are keyed), and, while the results overlay is
\* up, the report it shows.
FaultyCompose(old) ==
  [phase   |-> phase,
   chunk   |-> chunkIndex,
   hasNext |-> HasNextChunk,
   report  |-> IF phase # "FINISHED" \/ old.report # <<>> THEN old.report
               ELSE FinalVerdicts]

Compose(old) ==
  [phase   |-> phase,
   chunk   |-> chunkIndex,
   hasNext |-> HasNextChunk,
   report  |-> IF phase = "FINISHED" THEN ResultsOverlay(old) ELSE <<>>]

Init ==
  /\ SessionInit
  /\ frameSeconds = 0 /\ shownPassStart = 0 /\ lastFrozenCount = 0
  /\ shown = [phase |-> "READY", chunk |-> 1, hasNext |-> HasNextChunk, report |-> <<>>]
  /\ dirty = FALSE /\ crashed = FALSE

\* The arrays the frame loop fills: one entry per note of the chunk composed.
Feedback(composed) == DOMAIN NotesOf(Chunks[composed.chunk])

-----------------------------------------------------------------------------
\* One turn of the frame loop.  A pending recomposition comes first; then the
\* clock moves, if the session plays, the session ticks, and the loop reads
\* the snapshot into the feedback arrays.
Anchor ==
  IF phase' = "PLAYING" /\ frozenCount' < lastFrozenCount
  THEN frameSeconds' ELSE shownPassStart

ReadSnapshot(composed) ==
  IF phase' = "FINISHED"
  THEN UNCHANGED <<shownPassStart, lastFrozenCount, crashed>>
  ELSE /\ shownPassStart' = Anchor
       /\ lastFrozenCount' = frozenCount'
       /\ crashed' = ~(Feedback(composed) \subseteq DOMAIN notes')

\* The clock stands still unless the session plays.
FaultyAdvanced(delta) == frameSeconds + delta
Advanced(delta) == IF phase = "PLAYING" THEN frameSeconds + delta ELSE frameSeconds

Frame ==
  /\ ~crashed
  /\ \E delta \in FrameDeltas \cup {0} : frameSeconds' = Advanced(delta)
  /\ frameSeconds' <= MaxFrame
  /\ shown' = IF dirty THEN Compose(shown) ELSE shown
  /\ Tick(frameSeconds')
  /\ ReadSnapshot(shown')
  /\ dirty' = (frameSeconds' # frameSeconds \/ shownPassStart' # shownPassStart)

-----------------------------------------------------------------------------
\* The Play button.
TapPlay ==
  /\ ~crashed
  /\ shown.phase # "FINISHED"
  /\ IF phase = "PLAYING" THEN Pause ELSE Play
  /\ shownPassStart' = IF phase = "READY" THEN frameSeconds ELSE shownPassStart
  /\ dirty' = (dirty \/ shownPassStart' # shownPassStart)
  /\ UNCHANGED <<frameSeconds, lastFrozenCount, shown, crashed>>

TapLoop ==
  /\ ~crashed
  /\ ToggleLoop
  /\ UNCHANGED playerVars

\* The buttons of the results overlay.
TapRetry ==
  /\ ~crashed
  /\ shown.phase = "FINISHED"
  /\ Retry
  /\ UNCHANGED playerVars

TapNext ==
  /\ ~crashed
  /\ shown.phase = "FINISHED" /\ shown.hasNext
  /\ NextChunk
  /\ UNCHANGED playerVars

\* The skin and motion buttons, whose states the composition reads.
TapAppearance ==
  /\ ~crashed
  /\ dirty' = TRUE
  /\ UNCHANGED <<sessionVars, frameSeconds, shownPassStart, lastFrozenCount,
                 shown, crashed>>

\* A key of the on-screen keyboard, stamped with the frame clock.
Touch(pitch) ==
  /\ ~crashed
  /\ Len(events) < MaxPlayed
  /\ OnEvent(pitch, frameSeconds)
  /\ UNCHANGED playerVars

Next ==
  \/ Frame
  \/ TapPlay
  \/ TapLoop
  \/ TapRetry
  \/ TapNext
  \/ TapAppearance
  \/ \E pitch \in Pitch : Touch(pitch)

Spec == Init /\ [][Next]_vars

-----------------------------------------------------------------------------
TypeOK ==
  /\ SessionTypeOK
  /\ frameSeconds \in 0 .. MaxFrame
  /\ shownPassStart \in 0 .. frameSeconds
  /\ lastFrozenCount \in Nat
  /\ shown.phase \in {"READY", "PLAYING", "PAUSED", "FINISHED"}
  /\ shown.chunk \in DOMAIN Chunks
  /\ dirty \in BOOLEAN
  /\ crashed \in BOOLEAN

\* None of the preconditions the session and the scorer enforce can fail: in
\* a playing pass the frame clock is the one the session saw last, and its
\* pass time is neither before the scorer's clock nor before the latest
\* event, so the next touch and the next frame are accepted
\* (LessonSession.kt:177, RealtimeScorer.kt:136 and 159), across pauses,
\* loops, retries and changes of chunk.
RequiresHold ==
  /\ frameSeconds = lastFrame
  /\ phase = "PLAYING" =>
       frameSeconds - passStart >= Watermark

\* The session keeps the caller's part of the scorer's delivery contract:
\* whatever it does to the scorer is a step of RealtimeScorer's
\* specification, or a new scorer for the chunk.
ScorerUsedAsAgreed ==
  [][ScorerNext \/ \E song \in Songs : ReplaceScorer(song)]_scorerVars

\* The results overlay of a finished pass shows the batch result over the
\* events of that pass, and not of the pass before, although it computes its
\* report only once (LessonPlayerScreen.kt:350-357, "remembered once per
\* finished pass").
OverlayIsFinal ==
  shown.phase = "FINISHED" /\ phase = "FINISHED" => shown.report = FinalVerdicts

-----------------------------------------------------------------------------
\* "Scoring, rendering and input cannot drift" (LessonPlayerScreen.kt:76-78):
\* the scorer expects a note when its rendering crosses the playhead, at its
\* distance from the chunk's start.
ScoredWhereShown ==
  \A k \in DOMAIN notes :
    notes[k].at =
      (NotesOf(Chunks[chunkIndex])[k].beat - Chunks[chunkIndex].startBeat)
        * (UnitsPerMinute \div (BeatParts * DefaultBpm))
=============================================================================
