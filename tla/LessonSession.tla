---------------------------- MODULE LessonSession ----------------------------
(***************************************************************************)
(* com.keyquest.app.lesson.LessonSession: the state machine of one         *)
(* practice session.  It turns the frame clock of its user into the clock  *)
(* of a pass, feeds the scorer, counts the combo from the verdicts that    *)
(* freeze, and ends, loops or re-arms passes over the chunks of a song.    *)
(* The operations below are methods; who calls them, and when, is the      *)
(* matter of LessonPlayer.                                                 *)
(***************************************************************************)
EXTENDS RealtimeScorer, ScoreTiming

CONSTANTS
  PackNotes,   \* the pack's notes in canonical order, [pitch, beat]
  Chunks       \* the pack's chunks in teaching order, [startBeat, endBeat]

VARIABLES
  phase,         \* "READY", "PLAYING", "PAUSED" or "FINISHED"
  chunkIndex,    \* the chunk being practised
  loopEnabled,   \* replay the chunk instead of finishing
  lastFrame,     \* lastFrameSeconds: the latest frame clock value tick() saw
  passStart,     \* passStartFrameSeconds: the frame clock at the pass start
  tracker        \* comboTracker: [combo, best]

sessionVars ==
  <<scorerVars, phase, chunkIndex, loopEnabled, lastFrame, passStart, tracker>>

NotesOf(chunk) ==
  SelectSeq(PackNotes, LAMBDA n : n.beat >= chunk.startBeat /\ n.beat < chunk.endBeat)

\* ProtoScoreAdapter.toExpectedNotes: in beats from the start of the song.
ToExpectedNotes(chunk) ==
  [k \in DOMAIN NotesOf(chunk) |->
     ExpectedAt(NotesOf(chunk)[k].pitch, NotesOf(chunk)[k].beat)]

ChunkEnd(chunk) == BeatToTime(chunk.endBeat) - BeatToTime(chunk.startBeat)

HasNextChunk == chunkIndex + 1 <= Len(Chunks)

-----------------------------------------------------------------------------
\* ComboTracker
FreshTracker == [combo |-> 0, best |-> 0]

OnVerdict(t, verdict) ==
  LET streak == IF verdict \in Hit THEN t.combo + 1 ELSE 0
  IN  [combo |-> streak, best |-> Later(t.best, streak)]

\* One call per verdict in [before.frozenCount, after.frozenCount).
CountNewlyFrozen ==
  LET count[n \in frozenCount .. frozenCount'] ==
        IF n = frozenCount THEN tracker ELSE OnVerdict(count[n - 1], frozenVerdicts'[n])
  IN  tracker' = count[frozenCount']

-----------------------------------------------------------------------------
SessionInit ==
  /\ chunkIndex = 1
  /\ FreshScorer(ToExpectedNotes(Chunks[1]))
  /\ phase = "READY"
  /\ loopEnabled = FALSE
  /\ lastFrame = 0 /\ passStart = 0
  /\ tracker = FreshTracker

Play ==
  \/ /\ phase = "READY"
     /\ passStart' = lastFrame
     /\ phase' = "PLAYING"
     /\ UNCHANGED <<scorerVars, chunkIndex, loopEnabled, lastFrame, tracker>>
  \/ /\ phase = "PAUSED"
     /\ phase' = "PLAYING"
     /\ UNCHANGED <<scorerVars, chunkIndex, loopEnabled, lastFrame, passStart, tracker>>
  \/ /\ phase \in {"PLAYING", "FINISHED"}
     /\ UNCHANGED sessionVars

Pause ==
  /\ phase' = IF phase = "PLAYING" THEN "PAUSED" ELSE phase
  /\ UNCHANGED <<scorerVars, chunkIndex, loopEnabled, lastFrame, passStart, tracker>>

\* Definitions named Faulty... are seeded faults: each replaces the definition
\* after it in a run that must then fail, and is used nowhere else.
FaultyRearm(chunk) ==
  /\ ReplaceScorer(ToExpectedNotes(chunk))
  /\ UNCHANGED tracker

Rearm(chunk) ==
  /\ ReplaceScorer(ToExpectedNotes(chunk))
  /\ tracker' = FreshTracker

Retry ==
  /\ Rearm(Chunks[chunkIndex])
  /\ phase' = "READY"
  /\ UNCHANGED <<chunkIndex, loopEnabled, lastFrame, passStart>>

FaultyNextChunk ==
  /\ HasNextChunk
  /\ chunkIndex' = chunkIndex + 1
  /\ Rearm(Chunks[chunkIndex])
  /\ phase' = "READY"
  /\ UNCHANGED <<loopEnabled, lastFrame, passStart>>

NextChunk ==
  \/ /\ HasNextChunk
     /\ chunkIndex' = chunkIndex + 1
     /\ Rearm(Chunks[chunkIndex + 1])
     /\ phase' = "READY"
     /\ UNCHANGED <<loopEnabled, lastFrame, passStart>>
  \/ /\ ~HasNextChunk
     /\ UNCHANGED sessionVars

ToggleLoop ==
  /\ loopEnabled' = ~loopEnabled
  /\ UNCHANGED <<scorerVars, phase, chunkIndex, lastFrame, passStart, tracker>>

-----------------------------------------------------------------------------
\* tick(frame).  At the chunk end a looping session calls retry() and play()
\* before it returns, which discards what the tick froze.
AtEnd(frame) == frame - passStart >= ChunkEnd(Chunks[chunkIndex])

FaultyTickPlaying(frame) ==
  /\ ~(AtEnd(frame) /\ loopEnabled)
  /\ ScorerTick(frame)
  /\ CountNewlyFrozen
  /\ phase' = IF AtEnd(frame) THEN "FINISHED" ELSE phase
  /\ UNCHANGED passStart

TickPlaying(frame) ==
  /\ ~(AtEnd(frame) /\ loopEnabled)
  /\ ScorerTick(frame - passStart)
  /\ CountNewlyFrozen
  /\ phase' = IF AtEnd(frame) THEN "FINISHED" ELSE phase
  /\ UNCHANGED passStart

TickLoops(frame) ==
  /\ AtEnd(frame) /\ loopEnabled
  /\ frame - passStart >= sessionSeconds
  /\ Rearm(Chunks[chunkIndex])
  /\ passStart' = frame
  /\ UNCHANGED phase

Tick(frame) ==
  \/ /\ phase # "PLAYING"
     /\ UNCHANGED sessionVars
  \/ /\ phase = "PLAYING"
     /\ frame >= lastFrame
     /\ lastFrame' = frame
     /\ TickPlaying(frame) \/ TickLoops(frame)
     /\ UNCHANGED <<chunkIndex, loopEnabled>>

\* onEvent(noteEvent): dropped unless a pass is playing and the event is not
\* older than the pass.
OnEvent(pitch, onTime) ==
  \/ /\ phase = "PLAYING"
     /\ onTime >= passStart
     /\ ScorerOnEvent(pitch, onTime - passStart)
     /\ CountNewlyFrozen
     /\ UNCHANGED <<phase, chunkIndex, loopEnabled, lastFrame, passStart>>
  \/ /\ phase # "PLAYING" \/ onTime < passStart
     /\ UNCHANGED sessionVars

-----------------------------------------------------------------------------
SessionTypeOK ==
  /\ ScorerTypeOK
  /\ notes = ToExpectedNotes(Chunks[chunkIndex])
  /\ phase \in {"READY", "PLAYING", "PAUSED", "FINISHED"}
  /\ chunkIndex \in DOMAIN Chunks
  /\ loopEnabled \in BOOLEAN
  /\ lastFrame \in Nat
  /\ passStart \in 0 .. lastFrame
  /\ tracker \in [combo : Nat, best : Nat]

AllHits(i, j) == \A k \in i .. j : frozenVerdicts[k] \in Hit

\* The combo is the run of hits that ends at the latest frozen note, and the
\* best combo the longest run of the pass (ComboTracker.kt:8, "per-note in
\* freeze order"), whether the verdicts froze one by one or several at once,
\* by an event or by the clock, and after any loop, retry or change of chunk.
ComboIsStreak ==
  /\ tracker.combo =
       Max({n \in 0 .. frozenCount : AllHits(frozenCount - n + 1, frozenCount)})
  /\ tracker.best =
       Max({0} \cup {run[2] - run[1] + 1 : run \in
              {r \in (1 .. frozenCount) \X (1 .. frozenCount) :
                 r[1] <= r[2] /\ AllHits(r[1], r[2])}})
=============================================================================
