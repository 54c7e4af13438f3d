--------------------------- MODULE RealtimeScorer ---------------------------
(***************************************************************************)
(* com.keyquest.scoring.RealtimeScorer: the incremental scorer of a live   *)
(* lesson.  It keeps the events of the pass, judges all of them again      *)
(* whenever one arrives (the tentative verdicts), and freezes the verdict  *)
(* of a note once the watermark has passed the close of that note's window *)
(* and of every earlier one.  A frozen verdict is shown to the player and  *)
(* drives the combo, so it must be the verdict of the final report.        *)
(***************************************************************************)
EXTENDS Matcher, FiniteSets

CONSTANTS
  Songs,      \* the canonical note sequences a scorer may be built for
  Pitch,      \* the pitches that may be played
  Instants,   \* bound of the exploration: the session times that occur
  MaxPlayed   \* bound of the exploration: how many events a pass holds

NoteType == [pitch : Pitch, at : Int, opens : Int, closes : Int]
EventType == [pitch : Pitch, time : Nat]

ASSUME ScorerAssumption ==
  /\ PerfectBand \in Nat
  /\ Instants \subseteq Nat
  /\ MaxPlayed \in Nat
  /\ \A song \in Songs :
       /\ song \in Seq(NoteType)
       /\ \A k \in 1 .. Len(song) : song[k].opens <= song[k].at /\ song[k].at <= song[k].closes
       /\ \A j, k \in 1 .. Len(song) : j <= k => song[j].at <= song[k].at

VARIABLES
  notes,            \* canonical, with the window of each note
  events,           \* the delivered events, in delivery order
  sessionSeconds,   \* the session clock
  lastEvent,        \* lastEventNs: the time of the latest event, -1 before it
  frozenVerdicts,   \* the verdict of each frozen note, Open for the others
  frozenCount,      \* how many leading notes are frozen
  tentative         \* the verdicts over the events delivered so far

scorerVars ==
  <<notes, events, sessionSeconds, lastEvent, frozenVerdicts, frozenCount, tentative>>

Open == "OPEN"

Later(a, b) == IF a >= b THEN a ELSE b

\* watermark = max(sessionSeconds, lastEventNs); it starts at 0.
Watermark == Later(sessionSeconds, lastEvent)

-----------------------------------------------------------------------------
\* Definitions named Faulty... are seeded faults: each replaces the definition
\* after it in a run that must then fail, and is used nowhere else.

\* watermark > runningMaxClose[k]: the mark has passed the close of every
\* note up to k.
FaultyPastClose(k, mark) == \A j \in 1 .. k : mark >= notes[j].closes
PastClose(k, mark) == \A j \in 1 .. k : mark > notes[j].closes

\* The while loop of fillFrozen: the first note that does not freeze stops it.
FreezePoint(mark) ==
  CHOOSE n \in frozenCount .. Len(notes) :
    /\ \A k \in frozenCount + 1 .. n : PastClose(k, mark)
    /\ n < Len(notes) => ~PastClose(n + 1, mark)

\* fillFrozen: each newly frozen note takes its verdict from the tentative.
FaultyFillFrozen(mark, verdicts) ==
  /\ frozenCount' = FreezePoint(mark)
  /\ frozenVerdicts' =
       [k \in 1 .. Len(notes) |->
          IF k = FreezePoint(mark) THEN verdicts[k] ELSE frozenVerdicts[k]]

FillFrozen(mark, verdicts) ==
  /\ frozenCount' = FreezePoint(mark)
  /\ frozenVerdicts' =
       [k \in 1 .. Len(notes) |->
          IF k \in frozenCount + 1 .. FreezePoint(mark)
          THEN verdicts[k] ELSE frozenVerdicts[k]]

-----------------------------------------------------------------------------
\* A scorer for a song, as its constructor leaves it.
FreshScorer(song) ==
  /\ notes = song
  /\ events = <<>>
  /\ sessionSeconds = 0
  /\ lastEvent = -1
  /\ frozenVerdicts = [k \in 1 .. Len(song) |-> Open]
  /\ frozenCount = 0
  /\ tentative = Verdicts(song, <<>>)

\* The same for a scorer that replaces the current one.
ReplaceScorer(song) ==
  /\ notes' = song
  /\ events' = <<>>
  /\ sessionSeconds' = 0
  /\ lastEvent' = -1
  /\ frozenVerdicts' = [k \in 1 .. Len(song) |-> Open]
  /\ frozenCount' = 0
  /\ tentative' = Verdicts(song, <<>>)

\* onEvent(): the caller must deliver in the order of the event times.
ScorerOnEvent(pitch, time) ==
  /\ time >= lastEvent
  /\ events' = Append(events, [pitch |-> pitch, time |-> time])
  /\ lastEvent' = time
  /\ tentative' = Verdicts(notes, events')
  /\ FillFrozen(Later(sessionSeconds, time), tentative')
  /\ UNCHANGED <<notes, sessionSeconds>>

\* tick(): moves the clock; the tentative verdicts are not computed again.
ScorerTick(now) ==
  /\ now >= sessionSeconds
  /\ sessionSeconds' = now
  /\ FillFrozen(Later(now, lastEvent), tentative)
  /\ UNCHANGED <<notes, events, lastEvent, tentative>>

\* finalize(): the batch result over the complete event stream.
FinalVerdicts == Verdicts(notes, events)

-----------------------------------------------------------------------------
\* The caller's part of the delivery contract: an event is never older than
\* the clock the scorer was last ticked to.  The KDoc asks for more, that it
\* be strictly younger; the touch path delivers events at the very time of
\* the last tick, and a freeze waits for the mark to exceed the close.
OnTime(time) == time >= sessionSeconds

ScorerInit == \E song \in Songs : FreshScorer(song)

ScorerNext ==
  \/ \E pitch \in Pitch, time \in Instants :
       /\ Len(events) < MaxPlayed
       /\ OnTime(time)
       /\ ScorerOnEvent(pitch, time)
  \/ \E now \in Instants : ScorerTick(now)

ScorerSpec == ScorerInit /\ [][ScorerNext]_scorerVars

-----------------------------------------------------------------------------
ScorerTypeOK ==
  /\ notes \in Songs
  /\ events \in Seq(EventType)
  /\ sessionSeconds \in Nat
  /\ lastEvent \in Nat \cup {-1}
  /\ frozenCount \in 0 .. Len(notes)
  /\ frozenVerdicts \in [1 .. Len(notes) -> Verdict \cup {Open}]
  /\ \A k \in 1 .. Len(notes) : frozenVerdicts[k] = Open <=> k > frozenCount
  /\ tentative \in [1 .. Len(notes) -> Verdict]

\* The freeze theorem (RealtimeScorer.kt:9-24, 41): a frozen verdict is the
\* verdict of the batch scorer over all events delivered until now, at every
\* later moment of the pass, so it is the verdict of the final report.  The
\* code takes it from the events it had when the note froze.
FrozenIsFinal ==
  \A k \in 1 .. frozenCount : frozenVerdicts[k] = FinalVerdicts[k]

\* "The standard window config (late >= early ...)": what the sentence below needs.
LateAtLeastEarly ==
  \A song \in Songs : \A k \in 1 .. Len(song) :
    song[k].at - song[k].opens <= song[k].closes - song[k].at

\* The first sentence of that theorem: the verdict of a note is settled once
\* the watermark is past the close of that note's own window, even while the
\* window of an earlier note, at a slower tempo, is still open and may
\* consume events.
SettledAtOwnClose ==
  [][\A k \in 1 .. Len(notes) :
       Watermark > notes[k].closes => FinalVerdicts'[k] = FinalVerdicts[k]]_scorerVars

Rank(verdict) ==
  CASE verdict = "MISSED" -> 0 [] verdict = "WRONG" -> 1
    [] verdict = "GOOD" -> 2 [] verdict = "PERFECT" -> 3

\* Playing more never makes a note worse: an event may lead an earlier note
\* to give up the event it held, but no note ever loses its hit, or its
\* PERFECT, to that reshuffle.
VerdictsOnlyImprove ==
  [][\A k \in 1 .. Len(notes) : Rank(tentative'[k]) >= Rank(tentative[k])]_scorerVars
=============================================================================
