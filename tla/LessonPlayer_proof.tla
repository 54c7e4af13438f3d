-------------------------- MODULE LessonPlayer_proof --------------------------
(***************************************************************************)
(* Proofs for every song, every tempo map and every sequence of events,    *)
(* frames, touches and taps.  The matcher: its recursion is well defined,  *)
(* an event after the close of a note and of every note before it leaves   *)
(* their verdicts alone, and one more event makes at most one more event   *)
(* available to any note.  The scorer: its types, the freeze theorem of    *)
(* its KDoc, the settling of a note at its own close, and that playing     *)
(* more never worsens a verdict.  The lesson screen, the practice session  *)
(* and the scorer together: the session keeps its part of the scorer's     *)
(* delivery contract and no precondition of either fails, so that the      *)
(* freeze theorem holds in a lesson; the combo is the run of hits; and the *)
(* results overlay shows the final report.                                 *)
(***************************************************************************)
EXTENDS LessonPlayer, SequenceTheorems, WellFoundedInduction, TLAPS

-----------------------------------------------------------------------------
\* A non-empty set of natural numbers has a least element: induction, in the
\* form of the least counterexample.
LEMMA LeastNatural ==
  ASSUME NEW T, T \subseteq Nat, T # {}
  PROVE  \E n \in T : \A m \in T : n <= m
<1>1. PICK n \in T : \A m \in T : ~ (<<m, n>> \in OpToRel(<, Nat))
  BY NatLessThanWellFounded, WFMin
<1>2. \A m \in T : n <= m
  <2> TAKE m \in T
  <2>1. ~ (<<m, n>> \in OpToRel(<, Nat))
    BY <1>1
  <2>2. m < n => <<m, n>> \in OpToRel(<, Nat)
    BY DEF OpToRel
  <2>3. ~ (m < n)
    BY <2>1, <2>2, Zenon
  <2> QED BY <2>3
<1> QED BY <1>2

-----------------------------------------------------------------------------
\* The recursion that Matching stands for, on the first n notes.
Matches(g, song, played, n) ==
  g = [k \in 1 .. n |->
         BestEqualPitchEvent(song[k], played, {g[j] : j \in 1 .. k - 1})]

\* A matching of the first n notes extends to one more note.
LEMMA ExtendMatches ==
  ASSUME NEW song, NEW played, NEW n \in Nat, NEW g, Matches(g, song, played, n)
  PROVE  \E h : Matches(h, song, played, n + 1)
<1> DEFINE b == BestEqualPitchEvent(song[n + 1], played, {g[j] : j \in 1 .. n})
           h == [k \in 1 .. n + 1 |-> IF k = n + 1 THEN b ELSE g[k]]
<1>1. \A k \in 1 .. n : h[k] = g[k]
  OBVIOUS
<1>2. ASSUME NEW k \in 1 .. n + 1
      PROVE  {h[j] : j \in 1 .. k - 1} = {g[j] : j \in 1 .. k - 1}
  <2>1. \A j \in 1 .. k - 1 : h[j] = g[j]
    BY <1>1
  <2> QED BY <2>1
<1>3. ASSUME NEW k \in 1 .. n + 1
      PROVE  h[k] = BestEqualPitchEvent(song[k], played, {h[j] : j \in 1 .. k - 1})
  <2>1. CASE k = n + 1
    <3>1. {g[j] : j \in 1 .. k - 1} = {g[j] : j \in 1 .. n}
      BY <2>1
    <3> QED BY <2>1, <3>1, <1>2
  <2>2. CASE k # n + 1
    <3>1. k \in 1 .. n /\ h[k] = g[k]
      BY <2>2
    <3>2. g[k] = BestEqualPitchEvent(song[k], played, {g[j] : j \in 1 .. k - 1})
      BY <3>1 DEF Matches
    <3> QED BY <3>1, <3>2, <1>2
  <2> QED BY <2>1, <2>2
<1>4. Matches(h, song, played, n + 1)
  BY <1>3 DEF Matches
<1> QED BY <1>4

\* There is a matching of any number of song, by induction over that number.
LEMMA MatchesExist ==
  ASSUME NEW song, NEW played, NEW n \in Nat
  PROVE  \E g : Matches(g, song, played, n)
<1> DEFINE Stuck == {m \in Nat : ~ \E g : Matches(g, song, played, m)}
<1> SUFFICES ASSUME Stuck # {} PROVE FALSE
  OBVIOUS
<1>1. PICK m \in Stuck : \A k \in Stuck : m <= k
  BY LeastNatural
<1>2. CASE m = 0
  <2>1. Matches(<<>>, song, played, 0)
    BY DEF Matches
  <2> QED BY <1>1, <1>2, <2>1
<1>3. CASE m # 0
  <2>1. m - 1 \in Nat /\ m - 1 \notin Stuck
    BY <1>1, <1>3
  <2>2. PICK g : Matches(g, song, played, m - 1)
    BY <2>1
  <2>3. \E h : Matches(h, song, played, (m - 1) + 1)
    BY <2>1, <2>2, ExtendMatches
  <2> QED BY <1>1, <2>3
<1> QED BY <1>2, <1>3

\* What Matching computes: the recursive definition is a recursion.
LEMMA MatchingRecursion ==
  ASSUME NEW song, NEW played, Len(song) \in Nat, NEW k \in 1 .. Len(song)
  PROVE  Matching(song, played)[k] =
           BestEqualPitchEvent(song[k], played, ConsumedBefore(song, played, k))
<1>1. PICK g : Matches(g, song, played, Len(song))
  BY MatchesExist
<1>2. Matches(Matching(song, played), song, played, Len(song))
  BY <1>1 DEF Matches, Matching
<1> QED BY <1>2 DEF Matches, ConsumedBefore

-----------------------------------------------------------------------------
(* Appending an event.  Times and windows are integers.                    *)

\* An event after the close of a note's window is nothing to that note.
LEMMA LateEventIgnored ==
  ASSUME NEW note, NEW S, NEW played \in Seq(S), NEW event \in S, NEW consumed,
         note.closes \in Int, event.time \in Int, event.time > note.closes
  PROVE  /\ Closest(note, Append(played, event), consumed) = Closest(note, played, consumed)
         /\ BestEqualPitchEvent(note, Append(played, event), consumed) =
              BestEqualPitchEvent(note, played, consumed)
         /\ Judge(note, Append(played, event), consumed) = Judge(note, played, consumed)
<1> DEFINE more == Append(played, event)
<1>1. /\ DOMAIN played = 1 .. Len(played) /\ Len(played) \in Nat
      /\ DOMAIN more = 1 .. Len(played) + 1
      /\ \A i \in DOMAIN played : more[i] = played[i]
      /\ more[Len(played) + 1] = event
  BY AppendProperties
<1>2. ~ InWindow(note, event)
  BY DEF InWindow
<1> HIDE DEF more
<1>3. Candidates(note, more, consumed) = Candidates(note, played, consumed)
  BY <1>1, <1>2 DEF Candidates
<1>4. Candidates(note, played, consumed) \subseteq DOMAIN played
  BY DEF Candidates
<1>5. \A i, j \in DOMAIN played : Prefers(note, more, i, j) <=> Prefers(note, played, i, j)
  BY <1>1 DEF Prefers
<1>6. Closest(note, more, consumed) = Closest(note, played, consumed)
  BY <1>3, <1>4, <1>5 DEF Closest
<1>7. BestEqualPitchEvent(note, more, consumed) = BestEqualPitchEvent(note, played, consumed)
  BY <1>6 DEF BestEqualPitchEvent
<1>8. BestEqualPitchEvent(note, played, consumed) # NoMatch
        => BestEqualPitchEvent(note, played, consumed) \in DOMAIN played
  <2>1. Closest(note, played, consumed) \subseteq DOMAIN played
    BY <1>4 DEF Closest
  <2> QED BY <2>1 DEF BestEqualPitchEvent
<1>9. WrongInWindow(note, more, consumed) <=> WrongInWindow(note, played, consumed)
  BY <1>1, <1>2 DEF WrongInWindow
<1>10. Judge(note, more, consumed) = Judge(note, played, consumed)
  BY <1>1, <1>7, <1>8, <1>9 DEF Judge
<1> QED BY <1>6, <1>7, <1>10 DEF more

\* All song up to m have closed before the event: they keep what they
\* consumed ...
LEMMA MatchingSettled ==
  ASSUME NEW song, NEW S, NEW played \in Seq(S), NEW event \in S,
         Len(song) \in Nat, NEW m \in 0 .. Len(song), event.time \in Int,
         \A k \in 1 .. m : song[k].closes \in Int /\ event.time > song[k].closes
  PROVE  \A k \in 1 .. m :
           Matching(song, Append(played, event))[k] = Matching(song, played)[k]
<1> DEFINE more == Append(played, event)
           Moved == {k \in 1 .. m : Matching(song, more)[k] # Matching(song, played)[k]}
<1> SUFFICES ASSUME Moved # {} PROVE FALSE
  OBVIOUS
<1>1. PICK k \in Moved : \A j \in Moved : k <= j
  <2>1. Moved \subseteq Nat
    OBVIOUS
  <2> HIDE DEF Moved
  <2> QED BY <2>1, LeastNatural
<1>2. k \in 1 .. m /\ k \in 1 .. Len(song)
  OBVIOUS
<1>3. \A j \in 1 .. k - 1 : Matching(song, more)[j] = Matching(song, played)[j]
  BY <1>1, <1>2
<1>4. ConsumedBefore(song, more, k) = ConsumedBefore(song, played, k)
  BY <1>3 DEF ConsumedBefore
<1>5. Matching(song, more)[k] =
        BestEqualPitchEvent(song[k], more, ConsumedBefore(song, played, k))
  BY <1>2, <1>4, MatchingRecursion
<1>6. Matching(song, played)[k] =
        BestEqualPitchEvent(song[k], played, ConsumedBefore(song, played, k))
  BY <1>2, MatchingRecursion
<1>7. Matching(song, more)[k] = Matching(song, played)[k]
  BY <1>2, <1>5, <1>6, LateEventIgnored
<1> QED BY <1>1, <1>7

\* ... and their verdicts.
LEMMA VerdictsSettled ==
  ASSUME NEW song, NEW S, NEW played \in Seq(S), NEW event \in S,
         Len(song) \in Nat, NEW m \in 0 .. Len(song), event.time \in Int,
         \A k \in 1 .. m : song[k].closes \in Int /\ event.time > song[k].closes
  PROVE  \A k \in 1 .. m :
           Verdicts(song, Append(played, event))[k] = Verdicts(song, played)[k]
<1> DEFINE more == Append(played, event)
<1> TAKE k \in 1 .. m
<1>1. \A j \in 1 .. k - 1 : Matching(song, more)[j] = Matching(song, played)[j]
  BY MatchingSettled
<1>2. ConsumedBefore(song, more, k) = ConsumedBefore(song, played, k)
  BY <1>1 DEF ConsumedBefore
<1>3. Judge(song[k], more, ConsumedBefore(song, played, k)) =
        Judge(song[k], played, ConsumedBefore(song, played, k))
  BY LateEventIgnored
<1> QED BY <1>2, <1>3 DEF Verdicts

\* Every note gets a verdict.
LEMMA VerdictsType ==
  ASSUME NEW song, NEW played
  PROVE  Verdicts(song, played) \in [1 .. Len(song) -> Verdict]
BY DEF Verdicts, Judge, Verdict


\* A song is a sequence of notes whose windows close at integers.
LEMMA SongFacts ==
  ASSUME NEW song \in Songs
  PROVE  /\ Len(song) \in Nat
         /\ \A k \in 1 .. Len(song) : song[k].closes \in Int
<1>1. song \in Seq(NoteType)
  BY ScorerAssumption
<1>2. \A k \in 1 .. Len(song) : song[k] \in NoteType
  BY <1>1
<1> QED BY <1>1, <1>2 DEF NoteType

-----------------------------------------------------------------------------
(* Freezing.                                                               *)

\* The loop of fillFrozen stops at the first note that is still open, and
\* there is one such place.
LEMMA FreezePointFacts ==
  ASSUME Len(notes) \in Nat, frozenCount \in 0 .. Len(notes), NEW mark
  PROVE  /\ FreezePoint(mark) \in frozenCount .. Len(notes)
         /\ \A k \in frozenCount + 1 .. FreezePoint(mark) : PastClose(k, mark)
<1> DEFINE Stop == {n \in frozenCount .. Len(notes) :
                      n < Len(notes) => ~PastClose(n + 1, mark)}
<1>1. PICK n \in Stop : \A m \in Stop : n <= m
  <2>1. Stop \subseteq Nat
    OBVIOUS
  <2>2. Len(notes) \in Stop
    OBVIOUS
  <2> HIDE DEF Stop
  <2> QED BY <2>1, <2>2, LeastNatural
<1>2. ASSUME NEW k \in frozenCount + 1 .. n PROVE PastClose(k, mark)
  <2>1. k - 1 \in frozenCount .. Len(notes) /\ k - 1 < Len(notes) /\ k - 1 < n
    BY <1>1
  <2>2. k - 1 \notin Stop
    BY <1>1, <2>1
  <2>3. PastClose((k - 1) + 1, mark)
    BY <2>1, <2>2
  <2> QED BY <2>3
<1>3. \E x \in frozenCount .. Len(notes) :
        /\ \A k \in frozenCount + 1 .. x : PastClose(k, mark)
        /\ x < Len(notes) => ~PastClose(x + 1, mark)
  BY <1>1, <1>2
<1> QED BY <1>3 DEF FreezePoint

\* Freezing never shortens the frozen prefix, and fills exactly that prefix.
LEMMA FillFrozenType ==
  ASSUME ScorerTypeOK, NEW mark, NEW verdicts \in [1 .. Len(notes) -> Verdict],
         FillFrozen(mark, verdicts), notes' = notes
  PROVE  /\ frozenCount' \in frozenCount .. Len(notes)
         /\ frozenVerdicts' \in [1 .. Len(notes) -> Verdict \cup {Open}]
         /\ \A k \in 1 .. Len(notes) : frozenVerdicts'[k] = Open <=> k > frozenCount'
<1>0. Len(notes) \in Nat /\ frozenCount \in 0 .. Len(notes)
  BY SongFacts DEF ScorerTypeOK
<1>1. frozenCount' \in frozenCount .. Len(notes) /\ frozenCount' = FreezePoint(mark)
  BY <1>0, FreezePointFacts DEF FillFrozen
<1>2. frozenVerdicts' = [k \in 1 .. Len(notes) |->
         IF k \in frozenCount + 1 .. frozenCount' THEN verdicts[k] ELSE frozenVerdicts[k]]
  BY <1>1 DEF FillFrozen
<1>3. Open \notin Verdict
  BY DEF Open, Verdict
<1>4. \A k \in 1 .. Len(notes) : frozenVerdicts[k] = Open <=> k > frozenCount
  BY DEF ScorerTypeOK
<1>5. frozenVerdicts' \in [1 .. Len(notes) -> Verdict \cup {Open}]
  BY <1>2 DEF ScorerTypeOK
<1>6. ASSUME NEW k \in 1 .. Len(notes)
      PROVE  frozenVerdicts'[k] = Open <=> k > frozenCount'
  <2>1. CASE k \in frozenCount + 1 .. frozenCount'
    <3>1. frozenVerdicts'[k] \in Verdict
      BY <1>2, <2>1
    <3> QED BY <3>1, <2>1, <1>0, <1>1, <1>3
  <2>2. CASE k \notin frozenCount + 1 .. frozenCount'
    <3>1. frozenVerdicts'[k] = frozenVerdicts[k]
      BY <1>2, <2>2
    <3> QED BY <3>1, <2>2, <1>0, <1>1, <1>4
  <2> QED BY <2>1, <2>2
<1> QED BY <1>1, <1>5, <1>6

-----------------------------------------------------------------------------
(* Types.                                                                  *)

\* The type invariant holds at the start.
LEMMA ScorerTypeInit == ScorerInit => ScorerTypeOK
<1> SUFFICES ASSUME NEW song \in Songs, FreshScorer(song) PROVE ScorerTypeOK
  BY DEF ScorerInit
<1>1. tentative \in [1 .. Len(notes) -> Verdict]
  BY VerdictsType DEF FreshScorer
<1>2. events \in Seq(EventType)
  BY DEF FreshScorer
<1>3. Len(notes) \in Nat
  BY SongFacts DEF FreshScorer
<1> QED BY <1>1, <1>2, <1>3 DEF FreshScorer, ScorerTypeOK, Open

\* The type invariant survives every step.
LEMMA ScorerTypeStep ==
  ScorerTypeOK /\ [ScorerNext]_scorerVars => ScorerTypeOK'
<1> SUFFICES ASSUME ScorerTypeOK, [ScorerNext]_scorerVars PROVE ScorerTypeOK'
  OBVIOUS
<1>1. ASSUME NEW pitch \in Pitch, NEW time \in Instants, ScorerOnEvent(pitch, time)
      PROVE  ScorerTypeOK'
  <2>1. time \in Nat /\ notes' = notes /\ tentative' = Verdicts(notes, events')
        /\ FillFrozen(Later(sessionSeconds, time), tentative')
    BY <1>1, ScorerAssumption DEF ScorerOnEvent
  <2>2. tentative' \in [1 .. Len(notes) -> Verdict]
    BY <2>1, VerdictsType
  <2>3. events' \in Seq(EventType)
    BY <1>1, <2>1 DEF ScorerOnEvent, ScorerTypeOK, EventType
  <2>4. /\ frozenCount' \in frozenCount .. Len(notes)
        /\ frozenVerdicts' \in [1 .. Len(notes) -> Verdict \cup {Open}]
        /\ \A k \in 1 .. Len(notes) : frozenVerdicts'[k] = Open <=> k > frozenCount'
    BY <2>1, <2>2, FillFrozenType
  <2>5. frozenCount' \in 0 .. Len(notes)
    BY <2>4 DEF ScorerTypeOK
  <2> QED BY <1>1, <2>1, <2>2, <2>3, <2>4, <2>5 DEF ScorerOnEvent, ScorerTypeOK
<1>2. ASSUME NEW now \in Instants, ScorerTick(now) PROVE ScorerTypeOK'
  <2>1. now \in Nat /\ notes' = notes /\ FillFrozen(Later(now, lastEvent), tentative)
    BY <1>2, ScorerAssumption DEF ScorerTick
  <2>2. /\ frozenCount' \in frozenCount .. Len(notes)
        /\ frozenVerdicts' \in [1 .. Len(notes) -> Verdict \cup {Open}]
        /\ \A k \in 1 .. Len(notes) : frozenVerdicts'[k] = Open <=> k > frozenCount'
    BY <2>1, FillFrozenType DEF ScorerTypeOK
  <2>3. frozenCount' \in 0 .. Len(notes)
    BY <2>2 DEF ScorerTypeOK
  <2> QED BY <1>2, <2>1, <2>2, <2>3 DEF ScorerTick, ScorerTypeOK
<1>3. CASE UNCHANGED scorerVars
  BY <1>3 DEF scorerVars, ScorerTypeOK
<1> QED BY <1>1, <1>2, <1>3 DEF ScorerNext

\* The scorer's state has its type, for every song and every schedule of
\* events and ticks; in particular exactly the leading frozenCount notes
\* hold a verdict.
THEOREM ScorerTypeCorrect == ScorerSpec => []ScorerTypeOK
BY ScorerTypeInit, ScorerTypeStep, PTL DEF ScorerSpec

-----------------------------------------------------------------------------
(* The freeze theorem.                                                     *)

\* The notes that are frozen have closed, and the tentative verdicts are
\* those of the batch over the events delivered so far: tick() may freeze
\* from them although it does not compute them.
FreezeInv ==
  /\ ScorerTypeOK
  /\ tentative = FinalVerdicts
  /\ \A k \in 1 .. frozenCount : PastClose(k, Watermark)
  /\ FrozenIsFinal

\* The freeze invariant holds at the start.
LEMMA FreezeInit == ScorerInit => FreezeInv
<1> SUFFICES ASSUME NEW song \in Songs, FreshScorer(song) PROVE FreezeInv
  BY DEF ScorerInit
<1>1. ScorerTypeOK
  BY ScorerTypeInit DEF ScorerInit
<1> QED BY <1>1 DEF FreshScorer, FreezeInv, FinalVerdicts, FrozenIsFinal

\* What freezes now takes the verdict it is given, what was frozen keeps it.
LEMMA FrozenAfterFill ==
  ASSUME ScorerTypeOK, NEW mark \in Int, NEW verdicts, FillFrozen(mark, verdicts),
         notes' = notes,
         Watermark <= mark,
         \A k \in 1 .. frozenCount :
           PastClose(k, Watermark) /\ frozenVerdicts[k] = verdicts[k]
  PROVE  /\ \A k \in 1 .. frozenCount' : frozenVerdicts'[k] = verdicts[k]
         /\ \A k \in 1 .. frozenCount' : \A j \in 1 .. k : mark > notes'[j].closes
<1>0. /\ Len(notes) \in Nat /\ frozenCount \in 0 .. Len(notes)
      /\ Watermark \in Int
      /\ \A k \in 1 .. Len(notes) : notes[k].closes \in Int
  BY SongFacts DEF ScorerTypeOK, Watermark, Later
<1>1. /\ FreezePoint(mark) \in frozenCount .. Len(notes)
      /\ \A k \in frozenCount + 1 .. FreezePoint(mark) : PastClose(k, mark)
      /\ frozenCount' = FreezePoint(mark)
  BY <1>0, FreezePointFacts DEF FillFrozen
<1>2. \A k \in 1 .. frozenCount' : frozenVerdicts'[k] = verdicts[k]
  BY <1>0, <1>1 DEF FillFrozen
<1>3. ASSUME NEW k \in 1 .. frozenCount', NEW j \in 1 .. k
      PROVE  mark > notes[j].closes
  <2>1. CASE k \in 1 .. frozenCount
    <3>1. Watermark > notes[j].closes
      BY <2>1 DEF PastClose
    <3> QED BY <3>1, <1>0, <1>1, <2>1
  <2>2. CASE k \in frozenCount + 1 .. FreezePoint(mark)
    BY <2>2, <1>1 DEF PastClose
  <2> QED BY <2>1, <2>2, <1>0, <1>1
<1> QED BY <1>2, <1>3

\* onEvent freezes only what the batch matcher will say at the end.
LEMMA FreezeOnEvent ==
  ASSUME FreezeInv, NEW pitch \in Pitch, NEW time \in Instants,
         OnTime(time), ScorerOnEvent(pitch, time)
  PROVE  /\ tentative' = FinalVerdicts'
         /\ \A k \in 1 .. frozenCount' : PastClose(k, Watermark)'
         /\ FrozenIsFinal'
<1> DEFINE event == [pitch |-> pitch, time |-> time]
           mark == Later(sessionSeconds, time)
<1>0. /\ ScorerTypeOK /\ Len(notes) \in Nat /\ frozenCount \in 0 .. Len(notes)
      /\ \A k \in 1 .. Len(notes) : notes[k].closes \in Int
      /\ time \in Nat /\ sessionSeconds \in Nat /\ lastEvent \in Int
  BY SongFacts, ScorerAssumption DEF FreezeInv, ScorerTypeOK
<1>1. /\ notes' = notes /\ events' = Append(events, event) /\ lastEvent' = time
      /\ sessionSeconds' = sessionSeconds
      /\ tentative' = Verdicts(notes, events') /\ FillFrozen(mark, tentative')
      /\ time >= lastEvent /\ time >= sessionSeconds
  BY DEF ScorerOnEvent, OnTime
<1>2. Watermark' = mark /\ mark \in Int /\ Watermark <= mark /\ Watermark <= time
      /\ Watermark \in Int
  BY <1>0, <1>1 DEF Watermark, Later
<1>3. \A k \in 1 .. frozenCount : tentative'[k] = frozenVerdicts[k]
  <2>1. \A k \in 1 .. frozenCount : time > notes[k].closes
    <3> TAKE k \in 1 .. frozenCount
    <3>1. Watermark > notes[k].closes
      BY DEF FreezeInv, PastClose
    <3> QED BY <3>1, <1>0, <1>2
  <2>2. events \in Seq(EventType \cup {event}) /\ event.time = time
    BY <1>0 DEF ScorerTypeOK
  <2>3. \A k \in 1 .. frozenCount :
          Verdicts(notes, Append(events, event))[k] = Verdicts(notes, events)[k]
    <3>1. event \in EventType \cup {event} /\ event.time \in Int
      BY <1>0
    <3>2. \A k \in 1 .. frozenCount :
            notes[k].closes \in Int /\ event.time > notes[k].closes
      BY <1>0, <2>1
    <3> HIDE DEF event
    <3> QED BY <1>0, <2>2, <3>1, <3>2, VerdictsSettled
  <2> QED BY <1>1, <2>3 DEF FreezeInv, FrozenIsFinal, FinalVerdicts
<1>4. /\ \A k \in 1 .. frozenCount' : frozenVerdicts'[k] = tentative'[k]
      /\ \A k \in 1 .. frozenCount' : \A j \in 1 .. k : mark > notes'[j].closes
  BY <1>0, <1>1, <1>2, <1>3, FrozenAfterFill DEF FreezeInv
<1> QED BY <1>1, <1>2, <1>4 DEF FinalVerdicts, FrozenIsFinal, PastClose

\* So does tick.
LEMMA FreezeTick ==
  ASSUME FreezeInv, NEW now \in Instants, ScorerTick(now)
  PROVE  /\ tentative' = FinalVerdicts'
         /\ \A k \in 1 .. frozenCount' : PastClose(k, Watermark)'
         /\ FrozenIsFinal'
<1> DEFINE mark == Later(now, lastEvent)
<1>1. /\ notes' = notes /\ events' = events /\ lastEvent' = lastEvent
      /\ sessionSeconds' = now /\ tentative' = tentative
      /\ FillFrozen(mark, tentative) /\ now >= sessionSeconds
  BY DEF ScorerTick
<1>2. Watermark' = mark /\ mark \in Int /\ Watermark <= mark
  BY <1>1, ScorerAssumption DEF FreezeInv, ScorerTypeOK, Watermark, Later
<1>3. /\ \A k \in 1 .. frozenCount' : frozenVerdicts'[k] = tentative[k]
      /\ \A k \in 1 .. frozenCount' : \A j \in 1 .. k : mark > notes'[j].closes
  BY <1>1, <1>2, FrozenAfterFill DEF FreezeInv, FrozenIsFinal
<1> QED BY <1>1, <1>2, <1>3 DEF FreezeInv, FinalVerdicts, FrozenIsFinal, PastClose

\* The freeze invariant survives every step.
LEMMA FreezeStep == FreezeInv /\ [ScorerNext]_scorerVars => FreezeInv'
<1> SUFFICES ASSUME FreezeInv, [ScorerNext]_scorerVars PROVE FreezeInv'
  OBVIOUS
<1>1. ScorerTypeOK'
  BY ScorerTypeStep DEF FreezeInv
<1>2. CASE UNCHANGED scorerVars
  BY <1>2 DEF scorerVars, FreezeInv, ScorerTypeOK, FinalVerdicts, FrozenIsFinal,
              PastClose, Watermark
<1> QED BY <1>1, <1>2, FreezeOnEvent, FreezeTick DEF ScorerNext, FreezeInv

\* The freeze theorem, for every song and every event stream that keeps the
\* delivery contract: a verdict, once frozen and shown, is the verdict of the
\* batch scorer over the whole pass.
THEOREM FreezeTheorem == ScorerSpec => []FrozenIsFinal
<1>1. FreezeInv => FrozenIsFinal
  BY DEF FreezeInv
<1> QED BY <1>1, FreezeInit, FreezeStep, PTL DEF ScorerSpec

-----------------------------------------------------------------------------
(* One more event, the latest: at most one more event is free for any      *)
(* note.                                                                   *)

\* What the constructor and onEvent establish of a song and of what was played.
WellTimed(song, played) ==
  /\ song \in Seq(NoteType) /\ played \in Seq(EventType)
  /\ \A j, k \in 1 .. Len(song) : j <= k => song[j].at <= song[k].at

\* What a note prefers is one of its candidates and preferred to all of them; there is
\* such an event as soon as there is a candidate.
LEMMA BestPreferred ==
  ASSUME NEW note \in NoteType, NEW played \in Seq(EventType), NEW consumed
  PROVE  LET c == Candidates(note, played, consumed)
             b == BestEqualPitchEvent(note, played, consumed)
         IN  \/ c = {} /\ b = NoMatch
             \/ b \in c /\ \A j \in c : Prefers(note, played, b, j)
<1> DEFINE c == Candidates(note, played, consumed)
           b == BestEqualPitchEvent(note, played, consumed)
           dev(i) == Deviation(note, played[i])
<1>1. /\ DOMAIN played = 1 .. Len(played) /\ Len(played) \in Nat
      /\ \A i \in DOMAIN played : dev(i) \in Nat
  <2>1. \A i \in DOMAIN played : played[i] \in EventType
    OBVIOUS
  <2>2. \A i \in DOMAIN played : played[i].time \in Nat /\ note.at \in Int
    BY <2>1 DEF EventType, NoteType
  <2> QED BY <2>2 DEF Deviation
<1>2. c \subseteq DOMAIN played
  BY DEF Candidates
<1> HIDE DEF dev
<1>3. CASE c = {}
  BY <1>3 DEF BestEqualPitchEvent, Closest
<1>4. CASE c # {}
  <2>1. PICK m \in {dev(i) : i \in c} : \A n \in {dev(i) : i \in c} : m <= n
    <3>1. {dev(i) : i \in c} \subseteq Nat /\ {dev(i) : i \in c} # {}
      BY <1>1, <1>2, <1>4
    <3> HIDE DEF c
    <3> QED BY <3>1, LeastNatural
  <2>2. PICK i \in {j \in c : dev(j) = m} : \A j \in {j \in c : dev(j) = m} : i <= j
    <3>1. {j \in c : dev(j) = m} \subseteq Nat /\ {j \in c : dev(j) = m} # {}
      BY <1>1, <1>2, <2>1
    <3> HIDE DEF c
    <3> QED BY <3>1, LeastNatural
  <2>3. i \in c /\ \A j \in c : Prefers(note, played, i, j)
    <3> HIDE DEF c
    <3>1. \A j \in c : dev(i) <= dev(j) /\ dev(i) \in Nat /\ dev(j) \in Nat
      BY <1>1, <1>2, <2>1, <2>2
    <3>2. \A j \in c : dev(i) = dev(j) => i <= j
      BY <2>2
    <3> QED BY <2>2, <3>1, <3>2 DEF Prefers, dev
  <2>4. i \in Closest(note, played, consumed)
    BY <2>3 DEF Closest
  <2>5. b \in Closest(note, played, consumed)
    BY <2>4 DEF BestEqualPitchEvent
  <2> QED BY <2>5 DEF Closest
<1> QED BY <1>3, <1>4

\* A note prefers one event only.
LEMMA PrefersOne ==
  ASSUME NEW note \in NoteType, NEW played \in Seq(EventType),
         NEW i \in DOMAIN played, NEW j \in DOMAIN played,
         Prefers(note, played, i, j), Prefers(note, played, j, i)
  PROVE  i = j
<1>1. Deviation(note, played[i]) \in Int /\ Deviation(note, played[j]) \in Int
  <2>1. played[i] \in EventType /\ played[j] \in EventType
    OBVIOUS
  <2>2. played[i].time \in Nat /\ played[j].time \in Nat /\ note.at \in Int
    BY <2>1 DEF EventType, NoteType
  <2> QED BY <2>2 DEF Deviation
<1>2. i \in Int /\ j \in Int
  OBVIOUS
<1> QED BY <1>1, <1>2 DEF Prefers

\* The events that are free for note k.
Free(song, played, k) == (DOMAIN played) \ ConsumedBefore(song, played, k)

\* Event x is the only one that one more event at the end may make available to
\* note k: that event itself, or one that an earlier note gave up for a closer one,
\* which lies so far before note k that it is farther from it than the last event.
OnlyMore(song, played, event, k, x) ==
  LET more == Append(played, event)
  IN  /\ Free(song, played, k) \subseteq Free(song, more, k)
      /\ Free(song, more, k) \subseteq Free(song, played, k) \cup {x}
      /\ x \in 1 .. Len(played) => played[x].time + event.time < 2 * song[k].at

\* Every note consumes its best event.
LEMMA FreeAfter ==
  ASSUME NEW song, NEW played, Len(song) \in Nat, NEW k \in 1 .. Len(song)
  PROVE  Free(song, played, k + 1) =
           Free(song, played, k)
             \ {BestEqualPitchEvent(song[k], played, ConsumedBefore(song, played, k))}
<1>1. Matching(song, played)[k] =
        BestEqualPitchEvent(song[k], played, ConsumedBefore(song, played, k))
  BY MatchingRecursion
<1>2. ConsumedBefore(song, played, k + 1) =
        ConsumedBefore(song, played, k) \cup {Matching(song, played)[k]}
  <2>1. 1 .. (k + 1) - 1 = (1 .. k - 1) \cup {k}
    OBVIOUS
  <2> QED BY <2>1 DEF ConsumedBefore
<1> QED BY <1>1, <1>2 DEF Free

\* What one note does with one more free event: it takes it, and leaves free the one it
\* would have taken instead, or it does not care.
LEMMA NoteTakes ==
  ASSUME NEW song, NEW played, NEW event \in EventType, WellTimed(song, played),
         \A i \in 1 .. Len(played) : played[i].time <= event.time,
         NEW k \in 1 .. Len(song), NEW x, OnlyMore(song, played, event, k, x)
  PROVE  \E y :
           LET more == Append(played, event)
           IN  /\ Free(song, played, k + 1) \subseteq Free(song, more, k + 1)
               /\ Free(song, more, k + 1) \subseteq Free(song, played, k + 1) \cup {y}
               /\ y \in 1 .. Len(played) => played[y].time + event.time < 2 * song[k].at
<1> DEFINE more == Append(played, event)
           old == ConsumedBefore(song, played, k)
           new == ConsumedBefore(song, more, k)
           note == song[k]
           b == BestEqualPitchEvent(note, played, old)
           d == BestEqualPitchEvent(note, more, new)
           c == Candidates(note, played, old)
           e == Candidates(note, more, new)
<1>1. /\ song \in Seq(NoteType) /\ played \in Seq(EventType) /\ more \in Seq(EventType)
      /\ note \in NoteType /\ Len(song) \in Nat /\ Len(played) \in Nat
      /\ DOMAIN played = 1 .. Len(played) /\ DOMAIN more = 1 .. Len(played) + 1
      /\ \A i \in DOMAIN played : more[i] = played[i]
      /\ more[Len(played) + 1] = event
  <2>1. song \in Seq(NoteType) /\ played \in Seq(EventType)
    BY DEF WellTimed
  <2>2. note \in NoteType
    BY <2>1
  <2> QED BY <2>1, <2>2, AppendProperties
<1>2. /\ \A i \in DOMAIN more : more[i] \in EventType /\ more[i].time \in Nat
                                /\ more[i].time <= event.time
      /\ note.at \in Int /\ event.time \in Nat
  <2>1. \A i \in DOMAIN more : more[i] \in EventType
    BY <1>1
  <2>2. \A i \in DOMAIN more : more[i].time <= event.time
    <3>1. event.time \in Nat
      BY DEF EventType
    <3> HIDE DEF more
    <3> QED BY <1>1, <3>1
  <2> HIDE DEF more
  <2> QED BY <1>1, <2>1, <2>2 DEF EventType, NoteType
<1>3. /\ c \subseteq Free(song, played, k) /\ e \subseteq Free(song, more, k)
      /\ c \subseteq DOMAIN played /\ e \subseteq DOMAIN more
  BY DEF Candidates, Free
<1> HIDE DEF more
<1>4. /\ Free(song, played, k) \subseteq Free(song, more, k)
      /\ Free(song, more, k) \subseteq Free(song, played, k) \cup {x}
      /\ x \in 1 .. Len(played) => played[x].time + event.time < 2 * note.at
  BY DEF OnlyMore, more
<1>5. /\ c \subseteq e
      /\ \A i \in e : i \in Free(song, played, k) => i \in c
  BY <1>1, <1>4 DEF Candidates, Free
<1>6. /\ Free(song, played, k + 1) = Free(song, played, k) \ {b}
      /\ Free(song, more, k + 1) = Free(song, more, k) \ {d}
  BY <1>1, FreeAfter
<1>7. /\ \/ c = {} /\ b = NoMatch
         \/ b \in c /\ (\A j \in c : Prefers(note, played, b, j))
      /\ \/ e = {} /\ d = NoMatch
         \/ d \in e /\ (\A j \in e : Prefers(note, more, d, j))
  BY <1>1, BestPreferred
<1>8. NoMatch \notin DOMAIN more
  BY <1>1 DEF NoMatch
<1> HIDE DEF b, c, d, e, old, new, note
<1>9. CASE d = b
  BY <1>4, <1>6, <1>9 DEF more, note
<1>10. CASE d # b
  <2>1. d \in e /\ d \notin Free(song, played, k) /\ d = x
    <3>1. d \in e
      BY <1>5, <1>7, <1>10
    <3>2. d \notin c
      <4> SUFFICES ASSUME d \in c PROVE FALSE
        OBVIOUS
      <4>1. b \in c /\ Prefers(note, played, b, d) /\ Prefers(note, more, d, b)
        BY <1>5, <1>7, <3>1
      <4>2. Prefers(note, played, d, b)
        BY <1>1, <1>3, <4>1 DEF Prefers
      <4> QED BY <1>1, <1>3, <1>10, <4>1, <4>2, PrefersOne
    <3> QED BY <1>3, <1>4, <1>5, <3>1, <3>2
  <2>2. Free(song, played, k + 1) \subseteq Free(song, more, k + 1)
    BY <1>4, <1>6, <2>1
  <2>3. Free(song, more, k + 1) \subseteq Free(song, played, k + 1) \cup {b}
    BY <1>4, <1>6, <2>1
  <2>4. ASSUME b \in 1 .. Len(played)
        PROVE  played[b].time + event.time < 2 * note.at
    <3>1. b \in c /\ b \in e /\ Prefers(note, more, d, b)
      BY <1>1, <1>5, <1>7, <2>1, <2>4 DEF NoMatch
    <3>2. /\ more[b] = played[b] /\ more[b].time \in Nat /\ more[b].time <= event.time
          /\ more[d].time \in Nat /\ more[d].time <= event.time
      BY <1>1, <1>2, <1>3, <2>1, <3>1
    <3>3. CASE d = Len(played) + 1
      <4>1. Deviation(note, event) < Deviation(note, more[b])
        BY <1>1, <2>4, <3>1, <3>3 DEF Prefers
      <4> QED BY <1>2, <3>2, <4>1 DEF Deviation
    <3>4. CASE d \in 1 .. Len(played)
      <4>1. more[d].time + event.time < 2 * note.at
        BY <1>1, <1>4, <2>1, <3>4
      <4>2. \/ Deviation(note, more[d]) <= Deviation(note, more[b])
        BY <1>2, <3>1, <3>2 DEF Prefers, Deviation
      <4> QED BY <1>2, <3>2, <4>1, <4>2 DEF Deviation
    <3> QED BY <1>1, <1>3, <2>1, <3>3, <3>4
  <2> QED BY <2>2, <2>3, <2>4 DEF more, note
<1> QED BY <1>9, <1>10

\* At most one more event is free for any note.
LEMMA OneMoreFree ==
  ASSUME NEW song, NEW played, NEW event \in EventType, WellTimed(song, played),
         \A i \in 1 .. Len(played) : played[i].time <= event.time,
         NEW k \in 1 .. Len(song)
  PROVE  \E x : OnlyMore(song, played, event, k, x)
<1> DEFINE more == Append(played, event)
           Stuck == {m \in 1 .. Len(song) : ~ \E x : OnlyMore(song, played, event, m, x)}
<1> SUFFICES ASSUME Stuck # {} PROVE FALSE
  OBVIOUS
<1>1. /\ song \in Seq(NoteType) /\ played \in Seq(EventType)
      /\ Len(song) \in Nat /\ Len(played) \in Nat
      /\ DOMAIN played = 1 .. Len(played) /\ DOMAIN more = 1 .. Len(played) + 1
  BY AppendProperties DEF WellTimed
<1>2. PICK m \in Stuck : \A n \in Stuck : m <= n
  <2>1. Stuck \subseteq Nat
    BY <1>1
  <2> HIDE DEF Stuck
  <2> QED BY <2>1, LeastNatural
<1>3. m \in 1 .. Len(song) /\ ~ \E x : OnlyMore(song, played, event, m, x)
  BY <1>2
<1>4. CASE m = 1
  <2>1. ConsumedBefore(song, played, 1) = {} /\ ConsumedBefore(song, more, 1) = {}
    BY DEF ConsumedBefore
  <2>2. OnlyMore(song, played, event, m, Len(played) + 1)
    BY <1>1, <1>4, <2>1 DEF OnlyMore, Free
  <2> QED BY <1>3, <2>2
<1>5. CASE m # 1
  <2> DEFINE n == m - 1
  <2>1. n \in 1 .. Len(song) /\ n + 1 = m /\ n <= m
    BY <1>1, <1>3, <1>5
  <2>2. n \notin Stuck
    BY <1>2, <1>3, <2>1
  <2>3. PICK x : OnlyMore(song, played, event, n, x)
    BY <2>1, <2>2
  <2> HIDE DEF n, Stuck
  <2>4. PICK y :
          /\ Free(song, played, n + 1) \subseteq Free(song, more, n + 1)
          /\ Free(song, more, n + 1) \subseteq Free(song, played, n + 1) \cup {y}
          /\ y \in 1 .. Len(played) => played[y].time + event.time < 2 * song[n].at
    BY <2>1, <2>3, NoteTakes
  <2>5. y \in 1 .. Len(played) => played[y].time + event.time < 2 * song[m].at
    <3>1. song[n].at <= song[m].at
      BY <1>3, <2>1 DEF WellTimed
    <3>2. song[n].at \in Int /\ song[m].at \in Int
      <4>1. song[n] \in NoteType /\ song[m] \in NoteType
        BY <1>1, <1>3, <2>1
      <4> QED BY <4>1 DEF NoteType
    <3>3. \A i \in 1 .. Len(played) : played[i].time \in Int
      <4>1. \A i \in 1 .. Len(played) : played[i] \in EventType
        BY <1>1
      <4> QED BY <4>1 DEF EventType
    <3>4. event.time \in Int
      BY DEF EventType
    <3>5. ASSUME y \in 1 .. Len(played)
          PROVE  played[y].time + event.time < 2 * song[m].at
      <4>1. played[y].time + event.time < 2 * song[n].at
        BY <2>4, <3>5
      <4>2. played[y].time \in Int
        BY <3>3, <3>5
      <4> HIDE DEF OnlyMore
      <4> QED BY <3>1, <3>2, <3>4, <4>1, <4>2
    <3> QED BY <3>5
  <2>6. OnlyMore(song, played, event, m, y)
    BY <2>1, <2>4, <2>5 DEF OnlyMore
  <2> QED BY <1>3, <2>6
<1> QED BY <1>4, <1>5

\* With windows no longer before a note than after it, such an event is not in the
\* window of a note that has closed: its candidates and its verdict stay.
LEMMA ClosedNoteSettled ==
  ASSUME NEW song, NEW played, NEW event \in EventType, WellTimed(song, played),
         \A i \in 1 .. Len(played) : played[i].time <= event.time,
         NEW k \in 1 .. Len(song),
         song[k].at - song[k].opens <= song[k].closes - song[k].at,
         event.time > song[k].closes
  PROVE  Verdicts(song, Append(played, event))[k] = Verdicts(song, played)[k]
<1> DEFINE more == Append(played, event)
           old == ConsumedBefore(song, played, k)
           new == ConsumedBefore(song, more, k)
           note == song[k]
<1>1. /\ played \in Seq(EventType) /\ Len(played) \in Nat /\ note \in NoteType
      /\ DOMAIN played = 1 .. Len(played) /\ DOMAIN more = 1 .. Len(played) + 1
      /\ \A i \in DOMAIN played : more[i] = played[i]
      /\ more[Len(played) + 1] = event
  <2>1. song \in Seq(NoteType) /\ played \in Seq(EventType)
    BY DEF WellTimed
  <2>2. note \in NoteType
    BY <2>1
  <2> QED BY <2>1, <2>2, AppendProperties
<1>2. PICK x : OnlyMore(song, played, event, k, x)
  BY OneMoreFree
<1> HIDE DEF more
<1>3. /\ Free(song, played, k) \subseteq Free(song, more, k)
      /\ Free(song, more, k) \subseteq Free(song, played, k) \cup {x}
      /\ x \in 1 .. Len(played) => played[x].time + event.time < 2 * note.at
  BY <1>2 DEF OnlyMore, more
<1>4. ASSUME x \in DOMAIN more PROVE ~ InWindow(note, more[x])
  <2>1. /\ note.at \in Int /\ note.opens \in Int /\ note.closes \in Int
        /\ event.time \in Int
        /\ note.at - note.opens <= note.closes - note.at /\ event.time > note.closes
    BY <1>1 DEF NoteType, EventType
  <2>2. CASE x = Len(played) + 1
    BY <1>1, <2>1, <2>2 DEF InWindow
  <2>3. CASE x \in 1 .. Len(played)
    <3>1. played[x].time \in Int
      <4>1. played[x] \in EventType
        BY <1>1, <2>3
      <4> QED BY <4>1 DEF EventType
    <3>2. played[x].time + event.time < 2 * note.at /\ more[x] = played[x]
      BY <1>1, <1>3, <2>3
    <3> HIDE DEF note
    <3> QED BY <2>1, <3>1, <3>2 DEF InWindow
  <2> QED BY <1>1, <1>4, <2>2, <2>3
<1> HIDE DEF note
<1>5. \A i \in Free(song, more, k) :
        InWindow(note, more[i]) => i \in Free(song, played, k) /\ more[i] = played[i]
  BY <1>1, <1>3, <1>4 DEF Free
<1>6. \A i \in Free(song, played, k) : i \in Free(song, more, k) /\ more[i] = played[i]
  BY <1>1, <1>3 DEF Free
<1>7. Candidates(note, more, new) = Candidates(note, played, old)
  BY <1>5, <1>6 DEF Candidates, Free
<1>8. WrongInWindow(note, more, new) <=> WrongInWindow(note, played, old)
  BY <1>5, <1>6 DEF WrongInWindow, Free
<1>9. \A i, j \in DOMAIN played : Prefers(note, more, i, j) <=> Prefers(note, played, i, j)
  BY <1>1 DEF Prefers
<1>10. Candidates(note, played, old) \subseteq DOMAIN played
  BY DEF Candidates
<1>11. Closest(note, more, new) = Closest(note, played, old)
  BY <1>7, <1>9, <1>10 DEF Closest
<1>12. BestEqualPitchEvent(note, more, new) = BestEqualPitchEvent(note, played, old)
  BY <1>11 DEF BestEqualPitchEvent
<1>13. BestEqualPitchEvent(note, played, old) # NoMatch
         => BestEqualPitchEvent(note, played, old) \in DOMAIN played
  <2>1. Closest(note, played, old) \subseteq DOMAIN played
    BY <1>10 DEF Closest
  <2> QED BY <2>1 DEF BestEqualPitchEvent
<1>14. Judge(note, more, new) = Judge(note, played, old)
  BY <1>1, <1>8, <1>12, <1>13 DEF Judge
<1> QED BY <1>14 DEF Verdicts, more, note

\* The ranks of the verdicts.
LEMMA Ranks ==
  /\ Rank("MISSED") = 0 /\ Rank("WRONG") = 1 /\ Rank("GOOD") = 2 /\ Rank("PERFECT") = 3
  /\ \A v \in Verdict : Rank(v) \in Nat
BY DEF Rank, Verdict

\* With one more free event a note that has a hit keeps one at least as close, and one
\* that is WRONG stays so or gets a hit.
LEMMA VerdictImproves ==
  ASSUME NEW song, NEW played, NEW event \in EventType, WellTimed(song, played),
         \A i \in 1 .. Len(played) : played[i].time <= event.time,
         NEW k \in 1 .. Len(song)
  PROVE  Rank(Verdicts(song, Append(played, event))[k]) >= Rank(Verdicts(song, played)[k])
<1> DEFINE more == Append(played, event)
           old == ConsumedBefore(song, played, k)
           new == ConsumedBefore(song, more, k)
           note == song[k]
           b == BestEqualPitchEvent(note, played, old)
           d == BestEqualPitchEvent(note, more, new)
           c == Candidates(note, played, old)
           e == Candidates(note, more, new)
<1>1. /\ played \in Seq(EventType) /\ more \in Seq(EventType) /\ Len(played) \in Nat
      /\ note \in NoteType
      /\ DOMAIN played = 1 .. Len(played) /\ DOMAIN more = 1 .. Len(played) + 1
      /\ \A i \in DOMAIN played : more[i] = played[i]
  <2>1. song \in Seq(NoteType) /\ played \in Seq(EventType)
    BY DEF WellTimed
  <2>2. note \in NoteType
    BY <2>1
  <2> QED BY <2>1, <2>2, AppendProperties
<1>2. Free(song, played, k) \subseteq Free(song, more, k)
  BY OneMoreFree DEF OnlyMore
<1> HIDE DEF more
<1>3. c \subseteq DOMAIN played /\ e \subseteq DOMAIN more /\ c \subseteq e
  BY <1>1, <1>2 DEF Candidates, Free
<1>4. /\ \/ c = {} /\ b = NoMatch
         \/ b \in c /\ (\A j \in c : Prefers(note, played, b, j))
      /\ \/ e = {} /\ d = NoMatch
         \/ d \in e /\ (\A j \in e : Prefers(note, more, d, j))
  BY <1>1, BestPreferred
<1>5. NoMatch \notin DOMAIN more /\ NoMatch \notin DOMAIN played
  BY <1>1 DEF NoMatch
<1>6. WrongInWindow(note, played, old) => WrongInWindow(note, more, new)
  BY <1>1, <1>2 DEF WrongInWindow, Free
<1>7. /\ Verdicts(song, played)[k] = Judge(note, played, old)
      /\ Verdicts(song, more)[k] = Judge(note, more, new)
  BY DEF Verdicts
<1> HIDE DEF c, e
<1>8. CASE b = NoMatch
  <2>1. Judge(note, played, old) =
          IF WrongInWindow(note, played, old) THEN "WRONG" ELSE "MISSED"
    BY <1>8 DEF Judge, b
  <2>2. \/ Judge(note, more, new) \in Hit
        \/ Judge(note, more, new) =
             IF WrongInWindow(note, more, new) THEN "WRONG" ELSE "MISSED"
    BY DEF Judge, Hit
  <2>3. Rank(Judge(note, more, new)) >= Rank(Judge(note, played, old))
    <3> HIDE DEF note, old, new
    <3> QED BY <1>6, <2>1, <2>2, Ranks DEF Hit
  <2> QED BY <1>7, <2>3 DEF more
<1>9. CASE b # NoMatch
  <2>1. b \in c /\ d \in e /\ Prefers(note, more, d, b)
    BY <1>3, <1>4, <1>9
  <2>2. d # NoMatch /\ more[b] = played[b] /\ d \in DOMAIN more /\ b \in DOMAIN more
    BY <1>1, <1>3, <1>5, <2>1
  <2>3. Deviation(note, more[d]) <= Deviation(note, more[b])
        /\ Deviation(note, more[d]) \in Int /\ Deviation(note, more[b]) \in Int
    <3>1. more[d] \in EventType /\ more[b] \in EventType
      BY <1>1, <2>2
    <3>2. more[d].time \in Int /\ more[b].time \in Int /\ note.at \in Int
      BY <1>1, <3>1 DEF EventType, NoteType
    <3>3. Deviation(note, more[d]) \in Int /\ Deviation(note, more[b]) \in Int
      BY <3>2 DEF Deviation
    <3> QED BY <2>1, <3>3 DEF Prefers
  <2>4. /\ Judge(note, played, old) =
             IF Deviation(note, more[b]) <= PerfectBand THEN "PERFECT" ELSE "GOOD"
        /\ Judge(note, more, new) =
             IF Deviation(note, more[d]) <= PerfectBand THEN "PERFECT" ELSE "GOOD"
    BY <1>9, <2>2 DEF Judge
  <2>5. Rank(Judge(note, more, new)) >= Rank(Judge(note, played, old))
    <3> HIDE DEF note, old, new, b, d
    <3>1. PerfectBand \in Int
      BY ScorerAssumption
    <3> QED BY <2>3, <2>4, <3>1, Ranks
  <2> QED BY <1>7, <2>5 DEF more
<1> QED BY <1>8, <1>9

-----------------------------------------------------------------------------
(* What a step does to the verdicts.                                       *)

\* The latest event is the one that was delivered last.
LatestInv ==
  /\ FreezeInv
  /\ \A i \in 1 .. Len(events) : events[i].time <= lastEvent

\* Every step keeps that.
LEMMA LatestInvariance == ScorerSpec => []LatestInv
<1>1. ScorerInit => LatestInv
  BY FreezeInit DEF ScorerInit, FreshScorer, LatestInv
<1>2. LatestInv /\ [ScorerNext]_scorerVars => LatestInv'
  <2> SUFFICES ASSUME LatestInv, [ScorerNext]_scorerVars PROVE LatestInv'
    OBVIOUS
  <2>1. FreezeInv'
    BY FreezeStep DEF LatestInv
  <2>2. ASSUME NEW pitch \in Pitch, NEW time \in Instants, ScorerOnEvent(pitch, time)
        PROVE  \A i \in 1 .. Len(events') : events'[i].time <= lastEvent'
    <3> DEFINE event == [pitch |-> pitch, time |-> time]
    <3>1. /\ events \in Seq(EventType) /\ events' = Append(events, event)
          /\ event \in EventType /\ lastEvent' = time /\ time >= lastEvent
          /\ time \in Nat /\ lastEvent \in Int
      BY <2>2, ScorerAssumption
      DEF LatestInv, FreezeInv, ScorerTypeOK, ScorerOnEvent, EventType
    <3>2. /\ Len(events') = Len(events) + 1 /\ Len(events) \in Nat
          /\ \A i \in 1 .. Len(events) : events'[i] = events[i]
          /\ events'[Len(events) + 1] = event
      BY <3>1, AppendProperties
    <3>3. ASSUME NEW i \in 1 .. Len(events') PROVE events'[i].time <= lastEvent'
      <4>1. CASE i = Len(events) + 1
        BY <3>1, <3>2, <4>1
      <4>2. CASE i \in 1 .. Len(events)
        <5>1. events[i].time <= lastEvent /\ events[i].time \in Int
          <6>1. events[i] \in EventType
            BY <3>1, <4>2
          <6> QED BY <4>2, <6>1 DEF LatestInv, EventType
        <5> QED BY <3>1, <3>2, <4>2, <5>1
      <4> QED BY <3>2, <4>1, <4>2
    <3> QED BY <3>3
  <2>3. CASE events' = events /\ lastEvent' = lastEvent
    BY <2>1, <2>3 DEF LatestInv
  <2>4. \A now \in Instants : ScorerTick(now) => events' = events /\ lastEvent' = lastEvent
    BY DEF ScorerTick
  <2> QED BY <2>1, <2>2, <2>3, <2>4 DEF LatestInv, ScorerNext, scorerVars
<1> QED BY <1>1, <1>2, PTL DEF ScorerSpec

\* A step delivers one event, the latest, that is not older than the watermark, or none.
LEMMA StepDelivers ==
  ASSUME LatestInv, [ScorerNext]_scorerVars
  PROVE  /\ notes' = notes /\ WellTimed(notes, events)
         /\ tentative = FinalVerdicts /\ tentative' = FinalVerdicts'
         /\ \/ events' = events
            \/ \E event \in EventType :
                 /\ events' = Append(events, event) /\ Watermark <= event.time
                 /\ \A i \in 1 .. Len(events) : events[i].time <= event.time
<1>1. FreezeInv /\ FreezeInv'
  BY FreezeStep DEF LatestInv
<1>2. WellTimed(notes, events)
  BY <1>1, ScorerAssumption DEF FreezeInv, ScorerTypeOK, WellTimed
<1>3. notes' = notes
  BY DEF ScorerNext, ScorerOnEvent, ScorerTick, scorerVars
<1>4. ASSUME NEW pitch \in Pitch, NEW time \in Instants, OnTime(time),
             ScorerOnEvent(pitch, time)
      PROVE  \E event \in EventType :
               /\ events' = Append(events, event) /\ Watermark <= event.time
               /\ \A i \in 1 .. Len(events) : events[i].time <= event.time
  <2> DEFINE event == [pitch |-> pitch, time |-> time]
  <2>1. /\ event \in EventType /\ events' = Append(events, event) /\ event.time = time
        /\ time >= lastEvent /\ time >= sessionSeconds /\ time \in Nat
        /\ lastEvent \in Int /\ sessionSeconds \in Int
    BY <1>1, <1>4, ScorerAssumption
    DEF FreezeInv, ScorerTypeOK, ScorerOnEvent, OnTime, EventType
  <2>2. Watermark <= time
    BY <2>1 DEF Watermark, Later
  <2>3. \A i \in 1 .. Len(events) : events[i].time <= time
    <3>1. \A i \in 1 .. Len(events) : events[i].time <= lastEvent /\ events[i].time \in Int
      <4>1. events \in Seq(EventType)
        BY <1>1 DEF FreezeInv, ScorerTypeOK
      <4>2. \A i \in 1 .. Len(events) : events[i] \in EventType
        BY <4>1
      <4> QED BY <4>2 DEF LatestInv, EventType
    <3> QED BY <2>1, <3>1
  <2> HIDE DEF event
  <2> QED BY <2>1, <2>2, <2>3
<1>5. (\E now \in Instants : ScorerTick(now)) \/ UNCHANGED scorerVars => events' = events
  BY DEF ScorerTick, scorerVars
<1> QED BY <1>1, <1>2, <1>3, <1>4, <1>5 DEF FreezeInv, ScorerNext

\* The first sentence of the freeze theorem, for every song with windows that are no
\* longer before a note than after it, and every event stream: once the watermark is
\* past the close of a note's own window its verdict is settled, although earlier
\* notes may still take events, and give up those they held.
THEOREM SettledTheorem == LateAtLeastEarly => (ScorerSpec => SettledAtOwnClose)
<1> SUFFICES ASSUME LateAtLeastEarly PROVE ScorerSpec => SettledAtOwnClose
  OBVIOUS
<1>1. ASSUME LatestInv, [ScorerNext]_scorerVars
      PROVE  \A k \in 1 .. Len(notes) :
               Watermark > notes[k].closes => FinalVerdicts'[k] = FinalVerdicts[k]
  <2> SUFFICES ASSUME NEW k \in 1 .. Len(notes), Watermark > notes[k].closes
               PROVE  FinalVerdicts'[k] = FinalVerdicts[k]
    OBVIOUS
  <2>1. notes' = notes /\ WellTimed(notes, events) /\ notes \in Songs
    BY <1>1, StepDelivers DEF LatestInv, FreezeInv, ScorerTypeOK
  <2>2. CASE events' = events
    BY <2>1, <2>2 DEF FinalVerdicts
  <2>3. ASSUME NEW event \in EventType,
               events' = Append(events, event), Watermark <= event.time,
               \A i \in 1 .. Len(events) : events[i].time <= event.time
        PROVE  FinalVerdicts'[k] = FinalVerdicts[k]
    <3>1. event.time > notes[k].closes
      <4>1. notes[k].closes \in Int
        BY <2>1, SongFacts
      <4>2. Watermark \in Int /\ event.time \in Int
        BY <1>1 DEF LatestInv, FreezeInv, ScorerTypeOK, Watermark, Later, EventType
      <4> QED BY <2>3, <4>1, <4>2
    <3>2. notes[k].at - notes[k].opens <= notes[k].closes - notes[k].at
      BY <2>1 DEF LateAtLeastEarly
    <3>3. Verdicts(notes, Append(events, event))[k] = Verdicts(notes, events)[k]
      BY <2>1, <2>3, <3>1, <3>2, ClosedNoteSettled
    <3> QED BY <2>1, <2>3, <3>3 DEF FinalVerdicts
  <2> QED BY <1>1, <2>2, <2>3, StepDelivers
<1> QED BY <1>1, LatestInvariance, PTL DEF ScorerSpec, SettledAtOwnClose

\* Playing more never worsens a verdict, for every song, every window and every event
\* stream: what is shown as GOOD or PERFECT before its note freezes may still improve,
\* but is not taken back when an earlier note changes the event it holds.
THEOREM ImproveTheorem == ScorerSpec => VerdictsOnlyImprove
<1>1. ASSUME LatestInv, [ScorerNext]_scorerVars
      PROVE  \A k \in 1 .. Len(notes) : Rank(tentative'[k]) >= Rank(tentative[k])
  <2> TAKE k \in 1 .. Len(notes)
  <2>1. /\ notes' = notes /\ WellTimed(notes, events)
        /\ tentative = Verdicts(notes, events) /\ tentative' = Verdicts(notes, events')
    BY <1>1, StepDelivers DEF FinalVerdicts
  <2>2. CASE events' = events
    <3>1. tentative[k] \in Verdict
      BY <2>1, VerdictsType
    <3> QED BY <2>1, <2>2, <3>1, Ranks
  <2>3. CASE events' # events
    BY <1>1, <2>1, <2>3, StepDelivers, VerdictImproves
  <2> QED BY <2>2, <2>3
<1> QED BY <1>1, LatestInvariance, PTL DEF ScorerSpec, VerdictsOnlyImprove

-----------------------------------------------------------------------------
(* Counting the verdicts that freeze.                                      *)

\* The loop of CountNewlyFrozen, from the tracker t at a to b.
Counts(g, fv, t, a, b) ==
  g = [n \in a .. b |-> IF n = a THEN t ELSE OnVerdict(g[n - 1], fv[n])]

\* The loop runs to any number of verdicts, by induction over that number.
LEMMA CountsExist ==
  ASSUME NEW fv, NEW t, NEW a \in Nat, NEW m \in Nat
  PROVE  \E g : Counts(g, fv, t, a, a + m)
<1> DEFINE Stuck == {i \in Nat : ~ \E g : Counts(g, fv, t, a, a + i)}
<1> SUFFICES ASSUME Stuck # {} PROVE FALSE
  OBVIOUS
<1>1. PICK i \in Stuck : \A k \in Stuck : i <= k
  BY LeastNatural
<1>2. CASE i = 0
  <2> DEFINE h == [n \in a .. a |-> t]
  <2>1. Counts(h, fv, t, a, a + 0)
    BY DEF Counts
  <2> QED BY <1>1, <1>2, <2>1
<1>3. CASE i # 0
  <2>1. i - 1 \in Nat /\ i - 1 \notin Stuck
    BY <1>1, <1>3
  <2>2. PICK g : Counts(g, fv, t, a, a + (i - 1))
    BY <2>1
  <2> DEFINE b == a + i
             h == [n \in a .. b |-> IF n = b THEN OnVerdict(g[n - 1], fv[n]) ELSE g[n]]
  <2>3. b \in Nat /\ b > a /\ a + (i - 1) = b - 1
    BY <1>1, <1>3
  <2>4. ASSUME NEW n \in a .. b
        PROVE  h[n] = IF n = a THEN t ELSE OnVerdict(h[n - 1], fv[n])
    <3> HIDE DEF b
    <3>1. n # a => n - 1 \in a .. b - 1 /\ h[n - 1] = g[n - 1]
      BY <2>3
    <3>2. n # b => n \in a .. b - 1 /\ h[n] = g[n]
      BY <2>3
    <3>3. n \in a .. b - 1 => g[n] = IF n = a THEN t ELSE OnVerdict(g[n - 1], fv[n])
      BY <2>2, <2>3 DEF Counts
    <3> QED BY <2>3, <3>1, <3>2, <3>3
  <2>5. Counts(h, fv, t, a, b)
    BY <2>4 DEF Counts
  <2> QED BY <1>1, <2>5
<1> QED BY <1>2, <1>3

\* The difference of two numbers.
LEMMA Difference ==
  ASSUME NEW a \in Nat, NEW b \in Nat, a <= b
  PROVE  \E m \in Nat : b = a + m
<1> DEFINE d == b - a
<1>1. d \in Nat /\ b = a + d
  OBVIOUS
<1> HIDE DEF d
<1> QED BY <1>1

\* What the loop leaves in the tracker.
LEMMA CountFacts ==
  ASSUME frozenCount \in Nat, frozenCount' \in Nat, frozenCount <= frozenCount',
         CountNewlyFrozen
  PROVE  \E g : /\ Counts(g, frozenVerdicts', tracker, frozenCount, frozenCount')
                /\ tracker' = g[frozenCount']
<1> DEFINE G == CHOOSE g : Counts(g, frozenVerdicts', tracker, frozenCount, frozenCount')
<1>1. \E g : Counts(g, frozenVerdicts', tracker, frozenCount, frozenCount')
  <2>1. PICK m \in Nat : frozenCount' = frozenCount + m
    BY Difference
  <2> QED BY <2>1, CountsExist
<1>2. Counts(G, frozenVerdicts', tracker, frozenCount, frozenCount')
  BY <1>1
<1>3. tracker' = G[frozenCount']
  BY DEF CountNewlyFrozen, Counts
<1> QED BY <1>2, <1>3

-----------------------------------------------------------------------------
(* The combo.                                                              *)

\* The combo is the run of hits that ends at the n-th verdict, the best combo the
\* longest of the runs up to there.
Streak(t, fv, n) ==
  /\ t \in [combo : Nat, best : Nat]
  /\ t.combo <= n /\ t.combo <= t.best
  /\ \A k \in n - t.combo + 1 .. n : fv[k] \in Hit
  /\ t.combo < n => fv[n - t.combo] \notin Hit
  /\ t.best = 0 \/ \E i, j \in 1 .. n :
       i <= j /\ j - i + 1 = t.best /\ \A k \in i .. j : fv[k] \in Hit
  /\ \A i, j \in 1 .. n : i <= j /\ (\A k \in i .. j : fv[k] \in Hit) => j - i + 1 <= t.best

\* One verdict more.
LEMMA StreakStep ==
  ASSUME NEW t, NEW fv, NEW n \in Nat, Streak(t, fv, n)
  PROVE  Streak(OnVerdict(t, fv[n + 1]), fv, n + 1)
<1> DEFINE streak == IF fv[n + 1] \in Hit THEN t.combo + 1 ELSE 0
           best == Later(t.best, streak)
           u == OnVerdict(t, fv[n + 1])
<1>1. t.combo \in Nat /\ t.best \in Nat /\ t.combo <= n /\ t.combo <= t.best
  BY DEF Streak
<1>2. streak \in Nat /\ best \in Nat /\ streak <= n + 1 /\ streak <= best /\ t.best <= best
      /\ (best = t.best \/ best = streak)
  BY <1>1 DEF Later
<1>3. u = [combo |-> streak, best |-> best]
  BY DEF OnVerdict
<1>4. \A k \in (n + 1) - streak + 1 .. n + 1 : fv[k] \in Hit
  <2>1. CASE fv[n + 1] \in Hit
    <3> TAKE k \in (n + 1) - streak + 1 .. n + 1
    <3>1. k = n + 1 \/ k \in n - t.combo + 1 .. n
      BY <1>1, <2>1
    <3> QED BY <2>1, <3>1 DEF Streak
  <2>2. CASE fv[n + 1] \notin Hit
    BY <2>2
  <2> QED BY <2>1, <2>2
<1>5. streak < n + 1 => fv[(n + 1) - streak] \notin Hit
  <2>1. CASE fv[n + 1] \in Hit
    <3>1. (n + 1) - streak = n - t.combo /\ (streak < n + 1 => t.combo < n)
      BY <1>1, <2>1
    <3> QED BY <3>1 DEF Streak
  <2>2. CASE fv[n + 1] \notin Hit
    BY <2>2
  <2> QED BY <2>1, <2>2
<1>6. best = 0 \/ \E i, j \in 1 .. n + 1 :
        i <= j /\ j - i + 1 = best /\ \A k \in i .. j : fv[k] \in Hit
  <2>1. CASE best = t.best
    <3>1. t.best = 0 \/ \E i, j \in 1 .. n :
            i <= j /\ j - i + 1 = t.best /\ \A k \in i .. j : fv[k] \in Hit
      BY DEF Streak
    <3>2. \A i \in 1 .. n : i \in 1 .. n + 1
      OBVIOUS
    <3> HIDE DEF best
    <3> QED BY <2>1, <3>1, <3>2
  <2>2. CASE best = streak /\ streak # 0
    <3>1. /\ (n + 1) - streak + 1 \in 1 .. n + 1 /\ n + 1 \in 1 .. n + 1
          /\ (n + 1) - streak + 1 <= n + 1 /\ (n + 1) - ((n + 1) - streak + 1) + 1 = streak
      BY <1>2, <2>2
    <3> HIDE DEF best, streak
    <3> QED BY <1>4, <2>2, <3>1
  <2> QED BY <1>2, <2>1, <2>2
<1>7. \A i, j \in 1 .. n + 1 : i <= j /\ (\A k \in i .. j : fv[k] \in Hit) => j - i + 1 <= best
  <2> SUFFICES ASSUME NEW i \in 1 .. n + 1, NEW j \in 1 .. n + 1, i <= j,
                      \A k \in i .. j : fv[k] \in Hit
               PROVE  j - i + 1 <= best
    OBVIOUS
  <2>1. CASE j # n + 1
    <3>1. i \in 1 .. n /\ j \in 1 .. n
      BY <2>1
    <3>2. j - i + 1 <= t.best
      BY <3>1 DEF Streak
    <3> QED BY <1>1, <1>2, <3>2
  <2>2. CASE j = n + 1
    <3>1. fv[n + 1] \in Hit
      BY <2>2
    <3>2. streak = t.combo + 1
      BY <3>1
    <3>3. i > n - t.combo
      <4>1. SUFFICES ASSUME i <= n - t.combo PROVE FALSE
        BY <1>1
      <4>2. t.combo < n /\ n - t.combo \in i .. j
        BY <1>1, <2>2, <4>1
      <4> QED BY <4>2 DEF Streak
    <3> HIDE DEF streak, best
    <3> QED BY <1>1, <1>2, <2>2, <3>2, <3>3
  <2> QED BY <2>1, <2>2
<1> HIDE DEF streak, best, u
<1>8. u \in [combo : Nat, best : Nat] /\ u.combo = streak /\ u.best = best
  BY <1>2, <1>3
<1>9. Streak(u, fv, n + 1)
  BY <1>2, <1>4, <1>5, <1>6, <1>7, <1>8 DEF Streak
<1> QED BY <1>9 DEF u

\* All that froze at once.
LEMMA StreakCount ==
  ASSUME NEW g, NEW fv, NEW t, NEW a \in Nat, NEW b \in Nat, a <= b,
         Counts(g, fv, t, a, b), Streak(t, fv, a)
  PROVE  Streak(g[b], fv, b)
<1> DEFINE Stuck == {n \in a .. b : ~Streak(g[n], fv, n)}
<1>1. SUFFICES ASSUME Stuck # {} PROVE FALSE
  OBVIOUS
<1>2. PICK n \in Stuck : \A k \in Stuck : n <= k
  <2>1. Stuck \subseteq Nat
    OBVIOUS
  <2> HIDE DEF Stuck
  <2> QED BY <1>1, <2>1, LeastNatural
<1>3. g[n] = IF n = a THEN t ELSE OnVerdict(g[n - 1], fv[n])
  BY <1>2 DEF Counts
<1>4. CASE n = a
  BY <1>2, <1>3, <1>4
<1>5. CASE n # a
  <2>1. n - 1 \in a .. b /\ n - 1 \in Nat /\ (n - 1) + 1 = n
    BY <1>2, <1>5
  <2>2. Streak(g[n - 1], fv, n - 1)
    BY <1>2, <2>1
  <2>3. Streak(OnVerdict(g[n - 1], fv[(n - 1) + 1]), fv, (n - 1) + 1)
    BY <2>1, <2>2, StreakStep
  <2> QED BY <1>2, <1>3, <1>5, <2>1, <2>3
<1> QED BY <1>4, <1>5

\* The tracker is right.
Streaks == Streak(tracker, frozenVerdicts, frozenCount)

\* It stays right when verdicts freeze ...
LEMMA StreaksCount ==
  ASSUME frozenCount \in Nat, frozenCount' \in Nat, frozenCount <= frozenCount', Streaks,
         \A k \in 1 .. frozenCount : frozenVerdicts'[k] = frozenVerdicts[k],
         CountNewlyFrozen
  PROVE  Streaks'
<1>1. PICK g : /\ Counts(g, frozenVerdicts', tracker, frozenCount, frozenCount')
               /\ tracker' = g[frozenCount']
  BY CountFacts
<1>2. Streak(tracker, frozenVerdicts', frozenCount)
  <2>1. tracker.combo \in Nat /\ tracker.combo <= frozenCount
    BY DEF Streaks, Streak
  <2>2. \A k \in frozenCount - tracker.combo + 1 .. frozenCount : k \in 1 .. frozenCount
    BY <2>1
  <2>3. \A k \in frozenCount - tracker.combo + 1 .. frozenCount : frozenVerdicts'[k] \in Hit
    BY <2>2 DEF Streaks, Streak
  <2>4. tracker.combo < frozenCount => frozenVerdicts'[frozenCount - tracker.combo] \notin Hit
    <3>1. tracker.combo < frozenCount => frozenCount - tracker.combo \in 1 .. frozenCount
      BY <2>1
    <3> QED BY <3>1 DEF Streaks, Streak
  <2>5. \A i, j \in 1 .. frozenCount : \A k \in i .. j : frozenVerdicts'[k] = frozenVerdicts[k]
    OBVIOUS
  <2>6. \A i, j \in 1 .. frozenCount :
          (\A k \in i .. j : frozenVerdicts'[k] \in Hit) <=> \A k \in i .. j : frozenVerdicts[k] \in Hit
    BY <2>5
  <2>7. tracker.best = 0 \/ \E i, j \in 1 .. frozenCount :
          i <= j /\ j - i + 1 = tracker.best /\ \A k \in i .. j : frozenVerdicts'[k] \in Hit
    BY <2>6 DEF Streaks, Streak
  <2>8. \A i, j \in 1 .. frozenCount :
          i <= j /\ (\A k \in i .. j : frozenVerdicts'[k] \in Hit) => j - i + 1 <= tracker.best
    BY <2>6 DEF Streaks, Streak
  <2>9. tracker \in [combo : Nat, best : Nat] /\ tracker.combo <= tracker.best
    BY DEF Streaks, Streak
  <2> QED BY <2>1, <2>3, <2>4, <2>7, <2>8, <2>9 DEF Streak
<1>3. Streak(g[frozenCount'], frozenVerdicts', frozenCount')
  BY <1>1, <1>2, StreakCount
<1> QED BY <1>1, <1>3 DEF Streaks

\* ... and is right at the start of a pass.
LEMMA StreaksFresh ==
  ASSUME NEW fv
  PROVE  Streak(FreshTracker, fv, 0)
<1>1. FreshTracker = [combo |-> 0, best |-> 0]
  BY DEF FreshTracker
<1> QED BY <1>1 DEF Streak

\* The largest of a set of numbers.
LEMMA Largest ==
  ASSUME NEW S, S \subseteq Nat, NEW m \in S, \A n \in S : n <= m
  PROVE  Max(S) = m
<1>1. \A n \in S : m >= n
  OBVIOUS
<1>2. Max(S) \in S /\ \A n \in S : Max(S) >= n
  BY <1>1 DEF Max
<1>3. Max(S) >= m /\ m >= Max(S) /\ Max(S) \in Nat /\ m \in Nat
  BY <1>1, <1>2
<1> QED BY <1>3

\* This is what ComboIsStreak says.
LEMMA StreaksSuffice ==
  ASSUME frozenCount \in Nat, Streaks
  PROVE  ComboIsStreak /\ tracker \in [combo : Nat, best : Nat]
<1> DEFINE Runs1 == {n \in 0 .. frozenCount : AllHits(frozenCount - n + 1, frozenCount)}
           Pairs == {r \in (1 .. frozenCount) \X (1 .. frozenCount) :
                       r[1] <= r[2] /\ AllHits(r[1], r[2])}
           Runs2 == {0} \cup {run[2] - run[1] + 1 : run \in Pairs}
<1>1. /\ tracker \in [combo : Nat, best : Nat] /\ tracker.combo \in Nat /\ tracker.best \in Nat
      /\ tracker.combo <= frozenCount
  BY DEF Streaks, Streak
<1>2. tracker.combo = Max(Runs1)
  <2>1. tracker.combo \in Runs1
    BY <1>1 DEF Streaks, Streak, AllHits
  <2>2. ASSUME NEW n \in Runs1 PROVE n <= tracker.combo
    <3>1. n \in 0 .. frozenCount /\ \A k \in frozenCount - n + 1 .. frozenCount : frozenVerdicts[k] \in Hit
      BY DEF AllHits
    <3>2. SUFFICES ASSUME n > tracker.combo PROVE FALSE
      BY <1>1, <3>1
    <3>3. /\ tracker.combo < frozenCount
          /\ frozenCount - tracker.combo \in frozenCount - n + 1 .. frozenCount
      BY <1>1, <3>1, <3>2
    <3> QED BY <3>1, <3>3 DEF Streaks, Streak
  <2>3. Runs1 \subseteq Nat
    OBVIOUS
  <2> HIDE DEF Runs1
  <2> QED BY <2>1, <2>2, <2>3, Largest
<1>3. tracker.best = Max(Runs2)
  <2>1. tracker.best \in Runs2
    <3>1. CASE tracker.best = 0
      BY <3>1
    <3>2. ASSUME NEW i \in 1 .. frozenCount, NEW j \in 1 .. frozenCount,
                 i <= j, j - i + 1 = tracker.best, \A k \in i .. j : frozenVerdicts[k] \in Hit
          PROVE  tracker.best \in Runs2
      <4>1. <<i, j>> \in Pairs
        BY <3>2 DEF AllHits
      <4> HIDE DEF Pairs
      <4> QED BY <3>2, <4>1
    <3> QED BY <3>1, <3>2 DEF Streaks, Streak
  <2>2. ASSUME NEW m \in Runs2 PROVE m \in Nat /\ m <= tracker.best
    <3>1. CASE m = 0
      BY <1>1, <3>1
    <3>2. CASE m # 0
      <4>1. PICK i \in 1 .. frozenCount, j \in 1 .. frozenCount :
              <<i, j>> \in Pairs /\ m = j - i + 1
        BY <3>2
      <4>2. i <= j /\ \A k \in i .. j : frozenVerdicts[k] \in Hit
        BY <4>1 DEF AllHits
      <4> QED BY <4>1, <4>2 DEF Streaks, Streak
    <3> QED BY <3>1, <3>2
  <2> HIDE DEF Runs2
  <2>3. Runs2 \subseteq Nat
    BY <2>2
  <2> QED BY <2>1, <2>2, <2>3, Largest
<1> QED BY <1>1, <1>2, <1>3 DEF ComboIsStreak

-----------------------------------------------------------------------------
(* The scorer in the hands of the session.                                 *)

ScorerUse == ScorerNext \/ \E song \in Songs : ReplaceScorer(song)

\* The scorer that replaces one is as right as the first.
LEMMA Replaced ==
  ASSUME NEW song \in Songs, ReplaceScorer(song)
  PROVE  FreezeInv' /\ notes' = song /\ sessionSeconds' = 0 /\ lastEvent' = -1 /\ frozenCount' = 0
<1>1. ScorerInit'
  BY DEF ScorerInit, FreshScorer, ReplaceScorer
<1>2. ScorerInit' => FreezeInv'
  BY FreezeInit, PTL
<1> QED BY <1>1, <1>2 DEF ReplaceScorer

\* A step of the scorer leaves the frozen verdicts alone and may freeze more.
LEMMA FrozenGrows ==
  ASSUME FreezeInv, ScorerNext
  PROVE  /\ FreezeInv' /\ notes' = notes
         /\ frozenCount \in Nat /\ frozenCount' \in Nat /\ frozenCount <= frozenCount'
         /\ \A k \in 1 .. frozenCount : frozenVerdicts'[k] = frozenVerdicts[k]
<1>1. FreezeInv'
  BY FreezeStep
<1>2. PICK mark, verdicts :
        /\ FillFrozen(mark, verdicts) /\ verdicts \in [1 .. Len(notes) -> Verdict]
        /\ notes' = notes
  <2>1. CASE \E pitch \in Pitch, time \in Instants : ScorerOnEvent(pitch, time)
    <3>1. PICK pitch \in Pitch, time \in Instants : ScorerOnEvent(pitch, time)
      BY <2>1
    <3>2. /\ FillFrozen(Later(sessionSeconds, time), tentative') /\ notes' = notes
          /\ tentative' = Verdicts(notes, events')
      BY <3>1 DEF ScorerOnEvent
    <3> QED BY <3>2, VerdictsType
  <2>2. CASE \E now \in Instants : ScorerTick(now)
    BY <2>2 DEF ScorerTick, FreezeInv, ScorerTypeOK
  <2> QED BY <2>1, <2>2 DEF ScorerNext
<1>3. frozenCount' \in frozenCount .. Len(notes) /\ Len(notes) \in Nat
  BY <1>2, FillFrozenType, SongFacts DEF FreezeInv, ScorerTypeOK
<1>4. frozenCount \in 0 .. Len(notes)
  BY DEF FreezeInv, ScorerTypeOK
<1>5. frozenCount \in Nat /\ frozenCount' \in Nat /\ frozenCount <= frozenCount'
  BY <1>3, <1>4
<1>6. \A k \in 1 .. frozenCount : frozenVerdicts'[k] = frozenVerdicts[k]
  <2> TAKE k \in 1 .. frozenCount
  <2>1. k \in 1 .. Len(notes) /\ \A m : k \notin frozenCount + 1 .. m
    BY <1>3, <1>4
  <2> QED BY <1>2, <2>1 DEF FillFrozen
<1> QED BY <1>1, <1>2, <1>5, <1>6

-----------------------------------------------------------------------------
(* The session and the screen.                                             *)

\* A pass that is on, or paused, has a clock the scorer has not overtaken.
PassInv ==
  /\ phase = "READY" => sessionSeconds = 0 /\ lastEvent = -1
  /\ phase \in {"PLAYING", "PAUSED"} =>
       /\ lastFrame - passStart \in Instants
       /\ sessionSeconds <= lastFrame - passStart /\ lastEvent <= lastFrame - passStart

SessionTypes ==
  /\ notes = ToExpectedNotes(Chunks[chunkIndex])
  /\ phase \in {"READY", "PLAYING", "PAUSED", "FINISHED"}
  /\ chunkIndex \in DOMAIN Chunks
  /\ loopEnabled \in BOOLEAN
  /\ lastFrame \in Nat
  /\ passStart \in 0 .. lastFrame

SessionInv == FreezeInv /\ SessionTypes /\ Streaks /\ PassInv

\* The overlay is up over a pass that is over or armed again, and shows the report of
\* the pass that is over.
OverlayInv ==
  shown.phase = "FINISHED" =>
    /\ phase \in {"READY", "FINISHED"}
    /\ phase = "FINISHED" => shown.report = FinalVerdicts

ScreenInv ==
  /\ frameSeconds = lastFrame /\ frameSeconds \in 0 .. MaxFrame
  /\ shownPassStart \in 0 .. frameSeconds
  /\ lastFrozenCount \in Nat
  /\ shown.phase \in {"READY", "PLAYING", "PAUSED", "FINISHED"}
  /\ shown.chunk \in DOMAIN Chunks
  /\ dirty \in BOOLEAN
  /\ crashed \in BOOLEAN
  /\ OverlayInv

\* Nothing happens to the session.
LEMMA SessionRests ==
  ASSUME SessionInv, sessionVars' = sessionVars
  PROVE  SessionInv' /\ UNCHANGED scorerVars /\ phase' = phase /\ lastFrame' = lastFrame
         /\ passStart' = passStart /\ chunkIndex' = chunkIndex /\ FinalVerdicts' = FinalVerdicts
<1>1. /\ notes' = notes /\ events' = events /\ sessionSeconds' = sessionSeconds
      /\ lastEvent' = lastEvent /\ frozenVerdicts' = frozenVerdicts
      /\ frozenCount' = frozenCount /\ tentative' = tentative
      /\ phase' = phase /\ chunkIndex' = chunkIndex /\ loopEnabled' = loopEnabled
      /\ lastFrame' = lastFrame /\ passStart' = passStart /\ tracker' = tracker
  BY DEF sessionVars, scorerVars
<1>2. UNCHANGED scorerVars /\ FinalVerdicts' = FinalVerdicts
  BY <1>1 DEF scorerVars, FinalVerdicts
<1>3. FreezeInv'
  BY <1>2, FreezeStep DEF SessionInv
<1>4. SessionTypes' /\ Streaks' /\ PassInv'
  BY <1>1 DEF SessionInv, SessionTypes, Streaks, PassInv
<1> QED BY <1>1, <1>2, <1>3, <1>4 DEF SessionInv

\* The session starts over on a chunk.
LEMMA Rearmed ==
  ASSUME NEW c \in DOMAIN Chunks, Rearm(Chunks[c])
  PROVE  /\ FreezeInv' /\ Streaks' /\ ScorerUse
         /\ notes' = ToExpectedNotes(Chunks[c]) /\ sessionSeconds' = 0 /\ lastEvent' = -1
<1>1. ToExpectedNotes(Chunks[c]) \in Songs /\ ReplaceScorer(ToExpectedNotes(Chunks[c]))
  BY PlayerAssumption DEF Rearm
<1>2. /\ FreezeInv' /\ notes' = ToExpectedNotes(Chunks[c]) /\ sessionSeconds' = 0
      /\ lastEvent' = -1 /\ frozenCount' = 0
  BY <1>1, Replaced
<1>3. Streaks'
  BY <1>2, StreaksFresh DEF Streaks, Rearm
<1> QED BY <1>1, <1>2, <1>3 DEF ScorerUse

\* The buttons.
LEMMA ButtonKeeps ==
  ASSUME SessionInv, Play \/ Pause \/ ToggleLoop \/ Retry \/ NextChunk
  PROVE  SessionInv' /\ (ScorerUse \/ UNCHANGED scorerVars) /\ lastFrame' = lastFrame
<1>1. /\ FreezeInv /\ SessionTypes /\ Streaks /\ PassInv
      /\ lastFrame \in Nat /\ passStart \in 0 .. lastFrame /\ chunkIndex \in DOMAIN Chunks
  BY DEF SessionInv, SessionTypes
<1>2. ASSUME UNCHANGED scorerVars, tracker' = tracker, chunkIndex' = chunkIndex,
             lastFrame' = lastFrame, passStart' \in {passStart, lastFrame},
             loopEnabled' \in BOOLEAN, phase' \in {"READY", "PLAYING", "PAUSED", "FINISHED"},
             PassInv'
      PROVE  SessionInv'
  <2>1. FreezeInv'
    BY <1>1, <1>2, FreezeStep
  <2>2. passStart' \in 0 .. lastFrame
    BY <1>1, <1>2
  <2>3. SessionTypes' /\ Streaks'
    BY <1>1, <1>2, <2>2 DEF SessionTypes, Streaks, scorerVars
  <2> QED BY <1>2, <2>1, <2>3 DEF SessionInv
<1>3. CASE Play
  <2>1. CASE phase = "READY" /\ passStart' = lastFrame /\ phase' = "PLAYING"
             /\ UNCHANGED <<scorerVars, chunkIndex, loopEnabled, lastFrame, tracker>>
    <3>1. /\ sessionSeconds' = 0 /\ lastEvent' = -1 /\ lastFrame' = lastFrame
          /\ passStart' = lastFrame
      BY <1>1, <2>1 DEF PassInv, scorerVars
    <3>2. lastFrame - lastFrame = 0 /\ 0 \in Instants
      BY <1>1, PlayerAssumption
    <3>3. PassInv'
      BY <2>1, <3>1, <3>2 DEF PassInv
    <3> QED BY <1>1, <1>2, <2>1, <3>3 DEF SessionTypes
  <2>2. CASE phase = "PAUSED" /\ phase' = "PLAYING"
             /\ UNCHANGED <<scorerVars, chunkIndex, loopEnabled, lastFrame, passStart, tracker>>
    <3>1. PassInv'
      BY <1>1, <2>2 DEF PassInv, scorerVars
    <3> QED BY <1>1, <1>2, <2>2, <3>1 DEF SessionTypes
  <2>3. CASE UNCHANGED sessionVars
    BY <2>3, SessionRests
  <2> QED BY <1>3, <2>1, <2>2, <2>3 DEF Play
<1>4. CASE Pause
  <2>1. /\ UNCHANGED <<scorerVars, chunkIndex, loopEnabled, lastFrame, passStart, tracker>>
        /\ phase' = IF phase = "PLAYING" THEN "PAUSED" ELSE phase
    BY <1>4 DEF Pause
  <2>2. PassInv'
    BY <1>1, <2>1 DEF PassInv, scorerVars
  <2> QED BY <1>1, <1>2, <2>1, <2>2 DEF SessionTypes
<1>5. CASE ToggleLoop
  <2>1. /\ UNCHANGED <<scorerVars, phase, chunkIndex, lastFrame, passStart, tracker>>
        /\ loopEnabled' \in BOOLEAN
    BY <1>5 DEF ToggleLoop
  <2>2. PassInv'
    BY <1>1, <2>1 DEF PassInv, scorerVars
  <2> QED BY <1>1, <1>2, <2>1, <2>2 DEF SessionTypes
<1>6. ASSUME NEW c \in DOMAIN Chunks, Rearm(Chunks[c]), chunkIndex' = c, phase' = "READY",
             UNCHANGED <<loopEnabled, lastFrame, passStart>>
      PROVE  SessionInv' /\ ScorerUse /\ lastFrame' = lastFrame
  <2>1. /\ FreezeInv' /\ Streaks' /\ ScorerUse
        /\ notes' = ToExpectedNotes(Chunks[c]) /\ sessionSeconds' = 0 /\ lastEvent' = -1
    BY <1>6, Rearmed
  <2>2. SessionTypes'
    BY <1>1, <1>6, <2>1 DEF SessionTypes
  <2>3. PassInv'
    BY <1>6, <2>1 DEF PassInv
  <2> QED BY <1>6, <2>1, <2>2, <2>3 DEF SessionInv
<1>7. CASE Retry
  BY <1>1, <1>6, <1>7 DEF Retry
<1>8. CASE NextChunk
  <2>1. CASE /\ HasNextChunk /\ chunkIndex' = chunkIndex + 1 /\ Rearm(Chunks[chunkIndex + 1])
             /\ phase' = "READY" /\ UNCHANGED <<loopEnabled, lastFrame, passStart>>
    <3>1. chunkIndex + 1 \in DOMAIN Chunks
      BY <1>1, <2>1, PlayerAssumption DEF HasNextChunk
    <3> QED BY <1>6, <2>1, <3>1
  <2>2. CASE UNCHANGED sessionVars
    BY <2>2, SessionRests
  <2> QED BY <1>8, <2>1, <2>2 DEF NextChunk
<1> QED BY <1>3, <1>4, <1>5, <1>7, <1>8

\* The scorer takes a step of a pass that goes on or ends.
LEMMA PassSteps ==
  ASSUME SessionInv, ScorerNext, CountNewlyFrozen,
         phase' \in {"READY", "PLAYING", "PAUSED", "FINISHED"},
         chunkIndex' = chunkIndex, loopEnabled' = loopEnabled, passStart' = passStart,
         lastFrame' \in Nat, lastFrame <= lastFrame', PassInv'
  PROVE  SessionInv' /\ ScorerUse
<1>1. /\ FreezeInv /\ SessionTypes /\ Streaks
      /\ lastFrame \in Nat /\ passStart \in 0 .. lastFrame
  BY DEF SessionInv, SessionTypes
<1>2. /\ FreezeInv' /\ notes' = notes
      /\ frozenCount \in Nat /\ frozenCount' \in Nat /\ frozenCount <= frozenCount'
      /\ \A k \in 1 .. frozenCount : frozenVerdicts'[k] = frozenVerdicts[k]
  BY <1>1, FrozenGrows
<1>3. Streaks'
  BY <1>1, <1>2, StreaksCount
<1>4. passStart' \in 0 .. lastFrame'
  <2>1. \A a, b, c \in Nat : a \in 0 .. b /\ b <= c => a \in 0 .. c
    OBVIOUS
  <2> QED BY <1>1, <2>1
<1>5. SessionTypes'
  BY <1>1, <1>2, <1>4 DEF SessionTypes
<1> QED BY <1>2, <1>3, <1>5 DEF SessionInv, ScorerUse

\* A touch at the present frame.
LEMMA TouchKeeps ==
  ASSUME SessionInv, NEW pitch \in Pitch, Len(events) < MaxPlayed, OnEvent(pitch, lastFrame)
  PROVE  /\ SessionInv' /\ (ScorerUse \/ UNCHANGED scorerVars)
         /\ lastFrame' = lastFrame /\ phase' = phase
         /\ phase # "PLAYING" => FinalVerdicts' = FinalVerdicts
<1>1. CASE phase # "PLAYING" \/ lastFrame < passStart
  <2>1. lastFrame \in Nat /\ passStart \in 0 .. lastFrame
    BY DEF SessionInv, SessionTypes
  <2>2. phase # "PLAYING"
    BY <1>1, <2>1
  <2>3. UNCHANGED sessionVars
    BY <2>2 DEF OnEvent
  <2> QED BY <2>3, SessionRests
<1>2. CASE phase = "PLAYING" /\ lastFrame >= passStart
  <2> DEFINE time == lastFrame - passStart
  <2>1. /\ time \in Instants /\ sessionSeconds <= time /\ lastEvent <= time
        /\ lastFrame \in Nat /\ phase \in {"READY", "PLAYING", "PAUSED", "FINISHED"}
    BY <1>2 DEF SessionInv, SessionTypes, PassInv
  <2>2. /\ ScorerOnEvent(pitch, time) /\ CountNewlyFrozen
        /\ UNCHANGED <<phase, chunkIndex, loopEnabled, lastFrame, passStart>>
    <3>1. lastFrame \in Nat /\ passStart \in Nat
      BY DEF SessionInv, SessionTypes
    <3>2. ~(lastFrame < passStart)
      BY <1>2, <3>1
    <3> QED BY <1>2, <3>2 DEF OnEvent
  <2>3. time \in Nat /\ sessionSeconds \in Nat
    BY <2>1, ScorerAssumption DEF SessionInv, FreezeInv, ScorerTypeOK
  <2>4. ScorerNext
    <3>1. OnTime(time)
      BY <2>1, <2>3 DEF OnTime
    <3> HIDE DEF time
    <3> QED BY <2>1, <2>2, <3>1 DEF ScorerNext
  <2>5. PassInv'
    <3>1. lastEvent' = time /\ sessionSeconds' = sessionSeconds
      BY <2>2 DEF ScorerOnEvent
    <3>2. lastFrame' - passStart' = time /\ phase' = "PLAYING"
      BY <1>2, <2>2
    <3> HIDE DEF time
    <3> QED BY <2>1, <2>3, <3>1, <3>2 DEF PassInv
  <2>6. SessionInv' /\ ScorerUse
    <3>1. lastFrame' \in Nat /\ lastFrame <= lastFrame'
      BY <2>1, <2>2
    <3>2. phase' \in {"READY", "PLAYING", "PAUSED", "FINISHED"}
      BY <2>1, <2>2
    <3>3. chunkIndex' = chunkIndex /\ loopEnabled' = loopEnabled /\ passStart' = passStart
      BY <2>2
    <3> QED BY <2>2, <2>4, <2>5, <3>1, <3>2, <3>3, PassSteps
  <2> QED BY <1>2, <2>2, <2>6
<1>3. lastFrame \in Nat /\ passStart \in Nat
  BY DEF SessionInv, SessionTypes
<1> QED BY <1>1, <1>2, <1>3

\* The clock of a pass after a frame.
LEMMA PassClock ==
  ASSUME NEW last \in Nat, NEW start \in 0 .. last, NEW delta \in FrameDeltas \cup {0},
         last + delta <= MaxFrame, last - start \in Instants
  PROVE  /\ last + delta \in Nat /\ last <= last + delta
         /\ (last + delta) - start \in Instants
         /\ \A x \in Int : x <= last - start => x <= (last + delta) - start
<1>1. delta \in Nat
  BY PlayerAssumption
<1>2. last \in Nat /\ start \in Nat /\ start <= last /\ MaxFrame \in Nat
  BY PlayerAssumption
<1>3. (last - start) + delta = (last + delta) - start /\ (last - start) + delta <= MaxFrame
  BY <1>1, <1>2
<1>4. (last + delta) - start \in Instants
  <2>1. CASE delta = 0
    <3>1. (last + delta) - start = last - start
      BY <1>2, <2>1
    <3> QED BY <3>1
  <2>2. CASE delta \in FrameDeltas
    <3>1. (last - start) + delta \in Instants
      BY <1>3, <2>2, PlayerAssumption
    <3> QED BY <1>3, <3>1
  <2> QED BY <2>1, <2>2
<1>5. \A x \in Int : x <= last - start => x <= (last + delta) - start
  BY <1>1, <1>2
<1>6. last + delta \in Nat /\ last <= last + delta
  BY <1>1, <1>2
<1> QED BY <1>4, <1>5, <1>6

\* A frame.
LEMMA TickKeeps ==
  ASSUME SessionInv, NEW delta \in FrameDeltas \cup {0}, lastFrame + delta <= MaxFrame,
         phase = "PLAYING", Tick(lastFrame + delta)
  PROVE  SessionInv' /\ ScorerUse /\ lastFrame' = lastFrame + delta
<1> DEFINE frame == lastFrame + delta
<1>1. /\ lastFrame \in Nat /\ passStart \in 0 .. lastFrame /\ chunkIndex \in DOMAIN Chunks
      /\ lastFrame - passStart \in Instants /\ FreezeInv /\ SessionTypes
      /\ sessionSeconds <= lastFrame - passStart /\ lastEvent <= lastFrame - passStart
      /\ phase \in {"READY", "PLAYING", "PAUSED", "FINISHED"}
  BY DEF SessionInv, SessionTypes, PassInv
<1>2. sessionSeconds \in Int /\ lastEvent \in Int
  BY <1>1 DEF FreezeInv, ScorerTypeOK
<1>3. /\ frame \in Nat /\ lastFrame <= frame /\ frame - passStart \in Instants
      /\ \A x \in Int : x <= lastFrame - passStart => x <= frame - passStart
  BY <1>1, PassClock
<1>4. /\ lastFrame' = frame /\ chunkIndex' = chunkIndex /\ loopEnabled' = loopEnabled
      /\ TickPlaying(frame) \/ TickLoops(frame)
  BY DEF Tick
<1> HIDE DEF frame
<1>5. lastFrame' \in Nat /\ lastFrame <= lastFrame'
  BY <1>3, <1>4
<1>6. CASE TickPlaying(frame)
  <2>1. /\ ScorerTick(frame - passStart) /\ CountNewlyFrozen /\ passStart' = passStart
        /\ phase' \in {"READY", "PLAYING", "PAUSED", "FINISHED"} /\ phase' # "READY"
    BY <1>1, <1>6 DEF TickPlaying
  <2>2. ScorerNext
    BY <1>3, <2>1 DEF ScorerNext
  <2>3. sessionSeconds' = frame - passStart /\ lastEvent' = lastEvent
    BY <2>1 DEF ScorerTick
  <2>4. frame - passStart \in Int /\ lastEvent <= frame - passStart
    BY <1>1, <1>2, <1>3
  <2>5. PassInv'
    <3>1. /\ lastFrame' - passStart' \in Instants
          /\ sessionSeconds' <= lastFrame' - passStart' /\ lastEvent' <= lastFrame' - passStart'
      BY <1>3, <1>4, <2>1, <2>3, <2>4
    <3> QED BY <2>1, <3>1 DEF PassInv
  <2>6. SessionInv' /\ ScorerUse
    BY <1>4, <1>5, <2>1, <2>2, <2>5, PassSteps
  <2> QED BY <1>4, <2>6 DEF frame
<1>7. CASE TickLoops(frame)
  <2>1. Rearm(Chunks[chunkIndex]) /\ passStart' = frame /\ phase' = phase
    BY <1>7 DEF TickLoops
  <2>2. /\ FreezeInv' /\ Streaks' /\ ScorerUse
        /\ notes' = ToExpectedNotes(Chunks[chunkIndex]) /\ sessionSeconds' = 0 /\ lastEvent' = -1
    BY <1>1, <2>1, Rearmed
  <2>3. PassInv'
    <3>1. frame - frame = 0 /\ 0 \in Instants
      BY <1>3, PlayerAssumption
    <3> QED BY <1>4, <2>1, <2>2, <3>1 DEF PassInv
  <2>4. SessionTypes'
    <3>1. frame \in 0 .. frame
      BY <1>3
    <3> QED BY <1>1, <1>3, <1>4, <2>1, <2>2, <3>1 DEF SessionTypes
  <2> QED BY <1>4, <2>2, <2>3, <2>4 DEF SessionInv, frame
<1> QED BY <1>4, <1>6, <1>7

-----------------------------------------------------------------------------
(* The screen.                                                             *)

\* The overlay stays true when the session does nothing to a pass that is over.
LEMMA OverlayStays ==
  ASSUME OverlayInv, shown' = shown, phase' = phase,
         phase # "PLAYING" => FinalVerdicts' = FinalVerdicts
  PROVE  OverlayInv'
BY DEF OverlayInv

\* The rest of the screen's state, when neither the clock nor the composition moves.
LEMMA ScreenStays ==
  ASSUME ScreenInv, lastFrame' = lastFrame, frameSeconds' = frameSeconds, shown' = shown,
         shownPassStart' \in {shownPassStart, frameSeconds}, lastFrozenCount' = lastFrozenCount,
         dirty' \in BOOLEAN, crashed' = crashed, OverlayInv'
  PROVE  ScreenInv'
<1>1. shownPassStart' \in 0 .. frameSeconds'
  BY DEF ScreenInv
<1> QED BY <1>1 DEF ScreenInv

\* What a frame composes.
LEMMA ComposeKeeps ==
  ASSUME ScreenInv, SessionTypes, shown' = (IF dirty THEN Compose(shown) ELSE shown)
  PROVE  /\ shown'.phase \in {"READY", "PLAYING", "PAUSED", "FINISHED"}
         /\ shown'.chunk \in DOMAIN Chunks
         /\ shown'.phase = "FINISHED" =>
              /\ phase \in {"READY", "FINISHED"}
              /\ phase = "FINISHED" => shown'.report = FinalVerdicts
<1>1. CASE dirty
  <2>1. /\ shown'.phase = phase /\ shown'.chunk = chunkIndex
        /\ shown'.report = (IF phase # "FINISHED" THEN <<>>
                            ELSE IF shown.phase = "FINISHED" THEN shown.report ELSE FinalVerdicts)
    BY <1>1 DEF Compose, ResultsOverlay
  <2> QED BY <2>1 DEF ScreenInv, OverlayInv, SessionTypes
<1>2. CASE ~dirty
  BY <1>2 DEF ScreenInv, OverlayInv
<1> QED BY <1>1, <1>2

\* The frozen notes are counted.
LEMMA FrozenIsNumber == FreezeInv => frozenCount \in Nat
BY DEF FreezeInv, ScorerTypeOK

\* One turn of the frame loop.
LEMMA FrameKeeps ==
  ASSUME SessionInv, ScreenInv, Frame
  PROVE  SessionInv' /\ ScreenInv' /\ (ScorerUse \/ UNCHANGED scorerVars)
<1>1. PICK delta \in FrameDeltas \cup {0} : frameSeconds' = Advanced(delta)
  BY DEF Frame
<1>2. /\ frameSeconds' <= MaxFrame /\ shown' = (IF dirty THEN Compose(shown) ELSE shown)
      /\ Tick(frameSeconds') /\ ReadSnapshot(shown')
      /\ dirty' = (frameSeconds' # frameSeconds \/ shownPassStart' # shownPassStart)
  BY DEF Frame
<1>3. /\ frameSeconds = lastFrame /\ frameSeconds \in 0 .. MaxFrame /\ MaxFrame \in Nat
      /\ shownPassStart \in 0 .. frameSeconds /\ lastFrozenCount \in Nat /\ crashed \in BOOLEAN
      /\ SessionTypes /\ phase \in {"READY", "PLAYING", "PAUSED", "FINISHED"} /\ delta \in Nat
  BY PlayerAssumption DEF ScreenInv, SessionInv, SessionTypes
<1>4. /\ shown'.phase \in {"READY", "PLAYING", "PAUSED", "FINISHED"}
      /\ shown'.chunk \in DOMAIN Chunks
      /\ shown'.phase = "FINISHED" =>
           /\ phase \in {"READY", "FINISHED"}
           /\ phase = "FINISHED" => shown'.report = FinalVerdicts
  BY <1>2, <1>3, ComposeKeeps
<1>5. /\ SessionInv' /\ (ScorerUse \/ UNCHANGED scorerVars) /\ frameSeconds' = lastFrame'
      /\ frameSeconds' \in Nat /\ frameSeconds <= frameSeconds' /\ OverlayInv'
  <2>1. CASE phase = "PLAYING"
    <3>1. frameSeconds' = lastFrame + delta
      BY <1>1, <1>3, <2>1 DEF Advanced
    <3>2. SessionInv' /\ ScorerUse /\ lastFrame' = lastFrame + delta
      BY <1>2, <2>1, <3>1, TickKeeps
    <3>3. OverlayInv'
      BY <1>4, <2>1 DEF OverlayInv
    <3>4. lastFrame + delta \in Nat /\ lastFrame <= lastFrame + delta
      BY <1>3
    <3> QED BY <1>3, <3>1, <3>2, <3>3, <3>4
  <2>2. CASE phase # "PLAYING"
    <3>1. frameSeconds' = frameSeconds
      BY <1>1, <2>2 DEF Advanced
    <3>2. UNCHANGED sessionVars
      BY <1>2, <2>2 DEF Tick
    <3>3. /\ SessionInv' /\ UNCHANGED scorerVars /\ phase' = phase /\ lastFrame' = lastFrame
          /\ FinalVerdicts' = FinalVerdicts
      BY <3>2, SessionRests
    <3>4. OverlayInv'
      BY <1>4, <3>3 DEF OverlayInv
    <3> QED BY <1>3, <3>1, <3>3, <3>4
  <2> QED BY <2>1, <2>2
<1>6. frozenCount' \in Nat
  <2>1. FreezeInv'
    BY <1>5 DEF SessionInv
  <2>2. FreezeInv' => (frozenCount \in Nat)'
    BY FrozenIsNumber, PTL
  <2> QED BY <2>1, <2>2
<1>7. frameSeconds' \in 0 .. MaxFrame /\ shownPassStart \in 0 .. frameSeconds'
  <2>1. \A a, b, c \in Nat : a \in 0 .. b /\ b <= c => a \in 0 .. c
    OBVIOUS
  <2> QED BY <1>2, <1>3, <1>5, <2>1
<1>8. shownPassStart' \in 0 .. frameSeconds' /\ lastFrozenCount' \in Nat /\ crashed' \in BOOLEAN
  <2>1. CASE phase' = "FINISHED"
    BY <1>2, <1>3, <1>7, <2>1 DEF ReadSnapshot
  <2>2. CASE phase' # "FINISHED"
    <3>1. /\ shownPassStart' = Anchor /\ lastFrozenCount' = frozenCount'
          /\ crashed' = ~(Feedback(shown') \subseteq DOMAIN notes')
      BY <1>2, <2>2 DEF ReadSnapshot
    <3>2. Anchor \in {frameSeconds', shownPassStart}
      BY DEF Anchor
    <3>3. crashed' \in BOOLEAN
      BY <3>1
    <3>4. frameSeconds' \in 0 .. frameSeconds'
      BY <1>5
    <3> QED BY <1>6, <1>7, <3>1, <3>2, <3>3, <3>4
  <2> QED BY <2>1, <2>2
<1>9. dirty' \in BOOLEAN
  BY <1>2
<1> QED BY <1>4, <1>5, <1>7, <1>8, <1>9 DEF ScreenInv

PlayerInv == SessionInv /\ ScreenInv

\* Every step keeps the invariant and the session's part of the scorer's contract.
LEMMA PlayerStep ==
  PlayerInv /\ [Next]_vars => PlayerInv' /\ (ScorerUse \/ UNCHANGED scorerVars)
<1> SUFFICES ASSUME SessionInv, ScreenInv, [Next]_vars
             PROVE  SessionInv' /\ ScreenInv' /\ (ScorerUse \/ UNCHANGED scorerVars)
  BY DEF PlayerInv
<1>1. frameSeconds = lastFrame /\ OverlayInv /\ dirty \in BOOLEAN
  BY DEF ScreenInv
<1>2. CASE Frame
  BY <1>2, FrameKeeps
<1>3. CASE TapPlay
  <2>1. /\ Play \/ Pause
        /\ shownPassStart' \in {shownPassStart, frameSeconds}
        /\ dirty' = (dirty \/ shownPassStart' # shownPassStart)
        /\ frameSeconds' = frameSeconds /\ lastFrozenCount' = lastFrozenCount
        /\ shown' = shown /\ crashed' = crashed
    BY <1>3 DEF TapPlay
  <2>2. SessionInv' /\ (ScorerUse \/ UNCHANGED scorerVars) /\ lastFrame' = lastFrame
    BY <2>1, ButtonKeeps
  <2>3. OverlayInv'
    BY <1>3, <2>1 DEF TapPlay, OverlayInv
  <2>4. dirty' \in BOOLEAN
    BY <1>1, <2>1
  <2>5. ScreenInv'
    BY <2>1, <2>2, <2>3, <2>4, ScreenStays
  <2> QED BY <2>2, <2>5
<1>4. ASSUME UNCHANGED playerVars, SessionInv', ScorerUse \/ UNCHANGED scorerVars,
             lastFrame' = lastFrame, OverlayInv'
      PROVE  SessionInv' /\ ScreenInv' /\ (ScorerUse \/ UNCHANGED scorerVars)
  <2>1. /\ frameSeconds' = frameSeconds /\ shownPassStart' = shownPassStart
        /\ lastFrozenCount' = lastFrozenCount /\ shown' = shown /\ dirty' = dirty
        /\ crashed' = crashed
    BY <1>4 DEF playerVars
  <2>2. dirty' \in BOOLEAN /\ shownPassStart' \in {shownPassStart, frameSeconds}
    BY <1>1, <2>1
  <2>3. ScreenInv'
    BY <1>4, <2>1, <2>2, ScreenStays
  <2> QED BY <1>4, <2>3
<1>5. CASE TapLoop
  <2>1. ToggleLoop /\ UNCHANGED playerVars
    BY <1>5 DEF TapLoop
  <2>2. SessionInv' /\ (ScorerUse \/ UNCHANGED scorerVars) /\ lastFrame' = lastFrame
    BY <2>1, ButtonKeeps
  <2>3. phase' = phase /\ FinalVerdicts' = FinalVerdicts /\ shown' = shown
    BY <2>1 DEF ToggleLoop, scorerVars, FinalVerdicts, playerVars
  <2>4. OverlayInv'
    BY <1>1, <2>3, OverlayStays
  <2> QED BY <1>4, <2>1, <2>2, <2>4
<1>6. CASE TapRetry
  <2>1. Retry /\ UNCHANGED playerVars /\ phase' = "READY"
    BY <1>6 DEF TapRetry, Retry
  <2>2. SessionInv' /\ (ScorerUse \/ UNCHANGED scorerVars) /\ lastFrame' = lastFrame
    BY <2>1, ButtonKeeps
  <2>3. OverlayInv'
    BY <2>1 DEF OverlayInv
  <2> QED BY <1>4, <2>1, <2>2, <2>3
<1>7. CASE TapNext
  <2>1. NextChunk /\ UNCHANGED playerVars /\ shown' = shown
    BY <1>7 DEF TapNext, playerVars
  <2>2. SessionInv' /\ (ScorerUse \/ UNCHANGED scorerVars) /\ lastFrame' = lastFrame
    BY <2>1, ButtonKeeps
  <2>3. phase' = "READY" \/ UNCHANGED sessionVars
    BY <2>1 DEF NextChunk
  <2>4. CASE phase' = "READY"
    <3>1. OverlayInv'
      BY <2>4 DEF OverlayInv
    <3> QED BY <1>4, <2>1, <2>2, <3>1
  <2>5. CASE UNCHANGED sessionVars
    <3>1. phase' = phase /\ FinalVerdicts' = FinalVerdicts
      BY <2>5, SessionRests
    <3>2. OverlayInv'
      BY <1>1, <2>1, <3>1, OverlayStays
    <3> QED BY <1>4, <2>1, <2>2, <3>2
  <2> QED BY <2>3, <2>4, <2>5
<1>8. CASE TapAppearance
  <2>1. /\ UNCHANGED sessionVars /\ dirty' = TRUE /\ frameSeconds' = frameSeconds
        /\ shownPassStart' = shownPassStart /\ lastFrozenCount' = lastFrozenCount
        /\ shown' = shown /\ crashed' = crashed
    BY <1>8 DEF TapAppearance
  <2>2. /\ SessionInv' /\ UNCHANGED scorerVars /\ phase' = phase /\ lastFrame' = lastFrame
        /\ FinalVerdicts' = FinalVerdicts
    BY <2>1, SessionRests
  <2>3. OverlayInv'
    BY <1>1, <2>1, <2>2, OverlayStays
  <2>4. dirty' \in BOOLEAN /\ shownPassStart' \in {shownPassStart, frameSeconds}
    BY <2>1
  <2>5. ScreenInv'
    BY <2>1, <2>2, <2>3, <2>4, ScreenStays
  <2> QED BY <2>2, <2>5
<1>9. ASSUME NEW pitch \in Pitch, Touch(pitch)
      PROVE  SessionInv' /\ ScreenInv' /\ (ScorerUse \/ UNCHANGED scorerVars)
  <2>1. /\ Len(events) < MaxPlayed /\ OnEvent(pitch, lastFrame) /\ UNCHANGED playerVars
        /\ shown' = shown
    BY <1>1, <1>9 DEF Touch, playerVars
  <2>2. /\ SessionInv' /\ (ScorerUse \/ UNCHANGED scorerVars)
        /\ lastFrame' = lastFrame /\ phase' = phase
        /\ phase # "PLAYING" => FinalVerdicts' = FinalVerdicts
    BY <2>1, TouchKeeps
  <2>3. OverlayInv'
    BY <1>1, <2>1, <2>2, OverlayStays
  <2> QED BY <1>4, <2>1, <2>2, <2>3
<1>10. CASE UNCHANGED vars
  <2>1. UNCHANGED sessionVars /\ UNCHANGED playerVars /\ shown' = shown
    BY <1>10 DEF vars, playerVars
  <2>2. /\ SessionInv' /\ UNCHANGED scorerVars /\ phase' = phase /\ lastFrame' = lastFrame
        /\ FinalVerdicts' = FinalVerdicts
    BY <2>1, SessionRests
  <2>3. OverlayInv'
    BY <1>1, <2>1, <2>2, OverlayStays
  <2> QED BY <1>4, <2>1, <2>2, <2>3
<1> QED BY <1>2, <1>3, <1>5, <1>6, <1>7, <1>8, <1>9, <1>10 DEF Next

\* The screen as it opens.
LEMMA PlayerInit == Init => PlayerInv
<1> SUFFICES ASSUME Init PROVE SessionInv /\ ScreenInv
  BY DEF PlayerInv
<1>1. /\ chunkIndex = 1 /\ FreshScorer(ToExpectedNotes(Chunks[1])) /\ phase = "READY"
      /\ loopEnabled = FALSE /\ lastFrame = 0 /\ passStart = 0 /\ tracker = FreshTracker
  BY DEF Init, SessionInit
<1>2. 1 \in DOMAIN Chunks /\ ToExpectedNotes(Chunks[1]) \in Songs /\ MaxFrame \in Nat
  <2>1. 1 \in DOMAIN Chunks
    BY PlayerAssumption
  <2> QED BY <2>1, PlayerAssumption
<1>3. FreezeInv
  BY <1>1, <1>2, FreezeInit DEF ScorerInit
<1>4. notes = ToExpectedNotes(Chunks[1]) /\ sessionSeconds = 0 /\ lastEvent = -1 /\ frozenCount = 0
  BY <1>1 DEF FreshScorer
<1>5. SessionTypes /\ PassInv
  <2>1. lastFrame \in Nat /\ passStart \in 0 .. lastFrame
    <3>1. lastFrame = 0 /\ passStart = 0
      BY <1>1
    <3> QED BY <3>1
  <2>2. notes = ToExpectedNotes(Chunks[chunkIndex]) /\ chunkIndex \in DOMAIN Chunks
    BY <1>1, <1>2, <1>4
  <2>3. SessionTypes
    <3>1. loopEnabled \in BOOLEAN
      BY <1>1
    <3> QED BY <1>1, <2>1, <2>2, <3>1 DEF SessionTypes
  <2>4. PassInv
    BY <1>1, <1>4 DEF PassInv
  <2> QED BY <2>3, <2>4
<1>6. Streaks
  BY <1>1, <1>4, StreaksFresh DEF Streaks
<1>7. ScreenInv
  <2>1. /\ shown.phase = "READY" /\ shown.chunk = 1 /\ dirty = FALSE /\ crashed = FALSE
        /\ frameSeconds = 0 /\ shownPassStart = 0 /\ lastFrozenCount = 0
    BY DEF Init
  <2>2. /\ frameSeconds = lastFrame /\ frameSeconds \in 0 .. MaxFrame
        /\ shownPassStart \in 0 .. frameSeconds /\ lastFrozenCount \in Nat
    BY <1>1, <1>2, <2>1
  <2>3. OverlayInv
    BY <2>1 DEF OverlayInv
  <2> QED BY <1>2, <2>1, <2>2, <2>3 DEF ScreenInv
<1> QED BY <1>3, <1>5, <1>6, <1>7 DEF SessionInv

-----------------------------------------------------------------------------
\* The invariant of a lesson: of the scorer, the session and the screen.
THEOREM PlayerInvariant == Spec => []PlayerInv
<1>1. PlayerInv /\ [Next]_vars => PlayerInv'
  BY PlayerStep
<1> QED BY PlayerInit, <1>1, PTL DEF Spec

\* The types of the screen, the session and the scorer.
THEOREM PlayerTypeCorrect == Spec => []TypeOK
<1>1. PlayerInv => TypeOK
  <2> SUFFICES ASSUME SessionInv, ScreenInv PROVE TypeOK
    BY DEF PlayerInv
  <2>1. ScorerTypeOK /\ frozenCount \in Nat /\ SessionTypes /\ Streaks
    BY DEF SessionInv, FreezeInv, ScorerTypeOK
  <2>2. tracker \in [combo : Nat, best : Nat]
    BY <2>1, StreaksSuffice
  <2>3. SessionTypeOK
    BY <2>1, <2>2 DEF SessionTypes, SessionTypeOK
  <2> QED BY <2>3 DEF ScreenInv, TypeOK
<1> QED BY PlayerInvariant, <1>1, PTL

\* In a lesson no precondition of the session or of the scorer can fail: the clock of a
\* playing pass is behind neither the scorer's clock nor the latest event.
THEOREM PlayerRequiresHold == Spec => []RequiresHold
<1>1. PlayerInv => RequiresHold
  <2> SUFFICES ASSUME SessionInv, ScreenInv PROVE RequiresHold
    BY DEF PlayerInv
  <2>1. frameSeconds = lastFrame
    BY DEF ScreenInv
  <2>2. phase = "PLAYING" => lastFrame - passStart >= Watermark
    <3> SUFFICES ASSUME phase = "PLAYING" PROVE lastFrame - passStart >= Watermark
      OBVIOUS
    <3>1. sessionSeconds <= lastFrame - passStart /\ lastEvent <= lastFrame - passStart
      BY DEF SessionInv, PassInv
    <3>2. /\ sessionSeconds \in Int /\ lastEvent \in Int /\ lastFrame \in Int /\ passStart \in Int
      BY DEF SessionInv, SessionTypes, FreezeInv, ScorerTypeOK
    <3>3. Watermark \in {sessionSeconds, lastEvent}
      BY DEF Watermark, Later
    <3> QED BY <3>1, <3>2, <3>3
  <2> QED BY <2>1, <2>2 DEF RequiresHold
<1> QED BY PlayerInvariant, <1>1, PTL

\* The combo is the run of hits that ends at the latest frozen note, and the best combo
\* the longest of the pass, however the verdicts froze.
THEOREM PlayerCombo == Spec => []ComboIsStreak
<1>1. PlayerInv => ComboIsStreak
  <2> SUFFICES ASSUME SessionInv PROVE ComboIsStreak
    BY DEF PlayerInv
  <2>1. frozenCount \in Nat /\ Streaks
    BY DEF SessionInv, FreezeInv, ScorerTypeOK
  <2> QED BY <2>1, StreaksSuffice
<1> QED BY PlayerInvariant, <1>1, PTL

\* The overlay of a finished pass shows the batch result over that pass.
THEOREM PlayerOverlayFinal == Spec => []OverlayIsFinal
<1>1. PlayerInv => OverlayIsFinal
  BY DEF PlayerInv, ScreenInv, OverlayInv, OverlayIsFinal
<1> QED BY PlayerInvariant, <1>1, PTL

\* The session drives the scorer as the scorer's contract asks, or replaces it.
THEOREM PlayerUsesScorer == Spec => ScorerUsedAsAgreed
<1>1. PlayerInv /\ [Next]_vars =>
        [ScorerNext \/ \E song \in Songs : ReplaceScorer(song)]_scorerVars
  BY PlayerStep DEF ScorerUse
<1> QED BY PlayerInvariant, <1>1, PTL DEF Spec, ScorerUsedAsAgreed

\* So the freeze theorem holds in every lesson: what was shown while a pass was played
\* is in its final report.
THEOREM PlayerFrozenIsFinal == Spec => []FrozenIsFinal
<1>1. PlayerInv => FrozenIsFinal
  BY DEF PlayerInv, SessionInv, FreezeInv
<1> QED BY PlayerInvariant, <1>1, PTL
=============================================================================
