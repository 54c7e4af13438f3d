------------------------- MODULE NoteEventFlow_proof -------------------------
(***************************************************************************)
(* Proofs about NoteEventQueue and NoteEventFlow, for every capacity,      *)
(* every word size that the capacity divides, every number of events and   *)
(* every size of batch and channel.                                        *)
(*                                                                         *)
(* The queue, which rests on CounterAssumption and QueueAssumption alone:  *)
(* its types, the absence of slot races, and that it implements EventFifo. *)
(* The transport: it is a client of the queue, and every event that push() *)
(* accepted is in exactly one place, in order.                             *)
(***************************************************************************)
EXTENDS NoteEventFlow, SpscCounters_proof, SequenceTheorems

-----------------------------------------------------------------------------
(* Types.                                                                  *)

\* The type invariant holds at the start.
LEMMA TypeInit == QueueInit => QueueTypeOK
BY WordFacts DEF QueueInit, QueueTypeOK

\* The type invariant survives every step.
LEMMA TypeStep ==
  ASSUME QueueTypeOK, [QueueNext]_queueVars
  PROVE  QueueTypeOK'
<1> USE DEF QueueTypeOK
<1>0. head \in Index /\ tail \in Index /\ pSeen \in Index /\ cSeen \in Index
  BY DEF Index
<1>1. ASSUME NEW e \in Event, PushAdmit(e) PROVE QueueTypeOK'
  BY <1>0, <1>1, VisibleFacts DEF PushAdmit, consumerVars, Index
<1>2. CASE PushRefuse
  BY <1>0, <1>2, VisibleFacts DEF PushRefuse, consumerVars, Index
<1>3. CASE PushWrite
  BY <1>3 DEF PushWrite, consumerVars
<1>4. CASE PushPublish
  <2>1. Plus(head, 1) \in Index
    BY <1>0, PlusIsIndex, SmallIndices
  <2> QED BY <1>4, <2>1 DEF PushPublish, consumerVars, Index
<1>5. ASSUME NEW h \in Visible(cSeen, head), PopAdmit(h) PROVE QueueTypeOK'
  BY <1>0, <1>5, VisibleFacts DEF PopAdmit, producerVars, Index
<1>6. ASSUME NEW h \in Visible(cSeen, head), PopRefuse(h) PROVE QueueTypeOK'
  BY <1>0, <1>6, VisibleFacts DEF PopRefuse, producerVars, Index
<1>7. CASE PopRead
  BY <1>0, <1>7, SlotRange DEF PopRead, producerVars
<1>8. CASE PopPublish
  <2>1. Plus(tail, 1) \in Index
    BY <1>0, PlusIsIndex, SmallIndices
  <2> QED BY <1>8, <2>1 DEF PopPublish, producerVars, Index
<1>9. CASE Reset
  BY <1>9, WordFacts DEF Reset
<1>10. CASE UNCHANGED queueVars
  BY <1>10 DEF queueVars, producerVars, consumerVars
<1> QED
  BY <1>1, <1>2, <1>3, <1>4, <1>5, <1>6, <1>7, <1>8, <1>9, <1>10 DEF QueueNext

\* Every reachable state of the queue is well typed: in particular the two
\* counters stay within size_t as they wrap, and a pop never hands out a slot
\* value that is neither an event nor the initial content.
THEOREM QueueTypeCorrect == QueueSpec => []QueueTypeOK
<1>1. QueueInit => QueueTypeOK
  BY TypeInit
<1>2. QueueTypeOK /\ [QueueNext]_queueVars => QueueTypeOK'
  BY TypeStep
<1> QED BY <1>1, <1>2, PTL DEF QueueSpec

-----------------------------------------------------------------------------
(* The inductive invariant.  Read the counters as points on a circle of    *)
(* length Word: going back from head there come cSeen, tail and pSeen, and *)
(* all four lie within a capacity of each other.                           *)

\* The distances between neighbours on that arc.
Unseen == Distance(head, cSeen)
Available == Distance(cSeen, tail)
Reclaimed == Distance(tail, pSeen)

Arc ==
  /\ Unseen + Available + Reclaimed <= Capacity
  /\ pPc # "idle" => Unseen + Available + Reclaimed < Capacity
  /\ cPc # "idle" => Available >= 1

\* The slots in use hold events: those from tail up to head and, between the
\* write and the store of head_, the one at head.
Stored ==
  /\ pPc # "idle" => pEvent \in Event
  /\ pPc = "publish" => slots[Slot(head)] = pEvent
  /\ cPc = "publish" => out = slots[Slot(tail)]

QueueInv == QueueTypeOK /\ Arc /\ Stored

\* The counters are indices and the distances between them natural numbers.
LEMMA Ranges ==
  ASSUME QueueTypeOK
  PROVE  /\ head \in Index /\ tail \in Index /\ pSeen \in Index /\ cSeen \in Index
         /\ Unseen \in Nat /\ Available \in Nat /\ Reclaimed \in Nat
<1>1. head \in Index /\ tail \in Index /\ pSeen \in Index /\ cSeen \in Index
  BY DEF QueueTypeOK, Index
<1> QED BY <1>1, DistanceRange DEF Unseen, Available, Reclaimed

\* On the arc distances add up.
LEMMA ArcDistances ==
  ASSUME QueueTypeOK, Unseen + Available + Reclaimed <= Capacity
  PROVE  /\ Distance(head, tail) = Unseen + Available
         /\ Distance(head, pSeen) = Unseen + Available + Reclaimed
<1>1. Distance(head, tail) = Unseen + Available
  BY Ranges, WordFacts, DistancesAdd DEF Unseen, Available
<1>2. Distance(head, pSeen) = Distance(head, tail) + Reclaimed
  BY <1>1, Ranges, WordFacts, DistancesAdd DEF Reclaimed
<1> QED BY <1>1, <1>2, Ranges

\* The order of the counters, and what is stored, at the start.
LEMMA ArcInit == QueueInit => Arc /\ Stored
<1>1. 0 \in Index
  BY WordFacts DEF Index
<1>2. Distance(0, 0) = 0
  BY <1>1, DistanceFacts
<1> QED
  BY <1>2, WordFacts DEF QueueInit, Arc, Stored, Unseen, Available, Reclaimed

\* The counters keep their order on the circle: no step overtakes another's counter.
LEMMA ArcStep ==
  ASSUME QueueTypeOK, Arc, [QueueNext]_queueVars
  PROVE  Arc'
<1> USE DEF Arc
<1>0. /\ head \in Index /\ tail \in Index /\ pSeen \in Index /\ cSeen \in Index
      /\ Unseen \in Nat /\ Available \in Nat /\ Reclaimed \in Nat
      /\ Capacity \in Nat /\ Word \in Nat /\ Capacity < Word
  BY Ranges, WordFacts
<1>1. ASSUME NEW e \in Event, PushAdmit(e) PROVE Arc'
  <2>1. PICK t \in Visible(pSeen, tail) : ~Full(head, t) /\ pSeen' = t
    BY <1>1 DEF PushAdmit
  <2>2. /\ t \in Index /\ Distance(tail, t) \in Nat /\ Distance(t, pSeen) \in Nat
        /\ Reclaimed = Distance(tail, t) + Distance(t, pSeen)
    BY <1>0, <2>1, VisibleFacts DEF Reclaimed
  <2>3. Distance(head, t) = Unseen + Available + Distance(tail, t)
    <3>1. Distance(head, tail) = Unseen + Available
      BY ArcDistances
    <3>2. Distance(head, tail) + Distance(tail, t) < Word
      BY <1>0, <2>2, <3>1
    <3> QED BY <1>0, <2>2, <3>1, <3>2, DistancesAdd
  <2>4. Unseen + Available + Distance(tail, t) < Capacity
    BY <1>0, <2>1, <2>2, <2>3 DEF Full
  <2>5. Unseen' = Unseen /\ Available' = Available /\ Reclaimed' = Distance(tail, t)
    BY <1>1, <2>1 DEF PushAdmit, consumerVars, Unseen, Available, Reclaimed
  <2> QED BY <1>0, <1>1, <2>2, <2>4, <2>5 DEF PushAdmit, consumerVars
<1>2. CASE PushRefuse
  <2>1. PICK t \in Visible(pSeen, tail) : pSeen' = t
    BY <1>2 DEF PushRefuse
  <2>2. /\ Distance(tail, t) \in Nat /\ Distance(t, pSeen) \in Nat
        /\ Reclaimed = Distance(tail, t) + Distance(t, pSeen)
    BY <1>0, <2>1, VisibleFacts DEF Reclaimed
  <2>3. Unseen' = Unseen /\ Available' = Available /\ Reclaimed' = Distance(tail, t)
    BY <1>2, <2>1 DEF PushRefuse, consumerVars, Unseen, Available, Reclaimed
  <2> QED BY <1>0, <1>2, <2>2, <2>3 DEF PushRefuse, consumerVars
<1>3. CASE PushWrite
  BY <1>0, <1>3 DEF PushWrite, consumerVars, Unseen, Available, Reclaimed
<1>4. CASE PushPublish
  <2>1. Unseen' = Unseen + 1
    BY <1>0, <1>4, AdvanceFar DEF PushPublish, consumerVars, Unseen
  <2>2. Available' = Available /\ Reclaimed' = Reclaimed
    BY <1>4 DEF PushPublish, consumerVars, Available, Reclaimed
  <2> QED BY <1>0, <1>4, <2>1, <2>2 DEF PushPublish, consumerVars
<1>5. ASSUME NEW h \in Visible(cSeen, head), PopAdmit(h) PROVE Arc'
  <2>1. /\ h \in Index /\ Distance(head, h) \in Nat /\ Distance(h, cSeen) \in Nat
        /\ Unseen = Distance(head, h) + Distance(h, cSeen)
    BY <1>0, VisibleFacts DEF Unseen
  <2>2. Distance(h, tail) = Distance(h, cSeen) + Available
    BY <1>0, <2>1, DistancesAdd DEF Available
  <2>3. Distance(h, tail) >= 1
    BY <1>0, <1>5, <2>1, DistanceRange DEF PopAdmit, Empty
  <2>4. /\ Unseen' = Distance(head, h) /\ Available' = Distance(h, tail)
        /\ Reclaimed' = Reclaimed
    BY <1>5 DEF PopAdmit, producerVars, Unseen, Available, Reclaimed
  <2> QED BY <1>0, <1>5, <2>1, <2>2, <2>3, <2>4 DEF PopAdmit, producerVars
<1>6. ASSUME NEW h \in Visible(cSeen, head), PopRefuse(h) PROVE Arc'
  <2>1. /\ h \in Index /\ Distance(head, h) \in Nat /\ Distance(h, cSeen) \in Nat
        /\ Unseen = Distance(head, h) + Distance(h, cSeen)
    BY <1>0, VisibleFacts DEF Unseen
  <2>2. Distance(h, tail) = Distance(h, cSeen) + Available
    BY <1>0, <2>1, DistancesAdd DEF Available
  <2>3. /\ Unseen' = Distance(head, h) /\ Available' = Distance(h, tail)
        /\ Reclaimed' = Reclaimed
    BY <1>6 DEF PopRefuse, producerVars, Unseen, Available, Reclaimed
  <2> QED BY <1>0, <1>6, <2>1, <2>2, <2>3 DEF PopRefuse, producerVars
<1>7. CASE PopRead
  BY <1>0, <1>7 DEF PopRead, producerVars, Unseen, Available, Reclaimed
<1>8. CASE PopPublish
  <2>1. Available >= 1
    BY <1>8 DEF PopPublish
  <2>2. Available' = Available - 1
    BY <1>0, <1>8, <2>1, AdvanceNear DEF PopPublish, Available
  <2>3. Reclaimed' = Reclaimed + 1
    BY <1>0, <1>8, <2>1, AdvanceFar DEF PopPublish, producerVars, Reclaimed
  <2>4. Unseen' = Unseen
    BY <1>8 DEF PopPublish, Unseen
  <2> QED BY <1>0, <1>8, <2>2, <2>3, <2>4 DEF PopPublish, producerVars
<1>9. CASE Reset
  <2>1. 0 \in Index
    BY WordFacts DEF Index
  <2>2. Unseen' = 0 /\ Available' = 0 /\ Reclaimed' = 0
    BY <1>9, <2>1, DistanceRange DEF Reset, Unseen, Available, Reclaimed
  <2> QED BY <1>0, <1>9, <2>2 DEF Reset
<1>10. CASE UNCHANGED queueVars
  BY <1>10 DEF queueVars, producerVars, consumerVars, Unseen, Available, Reclaimed
<1> QED
  BY <1>1, <1>2, <1>3, <1>4, <1>5, <1>6, <1>7, <1>8, <1>9, <1>10 DEF QueueNext

\* The producer's slot is none of those the consumer may read.
LEMMA HeadSlotIsFree ==
  ASSUME QueueTypeOK, Arc, pPc # "idle", cPc # "idle"
  PROVE  Slot(head) # Slot(tail)
<1>1. Distance(head, tail) > 0 /\ Distance(head, tail) < Capacity
  BY Ranges, ArcDistances, WordFacts DEF Arc
<1> QED BY <1>1, Ranges, SlotsDiffer

\* The event is in the slot that is published, and pop() returns what its slot holds.
LEMMA StoredStep ==
  ASSUME QueueTypeOK, Arc, Stored, [QueueNext]_queueVars
  PROVE  Stored'
<1> USE DEF Stored
<1>1. ASSUME NEW e \in Event, PushAdmit(e) PROVE Stored'
  BY <1>1 DEF PushAdmit, consumerVars
<1>2. CASE PushRefuse
  BY <1>2 DEF PushRefuse, consumerVars
<1>3. CASE PushWrite
  <2>1. slots' = [slots EXCEPT ![Slot(head)] = pEvent] /\ pPc = "write"
    BY <1>3 DEF PushWrite
  <2>2. slots'[Slot(head)] = pEvent
    BY <2>1, Ranges, SlotRange DEF QueueTypeOK
  <2>3. cPc = "publish" => slots'[Slot(tail)] = slots[Slot(tail)]
    BY <2>1, Ranges, SlotRange, HeadSlotIsFree DEF QueueTypeOK
  <2> QED BY <1>3, <2>2, <2>3 DEF PushWrite, consumerVars
<1>4. CASE PushPublish
  BY <1>4 DEF PushPublish, consumerVars
<1>5. ASSUME NEW h \in Visible(cSeen, head), PopAdmit(h) PROVE Stored'
  BY <1>5 DEF PopAdmit, producerVars
<1>6. ASSUME NEW h \in Visible(cSeen, head), PopRefuse(h) PROVE Stored'
  BY <1>6 DEF PopRefuse, producerVars
<1>7. CASE PopRead
  BY <1>7 DEF PopRead, producerVars
<1>8. CASE PopPublish
  BY <1>8 DEF PopPublish, producerVars
<1>9. CASE Reset
  BY <1>9 DEF Reset
<1>10. CASE UNCHANGED queueVars
  BY <1>10 DEF queueVars, producerVars, consumerVars
<1> QED
  BY <1>1, <1>2, <1>3, <1>4, <1>5, <1>6, <1>7, <1>8, <1>9, <1>10 DEF QueueNext

\* The inductive invariant holds throughout.
LEMMA QueueInvariance == QueueSpec => []QueueInv
<1>1. QueueInit => QueueInv
  BY TypeInit, ArcInit DEF QueueInv
<1>2. QueueInv /\ [QueueNext]_queueVars => QueueInv'
  BY TypeStep, ArcStep, StoredStep DEF QueueInv
<1> QED BY <1>1, <1>2, PTL DEF QueueSpec

\* However stale the counters are that the two threads see, and however often
\* the counters wrapped, push() never writes the slot that pop() is reading.
THEOREM QueueNoSlotRace == QueueSpec => []NoSlotRace
<1>1. QueueInv => NoSlotRace
  BY HeadSlotIsFree DEF QueueInv, NoSlotRace
<1> QED BY <1>1, QueueInvariance, PTL

-----------------------------------------------------------------------------
(* The queue implements EventFifo.                                         *)

(* Sequences as functions, the form in which Waiting is defined.           *)

\* Append as a function, for the comparison of sequences by their elements.
LEMMA AppendAsFunction ==
  ASSUME NEW S, NEW s \in Seq(S), NEW e \in S
  PROVE  Append(s, e) = [i \in 1 .. Len(s) + 1 |-> IF i = Len(s) + 1 THEN e ELSE s[i]]
<1> DEFINE t == [i \in 1 .. Len(s) + 1 |-> IF i = Len(s) + 1 THEN e ELSE s[i]]
<1>0. Len(s) \in Nat
  OBVIOUS
<1>1. \A i \in 1 .. Len(s) + 1 : t[i] \in S
  BY <1>0
<1>2. t \in Seq(S) /\ Len(t) = Len(s) + 1
  BY <1>0, <1>1
<1>3. \A i \in 1 .. Len(t) : t[i] = Append(s, e)[i]
  BY <1>0, <1>2, AppendProperties
<1>4. Append(s, e) \in Seq(S) /\ Len(Append(s, e)) = Len(t)
  BY <1>2, AppendProperties
<1>5. Append(s, e) = t
  <2> HIDE DEF t
  <2> QED BY <1>2, <1>3, <1>4, SeqEqual
<1> QED BY <1>5

\* Tail as a function, likewise.
LEMMA TailAsFunction ==
  ASSUME NEW S, NEW s \in Seq(S), s # <<>>
  PROVE  Tail(s) = [i \in 1 .. Len(s) - 1 |-> s[i + 1]]
<1> DEFINE t == [i \in 1 .. Len(s) - 1 |-> s[i + 1]]
<1>0. Len(s) \in Nat /\ Len(s) >= 1
  BY EmptySeq
<1>1. t \in Seq(S) /\ Len(t) = Len(s) - 1
  BY <1>0
<1> QED
  BY <1>0, <1>1, HeadTailProperties, SeqEqual

-----------------------------------------------------------------------------
\* The index of the oldest event that is not taken.
First == Plus(tail, Taken)
Pending == Distance(head, First)

\* The abstract queue is what the slots from First on hold.
LEMMA WaitingFacts ==
  ASSUME QueueTypeOK, Arc
  PROVE  /\ First \in Index
         /\ Pending \in Nat
         /\ Pending = Unseen + Available - Taken
         /\ Waiting \in Seq(Event \cup {NoEvent})
         /\ Len(Waiting) = Pending
         /\ \A i \in 1 .. Pending : Waiting[i] = slots[Slot(Plus(First, i - 1))]
<1>0. /\ head \in Index /\ tail \in Index
      /\ Unseen \in Nat /\ Available \in Nat /\ Reclaimed \in Nat
      /\ Capacity \in Nat /\ Word \in Nat /\ Capacity < Word
  BY Ranges, WordFacts
<1>1. Distance(head, tail) = Unseen + Available
  BY ArcDistances DEF Arc
<1>2. First \in Index /\ Pending = Unseen + Available - Taken /\ Pending \in Nat
  <2>1. CASE cPc = "publish"
    <3>1. Distance(head, tail) >= 1
      BY <1>0, <1>1, <2>1 DEF Arc
    <3> QED BY <1>0, <1>1, <2>1, <3>1, AdvanceNear DEF First, Pending, Taken
  <2>2. CASE cPc # "publish"
    <3>1. Plus(tail, 0) = tail
      BY <1>0, PlusFacts DEF Index
    <3> QED BY <1>0, <1>1, <2>2, <3>1 DEF First, Pending, Taken
  <2> QED BY <2>1, <2>2
<1>3. Waiting = [i \in 1 .. Pending |-> slots[Slot(Plus(First, i - 1))]]
  BY DEF Waiting, First, Pending
<1>4. \A i \in 1 .. Pending : slots[Slot(Plus(First, i - 1))] \in Event \cup {NoEvent}
  <2> TAKE i \in 1 .. Pending
  <2>1. Pending < Word
    BY <1>0, <1>2, DistanceRange DEF Pending
  <2>2. i - 1 \in Index
    BY <1>0, <1>2, <2>1 DEF Index
  <2>3. Plus(First, i - 1) \in Index
    BY <1>0, <1>2, <2>2, PlusFacts DEF Index
  <2> QED BY <2>3, SlotRange DEF QueueTypeOK
<1> QED BY <1>2, <1>3, <1>4

\* While an event is being written, its slot is not one of those waiting.
LEMMA HeadSlotNotWaiting ==
  ASSUME QueueTypeOK, Arc, pPc # "idle", NEW i \in 1 .. Pending
  PROVE  Slot(Plus(First, i - 1)) # Slot(head)
<1>0. /\ head \in Index /\ First \in Index /\ Pending \in Nat
      /\ Capacity \in Nat /\ Word \in Nat /\ Capacity < Word
      /\ Pending < Capacity
  BY Ranges, WordFacts, WaitingFacts DEF Arc, Taken
<1>1. i - 1 \in Index
  BY <1>0 DEF Index
<1>2. Plus(First, i - 1) \in Index
      /\ Distance(head, Plus(First, i - 1)) = Pending - (i - 1)
  <2>1. Plus(First, i - 1) =
          IF First + (i - 1) < Word THEN First + (i - 1) ELSE First + (i - 1) - Word
    BY <1>0, <1>1, PlusFacts
  <2>2. Plus(First, i - 1) \in Index
    BY <1>0, <1>1, <2>1 DEF Index
  <2>3. Pending = IF head >= First THEN head - First ELSE head - First + Word
    BY <1>0, DistanceFacts DEF Pending
  <2>4. Distance(head, Plus(First, i - 1)) =
          IF head >= Plus(First, i - 1) THEN head - Plus(First, i - 1)
          ELSE head - Plus(First, i - 1) + Word
    BY <1>0, <2>2, DistanceFacts
  <2> QED BY <1>0, <2>1, <2>2, <2>3, <2>4 DEF Index
<1>3. Distance(head, Plus(First, i - 1)) > 0
      /\ Distance(head, Plus(First, i - 1)) < Capacity
  BY <1>0, <1>2
<1> QED BY <1>0, <1>2, <1>3, SlotsDiffer

\* A step that moves neither end of the waiting events, nor changes one of
\* their slots, is no step of the FIFO.
LEMMA SameWaiting ==
  ASSUME First' = First, head' = head,
         \A i \in 1 .. Pending : slots'[Slot(Plus(First, i - 1))] = slots[Slot(Plus(First, i - 1))]
  PROVE  Waiting' = Waiting
<1>1. Waiting = [i \in 1 .. Pending |-> slots[Slot(Plus(First, i - 1))]]
  BY DEF Waiting, First, Pending
<1>2. Waiting' = [i \in 1 .. Pending' |-> slots'[Slot(Plus(First', i - 1))]]
  BY DEF Waiting, First, Pending, Taken, Plus, Slot, Distance
<1>3. Pending' = Pending
  BY DEF Pending, Distance
<1>4. Waiting' = [i \in 1 .. Pending |-> slots'[Slot(Plus(First, i - 1))]]
  BY <1>2, <1>3
<1> QED BY <1>1, <1>4

\* The store of head_ is the push of the FIFO.
LEMMA PublishIsPush ==
  ASSUME QueueTypeOK, Arc, Stored, PushPublish
  PROVE  Fifo!Push(pEvent) /\ pEvent \in Event
<1>0. /\ head \in Index /\ First \in Index /\ Pending \in Nat
      /\ Capacity \in Nat /\ Word \in Nat /\ Capacity < Word
      /\ Pending < Capacity
      /\ Len(Waiting) = Pending
  BY Ranges, WordFacts, WaitingFacts DEF Arc, Taken, PushPublish
<1>1. /\ head' = Plus(head, 1) /\ slots' = slots /\ First' = First /\ out' = out
      /\ pEvent \in Event /\ slots[Slot(head)] = pEvent
  BY DEF PushPublish, consumerVars, First, Taken, Plus, Stored
<1>2. Pending' = Pending + 1
  <2>1. Pending' = Distance(Plus(head, 1), First)
    BY <1>1 DEF Pending, Distance
  <2> QED BY <1>0, <2>1, AdvanceFar DEF Pending
<1>3. Waiting = [i \in 1 .. Pending |-> slots[Slot(Plus(First, i - 1))]]
  BY DEF Waiting, First, Pending
<1>4. Waiting' = [i \in 1 .. Pending + 1 |-> slots[Slot(Plus(First, i - 1))]]
  <2>1. Waiting' = [i \in 1 .. Pending' |-> slots'[Slot(Plus(First', i - 1))]]
    BY DEF Waiting, First, Pending, Taken, Plus, Slot, Distance
  <2> QED BY <2>1, <1>1, <1>2
<1>5. Plus(First, (Pending + 1) - 1) = head
  BY <1>0, PlusDistance DEF Pending
<1>6. Waiting' = Append(Waiting, pEvent)
  <2>1. Append(Waiting, pEvent) =
          [i \in 1 .. Pending + 1 |-> IF i = Pending + 1 THEN pEvent ELSE Waiting[i]]
    <3>1. Waiting \in Seq(Event \cup {NoEvent}) /\ pEvent \in Event \cup {NoEvent}
      BY <1>1, WaitingFacts
    <3> QED BY <1>0, <3>1, AppendAsFunction
  <2>2. \A i \in 1 .. Pending + 1 :
          slots[Slot(Plus(First, i - 1))] =
            IF i = Pending + 1 THEN pEvent ELSE Waiting[i]
    BY <1>0, <1>1, <1>3, <1>5
  <2> QED BY <1>4, <2>1, <2>2
<1> QED BY <1>0, <1>1, <1>6 DEF Fifo!Push

\* The read of a slot is the pop of the FIFO.
LEMMA ReadIsPop ==
  ASSUME QueueTypeOK, Arc, PopRead
  PROVE  Fifo!Pop
<1>0. /\ head \in Index /\ tail \in Index /\ Pending \in Nat
      /\ Capacity \in Nat /\ Word \in Nat /\ Capacity < Word
      /\ Pending >= 1 /\ Pending < Word
      /\ Waiting \in Seq(Event \cup {NoEvent})
      /\ Len(Waiting) = Pending
  <2>1. First \in Index /\ Taken = 0
    BY WaitingFacts DEF Taken, PopRead
  <2>2. Pending < Word
    BY <2>1, Ranges, DistanceRange DEF Pending
  <2> QED BY <2>1, <2>2, Ranges, WordFacts, WaitingFacts DEF Arc, PopRead
<1>1. /\ cPc = "read" /\ cPc' = "publish" /\ slots' = slots
      /\ head' = head /\ tail' = tail /\ out' = slots[Slot(tail)]
  BY DEF PopRead, producerVars
<1>2. First = tail /\ First' = Plus(tail, 1)
  BY <1>0, <1>1, PlusZero DEF First, Taken, Plus
<1>3. Pending' = Pending - 1
  <2>1. Pending' = Distance(head, Plus(tail, 1))
    BY <1>1, <1>2 DEF Pending, Distance
  <2> QED BY <1>0, <1>2, <2>1, AdvanceNear DEF Pending
<1>4. Waiting = [i \in 1 .. Pending |-> slots[Slot(Plus(tail, i - 1))]]
  BY <1>2 DEF Waiting, First, Pending
<1>5. Waiting' = [i \in 1 .. Pending - 1 |-> slots[Slot(Plus(Plus(tail, 1), i - 1))]]
  <2>1. Waiting' = [i \in 1 .. Pending' |-> slots'[Slot(Plus(First', i - 1))]]
    BY DEF Waiting, First, Pending, Taken, Plus, Slot, Distance
  <2> QED BY <2>1, <1>1, <1>2, <1>3
<1>6. Head(Waiting) = slots[Slot(tail)]
  <2>1. Head(Waiting) = Waiting[1]
    BY <1>0
  <2> QED BY <1>0, <1>4, <2>1, PlusZero
<1>7. Waiting' = Tail(Waiting)
  <2>1. Tail(Waiting) = [i \in 1 .. Pending - 1 |-> Waiting[i + 1]]
    BY <1>0, TailAsFunction
  <2>2. ASSUME NEW i \in 1 .. Pending - 1
        PROVE  slots[Slot(Plus(Plus(tail, 1), i - 1))] = Waiting[i + 1]
    <3>1. Plus(Plus(tail, 1), i - 1) = Plus(tail, 1 + (i - 1))
      BY <1>0, PlusPlus
    <3>2. 1 + (i - 1) = (i + 1) - 1
      BY <1>0
    <3> QED BY <1>0, <1>4, <3>1, <3>2
  <2> QED BY <1>5, <2>1, <2>2
<1>8. Waiting # <<>>
  BY <1>0
<1> QED BY <1>1, <1>6, <1>7, <1>8 DEF Fifo!Pop

\* All other steps of the two threads leave the waiting events alone.
LEMMA QuietStep ==
  ASSUME QueueTypeOK, Arc,
         \/ \E e \in Event : PushAdmit(e)
         \/ PushRefuse
         \/ PushWrite
         \/ \E h \in Visible(cSeen, head) : PopAdmit(h) \/ PopRefuse(h)
         \/ PopPublish
         \/ UNCHANGED queueVars
  PROVE  Waiting' = Waiting /\ out' = out
<1> DEFINE Stutter == Waiting' = Waiting /\ out' = out
<1>s. ASSUME First' = First, head' = head, slots' = slots, out' = out
      PROVE  Stutter
  BY <1>s, SameWaiting
<1>1. ASSUME NEW e \in Event, PushAdmit(e) PROVE Stutter
  BY <1>1, <1>s DEF PushAdmit, consumerVars, First, Taken, Plus
<1>2. CASE PushRefuse
  BY <1>2, <1>s DEF PushRefuse, consumerVars, First, Taken, Plus
<1>3. CASE PushWrite
  <2>1. /\ pPc = "write" /\ slots' = [slots EXCEPT ![Slot(head)] = pEvent]
        /\ head' = head /\ First' = First /\ out' = out
    BY <1>3 DEF PushWrite, consumerVars, First, Taken, Plus
  <2>2. ASSUME NEW i \in 1 .. Pending
        PROVE  slots'[Slot(Plus(First, i - 1))] = slots[Slot(Plus(First, i - 1))]
    BY <2>1, HeadSlotNotWaiting DEF QueueTypeOK
  <2> QED BY <2>1, <2>2, SameWaiting
<1>4. ASSUME NEW h \in Visible(cSeen, head), PopAdmit(h) PROVE Stutter
  BY <1>4, <1>s DEF PopAdmit, producerVars, First, Taken, Plus
<1>5. ASSUME NEW h \in Visible(cSeen, head), PopRefuse(h) PROVE Stutter
  BY <1>5, <1>s DEF PopRefuse, producerVars, First, Taken, Plus
<1>6. CASE PopPublish
  <2>1. First' = First
    <3>1. First = Plus(tail, 1) /\ First' = Plus(Plus(tail, 1), 0)
      BY <1>6 DEF PopPublish, First, Taken, Plus
    <3>2. First \in Index
      BY WaitingFacts
    <3> QED BY <3>1, <3>2, PlusZero
  <2> QED BY <1>6, <2>1, <1>s DEF PopPublish, producerVars
<1>7. CASE UNCHANGED queueVars
  BY <1>7, <1>s DEF queueVars, producerVars, consumerVars, First, Taken, Plus
<1> QED BY <1>1, <1>2, <1>3, <1>4, <1>5, <1>6, <1>7

\* Every step is a step of the abstract queue, or changes nothing of it.
LEMMA FifoStep ==
  ASSUME QueueInv, [QueueNext]_queueVars
  PROVE  [Fifo!Next]_(Fifo!vars)
<1> USE DEF QueueInv
<1>1. CASE PushPublish
  BY <1>1, PublishIsPush DEF Fifo!Next
<1>2. CASE PopRead
  BY <1>2, ReadIsPop DEF Fifo!Next
<1>3. CASE Reset
  <2>1. Pending' = 0 /\ out' = out
    <3>1. 0 \in Index
      BY WordFacts DEF Index
    <3>2. Pending' = Distance(0, Plus(0, 0))
      BY <1>3 DEF Reset, Pending, First, Taken, Plus, Distance
    <3> QED BY <1>3, <3>1, <3>2, PlusZero, DistanceRange DEF Reset
  <2>2. Waiting' = <<>>
    <3>1. Waiting' = [i \in 1 .. Pending' |-> slots'[Slot(Plus(First', i - 1))]]
      BY DEF Waiting, First, Pending, Taken, Plus, Slot, Distance
    <3> QED BY <2>1, <3>1
  <2> QED BY <2>1, <2>2 DEF Fifo!Clear, Fifo!Next
<1>4. CASE \/ \E e \in Event : PushAdmit(e)
           \/ PushRefuse
           \/ PushWrite
           \/ \E h \in Visible(cSeen, head) : PopAdmit(h) \/ PopRefuse(h)
           \/ PopPublish
           \/ UNCHANGED queueVars
  BY <1>4, QuietStep DEF Fifo!vars
<1> QED BY <1>1, <1>2, <1>3, <1>4 DEF QueueNext

\* The queue is a bounded FIFO: no event is lost, duplicated, reordered,
\* accepted beyond capacity, or read before it is written.
THEOREM QueueRefinesFifo == QueueSpec => RefinesFifo
<1>1. QueueInit => Fifo!Init
  <2> SUFFICES ASSUME QueueInit PROVE Waiting = <<>>
    BY DEF Fifo!Init
  <2>1. 0 \in Index
    BY WordFacts DEF Index
  <2>2. Pending = 0
    BY <2>1, PlusZero, DistanceRange DEF QueueInit, Pending, First, Taken
  <2> QED BY <2>2 DEF Waiting, First, Pending
<1>2. QueueInv /\ [QueueNext]_queueVars => [Fifo!Next]_(Fifo!vars)
  BY FifoStep
<1> QED BY <1>1, <1>2, QueueInvariance, PTL DEF QueueSpec, RefinesFifo, Fifo!Spec

-----------------------------------------------------------------------------
(* The transport is a client of the queue.                                 *)

\* Every step of the transport is a step of the queue, or leaves it alone.
LEMMA FlowStepsQueue ==
  ASSUME detected \in Nat, [Next]_vars
  PROVE  [QueueNext]_queueVars
<1>1. Offer => QueueNext
  <2>1. detected < MaxEvents => detected + 1 \in Event
    BY FlowAssumption
  <2> QED BY <2>1 DEF Offer, QueueNext
<1>2. Refused \/ Write \/ Accept => QueueNext
  BY DEF Refused, Write, Accept, QueueNext
<1>3. (\E h \in Visible(cSeen, head) : Admit(h) \/ DrainShort(h)) => QueueNext
  BY DEF Admit, DrainShort, QueueNext
<1>4. Read \/ Copy => QueueNext
  BY DEF Read, Copy, QueueNext
<1>5. DrainFull \/ Emit \/ Sleep \/ Wake \/ Collect \/ Pin \/ PinFails \/ Receive \/ Cancel
        \/ CancelSeen \/ UNCHANGED vars => UNCHANGED queueVars
  BY DEF DrainFull, Emit, Sleep, Wake, Collect, Pin, PinFails, Receive, Cancel, CancelSeen, vars
<1> QED BY <1>1, <1>2, <1>3, <1>4, <1>5 DEF Next, DrainStep

-----------------------------------------------------------------------------
(* Sequences of events in the order of their numbers.                      *)

\* The elements of a concatenation are those of its parts, and it increases when
\* both parts do and those of the first are below those of the second.
LEMMA ConcatElements ==
  ASSUME NEW S, NEW s \in Seq(S), NEW t \in Seq(S)
  PROVE  Elements(s \o t) = Elements(s) \cup Elements(t)
<1>1. Elements(s \o t) = Range(s \o t) /\ Elements(s) = Range(s) /\ Elements(t) = Range(t)
  BY DEF Elements, Range
<1> QED BY <1>1, RangeConcatenation

\* (The parts of an increasing concatenation, one way.)
LEMMA ConcatOrdered ==
  ASSUME NEW S, NEW s \in Seq(S), NEW t \in Seq(S), Increasing(s \o t)
  PROVE  /\ Increasing(s) /\ Increasing(t)
         /\ \A x \in Elements(s), y \in Elements(t) : x < y
<1> DEFINE c == s \o t
<1>0. Len(s) \in Nat /\ Len(t) \in Nat /\ DOMAIN s = 1 .. Len(s) /\ DOMAIN t = 1 .. Len(t)
  OBVIOUS
<1>1. /\ DOMAIN c = 1 .. Len(s) + Len(t)
      /\ \A i \in 1 .. Len(s) : c[i] = s[i]
      /\ \A i \in 1 .. Len(t) : c[Len(s) + i] = t[i]
  OBVIOUS
<1>2. \A i, j \in DOMAIN c : i < j => c[i] < c[j]
  BY DEF Increasing
<1> HIDE DEF c
<1>3. ASSUME NEW i \in DOMAIN s, NEW j \in DOMAIN s, i < j PROVE s[i] < s[j]
  <2>1. i \in DOMAIN c /\ j \in DOMAIN c
    BY <1>0, <1>1
  <2> QED BY <1>0, <1>1, <1>2, <1>3, <2>1
<1>4. ASSUME NEW i \in DOMAIN t, NEW j \in DOMAIN t, i < j PROVE t[i] < t[j]
  <2>1. Len(s) + i \in DOMAIN c /\ Len(s) + j \in DOMAIN c /\ Len(s) + i < Len(s) + j
    BY <1>0, <1>1, <1>4
  <2> QED BY <1>0, <1>1, <1>2, <2>1
<1>5. ASSUME NEW i \in DOMAIN s, NEW j \in DOMAIN t PROVE s[i] < t[j]
  <2>1. i \in DOMAIN c /\ Len(s) + j \in DOMAIN c /\ i < Len(s) + j
    BY <1>0, <1>1
  <2> QED BY <1>0, <1>1, <1>2, <2>1
<1> QED BY <1>3, <1>4, <1>5 DEF Increasing, Elements

\* (And the other way.)
LEMMA OrderedConcat ==
  ASSUME NEW S, NEW s \in Seq(S), NEW t \in Seq(S), Increasing(s), Increasing(t),
         \A x \in Elements(s), y \in Elements(t) : x < y
  PROVE  Increasing(s \o t)
<1> DEFINE c == s \o t
<1>0. Len(s) \in Nat /\ Len(t) \in Nat /\ DOMAIN s = 1 .. Len(s) /\ DOMAIN t = 1 .. Len(t)
  OBVIOUS
<1>1. /\ DOMAIN c = 1 .. Len(s) + Len(t)
      /\ \A i \in 1 .. Len(s) : c[i] = s[i]
      /\ \A i \in 1 .. Len(t) : c[Len(s) + i] = t[i]
  OBVIOUS
<1> HIDE DEF c
<1>2. ASSUME NEW i \in DOMAIN c, NEW j \in DOMAIN c, i < j PROVE c[i] < c[j]
  <2>1. CASE j <= Len(s)
    <3>1. i \in DOMAIN s /\ j \in DOMAIN s
      BY <1>0, <1>1, <1>2, <2>1
    <3> QED BY <1>0, <1>1, <1>2, <3>1 DEF Increasing
  <2>2. CASE i <= Len(s) /\ j > Len(s)
    <3>1. i \in DOMAIN s /\ j - Len(s) \in DOMAIN t /\ Len(s) + (j - Len(s)) = j
      BY <1>0, <1>1, <2>2
    <3>2. c[i] = s[i] /\ c[Len(s) + (j - Len(s))] = t[j - Len(s)]
      BY <1>0, <1>1, <3>1
    <3> QED BY <3>1, <3>2 DEF Elements
  <2>3. CASE i > Len(s)
    <3>1. /\ i - Len(s) \in DOMAIN t /\ Len(s) + (i - Len(s)) = i
          /\ j - Len(s) \in DOMAIN t /\ Len(s) + (j - Len(s)) = j
          /\ i - Len(s) < j - Len(s)
      BY <1>0, <1>1, <1>2, <2>3
    <3>2. /\ c[Len(s) + (i - Len(s))] = t[i - Len(s)]
          /\ c[Len(s) + (j - Len(s))] = t[j - Len(s)]
      BY <1>0, <1>1, <3>1
    <3> QED BY <3>1, <3>2 DEF Increasing
  <2> QED BY <1>0, <1>1, <2>1, <2>2, <2>3
<1> QED BY <1>2 DEF Increasing, c

\* The first element of a sequence may as well be the last of the one before it.
LEMMA MoveHead ==
  ASSUME NEW S, NEW s \in Seq(S), NEW t \in Seq(S), t # <<>>
  PROVE  /\ Append(s, Head(t)) \in Seq(S) /\ Tail(t) \in Seq(S) /\ Head(t) \in S
         /\ Append(s, Head(t)) \o Tail(t) = s \o t
<1>1. Head(t) \in S /\ Tail(t) \in Seq(S) /\ Head(t) = t[1]
  BY HeadTailProperties
<1>2. t = <<Head(t)>> \o Tail(t)
  <2>1. Len(t) \in Nat \ {0}
    BY EmptySeq
  <2>2. 1 \in 1 .. Len(t) /\ Len(t) \in 1 .. Len(t)
    BY <2>1
  <2>3. SubSeq(t, 1, Len(t)) = <<t[1]>> \o SubSeq(t, 1 + 1, Len(t))
    BY <2>2, SubSeqRecursiveFirst
  <2>4. SubSeq(t, 1, Len(t)) = t
    BY SubSeqFull
  <2>5. SubSeq(t, 2, Len(t)) = Tail(t)
    BY TailIsSubSeq
  <2> QED BY <1>1, <2>3, <2>4, <2>5
<1>3. Append(s, Head(t)) = s \o <<Head(t)>> /\ Append(s, Head(t)) \in Seq(S)
  BY <1>1, AppendIsConcat, AppendProperties
<1>4. <<Head(t)>> \in Seq(S)
  BY <1>1
<1>5. (s \o <<Head(t)>>) \o Tail(t) = s \o (<<Head(t)>> \o Tail(t))
  BY <1>1, <1>4, ConcatAssociative
<1> QED BY <1>1, <1>2, <1>3, <1>5

\* What is appended to the second part is appended to the whole.
LEMMA AppendToWhole ==
  ASSUME NEW S, NEW s \in Seq(S), NEW t \in Seq(S), NEW e \in S
  PROVE  s \o Append(t, e) = Append(s \o t, e)
<1> DEFINE c == s \o t
           l == <<e>>
<1>1. l \in Seq(S) /\ c \in Seq(S)
  OBVIOUS
<1> HIDE DEF c
<1>2. Append(t, e) = t \o l
  BY AppendIsConcat
<1>3. Append(c, e) = c \o l
  BY <1>1, AppendIsConcat
<1> HIDE DEF l
<1>4. (s \o t) \o l = s \o (t \o l)
  BY <1>1, ConcatAssociative
<1> QED BY <1>2, <1>3, <1>4 DEF c

\* The elements of a sequence when another is appended.
LEMMA AppendElements ==
  ASSUME NEW S, NEW s \in Seq(S), NEW e \in S
  PROVE  Elements(Append(s, e)) = Elements(s) \cup {e}
<1> DEFINE l == <<e>>
<1>1. DOMAIN l = {1} /\ l[1] = e /\ l \in Seq(S)
  <2>1. l \in Seq(S) /\ Len(l) = 1 /\ l[1] = e
    OBVIOUS
  <2> QED BY <2>1, LenProperties
<1>2. Append(s, e) = s \o l
  BY AppendIsConcat
<1> HIDE DEF l
<1>3. Elements(l) = {e}
  BY <1>1 DEF Elements
<1> QED BY <1>1, <1>2, <1>3, ConcatElements

\* The order of a sequence is kept when a larger element is appended.
LEMMA AppendLarger ==
  ASSUME NEW S, NEW s \in Seq(S), NEW e \in S, Increasing(s),
         \A x \in Elements(s) : x < e
  PROVE  Increasing(Append(s, e))
<1> DEFINE l == <<e>>
<1>1. DOMAIN l = {1} /\ l[1] = e /\ l \in Seq(S)
  <2>1. l \in Seq(S) /\ Len(l) = 1 /\ l[1] = e
    OBVIOUS
  <2> QED BY <2>1, LenProperties
<1>2. Append(s, e) = s \o l
  BY AppendIsConcat
<1> HIDE DEF l
<1>3. Elements(l) = {e}
  BY <1>1 DEF Elements
<1>4. Increasing(l)
  <2>1. \A i \in DOMAIN l : i = 1
    BY <1>1
  <2> QED BY <2>1 DEF Increasing
<1>5. \A x \in Elements(s), y \in Elements(l) : x < y
  BY <1>3
<1> QED BY <1>1, <1>2, <1>4, <1>5, OrderedConcat

\* A part that is cut out of an increasing sequence takes exactly its own elements
\* with it.
LEMMA CutOut ==
  ASSUME NEW S, S \subseteq Int, NEW s \in Seq(S), NEW t \in Seq(S), NEW u \in Seq(S),
         Increasing((s \o t) \o u)
  PROVE  /\ Increasing(s \o u)
         /\ Elements(s \o u) = Elements((s \o t) \o u) \ Elements(t)
         /\ Elements(t) \subseteq Elements((s \o t) \o u)
<1>1. s \o t \in Seq(S)
  BY ConcatProperties
<1>2. /\ Increasing(s \o t) /\ Increasing(u)
      /\ \A x \in Elements(s \o t), y \in Elements(u) : x < y
  BY <1>1, ConcatOrdered
<1>3. /\ Increasing(s)
      /\ \A x \in Elements(s), y \in Elements(t) : x < y
  BY <1>2, ConcatOrdered
<1>4. /\ Elements(s \o t) = Elements(s) \cup Elements(t)
      /\ Elements((s \o t) \o u) = (Elements(s) \cup Elements(t)) \cup Elements(u)
      /\ Elements(s \o u) = Elements(s) \cup Elements(u)
  <2>1. Elements(s \o t) = Elements(s) \cup Elements(t)
    BY ConcatElements
  <2>2. Elements(s \o u) = Elements(s) \cup Elements(u)
    BY ConcatElements
  <2> DEFINE c == s \o t
  <2> HIDE DEF c
  <2>3. Elements(c \o u) = Elements(c) \cup Elements(u)
    BY <1>1, ConcatElements DEF c
  <2> QED BY <2>1, <2>2, <2>3 DEF c
<1>5. Increasing(s \o u)
  BY <1>2, <1>3, <1>4, OrderedConcat
<1>6. \A y \in Elements(t) : y \in Int
  <2>1. \A i \in DOMAIN t : t[i] \in S
    BY ElementOfSeq, LenProperties
  <2> QED BY <2>1 DEF Elements
<1>7. \A x \in Elements(t) : x \notin Elements(s) /\ x \notin Elements(u)
  <2> SUFFICES ASSUME NEW x \in Elements(t) PROVE x \notin Elements(s) /\ x \notin Elements(u)
    OBVIOUS
  <2>1. x \in Int /\ ~ x < x
    BY <1>6
  <2> QED BY <1>2, <1>3, <1>4, <2>1
<1> QED BY <1>4, <1>5, <1>7

-----------------------------------------------------------------------------
(* The inductive invariant of the transport.                               *)

FlowTypes ==
  /\ detected \in 0 .. MaxEvents
  /\ accepted \in Seq(Event)
  /\ fPc \in {"off", "pin", "drain", "emit", "delay"}
  /\ batch \in Seq(Event) /\ Len(batch) <= Batch
  /\ result \in Seq(Event)
  /\ channel \in Seq(Event) /\ Len(channel) <= ChannelCap
  /\ collecting \in BOOLEAN
  /\ received \in Seq(Event)

\* The push in progress is that of the next event, the pop in progress has room in
\* the batch, and no event is accepted before the detector offers it.
Turns ==
  /\ pPc # "idle" => detected < MaxEvents /\ pEvent = detected + 1
  /\ cPc # "idle" => fPc = "drain" /\ Len(batch) < Batch
  /\ \A e \in Elements(accepted) : e <= detected

\* What the queue and the pop in progress hold are events.
QueueHoldsEvents == Held \in Seq(Event) /\ Waiting \in Seq(Event)

FlowInv == QueueInv /\ FlowTypes /\ Turns /\ QueueHoldsEvents /\ Conservation

\* The bounds as numbers.
LEMMA FlowBounds ==
  /\ MaxEvents \in Nat /\ Event = 1 .. MaxEvents /\ Batch \in Nat /\ Batch >= 1
  /\ ChannelCap \in Nat /\ Event \subseteq Int
BY FlowAssumption

\* A sequence of events has events for elements, which are numbers.
LEMMA ElementsAreEvents ==
  ASSUME NEW s \in Seq(Event)
  PROVE  Elements(s) \subseteq Event /\ \A e \in Elements(s) : e \in Int
<1>1. \A i \in DOMAIN s : s[i] \in Event
  BY ElementOfSeq, LenProperties
<1>2. Elements(s) \subseteq Event
  BY <1>1 DEF Elements
<1> QED BY <1>2, FlowBounds

\* An event that was copied out of its slot is an event.
LEMMA OutIsEvent == QueueHoldsEvents /\ cPc = "publish" => out \in Event
<1> SUFFICES ASSUME QueueHoldsEvents, cPc = "publish" PROVE out \in Event
  OBVIOUS
<1>1. Held = <<out>>
  BY DEF Held
<1>2. <<out>> \in Seq(Event)
  BY <1>1 DEF QueueHoldsEvents
<1> QED BY <1>2

\* The queue's own invariant survives every step of the transport.
LEMMA FlowQueueStep ==
  ASSUME QueueInv, detected \in Nat, [Next]_vars
  PROVE  QueueInv'
<1>1. [QueueNext]_queueVars
  BY FlowStepsQueue
<1> QED BY <1>1, TypeStep, ArcStep, StoredStep DEF QueueInv

\* The types of what the transport adds, and whose turn it is.
LEMMA FlowTypesStep ==
  ASSUME QueueInv, FlowTypes, Turns, QueueHoldsEvents, [Next]_vars
  PROVE  FlowTypes' /\ Turns'
<1> DEFINE Good == FlowTypes' /\ Turns'
<1> USE DEF FlowTypes
<1>1. CASE Offer
  BY FlowBounds, <1>1 DEF Offer, PushAdmit, consumerVars, flowVars, Turns
<1>2. CASE Refused
  <2>1. FlowTypes'
    BY FlowBounds, <1>2 DEF Refused, flowVars
  <2>2. detected' >= detected
    BY <1>2 DEF Refused
  <2>3. pPc' = "idle" /\ cPc' = cPc /\ fPc' = fPc /\ batch' = batch /\ accepted' = accepted
    BY <1>2 DEF Refused, PushRefuse, consumerVars, flowVars
  <2>4. \A e \in Elements(accepted) : e \in Int
    BY ElementsAreEvents
  <2> QED BY <2>1, <2>2, <2>3, <2>4 DEF Turns
<1>3. CASE Write
  BY <1>3 DEF Write, PushWrite, consumerVars, flowVars, Turns
<1>4. CASE Accept
  <2>1. /\ detected < MaxEvents /\ pEvent = detected + 1 /\ pEvent \in Event
    BY FlowBounds, <1>4 DEF Accept, PushPublish, Turns
  <2>2. /\ accepted' = Append(accepted, pEvent) /\ detected' = detected + 1
        /\ pPc' = "idle" /\ cPc' = cPc /\ UNCHANGED flowVars
    BY <1>4 DEF Accept, PushPublish, consumerVars
  <2>3. FlowTypes'
    BY FlowBounds, <2>1, <2>2 DEF flowVars
  <2>4. Elements(accepted') = Elements(accepted) \cup {pEvent}
    <3>1. Elements(Append(accepted, pEvent)) = Elements(accepted) \cup {pEvent}
      BY <2>1, AppendElements
    <3> QED BY <2>2, <3>1
  <2>5. \A e \in Elements(accepted) : e \in Int /\ e <= detected
    BY ElementsAreEvents DEF Turns
  <2>6. \A e \in Elements(accepted') : e <= detected'
    <3>1. detected \in Nat /\ pEvent = detected'
      BY <2>1, <2>2, FlowBounds
    <3> QED BY <2>2, <2>4, <2>5, <3>1
  <2> QED BY <2>2, <2>3, <2>6 DEF Turns, flowVars
<1>5. ASSUME NEW h \in Visible(cSeen, head), Admit(h) PROVE Good
  BY <1>5 DEF Admit, PopAdmit, producerVars, flowVars, Turns
<1>6. ASSUME NEW h \in Visible(cSeen, head), DrainShort(h) PROVE Good
  <2>1. result' \in Seq(Event) /\ batch' = <<>> /\ fPc' = "emit"
    BY <1>6, ConcatProperties DEF DrainShort
  <2>2. Len(<<>>) = 0 /\ <<>> \in Seq(Event)
    BY EmptySeq
  <2>3. FlowTypes'
    BY <1>6, <2>1, <2>2, FlowBounds DEF DrainShort
  <2> QED BY <1>6, <2>3 DEF DrainShort, PopRefuse, producerVars, Turns
<1>7. CASE Read
  BY <1>7 DEF Read, PopRead, producerVars, flowVars, Turns
<1>8. CASE Copy
  <2>1. out \in Event
    BY <1>8, OutIsEvent DEF Copy, PopPublish
  <2>2. batch' \in Seq(Event) /\ Len(batch') = Len(batch) + 1
    BY <1>8, <2>1, AppendProperties DEF Copy
  <2>3. Len(batch) < Batch /\ Len(batch) \in Nat
    BY <1>8 DEF Copy, PopPublish, Turns
  <2>4. Len(batch') <= Batch
    BY <2>2, <2>3, FlowBounds
  <2> QED BY <1>8, <2>2, <2>4 DEF Copy, PopPublish, producerVars, Turns
<1>9. CASE DrainFull
  BY FlowBounds, <1>9 DEF DrainFull, queueVars, producerVars, consumerVars, Turns
<1>10. CASE Emit
  BY FlowBounds, <1>10 DEF Emit, queueVars, producerVars, consumerVars, Turns
<1>11. CASE Sleep \/ Wake \/ Collect \/ Pin \/ PinFails
  BY <1>11 DEF Sleep, Wake, Collect, Pin, PinFails, queueVars, producerVars, consumerVars, Turns
<1>12. CASE Receive
  BY FlowBounds, <1>12 DEF Receive, queueVars, producerVars, consumerVars, Turns
<1>13. CASE Cancel \/ CancelSeen
  <2>1. <<>> \in Seq(Event) /\ Len(<<>>) = 0
    BY EmptySeq
  <2>2. CASE Cancel
    <3>1. FlowTypes'
      <4>1. /\ channel' = <<>> /\ collecting' = FALSE
            /\ UNCHANGED <<detected, accepted, fPc, batch, result, received>>
        BY <2>2 DEF Cancel
      <4>2. channel' \in Seq(Event) /\ Len(channel') <= ChannelCap
        BY <2>1, <4>1, FlowBounds
      <4> QED BY <4>1, <4>2
    <3>2. /\ pPc' = pPc /\ pEvent' = pEvent /\ cPc' = cPc /\ fPc' = fPc
          /\ batch' = batch /\ accepted' = accepted /\ detected' = detected
      BY <2>2 DEF Cancel, queueVars, producerVars, consumerVars
    <3> QED BY <3>1, <3>2 DEF Turns
  <2>3. CASE CancelSeen
    <3>1. cPc = "idle"
      BY <2>3 DEF CancelSeen, Turns
    <3> QED BY <2>1, <2>3, <3>1 DEF CancelSeen, queueVars, producerVars, consumerVars, Turns
  <2> QED BY <1>13, <2>2, <2>3
<1>14. CASE UNCHANGED vars
  BY <1>14 DEF vars, flowVars, queueVars, producerVars, consumerVars, Turns
<1> QED
  BY <1>1, <1>2, <1>3, <1>4, <1>5, <1>6, <1>7, <1>8, <1>9, <1>10, <1>11, <1>12, <1>13, <1>14
     DEF Next, DrainStep

-----------------------------------------------------------------------------
(* No event leaves the row of places between push() and the collector.      *)

\* The row as a whole is a sequence of events, and so are its beginnings.
LEMMA Row ==
  ASSUME FlowTypes, QueueHoldsEvents
  PROVE  /\ received \o channel \in Seq(Event)
         /\ (received \o channel) \o result \in Seq(Event)
         /\ ((received \o channel) \o result) \o batch \in Seq(Event)
         /\ (((received \o channel) \o result) \o batch) \o Held \in Seq(Event)
         /\ InFlight \in Seq(Event)
<1> DEFINE a == received \o channel
           b == a \o result
           c == b \o batch
           d == c \o Held
<1>1. /\ received \in Seq(Event) /\ channel \in Seq(Event) /\ result \in Seq(Event)
      /\ batch \in Seq(Event) /\ Held \in Seq(Event) /\ Waiting \in Seq(Event)
  BY DEF FlowTypes, QueueHoldsEvents
<1>2. a \in Seq(Event)
  BY <1>1, ConcatProperties
<1> HIDE DEF a
<1>3. b \in Seq(Event)
  BY <1>1, <1>2, ConcatProperties
<1> HIDE DEF b
<1>4. c \in Seq(Event)
  BY <1>1, <1>3, ConcatProperties
<1> HIDE DEF c
<1>5. d \in Seq(Event)
  BY <1>1, <1>4, ConcatProperties
<1> HIDE DEF d
<1>6. d \o Waiting \in Seq(Event)
  BY <1>1, <1>5, ConcatProperties
<1> QED BY <1>2, <1>3, <1>4, <1>5, <1>6 DEF a, b, c, d, InFlight

\* A step that keeps the row, what was accepted and what was lost.
LEMMA SameRow ==
  ASSUME Conservation, InFlight' = InFlight, accepted' = accepted, lost' = lost
  PROVE  Conservation'
BY DEF Conservation, Increasing, Elements

\* The events that the queue and the pop in progress hold when the producer is
\* not at its store, and the consumer not at its read or its store.
LEMMA QuietRow ==
  ASSUME QueueInv, QueueHoldsEvents,
         \/ \E e \in Event : PushAdmit(e)
         \/ PushRefuse
         \/ PushWrite
         \/ \E h \in Visible(cSeen, head) : PopAdmit(h) \/ PopRefuse(h)
         \/ UNCHANGED queueVars
  PROVE  Held' = Held /\ Waiting' = Waiting /\ QueueHoldsEvents'
<1>1. Waiting' = Waiting /\ out' = out
  BY QuietStep DEF QueueInv
<1>2. cPc' = "publish" <=> cPc = "publish"
  BY DEF PushAdmit, PushRefuse, PushWrite, PopAdmit, PopRefuse, consumerVars, queueVars
<1>3. Held' = Held
  BY <1>1, <1>2 DEF Held
<1> QED BY <1>1, <1>3 DEF QueueHoldsEvents

\* Steps of the two native threads that only get closer to a store.
LEMMA QuietFlight ==
  ASSUME FlowInv,
         \/ Offer \/ Refused \/ Write
         \/ \E h \in Visible(cSeen, head) : Admit(h)
         \/ Sleep \/ Wake \/ Collect \/ Pin \/ PinFails
         \/ UNCHANGED vars
  PROVE  QueueHoldsEvents' /\ Conservation'
<1>1. \/ \E e \in Event : PushAdmit(e)
      \/ PushRefuse
      \/ PushWrite
      \/ \E h \in Visible(cSeen, head) : PopAdmit(h) \/ PopRefuse(h)
      \/ UNCHANGED queueVars
  <2>1. Offer => \E e \in Event : PushAdmit(e)
    <3>1. Offer => detected + 1 \in Event
      BY FlowBounds DEF Offer, FlowInv, FlowTypes
    <3> QED BY <3>1 DEF Offer
  <2> QED
    BY <2>1 DEF Refused, Write, Admit, Sleep, Wake, Collect, Pin, PinFails, vars
<1>2. Held' = Held /\ Waiting' = Waiting /\ QueueHoldsEvents'
  BY <1>1, QuietRow DEF FlowInv
<1>3. UNCHANGED <<received, channel, result, batch, accepted, lost>>
  BY DEF Offer, Refused, Write, Admit, Sleep, Wake, Collect, Pin, PinFails, vars, flowVars
<1>4. InFlight' = InFlight
  BY <1>2, <1>3 DEF InFlight
<1> QED BY <1>2, <1>3, <1>4, SameRow DEF FlowInv

\* The store of head_ puts the next event at the end of the row.
LEMMA AcceptFlight ==
  ASSUME FlowInv, Accept
  PROVE  QueueHoldsEvents' /\ Conservation'
<1> USE DEF FlowInv
<1>1. /\ Waiting' = Append(Waiting, pEvent) /\ out' = out /\ pEvent \in Event
  BY PublishIsPush DEF Accept, QueueInv, Fifo!Push
<1>2. /\ UNCHANGED <<received, channel, result, batch, lost, cPc>>
      /\ accepted' = Append(accepted, pEvent) /\ pEvent = detected + 1
  BY DEF Accept, PushPublish, consumerVars, flowVars, Turns
<1>3. Held' = Held
  BY <1>1, <1>2 DEF Held
<1>4. Held \in Seq(Event) /\ Waiting \in Seq(Event) /\ Waiting' \in Seq(Event)
  BY <1>1, AppendProperties DEF QueueHoldsEvents
<1> DEFINE front == (((received \o channel) \o result) \o batch) \o Held
<1>5. front \in Seq(Event) /\ InFlight \in Seq(Event) /\ InFlight = front \o Waiting
  BY Row DEF InFlight
<1>6. InFlight' = front \o Append(Waiting, pEvent)
  BY <1>1, <1>2, <1>3 DEF InFlight
<1> HIDE DEF front
<1>7. InFlight' = Append(InFlight, pEvent)
  BY <1>1, <1>4, <1>5, <1>6, AppendToWhole
<1>8. \A e \in Elements(accepted) : e < pEvent
  <2>1. \A e \in Elements(accepted) : e \in Int /\ e <= detected
    BY ElementsAreEvents DEF FlowTypes, Turns
  <2>2. detected \in Int
    BY FlowBounds DEF FlowTypes
  <2> QED BY <1>2, <2>1, <2>2
<1>9. \A e \in Elements(InFlight) : e < pEvent
  BY <1>8 DEF Conservation
<1>10. Increasing(accepted') /\ Elements(accepted') = Elements(accepted) \cup {pEvent}
  <2>1. accepted \in Seq(Event) /\ Increasing(accepted)
    BY DEF FlowTypes, Conservation
  <2>2. /\ Increasing(Append(accepted, pEvent))
        /\ Elements(Append(accepted, pEvent)) = Elements(accepted) \cup {pEvent}
    BY <1>1, <1>8, <2>1, AppendLarger, AppendElements
  <2> QED BY <1>2, <2>2
<1>11. Increasing(InFlight') /\ Elements(InFlight') = Elements(InFlight) \cup {pEvent}
  <2>1. Increasing(InFlight)
    BY DEF Conservation
  <2>2. InFlight \in Seq(Event) /\ pEvent \in Event
    BY <1>1, <1>5
  <2>3. Elements(Append(InFlight, pEvent)) = Elements(InFlight) \cup {pEvent}
    BY <2>2, AppendElements
  <2>4. Increasing(Append(InFlight, pEvent))
    BY <1>9, <2>1, <2>2, AppendLarger
  <2> QED BY <1>7, <2>3, <2>4
<1>12. pEvent \notin Elements(accepted)
  <2>1. ~ pEvent < pEvent
    BY <1>2, FlowBounds DEF FlowTypes
  <2> QED BY <1>8, <2>1
<1>13. /\ Elements(InFlight') = Elements(accepted') \ lost'
       /\ lost' \subseteq Elements(accepted')
  BY <1>2, <1>10, <1>11, <1>12 DEF Conservation
<1> QED BY <1>3, <1>4, <1>10, <1>11, <1>13 DEF Conservation, QueueHoldsEvents, Increasing, Elements

\* The read of a slot moves its event from the queue into the pop in progress.
LEMMA ReadFlight ==
  ASSUME FlowInv, Read
  PROVE  QueueHoldsEvents' /\ Conservation'
<1> USE DEF FlowInv
<1>1. Waiting # <<>> /\ Waiting' = Tail(Waiting) /\ out' = Head(Waiting)
  BY ReadIsPop DEF Read, QueueInv, Fifo!Pop
<1>2. /\ UNCHANGED <<received, channel, result, batch, accepted, lost>>
      /\ cPc = "read" /\ cPc' = "publish"
  BY DEF Read, PopRead, flowVars
<1>3. Held = <<>> /\ Held' = <<out'>>
  BY <1>2 DEF Held
<1> DEFINE front == ((received \o channel) \o result) \o batch
           h == Head(Waiting)
           l == <<h>>
           w == Tail(Waiting)
<1>4. front \in Seq(Event) /\ Waiting \in Seq(Event)
  BY Row DEF QueueHoldsEvents
<1>5. InFlight = (front \o Held) \o Waiting /\ InFlight' = (front \o l) \o w
  BY <1>1, <1>2, <1>3 DEF InFlight
<1> HIDE DEF front
<1>6. h \in Event /\ w \in Seq(Event) /\ Append(front, h) \o w = front \o Waiting
  BY <1>1, <1>4, MoveHead
<1>7. l \in Seq(Event) /\ Append(front, h) = front \o l
  <2> HIDE DEF h
  <2> QED BY <1>4, <1>6, AppendIsConcat
<1>8. front \o Held = front
  BY <1>3, <1>4, ConcatEmptySeq
<1>9. InFlight' = InFlight
  BY <1>5, <1>6, <1>7, <1>8
<1>10. QueueHoldsEvents'
  BY <1>1, <1>3, <1>6, <1>7 DEF QueueHoldsEvents
<1> QED BY <1>2, <1>9, <1>10, SameRow

\* The copy into the batch, after the store of tail_.
LEMMA CopyFlight ==
  ASSUME FlowInv, Copy
  PROVE  QueueHoldsEvents' /\ Conservation'
<1> USE DEF FlowInv
<1>1. Waiting' = Waiting
  BY QuietStep DEF Copy, QueueInv
<1>2. /\ UNCHANGED <<received, channel, result, accepted, lost>>
      /\ batch' = Append(batch, out)
      /\ cPc = "publish" /\ cPc' = "idle"
  BY DEF Copy, PopPublish
<1>3. Held = <<out>> /\ Held' = <<>>
  BY <1>2 DEF Held
<1> DEFINE front == (received \o channel) \o result
           b == Append(batch, out)
           fb == front \o batch
<1>4. /\ front \in Seq(Event) /\ fb \in Seq(Event) /\ batch \in Seq(Event) /\ out \in Event
  BY <1>2, Row, OutIsEvent DEF FlowTypes
<1>5. InFlight = (fb \o <<out>>) \o Waiting /\ InFlight' = ((front \o b) \o <<>>) \o Waiting
  BY <1>1, <1>2, <1>3 DEF InFlight
<1> HIDE DEF front
<1>6. front \o b = Append(fb, out)
  BY <1>4, AppendToWhole
<1> HIDE DEF b, fb
<1>7. Append(fb, out) = fb \o <<out>> /\ Append(fb, out) \in Seq(Event)
  BY <1>4, AppendIsConcat, AppendProperties
<1>8. (front \o b) \o <<>> = front \o b
  BY <1>6, <1>7, ConcatEmptySeq
<1>9. InFlight' = InFlight
  BY <1>5, <1>6, <1>7, <1>8
<1>10. QueueHoldsEvents'
  BY <1>1, <1>3 DEF QueueHoldsEvents
<1> QED BY <1>2, <1>9, <1>10, SameRow

\* A batch goes to the end of the list that drainFromJni is building.
LEMMA DrainFlight ==
  ASSUME FlowInv, DrainFull \/ \E h \in Visible(cSeen, head) : DrainShort(h)
  PROVE  QueueHoldsEvents' /\ Conservation'
<1> USE DEF FlowInv
<1>1. (\E h \in Visible(cSeen, head) : PopRefuse(h)) \/ UNCHANGED queueVars
  BY DEF DrainFull, DrainShort
<1>2. Held' = Held /\ Waiting' = Waiting /\ QueueHoldsEvents'
  BY <1>1, QuietRow
<1>3. /\ UNCHANGED <<received, channel, accepted, lost>>
      /\ result' = result \o batch /\ batch' = <<>>
  BY DEF DrainFull, DrainShort
<1> DEFINE front == received \o channel
           rb == result \o batch
<1>4. /\ front \in Seq(Event) /\ result \in Seq(Event) /\ batch \in Seq(Event)
      /\ rb \in Seq(Event)
  BY Row, ConcatProperties DEF FlowTypes
<1>5. /\ InFlight = (((front \o result) \o batch) \o Held) \o Waiting
      /\ InFlight' = (((front \o rb) \o <<>>) \o Held) \o Waiting
  BY <1>2, <1>3 DEF InFlight
<1> HIDE DEF front
<1>6. (front \o result) \o batch = front \o rb
  BY <1>4, ConcatAssociative
<1> HIDE DEF rb
<1>7. (front \o rb) \o <<>> = front \o rb
  <2>1. front \o rb \in Seq(Event)
    BY <1>4, ConcatProperties
  <2> DEFINE x == front \o rb
  <2> HIDE DEF x
  <2>2. x \o <<>> = x
    BY <2>1, ConcatEmptySeq DEF x
  <2> QED BY <2>2 DEF x
<1>8. InFlight' = InFlight
  BY <1>5, <1>6, <1>7
<1> QED BY <1>2, <1>3, <1>8, SameRow

\* An event is emitted to the channel, or received from it.
LEMMA EmitFlight ==
  ASSUME FlowInv, Emit \/ Receive
  PROVE  QueueHoldsEvents' /\ Conservation'
<1> USE DEF FlowInv
<1>1. Held' = Held /\ Waiting' = Waiting /\ QueueHoldsEvents'
  BY QuietRow DEF Emit, Receive
<1>2. UNCHANGED <<batch, accepted, lost>>
  BY DEF Emit, Receive
<1>3. /\ received \in Seq(Event) /\ channel \in Seq(Event) /\ result \in Seq(Event)
  BY DEF FlowTypes
<1>4. (received' \o channel') \o result' = (received \o channel) \o result
  <2>1. CASE Emit
    <3> DEFINE h == Head(result)
               t == Tail(result)
               c == Append(channel, h)
               rc == received \o channel
    <3>1. /\ result # <<>> /\ received' = received /\ channel' = c /\ result' = t
      BY <2>1 DEF Emit
    <3>2. rc \in Seq(Event)
      BY <1>3, ConcatProperties
    <3>3. h \in Event
      BY <1>3, <3>1, MoveHead
    <3>4. received \o c = Append(rc, h)
      <4> HIDE DEF h
      <4> QED BY <1>3, <3>3, AppendToWhole
    <3> HIDE DEF rc
    <3>5. Append(rc, h) \o t = rc \o result
      BY <1>3, <3>1, <3>2, MoveHead
    <3> QED BY <3>1, <3>4, <3>5 DEF rc
  <2>2. CASE Receive
    <3>1. /\ channel # <<>> /\ received' = Append(received, Head(channel))
          /\ channel' = Tail(channel) /\ result' = result
      BY <2>2 DEF Receive
    <3>2. Append(received, Head(channel)) \o Tail(channel) = received \o channel
      BY <1>3, <3>1, MoveHead
    <3> QED BY <3>1, <3>2
  <2> QED BY <2>1, <2>2
<1>5. InFlight' = InFlight
  BY <1>1, <1>2, <1>4 DEF InFlight
<1> QED BY <1>1, <1>2, <1>5, SameRow

\* What a cancellation throws away is cut out of the row, and accounted for.
LEMMA CutFlight ==
  ASSUME FlowInv, NEW s \in Seq(Event), NEW t \in Seq(Event), NEW u \in Seq(Event),
         InFlight = (s \o t) \o u, InFlight' = s \o u,
         accepted' = accepted, lost' = lost \cup Elements(t)
  PROVE  Conservation'
<1> USE DEF FlowInv
<1>1. /\ Increasing(accepted) /\ Increasing(InFlight)
      /\ Elements(InFlight) = Elements(accepted) \ lost
      /\ lost \subseteq Elements(accepted)
  BY DEF Conservation
<1>2. /\ Increasing(s \o u)
      /\ Elements(s \o u) = Elements(InFlight) \ Elements(t)
      /\ Elements(t) \subseteq Elements(InFlight)
  <2>1. Increasing((s \o t) \o u) /\ Event \subseteq Int
    BY <1>1, FlowBounds
  <2>2. /\ Increasing(s \o u)
        /\ Elements(s \o u) = Elements((s \o t) \o u) \ Elements(t)
        /\ Elements(t) \subseteq Elements((s \o t) \o u)
    BY <2>1, CutOut
  <2> QED BY <2>2
<1>3. /\ Increasing(InFlight') /\ Elements(InFlight') = Elements(accepted) \ lost'
      /\ lost' \subseteq Elements(accepted)
  BY <1>1, <1>2
<1> QED BY <1>1, <1>3 DEF Conservation, Increasing, Elements

\* The collector goes, or the flow notices that it went.
LEMMA CancelFlight ==
  ASSUME FlowInv, Cancel \/ CancelSeen
  PROVE  QueueHoldsEvents' /\ Conservation'
<1> USE DEF FlowInv
<1>1. Held' = Held /\ Waiting' = Waiting /\ QueueHoldsEvents'
  BY QuietRow DEF Cancel, CancelSeen
<1>2. /\ received \in Seq(Event) /\ channel \in Seq(Event) /\ result \in Seq(Event)
      /\ batch \in Seq(Event) /\ Held \in Seq(Event) /\ Waiting \in Seq(Event)
  BY DEF FlowTypes, QueueHoldsEvents
<1>3. CASE Cancel
  <2>1. /\ UNCHANGED <<received, result, batch, accepted>>
        /\ channel' = <<>> /\ lost' = lost \cup Elements(channel)
    BY <1>3 DEF Cancel
  <2> DEFINE rb == result \o batch
             rest == (rb \o Held) \o Waiting
             a == received \o channel
  <2>2. rb \in Seq(Event) /\ a \in Seq(Event)
    BY <1>2, ConcatProperties
  <2>3. InFlight = ((((a \o result) \o batch) \o Held) \o Waiting)
        /\ InFlight' = (((((received \o <<>>) \o result) \o batch) \o Held) \o Waiting)
    BY <1>1, <2>1 DEF InFlight
  <2>4. received \o <<>> = received
    BY <1>2, ConcatEmptySeq
  <2> HIDE DEF a
  <2>5. ASSUME NEW s \in Seq(Event) PROVE (s \o result) \o batch = s \o rb
    <3> HIDE DEF FlowInv
    <3>1. result \in Seq(Event) /\ batch \in Seq(Event)
      BY <1>2
    <3> QED BY <2>5, <3>1, ConcatAssociative
  <2>6. /\ (received \o result) \o batch = received \o rb
        /\ (a \o result) \o batch = a \o rb
    BY <1>2, <2>2, <2>5
  <2> HIDE DEF rb
  <2>7. /\ rest \in Seq(Event)
        /\ ((received \o rb) \o Held) \o Waiting = received \o rest
    <3> DEFINE mid == rb \o Held
    <3>1. received \in Seq(Event) /\ rb \in Seq(Event)
      BY <1>2, <2>2
    <3>2. Held \in Seq(Event) /\ Waiting \in Seq(Event)
      BY <1>2
    <3>3. mid \in Seq(Event) /\ rest = mid \o Waiting
      BY <3>1, <3>2, ConcatProperties
    <3> HIDE DEF rest
    <3>4. (received \o rb) \o Held = received \o mid
      BY <3>1, <3>2, ConcatAssociative
    <3> HIDE DEF mid
    <3>5. (received \o mid) \o Waiting = received \o rest
      BY <3>1, <3>2, <3>3, ConcatAssociative
    <3>6. rest \in Seq(Event)
      BY <3>2, <3>3, ConcatProperties
    <3> QED BY <3>4, <3>5, <3>6
  <2>8. ((a \o rb) \o Held) \o Waiting = a \o rest
    <3> DEFINE mid == rb \o Held
    <3>1. a \in Seq(Event) /\ rb \in Seq(Event)
      BY <1>2, <2>2
    <3>2. Held \in Seq(Event) /\ Waiting \in Seq(Event)
      BY <1>2
    <3>3. mid \in Seq(Event) /\ rest = mid \o Waiting
      BY <3>1, <3>2, ConcatProperties
    <3> HIDE DEF rest
    <3>4. (a \o rb) \o Held = a \o mid
      BY <3>1, <3>2, ConcatAssociative
    <3> HIDE DEF mid
    <3>5. (a \o mid) \o Waiting = a \o rest
      BY <3>1, <3>2, <3>3, ConcatAssociative
    <3>6. rest \in Seq(Event)
      BY <3>2, <3>3, ConcatProperties
    <3> QED BY <3>4, <3>5, <3>6
  <2> HIDE DEF rest
  <2>9. InFlight = (received \o channel) \o rest /\ InFlight' = received \o rest
    BY <2>3, <2>4, <2>5, <2>6, <2>7, <2>8 DEF a
  <2> QED BY <1>1, <1>2, <2>1, <2>7, <2>9, CutFlight
<1>4. CASE CancelSeen
  <2>1. /\ UNCHANGED <<received, channel, batch, accepted>>
        /\ result' = <<>> /\ lost' = lost \cup Elements(result)
    BY <1>4 DEF CancelSeen
  <2> DEFINE a == received \o channel
             ar == a \o result
             rest == (batch \o Held) \o Waiting
  <2>2. a \in Seq(Event) /\ ar \in Seq(Event)
    BY Row
  <2>3. InFlight = ((ar \o batch) \o Held) \o Waiting
        /\ InFlight' = (((a \o <<>>) \o batch) \o Held) \o Waiting
    BY <1>1, <2>1 DEF InFlight
  <2> HIDE DEF a
  <2>4. a \o <<>> = a
    BY <2>2, ConcatEmptySeq
  <2> HIDE DEF ar
  <2>5. rest \in Seq(Event) /\ ((ar \o batch) \o Held) \o Waiting = ar \o rest
    <3> DEFINE mid == batch \o Held
    <3>1. ar \in Seq(Event) /\ batch \in Seq(Event)
      BY <1>2, <2>2
    <3>2. Held \in Seq(Event) /\ Waiting \in Seq(Event)
      BY <1>2
    <3>3. mid \in Seq(Event) /\ rest = mid \o Waiting
      BY <3>1, <3>2, ConcatProperties
    <3> HIDE DEF rest
    <3>4. (ar \o batch) \o Held = ar \o mid
      BY <3>1, <3>2, ConcatAssociative
    <3> HIDE DEF mid
    <3>5. (ar \o mid) \o Waiting = ar \o rest
      BY <3>1, <3>2, <3>3, ConcatAssociative
    <3>6. rest \in Seq(Event)
      BY <3>2, <3>3, ConcatProperties
    <3> QED BY <3>4, <3>5, <3>6
  <2>6. ((a \o batch) \o Held) \o Waiting = a \o rest
    <3> DEFINE mid == batch \o Held
    <3>1. a \in Seq(Event) /\ batch \in Seq(Event)
      BY <1>2, <2>2
    <3>2. Held \in Seq(Event) /\ Waiting \in Seq(Event)
      BY <1>2
    <3>3. mid \in Seq(Event) /\ rest = mid \o Waiting
      BY <3>1, <3>2, ConcatProperties
    <3> HIDE DEF rest
    <3>4. (a \o batch) \o Held = a \o mid
      BY <3>1, <3>2, ConcatAssociative
    <3> HIDE DEF mid
    <3>5. (a \o mid) \o Waiting = a \o rest
      BY <3>1, <3>2, <3>3, ConcatAssociative
    <3>6. rest \in Seq(Event)
      BY <3>2, <3>3, ConcatProperties
    <3> QED BY <3>4, <3>5, <3>6
  <2> HIDE DEF rest
  <2>7. InFlight = (a \o result) \o rest /\ InFlight' = a \o rest
    BY <2>3, <2>4, <2>5, <2>6 DEF ar
  <2> QED BY <1>1, <1>2, <2>1, <2>2, <2>5, <2>7, CutFlight
<1> QED BY <1>3, <1>4

\* The invariant survives every step.
LEMMA FlowStep ==
  ASSUME FlowInv, [Next]_vars
  PROVE  FlowInv'
<1>1. QueueInv'
  BY FlowQueueStep, FlowBounds DEF FlowInv, FlowTypes
<1>2. FlowTypes' /\ Turns'
  BY FlowTypesStep DEF FlowInv
<1>3. QueueHoldsEvents' /\ Conservation'
  <2>1. CASE \/ Offer \/ Refused \/ Write
             \/ \E h \in Visible(cSeen, head) : Admit(h)
             \/ Sleep \/ Wake \/ Collect \/ Pin \/ PinFails
             \/ UNCHANGED vars
    BY <2>1, QuietFlight
  <2>2. CASE DrainFull \/ \E h \in Visible(cSeen, head) : DrainShort(h)
    BY <2>2, DrainFlight
  <2>3. Next \/ UNCHANGED vars
    OBVIOUS
  <2> QED
    BY <2>1, <2>2, <2>3, AcceptFlight, ReadFlight, CopyFlight, EmitFlight, CancelFlight
       DEF Next, DrainStep
<1> QED BY <1>1, <1>2, <1>3 DEF FlowInv

\* The invariant holds at the start.
LEMMA FlowInit == Init => FlowInv
<1> SUFFICES ASSUME Init PROVE FlowInv
  OBVIOUS
<1>1. QueueInv
  BY TypeInit, ArcInit DEF Init, QueueInv
<1>2. <<>> \in Seq(Event) /\ Len(<<>>) = 0
  BY EmptySeq
<1>3. Elements(<<>>) = {} /\ Increasing(<<>>)
  BY DEF Elements, Increasing
<1>4. FlowTypes
  <2>1. 0 \in 0 .. MaxEvents /\ 0 <= Batch /\ 0 <= ChannelCap
    BY FlowBounds
  <2> QED BY <1>2, <2>1 DEF Init, FlowTypes
<1>8. Turns
  BY <1>3 DEF Init, QueueInit, Turns
<1>5. Held = <<>> /\ Waiting = <<>>
  <2>1. 0 \in Index
    BY WordFacts DEF Index
  <2>2. Pending = 0
    BY <2>1, PlusZero, DistanceRange DEF Init, QueueInit, Pending, First, Taken
  <2> QED BY <2>2 DEF Init, QueueInit, Held, Waiting, First, Pending
<1>6. InFlight = <<>>
  BY <1>2, <1>5, ConcatEmptySeq DEF Init, InFlight
<1>7. Conservation
  BY <1>3, <1>6 DEF Init, Conservation
<1> QED BY <1>1, <1>2, <1>4, <1>5, <1>7, <1>8 DEF FlowInv, QueueHoldsEvents

\* The invariant holds throughout.
LEMMA FlowInvariance == Spec => []FlowInv
<1> QED BY FlowInit, FlowStep, PTL DEF Spec

\* The types of the transport, whatever it is fed: the native batch never
\* outgrows the arrays it is copied to, nor the channel its buffer.
THEOREM FlowTypeCorrect == Spec => []TypeOK
<1>1. FlowInv => TypeOK
  <2> SUFFICES ASSUME FlowInv PROVE TypeOK
    OBVIOUS
  <2>1. lost \subseteq Event
    BY ElementsAreEvents DEF FlowInv, FlowTypes, Conservation
  <2> QED BY <2>1 DEF FlowInv, FlowTypes, QueueInv, TypeOK
<1> QED BY <1>1, FlowInvariance, PTL

\* Every event that push() accepted is in exactly one place between the queue
\* and the collector, in the order of acceptance, except for what cancellation
\* threw away.
THEOREM FlowConservation == Spec => []Conservation
<1>1. FlowInv => Conservation
  BY DEF FlowInv
<1> QED BY <1>1, FlowInvariance, PTL

\* The transport uses the queue as one producer and one consumer may, and so all
\* that is proved of the queue holds in it.
THEOREM FlowUsesQueue == Spec => QueueSpec /\ RefinesFifo /\ []NoSlotRace
<1>1. Init => QueueInit
  BY DEF Init
<1>2. FlowInv /\ [Next]_vars => [QueueNext]_queueVars
  BY FlowStepsQueue, FlowBounds DEF FlowInv, FlowTypes
<1>3. Spec => QueueSpec
  BY <1>1, <1>2, FlowInvariance, PTL DEF Spec, QueueSpec
<1> QED BY <1>3, QueueRefinesFifo, QueueNoSlotRace, PTL
=============================================================================
