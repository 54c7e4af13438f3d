--------------------------- MODULE AudioInput_proof ---------------------------
(***************************************************************************)
(* Proofs about RingBuffer and AudioInput, for every capacity, every set   *)
(* of block, burst and read sizes and every number of frames.              *)
(*                                                                         *)
(* The ring, which rests on CounterAssumption and RingAssumption alone:    *)
(* its types, the absence of copy races, and that it implements            *)
(* SampleFifo.  The input: OboeInput uses its ring as the ring asks for,   *)
(* the unchecked pop() of read() is never refused, no callback outlives    *)
(* the destructor, and every frame is accounted for.                       *)
(***************************************************************************)
EXTENDS AudioInput, SpscCounters_proof, SequenceTheorems

-----------------------------------------------------------------------------
(* Types.                                                                  *)

\* A block is a nonempty sequence that is short of wrapping the counters.
LEMMA BlockFacts ==
  ASSUME NEW b \in Block
  PROVE  /\ b \in Seq(Sample)
         /\ Len(b) \in Nat /\ Len(b) > 0
         /\ Capacity + Len(b) < Word
BY RingAssumption

\* Every index has a slot of the ring.
LEMMA SlotIsIn ==
  ASSUME NEW i \in Index
  PROVE  Slot(i) \in 0 .. Capacity - 1
BY SlotRange

\* A block of at most a capacity is cut where the storage ends.
LEMMA CutFacts ==
  ASSUME NEW i \in Index, NEW n \in Nat, n > 0
  PROVE  /\ BeforeWrap(i, n) \in 1 .. n
         /\ BeforeWrap(i, n) <= Capacity - Slot(i)
         /\ BeforeWrap(i, n) = n \/ BeforeWrap(i, n) = Capacity - Slot(i)
BY SlotIsIn, WordFacts DEF BeforeWrap

\* The rest, if there is one, fits before the slot the block started in.
LEMMA PartsInside ==
  ASSUME NEW i \in Index, NEW n \in 1 .. Capacity
  PROVE  /\ FirstPart(i, n) \subseteq 0 .. Capacity - 1
         /\ RestPart(i, n) \subseteq 0 .. Capacity - 1
BY CutFacts, SlotIsIn, WordFacts DEF FirstPart, RestPart

\* The counters of a block are masked to the slots of its first part ...
LEMMA SlotOfFirst ==
  ASSUME NEW i \in Index, NEW n \in 1 .. Capacity,
         NEW k \in 0 .. BeforeWrap(i, n) - 1
  PROVE  Slot(Plus(i, k)) = Slot(i) + k
<1>0. /\ Capacity \in Int /\ Word \in Int /\ Capacity < Word /\ Capacity > 0
      /\ Slot(i) \in 0 .. Capacity - 1 /\ i \in Int
  BY WordFacts, SlotIsIn DEF Index
<1>1. PICK q \in Int : i = q * Capacity + Slot(i)
  <2>1. \E q \in Int : i = q * Capacity + (i % Capacity)
    BY <1>0, Quotient
  <2> QED BY <2>1 DEF Slot
<1>2. /\ k \in Int /\ k >= 0 /\ k < Capacity
      /\ Slot(i) + k \in 0 .. Capacity - 1
  BY <1>0, CutFacts
<1>3. i + k = q * Capacity + (Slot(i) + k)
  <2>1. q * Capacity \in Int
    BY <1>0
  <2> QED BY <1>0, <1>1, <1>2, <2>1
<1>4. i + k \in Int /\ k \in Index
  BY <1>0, <1>2 DEF Index
<1>5. (i + k) % Capacity = Slot(i) + k
  BY <1>0, <1>2, <1>3, <1>4, Remainder
<1> QED BY <1>4, <1>5, SlotPlus

\* ... and, beyond the end of the storage, to those of the rest.
LEMMA SlotOfRest ==
  ASSUME NEW i \in Index, NEW n \in 1 .. Capacity,
         NEW k \in BeforeWrap(i, n) .. n - 1
  PROVE  Slot(Plus(i, k)) = k - BeforeWrap(i, n)
<1>0. /\ Capacity \in Int /\ Word \in Int /\ Capacity < Word /\ Capacity > 0
      /\ Slot(i) \in 0 .. Capacity - 1 /\ i \in Int
  BY WordFacts, SlotIsIn DEF Index
<1>1. PICK q \in Int : i = q * Capacity + Slot(i)
  <2>1. \E q \in Int : i = q * Capacity + (i % Capacity)
    BY <1>0, Quotient
  <2> QED BY <2>1 DEF Slot
<1>2. BeforeWrap(i, n) = Capacity - Slot(i) /\ BeforeWrap(i, n) \in 1 .. n
  BY <1>0, CutFacts
<1> DEFINE r == k - BeforeWrap(i, n)
<1>3. /\ k \in Int /\ k >= 0 /\ k < Capacity
      /\ r \in 0 .. Capacity - 1 /\ r = k - (Capacity - Slot(i))
  BY <1>0, <1>2
<1> HIDE DEF r
<1>4. i + k = (q + 1) * Capacity + r
  <2>1. (q + 1) * Capacity = q * Capacity + Capacity /\ q * Capacity \in Int
    BY <1>0
  <2> QED BY <1>0, <1>1, <1>3, <2>1
<1>5. i + k \in Int /\ k \in Index /\ q + 1 \in Int
  BY <1>0, <1>3 DEF Index
<1>6. (i + k) % Capacity = r
  BY <1>0, <1>3, <1>4, <1>5, Remainder
<1> QED BY <1>5, <1>6, SlotPlus DEF r

\* Either part consists of slots that the block's own counters are masked to.
LEMMA PartsAreSlots ==
  ASSUME NEW i \in Index, NEW n \in 1 .. Capacity,
         NEW s \in FirstPart(i, n) \cup RestPart(i, n)
  PROVE  \E k \in 0 .. n - 1 : s = Slot(Plus(i, k))
<1>0. Capacity \in Nat /\ Slot(i) \in 0 .. Capacity - 1
  BY WordFacts, SlotIsIn
<1>1. CASE s \in FirstPart(i, n)
  <2>1. s - Slot(i) \in 0 .. BeforeWrap(i, n) - 1 /\ s - Slot(i) \in 0 .. n - 1
    BY <1>0, <1>1, CutFacts DEF FirstPart
  <2>2. Slot(Plus(i, s - Slot(i))) = Slot(i) + (s - Slot(i))
    BY <2>1, SlotOfFirst
  <2>3. Slot(i) + (s - Slot(i)) = s
    BY <1>0, <1>1 DEF FirstPart
  <2> QED BY <2>1, <2>2, <2>3
<1>2. CASE s \in RestPart(i, n)
  <2> DEFINE k == s + BeforeWrap(i, n)
  <2>1. k \in BeforeWrap(i, n) .. n - 1 /\ k \in 0 .. n - 1 /\ k - BeforeWrap(i, n) = s
    BY <1>0, <1>2, CutFacts DEF RestPart
  <2> HIDE DEF k
  <2>2. Slot(Plus(i, k)) = s
    BY <2>1, SlotOfRest
  <2> QED BY <2>1, <2>2
<1> QED BY <1>1, <1>2

-----------------------------------------------------------------------------
\* What a call in progress works on.
Busy ==
  /\ pPc # "idle" => pBlock \in Block
  /\ cPc # "idle" => cCount > 0

TypeInv == RingTypeOK /\ Busy

\* The counters are indices.
LEMMA Counters ==
  ASSUME RingTypeOK
  PROVE  head \in Index /\ tail \in Index /\ pSeen \in Index /\ cSeen \in Index
BY DEF RingTypeOK

\* The type invariant holds at the start.
LEMMA TypeInit == RingInit => TypeInv
BY WordFacts, SmallIndices DEF RingInit, RingTypeOK, TypeInv, Busy

\* Where in the block the sample for a slot is taken from.
LEMMA PlaceInBlock ==
  ASSUME NEW i \in Index, NEW n \in Nat, n > 0
  PROVE  /\ \A s \in FirstPart(i, n) : s - Slot(i) + 1 \in 1 .. n
         /\ \A s \in RestPart(i, n) : s + BeforeWrap(i, n) + 1 \in 1 .. n
<1>1. BeforeWrap(i, n) \in 1 .. n
  BY CutFacts
<1>2. Slot(i) \in Int
  BY SlotIsIn, WordFacts
<1> QED BY <1>1, <1>2 DEF FirstPart, RestPart

\* The samples in a range of slots of the storage.
LEMMA SamplesType ==
  ASSUME RingTypeOK, NEW a \in Nat, NEW b \in Int, b < Capacity, a <= b + 1
  PROVE  /\ Samples(a, b) \in Seq(Sample \cup {NoSample})
         /\ Len(Samples(a, b)) = b - a + 1
<1>1. b - a + 1 \in Nat
  OBVIOUS
<1>2. \A i \in 1 .. b - a + 1 : storage[a + i - 1] \in Sample \cup {NoSample}
  <2> TAKE i \in 1 .. b - a + 1
  <2>1. a + i - 1 \in 0 .. Capacity - 1
    BY WordFacts
  <2> QED BY <2>1 DEF RingTypeOK
<1> QED BY <1>1, <1>2 DEF Samples

\* What the two copies of pop(n) copy out.
LEMMA CopiesType ==
  ASSUME RingTypeOK, NEW i \in Index, NEW n \in 1 .. Capacity
  PROVE  /\ Samples(Slot(i), Slot(i) + BeforeWrap(i, n) - 1) \in Seq(Sample \cup {NoSample})
         /\ Len(Samples(Slot(i), Slot(i) + BeforeWrap(i, n) - 1)) = BeforeWrap(i, n)
         /\ Samples(0, n - BeforeWrap(i, n) - 1) \in Seq(Sample \cup {NoSample})
         /\ Len(Samples(0, n - BeforeWrap(i, n) - 1)) = n - BeforeWrap(i, n)
<1>0. /\ Capacity \in Int /\ n \in Nat /\ n > 0 /\ n <= Capacity
      /\ Slot(i) \in 0 .. Capacity - 1 /\ Slot(i) \in Nat
  BY SlotIsIn, WordFacts
<1>1. BeforeWrap(i, n) \in 1 .. n /\ BeforeWrap(i, n) <= Capacity - Slot(i)
  BY <1>0, CutFacts
<1> DEFINE a == Slot(i) + BeforeWrap(i, n) - 1
           b == n - BeforeWrap(i, n) - 1
<1>2. /\ a \in Int /\ a < Capacity /\ Slot(i) <= a + 1
      /\ b \in Int /\ b < Capacity /\ 0 <= b + 1
      /\ a - Slot(i) + 1 = BeforeWrap(i, n)
      /\ b - 0 + 1 = n - BeforeWrap(i, n)
  BY <1>0, <1>1
<1> HIDE DEF a, b
<1>3. /\ Samples(Slot(i), a) \in Seq(Sample \cup {NoSample})
      /\ Len(Samples(Slot(i), a)) = a - Slot(i) + 1
  BY <1>0, <1>2, SamplesType
<1>4. /\ Samples(0, b) \in Seq(Sample \cup {NoSample})
      /\ Len(Samples(0, b)) = b - 0 + 1
  BY <1>0, <1>2, SamplesType
<1> QED BY <1>2, <1>3, <1>4 DEF a, b

\* The type invariant survives every step.
LEMMA TypeStep ==
  ASSUME TypeInv, [RingNext]_ringVars
  PROVE  TypeInv'
<1> USE DEF TypeInv, RingTypeOK, Busy
<1>0. head \in Index /\ tail \in Index /\ pSeen \in Index /\ cSeen \in Index
  OBVIOUS
<1>1. ASSUME NEW b \in Block, PushAdmit(b) PROVE TypeInv'
  BY <1>0, <1>1, VisibleFacts DEF PushAdmit, consumerVars
<1>2. ASSUME NEW b \in Block, PushRefuse(b) PROVE TypeInv'
  BY <1>0, <1>2, VisibleFacts DEF PushRefuse, consumerVars
<1>3. CASE PushFirst
  <2>1. pBlock \in Block /\ pBlock \in Seq(Sample) /\ Len(pBlock) \in Nat /\ Len(pBlock) > 0
    BY <1>3, BlockFacts DEF PushFirst
  <2>2. ASSUME NEW s \in FirstPart(head, Len(pBlock))
        PROVE  pBlock[s - Slot(head) + 1] \in Sample
    <3>1. s - Slot(head) + 1 \in 1 .. Len(pBlock)
      BY <1>0, <2>1, PlaceInBlock
    <3> QED BY <2>1, <3>1
  <2>3. storage' \in [0 .. Capacity - 1 -> Sample \cup {NoSample}]
    BY <1>3, <2>2 DEF PushFirst
  <2> QED BY <1>3, <2>3 DEF PushFirst, consumerVars
<1>4. CASE PushRest
  <2>1. pBlock \in Block /\ pBlock \in Seq(Sample) /\ Len(pBlock) \in Nat /\ Len(pBlock) > 0
    BY <1>4, BlockFacts DEF PushRest
  <2>2. ASSUME NEW s \in RestPart(head, Len(pBlock))
        PROVE  pBlock[s + BeforeWrap(head, Len(pBlock)) + 1] \in Sample
    <3>1. s + BeforeWrap(head, Len(pBlock)) + 1 \in 1 .. Len(pBlock)
      BY <1>0, <2>1, PlaceInBlock
    <3> QED BY <2>1, <3>1
  <2>3. storage' \in [0 .. Capacity - 1 -> Sample \cup {NoSample}]
    BY <1>4, <2>2 DEF PushRest
  <2> QED BY <1>4, <2>3 DEF PushRest, consumerVars
<1>5. CASE PushPublish
  <2>1. Len(pBlock) \in Index
    BY <1>5, BlockFacts, WordFacts DEF PushPublish, Index
  <2>2. Plus(head, Len(pBlock)) \in Index
    BY <1>0, <2>1, PlusIsIndex
  <2> QED BY <1>5, <2>2 DEF PushPublish, consumerVars
<1>6. ASSUME NEW n \in 1 .. Capacity, PopAdmit(n) PROVE TypeInv'
  BY <1>0, <1>6, VisibleFacts, WordFacts DEF PopAdmit, producerVars
<1>7. ASSUME NEW n \in 1 .. Capacity, PopRefuse(n) PROVE TypeInv'
  BY <1>0, <1>7, VisibleFacts DEF PopRefuse, producerVars
<1>8. CASE PopFirst
  <2>1. cCount \in 1 .. Capacity
    BY <1>8, WordFacts DEF PopFirst
  <2>2. Samples(Slot(tail), Slot(tail) + BeforeWrap(tail, cCount) - 1)
          \in Seq(Sample \cup {NoSample})
    BY <1>0, <2>1, CopiesType
  <2> QED BY <1>8, <2>2 DEF PopFirst, producerVars
<1>9. CASE PopRest
  <2>1. cCount \in 1 .. Capacity
    BY <1>9, WordFacts DEF PopRest
  <2>2. Samples(0, cCount - BeforeWrap(tail, cCount) - 1) \in Seq(Sample \cup {NoSample})
    BY <1>0, <2>1, CopiesType
  <2> QED BY <1>9, <2>2, ConcatProperties DEF PopRest, producerVars
<1>10. CASE PopPublish
  <2>1. cCount \in Index
    BY <1>10, WordFacts DEF Index
  <2>2. Plus(tail, cCount) \in Index
    BY <1>0, <2>1, PlusIsIndex
  <2>3. taken \o out \in Seq(Sample \cup {NoSample}) /\ <<>> \in Seq(Sample \cup {NoSample})
    BY ConcatProperties
  <2> QED BY <1>10, <2>2, <2>3, WordFacts DEF PopPublish, producerVars
<1>11. ASSUME NEW h \in Visible(cSeen, head), Look(h) PROVE TypeInv'
  BY <1>0, <1>11, VisibleFacts DEF Look, producerVars
<1>12. CASE Reset
  BY <1>12, SmallIndices DEF Reset
<1>13. CASE UNCHANGED ringVars
  BY <1>13 DEF ringVars, producerVars, consumerVars
<1> QED
  BY <1>1, <1>2, <1>3, <1>4, <1>5, <1>6, <1>7, <1>8, <1>9, <1>10, <1>11, <1>12, <1>13
  DEF RingNext

\* Every reachable state of the ring is well typed: the counters stay within
\* size_t as they wrap, by whole blocks, and no pop leaves the storage.
THEOREM RingTypeCorrect == RingSpec => []RingTypeOK
<1>1. TypeInv /\ [RingNext]_ringVars => TypeInv'
  BY TypeStep
<1>2. TypeInv => RingTypeOK
  BY DEF TypeInv
<1> QED BY <1>1, <1>2, TypeInit, PTL DEF RingSpec

-----------------------------------------------------------------------------
(* As for the queue: going back from head there come cSeen, tail and       *)
(* pSeen, within a capacity of each other, and now with room for the block *)
(* that push() is writing and with the samples that pop() is reading.      *)

Unseen == Distance(head, cSeen)
Available == Distance(cSeen, tail)
Reclaimed == Distance(tail, pSeen)

Arc ==
  /\ Unseen + Available + Reclaimed <= Capacity
  /\ pPc # "idle" => Unseen + Available + Reclaimed + Len(pBlock) <= Capacity
  /\ cPc # "idle" => Available >= cCount

\* The distances between the counters are natural numbers.
LEMMA Ranges ==
  ASSUME RingTypeOK
  PROVE  Unseen \in Nat /\ Available \in Nat /\ Reclaimed \in Nat
BY Counters, DistanceRange DEF Unseen, Available, Reclaimed

\* While the arcs fit the capacity, the distances add up without wrapping.
LEMMA ArcDistances ==
  ASSUME RingTypeOK, Unseen + Available + Reclaimed <= Capacity
  PROVE  /\ Distance(head, tail) = Unseen + Available
         /\ Distance(head, pSeen) = Unseen + Available + Reclaimed
<1>1. Distance(head, tail) = Unseen + Available
  BY Ranges, Counters, WordFacts, DistancesAdd DEF Unseen, Available
<1>2. Distance(head, pSeen) = Distance(head, tail) + Reclaimed
  BY <1>1, Ranges, Counters, WordFacts, DistancesAdd DEF Reclaimed
<1> QED BY <1>1, <1>2, Ranges

\* The order of the counters at the start.
LEMMA ArcInit == RingInit => Arc
<1>1. Distance(0, 0) = 0
  BY SmallIndices, DistanceFacts
<1> QED BY <1>1, WordFacts DEF RingInit, Arc, Unseen, Available, Reclaimed

\* When the consumer loads a newer head_.
LEMMA ConsumerLoads ==
  ASSUME RingTypeOK, Arc, NEW h \in Visible(cSeen, head),
         cSeen' = h, UNCHANGED <<head, tail, pSeen>>
  PROVE  /\ Unseen' \in Nat /\ Available' \in Nat /\ Reclaimed' = Reclaimed
         /\ Unseen' + Available' = Unseen + Available
         /\ Available' = Distance(h, tail) /\ Available' >= Available
<1>0. /\ head \in Index /\ tail \in Index /\ cSeen \in Index
      /\ Unseen \in Nat /\ Available \in Nat /\ Reclaimed \in Nat
      /\ Capacity \in Nat /\ Word \in Nat /\ Capacity < Word
  BY Ranges, Counters, WordFacts
<1>1. /\ h \in Index /\ Distance(head, h) \in Nat /\ Distance(h, cSeen) \in Nat
      /\ Unseen = Distance(head, h) + Distance(h, cSeen)
  BY <1>0, VisibleFacts DEF Unseen
<1>2. Distance(h, cSeen) + Available < Word
  BY <1>0, <1>1 DEF Arc
<1>3. Distance(h, tail) = Distance(h, cSeen) + Available
  BY <1>0, <1>1, <1>2, DistancesAdd DEF Available
<1>4. Unseen' = Distance(head, h) /\ Available' = Distance(h, tail) /\ Reclaimed' = Reclaimed
  BY DEF Unseen, Available, Reclaimed
<1> QED BY <1>0, <1>1, <1>3, <1>4

\* When the producer loads a newer tail_.
LEMMA ProducerLoads ==
  ASSUME RingTypeOK, Arc, NEW t \in Visible(pSeen, tail),
         pSeen' = t, UNCHANGED <<head, tail, cSeen>>
  PROVE  /\ Distance(tail, t) \in Nat /\ Distance(tail, t) <= Reclaimed
         /\ Unseen' = Unseen /\ Available' = Available /\ Reclaimed' = Distance(tail, t)
         /\ Distance(head, t) = Unseen + Available + Distance(tail, t)
<1>0. /\ head \in Index /\ tail \in Index /\ pSeen \in Index
      /\ Unseen \in Nat /\ Available \in Nat /\ Reclaimed \in Nat
      /\ Capacity \in Nat /\ Word \in Nat /\ Capacity < Word
  BY Ranges, Counters, WordFacts
<1>1. /\ t \in Index /\ Distance(tail, t) \in Nat /\ Distance(t, pSeen) \in Nat
      /\ Reclaimed = Distance(tail, t) + Distance(t, pSeen)
  BY <1>0, VisibleFacts DEF Reclaimed
<1>2. Distance(head, tail) = Unseen + Available
  BY ArcDistances DEF Arc
<1>3. Distance(head, tail) + Distance(tail, t) < Word
  BY <1>0, <1>1, <1>2 DEF Arc
<1>4. Distance(head, t) = Distance(head, tail) + Distance(tail, t)
  BY <1>0, <1>1, <1>3, DistancesAdd
<1>5. Unseen' = Unseen /\ Available' = Available /\ Reclaimed' = Distance(tail, t)
  BY DEF Unseen, Available, Reclaimed
<1> QED BY <1>0, <1>1, <1>2, <1>4, <1>5

\* The counters keep their order on the circle.
LEMMA ArcStep ==
  ASSUME TypeInv, Arc, [RingNext]_ringVars
  PROVE  Arc'
<1>0. /\ RingTypeOK /\ head \in Index /\ tail \in Index /\ pSeen \in Index /\ cSeen \in Index
      /\ Unseen \in Nat /\ Available \in Nat /\ Reclaimed \in Nat
      /\ Capacity \in Nat /\ Word \in Nat /\ Capacity < Word
      /\ cCount \in Nat
  BY Counters, Ranges, WordFacts DEF TypeInv, RingTypeOK
<1>1. ASSUME NEW b \in Block, PushAdmit(b) PROVE Arc'
  <2>1. PICK t \in Visible(pSeen, tail) : Fits(head, t, Len(b)) /\ pSeen' = t
    BY <1>1 DEF PushAdmit
  <2>2. UNCHANGED <<head, tail, cSeen, cPc, cCount>> /\ pBlock' = b
    BY <1>1 DEF PushAdmit, consumerVars
  <2>3. /\ Distance(tail, t) \in Nat /\ Distance(tail, t) <= Reclaimed
        /\ Unseen' = Unseen /\ Available' = Available /\ Reclaimed' = Distance(tail, t)
        /\ Distance(head, t) = Unseen + Available + Distance(tail, t)
    BY <1>0, <2>1, <2>2, ProducerLoads
  <2>4. Len(b) \in Nat /\ Capacity + Len(b) < Word
    BY BlockFacts
  <2>5. Distance(head, t) <= Capacity /\ Distance(head, t) \in Nat
    BY <1>0, <2>3 DEF Arc
  <2>6. Plus(Distance(head, t), Len(b)) = Distance(head, t) + Len(b)
    <3>1. Distance(head, t) \in Index /\ Len(b) \in Index
      BY <1>0, <2>4, <2>5 DEF Index
    <3> QED BY <1>0, <2>4, <2>5, <3>1, PlusFacts
  <2>7. Unseen + Available + Distance(tail, t) + Len(b) <= Capacity
    BY <2>1, <2>3, <2>6 DEF Fits
  <2> QED BY <1>0, <2>2, <2>3, <2>4, <2>7 DEF Arc
<1>2. ASSUME NEW b \in Block, PushRefuse(b) PROVE Arc'
  <2>1. PICK t \in Visible(pSeen, tail) : pSeen' = t
    BY <1>2 DEF PushRefuse
  <2>2. UNCHANGED <<head, tail, cSeen, pPc, pBlock, cPc, cCount>> /\ pPc = "idle"
    BY <1>2 DEF PushRefuse, consumerVars
  <2>3. /\ Distance(tail, t) \in Nat /\ Distance(tail, t) <= Reclaimed
        /\ Unseen' = Unseen /\ Available' = Available /\ Reclaimed' = Distance(tail, t)
    BY <1>0, <2>1, <2>2, ProducerLoads
  <2> QED BY <1>0, <2>2, <2>3 DEF Arc
<1>3. CASE PushFirst
  BY <1>0, <1>3 DEF Arc, PushFirst, consumerVars, Unseen, Available, Reclaimed
<1>4. CASE PushRest
  BY <1>0, <1>4 DEF Arc, PushRest, consumerVars, Unseen, Available, Reclaimed
<1>5. CASE PushPublish
  <2>1. Len(pBlock) \in Nat /\ Unseen + Available + Reclaimed + Len(pBlock) <= Capacity
    BY <1>5, BlockFacts DEF PushPublish, TypeInv, Busy, Arc
  <2>2. Distance(head, cSeen) + Len(pBlock) < Word
    BY <1>0, <2>1 DEF Unseen
  <2>3. Unseen' = Unseen + Len(pBlock)
    <3>1. Distance(Plus(head, Len(pBlock)), cSeen) = Distance(head, cSeen) + Len(pBlock)
      BY <1>0, <2>1, <2>2, AdvanceFar
    <3> QED BY <1>5, <3>1 DEF PushPublish, consumerVars, Unseen
  <2>4. Available' = Available /\ Reclaimed' = Reclaimed
    BY <1>5 DEF PushPublish, consumerVars, Available, Reclaimed
  <2>5. pPc' = "idle" /\ UNCHANGED <<cPc, cCount>>
    BY <1>5 DEF PushPublish, consumerVars
  <2> QED BY <1>0, <2>1, <2>3, <2>4, <2>5 DEF Arc
<1>6. ASSUME NEW n \in 1 .. Capacity, PopAdmit(n) PROVE Arc'
  <2>1. PICK h \in Visible(cSeen, head) : Holds(h, tail, n) /\ cSeen' = h
    BY <1>6 DEF PopAdmit
  <2>2. UNCHANGED <<head, tail, pSeen, pPc, pBlock>> /\ cCount' = n
    BY <1>6 DEF PopAdmit, producerVars
  <2>3. /\ Unseen' \in Nat /\ Available' \in Nat /\ Reclaimed' = Reclaimed
        /\ Unseen' + Available' = Unseen + Available
        /\ Available' = Distance(h, tail)
    BY <1>0, <2>1, <2>2, ConsumerLoads
  <2> QED BY <1>0, <2>1, <2>2, <2>3 DEF Arc, Holds
<1>7. ASSUME NEW n \in 1 .. Capacity, PopRefuse(n) PROVE Arc'
  <2>1. PICK h \in Visible(cSeen, head) : cSeen' = h
    BY <1>7 DEF PopRefuse
  <2>2. UNCHANGED <<head, tail, pSeen, pPc, pBlock, cPc, cCount>> /\ cPc = "idle"
    BY <1>7 DEF PopRefuse, producerVars
  <2>3. /\ Unseen' \in Nat /\ Available' \in Nat /\ Reclaimed' = Reclaimed
        /\ Unseen' + Available' = Unseen + Available
    BY <1>0, <2>1, <2>2, ConsumerLoads
  <2> QED BY <1>0, <2>2, <2>3 DEF Arc
<1>8. CASE PopFirst
  BY <1>0, <1>8 DEF Arc, PopFirst, producerVars, Unseen, Available, Reclaimed
<1>9. CASE PopRest
  BY <1>0, <1>9 DEF Arc, PopRest, producerVars, Unseen, Available, Reclaimed
<1>10. CASE PopPublish
  <2>1. Available >= cCount /\ Distance(cSeen, tail) >= cCount
    BY <1>10 DEF PopPublish, Arc, Available
  <2>2. Available' = Available - cCount
    <3>1. Distance(cSeen, Plus(tail, cCount)) = Distance(cSeen, tail) - cCount
      BY <1>0, <2>1, AdvanceNear
    <3> QED BY <1>10, <3>1 DEF PopPublish, Available
  <2>3. Reclaimed' = Reclaimed + cCount
    <3>1. Distance(tail, pSeen) + cCount < Word
      BY <1>0, <2>1 DEF Arc, Reclaimed
    <3>2. Distance(Plus(tail, cCount), pSeen) = Distance(tail, pSeen) + cCount
      BY <1>0, <3>1, AdvanceFar
    <3> QED BY <1>10, <3>2 DEF PopPublish, producerVars, Reclaimed
  <2>4. Unseen' = Unseen /\ cPc' = "idle" /\ UNCHANGED <<pPc, pBlock>>
    BY <1>10 DEF PopPublish, producerVars, Unseen
  <2>5. pPc # "idle" => Len(pBlock) \in Nat
    BY BlockFacts DEF TypeInv, Busy
  <2> QED BY <1>0, <2>1, <2>2, <2>3, <2>4, <2>5 DEF Arc
<1>11. ASSUME NEW h \in Visible(cSeen, head), Look(h) PROVE Arc'
  <2>1. UNCHANGED <<head, tail, pSeen, pPc, pBlock, cPc, cCount>> /\ cPc = "idle" /\ cSeen' = h
    BY <1>11 DEF Look, producerVars
  <2>2. /\ Unseen' \in Nat /\ Available' \in Nat /\ Reclaimed' = Reclaimed
        /\ Unseen' + Available' = Unseen + Available
    BY <1>0, <2>1, ConsumerLoads
  <2> QED BY <1>0, <2>1, <2>2 DEF Arc
<1>12. CASE Reset
  <2>1. Distance(0, 0) = 0
    BY SmallIndices, DistanceFacts
  <2>2. Unseen' = 0 /\ Available' = 0 /\ Reclaimed' = 0
    BY <1>12, <2>1 DEF Reset, Unseen, Available, Reclaimed
  <2>3. pPc' = "idle" /\ cPc' = "idle"
    BY <1>12 DEF Reset
  <2> QED BY <1>0, <2>2, <2>3 DEF Arc
<1>13. CASE UNCHANGED ringVars
  BY <1>13 DEF Arc, ringVars, producerVars, consumerVars, Unseen, Available, Reclaimed
<1> QED
  BY <1>1, <1>2, <1>3, <1>4, <1>5, <1>6, <1>7, <1>8, <1>9, <1>10, <1>11, <1>12, <1>13
  DEF RingNext

RingInv == TypeInv /\ Arc

\* Types and the order of the counters hold throughout.
LEMMA RingInvariance == RingSpec => []RingInv
<1>1. RingInit => RingInv
  BY TypeInit, ArcInit DEF RingInv
<1>2. RingInv /\ [RingNext]_ringVars => RingInv'
  BY TypeStep, ArcStep DEF RingInv
<1> QED BY <1>1, <1>2, PTL DEF RingSpec

\* The slots of the block being written are none of those that wait.
LEMMA WriteSlotsApart ==
  ASSUME RingInv, pPc # "idle",
         NEW a \in 0 .. Len(pBlock) - 1, NEW b \in 0 .. Distance(head, tail) - 1
  PROVE  Slot(Plus(head, a)) # Slot(Plus(tail, b))
<1> DEFINE D == Distance(head, tail)
<1>0. /\ head \in Index /\ tail \in Index /\ D \in Nat
      /\ Capacity \in Nat /\ Word \in Nat /\ Capacity < Word
      /\ Len(pBlock) \in Nat /\ D + Len(pBlock) <= Capacity
  BY Counters, Ranges, WordFacts, ArcDistances, BlockFacts DEF RingInv, TypeInv, Busy, Arc
<1> DEFINE w == Plus(tail, b)
<1>1. w \in Index /\ Distance(head, w) = D - b
  BY <1>0, AdvanceNear
<1> HIDE DEF D, w
<1>2. b \in Nat /\ a \in Nat /\ b < D /\ a < Len(pBlock)
  BY <1>0 DEF D
<1>3. Distance(head, w) + a < Word
  BY <1>0, <1>1, <1>2
<1>4. Plus(head, a) \in Index /\ Distance(Plus(head, a), w) = (D - b) + a
  BY <1>0, <1>1, <1>2, <1>3, AdvanceFar
<1>5. Distance(Plus(head, a), w) > 0 /\ Distance(Plus(head, a), w) < Capacity
  BY <1>0, <1>2, <1>4
<1> QED BY <1>1, <1>4, <1>5, SlotsDiffer DEF w

\* However stale the counters are that the two threads see, and wherever their
\* blocks wrap, no slot is copied to while it is copied from.
THEOREM RingNoCopyRace == RingSpec => []NoCopyRace
<1>1. RingInv => NoCopyRace
  <2> SUFFICES ASSUME RingInv, NEW s \in Writing, s \in Reading PROVE FALSE
    BY DEF NoCopyRace
  <2>0. /\ head \in Index /\ tail \in Index
        /\ Capacity \in Nat /\ Unseen \in Nat /\ Available \in Nat /\ Reclaimed \in Nat
    BY Counters, Ranges, WordFacts DEF RingInv, TypeInv
  <2>1. pPc # "idle" /\ s \in FirstPart(head, Len(pBlock)) \cup RestPart(head, Len(pBlock))
    BY DEF Writing
  <2>2. cPc # "idle" /\ s \in FirstPart(tail, cCount) \cup RestPart(tail, cCount)
    BY DEF Reading
  <2>3. Len(pBlock) \in 1 .. Capacity
    BY <2>0, <2>1, BlockFacts DEF RingInv, TypeInv, Busy, Arc
  <2>4. cCount \in 1 .. Capacity /\ cCount <= Distance(head, tail)
    BY <2>0, <2>2, ArcDistances DEF RingInv, TypeInv, RingTypeOK, Busy, Arc
  <2>5. PICK a \in 0 .. Len(pBlock) - 1 : s = Slot(Plus(head, a))
    BY <2>0, <2>1, <2>3, PartsAreSlots
  <2>6. PICK b \in 0 .. cCount - 1 : s = Slot(Plus(tail, b))
    BY <2>0, <2>2, <2>4, PartsAreSlots
  <2>7. b \in 0 .. Distance(head, tail) - 1
    BY <2>0, <2>4, <2>6, DistanceRange
  <2> QED BY <2>1, <2>5, <2>6, <2>7, WriteSlotsApart
<1> QED BY <1>1, RingInvariance, PTL

-----------------------------------------------------------------------------
(* The ring implements SampleFifo.                                         *)

Values == Sample \cup {NoSample}

\* The abstract contents are what the slots from tail_ on hold.
LEMMA WaitingFacts ==
  ASSUME RingInv
  PROVE  /\ Distance(head, tail) \in Nat /\ Distance(head, tail) <= Capacity
         /\ Waiting \in Seq(Values)
         /\ Len(Waiting) = Distance(head, tail)
         /\ \A i \in 1 .. Distance(head, tail) : Waiting[i] = storage[Slot(Plus(tail, i - 1))]
<1> DEFINE D == Distance(head, tail)
<1>0. /\ head \in Index /\ tail \in Index /\ Capacity \in Nat /\ Capacity < Word /\ Word \in Nat
      /\ storage \in [0 .. Capacity - 1 -> Values]
      /\ D \in Nat /\ D <= Capacity
  BY Counters, Ranges, ArcDistances, WordFacts DEF RingInv, TypeInv, RingTypeOK, Arc, Values
<1>1. Waiting = [i \in 1 .. D |-> storage[Slot(Plus(tail, i - 1))]]
  BY DEF Waiting
<1> HIDE DEF D
<1>2. \A i \in 1 .. D : storage[Slot(Plus(tail, i - 1))] \in Values
  <2> TAKE i \in 1 .. D
  <2>1. i - 1 \in Index
    BY <1>0 DEF Index
  <2>2. Slot(Plus(tail, i - 1)) \in 0 .. Capacity - 1
    BY <1>0, <2>1, PlusIsIndex, SlotIsIn
  <2> QED BY <1>0, <2>2
<1>3. Waiting \in Seq(Values) /\ Len(Waiting) = D
  BY <1>0, <1>1, <1>2
<1> QED BY <1>0, <1>1, <1>3 DEF D

\* A step that moves neither counter, and changes no slot that waits, is no
\* step of the FIFO.
LEMMA SameWaiting ==
  ASSUME UNCHANGED <<head, tail>>,
         \A b \in 0 .. Distance(head, tail) - 1 :
           storage'[Slot(Plus(tail, b))] = storage[Slot(Plus(tail, b))],
         Distance(head, tail) \in Nat
  PROVE  Waiting' = Waiting
<1> DEFINE D == Distance(head, tail)
<1>1. Waiting = [i \in 1 .. D |-> storage[Slot(Plus(tail, i - 1))]]
  BY DEF Waiting
<1>2. Waiting' = [i \in 1 .. D |-> storage'[Slot(Plus(tail, i - 1))]]
  BY DEF Waiting, Plus, Slot, Distance
<1>3. \A i \in 1 .. D : storage'[Slot(Plus(tail, i - 1))] = storage[Slot(Plus(tail, i - 1))]
  <2> TAKE i \in 1 .. D
  <2>1. i - 1 \in 0 .. D - 1
    OBVIOUS
  <2> QED BY <2>1
<1> HIDE DEF D
<1> QED BY <1>1, <1>2, <1>3

\* The length of the block in progress.
LEMMA BlockInPush ==
  ASSUME RingInv, pPc # "idle"
  PROVE  Len(pBlock) \in 1 .. Capacity /\ pBlock \in Block /\ pBlock \in Seq(Values)
<1>1. pBlock \in Block /\ pBlock \in Seq(Sample) /\ Len(pBlock) \in Nat /\ Len(pBlock) > 0
  BY BlockFacts DEF RingInv, TypeInv, Busy
<1>2. Len(pBlock) <= Capacity
  BY <1>1, Ranges, WordFacts DEF RingInv, TypeInv, Arc
<1> QED BY <1>1, <1>2, WordFacts DEF Values

\* Inside pop() the samples it returns are there.
LEMMA CountInPop ==
  ASSUME RingInv, cPc # "idle"
  PROVE  cCount \in 1 .. Capacity /\ cCount <= Distance(head, tail)
<1>1. Unseen \in Nat /\ Available \in Nat /\ Reclaimed \in Nat /\ Capacity \in Nat
  BY Ranges, WordFacts DEF RingInv, TypeInv
<1> QED BY <1>1, ArcDistances DEF RingInv, TypeInv, RingTypeOK, Busy, Arc

\* The two copies of push() leave alone what waits.
LEMMA WriteKeepsWaiting ==
  ASSUME RingInv, PushFirst \/ PushRest
  PROVE  Waiting' = Waiting
<1>0. /\ pPc # "idle" /\ UNCHANGED <<head, tail>>
      /\ head \in Index /\ tail \in Index
      /\ Len(pBlock) \in 1 .. Capacity
      /\ Distance(head, tail) \in Nat /\ Distance(head, tail) <= Capacity
      /\ storage \in [0 .. Capacity - 1 -> Values]
  BY Counters, BlockInPush, WaitingFacts
  DEF PushFirst, PushRest, RingInv, TypeInv, RingTypeOK, Values
<1>1. \A s \in DOMAIN storage :
        s \notin FirstPart(head, Len(pBlock)) \cup RestPart(head, Len(pBlock))
          => storage'[s] = storage[s]
  BY DEF PushFirst, PushRest
<1>2. ASSUME NEW b \in 0 .. Distance(head, tail) - 1
      PROVE  storage'[Slot(Plus(tail, b))] = storage[Slot(Plus(tail, b))]
  <2> DEFINE s == Slot(Plus(tail, b))
  <2>1. s \in DOMAIN storage
    <3>1. b \in Index
      BY <1>0, WordFacts DEF Index
    <3>2. s \in 0 .. Capacity - 1
      BY <1>0, <3>1, PlusIsIndex, SlotIsIn
    <3> QED BY <1>0, <3>2
  <2>2. s \notin FirstPart(head, Len(pBlock)) \cup RestPart(head, Len(pBlock))
    <3> SUFFICES ASSUME s \in FirstPart(head, Len(pBlock)) \cup RestPart(head, Len(pBlock))
                 PROVE  FALSE
      OBVIOUS
    <3> HIDE DEF s
    <3>1. PICK a \in 0 .. Len(pBlock) - 1 : s = Slot(Plus(head, a))
      BY <1>0, PartsAreSlots
    <3> QED BY <1>0, <3>1, WriteSlotsApart DEF s
  <2> QED BY <1>1, <2>1, <2>2
<1> QED BY <1>0, <1>2, SameWaiting

-----------------------------------------------------------------------------
\* How far the copies of push() have come ...
Written ==
  /\ pPc = "rest" => \A k \in 0 .. BeforeWrap(head, Len(pBlock)) - 1 :
                       storage[Slot(Plus(head, k))] = pBlock[k + 1]
  /\ pPc = "publish" => \A k \in 0 .. Len(pBlock) - 1 :
                          storage[Slot(Plus(head, k))] = pBlock[k + 1]

\* ... and those of pop().
Copied ==
  /\ cPc = "rest" => /\ Len(out) = BeforeWrap(tail, cCount)
                     /\ \A k \in 1 .. BeforeWrap(tail, cCount) : out[k] = Waiting[k]
  /\ cPc = "publish" => /\ Len(out) = cCount
                        /\ \A k \in 1 .. cCount : out[k] = Waiting[k]

\* The first copy of push() fills the slots before the wrap ...
LEMMA FirstWritten ==
  ASSUME RingInv, PushFirst
  PROVE  \A k \in 0 .. BeforeWrap(head, Len(pBlock)) - 1 :
           storage'[Slot(Plus(head, k))] = pBlock[k + 1]
<1>0. /\ head \in Index /\ Len(pBlock) \in 1 .. Capacity
      /\ storage \in [0 .. Capacity - 1 -> Values]
      /\ Slot(head) \in 0 .. Capacity - 1 /\ Capacity \in Nat
  BY Counters, BlockInPush, SlotIsIn, WordFacts
  DEF PushFirst, RingInv, TypeInv, RingTypeOK, Values
<1> TAKE k \in 0 .. BeforeWrap(head, Len(pBlock)) - 1
<1>1. BeforeWrap(head, Len(pBlock)) \in Nat /\ BeforeWrap(head, Len(pBlock)) <= Capacity - Slot(head)
  BY <1>0, CutFacts
<1>2. Slot(Plus(head, k)) = Slot(head) + k
  BY <1>0, SlotOfFirst
<1>3. /\ Slot(head) + k \in FirstPart(head, Len(pBlock))
      /\ Slot(head) + k \in 0 .. Capacity - 1
      /\ (Slot(head) + k) - Slot(head) + 1 = k + 1
  BY <1>0, <1>1 DEF FirstPart
<1> QED BY <1>0, <1>2, <1>3 DEF PushFirst

\* ... and the second one the others, without touching the former.
LEMMA RestWritten ==
  ASSUME RingInv, Written, PushRest
  PROVE  \A k \in 0 .. Len(pBlock) - 1 : storage'[Slot(Plus(head, k))] = pBlock[k + 1]
<1> DEFINE n == Len(pBlock)
           c == BeforeWrap(head, n)
<1>0. /\ head \in Index /\ n \in 1 .. Capacity
      /\ storage \in [0 .. Capacity - 1 -> Values]
      /\ Slot(head) \in 0 .. Capacity - 1 /\ Capacity \in Nat
      /\ \A k \in 0 .. c - 1 : storage[Slot(Plus(head, k))] = pBlock[k + 1]
  BY Counters, BlockInPush, SlotIsIn, WordFacts
  DEF PushRest, RingInv, TypeInv, RingTypeOK, Values, Written
<1>1. /\ c \in 1 .. n /\ c <= Capacity - Slot(head)
      /\ c = n \/ c = Capacity - Slot(head)
  BY <1>0, CutFacts
<1>2. \A s \in 0 .. Capacity - 1 :
        storage'[s] = IF s \in RestPart(head, n) THEN pBlock[s + c + 1] ELSE storage[s]
  BY <1>0 DEF PushRest
<1>3. ASSUME NEW k \in 0 .. c - 1 PROVE storage'[Slot(Plus(head, k))] = pBlock[k + 1]
  <2>1. Slot(Plus(head, k)) = Slot(head) + k
    BY <1>0, SlotOfFirst
  <2> HIDE DEF c, n
  <2>2. Slot(head) + k \in 0 .. Capacity - 1 /\ ~ (Slot(head) + k <= n - c - 1)
    BY <1>0, <1>1
  <2>3. Slot(head) + k \notin RestPart(head, n)
    BY <2>2 DEF RestPart, c
  <2> QED BY <1>0, <1>2, <2>1, <2>2, <2>3
<1>4. ASSUME NEW k \in c .. n - 1 PROVE storage'[Slot(Plus(head, k))] = pBlock[k + 1]
  <2>1. Slot(Plus(head, k)) = k - c
    BY <1>0, SlotOfRest
  <2> HIDE DEF c, n
  <2>2. /\ k - c \in 0 .. Capacity - 1 /\ k - c \in 0 .. n - c - 1
        /\ (k - c) + c + 1 = k + 1
    BY <1>0, <1>1
  <2>3. k - c \in RestPart(head, n)
    BY <2>2 DEF RestPart, c
  <2> QED BY <1>2, <2>1, <2>2, <2>3
<1> HIDE DEF c, n
<1>5. \A k \in 0 .. n - 1 : k \in 0 .. c - 1 \/ k \in c .. n - 1
  BY <1>0, <1>1
<1> QED BY <1>3, <1>4, <1>5 DEF n

\* A sequence as a function, for the comparison of sequences by their elements.
LEMMA SeqAsFunction ==
  ASSUME NEW S, NEW s \in Seq(S)
  PROVE  s = [i \in 1 .. Len(s) |-> s[i]]
OBVIOUS

\* Without a second copy the block does not wrap.
LEMMA NoRest ==
  ASSUME NEW i \in Index, NEW n \in 1 .. Capacity
  PROVE  RestPart(i, n) = {} => BeforeWrap(i, n) = n
<1>1. BeforeWrap(i, n) \in 1 .. n
  BY CutFacts, WordFacts
<1>2. BeforeWrap(i, n) # n => 0 \in RestPart(i, n)
  BY <1>1 DEF RestPart
<1> QED BY <1>2

\* What push() has copied so far stays where it is.
LEMMA WrittenStep ==
  ASSUME RingInv, Written, [RingNext]_ringVars
  PROVE  Written'
<1>1. ASSUME NEW b \in Block, PushAdmit(b) PROVE Written'
  BY <1>1 DEF Written, PushAdmit
<1>2. ASSUME NEW b \in Block, PushRefuse(b) PROVE Written'
  BY <1>2 DEF Written, PushRefuse
<1>3. CASE PushFirst
  <2>1. UNCHANGED <<head, pBlock>> /\ pPc = "first"
    BY <1>3 DEF PushFirst
  <2>2. \A k \in 0 .. BeforeWrap(head, Len(pBlock)) - 1 :
          storage'[Slot(Plus(head, k))] = pBlock[k + 1]
    BY <1>3, FirstWritten
  <2>3. pPc' = "publish" => BeforeWrap(head, Len(pBlock)) = Len(pBlock)
    <3>1. head \in Index /\ Len(pBlock) \in 1 .. Capacity
      BY <2>1, Counters, BlockInPush DEF RingInv, TypeInv
    <3> QED BY <1>3, <3>1, NoRest DEF PushFirst
  <2>4. CASE pPc' = "publish"
    BY <2>1, <2>2, <2>3, <2>4 DEF Written
  <2>5. CASE pPc' = "rest"
    BY <2>1, <2>2, <2>5 DEF Written
  <2> QED BY <1>3, <2>4, <2>5 DEF PushFirst
<1>4. CASE PushRest
  <2>1. UNCHANGED <<head, pBlock>> /\ pPc' = "publish"
    BY <1>4 DEF PushRest
  <2>2. \A k \in 0 .. Len(pBlock) - 1 : storage'[Slot(Plus(head, k))] = pBlock[k + 1]
    BY <1>4, RestWritten
  <2> QED BY <2>1, <2>2 DEF Written
<1>5. CASE PushPublish
  BY <1>5 DEF Written, PushPublish
<1>6. ASSUME NEW n \in 1 .. Capacity, PopAdmit(n) PROVE Written'
  BY <1>6 DEF Written, PopAdmit, producerVars
<1>7. ASSUME NEW n \in 1 .. Capacity, PopRefuse(n) PROVE Written'
  BY <1>7 DEF Written, PopRefuse, producerVars
<1>8. CASE PopFirst
  BY <1>8 DEF Written, PopFirst, producerVars
<1>9. CASE PopRest
  BY <1>9 DEF Written, PopRest, producerVars
<1>10. CASE PopPublish
  BY <1>10 DEF Written, PopPublish, producerVars
<1>11. ASSUME NEW h \in Visible(cSeen, head), Look(h) PROVE Written'
  BY <1>11 DEF Written, Look, producerVars
<1>12. CASE Reset
  BY <1>12 DEF Written, Reset
<1>13. CASE UNCHANGED ringVars
  BY <1>13 DEF Written, ringVars, producerVars
<1> QED
  BY <1>1, <1>2, <1>3, <1>4, <1>5, <1>6, <1>7, <1>8, <1>9, <1>10, <1>11, <1>12, <1>13
  DEF RingNext

\* The store of head_ appends the block to what waits.
LEMMA PublishAppends ==
  ASSUME RingInv, Written, PushPublish
  PROVE  /\ Waiting' = Waiting \o pBlock
         /\ pBlock \in Block
         /\ Len(Waiting) + Len(pBlock) <= Capacity
<1> DEFINE D == Distance(head, tail)
           n == Len(pBlock)
<1>0. /\ pPc = "publish" /\ head' = Plus(head, n) /\ tail' = tail /\ storage' = storage
      /\ head \in Index /\ tail \in Index /\ pBlock \in Block /\ pBlock \in Seq(Values)
      /\ n \in 1 .. Capacity /\ n \in Nat
      /\ D \in Nat /\ D + n <= Capacity
      /\ Capacity \in Nat /\ Word \in Nat /\ Capacity < Word
      /\ Waiting \in Seq(Values) /\ Len(Waiting) = D
      /\ \A i \in 1 .. D : Waiting[i] = storage[Slot(Plus(tail, i - 1))]
      /\ \A k \in 0 .. n - 1 : storage[Slot(Plus(head, k))] = pBlock[k + 1]
  <2>1. pPc = "publish" /\ head' = Plus(head, n) /\ tail' = tail /\ storage' = storage
    BY DEF PushPublish, consumerVars
  <2>2. Unseen + Available + Reclaimed + n <= Capacity
    BY <2>1 DEF RingInv, Arc
  <2>3. D + n <= Capacity /\ n \in Nat
    BY <2>1, <2>2, BlockInPush, Ranges, ArcDistances, WordFacts DEF RingInv, TypeInv, Arc
  <2> QED BY <2>1, <2>3, Counters, BlockInPush, WaitingFacts, WordFacts DEF RingInv, TypeInv, Written
<1> HIDE DEF D, n
<1>1. Distance(Plus(head, n), tail) = D + n
  BY <1>0, AdvanceFar DEF D
<1>2. Waiting' = [i \in 1 .. D + n |-> storage[Slot(Plus(tail, i - 1))]]
  <2>1. Waiting' = [i \in 1 .. Distance(head', tail') |-> storage'[Slot(Plus(tail', i - 1))]]
    BY DEF Waiting, Plus, Slot, Distance
  <2> QED BY <2>1, <1>0, <1>1
<1>3. ASSUME NEW i \in 1 .. D + n
      PROVE  storage[Slot(Plus(tail, i - 1))] = (Waiting \o pBlock)[i]
  <2>1. CASE i <= D
    <3>1. (Waiting \o pBlock)[i] = Waiting[i]
      BY <1>0, <2>1, ConcatProperties DEF n
    <3> QED BY <1>0, <2>1, <3>1
  <2>2. CASE i > D
    <3> DEFINE k == i - D - 1
    <3>1. k \in 0 .. n - 1 /\ k \in Nat /\ k + 1 = i - D /\ D + k = i - 1 /\ D + k < Word
      BY <1>0, <2>2
    <3> HIDE DEF k
    <3>2. Plus(Plus(tail, D), k) = Plus(tail, i - 1)
      BY <1>0, <3>1, PlusPlus
    <3>3. Plus(tail, D) = head
      BY <1>0, PlusDistance DEF D
    <3>4. storage[Slot(Plus(tail, i - 1))] = pBlock[k + 1]
      BY <1>0, <3>1, <3>2, <3>3
    <3>5. (Waiting \o pBlock)[i] = pBlock[i - D]
      BY <1>0, <2>2, ConcatProperties DEF n
    <3> QED BY <3>1, <3>4, <3>5
  <2>3. i <= D \/ i > D
    <3>1. D \in Int /\ i \in Int
      BY <1>0
    <3> QED BY <3>1
  <2> QED BY <2>1, <2>2, <2>3
<1>4. Waiting' = Waiting \o pBlock
  <2>1. Waiting \o pBlock \in Seq(Values) /\ Len(Waiting \o pBlock) = D + n
    BY <1>0, ConcatProperties DEF n
  <2>2. Waiting \o pBlock = [i \in 1 .. D + n |-> (Waiting \o pBlock)[i]]
    BY <2>1, SeqAsFunction
  <2> QED BY <1>2, <1>3, <2>2
<1> QED BY <1>0, <1>4 DEF n

\* The two copies of pop() copy out what waited longest.
LEMMA FirstCopied ==
  ASSUME RingInv, PopFirst
  PROVE  /\ Len(out') = BeforeWrap(tail, cCount)
         /\ \A k \in 1 .. BeforeWrap(tail, cCount) : out'[k] = Waiting[k]
<1> DEFINE c == BeforeWrap(tail, cCount)
<1>0. /\ tail \in Index /\ cCount \in 1 .. Capacity /\ cCount <= Distance(head, tail)
      /\ Distance(head, tail) \in Nat
      /\ Slot(tail) \in 0 .. Capacity - 1 /\ Capacity \in Nat
      /\ \A i \in 1 .. Distance(head, tail) : Waiting[i] = storage[Slot(Plus(tail, i - 1))]
      /\ out' = Samples(Slot(tail), Slot(tail) + c - 1)
  BY Counters, CountInPop, SlotIsIn, WaitingFacts, WordFacts DEF PopFirst, RingInv, TypeInv
<1>1. c \in 1 .. cCount /\ c \in Nat
  BY <1>0, CutFacts
<1>2. Len(out') = c
  BY <1>0, CopiesType DEF RingInv, TypeInv
<1>3. ASSUME NEW k \in 1 .. c PROVE out'[k] = Waiting[k]
  <2>1. Slot(Plus(tail, k - 1)) = Slot(tail) + (k - 1)
    <3>1. k - 1 \in 0 .. c - 1
      BY <1>1
    <3> QED BY <1>0, <3>1, SlotOfFirst
  <2>2. k \in 1 .. Distance(head, tail)
    BY <1>0, <1>1
  <2>3. out'[k] = storage[Slot(tail) + k - 1]
    <3>1. (Slot(tail) + c - 1) - Slot(tail) + 1 = c
      BY <1>0, <1>1
    <3> HIDE DEF c
    <3> QED BY <1>0, <3>1 DEF Samples
  <2>4. Slot(tail) + (k - 1) = Slot(tail) + k - 1
    BY <1>0
  <2> QED BY <1>0, <2>1, <2>2, <2>3, <2>4
<1> QED BY <1>2, <1>3

\* After its second copy pop() holds the samples that waited longest.
LEMMA RestCopied ==
  ASSUME RingInv, Copied, PopRest
  PROVE  /\ Len(out') = cCount
         /\ \A k \in 1 .. cCount : out'[k] = Waiting[k]
<1> DEFINE c == BeforeWrap(tail, cCount)
           r == Samples(0, cCount - c - 1)
<1>0. /\ tail \in Index /\ cCount \in 1 .. Capacity /\ cCount <= Distance(head, tail)
      /\ Distance(head, tail) \in Nat /\ Capacity \in Nat
      /\ \A i \in 1 .. Distance(head, tail) : Waiting[i] = storage[Slot(Plus(tail, i - 1))]
      /\ out' = out \o r /\ out \in Seq(Values)
      /\ Len(out) = c /\ \A k \in 1 .. c : out[k] = Waiting[k]
  BY Counters, CountInPop, WaitingFacts, WordFacts
  DEF PopRest, RingInv, TypeInv, RingTypeOK, Values, Copied
<1>1. c \in 1 .. cCount /\ c \in Nat /\ cCount \in Nat
  BY <1>0, CutFacts
<1>2. r \in Seq(Values) /\ Len(r) = cCount - c
  BY <1>0, CopiesType DEF RingInv, TypeInv, Values
<1>3. ASSUME NEW j \in 1 .. cCount - c PROVE r[j] = Waiting[j + c]
  <2>1. r[j] = storage[j - 1]
    <3>1. (cCount - c - 1) - 0 + 1 = cCount - c /\ 0 + j - 1 = j - 1
      BY <1>1
    <3> HIDE DEF c
    <3> QED BY <3>1 DEF Samples
  <2> HIDE DEF r
  <2> DEFINE k == (j + c) - 1
  <2>2. k \in c .. cCount - 1 /\ k - c = j - 1 /\ j + c \in 1 .. Distance(head, tail)
    BY <1>0, <1>1
  <2>3. Slot(Plus(tail, k)) = j - 1
    <3> HIDE DEF k
    <3>1. Slot(Plus(tail, k)) = k - c
      BY <1>0, <2>2, SlotOfRest
    <3> QED BY <2>2, <3>1
  <2> HIDE DEF c
  <2> QED BY <1>0, <2>1, <2>2, <2>3
<1> HIDE DEF r, c
<1>4. Len(out') = cCount
  <2>1. Len(out \o r) = c + (cCount - c)
    BY <1>0, <1>2, ConcatProperties
  <2> QED BY <1>0, <1>1, <2>1
<1>5. ASSUME NEW k \in 1 .. cCount PROVE out'[k] = Waiting[k]
  <2>1. (out \o r)[k] = IF k <= c THEN out[k] ELSE r[k - c]
    <3>1. k \in 1 .. c + (cCount - c)
      BY <1>1
    <3> QED BY <1>0, <1>2, <3>1, ConcatProperties
  <2>2. CASE k <= c
    <3>1. k \in 1 .. c
      BY <1>1, <2>2
    <3> QED BY <1>0, <2>1, <2>2, <3>1
  <2>3. CASE ~ (k <= c)
    <3>1. k - c \in 1 .. cCount - c /\ (k - c) + c = k
      BY <1>1, <2>3
    <3> QED BY <1>0, <1>3, <2>1, <2>3, <3>1
  <2> QED BY <2>2, <2>3
<1> QED BY <1>4, <1>5

\* A step of the ring that is none of the FIFO.
LEMMA KeepsWaiting ==
  ASSUME RingInv, UNCHANGED <<storage, head, tail>>
  PROVE  Waiting' = Waiting
BY SameWaiting, WaitingFacts

\* What pop() has copied so far are the samples that waited longest.
LEMMA CopiedStep ==
  ASSUME RingInv, Written, Copied, [RingNext]_ringVars
  PROVE  Copied'
<1>1. ASSUME UNCHANGED <<storage, head, tail, cPc, cCount, out>> PROVE Copied'
  BY <1>1, KeepsWaiting DEF Copied
<1>2. ASSUME cPc' \in {"idle", "first"} PROVE Copied'
  BY <1>2 DEF Copied
<1>3. ASSUME NEW b \in Block, PushAdmit(b) \/ PushRefuse(b) PROVE Copied'
  BY <1>1, <1>3 DEF PushAdmit, PushRefuse, consumerVars
<1>4. CASE PushFirst \/ PushRest
  <2>1. UNCHANGED <<tail, cPc, cCount, out>>
    BY <1>4 DEF PushFirst, PushRest, consumerVars
  <2>2. Waiting' = Waiting
    BY <1>4, WriteKeepsWaiting
  <2> QED BY <2>1, <2>2 DEF Copied
<1>5. CASE PushPublish
  <2>1. UNCHANGED <<tail, cPc, cCount, out>>
    BY <1>5 DEF PushPublish, consumerVars
  <2>2. CASE cPc \in {"rest", "publish"}
    <3>1. /\ cCount \in 1 .. Capacity /\ cCount <= Len(Waiting)
          /\ Waiting \in Seq(Values) /\ pBlock \in Seq(Values)
          /\ Len(pBlock) \in Nat /\ Len(Waiting) \in Nat
          /\ Waiting' = Waiting \o pBlock
      BY <1>5, <2>2, CountInPop, WaitingFacts, BlockInPush, PublishAppends DEF PushPublish
    <3>2. BeforeWrap(tail, cCount) \in 1 .. cCount
      BY <3>1, Counters, CutFacts, WordFacts DEF RingInv, TypeInv
    <3>3. \A k \in 1 .. cCount : Waiting'[k] = Waiting[k]
      <4> TAKE k \in 1 .. cCount
      <4>1. k \in 1 .. Len(Waiting) + Len(pBlock) /\ k <= Len(Waiting)
        BY <3>1
      <4> QED BY <3>1, <4>1, ConcatProperties
    <3>4. \A k \in 1 .. BeforeWrap(tail, cCount) : Waiting'[k] = Waiting[k]
      <4> TAKE k \in 1 .. BeforeWrap(tail, cCount)
      <4>1. k \in 1 .. cCount
        BY <3>1, <3>2
      <4> QED BY <3>3, <4>1
    <3> QED BY <2>1, <3>3, <3>4 DEF Copied
  <2>3. CASE cPc \notin {"rest", "publish"}
    BY <2>1, <2>3 DEF Copied
  <2> QED BY <2>2, <2>3
<1>6. ASSUME NEW n \in 1 .. Capacity, PopAdmit(n) \/ PopRefuse(n) PROVE Copied'
  BY <1>2, <1>6 DEF PopAdmit, PopRefuse
<1>7. CASE PopFirst
  <2>1. UNCHANGED <<tail, cCount>> /\ Waiting' = Waiting
    BY <1>7, KeepsWaiting DEF PopFirst, producerVars
  <2>2. /\ Len(out') = BeforeWrap(tail, cCount)
        /\ \A k \in 1 .. BeforeWrap(tail, cCount) : out'[k] = Waiting[k]
    BY <1>7, FirstCopied
  <2>3. cPc' = "publish" => BeforeWrap(tail, cCount) = cCount
    <3>1. tail \in Index /\ cCount \in 1 .. Capacity
      BY <1>7, Counters, CountInPop DEF RingInv, TypeInv, PopFirst
    <3> QED BY <1>7, <3>1, NoRest DEF PopFirst
  <2>4. CASE cPc' = "publish"
    BY <2>1, <2>2, <2>3, <2>4 DEF Copied
  <2>5. CASE cPc' = "rest"
    BY <2>1, <2>2, <2>5 DEF Copied
  <2> QED BY <1>7, <2>4, <2>5 DEF PopFirst
<1>8. CASE PopRest
  <2>1. UNCHANGED <<tail, cCount>> /\ Waiting' = Waiting /\ cPc' = "publish"
    BY <1>8, KeepsWaiting DEF PopRest, producerVars
  <2> QED BY <1>8, <2>1, RestCopied DEF Copied
<1>9. CASE PopPublish
  BY <1>2, <1>9 DEF PopPublish
<1>10. ASSUME NEW h \in Visible(cSeen, head), Look(h) PROVE Copied'
  BY <1>2, <1>10 DEF Look
<1>11. CASE Reset
  BY <1>2, <1>11 DEF Reset
<1>12. CASE UNCHANGED ringVars
  BY <1>1, <1>12 DEF ringVars, consumerVars
<1> QED
  BY <1>3, <1>4, <1>5, <1>6, <1>7, <1>8, <1>9, <1>10, <1>11, <1>12 DEF RingNext

\* The store of tail_ takes what was copied out from what waits.
LEMMA PublishTakes ==
  ASSUME RingInv, Copied, PopPublish
  PROVE  Fifo!Pop(cCount) /\ cCount \in 1 .. Len(Waiting)
<1> DEFINE D == Distance(head, tail)
           n == cCount
<1>0. /\ head \in Index /\ tail \in Index /\ n \in 1 .. Capacity /\ n \in Nat /\ n <= D
      /\ D \in Nat /\ D <= Capacity
      /\ Capacity \in Nat /\ Word \in Nat /\ Capacity < Word
      /\ Waiting \in Seq(Values) /\ Len(Waiting) = D
      /\ \A i \in 1 .. D : Waiting[i] = storage[Slot(Plus(tail, i - 1))]
      /\ out \in Seq(Values) /\ Len(out) = n /\ \A k \in 1 .. n : out[k] = Waiting[k]
      /\ head' = head /\ storage' = storage /\ tail' = Plus(tail, n) /\ taken' = taken \o out
  BY Counters, CountInPop, WaitingFacts, WordFacts
  DEF PopPublish, RingInv, TypeInv, RingTypeOK, Values, Copied, producerVars
<1> HIDE DEF D, n
<1>1. /\ SubSeq(Waiting, 1, n) \in Seq(Values)
      /\ Len(SubSeq(Waiting, 1, n)) = n
      /\ \A i \in 1 .. n : SubSeq(Waiting, 1, n)[i] = Waiting[i]
  <2>1. \A i \in 1 .. n : Waiting[i] \in Values
    BY <1>0
  <2>2. n - 1 + 1 = n /\ 1 <= n
    BY <1>0
  <2>3. \A i \in 1 .. n : 1 + i - 1 = i
    BY <1>0
  <2> QED BY <1>0, <2>1, <2>2, <2>3, SubSeqProperties
<1>2. out = SubSeq(Waiting, 1, n)
  BY <1>0, <1>1, SeqEqual
<1> DEFINE rest == SubSeq(Waiting, n + 1, D)
<1>3. /\ rest \in Seq(Values)
      /\ Len(rest) = D - n
      /\ \A i \in 1 .. D - n : rest[i] = Waiting[n + i]
  <2>1. \A i \in n + 1 .. D : Waiting[i] \in Values
    BY <1>0
  <2>2. n + 1 \in Int /\ D \in Int /\ D - (n + 1) + 1 = D - n
    BY <1>0
  <2>3. (IF n + 1 <= D THEN D - (n + 1) + 1 ELSE 0) = D - n
    BY <1>0
  <2>4. \A i \in 1 .. D - n : (n + 1) + i - 1 = n + i
    BY <1>0
  <2> QED BY <2>1, <2>2, <2>3, <2>4, SubSeqProperties
<1> HIDE DEF rest
<1>4. Distance(head, Plus(tail, n)) = D - n
  BY <1>0, AdvanceNear DEF D
<1>5. Waiting' = [i \in 1 .. D - n |-> storage[Slot(Plus(Plus(tail, n), i - 1))]]
  <2>1. Waiting' = [i \in 1 .. Distance(head', tail') |-> storage'[Slot(Plus(tail', i - 1))]]
    BY DEF Waiting, Plus, Slot, Distance
  <2> QED BY <2>1, <1>0, <1>4
<1>6. ASSUME NEW i \in 1 .. D - n
      PROVE  storage[Slot(Plus(Plus(tail, n), i - 1))] = rest[i]
  <2>1. i - 1 \in Nat /\ n + (i - 1) < Word /\ n + (i - 1) = (n + i) - 1
    BY <1>0
  <2>2. n + i \in 1 .. D
    BY <1>0
  <2>3. Plus(Plus(tail, n), i - 1) = Plus(tail, (n + i) - 1)
    BY <1>0, <2>1, PlusPlus
  <2> QED BY <1>0, <1>3, <2>2, <2>3
<1>7. Waiting' = rest
  <2>1. rest = [i \in 1 .. D - n |-> rest[i]]
    BY <1>3, SeqAsFunction
  <2> QED BY <1>5, <1>6, <2>1
<1> QED BY <1>0, <1>2, <1>7 DEF Fifo!Pop, rest, n

FifoInv == RingInv /\ Written /\ Copied

\* The inductive invariant holds throughout.
LEMMA FifoInvariance == RingSpec => []FifoInv
<1>1. RingInit => FifoInv
  BY TypeInit, ArcInit DEF RingInit, FifoInv, RingInv, Written, Copied
<1>2. FifoInv /\ [RingNext]_ringVars => FifoInv'
  BY TypeStep, ArcStep, WrittenStep, CopiedStep DEF FifoInv, RingInv
<1> QED BY <1>1, <1>2, PTL DEF RingSpec

\* Every step is a step of the abstract buffer, or changes nothing of it.
LEMMA FifoStep ==
  ASSUME FifoInv, [RingNext]_ringVars
  PROVE  [Fifo!Next]_(Fifo!vars)
<1> USE DEF FifoInv
<1>1. ASSUME UNCHANGED <<storage, head, tail, taken>> PROVE UNCHANGED Fifo!vars
  BY <1>1, KeepsWaiting DEF Fifo!vars
<1>2. ASSUME NEW b \in Block, PushAdmit(b) \/ PushRefuse(b) PROVE UNCHANGED Fifo!vars
  BY <1>1, <1>2 DEF PushAdmit, PushRefuse, consumerVars
<1>3. CASE PushFirst \/ PushRest
  <2>1. taken' = taken
    BY <1>3 DEF PushFirst, PushRest, consumerVars
  <2> QED BY <1>3, <2>1, WriteKeepsWaiting DEF Fifo!vars
<1>4. CASE PushPublish
  <2>1. taken' = taken
    BY <1>4 DEF PushPublish, consumerVars
  <2>2. Fifo!Push(pBlock) /\ pBlock \in Block
    BY <1>4, <2>1, PublishAppends DEF Fifo!Push
  <2> QED BY <2>2 DEF Fifo!Next
<1>5. ASSUME NEW n \in 1 .. Capacity, PopAdmit(n) \/ PopRefuse(n) PROVE UNCHANGED Fifo!vars
  BY <1>1, <1>5 DEF PopAdmit, PopRefuse, producerVars
<1>6. CASE PopFirst \/ PopRest
  BY <1>1, <1>6 DEF PopFirst, PopRest, producerVars
<1>7. CASE PopPublish
  BY <1>7, PublishTakes DEF Fifo!Next
<1>8. ASSUME NEW h \in Visible(cSeen, head), Look(h) PROVE UNCHANGED Fifo!vars
  BY <1>1, <1>8 DEF Look, producerVars
<1>9. CASE Reset
  <2>1. Waiting' = [i \in 1 .. Distance(head', tail') |-> storage'[Slot(Plus(tail', i - 1))]]
    BY DEF Waiting, Plus, Slot, Distance
  <2>2. Distance(head', tail') = 0
    BY <1>9, SmallIndices, DistanceRange DEF Reset
  <2>3. Waiting' = <<>> /\ taken' = taken
    BY <1>9, <2>1, <2>2 DEF Reset
  <2> QED BY <2>3 DEF Fifo!Clear, Fifo!Next
<1>10. CASE UNCHANGED ringVars
  BY <1>1, <1>10 DEF ringVars, consumerVars
<1> QED
  BY <1>2, <1>3, <1>4, <1>5, <1>6, <1>7, <1>8, <1>9, <1>10 DEF RingNext

\* The ring is a bounded FIFO of samples that moves whole blocks: no sample is
\* lost, doubled, reordered, torn from its block, accepted beyond capacity, or
\* read before it is written.
THEOREM RingRefinesSampleFifo == RingSpec => RefinesSampleFifo
<1>1. RingInit => Fifo!Init
  <2> SUFFICES ASSUME RingInit PROVE Waiting = <<>> /\ taken = <<>>
    BY DEF Fifo!Init
  <2>1. Distance(head, tail) = 0
    BY SmallIndices, DistanceRange DEF RingInit
  <2> QED BY <2>1 DEF Waiting, RingInit
<1>2. FifoInv /\ [RingNext]_ringVars => [Fifo!Next]_(Fifo!vars)
  BY FifoStep
<1> QED
  BY <1>1, <1>2, FifoInvariance, PTL DEF RingSpec, RefinesSampleFifo, Fifo!Spec

-----------------------------------------------------------------------------
(* The audio input: it is a client of the ring.                            *)

\* What read() saw is still there.
ReadInv ==
  /\ delivered \in 0 .. MaxFrames
  /\ reading \in Nat
  /\ reading > 0 => cPc = "idle" /\ Available >= reading

InputInv == FifoInv /\ ReadInv

\* What a burst delivers is a block that the ring accepts.
LEMMA BurstIsBlock ==
  ASSUME NEW d \in 0 .. MaxFrames, NEW n \in BurstSizes, d + n <= MaxFrames
  PROVE  Burst(d, n) \in Block
BY InputAssumption

\* The ranges of the ring's counters, from its invariant.
LEMMA RingInvFacts ==
  ASSUME FifoInv
  PROVE  /\ RingTypeOK /\ Arc
         /\ head \in Index /\ tail \in Index /\ pSeen \in Index /\ cSeen \in Index
         /\ Unseen \in Nat /\ Available \in Nat /\ Reclaimed \in Nat
         /\ Unseen + Available + Reclaimed <= Capacity
         /\ Capacity \in Nat /\ Word \in Nat /\ Capacity < Word
BY Counters, Ranges, WordFacts DEF FifoInv, RingInv, TypeInv, Arc

\* Any head_ the consumer may load leaves at least the samples it saw before.
LEMMA VisibleAvailable ==
  ASSUME FifoInv, NEW h \in Visible(cSeen, head)
  PROVE  /\ Distance(h, tail) \in Nat
         /\ Distance(h, tail) >= Available
         /\ Distance(h, tail) <= Capacity
<1>b. /\ head \in Index /\ tail \in Index /\ cSeen \in Index
      /\ Unseen \in Nat /\ Available \in Nat /\ Reclaimed \in Nat
      /\ Unseen + Available + Reclaimed <= Capacity
      /\ Capacity \in Nat /\ Word \in Nat /\ Capacity < Word
  BY RingInvFacts
<1>1. /\ h \in Index /\ Distance(head, h) \in Nat /\ Distance(h, cSeen) \in Nat
      /\ Unseen = Distance(head, h) + Distance(h, cSeen)
  BY <1>b, VisibleFacts DEF Unseen
<1>2. Distance(h, tail) = Distance(h, cSeen) + Available
  BY <1>b, <1>1, DistancesAdd DEF Available
<1> QED BY <1>b, <1>1, <1>2

\* Every step of the input is one of the ring, or none.
LEMMA RingStep ==
  ASSUME InputInv, [Next]_vars
  PROVE  [RingNext]_ringVars
<1>1. ASSUME NEW n \in BurstSizes, CallbackPush(n) \/ CallbackDrop(n) PROVE RingNext
  <2>1. delivered \in 0 .. MaxFrames /\ delivered + n <= MaxFrames
    BY <1>1 DEF CallbackPush, CallbackDrop, InputInv, ReadInv
  <2>2. Burst(delivered, n) \in Block
    BY <2>1, BurstIsBlock
  <2>3. PushAdmit(Burst(delivered, n)) \/ PushRefuse(Burst(delivered, n))
    BY <1>1 DEF CallbackPush, CallbackDrop
  <2> QED BY <2>2, <2>3 DEF RingNext
<1>2. CASE CallbackCopy
  BY <1>2 DEF CallbackCopy, RingNext
<1>3. ASSUME NEW n \in ReadSizes, ReadAvailable(n) PROVE RingNext
  BY <1>3 DEF ReadAvailable, RingNext
<1>4. CASE ReadPop
  <2>1. reading \in Nat /\ reading > 0 /\ PopAdmit(reading)
    BY <1>4 DEF ReadPop, InputInv, ReadInv
  <2>2. Available >= reading
    BY <2>1 DEF InputInv, ReadInv
  <2>3. reading \in 1 .. Capacity
    BY <2>1, <2>2, RingInvFacts DEF InputInv
  <2> QED BY <2>1, <2>3 DEF RingNext
<1>5. CASE ReadCopy
  BY <1>5 DEF ReadCopy, RingNext
<1>6. CASE NativeOpenInput \/ Disconnect \/ StartStream \/ StartMark \/ StopClear
           \/ StopStream \/ DestroyStream \/ DestroyMembers
  BY <1>6 DEF NativeOpenInput, Disconnect, StartStream, StartMark, StopClear,
              StopStream, DestroyStream, DestroyMembers
<1>7. CASE UNCHANGED vars
  BY <1>7 DEF vars
<1> QED BY <1>1, <1>2, <1>3, <1>4, <1>5, <1>6, <1>7 DEF Next

\* The invariant of the ring survives every step of the ring.
LEMMA FifoInvStep ==
  ASSUME FifoInv, [RingNext]_ringVars
  PROVE  FifoInv'
BY TypeStep, ArcStep, WrittenStep, CopiedStep DEF FifoInv, RingInv

\* What the consumer saw does not shrink while it is not in pop().
LEMMA AvailableKept ==
  ASSUME UNCHANGED <<cSeen, tail>>
  PROVE  Available' = Available
BY DEF Available

\* What holds inside read() survives a step that leaves the consumer alone.
LEMMA ReadInvKept ==
  ASSUME ReadInv, delivered' \in 0 .. MaxFrames,
         reading' = reading, cPc' = cPc, UNCHANGED <<cSeen, tail>>
  PROVE  ReadInv'
<1>1. reading' \in Nat
  BY DEF ReadInv
<1>2. reading' > 0 => cPc' = "idle"
  BY DEF ReadInv
<1>3. reading' > 0 => (Available >= reading)'
  <2>1. Available' = Available
    BY AvailableKept
  <2>2. reading > 0 => Available >= reading
    BY DEF ReadInv
  <2> HIDE DEF Available
  <2> QED BY <2>1, <2>2
<1> QED BY <1>1, <1>2, <1>3 DEF ReadInv

\* What holds inside read() survives every step.
LEMMA ReadInvStep ==
  ASSUME InputInv, [Next]_vars
  PROVE  ReadInv'
<1>a. ReadInv
  BY DEF InputInv
<1>b. /\ delivered \in 0 .. MaxFrames /\ MaxFrames \in Nat
      /\ reading \in Nat /\ (reading > 0 => cPc = "idle" /\ Available >= reading)
      /\ BurstSizes \subseteq Nat /\ ReadSizes \subseteq Nat
  BY <1>a, InputAssumption DEF ReadInv
<1>1. ASSUME NEW n \in BurstSizes, CallbackPush(n) \/ CallbackDrop(n) PROVE ReadInv'
  <2>1. delivered' = delivered + n /\ delivered + n <= MaxFrames
    BY <1>1 DEF CallbackPush, CallbackDrop
  <2>2. UNCHANGED <<reading, cPc, cSeen, tail>>
    BY <1>1 DEF CallbackPush, CallbackDrop, PushAdmit, PushRefuse, consumerVars
  <2>3. delivered' \in 0 .. MaxFrames
    BY <1>b, <2>1
  <2> QED BY <1>a, <2>2, <2>3, ReadInvKept
<1>2. CASE CallbackCopy
  <2>1. UNCHANGED <<delivered, reading, cPc, cSeen, tail>>
    BY <1>2 DEF CallbackCopy, inputVars, PushFirst, PushRest, PushPublish, consumerVars
  <2> QED BY <1>a, <1>b, <2>1, ReadInvKept
<1>3. ASSUME NEW n \in ReadSizes, ReadAvailable(n) PROVE ReadInv'
  <2>1. PICK h \in Visible(cSeen, head) :
          /\ Look(h)
          /\ reading' = IF Distance(h, tail) < n THEN Distance(h, tail) ELSE n
    BY <1>3 DEF ReadAvailable
  <2>2. Distance(h, tail) \in Nat /\ n \in Nat
    BY <1>b, VisibleAvailable DEF InputInv
  <2>3. cPc' = "idle" /\ cSeen' = h /\ tail' = tail /\ delivered' = delivered
    BY <1>3, <2>1 DEF Look, ReadAvailable
  <2>4. Available' = Distance(h, tail)
    BY <2>3 DEF Available
  <2>5. reading' \in Nat /\ reading' <= Distance(h, tail)
    BY <2>1, <2>2
  <2> QED BY <1>b, <2>3, <2>4, <2>5 DEF ReadInv
<1>4. CASE ReadPop
  BY <1>b, <1>4 DEF ReadPop, ReadInv
<1>5. CASE ReadCopy
  <2>1. UNCHANGED <<delivered, reading>> /\ cPc # "idle"
    BY <1>5 DEF ReadCopy, inputVars, PopFirst, PopRest, PopPublish
  <2>2. reading = 0
    BY <1>b, <2>1
  <2> QED BY <1>b, <2>1, <2>2 DEF ReadInv
<1>6. CASE NativeOpenInput \/ Disconnect \/ StartStream \/ StartMark \/ StopClear
           \/ StopStream \/ DestroyStream \/ DestroyMembers
  <2>1. UNCHANGED <<delivered, reading, cPc, cSeen, tail>>
    BY <1>6 DEF NativeOpenInput, Disconnect, StartStream, StartMark, StopClear,
                StopStream, DestroyStream, DestroyMembers, ringVars, consumerVars
  <2> QED BY <1>a, <1>b, <2>1, ReadInvKept
<1>7. CASE UNCHANGED vars
  <2>1. UNCHANGED <<delivered, reading, cPc, cSeen, tail>>
    BY <1>7 DEF vars, inputVars, ringVars, consumerVars
  <2> QED BY <1>a, <1>b, <2>1, ReadInvKept
<1> QED BY <1>1, <1>2, <1>3, <1>4, <1>5, <1>6, <1>7 DEF Next

\* The invariants of the ring and of read() hold throughout.
LEMMA InputInvariance == Spec => []InputInv
<1>1. Init => InputInv
  <2>1. RingInit => FifoInv
    BY TypeInit, ArcInit DEF RingInit, FifoInv, RingInv, Written, Copied
  <2> QED BY <2>1, InputAssumption DEF Init, InputInv, ReadInv
<1>2. InputInv /\ [Next]_vars => InputInv'
  BY RingStep, FifoInvStep, ReadInvStep DEF InputInv
<1> QED BY <1>1, <1>2, PTL DEF Spec

\* OboeInput is a client of the ring: what holds of every behaviour of the ring
\* holds of the audio input.
THEOREM InputUsesRing == Spec => RingSpec
<1>1. Init => RingInit
  BY DEF Init
<1>2. InputInv /\ [Next]_vars => [RingNext]_ringVars
  BY RingStep
<1> QED BY <1>1, <1>2, InputInvariance, PTL DEF Spec, RingSpec

\* The audio callback and read() never copy to and from the same slot.
THEOREM InputNoCopyRace == Spec => []NoCopyRace
BY InputUsesRing, RingNoCopyRace, PTL

\* The samples read() returns are those the callback pushed, in order.
THEOREM InputRefinesSampleFifo == Spec => RefinesSampleFifo
BY InputUsesRing, RingRefinesSampleFifo, PTL

\* The pop() in read() cannot be refused, whatever the callback does between
\* available() and pop(): its result need not be looked at.
THEOREM InputReadNeverShort == Spec => []ReadNeverShort
<1>1. InputInv => ReadNeverShort
  <2> SUFFICES ASSUME InputInv, reading > 0, NEW h \in Visible(cSeen, head)
               PROVE  Holds(h, tail, reading)
    BY DEF ReadNeverShort
  <2>1. reading \in Nat /\ Available >= reading
    BY DEF InputInv, ReadInv
  <2>2. Distance(h, tail) \in Nat /\ Distance(h, tail) >= Available /\ Available \in Nat
    BY VisibleAvailable, RingInvFacts DEF InputInv
  <2> QED BY <2>1, <2>2 DEF Holds
<1> QED BY <1>1, InputInvariance, PTL

-----------------------------------------------------------------------------
\* The bridge's calls do not race each other: start() is between the start of
\* the stream and the store of active_ only while the stream is started or was
\* lost since, and stop() has cleared active_ before it stops the stream.
LifeInv ==
  /\ ActiveUnlessLost
  /\ bridgePc = "mark" => stream \in {"started", "lost"}
  /\ bridgePc = "stop" => ~active

\* The stream's life agrees with active_ after every step.
LEMMA LifeInvStep ==
  ASSUME LifeInv, [Next]_vars
  PROVE  LifeInv'
<1> USE DEF LifeInv, ActiveUnlessLost
<1>1. CASE UNCHANGED <<stream, active, bridgePc>>
  BY <1>1
<1>2. ASSUME NEW n \in BurstSizes, CallbackPush(n) \/ CallbackDrop(n) PROVE LifeInv'
  BY <1>1, <1>2 DEF CallbackPush, CallbackDrop
<1>3. CASE CallbackCopy \/ ReadCopy \/ UNCHANGED vars
  BY <1>1, <1>3 DEF CallbackCopy, ReadCopy, vars, inputVars
<1>4. CASE (\E n \in ReadSizes : ReadAvailable(n)) \/ ReadPop
  BY <1>1, <1>4 DEF ReadAvailable, ReadPop
<1>5. CASE NativeOpenInput
  \* No stream was there before, so active_ is not set.
  BY <1>5 DEF NativeOpenInput
<1>6. CASE Disconnect
  BY <1>6 DEF Disconnect
<1>7. CASE StartStream \/ StartMark
  BY <1>7 DEF StartStream, StartMark
<1>8. CASE StopClear \/ StopStream
  BY <1>8 DEF StopClear, StopStream
<1>9. CASE DestroyStream \/ DestroyMembers
  BY <1>9 DEF DestroyStream, DestroyMembers
<1> QED BY <1>2, <1>3, <1>4, <1>5, <1>6, <1>7, <1>8, <1>9 DEF Next

\* active_ is true only while the stream runs or after its device was lost, whatever
\* calls were refused.
THEOREM InputActiveUnlessLost == Spec => []ActiveUnlessLost
<1>1. Init => LifeInv
  BY DEF Init, LifeInv, ActiveUnlessLost
<1> QED BY <1>1, LifeInvStep, PTL DEF Spec, LifeInv

-----------------------------------------------------------------------------
\* The frames that were read, and then those that wait.
Heard == taken \o Waiting

Increasing(s) == \A i, j \in 1 .. Len(s) : i < j => s[i] < s[j]

\* A burst of n frames after the first d extends an increasing sequence of those.
LEMMA BurstExtends ==
  ASSUME NEW s \in Seq(Int), NEW d \in Nat, NEW n \in Nat,
         Increasing(s), \A i \in 1 .. Len(s) : s[i] <= d
  PROVE  LET t == s \o Burst(d, n) IN
         /\ t \in Seq(Int) /\ Len(t) = Len(s) + n /\ Increasing(t)
         /\ \A i \in 1 .. Len(t) : t[i] <= d + n
<1> DEFINE b == Burst(d, n)
           t == s \o b
<1>1. b \in Seq(Int) /\ Len(b) = n /\ \A i \in 1 .. n : b[i] = d + i
  BY DEF Burst
<1> HIDE DEF b
<1>2. /\ t \in Seq(Int) /\ Len(t) = Len(s) + n
      /\ \A i \in 1 .. Len(t) : t[i] = IF i <= Len(s) THEN s[i] ELSE b[i - Len(s)]
  BY <1>1
<1> HIDE DEF t
<1>3. \A i \in 1 .. Len(t) :
        /\ t[i] \in Int /\ t[i] <= d + n
        /\ i <= Len(s) => t[i] = s[i] /\ t[i] <= d
        /\ i > Len(s) => t[i] = d + (i - Len(s))
  <2> SUFFICES ASSUME NEW i \in 1 .. Len(t)
               PROVE /\ t[i] \in Int /\ t[i] <= d + n
                     /\ i <= Len(s) => t[i] = s[i] /\ t[i] <= d
                     /\ i > Len(s) => t[i] = d + (i - Len(s))
    OBVIOUS
  <2>1. CASE i <= Len(s)
    <3>1. i \in 1 .. Len(s) /\ s[i] \in Int
      BY <2>1
    <3> QED BY <1>2, <2>1, <3>1
  <2>2. CASE i > Len(s)
    <3>1. i - Len(s) \in 1 .. n
      BY <1>2, <2>2
    <3>2. t[i] = d + (i - Len(s))
      BY <1>1, <1>2, <2>2, <3>1
    <3> QED BY <2>2, <3>1, <3>2
  <2> QED BY <2>1, <2>2
<1>4. Increasing(t)
  <2> SUFFICES ASSUME NEW i \in 1 .. Len(t), NEW j \in 1 .. Len(t), i < j
               PROVE t[i] < t[j]
    BY DEF Increasing
  <2>1. CASE j <= Len(s)
    BY <1>3, <2>1 DEF Increasing
  <2>2. CASE j > Len(s)
    BY <1>3, <2>2
  <2> QED BY <2>1, <2>2
<1> QED BY <1>2, <1>3, <1>4 DEF t, b

\* The frames that were heard are increasing and precede those in the push, which are
\* the last that were delivered.
Account ==
  /\ dropped \in Nat
  /\ delivered = Len(taken) + Len(Waiting) + InPush + dropped
  /\ Heard \in Seq(Int) /\ Increasing(Heard)
  /\ \A i \in 1 .. Len(Heard) : Heard[i] <= delivered - InPush
  /\ pPc # "idle" => pBlock = Burst(delivered - InPush, InPush)

\* Whatever leaves the sequence, the push and the counters alone keeps the account.
LEMMA AccountKept ==
  ASSUME InputInv, Account, taken' = taken, Waiting' = Waiting, dropped' = dropped,
         delivered' = delivered, (pPc' = "idle") = (pPc = "idle"), pBlock' = pBlock
  PROVE  Account'
<1>1. InPush' = InPush
  BY DEF InPush
<1>2. Heard' = Heard
  BY DEF Heard
<1> QED BY <1>1, <1>2 DEF Account

\* What is appended in two pieces is what is appended at once.
LEMMA AppendedInPieces ==
  ASSUME NEW s \in Seq(Values), NEW front \in Seq(Values), NEW rest \in Seq(Values)
  PROVE  /\ (s \o front) \o rest = s \o (front \o rest)
         /\ Len(s \o front) + Len(rest) = Len(s) + Len(front \o rest)
OBVIOUS

\* A sequence is what is cut off from its front and what is left.
LEMMA CutInTwo ==
  ASSUME NEW s \in Seq(Values), NEW w \in Seq(Values), NEW n \in 1 .. Len(w)
  PROVE  LET front == SubSeq(w, 1, n)
             rest == SubSeq(w, n + 1, Len(w))
         IN /\ (s \o front) \o rest = s \o w
            /\ Len(s \o front) + Len(rest) = Len(s) + Len(w)
<1> DEFINE front == SubSeq(w, 1, n)
           rest == SubSeq(w, n + 1, Len(w))
<1>1. front \in Seq(Values) /\ rest \in Seq(Values)
  OBVIOUS
<1>2. front \o rest = w
  <2>1. front \o rest \in Seq(Values) /\ Len(front \o rest) = Len(w)
    OBVIOUS
  <2>2. ASSUME NEW i \in 1 .. Len(w) PROVE (front \o rest)[i] = w[i]
    <3>1. CASE i <= n
      BY <3>1
    <3>2. CASE i > n
      BY <3>2
    <3> QED BY <3>1, <3>2
  <2> HIDE DEF front, rest
  <2> QED BY <2>1, <2>2, SeqEqual
<1> HIDE DEF front, rest
<1>3. /\ (s \o front) \o rest = s \o (front \o rest)
      /\ Len(s \o front) + Len(rest) = Len(s) + Len(front \o rest)
  BY <1>1, AppendedInPieces
<1>4. /\ (s \o front) \o rest = s \o w
      /\ Len(s \o front) + Len(rest) = Len(s) + Len(w)
  BY <1>2, <1>3
<1> QED BY <1>4 DEF front, rest

\* Every step keeps the account.
LEMMA AccountStep ==
  ASSUME InputInv, Account, [Next]_vars
  PROVE  Account'
<1>a. /\ FifoInv /\ RingInv /\ Written /\ Copied /\ RingTypeOK
      /\ delivered \in 0 .. MaxFrames /\ MaxFrames \in Nat /\ BurstSizes \subseteq Nat
      /\ taken \in Seq(Values) /\ Waiting \in Seq(Values)
  BY InputAssumption, RingInvFacts, WaitingFacts
  DEF InputInv, ReadInv, FifoInv, RingTypeOK, Values
<1>1. ASSUME NEW n \in BurstSizes, CallbackPush(n) PROVE Account'
  <2>1. /\ pPc = "idle" /\ pPc' = "first" /\ pBlock' = Burst(delivered, n)
        /\ taken' = taken /\ dropped' = dropped /\ delivered' = delivered + n
        /\ UNCHANGED <<storage, head, tail>> /\ n \in Nat
    BY <1>a, <1>1 DEF CallbackPush, PushAdmit, consumerVars
  <2>2. Waiting' = Waiting /\ Heard' = Heard
    BY <1>a, <2>1, KeepsWaiting DEF Heard
  <2>3. InPush = 0 /\ InPush' = n
    BY <2>1 DEF InPush, Burst
  <2>4. delivered' - InPush' = delivered
    BY <1>a, <2>1, <2>3
  <2>5. delivered' = Len(taken') + Len(Waiting') + InPush' + dropped'
    BY <1>a, <2>1, <2>2, <2>3 DEF Account
  <2>6. \A i \in 1 .. Len(Heard') : Heard'[i] <= delivered' - InPush'
    BY <1>a, <2>2, <2>3, <2>4 DEF Account
  <2>7. pBlock' = Burst(delivered' - InPush', InPush')
    BY <2>1, <2>3, <2>4
  <2> QED BY <2>1, <2>2, <2>5, <2>6, <2>7 DEF Account
<1>2. ASSUME NEW n \in BurstSizes, CallbackDrop(n) PROVE Account'
  <2>1. /\ pPc = "idle" /\ pPc' = "idle"
        /\ taken' = taken /\ dropped' = dropped + n /\ delivered' = delivered + n
        /\ UNCHANGED <<storage, head, tail>> /\ n \in Nat
    BY <1>a, <1>2 DEF CallbackDrop, PushRefuse, consumerVars
  <2>2. Waiting' = Waiting /\ Heard' = Heard
    BY <1>a, <2>1, KeepsWaiting DEF Heard
  <2>3. InPush = 0 /\ InPush' = 0
    BY <2>1 DEF InPush
  <2>4. /\ dropped' \in Nat
        /\ delivered' = Len(taken') + Len(Waiting') + InPush' + dropped'
    BY <1>a, <2>1, <2>2, <2>3 DEF Account
  <2>5. \A i \in 1 .. Len(Heard) : Heard[i] \in Int /\ Heard[i] <= delivered
    BY <1>a, <2>3 DEF Account
  <2>6. \A i \in 1 .. Len(Heard') : Heard'[i] <= delivered' - InPush'
    BY <1>a, <2>1, <2>2, <2>3, <2>5
  <2> QED BY <2>1, <2>2, <2>4, <2>6 DEF Account
<1>3. CASE PushPublish /\ UNCHANGED inputVars
  <2>1. /\ pPc = "publish" /\ pPc' = "idle" /\ taken' = taken
        /\ dropped' = dropped /\ delivered' = delivered
    BY <1>3 DEF PushPublish, consumerVars, inputVars
  <2>2. /\ Waiting' = Waiting \o pBlock /\ pBlock \in Seq(Values)
        /\ InPush = Len(pBlock) /\ InPush' = 0 /\ Len(pBlock) \in Nat
    <3>1. Waiting' = Waiting \o pBlock /\ pBlock \in Block
      BY <1>a, <1>3, PublishAppends
    <3> QED BY <2>1, <3>1, BlockFacts DEF InPush, Values
  <2>3. pBlock = Burst(delivered - InPush, InPush)
    BY <2>1 DEF Account
  <2>4. Heard' = Heard \o pBlock
    <3>1. taken \o (Waiting \o pBlock) = (taken \o Waiting) \o pBlock
      BY <1>a, <2>2
    <3> QED BY <2>1, <2>2, <3>1 DEF Heard
  <2>5. delivered' = Len(taken') + Len(Waiting') + InPush' + dropped'
    BY <1>a, <2>1, <2>2 DEF Account
  <2>6. delivered - InPush \in Nat
    BY <1>a, <2>2 DEF Account
  <2>7. /\ Heard' \in Seq(Int) /\ Increasing(Heard)'
        /\ \A i \in 1 .. Len(Heard') : Heard'[i] <= delivered' - InPush'
    <3> DEFINE h == Heard
               d == delivered - InPush
               n == InPush
               t == h \o Burst(d, n)
    <3>1. /\ h \in Seq(Int) /\ Increasing(h) /\ \A i \in 1 .. Len(h) : h[i] <= d
          /\ d \in Nat /\ n \in Nat /\ d + n = delivered
      BY <1>a, <2>2, <2>6 DEF Account
    <3>2. Heard' = t
      BY <2>3, <2>4
    <3> HIDE DEF h, d, n
    <3>3. t \in Seq(Int) /\ Increasing(t) /\ \A i \in 1 .. Len(t) : t[i] <= d + n
      BY <3>1, BurstExtends
    <3> HIDE DEF t
    <3>4. delivered' - InPush' = d + n
      BY <1>a, <2>1, <2>2, <3>1
    <3>5. Increasing(Heard)'
      BY <3>2, <3>3 DEF Increasing
    <3> QED BY <3>2, <3>3, <3>4, <3>5
  <2> QED BY <2>1, <2>5, <2>7 DEF Account
<1>4. CASE (PushFirst \/ PushRest) /\ UNCHANGED inputVars
  <2>1. /\ pPc # "idle" /\ pPc' # "idle" /\ taken' = taken /\ pBlock' = pBlock
        /\ dropped' = dropped /\ delivered' = delivered
    BY <1>4 DEF PushFirst, PushRest, consumerVars, inputVars
  <2>2. Waiting' = Waiting
    BY <1>a, <1>4, WriteKeepsWaiting
  <2> QED BY <2>1, <2>2, AccountKept
<1>5. CASE PopPublish /\ UNCHANGED inputVars
  <2>1. Fifo!Pop(cCount) /\ cCount \in 1 .. Len(Waiting)
    BY <1>a, <1>5, PublishTakes
  <2>2. /\ taken' = taken \o SubSeq(Waiting, 1, cCount)
        /\ Waiting' = SubSeq(Waiting, cCount + 1, Len(Waiting))
    BY <2>1 DEF Fifo!Pop
  <2>3. /\ pPc' = pPc /\ pBlock' = pBlock /\ dropped' = dropped /\ delivered' = delivered
    BY <1>5 DEF PopPublish, producerVars, inputVars
  <2>4. Heard' = Heard /\ Len(taken') + Len(Waiting') = Len(taken) + Len(Waiting)
    BY <1>a, <2>1, <2>2, CutInTwo DEF Heard
  <2>5. InPush' = InPush
    BY <2>3 DEF InPush
  <2>6. delivered' = Len(taken') + Len(Waiting') + InPush' + dropped'
    BY <2>3, <2>4, <2>5 DEF Account
  <2> QED BY <2>3, <2>4, <2>5, <2>6 DEF Account
<1>6. CASE UNCHANGED <<storage, head, tail, taken, pPc, pBlock, dropped, delivered>>
  BY <1>a, <1>6, KeepsWaiting, AccountKept
<1>7. ASSUME NEW n \in ReadSizes, ReadAvailable(n) PROVE Account'
  BY <1>6, <1>7 DEF ReadAvailable, Look, producerVars
<1>8. CASE ReadPop
  BY <1>6, <1>8 DEF ReadPop, PopAdmit, producerVars
<1>9. CASE ReadCopy
  <2>1. CASE (PopFirst \/ PopRest) /\ UNCHANGED inputVars
    BY <1>6, <2>1 DEF PopFirst, PopRest, producerVars, inputVars
  <2> QED BY <1>5, <1>9, <2>1 DEF ReadCopy
<1>10. CASE NativeOpenInput \/ Disconnect \/ StartStream \/ StartMark \/ StopClear
            \/ StopStream \/ DestroyStream \/ DestroyMembers
  BY <1>6, <1>10 DEF NativeOpenInput, Disconnect, StartStream, StartMark, StopClear,
                     StopStream, DestroyStream, DestroyMembers, ringVars, consumerVars,
                     producerVars
<1>11. CASE UNCHANGED vars
  BY <1>6, <1>11 DEF vars, inputVars, ringVars, consumerVars, producerVars
<1> QED
  BY <1>1, <1>2, <1>3, <1>4, <1>7, <1>8, <1>9, <1>10, <1>11 DEF Next, CallbackCopy

\* The account holds throughout.
LEMMA AccountInvariance == Spec => []Account
<1>1. Init => Account
  <2> SUFFICES ASSUME Init PROVE Account
    OBVIOUS
  <2>1. /\ taken = <<>> /\ pPc = "idle" /\ dropped = 0 /\ delivered = 0
        /\ head = 0 /\ tail = 0
    BY DEF Init, RingInit
  <2>2. Distance(head, tail) = 0
    BY <2>1, SmallIndices, DistanceRange
  <2>3. Waiting = <<>>
    BY <2>2 DEF Waiting
  <2>4. Heard = <<>> /\ InPush = 0
    BY <2>1, <2>3 DEF Heard, InPush
  <2> QED BY <2>1, <2>3, <2>4 DEF Account, Increasing
<1>2. InputInv /\ Account /\ [Next]_vars => Account'
  BY AccountStep
<1> QED BY <1>1, <1>2, InputInvariance, PTL DEF Spec

\* Every frame that the stream delivered is, exactly once and in order, read, waiting in
\* the ring, in the push in progress, or counted by droppedFrames_, for every capacity,
\* every set of burst sizes and every number of frames.
THEOREM InputFramesConserved == Spec => []FramesConserved
<1>1. Account => FramesConserved
  BY DEF Account, FramesConserved, Heard, Increasing
<1> QED BY <1>1, AccountInvariance, PTL

-----------------------------------------------------------------------------
\* The states of the stream and of the bridge.
LifeTypes ==
  /\ stream \in {"none", "open", "started", "lost", "closed"}
  /\ active \in BOOLEAN
  /\ bridgePc \in {"idle", "mark", "stop", "free", "end"}

\* Every step leads from such states to such states.
LEMMA LifeTypesStep ==
  ASSUME LifeTypes, [Next]_vars
  PROVE  LifeTypes'
<1> USE DEF LifeTypes
<1>1. CASE UNCHANGED <<stream, active, bridgePc>>
  BY <1>1
<1>2. ASSUME NEW n \in BurstSizes, CallbackPush(n) \/ CallbackDrop(n) PROVE LifeTypes'
  BY <1>1, <1>2 DEF CallbackPush, CallbackDrop
<1>3. CASE CallbackCopy \/ ReadCopy \/ UNCHANGED vars
  BY <1>1, <1>3 DEF CallbackCopy, ReadCopy, vars, inputVars
<1>4. CASE (\E n \in ReadSizes : ReadAvailable(n)) \/ ReadPop
  BY <1>1, <1>4 DEF ReadAvailable, ReadPop
<1>5. CASE NativeOpenInput \/ Disconnect \/ StartStream \/ StartMark
  BY <1>5 DEF NativeOpenInput, Disconnect, StartStream, StartMark
<1>6. CASE StopClear \/ StopStream
  BY <1>6 DEF StopClear, StopStream
<1>7. CASE DestroyStream \/ DestroyMembers
  BY <1>7 DEF DestroyStream, DestroyMembers
<1> QED BY <1>2, <1>3, <1>4, <1>5, <1>6, <1>7 DEF Next

\* The types of the audio input: among them, that no more frames are dropped than were
\* delivered, and that read() never asks the ring for more than it can hold.
THEOREM InputTypeCorrect == Spec => []TypeOK
<1>1. Init => LifeTypes
  BY DEF Init, LifeTypes
<1>2. Spec => []LifeTypes
  BY <1>1, LifeTypesStep, PTL DEF Spec
<1>3. InputInv /\ Account /\ LifeTypes => TypeOK
  <2> SUFFICES ASSUME InputInv, Account, LifeTypes PROVE TypeOK
    OBVIOUS
  <2>1. RingTypeOK /\ delivered \in 0 .. MaxFrames /\ MaxFrames \in Nat
    BY RingInvFacts, InputAssumption DEF InputInv, ReadInv
  <2>2. reading \in 0 .. Capacity
    <3>1. /\ reading \in Nat /\ (reading > 0 => Available >= reading)
          /\ Available \in Nat /\ Unseen \in Nat /\ Reclaimed \in Nat
          /\ Unseen + Available + Reclaimed <= Capacity /\ Capacity \in Nat
      BY RingInvFacts DEF InputInv, ReadInv
    <3> HIDE DEF Available, Unseen, Reclaimed
    <3> QED BY <3>1
  <2>3. dropped \in 0 .. delivered
    <3>1. Len(taken) \in Nat
      BY <2>1 DEF RingTypeOK
    <3>2. Len(Waiting) \in Nat
      BY WaitingFacts DEF InputInv, FifoInv
    <3>3. InPush \in Nat
      <4>1. pBlock \in Block \cup {<<>>}
        BY <2>1 DEF RingTypeOK
      <4> QED BY <4>1, BlockFacts DEF InPush
    <3>4. /\ dropped \in Nat /\ delivered \in Nat
          /\ delivered = Len(taken) + Len(Waiting) + InPush + dropped
      BY <2>1 DEF Account
    <3> QED BY <3>1, <3>2, <3>3, <3>4
  <2> QED BY <2>1, <2>2, <2>3 DEF LifeTypes, TypeOK
<1> QED BY <1>2, <1>3, InputInvariance, AccountInvariance, PTL
=============================================================================
