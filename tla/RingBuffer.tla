------------------------------ MODULE RingBuffer ------------------------------
(***************************************************************************)
(* engine::dsp::RingBuffer, the lock-free ring that carries samples in     *)
(* blocks from the audio callback to the detector.  Its counters are those *)
(* of SpscCounters.tla; a call moves a block of n samples, with one memcpy *)
(* up to the end of the storage and a second one, from its start, when the *)
(* block wraps:                                                            *)
(*                                                                         *)
(*   push: load tail_ -> copy the first part -> copy the rest -> head_     *)
(*   pop:  load head_ -> copy the first part -> copy the rest -> tail_     *)
(*                                                                         *)
(* A thread is inside a memcpy from the step that enters its phase to the  *)
(* step that completes it, so an overlap of two copies is an overlap of    *)
(* two phases.                                                             *)
(***************************************************************************)
EXTENDS SpscCounters, Sequences

CONSTANTS
  Sample,     \* the samples
  NoSample,   \* a slot that was never written
  Block       \* the blocks of samples push() may be called with

\* A block (numFrames is an int32_t) is too short for head - tail + n to wrap.
ASSUME RingAssumption ==
  /\ NoSample \notin Sample
  /\ Block \subseteq Seq(Sample)
  /\ \A b \in Block : Len(b) > 0 /\ Capacity + Len(b) < Word

VARIABLES
  storage,    \* storage_
  head,       \* head_, written by the producer only
  tail,       \* tail_, written by the consumer only
  pPc,        \* the producer in push(): "idle", "first", "rest" or "publish"
  pSeen,      \* the tail_ the producer saw last
  pBlock,     \* the block push() was called with
  cPc,        \* the consumer in pop(): "idle", "first", "rest" or "publish"
  cSeen,      \* the head_ the consumer saw last
  cCount,     \* the n pop() was called with
  out,        \* the samples pop() has copied out
  taken       \* history: all samples that successful pops returned

producerVars == <<pPc, pSeen, pBlock>>
consumerVars == <<cPc, cSeen, cCount, out, taken>>
ringVars == <<storage, head, tail, producerVars, consumerVars>>

-----------------------------------------------------------------------------
\* first: how many of n samples from counter i on fit before the storage ends.
BeforeWrap(i, n) == IF n < Capacity - Slot(i) THEN n ELSE Capacity - Slot(i)

FaultyFits(h, t, n) == Distance(h, t) + n <= Capacity + 1
Fits(h, t, n) == Plus(Distance(h, t), n) <= Capacity

Holds(h, t, n) == Distance(h, t) >= n

\* The slots of the two memcpy calls of a block of n samples at counter i.
FirstPart(i, n) == Slot(i) .. Slot(i) + BeforeWrap(i, n) - 1
RestPart(i, n) == 0 .. n - BeforeWrap(i, n) - 1

RingInit ==
  /\ storage = [s \in 0 .. Capacity - 1 |-> NoSample]
  /\ head = 0 /\ tail = 0
  /\ pPc = "idle" /\ pSeen = 0 /\ pBlock = <<>>
  /\ cPc = "idle" /\ cSeen = 0 /\ cCount = 0 /\ out = <<>>
  /\ taken = <<>>

-----------------------------------------------------------------------------
\* push() loads tail_ and the block fits.
PushAdmit(b) ==
  /\ pPc = "idle"
  /\ \E t \in Visible(pSeen, tail) :
       /\ Fits(head, t, Len(b))
       /\ pSeen' = t
  /\ pBlock' = b
  /\ pPc' = "first"
  /\ UNCHANGED <<storage, head, tail, consumerVars>>

\* push() loads tail_, the block does not fit, and push() returns false.
PushRefuse(b) ==
  /\ pPc = "idle"
  /\ \E t \in Visible(pSeen, tail) :
       /\ ~Fits(head, t, Len(b))
       /\ pSeen' = t
  /\ UNCHANGED <<storage, head, tail, pPc, pBlock, consumerVars>>

PushFirst ==
  /\ pPc = "first"
  /\ storage' = [s \in DOMAIN storage |->
       IF s \in FirstPart(head, Len(pBlock)) THEN pBlock[s - Slot(head) + 1]
                                             ELSE storage[s]]
  /\ pPc' = IF RestPart(head, Len(pBlock)) # {} THEN "rest" ELSE "publish"
  /\ UNCHANGED <<head, tail, pSeen, pBlock, consumerVars>>

FaultyPushRest ==
  /\ pPc = "rest"
  /\ storage' = [s \in DOMAIN storage |->
       IF s \in RestPart(head, Len(pBlock)) THEN pBlock[s + 1] ELSE storage[s]]
  /\ pPc' = "publish"
  /\ UNCHANGED <<head, tail, pSeen, pBlock, consumerVars>>

PushRest ==
  /\ pPc = "rest"
  /\ storage' = [s \in DOMAIN storage |->
       IF s \in RestPart(head, Len(pBlock))
       THEN pBlock[s + BeforeWrap(head, Len(pBlock)) + 1]
       ELSE storage[s]]
  /\ pPc' = "publish"
  /\ UNCHANGED <<head, tail, pSeen, pBlock, consumerVars>>

PushPublish ==
  /\ pPc = "publish"
  /\ head' = Plus(head, Len(pBlock))
  /\ pPc' = "idle"
  /\ pBlock' = <<>>
  /\ UNCHANGED <<storage, tail, pSeen, consumerVars>>

-----------------------------------------------------------------------------
\* pop(n) loads head_ and n samples are there.
PopAdmit(n) ==
  /\ cPc = "idle"
  /\ n > 0
  /\ \E h \in Visible(cSeen, head) :
       /\ Holds(h, tail, n)
       /\ cSeen' = h
  /\ cCount' = n
  /\ cPc' = "first"
  /\ UNCHANGED <<storage, head, tail, out, taken, producerVars>>

\* pop(n) loads head_, fewer samples are there, and pop() returns false.
PopRefuse(n) ==
  /\ cPc = "idle"
  /\ n > 0
  /\ \E h \in Visible(cSeen, head) :
       /\ ~Holds(h, tail, n)
       /\ cSeen' = h
  /\ UNCHANGED <<storage, head, tail, cPc, cCount, out, taken, producerVars>>

\* The samples in a range of slots.
Samples(first, last) == [i \in 1 .. last - first + 1 |-> storage[first + i - 1]]

PopFirst ==
  /\ cPc = "first"
  /\ out' = Samples(Slot(tail), Slot(tail) + BeforeWrap(tail, cCount) - 1)
  /\ cPc' = IF RestPart(tail, cCount) # {} THEN "rest" ELSE "publish"
  /\ UNCHANGED <<storage, head, tail, cSeen, cCount, taken, producerVars>>

PopRest ==
  /\ cPc = "rest"
  /\ out' = out \o Samples(0, cCount - BeforeWrap(tail, cCount) - 1)
  /\ cPc' = "publish"
  /\ UNCHANGED <<storage, head, tail, cSeen, cCount, taken, producerVars>>

PopPublish ==
  /\ cPc = "publish"
  /\ tail' = Plus(tail, cCount)
  /\ taken' = taken \o out
  /\ out' = <<>> /\ cCount' = 0
  /\ cPc' = "idle"
  /\ UNCHANGED <<storage, head, cSeen, producerVars>>

\* available(), called by the consumer, loads head_.
Look(h) ==
  /\ cPc = "idle"
  /\ h \in Visible(cSeen, head)
  /\ cSeen' = h
  /\ UNCHANGED <<storage, head, tail, cPc, cCount, out, taken, producerVars>>

\* reset() is for a ring that no thread is using.
Reset ==
  /\ pPc = "idle" /\ cPc = "idle"
  /\ head' = 0 /\ tail' = 0
  /\ pSeen' = 0 /\ cSeen' = 0
  /\ UNCHANGED <<storage, pPc, pBlock, cPc, cCount, out, taken>>

RingNext ==
  \/ \E b \in Block : PushAdmit(b) \/ PushRefuse(b)
  \/ PushFirst \/ PushRest \/ PushPublish
  \/ \E n \in 1 .. Capacity : PopAdmit(n) \/ PopRefuse(n)
  \/ PopFirst \/ PopRest \/ PopPublish
  \/ \E h \in Visible(cSeen, head) : Look(h)
  \/ Reset

RingSpec == RingInit /\ [][RingNext]_ringVars

-----------------------------------------------------------------------------
RingTypeOK ==
  /\ storage \in [0 .. Capacity - 1 -> Sample \cup {NoSample}]
  /\ head \in Index
  /\ tail \in Index
  /\ pPc \in {"idle", "first", "rest", "publish"}
  /\ pSeen \in Index
  /\ pBlock \in Block \cup {<<>>}
  /\ cPc \in {"idle", "first", "rest", "publish"}
  /\ cSeen \in Index
  /\ cCount \in 0 .. Capacity
  /\ out \in Seq(Sample \cup {NoSample})
  /\ taken \in Seq(Sample \cup {NoSample})

\* The slots a thread is copying to or from.
Writing ==
  CASE pPc = "first" -> FirstPart(head, Len(pBlock))
    [] pPc = "rest"  -> RestPart(head, Len(pBlock))
    [] OTHER         -> {}

Reading ==
  CASE cPc = "first" -> FirstPart(tail, cCount)
    [] cPc = "rest"  -> RestPart(tail, cCount)
    [] OTHER         -> {}

\* No sample is copied in while it is copied out: the memcpy calls of the two
\* threads never touch a common slot, although each thread may work from a
\* counter of the other that is out of date and although either block may wrap
\* (RingBuffer.h:20-26).
NoCopyRace == Writing \cap Reading = {}

\* The samples published and not taken yet, oldest first.
Waiting ==
  [i \in 1 .. Distance(head, tail) |-> storage[Slot(Plus(tail, i - 1))]]

\* The ring is a bounded FIFO of samples with whole-block transfers: a push
\* takes effect at the store of head_, a pop at the store of tail_.
Fifo == INSTANCE SampleFifo WITH fifo <- Waiting

\* Every step is a FIFO step or none: a block that wraps is neither torn nor
\* rotated, none is accepted beyond capacity, and what pop() copied out is what
\* waited longest.
RefinesSampleFifo == Fifo!Spec
=============================================================================
