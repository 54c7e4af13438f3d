--------------------------- MODULE NoteEventQueue ---------------------------
(***************************************************************************)
(* engine::NoteEventQueue, the lock-free single-producer/single-consumer   *)
(* queue that carries note events from the detector thread to the JNI      *)
(* drain.  One TLA+ step is one shared-memory access:                      *)
(*                                                                         *)
(*   push:  load tail_ (acquire)  ->  write the slot  ->  store head_      *)
(*   pop:   load head_ (acquire)  ->  read the slot   ->  store tail_      *)
(*                                                                         *)
(* Reading a counter (SpscCounters.tla) makes every access that precedes   *)
(* its release store visible, which is why a slot itself needs no further  *)
(* modelling than the order of the steps.                                  *)
(***************************************************************************)
EXTENDS SpscCounters, Sequences

CONSTANTS
  Event,      \* the note events
  NoEvent     \* a slot, or an out parameter, that was never assigned

ASSUME QueueAssumption == NoEvent \notin Event

VARIABLES
  slots,      \* slots_
  head,       \* head_, written by the producer only
  tail,       \* tail_, written by the consumer only
  pPc,        \* where the producer is in push(): "idle", "write" or "publish"
  pSeen,      \* the tail_ the producer saw last
  pEvent,     \* the event push() was called with
  cPc,        \* where the consumer is in pop(): "idle", "read" or "publish"
  cSeen,      \* the head_ the consumer saw last
  out         \* the out parameter of the latest pop() that read a slot

producerVars == <<pPc, pSeen, pEvent>>
consumerVars == <<cPc, cSeen, out>>
queueVars == <<slots, head, tail, producerVars, consumerVars>>

-----------------------------------------------------------------------------
FaultyFull(h, t) == Distance(h, t) > Capacity
Full(h, t) == Distance(h, t) >= Capacity
Empty(h, t) == h = t

QueueInit ==
  /\ slots = [i \in 0 .. Capacity - 1 |-> NoEvent]
  /\ head = 0 /\ tail = 0
  /\ pPc = "idle" /\ pSeen = 0 /\ pEvent = NoEvent
  /\ cPc = "idle" /\ cSeen = 0 /\ out = NoEvent

-----------------------------------------------------------------------------
\* push() loads tail_ and finds room.
PushAdmit(e) ==
  /\ pPc = "idle"
  /\ \E t \in Visible(pSeen, tail) :
       /\ ~Full(head, t)
       /\ pSeen' = t
  /\ pPc' = "write"
  /\ pEvent' = e
  /\ UNCHANGED <<slots, head, tail, consumerVars>>

\* push() loads tail_, finds the queue full and returns false.
PushRefuse ==
  /\ pPc = "idle"
  /\ \E t \in Visible(pSeen, tail) :
       /\ Full(head, t)
       /\ pSeen' = t
  /\ UNCHANGED <<slots, head, tail, pPc, pEvent, consumerVars>>

FaultyPushWrite ==
  /\ pPc = "write"
  /\ slots' = [slots EXCEPT ![Slot(Plus(head, 1))] = pEvent]
  /\ pPc' = "publish"
  /\ UNCHANGED <<head, tail, pSeen, pEvent, consumerVars>>

PushWrite ==
  /\ pPc = "write"
  /\ slots' = [slots EXCEPT ![Slot(head)] = pEvent]
  /\ pPc' = "publish"
  /\ UNCHANGED <<head, tail, pSeen, pEvent, consumerVars>>

PushPublish ==
  /\ pPc = "publish"
  /\ head' = Plus(head, 1)
  /\ pPc' = "idle"
  /\ UNCHANGED <<slots, tail, pSeen, pEvent, consumerVars>>

-----------------------------------------------------------------------------
\* pop() loads head_ and finds an event.
PopAdmit(h) ==
  /\ cPc = "idle"
  /\ h \in Visible(cSeen, head)
  /\ ~Empty(h, tail)
  /\ cSeen' = h
  /\ cPc' = "read"
  /\ UNCHANGED <<slots, head, tail, out, producerVars>>

\* pop() loads head_, finds the queue empty and returns false.
PopRefuse(h) ==
  /\ cPc = "idle"
  /\ h \in Visible(cSeen, head)
  /\ Empty(h, tail)
  /\ cSeen' = h
  /\ UNCHANGED <<slots, head, tail, cPc, out, producerVars>>

PopRead ==
  /\ cPc = "read"
  /\ out' = slots[Slot(tail)]
  /\ cPc' = "publish"
  /\ UNCHANGED <<slots, head, tail, cSeen, producerVars>>

PopPublish ==
  /\ cPc = "publish"
  /\ tail' = Plus(tail, 1)
  /\ cPc' = "idle"
  /\ UNCHANGED <<slots, head, cSeen, out, producerVars>>

\* reset() is only called while no thread is inside push() or pop().
Reset ==
  /\ pPc = "idle" /\ cPc = "idle"
  /\ head' = 0 /\ tail' = 0
  /\ pSeen' = 0 /\ cSeen' = 0
  /\ UNCHANGED <<slots, pPc, pEvent, cPc, out>>

QueueNext ==
  \/ \E e \in Event : PushAdmit(e)
  \/ PushRefuse
  \/ PushWrite
  \/ PushPublish
  \/ \E h \in Visible(cSeen, head) : PopAdmit(h) \/ PopRefuse(h)
  \/ PopRead
  \/ PopPublish
  \/ Reset

QueueSpec == QueueInit /\ [][QueueNext]_queueVars

-----------------------------------------------------------------------------
QueueTypeOK ==
  /\ slots \in [0 .. Capacity - 1 -> Event \cup {NoEvent}]
  /\ head \in 0 .. Word - 1
  /\ tail \in 0 .. Word - 1
  /\ pPc \in {"idle", "write", "publish"}
  /\ pSeen \in 0 .. Word - 1
  /\ pEvent \in Event \cup {NoEvent}
  /\ cPc \in {"idle", "read", "publish"}
  /\ cSeen \in 0 .. Word - 1
  /\ out \in Event \cup {NoEvent}

\* The two plain (non-atomic) accesses to a slot never overlap: while the
\* producer writes slots_[head & mask_], the consumer is not reading that
\* slot.  This is the data race that the release store of tail_ and the
\* acquire load in push() exist to exclude (NoteEventQueue.h:28-36), and it
\* must survive stale loads and the wrap of both counters.
NoSlotRace ==
  ~ (pPc = "write" /\ cPc = "read" /\ Slot(head) = Slot(tail))

\* The events that are published and not taken yet, oldest first.
Taken == IF cPc = "publish" THEN 1 ELSE 0

Waiting ==
  [i \in 1 .. Distance(head, Plus(tail, Taken)) |->
     slots[Slot(Plus(Plus(tail, Taken), i - 1))]]

\* The queue is a bounded FIFO: a push takes effect at the store of head_, a
\* pop at the read of its slot.
Fifo == INSTANCE EventFifo WITH fifo <- Waiting, received <- out

\* Every step is a FIFO step or none, so no event is lost, duplicated,
\* reordered, read before it was written, or accepted beyond capacity.
RefinesFifo == Fifo!Spec
=============================================================================
