---------------------------- MODULE NoteEventFlow ----------------------------
(***************************************************************************)
(* The transport of note events from the detector to the collector of      *)
(* EngineBridge.noteEvents:                                                *)
(*                                                                         *)
(*   detector -> NoteEventQueue -> nativeDrainNoteEvents -> drainFromJni   *)
(*            -> NoteEventFlow (Dispatchers.Default) -> channel -> collector*)
(*                                                                         *)
(* It composes NoteEventQueue (the two native threads, one shared-memory   *)
(* access per step) with the coroutine that drains it.  An event is its    *)
(* sequence number, so that order, loss and duplication can be told apart. *)
(***************************************************************************)
EXTENDS NoteEventQueue, FiniteSets

CONSTANTS
  MaxEvents,    \* bound of the exploration: how many events are detected
  Batch,        \* DRAIN_BATCH_SIZE
  ChannelCap    \* the buffer of the channel that flowOn puts between dispatchers

ASSUME FlowAssumption ==
  /\ MaxEvents \in Nat
  /\ Event = 1 .. MaxEvents
  /\ Batch \in Nat \ {0}
  /\ ChannelCap \in Nat \ {0}

VARIABLES
  detected,     \* the number of the last event the detector is done with
  accepted,     \* history: the events push() accepted, in order
  fPc,          \* the flow's coroutine: "off", "pin", "drain", "emit" or "delay"
  batch,        \* what the native call in progress has copied out
  result,       \* the list drainFromJni() is building, or the flow is emitting
  channel,      \* emitted, and not taken by the collector
  collecting,   \* a collector is active
  received,     \* history: what the collectors were handed, in order
  lost          \* history: events that cancellation threw away

flowVars == <<fPc, batch, result, channel, collecting, received, lost>>
vars == <<queueVars, detected, accepted, flowVars>>

Init ==
  /\ QueueInit
  /\ detected = 0 /\ accepted = <<>>
  /\ fPc = "off" /\ batch = <<>> /\ result = <<>>
  /\ channel = <<>> /\ collecting = FALSE
  /\ received = <<>> /\ lost = {}

Elements(s) == {s[i] : i \in DOMAIN s}

-----------------------------------------------------------------------------
\* The detector.  It is not written yet: all that is assumed of it is that it
\* is one thread that offers its events in order, and that it retries or drops
\* an event that was refused.
Offer ==
  /\ detected < MaxEvents
  /\ PushAdmit(detected + 1)
  /\ UNCHANGED <<detected, accepted, flowVars>>

Refused ==
  /\ detected < MaxEvents
  /\ PushRefuse
  /\ detected' \in {detected, detected + 1}
  /\ UNCHANGED <<accepted, flowVars>>

Write == PushWrite /\ UNCHANGED <<detected, accepted, flowVars>>

Accept ==
  /\ PushPublish
  /\ accepted' = Append(accepted, pEvent)
  /\ detected' = detected + 1
  /\ UNCHANGED flowVars

-----------------------------------------------------------------------------
\* A collector starts the cold flow.  There is never more than one ("collect
\* once per app"): the earlier one, if any, has wound down.
Collect ==
  /\ fPc = "off" /\ ~collecting
  /\ collecting' = TRUE
  /\ fPc' = "pin"
  /\ UNCHANGED <<queueVars, detected, accepted, batch, result, channel,
                 received, lost>>

\* The native call pins its arrays before it pops anything.  When they cannot be
\* pinned it returns 0, and drainFromJni the list it has put together by then.
Pin ==
  /\ fPc = "pin"
  /\ fPc' = "drain"
  /\ UNCHANGED <<queueVars, detected, accepted, batch, result, channel,
                 collecting, received, lost>>

PinFails ==
  /\ fPc = "pin"
  /\ fPc' = "emit"
  /\ UNCHANGED <<queueVars, detected, accepted, batch, result, channel,
                 collecting, received, lost>>

\* while (count < capacity && g_noteEvents.pop(event))
FaultyAdmit(h) ==
  /\ fPc = "drain"
  /\ PopAdmit(h)
  /\ UNCHANGED <<detected, accepted, flowVars>>

Admit(h) ==
  /\ fPc = "drain"
  /\ Len(batch) < Batch
  /\ PopAdmit(h)
  /\ UNCHANGED <<detected, accepted, flowVars>>

Read == PopRead /\ UNCHANGED <<detected, accepted, flowVars>>

Copy ==
  /\ PopPublish
  /\ batch' = Append(batch, out)
  /\ UNCHANGED <<detected, accepted, fPc, result, channel, collecting,
                 received, lost>>

\* The queue looks empty: the native call returns fewer events than it was
\* asked for, and drainFromJni returns the list.
FaultyDrainShort(h) ==
  /\ fPc = "drain"
  /\ Len(batch) < Batch
  /\ PopRefuse(h)
  /\ result' = batch
  /\ batch' = <<>>
  /\ fPc' = "emit"
  /\ UNCHANGED <<detected, accepted, channel, collecting, received, lost>>

DrainShort(h) ==
  /\ fPc = "drain"
  /\ Len(batch) < Batch
  /\ PopRefuse(h)
  /\ result' = result \o batch
  /\ batch' = <<>>
  /\ fPc' = "emit"
  /\ UNCHANGED <<detected, accepted, channel, collecting, received, lost>>

\* A full batch: drainFromJni appends it and calls again.
DrainFull ==
  /\ fPc = "drain"
  /\ Len(batch) = Batch
  /\ result' = result \o batch
  /\ batch' = <<>>
  /\ fPc' = "pin"
  /\ UNCHANGED <<queueVars, detected, accepted, channel, collecting,
                 received, lost>>

\* emit(event) suspends while the channel is full.
Emit ==
  /\ fPc = "emit" /\ collecting
  /\ result # <<>>
  /\ Len(channel) < ChannelCap
  /\ channel' = Append(channel, Head(result))
  /\ result' = Tail(result)
  /\ UNCHANGED <<queueVars, detected, accepted, fPc, batch, collecting,
                 received, lost>>

FaultySleep ==
  /\ fPc = "emit" /\ collecting
  /\ result = <<>>
  /\ fPc' = "off"
  /\ UNCHANGED <<queueVars, detected, accepted, batch, result, channel,
                 collecting, received, lost>>

Sleep ==
  /\ fPc = "emit" /\ collecting
  /\ result = <<>>
  /\ fPc' = "delay"
  /\ UNCHANGED <<queueVars, detected, accepted, batch, result, channel,
                 collecting, received, lost>>

Wake ==
  /\ fPc = "delay" /\ collecting
  /\ fPc' = "pin"
  /\ UNCHANGED <<queueVars, detected, accepted, batch, result, channel,
                 collecting, received, lost>>

Receive ==
  /\ collecting
  /\ channel # <<>>
  /\ received' = Append(received, Head(channel))
  /\ channel' = Tail(channel)
  /\ UNCHANGED <<queueVars, detected, accepted, fPc, batch, result,
                 collecting, lost>>

-----------------------------------------------------------------------------
\* The collector goes away, and with it what the channel buffers.  The flow's
\* coroutine notices at its next suspension point, emit() or delay(), never
\* inside the native drain; what it has drained by then is gone too.
Cancel ==
  /\ collecting
  /\ collecting' = FALSE
  /\ lost' = lost \cup Elements(channel)
  /\ channel' = <<>>
  /\ UNCHANGED <<queueVars, detected, accepted, fPc, batch, result, received>>

CancelSeen ==
  /\ ~collecting
  /\ fPc \in {"emit", "delay"}
  /\ fPc' = "off"
  /\ lost' = lost \cup Elements(result)
  /\ result' = <<>>
  /\ UNCHANGED <<queueVars, detected, accepted, batch, channel, collecting,
                 received>>

-----------------------------------------------------------------------------
DrainStep ==
  \/ Pin
  \/ PinFails
  \/ \E h \in Visible(cSeen, head) : Admit(h) \/ DrainShort(h)
  \/ Read
  \/ Copy
  \/ DrainFull
  \/ Emit
  \/ Sleep
  \/ Wake

Next ==
  \/ Offer
  \/ Refused
  \/ Write
  \/ Accept
  \/ Collect
  \/ DrainStep
  \/ Receive
  \/ Cancel
  \/ CancelSeen

\* The coroutine and its collector keep running, and a store becomes visible
\* to another thread's loads in finite time: a loop that pops again and again
\* does not read a stale head_ forever.  A drain that cannot pin its arrays pops
\* nothing, so nothing is assumed of how often pins succeed, nor of the detector.
Fairness ==
  /\ WF_vars(DrainStep)
  /\ SF_vars(Admit(head))
  /\ WF_vars(Receive)

Spec == Init /\ [][Next]_vars /\ Fairness

-----------------------------------------------------------------------------
TypeOK ==
  /\ QueueTypeOK
  /\ detected \in 0 .. MaxEvents
  /\ accepted \in Seq(Event)
  /\ fPc \in {"off", "pin", "drain", "emit", "delay"}
  /\ batch \in Seq(Event) /\ Len(batch) <= Batch
  /\ result \in Seq(Event)
  /\ channel \in Seq(Event) /\ Len(channel) <= ChannelCap
  /\ collecting \in BOOLEAN
  /\ received \in Seq(Event)
  /\ lost \subseteq Event

\* Everything between the queue and the collector, oldest first.
Held == IF cPc = "publish" THEN <<out>> ELSE <<>>
InFlight == received \o channel \o result \o batch \o Held \o Waiting

Increasing(s) == \A i, j \in DOMAIN s : i < j => s[i] < s[j]

\* Every event that push() accepted is in exactly one place, and the places,
\* read from the collector back to the queue, hold the events in the order
\* they were accepted, which is the order of their numbers: nothing is lost,
\* duplicated or reordered on the way (NoteEventFlow.kt:12, "every drained
\* event, in order, without loss"), whatever the batches, the back-pressure of
\* the channel and failed pins, except for what cancellation threw away, which
\* is accounted for in lost.
Conservation ==
  /\ Increasing(accepted) /\ Increasing(InFlight)
  /\ Elements(InFlight) = Elements(accepted) \ lost
  /\ lost \subseteq Elements(accepted)

\* What has left the queue reaches the collector unless the collector goes, whether
\* further pins fail or not.  What push() accepted does so too, unless from some time
\* on every pin fails: a pin that failed, a short drain, a full channel or a stale
\* load only delays an event.
Reached(e) == e \in Elements(received) \/ ~collecting

Delivered ==
  \A e \in Event :
    /\ (e \in Elements(channel \o result \o batch \o Held) /\ collecting) ~> Reached(e)
    /\ ([]<>(fPc = "pin") => []<>(fPc = "drain")) =>
         ((e \in Elements(accepted) \ lost /\ collecting) ~> Reached(e))
=============================================================================
