------------------------------ MODULE AudioInput ------------------------------
(***************************************************************************)
(* engine::io::OboeInput and the JNI calls that own it: the life of the    *)
(* microphone stream, the audio callback that pushes the delivered frames  *)
(* into the ring, and read(), with which the detector's thread takes them  *)
(* out.  Four threads of control: the audio thread, the reader, the bridge *)
(* (whose lifecycle calls do not race each other), and the end of the      *)
(* process, which destroys g_input.  A frame is its number, so that order, *)
(* loss and duplication can be told apart.                                 *)
(*                                                                         *)
(* Oboe is not part of the sources.  Of it is assumed what OboeInput       *)
(* relies on: a successful stop() and every close() return when no callback*)
(* runs and none will run; a stop() that fails may leave the stream        *)
(* running; and a stream whose device goes away is stopped and closed by   *)
(* Oboe itself, once its callback is done, with nobody told, as open()     *)
(* sets no error callback (OboeInput.cpp:56-75).  Such a stream is "lost": *)
(* it delivers nothing more, and start() and stop() fail on it.            *)
(***************************************************************************)
EXTENDS RingBuffer, FiniteSets

CONSTANTS
  MaxFrames,    \* bound of the exploration: how many frames are delivered
  BurstSizes,   \* the numFrames the callback may be called with
  ReadSizes     \* the maxFrames read() may be called with

\* The frames of a burst of n that follows frame d.
Burst(d, n) == [i \in 1 .. n |-> d + i]

ASSUME InputAssumption ==
  /\ MaxFrames \in Nat
  /\ Sample = 1 .. MaxFrames
  /\ BurstSizes \subseteq Nat \ {0}
  /\ ReadSizes \subseteq Nat \ {0}
  /\ \A d \in 0 .. MaxFrames, n \in BurstSizes :
       d + n <= MaxFrames => Burst(d, n) \in Block

VARIABLES
  delivered,    \* how many frames the stream has handed to the callback
  dropped,      \* droppedFrames_
  stream,       \* stream_: "none", "open", "started", "lost" or "closed"
  active,       \* active_
  bridgePc,     \* what the bridge does: "idle", "mark", "stop", "free" or "end"
  reading       \* toRead of the read() that is about to pop, or 0

inputVars == <<delivered, dropped, stream, active, bridgePc, reading>>
vars == <<ringVars, inputVars>>

Init ==
  /\ RingInit
  /\ delivered = 0 /\ dropped = 0
  /\ stream = "none" /\ active = FALSE
  /\ bridgePc = "idle" /\ reading = 0

-----------------------------------------------------------------------------
\* onAudioReady(), on the audio thread of a running stream.
CallbackPush(n) ==
  /\ stream = "started"
  /\ delivered + n <= MaxFrames
  /\ PushAdmit(Burst(delivered, n))
  /\ delivered' = delivered + n
  /\ UNCHANGED <<dropped, stream, active, bridgePc, reading>>

FaultyCallbackDrop(n) ==
  /\ stream = "started"
  /\ delivered + n <= MaxFrames
  /\ PushRefuse(Burst(delivered, n))
  /\ delivered' = delivered + n
  /\ dropped' = dropped + 1
  /\ UNCHANGED <<stream, active, bridgePc, reading>>

\* The ring has no room for the whole burst: all of it is dropped.
CallbackDrop(n) ==
  /\ stream = "started"
  /\ delivered + n <= MaxFrames
  /\ PushRefuse(Burst(delivered, n))
  /\ delivered' = delivered + n
  /\ dropped' = dropped + n
  /\ UNCHANGED <<stream, active, bridgePc, reading>>

CallbackCopy ==
  /\ PushFirst \/ PushRest \/ PushPublish
  /\ UNCHANGED inputVars

-----------------------------------------------------------------------------
\* read(maxFrames) looks at available() first; when that is 0 it is done.
FaultyReadAvailable(maxFrames) ==
  /\ reading = 0 /\ bridgePc # "end"
  /\ \E h \in Visible(cSeen, head) :
       /\ Look(h)
       /\ reading' = IF h = tail THEN 0 ELSE maxFrames
  /\ UNCHANGED <<delivered, dropped, stream, active, bridgePc>>

ReadAvailable(maxFrames) ==
  /\ reading = 0 /\ bridgePc # "end"
  /\ \E h \in Visible(cSeen, head) :
       /\ Look(h)
       /\ reading' = IF Distance(h, tail) < maxFrames THEN Distance(h, tail)
                                                      ELSE maxFrames
  /\ UNCHANGED <<delivered, dropped, stream, active, bridgePc>>

\* It then pops what it saw, and does not look at the result of pop(), which is
\* why there is no action for a pop that is refused: ReadNeverShort says that
\* there is none.
ReadPop ==
  /\ reading > 0
  /\ PopAdmit(reading)
  /\ reading' = 0
  /\ UNCHANGED <<delivered, dropped, stream, active, bridgePc>>

ReadCopy ==
  /\ PopFirst \/ PopRest \/ PopPublish
  /\ UNCHANGED inputVars

-----------------------------------------------------------------------------
\* nativeOpenInput() when the stream opens.  When it does not, the new
\* OboeInput is discarded and nothing has changed; once g_input is set, every
\* further call is refused.
NativeOpenInput ==
  /\ bridgePc = "idle"
  /\ stream = "none"
  /\ stream' = "open"
  /\ UNCHANGED <<ringVars, delivered, dropped, active, bridgePc, reading>>

\* The device goes away, between or in the middle of the bridge's calls.
Disconnect ==
  /\ stream \in {"open", "started"}
  /\ pPc = "idle"
  /\ stream' = "lost"
  /\ UNCHANGED <<ringVars, delivered, dropped, active, bridgePc, reading>>

\* nativeStart(): nothing to do when active_; otherwise stream_->start(), and
\* active_ is set once that succeeded.  A start that fails, as every start of
\* a lost stream does, changes nothing.
FaultyStartStream ==
  /\ bridgePc = "idle"
  /\ stream \in {"open", "started"} /\ ~active
  /\ active' = TRUE
  /\ stream' \in {stream, "started"}
  /\ UNCHANGED <<ringVars, delivered, dropped, bridgePc, reading>>

StartStream ==
  /\ bridgePc = "idle"
  /\ stream \in {"open", "started"} /\ ~active
  /\ stream' = "started"
  /\ bridgePc' = "mark"
  /\ UNCHANGED <<ringVars, delivered, dropped, active, reading>>

StartMark ==
  /\ bridgePc = "mark"
  /\ active' = TRUE
  /\ bridgePc' = "idle"
  /\ UNCHANGED <<ringVars, delivered, dropped, stream, reading>>

\* nativeStop(): nothing to do unless active_, which is cleared first; the
\* result of stream_->stop() is only logged.
StopClear ==
  /\ bridgePc = "idle"
  /\ active
  /\ active' = FALSE
  /\ bridgePc' = "stop"
  /\ UNCHANGED <<ringVars, delivered, dropped, stream, reading>>

StopStream ==
  /\ bridgePc = "stop"
  /\ \/ stream = "started" /\ pPc = "idle" /\ stream' = "open"
     \/ stream' = stream
  /\ bridgePc' = "idle"
  /\ UNCHANGED <<ringVars, delivered, dropped, active, reading>>

-----------------------------------------------------------------------------
\* The process ends: the destructor of OboeInput stops and closes the stream
\* and drops it, and then the members, the ring among them, are destroyed.
DestroyStream ==
  /\ bridgePc = "idle"
  /\ stream \in {"open", "started", "lost"}
  /\ pPc = "idle"
  /\ stream' = "closed"
  /\ bridgePc' = "free"
  /\ UNCHANGED <<ringVars, delivered, dropped, active, reading>>

\* The reader's thread must be done by then: nothing here waits for it.
DestroyMembers ==
  /\ bridgePc = "free"
  /\ reading = 0 /\ cPc = "idle"
  /\ bridgePc' = "end"
  /\ UNCHANGED <<ringVars, delivered, dropped, stream, active, reading>>

Next ==
  \/ \E n \in BurstSizes : CallbackPush(n) \/ CallbackDrop(n)
  \/ CallbackCopy
  \/ \E n \in ReadSizes : ReadAvailable(n)
  \/ ReadPop
  \/ ReadCopy
  \/ NativeOpenInput \/ Disconnect
  \/ StartStream \/ StartMark
  \/ StopClear \/ StopStream
  \/ DestroyStream \/ DestroyMembers

Spec == Init /\ [][Next]_vars

-----------------------------------------------------------------------------
TypeOK ==
  /\ RingTypeOK
  /\ delivered \in 0 .. MaxFrames
  /\ dropped \in 0 .. delivered
  /\ stream \in {"none", "open", "started", "lost", "closed"}
  /\ active \in BOOLEAN
  /\ bridgePc \in {"idle", "mark", "stop", "free", "end"}
  /\ reading \in 0 .. Capacity

\* read() returns toRead whatever pop() answers, so a refused pop would hand
\* the detector samples nobody wrote (OboeInput.cpp:174-178: "a pop of toRead
\* <= available cannot fail").  Whatever head_ the load in pop() returns, the
\* samples available() saw are there.
ReadNeverShort ==
  reading > 0 => \A h \in Visible(cSeen, head) : Holds(h, tail, reading)

\* Every delivered frame is, exactly once, in the reader's hands, in the ring,
\* in the push in progress, or counted by droppedFrames_: what the reader is
\* missing is what the counter says, through bursts that wrap, bursts larger
\* than the ring, and a stop and start between two reads.
InPush == IF pPc = "idle" THEN 0 ELSE Len(pBlock)
FramesConserved ==
  /\ delivered = Len(taken) + Len(Waiting) + InPush + dropped
  /\ \A i, j \in 1 .. Len(taken \o Waiting) :
       i < j => (taken \o Waiting)[i] < (taken \o Waiting)[j]

\* isActive() claims a capture that is not running only when the device was
\* lost: but for that, active_ is true only while the stream is started, also
\* in the middle of start() and stop(), after calls the stream refused, and
\* whatever start() does with a stream a failed stop() left running
\* (OboeInput.cpp:116-163).
ActiveUnlessLost ==
  active /\ bridgePc \in {"idle", "mark", "stop"} => stream \in {"started", "lost"}
=============================================================================
