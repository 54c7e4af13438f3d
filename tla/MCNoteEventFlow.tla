--------------------------- MODULE MCNoteEventFlow ---------------------------
(* Five events through a queue of two slots, drained two at a time into a   *)
(* channel with room for one: the queue fills, the counters wrap, batches   *)
(* are full, short and empty, and emit() suspends.                          *)
EXTENDS NoteEventFlow

MCMaxEvents == 5
MCEvent == 1 .. MCMaxEvents
MCCapacity == 2
MCWord == 4
MCBatch == 2
MCChannelCap == 1
=============================================================================
