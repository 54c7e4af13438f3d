-------------------------- MODULE MCNoteEventQueue --------------------------
(* Two events, a queue of four slots, and counters that wrap after two laps. *)
EXTENDS NoteEventQueue

CONSTANTS e1, e2

MCEvent == {e1, e2}
MCCapacity == 4
MCWord == 8
=============================================================================
