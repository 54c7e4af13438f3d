---------------------------- MODULE MCPackValidator ----------------------------
(* A sound pack with two levels and two chunks, and all packs that differ from *)
(* it in the manifest's times, in its repeat map, in its notes and declared     *)
(* levels, in its chunks and what the manifest says of them, or in which       *)
(* documents can be used.                                                      *)
EXTENDS PackValidator

CONSTANTS a, b

Signature(at, measure) == [at |-> at, measure |-> measure]
Chunk(id, start, end, needs) == [id |-> id, start |-> start, end |-> end, needs |-> needs]
Repeat(start, end) == [start |-> start, end |-> end]
Note(pitch, tie) == [pitch |-> pitch, tie |-> tie]

Sound ==
  [manifest |-> [shape |-> "ok", pickup |-> 1, signatures |-> <<Signature(0, 2)>>,
                 tempo |-> <<0>>, repeats |-> <<>>, duration |-> 2, count |-> 2, levels |-> {1, 2}],
   notes |-> [shape |-> "ok", levels |-> [l \in {1, 2} |-> <<Note(60, 1), Note(60, Absent)>>]],
   chunks |-> [shape |-> "ok", chunks |-> <<Chunk(a, 0, 1, {}), Chunk(b, 1, 2, {a})>>],
   skills |-> [shape |-> "ok", levels |-> {1}]]

OtherTimes ==
  {[Sound EXCEPT !.manifest.pickup = p, !.manifest.signatures = s, !.manifest.tempo = t] :
     p \in -1 .. 3,
     s \in {<<>>, <<Signature(0, 2)>>, <<Signature(1, 3), Signature(0, 2)>>,
            <<Signature(1, 1), Signature(0, 2)>>, <<Signature(0, 2), Signature(1, 1)>>,
            <<Signature(0, 2), Signature(0, 3)>>, <<Signature(-1, 1)>>},
     t \in BoundedSeq({0, 1}, 2)}

OtherRepeats ==
  {[Sound EXCEPT !.manifest.repeats = r, !.manifest.pickup = p] :
     r \in BoundedSeq({Repeat(s, e) : s \in {-1, 0, 1}, e \in {0, 1, 2}}, 2), p \in {1, 3}}

Levels == BoundedSeq({Note(p, t) : p \in {60, 62}, t \in {-1, 0, 1, 2, Absent, NotInt}}, 2)

OtherNotes ==
  {[Sound EXCEPT !.notes.levels = [l \in ls |-> level], !.manifest.levels = d, !.skills.levels = s] :
     ls \in {{1}, {2}, {1, 2}}, level \in Levels, d \in {{}, {1}, {2}, {1, 2}}, s \in {{}, {1}}}

Chunks == BoundedSeq({Chunk(a, -1, 1, {})} \cup
                     {Chunk(id, s, e, n) : id \in {a, b, Blank}, s \in {0, 1}, e \in {1, 2},
                                           n \in {{}, {a}}}, 2)

OtherChunks ==
  {[Sound EXCEPT !.chunks.chunks = c, !.manifest.count = n, !.manifest.duration = d] :
     c \in Chunks, n \in {1, 2, Absent}, d \in {0, 1, 2, Absent}}

Changed(doc) == {doc, Missing, Unreadable, [doc EXCEPT !.shape = "invalid"], [doc EXCEPT !.shape = "odd"]}

OtherFiles ==
  {[manifest |-> m, notes |-> n, chunks |-> c, skills |-> s] :
     m \in Changed(Sound.manifest), n \in Changed(Sound.notes),
     c \in Changed(Sound.chunks), s \in Changed(Sound.skills)}

MCDirectories ==
  {NoDirectory} \cup OtherTimes \cup OtherRepeats \cup OtherNotes \cup OtherChunks \cup OtherFiles
=============================================================================
