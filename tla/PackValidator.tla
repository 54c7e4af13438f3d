----------------------------- MODULE PackValidator -----------------------------
(***************************************************************************)
(* The song pack validator (pipeline.songpack.validator): it reads the four*)
(* documents of a pack, checks each against its schema and then, whatever  *)
(* the schema said, the relations between them.  Stage 10 asks it before   *)
(* a pack is written, stage 11 before one is published, and the app's      *)
(* loader relies on what it let through.                                   *)
(*                                                                         *)
(* A document is Missing, Unreadable (no JSON, or NaN in it), or a record  *)
(* of the fields the checks look at.  Its shape stands for all others:     *)
(* "ok", "invalid" for the schema, or "odd", so that the checks raise.     *)
(***************************************************************************)
EXTENDS Integers, SequencesExt

CONSTANTS
  Directories,   \* what validate_pack may be given: packs, or NoDirectory
  Missing, Unreadable, NoDirectory,
  Absent,        \* a field that is not there
  NotInt,        \* a tie given as 1.0: an integer to the schema, not to Python
  Blank          \* the chunk id " "

IsManifest(doc) ==
  /\ doc.pickup \in Int /\ doc.signatures \in Seq([at : Int, measure : Int])
  /\ doc.tempo \in Seq(Int) /\ doc.repeats \in Seq([start : Int, end : Int])
  /\ doc.duration \in Int \cup {Absent} /\ doc.count \in Int \cup {Absent}

IsNotes(doc) ==
  \A l \in DOMAIN doc.levels :
     doc.levels[l] \in Seq([pitch : Int, tie : Int \cup {Absent, NotInt}])

IsChunks(doc) ==
  LET ids == UNION {{c.id} \cup c.needs : c \in ToSet(doc.chunks)} IN
  doc.chunks \in Seq([id : ids, start : Int, end : Int, needs : SUBSET ids])

Whole(doc) == doc \notin {Missing, Unreadable} /\ doc.shape = "ok"

\* The fields of a document that has them all, times in whole units; nothing is
\* assumed of any other document.
ASSUME PackAssumption ==
  /\ Absent \notin Int /\ NotInt \notin Int \cup {Absent}
  /\ \A dir \in Directories \ {NoDirectory} :
       /\ Whole(dir.manifest) => IsManifest(dir.manifest)
       /\ Whole(dir.notes) => IsNotes(dir.notes)
       /\ Whole(dir.chunks) => IsChunks(dir.chunks)

VARIABLES
  pack,       \* the directory
  canonical,  \* whether the canonical schema can be loaded
  pc,         \* the check that comes next, "reported", or "raised"
  errors,     \* the rules with an error
  warnings    \* the rules with a warning

vars == <<pack, canonical, pc, errors, warnings>>

PackFiles == {"manifest", "notes", "chunks", "skills"}
Exists(file) == pack[file] \notin {Missing, Unreadable}

Init ==
  /\ pack \in Directories
  /\ canonical \in BOOLEAN
  /\ pc = "open" /\ errors = {} /\ warnings = {}

\* The check after which pc = next; it has found the errors.
Check(next, found) ==
  /\ errors' = errors \cup found
  /\ pc' = next
  /\ UNCHANGED <<pack, canonical>>

If(condition, rule) == IF condition THEN {rule} ELSE {}

Raise == pc' = "raised" /\ UNCHANGED <<pack, canonical, errors, warnings>>

\* Definitions named Faulty... are seeded faults: each replaces the definition
\* after it in a run that must then fail, and is used nowhere else.

-----------------------------------------------------------------------------
\* Neither a pack nor a schema: an error and nothing else.
Refuse ==
  /\ pc = "open"
  /\ pack = NoDirectory \/ ~canonical
  /\ Check("reported", {IF pack = NoDirectory THEN "directory" ELSE "canonical schema"})
  /\ UNCHANGED warnings

\* What the schema says of the fields that the checks look at.
SchemaAccepts(file) ==
  LET doc == pack[file] IN
  /\ doc.shape = "ok"
  /\ file = "manifest" =>
       /\ doc.pickup >= 0
       /\ doc.signatures # <<>> /\ \A i \in DOMAIN doc.signatures : doc.signatures[i].at >= 0
       /\ doc.tempo # <<>> /\ \A i \in DOMAIN doc.tempo : doc.tempo[i] >= 0
       /\ \A i \in DOMAIN doc.repeats : doc.repeats[i].start >= 0
       /\ doc.levels # {} /\ doc.count # Absent
       /\ doc.duration # Absent /\ doc.duration >= 0
  /\ file = "notes" =>
       \A l \in DOMAIN doc.levels : \A i \in DOMAIN doc.levels[l] :
          doc.levels[l][i].tie \notin {Absent, NotInt} => doc.levels[l][i].tie >= 0
  /\ file = "chunks" => \A i \in DOMAIN doc.chunks : doc.chunks[i].start >= 0

FaultyLoadDocuments ==
  /\ pc = "open" /\ pack # NoDirectory /\ canonical
  /\ Check("manifest",
       If(\E file \in PackFiles : pack[file] = Missing, "missing")
       \cup If(\E file \in PackFiles : pack[file] = Unreadable, "json"))
  /\ UNCHANGED warnings

LoadDocuments ==
  /\ pc = "open" /\ pack # NoDirectory /\ canonical
  /\ Check("manifest",
       If(\E file \in PackFiles : pack[file] = Missing, "missing")
       \cup If(\E file \in PackFiles : pack[file] = Unreadable, "json")
       \cup If(\E file \in PackFiles : Exists(file) /\ ~SchemaAccepts(file), "schema"))
  /\ UNCHANGED warnings

-----------------------------------------------------------------------------
\* The first of the signatures with the least atBeat.
Opening(signatures) ==
  signatures[CHOOSE i \in DOMAIN signatures :
    \A j \in DOMAIN signatures : \/ signatures[i].at < signatures[j].at
                                 \/ signatures[i].at = signatures[j].at /\ i <= j]

PickupErrors(manifest) ==
  If(\/ manifest.pickup < 0
     \/ /\ manifest.signatures # <<>>
        /\ manifest.pickup > Opening(manifest.signatures).measure, "pickup")

FaultyTempoErrors(manifest) == If(manifest.tempo = <<>>, "tempo map")

TempoErrors(manifest) == If(manifest.tempo # <<>> /\ manifest.tempo[1] # 0, "tempo map")

CheckManifest ==
  /\ pc = "manifest"
  /\ IF ~Exists("manifest") THEN Check("notes", {}) /\ UNCHANGED warnings
     ELSE IF pack.manifest.shape = "odd" THEN Raise
     ELSE /\ Check("notes", PickupErrors(pack.manifest) \cup TempoErrors(pack.manifest))
          /\ warnings' = warnings \cup
               If(pack.manifest.pickup >= 0 /\ pack.manifest.signatures = <<>>, "no signatures")

\* A tie is the index, from 0, of a later note of the same pitch in its level.
FaultyTieErrors(level) ==
  If(\E i \in DOMAIN level : LET target == level[i].tie IN
       /\ target # Absent
       /\ \/ target = NotInt
          \/ target < 0 \/ target >= Len(level)
          \/ target < i - 1
          \/ level[target + 1].pitch # level[i].pitch, "tie")

TieErrors(level) ==
  If(\E i \in DOMAIN level : LET target == level[i].tie IN
       /\ target # Absent
       /\ \/ target = NotInt
          \/ target < 0 \/ target >= Len(level)
          \/ target <= i - 1
          \/ level[target + 1].pitch # level[i].pitch, "tie")

CheckNotes ==
  /\ pc = "notes"
  /\ IF Exists("notes") /\ pack.notes.shape = "odd" THEN Raise
     ELSE /\ Check("chunks", IF Exists("notes")
                             THEN UNION {TieErrors(pack.notes.levels[l]) : l \in DOMAIN pack.notes.levels}
                             ELSE {})
          /\ UNCHANGED warnings

\* Only a chunk that is not empty is compared with the duration, if there is one.
ChunkErrors(chunks, duration) ==
  If(\E i, j \in DOMAIN chunks : i < j /\ chunks[i].id = chunks[j].id, "chunk id")
  \cup If(\E i \in DOMAIN chunks : chunks[i].start >= chunks[i].end, "chunk span")
  \cup If(\E i \in DOMAIN chunks :
            /\ chunks[i].start < chunks[i].end /\ duration # Absent
            /\ chunks[i].end > duration \/ chunks[i].start > duration, "chunk end")
  \cup If(\E i \in DOMAIN chunks :
            ~(chunks[i].needs \subseteq {chunks[j].id : j \in DOMAIN chunks}), "prerequisite")

CountErrors(manifest, chunks) ==
  If(manifest.count # Absent /\ manifest.count # Len(chunks), "chunk count")

CheckChunks ==
  /\ pc = "chunks"
  /\ IF ~Exists("chunks") THEN Check("levels", {}) /\ UNCHANGED warnings
     ELSE IF pack.chunks.shape = "odd" THEN Raise
     ELSE /\ Check("levels",
               IF Exists("manifest")
               THEN ChunkErrors(pack.chunks.chunks, pack.manifest.duration)
                      \cup CountErrors(pack.manifest, pack.chunks.chunks)
               ELSE ChunkErrors(pack.chunks.chunks, Absent))
          /\ UNCHANGED warnings

\* The levels of notes and skills are declared; one without notes is a warning.
CheckLevels ==
  /\ pc = "levels"
  /\ IF ~Exists("manifest") \/ (~Exists("notes") /\ ~Exists("skills"))
     THEN Check("reported", {}) /\ UNCHANGED warnings
     ELSE IF Exists("skills") /\ pack.skills.shape = "odd" THEN Raise
     ELSE LET declared == pack.manifest.levels
              noted == IF Exists("notes") THEN DOMAIN pack.notes.levels ELSE {}
              taught == IF Exists("skills") THEN pack.skills.levels ELSE {}
          IN /\ Check("reported", If(~(noted \cup taught \subseteq declared), "level"))
             /\ warnings' = warnings \cup If(~(declared \subseteq noted), "level without notes")

Next == Refuse \/ LoadDocuments \/ CheckManifest \/ CheckNotes \/ CheckChunks \/ CheckLevels

Spec == Init /\ [][Next]_vars

-----------------------------------------------------------------------------
Accepted == pc = "reported" /\ errors = {}

DocumentsUsable ==
  /\ pack # NoDirectory /\ canonical
  /\ \A file \in PackFiles : Exists(file) /\ SchemaAccepts(file)

\* The rules of docs/specs/songpack-v1.md between fields and documents that satisfy
\* the schema: section 7, with the opening measure of section 6, which is that of
\* the first signature, and with section 6.8.
TiesForward(level) ==
  \A i \in DOMAIN level : level[i].tie # Absent =>
    \E j \in DOMAIN level : level[i].tie = j - 1 /\ i < j /\ level[i].pitch = level[j].pitch

PickupFits == pack.manifest.pickup <= pack.manifest.signatures[1].measure

RepeatsForward == \A r \in ToSet(pack.manifest.repeats) : r.start < r.end

OtherRules ==
  LET manifest == pack.manifest  chunks == pack.chunks.chunks IN
  /\ manifest.tempo[1] = 0
  /\ \A l \in DOMAIN pack.notes.levels : TiesForward(pack.notes.levels[l])
  /\ manifest.count = Cardinality({chunks[i].id : i \in DOMAIN chunks})
  /\ manifest.count = Len(chunks)
  /\ \A c \in ToSet(chunks) :
       /\ c.start < c.end /\ c.end <= manifest.duration
       /\ \A id \in c.needs : \E d \in ToSet(chunks) : d.id = id
  /\ DOMAIN pack.notes.levels \cup pack.skills.levels \subseteq manifest.levels

Consistent == PickupFits /\ RepeatsForward /\ OtherRules

\* The two things that no check looks at: which signature comes first in the list,
\* and the repeat map.
FirstIsEarliest ==
  \A s \in ToSet(pack.manifest.signatures) : pack.manifest.signatures[1].at <= s.at

\* The verdict is that of the documented rules, however many checks ran on documents
\* that another one had already refused: what is accepted has all four documents, as
\* their schemas want them, and follows every rule but the two on the opening measure
\* and the repeats; and of packs that have the documents, with a list of signatures
\* that begins with the earliest and a repeat map that runs forward, exactly those
\* are accepted that follow every rule.
VerdictIsExact ==
  pc = "reported" =>
    /\ Accepted => DocumentsUsable /\ OtherRules
    /\ DocumentsUsable /\ FirstIsEarliest /\ RepeatsForward => (Accepted <=> Consistent)

\* What the constructors of the app's SongPack and SongChunk ask for, and the loader,
\* which reads level 1 only.
AppLoads ==
  LET manifest == pack.manifest  tempo == manifest.tempo IN
  /\ manifest.pickup >= 0 /\ manifest.duration > 0
  /\ tempo # <<>> /\ tempo[1] = 0
  /\ \A i \in 1 .. Len(tempo) - 1 : tempo[i] < tempo[i + 1]
  /\ manifest.signatures # <<>>
  /\ 1 \in DOMAIN pack.notes.levels
  /\ \A c \in ToSet(pack.chunks.chunks) : c.id # Blank /\ 0 <= c.start /\ c.start < c.end

\* The validator stands between the builder and the app: a pack it accepted fails
\* to load for one of four reasons only, none of which it checks: no notes for
\* level 1, an empty song, a tempo map out of order, a chunk id of blanks.
LoaderGap ==
  Accepted =>
    (AppLoads <=> /\ 1 \in DOMAIN pack.notes.levels
                  /\ pack.manifest.duration > 0
                  /\ \A i, j \in DOMAIN pack.manifest.tempo :
                       i < j => pack.manifest.tempo[i] < pack.manifest.tempo[j]
                  /\ \A c \in ToSet(pack.chunks.chunks) : c.id # Blank)
=============================================================================
