-------------------------- MODULE PackValidator_proof --------------------------
(***************************************************************************)
(* The validator's verdict is that of the documented rules for every set of*)
(* packs that do not touch the two it does not check, and its gap to the   *)
(* app's loader is the one that LoaderGap states.  The invariant says what *)
(* the checks before pc have found.                                        *)
(***************************************************************************)
EXTENDS PackValidator, TLAPS, FiniteSetTheorems, WellFoundedInduction

-----------------------------------------------------------------------------
\* What is in a list.
LEMMA Element ==
  ASSUME NEW T, NEW list \in Seq(T)
  PROVE  /\ DOMAIN list = 1 .. Len(list) /\ Len(list) \in Nat
         /\ \A i \in DOMAIN list : list[i] \in T
OBVIOUS

\* A set of natural numbers that is not empty has a least one: induction, in the form
\* of the least counterexample.
LEMMA LeastNumber ==
  ASSUME NEW T \in SUBSET Nat, T # {}
  PROVE  \E x \in T : \A y \in T : x <= y
<1>1. PICK x \in T : \A y \in T : ~(<<y, x>> \in OpToRel(<, Nat))
  BY NatLessThanWellFounded, WFMin
<1>2. \A y \in T : x <= y
  <2> TAKE y \in T
  <2>1. ~(<<y, x>> \in OpToRel(<, Nat))
    BY <1>1
  <2>2. y < x => <<y, x>> \in OpToRel(<, Nat)
    BY DEF OpToRel
  <2>3. ~(y < x)
    BY <2>1, <2>2, Zenon
  <2> QED
    BY <2>3
<1> QED
  BY <1>2

-----------------------------------------------------------------------------
\* In a list of signatures that begins with the earliest one, min() returns the first.
LEMMA FirstOpens ==
  ASSUME NEW signatures \in Seq([at : Int, measure : Int]), signatures # <<>>,
         \A s \in ToSet(signatures) : signatures[1].at <= s.at
  PROVE  Opening(signatures) = signatures[1] /\ signatures[1].measure \in Int
<1> DEFINE D == DOMAIN signatures
           Minimal(i) == \A j \in D : \/ signatures[i].at < signatures[j].at
                                      \/ signatures[i].at = signatures[j].at /\ i <= j
<1>1. D = 1 .. Len(signatures) /\ Len(signatures) \in Nat /\ 1 \in D
  OBVIOUS
<1>2. \A i \in D : signatures[i].at \in Int /\ signatures[i].measure \in Int
  <2>1. \A i \in D : signatures[i] \in [at : Int, measure : Int]
    BY Element
  <2> QED
    BY <2>1
<1>3. \A i \in D : signatures[1].at <= signatures[i].at
  BY DEF ToSet
<1>4. Minimal(1)
  <2>1. ASSUME NEW j \in D
        PROVE  \/ signatures[1].at < signatures[j].at
               \/ signatures[1].at = signatures[j].at /\ 1 <= j
    <3>1. signatures[1].at <= signatures[j].at /\ 1 <= j
      BY <1>1, <1>3
    <3> QED
      BY <1>1, <1>2, <3>1
  <2> QED
    BY <2>1
<1>5. ASSUME NEW i \in D, Minimal(i) PROVE i = 1
  <2>1. signatures[i].at < signatures[1].at \/ i <= 1
    BY <1>1, <1>5
  <2> QED
    BY <1>1, <1>2, <1>3, <2>1
<1>6. Opening(signatures) = signatures[CHOOSE i \in D : Minimal(i)]
  BY DEF Opening
<1> HIDE DEF Minimal
<1>7. (CHOOSE i \in D : Minimal(i)) = 1
  BY <1>1, <1>4, <1>5
<1> QED
  BY <1>1, <1>2, <1>6, <1>7

\* The checks of a manifest that its schema accepts and that begins with the earliest
\* signature.
LEMMA ManifestExact ==
  ASSUME NEW m, IsManifest(m), m.pickup >= 0, m.signatures # <<>>, m.tempo # <<>>,
         \A s \in ToSet(m.signatures) : m.signatures[1].at <= s.at
  PROVE  PickupErrors(m) \cup TempoErrors(m) = {} <=>
           m.pickup <= m.signatures[1].measure /\ m.tempo[1] = 0
<1>1. m.pickup \in Int /\ m.signatures \in Seq([at : Int, measure : Int])
  BY DEF IsManifest
<1>2. Opening(m.signatures) = m.signatures[1] /\ m.signatures[1].measure \in Int
  BY <1>1, FirstOpens
<1>3. PickupErrors(m) = {} <=> m.pickup <= m.signatures[1].measure
  <2>1. PickupErrors(m) = {} <=> ~(m.pickup > m.signatures[1].measure)
    BY <1>1, <1>2 DEF PickupErrors, If
  <2> QED
    BY <1>1, <1>2, <2>1
<1>4. TempoErrors(m) = {} <=> m.tempo[1] = 0
  BY DEF TempoErrors, If
<1> QED
  BY <1>3, <1>4

-----------------------------------------------------------------------------
\* The check of a level finds just the ties that do not.
LEMMA TiesExact ==
  ASSUME NEW level \in Seq([pitch : Int, tie : Int \cup {Absent, NotInt}])
  PROVE  TieErrors(level) = {} <=> TiesForward(level)
<1> DEFINE D == DOMAIN level
           Bad(i) == LET target == level[i].tie IN
             /\ target # Absent
             /\ \/ target = NotInt
                \/ target < 0 \/ target >= Len(level)
                \/ target <= i - 1
                \/ level[target + 1].pitch # level[i].pitch
           Fine(i) == level[i].tie # Absent =>
             \E j \in D : level[i].tie = j - 1 /\ i < j /\ level[i].pitch = level[j].pitch
<1>1. D = 1 .. Len(level) /\ Len(level) \in Nat
  OBVIOUS
<1>2. TieErrors(level) = {} <=> \A i \in D : ~Bad(i)
  BY DEF TieErrors, If
<1>3. TiesForward(level) <=> \A i \in D : Fine(i)
  BY DEF TiesForward
<1>4. ASSUME NEW i \in D PROVE ~Bad(i) <=> Fine(i)
  <2>1. level[i].tie \in Int \cup {Absent, NotInt}
    <3>1. level[i] \in [pitch : Int, tie : Int \cup {Absent, NotInt}]
      BY <1>4, Element
    <3> QED
      BY <3>1
  <2>2. CASE level[i].tie = Absent
    BY <2>2
  <2>3. CASE level[i].tie = NotInt /\ level[i].tie # Absent
    <3>1. \A j \in D : j - 1 # NotInt
      BY <1>1, PackAssumption
    <3> QED
      BY <2>3, <3>1
  <2>4. CASE level[i].tie \in Int
    <3> DEFINE target == level[i].tie
    <3>1. target # Absent /\ target # NotInt
      BY <2>4, PackAssumption
    <3>2. i \in Int /\ (target + 1 \in D <=> target >= 0 /\ target < Len(level))
      BY <1>1, <2>4
    <3>3. Fine(i) <=> /\ target + 1 \in D /\ i < target + 1
                      /\ level[i].pitch = level[target + 1].pitch
      BY <1>1, <2>4, <3>1
    <3>4. Bad(i) <=> \/ ~(target >= 0 /\ target < Len(level)) \/ ~(i < target + 1)
                     \/ level[i].pitch # level[target + 1].pitch
      BY <1>1, <2>4, <3>1, <3>2
    <3> QED
      BY <3>2, <3>3, <3>4
  <2> QED
    BY <2>1, <2>2, <2>3, <2>4
<1> QED
  BY <1>2, <1>3, <1>4

-----------------------------------------------------------------------------
\* There are as many ids as chunks if and only if no two chunks have the same.
LEMMA IdsCounted ==
  ASSUME NEW T, NEW chunks \in Seq(T)
  PROVE  Cardinality({chunks[i].id : i \in DOMAIN chunks}) = Len(chunks) <=>
           ~ \E i, j \in DOMAIN chunks : i < j /\ chunks[i].id = chunks[j].id
<1> DEFINE D == DOMAIN chunks
           Ids == {chunks[i].id : i \in D}
           f == [i \in D |-> chunks[i].id]
<1>1. D = 1 .. Len(chunks) /\ Len(chunks) \in Nat
  BY Element
<1>2. IsFiniteSet(D) /\ Cardinality(D) = Len(chunks)
  BY <1>1, FS_Interval
<1>3. f \in Surjection(D, Ids)
  BY DEF Surjection
<1>4. Cardinality(Ids) = Len(chunks) <=> f \in Injection(D, Ids)
  BY <1>2, <1>3, FS_Surjection
<1>5. f \in Injection(D, Ids) <=> \A i, j \in D : chunks[i].id = chunks[j].id => i = j
  BY DEF Injection, IsInjective
<1>6. (\A i, j \in D : chunks[i].id = chunks[j].id => i = j) <=>
        ~ \E i, j \in D : i < j /\ chunks[i].id = chunks[j].id
  <2>1. ASSUME ~ \E i, j \in D : i < j /\ chunks[i].id = chunks[j].id,
               NEW i \in D, NEW j \in D, chunks[i].id = chunks[j].id
        PROVE  i = j
    <3>1. ~(i < j) /\ ~(j < i)
      BY <2>1
    <3> QED
      BY <1>1, <3>1
  <2>2. \A i, j \in D : i < j => i # j
    BY <1>1
  <2> QED
    BY <2>1, <2>2
<1> QED
  BY <1>4, <1>5, <1>6

\* What a chunk has to be.
ChunkFits(c, duration, chunks) ==
  /\ c.start < c.end /\ c.end <= duration
  /\ \A id \in c.needs : \E d \in ToSet(chunks) : d.id = id

\* The check of the chunks finds just those that do not fit; that a chunk starts
\* within the duration follows from where it ends.
LEMMA ChunksExact ==
  ASSUME NEW chunks, IsChunks([chunks |-> chunks]), NEW duration \in Int, duration # Absent
  PROVE  ChunkErrors(chunks, duration) = {} <=>
           /\ Cardinality({chunks[i].id : i \in DOMAIN chunks}) = Len(chunks)
           /\ \A c \in ToSet(chunks) : ChunkFits(c, duration, chunks)
<1> DEFINE D == DOMAIN chunks
           ids == UNION {{c.id} \cup c.needs : c \in ToSet(chunks)}
           T == [id : ids, start : Int, end : Int, needs : SUBSET ids]
           Known == {chunks[j].id : j \in D}
           Twice == \E i, j \in D : i < j /\ chunks[i].id = chunks[j].id
           Span(i) == chunks[i].start < chunks[i].end
           Late(i) == /\ Span(i) /\ duration # Absent
                      /\ chunks[i].end > duration \/ chunks[i].start > duration
           Asks(i) == ~(chunks[i].needs \subseteq Known)
<1>1. chunks \in Seq(T)
  BY DEF IsChunks
<1>2. \A i \in D : chunks[i] \in T
  <2> HIDE DEF T
  <2> QED
    BY <1>1, Element
<1>3. \A i \in D : chunks[i].start \in Int /\ chunks[i].end \in Int
  BY <1>2
<1>4. ChunkErrors(chunks, duration) = {} <=>
        /\ ~Twice
        /\ ~ \E i \in D : chunks[i].start >= chunks[i].end
        /\ ~ \E i \in D : Late(i)
        /\ ~ \E i \in D : Asks(i)
  BY DEF ChunkErrors, If
<1>5. Cardinality({chunks[i].id : i \in D}) = Len(chunks) <=> ~Twice
  <2> HIDE DEF T
  <2> QED
    BY <1>1, IdsCounted
<1>6. \A i \in D : ~Asks(i) <=> \A id \in chunks[i].needs : \E d \in ToSet(chunks) : d.id = id
  BY DEF ToSet
<1>7. \A i \in D : (~(chunks[i].start >= chunks[i].end) /\ ~Late(i)) <=>
                      (chunks[i].start < chunks[i].end /\ chunks[i].end <= duration)
  BY <1>3
<1>8. (\A c \in ToSet(chunks) : ChunkFits(c, duration, chunks)) <=>
        \A i \in D : ChunkFits(chunks[i], duration, chunks)
  BY DEF ToSet
<1> HIDE DEF Twice, Late, Asks
<1>9. \A i \in D : ChunkFits(chunks[i], duration, chunks) <=>
                     (~(chunks[i].start >= chunks[i].end) /\ ~Late(i) /\ ~Asks(i))
  BY <1>6, <1>7 DEF ChunkFits
<1> QED
  BY <1>4, <1>5, <1>8, <1>9

-----------------------------------------------------------------------------
\* What each check finds in a usable pack.
InManifest == PickupErrors(pack.manifest) \cup TempoErrors(pack.manifest)
InNotes == UNION {TieErrors(pack.notes.levels[l]) : l \in DOMAIN pack.notes.levels}
InChunks == ChunkErrors(pack.chunks.chunks, pack.manifest.duration)
              \cup CountErrors(pack.manifest, pack.chunks.chunks)
InLevels ==
  If(~(DOMAIN pack.notes.levels \cup pack.skills.levels \subseteq pack.manifest.levels), "level")

\* The errors are those of the checks before pc; a pack that is not usable has
\* one since it was read, and only such a pack makes a check raise.
PackInv ==
  /\ pack \in Directories
  /\ pc \in {"open", "manifest", "notes", "chunks", "levels", "reported", "raised"}
  /\ pc = "open" => errors = {}
  /\ pc # "open" /\ ~DocumentsUsable => errors # {}
  /\ DocumentsUsable =>
       /\ pc # "raised"
       /\ pc = "manifest" => errors = {}
       /\ pc = "notes" => errors = InManifest
       /\ pc = "chunks" => errors = InManifest \cup InNotes
       /\ pc = "levels" => errors = InManifest \cup InNotes \cup InChunks
       /\ pc = "reported" => errors = InManifest \cup InNotes \cup InChunks \cup InLevels

\* A pack whose documents are usable has all their fields.
LEMMA UsableFields ==
  ASSUME pack \in Directories, DocumentsUsable
  PROVE  IsManifest(pack.manifest) /\ IsNotes(pack.notes) /\ IsChunks(pack.chunks)
<1>1. \A file \in PackFiles : pack[file] \notin {Missing, Unreadable} /\ pack[file].shape = "ok"
  BY DEF DocumentsUsable, Exists, SchemaAccepts
<1>2. Whole(pack.manifest) /\ Whole(pack.notes) /\ Whole(pack.chunks)
  BY <1>1 DEF PackFiles, Whole
<1>3. pack # NoDirectory
  BY DEF DocumentsUsable
<1> QED
  BY <1>2, <1>3, PackAssumption

\* What is usable stays so: the validator only reads.
LEMMA UsableKept ==
  ASSUME UNCHANGED <<pack, canonical>>
  PROVE  /\ DocumentsUsable' <=> DocumentsUsable
         /\ InManifest' = InManifest /\ InNotes' = InNotes
         /\ InChunks' = InChunks /\ InLevels' = InLevels
BY DEF DocumentsUsable, InManifest, InNotes, InChunks, InLevels, Exists, SchemaAccepts

LEMMA PackInit == Init => PackInv
<1> SUFFICES ASSUME Init PROVE PackInv
  OBVIOUS
<1> QED
  BY DEF Init, PackInv

LEMMA RefuseInv ==
  ASSUME PackInv, Refuse
  PROVE  PackInv'
<1>1. pack' = pack /\ canonical' = canonical /\ pc' = "reported" /\ errors' # {}
  BY DEF Refuse, Check
<1>2. ~DocumentsUsable
  BY DEF Refuse, DocumentsUsable
<1> QED
  BY <1>1, <1>2, UsableKept DEF PackInv

LEMMA LoadInv ==
  ASSUME PackInv, LoadDocuments
  PROVE  PackInv'
<1>1. pack' = pack /\ canonical' = canonical /\ pc = "open" /\ pc' = "manifest" /\ errors = {}
  BY DEF LoadDocuments, Check, PackInv
<1>2. errors' = {} <=> \A file \in PackFiles : Exists(file) /\ SchemaAccepts(file)
  BY <1>1 DEF LoadDocuments, Check, If, Exists
<1>3. pack # NoDirectory /\ canonical
  BY DEF LoadDocuments
<1>4. errors' = {} <=> DocumentsUsable
  BY <1>2, <1>3 DEF DocumentsUsable
<1> QED
  BY <1>1, <1>4, UsableKept DEF PackInv

\* A document that is not there, or that makes a check raise, is not usable.
LEMMA OddUnusable ==
  ASSUME NEW file \in PackFiles, ~Exists(file) \/ pack[file].shape = "odd"
  PROVE  ~DocumentsUsable
BY DEF DocumentsUsable, SchemaAccepts

LEMMA ManifestInv ==
  ASSUME PackInv, CheckManifest
  PROVE  PackInv'
<1>1. pack' = pack /\ canonical' = canonical /\ pc = "manifest" /\ "manifest" \in PackFiles
  BY DEF CheckManifest, Check, Raise, PackFiles
<1>2. CASE ~Exists("manifest") \/ pack.manifest.shape = "odd"
  <2>1. ~DocumentsUsable /\ errors # {}
    BY <1>1, <1>2, OddUnusable DEF PackInv
  <2>2. errors' = errors /\ pc' \in {"notes", "raised"}
    BY <1>1, <1>2 DEF CheckManifest, Check, Raise
  <2> QED
    BY <1>1, <2>1, <2>2, UsableKept DEF PackInv
<1>3. CASE ~(~Exists("manifest") \/ pack.manifest.shape = "odd")
  <2>1. errors' = errors \cup InManifest /\ pc' = "notes"
    BY <1>1, <1>3 DEF CheckManifest, Check, InManifest
  <2> QED
    BY <1>1, <2>1, UsableKept DEF PackInv
<1> QED
  BY <1>2, <1>3

LEMMA NotesInv ==
  ASSUME PackInv, CheckNotes
  PROVE  PackInv'
<1>1. pack' = pack /\ canonical' = canonical /\ pc = "notes" /\ "notes" \in PackFiles
  BY DEF CheckNotes, Check, Raise, PackFiles
<1>2. CASE ~Exists("notes") \/ pack.notes.shape = "odd"
  <2>1. ~DocumentsUsable /\ errors # {}
    BY <1>1, <1>2, OddUnusable DEF PackInv
  <2>2. errors' = errors /\ pc' \in {"chunks", "raised"}
    BY <1>1, <1>2 DEF CheckNotes, Check, Raise
  <2> QED
    BY <1>1, <2>1, <2>2, UsableKept DEF PackInv
<1>3. CASE ~(~Exists("notes") \/ pack.notes.shape = "odd")
  <2>1. errors' = errors \cup InNotes /\ pc' = "chunks"
    BY <1>1, <1>3 DEF CheckNotes, Check, InNotes
  <2> QED
    BY <1>1, <2>1, UsableKept DEF PackInv
<1> QED
  BY <1>2, <1>3

LEMMA ChunksInv ==
  ASSUME PackInv, CheckChunks
  PROVE  PackInv'
<1>1. /\ pack' = pack /\ canonical' = canonical /\ pc = "chunks"
      /\ "chunks" \in PackFiles /\ "manifest" \in PackFiles
  BY DEF CheckChunks, Check, Raise, PackFiles
<1>2. CASE ~Exists("chunks") \/ pack.chunks.shape = "odd" \/ ~Exists("manifest")
  <2>1. ~DocumentsUsable /\ errors # {}
    BY <1>1, <1>2, OddUnusable DEF PackInv
  <2>2. errors \subseteq errors' /\ pc' \in {"levels", "raised"}
    BY <1>1, <1>2 DEF CheckChunks, Check, Raise
  <2> QED
    BY <1>1, <2>1, <2>2, UsableKept DEF PackInv
<1>3. CASE ~(~Exists("chunks") \/ pack.chunks.shape = "odd" \/ ~Exists("manifest"))
  <2>1. errors' = errors \cup InChunks /\ pc' = "levels"
    BY <1>1, <1>3 DEF CheckChunks, Check, InChunks
  <2> QED
    BY <1>1, <2>1, UsableKept DEF PackInv
<1> QED
  BY <1>2, <1>3

LEMMA LevelsInv ==
  ASSUME PackInv, CheckLevels
  PROVE  PackInv'
<1>1. /\ pack' = pack /\ canonical' = canonical /\ pc = "levels"
      /\ "notes" \in PackFiles /\ "manifest" \in PackFiles /\ "skills" \in PackFiles
  BY DEF CheckLevels, Check, Raise, PackFiles
<1>2. CASE \/ ~Exists("manifest") \/ ~Exists("notes") \/ ~Exists("skills")
           \/ pack.skills.shape = "odd"
  <2>1. ~DocumentsUsable /\ errors # {}
    BY <1>1, <1>2, OddUnusable DEF PackInv
  <2>2. errors \subseteq errors' /\ pc' \in {"reported", "raised"}
    BY <1>1, <1>2 DEF CheckLevels, Check, Raise
  <2> QED
    BY <1>1, <2>1, <2>2, UsableKept DEF PackInv
<1>3. CASE ~(\/ ~Exists("manifest") \/ ~Exists("notes") \/ ~Exists("skills")
             \/ pack.skills.shape = "odd")
  <2>1. errors' = errors \cup InLevels /\ pc' = "reported"
    BY <1>1, <1>3 DEF CheckLevels, Check, InLevels
  <2> QED
    BY <1>1, <2>1, UsableKept DEF PackInv
<1> QED
  BY <1>2, <1>3

\* PackInv is an invariant of the validator, whatever packs it is given.
THEOREM PackInvariant == Spec => []PackInv
<1>1. ASSUME PackInv, Next PROVE PackInv'
  BY <1>1, RefuseInv, LoadInv, ManifestInv, NotesInv, ChunksInv, LevelsInv DEF Next
<1>2. ASSUME PackInv, UNCHANGED vars PROVE PackInv'
  <2>1. pack' = pack /\ canonical' = canonical /\ pc' = pc /\ errors' = errors
    BY <1>2 DEF vars
  <2> QED
    BY <1>2, <2>1, UsableKept DEF PackInv
<1>3. PackInv /\ [Next]_vars => PackInv'
  BY <1>1, <1>2
<1> QED
  BY PackInit, <1>3, PTL DEF Spec

-----------------------------------------------------------------------------
\* If no check finds anything in a usable pack, it follows all rules but two, and if
\* its first signature is the earliest and its repeats run forward, it follows all;
\* then only do the checks find nothing.
LEMMA ChecksExact ==
  ASSUME pack \in Directories, DocumentsUsable
  PROVE  LET Clean == InManifest \cup InNotes \cup InChunks \cup InLevels = {} IN
         /\ Clean => OtherRules
         /\ FirstIsEarliest /\ RepeatsForward => (Clean <=> Consistent)
<1> DEFINE m == pack.manifest
           chunks == pack.chunks.chunks
           ids == {chunks[i].id : i \in DOMAIN chunks}
<1>1. IsManifest(m) /\ IsNotes(pack.notes) /\ IsChunks(pack.chunks)
  BY UsableFields
<1>2. /\ m.pickup >= 0 /\ m.signatures # <<>> /\ m.tempo # <<>>
      /\ m.count # Absent /\ m.duration # Absent
  BY DEF DocumentsUsable, SchemaAccepts, PackFiles
<1>3. m.count \in Int /\ m.duration \in Int
  BY <1>1, <1>2 DEF IsManifest
<1>4. ASSUME FirstIsEarliest PROVE InManifest = {} <=> PickupFits /\ m.tempo[1] = 0
  BY <1>1, <1>2, <1>4, ManifestExact DEF InManifest, PickupFits, FirstIsEarliest
<1>10. InManifest = {} => m.tempo[1] = 0
  BY <1>2 DEF InManifest, TempoErrors, If
<1>5. InNotes = {} <=> \A l \in DOMAIN pack.notes.levels : TiesForward(pack.notes.levels[l])
  <2>1. \A l \in DOMAIN pack.notes.levels :
          TieErrors(pack.notes.levels[l]) = {} <=> TiesForward(pack.notes.levels[l])
    BY <1>1, TiesExact DEF IsNotes
  <2> QED
    BY <2>1 DEF InNotes
<1>6. ChunkErrors(chunks, m.duration) = {} <=>
        /\ Cardinality(ids) = Len(chunks)
        /\ \A c \in ToSet(chunks) : ChunkFits(c, m.duration, chunks)
  <2>1. IsChunks([chunks |-> chunks])
    BY <1>1 DEF IsChunks
  <2> QED
    BY <1>2, <1>3, <2>1, ChunksExact
<1>7. CountErrors(m, chunks) = {} <=> m.count = Len(chunks)
  BY <1>2 DEF CountErrors, If
<1>8. InChunks = {} <=>
        /\ m.count = Cardinality(ids) /\ m.count = Len(chunks)
        /\ \A c \in ToSet(chunks) : ChunkFits(c, m.duration, chunks)
  BY <1>6, <1>7 DEF InChunks
<1>9. InLevels = {} <=> DOMAIN pack.notes.levels \cup pack.skills.levels \subseteq m.levels
  BY DEF InLevels, If
<1>11. OtherRules <=> /\ m.tempo[1] = 0
                      /\ InNotes = {} /\ InChunks = {} /\ InLevels = {}
  BY <1>5, <1>8, <1>9 DEF OtherRules, ChunkFits
<1> QED
  BY <1>4, <1>10, <1>11 DEF Consistent

\* An accepted pack is usable, and none of the checks has found anything.
LEMMA AcceptedExact ==
  ASSUME PackInv, pc = "reported"
  PROVE  Accepted <=> DocumentsUsable /\ InManifest \cup InNotes \cup InChunks \cup InLevels = {}
<1>1. CASE DocumentsUsable
  BY <1>1 DEF PackInv, Accepted
<1>2. CASE ~DocumentsUsable
  BY <1>2 DEF PackInv, Accepted
<1> QED
  BY <1>1, <1>2

\* The verdict is that of the documented rules, for every set of packs.
THEOREM ValidatorVerdict == Spec => []VerdictIsExact
<1>1. PackInv => VerdictIsExact
  BY AcceptedExact, ChecksExact DEF VerdictIsExact, PackInv
<1> QED
  BY PackInvariant, <1>1, PTL

-----------------------------------------------------------------------------
\* A list that rises from each entry to the next one rises.
LEMMA RisesStepByStep ==
  ASSUME NEW list \in Seq(Int), \A i \in 1 .. Len(list) - 1 : list[i] < list[i + 1]
  PROVE  \A i, j \in DOMAIN list : i < j => list[i] < list[j]
<1> SUFFICES ASSUME NEW i \in DOMAIN list, NEW j \in DOMAIN list, i < j, ~(list[i] < list[j])
             PROVE  FALSE
  OBVIOUS
<1>1. DOMAIN list = 1 .. Len(list) /\ Len(list) \in Nat /\ \A k \in DOMAIN list : list[k] \in Int
  BY Element
<1> DEFINE Falls == {k \in Nat : k \in DOMAIN list /\ i < k /\ ~(list[i] < list[k])}
<1>2. j \in Falls
  BY <1>1
<1>3. PICK k \in Falls : \A x \in Falls : k <= x
  BY <1>2, LeastNumber
<1>4. k - 1 \in DOMAIN list /\ k \in DOMAIN list /\ i < k /\ i <= k - 1 /\ ~(list[i] < list[k])
  BY <1>1, <1>3
<1>5. list[k - 1] < list[k]
  BY <1>1, <1>4
<1>6. CASE i = k - 1
  BY <1>4, <1>5, <1>6
<1>7. CASE i # k - 1
  <2>1. k \in Int /\ i \in Int /\ i < k - 1 /\ k - 1 \in Nat
    BY <1>1, <1>4, <1>7
  <2>2. ~(k - 1 \in Falls)
    <3> HIDE DEF Falls
    <3> QED
      BY <1>3, <2>1
  <2>3. list[i] < list[k - 1]
    BY <1>4, <2>1, <2>2
  <2> QED
    BY <1>1, <1>4, <1>5, <2>3
<1> QED
  BY <1>6, <1>7

\* The gap between the validator and the app's loader, for every set of packs.
THEOREM ValidatorGap == Spec => []LoaderGap
<1>1. ASSUME PackInv, Accepted PROVE LoaderGap
  <2> DEFINE m == pack.manifest
             chunks == pack.chunks.chunks
             Rising == \A i \in 1 .. Len(m.tempo) - 1 : m.tempo[i] < m.tempo[i + 1]
             InOrder == \A i, j \in DOMAIN m.tempo : i < j => m.tempo[i] < m.tempo[j]
  <2>1. DocumentsUsable /\ InManifest = {} /\ InChunks = {} /\ pack \in Directories
    BY <1>1, AcceptedExact DEF Accepted, PackInv
  <2>2. IsManifest(m) /\ IsChunks(pack.chunks)
    BY <2>1, UsableFields
  <2>3. /\ m.pickup >= 0 /\ m.signatures # <<>> /\ m.tempo # <<>> /\ m.tempo[1] = 0
        /\ \A i \in DOMAIN chunks : chunks[i].start >= 0
    BY <2>1 DEF DocumentsUsable, SchemaAccepts, PackFiles, InManifest, TempoErrors, If
  <2>4. \A c \in ToSet(chunks) : c.start < c.end
    <3>1. \A i \in DOMAIN chunks : chunks[i].start \in Int /\ chunks[i].end \in Int
      <4> DEFINE ids == UNION {{c.id} \cup c.needs : c \in ToSet(chunks)}
                 T == [id : ids, start : Int, end : Int, needs : SUBSET ids]
      <4>1. chunks \in Seq(T)
        BY <2>2 DEF IsChunks
      <4>2. \A i \in DOMAIN chunks : chunks[i] \in T
        <5> HIDE DEF T
        <5> QED
          BY <4>1, Element
      <4> QED
        BY <4>2
    <3>2. \A i \in DOMAIN chunks : ~(chunks[i].start >= chunks[i].end)
      BY <2>1 DEF InChunks, ChunkErrors, If
    <3> QED
      BY <3>1, <3>2 DEF ToSet
  <2>5. \A c \in ToSet(chunks) : 0 <= c.start
    <3>1. \A i \in DOMAIN chunks : chunks[i].start \in Int
      <4> DEFINE ids == UNION {{c.id} \cup c.needs : c \in ToSet(chunks)}
                 T == [id : ids, start : Int, end : Int, needs : SUBSET ids]
      <4>1. chunks \in Seq(T)
        BY <2>2 DEF IsChunks
      <4>2. \A i \in DOMAIN chunks : chunks[i] \in T
        <5> HIDE DEF T
        <5> QED
          BY <4>1, Element
      <4> QED
        BY <4>2
    <3>2. \A i \in DOMAIN chunks : 0 <= chunks[i].start
      BY <2>3, <3>1
    <3> QED
      BY <3>2 DEF ToSet
  <2>6. Rising <=> InOrder
    <3>1. m.tempo \in Seq(Int)
      BY <2>2 DEF IsManifest
    <3>2. InOrder => Rising
      BY <3>1
    <3> QED
      BY <3>1, <3>2, RisesStepByStep
  <2> HIDE DEF Rising, InOrder
  <2>7. AppLoads <=> /\ m.duration > 0 /\ Rising /\ 1 \in DOMAIN pack.notes.levels
                     /\ \A c \in ToSet(chunks) : c.id # Blank
    BY <2>3, <2>4, <2>5 DEF AppLoads, Rising
  <2> QED
    BY <2>6, <2>7 DEF LoaderGap, InOrder
<1>2. PackInv => LoaderGap
  BY <1>1 DEF LoaderGap
<1> QED
  BY PackInvariant, <1>2, PTL
=============================================================================
