-------------------------- MODULE SongPipeline_proof --------------------------
(***************************************************************************)
(* What the files of the content pipeline hold, for every number of stages *)
(* before the audio, every set of sources with the stages that refuse or   *)
(* warn of them, every set of versions and environments, any number of     *)
(* stems, and any sequence of commands that fail or are killed anywhere.   *)
(*                                                                         *)
(* The first invariant says of each file what a reader of it relies on, and*)
(* of the running command what it has read and written so far.  Two more,  *)
(* on top of it, follow a build of all stages and the rights references.   *)
(***************************************************************************)
EXTENDS SongPipeline, WellFoundedInduction, TLAPS

-----------------------------------------------------------------------------
(* The stages.                                                             *)

\* The stages in their order.
LEMMA StageNumbers ==
  /\ Levels \in Nat /\ Levels > 4
  /\ Ingest = 1 /\ Validate = 2 /\ Normalize = 3 /\ Hands = 4
  /\ Audio = Levels + 1 /\ Pack = Levels + 2 /\ Publish = Levels + 3
BY StagesAssumption DEF Ingest, Validate, Normalize, Hands, Audio, Pack, Publish

\* None and Torn are told apart from each other, from sources and from documents.
LEMMA Apart ==
  /\ None # Torn
  /\ \A x \in Source \cup Document : x # None /\ x # Torn
BY StagesAssumption

\* What the stages need of their input.
LEMMA Needs ==
  ASSUME NEW d
  PROVE  /\ CanRun(Normalize, d) <=> d.score # None
         /\ CanRun(Audio, d) <=> {Normalize, Levels} \subseteq d.ran
         /\ CanRun(Pack, d) <=> Normalize \in d.ran /\ (Levels \in d.ran => Hands \in d.ran)
BY StageNumbers DEF CanRun

\* No stage but those from validate to levels finds errors.
LEMMA OnlyStagesFail ==
  \A s, k : <<s, k>> \in Fails => s \in Source /\ k \in Validate .. Levels
BY StagesAssumption

-----------------------------------------------------------------------------
(* The input of a stage.                                                   *)

\* A non-empty set of stages before k has a last one.
LEMMA LastOf ==
  ASSUME NEW k \in Nat, NEW T, T \subseteq 1 .. k - 1, T # {}
  PROVE  \E n \in T : \A m \in T : m <= n
<1> DEFINE D == {n \in Nat : k - n \in T}
<1>1. \A m \in T : k - m \in D /\ k - (k - m) = m
  OBVIOUS
<1>2. D \subseteq Nat /\ D # {}
  BY <1>1
<1>3. PICK n \in D : \A m \in D : ~ (<<m, n>> \in OpToRel(<, Nat))
  BY <1>2, NatLessThanWellFounded, WFMin
<1>4. \A m \in D : ~ (m < n)
  <2> TAKE m \in D
  <2>1. m < n => <<m, n>> \in OpToRel(<, Nat)
    BY DEF OpToRel
  <2> QED BY <1>3, <2>1, Zenon
<1>5. k - n \in T
  OBVIOUS
<1>6. \A m \in T : m <= k - n
  <2> TAKE m \in T
  <2>1. ~ (k - m < n) /\ m \in Nat /\ n \in Nat
    BY <1>1, <1>4
  <2> QED BY <2>1
<1> QED BY <1>5, <1>6

\* _load_previous returns the document of the last stage before k that has one.
LEMMA Nearest ==
  ASSUME DOMAIN stored = Ingest .. Pack, NEW k \in Validate .. Publish
  PROVE  \/ /\ LoadPrevious(stored, k) = BlankDoc
            /\ \A j \in Ingest .. k - 1 : stored[j] = None
         \/ \E j \in Ingest .. k - 1 :
              /\ LoadPrevious(stored, k) = stored[j] /\ stored[j] # None
              /\ \A i \in j + 1 .. k - 1 : stored[i] = None
<1> DEFINE present == {j \in DOMAIN stored \cap (1 .. k - 1) : stored[j] # None}
           last == CHOOSE j \in present : \A i \in present : i <= j
<1>1. \A j : j \in present <=> j \in Ingest .. k - 1 /\ stored[j] # None
  BY StageNumbers
<1>2. LoadPrevious(stored, k) = IF present = {} THEN BlankDoc ELSE stored[last]
  BY DEF LoadPrevious
<1>3. CASE present = {}
  BY <1>1, <1>2, <1>3
<1>4. CASE present # {}
  <2>1. k \in Nat /\ present \subseteq 1 .. k - 1
    BY StageNumbers
  <2>2. \E j \in present : \A i \in present : i <= j
    <3> HIDE DEF present
    <3> QED BY <1>4, <2>1, LastOf
  <2>3. last \in present /\ \A i \in present : i <= last
    <3> HIDE DEF present
    <3> QED BY <2>2
  <2> HIDE DEF present, last
  <2>4. last \in Ingest .. k - 1 /\ stored[last] # None
    BY <1>1, <2>3
  <2>5. \A i \in last + 1 .. k - 1 : stored[i] = None
    <3> TAKE i \in last + 1 .. k - 1
    <3>1. i \in Ingest .. k - 1 /\ ~ (i <= last)
      BY <2>4, StageNumbers
    <3> QED BY <1>1, <2>3, <3>1
  <2> QED BY <1>2, <1>4, <2>4, <2>5
<1> QED BY <1>3, <1>4

-----------------------------------------------------------------------------
(* What a file may hold.                                                   *)

\* A document holds no notes that a stage it went through refused, and went through
\* what the stages after need.
Sound(d) ==
  /\ d \in Document
  /\ \A k \in d.ran : <<d.score, k>> \notin Fails
  /\ d.score # None => Validate \in d.ran
  /\ Normalize \in d.ran => d.score # None
  /\ d.audio => {Normalize, Levels} \subseteq d.ran

\* What stage k stores, and what it starts from.
StoredBy(d, k) ==
  /\ Sound(d)
  /\ d.ran \subseteq Ingest .. k
  /\ d.pack # None <=> k = Pack
  /\ d.pack # None => d.pack \in Versions
  /\ d.audio => k >= Audio
  /\ k = Audio => d.audio

InputFor(d, k) ==
  /\ Sound(d)
  /\ d.ran \subseteq Ingest .. k - 1
  /\ k <= Pack => d.pack = None
  /\ k <= Audio => ~d.audio

StoredOK == \A k \in Ingest .. Pack : stored[k] \in {None, Torn} \/ StoredBy(stored[k], k)

\* The blank document is sound, and so is that of ingest.
LEMMA FirstDocuments ==
  /\ InputFor(BlankDoc, Validate) /\ Sound(BlankDoc)
  /\ BlankDoc.ran = {} /\ BlankDoc.pack = None /\ ~BlankDoc.audio
  /\ \A s \in Source : StoredBy(IngestedDoc(s), Ingest)
<1>1. BlankDoc \in Document
  BY DEF BlankDoc, Document
<1>2. Sound(BlankDoc)
  BY <1>1 DEF BlankDoc, Sound
<1>3. InputFor(BlankDoc, Validate)
  BY <1>2 DEF BlankDoc, InputFor
<1>4. ASSUME NEW s \in Source PROVE StoredBy(IngestedDoc(s), Ingest)
  <2> DEFINE d == IngestedDoc(s)
  <2>1. d = [ref |-> s, score |-> None, ran |-> {Ingest}, audio |-> FALSE, pack |-> None]
    <3>1. BlankDoc = [ref |-> None, score |-> None, ran |-> {}, audio |-> FALSE, pack |-> None]
      BY DEF BlankDoc
    <3>2. d = [BlankDoc EXCEPT !.ref = s, !.ran = {Ingest}]
      BY DEF IngestedDoc
    <3> HIDE DEF d
    <3> QED BY <3>1, <3>2
  <2>2. d \in Document
    BY <2>1, StageNumbers DEF Document
  <2>3. /\ d.score = None /\ d.ran = {Ingest} /\ ~d.audio /\ d.pack = None
    BY <2>1
  <2> HIDE DEF d
  <2>4. <<None, Ingest>> \notin Fails
    BY OnlyStagesFail, StageNumbers
  <2>5. Sound(d)
    BY <2>2, <2>3, <2>4, StageNumbers DEF Sound
  <2> QED BY <2>3, <2>5, StageNumbers DEF StoredBy, d
<1> QED BY <1>2, <1>3, <1>4 DEF BlankDoc

\* What stage k loads, if it is not torn, is sound and of a stage before it; audio
\* files are only listed from stage 9 on, and a pack is only named by stage 10.
LEMMA InputFacts ==
  ASSUME DOMAIN stored = Ingest .. Pack, StoredOK, NEW k \in Validate .. Publish,
         LoadPrevious(stored, k) # Torn
  PROVE  LET d == LoadPrevious(stored, k) IN
         /\ InputFor(d, k)
         /\ stored[k - 1] # None => d = stored[k - 1]
         /\ k = Pack /\ (d.audio \/ stored[Audio] # None) =>
              d = stored[Audio] /\ d.audio /\ stored[Audio] # None
         /\ k = Publish /\ d.pack # None => d = stored[Pack] /\ stored[Pack] # None
<1> DEFINE d == LoadPrevious(stored, k)
<1>1. CASE d = BlankDoc /\ \A j \in Ingest .. k - 1 : stored[j] = None
  <2>1. InputFor(d, k)
    BY <1>1, FirstDocuments DEF InputFor
  <2>2. stored[k - 1] = None /\ (k = Pack => stored[Audio] = None)
    BY <1>1, StageNumbers
  <2> QED BY <1>1, <2>1, <2>2, FirstDocuments
<1>2. ASSUME NEW j \in Ingest .. k - 1, d = stored[j], stored[j] # None,
             \A i \in j + 1 .. k - 1 : stored[i] = None
      PROVE  /\ InputFor(d, k)
             /\ stored[k - 1] # None => d = stored[k - 1]
             /\ k = Pack /\ (d.audio \/ stored[Audio] # None) =>
                  d = stored[Audio] /\ d.audio /\ stored[Audio] # None
             /\ k = Publish /\ d.pack # None => d = stored[Pack] /\ stored[Pack] # None
  <2>1. j \in Ingest .. Pack /\ StoredBy(d, j)
    BY <1>2, StageNumbers DEF StoredOK
  <2> HIDE DEF d
  <2>2. InputFor(d, k)
    BY <2>1, StageNumbers DEF StoredBy, InputFor
  <2>3. stored[k - 1] # None => j = k - 1
    BY <1>2, StageNumbers
  <2>4. k = Pack /\ (d.audio \/ stored[Audio] # None) => j = Audio
    BY <1>2, <2>1, <2>3, StageNumbers DEF StoredBy
  <2>5. k = Publish /\ d.pack # None => j = Pack
    BY <2>1 DEF StoredBy
  <2>6. j = Audio => d.audio
    BY <2>1 DEF StoredBy
  <2> QED BY <1>2, <2>2, <2>3, <2>4, <2>5, <2>6
<1> QED BY <1>1, <1>2, Nearest

-----------------------------------------------------------------------------
(* The invariant on the files.                                             *)

Files ==
  /\ source \in OnDisk(Source) /\ provenance \in OnDisk(Source)
  /\ stored \in [Ingest .. Pack -> OnDisk(Document)]
  /\ stems \in [1 .. StemCount -> Stem \cup {None}]
  /\ packs \in [Versions -> PackFile \cup {None}]
  /\ catalog \in [Envs -> [Versions -> OnDisk(PackFile)]]
  /\ pointer \in [Envs -> OnDisk(Pointer)]

\* What a document of stage 10 that lists audio files promises of the pack it names:
\* no later pack of that version is without audio, since stage 9 has left a document.
Named(d) == d.audio => /\ stored[Audio] # None
                       /\ packs[d.pack] # None => Playable(packs[d.pack])

NamedOK == stored[Pack] \notin {None, Torn} => Named(stored[Pack])

\* A file of the catalog that is not torn is playable, and a pointer names one.
CatalogOK ==
  /\ \A e \in Envs, v \in Versions : catalog[e][v] \notin {None, Torn} => Playable(catalog[e][v])
  /\ \A e \in Envs : pointer[e] \notin {None, Torn} => catalog[e][pointer[e].version] # None

DiskOK == Files /\ StoredOK /\ PacksAreSound /\ NamedOK /\ CatalogOK

\* The files stay as they should be when none changes ...
LEMMA KeepDisk ==
  ASSUME DiskOK, source' = source, provenance' = provenance, stored' = stored,
         stems' = stems, packs' = packs, catalog' = catalog, pointer' = pointer
  PROVE  DiskOK'
BY DEF DiskOK, Files, StoredOK, PacksAreSound, NamedOK, Named, CatalogOK

\* ... when ingest writes the source or its provenance ...
LEMMA ChangeSource ==
  ASSUME DiskOK, source' \in OnDisk(Source), provenance' \in OnDisk(Source), stored' = stored,
         stems' = stems, packs' = packs, catalog' = catalog, pointer' = pointer
  PROVE  DiskOK'
BY DEF DiskOK, Files, StoredOK, PacksAreSound, NamedOK, Named, CatalogOK

\* ... when a stage stores its document, or is killed doing so ...
LEMMA ChangeStored ==
  ASSUME DiskOK, NEW k \in Ingest .. Pack, NEW d,
         d = Torn \/ StoredBy(d, k), k = Pack /\ d # Torn => Named(d),
         stored' = [stored EXCEPT ![k] = d],
         source' = source, provenance' = provenance,
         stems' = stems, packs' = packs, catalog' = catalog, pointer' = pointer
  PROVE  DiskOK'
<1>1. d \in OnDisk(Document)
  BY DEF OnDisk, StoredBy, Sound
<1>2. stored \in [Ingest .. Pack -> OnDisk(Document)]
  BY DEF DiskOK, Files
<1>3. /\ stored' \in [Ingest .. Pack -> OnDisk(Document)]
      /\ stored'[k] = d
      /\ \A j \in Ingest .. Pack : j # k => stored'[j] = stored[j]
  BY <1>1, <1>2
<1>4. Files'
  BY <1>3 DEF DiskOK, Files
<1>5. StoredOK'
  BY <1>3 DEF DiskOK, StoredOK
<1>6. PacksAreSound' /\ CatalogOK'
  BY DEF DiskOK, PacksAreSound, CatalogOK
<1>7. NamedOK'
  <2>1. Audio \in Ingest .. Pack /\ Pack \in Ingest .. Pack /\ Audio # Pack
    BY StageNumbers
  <2>2. stored[Audio] # None => stored'[Audio] # None
    <3>1. d # None
      BY <1>1, Apart DEF StoredBy, Sound
    <3> QED BY <1>3, <2>1, <3>1
  <2>3. ASSUME NEW c, Named(c) PROVE Named(c)'
    BY <2>2, <2>3 DEF Named
  <2>4. CASE k = Pack
    <3>1. stored'[Pack] = d
      BY <1>3, <2>4
    <3>2. d # Torn => Named(d)
      BY <2>4
    <3>3. d # Torn => (Named(d))'
      BY <2>3, <3>2
    <3> QED BY <3>1, <3>3 DEF NamedOK, Named
  <2>5. CASE k # Pack
    <3>1. stored'[Pack] = stored[Pack]
      BY <1>3, <2>1, <2>5
    <3> QED BY <2>2, <3>1 DEF DiskOK, NamedOK, Named
  <2> QED BY <2>4, <2>5
<1> QED BY <1>4, <1>5, <1>6, <1>7 DEF DiskOK

\* ... when stage 9 places a stem ...
LEMMA ChangeStems ==
  ASSUME DiskOK, stems' \in [1 .. StemCount -> Stem \cup {None}], stored' = stored,
         source' = source, provenance' = provenance,
         packs' = packs, catalog' = catalog, pointer' = pointer
  PROVE  DiskOK'
BY DEF DiskOK, Files, StoredOK, PacksAreSound, NamedOK, Named, CatalogOK

\* ... when stage 10 replaces a pack by one without stored errors, that has its audio
\* if stage 9 has left a document ...
LEMMA ChangePacks ==
  ASSUME DiskOK, NEW v \in Versions, NEW p \in PackFile, packs' = [packs EXCEPT ![v] = p],
         \A k \in p.ran : <<p.score, k>> \notin Fails,
         Normalize \in p.ran, Levels \in p.ran => Hands \in p.ran,
         stored[Audio] # None => Playable(p),
         stored' = stored, source' = source, provenance' = provenance,
         stems' = stems, catalog' = catalog, pointer' = pointer
  PROVE  DiskOK'
<1>1. packs \in [Versions -> PackFile \cup {None}]
  BY DEF DiskOK, Files
<1>2. /\ packs' \in [Versions -> PackFile \cup {None}]
      /\ packs'[v] = p
      /\ \A w \in Versions : w # v => packs'[w] = packs[w]
  BY <1>1
<1>3. Files' /\ StoredOK' /\ CatalogOK'
  BY <1>2 DEF DiskOK, Files, StoredOK, CatalogOK
<1>4. PacksAreSound'
  BY <1>2 DEF DiskOK, PacksAreSound
<1>5. NamedOK'
  <2>1. SUFFICES ASSUME stored[Pack] \notin {None, Torn}, stored[Pack].audio
                 PROVE  /\ stored[Audio] # None
                        /\ packs'[stored[Pack].pack] # None => Playable(packs'[stored[Pack].pack])
    BY DEF NamedOK, Named
  <2>2. StoredBy(stored[Pack], Pack)
    BY <2>1, StageNumbers DEF DiskOK, StoredOK
  <2>3. stored[Pack].pack \in Versions
    BY <2>2 DEF StoredBy
  <2>4. /\ stored[Audio] # None
        /\ packs[stored[Pack].pack] # None => Playable(packs[stored[Pack].pack])
    BY <2>1 DEF DiskOK, NamedOK, Named
  <2> QED BY <1>2, <2>3, <2>4
<1> QED BY <1>3, <1>4, <1>5 DEF DiskOK

\* ... when stage 11 copies a pack to the catalog, or is killed doing so ...
LEMMA ChangeCatalog ==
  ASSUME DiskOK, NEW e \in Envs, NEW v \in Versions, NEW p \in PackFile \cup {Torn}, p # None,
         p # Torn => Playable(p),
         catalog' = [catalog EXCEPT ![e][v] = p],
         stored' = stored, source' = source, provenance' = provenance,
         stems' = stems, packs' = packs, pointer' = pointer
  PROVE  /\ DiskOK' /\ catalog'[e][v] = p
<1>1. catalog \in [Envs -> [Versions -> OnDisk(PackFile)]] /\ p \in OnDisk(PackFile)
  BY DEF DiskOK, Files, OnDisk
<1>2. /\ catalog' \in [Envs -> [Versions -> OnDisk(PackFile)]]
      /\ catalog'[e][v] = p
      /\ \A f \in Envs, w \in Versions : <<f, w>> # <<e, v>> => catalog'[f][w] = catalog[f][w]
  BY <1>1
<1>3. Files' /\ StoredOK' /\ PacksAreSound' /\ NamedOK'
  BY <1>2 DEF DiskOK, Files, StoredOK, PacksAreSound, NamedOK, Named
<1>4. CatalogOK'
  <2>1. ASSUME NEW f \in Envs, NEW w \in Versions, catalog'[f][w] \notin {None, Torn}
        PROVE  Playable(catalog'[f][w])
    <3>1. CASE <<f, w>> = <<e, v>>
      BY <1>2, <2>1, <3>1
    <3>2. CASE <<f, w>> # <<e, v>>
      BY <1>2, <2>1, <3>2 DEF DiskOK, CatalogOK
    <3> QED BY <3>1, <3>2
  <2>2. ASSUME NEW f \in Envs, pointer[f] \notin {None, Torn}
        PROVE  catalog'[f][pointer[f].version] # None
    <3>1. pointer[f].version \in Versions
      BY <2>2 DEF DiskOK, Files, OnDisk, Pointer
    <3>2. catalog[f][pointer[f].version] # None
      BY <2>2 DEF DiskOK, CatalogOK
    <3> QED BY <1>2, <3>1, <3>2
  <2>3. \A f \in Envs, w \in Versions :
          catalog'[f][w] \notin {None, Torn} => (Playable(catalog[f][w]))'
    BY <2>1 DEF Playable
  <2> QED BY <2>2, <2>3 DEF CatalogOK
<1> QED BY <1>2, <1>3, <1>4 DEF DiskOK

\* ... and when stage 11 flips a pointer, or is killed doing so.
LEMMA ChangePointer ==
  ASSUME DiskOK, NEW e \in Envs, NEW p \in Pointer \cup {Torn},
         p # Torn => catalog[e][p.version] # None,
         pointer' = [pointer EXCEPT ![e] = p],
         stored' = stored, source' = source, provenance' = provenance,
         stems' = stems, packs' = packs, catalog' = catalog
  PROVE  DiskOK'
<1>1. pointer \in [Envs -> OnDisk(Pointer)] /\ p \in OnDisk(Pointer)
  BY DEF DiskOK, Files, OnDisk
<1>2. /\ pointer' \in [Envs -> OnDisk(Pointer)]
      /\ pointer'[e] = p
      /\ \A f \in Envs : f # e => pointer'[f] = pointer[f]
  BY <1>1
<1>3. Files' /\ StoredOK' /\ PacksAreSound' /\ NamedOK'
  BY <1>2 DEF DiskOK, Files, StoredOK, PacksAreSound, NamedOK, Named
<1>4. CatalogOK'
  BY <1>2 DEF DiskOK, CatalogOK
<1> QED BY <1>3, <1>4 DEF DiskOK

-----------------------------------------------------------------------------
(* The invariant on the command that runs.                                 *)

JobRecord ==
  [step : {"idle", "source", "provenance", "ingested",
           "stage", "stem", "audio", "pack", "pointer"},
   song : Source \cup {None}, args : RunArgs \cup {None}, at : 0 .. Publish,
   doc : Document, stem : 0 .. StemCount]

Ingesting == job.step \in {"source", "provenance", "ingested"}
Running == job.step \in {"stage", "stem", "audio", "pack", "pointer"}

JobTypes ==
  /\ job \in JobRecord
  /\ job.step = "idle" => job = Idle
  /\ Ingesting => job.song \in Source
  /\ Running => job.args \in RunArgs /\ job.at \in Validate .. Publish

\* A song with a provenance has a source.
SourceThere ==
  /\ provenance # None => source # None
  /\ job.step \in {"provenance", "ingested"} => source # None
  /\ Running => provenance # None

\* What a stage of several writes has read and written so far.
StemsHold ==
  job.step \in {"stem", "audio"} =>
    /\ job.at = Audio /\ job.stem \in 1 .. StemCount
    /\ InputFor(job.doc, Audio) /\ {Normalize, Levels} \subseteq job.doc.ran

PackHolds ==
  job.step = "pack" =>
    /\ job.at = Pack /\ InputFor(job.doc, Pack)
    /\ packs[job.args.version].score = job.doc.score
    /\ packs[job.args.version].ran = job.doc.ran
    /\ job.doc.audio => stored[Audio] # None /\ Playable(packs[job.args.version])

PointerHolds ==
  job.step = "pointer" =>
    /\ job.at = Publish
    /\ job.doc.pack \in Versions /\ job.doc.ref \in Source
    /\ LET pack == catalog[job.args.env][job.doc.pack] IN
       pack \in PackFile /\ pack # None /\ Playable(pack)

JobOK == JobTypes /\ SourceThere /\ StemsHold /\ PackHolds /\ PointerHolds

PipelineInv == DiskOK /\ JobOK /\ built \in RunArgs \cup {None}

\* The fields of the idle job.
LEMMA IdleFacts ==
  /\ Idle = [step |-> "idle", song |-> None, args |-> None, at |-> 0, doc |-> BlankDoc,
             stem |-> 0]
  /\ Idle \in JobRecord
<1>1. BlankDoc \in Document
  BY FirstDocuments DEF Sound
<1>2. 0 \in 0 .. Publish /\ 0 \in 0 .. StemCount
  BY StageNumbers, PipelineAssumption
<1> QED BY <1>1, <1>2 DEF Idle, JobRecord

\* A command that is over, or about to start a stage, has nothing to keep.
LEMMA JobAtRest ==
  ASSUME provenance # None => source # None, provenance' = provenance, source' = source,
         \/ job' = Idle
         \/ /\ job' \in JobRecord /\ job'.step = "stage" /\ provenance # None
            /\ job'.args \in RunArgs /\ job'.at \in Validate .. Publish
  PROVE  JobOK'
<1>1. job'.step \in {"idle", "stage"} /\ JobTypes'
  BY IdleFacts DEF JobTypes, Ingesting, Running
<1>2. SourceThere'
  BY <1>1, IdleFacts DEF SourceThere, Running
<1> QED BY <1>1, <1>2 DEF JobOK, StemsHold, PackHolds, PointerHolds

\* A run goes on to a later stage it was asked for, or succeeds.
LEMMA AdvanceFacts ==
  ASSUME job \in JobRecord, job.args \in RunArgs, job.at \in Validate .. Publish, Advance
  PROVE  /\ \/ job' = Idle /\ built' = job.args /\ NextStage > job.args.to
            \/ /\ job' = [step |-> "stage", song |-> job.song, args |-> job.args,
                          at |-> NextStage, doc |-> BlankDoc, stem |-> 0]
               /\ job' \in JobRecord /\ built' = built
               /\ NextStage \in Validate .. Publish /\ NextStage <= job.args.to
         /\ NextStage = IF job.at + 1 = Audio /\ ~job.args.audio THEN job.at + 2 ELSE job.at + 1
<1>1. NextStage = IF job.at + 1 = Audio /\ ~job.args.audio THEN job.at + 2 ELSE job.at + 1
  BY DEF NextStage
<1>2. NextStage \in Nat /\ NextStage >= Validate /\ job.args.to \in Validate .. Publish
  BY <1>1, StageNumbers DEF RunArgs
<1>3. CASE NextStage <= job.args.to
  <2> DEFINE new == [step |-> "stage", song |-> job.song, args |-> job.args,
                     at |-> NextStage, doc |-> BlankDoc, stem |-> 0]
  <2>1. job' = [job EXCEPT !.step = "stage", !.at = NextStage, !.doc = BlankDoc, !.stem = 0]
    BY <1>3 DEF Advance
  <2>2. job' = new
    BY <2>1 DEF JobRecord
  <2>3. NextStage \in Validate .. Publish /\ NextStage \in 0 .. Publish /\ 0 \in 0 .. StemCount
    BY <1>2, <1>3, StageNumbers, PipelineAssumption
  <2>4. BlankDoc \in Document
    BY FirstDocuments DEF Sound
  <2>5. new \in JobRecord
    BY <2>3, <2>4 DEF JobRecord
  <2>6. built' = built
    BY <1>3 DEF Advance
  <2> QED BY <1>1, <1>3, <2>2, <2>3, <2>5, <2>6
<1>4. CASE ~ (NextStage <= job.args.to)
  <2>1. job' = Idle /\ built' = job.args
    BY <1>4 DEF Advance
  <2>2. NextStage > job.args.to
    BY <1>2, <1>4, StageNumbers
  <2> QED BY <1>1, <2>1, <2>2
<1> QED BY <1>3, <1>4

\* The invariant on the command and on the last build, after a stage is done ...
LEMMA AfterAdvance ==
  ASSUME JobOK, built \in RunArgs \cup {None}, Running, Advance,
         provenance' = provenance, source' = source
  PROVE  JobOK' /\ built' \in RunArgs \cup {None}
<1>1. /\ job \in JobRecord /\ job.args \in RunArgs /\ job.at \in Validate .. Publish
      /\ provenance # None /\ source # None
  BY DEF JobOK, JobTypes, SourceThere
<1>2. \/ job' = Idle /\ built' = job.args
      \/ /\ job' = [step |-> "stage", song |-> job.song, args |-> job.args,
                    at |-> NextStage, doc |-> BlankDoc, stem |-> 0]
         /\ job' \in JobRecord /\ built' = built /\ NextStage \in Validate .. Publish
  BY <1>1, AdvanceFacts
<1>3. \/ job' = Idle
      \/ /\ job' \in JobRecord /\ job'.step = "stage"
         /\ job'.args \in RunArgs /\ job'.at \in Validate .. Publish
  BY <1>1, <1>2
<1>4. JobOK'
  BY <1>1, <1>3, JobAtRest
<1> QED BY <1>1, <1>2, <1>4

\* ... and after the command gave up or was killed.
LEMMA AfterStop ==
  ASSUME JobOK, built \in RunArgs \cup {None}, job' = Idle, built' = built,
         provenance' # None => source' # None
  PROVE  JobOK' /\ built' \in RunArgs \cup {None}
<1>1. job'.step = "idle" /\ JobTypes'
  BY IdleFacts DEF JobTypes, Ingesting, Running
<1>2. SourceThere'
  BY <1>1 DEF SourceThere, Running
<1> QED BY <1>1, <1>2 DEF JobOK, StemsHold, PackHolds, PointerHolds

-----------------------------------------------------------------------------
(* What the stages store.                                                  *)

\* A stage that does not raise has an input of the stages before it.
LEMMA RunInput ==
  ASSUME PipelineInv, job.step = "stage"
  PROVE  /\ job.at \in Validate .. Publish /\ job.args \in RunArgs /\ Running
         /\ DOMAIN stored = Ingest .. Pack /\ StoredOK
         /\ Input # Torn => InputFor(Input, job.at) /\ Input \in Document
         /\ ~Raises => /\ Input # Torn /\ CanRun(job.at, Input)
                       /\ job.at = Validate => source \in Source
                       /\ job.at \in Normalize .. Levels => <<Input.score, job.at>> \notin Fails
<1>1. job.at \in Validate .. Publish /\ job.args \in RunArgs /\ Running
  BY DEF PipelineInv, JobOK, JobTypes, Running
<1>2. DOMAIN stored = Ingest .. Pack /\ StoredOK
  BY DEF PipelineInv, DiskOK, Files
<1>3. Input # Torn => InputFor(Input, job.at)
  BY <1>1, <1>2, InputFacts DEF Input
<1>4. Input # Torn => Input \in Document
  BY <1>3 DEF InputFor, Sound
<1>5. source \in OnDisk(Source) /\ source # None
  BY <1>1 DEF PipelineInv, DiskOK, Files, JobOK, SourceThere
<1>6. ~Raises => /\ Input # Torn /\ CanRun(job.at, Input)
                 /\ job.at = Validate => source # Torn
                 /\ job.at \in Normalize .. Levels => <<Input.score, job.at>> \notin Fails
  BY DEF Raises
<1>7. source # Torn => source \in Source
  BY <1>5 DEF OnDisk
<1> QED BY <1>1, <1>2, <1>3, <1>4, <1>6, <1>7

\* What a stage from validate to levels stores.
LEMMA TransformOutput ==
  ASSUME NEW k \in Validate .. Levels, NEW d, InputFor(d, k), CanRun(k, d), NEW s,
         k = Validate => s \in Source,
         k \in Normalize .. Levels => <<d.score, k>> \notin Fails
  PROVE  /\ StoredBy(StageOutput(k, d, s), k)
         /\ k # Pack /\ k \in Ingest .. Pack
         /\ StageOutput(k, d, s).ref = d.ref
         /\ k # Validate => /\ StageOutput(k, d, s).score = d.score
                            /\ StageOutput(k, d, s).ran = d.ran \cup {k}
         /\ k = Validate /\ <<s, k>> \notin Fails =>
              StageOutput(k, d, s).score = s /\ StageOutput(k, d, s).ran = d.ran \cup {k}
<1> DEFINE out == StageOutput(k, d, s)
<1>1. /\ d \in Document /\ Sound(d) /\ d.ran \subseteq Ingest .. k - 1
      /\ d.pack = None /\ ~d.audio /\ k < Audio /\ k \in Ingest .. Pack /\ k # Pack
  BY StageNumbers DEF InputFor, Sound
<1>2. CASE k = Validate /\ <<s, k>> \in Fails
  <2>1. out = d
    BY <1>2 DEF StageOutput
  <2> HIDE DEF out
  <2>2. StoredBy(out, k)
    BY <1>1, <2>1, StageNumbers DEF StoredBy
  <2> QED BY <1>1, <1>2, <2>1, <2>2 DEF out
<1>3. CASE ~ (k = Validate /\ <<s, k>> \in Fails)
  <2> DEFINE score == IF k = Validate THEN s ELSE d.score
             ran == d.ran \cup {k}
  <2>1. out = [d EXCEPT !.ran = ran, !.score = score]
    BY <1>3 DEF StageOutput
  <2>2. out = [ref |-> d.ref, score |-> score, ran |-> ran, audio |-> d.audio, pack |-> d.pack]
    <3> HIDE DEF out, ran, score
    <3> QED BY <2>1, <1>1 DEF Document
  <2>3. /\ out.ref = d.ref /\ out.score = score /\ out.ran = ran
        /\ out.audio = d.audio /\ out.pack = d.pack
    BY <2>2
  <2>4. score \in Source \cup {None} /\ ran \in SUBSET (Ingest .. Publish)
    BY <1>1, StageNumbers DEF Document
  <2> HIDE DEF out
  <2>5. out \in Document
    BY <1>1, <2>2, <2>4 DEF Document
  <2>6. \A j \in ran : <<score, j>> \notin Fails
    <3> SUFFICES ASSUME NEW j \in ran PROVE <<score, j>> \notin Fails
      OBVIOUS
    <3>1. CASE k = Validate
      <4>1. j \in Ingest .. Validate
        BY <1>1, <3>1, StageNumbers
      <4>2. j = Validate => <<score, j>> \notin Fails
        BY <1>3, <3>1
      <4>3. j # Validate => j \notin Validate .. Levels
        BY <4>1, StageNumbers
      <4> QED BY <4>2, <4>3, OnlyStagesFail
    <3>2. CASE k # Validate
      <4>1. k \in Normalize .. Levels
        BY <3>2, StageNumbers
      <4> QED BY <1>1, <3>2, <4>1 DEF Sound
    <3> QED BY <3>1, <3>2
  <2>7. score # None => Validate \in ran
    BY <1>1 DEF Sound
  <2>8. Normalize \in ran => score # None
    <3>1. k = Normalize => d.score # None
      BY Needs
    <3>2. k = Validate => Normalize \notin ran
      BY <1>1, StageNumbers
    <3> QED BY <1>1, <3>1, <3>2, StageNumbers DEF Sound
  <2>9. Sound(out)
    BY <1>1, <2>3, <2>5, <2>6, <2>7, <2>8 DEF Sound
  <2>10. ran \subseteq Ingest .. k
    BY <1>1, StageNumbers
  <2>11. StoredBy(out, k)
    BY <1>1, <2>3, <2>9, <2>10, StageNumbers DEF StoredBy
  <2> QED BY <1>1, <1>3, <2>3, <2>11 DEF out
<1> QED BY <1>2, <1>3

\* What stages 9 and 10 store.
LEMMA AudioOutput ==
  ASSUME NEW d, InputFor(d, Audio), {Normalize, Levels} \subseteq d.ran
  PROVE  LET out == [d EXCEPT !.audio = TRUE, !.ran = @ \cup {Audio}] IN
         /\ StoredBy(out, Audio)
         /\ out.ref = d.ref /\ out.score = d.score /\ out.ran = d.ran \cup {Audio}
<1> DEFINE ran == d.ran \cup {Audio}
           out == [d EXCEPT !.audio = TRUE, !.ran = ran]
<1>1. /\ d \in Document /\ Sound(d) /\ d.ran \subseteq Ingest .. Levels
      /\ d.pack = None /\ Audio \in Ingest .. Publish /\ Audio # Pack
      /\ Audio \notin Validate .. Levels
  BY StageNumbers DEF InputFor, Sound
<1>2. out = [ref |-> d.ref, score |-> d.score, ran |-> ran, audio |-> TRUE, pack |-> d.pack]
  <2>1. out = [d EXCEPT !.audio = TRUE, !.ran = ran]
    OBVIOUS
  <2> HIDE DEF out, ran
  <2> QED BY <1>1, <2>1 DEF Document
<1>3. /\ out.ref = d.ref /\ out.score = d.score /\ out.ran = ran
      /\ out.audio = TRUE /\ out.pack = d.pack
  BY <1>2
<1>4. ran \in SUBSET (Ingest .. Publish) /\ ran \subseteq Ingest .. Audio
  BY <1>1, StageNumbers DEF Document
<1>5. out \in Document
  <2> HIDE DEF out
  <2> QED BY <1>1, <1>2, <1>4 DEF Document
<1> HIDE DEF out
<1>6. \A j \in ran : <<d.score, j>> \notin Fails
  BY <1>1, OnlyStagesFail DEF Sound
<1>7. Normalize \in ran => d.score # None
  BY <1>1, StageNumbers DEF Sound
<1>8. Sound(out)
  BY <1>1, <1>3, <1>5, <1>6, <1>7 DEF Sound
<1>9. StoredBy(out, Audio)
  BY <1>1, <1>3, <1>4, <1>8, StageNumbers DEF StoredBy
<1> QED BY <1>3, <1>9 DEF out

LEMMA PackOutput ==
  ASSUME NEW d, InputFor(d, Pack), NEW v \in Versions
  PROVE  LET out == [d EXCEPT !.pack = v, !.ran = @ \cup {Pack}] IN
         /\ StoredBy(out, Pack)
         /\ out.ref = d.ref /\ out.score = d.score /\ out.audio = d.audio /\ out.pack = v
<1> DEFINE ran == d.ran \cup {Pack}
           out == [d EXCEPT !.pack = v, !.ran = ran]
<1>1. /\ d \in Document /\ Sound(d) /\ d.ran \subseteq Ingest .. Audio
      /\ Pack \in Ingest .. Publish /\ Pack >= Audio /\ Pack # Audio
      /\ Pack \notin Validate .. Levels
  BY StageNumbers DEF InputFor, Sound
<1>2. out = [ref |-> d.ref, score |-> d.score, ran |-> ran, audio |-> d.audio, pack |-> v]
  <2>1. out = [d EXCEPT !.pack = v, !.ran = ran]
    OBVIOUS
  <2> HIDE DEF out, ran
  <2> QED BY <1>1, <2>1 DEF Document
<1>3. /\ out.ref = d.ref /\ out.score = d.score /\ out.ran = ran
      /\ out.audio = d.audio /\ out.pack = v
  BY <1>2
<1>4. ran \in SUBSET (Ingest .. Publish) /\ ran \subseteq Ingest .. Pack
  BY <1>1, StageNumbers DEF Document
<1>5. v \in Nat
  BY PipelineAssumption
<1>6. out \in Document
  <2> HIDE DEF out
  <2> QED BY <1>1, <1>2, <1>4, <1>5 DEF Document
<1>7. v # None
  BY PipelineAssumption
<1> HIDE DEF out
<1>8. \A j \in ran : <<d.score, j>> \notin Fails
  BY <1>1, OnlyStagesFail DEF Sound
<1>9. Normalize \in ran => d.score # None
  BY <1>1, StageNumbers DEF Sound
<1>10. Sound(out)
  BY <1>1, <1>3, <1>6, <1>8, <1>9 DEF Sound
<1>11. StoredBy(out, Pack)
  BY <1>1, <1>3, <1>4, <1>7, <1>10, StageNumbers DEF StoredBy
<1> QED BY <1>3, <1>11 DEF out

-----------------------------------------------------------------------------
(* The steps.                                                              *)

\* Before any command the disk is empty.
LEMMA PipelineInit ==
  ASSUME Init
  PROVE  PipelineInv
<1>1. Files
  BY DEF Init, Files, OnDisk
<1>2. StoredOK /\ PacksAreSound /\ CatalogOK
  BY DEF Init, StoredOK, PacksAreSound, CatalogOK
<1>3. NamedOK
  BY StageNumbers DEF Init, NamedOK
<1>4. job.step = "idle" /\ job = Idle /\ job \in JobRecord
  BY IdleFacts DEF Init
<1>5. JobOK
  BY <1>4 DEF Init, JobOK, JobTypes, SourceThere, Ingesting, Running, StemsHold, PackHolds,
    PointerHolds
<1> QED BY <1>1, <1>2, <1>3, <1>5 DEF Init, PipelineInv, DiskOK

\* A command starts on a disk that is as it should be.
LEMMA StartKeeps ==
  ASSUME PipelineInv, \/ \E s \in Source : StartIngest(s)
                      \/ \E args \in Runs : StartRun(args)
  PROVE  PipelineInv'
<1>1. /\ source' = source /\ provenance' = provenance /\ stored' = stored /\ stems' = stems
      /\ packs' = packs /\ catalog' = catalog /\ pointer' = pointer /\ built' = None
  BY DEF StartIngest, StartRun, Start, diskVars
<1>2. DiskOK'
  BY <1>1, KeepDisk DEF PipelineInv
<1>3. provenance # None => source # None
  BY DEF PipelineInv, JobOK, SourceThere
<1>4. BlankDoc \in Document /\ 0 \in 0 .. Publish /\ 0 \in 0 .. StemCount
  BY FirstDocuments, StageNumbers, PipelineAssumption DEF Sound
<1>5. ASSUME NEW s \in Source, StartIngest(s) PROVE JobOK'
  <2> DEFINE step == IF source = s THEN "provenance" ELSE "source"
             new == [step |-> step, song |-> s, args |-> None, at |-> 0, doc |-> BlankDoc,
                     stem |-> 0]
  <2>1. job' = [Idle EXCEPT !.step = step, !.song = s]
    BY <1>5 DEF StartIngest, Start
  <2>2. job' = new
    <3> HIDE DEF step
    <3> QED BY <2>1, IdleFacts
  <2>3. step \in {"source", "provenance"} /\ (step = "provenance" => source # None)
    BY Apart
  <2>4. new \in JobRecord
    BY <1>4 DEF JobRecord
  <2>5. JobTypes'
    BY <2>2, <2>3, <2>4 DEF JobTypes, Ingesting, Running
  <2>6. SourceThere'
    BY <1>1, <1>3, <2>2, <2>3 DEF SourceThere, Running
  <2>7. job'.step \in {"source", "provenance"}
    BY <2>2, <2>3
  <2> QED BY <2>5, <2>6, <2>7 DEF JobOK, StemsHold, PackHolds, PointerHolds
<1>6. ASSUME NEW args \in Runs, StartRun(args) PROVE JobOK'
  <2> DEFINE new == [step |-> "stage", song |-> None, args |-> args, at |-> args.from,
                     doc |-> BlankDoc, stem |-> 0]
  <2>1. job' = [Idle EXCEPT !.step = "stage", !.args = args, !.at = args.from]
    BY <1>6 DEF StartRun, Start
  <2>2. job' = new
    BY <2>1, IdleFacts
  <2>3. args \in RunArgs /\ args.from \in Validate .. Publish /\ args.from \in 0 .. Publish
    <3>1. args \in RunArgs
      BY PipelineAssumption
    <3> QED BY <3>1, StageNumbers DEF RunArgs
  <2>4. new \in JobRecord
    BY <1>4, <2>3 DEF JobRecord
  <2>5. /\ job' \in JobRecord /\ job'.step = "stage" /\ job'.args \in RunArgs
        /\ job'.at \in Validate .. Publish
    BY <2>2, <2>3, <2>4
  <2>6. provenance # None
    BY <1>6 DEF StartRun
  <2> QED BY <1>1, <1>3, <2>5, <2>6, JobAtRest
<1> QED BY <1>1, <1>2, <1>5, <1>6 DEF PipelineInv

\* The three writes of ingest.
LEMMA IngestKeeps ==
  ASSUME PipelineInv, CopySource \/ WriteProvenance \/ PersistIngest
  PROVE  PipelineInv'
<1>1. /\ DiskOK /\ JobOK /\ built \in RunArgs \cup {None} /\ built' = built
      /\ job \in JobRecord /\ job.song \in Source /\ Ingesting
      /\ source \in OnDisk(Source) /\ provenance \in OnDisk(Source)
      /\ provenance # None => source # None
  BY DEF PipelineInv, JobOK, JobTypes, SourceThere, Ingesting, DiskOK, Files, CopySource,
    WriteProvenance, PersistIngest
<1>2. job.song \in OnDisk(Source) /\ job.song # None
  BY <1>1, Apart DEF OnDisk
<1>3. ASSUME NEW step \in {"provenance", "ingested"}, job' = [job EXCEPT !.step = step],
             source' # None
      PROVE  JobOK'
  <2>1. job' = [step |-> step, song |-> job.song, args |-> job.args, at |-> job.at,
                doc |-> job.doc, stem |-> job.stem]
    BY <1>1, <1>3 DEF JobRecord
  <2>2. job' \in JobRecord
    BY <1>1, <2>1 DEF JobRecord
  <2>3. JobTypes' /\ SourceThere'
    BY <1>1, <1>3, <2>1, <2>2 DEF JobTypes, SourceThere, Ingesting, Running
  <2>4. job'.step \in {"provenance", "ingested"}
    BY <2>1
  <2> QED BY <2>3, <2>4 DEF JobOK, StemsHold, PackHolds, PointerHolds
<1>4. CASE CopySource
  <2>1. DiskOK'
    BY <1>1, <1>2, <1>4, ChangeSource DEF CopySource
  <2>2. JobOK'
    BY <1>2, <1>3, <1>4 DEF CopySource
  <2> QED BY <1>1, <2>1, <2>2 DEF PipelineInv
<1>5. CASE WriteProvenance
  <2>1. DiskOK'
    BY <1>1, <1>2, <1>5, ChangeSource DEF WriteProvenance
  <2>2. source' # None
    BY <1>1, <1>5 DEF WriteProvenance, JobOK, SourceThere
  <2>3. JobOK'
    BY <1>3, <1>5, <2>2 DEF WriteProvenance
  <2> QED BY <1>1, <2>1, <2>3 DEF PipelineInv
<1>6. CASE PersistIngest
  <2>1. Ingest \in Ingest .. Pack /\ Ingest # Pack /\ StoredBy(IngestedDoc(job.song), Ingest)
    BY <1>1, FirstDocuments, StageNumbers
  <2>2. DiskOK'
    BY <1>1, <1>6, <2>1, ChangeStored DEF PersistIngest
  <2>3. JobOK'
    BY <1>1, <1>6, AfterStop DEF PersistIngest
  <2> QED BY <1>1, <2>2, <2>3 DEF PipelineInv
<1> QED BY <1>4, <1>5, <1>6

\* The stages that store nothing but their document.
LEMMA TransformKeeps ==
  ASSUME PipelineInv, TransformStage
  PROVE  PipelineInv'
<1> DEFINE doc == StageOutput(job.at, Input, source)
<1>1. /\ DiskOK /\ JobOK /\ built \in RunArgs \cup {None} /\ job.step = "stage" /\ ~Raises
      /\ job.at <= Levels /\ stored' = [stored EXCEPT ![job.at] = doc]
      /\ source' = source /\ provenance' = provenance /\ stems' = stems /\ packs' = packs
      /\ catalog' = catalog /\ pointer' = pointer
      /\ Abort \/ Advance
      /\ provenance # None => source # None
  BY DEF PipelineInv, TransformStage, AtTransform, JobOK, SourceThere
<1>2. /\ job.at \in Validate .. Levels /\ Running /\ InputFor(Input, job.at)
      /\ CanRun(job.at, Input)
      /\ job.at = Validate => source \in Source
      /\ job.at \in Normalize .. Levels => <<Input.score, job.at>> \notin Fails
  BY <1>1, RunInput, StageNumbers
<1>3. StoredBy(doc, job.at) /\ job.at # Pack /\ job.at \in Ingest .. Pack
  BY <1>2, TransformOutput
<1> HIDE DEF doc
<1>4. DiskOK'
  BY <1>1, <1>3, ChangeStored
<1>5. CASE Advance
  BY <1>1, <1>2, <1>4, <1>5, AfterAdvance DEF PipelineInv
<1>6. CASE Abort
  BY <1>1, <1>4, <1>6, AfterStop DEF PipelineInv, Abort
<1> QED BY <1>1, <1>5, <1>6

\* A stage that raises, and a command that is killed between two writes.
LEMMA StopKeeps ==
  ASSUME PipelineInv, StageRaises \/ KillBetweenWrites
  PROVE  PipelineInv'
<1>1. /\ source' = source /\ provenance' = provenance /\ stored' = stored /\ stems' = stems
      /\ packs' = packs /\ catalog' = catalog /\ pointer' = pointer /\ built' = built
      /\ job' = Idle
  BY DEF StageRaises, KillBetweenWrites, Kill, Abort, diskVars
<1>2. DiskOK'
  BY <1>1, KeepDisk DEF PipelineInv
<1>3. JobOK' /\ built' \in RunArgs \cup {None}
  <2>1. JobOK /\ built \in RunArgs \cup {None} /\ (provenance # None => source # None)
    BY DEF PipelineInv, JobOK, SourceThere
  <2> QED BY <1>1, <2>1, AfterStop
<1> QED BY <1>2, <1>3 DEF PipelineInv

\* Stage 9.
LEMMA AudioKeeps ==
  ASSUME PipelineInv, StartAudio \/ (\E passed \in BOOLEAN : EncodeStem(passed)) \/ StoreAudio
  PROVE  PipelineInv'
<1>1. /\ DiskOK /\ JobOK /\ built \in RunArgs \cup {None} /\ job \in JobRecord
      /\ source' = source /\ provenance' = provenance /\ packs' = packs
      /\ catalog' = catalog /\ pointer' = pointer /\ Running
      /\ job.args \in RunArgs /\ job.at \in Validate .. Publish
      /\ provenance # None /\ source # None
  BY DEF PipelineInv, JobOK, JobTypes, SourceThere, Running, StartAudio, EncodeStem, StoreAudio,
    diskVars
<1>2. StemCount \in Nat \ {0} /\ Publish \in Nat
  BY PipelineAssumption, StageNumbers
<1>3. ASSUME NEW d \in Document, InputFor(d, Audio), {Normalize, Levels} \subseteq d.ran,
             NEW step \in {"stem", "audio"}, NEW stem \in 1 .. StemCount, job.at = Audio,
             job' = [step |-> step, song |-> job.song, args |-> job.args, at |-> job.at,
                     doc |-> d, stem |-> stem]
      PROVE  JobOK'
  <2>1. stem \in 0 .. StemCount
    BY <1>2
  <2>2. job' \in JobRecord
    BY <1>1, <1>3, <2>1 DEF JobRecord
  <2>3. /\ job'.step \in {"stem", "audio"} /\ job'.at = job.at /\ job'.doc = d /\ job'.stem = stem
        /\ job'.args = job.args
    BY <1>3
  <2>4. JobTypes'
    BY <1>1, <2>2, <2>3 DEF JobTypes, Ingesting, Running
  <2>5. SourceThere'
    BY <1>1, <2>3 DEF SourceThere
  <2>6. StemsHold'
    BY <1>3, <2>3 DEF StemsHold
  <2> QED BY <2>3, <2>4, <2>5, <2>6 DEF JobOK, PackHolds, PointerHolds
<1>4. CASE StartAudio
  <2>1. /\ stored' = stored /\ stems' = stems /\ built' = built /\ job.step = "stage" /\ ~Raises
        /\ job.at = Audio /\ job' = [job EXCEPT !.step = "stem", !.doc = Input, !.stem = 1]
    BY <1>4 DEF StartAudio, diskVars
  <2>2. InputFor(Input, Audio) /\ Input \in Document /\ CanRun(Audio, Input)
    BY <2>1, RunInput
  <2>3. {Normalize, Levels} \subseteq Input.ran
    BY <2>2, Needs
  <2>4. job' = [step |-> "stem", song |-> job.song, args |-> job.args, at |-> job.at,
                doc |-> Input, stem |-> 1]
    BY <1>1, <2>1 DEF JobRecord
  <2>5. 1 \in 1 .. StemCount
    BY <1>2
  <2>6. JobOK'
    BY <1>3, <2>1, <2>2, <2>3, <2>4, <2>5
  <2>7. DiskOK'
    BY <1>1, <2>1, KeepDisk
  <2> QED BY <1>1, <2>1, <2>6, <2>7 DEF PipelineInv
<1>5. ASSUME NEW passed \in BOOLEAN, EncodeStem(passed) PROVE PipelineInv'
  <2>1. /\ job.step = "stem" /\ stored' = stored /\ built' = built
        /\ stems' = [stems EXCEPT ![job.stem] = [of |-> job.doc.score, passed |-> passed]]
        /\ \/ job' = Idle
           \/ job.stem < StemCount /\ job' = [job EXCEPT !.stem = @ + 1]
           \/ job' = [job EXCEPT !.step = "audio"]
    BY <1>5 DEF EncodeStem, Abort
  <2>2. /\ job.at = Audio /\ job.stem \in 1 .. StemCount /\ InputFor(job.doc, Audio)
        /\ {Normalize, Levels} \subseteq job.doc.ran /\ job.doc \in Document
    BY <1>1, <2>1 DEF JobOK, StemsHold, InputFor, Sound
  <2>3. job.doc.score \in Source
    BY <2>2 DEF InputFor, Sound, Document
  <2>4. stems \in [1 .. StemCount -> Stem \cup {None}]
    BY <1>1 DEF DiskOK, Files
  <2>5. [of |-> job.doc.score, passed |-> passed] \in Stem
    BY <2>3 DEF Stem
  <2>6. stems' \in [1 .. StemCount -> Stem \cup {None}]
    BY <2>1, <2>4, <2>5
  <2>7. DiskOK'
    BY <1>1, <2>1, <2>6, ChangeStems
  <2>8. CASE job' = Idle
    <3>1. JobOK'
      BY <1>1, <2>1, <2>8, AfterStop
    <3> QED BY <1>1, <2>1, <2>7, <3>1 DEF PipelineInv
  <2>9. CASE job.stem < StemCount /\ job' = [job EXCEPT !.stem = @ + 1]
    <3>1. job' = [step |-> "stem", song |-> job.song, args |-> job.args, at |-> job.at,
                  doc |-> job.doc, stem |-> job.stem + 1]
      BY <1>1, <2>1, <2>9 DEF JobRecord
    <3>2. job.stem + 1 \in 1 .. StemCount
      BY <1>2, <2>2, <2>9
    <3>3. JobOK'
      BY <1>3, <2>2, <3>1, <3>2
    <3> QED BY <1>1, <2>1, <2>7, <3>3 DEF PipelineInv
  <2>10. CASE job' = [job EXCEPT !.step = "audio"]
    <3>1. job' = [step |-> "audio", song |-> job.song, args |-> job.args, at |-> job.at,
                  doc |-> job.doc, stem |-> job.stem]
      BY <1>1, <2>10 DEF JobRecord
    <3>2. JobOK'
      BY <1>3, <2>2, <3>1
    <3> QED BY <1>1, <2>1, <2>7, <3>2 DEF PipelineInv
  <2> QED BY <2>1, <2>8, <2>9, <2>10
<1>6. CASE StoreAudio
  <2> DEFINE out == [job.doc EXCEPT !.audio = TRUE, !.ran = @ \cup {Audio}]
  <2>1. /\ job.step = "audio" /\ stored' = [stored EXCEPT ![Audio] = out] /\ Advance
        /\ stems' = stems
    BY <1>6 DEF StoreAudio
  <2>2. StoredBy(out, Audio)
    BY <1>1, <2>1, AudioOutput DEF JobOK, StemsHold
  <2>3. Audio \in Ingest .. Pack /\ Audio # Pack
    BY StageNumbers
  <2> HIDE DEF out
  <2>4. DiskOK'
    BY <1>1, <2>1, <2>2, <2>3, ChangeStored
  <2>5. JobOK' /\ built' \in RunArgs \cup {None}
    BY <1>1, <2>1, AfterAdvance
  <2> QED BY <2>4, <2>5 DEF PipelineInv
<1> QED BY <1>4, <1>5, <1>6

\* A document that gets past the checks of stage 10 gives a pack without stored
\* errors, with its audio if stage 9 has left a document.
LEMMA NewPack ==
  ASSUME PipelineInv, job.step = "stage", job.at = Pack, ~Raises, ~PackLacksStems
  PROVE  LET p == [score |-> Input.score, ran |-> Input.ran,
                   stems |-> IF Input.audio THEN stems ELSE None] IN
         /\ InputFor(Input, Pack) /\ Input \in Document
         /\ p \in PackFile
         /\ \A k \in p.ran : <<p.score, k>> \notin Fails
         /\ Normalize \in p.ran
         /\ Levels \in p.ran => Hands \in p.ran
         /\ Input.audio \/ stored[Audio] # None => Playable(p) /\ Input.audio /\ stored[Audio] # None
<1> DEFINE audio == IF Input.audio THEN stems ELSE None
           p == [score |-> Input.score, ran |-> Input.ran, stems |-> audio]
<1>1. /\ InputFor(Input, Pack) /\ Input \in Document /\ Input # Torn /\ CanRun(Pack, Input)
      /\ DOMAIN stored = Ingest .. Pack /\ StoredOK
  BY RunInput
<1>2. Normalize \in Input.ran /\ (Levels \in Input.ran => Hands \in Input.ran)
  BY <1>1, Needs
<1>3. Sound(Input) /\ Input.score \in Source /\ Validate \in Input.ran
      /\ Input.ran \subseteq Ingest .. Publish
  <2>1. Sound(Input)
    BY <1>1 DEF InputFor
  <2> QED BY <1>2, <2>1 DEF Sound, Document
<1>4. Input.audio => audio \in [1 .. StemCount -> Stem]
  <2>1. Input.audio => \A i \in 1 .. StemCount : stems[i] # None
    BY <1>1 DEF PackLacksStems
  <2>2. stems \in [1 .. StemCount -> Stem \cup {None}]
    BY DEF PipelineInv, DiskOK, Files
  <2> QED BY <2>1, <2>2
<1>5. p \in PackFile
  <2>1. audio \in [1 .. StemCount -> Stem] \cup {None}
    BY <1>4
  <2> HIDE DEF audio
  <2> QED BY <1>3, <2>1 DEF PackFile
<1>6. Input.audio \/ stored[Audio] # None => Input.audio /\ stored[Audio] # None
  <2>1. Pack \in Validate .. Publish /\ LoadPrevious(stored, Pack) = Input
    BY StageNumbers DEF Input
  <2> QED BY <1>1, <2>1, InputFacts
<1>7. Input.audio => Playable(p)
  <2>1. None \notin [1 .. StemCount -> Stem]
    BY PipelineAssumption
  <2>2. Input.audio => p.stems # None
    BY <1>4, <2>1
  <2>3. Input.audio => {Validate, Normalize, Hands, Levels} \subseteq Input.ran
    BY <1>2, <1>3 DEF Sound
  <2> HIDE DEF audio
  <2> QED BY <2>2, <2>3 DEF Playable
<1>8. \A k \in p.ran : <<p.score, k>> \notin Fails
  <2> HIDE DEF audio
  <2> QED BY <1>3 DEF Sound
<1> HIDE DEF audio
<1> QED BY <1>1, <1>2, <1>5, <1>6, <1>7, <1>8 DEF audio

\* Stage 10.
LEMMA PackKeeps ==
  ASSUME PipelineInv, ReplacePack \/ StorePack
  PROVE  PipelineInv'
<1>1. /\ DiskOK /\ JobOK /\ built \in RunArgs \cup {None} /\ job \in JobRecord
      /\ source' = source /\ provenance' = provenance /\ stems' = stems
      /\ catalog' = catalog /\ pointer' = pointer /\ Running
      /\ job.args \in RunArgs /\ job.args.version \in Versions
      /\ provenance # None /\ source # None
  BY DEF PipelineInv, JobOK, JobTypes, SourceThere, Running, ReplacePack, StorePack, RunArgs
<1>2. CASE ReplacePack
  <2> DEFINE p == [score |-> Input.score, ran |-> Input.ran,
                   stems |-> IF Input.audio THEN stems ELSE None]
             v == job.args.version
  <2>1. /\ job.step = "stage" /\ job.at = Pack /\ ~Raises /\ ~PackLacksStems
        /\ packs' = [packs EXCEPT ![v] = p] /\ stored' = stored /\ built' = built
        /\ job' = [job EXCEPT !.step = "pack", !.doc = Input]
    BY <1>2 DEF ReplacePack
  <2>2. /\ InputFor(Input, Pack) /\ Input \in Document /\ p \in PackFile
        /\ \A k \in p.ran : <<p.score, k>> \notin Fails
        /\ Normalize \in p.ran
        /\ Levels \in p.ran => Hands \in p.ran
        /\ Input.audio \/ stored[Audio] # None => Playable(p) /\ Input.audio /\ stored[Audio] # None
    BY <2>1, NewPack
  <2>3. p.score = Input.score /\ p.ran = Input.ran
    OBVIOUS
  <2>4. job' = [step |-> "pack", song |-> job.song, args |-> job.args, at |-> job.at,
                doc |-> Input, stem |-> job.stem]
    BY <1>1, <2>1 DEF JobRecord
  <2>5. packs \in [Versions -> PackFile \cup {None}]
    BY <1>1 DEF DiskOK, Files
  <2> HIDE DEF p
  <2>6. packs'[v] = p
    BY <1>1, <2>1, <2>5
  <2>7. DiskOK'
    BY <1>1, <2>1, <2>2, ChangePacks
  <2>8. job' \in JobRecord
    BY <1>1, <2>2, <2>4 DEF JobRecord
  <2>9. /\ job'.step = "pack" /\ job'.args = job.args /\ job'.at = Pack /\ job'.doc = Input
    BY <2>1, <2>4
  <2>10. JobTypes' /\ SourceThere'
    BY <1>1, <2>8, <2>9, StageNumbers DEF JobTypes, SourceThere, Ingesting, Running
  <2>11. PackHolds'
    BY <2>1, <2>2, <2>3, <2>6, <2>9 DEF PackHolds
  <2>12. JobOK'
    BY <2>9, <2>10, <2>11 DEF JobOK, StemsHold, PointerHolds
  <2> QED BY <1>1, <2>1, <2>7, <2>12 DEF PipelineInv
<1>3. CASE StorePack
  <2> DEFINE out == [job.doc EXCEPT !.pack = job.args.version, !.ran = @ \cup {Pack}]
  <2>1. /\ job.step = "pack" /\ stored' = [stored EXCEPT ![Pack] = out] /\ Advance
        /\ packs' = packs
    BY <1>3 DEF StorePack
  <2>2. /\ InputFor(job.doc, Pack)
        /\ job.doc.audio => stored[Audio] # None /\ Playable(packs[job.args.version])
    BY <1>1, <2>1 DEF JobOK, PackHolds
  <2>3. StoredBy(out, Pack) /\ out.audio = job.doc.audio /\ out.pack = job.args.version
    BY <1>1, <2>2, PackOutput
  <2>4. Pack \in Ingest .. Pack
    BY StageNumbers
  <2> HIDE DEF out
  <2>5. Named(out)
    BY <2>2, <2>3 DEF Named
  <2>6. DiskOK'
    BY <1>1, <2>1, <2>3, <2>4, <2>5, ChangeStored
  <2>7. JobOK' /\ built' \in RunArgs \cup {None}
    BY <1>1, <2>1, AfterAdvance
  <2> QED BY <2>6, <2>7 DEF PipelineInv
<1> QED BY <1>2, <1>3

\* A document that gets past the gate of stage 11 names a pack that is fit for
\* publishing.
LEMMA GatedPack ==
  ASSUME PipelineInv, job.step = "stage", job.at = Publish, GatePasses
  PROVE  /\ Input \in Document /\ Input = stored[Pack] /\ stored[Pack] \notin {None, Torn}
         /\ Input.pack \in Versions /\ Input.ref \in Source /\ Input.audio
         /\ packs[Input.pack] \in PackFile /\ packs[Input.pack] # None
         /\ Playable(packs[Input.pack])
<1>1. /\ Input # Torn /\ Input \in Document /\ DOMAIN stored = Ingest .. Pack /\ StoredOK
      /\ Input.pack # None /\ packs[Input.pack] # None /\ Input.ref # None /\ Input.audio
  BY RunInput DEF GatePasses
<1>2. Input = stored[Pack] /\ stored[Pack] # None
  <2>1. Publish \in Validate .. Publish /\ LoadPrevious(stored, Publish) = Input
    BY StageNumbers DEF Input
  <2> QED BY <1>1, <2>1, InputFacts
<1>3. StoredBy(Input, Pack)
  BY <1>1, <1>2, StageNumbers DEF StoredOK
<1>4. Input.pack \in Versions
  BY <1>1, <1>3 DEF StoredBy
<1>5. Input.ref \in Source
  BY <1>1 DEF Document
<1>6. packs[Input.pack] \in PackFile
  BY <1>1, <1>4 DEF PipelineInv, DiskOK, PacksAreSound
<1>7. Playable(packs[Input.pack])
  BY <1>1, <1>2 DEF PipelineInv, DiskOK, NamedOK, Named
<1> QED BY <1>1, <1>2, <1>4, <1>5, <1>6, <1>7

\* Stage 11.
LEMMA PublishKeeps ==
  ASSUME PipelineInv, CopyToCatalog \/ FlipPointer
  PROVE  PipelineInv'
<1>1. /\ DiskOK /\ JobOK /\ built \in RunArgs \cup {None} /\ job \in JobRecord
      /\ source' = source /\ provenance' = provenance /\ stems' = stems
      /\ stored' = stored /\ packs' = packs /\ Running
      /\ job.args \in RunArgs /\ job.args.env \in Envs
      /\ provenance # None /\ source # None
  BY DEF PipelineInv, JobOK, JobTypes, SourceThere, Running, CopyToCatalog, FlipPointer, RunArgs
<1>2. CASE CopyToCatalog
  <2> DEFINE e == job.args.env
             v == Input.pack
  <2>1. /\ job.step = "stage" /\ job.at = Publish /\ GatePasses /\ built' = built
        /\ catalog' = [catalog EXCEPT ![e][v] = packs[v]] /\ pointer' = pointer
        /\ job' = [job EXCEPT !.step = "pointer", !.doc = Input]
    BY <1>2 DEF CopyToCatalog
  <2>2. /\ Input \in Document /\ v \in Versions /\ Input.ref \in Source
        /\ packs[v] \in PackFile /\ packs[v] # None /\ Playable(packs[v])
    BY <2>1, GatedPack
  <2>3. DiskOK' /\ catalog'[e][v] = packs[v]
    <3>1. e \in Envs /\ packs[v] \in PackFile \cup {Torn}
      BY <1>1, <2>2
    <3>2. catalog' = [catalog EXCEPT ![e][v] = packs[v]] /\ pointer' = pointer
      BY <2>1
    <3> HIDE DEF e, v
    <3> QED BY <1>1, <2>2, <3>1, <3>2, ChangeCatalog
  <2>4. job' = [step |-> "pointer", song |-> job.song, args |-> job.args, at |-> job.at,
                doc |-> Input, stem |-> job.stem]
    BY <1>1, <2>1 DEF JobRecord
  <2>5. job' \in JobRecord
    BY <1>1, <2>2, <2>4 DEF JobRecord
  <2>6. /\ job'.step = "pointer" /\ job'.args = job.args /\ job'.at = Publish /\ job'.doc = Input
    BY <2>1, <2>4
  <2>7. JobTypes' /\ SourceThere'
    BY <1>1, <2>5, <2>6, StageNumbers DEF JobTypes, SourceThere, Ingesting, Running
  <2>8. PointerHolds'
    BY <2>2, <2>3, <2>6 DEF PointerHolds
  <2>9. JobOK'
    BY <2>6, <2>7, <2>8 DEF JobOK, StemsHold, PackHolds
  <2> QED BY <1>1, <2>1, <2>3, <2>9 DEF PipelineInv
<1>3. CASE FlipPointer
  <2> DEFINE e == job.args.env
             p == [version |-> job.doc.pack, pack |-> catalog[e][job.doc.pack],
                   ref |-> job.doc.ref]
  <2>1. /\ job.step = "pointer" /\ pointer' = [pointer EXCEPT ![e] = p] /\ Advance
        /\ catalog' = catalog
    BY <1>3 DEF FlipPointer
  <2>2. /\ job.doc.pack \in Versions /\ job.doc.ref \in Source
        /\ catalog[e][job.doc.pack] \in PackFile /\ catalog[e][job.doc.pack] # None
        /\ Playable(catalog[e][job.doc.pack])
    BY <1>1, <2>1 DEF JobOK, PointerHolds
  <2>3. p \in Pointer /\ catalog[e][p.version] # None
    BY <2>2 DEF Pointer
  <2> HIDE DEF p
  <2>4. DiskOK'
    BY <1>1, <2>1, <2>3, ChangePointer
  <2>5. JobOK' /\ built' \in RunArgs \cup {None}
    BY <1>1, <2>1, AfterAdvance
  <2> QED BY <2>4, <2>5 DEF PipelineInv
<1> QED BY <1>2, <1>3

\* A command that is killed in a write.
LEMMA TornKeeps ==
  ASSUME PipelineInv, KillInWrite
  PROVE  PipelineInv'
<1>1. /\ DiskOK /\ JobOK /\ built \in RunArgs \cup {None} /\ job \in JobRecord
      /\ job' = Idle /\ built' = built
      /\ source \in OnDisk(Source) /\ provenance \in OnDisk(Source)
      /\ provenance # None => source # None
  BY DEF PipelineInv, JobOK, JobTypes, SourceThere, KillInWrite, Kill, DiskOK, Files
<1>2. Torn \in OnDisk(Source) /\ Torn # None
  BY Apart DEF OnDisk
<1>3. CASE provenance' # None => source' # None
  <2>1. JobOK' /\ built' \in RunArgs \cup {None}
    BY <1>1, <1>3, AfterStop
  <2>2. ASSUME NEW k \in Ingest .. Pack, TearStored(k) PROVE DiskOK'
    BY <1>1, <2>2, ChangeStored DEF TearStored
  <2>3. ASSUME job.step = "source", source' = Torn, provenance' = provenance, stored' = stored,
               stems' = stems, packs' = packs, catalog' = catalog, pointer' = pointer
        PROVE  DiskOK'
    BY <1>1, <1>2, <2>3, ChangeSource
  <2>4. ASSUME provenance' = Torn, source' = source, stored' = stored,
               stems' = stems, packs' = packs, catalog' = catalog, pointer' = pointer
        PROVE  DiskOK'
    BY <1>1, <1>2, <2>4, ChangeSource
  <2>5. ASSUME job.step = "stem",
               stems' = [stems EXCEPT ![job.stem] = [of |-> job.doc.score, passed |-> FALSE]],
               source' = source, provenance' = provenance, stored' = stored,
               packs' = packs, catalog' = catalog, pointer' = pointer
        PROVE  DiskOK'
    <3>1. job.stem \in 1 .. StemCount /\ Sound(job.doc) /\ Normalize \in job.doc.ran
      BY <1>1, <2>5 DEF JobOK, StemsHold, InputFor
    <3>2. job.doc.score \in Source
      BY <3>1 DEF Sound, Document
    <3>3. [of |-> job.doc.score, passed |-> FALSE] \in Stem
      BY <3>2 DEF Stem
    <3>4. stems \in [1 .. StemCount -> Stem \cup {None}]
      BY <1>1 DEF DiskOK, Files
    <3>5. stems' \in [1 .. StemCount -> Stem \cup {None}]
      BY <2>5, <3>3, <3>4
    <3> QED BY <1>1, <2>5, <3>5, ChangeStems
  <2>6. ASSUME job.step = "stage", job.at = Publish, GatePasses,
               catalog' = [catalog EXCEPT ![job.args.env][Input.pack] = Torn],
               source' = source, provenance' = provenance, stored' = stored,
               stems' = stems, packs' = packs, pointer' = pointer
        PROVE  DiskOK'
    <3>1. job.args \in RunArgs
      BY <1>1, <2>6 DEF JobOK, JobTypes, Running
    <3>2. job.args.env \in Envs
      BY <3>1 DEF RunArgs
    <3>3. Input.pack \in Versions
      BY <2>6, GatedPack
    <3> QED BY <1>1, <1>2, <2>6, <3>2, <3>3, ChangeCatalog
  <2>7. ASSUME job.step = "pointer", pointer' = [pointer EXCEPT ![job.args.env] = Torn],
               source' = source, provenance' = provenance, stored' = stored,
               stems' = stems, packs' = packs, catalog' = catalog
        PROVE  DiskOK'
    <3>1. job.args \in RunArgs
      BY <1>1, <2>7 DEF JobOK, JobTypes, Running
    <3>2. job.args.env \in Envs
      BY <3>1 DEF RunArgs
    <3> QED BY <1>1, <2>7, <3>2, ChangePointer
  <2>8. \/ \E k \in Ingest .. Pack : TearStored(k)
        \/ /\ job.step = "source" /\ source' = Torn
           /\ UNCHANGED <<provenance, stored, stems, packs, catalog, pointer>>
        \/ /\ job.step = "provenance" /\ provenance' = Torn
           /\ UNCHANGED <<source, stored, stems, packs, catalog, pointer>>
        \/ /\ job.step = "stem"
           /\ stems' = [stems EXCEPT ![job.stem] = [of |-> job.doc.score, passed |-> FALSE]]
           /\ UNCHANGED <<source, provenance, stored, packs, catalog, pointer>>
        \/ /\ job.step = "stage" /\ job.at = Publish /\ GatePasses
           /\ catalog' = [catalog EXCEPT ![job.args.env][Input.pack] = Torn]
           /\ UNCHANGED <<source, provenance, stored, stems, packs, pointer>>
        \/ /\ job.step = "pointer"
           /\ pointer' = [pointer EXCEPT ![job.args.env] = Torn]
           /\ UNCHANGED <<source, provenance, stored, stems, packs, catalog>>
    <3>1. Ingest \in Ingest .. Pack /\ Audio \in Ingest .. Pack /\ Pack \in Ingest .. Pack
      BY StageNumbers
    <3>2. AtTransform => job.at \in Ingest .. Pack
      BY <1>1, StageNumbers DEF AtTransform, JobOK, JobTypes, Running
    <3> QED BY <3>1, <3>2 DEF KillInWrite
  <2> QED BY <2>1, <2>2, <2>3, <2>4, <2>5, <2>6, <2>7, <2>8 DEF PipelineInv
<1>4. provenance' # None => source' # None
  <2>1. \/ source' = source /\ provenance' = provenance
        \/ job.step = "source" /\ source' = Torn
        \/ job.step = "provenance" /\ source' = source
    BY DEF KillInWrite, TearStored
  <2>2. job.step = "provenance" => source # None
    BY <1>1 DEF JobOK, SourceThere
  <2> QED BY <1>1, <1>2, <2>1, <2>2
<1> QED BY <1>3, <1>4

\* Every step keeps the invariant.
THEOREM PipelineStep ==
  ASSUME PipelineInv, [Next]_vars
  PROVE  PipelineInv'
<1>1. CASE \/ \E s \in Source : StartIngest(s)
           \/ \E args \in Runs : StartRun(args)
  BY <1>1, StartKeeps
<1>2. CASE CopySource \/ WriteProvenance \/ PersistIngest
  BY <1>2, IngestKeeps
<1>3. CASE TransformStage
  BY <1>3, TransformKeeps
<1>4. CASE StageRaises \/ KillBetweenWrites
  BY <1>4, StopKeeps
<1>5. CASE StartAudio \/ (\E passed \in BOOLEAN : EncodeStem(passed)) \/ StoreAudio
  BY <1>5, AudioKeeps
<1>6. CASE ReplacePack \/ StorePack
  BY <1>6, PackKeeps
<1>7. CASE CopyToCatalog \/ FlipPointer
  BY <1>7, PublishKeeps
<1>8. CASE KillInWrite
  BY <1>8, TornKeeps
<1>9. CASE UNCHANGED vars
  <2>1. /\ source' = source /\ provenance' = provenance /\ stored' = stored /\ stems' = stems
        /\ packs' = packs /\ catalog' = catalog /\ pointer' = pointer /\ job' = job
        /\ built' = built
    BY <1>9 DEF vars, diskVars
  <2>2. DiskOK'
    BY <2>1, KeepDisk DEF PipelineInv
  <2>3. JobOK'
    BY <2>1 DEF PipelineInv, JobOK, JobTypes, SourceThere, Ingesting, Running, StemsHold,
      PackHolds, PointerHolds
  <2> QED BY <2>1, <2>2, <2>3 DEF PipelineInv
<1> QED BY <1>1, <1>2, <1>3, <1>4, <1>5, <1>6, <1>7, <1>8, <1>9 DEF Next

\* The invariant is one of the specification.
THEOREM PipelineInvariant == Spec => []PipelineInv
<1>1. Init => PipelineInv
  BY PipelineInit
<1>2. PipelineInv /\ [Next]_vars => PipelineInv'
  BY PipelineStep
<1> QED BY <1>1, <1>2, PTL DEF Spec

\* The files hold what their readers expect and a job is where a command of the
\* runner can be (TypeOK).
THEOREM PipelineTypeCorrect == Spec => []TypeOK
<1>1. ASSUME PipelineInv PROVE TypeOK
  <2>1. Files /\ job \in JobRecord /\ built \in RunArgs \cup {None}
    BY <1>1 DEF PipelineInv, DiskOK, JobOK, JobTypes
  <2>2. /\ source \in OnDisk(Source) /\ provenance \in OnDisk(Source)
        /\ \A k \in Ingest .. Pack : stored[k] \in OnDisk(Document)
        /\ \A i \in 1 .. StemCount : stems[i] \in Stem \cup {None}
        /\ \A v \in Versions : packs[v] \in PackFile \cup {None}
        /\ \A e \in Envs : /\ pointer[e] \in OnDisk(Pointer)
                           /\ \A v \in Versions : catalog[e][v] \in OnDisk(PackFile)
    BY <2>1 DEF Files
  <2>3. /\ job.step \in {"idle", "source", "provenance", "ingested",
                         "stage", "stem", "audio", "pack", "pointer"}
        /\ job.song \in Source \cup {None} /\ job.args \in RunArgs \cup {None}
        /\ job.doc \in Document
        /\ job.at \in 0 .. Publish /\ job.stem \in 0 .. StemCount
    BY <2>1 DEF JobRecord
  <2> QED BY <2>1, <2>2, <2>3 DEF TypeOK
<1> QED BY <1>1, PipelineInvariant, PTL

\* Whatever commands failed or were killed and from where the next one resumed, a
\* pack is whole and holds no notes that a stage refused (PacksAreSound).
THEOREM PipelinePacksSound == Spec => []PacksAreSound
<1>1. PipelineInv => PacksAreSound
  BY DEF PipelineInv, DiskOK
<1> QED BY <1>1, PipelineInvariant, PTL

\* No step forgets a kill.
LEMMA CrashedStays ==
  ASSUME [Next]_vars
  PROVE  crashed => crashed'
BY DEF Next, vars, StartIngest, StartRun, Start, CopySource, WriteProvenance,
  PersistIngest, TransformStage, StageRaises, StartAudio, EncodeStem, StoreAudio,
  ReplacePack, StorePack, CopyToCatalog, FlipPointer, KillBetweenWrites, KillInWrite, Kill

\* While no command is killed, the file a pointer names is the one whose digest it
\* records, but for the moment between the copy and the flip.
PointersCurrent ==
  \A e \in Envs :
    pointer[e] \notin {None, Torn} /\ ~ (job.step = "pointer" /\ e = job.args.env) =>
      catalog[e][pointer[e].version] = pointer[e].pack

CurrentInv == ~crashed => PointersCurrent

\* Only stage 11 touches the catalog, and it is over when the pointer is flipped.
LEMMA CurrentStep ==
  ASSUME PipelineInv, PointersCurrent, [Next]_vars, ~crashed'
  PROVE  PointersCurrent'
<1>1. /\ job \in JobRecord /\ pointer \in [Envs -> OnDisk(Pointer)]
      /\ catalog \in [Envs -> [Versions -> OnDisk(PackFile)]]
  BY DEF PipelineInv, DiskOK, Files, JobOK, JobTypes
<1>2. CASE job.step # "pointer" /\ catalog' = catalog /\ pointer' = pointer
  BY <1>2 DEF PointersCurrent
<1>3. CASE \/ \E s \in Source : StartIngest(s)
           \/ \E args \in Runs : StartRun(args)
  <2>1. Idle.step # "pointer"
    BY IdleFacts
  <2> QED BY <1>2, <1>3, <2>1 DEF StartIngest, StartRun, Start, diskVars
<1>4. CASE CopySource \/ WriteProvenance \/ PersistIngest \/ TransformStage
  BY <1>2, <1>4 DEF CopySource, WriteProvenance, PersistIngest, TransformStage, AtTransform
<1>5. CASE \/ StageRaises \/ StartAudio \/ (\E passed \in BOOLEAN : EncodeStem(passed))
           \/ StoreAudio \/ ReplacePack \/ StorePack
  BY <1>2, <1>5 DEF StageRaises, StartAudio, EncodeStem, StoreAudio, ReplacePack, StorePack,
    diskVars
<1>6. CASE CopyToCatalog
  <2>1. /\ job.step = "stage" /\ job.at = Publish /\ GatePasses /\ pointer' = pointer
        /\ catalog' = [catalog EXCEPT ![job.args.env][Input.pack] = packs[Input.pack]]
        /\ job'.step = "pointer" /\ job'.args = job.args
    BY <1>1, <1>6 DEF CopyToCatalog, JobRecord
  <2>2. \A e \in Envs : e # job.args.env => catalog'[e] = catalog[e]
    BY <1>1, <2>1
  <2> QED BY <2>1, <2>2 DEF PointersCurrent
<1>7. CASE FlipPointer
  <2> DEFINE f == job.args.env
             p == [version |-> job.doc.pack, pack |-> catalog[f][job.doc.pack],
                   ref |-> job.doc.ref]
  <2>1. job.step = "pointer" /\ catalog' = catalog /\ pointer' = [pointer EXCEPT ![f] = p]
    BY <1>7 DEF FlipPointer
  <2>2. catalog[f][p.version] = p.pack
    OBVIOUS
  <2> HIDE DEF p
  <2>3. \A e \in Envs : pointer'[e] = IF e = f THEN p ELSE pointer[e]
    BY <1>1, <2>1
  <2> QED BY <2>1, <2>2, <2>3 DEF PointersCurrent
<1>8. CASE UNCHANGED vars
  BY <1>8 DEF vars, diskVars, PointersCurrent
<1>9. ~ (KillBetweenWrites \/ KillInWrite)
  BY DEF KillBetweenWrites, KillInWrite, Kill
<1> QED BY <1>3, <1>4, <1>5, <1>6, <1>7, <1>8, <1>9 DEF Next

\* The file a pointer names is there, and is playable or was torn by a killed
\* publish; without a kill it is the one the pointer was flipped for
\* (PublishedIsSound).
THEOREM PipelinePublishedSound == Spec => []PublishedIsSound
<1>1. Init => CurrentInv
  BY DEF Init, CurrentInv, PointersCurrent
<1>2. PipelineInv /\ CurrentInv /\ [Next]_vars => CurrentInv'
  <2>1. SUFFICES ASSUME PipelineInv, CurrentInv, [Next]_vars, ~crashed'
                 PROVE  PointersCurrent'
    BY DEF CurrentInv
  <2>2. ~crashed
    BY <2>1, CrashedStays
  <2> QED BY <2>1, <2>2, CurrentStep DEF CurrentInv
<1>3. PipelineInv /\ CurrentInv => PublishedIsSound
  <2>1. SUFFICES ASSUME PipelineInv, CurrentInv, NEW e \in Envs,
                        pointer[e] \notin {None, Torn}
                 PROVE  LET file == catalog[e][pointer[e].version] IN
                          /\ file # None
                          /\ file # Torn => Playable(file)
                          /\ ~crashed /\ job.step # "pointer" => file = pointer[e].pack
    BY DEF PublishedIsSound
  <2>2. pointer[e].version \in Versions
    BY <2>1 DEF PipelineInv, DiskOK, Files, OnDisk, Pointer
  <2>3. CatalogOK
    BY <2>1 DEF PipelineInv, DiskOK
  <2>4. ~crashed /\ job.step # "pointer" => catalog[e][pointer[e].version] = pointer[e].pack
    BY <2>1 DEF CurrentInv, PointersCurrent
  <2>5. catalog[e][pointer[e].version] # None
    BY <2>1, <2>3 DEF CatalogOK
  <2>6. catalog[e][pointer[e].version] # Torn => Playable(catalog[e][pointer[e].version])
    BY <2>2, <2>3, <2>5 DEF CatalogOK
  <2> QED BY <2>4, <2>5, <2>6
<1> QED BY <1>1, <1>2, <1>3, PipelineInvariant, PTL DEF Spec

-----------------------------------------------------------------------------
(* The rights references.                                                  *)

DocMatches(d) == d.score # None => d.ref = d.score

DocsMatch ==
  \A k \in Ingest .. Pack : stored[k] \notin {None, Torn} => DocMatches(stored[k])

\* Ingest leaves the document of the source it has stored.
IngestMatches ==
  /\ job.step \in {"provenance", "ingested"} => source = job.song
  /\ ~Ingesting /\ source # None => stored[Ingest] = IngestedDoc(source)

JobMatches ==
  /\ job.step \in {"stem", "audio", "pack", "pointer"} => DocMatches(job.doc)
  /\ job.step = "pointer" => catalog[job.args.env][job.doc.pack].score = job.doc.ref

\* The document of stage 10 is of the notes in the pack it names, but for the moment
\* between the two writes.
PackMatches ==
  job.step # "pack" /\ stored[Pack] \notin {None, Torn} =>
    packs[stored[Pack].pack].score = stored[Pack].score

PointersMatch ==
  \A e \in Envs : pointer[e] # None => pointer[e].ref = pointer[e].pack.score

Matches == DocsMatch /\ IngestMatches /\ JobMatches /\ PackMatches /\ PointersMatch

MatchInv == ~crashed => Matches

\* What a stage loads matches if what is stored does.
LEMMA InputMatches ==
  ASSUME PipelineInv, DocsMatch, job.step = "stage", Input # Torn
  PROVE  DocMatches(Input)
<1>1. DOMAIN stored = Ingest .. Pack /\ job.at \in Validate .. Publish
  BY RunInput
<1>2. CASE Input = BlankDoc
  BY <1>2 DEF DocMatches, BlankDoc
<1>3. ASSUME NEW j \in Ingest .. job.at - 1, Input = stored[j], stored[j] # None
      PROVE  DocMatches(Input)
  <2>1. j \in Ingest .. Pack
    BY <1>1, StageNumbers
  <2> QED BY <1>3, <2>1 DEF DocsMatch
<1> QED BY <1>1, <1>2, <1>3, Nearest DEF Input

\* A document that matches keeps the references right when a stage stores it.
LEMMA StoreMatches ==
  ASSUME Matches, stored \in [Ingest .. Pack -> OnDisk(Document)],
         NEW k \in Validate .. Pack, NEW d, DocMatches(d),
         k = Pack => packs[d.pack].score = d.score, job.step = "pack" => k = Pack,
         stored' = [stored EXCEPT ![k] = d], source' = source, packs' = packs,
         pointer' = pointer, ~Ingesting, job'.step \in {"idle", "stage"}
  PROVE  Matches'
<1>1. /\ stored'[k] = d /\ \A j \in Ingest .. Pack : j # k => stored'[j] = stored[j]
      /\ Ingest \in Ingest .. Pack /\ Ingest # k /\ Pack \in Ingest .. Pack
  BY StageNumbers
<1>2. DocsMatch'
  BY <1>1 DEF Matches, DocsMatch, DocMatches
<1>3. IngestMatches'
  BY <1>1 DEF Matches, IngestMatches, Ingesting
<1>4. JobMatches'
  BY DEF JobMatches
<1>5. PackMatches'
  <2>1. CASE k = Pack
    BY <1>1, <2>1 DEF PackMatches
  <2>2. CASE k # Pack
    BY <1>1, <2>2 DEF Matches, PackMatches
  <2> QED BY <2>1, <2>2
<1>6. PointersMatch'
  BY DEF Matches, PointersMatch
<1> QED BY <1>2, <1>3, <1>4, <1>5, <1>6 DEF Matches

\* Every step that is not a kill keeps the references right.
LEMMA MatchStep ==
  ASSUME PipelineInv, Matches, [Next]_vars, ~crashed'
  PROVE  Matches'
<1>1. /\ job \in JobRecord /\ stored \in [Ingest .. Pack -> OnDisk(Document)]
      /\ Pack \in Validate .. Pack /\ Audio \in Validate .. Pack /\ Pack # Audio
  BY StageNumbers DEF PipelineInv, DiskOK, Files, JobOK, JobTypes
<1>2. Idle.step = "idle"
  BY IdleFacts
<1>3. CASE \/ \E s \in Source : StartIngest(s)
           \/ \E args \in Runs : StartRun(args)
  <2>1. /\ source' = source /\ stored' = stored /\ packs' = packs /\ catalog' = catalog
        /\ pointer' = pointer /\ job = Idle
    BY <1>3 DEF StartIngest, StartRun, Start, diskVars
  <2>2. \/ job'.step = "source" \/ job'.step = "stage"
        \/ job'.step = "provenance" /\ source = job'.song
    BY <1>3, IdleFacts DEF StartIngest, StartRun, Start
  <2>3. IngestMatches'
    BY <1>2, <2>1, <2>2 DEF Matches, IngestMatches, Ingesting
  <2>4. DocsMatch' /\ PackMatches' /\ PointersMatch'
    BY <1>2, <2>1 DEF Matches, DocsMatch, PackMatches, PointersMatch
  <2>5. JobMatches'
    BY <2>2 DEF JobMatches
  <2> QED BY <2>3, <2>4, <2>5 DEF Matches
<1>4. CASE CopySource \/ WriteProvenance
  <2>1. /\ stored' = stored /\ packs' = packs /\ catalog' = catalog /\ pointer' = pointer
        /\ job.step \in {"source", "provenance"}
        /\ job'.step \in {"provenance", "ingested"} /\ job'.song = job.song
    BY <1>1, <1>4 DEF CopySource, WriteProvenance, JobRecord
  <2>2. source' = job.song
    BY <1>4 DEF CopySource, WriteProvenance, Matches, IngestMatches
  <2>3. IngestMatches'
    BY <2>1, <2>2 DEF IngestMatches, Ingesting
  <2>4. DocsMatch' /\ PackMatches' /\ PointersMatch' /\ JobMatches'
    BY <2>1 DEF Matches, DocsMatch, PackMatches, PointersMatch, JobMatches
  <2> QED BY <2>3, <2>4 DEF Matches
<1>5. CASE PersistIngest
  <2>1. /\ stored' = [stored EXCEPT ![Ingest] = IngestedDoc(job.song)] /\ job' = Idle
        /\ job.step = "ingested" /\ source' = source /\ packs' = packs /\ pointer' = pointer
    BY <1>5 DEF PersistIngest
  <2>2. source = job.song /\ Ingest \in Ingest .. Pack /\ Ingest # Pack
    BY <2>1, StageNumbers DEF Matches, IngestMatches
  <2>3. /\ stored'[Ingest] = IngestedDoc(source)
        /\ \A j \in Ingest .. Pack : j # Ingest => stored'[j] = stored[j]
    BY <1>1, <2>1, <2>2
  <2>4. job.song \in Source /\ DocMatches(IngestedDoc(job.song))
    <3>1. job.song \in Source
      BY <2>1 DEF PipelineInv, JobOK, JobTypes, Ingesting
    <3>2. IngestedDoc(job.song).score = None
      BY DEF IngestedDoc, BlankDoc
    <3> QED BY <3>1, <3>2 DEF DocMatches
  <2>5. DocsMatch'
    BY <2>2, <2>3, <2>4 DEF Matches, DocsMatch, DocMatches
  <2>6. IngestMatches' /\ JobMatches'
    BY <1>2, <2>1, <2>3 DEF IngestMatches, JobMatches
  <2>7. PackMatches'
    <3>1. stored'[Pack] = stored[Pack]
      BY <1>1, <2>2, <2>3, StageNumbers
    <3> QED BY <2>1, <3>1 DEF Matches, PackMatches
  <2>8. PointersMatch'
    BY <2>1 DEF Matches, PointersMatch
  <2> QED BY <2>5, <2>6, <2>7, <2>8 DEF Matches
<1>6. CASE TransformStage
  <2> DEFINE doc == StageOutput(job.at, Input, source)
  <2>1. /\ job.step = "stage" /\ ~Raises /\ job.at <= Levels
        /\ stored' = [stored EXCEPT ![job.at] = doc]
        /\ source' = source /\ packs' = packs /\ pointer' = pointer
        /\ Abort \/ Advance
    BY <1>6 DEF TransformStage, AtTransform
  <2>2. /\ job.at \in Validate .. Levels /\ InputFor(Input, job.at) /\ Input # Torn
        /\ CanRun(job.at, Input) /\ job.args \in RunArgs
    BY <2>1, RunInput, StageNumbers
  <2>3. /\ job.at = Validate => source \in Source
        /\ job.at \in Normalize .. Levels => <<Input.score, job.at>> \notin Fails
        /\ job.at \in Validate .. Publish
    BY <2>1, RunInput
  <2>4. DocMatches(Input)
    BY <2>1, <2>2, InputMatches DEF Matches
  <2>5. /\ doc.ref = Input.ref
        /\ job.at # Validate => doc.score = Input.score
        /\ job.at = Validate /\ <<source, job.at>> \notin Fails => doc.score = source
    BY <2>2, <2>3, TransformOutput
  <2>6. job.at = Validate => Input.ref = source
    <3>1. SUFFICES ASSUME job.at = Validate PROVE Input.ref = source
      OBVIOUS
    <3>2. stored[Ingest] = IngestedDoc(source)
      BY <2>1, <2>3, <3>1, Apart DEF Matches, IngestMatches, Ingesting
    <3>3. IngestedDoc(source).ref = source
      BY DEF IngestedDoc, BlankDoc
    <3>4. stored[Ingest] # None
      <4>1. StoredBy(stored[Ingest], Ingest)
        BY <2>3, <3>1, <3>2, FirstDocuments
      <4> QED BY <4>1, Apart DEF StoredBy, Sound
    <3>5. Input = stored[job.at - 1]
      <4>1. job.at - 1 = Ingest
        BY <3>1, StageNumbers
      <4>2. DOMAIN stored = Ingest .. Pack /\ StoredOK /\ LoadPrevious(stored, job.at) # Torn
        BY <2>1, <2>2, RunInput DEF Input
      <4> QED BY <2>3, <3>4, <4>1, <4>2, InputFacts DEF Input
    <3>6. job.at - 1 = Ingest
      BY <3>1, StageNumbers
    <3> QED BY <3>2, <3>3, <3>5, <3>6
  <2>7. job.at = Validate /\ <<source, job.at>> \in Fails => doc = Input
    BY DEF StageOutput
  <2> HIDE DEF doc
  <2>8. DocMatches(doc)
    BY <2>4, <2>5, <2>6, <2>7 DEF DocMatches
  <2>9. job.at \in Validate .. Pack /\ job.at # Pack
    BY <2>2, StageNumbers
  <2>10. ~Ingesting
    BY <2>1 DEF Ingesting
  <2>11. job'.step \in {"idle", "stage"}
    <3>1. CASE Abort
      BY <1>2, <3>1 DEF Abort
    <3>2. CASE Advance
      BY <1>1, <1>2, <2>2, <2>3, <3>2, AdvanceFacts
    <3> QED BY <2>1, <3>1, <3>2
  <2> QED BY <1>1, <2>1, <2>8, <2>9, <2>10, <2>11, StoreMatches
<1>7. CASE \/ StageRaises \/ StartAudio \/ (\E passed \in BOOLEAN : EncodeStem(passed))
  <2>1. /\ source' = source /\ stored' = stored /\ packs' = packs /\ catalog' = catalog
        /\ pointer' = pointer /\ job.step \in {"stage", "stem"}
    BY <1>7 DEF StageRaises, StartAudio, EncodeStem, diskVars
  <2>2. \/ job'.step = "idle"
        \/ job'.step \in {"stem", "audio"} /\ DocMatches(job'.doc)
    <3>1. CASE StageRaises
      BY <1>2, <3>1 DEF StageRaises, Abort
    <3>2. CASE StartAudio
      <4>1. job'.step = "stem" /\ job'.doc = Input /\ job.step = "stage" /\ ~Raises
        BY <1>1, <3>2 DEF StartAudio, JobRecord
      <4>2. Input # Torn
        BY <4>1, RunInput
      <4>3. DocMatches(Input)
        BY <4>1, <4>2, InputMatches DEF Matches
      <4> QED BY <4>1, <4>3
    <3>3. ASSUME NEW passed \in BOOLEAN, EncodeStem(passed)
          PROVE  \/ job'.step = "idle"
                 \/ job'.step \in {"stem", "audio"} /\ DocMatches(job'.doc)
      <4>1. job.step = "stem" /\ DocMatches(job.doc)
        BY <3>3 DEF EncodeStem, Matches, JobMatches
      <4>2. \/ job' = Idle
            \/ job'.step \in {"stem", "audio"} /\ job'.doc = job.doc
        BY <1>1, <3>3 DEF EncodeStem, Abort, JobRecord
      <4> QED BY <1>2, <4>1, <4>2
    <3> QED BY <1>7, <3>1, <3>2, <3>3
  <2>3. DocsMatch' /\ PackMatches' /\ PointersMatch'
    BY <2>1 DEF Matches, DocsMatch, PackMatches, PointersMatch
  <2>4. IngestMatches'
    BY <2>1, <2>2 DEF Matches, IngestMatches, Ingesting
  <2>5. JobMatches'
    BY <2>2 DEF JobMatches, DocMatches
  <2> QED BY <2>3, <2>4, <2>5 DEF Matches
<1>8. CASE StoreAudio \/ StorePack
  <2> DEFINE k == IF job.step = "audio" THEN Audio ELSE Pack
             out == IF job.step = "audio"
                    THEN [job.doc EXCEPT !.audio = TRUE, !.ran = @ \cup {Audio}]
                    ELSE [job.doc EXCEPT !.pack = job.args.version, !.ran = @ \cup {Pack}]
  <2>1. /\ job.step \in {"audio", "pack"} /\ stored' = [stored EXCEPT ![k] = out] /\ Advance
        /\ source' = source /\ packs' = packs /\ pointer' = pointer
    BY <1>8 DEF StoreAudio, StorePack
  <2>2. job.args \in RunArgs /\ job.at \in Validate .. Publish /\ job.args.version \in Versions
    BY <2>1 DEF PipelineInv, JobOK, JobTypes, Running, RunArgs
  <2>3. job'.step \in {"idle", "stage"}
    BY <1>1, <1>2, <2>1, <2>2, AdvanceFacts
  <2>4. out.ref = job.doc.ref /\ out.score = job.doc.score
    <3>1. CASE job.step = "audio"
      <4>1. InputFor(job.doc, Audio) /\ {Normalize, Levels} \subseteq job.doc.ran
        BY <3>1 DEF PipelineInv, JobOK, StemsHold
      <4> QED BY <3>1, <4>1, AudioOutput
    <3>2. CASE job.step = "pack"
      <4>1. InputFor(job.doc, Pack)
        BY <3>2 DEF PipelineInv, JobOK, PackHolds
      <4> QED BY <2>2, <3>2, <4>1, PackOutput
    <3> QED BY <2>1, <3>1, <3>2
  <2>5. k = Pack => packs[out.pack].score = out.score
    <3>1. SUFFICES ASSUME job.step = "pack" PROVE packs[out.pack].score = out.score
      BY <1>1, <2>1
    <3>2. InputFor(job.doc, Pack) /\ packs[job.args.version].score = job.doc.score
      BY <3>1 DEF PipelineInv, JobOK, PackHolds
    <3>3. out.pack = job.args.version /\ out.score = job.doc.score
      BY <2>2, <3>1, <3>2, PackOutput
    <3> QED BY <3>2, <3>3
  <2>6. DocMatches(out)
    <3>1. DocMatches(job.doc)
      BY <2>1 DEF Matches, JobMatches
    <3> HIDE DEF out
    <3> QED BY <2>4, <3>1 DEF DocMatches
  <2>7. k \in Validate .. Pack /\ (job.step = "pack" => k = Pack) /\ ~Ingesting
    BY <1>1, <2>1 DEF Ingesting
  <2> HIDE DEF out, k
  <2> QED BY <1>1, <2>1, <2>3, <2>5, <2>6, <2>7, StoreMatches
<1>9. CASE ReplacePack
  <2>1. /\ source' = source /\ stored' = stored /\ catalog' = catalog /\ pointer' = pointer
        /\ job.step = "stage" /\ ~Raises /\ job'.step = "pack" /\ job'.doc = Input
    BY <1>1, <1>9 DEF ReplacePack, JobRecord
  <2>2. DocMatches(Input)
    BY <2>1, RunInput, InputMatches DEF Matches
  <2>3. DocsMatch' /\ PointersMatch' /\ PackMatches'
    BY <2>1 DEF Matches, DocsMatch, PointersMatch, PackMatches
  <2>4. IngestMatches' /\ JobMatches'
    BY <2>1, <2>2 DEF Matches, IngestMatches, Ingesting, JobMatches, DocMatches
  <2> QED BY <2>3, <2>4 DEF Matches
<1>10. CASE CopyToCatalog
  <2> DEFINE e == job.args.env
  <2>1. /\ source' = source /\ stored' = stored /\ packs' = packs /\ pointer' = pointer
        /\ job.step = "stage" /\ job.at = Publish /\ GatePasses
        /\ catalog' = [catalog EXCEPT ![e][Input.pack] = packs[Input.pack]]
        /\ job'.step = "pointer" /\ job'.doc = Input /\ job'.args = job.args
    BY <1>1, <1>10 DEF CopyToCatalog, JobRecord
  <2>2. /\ Input = stored[Pack] /\ stored[Pack] \notin {None, Torn}
        /\ Input.pack \in Versions /\ packs[Input.pack] \in PackFile
    BY <2>1, GatedPack
  <2>3. packs[Input.pack].score = Input.score
    BY <2>1, <2>2 DEF Matches, PackMatches
  <2>4. Input.score # None /\ DocMatches(Input)
    <3>1. packs[Input.pack].score \in Source
      BY <2>2 DEF PackFile
    <3>2. DocMatches(stored[Pack])
      BY <1>1, <2>2, StageNumbers DEF Matches, DocsMatch
    <3> QED BY <2>2, <2>3, <3>1, <3>2, Apart
  <2>5. e \in Envs
    <3>1. job.args \in RunArgs
      BY <2>1 DEF PipelineInv, JobOK, JobTypes, Running
    <3> QED BY <3>1 DEF RunArgs
  <2>6. catalog \in [Envs -> [Versions -> OnDisk(PackFile)]]
    BY DEF PipelineInv, DiskOK, Files
  <2>7. catalog'[e][Input.pack] = packs[Input.pack]
    BY <2>1, <2>2, <2>5, <2>6
  <2>8. catalog'[job'.args.env][job'.doc.pack].score = job'.doc.ref /\ DocMatches(job'.doc)
    BY <2>1, <2>3, <2>4, <2>7 DEF DocMatches
  <2>9. DocsMatch' /\ PackMatches' /\ PointersMatch'
    BY <2>1 DEF Matches, DocsMatch, PackMatches, PointersMatch
  <2>10. IngestMatches' /\ JobMatches'
    BY <2>1, <2>8 DEF Matches, IngestMatches, Ingesting, JobMatches, DocMatches
  <2> QED BY <2>9, <2>10 DEF Matches
<1>11. CASE FlipPointer
  <2> DEFINE e == job.args.env
             p == [version |-> job.doc.pack, pack |-> catalog[e][job.doc.pack],
                   ref |-> job.doc.ref]
  <2>1. /\ source' = source /\ stored' = stored /\ packs' = packs /\ catalog' = catalog
        /\ job.step = "pointer" /\ Advance /\ pointer' = [pointer EXCEPT ![e] = p]
    BY <1>11 DEF FlipPointer
  <2>2. /\ job.args \in RunArgs /\ job.at \in Validate .. Publish
        /\ pointer \in [Envs -> OnDisk(Pointer)]
        /\ catalog[e][job.doc.pack].score = job.doc.ref
        /\ catalog[e][job.doc.pack] \in PackFile /\ job.doc.ref \in Source
        /\ job.doc.pack \in Versions
    BY <2>1 DEF PipelineInv, DiskOK, Files, JobOK, JobTypes, Running, PointerHolds, Matches,
      JobMatches
  <2>3. job'.step \in {"idle", "stage"}
    BY <1>1, <1>2, <2>1, <2>2, AdvanceFacts
  <2>4. p.ref = p.pack.score
    BY <2>2
  <2> HIDE DEF p
  <2>5. PointersMatch'
    BY <2>1, <2>2, <2>4 DEF Matches, PointersMatch
  <2>6. DocsMatch' /\ PackMatches'
    BY <2>1 DEF Matches, DocsMatch, PackMatches
  <2>7. IngestMatches' /\ JobMatches'
    BY <2>1, <2>3 DEF Matches, IngestMatches, Ingesting, JobMatches
  <2> QED BY <2>5, <2>6, <2>7 DEF Matches
<1>12. CASE UNCHANGED vars
  BY <1>12 DEF vars, diskVars, Matches, DocsMatch, DocMatches, IngestMatches, Ingesting,
    JobMatches, PackMatches, PointersMatch
<1>13. ~ (KillBetweenWrites \/ KillInWrite)
  BY DEF KillBetweenWrites, KillInWrite, Kill
<1> QED BY <1>3, <1>4, <1>5, <1>6, <1>7, <1>8, <1>9, <1>10, <1>11, <1>12, <1>13 DEF Next

\* The rights reference in a pointer is that of the source its pack was made from, as
\* long as no command was killed (ProvenanceMatches).
THEOREM PipelineProvenance == Spec => []ProvenanceMatches
<1>1. Init => MatchInv
  <2>1. SUFFICES ASSUME Init PROVE Matches
    BY DEF MatchInv
  <2>2. DocsMatch /\ PointersMatch
    BY <2>1 DEF Init, DocsMatch, PointersMatch
  <2>3. job.step = "idle" /\ source = None /\ stored[Pack] = None
    BY <2>1, IdleFacts, StageNumbers DEF Init
  <2> QED BY <2>2, <2>3 DEF Matches, IngestMatches, JobMatches, PackMatches
<1>2. PipelineInv /\ MatchInv /\ [Next]_vars => MatchInv'
  <2>1. SUFFICES ASSUME PipelineInv, MatchInv, [Next]_vars, ~crashed' PROVE Matches'
    BY DEF MatchInv
  <2>2. ~crashed
    BY <2>1, CrashedStays
  <2>3. Matches
    BY <2>1, <2>2 DEF MatchInv
  <2> QED BY <2>1, <2>3, MatchStep
<1>3. MatchInv => ProvenanceMatches
  BY DEF MatchInv, Matches, PointersMatch, ProvenanceMatches
<1> QED BY <1>1, <1>2, <1>3, PipelineInvariant, PTL DEF Spec

-----------------------------------------------------------------------------
(* A build of all stages.                                                  *)

Full(args) == args.from = Validate /\ args.audio

\* A document of the source that is stored now, after all stages up to k.
FreshDoc(d, k) == d \notin {None, Torn} /\ d.score = source /\ Validate .. k \subseteq d.ran

FreshTo(k) == \A j \in (Validate .. k) \cap (Ingest .. Pack) : FreshDoc(stored[j], j)

FreshStem(i) == stems[i] = [of |-> source, passed |-> TRUE]

FreshPack(v) ==
  /\ packs[v].score = source
  /\ packs[v].ran \cup {Ingest} = Ingest .. Audio
  /\ packs[v].stems = [i \in 1 .. StemCount |-> [of |-> source, passed |-> TRUE]]

\* What a build of all stages has done before the stage it is at, and there.
FreshRun ==
  Running /\ Full(job.args) =>
    /\ FreshTo(job.at - 1)
    /\ job.step \in {"stem", "audio"} => FreshDoc(job.doc, Levels)
    /\ job.step = "stem" => \A i \in 1 .. job.stem - 1 : FreshStem(i)
    /\ job.step = "audio" \/ job.at > Audio => \A i \in 1 .. StemCount : FreshStem(i)
    /\ job.step = "pack" => FreshDoc(job.doc, Audio) /\ FreshPack(job.args.version)
    /\ job.at = Publish => FreshPack(job.args.version)

FreshBuilt ==
  built # None =>
    /\ job = Idle
    /\ Full(built) /\ built.to >= Pack => FreshTo(Pack) /\ FreshPack(built.version)

\* A command that is over has no promises to keep but those of the last build.
LEMMA FreshAtRest ==
  ASSUME job' = Idle, built' = None
  PROVE  FreshRun' /\ FreshBuilt'
<1>1. job'.step = "idle"
  BY IdleFacts
<1> QED BY <1>1 DEF FreshRun, FreshBuilt, Running

\* A stage that has done its work leaves it to the next, or to the end of the build.
LEMMA FreshAdvance ==
  ASSUME PipelineInv, Running, Advance, built = None,
         NEW k, NEW v, k = job.at, v = job.args.version,
         Full(job.args) => /\ FreshTo(k)'
                           /\ k >= Audio => \A i \in 1 .. StemCount : FreshStem(i)'
                           /\ k >= Pack => FreshPack(v)'
  PROVE  FreshRun' /\ FreshBuilt'
<1>1. /\ job \in JobRecord /\ job.args \in RunArgs /\ k \in Validate .. Publish
      /\ job.args.to \in Validate .. Publish
  BY DEF PipelineInv, JobOK, JobTypes, RunArgs
<1>2. PICK n : n = NextStage
  OBVIOUS
<1>3. Full(job.args) => n = k + 1
  BY <1>1, <1>2, AdvanceFacts DEF Full
<1>4. CASE job' = Idle /\ built' = job.args /\ n > job.args.to
  <2>1. job'.step = "idle"
    BY <1>4, IdleFacts
  <2>2. FreshRun'
    BY <2>1 DEF FreshRun, Running
  <2>3. ASSUME Full(job.args), job.args.to >= Pack
        PROVE  FreshTo(Pack)' /\ FreshPack(v)'
    <3>1. k >= Pack
      BY <1>1, <1>3, <1>4, <2>3, StageNumbers
    <3>2. FreshTo(k)' /\ FreshPack(v)'
      BY <2>3, <3>1
    <3>3. \A j \in (Validate .. Pack) \cap (Ingest .. Pack) :
            j \in (Validate .. k) \cap (Ingest .. Pack)
      BY <1>1, <3>1, StageNumbers
    <3>4. FreshTo(Pack)'
      BY <3>2, <3>3 DEF FreshTo
    <3> QED BY <3>2, <3>4
  <2>4. FreshBuilt'
    BY <1>4, <2>3 DEF FreshBuilt, Full, FreshTo, FreshPack, FreshDoc
  <2> QED BY <2>2, <2>4
<1>5. CASE /\ job' = [step |-> "stage", song |-> job.song, args |-> job.args,
                      at |-> n, doc |-> BlankDoc, stem |-> 0]
           /\ built' = built /\ n \in Validate .. Publish
  <2>1. job'.step = "stage" /\ job'.args = job.args /\ job'.at = n
    BY <1>5
  <2>2. ASSUME Full(job.args)
        PROVE  /\ FreshTo(n - 1)'
               /\ n > Audio => \A i \in 1 .. StemCount : FreshStem(i)'
               /\ n = Publish => FreshPack(v)'
    <3>1. n - 1 = k /\ (n > Audio => k >= Audio) /\ (n = Publish => k >= Pack)
      BY <1>1, <1>3, <1>5, <2>2, StageNumbers
    <3> QED BY <2>2, <3>1
  <2>3. FreshRun'
    BY <2>1, <2>2 DEF FreshRun, Full, FreshTo, FreshStem, FreshPack, FreshDoc
  <2> QED BY <1>5, <2>3 DEF FreshBuilt
<1> QED BY <1>1, <1>2, <1>4, <1>5, AdvanceFacts

\* A stage that stores a document of the source continues the build.
LEMMA FreshStore ==
  ASSUME PipelineInv, NEW k \in Validate .. Pack, NEW d, FreshTo(k - 1), FreshDoc(d, k),
         stored' = [stored EXCEPT ![k] = d], source' = source
  PROVE  FreshTo(k)'
<1>1. stored \in [Ingest .. Pack -> OnDisk(Document)]
  BY DEF PipelineInv, DiskOK, Files
<1>2. \A j \in Ingest .. Pack : stored'[j] = IF j = k THEN d ELSE stored[j]
  BY <1>1
<1>3. \A j \in (Validate .. k) \cap (Ingest .. Pack) :
        j # k => j \in (Validate .. k - 1) \cap (Ingest .. Pack)
  BY StageNumbers
<1> QED BY <1>2, <1>3 DEF FreshTo, FreshDoc

\* In a build of all stages, what a stage after validate loads is the document of the
\* stage before it.
LEMMA FreshInput ==
  ASSUME PipelineInv, FreshRun, job.step = "stage", Full(job.args), Input # Torn,
         job.at > Validate
  PROVE  FreshDoc(Input, job.at - 1)
<1>1. /\ DOMAIN stored = Ingest .. Pack /\ StoredOK /\ job.at \in Validate .. Publish
      /\ FreshTo(job.at - 1) /\ LoadPrevious(stored, job.at) # Torn
  BY RunInput DEF FreshRun, Input
<1>2. job.at - 1 \in (Validate .. job.at - 1) \cap (Ingest .. Pack)
  BY <1>1, StageNumbers
<1>3. FreshDoc(stored[job.at - 1], job.at - 1)
  BY <1>1, <1>2 DEF FreshTo
<1>4. stored[job.at - 1] # None
  BY <1>3 DEF FreshDoc
<1>5. Input = stored[job.at - 1]
  BY <1>1, <1>4, InputFacts DEF Input
<1> QED BY <1>3, <1>5

\* A build of all stages goes on as it should through the stages that store nothing
\* but their document ...
LEMMA FreshTransform ==
  ASSUME PipelineInv, FreshRun, built = None, TransformStage
  PROVE  FreshRun' /\ FreshBuilt'
<1> DEFINE doc == StageOutput(job.at, Input, source)
<1>1. /\ job.step = "stage" /\ ~Raises /\ job.at <= Levels
      /\ stored' = [stored EXCEPT ![job.at] = doc] /\ source' = source
      /\ Abort \/ (Advance /\ (job.at = Validate => <<source, job.at>> \notin Fails))
  BY DEF TransformStage, AtTransform
<1>2. CASE Abort
  BY <1>2, FreshAtRest DEF Abort
<1>3. CASE Advance /\ (job.at = Validate => <<source, job.at>> \notin Fails)
  <2>1. PICK k, v : k = job.at /\ v = job.args.version
    OBVIOUS
  <2>2. /\ Running /\ k \in Validate .. Levels /\ InputFor(Input, k) /\ Input # Torn
        /\ CanRun(k, Input)
        /\ k = Validate => source \in Source
        /\ k \in Normalize .. Levels => <<Input.score, k>> \notin Fails
        /\ k \in Validate .. Pack /\ k < Audio
    <3>1. /\ Running /\ k \in Validate .. Publish /\ InputFor(Input, k) /\ Input # Torn
          /\ CanRun(k, Input)
          /\ k = Validate => source \in Source
          /\ k \in Normalize .. Levels => <<Input.score, k>> \notin Fails
      BY <1>1, <2>1, RunInput
    <3>2. k <= Levels
      BY <1>1, <2>1
    <3> QED BY <3>1, <3>2, StageNumbers
  <2>3. /\ StoredBy(doc, k)
        /\ k # Validate => doc.score = Input.score /\ doc.ran = Input.ran \cup {k}
        /\ k = Validate /\ <<source, k>> \notin Fails =>
             doc.score = source /\ doc.ran = Input.ran \cup {k}
    BY <2>1, <2>2, TransformOutput
  <2> HIDE DEF doc
  <2>4. doc \notin {None, Torn}
    BY <2>3, Apart DEF StoredBy, Sound
  <2>5. ASSUME Full(job.args) PROVE FreshTo(k)'
    <3>1. FreshTo(k - 1)
      BY <1>1, <2>1, <2>2, <2>5 DEF FreshRun
    <3>2. k > Validate => FreshDoc(Input, k - 1)
      BY <1>1, <2>1, <2>2, <2>5, FreshInput
    <3>3. CASE k = Validate
      <4>1. Validate .. k = {k}
        BY <3>3, StageNumbers
      <4>2. doc.score = source /\ k \in doc.ran
        BY <1>3, <2>1, <2>3, <3>3
      <4>3. FreshDoc(doc, k)
        BY <2>4, <4>1, <4>2 DEF FreshDoc
      <4> QED BY <1>1, <2>1, <2>2, <3>1, <4>3, FreshStore
    <3>4. CASE k # Validate
      <4>1. FreshDoc(Input, k - 1)
        BY <2>2, <3>2, <3>4, StageNumbers
      <4>2. Validate .. k = (Validate .. k - 1) \cup {k}
        BY <2>2, StageNumbers
      <4>3. FreshDoc(doc, k)
        BY <2>3, <2>4, <3>4, <4>1, <4>2 DEF FreshDoc
      <4> QED BY <1>1, <2>1, <2>2, <3>1, <4>3, FreshStore
    <3> QED BY <3>3, <3>4
  <2>6. ~ (k >= Audio) /\ ~ (k >= Pack)
    BY <2>2, StageNumbers
  <2> QED BY <1>3, <2>1, <2>2, <2>5, <2>6, FreshAdvance
<1> QED BY <1>1, <1>2, <1>3

\* ... through stage 9 ...
LEMMA FreshAudio ==
  ASSUME PipelineInv, FreshRun, built = None,
         StartAudio \/ (\E passed \in BOOLEAN : EncodeStem(passed)) \/ StoreAudio
  PROVE  FreshRun' /\ FreshBuilt'
<1>1. /\ job \in JobRecord /\ source' = source /\ packs' = packs /\ StemCount \in Nat \ {0}
      /\ Running
  BY PipelineAssumption DEF PipelineInv, JobOK, JobTypes, StartAudio, EncodeStem, StoreAudio,
    diskVars, Running
<1>2. Audio > Validate /\ Audio - 1 = Levels /\ Audio # Publish /\ Audio # Pack
  BY StageNumbers
<1>3. ASSUME built' = None, stored' = stored, NEW step \in {"stem", "audio"}, job.at = Audio,
             job'.step = step, job'.at = job.at, job'.args = job.args,
             Full(job.args) => /\ FreshTo(Audio - 1) /\ FreshDoc(job'.doc, Levels)
                               /\ step = "stem" =>
                                    \A i \in 1 .. job'.stem - 1 : FreshStem(i)'
                               /\ step = "audio" => \A i \in 1 .. StemCount : FreshStem(i)'
      PROVE  FreshRun' /\ FreshBuilt'
  <2>1. job'.step \notin {"idle", "pack"} /\ ~ (job'.at > Audio) /\ job'.at # Publish
    BY <1>2, <1>3, StageNumbers
  <2>2. Full(job.args) => FreshTo(Audio - 1)'
    BY <1>1, <1>3 DEF FreshTo, FreshDoc
  <2>3. FreshRun'
    BY <1>1, <1>3, <2>1, <2>2 DEF FreshRun, Full, FreshTo, FreshDoc, FreshStem
  <2> QED BY <1>3, <2>3 DEF FreshBuilt
<1>4. CASE StartAudio
  <2>1. /\ job.step = "stage" /\ job.at = Audio /\ ~Raises /\ built' = built /\ stored' = stored
        /\ job'.step = "stem" /\ job'.at = job.at /\ job'.args = job.args /\ job'.doc = Input
        /\ job'.stem = 1
    BY <1>1, <1>4 DEF StartAudio, diskVars, JobRecord
  <2>2. Input # Torn
    BY <2>1, RunInput
  <2>3. Full(job.args) => FreshDoc(Input, Levels) /\ FreshTo(Audio - 1)
    BY <1>1, <1>2, <2>1, <2>2, FreshInput DEF FreshRun
  <2>4. \A i \in 1 .. job'.stem - 1 : FALSE
    BY <2>1
  <2> QED BY <1>3, <2>1, <2>3, <2>4
<1>5. ASSUME NEW passed \in BOOLEAN, EncodeStem(passed) PROVE FreshRun' /\ FreshBuilt'
  <2>1. /\ job.step = "stem" /\ built' = built /\ stored' = stored
        /\ stems' = [stems EXCEPT ![job.stem] = [of |-> job.doc.score, passed |-> passed]]
        /\ \/ job' = Idle
           \/ /\ passed /\ job.stem < StemCount /\ job'.step = "stem" /\ job'.at = job.at
              /\ job'.args = job.args /\ job'.doc = job.doc /\ job'.stem = job.stem + 1
           \/ /\ passed /\ ~ (job.stem < StemCount) /\ job'.step = "audio" /\ job'.at = job.at
              /\ job'.args = job.args /\ job'.doc = job.doc /\ job'.stem = job.stem
    BY <1>1, <1>5 DEF EncodeStem, Abort, JobRecord
  <2>2. /\ job.at = Audio /\ job.stem \in 1 .. StemCount
        /\ stems \in [1 .. StemCount -> Stem \cup {None}]
    BY <2>1 DEF PipelineInv, DiskOK, Files, JobOK, StemsHold
  <2>3. CASE job' = Idle
    BY <2>1, <2>3, FreshAtRest
  <2>4. ASSUME passed, Full(job.args)
        PROVE  /\ FreshTo(Audio - 1) /\ FreshDoc(job.doc, Levels)
               /\ \A i \in 1 .. job.stem : FreshStem(i)'
    <3>1. /\ FreshTo(Audio - 1) /\ FreshDoc(job.doc, Levels)
          /\ \A i \in 1 .. job.stem - 1 : FreshStem(i)
      BY <1>1, <2>1, <2>2, <2>4 DEF FreshRun
    <3>2. job.doc.score = source /\ passed = TRUE
      BY <2>4, <3>1 DEF FreshDoc
    <3>3. \A i \in 1 .. StemCount :
            stems'[i] = IF i = job.stem THEN [of |-> source, passed |-> TRUE] ELSE stems[i]
      BY <2>1, <2>2, <3>2
    <3>4. ASSUME NEW i \in 1 .. job.stem PROVE FreshStem(i)'
      <4>1. i \in 1 .. StemCount /\ (i # job.stem => i \in 1 .. job.stem - 1)
        BY <1>1, <2>2
      <4> QED BY <1>1, <3>1, <3>3, <4>1 DEF FreshStem
    <3> QED BY <3>1, <3>4
  <2>5. CASE /\ passed /\ job.stem < StemCount /\ job'.step = "stem" /\ job'.at = job.at
             /\ job'.args = job.args /\ job'.doc = job.doc /\ job'.stem = job.stem + 1
    <3>1. job'.stem - 1 = job.stem
      BY <2>2, <2>5
    <3> QED BY <1>3, <2>1, <2>2, <2>4, <2>5, <3>1
  <2>6. CASE /\ passed /\ ~ (job.stem < StemCount) /\ job'.step = "audio" /\ job'.at = job.at
             /\ job'.args = job.args /\ job'.doc = job.doc /\ job'.stem = job.stem
    <3>1. job.stem = StemCount
      BY <1>1, <2>2, <2>6
    <3> QED BY <1>3, <2>1, <2>2, <2>4, <2>6, <3>1
  <2> QED BY <2>1, <2>3, <2>5, <2>6
<1>6. CASE StoreAudio
  <2> DEFINE out == [job.doc EXCEPT !.audio = TRUE, !.ran = @ \cup {Audio}]
  <2>1. /\ job.step = "audio" /\ stored' = [stored EXCEPT ![Audio] = out] /\ Advance
        /\ stems' = stems
    BY <1>6 DEF StoreAudio
  <2>2. job.at = Audio /\ InputFor(job.doc, Audio) /\ {Normalize, Levels} \subseteq job.doc.ran
    BY <2>1 DEF PipelineInv, JobOK, StemsHold
  <2>3. StoredBy(out, Audio) /\ out.score = job.doc.score /\ out.ran = job.doc.ran \cup {Audio}
    BY <2>2, AudioOutput
  <2> HIDE DEF out
  <2>4. PICK v : v = job.args.version
    OBVIOUS
  <2>5. ASSUME Full(job.args) PROVE FreshTo(Audio)' /\ \A i \in 1 .. StemCount : FreshStem(i)'
    <3>1. /\ FreshTo(Audio - 1) /\ FreshDoc(job.doc, Levels)
          /\ \A i \in 1 .. StemCount : FreshStem(i)
      BY <1>1, <2>1, <2>2, <2>5 DEF FreshRun
    <3>2. Validate .. Audio = (Validate .. Levels) \cup {Audio} /\ Audio \in Validate .. Pack
      BY StageNumbers
    <3>3. out \notin {None, Torn}
      BY <2>3, Apart DEF StoredBy, Sound
    <3>4. FreshDoc(out, Audio)
      BY <2>3, <3>1, <3>2, <3>3 DEF FreshDoc
    <3>5. FreshTo(Audio)'
      BY <1>1, <2>1, <3>1, <3>2, <3>4, FreshStore
    <3> QED BY <1>1, <2>1, <3>1, <3>5 DEF FreshStem
  <2>6. ~ (Audio >= Pack)
    BY StageNumbers
  <2> QED BY <1>1, <2>1, <2>2, <2>4, <2>5, <2>6, FreshAdvance
<1> QED BY <1>4, <1>5, <1>6

\* ... and through stages 10 and 11.
LEMMA FreshPublish ==
  ASSUME PipelineInv, FreshRun, built = None,
         ReplacePack \/ StorePack \/ CopyToCatalog \/ FlipPointer
  PROVE  FreshRun' /\ FreshBuilt'
<1>1. /\ job \in JobRecord /\ job.args \in RunArgs /\ job.args.version \in Versions
      /\ source' = source /\ stems' = stems /\ Running
  BY DEF PipelineInv, JobOK, JobTypes, ReplacePack, StorePack, CopyToCatalog, FlipPointer,
    Running, RunArgs
<1>2. PICK v : v = job.args.version
  OBVIOUS
<1>3. /\ Pack > Validate /\ Pack > Audio /\ Pack - 1 = Audio /\ Pack # Publish
      /\ Publish > Audio /\ Publish >= Pack /\ Pack \in Validate .. Pack /\ Pack >= Audio
      /\ Publish >= Audio /\ Pack >= Pack
  BY StageNumbers
<1>4. CASE ReplacePack
  <2> DEFINE p == [score |-> Input.score, ran |-> Input.ran,
                   stems |-> IF Input.audio THEN stems ELSE None]
  <2>1. /\ job.step = "stage" /\ job.at = Pack /\ ~Raises /\ ~PackLacksStems
        /\ packs' = [packs EXCEPT ![v] = p] /\ stored' = stored /\ built' = built
        /\ job'.step = "pack" /\ job'.args = job.args /\ job'.at = job.at /\ job'.doc = Input
    BY <1>1, <1>2, <1>4 DEF ReplacePack, JobRecord
  <2>2. /\ Input # Torn /\ InputFor(Input, Pack)
        /\ Input.audio \/ stored[Audio] # None => Input.audio
    BY <2>1, RunInput, NewPack
  <2>3. packs'[v] = p
    <3>1. packs \in [Versions -> PackFile \cup {None}]
      BY DEF PipelineInv, DiskOK, Files
    <3> HIDE DEF p
    <3> QED BY <1>1, <1>2, <2>1, <3>1
  <2>4. ASSUME Full(job.args)
        PROVE  /\ FreshTo(Audio) /\ FreshDoc(Input, Audio)
               /\ \A i \in 1 .. StemCount : FreshStem(i)
               /\ FreshPack(v)'
    <3>1. FreshTo(Audio) /\ \A i \in 1 .. StemCount : FreshStem(i)
      BY <1>1, <1>3, <2>1, <2>4 DEF FreshRun
    <3>2. FreshDoc(Input, Audio)
      BY <1>3, <2>1, <2>2, <2>4, FreshInput
    <3>3. Input.audio
      <4>1. FreshDoc(stored[Audio], Audio)
        BY <3>1, StageNumbers DEF FreshTo
      <4> QED BY <2>2, <4>1 DEF FreshDoc
    <3>4. stems = [i \in 1 .. StemCount |-> [of |-> source, passed |-> TRUE]]
      <4>1. stems \in [1 .. StemCount -> Stem \cup {None}]
        BY DEF PipelineInv, DiskOK, Files
      <4> QED BY <3>1, <4>1 DEF FreshStem
    <3>5. Input.ran \cup {Ingest} = Ingest .. Audio
      <4>1. Input.ran \subseteq Ingest .. Audio
        BY <1>3, <2>2 DEF InputFor
      <4>2. Validate .. Audio \subseteq Input.ran
        BY <3>2 DEF FreshDoc
      <4>3. Ingest .. Audio = (Validate .. Audio) \cup {Ingest}
        BY StageNumbers
      <4> QED BY <4>1, <4>2, <4>3
    <3>6. Input.score = source
      BY <3>2 DEF FreshDoc
    <3>7. p.score = source /\ p.ran = Input.ran /\ p.stems = stems
      BY <3>3, <3>6
    <3> HIDE DEF p
    <3>8. FreshPack(v)'
      BY <1>1, <2>3, <3>4, <3>5, <3>7 DEF FreshPack
    <3> QED BY <3>1, <3>2, <3>8
  <2> HIDE DEF p
  <2>5. FreshRun'
    BY <1>1, <1>2, <1>3, <2>1, <2>4 DEF FreshRun, Full, FreshTo, FreshDoc, FreshStem
  <2> QED BY <2>1, <2>5 DEF FreshBuilt
<1>5. CASE StorePack
  <2> DEFINE out == [job.doc EXCEPT !.pack = job.args.version, !.ran = @ \cup {Pack}]
  <2>1. /\ job.step = "pack" /\ stored' = [stored EXCEPT ![Pack] = out] /\ Advance
        /\ packs' = packs
    BY <1>5 DEF StorePack
  <2>2. job.at = Pack /\ InputFor(job.doc, Pack)
    BY <2>1 DEF PipelineInv, JobOK, PackHolds
  <2>3. StoredBy(out, Pack) /\ out.score = job.doc.score
    BY <1>1, <2>2, PackOutput
  <2>4. out.ran = job.doc.ran \cup {Pack}
    BY <2>2 DEF InputFor, Sound, Document
  <2> HIDE DEF out
  <2>5. ASSUME Full(job.args)
        PROVE  FreshTo(Pack)' /\ FreshPack(v)' /\ \A i \in 1 .. StemCount : FreshStem(i)'
    <3>1. /\ FreshTo(Pack - 1) /\ FreshDoc(job.doc, Audio) /\ FreshPack(v)
          /\ \A i \in 1 .. StemCount : FreshStem(i)
      BY <1>1, <1>2, <1>3, <2>1, <2>2, <2>5 DEF FreshRun
    <3>2. Validate .. Pack = (Validate .. Audio) \cup {Pack}
      BY StageNumbers
    <3>3. out \notin {None, Torn}
      BY <2>3, Apart DEF StoredBy, Sound
    <3>4. FreshDoc(out, Pack)
      BY <2>3, <2>4, <3>1, <3>2, <3>3 DEF FreshDoc
    <3>5. FreshTo(Pack)'
      BY <1>1, <1>3, <2>1, <3>1, <3>4, FreshStore
    <3>6. FreshPack(v)' /\ \A i \in 1 .. StemCount : FreshStem(i)'
      BY <1>1, <2>1, <3>1 DEF FreshPack, FreshStem
    <3> QED BY <3>5, <3>6
  <2> QED BY <1>1, <1>2, <2>1, <2>2, <2>5, FreshAdvance
<1>6. CASE CopyToCatalog
  <2>1. /\ job.step = "stage" /\ job.at = Publish /\ stored' = stored /\ packs' = packs
        /\ built' = built /\ job'.step = "pointer" /\ job'.args = job.args /\ job'.at = job.at
    BY <1>1, <1>6 DEF CopyToCatalog, JobRecord
  <2>2. FreshRun'
    BY <1>1, <1>3, <2>1 DEF FreshRun, Full, FreshTo, FreshDoc, FreshStem, FreshPack
  <2> QED BY <2>1, <2>2 DEF FreshBuilt
<1>7. CASE FlipPointer
  <2>1. /\ job.step = "pointer" /\ stored' = stored /\ packs' = packs /\ Advance
    BY <1>7 DEF FlipPointer
  <2>2. job.at = Publish
    BY <2>1 DEF PipelineInv, JobOK, PointerHolds
  <2>3. ASSUME Full(job.args)
        PROVE  FreshTo(Publish)' /\ FreshPack(v)' /\ \A i \in 1 .. StemCount : FreshStem(i)'
    <3>1. FreshTo(Publish - 1) /\ FreshPack(v) /\ \A i \in 1 .. StemCount : FreshStem(i)
      BY <1>1, <1>2, <1>3, <2>1, <2>2, <2>3 DEF FreshRun
    <3>2. \A j \in (Validate .. Publish) \cap (Ingest .. Pack) :
            j \in (Validate .. Publish - 1) \cap (Ingest .. Pack)
      BY StageNumbers
    <3> QED BY <1>1, <2>1, <3>1, <3>2 DEF FreshTo, FreshDoc, FreshPack, FreshStem
  <2> QED BY <1>1, <1>2, <2>1, <2>2, <2>3, FreshAdvance
<1> QED BY <1>4, <1>5, <1>6, <1>7

\* Every step keeps what a build of all stages relies on.
LEMMA FreshStep ==
  ASSUME PipelineInv, FreshRun, FreshBuilt, [Next]_vars
  PROVE  FreshRun' /\ FreshBuilt'
<1>1. Idle.step = "idle" /\ (built # None => job = Idle)
  BY IdleFacts DEF FreshBuilt
<1>2. ASSUME NEW s \in Source, StartIngest(s) PROVE FreshRun' /\ FreshBuilt'
  <2>1. job'.step \in {"source", "provenance"} /\ built' = None
    BY <1>2, IdleFacts DEF StartIngest, Start
  <2> QED BY <2>1 DEF FreshRun, FreshBuilt, Running
<1>3. ASSUME NEW args \in Runs, StartRun(args) PROVE FreshRun' /\ FreshBuilt'
  <2>1. /\ job'.step = "stage" /\ job'.args = args /\ job'.at = args.from /\ built' = None
    BY <1>3, IdleFacts DEF StartRun, Start
  <2>2. ASSUME Full(args) PROVE job'.at = Validate /\ ~ (job'.at > Audio) /\ job'.at # Publish
    BY <2>1, <2>2, StageNumbers DEF Full
  <2>3. \A j \in (Validate .. Validate - 1) \cap (Ingest .. Pack) : FALSE
    BY StageNumbers
  <2>4. FreshRun'
    BY <2>1, <2>2, <2>3 DEF FreshRun, FreshTo
  <2> QED BY <2>1, <2>4 DEF FreshBuilt
<1>4. CASE CopySource \/ WriteProvenance
  <2>1. /\ job.step \in {"source", "provenance"} /\ built' = built
        /\ job'.step \in {"provenance", "ingested"}
    BY <1>4 DEF CopySource, WriteProvenance, PipelineInv, JobOK, JobTypes, JobRecord
  <2>2. built = None
    BY <1>1, <2>1
  <2> QED BY <2>1, <2>2 DEF FreshRun, FreshBuilt, Running
<1>5. CASE PersistIngest \/ StageRaises \/ KillBetweenWrites \/ KillInWrite
  <2>1. job # Idle /\ job' = Idle /\ built' = built
    BY <1>1, <1>5 DEF PersistIngest, StageRaises, KillBetweenWrites, KillInWrite, Kill, Abort
  <2> QED BY <1>1, <2>1, FreshAtRest
<1>6. CASE TransformStage
  <2>1. built = None
    BY <1>1, <1>6 DEF TransformStage, AtTransform
  <2> QED BY <1>6, <2>1, FreshTransform
<1>7. CASE StartAudio \/ (\E passed \in BOOLEAN : EncodeStem(passed)) \/ StoreAudio
  <2>1. built = None
    BY <1>1, <1>7 DEF StartAudio, EncodeStem, StoreAudio
  <2> QED BY <1>7, <2>1, FreshAudio
<1>8. CASE ReplacePack \/ StorePack \/ CopyToCatalog \/ FlipPointer
  <2>1. built = None
    BY <1>1, <1>8 DEF ReplacePack, StorePack, CopyToCatalog, FlipPointer
  <2> QED BY <1>8, <2>1, FreshPublish
<1>9. CASE UNCHANGED vars
  BY <1>9 DEF vars, diskVars, FreshRun, FreshBuilt, Running, Full, FreshTo, FreshDoc, FreshStem,
    FreshPack
<1> QED BY <1>2, <1>3, <1>4, <1>5, <1>6, <1>7, <1>8, <1>9 DEF Next

\* A build of all stages that succeeded has packed the source that is stored now, in
\* every stage's output and every stem (FreshBuild).
THEOREM PipelineFreshBuild == Spec => []FreshBuild
<1>1. Init => FreshRun /\ FreshBuilt
  BY IdleFacts DEF Init, FreshRun, FreshBuilt, Running
<1>2. PipelineInv /\ FreshRun /\ FreshBuilt /\ [Next]_vars => FreshRun' /\ FreshBuilt'
  BY FreshStep
<1>3. FreshBuilt => FreshBuild
  <2>1. SUFFICES ASSUME FreshBuilt, built # None, Full(built), built.to >= Pack PROVE FreshBuild
    BY DEF FreshBuild, Full
  <2>2. FreshTo(Pack) /\ FreshPack(built.version)
    BY <2>1 DEF FreshBuilt
  <2>3. \A k \in Validate .. Pack : k \in (Validate .. Pack) \cap (Ingest .. Pack)
    BY StageNumbers
  <2>4. \A k \in Validate .. Pack : stored[k].score = source
    BY <2>2, <2>3 DEF FreshTo, FreshDoc
  <2> QED BY <2>2, <2>4 DEF FreshBuild, FreshPack
<1> QED BY <1>1, <1>2, <1>3, PipelineInvariant, PTL DEF Spec
=============================================================================
