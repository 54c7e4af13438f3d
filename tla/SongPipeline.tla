----------------------------- MODULE SongPipeline -----------------------------
(***************************************************************************)
(* The content pipeline for one song: the commands ingest, build, validate,*)
(* audio and publish, and the files they leave for each other in the       *)
(* content store, the build directory and the catalog.  One command runs   *)
(* at a time; each writes its files one by one and may fail or be killed   *)
(* between or in the middle of any two, and the next starts from what is   *)
(* on disk.  batch is such a sequence of commands for each of its songs.   *)
(*                                                                         *)
(* A step is one write to the disk.  All writes are in place, so that one  *)
(* that is interrupted leaves the file Torn, except that of the pack.      *)
(***************************************************************************)
EXTENDS SongStages

CONSTANTS
  Versions,      \* the pack versions that are asked for
  Envs,          \* the catalog's environments
  StemCount,     \* how many stems stage 9 renders; the code renders six
  Runs,          \* the arguments with which stages may be run, see RunArgs
  MaxCommands    \* bound of the exploration

\* build, and as runs of a single stage validate, audio and publish: the stages
\* from .. to, without the audio stage for --no-audio, --strict, --resume-nearest.
RunArgs == [from : Validate .. Publish, to : Validate .. Publish,
            audio : BOOLEAN, strict : BOOLEAN, nearest : BOOLEAN,
            version : Versions, env : Envs]

VARIABLES
  source,       \* the stored source file
  provenance,   \* provenance.json, by the source it is about
  stored,       \* song.json of each stage
  stems,        \* the audio files of stage 9
  packs,        \* the packs in the build directory, by version
  catalog,      \* the packs in the catalog, by environment and version
  pointer,      \* the catalog's pointer files, by environment
  job,          \* the command that runs
  built,        \* history: the arguments of the last command, if it succeeded
  crashed,      \* history: some command was killed
  commands      \* how many commands were started

diskVars == <<source, provenance, stored, stems, packs, catalog, pointer>>
vars == <<diskVars, job, built, crashed, commands>>

Stem == [of : Source, passed : BOOLEAN]

ASSUME PipelineAssumption ==
  /\ Versions \subseteq Nat /\ None \notin Versions
  /\ StemCount \in Nat \ {0}
  /\ Runs \subseteq RunArgs
  /\ MaxCommands \in Nat
  /\ None \notin [1 .. StemCount -> Stem]

PackFile == [score : Source, ran : SUBSET (Ingest .. Publish),
             stems : [1 .. StemCount -> Stem] \cup {None}]
Pointer == [version : Versions, pack : PackFile, ref : Source]

\* step is what the command writes next; a run is at a stage with args, has read
\* doc, and renders the stem next.
Idle == [step |-> "idle", song |-> None, args |-> None, at |-> 0, doc |-> BlankDoc,
         stem |-> 0]

Init ==
  /\ source = None /\ provenance = None
  /\ stored = [k \in Ingest .. Pack |-> None]
  /\ stems = [i \in 1 .. StemCount |-> None]
  /\ packs = [v \in Versions |-> None]
  /\ catalog = [e \in Envs |-> [v \in Versions |-> None]]
  /\ pointer = [e \in Envs |-> None]
  /\ job = Idle /\ built = None
  /\ crashed = FALSE /\ commands = 0

-----------------------------------------------------------------------------
Start(newJob) ==
  /\ job = Idle
  /\ commands < MaxCommands
  /\ commands' = commands + 1
  /\ job' = newJob
  /\ built' = None
  /\ UNCHANGED <<diskVars, crashed>>

\* ingest: a source that is already there is not copied again.
StartIngest(s) ==
  Start([Idle EXCEPT !.step = IF source = s THEN "provenance" ELSE "source", !.song = s])

\* run_stages, after ensure_ingested.  Unless the nearest will do, the document
\* of the stage before must exist.
StartRun(args) ==
  /\ provenance # None
  /\ args.nearest \/ stored[args.from - 1] # None
  /\ Start([Idle EXCEPT !.step = "stage", !.args = args, !.at = args.from])

\* Definitions named Faulty... are seeded faults: each replaces the definition
\* after it in a run that must then fail, and is used nowhere else.

\* Where a run goes after stage job.at.
NextStage == IF job.at + 1 = Audio /\ ~job.args.audio THEN job.at + 2 ELSE job.at + 1

Advance ==
  IF NextStage <= job.args.to
  THEN /\ job' = [job EXCEPT !.step = "stage", !.at = NextStage, !.doc = BlankDoc, !.stem = 0]
       /\ UNCHANGED built
  ELSE job' = Idle /\ built' = job.args

\* The command exits with an error.
Abort == job' = Idle /\ UNCHANGED built

-----------------------------------------------------------------------------
CopySource ==
  /\ job.step = "source"
  /\ source' = job.song
  /\ job' = [job EXCEPT !.step = "provenance"]
  /\ UNCHANGED <<provenance, stored, stems, packs, catalog, pointer, built, crashed, commands>>

WriteProvenance ==
  /\ job.step = "provenance"
  /\ provenance' = job.song
  /\ job' = [job EXCEPT !.step = "ingested"]
  /\ UNCHANGED <<source, stored, stems, packs, catalog, pointer, built, crashed, commands>>

PersistIngest ==
  /\ job.step = "ingested"
  /\ stored' = [stored EXCEPT ![Ingest] = IngestedDoc(job.song)]
  /\ job' = Idle
  /\ UNCHANGED <<source, provenance, stems, packs, catalog, pointer, built, crashed, commands>>

-----------------------------------------------------------------------------
Input == LoadPrevious(stored, job.at)

\* A stage that stores nothing but its document.
AtTransform == job.step = "stage" /\ job.at <= Levels

\* load_song_doc fails, or the stage raises.
Raises ==
  \/ Input = Torn
  \/ /\ Input # Torn
     /\ \/ ~CanRun(job.at, Input)
        \/ job.at = Validate /\ (source = Torn \/ provenance = Torn)
        \/ job.at \in Normalize .. Levels /\ <<Input.score, job.at>> \in Fails

\* run_stage stores the document before run_stages looks at errors and, for a
\* strict build, at warnings.
TransformStage ==
  /\ AtTransform
  /\ ~Raises
  /\ LET doc == StageOutput(job.at, Input, source)
         subject == IF job.at = Validate THEN source ELSE Input.score
     IN /\ stored' = [stored EXCEPT ![job.at] = doc]
        /\ IF \/ <<subject, job.at>> \in Fails
              \/ job.args.strict /\ <<subject, job.at>> \in Warns
           THEN Abort
           ELSE Advance
  /\ UNCHANGED <<source, provenance, stems, packs, catalog, pointer, crashed, commands>>

\* A pack that lists audio files needs every one of them to exist.  No command
\* deletes one, so that they always do.
PackLacksStems ==
  job.at = Pack /\ Input # Torn /\ Input.audio /\ \E i \in 1 .. StemCount : stems[i] = None

\* The gate of stage 11 on the document, and the pack it names.
FaultyGatePasses ==
  /\ Input # Torn
  /\ Input.pack # None
  /\ packs[Input.pack] # None
  /\ Input.ref # None

GatePasses ==
  /\ Input # Torn
  /\ Input.pack # None
  /\ packs[Input.pack] # None
  /\ Input.ref # None
  /\ Input.audio

StageRaises ==
  /\ job.step = "stage"
  /\ Raises \/ PackLacksStems \/ (job.at = Publish /\ ~GatePasses)
  /\ Abort
  /\ UNCHANGED <<diskVars, crashed, commands>>

-----------------------------------------------------------------------------
\* Stage 9 renders the stems over those of an earlier run, checks each after it
\* is in place, and stores its document when all have passed.
StartAudio ==
  /\ job.step = "stage" /\ job.at = Audio
  /\ ~Raises
  /\ job' = [job EXCEPT !.step = "stem", !.doc = Input, !.stem = 1]
  /\ UNCHANGED <<diskVars, built, crashed, commands>>

FaultyEncodeStem(passed) ==
  /\ job.step = "stem"
  /\ stems' = [stems EXCEPT ![job.stem] = [of |-> job.doc.score, passed |-> passed]]
  /\ IF passed
     THEN /\ job' = IF job.stem <= StemCount THEN [job EXCEPT !.stem = @ + 1]
                                             ELSE [job EXCEPT !.step = "audio"]
          /\ UNCHANGED built
     ELSE Abort
  /\ UNCHANGED <<source, provenance, stored, packs, catalog, pointer, crashed, commands>>

EncodeStem(passed) ==
  /\ job.step = "stem"
  /\ stems' = [stems EXCEPT ![job.stem] = [of |-> job.doc.score, passed |-> passed]]
  /\ IF passed
     THEN /\ job' = IF job.stem < StemCount THEN [job EXCEPT !.stem = @ + 1]
                                            ELSE [job EXCEPT !.step = "audio"]
          /\ UNCHANGED built
     ELSE Abort
  /\ UNCHANGED <<source, provenance, stored, packs, catalog, pointer, crashed, commands>>

StoreAudio ==
  /\ job.step = "audio"
  /\ stored' = [stored EXCEPT ![Audio] = [job.doc EXCEPT !.audio = TRUE, !.ran = @ \cup {Audio}]]
  /\ Advance
  /\ UNCHANGED <<source, provenance, stems, packs, catalog, pointer, crashed, commands>>

\* Stage 10 writes the pack to a temporary file that replaces the pack at once.
ReplacePack ==
  /\ job.step = "stage" /\ job.at = Pack
  /\ ~Raises /\ ~PackLacksStems
  /\ packs' = [packs EXCEPT ![job.args.version] =
       [score |-> Input.score, ran |-> Input.ran,
        stems |-> IF Input.audio THEN stems ELSE None]]
  /\ job' = [job EXCEPT !.step = "pack", !.doc = Input]
  /\ UNCHANGED <<source, provenance, stored, stems, catalog, pointer, built, crashed, commands>>

StorePack ==
  /\ job.step = "pack"
  /\ stored' = [stored EXCEPT ![Pack] =
       [job.doc EXCEPT !.pack = job.args.version, !.ran = @ \cup {Pack}]]
  /\ Advance
  /\ UNCHANGED <<source, provenance, stems, packs, catalog, pointer, crashed, commands>>

\* Stage 11 copies the pack into the catalog and then flips the pointer.
CopyToCatalog ==
  /\ job.step = "stage" /\ job.at = Publish
  /\ ~Raises /\ GatePasses
  /\ catalog' = [catalog EXCEPT ![job.args.env][Input.pack] = packs[Input.pack]]
  /\ job' = [job EXCEPT !.step = "pointer", !.doc = Input]
  /\ UNCHANGED <<source, provenance, stored, stems, packs, pointer, built, crashed, commands>>

FaultyFlipPointer ==
  /\ job.step = "pointer"
  /\ pointer' = [pointer EXCEPT ![job.args.env] =
       [version |-> job.doc.pack, pack |-> catalog[job.args.env][job.doc.pack],
        ref |-> provenance]]
  /\ Advance
  /\ UNCHANGED <<source, provenance, stored, stems, packs, catalog, crashed, commands>>

FlipPointer ==
  /\ job.step = "pointer"
  /\ pointer' = [pointer EXCEPT ![job.args.env] =
       [version |-> job.doc.pack, pack |-> catalog[job.args.env][job.doc.pack],
        ref |-> job.doc.ref]]
  /\ Advance
  /\ UNCHANGED <<source, provenance, stored, stems, packs, catalog, crashed, commands>>

-----------------------------------------------------------------------------
\* The process is killed, either between two writes ...
Kill ==
  /\ job # Idle
  /\ job' = Idle /\ crashed' = TRUE
  /\ UNCHANGED <<built, commands>>

KillBetweenWrites == Kill /\ UNCHANGED diskVars

\* ... or in the middle of one.  An interrupted stem has not passed its check.
TearStored(k) ==
  /\ stored' = [stored EXCEPT ![k] = Torn]
  /\ UNCHANGED <<source, provenance, stems, packs, catalog, pointer>>

KillInWrite ==
  /\ Kill
  /\ \/ /\ job.step = "source" /\ source' = Torn
        /\ UNCHANGED <<provenance, stored, stems, packs, catalog, pointer>>
     \/ /\ job.step = "provenance" /\ provenance' = Torn
        /\ UNCHANGED <<source, stored, stems, packs, catalog, pointer>>
     \/ job.step = "ingested" /\ TearStored(Ingest)
     \/ AtTransform /\ ~Raises /\ TearStored(job.at)
     \/ /\ job.step = "stem"
        /\ stems' = [stems EXCEPT ![job.stem] = [of |-> job.doc.score, passed |-> FALSE]]
        /\ UNCHANGED <<source, provenance, stored, packs, catalog, pointer>>
     \/ job.step = "audio" /\ TearStored(Audio)
     \/ job.step = "pack" /\ TearStored(Pack)
     \/ /\ job.step = "stage" /\ job.at = Publish /\ GatePasses
        /\ catalog' = [catalog EXCEPT ![job.args.env][Input.pack] = Torn]
        /\ UNCHANGED <<source, provenance, stored, stems, packs, pointer>>
     \/ /\ job.step = "pointer"
        /\ pointer' = [pointer EXCEPT ![job.args.env] = Torn]
        /\ UNCHANGED <<source, provenance, stored, stems, packs, catalog>>

Next ==
  \/ \E s \in Source : StartIngest(s)
  \/ \E args \in Runs : StartRun(args)
  \/ CopySource \/ WriteProvenance \/ PersistIngest
  \/ TransformStage \/ StageRaises
  \/ StartAudio \/ (\E passed \in BOOLEAN : EncodeStem(passed)) \/ StoreAudio
  \/ ReplacePack \/ StorePack
  \/ CopyToCatalog \/ FlipPointer
  \/ KillBetweenWrites \/ KillInWrite

Spec == Init /\ [][Next]_vars

-----------------------------------------------------------------------------
OnDisk(content) == content \cup {None, Torn}

\* The files hold what their readers expect and a job is where a command of the
\* runner can be.
TypeOK ==
  /\ source \in OnDisk(Source) /\ provenance \in OnDisk(Source)
  /\ \A k \in Ingest .. Pack : stored[k] \in OnDisk(Document)
  /\ \A i \in 1 .. StemCount : stems[i] \in Stem \cup {None}
  /\ \A v \in Versions : packs[v] \in PackFile \cup {None}
  /\ \A e \in Envs : /\ pointer[e] \in OnDisk(Pointer)
                     /\ \A v \in Versions : catalog[e][v] \in OnDisk(PackFile)
  /\ job.step \in {"idle", "source", "provenance", "ingested",
                   "stage", "stem", "audio", "pack", "pointer"}
  /\ job.song \in Source \cup {None} /\ job.args \in RunArgs \cup {None}
  /\ job.doc \in Document
  /\ job.at \in 0 .. Publish /\ job.stem \in 0 .. StemCount
  /\ built \in RunArgs \cup {None}

\* Whatever commands failed or were killed and from where the next one resumed, a
\* pack in the build directory is whole, and holds no notes that a stage refused
\* or that were not given a hand: run_stage stores what a stage hands on before
\* run_stages looks at its errors, and a resumed build loads that.
PacksAreSound ==
  \A v \in Versions : packs[v] # None =>
    /\ packs[v] \in PackFile
    /\ \A k \in packs[v].ran : <<packs[v].score, k>> \notin Fails
    /\ Normalize \in packs[v].ran
    /\ Levels \in packs[v].ran => Hands \in packs[v].ran

\* What a pack the catalog offers has gone through to be playable, and that it
\* holds a file of every stem.
Playable(file) ==
  /\ {Validate, Normalize, Hands, Levels} \subseteq file.ran
  /\ file.stems # None

\* The file a pointer of the catalog names is there, and is playable unless a
\* killed publish left it torn: run_stage_publish goes by the stored document of
\* stage 10, the pack it copies may be of another command.  As long as no command
\* was killed it is the file whose sha256 the pointer records, also when the
\* version was published before (stage_publish.py:84-95).
PublishedIsSound ==
  \A e \in Envs : pointer[e] \notin {None, Torn} =>
    LET file == catalog[e][pointer[e].version] IN
      /\ file # None
      /\ file # Torn => Playable(file)
      /\ ~crashed /\ job.step # "pointer" => file = pointer[e].pack

\* A build of all stages that succeeded has packed the source that is stored now,
\* in every stage's output and every stem, whatever earlier commands left in the
\* build directory: _load_previous finds the output of this run.  (The document of
\* ingest may be missing: --resume-nearest goes without it.)
FreshBuild ==
  (built # None /\ built.from = Validate /\ built.audio /\ built.to >= Pack) =>
    LET pack == packs[built.version] IN
      /\ pack.score = source
      /\ pack.ran \cup {Ingest} = Ingest .. Audio
      /\ pack.stems = [i \in 1 .. StemCount |-> [of |-> source, passed |-> TRUE]]
      /\ \A k \in Validate .. Pack : stored[k].score = source

\* The rights reference in a pointer is that of the source its pack was made from,
\* through re-ingested sources and resumed builds, as long as no command was
\* killed: the reference is taken from the document, the notes from the pack.
ProvenanceMatches ==
  ~crashed =>
    \A e \in Envs : pointer[e] # None => pointer[e].ref = pointer[e].pack.score

-----------------------------------------------------------------------------
\* A claim of the documentation that the code does not keep.

\* A --no-audio build emits a pack without audio (docs/specs/pipeline-v0.md:136),
\* also when stage 9 of an earlier build left its document.
NoAudioIsJsonOnly ==
  (~crashed /\ built # None /\ ~built.audio /\ built.to >= Pack) =>
    packs[built.version].stems = None
=============================================================================
