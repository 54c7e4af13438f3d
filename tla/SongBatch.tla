------------------------------- MODULE SongBatch -------------------------------
(***************************************************************************)
(* pipeline batch: the songs of a manifest, ingested, built and published  *)
(* by a pool of threads.  A song that the pipeline refuses fails alone; an *)
(* exception of any other kind, or one raised before the song's own try    *)
(* block, aborts the batch.                                                *)
(*                                                                         *)
(* A worker's step is what one stage, or a run of stages that only hand on *)
(* a document, leaves on disk; SongPipeline has those in detail, with the  *)
(* kills, for commands that run one at a time.                             *)
(***************************************************************************)
EXTENDS Naturals, Sequences, FiniteSets

CONSTANTS
  Manifests,   \* the manifests that may be given, each a sequence of entries
  Ids, Source,
  Earlier,     \* the sources of songs that an earlier command may have built
  Workers,     \* the threads of the pool
  Refused,     \* <<s, step>>: a PipelineError for source s
  Broken,      \* <<s, step>>: any other exception for source s
  None

Steps == <<"ingest", "notes", "stems", "audio", "pack", "publish">>

\* valid: the entry has a songId that is one; source is None if it is not given.
Entry == [id : Ids, valid : BOOLEAN, source : Source \cup {None}, publish : BOOLEAN]

ASSUME BatchAssumption ==
  /\ \A m \in Manifests : m \in Seq(Entry) /\ m # <<>>
  /\ IsFiniteSet(Workers) /\ Workers # {}
  /\ Refused \subseteq Source \X {"ingest", "notes", "stems"}
  /\ Broken \subseteq Source \X {"ingest", "notes", "stems"}
  /\ Refused \cap Broken = {}
  /\ Earlier \subseteq Source \ {fault[1] : fault \in Refused \cup Broken}
  /\ None \notin Source \cup Workers
  /\ \A notes, stems \in Source \cup {None} : None # [notes |-> notes, stems |-> stems]

VARIABLES
  songs,      \* the manifest
  files,      \* what is on disk for each id, by the source it is made of
  queue,      \* the entries that no worker has taken
  worker,     \* what each worker is at
  result,     \* of each entry; "pending" until its future is done
  collected,  \* how many results the main thread has taken, in manifest order
  main        \* "collecting", "aborting", or "exit 0", "exit 1", "exit abort"

vars == <<songs, files, queue, worker, result, collected, main>>

PackOf(notes, stems) == [notes |-> notes, stems |-> stems]
NoFiles == [source |-> None, notes |-> None, stems |-> None, audio |-> None,
            pack |-> None, catalog |-> None]

\* A song that an earlier command has ingested and built.
BuiltFrom(s) == [source |-> s, notes |-> s, stems |-> s, audio |-> s,
                 pack |-> PackOf(s, s), catalog |-> None]

Idle == [entry |-> 0, step |-> "idle", doc |-> None]

Init ==
  /\ songs \in Manifests
  /\ files \in [Ids -> {NoFiles} \cup {BuiltFrom(s) : s \in Earlier}]
  /\ queue = [i \in 1 .. Len(songs) |-> i]
  /\ worker = [w \in Workers |-> Idle]
  /\ result = [i \in 1 .. Len(songs) |-> "pending"]
  /\ collected = 0 /\ main = "collecting"

\* Definitions named Faulty... are seeded faults: each replaces the definition
\* after it in a run that must then fail, and is used nowhere else.

-----------------------------------------------------------------------------
Song(w) == songs[worker[w].entry]
Disk(w) == files[Song(w).id]

Store(w, field, value) == files' = [files EXCEPT ![Song(w).id][field] = value]

GoTo(w, step) == worker' = [worker EXCEPT ![w].step = step] /\ UNCHANGED result

FaultyFinish(w, outcome) ==
  /\ worker' = [worker EXCEPT ![w] = Idle]
  /\ result' = IF outcome = "raised" THEN result
               ELSE [result EXCEPT ![worker[w].entry] = outcome]

\* build_one returns or raises, which completes the future.
Finish(w, outcome) ==
  /\ worker' = [worker EXCEPT ![w] = Idle]
  /\ result' = [result EXCEPT ![worker[w].entry] = outcome]

\* An idle thread takes the first entry that waits.
Take(w) ==
  /\ worker[w] = Idle /\ queue # <<>>
  /\ worker' = [worker EXCEPT ![w] = [entry |-> Head(queue), step |-> "check", doc |-> None]]
  /\ queue' = Tail(queue)
  /\ UNCHANGED <<songs, files, result, collected, main>>

\* songId and validate_song_id come before the try block.
CheckId(w) ==
  /\ worker[w].step = "check"
  /\ IF ~Song(w).valid THEN Finish(w, "raised")
     ELSE IF Song(w).source # None THEN GoTo(w, "ingest")
     ELSE IF Disk(w).source = None THEN Finish(w, "FAILED")
     ELSE GoTo(w, "notes")
  /\ UNCHANGED <<songs, files, queue, collected, main>>

\* What the step works on: the given source, or what the step before left.
Subject(w) ==
  CASE worker[w].step = "ingest" -> Song(w).source
    [] worker[w].step = "notes" -> Disk(w).source
    [] worker[w].step = "stems" -> Disk(w).notes
    [] OTHER -> worker[w].doc

AtStep(w, step) ==
  /\ worker[w].step = step
  /\ <<Subject(w), step>> \notin Refused \cup Broken

\* run_ingest and persist_stage_1.
IngestSong(w) ==
  /\ AtStep(w, "ingest")
  /\ Store(w, "source", Subject(w))
  /\ GoTo(w, "notes")
  /\ UNCHANGED <<songs, queue, collected, main>>

\* Stages 2 to 8.
BuildNotes(w) ==
  /\ AtStep(w, "notes")
  /\ Store(w, "notes", Subject(w))
  /\ GoTo(w, "stems")
  /\ UNCHANGED <<songs, queue, collected, main>>

\* Stage 9: the stems, and then its document.
RenderStems(w) ==
  /\ AtStep(w, "stems")
  /\ Store(w, "stems", Subject(w))
  /\ worker' = [worker EXCEPT ![w] = [entry |-> @.entry, step |-> "audio", doc |-> Subject(w)]]
  /\ UNCHANGED <<songs, queue, result, collected, main>>

StoreAudio(w) ==
  /\ AtStep(w, "audio")
  /\ Store(w, "audio", Subject(w))
  /\ GoTo(w, "pack")
  /\ UNCHANGED <<songs, queue, collected, main>>

\* Stage 10 packs the stored document with the stems that are there.
FaultyPackSong(w) ==
  /\ AtStep(w, "pack")
  /\ IF Song(w).publish THEN UNCHANGED files /\ GoTo(w, "publish")
     ELSE Store(w, "pack", PackOf(Disk(w).audio, Disk(w).stems)) /\ Finish(w, "OK")
  /\ UNCHANGED <<songs, queue, collected, main>>

PackSong(w) ==
  /\ AtStep(w, "pack")
  /\ Store(w, "pack", PackOf(Disk(w).audio, Disk(w).stems))
  /\ IF Song(w).publish THEN GoTo(w, "publish") ELSE Finish(w, "OK")
  /\ UNCHANGED <<songs, queue, collected, main>>

PublishSong(w) ==
  /\ AtStep(w, "publish")
  /\ Store(w, "catalog", Disk(w).pack)
  /\ Finish(w, "OK")
  /\ UNCHANGED <<songs, queue, collected, main>>

\* The step raises a PipelineError, or another exception.
FaultyRefuse(w) ==
  /\ worker[w].step \in {"ingest", "notes", "stems"}
  /\ <<Subject(w), worker[w].step>> \in Refused
  /\ Finish(w, "raised")
  /\ UNCHANGED <<songs, files, queue, collected, main>>

Refuse(w) ==
  /\ worker[w].step \in {"ingest", "notes", "stems"}
  /\ <<Subject(w), worker[w].step>> \in Refused
  /\ Finish(w, "FAILED")
  /\ UNCHANGED <<songs, files, queue, collected, main>>

Break(w) ==
  /\ worker[w].step \in {"ingest", "notes", "stems"}
  /\ <<Subject(w), worker[w].step>> \in Broken
  /\ Finish(w, "raised")
  /\ UNCHANGED <<songs, files, queue, collected, main>>

\* Another entry with the id of w's has written, while w's step ran, what that step
\* reads.  A stage may find it half written or not its own, which is a PipelineError,
\* or an exception of another kind: stage 3 of a document whose stage 2 was refused
\* (stage_normalize.py:316), stage 9 of a sound file that is being written.
Interfere(w) ==
  /\ worker[w] # Idle
  /\ \E i \in 1 .. Len(songs) :
       /\ i # worker[w].entry /\ songs[i].id = Song(w).id
       /\ result[i] # "pending" \/ \E v \in Workers : worker[v] # Idle /\ worker[v].entry = i
  /\ \/ worker[w].step \in {"notes", "stems", "pack", "publish"} /\ Finish(w, "FAILED")
     \/ worker[w].step \in {"notes", "stems"} /\ Finish(w, "raised")
  /\ UNCHANGED <<songs, files, queue, collected, main>>

Work(w) ==
  \/ Take(w) \/ CheckId(w) \/ IngestSong(w) \/ BuildNotes(w) \/ RenderStems(w) \/ StoreAudio(w)
  \/ PackSong(w) \/ PublishSong(w) \/ Refuse(w) \/ Break(w) \/ Interfere(w)

-----------------------------------------------------------------------------
\* list(pool.map(...)): the next result, or the exception of the next future, upon
\* which map cancels all futures that no worker has taken.
Collect ==
  /\ main = "collecting" /\ collected < Len(songs)
  /\ result[collected + 1] # "pending"
  /\ IF result[collected + 1] = "raised"
     THEN main' = "aborting" /\ queue' = <<>> /\ UNCHANGED collected
     ELSE collected' = collected + 1 /\ UNCHANGED <<main, queue>>
  /\ UNCHANGED <<songs, files, worker, result>>

\* Leaving the with block waits for the workers; then the summary, or main()'s line
\* about the exception.
Exit ==
  /\ main \in {"collecting", "aborting"}
  /\ main = "collecting" => collected = Len(songs)
  /\ \A w \in Workers : worker[w] = Idle
  /\ main' = IF main = "aborting" THEN "exit abort"
             ELSE IF \A i \in 1 .. Len(songs) : result[i] = "OK" THEN "exit 0" ELSE "exit 1"
  /\ UNCHANGED <<songs, files, queue, worker, result, collected>>

Next == (\E w \in Workers : Work(w)) \/ Collect \/ Exit

\* Threads run, and so does the main thread.
Fairness == (\A w \in Workers : WF_vars(Work(w))) /\ WF_vars(Collect \/ Exit)

Spec == Init /\ [][Next]_vars /\ Fairness

-----------------------------------------------------------------------------
Exited == main \in {"exit 0", "exit 1", "exit abort"}

\* The workers are at entries that nobody else has, and the results are those of a batch.
TypeOK ==
  /\ \A i \in DOMAIN queue : queue[i] \in 1 .. Len(songs)
  /\ \A w \in Workers : worker[w] = Idle \/ worker[w].entry \in 1 .. Len(songs)
  /\ \A v, w \in Workers : v # w /\ worker[v] # Idle => worker[v].entry # worker[w].entry
  /\ \A i \in 1 .. Len(songs) : result[i] \in {"pending", "OK", "FAILED", "raised"}
  /\ collected \in 0 .. Len(songs)

OnlyEntry(i) == \A j \in 1 .. Len(songs) : songs[j].id = songs[i].id => j = i

\* From the moment an entry is OK, and whatever the other workers do, its pack holds
\* the notes and the stems of its own source, and is in the catalog if it was to be
\* published.  Entries with the same songId work in the same directories: of them no
\* more is true than that the notes are of one of their sources, and the stems of one,
\* perhaps another.
OkMeansBuilt ==
  \A i \in 1 .. Len(songs) : result[i] = "OK" =>
    LET disk == files[songs[i].id]
        given == {songs[j].source : j \in {k \in 1 .. Len(songs) : songs[k].id = songs[i].id}}
    IN /\ disk.pack # None
       /\ OnlyEntry(i) => /\ disk.pack = PackOf(disk.source, disk.source)
                          /\ songs[i].source \in {None, disk.source}
                          /\ songs[i].publish => disk.catalog = disk.pack
       /\ None \notin given => {disk.pack.notes, disk.pack.stems} \subseteq given

\* What becomes of an entry on its own.
Fate(i) ==
  LET song == songs[i]
      score == IF song.source # None THEN song.source ELSE files[song.id].source
      At(fault) == \E k \in 1 .. 3 : <<score, Steps[k]>> \in fault
      First(fault, other) ==
        \E k \in 1 .. 3 : /\ <<score, Steps[k]>> \in fault
                          /\ \A j \in 1 .. k : <<score, Steps[j]>> \notin other
  IN IF ~song.valid THEN "raised"
     ELSE IF score = None THEN "FAILED"
     ELSE IF First(Broken, Refused) THEN "raised"
     ELSE IF At(Refused) THEN "FAILED" ELSE "OK"

\* However the threads were scheduled, and whatever became of the other entries, an
\* entry with a valid id of its own ends as it would have alone, or is cancelled when one of
\* the others aborts the batch (cli.py:291-305).  Nothing is claimed of an entry whose id
\* validate_song_id refuses, on which code and comment disagree (cli.py:258 and :293).
\* The batch exits with 0 if all entries are OK, with 1 only if all have ended and none
\* raised; it is aborted by the first entry of the manifest that raised, with the entries
\* before it collected.
OutcomeIsOwn ==
  /\ \A i \in 1 .. Len(songs) : songs[i].valid /\ OnlyEntry(i) => result[i] \in {"pending", Fate(i)}
  /\ main = "exit 0" <=> Exited /\ \A i \in 1 .. Len(songs) : result[i] = "OK"
  /\ main = "exit 1" => \A i \in 1 .. Len(songs) : result[i] \notin {"pending", "raised"}
  /\ main = "exit abort" =>
       /\ result[collected + 1] = "raised"
       /\ \A i \in 1 .. collected : result[i] \notin {"pending", "raised"}

\* Every batch exits, whichever entries raise in whichever thread, and leaves no thread at
\* work: each future is completed, and the main thread stops waiting for those it cancelled.
BatchEnds == <>[](Exited /\ \A w \in Workers : worker[w] = Idle)
=============================================================================
