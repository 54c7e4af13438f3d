---------------------------- MODULE SongBatch_proof ----------------------------
(***************************************************************************)
(* What an entry that ended with OK leaves on disk, for every manifest,    *)
(* every number of threads and every fault of a stage.                     *)
(***************************************************************************)
EXTENDS SongBatch, TLAPS

Content == Source \cup {None}
PackFile == [notes : Content, stems : Content]
Disks == [source : Content, notes : Content, stems : Content, audio : Content,
          pack : PackFile \cup {None}, catalog : PackFile \cup {None}]

StepNames == {"idle", "check", "ingest", "notes", "stems", "audio", "pack", "publish"}
Outcomes == {"pending", "OK", "FAILED", "raised"}

Busy(w) == worker[w].step # "idle"

\* Who works at what: an entry waits, or is one thread's, or has its result.
Assigned ==
  /\ songs \in Seq(Entry)
  /\ queue \in Seq(1 .. Len(songs))
  /\ \A i, j \in DOMAIN queue : queue[i] = queue[j] => i = j
  /\ \A i \in DOMAIN queue : result[queue[i]] = "pending"
  /\ worker \in [Workers -> [entry : Nat, step : StepNames, doc : Content]]
  /\ result \in [1 .. Len(songs) -> Outcomes]
  /\ collected \in 0 .. Len(songs)
  /\ \A w \in Workers : ~Busy(w) => worker[w] = Idle
  /\ \A w \in Workers : Busy(w) =>
       /\ worker[w].entry \in 1 .. Len(songs)
       /\ result[worker[w].entry] = "pending"
       /\ \A i \in DOMAIN queue : queue[i] # worker[w].entry
  /\ \A v, w \in Workers : v # w /\ Busy(v) /\ Busy(w) => worker[v].entry # worker[w].entry

FilesOK == files \in [Ids -> Disks]

\* The other entries of the manifest m with the id of entry i, and their sources.
Unique(m, i) == \A j \in 1 .. Len(m) : m[j].id = m[i].id => j = i
Given(m, i) == {m[j].source : j \in {k \in 1 .. Len(m) : m[k].id = m[i].id}}

\* What is on the disk once entry i of the manifest m has come to the step, with the
\* document doc in memory.
AtNotes == {"notes", "stems", "audio", "pack", "publish", "OK"}
AtStems == {"stems", "audio", "pack", "publish", "OK"}
AtAudio == {"audio", "pack", "publish", "OK"}
AtPack == {"pack", "publish", "OK"}
AtPublish == {"publish", "OK"}

MadeAlone(m, disk, i, step, doc) ==
  /\ step \in AtNotes => m[i].source \in {None, disk.source}
  /\ step \in AtStems => disk.notes = disk.source
  /\ step \in AtAudio => disk.stems = disk.source
  /\ step = "audio" => doc = disk.source
  /\ step \in AtPack => disk.audio = disk.source
  /\ step \in AtPublish => disk.pack = PackOf(disk.source, disk.source)
  /\ step = "OK" /\ m[i].publish => disk.catalog = disk.pack

MadeTogether(given, disk, step, doc) ==
  /\ step \in AtNotes => disk.source \in given
  /\ step \in AtStems => disk.notes \in given
  /\ step \in AtAudio => disk.stems \in given
  /\ step = "audio" => doc \in given
  /\ step \in AtPack => disk.audio \in given
  /\ step \in AtPublish => {disk.pack.notes, disk.pack.stems} \subseteq given

Made(m, disk, i, step, doc) ==
  /\ step \in AtPublish => disk.pack # None
  /\ Unique(m, i) => MadeAlone(m, disk, i, step, doc)
  /\ None \notin Given(m, i) => MadeTogether(Given(m, i), disk, step, doc)

DiskOf(i) == files[songs[i].id]

Progress ==
  /\ \A w \in Workers : Busy(w) =>
       Made(songs, DiskOf(worker[w].entry), worker[w].entry, worker[w].step, worker[w].doc)
  /\ \A w \in Workers : Busy(w) /\ worker[w].step = "publish" => songs[worker[w].entry].publish
  /\ \A i \in 1 .. Len(songs) : result[i] = "OK" => Made(songs, DiskOf(i), i, "OK", None)

BatchInv == Assigned /\ FilesOK /\ Progress

-----------------------------------------------------------------------------
\* A thread that goes on to its next step stays with its entry.
LEMMA GoOnAssigned ==
  ASSUME Assigned, NEW w \in Workers, Busy(w), NEW s \in StepNames \ {"idle"}, NEW d \in Content,
         worker' = [worker EXCEPT ![w] = [entry |-> worker[w].entry, step |-> s, doc |-> d]],
         UNCHANGED <<songs, queue, result, collected>>
  PROVE Assigned'
<1>1. /\ worker' \in [Workers -> [entry : Nat, step : StepNames, doc : Content]]
      /\ \A v \in Workers : v # w => worker'[v] = worker[v]
      /\ worker'[w].entry = worker[w].entry /\ worker'[w].step = s
  BY DEF Assigned
<1>2. \A v \in Workers : Busy(v)' <=> Busy(v)
  BY <1>1 DEF Busy
<1>3. \A v \in Workers : worker'[v].entry = worker[v].entry
  BY <1>1
<1> QED
  BY <1>1, <1>2, <1>3 DEF Assigned, Busy

\* A thread that is done gives its entry a result.
LEMMA FinishAssigned ==
  ASSUME Assigned, NEW w \in Workers, Busy(w), NEW o \in Outcomes, Finish(w, o),
         UNCHANGED <<songs, queue, collected>>
  PROVE Assigned'
<1> DEFINE e == worker[w].entry
<1>1. e \in 1 .. Len(songs)
  BY DEF Assigned
<1>2. Idle \in [entry : Nat, step : StepNames, doc : Content] /\ Idle.step = "idle"
  BY DEF Idle, StepNames, Content
<1>3. /\ worker' \in [Workers -> [entry : Nat, step : StepNames, doc : Content]]
      /\ worker'[w] = Idle /\ \A v \in Workers : v # w => worker'[v] = worker[v]
  BY <1>2 DEF Assigned, Finish
<1>4. /\ result' \in [1 .. Len(songs) -> Outcomes]
      /\ \A i \in 1 .. Len(songs) : i # e => result'[i] = result[i]
  BY <1>1 DEF Assigned, Finish
<1>5. ~Busy(w)' /\ \A v \in Workers : v # w => (Busy(v)' <=> Busy(v))
  BY <1>2, <1>3 DEF Busy
<1>6. \A v \in Workers : v # w /\ Busy(v) => worker[v].entry # e
  BY DEF Assigned
<1>7. \A i \in DOMAIN queue : queue[i] \in 1 .. Len(songs) /\ queue[i] # e
  BY DEF Assigned
<1>8. \A i \in DOMAIN queue : result'[queue[i]] = "pending"
  BY <1>4, <1>7 DEF Assigned
<1>9. \A v \in Workers : ~Busy(v)' => worker'[v] = Idle
  BY <1>3, <1>5 DEF Assigned
<1>10. \A v \in Workers : Busy(v)' =>
         /\ worker'[v].entry \in 1 .. Len(songs)
         /\ result'[worker'[v].entry] = "pending"
         /\ \A i \in DOMAIN queue : queue[i] # worker'[v].entry
  <2>1. SUFFICES ASSUME NEW v \in Workers, Busy(v)'
                 PROVE /\ worker'[v].entry \in 1 .. Len(songs)
                       /\ result'[worker'[v].entry] = "pending"
                       /\ \A i \in DOMAIN queue : queue[i] # worker'[v].entry
    OBVIOUS
  <2>2. v # w /\ Busy(v) /\ worker'[v] = worker[v]
    BY <2>1, <1>3, <1>5
  <2>3. /\ worker[v].entry \in 1 .. Len(songs)
        /\ result[worker[v].entry] = "pending"
        /\ \A i \in DOMAIN queue : queue[i] # worker[v].entry
    BY <2>2 DEF Assigned
  <2> QED
    BY <2>2, <2>3, <1>4, <1>6
<1>11. \A u, v \in Workers : u # v /\ Busy(u)' /\ Busy(v)' => worker'[u].entry # worker'[v].entry
  BY <1>3, <1>5 DEF Assigned
<1> HIDE DEF e
<1> QED
  BY <1>3, <1>4, <1>8, <1>9, <1>10, <1>11 DEF Assigned

\* An idle thread takes an entry that waits.
LEMMA TakeAssigned ==
  ASSUME Assigned, NEW w \in Workers, Take(w)
  PROVE Assigned'
<1> DEFINE e == Head(queue)
<1>1. /\ worker[w] = Idle /\ queue # <<>> /\ queue' = Tail(queue)
      /\ worker' = [worker EXCEPT ![w] = [entry |-> e, step |-> "check", doc |-> None]]
      /\ UNCHANGED <<songs, result, collected>>
  BY DEF Take
<1>2. ~Busy(w)
  BY <1>1 DEF Busy, Idle
<1>3. 1 \in DOMAIN queue /\ e = queue[1] /\ e \in 1 .. Len(songs) /\ result[e] = "pending"
  BY <1>1 DEF Assigned
<1>4. /\ queue' \in Seq(1 .. Len(songs))
      /\ \A i \in DOMAIN queue' : i + 1 \in DOMAIN queue /\ queue'[i] = queue[i + 1]
  <2>1. queue \in Seq(1 .. Len(songs)) /\ queue # <<>>
    BY <1>1 DEF Assigned
  <2>2. /\ Tail(queue) \in Seq(1 .. Len(songs)) /\ Len(Tail(queue)) = Len(queue) - 1
        /\ \A i \in 1 .. Len(Tail(queue)) : Tail(queue)[i] = queue[i + 1]
    BY <2>1
  <2>3. \A i \in DOMAIN Tail(queue) : i + 1 \in DOMAIN queue
    BY <2>1, <2>2
  <2> QED
    BY <1>1, <2>2, <2>3
<1>5. \A i \in DOMAIN queue' : i \in Nat /\ i # 0 /\ i + 1 # 1
  BY <1>4
<1>6. \A i \in DOMAIN queue' : queue'[i] # e /\ result[queue'[i]] = "pending"
  BY <1>3, <1>4, <1>5 DEF Assigned
<1>7. \A i, j \in DOMAIN queue' : queue'[i] = queue'[j] => i = j
  BY <1>4, <1>5 DEF Assigned
<1>8. /\ worker' \in [Workers -> [entry : Nat, step : StepNames, doc : Content]]
      /\ \A v \in Workers : v # w => worker'[v] = worker[v]
      /\ worker'[w].entry = e /\ worker'[w].step = "check"
  BY <1>1, <1>3 DEF Assigned, StepNames, Content
<1> HIDE DEF e
<1>9. Busy(w)' /\ \A v \in Workers : v # w => (Busy(v)' <=> Busy(v))
  BY <1>8 DEF Busy
<1>10. \A v \in Workers : v # w /\ Busy(v) => worker[v].entry # e
  BY <1>3 DEF Assigned
<1>11. \A v \in Workers : ~Busy(v)' => worker'[v] = Idle
  BY <1>8, <1>9 DEF Assigned
<1>12. \A v \in Workers : Busy(v)' =>
         /\ worker'[v].entry \in 1 .. Len(songs)
         /\ result[worker'[v].entry] = "pending"
         /\ \A i \in DOMAIN queue' : queue'[i] # worker'[v].entry
  <2>1. SUFFICES ASSUME NEW v \in Workers, v # w, Busy(v)
                 PROVE /\ worker[v].entry \in 1 .. Len(songs)
                       /\ result[worker[v].entry] = "pending"
                       /\ \A i \in DOMAIN queue' : queue'[i] # worker[v].entry
    BY <1>3, <1>6, <1>8, <1>9
  <2> QED
    BY <2>1, <1>4 DEF Assigned
<1>13. \A u, v \in Workers : u # v /\ Busy(u)' /\ Busy(v)' => worker'[u].entry # worker'[v].entry
  BY <1>8, <1>9, <1>10 DEF Assigned
<1> QED
  BY <1>1, <1>4, <1>6, <1>7, <1>8, <1>11, <1>12, <1>13 DEF Assigned

-----------------------------------------------------------------------------
\* What another entry with the same id may write, if given are their sources.
Suits(given, field, value) ==
  \/ /\ field \in {"source", "notes", "stems", "audio"}
     /\ value \in Content /\ (None \notin given => value \in given)
  \/ /\ field = "pack" /\ value \in PackFile
     /\ None \notin given => {value.notes, value.stems} \subseteq given
  \/ field = "catalog" /\ value \in PackFile \cup {None}

\* A disk keeps its type.
LEMMA StoreType ==
  ASSUME NEW disk \in Disks, NEW given, NEW field, NEW value, Suits(given, field, value)
  PROVE [disk EXCEPT ![field] = value] \in Disks
  BY DEF Disks, Suits

\* No entry loses, by what another one writes, anything that Made says of it.
LEMMA StoreKeepsMade ==
  ASSUME NEW m, NEW disks \in [Ids -> Disks], NEW i \in 1 .. Len(m), NEW j \in 1 .. Len(m), i # j,
         m[i].id \in Ids, m[j].id \in Ids, NEW field, NEW value, Suits(Given(m, i), field, value),
         NEW step, NEW doc, Made(m, disks[m[j].id], j, step, doc)
  PROVE Made(m, [disks EXCEPT ![m[i].id][field] = value][m[j].id], j, step, doc)
<1>1. CASE m[i].id # m[j].id
  BY <1>1
<1>2. CASE m[i].id = m[j].id
  <2> DEFINE old == disks[m[j].id]
             new == [old EXCEPT ![field] = value]
  <2>1. [disks EXCEPT ![m[i].id][field] = value][m[j].id] = new
    BY <1>2
  <2>2. ~Unique(m, j)
    BY <1>2 DEF Unique
  <2>3. Given(m, i) = Given(m, j)
    BY <1>2 DEF Given
  <2>4. old \in Disks /\ Made(m, old, j, step, doc)
    OBVIOUS
  <2>5. None \notin PackFile
    BY BatchAssumption DEF PackFile, Content
  <2> HIDE DEF old
  <2>6. step \in AtPublish => new.pack # None
    <3>1. step \in AtPublish => old.pack # None
      BY <2>4 DEF Made
    <3>2. new.pack = IF field = "pack" THEN value ELSE old.pack
      BY <2>4 DEF Disks
    <3> QED
      BY <3>1, <3>2, <2>5 DEF Suits
  <2>7. None \notin Given(m, j) => MadeTogether(Given(m, j), new, step, doc)
    <3>1. SUFFICES ASSUME None \notin Given(m, j) PROVE MadeTogether(Given(m, j), new, step, doc)
      OBVIOUS
    <3>2. MadeTogether(Given(m, j), old, step, doc)
      BY <2>4, <3>1 DEF Made
    <3>3. CASE field \in {"source", "notes", "stems", "audio"}
      <4>1. value \in Given(m, j) /\ new.pack = old.pack
        BY <2>3, <2>4, <3>1, <3>3 DEF Suits, Disks
      <4>2. /\ new.source \in {old.source, value} /\ new.notes \in {old.notes, value}
            /\ new.stems \in {old.stems, value} /\ new.audio \in {old.audio, value}
        BY <2>4, <3>3 DEF Disks
      <4> QED
        BY <3>2, <4>1, <4>2 DEF MadeTogether
    <3>4. CASE field \in {"pack", "catalog"}
      <4>1. /\ new.source = old.source /\ new.notes = old.notes
            /\ new.stems = old.stems /\ new.audio = old.audio
        BY <2>4, <3>4 DEF Disks
      <4>2. \/ new.pack = old.pack
            \/ new.pack = value /\ {value.notes, value.stems} \subseteq Given(m, j)
        BY <2>3, <2>4, <3>1, <3>4 DEF Suits, Disks
      <4> QED
        BY <3>2, <4>1, <4>2 DEF MadeTogether
    <3> QED
      BY <3>3, <3>4 DEF Suits
  <2> QED
    BY <2>1, <2>2, <2>6, <2>7 DEF Made
<1> QED
  BY <1>1, <1>2

\* What is left to show of a step of thread w: what it says of its own entry.
LEMMA StepInv ==
  ASSUME BatchInv, Assigned', songs' = songs,
         NEW w \in Workers, NEW e \in 1 .. Len(songs),
         \A v \in Workers : v # w /\ Busy(v) => worker[v].entry # e,
         \A v \in Workers : v # w => worker'[v] = worker[v],
         \A i \in 1 .. Len(songs) : i # e => result'[i] = result[i],
         \/ files' = files
         \/ \E field, value : /\ Suits(Given(songs, e), field, value)
                              /\ files' = [files EXCEPT ![songs[e].id][field] = value],
         worker'[w].step # "idle" =>
           /\ worker'[w].entry = e
           /\ Made(songs, files'[songs[e].id], e, worker'[w].step, worker'[w].doc)
           /\ worker'[w].step = "publish" => songs[e].publish,
         result'[e] = "OK" => Made(songs, files'[songs[e].id], e, "OK", None)
  PROVE BatchInv'
<1>1. \A i \in 1 .. Len(songs) : songs[i].id \in Ids
  <2>1. songs \in Seq(Entry)
    BY DEF BatchInv, Assigned
  <2>2. \A i \in 1 .. Len(songs) : songs[i] \in Entry
    BY <2>1
  <2> QED
    BY <2>2 DEF Entry
<1>2. files \in [Ids -> Disks]
  BY DEF BatchInv, FilesOK
<1>3. FilesOK'
  <2>1. CASE files' = files
    BY <1>2, <2>1 DEF FilesOK
  <2>2. CASE \E field, value : /\ Suits(Given(songs, e), field, value)
                               /\ files' = [files EXCEPT ![songs[e].id][field] = value]
    <3>1. PICK field, value : /\ Suits(Given(songs, e), field, value)
                              /\ files' = [files EXCEPT ![songs[e].id][field] = value]
      BY <2>2
    <3>2. [files[songs[e].id] EXCEPT ![field] = value] \in Disks
      BY <1>1, <1>2, <3>1, StoreType
    <3> QED
      BY <1>2, <3>1, <3>2 DEF FilesOK
  <2> QED
    BY <2>1, <2>2
<1>4. ASSUME NEW j \in 1 .. Len(songs), j # e, NEW step, NEW doc,
             Made(songs, files[songs[j].id], j, step, doc)
      PROVE Made(songs, files'[songs[j].id], j, step, doc)
  <2>1. CASE files' = files
    BY <1>4, <2>1
  <2>2. CASE \E field, value : /\ Suits(Given(songs, e), field, value)
                               /\ files' = [files EXCEPT ![songs[e].id][field] = value]
    <3>1. PICK field, value : /\ Suits(Given(songs, e), field, value)
                              /\ files' = [files EXCEPT ![songs[e].id][field] = value]
      BY <2>2
    <3> QED
      BY <1>1, <1>2, <1>4, <3>1, StoreKeepsMade
  <2> QED
    BY <2>1, <2>2
<1>5. ASSUME NEW v \in Workers, worker'[v].step # "idle"
      PROVE /\ Made(songs, files'[songs[worker'[v].entry].id], worker'[v].entry,
                    worker'[v].step, worker'[v].doc)
            /\ worker'[v].step = "publish" => songs[worker'[v].entry].publish
  <2>1. CASE v = w
    BY <1>5, <2>1
  <2>2. CASE v # w
    <3>1. worker'[v] = worker[v] /\ Busy(v)
      BY <1>5, <2>2 DEF Busy
    <3>2. worker[v].entry \in 1 .. Len(songs) /\ worker[v].entry # e
      BY <2>2, <3>1 DEF BatchInv, Assigned
    <3>3. /\ Made(songs, files[songs[worker[v].entry].id], worker[v].entry,
                  worker[v].step, worker[v].doc)
          /\ worker[v].step = "publish" => songs[worker[v].entry].publish
      BY <3>1 DEF BatchInv, Progress, DiskOf
    <3> QED
      BY <1>4, <3>1, <3>2, <3>3
  <2> QED
    BY <2>1, <2>2
<1>6. ASSUME NEW i \in 1 .. Len(songs), result'[i] = "OK"
      PROVE Made(songs, files'[songs[i].id], i, "OK", None)
  <2>1. CASE i = e
    BY <1>6, <2>1
  <2>2. CASE i # e
    <3>1. Made(songs, files[songs[i].id], i, "OK", None)
      BY <1>6, <2>2 DEF BatchInv, Progress, DiskOf
    <3> QED
      BY <1>4, <2>2, <3>1
  <2> QED
    BY <2>1, <2>2
<1>7. Progress'
  BY <1>5, <1>6 DEF Progress, DiskOf, Busy
<1> QED
  BY <1>3, <1>7 DEF BatchInv

\* What is known of the entry that a thread is at.
LEMMA OwnEntry ==
  ASSUME BatchInv, NEW w \in Workers, Busy(w)
  PROVE LET e == worker[w].entry IN
        /\ e \in 1 .. Len(songs) /\ songs[e] \in Entry /\ songs[e].id \in Ids
        /\ DiskOf(e) \in Disks /\ result[e] = "pending"
        /\ \A v \in Workers : v # w /\ Busy(v) => worker[v].entry # e
        /\ Made(songs, DiskOf(e), e, worker[w].step, worker[w].doc)
        /\ worker[w].step = "publish" => songs[e].publish
<1> DEFINE e == worker[w].entry
<1>1. /\ e \in 1 .. Len(songs) /\ result[e] = "pending"
      /\ \A v \in Workers : v # w /\ Busy(v) => worker[v].entry # e
  BY DEF BatchInv, Assigned
<1>2. songs[e] \in Entry
  <2>1. songs \in Seq(Entry)
    BY DEF BatchInv, Assigned
  <2> QED
    BY <1>1, <2>1
<1>3. songs[e].id \in Ids
  BY <1>2 DEF Entry
<1>4. DiskOf(e) \in Disks
  BY <1>3 DEF BatchInv, FilesOK, DiskOf
<1>5. /\ Made(songs, DiskOf(e), e, worker[w].step, worker[w].doc)
      /\ worker[w].step = "publish" => songs[e].publish
  BY DEF BatchInv, Progress
<1> QED
  BY <1>1, <1>2, <1>3, <1>4, <1>5

\* What thread w may do to the disks: nothing, or write what Suits its entry.
Writes(w) ==
  \/ files' = files
  \/ \E field, value : /\ Suits(Given(songs, worker[w].entry), field, value)
                       /\ files' = [files EXCEPT ![songs[worker[w].entry].id][field] = value]

\* A thread goes on to a step that what is on the disk now allows.
LEMMA GoOnInv ==
  ASSUME BatchInv, NEW w \in Workers, Busy(w), NEW s \in StepNames \ {"idle"}, NEW d \in Content,
         worker' = [worker EXCEPT ![w] = [entry |-> worker[w].entry, step |-> s, doc |-> d]],
         songs' = songs, queue' = queue, result' = result, collected' = collected, Writes(w),
         Made(songs, files'[songs[worker[w].entry].id], worker[w].entry, s, d),
         s = "publish" => songs[worker[w].entry].publish
  PROVE BatchInv'
<1> DEFINE e == worker[w].entry
<1>1. Assigned'
  BY GoOnAssigned DEF BatchInv
<1>2. /\ e \in 1 .. Len(songs) /\ result[e] = "pending"
      /\ \A v \in Workers : v # w /\ Busy(v) => worker[v].entry # e
  BY OwnEntry
<1>3. /\ \A v \in Workers : v # w => worker'[v] = worker[v]
      /\ worker'[w].entry = e /\ worker'[w].step = s /\ worker'[w].doc = d
  BY DEF BatchInv, Assigned
<1>4. /\ songs' = songs
      /\ \A i \in 1 .. Len(songs) : i # e => result'[i] = result[i]
      /\ result'[e] # "OK"
  BY <1>2
<1>5. \/ files' = files
      \/ \E field, value : /\ Suits(Given(songs, e), field, value)
                           /\ files' = [files EXCEPT ![songs[e].id][field] = value]
  BY DEF Writes
<1>6. worker'[w].step # "idle" =>
        /\ worker'[w].entry = e
        /\ Made(songs, files'[songs[e].id], e, worker'[w].step, worker'[w].doc)
        /\ worker'[w].step = "publish" => songs[e].publish
  BY <1>3
<1> HIDE DEF e
<1> QED
  BY <1>1, <1>2, <1>3, <1>4, <1>5, <1>6, StepInv

\* A thread is done: if with OK, then what is on the disk now is what OK means.
LEMMA FinishInv ==
  ASSUME BatchInv, NEW w \in Workers, Busy(w), NEW o \in Outcomes, Finish(w, o),
         songs' = songs, queue' = queue, collected' = collected, Writes(w),
         o = "OK" => Made(songs, files'[songs[worker[w].entry].id], worker[w].entry, "OK", None)
  PROVE BatchInv'
<1> DEFINE e == worker[w].entry
<1>1. Assigned'
  BY FinishAssigned DEF BatchInv
<1>2. /\ e \in 1 .. Len(songs)
      /\ \A v \in Workers : v # w /\ Busy(v) => worker[v].entry # e
  BY OwnEntry
<1>3. /\ \A v \in Workers : v # w => worker'[v] = worker[v]
      /\ worker'[w].step = "idle"
  BY DEF BatchInv, Assigned, Finish, Idle
<1>4. /\ songs' = songs
      /\ \A i \in 1 .. Len(songs) : i # e => result'[i] = result[i]
      /\ result'[e] = o
  BY <1>2 DEF Finish, BatchInv, Assigned
<1>5. \/ files' = files
      \/ \E field, value : /\ Suits(Given(songs, e), field, value)
                           /\ files' = [files EXCEPT ![songs[e].id][field] = value]
  BY DEF Writes
<1>6. result'[e] = "OK" => Made(songs, files'[songs[e].id], e, "OK", None)
  BY <1>4
<1> HIDE DEF e
<1> QED
  BY <1>1, <1>2, <1>3, <1>4, <1>5, <1>6, StepInv

-----------------------------------------------------------------------------
\* What each step of build_one finds on the disk, and what it makes of it.

\* Ingesting the source of the entry.
LEMMA SourceMade ==
  ASSUME NEW m, NEW i \in 1 .. Len(m), m[i] \in Entry, NEW disk \in Disks, NEW doc \in Content
  PROVE /\ Suits(Given(m, i), "source", m[i].source)
        /\ Made(m, [disk EXCEPT !["source"] = m[i].source], i, "notes", doc)
<1> DEFINE new == [disk EXCEPT !["source"] = m[i].source]
<1>1. new.source = m[i].source /\ new.notes = disk.notes /\ new.stems = disk.stems /\ new.audio = disk.audio /\ new.pack = disk.pack /\ new.catalog = disk.catalog
  BY DEF Disks
<1>2. m[i].source \in Content
  BY DEF Disks, Entry, Content
<1>3. None \notin Given(m, i) => m[i].source \in Given(m, i)
  BY DEF Given
<1>4. Suits(Given(m, i), "source", m[i].source)
  BY <1>2, <1>3 DEF Suits
<1> HIDE DEF new
<1>5. Unique(m, i) => MadeAlone(m, new, i, "notes", doc)
  BY <1>1 DEF Made, MadeAlone, AtNotes, AtStems, AtAudio, AtPack, AtPublish
<1>6. None \notin Given(m, i) => MadeTogether(Given(m, i), new, "notes", doc)
  BY <1>1, <1>3 DEF Made, MadeTogether, AtNotes, AtStems, AtAudio, AtPack, AtPublish
<1>7. Made(m, new, i, "notes", doc)
  BY <1>5, <1>6 DEF Made, AtPublish
<1> QED
  BY <1>4, <1>7 DEF new

\* Building the notes of what is the source by now.
LEMMA NotesMade ==
  ASSUME NEW m, NEW i \in 1 .. Len(m), m[i] \in Entry, NEW disk \in Disks, NEW doc \in Content, Made(m, disk, i, "notes", doc)
  PROVE /\ Suits(Given(m, i), "notes", disk.source)
        /\ Made(m, [disk EXCEPT !["notes"] = disk.source], i, "stems", doc)
<1> DEFINE new == [disk EXCEPT !["notes"] = disk.source]
<1>1. new.notes = disk.source /\ new.source = disk.source /\ new.stems = disk.stems /\ new.audio = disk.audio /\ new.pack = disk.pack /\ new.catalog = disk.catalog
  BY DEF Disks
<1>2. disk.source \in Content
  BY DEF Disks, Entry, Content
<1>3. None \notin Given(m, i) => disk.source \in Given(m, i)
  BY DEF Given, Made, MadeTogether, AtNotes, AtStems, AtAudio, AtPack, AtPublish
<1>4. Suits(Given(m, i), "notes", disk.source)
  BY <1>2, <1>3 DEF Suits
<1> HIDE DEF new
<1>5. Unique(m, i) => MadeAlone(m, new, i, "stems", doc)
  BY <1>1 DEF Made, MadeAlone, AtNotes, AtStems, AtAudio, AtPack, AtPublish
<1>6. None \notin Given(m, i) => MadeTogether(Given(m, i), new, "stems", doc)
  BY <1>1, <1>3 DEF Made, MadeTogether, AtNotes, AtStems, AtAudio, AtPack, AtPublish
<1>7. Made(m, new, i, "stems", doc)
  BY <1>5, <1>6 DEF Made, AtPublish
<1> QED
  BY <1>4, <1>7 DEF new

\* Rendering the notes that are there.
LEMMA StemsMade ==
  ASSUME NEW m, NEW i \in 1 .. Len(m), m[i] \in Entry, NEW disk \in Disks, NEW doc \in Content, Made(m, disk, i, "stems", doc)
  PROVE /\ Suits(Given(m, i), "stems", disk.notes)
        /\ Made(m, [disk EXCEPT !["stems"] = disk.notes], i, "audio", disk.notes)
<1> DEFINE new == [disk EXCEPT !["stems"] = disk.notes]
<1>1. new.stems = disk.notes /\ new.source = disk.source /\ new.notes = disk.notes /\ new.audio = disk.audio /\ new.pack = disk.pack /\ new.catalog = disk.catalog
  BY DEF Disks
<1>2. disk.notes \in Content
  BY DEF Disks, Entry, Content
<1>3. None \notin Given(m, i) => disk.notes \in Given(m, i)
  BY DEF Given, Made, MadeTogether, AtNotes, AtStems, AtAudio, AtPack, AtPublish
<1>4. Suits(Given(m, i), "stems", disk.notes)
  BY <1>2, <1>3 DEF Suits
<1> HIDE DEF new
<1>5. Unique(m, i) => MadeAlone(m, new, i, "audio", disk.notes)
  BY <1>1 DEF Made, MadeAlone, AtNotes, AtStems, AtAudio, AtPack, AtPublish
<1>6. None \notin Given(m, i) => MadeTogether(Given(m, i), new, "audio", disk.notes)
  BY <1>1, <1>3 DEF Made, MadeTogether, AtNotes, AtStems, AtAudio, AtPack, AtPublish
<1>7. Made(m, new, i, "audio", disk.notes)
  BY <1>5, <1>6 DEF Made, AtPublish
<1> QED
  BY <1>4, <1>7 DEF new

\* Storing the document that the stems were rendered from.
LEMMA AudioMade ==
  ASSUME NEW m, NEW i \in 1 .. Len(m), m[i] \in Entry, NEW disk \in Disks, NEW doc \in Content, Made(m, disk, i, "audio", doc)
  PROVE /\ Suits(Given(m, i), "audio", doc)
        /\ Made(m, [disk EXCEPT !["audio"] = doc], i, "pack", doc)
<1> DEFINE new == [disk EXCEPT !["audio"] = doc]
<1>1. new.audio = doc /\ new.source = disk.source /\ new.notes = disk.notes /\ new.stems = disk.stems /\ new.pack = disk.pack /\ new.catalog = disk.catalog
  BY DEF Disks
<1>2. doc \in Content
  BY DEF Disks, Entry, Content
<1>3. None \notin Given(m, i) => doc \in Given(m, i)
  BY DEF Given, Made, MadeTogether, AtNotes, AtStems, AtAudio, AtPack, AtPublish
<1>4. Suits(Given(m, i), "audio", doc)
  BY <1>2, <1>3 DEF Suits
<1> HIDE DEF new
<1>5. Unique(m, i) => MadeAlone(m, new, i, "pack", doc)
  BY <1>1 DEF Made, MadeAlone, AtNotes, AtStems, AtAudio, AtPack, AtPublish
<1>6. None \notin Given(m, i) => MadeTogether(Given(m, i), new, "pack", doc)
  BY <1>1, <1>3 DEF Made, MadeTogether, AtNotes, AtStems, AtAudio, AtPack, AtPublish
<1>7. Made(m, new, i, "pack", doc)
  BY <1>5, <1>6 DEF Made, AtPublish
<1> QED
  BY <1>4, <1>7 DEF new

\* Packing the stored document with the stems that are there.
LEMMA PackMade ==
  ASSUME NEW m, NEW i \in 1 .. Len(m), NEW disk \in Disks, NEW doc \in Content,
         Made(m, disk, i, "pack", doc)
  PROVE LET new == [disk EXCEPT !["pack"] = PackOf(disk.audio, disk.stems)] IN
        /\ Suits(Given(m, i), "pack", PackOf(disk.audio, disk.stems))
        /\ Made(m, new, i, "publish", doc)
        /\ ~m[i].publish => Made(m, new, i, "OK", None)
<1> DEFINE packed == PackOf(disk.audio, disk.stems)
           new == [disk EXCEPT !["pack"] = packed]
<1>1. /\ new.pack = packed /\ new.source = disk.source /\ new.notes = disk.notes
      /\ new.stems = disk.stems /\ new.audio = disk.audio
  BY DEF Disks
<1>2. packed \in PackFile /\ packed.notes = disk.audio /\ packed.stems = disk.stems
  BY DEF PackOf, PackFile, Disks
<1>3. packed # None
  BY <1>2, BatchAssumption DEF PackFile, PackOf, Content, Disks
<1>4. None \notin Given(m, i) => {packed.notes, packed.stems} \subseteq Given(m, i)
  BY <1>2 DEF Made, MadeTogether, AtAudio, AtPack
<1>5. Suits(Given(m, i), "pack", packed)
  BY <1>2, <1>4 DEF Suits
<1>6. Unique(m, i) => packed = PackOf(disk.source, disk.source)
  BY DEF Made, MadeAlone, AtAudio, AtPack
<1> HIDE DEF new, packed
<1>7. ASSUME NEW step \in {"publish", "OK"}, NEW last, step = "OK" => ~m[i].publish
      PROVE Made(m, new, i, step, last)
  <2>1. Unique(m, i) => MadeAlone(m, new, i, step, last)
    BY <1>1, <1>6, <1>7 DEF Made, MadeAlone, AtNotes, AtStems, AtAudio, AtPack, AtPublish
  <2>2. None \notin Given(m, i) => MadeTogether(Given(m, i), new, step, last)
    BY <1>1, <1>4, <1>7 DEF Made, MadeTogether, AtNotes, AtStems, AtAudio, AtPack, AtPublish
  <2> QED
    BY <1>1, <1>3, <2>1, <2>2 DEF Made
<1> QED
  BY <1>5, <1>7 DEF new, packed

\* Publishing the pack that is there.
LEMMA CatalogMade ==
  ASSUME NEW m, NEW i \in 1 .. Len(m), NEW disk \in Disks, NEW doc,
         Made(m, disk, i, "publish", doc)
  PROVE /\ Suits(Given(m, i), "catalog", disk.pack)
        /\ Made(m, [disk EXCEPT !["catalog"] = disk.pack], i, "OK", None)
<1> DEFINE new == [disk EXCEPT !["catalog"] = disk.pack]
<1>1. /\ new.catalog = disk.pack /\ new.source = disk.source /\ new.notes = disk.notes
      /\ new.stems = disk.stems /\ new.audio = disk.audio /\ new.pack = disk.pack
  BY DEF Disks
<1>2. Suits(Given(m, i), "catalog", disk.pack)
  BY DEF Suits, Disks
<1> HIDE DEF new
<1>3. Unique(m, i) => MadeAlone(m, new, i, "OK", None)
  BY <1>1 DEF Made, MadeAlone, AtNotes, AtStems, AtAudio, AtPack, AtPublish
<1>4. None \notin Given(m, i) => MadeTogether(Given(m, i), new, "OK", None)
  BY <1>1 DEF Made, MadeTogether, AtNotes, AtStems, AtAudio, AtPack, AtPublish
<1>5. Made(m, new, i, "OK", None)
  BY <1>1, <1>3, <1>4 DEF Made, AtPublish
<1> QED
  BY <1>2, <1>5 DEF new

-----------------------------------------------------------------------------
\* What Store and GoTo do to the entry of the thread.
LEMMA Stored ==
  ASSUME BatchInv, NEW w \in Workers, Busy(w), NEW field, NEW value, Store(w, field, value),
         Suits(Given(songs, worker[w].entry), field, value)
  PROVE /\ Writes(w)
        /\ files'[songs[worker[w].entry].id] = [DiskOf(worker[w].entry) EXCEPT ![field] = value]
<1>1. files' = [files EXCEPT ![songs[worker[w].entry].id][field] = value]
  BY DEF Store, Song
<1>2. songs[worker[w].entry].id \in Ids /\ files \in [Ids -> Disks]
  BY OwnEntry DEF BatchInv, FilesOK
<1> QED
  BY <1>1, <1>2 DEF Writes, DiskOf

\* GoTo moves the step of the thread and keeps its entry and its document.
LEMMA WentTo ==
  ASSUME Assigned, NEW w \in Workers, NEW s, GoTo(w, s)
  PROVE /\ worker' = [worker EXCEPT ![w] = [entry |-> worker[w].entry, step |-> s,
                                            doc |-> worker[w].doc]]
        /\ result' = result
<1>1. worker[w] \in [entry : Nat, step : StepNames, doc : Content] /\ w \in DOMAIN worker
  BY DEF Assigned
<1>2. [worker[w] EXCEPT !.step = s] = [entry |-> worker[w].entry, step |-> s, doc |-> worker[w].doc]
  BY <1>1
<1> QED
  BY <1>1, <1>2 DEF GoTo

\* Of an entry whose source is not yet read nothing is claimed.
LEMMA NothingMade ==
  ASSUME NEW m, NEW disk, NEW i, NEW step \in {"check", "ingest"}, NEW doc
  PROVE Made(m, disk, i, step, doc)
  BY DEF Made, MadeAlone, MadeTogether, AtNotes, AtStems, AtAudio, AtPack, AtPublish

\* A thread takes an entry.
LEMMA TakeInv ==
  ASSUME BatchInv, NEW w \in Workers, Take(w)
  PROVE BatchInv'
<1> DEFINE e == Head(queue)
<1>1. Assigned'
  BY TakeAssigned DEF BatchInv
<1>2. 1 \in DOMAIN queue /\ e = queue[1] /\ e \in 1 .. Len(songs) /\ result[e] = "pending"
  BY DEF BatchInv, Assigned, Take
<1>3. /\ songs' = songs /\ files' = files /\ result' = result
      /\ worker' = [worker EXCEPT ![w] = [entry |-> e, step |-> "check", doc |-> None]]
  BY DEF Take
<1> HIDE DEF e
<1>4. \A v \in Workers : v # w /\ Busy(v) => worker[v].entry # e
  BY <1>2 DEF BatchInv, Assigned
<1>5. /\ worker'[w].entry = e /\ worker'[w].step = "check" /\ worker'[w].doc = None
      /\ \A v \in Workers : v # w => worker'[v] = worker[v]
  BY <1>3 DEF BatchInv, Assigned
<1>6. Made(songs, files'[songs[e].id], e, worker'[w].step, worker'[w].doc)
  BY <1>5, NothingMade
<1> QED
  BY <1>1, <1>2, <1>3, <1>4, <1>5, <1>6, StepInv

\* The id is refused, or the entry has nothing to work on, or it goes to its first step.
LEMMA CheckIdInv ==
  ASSUME BatchInv, NEW w \in Workers, CheckId(w)
  PROVE BatchInv'
<1> DEFINE e == worker[w].entry
<1>1. /\ worker[w].step = "check" /\ Busy(w) /\ files' = files
      /\ songs' = songs /\ queue' = queue /\ collected' = collected
  BY DEF CheckId, Busy
<1>2. Writes(w) /\ worker[w].doc \in Content /\ e \in 1 .. Len(songs)
  BY <1>1, OwnEntry DEF Writes, BatchInv, Assigned
<1>3. \/ \E o \in {"raised", "FAILED"} : Finish(w, o)
      \/ GoTo(w, "ingest")
      \/ songs[e].source = None /\ GoTo(w, "notes")
  BY DEF CheckId, Song
<1>4. CASE \E o \in {"raised", "FAILED"} : Finish(w, o)
  BY <1>1, <1>2, <1>4, FinishInv DEF Outcomes
<1>5. CASE GoTo(w, "ingest")
  <2>1. /\ worker' = [worker EXCEPT ![w] = [entry |-> e, step |-> "ingest", doc |-> worker[w].doc]]
        /\ result' = result
    BY <1>5, WentTo DEF BatchInv
  <2>2. Made(songs, files'[songs[e].id], e, "ingest", worker[w].doc)
    BY NothingMade
  <2>3. "ingest" \in StepNames \ {"idle"} /\ "ingest" # "publish"
    BY DEF StepNames
  <2> QED
    BY <1>1, <1>2, <2>1, <2>2, <2>3, GoOnInv
<1>6. CASE songs[e].source = None /\ GoTo(w, "notes")
  <2>1. /\ worker' = [worker EXCEPT ![w] = [entry |-> e, step |-> "notes", doc |-> worker[w].doc]]
        /\ result' = result
    BY <1>6, WentTo DEF BatchInv
  <2>2. None \in Given(songs, e)
    BY <1>2, <1>6 DEF Given
  <2>3. Made(songs, files'[songs[e].id], e, "notes", worker[w].doc)
    BY <1>6, <2>2 DEF Made, MadeAlone, AtNotes, AtStems, AtAudio, AtPack, AtPublish
  <2>4. "notes" \in StepNames \ {"idle"} /\ "notes" # "publish"
    BY DEF StepNames
  <2> QED
    BY <1>1, <1>2, <2>1, <2>3, <2>4, GoOnInv
<1> QED
  BY <1>3, <1>4, <1>5, <1>6

\* The source is on the disk.
LEMMA IngestSongInv ==
  ASSUME BatchInv, NEW w \in Workers, IngestSong(w)
  PROVE BatchInv'
<1> DEFINE e == worker[w].entry
           disk == DiskOf(e)
<1>1. /\ worker[w].step = "ingest" /\ Busy(w)
      /\ songs' = songs /\ queue' = queue /\ collected' = collected
  BY DEF IngestSong, AtStep, Busy
<1>2. /\ e \in 1 .. Len(songs) /\ songs[e] \in Entry /\ disk \in Disks
      /\ Made(songs, disk, e, "ingest", worker[w].doc)
  BY <1>1, OwnEntry
<1>3. worker[w].doc \in Content
  BY DEF BatchInv, Assigned
<1>4. Store(w, "source", songs[e].source)
  BY <1>1 DEF IngestSong, Subject, Song, Disk, DiskOf
<1> HIDE DEF disk
<1>5. /\ Suits(Given(songs, e), "source", songs[e].source)
      /\ Made(songs, [disk EXCEPT !["source"] = songs[e].source], e, "notes", worker[w].doc)
  BY <1>2, <1>3, SourceMade
<1>6. Writes(w) /\ files'[songs[e].id] = [disk EXCEPT !["source"] = songs[e].source]
  BY <1>1, <1>4, <1>5, Stored DEF disk
<1>7. /\ worker' = [worker EXCEPT ![w] = [entry |-> e, step |-> "notes", doc |-> worker[w].doc]]
      /\ result' = result
  BY <1>1, WentTo DEF IngestSong, BatchInv
<1>8. "notes" \in StepNames \ {"idle"} /\ "notes" # "publish"
  BY DEF StepNames
<1> QED
  BY <1>1, <1>3, <1>5, <1>6, <1>7, <1>8, GoOnInv

\* The notes are on the disk.
LEMMA BuildNotesInv ==
  ASSUME BatchInv, NEW w \in Workers, BuildNotes(w)
  PROVE BatchInv'
<1> DEFINE e == worker[w].entry
           disk == DiskOf(e)
<1>1. /\ worker[w].step = "notes" /\ Busy(w)
      /\ songs' = songs /\ queue' = queue /\ collected' = collected
  BY DEF BuildNotes, AtStep, Busy
<1>2. /\ e \in 1 .. Len(songs) /\ songs[e] \in Entry /\ disk \in Disks
      /\ Made(songs, disk, e, "notes", worker[w].doc)
  BY <1>1, OwnEntry
<1>3. worker[w].doc \in Content
  BY DEF BatchInv, Assigned
<1>4. Store(w, "notes", disk.source)
  BY <1>1 DEF BuildNotes, Subject, Song, Disk, DiskOf
<1> HIDE DEF disk
<1>5. /\ Suits(Given(songs, e), "notes", disk.source)
      /\ Made(songs, [disk EXCEPT !["notes"] = disk.source], e, "stems", worker[w].doc)
  BY <1>2, <1>3, NotesMade
<1>6. Writes(w) /\ files'[songs[e].id] = [disk EXCEPT !["notes"] = disk.source]
  BY <1>1, <1>4, <1>5, Stored DEF disk
<1>7. /\ worker' = [worker EXCEPT ![w] = [entry |-> e, step |-> "stems", doc |-> worker[w].doc]]
      /\ result' = result
  BY <1>1, WentTo DEF BuildNotes, BatchInv
<1>8. "stems" \in StepNames \ {"idle"} /\ "stems" # "publish"
  BY DEF StepNames
<1> QED
  BY <1>1, <1>3, <1>5, <1>6, <1>7, <1>8, GoOnInv

\* The stems are on the disk, and their document is in memory.
LEMMA RenderStemsInv ==
  ASSUME BatchInv, NEW w \in Workers, RenderStems(w)
  PROVE BatchInv'
<1> DEFINE e == worker[w].entry
           disk == DiskOf(e)
<1>1. /\ worker[w].step = "stems" /\ Busy(w)
      /\ songs' = songs /\ queue' = queue /\ collected' = collected
  BY DEF RenderStems, AtStep, Busy
<1>2. /\ e \in 1 .. Len(songs) /\ songs[e] \in Entry /\ disk \in Disks
      /\ Made(songs, disk, e, "stems", worker[w].doc)
  BY <1>1, OwnEntry
<1>3. worker[w].doc \in Content
  BY DEF BatchInv, Assigned
<1>4. Store(w, "stems", disk.notes)
  BY <1>1 DEF RenderStems, Subject, Song, Disk, DiskOf
<1> HIDE DEF disk
<1>5. /\ Suits(Given(songs, e), "stems", disk.notes)
      /\ Made(songs, [disk EXCEPT !["stems"] = disk.notes], e, "audio", disk.notes)
  BY <1>2, <1>3, StemsMade
<1>6. Writes(w) /\ files'[songs[e].id] = [disk EXCEPT !["stems"] = disk.notes]
  BY <1>1, <1>4, <1>5, Stored DEF disk
<1>7. /\ worker' = [worker EXCEPT ![w] = [entry |-> e, step |-> "audio", doc |-> disk.notes]]
      /\ result' = result
  BY <1>1 DEF RenderStems, Subject, Song, Disk, DiskOf, disk
<1>8. disk.notes \in Content
  BY <1>2 DEF Disks
<1>9. "audio" \in StepNames \ {"idle"} /\ "audio" # "publish"
  BY DEF StepNames
<1> QED
  BY <1>1, <1>5, <1>6, <1>7, <1>8, <1>9, GoOnInv

\* The document is on the disk.
LEMMA StoreAudioInv ==
  ASSUME BatchInv, NEW w \in Workers, StoreAudio(w)
  PROVE BatchInv'
<1> DEFINE e == worker[w].entry
           disk == DiskOf(e)
<1>1. /\ worker[w].step = "audio" /\ Busy(w)
      /\ songs' = songs /\ queue' = queue /\ collected' = collected
  BY DEF StoreAudio, AtStep, Busy
<1>2. /\ e \in 1 .. Len(songs) /\ songs[e] \in Entry /\ disk \in Disks
      /\ Made(songs, disk, e, "audio", worker[w].doc)
  BY <1>1, OwnEntry
<1>3. worker[w].doc \in Content
  BY DEF BatchInv, Assigned
<1>4. Store(w, "audio", worker[w].doc)
  BY <1>1 DEF StoreAudio, Subject, Song, Disk, DiskOf
<1> HIDE DEF disk
<1>5. /\ Suits(Given(songs, e), "audio", worker[w].doc)
      /\ Made(songs, [disk EXCEPT !["audio"] = worker[w].doc], e, "pack", worker[w].doc)
  BY <1>2, <1>3, AudioMade
<1>6. Writes(w) /\ files'[songs[e].id] = [disk EXCEPT !["audio"] = worker[w].doc]
  BY <1>1, <1>4, <1>5, Stored DEF disk
<1>7. /\ worker' = [worker EXCEPT ![w] = [entry |-> e, step |-> "pack", doc |-> worker[w].doc]]
      /\ result' = result
  BY <1>1, WentTo DEF StoreAudio, BatchInv
<1>8. "pack" \in StepNames \ {"idle"} /\ "pack" # "publish"
  BY DEF StepNames
<1> QED
  BY <1>1, <1>3, <1>5, <1>6, <1>7, <1>8, GoOnInv

\* The pack is on the disk, which ends the song unless it is to be published.
LEMMA PackSongInv ==
  ASSUME BatchInv, NEW w \in Workers, PackSong(w)
  PROVE BatchInv'
<1> DEFINE e == worker[w].entry
           disk == DiskOf(e)
           new == [disk EXCEPT !["pack"] = PackOf(disk.audio, disk.stems)]
<1>1. /\ worker[w].step = "pack" /\ Busy(w)
      /\ songs' = songs /\ queue' = queue /\ collected' = collected
  BY DEF PackSong, AtStep, Busy
<1>2. /\ e \in 1 .. Len(songs) /\ songs[e] \in Entry /\ disk \in Disks
      /\ Made(songs, disk, e, "pack", worker[w].doc)
  BY <1>1, OwnEntry
<1>3. worker[w].doc \in Content
  BY DEF BatchInv, Assigned
<1>4. Store(w, "pack", PackOf(disk.audio, disk.stems))
  BY DEF PackSong, Song, Disk, DiskOf
<1> HIDE DEF disk
<1>5. /\ Suits(Given(songs, e), "pack", PackOf(disk.audio, disk.stems))
      /\ Made(songs, new, e, "publish", worker[w].doc)
      /\ ~songs[e].publish => Made(songs, new, e, "OK", None)
  BY <1>2, <1>3, PackMade
<1>6. Writes(w) /\ files'[songs[e].id] = new
  BY <1>1, <1>4, <1>5, Stored DEF disk
<1> HIDE DEF new
<1>7. CASE songs[e].publish
  <2>1. GoTo(w, "publish")
    BY <1>7 DEF PackSong, Song
  <2>2. /\ worker' = [worker EXCEPT ![w] = [entry |-> e, step |-> "publish", doc |-> worker[w].doc]]
        /\ result' = result
    BY <2>1, WentTo DEF BatchInv
  <2>3. "publish" \in StepNames \ {"idle"}
    BY DEF StepNames
  <2> QED
    BY <1>1, <1>3, <1>5, <1>6, <1>7, <2>2, <2>3, GoOnInv
<1>8. CASE ~songs[e].publish
  <2>1. Finish(w, "OK")
    BY <1>8 DEF PackSong, Song
  <2>2. "OK" \in Outcomes
    BY DEF Outcomes
  <2> QED
    BY <1>1, <1>5, <1>6, <1>8, <2>1, <2>2, FinishInv
<1> QED
  BY <1>7, <1>8

\* The pack is in the catalog, which ends the song.
LEMMA PublishSongInv ==
  ASSUME BatchInv, NEW w \in Workers, PublishSong(w)
  PROVE BatchInv'
<1> DEFINE e == worker[w].entry
           disk == DiskOf(e)
<1>1. /\ worker[w].step = "publish" /\ Busy(w)
      /\ songs' = songs /\ queue' = queue /\ collected' = collected
  BY DEF PublishSong, AtStep, Busy
<1>2. /\ e \in 1 .. Len(songs) /\ songs[e] \in Entry /\ disk \in Disks
      /\ Made(songs, disk, e, "publish", worker[w].doc)
  BY <1>1, OwnEntry
<1>3. Store(w, "catalog", disk.pack) /\ Finish(w, "OK")
  BY DEF PublishSong, Song, Disk, DiskOf
<1> HIDE DEF disk
<1>4. /\ Suits(Given(songs, e), "catalog", disk.pack)
      /\ Made(songs, [disk EXCEPT !["catalog"] = disk.pack], e, "OK", None)
  BY <1>2, CatalogMade
<1>5. Writes(w) /\ files'[songs[e].id] = [disk EXCEPT !["catalog"] = disk.pack]
  BY <1>1, <1>3, <1>4, Stored DEF disk
<1>6. "OK" \in Outcomes
  BY DEF Outcomes
<1> QED
  BY <1>1, <1>3, <1>4, <1>5, <1>6, FinishInv

\* A step that fails leaves the disks as they are.
LEMMA FailureInv ==
  ASSUME BatchInv, NEW w \in Workers, Refuse(w) \/ Break(w) \/ Interfere(w)
  PROVE BatchInv'
<1>1. /\ Busy(w) /\ files' = files
      /\ songs' = songs /\ queue' = queue /\ collected' = collected
  BY DEF Refuse, Break, Interfere, Busy, Idle
<1>2. PICK o \in {"FAILED", "raised"} : Finish(w, o)
  BY DEF Refuse, Break, Interfere
<1>3. o \in Outcomes /\ o # "OK" /\ Writes(w)
  BY <1>1 DEF Outcomes, Writes
<1> QED
  BY <1>1, <1>2, <1>3, FinishInv

\* The main thread changes nothing but the queue, which it may empty.
LEMMA MainInv ==
  ASSUME BatchInv, Collect \/ Exit \/ UNCHANGED vars
  PROVE BatchInv'
<1>1. /\ songs' = songs /\ files' = files /\ worker' = worker /\ result' = result
      /\ queue' \in {queue, <<>>}
  BY DEF Collect, Exit, vars
<1>2. collected' \in 0 .. Len(songs)
  <2>1. collected \in 0 .. Len(songs) /\ Len(songs) \in Nat
    BY DEF BatchInv, Assigned
  <2>2. collected' = collected \/ (collected < Len(songs) /\ collected' = collected + 1)
    BY DEF Collect, Exit, vars
  <2> QED
    BY <2>1, <2>2
<1>3. /\ queue' \in Seq(1 .. Len(songs))
      /\ \A i \in DOMAIN queue' : i \in DOMAIN queue /\ queue'[i] = queue[i]
  <2>1. queue \in Seq(1 .. Len(songs))
    BY DEF BatchInv, Assigned
  <2>2. CASE queue' = queue
    BY <2>1, <2>2
  <2>3. CASE queue' = <<>>
    <3>1. <<>> \in Seq(1 .. Len(songs)) /\ DOMAIN <<>> = {}
      OBVIOUS
    <3> QED
      BY <2>3, <3>1
  <2> QED
    BY <1>1, <2>2, <2>3
<1>4. Assigned'
  BY <1>1, <1>2, <1>3 DEF BatchInv, Assigned, Busy
<1>5. FilesOK' /\ Progress'
  BY <1>1 DEF BatchInv, FilesOK, Progress, Busy, DiskOf
<1> QED
  BY <1>4, <1>5 DEF BatchInv

\* The invariant holds when the batch starts.
LEMMA InitInv ==
  ASSUME Init
  PROVE BatchInv
<1>1. songs \in Seq(Entry) /\ Len(songs) \in Nat
  BY BatchAssumption DEF Init
<1>2. \A w \in Workers : ~Busy(w) /\ worker[w] = Idle
  BY DEF Init, Busy, Idle
<1>3. \A i \in 1 .. Len(songs) : result[i] = "pending"
  BY DEF Init
<1>4. queue \in Seq(1 .. Len(songs)) /\ DOMAIN queue = 1 .. Len(songs)
      /\ \A i \in DOMAIN queue : queue[i] = i
  <2>1. queue = [i \in 1 .. Len(songs) |-> i]
    BY DEF Init
  <2>2. queue \in [1 .. Len(songs) -> 1 .. Len(songs)]
    BY <2>1
  <2>3. queue \in Seq(1 .. Len(songs))
    BY <1>1, <2>2
  <2> QED
    BY <2>1, <2>3
<1>5. Assigned
  <2>1. Idle \in [entry : Nat, step : StepNames, doc : Content]
    BY DEF Idle, StepNames, Content
  <2>2. worker \in [Workers -> [entry : Nat, step : StepNames, doc : Content]]
    BY <2>1 DEF Init
  <2>3. result \in [1 .. Len(songs) -> Outcomes] /\ collected \in 0 .. Len(songs)
    BY <1>1 DEF Init, Outcomes
  <2> QED
    BY <1>1, <1>2, <1>3, <1>4, <2>2, <2>3 DEF Assigned
<1>6. FilesOK
  <2>1. NoFiles \in Disks
    BY DEF NoFiles, Disks, Content
  <2>2. \A s \in Earlier : BuiltFrom(s) \in Disks
    <3>1. \A s \in Earlier : s \in Content
      BY BatchAssumption DEF Content
    <3> QED
      BY <3>1 DEF BuiltFrom, PackOf, PackFile, Disks, Content
  <2> QED
    BY <2>1, <2>2 DEF Init, FilesOK
<1>7. Progress
  BY <1>2, <1>3 DEF Progress
<1> QED
  BY <1>5, <1>6, <1>7 DEF BatchInv

\* Every step of every thread keeps the invariant.
LEMMA NextInv ==
  ASSUME BatchInv, [Next]_vars
  PROVE BatchInv'
<1>1. CASE \E w \in Workers : Work(w)
  <2>1. PICK w \in Workers : Work(w)
    BY <1>1
  <2>2. CASE Take(w)
    BY <2>2, TakeInv
  <2>3. CASE CheckId(w)
    BY <2>3, CheckIdInv
  <2>4. CASE IngestSong(w)
    BY <2>4, IngestSongInv
  <2>5. CASE BuildNotes(w)
    BY <2>5, BuildNotesInv
  <2>6. CASE RenderStems(w)
    BY <2>6, RenderStemsInv
  <2>7. CASE StoreAudio(w)
    BY <2>7, StoreAudioInv
  <2>8. CASE PackSong(w)
    BY <2>8, PackSongInv
  <2>9. CASE PublishSong(w)
    BY <2>9, PublishSongInv
  <2>10. CASE Refuse(w) \/ Break(w) \/ Interfere(w)
    BY <2>10, FailureInv
  <2> QED
    BY <2>1, <2>2, <2>3, <2>4, <2>5, <2>6, <2>7, <2>8, <2>9, <2>10 DEF Work
<1>2. CASE Collect \/ Exit \/ UNCHANGED vars
  BY <1>2, MainInv
<1> QED
  BY <1>1, <1>2 DEF Next

\* What OK means of an entry, from what Made says of it.
LEMMA MadeMeansBuilt ==
  ASSUME BatchInv
  PROVE OkMeansBuilt
<1> SUFFICES ASSUME NEW i \in 1 .. Len(songs), result[i] = "OK"
    PROVE LET disk == files[songs[i].id]
              given == {songs[j].source : j \in {k \in 1 .. Len(songs) : songs[k].id = songs[i].id}}
          IN /\ disk.pack # None
             /\ OnlyEntry(i) => /\ disk.pack = PackOf(disk.source, disk.source)
                                /\ songs[i].source \in {None, disk.source}
                                /\ songs[i].publish => disk.catalog = disk.pack
             /\ None \notin given => {disk.pack.notes, disk.pack.stems} \subseteq given
  BY DEF OkMeansBuilt
<1> DEFINE disk == files[songs[i].id]
           given == {songs[j].source : j \in {k \in 1 .. Len(songs) : songs[k].id = songs[i].id}}
<1>1. Made(songs, disk, i, "OK", None)
  BY DEF BatchInv, Progress, DiskOf
<1>2. given = Given(songs, i) /\ (OnlyEntry(i) <=> Unique(songs, i))
  BY DEF Given, OnlyEntry, Unique
<1> HIDE DEF disk, given
<1>3. disk.pack # None
  BY <1>1 DEF Made, AtPublish
<1>4. OnlyEntry(i) => /\ disk.pack = PackOf(disk.source, disk.source)
                      /\ songs[i].source \in {None, disk.source}
                      /\ songs[i].publish => disk.catalog = disk.pack
  BY <1>1, <1>2 DEF Made, MadeAlone, AtNotes, AtPublish
<1>5. None \notin given => {disk.pack.notes, disk.pack.stems} \subseteq given
  BY <1>1, <1>2 DEF Made, MadeTogether, AtPublish
<1> QED
  BY <1>3, <1>4, <1>5 DEF disk, given

-----------------------------------------------------------------------------
\* cmd_batch: no entry of a manifest is lost, or at two threads, or given a result twice,
\* however many threads and entries there are.
THEOREM BatchTypeCorrect == Spec => []TypeOK
<1>1. Init => BatchInv
  BY InitInv
<1>2. BatchInv /\ [Next]_vars => BatchInv'
  BY NextInv
<1>3. BatchInv => TypeOK
  <2> SUFFICES ASSUME BatchInv PROVE TypeOK
    OBVIOUS
  <2>1. \A i \in DOMAIN queue : queue[i] \in 1 .. Len(songs)
    BY DEF BatchInv, Assigned
  <2>2. \A w \in Workers : worker[w] = Idle \/ worker[w].entry \in 1 .. Len(songs)
    BY DEF BatchInv, Assigned
  <2>3. \A w \in Workers : worker[w] # Idle => Busy(w)
    BY DEF BatchInv, Assigned
  <2>4. \A w \in Workers : ~Busy(w) => worker[w].entry = 0
    BY DEF BatchInv, Assigned, Idle
  <2>5. \A w \in Workers : Busy(w) => worker[w].entry \in 1 .. Len(songs)
    BY DEF BatchInv, Assigned
  <2>6. \A v, w \in Workers : v # w /\ worker[v] # Idle => worker[v].entry # worker[w].entry
    <3>1. \A v, w \in Workers : v # w /\ Busy(v) /\ Busy(w) => worker[v].entry # worker[w].entry
      BY DEF BatchInv, Assigned
    <3>2. 0 \notin 1 .. Len(songs)
      OBVIOUS
    <3> QED
      BY <2>3, <2>4, <2>5, <3>1, <3>2
  <2>7. \A i \in 1 .. Len(songs) : result[i] \in {"pending", "OK", "FAILED", "raised"}
    BY DEF BatchInv, Assigned, Outcomes
  <2>8. collected \in 0 .. Len(songs)
    BY DEF BatchInv, Assigned
  <2> QED
    BY <2>1, <2>2, <2>6, <2>7, <2>8 DEF TypeOK
<1> QED
  BY <1>1, <1>2, <1>3, PTL DEF Spec

\* cmd_batch and build_one: from the moment an entry is OK its pack holds the notes and
\* the stems of its own source and is in the catalog, if no other entry has its songId,
\* and is made of the sources given for its songId otherwise; for every manifest, any
\* number of threads, and whichever stages refuse or break whichever sources.
THEOREM BatchOkMeansBuilt == Spec => []OkMeansBuilt
<1>1. Init => BatchInv
  BY InitInv
<1>2. BatchInv /\ [Next]_vars => BatchInv'
  BY NextInv
<1>3. BatchInv => OkMeansBuilt
  BY MadeMeansBuilt
<1> QED
  BY <1>1, <1>2, <1>3, PTL DEF Spec

-----------------------------------------------------------------------------
(* The outcome of an entry with an id of its own.                          *)

\* What the entry is made from, and the stages that cannot have a fault for it once it
\* has come to the step.
Score(i) == IF songs[i].source # None THEN songs[i].source ELSE DiskOf(i).source

Sound(score, step) ==
  /\ step \in AtNotes => <<score, "ingest">> \notin Refused \cup Broken
  /\ step \in AtStems => <<score, "notes">> \notin Refused \cup Broken
  /\ step \in AtAudio => <<score, "stems">> \notin Refused \cup Broken

Claim(i, step) ==
  /\ step # "check" => songs[i].valid
  /\ step = "ingest" => songs[i].source # None
  /\ step \in AtNotes => Score(i) # None
  /\ Sound(Score(i), step)

\* The entries that share their id with another one can end in many ways.
Fates ==
  /\ \A i \in 1 .. Len(songs) :
       OnlyEntry(i) /\ songs[i].source = None => DiskOf(i).source \in Earlier \cup {None}
  /\ \A w \in Workers :
       Busy(w) /\ OnlyEntry(worker[w].entry) => Claim(worker[w].entry, worker[w].step)
  /\ \A i \in 1 .. Len(songs) : OnlyEntry(i) => result[i] \in {"pending", Fate(i)}

\* A step leaves alone the source that an earlier run has left for an entry.
SourcesStay ==
  \A i \in 1 .. Len(songs) :
    OnlyEntry(i) /\ songs[i].source = None => DiskOf(i)'.source = DiskOf(i).source

\* What Fate says, fault by fault.
LEMMA FateFacts ==
  ASSUME NEW i \in 1 .. Len(songs)
  PROVE  /\ ~songs[i].valid => Fate(i) = "raised"
         /\ songs[i].valid /\ Score(i) = None => Fate(i) = "FAILED"
         /\ songs[i].valid /\ Score(i) # None => \A k \in 1 .. 3 :
              (\A j \in 1 .. k - 1 : <<Score(i), Steps[j]>> \notin Refused \cup Broken) =>
                /\ <<Score(i), Steps[k]>> \in Refused => Fate(i) = "FAILED"
                /\ <<Score(i), Steps[k]>> \in Broken => Fate(i) = "raised"
         /\ /\ songs[i].valid /\ Score(i) # None
            /\ \A k \in 1 .. 3 : <<Score(i), Steps[k]>> \notin Refused \cup Broken
            => Fate(i) = "OK"
<1> DEFINE At(fault) == \E k \in 1 .. 3 : <<Score(i), Steps[k]>> \in fault
           First(fault, other) ==
             \E k \in 1 .. 3 : /\ <<Score(i), Steps[k]>> \in fault
                               /\ \A j \in 1 .. k : <<Score(i), Steps[j]>> \notin other
<1>1. Fate(i) = IF ~songs[i].valid THEN "raised"
                ELSE IF Score(i) = None THEN "FAILED"
                ELSE IF First(Broken, Refused) THEN "raised"
                ELSE IF At(Refused) THEN "FAILED" ELSE "OK"
  BY DEF Fate, Score, DiskOf
<1>2. ASSUME NEW k \in 1 .. 3,
             \A j \in 1 .. k - 1 : <<Score(i), Steps[j]>> \notin Refused \cup Broken,
             <<Score(i), Steps[k]>> \in Refused
      PROVE  ~First(Broken, Refused) /\ At(Refused)
  <2>1. <<Score(i), Steps[k]>> \notin Broken
    BY <1>2, BatchAssumption
  <2>2. \A n \in 1 .. 3 : n < k \/ n = k \/ k \in 1 .. n
    OBVIOUS
  <2>3. \A n \in 1 .. 3 : n < k => n \in 1 .. k - 1
    OBVIOUS
  <2> QED BY <1>2, <2>1, <2>2, <2>3
<1>3. ASSUME NEW k \in 1 .. 3,
             \A j \in 1 .. k - 1 : <<Score(i), Steps[j]>> \notin Refused \cup Broken,
             <<Score(i), Steps[k]>> \in Broken
      PROVE  First(Broken, Refused)
  <2>1. <<Score(i), Steps[k]>> \notin Refused
    BY <1>3, BatchAssumption
  <2>2. \A j \in 1 .. k : j = k \/ j \in 1 .. k - 1
    OBVIOUS
  <2> QED BY <1>3, <2>1, <2>2
<1>4. (\A k \in 1 .. 3 : <<Score(i), Steps[k]>> \notin Refused \cup Broken) =>
        ~First(Broken, Refused) /\ ~At(Refused)
  OBVIOUS
<1> HIDE DEF At, First
<1> QED BY <1>1, <1>2, <1>3, <1>4

\* The fate of an entry hangs on the disk only if the entry has no source of its own.
LEMMA FateKept ==
  ASSUME songs' = songs, SourcesStay
  PROVE  \A i \in 1 .. Len(songs) : OnlyEntry(i) => Score(i)' = Score(i) /\ Fate(i)' = Fate(i)
<1> SUFFICES ASSUME NEW i \in 1 .. Len(songs), OnlyEntry(i)
             PROVE  Score(i)' = Score(i) /\ Fate(i)' = Fate(i)
  OBVIOUS
<1>1. Score(i)' = Score(i)
  BY DEF Score, SourcesStay
<1>2. (IF songs[i].source # None THEN songs[i].source ELSE files'[songs[i].id].source)
        = (IF songs[i].source # None THEN songs[i].source ELSE files[songs[i].id].source)
  BY DEF DiskOf, SourcesStay
<1>3. Fate(i)' = Fate(i)
  BY <1>2 DEF Fate
<1> QED BY <1>1, <1>3

\* ... and so does how far it can have come.
LEMMA ClaimKept ==
  ASSUME songs' = songs, SourcesStay
  PROVE  /\ \A i \in 1 .. Len(songs) : OnlyEntry(i)' <=> OnlyEntry(i)
         /\ \A i \in 1 .. Len(songs) : \A step :
              OnlyEntry(i) /\ Claim(i, step) => Claim(i, step)'
<1>1. ASSUME NEW i \in 1 .. Len(songs), NEW step, OnlyEntry(i), Claim(i, step)
      PROVE  Claim(i, step)'
  <2>1. Score(i)' = Score(i)
    BY <1>1, FateKept
  <2> QED BY <1>1, <2>1 DEF Claim, Sound
<1> QED BY <1>1 DEF OnlyEntry

\* The same of the entries of threads that do not move.
LEMMA OthersClaim ==
  ASSUME BatchInv, Fates, songs' = songs, SourcesStay, NEW v \in Workers,
         worker'[v] = worker[v], Busy(v)', OnlyEntry(worker[v].entry)'
  PROVE  Claim(worker[v].entry, worker[v].step)'
<1>1. Busy(v)
  BY DEF Busy
<1>2. PICK i, s : i \in 1 .. Len(songs) /\ i = worker[v].entry /\ s = worker[v].step
  BY <1>1, OwnEntry
<1>3. OnlyEntry(i)
  <2>1. OnlyEntry(i)'
    BY <1>2 DEF OnlyEntry
  <2> QED BY <1>2, <2>1, ClaimKept
<1>4. Claim(i, s)
  BY <1>1, <1>2, <1>3 DEF Fates
<1>5. Claim(i, s)'
  BY <1>2, <1>3, <1>4, ClaimKept
<1> QED BY <1>2, <1>5 DEF Claim

\* What is left to show of a step is the claim of the thread that took it, and its result.
LEMMA StepFates ==
  ASSUME BatchInv, Fates, NEW w \in Workers, songs' = songs, SourcesStay,
         \A v \in Workers : v # w => worker'[v] = worker[v],
         Busy(w)' /\ OnlyEntry(worker[w].entry)' => Claim(worker[w].entry, worker[w].step)',
         \A i \in 1 .. Len(songs) :
           OnlyEntry(i) => result'[i] = result[i] \/ result'[i] = Fate(i)
  PROVE  Fates'
<1>1. ASSUME NEW v \in Workers, Busy(v)', OnlyEntry(worker[v].entry)'
      PROVE  Claim(worker[v].entry, worker[v].step)'
  <2>1. CASE v = w
    BY <1>1, <2>1
  <2>2. CASE v # w
    BY <1>1, <2>2, OthersClaim
  <2> QED BY <2>1, <2>2
<1>2. ASSUME NEW i \in 1 .. Len(songs), OnlyEntry(i) PROVE result'[i] \in {"pending", Fate(i)'}
  BY <1>2, FateKept DEF Fates
<1>3. ASSUME NEW i \in 1 .. Len(songs), OnlyEntry(i), songs[i].source = None
      PROVE  DiskOf(i)'.source \in Earlier \cup {None}
  BY <1>3 DEF Fates, SourcesStay
<1>4. \A i \in 1 .. Len(songs) : OnlyEntry(i)' <=> OnlyEntry(i)
  BY ClaimKept
<1> QED BY <1>1, <1>2, <1>3, <1>4 DEF Fates

\* A thread works on the score of its entry.
LEMMA SubjectIsScore ==
  ASSUME BatchInv, Fates, NEW w \in Workers, OnlyEntry(worker[w].entry),
         worker[w].step \in {"ingest", "notes", "stems"}
  PROVE  Subject(w) = Score(worker[w].entry)
<1> DEFINE e == worker[w].entry
<1>1. Busy(w)
  BY DEF Busy
<1>2. /\ e \in 1 .. Len(songs) /\ Made(songs, DiskOf(e), e, worker[w].step, worker[w].doc)
      /\ Claim(e, worker[w].step)
  BY <1>1, OwnEntry DEF Fates
<1>3. Unique(songs, e)
  BY <1>2 DEF OnlyEntry, Unique
<1>4. MadeAlone(songs, DiskOf(e), e, worker[w].step, worker[w].doc)
  BY <1>2, <1>3 DEF Made
<1>5. CASE worker[w].step = "ingest"
  BY <1>2, <1>5 DEF Subject, Song, Score, Claim
<1>6. CASE worker[w].step = "notes"
  <2>1. songs[e].source \in {None, DiskOf(e).source}
    BY <1>4, <1>6 DEF MadeAlone, AtNotes
  <2> QED BY <1>6, <2>1 DEF Subject, Song, Disk, Score, DiskOf
<1>7. CASE worker[w].step = "stems"
  <2>1. songs[e].source \in {None, DiskOf(e).source} /\ DiskOf(e).notes = DiskOf(e).source
    BY <1>4, <1>7 DEF MadeAlone, AtNotes, AtStems
  <2> QED BY <1>7, <2>1 DEF Subject, Song, Disk, Score, DiskOf
<1> QED BY <1>5, <1>6, <1>7

\* A thread that goes on ...
LEMMA GoOnFates ==
  ASSUME BatchInv, Fates, NEW w \in Workers, Busy(w), songs' = songs, result' = result,
         SourcesStay, \A v \in Workers : v # w => worker'[v] = worker[v],
         worker'[w].entry = worker[w].entry, OnlyEntry(worker[w].entry),
         Claim(worker[w].entry, worker'[w].step)
  PROVE  Fates'
<1>1. PICK i, s : i \in 1 .. Len(songs) /\ i = worker[w].entry /\ s = worker'[w].step
  BY OwnEntry
<1>2. Claim(i, s)'
  BY <1>1, ClaimKept
<1>3. Claim(worker[w].entry, worker[w].step)'
  BY <1>1, <1>2 DEF Claim
<1> QED BY <1>3, StepFates

\* ... to the step that GoTo names.
LEMMA GoToFates ==
  ASSUME BatchInv, Fates, NEW w \in Workers, Busy(w), songs' = songs, NEW s, GoTo(w, s),
         SourcesStay, OnlyEntry(worker[w].entry), Claim(worker[w].entry, s)
  PROVE  Fates'
<1>1. /\ result' = result
      /\ worker' = [worker EXCEPT ![w] = [entry |-> worker[w].entry, step |-> s,
                                          doc |-> worker[w].doc]]
  BY WentTo DEF BatchInv
<1>2. /\ \A v \in Workers : v # w => worker'[v] = worker[v]
      /\ worker'[w].entry = worker[w].entry /\ worker'[w].step = s
  BY <1>1 DEF BatchInv, Assigned
<1> QED BY <1>1, <1>2, GoOnFates

\* ... and one that is done.
LEMMA FinishFates ==
  ASSUME BatchInv, Fates, NEW w \in Workers, Busy(w), songs' = songs, NEW o, Finish(w, o),
         SourcesStay, OnlyEntry(worker[w].entry) => o = Fate(worker[w].entry)
  PROVE  Fates'
<1>1. /\ \A v \in Workers : v # w => worker'[v] = worker[v]
      /\ ~Busy(w)'
  BY DEF BatchInv, Assigned, Finish, Idle, Busy
<1>2. \A i \in 1 .. Len(songs) : result'[i] = IF i = worker[w].entry THEN o ELSE result[i]
  BY DEF Finish, BatchInv, Assigned
<1>3. \A i \in 1 .. Len(songs) :
        OnlyEntry(i) => result'[i] = result[i] \/ result'[i] = Fate(i)
  BY <1>2
<1> QED BY <1>1, <1>3, StepFates

\* A thread writes the source of an entry that has one, and of no other.
LEMMA SourceStays ==
  ASSUME BatchInv, NEW w \in Workers, Busy(w), songs' = songs, NEW field, NEW value,
         Store(w, field, value), field # "source" \/ songs[worker[w].entry].source # None
  PROVE  SourcesStay
<1> SUFFICES ASSUME NEW i \in 1 .. Len(songs), OnlyEntry(i), songs[i].source = None
             PROVE  files'[songs[i].id].source = files[songs[i].id].source
  BY DEF DiskOf, SourcesStay
<1> DEFINE e == worker[w].entry
<1>1. e \in 1 .. Len(songs) /\ songs[e].id \in Ids /\ songs[i].id \in Ids
  <2>1. songs \in Seq(Entry)
    BY DEF BatchInv, Assigned
  <2>2. songs[i] \in Entry
    BY <2>1
  <2> QED BY <2>2, OwnEntry DEF Entry
<1>2. files' = [files EXCEPT ![songs[e].id][field] = value] /\ files \in [Ids -> Disks]
  BY DEF Store, Song, BatchInv, FilesOK
<1>3. CASE i = e
  <2> DEFINE disk == files[songs[e].id]
  <2>1. field # "source" /\ disk \in Disks
    BY <1>1, <1>2, <1>3
  <2>2. files'[songs[e].id] = [disk EXCEPT ![field] = value]
    BY <1>1, <1>2
  <2> HIDE DEF disk
  <2>3. [disk EXCEPT ![field] = value].source = disk.source
    BY <2>1 DEF Disks
  <2> QED BY <1>3, <2>2, <2>3 DEF disk
<1>4. CASE i # e
  <2>1. songs[i].id # songs[e].id
    BY <1>1, <1>4 DEF OnlyEntry
  <2> QED BY <1>1, <1>2, <2>1
<1> QED BY <1>3, <1>4

\* No other entry has the files of one that is alone.
LEMMA NoneInterferes ==
  ASSUME BatchInv, NEW w \in Workers, OnlyEntry(worker[w].entry)
  PROVE  ~Interfere(w)
BY DEF Interfere, Song, OnlyEntry

\* A thread that takes an entry.
LEMMA TakeFates ==
  ASSUME BatchInv, Fates, NEW w \in Workers, Take(w)
  PROVE  Fates'
<1>1. songs' = songs /\ SourcesStay
  BY DEF Take, DiskOf, SourcesStay
<1>2. /\ result' = result /\ worker'[w].step = "check"
      /\ \A v \in Workers : v # w => worker'[v] = worker[v]
  BY DEF Take, BatchInv, Assigned
<1>3. Claim(worker[w].entry, worker[w].step)'
  BY <1>2 DEF Claim, Sound, AtNotes, AtStems, AtAudio
<1> QED BY <1>1, <1>2, <1>3, StepFates

\* A thread that looks at the id.
LEMMA CheckFates ==
  ASSUME BatchInv, Fates, NEW w \in Workers, OnlyEntry(worker[w].entry), CheckId(w)
  PROVE  Fates'
<1>0. songs' = songs /\ SourcesStay
  BY DEF CheckId, DiskOf, SourcesStay
<1> DEFINE e == worker[w].entry
<1>1. Busy(w) /\ e \in 1 .. Len(songs) /\ worker[w].step = "check"
  <2>1. Busy(w) /\ worker[w].step = "check"
    BY DEF CheckId, Busy
  <2> QED BY <2>1, OwnEntry
<1>2. CASE ~songs[e].valid
  <2>1. Finish(w, "raised") /\ Fate(e) = "raised"
    BY <1>1, <1>2, FateFacts DEF CheckId, Song
  <2> QED BY <1>0, <1>1, <2>1, FinishFates
<1>3. CASE songs[e].valid /\ songs[e].source # None
  <2>1. GoTo(w, "ingest")
    BY <1>3 DEF CheckId, Song
  <2>2. Claim(e, "ingest")
    BY <1>3 DEF Claim, Sound, AtNotes, AtStems, AtAudio
  <2> QED BY <1>0, <1>1, <2>1, <2>2, GoToFates
<1>4. CASE songs[e].valid /\ songs[e].source = None /\ DiskOf(e).source = None
  <2>1. Finish(w, "FAILED")
    BY <1>4 DEF CheckId, Song, Disk, DiskOf
  <2>2. Score(e) = None
    BY <1>4 DEF Score
  <2>3. Fate(e) = "FAILED"
    BY <1>1, <1>4, <2>2, FateFacts
  <2> QED BY <1>0, <1>1, <2>1, <2>3, FinishFates
<1>5. CASE songs[e].valid /\ songs[e].source = None /\ DiskOf(e).source # None
  <2>1. GoTo(w, "notes")
    BY <1>5 DEF CheckId, Song, Disk, DiskOf
  <2>2. Score(e) \in Earlier /\ Score(e) # None
    BY <1>1, <1>5 DEF Score, Fates
  <2>3. <<Score(e), "ingest">> \notin Refused \cup Broken
    <3>1. Score(e) \notin {fault[1] : fault \in Refused \cup Broken}
      BY <2>2, BatchAssumption
    <3> QED BY <3>1
  <2>4. Claim(e, "notes")
    BY <1>5, <2>2, <2>3 DEF Claim, Sound, AtNotes, AtStems, AtAudio
  <2> QED BY <1>0, <1>1, <2>1, <2>4, GoToFates
<1> QED BY <1>2, <1>3, <1>4, <1>5

\* A thread whose step has no fault goes on, or is done with OK.
LEMMA BuildFates ==
  ASSUME BatchInv, Fates, NEW w \in Workers, OnlyEntry(worker[w].entry),
         \/ IngestSong(w) \/ BuildNotes(w) \/ RenderStems(w)
         \/ StoreAudio(w) \/ PackSong(w) \/ PublishSong(w)
  PROVE  Fates'
<1> DEFINE e == worker[w].entry
           step == worker[w].step
<1>1. Busy(w) /\ songs' = songs
  BY DEF IngestSong, BuildNotes, RenderStems, StoreAudio, PackSong, PublishSong, AtStep, Busy
<1>2. e \in 1 .. Len(songs) /\ Claim(e, step)
  BY <1>1, OwnEntry DEF Fates
<1>3. ASSUME NEW field, NEW value, Store(w, field, value), field # "source" \/ songs[e].source # None
      PROVE  SourcesStay
  BY <1>1, <1>3, SourceStays
<1>4. CASE IngestSong(w)
  <2>1. /\ step = "ingest" /\ Store(w, "source", Subject(w)) /\ GoTo(w, "notes")
        /\ <<Score(e), "ingest">> \notin Refused \cup Broken
    BY <1>4, SubjectIsScore DEF IngestSong, AtStep
  <2>2. songs[e].source # None
    BY <1>2, <2>1 DEF Claim
  <2>3. Claim(e, "notes")
    BY <1>2, <2>1, <2>2 DEF Claim, Sound, Score, AtNotes, AtStems, AtAudio
  <2>4. SourcesStay
    BY <1>3, <2>1, <2>2
  <2> QED BY <1>1, <2>1, <2>3, <2>4, GoToFates
<1>5. CASE BuildNotes(w)
  <2>1. /\ step = "notes" /\ Store(w, "notes", Subject(w)) /\ GoTo(w, "stems")
        /\ <<Score(e), "notes">> \notin Refused \cup Broken
    BY <1>5, SubjectIsScore DEF BuildNotes, AtStep
  <2>2. Claim(e, "stems")
    BY <1>2, <2>1 DEF Claim, Sound, AtNotes, AtStems, AtAudio
  <2>3. SourcesStay
    BY <1>3, <2>1
  <2> QED BY <1>1, <2>1, <2>2, <2>3, GoToFates
<1>6. CASE RenderStems(w)
  <2>1. /\ step = "stems" /\ Store(w, "stems", Subject(w))
        /\ worker' = [worker EXCEPT ![w] = [entry |-> @.entry, step |-> "audio", doc |-> Subject(w)]]
        /\ result' = result /\ <<Score(e), "stems">> \notin Refused \cup Broken
    BY <1>6, SubjectIsScore DEF RenderStems, AtStep
  <2>2. Claim(e, "audio")
    BY <1>2, <2>1 DEF Claim, Sound, AtNotes, AtStems, AtAudio
  <2>3. SourcesStay
    BY <1>3, <2>1
  <2>4. /\ worker'[w].entry = e /\ worker'[w].step = "audio"
        /\ \A v \in Workers : v # w => worker'[v] = worker[v]
    BY <2>1 DEF BatchInv, Assigned
  <2> QED BY <1>1, <2>1, <2>2, <2>3, <2>4, GoOnFates
<1>7. CASE StoreAudio(w)
  <2>1. step = "audio" /\ Store(w, "audio", Subject(w)) /\ GoTo(w, "pack")
    BY <1>7 DEF StoreAudio, AtStep
  <2>2. Claim(e, "pack")
    BY <1>2, <2>1 DEF Claim, Sound, AtNotes, AtStems, AtAudio
  <2>3. SourcesStay
    BY <1>3, <2>1
  <2> QED BY <1>1, <2>1, <2>2, <2>3, GoToFates
<1>8. ASSUME step \in {"pack", "publish"} PROVE Fate(e) = "OK" /\ Claim(e, "publish")
  <2>1. /\ songs[e].valid /\ Score(e) # None
        /\ <<Score(e), "ingest">> \notin Refused \cup Broken
        /\ <<Score(e), "notes">> \notin Refused \cup Broken
        /\ <<Score(e), "stems">> \notin Refused \cup Broken
    BY <1>2, <1>8 DEF Claim, Sound, AtNotes, AtStems, AtAudio
  <2>2. \A k \in 1 .. 3 : <<Score(e), Steps[k]>> \notin Refused \cup Broken
    BY <2>1 DEF Steps
  <2>3. Claim(e, "publish")
    BY <2>1 DEF Claim, Sound
  <2> QED BY <1>2, <2>1, <2>2, <2>3, FateFacts
<1>9. CASE PackSong(w)
  <2>1. /\ step = "pack" /\ Store(w, "pack", PackOf(Disk(w).audio, Disk(w).stems))
        /\ GoTo(w, "publish") \/ Finish(w, "OK")
    BY <1>9 DEF PackSong, AtStep
  <2>2. SourcesStay
    BY <1>3, <2>1
  <2>3. CASE GoTo(w, "publish")
    BY <1>1, <1>8, <2>1, <2>2, <2>3, GoToFates
  <2>4. CASE Finish(w, "OK")
    BY <1>1, <1>8, <2>1, <2>2, <2>4, FinishFates
  <2> QED BY <2>1, <2>3, <2>4
<1>10. CASE PublishSong(w)
  <2>1. step = "publish" /\ Store(w, "catalog", Disk(w).pack) /\ Finish(w, "OK")
    BY <1>10 DEF PublishSong, AtStep
  <2>2. SourcesStay
    BY <1>3, <2>1
  <2> QED BY <1>1, <1>8, <2>1, <2>2, FinishFates
<1> QED BY <1>4, <1>5, <1>6, <1>7, <1>9, <1>10

\* A thread whose step has a fault, the first of its entry, fails or raises.
LEMMA FaultFates ==
  ASSUME BatchInv, Fates, NEW w \in Workers, OnlyEntry(worker[w].entry), Refuse(w) \/ Break(w)
  PROVE  Fates'
<1> DEFINE e == worker[w].entry
           step == worker[w].step
<1>1. /\ Busy(w) /\ step \in {"ingest", "notes", "stems"} /\ songs' = songs /\ files' = files
  BY DEF Refuse, Break, Busy
<1>2. /\ e \in 1 .. Len(songs) /\ Claim(e, step)
      /\ SourcesStay
  BY <1>1, OwnEntry DEF Fates, DiskOf, SourcesStay
<1>3. Subject(w) = Score(e)
  BY <1>1, SubjectIsScore
<1>4. PICK k \in 1 .. 3 : step = Steps[k] /\ \A j \in 1 .. k - 1 : <<Score(e), Steps[j]>> \notin Refused \cup Broken
  <2>1. CASE step = "ingest"
    <3>1. step = Steps[1] /\ 1 .. 1 - 1 = {}
      BY <2>1 DEF Steps
    <3> QED BY <3>1
  <2>2. CASE step = "notes"
    <3>1. step = Steps[2] /\ 1 .. 2 - 1 = {1} /\ <<Score(e), Steps[1]>> \notin Refused \cup Broken
      BY <1>2, <2>2 DEF Steps, Claim, Sound, AtNotes
    <3> QED BY <3>1
  <2>3. CASE step = "stems"
    <3>1. /\ step = Steps[3] /\ 1 .. 3 - 1 = {1, 2}
          /\ <<Score(e), Steps[1]>> \notin Refused \cup Broken
          /\ <<Score(e), Steps[2]>> \notin Refused \cup Broken
      BY <1>2, <2>3 DEF Steps, Claim, Sound, AtNotes, AtStems
    <3> QED BY <3>1
  <2> QED BY <1>1, <2>1, <2>2, <2>3
<1>5. songs[e].valid /\ Score(e) # None
  BY <1>1, <1>2 DEF Claim, Score, AtNotes
<1>6. CASE Refuse(w)
  <2>1. Finish(w, "FAILED") /\ <<Score(e), step>> \in Refused
    BY <1>3, <1>6 DEF Refuse
  <2>2. Fate(e) = "FAILED"
    BY <1>2, <1>4, <1>5, <2>1, FateFacts
  <2> QED BY <1>1, <1>2, <2>1, <2>2, FinishFates
<1>7. CASE Break(w)
  <2>1. Finish(w, "raised") /\ <<Score(e), step>> \in Broken
    BY <1>3, <1>7 DEF Break
  <2>2. Fate(e) = "raised"
    BY <1>2, <1>4, <1>5, <2>1, FateFacts
  <2> QED BY <1>1, <1>2, <2>1, <2>2, FinishFates
<1> QED BY <1>6, <1>7

\* A thread that shares the id of its entry writes in no other directory, and gives no
\* other entry a result.
LEMMA SharedFates ==
  ASSUME BatchInv, Fates, NEW w \in Workers, Busy(w), ~OnlyEntry(worker[w].entry), Work(w)
  PROVE  Fates'
<1> DEFINE e == worker[w].entry
<1>1. /\ songs' = songs
      /\ files' = files \/ \E field, value : Store(w, field, value)
      /\ (\E o : Finish(w, o)) \/ (\E step : GoTo(w, step))
           \/ \E doc : /\ worker' = [worker EXCEPT ![w] = [entry |-> @.entry, step |-> "audio", doc |-> doc]]
                       /\ result' = result
  <2>1. ~Take(w)
    BY DEF Take, Busy, Idle
  <2>2. CASE CheckId(w)
    BY <2>2 DEF CheckId
  <2>3. CASE IngestSong(w) \/ BuildNotes(w) \/ RenderStems(w) \/ StoreAudio(w)
    BY <2>3 DEF IngestSong, BuildNotes, RenderStems, StoreAudio
  <2>4. CASE PackSong(w) \/ PublishSong(w)
    BY <2>4 DEF PackSong, PublishSong
  <2>5. CASE Refuse(w) \/ Break(w) \/ Interfere(w)
    BY <2>5 DEF Refuse, Break, Interfere
  <2> QED BY <2>1, <2>2, <2>3, <2>4, <2>5 DEF Work
<1>2. e \in 1 .. Len(songs) /\ \A i \in 1 .. Len(songs) : OnlyEntry(i) => i # e /\ songs[i].id # songs[e].id
  BY OwnEntry DEF OnlyEntry
<1>3. SourcesStay
  <2>1. ASSUME NEW id \in Ids, id # songs[e].id PROVE files'[id] = files[id]
    <3>1. CASE files' = files
      BY <3>1
    <3>2. CASE \E field, value : Store(w, field, value)
      <4>1. PICK field, value : Store(w, field, value)
        BY <3>2
      <4>2. files' = [files EXCEPT ![songs[e].id][field] = value] /\ DOMAIN files = Ids
        BY <4>1 DEF Store, Song, BatchInv, FilesOK
      <4> QED BY <2>1, <4>2
    <3> QED BY <1>1, <3>1, <3>2
  <2>2. \A i \in 1 .. Len(songs) : songs[i].id \in Ids
    <3>1. \A i \in 1 .. Len(songs) : songs[i] \in Entry
      BY DEF BatchInv, Assigned
    <3> QED BY <3>1 DEF Entry
  <2> QED BY <1>1, <1>2, <2>1, <2>2 DEF SourcesStay, DiskOf
<1>4. /\ \A v \in Workers : v # w => worker'[v] = worker[v]
      /\ Busy(w)' => worker'[w].entry = e
      /\ \A i \in 1 .. Len(songs) : i # e => result'[i] = result[i]
  <2>1. CASE \E o : Finish(w, o)
    BY <2>1 DEF Finish, BatchInv, Assigned, Busy, Idle
  <2>2. CASE \E step : GoTo(w, step)
    <3>1. PICK step : GoTo(w, step)
      BY <2>2
    <3>2. /\ worker' = [worker EXCEPT ![w] = [entry |-> e, step |-> step, doc |-> worker[w].doc]]
          /\ result' = result
      BY <3>1, WentTo DEF BatchInv
    <3> QED BY <3>2 DEF BatchInv, Assigned
  <2>3. CASE \E doc : /\ worker' = [worker EXCEPT ![w] = [entry |-> @.entry, step |-> "audio", doc |-> doc]]
                      /\ result' = result
    BY <2>3 DEF BatchInv, Assigned
  <2> QED BY <1>1, <2>1, <2>2, <2>3
<1>5. ~(Busy(w)' /\ OnlyEntry(worker[w].entry)')
  <2> SUFFICES ASSUME Busy(w)' PROVE ~OnlyEntry(worker[w].entry)'
    OBVIOUS
  <2>1. worker'[w].entry = e
    BY <1>4
  <2> QED BY <1>1, <2>1 DEF OnlyEntry
<1>6. \A i \in 1 .. Len(songs) : OnlyEntry(i) => result'[i] = result[i]
  BY <1>2, <1>4
<1> QED BY <1>1, <1>3, <1>4, <1>5, <1>6, StepFates

\* Every step leaves an entry of its own id on its way to its fate.
LEMMA FatesStep ==
  ASSUME BatchInv, Fates, [Next]_vars
  PROVE  Fates'
<1>1. ASSUME NEW w \in Workers, Work(w) PROVE Fates'
  <2>1. CASE Take(w)
    BY <2>1, TakeFates
  <2>2. CASE ~Take(w) /\ ~OnlyEntry(worker[w].entry)
    <3>1. Busy(w)
      BY <1>1, <2>2 DEF Work, CheckId, IngestSong, BuildNotes, RenderStems, StoreAudio,
                        PackSong, PublishSong, AtStep, Refuse, Break, Interfere, Busy
    <3> QED BY <1>1, <2>2, <3>1, SharedFates
  <2>3. CASE ~Take(w) /\ OnlyEntry(worker[w].entry)
    BY <1>1, <2>3, CheckFates, BuildFates, FaultFates, NoneInterferes DEF Work
  <2> QED BY <2>1, <2>2, <2>3
<1>2. CASE Collect \/ Exit \/ UNCHANGED vars
  <2>1. songs' = songs /\ worker' = worker /\ result' = result /\ SourcesStay
    BY <1>2 DEF Collect, Exit, vars, SourcesStay, DiskOf
  <2>2. ASSUME NEW v \in Workers, Busy(v)', OnlyEntry(worker[v].entry)'
        PROVE  Claim(worker[v].entry, worker[v].step)'
    BY <2>1, <2>2, OthersClaim
  <2>3. ASSUME NEW i \in 1 .. Len(songs), OnlyEntry(i) PROVE result'[i] \in {"pending", Fate(i)'}
    BY <2>1, <2>3, FateKept DEF Fates
  <2>4. ASSUME NEW i \in 1 .. Len(songs), OnlyEntry(i), songs[i].source = None
        PROVE  DiskOf(i)'.source \in Earlier \cup {None}
    BY <2>1, <2>4 DEF Fates, SourcesStay
  <2>5. \A i \in 1 .. Len(songs) : OnlyEntry(i)' <=> OnlyEntry(i)
    BY <2>1, ClaimKept
  <2> QED BY <2>1, <2>2, <2>3, <2>4, <2>5 DEF Fates
<1> QED BY <1>1, <1>2 DEF Next

\* All entries start with their fate before them.
LEMMA FatesInit ==
  ASSUME Init
  PROVE  Fates
<1>1. \A w \in Workers : ~Busy(w)
  BY DEF Init, Busy, Idle
<1>2. \A i \in 1 .. Len(songs) : result[i] = "pending"
  BY DEF Init
<1>3. ASSUME NEW i \in 1 .. Len(songs) PROVE DiskOf(i).source \in Earlier \cup {None}
  <2>1. songs \in Seq(Entry)
    BY BatchAssumption DEF Init
  <2>2. songs[i].id \in Ids
    <3>1. songs[i] \in Entry
      BY <2>1
    <3> QED BY <3>1 DEF Entry
  <2>3. DiskOf(i) \in {NoFiles} \cup {BuiltFrom(s) : s \in Earlier}
    BY <2>2 DEF Init, DiskOf
  <2> QED BY <2>3 DEF NoFiles, BuiltFrom
<1> QED BY <1>1, <1>2, <1>3 DEF Fates

\* What the main thread has seen of the results.
AllOK == \A i \in 1 .. Len(songs) : result[i] = "OK"

MainSaw ==
  /\ main \in {"collecting", "aborting", "exit 0", "exit 1", "exit abort"}
  /\ \A i \in 1 .. collected : result[i] \notin {"pending", "raised"}
  /\ main \in {"aborting", "exit abort"} => collected < Len(songs) /\ result[collected + 1] = "raised"
  /\ main \in {"exit 0", "exit 1"} => collected = Len(songs)
  /\ main = "exit 0" => AllOK
  /\ main = "exit 1" => ~AllOK

\* A result, once there, stays.
LEMMA ResultsStay ==
  ASSUME BatchInv, NEW w \in Workers, Work(w)
  PROVE  /\ songs' = songs /\ collected' = collected /\ main' = main
         /\ \A i \in 1 .. Len(songs) : result[i] # "pending" => result'[i] = result[i]
<1>1. songs' = songs /\ collected' = collected /\ main' = main
  BY DEF Work, Take, CheckId, IngestSong, BuildNotes, RenderStems, StoreAudio, PackSong,
         PublishSong, Refuse, Break, Interfere
<1>2. result' = result \/ (Busy(w) /\ \E o : Finish(w, o))
  <2>1. CASE Take(w) \/ IngestSong(w) \/ BuildNotes(w) \/ RenderStems(w) \/ StoreAudio(w)
    BY <2>1 DEF Take, IngestSong, BuildNotes, RenderStems, StoreAudio, GoTo
  <2>2. CASE CheckId(w)
    BY <2>2 DEF CheckId, GoTo, Busy
  <2>3. CASE PackSong(w) \/ PublishSong(w)
    BY <2>3 DEF PackSong, PublishSong, AtStep, GoTo, Busy
  <2>4. CASE Refuse(w) \/ Break(w) \/ Interfere(w)
    BY <2>4 DEF Refuse, Break, Interfere, Busy
  <2> QED BY <2>1, <2>2, <2>3, <2>4 DEF Work
<1>3. ASSUME NEW i \in 1 .. Len(songs), result[i] # "pending", Busy(w), NEW o, Finish(w, o)
      PROVE  result'[i] = result[i]
  <2>1. result[worker[w].entry] = "pending"
    BY <1>3, OwnEntry
  <2> QED BY <1>3, <2>1 DEF Finish, BatchInv, Assigned
<1> QED BY <1>1, <1>2, <1>3

\* The main thread's knowledge stays true.
LEMMA MainSawStep ==
  ASSUME BatchInv, MainSaw, [Next]_vars
  PROVE  MainSaw'
<1>0. collected \in 0 .. Len(songs) /\ Len(songs) \in Nat
  BY DEF BatchInv, Assigned
<1>1. CASE \E w \in Workers : Work(w)
  <2>1. /\ songs' = songs /\ collected' = collected /\ main' = main
        /\ \A i \in 1 .. Len(songs) : result[i] # "pending" => result'[i] = result[i]
    BY <1>1, ResultsStay
  <2>2. \A i \in 1 .. collected : i \in 1 .. Len(songs)
    BY <1>0
  <2>3. collected < Len(songs) => collected + 1 \in 1 .. Len(songs)
    BY <1>0
  <2>4. AllOK => AllOK'
    BY <2>1 DEF AllOK
  <2>5. main = "exit 1" => ~AllOK'
    <3> SUFFICES ASSUME main = "exit 1" PROVE ~AllOK'
      OBVIOUS
    <3>1. PICK i \in 1 .. Len(songs) : result[i] # "OK"
      BY DEF MainSaw, AllOK
    <3>2. result[i] # "pending"
      BY <3>1 DEF MainSaw
    <3> QED BY <2>1, <3>1, <3>2 DEF AllOK
  <2>6. \A i \in 1 .. collected : result'[i] \notin {"pending", "raised"}
    BY <2>1, <2>2 DEF MainSaw
  <2>7. main \in {"aborting", "exit abort"} => collected < Len(songs) /\ result'[collected + 1] = "raised"
    BY <2>1, <2>3 DEF MainSaw
  <2> QED BY <2>1, <2>4, <2>5, <2>6, <2>7 DEF MainSaw
<1>2. CASE Collect
  <2>1. /\ main = "collecting" /\ collected < Len(songs) /\ result[collected + 1] # "pending"
        /\ songs' = songs /\ result' = result
    BY <1>2 DEF Collect
  <2>2. CASE result[collected + 1] = "raised"
    <3>1. main' = "aborting" /\ collected' = collected
      BY <1>2, <2>2 DEF Collect
    <3> QED BY <2>1, <2>2, <3>1 DEF MainSaw, AllOK
  <2>3. CASE result[collected + 1] # "raised"
    <3>1. main' = "collecting" /\ collected' = collected + 1
      BY <1>2, <2>1, <2>3 DEF Collect
    <3>2. \A i \in 1 .. collected + 1 : i \in 1 .. collected \/ i = collected + 1
      BY <1>0
    <3>3. \A i \in 1 .. collected' : result'[i] \notin {"pending", "raised"}
      BY <2>1, <2>3, <3>1, <3>2 DEF MainSaw
    <3> QED BY <3>1, <3>3 DEF MainSaw
  <2> QED BY <2>2, <2>3
<1>3. CASE Exit
  <2>1. /\ songs' = songs /\ result' = result /\ collected' = collected
        /\ main \in {"collecting", "aborting"} /\ (main = "collecting" => collected = Len(songs))
        /\ main' = IF main = "aborting" THEN "exit abort" ELSE IF AllOK THEN "exit 0" ELSE "exit 1"
    BY <1>3 DEF Exit, AllOK
  <2>2. AllOK' <=> AllOK
    BY <2>1 DEF AllOK
  <2> QED BY <2>1, <2>2 DEF MainSaw
<1>4. CASE UNCHANGED vars
  <2>1. songs' = songs /\ result' = result /\ collected' = collected /\ main' = main
    BY <1>4 DEF vars
  <2>2. AllOK' <=> AllOK
    BY <2>1 DEF AllOK
  <2> QED BY <2>1, <2>2 DEF MainSaw
<1> QED BY <1>1, <1>2, <1>3, <1>4 DEF Next

\* What the batch says when it exits, from what the main thread saw.
LEMMA FatesMeanOwn ==
  ASSUME BatchInv, MainSaw, Fates
  PROVE  OutcomeIsOwn
<1>1. collected \in 0 .. Len(songs) /\ Len(songs) \in Nat
  BY DEF BatchInv, Assigned
<1>2. collected < Len(songs) => collected + 1 \in 1 .. Len(songs)
  BY <1>1
<1>3. main = "exit 0" <=> Exited /\ \A i \in 1 .. Len(songs) : result[i] = "OK"
  <2>1. main = "exit 0" => Exited /\ AllOK
    BY DEF MainSaw, Exited
  <2>2. main = "exit abort" => ~AllOK
    <3>1. main = "exit abort" => collected + 1 \in 1 .. Len(songs) /\ result[collected + 1] = "raised"
      BY <1>2 DEF MainSaw
    <3> QED BY <3>1 DEF AllOK
  <2>3. main = "exit 1" => ~AllOK
    BY DEF MainSaw
  <2> QED BY <2>1, <2>2, <2>3 DEF Exited, AllOK
<1>4. main = "exit 1" => \A i \in 1 .. Len(songs) : result[i] \notin {"pending", "raised"}
  BY DEF MainSaw
<1>5. main = "exit abort" =>
        /\ result[collected + 1] = "raised"
        /\ \A i \in 1 .. collected : result[i] \notin {"pending", "raised"}
  BY DEF MainSaw
<1>6. \A i \in 1 .. Len(songs) : songs[i].valid /\ OnlyEntry(i) => result[i] \in {"pending", Fate(i)}
  BY DEF Fates
<1> QED BY <1>3, <1>4, <1>5, <1>6 DEF OutcomeIsOwn

\* cmd_batch: an entry with a valid id of its own ends as it would have alone, and the exit
\* code says so, for every manifest, every number of threads, every schedule and every
\* set of faults.
THEOREM BatchOutcomeIsOwn == Spec => []OutcomeIsOwn
<1> DEFINE Inv == BatchInv /\ MainSaw /\ Fates
<1>1. Init => Inv
  <2> SUFFICES ASSUME Init PROVE Inv
    OBVIOUS
  <2>1. main = "collecting" /\ collected = 0
    BY DEF Init
  <2> QED BY <2>1, InitInv, FatesInit DEF MainSaw
<1>2. Inv /\ [Next]_vars => Inv'
  BY NextInv, MainSawStep, FatesStep
<1>3. Inv => OutcomeIsOwn
  BY FatesMeanOwn
<1> QED
  BY <1>1, <1>2, <1>3, PTL DEF Spec
=============================================================================
