--------------------------- MODULE MaestroValidation ---------------------------
(***************************************************************************)
(* pipeline.eval.validate_maestro: it downloads the MAESTRO archive and    *)
(* the audio of some test pieces into a work directory, scores Basic Pitch *)
(* on them and compares the score with the published one.  It may be       *)
(* killed, and the network may fail, at any point; what is in the work     *)
(* directory then is what the next run finds.                              *)
(*                                                                         *)
(* The test pieces are 1 .. n, in the order of their durations.  The       *)
(* archive holds their MIDI files and, at place csvAt, the CSV file; what  *)
(* is in it is as MAESTRO publishes it.                                    *)
(***************************************************************************)
EXTENDS Numpy, Sequences, FiniteSets

CONSTANTS
  Sizes, Limits,   \* the numbers of test pieces, and of --limit
  Templates,       \* the number of URLs tried for a piece
  MaxRuns          \* bound: runs in the same work directory

ASSUME MaestroAssumption ==
  Sizes \subseteq Nat /\ Limits \subseteq Nat /\ Templates \in Nat \ {0} /\ MaxRuns \in Nat \ {0}

VARIABLES
  n, csvAt,              \* the archive
  fixtures, installed,   \* whether mir_eval's fixtures are there; basic_pitch: "none",
                         \* "broken" (it is found, but not imported) or "whole"
  required, limit,       \* the command line
  zip, members, audio,   \* the work directory: "none", "torn" or "whole", and for audio
                         \* "small", of at most 1024 bytes
  pc,         \* the step; or "exit 0", "exit 1", "exit 2", "crash", "killed"
  done,       \* how many members, or pieces, the step is through with
  url,        \* the URL that is tried
  listed,     \* the test pieces of the CSV file, as read
  missing,    \* how many have no audio
  pairs,      \* the pieces to be scored
  said,       \* "nothing", "blocked", "outside" or "validated"
  runs,       \* how often it was started; for the bound
  faults,     \* what went wrong outside the program; for the properties
  doomed      \* whether the run began with a torn archive and no CSV; likewise

given == <<n, csvAt, fixtures, installed, required, limit>>
disk == <<zip, members, audio>>
run == <<listed, missing, pairs, said>>
ghost == <<runs, faults, doomed>>
vars == <<given, disk, pc, done, url, run, ghost>>

Init ==
  /\ n \in Sizes /\ csvAt \in 1 .. n + 1
  /\ fixtures \in BOOLEAN /\ installed \in {"none", "broken", "whole"}
  /\ required \in BOOLEAN /\ limit \in Limits
  /\ zip = "none" /\ members = [m \in 1 .. n + 1 |-> "none"] /\ audio = [p \in 1 .. n |-> "none"]
  /\ pc = "calibrate" /\ done = 0 /\ url = 1
  /\ listed = {} /\ missing = 0 /\ pairs = {} /\ said = "nothing"
  /\ runs = 1 /\ faults = {} /\ doomed = FALSE

MidiAt(p) == IF p < csvAt THEN p ELSE p + 1

-----------------------------------------------------------------------------
\* Definitions named Faulty... are seeded faults: each replaces the definition
\* after it in a run that must then fail, and is used nowhere else.
FaultySubsetIndices(rows, most) ==
  IF most >= rows THEN [i \in 1 .. rows |-> i]
  ELSE IF most <= 1 THEN <<(rows - 1) \div 2 + 1>>
  ELSE [i \in 1 .. most |-> RoundDiv((i - 1) * (rows - 1), most) + 1]

\* load_test_subset: the places of the pieces among those listed.
SubsetIndices(rows, most) ==
  IF most >= rows THEN [i \in 1 .. rows |-> i]
  ELSE IF most <= 1 THEN <<(rows - 1) \div 2 + 1>>
  ELSE [i \in 1 .. most |-> RoundDiv((i - 1) * (rows - 1), most - 1) + 1]

\* The piece at a place among those listed, in the order of their durations.
Nth(pieces, k) == CHOOSE p \in pieces : Cardinality({q \in pieces : q <= p}) = k

subset ==
  LET picks == SubsetIndices(Cardinality(listed), limit)
  IN [i \in DOMAIN picks |-> Nth(listed, picks[i])]

Pieces == {subset[i] : i \in DOMAIN subset}

-----------------------------------------------------------------------------
Step(next) == pc' = next /\ done' = 0 /\ url' = 1 /\ UNCHANGED <<given, ghost>>

Fault(fault, next) ==
  /\ faults' = faults \cup {fault} /\ pc' = next
  /\ UNCHANGED <<given, done, url, runs, doomed>>

Calibrate ==
  /\ pc = "calibrate"
  /\ IF fixtures THEN Step("archive") \/ Step("exit 1") ELSE Step("crash")
  /\ UNCHANGED <<disk, run>>

\* ensure_maestro_csv: urlretrieve opens the file once the server has answered.
StartDownload ==
  /\ pc = "archive" /\ zip = "none"
  /\ \/ Step("download") /\ zip' = "torn"
     \/ Fault("network", "crash") /\ UNCHANGED zip
  /\ UNCHANGED <<members, audio, run>>

Download ==
  /\ pc = "download"
  /\ \/ Step("archive") /\ zip' = "whole"
     \/ Fault("network", "crash") /\ UNCHANGED zip
  /\ UNCHANGED <<members, audio, run>>

\* An archive that is there is taken as it is; it is not opened if the CSV is there.
OpenArchive ==
  /\ pc = "archive" /\ zip # "none"
  /\ Step(IF members[csvAt] # "none" THEN "subset" ELSE IF zip = "torn" THEN "crash" ELSE "extract")
  /\ UNCHANGED <<disk, run>>

FaultyExtract ==
  /\ pc = "extract"
  /\ members' = [members EXCEPT ![csvAt] = "whole"]
  /\ Step("subset")
  /\ UNCHANGED <<zip, audio, run>>

Extract ==
  /\ pc = "extract"
  /\ members' = [members EXCEPT ![done + 1] = "whole"]
  /\ IF done = n THEN Step("subset")
     ELSE done' = done + 1 /\ UNCHANGED <<given, pc, url, ghost>>
  /\ UNCHANGED <<zip, audio, run>>

\* The rows of the CSV file; a torn one lists some of the pieces, or cannot be read.
LoadSubset ==
  /\ pc = "subset"
  /\ \/ /\ Step("midis")
        /\ listed' \in IF members[csvAt] = "torn" THEN SUBSET (1 .. n) ELSE {1 .. n}
     \/ members[csvAt] = "torn" /\ Step("crash") /\ UNCHANGED listed
  /\ UNCHANGED <<disk, missing, pairs, said>>

EnsureMidis ==
  /\ pc = "midis"
  /\ Step(IF \E p \in Pieces : members[MidiAt(p)] = "none" THEN "crash" ELSE "audio")
  /\ UNCHANGED <<disk, run>>

-----------------------------------------------------------------------------
\* try_fetch_audio, for the next piece: a file of more than 1024 bytes is taken as it is;
\* else each URL is tried, until one answers with anything but 404.
Piece == subset[done + 1]
Fetched(path) ==
  /\ done' = done + 1 /\ url' = 1
  /\ IF pc = "audio" THEN missing' = missing + (IF path THEN 0 ELSE 1) /\ UNCHANGED pairs
     ELSE pairs' = (IF path THEN pairs \cup {Piece} ELSE pairs) /\ UNCHANGED missing
  /\ UNCHANGED <<given, pc, listed, said, runs, doomed>>

Fetching == pc \in {"audio", "compare"} /\ done < Len(subset)
OnDisk == audio[Piece] \in {"torn", "whole"}

Reuse ==
  /\ Fetching /\ OnDisk
  /\ Fetched(TRUE)
  /\ UNCHANGED <<disk, faults>>

FetchAudio ==
  /\ Fetching /\ ~OnDisk
  /\ \E size \in {"small", "whole"} :
       /\ audio' = [audio EXCEPT ![Piece] = size]
       /\ faults' = IF size = "small" THEN faults \cup {"small"} ELSE faults
  /\ Fetched(TRUE)
  /\ UNCHANGED <<zip, members>>

\* 404, and the next URL if there is one; any other status.
NotFound ==
  /\ Fetching /\ ~OnDisk
  /\ IF url = Templates THEN Fetched(FALSE)
     ELSE url' = url + 1 /\ UNCHANGED <<given, pc, done, run, runs, doomed>>
  /\ UNCHANGED <<disk, faults>>

HttpError ==
  /\ Fetching /\ ~OnDisk
  /\ Fetched(FALSE)
  /\ UNCHANGED <<disk, faults>>

Unreachable ==
  /\ Fetching /\ ~OnDisk
  /\ Fault("network", "crash")
  /\ UNCHANGED <<disk, run>>

\* All pieces counted: the comparison, or what blocks it.
FaultyDecide ==
  /\ pc = "audio" /\ done = Len(subset)
  /\ IF installed = "none" THEN said' = "blocked" /\ Step(IF required THEN "exit 2" ELSE "exit 0")
     ELSE UNCHANGED said /\ Step("compare")
  /\ UNCHANGED <<disk, listed, missing, pairs>>

Decide ==
  /\ pc = "audio" /\ done = Len(subset)
  /\ IF installed = "none" \/ missing > 0
     THEN said' = "blocked" /\ Step(IF required THEN "exit 2" ELSE "exit 0")
     ELSE UNCHANGED said /\ Step("compare")
  /\ UNCHANGED <<disk, listed, missing, pairs>>

\* _run_published_comparison, after it has fetched the audio again: there may be no pair;
\* else basic_pitch is imported, a damaged file may be scored or not be read, and the score
\* is within the tolerance or not.
Damaged(p) == audio[p] # "whole" \/ members[MidiAt(p)] # "whole"

Compare ==
  /\ pc = "compare" /\ done = Len(subset)
  /\ \/ pairs # {} /\ installed = "whole" /\ Step("exit 0") /\ said' = "validated"
     \/ (pairs = {} \/ installed = "whole") /\ Step("exit 1") /\ said' = "outside"
     \/ /\ \/ pairs # {} /\ installed = "broken"
           \/ \E p \in pairs : Damaged(p)
        /\ Step("crash") /\ UNCHANGED said
  /\ UNCHANGED <<disk, listed, missing, pairs>>

-----------------------------------------------------------------------------
Ended == pc \in {"exit 0", "exit 1", "exit 2", "crash", "killed"}

\* What is being written when the process is killed is torn, or, of the audio, small.
Kill ==
  /\ ~Ended
  /\ Fault("kill", "killed")
  /\ \/ UNCHANGED <<members, audio>>
     \/ /\ pc = "extract" /\ members' = [members EXCEPT ![done + 1] = "torn"]
        /\ UNCHANGED audio
     \/ /\ Fetching /\ ~OnDisk
        /\ \E size \in {"small", "torn"} : audio' = [audio EXCEPT ![Piece] = size]
        /\ UNCHANGED members
  /\ UNCHANGED <<zip, run>>

\* It is run again, with the same arguments, in the same work directory.
RunAgain ==
  /\ Ended /\ runs < MaxRuns
  /\ runs' = runs + 1
  /\ doomed' = (zip = "torn" /\ members[csvAt] = "none")
  /\ pc' = "calibrate" /\ done' = 0 /\ url' = 1
  /\ listed' = {} /\ missing' = 0 /\ pairs' = {} /\ said' = "nothing"
  /\ UNCHANGED <<given, disk, faults>>

Next ==
  \/ Calibrate \/ StartDownload \/ Download \/ OpenArchive \/ Extract \/ LoadSubset \/ EnsureMidis
  \/ Reuse \/ FetchAudio \/ NotFound \/ HttpError \/ Unreachable \/ Decide \/ Compare
  \/ Kill \/ RunAgain

Spec == Init /\ [][Next]_vars

-----------------------------------------------------------------------------
\* The subset is spread evenly over the durations: no piece comes twice, the shortest
\* and the longest are in it, and the steps between them differ by one at most,
\* whichever way round() takes a half.
SubsetIsSpread ==
  LET rows == Cardinality(listed)  picks == SubsetIndices(rows, limit) IN
  /\ \A i, j \in DOMAIN picks : i < j => picks[i] < picks[j]
  /\ \A i \in DOMAIN picks : picks[i] \in 1 .. rows
  /\ 2 <= limit /\ limit < rows =>
       /\ picks[1] = 1 /\ picks[limit] = rows
       /\ \A i \in 1 .. limit - 1 :
            LET step == (rows - 1) \div (limit - 1) IN
            picks[i + 1] - picks[i] \in
              IF (rows - 1) % (limit - 1) = 0 THEN {step} ELSE {step, step + 1}

\* The exit code is honest: with --require-comparison it is 0 only if the published
\* number was compared; blocked is said only if something is missing.  VALIDATED is said
\* only of selected pieces, each of which is scored with its whole audio and MIDI, unless
\* there was a kill, in whatever run, or a small answer for that piece; a piece that was
\* selected and is not scored has a small file.  Without a kill, the pieces are as many as
\* the limit, if it is not 0, or all there are.
ValidatedOnAll ==
  /\ (pc = "exit 0" /\ required) => said = "validated"
  /\ said = "blocked" => installed = "none" \/ \E p \in Pieces : audio[p] \in {"none", "small"}
  /\ said = "validated" =>
       /\ installed = "whole" /\ missing = 0 /\ pairs # {} /\ pairs \subseteq Pieces
       /\ \A p \in Pieces \ pairs : audio[p] = "small"
       /\ \A p \in Pieces : \/ p \in pairs /\ ~Damaged(p)
                            \/ "kill" \in faults
                            \/ "small" \in faults /\ audio[p] = "small"
       /\ "kill" \notin faults /\ limit > 0 => Cardinality(Pieces) = IF limit >= n THEN n ELSE limit

\* It crashes only after a kill, a network failure or a small answer, in this run or an
\* earlier one; or for want of the fixtures, before it has downloaded anything; or because
\* basic_pitch is found and cannot be imported, once all the audio is there.  But of a torn
\* archive it never recovers: each run that begins with one, and without the CSV file, ends
\* no better than it began.
CrashHasCause ==
  /\ pc = "crash" /\ faults = {} =>
       \/ ~fixtures /\ zip = "none"
       \/ installed = "broken" /\ missing = 0 /\ pairs # {}
  /\ doomed => /\ ~(pc \in {"download", "extract", "subset", "midis", "audio", "compare", "exit 0", "exit 2"})
               /\ zip = "torn"
=============================================================================
