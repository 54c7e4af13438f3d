------------------------------ MODULE SongStages ------------------------------
(***************************************************************************)
(* The stages of the content pipeline (pipeline.build) as functions on the *)
(* song document they hand on.  What a stage computes is abstracted to the *)
(* fact that it ran; what matters is which source the notes come from,     *)
(* what each stage needs of those before it, and which stages refuse.      *)
(*                                                                         *)
(* The stages between hands and levels are all alike for the runner; the   *)
(* code has Levels = 8.                                                    *)
(***************************************************************************)
EXTENDS Naturals, FiniteSets

CONSTANTS
  Source,    \* the score files that may be ingested, each with its provenance
  Levels,    \* the number of the levels stage
  Fails,     \* <<s, k>>: stage k finds an error in source s
  Warns,     \* <<s, k>>: stage k reports a warning for source s
  None,      \* a file or a field that does not exist
  Torn       \* a file whose writing was interrupted

Ingest == 1
Validate == 2
Normalize == 3
Hands == 4
Audio == Levels + 1
Pack == Levels + 2
Publish == Levels + 3

\* The song document: the provenance ingest recorded, the source whose notes it
\* holds, the stages it went through, whether it lists audio files, and the
\* version of the pack it describes.
Document == [ref : Source \cup {None}, score : Source \cup {None},
             ran : SUBSET (Ingest .. Publish), audio : BOOLEAN,
             pack : Nat \cup {None}]

ASSUME StagesAssumption ==
  /\ Levels \in Nat /\ Levels > Hands
  /\ Fails \subseteq Source \X (Validate .. Levels)
  /\ Warns \subseteq Source \X (Validate .. Levels)
  /\ {None, Torn} \cap (Source \cup Document) = {} /\ None # Torn

BlankDoc == [ref |-> None, score |-> None, ran |-> {}, audio |-> FALSE, pack |-> None]

IngestedDoc(s) == [BlankDoc EXCEPT !.ref = s, !.ran = {Ingest}]

\* Definitions named Faulty... are seeded faults: each replaces the definition
\* after it in a run that must then fail, and is used nowhere else.

\* _load_previous: the stored document of the nearest stage before k.
FaultyLoadPrevious(stored, k) ==
  LET present == {j \in DOMAIN stored \cap (1 .. k) : stored[j] # None}
  IN IF present = {} THEN BlankDoc
                     ELSE stored[CHOOSE j \in present : \A i \in present : i <= j]

LoadPrevious(stored, k) ==
  LET present == {j \in DOMAIN stored \cap (1 .. k - 1) : stored[j] # None}
  IN IF present = {} THEN BlankDoc
                     ELSE stored[CHOOSE j \in present : \A i \in present : i <= j]

\* What stage k takes from the stages before it and does not work without.
\* Packing a document without notes is possible, and one whose notes have no
\* hand fails the pack's schema.
CanRun(k, doc) ==
  CASE k = Normalize -> doc.score # None
    [] k = Hands     -> Normalize \in doc.ran
    [] k = Audio     -> {Normalize, Levels} \subseteq doc.ran
    [] k = Pack      -> Normalize \in doc.ran /\ (Levels \in doc.ran => Hands \in doc.ran)
    [] OTHER         -> TRUE

\* The document stage k stores.  Validate parses the source file s; when that has
\* errors, validate hands on its input as it is, and the runner stores that.
FaultyStageOutput(k, doc, s) ==
  [doc EXCEPT !.ran = @ \cup {k}, !.score = IF k = Validate THEN s ELSE @]

StageOutput(k, doc, s) ==
  IF k = Validate /\ <<s, k>> \in Fails
  THEN doc
  ELSE [doc EXCEPT !.ran = @ \cup {k}, !.score = IF k = Validate THEN s ELSE @]
=============================================================================
