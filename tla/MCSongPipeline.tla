---------------------------- MODULE MCSongPipeline ----------------------------
(* Levels right after hands, two stems, one version and one catalog; a clean  *)
(* score, one with a warning of hands, and two that are refused, by validate  *)
(* and by levels.  Commands: the builds with and without audio, the strict    *)
(* one, each way of resuming, and the stages that run alone.                  *)
EXTENDS SongPipeline

CONSTANTS clean, doubtful, broken, untied

MCLevels == 5
MCFails == {<<broken, Validate>>, <<untied, Levels>>}
MCWarns == {<<doubtful, Hands>>}

Run(from, to) == [from |-> from, to |-> to, audio |-> TRUE, strict |-> FALSE,
                  nearest |-> FALSE, version |-> 1, env |-> "staging"]

MCRuns == {Run(Validate, Pack), [Run(Validate, Pack) EXCEPT !.audio = FALSE],
           [Run(Validate, Pack) EXCEPT !.strict = TRUE],
           Run(Normalize, Pack), [Run(Levels, Pack) EXCEPT !.nearest = TRUE],
           Run(Pack, Pack), Run(Audio, Audio), Run(Publish, Publish)}
=============================================================================
