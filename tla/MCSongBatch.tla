------------------------------ MODULE MCSongBatch ------------------------------
(* Two threads and three entries: a good song, one that is refused by a stage, *)
(* one that breaks a stage, an id that is not one, a song without a source of  *)
(* its own, and two entries with the same id.                                  *)
EXTENDS SongBatch

CONSTANTS s1, s2, untied, odd, lost

Song1(i, s) == [id |-> i, valid |-> TRUE, source |-> s, publish |-> i = "x"]

MCRefused == {<<untied, "notes">>, <<lost, "ingest">>}
MCBroken == {<<odd, "stems">>}

Candidates(i) == {Song1(i, s) : s \in {s1, untied, odd, None}} \cup {[Song1(i, s1) EXCEPT !.valid = FALSE]}

MCManifests ==
  {<<e, f>> : e \in Candidates("x"), f \in Candidates("y")}
  \cup {<<e, f, Song1("z", s1)>> : e \in Candidates("x"), f \in {Song1("y", s1), Song1("y", odd)}}
  \cup {<<Song1("x", s1), Song1("x", s2)>>, <<Song1("x", s2), Song1("y", lost), Song1("x", None)>>}
=============================================================================
