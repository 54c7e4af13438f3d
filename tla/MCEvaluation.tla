----------------------------- MODULE MCEvaluation -----------------------------
(* Every reference of up to two notes against every estimate of up to two, some *)
(* chords of three, the oracle on all of them; every pitch track of up to six   *)
(* frames; and corpora whose files are heard again and rewritten meanwhile.     *)
EXTENDS Evaluation

Note(on, length, pitch) == [on |-> on, off |-> on + length, pitch |-> pitch]
Frame(pitch, curve) == [pitch |-> pitch, curve |-> curve]
Take(notes, pyin, yin) == [notes |-> notes, pyin |-> pyin, yin |-> yin]
Pair(audio, midi) == [audio |-> audio, midi |-> midi]

RefNotes == {Note(on, 2, pitch) : on \in {0, 1, 3}, pitch \in {60, 72}}
EstNotes == {Note(on, 2, pitch) : on \in {0, 2, 5}, pitch \in {60, 72}} \cup {Note(2, 6, 60), Note(2, 2, 61)}
Chords == {<<Note(0, 2, 72), Note(on, 2, 60), Note(1, 2, pitch)>> : on \in {0, 2}, pitch \in {60, 64}}

Midis == {<<notes>> : notes \in BoundedSeq(RefNotes, 2) \cup Chords}
           \cup {<<<<Note(3, 2, 60)>>, <<Note(0, 2, 72)>>>>}
Estimates == BoundedSeq(EstNotes, 2)
               \cup Chords \cup {<<Note(2, -1, 60)>>, <<Note(2, 0, 60)>>}

One(wrapper, ready, cents, midi, take) ==
  [wrapper |-> wrapper, ready |-> ready, cents |-> cents, corpus |-> <<Pair("a", midi)>>,
   takes |-> [a \in {"a"} |-> take], rewrites |-> 0]

Short == Take(<<Note(0, 2, 60)>>, <<240, 240>>, <<>>)
Long == Take(<<Note(0, 2, 60), Note(3, 2, 72)>>, <<240, 240, Unvoiced, 288, 288>>, <<>>)
Wrong == Take(<<Note(1, 6, 48)>>, <<192, 192, 192>>, <<>>)

ShortMidi == <<Short.notes>>
LongMidi == <<Long.notes>>

Scored == {One("basic-pitch", TRUE, cents, m, Take(e, <<>>, <<>>)) :
             m \in Midis, e \in Estimates, cents \in {50, 150}}
Oracle == {One("ground-truth", TRUE, cents, m, Short) : m \in Midis, cents \in {50, 150}}

Tracks == UNION {[1 .. n -> {240, 241, 243, Unvoiced}] : n \in 0 .. 6}
Curves == {Frame(240, <<9, 9, 1, 0, 9>>), Frame(241, <<0, 9, 3, 4, 5>>), Frame(243, <<9, 9, 9, 9, 1>>),
           Frame(0, <<9, 0, 3, 8, 9>>), Frame(0, <<9, 0, 4, 10, 9>>)}
Heard == {One("pyin-baseline", TRUE, 50, ShortMidi, Take(<<>>, track, <<>>)) : track \in Tracks}
           \cup {One("pyin-baseline", FALSE, 50, ShortMidi, Take(<<>>, <<>>, frames)) : frames \in BoundedSeq(Curves, 5)}

Blocked == {One(w, FALSE, 50, ShortMidi, Short) : w \in {"engine-yin", "basic-pitch", "oaf-tflite"}}
             \cup {[One("ground-truth", TRUE, 50, ShortMidi, Short) EXCEPT !.corpus = <<>>]}

Rewritten ==
  {[wrapper |-> w, ready |-> TRUE, cents |-> 50, corpus |-> corpus, takes |-> [f \in {"a", "b"} |-> t], rewrites |-> 2] :
     w \in {"engine-yin", "pyin-baseline", "ground-truth"}, t \in {Short, Long},
     corpus \in {<<Pair("a", ShortMidi), Pair("a", LongMidi), Pair("a", ShortMidi)>>,
                 <<Pair("b", LongMidi), Pair("a", LongMidi)>>}}

MCSettings == Scored \cup Oracle \cup Heard \cup Blocked \cup Rewritten
MCRetakes == {Long, Wrong}
=============================================================================
