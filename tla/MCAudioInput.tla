----------------------------- MODULE MCAudioInput -----------------------------
(* A ring of four frames whose counters wrap after four laps; bursts of      *)
(* three and of five frames (the latter never fit); reads of up to two or    *)
(* four.                                                                     *)
EXTENDS AudioInput

MCMaxFrames == 18
MCSample == 1 .. MCMaxFrames
MCBurstSizes == {3, 5}
MCReadSizes == {2, 4}
MCBlock == {Burst(d, n) : d \in 0 .. MCMaxFrames - 1, n \in MCBurstSizes}
              \cap Seq(MCSample)
MCCapacity == 4
MCWord == 16
=============================================================================
