-------------------------- MODULE MCMaestroValidation --------------------------
(* Up to six test pieces, limits from none to four, so that both ways of rounding *)
(* a half come up, two URLs, and two runs in the same work directory, each of     *)
(* which may be killed or lose the network.                                       *)
EXTENDS MaestroValidation

MCSizes == {0, 1, 2, 4, 6}
MCLimits == 0 .. 4
=============================================================================
