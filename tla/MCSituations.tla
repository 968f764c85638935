---------------------------- MODULE MCSituations ----------------------------
(* The module of the runs of Situations.                                   *)
EXTENDS Situations, TLC

CONSTANTS a1, a2, a3
MCTwo == {a1, a2}
MCThree == {a1, a2, a3}
MCSym == Permutations(MCThree)
=============================================================================
