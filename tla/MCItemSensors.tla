---------------------------- MODULE MCItemSensors ----------------------------
(***************************************************************************)
(* Three items for two places, two of them with enabled sensors; a poll and *)
(* a button that overlap.                                                  *)
(***************************************************************************)
EXTENDS ItemSensors, TLC
MCItems == 1..3
MCEnabled == {1, 3}
Symmetry == Permutations(Runs)
=============================================================================
