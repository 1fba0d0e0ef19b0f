---------------------------- MODULE MCTransitions ----------------------------
(***************************************************************************)
(* Every list, with two items on it.                                       *)
(***************************************************************************)
EXTENDS Transitions, TLC
MCKinds == DOMAIN Flags
Symmetry == Permutations(Ids)
=============================================================================
