---------------------------- MODULE MCEntryFlows ----------------------------
(***************************************************************************)
(* Two accounts, one with an entry from before identities were kept, room  *)
(* for two more entries, and two flows at once.                            *)
(***************************************************************************)
EXTENDS EntryFlows, TLC
CONSTANTS e1, e2, e3
MCEntries == {e1, e2, e3}
MCLegacy == {e1}
\* Only what a run never tells apart: no liveness is checked here.
Symmetry == Permutations(Flows) \cup Permutations(Accounts) \cup Permutations({e2, e3})
=============================================================================
