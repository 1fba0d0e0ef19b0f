-------------------------- MODULE MCEntryLifecycle --------------------------
(***************************************************************************)
(* Two entries, two keysets and two values of the options; one entry comes *)
(* from an older version.                                                  *)
(***************************************************************************)
EXTENDS EntryLifecycle
CONSTANTS e1, e2
MCMigrated == {e2}
=============================================================================
