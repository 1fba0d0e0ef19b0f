---------------------------- MODULE MCEndingSoon ----------------------------
(***************************************************************************)
(* EndingSoon on one item that may be listed with two end times, so that   *)
(* two keys fire around the saves of the set and timers are rescheduled.   *)
(***************************************************************************)
EXTENDS EndingSoon
=============================================================================
