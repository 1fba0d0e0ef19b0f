-------------------------- MODULE MCSectionSchedule --------------------------
(***************************************************************************)
(* SectionSchedule on three sections, in units of the poll interval: one   *)
(* polled every time, one with a long interval and retried before it is    *)
(* over (as account privileges: 360 and 60 minutes at a poll of 30), and   *)
(* messages, every second poll, without its scope; the button of a fourth  *)
(* section, disabled, is there as well.                                    *)
(***************************************************************************)
EXTENDS SectionSchedule, TLC
CONSTANTS selling, privileges, messages, feedback

MCInterval == (selling :> 1) @@ (privileges :> 3) @@ (messages :> 2)
MCRetry == (selling :> 1) @@ (privileges :> 2) @@ (messages :> 2)
MCButtons == {{selling}, {selling, privileges, messages}, {feedback}}
MCSections == {selling, privileges, messages}
MCLenient == {selling}
MCScopeless == {messages}
=============================================================================
