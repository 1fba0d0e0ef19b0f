--------------------------- MODULE MCRepairStreaks ---------------------------
(***************************************************************************)
(* Orders unavailable (fulfillment) and the user lookup of feedback        *)
(* failing, both classified.  A collection cut short goes the way of       *)
(* orders that fail without a classification.                              *)
(***************************************************************************)
EXTENDS RepairStreaks
CONSTANTS orders, lookup, fulfillment, feedback
MCUnavailable == {orders}
MCPartial == {lookup}
MCClassified == {orders, lookup}
MCSections == {fulfillment, feedback}
MCOwner == [c \in {orders, lookup} |-> IF c = orders THEN fulfillment ELSE feedback]
=============================================================================
