--------------------------- MODULE MCSellingEvents ---------------------------
(***************************************************************************)
(* SellingEvents on two listings, one of several units.                    *)
(*   disturbed:  truncated lists and failed classifications at will.       *)
(*   reliable:   every list complete, and a reload, for what must be       *)
(*       announced in the end.                                             *)
(*   sale_twice: no disturbance at all, and a sale told twice.             *)
(***************************************************************************)
EXTENDS SellingEvents
CONSTANTS lamp, mugs

MCItems == {lamp, mugs}
MCMulti == {mugs}
=============================================================================
