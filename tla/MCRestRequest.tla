---------------------------- MODULE MCRestRequest ----------------------------
(***************************************************************************)
(* RestRequest on two calls of one client, as when a refresh button is     *)
(* pressed during a poll.                                                  *)
(***************************************************************************)
EXTENDS RestRequest
CONSTANTS poll, button, seller

OneClient == [t \in Calls |-> seller]
=============================================================================
