------------------------------ MODULE MCPubsub ------------------------------
(***************************************************************************)
(* Instances of Pubsub for TLC                                             *)
(***************************************************************************)
EXTENDS Pubsub
=============================================================================
