---------------------------- MODULE MCReconnect ----------------------------
(***************************************************************************)
(* TLC instances of Reconnect.                                             *)
(***************************************************************************)
EXTENDS Reconnect
=============================================================================
