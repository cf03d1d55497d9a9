------------------------- MODULE MCRequestResponse -------------------------
(***************************************************************************)
(* TLC instances of RequestResponse.                                       *)
(***************************************************************************)
EXTENDS RequestResponse
=============================================================================
