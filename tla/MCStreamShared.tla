--------------------------- MODULE MCStreamShared ---------------------------
(***************************************************************************)
(* Instances of StreamShared for TLC                                       *)
(***************************************************************************)
EXTENDS StreamSharedApi
=============================================================================
