--------------------------- MODULE MCRuntimeState ---------------------------
(* RuntimeState for TLC.                                                   *)
EXTENDS RuntimeState, TLC
=============================================================================
