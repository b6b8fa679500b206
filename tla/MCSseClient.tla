----------------------------- MODULE MCSseClient -----------------------------
(* SseClient for TLC.                                                      *)
EXTENDS SseClient, TLC
=============================================================================
