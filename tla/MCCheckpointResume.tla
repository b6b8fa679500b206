------------------------- MODULE MCCheckpointResume -------------------------
(* Model values for TLC on CheckpointResume.  Attempts are interchangeable. *)
EXTENDS CheckpointResume, TLC

AttemptSymmetry == Permutations(Attempts)
=============================================================================
