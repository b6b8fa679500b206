-------------------------- MODULE MCCrewStepCommit --------------------------
(* Model values for TLC on CrewStepCommit.  No symmetry: the runs check    *)
(* liveness.                                                               *)
EXTENDS CrewStepCommit, TLC
=============================================================================
