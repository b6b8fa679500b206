---------------------------- MODULE MCRoleAttempt ----------------------------
(* RoleAttempt for TLC.                                                    *)
EXTENDS RoleAttempt, TLC
=============================================================================
