----------------------------- MODULE TaskPromise ----------------------------
(***************************************************************************)
(* What the platform promises about a task's ROW: its status moves along   *)
(* the documented machine only (one commit may take queued or paused       *)
(* through running to failed), and a report appears with success and never *)
(* changes afterwards.                                                     *)
(***************************************************************************)
EXTENDS TaskStatus

CONSTANTS Output, NoOutput

VARIABLES status, report

Init == status = NoRow /\ report = NoOutput

Accept ==
    /\ status = NoRow
    /\ status' = "queued"
    /\ UNCHANGED report

Succeed ==
    /\ CanTransition(status, "succeeded")
    /\ status # "succeeded"
    /\ status' = "succeeded"
    /\ report' \in Output

Fail ==
    /\ status \in {"queued", "running", "paused"}
    /\ status' = "failed"
    /\ UNCHANGED report

Move(target) ==
    /\ <<status, target>> \in AllowedTransitions
    /\ status' = target
    /\ UNCHANGED report

Next ==
    \/ Accept
    \/ Succeed
    \/ Fail
    \/ \E target \in {"running", "paused", "cancelled"} : Move(target)

Spec == Init /\ [][Next]_<<status, report>>

=============================================================================
