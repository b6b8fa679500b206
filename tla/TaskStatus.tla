----------------------------- MODULE TaskStatus -----------------------------
(***************************************************************************)
(* The task status machine of persistence/state_machine.py: the statuses a *)
(* row of the tasks table may hold, and the transitions that               *)
(* update_task_status accepts.  Pure definitions, no state.                *)
(***************************************************************************)

Status == {"queued", "running", "paused", "succeeded", "failed", "cancelled"}

\* The row does not exist yet.
NoRow == "absent"

(***************************************************************************)
(* ALLOWED_TRANSITIONS as a relation.  succeeded and cancelled have no     *)
(* successor.  failed may be left again, to running.                       *)
(***************************************************************************)
AllowedTransitions ==
    {<<"queued", "running">>,   <<"queued", "cancelled">>,
     <<"running", "paused">>,   <<"running", "succeeded">>,
     <<"running", "failed">>,   <<"running", "cancelled">>,
     <<"paused", "running">>,   <<"paused", "cancelled">>,
     <<"failed", "running">>}

\* can_transition: repeating the current status is always allowed.
CanTransition(current, target) ==
    \/ current = target
    \/ <<current, target>> \in AllowedTransitions

\* TERMINAL_STATUSES of api/routes/tasks.py, what a client waits for.
Terminal == {"succeeded", "failed", "cancelled"}

\* engine_requested and engine_selected.
Engine == {"langgraph", "crewai"}
EngineChoice == Engine \union {"auto"}
NoEngine == "none"

=============================================================================
