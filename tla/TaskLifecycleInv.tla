-------------------------- MODULE TaskLifecycleInv --------------------------
(***************************************************************************)
(* The inductive invariant behind the safety properties of TaskLifecycle,  *)
(* part by part.  Each part ties together two places that the code keeps   *)
(* separately: the row, the step rows, the workflow's history and what an  *)
(* attempt on some worker still remembers.                                 *)
(***************************************************************************)
EXTENDS TaskLifecycle

\* The engine is done: its last stage, and each before it, is in the history.
EngineDone ==
    \/ wf.engine = "langgraph" /\ history["langgraph"] # NoOutput
    \/ wf.engine = "crewai" /\ \A r \in Role : history[r] # NoOutput

\* Nothing starts before it is created, and creation happens once.
CreationOrder ==
    /\ create.pc = "new" =>
         dbStatus = NoRow /\ \A r \in Request : req[r].pc \in {"new", "rejected"}
    /\ create.pc \in {"new", "stored"} => wf.state = "absent"
    /\ wf.state = "absent" =>
         /\ wf.step = NoStep
         /\ wf.engine = requested
         /\ ~wf.offered
         /\ \A w \in Worker : job[w].pc = "idle"
    /\ wf.state # "absent" => wf.step # NoStep

\* Only an auto task is ever routed, and it is unresolved until it is.
RoutedOnlyAuto ==
    /\ requested # "auto" =>
         /\ dbEngine \in {NoEngine, requested}
         /\ wf.engine = requested
         /\ \A w \in Worker : job[w].step # "select"
    /\ wf.step = "select" => wf.engine = "auto"
    /\ wf.step = "select" /\ wf.outcome = "ok" => wf.pick \in Engine
    /\ \A w \in Worker : job[w].step = "select" /\ job[w].pc \in {"read", "ready"}
                            => job[w].pick \in Engine

\* What an activity at step s relies on: the stages before it are in the history.
Prepared(s) ==
    /\ s \in Role => wf.engine = "crewai"
    /\ s = "langgraph" => wf.engine = "langgraph"
    /\ s \in {"analyst", "writer"} => history["researcher"] # NoOutput
    /\ s = "writer" => history["analyst"] # NoOutput
    /\ s \in {"delayed", "finalize"} => EngineDone
    /\ s = "finalize" /\ delayed => probed

\* The stages that have no result in the history while the workflow is at step s.
Ahead(s) ==
    CASE s = "analyst" -> {"analyst", "writer"}
      [] s = "writer"  -> {"writer"}
      [] s \in {NoStep, "initialize", "select", "researcher", "langgraph"} -> Stage
      [] OTHER -> {}

\* The workflow walks its stages in order, and so do attempts left behind.
InOrder ==
    /\ Prepared(wf.step)
    /\ \A w \in Worker : Prepared(job[w].step)
    /\ \A s \in Ahead(wf.step) : history[s] = NoOutput

\* A role's result is the recorded one, wherever it is on its way to the history.
RecordedEverywhere ==
    /\ HistoryIsRecorded
    /\ wf.outcome = "ok" /\ wf.step \in Role =>
         wf.out = steps[wf.step] /\ wf.out # NoOutput
    /\ \A w \in Worker : job[w].pc = "ready" /\ job[w].step \in Role =>
         job[w].out = steps[job[w].step] /\ job[w].out # NoOutput
    /\ wf.outcome = "ok" /\ wf.step = "langgraph" => wf.out # NoOutput
    /\ \A w \in Worker : job[w].pc = "ready" /\ job[w].step = "langgraph" =>
         job[w].out # NoOutput
    /\ wf.outcome = "ok" /\ wf.step = "delayed" => probed
    /\ \A w \in Worker : job[w].pc = "ready" /\ job[w].step = "delayed" => probed

\* A success and its report are one commit, and every later skip rests on it.
ReportWithSuccess ==
    /\ dbReport # NoOutput =>
         dbReport = WorkflowReport /\ EngineDone /\ (delayed => probed)
    /\ dbStatus = "succeeded" => dbReport # NoOutput
    /\ wf.step = "finalize" /\ wf.outcome = "ok" => dbReport # NoOutput
    /\ \A w \in Worker : job[w].step = "finalize" /\ job[w].pc = "ready" => dbReport # NoOutput
    /\ wf.state = "completed" => wf.step = "finalize" /\ wf.outcome = "ok"

\* An attempt or request between its SELECT and its COMMIT saw a status it may leave.
SeenMayMove ==
    /\ \A r \in Request : req[r].pc = "read" => CanTransition(req[r].seen, Target(req[r].op))
    /\ \A w \in Worker : job[w].pc = "read" =>
         /\ job[w].step = "initialize" => job[w].seen = "queued"
         /\ job[w].step = "select" => CanTransition(job[w].seen, "running")
         /\ job[w].step = "markFailed" => job[w].seen \notin Terminal

\* While a pause holds the workflow, nobody has let it go.
PauseHeld ==
    \A r \in Request :
        req[r].op = "pause" /\ req[r].pc \in {"signalled", "read", "compensating", "done"}
            => wf.state # "absent" /\ (wf.state # "running" \/ \E q \in Request : MayHaveResumed(q))

LifecycleInv ==
    /\ TypeOK
    /\ CreationOrder
    /\ RoutedOnlyAuto
    /\ InOrder
    /\ RecordedEverywhere
    /\ ReportWithSuccess
    /\ SeenMayMove
    /\ PauseHeld

-----------------------------------------------------------------------------
(***************************************************************************)
(* A quiet task: no request touches it, no attempt is handed out while it  *)
(* still runs, and a scheduling call that raises has not scheduled.  Any   *)
(* number of workers, crashes and retries remains.  QuietInv then holds    *)
(* beside LifecycleInv: it keeps the row in step with the workflow.        *)
(***************************************************************************)
Quiet == Request = {} /\ MaxRedeliveries = 0 /\ ~AmbiguousCalls

\* At most one worker holds an attempt, and it is the one the workflow waits for.
OneAttempt ==
    /\ wf.offered => wf.outcome = "pending"
    /\ \A w \in Worker : job[w].pc # "idle" => Current(job[w]) /\ ~wf.offered
    /\ \A v, w \in Worker : job[v].pc # "idle" /\ job[w].pc # "idle" => v = w

\* Until it has scheduled the workflow, the create handler alone has the row.
CreateAlone ==
    /\ wf.state # "absent" => create.pc = "done"
    /\ create.pc \in {"stored", "marking", "markRead"} => dbStatus = "queued"
    /\ create.pc = "markRead" => create.seen = "queued"

\* What an activity at step s has made of the status by the time it has answered.
SettledBy(s) ==
    /\ s = "initialize" => dbStatus = "running"
    /\ s = "finalize"   => dbStatus = "succeeded"
    /\ s = "markFailed" => dbStatus \in {"succeeded", "failed"}

\* The status is the one the workflow's step calls for, and no attempt saw an older one.
RowKeepsPace ==
    /\ wf.step = "initialize" => dbStatus \in {"queued", "running"}
    /\ wf.step \in Stage \union {"select", "delayed"} => dbStatus = "running"
    /\ wf.step = "finalize" => dbStatus \in {"running", "succeeded"}
    /\ wf.step = "markFailed" => dbStatus \in {"queued", "running", "succeeded", "failed"}
    /\ wf.outcome = "ok" => SettledBy(wf.step)
    /\ \A w \in Worker : job[w].pc = "ready" => SettledBy(job[w].step)
    /\ \A w \in Worker : job[w].pc = "read" =>
         job[w].seen = dbStatus /\ (job[w].step = "finalize" => dbStatus = "running")
    /\ wf.state = "failed" =>
         wf.step = "markFailed" /\ (wf.outcome = "ok" \/ FailureUnrecorded)

\* Each write of engine_selected reaches the workflow before anything relies on it.
EngineKeepsPace ==
    /\ wf.state # "absent" /\ requested # "auto" /\ dbStatus = "running"
         => dbEngine = requested
    /\ \A w \in Worker : job[w].step = "select" =>
         /\ job[w].pc = "read"  => job[w].seenEngine = dbEngine
         /\ job[w].pc = "ready" => job[w].pick = dbEngine
    /\ wf.step = "select" /\ wf.outcome = "ok" => wf.pick = dbEngine
    /\ wf.step = "initialize" => wf.engine = requested
    /\ RowNamesRunningEngine

\* A report is never left beside another status.
ReportMeansSuccess == dbReport # NoOutput => dbStatus = "succeeded"

QuietInv ==
    /\ OneAttempt
    /\ CreateAlone
    /\ RowKeepsPace
    /\ ReportMeansSuccess
    /\ EngineKeepsPace

=============================================================================
