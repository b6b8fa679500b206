--------------------------- MODULE TaskLifecycle ----------------------------
(***************************************************************************)
(* The life of ONE task, from POST /api/tasks to its terminal status.      *)
(*                                                                         *)
(* Four kinds of actor share the task's row and its workflow instance:     *)
(*   - the create handler (TaskService.create_task);                       *)
(*   - pause and resume requests (pause_task, resume_task);                *)
(*   - the orchestrator that runs task_orchestration, one activity at a    *)
(*     time under a retry policy (the Dapr workflow runtime);              *)
(*   - the workers that execute the activities of task_activities.py,      *)
(*     which the runtime may hand the same attempt more than once.         *)
(* Tasks share no row and no workflow instance, so one task is enough.     *)
(*                                                                         *)
(* A database transaction that writes the row is TWO steps, its SELECT and *)
(* its COMMIT: update_task_status takes no row lock and checks no version, *)
(* so the row may change in between.  Only columns whose value differs     *)
(* from the one read are written, as the session's dirty tracking does.    *)
(***************************************************************************)
EXTENDS Naturals, FiniteSets, TaskStatus

CONSTANTS
    Request,          \* pause / resume HTTP requests that clients may send
    Worker,           \* activity slots: threads of the worker processes
    Output,           \* what an LLM-backed activity may produce
    NoOutput,         \* no output yet
    RetryLimit,       \* max_number_of_attempts of each step's retry policy
    MaxRedeliveries,  \* bound: attempts handed out again while one still runs
    MaxCrashes,       \* bound: worker crashes
    AmbiguousCalls    \* may a workflow call take effect and still raise?

Role == {"researcher", "analyst", "writer"}
\* Activities whose result is kept as text by the workflow.
Stage == Role \union {"langgraph"}
\* The activities task_orchestration calls.
Step == Stage \union {"initialize", "select", "delayed", "finalize", "markFailed"}
NoStep == "none"

ASSUME LifecycleAssumption ==
    /\ NoOutput \notin Output
    /\ RetryLimit \in [Step -> Nat \ {0}]
    /\ MaxRedeliveries \in Nat
    /\ MaxCrashes \in Nat
    /\ AmbiguousCalls \in BOOLEAN

VARIABLES
    requested,   \* engine_requested of the task, an EngineChoice
    delayed,     \* delay_seconds > 0?
    dbStatus,    \* tasks.status, or NoRow
    dbEngine,    \* tasks.engine_selected
    dbReport,    \* tasks.report
    steps,       \* task_steps.output_json by role
    probed,      \* is there a task_steps row for the delayed probe?
    create,      \* [pc, seen]: the create handler
    req,         \* [op, pc, seen] of each pause / resume request
    wf,          \* the workflow instance, see WorkflowType
    history,     \* the results of completed activities, by stage
    job,         \* the attempt each worker is executing, see JobType
    redeliveries,\* counts Redeliver
    crashes      \* counts WorkerCrash

input     == <<requested, delayed>>
row       == <<dbStatus, dbEngine, dbReport>>
stepTable == <<steps, probed>>
bounds    == <<redeliveries, crashes>>
vars == <<input, row, stepTable, create, req, wf, history, job, bounds>>

MaybeOutput == Output \union {NoOutput}
MaybeEngine == Engine \union {NoEngine}

(***************************************************************************)
(* wf.step and wf.try name the attempt the workflow waits for.  offered:   *)
(* the runtime may still hand it to a worker.  outcome: what the first     *)
(* completion of that attempt said; out and pick are its result.  engine   *)
(* is resolved_engine of task_orchestration.                               *)
(***************************************************************************)
WorkflowType ==
    [state   : {"absent", "running", "suspended", "completed", "failed"},
     step    : Step \union {NoStep},
     try     : Nat,
     offered : BOOLEAN,
     outcome : {"pending", "ok", "err"},
     out     : MaybeOutput,
     pick    : MaybeEngine,
     engine  : EngineChoice]

(***************************************************************************)
(* seen and seenEngine are what the attempt's SELECT returned.  "ready":   *)
(* its writes are committed and only its result is still to be returned.   *)
(***************************************************************************)
JobType ==
    [pc         : {"idle", "started", "read", "ready"},
     step       : Step \union {NoStep},
     try        : Nat,
     seen       : Status \union {NoRow},
     seenEngine : MaybeEngine,
     out        : MaybeOutput,
     pick       : MaybeEngine]

CreateType ==
    [pc   : {"new", "stored", "marking", "markRead", "done", "unavailable", "error"},
     seen : Status \union {NoRow}]

RequestType ==
    [op   : {"pause", "resume"},
     pc   : {"new", "checked", "signalled", "read", "compensating",
             "done", "rejected", "refused", "error"},
     seen : Status \union {NoRow}]

TypeOK ==
    /\ requested \in EngineChoice
    /\ delayed \in BOOLEAN
    /\ dbStatus \in Status \union {NoRow}
    /\ dbEngine \in MaybeEngine
    /\ dbReport \in MaybeOutput
    /\ steps \in [Role -> MaybeOutput]
    /\ probed \in BOOLEAN
    /\ create \in CreateType
    /\ req \in [Request -> RequestType]
    /\ wf \in WorkflowType
    /\ history \in [Stage -> MaybeOutput]
    /\ job \in [Worker -> JobType]
    /\ redeliveries \in Nat
    /\ crashes \in Nat

IdleJob == [pc |-> "idle", step |-> NoStep, try |-> 0, seen |-> NoRow,
            seenEngine |-> NoEngine, out |-> NoOutput, pick |-> NoEngine]

Init ==
    /\ requested \in EngineChoice
    /\ delayed \in BOOLEAN
    /\ dbStatus = NoRow
    /\ dbEngine = NoEngine
    /\ dbReport = NoOutput
    /\ steps = [r \in Role |-> NoOutput]
    /\ probed = FALSE
    /\ create = [pc |-> "new", seen |-> NoRow]
    /\ req \in [Request -> [op : {"pause", "resume"}, pc : {"new"}, seen : {NoRow}]]
    /\ wf = [state |-> "absent", step |-> NoStep, try |-> 0, offered |-> FALSE,
             outcome |-> "pending", out |-> NoOutput, pick |-> NoEngine,
             engine |-> requested]
    /\ history = [s \in Stage |-> NoOutput]
    /\ job = [w \in Worker |-> IdleJob]
    /\ redeliveries = 0
    /\ crashes = 0

-----------------------------------------------------------------------------
(* What a transaction writes.                                              *)

\* The status column is written only when it differs from the value read.
Written(seen, target, current) == IF seen = target THEN current ELSE target

-----------------------------------------------------------------------------
(* The create handler.                                                     *)

CreateAt(from, to) ==
    /\ create.pc = from
    /\ create' = [create EXCEPT !.pc = to]

\* Row and user message, one commit.
CreateStore ==
    /\ CreateAt("new", "stored")
    /\ dbStatus' = "queued"
    /\ UNCHANGED <<input, dbEngine, dbReport, stepTable, req, wf, history, job, bounds>>

(***************************************************************************)
(* Any exception that leaves the handler, or the end of the API process:   *)
(* reading preferences or the session before the commit, append_message    *)
(* between commit and schedule, the transaction of _mark_scheduling_failed.*)
(***************************************************************************)
CreateAborts ==
    /\ create.pc \in {"new", "stored", "marking", "markRead"}
    /\ create' = [pc |-> "error", seen |-> NoRow]
    /\ UNCHANGED <<input, row, stepTable, req, wf, history, job, bounds>>

\* Ask for the attempt try of step, as ctx.call_activity does.
Schedule(w, step, try) ==
    [w EXCEPT !.step = step, !.try = try, !.offered = TRUE,
              !.outcome = "pending", !.out = NoOutput, !.pick = NoEngine]

\* schedule_new_workflow: the instance starts with its first activity.
WorkflowStarts == wf' = Schedule([wf EXCEPT !.state = "running"], "initialize", 1)

CreateScheduled ==
    /\ CreateAt("stored", "done")
    /\ WorkflowStarts
    /\ UNCHANGED <<input, row, stepTable, req, history, job, bounds>>

\* schedule_task raises; with AmbiguousCalls the instance may exist all the same.
CreateScheduleRaises ==
    /\ CreateAt("stored", "marking")
    /\ UNCHANGED wf \/ (AmbiguousCalls /\ WorkflowStarts)
    /\ UNCHANGED <<input, row, stepTable, req, history, job, bounds>>

MarkSchedulingFailedRead ==
    /\ create.pc = "marking"
    /\ create' = [pc |-> "markRead", seen |-> dbStatus]
    /\ UNCHANGED <<input, row, stepTable, req, wf, history, job, bounds>>

\* queued goes to running and on to failed inside one transaction.
MarkSchedulingFailedCommit ==
    /\ create.pc = "markRead"
    /\ create' = [pc |-> "unavailable", seen |-> NoRow]
    /\ dbStatus' = IF create.seen \in {"queued", "running"} THEN "failed" ELSE dbStatus
    /\ UNCHANGED <<input, dbEngine, dbReport, stepTable, req, wf, history, job, bounds>>

-----------------------------------------------------------------------------
(* Pause and resume requests.                                              *)

Target(op) == IF op = "pause" THEN "paused" ELSE "running"
Opposite(op) == IF op = "pause" THEN "resume" ELSE "pause"

\* pause_workflow and resume_workflow on the instance, whatever its state.
SignalWorkflow(op) ==
    wf' = CASE op = "pause"  /\ wf.state = "running"   -> [wf EXCEPT !.state = "suspended"]
            [] op = "resume" /\ wf.state = "suspended" -> [wf EXCEPT !.state = "running"]
            [] OTHER -> wf

\* What a transaction has seen dies with it, so leaving a step forgets it.
ReqAt(r, from, to) ==
    /\ req[r].pc = from
    /\ req' = [req EXCEPT ![r].pc = to, ![r].seen = NoRow]

\* _load_workflow_id_for_transition: 404 without a row, 409 on a bad transition.
RequestCheck(r) ==
    /\ req[r].pc = "new"
    /\ LET ok == dbStatus # NoRow /\ CanTransition(dbStatus, Target(req[r].op))
       IN  req' = [req EXCEPT ![r].pc = IF ok THEN "checked" ELSE "rejected"]
    /\ UNCHANGED <<input, row, stepTable, create, wf, history, job, bounds>>

\* Variant: the scheduler is not told.
RequestSignalForgotten(r) ==
    /\ ReqAt(r, "checked", "signalled")
    /\ wf.state # "absent"
    /\ UNCHANGED <<input, row, stepTable, create, wf, history, job, bounds>>

RequestSignal(r) ==
    /\ ReqAt(r, "checked", "signalled")
    /\ wf.state # "absent"
    /\ SignalWorkflow(req[r].op)
    /\ UNCHANGED <<input, row, stepTable, create, history, job, bounds>>

\* The scheduler call raises: nothing has been compensated or persisted.
RequestSignalRaises(r) ==
    /\ ReqAt(r, "checked", "refused")
    /\ UNCHANGED wf \/ (AmbiguousCalls /\ SignalWorkflow(req[r].op))
    /\ UNCHANGED <<input, row, stepTable, create, history, job, bounds>>

\* Variant: no assert_transition, the check made before the signal is trusted.
RequestPersistUnchecked(r) ==
    /\ req[r].pc = "signalled"
    /\ req' = [req EXCEPT ![r].pc = "read", ![r].seen = dbStatus]
    /\ UNCHANGED <<input, row, stepTable, create, wf, history, job, bounds>>

\* _persist_task_status: its SELECT and assert_transition.
RequestPersistRead(r) ==
    /\ req[r].pc = "signalled"
    /\ LET ok == CanTransition(dbStatus, Target(req[r].op))
       IN  req' = [req EXCEPT ![r].pc = IF ok THEN "read" ELSE "compensating",
                              ![r].seen = IF ok THEN dbStatus ELSE NoRow]
    /\ UNCHANGED <<input, row, stepTable, create, wf, history, job, bounds>>

RequestPersistCommit(r) ==
    /\ ReqAt(r, "read", "done")
    /\ dbStatus' = Written(req[r].seen, Target(req[r].op), dbStatus)
    /\ UNCHANGED <<input, dbEngine, dbReport, stepTable, create, wf, history, job, bounds>>

\* The database raises in _persist_task_status.
RequestPersistRaises(r) ==
    /\ ReqAt(r, "signalled", "compensating") \/ ReqAt(r, "read", "compensating")
    /\ UNCHANGED <<input, row, stepTable, create, wf, history, job, bounds>>

\* The opposite signal; when it raises too, that is only logged.
RequestCompensate(r) ==
    /\ ReqAt(r, "compensating", "error")
    /\ SignalWorkflow(Opposite(req[r].op)) \/ UNCHANGED wf
    /\ UNCHANGED <<input, row, stepTable, create, history, job, bounds>>

\* The API process ends while the request is under way.
RequestCrash(r) ==
    /\ \E pc \in {"checked", "signalled", "read", "compensating"} : ReqAt(r, pc, "error")
    /\ UNCHANGED <<input, row, stepTable, create, wf, history, job, bounds>>

-----------------------------------------------------------------------------
(* The orchestrator.  It makes progress only while the instance runs.      *)

FirstStage(engine) == IF engine = "langgraph" THEN "langgraph" ELSE "researcher"

\* Variant: the router is asked whatever engine was requested.
NextStepAlwaysRoutes(step, engine) ==
    CASE step = "initialize" -> "select"
      [] step = "select"     -> FirstStage(engine)
      [] step = "researcher" -> "analyst"
      [] step = "analyst"    -> "writer"
      [] OTHER -> "finalize"

\* Variant: the delayed probe is skipped.
NextStepNoProbe(step, engine) ==
    CASE step = "initialize" -> IF engine = "auto" THEN "select" ELSE FirstStage(engine)
      [] step = "select"     -> FirstStage(engine)
      [] step = "researcher" -> "analyst"
      [] step = "analyst"    -> "writer"
      [] OTHER -> "finalize"

\* The activity task_orchestration calls after step, the engine being resolved.
NextStep(step, engine) ==
    CASE step = "initialize" -> IF engine = "auto" THEN "select" ELSE FirstStage(engine)
      [] step = "select"     -> FirstStage(engine)
      [] step = "researcher" -> "analyst"
      [] step = "analyst"    -> "writer"
      [] step \in {"writer", "langgraph"} -> IF delayed THEN "delayed" ELSE "finalize"
      [] OTHER -> "finalize"

\* report of task_orchestration once its engine is done.
WorkflowReport == history[IF wf.engine = "langgraph" THEN "langgraph" ELSE "writer"]

Answered(outcome) == wf.state = "running" /\ wf.outcome = outcome
OutOfTries == wf.try >= RetryLimit[wf.step]

\* An activity returned: take its result, call the next one.
Advance ==
    /\ Answered("ok")
    /\ wf.step \notin {"finalize", "markFailed"}
    /\ LET engine == IF wf.step = "select" THEN wf.pick ELSE wf.engine
       IN  wf' = Schedule([wf EXCEPT !.engine = engine], NextStep(wf.step, engine), 1)
    /\ history' = IF wf.step \in Stage
                  THEN [history EXCEPT ![wf.step] = wf.out] ELSE history
    /\ UNCHANGED <<input, row, stepTable, create, req, job, bounds>>

\* The retry policy asks for another attempt of the same activity.
Retry ==
    /\ Answered("err")
    /\ ~OutOfTries
    /\ wf' = Schedule(wf, wf.step, wf.try + 1)
    /\ UNCHANGED <<input, row, stepTable, create, req, history, job, bounds>>

\* Variant: the workflow re-raises without mark_task_failed.
GiveUpSilently ==
    /\ Answered("err")
    /\ OutOfTries
    /\ wf.step # "markFailed"
    /\ wf' = [wf EXCEPT !.state = "failed"]
    /\ UNCHANGED <<input, row, stepTable, create, req, history, job, bounds>>

\* except Exception: the last attempt failed, call mark_task_failed.
GiveUp ==
    /\ Answered("err")
    /\ OutOfTries
    /\ wf.step # "markFailed"
    /\ wf' = Schedule(wf, "markFailed", 1)
    /\ UNCHANGED <<input, row, stepTable, create, req, history, job, bounds>>

Complete ==
    /\ Answered("ok")
    /\ wf.step = "finalize"
    /\ wf' = [wf EXCEPT !.state = "completed"]
    /\ UNCHANGED <<input, row, stepTable, create, req, history, job, bounds>>

\* The workflow re-raises, whether mark_task_failed returned or ran out of tries.
RaiseOut ==
    /\ wf.step = "markFailed"
    /\ Answered("ok") \/ (Answered("err") /\ OutOfTries)
    /\ wf' = [wf EXCEPT !.state = "failed"]
    /\ UNCHANGED <<input, row, stepTable, create, req, history, job, bounds>>

-----------------------------------------------------------------------------
(* The workers.                                                            *)

Current(j) == j.step = wf.step /\ j.try = wf.try /\ wf.outcome = "pending"

JobStart(w) ==
    /\ wf.offered
    /\ job[w].pc = "idle"
    /\ job' = [job EXCEPT ![w] = [IdleJob EXCEPT !.pc = "started", !.step = wf.step,
                                                 !.try = wf.try]]
    /\ wf' = [wf EXCEPT !.offered = FALSE]
    /\ UNCHANGED <<input, row, stepTable, create, req, history, bounds>>

\* The runtime loses track of a delivery and hands the same attempt out again.
Redeliver ==
    /\ redeliveries < MaxRedeliveries
    /\ wf.state \in {"running", "suspended"}
    /\ wf.outcome = "pending"
    /\ ~wf.offered
    /\ wf' = [wf EXCEPT !.offered = TRUE]
    /\ redeliveries' = redeliveries + 1
    /\ UNCHANGED <<input, row, stepTable, create, req, history, job, crashes>>

\* The worker dies, its open transaction is lost, the attempt is handed out again.
WorkerCrash(w) ==
    /\ crashes < MaxCrashes
    /\ job[w].pc # "idle"
    /\ job' = [job EXCEPT ![w] = IdleJob]
    /\ wf' = [wf EXCEPT !.offered = @ \/ Current(job[w])]
    /\ crashes' = crashes + 1
    /\ UNCHANGED <<input, row, stepTable, create, req, history, redeliveries>>

\* The attempt raises: an error, a timeout of wait_for, also after its commit.
JobFail(w) ==
    /\ job[w].pc # "idle"
    /\ wf' = IF Current(job[w]) THEN [wf EXCEPT !.outcome = "err", !.offered = FALSE] ELSE wf
    /\ job' = [job EXCEPT ![w] = IdleJob]
    /\ UNCHANGED <<input, row, stepTable, create, req, history, bounds>>

\* The attempt returns.  Only the first completion of the current attempt counts.
JobReturn(w) ==
    /\ job[w].pc = "ready"
    /\ wf' = IF Current(job[w])
             THEN [wf EXCEPT !.outcome = "ok", !.offered = FALSE,
                             !.out = job[w].out, !.pick = job[w].pick]
             ELSE wf
    /\ job' = [job EXCEPT ![w] = IdleJob]
    /\ UNCHANGED <<input, row, stepTable, create, req, history, bounds>>

JobAt(w, from, step) == job[w].pc = from /\ job[w].step = step

\* The SELECT of an activity, then on to its COMMIT or, with nothing to do, its return.
JobRead(w, nothingToDo) ==
    job' = IF nothingToDo
           THEN [job EXCEPT ![w].pc = "ready"]
           ELSE [job EXCEPT ![w].pc = "read", ![w].seen = dbStatus]

JobCommitted(w) ==
    job' = [job EXCEPT ![w].pc = "ready", ![w].seen = NoRow, ![w].seenEngine = NoEngine]

InitializeRead(w) ==
    /\ JobAt(w, "started", "initialize")
    /\ JobRead(w, dbStatus # "queued")
    /\ UNCHANGED <<input, row, stepTable, create, req, wf, history, bounds>>

\* Variant: engine_requested is copied as it is, auto included.
InitializeCommitAnyEngine(w) ==
    /\ JobAt(w, "read", "initialize")
    /\ dbStatus' = "running"
    /\ dbEngine' = requested
    /\ JobCommitted(w)
    /\ UNCHANGED <<input, dbReport, stepTable, create, req, wf, history, bounds>>

\* A manual engine is settled here; auto is left to select_engine.
InitializeCommit(w) ==
    /\ JobAt(w, "read", "initialize")
    /\ dbStatus' = "running"
    /\ dbEngine' = IF requested = "auto" THEN dbEngine ELSE requested
    /\ JobCommitted(w)
    /\ UNCHANGED <<input, dbReport, stepTable, create, req, wf, history, bounds>>

\* EngineRouter.select decides, then the transaction reads the row.
SelectRead(w) ==
    /\ JobAt(w, "started", "select")
    /\ CanTransition(dbStatus, "running")
    /\ \E engine \in Engine :
         job' = [job EXCEPT ![w].pc = "read", ![w].seen = dbStatus,
                            ![w].seenEngine = dbEngine, ![w].pick = engine]
    /\ UNCHANGED <<input, row, stepTable, create, req, wf, history, bounds>>

\* Variant: an engine already in the row is kept.
SelectCommitKeepsFirst(w) ==
    /\ JobAt(w, "read", "select")
    /\ dbStatus' = Written(job[w].seen, "running", dbStatus)
    /\ dbEngine' = IF job[w].seenEngine = NoEngine THEN job[w].pick ELSE dbEngine
    /\ JobCommitted(w)
    /\ UNCHANGED <<input, dbReport, stepTable, create, req, wf, history, bounds>>

SelectCommit(w) ==
    /\ JobAt(w, "read", "select")
    /\ dbStatus' = Written(job[w].seen, "running", dbStatus)
    /\ dbEngine' = Written(job[w].seenEngine, job[w].pick, dbEngine)
    /\ JobCommitted(w)
    /\ UNCHANGED <<input, dbReport, stepTable, create, req, wf, history, bounds>>

\* Variant: after losing to a peer the attempt returns its own output.
RoleCommitOwnOutput(w) ==
    /\ job[w].pc = "started"
    /\ job[w].step \in Role
    /\ \E o \in Output :
         /\ steps' = [steps EXCEPT ![job[w].step] = IF @ = NoOutput THEN o ELSE @]
         /\ job' = [job EXCEPT ![w].pc = "ready", ![w].out = o]
    /\ UNCHANGED <<input, row, probed, create, req, wf, history, bounds>>

\* Variant: no idempotency key, the row is written again.
RoleCommitOverwrites(w) ==
    /\ job[w].pc = "started"
    /\ job[w].step \in Role
    /\ \E o \in Output :
         /\ steps' = [steps EXCEPT ![job[w].step] = o]
         /\ job' = [job EXCEPT ![w].pc = "ready", ![w].out = o]
    /\ UNCHANGED <<input, row, probed, create, req, wf, history, bounds>>

\* A role runs, or its recorded output is found; what it returns is the recorded output.
RoleCommit(w) ==
    /\ job[w].pc = "started"
    /\ job[w].step \in Role
    /\ \E o \in Output :
         /\ steps' = [steps EXCEPT ![job[w].step] = IF @ = NoOutput THEN o ELSE @]
         /\ job' = [job EXCEPT ![w].pc = "ready", ![w].out = steps'[job[w].step]]
    /\ UNCHANGED <<input, row, probed, create, req, wf, history, bounds>>

\* The graph runs, from its checkpoint or from the start; it returns its report.
LanggraphRun(w) ==
    /\ JobAt(w, "started", "langgraph")
    /\ \E o \in Output : job' = [job EXCEPT ![w].pc = "ready", ![w].out = o]
    /\ UNCHANGED <<input, row, stepTable, create, req, wf, history, bounds>>

\* Sleep, then record the probe unless it is there already.
DelayedCommit(w) ==
    /\ JobAt(w, "started", "delayed")
    /\ probed' = TRUE
    /\ JobCommitted(w)
    /\ UNCHANGED <<input, row, steps, create, req, wf, history, bounds>>

\* Variant: a task that is not running is taken as already finished.
FinalizeReadSkips(w) ==
    /\ JobAt(w, "started", "finalize")
    /\ JobRead(w, dbStatus # "running")
    /\ UNCHANGED <<input, row, stepTable, create, req, wf, history, bounds>>

\* succeeded: nothing to do.  A status that cannot succeed raises: see JobFail.
FinalizeRead(w) ==
    /\ JobAt(w, "started", "finalize")
    /\ CanTransition(dbStatus, "succeeded")
    /\ JobRead(w, dbStatus = "succeeded")
    /\ UNCHANGED <<input, row, stepTable, create, req, wf, history, bounds>>

FinalizeCommit(w) ==
    /\ JobAt(w, "read", "finalize")
    /\ dbStatus' = "succeeded"
    /\ dbReport' = WorkflowReport
    /\ JobCommitted(w)
    /\ UNCHANGED <<input, dbEngine, stepTable, create, req, wf, history, bounds>>

\* Variant: only a running or paused task is marked.
MarkFailedReadSkipsQueued(w) ==
    /\ JobAt(w, "started", "markFailed")
    /\ JobRead(w, dbStatus \notin {"running", "paused"})
    /\ UNCHANGED <<input, row, stepTable, create, req, wf, history, bounds>>

\* Variant: a succeeded task is marked too.
MarkFailedReadAny(w) ==
    /\ JobAt(w, "started", "markFailed")
    /\ JobRead(w, dbStatus = "failed")
    /\ UNCHANGED <<input, row, stepTable, create, req, wf, history, bounds>>

MarkFailedRead(w) ==
    /\ JobAt(w, "started", "markFailed")
    /\ JobRead(w, dbStatus \in Terminal)
    /\ UNCHANGED <<input, row, stepTable, create, req, wf, history, bounds>>

\* queued and paused go through running inside the transaction.
MarkFailedCommit(w) ==
    /\ JobAt(w, "read", "markFailed")
    /\ dbStatus' = "failed"
    /\ JobCommitted(w)
    /\ UNCHANGED <<input, dbEngine, dbReport, stepTable, create, req, wf, history, bounds>>

-----------------------------------------------------------------------------

CreateNext ==
    \/ CreateStore
    \/ CreateAborts
    \/ CreateScheduled
    \/ CreateScheduleRaises
    \/ MarkSchedulingFailedRead
    \/ MarkSchedulingFailedCommit

RequestNext(r) ==
    \/ RequestCheck(r)
    \/ RequestSignal(r)
    \/ RequestSignalRaises(r)
    \/ RequestPersistRead(r)
    \/ RequestPersistCommit(r)
    \/ RequestPersistRaises(r)
    \/ RequestCompensate(r)
    \/ RequestCrash(r)

Orchestrate == Advance \/ Retry \/ GiveUp \/ Complete \/ RaiseOut

\* What a worker does for the attempt it holds, JobStart and WorkerCrash apart.
JobProgress(w) ==
    \/ JobFail(w)
    \/ JobReturn(w)
    \/ InitializeRead(w)
    \/ InitializeCommit(w)
    \/ SelectRead(w)
    \/ SelectCommit(w)
    \/ RoleCommit(w)
    \/ LanggraphRun(w)
    \/ DelayedCommit(w)
    \/ FinalizeRead(w)
    \/ FinalizeCommit(w)
    \/ MarkFailedRead(w)
    \/ MarkFailedCommit(w)

WorkerNext(w) == JobStart(w) \/ WorkerCrash(w) \/ JobProgress(w)

Next ==
    \/ CreateNext
    \/ \E r \in Request : RequestNext(r)
    \/ Orchestrate
    \/ Redeliver
    \/ \E w \in Worker : WorkerNext(w)

Spec == Init /\ [][Next]_vars

(***************************************************************************)
(* Fairness.  The runtime redelivers and replays until an attempt has      *)
(* answered (external), and wait_for ends every attempt, so a running      *)
(* workflow and a busy worker keep moving.  Nothing is assumed of clients, *)
(* of crashes, or of which way an attempt ends.                            *)
(***************************************************************************)
Fairness ==
    /\ WF_vars(Orchestrate)
    /\ WF_vars(\E w \in Worker : JobStart(w))
    /\ \A w \in Worker : WF_vars(JobProgress(w))

FairSpec == Spec /\ Fairness

-----------------------------------------------------------------------------
(* Properties that hold under every interleaving, redelivery and crash.    *)

(***************************************************************************)
(* A manual engine choice is never overwritten by the router (the promise  *)
(* of the comment in _initialize_task_impl), neither in the row nor in     *)
(* what the workflow runs.                                                 *)
(***************************************************************************)
ManualEngineHonoured ==
    requested # "auto" => dbEngine \in {NoEngine, requested} /\ wf.engine = requested

(***************************************************************************)
(* A workflow that ended well has its report in the row, and it is the     *)
(* report its own last stage produced: no retry, redelivery, crash after   *)
(* the commit or racing request loses it or swaps it.                      *)
(***************************************************************************)
CompletedKeepsReport ==
    wf.state = "completed" => dbReport # NoOutput /\ dbReport = WorkflowReport

(***************************************************************************)
(* What the workflow replays for a role is what task_steps holds for it,   *)
(* whichever of several attempts produced it.                              *)
(***************************************************************************)
HistoryIsRecorded ==
    \A r \in Role : history[r] # NoOutput => steps[r] = history[r]

(***************************************************************************)
(* A succeeded task shows the report that the last activity of its engine  *)
(* answered and the workflow keeps.  For crewai each role has its row in   *)
(* task_steps, and it is the output the workflow worked on; a delayed task *)
(* has its probe.  The rows of LangGraph's nodes are not promised:         *)
(* _record_langgraph_node swallows a failed write (see CheckpointResume).  *)
(***************************************************************************)
SucceededHasItsWork ==
    dbStatus = "succeeded" =>
        /\ dbReport # NoOutput /\ dbReport = WorkflowReport
        /\ wf.engine = "crewai" => \A r \in Role : steps[r] # NoOutput /\ steps[r] = history[r]
        /\ delayed => probed

(***************************************************************************)
(* A pause that answered 200 keeps the workflow from running on, unless a  *)
(* resume request reached the scheduler or another pause request undid its *)
(* own signal after a database failure.                                    *)
(***************************************************************************)
MayHaveResumed(r) ==
    \/ req[r].op = "resume" /\ req[r].pc \notin {"new", "checked", "rejected"}
    \/ req[r].op = "pause" /\ req[r].pc = "error"

AcknowledgedPauseHolds ==
    (\E r \in Request : req[r].op = "pause" /\ req[r].pc = "done")
        => wf.state # "running" \/ \E r \in Request : MayHaveResumed(r)

(***************************************************************************)
(* succeeded is lost only to a stale read: the transaction that overwrites *)
(* it had read the row before the success was committed.  A request or an  *)
(* attempt that starts afterwards cannot undo a success.                   *)
(***************************************************************************)
StaleReader ==
    \/ create.pc = "markRead" /\ create.seen # "succeeded"
    \/ \E r \in Request : req[r].pc = "read" /\ req[r].seen # "succeeded"
    \/ \E w \in Worker : job[w].pc = "read" /\ job[w].seen # "succeeded"

SuccessLostOnlyToStaleRead ==
    [][dbStatus = "succeeded" /\ dbStatus' # "succeeded" => StaleReader]_vars

(***************************************************************************)
(* Redelivered, retried and racing attempts still implement the abstract   *)
(* pipeline: every stage yields one result, in order, and the report is    *)
(* the last stage's.  A role's result is its task_steps row; langgraph's   *)
(* is the one the workflow history keeps.                                  *)
(***************************************************************************)
StageResult == [s \in Stage |-> IF s \in Role THEN steps[s] ELSE history[s]]

Pipeline == INSTANCE ReportPipeline WITH
    Result <- Output, NoResult <- NoOutput,
    engine <- wf.engine, result <- StageResult, delivered <- dbReport

ImplementsPipeline == Pipeline!Spec

-----------------------------------------------------------------------------
(* Properties of a task that no request touches, whose attempts are never  *)
(* run twice at once, and whose scheduling does not fail ambiguously.      *)

\* The row then follows the documented status machine.
Promise == INSTANCE TaskPromise WITH status <- dbStatus, report <- dbReport

ImplementsPromise == Promise!Spec

\* The engine the row shows is the engine that runs, also when select_engine
\* was retried and decided otherwise.
RowNamesRunningEngine ==
    wf.state # "absent" /\ wf.step \notin {"initialize", "select", "markFailed"}
        => dbEngine = wf.engine

\* mark_task_failed itself ran out of attempts.
FailureUnrecorded ==
    wf.step = "markFailed" /\ wf.outcome = "err" /\ OutOfTries

(***************************************************************************)
(* What the row shows when the workflow has ended.  A completed one left   *)
(* succeeded.  A failed one left failed, and then no report; or the row    *)
(* succeeded all the same, with the workflow's report, because             *)
(* finalize_task had committed when its attempts ran out, and              *)
(* mark_task_failed leaves that alone; or mark_task_failed wrote nothing.  *)
(***************************************************************************)
RowRecordsOutcome ==
    /\ wf.state = "completed" => dbStatus = "succeeded"
    /\ wf.state = "failed" =>
         \/ dbStatus = "failed" /\ dbReport = NoOutput
         \/ dbStatus = "succeeded" /\ dbReport # NoOutput /\ dbReport = WorkflowReport
         \/ dbStatus \in {"queued", "running"} /\ FailureUnrecorded

\* Every scheduled task reaches a terminal status, short of that failure.
ScheduledTaskSettles ==
    wf.state # "absent" ~> dbStatus \in Terminal \/ FailureUnrecorded

-----------------------------------------------------------------------------
(* What the documents say and the code does not keep.                      *)

\* The status machine has no transition out of succeeded.
SucceededIsFinal == [][dbStatus = "succeeded" => dbStatus' = "succeeded"]_vars

=============================================================================
