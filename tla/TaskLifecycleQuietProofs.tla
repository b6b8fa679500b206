---------------------- MODULE TaskLifecycleQuietProofs ----------------------
(***************************************************************************)
(* Proofs about a quiet task of TaskLifecycle: the row follows the         *)
(* documented status machine, names the engine that runs and records how   *)
(* the workflow ended.  None of this holds of every task, see Quiet.       *)
(* QuietInv is inductive beside LifecycleInv, one lemma for each part.     *)
(***************************************************************************)
EXTENDS TaskLifecycleProofs

\* Only the create handler, the orchestrator and the workers move a quiet task.
LEMMA QuietNext ==
  ASSUME Quiet, LifecycleInv, [Next]_vars
  PROVE  \/ CreateNext
         \/ Orchestrate
         \/ \E w \in Worker : WorkerNext(w)
         \/ UNCHANGED vars
  <1>1. ~Redeliver
    <2>1. MaxRedeliveries = 0 /\ redeliveries \in Nat BY DEF Quiet, LifecycleInv, TypeOK
    <2>2. QED BY <2>1 DEF Redeliver
  <1>2. QED BY <1>1 DEF Quiet, Next

\* What an attempt that is under way implies: it is the only one.
LEMMA HolderIsCurrent ==
  ASSUME OneAttempt, NEW w \in Worker, job[w].pc # "idle"
  PROVE  /\ Current(job[w]) /\ ~wf.offered
         /\ \A v \in Worker : v # w => job[v].pc = "idle"
  BY DEF OneAttempt

\* An attempt is given out when nobody has one, and taken back before the next.
LEMMA OneAttemptStep ==
  ASSUME Quiet, LifecycleInv, QuietInv, [Next]_vars
  PROVE  OneAttempt'
  <1> USE DEF LifecycleInv, QuietInv, OneAttempt, Current, TypeOK
  <1>1. CASE CreateNext BY <1>1, ApiFrame DEF CreationOrder
  <1>2. CASE Orchestrate
    <2> USE DEF WorkflowType, Answered, Schedule
    <2>1. CASE Advance BY <2>1 DEF Advance
    <2>2. CASE Retry BY <2>2 DEF Retry
    <2>3. CASE GiveUp BY <2>3 DEF GiveUp
    <2>4. CASE Complete BY <2>4 DEF Complete
    <2>5. CASE RaiseOut BY <2>5 DEF RaiseOut
    <2>6. QED BY <1>2, <2>1, <2>2, <2>3, <2>4, <2>5 DEF Orchestrate
  <1>3. ASSUME NEW w \in Worker, WorkerNext(w) PROVE OneAttempt'
    <2>1. CASE JobStart(w)
      BY <2>1 DEF JobStart, IdleJob, WorkflowType
    <2>2. CASE WorkerCrash(w) \/ JobFail(w) \/ JobReturn(w)
      <3>1. job[w].pc # "idle" /\ job' = [job EXCEPT ![w] = IdleJob]
        BY <2>2 DEF WorkerCrash, JobFail, JobReturn
      <3>2. \A v \in Worker : job'[v].pc = "idle" BY <3>1, HolderIsCurrent DEF IdleJob
      <3>3. wf'.offered => wf'.outcome = "pending"
        BY <2>2, <3>1, HolderIsCurrent DEF WorkerCrash, JobFail, JobReturn, WorkflowType
      <3>4. QED BY <3>2, <3>3
    <2>3. CASE ~JobStart(w) /\ ~WorkerCrash(w) /\ ~JobFail(w) /\ ~JobReturn(w)
      <3>1. /\ wf' = wf /\ job[w].pc # "idle"
            /\ job'[w].step = job[w].step /\ job'[w].try = job[w].try
        BY <1>3, <2>3 DEF WorkerNext, JobProgress, JobAt, JobRead, JobCommitted, JobType,
           InitializeRead, InitializeCommit, SelectRead, SelectCommit, RoleCommit, LanggraphRun,
           DelayedCommit, FinalizeRead, FinalizeCommit, MarkFailedRead, MarkFailedCommit
      <3>2. \A v \in Worker : v # w => job'[v] = job[v] BY <1>3, WorkerFrame
      <3>3. QED BY <3>1, <3>2
    <2>4. QED BY <2>1, <2>2, <2>3
  <1>4. CASE UNCHANGED vars BY <1>4 DEF vars
  <1>5. QED BY <1>1, <1>2, <1>3, <1>4, QuietNext

\* The create handler is done with the row when the workflow exists.
LEMMA CreateAloneStep ==
  ASSUME Quiet, LifecycleInv, QuietInv, [Next]_vars
  PROVE  CreateAlone'
  <1> USE DEF LifecycleInv, QuietInv, CreateAlone, TypeOK
  <1>1. CASE CreateNext
    <2> USE DEF CreateAt, CreateType, WorkflowType, row, CreationOrder
    <2>1. CASE CreateStore BY <2>1 DEF CreateStore
    <2>2. CASE CreateAborts BY <2>2 DEF CreateAborts
    <2>3. CASE CreateScheduled BY <2>3 DEF CreateScheduled
    <2>4. CASE CreateScheduleRaises BY <2>4 DEF CreateScheduleRaises, Quiet
    <2>5. CASE MarkSchedulingFailedRead BY <2>5 DEF MarkSchedulingFailedRead
    <2>6. CASE MarkSchedulingFailedCommit BY <2>6 DEF MarkSchedulingFailedCommit
    <2>7. QED BY <1>1, <2>1, <2>2, <2>3, <2>4, <2>5, <2>6 DEF CreateNext
  <1>2. CASE Orchestrate
    BY <1>2 DEF Orchestrate, Advance, Retry, GiveUp, Complete, RaiseOut, Answered, row, WorkflowType
  <1>3. ASSUME NEW w \in Worker, WorkerNext(w) PROVE CreateAlone'
    BY <1>3, WorkerFrame
  <1>4. CASE UNCHANGED vars BY <1>4 DEF vars, row
  <1>5. QED BY <1>1, <1>2, <1>3, <1>4, QuietNext

\* A step of a worker that holds an attempt: what the current step may be.
LEMMA WorkerAtStep ==
  ASSUME LifecycleInv, QuietInv, NEW w \in Worker, WorkerNext(w)
  PROVE  /\ job[w].pc # "idle" => /\ job[w].step = wf.step /\ wf.outcome = "pending"
                                  /\ \A v \in Worker : v # w => job'[v].pc = "idle"
         /\ wf.state \notin {"absent", "failed", "completed"}
  <1> USE WorkerFrame DEF LifecycleInv, QuietInv, TypeOK
  <1>1. wf.outcome = "pending"
    <2>1. JobStart(w) \/ job[w].pc # "idle"
      BY DEF WorkerNext, JobStart, WorkerCrash, JobProgress, JobFail, JobReturn, JobAt,
         InitializeRead, InitializeCommit, SelectRead, SelectCommit, RoleCommit, LanggraphRun,
         DelayedCommit, FinalizeRead, FinalizeCommit, MarkFailedRead, MarkFailedCommit
    <2>2. QED BY <2>1 DEF JobStart, OneAttempt, Current
  <1>2. wf.state \notin {"absent", "failed", "completed"}
    BY <1>1 DEF RowKeepsPace, FailureUnrecorded, ReportWithSuccess
  <1>3. QED BY <1>1, <1>2, HolderIsCurrent DEF Current

\* The status keeps up with the step of the workflow.
LEMMA RowKeepsPaceStep ==
  ASSUME Quiet, LifecycleInv, QuietInv, [Next]_vars
  PROVE  RowKeepsPace'
  <1> USE DEF LifecycleInv, QuietInv, RowKeepsPace, SettledBy, FailureUnrecorded, OutOfTries
  <1> USE DEF TypeOK, CreationOrder
  <1>1. CASE CreateNext
    <2>1. wf.state = "absent" => \A w \in Worker : job[w].pc = "idle" OBVIOUS
    <2>2. CASE wf.state = "absent" /\ wf'.state = "absent"
      BY <1>1, <2>1, <2>2, ApiFrame DEF NoStep, Stage, Role
    <2>3. CASE wf.state = "absent" /\ wf'.state # "absent"
      <3>1. CreateScheduled \/ CreateScheduleRaises
        BY <1>1, <2>3 DEF CreateNext, CreateStore, CreateAborts, MarkSchedulingFailedRead,
           MarkSchedulingFailedCommit
      <3>2. dbStatus = "queued" /\ dbStatus' = dbStatus /\ job' = job /\ WorkflowStarts
        BY <2>3, <3>1 DEF CreateScheduled, CreateScheduleRaises, CreateAt, CreateAlone, row
      <3>3. wf'.step = "initialize" /\ wf'.outcome = "pending" /\ wf'.state = "running"
        BY <3>2 DEF WorkflowStarts, Schedule, WorkflowType
      <3>4. QED BY <2>1, <2>3, <3>2, <3>3 DEF Stage, Role
    <2>4. CASE wf.state # "absent"
      BY <1>1, <2>4 DEF CreateNext, CreateAt, CreateAlone, CreateStore, CreateAborts,
         CreateScheduled, CreateScheduleRaises, MarkSchedulingFailedRead,
         MarkSchedulingFailedCommit
    <2>5. QED BY <2>2, <2>3, <2>4
  <1>2. CASE Orchestrate
    <2>1. dbStatus' = dbStatus /\ job' = job
      BY <1>2 DEF Orchestrate, Advance, Retry, GiveUp, Complete, RaiseOut, row
    <2>2. \A w \in Worker : job[w].pc = "idle" \/ ~Orchestrate
      BY HolderIsCurrent DEF Current, Orchestrate, Advance, Retry, GiveUp, Complete, RaiseOut,
         Answered
    <2> USE DEF WorkflowType, Answered, Schedule, Stage, Role
    <2>3. CASE Advance
      <3> DEFINE next == NextStep(wf.step, IF wf.step = "select" THEN wf.pick ELSE wf.engine)
      <3>1. wf'.step = next /\ wf'.outcome = "pending" /\ wf'.state = "running"
        BY <2>3 DEF Advance
      <3>2. wf.step \notin {"finalize", "markFailed", NoStep} /\ wf.step \in Step
        BY <2>3 DEF Advance, NoStep
      <3>3. next \in Stage \union {"select", "delayed", "finalize"}
        BY <3>2 DEF NextStep, FirstStage, Step
      <3>4. dbStatus = "running" BY <2>3, <3>2 DEF Advance, Step
      <3>5. QED BY <1>2, <2>1, <2>2, <3>1, <3>3, <3>4
    <2>4. CASE Retry
      <3>1. wf'.step = wf.step /\ wf'.outcome = "pending" /\ wf'.state = "running"
        BY <2>4 DEF Retry
      <3>2. QED BY <1>2, <2>1, <2>2, <3>1
    <2>5. CASE GiveUp
      <3>1. wf'.step = "markFailed" /\ wf'.outcome = "pending" /\ wf'.state = "running"
        BY <2>5 DEF GiveUp
      <3>2. dbStatus \in {"queued", "running", "succeeded"}
        BY <2>5 DEF GiveUp, Step
      <3>3. QED BY <1>2, <2>1, <2>2, <3>1, <3>2
    <2>6. CASE Complete BY <1>2, <2>1, <2>2, <2>6 DEF Complete
    <2>7. CASE RaiseOut BY <1>2, <2>1, <2>2, <2>7 DEF RaiseOut
    <2>8. QED BY <1>2, <2>3, <2>4, <2>5, <2>6, <2>7 DEF Orchestrate
  <1>3. ASSUME NEW w \in Worker, WorkerNext(w) PROVE RowKeepsPace'
    <2> USE <1>3, WorkerFrame, WorkerAtStep DEF JobType, WorkflowType, JobAt, JobRead, JobCommitted
    <2> USE DEF row
    <2>1. CASE JobStart(w) BY <2>1 DEF JobStart, IdleJob
    <2>2. CASE WorkerCrash(w) BY <2>2 DEF WorkerCrash, IdleJob
    <2>3. CASE JobFail(w) BY <2>3 DEF JobFail, IdleJob, Current
    <2>4. CASE JobReturn(w) BY <2>4 DEF JobReturn, IdleJob, Current
    <2>5. CASE InitializeRead(w) BY <2>5 DEF InitializeRead
    <2>6. CASE InitializeCommit(w) BY <2>6 DEF InitializeCommit, Stage, Role
    <2>7. CASE SelectRead(w) BY <2>7 DEF SelectRead
    <2>8. CASE SelectCommit(w) BY <2>8 DEF SelectCommit, Written
    <2>9. CASE RoleCommit(w) BY <2>9 DEF RoleCommit, Role
    <2>10. CASE LanggraphRun(w) BY <2>10 DEF LanggraphRun
    <2>11. CASE DelayedCommit(w) BY <2>11 DEF DelayedCommit
    <2>12. CASE FinalizeRead(w)
      BY <2>12 DEF FinalizeRead, CanTransition, AllowedTransitions
    <2>13. CASE FinalizeCommit(w) BY <2>13 DEF FinalizeCommit, Stage, Role
    <2>14. CASE MarkFailedRead(w) BY <2>14 DEF MarkFailedRead, Terminal
    <2>15. CASE MarkFailedCommit(w) BY <2>15 DEF MarkFailedCommit, Stage, Role
    <2>16. QED
      BY <2>1, <2>2, <2>3, <2>4, <2>5, <2>6, <2>7, <2>8, <2>9, <2>10, <2>11, <2>12, <2>13,
         <2>14, <2>15 DEF WorkerNext, JobProgress
  <1>4. CASE UNCHANGED vars BY <1>4 DEF vars, row
  <1>5. QED BY <1>1, <1>2, <1>3, <1>4, QuietNext

\* The engine of the row keeps up with the engine of the workflow.
LEMMA EngineKeepsPaceStep ==
  ASSUME Quiet, LifecycleInv, QuietInv, [Next]_vars
  PROVE  EngineKeepsPace'
  <1> USE DEF LifecycleInv, QuietInv, EngineKeepsPace, RowNamesRunningEngine
  <1> USE DEF TypeOK, CreationOrder
  <1>1. CASE CreateNext
    <2>1. CASE wf.state = "absent"
      <3>1. UNCHANGED <<requested, dbEngine, job>> BY <1>1, ApiFrame
      <3>2. \A w \in Worker : job[w].pc = "idle" BY <2>1
      <3>3. wf'.step = NoStep \/ (wf'.step = "initialize" /\ wf'.state = "running")
        BY <1>1, <2>1, ApiFrame
      <3>4. wf'.state # "absent" => dbStatus' = "queued"
        BY <1>1, <2>1 DEF CreateNext, CreateAt, CreateStore, CreateAborts, CreateScheduled,
           CreateScheduleRaises, MarkSchedulingFailedRead, MarkSchedulingFailedCommit,
           CreateAlone, row
      <3>5. wf'.step = NoStep => wf'.state = "absent"
        BY <1>1, <2>1, ApiFrame DEF NoStep
      <3>6. wf'.engine = requested BY <1>1, <2>1, ApiFrame
      <3>7. QED BY <3>1, <3>2, <3>3, <3>4, <3>5, <3>6 DEF NoStep
    <2>2. CASE wf.state # "absent"
      BY <1>1, <2>2 DEF CreateNext, CreateAt, CreateAlone, CreateStore, CreateAborts,
         CreateScheduled, CreateScheduleRaises, MarkSchedulingFailedRead,
         MarkSchedulingFailedCommit
    <2>3. QED BY <2>1, <2>2
  <1>2. CASE Orchestrate
    <2>1. UNCHANGED <<requested, dbStatus, dbEngine, job>>
      BY <1>2 DEF Orchestrate, Advance, Retry, GiveUp, Complete, RaiseOut, row, input
    <2> USE <2>1 DEF WorkflowType, Answered, Schedule
    <2>2. CASE Advance
      <3> DEFINE e == IF wf.step = "select" THEN wf.pick ELSE wf.engine
      <3>1. wf'.step = NextStep(wf.step, e) /\ wf'.engine = e /\ wf'.outcome = "pending"
        BY <2>2 DEF Advance
      <3>2. wf.step \notin {"finalize", "markFailed", NoStep} /\ wf.step \in Step
        BY <2>2 DEF Advance
      <3>3. CASE wf.step = "initialize" /\ requested = "auto"
        <4>1. wf'.step = "select" BY <3>1, <3>3 DEF NextStep
        <4>2. QED BY <2>2, <3>1, <3>3, <4>1 DEF Advance
      <3>4. CASE wf.step = "initialize" /\ requested # "auto"
        <4>1. wf.engine = requested BY <3>4
        <4>2. dbEngine = requested BY <2>2, <3>4 DEF RowKeepsPace, SettledBy, Advance
        <4>3. QED BY <2>2, <3>1, <3>4, <4>1, <4>2 DEF Advance
      <3>a. wf.step # "initialize" => wf'.step \notin {"initialize", "select"}
        BY <3>1, <3>2 DEF NextStep, FirstStage
      <3>5. CASE wf.step = "select" BY <2>2, <3>1, <3>a, <3>5 DEF Advance
      <3>6. CASE wf.step \notin {"initialize", "select"}
        BY <2>2, <3>1, <3>2, <3>a, <3>6 DEF Advance
      <3>7. QED BY <3>3, <3>4, <3>5, <3>6
    <2>3. CASE Retry BY <2>3 DEF Retry
    <2>4. CASE GiveUp BY <2>4 DEF GiveUp
    <2>5. CASE Complete BY <2>5 DEF Complete
    <2>6. CASE RaiseOut BY <2>6 DEF RaiseOut
    <2>7. QED BY <1>2, <2>2, <2>3, <2>4, <2>5, <2>6 DEF Orchestrate
  <1>3. ASSUME NEW w \in Worker, WorkerNext(w) PROVE EngineKeepsPace'
    <2> USE <1>3, WorkerFrame, WorkerAtStep DEF JobType, WorkflowType, JobAt, JobRead, JobCommitted
    <2> USE DEF row
    <2>1. CASE JobStart(w) BY <2>1 DEF JobStart, IdleJob
    <2>2. CASE WorkerCrash(w) BY <2>2 DEF WorkerCrash, IdleJob
    <2>3. CASE JobFail(w) BY <2>3 DEF JobFail, IdleJob, Current
    <2>4. CASE JobReturn(w) BY <2>4 DEF JobReturn, IdleJob, Current
    <2>5. CASE InitializeRead(w) BY <2>5 DEF InitializeRead
    <2>6. CASE InitializeCommit(w) BY <2>6 DEF InitializeCommit
    <2>7. CASE SelectRead(w) BY <2>7 DEF SelectRead
    <2>8. CASE SelectCommit(w) BY <2>8 DEF SelectCommit, Written, RoutedOnlyAuto
    <2>9. CASE RoleCommit(w) BY <2>9 DEF RoleCommit, Role
    <2>10. CASE LanggraphRun(w) BY <2>10 DEF LanggraphRun
    <2>11. CASE DelayedCommit(w) BY <2>11 DEF DelayedCommit
    <2>12. CASE FinalizeRead(w) BY <2>12 DEF FinalizeRead
    <2>13. CASE FinalizeCommit(w) BY <2>13 DEF FinalizeCommit
    <2>14. CASE MarkFailedRead(w) BY <2>14 DEF MarkFailedRead
    <2>15. CASE MarkFailedCommit(w) BY <2>15 DEF MarkFailedCommit
    <2>16. QED
      BY <2>1, <2>2, <2>3, <2>4, <2>5, <2>6, <2>7, <2>8, <2>9, <2>10, <2>11, <2>12, <2>13,
         <2>14, <2>15 DEF WorkerNext, JobProgress
  <1>4. CASE UNCHANGED vars BY <1>4 DEF vars, row, input
  <1>5. QED BY <1>1, <1>2, <1>3, <1>4, QuietNext

\* The report comes with the success, which nothing takes back.
LEMMA ReportMeansSuccessStep ==
  ASSUME Quiet, LifecycleInv, QuietInv, [Next]_vars
  PROVE  ReportMeansSuccess'
  <1> USE DEF LifecycleInv, QuietInv, ReportMeansSuccess, row
  <1>1. CASE CreateNext
    BY <1>1 DEF CreateNext, CreateAt, CreateAlone, CreateStore, CreateAborts, CreateScheduled,
       CreateScheduleRaises, MarkSchedulingFailedRead, MarkSchedulingFailedCommit, CreationOrder, NoRow
  <1>2. CASE Orchestrate
    BY <1>2 DEF Orchestrate, Advance, Retry, GiveUp, Complete, RaiseOut
  <1>3. ASSUME NEW w \in Worker, WorkerNext(w) PROVE ReportMeansSuccess'
    <2> USE WorkerAtStep DEF JobAt, TypeOK
    <2>1. CASE InitializeCommit(w) \/ SelectCommit(w) \/ MarkFailedCommit(w)
      <3>1. dbStatus # "succeeded"
        BY <1>3, <2>1 DEF InitializeCommit, SelectCommit, MarkFailedCommit, RowKeepsPace,
           SeenMayMove, Terminal
      <3>2. QED BY <2>1, <3>1 DEF InitializeCommit, SelectCommit, MarkFailedCommit
    <2>2. CASE FinalizeCommit(w) BY <2>2 DEF FinalizeCommit
    <2>3. CASE ~InitializeCommit(w) /\ ~SelectCommit(w) /\ ~MarkFailedCommit(w) /\ ~FinalizeCommit(w)
      <3>1. UNCHANGED row
        BY <1>3, <2>3 DEF WorkerNext, JobStart, WorkerCrash, JobProgress, JobFail, JobReturn,
           InitializeRead, SelectRead, RoleCommit, LanggraphRun, DelayedCommit, FinalizeRead,
           MarkFailedRead
      <3>2. QED BY <3>1
    <2>4. QED BY <2>1, <2>2, <2>3
  <1>4. CASE UNCHANGED vars BY <1>4 DEF vars
  <1>5. QED BY <1>1, <1>2, <1>3, <1>4, QuietNext

\* QuietInv holds before the task exists.
LEMMA QuietInit == Init => QuietInv
  <1> SUFFICES ASSUME Init PROVE QuietInv OBVIOUS
  <1> USE DEF Init, IdleJob
  <1>1. OneAttempt BY DEF OneAttempt
  <1>2. CreateAlone BY DEF CreateAlone
  <1>3. RowKeepsPace BY DEF RowKeepsPace, NoStep, Stage, Role
  <1>4. EngineKeepsPace BY DEF EngineKeepsPace, RowNamesRunningEngine, NoStep
  <1>5. ReportMeansSuccess BY DEF ReportMeansSuccess
  <1>6. QED BY <1>1, <1>2, <1>3, <1>4, <1>5 DEF QuietInv

(***************************************************************************)
(* The row keeps pace with the workflow of a quiet task, whatever crashes, *)
(* fails and is retried on however many workers.                           *)
(***************************************************************************)
THEOREM QuietInvariant == ASSUME Quiet PROVE Spec => [](LifecycleInv /\ QuietInv)
  <1>1. Init => LifecycleInv /\ QuietInv BY InitInv, QuietInit
  <1>2. LifecycleInv /\ QuietInv /\ [Next]_vars => (LifecycleInv /\ QuietInv)'
    BY Quiet, NextInv, OneAttemptStep, CreateAloneStep, RowKeepsPaceStep, EngineKeepsPaceStep,
       ReportMeansSuccessStep DEF QuietInv
  <1>3. QED BY <1>1, <1>2, PTL DEF Spec

(***************************************************************************)
(* The engine shown in the row of a quiet task is the engine that runs,    *)
(* also after select_engine was retried and picked another one.            *)
(***************************************************************************)
THEOREM QuietRowNamesEngine == ASSUME Quiet PROVE Spec => []RowNamesRunningEngine
  <1>1. QuietInv => RowNamesRunningEngine BY DEF QuietInv, EngineKeepsPace
  <1>2. QED BY <1>1, QuietInvariant, PTL

(***************************************************************************)
(* When the workflow of a quiet task has ended, the row shows its outcome: *)
(* a failed workflow leaves failed and no report, or the success and the   *)
(* report that finalize_task had committed before its attempts ran out, or *)
(* nothing new when mark_task_failed itself ran out of attempts.           *)
(***************************************************************************)
THEOREM QuietRowRecordsOutcome == ASSUME Quiet PROVE Spec => []RowRecordsOutcome
  <1>1. LifecycleInv /\ QuietInv => RowRecordsOutcome
    BY DEF LifecycleInv, ReportWithSuccess, QuietInv, RowKeepsPace, SettledBy,
       ReportMeansSuccess, RowRecordsOutcome
  <1>2. QED BY <1>1, QuietInvariant, PTL

-----------------------------------------------------------------------------
(* The refinement of TaskPromise.                                          *)

promised == <<dbStatus, dbReport>>

\* The create handler inserts the row, or marks it failed before it is scheduled.
LEMMA CreateKeepsPromise ==
  ASSUME Quiet, LifecycleInv, QuietInv, CreateNext
  PROVE  Promise!Next \/ UNCHANGED promised
  <1> USE DEF LifecycleInv, QuietInv, CreateAlone, CreateAt, row, promised
  <1>1. CASE CreateStore
    <2>1. Promise!Accept BY <1>1 DEF CreateStore, CreationOrder, Promise!Accept, NoRow, Promise!NoRow
    <2>2. QED BY <2>1 DEF Promise!Next
  <1>2. CASE MarkSchedulingFailedCommit
    <2>1. Promise!Fail BY <1>2 DEF MarkSchedulingFailedCommit, Promise!Fail
    <2>2. QED BY <2>1 DEF Promise!Next
  <1>3. CASE ~CreateStore /\ ~MarkSchedulingFailedCommit
    BY <1>3 DEF CreateNext, CreateAborts, CreateScheduled, CreateScheduleRaises,
       MarkSchedulingFailedRead
  <1>4. QED BY <1>1, <1>2, <1>3

\* What a commit of an activity writes is a move of the status machine.
LEMMA WorkerKeepsPromise ==
  ASSUME Quiet, LifecycleInv, QuietInv, NEW w \in Worker, WorkerNext(w)
  PROVE  Promise!Next \/ UNCHANGED promised
  <1> USE DEF LifecycleInv, QuietInv, TypeOK, JobAt, row, promised, RowKeepsPace
  <1>1. CASE InitializeCommit(w)
    <2>1. dbStatus = "queued" BY <1>1 DEF InitializeCommit, SeenMayMove
    <2>2. Promise!Move("running")
      BY <1>1, <2>1 DEF InitializeCommit, Promise!Move, AllowedTransitions,
         Promise!AllowedTransitions
    <2>3. QED BY <2>2 DEF Promise!Next
  <1>2. CASE SelectCommit(w)
    <2>1. dbStatus = "running"
      BY <1>2, HolderIsCurrent DEF SelectCommit, Current
    <2>2. QED BY <1>2, <2>1 DEF SelectCommit, Written
  <1>3. CASE FinalizeCommit(w)
    <2>1. dbStatus = "running" /\ dbStatus' = "succeeded" BY <1>3 DEF FinalizeCommit
    <2>2. WorkflowReport \in Output
      <3>1. EngineDone BY <1>3 DEF FinalizeCommit, InOrder, Prepared
      <3>2. WorkflowReport # NoOutput /\ WorkflowReport \in MaybeOutput
        BY <3>1 DEF EngineDone, WorkflowReport, Role, Stage
      <3>3. QED BY <3>2 DEF MaybeOutput
    <2>3. Promise!Succeed
      BY <1>3, <2>1, <2>2 DEF FinalizeCommit, Promise!Succeed, Promise!CanTransition,
         Promise!AllowedTransitions
    <2>4. QED BY <2>3 DEF Promise!Next
  <1>4. CASE MarkFailedCommit(w)
    <2>1. dbStatus \in {"queued", "running"}
      BY <1>4, HolderIsCurrent DEF MarkFailedCommit, Current, SeenMayMove, Terminal
    <2>2. Promise!Fail BY <1>4, <2>1 DEF MarkFailedCommit, Promise!Fail
    <2>3. QED BY <2>2 DEF Promise!Next
  <1>5. CASE ~(InitializeCommit(w) \/ SelectCommit(w) \/ FinalizeCommit(w) \/ MarkFailedCommit(w))
    BY <1>5 DEF WorkerNext, JobStart, WorkerCrash, JobProgress, JobFail, JobReturn,
       InitializeRead, SelectRead, RoleCommit, LanggraphRun, DelayedCommit, FinalizeRead,
       MarkFailedRead
  <1>6. QED BY <1>1, <1>2, <1>3, <1>4, <1>5

\* Every step of a quiet task is a step of TaskPromise or does not show in the row.
LEMMA StepKeepsPromise ==
  ASSUME Quiet, LifecycleInv, QuietInv, [Next]_vars
  PROVE  [Promise!Next]_promised
  <1>1. CASE CreateNext BY <1>1, CreateKeepsPromise
  <1>2. CASE Orchestrate
    BY <1>2 DEF Orchestrate, Advance, Retry, GiveUp, Complete, RaiseOut, row, promised
  <1>3. ASSUME NEW w \in Worker, WorkerNext(w) PROVE [Promise!Next]_promised
    BY <1>3, WorkerKeepsPromise
  <1>4. CASE UNCHANGED vars BY <1>4 DEF vars, row, promised
  <1>5. QED BY <1>1, <1>2, <1>3, <1>4, QuietNext

(***************************************************************************)
(* The row of a quiet task follows the documented status machine, and its  *)
(* report appears with success and never changes.                          *)
(***************************************************************************)
THEOREM QuietTaskKeepsPromise == ASSUME Quiet PROVE Spec => ImplementsPromise
  <1>1. Init => Promise!Init BY DEF Init, Promise!Init, NoRow, Promise!NoRow
  <1>2. LifecycleInv /\ QuietInv /\ [Next]_vars => [Promise!Next]_promised
    BY Quiet, StepKeepsPromise
  <1>3. QED
    BY <1>1, <1>2, QuietInvariant, PTL DEF Spec, ImplementsPromise, Promise!Spec, promised

(***************************************************************************)
(* A quiet task that has succeeded stays succeeded.  What the run          *)
(* terminal_overwritten shows takes a second actor on the row: a request,  *)
(* a second attempt, or a create handler that wrongly believes the         *)
(* scheduling failed.                                                      *)
(***************************************************************************)
THEOREM QuietSuccessIsFinal == ASSUME Quiet PROVE Spec => SucceededIsFinal
  <1>1. LifecycleInv /\ QuietInv /\ [Next]_vars
          => [dbStatus = "succeeded" => dbStatus' = "succeeded"]_vars
    <2>1. SUFFICES ASSUME LifecycleInv, QuietInv, Next, dbStatus = "succeeded"
                   PROVE  dbStatus' = "succeeded"
      OBVIOUS
    <2>2. [Promise!Next]_promised BY <2>1, Quiet, StepKeepsPromise
    <2>3. QED
      BY <2>1, <2>2 DEF promised, Promise!Next, Promise!Accept, Promise!Succeed, Promise!Fail,
         Promise!Move, Promise!AllowedTransitions, Promise!NoRow
  <1>2. QED BY <1>1, QuietInvariant, PTL DEF Spec, SucceededIsFinal

=============================================================================
