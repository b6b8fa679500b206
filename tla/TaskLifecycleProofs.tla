------------------------ MODULE TaskLifecycleProofs -------------------------
(***************************************************************************)
(* Proofs about TaskLifecycle, for any set of requests, workers and        *)
(* outputs and any retry, redelivery and crash limits.  LifecycleInv of    *)
(* TaskLifecycleInv is inductive: one lemma shows that a step keeps one of *)
(* its parts, given all of them before the step.  The theorems at the end  *)
(* follow from it.                                                         *)
(***************************************************************************)
EXTENDS TaskLifecycleInv, TLAPS

-----------------------------------------------------------------------------
(* Types of the records that the actions update.                           *)

\* Asking for an activity keeps the instance well formed.
LEMMA ScheduleType ==
  ASSUME NEW x \in WorkflowType, NEW s \in Step, NEW t \in Nat
  PROVE  Schedule(x, s, t) \in WorkflowType
  BY DEF WorkflowType, Schedule, MaybeOutput, MaybeEngine

\* A pause or resume signal keeps the instance well formed.
LEMMA SignalType ==
  ASSUME NEW op, SignalWorkflow(op), wf \in WorkflowType
  PROVE  wf' \in WorkflowType
  BY DEF WorkflowType, SignalWorkflow

\* The activity called next is one that exists.
LEMMA NextStepType ==
  ASSUME NEW s, NEW e PROVE NextStep(s, e) \in Step
  BY DEF NextStep, FirstStage, Step, Stage, Role

\* A request moves from one of its states to another.
LEMMA ReqAtType ==
  ASSUME TypeOK, NEW r \in Request, NEW from, NEW to, ReqAt(r, from, to),
         to \in {"checked", "signalled", "read", "compensating", "done", "refused", "error"}
  PROVE  req' \in [Request -> RequestType]
  BY DEF TypeOK, ReqAt, RequestType

\* Replacing one worker's attempt by a well-formed one.
LEMMA JobUpdateType ==
  ASSUME TypeOK, NEW w \in Worker, NEW j \in JobType
  PROVE  [job EXCEPT ![w] = j] \in [Worker -> JobType]
  BY DEF TypeOK

\* Offering an attempt, or not, keeps the instance well formed.
LEMMA OfferType ==
  ASSUME NEW x \in WorkflowType, NEW b \in BOOLEAN
  PROVE  [x EXCEPT !.offered = b] \in WorkflowType
  BY DEF WorkflowType

\* What a SELECT leaves in an attempt.
LEMMA JobReadType ==
  ASSUME NEW j \in JobType, NEW s \in Status \union {NoRow}, NEW e \in MaybeEngine,
         NEW p \in MaybeEngine
  PROVE  /\ [j EXCEPT !.pc = "read", !.seen = s] \in JobType
         /\ [j EXCEPT !.pc = "read", !.seen = s, !.seenEngine = e, !.pick = p] \in JobType
  BY DEF JobType

\* What a COMMIT leaves in an attempt.
LEMMA JobReadyType ==
  ASSUME NEW j \in JobType, NEW o \in MaybeOutput
  PROVE  /\ [j EXCEPT !.pc = "ready"] \in JobType
         /\ [j EXCEPT !.pc = "ready", !.out = o] \in JobType
         /\ [j EXCEPT !.pc = "ready", !.seen = NoRow, !.seenEngine = NoEngine] \in JobType
  BY DEF JobType, MaybeEngine

\* Every step keeps every variable in its type.
LEMMA TypeStep == ASSUME LifecycleInv, [Next]_vars PROVE TypeOK'
  <1> USE LifecycleAssumption
  <1> USE DEF LifecycleInv, TypeOK, input, row, stepTable, bounds
  <1>1. CASE CreateNext
    <2> USE DEF CreateAt, CreateType
    <2>0. "initialize" \in Step /\ 1 \in Nat BY DEF Step
    <2>1. CASE CreateStore BY <2>1 DEF CreateStore, Status
    <2>2. CASE CreateAborts BY <2>2 DEF CreateAborts
    <2>3. ASSUME WorkflowStarts PROVE wf' \in WorkflowType
      <3>1. [wf EXCEPT !.state = "running"] \in WorkflowType BY DEF WorkflowType
      <3>2. QED BY <2>0, <2>3, <3>1, ScheduleType DEF WorkflowStarts
    <2>4. CASE CreateScheduled BY <2>3, <2>4 DEF CreateScheduled
    <2>5. CASE CreateScheduleRaises BY <2>3, <2>5 DEF CreateScheduleRaises
    <2>6. CASE MarkSchedulingFailedRead BY <2>6 DEF MarkSchedulingFailedRead
    <2>7. CASE MarkSchedulingFailedCommit
      BY <2>7 DEF MarkSchedulingFailedCommit, Status
    <2>8. QED BY <1>1, <2>1, <2>2, <2>4, <2>5, <2>6, <2>7 DEF CreateNext
  <1>2. ASSUME NEW r \in Request, RequestNext(r) PROVE TypeOK'
    <2>1. CASE RequestCheck(r) BY <2>1 DEF RequestCheck, RequestType
    <2>2. CASE RequestSignal(r) BY <2>2, SignalType, ReqAtType DEF RequestSignal
    <2>3. CASE RequestSignalRaises(r) BY <2>3, SignalType, ReqAtType DEF RequestSignalRaises
    <2>4. CASE RequestPersistRead(r)
      <3>1. /\ [req[r] EXCEPT !.pc = "read", !.seen = dbStatus] \in RequestType
            /\ [req[r] EXCEPT !.pc = "compensating", !.seen = NoRow] \in RequestType
        BY DEF RequestType
      <3>2. \/ req' = [req EXCEPT ![r] = [req[r] EXCEPT !.pc = "read", !.seen = dbStatus]]
            \/ req' = [req EXCEPT ![r] = [req[r] EXCEPT !.pc = "compensating", !.seen = NoRow]]
        BY <2>4 DEF RequestPersistRead
      <3>3. req' \in [Request -> RequestType] BY <3>1, <3>2
      <3>4. QED BY <2>4, <3>3 DEF RequestPersistRead
    <2>5. CASE RequestPersistCommit(r)
      BY <2>5, ReqAtType DEF RequestPersistCommit, Written, Target, Status
    <2>6. CASE RequestPersistRaises(r) BY <2>6, ReqAtType DEF RequestPersistRaises
    <2>7. CASE RequestCompensate(r) BY <2>7, SignalType, ReqAtType DEF RequestCompensate
    <2>8. CASE RequestCrash(r) BY <2>8, ReqAtType DEF RequestCrash
    <2>9. QED BY <1>2, <2>1, <2>2, <2>3, <2>4, <2>5, <2>6, <2>7, <2>8 DEF RequestNext
  <1>3. CASE Orchestrate
    <2>1. CASE Advance
      <3> DEFINE engine == IF wf.step = "select" THEN wf.pick ELSE wf.engine
      <3>1. [wf EXCEPT !.engine = engine] \in WorkflowType
        BY <2>1 DEF Advance, Answered, RoutedOnlyAuto, WorkflowType, EngineChoice
      <3>2. wf' \in WorkflowType
        BY <2>1, <3>1, NextStepType, ScheduleType DEF Advance
      <3>3. history' \in [Stage -> MaybeOutput]
        BY <2>1 DEF Advance, WorkflowType
      <3>4. QED BY <2>1, <3>2, <3>3 DEF Advance
    <2>2. CASE Retry
      <3>1. wf.step \in Step /\ wf.try + 1 \in Nat
        BY <2>2 DEF Retry, Answered, CreationOrder, WorkflowType
      <3>2. QED BY <2>2, <3>1, ScheduleType DEF Retry
    <2>3. CASE GiveUp
      <3>1. "markFailed" \in Step /\ 1 \in Nat BY DEF Step
      <3>2. QED BY <2>3, <3>1, ScheduleType DEF GiveUp
    <2>4. CASE Complete BY <2>4 DEF Complete, WorkflowType
    <2>5. CASE RaiseOut BY <2>5 DEF RaiseOut, WorkflowType
    <2>6. QED BY <1>3, <2>1, <2>2, <2>3, <2>4, <2>5 DEF Orchestrate
  <1>4. CASE Redeliver
    <2>1. wf' = [wf EXCEPT !.offered = TRUE] BY <1>4 DEF Redeliver
    <2>2. wf' \in WorkflowType BY <2>1, OfferType
    <2>3. redeliveries' \in Nat BY <1>4 DEF Redeliver
    <2>4. QED BY <1>4, <2>2, <2>3 DEF Redeliver
  <1>5. ASSUME NEW w \in Worker, WorkerNext(w) PROVE TypeOK'
    <2>1. IdleJob \in JobType BY DEF IdleJob, JobType, MaybeEngine, MaybeOutput
    <2>2. CASE JobStart(w)
      <3>1. [IdleJob EXCEPT !.pc = "started", !.step = wf.step, !.try = wf.try] \in JobType
        BY <2>1 DEF JobType, WorkflowType
      <3>2. QED BY <2>2, <3>1, JobUpdateType DEF JobStart, WorkflowType
    <2>3. CASE WorkerCrash(w)
      <3>1. (wf.offered \/ Current(job[w])) \in BOOLEAN BY DEF WorkflowType, Current
      <3>2. wf' \in WorkflowType BY <2>3, <3>1, OfferType DEF WorkerCrash
      <3>3. job' \in [Worker -> JobType] BY <2>1, <2>3, JobUpdateType DEF WorkerCrash
      <3>4. crashes' \in Nat BY <2>3 DEF WorkerCrash
      <3>5. QED BY <2>3, <3>2, <3>3, <3>4 DEF WorkerCrash
    <2>4. CASE JobFail(w) BY <2>1, <2>4, JobUpdateType DEF JobFail, WorkflowType
    <2>5. CASE JobReturn(w)
      <3>1. job[w].out \in MaybeOutput /\ job[w].pick \in MaybeEngine BY DEF JobType
      <3>2. wf' \in WorkflowType BY <2>5, <3>1 DEF JobReturn, WorkflowType
      <3>3. QED BY <2>1, <2>5, <3>2, JobUpdateType DEF JobReturn
    <2>20. job[w] \in JobType OBVIOUS
    <2>21. ASSUME NEW b \in BOOLEAN, JobRead(w, b) PROVE job' \in [Worker -> JobType]
      BY <2>20, <2>21, JobReadType, JobReadyType, JobUpdateType DEF JobRead, MaybeOutput
    <2>6. CASE InitializeRead(w)
      BY <2>6, <2>21 DEF InitializeRead
    <2>7. ASSUME JobCommitted(w) PROVE job' \in [Worker -> JobType]
      BY <2>7, <2>20, JobReadyType, JobUpdateType DEF JobCommitted, MaybeOutput
    <2>8. CASE InitializeCommit(w)
      BY <2>7, <2>8 DEF InitializeCommit, Status, MaybeEngine, EngineChoice
    <2>9. CASE SelectRead(w)
      <3>1. PICK e \in Engine :
               job' = [job EXCEPT ![w].pc = "read", ![w].seen = dbStatus,
                                  ![w].seenEngine = dbEngine, ![w].pick = e]
        BY <2>9 DEF SelectRead
      <3>2. e \in MaybeEngine BY DEF MaybeEngine
      <3>3. job' \in [Worker -> JobType]
        BY <2>20, <3>1, <3>2, JobReadType, JobUpdateType
      <3>4. QED BY <2>9, <3>3 DEF SelectRead
    <2>10. CASE SelectCommit(w)
      <3>1. dbEngine' \in MaybeEngine BY <2>10 DEF SelectCommit, Written, JobType
      <3>2. QED BY <2>7, <2>10, <3>1 DEF SelectCommit, Written, Status
    <2>11. CASE RoleCommit(w)
      <3>1. PICK o \in Output :
               /\ steps' = [steps EXCEPT ![job[w].step] = IF @ = NoOutput THEN o ELSE @]
               /\ job' = [job EXCEPT ![w].pc = "ready", ![w].out = steps'[job[w].step]]
        BY <2>11 DEF RoleCommit
      <3>2. steps' \in [Role -> MaybeOutput] BY <3>1 DEF MaybeOutput
      <3>3. job' \in [Worker -> JobType]
        BY <2>11, <2>20, <3>1, <3>2, JobReadyType, JobUpdateType DEF RoleCommit
      <3>4. QED BY <2>11, <3>2, <3>3 DEF RoleCommit
    <2>12. CASE LanggraphRun(w)
      <3>1. PICK o \in Output : job' = [job EXCEPT ![w].pc = "ready", ![w].out = o]
        BY <2>12 DEF LanggraphRun
      <3>2. o \in MaybeOutput BY DEF MaybeOutput
      <3>3. job' \in [Worker -> JobType] BY <2>20, <3>1, <3>2, JobReadyType, JobUpdateType
      <3>4. QED BY <2>12, <3>3 DEF LanggraphRun
    <2>13. CASE DelayedCommit(w) BY <2>7, <2>13 DEF DelayedCommit
    <2>14. CASE FinalizeRead(w) BY <2>14, <2>21 DEF FinalizeRead
    <2>15. CASE FinalizeCommit(w)
      BY <2>7, <2>15 DEF FinalizeCommit, WorkflowReport, Status, Stage, Role
    <2>16. CASE MarkFailedRead(w)
      <3>1. (dbStatus \in Terminal) \in BOOLEAN OBVIOUS
      <3>2. job' \in [Worker -> JobType] BY <2>16, <2>21, <3>1 DEF MarkFailedRead
      <3>3. QED BY <2>16, <3>2 DEF MarkFailedRead
    <2>17. CASE MarkFailedCommit(w) BY <2>7, <2>17 DEF MarkFailedCommit, Status
    <2>18. QED
      BY <1>5, <2>2, <2>3, <2>4, <2>5, <2>6, <2>8, <2>9, <2>10, <2>11, <2>12, <2>13, <2>14,
         <2>15, <2>16, <2>17 DEF WorkerNext, JobProgress
  <1>6. CASE UNCHANGED vars BY <1>6 DEF vars
  <1>7. QED BY <1>1, <1>2, <1>3, <1>4, <1>5, <1>6 DEF Next

\* A worker's step leaves the requests, the history, the control state of the
\* workflow and the other workers' attempts alone, and it happens after the start.
LEMMA WorkerFrame ==
  ASSUME LifecycleInv, NEW w \in Worker, WorkerNext(w)
  PROVE  /\ UNCHANGED <<requested, delayed, create, req, history>>
         /\ wf.state # "absent"
         /\ wf'.state = wf.state /\ wf'.step = wf.step
         /\ wf'.try = wf.try /\ wf'.engine = wf.engine
         /\ \A v \in Worker : v # w => job'[v] = job[v]
  <1> USE DEF LifecycleInv, TypeOK, CreationOrder, input
  <1> USE DEF JobStart, WorkerCrash, JobFail, JobReturn, JobAt, JobRead, JobCommitted,
        InitializeRead, InitializeCommit, SelectRead, SelectCommit, RoleCommit, LanggraphRun,
        DelayedCommit, FinalizeRead, FinalizeCommit, MarkFailedRead, MarkFailedCommit
  <1>1. wf.state # "absent" BY DEF WorkerNext, JobProgress
  <1>2. UNCHANGED <<requested, delayed, create, req, history>> BY DEF WorkerNext, JobProgress
  <1>3. wf'.state = wf.state /\ wf'.step = wf.step /\ wf'.try = wf.try /\ wf'.engine = wf.engine
    BY DEF WorkerNext, JobProgress, WorkflowType
  <1>4. \A v \in Worker : v # w => job'[v] = job[v] BY DEF WorkerNext, JobProgress
  <1>5. QED BY <1>1, <1>2, <1>3, <1>4

\* A handler of the API changes no attempt, no result and no report, and the
\* instance only in its state, or it creates the instance.
LEMMA ApiFrame ==
  ASSUME LifecycleInv, CreateNext \/ \E r \in Request : RequestNext(r)
  PROVE  /\ UNCHANGED <<requested, delayed, dbEngine, dbReport, steps, probed, history, job>>
         /\ \/ /\ wf.state = "absent" /\ create.pc = "stored" /\ wf'.state = "running"
               /\ wf'.step = "initialize" /\ wf'.outcome = "pending" /\ wf'.engine = wf.engine
            \/ /\ wf'.state = wf.state \/ {wf.state, wf'.state} = {"running", "suspended"}
               /\ wf'.step = wf.step /\ wf'.try = wf.try /\ wf'.outcome = wf.outcome
               /\ wf'.engine = wf.engine /\ wf'.out = wf.out /\ wf'.pick = wf.pick
               /\ wf'.offered = wf.offered
  <1> USE DEF LifecycleInv, TypeOK, CreationOrder, input, row, stepTable, WorkflowType
  <1>1. CASE CreateNext
    BY <1>1 DEF CreateNext, CreateAt, CreateStore, CreateAborts, CreateScheduled,
       CreateScheduleRaises, MarkSchedulingFailedRead, MarkSchedulingFailedCommit,
       WorkflowStarts, Schedule
  <1>2. ASSUME NEW op, SignalWorkflow(op)
        PROVE  /\ wf'.state = wf.state \/ {wf.state, wf'.state} = {"running", "suspended"}
               /\ wf'.step = wf.step /\ wf'.try = wf.try /\ wf'.outcome = wf.outcome
               /\ wf'.engine = wf.engine /\ wf'.out = wf.out /\ wf'.pick = wf.pick
               /\ wf'.offered = wf.offered
    BY <1>2 DEF SignalWorkflow
  <1>3. ASSUME NEW r \in Request, RequestNext(r)
        PROVE  /\ UNCHANGED <<requested, delayed, dbEngine, dbReport, steps, probed, history, job>>
               /\ UNCHANGED wf \/ \E op \in {"pause", "resume"} : SignalWorkflow(op)
    BY <1>3 DEF RequestNext, RequestCheck, RequestSignal, RequestSignalRaises,
       RequestPersistRead, RequestPersistCommit, RequestPersistRaises, RequestCompensate,
       RequestCrash, RequestType, Opposite
  <1>4. QED BY <1>1, <1>2, <1>3

\* The row and the instance come into being once, in that order.
LEMMA CreationOrderStep == ASSUME LifecycleInv, [Next]_vars PROVE CreationOrder'
  <1> USE DEF LifecycleInv, CreationOrder, TypeOK, input, row, stepTable, bounds
  <1>1. CASE CreateNext
    <2> USE DEF CreateAt, CreateType, WorkflowType
    <2>1. CASE CreateStore BY <2>1 DEF CreateStore
    <2>2. CASE CreateAborts BY <2>2 DEF CreateAborts
    <2>3. CASE CreateScheduled BY <2>3 DEF CreateScheduled, WorkflowStarts, Schedule, NoStep
    <2>4. CASE CreateScheduleRaises
      BY <2>4 DEF CreateScheduleRaises, WorkflowStarts, Schedule, NoStep
    <2>5. CASE MarkSchedulingFailedRead BY <2>5 DEF MarkSchedulingFailedRead
    <2>6. CASE MarkSchedulingFailedCommit BY <2>6 DEF MarkSchedulingFailedCommit
    <2>7. QED BY <1>1, <2>1, <2>2, <2>3, <2>4, <2>5, <2>6 DEF CreateNext
  <1>2. ASSUME NEW r \in Request, RequestNext(r) PROVE CreationOrder'
    <2> USE DEF WorkflowType, RequestType, ReqAt
    <2>1. CASE RequestCheck(r) BY <2>1 DEF RequestCheck
    <2>2. CASE RequestSignal(r) BY <2>2 DEF RequestSignal, SignalWorkflow
    <2>3. CASE RequestSignalRaises(r) BY <2>3 DEF RequestSignalRaises, SignalWorkflow
    <2>4. CASE RequestPersistRead(r) BY <2>4 DEF RequestPersistRead
    <2>5. CASE RequestPersistCommit(r) BY <2>5 DEF RequestPersistCommit
    <2>6. CASE RequestPersistRaises(r) BY <2>6 DEF RequestPersistRaises
    <2>7. CASE RequestCompensate(r) BY <2>7 DEF RequestCompensate, SignalWorkflow
    <2>8. CASE RequestCrash(r) BY <2>8 DEF RequestCrash
    <2>9. QED BY <1>2, <2>1, <2>2, <2>3, <2>4, <2>5, <2>6, <2>7, <2>8 DEF RequestNext
  <1>3. CASE Orchestrate
    <2> USE DEF WorkflowType, Answered, Schedule
    <2>1. CASE Advance
      <3>1. NextStep(wf.step, wf.engine) # NoStep /\ NextStep(wf.step, wf.pick) # NoStep
        BY DEF NextStep, FirstStage, NoStep
      <3>2. QED BY <2>1, <3>1 DEF Advance
    <2>2. CASE Retry BY <2>2 DEF Retry
    <2>3. CASE GiveUp BY <2>3 DEF GiveUp, NoStep
    <2>4. CASE Complete BY <2>4 DEF Complete
    <2>5. CASE RaiseOut BY <2>5 DEF RaiseOut
    <2>6. QED BY <1>3, <2>1, <2>2, <2>3, <2>4, <2>5 DEF Orchestrate
  <1>4. CASE Redeliver BY <1>4 DEF Redeliver, WorkflowType
  <1>5. ASSUME NEW w \in Worker, WorkerNext(w) PROVE CreationOrder'
    <2>1. wf.state # "absent"
      BY <1>5 DEF WorkerNext, JobStart, WorkerCrash, JobProgress, JobFail, JobReturn, JobAt,
         InitializeRead, InitializeCommit, SelectRead, SelectCommit, RoleCommit, LanggraphRun,
         DelayedCommit, FinalizeRead, FinalizeCommit, MarkFailedRead, MarkFailedCommit
    <2>2. create' = create /\ req' = req /\ requested' = requested
      BY <1>5 DEF WorkerNext, JobStart, WorkerCrash, JobProgress, JobFail, JobReturn,
         InitializeRead, InitializeCommit, SelectRead, SelectCommit, RoleCommit, LanggraphRun,
         DelayedCommit, FinalizeRead, FinalizeCommit, MarkFailedRead, MarkFailedCommit
    <2>3. wf'.state = wf.state /\ wf'.step = wf.step
      BY <1>5 DEF WorkerNext, JobStart, WorkerCrash, JobProgress, JobFail, JobReturn,
         InitializeRead, InitializeCommit, SelectRead, SelectCommit, RoleCommit, LanggraphRun,
         DelayedCommit, FinalizeRead, FinalizeCommit, MarkFailedRead, MarkFailedCommit, WorkflowType
    <2>4. QED BY <2>1, <2>2, <2>3
  <1>6. CASE UNCHANGED vars BY <1>6 DEF vars
  <1>7. QED BY <1>1, <1>2, <1>3, <1>4, <1>5, <1>6 DEF Next

\* select_engine runs only for an auto task, and what it picks is an engine.
LEMMA RoutedOnlyAutoStep == ASSUME LifecycleInv, [Next]_vars PROVE RoutedOnlyAuto'
  <1> USE DEF LifecycleInv, RoutedOnlyAuto, TypeOK, input, row, stepTable, bounds
  <1>1. CASE CreateNext \/ \E r \in Request : RequestNext(r)
    BY <1>1, ApiFrame DEF CreationOrder
  <1>2. CASE Orchestrate
    <2> USE DEF WorkflowType, Answered, Schedule, Engine, NoEngine
    <2>1. CASE Advance BY <2>1 DEF Advance, NextStep, FirstStage
    <2>2. CASE Retry BY <2>2 DEF Retry
    <2>3. CASE GiveUp BY <2>3 DEF GiveUp
    <2>4. CASE Complete BY <2>4 DEF Complete
    <2>5. CASE RaiseOut BY <2>5 DEF RaiseOut
    <2>6. QED BY <1>2, <2>1, <2>2, <2>3, <2>4, <2>5 DEF Orchestrate
  <1>3. CASE Redeliver BY <1>3 DEF Redeliver, WorkflowType
  <1>4. ASSUME NEW w \in Worker, WorkerNext(w) PROVE RoutedOnlyAuto'
    <2> USE <1>4, WorkerFrame DEF JobType, WorkflowType, JobAt, JobRead, JobCommitted
    <2>1. CASE JobStart(w) BY <2>1 DEF JobStart, IdleJob
    <2>2. CASE WorkerCrash(w) BY <2>2 DEF WorkerCrash, IdleJob, NoStep
    <2>3. CASE JobFail(w) BY <2>3 DEF JobFail, IdleJob, NoStep
    <2>4. CASE JobReturn(w) BY <2>4 DEF JobReturn, Current, IdleJob, NoStep
    <2>5. CASE InitializeRead(w) BY <2>5 DEF InitializeRead
    <2>6. CASE InitializeCommit(w) BY <2>6 DEF InitializeCommit
    <2>7. CASE SelectRead(w) BY <2>7 DEF SelectRead
    <2>8. CASE SelectCommit(w) BY <2>8 DEF SelectCommit
    <2>9. CASE RoleCommit(w) BY <2>9 DEF RoleCommit, Role
    <2>10. CASE LanggraphRun(w) BY <2>10 DEF LanggraphRun
    <2>11. CASE DelayedCommit(w) BY <2>11 DEF DelayedCommit
    <2>12. CASE FinalizeRead(w) BY <2>12 DEF FinalizeRead
    <2>13. CASE FinalizeCommit(w) BY <2>13 DEF FinalizeCommit
    <2>14. CASE MarkFailedRead(w) BY <2>14 DEF MarkFailedRead
    <2>15. CASE MarkFailedCommit(w) BY <2>15 DEF MarkFailedCommit
    <2>16. QED
      BY <2>1, <2>2, <2>3, <2>4, <2>5, <2>6, <2>7, <2>8, <2>9, <2>10, <2>11, <2>12, <2>13,
         <2>14, <2>15 DEF WorkerNext, JobProgress
  <1>5. CASE UNCHANGED vars BY <1>5 DEF vars
  <1>6. QED BY <1>1, <1>2, <1>3, <1>4, <1>5 DEF Next

\* Taking a result only adds to the history, and only where it was empty.
LEMMA AdvanceAdds ==
  ASSUME LifecycleInv, Advance
  PROVE  /\ wf.step \in Stage => history[wf.step] = NoOutput /\ wf.out # NoOutput
         /\ \A s \in Stage : s # wf.step => history'[s] = history[s]
         /\ wf.step \in Stage => history'[wf.step] = wf.out
  <1> USE DEF LifecycleInv, TypeOK, Advance, Answered
  <1>1. wf.step \in Stage => wf.step \in Ahead(wf.step) BY DEF Ahead, Stage, Role
  <1>2. wf.step \in Stage => history[wf.step] = NoOutput BY <1>1 DEF InOrder
  <1>3. wf.step \in Stage => wf.out # NoOutput
    BY DEF RecordedEverywhere, Stage
  <1>4. QED BY <1>2, <1>3 DEF Stage

\* What an attempt relies on stays true when the workflow moves on.
LEMMA PreparedStays ==
  ASSUME LifecycleInv, Advance, NEW s \in Step \union {NoStep}, Prepared(s)
  PROVE  Prepared(s)'
  <1> USE AdvanceAdds DEF LifecycleInv, TypeOK
  <1>1. probed' = probed /\ delayed' = delayed BY DEF Advance, input, stepTable
  <1>2. \A t \in Stage : history[t] # NoOutput => history'[t] # NoOutput
    OBVIOUS
  <1>3. wf.engine # "auto" => wf'.engine = wf.engine
    BY DEF Advance, WorkflowType, Schedule, RoutedOnlyAuto
  <1>4. EngineDone => EngineDone' BY <1>2, <1>3 DEF EngineDone, Stage
  <1>5. QED BY <1>1, <1>2, <1>3, <1>4 DEF Prepared, Stage, Role

\* Each activity runs, and each of its stale attempts, with its inputs in place.
LEMMA InOrderStep == ASSUME LifecycleInv, [Next]_vars PROVE InOrder'
  <1> USE DEF LifecycleInv, InOrder, TypeOK, input, row, stepTable, bounds
  <1>1. CASE CreateNext \/ \E r \in Request : RequestNext(r)
    <2>1. \A s \in Step \union {NoStep} : Prepared(s) => Prepared(s)'
      BY <1>1, ApiFrame DEF Prepared, EngineDone
    <2>2. Ahead("initialize") = Stage /\ Ahead(NoStep) = Stage BY DEF Ahead, NoStep
    <2>3. Prepared("initialize")' BY DEF Prepared, Role
    <2>4. QED BY <1>1, <2>1, <2>2, <2>3, ApiFrame DEF CreationOrder, WorkflowType, JobType
  <1>2. CASE Orchestrate
    <2> USE DEF WorkflowType, Answered, Schedule
    <2>1. CASE Advance
      <3> USE AdvanceAdds
      <3>1. \A s \in Step \union {NoStep} : Prepared(s) => Prepared(s)'
        BY <2>1, PreparedStays
      <3>2. \A w \in Worker : job'[w].step = job[w].step /\ job[w].step \in Step \union {NoStep}
        BY <2>1 DEF Advance, JobType
      <3>3. \A w \in Worker : Prepared(job[w].step)'
        BY <3>1, <3>2
      <3> DEFINE e == IF wf.step = "select" THEN wf.pick ELSE wf.engine
      <3>4. wf'.step = NextStep(wf.step, e) /\ wf'.engine = e
        BY <2>1 DEF Advance
      <3>5. wf.step # NoStep /\ wf.step \notin {"finalize", "markFailed"}
        BY <2>1 DEF Advance, CreationOrder
      <3>6. Prepared(wf.step)'
        <4> USE <2>1, <3>4, <3>5 DEF NextStep, FirstStage, Prepared, Role
        <4>1. wf.outcome = "ok" /\ probed' = probed /\ delayed' = delayed
          BY DEF Advance
        <4>2. wf.step = "select" => e \in Engine BY <4>1 DEF RoutedOnlyAuto
        <4>3. CASE wf.step \in {"initialize", "select"}
          BY <4>2, <4>3 DEF Engine, EngineChoice
        <4>4. CASE wf.step \in {"researcher", "analyst"} BY <4>4 DEF Stage
        <4>5. CASE wf.step \in {"writer", "langgraph"} BY <4>1, <4>5 DEF EngineDone, Stage
        <4>6. CASE wf.step = "delayed"
          <5>1. EngineDone' BY <3>1, <4>6 DEF Step
          <5>2. probed' BY <4>1, <4>6 DEF RecordedEverywhere
          <5>3. QED BY <4>6, <5>1, <5>2
        <4>7. QED BY <4>3, <4>4, <4>5, <4>6 DEF Step, Stage
      <3>7. \A s \in Ahead(wf'.step) : history'[s] = NoOutput
        BY <2>1, <3>4, <3>5 DEF NextStep, FirstStage, Ahead, Stage, Role, Step, NoStep
      <3>8. QED BY <3>3, <3>6, <3>7
    <2>2. CASE Retry BY <2>2 DEF Retry, Prepared, EngineDone
    <2>3. CASE GiveUp BY <2>3 DEF GiveUp, Prepared, EngineDone, Ahead, Role, Stage, NoStep
    <2>4. CASE Complete BY <2>4 DEF Complete, Prepared, EngineDone
    <2>5. CASE RaiseOut BY <2>5 DEF RaiseOut, Prepared, EngineDone
    <2>6. QED BY <1>2, <2>1, <2>2, <2>3, <2>4, <2>5 DEF Orchestrate
  <1>3. CASE Redeliver BY <1>3 DEF Redeliver, WorkflowType, Prepared, EngineDone
  <1>4. ASSUME NEW w \in Worker, WorkerNext(w) PROVE InOrder'
    <2>1. probed => probed'
      BY <1>4 DEF WorkerNext, JobStart, WorkerCrash, JobProgress, JobFail, JobReturn,
         InitializeRead, InitializeCommit, SelectRead, SelectCommit, RoleCommit, LanggraphRun,
         DelayedCommit, FinalizeRead, FinalizeCommit, MarkFailedRead, MarkFailedCommit
    <2>2. job'[w].step = NoStep \/ job'[w].step = wf.step \/ job'[w].step = job[w].step
      <3>1. CASE JobStart(w) BY <3>1 DEF JobStart, IdleJob
      <3>2. CASE WorkerCrash(w) \/ JobFail(w) \/ JobReturn(w)
        BY <3>2 DEF WorkerCrash, JobFail, JobReturn, IdleJob
      <3>3. ASSUME NEW b, JobRead(w, b) PROVE job'[w].step = job[w].step
        BY <3>3 DEF JobRead, JobType
      <3>4. ASSUME JobCommitted(w) PROVE job'[w].step = job[w].step
        BY <3>4 DEF JobCommitted, JobType
      <3>5. CASE SelectRead(w) \/ RoleCommit(w) \/ LanggraphRun(w)
        BY <3>5 DEF SelectRead, RoleCommit, LanggraphRun, JobType
      <3>6. QED
        BY <1>4, <3>1, <3>2, <3>3, <3>4, <3>5 DEF WorkerNext, JobProgress, InitializeRead,
           InitializeCommit, SelectCommit, DelayedCommit, FinalizeRead, FinalizeCommit,
           MarkFailedRead, MarkFailedCommit
    <2>3. \A s : Prepared(s) => Prepared(s)'
      BY <1>4, <2>1, WorkerFrame DEF Prepared, EngineDone
    <2>4. Prepared(NoStep)' BY DEF Prepared, NoStep, Role
    <2>5. QED BY <1>4, <2>2, <2>3, <2>4, WorkerFrame
  <1>5. CASE UNCHANGED vars BY <1>5 DEF vars, Prepared, EngineDone
  <1>6. QED BY <1>1, <1>2, <1>3, <1>4, <1>5 DEF Next

\* Whatever attempt ran a role, its recorded output is the one that travels.
LEMMA RecordedEverywhereStep == ASSUME LifecycleInv, [Next]_vars PROVE RecordedEverywhere'
  <1> USE LifecycleAssumption
  <1> USE DEF LifecycleInv, RecordedEverywhere, HistoryIsRecorded, TypeOK
  <1> USE DEF input, row, stepTable, bounds
  <1>1. CASE CreateNext \/ \E r \in Request : RequestNext(r)
    BY <1>1, ApiFrame DEF CreationOrder
  <1>2. CASE Orchestrate
    <2> USE DEF WorkflowType, Answered, Schedule
    <2>1. CASE Advance BY <2>1, AdvanceAdds DEF Advance, Stage
    <2>2. CASE Retry BY <2>2 DEF Retry
    <2>3. CASE GiveUp BY <2>3 DEF GiveUp
    <2>4. CASE Complete BY <2>4 DEF Complete
    <2>5. CASE RaiseOut BY <2>5 DEF RaiseOut
    <2>6. QED BY <1>2, <2>1, <2>2, <2>3, <2>4, <2>5 DEF Orchestrate
  <1>3. CASE Redeliver BY <1>3 DEF Redeliver, WorkflowType
  <1>4. ASSUME NEW w \in Worker, WorkerNext(w) PROVE RecordedEverywhere'
    <2> USE <1>4, WorkerFrame DEF JobType, WorkflowType, JobAt, JobRead, JobCommitted
    <2>1. CASE JobStart(w) BY <2>1 DEF JobStart, IdleJob
    <2>2. CASE WorkerCrash(w) BY <2>2 DEF WorkerCrash, IdleJob
    <2>3. CASE JobFail(w) BY <2>3 DEF JobFail, IdleJob
    <2>4. CASE JobReturn(w) BY <2>4 DEF JobReturn, Current, IdleJob
    <2>5. CASE InitializeRead(w) BY <2>5 DEF InitializeRead, Role
    <2>6. CASE InitializeCommit(w) BY <2>6 DEF InitializeCommit, Role
    <2>7. CASE SelectRead(w) BY <2>7 DEF SelectRead
    <2>8. CASE SelectCommit(w) BY <2>8 DEF SelectCommit, Role
    <2>9. CASE RoleCommit(w)
      <3>1. PICK o \in Output :
               /\ steps' = [steps EXCEPT ![job[w].step] = IF @ = NoOutput THEN o ELSE @]
               /\ job' = [job EXCEPT ![w].pc = "ready", ![w].out = steps'[job[w].step]]
        BY <2>9 DEF RoleCommit
      <3>2. \A r \in Role : steps[r] # NoOutput => steps'[r] = steps[r]
        BY <3>1
      <3>3. steps'[job[w].step] # NoOutput BY <2>9, <3>1 DEF RoleCommit
      <3>4. UNCHANGED <<wf, history, probed>> BY <2>9 DEF RoleCommit
      <3>5. /\ job'[w].step = job[w].step
            /\ job'[w].out = steps'[job[w].step]
            /\ job[w].step \in Role
        BY <2>9, <3>1 DEF RoleCommit
      <3>6. QED BY <3>2, <3>3, <3>4, <3>5 DEF Role
    <2>10. CASE LanggraphRun(w) BY <2>10 DEF LanggraphRun, Role
    <2>11. CASE DelayedCommit(w) BY <2>11 DEF DelayedCommit, Role
    <2>12. CASE FinalizeRead(w) BY <2>12 DEF FinalizeRead, Role
    <2>13. CASE FinalizeCommit(w) BY <2>13 DEF FinalizeCommit, Role
    <2>14. CASE MarkFailedRead(w) BY <2>14 DEF MarkFailedRead, Role
    <2>15. CASE MarkFailedCommit(w) BY <2>15 DEF MarkFailedCommit, Role
    <2>16. QED
      BY <2>1, <2>2, <2>3, <2>4, <2>5, <2>6, <2>7, <2>8, <2>9, <2>10, <2>11, <2>12, <2>13,
         <2>14, <2>15 DEF WorkerNext, JobProgress
  <1>5. CASE UNCHANGED vars BY <1>5 DEF vars
  <1>6. QED BY <1>1, <1>2, <1>3, <1>4, <1>5 DEF Next

\* A report in the row stays the report of the workflow: the engine is done, so
\* nothing can add to its history.
LEMMA ReportStays ==
  ASSUME LifecycleInv, Advance, EngineDone
  PROVE  UNCHANGED <<history, WorkflowReport>> /\ wf'.engine = wf.engine
  <1> USE DEF LifecycleInv, TypeOK
  <1>1. wf.step \notin Stage
    BY AdvanceAdds DEF EngineDone, InOrder, Prepared, Stage, Role
  <1>2. wf.step # "select" BY DEF RoutedOnlyAuto, EngineDone
  <1>3. QED BY <1>1, <1>2 DEF Advance, WorkflowReport, Schedule, WorkflowType

\* A success is committed with its report, and skipping finalize rests on it.
LEMMA ReportWithSuccessStep == ASSUME LifecycleInv, [Next]_vars PROVE ReportWithSuccess'
  <1> USE DEF LifecycleInv, ReportWithSuccess, TypeOK
  <1> USE DEF input, row, stepTable, bounds
  <1>1. CASE CreateNext \/ \E r \in Request : RequestNext(r)
    <2>1. dbStatus' = "succeeded" => dbStatus = "succeeded"
      BY <1>1 DEF CreateNext, CreateStore, CreateAborts, CreateScheduled, CreateScheduleRaises,
         MarkSchedulingFailedRead, MarkSchedulingFailedCommit, RequestNext, RequestCheck,
         RequestSignal, RequestSignalRaises, RequestPersistRead, RequestPersistCommit,
         RequestPersistRaises, RequestCompensate, RequestCrash, Written, Target
    <2>2. QED BY <1>1, <2>1, ApiFrame DEF CreationOrder, WorkflowReport, EngineDone
  <1>2. CASE Orchestrate
    <2> USE DEF WorkflowType, Answered, Schedule
    <2>1. CASE Advance
      <3>1. dbReport # NoOutput => UNCHANGED <<history, WorkflowReport>> /\ wf'.engine = wf.engine
        BY <2>1, ReportStays
      <3>2. QED BY <2>1, <3>1 DEF Advance, EngineDone
    <2>2. CASE Retry BY <2>2 DEF Retry, WorkflowReport, EngineDone
    <2>3. CASE GiveUp BY <2>3 DEF GiveUp, WorkflowReport, EngineDone
    <2>4. CASE Complete BY <2>4 DEF Complete, WorkflowReport, EngineDone
    <2>5. CASE RaiseOut BY <2>5 DEF RaiseOut, WorkflowReport, EngineDone
    <2>6. QED BY <1>2, <2>1, <2>2, <2>3, <2>4, <2>5 DEF Orchestrate
  <1>3. CASE Redeliver BY <1>3 DEF Redeliver, WorkflowType, WorkflowReport, EngineDone
  <1>4. ASSUME NEW w \in Worker, WorkerNext(w) PROVE ReportWithSuccess'
    <2>1. WorkflowReport' = WorkflowReport /\ (EngineDone <=> EngineDone')
      BY <1>4, WorkerFrame DEF WorkflowReport, EngineDone
    <2> USE <1>4, WorkerFrame, <2>1 DEF JobType, WorkflowType, JobAt, JobRead, JobCommitted
    <2>2. CASE JobStart(w) BY <2>2 DEF JobStart, IdleJob
    <2>3. CASE WorkerCrash(w) BY <2>3 DEF WorkerCrash, IdleJob
    <2>4. CASE JobFail(w) BY <2>4 DEF JobFail, IdleJob, Current
    <2>5. CASE JobReturn(w) BY <2>5 DEF JobReturn, Current, IdleJob
    <2>6. CASE InitializeRead(w) BY <2>6 DEF InitializeRead
    <2>7. CASE InitializeCommit(w) BY <2>7 DEF InitializeCommit
    <2>8. CASE SelectRead(w) BY <2>8 DEF SelectRead
    <2>9. CASE SelectCommit(w) BY <2>9 DEF SelectCommit, Written
    <2>10. CASE RoleCommit(w) BY <2>10 DEF RoleCommit, Role
    <2>11. CASE LanggraphRun(w) BY <2>11 DEF LanggraphRun
    <2>12. CASE DelayedCommit(w) BY <2>12 DEF DelayedCommit
    <2>13. CASE FinalizeRead(w) BY <2>13 DEF FinalizeRead
    <2>14. CASE FinalizeCommit(w)
      <3>1. EngineDone /\ (delayed => probed) BY <2>14 DEF FinalizeCommit, InOrder, Prepared
      <3>2. WorkflowReport # NoOutput BY <3>1 DEF EngineDone, WorkflowReport, Role
      <3>3. QED BY <2>14, <3>1, <3>2 DEF FinalizeCommit
    <2>15. CASE MarkFailedRead(w) BY <2>15 DEF MarkFailedRead
    <2>16. CASE MarkFailedCommit(w) BY <2>16 DEF MarkFailedCommit
    <2>17. QED
      BY <2>2, <2>3, <2>4, <2>5, <2>6, <2>7, <2>8, <2>9, <2>10, <2>11, <2>12, <2>13,
         <2>14, <2>15, <2>16 DEF WorkerNext, JobProgress
  <1>5. CASE UNCHANGED vars BY <1>5 DEF vars, WorkflowReport, EngineDone
  <1>6. QED BY <1>1, <1>2, <1>3, <1>4, <1>5 DEF Next

\* A transaction is between its SELECT and its COMMIT only after a status check.
LEMMA SeenMayMoveStep == ASSUME LifecycleInv, [Next]_vars PROVE SeenMayMove'
  <1> USE DEF LifecycleInv, SeenMayMove, TypeOK, input, row, stepTable, bounds
  <1>1. CASE CreateNext
    <2>1. req' = req
      BY <1>1 DEF CreateNext, CreateStore, CreateAborts, CreateScheduled, CreateScheduleRaises,
         MarkSchedulingFailedRead, MarkSchedulingFailedCommit
    <2>2. QED BY <1>1, <2>1, ApiFrame
  <1>2. ASSUME NEW r \in Request, RequestNext(r) PROVE SeenMayMove'
    <2>1. job' = job BY <1>2, ApiFrame
    <2>2. \A q \in Request : req'[q].op = req[q].op
      BY <1>2 DEF RequestNext, ReqAt, RequestCheck, RequestSignal, RequestSignalRaises,
         RequestPersistRead, RequestPersistCommit, RequestPersistRaises, RequestCompensate,
         RequestCrash, RequestType
    <2> USE DEF RequestType
    <2>3. CASE RequestPersistRead(r) BY <2>1, <2>2, <2>3 DEF RequestPersistRead
    <2>4. CASE ~RequestPersistRead(r)
      <3>1. \A q \in Request : req'[q].pc = "read" => req'[q] = req[q]
        BY <1>2, <2>4 DEF RequestNext, ReqAt, RequestCheck, RequestSignal, RequestSignalRaises,
           RequestPersistCommit, RequestPersistRaises, RequestCompensate, RequestCrash
      <3>2. QED BY <2>1, <3>1
    <2>5. QED BY <2>3, <2>4
  <1>3. CASE Orchestrate \/ Redeliver
    BY <1>3 DEF Orchestrate, Advance, Retry, GiveUp, Complete, RaiseOut, Redeliver
  <1>4. ASSUME NEW w \in Worker, WorkerNext(w) PROVE SeenMayMove'
    <2> USE <1>4, WorkerFrame DEF JobType, JobAt, JobRead, JobCommitted
    <2>1. CASE JobStart(w) BY <2>1 DEF JobStart, IdleJob
    <2>2. CASE WorkerCrash(w) BY <2>2 DEF WorkerCrash, IdleJob
    <2>3. CASE JobFail(w) BY <2>3 DEF JobFail, IdleJob
    <2>4. CASE JobReturn(w) BY <2>4 DEF JobReturn, IdleJob
    <2>5. CASE InitializeRead(w) BY <2>5 DEF InitializeRead
    <2>6. CASE InitializeCommit(w) BY <2>6 DEF InitializeCommit
    <2>7. CASE SelectRead(w) BY <2>7 DEF SelectRead
    <2>8. CASE SelectCommit(w) BY <2>8 DEF SelectCommit
    <2>9. CASE RoleCommit(w) BY <2>9 DEF RoleCommit, Role
    <2>10. CASE LanggraphRun(w) BY <2>10 DEF LanggraphRun
    <2>11. CASE DelayedCommit(w) BY <2>11 DEF DelayedCommit
    <2>12. CASE FinalizeRead(w) BY <2>12 DEF FinalizeRead
    <2>13. CASE FinalizeCommit(w) BY <2>13 DEF FinalizeCommit
    <2>14. CASE MarkFailedRead(w) BY <2>14 DEF MarkFailedRead
    <2>15. CASE MarkFailedCommit(w) BY <2>15 DEF MarkFailedCommit
    <2>16. QED
      BY <2>1, <2>2, <2>3, <2>4, <2>5, <2>6, <2>7, <2>8, <2>9, <2>10, <2>11, <2>12, <2>13,
         <2>14, <2>15 DEF WorkerNext, JobProgress
  <1>5. CASE UNCHANGED vars BY <1>5 DEF vars
  <1>6. QED BY <1>1, <1>2, <1>3, <1>4, <1>5 DEF Next

\* A request that may have let the workflow go on has done so for good.
LEMMA ResumedStays ==
  ASSUME LifecycleInv, NEW r \in Request, RequestNext(r),
         NEW q \in Request, MayHaveResumed(q)
  PROVE  MayHaveResumed(q)'
  <1> USE DEF LifecycleInv, TypeOK, RequestType, ReqAt, MayHaveResumed
  <1>1. req'[q].op = req[q].op
    BY DEF RequestNext, RequestCheck, RequestSignal, RequestSignalRaises,
       RequestPersistRead, RequestPersistCommit, RequestPersistRaises, RequestCompensate,
       RequestCrash
  <1>2. req'[q].pc = req[q].pc \/ req'[q].pc \notin {"new", "checked", "rejected"}
    BY DEF RequestNext, RequestCheck, RequestSignal, RequestSignalRaises,
       RequestPersistRead, RequestPersistCommit, RequestPersistRaises, RequestCompensate,
       RequestCrash
  <1>3. req[q].pc = "error" => req'[q].pc = "error"
    BY DEF RequestNext, RequestCheck, RequestSignal, RequestSignalRaises,
       RequestPersistRead, RequestPersistCommit, RequestPersistRaises, RequestCompensate,
       RequestCrash
  <1>4. QED BY <1>1, <1>2, <1>3

\* Until somebody lets it go, a paused workflow does not run.
LEMMA PauseHeldStep == ASSUME LifecycleInv, [Next]_vars PROVE PauseHeld'
  <1> USE DEF LifecycleInv, PauseHeld, TypeOK, input, row, stepTable, bounds
  <1>1. CASE CreateNext
    <2>1. req' = req
      BY <1>1 DEF CreateNext, CreateStore, CreateAborts, CreateScheduled, CreateScheduleRaises,
         MarkSchedulingFailedRead, MarkSchedulingFailedCommit
    <2>2. wf' = wf \/ wf.state = "absent"
      BY <1>1 DEF CreateNext, CreateStore, CreateAborts, CreateScheduled, CreateScheduleRaises,
         MarkSchedulingFailedRead, MarkSchedulingFailedCommit, CreateAt, CreationOrder
    <2>3. QED BY <2>1, <2>2 DEF MayHaveResumed
  <1>2. ASSUME NEW r \in Request, RequestNext(r) PROVE PauseHeld'
    <2>1. \A q \in Request : MayHaveResumed(q) => MayHaveResumed(q)'
      BY <1>2, ResumedStays
    <2> USE DEF RequestType, ReqAt, WorkflowType
    <2>2. \A q \in Request : q # r => req'[q] = req[q]
      BY <1>2 DEF RequestNext, RequestCheck, RequestSignal, RequestSignalRaises,
         RequestPersistRead, RequestPersistCommit, RequestPersistRaises, RequestCompensate,
         RequestCrash
    <2>3. CASE RequestCheck(r) BY <2>1, <2>2, <2>3 DEF RequestCheck
    <2>4. CASE RequestSignal(r)
      <3>1. CASE req[r].op = "pause"
        BY <2>1, <2>2, <2>4, <3>1 DEF RequestSignal, SignalWorkflow
      <3>2. CASE req[r].op = "resume"
        <4>1. MayHaveResumed(r)' BY <2>4, <3>2 DEF RequestSignal, MayHaveResumed
        <4>2. wf'.state # "absent" BY <2>4, <3>2 DEF RequestSignal, SignalWorkflow
        <4>3. QED BY <4>1, <4>2
      <3>3. QED BY <3>1, <3>2
    <2>5. CASE RequestSignalRaises(r)
      <3>1. CASE req[r].op = "pause"
        BY <2>1, <2>2, <2>5, <3>1 DEF RequestSignalRaises, SignalWorkflow
      <3>2. CASE req[r].op = "resume"
        <4>1. MayHaveResumed(r)' BY <2>5, <3>2 DEF RequestSignalRaises, MayHaveResumed
        <4>2. wf.state # "absent" => wf'.state # "absent"
          BY <2>5, <3>2 DEF RequestSignalRaises, SignalWorkflow
        <4>3. QED BY <2>2, <2>5, <3>2, <4>1, <4>2 DEF RequestSignalRaises
      <3>3. QED BY <3>1, <3>2
    <2>6. CASE RequestPersistRead(r) BY <2>1, <2>2, <2>6 DEF RequestPersistRead
    <2>7. CASE RequestPersistCommit(r) BY <2>1, <2>2, <2>7 DEF RequestPersistCommit
    <2>8. CASE RequestPersistRaises(r) BY <2>1, <2>2, <2>8 DEF RequestPersistRaises
    <2>9. CASE RequestCompensate(r)
      <3>1. MayHaveResumed(r)' BY <2>9 DEF RequestCompensate, MayHaveResumed
      <3>2. wf.state # "absent" => wf'.state # "absent"
        BY <2>9 DEF RequestCompensate, SignalWorkflow
      <3>3. QED BY <2>2, <2>9, <3>1, <3>2 DEF RequestCompensate
    <2>10. CASE RequestCrash(r) BY <2>1, <2>2, <2>10 DEF RequestCrash
    <2>11. QED BY <1>2, <2>3, <2>4, <2>5, <2>6, <2>7, <2>8, <2>9, <2>10 DEF RequestNext
  <1>3. CASE Orchestrate \/ Redeliver
    BY <1>3 DEF Orchestrate, Advance, Retry, GiveUp, Complete, RaiseOut, Redeliver, Answered,
       Schedule, WorkflowType, MayHaveResumed
  <1>4. ASSUME NEW w \in Worker, WorkerNext(w) PROVE PauseHeld'
    BY <1>4, WorkerFrame DEF MayHaveResumed
  <1>5. CASE UNCHANGED vars BY <1>5 DEF vars, MayHaveResumed
  <1>6. QED BY <1>1, <1>2, <1>3, <1>4, <1>5 DEF Next

-----------------------------------------------------------------------------

\* The invariant holds before the task exists.
LEMMA InitInv == Init => LifecycleInv
  <1> SUFFICES ASSUME Init PROVE LifecycleInv OBVIOUS
  <1> USE DEF Init, IdleJob
  <1>1. TypeOK
    BY DEF TypeOK, CreateType, RequestType, WorkflowType, JobType, MaybeEngine, MaybeOutput
  <1>2. CreationOrder BY DEF CreationOrder
  <1>3. RoutedOnlyAuto BY DEF RoutedOnlyAuto, NoStep
  <1>4. InOrder BY DEF InOrder, Prepared, Ahead, Role, Stage, NoStep
  <1>5. RecordedEverywhere BY DEF RecordedEverywhere, HistoryIsRecorded, Stage
  <1>6. ReportWithSuccess BY DEF ReportWithSuccess, NoRow
  <1>7. SeenMayMove BY DEF SeenMayMove
  <1>8. PauseHeld BY DEF PauseHeld
  <1>9. QED BY <1>1, <1>2, <1>3, <1>4, <1>5, <1>6, <1>7, <1>8 DEF LifecycleInv

\* Every step of every actor preserves it.
LEMMA NextInv == LifecycleInv /\ [Next]_vars => LifecycleInv'
  BY TypeStep, CreationOrderStep, RoutedOnlyAutoStep, InOrderStep, RecordedEverywhereStep,
     ReportWithSuccessStep, SeenMayMoveStep, PauseHeldStep DEF LifecycleInv

(***************************************************************************)
(* The inductive invariant of the life cycle holds for any number of       *)
(* requests, workers, retries, redeliveries and crashes.                   *)
(***************************************************************************)
THEOREM LifecycleInvariant == Spec => []LifecycleInv
  BY InitInv, NextInv, PTL DEF Spec

(* Every variable stays in its type.                                       *)
THEOREM TypeCorrect == Spec => []TypeOK
  BY LifecycleInvariant, PTL DEF LifecycleInv

(***************************************************************************)
(* The router never overrides a manual engine choice, in the row or in the *)
(* workflow.                                                               *)
(***************************************************************************)
THEOREM ManualEngineIsHonoured == Spec => []ManualEngineHonoured
  <1>1. LifecycleInv => ManualEngineHonoured
    BY DEF LifecycleInv, RoutedOnlyAuto, ManualEngineHonoured
  <1>2. QED BY <1>1, LifecycleInvariant, PTL

(***************************************************************************)
(* The history that the workflow replays and the step rows agree, however  *)
(* often an attempt was retried, redelivered or raced by a stale one.      *)
(***************************************************************************)
THEOREM HistoryAgreesWithRows == Spec => []HistoryIsRecorded
  <1>1. LifecycleInv => HistoryIsRecorded BY DEF LifecycleInv, RecordedEverywhere
  <1>2. QED BY <1>1, LifecycleInvariant, PTL

(***************************************************************************)
(* A completed workflow never loses its report, whatever the requests and  *)
(* stale attempts do to the status.                                        *)
(***************************************************************************)
THEOREM CompletionKeepsReport == Spec => []CompletedKeepsReport
  <1>1. LifecycleInv => CompletedKeepsReport
    BY DEF LifecycleInv, ReportWithSuccess, CompletedKeepsReport
  <1>2. QED BY <1>1, LifecycleInvariant, PTL

(***************************************************************************)
(* A succeeded task shows the report its workflow keeps, has the row of    *)
(* every CrewAI role that this report rests on, and its probe.             *)
(***************************************************************************)
THEOREM SuccessHasItsWork == Spec => []SucceededHasItsWork
  <1>1. LifecycleInv => SucceededHasItsWork
    BY DEF LifecycleInv, ReportWithSuccess, EngineDone, RecordedEverywhere, HistoryIsRecorded,
       SucceededHasItsWork
  <1>2. QED BY <1>1, LifecycleInvariant, PTL

(***************************************************************************)
(* A pause answered with 200 holds until a resume request reaches the      *)
(* scheduler or another pause undoes its own signal.                       *)
(***************************************************************************)
THEOREM PauseHolds == Spec => []AcknowledgedPauseHolds
  <1>1. LifecycleInv => AcknowledgedPauseHolds
    BY DEF LifecycleInv, PauseHeld, AcknowledgedPauseHolds
  <1>2. QED BY <1>1, LifecycleInvariant, PTL

\* Who may overwrite a status other than by a success.
LEMMA StatusLoss ==
  ASSUME LifecycleInv, Next, dbStatus = "succeeded", dbStatus' # "succeeded"
  PROVE  StaleReader
  <1> USE DEF LifecycleInv, SeenMayMove, StaleReader, row
  <1>1. CASE CreateNext
    BY <1>1 DEF CreateNext, CreateAt, CreateStore, CreateAborts, CreateScheduled,
       CreateScheduleRaises, MarkSchedulingFailedRead, MarkSchedulingFailedCommit,
       CreationOrder, NoRow
  <1>2. ASSUME NEW r \in Request, RequestNext(r) PROVE StaleReader
    BY <1>2 DEF RequestNext, ReqAt, RequestCheck, RequestSignal, RequestSignalRaises,
       RequestPersistRead, RequestPersistCommit, RequestPersistRaises, RequestCompensate,
       RequestCrash, CanTransition, AllowedTransitions, Target
  <1>3. ASSUME NEW w \in Worker, WorkerNext(w) PROVE StaleReader
    BY <1>3 DEF WorkerNext, JobStart, WorkerCrash, JobProgress, JobFail, JobReturn, JobAt,
       InitializeRead, InitializeCommit, SelectRead, SelectCommit, RoleCommit, LanggraphRun,
       DelayedCommit, FinalizeRead, FinalizeCommit, MarkFailedRead, MarkFailedCommit,
       CanTransition, AllowedTransitions, Terminal, Written
  <1>4. QED
    BY <1>1, <1>2, <1>3 DEF Next, Orchestrate, Advance, Retry, GiveUp, Complete, RaiseOut, Redeliver

(***************************************************************************)
(* A success is lost only to a transaction that read the row before it:    *)
(* nothing that starts after the success can undo it.                      *)
(***************************************************************************)
THEOREM SuccessIsLostOnlyToStaleRead == Spec => SuccessLostOnlyToStaleRead
  <1>1. LifecycleInv /\ [Next]_vars
          => [dbStatus = "succeeded" /\ dbStatus' # "succeeded" => StaleReader]_vars
    BY StatusLoss
  <1>2. QED BY <1>1, LifecycleInvariant, PTL DEF Spec, SuccessLostOnlyToStaleRead

-----------------------------------------------------------------------------
(* The refinement of ReportPipeline.                                       *)

abstract == <<wf.engine, StageResult, dbReport>>

\* Creation and requests do not show.
LEMMA ApiStutters ==
  ASSUME LifecycleInv, CreateNext \/ \E r \in Request : RequestNext(r)
  PROVE  UNCHANGED abstract
  BY ApiFrame DEF abstract, StageResult

\* Taking a result off the history is a Produce for langgraph, a Choose for
\* select_engine, and invisible for a role, whose result the row already had.
LEMMA AdvanceRefines ==
  ASSUME LifecycleInv, Advance
  PROVE  Pipeline!Next \/ UNCHANGED abstract
  <1> USE LifecycleAssumption, AdvanceAdds DEF LifecycleInv, TypeOK
  <1>1. UNCHANGED <<steps, dbReport>> BY DEF Advance, stepTable, row
  <1>2. CASE wf.step \in Role
    <2>1. wf'.engine = wf.engine BY <1>2 DEF Advance, Schedule, WorkflowType, Role
    <2>2. StageResult' = StageResult
      BY <1>1, <1>2 DEF StageResult, Stage
    <2>3. QED BY <1>1, <2>1, <2>2 DEF abstract
  <1>3. CASE wf.step = "langgraph"
    <2>1. wf'.engine = wf.engine /\ wf.engine = "langgraph"
      BY <1>3 DEF Advance, Schedule, WorkflowType, InOrder, Prepared
    <2>2. wf.out \in Output
      BY <1>3 DEF Stage, WorkflowType, MaybeOutput
    <2>3. StageResult' = [StageResult EXCEPT !["langgraph"] = wf.out]
      BY <1>1, <1>3 DEF StageResult, Stage, Role
    <2>4. StageResult["langgraph"] = NoOutput BY <1>3 DEF StageResult, Stage, Role
    <2>5. Pipeline!Produce("langgraph")
      BY <1>1, <2>1, <2>2, <2>3, <2>4 DEF Pipeline!Produce, Pipeline!EngineOf, Pipeline!Before
    <2>6. QED BY <2>5 DEF Pipeline!Next, Pipeline!Stage
  <1>4. CASE wf.step \notin Stage
    <2>1. StageResult' = StageResult BY <1>1, <1>4 DEF StageResult, Stage
    <2>2. CASE wf.step = "select"
      <3>1. wf.engine = "auto" /\ wf'.engine \in {"langgraph", "crewai"}
        BY <2>2 DEF Advance, Answered, Schedule, WorkflowType, RoutedOnlyAuto, Engine
      <3>2. Pipeline!Choose BY <1>1, <2>1, <3>1 DEF Pipeline!Choose
      <3>3. QED BY <3>2 DEF Pipeline!Next
    <2>3. CASE wf.step # "select"
      BY <1>1, <2>1, <2>3 DEF abstract, Advance, Schedule, WorkflowType
    <2>4. QED BY <2>2, <2>3
  <1>5. QED BY <1>2, <1>3, <1>4 DEF Stage

\* The first commit of a role is its Produce; a later attempt only reads it.
LEMMA RoleCommitRefines ==
  ASSUME LifecycleInv, NEW w \in Worker, RoleCommit(w)
  PROVE  Pipeline!Next \/ UNCHANGED abstract
  <1> USE LifecycleAssumption DEF LifecycleInv, TypeOK
  <1> DEFINE r == job[w].step
  <1>1. PICK o \in Output : steps' = [steps EXCEPT ![r] = IF @ = NoOutput THEN o ELSE @]
    BY DEF RoleCommit
  <1>2. r \in Role /\ r \in Stage /\ UNCHANGED <<wf, history, dbReport>>
    BY DEF RoleCommit, row, Stage
  <1>3. CASE steps[r] # NoOutput
    <2>1. steps' = steps BY <1>1, <1>2, <1>3
    <2>2. QED BY <1>2, <2>1 DEF abstract, StageResult
  <1>4. CASE steps[r] = NoOutput
    <2>1. StageResult' = [StageResult EXCEPT ![r] = o]
      BY <1>1, <1>2, <1>4 DEF StageResult
    <2>2. StageResult[r] = NoOutput BY <1>2, <1>4 DEF StageResult
    <2>3. wf.engine = "crewai" /\ Prepared(r) BY <1>2 DEF InOrder, Prepared
    <2>4. r = "analyst" => StageResult["researcher"] # NoOutput
      BY <2>3 DEF Prepared, RecordedEverywhere, HistoryIsRecorded, StageResult, Role, Stage
    <2>5. r = "writer" => StageResult["analyst"] # NoOutput
      BY <2>3 DEF Prepared, RecordedEverywhere, HistoryIsRecorded, StageResult, Role, Stage
    <2>6. Pipeline!Produce(r)
      BY <1>2, <2>1, <2>2, <2>3, <2>4, <2>5
         DEF Pipeline!Produce, Pipeline!EngineOf, Pipeline!Before, Role
    <2>7. QED BY <1>2, <2>6 DEF Pipeline!Next, Pipeline!Stage, Role
  <1>5. QED BY <1>3, <1>4

\* The first finalize that commits delivers; another one writes the same report.
LEMMA FinalizeRefines ==
  ASSUME LifecycleInv, NEW w \in Worker, FinalizeCommit(w)
  PROVE  Pipeline!Next \/ UNCHANGED abstract
  <1> USE DEF LifecycleInv, TypeOK
  <1>1. dbReport' = WorkflowReport /\ UNCHANGED <<wf, history, steps>>
    BY DEF FinalizeCommit, stepTable
  <1>2. EngineDone BY DEF FinalizeCommit, JobAt, InOrder, Prepared
  <1>3. UNCHANGED <<wf.engine, StageResult>> BY <1>1 DEF StageResult
  <1>4. StageResult[Pipeline!LastStage(wf.engine)] = WorkflowReport /\ WorkflowReport # NoOutput
    BY <1>2 DEF EngineDone, WorkflowReport, StageResult, Pipeline!LastStage, Stage, Role,
       RecordedEverywhere, HistoryIsRecorded
  <1>5. CASE dbReport # NoOutput BY <1>1, <1>3, <1>5 DEF ReportWithSuccess, abstract
  <1>6. CASE dbReport = NoOutput
    <2>1. Pipeline!Deliver BY <1>1, <1>2, <1>3, <1>4, <1>6 DEF Pipeline!Deliver, EngineDone
    <2>2. QED BY <2>1 DEF Pipeline!Next
  <1>7. QED BY <1>5, <1>6

(***************************************************************************)
(* Retried, redelivered, crashing and racing attempts together implement   *)
(* the pipeline in which every stage runs once and in order.               *)
(***************************************************************************)
THEOREM LifecycleImplementsPipeline == Spec => ImplementsPipeline
  <1>1. Init => Pipeline!Init
    BY DEF Init, Pipeline!Init, StageResult, Pipeline!Stage, Stage, Role, EngineChoice, Engine
  <1>2. ASSUME LifecycleInv, [Next]_vars PROVE Pipeline!Next \/ UNCHANGED abstract
    <2>1. CASE CreateNext \/ \E r \in Request : RequestNext(r) BY <1>2, <2>1, ApiStutters
    <2>2. CASE Advance BY <1>2, <2>2, AdvanceRefines
    <2>3. CASE Retry \/ GiveUp \/ Complete \/ RaiseOut \/ Redeliver
      BY <1>2, <2>3 DEF LifecycleInv, TypeOK, WorkflowType, Retry, GiveUp, Complete, RaiseOut,
         Redeliver, Schedule, abstract, StageResult, stepTable, row
    <2>4. ASSUME NEW w \in Worker, WorkerNext(w) PROVE Pipeline!Next \/ UNCHANGED abstract
      <3>1. CASE RoleCommit(w) BY <1>2, <3>1, RoleCommitRefines
      <3>2. CASE FinalizeCommit(w) BY <1>2, <3>2, FinalizeRefines
      <3>3. CASE ~RoleCommit(w) /\ ~FinalizeCommit(w)
        <4>1. UNCHANGED <<steps, dbReport>>
          BY <2>4, <3>3 DEF WorkerNext, JobStart, WorkerCrash, JobProgress, JobFail, JobReturn,
             InitializeRead, InitializeCommit, SelectRead, SelectCommit, LanggraphRun,
             DelayedCommit, FinalizeRead, MarkFailedRead, MarkFailedCommit, stepTable, row
        <4>2. QED BY <1>2, <2>4, <4>1, WorkerFrame DEF abstract, StageResult
      <3>4. QED BY <3>1, <3>2, <3>3
    <2>5. CASE UNCHANGED vars BY <2>5 DEF vars, abstract, StageResult, stepTable, row
    <2>6. QED BY <1>2, <2>1, <2>2, <2>3, <2>4, <2>5 DEF Next, Orchestrate
  <1>3. LifecycleInv /\ [Next]_vars => [Pipeline!Next]_abstract BY <1>2
  <1>4. QED
    BY <1>1, <1>3, LifecycleInvariant, PTL DEF Spec, ImplementsPipeline, Pipeline!Spec, abstract
=============================================================================
