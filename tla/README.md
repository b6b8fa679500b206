# A verified model of the multi-agent task platform

The platform accepts a research task over HTTP, runs it as a Dapr workflow
(CrewAI roles or a LangGraph graph), streams its progress to a browser and
keeps the report. The modules of this directory model the part of it that
decides whether a task ends well: who writes the task's row, what a retried or
duplicated activity may do, what survives a crash, and what a watcher is told.

Paths are relative to `src/apps/api/src/` unless they start with `src/`.

## 1. The system

| Part | State it keeps | Operations | Talks to |
|---|---|---|---|
| Task status machine (`persistence/state_machine.py`) | none: the relation over `TaskStatus` | `can_transition`, `assert_transition` | every writer of `tasks.status` |
| Task service (`api/services/task_service.py`, `workflows/client.py`) | `tasks` row, session history in Redis | create, pause, resume, their compensations | PostgreSQL, Dapr workflow, Redis, pub/sub |
| Workflow (`workflows/task_workflow.py`, `constraints.py`) | replayed history in Dapr | one activity after the other, retry policies, failure path | activities, through Dapr |
| Activities (`workflows/activities/task_activities.py`) | rows of `tasks`, `task_steps`, `tool_calls` | initialize, select_engine, three roles, LangGraph, delayed probe, finalize, mark_failed | PostgreSQL, Dapr state, pub/sub, LLM, MCP |
| Idempotent recording (`persistence/repository.py`, `idempotency.py`, `models.py`) | unique keys of `task_steps`, `tool_calls`, `audit_events` | record_step, record_tool_call, record_audit_event | PostgreSQL |
| LangGraph engine and saver (`orchestration/langgraph_engine/`, `persistence/checkpointer.py`) | checkpoints, index and pending writes in Dapr state | run, resume, aget_tuple, aput, aput_writes | LangGraph, Dapr state |
| Events (`events/`, `api/routes/tasks.py`, `dapr_subscribe.py`) | audit rows, one queue per SSE stream | publish, handle, broadcast, stream | pub/sub, PostgreSQL, browsers |
| Web event hook (`src/apps/web/src/hooks/useTaskEvents.ts`) | task, events, connection mode | load, SSE handlers, reconnect, poll | API |
| Runtime state and token counts (`persistence/dapr_state.py`, `observability/task_tokens.py`) | one JSON document per task | merge, accumulate | Dapr state |
| Activity event loop (`workflows/sync_runtime.py`) | one asyncio loop per worker | run_async | activity threads |
| LLM resilience, tool loop, MCP client (`llm/`, `agents/tool_loop.py`, `mcp_client/`) | none between calls | chat with retries, rounds of tool calls | providers, MCP server |
| MCP server (`src/apps/mcp-server/`) | database pool, sandbox containers | tool calls | PostgreSQL, Docker |
| Settings, sessions (`api/services/settings_service.py`, `persistence/session_store.py`) | JSON documents | read-modify-write | Redis, Dapr state |
| Minimal runner, metrics, web pages | nothing that another part decides by | | |

### What is hard here

- **Nobody locks the task's row.** `update_task_status` reads the status, checks
  the transition and writes (repository.py:61-83). Pause and resume requests, the
  create handler's failure path and five activities do so concurrently.
- **Activities run at least once.** An answer can be lost after the commit, a
  retry can decide differently, and a redelivered attempt can overlap one that
  still runs on another worker.
- **Calls to the workflow runtime are ambiguous**: `schedule_task` may raise
  although the workflow started, a pause may be signalled and its row not written.
- **Side effects are separate calls** with separate error handling: step row,
  event, runtime state, tool-call rows, checkpoint. The process may end between
  any two of them; some errors are swallowed.
- **Events are duplicated and reordered** by pub/sub, and fanned out by a
  broadcaster that exists in one process only.
- **Streams** must show what is recorded, once, and must not outlive their task.
- **The worker's loop runs only inside an activity.** Tasks nobody awaits freeze
  between activities, also one that holds a lock, and are lost with the process.
- **Time-outs are nested**: HTTP request, LLM retries, bridge, activity. Cancelling
  one does not always end what it contains.

### What makes each part correct

- Status machine and row: a status never moves outside the documented relation
  unless a stale reader wrote it; a report appears with success and stays.
- Task service: an acknowledged pause really holds; a failed pause or
  ambiguous scheduling does not cost a completed task its report.
- Workflow: stages in order, each once, the report is the last stage's, every
  scheduled task settles.
- Recorded step: write-once, whoever answers answers with the recorded output,
  and side effects belong to it.
- LangGraph activity: a saved node is not executed again, progress is not undone,
  retries return the same report, side effects are there before the checkpoint.
- Events: recorded once, shown once, only what is recorded; lost only to a failure.
- Web hook: follows the task in one way at a time, stops when, and only when, the
  task is over, and ends with a fresh detail.
- Runtime document: a process never loses its own patches; every LLM call counts once.
- Role attempt: a conversation the provider accepts, no tool outside the allowlist,
  no tool and at most one more request after the activity has been cut off, no thread
  that waits for ever.

## 2. Modules

| Module | What it is | Source |
|---|---|---|
| `TaskStatus` | statuses, transition relation, engine choices | `state_machine.py`, `orchestration/models.py` |
| `TaskPromise` | abstract: what the row promises | |
| `ReportPipeline` | abstract: what the work on a task promises | |
| `TaskLifecycle` | one task: create handler, pause and resume requests, orchestrator, activities on workers | `task_service.py`, `client.py`, `task_workflow.py`, `constraints.py`, `task_activities.py`, `repository.py` |
| `TaskLifecycleInv`, `TaskLifecycleProofs` | its inductive invariants and the proofs | |
| `TaskLifecycleQuietProofs` | proofs about a task without requests and duplicates | |
| `RecordedStep` | abstract: a write-once register | |
| `CrewStepCommit`, `CrewStepCommitProofs` | one CrewAI role step under overlapping deliveries | `task_activities.py:176-250, 391-445, 601-806`, `repository.py:92-117` |
| `LiveFeed` | abstract: audit trail and live watchers | |
| `EventStream`, `EventStreamProofs` | publication, delivery, audit row, broadcast, SSE | `events/`, `api/routes/tasks.py`, `repository.py:137-166` |
| `CheckpointResume`, `CheckpointResumeProofs` | the LangGraph activity, its nodes and its checkpoints | `checkpointer.py`, `langgraph_engine/`, `task_activities.py:368-535` |
| `SseClient`, `SseClientProofs` | the task page's hook against a stream that breaks | `useTaskEvents.ts`, `api/routes/tasks.py:94-194` |
| `RoleAttempt`, `RoleAttemptProofs` | one attempt of a role: discovery, tool loop, retries, bridge, timeout | `agents/`, `llm/`, `mcp_client/`, `crewai_engine/roles_runner.py`, `llm_bridge.py` |
| `RuntimeState`, `RuntimeStateProofs` | the writers of the runtime document and the worker's loop | `dapr_state.py`, `task_tokens.py`, `sync_runtime.py` |
| `MC*` | the modules with what TLC needs: model values, symmetry | |

Definitions whose comment starts with "As if" are never used by a specification.
Each is the definition below it with one mistake (a dropped guard, a missing
reset, a swapped order), kept to show that a property notices the mistake.

### TaskLifecycle

Variables are the row (`dbStatus`, `dbEngine`, `dbReport`), the step rows
(`steps`, `probed`), the create handler and the requests (a program counter and
the status each has `seen`), the workflow instance `wf` with the attempt it waits
for, the replayed `history`, and per worker the attempt it executes (`job`).
Tasks share no row and no workflow instance, so one task is modelled.

A transaction is two actions, `...Read` (its SELECT and the checks made on it) and
`...Commit`, because no lock is held in between; the commit writes only the
columns that differ from what was read, as SQLAlchemy's dirty tracking does.
`RequestSignal` and `RequestPersistRead/Commit/Raises` and `RequestCompensate` are the
statements of `pause_task`/`resume_task`; `Advance`, `Retry`, `GiveUp`, `Complete`,
`RaiseOut` are the replays of `task_orchestration`; `JobFail` is every way an
attempt ends without a result, time-out included; `JobReturn` delivers a result,
and a worker crash after the commit is an answer that is lost. `Redeliver` hands
an attempt out again while it may still run. Role steps are one action here:
`CrewStepCommit` shows that a step behaves as a write-once register. The
LangGraph activity is one action too: `CheckpointResume` opens it.

### CrewStepCommit

`row` is the committed `task_steps` row, `holder` the attempt whose INSERT is not yet
committed (PostgreSQL makes a second INSERT of the key wait for it), `out` what an
attempt holds. The actions are the statements of `_commit_crewai_step` and of the
role implementations around it. The publish, runtime-state and tool-call calls
may each have no effect, because their errors are swallowed. An output is named by
the attempt that computed it.

### EventStream

`wire` is what the broker holds; it never forgets, so `Deliver` may repeat at any
time and in any order. A delivery is SELECT, INSERT, COMMIT, broadcast,
acknowledgement. A stream reads the status, reads the audit trail, subscribes,
forwards its queue, and checks the status after each event and when silent for
60 s. `feed[s]` is everything ever put on a queue and `sent[s]` how much of it is
out. The status (`settled`) may change at any time, because a stale writer can
revive a task. One API process, which `src/README.md:173` requires.

### CheckpointResume

`blob`, `index`, `writes` are the three kinds of keys of `DaprCheckpointSaver`. An
attempt checks for a checkpoint, opens the graph (`BeginFromInput` or
`LoadCheckpoint`), then per node: `Execute`, the four calls of the completion
callback, `Save`. `Save` hands the pending writes and the next checkpoint to
LangGraph's background tasks (`PutBlob`, `PutIndex`; `ReadWrites`, `SaveWrites`). A
checkpoint names, for each node that counts in it, the attempt that executed it.
LangGraph is external; what is assumed of it: it calls `aput` with the parent
checkpoint's config (the saver itself stores this config as `parent_config`) and
`aput_writes` with the checkpoint's own id; it stores checkpoints in order in the
background; its exit waits for them and raises their errors; it has a
`__start__` node; a node whose writes come back with the checkpoint is not
executed.

### SseClient

One page, one task, one connection at a time. The variables are the state and the
refs of the hook (`task`, `rows` and `live` for `events`, `mode`, `reconnectCount`,
`closedGracefully`, the timers), the GETs under way by what asked for them (`call`),
and the server's end: the row, the trail, the connection and the messages on it.
The answer of a GET is computed in `ServeCall` and applied in `RefreshAnswered`, so
answers overtake each other. `Reconnect` is the tail of `onerror`: another try a
second later, or polling. The stream may lose any event, as `EventStream` allows.
A task that is over stays over here; one that finding 1 revives behind the page's
back is not composed with it.

### RoleAttempt

`pc` is the place of the attempt's coroutine: `discover` (tools over a session of
their own), `open` and `resolve` (the session of the tool loop), `chat`, `tools`,
`last` and `structured` (requests and the calls between them), or `crew`. `request` is
the try of the LLM request under way; `LlmFails` is one pass of
`_execute_with_resilience` that raises. `late` says that `wait_for` has cancelled the
coroutine: whatever it awaits then raises, except that discovery's task group turns
the cancellation into an exception group that `resolve_role_tools` answers with "no
tools" (`CutSwallowed`). Nobody cancels the coroutine again, so it concludes without
tools: a LangGraph node asks for its structured answer, a CrewAI role starts its Crew. A Crew's thread asks the model through `bridge`: each call
is a coroutine on the worker's loop when that runs, else on a loop of its own; the
thread waits 115 s for it. After the attempt other activities may run the loop or not
(`others`). The model, the tool server and CrewAI answer what they like.

### RuntimeState

`doc` names for each field the writer that set it and, as its counter, the set of
calls counted. A merge is: lock, GET asked (`get`), GET answered (`got`), PUT sent
(`put`), PUT done (`stored`), lock released; a count reads the total before it asks
for the lock. Steps of the sidecar happen at any time, steps of the worker only while
`running`. A PUT that its client gives up (`late`: time-out, cut, crash) may be
carried out at any later time. Four history variables say what should be in the
document (`ideal`), which copies and totals are out of date (`stale`, `behind`) and
whether one of these was stored (`damage`).

## 3. Runs

| Run | Instance | Shows |
|---|---|---|
| `lifecycle_requests` | 2 requests, 1 worker, ambiguous calls, no retries | `CompletedKeepsReport`, `AcknowledgedPauseHolds`, `SuccessLostOnlyToStaleRead` under every order of creation, requests and activities (1.6 million states) |
| `lifecycle_redelivery` | 1 request, 2 workers, 2 outputs, 1 redelivery, short retries | `TypeOK`, `ManualEngineHonoured`, `HistoryIsRecorded`, `SucceededHasItsWork`, and the refinement `ImplementsPipeline` (1.2 million) |
| `lifecycle_quiet` | no requests, the source's retry limits, 2 crashes, fairness | `RowNamesRunningEngine`, `RowRecordsOutcome`, the refinement `ImplementsPromise`, and `ScheduledTaskSettles` (19 700) |
| `terminal_overwritten` | 1 request | violates `SucceededIsFinal` (finding 1) |
| `crew_step` | 3 attempts, role with tools, fairness | `ReturnedIsCanonical`, `EffectsBelongToRow`, `EveryAttemptEnds`, refinement `ImplementsRegister` (9 500) |
| `crew_step_race` | 2 attempts | violates `LoserUsesPeerOutput` (finding 2) |
| `event_stream` | 2 events, 2 deliveries, 1 stream, 1 failure, fairness | `LostOnlyToFailure`, refinement `ImplementsFeed`, `AcceptedIsRecorded`, `SettledStreamCloses` (147 000) |
| `checkpoint_resume` | 2 attempts, planner may assign the researcher, 1 failing call, 1 overlap | `IndexedIsStored`, `SavedNodesAreNotRepeated`, `ProgressIsKept`, `EffectsPrecedeCheckpoint`, `AnswersAgree` (507 000) |
| `checkpoint_writes` | 2 attempts | violates `StoredWritesAreUsed` (finding 3) |
| `sse_client` | 2 events, 3 reconnects, 1 failing GET, 1 click, fairness | `OneChannel`, `StopsOnlyWhenOver`, `LiveEntriesAwaitRefresh`, `WatchingEnds` (660 000) |
| `role_attempt` | 2 tools, 1 allowed; 3 rounds of 2 calls, 2 tries, 3 calls of a Crew, fairness | `ConversationComplete`, `CutRoleOnlyConcludes`, `ThreadEnds` (520 000) |
| `runtime_state` | snapshot, 1 status patch, 1 activity merge, 2 counts; cuts, crashes, time-outs, fairness | `DocumentAddsUp`, `WritesEnd` (380 000) |

Every run but the violations also checks its module's `TypeOK` where it is not proved
by another run of the same module. A single stream is enough for `event_stream`: the
broadcaster treats streams alike and they share nothing; for any number of streams
`EventStreamProofs` shows the safety properties, with two that no run repeats
because `ImplementsFeed` implies them (`QueuedOnce`, `ShownIsRecorded`).

### Bounds, and why they are enough

- Two requests are one pause against one resume, or two of the same kind that
  compensate each other; three would repeat these roles. One redelivery makes two
  overlapping attempts, which is what the recorded-step and stale-read arguments
  are about. Retry limits above one only repeat an attempt whose effects are
  idempotent; `lifecycle_quiet` uses the limits of `constraints.py`.
- Two outputs tell "its own" from "the recorded one".
- `MaxCrashes`, `MaxRedeliveries`, `MaxFailures`, `MaxOverlaps` bound only how often
  the environment misbehaves. The proofs below hold for every value.
- Three attempts of a step: one that wins, one that waits for it, one that comes
  later. Two handlers and two events give the duplicate and the reordering.
- `CheckpointResume`: two attempts are a crash and its retry, or a zombie and its
  successor. `MaxQueue = 1` lets storing lag one node behind, which is what loses
  progress; `OverlapFrom = "persist_result"` starts an overlapping attempt only
  when the first is at its last node, where both may still write to the same
  keys. With two attempts a compare-and-set conflict in `aput_writes` needs a third
  writer and does not occur. The analyst is the same kind of node as the researcher.
- `SseClient`: two events, so that one can be lost or overtaken while the other is not;
  three reconnects as in the source. One failing GET at a time suffices for each
  handler's error path; a click stands for any number, since the buttons are
  disabled while one is under way. A poll that finds the one before it unanswered is left out.
- `RoleAttempt`: two tools tell allowed from refused, two calls in one answer make
  an order, three rounds reach the cap with a round in the middle (the source has
  more; they repeat it). Two tries are a retry and the last try.
- `RuntimeState`: two counts can overlap, a merge of an activity contends with them
  for the worker's lock, the patch and the snapshot are the other process. Cuts,
  crashes and time-outs are not bounded: each ends a write, and every write is made once.
- `CHECK_DEADLOCK FALSE` where the system stops: a finished task, ended attempts.

### Fairness

- `TaskLifecycle`: weak fairness of the orchestrator, of handing a job to some worker
  and of each worker's attempt. The Dapr runtime redelivers until an attempt
  answers, and `asyncio.wait_for` ends every attempt. Nothing is assumed about
  clients, crashes or which way an attempt ends; `ScheduledTaskSettles` therefore
  excepts a `mark_task_failed` that itself runs out of attempts.
- `CrewStepCommit`: weak fairness of each attempt's next statement; failures need none.
- `EventStream`: weak fairness of each running delivery and stream (the event loop
  runs every ready coroutine), strong fairness of delivering each event the broker
  holds (Dapr keeps redelivering). Failures are bounded, as liveness needs.
- `CheckpointResume` states safety only.
- `SseClient`: weak fairness of the API's coroutines, of the browser's handlers one by
  one and of its timers; none for failures, clicks, unmounting or new events.
- `RoleAttempt`: weak fairness of the coroutine, because every await in it has a
  timeout, and of the thread, whose wait has one. None for the loop: nobody promises
  that another activity comes.
- `RuntimeState`: httpx gives up after 10 s, so a write needs no answer to go on. The
  worker's loop is strongly fair as a whole (when it runs again and again it runs
  what is ready); `WritesEnd` promises nothing about the worker unless activities
  keep coming. None for the sidecar, the requests and the activities.

## 4. Findings

1. **A terminal status can be overwritten** (`terminal_overwritten`). A request
   whose transaction read the row before `finalize_task` commits overwrites
   `succeeded`: a resume that read `queued` or `paused` writes `running`, a pause that
   read `running` writes `paused`. The traces of both are equally long, and TLC shows
   the one it meets first. The status machine allows neither; the proof of
   `SuccessIsLostOnlyToStaleRead` shows that a stale read is the only way.
2. **The loser of a step race does not use its peer's output** (`crew_step_race`).
   The INSERT is flushed inside `record_step`, outside the `try` that expects
   `IntegrityError` at the commit. The attempt fails and costs the task a retry;
   the retry then returns the recorded output.
3. **Pending writes are not found again** (`checkpoint_writes`). `aput` files a
   checkpoint under its parent's id, `aput_writes` files writes under the
   checkpoint's own id. After a crash between the two stores a node that
   completed is executed again, and its tool calls are recorded a second time.

## 5. Proofs

Each of the seven detailed modules has a module of proofs, checked by TLAPS for every
value of the constants that its assumptions (`LifecycleAssumption`, `CrewAssumption`,
`StreamAssumption`, `CheckpointAssumption`, `WriterAssumption`, `RoleAssumption`,
`ClientAssumption`) allow: any number of requests, workers, attempts, events, streams,
writers, tools, rounds, retries, failures, overlaps, crashes. `CallAssumption` only says
that no GET, an open one, a failed one and an answer are told apart, and that "nothing
loaded yet" is not an answer. `TaskLifecycle` has a second module, for the case `Quiet`.

- **TaskLifecycle.** None of the run's invariants is inductive: each speaks about
  the row, and rests on what an attempt still remembers. `LifecycleInv` adds this
  part by part: nothing runs before it is created (`CreationOrder`); only an auto
  task has a router attempt anywhere (`RoutedOnlyAuto`); an attempt left behind at
  some step implies that the stages before it are in the history (`InOrder`); a
  role's output is the recorded one wherever it is on its way (`RecordedEverywhere`);
  report and success are one commit (`ReportWithSuccess`); what an open transaction
  has seen it may leave (`SeenMayMove`); a signalled pause is not released
  (`PauseHeld`). There is one lemma per part that every step keeps it, then
  `LifecycleInvariant`, from which the six properties of the request and redelivery
  runs follow, the action property included. `LifecycleImplementsPipeline` shows
  that every step is a step of `ReportPipeline` or a stutter.
- **TaskLifecycle, quiet.** What the row says of the workflow can be wrong once a second
  actor writes the row: a request, a duplicate of an attempt, or a create handler whose
  call was carried out although it raised. `Quiet` excludes these three (it is what
  `lifecycle_quiet` sets); any number of workers, crashes, failures and retries remain.
  `QuietInv` then holds beside `LifecycleInv`: the attempt some worker holds is the one
  the workflow waits for (`OneAttempt`); before the workflow exists only the create
  handler touches the row (`CreateAlone`); the status is the one the workflow's step
  calls for, and no open transaction has seen an older one (`RowKeepsPace`, with
  `SettledBy` for what an activity leaves behind even if its answer is lost); each
  `engine_selected` reaches the workflow before anything relies on it
  (`EngineKeepsPace`), and a report is there only with success (`ReportMeansSuccess`).
  From it follow `QuietRowNamesEngine`, `QuietRowRecordsOutcome` and the refinement
  `QuietTaskKeepsPromise`. `QuietSuccessIsFinal` is the counterpart of finding 1: what
  requests break holds without them.
- **CrewStepCommit.** `CommitInv` ties the uncommitted INSERT, the row and what each
  attempt holds together: while an attempt holds the key there is no row, and who is
  past the commit holds the row's output. `StepIsWriteOnce` is the refinement of
  `RecordedStep`.
- **EventStream.** `StreamInv` says that an event is in some queue only if it is
  recorded, and that its broadcast is still due at one delivery at most. From it follow
  `EventsAreQueuedOnce`, `ShownEventsAreRecorded`, `LossNeedsFailure` and
  `StreamImplementsFeed`.
- **RuntimeState.** That the document adds up says nothing of the copies that writers
  still hold. `RuntimeInv` adds that a copy not marked stale is the document
  (`CopiesAreCurrent`), that a total not marked behind is its counter
  (`TotalsAreCurrent`), and that the lock is held exactly between GET and PUT
  (`TypeOK`). In `StoreStep`, the only step that changes the document, every other
  copy becomes stale: one that did not would share the writer's lock (`OneHolder`).
- **CheckpointResume.** `SuccessorFirst` shows, from the table of the nodes, that the
  edges lead to the first node still to come, and `BehindGrows` that a node adds only
  itself to what a checkpoint has behind it. `TypesInv` holds whatever overlaps: the
  draft is one node ahead of its graph (`DraftFollows`), keys under way are never the
  absent id and a stored one is there (`KeysInUse`), a write belongs to the node it is
  filed for (`EntriesFit`). It gives `IndexAlwaysStored`. For
  `EffectsAlwaysPrecedeCheckpoint` the invariant speaks of every checkpoint that is
  stored, queued, continued or held as a pending write (`Known`): `KnownNext` shows
  that a step adds to them only an input, a draft whose callback has ended, or a write
  taken over. `SavedNodesAreNeverRepeated` is about attempts that do not overlap:
  `SerialInv` says that one is alive at most, that the dead leave nothing queued, and
  that nothing indexed or queued is further than the graph of the one alive (`Ahead`),
  whose rank `StepAhead` and `BackgroundAhead` compare with what is being stored.
  `ProgressIsAlwaysKept` and `AnswersAlwaysAgree` compare outputs, so they need first
  that an id (the attempt and the last node) names one checkpoint. `NamesInv` shows it
  whatever overlaps: an attempt's graph is further than every id with its name on it, so
  what it makes is new, and a pending write continues the checkpoint it is filed for.
  `ChainInv` then says that the indexed checkpoint, those queued and the graph continue
  each other in this order; `AnswerInv` that the last of them is the graph, and that
  after a return every attempt finds that end and has nothing to do; `ReportInv` that
  the report of any checkpoint of this chain that counts as persisted, by itself or
  by a pending write, is the report on display. All four are kept together
  (`ChainInvariant`).
- **SseClient.** `OneChannel` counts timers, reads and the EventSource, and rests on the
  read that a broken stream starts being under way exactly while the hook is
  reconnecting (`ReadsBeforeReconnect`); `CountBounded` is the reconnect limit, and
  `WireHasEvents` says that a message on the wire is about a recorded event. There is
  one lemma per group of handlers. `StopsOnlyWhenTaskIsOver` rests on three parts more.
  `AnswersHold`: whatever tells the page that the task is over (an answer, a `close` on
  the wire, the GET that a `close` asked for) is right, and lists what was recorded by
  the end. `LoadsFirst`: nothing starts before the first GET is answered. `StopInv`:
  when no channel is left, the task is over, and either the page shows it or the GET
  after the close is still under way or lost. `AnswersFrame` and `StopFrame` say once
  which changes of the page keep them; each group of handlers only shows which it makes.
- **RoleAttempt.** `ControlInv` says where an attempt may be: a request is open only
  where the coroutine awaits one (`AsksInPlace`), a cancellation that discovery swallowed
  leads to a Crew or to one request for the structured answer (`SwallowedInPlace`), and what was sent is within `MaxTries` for
  each place the coroutine has left (`WithinBudget`). `TalkInv` says which
  calls of the last answer are still open (`AnswersOpen`) and that the records are the
  tool messages so far (`RecordsMatch`). When the model is asked nothing is open, which
  is `ConversationAlwaysComplete`.

Every safety property that a passing run checks, the action properties and the four
refinements included, is a theorem; `RowNamesRunningEngine`, `RowRecordsOutcome` and
`ImplementsPromise` under `Quiet`, outside of which they do not hold. Only
model-checked: the liveness properties (`ScheduledTaskSettles`, `EveryAttemptEnds`,
`AcceptedIsRecorded`, `SettledStreamCloses`, `WatchingEnds`, `ThreadEnds`,
`WritesEnd`), which rest on fairness and are out of the prover's reach.

## 6. Not modelled, and what comes next

- Reads that change nothing (`get_task`, lists, `alist`), logging, traces, metrics,
  rendering, and the development-only minimal runner. `TaskEventBroadcaster.close`
  and `stream` have no caller.
- Several API processes: `src/README.md:173` requires one, or sticky sessions.
- The contents of prompts, reports and tool results.

- The MCP server: seen from this program it is the answers of `call_tool`, which
  `RoleAttempt` lets be anything; inside it is SQL text, docker flags and two short
  races with nothing that depends on them (pool creation, a container started after
  its time-out).
- Settings and session history: unlocked read-modify-write, where any two writers
  lose an update and no part of the program relies on more. `RuntimeState` is the
  document of this kind that has a lock, and counts.
- Calls of a Crew's bridge on a loop of their own: their token counts are cancelled
  with that loop before they can be written, so `RuntimeState` has no such calls.
- Which LLM provider is built, and how requests are written.

What could follow: `SseClient` composed with several streams of `EventStream` instead
of the one it abstracts, and more of the safety half of the liveness properties (that no
reachable state is stuck).
