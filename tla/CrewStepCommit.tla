--------------------------- MODULE CrewStepCommit ---------------------------
(***************************************************************************)
(* One CrewAI role step of one task (task_activities.py:191-250, 601-806), *)
(* delivered several times.  Dapr delivers an activity at least once: a    *)
(* retry after a failure, a time-out or a worker crash, and a redelivery   *)
(* that overlaps an attempt another worker still runs.  Every attempt is a *)
(* session of its own on PostgreSQL in READ COMMITTED; the unique index on *)
(* task_steps.idempotency_key (models.py:52) is what arbitrates.           *)
(*                                                                         *)
(* An output is named by the attempt that computed it: two runs of the     *)
(* language model never give the same answer.                              *)
(***************************************************************************)
EXTENDS FiniteSets

CONSTANTS
    Attempts,    \* the deliveries of this activity call
    NoAttempt,   \* no attempt, no output
    HasTools     \* TRUE for researcher and analyst, FALSE for the writer

ASSUME CrewAssumption ==
    /\ NoAttempt \notin Attempts
    /\ HasTools \in BOOLEAN

VARIABLES
    row,         \* task_steps: the output committed under the step's key
    holder,      \* the attempt whose INSERT of the key is not committed yet
    pc,          \* where each attempt is
    out,         \* out[a]: the output attempt a holds, NoAttempt before it has one
    toolRows,    \* outputs whose tool calls are in tool_calls
    completed,   \* attempts that published the step's "completed" event
    runtime      \* outputs merged into the Dapr runtime state

vars == <<row, holder, pc, out, toolRows, completed, runtime>>
effects == <<toolRows, completed, runtime>>

Over == {"returned", "failed", "conflict"}
Pcs == {"idle", "running", "recheck", "select", "insert", "commit",
        "publish", "merge", "reload", "tools"} \union Over

Started(a) == pc[a] \notin Over \union {"idle"}

Init ==
    /\ row = NoAttempt
    /\ holder = NoAttempt
    /\ pc = [a \in Attempts |-> "idle"]
    /\ out = [a \in Attempts |-> NoAttempt]
    /\ toolRows = {}
    /\ completed = {}
    /\ runtime = {}

Goto(a, label) == pc' = [pc EXCEPT ![a] = label]
Hold(a, o) == out' = [out EXCEPT ![a] = o]

\* The canonical output leads to the tool calls, for the roles that have any.
AfterCommit == IF HasTools THEN "tools" ELSE "returned"

\* Take the stored output for the attempt's own.
UseStored(a) ==
    /\ row # NoAttempt
    /\ Hold(a, row)
    /\ Goto(a, AfterCommit)

-----------------------------------------------------------------------------
\* The role implementation

\* _load_recorded_step_output before anything else.
Precheck(a) ==
    /\ pc[a] = "idle"
    /\ \/ UseStored(a)
       \/ row = NoAttempt /\ Goto(a, "running") /\ UNCHANGED out
    /\ UNCHANGED <<row, holder, effects>>

\* As if tool calls were stored while the agent runs.
RunRoleStoringCalls(a) ==
    /\ pc[a] = "running"
    /\ Hold(a, a)
    /\ toolRows' = toolRows \union {a}
    /\ Goto(a, "recheck")
    /\ UNCHANGED <<row, holder, completed, runtime>>

\* As if the agent's result were dropped.
RunRoleWithoutResult(a) ==
    /\ pc[a] = "running"
    /\ Goto(a, "recheck")
    /\ UNCHANGED <<row, holder, out, effects>>

\* The agent runs: language model and tools, no session open.
RunRole(a) ==
    /\ pc[a] = "running"
    /\ Hold(a, a)
    /\ Goto(a, "recheck")
    /\ UNCHANGED <<row, holder, effects>>

-----------------------------------------------------------------------------
\* _commit_crewai_step

\* The load at its head.
Recheck(a) ==
    /\ pc[a] = "recheck"
    /\ \/ UseStored(a)
       \/ row = NoAttempt /\ Goto(a, "select") /\ UNCHANGED out
    /\ UNCHANGED <<row, holder, effects>>

\* As if the SELECT saw uncommitted rows.
SelectDirty(a) ==
    /\ pc[a] = "select"
    /\ Goto(a, IF row = NoAttempt /\ holder = NoAttempt THEN "insert" ELSE "reload")
    /\ UNCHANGED <<row, holder, out, effects>>

\* record_step's SELECT.
Select(a) ==
    /\ pc[a] = "select"
    /\ Goto(a, IF row = NoAttempt THEN "insert" ELSE "reload")
    /\ UNCHANGED <<row, holder, out, effects>>

\* As if the key had no unique index.
InsertUnchecked(a) ==
    /\ pc[a] = "insert"
    /\ holder' = a
    /\ Goto(a, "commit")
    /\ UNCHANGED <<row, out, effects>>

\* record_step's flush sends the INSERT.  It waits for the transaction that
\* inserted the same key; if that one commits, the flush raises
\* IntegrityError, which the caller's try (around commit alone) lets through.
Insert(a) ==
    /\ pc[a] = "insert"
    /\ holder = NoAttempt
    /\ \/ row = NoAttempt /\ holder' = a /\ Goto(a, "commit")
       \/ row # NoAttempt /\ Goto(a, "conflict") /\ UNCHANGED holder
    /\ UNCHANGED <<row, out, effects>>

Commit(a) ==
    /\ pc[a] = "commit"
    /\ row' = a
    /\ holder' = NoAttempt
    /\ Goto(a, "publish")
    /\ UNCHANGED <<out, effects>>

\* _publish_event swallows its exceptions: the event may be lost.
Publish(a) ==
    /\ pc[a] = "publish"
    /\ completed' \in {completed, completed \union {a}}
    /\ Goto(a, "merge")
    /\ UNCHANGED <<row, holder, out, toolRows, runtime>>

\* _update_runtime_state swallows its exceptions too.
MergeRuntime(a) ==
    /\ pc[a] = "merge"
    /\ runtime' \in {runtime, runtime \union {out[a]}}
    /\ Goto(a, AfterCommit)
    /\ UNCHANGED <<row, holder, out, toolRows, completed>>

\* As if the attempt returned its own result instead of the stored one.
ReloadKeepingOwn(a) ==
    /\ pc[a] = "reload"
    /\ Goto(a, AfterCommit)
    /\ UNCHANGED <<row, holder, out, effects>>

\* record_step found the key: load what the peer stored, or RuntimeError.
Reload(a) ==
    /\ pc[a] = "reload"
    /\ \/ UseStored(a)
       \/ row = NoAttempt /\ Goto(a, "failed") /\ UNCHANGED out
    /\ UNCHANGED <<row, holder, effects>>

-----------------------------------------------------------------------------
\* Back in the role implementation

\* _persist_missing_tool_calls of the output that is about to be returned,
\* one transaction, every exception swallowed.
PersistToolCalls(a) ==
    /\ pc[a] = "tools"
    /\ toolRows' \in {toolRows, toolRows \union {out[a]}}
    /\ Goto(a, "returned")
    /\ UNCHANGED <<row, holder, out, completed, runtime>>

\* As if the session of a dead attempt were left open.
FailHoldingKey(a) ==
    /\ Started(a)
    /\ Goto(a, "failed")
    /\ UNCHANGED <<row, holder, out, effects>>

\* A time-out, an error or a crash of the worker: the open transaction is
\* rolled back.
Fail(a) ==
    /\ Started(a)
    /\ Goto(a, "failed")
    /\ holder' = IF holder = a THEN NoAttempt ELSE holder
    /\ UNCHANGED <<row, out, effects>>

\* The same while COMMIT is under way: it took effect, nobody was told.
FailAfterCommit(a) ==
    /\ pc[a] = "commit"
    /\ row' = a
    /\ holder' = NoAttempt
    /\ Goto(a, "failed")
    /\ UNCHANGED <<out, effects>>

-----------------------------------------------------------------------------
Proceed(a) ==
    \/ RunRole(a) \/ Recheck(a) \/ Select(a) \/ Insert(a) \/ Commit(a)
    \/ Publish(a) \/ MergeRuntime(a) \/ Reload(a) \/ PersistToolCalls(a)

Next == \E a \in Attempts :
    Precheck(a) \/ Proceed(a) \/ Fail(a) \/ FailAfterCommit(a)

Spec == Init /\ [][Next]_vars

\* A live worker goes on with its attempt; a dead one has failed (Fail).
FairSpec == Spec /\ \A a \in Attempts : WF_vars(Proceed(a))

-----------------------------------------------------------------------------
TypeOK ==
    /\ row \in Attempts \union {NoAttempt}
    /\ holder \in Attempts \union {NoAttempt}
    /\ pc \in [Attempts -> Pcs]
    /\ out \in [Attempts -> Attempts \union {NoAttempt}]
    /\ toolRows \subseteq Attempts
    /\ completed \subseteq Attempts
    /\ runtime \subseteq Attempts

\* Whatever the interleaving, an attempt that returns gives the workflow the
\* output stored under the step's key, so all attempts give the same one
\* (_commit_crewai_step: "return the canonical stored result").
ReturnedIsCanonical ==
    \A a \in Attempts : pc[a] = "returned" => row # NoAttempt /\ out[a] = row

\* The step's side effects are those of the stored output alone: tool-call
\* rows, the "completed" event (at most one, and none before the commit) and
\* the runtime state never show the work of an attempt that lost.
EffectsBelongToRow ==
    toolRows \union completed \union runtime \subseteq {row} \ {NoAttempt}

\* "failed to persist or load crewai step output" cannot be raised: whoever
\* goes to load a peer's output finds one.
PeerOutputIsThere ==
    \A a \in Attempts : pc[a] = "reload" => row # NoAttempt

\* An attempt that waits on the unique index for a peer's transaction is
\* never left waiting: every started attempt ends.
EveryAttemptEnds ==
    \A a \in Attempts : Started(a) ~> pc[a] \in Over

\* What test_crewai_workflow_activities.py:212 says of a lost race: the loser
\* uses its peer's output, so no attempt ends with the index's IntegrityError.
LoserUsesPeerOutput ==
    \A a \in Attempts : pc[a] # "conflict"

-----------------------------------------------------------------------------
\* Refinement: the table row and what the attempts returned.
Answered == [a \in Attempts |-> IF pc[a] = "returned" THEN out[a] ELSE NoAttempt]

Register == INSTANCE RecordedStep WITH answer <- Answered

\* Under any number of overlapping deliveries the step is a write-once
\* register: recorded once, never changed, read by everybody.
ImplementsRegister == Register!RegisterSpec
=============================================================================
