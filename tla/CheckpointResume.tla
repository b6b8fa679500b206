-------------------------- MODULE CheckpointResume --------------------------
(***************************************************************************)
(* The LangGraph activity of one task (run_langgraph_graph) and its        *)
(* checkpoints in the Dapr state store (DaprCheckpointSaver).              *)
(*                                                                         *)
(* An attempt looks for a checkpoint, opens the graph (run or resume) and  *)
(* executes one node after another: the node, its completion callback,     *)
(* then the pending writes and the checkpoint, which LangGraph stores in   *)
(* the background, checkpoints in order, while the next node runs.  An     *)
(* attempt may fail or its worker may die anywhere; Dapr then starts the   *)
(* next one, and sometimes (MaxOverlaps) starts it while one still runs.   *)
(*                                                                         *)
(* A node's output is named by the attempt that executed the node.  A      *)
(* checkpoint's own id is the attempt that made it and its last node.      *)
(* LangGraph calls aput with the config of the PARENT checkpoint (the      *)
(* saver itself stores that config as parent_config) and aput_writes with  *)
(* the checkpoint's own id.                                                *)
(***************************************************************************)
EXTENDS Naturals, Sequences, FiniteSets

CONSTANTS
    Attempts,     \* executions of the activity that Dapr may start
    NoAttempt,    \* nobody
    Assignable,   \* the optional roles the planner may assign
    MaxQueue,     \* bound: checkpoints, and writes, waiting to be stored
    MaxFailures,  \* bound: failed calls to the store, database or pub/sub
    MaxOverlaps,  \* bound: attempts started while another one runs
    OverlapFrom   \* bound: the node that other one has reached by then

\* The nodes in graph order; "start" is LangGraph's own __start__ node.
Path == <<"input", "start", "plan", "select_roles", "researcher", "analyst",
          "writer", "persist_result", "end">>
Rank == [n \in {Path[i] : i \in 1..9} |-> CHOOSE i \in 1..9 : Path[i] = n]
Node == {Path[i] : i \in 2..8}
OptionalRole == {"researcher", "analyst"}
\* Nodes whose output comes from the language model.
Author == OptionalRole \union {"plan", "writer"}

ASSUME CheckpointAssumption ==
    /\ NoAttempt \notin Attempts
    /\ Assignable \subseteq OptionalRole
    /\ MaxQueue \in Nat \ {0} /\ MaxFailures \in Nat /\ MaxOverlaps \in Nat
    /\ OverlapFrom \in Node

\* What a checkpoint holds: who made it, the last node, who executed each
\* node that counts in it, and the roles the planner assigned.
Checkpoint == [run : Attempts, last : Node \union {"input"},
               by : [Author -> Attempts \union {NoAttempt}], roles : SUBSET OptionalRole]
Id(c) == <<c.run, c.last>>
NoId == <<NoAttempt, "input">>
Ids == (Attempts \X (Node \union {"input"})) \union {NoId}
Nobody == [n \in Author |-> NoAttempt]
Input(a) == [run |-> a, last |-> "input", by |-> Nobody, roles |-> {}]

\* A pending write: the node's task, named by the checkpoint it starts from,
\* and what the node adds.
Entry == [task : Ids \X Node, out : Checkpoint]

VARIABLES
    blob,       \* lg:checkpoint:<thread>:<id>, a function on the ids in use
    index,      \* lg:checkpoint-index:<thread>
    writes,     \* lg:writes:<thread>:<id>: the entries filed under each id
    published,  \* nodes whose "completed" event went out
    rows,       \* nodes that have a task_steps row
    toolRows,   \* <<node, attempt>> whose tool calls are in tool_calls
    runtime,    \* [step, report] in the Dapr runtime state
    pc,         \* where each attempt is
    fresh,      \* did the activity find no checkpoint?
    graph,      \* the checkpoint an attempt's graph is at
    parent,     \* the checkpoint id in the attempt's config
    loaded,     \* the pending writes it was opened with
    draft,      \* the checkpoint it will be at after the node it executes
    puts,       \* checkpoints it has still to store, oldest first
    jobs,       \* pending writes it has still to store
    broken,     \* did one of its background stores fail?
    failures,   \* counts failed calls
    overlaps    \* counts overlapping starts

store == <<blob, index, writes>>
effects == <<published, rows, toolRows, runtime>>
local == <<fresh, graph, parent, loaded, draft>>
queues == <<puts, jobs, broken>>
counts == <<failures, overlaps>>
vars == <<store, effects, pc, local, queues, counts>>

Executing == {"persist", "publish", "record", "merge", "tools", "save"}
Alive == {"check", "open", "load", "tick", "return", "abort"} \union Executing
Over == {"returned", "failed"}
Pcs == {"idle"} \union Alive \union Over

Init ==
    /\ blob = [i \in {} |-> Input(NoAttempt)]
    /\ index = NoId
    /\ writes = [i \in Ids |-> {}]
    /\ published = {} /\ rows = {} /\ toolRows = {}
    /\ runtime = [step |-> "input", report |-> NoAttempt]
    /\ pc = [a \in Attempts |-> "idle"]
    /\ fresh = [a \in Attempts |-> FALSE]
    /\ graph = [a \in Attempts |-> Input(a)]
    /\ parent = [a \in Attempts |-> NoId]
    /\ loaded = [a \in Attempts |-> {}]
    /\ draft = [a \in Attempts |-> Input(a)]
    /\ puts = [a \in Attempts |-> <<>>]
    /\ jobs = [a \in Attempts |-> {}]
    /\ broken = [a \in Attempts |-> FALSE]
    /\ failures = 0 /\ overlaps = 0

\* An attempt that is over keeps only the checkpoint that it returns.
Forget(a, c) ==
    /\ fresh' = [fresh EXCEPT ![a] = FALSE]
    /\ graph' = [graph EXCEPT ![a] = c]
    /\ parent' = [parent EXCEPT ![a] = NoId]
    /\ loaded' = [loaded EXCEPT ![a] = {}]
    /\ draft' = [draft EXCEPT ![a] = Input(a)]

Goto(a, label) == pc' = [pc EXCEPT ![a] = label]
Fails == failures < MaxFailures /\ failures' = failures + 1 /\ UNCHANGED overlaps

-----------------------------------------------------------------------------
\* Opening the graph

\* Dapr starts an attempt once the others are over (failed, died, or returned
\* and the answer was lost), or while one still runs.
Start(a) ==
    /\ pc[a] = "idle"
    /\ \/ /\ \A b \in Attempts : pc[b] \notin Alive
          /\ UNCHANGED counts
       \/ /\ \E b \in Attempts : pc[b] \in Alive /\ Rank[graph[b].last] >= Rank[OverlapFrom]
          /\ overlaps < MaxOverlaps /\ overlaps' = overlaps + 1
          /\ UNCHANGED failures
    /\ Goto(a, "check")
    /\ UNCHANGED <<store, effects, local, queues>>

\* As if every attempt started the graph from its input.
CheckNever(a) ==
    /\ pc[a] = "check"
    /\ fresh' = [fresh EXCEPT ![a] = TRUE]
    /\ Goto(a, "open")
    /\ UNCHANGED <<store, effects, graph, parent, loaded, draft, queues, counts>>

\* The activity's own aget_tuple: resume if there is a checkpoint, else run.
Check(a) ==
    /\ pc[a] = "check"
    /\ fresh' = [fresh EXCEPT ![a] = index \notin DOMAIN blob]
    /\ Goto(a, "open")
    /\ UNCHANGED <<store, effects, graph, parent, loaded, draft, queues, counts>>

\* LangGraph's aget_tuple, first read: the index.
ReadIndex(a) ==
    /\ pc[a] = "open"
    /\ parent' = [parent EXCEPT ![a] = index]
    /\ Goto(a, "load")
    /\ UNCHANGED <<store, effects, fresh, graph, loaded, draft, queues, counts>>

\* As if the id were only ever taken from the config.
PutKeyConfigured(configured, c) == configured

\* BaseCheckpointSaver.aput: the key is the id in the config it is given.
PutKey(configured, c) == IF configured = NoId THEN Id(c) ELSE configured

\* The graph moves to checkpoint c and hands it over to be stored.
Step(a, c) ==
    /\ graph' = [graph EXCEPT ![a] = c]
    /\ parent' = [parent EXCEPT ![a] = Id(c)]
    /\ puts' = [puts EXCEPT ![a] = Append(@,
                  [key |-> PutKey(parent[a], c), content |-> c, stored |-> FALSE])]
    /\ loaded' = [loaded EXCEPT ![a] = {}]
    /\ Goto(a, "tick")

\* run: the input becomes a checkpoint of its own, on top of whatever is there.
BeginFromInput(a) ==
    /\ pc[a] = "load" /\ fresh[a]
    /\ Step(a, Input(a))
    /\ UNCHANGED <<store, effects, fresh, draft, jobs, broken, counts>>

\* resume: the checkpoint and the pending writes filed under the same id.
LoadCheckpoint(a) ==
    /\ pc[a] = "load" /\ ~fresh[a]
    /\ parent[a] \in DOMAIN blob
    /\ graph' = [graph EXCEPT ![a] = blob[parent[a]]]
    /\ loaded' = [loaded EXCEPT ![a] = writes[parent[a]]]
    /\ Goto(a, "tick")
    /\ UNCHANGED <<store, effects, fresh, parent, draft, queues, counts>>

-----------------------------------------------------------------------------
\* Executing the graph

\* _route_after_select_roles, _route_after_researcher and the fixed edges.
Successor(c) ==
    CHOOSE n \in DOMAIN Rank :
        LET later == {m \in DOMAIN Rank : Rank[m] > Rank[c.last]
                                          /\ (m \in OptionalRole => m \in c.roles)}
        IN n \in later /\ \A m \in later : Rank[n] <= Rank[m]

\* The next node already has its writes in the store: they are applied.
ApplyLoaded(a) ==
    /\ pc[a] = "tick"
    /\ \E w \in loaded[a] :
          /\ w.task = <<Id(graph[a]), Successor(graph[a])>>
          /\ Step(a, [w.out EXCEPT !.run = a])
    /\ UNCHANGED <<store, effects, fresh, draft, jobs, broken, counts>>

\* What the node adds to the state.  plan_node assigns roles, select_roles_node
\* keeps the registered ones (the only ones modelled) and adds the writer.
Outputs(a, n) ==
    {[run |-> a, last |-> n,
      by |-> IF n \in Author THEN [graph[a].by EXCEPT ![n] = a] ELSE graph[a].by,
      roles |-> r] : r \in IF n = "plan" THEN SUBSET Assignable ELSE {graph[a].roles}}

\* As if the callback came with the next superstep.
ExecuteUnannounced(a) ==
    /\ pc[a] = "tick"
    /\ Successor(graph[a]) # "end"
    /\ \A w \in loaded[a] : w.task # <<Id(graph[a]), Successor(graph[a])>>
    /\ \E c \in Outputs(a, Successor(graph[a])) : draft' = [draft EXCEPT ![a] = c]
    /\ Goto(a, "save")
    /\ UNCHANGED <<store, effects, fresh, graph, parent, loaded, queues, counts>>

\* Only the nodes of build_graph have a completion callback.
Execute(a) ==
    /\ pc[a] = "tick"
    /\ LET n == Successor(graph[a]) IN
         /\ n # "end"
         /\ \A w \in loaded[a] : w.task # <<Id(graph[a]), n>>
         /\ \E c \in Outputs(a, n) : draft' = [draft EXCEPT ![a] = c]
         /\ Goto(a, CASE n = "start" -> "save"
                      [] n = "persist_result" -> "persist"
                      [] OTHER -> "publish")
    /\ UNCHANGED <<store, effects, fresh, graph, parent, loaded, queues, counts>>

\* persist_result: the report goes to the runtime state; errors are swallowed.
PersistResult(a) ==
    /\ pc[a] = "persist"
    /\ \/ runtime' = [step |-> "persist_result", report |-> graph[a].by["writer"]]
          /\ UNCHANGED counts
       \/ Fails /\ UNCHANGED runtime
    /\ Goto(a, "publish")
    /\ UNCHANGED <<store, published, rows, toolRows, local, queues>>

-----------------------------------------------------------------------------
\* on_node_complete, for the node the draft is about

Publish(a) ==
    /\ pc[a] = "publish"
    /\ \/ published' = published \union {draft[a].last} /\ UNCHANGED counts
       \/ Fails /\ UNCHANGED published
    /\ Goto(a, "record")
    /\ UNCHANGED <<store, rows, toolRows, runtime, local, queues>>

\* _record_langgraph_node: a failing INSERT is swallowed, a failing existence
\* check leaves the callback, which _with_event swallows in turn.
Record(a) ==
    /\ pc[a] = "record"
    /\ \/ rows' = rows \union {draft[a].last} /\ Goto(a, "merge") /\ UNCHANGED counts
       \/ Fails /\ (Goto(a, "merge") \/ Goto(a, "save")) /\ UNCHANGED rows
    /\ UNCHANGED <<store, published, toolRows, runtime, local, queues>>

MergeRuntime(a) ==
    /\ pc[a] = "merge"
    /\ \/ runtime' = [runtime EXCEPT !.step = draft[a].last] /\ UNCHANGED counts
       \/ Fails /\ UNCHANGED runtime
    /\ Goto(a, "tools")
    /\ UNCHANGED <<store, published, rows, toolRows, local, queues>>

\* _persist_missing_tool_calls: the calls tagged with this step.
PersistToolCalls(a) ==
    /\ pc[a] = "tools"
    /\ \/ toolRows' = toolRows \union ({<<draft[a].last, a>>} \intersect (OptionalRole \X Attempts))
          /\ UNCHANGED counts
       \/ Fails /\ UNCHANGED toolRows
    /\ Goto(a, "save")
    /\ UNCHANGED <<store, published, rows, runtime, local, queues>>

\* The superstep ends: its writes and the next checkpoint are handed over.
Save(a) ==
    /\ pc[a] = "save" /\ Len(puts[a]) < MaxQueue /\ Cardinality(jobs[a]) < MaxQueue
    /\ Step(a, draft[a])
    /\ jobs' = [jobs EXCEPT ![a] = @ \union
          {[key |-> Id(graph[a]), tries |-> 0, read |-> FALSE, seen |-> {},
            entry |-> [task |-> <<Id(graph[a]), draft[a].last>>, out |-> draft[a]]]}]
    /\ UNCHANGED <<store, effects, fresh, draft, broken, counts>>

-----------------------------------------------------------------------------
\* Background: DaprCheckpointSaver.aput, one checkpoint after the other

Dequeue(a) == puts' = [puts EXCEPT ![a] = Tail(@)]
Break(a) == broken' = [broken EXCEPT ![a] = TRUE]
File(key, c) == blob' = [i \in DOMAIN blob \union {key} |-> IF i = key THEN c ELSE blob[i]]

\* As if only the last node's output were written into the checkpoint there.
PutBlobMerging(a) ==
    /\ pc[a] \in Alive /\ puts[a] # <<>> /\ ~Head(puts[a]).stored
    /\ LET p == Head(puts[a]) IN
         File(p.key, IF index \in DOMAIN blob /\ p.content.last \in Author
                     THEN [p.content EXCEPT !.by =
                             [blob[index].by EXCEPT ![p.content.last] = p.content.run]]
                     ELSE p.content)
    /\ puts' = [puts EXCEPT ![a][1].stored = TRUE]
    /\ UNCHANGED <<index, writes, effects, pc, local, jobs, broken, counts>>

PutBlob(a) ==
    /\ pc[a] \in Alive /\ puts[a] # <<>> /\ ~Head(puts[a]).stored
    /\ File(Head(puts[a]).key, Head(puts[a]).content)
    /\ puts' = [puts EXCEPT ![a][1].stored = TRUE]
    /\ UNCHANGED <<index, writes, effects, pc, local, jobs, broken, counts>>

\* As if the index were written before the checkpoint it names.
PutIndexFirst(a) ==
    /\ pc[a] \in Alive /\ puts[a] # <<>>
    /\ index' = Head(puts[a]).key
    /\ IF Head(puts[a]).stored THEN Dequeue(a) ELSE UNCHANGED puts
    /\ UNCHANGED <<blob, writes, effects, pc, local, jobs, broken, counts>>

PutIndex(a) ==
    /\ pc[a] \in Alive /\ puts[a] # <<>> /\ Head(puts[a]).stored
    /\ index' = Head(puts[a]).key
    /\ Dequeue(a)
    /\ UNCHANGED <<blob, writes, effects, pc, local, jobs, broken, counts>>

\* The next checkpoint in the queue is stored all the same.
PutFails(a) ==
    /\ pc[a] \in Alive /\ puts[a] # <<>>
    /\ Fails /\ Break(a) /\ Dequeue(a)
    /\ UNCHANGED <<store, effects, pc, local, jobs>>

-----------------------------------------------------------------------------
\* Background: DaprCheckpointSaver.aput_writes, compare-and-set

Replace(a, j, J) == jobs' = [jobs EXCEPT ![a] = (@ \ {j}) \union J]

ReadWrites(a, j) ==
    /\ pc[a] \in Alive /\ ~j.read
    /\ Replace(a, j, {[j EXCEPT !.read = TRUE, !.seen = writes[j.key]]})
    /\ UNCHANGED <<store, effects, pc, local, puts, broken, counts>>

\* _merge_pending_writes: the first entry of a task stays.
Merged(entries, w) ==
    IF \E e \in entries : e.task = w.task THEN entries ELSE entries \union {w}

\* No blob, no etag: then the write is unconditional.  A conflict takes three
\* writers: two that found the blob, and one that made it.
SaveWrites(a, j) ==
    /\ pc[a] \in Alive /\ j.read
    /\ IF j.seen \in {{}, writes[j.key]}
       THEN /\ writes' = [writes EXCEPT ![j.key] = Merged(j.seen, j.entry)]
            /\ Replace(a, j, {}) /\ UNCHANGED broken
       ELSE /\ IF j.tries < 2
               THEN Replace(a, j, {[j EXCEPT !.tries = @ + 1, !.read = FALSE]}) /\ UNCHANGED broken
               ELSE Replace(a, j, {}) /\ Break(a)
            /\ UNCHANGED writes
    /\ UNCHANGED <<blob, index, effects, pc, local, puts, counts>>

WritesFail(a, j) ==
    /\ pc[a] \in Alive
    /\ Fails /\ Break(a) /\ Replace(a, j, {})
    /\ UNCHANGED <<store, effects, pc, local, puts>>

-----------------------------------------------------------------------------
\* The end of an attempt

\* No node is left: the graph waits for its background stores.
Complete(a) ==
    /\ pc[a] = "tick" /\ Successor(graph[a]) = "end"
    /\ Goto(a, "return")
    /\ Forget(a, graph[a])
    /\ UNCHANGED <<store, effects, queues, counts>>

\* As if the report were returned while the last checkpoint is under way.
FinishAtOnce(a) ==
    /\ pc[a] \in {"return", "abort"}
    /\ Goto(a, IF pc[a] = "return" THEN "returned" ELSE "failed")
    /\ puts' = [puts EXCEPT ![a] = <<>>] /\ jobs' = [jobs EXCEPT ![a] = {}]
    /\ UNCHANGED <<store, effects, local, broken, counts>>

\* A failed background store fails the attempt, whatever the graph returned.
Finish(a) ==
    /\ pc[a] \in {"return", "abort"}
    /\ puts[a] = <<>> /\ jobs[a] = {}
    /\ IF pc[a] = "return" /\ ~broken[a]
       THEN Goto(a, "returned") /\ UNCHANGED <<local, broken>>
       ELSE Goto(a, "failed") /\ Forget(a, Input(a)) /\ broken' = [broken EXCEPT ![a] = FALSE]
    /\ UNCHANGED <<store, effects, puts, jobs, counts>>

\* A node or a read of the store raises, or the 300 s are over.
Abort(a) ==
    /\ pc[a] \in Alive \ {"return", "abort"}
    /\ Goto(a, "abort")
    /\ Forget(a, Input(a))
    /\ UNCHANGED <<store, effects, queues, counts>>

\* The worker dies, and with it what was still to be stored.
Crash(a) ==
    /\ pc[a] \in Alive
    /\ Goto(a, "failed")
    /\ Forget(a, Input(a))
    /\ puts' = [puts EXCEPT ![a] = <<>>] /\ jobs' = [jobs EXCEPT ![a] = {}]
    /\ broken' = [broken EXCEPT ![a] = FALSE]
    /\ UNCHANGED <<store, effects, counts>>

-----------------------------------------------------------------------------
Callback(a) == Publish(a) \/ Record(a) \/ MergeRuntime(a) \/ PersistToolCalls(a)
Open(a) == Start(a) \/ Check(a) \/ ReadIndex(a) \/ BeginFromInput(a) \/ LoadCheckpoint(a)
Run(a) == ApplyLoaded(a) \/ Execute(a) \/ PersistResult(a) \/ Callback(a) \/ Save(a)
Background(a) ==
    \/ PutBlob(a) \/ PutIndex(a) \/ PutFails(a)
    \/ \E j \in jobs[a] : ReadWrites(a, j) \/ SaveWrites(a, j) \/ WritesFail(a, j)
End(a) == Complete(a) \/ Finish(a) \/ Abort(a) \/ Crash(a)

Next == \E a \in Attempts : Open(a) \/ Run(a) \/ Background(a) \/ End(a)

Spec == Init /\ [][Next]_vars

-----------------------------------------------------------------------------
TypeOK ==
    /\ \A i \in DOMAIN blob : i \in Ids \ {NoId} /\ blob[i] \in Checkpoint
    /\ index \in Ids
    /\ published \subseteq Node
    /\ rows \subseteq Node
    /\ toolRows \subseteq OptionalRole \X Attempts
    /\ runtime \in [step : Node \union {"input"}, report : Attempts \union {NoAttempt}]
    /\ pc \in [Attempts -> Pcs]
    /\ fresh \in [Attempts -> BOOLEAN]
    /\ graph \in [Attempts -> Checkpoint] /\ draft \in [Attempts -> Checkpoint]
    /\ parent \in [Attempts -> Ids]
    /\ writes \in [Ids -> SUBSET Entry] /\ loaded \in [Attempts -> SUBSET Entry]
    /\ puts \in [Attempts -> Seq([key : Ids, content : Checkpoint, stored : BOOLEAN])]
    /\ jobs \in [Attempts -> SUBSET [key : Ids, tries : 0..2, read : BOOLEAN,
                                     seen : SUBSET Entry, entry : Entry]]
    /\ broken \in [Attempts -> BOOLEAN]
    /\ failures \in 0..MaxFailures /\ overlaps \in 0..MaxOverlaps

\* The nodes a checkpoint has behind it.
Behind(c) == {n \in Node : Rank[n] <= Rank[c.last] /\ (n \in OptionalRole => n \in c.roles)}

\* Whatever attempts overlap or die, the index names a checkpoint that is
\* there: aput writes the checkpoint first.  Were it not, aget_tuple would
\* find nothing and the retry would run the whole graph again.
IndexedIsStored == index = NoId \/ index \in DOMAIN blob

\* engine.py:22-25: a retried activity resumes, instead of restarting the
\* graph: no attempt executes a node that the indexed checkpoint has behind
\* it.  (An attempt that overlaps another may: it opened the graph earlier.)
SavedNodesAreNotRepeated ==
    \A a \in Attempts :
        overlaps = 0 /\ pc[a] \in Executing /\ index \in DOMAIN blob =>
            draft[a].last \notin Behind(blob[index])

\* Progress is never undone while attempts do not overlap: a new indexed
\* checkpoint continues the one before it, with the same outputs.
ProgressIsKept ==
    [][overlaps' = 0 /\ index \in DOMAIN blob =>
         LET old == blob[index] new == blob'[index'] IN
           /\ Rank[old.last] <= Rank[new.last]
           /\ \A n \in Behind(old) \intersect Author : new.by[n] = old.by[n]]_<<blob, index>>

\* The completion callback precedes the checkpoint: unless a call failed,
\* every node behind a stored checkpoint was published and has its row, and
\* the tool calls of the execution that counts are in tool_calls.
EffectsPrecedeCheckpoint ==
    failures = 0 =>
        \A i \in DOMAIN blob : LET c == blob[i] IN
            /\ Behind(c) \ {"start"} \subseteq rows \intersect published
            /\ \A n \in Behind(c) \intersect OptionalRole : <<n, c.by[n]>> \in toolRows

\* Attempts that do not overlap return the same report, whoever is asked
\* again: it is in the indexed checkpoint before it is returned, and unless a
\* call failed it is the report the runtime state shows.
AnswersAgree ==
    \A a \in Attempts : overlaps = 0 /\ pc[a] = "returned" =>
        /\ index \in DOMAIN blob
        /\ [blob[index] EXCEPT !.run = a] = [graph[a] EXCEPT !.run = a]
        /\ failures = 0 => runtime.report = graph[a].by["writer"]

\* test_dapr_checkpoint_saver.py:65-108: what aput_writes stored comes back with
\* the checkpoint.  Then a node whose writes are stored is not executed again.
StoredWritesAreUsed ==
    \A a \in Attempts : overlaps = 0 /\ pc[a] \in Executing =>
        ~\E i \in Ids : \E w \in writes[i] : w.task = <<Id(graph[a]), draft[a].last>>
=============================================================================
