----------------------------- MODULE RoleAttempt -----------------------------
(***************************************************************************)
(* One attempt of one role: tool discovery, the tool loop and the final    *)
(* structured answer (agents/tool_loop.py, agents/researcher.py and        *)
(* analyst.py, crewai_engine/roles_runner.py), every request under the     *)
(* retries of llm/resilient.py and the whole under the activity's          *)
(* wait_for.  A CrewAI role without tools runs in a thread of its own,     *)
(* which asks the model through crewai_engine/llm_bridge.py.               *)
(*                                                                         *)
(* The model, the tool server and CrewAI are external: they answer what    *)
(* they like, late, or not at all.                                         *)
(***************************************************************************)
EXTENDS Naturals, Sequences, FiniteSets

CONSTANTS
    Tool,          \* tools of the MCP server
    Allowlist,     \* role.tool_allowlist
    MaxRounds,     \* DEFAULT_MAX_ROUNDS
    MaxTries,      \* llm_max_retries + 1
    MaxCalls,      \* bound on the tool calls in one answer of the model
    MaxCrewCalls   \* bound on the model calls of one Crew

ASSUME RoleAssumption ==
    /\ MaxRounds \in Nat \ {0} /\ MaxTries \in Nat \ {0}
    /\ MaxCalls \in Nat /\ MaxCrewCalls \in Nat \ {0}

VARIABLES
    engine,      \* which engine runs the role
    pc,          \* place of the attempt's coroutine
    tools,       \* tools offered to the model
    conv,        \* conversation
    pending,     \* calls of the last answer not yet looked at
    records,     \* tool_call_records
    round,       \* rounds begun
    request,     \* try of the LLM request under way, 0: none
    late,        \* wait_for has cancelled the attempt
    swallowed,   \* and discovery has taken that for a failure of the server
    executed,    \* history: tools the server was asked to run
    sent,        \* history: LLM requests of the coroutine
    thread,      \* the Crew's thread
    crewCalls,   \* its calls of the bridge
    crewOk,      \* the last one has returned an answer
    bridge,      \* bridge[i]: the coroutine of the i-th call
    others       \* another activity runs the worker's loop

loopVars == <<tools, conv, pending, records, round, executed>>
llmVars == <<request, sent>>
cutVars == <<late, swallowed>>
crewVars == <<thread, crewCalls, crewOk, bridge>>
vars == <<engine, pc, loopVars, llmVars, cutVars, crewVars, others>>

Calls == UNION {[1..n -> Tool] : n \in 0..MaxCalls}

Message ==
    [kind : {"prompt"}, calls : {<<>>}] \union
    [kind : {"assistant"}, calls : Calls] \union
    [kind : {"tool"}, calls : {<<t>> : t \in Tool}]

Say(kind, calls) == [kind |-> kind, calls |-> calls]

Record == [tool : Tool, error : BOOLEAN]

Over == pc \in {"returned", "failed"}

\* The worker's one loop runs only inside an activity.
LoopRuns == ~Over \/ others

\* What the coroutine awaits goes on: it has not been cancelled.
InTime == late => swallowed

Init ==
    /\ engine \in {"crewai", "langgraph"}
    /\ pc = "discover"
    /\ tools = {} /\ conv = <<Say("prompt", <<>>)>>
    /\ pending = <<>> /\ records = <<>> /\ round = 0
    /\ request = 0 /\ sent = 0
    /\ late = FALSE /\ swallowed = FALSE
    /\ executed = {}
    /\ thread = "none" /\ crewCalls = 0 /\ crewOk = FALSE
    /\ bridge = [i \in 1..MaxCrewCalls |-> [where |-> "none", try |-> 0]]
    /\ others = FALSE

-----------------------------------------------------------------------------
\* ResilientLLMClient: an error that is tried again while tries are left.

Error == {"timeout", "unavailable", "other", "cancelled"}

\* As if cancellation were caught like an error of the provider.
RetriedEvenCancelled(error, try) ==
    error \in {"timeout", "unavailable", "cancelled"} /\ try < MaxTries

\* HTTP 429, 502, 503 and transport errors count as unavailable; a refused
\* request and an answer that does not parse are raised at once.
Retried(error, try) == error \in {"timeout", "unavailable"} /\ try < MaxTries

\* The coroutine goes on to place p, which sends a request at once.
Ask(p) ==
    /\ pc' = p
    /\ request' = 1
    /\ sent' = sent + 1

LlmFails(error) ==
    /\ request > 0
    /\ ~InTime <=> error = "cancelled"
    /\ IF Retried(error, request)
       THEN request' = request + 1 /\ sent' = sent + 1 /\ UNCHANGED pc
       ELSE request' = 0 /\ pc' = "failed" /\ UNCHANGED sent
    /\ UNCHANGED <<engine, loopVars, cutVars, crewVars, others>>

Answered(p) == pc = p /\ request > 0 /\ InTime

-----------------------------------------------------------------------------
\* resolve_role_tools, and what follows from its answer

\* kickoff_async: the Crew runs in a thread.
StartCrew ==
    /\ pc' = "crew"
    /\ thread' = "ready"
    /\ UNCHANGED <<tools, llmVars, crewCalls, crewOk, bridge>>

\* filter_by_allowlist
Allowed == Tool \intersect Allowlist

NoTools ==
    IF engine = "crewai" THEN StartCrew
    ELSE Ask("structured") /\ UNCHANGED <<tools, crewVars>>

\* Over a session of its own.  Every failure counts as "no tools".
Discover ==
    /\ pc = "discover" /\ InTime
    /\ \/ NoTools
       \/ /\ Allowed # {}
          /\ tools' = Allowed /\ pc' = "open"
          /\ UNCHANGED <<llmVars, crewVars>>
    /\ UNCHANGED <<engine, conv, pending, records, round, executed, cutVars, others>>

\* The session of the tool loop; failing to open it fails the role.  Only
\* the CrewAI runner discovers again, in it.
OpenSession ==
    /\ pc = "open" /\ InTime
    /\ \/ pc' = "failed" /\ UNCHANGED llmVars
       \/ engine = "crewai" /\ pc' = "resolve" /\ UNCHANGED llmVars
       \/ engine = "langgraph" /\ Ask("chat")
    /\ UNCHANGED <<engine, loopVars, cutVars, crewVars, others>>

Resolve ==
    /\ pc = "resolve" /\ InTime
    /\ tools' \in {Allowed, {}}
    /\ Ask("chat")
    /\ UNCHANGED <<engine, conv, pending, records, round, executed, cutVars, crewVars, others>>

\* The streams of the open session break, or its closing raises.
SessionBreaks ==
    /\ pc \in {"resolve", "chat", "tools", "last"}
    /\ pc' = "failed" /\ request' = 0
    /\ UNCHANGED <<engine, loopVars, sent, cutVars, crewVars, others>>

-----------------------------------------------------------------------------
\* run_tool_loop

\* The model asks for no tool, or has none to ask for.
ChatEnds ==
    /\ Answered("chat")
    /\ conv' = Append(conv, Say("assistant", <<>>)) \o <<Say("prompt", <<>>)>>
    /\ Ask("structured")
    /\ UNCHANGED <<engine, tools, pending, records, round, executed, cutVars, crewVars, others>>

ChatAsksForTools ==
    /\ Answered("chat") /\ tools # {}
    /\ \E calls \in Calls \ {<<>>} :
          /\ conv' = Append(conv, Say("assistant", calls))
          /\ pending' = calls
    /\ pc' = "tools" /\ request' = 0
    /\ UNCHANGED <<engine, tools, records, round, executed, sent, cutVars, crewVars, others>>

AnswerCall(error) ==
    /\ records' = Append(records, [tool |-> Head(pending), error |-> error])
    /\ conv' = Append(conv, Say("tool", <<Head(pending)>>))
    /\ pending' = Tail(pending)

\* As if a refused call were skipped.
RefuseCallSilently ==
    /\ pc = "tools" /\ pending # <<>> /\ Head(pending) \notin tools /\ InTime
    /\ pending' = Tail(pending)
    /\ UNCHANGED <<engine, pc, tools, conv, records, round, executed, llmVars, cutVars, crewVars, others>>

\* Not in the allowlist: recorded and answered, not called.
RefuseCall ==
    /\ pc = "tools" /\ pending # <<>> /\ Head(pending) \notin tools /\ InTime
    /\ AnswerCall(TRUE)
    /\ UNCHANGED <<engine, pc, tools, round, executed, llmVars, cutVars, crewVars, others>>

\* MCPClient.call_tool: a timeout, a broken transport, an error payload and an
\* oversized or unreadable one become an MCPToolError.  A payload that is JSON
\* but no object raises, which breaks the session (SessionBreaks).
CallTool ==
    /\ pc = "tools" /\ pending # <<>> /\ Head(pending) \in tools /\ InTime
    /\ \E error \in BOOLEAN : AnswerCall(error)
    /\ executed' = executed \union {Head(pending)}
    /\ UNCHANGED <<engine, pc, tools, round, llmVars, cutVars, crewVars, others>>

\* As if the rounds were not counted.
NextRoundForEver ==
    /\ pc = "tools" /\ pending = <<>> /\ InTime
    /\ round' = round + 1
    /\ Ask("chat")
    /\ UNCHANGED <<engine, tools, conv, pending, records, executed, cutVars, crewVars, others>>

\* After the last round the model is asked once more, without tools.
NextRound ==
    /\ pc = "tools" /\ pending = <<>> /\ InTime
    /\ round' = round + 1
    /\ Ask(IF round + 1 < MaxRounds THEN "chat" ELSE "last")
    /\ UNCHANGED <<engine, tools, conv, pending, records, executed, cutVars, crewVars, others>>

LastAnswer ==
    /\ Answered("last")
    /\ conv' = Append(conv, Say("assistant", <<>>)) \o <<Say("prompt", <<>>)>>
    /\ Ask("structured")
    /\ UNCHANGED <<engine, tools, pending, records, round, executed, cutVars, crewVars, others>>

\* chat_structured: an answer that parses.
Structured ==
    /\ Answered("structured")
    /\ pc' = "returned" /\ request' = 0
    /\ UNCHANGED <<engine, loopVars, sent, cutVars, crewVars, others>>

-----------------------------------------------------------------------------
\* The Crew's thread: CrewAILLMBridge.call

\* run_coroutine_threadsafe when the loop runs, else asyncio.run in a thread.
BridgeCall ==
    /\ thread = "ready" /\ crewCalls < MaxCrewCalls
    /\ thread' = "asking"
    /\ crewCalls' = crewCalls + 1
    /\ bridge' = [bridge EXCEPT ![crewCalls + 1].where = IF LoopRuns THEN "shared" ELSE "own"]
    /\ UNCHANGED <<engine, pc, loopVars, llmVars, cutVars, crewOk, others>>

\* The coroutine of call i can run, or its request is answered and noticed.
Alive(i) == bridge[i].where = "own" \/ (bridge[i].where = "shared" /\ LoopRuns)

BridgeSend(i) ==
    /\ Alive(i) /\ bridge[i].try = 0
    /\ bridge' = [bridge EXCEPT ![i].try = 1]
    /\ UNCHANGED <<engine, pc, loopVars, llmVars, cutVars, thread, crewCalls, crewOk, others>>

\* The coroutine is over; the thread hears of it if it still waits.
BridgeOver(i, ok) ==
    /\ bridge' = [bridge EXCEPT ![i].where = "over"]
    /\ IF thread = "asking" /\ i = crewCalls
       THEN thread' = "ready" /\ crewOk' = ok
       ELSE UNCHANGED <<thread, crewOk>>

BridgeAnswered(i) ==
    /\ Alive(i) /\ bridge[i].try > 0
    /\ BridgeOver(i, TRUE)
    /\ UNCHANGED <<engine, pc, loopVars, llmVars, cutVars, crewCalls, others>>

BridgeFails(i, error) ==
    /\ Alive(i) /\ bridge[i].try > 0
    /\ IF Retried(error, bridge[i].try)
       THEN bridge' = [bridge EXCEPT ![i].try = @ + 1] /\ UNCHANGED <<thread, crewOk>>
       ELSE BridgeOver(i, FALSE)
    /\ UNCHANGED <<engine, pc, loopVars, llmVars, cutVars, crewCalls, others>>

\* As if the future were waited for without a timeout.
BridgeTimeoutOwnOnly ==
    /\ thread = "asking" /\ bridge[crewCalls].where = "own"
    /\ thread' = "ready" /\ crewOk' = FALSE
    /\ UNCHANGED <<engine, pc, loopVars, llmVars, cutVars, crewCalls, bridge, others>>

\* 115 s: a coroutine on the shared loop is cancelled, before it can send
\* anything more; one with a loop of its own goes on.
BridgeTimeout ==
    /\ thread = "asking"
    /\ thread' = "ready" /\ crewOk' = FALSE
    /\ IF bridge[crewCalls].where = "shared"
       THEN bridge' = [bridge EXCEPT ![crewCalls].where = "over"] ELSE UNCHANGED bridge
    /\ UNCHANGED <<engine, pc, loopVars, llmVars, cutVars, crewCalls, others>>

\* The Crew returns its output, which parses or not; or raises.
CrewEnds ==
    /\ thread = "ready" /\ crewCalls > 0
    /\ thread' = "ended"
    /\ pc' \in IF pc # "crew" \/ ~InTime THEN {pc}
               ELSE IF crewOk THEN {"returned", "failed"} ELSE {"failed"}
    /\ UNCHANGED <<engine, loopVars, llmVars, cutVars, crewCalls, crewOk, bridge, others>>

-----------------------------------------------------------------------------
\* The activity's wait_for

Cut ==
    /\ ~late /\ ~Over
    /\ late' = TRUE
    /\ UNCHANGED <<engine, pc, loopVars, llmVars, swallowed, crewVars, others>>

\* CancelledError outside an LLM request; a Crew's thread hears nothing of it.
Cancelled ==
    /\ ~InTime /\ pc \in {"discover", "open", "resolve", "tools", "crew"}
    /\ pc' = "failed"
    /\ UNCHANGED <<engine, loopVars, llmVars, cutVars, crewVars, others>>

\* Discovery's streams fail while they are cancelled: the task group raises
\* a BaseExceptionGroup, which resolve_role_tools answers with "no tools".
\* Nobody cancels the coroutine again.
CutSwallowed ==
    /\ ~InTime /\ pc = "discover"
    /\ swallowed' = TRUE
    /\ NoTools
    /\ UNCHANGED <<engine, conv, pending, records, round, executed, late, others>>

\* Later activities of the worker come and go.
LoopRunsOrRests ==
    /\ Over
    /\ others' = ~others
    /\ UNCHANGED <<engine, pc, loopVars, llmVars, cutVars, crewVars>>

-----------------------------------------------------------------------------
RoleStep ==
    \/ Discover \/ OpenSession \/ Resolve
    \/ ChatEnds \/ ChatAsksForTools \/ RefuseCall \/ CallTool \/ NextRound
    \/ LastAnswer \/ Structured \/ Cancelled \/ CutSwallowed
    \/ \E error \in Error : LlmFails(error)

BridgeStep ==
    \E i \in 1..MaxCrewCalls :
        \/ BridgeSend(i) \/ BridgeAnswered(i)
        \/ \E error \in Error \ {"cancelled"} : BridgeFails(i, error)

Next ==
    \/ RoleStep \/ SessionBreaks \/ Cut
    \/ BridgeCall \/ BridgeStep \/ BridgeTimeout \/ CrewEnds
    \/ LoopRunsOrRests

Spec == Init /\ [][Next]_vars

\* Every await of the coroutine has a timeout, the wait of the thread too;
\* a Crew ends after finitely many calls.  Nobody promises that the loop
\* runs again.
FairSpec ==
    /\ Spec
    /\ WF_vars(RoleStep)
    /\ WF_vars(BridgeCall \/ CrewEnds) /\ WF_vars(BridgeTimeout)

-----------------------------------------------------------------------------
TypeOK ==
    /\ engine \in {"crewai", "langgraph"}
    /\ pc \in {"discover", "open", "resolve", "chat", "tools", "last", "structured",
               "crew", "returned", "failed"}
    /\ tools \subseteq Tool /\ executed \subseteq Tool
    /\ conv \in Seq(Message) /\ pending \in Seq(Tool) /\ records \in Seq(Record)
    /\ round \in 0..MaxRounds
    /\ request \in 0..MaxTries
    /\ sent \in 0..(MaxRounds + 2) * MaxTries
    /\ {late, swallowed, crewOk, others} \subseteq BOOLEAN
    /\ thread \in {"none", "ready", "asking", "ended"}
    /\ crewCalls \in 0..MaxCrewCalls
    /\ bridge \in [1..MaxCrewCalls -> [where : {"none", "shared", "own", "over"}, try : 0..MaxTries]]

\* Every call of every answer has its tool message, in order and next to it.
EveryCallAnswered ==
    \A i \in 1..Len(conv) : conv[i].kind = "assistant" =>
        LET n == Len(conv[i].calls) IN
          /\ i + n <= Len(conv)
          /\ \A j \in 1..n : conv[i + j] = Say("tool", <<conv[i].calls[j]>>)
          /\ i + n < Len(conv) => conv[i + n + 1].kind # "tool"

\* The tool messages among the first i.
ToolMessages(i) == {k \in 1..i : conv[k].kind = "tool"}

RecordsAreAnswers ==
    /\ Len(records) = Cardinality(ToolMessages(Len(conv)))
    /\ \A i \in ToolMessages(Len(conv)) :
          conv[i].calls = <<records[Cardinality(ToolMessages(i))].tool>>

\* Providers reject a request in which a tool call has no answer: whenever the
\* model is asked, each call of each earlier answer has its tool message,
\* whether it was run, refused or failed; the records kept for the audit are
\* those messages; only allowed tools were run.
ConversationComplete ==
    pc \in {"chat", "last", "structured", "returned"} =>
        EveryCallAnswered /\ RecordsAreAnswers /\ executed \subseteq Allowlist

\* A role that has been cut off runs no tool again.  It goes on at all only
\* when discovery has swallowed the cancellation, and then without tools: its
\* coroutine asks for the structured answer, once and with the usual tries,
\* or leaves the model to the thread of a Crew.
CutRoleOnlyConcludes ==
    [][late => /\ UNCHANGED executed
               /\ sent' # sent => swallowed' /\ pc' = "structured" /\ sent' <= MaxTries
               /\ pc' = "returned" => pc = "returned" \/ swallowed]_vars

\* The thread of a Crew ends, also when its activity is over and no other
\* ever runs the loop that holds its coroutine.
ThreadEnds == thread # "none" ~> thread = "ended"
=============================================================================
