--------------------------- MODULE ReportPipeline ---------------------------
(***************************************************************************)
(* What the platform promises about the WORK of a task, with no worker,    *)
(* retry, redelivery or request in sight: one engine is chosen, each of    *)
(* its stages yields one result and only after the stage before it, and    *)
(* the report handed out is the result of the last stage, once.            *)
(***************************************************************************)
CONSTANTS Result, NoResult

VARIABLES
    engine,     \* the engine the task uses, or "auto" while unresolved
    result,     \* the result of each stage, or NoResult
    delivered   \* the report a client reads, or NoResult

Stage == {"researcher", "analyst", "writer", "langgraph"}

\* The stage that must have its result before s, s itself when there is none.
Before(s) == CASE s = "analyst" -> "researcher" [] s = "writer" -> "analyst" [] OTHER -> s

EngineOf(s) == IF s = "langgraph" THEN "langgraph" ELSE "crewai"
LastStage(e) == IF e = "langgraph" THEN "langgraph" ELSE "writer"

Init ==
    /\ engine \in {"auto", "langgraph", "crewai"}
    /\ result = [s \in Stage |-> NoResult]
    /\ delivered = NoResult

Choose ==
    /\ engine = "auto"
    /\ engine' \in {"langgraph", "crewai"}
    /\ UNCHANGED <<result, delivered>>

Produce(s) ==
    /\ engine = EngineOf(s)
    /\ result[s] = NoResult
    /\ Before(s) = s \/ result[Before(s)] # NoResult
    /\ \E r \in Result : result' = [result EXCEPT ![s] = r]
    /\ UNCHANGED <<engine, delivered>>

Deliver ==
    /\ engine # "auto"
    /\ delivered = NoResult
    /\ result[LastStage(engine)] # NoResult
    /\ delivered' = result[LastStage(engine)]
    /\ UNCHANGED <<engine, result>>

Next == Choose \/ Deliver \/ \E s \in Stage : Produce(s)

Spec == Init /\ [][Next]_<<engine, result, delivered>>

=============================================================================
