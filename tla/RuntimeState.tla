---------------------------- MODULE RuntimeState ----------------------------
(***************************************************************************)
(* The runtime document task:<id>:runtime of one task.  Every writer gets  *)
(* the whole document over HTTP from the Dapr sidecar, patches it and puts *)
(* the whole of it back, without an etag (persistence/dapr_state.py); an   *)
(* asyncio lock, one per process, keeps its own writers apart.  The API    *)
(* process saves the first snapshot and patches the status; activities     *)
(* patch status and step; each LLM call adds its tokens in a task of the   *)
(* worker's loop that nobody awaits (observability/task_tokens.py), and    *)
(* that loop runs only inside an activity (workflows/sync_runtime.py).     *)
(*                                                                         *)
(* A field holds the name of the writer that set it, the token counter the *)
(* set of the calls it counts.                                             *)
(***************************************************************************)
EXTENDS FiniteSets

CONSTANTS
    Patch,       \* status patches of the API process
    Activity,    \* merges awaited by activities
    Call,        \* LLM calls that report their usage
    Snapshot,    \* the save of create_task
    None,        \* no writer
    Cuts,        \* BOOLEAN: an activity may be cut off in a merge, or crash
    Failures     \* BOOLEAN: a request may time out

ASSUME WriterAssumption ==
    /\ Snapshot \notin Patch \union Activity \union Call
    /\ Patch \intersect Activity = {} /\ Patch \intersect Call = {}
    /\ Activity \intersect Call = {}
    /\ None \notin {Snapshot} \union Patch \union Activity \union Call
    /\ {Cuts, Failures} \subseteq BOOLEAN

Merge == Patch \union Activity \union Call
Writer == {Snapshot} \union Merge
Process == {"api", "worker"}
Home(w) == IF w \in Activity \union Call THEN "worker" ELSE "api"

VARIABLES
    doc,      \* the document
    place,    \* place[w]: how far w is
    lock,     \* lock[p]: the merge that holds the lock of process p
    copy,     \* copy[w]: the document w has read
    total,    \* total[c]: the counter call c has read
    running,  \* the worker's loop runs
    ideal,    \* history: the document, had every stored patch been applied to it
    stale,    \* history: writers whose copy another lock's writer made stale
    behind,   \* history: calls whose total another call has made stale
    damage    \* history: what was stored although stale

vars == <<doc, place, lock, copy, total, running, ideal, stale, behind, damage>>

Field == {"query", "status", "step"}
Document == [fields : [Field -> Writer \union {None}], tokens : SUBSET Call]

Fresh == [fields |-> [f \in Field |-> None], tokens |-> {}]

Patched(w) ==
    IF w = Snapshot THEN {"query", "status"}
    ELSE IF w \in Patch THEN {"status"}
    ELSE IF w \in Activity THEN {"status", "step"} ELSE {}

\* {**existing, **patch}, with counted as the token counter of a call's patch.
Merged(base, w, counted) ==
    [fields |-> [f \in Field |-> IF f \in Patched(w) THEN w ELSE base.fields[f]],
     tokens |-> IF w \in Call THEN counted ELSE base.tokens]

Places == {"idle", "count", "wait", "get", "got", "put", "stored", "late", "over"}

\* The snapshot is put without lock and without reading.
Holds(w) == w # Snapshot /\ place[w] \in {"get", "got", "put", "stored"}

\* w has a copy that is not stored yet.
Pending(w) ==
    place[w] \in {"got", "put", "late"} \/ (w = Snapshot /\ place[w] = "idle")

\* Nothing of the worker's moves between two activities.
LoopRuns(w) == Home(w) = "api" \/ running

Init ==
    /\ doc = Fresh
    /\ place = [w \in Writer |-> "idle"]
    /\ lock = [p \in Process |-> None]
    /\ copy = [w \in Writer |-> Fresh]
    /\ total = [c \in Call |-> {}]
    /\ running = FALSE
    /\ ideal = Fresh
    /\ stale = {} /\ behind = {} /\ damage = {}

storage == <<doc, ideal, stale, behind, damage>>

At(w, from, to) ==
    /\ place[w] = from
    /\ place' = [place EXCEPT ![w] = to]

-----------------------------------------------------------------------------
\* The beginning of a write

CreateTask ==
    /\ At(Snapshot, "idle", "put")
    /\ UNCHANGED <<storage, lock, copy, total, running>>

\* The row is committed before the snapshot is saved: a request may come first.
PauseOrResume(w) ==
    /\ w \in Patch
    /\ At(w, "idle", "wait")
    /\ UNCHANGED <<storage, lock, copy, total, running>>

\* An activity awaits one merge at a time.
ActivityMerges(w) ==
    /\ w \in Activity /\ running
    /\ \A v \in Activity : place[v] \in {"idle", "late", "over"}
    /\ At(w, "idle", "wait")
    /\ UNCHANGED <<storage, lock, copy, total, running>>

\* accumulate_task_tokens: create_task(_run()).
CallAnswered(w) ==
    /\ w \in Call /\ running
    /\ At(w, "idle", "count")
    /\ UNCHANGED <<storage, lock, copy, total, running>>

-----------------------------------------------------------------------------
\* The accumulator and merge_task_runtime_state

\* The counter is read before the lock is asked for.
ReadTotal(w) ==
    /\ At(w, "count", "wait")
    /\ total' = [total EXCEPT ![w] = doc.tokens]
    /\ behind' = behind \ {w}
    /\ UNCHANGED <<doc, ideal, stale, damage, lock, copy, running>>

\* As if every merge made a lock of its own.
TakeOwnLock(w) ==
    /\ LoopRuns(w)
    /\ At(w, "wait", "get")
    /\ lock' = [lock EXCEPT ![Home(w)] = w]
    /\ UNCHANGED <<storage, copy, total, running>>

TakeLock(w) ==
    /\ LoopRuns(w) /\ lock[Home(w)] = None
    /\ At(w, "wait", "get")
    /\ lock' = [lock EXCEPT ![Home(w)] = w]
    /\ UNCHANGED <<storage, copy, total, running>>

\* The sidecar answers the GET; the answer may lie there until the loop runs.
Read(w) ==
    /\ At(w, "get", "got")
    /\ copy' = [copy EXCEPT ![w] = doc]
    /\ stale' = stale \ {w}
    /\ UNCHANGED <<doc, ideal, behind, damage, lock, total, running>>

SendPut(w) ==
    /\ LoopRuns(w)
    /\ At(w, "got", "put")
    /\ UNCHANGED <<storage, lock, copy, total, running>>

\* What w puts: its patch on its copy, its usage added to the total it read.
Stored(w) == Merged(copy[w], w, IF w \in Call THEN total[w] \union {w} ELSE {})

\* The sidecar stores the document, also after its client has given up.
Store(w) ==
    /\ \/ At(w, "put", IF w = Snapshot THEN "over" ELSE "stored")
       \/ At(w, "late", "over")
    /\ doc' = Stored(w)
    /\ ideal' = Merged(ideal, w, ideal.tokens \union {w})
    /\ stale' = (stale \ {w}) \union
          {v \in Writer \ {w} : Pending(v) /\ ~(Holds(v) /\ Holds(w) /\ Home(v) = Home(w))}
    /\ behind' = (behind \ {w}) \union
          {v \in Call \ {w} : w \in Call /\ place[v] \in {"wait", "get", "got", "put", "late"}}
    /\ damage' = damage \union {d \in {"document", "counter"} :
                                  IF d = "document" THEN w \in stale ELSE w \in behind}
    /\ copy' = [copy EXCEPT ![w] = Fresh]
    /\ total' = [c \in Call |-> IF c = w THEN {} ELSE total[c]]
    /\ UNCHANGED <<lock, running>>

Freed(w) == [p \in Process |-> IF lock[p] = w THEN None ELSE lock[p]]

Release(w) ==
    /\ LoopRuns(w)
    /\ At(w, "stored", "over")
    /\ lock' = Freed(w)
    /\ UNCHANGED <<storage, copy, total, running>>

\* Where a write that is given up is left: a PUT may still be carried out.
Left(w) == IF place[w] = "put" THEN "late" ELSE "over"

\* As if the lock were released by hand, after a merge that succeeds.
GiveUpHoldingLock(w) ==
    /\ LoopRuns(w)
    /\ place[w] \in {"count", "get", "got", "put", "stored"}
    /\ place' = [place EXCEPT ![w] = Left(w)]
    /\ UNCHANGED <<storage, lock, copy, total, running>>

\* 10 s without an answer that the loop has seen, or an error: it is raised
\* through the lock, and logged by all but two callers.
GiveUp(w) ==
    /\ Failures
    /\ LoopRuns(w)
    /\ place[w] \in {"count", "get", "got", "put", "stored"}
    /\ place' = [place EXCEPT ![w] = Left(w)]
    /\ lock' = Freed(w)
    /\ UNCHANGED <<storage, copy, total, running>>

-----------------------------------------------------------------------------
\* The worker's loop

\* run_until_complete, which raises while another activity is in it.  The
\* workflow is scheduled after the snapshot is saved or has failed to be.
ActivityStarts ==
    /\ ~running
    /\ place[Snapshot] \in {"late", "over"}
    /\ running' = TRUE
    /\ UNCHANGED <<storage, place, lock, copy, total>>

UnderWay(w) == place[w] \notin {"idle", "late", "over"}

\* The counts stay where they are, also one that holds the lock.
ActivityEnds ==
    /\ running
    /\ \A w \in Activity : ~UnderWay(w)
    /\ running' = FALSE
    /\ UNCHANGED <<storage, place, lock, copy, total>>

\* wait_for cancels the merge its activity is in.
ActivityCut(w) ==
    /\ Cuts /\ w \in Activity /\ running /\ UnderWay(w)
    /\ place' = [place EXCEPT ![w] = Left(w)]
    /\ lock' = Freed(w)
    /\ running' = FALSE
    /\ UNCHANGED <<storage, copy, total>>

\* A process dies and is started again, its tasks are gone.  (If create_task
\* dies, the task is never scheduled and nothing follows.)
Crash(p) ==
    /\ Cuts
    /\ \E w \in Writer : Home(w) = p /\ UnderWay(w)
    /\ place[Snapshot] \in {"late", "over"}
    /\ place' = [w \in Writer |-> IF Home(w) = p /\ UnderWay(w) THEN Left(w) ELSE place[w]]
    /\ lock' = [lock EXCEPT ![p] = None]
    /\ running' = (running /\ p = "api")
    /\ UNCHANGED <<storage, copy, total>>

-----------------------------------------------------------------------------
Begin(w) ==
    \/ w = Snapshot /\ CreateTask
    \/ PauseOrResume(w) \/ ActivityMerges(w) \/ CallAnswered(w)

Sidecar(w) == ReadTotal(w) \/ Read(w) \/ Store(w)

Progress(w) == TakeLock(w) \/ SendPut(w) \/ Release(w) \/ GiveUp(w)

Next ==
    \/ \E w \in Writer :
          Begin(w) \/ Sidecar(w) \/ Progress(w) \/ ActivityCut(w)
    \/ ActivityStarts \/ ActivityEnds
    \/ \E p \in Process : Crash(p)

Spec == Init /\ [][Next]_vars

\* A loop that runs again and again runs what is ready, and httpx times out; no
\* fairness for the sidecar, the requests and the activities.
LoopStep(p) == \E w \in Writer : Home(w) = p /\ Progress(w)

FairSpec == Spec /\ SF_vars(LoopStep("worker")) /\ WF_vars(LoopStep("api"))

-----------------------------------------------------------------------------
TypeOK ==
    /\ {doc, ideal} \subseteq Document
    /\ place \in [Writer -> Places]
    /\ lock \in [Process -> Merge \union {None}]
    /\ copy \in [Writer -> Document]
    /\ total \in [Call -> SUBSET Call]
    /\ running \in BOOLEAN
    /\ stale \subseteq Writer /\ behind \subseteq Call
    /\ damage \subseteq {"document", "counter"}
    /\ \A w \in Writer : Holds(w) <=> lock[Home(w)] = w

\* The document is what its patches make of it: a process never loses its own
\* patches, whatever is cut off, frozen or lost.  Only a PUT whose copy was
\* made stale from outside its lock (by the other process, by the first
\* snapshot or by a PUT whose client had given up) can put a field back; and
\* the counter misses a call only then, or if two counts overlapped.
DocumentAddsUp ==
    /\ "document" \notin damage => doc.fields = ideal.fields
    /\ damage = {} => doc.tokens = ideal.tokens

Over(w) == ~UnderWay(w)

\* A write ends, its failure included, if the worker keeps being given
\* activities: a count that was frozen with the lock blocks no one for ever.
WritesEnd ==
    \A w \in Merge : (Home(w) = "worker" => []<>running) => (UnderWay(w) ~> Over(w))
=============================================================================
