---------------------------- MODULE EventStream -----------------------------
(***************************************************************************)
(* The way of one task's events: published by activities and by the task   *)
(* service, carried at least once and in any order by Dapr pub/sub, turned *)
(* into audit rows and fanned out by the API process (events/handler.py,   *)
(* events/broadcaster.py), shown by SSE streams (api/routes/tasks.py       *)
(* 139-196).  One API process, as README.md:173 requires.                  *)
(*                                                                         *)
(* An event is named by its audit idempotency key, task:step:status.       *)
(***************************************************************************)
EXTENDS Naturals, Sequences, FiniteSets

CONSTANTS
    EventKey,    \* audit keys of the task
    Handler,     \* concurrent deliveries to POST /dapr/agent-task-events
    Stream,      \* SSE connections, each used once
    NoHandler,   \* nobody holds the key
    NoKey,       \* the handler has no event
    MaxFailures  \* bound on failed deliveries and process restarts

ASSUME StreamAssumption ==
    /\ NoHandler \notin Handler
    /\ NoKey \notin EventKey
    /\ MaxFailures \in Nat

VARIABLES
    settled,     \* tasks.status is terminal
    wire,        \* events the broker holds and will deliver
    audit,       \* audit_events, by idempotency key
    holder,      \* holder[k]: the handler whose INSERT of k is not committed
    hpc, event,  \* each handler's place and event
    spc,         \* each stream's place
    seen,        \* seen[s]: the status its snapshot read (TRUE: terminal)
    snap,        \* snap[s]: the audit events of its snapshot
    feed, sent,  \* feed[s]: all that was put on its queue; sent[s] of them are out
    failures

handlers == <<hpc, event, holder>>
streams == <<spc, seen, snap, feed, sent>>
vars == <<settled, wire, audit, handlers, streams, failures>>

Elements(seq) == {seq[i] : i \in 1..Len(seq)}

HandlerPcs == {"idle", "select", "insert", "commit", "broadcast", "ack"}
StreamPcs == {"off", "reading", "snapshot", "waiting", "check", "closed"}

\* The streams registered with the broadcaster.
Subscribed(s) == spc[s] \in {"waiting", "check"}

Init ==
    /\ settled = FALSE
    /\ wire = {}
    /\ audit = {}
    /\ holder = [k \in EventKey |-> NoHandler]
    /\ hpc = [h \in Handler |-> "idle"]
    /\ event = [h \in Handler |-> NoKey]
    /\ spc = [s \in Stream |-> "off"]
    /\ seen = [s \in Stream |-> FALSE]
    /\ snap = [s \in Stream |-> {}]
    /\ feed = [s \in Stream |-> <<>>]
    /\ sent = [s \in Stream |-> 0]
    /\ failures = 0

-----------------------------------------------------------------------------
\* The task

\* The row changes its status: it settles, or a stale writer revives it.
StatusWrite ==
    /\ settled' = ~settled
    /\ UNCHANGED <<wire, audit, handlers, streams, failures>>

\* _publish_event, and the task service's: once, or again by a retried
\* activity.  A publication that fails is swallowed: nothing happens.
Publish(k) ==
    /\ wire' = wire \union {k}
    /\ UNCHANGED <<settled, audit, handlers, streams, failures>>

-----------------------------------------------------------------------------
\* AgentTaskEventHandler.handle_payload

HandlerAt(h, from, to) ==
    /\ hpc[h] = from
    /\ hpc' = [hpc EXCEPT ![h] = to]

Deliver(h, k) ==
    /\ k \in wire
    /\ HandlerAt(h, "idle", "select")
    /\ event' = [event EXCEPT ![h] = k]
    /\ UNCHANGED <<settled, wire, audit, holder, streams, failures>>

\* As if the row were committed after the broadcast, with the session's end.
HandlerSelectUncommitted(h) ==
    /\ HandlerAt(h, "select", IF event[h] \in audit THEN "ack" ELSE "broadcast")
    /\ UNCHANGED <<settled, wire, audit, event, holder, streams, failures>>

\* record_audit_event's SELECT.
HandlerSelect(h) ==
    /\ HandlerAt(h, "select", IF event[h] \in audit THEN "ack" ELSE "insert")
    /\ UNCHANGED <<settled, wire, audit, event, holder, streams, failures>>

\* Its flush waits for an open INSERT of the key; after a peer's commit it
\* raises IntegrityError and the delivery is answered 500.
HandlerInsert(h) ==
    /\ hpc[h] = "insert" /\ holder[event[h]] = NoHandler
    /\ \/ /\ event[h] \notin audit
          /\ HandlerAt(h, "insert", "commit")
          /\ holder' = [holder EXCEPT ![event[h]] = h]
       \/ /\ event[h] \in audit
          /\ HandlerAt(h, "insert", "idle")
          /\ UNCHANGED holder
    /\ UNCHANGED <<settled, wire, audit, event, streams, failures>>

HandlerCommit(h) ==
    /\ HandlerAt(h, "commit", "broadcast")
    /\ audit' = audit \union {event[h]}
    /\ holder' = [holder EXCEPT ![event[h]] = NoHandler]
    /\ UNCHANGED <<settled, wire, event, streams, failures>>

\* As if only streams that wait on their queue were given the event.
BroadcastToWaiting(h) ==
    /\ HandlerAt(h, "broadcast", "ack")
    /\ feed' = [s \in Stream |-> IF spc[s] = "waiting" THEN Append(feed[s], event[h]) ELSE feed[s]]
    /\ UNCHANGED <<settled, wire, audit, event, holder, spc, seen, snap, sent, failures>>

\* TaskEventBroadcaster.publish: the queues are unbounded, so no put waits.
Broadcast(h) ==
    /\ HandlerAt(h, "broadcast", "ack")
    /\ feed' = [s \in Stream |-> IF Subscribed(s) THEN Append(feed[s], event[h]) ELSE feed[s]]
    /\ UNCHANGED <<settled, wire, audit, event, holder, spc, seen, snap, sent, failures>>

\* The 200 reaches the broker.
Acknowledge(h) ==
    /\ HandlerAt(h, "ack", "idle")
    /\ wire' = wire \ {event[h]}
    /\ UNCHANGED <<settled, audit, event, holder, streams, failures>>

\* The key is free again, whoever of the handlers in hs held it.
Released(hs) == [k \in EventKey |-> IF holder[k] \in hs THEN NoHandler ELSE holder[k]]

\* As if the route answered 200 whatever happened.
HandlerFailsQuietly(h) ==
    /\ hpc[h] # "idle" /\ failures < MaxFailures
    /\ failures' = failures + 1
    /\ hpc' = [hpc EXCEPT ![h] = "idle"]
    /\ holder' = Released({h})
    /\ wire' = wire \ {event[h]}
    /\ UNCHANGED <<settled, audit, event, streams>>

\* A delivery ends without its 200, at any point; the broker delivers again.
\* A COMMIT under way may have taken effect.
HandlerFails(h) ==
    /\ hpc[h] # "idle" /\ failures < MaxFailures
    /\ failures' = failures + 1
    /\ hpc' = [hpc EXCEPT ![h] = "idle"]
    /\ holder' = Released({h})
    /\ \/ UNCHANGED audit
       \/ hpc[h] = "commit" /\ audit' = audit \union {event[h]}
    /\ UNCHANGED <<settled, wire, event, streams>>

-----------------------------------------------------------------------------
\* _task_event_stream

StreamAt(s, from, to) ==
    /\ spc[s] = from
    /\ spc' = [spc EXCEPT ![s] = to]

\* get_task selects the row first and its audit events after.
ReadStatus(s) ==
    /\ StreamAt(s, "off", "reading")
    /\ seen' = [seen EXCEPT ![s] = settled]
    /\ UNCHANGED <<settled, wire, audit, handlers, snap, feed, sent, failures>>

ReadAudit(s) ==
    /\ StreamAt(s, "reading", "snapshot")
    /\ snap' = [snap EXCEPT ![s] = audit]
    /\ UNCHANGED <<settled, wire, audit, handlers, seen, feed, sent, failures>>

\* The snapshot is out; close, or subscribe from now on.
Subscribe(s) ==
    /\ StreamAt(s, "snapshot", IF seen[s] THEN "closed" ELSE "waiting")
    /\ UNCHANGED <<settled, wire, audit, handlers, seen, snap, feed, sent, failures>>

\* As if the stream did not wait for its queue.
ForwardUnchecked(s) ==
    /\ StreamAt(s, "waiting", "check")
    /\ sent' = [sent EXCEPT ![s] = @ + 1]
    /\ UNCHANGED <<settled, wire, audit, handlers, seen, snap, feed, failures>>

Forward(s) ==
    /\ StreamAt(s, "waiting", "check")
    /\ sent[s] < Len(feed[s])
    /\ sent' = [sent EXCEPT ![s] = @ + 1]
    /\ UNCHANGED <<settled, wire, audit, handlers, seen, snap, feed, failures>>

CheckAfterEvent(s) ==
    /\ StreamAt(s, "check", IF settled THEN "closed" ELSE "waiting")
    /\ UNCHANGED <<settled, wire, audit, handlers, seen, snap, feed, sent, failures>>

\* As if a silent stream only checked the status its snapshot had read.
CheckWhenSilentStale(s) ==
    /\ StreamAt(s, "waiting", "closed")
    /\ sent[s] = Len(feed[s])
    /\ seen[s]
    /\ UNCHANGED <<settled, wire, audit, handlers, seen, snap, feed, sent, failures>>

\* Four empty heartbeats later: the 60 s check of a silent stream.  Unless
\* the status is terminal it sends a heartbeat and goes on.
CheckWhenSilent(s) ==
    /\ StreamAt(s, "waiting", "closed")
    /\ sent[s] = Len(feed[s])
    /\ settled
    /\ UNCHANGED <<settled, wire, audit, handlers, seen, snap, feed, sent, failures>>

\* The client goes away.
Disconnect(s) ==
    /\ spc[s] \notin {"off", "closed"}
    /\ spc' = [spc EXCEPT ![s] = "closed"]
    /\ UNCHANGED <<settled, wire, audit, handlers, seen, snap, feed, sent, failures>>

\* The API process restarts: deliveries, streams and queues are gone.
Restart ==
    /\ failures < MaxFailures
    /\ failures' = failures + 1
    /\ hpc' = [h \in Handler |-> "idle"]
    /\ holder' = [k \in EventKey |-> NoHandler]
    /\ spc' = [s \in Stream |-> IF spc[s] = "off" THEN "off" ELSE "closed"]
    /\ UNCHANGED <<settled, wire, audit, event, seen, snap, feed, sent>>

-----------------------------------------------------------------------------
Handle(h) ==
    \/ HandlerSelect(h) \/ HandlerInsert(h) \/ HandlerCommit(h)
    \/ Broadcast(h) \/ Acknowledge(h)

Serve(s) ==
    \/ ReadAudit(s) \/ Subscribe(s) \/ Forward(s)
    \/ CheckAfterEvent(s) \/ CheckWhenSilent(s)

Next ==
    \/ StatusWrite
    \/ \E k \in EventKey : Publish(k)
    \/ \E h \in Handler : Handle(h) \/ HandlerFails(h) \/ \E k \in EventKey : Deliver(h, k)
    \/ \E s \in Stream : ReadStatus(s) \/ Serve(s) \/ Disconnect(s)
    \/ Restart

Spec == Init /\ [][Next]_vars

\* The event loop runs every coroutine that can go on; Dapr delivers what it
\* holds, and keeps delivering each event.
FairSpec ==
    /\ Spec
    /\ \A h \in Handler : WF_vars(Handle(h))
    /\ \A s \in Stream : WF_vars(Serve(s))
    /\ \A k \in EventKey : SF_vars(\E h \in Handler : Deliver(h, k))

-----------------------------------------------------------------------------
TypeOK ==
    /\ settled \in BOOLEAN
    /\ wire \subseteq EventKey
    /\ audit \subseteq EventKey
    /\ holder \in [EventKey -> Handler \union {NoHandler}]
    /\ hpc \in [Handler -> HandlerPcs]
    /\ event \in [Handler -> EventKey \union {NoKey}]
    /\ spc \in [Stream -> StreamPcs]
    /\ seen \in [Stream -> BOOLEAN]
    /\ snap \in [Stream -> SUBSET EventKey]
    /\ feed \in [Stream -> Seq(EventKey)]
    /\ sent \in [Stream -> Nat]
    /\ \A s \in Stream : sent[s] <= Len(feed[s])
    /\ failures \in 0..MaxFailures

\* However often an event is published, delivered and handled at once, a
\* stream gets it on its queue once (handler.py: broadcast only if created).
QueuedOnce ==
    \A s \in Stream : \A i, j \in 1..Len(feed[s]) : feed[s][i] = feed[s][j] => i = j

\* What a stream shows is in the audit trail: the next GET of the task, which
\* replaces the client's list, never takes an event back.
ShownIsRecorded ==
    \A s \in Stream : snap[s] \union Elements(feed[s]) \subseteq audit

\* Recorded events that stream s neither has nor will be given.
Missed(s) == audit \ (snap[s] \union Elements(feed[s])
                        \union {event[h] : h \in {g \in Handler : hpc[g] = "broadcast"}})

\* Once subscribed, a stream loses an event only if the delivery that recorded
\* it dies before it broadcasts: redelivery finds the row and stays silent.
LostOnlyToFailure ==
    [][\A s \in Stream :
          Subscribed(s) /\ Subscribed(s)' /\ ~(Missed(s)' \subseteq Missed(s))
            => failures' = failures + 1]_vars

\* An event the broker accepted gets its audit row, whatever deliveries fail.
AcceptedIsRecorded == \A k \in EventKey : k \in wire ~> k \in audit

\* No stream outlives its task: once the status stays terminal every stream
\* closes, even one that missed the last event.
SettledStreamCloses ==
    <>[]settled => \A s \in Stream : spc[s] # "off" ~> spc[s] = "closed"

\* Refinement: what each stream has been told live.
Told == [s \in Stream |-> {feed[s][i] : i \in 1..sent[s]}]

Feed == INSTANCE LiveFeed WITH told <- Told

\* Handler, broadcaster and streams together keep the promise of LiveFeed.
ImplementsFeed == Feed!FeedSpec
=============================================================================
