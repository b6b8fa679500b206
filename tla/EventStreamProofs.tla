------------------------- MODULE EventStreamProofs --------------------------
(***************************************************************************)
(* Proofs about EventStream, for any events, deliveries, streams and       *)
(* number of failures.                                                     *)
(***************************************************************************)
EXTENDS EventStream, TLAPS

\* A handler past Deliver has an event; the one about to commit holds its
\* key, nobody else does, and the key is held only while it has no row.
KeyHeld ==
    /\ \A h \in Handler : hpc[h] # "idle" => event[h] \in EventKey
    /\ \A h \in Handler : hpc[h] = "commit" => holder[event[h]] = h
    /\ \A k \in EventKey : holder[k] # NoHandler => k \notin audit

\* A handler about to broadcast has recorded its event, no other handler is
\* about to broadcast the same, and no stream has it on its queue.
BroadcastOnce ==
    /\ \A h \in Handler : hpc[h] = "broadcast" => event[h] \in audit
    /\ \A g, h \in Handler :
          hpc[g] = "broadcast" /\ hpc[h] = "broadcast" /\ event[g] = event[h] => g = h
    /\ \A h \in Handler, s \in Stream : hpc[h] = "broadcast" =>
          \A i \in 1..Len(feed[s]) : feed[s][i] # event[h]

\* Snapshots and queues show recorded events only.
Recorded ==
    /\ \A s \in Stream : snap[s] \subseteq audit
    /\ \A s \in Stream : \A i \in 1..Len(feed[s]) : feed[s][i] \in audit

StreamInv == TypeOK /\ KeyHeld /\ BroadcastOnce /\ Recorded /\ QueuedOnce

-----------------------------------------------------------------------------
\* The invariant holds before the first event.
LEMMA StreamInvInit == Init => StreamInv
<1> SUFFICES ASSUME Init PROVE StreamInv
  OBVIOUS
<1> USE StreamAssumption DEF Init
<1>1. \A s \in Stream : feed[s] = << >> /\ Len(feed[s]) = 0 /\ feed[s] \in Seq(EventKey)
  OBVIOUS
<1>2. TypeOK
  <2>1. feed \in [Stream -> Seq(EventKey)]
    BY <1>1
  <2>2. \A s \in Stream : sent[s] <= Len(feed[s])
    BY <1>1
  <2>3. failures \in 0..MaxFailures /\ holder \in [EventKey -> Handler \union {NoHandler}]
    OBVIOUS
  <2>4. hpc \in [Handler -> HandlerPcs] /\ event \in [Handler -> EventKey \union {NoKey}]
    BY DEF HandlerPcs
  <2>5. spc \in [Stream -> StreamPcs] /\ seen \in [Stream -> BOOLEAN]
    BY DEF StreamPcs
  <2>6. snap \in [Stream -> SUBSET EventKey] /\ sent \in [Stream -> Nat]
    OBVIOUS
  <2> QED BY <2>1, <2>2, <2>3, <2>4, <2>5, <2>6 DEF TypeOK
<1>3. KeyHeld /\ BroadcastOnce /\ Recorded /\ QueuedOnce
  BY <1>1 DEF KeyHeld, BroadcastOnce, Recorded, QueuedOnce
<1> QED BY <1>2, <1>3 DEF StreamInv

\* Steps that change neither the audit trail, the handlers nor the queues.
LEMMA QuietSteps ==
    ASSUME StreamInv, UNCHANGED <<audit, handlers, snap, feed>>, TypeOK'
    PROVE  StreamInv'
BY DEF StreamInv, KeyHeld, BroadcastOnce, Recorded, QueuedOnce, handlers

\* The task and the streams, Restart apart: types are kept ...
LEMMA OutsideType ==
    ASSUME TypeOK,
           \/ StatusWrite
           \/ \E k \in EventKey : Publish(k)
           \/ \E s \in Stream : ReadStatus(s) \/ Serve(s) \/ Disconnect(s)
    PROVE  TypeOK'
<1> USE DEF TypeOK, StreamAt, handlers, streams, StreamPcs
<1>1. CASE StatusWrite
  BY <1>1 DEF StatusWrite
<1>2. CASE \E k \in EventKey : Publish(k)
  BY <1>2 DEF Publish
<1>3. ASSUME NEW s \in Stream, ReadStatus(s) \/ Disconnect(s) \/ Subscribe(s)
             \/ CheckAfterEvent(s) \/ CheckWhenSilent(s)
      PROVE  TypeOK'
  BY <1>3 DEF ReadStatus, Disconnect, Subscribe, CheckAfterEvent, CheckWhenSilent
<1>4. ASSUME NEW s \in Stream, ReadAudit(s)
      PROVE  TypeOK'
  BY <1>4 DEF ReadAudit
<1>5. ASSUME NEW s \in Stream, Forward(s)
      PROVE  TypeOK'
  BY <1>5 DEF Forward
<1> QED BY <1>1, <1>2, <1>3, <1>4, <1>5 DEF Serve

\* ... and so is the invariant: the one that reads the audit trail shows it.
LEMMA OutsideInv ==
    ASSUME StreamInv,
           \/ StatusWrite
           \/ \E k \in EventKey : Publish(k)
           \/ \E s \in Stream : ReadStatus(s) \/ Serve(s) \/ Disconnect(s)
    PROVE  StreamInv'
<1>1. TypeOK'
  BY OutsideType DEF StreamInv
<1>2. ASSUME NEW s \in Stream, ReadAudit(s)
      PROVE  StreamInv'
  BY <1>1, <1>2 DEF ReadAudit, StreamAt, handlers, StreamInv, TypeOK, KeyHeld,
                    BroadcastOnce, Recorded, QueuedOnce
<1>3. ASSUME NEW s \in Stream, ReadStatus(s) \/ Disconnect(s) \/ Subscribe(s)
             \/ Forward(s) \/ CheckAfterEvent(s) \/ CheckWhenSilent(s)
      PROVE  StreamInv'
  BY <1>1, <1>3, QuietSteps
     DEF ReadStatus, Disconnect, Subscribe, Forward, CheckAfterEvent, CheckWhenSilent
<1>4. CASE StatusWrite \/ \E k \in EventKey : Publish(k)
  BY <1>1, <1>4, QuietSteps DEF StatusWrite, Publish, streams
<1> QED BY <1>2, <1>3, <1>4 DEF Serve

-----------------------------------------------------------------------------
\* A handler moves without touching rows or queues.
LEMMA HandlerMoves ==
    ASSUME NEW h \in Handler, StreamInv,
           \/ \E k \in EventKey : Deliver(h, k)
           \/ HandlerSelect(h)
           \/ Acknowledge(h)
    PROVE  StreamInv'
<1> USE DEF StreamInv, HandlerAt, streams
<1>1. CASE \E k \in EventKey : Deliver(h, k)
  <2>1. TypeOK'
    BY <1>1 DEF Deliver, TypeOK, HandlerPcs
  <2>2. KeyHeld'
    BY <1>1 DEF Deliver, TypeOK, KeyHeld
  <2>3. BroadcastOnce'
    BY <1>1 DEF Deliver, TypeOK, BroadcastOnce
  <2>4. (Recorded /\ QueuedOnce)'
    BY <1>1 DEF Deliver, Recorded, QueuedOnce
  <2> QED BY <2>1, <2>2, <2>3, <2>4
<1>2. CASE HandlerSelect(h)
  <2>1. TypeOK'
    BY <1>2 DEF HandlerSelect, TypeOK, HandlerPcs
  <2>2. KeyHeld'
    BY <1>2 DEF HandlerSelect, TypeOK, KeyHeld
  <2>3. BroadcastOnce'
    BY <1>2 DEF HandlerSelect, TypeOK, BroadcastOnce
  <2>4. (Recorded /\ QueuedOnce)'
    BY <1>2 DEF HandlerSelect, Recorded, QueuedOnce
  <2> QED BY <2>1, <2>2, <2>3, <2>4
<1>3. CASE Acknowledge(h)
  BY <1>3 DEF Acknowledge, TypeOK, HandlerPcs, KeyHeld, BroadcastOnce, Recorded, QueuedOnce
<1> QED BY <1>1, <1>2, <1>3

\* The INSERT takes a free key that has no row.
LEMMA InsertKeepsInv ==
    ASSUME NEW h \in Handler, StreamInv, HandlerInsert(h)
    PROVE  StreamInv'
<1> USE StreamAssumption DEF StreamInv, HandlerInsert, HandlerAt, streams
<1>1. event[h] \in EventKey
  BY DEF KeyHeld, TypeOK
<1>2. \E l \in {"commit", "idle"} : hpc' = [hpc EXCEPT ![h] = l]
  OBVIOUS
<1>3. TypeOK'
  <2>1. hpc' \in [Handler -> HandlerPcs]
    BY <1>2 DEF TypeOK, HandlerPcs
  <2>2. holder' \in [EventKey -> Handler \union {NoHandler}]
    BY DEF TypeOK
  <2> QED BY <2>1, <2>2 DEF TypeOK
<1>4. KeyHeld'
  BY <1>1 DEF KeyHeld, TypeOK
<1>5. BroadcastOnce'
  BY <1>2 DEF BroadcastOnce, TypeOK
<1>6. (Recorded /\ QueuedOnce)'
  BY DEF Recorded, QueuedOnce
<1> QED BY <1>3, <1>4, <1>5, <1>6

\* The COMMIT adds a row that no stream and no other handler has.
LEMMA CommitKeepsInv ==
    ASSUME NEW h \in Handler, StreamInv, HandlerCommit(h)
    PROVE  StreamInv'
<1> USE StreamAssumption DEF StreamInv, HandlerCommit, HandlerAt, streams
<1>1. event[h] \in EventKey \ audit
  BY DEF KeyHeld, TypeOK
<1>2. TypeOK'
  BY <1>1 DEF TypeOK, HandlerPcs
<1>3. KeyHeld'
  BY <1>1 DEF KeyHeld, TypeOK
<1>4. BroadcastOnce'
  BY <1>1 DEF BroadcastOnce, Recorded, TypeOK
<1>5. (Recorded /\ QueuedOnce)'
  BY <1>1 DEF Recorded, QueuedOnce, TypeOK
<1> QED BY <1>2, <1>3, <1>4, <1>5

\* The broadcast puts a recorded event on queues that do not have it.
LEMMA BroadcastKeepsInv ==
    ASSUME NEW h \in Handler, StreamInv, Broadcast(h)
    PROVE  StreamInv'
<1> USE DEF StreamInv, Broadcast, HandlerAt
<1>1. event[h] \in EventKey /\ event[h] \in audit
  BY DEF KeyHeld, BroadcastOnce, TypeOK
<1>2. ASSUME NEW s \in Stream
      PROVE  /\ feed[s] \in Seq(EventKey) /\ feed'[s] \in Seq(EventKey)
             /\ feed'[s] = feed[s] \/ feed'[s] = Append(feed[s], event[h])
             /\ Len(feed'[s]) >= Len(feed[s])
  BY <1>1 DEF TypeOK
<1>3. TypeOK'
  <2>1. feed' \in [Stream -> Seq(EventKey)]
    BY <1>1 DEF TypeOK
  <2>2. \A s \in Stream : sent'[s] <= Len(feed'[s])
    BY <1>2 DEF TypeOK
  <2> QED BY <2>1, <2>2 DEF TypeOK, HandlerPcs
<1>4. KeyHeld'
  BY <1>1 DEF KeyHeld, TypeOK
<1>5. BroadcastOnce'
  BY <1>1, <1>2 DEF BroadcastOnce, TypeOK
<1>6. Recorded'
  BY <1>1, <1>2 DEF Recorded, TypeOK
<1>7. QueuedOnce'
  <2> SUFFICES ASSUME NEW s \in Stream
               PROVE  \A i, j \in 1..Len(feed'[s]) : feed'[s][i] = feed'[s][j] => i = j
    BY DEF QueuedOnce
  <2>1. \A i \in 1..Len(feed[s]) : feed[s][i] # event[h]
    BY DEF BroadcastOnce
  <2> QED BY <1>1, <1>2, <2>1 DEF QueuedOnce
<1> QED BY <1>3, <1>4, <1>5, <1>6, <1>7

\* A failed delivery and a restart lose what was not committed, no more.
LEMMA FailureKeepsInv ==
    ASSUME StreamInv, Restart \/ \E h \in Handler : HandlerFails(h)
    PROVE  StreamInv'
<1> USE StreamAssumption DEF StreamInv
<1>1. CASE Restart
  <2>1. TypeOK'
    BY <1>1 DEF Restart, TypeOK, HandlerPcs, StreamPcs
  <2> QED BY <1>1, <2>1 DEF Restart, KeyHeld, BroadcastOnce, Recorded, QueuedOnce, TypeOK
<1>2. ASSUME NEW h \in Handler, HandlerFails(h)
      PROVE  StreamInv'
  <2> USE <1>2 DEF HandlerFails, Released, streams
  <2>1. event[h] \in EventKey /\ (hpc[h] = "commit" => event[h] \notin audit /\ holder[event[h]] = h)
    BY DEF KeyHeld, TypeOK
  <2>2. TypeOK'
    BY <2>1 DEF TypeOK, HandlerPcs
  <2>3. KeyHeld'
    BY <2>1 DEF KeyHeld, TypeOK
  <2>4. (BroadcastOnce /\ Recorded /\ QueuedOnce)'
    BY <2>1 DEF BroadcastOnce, Recorded, QueuedOnce, TypeOK
  <2> QED BY <2>2, <2>3, <2>4
<1> QED BY <1>1, <1>2

\* A stuttering step changes nothing the invariant speaks of.
LEMMA StutterKeepsInv == StreamInv /\ UNCHANGED vars => StreamInv'
BY QuietSteps DEF vars, streams, StreamInv, TypeOK, handlers

\* StreamInv is inductive.
LEMMA StreamInvNext == StreamInv /\ [Next]_vars => StreamInv'
<1> SUFFICES ASSUME StreamInv, [Next]_vars PROVE StreamInv'
  OBVIOUS
<1>1. ASSUME NEW h \in Handler, Handle(h) \/ \E k \in EventKey : Deliver(h, k)
      PROVE  StreamInv'
  BY <1>1, HandlerMoves, InsertKeepsInv, CommitKeepsInv, BroadcastKeepsInv DEF Handle
<1>2. CASE Restart \/ \E h \in Handler : HandlerFails(h)
  BY <1>2, FailureKeepsInv
<1>3. CASE \/ StatusWrite
           \/ \E k \in EventKey : Publish(k)
           \/ \E s \in Stream : ReadStatus(s) \/ Serve(s) \/ Disconnect(s)
  BY <1>3, OutsideInv
<1>4. CASE UNCHANGED vars
  BY <1>4, StutterKeepsInv
<1> QED BY <1>1, <1>2, <1>3, <1>4 DEF Next

\* StreamInv holds in every reachable state.
THEOREM StreamInvariant == Spec => []StreamInv
BY StreamInvInit, StreamInvNext, PTL DEF Spec

\* Every variable keeps its type, and no stream forwards more than it got.
THEOREM StreamTypeCorrect == Spec => []TypeOK
BY StreamInvariant, PTL DEF StreamInv

\* A stream gets an event once, however often it is published, delivered,
\* retried and handled by several deliveries at once.
THEOREM EventsAreQueuedOnce == Spec => []QueuedOnce
BY StreamInvariant, PTL DEF StreamInv

\* A stream shows recorded events only.
THEOREM ShownEventsAreRecorded == Spec => []ShownIsRecorded
<1>1. StreamInv => ShownIsRecorded
  BY DEF StreamInv, Recorded, ShownIsRecorded, Elements
<1> QED BY StreamInvariant, <1>1, PTL

-----------------------------------------------------------------------------
\* An event is missed when it is recorded, not shown, and nobody is about to
\* broadcast it; the same said of the next state.
LEMMA MissedMeans ==
    ASSUME NEW s \in Stream, NEW k
    PROVE  /\ k \in Missed(s) <=>
                /\ k \in audit /\ k \notin snap[s]
                /\ \A i \in 1..Len(feed[s]) : feed[s][i] # k
                /\ \A h \in Handler : hpc[h] = "broadcast" => event[h] # k
           /\ k \in Missed(s)' <=>
                /\ k \in audit' /\ k \notin snap'[s]
                /\ \A i \in 1..Len(feed'[s]) : feed'[s][i] # k
                /\ \A h \in Handler : hpc'[h] = "broadcast" => event'[h] # k
BY DEF Missed, Elements

\* No step but a failure makes a subscribed stream miss an event.
LEMMA NothingMissed ==
    ASSUME StreamInv, [Next]_vars, NEW s \in Stream, Subscribed(s), Subscribed(s)',
           NEW k \in Missed(s)', k \notin Missed(s)
    PROVE  failures' = failures + 1
<1> USE MissedMeans
<1>1. ASSUME UNCHANGED <<audit, hpc, event, feed>>, snap'[s] = snap[s]
      PROVE  FALSE
  BY <1>1
<1>2. CASE UNCHANGED vars \/ StatusWrite \/ \E e \in EventKey : Publish(e)
  BY <1>1, <1>2 DEF vars, handlers, streams, StatusWrite, Publish
<1>3. ASSUME NEW t \in Stream, ReadStatus(t) \/ Serve(t) \/ Disconnect(t)
      PROVE  FALSE
  <2>1. snap'[s] = snap[s]
    BY <1>3 DEF ReadStatus, Serve, Disconnect, ReadAudit, Subscribe, Forward, CheckAfterEvent,
                CheckWhenSilent, StreamAt, Subscribed, StreamInv, TypeOK
  <2> QED BY <1>1, <1>3, <2>1 DEF ReadStatus, Serve, Disconnect, ReadAudit, Subscribe, Forward,
                                  CheckAfterEvent, CheckWhenSilent, handlers
<1>4. ASSUME NEW h \in Handler,
             HandlerSelect(h) \/ HandlerInsert(h) \/ Acknowledge(h) \/ \E e \in EventKey : Deliver(h, e)
      PROVE  FALSE
  <2>1. UNCHANGED <<audit, snap, feed>>
    BY <1>4 DEF HandlerSelect, HandlerInsert, Acknowledge, Deliver, streams
  <2>2. \A g \in Handler : hpc[g] = "broadcast" => hpc'[g] = "broadcast" /\ event'[g] = event[g]
    BY <1>4 DEF HandlerSelect, HandlerInsert, Acknowledge, Deliver, HandlerAt, StreamInv, TypeOK
  <2> QED BY <2>1, <2>2
<1>5. ASSUME NEW h \in Handler, HandlerCommit(h)
      PROVE  FALSE
  BY <1>5 DEF HandlerCommit, HandlerAt, streams, StreamInv, TypeOK
<1>6. ASSUME NEW h \in Handler, Broadcast(h)
      PROVE  FALSE
  <2>1. feed[s] \in Seq(EventKey) /\ event[h] \in EventKey
    BY <1>6 DEF StreamInv, TypeOK, KeyHeld, Broadcast, HandlerAt
  <2>2. feed'[s] = Append(feed[s], event[h])
    BY <1>6 DEF Broadcast
  <2>3. event[h] # k
    BY <2>1, <2>2
  <2>4. \A i \in 1..Len(feed[s]) : feed[s][i] # k
    BY <2>1, <2>2
  <2> QED BY <1>6, <2>3, <2>4 DEF Broadcast, HandlerAt, StreamInv, TypeOK
<1>7. CASE Restart \/ \E h \in Handler : HandlerFails(h)
  BY <1>7 DEF Restart, HandlerFails
<1> QED BY <1>2, <1>3, <1>4, <1>5, <1>6, <1>7 DEF Next, Handle

\* A subscribed stream loses an event only when a delivery fails between
\* its commit and its broadcast.
THEOREM LossNeedsFailure == Spec => LostOnlyToFailure
<1>1. StreamInv /\ [Next]_vars =>
        [\A s \in Stream : Subscribed(s) /\ Subscribed(s)' /\ ~(Missed(s)' \subseteq Missed(s))
            => failures' = failures + 1]_vars
  BY NothingMissed
<1> QED BY StreamInvariant, <1>1, PTL DEF Spec, LostOnlyToFailure

-----------------------------------------------------------------------------
\* Refinement of LiveFeed

\* Steps that record nothing and put nothing out are invisible.
LEMMA InvisibleStep ==
    ASSUME StreamInv, audit' = audit, sent' = sent,
           \A s \in Stream : \A i \in 1..sent[s] : feed'[s][i] = feed[s][i]
    PROVE  UNCHANGED Feed!feedVars
BY DEF Feed!feedVars, Told

\* Recording is RecordEvent.
LEMMA RecordingRefines ==
    ASSUME StreamInv, NEW h \in Handler, hpc[h] = "commit",
           audit' = audit \union {event[h]}, sent' = sent, feed' = feed
    PROVE  Feed!FeedNext
<1>1. event[h] \in EventKey \ audit
  BY StreamAssumption DEF StreamInv, TypeOK, KeyHeld
<1>2. Told' = Told
  BY DEF Told
<1> QED BY <1>1, <1>2 DEF Feed!RecordEvent, Feed!FeedNext

\* Forwarding is Tell.
LEMMA ForwardRefines ==
    ASSUME StreamInv, NEW s \in Stream, Forward(s)
    PROVE  Feed!FeedNext
<1> DEFINE n == sent[s] + 1
           k == feed[s][n]
<1>1. /\ sent[s] \in Nat /\ n \in 1..Len(feed[s]) /\ k \in EventKey
      /\ sent' = [sent EXCEPT ![s] = n] /\ sent'[s] = n /\ UNCHANGED <<audit, feed>>
  BY DEF Forward, StreamInv, TypeOK, handlers
<1> HIDE DEF n, k
<1>2. k \in audit
  BY <1>1 DEF StreamInv, Recorded, k
<1>3. k \notin Told[s]
  <2> SUFFICES ASSUME NEW i \in 1..sent[s], feed[s][i] = k PROVE FALSE
    BY DEF Told
  <2>1. i \in 1..Len(feed[s]) /\ i # n
    BY <1>1 DEF n
  <2> QED BY <1>1, <2>1 DEF StreamInv, QueuedOnce, k
<1>4. Told' = [Told EXCEPT ![s] = @ \union {k}]
  <2>1. ASSUME NEW t \in Stream
        PROVE  {feed[t][i] : i \in 1..sent'[t]} = IF t = s THEN Told[s] \union {k} ELSE Told[t]
    <3>1. CASE t = s
      <4>1. 1..n = (1..sent[s]) \union {n}
        BY <1>1 DEF n
      <4> QED BY <1>1, <3>1, <4>1 DEF Told, k
    <3>2. CASE t # s
      BY <1>1, <3>2 DEF Told, StreamInv, TypeOK
    <3> QED BY <3>1, <3>2
  <2>2. Told' = [t \in Stream |-> {feed[t][i] : i \in 1..sent'[t]}]
    BY <1>1 DEF Told
  <2>3. Told' = [t \in Stream |-> IF t = s THEN Told[s] \union {k} ELSE Told[t]]
    BY <2>1, <2>2
  <2>4. Told = [t \in Stream |-> Told[t]]
    BY DEF Told
  <2> QED BY <2>3, <2>4
<1>5. Feed!Tell(s, k)
  BY <1>1, <1>2, <1>3, <1>4 DEF Feed!Tell
<1> QED BY <1>1, <1>5 DEF Feed!FeedNext

\* Every step is a step of LiveFeed or invisible.
LEMMA StepRefines ==
    ASSUME StreamInv, [Next]_vars
    PROVE  [Feed!FeedNext]_(Feed!feedVars)
<1>1. ASSUME UNCHANGED <<audit, sent, feed>>
      PROVE  UNCHANGED Feed!feedVars
  BY <1>1, InvisibleStep
<1>2. CASE UNCHANGED vars \/ StatusWrite \/ Restart \/ \E e \in EventKey : Publish(e)
  BY <1>1, <1>2 DEF vars, streams, StatusWrite, Restart, Publish
<1>3. ASSUME NEW s \in Stream, ReadStatus(s) \/ Serve(s) \/ Disconnect(s)
      PROVE  [Feed!FeedNext]_(Feed!feedVars)
  BY <1>1, <1>3, ForwardRefines
     DEF ReadStatus, Serve, Disconnect, ReadAudit, Subscribe, CheckAfterEvent, CheckWhenSilent
<1>4. ASSUME NEW h \in Handler,
             HandlerSelect(h) \/ HandlerInsert(h) \/ Acknowledge(h) \/ \E e \in EventKey : Deliver(h, e)
      PROVE  UNCHANGED Feed!feedVars
  BY <1>1, <1>4 DEF HandlerSelect, HandlerInsert, Acknowledge, Deliver, streams
<1>5. ASSUME NEW h \in Handler, HandlerCommit(h) \/ HandlerFails(h)
      PROVE  [Feed!FeedNext]_(Feed!feedVars)
  BY <1>1, <1>5, RecordingRefines DEF HandlerCommit, HandlerFails, HandlerAt, streams
<1>6. ASSUME NEW h \in Handler, Broadcast(h)
      PROVE  UNCHANGED Feed!feedVars
  <2>1. ASSUME NEW s \in Stream, NEW i \in 1..sent[s]
        PROVE  feed'[s][i] = feed[s][i]
    <3>1. feed[s] \in Seq(EventKey) /\ i \in 1..Len(feed[s]) /\ event[h] \in EventKey
      BY <1>6 DEF Broadcast, HandlerAt, StreamInv, TypeOK, KeyHeld
    <3> QED BY <1>6, <3>1 DEF Broadcast
  <2> QED BY <1>6, <2>1, InvisibleStep DEF Broadcast
<1> QED BY <1>2, <1>3, <1>4, <1>5, <1>6 DEF Next, Handle

\* The whole path from the broker to the streams implements LiveFeed.
THEOREM StreamImplementsFeed == Spec => ImplementsFeed
<1>1. Init => Feed!FeedInit
  <2> SUFFICES ASSUME Init PROVE Feed!FeedInit
    OBVIOUS
  <2>1. Told = [s \in Stream |-> {}]
    <3>1. \A s \in Stream : 1..sent[s] = {}
      BY DEF Init
    <3>2. \A s \in Stream : {feed[s][i] : i \in 1..sent[s]} = {}
      BY <3>1
    <3> QED BY <3>2 DEF Told
  <2> QED BY <2>1 DEF Init, Feed!FeedInit
<1> QED BY <1>1, StepRefines, StreamInvariant, PTL DEF Spec, ImplementsFeed, Feed!FeedSpec
=============================================================================
