-------------------------- MODULE SseClientProofs ---------------------------
(***************************************************************************)
(* Proofs about SseClient, for any number of events, reconnects, failing   *)
(* GETs and clicks.                                                        *)
(***************************************************************************)
EXTENDS SseClient, TLAPS

\* The read before a reconnect is under way while the page reconnects.
ReadsBeforeReconnect == reconnecting <=> call[On("error")] # NoCall

\* The counter passes its limit only when polling takes over.
CountBounded ==
    es \/ reconnecting \/ retryTimer \/ call[On("load")] # NoCall
        => reconnectCount <= MaxReconnects

\* A live event on the stream is one that the task has.
WireHasEvents ==
    \A i \in 1..Len(wire) : wire[i].kind = "task_event" => wire[i].n \in Event

ClientInv ==
    /\ TypeOK /\ ReadsBeforeReconnect /\ OneChannel /\ CountBounded
    /\ WireHasEvents /\ LiveEntriesAwaitRefresh

-----------------------------------------------------------------------------
LEMMA CallersDiffer ==
    /\ On("load") \in Caller /\ On("error") \in Caller /\ On("close") \in Caller
    /\ On("poll") \in Caller /\ On("user") \in Caller
    /\ \A e \in Event : OnEvent(e) \in Caller
    /\ On("load") # On("error") /\ On("load") # On("close") /\ On("load") # On("poll")
    /\ On("load") # On("user") /\ On("error") # On("close") /\ On("error") # On("poll")
    /\ On("error") # On("user")
    /\ \A e \in Event : \A h : h # "task_event" => OnEvent(e) # On(h)
    /\ \A e, f \in Event : OnEvent(e) = OnEvent(f) => e = f
BY DEF Caller, On, OnEvent

LEMMA EventRange == Event \subseteq 1..MaxEvents /\ Event \subseteq 0..MaxEvents
BY ClientAssumption DEF Event

LEMMA ShortWires ==
    /\ <<>> \in Seq(Message) /\ Len(<<>>) = 0
    /\ \A m \in Message : /\ <<m>> \in Seq(Message)
                          /\ Len(<<m>>) = 1 /\ <<m>>[1] = m
    /\ \A m, n \in Message : /\ <<m, n>> \in Seq(Message)
                             /\ Len(<<m, n>>) = 2 /\ <<m, n>>[1] = m /\ <<m, n>>[2] = n
OBVIOUS

LEMMA EmptyWire == wire' = <<>> => wire' \in Seq(Message) /\ WireHasEvents'
BY ShortWires DEF WireHasEvents

-----------------------------------------------------------------------------
LEMMA ClientInit == Init => ClientInv
<1> SUFFICES ASSUME Init PROVE ClientInv
  OBVIOUS
<1> USE ClientAssumption, CallAssumption, CallersDiffer, ShortWires DEF Init
<1>1. TypeOK
  <2>1. call \in [Caller -> Detail \union {NoCall, Asked, Failed}]
    OBVIOUS
  <2>2. reconnectCount \in 0..MaxReconnects + 1
    OBVIOUS
  <2>3. /\ {dirty, es, reconnecting, retryTimer, pollTimer, closedGracefully, cancelled, overtaken}
              \subseteq BOOLEAN
        /\ live \subseteq Event /\ lost \subseteq Caller
    OBVIOUS
  <2>4. 0 \in 0..MaxEvents /\ 0 \in 0..MaxFailures /\ 0 \in 0..MaxClicks
    OBVIOUS
  <2>5. <<>> \in Seq(Message)
    OBVIOUS
  <2> HIDE CallersDiffer, ShortWires, ClientAssumption, CallAssumption
  <2> QED BY <2>5, <2>1, <2>2, <2>3, <2>4 DEF TypeOK
<1>2. ReadsBeforeReconnect /\ CountBounded /\ WireHasEvents /\ LiveEntriesAwaitRefresh
  BY DEF ReadsBeforeReconnect, CountBounded, WireHasEvents, LiveEntriesAwaitRefresh
<1>3. OneChannel
  BY DEF OneChannel, B
<1> QED BY <1>1, <1>2, <1>3 DEF ClientInv

\* The task and the server's end of the stream.
LEMMA ServerKeepsInv ==
    ASSUME ClientInv, Settle \/ Record \/ Snapshot \/ Subscribe \/ CloseStream
    PROVE  ClientInv'
<1> USE ClientAssumption, EventRange, ShortWires DEF ClientInv, server, stream, shown, control, bounds
<1>0. UNCHANGED <<call, shown, mode, error, control, lost, bounds>>
  BY DEF Settle, Record, Snapshot, Subscribe, CloseStream
<1>1. /\ wire' \in Seq(Message)
      /\ WireHasEvents'
  <2>1. CASE Settle \/ Subscribe
    BY <2>1 DEF Settle, Subscribe, TypeOK, WireHasEvents
  <2>2. CASE Record
    <3>1. trail + 1 \in Event
      BY <2>2 DEF Record, TypeOK, Event
    <3>2. Msg("task_event", trail + 1) \in Message
      BY <3>1 DEF Msg, Message
    <3>3. CASE UNCHANGED wire
      BY <3>3 DEF TypeOK, WireHasEvents
    <3>4. CASE wire' = Append(wire, Msg("task_event", trail + 1))
      <4>1. wire' \in Seq(Message) /\ Len(wire') = Len(wire) + 1 /\ Len(wire) \in Nat
        BY <3>2, <3>4 DEF TypeOK
      <4>2. /\ \A i \in 1..Len(wire) : wire'[i] = wire[i]
            /\ wire'[Len(wire) + 1].n = trail + 1
        BY <3>4 DEF TypeOK, Msg
      <4>3. \A i \in 1..Len(wire') : i \in 1..Len(wire) \/ i = Len(wire) + 1
        BY <4>1
      <4> QED BY <3>1, <4>1, <4>2, <4>3 DEF WireHasEvents
    <3> QED BY <2>2, <3>3, <3>4 DEF Record
  <2>3. CASE Snapshot
    <3>1. Msg("snapshot", trail) \in Message /\ Msg("close", 0) \in Message
      BY DEF Msg, Message, TypeOK
    <3>2. CASE settled
      <4>1. wire' = <<Msg("snapshot", trail), Msg("close", 0)>>
        BY <2>3, <3>2 DEF Snapshot
      <4>2. \A i \in 1..Len(wire') : wire'[i].kind # "task_event"
        BY <4>1, <3>1 DEF Msg
      <4> QED BY <3>1, <4>1, <4>2 DEF WireHasEvents
    <3>3. CASE ~settled
      <4>1. wire' = <<Msg("snapshot", trail)>>
        BY <2>3, <3>3 DEF Snapshot
      <4>2. \A i \in 1..Len(wire') : wire'[i].kind # "task_event"
        BY <4>1, <3>1 DEF Msg
      <4> QED BY <3>1, <4>1, <4>2 DEF WireHasEvents
    <3> QED BY <3>2, <3>3
  <2>4. CASE CloseStream
    <3>1. Msg("close", 0) \in Message
      BY DEF Msg, Message
    <3> QED BY <2>4, <3>1 DEF CloseStream, TypeOK, WireHasEvents, Msg
  <2> QED BY <2>1, <2>2, <2>3, <2>4
<1>2. /\ settled' \in BOOLEAN /\ trail' \in 0..MaxEvents /\ due' \in 0..MaxEvents
      /\ conn' \in {"none", "asked", "snapshot", "subscribed", "ended"}
  <2>1. CASE Settle \/ Subscribe
    BY <2>1 DEF Settle, Subscribe, TypeOK
  <2>2. CASE Record
    BY <2>2 DEF Record, TypeOK
  <2>3. CASE Snapshot \/ CloseStream
    BY <2>3 DEF Snapshot, CloseStream, TypeOK
  <2> QED BY <2>1, <2>2, <2>3
<1>3. TypeOK'
  BY <1>0, <1>1, <1>2 DEF TypeOK
<1>4. ReadsBeforeReconnect' /\ OneChannel' /\ CountBounded' /\ LiveEntriesAwaitRefresh'
  BY <1>0 DEF ReadsBeforeReconnect, OneChannel, CountBounded, LiveEntriesAwaitRefresh, B
<1> QED BY <1>1, <1>3, <1>4

\* What becomes of the GETs on their way.
LEMMA CallsKeepInv ==
    ASSUME ClientInv, NEW c \in Caller, ServeCall(c) \/ CallFails(c)
    PROVE  ClientInv'
<1> USE ClientAssumption, CallAssumption DEF ClientInv, server, stream, shown, control, bounds
<1>1. [settled |-> settled, rows |-> trail] \in Detail
  BY DEF TypeOK, Detail
<1>2. /\ call' \in [Caller -> Detail \union {NoCall, Asked, Failed}]
      /\ \A d \in Caller : call'[d] # NoCall <=> call[d] # NoCall
  BY <1>1 DEF ServeCall, CallFails, TypeOK
<1>3. /\ UNCHANGED <<server, stream, shown, mode, error, control, lost, clicks>>
      /\ failures' \in 0..MaxFailures
  BY DEF ServeCall, CallFails, TypeOK
<1>4. TypeOK'
  BY <1>2, <1>3 DEF TypeOK
<1>5. ReadsBeforeReconnect' /\ OneChannel' /\ CountBounded' /\ WireHasEvents'
  BY <1>2, <1>3, CallersDiffer DEF ReadsBeforeReconnect, OneChannel, CountBounded, WireHasEvents, B
<1>6. LiveEntriesAwaitRefresh'
  BY <1>2, <1>3, CallersDiffer DEF LiveEntriesAwaitRefresh, TypeOK
<1> QED BY <1>4, <1>5, <1>6

\* An answer shown is a detail, and leaves no live entry.
LEMMA ShowTypes ==
    ASSUME NEW d \in Detail, Show(d), overtaken \in BOOLEAN
    PROVE  /\ task' \in Detail /\ rows' \in 0..MaxEvents /\ live' = {}
           /\ dirty' \in BOOLEAN /\ overtaken' \in BOOLEAN
BY DEF Show, Detail

LEMMA LoadKeepsInv ==
    ASSUME ClientInv, LoadAnswered \/ LoadFailed
    PROVE  ClientInv'
<1> USE ClientAssumption, CallAssumption, CallersDiffer, ShortWires
    DEF ClientInv, server, stream, shown, control, bounds
<1>1. CASE LoadAnswered
  <2>1. /\ task' \in Detail /\ rows' \in 0..MaxEvents /\ live' = {}
        /\ dirty' \in BOOLEAN /\ overtaken' \in BOOLEAN
    BY <1>1, ShowTypes DEF LoadAnswered, TypeOK
  <2>2. /\ call' = [call EXCEPT ![On("load")] = NoCall]
        /\ call[On("load")] # NoCall
        /\ UNCHANGED <<server, error, reconnecting, reconnectCount, retryTimer, pollTimer,
                       closedGracefully, cancelled, lost, bounds>>
        /\ es' \in BOOLEAN /\ mode' \in {"idle", "sse", "polling"}
        /\ conn' \in {"none", "asked", "snapshot", "subscribed", "ended"}
        /\ wire' \in Seq(Message) /\ WireHasEvents'
    <3>1. CASE call[On("load")].settled
      BY <1>1, <3>1 DEF LoadAnswered, NoConnect, TypeOK, WireHasEvents
    <3>2. CASE ~call[On("load")].settled
      BY <1>1, <3>2, EmptyWire DEF LoadAnswered, ConnectSse, TypeOK
    <3> QED BY <3>1, <3>2
  <2>3. TypeOK'
    BY <2>1, <2>2 DEF TypeOK
  <2>4. /\ ~es /\ ~reconnecting /\ ~retryTimer /\ ~pollTimer
        /\ ~cancelled /\ reconnectCount <= MaxReconnects
    BY <1>1, <2>2 DEF LoadAnswered, OneChannel, B, CountBounded
  <2>5. ReadsBeforeReconnect' /\ OneChannel' /\ CountBounded' /\ LiveEntriesAwaitRefresh'
    BY <2>1, <2>2, <2>4
       DEF ReadsBeforeReconnect, OneChannel, CountBounded, LiveEntriesAwaitRefresh, B, TypeOK
  <2> QED BY <2>2, <2>3, <2>5
<1>2. CASE LoadFailed
  <2>1. TypeOK'
    BY <1>2 DEF LoadFailed, TypeOK
  <2>2. ReadsBeforeReconnect' /\ OneChannel' /\ CountBounded' /\ WireHasEvents'
    BY <1>2 DEF LoadFailed, TypeOK, ReadsBeforeReconnect, OneChannel, CountBounded, WireHasEvents, B
  <2>3. LiveEntriesAwaitRefresh'
    BY <1>2 DEF LoadFailed, TypeOK, LiveEntriesAwaitRefresh
  <2> QED BY <2>1, <2>2, <2>3
<1> QED BY <1>1, <1>2

LEMMA RefreshKeepsInv ==
    ASSUME ClientInv, NEW c \in Caller,
           RefreshAnswered(c) \/ RefreshFailed(c) \/ AnswerAfterUnmount(c)
    PROVE  ClientInv'
<1> USE ClientAssumption, CallAssumption, CallersDiffer
    DEF ClientInv, server, stream, shown, control, bounds
<1>1. CASE RefreshAnswered(c)
  <2>1. /\ task' \in Detail /\ rows' \in 0..MaxEvents /\ live' = {}
        /\ dirty' \in BOOLEAN /\ overtaken' \in BOOLEAN
    BY <1>1, ShowTypes DEF RefreshAnswered, TypeOK
  <2>2. /\ call' = [call EXCEPT ![c] = NoCall]
        /\ c # On("load") /\ c # On("error")
        /\ UNCHANGED <<server, stream, mode, error, control, lost, bounds>>
    BY <1>1 DEF RefreshAnswered
  <2>3. TypeOK'
    BY <2>1, <2>2 DEF TypeOK
  <2>4. /\ ReadsBeforeReconnect' /\ OneChannel' /\ CountBounded' /\ WireHasEvents'
        /\ LiveEntriesAwaitRefresh'
    BY <2>1, <2>2 DEF TypeOK, ReadsBeforeReconnect, OneChannel, CountBounded, WireHasEvents, B,
                      LiveEntriesAwaitRefresh
  <2> QED BY <2>3, <2>4
<1>2. CASE RefreshFailed(c)
  <2>1. TypeOK'
    BY <1>2 DEF RefreshFailed, TypeOK
  <2>2. ReadsBeforeReconnect' /\ OneChannel' /\ CountBounded' /\ WireHasEvents'
    BY <1>2 DEF RefreshFailed, TypeOK, ReadsBeforeReconnect, OneChannel, CountBounded,
                WireHasEvents, B
  <2>3. LiveEntriesAwaitRefresh'
    BY <1>2 DEF RefreshFailed, TypeOK, LiveEntriesAwaitRefresh
  <2> QED BY <2>1, <2>2, <2>3
<1>3. CASE AnswerAfterUnmount(c)
  <2>1. TypeOK'
    BY <1>3 DEF AnswerAfterUnmount, TypeOK
  <2>2. ReadsBeforeReconnect'
    BY <1>3 DEF AnswerAfterUnmount, TypeOK, ReadsBeforeReconnect
  <2>3. OneChannel'
    BY <1>3 DEF AnswerAfterUnmount, TypeOK, OneChannel, B
  <2>4. CountBounded' /\ WireHasEvents'
    BY <1>3 DEF AnswerAfterUnmount, TypeOK, CountBounded, WireHasEvents
  <2>5. LiveEntriesAwaitRefresh'
    BY <1>3 DEF AnswerAfterUnmount, LiveEntriesAwaitRefresh
  <2> QED BY <2>1, <2>2, <2>3, <2>4, <2>5
<1> QED BY <1>1, <1>2, <1>3

\* A message leaves the wire for its listener.
LEMMA ReceiveTypes ==
    ASSUME TypeOK, WireHasEvents, NEW kind, Receive(kind)
    PROVE  /\ es /\ Head(wire) \in Message
           /\ kind = "task_event" => Head(wire).n \in Event
           /\ wire' \in Seq(Message) /\ WireHasEvents'
<1>1. Len(wire) > 0 /\ Head(wire) = wire[1] /\ wire' = Tail(wire)
  BY DEF TypeOK, Receive
<1>2. /\ Len(Tail(wire)) = Len(wire) - 1
      /\ \A i \in 1..Len(Tail(wire)) : Tail(wire)[i] = wire[i + 1]
  BY <1>1 DEF TypeOK
<1> QED BY <1>1, <1>2 DEF TypeOK, Receive, WireHasEvents

LEMMA StreamKeepsInv ==
    ASSUME ClientInv, OnSnapshot \/ OnTaskEvent \/ OnClose
    PROVE  ClientInv'
<1> USE ClientAssumption, CallAssumption, CallersDiffer, EventRange
    DEF ClientInv, server, stream, shown, control, bounds
<1>1. CASE OnSnapshot
  <2>1. es /\ Head(wire).n \in 0..MaxEvents /\ wire' \in Seq(Message) /\ WireHasEvents'
    BY <1>1, ReceiveTypes DEF OnSnapshot, Message
  <2>2. TypeOK'
    BY <1>1, <2>1 DEF OnSnapshot, TypeOK
  <2>3. ReadsBeforeReconnect' /\ OneChannel' /\ CountBounded' /\ LiveEntriesAwaitRefresh'
    BY <1>1 DEF OnSnapshot, ReadsBeforeReconnect, OneChannel, CountBounded,
                LiveEntriesAwaitRefresh, B
  <2> QED BY <2>1, <2>2, <2>3
<1>2. CASE OnTaskEvent
  <2>1. es /\ Head(wire).n \in Event /\ wire' \in Seq(Message) /\ WireHasEvents'
    BY <1>2, ReceiveTypes DEF OnTaskEvent
  <2>2. TypeOK'
    <3>1. call' \in [Caller -> Detail \union {NoCall, Asked, Failed}]
      BY <1>2 DEF OnTaskEvent, TypeOK
    <3>2. live' \subseteq Event
      BY <1>2, <2>1 DEF OnTaskEvent, TypeOK
    <3>3. reconnectCount' \in 0..MaxReconnects + 1
      BY <1>2 DEF OnTaskEvent
    <3> HIDE CallersDiffer, CallAssumption
    <3> QED BY <1>2, <2>1, <3>1, <3>2, <3>3 DEF OnTaskEvent, TypeOK
  <2>3. /\ call'[On("load")] = call[On("load")]
        /\ call'[On("error")] = call[On("error")]
        /\ call'[OnEvent(Head(wire).n)] = Asked
        /\ \A e \in Event : call[OnEvent(e)] # NoCall => call'[OnEvent(e)] # NoCall
    <3>1. /\ call' = [call EXCEPT ![OnEvent(Head(wire).n)] = Asked]
          /\ OnEvent(Head(wire).n) \in Caller /\ call \in [Caller -> Detail \union {NoCall, Asked, Failed}]
      BY <1>2, <2>1 DEF OnTaskEvent, TypeOK
    <3>2. OnEvent(Head(wire).n) # On("load") /\ OnEvent(Head(wire).n) # On("error")
      BY <2>1
    <3> HIDE DEF TypeOK
    <3> QED BY <3>1, <3>2
  <2>4. ReadsBeforeReconnect' /\ OneChannel' /\ CountBounded'
    BY <1>2, <2>3 DEF OnTaskEvent, ReadsBeforeReconnect, OneChannel, CountBounded, B
  <2>5. LiveEntriesAwaitRefresh'
    BY <1>2, <2>3 DEF OnTaskEvent, LiveEntriesAwaitRefresh, TypeOK
  <2> QED BY <2>1, <2>2, <2>4, <2>5
<1>3. CASE OnClose
  <2>1. es /\ wire' \in Seq(Message) /\ WireHasEvents'
    BY <1>3, ReceiveTypes DEF OnClose
  <2>2. TypeOK'
    BY <1>3, <2>1 DEF OnClose, TypeOK
  <2>3. ReadsBeforeReconnect' /\ OneChannel' /\ CountBounded'
    BY <1>3, <2>1 DEF OnClose, TypeOK, ReadsBeforeReconnect, OneChannel, CountBounded, B
  <2>4. LiveEntriesAwaitRefresh'
    BY <1>3 DEF OnClose, TypeOK, LiveEntriesAwaitRefresh
  <2> QED BY <2>1, <2>2, <2>3, <2>4
<1> QED BY <1>1, <1>2, <1>3

LEMMA ErrorKeepsInv ==
    ASSUME ClientInv, OnError \/ GiveUpSettled \/ TryAgain \/ RetryTimer
    PROVE  ClientInv'
<1> USE ClientAssumption, CallAssumption, CallersDiffer, ShortWires
    DEF ClientInv, server, stream, shown, control, bounds
<1>1. CASE OnError
  <2>1. TypeOK'
    BY <1>1 DEF OnError, TypeOK
  <2>2. ReadsBeforeReconnect' /\ OneChannel' /\ CountBounded' /\ WireHasEvents'
    BY <1>1 DEF OnError, TypeOK, ReadsBeforeReconnect, OneChannel, CountBounded, WireHasEvents, B
  <2>3. LiveEntriesAwaitRefresh'
    BY <1>1 DEF OnError, TypeOK, LiveEntriesAwaitRefresh
  <2> QED BY <2>1, <2>2, <2>3
<1>2. CASE GiveUpSettled
  <2>1. /\ task' \in Detail /\ rows' \in 0..MaxEvents /\ live' = {}
        /\ dirty' \in BOOLEAN /\ overtaken' \in BOOLEAN
    BY <1>2, ShowTypes DEF GiveUpSettled, TypeOK
  <2>2. TypeOK'
    BY <1>2, <2>1 DEF GiveUpSettled, TypeOK
  <2>3. ReadsBeforeReconnect' /\ OneChannel' /\ CountBounded' /\ WireHasEvents'
    BY <1>2 DEF GiveUpSettled, TypeOK, ReadsBeforeReconnect, OneChannel, CountBounded,
                WireHasEvents, B
  <2>4. LiveEntriesAwaitRefresh'
    BY <2>1 DEF LiveEntriesAwaitRefresh
  <2> QED BY <2>2, <2>3, <2>4
<1>3. CASE TryAgain
  <2>1. /\ task' \in Detail \union {NoTask} /\ rows' \in 0..MaxEvents /\ live' \in {{}, live}
        /\ dirty' \in BOOLEAN /\ overtaken' \in BOOLEAN
        /\ lost' \subseteq Caller /\ lost \subseteq lost'
    BY <1>3, ShowTypes DEF TryAgain, TypeOK
  <2>2. /\ reconnecting /\ call[On("error")] # NoCall
        /\ ~es /\ ~retryTimer /\ ~pollTimer /\ call[On("load")] = NoCall /\ ~cancelled
        /\ reconnectCount <= MaxReconnects
    BY <1>3 DEF TryAgain, ReadsBeforeReconnect, OneChannel, CountBounded, B
  <2>3. /\ call' \in [Caller -> Detail \union {NoCall, Asked, Failed}]
        /\ call'[On("error")] = NoCall /\ call'[On("load")] = NoCall
        /\ \A e \in Event : call'[OnEvent(e)] = call[OnEvent(e)]
    BY <1>3, <2>2 DEF TryAgain, Reconnect, SetRetryTimer, StartPolling, TypeOK
  <2>4. /\ ~reconnecting' /\ reconnectCount' = reconnectCount + 1 /\ ~es'
        /\ \/ /\ retryTimer' /\ ~pollTimer' /\ reconnectCount' <= MaxReconnects
              /\ mode' = mode /\ retryTimer' = TRUE /\ pollTimer' = pollTimer
           \/ /\ ~retryTimer' /\ retryTimer' = retryTimer
              /\ pollTimer' = TRUE /\ mode' = "polling"
        /\ UNCHANGED <<server, stream, error, es, closedGracefully, cancelled, bounds>>
        /\ reconnecting' = FALSE
    BY <1>3, <2>2 DEF TryAgain, Reconnect, SetRetryTimer, StartPolling, TypeOK
  <2>5. TypeOK'
    <3>1. reconnectCount' \in 0..MaxReconnects + 1
      BY <2>2, <2>4 DEF TypeOK
    <3>2. {dirty', es', reconnecting', retryTimer', pollTimer', closedGracefully', cancelled',
           overtaken'} \subseteq BOOLEAN
      BY <2>1, <2>4 DEF TypeOK
    <3>3. mode' \in {"idle", "sse", "polling"}
      BY <2>4 DEF TypeOK
    <3>4. /\ settled' \in BOOLEAN /\ trail' \in 0..MaxEvents /\ due' \in 0..MaxEvents
          /\ conn' \in {"none", "asked", "snapshot", "subscribed", "ended"}
          /\ wire' \in Seq(Message) /\ error' \in {"none", "load", "poll"}
          /\ failures' \in 0..MaxFailures /\ clicks' \in 0..MaxClicks
          /\ live' \subseteq Event
      BY <2>1, <2>4 DEF TypeOK
    <3> QED BY <2>1, <2>3, <3>1, <3>2, <3>3, <3>4 DEF TypeOK
  <2>6. ReadsBeforeReconnect' /\ CountBounded' /\ WireHasEvents'
    BY <2>3, <2>4 DEF ReadsBeforeReconnect, CountBounded, WireHasEvents
  <2>7. OneChannel'
    BY <2>2, <2>3, <2>4 DEF OneChannel, B
  <2>8. LiveEntriesAwaitRefresh'
    BY <2>1, <2>2, <2>3, <2>4 DEF LiveEntriesAwaitRefresh, TypeOK
  <2> QED BY <2>5, <2>6, <2>7, <2>8
<1>4. CASE RetryTimer
  <2>1. /\ UNCHANGED <<server, call, shown, error, reconnecting, reconnectCount, pollTimer,
                       closedGracefully, cancelled, lost, bounds>>
        /\ retryTimer /\ retryTimer' = FALSE
        /\ \/ cancelled /\ UNCHANGED <<es, stream, mode>>
           \/ ~cancelled /\ es' = TRUE /\ mode' = "sse" /\ conn' = "asked" /\ wire' = <<>>
    BY <1>4 DEF RetryTimer, NoConnect, ConnectSse
  <2>2. TypeOK' /\ WireHasEvents'
    <3>1. CASE cancelled /\ UNCHANGED <<es, stream, mode>>
      BY <2>1, <3>1 DEF TypeOK, WireHasEvents
    <3>2. CASE ~cancelled /\ es' = TRUE /\ mode' = "sse" /\ conn' = "asked" /\ wire' = <<>>
      BY <2>1, <3>2, EmptyWire DEF TypeOK
    <3> QED BY <2>1, <3>1, <3>2
  <2>3. ReadsBeforeReconnect' /\ OneChannel' /\ CountBounded' /\ LiveEntriesAwaitRefresh'
    BY <2>1 DEF ReadsBeforeReconnect, OneChannel, CountBounded, LiveEntriesAwaitRefresh, B
  <2> QED BY <2>2, <2>3
<1> QED BY <1>1, <1>2, <1>3, <1>4

LEMMA PageKeepsInv ==
    ASSUME ClientInv, TaskEffect \/ PollTick \/ Click \/ Unmount
    PROVE  ClientInv'
<1> USE ClientAssumption, CallAssumption, CallersDiffer, ShortWires
    DEF ClientInv, server, stream, shown, control, bounds
<1>1. CASE TaskEffect
  <2>1. TypeOK'
    BY <1>1 DEF TaskEffect, TypeOK
  <2>2. /\ ReadsBeforeReconnect' /\ OneChannel' /\ CountBounded' /\ WireHasEvents'
        /\ LiveEntriesAwaitRefresh'
    BY <1>1 DEF TaskEffect, ReadsBeforeReconnect, OneChannel, CountBounded, WireHasEvents,
                LiveEntriesAwaitRefresh, B
  <2> QED BY <2>1, <2>2
<1>2. CASE PollTick \/ Click
  <2>1. /\ call' \in [Caller -> Detail \union {NoCall, Asked, Failed}]
        /\ call'[On("error")] = call[On("error")] /\ call'[On("load")] = call[On("load")]
        /\ \A e \in Event : call'[OnEvent(e)] = call[OnEvent(e)]
        /\ clicks' \in 0..MaxClicks
        /\ UNCHANGED <<server, stream, shown, mode, error, control, lost, failures>>
    BY <1>2 DEF PollTick, Click, TypeOK
  <2>2. TypeOK'
    BY <2>1 DEF TypeOK
  <2>3. ReadsBeforeReconnect' /\ OneChannel' /\ CountBounded' /\ WireHasEvents'
    BY <2>1 DEF ReadsBeforeReconnect, OneChannel, CountBounded, WireHasEvents, B
  <2>4. LiveEntriesAwaitRefresh'
    BY <2>1 DEF LiveEntriesAwaitRefresh, TypeOK
  <2> QED BY <2>2, <2>3, <2>4
<1>3. CASE Unmount
  <2>1. TypeOK'
    BY <1>3 DEF Unmount, TypeOK
  <2>2. /\ ReadsBeforeReconnect' /\ OneChannel' /\ CountBounded' /\ WireHasEvents'
        /\ LiveEntriesAwaitRefresh'
    BY <1>3 DEF Unmount, ReadsBeforeReconnect, OneChannel, CountBounded, WireHasEvents,
                LiveEntriesAwaitRefresh, B
  <2> QED BY <2>1, <2>2
<1> QED BY <1>1, <1>2, <1>3

-----------------------------------------------------------------------------
LEMMA ClientNext == ClientInv /\ [Next]_vars => ClientInv'
<1> SUFFICES ASSUME ClientInv, [Next]_vars PROVE ClientInv'
  OBVIOUS
<1>1. CASE UNCHANGED vars
  BY <1>1 DEF vars, server, stream, shown, control, bounds, ClientInv, TypeOK,
              ReadsBeforeReconnect, OneChannel, CountBounded, WireHasEvents,
              LiveEntriesAwaitRefresh, B
<1>2. CASE Settle \/ Record \/ ServerStep
  BY <1>2, ServerKeepsInv, CallsKeepInv DEF ServerStep
<1>3. CASE PageStep
  BY <1>3, LoadKeepsInv, RefreshKeepsInv, StreamKeepsInv, ErrorKeepsInv, PageKeepsInv DEF PageStep
<1>4. CASE PollTick \/ OnError \/ Click \/ Unmount
  BY <1>4, ErrorKeepsInv, PageKeepsInv
<1>5. CASE \E c \in Caller : CallFails(c)
  BY <1>5, CallsKeepInv
<1> QED BY <1>1, <1>2, <1>3, <1>4, <1>5 DEF Next

\* The invariant of the page.
THEOREM ClientInvariant == Spec => []ClientInv
BY ClientInit, ClientNext, PTL DEF Spec

\* Every variable stays in its type; the reconnect counter stays within its limit.
THEOREM ClientTypeCorrect == Spec => []TypeOK
<1>1. ClientInv => TypeOK
  BY DEF ClientInv
<1> QED BY <1>1, ClientInvariant, PTL

\* The hook never follows its task in two ways at once, and an unmounted page
\* holds neither stream nor poll timer (useTaskEvents.ts).
THEOREM OneChannelAlways == Spec => []OneChannel
<1>1. ClientInv => OneChannel
  BY DEF ClientInv
<1> QED BY <1>1, ClientInvariant, PTL

\* Every entry that came by the stream is about to be replaced by a row, or
\* the GET that should have replaced it failed.
THEOREM LiveEntriesAlwaysAwaitRefresh == Spec => []LiveEntriesAwaitRefresh
<1>1. ClientInv => LiveEntriesAwaitRefresh
  BY DEF ClientInv
<1> QED BY <1>1, ClientInvariant, PTL
-----------------------------------------------------------------------------
\* When the page stops

\* Every way of following the task has ended.
NoChannel ==
    /\ call[On("load")] = NoCall
    /\ ~es /\ ~reconnecting /\ ~retryTimer /\ ~pollTimer

\* The page shows the task as over, with what was recorded by its end; or
\* an older answer has replaced a newer one.
ShownOver == overtaken \/ (task \in Detail /\ task.settled /\ rows >= due)

\* Whatever says that the task is over is right, and as complete as its end.
AnswersHold ==
    /\ due <= trail
    /\ \A c \in Caller : call[c] \in Detail /\ call[c].settled => settled /\ call[c].rows >= due
    /\ call[On("close")] # NoCall => settled
    /\ call[On("close")] \in Detail => call[On("close")].settled
    /\ \A i \in 1..Len(wire) : wire[i].kind = "close" => settled
    /\ dirty => task \in Detail
    /\ task \in Detail /\ task.settled => settled /\ ShownOver

\* The first GET runs alone; without its answer nothing else starts.
LoadsFirst ==
    /\ call[On("load")] # NoCall =>
         task = NoTask /\ \A c \in Caller \ {On("load")} : call[c] = NoCall
    /\ error = "load" => NoChannel /\ \A c \in Caller : call[c] = NoCall

StopInv ==
    ~cancelled /\ error # "load" /\ NoChannel =>
      /\ settled
      /\ mode = "idle"
      /\ On("close") \in lost \/ call[On("close")] # NoCall \/ ShownOver

LEMMA StopInit == Init => AnswersHold /\ LoadsFirst /\ StopInv
<1> SUFFICES ASSUME Init PROVE AnswersHold /\ LoadsFirst /\ StopInv
  OBVIOUS
<1> USE CallAssumption, CallersDiffer, ShortWires DEF Init
<1>1. /\ \A c \in Caller : call[c] \notin Detail
      /\ NoTask \notin Detail /\ call[On("close")] = NoCall /\ call[On("load")] = Asked
  OBVIOUS
<1>2. AnswersHold
  BY <1>1 DEF AnswersHold
<1>3. LoadsFirst
  BY DEF LoadsFirst
<1>4. StopInv
  BY <1>1 DEF StopInv, NoChannel
<1> QED BY <1>2, <1>3, <1>4

\* How a step of the page changes what it shows.
KeepsShown == UNCHANGED <<task, rows, overtaken>> /\ (dirty' => dirty)
ShowsAnswer ==
    \E d \in Detail : Show(d) /\ (d.settled => settled /\ d.rows >= due)
ShowsSnapshot ==
    /\ UNCHANGED <<task, dirty>>
    /\ overtaken' = (overtaken \/ rows' < rows)

LEMMA ShownNext ==
    ASSUME TypeOK, TypeOK', AnswersHold, UNCHANGED server, KeepsShown \/ ShowsAnswer \/ ShowsSnapshot
    PROVE  /\ dirty' => task' \in Detail
           /\ task' \in Detail /\ task'.settled => settled' /\ ShownOver'
           /\ ShownOver => ShownOver'
<1> USE ClientAssumption, CallAssumption DEF server
<1>0. /\ rows \in Nat /\ rows' \in Nat /\ due \in Nat /\ overtaken \in BOOLEAN /\ overtaken' \in BOOLEAN
  BY DEF TypeOK
<1>1. CASE KeepsShown
  BY <1>1 DEF KeepsShown, AnswersHold, ShownOver
<1>2. CASE ShowsAnswer
  <2>1. PICK d \in Detail : Show(d) /\ (d.settled => settled /\ d.rows >= due)
    BY <1>2 DEF ShowsAnswer
  <2>2. /\ task' = d /\ rows' = d.rows /\ d \in Detail
        /\ overtaken' = \/ overtaken \/ d.rows < rows
                        \/ task # NoTask /\ task.settled /\ ~d.settled
    BY <2>1 DEF Show
  <2>3. task' \in Detail /\ task'.settled => settled' /\ ShownOver'
    BY <2>1, <2>2 DEF ShownOver
  <2>4. ASSUME ShownOver PROVE ShownOver'
    <3>1. CASE overtaken
      BY <2>2, <3>1 DEF ShownOver
    <3>2. CASE task \in Detail /\ task.settled
      <4>1. overtaken' \/ d.settled
        BY <2>2, <3>2
      <4> QED BY <2>2, <2>3, <4>1 DEF ShownOver
    <3> QED BY <2>4, <3>1, <3>2 DEF ShownOver
  <2> QED BY <2>2, <2>3, <2>4
<1>3. CASE ShowsSnapshot
  <2>1. task' = task /\ dirty' = dirty /\ overtaken' = (overtaken \/ rows' < rows)
    BY <1>3 DEF ShowsSnapshot
  <2>2. ASSUME ShownOver PROVE ShownOver'
    <3>1. CASE overtaken \/ rows' < rows
      BY <2>1, <3>1 DEF ShownOver
    <3>2. CASE ~overtaken /\ ~(rows' < rows)
      BY <1>0, <2>1, <2>2, <3>2 DEF ShownOver
    <3> QED BY <3>1, <3>2
  <2> QED BY <2>1, <2>2 DEF AnswersHold
<1> QED BY <1>1, <1>2, <1>3

\* What a step may do to the GETs and the messages.
KeepsCalls ==
    /\ \A c \in Caller : \/ call'[c] = call[c]
                         \/ call'[c] \in {NoCall, Asked, Failed}
                         \/ call[c] # NoCall /\ call'[c] = [settled |-> settled, rows |-> trail]
    /\ call[On("close")] = NoCall => call'[On("close")] = NoCall \/ (call'[On("close")] = Asked /\ settled)
KeepsWire == \A i \in 1..Len(wire') : wire'[i].kind = "close" => settled

LEMMA AnswersFrame ==
    ASSUME ClientInv, TypeOK', AnswersHold, UNCHANGED server,
           KeepsShown \/ ShowsAnswer \/ ShowsSnapshot, KeepsCalls, KeepsWire
    PROVE  AnswersHold' /\ (ShownOver => ShownOver')
<1> USE CallAssumption, CallersDiffer DEF server
<1>1. /\ trail \in 0..MaxEvents /\ due \in 0..MaxEvents /\ settled \in BOOLEAN
      /\ call \in [Caller -> Detail \union {NoCall, Asked, Failed}]
  BY DEF ClientInv, TypeOK
<1>2. /\ dirty' => task' \in Detail
      /\ task' \in Detail /\ task'.settled => settled' /\ ShownOver'
      /\ ShownOver => ShownOver'
  BY ShownNext DEF ClientInv
<1>3. due' <= trail'
  BY DEF AnswersHold
<1>4. ASSUME NEW c \in Caller, call'[c] \in Detail, call'[c].settled
      PROVE  settled' /\ call'[c].rows >= due'
  <2>1. CASE call'[c] = call[c]
    BY <1>4, <2>1 DEF AnswersHold
  <2>2. CASE call'[c] = [settled |-> settled, rows |-> trail]
    BY <1>1, <1>4, <2>2 DEF AnswersHold
  <2>3. call'[c] \notin {NoCall, Asked, Failed}
    BY <1>4
  <2> QED BY <2>1, <2>2, <2>3 DEF KeepsCalls
<1>5. call'[On("close")] # NoCall => settled'
  BY DEF AnswersHold, KeepsCalls
<1>6. ASSUME call'[On("close")] \in Detail PROVE call'[On("close")].settled
  <2>1. call'[On("close")] \notin {NoCall, Asked, Failed}
    BY <1>6
  <2>2. CASE call'[On("close")] = call[On("close")]
    BY <1>6, <2>2 DEF AnswersHold
  <2>3. CASE call[On("close")] # NoCall /\ call'[On("close")] = [settled |-> settled, rows |-> trail]
    BY <2>3 DEF AnswersHold
  <2> QED BY <2>1, <2>2, <2>3 DEF KeepsCalls
<1>7. \A i \in 1..Len(wire') : wire'[i].kind = "close" => settled'
  BY DEF KeepsWire
<1> QED BY <1>2, <1>3, <1>4, <1>5, <1>6, <1>7 DEF AnswersHold

LEMMA EmptyKeepsWire == wire' = <<>> => KeepsWire
BY ShortWires DEF KeepsWire

LEMMA SameKeepsWire == AnswersHold /\ wire' = wire => KeepsWire
BY DEF AnswersHold, KeepsWire

LEMMA ReceiveKeepsWire ==
    ASSUME TypeOK, AnswersHold, NEW kind, Receive(kind)
    PROVE  KeepsWire /\ (kind = "close" => settled)
<1>1. Len(wire) > 0 /\ Head(wire) = wire[1] /\ wire' = Tail(wire) /\ wire[1].kind = kind
  BY DEF TypeOK, Receive
<1>2. /\ Len(Tail(wire)) = Len(wire) - 1 /\ Len(wire) \in Nat
      /\ \A i \in 1..Len(Tail(wire)) : Tail(wire)[i] = wire[i + 1]
  BY <1>1 DEF TypeOK
<1>3. \A i \in 1..Len(Tail(wire)) : i + 1 \in 1..Len(wire)
  BY <1>2
<1>4. 1 \in 1..Len(wire)
  BY <1>1, <1>2
<1> QED BY <1>1, <1>2, <1>3, <1>4 DEF AnswersHold, KeepsWire

-----------------------------------------------------------------------------
StopAll == ClientInv /\ AnswersHold /\ LoadsFirst /\ StopInv

\* The page follows its task as before, or has long stopped.
LEMMA StopFrame ==
    ASSUME StopAll, ShownOver => ShownOver', UNCHANGED <<error, cancelled>>, settled => settled',
           lost \subseteq lost', mode' = mode \/ mode' = "idle",
           call[On("close")] # NoCall =>
             call'[On("close")] # NoCall \/ On("close") \in lost' \/ ShownOver',
           NoChannel' => NoChannel
    PROVE  StopInv'
BY DEF StopAll, StopInv

\* The first GET is over: the rest of the page has begun.
LEMMA LoadPast ==
    call[On("load")] = NoCall /\ call'[On("load")] = NoCall /\ error' # "load" => LoadsFirst'
BY DEF LoadsFirst

\* Nothing was asked or opened.
LEMMA LoadsFrame ==
    ASSUME LoadsFirst, task' = task, error' = error,
           \A c \in Caller : call[c] = NoCall => call'[c] = NoCall,
           error = "load" => (NoChannel => NoChannel')
    PROVE  LoadsFirst'
BY CallersDiffer DEF LoadsFirst

LEMMA ServerKeepsStop ==
    ASSUME StopAll, Settle \/ Record \/ Snapshot \/ Subscribe \/ CloseStream
    PROVE  AnswersHold' /\ LoadsFirst' /\ StopInv'
<1> USE CallAssumption, CallersDiffer DEF server, stream, shown, control, bounds
<1>0. UNCHANGED <<call, shown, mode, error, control, lost, bounds>>
  BY DEF Settle, Record, Snapshot, Subscribe, CloseStream
<1>1. LoadsFirst' /\ (NoChannel' <=> NoChannel)
  BY <1>0, LoadsFrame DEF StopAll, NoChannel
<1>2. TypeOK /\ TypeOK' /\ AnswersHold /\ trail \in Nat /\ due \in Nat
  BY ServerKeepsInv, ClientAssumption DEF StopAll, ClientInv, TypeOK
<1>3. CASE Settle
  <2>1. ~settled /\ settled' /\ due' = trail /\ trail' = trail /\ wire' = wire
    BY <1>3 DEF Settle
  <2>2. ~(task \in Detail /\ task.settled) /\ \A c \in Caller : ~(call[c] \in Detail /\ call[c].settled)
    BY <1>2, <2>1 DEF AnswersHold
  <2>3. AnswersHold'
    BY <1>0, <1>2, <2>1, <2>2 DEF AnswersHold
  <2>4. ShownOver => ShownOver'
    BY <1>0, <2>2 DEF ShownOver
  <2> QED BY <1>0, <1>1, <2>1, <2>3, <2>4, StopFrame
<1>4. CASE Record
  <2>1. settled' = settled /\ due' = due /\ trail' = trail + 1
    BY <1>4 DEF Record
  <2>2. \A i \in 1..Len(wire') : wire'[i].kind = "close" => settled
    <3>1. CASE wire' = wire
      BY <1>2, <3>1 DEF AnswersHold
    <3>2. CASE wire' = Append(wire, Msg("task_event", trail + 1))
      <4>1. /\ Len(wire') = Len(wire) + 1 /\ Len(wire) \in Nat
            /\ \A i \in 1..Len(wire) : wire'[i] = wire[i]
            /\ wire'[Len(wire) + 1] = Msg("task_event", trail + 1)
        BY <1>2, <3>2 DEF TypeOK
      <4>2. \A i \in 1..Len(wire') : i \in 1..Len(wire) \/ i = Len(wire) + 1
        BY <4>1
      <4> QED BY <1>2, <4>1, <4>2 DEF AnswersHold, Msg
    <3> QED BY <1>4, <3>1, <3>2 DEF Record
  <2>3. due' <= trail'
    BY <1>2, <2>1 DEF AnswersHold
  <2>4. AnswersHold' /\ (ShownOver => ShownOver')
    BY <1>0, <1>2, <2>1, <2>2, <2>3 DEF AnswersHold, ShownOver
  <2> QED BY <1>0, <1>1, <2>1, <2>4, StopFrame
<1>5. CASE Snapshot \/ Subscribe \/ CloseStream
  <2>1. UNCHANGED server
    BY <1>5 DEF Snapshot, Subscribe, CloseStream
  <2>2. KeepsWire
    <3>1. CASE Subscribe
      BY <1>2, <3>1, SameKeepsWire DEF Subscribe
    <3>2. CASE Snapshot /\ settled
      BY <3>2 DEF KeepsWire
    <3>3. CASE Snapshot /\ ~settled
      <4>1. Msg("snapshot", trail) \in Message /\ Msg("snapshot", trail).kind = "snapshot"
        BY <1>2 DEF Msg, Message, TypeOK
      <4>2. wire' = <<Msg("snapshot", trail)>>
        BY <3>3 DEF Snapshot
      <4>3. \A i \in 1..Len(wire') : wire'[i].kind # "close"
        BY <4>1, <4>2
      <4> QED BY <4>3 DEF KeepsWire
    <3>4. CASE CloseStream
      BY <3>4 DEF KeepsWire, CloseStream
    <3> QED BY <1>5, <3>1, <3>2, <3>3, <3>4
  <2>3. KeepsShown /\ KeepsCalls
    BY <1>0 DEF KeepsShown, KeepsCalls
  <2>4. AnswersHold' /\ (ShownOver => ShownOver')
    BY <1>2, <2>1, <2>2, <2>3, AnswersFrame DEF StopAll
  <2> QED BY <1>0, <1>1, <2>1, <2>4, StopFrame
<1> QED BY <1>3, <1>4, <1>5

LEMMA CallsKeepStop ==
    ASSUME StopAll, NEW c \in Caller, ServeCall(c) \/ CallFails(c)
    PROVE  AnswersHold' /\ LoadsFirst' /\ StopInv'
<1> USE CallAssumption, CallersDiffer DEF server, stream, shown, control, bounds
<1>0. /\ TypeOK /\ TypeOK' /\ AnswersHold /\ call \in [Caller -> Detail \union {NoCall, Asked, Failed}]
      /\ settled \in BOOLEAN /\ trail \in 0..MaxEvents
  BY CallsKeepInv DEF StopAll, ClientInv, TypeOK
<1>1. UNCHANGED <<server, stream, shown, mode, error, control, lost>>
  BY DEF ServeCall, CallFails
<1>2. [settled |-> settled, rows |-> trail] # NoCall
  <2>1. [settled |-> settled, rows |-> trail] \in Detail
    BY <1>0 DEF Detail
  <2> QED BY <2>1
<1>3. /\ call[c] # NoCall
      /\ call' = [call EXCEPT ![c] = [settled |-> settled, rows |-> trail]]
         \/ call' = [call EXCEPT ![c] = Failed]
  BY DEF ServeCall, CallFails
<1>4. /\ KeepsCalls
      /\ \A d \in Caller : call'[d] # NoCall <=> call[d] # NoCall
  BY <1>0, <1>2, <1>3 DEF KeepsCalls
<1>5. KeepsShown /\ KeepsWire
  BY <1>0, <1>1, SameKeepsWire DEF KeepsShown
<1>6. AnswersHold' /\ (ShownOver => ShownOver')
  BY <1>0, <1>1, <1>4, <1>5, AnswersFrame DEF StopAll
<1>7. LoadsFirst' /\ (NoChannel' <=> NoChannel)
  BY <1>1, <1>4, LoadsFrame DEF StopAll, NoChannel
<1> QED BY <1>1, <1>4, <1>6, <1>7, StopFrame

LEMMA LoadKeepsStop ==
    ASSUME StopAll, LoadAnswered \/ LoadFailed
    PROVE  AnswersHold' /\ LoadsFirst' /\ StopInv'
<1> USE CallAssumption, CallersDiffer DEF server, stream, shown, control, bounds
<1>0. /\ TypeOK /\ TypeOK' /\ AnswersHold /\ call \in [Caller -> Detail \union {NoCall, Asked, Failed}]
      /\ LoadsFirst
  BY LoadKeepsInv DEF StopAll, ClientInv, TypeOK
<1>1. /\ call[On("load")] # NoCall /\ ~cancelled /\ UNCHANGED <<server, cancelled>>
      /\ call' = [call EXCEPT ![On("load")] = NoCall]
  BY DEF LoadAnswered, LoadFailed
<1>2. /\ KeepsCalls /\ call'[On("load")] = NoCall
      /\ \A c \in Caller : call'[c] = NoCall
  <2>1. \A c \in Caller \ {On("load")} : call[c] = NoCall
    BY <1>0, <1>1 DEF LoadsFirst
  <2> QED BY <1>0, <1>1, <2>1 DEF KeepsCalls
<1>3. ~es /\ ~reconnecting /\ ~retryTimer /\ ~pollTimer
  BY <1>1 DEF StopAll, ClientInv, OneChannel, B
<1>4. CASE LoadAnswered
  <2>1. /\ call[On("load")] \in Detail /\ Show(call[On("load")])
        /\ UNCHANGED <<error, reconnecting, retryTimer, pollTimer>>
    BY <1>4 DEF LoadAnswered
  <2>2. ShowsAnswer
    BY <1>0, <2>1 DEF ShowsAnswer, AnswersHold
  <2>3. KeepsWire
    BY <1>0, <1>4, SameKeepsWire, EmptyKeepsWire DEF LoadAnswered, NoConnect, ConnectSse
  <2>4. AnswersHold'
    BY <1>0, <1>1, <1>2, <2>2, <2>3, AnswersFrame DEF StopAll
  <2>5. LoadsFirst'
    <3>1. error # "load"
      BY <1>0, <1>1 DEF LoadsFirst, NoChannel
    <3> QED BY <1>2, <2>1, <3>1 DEF LoadsFirst
  <2>6. StopInv'
    <3> SUFFICES ASSUME NoChannel' PROVE StopInv'
      BY DEF StopInv
    <3>1. call[On("load")].settled /\ mode' = "idle"
      BY <1>4 DEF NoChannel, LoadAnswered, ConnectSse
    <3>2. task' = call[On("load")]
      BY <2>1 DEF Show
    <3>3. settled' /\ ShownOver'
      BY <2>1, <2>4, <3>1, <3>2 DEF AnswersHold
    <3> QED BY <3>1, <3>3 DEF StopInv
  <2> QED BY <2>4, <2>5, <2>6
<1>5. CASE LoadFailed
  <2>1. /\ error' = "load"
        /\ UNCHANGED <<stream, shown, es, reconnecting, retryTimer, pollTimer>>
    BY <1>5 DEF LoadFailed
  <2>2. KeepsShown /\ KeepsWire
    BY <1>0, <2>1, SameKeepsWire DEF KeepsShown
  <2>3. AnswersHold'
    BY <1>0, <1>1, <1>2, <2>2, AnswersFrame DEF StopAll
  <2>4. LoadsFirst'
    BY <1>2, <1>3, <2>1 DEF LoadsFirst, NoChannel
  <2>5. StopInv'
    BY <2>1 DEF StopInv
  <2> QED BY <2>3, <2>4, <2>5
<1> QED BY <1>4, <1>5

LEMMA RefreshKeepsStop ==
    ASSUME StopAll, NEW c \in Caller,
           RefreshAnswered(c) \/ RefreshFailed(c) \/ AnswerAfterUnmount(c)
    PROVE  AnswersHold' /\ LoadsFirst' /\ StopInv'
<1> USE CallAssumption, CallersDiffer DEF server, stream, shown, control, bounds
<1>0. /\ TypeOK /\ TypeOK' /\ AnswersHold /\ call \in [Caller -> Detail \union {NoCall, Asked, Failed}]
      /\ LoadsFirst
  BY RefreshKeepsInv DEF StopAll, ClientInv, TypeOK
<1>1. /\ call[c] # NoCall /\ call' = [call EXCEPT ![c] = NoCall] /\ UNCHANGED <<server, wire>>
  BY DEF RefreshAnswered, RefreshFailed, AnswerAfterUnmount
<1>2. KeepsCalls /\ KeepsWire /\ \A d \in Caller : d # c => call'[d] = call[d]
  BY <1>0, <1>1, SameKeepsWire DEF KeepsCalls
<1>3. error # "load"
  BY <1>0, <1>1 DEF LoadsFirst
<1>4. CASE RefreshAnswered(c)
  <2>1. /\ c # On("load") /\ call[c] \in Detail /\ Show(call[c])
        /\ UNCHANGED <<mode, error, es, reconnecting, retryTimer, pollTimer, cancelled, lost>>
    BY <1>4 DEF RefreshAnswered
  <2>2. ShowsAnswer
    BY <1>0, <2>1 DEF ShowsAnswer, AnswersHold
  <2>3. AnswersHold' /\ (ShownOver => ShownOver')
    BY <1>0, <1>1, <1>2, <2>2, AnswersFrame DEF StopAll
  <2>4. call[On("load")] = NoCall /\ call'[On("load")] = NoCall
    BY <1>0, <1>1, <1>2, <2>1 DEF LoadsFirst
  <2>5. LoadsFirst'
    BY <1>3, <2>1, <2>4, LoadPast
  <2>6. call[On("close")] # NoCall => call'[On("close")] # NoCall \/ ShownOver'
    <3>1. CASE c = On("close")
      <4>1. call[c].settled /\ task' = call[c]
        BY <1>0, <2>1, <3>1 DEF AnswersHold, Show
      <4> QED BY <2>1, <2>3, <4>1 DEF AnswersHold
    <3>2. CASE c # On("close")
      BY <1>2, <3>2
    <3> QED BY <3>1, <3>2
  <2>7. NoChannel' => NoChannel
    BY <2>1, <2>4 DEF NoChannel
  <2> QED BY <1>1, <2>1, <2>3, <2>5, <2>6, <2>7, StopFrame
<1>5. CASE RefreshFailed(c)
  <2>1. /\ c # On("load") /\ UNCHANGED <<shown, mode, es, reconnecting, retryTimer, pollTimer, cancelled>>
        /\ lost' = lost \union {c} /\ error' \in {"poll", error}
    BY <1>5 DEF RefreshFailed
  <2>2. KeepsShown
    BY <2>1 DEF KeepsShown
  <2>3. AnswersHold' /\ (ShownOver => ShownOver')
    BY <1>0, <1>1, <1>2, <2>2, AnswersFrame DEF StopAll
  <2>4. call[On("load")] = NoCall /\ call'[On("load")] = NoCall
    BY <1>0, <1>1, <1>2, <2>1 DEF LoadsFirst
  <2>5. LoadsFirst'
    BY <1>3, <2>1, <2>4, LoadPast
  <2>6. call[On("close")] # NoCall => call'[On("close")] # NoCall \/ On("close") \in lost'
    BY <1>2, <2>1
  <2>7. NoChannel' => NoChannel
    BY <2>1, <2>4 DEF NoChannel
  <2>8. StopInv'
    BY <1>1, <1>3, <2>1, <2>3, <2>6, <2>7 DEF StopAll, StopInv
  <2> QED BY <2>3, <2>5, <2>8
<1>6. CASE AnswerAfterUnmount(c)
  <2>1. cancelled' /\ UNCHANGED <<shown, error>>
    BY <1>6 DEF AnswerAfterUnmount
  <2>2. KeepsShown
    BY <2>1 DEF KeepsShown
  <2>3. AnswersHold'
    BY <1>0, <1>1, <1>2, <2>2, AnswersFrame DEF StopAll
  <2>4. LoadsFirst'
    <3>1. \A d \in Caller : call[d] = NoCall => call'[d] = NoCall
      BY <1>0, <1>1
    <3> QED BY <1>0, <1>3, <2>1, <3>1, LoadsFrame
  <2> QED BY <2>1, <2>3, <2>4 DEF StopInv
<1> QED BY <1>4, <1>5, <1>6

LEMMA StreamKeepsStop ==
    ASSUME StopAll, OnSnapshot \/ OnTaskEvent \/ OnClose
    PROVE  AnswersHold' /\ LoadsFirst' /\ StopInv'
<1> USE CallAssumption, CallersDiffer DEF server, stream, shown, control, bounds
<1>0. /\ TypeOK /\ TypeOK' /\ AnswersHold /\ call \in [Caller -> Detail \union {NoCall, Asked, Failed}]
      /\ LoadsFirst /\ WireHasEvents
  BY StreamKeepsInv DEF StopAll, ClientInv, TypeOK
<1>1. es /\ UNCHANGED <<server, error, cancelled, lost>> /\ KeepsWire
  BY <1>0, ReceiveKeepsWire DEF OnSnapshot, OnTaskEvent, OnClose, Receive
<1>2. call[On("load")] = NoCall /\ error # "load"
  BY <1>0, <1>1 DEF StopAll, ClientInv, OneChannel, B, LoadsFirst, NoChannel
<1>3. CASE OnSnapshot
  <2>1. ShowsSnapshot /\ KeepsCalls /\ call' = call /\ es'
    BY <1>1, <1>3 DEF OnSnapshot, ShowsSnapshot, KeepsCalls
  <2>2. AnswersHold'
    BY <1>0, <1>1, <2>1, AnswersFrame DEF StopAll
  <2> QED BY <1>1, <1>2, <2>1, <2>2, LoadPast DEF StopInv, NoChannel
<1>4. CASE OnTaskEvent
  <2>1. OnEvent(Head(wire).n) \in Caller /\ OnEvent(Head(wire).n) # On("load")
        /\ OnEvent(Head(wire).n) # On("close")
    <3>1. Head(wire).n \in Event
      BY <1>0, <1>4, ReceiveTypes DEF OnTaskEvent
    <3> QED BY <3>1
  <2>2. /\ KeepsShown /\ es'
        /\ call' = [call EXCEPT ![OnEvent(Head(wire).n)] = Asked]
    BY <1>1, <1>4 DEF OnTaskEvent, KeepsShown
  <2>3. KeepsCalls /\ call'[On("load")] = NoCall
    BY <1>0, <1>2, <2>1, <2>2 DEF KeepsCalls
  <2>4. AnswersHold'
    BY <1>0, <1>1, <2>2, <2>3, AnswersFrame DEF StopAll
  <2> QED BY <1>1, <1>2, <2>2, <2>3, <2>4, LoadPast DEF StopInv, NoChannel
<1>5. CASE OnClose
  <2>1. /\ settled /\ mode' = "idle" /\ UNCHANGED shown
        /\ call' = [call EXCEPT ![On("close")] = Asked]
    BY <1>0, <1>5, ReceiveKeepsWire DEF OnClose
  <2>2. KeepsShown /\ KeepsCalls /\ call'[On("load")] = NoCall /\ call'[On("close")] = Asked
    BY <1>0, <1>2, <2>1 DEF KeepsShown, KeepsCalls
  <2>3. AnswersHold'
    BY <1>0, <1>1, <2>2, AnswersFrame DEF StopAll
  <2> QED BY <1>1, <1>2, <2>1, <2>2, <2>3, LoadPast DEF StopInv
<1> QED BY <1>3, <1>4, <1>5

LEMMA ErrorKeepsStop ==
    ASSUME StopAll, OnError \/ GiveUpSettled \/ TryAgain \/ RetryTimer
    PROVE  AnswersHold' /\ LoadsFirst' /\ StopInv'
<1> USE CallAssumption, CallersDiffer DEF server, stream, shown, control, bounds
<1>0. /\ TypeOK /\ TypeOK' /\ AnswersHold /\ call \in [Caller -> Detail \union {NoCall, Asked, Failed}]
      /\ LoadsFirst /\ OneChannel /\ ReadsBeforeReconnect
  BY ErrorKeepsInv DEF StopAll, ClientInv, TypeOK
<1>1. CASE OnError
  <2>1. /\ es /\ reconnecting' /\ wire' = <<>> /\ UNCHANGED <<server, shown, error>>
        /\ call' = [call EXCEPT ![On("error")] = Asked]
    BY <1>1 DEF OnError
  <2>2. call[On("load")] = NoCall /\ error # "load"
    BY <1>0, <2>1 DEF OneChannel, B, LoadsFirst, NoChannel
  <2>3. KeepsShown /\ KeepsCalls /\ KeepsWire /\ call'[On("load")] = NoCall
    BY <1>0, <2>1, <2>2, EmptyKeepsWire DEF KeepsShown, KeepsCalls
  <2>4. AnswersHold'
    BY <1>0, <2>1, <2>3, AnswersFrame DEF StopAll
  <2> QED BY <2>1, <2>2, <2>3, <2>4, LoadPast DEF StopInv, NoChannel
<1>2. CASE GiveUpSettled
  <2>1. /\ call[On("error")] \in Detail /\ call[On("error")].settled /\ Show(call[On("error")])
        /\ call' = [call EXCEPT ![On("error")] = NoCall] /\ mode' = "idle"
        /\ UNCHANGED <<server, wire, error>>
    BY <1>2 DEF GiveUpSettled
  <2>2. call[On("load")] = NoCall /\ error # "load"
    BY <1>0, <2>1 DEF LoadsFirst
  <2>3. KeepsCalls /\ KeepsWire /\ call'[On("load")] = NoCall
    BY <1>0, <2>1, <2>2, SameKeepsWire DEF KeepsCalls
  <2>4. ShowsAnswer
    BY <1>0, <2>1 DEF ShowsAnswer, AnswersHold
  <2>5. AnswersHold'
    BY <1>0, <2>1, <2>3, <2>4, AnswersFrame DEF StopAll
  <2>6. settled' /\ ShownOver'
    <3>1. task' = call[On("error")]
      BY <2>1 DEF Show
    <3> QED BY <2>1, <2>5, <3>1 DEF AnswersHold
  <2> QED BY <2>1, <2>2, <2>3, <2>5, <2>6, LoadPast DEF StopInv
<1>3. CASE TryAgain
  <2>1. /\ call[On("error")] # NoCall
        /\ UNCHANGED <<server, wire, error>>
        /\ Reconnect
        /\ \/ call[On("error")] \in Detail /\ Show(call[On("error")])
           \/ UNCHANGED shown
    BY <1>3 DEF TryAgain
  <2>2. call[On("load")] = NoCall /\ error # "load"
    BY <1>0, <2>1 DEF LoadsFirst
  <2>3. /\ KeepsCalls /\ call'[On("load")] = NoCall /\ (retryTimer' \/ pollTimer')
    <3>1. CASE SetRetryTimer
      BY <1>0, <2>1, <2>2, <3>1 DEF SetRetryTimer, KeepsCalls
    <3>2. CASE StartPolling
      <4>1. /\ call' = [call EXCEPT ![On("error")] = NoCall, ![On("poll")] = Asked] /\ pollTimer'
            /\ On("close") # On("poll")
        BY <3>2 DEF StartPolling, On
      <4>2. /\ \A c \in Caller : call'[c] = call[c] \/ call'[c] \in {NoCall, Asked, Failed}
            /\ call'[On("close")] = call[On("close")]
            /\ call'[On("load")] = call[On("load")]
        BY <1>0, <4>1
      <4> QED BY <2>2, <4>1, <4>2 DEF KeepsCalls
    <3> QED BY <2>1, <3>1, <3>2 DEF Reconnect
  <2>4. KeepsWire
    BY <1>0, <2>1, SameKeepsWire
  <2>5. KeepsShown \/ ShowsAnswer
    BY <1>0, <2>1 DEF KeepsShown, ShowsAnswer, AnswersHold
  <2>6. AnswersHold'
    BY <1>0, <2>1, <2>3, <2>4, <2>5, AnswersFrame DEF StopAll
  <2> QED BY <2>1, <2>2, <2>3, <2>6, LoadPast DEF StopInv, NoChannel
<1>4. CASE RetryTimer
  <2>1. /\ retryTimer /\ UNCHANGED <<server, call, shown, error, cancelled>>
        /\ cancelled \/ es'
    BY <1>4 DEF RetryTimer, ConnectSse
  <2>2. call[On("load")] = NoCall /\ error # "load"
    BY <1>0, <2>1 DEF OneChannel, B, LoadsFirst, NoChannel
  <2>3. KeepsShown /\ KeepsCalls
    BY <2>1 DEF KeepsShown, KeepsCalls
  <2>4. KeepsWire
    BY <1>0, <1>4, SameKeepsWire, EmptyKeepsWire DEF RetryTimer, NoConnect, ConnectSse
  <2>5. AnswersHold'
    BY <1>0, <2>1, <2>3, <2>4, AnswersFrame DEF StopAll
  <2> QED BY <2>1, <2>2, <2>5, LoadPast DEF StopInv, NoChannel
<1> QED BY <1>1, <1>2, <1>3, <1>4

LEMMA PageKeepsStop ==
    ASSUME StopAll, TaskEffect \/ PollTick \/ Click \/ Unmount
    PROVE  AnswersHold' /\ LoadsFirst' /\ StopInv'
<1> USE CallAssumption, CallersDiffer DEF server, stream, shown, control, bounds
<1>0. /\ TypeOK /\ TypeOK' /\ AnswersHold /\ call \in [Caller -> Detail \union {NoCall, Asked, Failed}]
      /\ LoadsFirst /\ OneChannel
  BY PageKeepsInv DEF StopAll, ClientInv, TypeOK
<1>1. CASE TaskEffect
  <2>1. /\ dirty /\ ~dirty'
        /\ UNCHANGED <<server, wire, call, task, rows, overtaken, error, es, reconnecting,
                       retryTimer, cancelled, lost>>
        /\ task \in Detail
    BY <1>0, <1>1 DEF TaskEffect, AnswersHold
  <2>2. KeepsShown /\ KeepsCalls /\ KeepsWire
    BY <1>0, <2>1, SameKeepsWire DEF KeepsShown, KeepsCalls
  <2>3. AnswersHold' /\ (ShownOver => ShownOver')
    BY <1>0, <2>1, <2>2, AnswersFrame DEF StopAll
  <2>4. CASE task.settled
    <3>1. settled' /\ ShownOver' /\ mode' = "idle" /\ ~pollTimer'
      BY <1>0, <1>1, <2>1, <2>3, <2>4 DEF TaskEffect, AnswersHold
    <3>2. LoadsFirst'
      BY <1>0, <2>1, <3>1 DEF LoadsFirst, NoChannel
    <3> QED BY <2>3, <3>1, <3>2 DEF StopInv
  <2>5. CASE ~task.settled
    <3>1. mode' = mode /\ pollTimer' = pollTimer
      BY <1>1, <2>5 DEF TaskEffect
    <3>2. LoadsFirst' /\ (NoChannel' <=> NoChannel)
      BY <1>0, <2>1, <3>1, LoadsFrame DEF NoChannel
    <3> QED BY <2>1, <2>3, <3>1, <3>2, StopFrame
  <2> QED BY <2>4, <2>5
<1>2. CASE PollTick \/ Click
  <2>1. /\ UNCHANGED <<server, stream, shown, mode, error, control, lost>>
        /\ \E c \in {On("poll"), On("user")} : call' = [call EXCEPT ![c] = Asked]
        /\ pollTimer \/ (error = "none" /\ task # NoTask)
    BY <1>2 DEF PollTick, Click
  <2>2. call[On("load")] = NoCall /\ error # "load"
    BY <1>0, <2>1 DEF OneChannel, B, LoadsFirst, NoChannel
  <2>3. KeepsShown /\ KeepsCalls /\ KeepsWire /\ call'[On("load")] = NoCall
        /\ call'[On("close")] = call[On("close")]
    <3>1. PICK c \in {On("poll"), On("user")} : call' = [call EXCEPT ![c] = Asked]
      BY <2>1
    <3>2. c # On("close") /\ c # On("load") /\ c \in Caller
      BY <3>1 DEF On
    <3>3. /\ \A d \in Caller : call'[d] = call[d] \/ call'[d] \in {NoCall, Asked, Failed}
          /\ call'[On("close")] = call[On("close")]
          /\ call'[On("load")] = call[On("load")]
      BY <1>0, <3>1, <3>2
    <3>4. KeepsCalls
      BY <3>3 DEF KeepsCalls
    <3> QED BY <1>0, <2>1, <2>2, <3>3, <3>4, SameKeepsWire DEF KeepsShown
  <2>4. AnswersHold' /\ (ShownOver => ShownOver')
    BY <1>0, <2>1, <2>3, AnswersFrame DEF StopAll
  <2>5. LoadsFirst'
    BY <2>1, <2>2, <2>3, LoadPast
  <2>6. NoChannel' => NoChannel
    BY <2>1, <2>2 DEF NoChannel
  <2> QED BY <2>1, <2>3, <2>4, <2>5, <2>6, StopFrame
<1>3. CASE Unmount
  <2>1. /\ cancelled' /\ wire' = <<>> /\ ~es' /\ ~pollTimer'
        /\ UNCHANGED <<server, call, shown, error, reconnecting, retryTimer>>
    BY <1>3 DEF Unmount
  <2>2. KeepsShown /\ KeepsCalls /\ KeepsWire
    BY <2>1, EmptyKeepsWire DEF KeepsShown, KeepsCalls
  <2>3. AnswersHold'
    BY <1>0, <2>1, <2>2, AnswersFrame DEF StopAll
  <2>4. LoadsFirst'
    BY <1>0, <2>1 DEF LoadsFirst, NoChannel
  <2> QED BY <2>1, <2>3, <2>4 DEF StopInv
<1> QED BY <1>1, <1>2, <1>3

LEMMA StopNext == StopAll /\ [Next]_vars => StopAll'
<1> SUFFICES ASSUME StopAll, [Next]_vars PROVE AnswersHold' /\ LoadsFirst' /\ StopInv'
  BY ClientNext DEF StopAll
<1>1. CASE UNCHANGED vars
  BY <1>1 DEF vars, server, stream, shown, control, bounds, StopAll, AnswersHold, LoadsFirst,
              StopInv, NoChannel, ShownOver
<1>2. CASE Settle \/ Record \/ ServerStep
  BY <1>2, ServerKeepsStop, CallsKeepStop DEF ServerStep
<1>3. CASE PageStep
  BY <1>3, LoadKeepsStop, RefreshKeepsStop, StreamKeepsStop, ErrorKeepsStop, PageKeepsStop
     DEF PageStep
<1>4. CASE PollTick \/ OnError \/ Click \/ Unmount
  BY <1>4, ErrorKeepsStop, PageKeepsStop
<1>5. CASE \E c \in Caller : CallFails(c)
  BY <1>5, CallsKeepStop
<1> QED BY <1>1, <1>2, <1>3, <1>4, <1>5 DEF Next

\* A page that has loaded, and is neither gone nor doing anything, shows its
\* task as over, with every event recorded by its end; unless the refresh
\* after the close was lost or an older answer arrived after a newer one.
THEOREM StopsOnlyWhenTaskIsOver == Spec => []StopsOnlyWhenOver
<1>1. Init => StopAll
  BY ClientInit, StopInit DEF StopAll
<1>2. StopAll => StopsOnlyWhenOver
  <2> SUFFICES ASSUME StopAll, Quiet, ~cancelled, error # "load"
               PROVE  /\ settled
                      /\ mode = "idle"
                      /\ On("close") \in lost \/ overtaken \/ (task.settled /\ rows >= due)
    BY DEF StopsOnlyWhenOver
  <2>1. NoChannel /\ call[On("close")] = NoCall
    BY CallersDiffer DEF Quiet, NoChannel
  <2> QED BY <2>1 DEF StopAll, StopInv, ShownOver
<1> QED BY <1>1, <1>2, StopNext, PTL DEF Spec
=============================================================================
