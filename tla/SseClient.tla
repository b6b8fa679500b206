------------------------------ MODULE SseClient ------------------------------
(***************************************************************************)
(* The task page of the browser (apps/web/src/hooks/useTaskEvents.ts)      *)
(* watching one task: a first GET, then an SSE stream whose every event    *)
(* makes it GET the task again, up to MaxReconnects reconnects in a row,   *)
(* then polling.  GETs overlap, fail and are answered in any order.        *)
(*                                                                         *)
(* The other side is the stream of api/routes/tasks.py 139-196, here one   *)
(* connection at a time, with the losses EventStream allows it.            *)
(***************************************************************************)
EXTENDS Naturals, Sequences

CONSTANTS
    MaxEvents,       \* bound: audit events of the task, recorded as 1, 2, ...
    MaxReconnects,   \* MAX_SSE_RECONNECTS
    MaxFailures,     \* bound on GETs that fail
    MaxClicks,       \* bound on pauses and resumes asked on the page
    NoTask,          \* nothing loaded yet
    NoCall, Asked, Failed  \* a GET: none, under way, failed

ASSUME ClientAssumption ==
    /\ MaxEvents \in Nat /\ MaxReconnects \in Nat
    /\ MaxFailures \in Nat /\ MaxClicks \in Nat

VARIABLES
    settled, trail,  \* the row is terminal; number of audit events recorded
    due,             \* trail when the row became terminal
    conn, wire,      \* the server's end of the stream; messages under way
    call,            \* the page's GETs of the task, by what asked for them
    task,            \* the detail last set
    rows, live,      \* events listed from the database; from the stream alone
    mode, error,     \* connectionMode and error
    dirty,           \* the effect on [task] has still to run
    es,              \* an EventSource is open
    reconnecting, reconnectCount,
    retryTimer, pollTimer,
    closedGracefully, cancelled,
    lost,            \* history: callers whose GET failed
    overtaken,       \* history: an older answer has replaced a newer one
    failures, clicks

server == <<settled, trail, due>>
stream == <<conn, wire>>
shown == <<task, rows, live, dirty, overtaken>>
control == <<es, reconnecting, reconnectCount, retryTimer, pollTimer, closedGracefully, cancelled>>
bounds == <<failures, clicks>>
vars == <<server, stream, call, shown, mode, error, control, lost, bounds>>

Event == 1..MaxEvents

\* What asks for a GET: the first load, an event, or another handler.
On(handler) == <<handler, 0>>
OnEvent(e) == <<"task_event", e>>
Caller == {On(h) : h \in {"load", "error", "close", "poll", "user"}} \union {OnEvent(e) : e \in Event}

\* What a GET returns: the row is read first, its events after, so the
\* events are never older than the status.
Detail == [settled : BOOLEAN, rows : 0..MaxEvents]
Message == [kind : {"snapshot", "task_event", "close"}, n : 0..MaxEvents]

ASSUME CallAssumption ==
    /\ NoCall # Asked /\ NoCall # Failed
    /\ \A detail \in Detail : detail \notin {NoTask, NoCall, Asked, Failed}

Init ==
    /\ settled = FALSE /\ trail = 0 /\ due = 0
    /\ conn = "none" /\ wire = <<>>
    /\ call = [c \in Caller |-> IF c = On("load") THEN Asked ELSE NoCall]
    /\ task = NoTask /\ rows = 0 /\ live = {} /\ dirty = FALSE
    /\ mode = "idle" /\ error = "none"
    /\ es = FALSE /\ reconnecting = FALSE /\ reconnectCount = 0
    /\ retryTimer = FALSE /\ pollTimer = FALSE
    /\ closedGracefully = FALSE /\ cancelled = FALSE
    /\ lost = {} /\ overtaken = FALSE
    /\ failures = 0 /\ clicks = 0

-----------------------------------------------------------------------------
\* The server

Msg(kind, n) == [kind |-> kind, n |-> n]

Settle ==
    /\ ~settled
    /\ settled' = TRUE /\ due' = trail
    /\ UNCHANGED <<trail, stream, call, shown, mode, error, control, lost, bounds>>

\* An event gets its row, also after the status is terminal, and reaches the
\* stream; or not: a failed broadcast, another replica, a stream that closes
\* with the event still in its queue.
Record ==
    /\ trail < MaxEvents
    /\ trail' = trail + 1
    /\ \/ UNCHANGED wire
       \/ conn = "subscribed" /\ wire' = Append(wire, Msg("task_event", trail + 1))
    /\ UNCHANGED <<settled, due, conn, call, shown, mode, error, control, lost, bounds>>

\* _task_event_stream up to its snapshot, and the close of a terminal task.
Snapshot ==
    /\ conn = "asked"
    /\ IF settled
       THEN /\ conn' = "ended"
            /\ wire' = <<Msg("snapshot", trail), Msg("close", 0)>>
       ELSE /\ conn' = "snapshot"
            /\ wire' = <<Msg("snapshot", trail)>>
    /\ UNCHANGED <<server, call, shown, mode, error, control, lost, bounds>>

Subscribe ==
    /\ conn = "snapshot"
    /\ conn' = "subscribed"
    /\ UNCHANGED <<server, wire, call, shown, mode, error, control, lost, bounds>>

\* The check after an event, or after 60 s of silence.
CloseStream ==
    /\ conn = "subscribed" /\ settled
    /\ conn' = "ended"
    /\ wire' = Append(wire, Msg("close", 0))
    /\ UNCHANGED <<server, call, shown, mode, error, control, lost, bounds>>

ServeCall(c) ==
    /\ call[c] = Asked
    /\ call' = [call EXCEPT ![c] = [settled |-> settled, rows |-> trail]]
    /\ UNCHANGED <<server, stream, shown, mode, error, control, lost, bounds>>

\* The request or its answer is lost, or the API answers an error.
CallFails(c) ==
    /\ call[c] \notin {NoCall, Failed} /\ failures < MaxFailures
    /\ failures' = failures + 1
    /\ call' = [call EXCEPT ![c] = Failed]
    /\ UNCHANGED <<server, stream, shown, mode, error, control, lost, clicks>>

-----------------------------------------------------------------------------
\* The page

\* setTask and setAuditEvents of an answer.
Show(detail) ==
    /\ task' = detail
    /\ rows' = detail.rows
    /\ live' = {}
    /\ dirty' = TRUE
    /\ overtaken' = \/ overtaken \/ detail.rows < rows
                    \/ task # NoTask /\ task.settled /\ ~detail.settled

ConnectSse ==
    /\ mode' = "sse"
    /\ es' = TRUE
    /\ conn' = "asked" /\ wire' = <<>>

NoConnect == UNCHANGED <<es, stream>>

LoadAnswered ==
    /\ call[On("load")] \in Detail /\ ~cancelled
    /\ call' = [call EXCEPT ![On("load")] = NoCall]
    /\ Show(call[On("load")])
    /\ IF call[On("load")].settled THEN mode' = "idle" /\ NoConnect ELSE ConnectSse
    /\ UNCHANGED <<server, error, reconnecting, reconnectCount, retryTimer, pollTimer,
                   closedGracefully, cancelled, lost, bounds>>

LoadFailed ==
    /\ call[On("load")] = Failed /\ ~cancelled
    /\ call' = [call EXCEPT ![On("load")] = NoCall]
    /\ error' = "load"
    /\ lost' = lost \union {On("load")}
    /\ UNCHANGED <<server, stream, shown, mode, control, bounds>>

\* The answers of the refreshes after an event, a close or a click, and of polls.
RefreshAnswered(c) ==
    /\ c \notin {On("load"), On("error")} /\ call[c] \in Detail /\ ~cancelled
    /\ call' = [call EXCEPT ![c] = NoCall]
    /\ Show(call[c])
    /\ UNCHANGED <<server, stream, mode, error, control, lost, bounds>>

\* Only a poll that fails is shown; its error is never cleared.
RefreshFailed(c) ==
    /\ c \notin {On("load"), On("error")} /\ call[c] = Failed /\ ~cancelled
    /\ call' = [call EXCEPT ![c] = NoCall]
    /\ lost' = lost \union {c}
    /\ error' = IF c = On("poll") THEN "poll" ELSE error
    /\ UNCHANGED <<server, stream, shown, mode, control, bounds>>

\* The page is gone: its answers change nothing.
AnswerAfterUnmount(c) ==
    /\ call[c] \in Detail \union {Failed} /\ cancelled
    /\ call' = [call EXCEPT ![c] = NoCall]
    /\ reconnecting' = (reconnecting /\ c # On("error"))
    /\ UNCHANGED <<server, stream, shown, mode, error, es, reconnectCount, retryTimer, pollTimer,
                   closedGracefully, cancelled, lost, bounds>>

\* The effect on [task].
TaskEffect ==
    /\ dirty
    /\ dirty' = FALSE
    /\ IF task.settled THEN mode' = "idle" /\ pollTimer' = FALSE ELSE UNCHANGED <<mode, pollTimer>>
    /\ UNCHANGED <<server, stream, call, task, rows, live, overtaken, error, es, reconnecting,
                   reconnectCount, retryTimer, closedGracefully, cancelled, lost, bounds>>

-----------------------------------------------------------------------------
\* The EventSource

Receive(kind) ==
    /\ es /\ wire # <<>> /\ Head(wire).kind = kind
    /\ wire' = Tail(wire)

\* The snapshot replaces the list alone; the counter starts again.
OnSnapshot ==
    /\ Receive("snapshot")
    /\ rows' = Head(wire).n /\ live' = {}
    /\ overtaken' = (overtaken \/ Head(wire).n < rows)
    /\ reconnectCount' = 0
    /\ UNCHANGED <<server, conn, call, task, dirty, mode, error, es, reconnecting, retryTimer,
                   pollTimer, closedGracefully, cancelled, lost, bounds>>

\* As if the list were not read again after an event.
OnTaskEventUnrefreshed ==
    /\ Receive("task_event")
    /\ live' = live \union {Head(wire).n}
    /\ reconnectCount' = 0
    /\ UNCHANGED <<server, conn, call, task, rows, dirty, overtaken, mode, error, es, reconnecting,
                   retryTimer, pollTimer, closedGracefully, cancelled, lost, bounds>>

\* The event joins the list under an id of its own, and the task is read again.
OnTaskEvent ==
    /\ Receive("task_event")
    /\ live' = live \union {Head(wire).n}
    /\ call' = [call EXCEPT ![OnEvent(Head(wire).n)] = Asked]
    /\ reconnectCount' = 0
    /\ UNCHANGED <<server, conn, task, rows, dirty, overtaken, mode, error, es, reconnecting,
                   retryTimer, pollTimer, closedGracefully, cancelled, lost, bounds>>

\* As if the page believed it had seen the last event.
OnCloseUnrefreshed ==
    /\ Receive("close")
    /\ closedGracefully' = TRUE /\ es' = FALSE /\ mode' = "idle"
    /\ UNCHANGED <<server, conn, call, shown, error, reconnecting, reconnectCount, retryTimer,
                   pollTimer, cancelled, lost, bounds>>

\* As if the source were left open.
OnCloseLeavesSource ==
    /\ Receive("close")
    /\ closedGracefully' = TRUE /\ mode' = "idle"
    /\ call' = [call EXCEPT ![On("close")] = Asked]
    /\ UNCHANGED <<server, conn, shown, error, es, reconnecting, reconnectCount, retryTimer,
                   pollTimer, cancelled, lost, bounds>>

OnClose ==
    /\ Receive("close")
    /\ closedGracefully' = TRUE /\ es' = FALSE /\ mode' = "idle"
    /\ call' = [call EXCEPT ![On("close")] = Asked]
    /\ UNCHANGED <<server, conn, shown, error, reconnecting, reconnectCount, retryTimer,
                   pollTimer, cancelled, lost, bounds>>

\* The connection breaks, cannot be opened, or the API process restarts.
\* onerror closes the source for good and reads the task first.
OnError ==
    /\ es /\ ~closedGracefully /\ ~cancelled /\ ~reconnecting
    /\ es' = FALSE /\ conn' = "ended" /\ wire' = <<>>
    /\ reconnecting' = TRUE
    /\ call' = [call EXCEPT ![On("error")] = Asked]
    /\ UNCHANGED <<server, shown, mode, error, reconnectCount, retryTimer, pollTimer,
                   closedGracefully, cancelled, lost, bounds>>

\* startPolling, when pollTimer is null; asks for a first poll.
StartPolling ==
    /\ mode' = "polling" /\ pollTimer' = TRUE /\ UNCHANGED retryTimer
    /\ call' = [call EXCEPT ![On("error")] = NoCall, ![On("poll")] = Asked]

SetRetryTimer ==
    /\ retryTimer' = TRUE /\ UNCHANGED <<mode, pollTimer>>
    /\ call' = [call EXCEPT ![On("error")] = NoCall]

\* As if there were no limit.
ReconnectForEver ==
    /\ reconnecting' = FALSE
    /\ reconnectCount' = reconnectCount + 1
    /\ SetRetryTimer

\* As if the return after the timer were missing.
ReconnectAndPoll ==
    /\ reconnecting' = FALSE
    /\ reconnectCount' = reconnectCount + 1
    /\ mode' = "polling" /\ pollTimer' = TRUE
    /\ retryTimer' = (reconnectCount < MaxReconnects)
    /\ call' = [call EXCEPT ![On("error")] = NoCall, ![On("poll")] = Asked]

Reconnect ==
    /\ reconnecting' = FALSE
    /\ reconnectCount' = reconnectCount + 1
    /\ IF reconnectCount < MaxReconnects THEN SetRetryTimer ELSE StartPolling

\* latest is terminal: no reconnect.
GiveUpSettled ==
    /\ call[On("error")] \in Detail /\ call[On("error")].settled /\ ~cancelled
    /\ call' = [call EXCEPT ![On("error")] = NoCall]
    /\ Show(call[On("error")])
    /\ closedGracefully' = TRUE /\ mode' = "idle" /\ reconnecting' = FALSE
    /\ UNCHANGED <<server, stream, error, es, reconnectCount, retryTimer, pollTimer, cancelled,
                   lost, bounds>>

TryAgain ==
    /\ ~cancelled /\ ~closedGracefully
    /\ \/ /\ call[On("error")] \in Detail /\ ~call[On("error")].settled
          /\ Show(call[On("error")]) /\ UNCHANGED lost
       \/ /\ call[On("error")] = Failed
          /\ lost' = lost \union {On("error")} /\ UNCHANGED shown
    /\ Reconnect
    /\ UNCHANGED <<server, stream, error, es, closedGracefully, cancelled, bounds>>

\* One second later.
RetryTimer ==
    /\ retryTimer
    /\ retryTimer' = FALSE
    /\ IF cancelled THEN NoConnect /\ UNCHANGED mode ELSE ConnectSse
    /\ UNCHANGED <<server, call, shown, error, reconnecting, reconnectCount, pollTimer,
                   closedGracefully, cancelled, lost, bounds>>

\* Bound: a tick that finds the poll before it unanswered is left out.
PollTick ==
    /\ pollTimer /\ call[On("poll")] = NoCall
    /\ call' = [call EXCEPT ![On("poll")] = Asked]
    /\ UNCHANGED <<server, stream, shown, mode, error, control, lost, bounds>>

-----------------------------------------------------------------------------
\* The user

\* TaskDetailPage: handlePause, handleResume; the buttons need a live task
\* and are disabled while one is under way.
Click ==
    /\ clicks < MaxClicks /\ ~cancelled /\ error = "none" /\ call[On("user")] = NoCall
    /\ task # NoTask /\ ~task.settled
    /\ clicks' = clicks + 1
    /\ call' = [call EXCEPT ![On("user")] = Asked]
    /\ UNCHANGED <<server, stream, shown, mode, error, control, lost, failures>>

\* The effect's cleanup.
Unmount ==
    /\ ~cancelled
    /\ cancelled' = TRUE /\ es' = FALSE /\ pollTimer' = FALSE
    /\ conn' = "ended" /\ wire' = <<>>
    /\ UNCHANGED <<server, call, shown, mode, error, reconnecting, reconnectCount, retryTimer,
                   closedGracefully, lost, bounds>>

-----------------------------------------------------------------------------
ServerStep == Snapshot \/ Subscribe \/ CloseStream \/ \E c \in Caller : ServeCall(c)

PageStep ==
    \/ LoadAnswered \/ LoadFailed \/ TaskEffect
    \/ \E c \in Caller : RefreshAnswered(c) \/ RefreshFailed(c) \/ AnswerAfterUnmount(c)
    \/ OnSnapshot \/ OnTaskEvent \/ OnClose
    \/ GiveUpSettled \/ TryAgain \/ RetryTimer

Next ==
    \/ Settle \/ Record \/ ServerStep \/ PageStep \/ PollTick
    \/ OnError \/ Click \/ Unmount
    \/ \E c \in Caller : CallFails(c)

Spec == Init /\ [][Next]_vars

\* The API's event loop and the browser's run whatever can go on; the poll
\* timer keeps ticking.
FairSpec ==
    /\ Spec
    /\ WF_vars(Snapshot) /\ WF_vars(Subscribe) /\ WF_vars(CloseStream)
    /\ \A c \in Caller : WF_vars(ServeCall(c)) /\ WF_vars(RefreshAnswered(c) \/ RefreshFailed(c))
    /\ WF_vars(LoadAnswered \/ LoadFailed) /\ WF_vars(GiveUpSettled \/ TryAgain)
    /\ WF_vars(OnSnapshot \/ OnTaskEvent \/ OnClose)
    /\ WF_vars(TaskEffect) /\ WF_vars(RetryTimer) /\ WF_vars(PollTick)

-----------------------------------------------------------------------------
TypeOK ==
    /\ settled \in BOOLEAN /\ trail \in 0..MaxEvents /\ due \in 0..MaxEvents
    /\ conn \in {"none", "asked", "snapshot", "subscribed", "ended"}
    /\ wire \in Seq(Message)
    /\ call \in [Caller -> Detail \union {NoCall, Asked, Failed}]
    /\ task \in Detail \union {NoTask}
    /\ rows \in 0..MaxEvents /\ live \subseteq Event
    /\ mode \in {"idle", "sse", "polling"} /\ error \in {"none", "load", "poll"}
    /\ reconnectCount \in 0..MaxReconnects + 1
    /\ {dirty, es, reconnecting, retryTimer, pollTimer, closedGracefully, cancelled, overtaken}
          \subseteq BOOLEAN
    /\ lost \subseteq Caller
    /\ failures \in 0..MaxFailures /\ clicks \in 0..MaxClicks

B(condition) == IF condition THEN 1 ELSE 0

\* The page follows the task in one way at a time: the first GET, the stream,
\* the read before a reconnect, the wait for it, or polling.  An unmounted
\* page holds neither a stream nor a poll timer, whatever was pending.
OneChannel ==
    /\ B(call[On("load")] # NoCall) + B(es) + B(reconnecting) + B(retryTimer) + B(pollTimer) <= 1
    /\ cancelled => ~es /\ ~pollTimer

\* Nothing is under way: the page will not change any more by itself.
Quiet ==
    /\ ~es /\ ~reconnecting /\ ~retryTimer /\ ~pollTimer /\ ~dirty
    /\ \A c \in Caller : call[c] = NoCall

\* A page that has loaded stops following its task only when that is over,
\* and shows it then, with every event recorded by its end; unless the last
\* refresh was lost or an older answer arrived after a newer one.
StopsOnlyWhenOver ==
    Quiet /\ ~cancelled /\ error # "load" =>
        /\ settled
        /\ mode = "idle"
        /\ On("close") \in lost \/ overtaken \/ (task.settled /\ rows >= due)

\* An entry that came by the stream may double the row of its event, under
\* another id; a GET that replaces the list is then under way, or has failed.
LiveEntriesAwaitRefresh ==
    ~cancelled => \A e \in live : call[OnEvent(e)] # NoCall \/ OnEvent(e) \in lost

\* Once the task is over the page stops watching, however often the stream
\* breaks: no reconnecting and no polling for ever.
WatchingEnds ==
    <>settled => <>[](cancelled \/ ~(es \/ reconnecting \/ retryTimer \/ pollTimer))
=============================================================================
