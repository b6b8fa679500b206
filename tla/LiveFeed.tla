------------------------------ MODULE LiveFeed ------------------------------
(***************************************************************************)
(* What the audit trail of a task promises its watchers: it only grows,    *)
(* and a watcher is told live of an event that is in it, once.             *)
(***************************************************************************)

CONSTANTS
    Stream,    \* the watchers
    EventKey   \* the events, by their audit idempotency key

VARIABLES
    audit,     \* the recorded events
    told       \* told[s]: the events watcher s has been told live

feedVars == <<audit, told>>

FeedInit ==
    /\ audit = {}
    /\ told = [s \in Stream |-> {}]

RecordEvent(k) ==
    /\ k \notin audit
    /\ audit' = audit \union {k}
    /\ UNCHANGED told

Tell(s, k) ==
    /\ k \in audit \ told[s]
    /\ told' = [told EXCEPT ![s] = @ \union {k}]
    /\ UNCHANGED audit

FeedNext == \E k \in EventKey :
    \/ RecordEvent(k)
    \/ \E s \in Stream : Tell(s, k)

FeedSpec == FeedInit /\ [][FeedNext]_feedVars
=============================================================================
