---------------------------- MODULE RecordedStep ----------------------------
(***************************************************************************)
(* What a workflow step promises however often it is delivered: its output *)
(* is recorded once, and whoever answers, answers with what was recorded.  *)
(***************************************************************************)

CONSTANTS
    Attempts,   \* deliveries of one activity call; each would compute its own output
    NoAttempt   \* nothing recorded

VARIABLES
    row,        \* the attempt whose output is recorded, or NoAttempt
    answer      \* answer[a]: the output attempt a answered with, or NoAttempt

registerVars == <<row, answer>>

RegisterInit ==
    /\ row = NoAttempt
    /\ answer = [a \in Attempts |-> NoAttempt]

\* An attempt records its own output, if nothing is recorded yet.
Record(a) ==
    /\ row = NoAttempt
    /\ row' = a
    /\ UNCHANGED answer

\* An attempt answers with the recorded output.
Answer(a) ==
    /\ row # NoAttempt
    /\ answer[a] = NoAttempt
    /\ answer' = [answer EXCEPT ![a] = row]
    /\ UNCHANGED row

RegisterNext == \E a \in Attempts : Record(a) \/ Answer(a)

RegisterSpec == RegisterInit /\ [][RegisterNext]_registerVars
=============================================================================
