-------------------------- MODULE MCTaskLifecycle ---------------------------
(* Model values and limits for TLC on TaskLifecycle.                       *)
EXTENDS TaskLifecycleInv, TLC

\* Short retry policies: one retry everywhere, none for the last two.
ShortRetries == [s \in Step |-> IF s \in {"finalize", "markFailed"} THEN 1 ELSE 2]

\* The attempts of workflows/constraints.py.
SourceRetries == [s \in Step |-> IF s \in {"finalize", "markFailed"} THEN 2 ELSE 3]

NoRetries == [s \in Step |-> 1]

Symmetry == Permutations(Worker) \union Permutations(Request) \union Permutations(Output)

=============================================================================
