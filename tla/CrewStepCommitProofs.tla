------------------------ MODULE CrewStepCommitProofs ------------------------
(***************************************************************************)
(* Proofs about CrewStepCommit, for any set of attempts and any role.      *)
(***************************************************************************)
EXTENDS CrewStepCommit, TLAPS

\* The open INSERT is that of the attempt about to commit, and it is open
\* only while nothing is committed.
KeyHeld ==
    /\ \A a \in Attempts : pc[a] = "commit" <=> holder = a
    /\ holder # NoAttempt => row = NoAttempt

\* What an attempt holds, by where it is.
Holds ==
    \A a \in Attempts :
        /\ pc[a] \in {"recheck", "select", "insert", "commit"} => out[a] = a
        /\ pc[a] \in {"publish", "merge"} => out[a] = a /\ row = a
        /\ pc[a] \in {"tools", "returned"} => out[a] = row /\ row # NoAttempt

CommitInv == TypeOK /\ KeyHeld /\ Holds /\ EffectsBelongToRow /\ PeerOutputIsThere

-----------------------------------------------------------------------------
\* The invariant holds before the first delivery.
LEMMA CommitInvInit == Init => CommitInv
BY CrewAssumption
   DEF Init, CommitInv, TypeOK, KeyHeld, Holds, EffectsBelongToRow, PeerOutputIsThere, Pcs, Over

\* Actions that read the row and move one attempt: loads and the SELECT.
LEMMA ReadsKeepInv ==
    ASSUME NEW a \in Attempts, CommitInv,
           Precheck(a) \/ Recheck(a) \/ Select(a) \/ Reload(a)
    PROVE  CommitInv'
<1> USE CrewAssumption DEF CommitInv, TypeOK, Goto, Hold, UseStored, AfterCommit, effects, Pcs, Over
<1>1. TypeOK'
  BY DEF Precheck, Recheck, Select, Reload
<1>2. KeyHeld'
  BY DEF Precheck, Recheck, Select, Reload, KeyHeld
<1>3. Holds'
  BY DEF Precheck, Recheck, Select, Reload, Holds
<1>4. EffectsBelongToRow'
  BY DEF Precheck, Recheck, Select, Reload, EffectsBelongToRow
<1>5. PeerOutputIsThere'
  BY DEF Precheck, Recheck, Select, Reload, PeerOutputIsThere
<1> QED BY <1>1, <1>2, <1>3, <1>4, <1>5

\* Actions of the open transaction: INSERT, COMMIT and the ways to lose it.
LEMMA TransactionKeepsInv ==
    ASSUME NEW a \in Attempts, CommitInv,
           Insert(a) \/ Commit(a) \/ Fail(a) \/ FailAfterCommit(a)
    PROVE  CommitInv'
<1> USE CrewAssumption DEF CommitInv, TypeOK, Goto, effects, Pcs, Over, KeyHeld
<1>1. TypeOK'
  BY DEF Insert, Commit, Fail, FailAfterCommit, Started
<1>2. KeyHeld'
  BY DEF Insert, Commit, Fail, FailAfterCommit, Started
<1>3. Holds'
  BY DEF Insert, Commit, Fail, FailAfterCommit, Started, Holds
<1>4. EffectsBelongToRow'
  BY DEF Insert, Commit, Fail, FailAfterCommit, Started, EffectsBelongToRow
<1>5. PeerOutputIsThere'
  BY DEF Insert, Commit, Fail, FailAfterCommit, Started, PeerOutputIsThere
<1> QED BY <1>1, <1>2, <1>3, <1>4, <1>5

\* Actions that leave the key alone: the agent's run and the side effects.
LEMMA EffectsKeepInv ==
    ASSUME NEW a \in Attempts, CommitInv,
           RunRole(a) \/ Publish(a) \/ MergeRuntime(a) \/ PersistToolCalls(a)
    PROVE  CommitInv'
<1> USE CrewAssumption DEF CommitInv, TypeOK, Goto, Hold, AfterCommit, effects, Pcs, Over, Holds
<1>1. TypeOK'
  BY DEF RunRole, Publish, MergeRuntime, PersistToolCalls
<1>2. KeyHeld'
  BY DEF RunRole, Publish, MergeRuntime, PersistToolCalls, KeyHeld
<1>3. Holds'
  BY DEF RunRole, Publish, MergeRuntime, PersistToolCalls
<1>4. EffectsBelongToRow'
  BY DEF RunRole, Publish, MergeRuntime, PersistToolCalls, EffectsBelongToRow
<1>5. PeerOutputIsThere'
  BY DEF RunRole, Publish, MergeRuntime, PersistToolCalls, PeerOutputIsThere
<1> QED BY <1>1, <1>2, <1>3, <1>4, <1>5

\* A stuttering step changes nothing the invariant speaks of.
LEMMA StutterKeepsInv == CommitInv /\ UNCHANGED vars => CommitInv'
BY DEF CommitInv, TypeOK, KeyHeld, Holds, EffectsBelongToRow, PeerOutputIsThere, vars

\* CommitInv is inductive and holds in every reachable state.
THEOREM CommitInvariant == Spec => []CommitInv
<1>1. CommitInv /\ [Next]_vars => CommitInv'
  BY ReadsKeepInv, TransactionKeepsInv, EffectsKeepInv, StutterKeepsInv DEF Next, Proceed
<1> QED BY CommitInvInit, <1>1, PTL DEF Spec

\* Every variable keeps its type.
THEOREM CommitTypeCorrect == Spec => []TypeOK
BY CommitInvariant, PTL DEF CommitInv

\* Every attempt that returns gives the workflow the stored output.
THEOREM AnswersAreCanonical == Spec => []ReturnedIsCanonical
<1>1. CommitInv => ReturnedIsCanonical
  BY DEF CommitInv, Holds, ReturnedIsCanonical
<1> QED BY CommitInvariant, <1>1, PTL

\* Tool-call rows, event and runtime state are those of the stored output.
THEOREM EffectsAreCanonical == Spec => []EffectsBelongToRow
BY CommitInvariant, PTL DEF CommitInv

\* The RuntimeError after a lost race cannot be raised.
THEOREM PeerOutputIsAlwaysThere == Spec => []PeerOutputIsThere
BY CommitInvariant, PTL DEF CommitInv

-----------------------------------------------------------------------------
\* Refinement of RecordedStep

\* An attempt that takes the stored output answers with it, or will.
LEMMA ReturnAnswers ==
    ASSUME NEW a \in Attempts, TypeOK, TypeOK', row' = row, row # NoAttempt,
           pc[a] # "returned", Goto(a, AfterCommit), out' = [out EXCEPT ![a] = row]
    PROVE  [Register!RegisterNext]_(Register!registerVars)
<1>1. CASE HasTools
  <2>1. Answered' = Answered
    BY <1>1 DEF Answered, Goto, AfterCommit, TypeOK
  <2> QED BY <2>1 DEF Register!registerVars
<1>2. CASE ~HasTools
  <2>1. Answered' = [Answered EXCEPT ![a] = row] /\ Answered[a] = NoAttempt
    BY <1>2 DEF Answered, Goto, AfterCommit, TypeOK
  <2>2. Register!Answer(a)
    BY <2>1 DEF Register!Answer
  <2> QED BY <2>2 DEF Register!RegisterNext
<1> QED BY <1>1, <1>2

\* A step that leaves the row alone and neither enters nor leaves "returned"
\* nor touches what a returned attempt holds is invisible.
LEMMA InvisibleStep ==
    ASSUME NEW a \in Attempts, NEW l \in Pcs \ {"returned"}, TypeOK, row' = row,
           pc[a] # "returned", Goto(a, l),
           \E o \in Attempts \union {NoAttempt} : out' = [out EXCEPT ![a] = o]
    PROVE  UNCHANGED Register!registerVars
<1>1. Answered' = Answered
  BY DEF Answered, Goto, TypeOK
<1> QED BY <1>1 DEF Register!registerVars

\* Every step of an attempt is a Record, an Answer or a stutter.
LEMMA AttemptRefines ==
    ASSUME NEW a \in Attempts, CommitInv, CommitInv',
           Precheck(a) \/ Proceed(a) \/ Fail(a) \/ FailAfterCommit(a)
    PROVE  [Register!RegisterNext]_(Register!registerVars)
<1> USE DEF CommitInv
<1>1. ASSUME UseStored(a), row' = row, pc[a] # "returned"
      PROVE  [Register!RegisterNext]_(Register!registerVars)
  BY <1>1, ReturnAnswers DEF UseStored, Hold
<1>2. ASSUME NEW l \in Pcs \ {"returned"}, Goto(a, l), row' = row, pc[a] # "returned",
             out' = out \/ out' = [out EXCEPT ![a] = a]
      PROVE  [Register!RegisterNext]_(Register!registerVars)
  <2>1. out = [out EXCEPT ![a] = out[a]] /\ out[a] \in Attempts \union {NoAttempt}
    BY DEF TypeOK
  <2> QED BY <1>2, <2>1, InvisibleStep
<1>3. ASSUME Goto(a, "returned"), row' = row, out' = out, pc[a] # "returned",
             out[a] = row, row # NoAttempt
      PROVE  [Register!RegisterNext]_(Register!registerVars)
  <2>1. Answered' = [Answered EXCEPT ![a] = row] /\ Answered[a] = NoAttempt
    BY <1>3 DEF Answered, Goto, TypeOK
  <2> QED BY <1>3, <2>1 DEF Register!Answer, Register!RegisterNext
<1>4. ASSUME pc[a] = "commit", row' = a, out' = out,
             NEW l \in {"publish", "failed"}, Goto(a, l)
      PROVE  [Register!RegisterNext]_(Register!registerVars)
  <2>1. row = NoAttempt
    BY <1>4, CrewAssumption DEF KeyHeld
  <2>2. Answered' = Answered
    BY <1>4 DEF Answered, Goto, TypeOK
  <2> QED BY <1>4, <2>1, <2>2 DEF Register!Record, Register!RegisterNext
<1> USE DEF Pcs, Over
<1>5. CASE Precheck(a) \/ Recheck(a) \/ Reload(a)
  BY <1>5, <1>1, <1>2 DEF Precheck, Recheck, Reload
<1>6. CASE RunRole(a) \/ Select(a) \/ Insert(a)
  BY <1>6, <1>2 DEF RunRole, Select, Insert, Hold
<1>7. CASE Commit(a) \/ FailAfterCommit(a)
  BY <1>7, <1>4 DEF Commit, FailAfterCommit
<1>8. CASE Publish(a) \/ Fail(a)
  BY <1>8, <1>2 DEF Publish, Fail, Started
<1>9. CASE MergeRuntime(a)
  BY <1>9, <1>2, <1>3, CrewAssumption DEF MergeRuntime, AfterCommit, Holds
<1>10. CASE PersistToolCalls(a)
  BY <1>10, <1>3 DEF PersistToolCalls, Holds
<1> QED BY <1>5, <1>6, <1>7, <1>8, <1>9, <1>10 DEF Proceed

\* The step implements the write-once register, for any set of attempts.
THEOREM StepIsWriteOnce == Spec => ImplementsRegister
<1>1. Init => Register!RegisterInit
  BY DEF Init, Register!RegisterInit, Answered
<1>2. CommitInv /\ CommitInv' /\ [Next]_vars => [Register!RegisterNext]_(Register!registerVars)
  <2>1. CASE UNCHANGED vars
    BY <2>1 DEF vars, Register!registerVars, Answered
  <2> QED BY <2>1, AttemptRefines DEF Next
<1> QED BY <1>1, <1>2, CommitInvariant, PTL DEF Spec, ImplementsRegister, Register!RegisterSpec
=============================================================================
