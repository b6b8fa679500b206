----------------------- MODULE CheckpointResumeProofs ------------------------
(***************************************************************************)
(* Proofs about CheckpointResume, for any number of attempts, overlaps,    *)
(* failures and queued stores.                                             *)
(***************************************************************************)
EXTENDS CheckpointResume, TLAPS, SequenceTheorems, FiniteSetTheorems

-----------------------------------------------------------------------------
\* The order of the nodes

LEMMA RankTable ==
    /\ DOMAIN Rank = {"input", "start", "plan", "select_roles", "researcher", "analyst",
                      "writer", "persist_result", "end"}
    /\ Rank["input"] = 1 /\ Rank["start"] = 2 /\ Rank["plan"] = 3 /\ Rank["select_roles"] = 4
    /\ Rank["researcher"] = 5 /\ Rank["analyst"] = 6 /\ Rank["writer"] = 7
    /\ Rank["persist_result"] = 8 /\ Rank["end"] = 9
<1>1. /\ Path[1] = "input" /\ Path[2] = "start" /\ Path[3] = "plan" /\ Path[4] = "select_roles"
      /\ Path[5] = "researcher" /\ Path[6] = "analyst" /\ Path[7] = "writer"
      /\ Path[8] = "persist_result" /\ Path[9] = "end"
  BY DEF Path
<1>2. 1..9 = {1, 2, 3, 4, 5, 6, 7, 8, 9}
  OBVIOUS
<1>3. {Path[i] : i \in 1..9} =
        {"input", "start", "plan", "select_roles", "researcher", "analyst", "writer",
         "persist_result", "end"}
  BY <1>1, <1>2
<1>4. \A i, j \in 1..9 : Path[i] = Path[j] => i = j
  BY <1>1, <1>2
<1>5. \A i \in 1..9 : Rank[Path[i]] = i
  <2> SUFFICES ASSUME NEW i \in 1..9 PROVE Rank[Path[i]] = i
    OBVIOUS
  <2>1. Rank[Path[i]] = CHOOSE j \in 1..9 : Path[j] = Path[i]
    BY DEF Rank
  <2>2. (CHOOSE j \in 1..9 : Path[j] = Path[i]) \in 1..9
    OBVIOUS
  <2>3. Path[CHOOSE j \in 1..9 : Path[j] = Path[i]] = Path[i]
    OBVIOUS
  <2> QED BY <2>1, <2>2, <2>3, <1>4
<1>6. DOMAIN Rank = {Path[i] : i \in 1..9}
  BY DEF Rank
<1> QED BY <1>1, <1>2, <1>3, <1>5, <1>6

LEMMA NodeTable ==
    Node = {"start", "plan", "select_roles", "researcher", "analyst", "writer", "persist_result"}
<1>1. 2..8 = {2, 3, 4, 5, 6, 7, 8}
  OBVIOUS
<1> QED BY <1>1 DEF Node, Path

LEMMA RankOrders ==
    /\ \A n \in DOMAIN Rank : Rank[n] \in 1..9
    /\ \A m, n \in DOMAIN Rank : Rank[m] = Rank[n] => m = n
    /\ Node \union {"input"} \subseteq DOMAIN Rank
    /\ \A n \in Node : Rank[n] > 1
BY RankTable, NodeTable

Later(c) == {m \in DOMAIN Rank : Rank[m] > Rank[c.last] /\ (m \in OptionalRole => m \in c.roles)}

\* The edges of the graph lead to the first node that is still to come.
LEMMA SuccessorFirst ==
    ASSUME NEW c \in Checkpoint
    PROVE  /\ Successor(c) \in Later(c)
           /\ \A m \in Later(c) : Rank[Successor(c)] <= Rank[m]
<1>1. c.last \in Node \union {"input"}
  BY DEF Checkpoint
<1>2. \E n \in DOMAIN Rank : n \in Later(c) /\ \A m \in Later(c) : Rank[n] <= Rank[m]
  <2> USE RankTable, NodeTable DEF Later, OptionalRole
  <2>1. CASE c.last = "input"
    BY <2>1
  <2>2. CASE c.last = "start"
    BY <2>2
  <2>3. CASE c.last = "plan"
    BY <2>3
  <2>4. CASE c.last = "select_roles"
    <3>1. CASE "researcher" \in c.roles
      BY <2>4, <3>1
    <3>2. CASE "researcher" \notin c.roles /\ "analyst" \in c.roles
      BY <2>4, <3>2
    <3>3. CASE "researcher" \notin c.roles /\ "analyst" \notin c.roles
      BY <2>4, <3>3
    <3> QED BY <3>1, <3>2, <3>3
  <2>5. CASE c.last = "researcher"
    <3>1. CASE "analyst" \in c.roles
      BY <2>5, <3>1
    <3>2. CASE "analyst" \notin c.roles
      BY <2>5, <3>2
    <3> QED BY <3>1, <3>2
  <2>6. CASE c.last = "analyst"
    BY <2>6
  <2>7. CASE c.last = "writer"
    BY <2>7
  <2>8. CASE c.last = "persist_result"
    BY <2>8
  <2> QED BY <1>1, <2>1, <2>2, <2>3, <2>4, <2>5, <2>6, <2>7, <2>8
<1>3. Successor(c) = CHOOSE n \in DOMAIN Rank :
                        n \in Later(c) /\ \A m \in Later(c) : Rank[n] <= Rank[m]
  BY DEF Successor, Later
<1> QED BY <1>2, <1>3

LEMMA SuccessorIsNode ==
    ASSUME NEW c \in Checkpoint, Successor(c) # "end"
    PROVE  Successor(c) \in Node /\ Rank[Successor(c)] > Rank[c.last]
<1>1. Successor(c) \in DOMAIN Rank /\ Rank[Successor(c)] > Rank[c.last]
  BY SuccessorFirst DEF Later
<1>2. c.last \in DOMAIN Rank
  BY RankOrders DEF Checkpoint
<1>3. Successor(c) # "input"
  BY <1>1, <1>2, RankOrders, RankTable
<1> QED BY <1>1, <1>3, RankTable, NodeTable

\* A node's checkpoint has behind it what its predecessor has, and the node.
LEMMA BehindGrows ==
    ASSUME NEW c \in Checkpoint, NEW d \in Checkpoint, d.last = Successor(c), d.last # "end",
           d.roles = c.roles \/ d.last = "plan"
    PROVE  Behind(d) \subseteq Behind(c) \union {d.last}
<1> SUFFICES ASSUME NEW m \in Behind(d), m # d.last PROVE m \in Behind(c)
  OBVIOUS
<1>1. /\ m \in Node /\ Rank[m] <= Rank[d.last] /\ (m \in OptionalRole => m \in d.roles)
      /\ m \in DOMAIN Rank /\ d.last \in DOMAIN Rank /\ c.last \in DOMAIN Rank
  BY RankOrders DEF Behind, Checkpoint
<1>2. m \in OptionalRole => m \in c.roles
  <2>1. CASE d.roles = c.roles
    BY <1>1, <2>1
  <2>2. CASE d.last = "plan"
    BY <1>1, <2>2, RankTable DEF OptionalRole
  <2> QED BY <2>1, <2>2
<1>3. CASE Rank[m] <= Rank[c.last]
  BY <1>1, <1>2, <1>3 DEF Behind
<1>4. CASE Rank[m] > Rank[c.last]
  <2>1. m \in Later(c)
    BY <1>1, <1>2, <1>4 DEF Later
  <2>2. Rank[d.last] <= Rank[m]
    BY <2>1, SuccessorFirst
  <2>3. Rank[m] \in 1..9 /\ Rank[d.last] \in 1..9
    BY <1>1, RankOrders
  <2>4. Rank[m] = Rank[d.last]
    BY <1>1, <2>2, <2>3
  <2> QED BY <1>1, <2>4, RankOrders
<1>5. Rank[m] \in 1..9 /\ Rank[c.last] \in 1..9
  BY <1>1, RankOrders
<1> QED BY <1>3, <1>4, <1>5

LEMMA NothingBehindInput == \A a \in Attempts : Input(a) \in Checkpoint /\ Behind(Input(a)) = {}
<1> SUFFICES ASSUME NEW a \in Attempts PROVE Input(a) \in Checkpoint /\ Behind(Input(a)) = {}
  OBVIOUS
<1>1. Input(a) \in Checkpoint
  BY DEF Input, Checkpoint, Nobody, Author, OptionalRole
<1>2. \A n \in Node : Rank[n] > 1 /\ Rank[n] \in 1..9
  BY RankOrders
<1>3. Input(a).last = "input" /\ Rank["input"] = 1
  BY RankTable DEF Input
<1> QED BY <1>1, <1>2, <1>3 DEF Behind

LEMMA IdsInUse == \A c \in Checkpoint : Id(c) \in Ids \ {NoId}
BY CheckpointAssumption DEF Id, Ids, NoId, Checkpoint

-----------------------------------------------------------------------------
\* Types

Put == [key : Ids, content : Checkpoint, stored : BOOLEAN]
Job == [key : Ids, tries : 0..2, read : BOOLEAN, seen : SUBSET Entry, entry : Entry]

\* The draft continues the checkpoint of its graph by one node.
DraftFollows ==
    \A a \in Attempts : pc[a] \in Executing =>
        /\ draft[a].run = a /\ draft[a].last = Successor(graph[a]) /\ draft[a].last \in Node
        /\ draft[a].roles = graph[a].roles \/ draft[a].last = "plan"
        /\ draft[a].by = IF draft[a].last \in Author
                         THEN [graph[a].by EXCEPT ![draft[a].last] = a] ELSE graph[a].by

\* A key in a queue names a checkpoint; one that is stored is there.
KeysInUse ==
    \A a \in Attempts : \A i \in 1..Len(puts[a]) :
        /\ puts[a][i].key # NoId
        /\ puts[a][i].stored => puts[a][i].key \in DOMAIN blob

\* The pending writes that are stored, read, or waiting to be stored.
Entries ==
    {w \in Entry : \/ \E i \in Ids : w \in writes[i]
                   \/ \E a \in Attempts : w \in loaded[a]
                   \/ \E a \in Attempts : \E j \in jobs[a] : w = j.entry \/ w \in j.seen}

\* A write belongs to the node it is filed for.
EntriesFit == \A w \in Entries : w.out.last = w.task[2]

Act(a) == Open(a) \/ Run(a) \/ Background(a) \/ End(a)

LEMMA TypesInit == Init => TypeOK /\ DraftFollows /\ KeysInUse /\ EntriesFit /\ IndexedIsStored
<1> SUFFICES ASSUME Init
             PROVE  TypeOK /\ DraftFollows /\ KeysInUse /\ EntriesFit /\ IndexedIsStored
  OBVIOUS
<1> USE DEF Init
<1>1. \A a \in Attempts : Input(a) \in Checkpoint
  BY NothingBehindInput
<1>2. NoId \in Ids /\ DOMAIN blob = {}
  BY DEF Ids, NoId
<1>3. pc \in [Attempts -> Pcs]
  BY DEF Pcs
<1>4. /\ graph \in [Attempts -> Checkpoint] /\ draft \in [Attempts -> Checkpoint]
      /\ parent \in [Attempts -> Ids] /\ fresh \in [Attempts -> BOOLEAN]
      /\ loaded \in [Attempts -> SUBSET Entry] /\ writes \in [Ids -> SUBSET Entry]
  BY <1>1, <1>2
<1>5. /\ puts \in [Attempts -> Seq(Put)] /\ jobs \in [Attempts -> SUBSET Job]
      /\ broken \in [Attempts -> BOOLEAN]
  OBVIOUS
<1>6. failures \in 0..MaxFailures /\ overlaps \in 0..MaxOverlaps
  <2>1. MaxFailures \in Nat /\ MaxOverlaps \in Nat
    BY CheckpointAssumption
  <2> QED BY <2>1
<1>7. /\ published \subseteq Node /\ rows \subseteq Node /\ toolRows \subseteq OptionalRole \X Attempts
      /\ runtime \in [step : Node \union {"input"}, report : Attempts \union {NoAttempt}]
  OBVIOUS
<1>8. TypeOK
  BY <1>2, <1>3, <1>4, <1>5, <1>6, <1>7 DEF TypeOK, Put, Job
<1>9. \A a \in Attempts : pc[a] \notin Executing /\ Len(puts[a]) = 0
  BY DEF Executing
<1>10. Entries = {}
  BY DEF Entries
<1> QED BY <1>8, <1>9, <1>10 DEF DraftFollows, KeysInUse, EntriesFit, IndexedIsStored

LEMMA QueueChanges ==
    ASSUME NEW q \in [Attempts -> Seq(Put)], NEW a \in Attempts
    PROVE  /\ \A p \in Put : [q EXCEPT ![a] = Append(@, p)] \in [Attempts -> Seq(Put)]
           /\ q[a] # <<>> => [q EXCEPT ![a] = Tail(@)] \in [Attempts -> Seq(Put)]
           /\ [q EXCEPT ![a] = <<>>] \in [Attempts -> Seq(Put)]
           /\ q[a] # <<>> => [q EXCEPT ![a][1].stored = TRUE] \in [Attempts -> Seq(Put)]
<1>1. ASSUME NEW p \in Put PROVE [q EXCEPT ![a] = Append(@, p)] \in [Attempts -> Seq(Put)]
  <2>1. Append(q[a], p) \in Seq(Put)
    OBVIOUS
  <2> QED BY <2>1
<1>2. ASSUME q[a] # <<>> PROVE [q EXCEPT ![a] = Tail(@)] \in [Attempts -> Seq(Put)]
  <2>1. Tail(q[a]) \in Seq(Put)
    BY <1>2
  <2> QED BY <2>1
<1>3. [q EXCEPT ![a] = <<>>] \in [Attempts -> Seq(Put)]
  <2>1. <<>> \in Seq(Put)
    OBVIOUS
  <2> QED BY <2>1
<1>4. ASSUME q[a] # <<>> PROVE [q EXCEPT ![a][1].stored = TRUE] \in [Attempts -> Seq(Put)]
  <2> DEFINE r == [q[a][1] EXCEPT !.stored = TRUE]
             t == [q[a] EXCEPT ![1] = r]
  <2>1. q[a] \in Seq(Put) /\ 1 \in 1..Len(q[a])
    BY <1>4
  <2>2. r \in Put
    <3>1. q[a][1] \in Put
      BY <2>1, ElementOfSeq
    <3> QED BY <3>1 DEF Put
  <2>3. t \in Seq(Put)
    BY <2>1, <2>2, ExceptSeq
  <2>4. [q EXCEPT ![a][1].stored = TRUE] = [q EXCEPT ![a] = t]
    OBVIOUS
  <2> HIDE DEF t
  <2> QED BY <2>3, <2>4
<1> QED BY <1>1, <1>2, <1>3, <1>4

\* The checkpoint that an attempt hands over to be stored.
PutOf(a, c) == [key |-> PutKey(parent[a], c), content |-> c, stored |-> FALSE]

LEMMA StepTypes ==
    ASSUME TypeOK, NEW a \in Attempts, NEW c \in Checkpoint, Step(a, c)
    PROVE  /\ graph' \in [Attempts -> Checkpoint] /\ parent' \in [Attempts -> Ids]
           /\ loaded' \in [Attempts -> SUBSET Entry] /\ pc' \in [Attempts -> Pcs]
           /\ puts' \in [Attempts -> Seq(Put)]
           /\ PutOf(a, c) \in Put /\ PutOf(a, c).key # NoId
           /\ puts' = [puts EXCEPT ![a] = Append(@, PutOf(a, c))]
<1>1. PutOf(a, c) \in Put /\ PutOf(a, c).key # NoId /\ Id(c) \in Ids
  BY IdsInUse DEF TypeOK, PutOf, PutKey, Put
<1>2. puts' = [puts EXCEPT ![a] = Append(@, PutOf(a, c))]
  BY DEF Step, PutOf
<1>3. puts' \in [Attempts -> Seq(Put)]
  <2>1. puts \in [Attempts -> Seq(Put)]
    BY DEF TypeOK, Put
  <2> HIDE DEF TypeOK
  <2> QED BY <1>1, <1>2, <2>1, QueueChanges
<1>4. graph' \in [Attempts -> Checkpoint] /\ parent' \in [Attempts -> Ids]
  BY <1>1 DEF Step, TypeOK
<1>5. loaded' \in [Attempts -> SUBSET Entry] /\ pc' \in [Attempts -> Pcs]
  BY DEF Step, Goto, TypeOK, Pcs, Alive
<1> QED BY <1>1, <1>2, <1>3, <1>4, <1>5

LEMMA ForgetTypes ==
    ASSUME TypeOK, NEW a \in Attempts, NEW c \in Checkpoint, Forget(a, c)
    PROVE  /\ fresh' \in [Attempts -> BOOLEAN] /\ graph' \in [Attempts -> Checkpoint]
           /\ parent' \in [Attempts -> Ids] /\ loaded' \in [Attempts -> SUBSET Entry]
           /\ draft' \in [Attempts -> Checkpoint]
<1>1. Input(a) \in Checkpoint /\ NoId \in Ids
  BY NothingBehindInput DEF Ids
<1>2. fresh' \in [Attempts -> BOOLEAN] /\ graph' \in [Attempts -> Checkpoint]
  BY DEF Forget, TypeOK
<1>3. parent' \in [Attempts -> Ids] /\ loaded' \in [Attempts -> SUBSET Entry]
  BY <1>1 DEF Forget, TypeOK
<1>4. draft' \in [Attempts -> Checkpoint]
  BY <1>1 DEF Forget, TypeOK
<1> QED BY <1>2, <1>3, <1>4

\* A node's output, and a loaded write taken over by its reader.
LEMMA OutputTypes ==
    ASSUME TypeOK, NEW a \in Attempts, NEW n \in Node, NEW c \in Outputs(a, n)
    PROVE  /\ c \in Checkpoint /\ c.last = n /\ c.run = a
           /\ c.roles = graph[a].roles \/ n = "plan"
           /\ c.by = IF n \in Author THEN [graph[a].by EXCEPT ![n] = a] ELSE graph[a].by
<1>1. graph[a] \in Checkpoint /\ Assignable \subseteq OptionalRole
  BY CheckpointAssumption DEF TypeOK
<1>2. PICK r \in SUBSET OptionalRole :
        /\ c = [run |-> a, last |-> n,
                by |-> IF n \in Author THEN [graph[a].by EXCEPT ![n] = a] ELSE graph[a].by,
                roles |-> r]
        /\ r = graph[a].roles \/ n = "plan"
  BY <1>1 DEF Outputs, Checkpoint
<1>3. (IF n \in Author THEN [graph[a].by EXCEPT ![n] = a] ELSE graph[a].by)
         \in [Author -> Attempts \union {NoAttempt}]
  BY <1>1 DEF Checkpoint
<1> QED BY <1>2, <1>3 DEF Checkpoint

LEMMA TakenOver ==
    ASSUME NEW w \in Entry, NEW a \in Attempts
    PROVE  [w.out EXCEPT !.run = a] \in Checkpoint
BY DEF Entry, Checkpoint

LEMMA LocalTypes ==
    ASSUME TypeOK, NEW a \in Attempts, Act(a)
    PROVE  /\ fresh' \in [Attempts -> BOOLEAN] /\ graph' \in [Attempts -> Checkpoint]
           /\ parent' \in [Attempts -> Ids] /\ loaded' \in [Attempts -> SUBSET Entry]
           /\ draft' \in [Attempts -> Checkpoint] /\ pc' \in [Attempts -> Pcs]
<1> USE DEF store, effects, local, queues, counts
<1>0. /\ fresh \in [Attempts -> BOOLEAN] /\ graph \in [Attempts -> Checkpoint]
      /\ parent \in [Attempts -> Ids] /\ loaded \in [Attempts -> SUBSET Entry]
      /\ draft \in [Attempts -> Checkpoint] /\ pc \in [Attempts -> Pcs]
  BY DEF TypeOK
<1>a. ASSUME NEW label \in Pcs, Goto(a, label) PROVE pc' \in [Attempts -> Pcs]
  BY <1>0, <1>a DEF Goto
<1>b. /\ Alive \subseteq Pcs /\ Executing \subseteq Pcs /\ Over \subseteq Pcs
  BY DEF Pcs, Alive
<1>1. CASE Start(a) \/ Check(a) \/ ReadIndex(a)
  <2>1. pc' \in [Attempts -> Pcs]
    BY <1>1, <1>a, <1>b DEF Start, Check, ReadIndex, Alive
  <2>2. index \in Ids
    BY DEF TypeOK
  <2> QED BY <1>0, <1>1, <2>1, <2>2 DEF Start, Check, ReadIndex
<1>2. CASE BeginFromInput(a)
  BY <1>0, <1>2, StepTypes, NothingBehindInput DEF BeginFromInput
<1>3. CASE LoadCheckpoint(a)
  <2>1. pc' \in [Attempts -> Pcs]
    BY <1>3, <1>a, <1>b DEF LoadCheckpoint, Alive
  <2>2. blob[parent[a]] \in Checkpoint /\ writes[parent[a]] \subseteq Entry
    BY <1>0, <1>3 DEF LoadCheckpoint, TypeOK
  <2> QED BY <1>0, <1>3, <2>1, <2>2 DEF LoadCheckpoint
<1>4. CASE ApplyLoaded(a)
  <2>1. PICK w \in loaded[a] : Step(a, [w.out EXCEPT !.run = a])
    BY <1>4 DEF ApplyLoaded
  <2>2. w \in Entry
    BY <1>0
  <2> QED BY <1>0, <1>4, <2>1, <2>2, TakenOver, StepTypes DEF ApplyLoaded
<1>5. CASE Execute(a)
  <2> DEFINE n == Successor(graph[a])
  <2>1. n \in Node
    BY <1>0, <1>5, SuccessorIsNode DEF Execute
  <2>2. PICK c \in Outputs(a, n) : draft' = [draft EXCEPT ![a] = c]
    BY <1>5 DEF Execute
  <2>3. c \in Checkpoint
    BY <2>1, OutputTypes
  <2>4. pc' \in [Attempts -> Pcs]
    <3>1. CASE n = "start"
      BY <1>5, <1>a, <1>b, <3>1 DEF Execute, Executing
    <3>2. CASE n = "persist_result"
      BY <1>5, <1>a, <1>b, <3>2 DEF Execute, Executing
    <3>3. CASE n # "start" /\ n # "persist_result"
      BY <1>5, <1>a, <1>b, <3>3 DEF Execute, Executing
    <3> QED BY <3>1, <3>2, <3>3
  <2> QED BY <1>0, <1>5, <2>2, <2>3, <2>4 DEF Execute
<1>6. CASE PersistResult(a) \/ Callback(a)
  <2>1. pc' \in [Attempts -> Pcs]
    BY <1>6, <1>a, <1>b DEF PersistResult, Callback, Publish, Record, MergeRuntime,
                            PersistToolCalls, Executing
  <2> QED BY <1>0, <1>6, <2>1 DEF PersistResult, Callback, Publish, Record, MergeRuntime,
                                  PersistToolCalls
<1>7. CASE Save(a)
  BY <1>0, <1>7, StepTypes DEF Save
<1>8. CASE Background(a)
  BY <1>0, <1>8 DEF Background, PutBlob, PutIndex, PutFails, ReadWrites, SaveWrites, WritesFail
<1>9. CASE End(a)
  <2>1. pc' \in [Attempts -> Pcs]
    BY <1>9, <1>a, <1>b DEF End, Complete, Finish, Abort, Crash, Alive, Over
  <2>2. graph[a] \in Checkpoint /\ Input(a) \in Checkpoint
    BY <1>0, NothingBehindInput
  <2>3. CASE Forget(a, graph[a]) \/ Forget(a, Input(a))
    BY <2>1, <2>2, <2>3, ForgetTypes
  <2>4. CASE UNCHANGED local
    BY <1>0, <2>1, <2>4
  <2> QED BY <1>9, <2>3, <2>4 DEF End, Complete, Finish, Abort, Crash
<1> QED BY <1>1, <1>2, <1>3, <1>4, <1>5, <1>6, <1>7, <1>8, <1>9 DEF Act, Open, Run

LEMMA EffectTypes ==
    ASSUME TypeOK, DraftFollows, NEW a \in Attempts, Act(a)
    PROVE  /\ published' \subseteq Node /\ rows' \subseteq Node
           /\ toolRows' \subseteq OptionalRole \X Attempts
           /\ runtime' \in [step : Node \union {"input"}, report : Attempts \union {NoAttempt}]
           /\ failures' \in 0..MaxFailures /\ overlaps' \in 0..MaxOverlaps
<1> USE DEF store, effects, local, queues, counts
<1>0. /\ published \subseteq Node /\ rows \subseteq Node
      /\ toolRows \subseteq OptionalRole \X Attempts
      /\ runtime \in [step : Node \union {"input"}, report : Attempts \union {NoAttempt}]
      /\ failures \in 0..MaxFailures /\ overlaps \in 0..MaxOverlaps
      /\ MaxFailures \in Nat /\ MaxOverlaps \in Nat
  BY CheckpointAssumption DEF TypeOK
<1>a. ASSUME Fails PROVE failures' \in 0..MaxFailures /\ overlaps' = overlaps
  BY <1>0, <1>a DEF Fails
<1>1. CASE Start(a)
  BY <1>0, <1>1 DEF Start
<1>2. CASE Check(a) \/ ReadIndex(a) \/ BeginFromInput(a) \/ LoadCheckpoint(a) \/ ApplyLoaded(a)
           \/ Execute(a) \/ Save(a)
  BY <1>0, <1>2 DEF Check, ReadIndex, BeginFromInput, LoadCheckpoint, ApplyLoaded, Execute, Save
<1>3. CASE PersistResult(a)
  <2>1. graph[a].by["writer"] \in Attempts \union {NoAttempt}
    BY DEF TypeOK, Checkpoint, Author
  <2>2. "persist_result" \in Node
    BY NodeTable
  <2> QED BY <1>0, <1>3, <1>a, <2>1, <2>2 DEF PersistResult
<1>4. CASE Callback(a)
  <2>1. draft[a].last \in Node
    BY <1>4 DEF DraftFollows, Callback, Publish, Record, MergeRuntime, PersistToolCalls, Executing
  <2>2. CASE Publish(a) \/ Record(a)
    BY <1>0, <2>1, <2>2, <1>a DEF Publish, Record
  <2>3. CASE MergeRuntime(a)
    BY <1>0, <2>1, <2>3, <1>a DEF MergeRuntime
  <2>4. CASE PersistToolCalls(a)
    BY <1>0, <2>4, <1>a DEF PersistToolCalls
  <2> QED BY <1>4, <2>2, <2>3, <2>4 DEF Callback
<1>5. CASE Background(a)
  BY <1>0, <1>5, <1>a DEF Background, PutBlob, PutIndex, PutFails, ReadWrites, SaveWrites, WritesFail
<1>6. CASE End(a)
  BY <1>0, <1>6 DEF End, Complete, Finish, Abort, Crash
<1> QED BY <1>1, <1>2, <1>3, <1>4, <1>5, <1>6 DEF Act, Open, Run

LEMMA JobChanges ==
    ASSUME NEW j \in Job, NEW entries \in SUBSET Entry
    PROVE  /\ [j EXCEPT !.read = TRUE, !.seen = entries] \in Job
           /\ j.tries < 2 => [j EXCEPT !.tries = @ + 1, !.read = FALSE] \in Job
<1> DEFINE T == SUBSET Entry
<1>1. Job = [key : Ids, tries : 0..2, read : BOOLEAN, seen : T, entry : Entry]
  BY DEF Job
<1> HIDE DEF T
<1>2. ASSUME NEW e \in T PROVE [j EXCEPT !.read = TRUE, !.seen = e] \in Job
  BY <1>1
<1>3. ASSUME j.tries < 2 PROVE [j EXCEPT !.tries = @ + 1, !.read = FALSE] \in Job
  <2>1. j.tries \in 0..2
    BY <1>1
  <2>2. j.tries + 1 \in 0..2
    BY <1>3, <2>1
  <2> QED BY <2>2, <1>1
<1> QED BY <1>2, <1>3 DEF T

LEMMA QueueTypes ==
    ASSUME TypeOK, DraftFollows, NEW a \in Attempts, Act(a)
    PROVE  /\ puts' \in [Attempts -> Seq(Put)]
           /\ jobs' \in [Attempts -> SUBSET Job] /\ broken' \in [Attempts -> BOOLEAN]
<1> USE DEF store, effects, local, queues, counts
<1>0. /\ puts \in [Attempts -> Seq(Put)]
      /\ jobs \in [Attempts -> SUBSET Job] /\ broken \in [Attempts -> BOOLEAN]
  BY DEF TypeOK, Put, Job
<1>a. \A b \in Attempts : Input(b) \in Checkpoint
  BY NothingBehindInput
<1>b. ASSUME NEW j \in jobs[a], NEW J \in SUBSET Job, Replace(a, j, J)
      PROVE  jobs' \in [Attempts -> SUBSET Job]
  BY <1>0, <1>b DEF Replace
<1>1. CASE BeginFromInput(a)
  BY <1>0, <1>1, <1>a, StepTypes DEF BeginFromInput
<1>2. CASE ApplyLoaded(a)
  <2>1. PICK w \in loaded[a] : Step(a, [w.out EXCEPT !.run = a])
    BY <1>2 DEF ApplyLoaded
  <2>2. w \in Entry
    BY DEF TypeOK
  <2> QED BY <1>0, <1>2, <2>1, <2>2, TakenOver, StepTypes DEF ApplyLoaded
<1>3. CASE Save(a)
  <2>1. draft[a] \in Checkpoint /\ graph[a] \in Checkpoint
    BY DEF TypeOK
  <2>2. draft[a].last \in Node
    BY <1>3 DEF DraftFollows, Save, Executing
  <2>3. [task |-> <<Id(graph[a]), draft[a].last>>, out |-> draft[a]] \in Entry
    BY <2>1, <2>2, IdsInUse DEF Entry
  <2> DEFINE j == [key |-> Id(graph[a]), tries |-> 0, read |-> FALSE, seen |-> {},
                   entry |-> [task |-> <<Id(graph[a]), draft[a].last>>, out |-> draft[a]]]
  <2>4. j \in Job
    BY <2>1, <2>3, IdsInUse DEF Job
  <2>5. jobs' = [jobs EXCEPT ![a] = @ \union {j}]
    BY <1>3 DEF Save
  <2> HIDE DEF j
  <2>6. jobs' \in [Attempts -> SUBSET Job]
    BY <1>0, <2>4, <2>5
  <2>7. puts' \in [Attempts -> Seq(Put)]
    BY <1>3, <2>1, StepTypes DEF Save
  <2> QED BY <1>0, <1>3, <2>6, <2>7 DEF Save
<1>4. CASE PutBlob(a) \/ PutIndex(a) \/ PutFails(a)
  <2>1. puts[a] # <<>>
    BY <1>4 DEF PutBlob, PutIndex, PutFails
  <2>2. puts' \in [Attempts -> Seq(Put)]
    <3>1. \/ puts' = [puts EXCEPT ![a][1].stored = TRUE]
          \/ puts' = [puts EXCEPT ![a] = Tail(@)]
      BY <1>4 DEF PutBlob, PutIndex, PutFails, Dequeue
    <3>2. CASE puts' = [puts EXCEPT ![a][1].stored = TRUE]
      BY <1>0, <2>1, <3>2, QueueChanges
    <3>3. CASE puts' = [puts EXCEPT ![a] = Tail(@)]
      BY <1>0, <2>1, <3>3, QueueChanges
    <3> QED BY <3>1, <3>2, <3>3
  <2> QED BY <1>0, <1>4, <2>2 DEF PutBlob, PutIndex, PutFails, Break
<1>5. ASSUME NEW j \in jobs[a], ReadWrites(a, j) \/ SaveWrites(a, j) \/ WritesFail(a, j)
      PROVE  jobs' \in [Attempts -> SUBSET Job] /\ UNCHANGED puts /\ broken' \in [Attempts -> BOOLEAN]
  <2>1. j \in Job /\ writes[j.key] \subseteq Entry
    BY <1>0 DEF TypeOK, Job
  <2>2. CASE ReadWrites(a, j)
    <3>1. [j EXCEPT !.read = TRUE, !.seen = writes[j.key]] \in Job
      BY <2>1, JobChanges
    <3>2. jobs' \in [Attempts -> SUBSET Job]
      BY <2>2, <3>1, <1>b DEF ReadWrites
    <3> QED BY <1>0, <2>2, <3>2 DEF ReadWrites
  <2>3. CASE SaveWrites(a, j) \/ WritesFail(a, j)
    <3>1. j.tries < 2 => [j EXCEPT !.tries = @ + 1, !.read = FALSE] \in Job
      BY <2>1, JobChanges
    <3>2. \E J \in SUBSET Job : Replace(a, j, J)
      BY <2>3, <3>1 DEF SaveWrites, WritesFail
    <3>3. jobs' \in [Attempts -> SUBSET Job]
      BY <3>2, <1>b
    <3> QED BY <1>0, <2>3, <3>3 DEF SaveWrites, WritesFail, Break
  <2> QED BY <1>5, <2>2, <2>3
<1>6. CASE Start(a) \/ Check(a) \/ ReadIndex(a) \/ LoadCheckpoint(a) \/ Execute(a)
           \/ PersistResult(a) \/ Callback(a)
  BY <1>0, <1>6 DEF Start, Check, ReadIndex, LoadCheckpoint, Execute, PersistResult, Callback,
                    Publish, Record, MergeRuntime, PersistToolCalls
<1>7. CASE End(a)
  <2>1. CASE Crash(a)
    <3>1. jobs' = [jobs EXCEPT ![a] = {}] /\ broken' = [broken EXCEPT ![a] = FALSE]
          /\ puts' = [puts EXCEPT ![a] = <<>>]
      BY <2>1 DEF Crash
    <3> QED BY <1>0, <3>1, QueueChanges
  <2>2. CASE Complete(a) \/ Finish(a) \/ Abort(a)
    BY <1>0, <2>2 DEF Complete, Finish, Abort
  <2> QED BY <1>7, <2>1, <2>2 DEF End
<1> QED BY <1>0, <1>1, <1>2, <1>3, <1>4, <1>5, <1>6, <1>7 DEF Act, Open, Run, Background

\* Only PutBlob, PutIndex and SaveWrites change the store.
LEMMA StoreFrame ==
    ASSUME NEW a \in Attempts, Act(a), ~PutBlob(a), ~PutIndex(a),
           \A j \in jobs[a] : ~SaveWrites(a, j)
    PROVE  UNCHANGED store
<1> USE DEF store, effects, local, queues, counts
<1>1. CASE Open(a)
  BY <1>1 DEF Open, Start, Check, ReadIndex, BeginFromInput, LoadCheckpoint
<1>2. CASE Run(a)
  BY <1>2 DEF Run, ApplyLoaded, Execute, PersistResult, Callback, Publish, Record, MergeRuntime,
              PersistToolCalls, Save
<1>3. CASE Background(a)
  BY <1>3 DEF Background, PutFails, ReadWrites, WritesFail
<1>4. CASE End(a)
  BY <1>4 DEF End, Complete, Finish, Abort, Crash
<1> QED BY <1>1, <1>2, <1>3, <1>4 DEF Act

LEMMA StoreTypes ==
    ASSUME TypeOK, KeysInUse, IndexedIsStored, NEW a \in Attempts, Act(a)
    PROVE  /\ \A i \in DOMAIN blob' : i \in Ids \ {NoId} /\ blob'[i] \in Checkpoint
           /\ index' \in Ids /\ writes' \in [Ids -> SUBSET Entry]
           /\ DOMAIN blob \subseteq DOMAIN blob' /\ IndexedIsStored'
<1> USE DEF store, effects, local, queues, counts
<1>0. /\ \A i \in DOMAIN blob : i \in Ids \ {NoId} /\ blob[i] \in Checkpoint
      /\ index \in Ids /\ writes \in [Ids -> SUBSET Entry] /\ puts \in [Attempts -> Seq(Put)]
      /\ jobs \in [Attempts -> SUBSET Job]
  BY DEF TypeOK, Put, Job
<1>a. ASSUME puts[a] # <<>>
      PROVE  /\ Head(puts[a]) = puts[a][1] /\ 1 \in 1..Len(puts[a])
             /\ Head(puts[a]).key \in Ids \ {NoId} /\ Head(puts[a]).content \in Checkpoint
             /\ Head(puts[a]).stored => Head(puts[a]).key \in DOMAIN blob
  <2>1. puts[a] \in Seq(Put) /\ Head(puts[a]) = puts[a][1] /\ 1 \in 1..Len(puts[a])
    BY <1>0, <1>a
  <2>2. puts[a][1] \in Put
    BY <2>1, ElementOfSeq
  <2> QED BY <2>1, <2>2 DEF KeysInUse, Put
<1>1. CASE PutBlob(a)
  <2> DEFINE key == Head(puts[a]).key
             c == Head(puts[a]).content
  <2>1. /\ puts[a] # <<>> /\ UNCHANGED <<index, writes>>
        /\ blob' = [i \in DOMAIN blob \union {key} |-> IF i = key THEN c ELSE blob[i]]
    BY <1>1 DEF PutBlob, File
  <2>2. key \in Ids \ {NoId} /\ c \in Checkpoint
    BY <2>1, <1>a
  <2> HIDE DEF key, c
  <2>3. DOMAIN blob' = DOMAIN blob \union {key}
    BY <2>1
  <2>4. \A i \in DOMAIN blob' : blob'[i] = IF i = key THEN c ELSE blob[i]
    BY <2>1
  <2> QED BY <1>0, <2>1, <2>2, <2>3, <2>4 DEF IndexedIsStored
<1>2. CASE PutIndex(a)
  <2>1. puts[a] # <<>> /\ Head(puts[a]).stored /\ index' = Head(puts[a]).key
        /\ UNCHANGED <<blob, writes>>
    BY <1>2 DEF PutIndex
  <2> QED BY <1>0, <1>a, <2>1 DEF IndexedIsStored
<1>3. ASSUME NEW j \in jobs[a], SaveWrites(a, j)
      PROVE  writes' \in [Ids -> SUBSET Entry] /\ UNCHANGED <<blob, index>>
  <2>1. j.seen \subseteq Entry /\ j.entry \in Entry
    BY <1>0 DEF Job
  <2>2. Merged(j.seen, j.entry) \in SUBSET Entry
    BY <2>1 DEF Merged
  <2> QED BY <1>0, <1>3, <2>2 DEF SaveWrites
<1>4. CASE UNCHANGED store
  BY <1>0, <1>4 DEF IndexedIsStored
<1> QED BY <1>0, <1>1, <1>2, <1>3, <1>4, StoreFrame DEF IndexedIsStored

\* Every queue changes for the acting attempt alone.
LEMMA KeysNext ==
    ASSUME TypeOK, DraftFollows, KeysInUse, IndexedIsStored, NEW a \in Attempts, Act(a)
    PROVE  KeysInUse'
<1> USE DEF store, effects, local, queues, counts
<1>0. puts \in [Attempts -> Seq(Put)] /\ DOMAIN blob \subseteq DOMAIN blob'
  BY StoreTypes DEF TypeOK, Put
<1> DEFINE Fine(p) == p.key # NoId /\ (p.stored => p.key \in DOMAIN blob')
<1>a. \A b \in Attempts : \A i \in 1..Len(puts[b]) : Fine(puts[b][i])
  BY <1>0 DEF KeysInUse
<1>b. ASSUME NEW q \in Seq(Put), puts' = [puts EXCEPT ![a] = q], \A i \in 1..Len(q) : Fine(q[i])
      PROVE  KeysInUse'
  <2>1. \A b \in Attempts : puts'[b] = IF b = a THEN q ELSE puts[b]
    BY <1>0, <1>b
  <2> QED BY <1>a, <1>b, <2>1 DEF KeysInUse
<1>c. CASE UNCHANGED puts
  BY <1>a, <1>c DEF KeysInUse
<1>1. ASSUME NEW c \in Checkpoint, Step(a, c)
      PROVE  KeysInUse'
  <2> DEFINE q == Append(puts[a], PutOf(a, c))
  <2>1. /\ puts' = [puts EXCEPT ![a] = Append(@, PutOf(a, c))]
        /\ PutOf(a, c) \in Put /\ PutOf(a, c).key # NoId /\ ~PutOf(a, c).stored
    BY <1>1, StepTypes DEF PutOf
  <2>2. /\ q \in Seq(Put) /\ Len(q) = Len(puts[a]) + 1
        /\ \A i \in 1..Len(puts[a]) : q[i] = puts[a][i]
        /\ q[Len(puts[a]) + 1] = PutOf(a, c)
    BY <1>0, <2>1, AppendProperties
  <2>3. puts' = [puts EXCEPT ![a] = q]
    BY <2>1
  <2> HIDE DEF q
  <2>4. \A i \in 1..Len(q) : i \in 1..Len(puts[a]) \/ i = Len(puts[a]) + 1
    BY <1>0, <2>2
  <2>5. \A i \in 1..Len(q) : Fine(q[i])
    BY <2>1, <2>2, <2>4, <1>a
  <2> QED BY <2>2, <2>3, <2>5, <1>b
<1>2. CASE PutBlob(a)
  <2> DEFINE p == [puts[a][1] EXCEPT !.stored = TRUE]
             q == [puts[a] EXCEPT ![1] = p]
  <2>1. puts[a] # <<>> /\ puts[a] \in Seq(Put) /\ Head(puts[a]) = puts[a][1] /\ 1 \in 1..Len(puts[a])
    BY <1>0, <1>2 DEF PutBlob
  <2>2. puts[a][1] \in Put
    BY <2>1, ElementOfSeq
  <2>3. p \in Put /\ p.key = puts[a][1].key
    BY <2>2 DEF Put
  <2>4. DOMAIN blob' = DOMAIN blob \union {puts[a][1].key}
    BY <1>2, <2>1 DEF PutBlob, File
  <2>5. puts' = [puts EXCEPT ![a] = q]
    BY <1>2 DEF PutBlob
  <2>6. Fine(p)
    BY <1>a, <2>1, <2>3, <2>4
  <2> HIDE DEF p
  <2>7. /\ q \in Seq(Put) /\ Len(q) = Len(puts[a])
        /\ \A i \in 1..Len(puts[a]) : q[i] = IF i = 1 THEN p ELSE puts[a][i]
    BY <2>1, <2>3, ExceptSeq
  <2> HIDE DEF q
  <2>8. \A i \in 1..Len(q) : Fine(q[i])
    BY <2>1, <2>6, <2>7, <1>a
  <2> QED BY <2>5, <2>7, <2>8, <1>b
<1>3. CASE PutIndex(a) \/ PutFails(a)
  <2>1. puts[a] # <<>> /\ puts[a] \in Seq(Put) /\ puts' = [puts EXCEPT ![a] = Tail(@)]
    BY <1>0, <1>3 DEF PutIndex, PutFails, Dequeue
  <2> DEFINE q == Tail(puts[a])
  <2>2. /\ q \in Seq(Put) /\ Len(q) = Len(puts[a]) - 1
        /\ \A i \in 1..Len(q) : q[i] = puts[a][i + 1]
    BY <2>1, HeadTailProperties
  <2>3. \A i \in 1..Len(q) : i + 1 \in 1..Len(puts[a])
    BY <2>1, <2>2
  <2>4. \A i \in 1..Len(q) : Fine(q[i])
    BY <2>2, <2>3, <1>a
  <2>5. puts' = [puts EXCEPT ![a] = q]
    BY <2>1
  <2> HIDE DEF q
  <2> QED BY <2>2, <2>4, <2>5, <1>b
<1>4. CASE BeginFromInput(a) \/ ApplyLoaded(a) \/ Save(a)
  <2>1. Input(a) \in Checkpoint /\ draft[a] \in Checkpoint /\ loaded[a] \subseteq Entry
    BY NothingBehindInput DEF TypeOK
  <2> QED BY <1>1, <1>4, <2>1, TakenOver DEF BeginFromInput, ApplyLoaded, Save
<1>5. CASE Crash(a)
  <2>1. <<>> \in Seq(Put) /\ Len(<<>>) = 0 /\ puts' = [puts EXCEPT ![a] = <<>>]
    BY <1>5 DEF Crash
  <2>2. \A i \in 1..Len(<<>>) : FALSE
    BY <2>1
  <2> QED BY <2>1, <2>2, <1>b
<1>6. CASE Start(a) \/ Check(a) \/ ReadIndex(a) \/ LoadCheckpoint(a) \/ Execute(a)
           \/ PersistResult(a) \/ Callback(a)
  BY <1>c, <1>6 DEF Start, Check, ReadIndex, LoadCheckpoint, Execute, PersistResult, Callback,
                    Publish, Record, MergeRuntime, PersistToolCalls
<1>7. CASE Complete(a) \/ Finish(a) \/ Abort(a)
  BY <1>c, <1>7 DEF Complete, Finish, Abort
<1>8. ASSUME NEW j \in jobs[a], ReadWrites(a, j) \/ SaveWrites(a, j) \/ WritesFail(a, j)
      PROVE  KeysInUse'
  BY <1>c, <1>8 DEF ReadWrites, SaveWrites, WritesFail
<1> QED BY <1>2, <1>3, <1>4, <1>5, <1>6, <1>7, <1>8 DEF Act, Open, Run, Background, End

LEMMA DraftNext ==
    ASSUME TypeOK, DraftFollows, NEW a \in Attempts, Act(a)
    PROVE  DraftFollows'
<1> USE DEF store, effects, local, queues, counts
<1>0. /\ pc \in [Attempts -> Pcs] /\ graph \in [Attempts -> Checkpoint]
      /\ draft \in [Attempts -> Checkpoint]
  BY DEF TypeOK
<1> DEFINE Follows(b) ==
        /\ draft[b].run = b /\ draft[b].last = Successor(graph[b]) /\ draft[b].last \in Node
        /\ draft[b].roles = graph[b].roles \/ draft[b].last = "plan"
        /\ draft[b].by = IF draft[b].last \in Author
                         THEN [graph[b].by EXCEPT ![draft[b].last] = b] ELSE graph[b].by
<1>a. \A b \in Attempts : pc[b] \in Executing => Follows(b)
  BY DEF DraftFollows
<1>b. ASSUME \A b \in Attempts \ {a} : pc'[b] = pc[b] /\ graph'[b] = graph[b] /\ draft'[b] = draft[b],
             pc'[a] \in Executing => Follows(a)'
      PROVE  DraftFollows'
  BY <1>a, <1>b DEF DraftFollows
<1>1. CASE Execute(a)
  <2> DEFINE n == Successor(graph[a])
  <2>1. n \in Node
    BY <1>0, <1>1, SuccessorIsNode DEF Execute
  <2>2. PICK c \in Outputs(a, n) : draft' = [draft EXCEPT ![a] = c]
    BY <1>1 DEF Execute
  <2>3. /\ c.last = n /\ c.run = a
        /\ c.roles = graph[a].roles \/ n = "plan"
        /\ c.by = IF n \in Author THEN [graph[a].by EXCEPT ![n] = a] ELSE graph[a].by
    BY <2>1, OutputTypes
  <2>4. draft'[a] = c /\ graph' = graph /\ \A b \in Attempts \ {a} : draft'[b] = draft[b]
    BY <1>0, <1>1, <2>2 DEF Execute
  <2>5. \A b \in Attempts \ {a} : pc'[b] = pc[b]
    BY <1>0, <1>1 DEF Execute, Goto
  <2>6. Follows(a)'
    <3>1. Successor(graph'[a]) = n /\ graph'[a] = graph[a]
      BY <2>4
    <3> HIDE DEF n
    <3>2. draft'[a].run = a /\ draft'[a].last = n /\ (draft'[a].roles = graph'[a].roles \/ n = "plan")
      BY <2>3, <2>4, <3>1
    <3>3. draft'[a].by = IF n \in Author THEN [graph'[a].by EXCEPT ![n] = a] ELSE graph'[a].by
      BY <2>3, <2>4, <3>1
    <3> QED BY <2>1, <3>1, <3>2, <3>3
  <2> QED BY <2>4, <2>5, <2>6, <1>b
<1>2. CASE PersistResult(a) \/ Callback(a)
  <2>1. /\ pc[a] \in Executing /\ UNCHANGED <<graph, draft>>
        /\ \A b \in Attempts \ {a} : pc'[b] = pc[b]
    BY <1>0, <1>2 DEF PersistResult, Callback, Publish, Record, MergeRuntime, PersistToolCalls,
                      Goto, Executing
  <2> QED BY <2>1, <1>a, <1>b
<1>3. CASE Background(a)
  BY <1>3, <1>a, <1>b
     DEF Background, PutBlob, PutIndex, PutFails, ReadWrites, SaveWrites, WritesFail
<1>4. ASSUME NEW c, Step(a, c), UNCHANGED draft
      PROVE  DraftFollows'
  <2>1. pc'[a] = "tick" /\ "tick" \notin Executing
    BY <1>0, <1>4 DEF Step, Goto, Executing
  <2>2. \A b \in Attempts \ {a} : pc'[b] = pc[b] /\ graph'[b] = graph[b]
    BY <1>0, <1>4 DEF Step, Goto
  <2> QED BY <1>4, <2>1, <2>2, <1>b
<1>5. CASE BeginFromInput(a) \/ ApplyLoaded(a) \/ Save(a)
  BY <1>4, <1>5 DEF BeginFromInput, ApplyLoaded, Save
<1>6. CASE Start(a) \/ Check(a) \/ ReadIndex(a) \/ LoadCheckpoint(a) \/ End(a)
  <2>1. pc'[a] \notin Executing /\ \A b \in Attempts \ {a} : pc'[b] = pc[b]
    <3>1. \E l \in {"check", "open", "load", "tick", "return", "abort", "returned", "failed"} : Goto(a, l)
      BY <1>6 DEF Start, Check, ReadIndex, LoadCheckpoint, End, Complete, Finish, Abort, Crash
    <3> QED BY <1>0, <3>1 DEF Goto, Executing
  <2>2. \A b \in Attempts \ {a} : graph'[b] = graph[b] /\ draft'[b] = draft[b]
    BY <1>0, <1>6 DEF Start, Check, ReadIndex, LoadCheckpoint, End, Complete, Finish, Abort, Crash,
                      Forget
  <2> QED BY <2>1, <2>2, <1>b
<1> QED BY <1>1, <1>2, <1>3, <1>5, <1>6 DEF Act, Open, Run

-----------------------------------------------------------------------------
\* No checkpoint and no write appears from nowhere

NewEntry(a) == [task |-> <<Id(graph[a]), draft[a].last>>, out |-> draft[a]]

LEMMA EntriesNext ==
    ASSUME TypeOK, NEW a \in Attempts, Act(a)
    PROVE  \A w \in Entries' : w \in Entries \/ (Save(a) /\ w = NewEntry(a))
<1> USE DEF store, effects, local, queues, counts
<1>0. /\ writes \in [Ids -> SUBSET Entry] /\ loaded \in [Attempts -> SUBSET Entry]
      /\ jobs \in [Attempts -> SUBSET Job] /\ parent \in [Attempts -> Ids]
  BY DEF TypeOK, Job
\* Where the write is in the next state.
<1> DEFINE InWrites(w) == \E i \in Ids : w \in writes'[i]
           InLoaded(w) == \E b \in Attempts : w \in loaded'[b]
           InJobs(w) == \E b \in Attempts : \E j \in jobs'[b] : w = j.entry \/ w \in j.seen
<1>a. \A w \in Entries' : w \in Entry /\ (InWrites(w) \/ InLoaded(w) \/ InJobs(w))
  BY DEF Entries
<1>b. ASSUME NEW w \in Entry, InWrites(w), ~\E j \in jobs[a] : SaveWrites(a, j) PROVE w \in Entries
  <2>1. writes' = writes
    BY <1>b DEF Act, Open, Start, Check, ReadIndex, BeginFromInput, LoadCheckpoint,
                Run, ApplyLoaded, Execute, PersistResult, Callback, Publish, Record, MergeRuntime,
                PersistToolCalls, Save, Background, PutBlob, PutIndex, PutFails, ReadWrites,
                WritesFail, End, Complete, Finish, Abort, Crash
  <2> QED BY <1>b, <2>1 DEF Entries
<1>c. ASSUME NEW w \in Entry, InWrites(w), NEW j \in jobs[a], SaveWrites(a, j) PROVE w \in Entries
  <2>1. CASE w \in Merged(j.seen, j.entry)
    <3>1. w \in j.seen \/ w = j.entry
      BY <2>1 DEF Merged
    <3> QED BY <3>1, <1>c DEF Entries
  <2>2. CASE \E i \in Ids : w \in writes[i]
    BY <2>2 DEF Entries
  <2> QED BY <1>0, <1>c, <2>1, <2>2 DEF SaveWrites
<1>d. ASSUME NEW w \in Entry, InLoaded(w) PROVE w \in Entries
  <2>1. CASE LoadCheckpoint(a)
    <3>1. \A b \in Attempts : loaded'[b] = IF b = a THEN writes[parent[a]] ELSE loaded[b]
      BY <1>0, <2>1 DEF LoadCheckpoint
    <3> QED BY <1>0, <1>d, <3>1 DEF Entries
  <2>2. CASE loaded' = [loaded EXCEPT ![a] = {}] \/ loaded' = loaded
    BY <1>0, <1>d, <2>2 DEF Entries
  <2>3. CASE Open(a) /\ ~LoadCheckpoint(a)
    BY <2>2, <2>3 DEF Open, Start, Check, ReadIndex, BeginFromInput, Step
  <2>4. CASE Run(a)
    BY <2>2, <2>4 DEF Run, ApplyLoaded, Execute, PersistResult, Callback, Publish, Record,
                      MergeRuntime, PersistToolCalls, Save, Step
  <2>5. CASE Background(a) \/ End(a)
    BY <2>2, <2>5 DEF Background, PutBlob, PutIndex, PutFails, ReadWrites, SaveWrites, WritesFail,
                      End, Complete, Finish, Abort, Crash, Forget
  <2> QED BY <2>1, <2>3, <2>4, <2>5 DEF Act
<1>e. ASSUME NEW w \in Entry, InJobs(w) PROVE w \in Entries \/ (Save(a) /\ w = NewEntry(a))
  <2>1. ASSUME jobs' = jobs \/ jobs' = [jobs EXCEPT ![a] = {}] PROVE w \in Entries
    BY <1>0, <1>e, <2>1 DEF Entries
  <2>2. CASE Save(a)
    <3>1. \A b \in Attempts : \A j \in jobs'[b] :
             j \in jobs[b] \/ (j.entry = NewEntry(a) /\ j.seen = {})
      BY <1>0, <2>2 DEF Save, NewEntry
    <3> QED BY <1>e, <2>2, <3>1 DEF Entries
  <2>3. ASSUME NEW j \in jobs[a], NEW J, Replace(a, j, J),
               \A k \in J : k.entry = j.entry /\ (k.seen = j.seen \/ k.seen = writes[j.key])
        PROVE  w \in Entries
    <3>1. \A b \in Attempts : \A k \in jobs'[b] : k \in jobs[b] \/ (b = a /\ k \in J)
      BY <1>0, <2>3 DEF Replace
    <3>2. j.key \in Ids
      BY <1>0 DEF Job
    <3> QED BY <1>e, <2>3, <3>1, <3>2 DEF Entries
  <2>4. ASSUME NEW j \in jobs[a], ReadWrites(a, j) \/ SaveWrites(a, j) \/ WritesFail(a, j)
        PROVE  w \in Entries
    <3>1. j \in Job
      BY <1>0
    <3>2. CASE ReadWrites(a, j)
      <4> DEFINE k == [j EXCEPT !.read = TRUE, !.seen = writes[j.key]]
      <4>1. k.entry = j.entry /\ k.seen = writes[j.key]
        BY <3>1 DEF Job
      <4>2. Replace(a, j, {k})
        BY <3>2 DEF ReadWrites
      <4> HIDE DEF k
      <4> QED BY <4>1, <4>2, <2>3
    <3>3. CASE SaveWrites(a, j) \/ WritesFail(a, j)
      <4> DEFINE k == [j EXCEPT !.tries = @ + 1, !.read = FALSE]
      <4>1. k.entry = j.entry /\ k.seen = j.seen
        BY <3>1 DEF Job
      <4>2. Replace(a, j, {k}) \/ Replace(a, j, {})
        BY <3>3 DEF SaveWrites, WritesFail
      <4> HIDE DEF k
      <4> QED BY <4>1, <4>2, <2>3
    <3> QED BY <2>4, <3>2, <3>3
  <2>5. CASE Open(a)
    BY <2>1, <2>5 DEF Open, Start, Check, ReadIndex, BeginFromInput, LoadCheckpoint
  <2>6. CASE Run(a) /\ ~Save(a)
    BY <2>1, <2>6 DEF Run, ApplyLoaded, Execute, PersistResult, Callback, Publish, Record,
                      MergeRuntime, PersistToolCalls
  <2>7. CASE End(a) \/ PutBlob(a) \/ PutIndex(a) \/ PutFails(a)
    BY <2>1, <2>7 DEF End, Complete, Finish, Abort, Crash, PutBlob, PutIndex, PutFails
  <2> QED BY <2>2, <2>4, <2>5, <2>6, <2>7 DEF Act, Background
<1> QED BY <1>a, <1>b, <1>c, <1>d, <1>e

\* Any step, of any attempt.
TypesInv == TypeOK /\ DraftFollows /\ KeysInUse /\ EntriesFit /\ IndexedIsStored

LEMMA TypesStep ==
    ASSUME TypesInv, NEW a \in Attempts, Act(a)
    PROVE  TypesInv'
<1> USE DEF TypesInv
<1>1. TypeOK'
  <2>1. /\ fresh' \in [Attempts -> BOOLEAN] /\ graph' \in [Attempts -> Checkpoint]
        /\ parent' \in [Attempts -> Ids] /\ loaded' \in [Attempts -> SUBSET Entry]
        /\ draft' \in [Attempts -> Checkpoint] /\ pc' \in [Attempts -> Pcs]
    BY LocalTypes
  <2>2. /\ published' \subseteq Node /\ rows' \subseteq Node
        /\ toolRows' \subseteq OptionalRole \X Attempts
        /\ runtime' \in [step : Node \union {"input"}, report : Attempts \union {NoAttempt}]
        /\ failures' \in 0..MaxFailures /\ overlaps' \in 0..MaxOverlaps
    BY EffectTypes
  <2>3. /\ puts' \in [Attempts -> Seq(Put)]
        /\ jobs' \in [Attempts -> SUBSET Job] /\ broken' \in [Attempts -> BOOLEAN]
    BY QueueTypes
  <2>4. /\ \A i \in DOMAIN blob' : i \in Ids \ {NoId} /\ blob'[i] \in Checkpoint
        /\ index' \in Ids /\ writes' \in [Ids -> SUBSET Entry]
    BY StoreTypes
  <2> QED BY <2>1, <2>2, <2>3, <2>4 DEF TypeOK, Put, Job
<1>2. DraftFollows'
  BY DraftNext
<1>3. KeysInUse'
  BY KeysNext
<1>4. IndexedIsStored'
  BY StoreTypes
<1>5. EntriesFit'
  <2>1. \A w \in Entries' : w.out.last = w.task[2]
    <3> SUFFICES ASSUME NEW w \in Entries' PROVE w.out.last = w.task[2]
      OBVIOUS
    <3>1. w \in Entries \/ w = NewEntry(a)
      BY EntriesNext
    <3>2. CASE w = NewEntry(a)
      BY <3>2 DEF NewEntry
    <3> QED BY <3>1, <3>2 DEF EntriesFit
  <2> QED BY <2>1 DEF EntriesFit
<1> QED BY <1>1, <1>2, <1>3, <1>4, <1>5

LEMMA TypesStutter == ASSUME TypesInv, UNCHANGED vars PROVE TypesInv'
<1> USE DEF vars, store, effects, local, queues, counts
<1>1. TypeOK'
  BY DEF TypesInv, TypeOK
<1>2. DraftFollows' /\ KeysInUse' /\ IndexedIsStored'
  BY DEF TypesInv, DraftFollows, KeysInUse, IndexedIsStored
<1>3. EntriesFit'
  <2>1. Entries' = Entries
    BY DEF Entries
  <2> QED BY <2>1 DEF TypesInv, EntriesFit
<1> QED BY <1>1, <1>2, <1>3 DEF TypesInv

THEOREM CheckpointInvariant == Spec => []TypesInv
<1>1. Init => TypesInv
  BY TypesInit DEF TypesInv
<1>2. TypesInv /\ [Next]_vars => TypesInv'
  BY TypesStep, TypesStutter DEF Next, Act
<1> QED BY <1>1, <1>2, PTL DEF Spec

\* Every variable keeps its type, in particular the keys of the stored
\* checkpoints: none is ever filed under "no checkpoint".
THEOREM CheckpointTypeCorrect == Spec => []TypeOK
<1>1. TypesInv => TypeOK
  BY DEF TypesInv
<1> QED BY <1>1, CheckpointInvariant, PTL

\* aput's order (the checkpoint, then the index) is enough: whatever attempts
\* overlap, fail or die, aget_tuple finds the checkpoint the index names.
THEOREM IndexAlwaysStored == Spec => []IndexedIsStored
<1>1. TypesInv => IndexedIsStored
  BY DEF TypesInv
<1> QED BY <1>1, CheckpointInvariant, PTL

-----------------------------------------------------------------------------
\* The completion callback comes before the checkpoint

\* Every checkpoint somebody stores, has stored, or may still continue.
Known ==
    {c \in Checkpoint : \/ \E i \in DOMAIN blob : c = blob[i]
                        \/ \E a \in Attempts : c = graph[a]
                        \/ \E a \in Attempts : \E i \in 1..Len(puts[a]) : c = puts[a][i].content
                        \/ \E w \in Entries : c = w.out}

\* Where the checkpoints of a step come from.
KnownBy(a, c) ==
    \/ c \in Known
    \/ c = Input(a)
    \/ Save(a) /\ c = draft[a]
    \/ ApplyLoaded(a) /\ c = graph'[a] /\ \E w \in loaded[a] : c = [w.out EXCEPT !.run = a]

LEMMA KnownNext ==
    ASSUME TypesInv, NEW a \in Attempts, Act(a)
    PROVE  \A c \in Known' : KnownBy(a, c)
<1> USE DEF store, effects, local, queues, counts
<1>0. /\ TypeOK /\ graph \in [Attempts -> Checkpoint] /\ draft \in [Attempts -> Checkpoint]
      /\ puts \in [Attempts -> Seq(Put)] /\ parent \in [Attempts -> Ids]
      /\ loaded \in [Attempts -> SUBSET Entry]
      /\ \A i \in DOMAIN blob : blob[i] \in Checkpoint
      /\ Input(a) \in Checkpoint
  BY NothingBehindInput DEF TypesInv, TypeOK, Put
<1> DEFINE InBlob(c) == \E i \in DOMAIN blob' : c = blob'[i]
           InGraph(c) == \E b \in Attempts : c = graph'[b]
           InPuts(c) == \E b \in Attempts : \E i \in 1..Len(puts'[b]) : c = puts'[b][i].content
           InEntries(c) == \E w \in Entries' : c = w.out
<1>a. \A c \in Known' : c \in Checkpoint /\ (InBlob(c) \/ InGraph(c) \/ InPuts(c) \/ InEntries(c))
  BY DEF Known
<1>b. ASSUME puts[a] # <<>>
      PROVE  /\ puts[a] \in Seq(Put) /\ Head(puts[a]) = puts[a][1] /\ 1 \in 1..Len(puts[a])
             /\ puts[a][1] \in Put
  <2>1. puts[a] \in Seq(Put) /\ Head(puts[a]) = puts[a][1] /\ 1 \in 1..Len(puts[a])
    BY <1>0, <1>b
  <2> QED BY <2>1, ElementOfSeq
\* The checkpoint that a step hands over.
<1>c. ASSUME NEW c \in Checkpoint, Step(a, c), BeginFromInput(a) \/ ApplyLoaded(a) \/ Save(a)
      PROVE  KnownBy(a, c)
  <2>1. Input(a).run = a /\ Input(a).last = "input"
    BY DEF Input
  <2>2. graph' = [graph EXCEPT ![a] = c]
    BY <1>c DEF Step
  <2>3. graph'[a] = c
    BY <1>0, <2>2
  <2>4. CASE BeginFromInput(a)
    BY <1>0, <2>3, <2>4 DEF BeginFromInput, Step, KnownBy
  <2>5. CASE ApplyLoaded(a)
    <3>1. PICK w \in loaded[a] : Step(a, [w.out EXCEPT !.run = a])
      BY <2>5 DEF ApplyLoaded
    <3>2. graph'[a] = [w.out EXCEPT !.run = a]
      BY <1>0, <3>1 DEF Step
    <3> QED BY <2>3, <2>5, <3>2 DEF KnownBy
  <2>6. CASE Save(a)
    BY <1>0, <2>3, <2>6 DEF Save, Step, KnownBy
  <2> QED BY <1>c, <2>4, <2>5, <2>6
<1>d. ASSUME BeginFromInput(a) \/ ApplyLoaded(a) \/ Save(a)
      PROVE  \E c \in Checkpoint : Step(a, c)
  <2>1. \A w \in loaded[a] : [w.out EXCEPT !.run = a] \in Checkpoint
    BY <1>0, TakenOver
  <2> QED BY <1>0, <1>d, <2>1 DEF BeginFromInput, ApplyLoaded, Save
<1>1. ASSUME NEW c \in Checkpoint, InBlob(c) PROVE KnownBy(a, c)
  <2>1. CASE PutBlob(a)
    <3>1. /\ puts[a] # <<>>
          /\ blob' = [i \in DOMAIN blob \union {Head(puts[a]).key} |->
                        IF i = Head(puts[a]).key THEN Head(puts[a]).content ELSE blob[i]]
      BY <2>1 DEF PutBlob, File
    <3>2. \A i \in DOMAIN blob' : \/ blob'[i] = puts[a][1].content
                                  \/ i \in DOMAIN blob /\ blob'[i] = blob[i]
      BY <3>1, <1>b
    <3>3. PICK i \in DOMAIN blob' : c = blob'[i]
      BY <1>1
    <3>4. CASE c = puts[a][1].content
      BY <1>b, <3>1, <3>4 DEF KnownBy, Known
    <3>5. CASE i \in DOMAIN blob /\ c = blob[i]
      BY <3>5 DEF KnownBy, Known
    <3> QED BY <3>2, <3>3, <3>4, <3>5
  <2>2. CASE blob' = blob
    BY <1>1, <2>2 DEF KnownBy, Known
  <2>3. CASE \E j \in jobs[a] : SaveWrites(a, j)
    BY <2>2, <2>3 DEF SaveWrites
  <2> QED BY <2>1, <2>2, <2>3, StoreFrame DEF PutIndex
<1>2. ASSUME NEW c \in Checkpoint, InGraph(c) PROVE KnownBy(a, c)
  <2>1. ASSUME NEW d, graph' = [graph EXCEPT ![a] = d] PROVE c = d \/ c \in Known
    BY <1>0, <1>2, <2>1 DEF Known
  <2>2. CASE graph' = graph
    BY <1>2, <2>2 DEF KnownBy, Known
  <2>3. CASE BeginFromInput(a) \/ ApplyLoaded(a) \/ Save(a)
    <3>1. PICK d \in Checkpoint : Step(a, d)
      BY <2>3, <1>d
    <3>2. KnownBy(a, d)
      BY <2>3, <3>1, <1>c
    <3>3. c = d \/ c \in Known
      BY <2>1, <3>1 DEF Step
    <3> QED BY <3>2, <3>3 DEF KnownBy
  <2>4. CASE LoadCheckpoint(a)
    <3>1. blob[parent[a]] \in Known
      BY <1>0, <2>4 DEF LoadCheckpoint, Known
    <3> QED BY <2>1, <2>4, <3>1 DEF LoadCheckpoint, KnownBy
  <2>5. CASE End(a)
    <3>1. graph[a] \in Known
      BY <1>0 DEF Known
    <3>2. \/ graph' = graph
          \/ graph' = [graph EXCEPT ![a] = graph[a]]
          \/ graph' = [graph EXCEPT ![a] = Input(a)]
      BY <2>5 DEF End, Complete, Finish, Abort, Crash, Forget
    <3> QED BY <2>1, <2>2, <3>1, <3>2 DEF KnownBy
  <2>6. CASE Start(a) \/ Check(a) \/ ReadIndex(a) \/ Execute(a) \/ PersistResult(a) \/ Callback(a)
             \/ Background(a)
    BY <2>2, <2>6 DEF Start, Check, ReadIndex, Execute, PersistResult, Callback, Publish, Record,
                      MergeRuntime, PersistToolCalls, Background, PutBlob, PutIndex, PutFails,
                      ReadWrites, SaveWrites, WritesFail
  <2> QED BY <2>3, <2>4, <2>5, <2>6 DEF Act, Open, Run
<1>3. ASSUME NEW c \in Checkpoint, InPuts(c) PROVE KnownBy(a, c)
  <2>0. ASSUME NEW q, puts' = [puts EXCEPT ![a] = q],
               \A i \in 1..Len(q) : KnownBy(a, q[i].content)
        PROVE  KnownBy(a, c)
    <3>0. PICK b \in Attempts : \E i \in 1..Len(puts'[b]) : c = puts'[b][i].content
      BY <1>3
    <3>1. PICK i \in 1..Len(puts'[b]) : c = puts'[b][i].content
      BY <3>0
    <3>2. CASE b = a
      BY <1>0, <2>0, <3>1, <3>2
    <3>3. CASE b # a
      <4>1. puts'[b] = puts[b]
        BY <1>0, <2>0, <3>3
      <4> QED BY <1>3, <3>1, <4>1 DEF KnownBy, Known
    <3> QED BY <3>2, <3>3
  <2>a. \A i \in 1..Len(puts[a]) : puts[a][i].content \in Known
    <3> SUFFICES ASSUME NEW i \in 1..Len(puts[a]) PROVE puts[a][i].content \in Known
      OBVIOUS
    <3>1. puts[a] \in Seq(Put)
      BY <1>0
    <3>2. puts[a][i] \in Put
      BY <3>1, ElementOfSeq
    <3> QED BY <3>2 DEF Known, Put
  <2>1. CASE puts' = puts
    BY <1>3, <2>1 DEF KnownBy, Known
  <2>2. CASE BeginFromInput(a) \/ ApplyLoaded(a) \/ Save(a)
    <3>1. PICK d \in Checkpoint : Step(a, d)
      BY <2>2, <1>d
    <3> DEFINE q == Append(puts[a], PutOf(a, d))
    <3>2. puts' = [puts EXCEPT ![a] = q] /\ PutOf(a, d) \in Put /\ puts[a] \in Seq(Put)
      BY <1>0, <3>1, StepTypes
    <3>3. /\ Len(q) = Len(puts[a]) + 1
          /\ \A i \in 1..Len(puts[a]) : q[i] = puts[a][i]
          /\ q[Len(puts[a]) + 1] = PutOf(a, d)
      BY <3>2, AppendProperties
    <3>4. PutOf(a, d).content = d /\ KnownBy(a, d)
      BY <2>2, <3>1, <1>c DEF PutOf
    <3>5. \A i \in 1..Len(q) : i \in 1..Len(puts[a]) \/ i = Len(puts[a]) + 1
      BY <3>2, <3>3
    <3> HIDE DEF q
    <3>6. \A i \in 1..Len(q) : KnownBy(a, q[i].content)
      <4> SUFFICES ASSUME NEW i \in 1..Len(q) PROVE KnownBy(a, q[i].content)
        OBVIOUS
      <4>1. CASE i \in 1..Len(puts[a])
        BY <2>a, <3>3, <4>1 DEF KnownBy
      <4>2. CASE i = Len(puts[a]) + 1
        BY <3>3, <3>4, <4>2
      <4> QED BY <3>5, <4>1, <4>2
    <3> QED BY <3>2, <3>6, <2>0
  <2>3. CASE PutBlob(a)
    <3> DEFINE p == [puts[a][1] EXCEPT !.stored = TRUE]
               q == [puts[a] EXCEPT ![1] = p]
    <3>1. /\ puts[a] # <<>> /\ puts[a] \in Seq(Put) /\ 1 \in 1..Len(puts[a]) /\ puts[a][1] \in Put
          /\ puts' = [puts EXCEPT ![a] = q]
      BY <2>3, <1>b DEF PutBlob
    <3>2. p \in Put /\ p.content = puts[a][1].content
      BY <3>1 DEF Put
    <3> HIDE DEF p
    <3>3. /\ Len(q) = Len(puts[a])
          /\ \A i \in 1..Len(puts[a]) : q[i] = IF i = 1 THEN p ELSE puts[a][i]
      BY <3>1, <3>2, ExceptSeq
    <3> HIDE DEF q
    <3>4. \A i \in 1..Len(q) : q[i].content = puts[a][i].content
      BY <3>2, <3>3
    <3>5. \A i \in 1..Len(q) : KnownBy(a, q[i].content)
      BY <2>a, <3>3, <3>4 DEF KnownBy
    <3> QED BY <3>1, <3>5, <2>0
  <2>4. CASE PutIndex(a) \/ PutFails(a)
    <3> DEFINE q == Tail(puts[a])
    <3>1. /\ puts[a] # <<>> /\ puts[a] \in Seq(Put) /\ puts' = [puts EXCEPT ![a] = q]
      BY <1>0, <2>4 DEF PutIndex, PutFails, Dequeue
    <3>2. /\ Len(q) = Len(puts[a]) - 1
          /\ \A i \in 1..Len(q) : q[i] = puts[a][i + 1]
      BY <3>1, HeadTailProperties
    <3>3. \A i \in 1..Len(q) : i + 1 \in 1..Len(puts[a])
      BY <3>1, <3>2
    <3> HIDE DEF q
    <3>4. \A i \in 1..Len(q) : KnownBy(a, q[i].content)
      BY <2>a, <3>2, <3>3 DEF KnownBy
    <3> QED BY <3>1, <3>4, <2>0
  <2>5. CASE Crash(a)
    <3>1. puts' = [puts EXCEPT ![a] = <<>>] /\ \A i \in 1..Len(<<>>) : FALSE
      <4>1. Len(<<>>) = 0
        OBVIOUS
      <4> QED BY <2>5, <4>1 DEF Crash
    <3>2. \A i \in 1..Len(<<>>) : KnownBy(a, <<>>[i].content)
      BY <3>1
    <3> QED BY <3>1, <3>2, <2>0
  <2>6. CASE Start(a) \/ Check(a) \/ ReadIndex(a) \/ LoadCheckpoint(a) \/ Execute(a)
             \/ PersistResult(a) \/ Callback(a)
    BY <2>1, <2>6 DEF Start, Check, ReadIndex, LoadCheckpoint, Execute, PersistResult, Callback,
                      Publish, Record, MergeRuntime, PersistToolCalls
  <2>7. CASE Complete(a) \/ Finish(a) \/ Abort(a)
             \/ \E j \in jobs[a] : ReadWrites(a, j) \/ SaveWrites(a, j) \/ WritesFail(a, j)
    BY <2>1, <2>7 DEF Complete, Finish, Abort, ReadWrites, SaveWrites, WritesFail
  <2> QED BY <2>2, <2>3, <2>4, <2>5, <2>6, <2>7 DEF Act, Open, Run, Background, End
<1>4. ASSUME NEW c \in Checkpoint, InEntries(c) PROVE KnownBy(a, c)
  <2>1. PICK w \in Entries' : c = w.out
    BY <1>4
  <2>2. w \in Entries \/ (Save(a) /\ w = NewEntry(a))
    BY <1>0, EntriesNext
  <2> QED BY <1>4, <2>1, <2>2 DEF KnownBy, Known, NewEntry
<1> QED BY <1>a, <1>1, <1>2, <1>3, <1>4

\* What a checkpoint says has happened, did happen.
Recorded(c) ==
    /\ Behind(c) \ {"start"} \subseteq rows \intersect published
    /\ \A n \in Behind(c) \intersect OptionalRole : <<n, c.by[n]>> \in toolRows

\* How far on_node_complete has come for the node an attempt executes.
CallbackDone(a) ==
    /\ pc[a] \in {"record", "merge", "tools", "save"} =>
         draft[a].last \in published \union {"start"}
    /\ pc[a] \in {"merge", "tools", "save"} => draft[a].last \in rows \union {"start"}
    /\ pc[a] = "save" /\ draft[a].last \in OptionalRole => <<draft[a].last, a>> \in toolRows

EffectsInv ==
    failures = 0 => /\ \A c \in Known : Recorded(c)
                    /\ \A a \in Attempts : CallbackDone(a)

LEMMA EffectsInit == Init => EffectsInv
<1> SUFFICES ASSUME Init PROVE EffectsInv
  OBVIOUS
<1> USE DEF Init
<1>1. Entries = {} /\ DOMAIN blob = {} /\ \A a \in Attempts : Len(puts[a]) = 0 /\ graph[a] = Input(a)
  BY DEF Entries
<1>2. ASSUME NEW c \in Known PROVE \E a \in Attempts : c = Input(a)
  BY <1>1 DEF Known
<1>3. \A c \in Known : Behind(c) = {}
  BY <1>2, NothingBehindInput
<1> QED BY <1>3 DEF EffectsInv, Recorded, CallbackDone

\* Nothing that was published or stored is taken back.
LEMMA EffectsKept ==
    ASSUME TypesInv, NEW a \in Attempts, Act(a), failures' = 0
    PROVE  /\ failures = 0 /\ ~Fails
           /\ published \subseteq published' /\ rows \subseteq rows' /\ toolRows \subseteq toolRows'
<1> USE DEF store, effects, local, queues, counts
<1>0. failures \in Nat
  BY CheckpointAssumption DEF TypesInv, TypeOK
<1>1. ~Fails
  BY <1>0 DEF Fails
<1>2. CASE Open(a)
  BY <1>1, <1>2 DEF Open, Start, Check, ReadIndex, BeginFromInput, LoadCheckpoint
<1>3. CASE Run(a)
  BY <1>1, <1>3 DEF Run, ApplyLoaded, Execute, PersistResult, Callback, Publish, Record,
                    MergeRuntime, PersistToolCalls, Save
<1>4. CASE Background(a)
  BY <1>1, <1>4 DEF Background, PutBlob, PutIndex, PutFails, ReadWrites, SaveWrites, WritesFail
<1>5. CASE End(a)
  BY <1>1, <1>5 DEF End, Complete, Finish, Abort, Crash
<1> QED BY <1>1, <1>2, <1>3, <1>4, <1>5 DEF Act

\* At the end of a superstep the draft is as well recorded as the graph.
LEMMA DraftRecorded ==
    ASSUME TypesInv, NEW a \in Attempts, pc[a] = "save", Recorded(graph[a]), CallbackDone(a)
    PROVE  Recorded(draft[a])
<1> DEFINE g == graph[a]
           d == draft[a]
<1>1. /\ g \in Checkpoint /\ d \in Checkpoint
      /\ d.last = Successor(g) /\ d.last \in Node
      /\ d.roles = g.roles \/ d.last = "plan"
      /\ d.by = IF d.last \in Author THEN [g.by EXCEPT ![d.last] = a] ELSE g.by
  BY DEF TypesInv, TypeOK, DraftFollows, Executing
<1>2. /\ d.last \in published \union {"start"} /\ d.last \in rows \union {"start"}
      /\ d.last \in OptionalRole => <<d.last, a>> \in toolRows
  BY DEF CallbackDone
<1>3. Recorded(g)
  OBVIOUS
<1> HIDE DEF g, d
<1>4. Behind(d) \subseteq Behind(g) \union {d.last}
  <2>1. d.last # "end"
    BY <1>1, NodeTable
  <2> QED BY <1>1, <2>1, BehindGrows
<1>5. Behind(d) \ {"start"} \subseteq rows \intersect published
  BY <1>2, <1>3, <1>4 DEF Recorded
<1>6. ASSUME NEW n \in Behind(d) \intersect OptionalRole PROVE <<n, d.by[n]>> \in toolRows
  <2>0. n \in Author /\ g.by \in [Author -> Attempts \union {NoAttempt}]
    BY <1>1 DEF Author, Checkpoint
  <2>1. CASE n = d.last
    BY <1>1, <1>2, <2>0, <2>1
  <2>2. CASE n # d.last
    <3>1. n \in Behind(g) /\ d.by[n] = g.by[n]
      BY <1>1, <1>4, <2>0, <2>2
    <3> QED BY <1>3, <3>1 DEF Recorded
  <2> QED BY <2>1, <2>2
<1>7. Recorded(d)
  BY <1>5, <1>6 DEF Recorded
<1> QED BY <1>7 DEF d

LEMMA CallbackNext ==
    ASSUME TypesInv, NEW a \in Attempts, Act(a), failures' = 0, NEW b \in Attempts, CallbackDone(b)
    PROVE  CallbackDone(b)'
<1> USE DEF store, effects, local, queues, counts
<1>0. /\ pc \in [Attempts -> Pcs] /\ draft \in [Attempts -> Checkpoint]
      /\ \A c \in Attempts : pc[c] \in Executing => draft[c].last \in Node
  BY DEF TypesInv, TypeOK, DraftFollows
<1>a. ~Fails /\ published \subseteq published' /\ rows \subseteq rows' /\ toolRows \subseteq toolRows'
  BY EffectsKept
<1>b. ASSUME pc'[b] = pc[b], draft'[b] = draft[b] PROVE CallbackDone(b)'
  BY <1>a, <1>b DEF CallbackDone
<1>c. ASSUME pc'[b] \notin {"record", "merge", "tools", "save"} PROVE CallbackDone(b)'
  BY <1>c DEF CallbackDone
<1>1. CASE Open(a) \/ End(a) \/ ApplyLoaded(a) \/ Save(a)
  <2>1. CASE b = a
    <3>1. \E l \in {"check", "open", "load", "tick", "return", "abort", "returned", "failed"} : Goto(a, l)
      BY <1>1 DEF Open, Start, Check, ReadIndex, BeginFromInput, LoadCheckpoint, ApplyLoaded, Save,
                  Step, End, Complete, Finish, Abort, Crash
    <3> QED BY <1>0, <1>c, <2>1, <3>1 DEF Goto
  <2>2. CASE b # a
    <3>1. pc'[b] = pc[b] /\ draft'[b] = draft[b]
      BY <1>0, <1>1, <2>2 DEF Open, Start, Check, ReadIndex, BeginFromInput, LoadCheckpoint,
            ApplyLoaded, Save, Step, End, Complete, Finish, Abort, Crash, Goto, Forget
    <3> QED BY <1>b, <3>1
  <2> QED BY <2>1, <2>2
<1>2. CASE Background(a)
  BY <1>2, <1>b
     DEF Background, PutBlob, PutIndex, PutFails, ReadWrites, SaveWrites, WritesFail
<1>3. CASE Execute(a)
  <2> DEFINE n == Successor(graph[a])
  <2>1. CASE b = a /\ n = "start"
    <3>1. PICK c \in Outputs(a, n) : draft' = [draft EXCEPT ![a] = c]
      BY <1>3 DEF Execute
    <3>2. c.last = "start"
      BY <2>1, <3>1 DEF Outputs
    <3>3. draft'[b].last = "start"
      BY <1>0, <2>1, <3>1, <3>2
    <3> QED BY <3>3 DEF CallbackDone, OptionalRole
  <2>2. CASE b = a /\ n # "start"
    <3>1. pc'[b] = IF n = "persist_result" THEN "persist" ELSE "publish"
      BY <1>0, <1>3, <2>2 DEF Execute, Goto
    <3> QED BY <1>c, <3>1
  <2>3. CASE b # a
    BY <1>0, <1>3, <1>b, <2>3 DEF Execute, Goto
  <2> QED BY <2>1, <2>2, <2>3
<1>4. CASE PersistResult(a) \/ Callback(a)
  <2>0. draft' = draft /\ pc[a] \in Executing
    BY <1>4 DEF PersistResult, Callback, Publish, Record, MergeRuntime, PersistToolCalls, Executing
  <2>1. CASE b # a
    BY <1>0, <1>4, <1>b, <2>0, <2>1
       DEF PersistResult, Callback, Publish, Record, MergeRuntime, PersistToolCalls, Goto
  <2>2. CASE b = a
    <3>1. CASE PersistResult(a)
      BY <1>0, <1>c, <2>2, <3>1 DEF PersistResult, Goto
    <3>2. CASE Publish(a)
      <4>1. pc'[b] = "record" /\ draft[b].last \in published'
        BY <1>0, <1>a, <2>2, <3>2 DEF Publish, Goto
      <4> QED BY <2>0, <4>1 DEF CallbackDone
    <3>3. CASE Record(a)
      <4>1. /\ pc[b] = "record" /\ pc'[b] = "merge" /\ draft[b].last \in rows'
        BY <1>0, <1>a, <2>2, <3>3 DEF Record, Goto
      <4> QED BY <1>a, <2>0, <4>1 DEF CallbackDone
    <3>4. CASE MergeRuntime(a)
      <4>1. pc[b] = "merge" /\ pc'[b] = "tools"
        BY <1>0, <2>2, <3>4 DEF MergeRuntime, Goto
      <4> QED BY <1>a, <2>0, <4>1 DEF CallbackDone
    <3>5. CASE PersistToolCalls(a)
      <4>1. pc[b] = "tools" /\ pc'[b] = "save"
        BY <1>0, <2>2, <3>5 DEF PersistToolCalls, Goto
      <4>2. draft[b].last \in OptionalRole => <<draft[b].last, a>> \in toolRows'
        BY <1>a, <2>2, <3>5 DEF PersistToolCalls
      <4> QED BY <1>a, <2>0, <2>2, <4>1, <4>2 DEF CallbackDone
    <3> QED BY <1>4, <3>1, <3>2, <3>3, <3>4, <3>5 DEF Callback
  <2> QED BY <2>1, <2>2
<1> QED BY <1>1, <1>2, <1>3, <1>4 DEF Act, Open, Run

LEMMA EffectsNext ==
    ASSUME TypesInv, EffectsInv, NEW a \in Attempts, Act(a)
    PROVE  EffectsInv'
<1> SUFFICES ASSUME failures' = 0
             PROVE  /\ \A c \in Known' : Recorded(c)'
                    /\ \A b \in Attempts : CallbackDone(b)'
  BY DEF EffectsInv
<1>1. /\ failures = 0
      /\ published \subseteq published' /\ rows \subseteq rows' /\ toolRows \subseteq toolRows'
  BY EffectsKept
<1>2. (\A c \in Known : Recorded(c)) /\ \A b \in Attempts : CallbackDone(b)
  BY <1>1 DEF EffectsInv
<1>3. ASSUME NEW c \in Known' PROVE Recorded(c)
  <2>1. KnownBy(a, c)
    BY KnownNext
  <2>2. CASE c \in Known
    BY <1>2, <2>2
  <2>3. CASE c = Input(a)
    BY <2>3, NothingBehindInput DEF Recorded
  <2>4. CASE Save(a) /\ c = draft[a]
    <3>1. graph[a] \in Known
      BY DEF TypesInv, TypeOK, Known
    <3>2. pc[a] = "save"
      BY <2>4 DEF Save
    <3> QED BY <1>2, <2>4, <3>1, <3>2, DraftRecorded
  <2>5. ASSUME NEW w \in loaded[a], c = [w.out EXCEPT !.run = a] PROVE Recorded(c)
    <3>1. w \in Entries /\ w.out \in Checkpoint
      BY DEF TypesInv, TypeOK, Entries, Entry
    <3>2. w.out \in Known
      BY <3>1 DEF Known
    <3>3. c.last = w.out.last /\ c.by = w.out.by /\ c.roles = w.out.roles
      BY <2>5, <3>1 DEF Checkpoint
    <3>4. Behind(c) = Behind(w.out)
      BY <3>3 DEF Behind
    <3>5. Recorded(w.out)
      BY <1>2, <3>2
    <3> QED BY <3>3, <3>4, <3>5 DEF Recorded
  <2> QED BY <2>1, <2>2, <2>3, <2>4, <2>5 DEF KnownBy
<1>4. \A c \in Known' : Recorded(c)'
  BY <1>1, <1>3 DEF Recorded
<1>5. \A b \in Attempts : CallbackDone(b)'
  BY <1>2, CallbackNext
<1> QED BY <1>4, <1>5

\* A node's effects come before the checkpoint that has it behind it: when no
\* call fails, whatever is stored was published, has its row, and has the
\* tool calls of the very execution whose output counts.
THEOREM EffectsAlwaysPrecedeCheckpoint == Spec => []EffectsPrecedeCheckpoint
<1>1. Init => EffectsInv
  BY EffectsInit
<1>2. TypesInv /\ EffectsInv /\ [Next]_vars => EffectsInv'
  <2>1. ASSUME EffectsInv, UNCHANGED vars PROVE EffectsInv'
    <3> USE <2>1 DEF vars, store, effects, local, queues, counts
    <3>1. Entries' = Entries
      BY DEF Entries
    <3>2. Known' = Known
      BY <3>1 DEF Known
    <3> QED BY <3>2 DEF EffectsInv, Recorded, CallbackDone
  <2> QED BY <2>1, EffectsNext DEF Next, Act
<1>3. TypesInv /\ EffectsInv => EffectsPrecedeCheckpoint
  <2>1. TypesInv => \A i \in DOMAIN blob : blob[i] \in Known
    BY DEF TypesInv, TypeOK, Known
  <2> QED BY <2>1 DEF EffectsInv, EffectsPrecedeCheckpoint, Recorded
<1> QED BY <1>1, <1>2, <1>3, CheckpointInvariant, PTL DEF Spec

-----------------------------------------------------------------------------
\* Attempts that do not overlap

\* Nothing that is indexed, or on its way to the index, is further than the
\* attempt's graph.
Ahead(a) ==
    /\ index \in DOMAIN blob => Rank[blob[index].last] <= Rank[graph[a].last]
    /\ \A i \in 1..Len(puts[a]) :
          /\ Rank[puts[a][i].content.last] <= Rank[graph[a].last]
          /\ puts[a][i].stored => Rank[blob[puts[a][i].key].last] <= Rank[graph[a].last]

\* What an attempt that runs alone has done so far.
AloneAt(a) ==
    /\ pc[a] \notin Alive \/ pc[a] \in {"check", "open", "load"} => puts[a] = <<>>
    /\ pc[a] \in {"open", "load"} /\ fresh[a] => index \notin DOMAIN blob
    /\ pc[a] = "load" => parent[a] = index
    /\ pc[a] \in Executing \union {"tick"} => Ahead(a)

SerialInv ==
    overlaps = 0 => /\ \A a, b \in Attempts : pc[a] \in Alive /\ pc[b] \in Alive => a = b
                    /\ \A a \in Attempts : AloneAt(a)

LEMMA SerialInit == Init => SerialInv
BY DEF Init, SerialInv, AloneAt, Alive, Executing

\* Only the acting attempt is alive, and nothing changes for the others.
LEMMA OthersRest ==
    ASSUME TypesInv, SerialInv, NEW a \in Attempts, Act(a), overlaps' = 0
    PROVE  /\ overlaps = 0
           /\ \A b \in Attempts \ {a} : pc'[b] = pc[b] /\ pc[b] \notin Alive /\ puts'[b] = puts[b]
<1> USE DEF store, effects, local, queues, counts
<1>0. /\ pc \in [Attempts -> Pcs] /\ puts \in [Attempts -> Seq(Put)] /\ overlaps \in Nat
  <2>1. overlaps \in 0..MaxOverlaps /\ MaxOverlaps \in Nat
    BY CheckpointAssumption DEF TypesInv, TypeOK
  <2>2. overlaps \in Nat
    BY <2>1
  <2> QED BY <2>2 DEF TypesInv, TypeOK, Put
<1>1. overlaps = 0
  <2>1. CASE overlaps' = overlaps
    BY <2>1
  <2>2. CASE overlaps' = overlaps + 1
    BY <1>0, <2>2
  <2>3. CASE Open(a)
    BY <2>1, <2>2, <2>3 DEF Open, Start, Check, ReadIndex, BeginFromInput, LoadCheckpoint
  <2>4. CASE Run(a)
    BY <2>1, <2>4 DEF Run, ApplyLoaded, Execute, PersistResult, Callback, Publish, Record,
                      MergeRuntime, PersistToolCalls, Save, Fails
  <2>5. CASE Background(a) \/ End(a)
    BY <2>1, <2>5 DEF Background, PutBlob, PutIndex, PutFails, ReadWrites, SaveWrites, WritesFail,
                      End, Complete, Finish, Abort, Crash, Fails
  <2> QED BY <2>3, <2>4, <2>5 DEF Act
<1>2. pc[a] \in Alive \/ \A b \in Attempts : pc[b] \notin Alive
  <2>1. CASE Start(a)
    BY <1>0, <1>1, <2>1 DEF Start
  <2>2. CASE Open(a) /\ ~Start(a)
    BY <2>2 DEF Open, Check, ReadIndex, BeginFromInput, LoadCheckpoint, Alive
  <2>3. CASE Run(a)
    BY <2>3 DEF Run, ApplyLoaded, Execute, PersistResult, Callback, Publish, Record,
                MergeRuntime, PersistToolCalls, Save, Alive, Executing
  <2>4. CASE Background(a) \/ End(a)
    BY <2>4 DEF Background, PutBlob, PutIndex, PutFails, ReadWrites, SaveWrites, WritesFail,
                End, Complete, Finish, Abort, Crash, Alive
  <2> QED BY <2>1, <2>2, <2>3, <2>4 DEF Act
<1>3. \A b \in Attempts \ {a} : pc[b] \notin Alive
  BY <1>1, <1>2 DEF SerialInv
<1>4. \A b \in Attempts \ {a} : pc'[b] = pc[b]
  <2>1. CASE UNCHANGED pc
    BY <2>1
  <2>2. ASSUME NEW label, Goto(a, label) PROVE \A b \in Attempts \ {a} : pc'[b] = pc[b]
    BY <1>0, <2>2 DEF Goto
  <2>3. CASE Open(a)
    BY <2>2, <2>3 DEF Open, Start, Check, ReadIndex, BeginFromInput, LoadCheckpoint, Step
  <2>4. CASE Run(a)
    BY <2>2, <2>4 DEF Run, ApplyLoaded, Execute, PersistResult, Callback, Publish, Record,
                      MergeRuntime, PersistToolCalls, Save, Step
  <2>5. CASE Background(a) \/ End(a)
    BY <2>1, <2>2, <2>5 DEF Background, PutBlob, PutIndex, PutFails, ReadWrites, SaveWrites,
                            WritesFail, End, Complete, Finish, Abort, Crash
  <2> QED BY <2>3, <2>4, <2>5 DEF Act
<1>5. \A b \in Attempts \ {a} : puts'[b] = puts[b]
  <2>1. CASE UNCHANGED puts
    BY <2>1
  <2>2. ASSUME NEW q, puts' = [puts EXCEPT ![a] = q]
        PROVE  \A b \in Attempts \ {a} : puts'[b] = puts[b]
    BY <1>0, <2>2
  <2>3. CASE Open(a)
    BY <2>1, <2>2, <2>3 DEF Open, Start, Check, ReadIndex, BeginFromInput, LoadCheckpoint, Step
  <2>4. CASE Run(a)
    BY <2>1, <2>2, <2>4 DEF Run, ApplyLoaded, Execute, PersistResult, Callback, Publish, Record,
                            MergeRuntime, PersistToolCalls, Save, Step
  <2>5. CASE Background(a) \/ End(a)
    BY <2>1, <2>2, <2>5 DEF Background, PutBlob, PutIndex, PutFails, ReadWrites, SaveWrites,
                            WritesFail, End, Complete, Finish, Abort, Crash, Dequeue
  <2> QED BY <2>3, <2>4, <2>5 DEF Act
<1> QED BY <1>1, <1>3, <1>4, <1>5

LEMMA Ranked == \A c \in Checkpoint : Rank[c.last] \in 1..9
BY RankOrders DEF Checkpoint

\* The graph moves on to a checkpoint of no lower rank.
LEMMA StepAhead ==
    ASSUME TypesInv, NEW a \in Attempts, NEW c \in Checkpoint, Step(a, c), UNCHANGED <<blob, index>>,
           \/ Ahead(a) /\ Rank[graph[a].last] <= Rank[c.last]
           \/ puts[a] = <<>> /\ index \notin DOMAIN blob
    PROVE  Ahead(a)'
<1>0. /\ TypeOK /\ graph \in [Attempts -> Checkpoint] /\ puts \in [Attempts -> Seq(Put)]
      /\ \A i \in DOMAIN blob : blob[i] \in Checkpoint
  BY DEF TypesInv, TypeOK, Put
<1> DEFINE p == PutOf(a, c)
           q == Append(puts[a], p)
<1>1. graph'[a] = c
  BY <1>0 DEF Step
<1>2. p \in Put /\ p.content = c /\ ~p.stored /\ puts'[a] = q
  BY <1>0, StepTypes DEF PutOf
<1>3. /\ Len(q) = Len(puts[a]) + 1
      /\ \A i \in 1..Len(puts[a]) : q[i] = puts[a][i]
      /\ q[Len(puts[a]) + 1] = p
  BY <1>0, <1>2, AppendProperties
<1> HIDE DEF p, q
<1>4. Rank[c.last] \in 1..9 /\ Rank[graph[a].last] \in 1..9
  BY <1>0, Ranked
<1>5. index \in DOMAIN blob => Rank[blob[index].last] <= Rank[c.last]
  <2> SUFFICES ASSUME index \in DOMAIN blob PROVE Rank[blob[index].last] <= Rank[c.last]
    OBVIOUS
  <2>1. Rank[blob[index].last] \in 1..9
    BY <1>0, Ranked
  <2> QED BY <1>4, <2>1 DEF Ahead
<1>6. ASSUME NEW i \in 1..Len(q)
      PROVE  /\ Rank[q[i].content.last] <= Rank[c.last]
             /\ q[i].stored => Rank[blob[q[i].key].last] <= Rank[c.last]
  <2>1. CASE i = Len(puts[a]) + 1
    BY <1>2, <1>3, <1>4, <2>1
  <2>2. CASE i \in 1..Len(puts[a])
    <3>1. puts[a] \in Seq(Put) /\ q[i] = puts[a][i] /\ puts[a] # <<>>
      BY <1>0, <1>3, <2>2
    <3>2. puts[a][i] \in Put
      BY <2>2, <3>1, ElementOfSeq
    <3>3. /\ Rank[puts[a][i].content.last] \in 1..9
          /\ puts[a][i].stored => Rank[blob[puts[a][i].key].last] \in 1..9
      BY <1>0, <2>2, <3>2, Ranked DEF Put, TypesInv, KeysInUse
    <3>4. Ahead(a) /\ Rank[graph[a].last] <= Rank[c.last]
      BY <3>1
    <3>5. /\ Rank[puts[a][i].content.last] <= Rank[graph[a].last]
          /\ puts[a][i].stored => Rank[blob[puts[a][i].key].last] <= Rank[graph[a].last]
      BY <2>2, <3>4 DEF Ahead
    <3>6. \A k \in 1..9 : k <= Rank[graph[a].last] => k <= Rank[c.last]
      BY <1>4, <3>4
    <3>7. Rank[puts[a][i].content.last] <= Rank[c.last]
      BY <3>3, <3>5, <3>6
    <3>8. puts[a][i].stored => Rank[blob[puts[a][i].key].last] <= Rank[c.last]
      BY <3>3, <3>5, <3>6
    <3> QED BY <3>1, <3>7, <3>8
  <2>3. i \in 1..Len(puts[a]) \/ i = Len(puts[a]) + 1
    BY <1>0, <1>3
  <2> QED BY <2>1, <2>2, <2>3
<1> QED BY <1>1, <1>2, <1>5, <1>6 DEF Ahead

\* Storing the attempt's checkpoints, in order, never overtakes its graph.
LEMMA BackgroundAhead ==
    ASSUME TypesInv, NEW a \in Attempts, Ahead(a), Background(a)
    PROVE  Ahead(a)'
<1> USE DEF store, effects, local, queues, counts
<1>0. /\ puts \in [Attempts -> Seq(Put)]
  BY DEF TypesInv, TypeOK, Put
<1>a. graph' = graph
  BY DEF Background, PutBlob, PutIndex, PutFails, ReadWrites, SaveWrites, WritesFail
<1>b. ASSUME puts[a] # <<>>
      PROVE  /\ puts[a] \in Seq(Put) /\ Head(puts[a]) = puts[a][1] /\ 1 \in 1..Len(puts[a])
             /\ puts[a][1] \in Put
  <2>1. puts[a] \in Seq(Put) /\ Head(puts[a]) = puts[a][1] /\ 1 \in 1..Len(puts[a])
    BY <1>0, <1>b
  <2> QED BY <2>1, ElementOfSeq
<1>1. CASE PutBlob(a)
  <2> DEFINE key == puts[a][1].key
             c == puts[a][1].content
             p == [puts[a][1] EXCEPT !.stored = TRUE]
             q == [puts[a] EXCEPT ![1] = p]
  <2>1. /\ puts[a] # <<>> /\ puts' = [puts EXCEPT ![a] = q] /\ index' = index
        /\ blob' = [i \in DOMAIN blob \union {Head(puts[a]).key} |->
                      IF i = Head(puts[a]).key THEN Head(puts[a]).content ELSE blob[i]]
    BY <1>1 DEF PutBlob, File
  <2>2. /\ puts[a] \in Seq(Put) /\ 1 \in 1..Len(puts[a]) /\ puts[a][1] \in Put
        /\ Head(puts[a]) = puts[a][1]
    BY <2>1, <1>b
  <2>3. p \in Put /\ p.content = c /\ p.key = key
    BY <2>2 DEF Put
  <2>4. Rank[c.last] <= Rank[graph[a].last]
    BY <2>2 DEF Ahead
  <2>5. DOMAIN blob' = DOMAIN blob \union {key}
    BY <2>1, <2>2
  <2>6. \A i \in DOMAIN blob' : blob'[i] = IF i = key THEN c ELSE blob[i]
    BY <2>1, <2>2
  <2> HIDE DEF p
  <2>7. /\ Len(q) = Len(puts[a])
        /\ \A i \in 1..Len(puts[a]) : q[i] = IF i = 1 THEN p ELSE puts[a][i]
    BY <2>2, <2>3, ExceptSeq
  <2>8. puts'[a] = q
    BY <1>0, <2>1
  <2> HIDE DEF q
  <2>9. \A i \in 1..Len(q) : q[i].content = puts[a][i].content /\ q[i].key = puts[a][i].key
    BY <2>3, <2>7
  <2>10. \A i \in 1..Len(q) : q[i].stored =>
            q[i].key = key \/ (q[i].key \in DOMAIN blob /\ puts[a][i].stored)
    BY <2>3, <2>7 DEF TypesInv, KeysInUse
  <2> HIDE DEF key, c
  <2>11. index' \in DOMAIN blob' => Rank[blob'[index'].last] <= Rank[graph'[a].last]
    BY <1>a, <2>1, <2>4, <2>5, <2>6 DEF Ahead
  <2>12. ASSUME NEW i \in 1..Len(q)
         PROVE  /\ Rank[q[i].content.last] <= Rank[graph'[a].last]
                /\ q[i].stored => Rank[blob'[q[i].key].last] <= Rank[graph'[a].last]
    <3>1. Rank[q[i].content.last] <= Rank[graph[a].last]
      BY <2>7, <2>9 DEF Ahead
    <3>2. ASSUME q[i].stored PROVE Rank[blob'[q[i].key].last] <= Rank[graph[a].last]
      <4>1. CASE q[i].key = key
        BY <2>4, <2>5, <2>6, <4>1
      <4>2. CASE q[i].key # key
        <5>1. q[i].key \in DOMAIN blob /\ puts[a][i].stored /\ q[i].key = puts[a][i].key
          BY <2>9, <2>10, <3>2, <4>2
        <5>2. blob'[q[i].key] = blob[puts[a][i].key]
          BY <2>5, <2>6, <4>2, <5>1
        <5> QED BY <2>7, <5>1, <5>2 DEF Ahead
      <4> QED BY <4>1, <4>2
    <3> QED BY <1>a, <3>1, <3>2
  <2> QED BY <2>8, <2>11, <2>12 DEF Ahead
<1>2. CASE PutIndex(a) \/ PutFails(a)
  <2> DEFINE q == Tail(puts[a])
  <2>1. /\ puts[a] # <<>> /\ puts' = [puts EXCEPT ![a] = q] /\ blob' = blob
        /\ index' = index \/ (index' = Head(puts[a]).key /\ Head(puts[a]).stored)
    BY <1>2 DEF PutIndex, PutFails, Dequeue
  <2>2. puts[a] \in Seq(Put) /\ 1 \in 1..Len(puts[a]) /\ Head(puts[a]) = puts[a][1]
    BY <2>1, <1>b
  <2>3. /\ Len(q) = Len(puts[a]) - 1
        /\ \A i \in 1..Len(q) : q[i] = puts[a][i + 1]
    BY <2>1, <2>2, HeadTailProperties
  <2>4. \A i \in 1..Len(q) : i + 1 \in 1..Len(puts[a])
    BY <2>2, <2>3
  <2>5. puts'[a] = q
    BY <1>0, <2>1
  <2> HIDE DEF q
  <2>6. index' \in DOMAIN blob' => Rank[blob'[index'].last] <= Rank[graph'[a].last]
    BY <1>a, <2>1, <2>2 DEF Ahead
  <2>7. \A i \in 1..Len(q) :
           /\ Rank[q[i].content.last] <= Rank[graph'[a].last]
           /\ q[i].stored => Rank[blob'[q[i].key].last] <= Rank[graph'[a].last]
    BY <1>a, <2>1, <2>3, <2>4 DEF Ahead
  <2> QED BY <2>5, <2>6, <2>7 DEF Ahead
<1>3. ASSUME NEW j \in jobs[a], ReadWrites(a, j) \/ SaveWrites(a, j) \/ WritesFail(a, j)
      PROVE  Ahead(a)'
  BY <1>3, <1>a DEF ReadWrites, SaveWrites, WritesFail, Ahead
<1> QED BY <1>1, <1>2, <1>3 DEF Background

LEMMA AloneNext ==
    ASSUME TypesInv, NEW a \in Attempts, AloneAt(a), Act(a), overlaps' = 0
    PROVE  AloneAt(a)'
<1> USE DEF store, effects, local, queues, counts
<1>0. /\ TypeOK
      /\ pc \in [Attempts -> Pcs] /\ puts \in [Attempts -> Seq(Put)] /\ graph \in [Attempts -> Checkpoint]
      /\ draft \in [Attempts -> Checkpoint] /\ fresh \in [Attempts -> BOOLEAN]
      /\ parent \in [Attempts -> Ids] /\ loaded \in [Attempts -> SUBSET Entry]
      /\ \A i \in DOMAIN blob : blob[i] \in Checkpoint
  BY DEF TypesInv, TypeOK, Put
<1>a. ASSUME NEW label \in Pcs, Goto(a, label) PROVE pc'[a] = label
  BY <1>0, <1>a DEF Goto
<1>1. CASE Start(a)
  <2>1. pc[a] \notin Alive /\ pc'[a] = "check" /\ puts' = puts
    BY <1>0, <1>1 DEF Start, Alive, Executing, Goto
  <2> QED BY <2>1 DEF AloneAt, Executing
<1>2. CASE Check(a)
  <2>1. /\ pc[a] = "check" /\ pc'[a] = "open" /\ puts' = puts
        /\ fresh'[a] = (index \notin DOMAIN blob) /\ index' = index /\ blob' = blob
    BY <1>0, <1>2 DEF Check, Goto
  <2> QED BY <2>1 DEF AloneAt, Executing
<1>3. CASE ReadIndex(a)
  <2>1. /\ pc[a] = "open" /\ pc'[a] = "load" /\ puts' = puts /\ fresh' = fresh
        /\ parent'[a] = index /\ index' = index /\ blob' = blob
    BY <1>0, <1>3 DEF ReadIndex, Goto
  <2> QED BY <2>1 DEF AloneAt, Executing
<1>4. ASSUME Ahead(a)', pc'[a] \in Executing \union {"tick"} PROVE AloneAt(a)'
  BY <1>4 DEF AloneAt, Executing, Alive
<1>5. CASE BeginFromInput(a)
  <2>1. /\ Step(a, Input(a)) /\ Input(a) \in Checkpoint /\ pc'[a] = "tick"
        /\ puts[a] = <<>> /\ index \notin DOMAIN blob /\ UNCHANGED <<blob, index>>
    BY <1>0, <1>5, NothingBehindInput DEF BeginFromInput, Step, Goto, AloneAt
  <2>2. Ahead(a)'
    BY <2>1, StepAhead
  <2> QED BY <2>1, <2>2, <1>4
<1>6. CASE LoadCheckpoint(a)
  <2>1. /\ pc'[a] = "tick" /\ graph'[a] = blob[index] /\ index \in DOMAIN blob
        /\ puts'[a] = <<>> /\ UNCHANGED <<blob, index>>
    BY <1>0, <1>6 DEF LoadCheckpoint, Goto, AloneAt
  <2>2. Len(puts'[a]) = 0 /\ Rank[blob[index].last] \in 1..9
    BY <1>0, <2>1, Ranked
  <2>3. \A i \in 1..Len(puts'[a]) : FALSE
    BY <2>2
  <2>4. Ahead(a)'
    BY <2>1, <2>2, <2>3 DEF Ahead
  <2> QED BY <2>1, <2>4, <1>4
<1>7. CASE ApplyLoaded(a)
  <2>1. PICK w \in loaded[a] : /\ w.task = <<Id(graph[a]), Successor(graph[a])>>
                               /\ Step(a, [w.out EXCEPT !.run = a])
    BY <1>7 DEF ApplyLoaded
  <2> DEFINE c == [w.out EXCEPT !.run = a]
  <2>2. w \in Entry /\ w \in Entries
    BY <1>0 DEF Entries
  <2>3. c \in Checkpoint /\ c.last = Successor(graph[a]) /\ Successor(graph[a]) \in Node
    BY <2>1, <2>2 DEF TypesInv, EntriesFit, Entry, Checkpoint
  <2>4. Rank[Successor(graph[a])] > Rank[graph[a].last]
    <3>1. Successor(graph[a]) # "end"
      BY <2>3, NodeTable
    <3> QED BY <1>0, <3>1, SuccessorIsNode
  <2>5. /\ Ahead(a) /\ UNCHANGED <<blob, index>> /\ pc'[a] = "tick" /\ Step(a, c)
    BY <1>0, <1>7, <2>1 DEF ApplyLoaded, AloneAt, Step, Goto
  <2> HIDE DEF c
  <2>6. Rank[graph[a].last] <= Rank[c.last]
    <3>1. Rank[graph[a].last] \in 1..9 /\ Rank[c.last] \in 1..9
      BY <1>0, <2>3, Ranked
    <3> QED BY <2>3, <2>4, <3>1
  <2>7. Ahead(a)'
    BY <2>3, <2>5, <2>6, StepAhead
  <2> QED BY <2>5, <2>7, <1>4
<1>8. CASE Save(a)
  <2>1. /\ pc[a] = "save" /\ Step(a, draft[a]) /\ pc'[a] = "tick" /\ UNCHANGED <<blob, index>>
        /\ draft[a] \in Checkpoint /\ Ahead(a)
    BY <1>0, <1>8 DEF Save, Step, Goto, AloneAt, Executing
  <2>2. draft[a].last = Successor(graph[a]) /\ draft[a].last \in Node
    BY <2>1 DEF TypesInv, DraftFollows, Executing
  <2>3. Rank[draft[a].last] > Rank[graph[a].last]
    <3>1. Successor(graph[a]) # "end"
      BY <2>2, NodeTable
    <3> QED BY <1>0, <2>2, <3>1, SuccessorIsNode
  <2>4. Rank[graph[a].last] <= Rank[draft[a].last]
    <3>1. Rank[graph[a].last] \in 1..9 /\ Rank[draft[a].last] \in 1..9
      BY <1>0, Ranked
    <3> QED BY <2>3, <3>1
  <2>5. Ahead(a)'
    BY <2>1, <2>4, StepAhead
  <2> QED BY <2>1, <2>5, <1>4
<1>9. CASE Execute(a) \/ PersistResult(a) \/ Callback(a)
  <2>1. /\ pc[a] \in Executing \union {"tick"}
        /\ UNCHANGED <<blob, index, graph, puts>>
    BY <1>9 DEF Execute, PersistResult, Callback, Publish, Record, MergeRuntime, PersistToolCalls,
                Executing
  <2>2. pc'[a] \in Executing
    <3>1. \E l \in Executing : Goto(a, l)
      BY <1>9 DEF Execute, PersistResult, Callback, Publish, Record, MergeRuntime,
                  PersistToolCalls, Executing
    <3> QED BY <1>0, <3>1 DEF Goto
  <2>3. Ahead(a)'
    BY <2>1 DEF AloneAt, Ahead
  <2> QED BY <2>2, <2>3, <1>4
<1>10. CASE Background(a)
  <2>1. pc' = pc /\ fresh' = fresh /\ parent' = parent /\ pc[a] \in Alive
    BY <1>10 DEF Background, PutBlob, PutIndex, PutFails, ReadWrites, SaveWrites, WritesFail
  <2>2. CASE pc[a] \in Executing \union {"tick"}
    BY <1>10, <2>1, <2>2, <1>4, BackgroundAhead DEF AloneAt
  <2>3. CASE pc[a] \in {"check", "open", "load"}
    <3>1. puts[a] = <<>>
      BY <2>3 DEF AloneAt
    <3>2. UNCHANGED <<blob, index, puts>>
      BY <1>10, <3>1 DEF Background, PutBlob, PutIndex, PutFails, ReadWrites, SaveWrites, WritesFail
    <3> QED BY <2>1, <2>3, <3>1, <3>2 DEF AloneAt, Executing
  <2>4. CASE pc[a] \in {"return", "abort"}
    BY <2>1, <2>4 DEF AloneAt, Executing
  <2> QED BY <2>1, <2>2, <2>3, <2>4 DEF Alive
<1>11. CASE Complete(a) \/ Abort(a)
  <2>1. pc'[a] \in {"return", "abort"}
    BY <1>0, <1>11 DEF Complete, Abort, Goto
  <2> QED BY <2>1 DEF AloneAt, Executing, Alive
<1>12. CASE Finish(a) \/ Crash(a)
  <2>1. pc'[a] \in Over /\ puts'[a] = <<>>
    BY <1>0, <1>12 DEF Finish, Crash, Goto, Over
  <2> QED BY <2>1 DEF AloneAt, Executing, Over
<1> QED BY <1>1, <1>2, <1>3, <1>5, <1>6, <1>7, <1>8, <1>9, <1>10, <1>11, <1>12
        DEF Act, Open, Run, End

LEMMA SerialNext ==
    ASSUME TypesInv, SerialInv, NEW a \in Attempts, Act(a)
    PROVE  SerialInv'
<1> SUFFICES ASSUME overlaps' = 0
             PROVE  /\ \A b, c \in Attempts : pc'[b] \in Alive /\ pc'[c] \in Alive => b = c
                    /\ \A b \in Attempts : AloneAt(b)'
  BY DEF SerialInv
<1>1. /\ overlaps = 0
      /\ \A b \in Attempts \ {a} : pc'[b] = pc[b] /\ pc[b] \notin Alive /\ puts'[b] = puts[b]
  BY OthersRest
<1>2. AloneAt(a)'
  BY <1>1, AloneNext DEF SerialInv
<1>3. ASSUME NEW b \in Attempts \ {a} PROVE AloneAt(b)'
  <2>1. pc'[b] = pc[b] /\ pc[b] \notin Alive /\ puts'[b] = <<>>
    BY <1>1 DEF SerialInv, AloneAt
  <2> QED BY <2>1 DEF AloneAt, Alive
<1> QED BY <1>1, <1>2, <1>3

\* A retried activity resumes: no attempt that runs alone executes a node that
\* the indexed checkpoint has behind it, however many attempts died or failed
\* before it and whatever of theirs was stored.
THEOREM SavedNodesAreNeverRepeated == Spec => []SavedNodesAreNotRepeated
<1>1. Init => SerialInv
  BY SerialInit
<1>2. TypesInv /\ SerialInv /\ [Next]_vars => SerialInv'
  <2>1. ASSUME SerialInv, UNCHANGED vars PROVE SerialInv'
    BY <2>1 DEF vars, store, local, queues, counts, SerialInv, AloneAt, Ahead
  <2> QED BY <2>1, SerialNext DEF Next, Act
<1>3. TypesInv /\ SerialInv => SavedNodesAreNotRepeated
  <2> SUFFICES ASSUME TypesInv, SerialInv, NEW a \in Attempts, overlaps = 0, pc[a] \in Executing,
                      index \in DOMAIN blob, draft[a].last \in Behind(blob[index])
               PROVE  FALSE
    BY DEF SavedNodesAreNotRepeated
  <2>1. graph[a] \in Checkpoint /\ blob[index] \in Checkpoint /\ draft[a] \in Checkpoint
    BY DEF TypesInv, TypeOK
  <2>2. draft[a].last = Successor(graph[a]) /\ draft[a].last \in Node
    BY DEF TypesInv, DraftFollows
  <2>3. Successor(graph[a]) # "end"
    BY <2>2, NodeTable
  <2>4. Rank[draft[a].last] > Rank[graph[a].last]
    BY <2>1, <2>2, <2>3, SuccessorIsNode
  <2>5. Rank[blob[index].last] <= Rank[graph[a].last]
    BY DEF SerialInv, AloneAt, Ahead
  <2>6. Rank[draft[a].last] <= Rank[blob[index].last]
    BY DEF Behind
  <2> QED BY <2>1, <2>4, <2>5, <2>6, Ranked
<1> QED BY <1>1, <1>2, <1>3, CheckpointInvariant, PTL DEF Spec

-----------------------------------------------------------------------------
\* The id of a checkpoint names one checkpoint

\* What anybody may still continue, the input of every attempt included.
Made == Known \union {Input(a) : a \in Attempts}

\* An attempt that may still move its graph on.
Opening == {"idle", "check", "open", "load"}
Moving == Opening \union {"tick"} \union Executing

\* new has behind it what old has, with the same outputs.
Continues(new, old) ==
    /\ Rank[old.last] <= Rank[new.last]
    /\ Behind(old) \subseteq Behind(new)
    /\ \A n \in Behind(old) \intersect Author : new.by[n] = old.by[n]

\* The graph of an attempt is further than every id with the attempt's name on it.
NamesBehind(a) ==
    /\ \A c \in Made : c.run = a => Rank[c.last] <= Rank[graph[a].last]
    /\ \A w \in Entries : w.task[1][1] = a => Rank[w.task[1][2]] <= Rank[graph[a].last]

\* A pending write continues the checkpoint it is filed for.
EntriesContinue ==
    \A w \in Entries : \A c \in Made :
        Id(c) = w.task[1] => w.out.last = Successor(c) /\ Continues(w.out, c)

NamesInv ==
    /\ \A a \in Attempts : pc[a] \in Opening => graph[a] = Input(a)
    /\ \A c, d \in Made : Id(c) = Id(d) => c = d
    /\ \A a \in Attempts : pc[a] \in Moving => NamesBehind(a)
    /\ EntriesContinue

LEMMA ContinuesItself == \A c \in Checkpoint : Continues(c, c)
BY Ranked DEF Continues

LEMMA ContinuesOn ==
    ASSUME NEW c \in Checkpoint, NEW d \in Checkpoint, NEW e \in Checkpoint,
           Continues(d, c), Continues(e, d)
    PROVE  Continues(e, c)
<1>1. Rank[c.last] \in 1..9 /\ Rank[d.last] \in 1..9 /\ Rank[e.last] \in 1..9
  BY Ranked
<1>2. Rank[c.last] <= Rank[e.last]
  BY <1>1 DEF Continues
<1>3. \A n \in Behind(c) \intersect Author : n \in Behind(d) /\ e.by[n] = c.by[n]
  BY DEF Continues
<1> QED BY <1>2, <1>3 DEF Continues

\* A node's checkpoint continues the one the node started from.
LEMMA NodeContinues ==
    ASSUME NEW c \in Checkpoint, NEW d \in Checkpoint, NEW a,
           d.last = Successor(c), d.last \in Node, d.roles = c.roles \/ d.last = "plan",
           d.by = IF d.last \in Author THEN [c.by EXCEPT ![d.last] = a] ELSE c.by
    PROVE  Continues(d, c) /\ Rank[c.last] < Rank[d.last]
<1>1. Successor(c) # "end"
  BY NodeTable
<1>2. Rank[c.last] \in 1..9 /\ Rank[d.last] \in 1..9 /\ Rank[c.last] < Rank[d.last]
  BY <1>1, SuccessorIsNode, Ranked
<1>3. \A n \in Behind(c) : /\ n \in Node /\ Rank[n] \in 1..9 /\ Rank[n] < Rank[d.last]
                           /\ (n \in OptionalRole => n \in c.roles)
  BY <1>2, RankOrders DEF Behind
<1>4. Behind(c) \subseteq Behind(d)
  <2> SUFFICES ASSUME NEW n \in Behind(c) PROVE n \in Behind(d)
    OBVIOUS
  <2>1. Rank[n] <= Rank[d.last]
    BY <1>2, <1>3
  <2>2. CASE d.roles = c.roles
    BY <1>3, <2>1, <2>2 DEF Behind
  <2>3. CASE d.last = "plan"
    <3>1. n \notin OptionalRole
      BY <1>3, <2>3, RankTable DEF OptionalRole
    <3> QED BY <1>3, <2>1, <3>1 DEF Behind
  <2> QED BY <2>2, <2>3
<1>5. \A n \in Behind(c) \intersect Author : d.by[n] = c.by[n]
  <2> SUFFICES ASSUME NEW n \in Behind(c) \intersect Author PROVE d.by[n] = c.by[n]
    OBVIOUS
  <2>1. n # d.last
    BY <1>2, <1>3
  <2>2. c.by \in [Author -> Attempts \union {NoAttempt}]
    BY DEF Checkpoint
  <2> QED BY <2>1, <2>2
<1>6. Rank[c.last] <= Rank[d.last]
  BY <1>2
<1> QED BY <1>2, <1>4, <1>5, <1>6 DEF Continues

\* A step leaves the other attempts where they are.
LEMMA OthersFrame ==
    ASSUME TypesInv, NEW a \in Attempts, Act(a), NEW b \in Attempts \ {a}
    PROVE  /\ pc'[b] = pc[b] /\ graph'[b] = graph[b] /\ draft'[b] = draft[b]
           /\ puts'[b] = puts[b] /\ broken'[b] = broken[b] /\ fresh'[b] = fresh[b]
<1> USE DEF store, effects, local, queues, counts
<1>0. /\ pc \in [Attempts -> Pcs] /\ graph \in [Attempts -> Checkpoint]
      /\ draft \in [Attempts -> Checkpoint] /\ puts \in [Attempts -> Seq(Put)]
      /\ broken \in [Attempts -> BOOLEAN] /\ fresh \in [Attempts -> BOOLEAN]
  BY DEF TypesInv, TypeOK, Put
<1>1. CASE Open(a)
  BY <1>0, <1>1 DEF Open, Start, Check, ReadIndex, BeginFromInput, LoadCheckpoint, Step, Goto
<1>2. CASE Run(a)
  <2>1. CASE ApplyLoaded(a)
    <3>1. PICK w \in loaded[a] : Step(a, [w.out EXCEPT !.run = a])
      BY <2>1 DEF ApplyLoaded
    <3>2. /\ pc' = [pc EXCEPT ![a] = "tick"] /\ UNCHANGED <<draft, broken, fresh>>
          /\ graph' = [graph EXCEPT ![a] = [w.out EXCEPT !.run = a]]
          /\ puts' = [puts EXCEPT ![a] = Append(@, PutOf(a, [w.out EXCEPT !.run = a]))]
      BY <2>1, <3>1 DEF ApplyLoaded, Step, Goto, PutOf
    <3> QED BY <1>0, <3>2
  <2>2. CASE Execute(a)
    <3>1. PICK c : draft' = [draft EXCEPT ![a] = c]
      BY <2>2 DEF Execute
    <3>2. /\ \E l : pc' = [pc EXCEPT ![a] = l]
          /\ UNCHANGED <<graph, puts, broken, fresh>>
      BY <2>2 DEF Execute, Goto
    <3> QED BY <1>0, <3>1, <3>2
  <2>3. CASE Save(a)
    BY <1>0, <2>3 DEF Save, Step, Goto
  <2>4. CASE PersistResult(a) \/ Callback(a)
    BY <1>0, <2>4 DEF PersistResult, Callback, Publish, Record, MergeRuntime, PersistToolCalls, Goto
  <2> QED BY <1>2, <2>1, <2>2, <2>3, <2>4 DEF Run
<1>3. CASE Background(a)
  BY <1>0, <1>3 DEF Background, PutBlob, PutIndex, PutFails, ReadWrites, SaveWrites, WritesFail,
                    Dequeue, Break
<1>4. CASE End(a)
  BY <1>0, <1>4 DEF End, Complete, Finish, Abort, Crash, Forget, Goto
<1> QED BY <1>1, <1>2, <1>3, <1>4 DEF Act

\* Where the checkpoints of a step come from: the graph of the acting attempt
\* moves on to it, or it was there.
MovesTo(a, c) ==
    /\ Save(a) \/ ApplyLoaded(a)
    /\ c \in Checkpoint /\ c = graph'[a] /\ c.run = a
    /\ c.last = Successor(graph[a]) /\ c.last \in Node
    /\ Rank[graph[a].last] < Rank[c.last]
    /\ pc[a] \in {"tick", "save"} /\ pc'[a] = "tick"

LEMMA MadeNext ==
    ASSUME TypesInv, NEW a \in Attempts, Act(a)
    PROVE  /\ \A c \in Made' : c \in Made \/ MovesTo(a, c)
           /\ Save(a) => graph'[a] = draft[a] /\ MovesTo(a, draft[a])
           /\ ApplyLoaded(a) => \E w \in Entries :
                /\ w.task = <<Id(graph[a]), Successor(graph[a])>>
                /\ graph'[a] = [w.out EXCEPT !.run = a] /\ MovesTo(a, graph'[a])
<1> USE DEF store, effects, local, queues, counts
<1>0. /\ TypeOK /\ graph \in [Attempts -> Checkpoint] /\ draft \in [Attempts -> Checkpoint]
      /\ loaded \in [Attempts -> SUBSET Entry] /\ pc \in [Attempts -> Pcs]
  BY DEF TypesInv, TypeOK
<1>1. ASSUME Save(a) PROVE graph'[a] = draft[a] /\ MovesTo(a, draft[a])
  <2>1. /\ pc[a] = "save" /\ Step(a, draft[a]) /\ pc'[a] = "tick" /\ graph'[a] = draft[a]
    BY <1>0, <1>1 DEF Save, Step, Goto
  <2>2. draft[a].run = a /\ draft[a].last = Successor(graph[a]) /\ draft[a].last \in Node
    BY <2>1 DEF TypesInv, DraftFollows, Executing
  <2>4. Successor(graph[a]) # "end"
    BY <2>2, NodeTable
  <2>5. Rank[graph[a].last] < Rank[draft[a].last]
    BY <1>0, <2>2, <2>4, SuccessorIsNode, Ranked
  <2> QED BY <1>0, <1>1, <2>1, <2>2, <2>5 DEF MovesTo
<1>2. ASSUME ApplyLoaded(a)
      PROVE  \E w \in Entries :
               /\ w \in loaded[a] /\ w.task = <<Id(graph[a]), Successor(graph[a])>>
               /\ graph'[a] = [w.out EXCEPT !.run = a] /\ MovesTo(a, graph'[a])
  <2>1. PICK w \in loaded[a] : /\ w.task = <<Id(graph[a]), Successor(graph[a])>>
                               /\ Step(a, [w.out EXCEPT !.run = a])
    BY <1>2 DEF ApplyLoaded
  <2> DEFINE c == [w.out EXCEPT !.run = a]
  <2>2. w \in Entry /\ w \in Entries
    BY <1>0 DEF Entries
  <2>3. c \in Checkpoint /\ c.run = a /\ c.last = Successor(graph[a]) /\ Successor(graph[a]) \in Node
    BY <2>1, <2>2 DEF TypesInv, EntriesFit, Entry, Checkpoint
  <2>4. Successor(graph[a]) # "end"
    BY <2>3, NodeTable
  <2>5. pc[a] = "tick" /\ pc'[a] = "tick" /\ graph'[a] = c
    BY <1>0, <1>2, <2>1 DEF ApplyLoaded, Step, Goto
  <2> HIDE DEF c
  <2>6. Rank[graph[a].last] < Rank[c.last]
    BY <1>0, <2>3, <2>4, SuccessorIsNode, Ranked
  <2>7. MovesTo(a, graph'[a])
    BY <1>2, <2>3, <2>5, <2>6 DEF MovesTo
  <2> QED BY <2>1, <2>2, <2>5, <2>7 DEF c
<1>3. ASSUME NEW c \in Made' PROVE c \in Made \/ MovesTo(a, c)
  <2>1. CASE c \in Known'
    <3>1. KnownBy(a, c)
      BY <2>1, KnownNext
    <3> QED BY <1>1, <1>2, <3>1 DEF KnownBy, Made
  <2>2. CASE c \notin Known'
    <3>1. PICK b \in Attempts : c = Input(b)
      BY <1>3, <2>2 DEF Made, Input, Nobody
    <3> QED BY <3>1 DEF Made
  <2> QED BY <2>1, <2>2
<1> QED BY <1>1, <1>2, <1>3

\* The graph of an attempt that opens or runs only moves forward.
LEMMA GraphForward ==
    ASSUME TypesInv, NamesInv, NEW a \in Attempts, Act(a)
    PROVE  /\ pc'[a] \in Opening => graph'[a] = Input(a)
           /\ pc'[a] \in Moving =>
                pc[a] \in Moving /\ Rank[graph[a].last] <= Rank[graph'[a].last]
<1> USE DEF store, effects, local, queues, counts
<1>0. /\ TypeOK /\ graph \in [Attempts -> Checkpoint] /\ pc \in [Attempts -> Pcs]
      /\ \A i \in DOMAIN blob : blob[i] \in Checkpoint
      /\ pc[a] \in Opening => graph[a] = Input(a)
  BY DEF TypesInv, TypeOK, NamesInv
<1>1. Rank[graph[a].last] \in 1..9 /\ Rank[Input(a).last] = 1
  BY <1>0, Ranked, RankTable DEF Input
<1>2. CASE Start(a) \/ Check(a) \/ ReadIndex(a)
  <2>1. pc[a] \in Opening /\ pc'[a] \in Opening /\ graph' = graph
    BY <1>0, <1>2 DEF Start, Check, ReadIndex, Goto, Opening
  <2> QED BY <1>0, <1>1, <2>1 DEF Moving
<1>3. CASE BeginFromInput(a)
  <2>1. pc[a] \in Opening /\ pc'[a] = "tick" /\ graph'[a] = Input(a)
    BY <1>0, <1>3 DEF BeginFromInput, Step, Goto, Opening
  <2> QED BY <1>0, <1>1, <2>1 DEF Moving, Opening
<1>4. CASE LoadCheckpoint(a)
  <2>1. pc[a] \in Opening /\ pc'[a] = "tick" /\ graph'[a] \in Checkpoint
    BY <1>0, <1>4 DEF LoadCheckpoint, Goto, Opening
  <2>2. Rank[graph'[a].last] \in 1..9
    BY <2>1, Ranked
  <2>3. Rank[graph[a].last] <= Rank[graph'[a].last]
    BY <1>0, <1>1, <2>1, <2>2
  <2> QED BY <2>1, <2>3 DEF Moving, Opening
<1>5. CASE ApplyLoaded(a) \/ Save(a)
  <2>1. MovesTo(a, graph'[a])
    BY <1>5, MadeNext
  <2>2. pc[a] \in Moving /\ pc'[a] \notin Opening
    BY <2>1 DEF MovesTo, Moving, Opening, Executing
  <2>3. Rank[graph[a].last] <= Rank[graph'[a].last]
    BY <1>1, <2>1, Ranked DEF MovesTo
  <2> QED BY <2>2, <2>3
<1>6. CASE Execute(a) \/ PersistResult(a) \/ Callback(a)
  <2>1. pc[a] \in Moving /\ graph' = graph
    BY <1>6 DEF Execute, PersistResult, Callback, Publish, Record, MergeRuntime, PersistToolCalls,
                Moving, Executing
  <2>2. pc'[a] \in Executing
    <3>1. \E l \in Executing : Goto(a, l)
      BY <1>6 DEF Execute, PersistResult, Callback, Publish, Record, MergeRuntime,
                  PersistToolCalls, Executing
    <3> QED BY <1>0, <3>1 DEF Goto
  <2> QED BY <1>1, <2>1, <2>2 DEF Executing, Opening
<1>7. CASE Background(a)
  <2>1. pc' = pc /\ graph' = graph
    BY <1>7 DEF Background, PutBlob, PutIndex, PutFails, ReadWrites, SaveWrites, WritesFail
  <2> QED BY <1>0, <1>1, <2>1
<1>8. CASE End(a)
  <2>1. pc'[a] \in {"return", "returned", "failed", "abort"}
    BY <1>0, <1>8 DEF End, Complete, Finish, Abort, Crash, Goto
  <2> QED BY <2>1 DEF Opening, Moving, Executing
<1> QED BY <1>2, <1>3, <1>4, <1>5, <1>6, <1>7, <1>8 DEF Act, Open, Run

\* Nobody has a name for the checkpoint that a graph moves on to.
LEMMA NewName ==
    ASSUME TypesInv, NamesInv, NEW a \in Attempts, NEW c, MovesTo(a, c)
    PROVE  /\ \A d \in Made : Id(d) # Id(c)
           /\ \A w \in Entries : w.task[1] # Id(c)
<1>1. NamesBehind(a)
  BY DEF MovesTo, NamesInv, Moving, Executing
<1>2. Rank[c.last] \in 1..9 /\ Rank[graph[a].last] \in 1..9
  BY Ranked DEF MovesTo, TypesInv, TypeOK
<1>3. Id(c) = <<a, c.last>> /\ Rank[graph[a].last] < Rank[c.last]
  BY DEF MovesTo, Id
<1>4. ~(Rank[c.last] <= Rank[graph[a].last])
  BY <1>2, <1>3
<1>5. ASSUME NEW d \in Made, Id(d) = Id(c) PROVE FALSE
  <2>1. d.run = a /\ d.last = c.last
    BY <1>3, <1>5 DEF Id
  <2> QED BY <1>1, <1>4, <2>1 DEF NamesBehind
<1>6. ASSUME NEW w \in Entries, w.task[1] = Id(c) PROVE FALSE
  BY <1>1, <1>3, <1>4, <1>6 DEF NamesBehind
<1> QED BY <1>5, <1>6

LEMMA NamesInit == ASSUME Init PROVE NamesInv
<1>1. Entries = {} /\ \A a \in Attempts : graph[a] = Input(a) /\ puts[a] = <<>>
  BY DEF Init, Entries
<1>2. DOMAIN blob = {}
  BY DEF Init
<1>3. \A c \in Made : \E b \in Attempts : c = Input(b)
  <2>1. \A b \in Attempts : \A i \in 1..Len(puts[b]) : FALSE
    <3>1. Len(<<>>) = 0
      OBVIOUS
    <3> QED BY <1>1, <3>1
  <2> QED BY <1>1, <1>2, <2>1 DEF Made, Known
<1>4. \A b \in Attempts : Input(b).run = b /\ Input(b).last = "input" /\ Rank["input"] \in 1..9
  BY RankTable DEF Input
<1>5. \A c, d \in Made : Id(c) = Id(d) => c = d
  BY <1>3, <1>4 DEF Id
<1>6. \A a \in Attempts : NamesBehind(a)
  BY <1>1, <1>3, <1>4 DEF NamesBehind
<1> QED BY <1>1, <1>5, <1>6 DEF NamesInv, EntriesContinue

LEMMA NamesNext ==
    ASSUME TypesInv, NamesInv, NEW a \in Attempts, Act(a)
    PROVE  NamesInv'
<1>0. /\ graph \in [Attempts -> Checkpoint] /\ draft \in [Attempts -> Checkpoint]
      /\ graph' \in [Attempts -> Checkpoint] /\ pc[a] \in Pcs
  BY TypesStep DEF TypesInv, TypeOK
<1>1. /\ \A b \in Attempts : graph[b] \in Made /\ graph[b] \in Checkpoint
      /\ \A b \in Attempts \ {a} : pc'[b] = pc[b] /\ graph'[b] = graph[b]
  BY <1>0, OthersFrame DEF Made, Known
<1>2. \A c \in Made' : c \in Made \/ MovesTo(a, c)
  BY MadeNext
<1>3. \A w \in Entries' : w \in Entries \/ (Save(a) /\ w = NewEntry(a))
  BY EntriesNext DEF TypesInv
<1>4. \A b \in Attempts : pc'[b] \in Opening => graph'[b] = Input(b)
  BY <1>1, GraphForward DEF NamesInv
<1>5. ASSUME NEW c \in Made', NEW d \in Made', Id(c) = Id(d) PROVE c = d
  <2>1. CASE c \in Made /\ d \in Made
    BY <1>5, <2>1 DEF NamesInv
  <2>2. CASE MovesTo(a, c)
    <3>1. d \notin Made
      BY <1>5, <2>2, NewName
    <3> QED BY <1>2, <2>2, <3>1 DEF MovesTo
  <2>3. CASE MovesTo(a, d)
    <3>1. c \notin Made
      BY <1>5, <2>3, NewName
    <3> QED BY <1>2, <2>3, <3>1 DEF MovesTo
  <2> QED BY <1>2, <2>1, <2>2, <2>3
<1>6. ASSUME NEW b \in Attempts, pc'[b] \in Moving PROVE NamesBehind(b)'
  <2>1. pc[b] \in Moving /\ Rank[graph[b].last] <= Rank[graph'[b].last]
    <3>1. CASE b = a
      BY <1>6, <3>1, GraphForward
    <3>2. CASE b # a
      BY <1>1, <1>6, <3>2, Ranked
    <3> QED BY <3>1, <3>2
  <2>2. NamesBehind(b)
    BY <2>1 DEF NamesInv
  <2>3. Rank[graph[b].last] \in 1..9 /\ Rank[graph'[b].last] \in 1..9
    BY <1>0, Ranked
  <2>4. \A k \in 1..9 : k <= Rank[graph[b].last] => k <= Rank[graph'[b].last]
    BY <2>1, <2>3
  <2>5. ASSUME NEW c \in Made', c.run = b PROVE Rank[c.last] <= Rank[graph'[b].last]
    <3>1. CASE c \in Made
      <4>1. c \in Checkpoint
        BY <3>1, NothingBehindInput DEF Made, Known
      <4>2. Rank[c.last] \in 1..9 /\ Rank[c.last] <= Rank[graph[b].last]
        BY <2>2, <2>5, <3>1, <4>1, Ranked DEF NamesBehind
      <4> QED BY <2>4, <4>2
    <3>2. CASE MovesTo(a, c)
      <4>1. b = a /\ c = graph'[b]
        BY <2>5, <3>2 DEF MovesTo
      <4> QED BY <2>3, <4>1
    <3> QED BY <1>2, <3>1, <3>2
  <2>6. ASSUME NEW w \in Entries', w.task[1][1] = b
        PROVE  Rank[w.task[1][2]] <= Rank[graph'[b].last]
    <3>1. CASE w \in Entries
      <4>1. w.task[1] \in Ids
        BY <3>1 DEF Entries, Entry
      <4>2. w.task[1][2] \in Node \union {"input"}
        BY <4>1 DEF Ids, NoId
      <4>3. Rank[w.task[1][2]] \in 1..9 /\ Rank[w.task[1][2]] <= Rank[graph[b].last]
        BY <2>2, <2>6, <3>1, <4>2, RankOrders DEF NamesBehind
      <4> QED BY <2>4, <4>3
    <3>2. CASE w = NewEntry(a)
      <4>1. w.task[1][1] = graph[a].run /\ w.task[1][2] = graph[a].last
        BY <3>2 DEF NewEntry, Id
      <4>2. Rank[graph[a].last] <= Rank[graph[b].last]
        BY <1>1, <2>2, <2>6, <4>1 DEF NamesBehind
      <4>3. Rank[graph[a].last] \in 1..9
        BY <1>0, Ranked
      <4> QED BY <2>4, <4>1, <4>2, <4>3
    <3> QED BY <1>3, <3>1, <3>2
  <2> QED BY <2>5, <2>6 DEF NamesBehind
<1>7. ASSUME NEW w \in Entries', NEW c \in Made', Id(c) = w.task[1]
      PROVE  w.out.last = Successor(c) /\ Continues(w.out, c)
  <2>1. CASE w \in Entries
    <3>1. c \in Made
      BY <1>2, <1>7, <2>1, NewName
    <3> QED BY <1>7, <2>1, <3>1 DEF NamesInv, EntriesContinue
  <2>2. CASE Save(a) /\ w = NewEntry(a)
    <3>1. w.out = draft[a] /\ w.task[1] = Id(graph[a])
      BY <2>2 DEF NewEntry
    <3>2. c \in Made
      <4>1. ~MovesTo(a, c)
        BY <1>1, <1>7, <3>1, NewName
      <4> QED BY <1>2, <4>1
    <3>3. c = graph[a]
      BY <1>1, <1>7, <3>1, <3>2 DEF NamesInv
    <3>4. pc[a] \in Executing
      BY <2>2 DEF Save, Executing
    <3>5. Continues(draft[a], graph[a]) /\ draft[a].last = Successor(graph[a])
      <4>1. /\ draft[a].last = Successor(graph[a]) /\ draft[a].last \in Node
            /\ draft[a].roles = graph[a].roles \/ draft[a].last = "plan"
            /\ draft[a].by = IF draft[a].last \in Author
                             THEN [graph[a].by EXCEPT ![draft[a].last] = a] ELSE graph[a].by
        BY <3>4 DEF TypesInv, DraftFollows
      <4> QED BY <1>0, <4>1, NodeContinues
    <3> QED BY <3>1, <3>3, <3>5
  <2> QED BY <1>3, <2>1, <2>2
<1>8. \A c, d \in Made' : Id(c) = Id(d) => c = d
  BY <1>5
<1>9. EntriesContinue'
  BY <1>7 DEF EntriesContinue
<1> QED BY <1>4, <1>6, <1>8, <1>9 DEF NamesInv

LEMMA NamesStutter == ASSUME NamesInv, UNCHANGED vars PROVE NamesInv'
<1> USE DEF vars, store, local, queues
<1>1. Made' = Made /\ Entries' = Entries
  BY DEF Made, Known, Entries
<1> QED BY <1>1 DEF NamesInv, NamesBehind, EntriesContinue

-----------------------------------------------------------------------------
\* What attempts that do not overlap store is one chain

\* The checkpoint behind the index, those an attempt has still to store, and
\* its graph, each of them continuing the one before.
Chained(a) ==
    /\ \A i \in 1..Len(puts[a]) :
          puts[a][i].stored => i = 1 /\ blob[puts[a][i].key] = puts[a][i].content
    /\ \A i, j \in 1..Len(puts[a]) : i <= j => Continues(puts[a][j].content, puts[a][i].content)
    /\ index \in DOMAIN blob =>
          \A i \in 1..Len(puts[a]) : Continues(puts[a][i].content, blob[index])
    /\ pc[a] \in Executing \union {"tick"} =>
          /\ \A i \in 1..Len(puts[a]) : Continues(graph[a], puts[a][i].content)
          /\ index \in DOMAIN blob => Continues(graph[a], blob[index])

ChainInv == overlaps = 0 => \A a \in Attempts : Chained(a)

LEMMA ChainInit == ASSUME Init PROVE ChainInv
<1> SUFFICES ASSUME NEW a \in Attempts PROVE Chained(a)
  BY DEF ChainInv
<1>1. puts[a] = <<>> /\ Len(<<>>) = 0 /\ pc[a] = "idle"
  BY DEF Init
<1>2. \A i \in 1..Len(puts[a]) : FALSE
  BY <1>1
<1> QED BY <1>1, <1>2 DEF Chained, Executing

\* The graph moves on to a checkpoint that continues it.
LEMMA StepChained ==
    ASSUME TypesInv, NEW a \in Attempts, NEW c \in Checkpoint, Step(a, c), UNCHANGED <<blob, index>>,
           \/ Chained(a) /\ pc[a] \in Executing \union {"tick"} /\ Continues(c, graph[a])
           \/ puts[a] = <<>> /\ index \notin DOMAIN blob
    PROVE  Chained(a)'
<1>0. /\ TypeOK /\ graph \in [Attempts -> Checkpoint] /\ puts \in [Attempts -> Seq(Put)]
      /\ \A i \in DOMAIN blob : blob[i] \in Checkpoint
  BY DEF TypesInv, TypeOK, Put
<1> DEFINE p == PutOf(a, c)
           q == Append(puts[a], p)
           n == Len(puts[a])
<1>1. graph'[a] = c
  BY <1>0 DEF Step
<1>2. p \in Put /\ p.content = c /\ ~p.stored /\ puts'[a] = q
  BY <1>0, StepTypes DEF PutOf
<1>3. /\ n \in Nat /\ Len(q) = n + 1
      /\ \A i \in 1..n : q[i] = puts[a][i]
      /\ q[n + 1] = p
  BY <1>0, <1>2, AppendProperties
<1>4. \A i \in 1..n : puts[a][i] \in Put /\ puts[a][i].content \in Checkpoint
  <2>1. \A i \in 1..n : puts[a][i] \in Put
    BY <1>0, ElementOfSeq
  <2> QED BY <2>1 DEF Put
<1>5. (\E i \in 1..n : TRUE) \/ index \in DOMAIN blob =>
         Chained(a) /\ pc[a] \in Executing \union {"tick"} /\ Continues(c, graph[a])
  <2>1. puts[a] = <<>> => ~\E i \in 1..n : TRUE
    <3>1. Len(<<>>) = 0
      OBVIOUS
    <3> QED BY <3>1
  <2> QED BY <2>1
<1> HIDE DEF p, q, n
<1>6. \A i \in 1..Len(q) : i \in 1..n \/ i = n + 1
  BY <1>3
<1>7. \A i \in 1..n : Continues(c, q[i].content)
  <2> SUFFICES ASSUME NEW i \in 1..n PROVE Continues(c, puts[a][i].content)
    BY <1>3
  <2>1. Continues(c, graph[a]) /\ Continues(graph[a], puts[a][i].content)
    BY <1>5 DEF Chained, n
  <2> QED BY <1>0, <1>4, <2>1, ContinuesOn
<1>8. index \in DOMAIN blob => Continues(c, blob[index])
  <2> SUFFICES ASSUME index \in DOMAIN blob PROVE Continues(c, blob[index])
    OBVIOUS
  <2>1. Continues(c, graph[a]) /\ Continues(graph[a], blob[index])
    BY <1>5 DEF Chained
  <2> QED BY <1>0, <2>1, ContinuesOn
<1>9. \A i \in 1..Len(q) : q[i].stored => i = 1 /\ blob[q[i].key] = q[i].content
  <2>1. \A i \in 1..n : q[i].stored => i = 1 /\ blob[q[i].key] = q[i].content
    BY <1>3, <1>5 DEF Chained, n
  <2> QED BY <1>2, <1>3, <1>6, <2>1
<1>10. \A i \in 1..Len(q) : Continues(c, q[i].content)
  BY <1>2, <1>3, <1>6, <1>7, ContinuesItself
<1>11. ASSUME NEW i \in 1..Len(q), NEW j \in 1..Len(q), i <= j
       PROVE  Continues(q[j].content, q[i].content)
  <2>1. CASE j = n + 1
    BY <1>2, <1>3, <1>10, <2>1
  <2>2. CASE j \in 1..n
    <3>1. i \in 1..n
      BY <1>3, <1>11, <2>2
    <3> QED BY <1>3, <1>5, <1>11, <2>2, <3>1 DEF Chained, n
  <2> QED BY <1>6, <2>1, <2>2
<1>12. index \in DOMAIN blob => \A i \in 1..Len(q) : Continues(q[i].content, blob[index])
  <2>1. index \in DOMAIN blob => \A i \in 1..n : Continues(q[i].content, blob[index])
    BY <1>3, <1>5 DEF Chained, n
  <2> QED BY <1>2, <1>3, <1>6, <1>8, <2>1
<1> QED BY <1>1, <1>2, <1>8, <1>9, <1>10, <1>11, <1>12 DEF Chained

\* Storing the chain from its oldest end leaves a chain; what the index names
\* continues what it named.
LEMMA BackgroundChained ==
    ASSUME TypesInv, NEW a \in Attempts, Chained(a), Background(a)
    PROVE  /\ Chained(a)'
           /\ index \in DOMAIN blob => index' \in DOMAIN blob' /\ Continues(blob'[index'], blob[index])
<1> USE DEF store, effects, local, queues, counts
<1>0. /\ puts \in [Attempts -> Seq(Put)] /\ graph \in [Attempts -> Checkpoint]
      /\ \A i \in DOMAIN blob : blob[i] \in Checkpoint
      /\ index = NoId \/ index \in DOMAIN blob
  BY DEF TypesInv, TypeOK, Put, IndexedIsStored
<1>a. graph' = graph /\ pc' = pc
  BY DEF Background, PutBlob, PutIndex, PutFails, ReadWrites, SaveWrites, WritesFail
<1>b. ASSUME puts[a] # <<>>
      PROVE  /\ puts[a] \in Seq(Put) /\ Head(puts[a]) = puts[a][1] /\ 1 \in 1..Len(puts[a])
             /\ puts[a][1] \in Put /\ puts[a][1].content \in Checkpoint
             /\ puts[a][1].key # NoId
  <2>1. puts[a] \in Seq(Put) /\ Head(puts[a]) = puts[a][1] /\ 1 \in 1..Len(puts[a])
    BY <1>0, <1>b
  <2>2. puts[a][1] \in Put
    BY <2>1, ElementOfSeq
  <2>3. puts[a][1].key # NoId
    BY <2>1 DEF TypesInv, KeysInUse
  <2> QED BY <2>1, <2>2, <2>3 DEF Put
<1>c. index \in DOMAIN blob => Continues(blob[index], blob[index])
  BY <1>0, ContinuesItself
<1>1. CASE PutBlob(a)
  <2> DEFINE key == puts[a][1].key
             c == puts[a][1].content
             p == [puts[a][1] EXCEPT !.stored = TRUE]
             q == [puts[a] EXCEPT ![1] = p]
             n == Len(puts[a])
  <2>1. /\ puts[a] # <<>> /\ puts' = [puts EXCEPT ![a] = q] /\ index' = index
        /\ ~Head(puts[a]).stored
        /\ blob' = [i \in DOMAIN blob \union {Head(puts[a]).key} |->
                      IF i = Head(puts[a]).key THEN Head(puts[a]).content ELSE blob[i]]
    BY <1>1 DEF PutBlob, File
  <2>2. /\ puts[a] \in Seq(Put) /\ 1 \in 1..n /\ puts[a][1] \in Put
        /\ Head(puts[a]) = puts[a][1] /\ c \in Checkpoint /\ key # NoId
    BY <2>1, <1>b
  <2>3. p \in Put /\ p.content = c /\ p.key = key
    BY <2>2 DEF Put
  <2>4. DOMAIN blob' = DOMAIN blob \union {key}
    BY <2>1, <2>2
  <2>5. \A i \in DOMAIN blob' : blob'[i] = IF i = key THEN c ELSE blob[i]
    BY <2>1, <2>2
  <2> HIDE DEF p
  <2>6. /\ Len(q) = n
        /\ \A i \in 1..n : q[i] = IF i = 1 THEN p ELSE puts[a][i]
    BY <2>2, <2>3, ExceptSeq
  <2>7. puts'[a] = q
    BY <1>0, <2>1
  <2> HIDE DEF q
  <2>8. \A i \in 1..n : q[i].content = puts[a][i].content /\ q[i].key = puts[a][i].key
    BY <2>3, <2>6
  <2>9. \A i \in 1..n : puts[a][i].stored => i = 1
    BY DEF Chained
  <2>10. \A i \in 1..n : q[i].stored => i = 1
    BY <2>6, <2>9
  <2>11. blob'[key] = c /\ q[1].key = key /\ q[1].content = c
    BY <2>2, <2>4, <2>5, <2>8
  <2>12. \A i \in 1..n : q[i].stored => i = 1 /\ blob'[q[i].key] = q[i].content
    BY <2>10, <2>11
  <2>13. index' \in DOMAIN blob' =>
            /\ index \in DOMAIN blob
            /\ blob'[index'] = blob[index] \/ blob'[index'] = c
    BY <1>0, <2>1, <2>2, <2>4, <2>5
  <2>14. \A i \in 1..n : 1 <= i
    BY <2>2
  <2>15. \A i \in 1..n : Continues(puts[a][i].content, c)
    BY <2>2, <2>14 DEF Chained
  <2>16. index' \in DOMAIN blob' => \A i \in 1..n : Continues(q[i].content, blob'[index'])
    BY <2>8, <2>13, <2>15 DEF Chained
  <2>17. \A i, j \in 1..n : i <= j => Continues(q[j].content, q[i].content)
    BY <2>8 DEF Chained
  <2>18. pc'[a] \in Executing \union {"tick"} =>
            /\ \A i \in 1..n : Continues(graph'[a], q[i].content)
            /\ index' \in DOMAIN blob' => Continues(graph'[a], blob'[index'])
    <3>1. pc[a] \in Executing \union {"tick"} =>
            /\ \A i \in 1..n : Continues(graph[a], puts[a][i].content)
            /\ index \in DOMAIN blob => Continues(graph[a], blob[index])
      BY DEF Chained
    <3> QED BY <1>a, <2>2, <2>8, <2>13, <3>1
  <2>19. index \in DOMAIN blob => index' \in DOMAIN blob' /\ Continues(blob'[index'], blob[index])
    <3> SUFFICES ASSUME index \in DOMAIN blob
                 PROVE  index' \in DOMAIN blob' /\ Continues(blob'[index'], blob[index])
      OBVIOUS
    <3>1. index' \in DOMAIN blob' /\ (blob'[index'] = blob[index] \/ blob'[index'] = c)
      BY <2>1, <2>4, <2>13
    <3>2. Continues(c, blob[index])
      BY <2>2 DEF Chained
    <3> QED BY <1>c, <3>1, <3>2
  <2> QED BY <2>6, <2>7, <2>12, <2>16, <2>17, <2>18, <2>19 DEF Chained
<1>2. CASE PutIndex(a) \/ PutFails(a)
  <2> DEFINE q == Tail(puts[a])
             n == Len(puts[a])
  <2>1. /\ puts[a] # <<>> /\ puts' = [puts EXCEPT ![a] = q] /\ blob' = blob
        /\ index' = index \/ (index' = Head(puts[a]).key /\ Head(puts[a]).stored)
    BY <1>2 DEF PutIndex, PutFails, Dequeue
  <2>2. puts[a] \in Seq(Put) /\ 1 \in 1..n /\ Head(puts[a]) = puts[a][1]
    BY <2>1, <1>b
  <2>3. /\ Len(q) = n - 1
        /\ \A i \in 1..Len(q) : q[i] = puts[a][i + 1]
    BY <2>1, <2>2, HeadTailProperties
  <2>4. \A i \in 1..Len(q) : i + 1 \in 1..n /\ i + 1 # 1 /\ 1 <= i + 1
    BY <2>2, <2>3
  <2>5. puts'[a] = q
    BY <1>0, <2>1
  <2> HIDE DEF q
  <2>6. \A i \in 1..Len(q) : ~q[i].stored
    BY <2>3, <2>4 DEF Chained
  <2>7. \A i, j \in 1..Len(q) : i <= j => i + 1 <= j + 1
    BY <2>2, <2>3
  <2>8. \A i, j \in 1..Len(q) : i <= j => Continues(q[j].content, q[i].content)
    BY <2>3, <2>4, <2>7 DEF Chained
  <2>9. index' = index \/ (index' = puts[a][1].key /\ blob[index'] = puts[a][1].content
                           /\ index' \in DOMAIN blob)
    BY <2>1, <2>2 DEF Chained, TypesInv, KeysInUse
  <2>10. \A i \in 1..Len(q) : Continues(q[i].content, puts[a][1].content)
    BY <2>2, <2>3, <2>4 DEF Chained
  <2>11. index' \in DOMAIN blob' => \A i \in 1..Len(q) : Continues(q[i].content, blob'[index'])
    <3>1. index \in DOMAIN blob => \A i \in 1..Len(q) : Continues(q[i].content, blob[index])
      BY <2>3, <2>4 DEF Chained
    <3> QED BY <2>1, <2>9, <2>10, <3>1
  <2>12. pc'[a] \in Executing \union {"tick"} =>
            /\ \A i \in 1..Len(q) : Continues(graph'[a], q[i].content)
            /\ index' \in DOMAIN blob' => Continues(graph'[a], blob'[index'])
    <3>1. pc[a] \in Executing \union {"tick"} =>
            /\ \A i \in 1..n : Continues(graph[a], puts[a][i].content)
            /\ index \in DOMAIN blob => Continues(graph[a], blob[index])
      BY DEF Chained
    <3> QED BY <1>a, <2>1, <2>2, <2>3, <2>4, <2>9, <3>1
  <2>13. index \in DOMAIN blob => index' \in DOMAIN blob' /\ Continues(blob'[index'], blob[index])
    <3>1. index \in DOMAIN blob => Continues(puts[a][1].content, blob[index])
      BY <2>2 DEF Chained
    <3> QED BY <1>c, <2>1, <2>9, <3>1
  <2> QED BY <2>5, <2>6, <2>8, <2>11, <2>12, <2>13 DEF Chained
<1>3. ASSUME NEW j \in jobs[a], ReadWrites(a, j) \/ SaveWrites(a, j) \/ WritesFail(a, j)
      PROVE  Chained(a)' /\ UNCHANGED <<blob, index>>
  BY <1>3, <1>a DEF ReadWrites, SaveWrites, WritesFail, Chained
<1> QED BY <1>1, <1>2, <1>3, <1>c DEF Background

LEMMA ChainNext ==
    ASSUME TypesInv, SerialInv, NamesInv, ChainInv, NEW a \in Attempts, Act(a), overlaps' = 0
    PROVE  /\ \A b \in Attempts : Chained(b)'
           /\ index \in DOMAIN blob => index' \in DOMAIN blob' /\ Continues(blob'[index'], blob[index])
<1> USE DEF store, effects, local, queues, counts
<1>0. /\ TypeOK
      /\ pc \in [Attempts -> Pcs] /\ puts \in [Attempts -> Seq(Put)] /\ graph \in [Attempts -> Checkpoint]
      /\ draft \in [Attempts -> Checkpoint] /\ loaded \in [Attempts -> SUBSET Entry]
      /\ \A i \in DOMAIN blob : blob[i] \in Checkpoint
  BY DEF TypesInv, TypeOK, Put
<1>1. /\ overlaps = 0
      /\ \A b \in Attempts \ {a} : pc'[b] = pc[b] /\ pc[b] \notin Alive /\ puts'[b] = puts[b]
  BY OthersRest
<1>2. AloneAt(a) /\ Chained(a)
  BY <1>1 DEF SerialInv, ChainInv
<1>3. ASSUME NEW b \in Attempts \ {a} PROVE Chained(b)'
  <2>1. pc'[b] \notin Alive /\ puts'[b] = <<>>
    BY <1>1 DEF SerialInv, AloneAt
  <2>2. Len(<<>>) = 0
    OBVIOUS
  <2>3. \A i \in 1..Len(puts'[b]) : FALSE
    BY <2>1, <2>2
  <2> QED BY <2>1, <2>3 DEF Chained, Alive
<1>a. index \in DOMAIN blob => Continues(blob[index], blob[index])
  BY <1>0, ContinuesItself
<1>b. ASSUME puts'[a] = <<>>, pc'[a] \notin Executing \union {"tick"} PROVE Chained(a)'
  <2>1. Len(<<>>) = 0
    OBVIOUS
  <2>2. \A i \in 1..Len(puts'[a]) : FALSE
    BY <1>b, <2>1
  <2> QED BY <1>b, <2>2 DEF Chained
<1>c. ASSUME UNCHANGED <<blob, index, puts>>, pc'[a] \notin Executing \union {"tick"} PROVE Chained(a)'
  BY <1>2, <1>c DEF Chained
<1>4. CASE Start(a) \/ Check(a) \/ ReadIndex(a) \/ Complete(a) \/ Abort(a)
  <2>1. UNCHANGED <<blob, index, puts>>
    BY <1>4 DEF Start, Check, ReadIndex, Complete, Abort
  <2>2. pc'[a] \in {"check", "open", "load", "return", "abort"}
    BY <1>0, <1>4 DEF Start, Check, ReadIndex, Complete, Abort, Goto
  <2> QED BY <1>3, <1>a, <1>c, <2>1, <2>2 DEF Executing
<1>5. CASE Finish(a) \/ Crash(a)
  <2>1. pc'[a] \in Over /\ puts'[a] = <<>> /\ UNCHANGED <<blob, index>>
    BY <1>0, <1>5 DEF Finish, Crash, Goto, Over
  <2> QED BY <1>3, <1>a, <1>b, <2>1 DEF Executing, Over
<1>6. CASE BeginFromInput(a)
  <2>1. /\ Step(a, Input(a)) /\ Input(a) \in Checkpoint /\ puts[a] = <<>> /\ index \notin DOMAIN blob
        /\ UNCHANGED <<blob, index>>
    BY <1>2, <1>6, NothingBehindInput DEF BeginFromInput, AloneAt
  <2> QED BY <1>3, <2>1, StepChained
<1>7. CASE LoadCheckpoint(a)
  <2>1. /\ graph'[a] = blob[index] /\ index \in DOMAIN blob
        /\ puts'[a] = <<>> /\ UNCHANGED <<blob, index>>
    BY <1>0, <1>2, <1>7 DEF LoadCheckpoint, AloneAt
  <2>2. Len(<<>>) = 0
    OBVIOUS
  <2>3. \A i \in 1..Len(puts'[a]) : FALSE
    BY <2>1, <2>2
  <2> QED BY <1>3, <1>a, <2>1, <2>3 DEF Chained
<1>8. CASE ApplyLoaded(a)
  <2>1. PICK w \in loaded[a] : /\ w.task = <<Id(graph[a]), Successor(graph[a])>>
                               /\ Step(a, [w.out EXCEPT !.run = a])
    BY <1>8 DEF ApplyLoaded
  <2> DEFINE c == [w.out EXCEPT !.run = a]
  <2>2. w \in Entry /\ w \in Entries
    BY <1>0 DEF Entries
  <2>3. /\ c \in Checkpoint /\ c.last = w.out.last /\ c.by = w.out.by /\ c.roles = w.out.roles
    BY <2>2 DEF Entry, Checkpoint
  <2>4. graph[a] \in Made
    BY <1>0 DEF Made, Known
  <2>5. Continues(w.out, graph[a])
    BY <2>1, <2>2, <2>4 DEF NamesInv, EntriesContinue
  <2>6. Step(a, c)
    BY <2>1
  <2> HIDE DEF c
  <2>7. Continues(c, graph[a])
    BY <2>3, <2>5 DEF Continues, Behind
  <2>8. pc[a] \in Executing \union {"tick"} /\ UNCHANGED <<blob, index>>
    BY <1>8 DEF ApplyLoaded
  <2>9. Chained(a)'
    BY <1>2, <2>3, <2>6, <2>7, <2>8, StepChained
  <2> QED BY <1>3, <1>a, <2>8, <2>9
<1>9. CASE Save(a)
  <2>1. /\ pc[a] \in Executing /\ Step(a, draft[a]) /\ UNCHANGED <<blob, index>>
        /\ draft[a] \in Checkpoint
    BY <1>0, <1>9 DEF Save, Executing
  <2>2. /\ draft[a].last = Successor(graph[a]) /\ draft[a].last \in Node
        /\ draft[a].roles = graph[a].roles \/ draft[a].last = "plan"
        /\ draft[a].by = IF draft[a].last \in Author
                         THEN [graph[a].by EXCEPT ![draft[a].last] = a] ELSE graph[a].by
    BY <2>1 DEF TypesInv, DraftFollows
  <2>3. Continues(draft[a], graph[a])
    BY <1>0, <2>2, NodeContinues
  <2>4. Chained(a)'
    BY <1>2, <2>1, <2>3, StepChained
  <2> QED BY <1>3, <1>a, <2>1, <2>4
<1>10. CASE Execute(a) \/ PersistResult(a) \/ Callback(a)
  <2>1. /\ pc[a] \in Executing \union {"tick"}
        /\ UNCHANGED <<blob, index, graph, puts>>
    BY <1>10 DEF Execute, PersistResult, Callback, Publish, Record, MergeRuntime, PersistToolCalls,
                Executing
  <2>2. Chained(a)'
    BY <1>2, <2>1 DEF Chained
  <2> QED BY <1>3, <1>a, <2>1, <2>2
<1>11. CASE Background(a)
  BY <1>2, <1>3, <1>11, BackgroundChained
<1> QED BY <1>4, <1>5, <1>6, <1>7, <1>8, <1>9, <1>10, <1>11 DEF Act, Open, Run, End

-----------------------------------------------------------------------------
\* What attempts that do not overlap return

\* The last of what the attempt has still to store, else what the index names,
\* is the checkpoint its graph is at.
Trailing(a) ==
    IF puts[a] = <<>> THEN index \in DOMAIN blob /\ blob[index] = graph[a]
                      ELSE puts[a][Len(puts[a])].content = graph[a]

LastStored(a) ==
    /\ pc[a] \in Executing \union {"tick", "return"} /\ ~broken[a] => Trailing(a)
    /\ pc[a] = "return" => Successor(graph[a]) = "end"

\* Once a report is returned, an attempt finds it and has nothing to do.
Settled(a) ==
    pc[a] = "returned" =>
      /\ index \in DOMAIN blob /\ blob[index] = graph[a] /\ Successor(graph[a]) = "end"
      /\ \A b \in Attempts : pc[b] \in Alive =>
           /\ puts[b] = <<>> /\ pc[b] \notin Executing
           /\ pc[b] \in {"open", "load"} => ~fresh[b]
           /\ pc[b] \in {"tick", "return"} => graph[b] = blob[index]

AnswerInv == overlaps = 0 => \A a \in Attempts : LastStored(a) /\ Settled(a)

LEMMA AnswerInit == ASSUME Init PROVE AnswerInv
BY DEF Init, AnswerInv, LastStored, Settled, Executing

LEMMA StepTrailing ==
    ASSUME TypesInv, NEW a \in Attempts, NEW c \in Checkpoint, Step(a, c)
    PROVE  Trailing(a)'
<1>0. /\ TypeOK /\ graph \in [Attempts -> Checkpoint] /\ puts \in [Attempts -> Seq(Put)]
  BY DEF TypesInv, TypeOK, Put
<1> DEFINE p == PutOf(a, c)
           q == Append(puts[a], p)
<1>1. graph'[a] = c
  BY <1>0 DEF Step
<1>2. p \in Put /\ p.content = c /\ puts'[a] = q
  BY <1>0, StepTypes DEF PutOf
<1>3. /\ Len(q) = Len(puts[a]) + 1 /\ Len(puts[a]) \in Nat
      /\ q[Len(puts[a]) + 1] = p
  BY <1>0, <1>2, AppendProperties
<1>4. q # <<>>
  BY <1>0, <1>2, AppendProperties
<1> HIDE DEF p, q
<1> QED BY <1>1, <1>2, <1>3, <1>4 DEF Trailing

LEMMA BackgroundTrailing ==
    ASSUME TypesInv, NEW a \in Attempts, Chained(a), Trailing(a), Background(a), ~broken'[a]
    PROVE  Trailing(a)'
<1> USE DEF store, effects, local, queues, counts
<1>0. /\ puts \in [Attempts -> Seq(Put)] /\ broken \in [Attempts -> BOOLEAN]
  BY DEF TypesInv, TypeOK, Put
<1>a. graph' = graph
  BY DEF Background, PutBlob, PutIndex, PutFails, ReadWrites, SaveWrites, WritesFail
<1>b. ASSUME puts[a] # <<>>
      PROVE  /\ puts[a] \in Seq(Put) /\ Head(puts[a]) = puts[a][1] /\ 1 \in 1..Len(puts[a])
             /\ Len(puts[a]) \in 1..Len(puts[a]) /\ puts[a][1] \in Put /\ Len(puts[a]) \in Nat
             /\ puts[a][Len(puts[a])].content = graph[a]
  <2>1. /\ puts[a] \in Seq(Put) /\ Head(puts[a]) = puts[a][1] /\ 1 \in 1..Len(puts[a])
        /\ Len(puts[a]) \in 1..Len(puts[a])
    BY <1>0, <1>b
  <2>2. puts[a][1] \in Put /\ Len(puts[a]) \in Nat
    BY <2>1, ElementOfSeq
  <2>3. puts[a][Len(puts[a])].content = graph[a]
    BY <1>b DEF Trailing
  <2> QED BY <2>1, <2>2, <2>3
<1>1. CASE PutBlob(a)
  <2> DEFINE p == [puts[a][1] EXCEPT !.stored = TRUE]
             q == [puts[a] EXCEPT ![1] = p]
  <2>1. puts[a] # <<>> /\ puts' = [puts EXCEPT ![a] = q]
    BY <1>1 DEF PutBlob
  <2>2. p \in Put /\ p.content = puts[a][1].content
    BY <1>b, <2>1 DEF Put
  <2> HIDE DEF p
  <2>3. /\ Len(q) = Len(puts[a])
        /\ \A i \in 1..Len(puts[a]) : q[i] = IF i = 1 THEN p ELSE puts[a][i]
    BY <1>b, <2>1, <2>2, ExceptSeq
  <2>4. puts'[a] = q
    BY <1>0, <2>1
  <2> HIDE DEF q
  <2>5. q[Len(q)].content = puts[a][Len(puts[a])].content
    BY <1>b, <2>1, <2>2, <2>3
  <2>6. q # <<>>
    <3>1. Len(<<>>) = 0 /\ Len(q) # 0
      BY <1>b, <2>1, <2>3
    <3> QED BY <3>1
  <2> QED BY <1>a, <1>b, <2>1, <2>4, <2>5, <2>6 DEF Trailing
<1>2. CASE PutIndex(a)
  <2> DEFINE q == Tail(puts[a])
  <2>1. /\ puts[a] # <<>> /\ puts' = [puts EXCEPT ![a] = q] /\ blob' = blob
        /\ index' = puts[a][1].key /\ puts[a][1].stored
    BY <1>2, <1>b DEF PutIndex, Dequeue
  <2>2. /\ Len(q) = Len(puts[a]) - 1 /\ q \in Seq(Put)
        /\ \A i \in 1..Len(q) : q[i] = puts[a][i + 1]
    BY <1>b, <2>1, HeadTailProperties
  <2>3. puts'[a] = q
    BY <1>0, <2>1
  <2> HIDE DEF q
  <2>4. CASE q = <<>>
    <3>1. Len(puts[a]) = 1
      <4>1. Len(<<>>) = 0
        OBVIOUS
      <4> QED BY <1>b, <2>1, <2>2, <2>4, <4>1
    <3>2. puts[a][1].key \in DOMAIN blob /\ blob[puts[a][1].key] = puts[a][1].content
      BY <1>b, <2>1 DEF Chained, TypesInv, KeysInUse
    <3> QED BY <1>a, <1>b, <2>1, <2>3, <2>4, <3>1, <3>2 DEF Trailing
  <2>5. CASE q # <<>>
    <3>1. Len(q) \in 1..Len(q)
      BY <2>2, <2>5
    <3>2. q[Len(q)] = puts[a][Len(puts[a])]
      BY <1>b, <2>1, <2>2, <3>1
    <3> QED BY <1>a, <1>b, <2>1, <2>3, <2>5, <3>2 DEF Trailing
  <2> QED BY <2>4, <2>5
<1>3. CASE PutFails(a)
  BY <1>0, <1>3 DEF PutFails, Break
<1>4. ASSUME NEW j \in jobs[a], ReadWrites(a, j) \/ SaveWrites(a, j) \/ WritesFail(a, j)
      PROVE  Trailing(a)'
  BY <1>4, <1>a DEF ReadWrites, SaveWrites, WritesFail, Trailing
<1> QED BY <1>1, <1>2, <1>3, <1>4 DEF Background

LEMMA LastStoredNext ==
    ASSUME TypesInv, NEW a \in Attempts, AloneAt(a), Chained(a), LastStored(a), Act(a)
    PROVE  LastStored(a)'
<1> USE DEF store, effects, local, queues, counts
<1>0. /\ TypeOK
      /\ pc \in [Attempts -> Pcs] /\ puts \in [Attempts -> Seq(Put)] /\ graph \in [Attempts -> Checkpoint]
      /\ draft \in [Attempts -> Checkpoint] /\ loaded \in [Attempts -> SUBSET Entry]
      /\ broken \in [Attempts -> BOOLEAN]
  BY DEF TypesInv, TypeOK, Put
<1>1. ASSUME pc'[a] \notin Executing \union {"tick", "return"} PROVE LastStored(a)'
  BY <1>1 DEF LastStored
<1>2. ASSUME Trailing(a)', pc'[a] # "return" PROVE LastStored(a)'
  BY <1>2 DEF LastStored
<1>3. CASE Start(a) \/ Check(a) \/ ReadIndex(a)
  <2>1. pc'[a] \in {"check", "open", "load"}
    BY <1>0, <1>3 DEF Start, Check, ReadIndex, Goto
  <2> QED BY <1>1, <2>1 DEF Executing
<1>4. CASE LoadCheckpoint(a)
  <2>1. /\ graph'[a] = blob[index] /\ index \in DOMAIN blob /\ pc'[a] = "tick"
        /\ puts'[a] = <<>> /\ UNCHANGED <<blob, index>>
    BY <1>0, <1>4 DEF LoadCheckpoint, AloneAt, Goto
  <2> QED BY <1>2, <2>1 DEF Trailing
<1>5. CASE BeginFromInput(a) \/ ApplyLoaded(a) \/ Save(a)
  <2>1. \E c \in Checkpoint : Step(a, c)
    <3>1. CASE BeginFromInput(a)
      BY <3>1, NothingBehindInput DEF BeginFromInput
    <3>2. CASE ApplyLoaded(a)
      <4>1. PICK w \in loaded[a] : Step(a, [w.out EXCEPT !.run = a])
        BY <3>2 DEF ApplyLoaded
      <4>2. w.out \in Checkpoint
        BY <1>0 DEF Entry
      <4>3. [w.out EXCEPT !.run = a] \in Checkpoint
        BY <4>2 DEF Checkpoint
      <4> QED BY <4>1, <4>3
    <3>3. CASE Save(a)
      BY <1>0, <3>3 DEF Save
    <3> QED BY <1>5, <3>1, <3>2, <3>3
  <2>2. Trailing(a)'
    BY <2>1, StepTrailing
  <2>3. pc'[a] = "tick"
    BY <1>0, <2>1 DEF Step, Goto
  <2> QED BY <1>2, <2>2, <2>3
<1>6. CASE Execute(a) \/ PersistResult(a) \/ Callback(a)
  <2>1. /\ pc[a] \in Executing \union {"tick"}
        /\ UNCHANGED <<blob, index, graph, puts, broken>>
    BY <1>6 DEF Execute, PersistResult, Callback, Publish, Record, MergeRuntime, PersistToolCalls,
                Executing
  <2>2. pc'[a] \in Executing
    <3>1. \E l \in Executing : Goto(a, l)
      BY <1>6 DEF Execute, PersistResult, Callback, Publish, Record, MergeRuntime,
                  PersistToolCalls, Executing
    <3> QED BY <1>0, <3>1 DEF Goto
  <2> QED BY <2>1, <2>2 DEF LastStored, Trailing, Executing
<1>7. CASE Background(a)
  <2>1. graph' = graph /\ pc' = pc /\ (broken[a] => broken'[a])
    BY <1>0, <1>7 DEF Background, PutBlob, PutIndex, PutFails, ReadWrites, SaveWrites, WritesFail, Break
  <2> QED BY <1>7, <2>1, BackgroundTrailing DEF LastStored
<1>8. CASE Complete(a)
  <2>1. /\ pc[a] = "tick" /\ Successor(graph[a]) = "end" /\ graph'[a] = graph[a]
        /\ UNCHANGED <<blob, index, puts, broken>>
    BY <1>0, <1>8 DEF Complete, Forget
  <2> QED BY <2>1 DEF LastStored, Trailing, Executing
<1>9. CASE Finish(a) \/ Abort(a) \/ Crash(a)
  <2>1. pc'[a] \in {"returned", "failed", "abort"}
    BY <1>0, <1>9 DEF Finish, Abort, Crash, Goto
  <2> QED BY <1>1, <2>1 DEF Executing
<1> QED BY <1>3, <1>4, <1>5, <1>6, <1>7, <1>8, <1>9 DEF Act, Open, Run, End

\* Only Finish returns, and only what the index names.
LEMMA Returns ==
    ASSUME TypesInv, NEW a \in Attempts, LastStored(a), Act(a), pc'[a] = "returned"
    PROVE  /\ index' \in DOMAIN blob' /\ blob'[index'] = graph'[a] /\ Successor(graph'[a]) = "end"
           /\ pc[a] = "return"
<1> USE DEF store, effects, local, queues, counts
<1>0. pc \in [Attempts -> Pcs]
  BY DEF TypesInv, TypeOK
<1>1. CASE Finish(a)
  <2>1. /\ pc[a] = "return" /\ ~broken[a] /\ puts[a] = <<>>
        /\ UNCHANGED <<blob, index, graph>>
    BY <1>0, <1>1 DEF Finish, Goto
  <2> QED BY <2>1 DEF LastStored, Trailing
<1>2. CASE Open(a) \/ Run(a) \/ Background(a) \/ Complete(a) \/ Abort(a) \/ Crash(a)
  <2>1. pc'[a] # "returned" \/ (pc' = pc /\ pc[a] \in Alive)
    <3>1. CASE Background(a)
      BY <3>1 DEF Background, PutBlob, PutIndex, PutFails, ReadWrites, SaveWrites, WritesFail
    <3>2. CASE Open(a) \/ Complete(a) \/ Abort(a) \/ Crash(a)
      BY <1>0, <3>2 DEF Open, Start, Check, ReadIndex, BeginFromInput, LoadCheckpoint, Step,
                        Complete, Abort, Crash, Goto
    <3>3. CASE Run(a)
      <4>1. \E l \in Executing \union {"tick"} : Goto(a, l)
        BY <3>3 DEF Run, ApplyLoaded, Save, Step, Execute, PersistResult, Callback, Publish, Record,
                    MergeRuntime, PersistToolCalls, Executing
      <4>2. pc'[a] \in Executing \union {"tick"}
        BY <1>0, <4>1 DEF Goto
      <4> QED BY <4>2 DEF Executing
    <3> QED BY <1>2, <3>1, <3>2, <3>3
  <2> QED BY <2>1 DEF Alive, Executing
<1> QED BY <1>1, <1>2 DEF Act, End

\* An attempt that is asked again only reads.
LEMMA AskedAgain ==
    ASSUME TypesInv, NEW a \in Attempts, NEW b \in Attempts \ {a}, AloneAt(a), Settled(b),
           pc[b] = "returned", Act(a), overlaps' = 0
    PROVE  /\ UNCHANGED <<blob, index>>
           /\ pc'[a] \in Alive =>
                /\ puts'[a] = <<>> /\ pc'[a] \notin Executing
                /\ pc'[a] \in {"open", "load"} => ~fresh'[a]
                /\ pc'[a] \in {"tick", "return"} => graph'[a] = blob[index]
<1> USE DEF store, effects, local, queues, counts
<1>0. /\ TypeOK
      /\ pc \in [Attempts -> Pcs] /\ puts \in [Attempts -> Seq(Put)] /\ graph \in [Attempts -> Checkpoint]
      /\ fresh \in [Attempts -> BOOLEAN] /\ loaded \in [Attempts -> SUBSET Entry]
  BY DEF TypesInv, TypeOK, Put
<1>1. /\ index \in DOMAIN blob /\ Successor(blob[index]) = "end"
      /\ pc[a] \in Alive =>
           /\ puts[a] = <<>> /\ pc[a] \notin Executing
           /\ pc[a] \in {"open", "load"} => ~fresh[a]
           /\ pc[a] \in {"tick", "return"} => graph[a] = blob[index]
  BY DEF Settled
<1>2. CASE Start(a)
  <2>1. pc[a] = "idle" /\ pc'[a] = "check" /\ UNCHANGED <<blob, index, puts>>
    BY <1>0, <1>2 DEF Start, Goto
  <2>2. puts[a] = <<>>
    BY <2>1 DEF AloneAt, Alive, Executing
  <2> QED BY <2>1, <2>2 DEF Executing
<1>3. CASE Check(a)
  <2>1. /\ pc[a] = "check" /\ pc'[a] = "open" /\ UNCHANGED <<blob, index, puts>>
        /\ fresh'[a] = (index \notin DOMAIN blob)
    BY <1>0, <1>3 DEF Check, Goto
  <2> QED BY <1>1, <2>1 DEF Alive, Executing
<1>4. CASE ReadIndex(a)
  <2>1. /\ pc[a] = "open" /\ pc'[a] = "load" /\ UNCHANGED <<blob, index, puts, fresh>>
    BY <1>0, <1>4 DEF ReadIndex, Goto
  <2> QED BY <1>1, <2>1 DEF Alive, Executing
<1>5. ~BeginFromInput(a)
  BY <1>1 DEF BeginFromInput, Alive
<1>6. CASE LoadCheckpoint(a)
  <2>1. /\ pc[a] = "load" /\ graph'[a] = blob[index] /\ pc'[a] = "tick"
        /\ UNCHANGED <<blob, index, puts>>
    BY <1>0, <1>6 DEF LoadCheckpoint, AloneAt, Goto
  <2> QED BY <1>1, <2>1 DEF Alive, Executing
<1>7. ~ApplyLoaded(a)
  <2> SUFFICES ASSUME ApplyLoaded(a) PROVE FALSE
    OBVIOUS
  <2>1. PICK w \in loaded[a] : pc[a] = "tick" /\ w.task = <<Id(graph[a]), Successor(graph[a])>>
    BY DEF ApplyLoaded
  <2>2. w.task \in Ids \X Node
    BY <1>0 DEF Entry
  <2>3. Successor(graph[a]) \in Node
    BY <2>1, <2>2
  <2>4. Successor(graph[a]) = "end"
    BY <1>1, <2>1 DEF Alive
  <2> QED BY <2>3, <2>4, NodeTable
<1>8. ~Execute(a)
  BY <1>1 DEF Execute, Alive
<1>9. ~(PersistResult(a) \/ Callback(a) \/ Save(a))
  BY <1>1 DEF PersistResult, Callback, Publish, Record, MergeRuntime, PersistToolCalls, Save,
              Alive, Executing
<1>10. CASE Background(a)
  <2>1. pc[a] \in Alive
    BY <1>10 DEF Background, PutBlob, PutIndex, PutFails, ReadWrites, SaveWrites, WritesFail
  <2>2. UNCHANGED <<blob, index, puts, pc, fresh, graph>>
    BY <1>1, <1>10, <2>1
       DEF Background, PutBlob, PutIndex, PutFails, ReadWrites, SaveWrites, WritesFail
  <2> QED BY <1>1, <2>2
<1>11. CASE Complete(a)
  <2>1. /\ pc[a] = "tick" /\ pc'[a] = "return" /\ graph'[a] = graph[a]
        /\ UNCHANGED <<blob, index, puts>>
    BY <1>0, <1>11 DEF Complete, Forget, Goto
  <2> QED BY <1>1, <2>1 DEF Alive, Executing
<1>12. CASE Abort(a)
  <2>1. pc[a] \in Alive /\ pc'[a] = "abort" /\ UNCHANGED <<blob, index, puts>>
    BY <1>0, <1>12 DEF Abort, Goto
  <2> QED BY <1>1, <2>1 DEF Executing
<1>13. CASE Finish(a) \/ Crash(a)
  <2>1. pc'[a] \in Over /\ UNCHANGED <<blob, index>>
    BY <1>0, <1>13 DEF Finish, Crash, Goto, Over
  <2> QED BY <2>1 DEF Over, Alive, Executing
<1> QED BY <1>2, <1>3, <1>4, <1>5, <1>6, <1>7, <1>8, <1>9, <1>10, <1>11, <1>12, <1>13
        DEF Act, Open, Run, End

LEMMA AnswerNext ==
    ASSUME TypesInv, SerialInv, ChainInv, AnswerInv, NEW a \in Attempts, Act(a)
    PROVE  AnswerInv'
<1> SUFFICES ASSUME overlaps' = 0, NEW b \in Attempts PROVE LastStored(b)' /\ Settled(b)'
  BY DEF AnswerInv
<1>1. /\ overlaps = 0
      /\ \A c \in Attempts \ {a} : pc'[c] = pc[c] /\ pc[c] \notin Alive /\ puts'[c] = puts[c]
  BY OthersRest
<1>2. /\ AloneAt(a) /\ Chained(a)
      /\ \A c \in Attempts : LastStored(c) /\ Settled(c)
  BY <1>1 DEF SerialInv, ChainInv, AnswerInv
<1>3. CASE b = a
  <2>1. LastStored(b)'
    BY <1>2, <1>3, LastStoredNext
  <2>2. Settled(b)'
    <3> SUFFICES ASSUME pc'[a] = "returned" PROVE Settled(a)'
      BY <1>3 DEF Settled
    <3>1. /\ index' \in DOMAIN blob' /\ blob'[index'] = graph'[a] /\ Successor(graph'[a]) = "end"
      BY <1>2, Returns
    <3>2. \A c \in Attempts : pc'[c] \notin Alive
      BY <1>1 DEF Alive, Executing
    <3>3. (Successor(graph[a]))' = Successor(graph'[a])
      BY DEF Successor
    <3> QED BY <3>1, <3>2, <3>3 DEF Settled
  <2> QED BY <2>1, <2>2
<1>4. CASE b # a
  <2>1. pc'[b] = pc[b] /\ pc[b] \notin Alive /\ graph'[b] = graph[b]
    BY <1>1, <1>4, OthersFrame
  <2>2. LastStored(b)'
    BY <2>1 DEF LastStored, Alive
  <2>3. Settled(b)'
    <3> SUFFICES ASSUME pc[b] = "returned" PROVE Settled(b)'
      BY <2>1 DEF Settled
    <3>1. index \in DOMAIN blob /\ blob[index] = graph[b] /\ Successor(graph[b]) = "end"
      BY <1>2 DEF Settled
    <3>2. /\ UNCHANGED <<blob, index>>
          /\ pc'[a] \in Alive =>
               /\ puts'[a] = <<>> /\ pc'[a] \notin Executing
               /\ pc'[a] \in {"open", "load"} => ~fresh'[a]
               /\ pc'[a] \in {"tick", "return"} => graph'[a] = blob[index]
      BY <1>2, <1>4, AskedAgain
    <3>3. \A c \in Attempts : pc'[c] \in Alive => c = a
      BY <1>1
    <3>4. (Successor(graph[b]))' = Successor(graph'[b])
      BY DEF Successor
    <3> QED BY <2>1, <3>1, <3>2, <3>3, <3>4 DEF Settled
  <2> QED BY <2>2, <2>3
<1> QED BY <1>3, <1>4

-----------------------------------------------------------------------------
\* What the runtime state shows while no call fails

\* What is stored, about to be stored, or executed on.
Stored(c) == index \in DOMAIN blob /\ c = blob[index]
Queued(a, c) == \E i \in 1..Len(puts[a]) : c = puts[a][i].content
Reached(a, c) == pc[a] \in Executing \union {"tick", "return"} /\ c = graph[a]
Lineage == {c \in Checkpoint : Stored(c) \/ \E a \in Attempts : Queued(a, c) \/ Reached(a, c)}

\* The result of c was persisted: c says so, or a pending write for c does.
Told(c) ==
    \/ c.last = "persist_result"
    \/ \E w \in Entries : w.task[1] = Id(c) /\ w.out.last = "persist_result"

\* The report of a checkpoint whose result was persisted is the one on display.
Shows(c) == Told(c) => runtime.report = c.by["writer"]

Persisting(a) ==
    pc[a] \in Executing =>
      /\ pc[a] = "persist" => draft[a].last = "persist_result"
      /\ pc[a] # "persist" /\ draft[a].last = "persist_result" =>
            runtime.report = graph[a].by["writer"]

ReportInv ==
    overlaps = 0 /\ failures = 0 =>
      (\A c \in Lineage : Shows(c)) /\ (\A a \in Attempts : Persisting(a))

LEMMA BeforePersist ==
    ASSUME NEW c \in Checkpoint, Successor(c) = "persist_result"
    PROVE  "writer" \in Behind(c) /\ Rank[c.last] < 8
<1>1. Rank[c.last] \in 1..9 /\ Rank[c.last] < 8
  <2>1. Successor(c) # "end" /\ Rank[c.last] \in 1..9
    BY Ranked
  <2>2. Rank[Successor(c)] > Rank[c.last]
    BY <2>1, SuccessorIsNode
  <2> QED BY <2>1, <2>2, RankTable
<1>2. Rank[c.last] >= 7
  <2> SUFFICES ASSUME ~(Rank[c.last] >= 7) PROVE FALSE
    OBVIOUS
  <2>1. "writer" \in Later(c)
    BY <1>1, RankTable DEF Later, OptionalRole
  <2>2. Rank["persist_result"] <= Rank["writer"]
    BY <2>1, SuccessorFirst
  <2> QED BY <2>2, RankTable
<1> QED BY <1>1, <1>2, RankTable, NodeTable DEF Behind, OptionalRole

LEMMA EndIsLast ==
    ASSUME NEW c \in Checkpoint, Successor(c) = "end"
    PROVE  c.last = "persist_result"
<1>1. Rank[c.last] \in 1..9 /\ c.last \in Node \union {"input"}
  BY Ranked DEF Checkpoint
<1>2. Rank[c.last] >= 8
  <2> SUFFICES ASSUME ~(Rank[c.last] >= 8) PROVE FALSE
    OBVIOUS
  <2>1. "persist_result" \in Later(c)
    BY <1>1, RankTable DEF Later, OptionalRole
  <2>2. Rank["end"] <= Rank["persist_result"]
    BY <2>1, SuccessorFirst
  <2> QED BY <2>2, RankTable
<1> QED BY <1>1, <1>2, RankTable, NodeTable

LEMMA ReportInit == ASSUME Init PROVE ReportInv
<1>1. /\ \A a \in Attempts : puts[a] = <<>> /\ pc[a] = "idle"
      /\ DOMAIN blob = {}
  BY DEF Init
<1>2. \A a \in Attempts : \A i \in 1..Len(puts[a]) : FALSE
  <2>1. Len(<<>>) = 0
    OBVIOUS
  <2> QED BY <1>1, <2>1
<1>3. Lineage = {}
  BY <1>1, <1>2 DEF Lineage, Stored, Queued, Reached, Executing
<1> QED BY <1>1, <1>3 DEF ReportInv, Persisting, Executing

\* Where the checkpoints of the lineage come from.
LEMMA QueuedNext ==
    ASSUME TypesInv, NEW a \in Attempts, Act(a), NEW c \in Checkpoint, Queued(a, c)'
    PROVE  Queued(a, c) \/ (c = graph'[a] /\ pc'[a] = "tick")
<1> USE DEF store, effects, local, queues, counts
<1>0. /\ TypeOK /\ pc \in [Attempts -> Pcs] /\ graph \in [Attempts -> Checkpoint]
      /\ puts \in [Attempts -> Seq(Put)] /\ parent \in [Attempts -> Ids]
      /\ loaded \in [Attempts -> SUBSET Entry] /\ draft \in [Attempts -> Checkpoint]
  BY DEF TypesInv, TypeOK, Put
<1>b. ASSUME puts[a] # <<>>
      PROVE  /\ puts[a] \in Seq(Put) /\ 1 \in 1..Len(puts[a]) /\ puts[a][1] \in Put
  <2>1. puts[a] \in Seq(Put) /\ 1 \in 1..Len(puts[a])
    BY <1>0, <1>b
  <2> QED BY <2>1, ElementOfSeq
<1>1. CASE puts' = puts
  BY <1>1 DEF Queued
<1>2. ASSUME NEW d \in Checkpoint, Step(a, d)
      PROVE  Queued(a, c) \/ (c = graph'[a] /\ pc'[a] = "tick")
  <2> DEFINE q == Append(puts[a], PutOf(a, d))
  <2>1. puts'[a] = q /\ PutOf(a, d) \in Put /\ puts[a] \in Seq(Put)
    BY <1>0, <1>2, StepTypes
  <2>2. /\ Len(q) = Len(puts[a]) + 1 /\ Len(puts[a]) \in Nat
        /\ \A i \in 1..Len(puts[a]) : q[i] = puts[a][i]
        /\ q[Len(puts[a]) + 1] = PutOf(a, d)
    BY <2>1, AppendProperties
  <2>3. PutOf(a, d).content = d /\ graph'[a] = d /\ pc'[a] = "tick"
    BY <1>0, <1>2 DEF PutOf, Step, Goto
  <2> HIDE DEF q
  <2>4. PICK i \in 1..Len(q) : c = q[i].content
    BY <2>1 DEF Queued
  <2>5. CASE i \in 1..Len(puts[a])
    BY <2>2, <2>4, <2>5 DEF Queued
  <2>6. CASE i = Len(puts[a]) + 1
    BY <2>2, <2>3, <2>4, <2>6
  <2>7. i \in 1..Len(puts[a]) \/ i = Len(puts[a]) + 1
    BY <2>2
  <2> QED BY <2>5, <2>6, <2>7
<1>3. CASE BeginFromInput(a) \/ ApplyLoaded(a) \/ Save(a)
  <2>1. \E d \in Checkpoint : Step(a, d)
    <3>1. CASE BeginFromInput(a)
      BY <3>1, NothingBehindInput DEF BeginFromInput
    <3>2. CASE ApplyLoaded(a)
      <4>1. PICK w \in loaded[a] : Step(a, [w.out EXCEPT !.run = a])
        BY <3>2 DEF ApplyLoaded
      <4>2. w.out \in Checkpoint
        BY <1>0 DEF Entry
      <4>3. [w.out EXCEPT !.run = a] \in Checkpoint
        BY <4>2 DEF Checkpoint
      <4> QED BY <4>1, <4>3
    <3>3. CASE Save(a)
      BY <1>0, <3>3 DEF Save
    <3> QED BY <1>3, <3>1, <3>2, <3>3
  <2> QED BY <1>2, <2>1
<1>4. CASE PutBlob(a)
  <2> DEFINE p == [puts[a][1] EXCEPT !.stored = TRUE]
             q == [puts[a] EXCEPT ![1] = p]
  <2>1. /\ puts[a] \in Seq(Put) /\ 1 \in 1..Len(puts[a]) /\ puts[a][1] \in Put
        /\ puts'[a] = q
    BY <1>0, <1>4, <1>b DEF PutBlob
  <2>2. p \in Put /\ p.content = puts[a][1].content
    BY <2>1 DEF Put
  <2> HIDE DEF p
  <2>3. /\ Len(q) = Len(puts[a])
        /\ \A i \in 1..Len(puts[a]) : q[i] = IF i = 1 THEN p ELSE puts[a][i]
    BY <2>1, <2>2, ExceptSeq
  <2> HIDE DEF q
  <2>4. PICK i \in 1..Len(q) : c = q[i].content
    BY <2>1 DEF Queued
  <2>5. c = puts[a][i].content /\ i \in 1..Len(puts[a])
    BY <2>2, <2>3, <2>4
  <2> QED BY <2>5 DEF Queued
<1>5. CASE PutIndex(a) \/ PutFails(a)
  <2> DEFINE q == Tail(puts[a])
  <2>1. puts[a] # <<>> /\ puts[a] \in Seq(Put) /\ puts'[a] = q
    BY <1>0, <1>5 DEF PutIndex, PutFails, Dequeue
  <2>2. /\ Len(q) = Len(puts[a]) - 1
        /\ \A i \in 1..Len(q) : q[i] = puts[a][i + 1]
    BY <2>1, HeadTailProperties
  <2>3. \A i \in 1..Len(q) : i + 1 \in 1..Len(puts[a])
    BY <2>1, <2>2
  <2> HIDE DEF q
  <2>4. PICK i \in 1..Len(q) : c = q[i].content
    BY <2>1 DEF Queued
  <2> QED BY <2>2, <2>3, <2>4 DEF Queued
<1>6. CASE Crash(a)
  <2>1. puts'[a] = <<>> /\ Len(<<>>) = 0
    BY <1>0, <1>6 DEF Crash
  <2>2. \A i \in 1..Len(puts'[a]) : FALSE
    BY <2>1
  <2> QED BY <2>2 DEF Queued
<1>7. CASE Start(a) \/ Check(a) \/ ReadIndex(a) \/ LoadCheckpoint(a) \/ Execute(a)
           \/ PersistResult(a) \/ Callback(a)
  BY <1>1, <1>7 DEF Start, Check, ReadIndex, LoadCheckpoint, Execute, PersistResult, Callback,
                    Publish, Record, MergeRuntime, PersistToolCalls
<1>8. CASE Complete(a) \/ Finish(a) \/ Abort(a)
           \/ \E j \in jobs[a] : ReadWrites(a, j) \/ SaveWrites(a, j) \/ WritesFail(a, j)
  BY <1>1, <1>8 DEF Complete, Finish, Abort, ReadWrites, SaveWrites, WritesFail
<1> QED BY <1>3, <1>4, <1>5, <1>6, <1>7, <1>8 DEF Act, Open, Run, Background, End

\* The graph comes to a checkpoint by an own step, or finds it indexed.
LEMMA ReachedNext ==
    ASSUME TypesInv, NEW a \in Attempts, AloneAt(a), Act(a), pc'[a] \in Executing \union {"tick", "return"}
    PROVE  \/ MovesTo(a, graph'[a])
           \/ graph'[a] = Input(a)
           \/ Stored(graph'[a])
           \/ graph'[a] = graph[a] /\ pc[a] \in Executing \union {"tick", "return"}
<1> USE DEF store, effects, local, queues, counts
<1>0. pc \in [Attempts -> Pcs] /\ graph \in [Attempts -> Checkpoint]
  BY DEF TypesInv, TypeOK
<1>1. CASE Open(a)
  <2>1. CASE BeginFromInput(a)
    BY <1>0, <2>1 DEF BeginFromInput, Step
  <2>2. CASE LoadCheckpoint(a)
    BY <1>0, <2>2 DEF LoadCheckpoint, AloneAt, Stored
  <2>3. CASE Start(a) \/ Check(a) \/ ReadIndex(a)
    BY <1>0, <2>3 DEF Start, Check, ReadIndex, Goto, Executing
  <2> QED BY <1>1, <2>1, <2>2, <2>3 DEF Open
<1>2. CASE ApplyLoaded(a) \/ Save(a)
  BY <1>2, MadeNext
<1>3. CASE Execute(a) \/ PersistResult(a) \/ Callback(a)
  BY <1>3 DEF Execute, PersistResult, Callback, Publish, Record, MergeRuntime, PersistToolCalls,
              Executing
<1>4. CASE Background(a)
  BY <1>4 DEF Background, PutBlob, PutIndex, PutFails, ReadWrites, SaveWrites, WritesFail
<1>5. CASE End(a)
  <2>1. CASE Complete(a)
    BY <1>0, <2>1 DEF Complete, Forget
  <2>2. CASE Finish(a) \/ Abort(a) \/ Crash(a)
    BY <1>0, <2>2 DEF Finish, Abort, Crash, Goto, Executing
  <2> QED BY <1>5, <2>1, <2>2 DEF End
<1> QED BY <1>1, <1>2, <1>3, <1>4, <1>5 DEF Act, Run

\* The index changes to what was queued.
LEMMA StoredNext ==
    ASSUME TypesInv, NEW a \in Attempts, Chained(a), Act(a), NEW c \in Checkpoint, Stored(c)'
    PROVE  Stored(c) \/ Queued(a, c)
<1> USE DEF store, effects, local, queues, counts
<1>0. puts \in [Attempts -> Seq(Put)] /\ (index = NoId \/ index \in DOMAIN blob)
  BY DEF TypesInv, TypeOK, Put, IndexedIsStored
<1>b. ASSUME puts[a] # <<>>
      PROVE  /\ Head(puts[a]) = puts[a][1] /\ 1 \in 1..Len(puts[a]) /\ puts[a][1].key # NoId
  <2>1. Head(puts[a]) = puts[a][1] /\ 1 \in 1..Len(puts[a])
    BY <1>0, <1>b
  <2> QED BY <2>1 DEF TypesInv, KeysInUse
<1>1. CASE UNCHANGED <<blob, index>>
  BY <1>1 DEF Stored
<1>2. CASE PutBlob(a)
  <2>1. /\ puts[a] # <<>> /\ index' = index
        /\ blob' = [i \in DOMAIN blob \union {Head(puts[a]).key} |->
                      IF i = Head(puts[a]).key THEN Head(puts[a]).content ELSE blob[i]]
    BY <1>2 DEF PutBlob, File
  <2>2. index \in DOMAIN blob /\ (blob'[index] = blob[index] \/ blob'[index] = puts[a][1].content)
    BY <1>0, <1>b, <2>1 DEF Stored
  <2> QED BY <1>b, <2>1, <2>2 DEF Stored, Queued
<1>3. CASE PutIndex(a)
  <2>1. /\ puts[a] # <<>> /\ blob' = blob /\ index' = puts[a][1].key /\ puts[a][1].stored
    BY <1>3, <1>b DEF PutIndex
  <2>2. blob[puts[a][1].key] = puts[a][1].content
    BY <1>b, <2>1 DEF Chained
  <2> QED BY <1>b, <2>1, <2>2 DEF Stored, Queued
<1>4. CASE Open(a) \/ End(a)
  BY <1>1, <1>4 DEF Open, Start, Check, ReadIndex, BeginFromInput, LoadCheckpoint,
                    End, Complete, Finish, Abort, Crash
<1>5. CASE Run(a)
  BY <1>1, <1>5 DEF Run, ApplyLoaded, Execute, PersistResult, Callback, Publish, Record,
                    MergeRuntime, PersistToolCalls, Save
<1>6. CASE PutFails(a) \/ \E j \in jobs[a] : ReadWrites(a, j) \/ SaveWrites(a, j) \/ WritesFail(a, j)
  BY <1>1, <1>6 DEF PutFails, ReadWrites, SaveWrites, WritesFail
<1> QED BY <1>2, <1>3, <1>4, <1>5, <1>6 DEF Act, Background

LEMMA LineageNext ==
    ASSUME TypesInv, SerialInv, ChainInv, NEW a \in Attempts, Act(a), overlaps' = 0
    PROVE  \A c \in Lineage' : c \in Lineage \/ c = Input(a) \/ MovesTo(a, c)
<1> SUFFICES ASSUME NEW c \in Checkpoint, Stored(c)' \/ \E b \in Attempts : Queued(b, c)' \/ Reached(b, c)'
             PROVE  c \in Lineage \/ c = Input(a) \/ MovesTo(a, c)
  BY DEF Lineage
<1>1. /\ overlaps = 0
      /\ \A b \in Attempts \ {a} : pc'[b] = pc[b] /\ pc[b] \notin Alive /\ puts'[b] = puts[b]
  BY OthersRest
<1>2. AloneAt(a) /\ Chained(a)
  BY <1>1 DEF SerialInv, ChainInv
<1>3. ASSUME Reached(a, c)' PROVE c \in Lineage \/ c = Input(a) \/ MovesTo(a, c)
  <2>1. c = graph'[a] /\ pc'[a] \in Executing \union {"tick", "return"}
    BY <1>3 DEF Reached
  <2>2. \/ MovesTo(a, c) \/ c = Input(a) \/ Stored(c) \/ Reached(a, c)
    BY <1>2, <2>1, ReachedNext DEF Reached
  <2> QED BY <2>2 DEF Lineage
<1>4. ASSUME Queued(a, c)' PROVE c \in Lineage \/ c = Input(a) \/ MovesTo(a, c)
  <2>1. Queued(a, c) \/ Reached(a, c)'
    BY <1>4, QueuedNext DEF Reached
  <2> QED BY <1>3, <2>1 DEF Lineage
<1>5. ASSUME Stored(c)' PROVE c \in Lineage
  BY <1>2, <1>5, StoredNext DEF Lineage
<1>6. ASSUME NEW b \in Attempts \ {a}, Queued(b, c)' \/ Reached(b, c)' PROVE FALSE
  <2>1. pc'[b] \notin Alive /\ puts'[b] = <<>> /\ Len(<<>>) = 0
    BY <1>1 DEF SerialInv, AloneAt
  <2>2. \A i \in 1..Len(puts'[b]) : FALSE
    BY <2>1
  <2> QED BY <1>6, <2>1, <2>2 DEF Queued, Reached, Alive
<1> QED BY <1>3, <1>4, <1>5, <1>6

LEMMA ToldNext ==
    ASSUME TypesInv, NamesInv, NEW a \in Attempts, Act(a), NEW c \in Made, Told(c)'
    PROVE  Told(c) \/ (Save(a) /\ c = graph[a] /\ draft[a].last = "persist_result")
<1> SUFFICES ASSUME c.last # "persist_result"
             PROVE  Told(c) \/ (Save(a) /\ c = graph[a] /\ draft[a].last = "persist_result")
  BY DEF Told
<1>1. PICK w \in Entries' : w.task[1] = Id(c) /\ w.out.last = "persist_result"
  BY DEF Told, Id
<1>2. CASE w \in Entries
  BY <1>1, <1>2 DEF Told
<1>3. CASE Save(a) /\ w = NewEntry(a)
  <2>1. w.task[1] = Id(graph[a]) /\ w.out = draft[a]
    BY <1>3 DEF NewEntry
  <2>2. graph[a] \in Made
    BY DEF TypesInv, TypeOK, Made, Known
  <2> QED BY <1>1, <1>3, <2>1, <2>2 DEF NamesInv
<1> QED BY <1>2, <1>3, EntriesNext DEF TypesInv

LEMMA InputUntold ==
    ASSUME TypesInv, NamesInv, NEW a \in Attempts
    PROVE  ~Told(Input(a))
<1>1. Input(a) \in Made /\ Input(a) \in Checkpoint /\ Behind(Input(a)) = {}
  BY NothingBehindInput DEF Made
<1>2. Input(a).last # "persist_result"
  BY DEF Input
<1>3. ASSUME NEW w \in Entries, w.task[1] = Id(Input(a)), w.out.last = "persist_result" PROVE FALSE
  <2>1. Successor(Input(a)) = "persist_result"
    BY <1>1, <1>3 DEF NamesInv, EntriesContinue
  <2> QED BY <1>1, <2>1, BeforePersist
<1> QED BY <1>2, <1>3 DEF Told

\* An attempt that runs alone has the whole lineage behind it.
LEMMA GraphContinuesLineage ==
    ASSUME TypesInv, NEW a \in Attempts, Chained(a), pc[a] \in Executing \union {"tick"},
           \A b \in Attempts \ {a} : pc[b] \notin Alive /\ puts[b] = <<>>
    PROVE  \A c \in Lineage : Continues(graph[a], c)
<1> SUFFICES ASSUME NEW c \in Checkpoint, Stored(c) \/ \E b \in Attempts : Queued(b, c) \/ Reached(b, c)
             PROVE  Continues(graph[a], c)
  BY DEF Lineage
<1>1. graph[a] \in Checkpoint
  BY DEF TypesInv, TypeOK
<1>2. CASE Stored(c)
  BY <1>2 DEF Stored, Chained
<1>3. CASE Queued(a, c)
  BY <1>3 DEF Queued, Chained
<1>4. CASE Reached(a, c)
  BY <1>1, <1>4, ContinuesItself DEF Reached
<1>5. ASSUME NEW b \in Attempts \ {a}, Queued(b, c) \/ Reached(b, c) PROVE FALSE
  <2>1. pc[b] \notin Alive /\ puts[b] = <<>> /\ Len(<<>>) = 0
    OBVIOUS
  <2>2. \A i \in 1..Len(puts[b]) : FALSE
    BY <2>1
  <2> QED BY <1>5, <2>1, <2>2 DEF Queued, Reached, Alive
<1> QED BY <1>2, <1>3, <1>4, <1>5

\* Only persist_result writes the report.
LEMMA ReportFrame ==
    ASSUME TypesInv, NEW a \in Attempts, Act(a), failures' = 0
    PROVE  IF PersistResult(a)
           THEN /\ pc[a] = "persist" /\ pc'[a] = "publish" /\ UNCHANGED <<draft, graph>>
                /\ runtime'.report = graph[a].by["writer"]
           ELSE runtime'.report = runtime.report
<1> USE DEF store, effects, local, queues, counts
<1>0. /\ pc \in [Attempts -> Pcs] /\ ~Fails
      /\ runtime \in [step : Node \union {"input"}, report : Attempts \union {NoAttempt}]
  BY EffectsKept DEF TypesInv, TypeOK
<1>1. CASE PersistResult(a)
  <2>1. /\ pc[a] = "persist" /\ pc'[a] = "publish" /\ UNCHANGED <<draft, graph>>
    BY <1>0, <1>1 DEF PersistResult, Goto
  <2>2. runtime' = [step |-> "persist_result", report |-> graph[a].by["writer"]]
    BY <1>0, <1>1 DEF PersistResult
  <2> QED BY <1>1, <2>1, <2>2
<1>2. CASE MergeRuntime(a)
  <2>1. runtime' = [runtime EXCEPT !.step = draft[a].last]
    BY <1>0, <1>2 DEF MergeRuntime
  <2>2. runtime'.report = runtime.report
    BY <1>0, <2>1
  <2>3. ~PersistResult(a)
    BY <1>2 DEF PersistResult, MergeRuntime
  <2> QED BY <2>2, <2>3
<1>3. CASE ~PersistResult(a) /\ ~MergeRuntime(a)
  <2>1. CASE Open(a) \/ End(a) \/ Background(a)
    BY <1>3, <2>1 DEF Open, Start, Check, ReadIndex, BeginFromInput, LoadCheckpoint,
          End, Complete, Finish, Abort, Crash,
          Background, PutBlob, PutIndex, PutFails, ReadWrites, SaveWrites, WritesFail
  <2>2. CASE Run(a)
    BY <1>3, <2>2 DEF Run, ApplyLoaded, Execute, Callback, Publish, Record, PersistToolCalls, Save
  <2> QED BY <1>3, <2>1, <2>2 DEF Act
<1> QED BY <1>1, <1>2, <1>3

LEMMA PersistingNext ==
    ASSUME TypesInv, NEW a \in Attempts, Persisting(a), Act(a), ~PersistResult(a),
           runtime'.report = runtime.report
    PROVE  Persisting(a)'
<1> USE DEF store, effects, local, queues, counts
<1>0. pc \in [Attempts -> Pcs] /\ draft \in [Attempts -> Checkpoint]
  BY DEF TypesInv, TypeOK
<1>1. CASE Execute(a)
  <2> DEFINE n == Successor(graph[a])
  <2>1. PICK c \in Outputs(a, n) : draft' = [draft EXCEPT ![a] = c]
    BY <1>1 DEF Execute
  <2>2. draft'[a].last = n
    BY <1>0, <2>1 DEF Outputs
  <2>3. pc'[a] = IF n = "persist_result" THEN "persist"
                 ELSE IF n = "start" THEN "save" ELSE "publish"
    <3>1. CASE n = "start"
      BY <1>0, <1>1, <3>1 DEF Execute, Goto
    <3>2. CASE n = "persist_result"
      BY <1>0, <1>1, <3>2 DEF Execute, Goto
    <3>3. CASE n # "start" /\ n # "persist_result"
      BY <1>0, <1>1, <3>3 DEF Execute, Goto
    <3> QED BY <3>1, <3>2, <3>3
  <2> QED BY <2>2, <2>3 DEF Persisting
<1>2. CASE Callback(a)
  <2>1. /\ UNCHANGED <<draft, graph>> /\ pc[a] \in Executing /\ pc[a] # "persist"
    BY <1>2 DEF Callback, Publish, Record, MergeRuntime, PersistToolCalls, Executing
  <2>2. pc'[a] # "persist"
    BY <1>0, <1>2 DEF Callback, Publish, Record, MergeRuntime, PersistToolCalls, Goto
  <2> QED BY <2>1, <2>2 DEF Persisting
<1>3. CASE Background(a)
  <2>1. UNCHANGED <<pc, draft, graph>>
    BY <1>3 DEF Background, PutBlob, PutIndex, PutFails, ReadWrites, SaveWrites, WritesFail
  <2> QED BY <2>1 DEF Persisting
<1>4. CASE Open(a) \/ ApplyLoaded(a) \/ Save(a) \/ End(a)
  <2>1. \E l \in {"check", "open", "load", "tick", "return", "abort", "returned", "failed"} : Goto(a, l)
    BY <1>4 DEF Open, Start, Check, ReadIndex, BeginFromInput, LoadCheckpoint, ApplyLoaded, Save,
                Step, End, Complete, Finish, Abort, Crash
  <2>2. pc'[a] \notin Executing
    BY <1>0, <2>1 DEF Goto, Executing
  <2> QED BY <2>2 DEF Persisting
<1> QED BY <1>1, <1>2, <1>3, <1>4 DEF Act, Run

LEMMA ReportNext ==
    ASSUME TypesInv, SerialInv, NamesInv, ChainInv, ReportInv, NEW a \in Attempts, Act(a)
    PROVE  ReportInv'
<1> SUFFICES ASSUME overlaps' = 0, failures' = 0
             PROVE  (\A c \in Lineage' : Shows(c)') /\ (\A b \in Attempts : Persisting(b)')
  BY DEF ReportInv, Shows, Told, Id
<1>1. /\ overlaps = 0 /\ failures = 0
      /\ \A b \in Attempts \ {a} : pc'[b] = pc[b] /\ pc[b] \notin Alive /\ puts'[b] = puts[b]
  BY OthersRest, EffectsKept
<1>2. /\ AloneAt(a) /\ Chained(a)
      /\ (\A c \in Lineage : Shows(c)) /\ Persisting(a)
      /\ \A b \in Attempts \ {a} : pc[b] \notin Alive /\ puts[b] = <<>>
  BY <1>1 DEF SerialInv, ChainInv, ReportInv, AloneAt
<1>3. ASSUME NEW b \in Attempts \ {a} PROVE Persisting(b)'
  <2>1. pc'[b] \notin Executing
    BY <1>1 DEF Alive
  <2> QED BY <2>1 DEF Persisting
<1>4. /\ \A c \in Lineage : c \in Made /\ c \in Checkpoint
      /\ Input(a) \in Made /\ graph[a] \in Made /\ graph[a] \in Checkpoint
  <2>1. \A c \in Lineage : c \in Known
    BY DEF Lineage, Stored, Queued, Reached, Known
  <2> QED BY <2>1 DEF Made, Known, TypesInv, TypeOK
<1>5. \A c \in Lineage' : c \in Lineage \/ c = Input(a) \/ MovesTo(a, c)
  BY <1>1, LineageNext
<1>6. CASE PersistResult(a)
  <2>1. /\ pc[a] = "persist" /\ pc'[a] = "publish" /\ UNCHANGED <<draft, graph>>
        /\ runtime'.report = graph[a].by["writer"]
    BY <1>6, ReportFrame
  <2>2. Persisting(a)'
    BY <2>1 DEF Persisting
  <2>3. Successor(graph[a]) = "persist_result"
    BY <1>2, <2>1 DEF Persisting, TypesInv, DraftFollows, Executing
  <2>4. Rank[graph[a].last] < 8
    BY <1>4, <2>3, BeforePersist
  <2>5. ASSUME NEW c \in Lineage', Told(c)' PROVE runtime'.report = c.by["writer"]
    <3>1. ~MovesTo(a, c) /\ ~Save(a)
      BY <2>1 DEF MovesTo, Save
    <3>2. c \in Made /\ Told(c)
      BY <1>4, <1>5, <2>5, <3>1, ToldNext
    <3>3. c \in Lineage
      BY <1>5, <3>1, <3>2, InputUntold
    <3>4. Continues(graph[a], c)
      BY <1>2, <2>1, <3>3, GraphContinuesLineage DEF Executing
    <3>5. c.last # "persist_result"
      BY <1>4, <2>4, <3>3, <3>4, Ranked, RankTable DEF Continues
    <3>6. Successor(c) = "persist_result"
      BY <3>2, <3>5 DEF Told, NamesInv, EntriesContinue
    <3>7. "writer" \in Behind(c) \intersect Author
      BY <1>4, <3>3, <3>6, BeforePersist DEF Author
    <3> QED BY <2>1, <3>4, <3>7 DEF Continues
  <2>6. \A c \in Lineage' : Shows(c)'
    BY <2>5 DEF Shows
  <2> QED BY <1>3, <2>2, <2>6
<1>7. CASE ~PersistResult(a)
  <2>1. runtime'.report = runtime.report
    BY <1>7, ReportFrame
  <2>2. Persisting(a)'
    BY <1>2, <1>7, <2>1, PersistingNext
  <2>3. Save(a) /\ draft[a].last = "persist_result" => runtime.report = graph[a].by["writer"]
    BY <1>2 DEF Save, Persisting, Executing
  <2>4. ASSUME NEW c \in Lineage', Told(c)', c \in Lineage \/ c = Input(a)
        PROVE  runtime'.report = c.by["writer"]
    <3>1. Told(c) \/ (Save(a) /\ c = graph[a] /\ draft[a].last = "persist_result")
      BY <1>4, <2>4, ToldNext
    <3>2. CASE Told(c)
      <4>1. c \in Lineage
        BY <2>4, <3>2, InputUntold
      <4> QED BY <1>2, <2>1, <3>2, <4>1 DEF Shows
    <3>3. CASE Save(a) /\ c = graph[a] /\ draft[a].last = "persist_result"
      BY <2>1, <2>3, <3>3
    <3> QED BY <3>1, <3>2, <3>3
  <2>5. ASSUME NEW c \in Lineage', Told(c)', MovesTo(a, c)
        PROVE  runtime'.report = c.by["writer"]
    <3>1. c.last = "persist_result"
      <4> SUFFICES ASSUME c.last # "persist_result" PROVE FALSE
        OBVIOUS
      <4>1. PICK w \in Entries' : w.task[1] = Id(c)
        BY <2>5 DEF Told, Id
      <4>2. w \in Entries \/ w.task[1] = Id(graph[a])
        BY EntriesNext DEF TypesInv, NewEntry
      <4> QED BY <1>4, <2>5, <4>1, <4>2, NewName
    <3>2. c = graph'[a] /\ (Save(a) \/ ApplyLoaded(a)) /\ c.last = Successor(graph[a])
      BY <2>5 DEF MovesTo
    <3>3. "writer" \in Behind(graph[a]) \intersect Author
      BY <1>4, <3>1, <3>2, BeforePersist DEF Author
    <3>4. CASE Save(a)
      <4>1. c = draft[a] /\ pc[a] \in Executing
        BY <3>2, <3>4, MadeNext DEF Save, Executing
      <4>2. draft[a].last \notin Author
        BY <3>1, <4>1 DEF Author, OptionalRole
      <4>3. draft[a].by = graph[a].by
        BY <4>1, <4>2 DEF TypesInv, DraftFollows
      <4> QED BY <2>1, <2>3, <3>1, <3>4, <4>1, <4>3
    <3>5. CASE ApplyLoaded(a)
      <4>1. PICK w \in Entries : /\ w.task = <<Id(graph[a]), Successor(graph[a])>>
                                 /\ graph'[a] = [w.out EXCEPT !.run = a]
        BY <3>5, MadeNext
      <4>2. w.out \in Checkpoint /\ w.task[1] = Id(graph[a])
        BY <4>1 DEF Entries, Entry
      <4>3. c.last = w.out.last /\ c.by = w.out.by
        BY <3>2, <4>1, <4>2 DEF Checkpoint
      <4>4. Told(graph[a])
        BY <3>1, <4>2, <4>3 DEF Told
      <4>5. graph[a] \in Lineage
        BY <1>4, <3>5 DEF ApplyLoaded, Lineage, Reached
      <4>6. runtime.report = graph[a].by["writer"]
        BY <1>2, <4>4, <4>5 DEF Shows
      <4>7. Continues(w.out, graph[a])
        BY <1>4, <4>2 DEF NamesInv, EntriesContinue
      <4> QED BY <2>1, <3>3, <4>3, <4>6, <4>7 DEF Continues
    <3> QED BY <3>2, <3>4, <3>5
  <2>6. \A c \in Lineage' : Shows(c)'
    BY <1>5, <2>4, <2>5 DEF Shows
  <2> QED BY <1>3, <2>2, <2>6
<1> QED BY <1>6, <1>7

\* What attempts that do not overlap store, return and show is one chain of
\* checkpoints: each continues the one before, the last is the report that is
\* returned, and the report on display is that of the chain.
THEOREM ChainInvariant == Spec => [](SerialInv /\ NamesInv /\ ChainInv /\ AnswerInv /\ ReportInv)
<1> DEFINE All == SerialInv /\ NamesInv /\ ChainInv /\ AnswerInv /\ ReportInv
<1>1. Init => All
  BY SerialInit, NamesInit, ChainInit, AnswerInit, ReportInit
<1>2. TypesInv /\ All /\ [Next]_vars => All'
  <2>1. ASSUME All, UNCHANGED vars PROVE All'
    <3>1. NamesInv'
      BY <2>1, NamesStutter
    <3> USE <2>1 DEF vars, store, effects, local, queues, counts
    <3>2. SerialInv' /\ ChainInv'
      BY DEF SerialInv, AloneAt, Ahead, ChainInv, Chained
    <3>3. AnswerInv'
      BY DEF AnswerInv, LastStored, Trailing, Settled, Successor
    <3>4. ReportInv'
      <4>1. Entries' = Entries
        BY DEF Entries
      <4>2. Lineage' = Lineage
        BY DEF Lineage, Stored, Queued, Reached
      <4> QED BY <4>1, <4>2 DEF ReportInv, Shows, Told, Persisting
    <3> QED BY <3>1, <3>2, <3>3, <3>4
  <2>2. ASSUME TypesInv, All, NEW a \in Attempts, Act(a) PROVE All'
    <3>1. ChainInv'
      BY <2>2, ChainNext DEF ChainInv
    <3> QED BY <2>2, <3>1, SerialNext, NamesNext, AnswerNext, ReportNext
  <2> QED BY <2>1, <2>2 DEF Next, Act
<1> QED BY <1>1, <1>2, CheckpointInvariant, PTL DEF Spec

\* Progress is never undone: attempts that do not overlap never let the index
\* name a checkpoint that lost a node, or an output, the last one had.
THEOREM ProgressIsAlwaysKept == Spec => ProgressIsKept
<1> DEFINE Keeps == overlaps' = 0 /\ index \in DOMAIN blob =>
                      LET old == blob[index] new == blob'[index'] IN
                        /\ Rank[old.last] <= Rank[new.last]
                        /\ \A n \in Behind(old) \intersect Author : new.by[n] = old.by[n]
<1>1. TypesInv /\ SerialInv /\ NamesInv /\ ChainInv /\ [Next]_vars => [Keeps]_<<blob, index>>
  <2> SUFFICES ASSUME TypesInv, SerialInv, NamesInv, ChainInv, NEW a \in Attempts, Act(a),
                      overlaps' = 0, index \in DOMAIN blob
               PROVE  LET old == blob[index] new == blob'[index'] IN
                        /\ Rank[old.last] <= Rank[new.last]
                        /\ \A n \in Behind(old) \intersect Author : new.by[n] = old.by[n]
    BY DEF Next, Act, vars, store
  <2>1. Continues(blob'[index'], blob[index])
    BY ChainNext
  <2> QED BY <2>1 DEF Continues
<1>2. [][Keeps]_<<blob, index>> => ProgressIsKept
  BY DEF ProgressIsKept
<1> HIDE DEF Keeps
<1> QED BY <1>1, <1>2, CheckpointInvariant, ChainInvariant, PTL DEF Spec

\* Attempts that do not overlap return the same report, whoever is asked again,
\* and while no call fails it is the one the runtime state shows.
THEOREM AnswersAlwaysAgree == Spec => []AnswersAgree
<1>1. TypesInv /\ AnswerInv /\ ReportInv => AnswersAgree
  <2> SUFFICES ASSUME TypesInv, AnswerInv, ReportInv,
                      NEW a \in Attempts, overlaps = 0, pc[a] = "returned"
               PROVE  /\ index \in DOMAIN blob
                      /\ [blob[index] EXCEPT !.run = a] = [graph[a] EXCEPT !.run = a]
                      /\ failures = 0 => runtime.report = graph[a].by["writer"]
    BY DEF AnswersAgree
  <2>1. index \in DOMAIN blob /\ blob[index] = graph[a] /\ Successor(graph[a]) = "end"
    BY DEF AnswerInv, Settled
  <2>2. graph[a] \in Checkpoint /\ graph[a].last = "persist_result"
    BY <2>1, EndIsLast DEF TypesInv, TypeOK
  <2>3. graph[a] \in Lineage /\ Told(graph[a])
    BY <2>1, <2>2 DEF Lineage, Stored, Told
  <2>4. failures = 0 => runtime.report = graph[a].by["writer"]
    BY <2>3 DEF ReportInv, Shows
  <2> QED BY <2>1, <2>4
<1> QED BY <1>1, CheckpointInvariant, ChainInvariant, PTL
==============================================================================
