------------------------- MODULE RoleAttemptProofs --------------------------
(***************************************************************************)
(* Proofs about RoleAttempt, for any tools, allowlist and limits.          *)
(***************************************************************************)
EXTENDS RoleAttempt, TLAPS, SequenceTheorems, FiniteSetTheorems

-----------------------------------------------------------------------------
\* Messages and conversations

LEMMA EmptyCalls == <<>> \in Calls
<1>1. <<>> \in Seq(Tool) /\ Len(<<>>) = 0
  OBVIOUS
<1>2. <<>> \in [1..0 -> Tool]
  BY <1>1, LenProperties
<1>3. 0 \in 0..MaxCalls
  BY RoleAssumption
<1> QED BY <1>2, <1>3 DEF Calls

LEMMA CallsAreSequences == \A c \in Calls : c \in Seq(Tool)
<1> SUFFICES ASSUME NEW n \in 0..MaxCalls, NEW c \in [1..n -> Tool] PROVE c \in Seq(Tool)
  BY DEF Calls
<1> QED BY RoleAssumption, IsASeq

LEMMA MessageFacts ==
    /\ \A m \in Message : m.calls \in Seq(Tool)
    /\ \A c \in Calls : Say("assistant", c) \in Message
    /\ \A t \in Tool : Say("tool", <<t>>) \in Message
    /\ Say("prompt", <<>>) \in Message
    /\ \A k, c : Say(k, c).kind = k /\ Say(k, c).calls = c
BY EmptyCalls, CallsAreSequences DEF Message, Say

\* The i-th message of s is no answer of the model, or each of its calls has
\* its tool message.
Closed(s, i) ==
    s[i].kind = "assistant" =>
        LET n == Len(s[i].calls) IN
          /\ i + n <= Len(s)
          /\ \A j \in 1..n : s[i + j] = Say("tool", <<s[i].calls[j]>>)
          /\ i + n < Len(s) => s[i + n + 1].kind # "tool"

\* The k-th message of s is the answer whose last calls, rest, are still to be
\* looked at.
OpenAt(s, rest, k) ==
    /\ s[k].kind = "assistant"
    /\ k + Len(s[k].calls) = Len(s) + Len(rest)
    /\ \A j \in 1..(Len(s) - k) : s[k + j] = Say("tool", <<s[k].calls[j]>>)
    /\ \A j \in 1..Len(rest) : rest[j] = s[k].calls[Len(s) - k + j]

\* A closed message stays closed when one that is not a tool's is appended.
LEMMA ClosedStays ==
    ASSUME NEW s \in Seq(Message), NEW m \in Message, m.kind # "tool",
           NEW i \in 1..Len(s), Closed(s, i)
    PROVE  Closed(Append(s, m), i)
<1> DEFINE t == Append(s, m)
<1>1. /\ t \in Seq(Message) /\ Len(t) = Len(s) + 1
      /\ \A k \in 1..Len(s) : t[k] = s[k]
      /\ t[Len(s) + 1] = m
  BY AppendProperties
<1>2. s[i].calls \in Seq(Tool)
  BY MessageFacts, ElementOfSeq
<1> HIDE DEF t
<1>3. Closed(t, i)
  <2> SUFFICES ASSUME t[i].kind = "assistant"
               PROVE  LET n == Len(t[i].calls) IN
                        /\ i + n <= Len(t)
                        /\ \A j \in 1..n : t[i + j] = Say("tool", <<t[i].calls[j]>>)
                        /\ i + n < Len(t) => t[i + n + 1].kind # "tool"
    BY DEF Closed
  <2> DEFINE n == Len(s[i].calls)
  <2>1. t[i] = s[i] /\ n \in Nat /\ Len(s) \in Nat
    BY <1>1, <1>2
  <2>2. /\ i + n <= Len(s)
        /\ \A j \in 1..n : s[i + j] = Say("tool", <<s[i].calls[j]>>)
        /\ i + n < Len(s) => s[i + n + 1].kind # "tool"
    BY <2>1 DEF Closed
  <2> HIDE DEF n
  <2>3. \A j \in 1..n : i + j \in 1..Len(s) /\ t[i + j] = s[i + j]
    BY <2>1, <2>2, <1>1
  <2>4. t[i + n + 1].kind # "tool"
    <3>1. CASE i + n < Len(s)
      <4>1. i + n + 1 \in 1..Len(s)
        BY <3>1, <2>1
      <4>2. t[i + n + 1] = s[i + n + 1]
        BY <4>1, <1>1
      <4> QED BY <4>2, <3>1, <2>2
    <3>2. CASE i + n = Len(s)
      BY <3>2, <1>1
    <3> QED BY <3>1, <3>2, <2>1, <2>2
  <2>5. i + n <= Len(t)
    BY <2>1, <2>2, <1>1
  <2>6. \A j \in 1..n : t[i + j] = Say("tool", <<t[i].calls[j]>>)
    BY <2>1, <2>2, <2>3
  <2> QED BY <2>1, <2>4, <2>5, <2>6 DEF n
<1> QED BY <1>3 DEF t

\* One of an open answer's calls gets its tool message.
LEMMA OpenGrows ==
    ASSUME NEW s \in Seq(Message), NEW rest \in Seq(Tool), rest # <<>>,
           NEW k \in 1..Len(s), OpenAt(s, rest, k), \A i \in 1..(k - 1) : Closed(s, i)
    PROVE  LET t == Append(s, Say("tool", <<Head(rest)>>)) IN
             OpenAt(t, Tail(rest), k) /\ \A i \in 1..(k - 1) : Closed(t, i)
<1> DEFINE m == Say("tool", <<Head(rest)>>)
           t == Append(s, m)
<1>1. Head(rest) \in Tool /\ Head(rest) = rest[1] /\ m \in Message
  BY MessageFacts
<1>2. /\ Tail(rest) \in Seq(Tool) /\ Len(Tail(rest)) = Len(rest) - 1
      /\ \A j \in 1..Len(Tail(rest)) : Tail(rest)[j] = rest[j + 1]
      /\ Len(rest) \in Nat \ {0}
  BY HeadTailProperties
<1>3. /\ t \in Seq(Message) /\ Len(t) = Len(s) + 1
      /\ \A j \in 1..Len(s) : t[j] = s[j]
      /\ t[Len(s) + 1] = m
  BY <1>1, AppendProperties
<1>4. \A i \in 1..Len(s) : s[i].calls \in Seq(Tool) /\ Len(s[i].calls) \in Nat
  BY MessageFacts, ElementOfSeq
<1> DEFINE rest2 == Tail(rest)
<1> HIDE DEF t, rest2, m
<1>5. OpenAt(t, rest2, k)
  <2>1. t[k] = s[k] /\ Len(s[k].calls) \in Nat /\ Len(s) \in Nat
    BY <1>3, <1>4
  <2>2. \A j \in 1..(Len(t) - k) : t[k + j] = Say("tool", <<t[k].calls[j]>>)
    <3> SUFFICES ASSUME NEW j \in 1..(Len(t) - k)
                 PROVE  t[k + j] = Say("tool", <<t[k].calls[j]>>)
      OBVIOUS
    <3>1. CASE j \in 1..(Len(s) - k)
      <4>1. s[k + j] = Say("tool", <<s[k].calls[j]>>)
        BY <3>1 DEF OpenAt
      <4>2. k + j \in 1..Len(s)
        BY <3>1
      <4> QED BY <4>1, <4>2, <2>1, <1>3
    <3>2. CASE j = Len(s) - k + 1
      <4>1. rest[1] = s[k].calls[Len(s) - k + 1]
        BY <1>2 DEF OpenAt
      <4>2. k + j = Len(s) + 1
        BY <3>2
      <4> QED BY <4>1, <4>2, <3>2, <2>1, <1>1, <1>3 DEF m
    <3>3. j \in 1..(Len(s) - k) \/ j = Len(s) - k + 1
      BY <2>1, <1>3
    <3> QED BY <3>1, <3>2, <3>3
  <2>3. \A j \in 1..Len(rest2) : rest2[j] = t[k].calls[Len(t) - k + j]
    <3> SUFFICES ASSUME NEW j \in 1..Len(rest2)
                 PROVE  rest2[j] = t[k].calls[Len(t) - k + j]
      OBVIOUS
    <3>1. rest2[j] = rest[j + 1] /\ j + 1 \in 1..Len(rest)
      BY <1>2 DEF rest2
    <3>2. rest[j + 1] = s[k].calls[Len(s) - k + (j + 1)]
      BY <3>1 DEF OpenAt
    <3>3. Len(s) - k + (j + 1) = Len(t) - k + j
      BY <1>3, <1>2 DEF rest2
    <3> QED BY <3>1, <3>2, <3>3, <2>1
  <2>4. k + Len(t[k].calls) = Len(t) + Len(rest2)
    <3>1. k + Len(s[k].calls) = Len(s) + Len(rest)
      BY DEF OpenAt
    <3>2. Len(rest2) = Len(rest) - 1
      BY <1>2 DEF rest2
    <3>3. Len(t[k].calls) = Len(s[k].calls)
      BY <2>1
    <3>4. Len(rest) \in Nat /\ Len(t) = Len(s) + 1
      BY <1>2, <1>3
    <3> HIDE DEF OpenAt
    <3> QED BY <3>1, <3>2, <3>3, <3>4, <2>1
  <2> QED BY <2>1, <2>2, <2>3, <2>4 DEF OpenAt
<1>6. ASSUME NEW i \in 1..(k - 1) PROVE Closed(t, i)
  <2> SUFFICES ASSUME t[i].kind = "assistant"
               PROVE  LET n == Len(t[i].calls) IN
                        /\ i + n <= Len(t)
                        /\ \A j \in 1..n : t[i + j] = Say("tool", <<t[i].calls[j]>>)
                        /\ i + n < Len(t) => t[i + n + 1].kind # "tool"
    BY DEF Closed
  <2> DEFINE n == Len(s[i].calls)
  <2>1. t[i] = s[i] /\ n \in Nat
    BY <1>3, <1>4
  <2>2. /\ i + n <= Len(s)
        /\ \A j \in 1..n : s[i + j] = Say("tool", <<s[i].calls[j]>>)
        /\ i + n < Len(s) => s[i + n + 1].kind # "tool"
    BY <2>1 DEF Closed
  <2> HIDE DEF n
  \* The open answer is not among the tool messages of an earlier one.
  <2>3. i + n < k
    <3> SUFFICES ASSUME i + n >= k PROVE FALSE
      BY <2>1
    <3>1. k - i \in 1..n /\ i + (k - i) = k
      BY <2>1
    <3>2. s[k].kind = "tool"
      BY <3>1, <2>2, MessageFacts
    <3> QED BY <3>2 DEF OpenAt
  <2>4. \A j \in 1..(n + 1) : t[i + j] = s[i + j]
    <3> SUFFICES ASSUME NEW j \in 1..(n + 1) PROVE t[i + j] = s[i + j]
      OBVIOUS
    <3>1. i + j \in 1..Len(s)
      BY <2>1, <2>3
    <3> QED BY <3>1, <1>3
  <2>5. t[i + n + 1].kind # "tool"
    <3>1. n + 1 \in 1..(n + 1) /\ i + (n + 1) = i + n + 1 /\ i + n < Len(s)
      BY <2>1, <2>3
    <3> QED BY <3>1, <2>2, <2>4
  <2>6. i + n <= Len(t)
    BY <2>1, <2>2, <1>3
  <2>7. \A j \in 1..n : t[i + j] = Say("tool", <<t[i].calls[j]>>)
    <3> SUFFICES ASSUME NEW j \in 1..n PROVE t[i + j] = Say("tool", <<t[i].calls[j]>>)
      OBVIOUS
    <3>1. j \in 1..(n + 1)
      BY <2>1
    <3> QED BY <3>1, <2>1, <2>2, <2>4
  <2> QED BY <2>1, <2>5, <2>6, <2>7 DEF n
<1> QED BY <1>5, <1>6 DEF t, rest2, m

\* When no call is left, every answer is closed.
LEMMA OpenCloses ==
    ASSUME NEW s \in Seq(Message), NEW k \in 1..Len(s), OpenAt(s, <<>>, k),
           \A i \in 1..(k - 1) : Closed(s, i)
    PROVE  \A i \in 1..Len(s) : Closed(s, i)
<1> SUFFICES ASSUME NEW i \in k..Len(s) PROVE Closed(s, i)
  OBVIOUS
<1>1. Len(s[k].calls) \in Nat
  BY MessageFacts, ElementOfSeq
<1>2. k + Len(s[k].calls) = Len(s) /\ Len(s) \in Nat
  BY <1>1 DEF OpenAt
<1>3. CASE i = k
  BY <1>1, <1>2, <1>3 DEF OpenAt, Closed
<1>4. CASE i # k
  <2>1. i - k \in 1..(Len(s) - k) /\ k + (i - k) = i
    BY <1>4
  <2>2. s[i].kind = "tool"
    <3>1. s[k + (i - k)] = Say("tool", <<s[k].calls[i - k]>>)
      BY <2>1 DEF OpenAt
    <3> QED BY <3>1, <2>1, MessageFacts
  <2> QED BY <2>2 DEF Closed
<1> QED BY <1>3, <1>4

-----------------------------------------------------------------------------
\* Records and tool messages

ToolsIn(s, i) == {k \in 1..i : s[k].kind = "tool"}

\* The n-th record is of the n-th tool message of s.
RecordsMatch(s, r) ==
    /\ Len(r) = Cardinality(ToolsIn(s, Len(s)))
    /\ \A i \in ToolsIn(s, Len(s)) : s[i].calls = <<r[Cardinality(ToolsIn(s, i))].tool>>

LEMMA ToolsInFinite ==
    ASSUME NEW s \in Seq(Message), NEW i \in 0..Len(s)
    PROVE  IsFiniteSet(ToolsIn(s, i)) /\ Cardinality(ToolsIn(s, i)) \in Nat
<1>1. IsFiniteSet(1..i)
  BY FS_Interval
<1>2. IsFiniteSet(ToolsIn(s, i))
  BY <1>1, FS_Subset DEF ToolsIn
<1> QED BY <1>2, FS_CardinalityType

\* A tool message is counted among those up to it.
LEMMA ToolsInCounts ==
    ASSUME NEW s \in Seq(Message), NEW i \in ToolsIn(s, Len(s))
    PROVE  Cardinality(ToolsIn(s, i)) \in 1..Cardinality(ToolsIn(s, Len(s)))
<1>1. i \in 1..Len(s) /\ Len(s) \in Nat /\ i \in ToolsIn(s, i)
  BY DEF ToolsIn
<1>2. ToolsIn(s, i) \subseteq ToolsIn(s, Len(s))
  BY <1>1 DEF ToolsIn
<1>3. IsFiniteSet(ToolsIn(s, i)) /\ Cardinality(ToolsIn(s, i)) \in Nat
  BY <1>1, ToolsInFinite
<1>4. IsFiniteSet(ToolsIn(s, Len(s))) /\ Cardinality(ToolsIn(s, Len(s))) \in Nat
  BY <1>1, ToolsInFinite
<1>5. Cardinality(ToolsIn(s, i)) <= Cardinality(ToolsIn(s, Len(s)))
  BY <1>2, <1>4, FS_Subset
<1>6. Cardinality(ToolsIn(s, i)) # 0
  BY <1>1, <1>3, FS_EmptySet
<1> QED BY <1>3, <1>4, <1>5, <1>6

LEMMA ToolsInAppend ==
    ASSUME NEW s \in Seq(Message), NEW m \in Message
    PROVE  /\ \A i \in 1..Len(s) : ToolsIn(Append(s, m), i) = ToolsIn(s, i)
           /\ ToolsIn(Append(s, m), Len(s) + 1) =
                IF m.kind = "tool" THEN ToolsIn(s, Len(s)) \union {Len(s) + 1}
                ELSE ToolsIn(s, Len(s))
           /\ Len(Append(s, m)) = Len(s) + 1
<1> DEFINE t == Append(s, m)
<1>1. /\ Len(t) = Len(s) + 1 /\ Len(s) \in Nat
      /\ \A k \in 1..Len(s) : t[k] = s[k]
      /\ t[Len(s) + 1] = m
  BY AppendProperties
<1> HIDE DEF t
<1>2. ASSUME NEW i \in 1..Len(s) PROVE ToolsIn(t, i) = ToolsIn(s, i)
  <2>1. \A k \in 1..i : k \in 1..Len(s)
    BY <1>1
  <2> QED BY <2>1, <1>1 DEF ToolsIn
<1>3. 1..(Len(s) + 1) = (1..Len(s)) \union {Len(s) + 1}
  BY <1>1
<1>4. ToolsIn(t, Len(s) + 1) =
        IF m.kind = "tool" THEN ToolsIn(s, Len(s)) \union {Len(s) + 1} ELSE ToolsIn(s, Len(s))
  BY <1>1, <1>3 DEF ToolsIn
<1> QED BY <1>1, <1>2, <1>4 DEF t

LEMMA RecordsStay ==
    ASSUME NEW s \in Seq(Message), NEW m \in Message, m.kind # "tool",
           NEW r \in Seq(Record), RecordsMatch(s, r)
    PROVE  RecordsMatch(Append(s, m), r)
<1> DEFINE t == Append(s, m)
<1>1. /\ ToolsIn(t, Len(t)) = ToolsIn(s, Len(s))
      /\ \A i \in 1..Len(s) : ToolsIn(t, i) = ToolsIn(s, i)
  BY ToolsInAppend
<1>2. \A i \in 1..Len(s) : t[i] = s[i]
  BY AppendProperties
<1>3. \A i \in ToolsIn(s, Len(s)) : i \in 1..Len(s)
  BY DEF ToolsIn
<1> HIDE DEF t
<1>4. RecordsMatch(t, r)
  BY <1>1, <1>2, <1>3 DEF RecordsMatch
<1> QED BY <1>4 DEF t

\* The call that is answered is recorded.
LEMMA RecordsGrow ==
    ASSUME NEW s \in Seq(Message), NEW x \in Record,
           NEW r \in Seq(Record), RecordsMatch(s, r)
    PROVE  RecordsMatch(Append(s, Say("tool", <<x.tool>>)), Append(r, x))
<1> DEFINE m == Say("tool", <<x.tool>>)
           t == Append(s, m)
           q == Append(r, x)
<1>1. m \in Message /\ m.kind = "tool" /\ m.calls = <<x.tool>>
  BY MessageFacts DEF Record
<1> HIDE DEF m
<1>2. /\ ToolsIn(t, Len(t)) = ToolsIn(s, Len(s)) \union {Len(s) + 1}
      /\ \A i \in 1..Len(s) : ToolsIn(t, i) = ToolsIn(s, i)
      /\ Len(t) = Len(s) + 1 /\ Len(s) \in Nat
  <2>1. /\ \A i \in 1..Len(s) : ToolsIn(t, i) = ToolsIn(s, i)
        /\ Len(t) = Len(s) + 1
    BY <1>1, ToolsInAppend
  <2>3. Len(s) \in Nat
    OBVIOUS
  <2>2. ToolsIn(t, Len(s) + 1) = ToolsIn(s, Len(s)) \union {Len(s) + 1}
    BY <1>1, ToolsInAppend
  <2> HIDE DEF t
  <2> QED BY <2>1, <2>2, <2>3
<1>3. (\A i \in 1..Len(s) : t[i] = s[i]) /\ t[Len(s) + 1] = m
  BY <1>1, AppendProperties
<1>4. /\ Len(q) = Len(r) + 1 /\ Len(r) \in Nat
      /\ \A i \in 1..Len(r) : q[i] = r[i]
      /\ q[Len(r) + 1] = x
  BY AppendProperties
<1>5. IsFiniteSet(ToolsIn(s, Len(s))) /\ Len(s) + 1 \notin ToolsIn(s, Len(s))
  BY <1>2, ToolsInFinite DEF ToolsIn
<1>6. Cardinality(ToolsIn(t, Len(t))) = Len(r) + 1
  BY <1>2, <1>5, FS_AddElement DEF RecordsMatch
<1> HIDE DEF t, q
<1>7. ASSUME NEW i \in ToolsIn(t, Len(t))
      PROVE  t[i].calls = <<q[Cardinality(ToolsIn(t, i))].tool>>
  <2>1. CASE i = Len(s) + 1
    BY <2>1, <1>1, <1>2, <1>3, <1>4, <1>6
  <2>2. CASE i \in ToolsIn(s, Len(s))
    <3>1. i \in 1..Len(s)
      BY <2>2 DEF ToolsIn
    <3>2. Cardinality(ToolsIn(s, i)) \in 1..Len(r)
      BY <2>2, ToolsInCounts DEF RecordsMatch
    <3>3. s[i].calls = <<r[Cardinality(ToolsIn(s, i))].tool>>
      BY <2>2 DEF RecordsMatch
    <3> QED BY <3>1, <3>2, <3>3, <1>2, <1>3, <1>4
  <2> QED BY <2>1, <2>2, <1>2
<1>8. RecordsMatch(t, q)
  BY <1>4, <1>6, <1>7 DEF RecordsMatch
<1> QED BY <1>8 DEF t, q, m

-----------------------------------------------------------------------------
\* The control of the attempt

Budget(k) == k * MaxTries

\* A request is under way only where the coroutine awaits one.
AsksInPlace == request > 0 => pc \in {"chat", "last", "structured"}

\* Discovery alone swallows a cancellation: a Crew follows, or the first and
\* only request of the coroutine, with its tries.
SwallowedInPlace ==
    swallowed => /\ late
                 /\ pc \in {"crew", "structured", "returned", "failed"}
                 /\ pc = "structured" => sent = request

\* Requests sent so far: MaxTries for each place the coroutine has left.
WithinBudget ==
    /\ pc \in {"discover", "open", "resolve"} => sent = 0 /\ round = 0
    /\ pc = "chat" => round < MaxRounds /\ sent <= Budget(round) + request
    /\ pc = "tools" => round < MaxRounds /\ sent <= Budget(round + 1)
    /\ pc = "last" => sent <= Budget(MaxRounds) + request
    /\ pc = "structured" => sent <= Budget(MaxRounds + 1) + request

ControlInv == TypeOK /\ AsksInPlace /\ SwallowedInPlace /\ WithinBudget

LEMMA BudgetFacts ==
    /\ \A k \in Nat : Budget(k) \in Nat /\ Budget(k + 1) = Budget(k) + MaxTries
    /\ \A k, l \in Nat : k <= l => Budget(k) <= Budget(l)
<1>1. MaxTries \in Nat
  BY RoleAssumption
<1>2. ASSUME NEW k \in Nat PROVE Budget(k) \in Nat /\ Budget(k + 1) = Budget(k) + MaxTries
  BY <1>1 DEF Budget
<1>3. ASSUME NEW k \in Nat, NEW l \in Nat, k <= l PROVE Budget(k) <= Budget(l)
  <2>1. /\ l - k \in Nat /\ (l - k) * MaxTries >= 0
        /\ l * MaxTries = k * MaxTries + (l - k) * MaxTries
    BY <1>1, <1>3
  <2> QED BY <2>1, <1>1 DEF Budget
<1> QED BY <1>2, <1>3

\* Whatever is sent from one of the places fits TypeOK's bound.
LEMMA SentFits ==
    ASSUME NEW k \in 0..(MaxRounds + 1), NEW q \in 0..MaxTries,
           NEW n \in Nat, n <= Budget(k) + q
    PROVE  n \in 0..(MaxRounds + 2) * MaxTries
<1>1. MaxRounds \in Nat /\ MaxTries \in Nat
  BY RoleAssumption
<1>2. Budget(k) <= Budget(MaxRounds + 1) /\ Budget(k) \in Nat
  BY <1>1, BudgetFacts
<1>3. Budget(MaxRounds + 2) = Budget(MaxRounds + 1) + MaxTries /\ Budget(MaxRounds + 1) \in Nat
  <2>1. MaxRounds + 1 \in Nat /\ (MaxRounds + 1) + 1 = MaxRounds + 2
    BY <1>1
  <2> QED BY <2>1, BudgetFacts
<1>4. n <= Budget(MaxRounds + 2)
  BY <1>1, <1>2, <1>3
<1>5. (MaxRounds + 2) * MaxTries \in Nat
  BY <1>1
<1> QED BY <1>4, <1>5 DEF Budget

-----------------------------------------------------------------------------
LEMMA ControlInit == Init => ControlInv
<1> SUFFICES ASSUME Init PROVE ControlInv
  OBVIOUS
<1> USE DEF Init
<1>1. conv \in Seq(Message) /\ pending \in Seq(Tool) /\ records \in Seq(Record)
  BY MessageFacts
<1>2. MaxTries \in Nat /\ MaxRounds \in Nat /\ MaxCrewCalls \in Nat /\ 0 \in 0..MaxTries
  BY RoleAssumption
<1>3. sent \in 0..(MaxRounds + 2) * MaxTries
  <2>1. 0 <= Budget(0) + 0 /\ 0 \in 0..(MaxRounds + 1)
    BY <1>2, BudgetFacts
  <2> QED BY <2>1, <1>2, SentFits
<1>4. bridge \in [1..MaxCrewCalls -> [where : {"none", "shared", "own", "over"}, try : 0..MaxTries]]
  BY <1>2
<1>5. /\ round \in 0..MaxRounds /\ request \in 0..MaxTries /\ crewCalls \in 0..MaxCrewCalls
      /\ tools \subseteq Tool /\ executed \subseteq Tool
  <2>1. 0 \in 0..MaxRounds /\ 0 \in 0..MaxCrewCalls
    BY <1>2
  <2> QED BY <1>2, <2>1
<1>6. TypeOK
  BY <1>1, <1>3, <1>4, <1>5 DEF TypeOK
<1> QED BY <1>6 DEF ControlInv, AsksInPlace, SwallowedInPlace, WithinBudget

\* What asking costs, from each place that can.
LEMMA AskKeepsBudget ==
    ASSUME ControlInv, NEW p \in {"chat", "last", "structured"}, Ask(p), round' \in 0..MaxRounds,
           \/ pc \in {"discover", "open", "resolve"} /\ round' = round
           \/ pc = "chat" /\ p = "structured" /\ round' = round
           \/ pc = "tools" /\ round' = round + 1 /\ (p = "chat" => round' < MaxRounds) /\ p # "structured"
           \/ pc = "last" /\ p = "structured" /\ round' = round
    PROVE  /\ sent' \in 0..(MaxRounds + 2) * MaxTries /\ request' \in 0..MaxTries
           /\ AsksInPlace' /\ WithinBudget' /\ pc' = p
<1>1. /\ MaxRounds \in Nat \ {0} /\ MaxTries \in Nat \ {0}
      /\ round \in 0..MaxRounds /\ request \in 0..MaxTries /\ sent \in Nat
  BY RoleAssumption DEF ControlInv, TypeOK
<1>2. /\ request' = 1 /\ sent' = sent + 1 /\ pc' = p
  BY DEF Ask
<1>3. /\ Budget(round) \in Nat /\ Budget(round + 1) = Budget(round) + MaxTries
      /\ Budget(round') \in Nat
      /\ Budget(MaxRounds) \in Nat /\ Budget(MaxRounds + 1) = Budget(MaxRounds) + MaxTries
      /\ Budget(round') <= Budget(MaxRounds)
      /\ round + 1 <= MaxRounds => Budget(round + 1) <= Budget(MaxRounds)
  <2>1. round \in Nat /\ round' \in Nat /\ round + 1 \in Nat /\ MaxRounds \in Nat
    BY <1>1
  <2> QED BY <2>1, BudgetFacts
<1>4. WithinBudget'
  <2>1. CASE pc \in {"discover", "open", "resolve"} /\ round' = round
    BY <2>1, <1>1, <1>2, <1>3 DEF ControlInv, WithinBudget
  <2>2. CASE pc = "chat" /\ p = "structured" /\ round' = round
    BY <2>2, <1>1, <1>2, <1>3 DEF ControlInv, WithinBudget
  <2>3. CASE pc = "tools" /\ round' = round + 1 /\ (p = "chat" => round' < MaxRounds) /\ p # "structured"
    BY <2>3, <1>1, <1>2, <1>3 DEF ControlInv, WithinBudget
  <2>4. CASE pc = "last" /\ p = "structured" /\ round' = round
    BY <2>4, <1>1, <1>2, <1>3 DEF ControlInv, WithinBudget
  <2> QED BY <2>1, <2>2, <2>3, <2>4
<1>5. sent' \in 0..(MaxRounds + 2) * MaxTries
  <2>1. sent' \in Nat /\ request' \in 0..MaxTries
    BY <1>1, <1>2
  <2>2. \E k \in 0..(MaxRounds + 1) : sent' <= Budget(k) + request'
    <3>1. CASE p = "chat"
      BY <3>1, <1>2, <1>4, <1>1 DEF WithinBudget
    <3>2. CASE p = "last"
      BY <3>2, <1>2, <1>4, <1>1 DEF WithinBudget
    <3>3. CASE p = "structured"
      BY <3>3, <1>2, <1>4, <1>1 DEF WithinBudget
    <3> QED BY <3>1, <3>2, <3>3
  <2> QED BY <2>1, <2>2, SentFits
<1> QED BY <1>1, <1>2, <1>4, <1>5 DEF AsksInPlace

LEMMA LoopTypes ==
    ASSUME TypeOK, [Next]_vars
    PROVE  /\ tools' \subseteq Tool /\ executed' \subseteq Tool
           /\ conv' \in Seq(Message) /\ pending' \in Seq(Tool) /\ records' \in Seq(Record)
           /\ engine' \in {"crewai", "langgraph"}
<1> USE DEF loopVars, llmVars, cutVars, crewVars
<1>0. /\ tools \subseteq Tool /\ executed \subseteq Tool
      /\ conv \in Seq(Message) /\ pending \in Seq(Tool) /\ records \in Seq(Record)
      /\ engine \in {"crewai", "langgraph"}
  BY DEF TypeOK
<1>1. CASE Discover \/ Resolve
  BY <1>0, <1>1 DEF Discover, NoTools, StartCrew, Ask, Resolve, Allowed
<1>2. CASE ChatEnds \/ LastAnswer
  <2>1. /\ Append(conv, Say("assistant", <<>>)) \in Seq(Message)
        /\ <<Say("prompt", <<>>)>> \in Seq(Message)
    BY <1>0, MessageFacts, EmptyCalls
  <2>2. Append(conv, Say("assistant", <<>>)) \o <<Say("prompt", <<>>)>> \in Seq(Message)
    BY <2>1, ConcatProperties
  <2> QED BY <1>0, <1>2, <2>2 DEF ChatEnds, LastAnswer
<1>3. CASE ChatAsksForTools
  <2>1. PICK calls \in Calls : conv' = Append(conv, Say("assistant", calls)) /\ pending' = calls
    BY <1>3 DEF ChatAsksForTools
  <2> QED BY <1>0, <1>3, <2>1, MessageFacts, CallsAreSequences DEF ChatAsksForTools
<1>4. CASE RefuseCall \/ CallTool
  <2>1. pending # <<>> /\ Head(pending) \in Tool /\ Tail(pending) \in Seq(Tool)
    <3>1. pending # <<>>
      BY <1>4 DEF RefuseCall, CallTool
    <3> QED BY <1>0, <3>1, HeadTailProperties
  <2>2. PICK error \in BOOLEAN : AnswerCall(error)
    BY <1>4 DEF RefuseCall, CallTool
  <2>3. /\ [tool |-> Head(pending), error |-> error] \in Record
        /\ Say("tool", <<Head(pending)>>) \in Message
    BY <2>1, MessageFacts DEF Record
  <2>4. conv' \in Seq(Message) /\ pending' \in Seq(Tool) /\ records' \in Seq(Record)
    BY <1>0, <2>1, <2>2, <2>3 DEF AnswerCall
  <2>5. tools' = tools /\ executed' \subseteq Tool /\ engine' = engine
    BY <1>0, <1>4, <2>1 DEF RefuseCall, CallTool
  <2> QED BY <1>0, <2>4, <2>5
<1>5. CASE OpenSession \/ NextRound \/ Structured \/ Cancelled \/ CutSwallowed
              \/ \E error \in Error : LlmFails(error)
  BY <1>0, <1>5 DEF OpenSession, NextRound, Structured, Cancelled, CutSwallowed, NoTools,
                   StartCrew, Ask, LlmFails
<1>6. CASE SessionBreaks \/ Cut \/ BridgeCall \/ BridgeTimeout \/ CrewEnds \/ LoopRunsOrRests
  BY <1>0, <1>6 DEF SessionBreaks, Cut, BridgeCall, BridgeTimeout, CrewEnds, LoopRunsOrRests
<1>7. CASE BridgeStep
  BY <1>0, <1>7 DEF BridgeStep, BridgeSend, BridgeAnswered, BridgeFails
<1>8. CASE UNCHANGED vars
  BY <1>0, <1>8 DEF vars
<1> QED BY <1>1, <1>2, <1>3, <1>4, <1>5, <1>6, <1>7, <1>8 DEF Next, RoleStep

LEMMA CrewTypes ==
    ASSUME TypeOK, [Next]_vars
    PROVE  /\ thread' \in {"none", "ready", "asking", "ended"}
           /\ crewCalls' \in 0..MaxCrewCalls
           /\ crewOk' \in BOOLEAN /\ others' \in BOOLEAN
           /\ bridge' \in [1..MaxCrewCalls ->
                             [where : {"none", "shared", "own", "over"}, try : 0..MaxTries]]
<1> DEFINE Where == {"none", "shared", "own", "over"}
           Bridge == [1..MaxCrewCalls -> [where : Where, try : 0..MaxTries]]
<1> USE DEF loopVars, llmVars, cutVars, crewVars
<1>0. /\ thread \in {"none", "ready", "asking", "ended"}
      /\ crewCalls \in 0..MaxCrewCalls
      /\ crewOk \in BOOLEAN /\ others \in BOOLEAN
      /\ bridge \in Bridge
      /\ MaxTries \in Nat \ {0} /\ MaxCrewCalls \in Nat
  BY RoleAssumption DEF TypeOK
<1> DEFINE Moved(i, w) == [bridge EXCEPT ![i].where = w]
<1>a. ASSUME NEW i, NEW w \in Where PROVE Moved(i, w) \in Bridge
  BY <1>0
<1>1. CASE BridgeCall
  <2>1. bridge' \in Bridge
    BY <1>1, <1>a DEF BridgeCall
  <2> QED BY <1>0, <1>1, <2>1 DEF BridgeCall
<1>2. ASSUME NEW i \in 1..MaxCrewCalls, BridgeSend(i)
      PROVE  bridge' \in Bridge /\ UNCHANGED <<thread, crewCalls, crewOk, others>>
  BY <1>0, <1>2 DEF BridgeSend
<1>3. ASSUME NEW i \in 1..MaxCrewCalls, NEW ok \in BOOLEAN, BridgeOver(i, ok)
      PROVE  /\ bridge' \in Bridge /\ crewOk' \in BOOLEAN
             /\ thread' \in {"none", "ready", "asking", "ended"}
  <2>1. bridge' \in Bridge
    BY <1>3, <1>a DEF BridgeOver
  <2> QED BY <1>0, <1>3, <2>1 DEF BridgeOver
<1>4. ASSUME NEW i \in 1..MaxCrewCalls, NEW error, BridgeFails(i, error)
      PROVE  /\ bridge' \in Bridge /\ crewOk' \in BOOLEAN
             /\ thread' \in {"none", "ready", "asking", "ended"}
             /\ UNCHANGED <<crewCalls, others>>
  <2>1. CASE Retried(error, bridge[i].try)
    <3>1. bridge[i].try + 1 \in 0..MaxTries
      BY <1>0, <2>1 DEF Retried
    <3> QED BY <1>0, <1>4, <2>1, <3>1 DEF BridgeFails
  <2>2. CASE ~Retried(error, bridge[i].try)
    BY <1>3, <1>4, <2>2 DEF BridgeFails
  <2> QED BY <2>1, <2>2
<1>5. CASE BridgeStep
  BY <1>0, <1>2, <1>3, <1>4, <1>5 DEF BridgeStep, BridgeAnswered
<1>6. CASE BridgeTimeout
  <2>1. bridge' \in Bridge
    BY <1>0, <1>6, <1>a DEF BridgeTimeout
  <2> QED BY <1>0, <1>6, <2>1 DEF BridgeTimeout
<1>7. CASE Discover \/ CutSwallowed \/ CrewEnds \/ LoopRunsOrRests
  BY <1>0, <1>7 DEF Discover, NoTools, StartCrew, CutSwallowed, CrewEnds, LoopRunsOrRests
<1>8. ASSUME ~BridgeCall, ~BridgeStep, ~BridgeTimeout,
             ~(Discover \/ CutSwallowed \/ CrewEnds \/ LoopRunsOrRests)
      PROVE  UNCHANGED <<thread, crewCalls, crewOk, bridge, others>>
  BY <1>8 DEF Next, vars, RoleStep, OpenSession, Resolve, ChatEnds, ChatAsksForTools, RefuseCall,
              CallTool, NextRound, LastAnswer, Structured, Cancelled, LlmFails, SessionBreaks, Cut
<1> QED BY <1>0, <1>1, <1>5, <1>6, <1>7, <1>8

Places == {"discover", "open", "resolve", "chat", "tools", "last", "structured",
           "crew", "returned", "failed"}

\* A step that sends nothing leaves the budget alone where it ends.
LEMMA PlacesNext ==
    ASSUME ControlInv, [Next]_vars
    PROVE  /\ pc' \in Places /\ round' \in 0..MaxRounds /\ request' \in 0..MaxTries
           /\ sent' \in 0..(MaxRounds + 2) * MaxTries
           /\ late' \in BOOLEAN /\ swallowed' \in BOOLEAN
           /\ AsksInPlace' /\ SwallowedInPlace' /\ WithinBudget'
<1> USE DEF loopVars, llmVars, cutVars, crewVars
<1> DEFINE Goal == /\ pc' \in Places /\ round' \in 0..MaxRounds /\ request' \in 0..MaxTries
                   /\ sent' \in 0..(MaxRounds + 2) * MaxTries
                   /\ late' \in BOOLEAN /\ swallowed' \in BOOLEAN
                   /\ AsksInPlace' /\ SwallowedInPlace' /\ WithinBudget'
<1>0. /\ pc \in Places /\ round \in 0..MaxRounds /\ request \in 0..MaxTries
      /\ sent \in 0..(MaxRounds + 2) * MaxTries
      /\ late \in BOOLEAN /\ swallowed \in BOOLEAN
      /\ AsksInPlace /\ SwallowedInPlace /\ WithinBudget
      /\ MaxRounds \in Nat \ {0} /\ MaxTries \in Nat \ {0}
  BY RoleAssumption DEF ControlInv, TypeOK, Places
<1>a. ASSUME pc' \in {"returned", "failed", "crew"}, request' = 0,
             UNCHANGED <<round, sent, late, swallowed>>
      PROVE  Goal
  BY <1>0, <1>a DEF Places, AsksInPlace, SwallowedInPlace, WithinBudget
<1>b. ASSUME UNCHANGED <<pc, round, request, sent, swallowed>>, late' \in BOOLEAN, late => late'
      PROVE  Goal
  BY <1>0, <1>b DEF AsksInPlace, SwallowedInPlace, WithinBudget
<1>c. ASSUME NEW p \in {"chat", "last", "structured"}, Ask(p), InTime,
             round' \in 0..MaxRounds, UNCHANGED <<late, swallowed>>, pc # "structured",
             \/ pc \in {"discover", "open", "resolve"} /\ round' = round
             \/ pc = "chat" /\ p = "structured" /\ round' = round
             \/ pc = "tools" /\ round' = round + 1 /\ (p = "chat" => round' < MaxRounds) /\ p # "structured"
             \/ pc = "last" /\ p = "structured" /\ round' = round
      PROVE  Goal
  <2>1. /\ sent' \in 0..(MaxRounds + 2) * MaxTries /\ request' \in 0..MaxTries
        /\ AsksInPlace' /\ WithinBudget' /\ pc' = p
    BY <1>c, AskKeepsBudget
  <2>2. ~swallowed
    BY <1>0, <1>c DEF SwallowedInPlace
  <2>3. SwallowedInPlace'
    BY <2>2, <1>c DEF SwallowedInPlace
  <2> QED BY <2>1, <2>3, <1>0, <1>c DEF Places
<1>1. CASE Discover
  <2>1. InTime /\ pc = "discover" /\ UNCHANGED <<round, late, swallowed>>
    BY <1>1 DEF Discover
  <2>2. CASE Ask("structured")
    BY <2>1, <2>2, <1>0, <1>c
  <2>3. CASE StartCrew
    BY <2>1, <2>3, <1>0, <1>a DEF StartCrew, AsksInPlace
  <2>4. CASE pc' = "open" /\ UNCHANGED <<request, sent>>
    BY <2>1, <2>4, <1>0 DEF Places, InTime, AsksInPlace, SwallowedInPlace, WithinBudget
  <2> QED BY <1>1, <2>2, <2>3, <2>4 DEF Discover, NoTools
<1>2. CASE OpenSession
  <2>1. InTime /\ pc = "open" /\ UNCHANGED <<round, late, swallowed>>
    BY <1>2 DEF OpenSession
  <2>2. CASE Ask("chat")
    BY <2>1, <2>2, <1>0, <1>c
  <2>3. CASE pc' \in {"failed", "resolve"} /\ UNCHANGED <<request, sent>>
    BY <2>1, <2>3, <1>0 DEF Places, InTime, AsksInPlace, SwallowedInPlace, WithinBudget
  <2> QED BY <1>2, <2>2, <2>3 DEF OpenSession
<1>3. CASE Resolve
  BY <1>3, <1>0, <1>c DEF Resolve
<1>4. CASE SessionBreaks
  BY <1>4, <1>a DEF SessionBreaks
<1>5. CASE ChatEnds \/ LastAnswer
  BY <1>5, <1>0, <1>c DEF ChatEnds, LastAnswer, Answered
<1>6. CASE ChatAsksForTools
  <2>1. /\ pc = "chat" /\ InTime /\ pc' = "tools" /\ request' = 0
        /\ UNCHANGED <<round, sent, late, swallowed>>
    BY <1>6 DEF ChatAsksForTools, Answered
  <2>2. sent <= Budget(round) + request /\ round < MaxRounds
    BY <2>1, <1>0 DEF WithinBudget
  <2>3. Budget(round) \in Nat /\ Budget(round + 1) = Budget(round) + MaxTries
    BY <1>0, BudgetFacts
  <2>4. sent \in Nat
    BY <1>0 DEF ControlInv
  <2>5. sent' <= Budget(round' + 1) /\ round' < MaxRounds
    BY <2>1, <2>2, <2>3, <2>4, <1>0
  <2> QED BY <2>1, <2>5, <1>0 DEF Places, InTime, AsksInPlace, SwallowedInPlace, WithinBudget
<1>7. CASE RefuseCall \/ CallTool
  BY <1>7, <1>0, <1>b DEF RefuseCall, CallTool
<1>8. CASE NextRound
  <2>1. /\ pc = "tools" /\ InTime /\ round' = round + 1 /\ UNCHANGED <<late, swallowed>>
        /\ Ask(IF round + 1 < MaxRounds THEN "chat" ELSE "last")
    BY <1>8 DEF NextRound
  <2>2. round < MaxRounds /\ round' \in 0..MaxRounds
    BY <2>1, <1>0 DEF WithinBudget
  <2>3. CASE round + 1 < MaxRounds
    <3>1. Ask("chat")
      BY <2>1, <2>3
    <3> QED BY <3>1, <2>1, <2>2, <2>3, <1>c
  <2>4. CASE ~(round + 1 < MaxRounds)
    <3>1. Ask("last")
      BY <2>1, <2>4
    <3> QED BY <3>1, <2>1, <2>2, <1>c
  <2> QED BY <2>3, <2>4
<1>9. CASE Structured \/ Cancelled
  BY <1>9, <1>0, <1>a DEF Structured, Cancelled, InTime, AsksInPlace
<1>10. CASE CutSwallowed
  <2>1. /\ pc = "discover" /\ late /\ swallowed' /\ UNCHANGED <<round, late>>
        /\ sent = 0 /\ request = 0
    BY <1>10, <1>0 DEF CutSwallowed, InTime, AsksInPlace, WithinBudget
  <2>2. CASE StartCrew
    BY <2>1, <2>2, <1>10, <1>0 DEF CutSwallowed, StartCrew, Places, AsksInPlace, SwallowedInPlace,
                                  WithinBudget
  <2>3. CASE Ask("structured")
    <3>1. /\ sent' \in 0..(MaxRounds + 2) * MaxTries /\ request' \in 0..MaxTries
          /\ AsksInPlace' /\ WithinBudget'
      BY <2>1, <2>3, <1>0, AskKeepsBudget
    <3>2. SwallowedInPlace' /\ pc' \in Places
      BY <2>1, <2>3 DEF Ask, SwallowedInPlace, Places
    <3> QED BY <2>1, <3>1, <3>2, <1>0
  <2> QED BY <1>10, <2>2, <2>3 DEF CutSwallowed, NoTools
<1>11. ASSUME NEW error \in Error, LlmFails(error)
       PROVE  Goal
  <2>1. CASE Retried(error, request)
    <3>1. /\ request > 0 /\ request < MaxTries /\ request' = request + 1 /\ sent' = sent + 1
          /\ UNCHANGED <<pc, round, late, swallowed>>
      BY <1>11, <2>1 DEF LlmFails, Retried
    <3>2. pc \in {"chat", "last", "structured"}
      BY <3>1, <1>0 DEF AsksInPlace
    <3>3. /\ sent \in Nat /\ sent' \in Nat /\ request' \in 0..MaxTries
          /\ Budget(round) \in Nat /\ Budget(MaxRounds) \in Nat /\ Budget(MaxRounds + 1) \in Nat
      <4>1. sent \in Nat /\ round \in Nat /\ MaxRounds \in Nat /\ MaxRounds + 1 \in Nat
        BY <1>0 DEF ControlInv, TypeOK
      <4>2. sent' \in Nat /\ request' \in 0..MaxTries
        BY <3>1, <4>1, <1>0
      <4> QED BY <4>1, <4>2, BudgetFacts
    <3>4. WithinBudget'
      BY <3>1, <3>2, <3>3, <1>0 DEF WithinBudget
    <3>5. \E k \in 0..(MaxRounds + 1) : sent' <= Budget(k) + request'
      BY <3>1, <3>2, <3>4, <1>0 DEF WithinBudget
    <3>6. sent' \in 0..(MaxRounds + 2) * MaxTries
      BY <3>3, <3>5, SentFits
    <3> QED BY <3>1, <3>2, <3>3, <3>4, <3>6, <1>0 DEF AsksInPlace, SwallowedInPlace
  <2>2. CASE ~Retried(error, request)
    BY <1>11, <2>2, <1>a DEF LlmFails
  <2> QED BY <2>1, <2>2
<1>12. CASE Cut
  BY <1>12, <1>b DEF Cut
<1>13. CASE BridgeCall \/ BridgeTimeout \/ LoopRunsOrRests
  BY <1>13, <1>0, <1>b DEF BridgeCall, BridgeTimeout, LoopRunsOrRests
<1>14. CASE BridgeStep
  BY <1>14, <1>0, <1>b DEF BridgeStep, BridgeSend, BridgeAnswered, BridgeFails
<1>15. CASE CrewEnds
  <2>1. /\ UNCHANGED <<round, request, sent, late, swallowed>>
        /\ pc' = pc \/ (pc = "crew" /\ pc' \in {"returned", "failed"})
    BY <1>15 DEF CrewEnds
  <2>2. CASE pc' = pc
    BY <2>1, <2>2, <1>0, <1>b
  <2>3. CASE pc = "crew" /\ pc' \in {"returned", "failed"}
    BY <2>1, <2>3, <1>0, <1>a DEF AsksInPlace
  <2> QED BY <2>1, <2>2, <2>3
<1>16. CASE UNCHANGED vars
  BY <1>16, <1>0, <1>b DEF vars
<1> QED BY <1>1, <1>2, <1>3, <1>4, <1>5, <1>6, <1>7, <1>8, <1>9, <1>10, <1>11, <1>12, <1>13,
           <1>14, <1>15, <1>16 DEF Next, RoleStep

LEMMA ControlNext == ControlInv /\ [Next]_vars => ControlInv'
<1> SUFFICES ASSUME ControlInv, [Next]_vars PROVE ControlInv'
  OBVIOUS
<1>1. TypeOK
  BY DEF ControlInv
<1>2. TypeOK'
  BY <1>1, LoopTypes, CrewTypes, PlacesNext DEF TypeOK, Places
<1> QED BY <1>2, PlacesNext DEF ControlInv

-----------------------------------------------------------------------------
\* The conversation

\* Between two answers every answer is closed; while its calls are looked at,
\* the last answer is open and those before it are closed.
AnswersOpen ==
    /\ pc \notin {"tools", "failed"} => \A i \in 1..Len(conv) : Closed(conv, i)
    /\ pc = "tools" => \E k \in 1..Len(conv) :
          OpenAt(conv, pending, k) /\ \A i \in 1..(k - 1) : Closed(conv, i)

AllowedOnly == tools \subseteq Allowlist /\ executed \subseteq Allowlist

RecordsKept == RecordsMatch(conv, records)

TalkInv == AnswersOpen /\ RecordsKept /\ AllowedOnly

RoleInv == ControlInv /\ TalkInv

LEMMA TalkInit == Init => TalkInv
<1> SUFFICES ASSUME Init PROVE TalkInv
  OBVIOUS
<1>1. /\ Len(conv) = 1 /\ conv[1].kind = "prompt" /\ pc = "discover"
      /\ records = <<>> /\ tools = {} /\ executed = {}
  BY MessageFacts DEF Init
<1>2. AnswersOpen
  BY <1>1 DEF AnswersOpen, Closed
<1>3. ToolsIn(conv, Len(conv)) = {}
  BY <1>1 DEF ToolsIn
<1>4. RecordsKept
  BY <1>1, <1>3, FS_EmptySet DEF RecordsKept, RecordsMatch
<1> QED BY <1>1, <1>2, <1>4 DEF TalkInv, AllowedOnly

\* An answer without calls, and the prompt that follows it, are appended.
LEMMA PromptKeepsTalk ==
    ASSUME TypeOK, TalkInv, pc \notin {"tools", "failed"}, pc' \notin {"tools", "failed"},
           conv' = Append(conv, Say("assistant", <<>>)) \o <<Say("prompt", <<>>)>>,
           UNCHANGED records
    PROVE  AnswersOpen' /\ RecordsKept'
<1> DEFINE a == Say("assistant", <<>>)
           p == Say("prompt", <<>>)
           s == Append(conv, a)
           t == Append(s, p)
<1>1. /\ a \in Message /\ a.kind = "assistant" /\ a.calls = <<>>
      /\ p \in Message /\ p.kind = "prompt"
  BY MessageFacts, EmptyCalls
<1>2. conv \in Seq(Message) /\ records \in Seq(Record)
  BY DEF TypeOK
<1> HIDE DEF a, p
<1>3. /\ s \in Seq(Message) /\ Len(s) = Len(conv) + 1 /\ Len(conv) \in Nat
      /\ s[Len(conv) + 1] = a
      /\ \A i \in 1..Len(conv) : s[i] = conv[i]
  BY <1>1, <1>2, AppendProperties
<1>4. conv' = t
  BY <1>1, <1>3, AppendIsConcat DEF a, p
<1>5. \A i \in 1..Len(conv) : Closed(s, i)
  BY <1>1, <1>2, ClosedStays DEF TalkInv, AnswersOpen
<1>6. RecordsMatch(s, records)
  BY <1>1, <1>2, RecordsStay DEF TalkInv, RecordsKept
<1> HIDE DEF s
<1>7. Closed(s, Len(conv) + 1)
  <2>1. s[Len(conv) + 1].calls = <<>> /\ Len(<<>>) = 0
    BY <1>1, <1>3
  <2>2. /\ Len(conv) + 1 + 0 <= Len(s) /\ ~(Len(conv) + 1 + 0 < Len(s))
        /\ 1..0 = {}
    BY <1>3
  <2> QED BY <2>1, <2>2 DEF Closed
<1>8. /\ Len(t) = Len(s) + 1 /\ t[Len(s) + 1] = p
      /\ t \in Seq(Message)
  BY <1>1, <1>3, AppendProperties
<1>9. \A i \in 1..Len(s) : Closed(t, i)
  BY <1>1, <1>3, <1>5, <1>7, ClosedStays
<1>10. RecordsMatch(t, records)
  BY <1>1, <1>2, <1>3, <1>6, RecordsStay
<1> HIDE DEF t
<1>11. Closed(t, Len(s) + 1)
  BY <1>1, <1>8 DEF Closed
<1>12. \A i \in 1..Len(t) : Closed(t, i)
  BY <1>3, <1>8, <1>9, <1>11
<1>13. AnswersOpen'
  BY <1>4, <1>12 DEF AnswersOpen
<1> QED BY <1>4, <1>10, <1>13 DEF RecordsKept

\* The model asks for tools: its answer is open, with all its calls.
LEMMA AskingKeepsTalk ==
    ASSUME TypeOK, TalkInv, ChatAsksForTools
    PROVE  AnswersOpen' /\ RecordsKept'
<1> USE DEF loopVars
<1>1. PICK calls \in Calls : conv' = Append(conv, Say("assistant", calls)) /\ pending' = calls
  BY DEF ChatAsksForTools
<1> DEFINE a == Say("assistant", calls)
<1>2. a \in Message /\ a.kind = "assistant" /\ a.calls = calls /\ calls \in Seq(Tool)
  BY MessageFacts, CallsAreSequences
<1>3. conv \in Seq(Message) /\ records \in Seq(Record)
  BY DEF TypeOK
<1> HIDE DEF a
<1>4. conv' = Append(conv, a)
  BY <1>1 DEF a
<1>5. /\ conv' \in Seq(Message) /\ Len(conv') = Len(conv) + 1 /\ Len(conv) \in Nat
      /\ conv'[Len(conv) + 1] = a
  BY <1>2, <1>3, <1>4, AppendProperties
<1>6. pc = "chat" /\ pc' = "tools" /\ records' = records
  BY DEF ChatAsksForTools, Answered
<1>7. \A i \in 1..Len(conv) : Closed(conv', i)
  BY <1>2, <1>3, <1>4, <1>6, ClosedStays DEF TalkInv, AnswersOpen
<1>8. OpenAt(conv', pending', Len(conv) + 1)
  <2>1. /\ Len(conv') - (Len(conv) + 1) = 0 /\ 1..0 = {}
        /\ Len(conv') = Len(conv) + 1
    BY <1>5
  <2>2. /\ conv'[Len(conv) + 1].kind = "assistant" /\ conv'[Len(conv) + 1].calls = pending'
        /\ Len(pending') \in Nat
    BY <1>1, <1>2, <1>5
  <2>3. \A j \in 1..Len(pending') : 0 + j = j
    BY <2>2
  <2> QED BY <1>5, <2>1, <2>2, <2>3 DEF OpenAt
<1>9. AnswersOpen'
  BY <1>5, <1>6, <1>7, <1>8 DEF AnswersOpen
<1>10. RecordsMatch(conv', records')
  BY <1>2, <1>3, <1>4, <1>6, RecordsStay DEF TalkInv, RecordsKept
<1> QED BY <1>9, <1>10 DEF RecordsKept

\* A call is refused or run: it has its message and its record.
LEMMA AnsweringKeepsTalk ==
    ASSUME TypeOK, TalkInv, RefuseCall \/ CallTool
    PROVE  AnswersOpen' /\ RecordsKept'
<1>1. pc = "tools" /\ pc' = pc /\ pending # <<>>
  BY DEF RefuseCall, CallTool
<1>2. PICK error \in BOOLEAN : AnswerCall(error)
  BY DEF RefuseCall, CallTool
<1>3. conv \in Seq(Message) /\ pending \in Seq(Tool) /\ records \in Seq(Record)
  BY DEF TypeOK
<1> DEFINE x == [tool |-> Head(pending), error |-> error]
<1>4. x \in Record /\ x.tool = Head(pending)
  BY <1>1, <1>3 DEF Record
<1>5. PICK k \in 1..Len(conv) :
          OpenAt(conv, pending, k) /\ \A i \in 1..(k - 1) : Closed(conv, i)
  BY <1>1 DEF TalkInv, AnswersOpen
<1>6. /\ conv' = Append(conv, Say("tool", <<Head(pending)>>))
      /\ pending' = Tail(pending) /\ records' = Append(records, x)
  BY <1>2 DEF AnswerCall
<1>7. OpenAt(conv', pending', k) /\ \A i \in 1..(k - 1) : Closed(conv', i)
  BY <1>1, <1>3, <1>5, <1>6, OpenGrows
<1>8. k \in 1..Len(conv')
  BY <1>3, <1>6
<1>9. AnswersOpen'
  BY <1>1, <1>7, <1>8 DEF AnswersOpen
<1> HIDE DEF x
<1>10. RecordsMatch(conv', records')
  BY <1>3, <1>4, <1>6, RecordsGrow DEF TalkInv, RecordsKept
<1> QED BY <1>9, <1>10 DEF RecordsKept

\* The other steps say nothing and leave every answer as it is.
LEMMA SilentKeepsTalk ==
    ASSUME TypeOK, TalkInv, UNCHANGED <<conv, pending, records>>,
           \/ pc' = pc
           \/ pc' = "failed"
           \/ pc \notin {"tools", "failed"} /\ pc' # "tools"
           \/ pc = "tools" /\ pending = <<>> /\ pc' # "tools"
    PROVE  AnswersOpen' /\ RecordsKept'
<1>1. RecordsKept'
  BY DEF TalkInv, RecordsKept
<1> SUFFICES AnswersOpen'
  BY <1>1
<1>2. CASE pc' = pc
  BY <1>2 DEF TalkInv, AnswersOpen
<1>3. CASE pc' = "failed"
  BY <1>3 DEF AnswersOpen
<1>4. CASE pc \notin {"tools", "failed"} /\ pc' # "tools"
  BY <1>4 DEF TalkInv, AnswersOpen
<1>5. CASE pc = "tools" /\ pending = <<>> /\ pc' # "tools"
  <2>1. \A i \in 1..Len(conv) : Closed(conv, i)
    BY <1>5, OpenCloses DEF TypeOK, TalkInv, AnswersOpen
  <2> QED BY <1>5, <2>1 DEF AnswersOpen
<1> QED BY <1>2, <1>3, <1>4, <1>5

LEMMA TalkNext == ControlInv /\ TalkInv /\ [Next]_vars => TalkInv'
<1> SUFFICES ASSUME ControlInv, TalkInv, [Next]_vars PROVE TalkInv'
  OBVIOUS
<1> USE DEF loopVars, llmVars, cutVars, crewVars
<1>0. TypeOK
  BY DEF ControlInv
<1> DEFINE Goal == AnswersOpen' /\ RecordsKept'
<1>a. AllowedOnly'
  <2>1. AllowedOnly
    BY DEF TalkInv
  <2>2. CASE Discover \/ Resolve
    BY <2>1, <2>2 DEF Discover, NoTools, StartCrew, Ask, Resolve, Allowed, AllowedOnly
  <2>3. CASE CallTool
    BY <2>1, <2>3 DEF CallTool, AllowedOnly
  <2>4. CASE OpenSession \/ ChatEnds \/ ChatAsksForTools \/ RefuseCall \/ NextRound \/ LastAnswer
    BY <2>1, <2>4 DEF OpenSession, ChatEnds, ChatAsksForTools, RefuseCall, NextRound, LastAnswer,
                      AllowedOnly
  <2>5. CASE Structured \/ Cancelled \/ CutSwallowed \/ \E error \in Error : LlmFails(error)
    BY <2>1, <2>5 DEF Structured, Cancelled, CutSwallowed, NoTools, StartCrew, Ask, LlmFails,
                      AllowedOnly
  <2>6. CASE SessionBreaks \/ Cut \/ BridgeCall \/ BridgeTimeout \/ CrewEnds \/ LoopRunsOrRests
    BY <2>1, <2>6 DEF SessionBreaks, Cut, BridgeCall, BridgeTimeout, CrewEnds, LoopRunsOrRests,
                      AllowedOnly
  <2>7. CASE BridgeStep
    BY <2>1, <2>7 DEF BridgeStep, BridgeSend, BridgeAnswered, BridgeFails, AllowedOnly
  <2>8. CASE UNCHANGED vars
    BY <2>1, <2>8 DEF vars, AllowedOnly
  <2> QED BY <2>2, <2>3, <2>4, <2>5, <2>6, <2>7, <2>8 DEF Next, RoleStep
<1> SUFFICES Goal
  BY <1>a DEF TalkInv
<1>1. CASE Discover
  BY <1>0, <1>1, SilentKeepsTalk DEF Discover, NoTools, StartCrew, Ask
<1>2. CASE OpenSession \/ Resolve
  BY <1>0, <1>2, SilentKeepsTalk DEF OpenSession, Resolve, Ask
<1>3. CASE ChatEnds \/ LastAnswer
  BY <1>0, <1>3, PromptKeepsTalk DEF ChatEnds, LastAnswer, Answered, Ask
<1>4. CASE ChatAsksForTools
  BY <1>0, <1>4, AskingKeepsTalk
<1>5. CASE RefuseCall \/ CallTool
  BY <1>0, <1>5, AnsweringKeepsTalk
<1>6. CASE NextRound
  BY <1>0, <1>6, SilentKeepsTalk DEF NextRound, Ask
<1>7. CASE Structured
  BY <1>0, <1>7, SilentKeepsTalk DEF Structured, Answered
<1>8. CASE Cancelled \/ SessionBreaks
  BY <1>0, <1>8, SilentKeepsTalk DEF Cancelled, SessionBreaks
<1>9. CASE CutSwallowed
  BY <1>0, <1>9, SilentKeepsTalk DEF CutSwallowed, NoTools, StartCrew, Ask
<1>10. CASE \E error \in Error : LlmFails(error)
  BY <1>0, <1>10, SilentKeepsTalk DEF LlmFails
<1>11. CASE Cut \/ BridgeCall \/ BridgeTimeout \/ LoopRunsOrRests
  BY <1>0, <1>11, SilentKeepsTalk DEF Cut, BridgeCall, BridgeTimeout, LoopRunsOrRests
<1>12. CASE BridgeStep
  BY <1>0, <1>12, SilentKeepsTalk DEF BridgeStep, BridgeSend, BridgeAnswered, BridgeFails
<1>13. CASE CrewEnds
  BY <1>0, <1>13, SilentKeepsTalk DEF CrewEnds
<1>14. CASE UNCHANGED vars
  BY <1>0, <1>14, SilentKeepsTalk DEF vars
<1> QED BY <1>1, <1>2, <1>3, <1>4, <1>5, <1>6, <1>7, <1>8, <1>9, <1>10, <1>11, <1>12, <1>13,
           <1>14 DEF Next, RoleStep

-----------------------------------------------------------------------------
\* The invariant of an attempt: where it is, what it may still send, and which
\* calls of the last answer are unanswered.
THEOREM RoleInvariant == Spec => []RoleInv
<1>1. Init => RoleInv
  BY ControlInit, TalkInit DEF RoleInv
<1>2. RoleInv /\ [Next]_vars => RoleInv'
  BY ControlNext, TalkNext DEF RoleInv
<1> QED BY <1>1, <1>2, PTL DEF Spec

\* Types, and the cost of a role: a coroutine sends at most MaxTries requests
\* for each round, the answer after the last round and the structured answer.
THEOREM RoleTypeCorrect == Spec => []TypeOK
<1>1. RoleInv => TypeOK
  BY DEF RoleInv, ControlInv
<1> QED BY <1>1, RoleInvariant, PTL

\* Whenever the model is asked, and when the role returns, each call has its
\* tool message and its record, for any number of rounds and calls
\* (tool_loop.py).
THEOREM ConversationAlwaysComplete == Spec => []ConversationComplete
<1>1. RoleInv => ConversationComplete
  <2> SUFFICES ASSUME RoleInv, pc \in {"chat", "last", "structured", "returned"}
               PROVE  EveryCallAnswered /\ RecordsAreAnswers /\ executed \subseteq Allowlist
    BY DEF ConversationComplete
  <2>1. EveryCallAnswered
    BY DEF RoleInv, TalkInv, AnswersOpen, Closed, EveryCallAnswered
  <2>2. \A i : ToolMessages(i) = ToolsIn(conv, i)
    BY DEF ToolMessages, ToolsIn
  <2>3. RecordsAreAnswers
    BY <2>2 DEF RoleInv, TalkInv, RecordsKept, RecordsMatch, RecordsAreAnswers
  <2> QED BY <2>1, <2>3 DEF RoleInv, TalkInv, AllowedOnly
<1> QED BY <1>1, RoleInvariant, PTL

\* Once wait_for has given the role up, its coroutine runs no tool.  Unless
\* discovery swallowed the cancellation it sends nothing and does not return
\* either; if it did, MaxTries requests for the structured answer are all.
THEOREM CutRoleConcludesAtMost == Spec => CutRoleOnlyConcludes
<1> DEFINE Concludes ==
             late => /\ UNCHANGED executed
                     /\ sent' # sent => swallowed' /\ pc' = "structured" /\ sent' <= MaxTries
                     /\ pc' = "returned" => pc = "returned" \/ swallowed
<1>1. RoleInv /\ [Next]_vars => [Concludes]_vars
  <2> SUFFICES ASSUME RoleInv, [Next]_vars, late PROVE Concludes
    BY DEF vars
  <2> USE DEF loopVars, llmVars, cutVars, crewVars
  <2>1. /\ SwallowedInPlace /\ AsksInPlace /\ WithinBudget
        /\ sent \in Nat /\ MaxTries \in Nat \ {0}
    BY RoleAssumption DEF RoleInv, ControlInv, TypeOK
  <2>2. CASE Discover \/ OpenSession \/ Resolve \/ ChatEnds \/ ChatAsksForTools \/ RefuseCall
             \/ CallTool \/ NextRound \/ LastAnswer
    BY <2>1, <2>2 DEF SwallowedInPlace, InTime, Answered, Discover, OpenSession, Resolve, ChatEnds,
                      ChatAsksForTools, RefuseCall, CallTool, NextRound, LastAnswer
  <2>3. CASE Structured \/ Cancelled
    BY <2>3 DEF Structured, Cancelled, Answered, InTime
  <2>4. CASE CutSwallowed
    <3>1. sent = 0 /\ swallowed' /\ UNCHANGED executed
      BY <2>1, <2>4 DEF CutSwallowed, WithinBudget
    <3> QED BY <2>1, <2>4, <3>1 DEF CutSwallowed, NoTools, StartCrew, Ask
  <2>5. ASSUME NEW error \in Error, LlmFails(error)
        PROVE  Concludes
    <3>1. CASE Retried(error, request)
      <4>1. InTime /\ request > 0 /\ request < MaxTries /\ sent' = sent + 1
            /\ UNCHANGED <<pc, executed, swallowed>>
        BY <2>5, <3>1 DEF LlmFails, Retried
      <4>2. swallowed /\ pc = "structured" /\ sent = request
        BY <2>1, <4>1 DEF InTime, SwallowedInPlace, AsksInPlace
      <4> QED BY <2>1, <4>1, <4>2
    <3>2. CASE ~Retried(error, request)
      BY <2>5, <3>2 DEF LlmFails
    <3> QED BY <3>1, <3>2
  <2>6. CASE SessionBreaks \/ Cut \/ BridgeCall \/ BridgeTimeout \/ LoopRunsOrRests
    BY <2>6 DEF SessionBreaks, Cut, BridgeCall, BridgeTimeout, LoopRunsOrRests
  <2>7. CASE BridgeStep
    BY <2>7 DEF BridgeStep, BridgeSend, BridgeAnswered, BridgeFails
  <2>8. CASE CrewEnds
    BY <2>1, <2>8 DEF CrewEnds, InTime
  <2>9. CASE UNCHANGED vars
    BY <2>9 DEF vars
  <2> QED BY <2>2, <2>3, <2>4, <2>5, <2>6, <2>7, <2>8, <2>9 DEF Next, RoleStep
<1> QED BY <1>1, RoleInvariant, PTL DEF Spec, CutRoleOnlyConcludes
=============================================================================
