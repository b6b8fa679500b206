------------------------ MODULE RuntimeStateProofs --------------------------
(***************************************************************************)
(* Proofs about RuntimeState, for any number of patches, merges, calls,    *)
(* cuts, crashes and lost requests.                                        *)
(***************************************************************************)
EXTENDS RuntimeState, TLAPS

\* Only a call counts; the snapshot takes no lock.
PlacesFit ==
    /\ \A w \in Writer : place[w] = "count" => w \in Call
    /\ place[Snapshot] \in {"idle", "put", "late", "over"}

\* A copy that no writer outside its lock made stale is still the document.
CopiesAreCurrent ==
    \A w \in Writer : Pending(w) /\ w \notin stale => copy[w] = doc

\* So is a total that no other call has made stale.
TotalsAreCurrent ==
    damage = {} =>
        \A c \in Call :
            place[c] \in {"wait", "get", "got", "put", "late"} /\ c \notin behind
                => total[c] = doc.tokens

RuntimeInv ==
    TypeOK /\ PlacesFit /\ CopiesAreCurrent /\ TotalsAreCurrent /\ DocumentAddsUp

-----------------------------------------------------------------------------
LEMMA FreshIsDocument == Fresh \in Document
BY DEF Fresh, Document

\* A merge yields a document, whose fields depend on no token counter.
LEMMA MergedIsDocument ==
    ASSUME NEW base \in Document, NEW w \in Writer, NEW counted \in SUBSET Call
    PROVE  Merged(base, w, counted) \in Document
BY DEF Merged, Document

LEMMA MergedFields ==
    ASSUME NEW b1 \in Document, NEW b2 \in Document, NEW w \in Writer,
           NEW t1, NEW t2, b1.fields = b2.fields
    PROVE  Merged(b1, w, t1).fields = Merged(b2, w, t2).fields
BY DEF Merged

\* Two merges of one process cannot both hold its lock.
LEMMA OneHolder ==
    ASSUME TypeOK, NEW v \in Writer, NEW w \in Writer,
           Holds(v), Holds(w), Home(v) = Home(w)
    PROVE  v = w
BY DEF TypeOK

-----------------------------------------------------------------------------
\* Steps that leave the document alone.

\* Beginning a write: a place changes, and nothing else.
LEMMA BeginStep ==
    ASSUME RuntimeInv, NEW w \in Writer, Begin(w)
    PROVE  RuntimeInv'
<1> USE WriterAssumption DEF Writer, Merge
<1>0. /\ place' \in [Writer -> Places]
      /\ UNCHANGED <<storage, lock, copy, total, running>>
      /\ \A v \in Writer \ {w} : place'[v] = place[v]
      /\ \/ w = Snapshot /\ place[w] = "idle" /\ place'[w] = "put"
         \/ w \in Patch \union Activity /\ place[w] = "idle" /\ place'[w] = "wait"
         \/ w \in Call /\ place[w] = "idle" /\ place'[w] = "count"
  BY DEF RuntimeInv, TypeOK, Places, Begin, CreateTask, PauseOrResume, ActivityMerges, CallAnswered, At
<1>1. \A v \in Writer : Holds(v)' <=> Holds(v)
  BY <1>0 DEF Holds
<1>2. \A v \in Writer : Pending(v)' <=> Pending(v)
  BY <1>0 DEF Pending
<1>3. TypeOK'
  BY <1>0, <1>1 DEF RuntimeInv, TypeOK, storage
<1>4. PlacesFit'
  BY <1>0 DEF RuntimeInv, PlacesFit
<1>5. CopiesAreCurrent'
  BY <1>0, <1>2 DEF RuntimeInv, CopiesAreCurrent, storage
<1>6. TotalsAreCurrent'
  BY <1>0 DEF RuntimeInv, TotalsAreCurrent, storage
<1>7. DocumentAddsUp'
  BY <1>0 DEF RuntimeInv, DocumentAddsUp, storage
<1> QED BY <1>3, <1>4, <1>5, <1>6, <1>7 DEF RuntimeInv

LEMMA ReadTotalStep ==
    ASSUME RuntimeInv, NEW w \in Writer, ReadTotal(w)
    PROVE  RuntimeInv'
<1> USE WriterAssumption DEF Writer, Merge
<1>0. /\ w \in Call /\ place[w] = "count" /\ place' = [place EXCEPT ![w] = "wait"]
      /\ total' = [total EXCEPT ![w] = doc.tokens]
      /\ behind' = behind \ {w}
      /\ UNCHANGED <<doc, ideal, stale, damage, lock, copy, running>>
  BY DEF RuntimeInv, PlacesFit, ReadTotal, At
<1>1. \A v \in Writer : Holds(v)' <=> Holds(v)
  BY <1>0 DEF RuntimeInv, TypeOK, Holds
<1>2. \A v \in Writer : Pending(v)' <=> Pending(v)
  BY <1>0 DEF RuntimeInv, TypeOK, Pending
<1>3. TypeOK'
  BY <1>0, <1>1 DEF RuntimeInv, TypeOK, Places, Document
<1>4. PlacesFit'
  BY <1>0 DEF RuntimeInv, PlacesFit, TypeOK
<1>5. CopiesAreCurrent'
  BY <1>0, <1>2 DEF RuntimeInv, CopiesAreCurrent
<1>6. TotalsAreCurrent'
  BY <1>0 DEF RuntimeInv, TotalsAreCurrent, TypeOK
<1>7. DocumentAddsUp'
  BY <1>0 DEF RuntimeInv, DocumentAddsUp
<1> QED BY <1>3, <1>4, <1>5, <1>6, <1>7 DEF RuntimeInv

LEMMA TakeLockStep ==
    ASSUME RuntimeInv, NEW w \in Writer, TakeLock(w)
    PROVE  RuntimeInv'
<1> USE WriterAssumption DEF Writer, Merge
<1>0. /\ w \in Merge /\ place[w] = "wait" /\ place' = [place EXCEPT ![w] = "get"]
      /\ lock[Home(w)] = None /\ lock' = [lock EXCEPT ![Home(w)] = w]
      /\ UNCHANGED <<doc, ideal, stale, behind, damage, copy, total, running>>
  BY DEF RuntimeInv, PlacesFit, TakeLock, At, storage
<1>1. \A v \in Writer : Home(v) \in Process
  BY DEF Home, Process
<1>2. \A v \in Writer : Holds(v)' <=> lock'[Home(v)] = v
  BY <1>0, <1>1 DEF RuntimeInv, TypeOK, Holds
<1>3. \A v \in Writer : Pending(v)' <=> Pending(v)
  BY <1>0 DEF RuntimeInv, TypeOK, Pending
<1>4. TypeOK'
  BY <1>0, <1>1, <1>2 DEF RuntimeInv, TypeOK, Places
<1>5. PlacesFit'
  BY <1>0 DEF RuntimeInv, PlacesFit, TypeOK
<1>6. CopiesAreCurrent'
  BY <1>0, <1>3 DEF RuntimeInv, CopiesAreCurrent
<1>7. TotalsAreCurrent'
  BY <1>0 DEF RuntimeInv, TotalsAreCurrent, TypeOK
<1>8. DocumentAddsUp'
  BY <1>0 DEF RuntimeInv, DocumentAddsUp
<1> QED BY <1>4, <1>5, <1>6, <1>7, <1>8 DEF RuntimeInv

LEMMA ReadStep ==
    ASSUME RuntimeInv, NEW w \in Writer, Read(w)
    PROVE  RuntimeInv'
<1> USE WriterAssumption DEF Writer, Merge
<1>0. /\ w \in Merge /\ place[w] = "get" /\ place' = [place EXCEPT ![w] = "got"]
      /\ copy' = [copy EXCEPT ![w] = doc] /\ stale' = stale \ {w}
      /\ UNCHANGED <<doc, ideal, behind, damage, lock, total, running>>
  BY DEF RuntimeInv, PlacesFit, Read, At
<1>1. \A v \in Writer : Holds(v)' <=> Holds(v)
  BY <1>0 DEF RuntimeInv, TypeOK, Holds
<1>2. TypeOK'
  BY <1>0, <1>1 DEF RuntimeInv, TypeOK, Places
<1>3. PlacesFit'
  BY <1>0 DEF RuntimeInv, PlacesFit, TypeOK
<1>4. CopiesAreCurrent'
  BY <1>0 DEF RuntimeInv, CopiesAreCurrent, Pending, TypeOK
<1>5. TotalsAreCurrent'
  BY <1>0 DEF RuntimeInv, TotalsAreCurrent, TypeOK
<1>6. DocumentAddsUp'
  BY <1>0 DEF RuntimeInv, DocumentAddsUp
<1> QED BY <1>2, <1>3, <1>4, <1>5, <1>6 DEF RuntimeInv

LEMMA SendPutStep ==
    ASSUME RuntimeInv, NEW w \in Writer, SendPut(w)
    PROVE  RuntimeInv'
<1> USE WriterAssumption DEF Writer, Merge
<1>0. /\ place[w] = "got" /\ place' = [place EXCEPT ![w] = "put"]
      /\ UNCHANGED <<doc, ideal, stale, behind, damage, lock, copy, total, running>>
  BY DEF SendPut, At, storage
<1>1. \A v \in Writer : Holds(v)' <=> Holds(v)
  BY <1>0 DEF RuntimeInv, TypeOK, Holds
<1>2. \A v \in Writer : Pending(v)' <=> Pending(v)
  BY <1>0 DEF RuntimeInv, TypeOK, Pending
<1>3. TypeOK'
  BY <1>0, <1>1 DEF RuntimeInv, TypeOK, Places
<1>4. PlacesFit'
  BY <1>0 DEF RuntimeInv, PlacesFit, TypeOK
<1>5. CopiesAreCurrent'
  BY <1>0, <1>2 DEF RuntimeInv, CopiesAreCurrent
<1>6. TotalsAreCurrent'
  BY <1>0 DEF RuntimeInv, TotalsAreCurrent, TypeOK
<1>7. DocumentAddsUp'
  BY <1>0 DEF RuntimeInv, DocumentAddsUp
<1> QED BY <1>3, <1>4, <1>5, <1>6, <1>7 DEF RuntimeInv

\* Writers that are released, given up, cut off or crash: each frees its lock,
\* and of those with a copy only a PUT that was sent may still be stored.
LEMMA Leave ==
    ASSUME RuntimeInv, NEW gone \in SUBSET Writer,
           \A w \in gone : UnderWay(w) /\ place'[w] = Left(w),
           place' \in [Writer -> Places],
           \A w \in Writer \ gone : place'[w] = place[w],
           lock' \in [Process -> Merge \union {None}],
           \A v \in Writer : lock'[Home(v)] = v <=> lock[Home(v)] = v /\ v \notin gone,
           running' \in BOOLEAN,
           UNCHANGED <<storage, copy, total>>
    PROVE  RuntimeInv'
<1> USE WriterAssumption DEF Writer, Merge
<1>1. \A v \in Writer : Holds(v)' <=> Holds(v) /\ v \notin gone
  BY DEF Holds, Left
<1>2. \A v \in Writer : Pending(v)' => Pending(v)
  BY DEF Pending, Left
<1>3. TypeOK'
  BY <1>1 DEF RuntimeInv, TypeOK, storage
<1>4. PlacesFit'
  BY DEF RuntimeInv, PlacesFit, Left
<1>5. CopiesAreCurrent'
  BY <1>2 DEF RuntimeInv, CopiesAreCurrent, storage
<1>6. TotalsAreCurrent'
  BY DEF RuntimeInv, TotalsAreCurrent, Left, storage
<1>7. DocumentAddsUp'
  BY DEF RuntimeInv, DocumentAddsUp, storage
<1> QED BY <1>3, <1>4, <1>5, <1>6, <1>7 DEF RuntimeInv

\* Freed(w) takes the lock from w alone.
LEMMA FreedLock ==
    ASSUME TypeOK, NEW w \in Writer, lock' = Freed(w)
    PROVE  /\ lock' \in [Process -> Merge \union {None}]
           /\ \A v \in Writer : lock'[Home(v)] = v <=> lock[Home(v)] = v /\ v \notin {w}
BY WriterAssumption DEF TypeOK, Freed, Home, Process, Writer, Merge

LEMMA LeaveStep ==
    ASSUME RuntimeInv, NEW w \in Writer, Release(w) \/ GiveUp(w) \/ ActivityCut(w)
    PROVE  RuntimeInv'
<1>1. /\ UnderWay(w)
      /\ place' = [place EXCEPT ![w] = Left(w)]
      /\ lock' = Freed(w)
      /\ running' \in BOOLEAN
      /\ UNCHANGED <<storage, copy, total>>
  BY DEF Release, GiveUp, ActivityCut, At, Left, UnderWay, RuntimeInv, TypeOK
<1>2. TypeOK
  BY DEF RuntimeInv
<1>3. /\ lock' \in [Process -> Merge \union {None}]
      /\ \A v \in Writer : lock'[Home(v)] = v <=> lock[Home(v)] = v /\ v \notin {w}
  BY <1>1, <1>2, FreedLock
<1>4. /\ place' \in [Writer -> Places]
      /\ place'[w] = Left(w)
      /\ \A v \in Writer \ {w} : place'[v] = place[v]
  BY <1>1, <1>2 DEF TypeOK, Places, Left
<1> QED BY <1>1, <1>3, <1>4, Leave

LEMMA CrashStep ==
    ASSUME RuntimeInv, NEW p \in Process, Crash(p)
    PROVE  RuntimeInv'
<1> DEFINE gone == {w \in Writer : Home(w) = p /\ UnderWay(w)}
<1>1. /\ place' = [w \in Writer |-> IF w \in gone THEN Left(w) ELSE place[w]]
      /\ lock' = [lock EXCEPT ![p] = None]
      /\ running' \in BOOLEAN
      /\ UNCHANGED <<storage, copy, total>>
  BY DEF Crash
<1>2. place' \in [Writer -> Places]
  BY <1>1 DEF RuntimeInv, TypeOK, Places, Left
<1>3. lock' \in [Process -> Merge \union {None}]
  BY <1>1 DEF RuntimeInv, TypeOK
<1>4. ASSUME NEW v \in Writer
      PROVE  lock'[Home(v)] = v <=> lock[Home(v)] = v /\ v \notin gone
  <2>1. Home(v) \in Process /\ None # v
    BY WriterAssumption DEF Home, Process, Writer, Merge
  <2>2. lock[Home(v)] = v => UnderWay(v)
    BY DEF RuntimeInv, TypeOK, Holds, UnderWay
  <2> QED BY <1>1, <2>1, <2>2 DEF RuntimeInv, TypeOK
<1> QED BY <1>1, <1>2, <1>3, <1>4, Leave

LEMMA LoopStarts ==
    ASSUME RuntimeInv, ActivityStarts \/ ActivityEnds
    PROVE  RuntimeInv'
<1>1. running' \in BOOLEAN /\ UNCHANGED <<doc, ideal, stale, behind, damage, place, lock, copy, total>>
  BY DEF ActivityStarts, ActivityEnds, storage
<1> QED
  BY <1>1 DEF RuntimeInv, TypeOK, PlacesFit, CopiesAreCurrent, TotalsAreCurrent, DocumentAddsUp,
              Holds, Pending

-----------------------------------------------------------------------------
\* The step that changes the document.  After it every other copy is stale:
\* one that is not would share the lock of the writer.
LEMMA StoreStep ==
    ASSUME RuntimeInv, NEW w \in Writer, Store(w)
    PROVE  RuntimeInv'
<1> USE WriterAssumption DEF Writer, Merge
<1> DEFINE counted == IF w \in Call THEN total[w] \union {w} ELSE {}
<1>1. /\ place' \in [Writer -> Places]
      /\ place[w] \in {"put", "late"}
      /\ place'[w] \in {"stored", "over"}
      /\ place'[w] = "stored" <=> place[w] = "put" /\ w # Snapshot
      /\ \A v \in Writer \ {w} : place'[v] = place[v]
  BY DEF Store, At, RuntimeInv, TypeOK, Places
<1>2. /\ doc' = Merged(copy[w], w, counted)
      /\ ideal' = Merged(ideal, w, ideal.tokens \union {w})
      /\ copy' = [copy EXCEPT ![w] = Fresh]
      /\ total' = [c \in Call |-> IF c = w THEN {} ELSE total[c]]
      /\ UNCHANGED <<lock, running>>
  BY DEF Store, Stored
<1>3. TypeOK /\ Pending(w) /\ copy[w] \in Document /\ ideal \in Document /\ doc \in Document
  BY <1>1 DEF RuntimeInv, TypeOK, Pending
<1>4. counted \in SUBSET Call
  BY <1>3 DEF TypeOK
<1>5. doc' \in Document
  BY <1>2, <1>3, <1>4, MergedIsDocument
<1>6. ideal' \in Document
  BY <1>2, <1>3 DEF Merged, Document
<1>7. \A v \in Writer : Holds(v)' <=> Holds(v)
  BY <1>1 DEF Holds
<1>8. TypeOK'
  <2>1. copy' \in [Writer -> Document]
    BY <1>2, <1>3, FreshIsDocument DEF TypeOK
  <2>2. stale' \subseteq Writer /\ behind' \subseteq Call /\ damage' \subseteq {"document", "counter"}
    BY <1>3 DEF Store, TypeOK
  <2> QED BY <1>1, <1>2, <1>3, <1>5, <1>6, <1>7, <2>1, <2>2 DEF TypeOK
<1>9. PlacesFit'
  BY <1>1 DEF RuntimeInv, PlacesFit
<1>10. CopiesAreCurrent'
  <2> SUFFICES ASSUME NEW v \in Writer, Pending(v)'
               PROVE  v \in stale'
    BY DEF CopiesAreCurrent
  <2>1. v # w /\ Pending(v)
    BY <1>1 DEF Pending
  <2>2. ~(Holds(v) /\ Holds(w) /\ Home(v) = Home(w))
    BY <1>3, <2>1, OneHolder
  <2> QED BY <2>1, <2>2 DEF Store
<1>11. "document" \notin damage' => "document" \notin damage /\ copy[w] = doc
  BY <1>3 DEF Store, RuntimeInv, CopiesAreCurrent
<1>12. damage' = {} =>
          /\ damage = {} /\ copy[w] = doc
          /\ w \in Call => total[w] = doc.tokens
  <2>1. damage' = {} => damage = {} /\ w \notin stale /\ w \notin behind
    BY DEF Store
  <2> QED BY <1>1, <1>3, <2>1 DEF RuntimeInv, CopiesAreCurrent, TotalsAreCurrent
<1>13. TotalsAreCurrent'
  <2> SUFFICES ASSUME damage' = {}, NEW c \in Call,
                      place'[c] \in {"wait", "get", "got", "put", "late"}, c \notin behind'
               PROVE  total'[c] = doc'.tokens
    BY DEF TotalsAreCurrent
  <2>1. c # w
    BY <1>1
  <2>2. w \notin Call /\ c \notin behind /\ place'[c] = place[c]
    BY <1>1, <2>1 DEF Store
  <2>3. doc'.tokens = doc.tokens /\ total'[c] = total[c]
    BY <1>2, <1>12, <2>1, <2>2 DEF Merged
  <2> QED BY <1>12, <2>2, <2>3 DEF RuntimeInv, TotalsAreCurrent
<1>14. DocumentAddsUp'
  <2>1. ASSUME "document" \notin damage' PROVE doc'.fields = ideal'.fields
    <3>1. copy[w].fields = ideal.fields
      BY <1>11, <2>1 DEF RuntimeInv, DocumentAddsUp
    <3> QED BY <1>2, <1>3, <3>1, MergedFields
  <2>2. ASSUME damage' = {} PROVE doc'.tokens = ideal'.tokens
    <3>1. doc.tokens = ideal.tokens
      BY <1>12, <2>2 DEF RuntimeInv, DocumentAddsUp
    <3> QED BY <1>2, <1>12, <2>2, <3>1 DEF Merged
  <2> QED BY <2>1, <2>2 DEF DocumentAddsUp
<1> QED BY <1>8, <1>9, <1>10, <1>13, <1>14 DEF RuntimeInv

-----------------------------------------------------------------------------
LEMMA RuntimeInit == Init => RuntimeInv
<1> SUFFICES ASSUME Init PROVE RuntimeInv
  OBVIOUS
<1> USE WriterAssumption, FreshIsDocument DEF Init, Writer, Merge
<1>1. TypeOK
  BY DEF TypeOK, Places, Holds, Process, Home
<1>2. PlacesFit /\ CopiesAreCurrent /\ TotalsAreCurrent /\ DocumentAddsUp
  BY DEF PlacesFit, CopiesAreCurrent, TotalsAreCurrent, DocumentAddsUp
<1> QED BY <1>1, <1>2 DEF RuntimeInv

LEMMA RuntimeNext == RuntimeInv /\ [Next]_vars => RuntimeInv'
<1> SUFFICES ASSUME RuntimeInv, [Next]_vars PROVE RuntimeInv'
  OBVIOUS
<1>1. ASSUME NEW w \in Writer, Begin(w) \/ Sidecar(w) \/ Progress(w) \/ ActivityCut(w)
      PROVE  RuntimeInv'
  BY <1>1, BeginStep, ReadTotalStep, ReadStep, StoreStep, TakeLockStep, SendPutStep, LeaveStep
     DEF Sidecar, Progress
<1>2. CASE ActivityStarts \/ ActivityEnds
  BY <1>2, LoopStarts
<1>3. ASSUME NEW p \in Process, Crash(p) PROVE RuntimeInv'
  BY <1>3, CrashStep
<1>4. CASE UNCHANGED vars
  BY <1>4 DEF vars, RuntimeInv, TypeOK, PlacesFit, CopiesAreCurrent, TotalsAreCurrent,
              DocumentAddsUp, Holds, Pending
<1> QED BY <1>1, <1>2, <1>3, <1>4 DEF Next

\* The invariant of the runtime document: types and lock, the writers' places,
\* and which copies and totals are still current.
THEOREM RuntimeInvariant == Spec => []RuntimeInv
BY RuntimeInit, RuntimeNext, PTL DEF Spec

\* Types, and the lock: a merge is between its GET and the end of its PUT
\* exactly while it holds the lock of its process.
THEOREM RuntimeTypeCorrect == Spec => []TypeOK
<1>1. RuntimeInv => TypeOK
  BY DEF RuntimeInv
<1> QED BY <1>1, RuntimeInvariant, PTL

\* For any number of writers: patches and counts are lost only to a PUT made
\* stale from outside its lock, or to overlapping counts
\* (merge_task_runtime_state, accumulator).
THEOREM DocumentAlwaysAddsUp == Spec => []DocumentAddsUp
<1>1. RuntimeInv => DocumentAddsUp
  BY DEF RuntimeInv
<1> QED BY <1>1, RuntimeInvariant, PTL
=============================================================================
