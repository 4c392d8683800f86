------------------------- MODULE ThreadPoolProofs -------------------------
(***************************************************************************)
(* TLAPS proofs about ThreadPool, for any number of requests and worker    *)
(* threads, any ring size and any limits: the type invariant, the          *)
(* bookkeeping of active_threads and of the handle list, the absence of    *)
(* lost wake-ups, and of the requests: none is in two places, the ring     *)
(* implements the queue of RequestQueue, and until it grows it loses       *)
(* nothing.                                                                *)
(***************************************************************************)
EXTENDS ThreadPool, FiniteSetTheorems, SequenceTheorems, TLAPS

\* x & (n - 1) below n, and one lap further.
LEMMA ModSmall ==
  ASSUME NEW n \in Nat, n > 0, NEW x \in 0 .. (n - 1)
  PROVE  x % n = x
  BY SMT

LEMMA ModWrap ==
  ASSUME NEW n \in Nat, n > 0, NEW x \in n .. (2 * n - 1)
  PROVE  x % n = x - n
  BY SMT

\* The number of entries the code computes, without the remainder.
LEMMA NumEntriesIs ==
  ASSUME NEW n \in Nat, n > 0, NEW h \in 0 .. (n - 1), NEW t \in 0 .. (n - 1)
  PROVE  NumEntries(h, t, n) = IF t >= h THEN t - h ELSE (t + n) - h
<1>1. CASE t >= h
  <2>1. (t + n) - h \in n .. (2 * n - 1)
    BY <1>1
  <2> QED
    BY <1>1, <2>1, ModWrap DEF NumEntries
<1>2. CASE ~(t >= h)
  <2>1. (t + n) - h \in 0 .. (n - 1)
    BY <1>2
  <2> QED
    BY <1>2, <2>1, ModSmall DEF NumEntries
<1> QED
  BY <1>1, <1>2

LEMMA NumEntriesNat ==
  ASSUME NEW n \in Nat, n > 0, NEW h \in 0 .. (n - 1), NEW t \in 0 .. (n - 1)
  PROVE  NumEntries(h, t, n) \in Nat
  BY NumEntriesIs

\* Moving an index one slot on.
LEMMA MaskIs ==
  ASSUME NEW n \in Nat, n > 0, NEW x \in 0 .. (n - 1)
  PROVE  Mask(x + 1, n) = IF x + 1 = n THEN 0 ELSE x + 1
<1>1. CASE x + 1 = n
  BY <1>1, ModWrap, n \in n .. (2 * n - 1) DEF Mask
<1>2. CASE x + 1 # n
  BY <1>2, ModSmall, x + 1 \in 0 .. (n - 1) DEF Mask
<1> QED
  BY <1>1, <1>2
---------------------------------------------------------------------------
(* Type correctness.                                                       *)

LEMMA FiniteParts ==
  ASSUME NEW S \in SUBSET Threads
  PROVE  IsFiniteSet(S) /\ Cardinality(S) \in Nat
  BY HandlesAssumption, FS_Subset, FS_CardinalityType

\* Rewinding a drained ring keeps the indices inside it.
LEMMA RewindRange ==
  ASSUME TypeOK
  PROVE  /\ Rewind(head) \in 0 .. (size - 1)
         /\ Rewind(tail) \in 0 .. (size - 1)
  BY DEF TypeOK, Rewind

LEMMA SpawnType ==
  ASSUME TypeOK, NEW S \in SUBSET Threads, SpawnAll(S)
  PROVE  /\ total' \in Int /\ listed' \subseteq Threads
         /\ status' \in [Threads -> Statuses] /\ busy' \in [Threads -> BOOLEAN]
         /\ served' \in [Threads -> Nat] /\ pc' \in [Threads -> WorkerPCs]
         /\ cur' \in [Threads -> Requests \cup {Null, Garbage}]
<1>1. total' \in Int /\ listed' \subseteq Threads
  BY FiniteParts DEF TypeOK, SpawnAll
<1>2. busy' \in [Threads -> BOOLEAN]
  BY Zenon DEF TypeOK, SpawnAll
<1>3. status' \in [Threads -> Statuses] /\ pc' \in [Threads -> WorkerPCs]
  BY DEF TypeOK, SpawnAll, Statuses, WorkerPCs
<1>4. served' \in [Threads -> Nat]
      /\ cur' \in [Threads -> Requests \cup {Null, Garbage}]
  BY DEF TypeOK, SpawnAll
<1> QED
  BY <1>1, <1>2, <1>3, <1>4

LEMMA PutType ==
  ASSUME TypeOK, NEW n \in Nat, n >= size,
         NEW q \in [0 .. (n - 1) -> Requests \cup {Null, Garbage}], Put(q, n)
  PROVE  /\ size' \in Nat /\ size' > 1
         /\ queue' \in [0 .. (size' - 1) -> Requests \cup {Null, Garbage}]
         /\ head' \in 0 .. (size' - 1) /\ tail' \in 0 .. (size' - 1)
         /\ opc' \in OwnerPCs
<1>1. n > 1 /\ Rewind(tail) \in 0 .. (n - 1) /\ Rewind(head) \in 0 .. (n - 1)
  BY RewindRange DEF TypeOK
<1>2. tail' \in 0 .. (n - 1)
  BY <1>1, MaskIs DEF Put
<1> QED
  BY <1>1, <1>2 DEF Put, TypeOK, OwnerPCs

LEMMA TypeInit == Init => TypeOK
  BY PoolAssumption DEF Init, TypeOK, Statuses, WorkerPCs, OwnerPCs

LEMMA TypeNext == TypeOK /\ [Next]_vars => TypeOK'
<1> SUFFICES ASSUME TypeOK, [Next]_vars PROVE TypeOK'
  OBVIOUS
<1> USE DEF ringVars, handleVars, workVars, histVars
<1>1. CASE IPStat_pool_init
  <2>1. PICK S \in SUBSET Threads : SpawnAll(S) /\ phase' \in {"up", "failed"}
    BY <1>1 DEF IPStat_pool_init, SpawnSets, FreeHandles
  <2> QED
    BY <1>1, <2>1, SpawnType DEF IPStat_pool_init, TypeOK
<1>2. ASSUME NEW r \in Requests, IPStat_pool_addrequest(r) PROVE TypeOK'
  <2>1. CASE active = total
    <3>1. PICK S \in SUBSET Threads : SpawnAll(S)
      BY <1>2, <2>1 DEF IPStat_pool_addrequest, SpawnSets, FreeHandles
    <3> QED
      BY <1>2, <3>1, SpawnType DEF IPStat_pool_addrequest, TypeOK, OwnerPCs
  <2>2. CASE active # total
    BY <1>2, <2>2 DEF IPStat_pool_addrequest, TypeOK, OwnerPCs
  <2> QED
    BY <2>1, <2>2
<1>3. CASE IPStat_request_enqueue
  <2>1. CASE EnqueueRoom
    <3>1. size \in Nat /\ Put(queue, size)
          /\ queue \in [0 .. (size - 1) -> Requests \cup {Null, Garbage}]
      BY <2>1 DEF EnqueueRoom, TypeOK
    <3>2. /\ size' \in Nat /\ size' > 1
          /\ queue' \in [0 .. (size' - 1) -> Requests \cup {Null, Garbage}]
          /\ head' \in 0 .. (size' - 1) /\ tail' \in 0 .. (size' - 1)
          /\ opc' \in OwnerPCs
      BY <3>1, PutType
    <3> QED
      BY <1>3, <3>1, <3>2 DEF IPStat_request_enqueue, Put, TypeOK
  <2>2. CASE EnqueueGrow
    <3>1. /\ 2 * size \in Nat /\ 2 * size >= size /\ Put(Grown, 2 * size)
          /\ Grown \in [0 .. (2 * size - 1) -> Requests \cup {Null, Garbage}]
      BY <2>2 DEF EnqueueGrow, Grown, TypeOK
    <3>2. /\ size' \in Nat /\ size' > 1
          /\ queue' \in [0 .. (size' - 1) -> Requests \cup {Null, Garbage}]
          /\ head' \in 0 .. (size' - 1) /\ tail' \in 0 .. (size' - 1)
          /\ opc' \in OwnerPCs
      BY <3>1, PutType
    <3> QED
      BY <1>3, <3>1, <3>2 DEF IPStat_request_enqueue, Put, TypeOK
  <2>3. CASE EnqueueHeapOverrun
    BY <1>3, <2>3 DEF IPStat_request_enqueue, EnqueueHeapOverrun, TypeOK
  <2>4. CASE EnqueueDiscard
    BY <1>3, <2>4 DEF IPStat_request_enqueue, EnqueueDiscard, TypeOK, OwnerPCs
  <2> QED
    BY <1>3, <2>1, <2>2, <2>3, <2>4 DEF IPStat_request_enqueue
<1>4. CASE Post
  BY <1>4 DEF Post, TypeOK, OwnerPCs
<1>5. CASE CleanReap
  <2>1. Exited \in SUBSET Threads
    BY DEF Exited, TypeOK
  <2> QED
    BY <1>5, <2>1, FiniteParts DEF CleanReap, TypeOK, Statuses, WorkerPCs, OwnerPCs
<1>6. CASE CleanSpawn
  <2>1. PICK S \in SUBSET Threads : SpawnAll(S)
    BY <1>6 DEF CleanSpawn, SpawnSets, FreeHandles
  <2> QED
    BY <1>6, <2>1, SpawnType DEF CleanSpawn, TypeOK, OwnerPCs
<1>7. CASE CleanTooSoon
  BY <1>7 DEF CleanTooSoon, TypeOK, OwnerPCs
<1>8. CASE CleanShrink
  <2>1. ASSUME spare > MaxSpare /\ Cancellable # {}
        PROVE  status' \in [Threads -> Statuses] /\ sem' \in Nat
    <3>1. PICK t \in Threads : Cancel({t})
      BY <1>8, <2>1 DEF CleanShrink, Cancellable, TypeOK
    <3>2. Cardinality({t}) \in Nat
      BY FiniteParts
    <3> QED
      BY <3>1, <3>2 DEF Cancel, TypeOK, Statuses
  <2>2. status' \in [Threads -> Statuses] /\ sem' \in Nat
    BY <1>8, <2>1 DEF CleanShrink, TypeOK
  <2> QED
    BY <1>8, <2>2 DEF CleanShrink, TypeOK, OwnerPCs
<1>9. CASE CleanRecycle
  <2>1. {t \in Cancellable : served[t] > MaxPerThread} \in SUBSET Threads
    BY DEF Cancellable, TypeOK
  <2>2. status' \in [Threads -> Statuses] /\ sem' \in Nat
    BY <1>9, <2>1, FiniteParts DEF CleanRecycle, Cancel, TypeOK, Statuses
  <2> QED
    BY <1>9, <2>2 DEF CleanRecycle, TypeOK, OwnerPCs
<1>10. CASE IPStat_pool_free
  BY <1>10 DEF IPStat_pool_free, TypeOK, Statuses
<1>11. ASSUME NEW t \in Threads, Worker(t) PROVE TypeOK'
  <2>1. CASE SemWait(t)
    BY <2>1 DEF SemWait, Goto, TypeOK, WorkerPCs
  <2>2. CASE SemTimeout(t)
    BY <2>2 DEF SemTimeout, NextTurn, Goto, TypeOK, WorkerPCs, Statuses
  <2>3. CASE IPStat_request_dequeue(t)
    <3>1. CASE DequeueEmpty(t)
      BY <2>3, <3>1 DEF IPStat_request_dequeue, DequeueEmpty, NextTurn, Goto,
                        TypeOK, WorkerPCs, Statuses
    <3>2. CASE DequeueRequest(t)
      <4>1. head' \in 0 .. (size - 1)
        BY <3>2, MaskIs DEF DequeueRequest, TypeOK
      <4> QED
        BY <2>3, <3>2, <4>1 DEF IPStat_request_dequeue, DequeueRequest, Goto,
                                TypeOK, WorkerPCs
    <3> QED
      BY <2>3, <3>1, <3>2 DEF IPStat_request_dequeue
  <2>4. CASE HandlerCall(t)
    BY <2>4 DEF HandlerCall, Goto, TypeOK, WorkerPCs
  <2>5. CASE HandlerReturn(t)
    BY <2>5 DEF HandlerReturn, Goto, TypeOK, WorkerPCs
  <2>6. CASE Finish(t)
    <3>1. pc' \in [Threads -> WorkerPCs] /\ status' \in [Threads -> Statuses]
      BY <2>6 DEF Finish, NextTurn, Goto, TypeOK, WorkerPCs, Statuses
    <3>2. active' \in Int
      BY <2>6 DEF Finish, TypeOK
    <3> QED
      BY <2>6, <3>1, <3>2 DEF Finish, TypeOK
  <2> QED
    BY <1>11, <2>1, <2>2, <2>3, <2>4, <2>5, <2>6 DEF Worker
<1>12. CASE UNCHANGED vars
  BY <1>12 DEF vars, TypeOK
<1> QED
  BY <1>1, <1>2, <1>3, <1>4, <1>5, <1>6, <1>7, <1>8, <1>9, <1>10, <1>11, <1>12
  DEF Next, Owner

\* The ring indices and every other variable of the pool stay in their
\* ranges, for every ring size, growth sequence and number of threads.
THEOREM TypeCorrect == Spec => []TypeOK
  BY TypeInit, TypeNext, PTL DEF Spec
---------------------------------------------------------------------------
(* Counting the workers that stand at given places.                        *)

LEMMA AtFinite ==
  ASSUME NEW L
  PROVE  IsFiniteSet(At(L)) /\ Cardinality(At(L)) \in Nat
  BY FiniteParts DEF At

LEMMA AtEnter ==
  ASSUME TypeOK, NEW L, NEW t \in Threads, NEW l, Goto(t, l),
         pc[t] \notin L, l \in L
  PROVE  Cardinality(At(L)') = Cardinality(At(L)) + 1
<1>1. At(L)' = At(L) \cup {t} /\ t \notin At(L)
  BY DEF At, Goto, TypeOK
<1> QED
  BY <1>1, AtFinite, FS_AddElement

LEMMA AtLeave ==
  ASSUME TypeOK, NEW L, NEW t \in Threads, NEW l, Goto(t, l),
         pc[t] \in L, l \notin L
  PROVE  Cardinality(At(L)') = Cardinality(At(L)) - 1
<1>1. At(L)' = At(L) \ {t} /\ t \in At(L)
  BY DEF At, Goto, TypeOK
<1> QED
  BY <1>1, AtFinite, FS_RemoveElement

LEMMA AtStay ==
  ASSUME TypeOK, NEW L, NEW t \in Threads, NEW l, Goto(t, l),
         pc[t] \in L <=> l \in L
  PROVE  At(L)' = At(L)
  BY DEF At, Goto, TypeOK

\* A worker at the end of its turn goes back to wait or exits.
LEMMA TurnAt ==
  ASSUME TypeOK, NEW t \in Threads, NextTurn(t)
  PROVE  \E l \in {"wait", "exited"} : Goto(t, l)
  BY DEF NextTurn

LEMMA SpawnAt ==
  ASSUME TypeOK, NEW L, "none" \notin L, "wait" \notin L,
         NEW S \in SUBSET FreeHandles, SpawnAll(S)
  PROVE  At(L)' = At(L)
  BY DEF TypeOK, At, FreeHandles, SpawnAll

\* Only a worker that has left its loop is marked as exited.
ExitedGone == \A t \in Threads : status[t] = "EXITED" => pc[t] = "exited"

LEMMA SpawnGone ==
  ASSUME TypeOK, ExitedGone, NEW S \in SUBSET FreeHandles, SpawnAll(S)
  PROVE  ExitedGone'
  BY DEF TypeOK, ExitedGone, FreeHandles, SpawnAll

LEMMA GoneInit == Init => ExitedGone
  BY DEF Init, ExitedGone

LEMMA GoneNext == TypeOK /\ ExitedGone /\ [Next]_vars => ExitedGone'
<1> SUFFICES ASSUME TypeOK, ExitedGone, [Next]_vars PROVE ExitedGone'
  OBVIOUS
<1> USE DEF handleVars, workVars
<1>1. CASE IPStat_pool_init
  BY <1>1, SpawnGone DEF IPStat_pool_init, SpawnSets
<1>2. ASSUME NEW r \in Requests, IPStat_pool_addrequest(r) PROVE ExitedGone'
  <2>1. CASE active = total
    BY <1>2, <2>1, SpawnGone DEF IPStat_pool_addrequest, SpawnSets
  <2>2. CASE active # total
    BY <1>2, <2>2 DEF IPStat_pool_addrequest, ExitedGone
  <2> QED
    BY <2>1, <2>2
<1>3. CASE IPStat_request_enqueue
  BY <1>3 DEF IPStat_request_enqueue, ExitedGone
<1>4. CASE Post
  BY <1>4 DEF Post, ExitedGone
<1>5. CASE CleanReap
  BY <1>5 DEF CleanReap, Exited, ExitedGone, TypeOK
<1>6. CASE CleanSpawn
  BY <1>6, SpawnGone DEF CleanSpawn, SpawnSets
<1>7. CASE CleanTooSoon
  BY <1>7 DEF CleanTooSoon, ExitedGone
<1>8. CASE CleanShrink
  BY <1>8 DEF CleanShrink, Cancel, ExitedGone, TypeOK
<1>9. CASE CleanRecycle
  BY <1>9 DEF CleanRecycle, Cancel, ExitedGone, TypeOK
<1>10. CASE IPStat_pool_free
  BY <1>10 DEF IPStat_pool_free, ExitedGone, TypeOK
<1>11. ASSUME NEW t \in Threads, Worker(t) PROVE ExitedGone'
  <2>1. CASE SemWait(t)
    BY <2>1 DEF SemWait, Goto, ExitedGone, TypeOK
  <2>2. CASE SemTimeout(t)
    BY <2>2 DEF SemTimeout, NextTurn, Goto, ExitedGone, TypeOK
  <2>3. CASE IPStat_request_dequeue(t)
    BY <2>3 DEF IPStat_request_dequeue, DequeueEmpty, DequeueRequest, NextTurn,
                Goto, ExitedGone, TypeOK
  <2>4. CASE HandlerCall(t)
    BY <2>4 DEF HandlerCall, Goto, ExitedGone, TypeOK
  <2>5. CASE HandlerReturn(t)
    BY <2>5 DEF HandlerReturn, Goto, ExitedGone, TypeOK
  <2>6. CASE Finish(t)
    BY <2>6 DEF Finish, NextTurn, Goto, ExitedGone, TypeOK
  <2> QED
    BY <1>11, <2>1, <2>2, <2>3, <2>4, <2>5, <2>6 DEF Worker
<1>12. CASE UNCHANGED vars
  BY <1>12 DEF vars, ExitedGone
<1> QED
  BY <1>1, <1>2, <1>3, <1>4, <1>5, <1>6, <1>7, <1>8, <1>9, <1>10, <1>11, <1>12
  DEF Next, Owner

\* The owner's steps move no worker that is between its wait and its report.
LEMMA OwnerAt ==
  ASSUME TypeOK, ExitedGone, Owner, NEW L \in SUBSET (Holding \cup {"dequeue"})
  PROVE  At(L)' = At(L)
<1> USE DEF workVars, handleVars
<1>0. "none" \notin L /\ "wait" \notin L /\ "exited" \notin L
  BY DEF Holding
<1>1. CASE IPStat_pool_init
  BY <1>0, <1>1, SpawnAt DEF IPStat_pool_init, SpawnSets
<1>2. ASSUME NEW r \in Requests, IPStat_pool_addrequest(r) PROVE At(L)' = At(L)
  <2>1. CASE active = total
    BY <1>0, <1>2, <2>1, SpawnAt DEF IPStat_pool_addrequest, SpawnSets
  <2>2. CASE active # total
    BY <1>2, <2>2 DEF IPStat_pool_addrequest, At
  <2> QED
    BY <2>1, <2>2
<1>3. CASE IPStat_request_enqueue
  BY <1>3 DEF IPStat_request_enqueue, At
<1>4. CASE Post
  BY <1>4 DEF Post, At
<1>5. CASE CleanReap
  BY <1>0, <1>5 DEF CleanReap, Exited, ExitedGone, TypeOK, At
<1>6. CASE CleanSpawn
  BY <1>0, <1>6, SpawnAt DEF CleanSpawn, SpawnSets
<1>7. CASE CleanTooSoon
  BY <1>7 DEF CleanTooSoon, At
<1>8. CASE CleanShrink \/ CleanRecycle \/ IPStat_pool_free
  BY <1>8 DEF CleanShrink, CleanRecycle, IPStat_pool_free, At
<1> QED
  BY <1>1, <1>2, <1>3, <1>4, <1>5, <1>6, <1>7, <1>8 DEF Owner
---------------------------------------------------------------------------
(* active_threads counts the workers that hold a request.                  *)

LEMMA ActiveInit == Init => ActiveExact
<1> SUFFICES ASSUME Init PROVE ActiveExact
  OBVIOUS
<1>1. At(Holding) = {}
  BY DEF Init, At, Holding
<1> QED
  BY <1>1, FS_EmptySet DEF Init, ActiveExact

LEMMA ActiveNext ==
  TypeOK /\ ExitedGone /\ ActiveExact /\ [Next]_vars => ActiveExact'
<1> SUFFICES ASSUME TypeOK, ExitedGone, ActiveExact, [Next]_vars
             PROVE  ActiveExact'
  OBVIOUS
<1>1. CASE Owner
  <2>1. At(Holding)' = At(Holding)
    BY <1>1, OwnerAt
  <2>2. active' = active
    BY <1>1 DEF Owner, IPStat_pool_init, IPStat_pool_addrequest,
                IPStat_request_enqueue, Post, CleanReap, CleanSpawn,
                CleanTooSoon, CleanShrink, CleanRecycle, IPStat_pool_free
  <2> QED
    BY <2>1, <2>2 DEF ActiveExact
<1>2. ASSUME NEW t \in Threads, Worker(t) PROVE ActiveExact'
  <2>1. CASE SemWait(t)
    <3>1. At(Holding)' = At(Holding)
      BY <2>1, AtStay DEF SemWait, Holding
    <3> QED
      BY <2>1, <3>1 DEF SemWait, ActiveExact
  <2>2. CASE SemTimeout(t)
    <3>1. At(Holding)' = At(Holding)
      BY <2>2, AtStay, TurnAt DEF SemTimeout, Holding
    <3> QED
      BY <2>2, <3>1 DEF SemTimeout, ActiveExact
  <2>3. CASE pc[t] = "dequeue" /\ DequeueEmpty(t)
    <3>1. At(Holding)' = At(Holding)
      BY <2>3, AtStay, TurnAt DEF DequeueEmpty, Holding
    <3> QED
      BY <2>3, <3>1 DEF DequeueEmpty, ActiveExact
  <2>4. CASE pc[t] = "dequeue" /\ DequeueRequest(t)
    <3>1. Cardinality(At(Holding)') = Cardinality(At(Holding)) + 1
      BY <2>4, AtEnter DEF DequeueRequest, Holding
    <3> QED
      BY <2>4, <3>1 DEF DequeueRequest, ActiveExact
  <2>5. CASE HandlerCall(t)
    <3>1. At(Holding)' = At(Holding)
      BY <2>5, AtStay DEF HandlerCall, Holding
    <3> QED
      BY <2>5, <3>1 DEF HandlerCall, ActiveExact
  <2>6. CASE HandlerReturn(t)
    <3>1. At(Holding)' = At(Holding)
      BY <2>6, AtStay DEF HandlerReturn, Holding
    <3> QED
      BY <2>6, <3>1 DEF HandlerReturn, ActiveExact
  <2>7. CASE Finish(t)
    <3>1. Cardinality(At(Holding)') = Cardinality(At(Holding)) - 1
      BY <2>7, AtLeave, TurnAt DEF Finish, Holding
    <3> QED
      BY <2>7, <3>1 DEF Finish, ActiveExact
  <2> QED
    BY <1>2, <2>1, <2>2, <2>3, <2>4, <2>5, <2>6, <2>7
    DEF Worker, IPStat_request_dequeue
<1>3. CASE UNCHANGED vars
  BY <1>3 DEF vars, workVars, ActiveExact, At
<1> QED
  BY <1>1, <1>2, <1>3 DEF Next

\* active_threads, on which IPStat_pool_addrequest decides whether to spawn,
\* is exact in every reachable state, cancellations and growth included.
THEOREM ActiveCorrect == Spec => []ActiveExact
<1>1. Init => TypeOK /\ ExitedGone /\ ActiveExact
  BY TypeInit, GoneInit, ActiveInit
<1>2. TypeOK /\ ExitedGone /\ ActiveExact /\ [Next]_vars
        => (TypeOK /\ ExitedGone /\ ActiveExact)'
  BY TypeNext, GoneNext, ActiveNext
<1> QED
  BY <1>1, <1>2, PTL DEF Spec
---------------------------------------------------------------------------
(* The wake-up invariant.                                                  *)

\* The post the owner still owes after it has unlocked the mutex.
Owed == IF opc = "post" THEN 1 ELSE 0

LEMMA EntriesIs ==
  ASSUME TypeOK
  PROVE  Entries = IF tail >= head THEN tail - head ELSE (tail + size) - head
  BY NumEntriesIs DEF TypeOK, Entries

LEMMA EntriesIsNext ==
  ASSUME TypeOK'
  PROVE  Entries' = IF tail' >= head' THEN tail' - head' ELSE (tail' + size') - head'
<1>1. Entries' = NumEntries(head', tail', size')
  BY DEF Entries, NumEntries
<1>2. size' \in Nat /\ size' > 1
      /\ head' \in 0 .. (size' - 1) /\ tail' \in 0 .. (size' - 1)
  BY Zenon DEF TypeOK
<1>3. size' > 0
  BY <1>2
<1> QED
  BY <1>1, <1>2, <1>3, NumEntriesIs

\* An enqueue adds at most one entry: the growth of a wrapped ring, which
\* makes head and tail meet, only ever removes some.
LEMMA PutEntries ==
  ASSUME TypeOK, TypeOK', EnqueueRoom \/ EnqueueGrow
  PROVE  Entries' <= Entries + 1
<1> DEFINE h == Rewind(head)
           t == Rewind(tail)
<1>1. h \in 0 .. (size - 1) /\ t \in 0 .. (size - 1) /\ size \in Nat /\ size > 1
  BY RewindRange DEF TypeOK
<1>2. Entries = IF t >= h THEN t - h ELSE (t + size) - h
  BY EntriesIs DEF TypeOK, Rewind
<1>3. Entries' = IF tail' >= head' THEN tail' - head' ELSE (tail' + size') - head'
  BY EntriesIsNext
<1>4. NumEntries(h, t, size) = Entries
  BY <1>1, <1>2, NumEntriesIs
<1>5. CASE EnqueueRoom
  <2>1. head' = h /\ size' = size /\ Entries # size - 1
        /\ tail' = IF t + 1 = size THEN 0 ELSE t + 1
    BY <1>1, <1>4, <1>5, MaskIs DEF EnqueueRoom, Put, Full
  <2> QED
    BY <1>1, <1>2, <1>3, <2>1
<1>6. CASE EnqueueGrow
  <2>1. head' = h /\ size' = 2 * size /\ Entries = size - 1 /\ tail' = t + 1
    BY <1>1, <1>4, <1>6, MaskIs DEF EnqueueGrow, Put, Full
  <2> QED
    BY <1>1, <1>2, <1>3, <2>1
<1> QED
  BY <1>5, <1>6

LEMMA TakeEntries ==
  ASSUME TypeOK, TypeOK', NEW t \in Threads, DequeueRequest(t)
  PROVE  Entries' = Entries - 1
<1>0. size \in Nat /\ size > 1 /\ head \in 0 .. (size - 1) /\ tail \in 0 .. (size - 1)
  BY Zenon DEF TypeOK
<1>3. Entries = IF tail >= head THEN tail - head ELSE (tail + size) - head
  BY EntriesIs
<1>1. head' = (IF head + 1 = size THEN 0 ELSE head + 1) /\ head # tail
      /\ tail' = tail /\ size' = size
  BY MaskIs DEF DequeueRequest, TypeOK
<1>2. Entries' = IF tail' >= head' THEN tail' - head' ELSE (tail' + size') - head'
  BY EntriesIsNext
<1> QED
  BY <1>0, <1>1, <1>2, <1>3

LEMMA WakeupInit == Init => NoLostWakeup
<1> SUFFICES ASSUME Init PROVE NoLostWakeup
  OBVIOUS
<1>1. Entries = 0
  BY TypeInit, EntriesIs DEF Init, TypeOK
<1> QED
  BY <1>1, AtFinite DEF Init, NoLostWakeup

LEMMA WakeupNext ==
  TypeOK /\ ExitedGone /\ NoLostWakeup /\ [Next]_vars => NoLostWakeup'
<1> SUFFICES ASSUME TypeOK, ExitedGone, NoLostWakeup, [Next]_vars
             PROVE  NoLostWakeup'
  OBVIOUS
<1> USE DEF ringVars, handleVars, workVars
<1> DEFINE D == Cardinality(At({"dequeue"}))
<1>a. TypeOK'
  BY TypeNext
<1>b. D \in Nat /\ sem \in Nat /\ sem' \in Nat /\ Entries \in Nat /\ Entries' \in Nat
  <2>1. Entries' = NumEntries(head', tail', size')
    BY DEF Entries, NumEntries
  <2>2. /\ size \in Nat /\ size > 1 /\ head \in 0 .. (size - 1) /\ tail \in 0 .. (size - 1)
        /\ size' \in Nat /\ size' > 1
        /\ head' \in 0 .. (size' - 1) /\ tail' \in 0 .. (size' - 1)
        /\ sem \in Nat /\ sem' \in Nat
    BY <1>a, Zenon DEF TypeOK
  <2>3. size > 0 /\ size' > 0
    BY <2>2
  <2>4. Entries \in Nat /\ Entries' \in Nat
    BY <2>1, <2>2, <2>3, NumEntriesNat DEF Entries
  <2>5. D \in Nat
    BY AtFinite
  <2> QED
    BY <2>2, <2>4, <2>5
<1>c. Entries <= sem + D + Owed
  BY DEF NoLostWakeup, Owed
<1>d. ASSUME Entries' <= sem' + D' + Owed' PROVE NoLostWakeup'
  BY <1>d DEF NoLostWakeup, Owed
<1>e. ASSUME UNCHANGED ringVars PROVE Entries' = Entries
  BY <1>e DEF Entries
<1>1. CASE Owner
  <2>1. D' = D
    BY <1>1, OwnerAt
  <2>2. CASE IPStat_request_enqueue /\ (EnqueueRoom \/ EnqueueGrow)
    <3>1. Entries' <= Entries + 1 /\ sem' = sem /\ Owed = 0 /\ Owed' = 1
      BY <1>a, <2>2, PutEntries
      DEF IPStat_request_enqueue, EnqueueRoom, EnqueueGrow, Put, Owed
    <3> QED
      BY <1>b, <1>c, <1>d, <2>1, <3>1
  <2>3. CASE IPStat_request_enqueue /\ (EnqueueHeapOverrun \/ EnqueueDiscard)
    <3>1. Entries' = Entries /\ sem' = sem /\ Owed = 0 /\ Owed' = 0
      BY <1>e, <2>3 DEF IPStat_request_enqueue, EnqueueHeapOverrun,
                        EnqueueDiscard, Owed
    <3> QED
      BY <1>b, <1>c, <1>d, <2>1, <3>1
  <2>4. CASE Post
    <3>1. Entries' = Entries /\ sem' = sem + 1 /\ Owed = 1 /\ Owed' = 0
      BY <1>e, <2>4 DEF Post, Owed
    <3> QED
      BY <1>b, <1>c, <1>d, <2>1, <3>1
  <2>5. CASE CleanShrink \/ CleanRecycle
    <3>1. sem' >= sem
      <4>1. ASSUME NEW S \in SUBSET Threads, Cancel(S) PROVE sem' >= sem
        BY <1>b, <4>1, FiniteParts DEF Cancel
      <4>2. Cancellable \in SUBSET Threads
        BY DEF Cancellable, TypeOK
      <4>3. CASE CleanShrink
        <5>1. CASE spare > MaxSpare /\ Cancellable # {}
          <6>1. PICK u \in Threads : Cancel({u})
            BY <4>2, <4>3, <5>1 DEF CleanShrink
          <6> QED
            BY <4>1, <6>1
        <5>2. CASE ~(spare > MaxSpare /\ Cancellable # {})
          BY <1>b, <4>3, <5>2 DEF CleanShrink
        <5> QED
          BY <5>1, <5>2
      <4>4. CASE CleanRecycle
        <5>1. {t \in Cancellable : served[t] > MaxPerThread} \in SUBSET Threads
          BY <4>2
        <5> QED
          BY <1>b, <4>1, <4>4, <5>1 DEF CleanRecycle
      <4> QED
        BY <2>5, <4>3, <4>4
    <3>2. Entries' = Entries /\ Owed = 0 /\ Owed' = 0
      BY <1>e, <2>5 DEF CleanShrink, CleanRecycle, Owed
    <3> QED
      BY <1>b, <1>c, <1>d, <2>1, <3>1, <3>2
  <2>6. CASE \/ IPStat_pool_init \/ CleanReap \/ CleanSpawn \/ CleanTooSoon
             \/ IPStat_pool_free \/ \E r \in Requests : IPStat_pool_addrequest(r)
    <3>1. Entries' = Entries /\ sem' = sem /\ Owed' = Owed
      BY <1>e, <2>6 DEF IPStat_pool_init, CleanReap, CleanSpawn, CleanTooSoon,
                        IPStat_pool_free, IPStat_pool_addrequest, Owed
    <3> QED
      BY <1>b, <1>c, <1>d, <2>1, <3>1
  <2> QED
    BY <1>1, <2>2, <2>3, <2>4, <2>5, <2>6 DEF Owner, IPStat_request_enqueue
<1>2. ASSUME NEW t \in Threads, Worker(t) PROVE NoLostWakeup'
  <2>0. Owed' = Owed
    BY <1>2 DEF Worker, SemWait, SemTimeout, IPStat_request_dequeue, HandlerCall,
                HandlerReturn, Finish, Owed
  <2>1. CASE SemWait(t)
    <3>1. D' = D + 1
      BY <2>1, AtEnter DEF SemWait
    <3>2. Entries' = Entries /\ sem' = sem - 1
      BY <1>e, <2>1 DEF SemWait
    <3> QED
      BY <1>b, <1>c, <1>d, <2>0, <3>1, <3>2
  <2>2. CASE IPStat_request_dequeue(t) /\ DequeueEmpty(t)
    <3>1. D' = D - 1
      BY <2>2, AtLeave, TurnAt DEF IPStat_request_dequeue, DequeueEmpty
    <3>2. Entries' = Entries /\ Entries = 0
      BY <1>e, <2>2, EntriesIs DEF DequeueEmpty, TypeOK
    <3>3. D' \in Nat
      BY FiniteParts DEF At
    <3> QED
      BY <1>b, <1>d, <2>0, <3>2, <3>3 DEF Owed
  <2>3. CASE IPStat_request_dequeue(t) /\ DequeueRequest(t)
    <3>1. D' = D - 1
      BY <2>3, AtLeave DEF IPStat_request_dequeue, DequeueRequest
    <3>2. Entries' = Entries - 1 /\ sem' = sem
      BY <1>a, <2>3, TakeEntries DEF IPStat_request_dequeue
    <3>3. D' \in Nat /\ Owed \in Nat
      BY FiniteParts DEF At, Owed
    <3> QED
      BY <1>b, <1>c, <1>d, <2>0, <3>1, <3>2, <3>3
  <2>4. CASE SemTimeout(t) \/ HandlerCall(t) \/ HandlerReturn(t) \/ Finish(t)
    <3>1. D' = D
      <4>1. CASE SemTimeout(t) \/ Finish(t)
        BY <4>1, AtStay, TurnAt DEF SemTimeout, Finish
      <4>2. CASE HandlerCall(t) \/ HandlerReturn(t)
        BY <4>2, AtStay DEF HandlerCall, HandlerReturn
      <4> QED
        BY <2>4, <4>1, <4>2
    <3>2. Entries' = Entries /\ sem' = sem
      BY <1>e, <2>4 DEF SemTimeout, HandlerCall, HandlerReturn, Finish
    <3> QED
      BY <1>b, <1>c, <1>d, <2>0, <3>1, <3>2
  <2> QED
    BY <1>2, <2>1, <2>2, <2>3, <2>4 DEF Worker, IPStat_request_dequeue
<1>3. CASE UNCHANGED vars
  BY <1>3 DEF vars, NoLostWakeup, Entries, At
<1> QED
  BY <1>1, <1>2, <1>3 DEF Next

\* No wake-up is lost, for every number of requests and workers and every
\* ring size: a queued request always has a semaphore unit, a worker on its
\* way to the queue, or the owner's pending post.
THEOREM WakeupCorrect == Spec => []NoLostWakeup
<1>1. Init => TypeOK /\ ExitedGone /\ NoLostWakeup
  BY TypeInit, GoneInit, WakeupInit
<1>2. TypeOK /\ ExitedGone /\ NoLostWakeup /\ [Next]_vars
        => (TypeOK /\ ExitedGone /\ NoLostWakeup)'
  BY TypeNext, GoneNext, WakeupNext
<1> QED
  BY <1>1, <1>2, PTL DEF Spec
---------------------------------------------------------------------------
(* The handle list.                                                        *)

LEMMA SpawnHandles ==
  ASSUME TypeOK, HandlesExact, NEW S \in SUBSET FreeHandles, SpawnAll(S),
         total + Cardinality(S) <= MaxThreads
  PROVE  HandlesExact'
<1>1. S \in SUBSET Threads /\ listed \in SUBSET Threads /\ S \cap listed = {}
  BY DEF TypeOK, HandlesExact, FreeHandles
<1>2. Cardinality(listed \cup S) = Cardinality(listed) + Cardinality(S)
  <2>1. Cardinality(listed \cup S)
          = Cardinality(listed) + Cardinality(S) - Cardinality(listed \cap S)
    BY <1>1, FiniteParts, FS_Union
  <2>2. listed \cap S = {} /\ Cardinality({}) = 0
    BY <1>1, FS_EmptySet
  <2> QED
    BY <1>1, <2>1, <2>2, FiniteParts
<1>3. total' = Cardinality(listed') /\ total' <= MaxThreads
  BY <1>2 DEF SpawnAll, HandlesExact
<1>4. \A t \in Threads : pc'[t] # "none" <=> t \in listed'
  BY DEF SpawnAll, HandlesExact, TypeOK
<1> QED
  BY <1>3, <1>4 DEF HandlesExact

LEMMA HandlesInit == Init => HandlesExact
  BY PoolAssumption, FS_EmptySet DEF Init, HandlesExact

LEMMA HandlesNext ==
  TypeOK /\ ExitedGone /\ HandlesExact /\ [Next]_vars => HandlesExact'
<1> SUFFICES ASSUME TypeOK, ExitedGone, HandlesExact, [Next]_vars
             PROVE  HandlesExact'
  OBVIOUS
<1> USE DEF handleVars, workVars
<1>1. CASE IPStat_pool_init
  BY <1>1, SpawnHandles DEF IPStat_pool_init, SpawnSets
<1>2. ASSUME NEW r \in Requests, IPStat_pool_addrequest(r) PROVE HandlesExact'
  <2>1. CASE active = total
    BY <1>2, <2>1, SpawnHandles DEF IPStat_pool_addrequest, SpawnSets
  <2>2. CASE active # total
    BY <1>2, <2>2 DEF IPStat_pool_addrequest, HandlesExact
  <2> QED
    BY <2>1, <2>2
<1>3. CASE CleanSpawn
  BY <1>3, SpawnHandles DEF CleanSpawn, SpawnSets
<1>4. CASE CleanReap
  <2>1. Exited \in SUBSET Threads /\ listed \in SUBSET Threads
        /\ listed \cap Exited = Exited
    BY DEF Exited, TypeOK
  <2>2. Cardinality(listed \ Exited) = Cardinality(listed) - Cardinality(Exited)
    BY <2>1, FiniteParts, FS_Difference
  <2>3. Cardinality(listed) \in Nat /\ Cardinality(Exited) \in Nat
    BY <2>1, FiniteParts
  <2>4. total' = Cardinality(listed') /\ total' <= MaxThreads
    BY <1>4, <2>2, <2>3, PoolAssumption DEF CleanReap, HandlesExact
  <2>5. \A t \in Threads : pc'[t] # "none" <=> t \in listed'
    BY <1>4, <2>1 DEF CleanReap, HandlesExact, TypeOK
  <2> QED
    BY <2>4, <2>5 DEF HandlesExact
<1>5. CASE \/ IPStat_request_enqueue \/ Post \/ CleanTooSoon \/ CleanShrink
           \/ CleanRecycle \/ IPStat_pool_free
  BY <1>5 DEF IPStat_request_enqueue, Post, CleanTooSoon, CleanShrink,
              CleanRecycle, IPStat_pool_free, HandlesExact
<1>6. ASSUME NEW t \in Threads, Worker(t) PROVE HandlesExact'
  <2>1. total' = total /\ listed' = listed
    BY <1>6 DEF Worker, SemWait, SemTimeout, IPStat_request_dequeue, HandlerCall,
                HandlerReturn, Finish
  <2>2. pc[t] # "none" /\ \E l \in WorkerPCs \ {"none"} : Goto(t, l)
    BY <1>6 DEF Worker, SemWait, SemTimeout, IPStat_request_dequeue, DequeueEmpty,
                DequeueRequest, NextTurn, HandlerCall, HandlerReturn, Finish,
                WorkerPCs
  <2> QED
    BY <2>1, <2>2 DEF Goto, HandlesExact, TypeOK
<1>7. CASE UNCHANGED vars
  BY <1>7 DEF vars, HandlesExact
<1> QED
  BY <1>1, <1>2, <1>3, <1>4, <1>5, <1>6, <1>7 DEF Next, Owner

\* The pool never exceeds max_threads, total_threads is the length of the
\* handle list, and the handle of a running worker is never freed.
THEOREM HandlesCorrect == Spec => []HandlesExact
<1>1. Init => TypeOK /\ ExitedGone /\ HandlesExact
  BY TypeInit, GoneInit, HandlesInit
<1>2. TypeOK /\ ExitedGone /\ HandlesExact /\ [Next]_vars
        => (TypeOK /\ ExitedGone /\ HandlesExact)'
  BY TypeNext, GoneNext, HandlesNext
<1> QED
  BY <1>1, <1>2, PTL DEF Spec
---------------------------------------------------------------------------
(* The requests.                                                           *)

\* the i-th waiting request, from 0
Slot(i) == queue[Mask(head + i, size)]
Waits   == 0 .. (Entries - 1)

\* the one place of each request
QueueInv ==
  /\ \A i \in Waits : Slot(i) \in submitted \ (done \cup refused)
  /\ \A i, j \in Waits : Slot(i) = Slot(j) => i = j

HandInv ==
  /\ \A t \in InHand : cur[t] \in submitted \ (done \cup refused)
  /\ \A t \in InHand, i \in Waits : Slot(i) # cur[t]
  /\ \A t, u \in InHand : t # u => cur[t] # cur[u]

OwnerInv ==
  opc = "enqueue" =>
    /\ oreq \in submitted \ (done \cup refused)
    /\ \A i \in Waits : Slot(i) # oreq
    /\ \A t \in InHand : cur[t] # oreq

PlaceInv == done \cup refused \subseteq submitted /\ QueueInv /\ HandInv /\ OwnerInv

\* every request has a place, as long as the ring has not grown
Placed(r) ==
  \/ r \in refused \cup done
  \/ \E i \in Waits : r = Slot(i)
  \/ opc = "enqueue" /\ r = oreq
  \/ \E t \in InHand : r = cur[t]

KeptInv ==
  /\ size >= InitQueueSize
  /\ size = InitQueueSize => \A r \in submitted : Placed(r)
---------------------------------------------------------------------------
(* What the operations on the ring do to the waiting requests.             *)

\* The bit mask of the ring wraps an index at most once.
LEMMA MaskAt ==
  ASSUME NEW n \in Nat, n > 0, NEW h \in 0 .. (n - 1), NEW i \in 0 .. (n - 1)
  PROVE  Mask(h + i, n) = IF h + i < n THEN h + i ELSE (h + i) - n
<1>1. CASE h + i < n
  BY <1>1, ModSmall, h + i \in 0 .. (n - 1) DEF Mask
<1>2. CASE ~(h + i < n)
  BY <1>2, ModWrap, h + i \in n .. (2 * n - 1) DEF Mask
<1> QED
  BY <1>1, <1>2

\* The window between head and tail, in numbers.
LEMMA RingRange ==
  ASSUME TypeOK
  PROVE  /\ size \in Nat /\ size > 1 /\ head \in 0 .. (size - 1) /\ tail \in 0 .. (size - 1)
         /\ Entries \in 0 .. (size - 1)
         /\ Entries = IF tail >= head THEN tail - head ELSE (tail + size) - head
<1>1. size \in Nat /\ size > 1 /\ head \in 0 .. (size - 1) /\ tail \in 0 .. (size - 1)
  BY DEF TypeOK
<1>2. Entries = IF tail >= head THEN tail - head ELSE (tail + size) - head
  BY EntriesIs
<1> QED
  BY <1>1, <1>2

\* A step that leaves the ring alone leaves its window alone.
LEMMA RingSame ==
  ASSUME UNCHANGED ringVars
  PROVE  Entries' = Entries /\ Waits' = Waits /\ \A i : Slot(i)' = Slot(i)
  BY DEF ringVars, Entries, Waits, Slot

\* A put appends the owner's request, except that the growth of a wrapped
\* ring makes head and tail meet.
LEMMA RingPut ==
  ASSUME TypeOK, TypeOK', EnqueueRoom \/ EnqueueGrow
  PROVE  \/ /\ Entries' = Entries + 1
            /\ \A i \in 0 .. Entries : Slot(i)' = IF i < Entries THEN Slot(i) ELSE oreq
         \/ EnqueueGrow /\ Entries' = 0
<1> DEFINE h == Rewind(head)
           t == Rewind(tail)
<1>1. h \in 0 .. (size - 1) /\ t \in 0 .. (size - 1) /\ size \in Nat /\ size > 1
      /\ Entries \in 0 .. (size - 1)
  BY RewindRange, RingRange
<1>2. Entries = IF t >= h THEN t - h ELSE (t + size) - h
  BY RingRange DEF Rewind
<1>3. Entries' = IF tail' >= head' THEN tail' - head' ELSE (tail' + size') - head'
  BY EntriesIsNext
<1>4. NumEntries(h, t, size) = Entries
  BY <1>1, <1>2, NumEntriesIs
<1>5. Entries > 0 => h = head /\ t = tail
  BY <1>1, RingRange DEF Rewind
<1>6. queue \in [0 .. (size - 1) -> Requests \cup {Null, Garbage}]
  BY DEF TypeOK
<1>7. \A i \in 0 .. (size - 1) : Slot(i)' = queue'[Mask(head' + i, size')]
  BY DEF Slot, Mask
<1>8. ASSUME NEW i \in 0 .. (size - 1), i < Entries
      PROVE  Slot(i) = queue[IF h + i < size THEN h + i ELSE (h + i) - size]
  <2>1. h = head /\ Mask(h + i, size) = IF h + i < size THEN h + i ELSE (h + i) - size
    BY <1>1, <1>5, <1>8, MaskAt
  <2> QED
    BY <2>1 DEF Slot
<1>9. CASE EnqueueRoom
  <2>1. /\ head' = h /\ size' = size /\ Entries # size - 1
        /\ tail' = IF t + 1 = size THEN 0 ELSE t + 1
        /\ queue' = [queue EXCEPT ![t] = oreq]
    BY <1>1, <1>4, <1>9, MaskIs DEF EnqueueRoom, Put, Full
  <2> HIDE DEF h, t
  <2>2. Entries' = Entries + 1
    BY <1>1, <1>2, <1>3, <2>1
  <2>3. ASSUME NEW i \in 0 .. Entries
        PROVE  Slot(i)' = IF i < Entries THEN Slot(i) ELSE oreq
    <3>1. i \in 0 .. (size - 1)
      BY <1>1, <2>1
    <3> DEFINE k == IF h + i < size THEN h + i ELSE (h + i) - size
    <3>2. Mask(h + i, size) = k
      BY <1>1, <3>1, MaskAt
    <3>3. Slot(i)' = queue'[k]
      BY <1>7, <2>1, <3>1, <3>2
    <3>4. k \in 0 .. (size - 1) /\ (i < Entries => k # t) /\ (i = Entries => k = t)
      BY <1>1, <1>2, <2>1, <3>1
    <3>5. i < Entries => Slot(i) = queue[k]
      BY <1>8, <3>1
    <3> HIDE DEF k
    <3>6. CASE i < Entries
      BY <1>1, <1>6, <2>1, <3>3, <3>4, <3>5, <3>6
    <3>7. CASE ~(i < Entries)
      <4>1. i = Entries
        BY <1>1, <3>7
      <4> QED
        BY <1>1, <1>6, <2>1, <3>3, <3>4, <3>7, <4>1
    <3> QED
      BY <3>6, <3>7
  <2> QED
    BY <2>2, <2>3
<1>10. CASE EnqueueGrow
  <2>1. /\ head' = h /\ size' = 2 * size /\ Entries = size - 1 /\ tail' = t + 1
        /\ queue' = [Grown EXCEPT ![t] = oreq]
    BY <1>1, <1>4, <1>10, MaskIs DEF EnqueueGrow, Put, Full
  <2> HIDE DEF h, t
  <2>2. CASE t < h
    <3>1. Entries' = 0
      BY <1>1, <1>2, <1>3, <2>1, <2>2
    <3> QED
      BY <1>10, <3>1
  <2>3. CASE ~(t < h)
    <3>1. h = 0 /\ t = size - 1 /\ Entries' = Entries + 1
      BY <1>1, <1>2, <1>3, <2>1, <2>3
    <3>2. ASSUME NEW i \in 0 .. Entries
          PROVE  Slot(i)' = IF i < Entries THEN Slot(i) ELSE oreq
      <4>1. i \in 0 .. (size - 1) /\ i \in 0 .. (2 * size - 1) /\ 0 + i = i /\ 2 * size \in Nat
            /\ 0 \in 0 .. (2 * size - 1) /\ t \in 0 .. (2 * size - 1) /\ 2 * size > 0
        BY <1>1, <2>1
      <4>2. Mask(0 + i, 2 * size) = i
        BY <4>1, MaskAt
      <4>3. Slot(i)' = queue'[i]
        BY <1>7, <2>1, <3>1, <4>1, <4>2
      <4>4. i < Entries => Slot(i) = queue[i]
        BY <1>1, <1>8, <3>1, <4>1
      <4>5. Grown[i] = queue[i]
        BY <1>1, <4>1 DEF Grown
      <4>6. \A j \in 0 .. (2 * size - 1) : queue'[j] = IF j = t THEN oreq ELSE Grown[j]
        BY <2>1, <4>1 DEF Grown
      <4> QED
        BY <1>1, <2>1, <3>1, <4>1, <4>3, <4>4, <4>5, <4>6
    <3> QED
      BY <3>1, <3>2
  <2> QED
    BY <2>2, <2>3
<1> QED
  BY <1>9, <1>10

\* A take hands the oldest request to the worker.
LEMMA RingTake ==
  ASSUME TypeOK, TypeOK', NEW t \in Threads, DequeueRequest(t)
  PROVE  /\ Entries > 0 /\ Entries' = Entries - 1 /\ cur' = [cur EXCEPT ![t] = Slot(0)]
         /\ \A i \in 0 .. (Entries - 2) : Slot(i)' = Slot(i + 1)
<1>1. size \in Nat /\ size > 1 /\ head \in 0 .. (size - 1) /\ tail \in 0 .. (size - 1)
      /\ Entries \in 0 .. (size - 1)
      /\ Entries = IF tail >= head THEN tail - head ELSE (tail + size) - head
  BY RingRange
<1>2. Entries' = Entries - 1
  BY TakeEntries
<1>3. head # tail /\ head' = (IF head + 1 = size THEN 0 ELSE head + 1) /\ size' = size
      /\ queue' = queue /\ cur' = [cur EXCEPT ![t] = queue[head]]
  BY <1>1, MaskIs DEF DequeueRequest
<1>4. Entries > 0
  BY <1>1, <1>3
<1>5. Slot(0) = queue[head]
  <2>0. size > 0 /\ 0 \in 0 .. (size - 1)
    BY <1>1
  <2>1. Mask(head + 0, size) = head
    <3>1. Mask(head + 0, size) = IF head + 0 < size THEN head + 0 ELSE (head + 0) - size
      BY <1>1, <2>0, MaskAt
    <3> QED
      BY <1>1, <3>1
  <2> QED
    BY <2>1 DEF Slot
<1>6. ASSUME NEW i \in 0 .. (Entries - 2)
      PROVE  Slot(i)' = Slot(i + 1)
  <2>1. i \in 0 .. (size - 1) /\ i + 1 \in 0 .. (size - 1) /\ head' \in 0 .. (size - 1)
    BY <1>1, <1>3
  <2>0. size > 0
    BY <1>1
  <2>2. Mask(head + (i + 1), size)
          = IF head + (i + 1) < size THEN head + (i + 1) ELSE (head + (i + 1)) - size
    BY <1>1, <2>0, <2>1, MaskAt
  <2>5. Mask(head' + i, size) = IF head' + i < size THEN head' + i ELSE (head' + i) - size
    BY <1>1, <2>0, <2>1, MaskAt
  <2>3. Mask(head + (i + 1), size) = Mask(head' + i, size)
    BY <1>1, <1>3, <2>1, <2>2, <2>5
  <2>4. Slot(i)' = queue'[Mask(head' + i, size')]
    BY DEF Slot, Mask
  <2> QED
    BY <1>3, <2>3, <2>4 DEF Slot
<1> QED
  BY <1>2, <1>3, <1>4, <1>5, <1>6
---------------------------------------------------------------------------
(* No request is in two places.                                            *)

\* Spawning workers changes no request in the hands of another.
LEMMA SpawnHands ==
  ASSUME TypeOK, NEW S \in SUBSET FreeHandles, SpawnAll(S)
  PROVE  \A t \in InHand : cur'[t] = cur[t]
  BY DEF TypeOK, FreeHandles, SpawnAll, InHand, At

\* The owner takes nothing out of a worker's hand.
LEMMA OwnerHands ==
  ASSUME TypeOK, ExitedGone, Owner
  PROVE  InHand' = InHand /\ \A t \in InHand : cur'[t] = cur[t]
<1>1. InHand' = InHand
  <2>1. {"taken", "handler"} \in SUBSET (Holding \cup {"dequeue"})
    BY DEF Holding
  <2> QED
    BY <2>1, OwnerAt DEF InHand
<1>2. CASE cur' = cur
  BY <1>1, <1>2
<1>3. CASE \E S \in SUBSET FreeHandles : SpawnAll(S)
  BY <1>1, <1>3, SpawnHands
<1>4. cur' = cur \/ \E S \in SUBSET FreeHandles : SpawnAll(S)
  BY DEF Owner, IPStat_pool_init, IPStat_pool_addrequest, IPStat_request_enqueue, Post,
         CleanReap, CleanSpawn, CleanTooSoon, CleanShrink, CleanRecycle, IPStat_pool_free,
         SpawnSets, workVars
<1> QED
  BY <1>2, <1>3, <1>4

\* A worker that neither takes a request nor finishes one.
LEMMA WorkerHands ==
  ASSUME TypeOK, NEW t \in Threads,
         \/ SemWait(t) \/ SemTimeout(t) \/ HandlerCall(t) \/ Finish(t)
         \/ IPStat_request_dequeue(t) /\ DequeueEmpty(t)
  PROVE  InHand' = InHand /\ cur' = cur
<1>1. cur' = cur
  BY DEF SemWait, SemTimeout, HandlerCall, Finish, IPStat_request_dequeue, DequeueEmpty
<1>2. \/ \E l \in {"wait", "exited", "dequeue"} : Goto(t, l) /\ pc[t] \notin {"taken", "handler"}
      \/ Goto(t, "handler") /\ pc[t] = "taken"
  BY TurnAt DEF SemWait, SemTimeout, HandlerCall, Finish, IPStat_request_dequeue, DequeueEmpty
<1>3. InHand' = InHand
  BY <1>2 DEF InHand, At, Goto, TypeOK
<1> QED
  BY <1>1, <1>3

\* A step that moves no request leaves each where it was.
LEMMA PlaceSame ==
  ASSUME PlaceInv, UNCHANGED <<ringVars, histVars>>, InHand' = InHand,
         \A t \in InHand : cur'[t] = cur[t],
         opc' = "enqueue" => opc = "enqueue" /\ oreq' = oreq
  PROVE  PlaceInv'
<1>1. Waits' = Waits /\ \A i : Slot(i)' = Slot(i)
  BY RingSame
<1>2. UNCHANGED <<submitted, done, refused>>
  BY DEF histVars
<1>3. QueueInv'
  BY <1>1, <1>2 DEF PlaceInv, QueueInv
<1>4. HandInv'
  BY <1>1, <1>2 DEF PlaceInv, HandInv
<1>5. OwnerInv'
  BY <1>1, <1>2 DEF PlaceInv, OwnerInv
<1> QED
  BY <1>2, <1>3, <1>4, <1>5 DEF PlaceInv

\* The enqueue, from the owner's hand into the ring or nowhere.
LEMMA PlaceEnqueue ==
  ASSUME TypeOK, TypeOK', ExitedGone, PlaceInv, IPStat_request_enqueue
  PROVE  PlaceInv'
<1>0. InHand' = InHand /\ (\A t \in InHand : cur'[t] = cur[t]) /\ UNCHANGED <<submitted, done>>
      /\ opc = "enqueue"
  BY OwnerHands DEF Owner, IPStat_request_enqueue
<1>e. Entries \in Nat /\ Entries' \in Nat
  <2>1. Entries \in 0 .. (size - 1) /\ size \in Nat
    BY RingRange
  <2>2. Entries' = NumEntries(head', tail', size')
    BY DEF Entries, NumEntries
  <2>3. size' \in Nat /\ size' > 1 /\ head' \in 0 .. (size' - 1) /\ tail' \in 0 .. (size' - 1)
    BY Zenon DEF TypeOK
  <2>4. size' > 0
    BY <2>3
  <2>5. Entries' \in Nat
    BY <2>2, <2>3, <2>4, NumEntriesNat
  <2> QED
    BY <2>1, <2>5
<1>o. /\ oreq \in submitted \ (done \cup refused)
      /\ \A i \in Waits : Slot(i) # oreq
      /\ \A t \in InHand : cur[t] # oreq
  BY <1>0 DEF PlaceInv, OwnerInv
<1>1. CASE EnqueueRoom \/ EnqueueGrow
  <2>0. opc' # "enqueue" /\ refused' = refused
    BY <1>1 DEF EnqueueRoom, EnqueueGrow, Put
  <2>1. OwnerInv' /\ done' \cup refused' \subseteq submitted'
    BY <1>0, <2>0 DEF OwnerInv, PlaceInv
  <2>2. CASE Entries' = 0
    <3>1. Waits' = {}
      BY <2>2 DEF Waits
    <3> QED
      BY <1>0, <2>0, <2>1, <3>1 DEF PlaceInv, QueueInv, HandInv
  <2>3. CASE /\ Entries' = Entries + 1
             /\ \A i \in 0 .. Entries : Slot(i)' = IF i < Entries THEN Slot(i) ELSE oreq
    <3>1. Waits' = 0 .. Entries
      <4>1. (Entries + 1) - 1 = Entries
        BY <1>e
      <4> QED
        BY <2>3, <4>1 DEF Waits
    <3>2. \A i \in Waits' : (i \in Waits /\ Slot(i)' = Slot(i)) \/ (i = Entries /\ Slot(i)' = oreq)
      BY <1>e, <2>3, <3>1 DEF Waits
    <3>3. QueueInv'
      BY <1>0, <1>o, <2>0, <3>2 DEF PlaceInv, QueueInv
    <3>4. HandInv'
      BY <1>0, <1>o, <2>0, <3>2 DEF PlaceInv, HandInv
    <3> QED
      BY <2>1, <3>3, <3>4 DEF PlaceInv
  <2> QED
    BY <1>1, <2>2, <2>3, RingPut
<1>2. CASE EnqueueHeapOverrun
  BY <1>0, <1>2, PlaceSame DEF IPStat_request_enqueue, EnqueueHeapOverrun, histVars
<1>3. CASE EnqueueDiscard
  <2>1. refused' = refused \cup {oreq} /\ opc' = "idle" /\ UNCHANGED ringVars
    BY <1>3 DEF EnqueueDiscard
  <2>2. Waits' = Waits /\ \A i : Slot(i)' = Slot(i)
    BY <2>1, RingSame
  <2>3. QueueInv'
    BY <1>0, <1>o, <2>1, <2>2 DEF PlaceInv, QueueInv
  <2>4. HandInv'
    BY <1>0, <1>o, <2>1, <2>2 DEF PlaceInv, HandInv
  <2> QED
    BY <1>0, <1>o, <2>1, <2>3, <2>4 DEF PlaceInv, OwnerInv
<1> QED
  BY <1>1, <1>2, <1>3 DEF IPStat_request_enqueue

\* The dequeue, from the ring into a worker's hand.
LEMMA PlaceDequeue ==
  ASSUME TypeOK, TypeOK', PlaceInv, NEW t \in Threads,
         IPStat_request_dequeue(t), DequeueRequest(t)
  PROVE  PlaceInv'
<1>0. UNCHANGED <<submitted, done, refused, opc, oreq>> /\ pc[t] = "dequeue"
  BY DEF IPStat_request_dequeue, histVars
<1>1. /\ Entries > 0 /\ Entries' = Entries - 1 /\ cur' = [cur EXCEPT ![t] = Slot(0)]
      /\ \A i \in 0 .. (Entries - 2) : Slot(i)' = Slot(i + 1)
  BY RingTake
<1>2. Entries \in Nat
  <2>1. Entries \in 0 .. (size - 1) /\ size \in Nat
    BY RingRange
  <2> QED
    BY <2>1
<1>3. 0 \in Waits /\ \A i \in Waits' : i \in Nat /\ i + 1 \in Waits /\ i + 1 # 0 /\ Slot(i)' = Slot(i + 1)
  <2>1. Waits' = 0 .. (Entries - 2)
    <3>1. (Entries - 1) - 1 = Entries - 2
      BY <1>2
    <3> QED
      BY <1>1, <3>1 DEF Waits
  <2> QED
    BY <1>1, <1>2, <2>1 DEF Waits
<1>4. InHand' = InHand \cup {t} /\ t \notin InHand
  BY <1>0 DEF DequeueRequest, InHand, At, Goto, TypeOK
<1>5. cur'[t] = Slot(0) /\ \A u \in InHand : u # t /\ cur'[u] = cur[u]
  BY <1>1, <1>4 DEF TypeOK, InHand, At
<1>6. QueueInv'
  <2>1. \A i \in Waits' : Slot(i)' \in submitted \ (done \cup refused)
    BY <1>3 DEF PlaceInv, QueueInv
  <2>2. \A i, j \in Waits' : Slot(i)' = Slot(j)' => i + 1 = j + 1
    BY <1>3 DEF PlaceInv, QueueInv
  <2>3. \A i, j \in Waits' : i + 1 = j + 1 => i = j
    BY <1>3
  <2> QED
    BY <1>0, <2>1, <2>2, <2>3 DEF QueueInv
<1>7. HandInv'
  <2>1. \A u \in InHand' : cur'[u] \in submitted \ (done \cup refused)
    BY <1>3, <1>4, <1>5 DEF PlaceInv, QueueInv, HandInv
  <2>2. \A u \in InHand', i \in Waits' : Slot(i)' # cur'[u]
    <3>1. \A i \in Waits' : Slot(i)' # cur'[t]
      BY <1>3, <1>5 DEF PlaceInv, QueueInv
    <3>2. \A u \in InHand, i \in Waits' : Slot(i)' # cur'[u]
      BY <1>3, <1>5 DEF PlaceInv, HandInv
    <3> QED
      BY <1>4, <3>1, <3>2
  <2>3. \A u, w \in InHand' : u # w => cur'[u] # cur'[w]
    <3>1. \A u \in InHand : cur'[u] # cur'[t]
      BY <1>3, <1>5 DEF PlaceInv, HandInv
    <3>2. \A u, w \in InHand : u # w => cur'[u] # cur'[w]
      BY <1>5 DEF PlaceInv, HandInv
    <3> QED
      BY <1>4, <3>1, <3>2
  <2> QED
    BY <1>0, <2>1, <2>2, <2>3 DEF HandInv
<1>8. OwnerInv'
  <2> SUFFICES ASSUME opc' = "enqueue"
               PROVE  /\ oreq \in submitted \ (done \cup refused)
                      /\ \A i \in Waits' : Slot(i)' # oreq
                      /\ \A u \in InHand' : cur'[u] # oreq
    BY <1>0 DEF OwnerInv
  <2>1. /\ oreq \in submitted \ (done \cup refused)
        /\ \A i \in Waits : Slot(i) # oreq
        /\ \A u \in InHand : cur[u] # oreq
    BY <1>0 DEF PlaceInv, OwnerInv
  <2> QED
    BY <1>3, <1>4, <1>5, <2>1
<1> QED
  BY <1>0, <1>6, <1>7, <1>8 DEF PlaceInv

\* A handler that returns moves its request from the worker to the history.
LEMMA PlaceReturn ==
  ASSUME TypeOK, PlaceInv, NEW t \in Threads, HandlerReturn(t)
  PROVE  PlaceInv'
<1>0. /\ UNCHANGED <<submitted, refused, opc, oreq, ringVars>> /\ pc[t] = "handler"
      /\ done' = done \cup {cur[t]} /\ cur' = [cur EXCEPT ![t] = Null] /\ Goto(t, "finish")
  BY DEF HandlerReturn
<1>1. Waits' = Waits /\ \A i : Slot(i)' = Slot(i)
  BY <1>0, RingSame
<1>2. t \in InHand /\ InHand' = InHand \ {t} /\ \A u \in InHand' : cur'[u] = cur[u]
  BY <1>0 DEF InHand, At, Goto, TypeOK
<1>3. cur[t] \in submitted /\ (\A i \in Waits : Slot(i) # cur[t])
      /\ \A u \in InHand' : cur[u] # cur[t]
  BY <1>2 DEF PlaceInv, HandInv
<1>4. QueueInv'
  BY <1>0, <1>1, <1>3 DEF PlaceInv, QueueInv
<1>5. HandInv'
  BY <1>0, <1>1, <1>2, <1>3 DEF PlaceInv, HandInv
<1>6. OwnerInv'
  BY <1>0, <1>1, <1>2, <1>3 DEF PlaceInv, OwnerInv
<1> QED
  BY <1>0, <1>3, <1>4, <1>5, <1>6 DEF PlaceInv

\* At the start no request is anywhere.
LEMMA PlaceInit == Init => PlaceInv
<1> SUFFICES ASSUME Init PROVE PlaceInv
  OBVIOUS
<1>1. Entries = 0
  BY TypeInit, EntriesIs DEF Init, TypeOK
<1>2. Waits = {}
  BY <1>1 DEF Waits
<1>3. InHand = {}
  BY DEF Init, InHand, At
<1> QED
  BY <1>2, <1>3 DEF Init, PlaceInv, QueueInv, HandInv, OwnerInv

\* Every step leaves each request in at most one place.
LEMMA PlaceNext == TypeOK /\ ExitedGone /\ PlaceInv /\ [Next]_vars => PlaceInv'
<1> SUFFICES ASSUME TypeOK, ExitedGone, PlaceInv, [Next]_vars PROVE PlaceInv'
  OBVIOUS
<1>0. TypeOK'
  BY TypeNext
<1>1. CASE \/ IPStat_pool_init \/ Post \/ CleanReap \/ CleanSpawn \/ CleanTooSoon \/ CleanShrink
           \/ CleanRecycle \/ IPStat_pool_free
  <2>1. UNCHANGED <<ringVars, histVars>> /\ (opc' = "enqueue" => opc = "enqueue" /\ oreq' = oreq)
    BY <1>1 DEF IPStat_pool_init, Post, CleanReap, CleanSpawn, CleanTooSoon, CleanShrink,
         CleanRecycle, IPStat_pool_free
  <2> QED
    BY <1>1, <2>1, OwnerHands, PlaceSame DEF Owner
<1>2. ASSUME NEW r \in Requests, IPStat_pool_addrequest(r) PROVE PlaceInv'
  <2>1. /\ r \notin submitted /\ submitted' = submitted \cup {r} /\ oreq' = r
        /\ UNCHANGED <<ringVars, refused, done>>
    BY <1>2 DEF IPStat_pool_addrequest
  <2>2. InHand' = InHand /\ \A t \in InHand : cur'[t] = cur[t]
    BY <1>2, OwnerHands DEF Owner
  <2>3. Waits' = Waits /\ \A i : Slot(i)' = Slot(i)
    BY <2>1, RingSame
  <2>4. QueueInv'
    BY <2>1, <2>3 DEF PlaceInv, QueueInv
  <2>5. HandInv'
    BY <2>1, <2>2, <2>3 DEF PlaceInv, HandInv
  <2>6. OwnerInv'
    BY <2>1, <2>2, <2>3 DEF PlaceInv, QueueInv, HandInv, OwnerInv
  <2> QED
    BY <2>1, <2>4, <2>5, <2>6 DEF PlaceInv
<1>3. CASE IPStat_request_enqueue
  BY <1>0, <1>3, PlaceEnqueue
<1>4. ASSUME NEW t \in Threads, Worker(t) PROVE PlaceInv'
  <2>1. CASE IPStat_request_dequeue(t) /\ DequeueRequest(t)
    BY <1>0, <2>1, PlaceDequeue
  <2>2. CASE HandlerReturn(t)
    BY <2>2, PlaceReturn
  <2>3. CASE \/ SemWait(t) \/ SemTimeout(t) \/ HandlerCall(t) \/ Finish(t)
             \/ IPStat_request_dequeue(t) /\ DequeueEmpty(t)
    <3>1. InHand' = InHand /\ cur' = cur
      BY <2>3, WorkerHands
    <3>2. UNCHANGED <<ringVars, histVars, opc, oreq>>
      BY <2>3 DEF SemWait, SemTimeout, HandlerCall, Finish, IPStat_request_dequeue, DequeueEmpty
    <3> QED
      BY <3>1, <3>2, PlaceSame
  <2> QED
    BY <1>4, <2>1, <2>2, <2>3 DEF Worker, IPStat_request_dequeue
<1>5. CASE UNCHANGED vars
  BY <1>5, PlaceSame DEF vars, workVars, InHand, At
<1> QED
  BY <1>1, <1>2, <1>3, <1>4, <1>5 DEF Next, Owner

\* Each request is in at most one place throughout.
LEMMA PlaceAlways == Spec => [](TypeOK /\ ExitedGone /\ PlaceInv)
<1>1. Init => TypeOK /\ ExitedGone /\ PlaceInv
  BY TypeInit, GoneInit, PlaceInit
<1>2. TypeOK /\ ExitedGone /\ PlaceInv /\ [Next]_vars => (TypeOK /\ ExitedGone /\ PlaceInv)'
  BY TypeNext, GoneNext, PlaceNext
<1> QED
  BY <1>1, <1>2, PTL DEF Spec

\* The window of the ring, slot by slot.
LEMMA PendingIs ==
  ASSUME TypeOK
  PROVE  /\ Window = {Mask(head + i, size) : i \in Waits}
         /\ Pending = {Slot(i) : i \in Waits}
  BY DEF Window, Pending, Slot, Waits

\* A request is in one slot of the window, in one worker's hand, with the
\* owner, refused or handled, and never in two of these places, through every
\* wrap-around, rewinding and growth of the ring: no handler runs twice for
\* one request and no worker takes a slot that was not filled.
THEOREM AtMostOnce == Spec => []HandledAtMostOnce
<1>1. TypeOK /\ PlaceInv => HandledAtMostOnce
  <2> SUFFICES ASSUME TypeOK, PlaceInv PROVE HandledAtMostOnce
    OBVIOUS
  <2>0. submitted \subseteq Requests
    BY DEF TypeOK
  <2>1. Pending \subseteq submitted \ (done \cup refused)
    BY PendingIs DEF PlaceInv, QueueInv
  <2>2. Cardinality(Pending) = Cardinality(Window)
    <3> DEFINE f == [w \in Window |-> queue[w]]
    <3>1. IsFiniteSet(Window)
      <4>1. size \in Nat /\ size > 1 /\ head \in 0 .. (size - 1) /\ Entries \in 0 .. (size - 1)
        BY RingRange
      <4>2. ASSUME NEW i \in Waits PROVE Mask(head + i, size) \in 0 .. (size - 1)
        <5>1. i \in 0 .. (size - 1) /\ size > 0
          BY <4>1 DEF Waits
        <5>2. Mask(head + i, size) = IF head + i < size THEN head + i ELSE (head + i) - size
          BY <4>1, <5>1, MaskAt
        <5> QED
          BY <4>1, <5>1, <5>2
      <4>3. Window \subseteq 0 .. (size - 1)
        BY <4>2, PendingIs
      <4>4. IsFiniteSet(0 .. (size - 1))
        BY <4>1, FS_Interval
      <4> QED
        BY <4>3, <4>4, FS_Subset
    <3>2. f \in [Window -> Pending]
      BY DEF Pending
    <3>3. \A v, w \in Window : f[v] = f[w] => v = w
      BY PendingIs DEF PlaceInv, QueueInv, Slot
    <3>4. \A p \in Pending : \E w \in Window : f[w] = p
      BY DEF Pending
    <3> HIDE DEF f
    <3>5. f \in Bijection(Window, Pending)
      BY <3>2, <3>3, <3>4 DEF Bijection, Injection, Surjection, IsInjective
    <3>6. ExistsBijection(Window, Pending)
      BY <3>5 DEF ExistsBijection
    <3> QED
      BY <3>1, <3>6, FS_Bijection
  <2>3. \A t \in InHand : cur[t] \in Requests \ (Pending \cup done)
    BY <2>0, PendingIs DEF PlaceInv, HandInv
  <2>4. opc = "enqueue" => oreq \notin Pending \cup done \cup {cur[t] : t \in InHand}
    BY PendingIs DEF PlaceInv, OwnerInv
  <2> QED
    BY <2>0, <2>1, <2>2, <2>3, <2>4 DEF PlaceInv, HandInv, HandledAtMostOnce
<1> QED
  BY <1>1, PlaceAlways, PTL
---------------------------------------------------------------------------
(* The ring implements RequestQueue.                                       *)

FifoFacts ==
  /\ Fifo \in Seq(Requests) /\ Len(Fifo) = Entries /\ Entries \in Nat
  /\ \A i \in 1 .. Entries : Fifo[i] = Slot(i - 1)

\* Two initial intervals that are equal have the same end.
LEMMA SameInterval ==
  ASSUME NEW m \in Nat, NEW n \in Nat, 1 .. m = 1 .. n
  PROVE  m = n
<1>1. CASE m < n
  <2>1. n \in 1 .. n /\ n \notin 1 .. m
    BY <1>1
  <2> QED
    BY <2>1
<1>2. CASE n < m
  <2>1. m \in 1 .. m /\ m \notin 1 .. n
    BY <1>2
  <2> QED
    BY <2>1
<1> QED
  BY <1>1, <1>2

\* The sequence of the refinement mapping is the window of the ring.
LEMMA FifoIs == TypeOK /\ PlaceInv => FifoFacts
<1> SUFFICES ASSUME TypeOK, PlaceInv PROVE FifoFacts
  OBVIOUS
<1>1. Entries \in Nat /\ head \in Nat
  <2>1. Entries \in 0 .. (size - 1) /\ head \in 0 .. (size - 1) /\ size \in Nat
    BY RingRange
  <2> QED
    BY <2>1
<1>2. ASSUME NEW i \in 1 .. Entries
      PROVE  Fifo[i] = Slot(i - 1) /\ i - 1 \in Waits
  <2>1. Fifo[i] = queue[Mask(head + (i - 1), size)]
    BY DEF Fifo
  <2>2. i - 1 \in Waits
    BY <1>1 DEF Waits
  <2> QED
    BY <2>1, <2>2 DEF Slot
<1>3. \A i \in 1 .. Entries : Fifo[i] \in Requests
  BY <1>2 DEF PlaceInv, QueueInv, TypeOK
<1>4. Fifo \in [1 .. Entries -> Requests]
  <2>1. Fifo = [i \in 1 .. Entries |-> Fifo[i]]
    BY DEF Fifo
  <2> QED
    BY <1>3, <2>1
<1>5. Fifo \in Seq(Requests)
  BY <1>1, <1>4, SeqDef
<1>6. Len(Fifo) = Entries
  <2>1. Len(Fifo) \in Nat /\ DOMAIN Fifo = 1 .. Len(Fifo)
    BY <1>5, LenProperties
  <2>2. DOMAIN Fifo = 1 .. Entries
    BY <1>4
  <2> QED
    BY <1>1, <2>1, <2>2, SameInterval
<1> QED
  BY <1>1, <1>2, <1>5, <1>6 DEF FifoFacts

\* The ring is full when one slot is free, as the code tests it.
LEMMA FullIs ==
  ASSUME TypeOK
  PROVE  Full <=> Entries = size - 1
<1>1. Rewind(head) \in 0 .. (size - 1) /\ Rewind(tail) \in 0 .. (size - 1) /\ size \in Nat /\ size > 0
  BY RewindRange, RingRange
<1>2. NumEntries(Rewind(head), Rewind(tail), size)
        = IF Rewind(tail) >= Rewind(head) THEN Rewind(tail) - Rewind(head)
          ELSE (Rewind(tail) + size) - Rewind(head)
  BY <1>1, NumEntriesIs
<1>3. NumEntries(Rewind(head), Rewind(tail), size) = Entries
  BY <1>2, RingRange DEF Rewind
<1> QED
  BY <1>3 DEF Full

\* The initial ring maps to the empty queue.
LEMMA QueueInit == Init => RQ!Init
<1> SUFFICES ASSUME Init PROVE RQ!Init
  OBVIOUS
<1>1. Entries = 0 /\ size = InitQueueSize
  BY TypeInit, EntriesIs DEF Init, TypeOK
<1>2. Fifo = <<>>
  BY <1>1 DEF Fifo
<1> QED
  BY <1>1, <1>2 DEF RQ!Init

\* A put appends, wipes or is refused.
LEMMA QueuePut ==
  ASSUME TypeOK, TypeOK', FifoFacts, FifoFacts', oreq \in Requests, EnqueueRoom \/ EnqueueGrow
  PROVE  RQ!Next
<1>1. /\ Fifo \in Seq(Requests) /\ Len(Fifo) = Entries /\ Entries \in Nat
      /\ Fifo' \in Seq(Requests) /\ Len(Fifo') = Entries' /\ Entries' \in Nat
  BY DEF FifoFacts
<1>s. size \in Nat /\ Entries \in 0 .. (size - 1)
  BY RingRange
<1>2. ASSUME Entries' = Entries + 1,
             \A i \in 0 .. Entries : Slot(i)' = IF i < Entries THEN Slot(i) ELSE oreq
      PROVE  Fifo' = Append(Fifo, oreq)
  <2>1. /\ Append(Fifo, oreq) \in Seq(Requests) /\ Len(Append(Fifo, oreq)) = Entries + 1
        /\ \A i \in 1 .. Entries : Append(Fifo, oreq)[i] = Fifo[i]
        /\ Append(Fifo, oreq)[Entries + 1] = oreq
    BY <1>1, AppendProperties
  <2>2. \A i \in 1 .. (Entries + 1) : Fifo'[i] = Slot(i - 1)'
    BY <1>2 DEF FifoFacts
  <2>3. ASSUME NEW i \in 1 .. (Entries + 1)
        PROVE  Fifo'[i] = Append(Fifo, oreq)[i]
    <3>1. i - 1 \in 0 .. Entries
      BY <1>1
    <3>2. Slot(i - 1)' = IF i - 1 < Entries THEN Slot(i - 1) ELSE oreq
      BY <1>2, <3>1
    <3>3. CASE i \in 1 .. Entries
      <4>1. i - 1 < Entries /\ Fifo[i] = Slot(i - 1)
        BY <1>1, <3>3 DEF FifoFacts
      <4> QED
        BY <2>1, <2>2, <3>2, <3>3, <4>1
    <3>4. CASE i = Entries + 1
      <4>1. ~(i - 1 < Entries)
        BY <1>1, <3>4
      <4> QED
        BY <2>1, <2>2, <3>2, <3>4, <4>1
    <3> QED
      BY <1>1, <3>3, <3>4
  <2> HIDE DEF Fifo
  <2> QED
    BY <1>1, <1>2, <2>1, <2>3, SeqEqual
<1>3. ASSUME Entries' = 0 PROVE Fifo' = <<>>
  BY <1>1, <1>3, EmptySeq
<1>4. CASE EnqueueRoom
  <2>1. size' = size /\ Entries # size - 1
    BY <1>4, FullIs DEF EnqueueRoom, Put
  <2>2. Fifo' = Append(Fifo, oreq)
    <3>1. ~EnqueueGrow
      BY <1>4 DEF EnqueueRoom, EnqueueGrow
    <3> QED
      BY <1>2, <3>1, RingPut
  <2>3. Len(Fifo) < size - 1
    BY <1>1, <1>s, <2>1
  <2> QED
    BY <2>1, <2>2, <2>3 DEF RQ!Next, RQ!Put
<1>5. CASE EnqueueGrow
  <2>1. size' = 2 * size /\ Entries = size - 1 /\ size < MaxQueueSize
    BY <1>5, FullIs DEF EnqueueGrow, Put
  <2>2. RQ!AtLimit
    BY <1>1, <2>1 DEF RQ!AtLimit
  <2> QED
    BY <1>2, <1>3, <2>1, <2>2, RingPut DEF RQ!Next, RQ!GrowPut, RQ!Wipe
<1> QED
  BY <1>4, <1>5

\* A dequeue takes the head of the abstract queue, or finds it empty.
LEMMA QueueTake ==
  ASSUME TypeOK, TypeOK', FifoFacts, FifoFacts', NEW t \in Threads, DequeueRequest(t)
  PROVE  RQ!Next
<1>1. /\ Fifo \in Seq(Requests) /\ Len(Fifo) = Entries /\ Entries \in Nat
      /\ Fifo' \in Seq(Requests) /\ Len(Fifo') = Entries' /\ Entries' \in Nat
  BY DEF FifoFacts
<1>2. /\ Entries > 0 /\ Entries' = Entries - 1
      /\ \A i \in 0 .. (Entries - 2) : Slot(i)' = Slot(i + 1)
  BY RingTake
<1>3. Fifo # <<>>
  BY <1>1, <1>2, EmptySeq
<1>4. /\ Tail(Fifo) \in Seq(Requests) /\ Len(Tail(Fifo)) = Entries - 1
      /\ \A i \in 1 .. (Entries - 1) : Tail(Fifo)[i] = Fifo[i + 1]
  BY <1>1, <1>3, HeadTailProperties
<1>5. ASSUME NEW i \in 1 .. (Entries - 1)
      PROVE  Fifo'[i] = Tail(Fifo)[i]
  <2>1. i \in 1 .. Entries' /\ i - 1 \in 0 .. (Entries - 2) /\ i + 1 \in 1 .. Entries
        /\ (i - 1) + 1 = i /\ (i + 1) - 1 = i
    BY <1>1, <1>2
  <2>2. Fifo'[i] = Slot(i - 1)'
    BY <2>1 DEF FifoFacts
  <2>3. Slot(i - 1)' = Slot(i)
    BY <1>2, <2>1
  <2>4. Fifo[i + 1] = Slot(i)
    BY <2>1 DEF FifoFacts
  <2> QED
    BY <1>4, <2>2, <2>3, <2>4
<1>6. Fifo' = Tail(Fifo)
  BY <1>1, <1>2, <1>4, <1>5, SeqEqual
<1>7. size' = size
  BY DEF DequeueRequest
<1> QED
  BY <1>3, <1>6, <1>7 DEF RQ!Next, RQ!Take

\* Every step of the pool is a step of the abstract queue or a stutter.
LEMMA QueueNext ==
  TypeOK /\ ExitedGone /\ PlaceInv /\ [Next]_vars => [RQ!Next]_(RQ!vars)
<1> SUFFICES ASSUME TypeOK, ExitedGone, PlaceInv, [Next]_vars PROVE [RQ!Next]_(RQ!vars)
  OBVIOUS
<1>0. TypeOK' /\ PlaceInv'
  BY TypeNext, PlaceNext
<1>1. FifoFacts /\ FifoFacts'
  BY <1>0, FifoIs, PTL
<1>2. ASSUME UNCHANGED ringVars PROVE [RQ!Next]_(RQ!vars)
  <2>1. Fifo' = Fifo /\ size' = size
    BY <1>2 DEF ringVars, Fifo, Entries
  <2> QED
    BY <2>1 DEF RQ!vars
<1>3. CASE IPStat_request_enqueue /\ (EnqueueRoom \/ EnqueueGrow)
  <2>1. oreq \in Requests
    BY <1>3 DEF IPStat_request_enqueue, PlaceInv, OwnerInv, TypeOK
  <2> QED
    BY <1>0, <1>1, <1>3, <2>1, QueuePut
<1>4. ASSUME NEW t \in Threads, IPStat_request_dequeue(t), DequeueRequest(t)
      PROVE  [RQ!Next]_(RQ!vars)
  BY <1>0, <1>1, <1>4, QueueTake
<1>5. \/ UNCHANGED ringVars
      \/ IPStat_request_enqueue /\ (EnqueueRoom \/ EnqueueGrow)
      \/ \E t \in Threads : IPStat_request_dequeue(t) /\ DequeueRequest(t)
  <2>1. CASE Owner
    BY <2>1 DEF Owner, IPStat_pool_init, IPStat_pool_addrequest, IPStat_request_enqueue,
         EnqueueHeapOverrun, EnqueueDiscard, Post, CleanReap, CleanSpawn, CleanTooSoon,
         CleanShrink, CleanRecycle, IPStat_pool_free
  <2>2. CASE \E t \in Threads : Worker(t)
    BY <2>2 DEF Worker, SemWait, SemTimeout, IPStat_request_dequeue, DequeueEmpty, HandlerCall,
         HandlerReturn, Finish
  <2>3. CASE UNCHANGED vars
    BY <2>3 DEF vars
  <2> QED
    BY <2>1, <2>2, <2>3 DEF Next
<1> QED
  BY <1>2, <1>3, <1>4, <1>5

\* The ring implements the bounded FIFO of RequestQueue: every step of the
\* owner and of the workers puts one request at its end, takes the oldest,
\* doubles a full queue (keeping everything, or wiping everything) or leaves
\* it alone, for every ring size.
THEOREM Refinement == Spec => ImplementsQueue
  BY QueueInit, QueueNext, PlaceAlways, PTL DEF Spec, ImplementsQueue, RQ!Spec
---------------------------------------------------------------------------
(* Before the ring grows.                                                  *)

\* The ring only changes its size in an enqueue that finds it full, and only upwards.
LEMMA SizeNext ==
  TypeOK /\ size >= InitQueueSize /\ [Next]_vars
    => \/ size' = size
       \/ IPStat_request_enqueue /\ EnqueueGrow /\ size' > InitQueueSize
<1> SUFFICES ASSUME TypeOK, size >= InitQueueSize, [Next]_vars
             PROVE  \/ size' = size
                    \/ IPStat_request_enqueue /\ EnqueueGrow /\ size' > InitQueueSize
  OBVIOUS
<1>1. EnqueueGrow => size' > InitQueueSize
  BY PoolAssumption DEF EnqueueGrow, Put, TypeOK
<1>2. CASE Owner
  BY <1>1, <1>2 DEF Owner, IPStat_pool_init, IPStat_pool_addrequest, IPStat_request_enqueue,
       EnqueueRoom, Put, EnqueueHeapOverrun, EnqueueDiscard, Post, CleanReap, CleanSpawn,
       CleanTooSoon, CleanShrink, CleanRecycle, IPStat_pool_free, ringVars
<1>3. CASE \E t \in Threads : Worker(t)
  BY <1>3 DEF Worker, SemWait, SemTimeout, IPStat_request_dequeue, DequeueEmpty,
       DequeueRequest, HandlerCall, HandlerReturn, Finish, ringVars
<1>4. CASE UNCHANGED vars
  BY <1>4 DEF vars, ringVars
<1> QED
  BY <1>2, <1>3, <1>4 DEF Next

\* While the ring has not grown, every accepted request is kept.
LEMMA KeptNext ==
  TypeOK /\ ExitedGone /\ KeptInv /\ [Next]_vars => KeptInv'
<1> SUFFICES ASSUME TypeOK, ExitedGone, KeptInv, [Next]_vars, size' = InitQueueSize PROVE KeptInv'
  <2> SUFFICES ASSUME TypeOK, ExitedGone, KeptInv, [Next]_vars, size' # InitQueueSize PROVE KeptInv'
    OBVIOUS
  <2>1. size \in Nat /\ InitQueueSize \in Nat /\ size >= InitQueueSize
    BY PoolAssumption DEF TypeOK, KeptInv
  <2>2. size' = size \/ size' > InitQueueSize
    BY <2>1, SizeNext
  <2>3. TypeOK'
    BY TypeNext
  <2>4. size' \in Nat
    BY <2>3, Zenon DEF TypeOK
  <2>5. size' >= InitQueueSize
    BY <2>1, <2>2, <2>4
  <2> QED
    BY <2>5 DEF KeptInv
<1>0. TypeOK'
  BY TypeNext
<1>i. InitQueueSize \in Nat /\ size >= InitQueueSize /\ size \in Nat
  BY PoolAssumption DEF KeptInv, TypeOK
<1>g. ~EnqueueGrow /\ size = InitQueueSize
  <2>1. EnqueueGrow => size' > InitQueueSize
    BY <1>i, PoolAssumption DEF EnqueueGrow, Put
  <2>2. ~(InitQueueSize > InitQueueSize)
    BY <1>i
  <2> QED
    BY <1>i, <2>1, <2>2, SizeNext
<1>s. size >= InitQueueSize /\ size \in Nat /\ \A r \in submitted : Placed(r)
  BY <1>g, <1>i DEF KeptInv
\* nothing is taken from any place
<1>1. ASSUME size' = size, submitted' \subseteq submitted, refused \cup done \subseteq refused' \cup done',
             \A i \in Waits : \E j \in Waits' : Slot(j)' = Slot(i),
             opc = "enqueue" => opc' = "enqueue" /\ oreq' = oreq,
             \A t \in InHand : t \in InHand' /\ cur'[t] = cur[t]
      PROVE  KeptInv'
  BY <1>1, <1>s DEF KeptInv, Placed
<1>2. CASE UNCHANGED ringVars /\ UNCHANGED histVars /\ InHand' = InHand
           /\ (\A t \in InHand : cur'[t] = cur[t])
           /\ (opc = "enqueue" => opc' = "enqueue" /\ oreq' = oreq)
  <2>1. Waits' = Waits /\ \A i : Slot(i)' = Slot(i)
    BY <1>2, RingSame
  <2> QED
    BY <1>1, <1>2, <2>1 DEF ringVars, histVars
<1>3. CASE \/ IPStat_pool_init \/ Post \/ CleanReap \/ CleanSpawn \/ CleanTooSoon \/ CleanShrink
           \/ CleanRecycle \/ IPStat_pool_free
  <2>1. (UNCHANGED <<ringVars, histVars>> /\ opc # "enqueue") \/ IPStat_pool_init
    BY <1>3 DEF Post, CleanReap, CleanSpawn, CleanTooSoon, CleanShrink,
         CleanRecycle, IPStat_pool_free
  <2>2. UNCHANGED <<ringVars, histVars>> /\ (opc = "enqueue" => opc' = "enqueue" /\ oreq' = oreq)
    BY <2>1 DEF IPStat_pool_init
  <2> QED
    BY <1>2, <1>3, <2>2, OwnerHands DEF Owner
<1>4. ASSUME NEW r \in Requests, IPStat_pool_addrequest(r) PROVE KeptInv'
  <2>1. /\ submitted' = submitted \cup {r} /\ oreq' = r /\ opc = "idle" /\ opc' = "enqueue"
        /\ UNCHANGED <<ringVars, refused, done>>
    BY <1>4 DEF IPStat_pool_addrequest
  <2>2. InHand' = InHand /\ \A t \in InHand : cur'[t] = cur[t]
    BY <1>4, OwnerHands DEF Owner
  <2>3. Waits' = Waits /\ \A i : Slot(i)' = Slot(i)
    BY <2>1, RingSame
  <2>4. \A s \in submitted' : Placed(s)'
    BY <1>s, <2>1, <2>2, <2>3 DEF Placed
  <2> QED
    BY <1>s, <2>1, <2>4 DEF KeptInv, ringVars
<1>5. CASE IPStat_request_enqueue
  <2>0. InHand' = InHand /\ (\A t \in InHand : cur'[t] = cur[t]) /\ UNCHANGED <<submitted, done>>
        /\ opc = "enqueue"
    BY <1>5, OwnerHands DEF Owner, IPStat_request_enqueue
  <2>1. CASE EnqueueRoom
    <3>1. size' = size /\ refused' = refused
      BY <2>1 DEF EnqueueRoom, Put
    <3>2. /\ Entries' = Entries + 1
          /\ \A i \in 0 .. Entries : Slot(i)' = IF i < Entries THEN Slot(i) ELSE oreq
      BY <1>0, <1>g, <2>1, RingPut
    <3>3. Entries \in Nat
      <4>1. Entries \in 0 .. (size - 1) /\ size \in Nat
        BY RingRange
      <4> QED
        BY <4>1
    <3>4. /\ \A i \in Waits : i \in Waits' /\ Slot(i)' = Slot(i)
          /\ Entries \in Waits' /\ \A i : i = Entries => Slot(i)' = oreq
      <4>1. Waits' = 0 .. Entries
        <5>1. (Entries + 1) - 1 = Entries
          BY <3>3
        <5> QED
          BY <3>2, <5>1 DEF Waits
      <4> QED
        BY <3>2, <3>3, <4>1 DEF Waits
    <3>5. \A s \in submitted' : Placed(s)'
      BY <1>s, <2>0, <3>1, <3>4 DEF Placed
    <3> QED
      BY <1>s, <3>1, <3>5 DEF KeptInv
  <2>2. CASE EnqueueHeapOverrun
    BY <1>2, <1>5, <2>0, <2>2 DEF IPStat_request_enqueue, EnqueueHeapOverrun, histVars
  <2>3. CASE EnqueueDiscard
    <3>1. refused' = refused \cup {oreq} /\ UNCHANGED ringVars
      BY <2>3 DEF EnqueueDiscard
    <3>2. Waits' = Waits /\ \A i : Slot(i)' = Slot(i)
      BY <3>1, RingSame
    <3>3. \A s \in submitted' : Placed(s)'
      BY <1>s, <2>0, <3>1, <3>2 DEF Placed
    <3> QED
      BY <1>s, <3>1, <3>3 DEF KeptInv, ringVars
  <2> QED
    BY <1>5, <1>g, <2>1, <2>2, <2>3 DEF IPStat_request_enqueue
<1>6. ASSUME NEW t \in Threads, Worker(t) PROVE KeptInv'
  <2>1. CASE IPStat_request_dequeue(t) /\ DequeueRequest(t)
    <3>0. UNCHANGED <<submitted, done, refused, opc, oreq, size>> /\ pc[t] = "dequeue"
      BY <2>1 DEF IPStat_request_dequeue, DequeueRequest, histVars
    <3>1. /\ Entries > 0 /\ Entries' = Entries - 1 /\ cur' = [cur EXCEPT ![t] = Slot(0)]
          /\ \A i \in 0 .. (Entries - 2) : Slot(i)' = Slot(i + 1)
      BY <1>0, <2>1, RingTake
    <3>2. Entries \in Nat
      <4>1. Entries \in 0 .. (size - 1) /\ size \in Nat
        BY RingRange
      <4> QED
        BY <4>1
    <3>3. \A i \in Waits : i = 0 \/ (i - 1 \in Waits' /\ Slot(i - 1)' = Slot(i))
      <4>1. Waits' = 0 .. (Entries - 2)
        <5>1. (Entries - 1) - 1 = Entries - 2
          BY <3>2
        <5> QED
          BY <3>1, <5>1 DEF Waits
      <4> SUFFICES ASSUME NEW i \in Waits, i # 0
                   PROVE  i - 1 \in Waits' /\ Slot(i - 1)' = Slot(i)
        OBVIOUS
      <4>2. i - 1 \in 0 .. (Entries - 2) /\ (i - 1) + 1 = i
        BY <3>2 DEF Waits
      <4>3. Slot(i - 1)' = Slot((i - 1) + 1)
        BY <3>1, <4>2
      <4> QED
        BY <4>1, <4>2, <4>3
    <3>4. InHand' = InHand \cup {t} /\ t \notin InHand
      BY <2>1, <3>0 DEF DequeueRequest, InHand, At, Goto, TypeOK
    <3>5. cur'[t] = Slot(0) /\ \A u \in InHand : cur'[u] = cur[u]
      BY <3>1, <3>4 DEF TypeOK, InHand, At
    <3>6. \A s \in submitted' : Placed(s)'
      BY <1>s, <3>0, <3>3, <3>4, <3>5 DEF Placed
    <3> QED
      BY <1>s, <3>0, <3>6 DEF KeptInv
  <2>2. CASE HandlerReturn(t)
    <3>0. /\ UNCHANGED <<submitted, refused, opc, oreq, ringVars>> /\ pc[t] = "handler"
          /\ done' = done \cup {cur[t]} /\ cur' = [cur EXCEPT ![t] = Null] /\ Goto(t, "finish")
      BY <2>2 DEF HandlerReturn
    <3>1. Waits' = Waits /\ \A i : Slot(i)' = Slot(i)
      BY <3>0, RingSame
    <3>2. InHand' = InHand \ {t} /\ \A u \in InHand' : cur'[u] = cur[u]
      BY <3>0 DEF InHand, At, Goto, TypeOK
    <3>3. \A s \in submitted' : Placed(s)'
      BY <1>s, <3>0, <3>1, <3>2 DEF Placed
    <3> QED
      BY <1>s, <3>0, <3>3 DEF KeptInv, ringVars
  <2>3. CASE \/ SemWait(t) \/ SemTimeout(t) \/ HandlerCall(t) \/ Finish(t)
             \/ IPStat_request_dequeue(t) /\ DequeueEmpty(t)
    <3>1. InHand' = InHand /\ cur' = cur
      BY <2>3, WorkerHands
    <3>2. UNCHANGED <<ringVars, histVars, opc, oreq>>
      BY <2>3 DEF SemWait, SemTimeout, HandlerCall, Finish, IPStat_request_dequeue, DequeueEmpty
    <3> QED
      BY <1>2, <3>1, <3>2
  <2> QED
    BY <1>6, <2>1, <2>2, <2>3 DEF Worker, IPStat_request_dequeue
<1>7. CASE UNCHANGED vars
  BY <1>2, <1>7 DEF vars, workVars, InHand, At
<1> QED
  BY <1>3, <1>4, <1>5, <1>6, <1>7 DEF Next, Owner

\* Until the ring first grows, the pool keeps every request it does not
\* refuse: it waits, is in a worker's hand or is handled, whatever
\* IPStat_pool_clean cancels.  The growth of IPStat_request_enqueue is
\* therefore the only step that loses an accepted request.
THEOREM NothingVanishes == Spec => [](size = InitQueueSize => NoRequestVanishes)
<1>1. Init => TypeOK /\ ExitedGone /\ KeptInv
  <2>1. Init => KeptInv
    BY PoolAssumption DEF Init, KeptInv
  <2> QED
    BY <2>1, TypeInit, GoneInit
<1>2. TypeOK /\ ExitedGone /\ KeptInv /\ [Next]_vars => (TypeOK /\ ExitedGone /\ KeptInv)'
  BY TypeNext, GoneNext, KeptNext
<1>3. TypeOK /\ KeptInv => (size = InitQueueSize => NoRequestVanishes)
  <2> SUFFICES ASSUME TypeOK, KeptInv, size = InitQueueSize, NEW r \in submitted
               PROVE  \/ r \in refused \cup done \cup Pending
                      \/ opc = "enqueue" /\ r = oreq
                      \/ \E t \in InHand : r = cur[t]
    BY DEF NoRequestVanishes
  <2> QED
    BY PendingIs DEF KeptInv, Placed
<1> QED
  BY <1>1, <1>2, <1>3, PTL DEF Spec
===========================================================================
