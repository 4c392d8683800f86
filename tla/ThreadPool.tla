---------------------------- MODULE ThreadPool ----------------------------
(***************************************************************************)
(* The worker pool of src/src/threads.c: one owner thread (the acceptor of *)
(* the console, of the squid redirector or of the pppd collector) hands    *)
(* requests to worker threads through a growing ring buffer.               *)
(*                                                                         *)
(* pool->mutex protects the ring and active_threads; the semaphore is      *)
(* posted after the mutex is released; total_threads, the handle list and  *)
(* the handles' status are touched by the owner without any lock.  A       *)
(* critical section is one action; every unlocked access is its own step.  *)
(***************************************************************************)
EXTENDS Integers, FiniteSets

CONSTANTS
  Requests,        \* the requests the owner may hand over, numbered in order
  Threads,         \* thread handles (the allocations of IPStat_spawn_thread)
  Null,            \* a NULL request pointer
  Garbage,         \* the contents of memory nobody initialised
  StartThreads,    \* init_pool->start_threads
  MaxThreads,      \* init_pool->max_threads
  MinSpare,        \* init_pool->min_spare_threads
  MaxSpare,        \* init_pool->max_spare_threads
  MaxPerThread,    \* init_pool->max_requests_per_thread, 0 = no limit
  InitQueueSize,   \* 256 in the code
  MaxQueueSize,    \* 65536 in the code
  CallsClean       \* whether the owner ever calls IPStat_pool_clean

ASSUME PoolAssumption ==
  /\ StartThreads \in Nat /\ MaxThreads \in Nat
  /\ MinSpare \in Nat /\ MaxSpare \in Nat /\ MaxPerThread \in Nat
  /\ InitQueueSize \in Nat /\ InitQueueSize > 1
  /\ MaxQueueSize \in Nat
  /\ Requests \subseteq Nat /\ Null \notin Requests /\ Garbage \notin Requests
  /\ CallsClean \in BOOLEAN

ASSUME HandlesAssumption ==
  IsFiniteSet(Threads) /\ Cardinality(Threads) >= MaxThreads

VARIABLES
  phase,      \* "none", "up", "failed" (init returned NULL), "crashed", "freed"
  queue,      \* pool->queue[0 .. queue_size-1]
  head,       \* pool->queue_head
  tail,       \* pool->queue_tail
  size,       \* pool->queue_size
  sem,        \* the value of pool->semaphore
  active,     \* pool->active_threads
  total,      \* pool->total_threads
  listed,     \* the handles on the list pool->head .. pool->tail
  status,     \* handle->status
  busy,       \* handle->request = STATUS_REQUEST
  served,     \* handle->request_count
  pc,         \* where each worker is in IPStat_request_handler
  cur,        \* the worker's local variable request
  opc,        \* where the owner is
  oreq,       \* the request the owner is handing over
  spare,      \* the owner's local variable spare in IPStat_pool_clean
  submitted,  \* history: requests passed to IPStat_pool_addrequest
  refused,    \* history: requests the enqueue discarded
  done        \* history: requests whose handler has returned

ringVars   == <<queue, head, tail, size>>
handleVars == <<total, listed, status>>
workVars   == <<busy, served, pc, cur>>
histVars   == <<submitted, refused, done>>
vars == <<phase, ringVars, sem, active, handleVars, workVars,
          opc, oreq, spare, histVars>>

Statuses  == {"UNUSED", "RUNNING", "CANCELLED", "EXITED"}
WorkerPCs == {"none", "wait", "dequeue", "taken", "handler", "finish", "exited"}
OwnerPCs  == {"idle", "enqueue", "post", "shrink", "recycle"}
---------------------------------------------------------------------------
(* The ring.  queue_size is a power of two, so x & (queue_size - 1) is the *)
(* remainder of the division by queue_size.                                *)

\* seeded fault: the mask is forgotten
Mask_none(x, n) == x

Mask(x, n) == x % n

NumEntries(h, t, n) == ((t + n) - h) % n

Entries == NumEntries(head, tail, size)

\* the slots between queue_head and queue_tail, and what they hold
Window  == {Mask(head + i, size) : i \in 0 .. (Entries - 1)}
Pending == {queue[i] : i \in Window}

\* line 313: a drained ring is rewound before it is filled again
Rewind(x) == IF head = tail THEN 0 ELSE x

\* seeded fault: the ring is taken for full one request too late
Full_late == NumEntries(Rewind(head), Rewind(tail), size) = size

Full == NumEntries(Rewind(head), Rewind(tail), size) = size - 1
---------------------------------------------------------------------------
Init ==
  /\ phase = "none"
  /\ queue = [i \in 0 .. (InitQueueSize - 1) |-> Null]
  /\ head = 0 /\ tail = 0 /\ size = InitQueueSize
  /\ sem = 0 /\ active = 0 /\ total = 0 /\ listed = {}
  /\ status = [t \in Threads |-> "UNUSED"]
  /\ busy = [t \in Threads |-> FALSE]
  /\ served = [t \in Threads |-> 0]
  /\ pc = [t \in Threads |-> "none"]
  /\ cur = [t \in Threads |-> Null]
  /\ opc = "idle" /\ oreq = Null /\ spare = 0
  /\ submitted = {} /\ refused = {} /\ done = {}

\* IPStat_spawn_thread for every handle of S: zeroed, linked, running
SpawnAll(S) ==
  /\ total' = total + Cardinality(S)
  /\ listed' = listed \cup S
  /\ status' = [t \in Threads |-> IF t \in S THEN "RUNNING" ELSE status[t]]
  /\ busy' = [t \in Threads |-> IF t \in S THEN FALSE ELSE busy[t]]
  /\ served' = [t \in Threads |-> IF t \in S THEN 0 ELSE served[t]]
  /\ pc' = [t \in Threads |-> IF t \in S THEN "wait" ELSE pc[t]]
  /\ cur' = [t \in Threads |-> IF t \in S THEN Null ELSE cur[t]]

FreeHandles == {t \in Threads : pc[t] = "none"}

\* what a run of up to n spawns can create before max_threads or a failing
\* pthread_create stops it
SpawnSets(n) ==
  {S \in SUBSET FreeHandles :
     Cardinality(S) <= n /\ total + Cardinality(S) <= MaxThreads}

IPStat_pool_init ==
  /\ phase = "none"
  /\ \E S \in SpawnSets(StartThreads) :
       /\ SpawnAll(S)
       /\ phase' = IF Cardinality(S) = StartThreads THEN "up" ELSE "failed"
  /\ UNCHANGED <<ringVars, sem, active, opc, oreq, spare, histVars>>
---------------------------------------------------------------------------
(* The owner: IPStat_pool_addrequest = test and spawn, enqueue, post.      *)

IPStat_pool_addrequest(r) ==
  /\ phase = "up" /\ opc = "idle"
  /\ r \in Requests \ submitted /\ \A s \in Requests \ submitted : r <= s
  /\ IF active = total
       THEN \E S \in SpawnSets(1) : SpawnAll(S)
       ELSE UNCHANGED <<handleVars, workVars>>
  /\ opc' = "enqueue" /\ oreq' = r
  /\ submitted' = submitted \cup {r}
  /\ UNCHANGED <<phase, ringVars, sem, active, spare, refused, done>>

\* seeded fault: the semaphore is not posted
Put_unposted(q, n) ==
  /\ queue' = [q EXCEPT ![Rewind(tail)] = oreq]
  /\ head' = Rewind(head)
  /\ tail' = Mask(Rewind(tail) + 1, n)
  /\ size' = n
  /\ opc' = "idle"
  /\ UNCHANGED <<phase, oreq, refused>>

\* the request goes into the slot at queue_tail of ring q of n slots
Put(q, n) ==
  /\ queue' = [q EXCEPT ![Rewind(tail)] = oreq]
  /\ head' = Rewind(head)
  /\ tail' = Mask(Rewind(tail) + 1, n)
  /\ size' = n
  /\ opc' = "post"
  /\ UNCHANGED <<phase, oreq, refused>>

EnqueueRoom == ~Full /\ Put(queue, size)

\* The copy keeps the slots at their indices.  The memset meant for the new
\* half starts sizeof(*new_queue) times too far, so that half stays as malloc
\* returned it, and what lies behind the allocation is overwritten.
Grown == [i \in 0 .. (2 * size - 1) |-> IF i < size THEN queue[i] ELSE Garbage]

EnqueueGrow == Full /\ size < MaxQueueSize /\ Put(Grown, 2 * size)

EnqueueHeapOverrun ==
  /\ Full /\ size < MaxQueueSize
  /\ phase' = "crashed"
  /\ UNCHANGED <<ringVars, opc, oreq, refused>>

\* the ring is at its limit, or malloc failed: the caller is not told
EnqueueDiscard ==
  /\ Full
  /\ refused' = refused \cup {oreq}
  /\ opc' = "idle" /\ oreq' = Null
  /\ UNCHANGED <<phase, ringVars>>

IPStat_request_enqueue ==
  /\ phase = "up" /\ opc = "enqueue"
  /\ EnqueueRoom \/ EnqueueGrow \/ EnqueueHeapOverrun \/ EnqueueDiscard
  /\ UNCHANGED <<sem, active, handleVars, workVars, spare, submitted, done>>

\* seeded fault: the unit posted is lost
Post_lost ==
  /\ phase = "up" /\ opc = "post"
  /\ sem' = sem
  /\ opc' = "idle" /\ oreq' = Null
  /\ UNCHANGED <<phase, ringVars, active, handleVars, workVars, spare, histVars>>

Post ==
  /\ phase = "up" /\ opc = "post"
  /\ sem' = sem + 1
  /\ opc' = "idle" /\ oreq' = Null
  /\ UNCHANGED <<phase, ringVars, active, handleVars, workVars, spare, histVars>>
---------------------------------------------------------------------------
(* A worker: IPStat_request_handler(handle).                               *)

Goto(t, l) == pc' = [pc EXCEPT ![t] = l]

\* the end of a turn of the do-while loop: leave it when cancelled
NextTurn(t) ==
  IF status[t] = "CANCELLED"
    THEN Goto(t, "exited") /\ status' = [status EXCEPT ![t] = "EXITED"]
    ELSE Goto(t, "wait") /\ UNCHANGED status

SemWait(t) ==
  /\ phase = "up" /\ pc[t] = "wait"
  /\ sem > 0 /\ sem' = sem - 1
  /\ Goto(t, "dequeue")
  /\ UNCHANGED <<phase, ringVars, active, handleVars, busy, served, cur,
                 opc, oreq, spare, histVars>>

\* sem_timedwait gives up after a second; only a cancelled worker leaves
SemTimeout(t) ==
  /\ phase = "up" /\ pc[t] = "wait"
  /\ sem = 0 /\ status[t] = "CANCELLED"
  /\ NextTurn(t)
  /\ UNCHANGED <<phase, ringVars, sem, active, total, listed, busy, served,
                 cur, opc, oreq, spare, histVars>>

DequeueEmpty(t) ==
  /\ head = tail
  /\ NextTurn(t)
  /\ UNCHANGED <<ringVars, active, cur>>

\* seeded fault: the taker is not counted as active
DequeueRequest_uncounted(t) ==
  /\ head # tail
  /\ cur' = [cur EXCEPT ![t] = queue[head]]
  /\ head' = Mask(head + 1, size)
  /\ Goto(t, "taken")
  /\ UNCHANGED <<queue, tail, size, status, active>>

\* seeded fault: the head stays on the slot just taken
DequeueRequest_kept(t) ==
  /\ head # tail
  /\ cur' = [cur EXCEPT ![t] = queue[head]]
  /\ active' = active + 1
  /\ Goto(t, "taken")
  /\ UNCHANGED <<ringVars, status>>

DequeueRequest(t) ==
  /\ head # tail
  /\ cur' = [cur EXCEPT ![t] = queue[head]]
  /\ head' = Mask(head + 1, size)
  /\ active' = active + 1
  /\ Goto(t, "taken")
  /\ UNCHANGED <<queue, tail, size, status>>

IPStat_request_dequeue(t) ==
  /\ phase = "up" /\ pc[t] = "dequeue"
  /\ DequeueEmpty(t) \/ DequeueRequest(t)
  /\ UNCHANGED <<phase, sem, total, listed, busy, served, opc, oreq, spare,
                 histVars>>

\* seeded fault: a cancelled worker leaves with the request in its hand
HandlerCall_cancelled(t) ==
  /\ phase = "up" /\ pc[t] = "taken"
  /\ Goto(t, IF status[t] = "CANCELLED" THEN "finish" ELSE "handler")
  /\ UNCHANGED <<phase, ringVars, sem, active, handleVars, served, busy, cur,
                 opc, oreq, spare, histVars>>

HandlerCall(t) ==
  /\ phase = "up" /\ pc[t] = "taken"
  /\ served' = [served EXCEPT ![t] = @ + 1]
  /\ busy' = [busy EXCEPT ![t] = TRUE]
  /\ Goto(t, "handler")
  /\ UNCHANGED <<phase, ringVars, sem, active, handleVars, cur, opc, oreq,
                 spare, histVars>>

HandlerReturn(t) ==
  /\ phase = "up" /\ pc[t] = "handler"
  /\ busy' = [busy EXCEPT ![t] = FALSE]
  /\ done' = done \cup {cur[t]}
  /\ cur' = [cur EXCEPT ![t] = Null]
  /\ Goto(t, "finish")
  /\ UNCHANGED <<phase, ringVars, sem, active, handleVars, served, opc, oreq,
                 spare, submitted, refused>>

Finish(t) ==
  /\ phase = "up" /\ pc[t] = "finish"
  /\ active' = active - 1
  /\ NextTurn(t)
  /\ UNCHANGED <<phase, ringVars, sem, total, listed, busy, served, cur,
                 opc, oreq, spare, histVars>>
---------------------------------------------------------------------------
(* IPStat_pool_clean: the time tests (last_cleaned, cleanup_delay) are     *)
(* nondeterministic; the unlocked reads happen in three separate steps.    *)

Exited == {t \in listed : status[t] = "EXITED"}

\* seeded fault: total_threads is not lowered
CleanReap_uncounted ==
  /\ CallsClean /\ phase = "up" /\ opc = "idle"
  /\ listed' = listed \ Exited
  /\ status' = [t \in Threads |-> IF t \in Exited THEN "UNUSED" ELSE status[t]]
  /\ pc' = [t \in Threads |-> IF t \in Exited THEN "none" ELSE pc[t]]
  /\ spare' = total - active
  /\ opc' = "shrink"
  /\ UNCHANGED <<phase, ringVars, sem, active, busy, served, cur, oreq, total,
                 histVars>>

\* IPStat_drop_thread for every exited handle; active_threads is read
CleanReap ==
  /\ CallsClean /\ phase = "up" /\ opc = "idle"
  /\ total' = total - Cardinality(Exited)
  /\ listed' = listed \ Exited
  /\ status' = [t \in Threads |-> IF t \in Exited THEN "UNUSED" ELSE status[t]]
  /\ pc' = [t \in Threads |-> IF t \in Exited THEN "none" ELSE pc[t]]
  /\ spare' = total' - active
  /\ opc' = "shrink"
  /\ UNCHANGED <<phase, ringVars, sem, active, busy, served, cur, oreq,
                 histVars>>

CleanSpawn ==
  /\ phase = "up" /\ opc = "shrink" /\ spare < MinSpare
  /\ \E S \in SpawnSets(MinSpare - spare) : SpawnAll(S)
  /\ opc' = "idle" /\ spare' = 0
  /\ UNCHANGED <<phase, ringVars, sem, active, oreq, histVars>>

\* called twice in a second, or too soon after a spawn
CleanTooSoon ==
  /\ phase = "up" /\ opc = "shrink" /\ spare >= MinSpare
  /\ opc' = "idle" /\ spare' = 0
  /\ UNCHANGED <<phase, ringVars, sem, active, handleVars, workVars, oreq,
                 histVars>>

Cancellable == {t \in listed : ~busy[t] /\ status[t] = "RUNNING"}

Cancel(S) ==
  /\ status' = [t \in Threads |-> IF t \in S THEN "CANCELLED" ELSE status[t]]
  /\ sem' = sem + Cardinality(S)

\* at most one surplus worker is cancelled per call (the break of line 417)
CleanShrink ==
  /\ phase = "up" /\ opc = "shrink" /\ spare >= MinSpare
  /\ IF spare > MaxSpare /\ Cancellable # {}
       THEN \E t \in Cancellable : Cancel({t})
       ELSE UNCHANGED <<status, sem>>
  /\ opc' = "recycle" /\ spare' = 0
  /\ UNCHANGED <<phase, ringVars, active, total, listed, workVars, oreq,
                 histVars>>

CleanRecycle ==
  /\ phase = "up" /\ opc = "recycle"
  /\ IF MaxPerThread > 0
       THEN Cancel({t \in Cancellable : served[t] > MaxPerThread})
       ELSE UNCHANGED <<status, sem>>
  /\ opc' = "idle"
  /\ UNCHANGED <<phase, ringVars, active, total, listed, workVars, oreq, spare,
                 histVars>>

\* thr_server frees the pool when socket() fails, before it accepts anybody; it
\* has no other call.
SocketFailed == submitted = {}

\* The workers are detached, so pthread_join returns at once and the pool is
\* freed; what a worker does with the freed pool is undefined.
IPStat_pool_free ==
  /\ phase = "up" /\ opc = "idle" /\ SocketFailed
  /\ status' = [t \in Threads |->
                  IF t \in listed THEN "CANCELLED" ELSE status[t]]
  /\ phase' = "freed"
  /\ UNCHANGED <<ringVars, sem, active, total, listed, workVars, opc, oreq,
                 spare, histVars>>
---------------------------------------------------------------------------
Owner ==
  \/ IPStat_pool_init
  \/ \E r \in Requests : IPStat_pool_addrequest(r)
  \/ IPStat_request_enqueue \/ Post
  \/ CleanReap \/ CleanSpawn \/ CleanTooSoon \/ CleanShrink \/ CleanRecycle
  \/ IPStat_pool_free

Worker(t) ==
  \/ SemWait(t) \/ SemTimeout(t) \/ IPStat_request_dequeue(t)
  \/ HandlerCall(t) \/ HandlerReturn(t) \/ Finish(t)

Next == Owner \/ \E t \in Threads : Worker(t)

Spec == Init /\ [][Next]_vars

\* The scheduler of the C library runs every runnable thread.  Nothing makes
\* a handler return (a console client may stay connected) and nothing makes
\* a new request arrive.
Fairness ==
  /\ WF_vars(IPStat_request_enqueue) /\ WF_vars(Post)
  /\ \A t \in Threads :
       WF_vars(SemWait(t) \/ SemTimeout(t) \/ IPStat_request_dequeue(t)
               \/ HandlerCall(t) \/ Finish(t))

FairSpec == Spec /\ Fairness
---------------------------------------------------------------------------
(* Properties.                                                             *)

At(L)   == {t \in Threads : pc[t] \in L}
InHand  == At({"taken", "handler"})
Holding == {"taken", "handler", "finish"}

\* Every variable stays in its declared range; the ring indices stay inside
\* the allocation whatever enqueue, growth and dequeue do to them.
TypeOK ==
  /\ phase \in {"none", "up", "failed", "crashed", "freed"}
  /\ size \in Nat /\ size > 1
  /\ queue \in [0 .. (size - 1) -> Requests \cup {Null, Garbage}]
  /\ head \in 0 .. (size - 1) /\ tail \in 0 .. (size - 1)
  /\ sem \in Nat /\ active \in Int /\ total \in Int
  /\ listed \subseteq Threads
  /\ status \in [Threads -> Statuses]
  /\ busy \in [Threads -> BOOLEAN]
  /\ served \in [Threads -> Nat]
  /\ pc \in [Threads -> WorkerPCs]
  /\ cur \in [Threads -> Requests \cup {Null, Garbage}]
  /\ opc \in OwnerPCs
  /\ oreq \in Requests \cup {Null}
  /\ spare \in Int
  /\ submitted \subseteq Requests /\ refused \subseteq Requests \cup {Null}
  /\ done \subseteq Requests \cup {Null, Garbage}

\* No lost wake-up: the queue never holds more requests than there are
\* semaphore units, workers on their way from sem_timedwait to the dequeue,
\* and the post the owner still owes (it posts after unlocking the mutex).
NoLostWakeup ==
  Entries <= sem + Cardinality(At({"dequeue"}))
                 + (IF opc = "post" THEN 1 ELSE 0)

\* active_threads, raised inside the dequeue's critical section and lowered
\* in another one after the handler, is exactly the number of workers that
\* hold a request or are about to report that they no longer do.
ActiveExact == active = Cardinality(At(Holding))

\* total_threads is the length of the handle list, never exceeds max_threads,
\* and no running worker is off the list (its handle would have been freed
\* under it by IPStat_drop_thread).
HandlesExact ==
  /\ total = Cardinality(listed) /\ total <= MaxThreads
  /\ \A t \in Threads : pc[t] # "none" <=> t \in listed

\* Every request is in at most one place: one slot of the window, one worker's
\* hand, or handled; no slot of the window is uninitialised or stale.
HandledAtMostOnce ==
  /\ Pending \subseteq Requests
  /\ Cardinality(Pending) = Cardinality(Window)
  /\ \A t \in InHand : cur[t] \in Requests \ (Pending \cup done)
  /\ \A t, u \in InHand : t # u => cur[t] # cur[u]
  /\ Pending \cap (done \cup refused) = {}
  /\ opc = "enqueue" =>
       oreq \notin Pending \cup done \cup {cur[t] : t \in InHand}

\* The window as a sequence, the oldest request first.
Fifo == [i \in 1 .. Entries |-> queue[Mask(head + i - 1, size)]]

RQ == INSTANCE RequestQueue
        WITH fifo <- Fifo, cap <- size,
             InitCap <- InitQueueSize, MaxCap <- MaxQueueSize

\* The ring implements the FIFO of RequestQueue: workers take requests in the
\* order they were handed over, across wrap-around, rewinding and growth, and
\* the only other way out of the queue is the Wipe of a growth.
ImplementsQueue == RQ!Spec

\* A waiting request is eventually taken, unless every worker of the pool is
\* inside a handler that does not return (or the pool is gone).
WaitingIsServed ==
  (phase = "up" /\ Pending # {}) ~>
    (Pending = {} \/ phase # "up" \/ \A t \in listed : pc[t] = "handler")

\* What the enqueue promises («put the request into the queue», line 303;
\* only a refusal announces that a request is discarded, line 324): an
\* accepted request stays in the queue until a worker takes it.
NoRequestVanishes ==
  phase = "up" =>
    \A r \in submitted :
      \/ r \in refused \cup done \cup Pending
      \/ opc = "enqueue" /\ r = oreq
      \/ \E t \in InHand : r = cur[t]
===========================================================================
