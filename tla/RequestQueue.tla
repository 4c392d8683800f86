--------------------------- MODULE RequestQueue ---------------------------
(***************************************************************************)
(* What the pool's queue is meant to be: a bounded FIFO of requests whose  *)
(* capacity doubles when it is full.  The one concession to the code is    *)
(* Wipe: a growth may also lose everything that was queued, the new        *)
(* request included.  ThreadPool's ImplementsQueue shows that the ring     *)
(* buffer of src/src/threads.c is such a queue and deviates in no other    *)
(* way.                                                                    *)
(***************************************************************************)
EXTENDS Naturals, Sequences

CONSTANTS Requests, InitCap, MaxCap

VARIABLES fifo, cap

vars == <<fifo, cap>>

Init == fifo = <<>> /\ cap = InitCap

Put ==
  /\ Len(fifo) < cap - 1
  /\ \E r \in Requests : fifo' = Append(fifo, r)
  /\ UNCHANGED cap

AtLimit == Len(fifo) = cap - 1 /\ cap < MaxCap

GrowPut ==
  /\ AtLimit
  /\ \E r \in Requests : fifo' = Append(fifo, r)
  /\ cap' = 2 * cap

Wipe == AtLimit /\ fifo' = <<>> /\ cap' = 2 * cap

Take ==
  /\ fifo # <<>>
  /\ fifo' = Tail(fifo)
  /\ UNCHANGED cap

Next == Put \/ GrowPut \/ Wipe \/ Take

Spec == Init /\ [][Next]_vars
===========================================================================
