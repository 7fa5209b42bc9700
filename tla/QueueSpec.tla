----------------------------- MODULE QueueSpec -----------------------------
(***************************************************************************)
(* A single caller of queue.c: any sequence of calls, each one action.     *)
(* QueueImplementsFifo states that the ring behaves like BoundedFifo.      *)
(***************************************************************************)
EXTENDS Queue

CONSTANT Elements       \* the pointers the callers enqueue

ASSUME ElementsAssumption == Elements \subseteq Int

VARIABLES q, ret

ring == <<q, ret>>

(***************************************************************************)
(* The struct lies in zeroed memory (the sockets array, cleared again by   *)
(* socketclose) and is initialised before its first use.                   *)
(***************************************************************************)
RingInit == /\ q = initqueue([front |-> 0, rear |-> 0, A |-> [i \in Slots |-> 0]])
            /\ ret = 0

InitQueue == q' = initqueue(q) /\ UNCHANGED ret

Enqueue(d) == q' = enqueue(q, d) /\ UNCHANGED ret

Dequeue == q' = dequeue(q) /\ ret' = DequeueResult(q)

GetFront == ret' = getfront(q) /\ UNCHANGED q

IsQueueFull == ret' = (IF isqueuefull(q) THEN 1 ELSE 0) /\ UNCHANGED q

IsQueueEmpty == ret' = (IF isqueueempty(q) THEN 1 ELSE 0) /\ UNCHANGED q

RingNext == \/ InitQueue
            \/ \E d \in Elements : Enqueue(d)
            \/ Dequeue
            \/ GetFront
            \/ IsQueueFull
            \/ IsQueueEmpty

RingSpec == RingInit /\ [][RingNext]_ring

(***************************************************************************)
(* Type invariant: indices are -1 or slots of the array, -1 together.      *)
(***************************************************************************)
RingTypeOK == /\ q \in QueueType(Elements \cup {0})
              /\ WellFormed(q)
              /\ ret \in Elements \cup {-1, 0, 1}

(***************************************************************************)
(* The ring of queue.c is a bounded FIFO whose capacity is QUEUE_SIZE, not *)
(* QUEUE_SIZE - 1 as in a ring that tells full from empty by its indices:  *)
(* enqueue, dequeue, getfront, isqueuefull and isqueueempty agree with it  *)
(* in every order of calls, wrap-around and the reset to -1 included.      *)
(***************************************************************************)
Fifo == INSTANCE BoundedFifo WITH Capacity <- QUEUE_SIZE, items <- Contents(q)

QueueImplementsFifo == Fifo!Spec
=============================================================================
