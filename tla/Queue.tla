------------------------------- MODULE Queue -------------------------------
(***************************************************************************)
(* The circular queue of queue.c / queue.h.  It holds the pending          *)
(* connection requests of a listening socket (socket.waitqueue) and the    *)
(* unacknowledged segments of a connection (tcp_connection.window).        *)
(*                                                                         *)
(* A struct queue is a record [front, rear, A]; the member `size' is set   *)
(* to QUEUE_SIZE by initqueue and never changes.  Each operator below is   *)
(* one C function, executed without interruption; TcpTransfer splits       *)
(* enqueue and dequeue into their assignments where they race.             *)
(***************************************************************************)
EXTENDS Integers

CONSTANT QUEUE_SIZE

ASSUME QueueSizeAssumption == QUEUE_SIZE \in Nat \ {0}

Slots == 0 .. QUEUE_SIZE - 1

\* struct queue with elements from S.
QueueType(S) == [front : Slots \cup {-1}, rear : Slots \cup {-1}, A : [Slots -> S]]

(***************************************************************************)
(* initqueue leaves the array as it finds it.                              *)
(***************************************************************************)
initqueue(q) == [front |-> -1, rear |-> -1, A |-> q.A]

isqueueempty(q) == q.front = -1

isqueuefull(q) == (q.rear + 1) % QUEUE_SIZE = q.front

(***************************************************************************)
(* The three assignments of enqueue, in order: front leaves -1 if the      *)
(* queue was empty, rear advances, the slot is filled.  A full queue       *)
(* drops the element without telling the caller.                           *)
(***************************************************************************)
OpenFront(q) == IF q.front = -1 THEN [q EXCEPT !.front = 0] ELSE q

AdvanceRear(q) == [q EXCEPT !.rear = (q.rear + 1) % QUEUE_SIZE]

FillRear(q, d) == [q EXCEPT !.A[q.rear] = d]

enqueue(q, d) == IF isqueuefull(q) THEN q
                 ELSE FillRear(AdvanceRear(OpenFront(q)), d)

(***************************************************************************)
(* dequeue returns -1 for an empty queue and resets both indices when it   *)
(* takes the last element.                                                 *)
(***************************************************************************)
DequeueResult(q) == IF isqueueempty(q) THEN -1 ELSE q.A[q.front]

\* Mutant: the last element leaves without the reset of both indices.
DequeueNoReset(q) == IF isqueueempty(q) THEN q
                     ELSE [q EXCEPT !.front = (q.front + 1) % QUEUE_SIZE]

dequeue(q) ==
  IF isqueueempty(q) THEN q
  ELSE IF q.front = q.rear THEN [q EXCEPT !.front = -1, !.rear = -1]
  ELSE [q EXCEPT !.front = (q.front + 1) % QUEUE_SIZE]

\* getfront answers 0, the null pointer, for an empty queue.
getfront(q) == IF isqueueempty(q) THEN 0 ELSE q.A[q.front]

(***************************************************************************)
(* What the queue holds, oldest first.                                     *)
(***************************************************************************)
Count(q) == IF isqueueempty(q) THEN 0
            ELSE IF q.rear >= q.front THEN q.rear - q.front + 1
            ELSE q.rear - q.front + 1 + QUEUE_SIZE

Contents(q) == [i \in 1 .. Count(q) |-> q.A[(q.front + i - 1) % QUEUE_SIZE]]

\* Both indices are -1 together: the queue is empty or both are slots.
WellFormed(q) == q.front = -1 <=> q.rear = -1
=============================================================================
