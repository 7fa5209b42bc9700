---------------------------- MODULE BoundedFifo ----------------------------
(***************************************************************************)
(* What queue.c promises its callers: a first-in first-out queue of at     *)
(* most Capacity elements in which every one of the Capacity places can    *)
(* be used, that drops an element offered while it is full.                *)
(***************************************************************************)
EXTENDS Integers, Sequences

CONSTANTS Capacity, Elements

VARIABLES
  items,   \* the queued elements, oldest first
  ret      \* what the last call returned

vars == <<items, ret>>

Init == items = <<>> /\ ret = 0

\* initqueue empties the queue; enqueue and initqueue return nothing.
Clear == items' = <<>> /\ UNCHANGED ret

Put(d) == /\ items' = IF Len(items) < Capacity THEN Append(items, d) ELSE items
          /\ UNCHANGED ret

Take == \/ /\ items = <<>>
           /\ ret' = -1
           /\ UNCHANGED items
        \/ /\ items # <<>>
           /\ ret' = Head(items)
           /\ items' = Tail(items)

Peek == /\ ret' = IF items = <<>> THEN 0 ELSE Head(items)
        /\ UNCHANGED items

\* isqueuefull and isqueueempty, as 0 or 1.
Full == /\ ret' = IF Len(items) = Capacity THEN 1 ELSE 0
        /\ UNCHANGED items

Empty == /\ ret' = IF items = <<>> THEN 1 ELSE 0
         /\ UNCHANGED items

Next == \/ Clear
        \/ \E d \in Elements : Put(d)
        \/ Take
        \/ Peek
        \/ Full
        \/ Empty

Spec == Init /\ [][Next]_vars
=============================================================================
