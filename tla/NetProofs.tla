------------------------------ MODULE NetProofs ------------------------------
(***************************************************************************)
(* Proofs about the two tables of the network stack, each for any size:    *)
(* the ring of queue.c, and the cache of arp.c with any set of processes   *)
(* and addresses.                                                          *)
(*                                                                         *)
(* The ring implements a bounded FIFO.  The lemmas about a single call are *)
(* stated over any set S of elements, so that the modules that use the     *)
(* queue can cite them.                                                    *)
(*                                                                         *)
(* The inductive invariant of the cache is the conjunction of its four     *)
(* properties: a sleeper's entry stays REQUESTED because arp_alloc never   *)
(* takes such an entry; the only fill of that entry wakes the sleeper      *)
(* because no other entry stands for the address; and a consumed reply     *)
(* leaves no REQUESTED entry behind for the same reason.                   *)
(***************************************************************************)
EXTENDS QueueSpec, Arp, Sequences, SequenceTheorems, WellFoundedInduction, TLAPS

\* A leaf is left to Zenon where it is pure logic, and cites SMT where it takes
\* arithmetic, records or sequences.
USE Zenon

(***************************************************************************)
(* The index arithmetic of the ring: % QUEUE_SIZE wraps at most once.      *)
(***************************************************************************)
LEMMA ModWrap ==
  ASSUME NEW x \in 0 .. 2 * QUEUE_SIZE - 1
  PROVE  /\ x % QUEUE_SIZE = IF x < QUEUE_SIZE THEN x ELSE x - QUEUE_SIZE
         /\ x % QUEUE_SIZE \in Slots
  BY QueueSizeAssumption, SMTT(30) DEF Slots

(***************************************************************************)
(* The same arithmetic for a non-empty ring with indices f and b that is   *)
(* not full: counting from f, the slot after b is the first free one.      *)
(***************************************************************************)
LEMMA RingCount ==
  ASSUME NEW f \in Slots, NEW b \in Slots, NEW n \in Slots, NEW c \in Nat,
         n = IF b + 1 < QUEUE_SIZE THEN b + 1 ELSE 0,
         n # f,
         c = IF b >= f THEN b - f + 1 ELSE b - f + 1 + QUEUE_SIZE
  PROVE  /\ c < QUEUE_SIZE
         /\ c + 1 = IF n >= f THEN n - f + 1 ELSE n - f + 1 + QUEUE_SIZE
  BY QueueSizeAssumption, SMT DEF Slots

\* The old elements keep their position when one is added.
LEMMA RingIndex ==
  ASSUME NEW f \in Slots, NEW b \in Slots, NEW n \in Slots, NEW c \in Nat,
         n = IF b + 1 < QUEUE_SIZE THEN b + 1 ELSE 0,
         n # f,
         c = IF b >= f THEN b - f + 1 ELSE b - f + 1 + QUEUE_SIZE,
         NEW i \in 1 .. c + 1
  PROVE  /\ (f + i - 1) % QUEUE_SIZE \in Slots
         /\ (f + i - 1) % QUEUE_SIZE = n <=> i = c + 1
<1>1. c < QUEUE_SIZE
  BY QueueSizeAssumption, SMT DEF Slots
<1> DEFINE x == f + i - 1
<1>2. x \in 0 .. 2 * QUEUE_SIZE - 1
  BY <1>1, QueueSizeAssumption, SMT DEF Slots
<1>3. /\ x % QUEUE_SIZE = IF x < QUEUE_SIZE THEN x ELSE x - QUEUE_SIZE
      /\ x % QUEUE_SIZE \in Slots
  <2> HIDE DEF x
  <2> QED
    BY <1>2, ModWrap
<1> QED
  BY <1>1, <1>2, <1>3, QueueSizeAssumption, SMT DEF Slots

(***************************************************************************)
(* Moving front on by one shortens the ring by one and shifts every        *)
(* position by one.                                                        *)
(***************************************************************************)
LEMMA RingShift ==
  ASSUME NEW f \in Slots, NEW b \in Slots, NEW n \in Slots, f # b,
         n = IF f + 1 < QUEUE_SIZE THEN f + 1 ELSE 0
  PROVE  (IF b >= n THEN b - n + 1 ELSE b - n + 1 + QUEUE_SIZE) =
         (IF b >= f THEN b - f + 1 ELSE b - f + 1 + QUEUE_SIZE) - 1
  BY QueueSizeAssumption, SMT DEF Slots

\* The element at position k + 1 moves to position k.
LEMMA RingShiftIndex ==
  ASSUME NEW f \in Slots, NEW n \in Slots, NEW i \in 1 .. QUEUE_SIZE - 1,
         n = IF f + 1 < QUEUE_SIZE THEN f + 1 ELSE 0
  PROVE  (n + i - 1) % QUEUE_SIZE = (f + (i + 1) - 1) % QUEUE_SIZE
<1> DEFINE x == n + i - 1
           y == f + (i + 1) - 1
<1>1. /\ x \in 0 .. 2 * QUEUE_SIZE - 1
      /\ y \in 0 .. 2 * QUEUE_SIZE - 1
      /\ x = y \/ (x = y - QUEUE_SIZE /\ x < QUEUE_SIZE)
  BY QueueSizeAssumption, SMT DEF Slots
<1> HIDE DEF x, y
<1>2. /\ x % QUEUE_SIZE = IF x < QUEUE_SIZE THEN x ELSE x - QUEUE_SIZE
      /\ y % QUEUE_SIZE = IF y < QUEUE_SIZE THEN y ELSE y - QUEUE_SIZE
  BY <1>1, ModWrap
<1>3. x % QUEUE_SIZE = y % QUEUE_SIZE
  BY <1>1, <1>2, QueueSizeAssumption, SMT
<1> QED
  BY <1>3 DEF x, y

(***************************************************************************)
(* Count is a length: it is 0 exactly for the empty queue and QUEUE_SIZE   *)
(* exactly when isqueuefull says so.                                       *)
(***************************************************************************)
LEMMA CountBounds ==
  ASSUME NEW S, NEW r \in QueueType(S), WellFormed(r)
  PROVE  /\ Count(r) \in 0 .. QUEUE_SIZE
         /\ Count(r) = 0 <=> isqueueempty(r)
         /\ Count(r) = QUEUE_SIZE <=> isqueuefull(r)
<1>1. r.front \in Slots \cup {-1} /\ r.rear \in Slots \cup {-1}
  BY DEF QueueType
<1>2. CASE isqueueempty(r)
  <2>1. r.front = -1 /\ r.rear = -1
    BY <1>2 DEF isqueueempty, WellFormed
  <2>2. 0 % QUEUE_SIZE = 0
    BY QueueSizeAssumption, ModWrap, SMT
  <2> QED
    BY <2>1, <2>2, <1>2, QueueSizeAssumption, SMT DEF Count, isqueueempty, isqueuefull
<1>3. CASE ~ isqueueempty(r)
  <2>1. r.front \in Slots /\ r.rear \in Slots
    BY <1>1, <1>3 DEF isqueueempty, WellFormed
  <2> DEFINE f == r.front
             b == r.rear
             n == (b + 1) % QUEUE_SIZE
             c == Count(r)
  <2>2. n = IF b + 1 < QUEUE_SIZE THEN b + 1 ELSE 0
    BY <2>1, QueueSizeAssumption, ModWrap, SMT DEF Slots
  <2>3. c = IF b >= f THEN b - f + 1 ELSE b - f + 1 + QUEUE_SIZE
    BY <1>3 DEF Count
  <2>4. isqueuefull(r) <=> n = f
    BY DEF isqueuefull
  <2> HIDE DEF f, b, n, c
  <2>5. c \in 1 .. QUEUE_SIZE /\ (c = QUEUE_SIZE <=> n = f)
    <3>1. f \in Slots /\ b \in Slots
      BY <2>1 DEF f, b
    <3> QED
      BY <2>2, <2>3, <3>1, QueueSizeAssumption, SMT DEF Slots
  <2> QED
    BY <1>3, <2>4, <2>5, QueueSizeAssumption, SMT DEF c
<1> QED
  BY <1>2, <1>3

(***************************************************************************)
(* Contents(r) is a sequence of Count(r) elements.                         *)
(***************************************************************************)
LEMMA ContentsSeq ==
  ASSUME NEW S, NEW r \in QueueType(S), WellFormed(r)
  PROVE  /\ Contents(r) \in Seq(S)
         /\ Len(Contents(r)) = Count(r)
         /\ \A i \in 1 .. Count(r) :
              Contents(r)[i] = r.A[(r.front + i - 1) % QUEUE_SIZE]
<1>1. Count(r) \in 0 .. QUEUE_SIZE
  BY CountBounds
<1>2. ASSUME NEW i \in 1 .. Count(r)
      PROVE  r.A[(r.front + i - 1) % QUEUE_SIZE] \in S
  <2>1. r.front \in Slots
    <3>1. ~ isqueueempty(r)
      BY CountBounds, <1>1, QueueSizeAssumption, SMT
    <3> QED
      BY <3>1 DEF QueueType, isqueueempty
  <2>2. (r.front + i - 1) % QUEUE_SIZE \in Slots
    BY <1>1, <2>1, ModWrap, QueueSizeAssumption, SMT DEF Slots
  <2> QED
    BY <2>2 DEF QueueType
<1>3. Contents(r) \in [1 .. Count(r) -> S]
  BY <1>2 DEF Contents
<1> QED
  BY <1>1, <1>3, SMT DEF Contents

(***************************************************************************)
(* enqueue appends, unless the queue is full.                              *)
(***************************************************************************)
LEMMA EnqueueAppends ==
  ASSUME NEW S, NEW r \in QueueType(S), WellFormed(r), NEW d \in S
  PROVE  /\ enqueue(r, d) \in QueueType(S)
         /\ WellFormed(enqueue(r, d))
         /\ Contents(enqueue(r, d)) =
              IF Len(Contents(r)) < QUEUE_SIZE THEN Append(Contents(r), d)
                                               ELSE Contents(r)
<1> DEFINE e == enqueue(r, d)
<1>0. /\ r.front \in Slots \cup {-1} /\ r.rear \in Slots \cup {-1}
      /\ r.A \in [Slots -> S]
      /\ r = [front |-> r.front, rear |-> r.rear, A |-> r.A]
  BY DEF QueueType
<1>1. CASE isqueuefull(r)
  BY <1>1, CountBounds, ContentsSeq, QueueSizeAssumption, SMT DEF enqueue
<1>2. CASE ~ isqueuefull(r)
  <2> DEFINE nr == (r.rear + 1) % QUEUE_SIZE
  <2>1. /\ nr \in Slots
        /\ nr = IF r.rear + 1 < QUEUE_SIZE THEN r.rear + 1 ELSE 0
    BY <1>0, QueueSizeAssumption, ModWrap, SMT DEF Slots
  <2>2. /\ e.front = IF r.front = -1 THEN 0 ELSE r.front
        /\ e.rear = nr
        /\ e.A = [r.A EXCEPT ![nr] = d]
        /\ e \in QueueType(S)
    <3> DEFINE opened == OpenFront(r)
               advanced == AdvanceRear(opened)
    <3>1. opened = [front |-> IF r.front = -1 THEN 0 ELSE r.front,
                    rear |-> r.rear, A |-> r.A]
      BY <1>0 DEF OpenFront
    <3>2. advanced = [front |-> opened.front, rear |-> nr, A |-> r.A]
      BY <3>1, SMT DEF AdvanceRear
    <3>3. e = [front |-> opened.front, rear |-> nr, A |-> [r.A EXCEPT ![nr] = d]]
      BY <1>2, <3>2, SMT DEF enqueue, FillRear
    <3> HIDE DEF opened, advanced, e, nr
    <3> QED
      BY <1>0, <2>1, <3>1, <3>3, QueueSizeAssumption, SMT DEF QueueType, Slots
  <2> HIDE DEF e, nr
  <2>3. WellFormed(e)
    BY <1>0, <2>1, <2>2, SMT DEF WellFormed, Slots
  <2>4. nr # r.front
    BY <1>2 DEF isqueuefull, nr
  <2>5. /\ Count(r) \in 0 .. QUEUE_SIZE - 1
        /\ Count(e) = Count(r) + 1
        /\ \A i \in 1 .. Count(r) + 1 :
             e.A[(e.front + i - 1) % QUEUE_SIZE] =
               IF i <= Count(r) THEN Contents(r)[i] ELSE d
    <3>1. CASE isqueueempty(r)
      <4>1. r.front = -1 /\ r.rear = -1
        BY <3>1 DEF isqueueempty, WellFormed
      <4>2. nr = 0 /\ e.front = 0 /\ e.rear = 0 /\ e.A[0] = d
        BY <1>0, <2>1, <2>2, <4>1, QueueSizeAssumption, SMT DEF Slots
      <4>3. Count(r) = 0 /\ Count(e) = 1
        BY <3>1, <4>2, SMT DEF Count, isqueueempty
      <4>4. 0 % QUEUE_SIZE = 0
        BY QueueSizeAssumption, ModWrap, SMT
      <4> QED
        BY <4>2, <4>3, <4>4, QueueSizeAssumption, SMT
    <3>2. CASE ~ isqueueempty(r)
      <4> DEFINE f == r.front
                 b == r.rear
      <4>1. f \in Slots /\ b \in Slots /\ e.front = f
        BY <1>0, <2>2, <3>2 DEF isqueueempty, WellFormed
      <4>2. Count(r) = IF b >= f THEN b - f + 1 ELSE b - f + 1 + QUEUE_SIZE
        BY <3>2 DEF Count
      <4>3. Count(e) = IF nr >= f THEN nr - f + 1 ELSE nr - f + 1 + QUEUE_SIZE
        BY <2>2, <4>1, SMT DEF Count, isqueueempty, Slots
      <4>4. Count(r) \in Nat
        BY CountBounds, QueueSizeAssumption, SMT
      <4> HIDE DEF f, b
      <4>5. nr # f /\ nr = IF b + 1 < QUEUE_SIZE THEN b + 1 ELSE 0
        BY <2>1, <2>4 DEF f, b
      <4>6. Count(r) < QUEUE_SIZE /\ Count(e) = Count(r) + 1
        BY <2>1, <4>1, <4>2, <4>3, <4>4, <4>5, RingCount, SMT
      <4>7. ASSUME NEW i \in 1 .. Count(r) + 1
            PROVE  e.A[(e.front + i - 1) % QUEUE_SIZE] =
                     IF i <= Count(r) THEN Contents(r)[i] ELSE d
        <5>1. /\ (f + i - 1) % QUEUE_SIZE \in Slots
              /\ (f + i - 1) % QUEUE_SIZE = nr <=> i = Count(r) + 1
          <6> DEFINE c == Count(r)
          <6>1. c \in Nat /\ i \in 1 .. c + 1
            BY <4>4
          <6>2. c = IF b >= f THEN b - f + 1 ELSE b - f + 1 + QUEUE_SIZE
            BY <4>2
          <6> HIDE DEF c
          <6>3. /\ (f + i - 1) % QUEUE_SIZE \in Slots
                /\ (f + i - 1) % QUEUE_SIZE = nr <=> i = c + 1
            BY <2>1, <4>1, <4>5, <6>1, <6>2, QueueSizeAssumption, RingIndex, SMT DEF Slots
          <6> QED
            BY <6>3 DEF c
        <5>2. e.A[(f + i - 1) % QUEUE_SIZE] =
                IF i = Count(r) + 1 THEN d ELSE r.A[(f + i - 1) % QUEUE_SIZE]
          BY <1>0, <2>1, <2>2, <5>1
        <5>3. i # Count(r) + 1 => Contents(r)[i] = r.A[(f + i - 1) % QUEUE_SIZE]
          BY <4>4, ContentsSeq, SMT DEF f
        <5>4. i <= Count(r) <=> i # Count(r) + 1
          BY <4>4, SMT
        <5> QED
          BY <4>1, <5>2, <5>3, <5>4
      <4> QED
        BY <4>4, <4>6, <4>7, QueueSizeAssumption, SMT
    <3> QED
      BY <3>1, <3>2
  <2>6. /\ Contents(r) \in Seq(S) /\ Len(Contents(r)) = Count(r)
        /\ Contents(e) \in Seq(S) /\ Len(Contents(e)) = Count(r) + 1
        /\ \A i \in 1 .. Count(r) + 1 :
             Contents(e)[i] = IF i <= Count(r) THEN Contents(r)[i] ELSE d
    BY <2>2, <2>3, <2>5, ContentsSeq
  <2>7. Contents(e) = Append(Contents(r), d)
    <3>1. /\ Append(Contents(r), d) \in Seq(S)
          /\ Len(Append(Contents(r), d)) = Count(r) + 1
          /\ \A i \in 1 .. Count(r) + 1 :
               Append(Contents(r), d)[i] = IF i <= Count(r) THEN Contents(r)[i] ELSE d
      BY <2>5, <2>6, SMT
    <3> QED
      BY <2>5, <2>6, <3>1, SeqEqual
  <2>8. Len(Contents(r)) < QUEUE_SIZE
    BY <2>5, <2>6, QueueSizeAssumption, SMT
  <2> QED
    BY <2>2, <2>3, <2>7, <2>8 DEF e
<1> QED
  BY <1>1, <1>2

(***************************************************************************)
(* dequeue removes the head; getfront and dequeue both see that head.      *)
(***************************************************************************)
LEMMA DequeueTails ==
  ASSUME NEW S, NEW r \in QueueType(S), WellFormed(r), ~ isqueueempty(r)
  PROVE  /\ dequeue(r) \in QueueType(S)
         /\ WellFormed(dequeue(r))
         /\ Contents(r) # <<>>
         /\ Head(Contents(r)) = r.A[r.front]
         /\ Contents(dequeue(r)) = Tail(Contents(r))
<1> DEFINE e == dequeue(r)
           f == r.front
           b == r.rear
           c == Count(r)
<1>1. /\ f \in Slots /\ b \in Slots /\ r.A \in [Slots -> S]
      /\ r = [front |-> f, rear |-> b, A |-> r.A]
  BY DEF QueueType, WellFormed, isqueueempty
<1>2. /\ Contents(r) \in Seq(S) /\ Len(Contents(r)) = c /\ c \in 1 .. QUEUE_SIZE
      /\ \A i \in 1 .. c : Contents(r)[i] = r.A[(f + i - 1) % QUEUE_SIZE]
  BY ContentsSeq, CountBounds, QueueSizeAssumption, SMT
<1>3. c = IF b >= f THEN b - f + 1 ELSE b - f + 1 + QUEUE_SIZE
  BY DEF Count
<1>4. Contents(r) # <<>> /\ Head(Contents(r)) = r.A[f]
  <2>1. (f + 1 - 1) % QUEUE_SIZE = f
    BY <1>1, ModWrap, QueueSizeAssumption, SMT DEF Slots
  <2>2. Contents(r)[1] = r.A[f]
    BY <1>2, <2>1, QueueSizeAssumption, SMT
  <2> HIDE DEF c
  <2> QED
    BY <1>2, <2>2, QueueSizeAssumption, SMT
<1>5. CASE f = b
  <2>1. e = [front |-> -1, rear |-> -1, A |-> r.A]
    BY <1>1, <1>5 DEF dequeue
  <2>2. e \in QueueType(S) /\ WellFormed(e) /\ Count(e) = 0 /\ c = 1
    <3>1. e \in QueueType(S)
      BY <1>1, <2>1, SMT DEF QueueType
    <3>2. WellFormed(e) /\ Count(e) = 0
      BY <2>1, SMT DEF WellFormed, Count, isqueueempty
    <3>3. c = 1
      <4> HIDE DEF c, f, b
      <4> QED
        BY <1>1, <1>3, <1>5, QueueSizeAssumption, SMT DEF Slots
    <3> QED
      BY <3>1, <3>2, <3>3
  <2>3. Contents(e) \in Seq(S) /\ Len(Contents(e)) = 0
    <3> HIDE DEF e
    <3> QED
      BY <2>2, ContentsSeq
  <2>4. Contents(e) = <<>> /\ Tail(Contents(r)) = <<>>
    <3>1. /\ Tail(Contents(r)) \in Seq(S)
          /\ Len(Tail(Contents(r))) = 0
      <4> HIDE DEF c, e
      <4> QED
        BY <1>2, <1>4, <2>2, HeadTailProperties, SMT
    <3> QED
      BY <2>3, <3>1, EmptySeq
  <2> QED
    BY <1>4, <2>2, <2>4
<1>6. CASE f # b
  <2> DEFINE nf == (f + 1) % QUEUE_SIZE
  <2>1. e = [front |-> nf, rear |-> b, A |-> r.A]
    BY <1>1, <1>6 DEF dequeue
  <2>2. nf \in Slots /\ nf = IF f + 1 < QUEUE_SIZE THEN f + 1 ELSE 0
    BY <1>1, ModWrap, QueueSizeAssumption, SMT DEF Slots
  <2>3. e \in QueueType(S) /\ WellFormed(e)
    BY <1>1, <2>1, <2>2, SMT DEF QueueType, WellFormed, Slots
  <2>4. Count(e) = c - 1
    <3>1. Count(e) = IF b >= nf THEN b - nf + 1 ELSE b - nf + 1 + QUEUE_SIZE
      BY <2>1, <2>2, QueueSizeAssumption, SMT DEF Count, isqueueempty, Slots
    <3>2. f \in Slots /\ b \in Slots
      BY <1>1
    <3> HIDE DEF e, f, b, c, nf
    <3> QED
      BY <1>3, <1>6, <2>2, <3>1, <3>2, RingShift, SMT
  <2>5. ASSUME NEW i \in 1 .. c - 1
        PROVE  (nf + i - 1) % QUEUE_SIZE = (f + (i + 1) - 1) % QUEUE_SIZE
    <3>1. f \in Slots /\ nf \in Slots /\ i \in 1 .. QUEUE_SIZE - 1
      <4> HIDE DEF f, c, nf
      <4> QED
        BY <1>1, <1>2, <2>2, QueueSizeAssumption, SMT
    <3> HIDE DEF f, c, nf
    <3> QED
      BY <2>2, <3>1, RingShiftIndex, QueueSizeAssumption DEF Slots
  <2>6. /\ Contents(e) \in Seq(S) /\ Len(Contents(e)) = c - 1
        /\ \A i \in 1 .. c - 1 : Contents(e)[i] = Contents(r)[i + 1]
    <3>1. /\ Contents(e) \in Seq(S) /\ Len(Contents(e)) = c - 1
          /\ \A i \in 1 .. c - 1 :
               Contents(e)[i] = e.A[(e.front + i - 1) % QUEUE_SIZE]
      <4> HIDE DEF e, c
      <4> QED
        BY <2>3, <2>4, ContentsSeq
    <3>2. ASSUME NEW i \in 1 .. c - 1
          PROVE  Contents(e)[i] = Contents(r)[i + 1]
      <4>1. i + 1 \in 1 .. c
        <5> HIDE DEF c
        <5> QED
          BY <1>2, QueueSizeAssumption, SMT
      <4>2. Contents(r)[i + 1] = r.A[(f + (i + 1) - 1) % QUEUE_SIZE]
        BY <1>2, <4>1
      <4>3. Contents(e)[i] = r.A[(nf + i - 1) % QUEUE_SIZE]
        BY <2>1, <3>1, SMT
      <4> QED
        BY <2>5, <4>2, <4>3
    <3> QED
      BY <3>1, <3>2
  <2>7. Contents(e) = Tail(Contents(r))
    <3> HIDE DEF e, c
    <3>1. /\ Tail(Contents(r)) \in Seq(S) /\ Len(Tail(Contents(r))) = c - 1
          /\ \A i \in 1 .. c - 1 : Tail(Contents(r))[i] = Contents(r)[i + 1]
      BY <1>2, <1>4, HeadTailProperties, SMT
    <3> QED
      BY <2>6, <3>1, SeqEqual
  <2> QED
    BY <1>4, <2>3, <2>7
<1> QED
  BY <1>5, <1>6

(***************************************************************************)
(* initqueue empties the queue.                                            *)
(***************************************************************************)
LEMMA InitQueueEmpties ==
  ASSUME NEW S, NEW o, o.A \in [Slots -> S]
  PROVE  /\ initqueue(o) \in QueueType(S)
         /\ WellFormed(initqueue(o))
         /\ Contents(initqueue(o)) = <<>>
<1> DEFINE r == initqueue(o)
<1>1. r \in QueueType(S) /\ WellFormed(r) /\ Count(r) = 0
  BY DEF initqueue, QueueType, WellFormed, Count, isqueueempty
<1> HIDE DEF r
<1>2. Contents(r) \in Seq(S) /\ Len(Contents(r)) = 0
  BY <1>1, ContentsSeq
<1>3. Contents(r) = <<>>
  BY <1>2, EmptySeq
<1> QED
  BY <1>1, <1>3 DEF r

(***************************************************************************)
(* The type invariant, for every QUEUE_SIZE and every set of pointers.     *)
(***************************************************************************)
THEOREM RingTypeCorrect == RingSpec => []RingTypeOK
<1> DEFINE S == Elements \cup {0}
<1>1. RingInit => RingTypeOK
  <2> DEFINE o == [front |-> 0, rear |-> 0, A |-> [i \in Slots |-> 0]]
  <2>1. o.A \in [Slots -> S]
    OBVIOUS
  <2> HIDE DEF o
  <2>2. initqueue(o) \in QueueType(S) /\ WellFormed(initqueue(o))
    BY <2>1, InitQueueEmpties
  <2> QED
    BY <2>2 DEF RingInit, RingTypeOK, o
<1>2. RingTypeOK /\ [RingNext]_ring => RingTypeOK'
  <2> SUFFICES ASSUME RingTypeOK, [RingNext]_ring PROVE RingTypeOK'
    OBVIOUS
  <2>0. q \in QueueType(S) /\ WellFormed(q) /\ ret \in Elements \cup {-1, 0, 1}
    BY DEF RingTypeOK
  <2>1. CASE InitQueue
    <3>1. q.A \in [Slots -> S]
      BY <2>0 DEF QueueType
    <3>2. initqueue(q) \in QueueType(S) /\ WellFormed(initqueue(q))
      BY <3>1, InitQueueEmpties
    <3> QED
      BY <2>0, <2>1, <3>2 DEF InitQueue, RingTypeOK
  <2>2. ASSUME NEW d \in Elements, Enqueue(d) PROVE RingTypeOK'
    BY <2>0, <2>2, EnqueueAppends DEF Enqueue, RingTypeOK
  <2>3. CASE Dequeue
    <3>1. q' \in QueueType(S) /\ WellFormed(q')
      BY <2>0, <2>3, DequeueTails DEF Dequeue, dequeue
    <3>2. ret' \in Elements \cup {-1, 0, 1}
      BY <2>0, <2>3 DEF Dequeue, DequeueResult, QueueType, WellFormed, isqueueempty
    <3> QED
      BY <3>1, <3>2 DEF RingTypeOK
  <2>4. CASE GetFront
    BY <2>0, <2>4 DEF GetFront, getfront, QueueType, WellFormed, isqueueempty, RingTypeOK
  <2>5. CASE IsQueueFull
    BY <2>0, <2>5 DEF IsQueueFull, RingTypeOK
  <2>6. CASE IsQueueEmpty
    BY <2>0, <2>6 DEF IsQueueEmpty, RingTypeOK
  <2>7. CASE UNCHANGED ring
    BY <2>0, <2>7 DEF ring, RingTypeOK
  <2> QED
    BY <2>1, <2>2, <2>3, <2>4, <2>5, <2>6, <2>7 DEF RingNext
<1> QED
  BY <1>1, <1>2, PTL DEF RingSpec

(***************************************************************************)
(* The ring buffer of queue.c implements the bounded FIFO of capacity      *)
(* QUEUE_SIZE, for every QUEUE_SIZE and every sequence of calls.           *)
(***************************************************************************)
THEOREM QueueRefinesFifo == RingSpec => QueueImplementsFifo
<1> DEFINE S == Elements \cup {0}
<1>1. RingInit => Fifo!Init
  <2> DEFINE o == [front |-> 0, rear |-> 0, A |-> [i \in Slots |-> 0]]
  <2>1. o.A \in [Slots -> S]
    OBVIOUS
  <2> HIDE DEF o
  <2>2. Contents(initqueue(o)) = <<>>
    BY <2>1, InitQueueEmpties
  <2> QED
    BY <2>2 DEF RingInit, Fifo!Init, o
<1>2. RingTypeOK /\ [RingNext]_ring => [Fifo!Next]_(Fifo!vars)
  <2> SUFFICES ASSUME RingTypeOK, [RingNext]_ring PROVE Fifo!Next \/ UNCHANGED Fifo!vars
    OBVIOUS
  <2>0. q \in QueueType(S) /\ WellFormed(q)
    BY DEF RingTypeOK
  <2>a. /\ Contents(q) \in Seq(S) /\ Len(Contents(q)) = Count(q)
        /\ Contents(q) = <<>> <=> isqueueempty(q)
        /\ Len(Contents(q)) = QUEUE_SIZE <=> isqueuefull(q)
    <3>1. /\ Contents(q) \in Seq(S) /\ Len(Contents(q)) = Count(q)
          /\ Count(q) = 0 <=> isqueueempty(q)
          /\ Count(q) = QUEUE_SIZE <=> isqueuefull(q)
      BY <2>0, ContentsSeq, CountBounds
    <3> QED
      BY <3>1, EmptySeq
  <2>1. CASE InitQueue
    <3>1. q.A \in [Slots -> S]
      BY <2>0 DEF QueueType
    <3>2. Contents(initqueue(q)) = <<>>
      BY <3>1, InitQueueEmpties
    <3> QED
      BY <2>1, <3>2 DEF InitQueue, Fifo!Next, Fifo!Clear
  <2>2. ASSUME NEW d \in Elements, Enqueue(d) PROVE Fifo!Next
    BY <2>0, <2>2, EnqueueAppends, SMT DEF Enqueue, Fifo!Next, Fifo!Put
  <2>3. CASE Dequeue
    <3>1. CASE isqueueempty(q)
      BY <2>3, <2>a, <3>1 DEF Dequeue, dequeue, DequeueResult, Fifo!Next, Fifo!Take
    <3>2. CASE ~ isqueueempty(q)
      BY <2>0, <2>3, <2>a, <3>2, DequeueTails
      DEF Dequeue, DequeueResult, Fifo!Next, Fifo!Take
    <3> QED
      BY <3>1, <3>2
  <2>4. CASE GetFront
    BY <2>0, <2>4, <2>a, DequeueTails DEF GetFront, getfront, Fifo!Next, Fifo!Peek
  <2>5. CASE IsQueueFull
    BY <2>5, <2>a DEF IsQueueFull, Fifo!Next, Fifo!Full
  <2>6. CASE IsQueueEmpty
    BY <2>6, <2>a DEF IsQueueEmpty, Fifo!Next, Fifo!Empty
  <2>7. CASE UNCHANGED ring
    BY <2>7 DEF ring, Fifo!vars
  <2> QED
    BY <2>1, <2>2, <2>3, <2>4, <2>5, <2>6, <2>7 DEF RingNext
<1> QED
  BY <1>1, <1>2, RingTypeCorrect, PTL DEF RingSpec, QueueImplementsFifo, Fifo!Spec

----------------------------------------------------------------------------
\* No entry but i stands for ip.
Alone(i, ip) == \A j \in Cells : cache[j].ip = ip /\ Standing(cache[j]) => j = i

IInv == TypeOK /\ OneEntryPerIp /\ SleeperEntryPending /\ RequestInFlight

----------------------------------------------------------------------------
(***************************************************************************)
(* The loops of arp.c stop at a first match exactly if there is a match.   *)
(***************************************************************************)
LEMMA LowestExists ==
  ASSUME NEW S \in SUBSET Cells, S # {}
  PROVE  Lowest(S) # {}
<1>1. S \subseteq Nat
  BY ArpAssumption, SMT DEF Cells
<1> DEFINE R == OpToRel(<, Nat)
<1>2. IsWellFoundedOn(R, Nat)
  BY NatLessThanWellFounded
<1>3. \A x, y \in Nat : x < y => <<x, y>> \in R
  BY DEF OpToRel
<1> HIDE DEF R
<1>4. PICK x \in S : \A y \in S : ~ (<<y, x>> \in R)
  BY <1>1, <1>2, WFMin
<1>5. ASSUME NEW y \in S PROVE x <= y
  <2>1. x \in Nat /\ y \in Nat
    BY <1>1
  <2>2. ~ (y < x)
    BY <1>3, <1>4, <2>1
  <2> QED
    BY <2>1, <2>2, SMT
<1> QED
  BY <1>5 DEF Lowest

(***************************************************************************)
(* What arp_search, the search for a REQUESTED entry and arp_alloc return. *)
(***************************************************************************)
LEMMA SearchResult ==
  ASSUME NEW ip, NEW i \in arp_search(ip)
  PROVE  i \in Cells
BY DEF arp_search, Lowest

\* arp_search finds nothing only if no entry is live for the address.
LEMMA SearchFails ==
  ASSUME NEW ip, arp_search(ip) = {}, NEW j \in Cells, cache[j].ip = ip
  PROVE  ~ Live(cache[j])
<1> DEFINE S == {i \in Cells : cache[i].ip = ip /\ Live(cache[i])}
<1>1. S \in SUBSET Cells /\ Lowest(S) = {}
  BY DEF arp_search
<1>2. S = {}
  BY <1>1, LowestExists
<1> QED
  BY <1>2

\* What the loops over REQUESTED entries find carries the address.
LEMMA RequestedResult ==
  ASSUME NEW ip, NEW i \in Requested(ip)
  PROVE  i \in Cells /\ cache[i].ip = ip /\ cache[i].status = "REQUESTED"
BY DEF Requested, Lowest

\* They find nothing only if no entry is REQUESTED for the address.
LEMMA RequestedFails ==
  ASSUME NEW ip, Requested(ip) = {}, NEW j \in Cells, cache[j].ip = ip
  PROVE  cache[j].status # "REQUESTED"
<1> DEFINE S == {i \in Cells : cache[i].ip = ip /\ cache[i].status = "REQUESTED"}
<1>1. S \in SUBSET Cells /\ Lowest(S) = {}
  BY DEF Requested
<1>2. S = {}
  BY <1>1, LowestExists
<1> QED
  BY <1>2

\* arp_alloc never hands out an entry somebody waits for.
LEMMA AllocResult ==
  ASSUME NEW i \in arp_alloc
  PROVE  i \in Cells /\ cache[i].status # "REQUESTED"
<1>1. i \in Free \/ i \in Evictable
  BY DEF arp_alloc, Lowest, Oldest
<1> QED
  BY <1>1 DEF Free, Evictable

\* arp_resolve looks up only addresses of the subnet or the router.
LEMMA NextHopLocal ==
  ASSUME NEW ip \in Ips
  PROVE  /\ NextHop(ip) \in Ips
         /\ NextHop(ip) \in OnSubnet \cup {GATEWAY}
BY ArpAssumption DEF NextHop

----------------------------------------------------------------------------
(***************************************************************************)
(* Filling entry i for address ip (arp_add, arp_receive) keeps the cache   *)
(* consistent: no other entry stands for ip, and either the sleepers of i  *)
(* are woken or there are none.                                            *)
(***************************************************************************)
LEMMA FillPreserves ==
  ASSUME TypeOK, OneEntryPerIp, SleeperEntryPending,
         NEW ip \in Ips, NEW i \in Cells,
         Alone(i, ip),
         cache' = [cache EXCEPT ![i] = Filled(ip)],
         UNCHANGED <<ticks, hop, idx>>,
         \/ pc' = Wakeup(i)
         \/ pc' = pc /\ cache[i].status # "REQUESTED"
  PROVE  /\ cache' \in [Cells -> Entry]
         /\ pc' \in [Acts -> {"out", "asleep", "awake", "pointer"}]
         /\ OneEntryPerIp'
         /\ SleeperEntryPending'
<1>1. Filled(ip) \in Entry /\ Filled(ip).ip = ip /\ Filled(ip).status = "USED"
  <2>0. ticks \in Nat
    BY DEF TypeOK
  <2>1. ticks + ARP_TTL_TICKS \in Nat
    BY <2>0, ArpAssumption, SMT
  <2>2. NextHop(ip) \in Ips
    BY NextHopLocal
  <2> QED
    BY <2>1, <2>2 DEF Filled, Entry
<1>2. cache' \in [Cells -> Entry]
  BY <1>1 DEF TypeOK
<1>3. pc' \in [Acts -> {"out", "asleep", "awake", "pointer"}]
  BY DEF TypeOK, Wakeup
<1>4. \A j \in Cells : cache'[j] = IF j = i THEN Filled(ip) ELSE cache[j]
  BY DEF TypeOK
<1>5. OneEntryPerIp'
  <2> SUFFICES ASSUME NEW j \in Cells, NEW k \in Cells,
                      cache'[j].ip = cache'[k].ip,
                      Standing(cache[j])', Standing(cache[k])'
               PROVE  j = k
    BY DEF OneEntryPerIp
  <2>1. ASSUME NEW m \in Cells, m # i, Standing(cache[m])' PROVE Standing(cache[m])
    BY <1>4, <2>1 DEF Standing, Live
  <2>2. CASE j # i /\ k # i
    BY <1>4, <2>1, <2>2, SMT DEF OneEntryPerIp
  <2>3. CASE j = i /\ k # i
    BY <1>1, <1>4, <2>1, <2>3, SMT DEF Alone
  <2>4. CASE j # i /\ k = i
    BY <1>1, <1>4, <2>1, <2>4, SMT DEF Alone
  <2> QED
    BY <2>2, <2>3, <2>4
<1>6. SleeperEntryPending'
  <2> SUFFICES ASSUME NEW a \in Acts, pc'[a] = "asleep"
               PROVE  cache'[idx[a]].status = "REQUESTED" /\ cache'[idx[a]].ip = hop[a]
    BY DEF SleeperEntryPending
  <2>1. pc[a] = "asleep" /\ idx[a] # i
    BY DEF Wakeup, TypeOK, SleeperEntryPending
  <2>2. idx[a] \in Cells
    BY DEF TypeOK
  <2> QED
    BY <1>4, <2>1, <2>2, SMT DEF SleeperEntryPending
<1> QED
  BY <1>2, <1>3, <1>5, <1>6

(***************************************************************************)
(* Steps that leave the cache alone and put nobody to sleep, except an     *)
(* activity that joins the sleepers of a REQUESTED entry for its hop.      *)
(***************************************************************************)
LEMMA SameCachePreserves ==
  ASSUME IInv, UNCHANGED <<cache, ticks, asked>>,
         pc' \in [Acts -> {"out", "asleep", "awake", "pointer"}],
         hop' \in [Acts -> OnSubnet \cup {GATEWAY}],
         idx' \in [Acts -> Cells],
         isr' \in Interrupt,
         panicked' \in {"no", "sleep", "arp cache full"},
         \A a \in Acts : pc'[a] = "asleep" =>
            \/ pc[a] = "asleep" /\ idx'[a] = idx[a] /\ hop'[a] = hop[a]
            \/ cache[idx'[a]].status = "REQUESTED" /\ cache[idx'[a]].ip = hop'[a]
  PROVE  IInv'
<1>1. TypeOK'
  BY DEF IInv, TypeOK
<1>2. OneEntryPerIp'
  BY DEF IInv, OneEntryPerIp, Standing, Live
<1>3. SleeperEntryPending'
  BY DEF IInv, SleeperEntryPending
<1>4. RequestInFlight'
  BY DEF IInv, RequestInFlight
<1> QED
  BY <1>1, <1>2, <1>3, <1>4 DEF IInv

(***************************************************************************)
(* arp_resolve preserves the invariant, whoever calls it.                  *)
(***************************************************************************)
LEMMA ResolvePreserves ==
  ASSUME IInv, NEW a \in Acts, NEW ip \in Ips, arp_resolve(a, ip), isr' \in Interrupt
  PROVE  IInv'
<1> DEFINE h == NextHop(ip)
<1>0. h \in Ips /\ h \in OnSubnet \cup {GATEWAY}
  BY NextHopLocal
<1> HIDE DEF h
<1>1. CASE ResolveHit(a, h)
  <2>1. PICK i \in arp_search(h) : /\ pc' = [pc EXCEPT ![a] = "pointer"]
                                   /\ hop' = [hop EXCEPT ![a] = h]
                                   /\ idx' = [idx EXCEPT ![a] = i]
                                   /\ UNCHANGED <<cache, asked, ticks, panicked>>
    BY <1>1 DEF ResolveHit
  <2>2. i \in Cells
    BY SearchResult
  <2> QED
    BY <1>0, <2>1, <2>2, SameCachePreserves DEF IInv, TypeOK
<1>2. CASE ResolveJoin(a, h)
  <2>1. PICK i \in Requested(h) : /\ pc' = [pc EXCEPT ![a] = "asleep"]
                                  /\ hop' = [hop EXCEPT ![a] = h]
                                  /\ idx' = [idx EXCEPT ![a] = i]
                                  /\ UNCHANGED <<cache, asked, ticks, panicked>>
    BY <1>2 DEF ResolveJoin
  <2>2. i \in Cells /\ cache[i].ip = h /\ cache[i].status = "REQUESTED"
    BY RequestedResult
  <2> QED
    BY <1>0, <2>1, <2>2, SameCachePreserves DEF IInv, TypeOK
<1>3. CASE /\ ResolveAsk(a, h)
           /\ arp_alloc = {} /\ Panic("arp cache full")
  BY <1>3, SameCachePreserves DEF IInv, TypeOK, Panic
<1>4. CASE ResolveAsk(a, h) /\ ~ (arp_alloc = {} /\ Panic("arp cache full"))
  <2>1. PICK i \in arp_alloc :
               /\ cache' = [cache EXCEPT ![i] = Asking(i, h)]
               /\ asked' = asked \cup {h}
               /\ pc' = [pc EXCEPT ![a] = "asleep"]
               /\ hop' = [hop EXCEPT ![a] = h]
               /\ idx' = [idx EXCEPT ![a] = i]
               /\ UNCHANGED <<ticks, panicked>>
    BY <1>4 DEF ResolveAsk
  <2>2. i \in Cells /\ cache[i].status # "REQUESTED"
    BY AllocResult
  <2>3. \A j \in Cells : cache[j].ip = h => ~ Standing(cache[j])
    BY <1>4, SearchFails, RequestedFails DEF ResolveAsk, Standing
  <2> DEFINE e == Asking(i, h)
  <2>4. e \in Entry
    <3>1. cache[i] \in Entry
      BY <2>2 DEF IInv, TypeOK
    <3> QED
      BY <1>0, <3>1 DEF Asking, Entry
  <2>5. e.ip = h /\ e.status = "REQUESTED"
    BY DEF Asking
  <2> HIDE DEF e
  <2>6. \A j \in Cells : cache'[j] = IF j = i THEN e ELSE cache[j]
    BY <2>1 DEF IInv, TypeOK, e
  <2>7. TypeOK'
    BY <1>0, <2>1, <2>2, <2>4 DEF IInv, TypeOK, e
  <2>8. OneEntryPerIp'
    <3> SUFFICES ASSUME NEW j \in Cells, NEW k \in Cells,
                        cache'[j].ip = cache'[k].ip,
                        Standing(cache[j])', Standing(cache[k])'
                 PROVE  j = k
      BY DEF OneEntryPerIp
    <3>1. ASSUME NEW m \in Cells, m # i, Standing(cache[m])' PROVE Standing(cache[m])
      BY <2>1, <2>6, <3>1 DEF Standing, Live
    <3>2. CASE j # i /\ k # i
      BY <2>6, <3>1, <3>2 DEF IInv, OneEntryPerIp
    <3>3. CASE j = i /\ k # i
      BY <2>3, <2>5, <2>6, <3>1, <3>3
    <3>4. CASE j # i /\ k = i
      BY <2>3, <2>5, <2>6, <3>1, <3>4
    <3> QED
      BY <3>2, <3>3, <3>4
  <2>9. SleeperEntryPending'
    <3> SUFFICES ASSUME NEW b \in Acts, pc'[b] = "asleep"
                 PROVE  cache'[idx'[b]].status = "REQUESTED" /\ cache'[idx'[b]].ip = hop'[b]
      BY DEF SleeperEntryPending
    <3>1. CASE b = a
      <4>1. idx'[a] = i /\ hop'[a] = h
        BY <2>1 DEF IInv, TypeOK
      <4> QED
        BY <2>2, <2>5, <2>6, <3>1, <4>1
    <3>2. CASE b # a
      <4>1. pc[b] = "asleep" /\ idx'[b] = idx[b] /\ hop'[b] = hop[b]
        BY <2>1, <3>2 DEF IInv, TypeOK
      <4>2. idx[b] \in Cells /\ idx[b] # i
        BY <2>2, <4>1 DEF IInv, TypeOK, SleeperEntryPending
      <4> QED
        BY <2>6, <4>1, <4>2 DEF IInv, SleeperEntryPending
    <3> QED
      BY <3>1, <3>2
  <2>10. RequestInFlight'
    <3>1. h \in asked' /\ asked \subseteq asked'
      BY <2>1
    <3> SUFFICES ASSUME ~ Lossy, NEW j \in Cells, cache'[j].status = "REQUESTED"
                 PROVE  cache'[j].ip \in asked'
      BY DEF RequestInFlight
    <3>2. CASE j = i
      BY <2>5, <2>6, <3>1, <3>2
    <3>3. CASE j # i
      BY <2>6, <3>1, <3>3 DEF IInv, RequestInFlight
    <3> QED
      BY <3>2, <3>3
  <2> QED
    BY <2>7, <2>8, <2>9, <2>10 DEF IInv
<1> QED
  BY <1>1, <1>2, <1>3, <1>4 DEF arp_resolve, h

(***************************************************************************)
(* A fill that takes the place of the only standing entry for ip leaves no *)
(* REQUESTED entry for ip: the reply that caused it may be consumed.       *)
(***************************************************************************)
LEMMA FillAnswers ==
  ASSUME IInv, NEW ip \in Ips, NEW i \in Cells,
         Alone(i, ip),
         cache' = [cache EXCEPT ![i] = Filled(ip)],
         asked \ {ip} \subseteq asked'
  PROVE  RequestInFlight'
<1> SUFFICES ASSUME ~ Lossy, NEW j \in Cells, cache'[j].status = "REQUESTED"
             PROVE  cache'[j].ip \in asked'
  BY DEF RequestInFlight
<1>1. cache'[j] = IF j = i THEN Filled(ip) ELSE cache[j]
  BY DEF IInv, TypeOK
<1>2. j # i
  BY <1>1, SMT DEF Filled
<1>3. cache[j].ip # ip /\ cache[j].ip \in asked
  BY <1>1, <1>2 DEF IInv, RequestInFlight, Standing, Alone
<1> QED
  BY <1>1, <1>2, <1>3

(***************************************************************************)
(* arp_add preserves the invariant.                                        *)
(***************************************************************************)
LEMMA AddPreserves ==
  ASSUME IInv, NEW ip \in Ips, arp_add(ip), isr' \in Interrupt
  PROVE  IInv'
<1>1. CASE UNCHANGED <<cache, ticks, asked, pc, hop, idx, panicked>>
  BY <1>1, SameCachePreserves DEF IInv, TypeOK
<1>2. CASE arp_alloc = {} /\ Panic("arp cache full")
  BY <1>2, SameCachePreserves DEF IInv, TypeOK, Panic
<1>3. CASE /\ arp_search(ip) = {}
           /\ UNCHANGED <<ticks, asked, hop, idx, panicked>>
           /\ \E i \in Cells :
                /\ cache' = [cache EXCEPT ![i] = Filled(ip)]
                /\ Alone(i, ip)
                /\ \/ pc' = Wakeup(i)
                   \/ pc' = pc /\ cache[i].status # "REQUESTED"
  <2>1. PICK i \in Cells :
                /\ cache' = [cache EXCEPT ![i] = Filled(ip)]
                /\ Alone(i, ip)
                /\ \/ pc' = Wakeup(i)
                   \/ pc' = pc /\ cache[i].status # "REQUESTED"
    BY <1>3
  <2>2. /\ cache' \in [Cells -> Entry]
        /\ pc' \in [Acts -> {"out", "asleep", "awake", "pointer"}]
        /\ OneEntryPerIp'
        /\ SleeperEntryPending'
    <3>1. TypeOK /\ OneEntryPerIp /\ SleeperEntryPending /\ UNCHANGED <<ticks, hop, idx>>
      BY <1>3 DEF IInv
    <3> QED
      BY <2>1, <3>1, FillPreserves
  <2>3. RequestInFlight'
    <3>1. asked \ {ip} \subseteq asked'
      BY <1>3
    <3> QED
      BY <2>1, <3>1, FillAnswers
  <2>4. TypeOK'
    BY <1>3, <2>2 DEF IInv, TypeOK
  <2> QED
    BY <2>2, <2>3, <2>4 DEF IInv
<1>4. ASSUME NEW i \in Requested(ip), arp_search(ip) = {}
      PROVE  i \in Cells /\ Alone(i, ip)
  BY <1>4, RequestedResult, SMT DEF IInv, OneEntryPerIp, Standing, Alone
<1>5. ASSUME NEW i \in arp_alloc, arp_search(ip) = {}, Requested(ip) = {}
      PROVE  /\ i \in Cells /\ cache[i].status # "REQUESTED"
             /\ Alone(i, ip)
  BY <1>5, AllocResult, SearchFails, RequestedFails DEF Standing, Alone
<1>6. CASE /\ arp_search(ip) = {}
           /\ \E i \in Requested(ip) :
                /\ cache' = [cache EXCEPT ![i] = Filled(ip)]
                /\ pc' = Wakeup(i)
           /\ UNCHANGED <<ticks, asked, hop, idx, panicked>>
  BY <1>3, <1>4, <1>6
<1>7. CASE /\ arp_search(ip) = {}
           /\ Requested(ip) = {}
           /\ \E i \in arp_alloc : cache' = [cache EXCEPT ![i] = Filled(ip)]
           /\ UNCHANGED <<ticks, asked, pc, hop, idx, panicked>>
  BY <1>3, <1>5, <1>7
<1> QED
  BY <1>1, <1>2, <1>6, <1>7 DEF arp_add

(***************************************************************************)
(* A reply fills the REQUESTED entry, if there is one, and wakes.          *)
(***************************************************************************)
LEMMA ReceivePreserves ==
  ASSUME IInv, NEW ip \in Ips, arp_receive(ip)
  PROVE  IInv'
<1>1. /\ asked \ {ip} \subseteq asked' /\ asked' \subseteq asked
      /\ UNCHANGED <<ticks, hop, idx, isr, panicked>>
  BY DEF arp_receive
<1>2. CASE Requested(ip) = {} /\ UNCHANGED <<cache, pc>>
  <2>1. TypeOK'
    BY <1>1, <1>2 DEF IInv, TypeOK
  <2>2. OneEntryPerIp'
    BY <1>1, <1>2 DEF IInv, OneEntryPerIp, Standing, Live
  <2>3. SleeperEntryPending'
    BY <1>1, <1>2 DEF IInv, SleeperEntryPending
  <2>4. RequestInFlight'
    <3> SUFFICES ASSUME ~ Lossy, NEW j \in Cells, cache[j].status = "REQUESTED"
                 PROVE  cache[j].ip \in asked'
      BY <1>2 DEF RequestInFlight
    <3>1. cache[j].ip # ip
      BY <1>2, RequestedFails
    <3>2. cache[j].ip \in asked
      BY DEF IInv, RequestInFlight
    <3> QED
      BY <1>1, <3>1, <3>2
  <2> QED
    BY <2>1, <2>2, <2>3, <2>4 DEF IInv
<1>3. CASE \E i \in Requested(ip) : /\ cache' = [cache EXCEPT ![i] = Filled(ip)]
                                    /\ pc' = Wakeup(i)
  <2>1. PICK i \in Requested(ip) : /\ cache' = [cache EXCEPT ![i] = Filled(ip)]
                                   /\ pc' = Wakeup(i)
    BY <1>3
  <2>2. i \in Cells /\ Alone(i, ip)
    BY RequestedResult, SMT DEF IInv, OneEntryPerIp, Standing, Alone
  <2>3. /\ cache' \in [Cells -> Entry]
        /\ pc' \in [Acts -> {"out", "asleep", "awake", "pointer"}]
        /\ OneEntryPerIp'
        /\ SleeperEntryPending'
    <3>1. TypeOK /\ OneEntryPerIp /\ SleeperEntryPending /\ UNCHANGED <<ticks, hop, idx>>
      BY <1>1 DEF IInv
    <3> QED
      BY <2>1, <2>2, <3>1, FillPreserves
  <2>4. RequestInFlight'
    BY <1>1, <2>1, <2>2, FillAnswers
  <2>5. TypeOK'
    BY <1>1, <2>3 DEF IInv, TypeOK
  <2> QED
    BY <2>3, <2>4, <2>5 DEF IInv
<1> QED
  BY <1>2, <1>3 DEF arp_receive

----------------------------------------------------------------------------
(***************************************************************************)
(* The invariant is inductive: one step per action.                        *)
(***************************************************************************)
LEMMA Inductive ==
  ASSUME IInv, [Next]_vars
  PROVE  IInv'
<1>1. ASSUME NEW p \in Procs, NEW ip \in Ips, Resolve(p, ip) PROVE IInv'
  BY <1>1, ResolvePreserves DEF Resolve, Acts, IInv, TypeOK
<1>2. ASSUME NEW a \in Acts, Return(a) PROVE IInv'
  BY <1>2, SameCachePreserves DEF Return, IInv, TypeOK
<1>3. ASSUME NEW a \in Acts, ether_send(a) PROVE IInv'
  <2>1. isr' \in Interrupt
    BY <1>3 DEF ether_send, IInv, TypeOK, Interrupt
  <2>2. 0 \in Cells
    BY ArpAssumption, SMT DEF Cells
  <2> QED
    BY <1>3, <2>1, <2>2, SameCachePreserves DEF ether_send, IInv, TypeOK
<1>4. ASSUME NEW src \in Ips, NEW o \in Procs \cup {Idle}, ip_receive(src, o) PROVE IInv'
  <2>1. isr' \in Interrupt
    BY <1>4 DEF ip_receive, IInv, TypeOK, Interrupt
  <2>2. CASE arp_add(src)
    BY <2>1, <2>2, AddPreserves
  <2>3. CASE UNCHANGED <<cache, ticks, asked, pc, hop, idx, panicked>>
    BY <2>1, <2>3, SameCachePreserves DEF IInv, TypeOK
  <2> QED
    BY <1>4, <2>2, <2>3 DEF ip_receive
<1>5. CASE IsrAnswer
  <2>1. isr' \in Interrupt /\ isr.src \in Ips
    BY <1>5 DEF IsrAnswer, IInv, TypeOK, Interrupt
  <2>2. CASE arp_resolve(Nic, isr.src) \/ ResolveHit(Nic, NextHop(isr.src))
    BY <2>1, <2>2, ResolvePreserves DEF Acts, arp_resolve
  <2>3. ASSUME NEW m \in {"arp cache full", "sleep"}, Panic(m) PROVE IInv'
    BY <2>1, <2>3, SameCachePreserves DEF Panic, IInv, TypeOK
  <2> QED
    BY <1>5, <2>2, <2>3 DEF IsrAnswer
<1>6. CASE IsrSilent
  <2>1. isr' \in Interrupt
    BY <1>6 DEF IsrSilent, IInv, TypeOK, Interrupt
  <2> QED
    BY <1>6, <2>1, SameCachePreserves DEF IsrSilent, IInv, TypeOK
<1>7. CASE IsrDone
  <2>1. isr' \in Interrupt
    <3>1. Quiet \in Interrupt
      BY ArpAssumption DEF Quiet, Interrupt
    <3>2. Deaf \in Interrupt
      BY ArpAssumption DEF Deaf, Interrupt
    <3> QED
      BY <1>7, <3>1, <3>2 DEF IsrDone
  <2> QED
    BY <1>7, <2>1, SameCachePreserves DEF IsrDone, IInv, TypeOK
<1>8. ASSUME NEW ip \in Ips, arp_receive(ip) PROVE IInv'
  BY <1>8, ReceivePreserves
<1>9. ASSUME NEW ip \in Ips, Lose(ip) PROVE IInv'
  BY <1>9 DEF Lose, IInv, TypeOK, OneEntryPerIp, Standing, Live, SleeperEntryPending,
              RequestInFlight
<1>10. CASE Tick
  <2>1. ticks \in Nat /\ ticks' \in Nat /\ ticks' = ticks + 1
    <3>1. ticks \in Nat
      BY DEF IInv, TypeOK
    <3>2. ticks' = ticks + 1
      BY <1>10 DEF Tick
    <3> QED
      BY <3>1, <3>2, SMT
  <2>2. \A i \in Cells : cache[i].valid_until \in Nat
    BY DEF IInv, TypeOK, Entry
  <2>3. \A i \in Cells : Standing(cache[i])' => Standing(cache[i])
    BY <1>10, <2>1, <2>2, SMT DEF Tick, Standing, Live
  <2>4. OneEntryPerIp'
    BY <1>10, <2>3 DEF Tick, IInv, OneEntryPerIp
  <2> QED
    BY <1>10, <2>1, <2>4 DEF Tick, IInv, TypeOK, SleeperEntryPending, RequestInFlight
<1>11. ASSUME NEW p \in Procs, kill(p) PROVE IInv'
  BY <1>11, SameCachePreserves DEF kill, IInv, TypeOK
<1>12. CASE UNCHANGED vars
  BY <1>12, SameCachePreserves DEF vars, IInv, TypeOK
<1> QED
  BY <1>1, <1>2, <1>3, <1>4, <1>5, <1>6, <1>7, <1>8, <1>9, <1>10, <1>11, <1>12 DEF Next

\* The zeroed cache satisfies the invariant.
LEMMA InitInvariant == Init => IInv
<1> SUFFICES ASSUME Init PROVE IInv
  OBVIOUS
<1>1. 0 \in Cells /\ 0 \in Nat
  BY ArpAssumption, SMT DEF Cells
<1>2. Quiet \in Interrupt
  BY ArpAssumption DEF Quiet, Interrupt
<1>3. \A i \in Cells : cache[i].status = "EMPTY"
  BY DEF Init
<1>4. TypeOK
  <2>1. cache \in [Cells -> Entry]
    BY <1>1, ArpAssumption DEF Init, Entry
  <2> QED
    BY <1>1, <1>2, <2>1, ArpAssumption DEF Init, TypeOK
<1>5. OneEntryPerIp
  BY <1>3 DEF OneEntryPerIp, Standing, Live
<1>6. SleeperEntryPending
  BY DEF Init, SleeperEntryPending
<1>7. RequestInFlight
  BY <1>3 DEF RequestInFlight
<1> QED
  BY <1>4, <1>5, <1>6, <1>7 DEF IInv

\* Every reachable state satisfies the invariant.
LEMMA Invariance == Spec => []IInv
BY InitInvariant, Inductive, PTL DEF Spec

(***************************************************************************)
(* Type correctness of the ARP cache model.                                *)
(***************************************************************************)
THEOREM ArpTypeCorrect == Spec => []TypeOK
BY Invariance, PTL DEF IInv

(***************************************************************************)
(* The cache of arp.c never holds two entries that stand for one address,  *)
(* however resolvers, handlers, the clock and evictions interleave.        *)
(***************************************************************************)
THEOREM CacheConsistent == Spec => []OneEntryPerIp
BY Invariance, PTL DEF IInv

(***************************************************************************)
(* No wakeup is lost: whoever sleeps in arp_resolve sleeps on an entry     *)
(* that is still REQUESTED for the address it wants.                       *)
(***************************************************************************)
THEOREM NoSleeperOrphaned == Spec => []SleeperEntryPending
BY Invariance, PTL DEF IInv

(***************************************************************************)
(* If nothing is lost on the network, every REQUESTED entry has a request  *)
(* or a reply on the way.                                                  *)
(***************************************************************************)
THEOREM RequestsOutstanding == Spec => []RequestInFlight
BY Invariance, PTL DEF IInv

----------------------------------------------------------------------------
(***************************************************************************)
(* What the step that wakes a sleeper has done, for the two writers of an  *)
(* entry: i is filled with the address of the hop the sleeper waits for.   *)
(***************************************************************************)
LEMMA FillSatisfiesSleeper ==
  ASSUME IInv, NEW ip \in Ips, NEW i \in Requested(ip), NEW a \in Acts,
         cache' = [cache EXCEPT ![i] = Filled(ip)], pc' = Wakeup(i),
         pc[a] = "asleep", pc'[a] = "awake"
  PROVE  cache'[idx[a]].status = "USED" /\ cache'[idx[a]].mac = hop[a]
<1>1. i \in Cells /\ cache[i].ip = ip
  BY RequestedResult
<1>2. idx[a] = i
  BY DEF Wakeup
<1>3. hop[a] = ip /\ hop[a] \in OnSubnet \cup {GATEWAY}
  BY <1>1, <1>2 DEF IInv, TypeOK, SleeperEntryPending
<1>4. cache'[i] = Filled(ip)
  BY <1>1 DEF IInv, TypeOK
<1>5. NextHop(ip) = ip
  BY <1>3 DEF NextHop
<1> QED
  BY <1>2, <1>3, <1>4, <1>5, SMT DEF Filled

\* arp_resolve puts its caller to sleep and wakes no one.
LEMMA ResolveWakesNobody ==
  ASSUME IInv, NEW b \in Acts, NEW ip, arp_resolve(b, ip), NEW a \in Acts, pc[a] = "asleep"
  PROVE  pc'[a] # "awake"
BY DEF arp_resolve, ResolveHit, ResolveJoin, ResolveAsk, Panic, IInv, TypeOK

(***************************************************************************)
(* A sleeper in arp_resolve is woken only by kill() or by the step that    *)
(* fills its entry with the hardware address of the hop it asked for.      *)
(***************************************************************************)
THEOREM WokenOnlyByAnswer == Spec => WokenByAnswer
<1>1. ASSUME IInv, [Next]_vars, NEW a \in Acts, pc[a] = "asleep", pc'[a] = "awake"
      PROVE  (\E p \in Procs : kill(p)) \/ Answered(a)
  <2> USE <1>1
  <2>1. ASSUME NEW p \in Procs, NEW ip \in Ips, Resolve(p, ip) PROVE FALSE
    BY <2>1, ResolveWakesNobody DEF Resolve, Acts
  <2>2. ASSUME NEW b \in Acts, Return(b) \/ ether_send(b) PROVE FALSE
    BY <2>2 DEF Return, ether_send, IInv, TypeOK
  <2>3. ASSUME NEW src \in Ips, NEW o, ip_receive(src, o) PROVE Answered(a)
    <3>1. PICK i \in Requested(src) : /\ cache' = [cache EXCEPT ![i] = Filled(src)]
                                      /\ pc' = Wakeup(i)
      BY <2>3 DEF ip_receive, arp_add, Panic
    <3> QED
      BY <3>1, FillSatisfiesSleeper DEF Answered
  <2>4. ASSUME IsrAnswer PROVE FALSE
    BY <2>4, ResolveWakesNobody DEF IsrAnswer, Acts, Panic, arp_resolve
  <2>5. ASSUME NEW ip \in Ips, arp_receive(ip) PROVE Answered(a)
    <3>1. PICK i \in Requested(ip) : /\ cache' = [cache EXCEPT ![i] = Filled(ip)]
                                     /\ pc' = Wakeup(i)
      BY <2>5 DEF arp_receive
    <3> QED
      BY <3>1, FillSatisfiesSleeper DEF Answered
  <2>6. ~ IsrSilent /\ ~ IsrDone /\ ~ Tick /\ ~ UNCHANGED vars
    BY DEF IsrSilent, IsrDone, Tick, vars
  <2>7. \A ip \in Ips : ~ Lose(ip)
    BY DEF Lose
  <2> QED
    BY <2>1, <2>2, <2>3, <2>4, <2>5, <2>6, <2>7 DEF Next
<1>2. IInv /\ [Next]_vars => [WakeStep]_vars
  BY <1>1 DEF WakeStep
<1> QED
  BY <1>2, Invariance, PTL DEF Spec, WokenByAnswer
=============================================================================
