----------------------------- MODULE TcpProofs -----------------------------
(***************************************************************************)
(* Proofs about TcpTransfer, for every window, segment size, sequence of   *)
(* writes and network: the type invariant, and that the connection is a    *)
(* byte stream.                                                            *)
(*                                                                         *)
(* Process and handler may leave the window in any state: the argument     *)
(* rests only on what a segment with sequence number n contains.  Every    *)
(* segment in tcon.pkts and on the network agrees with `wire' from its     *)
(* sequence number on, because next_seq marks the end of wire whenever a   *)
(* segment is packed; the receiver takes a segment only where its own      *)
(* bytes end.                                                              *)
(***************************************************************************)
EXTENDS TcpTransfer, SequenceTheorems, TLAPS

\* A leaf is left to Zenon where it is pure logic, and cites SMT where it takes
\* arithmetic, records or sequences.
USE Zenon

\* The bytes d lie in the stream t from sequence number s on.
Matches(t, s, d) == \A k \in 1 .. Len(d) : /\ s - 1 + k \in 1 .. Len(t)
                                           /\ t[s - 1 + k] = d[k]

\* tcp_tx inside its loop.
LoopInv == /\ pc # "idle" => w \in 1 .. Len(Writes)
           /\ pc \in PackedPcs \cup {"top"} => i <= Len(payload) \div MSS
           /\ pc \in {"full", "fullresend"} => i <= num_iter

\* next_seq is the number of the byte after the last one packed.
SeqInv == /\ pc \notin PackedPcs => next_seq = Len(wire) + 1
          /\ pc \in PackedPcs => /\ next_seq + current_payload_size = Len(wire) + 1
                                 /\ Matches(wire, next_seq, Packed)

SegmentInv == /\ \A p \in Pointers : Matches(wire, pkts[p].seq, pkts[p].data)
              /\ \A m \in net : m.kind = "data" => Matches(wire, m.seq, m.data)

PeerInv == /\ ack_sent = Len(buffer) + 1
           /\ Stream!Continues(buffer, wire)

IInv == TypeOK /\ LoopInv /\ SeqInv /\ SegmentInv /\ PeerInv

----------------------------------------------------------------------------
(***************************************************************************)
(* The size of a segment never exceeds the payload.                        *)
(***************************************************************************)
LEMMA DivMod ==
  ASSUME NEW n \in Nat, NEW m \in Nat \ {0}
  PROVE  /\ n \div m \in Nat
         /\ n % m \in 0 .. n
         /\ n \div m > 0 => m <= n
BY SMTT(30)

\* tcp_pack is given at most the bytes the payload has.
LEMMA SizeBound ==
  ASSUME w \in 1 .. Len(Writes), i \in Nat, i <= Len(payload) \div MSS
  PROVE  /\ payload \in Seq(Byte)
         /\ current_payload_size \in 0 .. Len(payload)
         /\ Packed \in Seq(Byte)
         /\ Len(Packed) = current_payload_size
<1>1. payload \in Seq(Byte)
  BY TcpAssumption, SMT DEF payload
<1> DEFINE n == Len(payload)
<1>2. n \in Nat
  BY <1>1, SMT
<1>3. /\ n \div MSS \in Nat
      /\ n % MSS \in 0 .. n
      /\ n \div MSS > 0 => MSS <= n
  <2> HIDE DEF n
  <2> QED
    BY <1>2, DivMod, TcpAssumption
<1>4. current_payload_size \in 0 .. Len(payload)
  <2>1. CASE i = n \div MSS
    BY <1>3, <2>1 DEF current_payload_size
  <2>2. CASE i # n \div MSS
    BY <1>2, <1>3, <2>2, TcpAssumption, SMT DEF current_payload_size
  <2> QED
    BY <2>1, <2>2
<1>5. Packed \in Seq(Byte) /\ Len(Packed) = current_payload_size
  <2> DEFINE c == current_payload_size
  <2>1. c \in 0 .. Len(payload)
    BY <1>4
  <2> HIDE DEF c
  <2> QED
    BY <1>1, <2>1, SubSeqProperties, SMT DEF Packed, c
<1> QED
  BY <1>1, <1>4, <1>5

----------------------------------------------------------------------------
(***************************************************************************)
(* Loads and stores on the window keep its indices and pointers in range.  *)
(***************************************************************************)
LEMMA ModSlot ==
  ASSUME NEW x \in Nat
  PROVE  x % QUEUE_SIZE \in Slots
BY QueueSizeAssumption, SMTT(30) DEF Slots

\* What the loads from the window return.
LEMMA WindowTypes ==
  ASSUME NEW q \in QueueType(Pointers \cup {0})
  PROVE  /\ q.front \in Slots \cup {-1}
         /\ q.rear \in Slots \cup {-1}
         /\ q.A \in [Slots -> Pointers \cup {0}]
         /\ getfront(q) \in Pointers \cup {0}
         /\ (q.rear + 1) % QUEUE_SIZE \in Slots
         /\ (q.front + 1) % QUEUE_SIZE \in Slots
<1>1. /\ q.front \in Slots \cup {-1}
      /\ q.rear \in Slots \cup {-1}
      /\ q.A \in [Slots -> Pointers \cup {0}]
  BY DEF QueueType
<1>2. getfront(q) \in Pointers \cup {0}
  BY <1>1 DEF getfront, isqueueempty
<1>3. q.rear + 1 \in Nat /\ q.front + 1 \in Nat
  BY <1>1, QueueSizeAssumption, SMT DEF Slots
<1> QED
  BY <1>1, <1>2, <1>3, ModSlot

\* The stores of enqueue and dequeue leave a window.
LEMMA WindowStores ==
  ASSUME NEW q \in QueueType(Pointers \cup {0}), NEW r \in Slots \cup {-1},
         NEW d \in Pointers \cup {0}
  PROVE  /\ OpenFront(q) \in QueueType(Pointers \cup {0})
         /\ [q EXCEPT !.rear = r] \in QueueType(Pointers \cup {0})
         /\ [q EXCEPT !.front = r] \in QueueType(Pointers \cup {0})
         /\ [q EXCEPT !.A[r] = d] \in QueueType(Pointers \cup {0})
<1>0. 0 \in Slots
  BY QueueSizeAssumption, SMT DEF Slots
<1>1. OpenFront(q) \in QueueType(Pointers \cup {0})
  BY <1>0 DEF OpenFront, QueueType
<1>2. [q EXCEPT !.rear = r] \in QueueType(Pointers \cup {0})
  BY DEF QueueType
<1>3. [q EXCEPT !.front = r] \in QueueType(Pointers \cup {0})
  BY DEF QueueType
<1>4. [q EXCEPT !.A[r] = d] \in QueueType(Pointers \cup {0})
  BY DEF QueueType
<1> QED
  BY <1>1, <1>2, <1>3, <1>4

----------------------------------------------------------------------------
(***************************************************************************)
(* What a segment holds stays in the stream when more is packed, and the   *)
(* newly packed bytes lie at its end.                                      *)
(***************************************************************************)
LEMMA Grows ==
  ASSUME NEW t \in Seq(Byte), NEW d \in Seq(Byte)
  PROVE  /\ t \o d \in Seq(Byte)
         /\ Len(t \o d) = Len(t) + Len(d)
         /\ Stream!Continues(t, t \o d)
         /\ Matches(t \o d, Len(t) + 1, d)
<1>1. /\ t \o d \in Seq(Byte)
      /\ Len(t \o d) = Len(t) + Len(d)
      /\ \A k \in 1 .. Len(t) + Len(d) :
           (t \o d)[k] = IF k <= Len(t) THEN t[k] ELSE d[k - Len(t)]
  BY ConcatProperties
<1>2. Len(t) \in Nat /\ Len(d) \in Nat
  BY SMT
<1>3. Stream!Continues(t, t \o d)
  BY <1>1, <1>2, SMT DEF Stream!Continues
<1>4. ASSUME NEW k \in 1 .. Len(d)
      PROVE  /\ Len(t) + 1 - 1 + k \in 1 .. Len(t \o d)
             /\ (t \o d)[Len(t) + 1 - 1 + k] = d[k]
  <2>1. Len(t) + 1 - 1 + k = Len(t) + k /\ Len(t) + k \in 1 .. Len(t) + Len(d)
    BY <1>2, SMT
  <2>2. (t \o d)[Len(t) + k] = d[(Len(t) + k) - Len(t)] /\ (Len(t) + k) - Len(t) = k
    BY <1>1, <1>2, <2>1, SMT
  <2> QED
    BY <1>1, <2>1, <2>2
<1> QED
  BY <1>1, <1>3, <1>4, SMT DEF Matches

\* A segment that lies in a stream lies in every continuation of it.
LEMMA MatchesStays ==
  ASSUME NEW t \in Seq(Byte), NEW u \in Seq(Byte), Stream!Continues(t, u),
         NEW s, NEW d, Matches(t, s, d)
  PROVE  Matches(u, s, d)
<1> SUFFICES ASSUME NEW k \in 1 .. Len(d)
             PROVE  s - 1 + k \in 1 .. Len(u) /\ u[s - 1 + k] = d[k]
  BY DEF Matches
<1> DEFINE j == s - 1 + k
<1>1. j \in 1 .. Len(t) /\ t[j] = d[k]
  BY DEF Matches
<1> HIDE DEF j
<1>2. j \in 1 .. Len(u) /\ u[j] = t[j]
  BY <1>1, SMT DEF Stream!Continues
<1> QED
  BY <1>1, <1>2 DEF j

(***************************************************************************)
(* The receiver takes a segment that starts where its own bytes end: what  *)
(* it then has is still a prefix of the stream.                            *)
(***************************************************************************)
LEMMA TakenSegment ==
  ASSUME NEW t \in Seq(Byte), NEW b \in Seq(Byte), NEW d \in Seq(Byte),
         Stream!Continues(b, t), Matches(t, Len(b) + 1, d)
  PROVE  Stream!Continues(b \o d, t)
<1>1. /\ b \o d \in Seq(Byte)
      /\ Len(b \o d) = Len(b) + Len(d)
      /\ \A k \in 1 .. Len(b) + Len(d) :
           (b \o d)[k] = IF k <= Len(b) THEN b[k] ELSE d[k - Len(b)]
  BY ConcatProperties
<1>2. Len(b) \in Nat /\ Len(d) \in Nat /\ Len(t) \in Nat
  BY SMT
<1>3. ASSUME NEW k \in 1 .. Len(d)
      PROVE  Len(b) + k \in 1 .. Len(t) /\ t[Len(b) + k] = d[k]
  BY <1>2, SMT DEF Matches
<1>4. Len(b) + Len(d) <= Len(t)
  <2>1. CASE Len(d) = 0
    BY <1>2, <2>1, SMT DEF Stream!Continues
  <2>2. CASE Len(d) # 0
    BY <1>2, <1>3, <2>2, SMT
  <2> QED
    BY <2>1, <2>2
<1>5. ASSUME NEW k \in 1 .. Len(b) + Len(d)
      PROVE  (b \o d)[k] = t[k]
  <2>1. CASE k <= Len(b)
    BY <1>1, <1>2, <2>1, SMT DEF Stream!Continues
  <2>2. CASE k > Len(b)
    <3> DEFINE j == k - Len(b)
    <3>1. j \in 1 .. Len(d) /\ Len(b) + j = k
      BY <1>2, <2>2, SMT
    <3>2. (b \o d)[k] = d[j]
      BY <1>1, <1>2, <2>2, SMT
    <3> HIDE DEF j
    <3> QED
      BY <1>3, <3>1, <3>2
  <2> QED
    BY <1>2, <2>1, <2>2, SMT
<1> QED
  BY <1>1, <1>4, <1>5 DEF Stream!Continues

----------------------------------------------------------------------------
(***************************************************************************)
(* The type invariant is preserved.                                        *)
(***************************************************************************)
LEMMA SegmentType ==
  ASSUME NEW p \in [seq : Nat, data : Seq(Byte)]
  PROVE  Data(p) \in DataSegments
BY DEF Data, DataSegments

\* The members of a segment on the network.
LEMMA NetTypes ==
  ASSUME TypeOK, NEW m \in net
  PROVE  /\ m.kind = "data" => /\ m.seq \in Nat
                               /\ m.data \in Seq(Byte)
         /\ m.kind = "ack" => m.ack \in Nat
<1>1. CASE m \in DataSegments
  BY <1>1 DEF DataSegments
<1>2. CASE m \in AckSegments
  BY <1>2 DEF AckSegments
<1> QED
  BY <1>1, <1>2 DEF TypeOK

\* tcp_resend puts a data segment on the network.
LEMMA ResendType ==
  ASSUME TypeOK, NEW p \in Pointers, tcp_resend(pkts[p])
  PROVE  net' \subseteq DataSegments \cup AckSegments
<1>1. Data(pkts[p]) \in DataSegments
  BY SegmentType DEF TypeOK
<1> QED
  BY <1>1 DEF tcp_resend, TypeOK

\* window_offset stays an index of tcon.pkts.
LEMMA OffsetType ==
  ASSUME window_offset \in 0 .. WINDOW_LENGTH - 1
  PROVE  /\ Slot \in Pointers
         /\ (window_offset + 1) % WINDOW_LENGTH \in 0 .. WINDOW_LENGTH - 1
BY TcpAssumption, SMTT(30) DEF Slot, Pointers

\* Every action preserves the type invariant.
LEMMA TypePreserved ==
  ASSUME TypeOK, LoopInv, Next
  PROVE  TypeOK'
<1> USE DEF tcon, local, peer
<1>0. /\ i \in Nat /\ next_seq \in Nat /\ w \in Nat /\ ack_sent \in Nat
      /\ window \in QueueType(Pointers \cup {0})
  BY SMT DEF TypeOK
<1>1. CASE Write
  BY <1>1, TcpAssumption, SMT DEF Write, TypeOK, PackedPcs, ResendPcs
<1>2. CASE TxPack
  <2>1. Packed \in Seq(Byte)
    BY <1>2, SizeBound DEF TxPack, LoopInv, TypeOK
  <2>2. [seq |-> next_seq, data |-> Packed] \in [seq : Nat, data : Seq(Byte)]
    BY <1>0, <2>1
  <2>3. pkts' \in [Pointers -> [seq : Nat, data : Seq(Byte)]]
    BY <1>2, <2>2 DEF TxPack, TypeOK
  <2>4. wire' \in Seq(Byte)
    BY <1>2, <2>1, SMT DEF TxPack, TypeOK
  <2> QED
    BY <1>2, <2>3, <2>4 DEF TxPack, TypeOK, PackedPcs
<1>3. CASE TxFull
  BY <1>3 DEF TxFull, TypeOK, ResendPcs
<1>4. CASE EnqLoad
  BY <1>0, <1>4, WindowTypes DEF EnqLoad, TypeOK, PackedPcs
<1>5. CASE EnqOpen
  <2>1. window' \in QueueType(Pointers \cup {0})
    BY <1>0, <1>5, WindowStores DEF EnqOpen
  <2> QED
    BY <1>5, <2>1 DEF EnqOpen, TypeOK, PackedPcs
<1>6. CASE EnqRear
  <2>1. window' \in QueueType(Pointers \cup {0})
    BY <1>0, <1>6, WindowStores DEF EnqRear, TypeOK
  <2> QED
    BY <1>6, <2>1 DEF EnqRear, TypeOK, PackedPcs
<1>7. CASE EnqFill
  <2>1. window' \in QueueType(Pointers \cup {0})
    BY <1>0, <1>7, WindowStores, OffsetType DEF EnqFill, TypeOK
  <2> QED
    BY <1>7, <2>1 DEF EnqFill, TypeOK, PackedPcs
<1>8. CASE TxSend
  <2>1. Packed \in Seq(Byte)
    BY <1>8, SizeBound DEF TxSend, LoopInv, TypeOK, PackedPcs
  <2>2. Data([seq |-> next_seq, data |-> Packed]) \in DataSegments
    BY <1>0, <2>1, SegmentType
  <2>3. window_offset' \in 0 .. WINDOW_LENGTH - 1
    BY <1>8, OffsetType DEF TxSend, TypeOK
  <2> QED
    BY <1>8, <2>2, <2>3 DEF TxSend, TypeOK, PackedPcs
<1>9. CASE TxAdvance
  <2>1. current_payload_size \in Nat
    BY <1>9, SizeBound, SMT DEF TxAdvance, LoopInv, TypeOK, PackedPcs
  <2>2. next_seq' \in Nat /\ i' \in Nat
    BY <1>0, <1>9, <2>1, SMT DEF TxAdvance
  <2> QED
    BY <1>9, <2>2 DEF TxAdvance, TypeOK, ResendPcs
<1>10. CASE TxAwaitRoom
  BY <1>0, <1>10, WindowTypes DEF TxAwaitRoom, TypeOK, ResendPcs
<1>11. CASE TxResendFull
  <2>1. net' \subseteq DataSegments \cup AckSegments
    BY <1>11, ResendType DEF TxResendFull, TypeOK
  <2> QED
    BY <1>11, <2>1 DEF TxResendFull, TypeOK, ResendPcs
<1>12. CASE TxDrain
  BY <1>0, <1>12, WindowTypes DEF TxDrain, TypeOK, ResendPcs
<1>13. CASE TxResendDrain
  <2>1. net' \subseteq DataSegments \cup AckSegments
    BY <1>13, ResendType DEF TxResendDrain, TypeOK
  <2> QED
    BY <1>13, <2>1 DEF TxResendDrain, TypeOK, ResendPcs
<1>14. ASSUME NEW m \in net, AckReceive(m)
       PROVE  TypeOK'
  <2>1. m.ack \in Nat
    BY <1>14, NetTypes DEF AckReceive
  <2>2. isr' \in IsrStates
    <3>1. getfront(window) \in Pointers \cup {0}
      BY <1>0, WindowTypes
    <3>2. \/ isr' = isr
          \/ isr' = [at |-> "test", ack |-> m.ack, qp |-> getfront(window), last |-> FALSE]
      BY <1>14 DEF AckReceive
    <3>3. [at |-> "test", ack |-> m.ack, qp |-> getfront(window), last |-> FALSE]
            \in IsrStates
      BY <2>1, <3>1 DEF IsrStates
    <3> QED
      BY <3>2, <3>3 DEF TypeOK
  <2>3. net' \subseteq net
    BY <1>14 DEF AckReceive, Deliver
  <2> QED
    BY <1>14, <2>2, <2>3 DEF AckReceive, TypeOK
<1>15. CASE IsrStop
  BY <1>15 DEF IsrStop, TypeOK, Quiet, IsrStates
<1>16. CASE IsrDequeue
  <2> DEFINE l == (window.front = window.rear)
  <2>1. isr' = [at |-> "front", ack |-> isr.ack, qp |-> isr.qp, last |-> l]
    BY <1>16 DEF IsrDequeue, TypeOK, IsrStates
  <2>2. isr' \in IsrStates
    BY <2>1 DEF TypeOK, IsrStates
  <2> QED
    BY <1>16, <2>2 DEF IsrDequeue, TypeOK
<1>17. CASE IsrFront \/ IsrRear
  <2>1. window' \in QueueType(Pointers \cup {0})
    <3>1. (window.front + 1) % QUEUE_SIZE \in Slots \cup {-1}
      BY <1>0, WindowTypes
    <3>2. \E r \in Slots \cup {-1} : \/ window' = [window EXCEPT !.front = r]
                                    \/ window' = [window EXCEPT !.rear = r]
      BY <1>17, <3>1 DEF IsrFront, IsrRear
    <3> QED
      BY <1>0, <3>2, WindowStores
  <2>2. isr' \in IsrStates
    BY <1>17 DEF IsrFront, IsrRear, TypeOK, IsrStates
  <2> QED
    BY <1>17, <2>1, <2>2 DEF IsrFront, IsrRear, TypeOK
<1>18. CASE IsrAdvance
  <2>1. Sizes(isr.qp) \subseteq Int
    <3>1. CASE isr.qp = 0
      BY <3>1, TcpAssumption DEF Sizes
    <3>2. CASE isr.qp # 0
      <4>1. pkts[isr.qp].data \in Seq(Byte)
        BY <3>2 DEF TypeOK, IsrStates
      <4>2. Len(pkts[isr.qp].data) \in Int
        BY <4>1, SMT
      <4> QED
        BY <3>2, <4>2 DEF Sizes
    <3> QED
      BY <3>1, <3>2
  <2>2. \A n \in Int : UpTo(base_seq + n) \in Int
    BY TcpAssumption, SMT DEF UpTo, TypeOK
  <2>3. base_seq' \in Int
    BY <1>18, <2>1, <2>2 DEF IsrAdvance
  <2>4. isr' \in IsrStates
    BY <1>18 DEF IsrAdvance, TypeOK, IsrStates
  <2> QED
    BY <1>18, <2>3, <2>4 DEF IsrAdvance, TypeOK
<1>19. CASE IsrFetch
  <2>1. getfront(window) \in Pointers \cup {0}
    BY <1>0, WindowTypes
  <2>2. isr' \in IsrStates
    BY <1>19, <2>1 DEF IsrFetch, TypeOK, IsrStates
  <2> QED
    BY <1>19, <2>2 DEF IsrFetch, TypeOK
<1>20. ASSUME NEW m \in net, DataReceive(m)
       PROVE  TypeOK'
  <2>1. m.seq \in Nat /\ m.data \in Seq(Byte)
    BY <1>20, NetTypes DEF DataReceive
  <2>2. Len(m.data) \in Nat
    BY <2>1, SMT
  <2>3. ack_sent' \in Nat /\ buffer' \in Seq(Byte)
    <3>1. \/ buffer' = buffer \o m.data /\ ack_sent' = m.seq + Len(m.data)
          \/ buffer' = buffer /\ ack_sent' = ack_sent
      BY <1>20 DEF DataReceive
    <3>2. buffer \o m.data \in Seq(Byte)
      BY <2>1, ConcatProperties DEF TypeOK
    <3>3. m.seq + Len(m.data) \in Nat
      BY <2>1, <2>2, SMT
    <3> QED
      BY <1>0, <3>1, <3>2, <3>3 DEF TypeOK
  <2>4. Ack(ack_sent') \in AckSegments
    BY <2>1, <2>3 DEF Ack, AckSegments
  <2>5. net' \subseteq net \cup {Ack(ack_sent')}
    BY <1>20 DEF DataReceive, Deliver
  <2> QED
    BY <1>20, <2>3, <2>4, <2>5 DEF DataReceive, TypeOK
<1>21. ASSUME NEW m \in net, Lose(m)
       PROVE  TypeOK'
  BY <1>21 DEF Lose, TypeOK
<1> QED
  BY <1>1, <1>2, <1>3, <1>4, <1>5, <1>6, <1>7, <1>8, <1>9, <1>10, <1>11, <1>12, <1>13,
     <1>14, <1>15, <1>16, <1>17, <1>18, <1>19, <1>20, <1>21 DEF Next, Tx, Isr

----------------------------------------------------------------------------
(***************************************************************************)
(* Steps that leave the stream, its end and the loop counter alone: all    *)
(* but Write, TxPack and TxAdvance.                                        *)
(***************************************************************************)
StreamUnchanged == UNCHANGED <<wire, next_seq, w, i, pkts>>

\* tcp_tx stays among the labels before, or among those after, the advance.
SameSide == /\ pc \in PackedPcs <=> pc' \in PackedPcs
            /\ pc' # "idle" => pc # "idle"
            /\ pc' = "top" => pc = "top" \/ (pc = "full" /\ i # num_iter)
            /\ pc' \in {"full", "fullresend"} => pc \in {"top", "full", "fullresend"}

(***************************************************************************)
(* A step is Write, TxPack, TxAdvance, or leaves the stream unchanged.     *)
(***************************************************************************)
LEMMA StepKinds ==
  ASSUME Next
  PROVE  \/ Write
         \/ TxPack
         \/ TxAdvance
         \/ StreamUnchanged /\ SameSide
<1> USE DEF tcon, local, peer, StreamUnchanged, SameSide, PackedPcs
<1>1. CASE TxFull \/ EnqLoad \/ EnqRear \/ EnqFill \/ TxSend
  BY <1>1 DEF TxFull, EnqLoad, EnqRear, EnqFill, TxSend
<1>2. CASE EnqOpen
  BY <1>2 DEF EnqOpen
<1>3. CASE TxAwaitRoom
  BY <1>3 DEF TxAwaitRoom
<1>4. CASE TxResendFull \/ TxResendDrain
  BY <1>4 DEF TxResendFull, TxResendDrain
<1>5. CASE TxDrain
  BY <1>5 DEF TxDrain
<1>6. CASE \E m \in net : AckReceive(m) \/ DataReceive(m) \/ Lose(m)
  BY <1>6, SMT DEF AckReceive, DataReceive, Lose
<1>7. CASE IsrStop \/ IsrDequeue \/ IsrFetch
  BY <1>7 DEF IsrStop, IsrDequeue, IsrFetch
<1>8. CASE IsrFront \/ IsrRear \/ IsrAdvance
  BY <1>8 DEF IsrFront, IsrRear, IsrAdvance
<1> QED
  BY <1>1, <1>2, <1>3, <1>4, <1>5, <1>6, <1>7, <1>8 DEF Next, Tx, Isr

\* The number of full segments of a payload.
LEMMA IterationsType ==
  ASSUME w \in 1 .. Len(Writes)
  PROVE  Len(payload) \div MSS \in Nat
<1>1. payload \in Seq(Byte)
  BY TcpAssumption, SMT DEF payload
<1>2. Len(payload) \in Nat
  BY <1>1, SMT
<1> QED
  BY <1>2, DivMod, TcpAssumption

\* tcp_tx never packs more segments than the payload has.
LEMMA LoopPreserved ==
  ASSUME TypeOK, LoopInv, Next
  PROVE  LoopInv'
<1>1. CASE Write
  <2>1. w' \in 1 .. Len(Writes) /\ pc' = "top" /\ i' = 0
    BY <1>1, TcpAssumption, SMT DEF Write, TypeOK
  <2>2. (Len(payload) \div MSS)' \in Nat
    <3>1. payload' \in Seq(Byte)
      BY <2>1, TcpAssumption, SMT DEF payload
    <3>2. Len(payload') \in Nat
      BY <3>1, SMT
    <3> QED
      BY <3>2, DivMod, TcpAssumption
  <2> QED
    BY <2>1, <2>2, SMT DEF LoopInv
<1>2. CASE TxPack
  <2>1. pc = "top" /\ pc' = "enqueue" /\ w' = w /\ i' = i
    BY <1>2 DEF TxPack
  <2>2. payload' = payload
    BY <2>1 DEF payload
  <2> QED
    BY <2>1, <2>2 DEF LoopInv, PackedPcs
<1>3. CASE TxAdvance
  <2>1. pc = "advance" /\ pc' = "full" /\ w' = w /\ i' = i + 1
    BY <1>3 DEF TxAdvance
  <2>2. payload' = payload
    BY <2>1 DEF payload
  <2>3. w \in 1 .. Len(Writes) /\ i <= Len(payload) \div MSS
    BY <2>1 DEF LoopInv, PackedPcs
  <2>4. Len(payload) \div MSS \in Nat
    BY <2>3, IterationsType
  <2>5. i' <= num_iter'
    BY <2>1, <2>2, <2>3, <2>4, SMT DEF num_iter, TypeOK
  <2> QED
    BY <2>1, <2>3, <2>5 DEF LoopInv, PackedPcs
<1>4. CASE StreamUnchanged /\ SameSide
  <2>1. w' = w /\ i' = i
    BY <1>4 DEF StreamUnchanged
  <2>2. payload' = payload /\ num_iter' = num_iter
    BY <2>1 DEF payload, num_iter
  <2>3. CASE pc' = "idle"
    BY <2>3 DEF LoopInv, PackedPcs
  <2>4. CASE pc' # "idle"
    <3>1. w \in 1 .. Len(Writes)
      BY <1>4, <2>4 DEF SameSide, LoopInv
    <3>2. Len(payload) \div MSS \in Nat /\ i \in Nat
      BY <3>1, IterationsType DEF TypeOK
    <3>3. ASSUME pc' \in PackedPcs
          PROVE  i <= Len(payload) \div MSS
      BY <1>4, <3>3 DEF SameSide, LoopInv
    <3>4. ASSUME pc' = "top"
          PROVE  i <= Len(payload) \div MSS
      BY <1>4, <3>2, <3>4, SMT DEF SameSide, LoopInv, num_iter
    <3>5. ASSUME pc' \in {"full", "fullresend"}
          PROVE  i <= num_iter
      BY <1>4, <3>2, <3>5, SMT DEF SameSide, LoopInv, num_iter
    <3> QED
      BY <2>1, <2>2, <3>1, <3>3, <3>4, <3>5 DEF LoopInv
  <2> QED
    BY <2>3, <2>4
<1> QED
  BY <1>1, <1>2, <1>3, <1>4, StepKinds

(***************************************************************************)
(* tcp_pack puts the bytes at next_seq, the end of the stream.             *)
(***************************************************************************)
LEMMA PackedAtEnd ==
  ASSUME TypeOK, LoopInv, SeqInv, TxPack
  PROVE  /\ wire' \in Seq(Byte)
         /\ Packed \in Seq(Byte)
         /\ Len(wire') = Len(wire) + Len(Packed)
         /\ Len(Packed) = current_payload_size
         /\ next_seq = Len(wire) + 1
         /\ Stream!Continues(wire, wire')
         /\ Matches(wire', next_seq, Packed)
<1>1. Packed \in Seq(Byte) /\ Len(Packed) = current_payload_size
  BY SizeBound DEF TxPack, LoopInv, TypeOK
<1>2. next_seq = Len(wire) + 1
  BY DEF TxPack, SeqInv, PackedPcs
<1>3. wire \in Seq(Byte) /\ wire' = wire \o Packed
  BY DEF TypeOK, TxPack
<1> QED
  BY <1>1, <1>2, <1>3, Grows

\* next_seq keeps marking the end of the stream.
LEMMA SeqPreserved ==
  ASSUME TypeOK, LoopInv, SeqInv, Next
  PROVE  SeqInv'
<1>1. CASE Write
  BY <1>1 DEF Write, SeqInv, PackedPcs, tcon
<1>2. CASE TxPack
  <2>1. pc' = "enqueue" /\ w' = w /\ i' = i /\ next_seq' = next_seq
    BY <1>2 DEF TxPack
  <2>2. current_payload_size' = current_payload_size /\ Packed' = Packed
    BY <2>1 DEF current_payload_size, Packed, payload
  <2>3. Len(wire) \in Nat /\ Len(Packed) \in Nat
    BY <1>2, PackedAtEnd, SMT DEF TypeOK
  <2>4. next_seq' + current_payload_size' = Len(wire') + 1
    BY <1>2, <2>1, <2>2, <2>3, PackedAtEnd, SMT
  <2> QED
    BY <1>2, <2>1, <2>2, <2>4, PackedAtEnd DEF SeqInv, PackedPcs
<1>3. CASE TxAdvance
  BY <1>3 DEF TxAdvance, SeqInv, PackedPcs
<1>4. CASE StreamUnchanged /\ SameSide
  <2>1. current_payload_size' = current_payload_size /\ Packed' = Packed
    BY <1>4 DEF StreamUnchanged, current_payload_size, Packed, payload
  <2> QED
    BY <1>4, <2>1 DEF StreamUnchanged, SameSide, SeqInv
<1> QED
  BY <1>1, <1>2, <1>3, <1>4, StepKinds

(***************************************************************************)
(* Only tcp_tx puts data on the network: what it has just packed, or what  *)
(* tcon.pkts holds.                                                        *)
(***************************************************************************)
LEMMA NewFrames ==
  ASSUME TypeOK, LoopInv, SeqInv, SegmentInv, Next,
         NEW m \in net', m.kind = "data"
  PROVE  Matches(wire, m.seq, m.data)
<1> USE DEF tcon, local, peer
<1>1. CASE m \in net
  BY <1>1 DEF SegmentInv
<1>2. ASSUME NEW p, m = Data(p), Matches(wire, p.seq, p.data)
      PROVE  Matches(wire, m.seq, m.data)
  BY <1>2 DEF Data
<1>3. CASE TxSend
  <2> DEFINE p == [seq |-> next_seq, data |-> Packed]
  <2>1. Matches(wire, p.seq, p.data)
    BY <1>3 DEF TxSend, SeqInv, PackedPcs
  <2>2. m \in net \/ m = Data(p)
    BY <1>3 DEF TxSend
  <2> HIDE DEF p
  <2> QED
    BY <1>1, <1>2, <2>1, <2>2
<1>4. ASSUME NEW p \in Pointers, tcp_resend(pkts[p])
      PROVE  Matches(wire, m.seq, m.data)
  BY <1>1, <1>2, <1>4 DEF tcp_resend, SegmentInv
<1>5. CASE TxResendFull
  <2>1. net' = net \/ (qp # 0 /\ tcp_resend(pkts[qp]))
    BY <1>5 DEF TxResendFull
  <2> QED
    BY <1>1, <1>4, <2>1 DEF TypeOK
<1>6. CASE TxResendDrain
  <2>1. net' = net \/ (qp # 0 /\ tcp_resend(pkts[qp]))
    BY <1>6 DEF TxResendDrain
  <2> QED
    BY <1>1, <1>4, <2>1 DEF TypeOK
<1>7. ASSUME NEW f \in net, DataReceive(f)
      PROVE  Matches(wire, m.seq, m.data)
  <2>1. m \in net \/ m = Ack(ack_sent')
    BY <1>7 DEF DataReceive, Deliver
  <2>2. Ack(ack_sent').kind # "data"
    BY DEF Ack
  <2> QED
    BY <1>1, <2>1, <2>2
<1>8. CASE \E f \in net : AckReceive(f) \/ Lose(f)
  BY <1>1, <1>8 DEF AckReceive, Lose, Deliver
<1>9. CASE net' = net
  BY <1>1, <1>9
<1>10. \/ TxSend \/ TxResendFull \/ TxResendDrain \/ net' = net
       \/ \E f \in net : AckReceive(f) \/ DataReceive(f) \/ Lose(f)
  BY DEF Next, Tx, Write, TxPack, TxFull, EnqLoad, EnqOpen, EnqRear, EnqFill, TxAdvance,
         TxAwaitRoom, TxDrain, Isr, IsrStop, IsrDequeue, IsrFront, IsrRear, IsrAdvance,
         IsrFetch
<1> QED
  BY <1>3, <1>5, <1>6, <1>7, <1>8, <1>9, <1>10

\* Segments in tcon.pkts and on the network stay part of the stream.
LEMMA SegmentPreserved ==
  ASSUME TypeOK, LoopInv, SeqInv, SegmentInv, Next
  PROVE  SegmentInv'
<1>1. wire \in Seq(Byte) /\ wire' \in Seq(Byte) /\ Stream!Continues(wire, wire')
  <2>1. CASE TxPack
    BY <2>1, PackedAtEnd DEF TypeOK
  <2>2. CASE wire' = wire
    <3>1. wire \in Seq(Byte) /\ Len(wire) \in Nat
      BY SMT DEF TypeOK
    <3> QED
      BY <2>2, <3>1, SMT DEF Stream!Continues
  <2> QED
    BY <2>1, <2>2, StepKinds DEF Write, TxAdvance, StreamUnchanged
<1>2. ASSUME NEW m \in net', m.kind = "data"
      PROVE  Matches(wire', m.seq, m.data)
  BY <1>1, <1>2, NewFrames, MatchesStays
<1>3. ASSUME NEW p \in Pointers
      PROVE  Matches(wire', pkts'[p].seq, pkts'[p].data)
  <2>1. CASE pkts'[p] = pkts[p]
    BY <1>1, <2>1, MatchesStays DEF SegmentInv
  <2>2. CASE TxPack /\ p = Slot
    <3>1. pkts'[p] = [seq |-> next_seq, data |-> Packed]
      BY <2>2 DEF TxPack, TypeOK
    <3> QED
      BY <2>2, <3>1, PackedAtEnd, SMT
  <2>3. \/ pkts'[p] = pkts[p]
        \/ TxPack /\ p = Slot
    BY StepKinds DEF Write, TxPack, TxAdvance, StreamUnchanged, TypeOK, tcon
  <2> QED
    BY <2>1, <2>2, <2>3
<1> QED
  BY <1>2, <1>3 DEF SegmentInv

(***************************************************************************)
(* Every step is a step of the byte stream: tcp_tx hands bytes over when   *)
(* it packs them, the peer's handler lets bytes arrive, and no other step  *)
(* changes either.                                                         *)
(***************************************************************************)
LEMMA StreamStep ==
  ASSUME IInv, Next
  PROVE  PeerInv' /\ [Stream!Next]_(Stream!vars)
<1> USE DEF IInv, tcon, local, peer
<1>0. /\ wire \in Seq(Byte) /\ Len(wire) \in Nat
      /\ buffer \in Seq(Byte) /\ Len(buffer) \in Nat
  BY SMT DEF TypeOK
<1>1. CASE TxPack
  <2>1. /\ wire' \in Seq(Byte)
        /\ Stream!Continues(wire, wire')
    BY <1>1, PackedAtEnd
  <2>2. buffer' = buffer /\ ack_sent' = ack_sent
    BY <1>1 DEF TxPack
  <2>3. Len(wire') \in Nat
    BY <2>1, SMT
  <2>4. Stream!Continues(buffer, wire')
    BY <1>0, <2>1, <2>3, SMT DEF PeerInv, Stream!Continues
  <2> QED
    BY <2>1, <2>2, <2>4 DEF PeerInv, Stream!Next, Stream!Send
<1>2. ASSUME NEW m \in net, DataReceive(m)
      PROVE  PeerInv' /\ [Stream!Next]_(Stream!vars)
  <2>1. wire' = wire
    BY <1>2 DEF DataReceive
  <2>2. CASE m.seq = ack_sent
    <3>1. buffer' = buffer \o m.data /\ ack_sent' = m.seq + Len(m.data)
      BY <1>2, <2>2 DEF DataReceive
    <3>2. m.data \in Seq(Byte) /\ Len(m.data) \in Nat
      BY <1>2, NetTypes, SMT DEF DataReceive
    <3>3. Matches(wire, Len(buffer) + 1, m.data)
      BY <1>2, <2>2 DEF DataReceive, SegmentInv, PeerInv
    <3>4. Stream!Continues(buffer', wire)
      BY <1>0, <3>1, <3>2, <3>3, TakenSegment DEF PeerInv
    <3>5. /\ buffer' \in Seq(Byte)
          /\ Len(buffer') = Len(buffer) + Len(m.data)
          /\ Stream!Continues(buffer, buffer')
      BY <1>0, <3>1, <3>2, Grows
    <3>6. ack_sent' = Len(buffer') + 1
      <4> DEFINE b == Len(buffer)
                 d == Len(m.data)
      <4>1. ack_sent' = (b + 1) + d /\ Len(buffer') = b + d
        BY <2>2, <3>1, <3>5 DEF PeerInv
      <4>2. b \in Nat /\ d \in Nat
        BY <1>0, <3>2
      <4> HIDE DEF b, d
      <4> QED
        BY <4>1, <4>2, SMT
    <3> QED
      BY <2>1, <3>4, <3>5, <3>6 DEF PeerInv, Stream!Next, Stream!Arrive
  <2>3. CASE m.seq # ack_sent
    <3>1. buffer' = buffer /\ ack_sent' = ack_sent
      BY <1>2, <2>3 DEF DataReceive
    <3> QED
      BY <2>1, <3>1 DEF PeerInv, Stream!vars
  <2> QED
    BY <2>2, <2>3
<1>3. CASE UNCHANGED <<wire, buffer, ack_sent>>
  BY <1>3 DEF PeerInv, Stream!vars
<1>4. \/ TxPack
      \/ \E m \in net : DataReceive(m)
      \/ UNCHANGED <<wire, buffer, ack_sent>>
  BY DEF Next, Tx, Write, TxFull, EnqLoad, EnqOpen, EnqRear, EnqFill, TxSend, TxAdvance,
         TxAwaitRoom, TxResendFull, TxDrain, TxResendDrain, AckReceive, Isr, IsrStop,
         IsrDequeue, IsrFront, IsrRear, IsrAdvance, IsrFetch, Lose
<1> QED
  BY <1>1, <1>2, <1>3, <1>4

(***************************************************************************)
(* The invariant holds at first and is preserved.                          *)
(***************************************************************************)
LEMMA InitInvariant ==
  ASSUME Init
  PROVE  IInv /\ Stream!Init
<1> USE DEF Init
<1>1. <<>> \in Seq(Byte) /\ Len(<<>>) = 0
  BY SMT
<1>2. TypeOK
  <2>1. window \in QueueType(Pointers \cup {0})
    BY DEF QueueType
  <2>2. pkts \in [Pointers -> [seq : Nat, data : Seq(Byte)]]
    BY <1>1
  <2>3. isr \in IsrStates
    BY DEF IsrStates, Quiet
  <2>4. w \in 0 .. Len(Writes) /\ window_offset \in 0 .. WINDOW_LENGTH - 1 /\ rear \in Slots
    BY TcpAssumption, QueueSizeAssumption, SMT DEF Slots
  <2> QED
    BY <1>1, <2>1, <2>2, <2>3, <2>4, SMT DEF TypeOK, INITIAL_SEQ
<1>3. LoopInv /\ SeqInv
  BY <1>1 DEF LoopInv, SeqInv, PackedPcs, INITIAL_SEQ
<1>4. SegmentInv
  BY <1>1, SMT DEF SegmentInv, Matches
<1>5. PeerInv /\ Stream!Init
  BY <1>1, SMT DEF PeerInv, INITIAL_SEQ, Stream!Continues, Stream!Init
<1> QED
  BY <1>2, <1>3, <1>4, <1>5 DEF IInv

\* Every step preserves the invariant.
LEMMA Invariance ==
  ASSUME IInv, [Next]_vars
  PROVE  IInv'
<1>1. CASE Next
  BY <1>1, TypePreserved, LoopPreserved, SeqPreserved, SegmentPreserved, StreamStep DEF IInv
<1>2. CASE UNCHANGED vars
  <2> USE <1>2 DEF vars, tcon, local, peer
  <2>1. TypeOK'
    BY DEF IInv, TypeOK
  <2>2. payload' = payload
    BY DEF payload
  <2>3. /\ num_iter' = num_iter
        /\ current_payload_size' = current_payload_size
        /\ Packed' = Packed
    BY <2>2 DEF num_iter, current_payload_size, Packed
  <2>4. LoopInv' /\ SeqInv'
    BY <2>2, <2>3 DEF IInv, LoopInv, SeqInv
  <2>5. SegmentInv' /\ PeerInv'
    BY DEF IInv, SegmentInv, PeerInv
  <2> QED
    BY <2>1, <2>4, <2>5 DEF IInv
<1> QED
  BY <1>1, <1>2

----------------------------------------------------------------------------
(***************************************************************************)
(* Type correctness: however process and handler race on the window, its   *)
(* indices stay in the array and its elements are slots of tcon.pkts.      *)
(***************************************************************************)
THEOREM TcpTypeCorrect == Spec => []TypeOK
<1>1. Init => IInv
  BY InitInvariant
<1>2. IInv /\ [Next]_vars => IInv'
  BY Invariance
<1>3. IInv => TypeOK
  BY DEF IInv
<1> QED
  BY <1>1, <1>2, <1>3, PTL DEF Spec

(***************************************************************************)
(* tcp_tx and tcp_receive implement a byte stream: what the receiver has   *)
(* is always a prefix of what was packed, and grows only at its end.       *)
(***************************************************************************)
THEOREM TcpRefinesStream == Spec => TcpImplementsStream
<1>1. Init => IInv /\ Stream!Init
  BY InitInvariant
<1>2. IInv /\ [Next]_vars => IInv'
  BY Invariance
<1>3. IInv /\ [Next]_vars => [Stream!Next]_(Stream!vars)
  <2>1. ASSUME UNCHANGED vars
        PROVE  UNCHANGED Stream!vars
    BY <2>1 DEF vars, peer, Stream!vars
  <2> QED
    BY <2>1, StreamStep
<1> QED
  BY <1>1, <1>2, <1>3, PTL DEF Spec, TcpImplementsStream, Stream!Spec
=============================================================================
