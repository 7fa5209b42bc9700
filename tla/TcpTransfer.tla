---------------------------- MODULE TcpTransfer ----------------------------
(***************************************************************************)
(* One direction of an established connection between two hosts that run   *)
(* this TCP: a process in tcp_tx, the interrupt handler of its host that   *)
(* takes in acknowledgements (tcp_receive), and the handler of the peer    *)
(* that takes in the data.  The other direction does not interfere: data   *)
(* segments carry no acknowledgement.                                      *)
(*                                                                         *)
(* The window of unacknowledged segments is a struct queue of pointers     *)
(* into tcon.pkts that process and handler change without a lock, so the   *)
(* two proceed in steps that each store to the window or to tcon at most   *)
(* once.  The build (-O2) keeps the index that enqueue computes in a       *)
(* register.  A struct queue passed by value (isqueuefull, isqueueempty,   *)
(* getfront) is read in one step.                                          *)
(*                                                                         *)
(* Sequence numbers are unbounded here: a connection carries fewer than    *)
(* 2^32 bytes.  Headers are abstracted to seq and ack; sizes count data    *)
(* bytes only; segments with a wrong checksum are lost ones.               *)
(***************************************************************************)
EXTENDS Queue, Sequences

CONSTANTS
  WINDOW_LENGTH,   \* length of tcon.pkts
  MSS,             \* largest segment
  Byte,            \* the bytes
  Writes,          \* the payloads of the successive calls of write
  Garbage,         \* sizes that a dereferenced null queued_packet may show
  Dup,             \* TRUE if the network may deliver a segment again
  Lossy,           \* TRUE if it may lose one
  MaxSeq           \* bound of the exploration: base_seq, should it run away

ASSUME TcpAssumption == /\ WINDOW_LENGTH \in Nat \ {0}
                        /\ MSS \in Nat \ {0}
                        /\ Writes \in Seq(Seq(Byte))
                        /\ Garbage \subseteq Int
                        /\ Dup \in BOOLEAN
                        /\ Lossy \in BOOLEAN
                        /\ MaxSeq \in Nat

\* Pointers into tcon.pkts; 0 is the null pointer.
Pointers == 1 .. WINDOW_LENGTH

VARIABLES
  window, pkts, base_seq, next_seq,     \* the sender's tcon
  w, i, window_offset, pc, rear, qp,    \* tcp_tx: the write, its locals
  isr,                                  \* the sender's handler in tcp_receive
  ack_sent, buffer,                     \* the receiver's tcon and buffer
  net,                                  \* segments in flight
  wire                                  \* history: the bytes packed, in order

tcon == <<window, pkts, base_seq, next_seq>>
local == <<w, i, window_offset, pc, rear, qp>>
peer == <<ack_sent, buffer>>
vars == <<tcon, local, isr, peer, net, wire>>

INITIAL_SEQ == 0

Data(p) == [kind |-> "data", seq |-> p.seq, data |-> p.data]

Ack(a) == [kind |-> "ack", ack |-> a]

Quiet == [at |-> "quiet", ack |-> 0, qp |-> 0, last |-> FALSE]

(***************************************************************************)
(* After connect and accept: both ends agree on the first sequence number, *)
(* the window is initialised, tcon.pkts is zeroed memory.                  *)
(***************************************************************************)
Init == /\ window = [front |-> -1, rear |-> -1, A |-> [k \in Slots |-> 0]]
        /\ pkts = [k \in Pointers |-> [seq |-> 0, data |-> <<>>]]
        /\ base_seq = INITIAL_SEQ + 1
        /\ next_seq = INITIAL_SEQ + 1
        /\ w = 0
        /\ i = 0
        /\ window_offset = 0
        /\ pc = "idle"
        /\ rear = 0
        /\ qp = 0
        /\ isr = Quiet
        /\ ack_sent = INITIAL_SEQ + 1
        /\ buffer = <<>>
        /\ net = {}
        /\ wire = <<>>

----------------------------------------------------------------------------
(***************************************************************************)
(* tcp_tx, called by socketwrite.                                          *)
(***************************************************************************)
payload == Writes[w]

num_iter == Len(payload) \div MSS + 1

current_payload_size == IF i = Len(payload) \div MSS THEN Len(payload) % MSS ELSE MSS

\* tcp_pack is given the start of the payload in every iteration.
Packed == SubSeq(payload, 1, current_payload_size)

Slot == window_offset + 1

\* ip_send.  A copy of a segment that is still in flight is not told apart from it.
tcp_resend(p) == net' = net \cup {Data(p)}

Write == /\ pc = "idle"
         /\ w < Len(Writes)
         /\ w' = w + 1
         /\ i' = 0
         /\ window_offset' = 0
         /\ pc' = "top"
         /\ UNCHANGED <<tcon, rear, qp, isr, peer, net, wire>>

\* The window has room: pack the next segment and keep a copy in tcon.pkts.
TxPack == /\ pc = "top"
          /\ ~ isqueuefull(window)
          /\ pkts' = [pkts EXCEPT ![Slot] = [seq |-> next_seq, data |-> Packed]]
          /\ wire' = wire \o Packed
          /\ pc' = "enqueue"
          /\ UNCHANGED <<window, base_seq, next_seq, w, i, window_offset, rear, qp, isr,
                         peer, net>>

TxFull == /\ pc = "top"
          /\ isqueuefull(window)
          /\ pc' = "full"
          /\ UNCHANGED <<tcon, w, i, window_offset, rear, qp, isr, peer, net, wire>>

(***************************************************************************)
(* enqueue, load by load and store by store.                               *)
(***************************************************************************)
EnqLoad == /\ pc = "enqueue"
           /\ rear' = (window.rear + 1) % QUEUE_SIZE
           /\ pc' = "open"
           /\ UNCHANGED <<tcon, w, i, window_offset, qp, isr, peer, net, wire>>

EnqOpen == /\ pc = "open"
           /\ IF rear = window.front
              THEN pc' = "send" /\ UNCHANGED window
              ELSE pc' = "rear" /\ window' = OpenFront(window)
           /\ UNCHANGED <<pkts, base_seq, next_seq, w, i, window_offset, rear, qp, isr,
                          peer, net, wire>>

EnqRear == /\ pc = "rear"
           /\ window' = [window EXCEPT !.rear = rear]
           /\ pc' = "fill"
           /\ UNCHANGED <<pkts, base_seq, next_seq, w, i, window_offset, rear, qp, isr,
                          peer, net, wire>>

EnqFill == /\ pc = "fill"
           /\ window' = [window EXCEPT !.A[rear] = Slot]
           /\ pc' = "send"
           /\ UNCHANGED <<pkts, base_seq, next_seq, w, i, window_offset, rear, qp, isr,
                          peer, net, wire>>

TxSend == /\ pc = "send"
          /\ net' = net \cup {Data([seq |-> next_seq, data |-> Packed])}
          /\ window_offset' = (window_offset + 1) % WINDOW_LENGTH
          /\ pc' = "advance"
          /\ UNCHANGED <<tcon, w, i, rear, qp, isr, peer, wire>>

\* next_seq is advanced after the segment has left.
TxAdvance == /\ pc = "advance"
             /\ next_seq' = next_seq + current_payload_size
             /\ i' = i + 1
             /\ pc' = "full"
             /\ UNCHANGED <<window, pkts, base_seq, w, window_offset, rear, qp, isr, peer,
                            net, wire>>

\* while(isqueuefull(window)): delay, then read the front of the window.
TxAwaitRoom == /\ pc = "full"
               /\ IF isqueuefull(window)
                  THEN pc' = "fullresend" /\ qp' = getfront(window)
                  ELSE pc' = (IF i = num_iter THEN "drain" ELSE "top") /\ UNCHANGED qp
               /\ UNCHANGED <<tcon, w, i, window_offset, rear, isr, peer, net, wire>>

TxResendFull == /\ pc = "fullresend"
                /\ IF isqueuefull(window) /\ qp # 0 THEN tcp_resend(pkts[qp]) ELSE UNCHANGED net
                /\ pc' = "full"
                /\ UNCHANGED <<tcon, w, i, window_offset, rear, qp, isr, peer, wire>>

\* while(base_seq != next_seq), after the last segment.
TxDrain == /\ pc = "drain"
           /\ IF base_seq # next_seq
              THEN pc' = "drainresend" /\ qp' = getfront(window)
              ELSE pc' = "idle" /\ UNCHANGED qp
           /\ UNCHANGED <<tcon, w, i, window_offset, rear, isr, peer, net, wire>>

\* Mutant: the last segments are never sent again.
TxNoResendDrain == /\ pc = "drainresend"
                   /\ pc' = "drain"
                   /\ UNCHANGED <<tcon, w, i, window_offset, rear, qp, isr, peer, net, wire>>

TxResendDrain == /\ pc = "drainresend"
                 /\ IF base_seq # next_seq /\ qp # 0 THEN tcp_resend(pkts[qp]) ELSE UNCHANGED net
                 /\ pc' = "drain"
                 /\ UNCHANGED <<tcon, w, i, window_offset, rear, qp, isr, peer, wire>>

Tx == \/ TxPack \/ TxFull \/ EnqLoad \/ EnqOpen \/ EnqRear \/ EnqFill \/ TxSend
      \/ TxAdvance \/ TxAwaitRoom \/ TxResendFull \/ TxDrain \/ TxResendDrain

----------------------------------------------------------------------------
(***************************************************************************)
(* The sender's handler: tcp_receive of a segment with the ACK flag.       *)
(***************************************************************************)
Deliver(m) == IF Dup THEN net ELSE net \ {m}

AckReceive(m) ==
  /\ isr.at = "quiet"
  /\ m.kind = "ack"
  /\ net' = Deliver(m)
  /\ IF m.ack < base_seq \/ m.ack > next_seq
     THEN UNCHANGED isr
     ELSE isr' = [at |-> "test", ack |-> m.ack, qp |-> getfront(window), last |-> FALSE]
  /\ UNCHANGED <<tcon, local, peer, wire>>

\* The segments the acknowledgement covers.
Covered == {p \in Pointers : isr.ack >= pkts[p].seq + Len(pkts[p].data)}

\* The condition of the loop; a null qp reads whatever lies at address 0.
IsrStop == /\ isr.at = "test"
           /\ isqueueempty(window) \/ isr.qp \notin Covered
           /\ isr' = Quiet
           /\ UNCHANGED <<tcon, local, peer, net, wire>>

\* dequeue compares front and rear ...
IsrDequeue == /\ isr.at = "test"
              /\ ~ isqueueempty(window)
              /\ isr.qp \in Covered \/ (isr.qp = 0 /\ Garbage # {})
              /\ isr' = [isr EXCEPT !.at = "front", !.last = (window.front = window.rear)]
              /\ UNCHANGED <<tcon, local, peer, net, wire>>

\* ... and stores front, then rear if the queue has become empty.
IsrFront == /\ isr.at = "front"
            /\ IF isr.last
               THEN /\ window' = [window EXCEPT !.front = -1]
                    /\ isr' = [isr EXCEPT !.at = "rear"]
               ELSE /\ window' = [window EXCEPT !.front = (window.front + 1) % QUEUE_SIZE]
                    /\ isr' = [isr EXCEPT !.at = "advance"]
            /\ UNCHANGED <<pkts, base_seq, next_seq, local, peer, net, wire>>

IsrRear == /\ isr.at = "rear"
           /\ window' = [window EXCEPT !.rear = -1]
           /\ isr' = [isr EXCEPT !.at = "advance"]
           /\ UNCHANGED <<pkts, base_seq, next_seq, local, peer, net, wire>>

\* base_seq, which past the bound of the exploration stays too large.
UpTo(n) == IF n > MaxSeq THEN MaxSeq + 1 ELSE n

\* The sizes qp->size may show.
Sizes(p) == IF p = 0 THEN Garbage ELSE {Len(pkts[p].data)}

IsrAdvance == /\ isr.at = "advance"
              /\ base_seq' \in {UpTo(base_seq + n) : n \in Sizes(isr.qp)}
              /\ isr' = [isr EXCEPT !.at = "fetch"]
              /\ UNCHANGED <<window, pkts, next_seq, local, peer, net, wire>>

IsrFetch == /\ isr.at = "fetch"
            /\ isr' = [isr EXCEPT !.at = "test", !.qp = getfront(window)]
            /\ UNCHANGED <<tcon, local, peer, net, wire>>

Isr == IsrStop \/ IsrDequeue \/ IsrFront \/ IsrRear \/ IsrAdvance \/ IsrFetch

\* Mutant: a segment is taken whatever its sequence number.
DataReceiveAny(m) ==
  /\ m.kind = "data"
  /\ buffer' = buffer \o m.data
  /\ ack_sent' = m.seq + Len(m.data)
  /\ net' = Deliver(m) \cup {Ack(ack_sent')}
  /\ Len(buffer) < MaxSeq
  /\ UNCHANGED <<tcon, local, isr, wire>>

(***************************************************************************)
(* The receiver's handler: tcp_receive of a segment without flags.  Only   *)
(* the segment that was acknowledged next is taken; any is acknowledged.   *)
(***************************************************************************)
DataReceive(m) ==
  /\ m.kind = "data"
  /\ IF m.seq = ack_sent
     THEN /\ buffer' = buffer \o m.data
          /\ ack_sent' = m.seq + Len(m.data)
     ELSE UNCHANGED peer
  /\ net' = Deliver(m) \cup {Ack(ack_sent')}
  /\ UNCHANGED <<tcon, local, isr, wire>>

Lose(m) == /\ Lossy
           /\ net' = net \ {m}
           /\ UNCHANGED <<tcon, local, isr, peer, wire>>

Next == \/ Write
        \/ Tx
        \/ \E m \in net : AckReceive(m)
        \/ Isr
        \/ \E m \in net : DataReceive(m)
        \/ \E m \in net : Lose(m)

Spec == Init /\ [][Next]_vars

(***************************************************************************)
(* Fairness: the process and the handler make progress (the scheduler and  *)
(* the clock run), and a segment or acknowledgement that keeps being sent  *)
(* gets through.                                                           *)
(***************************************************************************)
Fairness == /\ WF_vars(Tx)
            /\ WF_vars(Isr)
            /\ \A n \in 0 .. MaxSeq :
                 /\ SF_vars(\E m \in net : m.kind = "data" /\ m.seq = n /\ DataReceive(m))
                 /\ SF_vars(\E m \in net : m.kind = "ack" /\ m.ack = n /\ AckReceive(m))

FairSpec == Spec /\ Fairness

----------------------------------------------------------------------------
PackedPcs == {"enqueue", "open", "rear", "fill", "send", "advance"}

ResendPcs == {"top", "full", "fullresend", "drain", "drainresend"}

DataSegments == [kind : {"data"}, seq : Nat, data : Seq(Byte)]

IsrStates == [at : {"quiet", "test", "front", "rear", "advance", "fetch"}, ack : Nat,
              qp : Pointers \cup {0}, last : BOOLEAN]

AckSegments == [kind : {"ack"}, ack : Nat]

(***************************************************************************)
(* Type invariant.                                                         *)
(***************************************************************************)
TypeOK == /\ window \in QueueType(Pointers \cup {0})
          /\ pkts \in [Pointers -> [seq : Nat, data : Seq(Byte)]]
          /\ base_seq \in Int
          /\ next_seq \in Nat
          /\ w \in 0 .. Len(Writes)
          /\ i \in Nat
          /\ window_offset \in 0 .. WINDOW_LENGTH - 1
          /\ pc \in PackedPcs \cup ResendPcs \cup {"idle"}
          /\ rear \in Slots
          /\ qp \in Pointers \cup {0}
          /\ isr \in IsrStates
          /\ ack_sent \in Nat
          /\ buffer \in Seq(Byte)
          /\ net \subseteq DataSegments \cup AckSegments
          /\ wire \in Seq(Byte)

(***************************************************************************)
(* The connection is a byte stream: what lies in the receiver's buffer is  *)
(* at any time a prefix of the bytes packed into segments, whatever the    *)
(* network does and however process and handler race on the window.        *)
(***************************************************************************)
Stream == INSTANCE ByteStream WITH sent <- wire, received <- buffer

TcpImplementsStream == Stream!Spec

\* The payloads of the writes so far.
Written[n \in 0 .. Len(Writes)] == IF n = 0 THEN <<>> ELSE Written[n - 1] \o Writes[n]

(***************************************************************************)
(* The receiver gets the bytes the process wrote: what tcp_tx packs into   *)
(* the segments of one write is the payload of that write.                 *)
(***************************************************************************)
ReceivedIsWritten == Stream!Continues(buffer, Written[w])

(***************************************************************************)
(* Every call of write returns.                                            *)
(***************************************************************************)
WriteReturns == pc # "idle" ~> pc = "idle"
=============================================================================
