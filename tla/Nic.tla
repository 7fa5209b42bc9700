--------------------------------- MODULE Nic ---------------------------------
(***************************************************************************)
(* The RTL8139 driver: the receive ring and its read pointer, the transmit *)
(* descriptors with their one buffer, and the interrupt handler, against   *)
(* the chip.                                                               *)
(*                                                                         *)
(* Positions in the ring are in bytes.  The chip (external) appends a      *)
(* packet at a multiple of 4 if the ring has room, wraps it at the end of  *)
(* the ring (rx_config does not ask it to write on behind it), sends the   *)
(* descriptors in their order and raises bits of ISR; IMR lets three of    *)
(* them interrupt.  Frames on the wire have a legal length.  The handler   *)
(* and rtl8139_send run on different CPUs, and no lock is taken.           *)
(***************************************************************************)
EXTENDS Integers, Sequences, SequencesExt

CONSTANTS
  RX_BUF_LEN, NUM_TX_DESC,
  MinLength, MaxLength,   \* RX_MIN_PKT_LENGTH and RX_MAX_PKT_LENGTH
  Sizes,                  \* the sizes of packets, their CRC included
  MaxPackets, MaxFrames   \* bounds: packets received and frames sent

VARIABLES
  ring,          \* the packets in the ring: [pos, size, id], oldest first
  rx_ring,       \* its bytes: the packet that each one belongs to, 0 for others
  cbr, capr,     \* the chip's write position and CurAddrPacket
  isr,           \* the bits set in ISR
  desc, chip_tx, \* the descriptors given to the chip; the one that it looks at
  arrived, wire, \* packets that have come; the frames sent
  cur_rx, cur_tx, tx_buffer,
  frames,        \* the calls of rtl8139_send
  pc,            \* of nicintr
  up,            \* the packet on its way to ether_receive; whether another came meanwhile
  delivered      \* the packets passed to it, and whether all their bytes were theirs

chip == <<ring, rx_ring, cbr, capr, arrived>>
tx == <<desc, chip_tx, wire, tx_buffer, frames>>
vars == <<chip, isr, tx, cur_rx, cur_tx, pc, up, delivered>>

NoPacket == [pos |-> 0, size |-> 0, id |-> 0, late |-> FALSE]

Init == /\ ring = <<>> /\ cbr = 0 /\ capr = -16
        /\ rx_ring = [k \in 0 .. RX_BUF_LEN - 1 |-> 0]
        /\ isr = {}
        /\ desc = {} /\ chip_tx = 0
        /\ arrived = 0 /\ wire = <<>>
        /\ cur_rx = 0 /\ cur_tx = 0 /\ tx_buffer = 0 /\ frames = 0
        /\ pc = "idle" /\ up = NoPacket
        /\ delivered = <<>>

\* The next multiple of 4: & RX_READ_POINTER_MASK.
Mask(n) == n - (n % 4)

\* The chip's read position is 16 after CurAddrPacket; the ring is never filled
\* to the last byte.
Fill == (cbr - (capr + 16)) % RX_BUF_LEN

\* The bytes of the ring that a packet at pos has, with its header.
Place(pos, s) == {(pos + k) % RX_BUF_LEN : k \in 0 .. s + 4 - 1}

\* A packet comes: the chip stores it, or has no room for it.
rx(s) ==
  LET room == Fill + Mask(s + 4 + 3) < RX_BUF_LEN
  IN  /\ arrived < MaxPackets
      /\ arrived' = arrived + 1
      /\ isr' = isr \cup {IF room THEN "RxOK" ELSE "RxOverflow"}
      /\ IF room
         THEN /\ ring' = Append(ring, [pos |-> cbr, size |-> s, id |-> arrived'])
              /\ rx_ring' = [k \in DOMAIN rx_ring |->
                               IF k \in Place(cbr, s) THEN arrived' ELSE rx_ring[k]]
              /\ cbr' = (cbr + Mask(s + 4 + 3)) % RX_BUF_LEN
              /\ up' = [up EXCEPT !.late = pc = "up"]
         ELSE UNCHANGED <<ring, rx_ring, cbr, up>>
      /\ UNCHANGED <<capr, tx, cur_rx, cur_tx, pc, delivered>>

\* A damaged packet comes: it is not stored.
rx_bad == /\ arrived < MaxPackets
          /\ arrived' = arrived + 1
          /\ isr' = isr \cup {"RxErr"}
          /\ UNCHANGED <<ring, rx_ring, cbr, capr, tx, cur_rx, cur_tx, pc, up, delivered>>

\* The chip sends the buffer of its descriptor; the transmission may fail.
transmit(ok) == /\ chip_tx \in desc
                /\ desc' = desc \ {chip_tx}
                /\ chip_tx' = (chip_tx + 1) % NUM_TX_DESC
                /\ wire' = IF ok THEN Append(wire, tx_buffer) ELSE wire
                /\ isr' = isr \cup {IF ok THEN "TxOK" ELSE "TxErr"}
                /\ UNCHANGED <<chip, tx_buffer, frames, cur_rx, cur_tx, pc, up, delivered>>

\* rtl8139_send: the frame into the buffer, the buffer into the descriptor.
rtl8139_send == /\ frames < MaxFrames
                /\ frames' = frames + 1
                /\ tx_buffer' = frames'
                /\ desc' = desc \cup {cur_tx}
                /\ UNCHANGED <<chip, isr, chip_tx, wire, cur_rx, cur_tx, pc, up, delivered>>

----------------------------------------------------------------------------
\* rtl8139_reset: chip and driver start again at 0, without the bits of ISR.
rtl8139_reset == /\ ring' = <<>> /\ cbr' = 0 /\ capr' = -16
                 /\ isr' = {}
                 /\ desc' = {} /\ chip_tx' = 0
                 /\ cur_rx' = 0 /\ cur_tx' = 0
                 /\ UNCHANGED <<rx_ring, arrived, wire, tx_buffer, frames, up, delivered>>

rtl8139_packetOK(size) == size - 4 \in MinLength .. MaxLength

\* Mutant of Advanced: the header of the packet is forgotten.
AdvancedShort(from, size) == Mask(from + size + 3)

\* The read pointer behind a packet.
Advanced(from, size) == Mask(from + size + 4 + 3)

\* The bytes that the copy for a packet that spans the end overwrites, from 0 on. They come
\* from behind the ring, where the chip has written nothing.
WrapCopy(from, size) == from + size - 4 - RX_BUF_LEN

\* rtl8139_receive: one packet, the one at the read pointer, if there is any; its place
\* is given back to the chip before the packet goes up.
rtl8139_receive ==
  LET from == cur_rx % RX_BUF_LEN
      pkt == SelectSeq(ring, LAMBDA x : x.pos = from)
      size == IF pkt = <<>> THEN 0 ELSE pkt[1].size
      ok == rtl8139_packetOK(size)
      to == Advanced(IF ok THEN from ELSE 0, size)
  IN  /\ UNCHANGED <<cbr, arrived>>
      /\ IF Fill = 0 THEN cur_rx' = from /\ UNCHANGED <<ring, rx_ring, capr, up>>
         ELSE /\ cur_rx' = to
              /\ capr' = to - 16
              /\ ring' = IF ok THEN Tail(ring) ELSE ring
              /\ rx_ring' = IF ok THEN [k \in DOMAIN rx_ring |->
                                          IF k < WrapCopy(from, size) THEN 0 ELSE rx_ring[k]]
                            ELSE rx_ring
              /\ up' = IF ok THEN [pos |-> from, size |-> size, id |-> pkt[1].id, late |-> FALSE]
                       ELSE NoPacket

\* ether_receive reads the packet in one piece, also behind the end of the ring.
ReadUp == \A k \in up.pos + 4 .. up.pos + up.size - 1 :
            k < RX_BUF_LEN /\ rx_ring[k] = up.id

\* nicintr starts on an interrupt and looks at ISR ...
nicintr == /\ pc = "idle" /\ isr \cap {"TxOK", "RxOK", "TxErr"} # {}
           /\ pc' = "read"
           /\ UNCHANGED <<chip, isr, tx, cur_rx, cur_tx, up, delivered>>

\* The bits that it looks for, in this order.
Bits == <<"TxOK", "TxErr", "RxOK", "RxErr">>

\* ... and is there for one bit: after it the others of this look are forgotten. Any
\* other bit it neither handles nor clears, and looks again.
read_isr == LET seen == SelectSeq(Bits, LAMBDA b : b \in isr)
            IN  /\ pc = "read"
                /\ pc' = IF isr = {} THEN "idle" ELSE IF seen = <<>> THEN "read" ELSE Head(seen)
                /\ UNCHANGED <<chip, isr, tx, cur_rx, cur_tx, up, delivered>>

txok == /\ pc = "TxOK"
        /\ isr' = isr \ {"TxOK"}
        /\ cur_tx' = (cur_tx + 1) % NUM_TX_DESC
        /\ pc' = "read"
        /\ UNCHANGED <<chip, tx, cur_rx, up, delivered>>

txerr == /\ pc = "TxErr"
         /\ rtl8139_reset
         /\ pc' = "read"

rxerr == /\ pc = "RxErr"
         /\ rtl8139_reset
         /\ pc' = "read"

rxok == /\ pc = "RxOK"
        /\ rtl8139_receive
        /\ pc' = "up"
        /\ UNCHANGED <<isr, tx, cur_tx, delivered>>

ether_receive ==
  /\ pc = "up"
  /\ delivered' = IF up.id = 0 THEN delivered
                  ELSE Append(delivered, [id |-> up.id, whole |-> ReadUp, late |-> up.late,
                                          spans |-> up.pos + up.size > RX_BUF_LEN])
  /\ up' = NoPacket
  /\ pc' = "ack"
  /\ UNCHANGED <<chip, isr, tx, cur_rx, cur_tx>>

ack == /\ pc = "ack"
       /\ isr' = isr \ {"RxOK"}
       /\ pc' = "read"
       /\ UNCHANGED <<chip, tx, cur_rx, cur_tx, up, delivered>>

Next == \/ \E s \in Sizes : rx(s)
        \/ rx_bad
        \/ \E ok \in BOOLEAN : transmit(ok)
        \/ rtl8139_send
        \/ nicintr \/ read_isr \/ txok \/ txerr \/ rxok \/ rxerr \/ ether_receive \/ ack

Spec == Init /\ [][Next]_vars
----------------------------------------------------------------------------
(***************************************************************************)
(* The driver stays in step with the chip: the read pointer is at the      *)
(* oldest packet of the ring, or where the next one comes, however packets *)
(* wrap around the end and whatever comes while the handler runs.          *)
(***************************************************************************)
ReadPointerInStep ==
  cur_rx % RX_BUF_LEN = IF ring = <<>> THEN cbr ELSE Head(ring).pos

(***************************************************************************)
(* Packets go up in the order in which they came, none of them twice.      *)
(***************************************************************************)
DeliveredInOrder == \A j, k \in DOMAIN delivered : j < k => delivered[j].id < delivered[k].id

(***************************************************************************)
(* A packet goes up as it came, but for two cases: it spans the end of the *)
(* ring, where the driver reads on behind the ring, or another one came    *)
(* after its place was given back.  In particular the copy that the driver *)
(* makes at the end of the ring damages no packet but the one it is for,   *)
(* and the chip never overwrites one that was not read.                    *)
(***************************************************************************)
DeliveredWhole == \A k \in DOMAIN delivered :
  delivered[k].whole \/ delivered[k].spans \/ delivered[k].late
=============================================================================
