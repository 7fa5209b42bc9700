------------------------------ MODULE MCUnits ------------------------------
(* The small components, each on an instance of its own: `part' says which   *)
(* of them a behaviour is of, and the others stay as they began.  The ring   *)
(* buffer of queue.c is QueueSpec itself; the rest are instances, their      *)
(* variables prefixed with the name of the part.                             *)
EXTENDS QueueSpec, Sequences, TLC

CONSTANTS p1, p2, c1, c2, None

VARIABLE part

VARIABLES
  tcp_window, tcp_pkts, tcp_base_seq, tcp_next_seq, tcp_w, tcp_i, tcp_window_offset,
  tcp_pc, tcp_rear, tcp_qp, tcp_isr, tcp_ack_sent, tcp_buffer, tcp_net, tcp_wire

VARIABLES
  nic_ring, nic_cbr, nic_capr, nic_isr, nic_desc, nic_chip_tx, nic_arrived, nic_wire,
  nic_cur_rx, nic_cur_tx, nic_tx_buffer, nic_frames, nic_pc, nic_delivered, nic_rx_ring,
  nic_up

VARIABLES
  ping_pc, ping_seq_no, ping_pkt_no, ping_pkt_responsed, ping_timeout, ping_status,
  ping_flag, ping_info, ping_irq, ping_flight, ping_arrived, ping_replied, ping_printed

VARIABLES
  cons_buf, cons_r, cons_w, cons_e, cons_lock, cons_pc, cons_n, cons_got, cons_killed,
  cons_ready, cons_edit

VARIABLES
  lock_locked, lock_cpu, lock_IF_, lock_ncli, lock_intena, lock_frames, lock_panicked

VARIABLES
  vm_free, vm_mem, vm_space, vm_kstack, vm_emptied, vm_panicked

VARIABLES
  heap_ptr, heap_size, heap_freep, heap_brk, heap_live

VARIABLES
  inode_used, inode_blk, inode_addrs, inode_size, inode_off, inode_wr, inode_logged,
  inode_truncs, inode_bytes, inode_panicked

VARIABLES
  name_rest, name_name, name_de, name_walked, name_count, name_linked

VARIABLES
  arg_in

VARIABLES
  net_in

VARIABLES
  grep_pattern, grep_file, grep_off, grep_buf, grep_out

\* The pointers that are enqueued.
MCElements == {10, 20}

\* Two files: two writes of an odd length, of which the second stops half way, and one that
\* fills the file to its limit.
Payloads == "i1" :> {<<1, 2, 3, 4, 5, 6, 7>>} @@ "i2" :> {<<4, 5, 6, 7, 8, 9, 1, 2, 3, 4, 5, 6>>}
Counts == "i1" :> {12} @@ "i2" :> {}

\* Lines of up to three characters, the last one complete or not.
Lines == UNION {[1 .. k -> {"a", "b"}] : k \in 0 .. 3}
Texts == {l \o <<"\n">> \o m \o <<"\n">> \o t : l \in Lines, m \in Lines, t \in {<<>>, <<"b">>, <<"a", "\n">>}}
Patterns == {<<"a">>, <<"^", "b">>, <<"a", "$">>, <<"a", "*", "b">>, <<"^", ".", "*", "a", "$">>,
             <<"b", ".", "b">>, <<"^", "b", "*", "$">>, <<"^", "$">>, <<"a", "*", "$">>}

\* Writes of exactly MSS bytes, of none and of less; the network duplicates and reorders.
T == INSTANCE TcpTransfer WITH
  QUEUE_SIZE <- 2, WINDOW_LENGTH <- 2, MSS <- 2, Byte <- {"a", "b", "c"}, Writes <-
  <<<<"a", "b">>, <<>>, <<"c">>>>, Garbage <- {0, 1}, Dup <- TRUE, Lossy <- FALSE,
  MaxSeq <- 6, window <- tcp_window, pkts <- tcp_pkts, base_seq <-
  tcp_base_seq, next_seq <- tcp_next_seq, w <- tcp_w, i <- tcp_i, window_offset <-
  tcp_window_offset, pc <- tcp_pc, rear <- tcp_rear, qp <- tcp_qp, isr <- tcp_isr,
  ack_sent <- tcp_ack_sent, buffer <- tcp_buffer, net <- tcp_net, wire <- tcp_wire

\* A receive ring of 32 bytes, four packets, two transmit descriptors.
N == INSTANCE Nic WITH
  RX_BUF_LEN <- 32, NUM_TX_DESC <- 2, MinLength <- 1, MaxLength <- 5, Sizes <- {5, 9},
  MaxPackets <- 4, MaxFrames <- 2, ring <- nic_ring, rx_ring <- nic_rx_ring, up <- nic_up,
  cbr <- nic_cbr, capr <- nic_capr, isr <- nic_isr, desc <- nic_desc, chip_tx <-
  nic_chip_tx, arrived <- nic_arrived, wire <- nic_wire, cur_rx <- nic_cur_rx, cur_tx <- nic_cur_tx, tx_buffer <- nic_tx_buffer,
  frames <- nic_frames, pc <- nic_pc, delivered <- nic_delivered

\* Three echo requests; each may time out.
P == INSTANCE Ping WITH
  MAX_PACKETS <- 3, TIMEOUT <- 1, MaxEchoes <- 1, pc <- ping_pc, seq_no <- ping_seq_no,
  pkt_no <- ping_pkt_no, pkt_responsed <- ping_pkt_responsed, timeout <- ping_timeout,
  status <- ping_status, flag <- ping_flag, info <- ping_info, irq <- ping_irq, flight
  <- ping_flight, arrived <- ping_arrived, replied <- ping_replied, printed <-
  ping_printed

\* Two readers, a ring of three characters, indices that wrap at six.
C == INSTANCE Console WITH
  Procs <- {p1, p2}, INPUT_BUF <- 3, UINT <- 6, Counts <- {2}, MaxKills <- 1, buf <-
  cons_buf, r <- cons_r, w <- cons_w, e <- cons_e, lock <- cons_lock, pc <- cons_pc, n
  <- cons_n, got <- cons_got, killed <- cons_killed, ready <- cons_ready, edit <-
  cons_edit

\* Two CPUs, two locks that interrupt handlers take too.
L == INSTANCE Spinlock WITH
  CPUs <- {c1, c2}, NLOCKS <- 2, HandlerLocks <- {1, 2}, locked <- lock_locked, cpu <-
  lock_cpu, IF_ <- lock_IF_, ncli <- lock_ncli, intena <- lock_intena, frames <-
  lock_frames, panicked <- lock_panicked

\* Two processes and too few pages for both to grow; 61 and 56 are the deltas -3 and -8,
\* and -8 frees all that a process has after exec.
M == INSTANCE Memory WITH
  Procs <- {p1, p2}, NPAGES <- 11, PGSIZE <- 2, NPTENTRIES <- 3, NUSER <- 2, NKERNEL <-
  1, UINT <- 64, Images <- {<<2, 3>>}, ArgSizes <- {2, 3}, Deltas <- {3, 61, 56}, free
  <- vm_free, mem <- vm_mem, space <- vm_space, kstack <- vm_kstack, emptied <-
  vm_emptied, panicked <- vm_panicked

\* A heap of fourteen units, asked for in portions of four.
U == INSTANCE Umalloc WITH
  HEAP <- 14, MORE <- 4, Sizes <- {2, 3, 5}, ptr <- heap_ptr, size <- heap_size, freep
  <- heap_freep, brk <- heap_brk, live <- heap_live

\* Blocks of two bytes, pieces of two blocks; too few blocks for both files.
I == INSTANCE InodeData WITH
  Inodes <- {"i1", "i2"}, NBLOCKS <- 9, BSIZE <- 2, NDIRECT <- 4, NINDIRECT <- 2,
  MAXOPBLOCKS <- 8, Payloads <- Payloads, Counts <- Counts, MaxTrunc <- 1, used <-
  inode_used, blk <- inode_blk, addrs <- inode_addrs, size <- inode_size, off <-
  inode_off, wr <- inode_wr, logged <- inode_logged, truncs <- inode_truncs, bytes <-
  inode_bytes, panicked <- inode_panicked

\* All paths of up to four characters, names of two.
E == INSTANCE Names WITH
  DIRSIZ <- 2, Paths <- UNION {[1 .. k -> 1 .. 3] : k \in 1 .. 4}, rest <- name_rest,
  name <- name_name, de <- name_de, walked <- name_walked, count <- name_count, linked
  <- name_linked

\* Numbers of five bits.
A == INSTANCE Args WITH
  UINT <- 32, KERNBASE <- 16, INTSIZE <- 4, in <- arg_in

\* Bytes of four bits; zero, one and all ones.
B == INSTANCE NetUtils WITH
  BYTE <- 16, Segments <- UNION {[1 .. k -> {0, 1, 15}] : k \in 0 .. 5}, Starts <- {0,
  255, 1530}, Octets <- [1 .. 4 -> {0, 3, 9, 13, 15}], in <- net_in

\* A buffer of four characters and a NUL.
G == INSTANCE Grep WITH
  BUF <- 5, Letters <- {"a", "b"}, Patterns <- Patterns, Files <- Texts, pattern <-
  grep_pattern, file <- grep_file, off <- grep_off, buf <- grep_buf, out <- grep_out

queue == <<q, ret>>
tcp == <<tcp_window, tcp_pkts, tcp_base_seq, tcp_next_seq, tcp_w, tcp_i,
         tcp_window_offset, tcp_pc, tcp_rear, tcp_qp, tcp_isr, tcp_ack_sent, tcp_buffer,
         tcp_net, tcp_wire>>
nic == <<nic_ring, nic_cbr, nic_capr, nic_isr, nic_desc, nic_chip_tx, nic_arrived,
         nic_wire, nic_cur_rx, nic_cur_tx, nic_tx_buffer, nic_frames, nic_pc,
         nic_delivered, nic_rx_ring, nic_up>>
ping == <<ping_pc, ping_seq_no, ping_pkt_no, ping_pkt_responsed, ping_timeout,
          ping_status, ping_flag, ping_info, ping_irq, ping_flight, ping_arrived,
          ping_replied, ping_printed>>
cons == <<cons_buf, cons_r, cons_w, cons_e, cons_lock, cons_pc, cons_n, cons_got,
          cons_killed, cons_ready, cons_edit>>
lock == <<lock_locked, lock_cpu, lock_IF_, lock_ncli, lock_intena, lock_frames,
          lock_panicked>>
vm == <<vm_free, vm_mem, vm_space, vm_kstack, vm_emptied, vm_panicked>>
heap == <<heap_ptr, heap_size, heap_freep, heap_brk, heap_live>>
inode == <<inode_used, inode_blk, inode_addrs, inode_size, inode_off, inode_wr,
           inode_logged, inode_truncs, inode_bytes, inode_panicked>>
name == <<name_rest, name_name, name_de, name_walked, name_count, name_linked>>
arg == <<arg_in>>
net == <<net_in>>
grep == <<grep_pattern, grep_file, grep_off, grep_buf, grep_out>>

UnitVars == <<part, queue, tcp, nic, ping, cons, lock, vm, heap, inode, name, arg, net, grep>>

UnitInit == /\ part \in {"queue", "tcp", "nic", "ping", "cons", "lock", "vm",
                         "heap", "inode", "name", "arg", "net", "grep"}
            /\ RingInit
            /\ T!Init
            /\ N!Init
            /\ P!Init
            /\ C!Init
            /\ L!Init
            /\ M!Init
            /\ U!Init
            /\ I!Init
            /\ E!Init
            /\ A!Init
            /\ B!Init
            /\ G!Init

UnitNext == \/ part = "queue" /\ RingNext /\ UNCHANGED <<part, tcp, nic, ping, cons, lock, vm, heap, inode, name, arg, net, grep>>
            \/ part = "tcp" /\ T!Next /\ UNCHANGED <<part, queue, nic, ping, cons, lock, vm, heap, inode, name, arg, net, grep>>
            \/ part = "nic" /\ N!Next /\ UNCHANGED <<part, queue, tcp, ping, cons, lock, vm, heap, inode, name, arg, net, grep>>
            \/ part = "ping" /\ P!Next /\ UNCHANGED <<part, queue, tcp, nic, cons, lock, vm, heap, inode, name, arg, net, grep>>
            \/ part = "cons" /\ C!Next /\ UNCHANGED <<part, queue, tcp, nic, ping, lock, vm, heap, inode, name, arg, net, grep>>
            \/ part = "lock" /\ L!Next /\ UNCHANGED <<part, queue, tcp, nic, ping, cons, vm, heap, inode, name, arg, net, grep>>
            \/ part = "vm" /\ M!Next /\ UNCHANGED <<part, queue, tcp, nic, ping, cons, lock, heap, inode, name, arg, net, grep>>
            \/ part = "heap" /\ U!Next /\ UNCHANGED <<part, queue, tcp, nic, ping, cons, lock, vm, inode, name, arg, net, grep>>
            \/ part = "inode" /\ I!Next /\ UNCHANGED <<part, queue, tcp, nic, ping, cons, lock, vm, heap, name, arg, net, grep>>
            \/ part = "name" /\ E!Next /\ UNCHANGED <<part, queue, tcp, nic, ping, cons, lock, vm, heap, inode, arg, net, grep>>
            \/ part = "arg" /\ A!Next /\ UNCHANGED <<part, queue, tcp, nic, ping, cons, lock, vm, heap, inode, name, net, grep>>
            \/ part = "net" /\ B!Next /\ UNCHANGED <<part, queue, tcp, nic, ping, cons, lock, vm, heap, inode, name, arg, grep>>
            \/ part = "grep" /\ G!Next /\ UNCHANGED <<part, queue, tcp, nic, ping, cons, lock, vm, heap, inode, name, arg, net>>

UnitSpec == UnitInit /\ [][UnitNext]_UnitVars
-----------------------------------------------------------------------------
\* What the receiver has is a prefix of what was written, however the segments
\* come; and the transfer is a byte stream.
TransferIsStream == [](part = "tcp" => T!ReceivedIsWritten) /\ T!TcpImplementsStream

\* The driver reads the ring where the next packet begins, and passes up what
\* came, in order, none twice, and whole unless it spans the ring's end or its
\* place was taken again.
FramesInOrder == part = "nic" => N!ReadPointerInStep /\ N!DeliveredInOrder /\ N!DeliveredWhole

\* ping counts no reply twice.
CountedOnce == part = "ping" => P!CountedOnce

\* The ring holds what the user typed and edited; no reader sleeps over a line or
\* a full ring; and only a read that returns nothing takes a ^D.
LinesReachReaders ==
  /\ [](part = "cons" => C!RingIsInput /\ C!FullIsReady /\ C!SleepersWait)
  /\ C!EofIsEmptyRead

\* No two CPUs, and no handler and the code it interrupts, hold one lock; code that
\* holds none has interrupts as before its first acquire.
LocksProtect == part = "lock" => L!LocksExclude /\ L!InterruptsRestored

\* Every physical page is free or in use once; a process that keeps a byte has the
\* pages of its size and no others, each cleared or filled.
MemoryAccounted == part = "vm" => M!PagesAccounted /\ M!SizeIsMapped /\ M!NoJunk

\* The blocks in use and the free ones divide the heap, and no two free blocks
\* are neighbours.
HeapSound == part = "heap" => U!HeapPartitioned /\ U!FreeBlocksJoined

\* A file holds what was written to it, and every allocated block belongs to one
\* inode, in one place.
FilesKeepBytes == part = "inode" => I!ReadsBack /\ I!BlocksOwnedOnce

\* A transaction of write fits in what begin_op grants.
WriteFits == part = "inode" => I!WriteFits

\* namex sees the elements of a path one by one, and dirlookup finds an entry by
\* its name, whatever the buffers held.
NamesResolve == part = "name" => E!PathSplit /\ E!EntryFound

\* Arguments that are accepted lie, and strings end, inside the process.
ArgumentsInside == part = "arg" => A!ArgsInside /\ A!StringsEnd

\* A sealed packet is accepted, and refused with one byte changed; an address lies
\* in it as it was typed.
PacketsReadable == part = "net" => B!ChecksumVerifies /\ B!AddressOnWire

\* grep prints the lines that match.
GrepPrintsMatches == part = "grep" => G!GrepPrintsMatches
=============================================================================
