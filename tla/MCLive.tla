------------------------------- MODULE MCLive -------------------------------
(* What waits on the network or the disk comes back: the liveness          *)
(* properties of Arp, Disk and TcpTransfer, which the module extends, each  *)
(* under the fairness of its module.  The three run on instances of their   *)
(* own, side by side: `part' says which of them a behaviour is of, and the  *)
(* others stay as they began.                                               *)
EXTENDS TcpTransfer

CONSTANTS p1, p2, Idle, Nic, NoMac, k1, k2, None

VARIABLES part,
  cache, ticks, asked, apc, hop, idx, aisr, apanicked,
  buf, lru, idequeue, cmd, irq, disk, dpc, cur, dpanicked

\* Two resolvers, the router and one more host; nothing is lost.
A == INSTANCE Arp WITH ARP_CACHE_SIZE <- 2, ARP_TTL_TICKS <- 0, Procs <- {p1, p2},
       Ips <- {513, 516}, GATEWAY <- 513, OnSubnet <- {513, 516}, Learned <- {516},
       MaxTicks <- 0, Lossy <- FALSE, pc <- apc, isr <- aisr, panicked <- apanicked

\* One short message, as tcpclient and tcpserver send on a connection, over a
\* network that loses, duplicates and reorders.
OneShort == <<<<"a">>>>
AnySize == {0, 1}

\* Two processes, two blocks and two buffers.
D == INSTANCE Disk WITH Procs <- {p1, p2}, Blocks <- {k1, k2}, Values <- {0}, NBUF <- 2,
       MaxPinned <- 0, pc <- dpc, panicked <- dpanicked

arp == <<cache, ticks, asked, apc, hop, idx, aisr, apanicked>>
ide == <<buf, lru, idequeue, cmd, irq, disk, dpc, cur, dpanicked>>
LiveVars == <<part, arp, vars, ide>>

LiveInit == part \in {"arp", "tcp", "disk"} /\ A!Init /\ Init /\ D!Init

LiveNext == \/ part = "arp" /\ A!Next /\ UNCHANGED <<part, vars, ide>>
            \/ part = "tcp" /\ Next /\ UNCHANGED <<part, arp, ide>>
            \/ part = "disk" /\ D!Next /\ UNCHANGED <<part, arp, vars>>

\* Nothing that must happen is enabled in a part that has not begun, so the
\* fairness of one part asks nothing of the behaviours of another.
LiveSpec == LiveInit /\ [][LiveNext]_LiveVars /\ A!Fairness /\ Fairness /\ D!Fairness
-----------------------------------------------------------------------------
\* While nothing is lost every call of arp_resolve returns, unless the handler itself waits.
ResolveReturns == A!ResolveReturns

\* Every request to the disk is served: iderw returns.
IoReturns == D!IoReturns
=============================================================================
