-------------------------------- MODULE Arp --------------------------------
(***************************************************************************)
(* The address resolution cache of arp.c, the processes that wait in       *)
(* arp_resolve, and the network interrupt handler (ip_receive and          *)
(* arp_receive) that fills the cache and may itself call arp_resolve to    *)
(* answer a packet.                                                        *)
(*                                                                         *)
(* Every section of arp.c between acquire(&arp_cache.lk) and the matching  *)
(* release or sleep is one atomic step: the lock disables interrupts on    *)
(* its CPU and excludes the other CPUs.  The pointer that arp_resolve      *)
(* returns is used after the lock is released, in a step of its own.       *)
(*                                                                         *)
(* NIC interrupts and the clock are delivered to CPU 0, whose local APIC   *)
(* holds back both until the handler in service executes lapiceoi() at its *)
(* end.  So at most one handler (`isr') is under way and the clock waits   *)
(* for it.  A handler that sleeps in arp_resolve does so on the kernel     *)
(* stack of the process it interrupted, with its interrupt still in        *)
(* service; it may resume on the other CPU, and then acknowledges there.   *)
(*                                                                         *)
(* A hardware address is named by the host that has it.                    *)
(***************************************************************************)
EXTENDS Integers

CONSTANTS
  ARP_CACHE_SIZE,   \* number of cache entries
  ARP_TTL_TICKS,    \* lifetime of an entry
  Procs,            \* the processes
  Ips,              \* the addresses packets are sent to and received from
  GATEWAY,          \* the router's address
  OnSubnet,         \* addresses with (ip & NETMASK) == (MYIP & NETMASK)
  Learned,          \* addresses with (ip & GATEWAY) == (MYIP & GATEWAY)
  NoMac,            \* the zeroed mac of an entry that was never filled
  Idle,             \* "no process": the CPU is in the scheduler
  Nic,              \* the NIC interrupt handler, as a caller of arp_resolve
  MaxTicks,         \* bound of the exploration: the last clock tick
  Lossy             \* TRUE if the network may lose an ARP packet

ASSUME ArpAssumption == /\ ARP_CACHE_SIZE \in Nat \ {0}
                        /\ ARP_TTL_TICKS \in Nat
                        /\ MaxTicks \in Nat
                        /\ GATEWAY \in Ips
                        /\ OnSubnet \subseteq Ips
                        /\ Learned \subseteq Ips
                        /\ Idle \notin Procs
                        /\ Nic \notin Procs
                        /\ Lossy \in BOOLEAN

Cells == 0 .. ARP_CACHE_SIZE - 1

\* Who calls arp_resolve.
Acts == Procs \cup {Nic}

VARIABLES
  cache,    \* arp_cache.cache
  ticks,    \* the clock
  asked,    \* addresses with an ARP request, or its reply, in flight
  pc,       \* where each activity is: out, asleep, awake or holding a pointer
  hop,      \* the address each activity resolves
  idx,      \* the entry it sleeps on or points into
  isr,      \* the interrupt in service on CPU 0: the process it runs on, the
            \* packet's source, how far it is, whether it has slept
  panicked  \* the argument of panic(), or "no"

vars == <<cache, ticks, asked, pc, hop, idx, isr, panicked>>

Quiet == [on |-> Idle, src |-> GATEWAY, at |-> "idle", slept |-> FALSE]

Deaf == [on |-> Idle, src |-> GATEWAY, at |-> "deaf", slept |-> FALSE]

Interrupt == [on : Procs \cup {Idle}, src : Ips, slept : BOOLEAN,
              at : {"idle", "packet", "resolve", "loop", "deaf"}]

Entry == [ip : Ips, mac : Ips \cup {NoMac}, valid_until : Nat,
          status : {"EMPTY", "USED", "REQUESTED"}]

(***************************************************************************)
(* arp_cache is zeroed memory; the ip of an EMPTY entry is never looked at *)
(* before it is assigned.                                                  *)
(***************************************************************************)
Init == /\ cache = [i \in Cells |-> [ip |-> GATEWAY, mac |-> NoMac,
                                     valid_until |-> 0, status |-> "EMPTY"]]
        /\ ticks = 0
        /\ asked = {}
        /\ pc = [a \in Acts |-> "out"]
        /\ hop = [a \in Acts |-> GATEWAY]
        /\ idx = [a \in Acts |-> 0]
        /\ isr = Quiet
        /\ panicked = "no"

----------------------------------------------------------------------------
Lowest(S) == {i \in S : \A j \in S : i <= j}

Live(e) == e.status = "USED" /\ ticks <= e.valid_until

\* The slot arp_search returns, as a set of at most one.
arp_search(ip) == Lowest({i \in Cells : cache[i].ip = ip /\ Live(cache[i])})

\* The loops of arp_resolve, arp_add and arp_receive over REQUESTED entries.
Requested(ip) ==
  Lowest({i \in Cells : cache[i].ip = ip /\ cache[i].status = "REQUESTED"})

(***************************************************************************)
(* arp_alloc: the first empty or timed out entry, else the one that        *)
(* expires first among those that are not REQUESTED.  The empty set stands *)
(* for panic("arp cache full").                                            *)
(***************************************************************************)
Free == {i \in Cells : \/ cache[i].status = "EMPTY"
                       \/ cache[i].status = "USED" /\ cache[i].valid_until < ticks}

\* Mutant: a REQUESTED entry may be evicted.
EvictableAll == Cells

Evictable == {i \in Cells : cache[i].status # "REQUESTED"}

Oldest == {i \in Evictable :
             \A j \in Evictable : cache[i].valid_until <= cache[j].valid_until}

arp_alloc == Lowest(IF Free # {} THEN Free ELSE Oldest)

NextHop(ip) == IF ip \in OnSubnet THEN ip ELSE GATEWAY

(***************************************************************************)
(* The entry after a reply or a packet from ip was received: what arrives  *)
(* from outside the subnet carries the hardware address of the router.     *)
(***************************************************************************)
Filled(ip) == [ip |-> ip, mac |-> NextHop(ip), valid_until |-> ticks + ARP_TTL_TICKS,
               status |-> "USED"]

\* Entry i when arp_resolve sends the request: mac and lifetime stay as they were.
Asking(i, h) == [ip |-> h, mac |-> cache[i].mac, valid_until |-> cache[i].valid_until,
                 status |-> "REQUESTED"]

\* Mutant: the sleepers are not woken.
WakeupNobody(i) == pc

\* Mutant: one channel for the whole cache.
WakeupAll(i) == [a \in Acts |-> IF pc[a] = "asleep" THEN "awake" ELSE pc[a]]

\* wakeup(&arp_cache.cache[i])
Wakeup(i) == [a \in Acts |-> IF pc[a] = "asleep" /\ idx[a] = i THEN "awake" ELSE pc[a]]

\* panic() stops every CPU.
Up == panicked = "no"

Panic(msg) == panicked' = msg /\ UNCHANGED <<cache, ticks, asked, pc, hop, idx>>

(***************************************************************************)
(* arp_resolve(ip) by activity a, up to the return or the sleep.           *)
(***************************************************************************)
ResolveHit(a, h) ==
  \E i \in arp_search(h) :
    /\ pc' = [pc EXCEPT ![a] = "pointer"]
    /\ hop' = [hop EXCEPT ![a] = h]
    /\ idx' = [idx EXCEPT ![a] = i]
    /\ UNCHANGED <<cache, asked, ticks, panicked>>

ResolveJoin(a, h) ==
  /\ arp_search(h) = {}
  /\ \E i \in Requested(h) :
       /\ pc' = [pc EXCEPT ![a] = "asleep"]
       /\ hop' = [hop EXCEPT ![a] = h]
       /\ idx' = [idx EXCEPT ![a] = i]
       /\ UNCHANGED <<cache, asked, ticks, panicked>>

\* Mutant: no check for a request that is already out.
ResolveAskAgain(a, h) ==
  /\ arp_search(h) = {}
  /\ \/ \E i \in arp_alloc :
          /\ cache' = [cache EXCEPT ![i] = Asking(i, h)]
          /\ asked' = asked \cup {h}
          /\ pc' = [pc EXCEPT ![a] = "asleep"]
          /\ hop' = [hop EXCEPT ![a] = h]
          /\ idx' = [idx EXCEPT ![a] = i]
          /\ UNCHANGED <<ticks, panicked>>
     \/ arp_alloc = {} /\ Panic("arp cache full")

ResolveAsk(a, h) ==
  /\ arp_search(h) = {}
  /\ Requested(h) = {}
  /\ \/ \E i \in arp_alloc :
          /\ cache' = [cache EXCEPT ![i] = Asking(i, h)]
          /\ asked' = asked \cup {h}
          /\ pc' = [pc EXCEPT ![a] = "asleep"]
          /\ hop' = [hop EXCEPT ![a] = h]
          /\ idx' = [idx EXCEPT ![a] = i]
          /\ UNCHANGED <<ticks, panicked>>
     \/ arp_alloc = {} /\ Panic("arp cache full")

arp_resolve(a, ip) == \/ ResolveHit(a, NextHop(ip))
                      \/ ResolveJoin(a, NextHop(ip))
                      \/ ResolveAsk(a, NextHop(ip))

\* Process p executes code of its own: it is neither asleep nor interrupted.
Running(p) == pc[p] # "asleep" /\ isr.on # p

(***************************************************************************)
(* A process sends a packet: ip_send calls arp_resolve.                    *)
(***************************************************************************)
Resolve(p, ip) == /\ Up
                  /\ Running(p)
                  /\ pc[p] = "out"
                  /\ arp_resolve(p, ip)
                  /\ UNCHANGED isr

MayRun(a) == a = Nic \/ Running(a)

(***************************************************************************)
(* After the wakeup: sleep reacquires the lock, arp_resolve releases it    *)
(* and returns cache[i].mac without looking at the entry again.            *)
(***************************************************************************)
Return(a) == /\ Up
             /\ pc[a] = "awake"
             /\ MayRun(a)
             /\ pc' = [pc EXCEPT ![a] = "pointer"]
             /\ UNCHANGED <<cache, ticks, asked, hop, idx, isr, panicked>>

(***************************************************************************)
(* ether_send copies the six bytes the pointer leads to and sends the      *)
(* frame; the handler then returns to the loop of nicintr.                 *)
(***************************************************************************)
ether_send(a) == /\ Up
                 /\ pc[a] = "pointer"
                 /\ MayRun(a)
                 /\ pc' = [pc EXCEPT ![a] = "out"]
                 /\ hop' = [hop EXCEPT ![a] = GATEWAY]
                 /\ idx' = [idx EXCEPT ![a] = 0]
                 /\ isr' = IF a = Nic THEN [isr EXCEPT !.at = "loop"] ELSE isr
                 /\ UNCHANGED <<cache, ticks, asked, panicked>>

(***************************************************************************)
(* arp_add(ip, mac): nothing if a live entry exists; else fill the         *)
(* REQUESTED entry and wake its sleepers, or fill a newly allocated one.   *)
(***************************************************************************)
arp_add(ip) ==
  \/ /\ arp_search(ip) # {}
     /\ UNCHANGED <<cache, ticks, asked, pc, hop, idx, panicked>>
  \/ /\ arp_search(ip) = {}
     /\ \E i \in Requested(ip) :
          /\ cache' = [cache EXCEPT ![i] = Filled(ip)]
          /\ pc' = Wakeup(i)
     /\ UNCHANGED <<ticks, asked, hop, idx, panicked>>
  \/ /\ arp_search(ip) = {}
     /\ Requested(ip) = {}
     /\ \/ /\ \E i \in arp_alloc : cache' = [cache EXCEPT ![i] = Filled(ip)]
           /\ UNCHANGED <<ticks, asked, pc, hop, idx, panicked>>
        \/ arp_alloc = {} /\ Panic("arp cache full")

(***************************************************************************)
(* An IP packet from src: the NIC interrupts process q, or the idle loop,  *)
(* or the handler finds the packet when it reads the NIC's status again.   *)
(* ip_receive first learns the sender's address.                           *)
(***************************************************************************)
ip_receive(src, q) ==
  /\ Up
  /\ \/ isr.at = "idle" /\ (q # Idle => Running(q))
     \/ isr.at = "loop" /\ isr.on = q
  /\ isr' = [on |-> q, src |-> src, at |-> "packet", slept |-> isr.slept]
  /\ \/ src \in Learned /\ arp_add(src)
     \/ src \notin Learned /\ UNCHANGED <<cache, ticks, asked, pc, hop, idx, panicked>>

(***************************************************************************)
(* The handler answers (icmp_send_echo_reply, tcp_send_ack): ip_send calls *)
(* arp_resolve in interrupt context.  A miss sleeps on behalf of the       *)
(* interrupted process; with none, sleep() panics.                         *)
(***************************************************************************)
IsrAnswer ==
  /\ Up
  /\ isr.at = "packet"
  /\ \/ isr.on # Idle /\ arp_resolve(Nic, isr.src)
     \/ isr.on = Idle /\ ResolveHit(Nic, NextHop(isr.src))
     \/ /\ isr.on = Idle
        /\ arp_search(NextHop(isr.src)) = {}
        /\ Panic(IF Requested(NextHop(isr.src)) = {} /\ arp_alloc = {}
                 THEN "arp cache full" ELSE "sleep")
  /\ isr' = [isr EXCEPT !.at = "resolve", !.slept = @ \/ arp_search(NextHop(isr.src)) = {}]

\* The packet is handled without an answer.
IsrSilent == /\ Up
             /\ isr.at = "packet"
             /\ isr' = [isr EXCEPT !.at = "loop"]
             /\ UNCHANGED <<cache, ticks, asked, pc, hop, idx, panicked>>

(***************************************************************************)
(* nicintr returns and trap() executes lapiceoi().  A handler that slept   *)
(* may be on CPU 1 by now: its acknowledgement goes to the APIC of CPU 1,  *)
(* and CPU 0 hears nothing any more ("deaf").                              *)
(***************************************************************************)
IsrDone == /\ Up
           /\ isr.at = "loop"
           /\ isr' = Quiet \/ (isr.slept /\ isr' = Deaf)
           /\ UNCHANGED <<cache, ticks, asked, pc, hop, idx, panicked>>

(***************************************************************************)
(* An ARP reply for ip arrives; the network may deliver it again later.    *)
(***************************************************************************)
arp_receive(ip) ==
  /\ Up
  /\ isr.at \in {"idle", "loop"}
  /\ ip \in asked
  /\ asked' \in {asked, asked \ {ip}}
  /\ \/ \E i \in Requested(ip) :
          /\ cache' = [cache EXCEPT ![i] = Filled(ip)]
          /\ pc' = Wakeup(i)
     \/ Requested(ip) = {} /\ UNCHANGED <<cache, pc>>
  /\ UNCHANGED <<ticks, hop, idx, isr, panicked>>

\* The network loses the request or its reply; nothing in arp.c sends it again.
Lose(ip) == /\ Up
            /\ Lossy
            /\ ip \in asked
            /\ asked' = asked \ {ip}
            /\ UNCHANGED <<cache, ticks, pc, hop, idx, isr, panicked>>

\* The clock interrupt of CPU 0.
Tick == /\ Up
        /\ isr.at = "idle"
        /\ ticks < MaxTicks
        /\ ticks' = ticks + 1
        /\ UNCHANGED <<cache, asked, pc, hop, idx, isr, panicked>>

\* kill(pid): a sleeping process becomes runnable whatever it waits for.
OnStackOf(p) == {p} \cup {a \in {Nic} : isr.on = p}

kill(p) == /\ Up
           /\ \E a \in OnStackOf(p) : pc[a] = "asleep"
           /\ pc' = [a \in Acts |->
                       IF a \in OnStackOf(p) /\ pc[a] = "asleep" THEN "awake" ELSE pc[a]]
           /\ UNCHANGED <<cache, ticks, asked, hop, idx, isr, panicked>>

Next == \/ \E p \in Procs, ip \in Ips : Resolve(p, ip)
        \/ \E a \in Acts : Return(a)
        \/ \E a \in Acts : ether_send(a)
        \/ \E src \in Ips, q \in Procs \cup {Idle} : ip_receive(src, q)
        \/ IsrAnswer
        \/ IsrSilent
        \/ IsrDone
        \/ \E ip \in Ips : arp_receive(ip)
        \/ \E ip \in Ips : Lose(ip)
        \/ Tick
        \/ \E p \in Procs : kill(p)

Spec == Init /\ [][Next]_vars

(***************************************************************************)
(* Fairness: an interrupt handler finishes, and a host that hears an ARP   *)
(* request answers it.  The answer waits in the receive ring while other   *)
(* packets are handled, but the ring is emptied in order: it is not passed *)
(* over for ever (strong fairness), unless the network loses it.           *)
(***************************************************************************)
Fairness == /\ \A ip \in Ips : SF_vars(arp_receive(ip))
            /\ WF_vars(IsrAnswer \/ IsrSilent)
            /\ WF_vars(Return(Nic) \/ ether_send(Nic))
            /\ WF_vars(IsrDone)


----------------------------------------------------------------------------
(***************************************************************************)
(* Type invariant.                                                         *)
(***************************************************************************)
TypeOK == /\ cache \in [Cells -> Entry]
          /\ ticks \in Nat
          /\ asked \subseteq Ips
          /\ pc \in [Acts -> {"out", "asleep", "awake", "pointer"}]
          /\ hop \in [Acts -> OnSubnet \cup {GATEWAY}]
          /\ idx \in [Acts -> Cells]
          /\ isr \in Interrupt
          /\ panicked \in {"no", "sleep", "arp cache full"}

\* An entry that answers for its address now or will once the reply arrives.
Standing(e) == e.status = "REQUESTED" \/ Live(e)

(***************************************************************************)
(* At most one entry stands for an address.  arp_resolve, arp_add and      *)
(* arp_receive each stop at the first match: with two entries a reply      *)
(* would fill one and leave the sleepers of the other waiting, and a       *)
(* lookup could find the older of two hardware addresses.                  *)
(***************************************************************************)
OneEntryPerIp ==
  \A i, j \in Cells : /\ cache[i].ip = cache[j].ip
                      /\ Standing(cache[i])
                      /\ Standing(cache[j])
                      => i = j

(***************************************************************************)
(* No wakeup is lost and no sleeper orphaned: while anyone sleeps in       *)
(* arp_resolve, the entry it sleeps on is still REQUESTED for the address  *)
(* it wants.  So arp_alloc has not recycled the entry, and whoever fills   *)
(* it will wake the sleeper.                                               *)
(***************************************************************************)
SleeperEntryPending ==
  \A a \in Acts : pc[a] = "asleep" =>
    /\ cache[idx[a]].status = "REQUESTED"
    /\ cache[idx[a]].ip = hop[a]

(***************************************************************************)
(* A request is outstanding for every REQUESTED entry of a network that    *)
(* loses nothing: arp_request is sent exactly where the status is set, and *)
(* the reply that is consumed fills the entry.                             *)
(***************************************************************************)
RequestInFlight ==
  ~ Lossy => \A i \in Cells : cache[i].status = "REQUESTED" => cache[i].ip \in asked

Answered(a) == cache'[idx[a]].status = "USED" /\ cache'[idx[a]].mac = hop[a]

WakeStep == \A a \in Acts : pc[a] = "asleep" /\ pc'[a] = "awake" =>
              (\E p \in Procs : kill(p)) \/ Answered(a)

(***************************************************************************)
(* A sleeper is woken by a kill or by the step that fills its entry with   *)
(* the hardware address of the hop it asked for, never by another event.   *)
(***************************************************************************)
WokenByAnswer == [][WakeStep]_vars

\* The handler itself waits in arp_resolve, or left CPU 0 without interrupts.
HandlerLost == pc[Nic] = "asleep" \/ isr.at = "deaf"

(***************************************************************************)
(* Every resolver of a host that answers comes back, as long as the        *)
(* handler that must take in the answer does not wait for one itself.      *)
(***************************************************************************)
ResolveReturns ==
  \A a \in Acts : pc[a] = "asleep" ~> pc[a] # "asleep" \/ panicked # "no" \/ HandlerLost
=============================================================================
