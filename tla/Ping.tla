-------------------------------- MODULE Ping --------------------------------
(***************************************************************************)
(* ping.c with its system calls in sysnet.c and icmp.c: a process on one   *)
(* CPU that polls a flag, and the interrupt handler on another that sets   *)
(* it and stores what came, without a lock between them.                   *)
(*                                                                         *)
(* The network (external) answers a request not at all, once or twice, at  *)
(* any later time.                                                         *)
(***************************************************************************)
EXTENDS Naturals, FiniteSets

CONSTANTS
  MAX_PACKETS,
  TIMEOUT,      \* polls before a request is given up (TIMEOUT_MS)
  MaxEchoes     \* bound: requests of others

VARIABLES
  pc, seq_no, pkt_no, pkt_responsed, timeout, status,   \* ping
  flag, info,   \* icmp_echo_reply_received, icmp_reply_pkt_info.seq_no
  irq,          \* the reply whose handler has set the flag only, 0 for none
  flight,       \* how many replies to each sequence number are under way
  arrived,      \* how many came
  replied,      \* the requests of others that were answered
  printed       \* the sequence numbers that get_icmp_echo_reply_packet prints

ping == <<pc, seq_no, pkt_no, pkt_responsed, timeout, status, printed>>
vars == <<ping, flag, info, irq, flight, arrived, replied>>

Seqs == 1 .. MAX_PACKETS

Init == /\ pc = "send" /\ seq_no = 1 /\ pkt_no = 0 /\ pkt_responsed = 0
        /\ timeout = 0 /\ status = 0
        /\ flag = 0 /\ info = 0 /\ irq = 0
        /\ flight = [s \in Seqs |-> 0]
        /\ arrived = 0 /\ replied = 0
        /\ printed = {}

\* icmp_send_echo_request, answered n times.
send(n) == /\ pc = "send"
           /\ flight' = [flight EXCEPT ![seq_no] = @ + n]
           /\ timeout' = 0
           /\ pc' = "poll"
           /\ UNCHANGED <<seq_no, pkt_no, pkt_responsed, status, printed, flag, info, irq, arrived, replied>>

\* sys_get_icmp_echo_reply_status reads the flag ...
poll == /\ pc = "poll"
        /\ status' = flag
        /\ pc' = "reset"
        /\ UNCHANGED <<seq_no, pkt_no, pkt_responsed, timeout, printed, flag, info, irq, flight,
                       arrived, replied>>

\* The place after a request: the next one, or the statistics.
After(n) == IF n < MAX_PACKETS THEN "send" ELSE "done"

\* Mutant of reset: the flag stays.
ResetNot == /\ pc = "reset"
            /\ pc' = IF status = 1 THEN "got" ELSE IF timeout >= TIMEOUT THEN After(pkt_no + 1) ELSE "poll"
            /\ timeout' = timeout + 1
            /\ pkt_no' = IF status = 0 /\ timeout >= TIMEOUT THEN pkt_no + 1 ELSE pkt_no
            /\ UNCHANGED <<seq_no, pkt_responsed, status, printed, flag, info, irq, flight, arrived, replied>>

\* ... and clears it, set or not; ping goes on, polls again or gives up, with
\* the same sequence number for its next request.
reset == /\ pc = "reset"
         /\ flag' = 0
         /\ \/ /\ status = 1
               /\ pc' = "got"
               /\ UNCHANGED <<timeout, pkt_no>>
            \/ /\ status = 0 /\ timeout < TIMEOUT
               /\ timeout' = timeout + 1
               /\ pc' = "poll"
               /\ UNCHANGED pkt_no
            \/ /\ status = 0 /\ timeout >= TIMEOUT
               /\ pkt_no' = pkt_no + 1
               /\ pc' = After(pkt_no')
               /\ UNCHANGED timeout
         /\ UNCHANGED <<seq_no, pkt_responsed, status, printed, info, irq, flight, arrived, replied>>

\* A reply is counted, and what is known of it printed.
got == /\ pc = "got"
       /\ pkt_responsed' = pkt_responsed + 1
       /\ printed' = printed \cup {info}
       /\ seq_no' = IF seq_no < MAX_PACKETS THEN seq_no + 1 ELSE seq_no
       /\ pkt_no' = pkt_no + 1
       /\ pc' = After(pkt_no')
       /\ UNCHANGED <<timeout, status, flag, info, irq, flight, arrived, replied>>

----------------------------------------------------------------------------
\* icmp_receive of a reply sets the flag ...
icmp_receive(s) == /\ irq = 0 /\ flight[s] > 0
                   /\ flight' = [flight EXCEPT ![s] = @ - 1]
                   /\ arrived' = arrived + 1
                   /\ flag' = 1
                   /\ irq' = s
                   /\ UNCHANGED <<ping, info, replied>>

\* ... and then stores the reply.
icmp_info == /\ irq # 0
             /\ info' = irq
             /\ irq' = 0
             /\ UNCHANGED <<ping, flag, flight, arrived, replied>>

\* icmp_receive of a request: icmp_send_echo_reply.
icmp_echo == /\ irq = 0 /\ replied < MaxEchoes
             /\ replied' = replied + 1
             /\ UNCHANGED <<ping, flag, info, irq, flight, arrived>>

Program == (\E n \in 0 .. 2 : send(n)) \/ poll \/ reset \/ got

Next == Program \/ (\E s \in Seqs : icmp_receive(s)) \/ icmp_info \/ icmp_echo

Spec == Init /\ [][Next]_vars
----------------------------------------------------------------------------
(***************************************************************************)
(* A reply counts once: ping has counted no more replies than came, though *)
(* the flag is read and cleared while they come.                           *)
(***************************************************************************)
CountedOnce == pkt_responsed + flag <= arrived
=============================================================================
