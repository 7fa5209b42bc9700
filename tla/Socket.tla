------------------------------- MODULE Socket -------------------------------
(***************************************************************************)
(* The sockets of one host: socket.c, the handshake of tcp.c, and peers on *)
(* a network that may lose, duplicate and reorder segments.                *)
(*                                                                         *)
(* socket.c holds no lock while it tests, sends, sets a state and sleeps,  *)
(* so each of these is a step and the handler tcp_receive may run between  *)
(* any two.  What the window of an established connection does is in       *)
(* TcpTransfer; here a data segment is one byte, and an ACK that the host  *)
(* sends is recorded in ack_sent only.  seq_received is left out: the code *)
(* reads it only where it has set it.                                      *)
(*                                                                         *)
(* Processes use sockets as tcpclient.c and tcpserver.c do: connect is     *)
(* called on a new socket and accept with a descriptor to spare, because   *)
(* the code tests neither.  Any process may be killed: sleepnolock then    *)
(* returns, the call goes on with what it finds, and the process exits     *)
(* when the call is over.                                                  *)
(***************************************************************************)
EXTENDS Naturals, Sequences, FiniteSets

CONSTANTS
  Procs,
  NSOCKETS,     \* the length of sockets[]
  NPORTS,       \* the ports are 0 .. NPORTS - 1
  FIRST,        \* the first port that connect tries: 1024
  Servers,      \* the processes that call bind
  BindPorts,    \* the ports that each of them asks for
  Clients,      \* the processes that call connect
  Limit,        \* the descriptors that each process uses for sockets
  QUEUE_SIZE,   \* the length of a waitqueue
  MAXREQ,       \* MAX_PENDING_REQUESTS, the length of requests[]
  Peers,        \* the remote ends; each has one address and one port
  Remote,       \* those that connect is called for
  Isn,          \* their initial sequence numbers
  MaxData,      \* bound: data segments that each peer sends
  None

ASSUME SocketAssumption == /\ NSOCKETS \in Nat /\ NPORTS \in Nat /\ FIRST \in Nat
                           /\ BindPorts \in [Servers -> SUBSET Nat]
                           /\ MAXREQ \in Nat /\ QUEUE_SIZE \in Nat \ {0}
                           /\ Isn \in [Peers -> Nat]

INITIAL_SEQ == 0

\* A word of a page that nothing was written to: kfree fills pages with 1s.
Junk == 16843009

VARIABLES
  ports,        \* pid, active_socket, passive_socket; NPORTS is the place
                \* behind the array
  sock,         \* struct socket with its tcon
  owner,        \* the process that has the socket as a file
  requests,     \* the pending SYNs; MAXREQ is the place behind the array
  pc, cur,      \* each process: where it is, and the socket of its call
  asleep,       \* the processes in sleepnolock, with their channel, a port
  killed,       \* p->killed
  in, out,      \* the segments sent to this host and by it; the network
                \* delivers each at any time, once, again or never
  peer,         \* each peer: what it expects next, how much it has sent
  answered,     \* the peers whose SYN-ACK or last ACK was received
  twice         \* the ports that one process bound while another had them

procs == <<pc, cur, asleep, killed>>
tables == <<ports, sock, owner, requests>>
network == <<in, out, peer>>
history == <<answered, twice>>
vars == <<tables, procs, network, history>>

Sockets == 1 .. NSOCKETS

Ports == 0 .. NPORTS

Cleared == [state |-> "FREE", tstate |-> "CLOSED", port |-> 0, dst |-> None, queue |-> <<>>,
            reply |-> None, offset |-> 0, end |-> 0, next_seq |-> 0, ack_sent |-> 0,
            ack_received |-> 0]

Seg(c, i, k, s, a) == [peer |-> c, port |-> i, kind |-> k, seq |-> s, ack |-> a]

\* A peer has one connection: it answers until it has it or has refused it.
Answers(c) == peer[c].expects = None /\ ~ peer[c].reset

\* The host sends m; one that nobody will answer is lost.
Send(m) == out' = IF m.peer # None /\ Answers(m.peer) THEN out \cup {m} ELSE out

\* Every peer asks for a connection with the ports that bind gives away; when the network
\* delivers that, if ever, is open.
peer_syns == {Seg(c, i, "syn", Isn[c], 0) : c \in Peers,
                                           i \in Ports \cap UNION {BindPorts[p] : p \in Servers}}

\* portinit.
Init == /\ ports = [i \in Ports |-> [pid |-> None, active |-> None, passive |-> None]]
        /\ sock = [s \in Sockets |-> Cleared]
        /\ owner = [s \in Sockets |-> None]
        /\ requests = [i \in 0 .. MAXREQ |-> None]
        /\ pc = [p \in Procs |-> "user"]
        /\ cur = [p \in Procs |-> None]
        /\ asleep = [p \in Procs |-> None]
        /\ killed = [p \in Procs |-> FALSE]
        /\ in = peer_syns
        /\ out = {}
        /\ peer = [c \in Peers |-> [expects |-> None, port |-> None, sent |-> 0, reset |-> FALSE]]
        /\ answered = {}
        /\ twice = {}

At(p, l) == pc[p] = l /\ asleep[p] = None

Goto(p, l) == pc' = [pc EXCEPT ![p] = l]

Own(p) == {s \in Sockets : owner[s] = p}

\* A call of the program: a process that is killed makes none.
Runs(p) == At(p, "user") /\ ~ killed[p]

Calls(p, s) == Runs(p) /\ owner[s] = p

\* sleepnolock(&ports[s->port]), to go on at l.
sleepnolock(p, l) == /\ asleep' = [asleep EXCEPT ![p] = sock[cur[p]].port]
                     /\ Goto(p, l)

\* wakeup(&ports[i])
Wakeup(i) == [p \in Procs |-> IF asleep[p] = i THEN None ELSE asleep[p]]

Set(p, r) == sock' = [sock EXCEPT ![cur[p]] = r]

----------------------------------------------------------------------------
\* socketalloc finds s.
FirstFree(s) == sock[s].state = "FREE" /\ \A r \in 1 .. s - 1 : sock[r].state # "FREE"

\* socket(); with no free socket or descriptor the call changes nothing.
socket(p, s) == /\ Runs(p)
                /\ FirstFree(s) /\ Cardinality(Own(p)) < Limit[p]
                /\ sock' = [sock EXCEPT ![s].state = "UNBOUND"]
                /\ owner' = [owner EXCEPT ![s] = p]
                /\ UNCHANGED <<ports, requests, procs, network, history>>

\* Socket s was given port i: one that is not bound has port 0.
HasPort(s, i) == sock[s].state \notin {"FREE", "UNBOUND"} /\ sock[s].port = i

\* bind: the port is looked up here, taken in the next step.  The test lets NPORTS
\* pass, and what bind then takes for a pid is memory of something else.
bind(p, s, i) == /\ Calls(p, s)
                 /\ p \in Servers
                 /\ ~ (i > NPORTS)
                 /\ sock[s].state = "UNBOUND"
                 /\ i = NPORTS \/ ports[i].pid = None
                 /\ cur' = [cur EXCEPT ![p] = [sock |-> s, port |-> i]]
                 /\ Goto(p, "bind")
                 /\ UNCHANGED <<tables, asleep, killed, network, history>>

bind_take(p) ==
  LET s == cur[p].sock
      i == cur[p].port
  IN  /\ At(p, "bind")
      /\ ports' = [ports EXCEPT ![i].pid = p, ![i].passive = s]
      /\ sock' = [sock EXCEPT ![s].port = i, ![s].state = "BOUND"]
      /\ twice' = IF \E t \in Sockets : owner[t] \notin {None, p} /\ HasPort(t, i)
                  THEN twice \cup {i} ELSE twice
      /\ cur' = [cur EXCEPT ![p] = None]
      /\ Goto(p, "user")
      /\ UNCHANGED <<owner, requests, asleep, killed, network, answered>>

listen(p, s) == /\ Calls(p, s)
                /\ p \in Servers
                /\ sock[s].state = "BOUND"
                /\ sock' = [sock EXCEPT ![s].queue = <<>>, ![s].tstate = "LISTEN"]
                /\ UNCHANGED <<ports, owner, requests, procs, network, history>>

----------------------------------------------------------------------------
\* connect: the first free port from FIRST on, then the SYN.
connect(p, s, c) ==
  LET free == {i \in FIRST .. NPORTS - 1 : ports[i].pid = None}
      i == CHOOSE x \in free : \A y \in free : x <= y
  IN  /\ Calls(p, s)
      /\ p \in Clients
      /\ sock[s].state = "UNBOUND"
      /\ free # {}
      /\ ports' = [ports EXCEPT ![i].pid = p, ![i].active = s]
      /\ sock' = [sock EXCEPT ![s].port = i, ![s].state = "BOUND", ![s].dst = c,
                              ![s].next_seq = INITIAL_SEQ + 1]
      /\ Send(Seg(c, i, "syn", INITIAL_SEQ, 0))
      /\ cur' = [cur EXCEPT ![p] = s]
      /\ Goto(p, "connect")
      /\ UNCHANGED <<owner, requests, asleep, killed, in, peer, history>>

connect_wait(p) == /\ At(p, "connect")
                   /\ Set(p, [sock[cur[p]] EXCEPT !.tstate = "SYN_SENT"])
                   /\ Goto(p, "connect_sleep")
                   /\ UNCHANGED <<ports, owner, requests, cur, asleep, killed, network, history>>

connect_sleep(p) == /\ At(p, "connect_sleep")
                    /\ sleepnolock(p, "connected")
                    /\ UNCHANGED <<tables, cur, killed, network, history>>

\* What the buffer holds is taken for the reply, and acknowledged.
connected(p) ==
  LET s == sock[cur[p]]
      r == IF s.reply # None THEN s.reply ELSE Seg(None, s.port, "junk", Junk, Junk)
  IN  /\ At(p, "connected")
      /\ Set(p, [s EXCEPT !.ack_received = r.ack, !.next_seq = r.ack,
                          !.ack_sent = r.seq + 1, !.tstate = "ESTABLISHED"])
      /\ cur' = [cur EXCEPT ![p] = None]
      /\ Goto(p, "user")
      /\ UNCHANGED <<ports, owner, requests, asleep, killed, network, history>>

----------------------------------------------------------------------------
\* accept: dequeue at once, or set SOCKET_WAIT and sleep.
accept(p, s) == /\ Calls(p, s)
                /\ Cardinality(Own(p)) < Limit[p]
                /\ sock[s].tstate = "LISTEN"
                /\ ports[sock[s].port].active = None
                /\ cur' = [cur EXCEPT ![p] = s]
                /\ Goto(p, IF sock[s].queue = <<>> THEN "accept_wait" ELSE "accept_syn")
                /\ UNCHANGED <<tables, asleep, killed, network, history>>

accept_wait(p) == /\ At(p, "accept_wait")
                  /\ Set(p, [sock[cur[p]] EXCEPT !.state = "WAIT"])
                  /\ Goto(p, "accept_sleep")
                  /\ UNCHANGED <<ports, owner, requests, cur, asleep, killed, network, history>>

accept_sleep(p) == /\ At(p, "accept_sleep")
                   /\ sleepnolock(p, "accept_syn")
                   /\ UNCHANGED <<tables, cur, killed, network, history>>

\* The request, from wherever the queued pointer points, and the SYN-ACK.  An empty
\* queue yields the pointer -1, which is no request of any peer.
accept_syn(p) ==
  LET s == sock[cur[p]]
      r == IF s.queue # <<>> THEN requests[Head(s.queue)] ELSE Seg(None, s.port, "junk", Junk, Junk)
  IN  /\ At(p, "accept_syn")
      /\ Set(p, [s EXCEPT !.state = "BOUND", !.queue = IF @ = <<>> THEN @ ELSE Tail(@), !.dst = r.peer,
                          !.ack_sent = r.seq + 1, !.next_seq = INITIAL_SEQ + 1])
      /\ Send(Seg(r.peer, s.port, "synack", INITIAL_SEQ, r.seq + 1))
      /\ Goto(p, "accept_ack")
      /\ UNCHANGED <<ports, owner, requests, cur, asleep, killed, in, peer, history>>


accept_ack(p) == /\ At(p, "accept_ack")
                 /\ Set(p, [sock[cur[p]] EXCEPT !.tstate = "SYNACK_SENT"])
                 /\ Goto(p, "accept_sleep2")
                 /\ UNCHANGED <<ports, owner, requests, cur, asleep, killed, network, history>>

accept_sleep2(p) == /\ At(p, "accept_sleep2")
                    /\ sleepnolock(p, "accepted")
                    /\ UNCHANGED <<tables, cur, killed, network, history>>

\* The new socket n takes over the connection of the listening one.
accepted(p, n) ==
  LET s == sock[cur[p]]
  IN  /\ At(p, "accepted")
      /\ FirstFree(n)
      /\ sock' = [sock EXCEPT ![cur[p]].tstate = "LISTEN",
                              ![n] = [Cleared EXCEPT
                                 !.state = "CONNECTED", !.tstate = "ESTABLISHED",
                                 !.port = s.port, !.dst = s.dst, !.next_seq = s.ack_received,
                                 !.ack_sent = s.ack_sent, !.ack_received = s.ack_received]]
      /\ ports' = [ports EXCEPT ![s.port].active = n]
      /\ owner' = [owner EXCEPT ![n] = p]
      /\ cur' = [cur EXCEPT ![p] = None]
      /\ Goto(p, "user")
      /\ UNCHANGED <<requests, asleep, killed, network, history>>

----------------------------------------------------------------------------
\* read: what is there, or set SOCKET_WAIT, sleep and take what is there then.
socketread(p, s) ==
  /\ Calls(p, s)
  /\ sock[s].tstate = "ESTABLISHED"
  /\ IF sock[s].offset = sock[s].end
     THEN cur' = [cur EXCEPT ![p] = s] /\ Goto(p, "read_wait") /\ UNCHANGED sock
     ELSE sock' = [sock EXCEPT ![s].offset = sock[s].end] /\ UNCHANGED <<cur, pc>>
  /\ UNCHANGED <<ports, owner, requests, asleep, killed, network, history>>

read_wait(p) == /\ At(p, "read_wait")
                /\ Set(p, [sock[cur[p]] EXCEPT !.state = "WAIT"])
                /\ Goto(p, "read_sleep")
                /\ UNCHANGED <<ports, owner, requests, cur, asleep, killed, network, history>>

read_sleep(p) == /\ At(p, "read_sleep")
                 /\ sleepnolock(p, "read")
                 /\ UNCHANGED <<tables, cur, killed, network, history>>

read(p) == /\ At(p, "read")
           /\ Set(p, [sock[cur[p]] EXCEPT !.state = "CONNECTED", !.offset = sock[cur[p]].end])
           /\ cur' = [cur EXCEPT ![p] = None]
           /\ Goto(p, "user")
           /\ UNCHANGED <<ports, owner, requests, asleep, killed, network, history>>

\* close, of the program or of exit: the socket is cleared and free before its port is.
socketclose(p, s) == /\ At(p, "user") /\ owner[s] = p
                     /\ cur' = [cur EXCEPT ![p] = [sock |-> s, port |-> sock[s].port]]
                     /\ sock' = [sock EXCEPT ![s] = Cleared]
                     /\ owner' = [owner EXCEPT ![s] = None]
                     /\ Goto(p, "close")
                     /\ UNCHANGED <<ports, requests, asleep, killed, network, history>>

\* Mutant of PortAfter: the pid is cleared, the pointer stays.
PortKept(r, s) == IF r.active = s \/ r.passive = s THEN [r EXCEPT !.pid = None] ELSE r

\* The entry of the port after its socket s is gone.
PortAfter(r, s) ==
  CASE r.active = s  -> [r EXCEPT !.active = None,
                                  !.pid = IF r.passive = None THEN None ELSE @]
    [] r.active # s /\ r.passive = s -> [r EXCEPT !.passive = None, !.pid = None]
    [] OTHER -> r

close_port(p) == /\ At(p, "close")
                 /\ ports' = [ports EXCEPT ![cur[p].port] = PortAfter(@, cur[p].sock)]
                 /\ cur' = [cur EXCEPT ![p] = None]
                 /\ Goto(p, "user")
                 /\ UNCHANGED <<sock, owner, requests, asleep, killed, network, history>>

\* kill wakes a process out of its sleep.  One that does not sleep goes on, and may sleep
\* later: sleepnolock does not look at killed.  At the end of its call it exits, which is to
\* close all and call no more, and that a program may do anyway.
kill(p) == /\ asleep[p] # None
           /\ killed' = [killed EXCEPT ![p] = TRUE]
           /\ asleep' = [asleep EXCEPT ![p] = None]
           /\ UNCHANGED <<tables, pc, cur, network, history>>

----------------------------------------------------------------------------
\* The place that tcp_receive finds for a request: the first one taken, or
\* the one behind the array when none is.
Slot == LET taken == {i \in 0 .. MAXREQ - 1 : requests[i] # None}
        IN  IF taken = {} THEN MAXREQ ELSE CHOOSE i \in taken : \A j \in taken : i <= j

HasAck(m) == m.kind \in {"ack", "synack", "rstack"}
HasSyn(m) == m.kind \in {"syn", "synack"}

FromPeer(s, m) == sock[s].dst = m.peer

\* A SYN for a listening socket.
recv_syn(s, m) ==
  /\ requests' = [requests EXCEPT ![Slot] = m]
  /\ sock' = [sock EXCEPT ![s].queue = Append(@, Slot)]
  /\ asleep' = IF sock[s].state = "WAIT" THEN Wakeup(m.port) ELSE asleep
  /\ UNCHANGED <<out, answered>>

\* The ACK that accept waits for.
recv_last(s, m) ==
  IF FromPeer(s, m)
  THEN /\ sock' = [sock EXCEPT ![s].ack_received = m.ack]
       /\ asleep' = Wakeup(m.port)
       /\ answered' = answered \cup {m.peer}
       /\ UNCHANGED <<requests, out>>
  ELSE UNCHANGED <<sock, asleep, requests, out, answered>>

\* The answer that connect waits for.
recv_reply(s, m) == /\ sock' = [sock EXCEPT ![s].reply = m]
                    /\ asleep' = Wakeup(m.port)
                    /\ answered' = answered \cup {m.peer}
                    /\ UNCHANGED <<requests, out>>


InOrder(s, m) == sock[s].ack_sent = m.seq

Bytes(m) == IF m.kind = "data" THEN 1 ELSE 0

\* Data, and anything else without ACK: stored if it is next, acknowledged.
recv_data(s, m) ==
  LET next == InOrder(s, m)
  IN  /\ sock' = IF next THEN [sock EXCEPT ![s].end = @ + Bytes(m), ![s].ack_sent = m.seq + Bytes(m)]
                 ELSE sock
      /\ asleep' = IF next /\ sock[s].state = "WAIT" THEN Wakeup(m.port) ELSE asleep
      /\ UNCHANGED <<requests, out, answered>>

\* tcp_receive on a segment of the network.
tcp_receive(m) ==
  LET ps == ports[m.port].passive
      as == ports[m.port].active
      known == m.port < NPORTS /\ ports[m.port].pid # None
      syn == /\ known /\ ps # None
             /\ sock[ps].tstate = "LISTEN" /\ HasSyn(m) /\ Len(sock[ps].queue) < QUEUE_SIZE
      last == known /\ ps # None /\ sock[ps].tstate = "SYNACK_SENT" /\ HasAck(m)
      mine == known /\ ~ syn /\ ~ last /\ as # None /\ FromPeer(as, m)
      reply == mine /\ sock[as].tstate = "SYN_SENT" /\ HasAck(m)
      data == mine /\ sock[as].tstate = "ESTABLISHED" /\ ~ HasAck(m)
  IN  /\ m \in in
      /\ \/ syn /\ recv_syn(ps, m)
         \/ last /\ recv_last(ps, m)
         \/ reply /\ recv_reply(as, m)
         \/ data /\ recv_data(as, m)
         \/ /\ ~ (syn \/ last \/ reply \/ data)
            /\ UNCHANGED <<sock, requests, asleep, out, answered>>
      /\ UNCHANGED <<ports, owner, pc, cur, killed, in, peer, twice>>

\* A peer answers a SYN with a SYN-ACK, and a SYN-ACK with an ACK, and then
\* expects the byte it has acknowledged.
peer_answer(m) ==
  /\ m \in out
  /\ Answers(m.peer)
  /\ in' = in \cup {IF m.kind = "syn" THEN Seg(m.peer, m.port, "synack", Isn[m.peer], m.seq + 1)
                    ELSE Seg(m.peer, m.port, "ack", Isn[m.peer], m.seq + 1)}
  /\ peer' = [peer EXCEPT ![m.peer].expects = m.seq + 1, ![m.peer].port = m.port]
  /\ out' = {n \in out : n.peer # m.peer}
  /\ UNCHANGED <<tables, procs, history>>

\* A peer refuses a connection: RST and ACK.
peer_refuse(m) ==
  /\ m \in out /\ m.kind = "syn"
  /\ Answers(m.peer)
  /\ in' = in \cup {Seg(m.peer, m.port, "rstack", 0, m.seq + 1)}
  /\ peer' = [peer EXCEPT ![m.peer].reset = TRUE]
  /\ out' = {n \in out : n.peer # m.peer}
  /\ UNCHANGED <<tables, procs, history>>

\* A peer gives up the connection that it has: RST.
peer_reset(c) ==
  /\ peer[c].expects # None /\ ~ peer[c].reset
  /\ in' = in \cup {Seg(c, peer[c].port, "rst", Isn[c] + 1 + peer[c].sent, 0)}
  /\ peer' = [peer EXCEPT ![c].reset = TRUE]
  /\ UNCHANGED <<tables, procs, out, history>>

\* A peer sends its next byte, once it has the connection.
peer_data(c) == /\ peer[c].expects # None /\ ~ peer[c].reset /\ peer[c].sent < MaxData[c]
                /\ peer' = [peer EXCEPT ![c].sent = @ + 1]
                /\ in' = in \cup {Seg(c, peer[c].port, "data", Isn[c] + 1 + peer[c].sent, 0)}
                /\ UNCHANGED <<tables, procs, out, history>>

\* The network system calls, and the steps of a process inside them.
Step(p) == \/ \E s \in Sockets : \/ socket(p, s)
                                 \/ \E i \in IF p \in Servers THEN BindPorts[p] ELSE {} : bind(p, s, i)
                                 \/ listen(p, s)
                                 \/ accept(p, s)
                                 \/ \E c \in Remote : connect(p, s, c)
                                 \/ socketread(p, s)
                                 \/ socketclose(p, s)
                                 \/ accepted(p, s)
           \/ bind_take(p)
           \/ connect_wait(p) \/ connect_sleep(p) \/ connected(p)
           \/ accept_wait(p) \/ accept_sleep(p) \/ accept_syn(p)
           \/ accept_ack(p) \/ accept_sleep2(p)
           \/ read_wait(p) \/ read_sleep(p) \/ read(p)
           \/ close_port(p)

Network == \/ \E m \in in : tcp_receive(m)
           \/ \E m \in out : peer_answer(m) \/ peer_refuse(m)
           \/ \E c \in Peers : peer_data(c) \/ peer_reset(c)

Next == Network \/ \E p \in Procs : Step(p) \/ kill(p)

Spec == Init /\ [][Next]_vars
----------------------------------------------------------------------------
\* Ports, sockets and their indices have their types; a reader never passes the end of the data.
TypeOK == /\ \A i \in Ports : /\ ports[i].pid \in Procs \cup {None}
                              /\ ports[i].active \in Sockets \cup {None}
                              /\ ports[i].passive \in Sockets \cup {None}
          /\ \A s \in Sockets :
               /\ sock[s].state \in {"FREE", "UNBOUND", "BOUND", "WAIT", "CONNECTED"}
               /\ sock[s].tstate \in {"CLOSED", "LISTEN", "SYN_SENT", "SYNACK_SENT", "ESTABLISHED"}
               /\ sock[s].port \in Ports
               /\ sock[s].offset <= sock[s].end
          /\ owner \in [Sockets -> Procs \cup {None}]
          /\ asleep \in [Procs -> Ports \cup {None}]


(***************************************************************************)
(* The port table has no stale pointer: the sockets of a port are open and *)
(* have that port, but for the moment in which they are being closed.      *)
(***************************************************************************)
PortsPointToOpen == \A i \in Ports : \A s \in {ports[i].active, ports[i].passive} \ {None} :
  \/ sock[s].port = i /\ owner[s] # None
  \/ \E p \in Procs : pc[p] = "close" /\ cur[p] = [sock |-> s, port |-> i]

(***************************************************************************)
(* bind accepts one port too many, whose entry lies behind the table; no   *)
(* other call leaves the table, and tcp_receive, whose own test is right,  *)
(* never gets to a socket there: it has no request and no connection, but  *)
(* the one that accept makes up for a process that is killed.              *)
(***************************************************************************)
BehindUnreached == \A s \in Sockets : sock[s].port >= NPORTS =>
  /\ \E p \in Servers : sock[s].port \in BindPorts[p]
  /\ sock[s].queue = <<>>
  /\ sock[s].dst = None
  /\ sock[s].tstate = "ESTABLISHED" => killed[owner[s]]


(***************************************************************************)
(* The tables of sockets and ports: types, the reader behind the writer,   *)
(* no stale pointer, and nothing reached behind the table.                 *)
(***************************************************************************)
TablesSound == TypeOK /\ PortsPointToOpen /\ BehindUnreached
=============================================================================
