------------------------------ MODULE MCSocket ------------------------------
(***************************************************************************)
(* Instance of Socket for TLC.  Processes meet only in the tables of ports *)
(* and sockets, so two of them are explored together up to the end of the  *)
(* handshake, and each of them alone with data, kills and resets: casts.   *)
(***************************************************************************)
EXTENDS Socket

CONSTANTS p1, p2

\* What the processes do, how many sockets they have, and whether there is traffic: data,
\* kills and resets.
VARIABLE cast

OfProcs(x, y) == [p \in Procs |-> IF p = p1 THEN x ELSE y]

\* A server and a client; two servers of one port; a server alone; a client alone.
Casts ==
  {[does |-> OfProcs("bind", "connect"), have |-> OfProcs(2, 1), traffic |-> FALSE],
   [does |-> OfProcs("bind", "bind"), have |-> OfProcs(1, 1), traffic |-> FALSE],
   [does |-> OfProcs("bind", "connect"), have |-> OfProcs(2, 0), traffic |-> TRUE],
   [does |-> OfProcs("bind", "connect"), have |-> OfProcs(0, 2), traffic |-> TRUE]}

\* The step is one of the cast's. Traffic includes the port behind the table.
InCast ==
  /\ \A p \in Procs : /\ pc'[p] \in {"bind", "connect"} => pc'[p] = cast.does[p]
                      /\ Cardinality({s \in Sockets : owner'[s] = p}) <= cast.have[p]
  /\ cast.traffic \/ /\ ports'[NPORTS].pid = None
                     /\ UNCHANGED killed
                     /\ \A c \in Peers : ~ peer'[c].reset /\ peer'[c].sent = 0

MCInit == Init /\ cast \in Casts
MCSpec == MCInit /\ [][Next /\ InCast /\ UNCHANGED cast]_<<vars, cast>>

\* Port 0 is below the ports of connect; the port behind the table, and one further.
ServerPorts == [p \in Servers |-> IF p = p1 THEN {0, NPORTS, NPORTS + 1} ELSE {0}]

\* The peer that is connected to and connects sends a byte.
PeerData == [c \in Peers |-> IF c \in Remote THEN 1 ELSE 0]

PeerIsn == [c \in Peers |-> CHOOSE n \in {10, 20} :
                              (n = 10) <=> (c = CHOOSE d \in Peers : TRUE)]

Descriptors == [p \in Procs |-> 2]
=============================================================================
