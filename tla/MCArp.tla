------------------------------- MODULE MCArp -------------------------------
(***************************************************************************)
(* Instance of Arp for TLC.  The addresses are the low sixteen bits of the *)
(* ones in ip.c: this host is x.x.2.2, the router x.x.2.1, the netmask     *)
(* leaves one octet.                                                       *)
(***************************************************************************)
EXTENDS Arp, Bitwise, TLC

MYIP    == 514
NETMASK == 65280
Router  == 513

\* x.x.2.4 and the router on the subnet; x.x.3.4 beyond the router.
Hosts == {Router, 516, 772}

\* The test of arp_resolve, and the test of ip_receive, which masks with GATEWAY.
SameNet == {Router, 516}

Masked == {516, 772}

ASSUME SameNet = {ip \in Hosts : (ip & NETMASK) = (MYIP & NETMASK)}

ASSUME Masked = {ip \in Hosts : (ip & Router) = (MYIP & Router)}

\* The subnet alone, for the liveness runs.
LocalHosts == {Router, 516}

LocalMasked == {516}

ASSUME LocalMasked = Masked \cap LocalHosts

Perms == Permutations(Procs)
=============================================================================
