------------------------------ MODULE MCProc -------------------------------
(* Instance of Proc for TLC. *)
EXTENDS Proc, TLC

Perms == Permutations(Procs \ {initproc}) \cup Permutations(Cpus)
=============================================================================
