------------------------------- MODULE MCLog -------------------------------
(* Instance of Log for TLC. *)
EXTENDS Log, TLC

Perms == Permutations(Procs) \cup Permutations(Blocks)
=============================================================================
