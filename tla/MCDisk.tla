------------------------------- MODULE MCDisk -------------------------------
(* Instance of Disk for TLC. *)
EXTENDS Disk, TLC

Perms == Permutations(Procs) \cup Permutations(Blocks)
=============================================================================
