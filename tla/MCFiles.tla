------------------------------ MODULE MCFiles ------------------------------
(* Instance of Files for TLC. *)
EXTENDS Files, TLC

MCPayloads == {<<1, 2, 1>>}

Perms == Permutations(Procs)
=============================================================================
