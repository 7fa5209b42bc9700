-------------------------------- MODULE MCFs --------------------------------
(* Instance of Fs for TLC. *)
EXTENDS Fs, TLC

\* Files in the root and in a directory of it.
MCFilePaths == {<<"a">>, <<"a", "b">>}

MCDirPaths == {<<"a">>}

Perms == Permutations(Procs)
=============================================================================
