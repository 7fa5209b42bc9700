----------------------------- MODULE BlockStore -----------------------------
(***************************************************************************)
(* What bio.c promises its callers: every block has one value and at most  *)
(* one owner at a time, and only the owner changes it.                     *)
(***************************************************************************)
CONSTANTS Procs, Blocks, Values, None

VARIABLES
  val,      \* what bread returns
  owner     \* who is between bread and brelse

vars == <<val, owner>>

Init == /\ val \in [Blocks -> Values]
        /\ owner = [k \in Blocks |-> None]

Take(p, k) == /\ owner[k] = None
              /\ owner' = [owner EXCEPT ![k] = p]
              /\ UNCHANGED val

Write(p, k, v) == /\ owner[k] = p
                  /\ val' = [val EXCEPT ![k] = v]
                  /\ UNCHANGED owner

Release(p, k) == /\ owner[k] = p
                 /\ owner' = [owner EXCEPT ![k] = None]
                 /\ UNCHANGED val

Next == \E p \in Procs, k \in Blocks :
          Take(p, k) \/ Release(p, k) \/ \E v \in Values : Write(p, k, v)

Spec == Init /\ [][Next]_vars
=============================================================================
