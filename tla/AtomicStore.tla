---------------------------- MODULE AtomicStore ----------------------------
(***************************************************************************)
(* What log.c promises the file system: the disk changes from one state to *)
(* another only when no file system call is in progress, and then takes    *)
(* over everything the calls have written; a crash throws away what was    *)
(* not taken over, never part of a call.                                   *)
(***************************************************************************)
CONSTANTS Procs, Blocks, Values

VARIABLES
  store,    \* what a restart would find
  view,     \* what the file system calls read
  active    \* the processes inside a call

vars == <<store, view, active>>

Init == /\ store \in [Blocks -> Values]
        /\ view = store
        /\ active = {}

Begin(p) == /\ p \notin active
            /\ active' = active \cup {p}
            /\ UNCHANGED <<store, view>>

Write(p, b, v) == /\ p \in active
                  /\ view' = [view EXCEPT ![b] = v]
                  /\ UNCHANGED <<store, active>>

End(p) == /\ p \in active
          /\ active' = active \ {p}
          /\ UNCHANGED <<store, view>>

Commit == /\ active = {}
          /\ store' = view
          /\ UNCHANGED <<view, active>>

Crash == /\ view' = store
         /\ active' = {}
         /\ UNCHANGED store

Next == \/ \E p \in Procs : Begin(p) \/ End(p)
        \/ \E p \in Procs, b \in Blocks, v \in Values : Write(p, b, v)
        \/ Commit
        \/ Crash

Spec == Init /\ [][Next]_vars
=============================================================================
