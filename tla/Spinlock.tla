------------------------------ MODULE Spinlock ------------------------------
(***************************************************************************)
(* Spin-locks and interrupts (spinlock.c): acquire and release on several  *)
(* CPUs, with interrupts, which are off while a lock is wanted or held,    *)
(* and whose handlers take locks themselves.                               *)
(*                                                                         *)
(* A frame is what a CPU executes: the kernel code of a process, or above  *)
(* it an interrupt handler.  Code takes locks in their order and gives     *)
(* them back in any order; a handler takes one of HandlerLocks.            *)
(***************************************************************************)
EXTENDS Naturals, Sequences, SequencesExt

CONSTANTS CPUs, None,
          NLOCKS,         \* the locks are 1 .. NLOCKS
          HandlerLocks

Locks == 1 .. NLOCKS

VARIABLES
  locked, cpu,      \* of each lock: the word, and the CPU recorded
  IF_, ncli, intena,   \* of each CPU: FL_IF of eflags, struct cpu
  frames,           \* of each CPU: where it is, the lock in hand, locks held
  panicked

vars == <<locked, cpu, IF_, ncli, intena, frames, panicked>>

Init == /\ locked = [l \in Locks |-> FALSE]
        /\ cpu = [l \in Locks |-> None]
        /\ IF_ = [c \in CPUs |-> TRUE]
        /\ ncli = [c \in CPUs |-> 0]
        /\ intena = [c \in CPUs |-> FALSE]
        /\ frames = [c \in CPUs |-> <<[at |-> "run", lock |-> 0, held |-> {}]>>]
        /\ panicked = FALSE

Top(c) == Last(frames[c])
At(c, l) == Top(c).at = l /\ ~ panicked
Set(c, f) == frames' = [frames EXCEPT ![c] = Append(Front(@), f)]

holding(c, l) == locked[l] /\ cpu[l] = c

\* Mutant of Intena: every pushcli remembers the flag.
IntenaLast(c) == IF_[c]

\* What pushcli remembers: the flag of the outermost one.
Intena(c) == IF ncli[c] = 0 THEN IF_[c] ELSE intena[c]

pushcli(c) == /\ IF_' = [IF_ EXCEPT ![c] = FALSE]
              /\ intena' = [intena EXCEPT ![c] = Intena(c)]
              /\ ncli' = [ncli EXCEPT ![c] = @ + 1]

\* acquire: interrupts off, and a check ...
acquire(c, l) == /\ At(c, "run")
                 /\ \A h \in Top(c).held : h < l
                 /\ Len(frames[c]) > 1 => l \in HandlerLocks
                 /\ pushcli(c)
                 /\ panicked' = holding(c, l)
                 /\ Set(c, [Top(c) EXCEPT !.at = "spin", !.lock = l])
                 /\ UNCHANGED <<locked, cpu>>

\* ... the atomic exchange, repeated until the word was 0 ...
xchg(c) == /\ At(c, "spin")
           /\ ~ locked[Top(c).lock]
           /\ locked' = [locked EXCEPT ![Top(c).lock] = TRUE]
           /\ Set(c, [Top(c) EXCEPT !.at = "record", !.held = @ \cup {Top(c).lock}])
           /\ UNCHANGED <<cpu, IF_, ncli, intena, panicked>>

\* ... and the owner.
record(c) == /\ At(c, "record")
             /\ cpu' = [cpu EXCEPT ![Top(c).lock] = c]
             /\ Set(c, [Top(c) EXCEPT !.at = "run", !.lock = 0])
             /\ UNCHANGED <<locked, IF_, ncli, intena, panicked>>

\* release: check, forget the owner ...
release(c, l) == /\ At(c, "run") /\ l \in Top(c).held
                 /\ panicked' = ~ holding(c, l)
                 /\ cpu' = [cpu EXCEPT ![l] = None]
                 /\ Set(c, [Top(c) EXCEPT !.at = "unlock", !.lock = l])
                 /\ UNCHANGED <<locked, IF_, ncli, intena>>

\* ... clear the word ...
unlock(c) == /\ At(c, "unlock")
             /\ locked' = [locked EXCEPT ![Top(c).lock] = FALSE]
             /\ Set(c, [Top(c) EXCEPT !.at = "popcli", !.held = @ \ {Top(c).lock}])
             /\ UNCHANGED <<cpu, IF_, ncli, intena, panicked>>

\* ... and interrupts on, if this was the last lock and they were on before.
popcli(c) == /\ At(c, "popcli")
             /\ panicked' = (IF_[c] \/ ncli[c] = 0)
             /\ ncli' = [ncli EXCEPT ![c] = IF @ > 0 THEN @ - 1 ELSE @]
             /\ IF_' = [IF_ EXCEPT ![c] = @ \/ (ncli[c] = 1 /\ intena[c])]
             /\ Set(c, [Top(c) EXCEPT !.at = "run", !.lock = 0])
             /\ UNCHANGED <<locked, cpu, intena>>

\* An interrupt, between any two steps; the gate turns further ones off.
interrupt(c) == /\ IF_[c] /\ ~ panicked /\ Len(frames[c]) = 1
                /\ IF_' = [IF_ EXCEPT ![c] = FALSE]
                /\ frames' = [frames EXCEPT ![c] = Append(@, [at |-> "run", lock |-> 0, held |-> {}])]
                /\ UNCHANGED <<locked, cpu, ncli, intena, panicked>>

\* Its end: iret puts the flag back.
iret(c) == /\ At(c, "run") /\ Len(frames[c]) > 1 /\ Top(c).held = {}
           /\ frames' = [frames EXCEPT ![c] = Front(@)]
           /\ IF_' = [IF_ EXCEPT ![c] = TRUE]
           /\ UNCHANGED <<locked, cpu, ncli, intena, panicked>>

Next == \E c \in CPUs : \/ \E l \in Locks : acquire(c, l) \/ release(c, l)
                        \/ xchg(c) \/ record(c) \/ unlock(c) \/ popcli(c)
                        \/ interrupt(c) \/ iret(c)

Spec == Init /\ [][Next]_vars
----------------------------------------------------------------------------
(***************************************************************************)
(* Mutual exclusion, and the panics of acquire, release and popcli cannot  *)
(* happen: no handler wants a lock that the code under it holds.           *)
(***************************************************************************)
LocksExclude ==
  /\ ~ panicked
  /\ \A c, d \in CPUs : \A i \in DOMAIN frames[c], j \in DOMAIN frames[d] :
       <<c, i>> # <<d, j>> => frames[c][i].held \cap frames[d][j].held = {}

(***************************************************************************)
(* spinlock.c: "if interrupts are off, then pushcli, popcli leaves them    *)
(* off"; and on if they were on.  Code that holds no lock runs with the    *)
(* flag it started with: on in a process, off in a handler.                *)
(***************************************************************************)
InterruptsRestored == \A c \in CPUs :
  Top(c).at = "run" /\ Top(c).held = {} => (IF_[c] <=> Len(frames[c]) = 1)
=============================================================================
