------------------------------- MODULE Proc --------------------------------
(***************************************************************************)
(* The process table of proc.c: fork, exit, wait, kill, the scheduler of   *)
(* each CPU, sleep and wakeup, with sys_sleep and the clock interrupt as   *)
(* the user of sleep() with a lock of its own (tickslock).                 *)
(*                                                                         *)
(* What happens while ptable.lock is held is one step; swtch hands the     *)
(* lock over, so a process resumed inside wait() makes its next pass over  *)
(* the table in the step in which it is scheduled.  Which UNUSED slot      *)
(* allocproc takes, and which RUNNABLE process a scheduler takes, is left  *)
(* open.  Open files and the contents of memory are left out; a kernel     *)
(* stack is a page, an address space another, and a third if it has grown. *)
(***************************************************************************)
EXTENDS Integers, FiniteSets

CONSTANTS
  Procs,       \* the slots of ptable.proc
  Cpus,
  initproc,    \* the slot userinit takes
  NPAGES,      \* pages kalloc has
  MaxPid,      \* bound on nextpid, for model checking
  None, Ticks, Timer

ASSUME ProcAssumption == /\ initproc \in Procs
                         /\ IsFiniteSet(Procs)
                         /\ NPAGES \in Nat /\ NPAGES >= 2
                         /\ MaxPid \in Nat
                         /\ None \notin Procs /\ Ticks \notin Procs /\ Timer \notin Procs
                         /\ None # Ticks /\ None # Timer

VARIABLES
  state, parent, pid, killed, chan,   \* struct proc
  kstack, pgdir, heap,                \* the slots that own a stack, an address space, a grown one
  free,                               \* pages on kalloc's list
  nextpid,
  cpu,                                \* cpus[c].proc
  pc, np,                             \* where the process is; fork's new slot
  due,                                \* sys_sleep: the time asked for has passed
  tickslock,                          \* its holder
  panicked

table == <<state, parent, pid, killed, chan>>
memory == <<kstack, pgdir, heap, free>>
clock == <<due, tickslock>>
vars == <<table, memory, nextpid, cpu, pc, np, clock, panicked>>

\* After userinit: the first process is RUNNABLE, every CPU in scheduler().
Init == /\ state = [p \in Procs |-> IF p = initproc THEN "RUNNABLE" ELSE "UNUSED"]
        /\ parent = [p \in Procs |-> None]
        /\ pid = [p \in Procs |-> IF p = initproc THEN 1 ELSE 0]
        /\ killed = [p \in Procs |-> FALSE]
        /\ chan = [p \in Procs |-> None]
        /\ kstack = {initproc}
        /\ pgdir = {initproc}
        /\ heap = {}
        /\ free = NPAGES - 2
        /\ nextpid = 2
        /\ cpu = [c \in Cpus |-> None]
        /\ pc = [p \in Procs |-> "user"]
        /\ np = [p \in Procs |-> None]
        /\ due = [p \in Procs |-> FALSE]
        /\ tickslock = None
        /\ panicked = FALSE

At(c, p, l) == cpu[c] = p /\ pc[p] = l

Goto(p, l) == pc' = [pc EXCEPT ![p] = l]

\* wakeup1 on any channel of the set S.
wakeup1(st, S) == [q \in Procs |-> IF st[q] = "SLEEPING" /\ chan[q] \in S THEN "RUNNABLE"
                                   ELSE st[q]]

----------------------------------------------------------------------------
(***************************************************************************)
(* The scheduler, and what makes a process leave its CPU.                  *)
(***************************************************************************)
\* Mutant of scheduler: the state is left RUNNABLE.
SchedulerUnmarked(c, p) ==
  /\ cpu[c] = None
  /\ state[p] = "RUNNABLE"
  /\ pc[p] # "wait"
  /\ cpu' = [cpu EXCEPT ![c] = p]
  /\ UNCHANGED <<table, memory, nextpid, pc, np, clock, panicked>>

scheduler(c, p) ==
  /\ cpu[c] = None
  /\ state[p] = "RUNNABLE"
  /\ pc[p] # "wait"
  /\ cpu' = [cpu EXCEPT ![c] = p]
  /\ state' = [state EXCEPT ![p] = "RUNNING"]
  /\ chan' = [chan EXCEPT ![p] = None]
  /\ IF pc[p] = "asleep" THEN Goto(p, "lock") ELSE UNCHANGED pc
  /\ UNCHANGED <<parent, pid, killed, memory, nextpid, np, clock, panicked>>

\* The clock interrupt finds interrupts on: no spinlock is held.
yield(c, p) ==
  /\ cpu[c] = p
  /\ pc[p] \in {"user", "sys", "fork1", "fork2", "fork3", "exit"}
  /\ state' = [state EXCEPT ![p] = "RUNNABLE"]
  /\ cpu' = [cpu EXCEPT ![c] = None]
  /\ UNCHANGED <<parent, pid, killed, chan, memory, nextpid, pc, np, clock, panicked>>

\* A trap from user space: an exit is forced on a process that was killed, here or
\* where a system call ends ("user" stands for both).
trap(c, p) ==
  /\ At(c, p, "user")
  /\ Goto(p, IF killed[p] THEN "exit" ELSE "sys")
  /\ UNCHANGED <<table, memory, nextpid, cpu, np, clock, panicked>>

\* A fault in user space.
fault(c, p) ==
  /\ At(c, p, "user")
  /\ killed' = [killed EXCEPT ![p] = TRUE]
  /\ Goto(p, "exit")
  /\ UNCHANGED <<state, parent, pid, chan, memory, nextpid, cpu, np, clock, panicked>>

\* sbrk: by a page, up or down; an allocation may fail.
growproc(c, p) ==
  /\ At(c, p, "sys")
  /\ \/ p \notin heap /\ free > 0 /\ heap' = heap \cup {p} /\ free' = free - 1
     \/ p \in heap /\ heap' = heap \ {p} /\ free' = free + 1
     \/ free = 0 /\ UNCHANGED <<heap, free>>
  /\ Goto(p, "user")
  /\ UNCHANGED <<table, kstack, pgdir, nextpid, cpu, np, clock, panicked>>

sys_exit(c, p) ==
  /\ At(c, p, "sys")
  /\ Goto(p, "exit")
  /\ UNCHANGED <<table, memory, nextpid, cpu, np, clock, panicked>>

----------------------------------------------------------------------------
(***************************************************************************)
(* fork, in the four parts that the locks make of it.                      *)
(***************************************************************************)
\* allocproc, under the lock.
allocproc(c, p, q) ==
  /\ At(c, p, "sys")
  /\ nextpid <= MaxPid
  /\ state[q] = "UNUSED"
  /\ state' = [state EXCEPT ![q] = "EMBRYO"]
  /\ pid' = [pid EXCEPT ![q] = nextpid]
  /\ nextpid' = nextpid + 1
  /\ np' = [np EXCEPT ![p] = q]
  /\ Goto(p, "fork1")
  /\ UNCHANGED <<parent, killed, chan, memory, cpu, clock, panicked>>

\* No slot is free: fork returns -1.
allocproc_fails(c, p) ==
  /\ At(c, p, "sys")
  /\ \A q \in Procs : state[q] # "UNUSED"
  /\ Goto(p, "user")
  /\ UNCHANGED <<table, memory, nextpid, cpu, np, clock, panicked>>

\* allocproc: the kernel stack.
alloc_kstack(c, p) ==
  /\ At(c, p, "fork1")
  /\ IF free = 0
     THEN /\ state' = [state EXCEPT ![np[p]] = "UNUSED"]
          /\ np' = [np EXCEPT ![p] = None]
          /\ Goto(p, "user")
          /\ UNCHANGED <<kstack, free>>
     ELSE /\ kstack' = kstack \cup {np[p]}
          /\ free' = free - 1
          /\ Goto(p, "fork2")
          /\ UNCHANGED <<state, np>>
  /\ UNCHANGED <<parent, pid, killed, chan, pgdir, heap, nextpid, cpu, clock, panicked>>

\* The pages of p's address space.
sz(p) == IF p \in heap THEN 2 ELSE 1

\* copyuvm, and np->parent = curproc, without the lock.
copyuvm(c, p) ==
  /\ At(c, p, "fork2")
  /\ IF free < sz(p)
     THEN /\ kstack' = kstack \ {np[p]}
          /\ free' = free + 1
          /\ state' = [state EXCEPT ![np[p]] = "UNUSED"]
          /\ np' = [np EXCEPT ![p] = None]
          /\ Goto(p, "user")
          /\ UNCHANGED <<pgdir, heap, parent>>
     ELSE /\ pgdir' = pgdir \cup {np[p]}
          /\ heap' = IF p \in heap THEN heap \cup {np[p]} ELSE heap
          /\ free' = free - sz(p)
          /\ parent' = [parent EXCEPT ![np[p]] = p]
          /\ Goto(p, "fork3")
          /\ UNCHANGED <<kstack, state, np>>
  /\ UNCHANGED <<pid, killed, chan, nextpid, cpu, clock, panicked>>

\* The child becomes RUNNABLE, under the lock; it starts in user space.
fork(c, p) ==
  /\ At(c, p, "fork3")
  /\ state' = [state EXCEPT ![np[p]] = "RUNNABLE"]
  /\ pc' = [pc EXCEPT ![np[p]] = "user", ![p] = "user"]
  /\ np' = [np EXCEPT ![p] = None]
  /\ UNCHANGED <<parent, pid, killed, chan, memory, nextpid, cpu, clock, panicked>>

----------------------------------------------------------------------------
(***************************************************************************)
(* exit and wait, under ptable.lock.                                       *)
(***************************************************************************)
Kids(p) == {q \in Procs : parent[q] = p}

ZombieKids(p) == {q \in Kids(p) : state[q] = "ZOMBIE"}

\* Mutant of Notified: the parent is not woken.
NotifiedInit(p) == IF ZombieKids(p) # {} THEN {initproc} ELSE {}

\* Whom exit wakes: the parent, and init if it inherits a zombie.
Notified(p) == {parent[p]} \cup IF ZombieKids(p) # {} THEN {initproc} ELSE {}

\* Mutant of exit: abandoned children are not passed to init.
ExitAbandons(c, p) ==
  /\ At(c, p, "exit")
  /\ p # initproc
  /\ state' = [wakeup1(state, Notified(p)) EXCEPT ![p] = "ZOMBIE"]
  /\ cpu' = [cpu EXCEPT ![c] = None]
  /\ UNCHANGED <<parent, pid, killed, chan, memory, nextpid, pc, np, clock, panicked>>

exit(c, p) ==
  /\ At(c, p, "exit")
  /\ IF p = initproc
     THEN panicked' = TRUE /\ UNCHANGED <<state, parent, cpu>>
     ELSE /\ state' = [wakeup1(state, Notified(p)) EXCEPT ![p] = "ZOMBIE"]
          /\ parent' = [q \in Procs |-> IF q \in Kids(p) THEN initproc ELSE parent[q]]
          /\ cpu' = [cpu EXCEPT ![c] = None]
          /\ UNCHANGED panicked
  /\ UNCHANGED <<pid, killed, chan, memory, nextpid, pc, np, clock>>

\* One pass of wait()'s loop by p on CPU c: a zombie child is freed,
WaitReap(c, p, q) ==
  /\ q \in ZombieKids(p)
  /\ kstack' = kstack \ {q}
  /\ pgdir' = pgdir \ {q}
  /\ heap' = heap \ {q}
  /\ free' = free + 1 + sz(q)
  /\ pid' = [pid EXCEPT ![q] = 0]
  /\ parent' = [parent EXCEPT ![q] = None]
  /\ killed' = [killed EXCEPT ![q] = FALSE]
  /\ state' = [state EXCEPT ![q] = "UNUSED", ![p] = "RUNNING"]
  /\ chan' = [chan EXCEPT ![p] = None]
  /\ cpu' = [cpu EXCEPT ![c] = p]
  /\ Goto(p, "user")

\* or there is no point in waiting,
WaitFails(c, p) ==
  /\ ZombieKids(p) = {}
  /\ Kids(p) = {} \/ killed[p]
  /\ state' = [state EXCEPT ![p] = "RUNNING"]
  /\ chan' = [chan EXCEPT ![p] = None]
  /\ cpu' = [cpu EXCEPT ![c] = p]
  /\ Goto(p, "user")
  /\ UNCHANGED <<memory, pid, parent, killed>>

\* or p sleeps on itself.
WaitSleeps(c, p) ==
  /\ ZombieKids(p) = {}
  /\ Kids(p) # {} /\ ~ killed[p]
  /\ state' = [state EXCEPT ![p] = "SLEEPING"]
  /\ chan' = [chan EXCEPT ![p] = p]
  /\ cpu' = [cpu EXCEPT ![c] = None]
  /\ Goto(p, "wait")
  /\ UNCHANGED <<memory, pid, parent, killed>>

wait(c, p) ==
  /\ \/ At(c, p, "sys")
     \/ cpu[c] = None /\ state[p] = "RUNNABLE" /\ pc[p] = "wait"
  /\ \/ \E q \in Procs : WaitReap(c, p, q)
     \/ WaitFails(c, p)
     \/ WaitSleeps(c, p)
  /\ UNCHANGED <<nextpid, np, clock, panicked>>

\* kill: the slot whose pid it is, or none.
kill(c, p, n) ==
  /\ At(c, p, "sys")
  /\ Goto(p, "user")
  /\ IF \E q \in Procs : pid[q] = n
     THEN \E q \in Procs :
            /\ pid[q] = n
            /\ killed' = [killed EXCEPT ![q] = TRUE]
            /\ state' = IF state[q] = "SLEEPING" THEN [state EXCEPT ![q] = "RUNNABLE"]
                        ELSE state
     ELSE UNCHANGED <<killed, state>>
  /\ UNCHANGED <<parent, pid, chan, memory, nextpid, cpu, np, clock, panicked>>

----------------------------------------------------------------------------
(***************************************************************************)
(* sys_sleep, sleep(&ticks, &tickslock) and the clock interrupt.  A        *)
(* process that holds or waits for tickslock keeps its CPU.                *)
(***************************************************************************)
\* A sleep of no ticks is due at once.
sys_sleep(c, p) ==
  /\ At(c, p, "sys")
  /\ tickslock = None
  /\ tickslock' = p
  /\ \E d \in BOOLEAN : due' = [due EXCEPT ![p] = d]
  /\ Goto(p, "test")
  /\ UNCHANGED <<table, memory, nextpid, cpu, np, panicked>>

\* Mutant of sleep_test: tickslock is released before sleep takes ptable.lock.
SleepTestUnlocks(c, p) ==
  /\ At(c, p, "test")
  /\ Goto(p, IF due[p] \/ killed[p] THEN "user" ELSE "sleep")
  /\ tickslock' = None
  /\ UNCHANGED <<table, memory, nextpid, cpu, np, due, panicked>>

\* The loop's tests; kill does not take tickslock.
sleep_test(c, p) ==
  /\ At(c, p, "test")
  /\ IF due[p] \/ killed[p]
     THEN Goto(p, "user") /\ tickslock' = None
     ELSE Goto(p, "sleep") /\ UNCHANGED tickslock
  /\ UNCHANGED <<table, memory, nextpid, cpu, np, due, panicked>>

\* sleep: ptable.lock is taken before tickslock is released.
sleep(c, p) ==
  /\ At(c, p, "sleep")
  /\ tickslock' = None
  /\ chan' = [chan EXCEPT ![p] = Ticks]
  /\ state' = [state EXCEPT ![p] = "SLEEPING"]
  /\ cpu' = [cpu EXCEPT ![c] = None]
  /\ Goto(p, "asleep")
  /\ UNCHANGED <<parent, pid, killed, memory, nextpid, np, due, panicked>>

\* The end of sleep: acquire(lk).
sleep_relock(c, p) ==
  /\ At(c, p, "lock")
  /\ tickslock = None
  /\ tickslock' = p
  /\ Goto(p, "test")
  /\ UNCHANGED <<table, memory, nextpid, cpu, np, due, panicked>>

\* ticks++: the time of some sleepers is up.
tick == /\ tickslock = None
        /\ tickslock' = Timer
        /\ \E S \in SUBSET Procs : due' = [p \in Procs |-> due[p] \/ p \in S]
        /\ UNCHANGED <<table, memory, nextpid, cpu, pc, np, panicked>>

\* wakeup(&ticks).
tick_wakeup == /\ tickslock = Timer
               /\ state' = wakeup1(state, {Ticks})
               /\ tickslock' = None
               /\ UNCHANGED <<parent, pid, killed, chan, memory, nextpid, cpu, pc, np, due,
                              panicked>>

\* panic() stops the machine.
halt == panicked /\ UNCHANGED vars

CpuStep(c, p) == \/ scheduler(c, p)
                 \/ yield(c, p)
                 \/ trap(c, p)
                 \/ fault(c, p)
                 \/ growproc(c, p)
                 \/ sys_exit(c, p)
                 \/ \E q \in Procs : allocproc(c, p, q)
                 \/ allocproc_fails(c, p)
                 \/ alloc_kstack(c, p)
                 \/ copyuvm(c, p)
                 \/ fork(c, p)
                 \/ exit(c, p)
                 \/ wait(c, p)
                 \/ \E n \in 0 .. MaxPid : kill(c, p, n)
                 \/ sys_sleep(c, p)
                 \/ sleep_test(c, p)
                 \/ sleep(c, p)
                 \/ sleep_relock(c, p)

Next == \/ ~ panicked /\ \E c \in Cpus, p \in Procs : CpuStep(c, p)
        \/ ~ panicked /\ (tick \/ tick_wakeup)
        \/ halt

Spec == Init /\ [][Next]_vars

----------------------------------------------------------------------------
Live(p) == state[p] \notin {"UNUSED", "EMBRYO", "ZOMBIE"}

(***************************************************************************)
(* Type invariant.                                                         *)
(***************************************************************************)
TypeOK == /\ state \in [Procs -> {"UNUSED", "EMBRYO", "SLEEPING", "RUNNABLE", "RUNNING",
                                  "ZOMBIE"}]
          /\ parent \in [Procs -> Procs \cup {None}]
          /\ pid \in [Procs -> Nat]
          /\ killed \in [Procs -> BOOLEAN]
          /\ chan \in [Procs -> Procs \cup {None, Ticks}]
          /\ kstack \subseteq Procs
          /\ pgdir \subseteq Procs
          /\ heap \subseteq Procs
          /\ free \in Nat
          /\ nextpid \in Nat
          /\ cpu \in [Cpus -> Procs \cup {None}]
          /\ pc \in [Procs -> {"user", "sys", "fork1", "fork2", "fork3", "exit", "wait",
                               "lock", "test", "sleep", "asleep"}]
          /\ np \in [Procs -> Procs \cup {None}]
          /\ due \in [Procs -> BOOLEAN]
          /\ tickslock \in Procs \cup {None, Timer}
          /\ panicked \in BOOLEAN

(***************************************************************************)
(* A process runs on one CPU at most, and is RUNNING just when it does:    *)
(* no two schedulers take the same process, and none takes one that sleeps *)
(* or has exited.                                                          *)
(***************************************************************************)
RunsOnce == /\ \A c \in Cpus : cpu[c] # None => state[cpu[c]] = "RUNNING"
            /\ \A c, d \in Cpus : cpu[c] = cpu[d] /\ cpu[c] # None => c = d

(***************************************************************************)
(* A process that exists has a parent that has not exited: someone can     *)
(* wait for it, however exits and forks interleave.                        *)
(***************************************************************************)
ParentLives == \A p \in Procs \ {initproc} :
                 state[p] \notin {"UNUSED", "EMBRYO"} => parent[p] # None /\ Live(parent[p])

(***************************************************************************)
(* "Once we hold ptable.lock, we can be guaranteed that we won't miss any  *)
(* wakeup": nobody sleeps in wait() with a zombie child, without children, *)
(* or killed.                                                              *)
(***************************************************************************)
ExitNoticed == \A p \in Procs : state[p] = "SLEEPING" /\ chan[p] = p =>
                 ZombieKids(p) = {} /\ Kids(p) # {} /\ ~ killed[p]

(***************************************************************************)
(* The same of sys_sleep: nobody whose time is up sleeps on, unless the    *)
(* clock interrupt is about to call wakeup.                                *)
(***************************************************************************)
TickNoticed == \A p \in Procs : state[p] = "SLEEPING" /\ chan[p] = Ticks /\ due[p] =>
                 tickslock = Timer

(***************************************************************************)
(* No page is lost or freed twice by fork, its failures, sbrk and wait.    *)
(***************************************************************************)
PagesConserved ==
  free + Cardinality(kstack) + Cardinality(pgdir) + Cardinality(heap) = NPAGES

\* No two processes have the same pid.
PidsDiffer == \A p, q \in Procs : Live(p) /\ Live(q) /\ pid[p] = pid[q] => p = q
=============================================================================
