----------------------------- MODULE ProcProofs -----------------------------
(***************************************************************************)
(* Theorems about the process table, for any number of slots, CPUs and     *)
(* pages.                                                                  *)
(***************************************************************************)
EXTENDS Proc, FiniteSetTheorems, TLAPS

\* A leaf is left to Zenon where it is pure logic, and cites SMT where it takes
\* arithmetic, records or sequences.
USE Zenon

Forking == {"fork1", "fork2", "fork3"}

\* A slot that fork prepares is EMBRYO, belongs to one fork and has what
\* that fork has given it so far.
ForkInv ==
  /\ \A p \in Procs : pc[p] \in Forking => /\ state[p] \in {"RUNNING", "RUNNABLE"}
                                           /\ np[p] \in Procs
                                           /\ state[np[p]] = "EMBRYO"
  /\ \A p, q \in Procs : pc[p] \in Forking /\ pc[q] \in Forking /\ np[p] = np[q] => p = q
  /\ \A p \in Procs : pc[p] = "fork1" => np[p] \notin kstack
  /\ \A p \in Procs : pc[p] \in {"fork1", "fork2"} => /\ np[p] \notin pgdir /\ np[p] \notin heap
                                                       /\ parent[np[p]] = None
  /\ \A p \in Procs : pc[p] \in {"fork2", "fork3"} => np[p] \in kstack
  /\ \A p \in Procs : pc[p] = "fork3" => np[p] \in pgdir /\ parent[np[p]] = p

\* A process has a stack and an address space, an unused slot nothing.
OwnInv ==
  /\ \A p \in Procs : state[p] = "UNUSED" => /\ p \notin kstack /\ p \notin pgdir
                                             /\ p \notin heap /\ parent[p] = None
  /\ \A p \in Procs : state[p] \notin {"UNUSED", "EMBRYO"} => p \in kstack /\ p \in pgdir

\* init never exits and has no parent.
FamilyInv == /\ ParentLives
             /\ Live(initproc) /\ parent[initproc] = None
             /\ \A p \in Procs : parent[p] # p

\* tickslock is held from the test until sleep has set the state.
SleepInv == /\ \A p \in Procs : state[p] = "SLEEPING" => chan[p] \in {p, Ticks}
            /\ \A p \in Procs : pc[p] \in {"test", "sleep"} => tickslock = p
            /\ \A p \in Procs : pc[p] = "sleep" => ~ due[p]
            /\ ExitNoticed
            /\ TickNoticed

PidInv == /\ \A p \in Procs : pid[p] < nextpid
          /\ \A p, q \in Procs : /\ state[p] # "UNUSED" /\ state[q] # "UNUSED"
                                 /\ pid[p] = pid[q]
                                 => p = q

IInv == TypeOK /\ RunsOnce /\ ForkInv /\ OwnInv /\ FamilyInv /\ SleepInv /\ PidInv
          /\ PagesConserved

----------------------------------------------------------------------------
\* What exit does to each slot.
ExitStep(c, p) ==
  /\ state' \in [Procs -> {"UNUSED", "EMBRYO", "SLEEPING", "RUNNABLE", "RUNNING",
                           "ZOMBIE"}]
  /\ state'[p] = "ZOMBIE"
  /\ \A q \in Procs \ {p} :
       state'[q] = IF state[q] = "SLEEPING" /\ chan[q] \in Notified(p) THEN "RUNNABLE"
                   ELSE state[q]
  /\ parent' \in [Procs -> Procs \cup {None}]
  /\ \A q \in Procs : parent'[q] = IF parent[q] = p THEN initproc ELSE parent[q]
  /\ cpu[c] = p /\ pc[p] = "exit"
  /\ cpu' = [cpu EXCEPT ![c] = None]
  /\ UNCHANGED <<panicked, pid, killed, chan, memory, nextpid, pc, np, clock>>

\* The wakeups of exit and its own state, slot by slot.
LEMMA ExitEffect ==
  ASSUME TypeOK, NEW c \in Cpus, NEW p \in Procs, exit(c, p), p # initproc
  PROVE  ExitStep(c, p)
<1> DEFINE w == wakeup1(state, Notified(p))
<1>1. w \in [Procs -> {"UNUSED", "EMBRYO", "SLEEPING", "RUNNABLE", "RUNNING", "ZOMBIE"}]
  BY DEF TypeOK, wakeup1
<1>2. \A q \in Procs : w[q] = IF state[q] = "SLEEPING" /\ chan[q] \in Notified(p) THEN "RUNNABLE"
                              ELSE state[q]
  BY DEF wakeup1
<1>3. state' = [w EXCEPT ![p] = "ZOMBIE"]
  BY DEF exit
<1>4. /\ parent' = [q \in Procs |-> IF q \in Kids(p) THEN initproc ELSE parent[q]]
      /\ cpu[c] = p /\ pc[p] = "exit"
      /\ cpu' = [cpu EXCEPT ![c] = None]
      /\ UNCHANGED <<panicked, pid, killed, chan, memory, nextpid, pc, np, clock>>
  BY DEF exit, At
<1> HIDE DEF w
<1>5. /\ parent' \in [Procs -> Procs \cup {None}]
      /\ \A q \in Procs : parent'[q] = IF parent[q] = p THEN initproc ELSE parent[q]
  BY <1>4, ProcAssumption DEF Kids, TypeOK
<1> QED
  BY <1>1, <1>2, <1>3, <1>4, <1>5 DEF ExitStep

\* Every step keeps the types.
LEMMA TypeOKStep == IInv /\ [Next]_vars => TypeOK'
<1> SUFFICES ASSUME IInv, [Next]_vars
             PROVE  TypeOK'
  OBVIOUS
<1>0. TypeOK /\ ForkInv
  BY DEF IInv
<1> USE ProcAssumption DEF TypeOK, table, memory, clock
<1>1. ASSUME NEW c \in Cpus, NEW p \in Procs, CpuStep(c, p)
      PROVE  TypeOK'
  <2>1. CASE scheduler(c, p)
    BY <1>0, <2>1 DEF scheduler, Goto
  <2>2. CASE yield(c, p)
    BY <1>0, <2>2 DEF yield
  <2>3. CASE trap(c, p)
    BY <1>0, <2>3 DEF trap, At, Goto
  <2>4. CASE fault(c, p)
    BY <1>0, <2>4 DEF fault, At, Goto
  <2>5. CASE growproc(c, p)
    BY <1>0, <2>5, SMT DEF growproc, At, Goto
  <2>6. CASE sys_exit(c, p)
    BY <1>0, <2>6 DEF sys_exit, At, Goto
  <2>7. ASSUME NEW q \in Procs, allocproc(c, p, q)
        PROVE  TypeOK'
    BY <1>0, <2>7, SMT DEF allocproc, At, Goto
  <2>8. CASE allocproc_fails(c, p)
    BY <1>0, <2>8 DEF allocproc_fails, At, Goto
  <2>9. CASE alloc_kstack(c, p)
    <3>1. np[p] \in Procs /\ UNCHANGED <<parent, pid, killed, chan, pgdir, heap, nextpid,
                                            cpu, clock, panicked>>
      BY <1>0, <2>9 DEF alloc_kstack, At, ForkInv, Forking
    <3>2. CASE free = 0
      BY <1>0, <2>9, <3>1, <3>2, SMT DEF alloc_kstack, Goto
    <3>3. CASE free # 0
      BY <1>0, <2>9, <3>1, <3>3, SMT DEF alloc_kstack, Goto
    <3> QED
      BY <3>2, <3>3
  <2>10. CASE copyuvm(c, p)
    BY <1>0, <2>10, SMT DEF copyuvm, At, Goto, sz, ForkInv, Forking
  <2>11. CASE fork(c, p)
    BY <1>0, <2>11 DEF fork, At, ForkInv, Forking
  <2>12. CASE exit(c, p)
    <3>1. CASE p = initproc
      BY <1>0, <2>12, <3>1 DEF exit, At
    <3>2. CASE p # initproc
      <4>1. ExitStep(c, p)
        BY <1>0, <2>12, <3>2, ExitEffect
      <4> QED
        BY <1>0, <3>2, <4>1 DEF ExitStep
    <3> QED
      BY <3>1, <3>2
  <2>13. CASE wait(c, p)
    <3>1. /\ (At(c, p, "sys") \/ (cpu[c] = None /\ state[p] = "RUNNABLE"))
          /\ UNCHANGED <<nextpid, np, clock, panicked>>
      BY <2>13 DEF wait
    <3>2. ASSUME NEW q \in Procs, WaitReap(c, p, q)
          PROVE  TypeOK'
      <4>1. sz(q) \in Nat
        BY DEF sz
      <4> QED
        BY <1>0, <3>1, <3>2, <4>1, SMT DEF WaitReap, Goto, At, ZombieKids, Kids
    <3>3. CASE WaitFails(c, p)
      BY <1>0, <3>1, <3>3 DEF WaitFails, Goto, At
    <3>4. CASE WaitSleeps(c, p)
      BY <1>0, <3>1, <3>4 DEF WaitSleeps, Goto, At
    <3> QED
      BY <2>13, <3>2, <3>3, <3>4 DEF wait
  <2>14. ASSUME NEW n \in 0 .. MaxPid, kill(c, p, n)
        PROVE  TypeOK'
    <3>1. /\ pc' = [pc EXCEPT ![p] = "user"]
          /\ UNCHANGED <<parent, pid, chan, memory, nextpid, cpu, np, clock, panicked>>
      BY <2>14 DEF kill, Goto
    <3>2. ASSUME NEW q \in Procs, killed' = [killed EXCEPT ![q] = TRUE],
                 state' = IF state[q] = "SLEEPING" THEN [state EXCEPT ![q] = "RUNNABLE"]
                          ELSE state
          PROVE  TypeOK'
      <4>1. killed' \in [Procs -> BOOLEAN]
        BY <1>0, <3>2
      <4>2. state' \in [Procs -> {"UNUSED", "EMBRYO", "SLEEPING", "RUNNABLE", "RUNNING",
                                 "ZOMBIE"}]
        BY <1>0, <3>2
      <4> QED
        BY <1>0, <3>1, <4>1, <4>2
    <3>3. CASE UNCHANGED <<killed, state>>
      BY <1>0, <3>1, <3>3
    <3> QED
      BY <2>14, <3>2, <3>3 DEF kill
  <2>15. CASE sys_sleep(c, p)
    BY <1>0, <2>15, SMT DEF sys_sleep, At, Goto
  <2>16. CASE sleep_test(c, p)
    BY <1>0, <2>16, SMT DEF sleep_test, At, Goto
  <2>17. CASE sleep(c, p)
    BY <1>0, <2>17 DEF sleep, At, Goto
  <2>18. CASE sleep_relock(c, p)
    BY <1>0, <2>18 DEF sleep_relock, At, Goto
  <2> QED
    BY <1>1, <2>1, <2>2, <2>3, <2>4, <2>5, <2>6, <2>7, <2>8, <2>9, <2>10, <2>11,
         <2>12, <2>13, <2>14, <2>15, <2>16, <2>17, <2>18 DEF CpuStep
<1>2. CASE tick
  BY <1>0, <1>2 DEF tick
<1>3. CASE tick_wakeup
  BY <1>0, <1>3 DEF tick_wakeup, wakeup1
<1>4. CASE UNCHANGED vars
  BY <1>0, <1>4 DEF vars
<1> QED
  BY <1>1, <1>2, <1>3, <1>4 DEF Next, halt

\* Every step keeps a process on one CPU: only the scheduler puts one there, from
\* RUNNABLE.
LEMMA RunsOnceStep == IInv /\ [Next]_vars => RunsOnce'
<1> SUFFICES ASSUME IInv, [Next]_vars
             PROVE  RunsOnce'
  OBVIOUS
<1>0. TypeOK /\ RunsOnce /\ ForkInv
  BY DEF IInv
<1> USE ProcAssumption DEF TypeOK, table, memory, clock
<1>1. ASSUME NEW c \in Cpus, NEW p \in Procs, CpuStep(c, p)
      PROVE  RunsOnce'
  <2>1. CASE scheduler(c, p)
    BY <1>0, <2>1, SMT DEF scheduler, Goto, RunsOnce, ForkInv, Forking
  <2>2. CASE yield(c, p)
    BY <1>0, <2>2, SMT DEF yield, RunsOnce, ForkInv, Forking
  <2>3. CASE trap(c, p)
    BY <1>0, <2>3, SMT DEF trap, At, Goto, RunsOnce, ForkInv, Forking
  <2>4. CASE fault(c, p)
    BY <1>0, <2>4, SMT DEF fault, At, Goto, RunsOnce, ForkInv, Forking
  <2>5. CASE growproc(c, p)
    BY <1>0, <2>5, SMT DEF growproc, At, Goto, RunsOnce, ForkInv, Forking
  <2>6. CASE sys_exit(c, p)
    BY <1>0, <2>6, SMT DEF sys_exit, At, Goto, RunsOnce, ForkInv, Forking
  <2>7. ASSUME NEW q \in Procs, allocproc(c, p, q)
        PROVE  RunsOnce'
    BY <1>0, <2>7, SMT DEF allocproc, At, Goto, RunsOnce, ForkInv, Forking
  <2>8. CASE allocproc_fails(c, p)
    BY <1>0, <2>8, SMT DEF allocproc_fails, At, Goto, RunsOnce, ForkInv, Forking
  <2>9. CASE alloc_kstack(c, p)
    BY <1>0, <2>9, SMT DEF alloc_kstack, At, Goto, RunsOnce, ForkInv, Forking
  <2>10. CASE copyuvm(c, p)
    BY <1>0, <2>10, SMT DEF copyuvm, At, Goto, sz, RunsOnce, ForkInv, Forking
  <2>11. CASE fork(c, p)
    BY <1>0, <2>11, SMT DEF fork, At, RunsOnce, ForkInv, Forking
  <2>12. CASE exit(c, p)
    <3>1. CASE p = initproc
      BY <1>0, <2>12, <3>1, SMT DEF exit, At, RunsOnce, ForkInv, Forking
    <3>2. CASE p # initproc
      <4>1. ExitStep(c, p)
        BY <1>0, <2>12, <3>2, ExitEffect
      <4> QED
        BY <1>0, <3>2, <4>1, SMT DEF ExitStep, RunsOnce, ForkInv, Forking
    <3> QED
      BY <3>1, <3>2
  <2>13. CASE wait(c, p)
    BY <1>0, <2>13, SMTT(30) DEF wait, At, Goto, WaitReap, WaitFails, WaitSleeps, ZombieKids,
         Kids, sz, RunsOnce, ForkInv, Forking
  <2>14. ASSUME NEW n \in 0 .. MaxPid, kill(c, p, n)
        PROVE  RunsOnce'
    BY <1>0, <2>14, SMT DEF kill, At, Goto, RunsOnce, ForkInv, Forking
  <2>15. CASE sys_sleep(c, p)
    BY <1>0, <2>15, SMT DEF sys_sleep, At, Goto, RunsOnce, ForkInv, Forking
  <2>16. CASE sleep_test(c, p)
    BY <1>0, <2>16, SMT DEF sleep_test, At, Goto, RunsOnce, ForkInv, Forking
  <2>17. CASE sleep(c, p)
    BY <1>0, <2>17, SMT DEF sleep, At, Goto, RunsOnce, ForkInv, Forking
  <2>18. CASE sleep_relock(c, p)
    BY <1>0, <2>18, SMT DEF sleep_relock, At, Goto, RunsOnce, ForkInv, Forking
  <2> QED
    BY <1>1, <2>1, <2>2, <2>3, <2>4, <2>5, <2>6, <2>7, <2>8, <2>9, <2>10, <2>11,
         <2>12, <2>13, <2>14, <2>15, <2>16, <2>17, <2>18 DEF CpuStep
<1>2. CASE tick
  BY <1>0, <1>2, SMT DEF tick, RunsOnce, ForkInv, Forking
<1>3. CASE tick_wakeup
  BY <1>0, <1>3, SMT DEF tick_wakeup, wakeup1, RunsOnce, ForkInv, Forking
<1>4. CASE UNCHANGED vars
  BY <1>0, <1>4, SMT DEF vars, RunsOnce, ForkInv, Forking
<1> QED
  BY <1>1, <1>2, <1>3, <1>4 DEF Next, halt

\* Every step keeps the slots under construction to the forks that build them.
LEMMA ForkInvStep == IInv /\ [Next]_vars => ForkInv'
<1> SUFFICES ASSUME IInv, [Next]_vars
             PROVE  ForkInv'
  OBVIOUS
<1>0. TypeOK /\ RunsOnce /\ ForkInv /\ OwnInv /\ FamilyInv
  BY DEF IInv
<1> USE ProcAssumption DEF TypeOK, table, memory, clock
<1>1. ASSUME NEW c \in Cpus, NEW p \in Procs, CpuStep(c, p)
      PROVE  ForkInv'
  <2>1. CASE scheduler(c, p)
    BY <1>0, <2>1, SMT DEF scheduler, Goto, ForkInv, Forking, RunsOnce, OwnInv, FamilyInv,
         ParentLives, Live
  <2>2. CASE yield(c, p)
    BY <1>0, <2>2, SMT DEF yield, ForkInv, Forking, RunsOnce, OwnInv, FamilyInv, ParentLives,
         Live
  <2>3. CASE trap(c, p)
    BY <1>0, <2>3, SMT DEF trap, At, Goto, ForkInv, Forking, RunsOnce, OwnInv, FamilyInv,
         ParentLives, Live
  <2>4. CASE fault(c, p)
    BY <1>0, <2>4, SMT DEF fault, At, Goto, ForkInv, Forking, RunsOnce, OwnInv, FamilyInv,
         ParentLives, Live
  <2>5. CASE growproc(c, p)
    BY <1>0, <2>5, SMT DEF growproc, At, Goto, ForkInv, Forking, RunsOnce, OwnInv, FamilyInv,
         ParentLives, Live
  <2>6. CASE sys_exit(c, p)
    BY <1>0, <2>6, SMT DEF sys_exit, At, Goto, ForkInv, Forking, RunsOnce, OwnInv, FamilyInv,
         ParentLives, Live
  <2>7. ASSUME NEW q \in Procs, allocproc(c, p, q)
        PROVE  ForkInv'
    BY <1>0, <2>7, SMT DEF allocproc, At, Goto, ForkInv, Forking, RunsOnce, OwnInv,
         FamilyInv, ParentLives, Live
  <2>8. CASE allocproc_fails(c, p)
    BY <1>0, <2>8, SMT DEF allocproc_fails, At, Goto, ForkInv, Forking, RunsOnce, OwnInv,
         FamilyInv, ParentLives, Live
  <2>9. CASE alloc_kstack(c, p)
    BY <1>0, <2>9, SMTT(30) DEF alloc_kstack, At, Goto, ForkInv, Forking, RunsOnce, OwnInv,
         FamilyInv, ParentLives, Live
  <2>10. CASE copyuvm(c, p)
    <3>1. np[p] \in Procs /\ pc[p] = "fork2"
      BY <1>0, <2>10 DEF copyuvm, At, ForkInv, Forking
    <3>2. CASE free < sz(p)
      BY <1>0, <2>10, <3>1, <3>2, SMTT(30) DEF copyuvm, Goto, ForkInv, Forking
    <3>3. CASE ~ (free < sz(p))
      BY <1>0, <2>10, <3>1, <3>3, SMT DEF copyuvm, Goto, ForkInv, Forking
    <3> QED
      BY <3>2, <3>3
  <2>11. CASE fork(c, p)
    BY <1>0, <2>11, SMT DEF fork, At, ForkInv, Forking, RunsOnce, OwnInv, FamilyInv,
         ParentLives, Live
  <2>12. CASE exit(c, p)
    <3>1. CASE p = initproc
      BY <1>0, <2>12, <3>1, SMT DEF exit, At, ForkInv, Forking, RunsOnce, OwnInv,
           FamilyInv, ParentLives, Live
    <3>2. CASE p # initproc
      <4>1. ExitStep(c, p)
        BY <1>0, <2>12, <3>2, ExitEffect
      <4> QED
        BY <1>0, <3>2, <4>1, SMT DEF ExitStep, ForkInv, Forking, RunsOnce, OwnInv,
             FamilyInv, ParentLives, Live
    <3> QED
      BY <3>1, <3>2
  <2>13. CASE wait(c, p)
    BY <1>0, <2>13, SMTT(30) DEF wait, At, Goto, WaitReap, WaitFails, WaitSleeps, ZombieKids,
         Kids, sz, ForkInv, Forking, RunsOnce, OwnInv, FamilyInv, ParentLives, Live
  <2>14. ASSUME NEW n \in 0 .. MaxPid, kill(c, p, n)
        PROVE  ForkInv'
    BY <1>0, <2>14, SMT DEF kill, At, Goto, ForkInv, Forking, RunsOnce, OwnInv, FamilyInv,
         ParentLives, Live
  <2>15. CASE sys_sleep(c, p)
    BY <1>0, <2>15, SMT DEF sys_sleep, At, Goto, ForkInv, Forking, RunsOnce, OwnInv,
         FamilyInv, ParentLives, Live
  <2>16. CASE sleep_test(c, p)
    BY <1>0, <2>16, SMT DEF sleep_test, At, Goto, ForkInv, Forking, RunsOnce, OwnInv,
         FamilyInv, ParentLives, Live
  <2>17. CASE sleep(c, p)
    BY <1>0, <2>17, SMT DEF sleep, At, Goto, ForkInv, Forking, RunsOnce, OwnInv, FamilyInv,
         ParentLives, Live
  <2>18. CASE sleep_relock(c, p)
    BY <1>0, <2>18, SMT DEF sleep_relock, At, Goto, ForkInv, Forking, RunsOnce, OwnInv,
         FamilyInv, ParentLives, Live
  <2> QED
    BY <1>1, <2>1, <2>2, <2>3, <2>4, <2>5, <2>6, <2>7, <2>8, <2>9, <2>10, <2>11,
         <2>12, <2>13, <2>14, <2>15, <2>16, <2>17, <2>18 DEF CpuStep
<1>2. CASE tick
  BY <1>0, <1>2, SMT DEF tick, ForkInv, Forking, RunsOnce, OwnInv, FamilyInv, ParentLives,
       Live
<1>3. CASE tick_wakeup
  BY <1>0, <1>3, SMT DEF tick_wakeup, wakeup1, ForkInv, Forking, RunsOnce, OwnInv,
       FamilyInv, ParentLives, Live
<1>4. CASE UNCHANGED vars
  BY <1>0, <1>4, SMT DEF vars, ForkInv, Forking, RunsOnce, OwnInv, FamilyInv, ParentLives,
       Live
<1> QED
  BY <1>1, <1>2, <1>3, <1>4 DEF Next, halt

\* Every step keeps pages with the slots that are in use.
LEMMA OwnInvStep == IInv /\ [Next]_vars => OwnInv'
<1> SUFFICES ASSUME IInv, [Next]_vars
             PROVE  OwnInv'
  OBVIOUS
<1>0. TypeOK /\ RunsOnce /\ ForkInv /\ OwnInv
  BY DEF IInv
<1> USE ProcAssumption DEF TypeOK, table, memory, clock
<1>1. ASSUME NEW c \in Cpus, NEW p \in Procs, CpuStep(c, p)
      PROVE  OwnInv'
  <2>1. CASE scheduler(c, p)
    BY <1>0, <2>1, SMT DEF scheduler, Goto, OwnInv, RunsOnce, ForkInv, Forking
  <2>2. CASE yield(c, p)
    BY <1>0, <2>2, SMT DEF yield, OwnInv, RunsOnce, ForkInv, Forking
  <2>3. CASE trap(c, p)
    BY <1>0, <2>3 DEF trap, At, Goto, OwnInv, RunsOnce, ForkInv, Forking
  <2>4. CASE fault(c, p)
    BY <1>0, <2>4 DEF fault, At, Goto, OwnInv, RunsOnce, ForkInv, Forking
  <2>5. CASE growproc(c, p)
    BY <1>0, <2>5 DEF growproc, At, Goto, OwnInv, RunsOnce, ForkInv, Forking
  <2>6. CASE sys_exit(c, p)
    BY <1>0, <2>6 DEF sys_exit, At, Goto, OwnInv, RunsOnce, ForkInv, Forking
  <2>7. ASSUME NEW q \in Procs, allocproc(c, p, q)
        PROVE  OwnInv'
    BY <1>0, <2>7, SMT DEF allocproc, At, Goto, OwnInv, RunsOnce, ForkInv, Forking
  <2>8. CASE allocproc_fails(c, p)
    BY <1>0, <2>8 DEF allocproc_fails, At, Goto, OwnInv, RunsOnce, ForkInv, Forking
  <2>9. CASE alloc_kstack(c, p)
    BY <1>0, <2>9, SMT DEF alloc_kstack, At, Goto, OwnInv, RunsOnce, ForkInv, Forking
  <2>10. CASE copyuvm(c, p)
    BY <1>0, <2>10, SMT DEF copyuvm, At, Goto, sz, OwnInv, RunsOnce, ForkInv, Forking
  <2>11. CASE fork(c, p)
    BY <1>0, <2>11, SMT DEF fork, At, OwnInv, RunsOnce, ForkInv, Forking
  <2>12. CASE exit(c, p)
    <3>1. CASE p = initproc
      BY <1>0, <2>12, <3>1, SMT DEF exit, At, OwnInv, RunsOnce, ForkInv, Forking
    <3>2. CASE p # initproc
      <4>1. ExitStep(c, p)
        BY <1>0, <2>12, <3>2, ExitEffect
      <4> QED
        BY <1>0, <3>2, <4>1, SMTT(30) DEF ExitStep, OwnInv, RunsOnce, ForkInv, Forking
    <3> QED
      BY <3>1, <3>2
  <2>13. CASE wait(c, p)
    <3>1. /\ (At(c, p, "sys") \/ (cpu[c] = None /\ state[p] = "RUNNABLE"))
          /\ UNCHANGED <<nextpid, np, clock, panicked>>
      BY <2>13 DEF wait
    <3>2. ASSUME NEW q \in Procs, WaitReap(c, p, q)
          PROVE  OwnInv'
      <4>1. sz(q) \in Nat
        BY DEF sz
      <4> QED
        BY <1>0, <3>1, <3>2, <4>1, SMT DEF WaitReap, Goto, At, ZombieKids, Kids, OwnInv,
             RunsOnce, ForkInv, Forking
    <3>3. CASE WaitFails(c, p)
      BY <1>0, <3>1, <3>3, SMT DEF WaitFails, Goto, At, OwnInv, RunsOnce, ForkInv, Forking
    <3>4. CASE WaitSleeps(c, p)
      BY <1>0, <3>1, <3>4, SMT DEF WaitSleeps, Goto, At, OwnInv, RunsOnce, ForkInv, Forking
    <3> QED
      BY <2>13, <3>2, <3>3, <3>4 DEF wait
  <2>14. ASSUME NEW n \in 0 .. MaxPid, kill(c, p, n)
        PROVE  OwnInv'
    BY <1>0, <2>14, SMT DEF kill, At, Goto, OwnInv, RunsOnce, ForkInv, Forking
  <2>15. CASE sys_sleep(c, p)
    BY <1>0, <2>15 DEF sys_sleep, At, Goto, OwnInv, RunsOnce, ForkInv, Forking
  <2>16. CASE sleep_test(c, p)
    BY <1>0, <2>16 DEF sleep_test, At, Goto, OwnInv, RunsOnce, ForkInv, Forking
  <2>17. CASE sleep(c, p)
    BY <1>0, <2>17, SMT DEF sleep, At, Goto, OwnInv, RunsOnce, ForkInv, Forking
  <2>18. CASE sleep_relock(c, p)
    BY <1>0, <2>18 DEF sleep_relock, At, Goto, OwnInv, RunsOnce, ForkInv, Forking
  <2> QED
    BY <1>1, <2>1, <2>2, <2>3, <2>4, <2>5, <2>6, <2>7, <2>8, <2>9, <2>10, <2>11,
         <2>12, <2>13, <2>14, <2>15, <2>16, <2>17, <2>18 DEF CpuStep
<1>2. CASE tick
  BY <1>0, <1>2 DEF tick, OwnInv, RunsOnce, ForkInv, Forking
<1>3. CASE tick_wakeup
  BY <1>0, <1>3 DEF tick_wakeup, wakeup1, OwnInv, RunsOnce, ForkInv, Forking
<1>4. CASE UNCHANGED vars
  BY <1>0, <1>4 DEF vars, OwnInv, RunsOnce, ForkInv, Forking
<1> QED
  BY <1>1, <1>2, <1>3, <1>4 DEF Next, halt

\* Every step leaves each process a living parent: exit passes its children to init.
LEMMA FamilyInvStep == IInv /\ [Next]_vars => FamilyInv'
<1> SUFFICES ASSUME IInv, [Next]_vars
             PROVE  FamilyInv'
  OBVIOUS
<1>0. TypeOK /\ RunsOnce /\ ForkInv /\ FamilyInv
  BY DEF IInv
<1> USE ProcAssumption DEF TypeOK, table, memory, clock
<1>1. ASSUME NEW c \in Cpus, NEW p \in Procs, CpuStep(c, p)
      PROVE  FamilyInv'
  <2>1. CASE scheduler(c, p)
    BY <1>0, <2>1, SMT DEF scheduler, Goto, FamilyInv, ParentLives, Live, RunsOnce, ForkInv,
         Forking
  <2>2. CASE yield(c, p)
    BY <1>0, <2>2, SMT DEF yield, FamilyInv, ParentLives, Live, RunsOnce, ForkInv, Forking
  <2>3. CASE trap(c, p)
    BY <1>0, <2>3 DEF trap, At, Goto, FamilyInv, ParentLives, Live, RunsOnce, ForkInv,
         Forking
  <2>4. CASE fault(c, p)
    BY <1>0, <2>4 DEF fault, At, Goto, FamilyInv, ParentLives, Live, RunsOnce, ForkInv,
         Forking
  <2>5. CASE growproc(c, p)
    BY <1>0, <2>5 DEF growproc, At, Goto, FamilyInv, ParentLives, Live, RunsOnce,
         ForkInv, Forking
  <2>6. CASE sys_exit(c, p)
    BY <1>0, <2>6 DEF sys_exit, At, Goto, FamilyInv, ParentLives, Live, RunsOnce,
         ForkInv, Forking
  <2>7. ASSUME NEW q \in Procs, allocproc(c, p, q)
        PROVE  FamilyInv'
    BY <1>0, <2>7, SMT DEF allocproc, At, Goto, FamilyInv, ParentLives, Live, RunsOnce,
         ForkInv, Forking
  <2>8. CASE allocproc_fails(c, p)
    BY <1>0, <2>8 DEF allocproc_fails, At, Goto, FamilyInv, ParentLives, Live, RunsOnce,
         ForkInv, Forking
  <2>9. CASE alloc_kstack(c, p)
    BY <1>0, <2>9, SMT DEF alloc_kstack, At, Goto, FamilyInv, ParentLives, Live, RunsOnce,
         ForkInv, Forking
  <2>10. CASE copyuvm(c, p)
    BY <1>0, <2>10, SMT DEF copyuvm, At, Goto, sz, FamilyInv, ParentLives, Live, RunsOnce,
         ForkInv, Forking
  <2>11. CASE fork(c, p)
    BY <1>0, <2>11, SMT DEF fork, At, FamilyInv, ParentLives, Live, RunsOnce, ForkInv,
         Forking
  <2>12. CASE exit(c, p)
    <3>1. CASE p = initproc
      BY <1>0, <2>12, <3>1, SMT DEF exit, At, FamilyInv, ParentLives, Live, RunsOnce,
           ForkInv, Forking
    <3>2. CASE p # initproc
      <4>1. ExitStep(c, p)
        BY <1>0, <2>12, <3>2, ExitEffect
      <4> QED
        BY <1>0, <3>2, <4>1, SMT DEF ExitStep, FamilyInv, ParentLives, Live, RunsOnce,
             ForkInv, Forking
    <3> QED
      BY <3>1, <3>2
  <2>13. CASE wait(c, p)
    BY <1>0, <2>13, SMTT(30) DEF wait, At, Goto, WaitReap, WaitFails, WaitSleeps, ZombieKids,
         Kids, sz, FamilyInv, ParentLives, Live, RunsOnce, ForkInv, Forking
  <2>14. ASSUME NEW n \in 0 .. MaxPid, kill(c, p, n)
        PROVE  FamilyInv'
    BY <1>0, <2>14, SMT DEF kill, At, Goto, FamilyInv, ParentLives, Live, RunsOnce, ForkInv,
         Forking
  <2>15. CASE sys_sleep(c, p)
    BY <1>0, <2>15 DEF sys_sleep, At, Goto, FamilyInv, ParentLives, Live, RunsOnce,
         ForkInv, Forking
  <2>16. CASE sleep_test(c, p)
    BY <1>0, <2>16 DEF sleep_test, At, Goto, FamilyInv, ParentLives, Live, RunsOnce,
         ForkInv, Forking
  <2>17. CASE sleep(c, p)
    BY <1>0, <2>17, SMT DEF sleep, At, Goto, FamilyInv, ParentLives, Live, RunsOnce, ForkInv,
         Forking
  <2>18. CASE sleep_relock(c, p)
    BY <1>0, <2>18 DEF sleep_relock, At, Goto, FamilyInv, ParentLives, Live, RunsOnce,
         ForkInv, Forking
  <2> QED
    BY <1>1, <2>1, <2>2, <2>3, <2>4, <2>5, <2>6, <2>7, <2>8, <2>9, <2>10, <2>11,
         <2>12, <2>13, <2>14, <2>15, <2>16, <2>17, <2>18 DEF CpuStep
<1>2. CASE tick
  BY <1>0, <1>2 DEF tick, FamilyInv, ParentLives, Live, RunsOnce, ForkInv, Forking
<1>3. CASE tick_wakeup
  BY <1>0, <1>3, SMT DEF tick_wakeup, wakeup1, FamilyInv, ParentLives, Live, RunsOnce,
       ForkInv, Forking
<1>4. CASE UNCHANGED vars
  BY <1>0, <1>4 DEF vars, FamilyInv, ParentLives, Live, RunsOnce, ForkInv, Forking
<1> QED
  BY <1>1, <1>2, <1>3, <1>4 DEF Next, halt

\* Every step keeps sleepers to be woken: exit wakes whom it gives a zombie, and the
\* test of sys_sleep is done under tickslock.
LEMMA SleepInvStep == IInv /\ [Next]_vars => SleepInv'
<1> SUFFICES ASSUME IInv, [Next]_vars
             PROVE  SleepInv'
  OBVIOUS
<1>0. TypeOK /\ RunsOnce /\ ForkInv /\ FamilyInv /\ OwnInv /\ SleepInv
  BY DEF IInv
<1> USE ProcAssumption DEF TypeOK, table, memory, clock
<1>1. ASSUME NEW c \in Cpus, NEW p \in Procs, CpuStep(c, p)
      PROVE  SleepInv'
  <2>1. CASE scheduler(c, p)
    BY <1>0, <2>1, SMT DEF scheduler, Goto, SleepInv, ExitNoticed, TickNoticed, ZombieKids,
         Kids, RunsOnce, ForkInv, Forking, FamilyInv, ParentLives, Live, OwnInv
  <2>2. CASE yield(c, p)
    BY <1>0, <2>2, SMT DEF yield, SleepInv, ExitNoticed, TickNoticed, ZombieKids, Kids,
         RunsOnce, ForkInv, Forking, FamilyInv, ParentLives, Live, OwnInv
  <2>3. CASE trap(c, p)
    BY <1>0, <2>3, SMT DEF trap, At, Goto, SleepInv, ExitNoticed, TickNoticed, ZombieKids,
         Kids, RunsOnce, ForkInv, Forking, FamilyInv, ParentLives, Live, OwnInv
  <2>4. CASE fault(c, p)
    BY <1>0, <2>4, SMT DEF fault, At, Goto, SleepInv, ExitNoticed, TickNoticed, ZombieKids,
         Kids, RunsOnce, ForkInv, Forking, FamilyInv, ParentLives, Live, OwnInv
  <2>5. CASE growproc(c, p)
    BY <1>0, <2>5, SMT DEF growproc, At, Goto, SleepInv, ExitNoticed, TickNoticed,
         ZombieKids, Kids, RunsOnce, ForkInv, Forking, FamilyInv, ParentLives, Live,
         OwnInv
  <2>6. CASE sys_exit(c, p)
    BY <1>0, <2>6, SMT DEF sys_exit, At, Goto, SleepInv, ExitNoticed, TickNoticed,
         ZombieKids, Kids, RunsOnce, ForkInv, Forking, FamilyInv, ParentLives, Live,
         OwnInv
  <2>7. ASSUME NEW q \in Procs, allocproc(c, p, q)
        PROVE  SleepInv'
    BY <1>0, <2>7, SMT DEF allocproc, At, Goto, SleepInv, ExitNoticed, TickNoticed,
         ZombieKids, Kids, RunsOnce, ForkInv, Forking, FamilyInv, ParentLives, Live,
         OwnInv
  <2>8. CASE allocproc_fails(c, p)
    BY <1>0, <2>8, SMT DEF allocproc_fails, At, Goto, SleepInv, ExitNoticed, TickNoticed,
         ZombieKids, Kids, RunsOnce, ForkInv, Forking, FamilyInv, ParentLives, Live,
         OwnInv
  <2>9. CASE alloc_kstack(c, p)
    BY <1>0, <2>9, SMT DEF alloc_kstack, At, Goto, SleepInv, ExitNoticed, TickNoticed,
         ZombieKids, Kids, RunsOnce, ForkInv, Forking, FamilyInv, ParentLives, Live,
         OwnInv
  <2>10. CASE copyuvm(c, p)
    BY <1>0, <2>10, SMT DEF copyuvm, At, Goto, sz, SleepInv, ExitNoticed, TickNoticed,
         ZombieKids, Kids, RunsOnce, ForkInv, Forking, FamilyInv, ParentLives, Live,
         OwnInv
  <2>11. CASE fork(c, p)
    BY <1>0, <2>11, SMT DEF fork, At, SleepInv, ExitNoticed, TickNoticed, ZombieKids, Kids,
         RunsOnce, ForkInv, Forking, FamilyInv, ParentLives, Live, OwnInv
  <2>12. CASE exit(c, p)
    <3>1. CASE p = initproc
      BY <1>0, <2>12, <3>1, SMT DEF exit, At, SleepInv, ExitNoticed, TickNoticed,
           ZombieKids, Kids, RunsOnce, ForkInv, Forking, FamilyInv, ParentLives, Live,
           OwnInv
    <3>2. CASE p # initproc
      <4>1. ExitStep(c, p)
        BY <1>0, <2>12, <3>2, ExitEffect
      <4> QED
        BY <1>0, <3>2, <4>1, SMTT(30) DEF ExitStep, SleepInv, ExitNoticed, TickNoticed,
             ZombieKids, Kids, RunsOnce, ForkInv, Forking, FamilyInv, ParentLives,
             Live, OwnInv, Notified
    <3> QED
      BY <3>1, <3>2
  <2>13. CASE wait(c, p)
    BY <1>0, <2>13, SMTT(30) DEF wait, At, Goto, WaitReap, WaitFails, WaitSleeps, ZombieKids,
         Kids, sz, SleepInv, ExitNoticed, TickNoticed, RunsOnce, ForkInv, Forking,
         FamilyInv, ParentLives, Live, OwnInv
  <2>14. ASSUME NEW n \in 0 .. MaxPid, kill(c, p, n)
        PROVE  SleepInv'
    BY <1>0, <2>14, SMTT(30) DEF kill, At, Goto, SleepInv, ExitNoticed, TickNoticed, ZombieKids,
         Kids, RunsOnce, ForkInv, Forking, FamilyInv, ParentLives, Live, OwnInv
  <2>15. CASE sys_sleep(c, p)
    BY <1>0, <2>15, SMT DEF sys_sleep, At, Goto, SleepInv, ExitNoticed, TickNoticed,
         ZombieKids, Kids, RunsOnce, ForkInv, Forking, FamilyInv, ParentLives, Live,
         OwnInv
  <2>16. CASE sleep_test(c, p)
    BY <1>0, <2>16, SMT DEF sleep_test, At, Goto, SleepInv, ExitNoticed, TickNoticed,
         ZombieKids, Kids, RunsOnce, ForkInv, Forking, FamilyInv, ParentLives, Live,
         OwnInv
  <2>17. CASE sleep(c, p)
    BY <1>0, <2>17, SMT DEF sleep, At, Goto, SleepInv, ExitNoticed, TickNoticed, ZombieKids,
         Kids, RunsOnce, ForkInv, Forking, FamilyInv, ParentLives, Live, OwnInv
  <2>18. CASE sleep_relock(c, p)
    BY <1>0, <2>18, SMT DEF sleep_relock, At, Goto, SleepInv, ExitNoticed, TickNoticed,
         ZombieKids, Kids, RunsOnce, ForkInv, Forking, FamilyInv, ParentLives, Live,
         OwnInv
  <2> QED
    BY <1>1, <2>1, <2>2, <2>3, <2>4, <2>5, <2>6, <2>7, <2>8, <2>9, <2>10, <2>11,
         <2>12, <2>13, <2>14, <2>15, <2>16, <2>17, <2>18 DEF CpuStep
<1>2. CASE tick
  BY <1>0, <1>2, SMT DEF tick, SleepInv, ExitNoticed, TickNoticed, ZombieKids, Kids,
       RunsOnce, ForkInv, Forking, FamilyInv, ParentLives, Live, OwnInv
<1>3. CASE tick_wakeup
  BY <1>0, <1>3, SMT DEF tick_wakeup, wakeup1, SleepInv, ExitNoticed, TickNoticed,
       ZombieKids, Kids, RunsOnce, ForkInv, Forking, FamilyInv, ParentLives, Live,
       OwnInv
<1>4. CASE UNCHANGED vars
  BY <1>0, <1>4, SMT DEF vars, SleepInv, ExitNoticed, TickNoticed, ZombieKids, Kids,
       RunsOnce, ForkInv, Forking, FamilyInv, ParentLives, Live, OwnInv
<1> QED
  BY <1>1, <1>2, <1>3, <1>4 DEF Next, halt

\* Every step keeps pids below nextpid and apart.
LEMMA PidInvStep == IInv /\ [Next]_vars => PidInv'
<1> SUFFICES ASSUME IInv, [Next]_vars
             PROVE  PidInv'
  OBVIOUS
<1>0. TypeOK /\ RunsOnce /\ PidInv /\ ForkInv
  BY DEF IInv
<1> USE ProcAssumption DEF TypeOK, table, memory, clock
<1>1. ASSUME NEW c \in Cpus, NEW p \in Procs, CpuStep(c, p)
      PROVE  PidInv'
  <2>1. CASE scheduler(c, p)
    BY <1>0, <2>1, SMT DEF scheduler, Goto, PidInv, RunsOnce, ForkInv, Forking
  <2>2. CASE yield(c, p)
    BY <1>0, <2>2, SMT DEF yield, PidInv, RunsOnce, ForkInv, Forking
  <2>3. CASE trap(c, p)
    BY <1>0, <2>3, SMT DEF trap, At, Goto, PidInv, RunsOnce, ForkInv, Forking
  <2>4. CASE fault(c, p)
    BY <1>0, <2>4, SMT DEF fault, At, Goto, PidInv, RunsOnce, ForkInv, Forking
  <2>5. CASE growproc(c, p)
    BY <1>0, <2>5, SMT DEF growproc, At, Goto, PidInv, RunsOnce, ForkInv, Forking
  <2>6. CASE sys_exit(c, p)
    BY <1>0, <2>6, SMT DEF sys_exit, At, Goto, PidInv, RunsOnce, ForkInv, Forking
  <2>7. ASSUME NEW q \in Procs, allocproc(c, p, q)
        PROVE  PidInv'
    BY <1>0, <2>7, SMT DEF allocproc, At, Goto, PidInv, RunsOnce, ForkInv, Forking
  <2>8. CASE allocproc_fails(c, p)
    BY <1>0, <2>8, SMT DEF allocproc_fails, At, Goto, PidInv, RunsOnce, ForkInv, Forking
  <2>9. CASE alloc_kstack(c, p)
    BY <1>0, <2>9, SMT DEF alloc_kstack, At, Goto, PidInv, RunsOnce, ForkInv, Forking
  <2>10. CASE copyuvm(c, p)
    BY <1>0, <2>10, SMT DEF copyuvm, At, Goto, sz, PidInv, RunsOnce, ForkInv, Forking
  <2>11. CASE fork(c, p)
    BY <1>0, <2>11, SMT DEF fork, At, PidInv, RunsOnce, ForkInv, Forking
  <2>12. CASE exit(c, p)
    <3>1. CASE p = initproc
      BY <1>0, <2>12, <3>1, SMT DEF exit, At, PidInv, RunsOnce, ForkInv, Forking
    <3>2. CASE p # initproc
      <4>1. ExitStep(c, p)
        BY <1>0, <2>12, <3>2, ExitEffect
      <4> QED
        BY <1>0, <3>2, <4>1, SMT DEF ExitStep, PidInv, RunsOnce, ForkInv, Forking
    <3> QED
      BY <3>1, <3>2
  <2>13. CASE wait(c, p)
    BY <1>0, <2>13, SMTT(30) DEF wait, At, Goto, WaitReap, WaitFails, WaitSleeps, ZombieKids,
         Kids, sz, PidInv, RunsOnce, ForkInv, Forking
  <2>14. ASSUME NEW n \in 0 .. MaxPid, kill(c, p, n)
        PROVE  PidInv'
    BY <1>0, <2>14, SMT DEF kill, At, Goto, PidInv, RunsOnce, ForkInv, Forking
  <2>15. CASE sys_sleep(c, p)
    BY <1>0, <2>15, SMT DEF sys_sleep, At, Goto, PidInv, RunsOnce, ForkInv, Forking
  <2>16. CASE sleep_test(c, p)
    BY <1>0, <2>16, SMT DEF sleep_test, At, Goto, PidInv, RunsOnce, ForkInv, Forking
  <2>17. CASE sleep(c, p)
    BY <1>0, <2>17, SMT DEF sleep, At, Goto, PidInv, RunsOnce, ForkInv, Forking
  <2>18. CASE sleep_relock(c, p)
    BY <1>0, <2>18, SMT DEF sleep_relock, At, Goto, PidInv, RunsOnce, ForkInv, Forking
  <2> QED
    BY <1>1, <2>1, <2>2, <2>3, <2>4, <2>5, <2>6, <2>7, <2>8, <2>9, <2>10, <2>11,
         <2>12, <2>13, <2>14, <2>15, <2>16, <2>17, <2>18 DEF CpuStep
<1>2. CASE tick
  BY <1>0, <1>2 DEF tick, PidInv, RunsOnce, ForkInv, Forking
<1>3. CASE tick_wakeup
  BY <1>0, <1>3 DEF tick_wakeup, wakeup1, PidInv, RunsOnce, ForkInv, Forking
<1>4. CASE UNCHANGED vars
  BY <1>0, <1>4 DEF vars, PidInv, RunsOnce, ForkInv, Forking
<1> QED
  BY <1>1, <1>2, <1>3, <1>4 DEF Next, halt

\* A page that a slot gives up or takes changes the count by one.
LEMMA OnePage ==
  ASSUME NEW S \in SUBSET Procs, NEW x \in Procs
  PROVE  /\ Cardinality(S) \in Nat
         /\ Cardinality(S \cup {x}) = IF x \in S THEN Cardinality(S) ELSE Cardinality(S) + 1
         /\ Cardinality(S \ {x}) = IF x \in S THEN Cardinality(S) - 1 ELSE Cardinality(S)
<1>1. IsFiniteSet(S)
  BY FS_Subset, ProcAssumption
<1>2. Cardinality(S) \in Nat
  BY <1>1, FS_CardinalityType
<1>3. Cardinality(S \cup {x}) = IF x \in S THEN Cardinality(S) ELSE Cardinality(S) + 1
  BY <1>1, FS_AddElement
<1>4. Cardinality(S \ {x}) = IF x \in S THEN Cardinality(S) - 1 ELSE Cardinality(S)
  BY <1>1, FS_RemoveElement
<1> QED
  BY <1>2, <1>3, <1>4

\* Every step keeps the count of pages: fork gives back what it took when it fails, and
\* wait frees all that a zombie has.
LEMMA PagesStep == IInv /\ [Next]_vars => PagesConserved'
<1> SUFFICES ASSUME IInv, [Next]_vars
             PROVE  PagesConserved'
  OBVIOUS
<1>0. /\ kstack \in SUBSET Procs /\ pgdir \in SUBSET Procs /\ heap \in SUBSET Procs
      /\ free \in Nat /\ NPAGES \in Nat
      /\ free + Cardinality(kstack) + Cardinality(pgdir) + Cardinality(heap) = NPAGES
  BY ProcAssumption DEF IInv, TypeOK, PagesConserved
<1>a. IsFiniteSet(Procs) /\ None \notin Procs
  BY ProcAssumption
<1>b. \A S \in SUBSET Procs : Cardinality(S) \in Nat
  BY <1>a, FS_Subset, FS_CardinalityType
<1>1. CASE UNCHANGED memory
  BY <1>0, <1>1 DEF memory, PagesConserved
<1>2. ASSUME NEW c \in Cpus, NEW p \in Procs, growproc(c, p)
      PROVE  PagesConserved'
  <2>1. UNCHANGED <<kstack, pgdir>>
    BY <1>2 DEF growproc
  <2>2. CASE p \notin heap /\ heap' = heap \cup {p} /\ free' = free - 1
    <3>1. Cardinality(heap \cup {p}) = Cardinality(heap) + 1
      BY <1>0, <2>2, OnePage
    <3> QED
      BY <1>0, <1>b, <2>1, <2>2, <3>1, SMT DEF PagesConserved
  <2>3. CASE p \in heap /\ heap' = heap \ {p} /\ free' = free + 1
    <3>1. Cardinality(heap \ {p}) = Cardinality(heap) - 1
      BY <1>0, <2>3, OnePage
    <3> QED
      BY <1>0, <1>b, <2>1, <2>3, <3>1, SMT DEF PagesConserved
  <2>4. CASE UNCHANGED <<heap, free>>
    BY <1>0, <2>1, <2>4 DEF PagesConserved
  <2> QED
    BY <1>2, <2>2, <2>3, <2>4 DEF growproc
<1>3. ASSUME NEW c \in Cpus, NEW p \in Procs, alloc_kstack(c, p)
      PROVE  PagesConserved'
  <2>1. np[p] \in Procs /\ np[p] \notin kstack
    BY <1>3 DEF alloc_kstack, At, IInv, ForkInv, Forking
  <2>2. Cardinality(kstack \cup {np[p]}) = Cardinality(kstack) + 1
    BY <1>0, <2>1, OnePage
  <2>3. UNCHANGED <<pgdir, heap>>
    BY <1>3 DEF alloc_kstack
  <2>4. \/ UNCHANGED <<kstack, free>>
        \/ kstack' = kstack \cup {np[p]} /\ free' = free - 1
    BY <1>3 DEF alloc_kstack
  <2>5. CASE UNCHANGED <<kstack, free>>
    BY <1>0, <2>3, <2>5 DEF PagesConserved
  <2>6. CASE kstack' = kstack \cup {np[p]} /\ free' = free - 1
    BY <1>0, <1>b, <2>2, <2>3, <2>6, SMT DEF PagesConserved
  <2> QED
    BY <2>4, <2>5, <2>6
<1>4. ASSUME NEW c \in Cpus, NEW p \in Procs, copyuvm(c, p)
      PROVE  PagesConserved'
  <2>1. np[p] \in Procs /\ np[p] \in kstack /\ np[p] \notin pgdir /\ np[p] \notin heap
    BY <1>4 DEF copyuvm, At, IInv, ForkInv, Forking
  <2>2. /\ Cardinality(kstack \ {np[p]}) = Cardinality(kstack) - 1
        /\ Cardinality(pgdir \cup {np[p]}) = Cardinality(pgdir) + 1
        /\ Cardinality(heap \cup {np[p]}) = Cardinality(heap) + 1
    BY <1>0, <2>1, OnePage
  <2>3. CASE free < sz(p)
    <3>1. kstack' = kstack \ {np[p]} /\ free' = free + 1 /\ UNCHANGED <<pgdir, heap>>
      BY <1>4, <2>3 DEF copyuvm
    <3> QED
      BY <1>0, <1>b, <2>2, <3>1, SMT DEF PagesConserved
  <2>4. CASE ~ (free < sz(p))
    <3>1. /\ pgdir' = pgdir \cup {np[p]} /\ UNCHANGED kstack
          /\ heap' = IF p \in heap THEN heap \cup {np[p]} ELSE heap
          /\ free' = free - sz(p)
      BY <1>4, <2>4 DEF copyuvm
    <3> QED
      BY <1>0, <1>b, <2>2, <3>1, SMT DEF PagesConserved, sz
  <2> QED
    BY <2>3, <2>4
<1>5. ASSUME NEW c \in Cpus, NEW p \in Procs, wait(c, p)
      PROVE  PagesConserved'
  <2>1. ASSUME NEW q \in Procs, WaitReap(c, p, q)
        PROVE  PagesConserved'
    <3>1. q \in kstack /\ q \in pgdir
      BY <2>1 DEF WaitReap, ZombieKids, Kids, IInv, OwnInv
    <3>2. /\ Cardinality(kstack \ {q}) = Cardinality(kstack) - 1
          /\ Cardinality(pgdir \ {q}) = Cardinality(pgdir) - 1
          /\ Cardinality(heap \ {q}) = IF q \in heap THEN Cardinality(heap) - 1
                                       ELSE Cardinality(heap)
      BY <1>0, <3>1, OnePage
    <3>3. /\ kstack' = kstack \ {q} /\ pgdir' = pgdir \ {q} /\ heap' = heap \ {q}
          /\ free' = free + 1 + sz(q)
      BY <2>1 DEF WaitReap
    <3> QED
      BY <1>0, <1>b, <3>2, <3>3, SMT DEF PagesConserved, sz
  <2>2. CASE UNCHANGED memory
    BY <1>1, <2>2
  <2> QED
    BY <1>5, <2>1, <2>2 DEF wait, WaitFails, WaitSleeps
<1>6. ASSUME NEW c \in Cpus, NEW p \in Procs, CpuStep(c, p)
      PROVE  \/ growproc(c, p) \/ alloc_kstack(c, p) \/ copyuvm(c, p) \/ wait(c, p)
             \/ UNCHANGED memory
  BY <1>6 DEF CpuStep, scheduler, yield, trap, fault, sys_exit, allocproc, allocproc_fails,
              fork, exit, kill, sys_sleep, sleep_test, sleep, sleep_relock
<1>7. ASSUME NEW c \in Cpus, NEW p \in Procs, CpuStep(c, p)
      PROVE  PagesConserved'
  BY <1>1, <1>2, <1>3, <1>4, <1>5, <1>6, <1>7
<1>8. CASE tick \/ tick_wakeup
  BY <1>1, <1>8 DEF tick, tick_wakeup
<1>9. CASE UNCHANGED vars
  BY <1>1, <1>9 DEF vars
<1> QED
  BY <1>7, <1>8, <1>9 DEF Next, halt

\* userinit leaves the table as the invariant says.
LEMMA ProcInit == Init => IInv
<1> SUFFICES ASSUME Init
             PROVE  IInv
  OBVIOUS
<1> USE ProcAssumption DEF Init
<1>1. free \in Nat /\ nextpid \in Nat
  BY SMT
<1>2. TypeOK
  BY <1>1 DEF TypeOK
<1>3. RunsOnce
  BY DEF RunsOnce
<1>4. ForkInv /\ OwnInv
  BY DEF ForkInv, Forking, OwnInv
<1>5. FamilyInv /\ PidInv
  BY SMT DEF FamilyInv, ParentLives, Live, PidInv
<1>6. SleepInv
  BY DEF SleepInv, ExitNoticed, TickNoticed
<1>7. Cardinality({initproc}) = 1 /\ Cardinality({}) = 0
  BY FS_Singleton, FS_EmptySet
<1>8. PagesConserved
  BY <1>7, SMT DEF PagesConserved
<1> QED
  BY <1>2, <1>3, <1>4, <1>5, <1>6, <1>8 DEF IInv

\* The invariant is inductive.
LEMMA ProcInvariant == Spec => []IInv
<1>1. IInv /\ [Next]_vars => IInv'
  <2> SUFFICES ASSUME IInv, [Next]_vars
               PROVE  IInv'
    OBVIOUS
  <2>1. TypeOK' /\ RunsOnce' /\ ForkInv' /\ OwnInv'
    BY TypeOKStep, RunsOnceStep, ForkInvStep, OwnInvStep
  <2>2. FamilyInv' /\ SleepInv' /\ PidInv' /\ PagesConserved'
    BY FamilyInvStep, SleepInvStep, PidInvStep, PagesStep
  <2> QED
    BY <2>1, <2>2 DEF IInv
<1> QED
  BY ProcInit, <1>1, PTL DEF Spec

----------------------------------------------------------------------------
\* The process table is type correct: no page is allocated that kalloc does not have.
THEOREM ProcTypeCorrect == Spec => []TypeOK
<1>1. IInv => TypeOK
  BY DEF IInv
<1> QED
  BY ProcInvariant, <1>1, PTL

\* No two schedulers run one process.
THEOREM ProcRunsOnce == Spec => []RunsOnce
<1>1. IInv => RunsOnce
  BY DEF IInv
<1> QED
  BY ProcInvariant, <1>1, PTL

\* exit and fork leave no process without a living parent.
THEOREM ProcParentLives == Spec => []ParentLives
<1>1. IInv => ParentLives
  BY DEF IInv, FamilyInv
<1> QED
  BY ProcInvariant, <1>1, PTL

\* wait() misses no exit and no kill.
THEOREM ProcExitNoticed == Spec => []ExitNoticed
<1>1. IInv => ExitNoticed
  BY DEF IInv, SleepInv
<1> QED
  BY ProcInvariant, <1>1, PTL

\* sys_sleep misses no tick.
THEOREM ProcTickNoticed == Spec => []TickNoticed
<1>1. IInv => TickNoticed
  BY DEF IInv, SleepInv
<1> QED
  BY ProcInvariant, <1>1, PTL

\* fork, sbrk and wait lose no page and free none twice.
THEOREM ProcPagesConserved == Spec => []PagesConserved
<1>1. IInv => PagesConserved
  BY DEF IInv
<1> QED
  BY ProcInvariant, <1>1, PTL

\* allocproc gives no two processes the same pid.
THEOREM ProcPidsDiffer == Spec => []PidsDiffer
<1>1. IInv => PidsDiffer
  BY DEF IInv, PidInv, PidsDiffer, Live
<1> QED
  BY ProcInvariant, <1>1, PTL
=============================================================================
