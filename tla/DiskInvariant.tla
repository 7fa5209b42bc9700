---------------------------- MODULE DiskInvariant ---------------------------
(***************************************************************************)
(* The inductive invariant of Disk: it holds at the start, and the steps   *)
(* of the sleep-locks, of the users of a buffer and of the disk driver     *)
(* keep it.  DiskProofs has the steps of the cache itself, and theorems.   *)
(***************************************************************************)
EXTENDS Disk, FiniteSetTheorems, TLAPS

\* A leaf is left to Zenon where it is pure logic, and cites SMT where it takes
\* arithmetic, records or sequences.
USE Zenon

\* Where a process has the lock of its buffer.
Holding == {"using", "changed", "iderw", "iowait", "iowoken"}

Users(b) == {p \in Procs : cur[p] = b}

BufType == [block : Blocks \cup {None}, valid : BOOLEAN, dirty : BOOLEAN,
            refcnt : Nat, holder : Procs \cup {None}, data : Values]

Types == /\ buf \in [Bufs -> BufType]
         /\ lru \in Seq(Bufs)
         /\ idequeue \in Seq(Bufs)
         /\ cmd \in Cmds
         /\ irq \in BOOLEAN
         /\ disk \in [Blocks -> Values]
         /\ pc \in [Procs -> PCs]
         /\ cur \in [Procs -> Bufs \cup {None}]
         /\ panicked \in BOOLEAN

\* References are counted, and a lock is held by the process that is inside.
LockInv == /\ \A b \in Bufs : \E i \in 1 .. Len(lru) : lru[i] = b
           /\ \A b \in Bufs : buf[b].refcnt = Cardinality(Users(b))
           /\ \A p \in Procs : cur[p] = None <=> pc[p] = "out"
           /\ \A p \in Procs, b \in Bufs :
                buf[b].holder = p <=> cur[p] = b /\ pc[p] \in Holding
           /\ \A p \in Procs : pc[p] = "lkwait" => buf[cur[p]].holder # None

\* A block has one buffer, and the flags say what a holder waits for.
BlockInv == /\ \A a, b \in Bufs : buf[a].block = buf[b].block /\ buf[a].block # None => a = b
            /\ \A p \in Procs : cur[p] # None => buf[cur[p]].block # None
            /\ \A b \in Bufs : /\ buf[b].valid => buf[b].block # None
                               /\ buf[b].dirty => buf[b].valid
            /\ \A p \in Procs : /\ pc[p] \in {"using", "changed"} => buf[cur[p]].valid
                                /\ pc[p] = "iderw" => ~ Done(cur[p])
                                /\ pc[p] = "iowoken" => Done(cur[p])

\* The queue has the buffers whose holders sleep, and the disk its first.
QueueInv == /\ \A i, j \in 1 .. Len(idequeue) : idequeue[i] = idequeue[j] => i = j
            /\ \A i \in 1 .. Len(idequeue) : ~ Done(idequeue[i])
            /\ \A i \in 1 .. Len(idequeue) :
                 \E p \in Procs : pc[p] = "iowait" /\ cur[p] = idequeue[i]
            /\ \A p \in Procs : pc[p] = "iowait" =>
                 \E i \in 1 .. Len(idequeue) : cur[p] = idequeue[i]
            /\ cmd = IF Len(idequeue) = 0 THEN NoCmd ELSE idestart(idequeue[1])
            /\ irq => Len(idequeue) # 0
            /\ irq /\ cmd.op = "write" => disk[cmd.block] = cmd.data

\* A filled buffer that nobody has changed is as its block.
CleanInv == \A b \in Bufs :
  (/\ buf[b].valid /\ ~ buf[b].dirty
   /\ \A p \in Procs : pc[p] = "changed" => cur[p] # b)
    => buf[b].data = disk[buf[b].block]

IInv == Types /\ LockInv /\ BlockInv /\ QueueInv /\ CleanInv

----------------------------------------------------------------------------
\* binit's list has every buffer.
LEMMA ListOfAll == LET s == [i \in Bufs |-> NBUF + 1 - i]
                   IN  s \in Seq(Bufs) /\ \A b \in Bufs : \E i \in 1 .. Len(s) : s[i] = b
<1> DEFINE s == [i \in Bufs |-> NBUF + 1 - i]
<1>1. s \in Seq(Bufs) /\ Len(s) = NBUF
  BY DiskAssumption, SMT DEF Bufs
<1>2. ASSUME NEW b \in Bufs PROVE \E i \in 1 .. NBUF : s[i] = b
  <2>1. NBUF + 1 - b \in 1 .. NBUF /\ s[NBUF + 1 - b] = b
    BY DiskAssumption, SMT DEF Bufs
  <2> QED
    BY <2>1
<1> QED
  BY <1>1, <1>2, SMTT(30)

\* The invariant holds at the start.
LEMMA InitInv == Init => IInv
<1> SUFFICES ASSUME Init PROVE IInv
  OBVIOUS
<1>1. \A b \in Bufs : Cardinality(Users(b)) = 0
  <2> SUFFICES ASSUME NEW b \in Bufs PROVE Cardinality(Users(b)) = 0
    OBVIOUS
  <2>1. Users(b) = {}
    BY DiskAssumption DEF Init, Users
  <2> QED
    BY <2>1, FS_EmptySet
<1>2. Types
  <2>1. (CHOOSE v \in Values : TRUE) \in Values
    BY DiskAssumption
  <2>2. buf \in [Bufs -> BufType]
    BY <2>1 DEF Init, BufType
  <2>3. lru \in Seq(Bufs)
    BY ListOfAll DEF Init
  <2>4. <<>> \in Seq(Bufs)
    BY SMT
  <2>5. pc \in [Procs -> PCs] /\ cur \in [Procs -> Bufs \cup {None}]
    BY DEF Init, PCs
  <2>6. cmd \in Cmds
    BY DEF Init, Cmds
  <2> QED
    BY <2>2, <2>3, <2>4, <2>5, <2>6 DEF Init, Types
<1>3. LockInv
  BY <1>1, ListOfAll, DiskAssumption DEF Init, LockInv, Holding
<1>4. BlockInv
  BY DEF Init, BlockInv
<1>5. QueueInv
  BY SMT DEF Init, QueueInv
<1>6. CleanInv
  BY DEF Init, CleanInv
<1> QED
  BY <1>2, <1>3, <1>4, <1>5, <1>6 DEF IInv

----------------------------------------------------------------------------
\* A panic changes nothing else.
LEMMA PanicInv == IInv /\ Panic => IInv'
<1> SUFFICES ASSUME IInv, Panic PROVE IInv'
  OBVIOUS
<1>1. UNCHANGED <<buf, lru, idequeue, cmd, irq, disk, pc, cur>> /\ panicked' = TRUE
  BY DEF Panic, procs
<1>2. Types'
  BY <1>1 DEF IInv, Types
<1>3. LockInv'
  BY <1>1, SMT DEF IInv, LockInv, Users
<1>4. BlockInv'
  BY <1>1 DEF IInv, BlockInv, Done
<1>5. QueueInv'
  BY <1>1, SMT DEF IInv, QueueInv, Done, idestart
<1>6. CleanInv'
  BY <1>1 DEF IInv, CleanInv
<1> QED
  BY <1>2, <1>3, <1>4, <1>5, <1>6 DEF IInv

\* Buffer c keeps all but its lock and its count.
Same(c) == /\ buf'[c].block = buf[c].block
           /\ buf'[c].valid = buf[c].valid
           /\ buf'[c].dirty = buf[c].dirty
           /\ buf'[c].data = buf[c].data

\* What keeps the queue: nobody joins or leaves it, and its buffers stay.
LEMMA QueueFrame ==
  ASSUME IInv, UNCHANGED <<idequeue, cmd, irq, disk>>,
         \A q \in Procs : /\ pc[q] = "iowait" <=> pc'[q] = "iowait"
                          /\ pc[q] = "iowait" => cur'[q] = cur[q],
         \A i \in 1 .. Len(idequeue) : Same(idequeue[i])
  PROVE  QueueInv'
<1>1. /\ \A i, j \in 1 .. Len(idequeue') : idequeue'[i] = idequeue'[j] => i = j
      /\ \A i \in 1 .. Len(idequeue') : ~ Done(idequeue[i])'
  BY DEF IInv, QueueInv, Done, Same
<1>2. \A i \in 1 .. Len(idequeue') : \E q \in Procs : pc'[q] = "iowait" /\ cur'[q] = idequeue'[i]
  BY SMT DEF IInv, QueueInv
<1>3. \A q \in Procs : pc'[q] = "iowait" => \E i \in 1 .. Len(idequeue') : cur'[q] = idequeue'[i]
  BY SMT DEF IInv, QueueInv
<1>4. cmd' = IF Len(idequeue') = 0 THEN NoCmd ELSE idestart(idequeue[1])'
  <2>1. CASE Len(idequeue) = 0
    BY <2>1 DEF IInv, QueueInv
  <2>2. CASE Len(idequeue) # 0
    <3>1. 1 \in 1 .. Len(idequeue)
      BY <2>2, SMT DEF IInv, Types
    <3> QED
      BY <2>2, <3>1 DEF IInv, QueueInv, idestart, Same
  <2> QED
    BY <2>1, <2>2
<1>5. /\ irq' => Len(idequeue') # 0
      /\ irq' /\ cmd'.op = "write" => disk'[cmd'.block] = cmd'.data
  BY DEF IInv, QueueInv
<1> QED
  BY <1>1, <1>2, <1>3, <1>4, <1>5 DEF QueueInv

\* What keeps the blocks in their buffers.
LEMMA BlockFrame ==
  ASSUME IInv, \A c \in Bufs : Same(c), cur' \in [Procs -> Bufs \cup {None}],
         \A q \in Procs : /\ cur'[q] = cur[q] \/ cur'[q] = None \/ buf[cur'[q]].block # None
                          /\ pc'[q] \in {"using", "changed"} => buf[cur'[q]].valid /\ cur'[q] # None
                          /\ pc'[q] = "iderw" => ~ Done(cur'[q]) /\ cur'[q] # None
                          /\ pc'[q] = "iowoken" => Done(cur'[q]) /\ cur'[q] # None
  PROVE  BlockInv'
<1>1. \A a, b \in Bufs : buf'[a].block = buf'[b].block /\ buf'[a].block # None => a = b
  BY SMT DEF IInv, BlockInv, Same
<1>2. \A q \in Procs : cur'[q] # None => buf'[cur'[q]].block # None
  <2> SUFFICES ASSUME NEW q \in Procs, cur'[q] # None PROVE buf'[cur'[q]].block # None
    OBVIOUS
  <2>1. cur'[q] \in Bufs
    OBVIOUS
  <2>2. buf[cur'[q]].block # None
    BY DEF IInv, BlockInv
  <2> QED
    BY <2>1, <2>2 DEF Same
<1>3. \A b \in Bufs : /\ buf'[b].valid => buf'[b].block # None
                      /\ buf'[b].dirty => buf'[b].valid
  BY SMT DEF IInv, BlockInv, Same
<1>4. \A q \in Procs : /\ pc'[q] \in {"using", "changed"} => buf'[cur'[q]].valid
                       /\ pc'[q] = "iderw" => ~ Done(cur[q])'
                       /\ pc'[q] = "iowoken" => Done(cur[q])'
  BY SMT DEF Done, Same
<1> QED
  BY <1>1, <1>2, <1>3, <1>4 DEF BlockInv

\* What keeps clean buffers as their blocks.
LEMMA CleanFrame ==
  ASSUME IInv, \A c \in Bufs : Same(c), UNCHANGED disk,
         \A q \in Procs : pc[q] = "changed" => pc'[q] = "changed" /\ cur'[q] = cur[q]
  PROVE  CleanInv'
<1> SUFFICES ASSUME NEW b \in Bufs, buf'[b].valid, ~ buf'[b].dirty,
                    \A p \in Procs : pc'[p] = "changed" => cur'[p] # b
             PROVE  buf'[b].data = disk'[buf'[b].block]
  BY DEF CleanInv
<1>1. \A p \in Procs : pc[p] = "changed" => cur[p] # b
  OBVIOUS
<1>2. buf[b].valid /\ ~ buf[b].dirty
  BY DEF Same
<1>3. buf[b].data = disk[buf[b].block]
  BY <1>1, <1>2 DEF IInv, CleanInv
<1> QED
  BY <1>3 DEF Same

\* What keeps the counts.
LEMMA CountFrame ==
  ASSUME IInv, UNCHANGED cur, \A c \in Bufs : buf'[c].refcnt = buf[c].refcnt
  PROVE  \A c \in Bufs : buf'[c].refcnt = Cardinality(Users(c)')
<1>1. \A c \in Bufs : Users(c)' = Users(c)
  BY DEF Users
<1> QED
  BY <1>1, SMT DEF IInv, LockInv

\* acquiresleep keeps the invariant.
LEMMA AcquireInv ==
  ASSUME IInv, NEW p \in Procs, acquiresleep(p)
  PROVE  IInv'
<1> DEFINE b == cur[p]
<1>1. b \in Bufs /\ b # None /\ pc[p] = "lock"
  BY DiskAssumption, SMT DEF IInv, Types, LockInv, acquiresleep
<1>2. /\ UNCHANGED <<lru, idequeue, cmd, irq, disk, cur, panicked>>
      /\ \A q \in Procs : q # p => pc'[q] = pc[q]
  BY DEF IInv, Types, acquiresleep, Goto
<1>0. \A i \in 1 .. Len(idequeue) : idequeue[i] \in Bufs
  BY SMT DEF IInv, Types
<1>3. CASE buf[b].holder = None
  <2> DEFINE r == [buf[b] EXCEPT !.holder = p]
  <2>1. buf' = [buf EXCEPT ![b] = r]
    BY <1>3 DEF acquiresleep
  <2>2. buf[b] \in BufType
    BY <1>1 DEF IInv, Types
  <2>3. /\ r \in BufType /\ r.holder = p /\ r.refcnt = buf[b].refcnt /\ r.block = buf[b].block
        /\ r.valid = buf[b].valid /\ r.dirty = buf[b].dirty /\ r.data = buf[b].data
    BY <2>2 DEF BufType
  <2> HIDE DEF r
  <2>4. /\ buf' \in [Bufs -> BufType] /\ buf'[b] = r
        /\ \A c \in Bufs : c # b => buf'[c] = buf[c]
    BY <1>1, <2>1, <2>3 DEF IInv, Types
  <2>5. \A c \in Bufs : Same(c) /\ buf'[c].refcnt = buf[c].refcnt
    BY <1>1, <2>3, <2>4 DEF Same
  <2>6. pc' \in [Procs -> PCs] /\ pc'[p] = IF buf[b].valid THEN "using" ELSE "iderw"
    BY <1>1, <1>3 DEF IInv, Types, PCs, acquiresleep, Goto, Filled
  <2>7. Types'
    BY <1>2, <2>4, <2>6 DEF IInv, Types
  <2>8. LockInv'
    <3>1. \A c \in Bufs : buf'[c].refcnt = Cardinality(Users(c)')
      BY <1>2, <2>5, CountFrame
    <3>2. \A q \in Procs : cur'[q] = None <=> pc'[q] = "out"
      BY <1>1, <1>2, <2>6, SMT DEF IInv, LockInv
    <3>3. \A q \in Procs, c \in Bufs : buf'[c].holder = q <=> cur'[q] = c /\ pc'[q] \in Holding
      BY <1>1, <1>2, <1>3, <2>3, <2>4, <2>6, DiskAssumption, SMT DEF IInv, LockInv, Holding
    <3>4. \A q \in Procs : pc'[q] = "lkwait" => buf'[cur'[q]].holder # None
      <4> SUFFICES ASSUME NEW q \in Procs, pc'[q] = "lkwait" PROVE buf'[cur'[q]].holder # None
        OBVIOUS
      <4>1. q # p /\ cur[q] \in Bufs
        BY <1>2, <2>6, SMTT(30) DEF IInv, LockInv, Types
      <4> QED
        BY <1>2, <2>3, <2>4, <4>1, DiskAssumption, SMT DEF IInv, LockInv
    <3> QED
      BY <1>2, <3>1, <3>2, <3>3, <3>4, SMT DEF IInv, LockInv
  <2>9. BlockInv'
    <3>1. \A q \in Procs : /\ pc'[q] \in {"using", "changed"} => buf[cur[q]].valid /\ cur[q] # None
                           /\ pc'[q] = "iderw" => ~ Done(cur[q]) /\ cur[q] # None
                           /\ pc'[q] = "iowoken" => Done(cur[q]) /\ cur[q] # None
      BY <1>1, <1>2, <2>6, SMT DEF IInv, LockInv, BlockInv, Done
    <3> QED
      BY <1>2, <2>5, <2>7, <3>1, BlockFrame DEF Types
  <2>10. QueueInv'
    BY <1>0, <1>1, <1>2, <2>5, <2>6, QueueFrame
  <2>11. CleanInv'
    BY <1>1, <1>2, <2>5, CleanFrame
  <2> QED
    BY <2>7, <2>8, <2>9, <2>10, <2>11 DEF IInv
<1>4. CASE buf[b].holder # None
  <2>1. buf' = buf /\ pc' \in [Procs -> PCs] /\ pc'[p] = "lkwait"
    BY <1>1, <1>4 DEF IInv, Types, PCs, acquiresleep, Goto
  <2>2. Types'
    BY <1>2, <2>1 DEF IInv, Types
  <2>3. LockInv'
    <3>1. \A c \in Bufs : buf'[c].refcnt = Cardinality(Users(c)')
      BY <1>2, <2>1, CountFrame
    <3>2. \A q \in Procs : cur'[q] = None <=> pc'[q] = "out"
      BY <1>1, <1>2, <2>1, SMT DEF IInv, LockInv
    <3>3. \A q \in Procs, c \in Bufs : buf'[c].holder = q <=> cur'[q] = c /\ pc'[q] \in Holding
      BY <1>1, <1>2, <2>1, SMT DEF IInv, LockInv, Holding
    <3>4. \A q \in Procs : pc'[q] = "lkwait" => buf'[cur'[q]].holder # None
      BY <1>2, <1>4, <2>1 DEF IInv, LockInv
    <3> QED
      BY <1>2, <3>1, <3>2, <3>3, <3>4, SMT DEF IInv, LockInv
  <2>4. BlockInv'
    <3>1. \A q \in Procs : /\ pc'[q] \in {"using", "changed"} => buf[cur[q]].valid /\ cur[q] # None
                           /\ pc'[q] = "iderw" => ~ Done(cur[q]) /\ cur[q] # None
                           /\ pc'[q] = "iowoken" => Done(cur[q]) /\ cur[q] # None
      BY <1>1, <1>2, <2>1, SMT DEF IInv, LockInv, BlockInv
    <3> QED
      BY <1>2, <2>1, <2>2, <3>1, BlockFrame DEF Types, Same
  <2>5. QueueInv'
    BY <1>0, <1>1, <1>2, <2>1, QueueFrame DEF Same
  <2>6. CleanInv'
    BY <1>1, <1>2, <2>1, SMT DEF IInv, CleanInv
  <2> QED
    BY <2>2, <2>3, <2>4, <2>5, <2>6 DEF IInv
<1> QED
  BY <1>3, <1>4

----------------------------------------------------------------------------
\* What keeps the locks: who is inside stays inside.
LEMMA LockFrame ==
  ASSUME IInv, UNCHANGED <<lru, cur>>,
         \A q \in Procs : /\ pc'[q] \in Holding <=> pc[q] \in Holding
                          /\ pc'[q] = "out" <=> pc[q] = "out"
                          /\ pc'[q] = "lkwait" => pc[q] = "lkwait",
         \A c \in Bufs : buf'[c].holder = buf[c].holder /\ buf'[c].refcnt = buf[c].refcnt
  PROVE  LockInv'
<1>1. \A c \in Bufs : buf'[c].refcnt = Cardinality(Users(c)')
  BY CountFrame
<1>2. \A q \in Procs : cur'[q] = None <=> pc'[q] = "out"
  BY DEF IInv, LockInv
<1>3. \A q \in Procs, c \in Bufs : buf'[c].holder = q <=> cur'[q] = c /\ pc'[q] \in Holding
  BY SMT DEF IInv, LockInv
<1>4. \A q \in Procs : pc'[q] = "lkwait" => buf'[cur'[q]].holder # None
  <2> SUFFICES ASSUME NEW q \in Procs, pc'[q] = "lkwait" PROVE buf'[cur'[q]].holder # None
    OBVIOUS
  <2>1. cur[q] \in Bufs
    BY SMT DEF IInv, LockInv, Types
  <2> QED
    BY <2>1, SMT DEF IInv, LockInv
<1> QED
  BY <1>1, <1>2, <1>3, <1>4, SMT DEF IInv, LockInv

\* As LockFrame, when process p alone moves.
LEMMA InsideFrame ==
  ASSUME IInv, NEW p \in Procs, pc[p] \in Holding, pc'[p] \in Holding,
         \A q \in Procs : q # p => pc'[q] = pc[q],
         UNCHANGED <<lru, cur>>,
         \A c \in Bufs : buf'[c].holder = buf[c].holder /\ buf'[c].refcnt = buf[c].refcnt
  PROVE  LockInv'
<1>1. \A q \in Procs : /\ pc'[q] \in Holding <=> pc[q] \in Holding
                       /\ pc'[q] = "out" <=> pc[q] = "out"
                       /\ pc'[q] = "lkwait" => pc[q] = "lkwait"
  BY DEF Holding
<1> QED
  BY <1>1, LockFrame

\* The holder of a buffer has it, and is not in the queue unless it sleeps.
LEMMA HolderFacts ==
  ASSUME IInv, NEW p \in Procs, pc[p] \in Holding
  PROVE  /\ cur[p] \in Bufs /\ cur[p] # None /\ buf[cur[p]] \in BufType
         /\ buf[cur[p]].holder = p
         /\ pc[p] # "iowait" => \A i \in 1 .. Len(idequeue) : idequeue[i] # cur[p]
         /\ \A q \in Procs : q # p /\ cur[q] = cur[p] => pc[q] \notin Holding
<1>1. cur[p] # None
  BY DEF IInv, LockInv, Holding
<1>2. cur[p] \in Bufs /\ buf[cur[p]] \in BufType
  BY <1>1 DEF IInv, Types
<1>3. buf[cur[p]].holder = p
  BY <1>2 DEF IInv, LockInv
<1>4. \A q \in Procs : q # p /\ cur[q] = cur[p] => pc[q] \notin Holding
  BY <1>2, <1>3 DEF IInv, LockInv
<1>5. ASSUME pc[p] # "iowait", NEW i \in 1 .. Len(idequeue) PROVE idequeue[i] # cur[p]
  <2>1. PICK q \in Procs : pc[q] = "iowait" /\ cur[q] = idequeue[i]
    BY DEF IInv, QueueInv
  <2>2. q # p /\ pc[q] \in Holding
    BY <1>5, <2>1 DEF Holding
  <2> QED
    BY <1>4, <2>1, <2>2
<1> QED
  BY <1>1, <1>2, <1>3, <1>4, <1>5

\* The user of a buffer changes its data or its dirty flag.
LEMMA TouchInv ==
  ASSUME IInv, NEW p \in Procs, pc[p] \in {"using", "changed"},
         NEW r \in BufType, buf' = [buf EXCEPT ![cur[p]] = r],
         r.block = buf[cur[p]].block, r.valid = buf[cur[p]].valid,
         r.holder = buf[cur[p]].holder, r.refcnt = buf[cur[p]].refcnt,
         NEW l \in {"using", "changed", "iderw"}, l = "changed" \/ r.dirty,
         Goto(p, l), UNCHANGED <<lru, idequeue, cmd, irq, disk, cur, panicked>>
  PROVE  IInv'
<1> DEFINE b == cur[p]
<1>1. pc[p] \in Holding /\ l \in Holding
  BY DEF Holding
<1>2. /\ b \in Bufs /\ b # None
      /\ \A i \in 1 .. Len(idequeue) : idequeue[i] # b
      /\ \A q \in Procs : q # p /\ cur[q] = b => pc[q] \notin Holding
  BY <1>1, HolderFacts
<1>3. /\ buf' \in [Bufs -> BufType] /\ buf'[b] = r
      /\ \A c \in Bufs : c # b => buf'[c] = buf[c]
  BY <1>2 DEF IInv, Types
<1>4. pc' \in [Procs -> PCs] /\ pc'[p] = l /\ \A q \in Procs : q # p => pc'[q] = pc[q]
  BY DEF IInv, Types, PCs, Goto
<1>5. buf[b].valid
  BY DEF IInv, BlockInv
<1>6. Types'
  BY <1>3, <1>4 DEF IInv, Types
<1>7. LockInv'
  <2>1. \A c \in Bufs : buf'[c].holder = buf[c].holder /\ buf'[c].refcnt = buf[c].refcnt
    BY <1>2, <1>3
  <2> QED
    BY <1>1, <1>4, <2>1, InsideFrame
<1>8. BlockInv'
  <2>1. \A c \in Bufs : buf'[c].block = buf[c].block /\ buf'[c].valid = buf[c].valid
    BY <1>2, <1>3
  <2>2. \A q \in Procs : cur'[q] # None => buf'[cur'[q]].block # None
    BY <2>1 DEF IInv, Types, BlockInv
  <2>3. \A a, c \in Bufs : buf'[a].block = buf'[c].block /\ buf'[a].block # None => a = c
    BY <2>1, SMT DEF IInv, BlockInv
  <2>4. \A c \in Bufs : /\ buf'[c].valid => buf'[c].block # None
                        /\ buf'[c].dirty => buf'[c].valid
    BY <1>2, <1>3, <1>5, <2>1, SMT DEF IInv, BlockInv
  <2>5. ASSUME NEW q \in Procs
        PROVE  /\ pc'[q] \in {"using", "changed"} => buf'[cur'[q]].valid
               /\ pc'[q] = "iderw" => ~ Done(cur[q])'
               /\ pc'[q] = "iowoken" => Done(cur[q])'
    <3>1. CASE q = p
      BY <1>2, <1>3, <1>4, <1>5, <3>1 DEF Done
    <3>2. CASE q # p /\ pc[q] \in Holding
      <4>1. cur[q] \in Bufs /\ cur[q] # b
        BY <1>2, <3>2, HolderFacts
      <4> QED
        BY <1>3, <1>4, <3>2, <4>1, SMT DEF IInv, BlockInv, Done
    <3>3. CASE q # p /\ pc[q] \notin Holding
      BY <1>4, <3>3 DEF Holding
    <3> QED
      BY <3>1, <3>2, <3>3
  <2> QED
    BY <2>2, <2>3, <2>4, <2>5 DEF BlockInv
<1>9. QueueInv'
  <2>1. \A i \in 1 .. Len(idequeue) : Same(idequeue[i])
    BY <1>2, <1>3, SMT DEF IInv, Types, Same
  <2> QED
    BY <1>4, <2>1, QueueFrame
<1>10. CleanInv'
  <2> SUFFICES ASSUME NEW c \in Bufs, buf'[c].valid, ~ buf'[c].dirty,
                      \A q \in Procs : pc'[q] = "changed" => cur'[q] # c
               PROVE  buf'[c].data = disk'[buf'[c].block]
    BY DEF CleanInv
  <2>1. c # b
    BY <1>3, <1>4
  <2>2. \A q \in Procs : pc[q] = "changed" => cur[q] # c
    BY <1>4, <2>1
  <2>3. buf'[c] = buf[c]
    BY <1>3, <2>1
  <2> QED
    BY <2>2, <2>3 DEF IInv, CleanInv
<1> QED
  BY <1>6, <1>7, <1>8, <1>9, <1>10 DEF IInv

\* The caller's changes, bwrite and log_write keep the invariant.
LEMMA UserInv ==
  ASSUME IInv, NEW p \in Procs,
         bwrite(p) \/ log_write(p) \/ \E v \in Values : change(p, v)
  PROVE  IInv'
<1> DEFINE b == cur[p]
<1>1. pc[p] \in {"using", "changed"} /\ pc[p] \in Holding
  BY DEF bwrite, log_write, change, Holding
<1>2. b \in Bufs /\ buf[b] \in BufType /\ buf[b].holder = p
  BY <1>1, HolderFacts
<1>3. ASSUME NEW v \in Values, change(p, v) PROVE IInv'
  <2> DEFINE r == [buf[b] EXCEPT !.data = v]
  <2>1. r \in BufType /\ r.block = buf[b].block /\ r.valid = buf[b].valid
        /\ r.holder = buf[b].holder /\ r.refcnt = buf[b].refcnt
    BY <1>2 DEF BufType
  <2>2. buf' = [buf EXCEPT ![b] = r] /\ Goto(p, "changed")
        /\ UNCHANGED <<lru, idequeue, cmd, irq, disk, cur, panicked>>
    BY <1>3 DEF change
  <2> HIDE DEF r
  <2> QED
    BY <1>1, <2>1, <2>2, TouchInv
<1>4. ASSUME bwrite(p) \/ log_write(p) PROVE IInv'
  <2> DEFINE r == [buf[b] EXCEPT !.dirty = TRUE]
  <2>1. /\ r \in BufType /\ r.block = buf[b].block /\ r.valid = buf[b].valid
        /\ r.holder = buf[b].holder /\ r.refcnt = buf[b].refcnt /\ r.dirty = TRUE
    BY <1>2 DEF BufType
  <2>2. buf' = [buf EXCEPT ![b] = r] /\ (Goto(p, "iderw") \/ Goto(p, "using"))
        /\ UNCHANGED <<lru, idequeue, cmd, irq, disk, cur, panicked>>
    BY <1>2, <1>4 DEF bwrite, log_write
  <2> HIDE DEF r
  <2>3. CASE Goto(p, "iderw")
    BY <1>1, <2>1, <2>2, <2>3, TouchInv
  <2>4. CASE Goto(p, "using")
    BY <1>1, <2>1, <2>2, <2>4, TouchInv
  <2> QED
    BY <2>2, <2>3, <2>4
<1> QED
  BY <1>3, <1>4

\* releasesleep keeps the invariant: it wakes all who sleep for the lock.
LEMMA ReleaseInv ==
  ASSUME IInv, NEW p \in Procs, releasesleep(p)
  PROVE  IInv'
<1> DEFINE b == cur[p]
           r == [buf[b] EXCEPT !.holder = None]
<1>1. pc[p] = "using" /\ pc[p] \in Holding
  BY DEF releasesleep, Holding
<1>2. /\ b \in Bufs /\ b # None /\ buf[b] \in BufType /\ buf[b].holder = p
      /\ \A q \in Procs : q # p /\ cur[q] = b => pc[q] \notin Holding
  BY <1>1, HolderFacts
<1>3. /\ r \in BufType /\ r.holder = None /\ r.refcnt = buf[b].refcnt /\ r.block = buf[b].block
      /\ r.valid = buf[b].valid /\ r.dirty = buf[b].dirty /\ r.data = buf[b].data
  BY <1>2 DEF BufType
<1>4. /\ buf' = [buf EXCEPT ![b] = r]
      /\ pc' = [Woken(b) EXCEPT ![p] = "brelse"]
      /\ UNCHANGED <<lru, idequeue, cmd, irq, disk, cur, panicked>>
  BY <1>2 DEF releasesleep
<1> HIDE DEF r
<1>5. /\ buf' \in [Bufs -> BufType] /\ buf'[b] = r
      /\ \A c \in Bufs : c # b => buf'[c] = buf[c]
  BY <1>2, <1>3, <1>4 DEF IInv, Types
<1>6. \A c \in Bufs : Same(c) /\ buf'[c].refcnt = buf[c].refcnt
  BY <1>2, <1>3, <1>5 DEF Same
<1>7. /\ pc' \in [Procs -> PCs] /\ pc'[p] = "brelse"
      /\ \A q \in Procs : q # p =>
           pc'[q] = IF pc[q] = "lkwait" /\ cur[q] = b THEN "lock" ELSE pc[q]
  BY <1>4 DEF IInv, Types, PCs, Woken, Wakeup
<1>8. Types'
  BY <1>4, <1>5, <1>7 DEF IInv, Types
<1>9. LockInv'
  <2>1. \A c \in Bufs : buf'[c].refcnt = Cardinality(Users(c)')
    BY <1>4, <1>6, CountFrame
  <2>2. \A q \in Procs : cur'[q] = None <=> pc'[q] = "out"
    BY <1>2, <1>4, <1>7, SMT DEF IInv, LockInv
  <2>3. \A q \in Procs, c \in Bufs : buf'[c].holder = q <=> cur'[q] = c /\ pc'[q] \in Holding
    <3> SUFFICES ASSUME NEW q \in Procs, NEW c \in Bufs
                 PROVE  buf'[c].holder = q <=> cur'[q] = c /\ pc'[q] \in Holding
      OBVIOUS
    <3>0. q # None
      BY DiskAssumption
    <3>1. CASE q = p
      <4>1. pc'[q] \notin Holding
        BY <1>7, <3>1 DEF Holding
      <4>2. buf'[c].holder # q
        BY <1>1, <1>2, <1>3, <1>5, <3>0, <3>1, SMT DEF IInv, LockInv
      <4> QED
        BY <4>1, <4>2
    <3>2. CASE q # p
      <4>1. pc'[q] \in Holding <=> pc[q] \in Holding
        BY <1>7, <3>2 DEF Holding
      <4>2. CASE c = b
        BY <1>2, <1>3, <1>4, <1>5, <3>0, <3>2, <4>1, <4>2
      <4>3. CASE c # b
        BY <1>4, <1>5, <4>1, <4>3, SMT DEF IInv, LockInv
      <4> QED
        BY <4>2, <4>3
    <3> QED
      BY <3>1, <3>2
  <2>4. \A q \in Procs : pc'[q] = "lkwait" => buf'[cur'[q]].holder # None
    <3> SUFFICES ASSUME NEW q \in Procs, pc'[q] = "lkwait" PROVE buf'[cur'[q]].holder # None
      OBVIOUS
    <3>1. q # p /\ pc[q] = "lkwait" /\ cur[q] # b
      BY <1>7
    <3>2. cur[q] \in Bufs
      BY <3>1, SMT DEF IInv, LockInv, Types
    <3> QED
      BY <1>4, <1>5, <3>1, <3>2, SMT DEF IInv, LockInv
  <2> QED
    BY <1>4, <2>1, <2>2, <2>3, <2>4, SMT DEF IInv, LockInv
<1>10. BlockInv'
  <2>1. \A q \in Procs : /\ pc'[q] \in {"using", "changed"} => buf[cur[q]].valid /\ cur[q] # None
                         /\ pc'[q] = "iderw" => ~ Done(cur[q]) /\ cur[q] # None
                         /\ pc'[q] = "iowoken" => Done(cur[q]) /\ cur[q] # None
    BY <1>7, SMT DEF IInv, LockInv, BlockInv
  <2> QED
    BY <1>4, <1>6, <1>8, <2>1, BlockFrame DEF Types
<1>11. QueueInv'
  <2>1. \A i \in 1 .. Len(idequeue) : Same(idequeue[i])
    BY <1>6, SMT DEF IInv, Types
  <2> QED
    BY <1>1, <1>4, <1>7, <2>1, QueueFrame
<1>12. CleanInv'
  BY <1>1, <1>4, <1>6, <1>7, CleanFrame
<1> QED
  BY <1>8, <1>9, <1>10, <1>11, <1>12 DEF IInv

\* A woken process in iderw finds its request done.
LEMMA WokenInv ==
  ASSUME IInv, NEW p \in Procs, iderw_woken(p)
  PROVE  IInv'
<1>1. pc[p] = "iowoken" /\ pc[p] \in Holding
  BY DEF iderw_woken, Holding
<1>2. cur[p] \in Bufs /\ cur[p] # None /\ Done(cur[p])
  BY <1>1, HolderFacts DEF IInv, BlockInv
<1>3. /\ UNCHANGED <<buf, lru, idequeue, cmd, irq, disk, cur, panicked>>
      /\ pc' \in [Procs -> PCs] /\ pc'[p] = "using"
      /\ \A q \in Procs : q # p => pc'[q] = pc[q]
  BY <1>2 DEF iderw_woken, Goto, IInv, Types, PCs
<1>4. Types'
  BY <1>3 DEF IInv, Types
<1>5. \A c \in Bufs : Same(c)
  BY <1>3 DEF Same
<1>6. LockInv'
  <2>1. pc'[p] \in Holding
    BY <1>3 DEF Holding
  <2> QED
    BY <1>1, <1>3, <2>1, InsideFrame
<1>7. BlockInv'
  <2>1. \A q \in Procs : /\ pc'[q] \in {"using", "changed"} => buf[cur[q]].valid /\ cur[q] # None
                         /\ pc'[q] = "iderw" => ~ Done(cur[q]) /\ cur[q] # None
                         /\ pc'[q] = "iowoken" => Done(cur[q]) /\ cur[q] # None
    BY <1>2, <1>3, SMT DEF IInv, LockInv, BlockInv, Done
  <2> QED
    BY <1>3, <1>4, <1>5, <2>1, BlockFrame DEF Types
<1>8. QueueInv'
  <2>1. \A i \in 1 .. Len(idequeue) : Same(idequeue[i])
    BY <1>5, SMT DEF IInv, Types
  <2> QED
    BY <1>1, <1>3, <2>1, QueueFrame
<1>9. CleanInv'
  BY <1>1, <1>3, <1>5, CleanFrame
<1> QED
  BY <1>4, <1>6, <1>7, <1>8, <1>9 DEF IInv

----------------------------------------------------------------------------
\* iderw queues the buffer, and its assertions hold.
LEMMA IderwInv ==
  ASSUME IInv, NEW p \in Procs, iderw(p)
  PROVE  IInv'
<1> DEFINE b == cur[p]
           n == Len(idequeue)
<1>1. pc[p] = "iderw" /\ pc[p] \in Holding
  BY DEF iderw, Holding
<1>2. /\ b \in Bufs /\ b # None /\ buf[b].holder = p /\ ~ Done(b)
      /\ \A i \in 1 .. n : idequeue[i] # b
  BY <1>1, HolderFacts DEF IInv, BlockInv
<1>3. /\ idequeue' = Append(idequeue, b)
      /\ cmd' = IF idequeue = <<>> THEN idestart(b) ELSE cmd
      /\ UNCHANGED <<buf, lru, irq, disk, cur, panicked>>
      /\ Goto(p, "iowait")
  BY <1>2 DEF iderw, Done
<1>4. /\ pc' \in [Procs -> PCs] /\ pc'[p] = "iowait"
      /\ \A q \in Procs : q # p => pc'[q] = pc[q]
  BY <1>3 DEF Goto, IInv, Types, PCs
<1>5. /\ n \in Nat /\ Len(idequeue') = n + 1 /\ idequeue'[n + 1] = b
      /\ idequeue' \in Seq(Bufs)
      /\ \A i \in 1 .. n : idequeue'[i] = idequeue[i]
      /\ idequeue = <<>> <=> n = 0
  BY <1>2, <1>3, SMT DEF IInv, Types
<1>6. idestart(b) \in Cmds
  <2>1. buf[b] \in BufType /\ buf[b].block # None
    BY <1>2 DEF IInv, Types, BlockInv
  <2>2. buf[b].block \in Blocks /\ buf[b].data \in Values
    BY <2>1 DEF BufType
  <2> QED
    BY <2>2 DEF idestart, Cmds
<1>7. Types'
  BY <1>3, <1>4, <1>5, <1>6 DEF IInv, Types
<1>8. LockInv'
  <2>1. pc'[p] \in Holding
    BY <1>4 DEF Holding
  <2> QED
    BY <1>1, <1>3, <1>4, <2>1, InsideFrame
<1>9. BlockInv'
  <2>1. \A q \in Procs : /\ pc'[q] \in {"using", "changed"} => buf[cur[q]].valid /\ cur[q] # None
                         /\ pc'[q] = "iderw" => ~ Done(cur[q]) /\ cur[q] # None
                         /\ pc'[q] = "iowoken" => Done(cur[q]) /\ cur[q] # None
    BY <1>4, SMT DEF IInv, LockInv, BlockInv
  <2> QED
    BY <1>3, <1>7, <2>1, BlockFrame DEF Types, Same
<1>10. QueueInv'
  <2>1. \A i, j \in 1 .. n + 1 : idequeue'[i] = idequeue'[j] => i = j
    <3> SUFFICES ASSUME NEW i \in 1 .. n + 1, NEW j \in 1 .. n + 1, idequeue'[i] = idequeue'[j]
                 PROVE  i = j
      OBVIOUS
    <3>1. (i \in 1 .. n \/ i = n + 1) /\ (j \in 1 .. n \/ j = n + 1)
      BY <1>5, SMT
    <3>2. \A k, l \in 1 .. n : idequeue[k] = idequeue[l] => k = l
      BY DEF IInv, QueueInv
    <3> QED
      BY <1>2, <1>5, <3>1, <3>2
  <2>2. \A i \in 1 .. n + 1 : ~ Done(idequeue[i])'
    <3> SUFFICES ASSUME NEW i \in 1 .. n + 1 PROVE ~ Done(idequeue[i])'
      OBVIOUS
    <3>1. i \in 1 .. n \/ i = n + 1
      BY <1>5, SMT
    <3> QED
      BY <1>2, <1>3, <1>5, <3>1, SMT DEF IInv, QueueInv, Done
  <2>3. \A i \in 1 .. n + 1 : \E q \in Procs : pc'[q] = "iowait" /\ cur'[q] = idequeue'[i]
    <3> SUFFICES ASSUME NEW i \in 1 .. n + 1
                 PROVE  \E q \in Procs : pc'[q] = "iowait" /\ cur'[q] = idequeue'[i]
      OBVIOUS
    <3>1. CASE i \in 1 .. n
      <4>1. PICK q \in Procs : pc[q] = "iowait" /\ cur[q] = idequeue[i]
        BY <3>1 DEF IInv, QueueInv
      <4> QED
        BY <1>1, <1>3, <1>4, <1>5, <3>1, <4>1
    <3>2. CASE i = n + 1
      BY <1>3, <1>4, <1>5, <3>2
    <3> QED
      BY <1>5, <3>1, <3>2, SMT
  <2>4. \A q \in Procs : pc'[q] = "iowait" => \E i \in 1 .. n + 1 : cur'[q] = idequeue'[i]
    <3> SUFFICES ASSUME NEW q \in Procs, pc'[q] = "iowait"
                 PROVE  \E i \in 1 .. n + 1 : cur'[q] = idequeue'[i]
      OBVIOUS
    <3>1. CASE q = p
      <4>1. n + 1 \in 1 .. n + 1
        BY <1>5, SMT
      <4> QED
        BY <1>3, <1>5, <3>1, <4>1
    <3>2. CASE q # p
      <4>1. PICK i \in 1 .. n : cur[q] = idequeue[i]
        BY <1>4, <3>2, SMT DEF IInv, QueueInv
      <4>2. i \in 1 .. n + 1
        BY <1>5, SMT
      <4> QED
        BY <1>3, <1>5, <4>1, <4>2
    <3> QED
      BY <3>1, <3>2
  <2>5. cmd' = idestart(idequeue[1])'
    <3>1. CASE n = 0
      <4>1. idequeue'[1] = b
        BY <1>5, <3>1, SMT
      <4> QED
        BY <1>3, <1>5, <3>1, <4>1 DEF idestart
    <3>2. CASE n # 0
      <4>1. 1 \in 1 .. n
        BY <1>5, <3>2, SMT
      <4>2. cmd' = cmd /\ cmd = idestart(idequeue[1])
        BY <1>3, <1>5, <3>2 DEF IInv, QueueInv
      <4> QED
        BY <1>3, <1>5, <4>1, <4>2 DEF idestart
    <3> QED
      BY <3>1, <3>2
  <2>6. irq' /\ cmd'.op = "write" => disk'[cmd'.block] = cmd'.data
    BY <1>3, <1>5 DEF IInv, QueueInv
  <2>7. n + 1 # 0
    BY <1>5, SMT
  <2> QED
    BY <1>5, <2>1, <2>2, <2>3, <2>4, <2>5, <2>6, <2>7 DEF QueueInv
<1>11. CleanInv'
  BY <1>1, <1>3, <1>4, CleanFrame DEF Same
<1> QED
  BY <1>7, <1>8, <1>9, <1>10, <1>11 DEF IInv

\* The controller writes the block of a buffer that stays dirty until the
\* interrupt is handled.
LEMMA DeviceInv == IInv /\ device => IInv'
<1> SUFFICES ASSUME IInv, device PROVE IInv'
  OBVIOUS
<1> DEFINE b == idequeue[1]
<1>1. /\ cmd # NoCmd /\ irq' = TRUE
      /\ UNCHANGED <<buf, lru, idequeue, cmd, pc, cur, panicked>>
      /\ disk' = IF cmd.op = "write" THEN [disk EXCEPT ![cmd.block] = cmd.data] ELSE disk
  BY DEF device, procs
<1>2. Len(idequeue) # 0 /\ cmd = idestart(b)
  BY <1>1 DEF IInv, QueueInv
<1>3. b \in Bufs /\ ~ Done(b)
  <2>1. 1 \in 1 .. Len(idequeue)
    BY <1>2, SMT DEF IInv, Types
  <2> QED
    BY <2>1, SMT DEF IInv, Types, QueueInv
<1>4. cmd.block \in Blocks /\ cmd.data \in Values /\ cmd.block = buf[b].block
  <2>1. cmd \in [op : {"read", "write"}, block : Blocks, data : Values]
    BY <1>1 DEF IInv, Types, Cmds
  <2> QED
    BY <1>2, <2>1 DEF idestart
<1>5. disk' \in [Blocks -> Values]
  BY <1>1, <1>4 DEF IInv, Types
<1>6. Types'
  BY <1>1, <1>5 DEF IInv, Types
<1>7. LockInv'
  BY <1>1, LockFrame
<1>8. BlockInv'
  BY <1>1 DEF IInv, BlockInv, Done
<1>9. QueueInv'
  <2>1. cmd.op = "write" => disk'[cmd.block] = cmd.data
    BY <1>1, <1>4 DEF IInv, Types
  <2> QED
    BY <1>1, <1>2, <2>1, SMT DEF IInv, QueueInv, Done, idestart
<1>10. CleanInv'
  <2> SUFFICES ASSUME NEW c \in Bufs, buf[c].valid, ~ buf[c].dirty,
                      \A q \in Procs : pc[q] = "changed" => cur[q] # c
               PROVE  buf[c].data = disk'[buf[c].block]
    BY <1>1 DEF CleanInv
  <2>1. buf[c].data = disk[buf[c].block] /\ buf[c].block # None /\ c # b
    BY <1>3 DEF IInv, CleanInv, BlockInv, Done
  <2>2. buf[c].block # cmd.block
    BY <1>3, <1>4, <2>1 DEF IInv, BlockInv
  <2> QED
    BY <1>1, <1>4, <2>1, <2>2, SMT DEF IInv, Types
<1> QED
  BY <1>6, <1>7, <1>8, <1>9, <1>10 DEF IInv

\* What is left of a queue whose first element is taken.
LEMMA TailFacts ==
  ASSUME NEW S, NEW s \in Seq(S), Len(s) # 0
  PROVE  /\ Len(s) = 1 => Tail(s) = <<>> /\ Len(Tail(s)) = 0
         /\ Len(s) # 1 => /\ Tail(s) # <<>> /\ Len(Tail(s)) # 0
                          /\ Head(Tail(s)) = s[2] /\ Tail(s)[1] = s[2]
                          /\ 2 \in 1 .. Len(s) /\ 1 \in 1 .. Len(Tail(s))
<1>1. /\ Len(s) \in Nat /\ Tail(s) \in Seq(S) /\ Len(Tail(s)) = Len(s) - 1
      /\ \A i \in 1 .. Len(s) - 1 : Tail(s)[i] = s[i + 1]
  BY SMT
<1>0. \A t \in Seq(S) : t = <<>> <=> Len(t) = 0
  BY SMT
<1>2. CASE Len(s) = 1
  <2>1. Len(Tail(s)) = 0
    BY <1>1, <1>2, SMT
  <2> QED
    BY <1>0, <1>1, <1>2, <2>1
<1>3. CASE Len(s) # 1
  <2>1. 1 \in 1 .. Len(s) - 1 /\ 2 \in 1 .. Len(s)
    BY <1>1, <1>3, SMT
  <2>2. Tail(s)[1] = s[2]
    BY <1>1, <2>1, SMT
  <2>3. Len(Tail(s)) # 0 /\ 1 \in 1 .. Len(Tail(s))
    BY <1>1, <2>1, SMT
  <2>4. Tail(s) # <<>>
    BY <1>0, <1>1, <2>3, SMTT(30)
  <2> QED
    BY <1>1, <1>3, <2>1, <2>2, <2>3, <2>4, SMT
<1> QED
  BY <1>2, <1>3

\* ideintr finishes the first request of the queue and starts the next.
LEMMA IntrInv == IInv /\ ideintr => IInv'
<1> SUFFICES ASSUME IInv, ideintr PROVE IInv'
  OBVIOUS
<1> DEFINE b == idequeue[1]
           n == Len(idequeue)
           d == IF buf[b].dirty THEN buf[b].data ELSE disk[cmd.block]
           r == [buf[b] EXCEPT !.valid = TRUE, !.dirty = FALSE, !.data = d]
<1>1. n \in Nat /\ n # 0 /\ 1 \in 1 .. n /\ Head(idequeue) = b /\ irq /\ cmd = idestart(b)
  BY SMT DEF ideintr, IInv, Types, QueueInv
<1>2. b \in Bufs /\ ~ Done(b) /\ buf[b] \in BufType
  BY <1>1, SMT DEF IInv, Types, QueueInv
<1>3. PICK p \in Procs : pc[p] = "iowait" /\ cur[p] = b
  BY <1>1 DEF IInv, QueueInv
<1>4. /\ pc[p] \in Holding /\ buf[b].block # None
      /\ \A q \in Procs : q # p /\ cur[q] = b => pc[q] \notin Holding
  <2>1. pc[p] \in Holding
    BY <1>3 DEF Holding
  <2>2. buf[b].block # None
    BY <1>2, <1>3, DiskAssumption DEF IInv, BlockInv
  <2> QED
    BY <1>3, <2>1, <2>2, HolderFacts
<1>5. buf[b].block \in Blocks /\ cmd.block = buf[b].block /\ d \in Values
      /\ d = disk[buf[b].block]
  <2>1. buf[b].block \in Blocks /\ cmd.block = buf[b].block /\ cmd.data = buf[b].data
    BY <1>1, <1>2, <1>4 DEF BufType, idestart
  <2>2. d = disk[buf[b].block]
    <3>1. CASE buf[b].dirty
      <4>1. cmd.op = "write"
        BY <1>1, <3>1 DEF idestart
      <4> QED
        BY <1>1, <2>1, <3>1, <4>1 DEF IInv, QueueInv
    <3>2. CASE ~ buf[b].dirty
      BY <2>1, <3>2
    <3> QED
      BY <3>1, <3>2
  <2> QED
    BY <2>1, <2>2 DEF IInv, Types
<1>6. /\ r \in BufType /\ r.block = buf[b].block /\ r.valid = TRUE /\ r.dirty = FALSE
      /\ r.holder = buf[b].holder /\ r.refcnt = buf[b].refcnt /\ r.data = d
  BY <1>2, <1>5 DEF BufType
<1>7. /\ buf' = [buf EXCEPT ![b] = r]
      /\ irq' = FALSE /\ idequeue' = Tail(idequeue)
      /\ pc' = Wakeup(b, "iowait", "iowoken")
      /\ cmd' = Restart(Tail(idequeue))
      /\ UNCHANGED <<lru, disk, cur, panicked>>
  BY <1>1 DEF ideintr
<1> HIDE DEF r, d
<1>8. /\ buf' \in [Bufs -> BufType] /\ buf'[b] = r
      /\ \A c \in Bufs : c # b => buf'[c] = buf[c]
  BY <1>2, <1>6, <1>7 DEF IInv, Types
<1>9. /\ pc' \in [Procs -> PCs]
      /\ \A q \in Procs : pc'[q] = IF pc[q] = "iowait" /\ cur[q] = b THEN "iowoken" ELSE pc[q]
  BY <1>7 DEF Wakeup, IInv, Types, PCs
<1>10. /\ idequeue' \in Seq(Bufs) /\ Len(idequeue') = n - 1
       /\ \A i \in 1 .. n - 1 : i + 1 \in 1 .. n /\ idequeue'[i] = idequeue[i + 1]
       /\ \A i \in 1 .. n - 1 : idequeue'[i] # b /\ idequeue'[i] \in Bufs
  <2>1. idequeue' \in Seq(Bufs) /\ Len(idequeue') = n - 1
    BY <1>1, <1>7, SMT DEF IInv, Types
  <2>2. \A i \in 1 .. n - 1 : i + 1 \in 1 .. n /\ idequeue'[i] = idequeue[i + 1] /\ i + 1 # 1
    BY <1>1, <1>7, SMT DEF IInv, Types
  <2>3. \A i \in 1 .. n - 1 : idequeue'[i] # b
    BY <1>1, <2>2, SMT DEF IInv, QueueInv
  <2> QED
    BY <2>1, <2>2, <2>3, SMT
<1>11. cmd' = IF Len(idequeue') = 0 THEN NoCmd ELSE idestart(idequeue[1])'
  <2>1. CASE n = 1
    <3>1. Tail(idequeue) = <<>>
      BY <1>1, <2>1, TailFacts DEF IInv, Types
    <3> QED
      BY <1>7, <1>10, <2>1, <3>1 DEF Restart
  <2>2. CASE n # 1
    <3>1. idequeue \in Seq(Bufs)
      BY DEF IInv, Types
    <3>2. 1 \in 1 .. n - 1 /\ n - 1 # 0
      BY <1>1, <1>7, <1>10, <2>2, <3>1, TailFacts
    <3>3. Tail(idequeue) # <<>> /\ Head(Tail(idequeue)) = idequeue'[1]
      BY <1>1, <1>7, <2>2, <3>1, TailFacts
    <3>4. buf'[idequeue'[1]] = buf[idequeue'[1]]
      BY <1>8, <1>10, <3>2
    <3> QED
      BY <1>7, <1>10, <3>2, <3>3, <3>4 DEF Restart, idestart
  <2> QED
    BY <2>1, <2>2
<1>12. Types'
  <2>1. cmd' \in Cmds
    <3>1. CASE n = 1
      BY <1>10, <1>11, <3>1, SMT DEF Cmds
    <3>2. CASE n # 1
      <4> DEFINE c == idequeue'[1]
      <4>0. idequeue \in Seq(Bufs)
        BY DEF IInv, Types
      <4>1. 1 \in 1 .. n - 1 /\ n - 1 # 0
        BY <1>1, <1>7, <1>10, <3>2, <4>0, TailFacts
      <4>2. c \in Bufs /\ buf'[c] = buf[c] /\ c = idequeue[2] /\ 2 \in 1 .. n
        BY <1>1, <1>8, <1>10, <4>1, SMT
      <4>3. PICK q \in Procs : cur[q] = c
        BY <4>2, SMT DEF IInv, QueueInv
      <4>4. buf[c].block # None
        BY <4>2, <4>3, DiskAssumption DEF IInv, BlockInv
      <4>5. buf'[c].block \in Blocks /\ buf'[c].data \in Values
        BY <4>2, <4>4 DEF IInv, Types, BufType
      <4> QED
        BY <1>10, <1>11, <4>1, <4>5 DEF Cmds, idestart
    <3> QED
      BY <3>1, <3>2
  <2> QED
    BY <1>7, <1>8, <1>9, <1>10, <2>1 DEF IInv, Types
<1>13. LockInv'
  <2>1. \A c \in Bufs : buf'[c].holder = buf[c].holder /\ buf'[c].refcnt = buf[c].refcnt
    BY <1>2, <1>6, <1>8
  <2>2. \A q \in Procs : /\ pc'[q] \in Holding <=> pc[q] \in Holding
                         /\ pc'[q] = "out" <=> pc[q] = "out"
                         /\ pc'[q] = "lkwait" => pc[q] = "lkwait"
    BY <1>9 DEF Holding
  <2> QED
    BY <1>7, <2>1, <2>2, LockFrame
<1>14. BlockInv'
  <2>1. \A c \in Bufs : buf'[c].block = buf[c].block
    BY <1>2, <1>6, <1>8
  <2>2. \A a, c \in Bufs : buf'[a].block = buf'[c].block /\ buf'[a].block # None => a = c
    <3>1. \A a, c \in Bufs : buf[a].block = buf[c].block /\ buf[a].block # None => a = c
      BY DEF IInv, BlockInv
    <3> QED
      BY <2>1, <3>1
  <2>3. \A q \in Procs : cur'[q] # None => buf'[cur'[q]].block # None
    BY <1>7, <2>1, SMT DEF IInv, Types, BlockInv
  <2>4. \A c \in Bufs : /\ buf'[c].valid => buf'[c].block # None
                        /\ buf'[c].dirty => buf'[c].valid
    BY <1>4, <1>6, <1>8, <2>1, SMT DEF IInv, BlockInv
  <2>5. ASSUME NEW q \in Procs
        PROVE  /\ pc'[q] \in {"using", "changed"} => buf'[cur'[q]].valid
               /\ pc'[q] = "iderw" => ~ Done(cur[q])'
               /\ pc'[q] = "iowoken" => Done(cur[q])'
    <3>1. CASE cur[q] = b
      <4>1. q # p => pc'[q] \notin Holding
        BY <1>4, <1>9, <3>1 DEF Holding
      <4>2. q = p => pc'[q] = "iowoken"
        BY <1>3, <1>9
      <4> QED
        BY <1>2, <1>6, <1>7, <1>8, <3>1, <4>1, <4>2 DEF Done, Holding
    <3>2. CASE cur[q] # b /\ pc[q] \in Holding
      <4>1. cur[q] \in Bufs
        BY <3>2, HolderFacts
      <4> QED
        BY <1>7, <1>8, <1>9, <3>2, <4>1, SMT DEF IInv, BlockInv, Done
    <3>3. CASE cur[q] # b /\ pc[q] \notin Holding
      BY <1>9, <3>3 DEF Holding
    <3> QED
      BY <3>1, <3>2, <3>3
  <2> QED
    BY <2>2, <2>3, <2>4, <2>5 DEF BlockInv
<1>15. QueueInv'
  <2>1. \A i, j \in 1 .. n - 1 : idequeue'[i] = idequeue'[j] => i = j
    <3> SUFFICES ASSUME NEW i \in 1 .. n - 1, NEW j \in 1 .. n - 1, idequeue'[i] = idequeue'[j]
                 PROVE  i = j
      OBVIOUS
    <3>1. idequeue[i + 1] = idequeue[j + 1] /\ i + 1 \in 1 .. n /\ j + 1 \in 1 .. n
      BY <1>1, <1>10, SMT
    <3>2. i + 1 = j + 1
      BY <3>1 DEF IInv, QueueInv
    <3> QED
      BY <1>1, <3>2, SMT
  <2>2. \A i \in 1 .. n - 1 : ~ Done(idequeue[i])'
    BY <1>8, <1>10, SMTT(30) DEF IInv, QueueInv, Done
  <2>3. \A i \in 1 .. n - 1 : \E q \in Procs : pc'[q] = "iowait" /\ cur'[q] = idequeue'[i]
    <3> SUFFICES ASSUME NEW i \in 1 .. n - 1
                 PROVE  \E q \in Procs : pc'[q] = "iowait" /\ cur'[q] = idequeue'[i]
      OBVIOUS
    <3>1. PICK q \in Procs : pc[q] = "iowait" /\ cur[q] = idequeue[i + 1]
      BY <1>10 DEF IInv, QueueInv
    <3> QED
      BY <1>7, <1>9, <1>10, <3>1, SMT
  <2>4. \A q \in Procs : pc'[q] = "iowait" => \E i \in 1 .. n - 1 : cur'[q] = idequeue'[i]
    <3> SUFFICES ASSUME NEW q \in Procs, pc'[q] = "iowait"
                 PROVE  \E i \in 1 .. n - 1 : cur'[q] = idequeue'[i]
      OBVIOUS
    <3>1. pc[q] = "iowait" /\ cur[q] # b
      BY <1>9
    <3>2. PICK i \in 1 .. n : cur[q] = idequeue[i]
      BY <3>1 DEF IInv, QueueInv
    <3>3. i - 1 \in 1 .. n - 1 /\ (i - 1) + 1 = i
      BY <1>1, <3>1, <3>2, SMT
    <3> QED
      BY <1>7, <1>10, <3>2, <3>3
  <2>5. irq' = FALSE
    BY <1>7
  <2> QED
    BY <1>10, <1>11, <2>1, <2>2, <2>3, <2>4, <2>5 DEF QueueInv
<1>16. CleanInv'
  <2> SUFFICES ASSUME NEW c \in Bufs, buf'[c].valid, ~ buf'[c].dirty,
                      \A q \in Procs : pc'[q] = "changed" => cur'[q] # c
               PROVE  buf'[c].data = disk'[buf'[c].block]
    BY DEF CleanInv
  <2>1. CASE c = b
    BY <1>5, <1>6, <1>7, <1>8, <2>1
  <2>2. CASE c # b
    <3>1. \A q \in Procs : pc[q] = "changed" => cur[q] # c
      BY <1>7, <1>9
    <3>2. buf'[c] = buf[c]
      BY <1>8, <2>2
    <3> QED
      BY <1>7, <3>1, <3>2 DEF IInv, CleanInv
  <2> QED
    BY <2>1, <2>2
<1> QED
  BY <1>12, <1>13, <1>14, <1>15, <1>16 DEF IInv
=============================================================================
