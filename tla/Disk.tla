-------------------------------- MODULE Disk --------------------------------
(***************************************************************************)
(* The buffer cache of bio.c over the IDE driver of ide.c, with the sleep- *)
(* locks of sleeplock.c that its buffers carry.  A process reads a block,  *)
(* may change it and write it through (bwrite) or leave it dirty for the   *)
(* log (log_write), and releases it.  One that has two buffers at a time   *)
(* (install_trans, write_log, bmap under readi and writei, itrunc) is two  *)
(* members of Procs, one for each: what the two do in whatever order       *)
(* includes what the process does.                                         *)
(*                                                                         *)
(* Sections under bcache.lock, idelock and a sleep-lock's spinlock are one *)
(* step each.  A process that sleeps on the disk or on a lock is at        *)
(* "iowait" or "lkwait" until a wakeup on that channel.                    *)
(***************************************************************************)
EXTENDS Naturals, Sequences, FiniteSets

CONSTANTS
  Procs,       \* the processes, each once for every buffer it has at a time
  Blocks,      \* the blocks of the disk
  Values,      \* the contents of a block
  NBUF,        \* the number of buffers
  None,        \* no block (dev 0, which no caller names), no process
  MaxPinned    \* bound: buffers that the log keeps dirty at a time

\* bcache.buf
Bufs == 1 .. NBUF

ASSUME DiskAssumption == /\ IsFiniteSet(Procs) /\ NBUF \in Nat
                         /\ None \notin Procs \cup Blocks \cup Bufs
                         /\ Values # {}

VARIABLES
  buf,         \* struct buf, with the holder of its sleep-lock as `holder'
  lru,         \* bcache.head.next, ..., bcache.head.prev
  idequeue,    \* the buffers queued for the disk, the active one first
  cmd, irq,    \* the controller: the command in progress, its interrupt raised
  disk,        \* the blocks on disk
  pc, cur,     \* each process: where it is, and the buffer it has
  panicked

procs == <<pc, cur>>
vars == <<buf, lru, idequeue, cmd, irq, disk, procs, panicked>>

NoCmd == [op |-> "none", block |-> None, data |-> None]

Cmds == {NoCmd} \cup [op : {"read", "write"}, block : Blocks, data : Values]

\* binit: all buffers free, none for a block of the disk, the last one of the
\* array first in the list; nobody queued.
Init == /\ disk \in [Blocks -> Values]
        /\ buf = [b \in Bufs |-> [block |-> None, valid |-> FALSE, dirty |-> FALSE,
                                  refcnt |-> 0, holder |-> None,
                                  data |-> CHOOSE v \in Values : TRUE]]
        /\ lru = [i \in Bufs |-> NBUF + 1 - i]
        /\ idequeue = <<>>
        /\ cmd = NoCmd
        /\ irq = FALSE
        /\ pc = [p \in Procs |-> "out"]
        /\ cur = [p \in Procs |-> None]
        /\ panicked = FALSE

\* panic() stops the machine.
Panic == panicked' = TRUE /\ UNCHANGED <<buf, lru, idequeue, cmd, irq, disk, procs>>

\* Process p moves to l.
Goto(p, l) == pc' = [pc EXCEPT ![p] = l]

\* wakeup(): the processes asleep at l over buffer b go to l2.
Wakeup(b, l, l2) == [q \in Procs |-> IF pc[q] = l /\ cur[q] = b THEN l2 ELSE pc[q]]

----------------------------------------------------------------------------
\* Mutant of Recyclable: a dirty buffer is free too.
RecyclableDirty(b) == buf[b].refcnt = 0

Recyclable(b) == buf[b].refcnt = 0 /\ ~ buf[b].dirty

\* bget, up to the release of bcache.lock: the buffer of block k, or the
\* least recently used one that can be recycled, or a panic.
bget(p, k) ==
  LET cached == {i \in 1 .. Len(lru) : buf[lru[i]].block = k}
      free == {i \in 1 .. Len(lru) : Recyclable(lru[i])}
      Get(b) == /\ cur' = [cur EXCEPT ![p] = b]
                /\ Goto(p, "lock")
                /\ UNCHANGED <<lru, idequeue, cmd, irq, disk, panicked>>
  IN  /\ pc[p] = "out"
      /\ \/ \E i \in cached :
              /\ \A j \in cached : i <= j
              /\ buf' = [buf EXCEPT ![lru[i]].refcnt = @ + 1]
              /\ Get(lru[i])
         \/ \E i \in free :
              /\ cached = {}
              /\ \A j \in free : j <= i
              /\ buf' = [buf EXCEPT ![lru[i]].block = k, ![lru[i]].valid = FALSE,
                                    ![lru[i]].dirty = FALSE, ![lru[i]].refcnt = 1]
              /\ Get(lru[i])
         \/ cached = {} /\ free = {} /\ Panic

\* Mutant of Filled: bread does not look at B_VALID.
FilledAlways(b) == TRUE

Filled(b) == buf[b].valid

\* One pass of the loop of acquiresleep and, with the lock, bread's test.
acquiresleep(p) ==
  LET b == cur[p]
  IN  /\ pc[p] = "lock"
      /\ IF buf[b].holder = None
         THEN /\ buf' = [buf EXCEPT ![b].holder = p]
              /\ Goto(p, IF Filled(b) THEN "using" ELSE "iderw")
         ELSE /\ Goto(p, "lkwait")
              /\ UNCHANGED buf
      /\ UNCHANGED <<lru, idequeue, cmd, irq, disk, cur, panicked>>

\* The caller changes the data of its buffer.
change(p, v) == /\ pc[p] = "using"
                /\ buf' = [buf EXCEPT ![cur[p]].data = v]
                /\ Goto(p, "changed")
                /\ UNCHANGED <<lru, idequeue, cmd, irq, disk, cur, panicked>>

bwrite(p) == /\ pc[p] \in {"using", "changed"}
             /\ IF buf[cur[p]].holder # p
                THEN Panic
                ELSE /\ buf' = [buf EXCEPT ![cur[p]].dirty = TRUE]
                     /\ Goto(p, "iderw")
                     /\ UNCHANGED <<lru, idequeue, cmd, irq, disk, cur, panicked>>

\* log_write leaves the buffer dirty; the log bounds how many there are.
log_write(p) == /\ pc[p] = "changed"
                /\ Cardinality({b \in Bufs \ {cur[p]} : buf[b].dirty}) < MaxPinned
                /\ buf' = [buf EXCEPT ![cur[p]].dirty = TRUE]
                /\ Goto(p, "using")
                /\ UNCHANGED <<lru, idequeue, cmd, irq, disk, cur, panicked>>

\* The sleepers on the lock of buffer b, after wakeup(lk).
Woken(b) == Wakeup(b, "lkwait", "lock")

\* The i-th of list s moves to its head.
MoveToFront(s, i) == [j \in 1 .. Len(s) |->
                        IF j = 1 THEN s[i] ELSE IF j <= i THEN s[j - 1] ELSE s[j]]

\* brelse up to releasesleep, then what it does under bcache.lock.
releasesleep(p) ==
  /\ pc[p] = "using"
  /\ IF buf[cur[p]].holder # p
     THEN Panic
     ELSE /\ buf' = [buf EXCEPT ![cur[p]].holder = None]
          /\ pc' = [Woken(cur[p]) EXCEPT ![p] = "brelse"]
          /\ UNCHANGED <<lru, idequeue, cmd, irq, disk, cur, panicked>>

brelse(p) ==
  LET b == cur[p]
  IN  /\ pc[p] = "brelse"
      /\ buf' = [buf EXCEPT ![b].refcnt = @ - 1]
      /\ \E i \in 1 .. Len(lru) :
           /\ lru[i] = b
           /\ lru' = IF buf[b].refcnt = 1 THEN MoveToFront(lru, i) ELSE lru
      /\ cur' = [cur EXCEPT ![p] = None]
      /\ Goto(p, "out")
      /\ UNCHANGED <<idequeue, cmd, irq, disk, panicked>>

----------------------------------------------------------------------------
\* The command that idestart gives the controller for buffer b.
idestart(b) == [op |-> IF buf[b].dirty THEN "write" ELSE "read",
                block |-> buf[b].block, data |-> buf[b].data]

Done(b) == buf[b].valid /\ ~ buf[b].dirty

\* iderw: queue the buffer, start the disk if it is idle, and sleep: the
\* assertions leave no buffer that need not wait.
iderw(p) ==
  LET b == cur[p]
  IN  /\ pc[p] = "iderw"
      /\ IF buf[b].holder # p \/ (buf[b].valid /\ ~ buf[b].dirty)
         THEN Panic
         ELSE /\ idequeue' = Append(idequeue, b)
              /\ cmd' = IF idequeue = <<>> THEN idestart(b) ELSE cmd
              /\ Goto(p, IF Done(b) THEN "using" ELSE "iowait")
              /\ UNCHANGED <<buf, lru, irq, disk, cur, panicked>>

\* The loop of iderw after a wakeup.
iderw_woken(p) == /\ pc[p] = "iowoken"
                  /\ Goto(p, IF Done(cur[p]) THEN "using" ELSE "iowait")
                  /\ UNCHANGED <<buf, lru, idequeue, cmd, irq, disk, cur, panicked>>

\* The controller carries out the command and raises its interrupt.
device == /\ cmd # NoCmd /\ ~ irq
          /\ irq' = TRUE
          /\ disk' = IF cmd.op = "write" THEN [disk EXCEPT ![cmd.block] = cmd.data] ELSE disk
          /\ UNCHANGED <<buf, lru, idequeue, cmd, procs, panicked>>

\* Mutant of Restart: the next request in the queue is not started.
RestartNone(q) == NoCmd

\* The command after the active request is done: the next one, if any.
Restart(q) == IF q = <<>> THEN NoCmd ELSE idestart(Head(q))

\* ideintr: take the active request (the controller interrupts for nothing
\* else, so there is one), read its data, wake its process, start the next.
ideintr ==
  LET b == Head(idequeue)
  IN  /\ irq
      /\ irq' = FALSE
      /\ idequeue' = Tail(idequeue)
      /\ buf' = [buf EXCEPT ![b].valid = TRUE, ![b].dirty = FALSE,
                            ![b].data = IF buf[b].dirty THEN @ ELSE disk[cmd.block]]
      /\ pc' = Wakeup(b, "iowait", "iowoken")
      /\ cmd' = Restart(Tail(idequeue))
      /\ UNCHANGED <<lru, disk, cur, panicked>>

Step(p) == \/ acquiresleep(p)
           \/ bwrite(p)
           \/ log_write(p)
           \/ releasesleep(p)
           \/ brelse(p)
           \/ iderw(p)
           \/ iderw_woken(p)
           \/ \E k \in Blocks : bget(p, k)
           \/ \E v \in Values : change(p, v)

\* panic() loops for ever.
halt == panicked /\ UNCHANGED vars

Next == \/ /\ ~ panicked
           /\ (\E p \in Procs : Step(p)) \/ device \/ ideintr
        \/ halt

Spec == Init /\ [][Next]_vars

\* Processes inside the driver proceed, and so does the controller.
Fairness == /\ \A p \in Procs : WF_vars(~ panicked /\ (iderw(p) \/ iderw_woken(p)))
            /\ WF_vars(~ panicked /\ device)
            /\ WF_vars(~ panicked /\ ideintr)

----------------------------------------------------------------------------
PCs == {"out", "lock", "lkwait", "using", "changed", "iderw", "iowait", "iowoken", "brelse"}

\* Types; the list holds every buffer once.
TypeOK == /\ buf \in [Bufs -> [block : Blocks \cup {None}, valid : BOOLEAN, dirty : BOOLEAN,
                               refcnt : 0 .. Cardinality(Procs),
                               holder : Procs \cup {None}, data : Values]]
          /\ Len(lru) = NBUF /\ \A b \in Bufs : \E i \in Bufs : lru[i] = b
          /\ idequeue \in Seq(Bufs)
          /\ cmd \in Cmds
          /\ irq \in BOOLEAN
          /\ disk \in [Blocks -> Values]
          /\ pc \in [Procs -> PCs]
          /\ cur \in [Procs -> Bufs \cup {None}]
          /\ panicked \in BOOLEAN

\* The value of a block: that of its buffer once it has been filled.
Current(k) == IF \E b \in Bufs : buf[b].block = k /\ buf[b].valid
              THEN buf[CHOOSE b \in Bufs : buf[b].block = k /\ buf[b].valid].data
              ELSE disk[k]

\* The process that has the lock of the buffer of a block.
Holder(k) == IF \E b \in Bufs : buf[b].block = k /\ buf[b].holder # None
             THEN buf[CHOOSE b \in Bufs : buf[b].block = k /\ buf[b].holder # None].holder
             ELSE None

Store == INSTANCE BlockStore WITH
           val <- [k \in Blocks |-> Current(k)], owner <- [k \in Blocks |-> Holder(k)]

(***************************************************************************)
(* The cache is transparent: through recycling, delayed writes and waits   *)
(* for the disk, a block has one value, changed by its one owner only.     *)
(***************************************************************************)
DiskImplementsStore == Store!Spec

(***************************************************************************)
(* bio.c: "Only one process at a time can use a buffer".  A process that   *)
(* has come back from bread or bwrite has the lock of a buffer that is     *)
(* filled, and no other buffer is for the same block.                      *)
(***************************************************************************)
UserHasBlock == \A p \in Procs :
  pc[p] \in {"using", "changed"} =>
    /\ buf[cur[p]].holder = p
    /\ buf[cur[p]].valid
    /\ \A b \in Bufs : buf[b].block = buf[cur[p]].block => b = cur[p]

(***************************************************************************)
(* Nobody sleeps for ever: a process that waits for the disk is in the     *)
(* queue and the disk works for the queue; one that waits for a lock waits *)
(* for a process that will release it.                                     *)
(***************************************************************************)
SleeperHasWaker == \A p \in Procs :
  /\ pc[p] = "iowait" => (\E i \in 1 .. Len(idequeue) : cur[p] = idequeue[i]) /\ cmd # NoCmd
  /\ pc[p] = "lkwait" => buf[cur[p]].holder # None

\* bwrite returns when the block is on the disk: a clean filled buffer that
\* its holder has not changed since has the contents of its block.
CleanOnDisk == \A b \in Bufs :
  (/\ buf[b].valid /\ ~ buf[b].dirty
   /\ \A p \in Procs : pc[p] \in {"changed", "iderw"} => cur[p] # b)
    => buf[b].data = disk[buf[b].block]

\* The assertions of bwrite, brelse and iderw: who calls them has the lock of its
\* buffer, and iderw is never called for nothing.
AssertionsHold == \A p \in Procs :
  /\ pc[p] \in {"using", "changed", "iderw"} => buf[cur[p]].holder = p
  /\ pc[p] = "iderw" => ~ Done(cur[p])

\* Every request is served: iderw returns.
IoReturns == \A p \in Procs : pc[p] = "iderw" ~> pc[p] = "using"

(***************************************************************************)
(* The buffers that processes use: each is filled, locked by its one user, *)
(* alone for its block, and on the disk once bwrite has returned, and no   *)
(* assertion fails.  bget may still panic, when every buffer is in use or  *)
(* dirty: NBUF is no larger than the log.                                  *)
(***************************************************************************)
BuffersSound == TypeOK /\ UserHasBlock /\ CleanOnDisk /\ AssertionsHold
=============================================================================
