-------------------------------- MODULE Log --------------------------------
(***************************************************************************)
(* The write-ahead log of log.c: processes in begin_op, log_write and      *)
(* end_op, the commit by the last of them, a crash at any moment and the   *)
(* recovery at the next start.                                             *)
(*                                                                         *)
(* Sections under log.lock are one step each.  commit() runs without the   *)
(* lock: each bwrite is a step, atomic on the disk (one sector), and a     *)
(* crash may fall between any two.  A caller changes a buffer and calls    *)
(* log_write while it holds the buffer's sleep-lock: one step.             *)
(*                                                                         *)
(* `cache' is what bread returns for a home block: the buffer, or, after   *)
(* bget has recycled it, the block read from the disk again.               *)
(***************************************************************************)
EXTENDS Integers, Sequences, FiniteSets

CONSTANTS
  Procs,         \* the processes that make file system calls
  Blocks,        \* the home blocks
  Values,        \* the contents of a block
  MAXOPBLOCKS,   \* the blocks begin_op sets aside for a call
  OpBlocks,      \* the most blocks a call writes: 7, in filewrite
  LOGSIZE,       \* the length of logheader.block
  NLOG           \* sb.nlog: the blocks of the on-disk log, its header included

(***************************************************************************)
(* param.h: 10 and 30; mkfs makes NLOG = LOGSIZE, so the log on disk holds *)
(* LOGSIZE - 1 data blocks, one less than begin_op reckons with.           *)
(***************************************************************************)
ASSUME LogAssumption == /\ MAXOPBLOCKS \in Nat /\ OpBlocks \in Nat
                        /\ LOGSIZE \in Nat /\ NLOG \in Nat
                        /\ OpBlocks + 2 <= MAXOPBLOCKS
                        /\ MAXOPBLOCKS <= LOGSIZE
                        /\ LOGSIZE <= NLOG
                        /\ IsFiniteSet(Procs)
                        /\ Values # {}

VARIABLES
  disk,          \* the home blocks on disk
  logblk,        \* the data blocks of the on-disk log
  head,          \* the header block on disk: lh.block[0 .. n-1]
  cache, dirty,  \* buffers in memory, and those with B_DIRTY
  lh,            \* log.lh.block[0 .. n-1]
  outstanding, committing,
  pc, wrote,     \* each process: where it is, the blocks its call has written
  job, tail,     \* commit() or recover_from_log(): its next step and index
  up,            \* initlog has returned
  panicked

onDisk == <<disk, logblk, head>>
calls == <<outstanding, committing, pc, wrote>>
vars == <<onDisk, cache, dirty, lh, calls, job, tail, up, panicked>>

n == Len(lh)

Blocknos(h) == {h[k] : k \in 1 .. Len(h)}

Zero == CHOOSE v \in Values : TRUE

(***************************************************************************)
(* A disk as mkfs leaves it, its log empty, and the kernel about to start. *)
(***************************************************************************)
Init == /\ disk \in [Blocks -> Values]
        /\ logblk = [k \in 1 .. LOGSIZE |-> Zero]
        /\ head = <<>>
        /\ cache = disk
        /\ dirty = {}
        /\ lh = <<>>
        /\ outstanding = 0
        /\ committing = FALSE
        /\ pc = [p \in Procs |-> "out"]
        /\ wrote = [p \in Procs |-> {}]
        /\ job = "boot"
        /\ tail = 0
        /\ up = FALSE
        /\ panicked = FALSE

----------------------------------------------------------------------------
\* wakeup(&log), after process p has moved to l.
WakeAnd(p, l) == [q \in Procs |-> IF q = p THEN l
                                  ELSE IF pc[q] = "asleep" THEN "retry" ELSE pc[q]]

\* Mutant of NoRoom: the call itself is not counted.
NoRoomForOthers == n + outstanding * MAXOPBLOCKS > LOGSIZE

NoRoom == n + (outstanding + 1) * MAXOPBLOCKS > LOGSIZE

Running == up /\ ~ panicked

\* begin_op, from its start or after a wakeup: one pass of the loop.
begin_op(p) == /\ Running
               /\ pc[p] \in {"out", "retry"}
               /\ IF committing \/ NoRoom
                  THEN /\ pc' = [pc EXCEPT ![p] = "asleep"]
                       /\ UNCHANGED <<outstanding, wrote>>
                  ELSE /\ outstanding' = outstanding + 1
                       /\ pc' = [pc EXCEPT ![p] = "op"]
                       /\ wrote' = [wrote EXCEPT ![p] = {}]
               /\ UNCHANGED <<onDisk, cache, dirty, lh, committing, job, tail, up, panicked>>

TooBig == n >= LOGSIZE \/ n >= NLOG - 1

\* log_write, its assertions: they are read before log.lock is taken.
log_write_check(p) ==
  /\ Running
  /\ pc[p] = "op"
  /\ IF TooBig \/ outstanding < 1
     THEN panicked' = TRUE /\ UNCHANGED pc
     ELSE pc' = [pc EXCEPT ![p] = "logging"] /\ UNCHANGED panicked
  /\ UNCHANGED <<onDisk, cache, dirty, lh, outstanding, committing, wrote, job, tail, up>>

\* Mutant of log_write: the buffer is not marked B_DIRTY.
LogWriteUnpinned(p, b, v) ==
  /\ Running
  /\ pc[p] = "logging"
  /\ Cardinality(wrote[p] \cup {b}) <= OpBlocks
  /\ pc' = [pc EXCEPT ![p] = "op"]
  /\ cache' = [cache EXCEPT ![b] = v]
  /\ lh' = IF b \in Blocknos(lh) THEN lh ELSE Append(lh, b)
  /\ wrote' = [wrote EXCEPT ![p] = @ \cup {b}]
  /\ UNCHANGED <<onDisk, dirty, outstanding, committing, job, tail, up, panicked>>

(***************************************************************************)
(* A call writes v to block b: bread, change, log_write under log.lock,    *)
(* brelse.                                                                 *)
(***************************************************************************)
log_write(p, b, v) ==
  /\ Running
  /\ pc[p] = "logging"
  /\ Cardinality(wrote[p] \cup {b}) <= OpBlocks
  /\ pc' = [pc EXCEPT ![p] = "op"]
  /\ cache' = [cache EXCEPT ![b] = v]
  /\ dirty' = dirty \cup {b}
  /\ lh' = IF b \in Blocknos(lh) THEN lh ELSE Append(lh, b)
  /\ wrote' = [wrote EXCEPT ![p] = @ \cup {b}]
  /\ UNCHANGED <<onDisk, outstanding, committing, job, tail, up, panicked>>

\* end_op, up to commit(), which does nothing if the log is empty.
end_op(p) ==
  /\ Running
  /\ pc[p] = "op"
  /\ outstanding' = outstanding - 1
  /\ IF committing
     THEN panicked' = TRUE /\ UNCHANGED <<committing, pc, job, tail>>
     ELSE /\ IF outstanding' = 0
             THEN /\ committing' = TRUE
                  /\ pc' = [pc EXCEPT ![p] = "commit"]
                  /\ job' = IF n > 0 THEN "log" ELSE "finish"
                  /\ tail' = 0
             ELSE /\ pc' = WakeAnd(p, "out")
                  /\ UNCHANGED <<committing, job, tail>>
          /\ UNCHANGED panicked
  /\ UNCHANGED <<onDisk, cache, dirty, lh, wrote, up>>

----------------------------------------------------------------------------
(***************************************************************************)
(* commit(), one bwrite at a time.                                         *)
(***************************************************************************)
write_log == /\ ~ panicked
             /\ job = "log"
             /\ logblk' = [logblk EXCEPT ![tail + 1] = cache[lh[tail + 1]]]
             /\ IF tail + 1 = n THEN job' = "head" /\ tail' = 0
                ELSE tail' = tail + 1 /\ UNCHANGED job
             /\ UNCHANGED <<disk, head, cache, dirty, lh, calls, up, panicked>>

\* write_head: the real commit.
write_head == /\ ~ panicked
              /\ job = "head"
              /\ head' = lh
              /\ job' = "install"
              /\ UNCHANGED <<disk, logblk, cache, dirty, lh, calls, tail, up, panicked>>

install_trans == /\ ~ panicked
                 /\ job = "install"
                 /\ disk' = [disk EXCEPT ![lh[tail + 1]] = logblk[tail + 1]]
                 /\ cache' = [cache EXCEPT ![lh[tail + 1]] = logblk[tail + 1]]
                 /\ dirty' = dirty \ {lh[tail + 1]}
                 /\ IF tail + 1 = n THEN job' = "clear" /\ tail' = 0
                    ELSE tail' = tail + 1 /\ UNCHANGED job
                 /\ UNCHANGED <<logblk, head, lh, calls, up, panicked>>

\* log.lh.n = 0; write_head(): the end of commit() and of recover_from_log().
clear_log == /\ ~ panicked
             /\ job = "clear"
             /\ lh' = <<>>
             /\ head' = <<>>
             /\ job' = IF up THEN "finish" ELSE "none"
             /\ up' = TRUE
             /\ UNCHANGED <<disk, logblk, cache, dirty, calls, tail, panicked>>

\* Mutant of end_commit: no wakeup.
EndCommitSilent(p) == /\ job = "finish"
                      /\ pc[p] = "commit"
                      /\ committing' = FALSE
                      /\ pc' = [pc EXCEPT ![p] = "out"]
                      /\ job' = "none"
                      /\ UNCHANGED <<onDisk, cache, dirty, lh, outstanding, wrote, tail, up,
                                     panicked>>

\* The rest of end_op, after commit().
end_commit(p) == /\ ~ panicked
                 /\ job = "finish"
                 /\ pc[p] = "commit"
                 /\ committing' = FALSE
                 /\ pc' = WakeAnd(p, "out")
                 /\ job' = "none"
                 /\ UNCHANGED <<onDisk, cache, dirty, lh, outstanding, wrote, tail, up, panicked>>

\* initlog calls recover_from_log.
read_head == /\ job = "boot"
             /\ lh' = head
             /\ job' = IF head = <<>> THEN "clear" ELSE "install"
             /\ UNCHANGED <<onDisk, cache, dirty, calls, tail, up, panicked>>

\* bget recycles the buffer of b, unless it is dirty; bread reads it again.
bread(b) == /\ Running
            /\ b \notin dirty
            /\ cache' = [cache EXCEPT ![b] = disk[b]]
            /\ UNCHANGED <<onDisk, dirty, lh, calls, job, tail, up, panicked>>

(***************************************************************************)
(* Power fails, or a panicked kernel is reset: memory is lost.  Buffers    *)
(* are read from the disk when they are first used.                        *)
(***************************************************************************)
Crash == /\ cache' = disk
         /\ dirty' = {}
         /\ lh' = <<>>
         /\ outstanding' = 0
         /\ committing' = FALSE
         /\ pc' = [p \in Procs |-> "out"]
         /\ wrote' = [p \in Procs |-> {}]
         /\ job' = "boot"
         /\ tail' = 0
         /\ up' = FALSE
         /\ panicked' = FALSE
         /\ UNCHANGED onDisk

Next == \/ \E p \in Procs : begin_op(p)
        \/ \E p \in Procs : log_write_check(p)
        \/ \E p \in Procs, b \in Blocks, v \in Values : log_write(p, b, v)
        \/ \E p \in Procs : end_op(p)
        \/ write_log
        \/ write_head
        \/ install_trans
        \/ clear_log
        \/ \E p \in Procs : end_commit(p)
        \/ read_head
        \/ \E b \in Blocks : bread(b)
        \/ Crash

Spec == Init /\ [][Next]_vars

----------------------------------------------------------------------------
(***************************************************************************)
(* Type invariant.                                                         *)
(***************************************************************************)
TypeOK == /\ disk \in [Blocks -> Values]
          /\ logblk \in [1 .. LOGSIZE -> Values]
          /\ head \in Seq(Blocks)
          /\ cache \in [Blocks -> Values]
          /\ dirty \subseteq Blocks
          /\ lh \in Seq(Blocks)
          /\ outstanding \in Nat
          /\ committing \in BOOLEAN
          /\ pc \in [Procs -> {"out", "asleep", "retry", "op", "logging", "commit"}]
          /\ wrote \in [Procs -> SUBSET Blocks]
          /\ job \in {"none", "boot", "log", "head", "install", "clear", "finish"}
          /\ tail \in Nat
          /\ up \in BOOLEAN
          /\ panicked \in BOOLEAN

\* The disk as recovery would leave it: the log overrides the home blocks.
Recovered == [b \in Blocks |->
                IF b \in Blocknos(head)
                THEN logblk[CHOOSE k \in 1 .. Len(head) : head[k] = b]
                ELSE disk[b]]

InOp == {p \in Procs : pc[p] \in {"op", "logging"}}

(***************************************************************************)
(* Calls are atomic with respect to crashes: "there is never any reasoning *)
(* required about whether a commit might write an uncommitted system       *)
(* call's updates to disk" (log.c).                                        *)
(***************************************************************************)
Store == INSTANCE AtomicStore WITH store <- Recovered,
                                   view <- IF up THEN cache ELSE Recovered,
                                   active <- InOp

LogImplementsStore == Store!Spec

\* What the calls in progress may still write.
Reserved == {r \in Procs \X (1 .. MAXOPBLOCKS) :
               r[1] \in InOp /\ r[2] > Cardinality(wrote[r[1]])}

(***************************************************************************)
(* The reservation of begin_op suffices: whatever the calls in progress    *)
(* still write fits into logheader.block, though begin_op counts a call    *)
(* that has ended by what it wrote and one in progress by what it may.     *)
(***************************************************************************)
ReservationHolds == n + Cardinality(Reserved) <= LOGSIZE

(***************************************************************************)
(* No wakeup is missed: while a process sleeps in begin_op, a call or a    *)
(* commit is under way, and its end wakes the process.                     *)
(***************************************************************************)
SleeperHasWaker == (\E p \in Procs : pc[p] = "asleep") => committing \/ outstanding > 0

(***************************************************************************)
(* The assertions of log_write and end_op hold: "too big a transaction",   *)
(* "log_write outside of trans", "log.committing".  The log on disk has a  *)
(* block less than begin_op reckons with; that every call in progress has  *)
(* two blocks set aside that it does not write makes up for it.            *)
(***************************************************************************)
NoPanic == ~ panicked
=============================================================================
