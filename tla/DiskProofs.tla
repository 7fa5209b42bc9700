----------------------------- MODULE DiskProofs -----------------------------
(***************************************************************************)
(* Theorems about the buffer cache of bio.c over the disk driver of ide.c, *)
(* for any number of processes, blocks and buffers.                        *)
(***************************************************************************)
EXTENDS DiskInvariant, FiniteSetTheorems, TLAPS

\* A leaf is left to Zenon where it is pure logic, and cites SMT where it takes
\* arithmetic, records or sequences.
USE Zenon

----------------------------------------------------------------------------
\* Moving an element of the list to its front loses none.
LEMMA FrontOfAll ==
  ASSUME NEW s \in Seq(Bufs), NEW i \in 1 .. Len(s)
  PROVE  LET t == MoveToFront(s, i)
         IN  /\ t \in Seq(Bufs)
             /\ \A j \in 1 .. Len(s) : \E k \in 1 .. Len(t) : t[k] = s[j]
<1> DEFINE t == MoveToFront(s, i)
           n == Len(s)
<1>1. n \in Nat /\ \A j \in 1 .. n : s[j] \in Bufs
  BY SMT
<1>2. \A j \in 1 .. n : (IF j = 1 THEN s[i] ELSE IF j <= i THEN s[j - 1] ELSE s[j]) \in Bufs
  BY <1>1, SMT
<1>3. t \in [1 .. n -> Bufs]
  BY <1>2 DEF MoveToFront
<1>4. t \in Seq(Bufs) /\ Len(t) = n
  BY <1>1, <1>3, SMT
<1>5. ASSUME NEW j \in 1 .. n PROVE \E k \in 1 .. n : t[k] = s[j]
  <2>1. CASE j = i
    <3>1. 1 \in 1 .. n /\ t[1] = s[j]
      BY <1>1, <2>1, SMT DEF MoveToFront
    <3> QED
      BY <3>1
  <2>2. CASE j < i
    <3>1. j + 1 \in 1 .. n /\ t[j + 1] = s[j]
      BY <1>1, <2>2, SMT DEF MoveToFront
    <3> QED
      BY <3>1
  <2>3. CASE j > i
    <3>1. t[j] = s[j]
      BY <1>1, <2>3, SMT DEF MoveToFront
    <3> QED
      BY <3>1
  <2> QED
    BY <1>1, <2>1, <2>2, <2>3, SMT
<1> QED
  BY <1>4, <1>5

\* brelse keeps the invariant.
LEMMA BrelseInv ==
  ASSUME IInv, NEW p \in Procs, brelse(p)
  PROVE  IInv'
<1> DEFINE b == cur[p]
           r == [buf[b] EXCEPT !.refcnt = @ - 1]
<1>1. pc[p] = "brelse" /\ b \in Bufs /\ b # None /\ buf[b] \in BufType
  BY SMT DEF brelse, IInv, Types, LockInv
<1>2. /\ IsFiniteSet(Users(b)) /\ p \in Users(b)
      /\ Cardinality(Users(b)) \in Nat /\ Cardinality(Users(b)) # 0
      /\ Cardinality(Users(b) \ {p}) = Cardinality(Users(b)) - 1
  <2>1. IsFiniteSet(Users(b)) /\ p \in Users(b)
    BY FS_Subset, DiskAssumption DEF Users
  <2> QED
    BY <2>1, FS_CardinalityType, FS_EmptySet, FS_RemoveElement
<1>3. buf[b].refcnt = Cardinality(Users(b)) /\ buf[b].refcnt - 1 \in Nat
  BY <1>1, <1>2, SMT DEF IInv, LockInv
<1>4. /\ r \in BufType /\ r.refcnt = buf[b].refcnt - 1 /\ r.holder = buf[b].holder
      /\ r.block = buf[b].block /\ r.valid = buf[b].valid /\ r.dirty = buf[b].dirty
      /\ r.data = buf[b].data
  BY <1>1, <1>3 DEF BufType
<1>5. /\ buf' = [buf EXCEPT ![b] = r]
      /\ cur' = [cur EXCEPT ![p] = None]
      /\ pc' = [pc EXCEPT ![p] = "out"]
      /\ UNCHANGED <<idequeue, cmd, irq, disk, panicked>>
  BY DEF brelse, Goto
<1> HIDE DEF r
<1>6. /\ buf' \in [Bufs -> BufType] /\ buf'[b] = r
      /\ \A c \in Bufs : c # b => buf'[c] = buf[c]
  BY <1>1, <1>4, <1>5 DEF IInv, Types
<1>7. /\ \A c \in Bufs : Same(c) /\ buf'[c].holder = buf[c].holder
      /\ buf'[b].refcnt = buf[b].refcnt - 1
      /\ \A c \in Bufs : c # b => buf'[c].refcnt = buf[c].refcnt
  BY <1>1, <1>4, <1>6 DEF Same
<1>8. /\ pc' \in [Procs -> PCs] /\ cur' \in [Procs -> Bufs \cup {None}]
      /\ pc'[p] = "out" /\ cur'[p] = None
      /\ \A q \in Procs : q # p => pc'[q] = pc[q] /\ cur'[q] = cur[q]
  BY <1>5 DEF IInv, Types, PCs
<1>9. lru' \in Seq(Bufs) /\ \A c \in Bufs : \E k \in 1 .. Len(lru') : lru'[k] = c
  <2>1. PICK i \in 1 .. Len(lru) :
          /\ lru[i] = b
          /\ lru' = IF buf[b].refcnt = 1 THEN MoveToFront(lru, i) ELSE lru
    BY DEF brelse
  <2>2. lru \in Seq(Bufs) /\ \A c \in Bufs : \E j \in 1 .. Len(lru) : lru[j] = c
    BY DEF IInv, Types, LockInv
  <2>3. CASE buf[b].refcnt = 1
    <3> DEFINE t == MoveToFront(lru, i)
    <3>1. t \in Seq(Bufs) /\ \A j \in 1 .. Len(lru) : \E k \in 1 .. Len(t) : t[k] = lru[j]
      BY <2>2, FrontOfAll
    <3>2. lru' = t
      BY <2>1, <2>3
    <3> HIDE DEF t
    <3>3. \A c \in Bufs : \E k \in 1 .. Len(t) : t[k] = c
      BY <2>2, <3>1
    <3> QED
      BY <3>1, <3>2, <3>3
  <2>4. CASE buf[b].refcnt # 1
    BY <2>1, <2>2, <2>4
  <2> QED
    BY <2>3, <2>4
<1>10. Types'
  BY <1>5, <1>6, <1>8, <1>9, SMTT(30) DEF IInv, Types
<1>11. LockInv'
  <2>1. \A c \in Bufs : buf'[c].refcnt = Cardinality(Users(c)')
    <3>1. \A c \in Bufs : c = b => Users(c)' = Users(c) \ {p}
      <4> SUFFICES ASSUME NEW c \in Bufs, c = b PROVE Users(c)' = Users(c) \ {p}
        OBVIOUS
      <4>1. \A q \in Procs : cur'[q] = c <=> cur[q] = c /\ q # p
        BY <1>1, <1>8
      <4> QED
        BY <4>1 DEF Users
    <3>2. \A c \in Bufs : c # b => Users(c)' = Users(c)
      <4> SUFFICES ASSUME NEW c \in Bufs, c # b PROVE Users(c)' = Users(c)
        OBVIOUS
      <4>1. c # None
        BY DiskAssumption
      <4>2. \A q \in Procs : cur'[q] = c <=> cur[q] = c
        BY <1>8, <4>1
      <4> QED
        BY <4>2 DEF Users
    <3> QED
      <4> SUFFICES ASSUME NEW c \in Bufs PROVE buf'[c].refcnt = Cardinality(Users(c)')
        OBVIOUS
      <4>1. CASE c = b
        BY <1>2, <1>3, <1>7, <3>1, <4>1
      <4>2. CASE c # b
        BY <1>7, <3>2, <4>2, SMT DEF IInv, LockInv
      <4> QED
        BY <4>1, <4>2
  <2>2. \A q \in Procs : cur'[q] = None <=> pc'[q] = "out"
    BY <1>8 DEF IInv, LockInv
  <2>3. \A q \in Procs, c \in Bufs : buf'[c].holder = q <=> cur'[q] = c /\ pc'[q] \in Holding
    <3>1. \A c \in Bufs : buf'[c].holder # p
      BY <1>1, <1>7, SMT DEF IInv, LockInv, Holding
    <3> QED
      BY <1>7, <1>8, <3>1, DiskAssumption, SMT DEF IInv, LockInv, Holding
  <2>4. \A q \in Procs : pc'[q] = "lkwait" => buf'[cur'[q]].holder # None
    <3> SUFFICES ASSUME NEW q \in Procs, pc'[q] = "lkwait" PROVE buf'[cur'[q]].holder # None
      OBVIOUS
    <3>1. q # p /\ pc[q] = "lkwait" /\ cur'[q] = cur[q]
      BY <1>8
    <3>2. cur[q] \in Bufs
      BY <3>1, SMT DEF IInv, LockInv, Types
    <3> QED
      BY <1>7, <3>1, <3>2, SMT DEF IInv, LockInv
  <2> QED
    BY <1>9, <2>1, <2>2, <2>3, <2>4 DEF LockInv
<1>12. BlockInv'
  <2>1. \A q \in Procs :
          /\ cur'[q] = cur[q] \/ cur'[q] = None
          /\ pc'[q] \in {"using", "changed"} => buf[cur'[q]].valid /\ cur'[q] # None
          /\ pc'[q] = "iderw" => ~ Done(cur'[q]) /\ cur'[q] # None
          /\ pc'[q] = "iowoken" => Done(cur'[q]) /\ cur'[q] # None
    BY <1>8, SMT DEF IInv, LockInv, BlockInv
  <2> QED
    BY <1>7, <1>8, <2>1, BlockFrame
<1>13. QueueInv'
  <2>1. \A i \in 1 .. Len(idequeue) : Same(idequeue[i])
    BY <1>7, SMT DEF IInv, Types
  <2> QED
    BY <1>1, <1>5, <1>8, <2>1, QueueFrame
<1>14. CleanInv'
  BY <1>1, <1>5, <1>7, <1>8, CleanFrame
<1> QED
  BY <1>10, <1>11, <1>12, <1>13, <1>14 DEF IInv

----------------------------------------------------------------------------
\* Process p takes a reference to buffer b: the counts and locks are kept.
LEMMA TakeLock ==
  ASSUME IInv, NEW p \in Procs, NEW b \in Bufs, pc[p] = "out",
         cur' = [cur EXCEPT ![p] = b], Goto(p, "lock"), UNCHANGED lru,
         \A c \in Bufs : buf'[c].holder = buf[c].holder,
         buf'[b].refcnt = buf[b].refcnt + 1,
         \A c \in Bufs : c # b => buf'[c].refcnt = buf[c].refcnt
  PROVE  /\ LockInv'
         /\ pc' \in [Procs -> PCs] /\ cur' \in [Procs -> Bufs \cup {None}]
         /\ pc'[p] = "lock" /\ cur'[p] = b
         /\ \A q \in Procs : q # p => pc'[q] = pc[q] /\ cur'[q] = cur[q]
<1>1. /\ pc' \in [Procs -> PCs] /\ cur' \in [Procs -> Bufs \cup {None}]
      /\ pc'[p] = "lock" /\ cur'[p] = b
      /\ \A q \in Procs : q # p => pc'[q] = pc[q] /\ cur'[q] = cur[q]
  BY DEF IInv, Types, PCs, Goto
<1>2. cur[p] = None /\ b # None
  BY DiskAssumption DEF IInv, LockInv
<1>3. ASSUME NEW c \in Bufs PROVE buf'[c].refcnt = Cardinality(Users(c)')
  <2>1. c # None /\ IsFiniteSet(Users(c)) /\ Cardinality(Users(c)) \in Nat
        /\ buf[c].refcnt = Cardinality(Users(c))
    BY FS_Subset, FS_CardinalityType, DiskAssumption DEF Users, IInv, LockInv
  <2>2. CASE c = b
    <3>1. Users(c)' = Users(c) \cup {p} /\ p \notin Users(c)
      <4>1. \A q \in Procs : cur'[q] = c <=> cur[q] = c \/ q = p
        BY <1>1, <2>2
      <4> QED
        BY <1>2, <2>1, <4>1 DEF Users
    <3>2. Cardinality(Users(c)') = Cardinality(Users(c)) + 1
      BY <2>1, <3>1, FS_AddElement
    <3> QED
      BY <2>1, <2>2, <3>2
  <2>3. CASE c # b
    <3>1. \A q \in Procs : cur'[q] = c <=> cur[q] = c
      BY <1>1, <1>2, <2>1, <2>3
    <3>2. Users(c)' = Users(c)
      BY <3>1 DEF Users
    <3> QED
      BY <2>1, <2>3, <3>2
  <2> QED
    BY <2>2, <2>3
<1>4. \A q \in Procs : cur'[q] = None <=> pc'[q] = "out"
  BY <1>1, <1>2, SMT DEF IInv, LockInv
<1>5. \A q \in Procs, c \in Bufs : buf'[c].holder = q <=> cur'[q] = c /\ pc'[q] \in Holding
  <2>1. \A c \in Bufs : buf'[c].holder # p
    BY <1>2, DiskAssumption, SMT DEF IInv, LockInv
  <2> QED
    BY <1>1, <2>1, SMT DEF IInv, LockInv, Holding
<1>6. \A q \in Procs : pc'[q] = "lkwait" => buf'[cur'[q]].holder # None
  <2> SUFFICES ASSUME NEW q \in Procs, pc'[q] = "lkwait" PROVE buf'[cur'[q]].holder # None
    OBVIOUS
  <2>1. q # p /\ pc[q] = "lkwait" /\ cur'[q] = cur[q]
    BY <1>1
  <2>2. cur[q] \in Bufs
    BY <2>1, SMT DEF IInv, LockInv, Types
  <2> QED
    BY <2>1, <2>2, SMT DEF IInv, LockInv
<1> QED
  BY <1>1, <1>3, <1>4, <1>5, <1>6, SMT DEF IInv, LockInv

\* bget keeps the invariant: what it recycles nobody uses.
LEMMA BgetInv ==
  ASSUME IInv, NEW p \in Procs, NEW k \in Blocks, bget(p, k)
  PROVE  IInv'
<1> DEFINE cached == {i \in 1 .. Len(lru) : buf[lru[i]].block = k}
           free == {i \in 1 .. Len(lru) : Recyclable(lru[i])}
<1>0. pc[p] = "out" /\ k # None
  BY DiskAssumption DEF bget
<1>1. ASSUME NEW i \in cached,
             buf' = [buf EXCEPT ![lru[i]].refcnt = @ + 1],
             cur' = [cur EXCEPT ![p] = lru[i]], Goto(p, "lock"),
             UNCHANGED <<lru, idequeue, cmd, irq, disk, panicked>>
      PROVE  IInv'
  <2>1. PICK b \in Bufs : b = lru[i] /\ buf[b].block = k /\ buf[b] \in BufType
    BY SMT DEF IInv, Types
  <2> DEFINE r == [buf[b] EXCEPT !.refcnt = @ + 1]
  <2>2. /\ r \in BufType /\ r.refcnt = buf[b].refcnt + 1 /\ r.holder = buf[b].holder
        /\ r.block = buf[b].block /\ r.valid = buf[b].valid /\ r.dirty = buf[b].dirty
        /\ r.data = buf[b].data
    BY <2>1, SMT DEF BufType
  <2>3. buf' = [buf EXCEPT ![b] = r]
    BY <1>1, <2>1
  <2> HIDE DEF r
  <2>4. /\ buf' \in [Bufs -> BufType] /\ buf'[b] = r
        /\ \A c \in Bufs : c # b => buf'[c] = buf[c]
    BY <2>2, <2>3 DEF IInv, Types
  <2>5. /\ \A c \in Bufs : Same(c) /\ buf'[c].holder = buf[c].holder
        /\ buf'[b].refcnt = buf[b].refcnt + 1
        /\ \A c \in Bufs : c # b => buf'[c].refcnt = buf[c].refcnt
    BY <2>2, <2>4 DEF Same
  <2>6. /\ LockInv'
        /\ pc' \in [Procs -> PCs] /\ cur' \in [Procs -> Bufs \cup {None}]
        /\ pc'[p] = "lock" /\ cur'[p] = b
        /\ \A q \in Procs : q # p => pc'[q] = pc[q] /\ cur'[q] = cur[q]
    BY <1>0, <1>1, <2>1, <2>5, TakeLock
  <2>7. Types'
    BY <1>1, <2>4, <2>6 DEF IInv, Types
  <2>8. BlockInv'
    <3>1. \A q \in Procs :
            /\ cur'[q] = cur[q] \/ cur'[q] = None \/ buf[cur'[q]].block # None
            /\ pc'[q] \in {"using", "changed"} => buf[cur'[q]].valid /\ cur'[q] # None
            /\ pc'[q] = "iderw" => ~ Done(cur'[q]) /\ cur'[q] # None
            /\ pc'[q] = "iowoken" => Done(cur'[q]) /\ cur'[q] # None
      BY <1>0, <2>1, <2>6, SMT DEF IInv, LockInv, BlockInv
    <3> QED
      BY <2>5, <2>6, <3>1, BlockFrame
  <2>9. QueueInv'
    <3>1. \A j \in 1 .. Len(idequeue) : Same(idequeue[j])
      BY <2>5, SMT DEF IInv, Types
    <3> QED
      BY <1>0, <1>1, <2>6, <3>1, QueueFrame
  <2>10. CleanInv'
    BY <1>0, <1>1, <2>5, <2>6, CleanFrame
  <2> QED
    BY <2>6, <2>7, <2>8, <2>9, <2>10 DEF IInv
<1>2. ASSUME NEW i \in free, cached = {},
             buf' = [buf EXCEPT ![lru[i]].block = k, ![lru[i]].valid = FALSE,
                                ![lru[i]].dirty = FALSE, ![lru[i]].refcnt = 1],
             cur' = [cur EXCEPT ![p] = lru[i]], Goto(p, "lock"),
             UNCHANGED <<lru, idequeue, cmd, irq, disk, panicked>>
      PROVE  IInv'
  <2>1. PICK b \in Bufs : b = lru[i] /\ buf[b].refcnt = 0 /\ buf[b] \in BufType
    BY SMT DEF IInv, Types, Recyclable
  <2> DEFINE r == [buf[b] EXCEPT !.block = k, !.valid = FALSE, !.dirty = FALSE, !.refcnt = 1]
  <2>2. /\ r \in BufType /\ r.refcnt = 1 /\ r.holder = buf[b].holder
        /\ r.block = k /\ r.valid = FALSE /\ r.dirty = FALSE
    BY <2>1 DEF BufType
  <2>3. buf' = [buf EXCEPT ![b] = r]
    BY <1>2, <2>1
  <2> HIDE DEF r
  <2>4. /\ buf' \in [Bufs -> BufType] /\ buf'[b] = r
        /\ \A c \in Bufs : c # b => buf'[c] = buf[c]
    BY <2>2, <2>3 DEF IInv, Types
  <2>5. \A q \in Procs : cur[q] # b
    <3>1. IsFiniteSet(Users(b)) /\ Cardinality(Users(b)) = 0
      BY <2>1, FS_Subset, DiskAssumption DEF Users, IInv, LockInv
    <3>2. Users(b) = {}
      BY <3>1, FS_EmptySet
    <3> QED
      BY <3>2 DEF Users
  <2>6. \A c \in Bufs : buf[c].block # k
    <3> SUFFICES ASSUME NEW c \in Bufs PROVE buf[c].block # k
      OBVIOUS
    <3>1. PICK j \in 1 .. Len(lru) : lru[j] = c
      BY DEF IInv, LockInv
    <3>2. j \notin cached
      BY <1>2
    <3> QED
      BY <3>1, <3>2
  <2>7. /\ LockInv'
        /\ pc' \in [Procs -> PCs] /\ cur' \in [Procs -> Bufs \cup {None}]
        /\ pc'[p] = "lock" /\ cur'[p] = b
        /\ \A q \in Procs : q # p => pc'[q] = pc[q] /\ cur'[q] = cur[q]
    <3>1. /\ \A c \in Bufs : buf'[c].holder = buf[c].holder
          /\ buf'[b].refcnt = buf[b].refcnt + 1
          /\ \A c \in Bufs : c # b => buf'[c].refcnt = buf[c].refcnt
      BY <2>1, <2>2, <2>4, SMT
    <3> QED
      BY <1>0, <1>2, <2>1, <3>1, TakeLock
  <2>8. Types'
    BY <1>2, <2>4, <2>7 DEF IInv, Types
  <2>9. BlockInv'
    <3>1. \A a, c \in Bufs : buf'[a].block = buf'[c].block /\ buf'[a].block # None => a = c
      BY <2>2, <2>4, <2>6, SMT DEF IInv, BlockInv
    <3>2. \A c \in Bufs : /\ buf'[c].valid => buf'[c].block # None
                          /\ buf'[c].dirty => buf'[c].valid
      BY <1>0, <2>2, <2>4, SMT DEF IInv, BlockInv
    <3>3. ASSUME NEW q \in Procs
          PROVE  /\ cur'[q] # None => buf'[cur'[q]].block # None
                 /\ pc'[q] \in {"using", "changed"} => buf'[cur'[q]].valid
                 /\ pc'[q] = "iderw" => ~ Done(cur[q])'
                 /\ pc'[q] = "iowoken" => Done(cur[q])'
      <4>1. CASE q = p
        BY <1>0, <2>2, <2>4, <2>7, <4>1
      <4>2. CASE q # p /\ cur[q] # None
        <5>1. cur[q] \in Bufs /\ cur[q] # b /\ cur'[q] = cur[q] /\ pc'[q] = pc[q]
          BY <2>5, <2>7, <4>2 DEF IInv, Types
        <5>2. buf'[cur[q]] = buf[cur[q]]
          BY <2>4, <5>1
        <5> QED
          BY <4>2, <5>1, <5>2 DEF IInv, BlockInv, Done
      <4>3. CASE q # p /\ cur[q] = None
        BY <2>7, <4>3 DEF IInv, LockInv
      <4> QED
        BY <4>1, <4>2, <4>3
    <3> QED
      BY <3>1, <3>2, <3>3 DEF BlockInv
  <2>10. QueueInv'
    <3>1. ASSUME NEW j \in 1 .. Len(idequeue) PROVE Same(idequeue[j])
      <4>1. idequeue[j] \in Bufs /\ idequeue[j] # b
        BY <2>5, SMT DEF IInv, Types, QueueInv
      <4> QED
        BY <2>4, <4>1 DEF Same
    <3> QED
      BY <1>0, <1>2, <2>7, <3>1, QueueFrame
  <2>11. CleanInv'
    <3> SUFFICES ASSUME NEW c \in Bufs, buf'[c].valid, ~ buf'[c].dirty,
                        \A q \in Procs : pc'[q] = "changed" => cur'[q] # c
                 PROVE  buf'[c].data = disk'[buf'[c].block]
      BY DEF CleanInv
    <3>1. c # b /\ buf'[c] = buf[c]
      BY <2>2, <2>4
    <3>2. \A q \in Procs : pc[q] = "changed" => cur[q] # c
      BY <1>0, <2>7
    <3> QED
      BY <1>2, <3>1, <3>2 DEF IInv, CleanInv
  <2> QED
    BY <2>7, <2>8, <2>9, <2>10, <2>11 DEF IInv
<1>3. ASSUME Panic PROVE IInv'
  BY <1>3, PanicInv
<1> QED
  BY <1>1, <1>2, <1>3 DEF bget

----------------------------------------------------------------------------
\* The invariant is inductive.
LEMMA StepInv == IInv /\ [Next]_vars => IInv'
<1> SUFFICES ASSUME IInv, [Next]_vars PROVE IInv'
  OBVIOUS
<1>1. ASSUME NEW p \in Procs, Step(p) PROVE IInv'
  BY <1>1, AcquireInv, UserInv, ReleaseInv, BrelseInv, IderwInv, WokenInv, BgetInv DEF Step
<1>2. CASE device
  BY <1>2, DeviceInv
<1>3. CASE ideintr
  BY <1>3, IntrInv
<1>4. CASE halt \/ UNCHANGED vars
  <2>1. UNCHANGED <<buf, lru, idequeue, cmd, irq, disk, pc, cur, panicked>>
    BY <1>4 DEF halt, vars, procs
  <2>2. Types'
    BY <2>1 DEF IInv, Types
  <2>3. LockInv'
    BY <2>1, LockFrame
  <2>4. BlockInv'
    BY <2>1 DEF IInv, BlockInv, Done
  <2>5. QueueInv'
    BY <2>1, QueueFrame DEF Same
  <2>6. CleanInv'
    BY <2>1, CleanFrame DEF Same
  <2> QED
    BY <2>2, <2>3, <2>4, <2>5, <2>6 DEF IInv
<1> QED
  BY <1>1, <1>2, <1>3, <1>4 DEF Next

\* The invariant holds in every state.
LEMMA Invariance == Spec => []IInv
  BY InitInv, StepInv, PTL DEF Spec

(***************************************************************************)
(* iderw, ideintr and the sleep-locks lose no wakeup, however many         *)
(* processes wait: whoever sleeps for the disk is in idequeue, for which   *)
(* the controller works, and whoever sleeps for a buffer waits for a       *)
(* process that holds it.                                                  *)
(***************************************************************************)
THEOREM DiskNoMissedWakeup == Spec => []SleeperHasWaker
<1>1. IInv => SleeperHasWaker
  <2> SUFFICES ASSUME IInv, NEW p \in Procs
               PROVE  /\ pc[p] = "iowait" => /\ \E i \in 1 .. Len(idequeue) : cur[p] = idequeue[i]
                                             /\ cmd # NoCmd
                      /\ pc[p] = "lkwait" => buf[cur[p]].holder # None
    BY DEF SleeperHasWaker
  <2>1. pc[p] = "lkwait" => buf[cur[p]].holder # None
    BY DEF IInv, LockInv
  <2>2. ASSUME pc[p] = "iowait"
        PROVE  (\E i \in 1 .. Len(idequeue) : cur[p] = idequeue[i]) /\ cmd # NoCmd
    <3>1. PICK i \in 1 .. Len(idequeue) : cur[p] = idequeue[i]
      BY <2>2 DEF IInv, QueueInv
    <3>2. i \in DOMAIN idequeue /\ Len(idequeue) # 0
      BY SMT DEF IInv, Types
    <3>3. cmd.op # "none"
      BY <3>2 DEF IInv, QueueInv, idestart
    <3> QED
      BY <3>1, <3>2, <3>3, SMT DEF NoCmd
  <2> QED
    BY <2>1, <2>2
<1> QED
  BY <1>1, Invariance, PTL

\* The list keeps its length.
AllListed == Len(lru) = NBUF

LEMMA StepListed == AllListed /\ [Next]_vars => AllListed'
<1> SUFFICES ASSUME AllListed, [Next]_vars PROVE AllListed'
  OBVIOUS
<1>1. ASSUME NEW p \in Procs, brelse(p) PROVE AllListed'
  <2>1. PICK i \in 1 .. Len(lru) : lru' = MoveToFront(lru, i) \/ lru' = lru
    BY <1>1 DEF brelse
  <2>2. Len(MoveToFront(lru, i)) = NBUF
    BY DiskAssumption, SMT DEF MoveToFront, AllListed
  <2> QED
    BY <2>1, <2>2 DEF AllListed
<1>2. CASE lru' = lru
  BY <1>2 DEF AllListed
<1>3. ASSUME NEW p \in Procs, Step(p) PROVE lru' = lru \/ brelse(p)
  <2>1. Panic => lru' = lru
    BY DEF Panic
  <2>2. ASSUME NEW k \in Blocks, bget(p, k) PROVE lru' = lru
    BY <2>1, <2>2 DEF bget
  <2>3. ASSUME NEW v \in Values, change(p, v) PROVE lru' = lru
    BY <2>3 DEF change
  <2>4. CASE bwrite(p) \/ releasesleep(p) \/ iderw(p)
    BY <2>1, <2>4 DEF bwrite, releasesleep, iderw
  <2>5. CASE acquiresleep(p) \/ log_write(p) \/ iderw_woken(p)
    BY <2>5 DEF acquiresleep, log_write, iderw_woken
  <2> QED
    BY <1>3, <2>2, <2>3, <2>4, <2>5 DEF Step
<1>4. CASE device \/ ideintr \/ halt \/ UNCHANGED vars
  BY <1>2, <1>4 DEF device, ideintr, halt, vars
<1> QED
  BY <1>1, <1>2, <1>3, <1>4 DEF Next

(***************************************************************************)
(* BuffersSound, for any number of processes, blocks and buffers: what     *)
(* bread returns is the caller's alone and is its block (the process has   *)
(* the lock of the one buffer for that block, which is filled), a clean    *)
(* buffer that nobody has changed equals its block on disk, and no         *)
(* assertion of bwrite, brelse and iderw fails.                            *)
(***************************************************************************)
THEOREM BufferIsBlock == Spec => []BuffersSound
<1>1. IInv => UserHasBlock
  <2> SUFFICES ASSUME IInv, NEW p \in Procs, pc[p] \in {"using", "changed"}
               PROVE  /\ buf[cur[p]].holder = p
                      /\ buf[cur[p]].valid
                      /\ \A b \in Bufs : buf[b].block = buf[cur[p]].block => b = cur[p]
    BY DEF UserHasBlock
  <2>1. cur[p] \in Bufs /\ cur[p] # None /\ buf[cur[p]].holder = p
    BY HolderFacts DEF Holding
  <2> QED
    BY <2>1 DEF IInv, BlockInv
<1>2. IInv => CleanOnDisk
  BY DEF IInv, CleanInv, BlockInv, Done, CleanOnDisk
<1>3. IInv => AssertionsHold
  BY HolderFacts DEF IInv, BlockInv, Holding, AssertionsHold
<1>4. Init => AllListed
  BY DiskAssumption, SMT DEF Init, Bufs, AllListed
<1>5. IInv /\ AllListed => TypeOK
  <2>1. SUFFICES ASSUME IInv, AllListed PROVE TypeOK
    OBVIOUS
  <2>2. ASSUME NEW b \in Bufs PROVE buf[b].refcnt \in 0 .. Cardinality(Procs)
    <3>1. IsFiniteSet(Users(b)) /\ Cardinality(Users(b)) <= Cardinality(Procs)
      BY DiskAssumption, FS_Subset DEF Users
    <3>2. Cardinality(Users(b)) \in Nat /\ Cardinality(Procs) \in Nat
      BY <3>1, DiskAssumption, FS_CardinalityType
    <3>3. buf[b].refcnt = Cardinality(Users(b))
      BY <2>1 DEF IInv, LockInv
    <3> QED
      BY <3>1, <3>2, <3>3, SMT
  <2>3. buf \in [Bufs -> [block : Blocks \cup {None}, valid : BOOLEAN, dirty : BOOLEAN,
                          refcnt : 0 .. Cardinality(Procs),
                          holder : Procs \cup {None}, data : Values]]
    BY <2>1, <2>2, SMT DEF IInv, Types, BufType
  <2>4. Len(lru) = NBUF /\ \A b \in Bufs : \E i \in Bufs : lru[i] = b
    BY <2>1 DEF IInv, LockInv, Bufs, AllListed
  <2> QED
    BY <2>1, <2>3, <2>4 DEF IInv, Types, TypeOK
<1> QED
  BY <1>1, <1>2, <1>3, <1>4, <1>5, StepListed, Invariance, PTL DEF Spec, BuffersSound

----------------------------------------------------------------------------
\* Current and Holder as functions of the buffers f and the disk d.
FilledIn(f, k) == CHOOSE b \in Bufs : f[b].block = k /\ f[b].valid

LockedIn(f, k) == CHOOSE b \in Bufs : f[b].block = k /\ f[b].holder # None

ValueIn(f, d, k) == IF \E b \in Bufs : f[b].block = k /\ f[b].valid
                    THEN f[FilledIn(f, k)].data ELSE d[k]

HolderIn(f, k) == IF \E b \in Bufs : f[b].block = k /\ f[b].holder # None
                  THEN f[LockedIn(f, k)].holder ELSE None

\* A block that has a buffer has the value and the holder of that buffer.
LEMMA BlockInBuffer ==
  ASSUME NEW f, NEW d, NEW k \in Blocks,
         \A a, b \in Bufs : f[a].block = f[b].block /\ f[a].block # None => a = b
  PROVE  /\ \A b \in Bufs : f[b].block = k =>
              /\ ValueIn(f, d, k) = IF f[b].valid THEN f[b].data ELSE d[k]
              /\ HolderIn(f, k) = f[b].holder
         /\ (\A b \in Bufs : f[b].block # k) => ValueIn(f, d, k) = d[k] /\ HolderIn(f, k) = None
<1>0. k # None
  BY DiskAssumption
<1>1. ASSUME NEW e \in Bufs, f[e].block = k
      PROVE  /\ ValueIn(f, d, k) = IF f[e].valid THEN f[e].data ELSE d[k]
             /\ HolderIn(f, k) = f[e].holder
  <2>1. \A a \in Bufs : f[a].block = k => a = e
    BY <1>0, <1>1
  <2>2. ASSUME f[e].valid PROVE ValueIn(f, d, k) = f[e].data
    <3>1. \E b \in Bufs : f[b].block = k /\ f[b].valid
      BY <1>1, <2>2
    <3>2. FilledIn(f, k) \in Bufs /\ f[FilledIn(f, k)].block = k
      BY <3>1 DEF FilledIn
    <3>3. FilledIn(f, k) = e
      BY <2>1, <3>2
    <3> QED
      BY <3>1, <3>3 DEF ValueIn
  <2>3. ASSUME ~ f[e].valid PROVE ValueIn(f, d, k) = d[k]
    <3>1. ~ \E b \in Bufs : f[b].block = k /\ f[b].valid
      BY <2>1, <2>3
    <3> QED
      BY <3>1 DEF ValueIn
  <2>4. ASSUME f[e].holder # None PROVE HolderIn(f, k) = f[e].holder
    <3>1. \E b \in Bufs : f[b].block = k /\ f[b].holder # None
      BY <1>1, <2>4
    <3>2. LockedIn(f, k) \in Bufs /\ f[LockedIn(f, k)].block = k
      BY <3>1 DEF LockedIn
    <3>3. LockedIn(f, k) = e
      BY <2>1, <3>2
    <3> QED
      BY <3>1, <3>3 DEF HolderIn
  <2>5. ASSUME f[e].holder = None PROVE HolderIn(f, k) = f[e].holder
    <3>1. ~ \E b \in Bufs : f[b].block = k /\ f[b].holder # None
      BY <2>1, <2>5
    <3> QED
      BY <2>5, <3>1 DEF HolderIn
  <2>6. ValueIn(f, d, k) = IF f[e].valid THEN f[e].data ELSE d[k]
    BY <2>2, <2>3
  <2>7. HolderIn(f, k) = f[e].holder
    BY <2>4, <2>5
  <2> QED
    BY <2>6, <2>7
<1>2. ASSUME \A b \in Bufs : f[b].block # k
      PROVE  ValueIn(f, d, k) = d[k] /\ HolderIn(f, k) = None
  BY <1>2 DEF ValueIn, HolderIn
<1> QED
  BY <1>1, <1>2

\* The same, for a state that satisfies the invariant and its successor.
LEMMA Views ==
  ASSUME IInv, IInv', NEW k \in Blocks
  PROVE  /\ \A b \in Bufs : buf[b].block = k =>
              /\ Current(k) = IF buf[b].valid THEN buf[b].data ELSE disk[k]
              /\ Holder(k) = buf[b].holder
         /\ (\A b \in Bufs : buf[b].block # k) => Current(k) = disk[k] /\ Holder(k) = None
         /\ \A b \in Bufs : buf'[b].block = k =>
              /\ Current(k)' = IF buf'[b].valid THEN buf'[b].data ELSE disk'[k]
              /\ Holder(k)' = buf'[b].holder
         /\ (\A b \in Bufs : buf'[b].block # k) => Current(k)' = disk'[k] /\ Holder(k)' = None
<1>1. /\ Current(k) = ValueIn(buf, disk, k) /\ Holder(k) = HolderIn(buf, k)
      /\ Current(k)' = ValueIn(buf', disk', k) /\ Holder(k)' = HolderIn(buf', k)
  BY DEF Current, Holder, ValueIn, HolderIn, FilledIn, LockedIn
<1>2. \A a, b \in Bufs : buf[a].block = buf[b].block /\ buf[a].block # None => a = b
  BY DEF IInv, BlockInv
<1>3. \A a, b \in Bufs : buf'[a].block = buf'[b].block /\ buf'[a].block # None => a = b
  BY DEF IInv, BlockInv
<1> QED
  BY <1>1, <1>2, <1>3, BlockInBuffer, SMT

\* Steps that the callers of bio.c do not see.
LEMMA Unseen ==
  ASSUME \A k \in Blocks : Current(k)' = Current(k) /\ Holder(k)' = Holder(k)
  PROVE  UNCHANGED Store!vars
  BY DEF Store!vars

\* Buffers keep their blocks, what they hold, and their locks.
LEMMA UnseenFrame ==
  ASSUME IInv, IInv', UNCHANGED disk,
         \A c \in Bufs : /\ buf'[c].block = buf[c].block /\ buf'[c].valid = buf[c].valid
                         /\ buf'[c].data = buf[c].data /\ buf'[c].holder = buf[c].holder
  PROVE  UNCHANGED Store!vars
<1>1. ASSUME NEW k \in Blocks PROVE Current(k)' = Current(k) /\ Holder(k)' = Holder(k)
  <2>1. CASE \E b \in Bufs : buf[b].block = k
    <3>1. PICK b \in Bufs : buf[b].block = k
      BY <2>1
    <3> QED
      BY <3>1, Views, SMT
  <2>2. CASE \A b \in Bufs : buf[b].block # k
    BY <2>2, Views, SMT
  <2> QED
    BY <2>1, <2>2
<1> QED
  BY <1>1, Unseen

\* A process that gets a buffer owns the block of the buffer.
LEMMA AcquireStep ==
  ASSUME IInv, IInv', NEW p \in Procs, acquiresleep(p)
  PROVE  Store!Next \/ UNCHANGED Store!vars
<1> DEFINE b == cur[p]
<1>1. b \in Bufs /\ b # None /\ buf[b] \in BufType /\ UNCHANGED <<disk, cur>>
  BY DiskAssumption, SMT DEF IInv, Types, LockInv, acquiresleep
<1>2. CASE buf[b].holder = None
  <2>1. PICK k \in Blocks : buf[b].block = k
    BY <1>1 DEF IInv, BlockInv, BufType
  <2>2. buf' = [buf EXCEPT ![b] = [buf[b] EXCEPT !.holder = p]]
    BY <1>2 DEF acquiresleep
  <2>3. /\ buf'[b].holder = p /\ buf'[b].block = k
        /\ buf'[b].valid = buf[b].valid /\ buf'[b].data = buf[b].data
        /\ \A c \in Bufs : c # b => buf'[c] = buf[c]
    BY <1>1, <2>1, <2>2 DEF IInv, Types, BufType
  <2>4. Holder(k) = None /\ Holder(k)' = p /\ Current(k)' = Current(k)
    BY <1>1, <1>2, <2>1, <2>3, Views, SMT
  <2>5. ASSUME NEW m \in Blocks, m # k PROVE Current(m)' = Current(m) /\ Holder(m)' = Holder(m)
    <3>1. CASE \E c \in Bufs : buf[c].block = m
      <4>1. PICK c \in Bufs : buf[c].block = m
        BY <3>1
      <4>2. buf'[c] = buf[c]
        BY <2>1, <2>3, <2>5, <4>1
      <4> QED
        BY <1>1, <4>1, <4>2, Views, SMT
    <3>2. CASE \A c \in Bufs : buf[c].block # m
      <4>1. \A c \in Bufs : buf'[c].block # m
        BY <2>3, <2>5, <3>2
      <4> QED
        BY <1>1, <3>2, <4>1, Views
    <3> QED
      BY <3>1, <3>2
  <2>6. Store!Take(p, k)
    BY <2>4, <2>5 DEF Store!Take
  <2> QED
    BY <2>6 DEF Store!Next
<1>3. CASE buf[b].holder # None
  <2>1. buf' = buf
    BY <1>3 DEF acquiresleep
  <2> QED
    BY <1>1, <2>1, UnseenFrame
<1> QED
  BY <1>2, <1>3

\* What a process writes to its buffer is the value of the block.
LEMMA ChangeStep ==
  ASSUME IInv, IInv', NEW p \in Procs, NEW v \in Values, change(p, v)
  PROVE  Store!Next
<1> DEFINE b == cur[p]
<1>1. pc[p] = "using" /\ pc[p] \in Holding /\ UNCHANGED <<disk, cur>>
  BY DEF change, Holding
<1>2. b \in Bufs /\ b # None /\ buf[b] \in BufType /\ buf[b].holder = p /\ buf[b].valid
  BY <1>1, HolderFacts DEF IInv, BlockInv
<1>3. PICK k \in Blocks : buf[b].block = k
  BY <1>2 DEF IInv, BlockInv, BufType
<1>4. buf' = [buf EXCEPT ![b] = [buf[b] EXCEPT !.data = v]]
  BY DEF change
<1>5. /\ buf'[b].holder = p /\ buf'[b].block = k
      /\ buf'[b].valid = buf[b].valid /\ buf'[b].data = v
      /\ \A c \in Bufs : c # b => buf'[c] = buf[c]
  BY <1>2, <1>3, <1>4 DEF IInv, Types, BufType
<1>6. Holder(k) = p /\ Holder(k)' = p /\ Current(k)' = v
  <2>1. Holder(k) = p
    BY <1>2, <1>3, Views
  <2>2. Holder(k)' = p
    BY <1>2, <1>5, Views, SMT
  <2>3. buf'[b].valid
    BY <1>2, <1>5
  <2>4. Current(k)' = v
    BY <1>2, <1>5, <2>3, Views, SMT
  <2> QED
    BY <2>1, <2>2, <2>4
<1>7. ASSUME NEW m \in Blocks, m # k PROVE Current(m)' = Current(m) /\ Holder(m)' = Holder(m)
  <2>1. CASE \E c \in Bufs : buf[c].block = m
    <3>1. PICK c \in Bufs : buf[c].block = m
      BY <2>1
    <3>2. buf'[c] = buf[c]
      BY <1>3, <1>5, <1>7, <3>1
    <3> QED
      BY <1>1, <3>1, <3>2, Views, SMT
  <2>2. CASE \A c \in Bufs : buf[c].block # m
    <3>1. \A c \in Bufs : buf'[c].block # m
      BY <1>5, <1>7, <2>2
    <3> QED
      BY <1>1, <2>2, <3>1, Views
  <2> QED
    BY <2>1, <2>2
<1>8. Store!Write(p, k, v)
  BY <1>6, <1>7 DEF Store!Write
<1> QED
  BY <1>8 DEF Store!Next

\* releasesleep gives the block up.
LEMMA ReleaseStep ==
  ASSUME IInv, IInv', NEW p \in Procs, releasesleep(p)
  PROVE  Store!Next
<1> DEFINE b == cur[p]
<1>1. pc[p] = "using" /\ pc[p] \in Holding
  BY DEF releasesleep, Holding
<1>2. b \in Bufs /\ b # None /\ buf[b] \in BufType /\ buf[b].holder = p
  BY <1>1, HolderFacts
<1>3. PICK k \in Blocks : buf[b].block = k
  BY <1>2 DEF IInv, BlockInv, BufType
<1>4. buf' = [buf EXCEPT ![b] = [buf[b] EXCEPT !.holder = None]] /\ UNCHANGED <<disk, cur>>
  BY <1>2 DEF releasesleep
<1>5. /\ buf'[b].holder = None /\ buf'[b].block = k
      /\ buf'[b].valid = buf[b].valid /\ buf'[b].data = buf[b].data
      /\ \A c \in Bufs : c # b => buf'[c] = buf[c]
  BY <1>2, <1>3, <1>4 DEF IInv, Types, BufType
<1>6. Holder(k) = p /\ Holder(k)' = None /\ Current(k)' = Current(k)
  BY <1>2, <1>3, <1>4, <1>5, Views, SMT
<1>7. ASSUME NEW m \in Blocks, m # k PROVE Current(m)' = Current(m) /\ Holder(m)' = Holder(m)
  <2>1. CASE \E c \in Bufs : buf[c].block = m
    <3>1. PICK c \in Bufs : buf[c].block = m
      BY <2>1
    <3>2. buf'[c] = buf[c]
      BY <1>3, <1>5, <1>7, <3>1
    <3>3. disk' = disk
      BY <1>4
    <3> QED
      BY <3>1, <3>2, <3>3, Views, SMT
  <2>2. CASE \A c \in Bufs : buf[c].block # m
    <3>1. \A c \in Bufs : buf'[c].block # m
      BY <1>5, <1>7, <2>2
    <3> QED
      BY <1>4, <2>2, <3>1, Views
  <2> QED
    BY <2>1, <2>2
<1>8. Store!Release(p, k)
  BY <1>6, <1>7 DEF Store!Release
<1> QED
  BY <1>8 DEF Store!Next

\* Flags, counts, the list and the queue are not seen.
LEMMA InnerStep ==
  ASSUME IInv, IInv', NEW p \in Procs,
         bwrite(p) \/ log_write(p) \/ brelse(p) \/ iderw(p) \/ iderw_woken(p)
  PROVE  UNCHANGED Store!vars
<1> SUFFICES \A c \in Bufs :
                /\ buf'[c].block = buf[c].block /\ buf'[c].valid = buf[c].valid
                /\ buf'[c].data = buf[c].data /\ buf'[c].holder = buf[c].holder
  <2>1. UNCHANGED disk
    BY DEF bwrite, log_write, brelse, iderw, iderw_woken, Panic
  <2> QED
    BY <2>1, UnseenFrame
<1>1. CASE UNCHANGED buf
  BY <1>1
<1> DEFINE b == cur[p]
<1>2. ASSUME NEW r, buf' = [buf EXCEPT ![b] = r], b \in Bufs,
             r.block = buf[b].block, r.valid = buf[b].valid,
             r.data = buf[b].data, r.holder = buf[b].holder
      PROVE  \A c \in Bufs :
                /\ buf'[c].block = buf[c].block /\ buf'[c].valid = buf[c].valid
                /\ buf'[c].data = buf[c].data /\ buf'[c].holder = buf[c].holder
  <2>1. buf'[b] = r /\ \A c \in Bufs : c # b => buf'[c] = buf[c]
    BY <1>2 DEF IInv, Types
  <2> QED
    BY <1>2, <2>1
<1>3. ASSUME bwrite(p) \/ log_write(p), ~ UNCHANGED buf
      PROVE  \A c \in Bufs :
                /\ buf'[c].block = buf[c].block /\ buf'[c].valid = buf[c].valid
                /\ buf'[c].data = buf[c].data /\ buf'[c].holder = buf[c].holder
  <2> DEFINE r == [buf[b] EXCEPT !.dirty = TRUE]
  <2>1. b \in Bufs /\ buf[b] \in BufType
    <3>1. pc[p] \in Holding
      BY <1>3 DEF bwrite, log_write, Holding
    <3> QED
      BY <3>1, HolderFacts
  <2>2. /\ r.block = buf[b].block /\ r.valid = buf[b].valid
        /\ r.data = buf[b].data /\ r.holder = buf[b].holder
    BY <2>1 DEF BufType
  <2>3. buf' = [buf EXCEPT ![b] = r]
    BY <1>3 DEF bwrite, log_write, Panic
  <2> HIDE DEF r
  <2> QED
    BY <1>2, <2>1, <2>2, <2>3
<1>4. ASSUME brelse(p)
      PROVE  \A c \in Bufs :
                /\ buf'[c].block = buf[c].block /\ buf'[c].valid = buf[c].valid
                /\ buf'[c].data = buf[c].data /\ buf'[c].holder = buf[c].holder
  <2> DEFINE r == [buf[b] EXCEPT !.refcnt = @ - 1]
  <2>1. b \in Bufs /\ buf[b] \in BufType
    BY <1>4, SMT DEF brelse, IInv, Types, LockInv
  <2>2. /\ r.block = buf[b].block /\ r.valid = buf[b].valid
        /\ r.data = buf[b].data /\ r.holder = buf[b].holder
    BY <2>1 DEF BufType
  <2>3. buf' = [buf EXCEPT ![b] = r]
    BY <1>4 DEF brelse
  <2> HIDE DEF r
  <2> QED
    BY <1>2, <2>1, <2>2, <2>3
<1>5. ASSUME iderw(p) \/ iderw_woken(p) PROVE UNCHANGED buf
  BY <1>5 DEF iderw, iderw_woken, Panic
<1> QED
  BY <1>1, <1>3, <1>4, <1>5

\* A recycled buffer is clean, so its old block is on the disk as it was; the
\* new one is not in it yet.
LEMMA BgetStep ==
  ASSUME IInv, IInv', NEW p \in Procs, NEW k \in Blocks, bget(p, k)
  PROVE  UNCHANGED Store!vars
<1> DEFINE cached == {i \in 1 .. Len(lru) : buf[lru[i]].block = k}
           free == {i \in 1 .. Len(lru) : Recyclable(lru[i])}
<1>1. ASSUME NEW i \in cached, buf' = [buf EXCEPT ![lru[i]].refcnt = @ + 1], UNCHANGED disk
      PROVE  UNCHANGED Store!vars
  <2>1. PICK b \in Bufs : b = lru[i] /\ buf[b] \in BufType
    BY SMT DEF IInv, Types
  <2> DEFINE r == [buf[b] EXCEPT !.refcnt = @ + 1]
  <2>2. /\ r.block = buf[b].block /\ r.valid = buf[b].valid
        /\ r.data = buf[b].data /\ r.holder = buf[b].holder
    BY <2>1 DEF BufType
  <2>3. buf' = [buf EXCEPT ![b] = r]
    BY <1>1, <2>1
  <2> HIDE DEF r
  <2>4. buf'[b] = r /\ \A c \in Bufs : c # b => buf'[c] = buf[c]
    BY <2>3 DEF IInv, Types
  <2>5. \A c \in Bufs : /\ buf'[c].block = buf[c].block /\ buf'[c].valid = buf[c].valid
                        /\ buf'[c].data = buf[c].data /\ buf'[c].holder = buf[c].holder
    BY <2>2, <2>4
  <2> QED
    BY <1>1, <2>5, UnseenFrame
<1>2. ASSUME NEW i \in free, cached = {}, UNCHANGED disk, pc[p] = "out",
             buf' = [buf EXCEPT ![lru[i]].block = k, ![lru[i]].valid = FALSE,
                                ![lru[i]].dirty = FALSE, ![lru[i]].refcnt = 1]
      PROVE  UNCHANGED Store!vars
  <2>1. PICK b \in Bufs : /\ b = lru[i] /\ buf[b] \in BufType
                          /\ buf[b].refcnt = 0 /\ ~ buf[b].dirty
    BY SMT DEF IInv, Types, Recyclable
  <2> DEFINE r == [buf[b] EXCEPT !.block = k, !.valid = FALSE, !.dirty = FALSE, !.refcnt = 1]
  <2>2. r.holder = buf[b].holder /\ r.block = k /\ r.valid = FALSE
    BY <2>1 DEF BufType
  <2>3. buf' = [buf EXCEPT ![b] = r]
    BY <1>2, <2>1
  <2> HIDE DEF r
  <2>4. buf'[b] = r /\ \A c \in Bufs : c # b => buf'[c] = buf[c]
    BY <2>3 DEF IInv, Types
  <2>5. \A q \in Procs : cur[q] # b
    <3>1. IsFiniteSet(Users(b)) /\ Cardinality(Users(b)) = 0
      BY <2>1, FS_Subset, DiskAssumption DEF Users, IInv, LockInv
    <3>2. Users(b) = {}
      BY <3>1, FS_EmptySet
    <3> QED
      BY <3>2 DEF Users
  <2>6. buf[b].holder = None
    BY <2>1, <2>5, SMT DEF IInv, LockInv, BufType
  <2>7. \A c \in Bufs : buf[c].block # k
    <3> SUFFICES ASSUME NEW c \in Bufs PROVE buf[c].block # k
      OBVIOUS
    <3>1. PICK j \in 1 .. Len(lru) : lru[j] = c
      BY DEF IInv, LockInv
    <3>2. j \notin cached
      BY <1>2
    <3> QED
      BY <3>1, <3>2
  <2>8. ASSUME NEW m \in Blocks PROVE Current(m)' = Current(m) /\ Holder(m)' = Holder(m)
    <3>1. CASE m = k
      <4>1. Current(m) = disk[m] /\ Holder(m) = None
        BY <2>7, <3>1, Views
      <4>2. Current(m)' = disk'[m] /\ Holder(m)' = None
        BY <2>2, <2>4, <2>6, <3>1, Views
      <4> QED
        BY <1>2, <4>1, <4>2
    <3>2. CASE m # k /\ buf[b].block = m
      <4>1. \A c \in Bufs : buf'[c].block # m
        BY <2>2, <2>4, <3>2, DiskAssumption, SMT DEF IInv, BlockInv
      <4>2. Current(m)' = disk'[m] /\ Holder(m)' = None
        BY <4>1, Views
      <4>3. Holder(m) = None
        BY <2>6, <3>2, Views
      <4>4. Current(m) = IF buf[b].valid THEN buf[b].data ELSE disk[m]
        BY <3>2, Views
      <4>5. buf[b].valid => buf[b].data = disk[m]
        BY <2>1, <2>5, <3>2 DEF IInv, CleanInv
      <4> QED
        BY <1>2, <4>2, <4>3, <4>4, <4>5
    <3>3. CASE m # k /\ buf[b].block # m
      <4>1. CASE \E c \in Bufs : buf[c].block = m
        <5>1. PICK c \in Bufs : buf[c].block = m
          BY <4>1
        <5>2. buf'[c] = buf[c]
          BY <2>4, <3>3, <5>1
        <5>3. disk' = disk
          BY <1>2
        <5> QED
          BY <5>1, <5>2, <5>3, Views, SMT
      <4>2. CASE \A c \in Bufs : buf[c].block # m
        <5>1. \A c \in Bufs : buf'[c].block # m
          BY <2>2, <2>4, <3>3, <4>2
        <5> QED
          BY <1>2, <4>2, <5>1, Views
      <4> QED
        BY <4>1, <4>2
    <3> QED
      BY <3>1, <3>2, <3>3
  <2> QED
    BY <2>8, Unseen
<1>3. ASSUME Panic PROVE UNCHANGED Store!vars
  BY <1>3, UnseenFrame DEF Panic
<1> QED
  BY <1>1, <1>2, <1>3 DEF bget

\* The disk changes only under a dirty buffer, which has the block's value.
LEMMA DeviceStep == IInv /\ IInv' /\ device => UNCHANGED Store!vars
<1> SUFFICES ASSUME IInv, IInv', device PROVE UNCHANGED Store!vars
  OBVIOUS
<1> DEFINE b == idequeue[1]
<1>1. /\ cmd # NoCmd /\ UNCHANGED buf
      /\ disk' = IF cmd.op = "write" THEN [disk EXCEPT ![cmd.block] = cmd.data] ELSE disk
  BY DEF device
<1>2. Len(idequeue) # 0 /\ cmd = idestart(b)
  BY <1>1 DEF IInv, QueueInv
<1>3. b \in Bufs
  <2>1. 1 \in 1 .. Len(idequeue)
    BY <1>2, SMT DEF IInv, Types
  <2> QED
    BY <2>1, SMT DEF IInv, Types
<1>4. cmd.block = buf[b].block /\ (cmd.op = "write" => buf[b].valid)
  BY <1>2, <1>3 DEF idestart, IInv, BlockInv
<1>5. \A m \in Blocks : m # cmd.block => disk'[m] = disk[m]
  BY <1>1 DEF IInv, Types
<1>6. ASSUME NEW m \in Blocks PROVE Current(m)' = Current(m) /\ Holder(m)' = Holder(m)
  <2>1. CASE m = cmd.block
    <3>1. Holder(m)' = Holder(m)
      BY <1>1, <1>3, <1>4, <2>1, Views, SMT
    <3>2. CASE cmd.op = "write"
      BY <1>1, <1>3, <1>4, <2>1, <3>1, <3>2, Views, SMT
    <3>3. CASE cmd.op # "write"
      BY <1>1, <1>3, <1>4, <2>1, <3>1, <3>3, Views, SMT
    <3> QED
      BY <3>2, <3>3
  <2>2. CASE m # cmd.block
    <3>1. CASE \E c \in Bufs : buf[c].block = m
      BY <1>1, <1>5, <2>2, <3>1, Views, SMT
    <3>2. CASE \A c \in Bufs : buf[c].block # m
      BY <1>1, <1>5, <2>2, <3>2, Views, SMT
    <3> QED
      BY <3>1, <3>2
  <2> QED
    BY <2>1, <2>2
<1> QED
  BY <1>6, Unseen

\* The interrupt fills a buffer with what its block has, or finds it written.
LEMMA IntrStep == IInv /\ IInv' /\ ideintr => UNCHANGED Store!vars
<1> SUFFICES ASSUME IInv, IInv', ideintr PROVE UNCHANGED Store!vars
  OBVIOUS
<1> DEFINE b == idequeue[1]
           d == IF buf[b].dirty THEN buf[b].data ELSE disk[cmd.block]
           r == [buf[b] EXCEPT !.valid = TRUE, !.dirty = FALSE, !.data = d]
<1>1. Len(idequeue) # 0 /\ 1 \in 1 .. Len(idequeue) /\ Head(idequeue) = b /\ cmd = idestart(b)
  BY SMT DEF ideintr, IInv, Types, QueueInv
<1>2. b \in Bufs /\ ~ Done(b) /\ buf[b] \in BufType
  BY <1>1, SMTT(30) DEF IInv, Types, QueueInv
<1>3. /\ r.block = buf[b].block /\ r.valid = TRUE /\ r.data = d /\ r.holder = buf[b].holder
  BY <1>2 DEF BufType
<1>4. buf' = [buf EXCEPT ![b] = r] /\ UNCHANGED disk
  BY <1>1 DEF ideintr
<1>5. d = IF buf[b].valid THEN buf[b].data ELSE disk[buf[b].block]
  <2>1. cmd.block = buf[b].block
    BY <1>1 DEF idestart
  <2>2. buf[b].valid <=> buf[b].dirty
    BY <1>2 DEF Done, IInv, BlockInv
  <2> QED
    BY <2>1, <2>2
<1> HIDE DEF r, d
<1>6. buf'[b] = r /\ \A c \in Bufs : c # b => buf'[c] = buf[c]
  BY <1>2, <1>4 DEF IInv, Types
<1>7. ASSUME NEW m \in Blocks PROVE Current(m)' = Current(m) /\ Holder(m)' = Holder(m)
  <2>0. disk' = disk
    BY <1>4
  <2>1. CASE buf[b].block = m
    <3>1. Holder(m)' = Holder(m)
      BY <1>2, <1>3, <1>6, <2>1, Views, SMT
    <3>2. Current(m) = d
      BY <1>2, <1>5, <2>1, Views
    <3>3. Current(m)' = d
      BY <1>2, <1>3, <1>6, <2>1, Views, SMT
    <3> QED
      BY <3>1, <3>2, <3>3
  <2>2. CASE buf[b].block # m /\ \E c \in Bufs : buf[c].block = m
    <3>1. PICK c \in Bufs : buf[c].block = m
      BY <2>2
    <3>2. buf'[c] = buf[c]
      BY <1>6, <2>2, <3>1
    <3> QED
      BY <2>0, <3>1, <3>2, Views, SMT
  <2>3. CASE \A c \in Bufs : buf[c].block # m
    <3>1. \A c \in Bufs : buf'[c].block # m
      BY <1>2, <1>3, <1>6, <2>3
    <3> QED
      BY <2>0, <2>3, <3>1, Views
  <2> QED
    BY <2>1, <2>2, <2>3
<1> QED
  BY <1>7, Unseen

\* Every step of the cache is a step of the store, or is not seen.
LEMMA StepRefines == IInv /\ IInv' /\ [Next]_vars => [Store!Next]_(Store!vars)
<1> SUFFICES ASSUME IInv, IInv', [Next]_vars PROVE Store!Next \/ UNCHANGED Store!vars
  OBVIOUS
<1>1. ASSUME NEW p \in Procs, Step(p) PROVE Store!Next \/ UNCHANGED Store!vars
  BY <1>1, AcquireStep, ChangeStep, ReleaseStep, InnerStep, BgetStep DEF Step
<1>2. CASE device
  BY <1>2, DeviceStep
<1>3. CASE ideintr
  BY <1>3, IntrStep
<1>4. CASE halt \/ UNCHANGED vars
  BY <1>4, UnseenFrame DEF halt, vars
<1> QED
  BY <1>1, <1>2, <1>3, <1>4 DEF Next

(***************************************************************************)
(* The cache over the disk driver is transparent, for every number of      *)
(* processes, blocks and buffers: through bget's recycling, delayed writes *)
(* and the waits of iderw, a block has one value that only its one owner   *)
(* changes.                                                                *)
(***************************************************************************)
THEOREM CacheIsTransparent == Spec => DiskImplementsStore
<1>1. Init => Store!Init
  <2> SUFFICES ASSUME Init PROVE Store!Init
    OBVIOUS
  <2>1. \A k \in Blocks : Current(k) = disk[k] /\ Holder(k) = None
    BY DEF Init, Current, Holder
  <2>2. disk \in [Blocks -> Values]
    BY DEF Init
  <2> QED
    BY <2>1, <2>2 DEF Store!Init
<1>2. IInv /\ IInv' /\ [Next]_vars => [Store!Next]_(Store!vars)
  BY StepRefines
<1> QED
  BY <1>1, <1>2, Invariance, PTL DEF Spec, DiskImplementsStore, Store!Spec
=============================================================================
