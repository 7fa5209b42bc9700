----------------------------- MODULE LogProofs -----------------------------
(***************************************************************************)
(* Theorems about the log of log.c, for any number of processes, blocks    *)
(* and any sizes that satisfy LogAssumption.                               *)
(***************************************************************************)
EXTENDS Log, FiniteSetTheorems, TLAPS

\* A leaf is left to Zenon where it is pure logic, and cites SMT where it takes
\* arithmetic, records or sequences.
USE Zenon

Injective(h) == \A k, l \in 1 .. Len(h) : h[k] = h[l] => k = l

\* Who may be where: at most one committer, no call during a commit, and
\* between transactions the log is empty.
CtlInv == /\ panicked = FALSE
          /\ outstanding = Cardinality(InOp)
          /\ \A p, q \in Procs : pc[p] = "commit" /\ pc[q] = "commit" => p = q
          /\ committing => InOp = {}
          /\ committing <=> \E p \in Procs : pc[p] = "commit"
          /\ up => (committing <=> job # "none") /\ job # "boot"
          /\ ~ up => /\ job \in {"boot", "install", "clear"}
                     /\ ~ committing
                     /\ \A p \in Procs : pc[p] = "out"
          /\ job = "none" /\ InOp = {} => lh = <<>>
          /\ job = "finish" => lh = <<>>

\* The header on disk is empty, except from the commit until the log is
\* cleared; no block is twice in the log.
HeadInv == /\ Injective(lh) /\ Injective(head)
           /\ Len(lh) <= LOGSIZE /\ Len(head) <= LOGSIZE
           /\ job \in {"install", "clear"} => head = lh
           /\ job \in {"none", "log", "head", "finish"} => head = <<>>
           /\ job \in {"log", "head", "install"} => tail < Len(lh)
           /\ job \notin {"log", "install"} => tail = 0

\* A buffer that may be recycled equals its block; the log holds what the
\* buffers held; an installed block holds what the log holds.
DataInv == /\ ~ up => dirty = {}
           /\ dirty \subseteq Blocknos(lh)
           /\ \A b \in Blocks \ dirty : cache[b] = disk[b]
           /\ job = "log" => \A k \in 1 .. tail : logblk[k] = cache[lh[k]]
           /\ up /\ job \in {"head", "install", "clear"} =>
                \A k \in 1 .. Len(lh) : logblk[k] = cache[lh[k]]
           /\ job = "install" =>
                \A k \in 1 .. tail : disk[lh[k]] = logblk[k] /\ lh[k] \notin dirty
           /\ job = "clear" =>
                dirty = {} /\ \A k \in 1 .. Len(lh) : disk[lh[k]] = logblk[k]

\* A call in progress has logged what it wrote.
SpaceInv == /\ ReservationHolds
            /\ \A p \in InOp : /\ wrote[p] \subseteq Blocknos(lh)
                               /\ IsFiniteSet(wrote[p])
                               /\ Cardinality(wrote[p]) <= OpBlocks

IInv == TypeOK /\ CtlInv /\ HeadInv /\ DataInv /\ SpaceInv /\ SleeperHasWaker

----------------------------------------------------------------------------
\* The sets that are counted are finite.
LEMMA FiniteSets == /\ IsFiniteSet(InOp) /\ Cardinality(InOp) \in Nat
                    /\ IsFiniteSet(Reserved) /\ Cardinality(Reserved) \in Nat
<1>1. IsFiniteSet(InOp)
  BY FS_Subset, LogAssumption DEF InOp
<1>2. IsFiniteSet(1 .. MAXOPBLOCKS)
  BY FS_Interval, LogAssumption, SMT
<1>3. IsFiniteSet(Procs \X (1 .. MAXOPBLOCKS))
  BY <1>2, FS_Product, LogAssumption
<1>4. IsFiniteSet(Reserved)
  BY <1>3, FS_Subset DEF Reserved
<1> QED
  BY <1>1, <1>4, FS_CardinalityType

\* begin_op counts each call in progress by MAXOPBLOCKS: that is enough.
LEMMA ReservedBound == Cardinality(Reserved) <= Cardinality(InOp) * MAXOPBLOCKS
<1>1. IsFiniteSet(1 .. MAXOPBLOCKS) /\ Cardinality(1 .. MAXOPBLOCKS) = MAXOPBLOCKS
  BY FS_Interval, LogAssumption, SMT
<1>2. /\ IsFiniteSet(InOp \X (1 .. MAXOPBLOCKS))
      /\ Cardinality(InOp \X (1 .. MAXOPBLOCKS)) = Cardinality(InOp) * MAXOPBLOCKS
  BY <1>1, FiniteSets, FS_Product
<1>3. Reserved \subseteq InOp \X (1 .. MAXOPBLOCKS)
  BY DEF Reserved
<1> QED
  BY <1>2, <1>3, FS_Subset

\* A call that writes less than is set aside for it leaves two blocks over.
LEMMA TwoToSpare ==
  ASSUME TypeOK, SpaceInv, NEW p \in InOp
  PROVE  Len(lh) + 2 <= LOGSIZE
<1> DEFINE r == <<p, MAXOPBLOCKS>>
           s == <<p, MAXOPBLOCKS - 1>>
<1>1. Cardinality(wrote[p]) \in Nat /\ Cardinality(wrote[p]) <= OpBlocks
  BY FS_CardinalityType DEF SpaceInv
<1>2. r \in Reserved /\ s \in Reserved /\ r # s
  BY <1>1, LogAssumption, SMT DEF Reserved, InOp
<1>3. IsFiniteSet({r, s}) /\ Cardinality({r, s}) = 2
  <2>1. IsFiniteSet({r}) /\ Cardinality({r}) = 1
    BY FS_Singleton
  <2>2. s \notin {r}
    BY <1>2
  <2>3. IsFiniteSet({r} \cup {s}) /\ Cardinality({r} \cup {s}) = Cardinality({r}) + 1
    BY <2>1, <2>2, FS_AddElement
  <2>4. {r} \cup {s} = {r, s}
    OBVIOUS
  <2> QED
    BY <2>1, <2>3, <2>4, SMT
<1>4. {r, s} \subseteq Reserved
  BY <1>2
<1>5. Cardinality({r, s}) <= Cardinality(Reserved)
  BY <1>4, FiniteSets, FS_Subset
<1>6. Len(lh) \in Nat
  BY SMT DEF TypeOK
<1> QED
  BY <1>3, <1>5, <1>6, FiniteSets, LogAssumption, SMT DEF SpaceInv, ReservationHolds, n

----------------------------------------------------------------------------
\* The invariant holds at the start.
LEMMA InitInv == Init => IInv
<1> SUFFICES ASSUME Init PROVE IInv
  OBVIOUS
<1>1. InOp = {} /\ Reserved = {}
  BY DEF Init, InOp, Reserved
<1>2. Cardinality(InOp) = 0 /\ Cardinality(Reserved) = 0
  BY <1>1, FS_EmptySet
<1>3. TypeOK
  <2>1. Zero \in Values
    BY LogAssumption DEF Zero
  <2>2. logblk \in [1 .. LOGSIZE -> Values]
    BY <2>1 DEF Init
  <2>3. <<>> \in Seq(Blocks)
    BY SMT
  <2>4. pc \in [Procs -> {"out", "asleep", "retry", "op", "logging", "commit"}]
    BY DEF Init
  <2>5. wrote \in [Procs -> SUBSET Blocks]
    BY DEF Init
  <2> QED
    BY <2>2, <2>3, <2>4, <2>5 DEF Init, TypeOK
<1>4. CtlInv
  BY <1>1, <1>2 DEF Init, CtlInv
<1>5. HeadInv
  BY LogAssumption, SMT DEF Init, HeadInv, Injective
<1>6. DataInv
  BY DEF Init, DataInv, Blocknos
<1>7. SpaceInv
  BY <1>1, <1>2, LogAssumption, SMT DEF Init, SpaceInv, ReservationHolds, n
<1>8. SleeperHasWaker
  BY DEF Init, SleeperHasWaker
<1> QED
  BY <1>3, <1>4, <1>5, <1>6, <1>7, <1>8 DEF IInv

\* begin_op goes ahead only if the calls in progress and itself have room,
\* and sleeps only if there is someone to wake it.
LEMMA BeginInv ==
  ASSUME IInv, NEW p \in Procs, begin_op(p)
  PROVE  IInv'
<1> USE DEF IInv
<1>1. CASE committing \/ NoRoom
  <2>1. /\ pc' = [pc EXCEPT ![p] = "asleep"]
        /\ UNCHANGED <<onDisk, cache, dirty, lh, outstanding, wrote, committing,
                       job, tail, up, panicked>>
    BY <1>1 DEF begin_op
  <2>2. InOp' = InOp /\ Reserved' = Reserved
    BY <2>1 DEF TypeOK, InOp, Reserved, begin_op
  <2>3. TypeOK'
    BY <2>1 DEF TypeOK, onDisk
  <2>4. CtlInv'
    BY <2>1, <2>2, SMT DEF CtlInv, TypeOK, begin_op, Running
  <2>5. HeadInv'
    BY <2>1, SMT DEF HeadInv, Injective, onDisk
  <2>6. DataInv'
    BY <2>1, SMT DEF DataInv, Blocknos, onDisk
  <2>7. SpaceInv'
    BY <2>1, <2>2 DEF SpaceInv, ReservationHolds, n, Blocknos
  <2>8. committing \/ outstanding > 0
    <3> SUFFICES ASSUME ~ committing, outstanding = 0 PROVE FALSE
      BY SMT DEF TypeOK
    <3>1. InOp = {}
      BY FiniteSets, FS_EmptySet DEF CtlInv
    <3>2. lh = <<>>
      BY <3>1 DEF CtlInv, begin_op, Running
    <3> QED
      BY <1>1, <3>2, LogAssumption, SMT DEF NoRoom, n
  <2> QED
    BY <2>1, <2>3, <2>4, <2>5, <2>6, <2>7, <2>8 DEF SleeperHasWaker
<1>2. CASE ~ (committing \/ NoRoom)
  <2>1. /\ outstanding' = outstanding + 1
        /\ pc' = [pc EXCEPT ![p] = "op"]
        /\ wrote' = [wrote EXCEPT ![p] = {}]
        /\ UNCHANGED <<onDisk, cache, dirty, lh, committing, job, tail, up, panicked>>
    BY <1>2 DEF begin_op
  <2>2. InOp' = InOp \cup {p} /\ p \notin InOp
    BY <2>1 DEF TypeOK, InOp, begin_op
  <2>3. Cardinality(InOp') = Cardinality(InOp) + 1
    BY <2>2, FiniteSets, FS_AddElement
  <2>4. TypeOK'
    BY <2>1, SMT DEF TypeOK, onDisk
  <2>5. CtlInv'
    BY <1>2, <2>1, <2>2, <2>3, SMT DEF CtlInv, TypeOK, begin_op, Running
  <2>6. HeadInv'
    BY <2>1, SMT DEF HeadInv, Injective, onDisk
  <2>7. DataInv'
    BY <2>1, SMT DEF DataInv, Blocknos, onDisk
  <2>8. ReservationHolds'
    <3> DEFINE room == (outstanding + 1) * MAXOPBLOCKS
    <3>0. /\ (Cardinality(Reserved) <= Cardinality(InOp) * MAXOPBLOCKS)'
          /\ (Cardinality(Reserved) \in Nat)'
      BY ReservedBound, FiniteSets, PTL
    <3>1. Cardinality(Reserved') <= room
      BY <2>3, <3>0 DEF CtlInv
    <3>2. room \in Nat /\ Len(lh) \in Nat /\ Cardinality(Reserved') \in Nat
      BY <3>0, LogAssumption, SMT DEF TypeOK
    <3>3. Len(lh) + room <= LOGSIZE
      BY <1>2, <3>2, LogAssumption, SMT DEF NoRoom, n
    <3> HIDE DEF room
    <3> QED
      BY <2>1, <3>1, <3>2, <3>3, LogAssumption, SMT DEF ReservationHolds, n
  <2>9. SpaceInv'
    <3>1. \A q \in InOp' : q # p => q \in InOp /\ wrote'[q] = wrote[q]
      BY <2>1, <2>2 DEF InOp, TypeOK
    <3>2. wrote'[p] = {}
      BY <2>1 DEF TypeOK
    <3>3. IsFiniteSet(wrote'[p]) /\ Cardinality(wrote'[p]) = 0
      BY <3>2, FS_EmptySet
    <3>4. Blocknos(lh)' = Blocknos(lh)
      BY <2>1 DEF Blocknos
    <3>5. ASSUME NEW q \in InOp'
          PROVE  /\ wrote'[q] \subseteq Blocknos(lh)'
                 /\ IsFiniteSet(wrote'[q])
                 /\ Cardinality(wrote'[q]) <= OpBlocks
      <4>1. CASE q = p
        BY <4>1, <3>2, <3>3, LogAssumption, SMT
      <4>2. CASE q # p
        BY <4>2, <3>1, <3>4, <3>5 DEF SpaceInv
      <4> QED
        BY <4>1, <4>2
    <3> QED
      BY <2>8, <3>5 DEF SpaceInv
  <2>10. SleeperHasWaker'
    BY <2>1, SMT DEF SleeperHasWaker, TypeOK
  <2> QED
    BY <2>4, <2>5, <2>6, <2>7, <2>9, <2>10
<1> QED
  BY <1>1, <1>2

\* The assertions of log_write hold, whatever other calls log meanwhile.
LEMMA CheckInv ==
  ASSUME IInv, NEW p \in Procs, log_write_check(p)
  PROVE  IInv' /\ InOp' = InOp
<1> USE DEF IInv, onDisk
<1>1. p \in InOp
  BY DEF log_write_check, InOp
<1>2. Len(lh) + 2 <= LOGSIZE /\ Len(lh) \in Nat
  BY <1>1, TwoToSpare, SMT DEF TypeOK
<1>3. outstanding >= 1
  <2>1. Cardinality(InOp) # 0
    BY <1>1, FiniteSets, FS_EmptySet
  <2> QED
    BY <2>1, FiniteSets, SMT DEF CtlInv
<1>4. ~ (TooBig \/ outstanding < 1)
  BY <1>2, <1>3, LogAssumption, SMT DEF TooBig, n, TypeOK
<1>5. /\ pc' = [pc EXCEPT ![p] = "logging"]
      /\ UNCHANGED <<disk, logblk, head, cache, dirty, lh, outstanding, committing, wrote,
                     job, tail, up, panicked>>
  BY <1>4 DEF log_write_check
<1>6. InOp' = InOp
  BY <1>1, <1>5 DEF InOp, TypeOK
<1>7. Reserved' = Reserved
  BY <1>5, <1>6 DEF Reserved
<1>8. TypeOK'
  BY <1>5 DEF TypeOK
<1>9. CtlInv'
  BY <1>1, <1>5, <1>6, SMT DEF CtlInv, TypeOK, log_write_check, Running
<1>10. HeadInv'
  BY <1>5, SMT DEF HeadInv, Injective
<1>11. DataInv'
  BY <1>5, SMT DEF DataInv, Blocknos
<1>12. SpaceInv'
  BY <1>5, <1>6, <1>7 DEF SpaceInv, ReservationHolds, n, Blocknos
<1>13. SleeperHasWaker'
  BY <1>3, <1>5, SMT DEF SleeperHasWaker
<1> QED
  BY <1>6, <1>8, <1>9, <1>10, <1>11, <1>12, <1>13

\* log_write logs a block once and takes it from what is set aside.
LEMMA WriteInv ==
  ASSUME IInv, NEW p \in Procs, NEW b \in Blocks, NEW v \in Values, log_write(p, b, v)
  PROVE  IInv'
<1> USE DEF IInv
<1>1. p \in InOp /\ up /\ ~ committing /\ job = "none" /\ head = <<>> /\ tail = 0
  BY DEF log_write, Running, InOp, CtlInv, HeadInv
<1>2. Len(lh) + 2 <= LOGSIZE /\ Len(lh) \in Nat
  BY <1>1, TwoToSpare, SMT DEF TypeOK
<1>5. /\ pc' = [pc EXCEPT ![p] = "op"]
      /\ cache' = [cache EXCEPT ![b] = v]
      /\ dirty' = dirty \cup {b}
      /\ lh' = IF b \in Blocknos(lh) THEN lh ELSE Append(lh, b)
      /\ wrote' = [wrote EXCEPT ![p] = @ \cup {b}]
      /\ UNCHANGED <<onDisk, outstanding, committing, job, tail, up, panicked>>
  BY DEF log_write
<1>6. /\ lh' \in Seq(Blocks)
      /\ Blocknos(lh)' = Blocknos(lh) \cup {b}
      /\ Injective(lh)'
      /\ Len(lh') \in {Len(lh), Len(lh) + 1}
  <2>1. CASE b \in Blocknos(lh)
    BY <1>2, <1>5, <2>1, SMT DEF TypeOK, HeadInv, Injective, Blocknos
  <2>2. CASE b \notin Blocknos(lh)
    <3>1. lh' = Append(lh, b)
      BY <1>5, <2>2
    <3>2. /\ lh' \in Seq(Blocks) /\ Len(lh') = Len(lh) + 1
          /\ \A k \in 1 .. Len(lh) : lh'[k] = lh[k]
          /\ lh'[Len(lh) + 1] = b
      BY <3>1, SMT DEF TypeOK
    <3>3. 1 .. Len(lh') = (1 .. Len(lh)) \cup {Len(lh) + 1}
      BY <1>2, <3>2, SMT
    <3>4. Blocknos(lh)' = Blocknos(lh) \cup {b}
      BY <3>2, <3>3, SMT DEF Blocknos
    <3>5. \A k \in 1 .. Len(lh) : lh[k] # b
      BY <2>2 DEF Blocknos
    <3>6. Injective(lh)'
      BY <3>2, <3>3, <3>5 DEF HeadInv, Injective
    <3> QED
      BY <3>2, <3>4, <3>6
  <2> QED
    BY <2>1, <2>2
<1>7. InOp' = InOp
  BY <1>1, <1>5 DEF InOp, TypeOK
<1>8. TypeOK'
  BY <1>5, <1>6 DEF TypeOK, onDisk
<1>9. CtlInv'
  BY <1>1, <1>5, <1>7 DEF CtlInv, TypeOK
<1>10. HeadInv'
  <2>1. head' = head /\ Injective(head)'
    BY <1>5, SMT DEF HeadInv, Injective, onDisk
  <2>2. Len(lh') <= LOGSIZE
    BY <1>2, <1>6, LogAssumption, SMT
  <2> QED
    BY <1>1, <1>5, <1>6, <2>1, <2>2 DEF HeadInv
<1>11. DataInv'
  BY <1>1, <1>5, <1>6 DEF DataInv, TypeOK, onDisk
<1>12. /\ IsFiniteSet(wrote[p]) /\ wrote[p] \subseteq Blocknos(lh)
       /\ wrote'[p] = wrote[p] \cup {b}
       /\ \A q \in InOp : q # p => wrote'[q] = wrote[q]
  BY <1>1, <1>5 DEF SpaceInv, TypeOK, InOp
<1>13. /\ IsFiniteSet(wrote'[p])
       /\ Cardinality(wrote[p]) \in Nat /\ Cardinality(wrote'[p]) \in Nat
       /\ Cardinality(wrote'[p]) >= Cardinality(wrote[p])
       /\ b \notin wrote[p] => Cardinality(wrote'[p]) = Cardinality(wrote[p]) + 1
       /\ Cardinality(wrote'[p]) <= OpBlocks
  <2>1. /\ IsFiniteSet(wrote[p] \cup {b})
        /\ Cardinality(wrote[p] \cup {b}) = IF b \in wrote[p] THEN Cardinality(wrote[p])
                                            ELSE Cardinality(wrote[p]) + 1
    BY <1>12, FS_AddElement
  <2>2. Cardinality(wrote[p] \cup {b}) <= OpBlocks
    BY DEF log_write
  <2>3. Cardinality(wrote[p]) \in Nat
    BY <1>12, FS_CardinalityType
  <2> QED
    BY <1>12, <2>1, <2>2, <2>3, SMT
<1>14. Reserved' \subseteq Reserved
  <2>1. ASSUME NEW q \in InOp, NEW k \in 1 .. MAXOPBLOCKS, k > Cardinality(wrote'[q])
        PROVE  k > Cardinality(wrote[q])
    <3>1. CASE q = p
      BY <1>13, <2>1, <3>1, SMT
    <3>2. CASE q # p
      BY <1>12, <2>1, <3>2
    <3> QED
      BY <3>1, <3>2
  <2> QED
    BY <1>7, <2>1 DEF Reserved
<1>15. ReservationHolds'
  <2>0. (Cardinality(Reserved) \in Nat)'
    BY FiniteSets, PTL
  <2>1. CASE b \in Blocknos(lh)
    <3>1. Cardinality(Reserved') <= Cardinality(Reserved)
      BY <1>14, FiniteSets, FS_Subset
    <3>2. lh' = lh
      BY <1>5, <2>1
    <3> QED
      BY <1>2, <2>0, <3>1, <3>2, FiniteSets, LogAssumption, SMT DEF SpaceInv, ReservationHolds, n
  <2>2. CASE b \notin Blocknos(lh)
    <3> DEFINE r == <<p, Cardinality(wrote[p]) + 1>>
    <3>1. Cardinality(wrote'[p]) = Cardinality(wrote[p]) + 1
      BY <1>12, <1>13, <2>2
    <3>2. r \in Reserved /\ r \notin Reserved'
      BY <1>1, <1>13, <3>1, LogAssumption, SMT DEF Reserved, InOp
    <3>3. Reserved' \subseteq Reserved \ {r}
      BY <1>14, <3>2
    <3>4. /\ IsFiniteSet(Reserved \ {r})
          /\ Cardinality(Reserved \ {r}) = Cardinality(Reserved) - 1
      BY <3>2, FiniteSets, FS_RemoveElement
    <3>5. Cardinality(Reserved') <= Cardinality(Reserved) - 1
      BY <3>3, <3>4, FS_Subset, SMT
    <3> QED
      BY <1>2, <1>6, <2>0, <3>5, FiniteSets, LogAssumption, SMT DEF SpaceInv, ReservationHolds, n
  <2> QED
    BY <2>1, <2>2
<1>16. SpaceInv'
  BY <1>6, <1>7, <1>12, <1>13, <1>15 DEF SpaceInv
<1>17. SleeperHasWaker'
  BY <1>5 DEF SleeperHasWaker, TypeOK
<1> QED
  BY <1>8, <1>9, <1>10, <1>11, <1>16, <1>17

\* The last call to end becomes the only committer; any other wakes the
\* sleepers.
LEMMA EndInv ==
  ASSUME IInv, NEW p \in Procs, end_op(p)
  PROVE  IInv'
<1> USE DEF IInv
<1>1. p \in InOp /\ up /\ ~ committing /\ job = "none" /\ head = <<>> /\ tail = 0
  BY DEF end_op, Running, InOp, CtlInv, HeadInv
<1>2. /\ outstanding' = outstanding - 1
      /\ IF outstanding' = 0
         THEN /\ committing' = TRUE
              /\ pc' = [pc EXCEPT ![p] = "commit"]
              /\ job' = IF n > 0 THEN "log" ELSE "finish"
              /\ tail' = 0
         ELSE /\ pc' = WakeAnd(p, "out")
              /\ UNCHANGED <<committing, job, tail>>
      /\ UNCHANGED <<onDisk, cache, dirty, lh, wrote, up, panicked>>
  BY <1>1 DEF end_op
<1>3. InOp' = InOp \ {p} /\ pc' \in [Procs -> {"out", "asleep", "retry", "op", "logging", "commit"}]
  BY <1>2, SMTT(30) DEF InOp, TypeOK, WakeAnd
<1>4. /\ Cardinality(InOp') = Cardinality(InOp) - 1
      /\ outstanding' = Cardinality(InOp') /\ outstanding' \in Nat
  <2>1. Cardinality(InOp') = Cardinality(InOp) - 1
    BY <1>1, <1>3, FiniteSets, FS_RemoveElement
  <2>2. (Cardinality(InOp) \in Nat)'
    BY FiniteSets, PTL
  <2> QED
    BY <1>2, <2>1, <2>2 DEF CtlInv
<1>5. outstanding' = 0 <=> InOp' = {}
  <2>1. (IsFiniteSet(InOp))'
    BY FiniteSets, PTL
  <2> QED
    BY <1>4, <2>1, FS_EmptySet
<1>6. TypeOK'
  BY <1>1, <1>2, <1>3, <1>4 DEF TypeOK, onDisk
<1>7. Len(lh) \in Nat /\ (Len(lh) = 0 => lh = <<>>)
  BY SMT DEF TypeOK
<1>8. CtlInv'
  <2>1. CASE outstanding' = 0
    BY <1>1, <1>2, <1>3, <1>4, <1>5, <1>7, <2>1, SMT DEF CtlInv, TypeOK, n
  <2>2. CASE outstanding' # 0
    <3>1. \A q \in Procs : pc[q] # "commit" /\ pc'[q] # "commit"
      BY <1>1, <1>2, <2>2 DEF CtlInv, WakeAnd, TypeOK
    <3> QED
      BY <1>1, <1>2, <1>3, <1>4, <1>5, <2>2, <3>1 DEF CtlInv
  <2> QED
    BY <2>1, <2>2
<1>9. HeadInv'
  BY <1>1, <1>2, <1>7, SMT DEF HeadInv, Injective, onDisk, n
<1>10. DataInv'
  BY <1>1, <1>2, SMT DEF DataInv, Blocknos, onDisk, n
<1>11. SpaceInv'
  <2>1. Reserved' \subseteq Reserved
    BY <1>2, <1>3 DEF Reserved
  <2>2. Cardinality(Reserved') <= Cardinality(Reserved)
    BY <2>1, FiniteSets, FS_Subset
  <2>3. (Cardinality(Reserved) \in Nat)'
    BY FiniteSets, PTL
  <2>4. Blocknos(lh)' = Blocknos(lh)
    BY <1>2 DEF Blocknos
  <2>5. ReservationHolds'
    BY <1>2, <1>7, <2>2, <2>3, FiniteSets, LogAssumption, SMT DEF SpaceInv, ReservationHolds, n
  <2> QED
    BY <1>2, <1>3, <2>4, <2>5 DEF SpaceInv
<1>12. SleeperHasWaker'
  BY <1>2 DEF SleeperHasWaker, WakeAnd
<1> QED
  BY <1>6, <1>8, <1>9, <1>10, <1>11, <1>12

\* What no step of commit() or of the recovery changes.
LEMMA SpaceUnchanged ==
  ASSUME IInv, UNCHANGED <<outstanding, pc, wrote, lh>>
  PROVE  SpaceInv' /\ InOp' = InOp /\ Blocknos(lh)' = Blocknos(lh)
<1>1. InOp' = InOp /\ Blocknos(lh)' = Blocknos(lh)
  BY DEF InOp, Blocknos
<1>2. Reserved' = Reserved
  BY <1>1 DEF Reserved
<1> QED
  BY <1>1, <1>2 DEF IInv, SpaceInv, ReservationHolds, n

\* write_log copies one buffer to the log.
LEMMA WriteLogInv == IInv /\ write_log => IInv'
<1> SUFFICES ASSUME IInv, write_log PROVE IInv'
  OBVIOUS
<1> USE DEF IInv, write_log, calls
<1>1. SpaceInv' /\ InOp' = InOp /\ Blocknos(lh)' = Blocknos(lh)
  BY SpaceUnchanged
<1>2. Len(lh) \in Nat /\ tail + 1 \in 1 .. Len(lh) /\ tail + 1 \in 1 .. LOGSIZE
  BY LogAssumption, SMT DEF HeadInv, TypeOK
<1>3. TypeOK'
  BY <1>2, SMT DEF TypeOK, n
<1>4. CtlInv'
  BY <1>1 DEF CtlInv
<1>5. HeadInv'
  BY <1>2, SMT DEF HeadInv, Injective, TypeOK, n
<1>6. DataInv'
  <2>1. up
    BY DEF CtlInv
  <2>2. \A k \in 1 .. tail + 1 : logblk'[k] = cache[lh[k]]
    BY <1>2, LogAssumption, SMT DEF DataInv, TypeOK
  <2>3. CASE tail + 1 = n
    BY <1>1, <1>2, <2>1, <2>2, <2>3 DEF DataInv, n
  <2>4. CASE tail + 1 # n
    BY <1>1, <1>2, <2>1, <2>2, <2>4, SMT DEF DataInv, n
  <2> QED
    BY <2>3, <2>4
<1>7. SleeperHasWaker'
  BY DEF SleeperHasWaker
<1> QED
  BY <1>1, <1>3, <1>4, <1>5, <1>6, <1>7

\* The commit itself: from here on the header on disk names the blocks.
LEMMA WriteHeadInv == IInv /\ write_head => IInv'
<1> SUFFICES ASSUME IInv, write_head PROVE IInv'
  OBVIOUS
<1> USE DEF IInv, write_head, calls
<1>1. SpaceInv' /\ InOp' = InOp /\ Blocknos(lh)' = Blocknos(lh)
  BY SpaceUnchanged
<1>3. TypeOK'
  BY DEF TypeOK
<1>4. CtlInv'
  BY <1>1 DEF CtlInv
<1>5. HeadInv'
  BY DEF HeadInv, Injective, TypeOK
<1>6. DataInv'
  BY <1>1, SMT DEF DataInv, CtlInv, HeadInv
<1>7. SleeperHasWaker'
  BY DEF SleeperHasWaker
<1> QED
  BY <1>1, <1>3, <1>4, <1>5, <1>6, <1>7

\* Reading a recycled buffer again changes nothing: a dirty one is kept.
LEMMA BreadInv ==
  ASSUME IInv, NEW b \in Blocks, bread(b)
  PROVE  IInv' /\ cache' = cache
<1> USE DEF IInv, bread, calls, onDisk
<1>1. SpaceInv' /\ InOp' = InOp /\ Blocknos(lh)' = Blocknos(lh)
  BY SpaceUnchanged
<1>2. cache' = cache
  BY SMT DEF DataInv, TypeOK
<1>3. TypeOK'
  BY <1>2 DEF TypeOK
<1>4. CtlInv'
  BY <1>1 DEF CtlInv
<1>5. HeadInv'
  BY SMT DEF HeadInv, Injective
<1>6. DataInv'
  BY <1>1, <1>2, SMT DEF DataInv
<1>7. SleeperHasWaker'
  BY DEF SleeperHasWaker
<1> QED
  BY <1>1, <1>2, <1>3, <1>4, <1>5, <1>6, <1>7

\* install_trans, in a commit and in the recovery: a buffer it fills holds
\* that block already when the system is up.
LEMMA InstallInv == IInv /\ install_trans => IInv' /\ (up => cache' = cache)
<1> SUFFICES ASSUME IInv, install_trans PROVE IInv' /\ (up => cache' = cache)
  OBVIOUS
<1> USE DEF IInv, install_trans, calls
<1>1. SpaceInv' /\ InOp' = InOp /\ Blocknos(lh)' = Blocknos(lh)
  BY SpaceUnchanged
<1>2. /\ Len(lh) \in Nat /\ tail + 1 \in 1 .. Len(lh) /\ tail + 1 \in 1 .. LOGSIZE
      /\ lh[tail + 1] \in Blocks
  BY LogAssumption, SMT DEF HeadInv, TypeOK
<1>3. up => cache' = cache
  BY <1>2, SMT DEF DataInv, TypeOK
<1>4. TypeOK'
  BY <1>2, SMT DEF TypeOK, n
<1>5. CtlInv'
  BY <1>1 DEF CtlInv
<1>6. HeadInv'
  BY <1>2, SMT DEF HeadInv, Injective, TypeOK, n
<1>7. DataInv'
  <2>1. \A b \in Blocks \ dirty' : cache'[b] = disk'[b]
    BY <1>2 DEF DataInv, TypeOK
  <2>2. dirty' \subseteq Blocknos(lh)' /\ (~ up' => dirty' = {})
    BY <1>1 DEF DataInv
  <2>3. up => \A k \in 1 .. Len(lh) : logblk[k] = cache'[lh[k]]
    BY <1>3 DEF DataInv
  <2>4. \A k \in 1 .. tail + 1 : disk'[lh[k]] = logblk[k] /\ lh[k] \notin dirty'
    <3>1. ASSUME NEW k \in 1 .. tail + 1
          PROVE  disk'[lh[k]] = logblk[k] /\ lh[k] \notin dirty'
      <4>1. CASE k = tail + 1
        BY <1>2, <4>1 DEF TypeOK
      <4>2. CASE k # tail + 1
        <5>1. k \in 1 .. tail /\ k \in 1 .. Len(lh) /\ lh[k] \in Blocks
          BY <1>2, <4>2, SMT DEF TypeOK
        <5>2. lh[k] # lh[tail + 1]
          BY <1>2, <4>2, <5>1 DEF HeadInv, Injective
        <5> QED
          BY <5>1, <5>2 DEF DataInv, TypeOK
      <4> QED
        BY <4>1, <4>2
    <3> QED
      BY <3>1
  <2>5. CASE tail + 1 = n
    <3>1. dirty' = {}
      BY <2>2, <2>4, <2>5, SMT DEF Blocknos, n
    <3> QED
      BY <2>1, <2>2, <2>3, <2>4, <2>5, <3>1, SMT DEF DataInv, n
  <2>6. CASE tail + 1 # n
    BY <2>1, <2>2, <2>3, <2>4, <2>6, SMT DEF DataInv, n
  <2> QED
    BY <2>5, <2>6
<1>8. SleeperHasWaker'
  BY DEF SleeperHasWaker
<1> QED
  BY <1>1, <1>3, <1>4, <1>5, <1>6, <1>7, <1>8

\* Clearing the log: every block is where it belongs.
LEMMA ClearInv == IInv /\ clear_log => IInv' /\ cache = disk
<1> SUFFICES ASSUME IInv, clear_log PROVE IInv' /\ cache = disk
  OBVIOUS
<1> USE DEF IInv, clear_log, calls
<1>1. InOp' = InOp /\ InOp = {}
  BY DEF InOp, CtlInv
<1>2. Reserved' = Reserved
  BY <1>1 DEF Reserved
<1>3. dirty = {} /\ cache = disk
  BY SMT DEF DataInv, TypeOK
<1>4. lh' = <<>> /\ head' = <<>> /\ Len(lh') = 0 /\ Len(head') = 0 /\ Len(lh) \in Nat
  BY SMT DEF TypeOK
<1>5. TypeOK'
  BY <1>4, SMT DEF TypeOK
<1>6. CtlInv'
  BY <1>1, <1>4 DEF CtlInv
<1>7. HeadInv'
  BY <1>4, LogAssumption, SMT DEF HeadInv, Injective
<1>8. DataInv'
  BY <1>3, <1>4 DEF DataInv, TypeOK
<1>9. ReservationHolds'
  BY <1>2, <1>4, FiniteSets, LogAssumption, SMT DEF SpaceInv, ReservationHolds, n
<1>10. SpaceInv'
  BY <1>1, <1>9 DEF SpaceInv
<1>11. SleeperHasWaker'
  BY DEF SleeperHasWaker
<1> QED
  BY <1>3, <1>5, <1>6, <1>7, <1>8, <1>10, <1>11

\* The end of a commit wakes every sleeper.
LEMMA EndCommitInv ==
  ASSUME IInv, NEW p \in Procs, end_commit(p)
  PROVE  IInv'
<1> USE DEF IInv, end_commit, onDisk
<1>1. committing /\ InOp = {} /\ lh = <<>> /\ head = <<>> /\ up
  BY DEF CtlInv, HeadInv
<1>2. /\ InOp' = InOp
      /\ \A q \in Procs : pc'[q] \in {"out", "retry"}
      /\ pc' \in [Procs -> {"out", "asleep", "retry", "op", "logging", "commit"}]
  BY <1>1 DEF InOp, TypeOK, WakeAnd, CtlInv
<1>3. Reserved' = Reserved
  BY <1>2 DEF Reserved
<1>4. TypeOK'
  BY <1>2 DEF TypeOK
<1>5. CtlInv'
  BY <1>1, <1>2 DEF CtlInv
<1>6. HeadInv'
  BY <1>1, SMT DEF HeadInv, Injective
<1>7. DataInv'
  BY <1>1, SMT DEF DataInv, Blocknos
<1>8. SpaceInv'
  BY <1>1, <1>2, <1>3 DEF SpaceInv, ReservationHolds, n
<1>9. SleeperHasWaker'
  BY <1>2 DEF SleeperHasWaker
<1> QED
  BY <1>4, <1>5, <1>6, <1>7, <1>8, <1>9

\* Without calls nothing is set aside.
LEMMA NoneReserved == InOp = {} => Cardinality(Reserved) = 0 /\ Cardinality(InOp) = 0
<1> SUFFICES ASSUME InOp = {} PROVE Cardinality(Reserved) = 0 /\ Cardinality(InOp) = 0
  OBVIOUS
<1>1. Reserved = {}
  BY DEF Reserved
<1> QED
  BY <1>1, FS_EmptySet

\* The recovery takes the header from the disk, the only way a log that was
\* written before a crash comes back.
LEMMA ReadHeadInv == IInv /\ read_head => IInv'
<1> SUFFICES ASSUME IInv, read_head PROVE IInv'
  OBVIOUS
<1> USE DEF IInv, read_head, calls, onDisk
<1>1. ~ up /\ InOp = {} /\ InOp' = {} /\ dirty = {}
  BY DEF CtlInv, InOp, DataInv
<1>2. (InOp = {} => Cardinality(Reserved) = 0)'
  BY NoneReserved, PTL
<1>3. Len(head) \in Nat /\ (head # <<>> => 0 < Len(head)) /\ tail = 0
  BY SMT DEF TypeOK, HeadInv
<1>4. TypeOK'
  BY DEF TypeOK
<1>5. CtlInv'
  BY <1>1 DEF CtlInv
<1>6. HeadInv'
  BY <1>3, SMT DEF HeadInv, Injective
<1>7. DataInv'
  BY <1>1, <1>3, SMT DEF DataInv
<1>8. SpaceInv'
  BY <1>1, <1>2, <1>3, LogAssumption, SMT DEF SpaceInv, ReservationHolds, n, HeadInv
<1>9. SleeperHasWaker'
  BY DEF SleeperHasWaker
<1> QED
  BY <1>4, <1>5, <1>6, <1>7, <1>8, <1>9

\* A crash loses the memory; what is on disk satisfies the invariant alone.
LEMMA CrashInv == IInv /\ Crash => IInv'
<1> SUFFICES ASSUME IInv, Crash PROVE IInv'
  OBVIOUS
<1> USE DEF IInv, Crash, onDisk
<1>1. InOp' = {}
  BY DEF InOp
<1>2. (InOp = {} => Cardinality(Reserved) = 0 /\ Cardinality(InOp) = 0)'
  BY NoneReserved, PTL
<1>3. TypeOK'
  <2>1. <<>> \in Seq(Blocks)
    BY SMT
  <2> QED
    BY <2>1 DEF TypeOK
<1>4. CtlInv'
  BY <1>1, <1>2 DEF CtlInv
<1>5. HeadInv'
  BY LogAssumption, SMT DEF HeadInv, Injective
<1>6. DataInv'
  BY DEF DataInv, Blocknos
<1>7. SpaceInv'
  BY <1>1, <1>2, LogAssumption, SMT DEF SpaceInv, ReservationHolds, n
<1>8. SleeperHasWaker'
  BY DEF SleeperHasWaker
<1> QED
  BY <1>3, <1>4, <1>5, <1>6, <1>7, <1>8

\* Nothing changes.
LEMMA StutterInv == IInv /\ UNCHANGED vars => IInv'
<1> SUFFICES ASSUME IInv, UNCHANGED vars PROVE IInv'
  OBVIOUS
<1> USE DEF IInv, vars, calls, onDisk
<1>1. SpaceInv' /\ InOp' = InOp /\ Blocknos(lh)' = Blocknos(lh)
  BY SpaceUnchanged
<1>2. TypeOK'
  BY DEF TypeOK
<1>3. CtlInv'
  BY <1>1 DEF CtlInv
<1>4. HeadInv'
  BY SMT DEF HeadInv, Injective
<1>5. DataInv'
  BY <1>1 DEF DataInv
<1>6. SleeperHasWaker'
  BY DEF SleeperHasWaker
<1> QED
  BY <1>1, <1>2, <1>3, <1>4, <1>5, <1>6

\* The invariant is inductive.
LEMMA NextInv == IInv /\ [Next]_vars => IInv'
<1> SUFFICES ASSUME IInv, [Next]_vars PROVE IInv'
  OBVIOUS
<1>1. ASSUME NEW p \in Procs, begin_op(p) PROVE IInv'
  BY <1>1, BeginInv
<1>2. ASSUME NEW p \in Procs, NEW b \in Blocks, NEW v \in Values, log_write(p, b, v)
      PROVE  IInv'
  BY <1>2, WriteInv
<1>8. ASSUME NEW p \in Procs, log_write_check(p) PROVE IInv'
  BY <1>8, CheckInv
<1>3. ASSUME NEW p \in Procs, end_op(p) PROVE IInv'
  BY <1>3, EndInv
<1>4. ASSUME NEW p \in Procs, end_commit(p) PROVE IInv'
  BY <1>4, EndCommitInv
<1>5. ASSUME NEW b \in Blocks, bread(b) PROVE IInv'
  BY <1>5, BreadInv
<1>6. CASE write_log \/ write_head \/ install_trans \/ clear_log
  BY <1>6, WriteLogInv, WriteHeadInv, InstallInv, ClearInv
<1>7. CASE read_head \/ Crash \/ UNCHANGED vars
  BY <1>7, ReadHeadInv, CrashInv, StutterInv
<1> QED
  BY <1>1, <1>2, <1>3, <1>4, <1>5, <1>6, <1>7, <1>8 DEF Next

\* The invariant holds in every reachable state.
LEMMA AlwaysInv == Spec => []IInv
  BY InitInv, NextInv, PTL DEF Spec

----------------------------------------------------------------------------
(***************************************************************************)
(* The variables keep their types.                                         *)
(***************************************************************************)
THEOREM LogTypeCorrect == Spec => []TypeOK
<1>1. IInv => TypeOK
  BY DEF IInv
<1> QED
  BY <1>1, AlwaysInv, PTL

(***************************************************************************)
(* What begin_op sets aside is enough for the calls it lets in.            *)
(***************************************************************************)
THEOREM LogReservation == Spec => []ReservationHolds
<1>1. IInv => ReservationHolds
  BY DEF IInv, SpaceInv
<1> QED
  BY <1>1, AlwaysInv, PTL

(***************************************************************************)
(* log_write and end_op never panic.                                       *)
(***************************************************************************)
THEOREM LogNoPanic == Spec => []NoPanic
<1>1. IInv => NoPanic
  BY DEF IInv, CtlInv, NoPanic
<1> QED
  BY <1>1, AlwaysInv, PTL

(***************************************************************************)
(* No process sleeps in begin_op with nobody left to wake it.              *)
(***************************************************************************)
THEOREM LogNoMissedWakeup == Spec => []SleeperHasWaker
<1>1. IInv => SleeperHasWaker
  BY DEF IInv
<1> QED
  BY <1>1, AlwaysInv, PTL

----------------------------------------------------------------------------
View == IF up THEN cache ELSE Recovered

\* With an empty log the recovery leaves the disk as it is.
LEMMA RecoveredEmpty == TypeOK /\ head = <<>> => Recovered = disk
  BY SMT DEF TypeOK, Recovered, Blocknos

\* The log's k-th block is what the recovery writes to its place.
LEMMA RecoveredAt ==
  ASSUME Injective(head), NEW k \in 1 .. Len(head)
  PROVE  logblk[CHOOSE l \in 1 .. Len(head) : head[l] = head[k]] = logblk[k]
<1>1. (CHOOSE l \in 1 .. Len(head) : head[l] = head[k]) = k
  BY DEF Injective
<1> QED
  BY <1>1

\* A step that changes neither the recovered disk nor what calls see.
LEMMA Invisible ==
  ASSUME Recovered' = Recovered, View' = View, InOp' = InOp
  PROVE  UNCHANGED Store!vars
  BY DEF Store!vars, View

\* The commit is the write of the header.
LEMMA CommitStep == IInv /\ write_head => Store!Commit
<1> SUFFICES ASSUME IInv, write_head PROVE Store!Commit
  OBVIOUS
<1> USE DEF IInv, write_head, calls
<1>1. up /\ InOp = {} /\ InOp' = InOp /\ cache' = cache /\ up' = up
  BY DEF CtlInv, InOp
<1>2. Injective(head)'
  BY DEF HeadInv, Injective
<1>3. ASSUME NEW b \in Blocks, b \in Blocknos(head')
      PROVE  logblk'[CHOOSE k \in 1 .. Len(head') : head'[k] = b] = cache[b]
  <2>1. PICK k \in 1 .. Len(lh) : lh[k] = b
    BY <1>3 DEF Blocknos
  <2>2. (CHOOSE l \in 1 .. Len(head') : head'[l] = b) = k
    BY <1>2, <2>1 DEF Injective
  <2> QED
    BY <1>1, <2>1, <2>2 DEF DataInv
<1>4. ASSUME NEW b \in Blocks, b \notin Blocknos(head')
      PROVE  disk'[b] = cache[b]
  <2>1. b \notin dirty
    BY <1>4, SMT DEF DataInv, Blocknos
  <2> QED
    BY <2>1 DEF DataInv
<1>5. Recovered' = [b \in Blocks |-> cache[b]]
  BY <1>3, <1>4, SMT DEF Recovered
<1>6. Recovered' = cache
  BY <1>5 DEF TypeOK
<1> QED
  BY <1>1, <1>6 DEF Store!Commit

\* install_trans changes only blocks that the log overrides.
LEMMA InstallStep == IInv /\ install_trans => UNCHANGED Store!vars
<1> SUFFICES ASSUME IInv, install_trans PROVE UNCHANGED Store!vars
  OBVIOUS
<1> USE DEF IInv, install_trans, calls
<1>1. head = lh /\ head' = head /\ logblk' = logblk /\ up' = up /\ InOp' = InOp
  BY DEF HeadInv, InOp
<1>2. lh[tail + 1] \in Blocknos(head)
  BY <1>1, SMT DEF HeadInv, TypeOK, Blocknos
<1>3. \A b \in Blocks : b \notin Blocknos(head) => disk'[b] = disk[b]
  BY <1>2 DEF TypeOK
<1>4. Recovered' = Recovered
  BY <1>1, <1>3, SMT DEF Recovered, Blocknos
<1>5. up => cache' = cache
  BY InstallInv
<1> HIDE DEF IInv, install_trans
<1>6. View' = View
  BY <1>1, <1>4, <1>5 DEF View
<1> QED
  BY <1>1, <1>4, <1>6, Invisible

\* Once every block is in its place the log can go.
LEMMA ClearStep == IInv /\ clear_log => UNCHANGED Store!vars
<1> SUFFICES ASSUME IInv, clear_log PROVE UNCHANGED Store!vars
  OBVIOUS
<1> USE DEF IInv, clear_log, calls
<1>1. head = lh /\ head' = <<>> /\ disk' = disk /\ cache' = cache /\ up' /\ InOp' = InOp
  BY DEF HeadInv, InOp
<1>2. cache = disk /\ TypeOK'
  BY ClearInv
<1>3. Recovered' = disk
  <2>1. (TypeOK /\ head = <<>> => Recovered = disk)'
    BY RecoveredEmpty, PTL
  <2> QED
    BY <1>1, <1>2, <2>1
<1>4. ASSUME NEW b \in Blocks, b \in Blocknos(head)
      PROVE  logblk[CHOOSE k \in 1 .. Len(head) : head[k] = b] = disk[b]
  <2>1. PICK k \in 1 .. Len(head) : head[k] = b
    BY <1>4 DEF Blocknos
  <2>2. logblk[CHOOSE l \in 1 .. Len(head) : head[l] = b] = logblk[k]
    BY <2>1, RecoveredAt, SMT DEF HeadInv
  <2> QED
    BY <1>1, <2>1, <2>2 DEF DataInv
<1> HIDE DEF IInv, clear_log
<1>5. Recovered = [b \in Blocks |-> disk[b]]
  <2>1. \A b \in Blocks : (IF b \in Blocknos(head)
                           THEN logblk[CHOOSE k \in 1 .. Len(head) : head[k] = b]
                           ELSE disk[b]) = disk[b]
    BY <1>4
  <2> QED
    BY <2>1 DEF Recovered
<1>6. Recovered = disk
  BY <1>5 DEF IInv, TypeOK
<1>7. View' = View
  BY <1>1, <1>2, <1>6 DEF View
<1> QED
  BY <1>1, <1>3, <1>6, <1>7, Invisible

\* Steps of calls leave the disk alone.
LEMMA DiskUnchanged == UNCHANGED onDisk => Recovered' = Recovered
  BY SMT DEF onDisk, Recovered, Blocknos

\* begin_op starts a call of the store, or puts the process to sleep.
LEMMA BeginStep ==
  ASSUME IInv, NEW p \in Procs, begin_op(p)
  PROVE  Store!Begin(p) \/ UNCHANGED Store!vars
<1> USE DEF IInv
<1>1. Recovered' = Recovered /\ View' = View
  BY DiskUnchanged DEF begin_op, View
<1>2. CASE committing \/ NoRoom
  <2>1. InOp' = InOp
    BY <1>2 DEF begin_op, InOp, TypeOK
  <2> QED
    BY <1>1, <2>1, Invisible
<1>3. CASE ~ (committing \/ NoRoom)
  <2>1. p \notin InOp /\ InOp' = InOp \cup {p}
    BY <1>3, SMT DEF begin_op, InOp, TypeOK
  <2> QED
    BY <1>1, <2>1 DEF Store!Begin, View
<1> QED
  BY <1>2, <1>3

\* log_write is a write of the store.
LEMMA WriteStep ==
  ASSUME IInv, NEW p \in Procs, NEW b \in Blocks, NEW v \in Values, log_write(p, b, v)
  PROVE  Store!Write(p, b, v)
<1> USE DEF IInv
<1>1. Recovered' = Recovered /\ p \in InOp /\ up /\ up'
  BY DiskUnchanged DEF log_write, InOp, Running
<1>2. InOp' = InOp
  BY DEF log_write, InOp, TypeOK
<1>3. cache' = [cache EXCEPT ![b] = v]
  BY DEF log_write
<1> QED
  BY <1>1, <1>2, <1>3 DEF Store!Write

\* end_op ends the call of the store.
LEMMA EndStep ==
  ASSUME IInv, NEW p \in Procs, end_op(p)
  PROVE  Store!End(p)
<1> USE DEF IInv
<1>1. Recovered' = Recovered /\ View' = View
  BY DiskUnchanged DEF end_op, View
<1>2. ~ committing /\ p \in InOp
  BY DEF end_op, CtlInv, InOp
<1>3. InOp' = InOp \ {p}
  BY <1>2 DEF end_op, InOp, TypeOK, WakeAnd
<1> QED
  BY <1>1, <1>2, <1>3 DEF Store!End, View

\* The end of end_op after a commit is invisible to the store.
LEMMA EndCommitStep ==
  ASSUME IInv, NEW p \in Procs, end_commit(p)
  PROVE  UNCHANGED Store!vars
<1> USE DEF IInv
<1>1. Recovered' = Recovered /\ View' = View
  BY DiskUnchanged DEF end_commit, View
<1>2. InOp' = InOp
  BY DEF end_commit, InOp, TypeOK, WakeAnd
<1> QED
  BY <1>1, <1>2, Invisible

\* Every step of the log is a step of the atomic store or invisible to it.
LEMMA StepRefines == IInv /\ [Next]_vars => [Store!Next]_(Store!vars)
<1> SUFFICES ASSUME IInv, [Next]_vars PROVE Store!Next \/ UNCHANGED Store!vars
  OBVIOUS
<1>1. ASSUME NEW p \in Procs, begin_op(p) PROVE Store!Next \/ UNCHANGED Store!vars
  BY <1>1, BeginStep DEF Store!Next
<1>2. ASSUME NEW p \in Procs, NEW b \in Blocks, NEW v \in Values, log_write(p, b, v)
      PROVE  Store!Next
  BY <1>2, WriteStep DEF Store!Next
<1>13. ASSUME NEW p \in Procs, log_write_check(p) PROVE UNCHANGED Store!vars
  <2>1. Recovered' = Recovered /\ InOp' = InOp
    BY <1>13, DiskUnchanged, CheckInv DEF log_write_check
  <2>2. View' = View
    BY <1>13, <2>1 DEF View, log_write_check
  <2> QED
    BY <2>1, <2>2, Invisible
<1>3. ASSUME NEW p \in Procs, end_op(p) PROVE Store!Next
  BY <1>3, EndStep DEF Store!Next
<1>4. ASSUME NEW p \in Procs, end_commit(p) PROVE UNCHANGED Store!vars
  BY <1>4, EndCommitStep
<1>5. ASSUME NEW b \in Blocks, bread(b) PROVE UNCHANGED Store!vars
  <2>1. Recovered' = Recovered /\ InOp' = InOp
    BY <1>5, DiskUnchanged DEF bread, calls, InOp
  <2>2. View' = View
    BY <1>5, <2>1, BreadInv DEF View, bread
  <2> QED
    BY <2>1, <2>2, Invisible
<1>6. CASE write_log
  <2>1. head = <<>> /\ TypeOK /\ TypeOK' /\ head' = head /\ disk' = disk
    BY <1>6, WriteLogInv DEF IInv, HeadInv, write_log
  <2>2. (TypeOK /\ head = <<>> => Recovered = disk)'
    BY RecoveredEmpty, PTL
  <2>3. Recovered' = Recovered
    BY <2>1, <2>2, RecoveredEmpty
  <2>4. View' = View /\ InOp' = InOp
    BY <1>6, <2>3 DEF write_log, calls, View, InOp
  <2> QED
    BY <2>3, <2>4, Invisible
<1>7. CASE write_head
  BY <1>7, CommitStep DEF Store!Next
<1>8. CASE install_trans
  BY <1>8, InstallStep
<1>9. CASE clear_log
  BY <1>9, ClearStep
<1>10. CASE read_head
  <2>1. Recovered' = Recovered
    BY <1>10, DiskUnchanged DEF read_head
  <2>2. View' = View /\ InOp' = InOp
    BY <1>10, <2>1 DEF read_head, calls, View, InOp
  <2> QED
    BY <2>1, <2>2, Invisible
<1>11. CASE Crash
  <2>1. Recovered' = Recovered
    BY <1>11, DiskUnchanged DEF Crash
  <2>2. ~ up' /\ InOp' = {}
    BY <1>11 DEF Crash, InOp
  <2>3. Store!Crash
    BY <2>1, <2>2 DEF Store!Crash
  <2> QED
    BY <2>3 DEF Store!Next
<1>12. CASE UNCHANGED vars
  <2>1. Recovered' = Recovered
    BY <1>12, DiskUnchanged DEF vars
  <2>2. View' = View /\ InOp' = InOp
    BY <1>12, <2>1 DEF vars, calls, View, InOp
  <2> QED
    BY <2>1, <2>2, Invisible
<1> QED
  BY <1>1, <1>2, <1>3, <1>4, <1>5, <1>6, <1>7, <1>8, <1>9, <1>10, <1>11, <1>12,
     <1>13 DEF Next

(***************************************************************************)
(* File system calls are atomic with respect to crashes: begin_op,         *)
(* log_write, end_op, commit and recover_from_log implement a store that   *)
(* changes only when no call is in progress.                               *)
(***************************************************************************)
THEOREM LogIsAtomic == Spec => LogImplementsStore
<1>1. Init => Store!Init
  <2> SUFFICES ASSUME Init PROVE Store!Init
    OBVIOUS
  <2>1. Recovered = disk
    BY InitInv, RecoveredEmpty DEF Init, IInv
  <2>2. InOp = {} /\ up = FALSE
    BY DEF Init, InOp
  <2> QED
    BY <2>1, <2>2 DEF Init, Store!Init
<1>2. Spec => []([Store!Next]_(Store!vars))
  BY StepRefines, AlwaysInv, PTL DEF Spec
<1> QED
  BY <1>1, <1>2, PTL DEF Spec, LogImplementsStore, Store!Spec
=============================================================================
