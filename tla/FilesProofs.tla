---------------------------- MODULE FilesProofs -----------------------------
(***************************************************************************)
(* Theorems about the file table of file.c and the pipes of pipe.c, for    *)
(* any number of processes, descriptors, files and pages.                  *)
(***************************************************************************)
EXTENDS FilesInvariant, TLAPS

\* A leaf is left to Zenon where it is pure logic, and cites SMT where it takes
\* arithmetic, records or sequences.
USE Zenon

----------------------------------------------------------------------------
(***************************************************************************)
(* What there is to know of counts of references and of Least.  The lemmas *)
(* on the actions take it as a hypothesis; CountingHolds proves it, from   *)
(* the theorems on finite sets.                                            *)
(***************************************************************************)
FdSet(d, f) == {k \in Fds : d[k] = f}

\* The table w is o with the descriptors of p copied to c, which had none for f.
Copied(o, w, p, c, f) ==
  /\ \A k \in Fds : o[c][k] # f
  /\ \A q \in Procs : w[q] = IF q = c THEN o[p] ELSE o[q]

\* Least, that fdalloc and filealloc rely on, is one of the set.
LeastTaken == \A S \in SUBSET Nat : S # {} => Least(S) \in S

\* Two free descriptors for sys_pipe.
TwoTaken == \A S \in SUBSET Fds : Cardinality(S) >= 2 => S # {} /\ S \ {Least(S)} # {}

\* Counts are numbers, and 0 for no reference.
SetsCounted ==
  /\ \A o, f : /\ Cardinality(RefSet(o, f)) \in Nat
               /\ Cardinality(RefSet(o, f)) = 0 <=> RefSet(o, f) = {}
  /\ \A v, f : /\ Cardinality(VarSet(v, f)) \in Nat
               /\ Cardinality(VarSet(v, f)) = 0 <=> VarSet(v, f) = {}

\* Another descriptor, or variable, at one place.
RefMoved == \A o, w, f : \A p \in Procs, d \in Fds : OnlyAt(w, o, p, d) =>
  Cardinality(RefSet(w, f)) + Eq(o[p][d], f) = Cardinality(RefSet(o, f)) + Eq(w[p][d], f)
VarMoved == \A v, w, f : \A p \in Procs : VarAt(w, v, p) =>
  Cardinality(VarSet(w, f)) + Eq(v[p], f) = Cardinality(VarSet(v, f)) + Eq(w[p], f)

\* fork copies all descriptors of a process.
RefsCopied == \A o, w, f : \A p, c \in Procs : Copied(o, w, p, c, f) =>
  /\ Cardinality(FdSet(o[p], f)) \in Nat
  /\ Cardinality(RefSet(w, f)) = Cardinality(RefSet(o, f)) + Cardinality(FdSet(o[p], f))

Counting == LeastTaken /\ TwoTaken /\ SetsCounted /\ RefMoved /\ VarMoved /\ RefsCopied

\* Least of a set is in the set.
LEMMA LeastIn ==
  ASSUME Counting, NEW S, S \subseteq Nat, S # {}
  PROVE  Least(S) \in S
BY DEF Counting, LeastTaken

\* The counts are natural numbers, and 0 for no reference at all.
LEMMA RefSetNat ==
  ASSUME Counting, NEW o, NEW v, NEW f
  PROVE  /\ Cardinality(RefSet(o, f)) \in Nat
         /\ Cardinality(RefSet(o, f)) = 0 <=> RefSet(o, f) = {}
         /\ Cardinality(VarSet(v, f)) \in Nat
         /\ Cardinality(VarSet(v, f)) = 0 <=> VarSet(v, f) = {}
BY DEF Counting, SetsCounted

\* The count over ofile after a change of one descriptor.
LEMMA RefSetAt ==
  ASSUME Counting, NEW u, NEW o, NEW p \in Procs, NEW d \in Fds, NEW f, OnlyAt(o, u, p, d)
  PROVE  Cardinality(RefSet(o, f)) + Eq(u[p][d], f) = Cardinality(RefSet(u, f)) + Eq(o[p][d], f)
BY SMT DEF Counting, RefMoved

\* The count over f0 or f1 after a change of one process.
LEMMA VarSetSet ==
  ASSUME Counting, NEW v, NEW w, NEW p \in Procs, NEW f, VarAt(w, v, p)
  PROVE  Cardinality(VarSet(w, f)) + Eq(v[p], f) = Cardinality(VarSet(v, f)) + Eq(w[p], f)
BY SMT DEF Counting, VarMoved

\* The count over ofile after fork copied the descriptors of p to c.
LEMMA Copies ==
  ASSUME Counting, NEW o, NEW w, NEW p \in Procs, NEW c \in Procs, NEW f, Copied(o, w, p, c, f)
  PROVE  /\ Cardinality(FdSet(o[p], f)) \in Nat
         /\ Cardinality(RefSet(w, f)) = Cardinality(RefSet(o, f)) + Cardinality(FdSet(o[p], f))
BY DEF Counting, RefsCopied

\* A file with no reference, and one with a descriptor.
LEMMA NoRefs ==
  ASSUME Counting, NEW f, Refs(f) = 0
  PROVE  \A p \in Procs : f0[p] # f /\ f1[p] # f /\ \A fd \in Fds : ofile[p][fd] # f
<1>1. /\ RefSet(ofile, f) = {} /\ VarSet(f0, f) = {} /\ VarSet(f1, f) = {}
  <2>1. /\ Cardinality(RefSet(ofile, f)) = 0 /\ Cardinality(VarSet(f0, f)) = 0
        /\ Cardinality(VarSet(f1, f)) = 0
    BY RefsSets, RefSetNat, SMT
  <2>2. QED
    BY <2>1, RefSetNat
<1>2. SUFFICES ASSUME NEW p \in Procs
               PROVE  f0[p] # f /\ f1[p] # f /\ \A fd \in Fds : ofile[p][fd] # f
  OBVIOUS
<1>3. f0[p] # f /\ f1[p] # f
  BY <1>1 DEF VarSet
<1>4. ASSUME NEW fd \in Fds PROVE ofile[p][fd] # f
  <2>1. <<p, fd>> \in Procs \X Fds /\ <<p, fd>>[1] = p /\ <<p, fd>>[2] = fd
    OBVIOUS
  <2>2. QED
    BY <1>1, <2>1 DEF RefSet
<1>5. QED
  BY <1>3, <1>4

\* Nobody has a file that has no references after the step.
LEMMA NoRefsPrime ==
  ASSUME Counting, NEW f, Refs(f)' = 0
  PROVE  \A p \in Procs : \A fd \in Fds : ofile'[p][fd] # f
<1>1. RefSet(ofile', f) = {}
  <2>1. Cardinality(RefSet(ofile', f)) = 0
    BY RefsSets, RefSetNat, SMT
  <2>2. QED
    BY <2>1, RefSetNat
<1>2. SUFFICES ASSUME NEW p \in Procs, NEW fd \in Fds PROVE ofile'[p][fd] # f
  OBVIOUS
<1>3. <<p, fd>> \in Procs \X Fds /\ <<p, fd>>[1] = p /\ <<p, fd>>[2] = fd
  OBVIOUS
<1>4. QED
  BY <1>1, <1>3 DEF RefSet

----------------------------------------------------------------------------
(***************************************************************************)
(* One reference more, one less.                                           *)
(***************************************************************************)
LEMMA RefsNat ==
  ASSUME Counting, NEW f
  PROVE  Refs(f) \in Nat /\ Refs(f)' \in Nat
BY RefsSets, RefSetNat, SMT

\* References after a step that only changes f0 of p.
LEMMA RefsByF0 ==
  ASSUME Counting, NEW p \in Procs, \A q \in Procs : q # p => f0'[q] = f0[q],
         UNCHANGED <<ofile, f1>>, NEW f
  PROVE  Refs(f)' + Eq(f0[p], f) = Refs(f) + Eq(f0'[p], f)
<1>1. Cardinality(VarSet(f0', f)) + Eq(f0[p], f) = Cardinality(VarSet(f0, f)) + Eq(f0'[p], f)
  <2> DEFINE v == f0
             w == f0'
  <2>1. VarAt(w, v, p)
    BY DEF VarAt
  <2> HIDE DEF v, w
  <2>2. Cardinality(VarSet(w, f)) + Eq(v[p], f) = Cardinality(VarSet(v, f)) + Eq(w[p], f)
    BY <2>1, VarSetSet, SMT
  <2> QED
    BY <2>2 DEF v, w
<1>2. /\ Refs(f) = Cardinality(RefSet(ofile, f)) + Cardinality(VarSet(f0, f))
                     + Cardinality(VarSet(f1, f))
      /\ Refs(f)' = Cardinality(RefSet(ofile, f)) + Cardinality(VarSet(f0', f))
                     + Cardinality(VarSet(f1, f))
  BY RefSetNat, RefsSets
<1>3. /\ Cardinality(VarSet(f0, f)) \in Nat /\ Cardinality(VarSet(f0', f)) \in Nat
      /\ Cardinality(VarSet(f1, f)) \in Nat /\ Cardinality(RefSet(ofile, f)) \in Nat
      /\ Eq(f0[p], f) \in Nat /\ Eq(f0'[p], f) \in Nat
  BY RefSetNat DEF Eq
<1>4. QED
  BY <1>1, <1>2, <1>3, SMT

\* References after a step that only changes f1 of p.
LEMMA RefsByF1 ==
  ASSUME Counting, NEW p \in Procs, \A q \in Procs : q # p => f1'[q] = f1[q],
         UNCHANGED <<ofile, f0>>, NEW f
  PROVE  Refs(f)' + Eq(f1[p], f) = Refs(f) + Eq(f1'[p], f)
<1>1. Cardinality(VarSet(f1', f)) + Eq(f1[p], f) = Cardinality(VarSet(f1, f)) + Eq(f1'[p], f)
  <2> DEFINE v == f1
             w == f1'
  <2>1. VarAt(w, v, p)
    BY DEF VarAt
  <2> HIDE DEF v, w
  <2>2. Cardinality(VarSet(w, f)) + Eq(v[p], f) = Cardinality(VarSet(v, f)) + Eq(w[p], f)
    BY <2>1, VarSetSet, SMT
  <2> QED
    BY <2>2 DEF v, w
<1>2. /\ Refs(f) = Cardinality(RefSet(ofile, f)) + Cardinality(VarSet(f1, f))
                     + Cardinality(VarSet(f0, f))
      /\ Refs(f)' = Cardinality(RefSet(ofile, f)) + Cardinality(VarSet(f1', f))
                     + Cardinality(VarSet(f0, f))
  BY RefSetNat, RefsSets, SMT
<1>3. /\ Cardinality(VarSet(f1, f)) \in Nat /\ Cardinality(VarSet(f1', f)) \in Nat
      /\ Cardinality(VarSet(f0, f)) \in Nat /\ Cardinality(RefSet(ofile, f)) \in Nat
      /\ Eq(f1[p], f) \in Nat /\ Eq(f1'[p], f) \in Nat
  BY RefSetNat DEF Eq
<1>4. QED
  BY <1>1, <1>2, <1>3, SMT

\* References after a step that only changes one descriptor.
LEMMA RefsByOfile ==
  ASSUME Counting, NEW p \in Procs, NEW fd \in Fds, UNCHANGED <<f0, f1>>, NEW f,
         \A q \in Procs, k \in Fds : q # p \/ k # fd => ofile'[q][k] = ofile[q][k]
  PROVE  Refs(f)' + Eq(ofile[p][fd], f) = Refs(f) + Eq(ofile'[p][fd], f)
<1>1. Cardinality(RefSet(ofile', f)) + Eq(ofile[p][fd], f)
        = Cardinality(RefSet(ofile, f)) + Eq(ofile'[p][fd], f)
  <2> DEFINE o == ofile
             w == ofile'
  <2>1. \A q \in Procs, k \in Fds : q # p \/ k # fd => w[q][k] = o[q][k]
    OBVIOUS
  <2> HIDE DEF o, w
  <2>2. Cardinality(RefSet(w, f)) + Eq(o[p][fd], f) = Cardinality(RefSet(o, f)) + Eq(w[p][fd], f)
    BY <2>1, RefSetAt, SMT DEF OnlyAt
  <2> QED
    BY <2>2 DEF o, w
<1>2. /\ Refs(f) = Cardinality(RefSet(ofile, f)) + Cardinality(VarSet(f0, f))
                     + Cardinality(VarSet(f1, f))
      /\ Refs(f)' = Cardinality(RefSet(ofile', f)) + Cardinality(VarSet(f0, f))
                     + Cardinality(VarSet(f1, f))
  BY RefSetNat, RefsSets
<1>3. /\ Cardinality(VarSet(f0, f)) \in Nat /\ Cardinality(VarSet(f1, f)) \in Nat
      /\ Cardinality(RefSet(ofile, f)) \in Nat /\ Cardinality(RefSet(ofile', f)) \in Nat
      /\ Eq(ofile[p][fd], f) \in Nat /\ Eq(ofile'[p][fd], f) \in Nat
  BY RefSetNat DEF Eq
<1>4. QED
  BY <1>1, <1>2, <1>3, SMT

\* Two descriptors for a and b in place of the variables.
LEMMA PipeRefs ==
  ASSUME Counting, NEW p \in Procs, NEW d \in Fds, NEW e \in Fds, d # e, NEW o,
         ofile[p][d] = None, ofile[p][e] = None,
         o[p][d] = f0[p], OnlyAt(o, ofile, p, d),
         ofile'[p][e] = f1[p],
         OnlyAt(ofile', o, p, e),
         f0'[p] = None, \A q \in Procs : q # p => f0'[q] = f0[q],
         f1'[p] = None, \A q \in Procs : q # p => f1'[q] = f1[q], NEW f \in Files
  PROVE  Refs(f)' = Refs(f)
<1> DEFINE w == ofile'
           x == Eq(f0[p], f)
           y == Eq(f1[p], f)
<1>0. o[p][e] = None
  BY DEF OnlyAt
<1>1. /\ OnlyAt(o, ofile, p, d) /\ OnlyAt(w, o, p, e)
      /\ ofile[p][d] = None /\ o[p][d] = f0[p] /\ o[p][e] = None /\ w[p][e] = f1[p]
  BY <1>0
<1>2. Eq(None, f) = 0 /\ x \in Nat /\ y \in Nat
  BY FilesNotNone DEF Eq
<1>3. /\ Cardinality(VarSet(f0', f)) + x = Cardinality(VarSet(f0, f)) + 0
      /\ Cardinality(VarSet(f1', f)) + y = Cardinality(VarSet(f1, f)) + 0
  <2>0. VarAt(f0', f0, p) /\ VarAt(f1', f1, p)
    BY DEF VarAt
  <2>1. Cardinality(VarSet(f0', f)) + x = Cardinality(VarSet(f0, f)) + Eq(f0'[p], f)
    BY <2>0, VarSetSet, SMT
  <2>2. Cardinality(VarSet(f1', f)) + y = Cardinality(VarSet(f1, f)) + Eq(f1'[p], f)
    BY <2>0, VarSetSet, SMT
  <2> QED
    BY <1>2, <2>1, <2>2
<1> HIDE DEF w
<1>4. Cardinality(RefSet(o, f)) + Eq(ofile[p][d], f) = Cardinality(RefSet(ofile, f)) + Eq(o[p][d], f)
  <2> DEFINE u == ofile
  <2>1. OnlyAt(o, u, p, d)
    BY <1>1
  <2> HIDE DEF u
  <2>2. Cardinality(RefSet(o, f)) + Eq(u[p][d], f) = Cardinality(RefSet(u, f)) + Eq(o[p][d], f)
    BY <2>1, RefSetAt, SMT
  <2> QED
    BY <2>2 DEF u
<1>5. Cardinality(RefSet(w, f)) + Eq(o[p][e], f) = Cardinality(RefSet(o, f)) + Eq(w[p][e], f)
  BY <1>1, RefSetAt, SMT
<1>6. /\ Cardinality(RefSet(o, f)) + 0 = Cardinality(RefSet(ofile, f)) + x
      /\ Cardinality(RefSet(w, f)) + 0 = Cardinality(RefSet(o, f)) + y
  BY <1>1, <1>2, <1>4, <1>5
<1>7. /\ Cardinality(RefSet(w, f)) \in Nat /\ Cardinality(RefSet(o, f)) \in Nat
      /\ Cardinality(RefSet(ofile, f)) \in Nat
      /\ Cardinality(VarSet(f0', f)) \in Nat /\ Cardinality(VarSet(f0, f)) \in Nat
      /\ Cardinality(VarSet(f1', f)) \in Nat /\ Cardinality(VarSet(f1, f)) \in Nat
  BY RefSetNat
<1>8. /\ Refs(f) = Cardinality(RefSet(ofile, f)) + Cardinality(VarSet(f0, f))
                     + Cardinality(VarSet(f1, f))
      /\ Refs(f)' = Cardinality(RefSet(w, f)) + Cardinality(VarSet(f0', f))
                     + Cardinality(VarSet(f1', f))
  BY RefsSets DEF w
<1> HIDE DEF x, y
<1> QED
  BY <1>2, <1>3, <1>6, <1>7, <1>8, SMT

\* The two descriptors that sys_pipe gets from fdalloc are free and different.
LEMMA TwoFds ==
  ASSUME Counting, NEW p \in Procs, Cardinality(FreeFds(p)) >= 2, NEW d, d = Least(FreeFds(p)),
         NEW e, e = Least(FreeFds(p) \ {d})
  PROVE  d \in Fds /\ e \in Fds /\ d # e /\ ofile[p][d] = None /\ ofile[p][e] = None
<1> DEFINE S == FreeFds(p)
<1>1. S \subseteq Nat /\ S \in SUBSET Fds
  BY SMT DEF FreeFds, Fds
<1>2. S # {} /\ S \ {d} # {}
  <2> HIDE DEF S
  <2> QED
    BY <1>1 DEF Counting, TwoTaken, S
<1>3. d \in S
  BY <1>1, <1>2, LeastIn
<1>4. e \in S \ {d}
  BY <1>1, <1>2, LeastIn
<1> QED
  BY <1>3, <1>4 DEF FreeFds

\* A file from filealloc.
LEMMA NewFile ==
  ASSUME Counting, Types, RefsCounted, FileInv, FreeFiles # {}, NEW l, l = Least(FreeFiles),
         file' = [file EXCEPT ![l].ref = 1]
  PROVE  /\ l \in Files /\ l # None
         /\ file' \in [Files -> FileType]
         /\ file'[l].ref = 1 /\ file[l].ref = 0 /\ file[l].pipe = None /\ ~ file[l].writable
         /\ \A f \in Files : SameEnds(f) /\ (f # l => file'[f] = file[f])
         /\ \A q \in Procs : f0[q] # l /\ f1[q] # l /\ \A fd \in Fds : ofile[q][fd] # l
<1>1. FreeFiles \subseteq Nat
  BY SMT DEF FreeFiles, Files
<1>2. l \in Files /\ file[l].ref = 0
  BY <1>1, LeastIn DEF FreeFiles
<1>3. l # None
  BY <1>2, FilesAssumption DEF Files
<1>4. file[l] \in FileType /\ file[l].pipe = None /\ ~ file[l].writable
  BY <1>2 DEF Types, FileInv
<1>5. file'[l] = [file[l] EXCEPT !.ref = 1] /\ \A f \in Files : f # l => file'[f] = file[f]
  BY <1>2 DEF Types
<1>6. /\ file'[l] \in FileType /\ file'[l].ref = 1
      /\ file'[l].pipe = file[l].pipe /\ file'[l].writable = file[l].writable
  BY <1>4, <1>5, SMT DEF FileType
<1>7. file' \in [Files -> FileType]
  BY <1>5, <1>6 DEF Types
<1>8. \A q \in Procs : f0[q] # l /\ f1[q] # l /\ \A fd \in Fds : ofile[q][fd] # l
  <2>1. Refs(l) = 0
    BY <1>2 DEF RefsCounted
  <2>2. QED
    BY <2>1, NoRefs
<1>9. \A f \in Files : SameEnds(f)
  BY <1>5, <1>6 DEF SameEnds
<1>10. QED
  BY <1>2, <1>3, <1>4, <1>5, <1>6, <1>7, <1>8, <1>9

\* A reference to f given up in fileclose.
LEMMA DropFile ==
  ASSUME Counting, Types, RefsCounted, NEW f \in Files, file' = Drop(f),
         \A g \in Files : Refs(g)' + Eq(g, f) = Refs(g)
  PROVE  /\ file' \in [Files -> FileType]
         /\ RefsCounted'
         /\ \A g \in Files : g # f => file'[g] = file[g]
         /\ file[f].ref > 1 => SameEnds(f)
         /\ ~ (file[f].ref > 1) => /\ file'[f].pipe = None /\ ~ file'[f].writable
                                   /\ file'[f].ref = 0
<1>1. file[f] \in FileType /\ file[f].ref \in Nat
  BY DEF Types, FileType
<1>2. \A g \in Files : g # f => file'[g] = file[g]
  BY DEF Drop, Types
<1>3. file'[f] = IF file[f].ref > 1 THEN [file[f] EXCEPT !.ref = @ - 1]
                 ELSE NoFile
  BY DEF Drop, Types
<1>4. file[f].ref > 1 => /\ file'[f] \in FileType /\ file'[f].ref = file[f].ref - 1
                         /\ SameEnds(f)
  BY <1>1, <1>3, SMT DEF FileType, SameEnds
<1>5. ~ (file[f].ref > 1) => /\ file'[f] \in FileType /\ file'[f].ref = 0
                             /\ file'[f].pipe = None /\ ~ file'[f].writable
  BY <1>3, SMT DEF FileType, NoFile
<1>6. file' \in [Files -> FileType]
  BY <1>2, <1>4, <1>5 DEF Types, Drop
<1>7. Refs(f) = file[f].ref /\ Refs(f)' \in Nat /\ Refs(f)' + 1 = Refs(f)
  BY RefsNat DEF RefsCounted, Eq
<1>8. file'[f].ref = Refs(f)'
  BY <1>1, <1>4, <1>5, <1>7, SMT
<1>9. ASSUME NEW g \in Files, g # f PROVE file'[g].ref = Refs(g)'
  <2>1. Refs(g)' + 0 = Refs(g) /\ Refs(g)' \in Nat /\ file[g].ref = Refs(g)
    BY <1>9, RefsNat DEF RefsCounted, Eq
  <2>2. QED
    BY <1>2, <1>9, <2>1, SMT
<1>10. RefsCounted'
  BY <1>8, <1>9 DEF RefsCounted
<1>11. QED
  BY <1>2, <1>4, <1>5, <1>6, <1>10

\* The first filealloc of pipealloc, or its failure.
LEMMA filealloc0Inv ==
  ASSUME Counting, IInv, NEW p \in Procs, filealloc0(p)
  PROVE  IInv'
<1> DEFINE l == Least(FreeFiles)
<1>1. /\ l \in Files /\ l # None
      /\ file' \in [Files -> FileType]
      /\ file'[l].ref = 1 /\ file[l].ref = 0 /\ file[l].pipe = None /\ ~ file[l].writable
      /\ \A f \in Files : SameEnds(f) /\ (f # l => file'[f] = file[f])
      /\ \A q \in Procs : f0[q] # l /\ f1[q] # l /\ \A fd \in Fds : ofile[q][fd] # l
  <2>1. FreeFiles # {} /\ file' = [file EXCEPT ![l].ref = 1]
    BY DEF filealloc0
  <2> HIDE DEF l
  <2>2. l = Least(FreeFiles)
    BY DEF l
  <2> QED
    BY <2>1, <2>2, NewFile DEF IInv
<1>2. /\ pc[p] = "run" /\ closing[p] = NoEnd
      /\ f0' = [f0 EXCEPT ![p] = l] /\ pc' = [pc EXCEPT ![p] = "pipe1"]
      /\ UNCHANGED <<pipe, ofile, f1, closing, io, todo, n, killed, kills>>
  BY DEF filealloc0, InUser, At, Goto
<1> HIDE DEF l
<1>3. /\ \A q \in Procs : f0'[q] = IF q = p THEN l ELSE f0[q]
      /\ \A q \in Procs : pc'[q] = IF q = p THEN "pipe1" ELSE pc[q]
  BY <1>2 DEF IInv, Types
<1>4. f0[p] = None /\ f1[p] = None /\ io[p] = None
  BY <1>2 DEF IInv, CallInv, Reading, Writing
<1>5. Types'
  BY <1>1, <1>2 DEF IInv, Types, PCs
<1>6. CallInv'
  BY <1>1, <1>2, <1>3, <1>4, SMT DEF IInv, CallInv, Reading, Writing
<1>7. RefsCounted'
  <2> SUFFICES ASSUME NEW f \in Files PROVE file'[f].ref = Refs(f)'
    BY DEF RefsCounted
  <2>1. Refs(f)' + Eq(None, f) = Refs(f) + Eq(l, f)
    BY <1>2, <1>3, <1>4, RefsByF0, SMT
  <2>2. file[f].ref = Refs(f) /\ Refs(f)' \in Nat /\ None # f /\ Refs(f) \in Nat
    BY RefsNat, FilesNotNone DEF IInv, RefsCounted
  <2>3. CASE f = l
    BY <1>1, <2>1, <2>2, <2>3, SMT DEF Eq
  <2>4. CASE f # l
    BY <1>1, <2>1, <2>2, <2>4, SMT DEF Eq
  <2> QED
    BY <2>3, <2>4
<1>8. LoneInv'
  BY <1>1, <1>2, <1>3, <1>4, SMT DEF IInv, LoneInv
<1>9. FileInv'
  <2>1. \A f \in Files : /\ file'[f].ref = 0 => file'[f].pipe = None
                         /\ file'[f].pipe = None => ~ file'[f].writable
    BY <1>1, SMT DEF IInv, FileInv, SameEnds
  <2>2. \A q \in Procs : pc'[q] \in {"pipe1", "pipe2"} => file'[f0'[q]].pipe = None
    BY <1>1, <1>3, Held, SMT DEF IInv, FileInv, SameEnds
  <2>3. \A q \in Procs : pc'[q] = "pipe2" => file'[f1'[q]].pipe = None
    BY <1>1, <1>2, <1>3, Held, SMT DEF IInv, FileInv, SameEnds
  <2> QED
    BY <2>1, <2>2, <2>3 DEF FileInv
<1>10. EndInv' /\ EndsMatch'
  BY <1>1, <1>2, EndsFrame DEF IInv
<1>11. OpenInv'
  <2>1. \A q \in Procs, fd \in Fds : ofile[q][fd] # None => SameEnds(ofile[q][fd])
    BY <1>1, Held
  <2> QED
    BY <1>2, <1>3, <2>1, OpenFrame, SMT DEF IInv, Reading, Writing
<1>12. WaitInv'
  BY <1>2, <1>3, WaitFrame, SMT DEF IInv, Asleep
<1> QED
  BY <1>5, <1>6, <1>7, <1>8, <1>9, <1>10, <1>11, <1>12 DEF IInv

\* The second filealloc of pipealloc, or its failure.
LEMMA filealloc1Inv ==
  ASSUME Counting, IInv, NEW p \in Procs, filealloc1(p)
  PROVE  IInv'
<1>1. /\ pc[p] = "pipe1" /\ closing[p] = NoEnd
      /\ UNCHANGED <<pipe, ofile, closing, io, todo, n, killed, kills>>
  BY DEF filealloc1, At
<1>2. f0[p] \in Files /\ file[f0[p]].pipe = None /\ f1[p] = None /\ io[p] = None
  BY <1>1, Held DEF IInv, CallInv, Reading, Writing, FileInv
<1>3. CASE FreeFiles # {}
  <2> DEFINE l == Least(FreeFiles)
  <2>1. /\ f1' = [f1 EXCEPT ![p] = l] /\ pc' = [pc EXCEPT ![p] = "pipe2"] /\ f0' = f0
        /\ file' = [file EXCEPT ![l].ref = 1]
    BY <1>3 DEF filealloc1, Goto
  <2>2. l = Least(FreeFiles)
    OBVIOUS
  <2> HIDE DEF l
  <2>3. /\ l \in Files /\ l # None
        /\ file' \in [Files -> FileType]
        /\ file'[l].ref = 1 /\ file[l].ref = 0 /\ file[l].pipe = None /\ ~ file[l].writable
        /\ \A f \in Files : SameEnds(f) /\ (f # l => file'[f] = file[f])
        /\ \A q \in Procs : f0[q] # l /\ f1[q] # l /\ \A fd \in Fds : ofile[q][fd] # l
    BY <1>3, <2>1, <2>2, NewFile DEF IInv
  <2>4. /\ \A q \in Procs : f1'[q] = IF q = p THEN l ELSE f1[q]
        /\ \A q \in Procs : pc'[q] = IF q = p THEN "pipe2" ELSE pc[q]
    BY <2>1 DEF IInv, Types
  <2>5. Types'
    BY <1>1, <2>1, <2>3 DEF IInv, Types, PCs
  <2>6. CallInv'
    BY <1>1, <1>2, <2>1, <2>3, <2>4, SMT DEF IInv, CallInv, Reading, Writing
  <2>7. ASSUME NEW f \in Files PROVE file'[f].ref = Refs(f)'
    <3>1. Refs(f)' + Eq(None, f) = Refs(f) + Eq(l, f)
      BY <1>1, <1>2, <2>1, <2>4, RefsByF1, SMT
    <3>2. file[f].ref = Refs(f) /\ Refs(f)' \in Nat /\ None # f /\ Refs(f) \in Nat
      BY RefsNat, FilesNotNone DEF IInv, RefsCounted
    <3>3. CASE f = l
      BY <2>3, <3>1, <3>2, <3>3, SMT DEF Eq
    <3>4. CASE f # l
      BY <2>3, <3>1, <3>2, <3>4, SMT DEF Eq
    <3> QED
      BY <3>3, <3>4
  <2>8. LoneInv'
    BY <1>1, <1>2, <2>1, <2>3, <2>4, SMT DEF IInv, LoneInv
  <2>9. FileInv'
    <3>1. \A f \in Files : /\ file'[f].ref = 0 => file'[f].pipe = None
                           /\ file'[f].pipe = None => ~ file'[f].writable
      BY <2>3, SMT DEF IInv, FileInv, SameEnds
    <3>2. \A q \in Procs : pc'[q] \in {"pipe1", "pipe2"} => file'[f0'[q]].pipe = None
      BY <1>2, <2>1, <2>3, <2>4, Held, SMT DEF IInv, FileInv, SameEnds
    <3>3. \A q \in Procs : pc'[q] = "pipe2" => file'[f1'[q]].pipe = None
      BY <2>3, <2>4, Held, SMT DEF IInv, FileInv, SameEnds
    <3> QED
      BY <3>1, <3>2, <3>3 DEF FileInv
  <2>10. EndInv' /\ EndsMatch'
    BY <1>1, <2>3, EndsFrame DEF IInv
  <2>11. OpenInv'
    <3>1. \A q \in Procs, fd \in Fds : ofile[q][fd] # None => SameEnds(ofile[q][fd])
      BY <2>3, Held
    <3> QED
      BY <1>1, <2>4, <3>1, OpenFrame DEF IInv, Reading, Writing
  <2>12. WaitInv'
    BY <1>1, <2>4, WaitFrame DEF IInv, Asleep
  <2> QED
    BY <2>5, <2>6, <2>7, <2>8, <2>9, <2>10, <2>11, <2>12 DEF IInv, RefsCounted
<1>4. CASE FreeFiles = {}
  <2> DEFINE f == f0[p]
  <2>1. /\ f0' = [f0 EXCEPT ![p] = None] /\ pc' = [pc EXCEPT ![p] = "run"] /\ f1' = f1
        /\ file' = Drop(f)
    BY <1>4 DEF filealloc1, Goto
  <2>2. /\ \A q \in Procs : f0'[q] = IF q = p THEN None ELSE f0[q]
        /\ \A q \in Procs : pc'[q] = IF q = p THEN "run" ELSE pc[q]
    BY <2>1 DEF IInv, Types
  <2>3. ASSUME NEW g \in Files PROVE Refs(g)' + Eq(g, f) = Refs(g)
    <3>1. Refs(g)' + Eq(f, g) = Refs(g) + Eq(None, g)
      BY <1>1, <2>1, <2>2, RefsByF0, SMT
    <3> QED
      BY <3>1, RefsNat, FilesNotNone, SMT DEF Eq
  <2>4. /\ file' \in [Files -> FileType]
        /\ RefsCounted'
        /\ \A g \in Files : g # f => file'[g] = file[g]
        /\ file[f].ref > 1 => SameEnds(f)
        /\ ~ (file[f].ref > 1) => file'[f].pipe = None /\ ~ file'[f].writable
    BY <1>2, <2>1, <2>3, DropFile DEF IInv
  <2>5. \A g \in Files : SameEnds(g)
    <3>1. SameEnds(f)
      <4>1. ~ file[f].writable /\ file[f] \in FileType /\ file'[f] \in FileType
        BY <1>2, <2>4 DEF IInv, FileInv, Types
      <4> QED
        BY <1>2, <2>4, <4>1 DEF SameEnds, FileType
    <3> QED
      BY <2>4, <3>1 DEF SameEnds
  <2> HIDE DEF f
  <2>6. Types'
    BY <1>1, <2>1, <2>4 DEF IInv, Types, PCs
  <2>7. CallInv'
    BY <1>1, <1>2, <2>1, <2>2, SMT DEF IInv, CallInv, Reading, Writing
  <2>8. LoneInv'
    BY <1>1, <2>1, <2>2, SMT DEF IInv, LoneInv
  <2>9. FileInv'
    <3>1. \A g \in Files : /\ file'[g].ref = 0 => file'[g].pipe = None
                           /\ file'[g].pipe = None => ~ file'[g].writable
      <4>1. f \in Files /\ file'[f].pipe = None
        BY <1>2, <2>5 DEF f, SameEnds
      <4> QED
        BY <2>4, <2>5, <4>1 DEF IInv, FileInv, SameEnds
    <3>2. \A q \in Procs : pc'[q] \in {"pipe1", "pipe2"} => file'[f0'[q]].pipe = None
      BY <2>2, <2>5, Held, SMT DEF IInv, FileInv, SameEnds
    <3>3. \A q \in Procs : pc'[q] = "pipe2" => file'[f1'[q]].pipe = None
      BY <2>1, <2>2, <2>5, Held, SMT DEF IInv, FileInv, SameEnds
    <3> QED
      BY <3>1, <3>2, <3>3 DEF FileInv
  <2>10. EndInv' /\ EndsMatch'
    BY <1>1, <2>5, EndsFrame DEF IInv
  <2>11. OpenInv'
    <3>1. \A q \in Procs, fd \in Fds : ofile[q][fd] # None => SameEnds(ofile[q][fd])
      BY <2>5, Held
    <3> QED
      BY <1>1, <2>2, <3>1, OpenFrame DEF IInv, Reading, Writing
  <2>12. WaitInv'
    BY <1>1, <2>2, WaitFrame DEF IInv, Asleep
  <2> QED
    BY <2>4, <2>6, <2>7, <2>8, <2>9, <2>10, <2>11, <2>12 DEF IInv
<1> QED
  BY <1>3, <1>4

\* pipealloc that gets no page: both files on their way back.
LEMMA pipe_nomemInv ==
  ASSUME Counting, IInv, NEW p \in Procs, pipe_nomem(p)
  PROVE  IInv'
<1> DEFINE a == f0[p]
           b == f1[p]
<1>1. /\ pc[p] = "pipe2" /\ closing[p] = NoEnd
      /\ f0' = [f0 EXCEPT ![p] = None] /\ f1' = [f1 EXCEPT ![p] = None]
      /\ pc' = [pc EXCEPT ![p] = "run"]
      /\ file' = [file EXCEPT ![a].ref = 0, ![b].ref = 0]
      /\ UNCHANGED <<pipe, ofile, closing, io, todo, n, killed, kills>>
  BY DEF pipe_nomem, At, Goto
<1>2. /\ a \in Files /\ b \in Files /\ a # b
      /\ file[a].pipe = None /\ file[b].pipe = None /\ io[p] = None
  BY <1>1, Held, FilesNotNone DEF IInv, CallInv, LoneInv, Reading, Writing, FileInv
<1>3. /\ \A q \in Procs : f0'[q] = IF q = p THEN None ELSE f0[q]
      /\ \A q \in Procs : f1'[q] = IF q = p THEN None ELSE f1[q]
      /\ \A q \in Procs : pc'[q] = IF q = p THEN "run" ELSE pc[q]
  BY <1>1 DEF IInv, Types
<1>4. /\ file' \in [Files -> FileType] /\ file'[a].ref = 0 /\ file'[b].ref = 0
      /\ \A f \in Files : SameEnds(f) /\ (f # a /\ f # b => file'[f] = file[f])
  <2> HIDE DEF a, b
  <2>1. file \in [Files -> FileType] /\ \A f \in Files : file[f] \in FileType
    BY DEF IInv, Types
  <2>2. /\ \A f \in Files : file'[f] = IF f \in {a, b} THEN [file[f] EXCEPT !.ref = 0] ELSE file[f]
        /\ DOMAIN file' = Files
    BY <1>1, <1>2, <2>1
  <2>3. \A f \in Files : /\ file'[f] \in FileType /\ SameEnds(f)
                         /\ f \in {a, b} => file'[f].ref = 0
    BY <2>1, <2>2, SMT DEF FileType, SameEnds
  <2>4. file' \in [Files -> FileType]
    BY <1>1, <2>1, <2>3
  <2> QED
    BY <1>2, <2>2, <2>3, <2>4
<1>5. \A q \in Procs : /\ f0'[q] # a /\ f0'[q] # b /\ f1'[q] # a /\ f1'[q] # b
                       /\ \A fd \in Fds : ofile'[q][fd] # a /\ ofile'[q][fd] # b
  BY <1>1, <1>2, <1>3, FilesNotNone, SMT DEF IInv, LoneInv
<1> HIDE DEF a, b
<1>6. Types'
  BY <1>1, <1>4 DEF IInv, Types, PCs
<1>7. CallInv'
  BY <1>1, <1>2, <1>3, SMT DEF IInv, CallInv, Reading, Writing
<1>8. ASSUME NEW f \in Files PROVE file'[f].ref = Refs(f)'
  <2>1. CASE f = a \/ f = b
    <3>1. RefSet(ofile', f) = {} /\ VarSet(f0', f) = {} /\ VarSet(f1', f) = {}
      BY <1>5, <2>1 DEF RefSet, VarSet
    <3>2. Refs(f)' = 0
      BY <3>1, RefsSets, RefSetNat, SMT
    <3> QED
      BY <1>4, <2>1, <3>2
  <2>2. CASE f # a /\ f # b
    <3>1. RefSet(ofile', f) = RefSet(ofile, f)
      BY <1>1
    <3>2. VarSet(f0', f) = VarSet(f0, f) /\ VarSet(f1', f) = VarSet(f1, f)
      BY <1>3, <2>2, FilesNotNone, SMT DEF VarSet, a, b
    <3> QED
      BY <1>4, <2>2, <3>1, <3>2, RefsSets DEF IInv, RefsCounted
  <2> QED
    BY <2>1, <2>2
<1>9. LoneInv'
  BY <1>1, <1>3, LoneLess DEF IInv
<1>10. FileInv'
  <2>1. \A f \in Files : /\ file'[f].ref = 0 => file'[f].pipe = None
                         /\ file'[f].pipe = None => ~ file'[f].writable
    BY <1>2, <1>4, SMT DEF IInv, FileInv, SameEnds
  <2>2. \A q \in Procs : pc'[q] \in {"pipe1", "pipe2"} => file'[f0'[q]].pipe = None
    BY <1>3, <1>4, Held, SMT DEF IInv, FileInv, SameEnds
  <2>3. \A q \in Procs : pc'[q] = "pipe2" => file'[f1'[q]].pipe = None
    BY <1>3, <1>4, Held, SMT DEF IInv, FileInv, SameEnds
  <2> QED
    BY <2>1, <2>2, <2>3 DEF FileInv
<1>11. EndInv' /\ EndsMatch'
  BY <1>1, <1>4, EndsFrame DEF IInv
<1>12. OpenInv'
  <2>1. \A q \in Procs, fd \in Fds : ofile[q][fd] # None => SameEnds(ofile[q][fd])
    BY <1>4, Held
  <2> QED
    BY <1>1, <1>3, <2>1, OpenFrame, SMT DEF IInv, Reading, Writing
<1>13. WaitInv'
  BY <1>1, <1>3, WaitFrame, SMT DEF IInv, Asleep
<1> QED
  BY <1>6, <1>7, <1>8, <1>9, <1>10, <1>11, <1>12, <1>13 DEF IInv, RefsCounted

\* What all callers of fileclose have in common.
LEMMA Closed ==
  ASSUME Counting, IInv, NEW p \in Procs, NEW f \in Files, fileclose(p, f), closing[p] = NoEnd,
         \A g \in Files : Refs(g)' + Eq(g, f) = Refs(g),
         UNCHANGED <<pipe, io, killed, kills>>,
         \A q \in Procs : q # p => /\ pc'[q] = pc[q] /\ ofile'[q] = ofile[q]
                                   /\ f0'[q] = f0[q] /\ f1'[q] = f1[q],
         pc[p] \in {"undo0", "undo1", "run", "exit"}, pc'[p] \in {"undo1", "run", "exit"}
  PROVE  /\ file' \in [Files -> FileType]
         /\ closing' \in [Procs -> [pipe : Pages \cup {None}, writable : BOOLEAN]]
         /\ closing'[p] # NoEnd => closing'[p].pipe # None
         /\ \A q \in Procs : q # p => closing'[q] = closing[q]
         /\ RefsCounted' /\ FileInv' /\ EndInv' /\ EndsMatch' /\ OpenInv' /\ WaitInv'
<1>1. /\ file' \in [Files -> FileType]
      /\ RefsCounted'
      /\ \A g \in Files : g # f => file'[g] = file[g]
      /\ file[f].ref > 1 => SameEnds(f)
      /\ ~ (file[f].ref > 1) => /\ file'[f].pipe = None /\ ~ file'[f].writable
                                /\ file'[f].ref = 0
  <2>1. file' = Drop(f)
    BY DEF fileclose
  <2> QED
    BY <2>1, DropFile DEF IInv
<1>2. /\ closing' \in [Procs -> [pipe : Pages \cup {None}, writable : BOOLEAN]]
      /\ closing'[p] # NoEnd => closing'[p].pipe # None
      /\ \A q \in Procs : q # p => closing'[q] = closing[q]
      /\ EndInv' /\ EndsMatch'
  <2>1. Dropped(f)
    BY <1>1 DEF Dropped
  <2> QED
    BY <2>1, CloseEnds
<1>3. \A q \in Procs : pc'[q] \in {"pipe1", "pipe2"} \cup Asleep \cup Reading \cup Writing =>
        q # p /\ pc'[q] = pc[q]
  BY DEF Asleep, Reading, Writing
<1>4. \A g \in Files : file'[g].pipe = None \/ SameEnds(g)
  BY <1>1 DEF SameEnds
<1>5. FileInv'
  <2>1. ASSUME file'[f].ref = 0 PROVE ~ (file[f].ref > 1)
    <3>1. /\ file[f].ref = Refs(f) /\ Refs(f)' = 0 /\ Refs(f)' + Eq(f, f) = Refs(f)
      BY <1>1, <2>1 DEF IInv, RefsCounted
    <3> QED
      BY <3>1, SMT DEF Eq
  <2>2. \A g \in Files : /\ file'[g].ref = 0 => file'[g].pipe = None
                         /\ file'[g].pipe = None => ~ file'[g].writable
    BY <1>1, <2>1, SMT DEF IInv, FileInv, SameEnds
  <2>3. \A q \in Procs : pc'[q] \in {"pipe1", "pipe2"} => file'[f0'[q]].pipe = None
    BY <1>3, <1>4, Held, SMT DEF IInv, FileInv, SameEnds
  <2>4. \A q \in Procs : pc'[q] = "pipe2" => file'[f1'[q]].pipe = None
    BY <1>3, <1>4, Held, SMT DEF IInv, FileInv, SameEnds
  <2> QED
    BY <2>2, <2>3, <2>4 DEF FileInv
<1>6. OpenInv'
  <2>1. ASSUME NEW q \in Procs, q # p, NEW fd \in Fds, ofile[q][fd] # None
        PROVE  ofile'[q][fd] = ofile[q][fd] /\ SameEnds(ofile[q][fd])
    <3> DEFINE g == ofile[q][fd]
    <3>1. ofile'[q][fd] = g /\ g \in Files
      BY <2>1, Held
    <3>2. Refs(g)' # 0
      BY <3>1, NoRefsPrime
    <3>3. file'[g].ref # 0
      BY <1>1, <3>1, <3>2 DEF RefsCounted
    <3> QED
      BY <1>1, <3>1, <3>3 DEF SameEnds
  <2> QED
    BY <1>3, <2>1, OpenFrame DEF IInv
<1>7. WaitInv'
  BY <1>3, WaitFrame DEF IInv, Asleep
<1> QED
  BY <1>1, <1>2, <1>5, <1>6, <1>7

\* fileclose of the first file, on the way out of sys_pipe.
LEMMA undo0Inv ==
  ASSUME Counting, IInv, NEW p \in Procs, undo0(p)
  PROVE  IInv'
<1>1. /\ pc[p] = "undo0" /\ closing[p] = NoEnd /\ fileclose(p, f0[p])
      /\ f0' = [f0 EXCEPT ![p] = None] /\ pc' = [pc EXCEPT ![p] = "undo1"]
      /\ UNCHANGED <<pipe, ofile, f1, io, todo, n, killed, kills>>
  BY DEF undo0, At, Goto
<1>2. f0[p] \in Files /\ f1[p] # None
  BY <1>1, Held DEF IInv, CallInv
<1>3. /\ \A q \in Procs : f0'[q] = IF q = p THEN None ELSE f0[q]
      /\ \A q \in Procs : pc'[q] = IF q = p THEN "undo1" ELSE pc[q]
  BY <1>1 DEF IInv, Types
<1>4. ASSUME NEW g \in Files PROVE Refs(g)' + Eq(g, f0[p]) = Refs(g)
  <2>1. Refs(g)' + Eq(f0[p], g) = Refs(g) + Eq(None, g)
    BY <1>1, <1>3, RefsByF0, SMT
  <2> QED
    BY <2>1, RefsNat, FilesNotNone, SMT DEF Eq
<1>5. /\ file' \in [Files -> FileType]
      /\ closing' \in [Procs -> [pipe : Pages \cup {None}, writable : BOOLEAN]]
      /\ closing'[p] # NoEnd => closing'[p].pipe # None
      /\ \A q \in Procs : q # p => closing'[q] = closing[q]
      /\ RefsCounted' /\ FileInv' /\ EndInv' /\ EndsMatch' /\ OpenInv' /\ WaitInv'
  BY <1>1, <1>2, <1>3, <1>4, Closed, SMT
<1>6. Types'
  BY <1>1, <1>5 DEF IInv, Types, PCs
<1>7. CallInv'
  BY <1>1, <1>2, <1>3, <1>5, SMT DEF IInv, CallInv, Reading, Writing
<1>8. LoneInv'
  BY <1>1, <1>3, LoneLess DEF IInv
<1> QED
  BY <1>5, <1>6, <1>7, <1>8 DEF IInv

\* fileclose of the second file, on the way out of sys_pipe.
LEMMA undo1Inv ==
  ASSUME Counting, IInv, NEW p \in Procs, undo1(p)
  PROVE  IInv'
<1>1. /\ pc[p] = "undo1" /\ closing[p] = NoEnd /\ fileclose(p, f1[p])
      /\ f1' = [f1 EXCEPT ![p] = None] /\ pc' = [pc EXCEPT ![p] = "run"]
      /\ UNCHANGED <<pipe, ofile, f0, io, todo, n, killed, kills>>
  BY DEF undo1, At, Goto
<1>2. f1[p] \in Files /\ f0[p] = None
  BY <1>1, Held DEF IInv, CallInv
<1>3. /\ \A q \in Procs : f1'[q] = IF q = p THEN None ELSE f1[q]
      /\ \A q \in Procs : pc'[q] = IF q = p THEN "run" ELSE pc[q]
  BY <1>1 DEF IInv, Types
<1>4. ASSUME NEW g \in Files PROVE Refs(g)' + Eq(g, f1[p]) = Refs(g)
  <2>1. Refs(g)' + Eq(f1[p], g) = Refs(g) + Eq(None, g)
    BY <1>1, <1>3, RefsByF1, SMT
  <2> QED
    BY <2>1, RefsNat, FilesNotNone, SMT DEF Eq
<1>5. /\ file' \in [Files -> FileType]
      /\ closing' \in [Procs -> [pipe : Pages \cup {None}, writable : BOOLEAN]]
      /\ closing'[p] # NoEnd => closing'[p].pipe # None
      /\ \A q \in Procs : q # p => closing'[q] = closing[q]
      /\ RefsCounted' /\ FileInv' /\ EndInv' /\ EndsMatch' /\ OpenInv' /\ WaitInv'
  BY <1>1, <1>2, <1>3, <1>4, Closed, SMT
<1>6. Types'
  BY <1>1, <1>5 DEF IInv, Types, PCs
<1>7. CallInv'
  BY <1>1, <1>2, <1>3, <1>5, SMT DEF IInv, CallInv, Reading, Writing
<1>8. LoneInv'
  BY <1>1, <1>3, LoneLess DEF IInv
<1> QED
  BY <1>5, <1>6, <1>7, <1>8 DEF IInv

\* fileclose of a descriptor, by close or by exit.
LEMMA CloseFdInv ==
  ASSUME Counting, IInv, NEW p \in Procs, NEW fd \in Fds,
         pc[p] \in {"run", "exit"}, closing[p] = NoEnd,
         CloseFd(p, fd), UNCHANGED <<pc, killed>>
  PROVE  IInv'
<1>1. /\ ofile[p][fd] # None /\ fileclose(p, ofile[p][fd])
      /\ ofile' = [ofile EXCEPT ![p][fd] = None]
      /\ UNCHANGED <<pipe, f0, f1, io, todo, n, kills>>
  BY DEF CloseFd
<1>2. ofile[p][fd] \in Files
  BY <1>1, Held
<1>3. /\ \A q \in Procs, k \in Fds : ofile'[q][k] = IF q = p /\ k = fd THEN None ELSE ofile[q][k]
      /\ \A q \in Procs : q # p => ofile'[q] = ofile[q]
  BY <1>1 DEF IInv, Types
<1>4. ASSUME NEW g \in Files PROVE Refs(g)' + Eq(g, ofile[p][fd]) = Refs(g)
  <2>1. Refs(g)' + Eq(ofile[p][fd], g) = Refs(g) + Eq(ofile'[p][fd], g)
    BY <1>1, <1>3, RefsByOfile, SMT
  <2> QED
    BY <1>3, <2>1, RefsNat, FilesNotNone, SMT DEF Eq
<1>5. /\ file' \in [Files -> FileType]
      /\ closing' \in [Procs -> [pipe : Pages \cup {None}, writable : BOOLEAN]]
      /\ closing'[p] # NoEnd => closing'[p].pipe # None
      /\ \A q \in Procs : q # p => closing'[q] = closing[q]
      /\ RefsCounted' /\ FileInv' /\ EndInv' /\ EndsMatch' /\ OpenInv' /\ WaitInv'
  BY <1>1, <1>2, <1>3, <1>4, Closed
<1>6. Types'
  BY <1>1, <1>5 DEF IInv, Types, PCs
<1>7. CallInv'
  BY <1>1, <1>2, <1>3, <1>5, SMT DEF IInv, CallInv, Reading, Writing
<1>8. LoneInv'
  <2>1. \A q \in Procs, k \in Fds : ofile'[q][k] = ofile[q][k] \/ ofile'[q][k] = None
    BY <1>3
  <2> QED
    BY <1>1, <2>1, LoneLess DEF IInv
<1> QED
  BY <1>5, <1>6, <1>7, <1>8 DEF IInv

\* open, that gets a file and a descriptor or gives the file back.
LEMMA sys_openInv ==
  ASSUME Counting, IInv, NEW p \in Procs, sys_open(p)
  PROVE  IInv'
<1> DEFINE l == Least(FreeFiles)
           fd == Least(FreeFds(p))
<1>1. /\ pc[p] = "run" /\ closing[p] = NoEnd /\ FreeFiles # {} /\ FreeFds(p) # {}
      /\ file' = [file EXCEPT ![l].ref = 1] /\ ofile' = [ofile EXCEPT ![p][fd] = l]
      /\ UNCHANGED <<pipe, pc, f0, f1, closing, io, todo, n, killed, kills>>
  BY DEF sys_open, InUser, At, call
<1>2. l = Least(FreeFiles)
  OBVIOUS
<1>3. fd \in Fds /\ ofile[p][fd] = None
  <2>1. FreeFds(p) \subseteq Nat
    BY SMT DEF FreeFds, Fds
  <2> QED
    BY <1>1, <2>1, LeastIn DEF FreeFds
<1> HIDE DEF l, fd
<1>4. /\ l \in Files /\ l # None
      /\ file' \in [Files -> FileType]
      /\ file'[l].ref = 1 /\ file[l].ref = 0 /\ file[l].pipe = None /\ ~ file[l].writable
      /\ \A f \in Files : SameEnds(f) /\ (f # l => file'[f] = file[f])
      /\ \A q \in Procs : f0[q] # l /\ f1[q] # l /\ \A k \in Fds : ofile[q][k] # l
  BY <1>1, <1>2, NewFile DEF IInv
<1>5. \A q \in Procs, k \in Fds : ofile'[q][k] = IF q = p /\ k = fd THEN l ELSE ofile[q][k]
  BY <1>1, <1>3 DEF IInv, Types
<1>6. Types'
  BY <1>1, <1>4 DEF IInv, Types
<1>7. CallInv'
  BY <1>1, <1>5, SMT DEF IInv, CallInv, Reading, Writing
<1>8. ASSUME NEW f \in Files PROVE file'[f].ref = Refs(f)'
  <2>1. Refs(f)' + Eq(None, f) = Refs(f) + Eq(l, f)
    BY <1>1, <1>3, <1>5, RefsByOfile, SMT
  <2>2. file[f].ref = Refs(f) /\ Refs(f)' \in Nat /\ None # f /\ Refs(f) \in Nat
    BY RefsNat, FilesNotNone DEF IInv, RefsCounted
  <2>3. CASE f = l
    BY <1>4, <2>1, <2>2, <2>3, SMT DEF Eq
  <2>4. CASE f # l
    BY <1>4, <2>1, <2>2, <2>4, SMT DEF Eq
  <2> QED
    BY <2>3, <2>4
<1>9. LoneInv'
  BY <1>1, <1>4, <1>5, SMT DEF IInv, LoneInv
<1>10. FileInv'
  <2>1. \A f \in Files : /\ file'[f].ref = 0 => file'[f].pipe = None
                         /\ file'[f].pipe = None => ~ file'[f].writable
    BY <1>4, SMT DEF IInv, FileInv, SameEnds
  <2>2. \A q \in Procs : /\ pc'[q] \in {"pipe1", "pipe2"} => file'[f0'[q]].pipe = None
                         /\ pc'[q] = "pipe2" => file'[f1'[q]].pipe = None
    BY <1>1, <1>4, Held, SMT DEF IInv, FileInv, SameEnds
  <2> QED
    BY <2>1, <2>2 DEF FileInv
<1>11. EndInv' /\ EndsMatch'
  BY <1>1, <1>4, EndsFrame DEF IInv
<1>12. OpenInv'
  <2>1. \A q \in Procs, k \in Fds : ofile[q][k] # None => SameEnds(ofile[q][k])
    BY <1>4, Held
  <2>2. \A q \in Procs, k \in Fds : ofile[q][k] # None => ofile'[q][k] = ofile[q][k]
    BY <1>3, <1>5
  <2> QED
    BY <1>1, <2>1, <2>2, OpenFrame DEF IInv, Reading, Writing
<1>13. WaitInv'
  BY <1>1, WaitFrame DEF IInv, Asleep
<1> QED
  BY <1>6, <1>7, <1>8, <1>9, <1>10, <1>11, <1>12, <1>13 DEF IInv, RefsCounted

\* dup, that has one more descriptor on the file.
LEMMA sys_dupInv ==
  ASSUME Counting, IInv, NEW p \in Procs, NEW fd \in Fds, sys_dup(p, fd)
  PROVE  IInv'
<1> DEFINE g == ofile[p][fd]
           e == Least(FreeFds(p))
<1>1. /\ pc[p] = "run" /\ closing[p] = NoEnd /\ g # None /\ FreeFds(p) # {}
      /\ file' = [file EXCEPT ![g].ref = @ + 1] /\ ofile' = [ofile EXCEPT ![p][e] = g]
      /\ UNCHANGED <<pipe, pc, f0, f1, closing, io, todo, n, killed, kills>>
  BY DEF sys_dup, InUser, At, call
<1>2. e \in Fds /\ ofile[p][e] = None
  <2>1. FreeFds(p) \subseteq Nat
    BY SMT DEF FreeFds, Fds
  <2> QED
    BY <1>1, <2>1, LeastIn DEF FreeFds
<1>3. g \in Files
  BY <1>1, Held
<1> HIDE DEF e
<1>4. \A q \in Procs, k \in Fds : ofile'[q][k] = IF q = p /\ k = e THEN g ELSE ofile[q][k]
  BY <1>1, <1>2 DEF IInv, Types
<1>5. /\ file'[g] = [file[g] EXCEPT !.ref = file[g].ref + 1] /\ file[g] \in FileType
      /\ \A f \in Files : f # g => file'[f] = file[f]
  BY <1>1, <1>3 DEF IInv, Types
<1>6. /\ file'[g] \in FileType /\ file'[g].ref = file[g].ref + 1 /\ file[g].ref \in Nat /\ SameEnds(g)
  BY <1>5, SMT DEF FileType, SameEnds
<1>7. /\ file' \in [Files -> FileType]
      /\ \A f \in Files : SameEnds(f) /\ (file'[f].ref = 0 => file[f].ref = 0)
  BY <1>1, <1>5, <1>6, SMT DEF IInv, Types, SameEnds
<1>8. Types'
  BY <1>1, <1>2, <1>3, <1>7 DEF IInv, Types
<1>9. CallInv'
  BY <1>1, <1>4, SMT DEF IInv, CallInv, Reading, Writing
<1>10. ASSUME NEW f \in Files PROVE file'[f].ref = Refs(f)'
  <2>1. Refs(f)' + Eq(None, f) = Refs(f) + Eq(g, f)
    BY <1>1, <1>2, <1>4, RefsByOfile, SMT
  <2>2. file[f].ref = Refs(f) /\ Refs(f)' \in Nat /\ None # f /\ Refs(f) \in Nat
    BY RefsNat, FilesNotNone DEF IInv, RefsCounted
  <2> HIDE DEF g
  <2>3. CASE f = g
    BY <1>6, <2>1, <2>2, <2>3, SMT DEF Eq
  <2>4. CASE f # g
    BY <1>5, <2>1, <2>2, <2>4, SMT DEF Eq
  <2> QED
    BY <2>3, <2>4
<1>11. Shared
  BY <1>2, <1>4 DEF Shared
<1>12. LoneInv' /\ FileInv' /\ EndInv' /\ EndsMatch' /\ OpenInv' /\ WaitInv'
  BY <1>1, <1>7, <1>11, MoreRefs
<1> QED
  BY <1>8, <1>9, <1>10, <1>12 DEF IInv, RefsCounted

\* fork, that has every open file once more.
LEMMA forkInv ==
  ASSUME Counting, IInv, NEW p \in Procs, NEW c \in Procs, fork(p, c)
  PROVE  IInv'
<1>1. /\ pc[p] = "run" /\ pc[c] = "unused" /\ p # c
      /\ pc' = [pc EXCEPT ![c] = "run"] /\ ofile' = [ofile EXCEPT ![c] = ofile[p]]
      /\ file' = [f \in Files |-> [file[f] EXCEPT !.ref = @ + Fds2(p, f)]]
      /\ UNCHANGED <<pipe, f0, f1, closing, io, todo, n, killed, kills>>
  BY DEF fork, InUser, At, Goto, call
<1>2. /\ \A q \in Procs : pc'[q] = IF q = c THEN "run" ELSE pc[q]
      /\ \A q \in Procs : ofile'[q] = IF q = c THEN ofile[p] ELSE ofile[q]
  BY <1>1 DEF IInv, Types
<1>3. \A k \in Fds : ofile[c][k] = None
  BY <1>1 DEF IInv, CallInv
<1>4. ASSUME NEW f \in Files
      PROVE  /\ Fds2(p, f) \in Nat
             /\ Refs(f)' = Refs(f) + Fds2(p, f)
  <2>1. Copied(ofile, ofile', p, c, f) /\ Fds2(p, f) = Cardinality(FdSet(ofile[p], f))
    BY <1>2, <1>3, FilesNotNone DEF Copied, Fds2, FdSet
  <2>2. /\ Cardinality(FdSet(ofile[p], f)) \in Nat
        /\ Cardinality(RefSet(ofile', f)) = Cardinality(RefSet(ofile, f)) + Cardinality(FdSet(ofile[p], f))
    BY <2>1, Copies, SMT
  <2>3. /\ Refs(f) = Cardinality(RefSet(ofile, f)) + Cardinality(VarSet(f0, f)) + Cardinality(VarSet(f1, f))
        /\ Refs(f)' = Cardinality(RefSet(ofile', f)) + Cardinality(VarSet(f0, f))
                        + Cardinality(VarSet(f1, f))
    BY <1>1, RefsSets
  <2>4. /\ Cardinality(RefSet(ofile, f)) \in Nat /\ Cardinality(VarSet(f0, f)) \in Nat
        /\ Cardinality(VarSet(f1, f)) \in Nat
    BY RefSetNat
  <2> QED
    BY <2>1, <2>2, <2>3, <2>4, SMT
<1>5. ASSUME NEW f \in Files
      PROVE  /\ file'[f] \in FileType /\ SameEnds(f)
             /\ file'[f].ref = file[f].ref + Fds2(p, f) /\ file[f].ref \in Nat
  <2>1. file[f] \in FileType
    BY DEF IInv, Types
  <2>2. file'[f] = [file[f] EXCEPT !.ref = @ + Fds2(p, f)]
    BY <1>1
  <2> QED
    BY <1>4, <2>1, <2>2, SMT DEF FileType, SameEnds
<1>6. /\ file' \in [Files -> FileType]
      /\ \A f \in Files : SameEnds(f) /\ (file'[f].ref = 0 => file[f].ref = 0)
  <2>1. file' \in [Files -> FileType]
    BY <1>1, <1>5
  <2>2. \A f \in Files : file'[f].ref = 0 => file[f].ref = 0
    BY <1>4, <1>5, SMT
  <2> QED
    BY <1>5, <2>1, <2>2
<1>7. Types'
  BY <1>1, <1>6 DEF IInv, Types, PCs
<1>8. CallInv'
  BY <1>1, <1>2, SMT DEF IInv, CallInv, Reading, Writing
<1>9. RefsCounted'
  BY <1>4, <1>5 DEF IInv, RefsCounted
<1>10. Shared
  BY <1>2, <1>3 DEF Shared
<1>11. LoneInv' /\ FileInv' /\ EndInv' /\ EndsMatch' /\ OpenInv' /\ WaitInv'
  <2>1. \A q \in Procs : pc'[q] = pc[q] \/ (pc'[q] = "run" /\ pc[q] = "unused")
    BY <1>1, <1>2
  <2>2. UNCHANGED <<pipe, f0, f1, closing, io, todo, n, killed, kills>>
    BY <1>1
  <2> QED
    BY <1>6, <1>10, <2>1, <2>2, MoreRefs
<1> QED
  BY <1>7, <1>8, <1>9, <1>11 DEF IInv

\* pipealloc that gets a page, then the descriptors or none.
LEMMA pipeallocInv ==
  ASSUME Counting, IInv, NEW p \in Procs, NEW i \in Pages, pipealloc(p, i)
  PROVE  IInv'
<1> DEFINE a == f0[p]
           b == f1[p]
           d == Least(FreeFds(p))
           e == Least(FreeFds(p) \ {d})
           room == Cardinality(FreeFds(p)) >= 2
<1>1. /\ pc[p] = "pipe2" /\ closing[p] = NoEnd /\ ~ InUse(i)
      /\ pipe' = [pipe EXCEPT ![i] = Pipe(TRUE)]
      /\ file' = Ends(a, b, i)
      /\ UNCHANGED <<closing, io, todo, n, killed, kills>>
  BY DEF pipealloc, At, Ends
<1>2. /\ room => /\ ofile' = [ofile EXCEPT ![p][d] = a, ![p][e] = b]
                 /\ f0' = [f0 EXCEPT ![p] = None] /\ f1' = [f1 EXCEPT ![p] = None]
                 /\ pc' = [pc EXCEPT ![p] = "run"]
      /\ ~ room => /\ UNCHANGED <<ofile, f0, f1>> /\ pc' = [pc EXCEPT ![p] = "undo0"]
  BY DEF pipealloc, Goto
<1>3. room => d \in Fds /\ e \in Fds /\ d # e /\ ofile[p][d] = None /\ ofile[p][e] = None
  BY TwoFds
<1>4. /\ a \in Files /\ b \in Files /\ a # b /\ io[p] = None
  BY <1>1, Held, FilesNotNone DEF IInv, CallInv, LoneInv, Reading, Writing
<1>5. a = f0[p] /\ b = f1[p]
  OBVIOUS
<1> HIDE DEF a, b, d, e, room
<1>6. /\ pipe'[i] = Pipe(TRUE) /\ pipe' \in [Pages -> PipeType]
      /\ \A j \in Pages : j # i => pipe'[j] = pipe[j]
  BY <1>1, EmptyPipe DEF IInv, Types
<1>7. /\ file' \in [Files -> FileType]
      /\ \A f \in Files : file'[f].ref = file[f].ref
      /\ file'[a].pipe = i /\ ~ file'[a].writable
      /\ file'[b].pipe = i /\ file'[b].writable
      /\ \A f \in Files : f # a /\ f # b => file'[f] = file[f]
  BY <1>1, <1>4, NewEnds
<1>8. /\ \A q \in Procs : q # p => /\ pc'[q] = pc[q] /\ ofile'[q] = ofile[q]
                                   /\ f0'[q] = f0[q] /\ f1'[q] = f1[q]
      /\ room => /\ pc'[p] = "run" /\ f0'[p] = None /\ f1'[p] = None
                 /\ \A k \in Fds : ofile'[p][k] = IF k = d THEN a ELSE IF k = e THEN b ELSE ofile[p][k]
      /\ ~ room => pc'[p] = "undo0"
  <2>1. CASE room
    BY <1>2, <1>3, <2>1, SMT DEF IInv, Types
  <2>2. CASE ~ room
    BY <1>2, <2>2 DEF IInv, Types
  <2> QED
    BY <2>1, <2>2
<1>9. FileInv' /\ EndInv' /\ EndsMatch' /\ OpenInv' /\ WaitInv'
  <2>1. pc'[p] \in {"run", "undo0"} /\ UNCHANGED <<closing, io, killed, kills>>
    BY <1>1, <1>8
  <2>2. pipe'[i] = Pipe(TRUE) /\ \A j \in Pages : j # i => pipe'[j] = pipe[j]
    BY <1>6
  <2>3. \A q \in Procs : q # p => /\ pc'[q] = pc[q] /\ ofile'[q] = ofile[q]
                                  /\ f0'[q] = f0[q] /\ f1'[q] = f1[q]
    BY <1>8
  <2>4. pc[p] = "pipe2" /\ ~ InUse(i)
    BY <1>1
  <2>5. PipeMade(p, i, a, b)
    BY <1>4, <1>5, <1>7, <2>1, <2>2, <2>3, <2>4 DEF PipeMade
  <2>6. file[a].ref # 0 /\ file[b].ref # 0
    <3>1. Refs(a) # 0 /\ Refs(b) # 0
      BY <1>4, <1>5, NoRefs DEF IInv
    <3> QED
      BY <1>4, <3>1 DEF IInv, RefsCounted
  <2> QED
    BY <1>4, <2>5, <2>6, NewPipe
<1>10. Types'
  <2>1. CASE room
    <3>1. ofile' \in [Procs -> [Fds -> Files \cup {None}]]
      <4> DEFINE o == [ofile EXCEPT ![p][d] = a]
      <4>1. o \in [Procs -> [Fds -> Files \cup {None}]]
        BY <1>3, <1>4, <2>1 DEF IInv, Types
      <4>2. ofile' = [o EXCEPT ![p][e] = b]
        BY <1>2, <2>1
      <4> HIDE DEF o
      <4> QED
        BY <1>3, <1>4, <2>1, <4>1, <4>2
    <3>2. /\ pc' \in [Procs -> PCs] /\ f0' \in [Procs -> Files \cup {None}]
          /\ f1' \in [Procs -> Files \cup {None}]
      BY <1>2, <2>1 DEF IInv, Types, PCs
    <3> QED
      BY <1>1, <1>6, <1>7, <3>1, <3>2 DEF IInv, Types
  <2>2. CASE ~ room
    BY <1>1, <1>2, <1>6, <1>7, <2>2 DEF IInv, Types, PCs
  <2> QED
    BY <2>1, <2>2
<1>11. CallInv'
  <2>1. CASE room
    BY <1>1, <1>4, <1>8, <2>1, SMT DEF IInv, CallInv, Reading, Writing
  <2>2. CASE ~ room
    BY <1>1, <1>2, <1>4, <1>8, <2>2, SMT DEF IInv, CallInv, Reading, Writing
  <2> QED
    BY <2>1, <2>2
<1>12. RefsCounted'
  <2>1. CASE room
    <3> DEFINE o == [ofile EXCEPT ![p][d] = a]
    <3>1. /\ o[p][d] = a /\ OnlyAt(o, ofile, p, d)
      BY <1>3, <2>1 DEF IInv, Types, OnlyAt
    <3> HIDE DEF o
    <3>2. /\ ofile'[p][e] = b /\ OnlyAt(ofile', o, p, e)
      BY <1>3, <1>8, <2>1, <3>1, SMT DEF OnlyAt
    <3>3. ASSUME NEW f \in Files PROVE Refs(f)' = Refs(f)
      <4>1. /\ f0'[p] = None /\ \A q \in Procs : q # p => f0'[q] = f0[q]
            /\ f1'[p] = None /\ \A q \in Procs : q # p => f1'[q] = f1[q]
        BY <1>8, <2>1
      <4> QED
        BY <1>3, <1>5, <2>1, <3>1, <3>2, <4>1, PipeRefs
    <3> QED
      BY <1>7, <3>3 DEF IInv, RefsCounted
  <2>2. CASE ~ room
    BY <1>2, <1>7, <2>2, RefsFrame DEF IInv
  <2> QED
    BY <2>1, <2>2
<1>13. LoneInv'
  <2>1. CASE room
    <3>1. ASSUME NEW q \in Procs, NEW k \in Fds
          PROVE  \/ ofile'[q][k] = ofile[q][k]
                 \/ q = p /\ ofile'[q][k] \in {a, b}
      BY <1>8, <2>1, <3>1
    <3>2. \A q \in Procs : q # p => f0[q] \notin {a, b} /\ f1[q] \notin {a, b}
      BY <1>4, <1>5, FilesNotNone DEF IInv, LoneInv
    <3>3. \A q \in Procs : /\ f0'[q] # None => q # p /\ f0'[q] = f0[q]
                           /\ f1'[q] # None => q # p /\ f1'[q] = f1[q]
      BY <1>8, <2>1
    <3>4. ASSUME NEW q \in Procs, NEW r \in Procs, f0'[q] # None
          PROVE  /\ r # q => f0'[r] # f0'[q]
                 /\ f1'[r] # f0'[q]
                 /\ \A k \in Fds : ofile'[r][k] # f0'[q]
      BY <3>1, <3>2, <3>3, <3>4, SMT DEF IInv, LoneInv
    <3>5. ASSUME NEW q \in Procs, NEW r \in Procs, f1'[q] # None
          PROVE  /\ r # q => f1'[r] # f1'[q]
                 /\ \A k \in Fds : ofile'[r][k] # f1'[q]
      BY <3>1, <3>2, <3>3, <3>5, SMT DEF IInv, LoneInv
    <3> QED
      BY <3>4, <3>5 DEF LoneInv
  <2>2. CASE ~ room
    BY <1>2, <2>2, LoneFrame DEF IInv
  <2> QED
    BY <2>1, <2>2
<1> QED
  BY <1>9, <1>10, <1>11, <1>12, <1>13 DEF IInv

----------------------------------------------------------------------------
\* The invariant holds at the start, with one process and nothing open.
LEMMA InitInv ==
  ASSUME Counting, Init
  PROVE  IInv
<1>1. PICK p \in Procs : pc = [q \in Procs |-> IF q = p THEN "run" ELSE "unused"]
  BY DEF Init
<1>2. /\ file = [f \in Files |-> NoFile] /\ pipe = [i \in Pages |-> Pipe(FALSE)]
      /\ ofile = [q \in Procs |-> [fd \in Fds |-> None]]
      /\ f0 = [q \in Procs |-> None] /\ f1 = [q \in Procs |-> None]
      /\ closing = [q \in Procs |-> NoEnd] /\ io = [q \in Procs |-> None]
      /\ todo = [q \in Procs |-> <<>>] /\ n = [q \in Procs |-> 0]
      /\ killed = [q \in Procs |-> FALSE] /\ kills = 0
  BY DEF Init
<1>3. \A q \in Procs : pc[q] \in {"run", "unused"}
  BY <1>1
<1>4. Pipe(FALSE) \in PipeType /\ (0 - 0 + UINT) % UINT = 0
  BY EmptyPipe
<1>5. Types
  <2>1. file \in [Files -> FileType]
    BY <1>2 DEF NoFile, FileType
  <2>2. pipe \in [Pages -> PipeType]
    BY <1>2, <1>4
  <2>3. pc \in [Procs -> PCs]
    BY <1>1 DEF PCs
  <2>4. closing \in [Procs -> [pipe : Pages \cup {None}, writable : BOOLEAN]]
    BY <1>2 DEF NoEnd
  <2>5. /\ ofile \in [Procs -> [Fds -> Files \cup {None}]]
        /\ f0 \in [Procs -> Files \cup {None}] /\ f1 \in [Procs -> Files \cup {None}]
    BY <1>2
  <2>6. /\ io \in [Procs -> Pages \cup {None}] /\ todo \in [Procs -> Seq(Nat)]
        /\ n \in [Procs -> Nat] /\ kills \in Nat
    BY <1>2, SMT
  <2>7. killed \in [Procs -> BOOLEAN]
    BY <1>2
  <2> QED
    BY <2>1, <2>2, <2>3, <2>4, <2>5, <2>6, <2>7 DEF Types
<1>6. CallInv
  BY <1>2, <1>3 DEF CallInv, Reading, Writing
<1>7. RefsCounted
  <2>1. ASSUME NEW f \in Files PROVE file[f].ref = Refs(f)
    <3>1. f # None
      BY FilesNotNone
    <3>2. RefSet(ofile, f) = {}
      BY <1>2, <3>1 DEF RefSet
    <3>3. VarSet(f0, f) = {} /\ VarSet(f1, f) = {}
      BY <1>2, <3>1 DEF VarSet
    <3>4. Refs(f) = 0 + 0 + 0
      BY <3>2, <3>3, RefsSets, RefSetNat
    <3> QED
      BY <1>2, <3>4, SMT DEF NoFile
  <2> QED
    BY <2>1 DEF RefsCounted
<1>8. LoneInv
  BY <1>2 DEF LoneInv
<1>9. FileInv
  BY <1>2, <1>3 DEF FileInv, NoFile
<1>10. EndInv
  BY <1>2 DEF EndInv, NoFile, NoEnd
<1>11. EndsMatch
  <2>1. ASSUME NEW i \in Pages, NEW w \in BOOLEAN PROVE ~ HasEnd(i, w)
    BY <1>2, FilesNotNone DEF HasEnd, NoFile, NoEnd
  <2>2. \A i \in Pages : pipe[i].readopen = FALSE /\ pipe[i].writeopen = FALSE
    BY <1>2 DEF Pipe
  <2> QED
    BY <2>1, <2>2 DEF EndsMatch
<1>12. OpenInv
  BY <1>3 DEF OpenInv, Reading, Writing
<1>13. WaitInv
  <2>1. \A i \in Pages : pipe[i].lock = None /\ pipe[i].nread = 0 /\ pipe[i].nwrite = 0
    BY <1>2 DEF Pipe
  <2>2. \A i \in Pages : Used(i) <= PIPESIZE
    <3>1. 0 \in 0 .. UINT - 1 /\ (0 - 0 + UINT) % UINT = 0 /\ 0 <= PIPESIZE
      BY FilesAssumption, UsedIs, SMT
    <3> QED
      BY <2>1, <3>1 DEF Used
  <2>3. \A q \in Procs : ~ killed[q]
    BY <1>2
  <2> QED
    BY <1>3, <2>1, <2>2, <2>3, FilesNotNone DEF WaitInv
<1> QED
  BY <1>5, <1>6, <1>7, <1>8, <1>9, <1>10, <1>11, <1>12, <1>13 DEF IInv

\* Every step of a process keeps the invariant.
LEMMA StepInv ==
  ASSUME Counting, IInv, NEW p \in Procs, Step(p)
  PROVE  IInv'
<1>1. ASSUME NEW fd \in Fds, sys_close(p, fd) PROVE IInv'
  BY <1>1, CloseFdInv DEF sys_close, InUser, At
<1>2. CASE exit_close(p)
  <2>1. Least(Fds \ FreeFds(p)) \in Fds \ FreeFds(p)
    <3>1. Fds \ FreeFds(p) \subseteq Nat
      BY FilesAssumption, SMT DEF Fds
    <3>2. Fds \ FreeFds(p) # {}
      BY <1>2 DEF exit_close, FreeFds
    <3> QED
      BY <3>1, <3>2, LeastIn
  <2> QED
    BY <1>2, <2>1, CloseFdInv DEF exit_close, At
<1>3. ASSUME NEW i \in Pages, pipealloc(p, i) PROVE IInv'
  BY <1>3, pipeallocInv
<1>4. ASSUME NEW fd \in Fds, sys_dup(p, fd) PROVE IInv'
  BY <1>4, sys_dupInv
<1>5. ASSUME NEW c \in Procs, fork(p, c) PROVE IInv'
  BY <1>5, forkInv
<1>6. ASSUME NEW fd \in Fds, NEW s \in Payloads, sys_write(p, fd, s) PROVE IInv'
  BY <1>6, sys_writeInv
<1>7. ASSUME NEW fd \in Fds, NEW k \in Counts, sys_read(p, fd, k) PROVE IInv'
  BY <1>7, sys_readInv
<1>8. CASE \/ pipeclose(p) \/ filealloc0(p) \/ filealloc1(p) \/ pipe_nomem(p) \/ undo0(p)
           \/ undo1(p) \/ sys_open(p)
  BY <1>8, pipecloseInv, filealloc0Inv, filealloc1Inv, pipe_nomemInv, undo0Inv, undo1Inv, sys_openInv
<1>9. CASE exit(p) \/ exit_done(p) \/ kill(p) \/ pipewrite(p) \/ piperead(p) \/ sleep(p)
  BY <1>9, exitInv, killInv, pipewriteInv, pipereadInv, sleepInv
<1> QED
  BY <1>1, <1>2, <1>3, <1>4, <1>5, <1>6, <1>7, <1>8, <1>9 DEF Step

----------------------------------------------------------------------------
(***************************************************************************)
(* The counts, from the theorems on finite sets.                           *)
(***************************************************************************)
INSTANCE FiniteSetTheorems

\* Least, that fdalloc and filealloc rely on, is one of the set.
LEMMA LeastOf ==
  ASSUME NEW S, S \subseteq Nat, S # {}
  PROVE  Least(S) \in S
<1>1. PICK x \in S : \A y \in S : ~ (<<y, x>> \in OpToRel(<, Nat))
  BY NatLessThanWellFounded, WFMin
<1>2. ASSUME NEW y \in S PROVE x <= y
  <2>1. <<y, x>> \in Nat \X Nat /\ <<y, x>>[1] = y /\ <<y, x>>[2] = x
    OBVIOUS
  <2>2. y < x => <<y, x>> \in OpToRel(<, Nat)
    BY <2>1 DEF OpToRel
  <2>3. ~ (y < x) /\ x \in Nat /\ y \in Nat
    BY <1>1, <2>2
  <2>4. QED
    BY <2>3, SMT
<1>3. QED
  BY <1>2 DEF Least

\* Descriptors and processes are finitely many.
LEMMA FdsFinite == IsFiniteSet(Fds) /\ IsFiniteSet(Procs) /\ IsFiniteSet(Procs \X Fds)
<1>1. NOFILE - 1 \in Int /\ 0 \in Int /\ IsFiniteSet(Procs)
  BY FilesAssumption, SMT
<1>2. IsFiniteSet(Fds)
  BY <1>1, FS_Interval DEF Fds
<1>3. QED
  BY <1>1, <1>2, FS_Product

\* Two sets that differ at most in d.
LEMMA SetCount ==
  ASSUME NEW D, IsFiniteSet(D), NEW A \in SUBSET D, NEW B \in SUBSET D, NEW d \in D,
         \A x \in D : x # d => (x \in A <=> x \in B)
  PROVE  /\ Cardinality(A) \in Nat /\ Cardinality(B) \in Nat
         /\ Cardinality(B) + One(d \in A) = Cardinality(A) + One(d \in B)
<1>1. IsFiniteSet(A) /\ IsFiniteSet(B)
  BY FS_Subset
<1>2. Cardinality(A) \in Nat /\ Cardinality(B) \in Nat
  BY <1>1, FS_CardinalityType
<1>3. A \ {d} = B \ {d}
  OBVIOUS
<1>4. Cardinality(A \ {d}) = Cardinality(A) - One(d \in A)
  <2>1. Cardinality(A \ {d}) = IF d \in A THEN Cardinality(A) - 1 ELSE Cardinality(A)
    BY <1>1, FS_RemoveElement
  <2>2. QED
    BY <1>2, <2>1, SMT DEF One
<1>5. Cardinality(B \ {d}) = Cardinality(B) - One(d \in B)
  <2>1. Cardinality(B \ {d}) = IF d \in B THEN Cardinality(B) - 1 ELSE Cardinality(B)
    BY <1>1, FS_RemoveElement
  <2>2. QED
    BY <1>2, <2>1, SMT DEF One
<1>6. One(d \in A) \in Nat /\ One(d \in B) \in Nat
  BY DEF One
<1> DEFINE a == One(d \in A)
           b == One(d \in B)
<1>7. /\ a \in Nat /\ b \in Nat
      /\ Cardinality(A) - a = Cardinality(B) - b
  BY <1>3, <1>4, <1>5, <1>6
<1> HIDE DEF a, b
<1>8. Cardinality(B) + a = Cardinality(A) + b
  BY <1>2, <1>7, SMT
<1>9. QED
  BY <1>2, <1>8 DEF a, b

\* The counts are of finite sets.
LEMMA RefSetCount ==
  ASSUME NEW o, NEW v, NEW f
  PROVE  /\ IsFiniteSet(RefSet(o, f)) /\ IsFiniteSet(VarSet(v, f))
         /\ Cardinality(RefSet(o, f)) \in Nat
         /\ Cardinality(RefSet(o, f)) = 0 <=> RefSet(o, f) = {}
         /\ Cardinality(VarSet(v, f)) \in Nat
         /\ Cardinality(VarSet(v, f)) = 0 <=> VarSet(v, f) = {}
<1>1. RefSet(o, f) \in SUBSET (Procs \X Fds) /\ VarSet(v, f) \in SUBSET Procs
  BY DEF RefSet, VarSet
<1>2. IsFiniteSet(RefSet(o, f)) /\ IsFiniteSet(VarSet(v, f))
  BY <1>1, FdsFinite, FS_Subset
<1>3. QED
  BY <1>2, FS_CardinalityType, FS_EmptySet

\* Another descriptor table, or variable, that differs at one place.
LEMMA RefSetSet ==
  ASSUME NEW o, NEW w, NEW p \in Procs, NEW fd \in Fds, NEW f, OnlyAt(w, o, p, fd)
  PROVE  Cardinality(RefSet(w, f)) + Eq(o[p][fd], f) = Cardinality(RefSet(o, f)) + Eq(w[p][fd], f)
<1>1. RefSet(o, f) \in SUBSET (Procs \X Fds) /\ RefSet(w, f) \in SUBSET (Procs \X Fds)
  BY DEF RefSet
<1>2. <<p, fd>> \in Procs \X Fds
  OBVIOUS
<1>3. /\ <<p, fd>> \in RefSet(o, f) <=> o[p][fd] = f
      /\ <<p, fd>> \in RefSet(w, f) <=> w[p][fd] = f
  BY <1>2 DEF RefSet
<1>4. \A x \in Procs \X Fds : x # <<p, fd>> => (x \in RefSet(o, f) <=> x \in RefSet(w, f))
  BY SMT DEF RefSet, OnlyAt
<1>5. Cardinality(RefSet(w, f)) + One(<<p, fd>> \in RefSet(o, f))
        = Cardinality(RefSet(o, f)) + One(<<p, fd>> \in RefSet(w, f))
  BY <1>1, <1>2, <1>4, FdsFinite, SetCount, SMT
<1>6. QED
  BY <1>3, <1>5 DEF One, Eq

\* The count over f0 or f1 after a change of one process.
LEMMA VarSetCount ==
  ASSUME NEW v, NEW w, NEW p \in Procs, NEW f, VarAt(w, v, p)
  PROVE  Cardinality(VarSet(w, f)) + Eq(v[p], f) = Cardinality(VarSet(v, f)) + Eq(w[p], f)
<1>1. VarSet(v, f) \in SUBSET Procs /\ VarSet(w, f) \in SUBSET Procs
  BY DEF VarSet
<1>2. (p \in VarSet(v, f) <=> v[p] = f) /\ (p \in VarSet(w, f) <=> w[p] = f)
  BY DEF VarSet
<1>3. \A x \in Procs : x # p => (x \in VarSet(v, f) <=> x \in VarSet(w, f))
  BY DEF VarSet, VarAt
<1>4. Cardinality(VarSet(w, f)) + One(p \in VarSet(v, f))
        = Cardinality(VarSet(v, f)) + One(p \in VarSet(w, f))
  BY <1>1, <1>3, FdsFinite, SetCount, SMT
<1>5. QED
  BY <1>2, <1>4 DEF One, Eq

\* Two of a set of descriptors.
LEMMA TwoLeft ==
  ASSUME NEW S, S \in SUBSET Fds, Cardinality(S) >= 2
  PROVE  S # {} /\ S \ {Least(S)} # {}
<1> DEFINE d == Least(S)
<1>1. S \subseteq Nat
  BY SMT DEF Fds
<1>2. IsFiniteSet(S)
  BY FdsFinite, FS_Subset
<1>3. S # {} /\ Cardinality(S) \in Nat
  BY <1>2, FS_EmptySet, FS_CardinalityType, SMT
<1>4. d \in S
  BY <1>1, <1>3, LeastOf
<1> HIDE DEF d
<1>5. IsFiniteSet(S \ {d}) /\ Cardinality(S \ {d}) = Cardinality(S) - 1
  BY <1>2, <1>4, FS_RemoveElement
<1>6. S \ {d} # {}
  BY <1>3, <1>5, FS_EmptySet, SMT
<1> QED
  BY <1>3, <1>6 DEF d

\* fork copies the descriptors of p to c.
LEMMA CopyCount ==
  ASSUME NEW o, NEW w, NEW p \in Procs, NEW c \in Procs, NEW f, Copied(o, w, p, c, f)
  PROVE  /\ Cardinality(FdSet(o[p], f)) \in Nat
         /\ Cardinality(RefSet(w, f)) = Cardinality(RefSet(o, f)) + Cardinality(FdSet(o[p], f))
<1> DEFINE S == FdSet(o[p], f)
           A == RefSet(o, f)
           B == {c} \X S
<1>1. IsFiniteSet(S) /\ Cardinality(S) \in Nat
  BY FdsFinite, FS_Subset, FS_CardinalityType DEF FdSet
<1>2. IsFiniteSet({c}) /\ Cardinality({c}) = 1
  BY FS_Singleton
<1>3. IsFiniteSet(B) /\ Cardinality(B) = 1 * Cardinality(S)
  BY <1>1, <1>2, FS_Product
<1>4. A \cap B = {}
  BY DEF RefSet, FdSet, Copied
<1>5. RefSet(w, f) = A \cup B
  BY SMT DEF RefSet, FdSet, Copied
<1>6. IsFiniteSet(A) /\ Cardinality(A) \in Nat
  BY RefSetCount
<1>7. Cardinality(RefSet(w, f)) = Cardinality(A) + Cardinality(B) - 0
  BY <1>3, <1>4, <1>5, <1>6, FS_Union, FS_EmptySet, SMT
<1> HIDE DEF S, A, B
<1>8. Cardinality(S) \in Nat /\ Cardinality(RefSet(w, f)) = Cardinality(A) + Cardinality(S)
  BY <1>1, <1>3, <1>6, <1>7, SMT
<1> QED
  BY <1>8 DEF S, A

\* All that the lemmas on the actions assume of counts holds.
LEMMA CountingHolds == Counting
<1>1. LeastTaken
  BY LeastOf DEF LeastTaken
<1>2. TwoTaken
  BY TwoLeft DEF TwoTaken
<1>3. SetsCounted
  BY RefSetCount DEF SetsCounted
<1>4. RefMoved
  BY RefSetSet, SMT DEF RefMoved
<1>5. VarMoved
  BY VarSetCount, SMT DEF VarMoved
<1>6. RefsCopied
  BY CopyCount, SMT DEF RefsCopied
<1> QED
  BY <1>1, <1>2, <1>3, <1>4, <1>5, <1>6 DEF Counting

\* The inductive invariant holds in every state that the calls can reach.
THEOREM FilesInvariance == Spec => []IInv
<1>1. Init => IInv
  BY InitInv, CountingHolds
<1>2. IInv /\ [Next]_vars => IInv'
  BY StepInv, StutterInv, CountingHolds DEF Next
<1> QED
  BY <1>1, <1>2, PTL DEF Spec

(***************************************************************************)
(* TableSound, for any number of processes, files, descriptors and pages:  *)
(* filealloc, filedup, fileclose, fork, exit and the error paths of        *)
(* sys_pipe keep every count equal to the references there are, and an end *)
(* of a pipe is open exactly while a file, or a fileclose under way,       *)
(* refers to it.                                                           *)
(***************************************************************************)
THEOREM FileTableSound == Spec => []TableSound
<1>1. IInv => TableSound
  <2>1. SUFFICES ASSUME IInv PROVE TypeOK
    BY DEF IInv, TableSound
  <2>2. \A f \in Files : file[f].ref \in Nat /\ file[f].pipe \in Pages \cup {None}
                         /\ file[f].writable \in BOOLEAN
    BY <2>1 DEF IInv, Types, FileType
  <2>3. \A i \in Pages : Used(i) <= PIPESIZE /\ pipe[i].lock \in Procs \cup {None}
    BY <2>1, SMT DEF IInv, Types, WaitInv, PipeType
  <2> QED
    BY <2>1, <2>2, <2>3 DEF IInv, Types, TypeOK
<1> QED
  BY <1>1, FilesInvariance, PTL

(***************************************************************************)
(* SleeperHasWaker, for any number of processes and pipes and any UINT     *)
(* that PIPESIZE divides: piperead, pipewrite and pipeclose miss no wakeup.*)
(***************************************************************************)
THEOREM PipesMissNoWakeup == Spec => []SleeperHasWaker
<1>1. IInv => SleeperHasWaker
  BY DEF IInv, WaitInv, SleeperHasWaker
<1> QED
  BY <1>1, FilesInvariance, PTL

(***************************************************************************)
(* PipeIsFifo, for any PIPESIZE, and any UINT it divides: pipewrite adds   *)
(* the caller's next bytes behind the unread ones and piperead takes the   *)
(* oldest, across every overflow of nread and nwrite and every wrap of the *)
(* ring.                                                                   *)
(***************************************************************************)
THEOREM PipeBytesInOrder == Spec => PipeIsFifo
<1> DEFINE A == \A p \in Procs, i \in Pages : io[p] = i =>
                  /\ pipewrite(p) => \E k \in 0 .. Len(todo[p]) :
                                       Unread(i)' = Unread(i) \o SubSeq(todo[p], 1, k)
                  /\ piperead(p) => \E k \in 0 .. n[p] :
                                      Unread(i)' = SubSeq(Unread(i), k + 1, Used(i))
<1>1. IInv => A
  BY WriteAppends, ReadTakes
<1>2. IInv => [A]_vars
  BY <1>1
<1>3. ([][A]_vars) => PipeIsFifo
  BY DEF PipeIsFifo
<1> HIDE DEF A
<1> QED
  BY <1>2, <1>3, FilesInvariance, PTL
=============================================================================
