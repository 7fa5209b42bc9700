--------------------------- MODULE FilesInvariant ---------------------------
(***************************************************************************)
(* The inductive invariant of Files, and the steps that leave the counts   *)
(* of the file table alone: the calls on a pipe (pipewrite, piperead,      *)
(* pipeclose), sleep, kill and exit.  Last, the bytes in the ring of a     *)
(* pipe.  FilesProofs has the steps on the counts, and the theorems.       *)
(***************************************************************************)
EXTENDS Files, TLAPS

\* A leaf is left to Zenon where it is pure logic, and cites SMT where it takes
\* arithmetic, records or sequences.
USE Zenon

FileType == [ref : Nat, pipe : Pages \cup {None}, writable : BOOLEAN]

PipeType == [readopen : BOOLEAN, writeopen : BOOLEAN, nread : 0 .. UINT - 1,
             nwrite : 0 .. UINT - 1, lock : Procs \cup {None},
             data : [0 .. PIPESIZE - 1 -> Nat]]

Types == /\ file \in [Files -> FileType]
         /\ pipe \in [Pages -> PipeType]
         /\ ofile \in [Procs -> [Fds -> Files \cup {None}]]
         /\ pc \in [Procs -> PCs]
         /\ f0 \in [Procs -> Files \cup {None}]
         /\ f1 \in [Procs -> Files \cup {None}]
         /\ closing \in [Procs -> [pipe : Pages \cup {None}, writable : BOOLEAN]]
         /\ io \in [Procs -> Pages \cup {None}]
         /\ todo \in [Procs -> Seq(Nat)]
         /\ n \in [Procs -> Nat]
         /\ killed \in [Procs -> BOOLEAN]
         /\ kills \in Nat

Reading == {"read", "rsleep", "rasleep"}
Writing == {"write", "wsleep", "wasleep"}

\* What a process has in hand, by where it is.
CallInv == \A p \in Procs :
  /\ f0[p] # None <=> pc[p] \in {"pipe1", "pipe2", "undo0"}
  /\ f1[p] # None <=> pc[p] \in {"pipe2", "undo0", "undo1"}
  /\ io[p] # None <=> pc[p] \in Reading \cup Writing
  /\ closing[p] # NoEnd => pc[p] \in {"run", "exit", "undo1"} /\ closing[p].pipe # None
  /\ pc[p] = "unused" => \A fd \in Fds : ofile[p][fd] = None

\* A file that sys_pipe has got is nobody else's.
LoneInv == \A p, q \in Procs :
  /\ f0[p] # None => /\ q # p => f0[q] # f0[p]
                     /\ f1[q] # f0[p]
                     /\ \A fd \in Fds : ofile[q][fd] # f0[p]
  /\ f1[p] # None => /\ q # p => f1[q] # f1[p]
                     /\ \A fd \in Fds : ofile[q][fd] # f1[p]

\* A free file is for no pipe, and neither is a new one.
FileInv == /\ \A f \in Files : /\ file[f].ref = 0 => file[f].pipe = None
                               /\ file[f].pipe = None => ~ file[f].writable
           /\ \A p \in Procs : /\ pc[p] \in {"pipe1", "pipe2"} => file[f0[p]].pipe = None
                               /\ pc[p] = "pipe2" => file[f1[p]].pipe = None

\* An end of a pipe has one file, or one process that closes it.
EndInv == /\ \A f, g \in Files :
               /\ file[f].pipe # None /\ file[f].pipe = file[g].pipe
               /\ file[f].writable = file[g].writable
               => f = g
          /\ \A p, q \in Procs : closing[p] # NoEnd /\ closing[p] = closing[q] => p = q
          /\ \A f \in Files, p \in Procs :
               /\ file[f].pipe # None /\ file[f].pipe = closing[p].pipe
               => file[f].writable # closing[p].writable

\* A process that reads or writes has an end of the pipe open.
OpenInv == \A p \in Procs :
  pc[p] \in Reading \cup Writing =>
    \E fd \in Fds : /\ ofile[p][fd] # None
                    /\ file[ofile[p][fd]].pipe = io[p]
                    /\ file[ofile[p][fd]].writable <=> pc[p] \in Writing

\* The bytes in a pipe, its lock, and those who wait for them.
WaitInv == /\ \A i \in Pages : Used(i) <= PIPESIZE
           /\ \A p \in Procs, i \in Pages :
                pipe[i].lock = p <=> pc[p] \in {"rsleep", "wsleep"} /\ io[p] = i
           /\ \A p \in Procs :
                /\ pc[p] \in {"rsleep", "rasleep"} =>
                     pipe[io[p]].writeopen /\ (kills = 0 => Used(io[p]) = 0)
                /\ pc[p] \in {"wsleep", "wasleep"} => pipe[io[p]].readopen /\ Room(io[p]) = 0
           /\ kills = 0 => \A p \in Procs : ~ killed[p]

\* The inductive invariant.
IInv == /\ Types /\ CallInv /\ RefsCounted /\ LoneInv /\ FileInv
        /\ EndInv /\ EndsMatch /\ OpenInv /\ WaitInv

----------------------------------------------------------------------------
(***************************************************************************)
(* References as sets, with the variables as parameters.                   *)
(***************************************************************************)
RefSet(o, f) == {r \in Procs \X Fds : o[r[1]][r[2]] = f}
VarSet(v, f) == {p \in Procs : v[p] = f}
One(P) == IF P THEN 1 ELSE 0
Eq(x, y) == IF x = y THEN 1 ELSE 0

\* The references to a file, as the three sets they are counted in.
LEMMA RefsSets ==
  ASSUME NEW f
  PROVE  /\ Refs(f) = Cardinality(RefSet(ofile, f)) + Cardinality(VarSet(f0, f))
                        + Cardinality(VarSet(f1, f))
         /\ Refs(f)' = Cardinality(RefSet(ofile', f)) + Cardinality(VarSet(f0', f))
                        + Cardinality(VarSet(f1', f))
BY DEF Refs, RefSet, VarSet

----------------------------------------------------------------------------
(***************************************************************************)
(* The counters of a pipe, that wrap at UINT.                              *)
(***************************************************************************)
LEMMA ModTwice ==
  ASSUME NEW U \in Nat \ {0}, NEW x \in Nat, x < U + U
  PROVE  x % U = IF x < U THEN x ELSE x - U
<1>1. CASE x < U
  BY <1>1, SMT
<1>2. CASE ~ (x < U)
  <2>1. x - U \in 0 .. U - 1 /\ x = U * 1 + (x - U)
    BY <1>2, SMT
  <2>2. QED
    BY <1>2, <2>1, SMT
<1>3. QED
  BY <1>1, <1>2

\* The difference of the two counters, whichever of them has wrapped.
LEMMA UsedIs ==
  ASSUME NEW r \in 0 .. UINT - 1, NEW w \in 0 .. UINT - 1
  PROVE  (w - r + UINT) % UINT = IF w >= r THEN w - r ELSE w - r + UINT
<1>1. UINT \in Nat \ {0}
  BY FilesAssumption, SMT
<1>2. w - r + UINT \in Nat /\ w - r + UINT < UINT + UINT
  BY <1>1, SMT
<1>3. (w - r + UINT) % UINT = IF w - r + UINT < UINT THEN w - r + UINT ELSE (w - r + UINT) - UINT
  BY <1>1, <1>2, ModTwice
<1>4. QED
  BY <1>1, <1>3, SMT

\* A page that pipealloc has filled in, or that is free, is an empty pipe.
LEMMA EmptyPipe ==
  ASSUME NEW b \in BOOLEAN
  PROVE  Pipe(b) \in PipeType /\ (0 - 0 + UINT) % UINT = 0
<1>1. UINT \in Nat \ {0} /\ 0 \in 0 .. UINT - 1
  BY FilesAssumption, SMT
<1>2. QED
  BY <1>1, UsedIs, SMT DEF Pipe, PipeType

----------------------------------------------------------------------------
(***************************************************************************)
(* Steps that leave a part of the state alone.                             *)
(***************************************************************************)
Asleep == {"rsleep", "rasleep", "wsleep", "wasleep"}

SameEnds(f) == file'[f].pipe = file[f].pipe /\ file'[f].writable = file[f].writable

\* Counts that stay, with the references, stay right.
LEMMA RefsFrame ==
  ASSUME RefsCounted, UNCHANGED <<ofile, f0, f1>>, \A f \in Files : file'[f].ref = file[f].ref
  PROVE  RefsCounted'
BY DEF RefsCounted, Refs

\* A file that sys_pipe has got stays alone while no reference changes.
LEMMA LoneFrame ==
  ASSUME LoneInv, UNCHANGED <<ofile, f0, f1>>
  PROVE  LoneInv'
BY DEF LoneInv

\* References of sys_pipe and descriptors given up.
LEMMA LoneLess ==
  ASSUME LoneInv, \A q \in Procs : f0'[q] = f0[q] \/ f0'[q] = None,
         \A q \in Procs : f1'[q] = f1[q] \/ f1'[q] = None,
         \A q \in Procs, fd \in Fds : ofile'[q][fd] = ofile[q][fd] \/ ofile'[q][fd] = None
  PROVE  LoneInv'
BY SMT DEF LoneInv

\* The ends stay matched while no file, fileclose or pipe changes its ends.
LEMMA EndsFrame ==
  ASSUME EndInv, EndsMatch, closing' = closing, \A f \in Files : SameEnds(f),
         \A i \in Pages : /\ pipe'[i].readopen = pipe[i].readopen
                          /\ pipe'[i].writeopen = pipe[i].writeopen
  PROVE  EndInv' /\ EndsMatch'
<1>1. EndInv'
  BY SMT DEF EndInv, SameEnds
<1>2. ASSUME NEW i \in Pages, NEW w \in BOOLEAN PROVE HasEnd(i, w)' = HasEnd(i, w)
  BY DEF HasEnd, SameEnds
<1>3. EndsMatch'
  BY <1>2 DEF EndsMatch
<1>4. QED
  BY <1>1, <1>3

\* A call under way keeps its end open while the descriptors it has stay.
LEMMA OpenFrame ==
  ASSUME Types, OpenInv,
         \A q \in Procs : pc'[q] \in Reading \cup Writing =>
           /\ pc[q] \in Reading \cup Writing /\ (pc'[q] \in Writing <=> pc[q] \in Writing)
           /\ io'[q] = io[q]
           /\ \A fd \in Fds : ofile[q][fd] # None =>
                ofile'[q][fd] = ofile[q][fd] /\ SameEnds(ofile[q][fd])
  PROVE  OpenInv'
<1>1. SUFFICES ASSUME NEW q \in Procs, pc'[q] \in Reading \cup Writing
               PROVE  \E fd \in Fds : /\ ofile'[q][fd] # None
                                      /\ file'[ofile'[q][fd]].pipe = io'[q]
                                      /\ file'[ofile'[q][fd]].writable <=> pc'[q] \in Writing
  BY DEF OpenInv
<1>2. PICK fd \in Fds : /\ ofile[q][fd] # None
                        /\ file[ofile[q][fd]].pipe = io[q]
                        /\ file[ofile[q][fd]].writable <=> pc[q] \in Writing
  BY <1>1 DEF OpenInv
<1>3. QED
  BY <1>1, <1>2, SMT DEF SameEnds

\* Those who sleep may stay asleep while no pipe changes and nobody is killed.
LEMMA WaitFrame ==
  ASSUME WaitInv, pipe' = pipe, kills' = kills, \A q \in Procs : killed'[q] => killed[q],
         \A q \in Procs : pc'[q] \in Asleep \/ pc[q] \in Asleep =>
           pc'[q] = pc[q] /\ io'[q] = io[q]
  PROVE  WaitInv'
<1>1. \A i \in Pages : Used(i)' = Used(i) /\ Room(i)' = Room(i)
  BY DEF Used, Room
<1>2. \A i \in Pages : Used(i)' <= PIPESIZE
  BY <1>1 DEF WaitInv
<1>3. \A q \in Procs, i \in Pages :
        pipe'[i].lock = q <=> pc'[q] \in {"rsleep", "wsleep"} /\ io'[q] = i
  BY SMT DEF WaitInv, Asleep
<1>4. ASSUME NEW q \in Procs
      PROVE  /\ pc'[q] \in {"rsleep", "rasleep"} =>
                  pipe'[io'[q]].writeopen /\ (kills' = 0 => Used(io[q])' = 0)
             /\ pc'[q] \in {"wsleep", "wasleep"} =>
                  pipe'[io'[q]].readopen /\ Room(io[q])' = 0
  BY DEF WaitInv, Asleep, Used, Room
<1>5. \A q \in Procs : pc'[q] \in Asleep => io'[q] = io[q]
  OBVIOUS
<1>6. kills' = 0 => \A q \in Procs : ~ killed'[q]
  BY DEF WaitInv
<1>7. QED
  BY <1>2, <1>3, <1>4, <1>5, <1>6 DEF WaitInv, Asleep, Used, Room

\* File f as fileclose leaves it.
Dropped(f) ==
  /\ \A g \in Files : g # f => file'[g] = file[g]
  /\ file[f].ref > 1 => SameEnds(f)
  /\ ~ (file[f].ref > 1) => file'[f].pipe = None /\ ~ file'[f].writable
  /\ file'[f] \in FileType

\* fileclose on a file: the end of the pipe goes from the file to the closer.
LEMMA CloseEnds ==
  ASSUME IInv, NEW p \in Procs, NEW f \in Files, closing[p] = NoEnd, fileclose(p, f), pipe' = pipe,
         \A g \in Files : Refs(g)' + Eq(g, f) = Refs(g), Dropped(f)
  PROVE  /\ closing' \in [Procs -> [pipe : Pages \cup {None}, writable : BOOLEAN]]
         /\ closing'[p] # NoEnd => closing'[p].pipe # None
         /\ \A q \in Procs : q # p => closing'[q] = closing[q]
         /\ EndInv' /\ EndsMatch'
<1>1. file[f] \in FileType /\ (file[f].pipe = None => ~ file[f].writable)
  BY DEF IInv, Types, FileInv
<1>2. /\ \A g \in Files : g # f => file'[g] = file[g]
      /\ file[f].ref > 1 => SameEnds(f)
      /\ ~ (file[f].ref > 1) => file'[f].pipe = None /\ ~ file'[f].writable
      /\ file'[f] \in FileType
  BY DEF Dropped
<1>3. \A q \in Procs : closing'[q] = IF q = p THEN Left(f) ELSE closing[q]
  BY DEF fileclose, IInv, Types
<1>4. DOMAIN closing' = Procs
  BY DEF fileclose, IInv, Types
<1>5. CASE file[f].ref > 1 \/ file[f].pipe = None
  <2>1. Left(f) = NoEnd
    BY <1>1, <1>5 DEF Left, NoEnd, FileType
  <2>2. closing' = closing
    <3>1. closing' = [closing EXCEPT ![p] = closing[p]]
      BY <2>1 DEF fileclose
    <3> QED
      BY <3>1 DEF IInv, Types
  <2>3. \A g \in Files : SameEnds(g)
    <3>1. SameEnds(f)
      BY <1>1, <1>2, <1>5 DEF SameEnds, FileType
    <3> QED
      BY <1>2, <3>1 DEF SameEnds
  <2> QED
    BY <2>2, <2>3, EndsFrame DEF IInv, Types
<1>6. CASE ~ (file[f].ref > 1) /\ file[f].pipe # None
  <2> DEFINE i == file[f].pipe
             w == file[f].writable
  <2>1. Left(f) = [pipe |-> i, writable |-> w] /\ i \in Pages /\ w \in BOOLEAN
    BY <1>1, <1>6 DEF Left, FileType
  <2>2. closing'[p] = [pipe |-> i, writable |-> w]
    BY <1>3, <2>1
  <2>3. closing' \in [Procs -> [pipe : Pages \cup {None}, writable : BOOLEAN]]
    <3>1. closing' = [closing EXCEPT ![p] = [pipe |-> i, writable |-> w]]
      BY <2>1 DEF fileclose
    <3>2. [pipe |-> i, writable |-> w] \in [pipe : Pages \cup {None}, writable : BOOLEAN]
      BY <2>1
    <3> QED
      BY <3>1, <3>2 DEF IInv, Types
  <2>4. \A g \in Files : file'[g].pipe # None => g # f /\ file'[g] = file[g]
    BY <1>2, <1>6
  <2>5. \A g, h \in Files : /\ file'[g].pipe # None /\ file'[g].pipe = file'[h].pipe
                            /\ file'[g].writable = file'[h].writable
                            => g = h
    BY <2>4, SMT DEF IInv, EndInv
  <2>6. ASSUME NEW q \in Procs, q # p, closing[q] # NoEnd PROVE closing[q] # closing'[p]
    <3>1. closing[q].pipe # None
      BY <2>6 DEF IInv, CallInv
    <3>2. i = closing[q].pipe => w # closing[q].writable
      BY <1>6 DEF IInv, EndInv
    <3> QED
      BY <2>2, <3>2, SMT
  <2>7. \A q, r \in Procs : closing'[q] # NoEnd /\ closing'[q] = closing'[r] => q = r
    BY <1>3, <2>6, <2>2, SMT DEF IInv, EndInv
  <2>8. ASSUME NEW g \in Files, NEW q \in Procs, file'[g].pipe # None,
               file'[g].pipe = closing'[q].pipe
        PROVE  file'[g].writable # closing'[q].writable
    <3>1. g # f /\ file'[g] = file[g]
      BY <2>4, <2>8
    <3>2. CASE q = p
      BY <1>6, <2>2, <2>8, <3>1, <3>2, SMT DEF IInv, EndInv
    <3>3. CASE q # p
      BY <1>3, <2>8, <3>1, <3>3, SMT DEF IInv, EndInv
    <3> QED
      BY <3>2, <3>3
  <2>9. EndInv'
    BY <2>5, <2>7, <2>8 DEF EndInv
  <2>10. ASSUME NEW j \in Pages, NEW x \in BOOLEAN PROVE HasEnd(j, x)' <=> HasEnd(j, x)
    <3>1. j # None
      BY FilesAssumption
    <3>2. ASSUME HasEnd(j, x)' PROVE HasEnd(j, x)
      <4>1. CASE \E g \in Files : file'[g].pipe = j /\ file'[g].writable = x
        BY <2>4, <3>1, <4>1 DEF HasEnd
      <4>2. CASE \E q \in Procs : closing'[q] = [pipe |-> j, writable |-> x]
        <5>1. PICK q \in Procs : closing'[q] = [pipe |-> j, writable |-> x]
          BY <4>2
        <5>2. q = p => i = j /\ w = x
          BY <2>2, <5>1, SMT
        <5> QED
          BY <1>3, <5>1, <5>2 DEF HasEnd
      <4> QED
        BY <3>2, <4>1, <4>2 DEF HasEnd
    <3>3. ASSUME HasEnd(j, x) PROVE HasEnd(j, x)'
      <4>1. CASE \E g \in Files : file[g].pipe = j /\ file[g].writable = x
        <5>1. PICK g \in Files : file[g].pipe = j /\ file[g].writable = x
          BY <4>1
        <5>2. CASE g = f
          BY <2>2, <5>1, <5>2 DEF HasEnd
        <5>3. CASE g # f
          BY <1>2, <5>1, <5>3 DEF HasEnd
        <5> QED
          BY <5>2, <5>3
      <4>2. CASE \E q \in Procs : closing[q] = [pipe |-> j, writable |-> x]
        <5>1. PICK q \in Procs : closing[q] = [pipe |-> j, writable |-> x]
          BY <4>2
        <5>2. q # p
          BY <3>1, <5>1, SMT DEF NoEnd
        <5> QED
          BY <1>3, <5>1, <5>2 DEF HasEnd
      <4> QED
        BY <3>3, <4>1, <4>2 DEF HasEnd
    <3> QED
      BY <3>2, <3>3
  <2>11. EndsMatch'
    BY <2>10 DEF IInv, EndsMatch
  <2>12. closing'[p].pipe # None
    BY <2>2, <1>6, SMT
  <2> QED
    BY <1>3, <2>3, <2>9, <2>11, <2>12
<1> QED
  BY <1>5, <1>6

----------------------------------------------------------------------------
(***************************************************************************)
(* One lemma for each action.                                              *)
(***************************************************************************)
LEMMA FilesNotNone == None \notin Files /\ None \notin Pages /\ None \notin Procs
BY FilesAssumption DEF Files

\* What a process has in hand is a file or a pipe of the tables.
LEMMA Held ==
  ASSUME IInv, NEW q \in Procs
  PROVE  /\ pc[q] \in {"pipe1", "pipe2", "undo0"} => f0[q] \in Files
         /\ pc[q] \in {"pipe2", "undo0", "undo1"} => f1[q] \in Files
         /\ pc[q] \in Reading \cup Writing => io[q] \in Pages
         /\ \A fd \in Fds : ofile[q][fd] # None => ofile[q][fd] \in Files
BY SMT DEF IInv, Types, CallInv

\* Descriptors stay, and new ones refer to files that have a descriptor.
Shared == \A q \in Procs, k \in Fds :
  /\ ofile[q][k] # None => ofile'[q][k] = ofile[q][k]
  /\ ofile'[q][k] # None => \E r \in Procs, j \in Fds : ofile[r][j] = ofile'[q][k]

\* A step that only adds references keeps all but the counts: dup and fork.
LEMMA MoreRefs ==
  ASSUME IInv, UNCHANGED <<pipe, f0, f1, closing, io, todo, n, killed, kills>>,
         file' \in [Files -> FileType], \A f \in Files : SameEnds(f),
         \A f \in Files : file'[f].ref = 0 => file[f].ref = 0,
         Shared, \A q \in Procs : pc'[q] = pc[q] \/ (pc'[q] = "run" /\ pc[q] = "unused")
  PROVE  LoneInv' /\ FileInv' /\ EndInv' /\ EndsMatch' /\ OpenInv' /\ WaitInv'
<1>1. LoneInv'
  BY SMT DEF IInv, LoneInv, Shared
<1>2. FileInv'
  <2>1. \A f \in Files : /\ file'[f].ref = 0 => file'[f].pipe = None
                         /\ file'[f].pipe = None => ~ file'[f].writable
    BY DEF IInv, FileInv, SameEnds
  <2>2. \A q \in Procs : /\ pc'[q] \in {"pipe1", "pipe2"} => file'[f0'[q]].pipe = None
                         /\ pc'[q] = "pipe2" => file'[f1'[q]].pipe = None
    BY Held DEF IInv, FileInv, SameEnds
  <2> QED
    BY <2>1, <2>2 DEF FileInv
<1>3. EndInv' /\ EndsMatch'
  BY EndsFrame DEF IInv
<1>4. OpenInv'
  <2>1. \A q \in Procs, k \in Fds : ofile[q][k] # None => SameEnds(ofile[q][k])
    BY Held
  <2> QED
    BY <2>1, OpenFrame DEF IInv, Reading, Writing, Shared
<1>5. WaitInv'
  BY WaitFrame DEF IInv, Asleep
<1> QED
  BY <1>1, <1>2, <1>3, <1>4, <1>5

\* Steps that concern neither files nor the ends of pipes.
LEMMA Quiet ==
  ASSUME IInv, UNCHANGED <<file, ofile, f0, f1, closing>>,
         \A i \in Pages : /\ pipe'[i].readopen = pipe[i].readopen
                          /\ pipe'[i].writeopen = pipe[i].writeopen,
         \A q \in Procs : pc'[q] \in {"pipe1", "pipe2"} => pc'[q] = pc[q]
  PROVE  RefsCounted' /\ LoneInv' /\ FileInv' /\ EndInv' /\ EndsMatch'
<1>1. \A f \in Files : SameEnds(f)
  BY DEF SameEnds
<1>2. EndInv' /\ EndsMatch'
  BY <1>1, EndsFrame DEF IInv
<1>3. RefsCounted' /\ LoneInv'
  BY RefsFrame, LoneFrame DEF IInv
<1>4. FileInv'
  BY DEF IInv, FileInv
<1> QED
  BY <1>2, <1>3, <1>4

\* exit, on its way in and when it is done.
LEMMA exitInv ==
  ASSUME IInv, NEW p \in Procs, exit(p) \/ exit_done(p)
  PROVE  IInv'
<1>1. /\ pc[p] \in {"run", "exit"} /\ closing[p] = NoEnd
      /\ \A q \in Procs : q # p => pc'[q] = pc[q]
      /\ pc' \in [Procs -> PCs] /\ pc'[p] \in {"exit", "unused"}
      /\ killed' \in [Procs -> BOOLEAN] /\ \A q \in Procs : killed'[q] => killed[q]
      /\ UNCHANGED <<file, pipe, ofile, f0, f1, closing, io, todo, n, kills>>
  BY DEF exit, exit_done, At, Goto, call, IInv, Types, PCs
<1>2. pc'[p] = "unused" => \A fd \in Fds : ofile[p][fd] = None
  BY <1>1 DEF exit, exit_done, FreeFds, Goto, IInv, Types
<1>3. Types'
  BY <1>1 DEF IInv, Types
<1>4. CallInv'
  BY <1>1, <1>2, SMT DEF IInv, CallInv, Reading, Writing
<1>5. RefsCounted' /\ LoneInv' /\ FileInv' /\ EndInv' /\ EndsMatch'
  BY <1>1, Quiet
<1>6. OpenInv'
  BY <1>1 DEF IInv, OpenInv, Reading, Writing
<1>7. WaitInv'
  BY <1>1, WaitFrame DEF IInv, Asleep
<1> QED
  BY <1>3, <1>4, <1>5, <1>6, <1>7 DEF IInv

\* kill, that makes the one who sleeps runnable.
LEMMA killInv ==
  ASSUME IInv, NEW p \in Procs, kill(p)
  PROVE  IInv'
<1> DEFINE l == CASE pc[p] = "rasleep" -> "read" [] pc[p] = "wasleep" -> "write"
                  [] OTHER -> pc[p]
<1>1. /\ pc' = [pc EXCEPT ![p] = l] /\ killed' = [killed EXCEPT ![p] = TRUE]
      /\ kills' = kills + 1 /\ kills \in Nat /\ pc[p] # "unused"
      /\ UNCHANGED <<file, pipe, ofile, f0, f1, closing, io, todo, n>>
  BY DEF kill, Goto, call, IInv, Types
<1>2. /\ l \in PCs
      /\ pc[p] = "rasleep" => l = "read"
      /\ pc[p] = "wasleep" => l = "write"
      /\ pc[p] \notin {"rasleep", "wasleep"} => l = pc[p]
  BY DEF PCs, IInv, Types
<1> HIDE DEF l
<1>3. \A q \in Procs : pc'[q] = IF q = p THEN l ELSE pc[q]
  BY <1>1 DEF IInv, Types
<1>4. Types'
  BY <1>1, <1>2, SMT DEF IInv, Types
<1>5. CallInv'
  BY <1>1, <1>2, <1>3, SMT DEF IInv, CallInv, Reading, Writing
<1>6. RefsCounted' /\ LoneInv' /\ FileInv' /\ EndInv' /\ EndsMatch'
  BY <1>1, <1>2, <1>3, Quiet
<1>7. OpenInv'
  BY <1>1, <1>2, <1>3, SMT DEF IInv, OpenInv, Reading, Writing
<1>8. WaitInv'
  <2>1. \A i : Used(i)' = Used(i) /\ Room(i)' = Room(i)
    BY <1>1 DEF Used, Room
  <2>2. kills' # 0
    BY <1>1, SMT
  <2>3. \A q \in Procs : pc'[q] \in Asleep => pc'[q] = pc[q]
    BY <1>2, <1>3 DEF Asleep
  <2>4. \A q \in Procs : pc'[q] \in {"rsleep", "wsleep"} <=> pc[q] \in {"rsleep", "wsleep"}
    BY <1>2, <1>3
  <2>5. \A i \in Pages : Used(i)' <= PIPESIZE
    BY <2>1 DEF IInv, WaitInv
  <2>6. \A q \in Procs, i \in Pages :
          pipe'[i].lock = q <=> pc'[q] \in {"rsleep", "wsleep"} /\ io'[q] = i
    BY <1>1, <2>4, SMT DEF IInv, WaitInv
  <2>7. \A q \in Procs :
          /\ pc'[q] \in {"rsleep", "rasleep"} => pipe'[io'[q]].writeopen
          /\ pc'[q] \in {"wsleep", "wasleep"} => pipe'[io'[q]].readopen /\ Room(io[q])' = 0
    BY <1>1, <2>1, <2>3 DEF IInv, WaitInv, Asleep
  <2> QED
    BY <1>1, <2>2, <2>5, <2>6, <2>7 DEF WaitInv, Room, Used
<1> QED
  BY <1>4, <1>5, <1>6, <1>7, <1>8 DEF IInv

\* A page without an open end: no file, no closer and no sleeper has it.
LEMMA FreePage ==
  ASSUME IInv, NEW i \in Pages, ~ InUse(i)
  PROVE  /\ \A f \in Files : file[f].pipe # i
         /\ \A q \in Procs : closing[q].pipe # i
         /\ \A q \in Procs : pc[q] \in Asleep => io[q] # i
<1>1. ~ HasEnd(i, TRUE) /\ ~ HasEnd(i, FALSE) /\ ~ pipe[i].readopen /\ ~ pipe[i].writeopen
  BY DEF InUse, IInv, EndsMatch
<1>2. ASSUME NEW f \in Files PROVE file[f].pipe # i
  <2>1. file[f].writable \in BOOLEAN
    BY DEF IInv, Types, FileType
  <2> QED
    BY <1>1, <2>1 DEF HasEnd
<1>3. ASSUME NEW q \in Procs PROVE closing[q].pipe # i
  <2>1. /\ closing[q].writable \in BOOLEAN
        /\ closing[q] = [pipe |-> closing[q].pipe, writable |-> closing[q].writable]
    BY DEF IInv, Types
  <2> QED
    BY <1>1, <2>1 DEF HasEnd
<1>4. \A q \in Procs : pc[q] \in Asleep => io[q] # i
  BY <1>1 DEF IInv, WaitInv, Asleep
<1> QED
  BY <1>2, <1>3, <1>4

\* The new pipe of pipealloc: files a and b are its ends.
Ends(a, b, i) == [file EXCEPT ![a].pipe = i, ![a].writable = FALSE,
                              ![b].pipe = i, ![b].writable = TRUE]

\* What pipealloc writes in the two files.
LEMMA NewEnds ==
  ASSUME IInv, NEW i \in Pages, NEW a \in Files, NEW b \in Files, a # b, file' = Ends(a, b, i)
  PROVE  /\ file' \in [Files -> FileType]
         /\ \A f \in Files : file'[f].ref = file[f].ref
         /\ file'[a].pipe = i /\ ~ file'[a].writable
         /\ file'[b].pipe = i /\ file'[b].writable
         /\ \A f \in Files : f # a /\ f # b => file'[f] = file[f]
<1> DEFINE x == [file[a] EXCEPT !.pipe = i, !.writable = FALSE]
           y == [file[b] EXCEPT !.pipe = i, !.writable = TRUE]
<1>1. file \in [Files -> FileType] /\ file[a] \in FileType /\ file[b] \in FileType
  BY DEF IInv, Types
<1>2. /\ x \in FileType /\ x.ref = file[a].ref /\ x.pipe = i /\ ~ x.writable
      /\ y \in FileType /\ y.ref = file[b].ref /\ y.pipe = i /\ y.writable
  BY <1>1 DEF FileType
<1> DEFINE g == [file EXCEPT ![a] = x]
<1>3. file' = [g EXCEPT ![b] = y]
  BY <1>1 DEF Ends
<1> HIDE DEF x, y
<1>4. /\ file'[a] = x /\ file'[b] = y
      /\ \A f \in Files : f # a /\ f # b => file'[f] = file[f]
      /\ file' \in [Files -> FileType]
  BY <1>1, <1>2, <1>3
<1> QED
  BY <1>2, <1>4

\* The pages and the records as pipealloc leaves them: both ends on the page i.
PipeMade(p, i, a, b) ==
  /\ ~ InUse(i) /\ pc[p] = "pipe2" /\ a = f0[p] /\ b = f1[p] /\ a # b
  /\ file' \in [Files -> FileType]
  /\ \A f \in Files : file'[f].ref = file[f].ref
  /\ file'[a].pipe = i /\ ~ file'[a].writable
  /\ file'[b].pipe = i /\ file'[b].writable
  /\ \A f \in Files : f # a /\ f # b => file'[f] = file[f]
  /\ pipe'[i] = Pipe(TRUE) /\ \A j \in Pages : j # i => pipe'[j] = pipe[j]
  /\ UNCHANGED <<closing, io, killed, kills>>
  /\ pc'[p] \in {"run", "undo0"}
  /\ \A q \in Procs : q # p => /\ pc'[q] = pc[q] /\ ofile'[q] = ofile[q]
                               /\ f0'[q] = f0[q] /\ f1'[q] = f1[q]

\* pipealloc keeps the ends matched and wakes nobody.
LEMMA NewPipe ==
  ASSUME IInv, NEW p \in Procs, NEW i \in Pages, NEW a \in Files, NEW b \in Files,
         PipeMade(p, i, a, b), file[a].ref # 0, file[b].ref # 0
  PROVE  FileInv' /\ EndInv' /\ EndsMatch' /\ OpenInv' /\ WaitInv'
<1> USE DEF PipeMade
<1>5. /\ \A f \in Files : file[f].pipe # i
      /\ \A q \in Procs : closing[q].pipe # i
      /\ \A q \in Procs : pc[q] \in Asleep => io[q] # i
  BY FreePage
<1>6. file[a].pipe = None /\ file[b].pipe = None
  BY DEF IInv, FileInv
<1>7. \A f \in Files : file'[f].pipe = i <=> f \in {a, b}
  BY <1>5, SMT
<1>8. \A f \in Files : f \notin {a, b} => SameEnds(f) /\ file'[f] = file[f]
  BY DEF SameEnds
<1>9. FileInv'
  <2>2. \A f \in Files : /\ file'[f].ref = 0 => file'[f].pipe = None
                         /\ file'[f].pipe = None => ~ file'[f].writable
    BY <1>7, FilesNotNone, SMT DEF IInv, FileInv
  <2>3. ASSUME NEW q \in Procs, pc'[q] \in {"pipe1", "pipe2"}
        PROVE  /\ file'[f0'[q]].pipe = None
               /\ pc'[q] = "pipe2" => file'[f1'[q]].pipe = None
    <3>1. q # p /\ pc[q] = pc'[q] /\ f0'[q] = f0[q] /\ f1'[q] = f1[q]
      BY <2>3
    <3>2. f0[q] \in Files /\ (pc[q] = "pipe2" => f1[q] \in Files)
      BY <2>3, <3>1, Held, SMT
    <3>3. f0[q] \notin {a, b} /\ (pc[q] = "pipe2" => f1[q] \notin {a, b})
      BY <3>1, <3>2, FilesNotNone, SMT DEF IInv, LoneInv
    <3> QED
      BY <1>8, <2>3, <3>1, <3>2, <3>3, SMT DEF IInv, FileInv
  <2> QED
    BY <2>2, <2>3 DEF FileInv
<1>10. EndInv'
  <2>1. ASSUME NEW f \in Files, NEW g \in Files, file'[f].pipe # None,
               file'[f].pipe = file'[g].pipe, file'[f].writable = file'[g].writable
        PROVE  f = g
    <3>1. CASE f \in {a, b}
      BY <1>7, <2>1, <3>1
    <3>2. CASE f \notin {a, b}
      BY <1>7, <1>8, <2>1, <3>2, SMT DEF IInv, EndInv
    <3> QED
      BY <3>1, <3>2
  <2>2. \A q, r \in Procs : closing'[q] # NoEnd /\ closing'[q] = closing'[r] => q = r
    BY DEF IInv, EndInv
  <2>3. ASSUME NEW f \in Files, NEW q \in Procs, file'[f].pipe # None,
               file'[f].pipe = closing'[q].pipe
        PROVE  file'[f].writable # closing'[q].writable
    BY <1>5, <1>7, <1>8, <2>3, SMT DEF IInv, EndInv
  <2> QED
    BY <2>1, <2>2, <2>3 DEF EndInv
<1>11. EndsMatch'
  <2>1. HasEnd(i, TRUE)' /\ HasEnd(i, FALSE)'
    <3>1. file'[a].writable = FALSE /\ file'[b].writable = TRUE
      BY SMT DEF FileType
    <3> QED
      BY <3>1 DEF HasEnd
  <2>2. pipe'[i].readopen /\ pipe'[i].writeopen
    BY SMTT(30) DEF Pipe
  <2>3. ASSUME NEW j \in Pages, j # i, NEW w \in BOOLEAN PROVE HasEnd(j, w)' <=> HasEnd(j, w)
    <3>1. \A f \in Files : file'[f].pipe = j <=> file[f].pipe = j
      BY <1>6, <1>7, <1>8, <2>3, FilesNotNone, SMT
    <3>2. \A f \in Files : file'[f].pipe = j => file'[f] = file[f]
      BY <1>7, <1>8, <2>3
    <3> QED
      BY <3>1, <3>2, SMT DEF HasEnd
  <2>4. \A j \in Pages : j # i => pipe'[j] = pipe[j]
    OBVIOUS
  <2>5. ASSUME NEW j \in Pages
        PROVE  /\ pipe'[j].writeopen <=> HasEnd(j, TRUE)'
               /\ pipe'[j].readopen <=> HasEnd(j, FALSE)'
    <3>1. CASE j = i
      BY <2>1, <2>2, <3>1
    <3>2. CASE j # i
      BY <2>3, <2>4, <3>2 DEF IInv, EndsMatch
    <3> QED
      BY <3>1, <3>2
  <2> QED
    BY <2>5 DEF EndsMatch
<1>12. OpenInv'
  <2>1. ASSUME NEW q \in Procs, q # p, NEW fd \in Fds, ofile[q][fd] # None
        PROVE  ofile'[q][fd] = ofile[q][fd] /\ SameEnds(ofile[q][fd])
    <3>1. ofile[q][fd] \in Files /\ ofile[q][fd] \notin {a, b}
      BY <2>1, Held, FilesNotNone, SMT DEF IInv, LoneInv
    <3> QED
      BY <1>8, <2>1, <3>1
  <2>2. \A q \in Procs : pc'[q] \in Reading \cup Writing => q # p /\ pc'[q] = pc[q]
    BY DEF Reading, Writing
  <2> QED
    BY <2>1, <2>2, OpenFrame DEF IInv
<1>13. WaitInv'
  <2>1. \A j \in Pages : j # i => Used(j)' = Used(j) /\ Room(j)' = Room(j)
    BY DEF Used, Room
  <2>2. pipe'[i].nread = 0 /\ pipe'[i].nwrite = 0 /\ pipe'[i].lock = None
    BY SMTT(30) DEF Pipe
  <2>3. Used(i)' = 0 /\ 0 <= PIPESIZE
    <3>1. (0 - 0 + UINT) % UINT = 0 /\ 0 <= PIPESIZE
      BY EmptyPipe, FilesAssumption, SMT
    <3>2. Used(i)' = (0 - 0 + UINT) % UINT
      BY <2>2 DEF Used
    <3> QED
      BY <3>1, <3>2
  <2>4. ASSUME NEW j \in Pages PROVE Used(j)' <= PIPESIZE
    <3>1. CASE j = i
      BY <2>3, <3>1
    <3>2. CASE j # i
      BY <2>1, <3>2, SMT DEF IInv, WaitInv
    <3> QED
      BY <3>1, <3>2
  <2>5. \A q \in Procs : pc'[q] \in Asleep \/ pc[q] \in Asleep =>
                           q # p /\ pc'[q] = pc[q] /\ io[q] # i /\ io[q] \in Pages
    <3>1. \A q \in Procs : pc[q] \in Asleep => io[q] \in Pages
      BY Held DEF Asleep, Reading, Writing
    <3> QED
      BY <1>5, <3>1 DEF Asleep
  <2>6. ASSUME NEW q \in Procs, NEW j \in Pages
        PROVE  pipe'[j].lock = q <=> pc'[q] \in {"rsleep", "wsleep"} /\ io'[q] = j
    <3>1. CASE j = i
      BY <2>2, <2>5, <3>1, FilesNotNone DEF Asleep
    <3>2. CASE j # i
      <4>1. pipe[j].lock = q <=> pc[q] \in {"rsleep", "wsleep"} /\ io[q] = j
        BY SMT DEF IInv, WaitInv
      <4>2. pc'[q] \in {"rsleep", "wsleep"} <=> pc[q] \in {"rsleep", "wsleep"}
        BY <2>5 DEF Asleep
      <4> QED
        BY <3>2, <4>1, <4>2
    <3> QED
      BY <3>1, <3>2
  <2>7. ASSUME NEW q \in Procs
        PROVE  /\ pc'[q] \in {"rsleep", "rasleep"} =>
                    pipe'[io'[q]].writeopen /\ (kills' = 0 => Used(io[q])' = 0)
               /\ pc'[q] \in {"wsleep", "wasleep"} =>
                    pipe'[io'[q]].readopen /\ Room(io[q])' = 0
    BY <2>1, <2>5, SMT DEF IInv, WaitInv, Asleep
  <2>8. kills' = 0 => \A q \in Procs : ~ killed'[q]
    BY DEF IInv, WaitInv
  <2> QED
    BY <2>4, <2>6, <2>7, <2>8 DEF WaitInv, Used, Room
<1> QED
  BY <1>9, <1>10, <1>11, <1>12, <1>13

\* The tables o and u of descriptors differ at most at d of p.
OnlyAt(o, u, p, d) == \A q \in Procs, k \in Fds : q # p \/ k # d => o[q][k] = u[q][k]
VarAt(w, v, p) == \A q \in Procs : q # p => w[q] = v[q]

\* nwrite + k, that may wrap, leaves k bytes more in the pipe.
LEMMA AddBytes ==
  ASSUME NEW r \in 0 .. UINT - 1, NEW w \in 0 .. UINT - 1, NEW k \in Nat,
         ((w - r + UINT) % UINT) + k <= PIPESIZE
  PROVE  /\ (w + k) % UINT \in 0 .. UINT - 1
         /\ (((w + k) % UINT) - r + UINT) % UINT = ((w - r + UINT) % UINT) + k
<1> DEFINE v == (w + k) % UINT
           u == (w - r + UINT) % UINT
           u2 == (v - r + UINT) % UINT
<1>1. UINT \in Nat \ {0} /\ PIPESIZE \in Nat /\ PIPESIZE < UINT
  BY FilesAssumption, SMT
<1>2. u = IF w >= r THEN w - r ELSE w - r + UINT
  BY UsedIs
<1>3. k < UINT /\ u + k < UINT
  BY <1>1, <1>2, SMT
<1>4. w + k \in Nat /\ w + k < UINT + UINT
  BY <1>1, <1>3, SMT
<1>5. v = IF w + k < UINT THEN w + k ELSE (w + k) - UINT
  BY <1>1, <1>4, ModTwice
<1>6. v \in 0 .. UINT - 1
  BY <1>1, <1>4, <1>5, SMT
<1>7. u2 = IF v >= r THEN v - r ELSE v - r + UINT
  BY <1>6, UsedIs
<1> HIDE DEF v, u, u2
<1>8. u2 = u + k
  BY <1>1, <1>2, <1>3, <1>5, <1>7, SMT
<1>9. QED
  BY <1>6, <1>8 DEF v, u, u2

\* nread + k, that may wrap, leaves k bytes fewer in the pipe.
LEMMA TakeBytes ==
  ASSUME NEW r \in 0 .. UINT - 1, NEW w \in 0 .. UINT - 1, NEW k \in Nat,
         k <= (w - r + UINT) % UINT
  PROVE  /\ (r + k) % UINT \in 0 .. UINT - 1
         /\ (w - ((r + k) % UINT) + UINT) % UINT = ((w - r + UINT) % UINT) - k
<1> DEFINE v == (r + k) % UINT
           u == (w - r + UINT) % UINT
           u2 == (w - v + UINT) % UINT
<1>1. UINT \in Nat \ {0}
  BY FilesAssumption, SMT
<1>2. u = IF w >= r THEN w - r ELSE w - r + UINT
  BY UsedIs
<1>3. k < UINT
  BY <1>1, <1>2, SMT
<1>4. r + k \in Nat /\ r + k < UINT + UINT
  BY <1>1, <1>3, SMT
<1>5. v = IF r + k < UINT THEN r + k ELSE (r + k) - UINT
  BY <1>1, <1>4, ModTwice
<1>6. v \in 0 .. UINT - 1
  BY <1>1, <1>4, <1>5, SMT
<1>7. u2 = IF w >= v THEN w - v ELSE w - v + UINT
  BY <1>6, UsedIs
<1> HIDE DEF v, u2
<1>8. u2 = u - k
  BY <1>1, <1>2, <1>3, <1>5, <1>7, SMT
<1>9. QED
  BY <1>6, <1>8 DEF v, u, u2

\* nwrite - nread, as the code takes it, is a natural number.
LEMMA UsedNat ==
  ASSUME Types, NEW i \in Pages
  PROVE  Used(i) \in Nat
<1>1. pipe[i].nread \in 0 .. UINT - 1 /\ pipe[i].nwrite \in 0 .. UINT - 1
  BY DEF Types, PipeType
<1>2. QED
  BY <1>1, UsedIs, FilesAssumption, SMT DEF Used

----------------------------------------------------------------------------
\* write starts on a pipe it has the writing end of.
LEMMA sys_writeInv ==
  ASSUME IInv, NEW p \in Procs, NEW fd \in Fds, NEW s \in Payloads, sys_write(p, fd, s)
  PROVE  IInv'
<1> DEFINE i == file[ofile[p][fd]].pipe
<1>1. /\ pc[p] = "run" /\ closing[p] = NoEnd /\ ofile[p][fd] # None /\ file[ofile[p][fd]].writable
      /\ io' = [io EXCEPT ![p] = i] /\ todo' = [todo EXCEPT ![p] = s]
      /\ pc' = [pc EXCEPT ![p] = "write"]
      /\ UNCHANGED <<file, pipe, ofile, f0, f1, closing, n, killed, kills>>
  BY DEF sys_write, InUser, At, Goto
<1>2. i \in Pages /\ i # None
  <2>1. ofile[p][fd] \in Files
    BY <1>1, Held
  <2> QED
    BY <1>1, <2>1 DEF IInv, FileInv, Types, FileType
<1>3. /\ \A q \in Procs : pc'[q] = IF q = p THEN "write" ELSE pc[q]
      /\ \A q \in Procs : io'[q] = IF q = p THEN i ELSE io[q]
  BY <1>1 DEF IInv, Types
<1>4. Types'
  BY <1>1, <1>2, FilesAssumption DEF IInv, Types, PCs
<1>5. CallInv'
  BY <1>1, <1>2, <1>3, SMT DEF IInv, CallInv, Reading, Writing
<1>6. RefsCounted' /\ LoneInv' /\ FileInv' /\ EndInv' /\ EndsMatch'
  BY <1>1, <1>3, Quiet, SMT
<1>7. OpenInv'
  BY <1>1, <1>3, SMT DEF IInv, OpenInv, Reading, Writing
<1>8. WaitInv'
  BY <1>1, <1>3, WaitFrame, SMT DEF IInv, Asleep
<1> QED
  BY <1>4, <1>5, <1>6, <1>7, <1>8 DEF IInv

\* read starts on a pipe it has the reading end of.
LEMMA sys_readInv ==
  ASSUME IInv, NEW p \in Procs, NEW fd \in Fds, NEW k \in Counts, sys_read(p, fd, k)
  PROVE  IInv'
<1> DEFINE i == file[ofile[p][fd]].pipe
<1>1. /\ pc[p] = "run" /\ closing[p] = NoEnd /\ ofile[p][fd] # None /\ i # None
      /\ ~ file[ofile[p][fd]].writable
      /\ io' = [io EXCEPT ![p] = i] /\ n' = [n EXCEPT ![p] = k]
      /\ pc' = [pc EXCEPT ![p] = "read"]
      /\ UNCHANGED <<file, pipe, ofile, f0, f1, closing, todo, killed, kills>>
  BY DEF sys_read, InUser, At, Goto
<1>2. i \in Pages
  <2>1. ofile[p][fd] \in Files
    BY <1>1, Held
  <2> QED
    BY <1>1, <2>1 DEF IInv, Types, FileType
<1>3. /\ \A q \in Procs : pc'[q] = IF q = p THEN "read" ELSE pc[q]
      /\ \A q \in Procs : io'[q] = IF q = p THEN i ELSE io[q]
  BY <1>1 DEF IInv, Types
<1>4. Types'
  BY <1>1, <1>2, FilesAssumption DEF IInv, Types, PCs
<1>5. CallInv'
  BY <1>1, <1>2, <1>3, SMT DEF IInv, CallInv, Reading, Writing
<1>6. RefsCounted' /\ LoneInv' /\ FileInv' /\ EndInv' /\ EndsMatch'
  BY <1>1, <1>3, Quiet, SMT
<1>7. OpenInv'
  BY <1>1, <1>3, SMT DEF IInv, OpenInv, Reading, Writing
<1>8. WaitInv'
  BY <1>1, <1>3, WaitFrame, SMT DEF IInv, Asleep
<1> QED
  BY <1>4, <1>5, <1>6, <1>7, <1>8 DEF IInv

\* sleep lets go of the lock of the pipe.
LEMMA sleepInv ==
  ASSUME IInv, NEW p \in Procs, sleep(p)
  PROVE  IInv'
<1> DEFINE i == io[p]
           l == IF pc[p] = "rsleep" THEN "rasleep" ELSE "wasleep"
<1>1. /\ pc[p] \in {"rsleep", "wsleep"} /\ pc' = [pc EXCEPT ![p] = l]
      /\ pipe' = [pipe EXCEPT ![i].lock = None]
      /\ UNCHANGED <<file, ofile, f0, f1, closing, io, todo, n, killed, kills>>
  BY DEF sleep, Goto, call
<1>2. i \in Pages
  BY <1>1, Held DEF Reading, Writing
<1>3. /\ l \in PCs /\ (pc[p] = "rsleep" => l = "rasleep") /\ (pc[p] = "wsleep" => l = "wasleep")
  BY <1>1 DEF PCs
<1> HIDE DEF l
<1>4. /\ \A q \in Procs : pc'[q] = IF q = p THEN l ELSE pc[q]
      /\ \A j \in Pages : pipe'[j] = IF j = i THEN [pipe[i] EXCEPT !.lock = None] ELSE pipe[j]
  BY <1>1, <1>2 DEF IInv, Types
<1>5. \A j \in Pages : pipe[j] \in PipeType
  BY DEF IInv, Types
<1>6. /\ pipe'[i] \in PipeType /\ pipe'[i].lock = None
      /\ \A j \in Pages : /\ pipe'[j].readopen = pipe[j].readopen
                          /\ pipe'[j].writeopen = pipe[j].writeopen
                          /\ pipe'[j].nread = pipe[j].nread
                          /\ pipe'[j].nwrite = pipe[j].nwrite
                          /\ j # i => pipe'[j] = pipe[j]
  BY <1>2, <1>4, <1>5, SMT DEF PipeType
<1>7. Types'
  <2>1. pipe' \in [Pages -> PipeType]
    BY <1>1, <1>5, <1>6 DEF IInv, Types
  <2> QED
    BY <1>1, <1>3, <2>1 DEF IInv, Types
<1>8. CallInv'
  BY <1>1, <1>3, <1>4, SMT DEF IInv, CallInv, Reading, Writing
<1>9. RefsCounted' /\ LoneInv' /\ FileInv' /\ EndInv' /\ EndsMatch'
  BY <1>1, <1>3, <1>4, <1>6, Quiet
<1>10. OpenInv'
  BY <1>1, <1>3, <1>4, SMT DEF IInv, OpenInv, Reading, Writing
<1>11. WaitInv'
  <2>1. \A j \in Pages : Used(j)' = Used(j) /\ Room(j)' = Room(j)
    BY <1>6 DEF Used, Room
  <2>2. \A j \in Pages : Used(j)' <= PIPESIZE
    BY <2>1, SMT DEF IInv, WaitInv
  <2>3. ASSUME NEW q \in Procs, NEW j \in Pages
        PROVE  pipe'[j].lock = q <=> pc'[q] \in {"rsleep", "wsleep"} /\ io'[q] = j
    <3>1. pipe[j].lock = q <=> pc[q] \in {"rsleep", "wsleep"} /\ io[q] = j
      BY SMT DEF IInv, WaitInv
    <3>2. pipe[i].lock = p
      BY <1>1, <1>2 DEF IInv, WaitInv
    <3> QED
      BY <1>1, <1>3, <1>4, <1>6, <3>1, <3>2, FilesNotNone, SMT
  <2>4. ASSUME NEW q \in Procs
        PROVE  /\ pc'[q] \in {"rsleep", "rasleep"} =>
                    pipe'[io'[q]].writeopen /\ (kills' = 0 => Used(io[q])' = 0)
               /\ pc'[q] \in {"wsleep", "wasleep"} =>
                    pipe'[io'[q]].readopen /\ Room(io[q])' = 0
    <3>1. /\ pc'[q] \in {"rsleep", "rasleep"} => pc[q] \in {"rsleep", "rasleep"}
          /\ pc'[q] \in {"wsleep", "wasleep"} => pc[q] \in {"wsleep", "wasleep"}
      BY <1>1, <1>3, <1>4
    <3>2. pc'[q] \in Asleep => io[q] \in Pages
      BY <3>1, Held DEF Asleep, Reading, Writing
    <3> QED
      BY <1>1, <1>6, <2>1, <3>1, <3>2, SMT DEF IInv, WaitInv, Asleep
  <2>5. kills' = 0 => \A q \in Procs : ~ killed'[q]
    BY <1>1 DEF IInv, WaitInv
  <2> QED
    BY <1>1, <2>2, <2>3, <2>4, <2>5 DEF WaitInv, Used, Room
<1> QED
  BY <1>7, <1>8, <1>9, <1>10, <1>11 DEF IInv

----------------------------------------------------------------------------
(***************************************************************************)
(* The steps under the lock of a pipe: pipeclose, pipewrite and piperead.  *)
(***************************************************************************)
\* The other processes stay where they are, or are woken at pipe i.
Woken(i, p) == \A q \in Procs : q # p =>
  /\ io'[q] = io[q]
  /\ \/ pc'[q] = pc[q]
     \/ io[q] = i /\ pc[q] = "rasleep" /\ pc'[q] = "read"
     \/ io[q] = i /\ pc[q] = "wasleep" /\ pc'[q] = "write"

\* Whoever still waits at pipe i waits for good reason.
Waits(i, q) == io'[q] = i =>
  /\ pc'[q] \in {"rsleep", "rasleep"} => pipe'[i].writeopen /\ (kills = 0 => Used(i)' = 0)
  /\ pc'[q] \in {"wsleep", "wasleep"} => pipe'[i].readopen /\ Room(i)' = 0

\* Process p returns or goes on, or has the lock and is about to sleep.
Leaves(i, p) == \/ pc'[p] \notin Asleep /\ pipe'[i].lock = None
                \/ pc'[p] \in {"rsleep", "wsleep"} /\ io'[p] = i /\ pipe'[i].lock = p

\* A step under the lock of pipe i keeps WaitInv, if those it leaves asleep may be.
LEMMA PipeWait ==
  ASSUME IInv, NEW p \in Procs, NEW i \in Pages, Woken(i, p), UNCHANGED <<killed, kills>>,
         \A j \in Pages : j # i => pipe'[j] = pipe[j],
         pipe[i].lock = None, pc[p] \notin Asleep, Used(i)' <= PIPESIZE, Leaves(i, p),
         \A q \in Procs : Waits(i, q)
  PROVE  WaitInv'
<1>1. \A j \in Pages : j # i => Used(j)' = Used(j) /\ Room(j)' = Room(j)
  BY DEF Used, Room
<1>2. \A j \in Pages : Used(j)' <= PIPESIZE
  BY <1>1, SMT DEF IInv, WaitInv
<1>3. \A q \in Procs : ~ (pc[q] \in {"rsleep", "wsleep"} /\ io[q] = i)
  BY FilesNotNone, SMT DEF IInv, WaitInv
<1>4. ASSUME NEW q \in Procs, NEW j \in Pages
      PROVE  pipe'[j].lock = q <=> pc'[q] \in {"rsleep", "wsleep"} /\ io'[q] = j
  <2>1. pipe[j].lock = q <=> pc[q] \in {"rsleep", "wsleep"} /\ io[q] = j
    BY SMT DEF IInv, WaitInv
  <2>2. CASE q # p
    <3>1. pc'[q] \in {"rsleep", "wsleep"} <=> pc[q] \in {"rsleep", "wsleep"}
      BY <2>2 DEF Woken
    <3>2. io'[q] = io[q]
      BY <2>2 DEF Woken
    <3>3. pipe'[i].lock # q
      BY <2>2, FilesNotNone DEF Leaves
    <3> QED
      BY <1>3, <2>1, <3>1, <3>2, <3>3
  <2>3. CASE q = p
    BY <2>1, <2>3, FilesNotNone DEF Leaves, Asleep
  <2> QED
    BY <2>2, <2>3
<1>5. ASSUME NEW q \in Procs
      PROVE  /\ pc'[q] \in {"rsleep", "rasleep"} =>
                  pipe'[io'[q]].writeopen /\ (kills' = 0 => Used(io[q])' = 0)
             /\ pc'[q] \in {"wsleep", "wasleep"} =>
                  pipe'[io'[q]].readopen /\ Room(io[q])' = 0
  <2>1. CASE io'[q] = i
    BY <2>1 DEF Waits, Used, Room
  <2>2. CASE io'[q] # i /\ pc'[q] \in Asleep
    <3>1. q # p
      BY <2>2 DEF Leaves, Asleep
    <3>2. pc'[q] = pc[q] /\ io'[q] = io[q]
      BY <2>2, <3>1 DEF Woken, Asleep
    <3>3. io[q] \in Pages /\ io[q] # i
      BY <2>2, <3>2, Held DEF Reading, Writing, Asleep
    <3>4. PICK j \in Pages : j = io[q] /\ j # i
      BY <3>3
    <3>5. /\ pc[q] \in {"rsleep", "rasleep"} => pipe[j].writeopen /\ (kills = 0 => Used(j) = 0)
          /\ pc[q] \in {"wsleep", "wasleep"} => pipe[j].readopen /\ Room(j) = 0
      BY <3>4 DEF IInv, WaitInv
    <3>6. /\ pc'[q] \in {"rsleep", "rasleep"} =>
               pipe'[j].writeopen /\ (kills' = 0 => Used(j)' = 0)
          /\ pc'[q] \in {"wsleep", "wasleep"} => pipe'[j].readopen /\ Room(j)' = 0
      BY <1>1, <3>2, <3>4, <3>5
    <3> QED
      BY <3>2, <3>4, <3>6 DEF Used, Room
  <2>3. CASE pc'[q] \notin Asleep
    BY <2>3 DEF Asleep
  <2> QED
    BY <2>1, <2>2, <2>3
<1>6. kills' = 0 => \A q \in Procs : ~ killed'[q]
  BY DEF IInv, WaitInv
<1> QED
  BY <1>2, <1>4, <1>5, <1>6 DEF WaitInv, Used, Room

\* pipeclose takes away its end of the pipe, and no other.
LEMMA EndClosed ==
  ASSUME IInv, NEW p \in Procs, NEW i \in Pages, NEW w \in BOOLEAN,
         closing[p] = [pipe |-> i, writable |-> w], file' = file,
         closing'[p] = NoEnd, \A q \in Procs : q # p => closing'[q] = closing[q]
  PROVE  /\ EndInv' /\ ~ HasEnd(i, w)'
         /\ \A j \in Pages, v \in BOOLEAN : j # i \/ v # w => (HasEnd(j, v)' <=> HasEnd(j, v))
<1>1. closing[p] # NoEnd /\ closing[p].pipe = i /\ closing[p].writable = w /\ i # None
  BY FilesNotNone, SMT DEF NoEnd
<1>2. EndInv'
  <2>1. \A q \in Procs : closing'[q] # NoEnd => closing'[q] = closing[q]
    OBVIOUS
  <2>2. \A q \in Procs : closing'[q].pipe # None => closing'[q] = closing[q]
    BY SMT DEF NoEnd
  <2>3. \A q, r \in Procs : closing'[q] # NoEnd /\ closing'[q] = closing'[r] => q = r
    BY <2>1, SMT DEF IInv, EndInv
  <2>4. \A f \in Files, q \in Procs :
          file[f].pipe # None /\ file[f].pipe = closing'[q].pipe
          => file[f].writable # closing'[q].writable
    BY <2>2, SMT DEF IInv, EndInv
  <2> QED
    BY <2>3, <2>4 DEF IInv, EndInv
<1>3. ~ HasEnd(i, w)'
  <2>1. \A f \in Files : ~ (file[f].pipe = i /\ file[f].writable = w)
    BY <1>1 DEF IInv, EndInv
  <2>2. \A q \in Procs : closing'[q] # [pipe |-> i, writable |-> w]
    BY <1>1 DEF IInv, EndInv
  <2> QED
    BY <2>1, <2>2 DEF HasEnd
<1>4. ASSUME NEW j \in Pages, NEW v \in BOOLEAN, j # i \/ v # w
      PROVE  HasEnd(j, v)' <=> HasEnd(j, v)
  <2>1. NoEnd # [pipe |-> j, writable |-> v]
    BY FilesNotNone DEF NoEnd
  <2>2. closing[p] # [pipe |-> j, writable |-> v]
    BY <1>1, <1>4, SMT
  <2>3. \A q \in Procs : closing'[q] = [pipe |-> j, writable |-> v]
                         <=> closing[q] = [pipe |-> j, writable |-> v]
    BY <2>1, <2>2
  <2> QED
    BY <2>3 DEF HasEnd
<1> QED
  BY <1>2, <1>3, <1>4

\* The pipe as pipeclose leaves it.
ClosedPipe(i, w) == IF (w /\ ~ pipe[i].readopen) \/ (~ w /\ ~ pipe[i].writeopen) THEN Pipe(FALSE)
                    ELSE [pipe[i] EXCEPT !.writeopen = ~ w, !.readopen = w]

\* What pipeclose leaves of a pipe: the other end, or a free page.
LEMMA ClosedPipeIs ==
  ASSUME Types, WaitInv, NEW i \in Pages, NEW w \in BOOLEAN, pipe'[i] = ClosedPipe(i, w),
         pipe[i].lock = None
  PROVE  /\ pipe'[i] \in PipeType /\ pipe'[i].lock = None /\ Used(i)' <= PIPESIZE
         /\ w => ~ pipe'[i].writeopen /\ (pipe'[i].readopen <=> pipe[i].readopen)
         /\ ~ w => ~ pipe'[i].readopen /\ (pipe'[i].writeopen <=> pipe[i].writeopen)
         /\ pipe'[i].readopen \/ pipe'[i].writeopen => Used(i)' = Used(i)
<1>1. pipe[i] \in PipeType /\ Used(i) <= PIPESIZE
  BY DEF Types, WaitInv
<1>2. CASE (w /\ ~ pipe[i].readopen) \/ (~ w /\ ~ pipe[i].writeopen)
  <2>1. pipe'[i] = Pipe(FALSE)
    BY <1>2 DEF ClosedPipe
  <2>2. Pipe(FALSE) \in PipeType /\ (0 - 0 + UINT) % UINT = 0
    BY EmptyPipe
  <2>3. /\ pipe'[i].lock = None /\ pipe'[i].nread = 0 /\ pipe'[i].nwrite = 0
        /\ pipe'[i].readopen = FALSE /\ pipe'[i].writeopen = FALSE
    BY <2>1, SMT DEF Pipe
  <2>4. Used(i)' = 0
    BY <2>2, <2>3 DEF Used
  <2>5. /\ w => (pipe'[i].readopen <=> pipe[i].readopen)
        /\ ~ w => (pipe'[i].writeopen <=> pipe[i].writeopen)
        /\ ~ pipe'[i].readopen /\ ~ pipe'[i].writeopen
    BY <1>2, <2>3
  <2>6. pipe'[i] \in PipeType
    BY <2>1, <2>2
  <2>7. Used(i)' <= PIPESIZE
    BY <2>4, FilesAssumption, SMT
  <2> QED
    BY <2>3, <2>5, <2>6, <2>7
<1>3. CASE ~ ((w /\ ~ pipe[i].readopen) \/ (~ w /\ ~ pipe[i].writeopen))
  <2>1. pipe'[i] = [pipe[i] EXCEPT !.writeopen = ~ w, !.readopen = w]
    BY <1>3 DEF ClosedPipe
  <2>2. /\ pipe'[i] \in PipeType /\ pipe'[i].lock = pipe[i].lock
        /\ pipe'[i].nread = pipe[i].nread /\ pipe'[i].nwrite = pipe[i].nwrite
        /\ pipe'[i].readopen = w /\ pipe'[i].writeopen = ~ w
    BY <1>1, <2>1 DEF PipeType
  <2>3. Used(i)' = Used(i)
    BY <2>2 DEF Used
  <2> QED
    BY <1>1, <1>3, <2>2, <2>3
<1> QED
  BY <1>2, <1>3

\* pipeclose, that wakes both sides.
LEMMA pipecloseInv ==
  ASSUME IInv, NEW p \in Procs, pipeclose(p)
  PROVE  IInv'
<1> DEFINE i == closing[p].pipe
           w == closing[p].writable
<1>1. /\ i # None /\ pipe[i].lock = None /\ pipe' = [pipe EXCEPT ![i] = ClosedPipe(i, w)]
      /\ pc' = WokenByClose(i, w) /\ closing' = [closing EXCEPT ![p] = NoEnd]
      /\ UNCHANGED <<file, ofile, f0, f1, io, todo, n, killed, kills>>
  BY DEF pipeclose, ClosedPipe
<1>2. /\ i \in Pages /\ w \in BOOLEAN /\ closing[p] = [pipe |-> i, writable |-> w]
  BY <1>1 DEF IInv, Types
<1>3. pc[p] \in {"run", "exit", "undo1"}
  <2>1. closing[p] # NoEnd
    BY <1>1, SMT DEF NoEnd
  <2> QED
    BY <2>1 DEF IInv, CallInv
<1>4. /\ \A q \in Procs : closing'[q] = IF q = p THEN NoEnd ELSE closing[q]
      /\ \A j \in Pages : pipe'[j] = IF j = i THEN ClosedPipe(i, w) ELSE pipe[j]
  BY <1>1, <1>2 DEF IInv, Types
<1>5. \A q \in Procs : pc'[q] = IF io[q] # i THEN pc[q]
                                ELSE IF w /\ pc[q] = "rasleep" THEN "read"
                                ELSE IF ~ w /\ pc[q] = "wasleep" THEN "write" ELSE pc[q]
  BY <1>1 DEF WokenByClose
<1>6. PICK j \in Pages, v \in BOOLEAN : j = i /\ v = w
  BY <1>2
<1>7. /\ pipe'[j] \in PipeType /\ pipe'[j].lock = None /\ Used(j)' <= PIPESIZE
      /\ v => ~ pipe'[j].writeopen /\ (pipe'[j].readopen <=> pipe[j].readopen)
      /\ ~ v => ~ pipe'[j].readopen /\ (pipe'[j].writeopen <=> pipe[j].writeopen)
      /\ pipe'[j].readopen \/ pipe'[j].writeopen => Used(j)' = Used(j)
  <2>1. pipe'[j] = ClosedPipe(j, v) /\ pipe[j].lock = None
    BY <1>1, <1>4, <1>6
  <2> QED
    BY <2>1, ClosedPipeIs DEF IInv
<1>8. /\ closing[p] = [pipe |-> j, writable |-> v]
      /\ \A k \in Pages : k # j => pipe'[k] = pipe[k]
      /\ \A q \in Procs : pc'[q] = IF io[q] # j THEN pc[q]
                                   ELSE IF v /\ pc[q] = "rasleep" THEN "read"
                                   ELSE IF ~ v /\ pc[q] = "wasleep" THEN "write" ELSE pc[q]
  BY <1>2, <1>4, <1>5, <1>6
<1> HIDE DEF i, w
<1>9. ASSUME NEW q \in Procs
      PROVE  /\ \/ pc'[q] = pc[q]
                \/ pc[q] = "rasleep" /\ pc'[q] = "read"
                \/ pc[q] = "wasleep" /\ pc'[q] = "write"
             /\ pc'[q] # pc[q] => io[q] = j
  <2>1. CASE v = TRUE
    BY <1>8, <2>1
  <2>2. CASE v = FALSE
    BY <1>8, <2>2
  <2> QED
    BY <2>1, <2>2
<1>10. Types'
  <2>1. pipe' \in [Pages -> PipeType]
    BY <1>1, <1>6, <1>7, <1>8 DEF IInv, Types
  <2>2. pc' \in [Procs -> PCs]
    <3>1. \A q \in Procs : pc'[q] \in PCs
      BY <1>9 DEF IInv, Types, PCs
    <3>2. pc' = [q \in Procs |-> pc'[q]]
      BY <1>1 DEF WokenByClose
    <3> QED
      BY <3>1, <3>2
  <2>3. closing' \in [Procs -> [pipe : Pages \cup {None}, writable : BOOLEAN]]
    BY <1>1 DEF IInv, Types, NoEnd
  <2> QED
    BY <1>1, <2>1, <2>2, <2>3 DEF IInv, Types
<1>11. CallInv'
  BY <1>1, <1>4, <1>9, SMT DEF IInv, CallInv, Reading, Writing
<1>12. RefsCounted' /\ LoneInv'
  BY <1>1, RefsFrame, LoneFrame DEF IInv
<1>13. FileInv'
  BY <1>1, <1>9 DEF IInv, FileInv
<1>14. EndInv' /\ EndsMatch'
  <2>1. /\ EndInv' /\ ~ HasEnd(j, v)'
        /\ \A k \in Pages, u \in BOOLEAN : k # j \/ u # v => (HasEnd(k, u)' <=> HasEnd(k, u))
    BY <1>1, <1>4, <1>8, EndClosed, SMT DEF IInv
  <2>2. ASSUME NEW k \in Pages
        PROVE  /\ pipe'[k].writeopen <=> HasEnd(k, TRUE)'
               /\ pipe'[k].readopen <=> HasEnd(k, FALSE)'
    <3>1. (pipe[k].writeopen <=> HasEnd(k, TRUE)) /\ (pipe[k].readopen <=> HasEnd(k, FALSE))
      BY DEF IInv, EndsMatch
    <3>2. CASE k # j
      BY <1>8, <2>1, <3>1, <3>2
    <3>3. CASE k = j /\ v = TRUE
      BY <1>7, <2>1, <3>1, <3>3
    <3>4. CASE k = j /\ v = FALSE
      BY <1>7, <2>1, <3>1, <3>4
    <3> QED
      BY <3>2, <3>3, <3>4
  <2> QED
    BY <2>1, <2>2 DEF EndsMatch
<1>15. OpenInv'
  BY <1>1, <1>9, OpenFrame DEF IInv, SameEnds, Reading, Writing
<1>16. WaitInv'
  <2>1. Woken(j, p) /\ Leaves(j, p) /\ pc[p] \notin Asleep
    BY <1>1, <1>3, <1>7, <1>9 DEF Woken, Leaves, Asleep
  <2>2. ASSUME NEW q \in Procs PROVE Waits(j, q)
    <3>1. io[q] = j /\ pc[q] \in Asleep =>
            /\ pc[q] \in {"rsleep", "rasleep"} => pipe[j].writeopen /\ (kills = 0 => Used(j) = 0)
            /\ pc[q] \in {"wsleep", "wasleep"} => pipe[j].readopen /\ Room(j) = 0
      BY SMT DEF IInv, WaitInv
    <3>2. io[q] = j => pc[q] \notin {"rsleep", "wsleep"}
      BY <1>1, <1>6, FilesNotNone, SMT DEF IInv, WaitInv
    <3>3. io[q] = j /\ pc'[q] = "rasleep" => pc[q] = "rasleep" /\ ~ v
      BY <1>8
    <3>4. io[q] = j /\ pc'[q] = "wasleep" => pc[q] = "wasleep" /\ v
      BY <1>8
    <3>5. io[q] = j => pc'[q] \notin {"rsleep", "wsleep"}
      BY <1>9, <3>2
    <3> QED
      BY <1>1, <1>7, <3>1, <3>3, <3>4, <3>5 DEF Waits, Asleep, Room
  <2>3. pipe[j].lock = None
    BY <1>1, <1>6
  <2> QED
    BY <1>1, <1>7, <1>8, <2>1, <2>2, <2>3, PipeWait
<1> QED
  BY <1>10, <1>11, <1>12, <1>13, <1>14, <1>15, <1>16 DEF IInv

\* Process p returns from piperead or pipewrite, or stays in it.
Returns(p) == \/ pc'[p] = "run" /\ io'[p] = None
              \/ /\ io'[p] = io[p] /\ pc'[p] \in Reading \cup Writing
                 /\ pc'[p] \in Writing <=> pc[p] \in Writing

\* piperead and pipewrite change no reference and no end.
LEMMA PipeCall ==
  ASSUME IInv, NEW p \in Procs, NEW i \in Pages, pc[p] \in {"read", "write"}, closing[p] = NoEnd,
         Woken(i, p), Returns(p), UNCHANGED <<file, ofile, f0, f1, closing>>,
         \A j \in Pages : /\ pipe'[j].readopen = pipe[j].readopen
                          /\ pipe'[j].writeopen = pipe[j].writeopen
  PROVE  CallInv' /\ RefsCounted' /\ LoneInv' /\ FileInv' /\ EndInv' /\ EndsMatch' /\ OpenInv'
<1>1. ASSUME NEW q \in Procs
      PROVE  \/ pc'[q] = pc[q] /\ io'[q] = io[q]
             \/ pc'[q] = "run" /\ io'[q] = None /\ pc[q] \in {"read", "write"}
             \/ pc'[q] \in Reading /\ pc[q] \in Reading /\ io'[q] = io[q]
             \/ pc'[q] \in Writing /\ pc[q] \in Writing /\ io'[q] = io[q]
  <2>1. CASE q = p
    BY <2>1 DEF Returns, Reading, Writing
  <2>2. CASE q # p
    BY <2>2 DEF Woken, Reading, Writing
  <2> QED
    BY <2>1, <2>2
<1>2. CallInv'
  BY <1>1, SMT DEF IInv, CallInv, Reading, Writing
<1>3. \A q \in Procs : pc'[q] \in {"pipe1", "pipe2"} => pc'[q] = pc[q]
  BY <1>1 DEF Reading, Writing
<1>4. RefsCounted' /\ LoneInv' /\ FileInv' /\ EndInv' /\ EndsMatch'
  BY <1>3, Quiet
<1>5. OpenInv'
  <2>1. \A q \in Procs : pc'[q] \in Reading \cup Writing =>
          /\ pc[q] \in Reading \cup Writing /\ (pc'[q] \in Writing <=> pc[q] \in Writing)
          /\ io'[q] = io[q]
    BY <1>1 DEF Reading, Writing
  <2> QED
    BY <2>1, OpenFrame DEF IInv, SameEnds
<1> QED
  BY <1>2, <1>4, <1>5

\* piperead, each of its ways out.
LEMMA pipereadInv ==
  ASSUME IInv, NEW p \in Procs, piperead(p)
  PROVE  IInv'
<1>1. PICK i \in Pages : i = io[p]
  <2>1. pc[p] = "read"
    BY DEF piperead, At
  <2> QED
    BY <2>1, Held DEF Reading, Writing
<1> DEFINE k == Lesser(n[p], Used(i))
           Return == io' = [io EXCEPT ![p] = None] /\ n' = [n EXCEPT ![p] = 0]
<1>2. /\ pc[p] = "read" /\ closing[p] = NoEnd /\ pipe[i].lock = None
      /\ UNCHANGED <<file, ofile, f0, f1, closing, todo, killed, kills>>
  BY <1>1 DEF piperead, At
<1>3. \/ /\ MustWait(i) /\ killed[p] /\ pc' = [pc EXCEPT ![p] = "run"] /\ Return /\ pipe' = pipe
      \/ /\ MustWait(i) /\ ~ killed[p] /\ pc' = [pc EXCEPT ![p] = "rsleep"]
         /\ pipe' = [pipe EXCEPT ![i].lock = p] /\ UNCHANGED <<io, n>>
      \/ /\ ~ MustWait(i) /\ pipe' = [pipe EXCEPT ![i].nread = (@ + k) % UINT]
         /\ pc' = WakeAnd(i, "wasleep", "write", p, "run") /\ Return
  BY <1>1 DEF piperead, Goto
<1> HIDE DEF k
<1>4. pipe[i] \in PipeType /\ Used(i) \in Nat /\ Used(i) <= PIPESIZE /\ pipe \in [Pages -> PipeType]
  BY UsedNat DEF IInv, Types, WaitInv
<1>5. \A q \in Procs : io[q] = i => /\ pc[q] = "rasleep" => /\ pipe[i].writeopen
                                                            /\ kills = 0 => Used(i) = 0
                                    /\ pc[q] = "wasleep" => pipe[i].readopen /\ Room(i) = 0
                                    /\ pc[q] \notin {"rsleep", "wsleep"}
  BY <1>2, FilesNotNone, SMTT(30) DEF IInv, WaitInv
<1>6. CASE MustWait(i) /\ killed[p] /\ pc' = [pc EXCEPT ![p] = "run"] /\ Return /\ pipe' = pipe
  <2>1. \A q \in Procs : /\ pc'[q] = IF q = p THEN "run" ELSE pc[q]
                         /\ io'[q] = IF q = p THEN None ELSE io[q]
    BY <1>6 DEF IInv, Types
  <2>2. Types'
    BY <1>2, <1>6 DEF IInv, Types, PCs
  <2>3. Woken(i, p) /\ Returns(p)
    BY <2>1 DEF Woken, Returns
  <2>4. CallInv' /\ RefsCounted' /\ LoneInv' /\ FileInv' /\ EndInv' /\ EndsMatch' /\ OpenInv'
    BY <1>2, <1>6, <2>3, PipeCall
  <2>5. WaitInv'
    BY <1>2, <1>6, <2>1, WaitFrame, SMT DEF IInv, Asleep
  <2> QED
    BY <2>2, <2>4, <2>5 DEF IInv
<1>7. CASE /\ MustWait(i) /\ ~ killed[p] /\ pc' = [pc EXCEPT ![p] = "rsleep"]
           /\ pipe' = [pipe EXCEPT ![i].lock = p] /\ UNCHANGED <<io, n>>
  <2>1. /\ \A q \in Procs : pc'[q] = IF q = p THEN "rsleep" ELSE pc[q]
        /\ \A j \in Pages : j # i => pipe'[j] = pipe[j]
        /\ pipe'[i] = [pipe[i] EXCEPT !.lock = p]
    BY <1>4, <1>7 DEF IInv, Types
  <2>2. /\ pipe'[i] \in PipeType /\ pipe'[i].lock = p
        /\ pipe'[i].readopen = pipe[i].readopen /\ pipe'[i].writeopen = pipe[i].writeopen
        /\ pipe'[i].nread = pipe[i].nread /\ pipe'[i].nwrite = pipe[i].nwrite
    BY <1>4, <2>1 DEF PipeType
  <2>3. Used(i)' = Used(i) /\ Room(i)' = Room(i)
    BY <2>2 DEF Used, Room
  <2>4. Types'
    <3>1. pipe' \in [Pages -> PipeType]
      BY <1>4, <1>7, <2>1, <2>2
    <3> QED
      BY <1>2, <1>7, <3>1 DEF IInv, Types, PCs
  <2>5. Woken(i, p) /\ Returns(p) /\ Leaves(i, p)
    BY <1>1, <1>2, <1>7, <2>1, <2>2, SMT DEF Woken, Returns, Leaves, Reading, Writing
  <2>6. CallInv' /\ RefsCounted' /\ LoneInv' /\ FileInv' /\ EndInv' /\ EndsMatch' /\ OpenInv'
    BY <1>2, <2>1, <2>2, <2>5, PipeCall
  <2>7. ASSUME NEW q \in Procs PROVE Waits(i, q)
    BY <1>5, <1>7, <2>1, <2>2, <2>3, SMT DEF Waits, MustWait
  <2>8. WaitInv'
    BY <1>2, <1>4, <2>1, <2>3, <2>5, <2>7, PipeWait DEF Asleep
  <2> QED
    BY <2>4, <2>6, <2>8 DEF IInv
<1>8. CASE /\ ~ MustWait(i) /\ pipe' = [pipe EXCEPT ![i].nread = (@ + k) % UINT]
           /\ pc' = WakeAnd(i, "wasleep", "write", p, "run") /\ Return
  <2>1. /\ \A q \in Procs : /\ pc'[q] = IF q = p THEN "run"
                                        ELSE IF io[q] = i /\ pc[q] = "wasleep" THEN "write" ELSE pc[q]
                            /\ io'[q] = IF q = p THEN None ELSE io[q]
        /\ \A j \in Pages : j # i => pipe'[j] = pipe[j]
        /\ pipe'[i] = [pipe[i] EXCEPT !.nread = (pipe[i].nread + k) % UINT]
    BY <1>4, <1>8 DEF IInv, Types, WakeAnd
  <2>2. k \in Nat /\ k <= Used(i)
    BY <1>4, SMT DEF k, Lesser, IInv, Types
  <2>3. /\ pipe[i].nread \in 0 .. UINT - 1 /\ pipe[i].nwrite \in 0 .. UINT - 1
    BY <1>4 DEF PipeType
  <2>4. /\ (pipe[i].nread + k) % UINT \in 0 .. UINT - 1
        /\ (pipe[i].nwrite - ((pipe[i].nread + k) % UINT) + UINT) % UINT = Used(i) - k
    BY <2>2, <2>3, TakeBytes DEF Used
  <2>5. /\ pipe'[i] \in PipeType /\ pipe'[i].lock = None
        /\ pipe'[i].readopen = pipe[i].readopen /\ pipe'[i].writeopen = pipe[i].writeopen
        /\ pipe'[i].nread = (pipe[i].nread + k) % UINT /\ pipe'[i].nwrite = pipe[i].nwrite
    BY <1>2, <1>4, <2>1, <2>4 DEF PipeType
  <2>6. Used(i)' = Used(i) - k
    BY <2>4, <2>5 DEF Used
  <2>7. Types'
    <3>1. pipe' \in [Pages -> PipeType]
      BY <1>4, <1>8, <2>1, <2>5
    <3>2. pc' \in [Procs -> PCs]
      BY <1>8 DEF IInv, Types, PCs, WakeAnd
    <3> QED
      BY <1>2, <1>8, <3>1, <3>2 DEF IInv, Types
  <2>8. Woken(i, p) /\ Returns(p) /\ Leaves(i, p)
    BY <2>1, <2>5 DEF Woken, Returns, Leaves, Asleep
  <2>9. CallInv' /\ RefsCounted' /\ LoneInv' /\ FileInv' /\ EndInv' /\ EndsMatch' /\ OpenInv'
    BY <1>2, <2>1, <2>5, <2>8, PipeCall
  <2>10. ASSUME NEW q \in Procs PROVE Waits(i, q)
    <3>1. io'[q] = i => q # p /\ io[q] = i /\ pc'[q] # "wasleep"
      BY <2>1, FilesNotNone
    <3>2. io'[q] = i => pc'[q] \notin {"rsleep", "wsleep"}
      BY <1>5, <2>1, <3>1
    <3>3. io'[q] = i /\ pc'[q] = "rasleep" => pipe[i].writeopen /\ (kills = 0 => Used(i) = 0)
      BY <1>5, <2>1, <3>1
    <3>4. Used(i) = 0 => Used(i)' = 0
      BY <2>2, <2>6, SMT
    <3> QED
      BY <2>5, <3>1, <3>2, <3>3, <3>4 DEF Waits
  <2>11. WaitInv'
    <3>1. Used(i)' <= PIPESIZE
      BY <1>4, <2>2, <2>6, FilesAssumption, SMT
    <3> QED
      BY <1>2, <2>1, <2>8, <2>10, <3>1, PipeWait DEF Asleep
  <2> QED
    BY <2>7, <2>9, <2>11 DEF IInv
<1> QED
  BY <1>3, <1>6, <1>7, <1>8

\* What pipewrite leaves of a pipe it stored s in.
LEMMA StoredIs ==
  ASSUME Types, NEW i \in Pages, NEW s \in Seq(Nat), Used(i) + Len(s) <= PIPESIZE
  PROVE  /\ Stored(i, s) \in PipeType
         /\ Stored(i, s).readopen = pipe[i].readopen /\ Stored(i, s).writeopen = pipe[i].writeopen
         /\ Stored(i, s).lock = pipe[i].lock /\ Stored(i, s).nread = pipe[i].nread
         /\ (Stored(i, s).nwrite - pipe[i].nread + UINT) % UINT = Used(i) + Len(s)
<1> DEFINE d == [k \in 0 .. PIPESIZE - 1 |->
                   IF \E j \in 1 .. Len(s) : (pipe[i].nwrite + j - 1) % PIPESIZE = k
                   THEN s[CHOOSE j \in 1 .. Len(s) : (pipe[i].nwrite + j - 1) % PIPESIZE = k]
                   ELSE pipe[i].data[k]]
           m == (pipe[i].nwrite + Len(s)) % UINT
<1>1. /\ pipe[i] \in PipeType /\ pipe[i].nread \in 0 .. UINT - 1 /\ pipe[i].nwrite \in 0 .. UINT - 1
      /\ pipe[i].data \in [0 .. PIPESIZE - 1 -> Nat] /\ Len(s) \in Nat
  BY SMT DEF Types, PipeType
<1>2. Stored(i, s) = [pipe[i] EXCEPT !.nwrite = m, !.data = d]
  BY DEF Stored
<1>3. m \in 0 .. UINT - 1 /\ (m - pipe[i].nread + UINT) % UINT = Used(i) + Len(s)
  BY <1>1, AddBytes DEF Used
<1>4. d \in [0 .. PIPESIZE - 1 -> Nat]
  <2>1. ASSUME NEW k \in 0 .. PIPESIZE - 1 PROVE d[k] \in Nat
    <3>1. CASE \E j \in 1 .. Len(s) : (pipe[i].nwrite + j - 1) % PIPESIZE = k
      <4> DEFINE c == CHOOSE j \in 1 .. Len(s) : (pipe[i].nwrite + j - 1) % PIPESIZE = k
      <4>1. c \in 1 .. Len(s)
        BY <3>1
      <4>2. d[k] = s[c]
        BY <3>1
      <4> HIDE DEF c, d
      <4> QED
        BY <4>1, <4>2, SMT
    <3>2. CASE ~ \E j \in 1 .. Len(s) : (pipe[i].nwrite + j - 1) % PIPESIZE = k
      <4>1. d[k] = pipe[i].data[k]
        BY <3>2
      <4> QED
        BY <1>1, <4>1
    <3> QED
      BY <3>1, <3>2
  <2>2. d = [k \in 0 .. PIPESIZE - 1 |-> d[k]]
    OBVIOUS
  <2> HIDE DEF d
  <2> QED
    BY <2>1, <2>2
<1> HIDE DEF m, d
<1> QED
  BY <1>1, <1>2, <1>3, <1>4 DEF PipeType

\* The bytes that pipewrite stores, the first of the caller's, and the rest.
LEMMA Split ==
  ASSUME NEW t \in Seq(Nat), NEW k \in 0 .. Len(t)
  PROVE  /\ SubSeq(t, 1, k) \in Seq(Nat) /\ Len(SubSeq(t, 1, k)) = k
         /\ SubSeq(t, k + 1, Len(t)) \in Seq(Nat)
         /\ SubSeq(t, k + 1, Len(t)) # <<>> => k < Len(t)
<1>1. Len(t) \in Nat /\ \A j \in 1 .. Len(t) : t[j] \in Nat
  BY SMT
<1>2. SubSeq(t, 1, k) \in Seq(Nat) /\ Len(SubSeq(t, 1, k)) = k
  BY <1>1, SMT
<1>3. SubSeq(t, k + 1, Len(t)) \in Seq(Nat)
  BY <1>1, SMT
<1>4. k = Len(t) => Len(SubSeq(t, k + 1, Len(t))) = 0
  BY <1>1, SMT
<1>5. k = Len(t) => SubSeq(t, k + 1, Len(t)) = <<>>
  BY <1>3, <1>4, SMT
<1> QED
  BY <1>1, <1>2, <1>3, <1>5, SMT

\* A pipe that no file reads from has no reader.
LEMMA NoReader ==
  ASSUME IInv, NEW q \in Procs, NEW i \in Pages, io[q] = i, pc[q] \in Reading
  PROVE  pipe[i].readopen
<1>1. PICK fd \in Fds : /\ ofile[q][fd] # None /\ file[ofile[q][fd]].pipe = i
                        /\ ~ file[ofile[q][fd]].writable
  BY DEF IInv, OpenInv, Reading, Writing
<1>2. ofile[q][fd] \in Files /\ file[ofile[q][fd]].writable \in BOOLEAN
  BY <1>1, Held DEF IInv, Types, FileType
<1>3. file[ofile[q][fd]].writable = FALSE
  BY <1>1, <1>2
<1>4. HasEnd(i, FALSE)
  BY <1>1, <1>2, <1>3 DEF HasEnd
<1> QED
  BY <1>4 DEF IInv, EndsMatch

\* pipewrite, each of its ways out.
LEMMA pipewriteInv ==
  ASSUME IInv, NEW p \in Procs, pipewrite(p)
  PROVE  IInv'
<1>1. PICK i \in Pages : i = io[p]
  <2>1. pc[p] = "write"
    BY DEF pipewrite, At
  <2> QED
    BY <2>1, Held DEF Reading, Writing
<1> DEFINE k == Lesser(Room(i), Len(todo[p]))
           rest == SubSeq(todo[p], k + 1, Len(todo[p]))
           new == Stored(i, SubSeq(todo[p], 1, k))
           giveup == ~ pipe[i].readopen \/ killed[p]
           Return == io' = [io EXCEPT ![p] = None] /\ todo' = [todo EXCEPT ![p] = <<>>]
<1>2. /\ pc[p] = "write" /\ closing[p] = NoEnd /\ pipe[i].lock = None
      /\ UNCHANGED <<file, ofile, f0, f1, closing, n, killed, kills>>
  BY <1>1 DEF pipewrite, At
<1>3. \/ /\ rest = <<>> /\ pipe' = [pipe EXCEPT ![i] = new]
         /\ pc' = WakeAnd(i, "rasleep", "read", p, "run") /\ Return
      \/ /\ rest # <<>> /\ giveup /\ pipe' = [pipe EXCEPT ![i] = new]
         /\ pc' = [pc EXCEPT ![p] = "run"] /\ Return
      \/ /\ rest # <<>> /\ ~ giveup /\ pipe' = [pipe EXCEPT ![i] = [new EXCEPT !.lock = p]]
         /\ pc' = WakeAnd(i, "rasleep", "read", p, "wsleep")
         /\ todo' = [todo EXCEPT ![p] = rest] /\ io' = io
  BY <1>1 DEF pipewrite, Goto
<1>4. /\ pipe[i] \in PipeType /\ Used(i) \in Nat /\ Used(i) <= PIPESIZE
      /\ pipe \in [Pages -> PipeType] /\ todo[p] \in Seq(Nat) /\ PIPESIZE \in Nat
  BY UsedNat, FilesAssumption DEF IInv, Types, WaitInv
<1>5. \A q \in Procs : io[q] = i => /\ pc[q] = "rasleep" => /\ pipe[i].writeopen
                                                            /\ kills = 0 => Used(i) = 0
                                    /\ pc[q] = "wasleep" => pipe[i].readopen /\ Room(i) = 0
                                    /\ pc[q] \notin {"rsleep", "wsleep"}
  BY <1>2, FilesNotNone, SMT DEF IInv, WaitInv
<1>6. k \in 0 .. Len(todo[p]) /\ k <= Room(i) /\ (k < Len(todo[p]) => k = Room(i))
  BY <1>4, SMT DEF Lesser, Room
<1> HIDE DEF k
<1>7. /\ SubSeq(todo[p], 1, k) \in Seq(Nat) /\ Len(SubSeq(todo[p], 1, k)) = k
      /\ rest \in Seq(Nat) /\ (rest # <<>> => k < Len(todo[p]))
  BY <1>4, <1>6, Split
<1>8. /\ new \in PipeType /\ new.lock = None /\ new.nread = pipe[i].nread
      /\ new.readopen = pipe[i].readopen /\ new.writeopen = pipe[i].writeopen
      /\ (new.nwrite - pipe[i].nread + UINT) % UINT = Used(i) + k
  <2>1. Used(i) + k <= PIPESIZE
    BY <1>4, <1>6, SMT DEF Room
  <2> QED
    BY <1>2, <1>7, <2>1, StoredIs DEF IInv
<1> HIDE DEF new, rest
<1>9. /\ pipe'[i] = new \/ pipe'[i] = [new EXCEPT !.lock = p]
      /\ \A j \in Pages : j # i => pipe'[j] = pipe[j]
  BY <1>3, <1>4
<1>10. /\ pipe'[i] \in PipeType /\ pipe'[i].nread = pipe[i].nread /\ pipe'[i].nwrite = new.nwrite
       /\ pipe'[i].readopen = pipe[i].readopen /\ pipe'[i].writeopen = pipe[i].writeopen
  BY <1>8, <1>9 DEF PipeType
<1>11. /\ Used(i)' = Used(i) + k /\ Used(i)' <= PIPESIZE /\ (rest # <<>> => Room(i)' = 0)
       /\ Room(i) = 0 => Room(i)' = 0
  <2>1. Used(i)' = Used(i) + k
    BY <1>8, <1>10 DEF Used
  <2> QED
    BY <1>4, <1>6, <1>7, <2>1, SMT DEF Room
<1>12. pipe' \in [Pages -> PipeType]
  BY <1>3, <1>4, <1>9, <1>10
<1>13. CASE /\ rest = <<>> /\ pipe' = [pipe EXCEPT ![i] = new]
            /\ pc' = WakeAnd(i, "rasleep", "read", p, "run") /\ Return
  <2>1. /\ \A q \in Procs : /\ pc'[q] = IF q = p THEN "run"
                                        ELSE IF io[q] = i /\ pc[q] = "rasleep" THEN "read" ELSE pc[q]
                            /\ io'[q] = IF q = p THEN None ELSE io[q]
        /\ pipe'[i].lock = None
    BY <1>4, <1>8, <1>13 DEF IInv, Types, WakeAnd
  <2>2. Types'
    <3>1. pc' \in [Procs -> PCs]
      BY <1>13 DEF IInv, Types, PCs, WakeAnd
    <3>2. io' \in [Procs -> Pages \cup {None}] /\ todo' \in [Procs -> Seq(Nat)]
      BY <1>13, SMT DEF IInv, Types
    <3> QED
      BY <1>2, <1>12, <3>1, <3>2 DEF IInv, Types
  <2>3. Woken(i, p) /\ Returns(p) /\ Leaves(i, p)
    BY <2>1 DEF Woken, Returns, Leaves, Asleep
  <2>4. CallInv' /\ RefsCounted' /\ LoneInv' /\ FileInv' /\ EndInv' /\ EndsMatch' /\ OpenInv'
    BY <1>2, <1>9, <1>10, <2>3, PipeCall
  <2>5. ASSUME NEW q \in Procs PROVE Waits(i, q)
    <3>1. io'[q] = i => q # p /\ io[q] = i /\ pc'[q] # "rasleep"
      BY <2>1, FilesNotNone
    <3>2. io'[q] = i => pc'[q] \notin {"rsleep", "wsleep"}
      BY <1>5, <2>1, <3>1
    <3>3. io'[q] = i /\ pc'[q] = "wasleep" => pipe[i].readopen /\ Room(i) = 0
      BY <1>5, <2>1, <3>1
    <3> QED
      BY <1>10, <1>11, <3>1, <3>2, <3>3 DEF Waits
  <2>6. WaitInv'
    BY <1>2, <1>9, <1>11, <2>3, <2>5, PipeWait DEF Asleep
  <2> QED
    BY <2>2, <2>4, <2>6 DEF IInv
<1>14. CASE /\ rest # <<>> /\ giveup /\ pipe' = [pipe EXCEPT ![i] = new]
            /\ pc' = [pc EXCEPT ![p] = "run"] /\ Return
  <2>1. /\ \A q \in Procs : /\ pc'[q] = IF q = p THEN "run" ELSE pc[q]
                            /\ io'[q] = IF q = p THEN None ELSE io[q]
        /\ pipe'[i].lock = None
    BY <1>4, <1>8, <1>14 DEF IInv, Types
  <2>2. Types'
    <3>1. /\ pc' \in [Procs -> PCs] /\ io' \in [Procs -> Pages \cup {None}]
          /\ todo' \in [Procs -> Seq(Nat)]
      BY <1>14, SMT DEF IInv, Types, PCs
    <3> QED
      BY <1>2, <1>12, <3>1 DEF IInv, Types
  <2>3. Woken(i, p) /\ Returns(p) /\ Leaves(i, p)
    BY <2>1 DEF Woken, Returns, Leaves, Asleep
  <2>4. CallInv' /\ RefsCounted' /\ LoneInv' /\ FileInv' /\ EndInv' /\ EndsMatch' /\ OpenInv'
    BY <1>2, <1>9, <1>10, <2>3, PipeCall
  <2>5. ASSUME NEW q \in Procs PROVE Waits(i, q)
    <3>1. io'[q] = i => q # p /\ io[q] = i /\ pc'[q] = pc[q]
      BY <2>1, FilesNotNone
    <3>2. io'[q] = i => pc'[q] \notin {"rsleep", "wsleep"}
      BY <1>5, <3>1
    <3>3. io'[q] = i /\ pc'[q] = "wasleep" => pipe[i].readopen /\ Room(i) = 0
      BY <1>5, <3>1
    <3>4. io'[q] = i /\ pc'[q] = "rasleep" => pipe[i].writeopen /\ kills # 0
      <4>1. io'[q] = i /\ pc'[q] = "rasleep" => pipe[i].writeopen
        BY <1>5, <3>1
      <4>2. io'[q] = i /\ pc'[q] = "rasleep" => pipe[i].readopen
        BY <3>1, NoReader DEF Reading
      <4>3. killed[p] => kills # 0
        BY DEF IInv, WaitInv
      <4> QED
        BY <1>14, <4>1, <4>2, <4>3
    <3> QED
      BY <1>10, <1>11, <3>1, <3>2, <3>3, <3>4 DEF Waits
  <2>6. WaitInv'
    BY <1>2, <1>9, <1>11, <2>3, <2>5, PipeWait DEF Asleep
  <2> QED
    BY <2>2, <2>4, <2>6 DEF IInv
<1>15. CASE /\ rest # <<>> /\ ~ giveup /\ pipe' = [pipe EXCEPT ![i] = [new EXCEPT !.lock = p]]
            /\ pc' = WakeAnd(i, "rasleep", "read", p, "wsleep")
            /\ todo' = [todo EXCEPT ![p] = rest] /\ io' = io
  <2>1. /\ \A q \in Procs : pc'[q] = IF q = p THEN "wsleep"
                                     ELSE IF io[q] = i /\ pc[q] = "rasleep" THEN "read" ELSE pc[q]
        /\ pipe'[i] = [new EXCEPT !.lock = p]
    BY <1>4, <1>15 DEF WakeAnd
  <2>2. pipe'[i].lock = p
    BY <1>8, <2>1 DEF PipeType
  <2>3. Types'
    <3>1. pc' \in [Procs -> PCs]
      BY <1>15 DEF IInv, Types, PCs, WakeAnd
    <3>2. todo' \in [Procs -> Seq(Nat)]
      BY <1>7, <1>15 DEF IInv, Types
    <3> QED
      BY <1>2, <1>12, <1>15, <3>1, <3>2 DEF IInv, Types
  <2>4. Woken(i, p) /\ Returns(p) /\ Leaves(i, p)
    BY <1>1, <1>2, <1>15, <2>1, <2>2 DEF Woken, Returns, Leaves, Reading, Writing
  <2>5. CallInv' /\ RefsCounted' /\ LoneInv' /\ FileInv' /\ EndInv' /\ EndsMatch' /\ OpenInv'
    BY <1>2, <1>9, <1>10, <2>4, PipeCall
  <2>6. ASSUME NEW q \in Procs PROVE Waits(i, q)
    <3>1. io'[q] = i => io[q] = i /\ pc'[q] \notin {"rsleep", "rasleep"}
      BY <1>5, <1>15, <2>1
    <3>2. pipe'[i].readopen /\ Room(i)' = 0
      BY <1>10, <1>11, <1>15
    <3> QED
      BY <3>1, <3>2 DEF Waits
  <2>7. WaitInv'
    BY <1>2, <1>9, <1>11, <2>4, <2>6, PipeWait DEF Asleep
  <2> QED
    BY <2>3, <2>5, <2>7 DEF IInv
<1> QED
  BY <1>3, <1>13, <1>14, <1>15

\* A step that changes nothing.
LEMMA StutterInv ==
  ASSUME IInv, UNCHANGED vars
  PROVE  IInv'
<1>1. UNCHANGED <<file, pipe, ofile, pc, f0, f1, closing, io, todo, n, killed, kills>>
  BY DEF vars, call
<1>2. Types' /\ CallInv'
  BY <1>1 DEF IInv, Types, CallInv
<1>3. RefsCounted' /\ LoneInv' /\ FileInv' /\ EndInv' /\ EndsMatch'
  BY <1>1, Quiet
<1>4. OpenInv'
  BY <1>1, SMT DEF IInv, OpenInv
<1>5. WaitInv'
  BY <1>1, WaitFrame DEF IInv
<1> QED
  BY <1>2, <1>3, <1>4, <1>5 DEF IInv

\* Quotient and remainder.
LEMMA DivMod ==
  ASSUME NEW a \in Int, NEW P \in Nat \ {0}
  PROVE  a = P * (a \div P) + (a % P) /\ a % P \in 0 .. P - 1 /\ a \div P \in Int
  BY SMT

\* The remainder is unique.
LEMMA Unique ==
  ASSUME NEW P \in Nat \ {0}, NEW q \in Int, NEW r \in 0 .. P - 1,
         NEW u \in Int, NEW v \in 0 .. P - 1,
         P * q + r = P * u + v
  PROVE  r = v
<1>1. P * (q - u) = v - r
  BY SMT
<1>2. q - u >= 1 => P * (q - u) >= P
  BY SMT
<1>3. q - u <= -1 => P * (q - u) <= - P
  BY SMT
<1> QED
  BY <1>1, <1>2, <1>3, SMT

\* A counter that wraps at a multiple of P keeps its remainder by P.
LEMMA Shift ==
  ASSUME NEW a \in Int, NEW U \in Int, NEW P \in Nat \ {0}, U % P = 0
  PROVE  (a - U) % P = a % P
<1> DEFINE b == a - U
           q == (a \div P) - (U \div P)
           u == b \div P
<1>1. a = P * (a \div P) + (a % P) /\ a % P \in 0 .. P - 1 /\ a \div P \in Int
  BY DivMod
<1>2. U = P * (U \div P) /\ U \div P \in Int
  BY DivMod, SMT
<1>3. b \in Int /\ b = a - U
  BY SMT
<1> HIDE DEF b
<1>4. b = P * u + (b % P) /\ b % P \in 0 .. P - 1 /\ u \in Int
  BY <1>3, DivMod
<1>5. b = P * q + (a % P) /\ q \in Int
  BY <1>1, <1>2, <1>3, SMT
<1> HIDE DEF q, u
<1>6. b % P = a % P
  BY <1>1, <1>4, <1>5, Unique
<1> QED
  BY <1>3, <1>6

\* Numbers less than P apart have different remainders by P.
LEMMA Distinct ==
  ASSUME NEW a \in Int, NEW b \in Int, NEW P \in Nat \ {0}, a < b, b - a < P
  PROVE  a % P # b % P
<1>1. /\ a = P * (a \div P) + (a % P) /\ a % P \in 0 .. P - 1 /\ a \div P \in Int
      /\ b = P * (b \div P) + (b % P) /\ b % P \in 0 .. P - 1 /\ b \div P \in Int
  BY DivMod
<1> DEFINE d == (b \div P) - (a \div P)
<1>2. SUFFICES ASSUME a % P = b % P PROVE FALSE
  OBVIOUS
<1>3. P * d = b - a /\ d \in Int
  BY <1>1, <1>2, SMT
<1> HIDE DEF d
<1>4. d >= 1 => P * d >= P
  BY <1>3, SMT
<1>5. d <= 0 => P * d <= 0
  BY <1>3, SMT
<1> QED
  BY <1>3, <1>4, <1>5, SMT
----------------------------------------------------------------------------
(***************************************************************************)
(* The bytes in a pipe, as a sequence: of a record x of struct pipe.       *)
(***************************************************************************)
Cell(r, m) == (r + m - 1) % PIPESIZE
Load(x) == (x.nwrite - x.nread + UINT) % UINT
Bytes(x) == [m \in 1 .. Load(x) |-> x.data[Cell(x.nread, m)]]

\* The index of a byte is in the array data.
LEMMA CellIn ==
  ASSUME NEW r \in Int, NEW m \in Int
  PROVE  Cell(r, m) \in 0 .. PIPESIZE - 1
BY FilesAssumption, SMT DEF Cell

\* Two positions less than PIPESIZE apart are in different cells.
LEMMA CellsDiffer ==
  ASSUME NEW r \in Int, NEW m \in Int, NEW k \in Int, m < k, k - m < PIPESIZE
  PROVE  Cell(r, m) # Cell(r, k)
<1>1. /\ r + m - 1 \in Int /\ r + k - 1 \in Int /\ r + m - 1 < r + k - 1
      /\ (r + k - 1) - (r + m - 1) < PIPESIZE
  BY FilesAssumption, SMT
<1>2. PIPESIZE \in Nat \ {0}
  BY FilesAssumption
<1> QED
  BY <1>1, <1>2, Distinct DEF Cell

\* The cells wrap with the counters, as PIPESIZE divides UINT.
LEMMA CellWraps ==
  ASSUME NEW r \in Int, NEW m \in Int
  PROVE  Cell(r - UINT, m) = Cell(r, m)
<1>1. PIPESIZE \in Nat \ {0} /\ UINT \in Int /\ UINT % PIPESIZE = 0
  BY FilesAssumption, SMT
<1>2. r + m - 1 \in Int /\ (r - UINT) + m - 1 = (r + m - 1) - UINT
  BY <1>1, SMT
<1>3. ((r + m - 1) - UINT) % PIPESIZE = (r + m - 1) % PIPESIZE
  BY <1>1, <1>2, Shift
<1> QED
  BY <1>2, <1>3 DEF Cell

\* The cell of the j-th byte after nwrite follows the unread ones.
LEMMA CellAfter ==
  ASSUME NEW r \in 0 .. UINT - 1, NEW w \in 0 .. UINT - 1, NEW j \in Int
  PROVE  Cell(w, j) = Cell(r, ((w - r + UINT) % UINT) + j)
<1> DEFINE u == (w - r + UINT) % UINT
<1>1. UINT \in Nat /\ u = IF w >= r THEN w - r ELSE w - r + UINT
  BY UsedIs, FilesAssumption
<1> HIDE DEF u
<1>2. CASE w >= r
  <2>1. w + j - 1 = r + (u + j) - 1
    BY <1>1, <1>2, SMT
  <2> QED
    BY <2>1 DEF Cell, u
<1>3. CASE ~ (w >= r)
  <2>1. Cell((w + UINT) - UINT, j) = Cell(w + UINT, j)
    BY <1>1, CellWraps, SMT
  <2>2. (w + UINT) - UINT = w /\ (w + UINT) + j - 1 = r + (u + j) - 1
    BY <1>1, <1>3, SMT
  <2> QED
    BY <2>1, <2>2 DEF Cell, u
<1> QED
  BY <1>2, <1>3

\* The cell of a byte after k of them have been read.
LEMMA CellBefore ==
  ASSUME NEW r \in 0 .. UINT - 1, NEW k \in 0 .. UINT - 1, NEW m \in Int
  PROVE  Cell((r + k) % UINT, m) = Cell(r, k + m)
<1> DEFINE v == (r + k) % UINT
<1>1. UINT \in Nat \ {0}
  BY FilesAssumption, SMT
<1>2. v = IF r + k < UINT THEN r + k ELSE (r + k) - UINT
  <2>1. r + k \in Nat /\ r + k < UINT + UINT
    BY <1>1, SMT
  <2> QED
    BY <1>1, <2>1, ModTwice
<1> HIDE DEF v
<1>3. CASE r + k < UINT
  <2>1. v + m - 1 = r + (k + m) - 1
    BY <1>2, <1>3, SMT
  <2> QED
    BY <2>1 DEF Cell, v
<1>4. CASE ~ (r + k < UINT)
  <2>1. Cell((r + k) - UINT, m) = Cell(r + k, m)
    BY <1>1, CellWraps, SMT
  <2>2. (r + k) + m - 1 = r + (k + m) - 1
    BY SMT
  <2> QED
    BY <1>2, <1>4, <2>1, <2>2 DEF Cell, v
<1> QED
  BY <1>3, <1>4

\* The bytes in a pipe are a sequence as long as nwrite - nread.
LEMMA BytesSeq ==
  ASSUME NEW x \in PipeType
  PROVE  /\ Load(x) \in Nat /\ Bytes(x) \in Seq(Nat) /\ Len(Bytes(x)) = Load(x)
         /\ \A m \in 1 .. Load(x) : Bytes(x)[m] = x.data[Cell(x.nread, m)]
<1>1. /\ x.nread \in 0 .. UINT - 1 /\ x.nwrite \in 0 .. UINT - 1
      /\ x.data \in [0 .. PIPESIZE - 1 -> Nat]
  BY DEF PipeType
<1>2. Load(x) \in Nat
  BY <1>1, UsedIs, FilesAssumption, SMT DEF Load
<1>3. ASSUME NEW m \in 1 .. Load(x) PROVE x.data[Cell(x.nread, m)] \in Nat
  <2>1. x.nread \in Int /\ m \in Int
    BY <1>1, <1>2, FilesAssumption, SMT
  <2>2. Cell(x.nread, m) \in 0 .. PIPESIZE - 1
    BY <2>1, CellIn
  <2> QED
    BY <1>1, <2>2
<1>4. Bytes(x) \in [1 .. Load(x) -> Nat]
  BY <1>3 DEF Bytes
<1>5. Bytes(x) \in Seq(Nat) /\ Len(Bytes(x)) = Load(x)
  BY <1>2, <1>4, SMT
<1> QED
  BY <1>2, <1>5 DEF Bytes

\* Different bytes in the pipe are in different cells.
LEMMA Distinguish ==
  ASSUME NEW r \in Int, NEW m \in 1 .. PIPESIZE, NEW k \in 1 .. PIPESIZE, Cell(r, m) = Cell(r, k)
  PROVE  m = k
<1>1. m \in Int /\ k \in Int /\ m - k < PIPESIZE /\ k - m < PIPESIZE
  BY FilesAssumption, SMT
<1>2. ~ (m < k) /\ ~ (k < m)
  BY <1>1, CellsDiffer
<1> QED
  BY <1>1, <1>2, SMT

\* What the loop of pipewrite leaves in the cells: the unread bytes, then s.
LEMMA StoredBytes ==
  ASSUME NEW i \in Pages, pipe[i] \in PipeType, NEW s \in Seq(Nat),
         Load(pipe[i]) + Len(s) <= PIPESIZE,
         NEW m \in 1 .. Load(pipe[i]) + Len(s)
  PROVE  Stored(i, s).data[Cell(pipe[i].nread, m)] =
           IF m <= Load(pipe[i]) THEN pipe[i].data[Cell(pipe[i].nread, m)] ELSE s[m - Load(pipe[i])]
<1> DEFINE r == pipe[i].nread
           w == pipe[i].nwrite
           u == Load(pipe[i])
           c == Cell(r, m)
           D(k) == IF \E j \in 1 .. Len(s) : Cell(w, j) = k
                   THEN s[CHOOSE j \in 1 .. Len(s) : Cell(w, j) = k] ELSE pipe[i].data[k]
           d == [k \in 0 .. PIPESIZE - 1 |-> D(k)]
<1>1. /\ r \in 0 .. UINT - 1 /\ w \in 0 .. UINT - 1 /\ Len(s) \in Nat /\ UINT \in Nat /\ PIPESIZE \in Nat
      /\ u \in Nat
  BY BytesSeq, FilesAssumption, SMT DEF PipeType
<1>2. c \in 0 .. PIPESIZE - 1
  <2>1. r \in Int /\ m \in Int
    BY <1>1, SMT
  <2> QED
    BY <2>1, CellIn
<1>3. Stored(i, s).data[c] = D(c)
  <2>1. Stored(i, s) = [pipe[i] EXCEPT !.nwrite = (pipe[i].nwrite + Len(s)) % UINT, !.data = d]
    BY DEF Stored, Cell
  <2> HIDE DEF d
  <2>2. Stored(i, s).data = d
    BY <2>1 DEF PipeType
  <2>3. d[c] = D(c)
    BY <1>2 DEF d
  <2> QED
    BY <2>2, <2>3
<1>4. ASSUME NEW j \in 1 .. Len(s) PROVE Cell(w, j) = Cell(r, u + j)
  <2>1. j \in Int /\ u = (w - r + UINT) % UINT
    BY <1>1, SMT DEF Load
  <2> HIDE DEF r, w, u
  <2>2. Cell(w, j) = Cell(r, ((w - r + UINT) % UINT) + j)
    BY <1>1, <2>1, CellAfter
  <2> QED
    BY <2>1, <2>2
<1> HIDE DEF r, w, u
<1>5. \A j \in 1 .. Len(s) : u + j \in 1 .. PIPESIZE
  BY <1>1, SMT DEF u
<1>6. m \in 1 .. PIPESIZE /\ r \in Int
  BY <1>1, SMT DEF u
<1>7. \A j \in 1 .. Len(s) : Cell(w, j) = c <=> u + j = m
  BY <1>4, <1>5, <1>6, Distinguish
<1>8. CASE m <= u
  <2>1. \A j \in 1 .. Len(s) : Cell(w, j) # c
    BY <1>1, <1>7, <1>8, SMT
  <2>2. D(c) = pipe[i].data[c]
    BY <2>1
  <2> QED
    BY <1>3, <1>8, <2>2 DEF r, u
<1>9. CASE ~ (m <= u)
  <2>1. m - u \in 1 .. Len(s) /\ u + (m - u) = m
    BY <1>1, <1>9, SMT DEF u
  <2>2. \A j \in 1 .. Len(s) : Cell(w, j) = c <=> j = m - u
    BY <1>1, <1>7, <2>1, SMT
  <2>3. (CHOOSE j \in 1 .. Len(s) : Cell(w, j) = c) = m - u
    BY <2>1, <2>2
  <2>4. \E j \in 1 .. Len(s) : Cell(w, j) = c
    BY <2>1, <2>2
  <2>5. D(c) = s[m - u]
    BY <2>3, <2>4
  <2> QED
    BY <1>3, <1>9, <2>5 DEF r, u
<1> QED
  BY <1>8, <1>9

\* Storing s appends s to the bytes in the pipe.
LEMMA StoredAppends ==
  ASSUME NEW i \in Pages, pipe[i] \in PipeType, NEW s \in Seq(Nat),
         Load(pipe[i]) + Len(s) <= PIPESIZE,
         NEW x \in PipeType, x.nread = pipe[i].nread, x.data = Stored(i, s).data,
         Load(x) = Load(pipe[i]) + Len(s)
  PROVE  Bytes(x) = Bytes(pipe[i]) \o s
<1> DEFINE y == pipe[i]
           t == Bytes(y) \o s
<1>1. /\ Load(x) \in Nat /\ Bytes(x) \in Seq(Nat) /\ Len(Bytes(x)) = Load(x)
      /\ \A m \in 1 .. Load(x) : Bytes(x)[m] = x.data[Cell(x.nread, m)]
  BY BytesSeq
<1>2. /\ Load(y) \in Nat /\ Bytes(y) \in Seq(Nat) /\ Len(Bytes(y)) = Load(y)
      /\ \A m \in 1 .. Load(y) : Bytes(y)[m] = y.data[Cell(y.nread, m)]
  BY BytesSeq
<1>3. /\ t \in Seq(Nat) /\ Len(t) = Load(y) + Len(s)
      /\ \A m \in 1 .. Load(y) + Len(s) : t[m] = IF m <= Load(y) THEN Bytes(y)[m] ELSE s[m - Load(y)]
  <2> DEFINE b == Bytes(y)
  <2>1. b \in Seq(Nat) /\ Len(b) = Load(y) /\ t = b \o s
    BY <1>2
  <2> HIDE DEF b
  <2>2. /\ b \o s \in Seq(Nat) /\ Len(b \o s) = Len(b) + Len(s)
        /\ \A m \in 1 .. Len(b) + Len(s) : (b \o s)[m] = IF m <= Len(b) THEN b[m] ELSE s[m - Len(b)]
    BY <2>1, SMTT(30)
  <2> HIDE DEF t
  <2> QED
    BY <2>1, <2>2 DEF b
<1> HIDE DEF t
<1>4. ASSUME NEW m \in 1 .. Load(x) PROVE Bytes(x)[m] = t[m]
  <2>1. x.data[Cell(x.nread, m)] =
          IF m <= Load(y) THEN y.data[Cell(y.nread, m)] ELSE s[m - Load(y)]
    BY StoredBytes
  <2>2. m <= Load(y) => m \in 1 .. Load(y)
    BY <1>1, <1>2, SMT
  <2> QED
    BY <1>1, <1>2, <1>3, <2>1, <2>2
<1>5. Bytes(x) = t
  BY <1>1, <1>3, <1>4, SMT
<1> QED
  BY <1>5 DEF t

\* Adding k to nread drops the first k of the bytes in the pipe.
LEMMA TakenBytes ==
  ASSUME NEW y \in PipeType, NEW k \in 0 .. Load(y), NEW x \in PipeType,
         x.nread = (y.nread + k) % UINT, x.data = y.data, Load(x) = Load(y) - k
  PROVE  Bytes(x) = SubSeq(Bytes(y), k + 1, Load(y))
<1> DEFINE t == SubSeq(Bytes(y), k + 1, Load(y))
<1>1. /\ Load(x) \in Nat /\ Bytes(x) \in Seq(Nat) /\ Len(Bytes(x)) = Load(x)
      /\ \A m \in 1 .. Load(x) : Bytes(x)[m] = x.data[Cell(x.nread, m)]
  BY BytesSeq
<1>2. /\ Load(y) \in Nat /\ Bytes(y) \in Seq(Nat) /\ Len(Bytes(y)) = Load(y)
      /\ \A m \in 1 .. Load(y) : Bytes(y)[m] = y.data[Cell(y.nread, m)]
  BY BytesSeq
<1>3. /\ t \in Seq(Nat) /\ Len(t) = Load(y) - k
      /\ \A m \in 1 .. Load(y) - k : t[m] = Bytes(y)[k + m]
  <2>1. k + 1 \in Int /\ Load(y) \in Int /\ \A m \in k + 1 .. Load(y) : Bytes(y)[m] \in Nat
    BY <1>2, SMT
  <2>2. /\ t \in Seq(Nat)
        /\ Len(t) = IF k + 1 <= Load(y) THEN Load(y) - (k + 1) + 1 ELSE 0
        /\ \A m \in 1 .. Load(y) - (k + 1) + 1 : t[m] = Bytes(y)[(k + 1) + m - 1]
    BY <1>2, <2>1, SMT
  <2> HIDE DEF t
  <2>3. Load(y) - (k + 1) + 1 = Load(y) - k /\ \A m \in Int : (k + 1) + m - 1 = k + m
    BY <1>2, SMT
  <2> QED
    BY <1>2, <2>2, <2>3, SMT
<1> HIDE DEF t
<1>4. ASSUME NEW m \in 1 .. Load(x) PROVE Bytes(x)[m] = t[m]
  <2>1. k + m \in 1 .. Load(y) /\ m \in Int /\ m \in 1 .. Load(y) - k
    BY <1>1, <1>2, SMT
  <2>2. y.nread \in 0 .. UINT - 1 /\ k \in 0 .. UINT - 1
    <3>1. y.nread \in 0 .. UINT - 1 /\ y.nwrite \in 0 .. UINT - 1
      BY DEF PipeType
    <3>2. Load(y) < UINT
      BY <3>1, UsedIs, FilesAssumption, SMT DEF Load
    <3> QED
      BY <1>2, <3>1, <3>2, FilesAssumption, SMT
  <2>3. Cell(x.nread, m) = Cell(y.nread, k + m)
    BY <2>1, <2>2, CellBefore
  <2>4. Bytes(x)[m] = y.data[Cell(y.nread, k + m)]
    BY <1>1, <2>3
  <2> QED
    BY <1>2, <1>3, <2>1, <2>4
<1>5. Bytes(x) = t
  BY <1>1, <1>3, <1>4, SMT
<1> QED
  BY <1>5 DEF t

\* The unread bytes of pipe i are those of its record.
LEMMA UnreadIs ==
  ASSUME NEW i \in Pages
  PROVE  /\ Unread(i) = Bytes(pipe[i]) /\ Unread(i)' = Bytes(pipe'[i])
         /\ Used(i) = Load(pipe[i]) /\ Used(i)' = Load(pipe'[i])
BY DEF Unread, Used, Bytes, Load, Cell

\* pipewrite appends a prefix of what the caller has left to write.
LEMMA WriteAppends ==
  ASSUME IInv, NEW p \in Procs, NEW i \in Pages, io[p] = i, pipewrite(p)
  PROVE  \E k \in 0 .. Len(todo[p]) : Unread(i)' = Unread(i) \o SubSeq(todo[p], 1, k)
<1> DEFINE k == Lesser(Room(i), Len(todo[p]))
           s == SubSeq(todo[p], 1, k)
           new == Stored(i, s)
           y == pipe[i]
           x == pipe'[i]
<1>1. /\ y \in PipeType /\ Used(i) \in Nat /\ Used(i) <= PIPESIZE /\ pipe \in [Pages -> PipeType]
      /\ todo[p] \in Seq(Nat) /\ PIPESIZE \in Nat
  BY UsedNat, FilesAssumption DEF IInv, Types, WaitInv
<1>2. pipe' = [pipe EXCEPT ![i] = new] \/ pipe' = [pipe EXCEPT ![i] = [new EXCEPT !.lock = p]]
  BY DEF pipewrite
<1>3. k \in 0 .. Len(todo[p]) /\ Used(i) + k <= PIPESIZE
  BY <1>1, SMT DEF Lesser, Room
<1> HIDE DEF k
<1>4. s \in Seq(Nat) /\ Len(s) = k
  BY <1>1, <1>3, Split
<1> HIDE DEF s
<1>5. /\ new \in PipeType /\ new.nread = y.nread
      /\ (new.nwrite - y.nread + UINT) % UINT = Used(i) + Len(s)
  BY <1>3, <1>4, StoredIs DEF IInv
<1> HIDE DEF new
<1>6. x = new \/ x = [new EXCEPT !.lock = p]
  BY <1>1, <1>2
<1>7. x \in PipeType /\ x.nread = y.nread /\ x.nwrite = new.nwrite /\ x.data = new.data
  BY <1>5, <1>6 DEF PipeType
<1>8. Load(x) = Load(y) + Len(s) /\ Load(y) + Len(s) <= PIPESIZE
  <2>1. Load(x) = Used(i) + Len(s)
    BY <1>5, <1>7 DEF Load
  <2> QED
    BY <1>3, <1>4, <2>1, UnreadIs
<1>9. Bytes(x) = Bytes(y) \o s
  BY <1>1, <1>4, <1>7, <1>8, StoredAppends DEF new
<1>10. Unread(i)' = Unread(i) \o SubSeq(todo[p], 1, k)
  BY <1>9, UnreadIs DEF s
<1> QED
  BY <1>3, <1>10

\* piperead takes a prefix of the bytes, as many as it was asked for at most.
LEMMA ReadTakes ==
  ASSUME IInv, NEW p \in Procs, NEW i \in Pages, io[p] = i, piperead(p)
  PROVE  \E k \in 0 .. n[p] : Unread(i)' = SubSeq(Unread(i), k + 1, Used(i))
<1> DEFINE y == pipe[i]
           x == pipe'[i]
<1>1. /\ y \in PipeType /\ pipe \in [Pages -> PipeType] /\ n[p] \in Nat /\ Load(y) \in Nat
      /\ Used(i) = Load(y)
  BY UsedNat, UnreadIs DEF IInv, Types
<1>2. ASSUME NEW k \in 0 .. n[p], k <= Load(y), x \in PipeType, x.nread = (y.nread + k) % UINT,
             x.data = y.data, Load(x) = Load(y) - k
      PROVE  \E j \in 0 .. n[p] : Unread(i)' = SubSeq(Unread(i), j + 1, Used(i))
  <2>1. k \in 0 .. Load(y)
    BY <1>1, <1>2, SMT
  <2>2. Bytes(x) = SubSeq(Bytes(y), k + 1, Load(y))
    BY <1>1, <1>2, <2>1, TakenBytes
  <2> QED
    BY <1>1, <2>2, UnreadIs
<1>3. y.nread \in 0 .. UINT - 1 /\ y.nwrite \in 0 .. UINT - 1 /\ UINT \in Nat \ {0}
  BY <1>1, FilesAssumption, SMT DEF PipeType
<1>4. CASE x \in PipeType /\ x.nread = y.nread /\ x.nwrite = y.nwrite /\ x.data = y.data
  <2>1. (y.nread + 0) % UINT = y.nread
    BY <1>3, SMT
  <2>2. Load(x) = Load(y) - 0
    BY <1>1, <1>4, SMT DEF Load
  <2> QED
    BY <1>1, <1>2, <1>4, <2>1, <2>2, SMT
<1>5. CASE pipe' = pipe
  BY <1>1, <1>4, <1>5
<1>6. CASE pipe' = [pipe EXCEPT ![i].lock = p]
  <2>1. x = [y EXCEPT !.lock = p]
    BY <1>1, <1>6
  <2> QED
    BY <1>1, <1>4, <2>1 DEF PipeType
<1>7. CASE pipe' = [pipe EXCEPT ![i].nread = (@ + Lesser(n[p], Used(i))) % UINT]
  <2> DEFINE k == Lesser(n[p], Used(i))
  <2>1. k \in 0 .. n[p] /\ k <= Load(y) /\ k \in Nat
    BY <1>1, SMT DEF Lesser
  <2>2. x = [y EXCEPT !.nread = (y.nread + k) % UINT]
    BY <1>1, <1>7
  <2> HIDE DEF k
  <2>3. /\ (y.nread + k) % UINT \in 0 .. UINT - 1
        /\ (y.nwrite - ((y.nread + k) % UINT) + UINT) % UINT = Load(y) - k
    BY <1>3, <2>1, TakeBytes, SMT DEF Load
  <2>4. /\ x \in PipeType /\ x.nread = (y.nread + k) % UINT /\ x.nwrite = y.nwrite
        /\ x.data = y.data
    BY <1>1, <2>2, <2>3 DEF PipeType
  <2>5. Load(x) = Load(y) - k
    BY <2>3, <2>4 DEF Load
  <2> QED
    BY <1>2, <2>1, <2>4, <2>5
<1> QED
  BY <1>5, <1>6, <1>7 DEF piperead
=============================================================================
