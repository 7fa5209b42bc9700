------------------------------- MODULE Files -------------------------------
(***************************************************************************)
(* The file table of file.c and the pipes of pipe.c, under the calls pipe, *)
(* dup, close, read, write, fork, exit and kill of several processes.      *)
(*                                                                         *)
(* A section under ftable.lock or a pipe's lock is one step.  sleep(chan,  *)
(* &p->lock) is two: the decision under p->lock, and the sleep itself,     *)
(* which kill(), that does not take p->lock, may come in between of.       *)
(***************************************************************************)
EXTENDS Integers, Sequences, FiniteSets

CONSTANTS
  Procs,        \* the slots of the process table
  NFILE,        \* the length of ftable.file
  NOFILE,       \* the length of a process's ofile
  Pages,        \* the pages that kalloc may hand out for pipes
  PIPESIZE,     \* the bytes a pipe holds
  UINT,         \* 2^32: the range of nread and nwrite, a multiple of PIPESIZE
  Payloads,     \* what processes write
  Counts,       \* how many bytes they read
  None,         \* no file, no page, no process
  MaxKills      \* bound: calls of kill

ASSUME FilesAssumption == /\ NFILE \in Nat /\ NOFILE \in Nat /\ MaxKills \in Nat
                          /\ PIPESIZE \in Nat \ {0}
                          /\ UINT \in Nat /\ UINT > PIPESIZE /\ UINT % PIPESIZE = 0
                          /\ None \notin Procs \cup Pages \cup 1 .. NFILE
                          /\ IsFiniteSet(Procs)
                          /\ Payloads \subseteq Seq(Nat) /\ Counts \subseteq Nat

VARIABLES
  file,         \* ftable.file: ref, the pipe (None for FD_NONE), writable
  pipe,         \* struct pipe, for each page: readopen, writeopen, nread, ...
  ofile,        \* each process's descriptors
  pc,           \* where a process is; "unused" for a free slot
  f0, f1,       \* sys_pipe: rf and wf
  closing,      \* fileclose: the pipe end to close after ftable.lock is released
  io,           \* pipewrite, piperead: the pipe
  todo, n,      \* pipewrite: the bytes left; piperead: how many at most
  killed,
  kills         \* calls of kill so far

call == <<f0, f1, closing, io, todo, n>>
vars == <<file, pipe, ofile, pc, call, killed, kills>>

Files == 1 .. NFILE
Fds == 0 .. NOFILE - 1
NoEnd == [pipe |-> None, writable |-> FALSE]
NoFile == [ref |-> 0, pipe |-> None, writable |-> FALSE]

\* A page with a new pipe, or free; kfree has overwritten what it held.
Pipe(open) == [readopen |-> open, writeopen |-> open, nread |-> 0, nwrite |-> 0,
               lock |-> None, data |-> [k \in 0 .. PIPESIZE - 1 |-> 0]]

Init == \E p \in Procs :
  /\ file = [f \in Files |-> NoFile]
  /\ pipe = [i \in Pages |-> Pipe(FALSE)]
  /\ ofile = [q \in Procs |-> [fd \in Fds |-> None]]
  /\ pc = [q \in Procs |-> IF q = p THEN "run" ELSE "unused"]
  /\ f0 = [q \in Procs |-> None]
  /\ f1 = [q \in Procs |-> None]
  /\ closing = [q \in Procs |-> NoEnd]
  /\ io = [q \in Procs |-> None]
  /\ todo = [q \in Procs |-> <<>>]
  /\ n = [q \in Procs |-> 0]
  /\ killed = [q \in Procs |-> FALSE]
  /\ kills = 0

Goto(p, l) == pc' = [pc EXCEPT ![p] = l]

\* Process p is at l and in no call of fileclose.
At(p, l) == pc[p] = l /\ closing[p] = NoEnd

\* trap() lets a killed process make no call.
InUser(p) == At(p, "run") /\ ~ killed[p]

\* Free descriptors; fdalloc takes the least.
FreeFds(p) == {fd \in Fds : ofile[p][fd] = None}
Least(S) == CHOOSE x \in S : \A y \in S : x <= y

FreeFiles == {f \in Files : file[f].ref = 0}

\* A page is in use while an end of its pipe is open.
InUse(i) == pipe[i].readopen \/ pipe[i].writeopen

----------------------------------------------------------------------------
\* fileclose under ftable.lock, and what it leaves for pipeclose.
Drop(f) == [file EXCEPT ![f] = IF file[f].ref > 1 THEN [file[f] EXCEPT !.ref = @ - 1]
                               ELSE NoFile]

\* Mutant of Left: fileclose closes the pipe though the file stays open.
LeftEarly(f) == [pipe |-> file[f].pipe, writable |-> file[f].writable]

Left(f) == IF file[f].ref > 1 THEN NoEnd
           ELSE [pipe |-> file[f].pipe, writable |-> file[f].writable]

fileclose(p, f) == /\ file' = Drop(f)
                   /\ closing' = [closing EXCEPT ![p] = Left(f)]

\* Mutant of WokenByClose: pipeclose wakes nobody.
WokenNone(i, w) == pc

\* The end of pipe i that is closed: its sleepers run again.
WokenByClose(i, w) == [q \in Procs |->
  IF io[q] # i THEN pc[q]
  ELSE IF w /\ pc[q] = "rasleep" THEN "read"
  ELSE IF ~ w /\ pc[q] = "wasleep" THEN "write" ELSE pc[q]]

\* pipeclose, the page freed with the second end.
pipeclose(p) ==
  LET i == closing[p].pipe
      w == closing[p].writable
  IN  /\ i # None
      /\ pipe[i].lock = None
      /\ pipe' = [pipe EXCEPT ![i] =
                    IF (w /\ ~ pipe[i].readopen) \/ (~ w /\ ~ pipe[i].writeopen) THEN Pipe(FALSE)
                    ELSE [pipe[i] EXCEPT !.writeopen = ~ w, !.readopen = w]]
      /\ pc' = WokenByClose(i, w)
      /\ closing' = [closing EXCEPT ![p] = NoEnd]
      /\ UNCHANGED <<file, ofile, f0, f1, io, todo, n, killed, kills>>

\* sys_pipe in pipealloc: the first file, if there is one.
filealloc0(p) == /\ InUser(p)
                 /\ FreeFiles # {}
                 /\ f0' = [f0 EXCEPT ![p] = Least(FreeFiles)]
                 /\ file' = [file EXCEPT ![Least(FreeFiles)].ref = 1]
                 /\ Goto(p, "pipe1")
                 /\ UNCHANGED <<pipe, ofile, f1, closing, io, todo, n, killed, kills>>

\* The second file; without one the first is closed again.
filealloc1(p) ==
  /\ At(p, "pipe1")
  /\ IF FreeFiles # {}
     THEN /\ f1' = [f1 EXCEPT ![p] = Least(FreeFiles)]
          /\ file' = [file EXCEPT ![Least(FreeFiles)].ref = 1]
          /\ Goto(p, "pipe2")
          /\ UNCHANGED f0
     ELSE /\ file' = Drop(f0[p])
          /\ f0' = [f0 EXCEPT ![p] = None]
          /\ Goto(p, "run")
          /\ UNCHANGED f1
  /\ UNCHANGED <<pipe, ofile, closing, io, todo, n, killed, kills>>

\* kalloc fails: pipealloc closes both files.
pipe_nomem(p) == /\ At(p, "pipe2")
                 /\ file' = [file EXCEPT ![f0[p]].ref = 0, ![f1[p]].ref = 0]
                 /\ f0' = [f0 EXCEPT ![p] = None]
                 /\ f1' = [f1 EXCEPT ![p] = None]
                 /\ Goto(p, "run")
                 /\ UNCHANGED <<pipe, ofile, closing, io, todo, n, killed, kills>>

\* The pipe on page i, then the descriptors: both, or the files are closed.
pipealloc(p, i) ==
  LET fd0 == Least(FreeFds(p))
      fd1 == Least(FreeFds(p) \ {fd0})
      room == Cardinality(FreeFds(p)) >= 2
  IN  /\ At(p, "pipe2")
      /\ ~ InUse(i)
      /\ pipe' = [pipe EXCEPT ![i] = Pipe(TRUE)]
      /\ file' = [file EXCEPT ![f0[p]].pipe = i, ![f0[p]].writable = FALSE,
                              ![f1[p]].pipe = i, ![f1[p]].writable = TRUE]
      /\ ofile' = IF room THEN [ofile EXCEPT ![p][fd0] = f0[p], ![p][fd1] = f1[p]] ELSE ofile
      /\ f0' = IF room THEN [f0 EXCEPT ![p] = None] ELSE f0
      /\ f1' = IF room THEN [f1 EXCEPT ![p] = None] ELSE f1
      /\ Goto(p, IF room THEN "run" ELSE "undo0")
      /\ UNCHANGED <<closing, io, todo, n, killed, kills>>

undo0(p) == /\ At(p, "undo0")
            /\ fileclose(p, f0[p])
            /\ f0' = [f0 EXCEPT ![p] = None]
            /\ Goto(p, "undo1")
            /\ UNCHANGED <<pipe, ofile, f1, io, todo, n, killed, kills>>

undo1(p) == /\ At(p, "undo1")
            /\ fileclose(p, f1[p])
            /\ f1' = [f1 EXCEPT ![p] = None]
            /\ Goto(p, "run")
            /\ UNCHANGED <<pipe, ofile, f0, io, todo, n, killed, kills>>

----------------------------------------------------------------------------
sys_dup(p, fd) == /\ InUser(p)
                  /\ ofile[p][fd] # None /\ FreeFds(p) # {}
                  /\ ofile' = [ofile EXCEPT ![p][Least(FreeFds(p))] = ofile[p][fd]]
                  /\ file' = [file EXCEPT ![ofile[p][fd]].ref = @ + 1]
                  /\ UNCHANGED <<pipe, pc, call, killed, kills>>

\* sys_open after the inode is found: a file that is no pipe.
sys_open(p) == /\ InUser(p)
               /\ FreeFiles # {} /\ FreeFds(p) # {}
               /\ file' = [file EXCEPT ![Least(FreeFiles)].ref = 1]
               /\ ofile' = [ofile EXCEPT ![p][Least(FreeFds(p))] = Least(FreeFiles)]
               /\ UNCHANGED <<pipe, pc, call, killed, kills>>

CloseFd(p, fd) == /\ ofile[p][fd] # None
                  /\ ofile' = [ofile EXCEPT ![p][fd] = None]
                  /\ fileclose(p, ofile[p][fd])
                  /\ UNCHANGED <<pipe, f0, f1, io, todo, n, kills>>

sys_close(p, fd) == InUser(p) /\ CloseFd(p, fd) /\ UNCHANGED <<pc, killed>>

\* The descriptors of a child are its parent's, each counted.
Fds2(p, f) == Cardinality({fd \in Fds : ofile[p][fd] = f})

fork(p, c) == /\ InUser(p)
              /\ pc[c] = "unused"
              /\ Goto(c, "run")
              /\ ofile' = [ofile EXCEPT ![c] = ofile[p]]
              /\ file' = [f \in Files |-> [file[f] EXCEPT !.ref = @ + Fds2(p, f)]]
              /\ UNCHANGED <<pipe, call, killed, kills>>

\* exit closes the descriptors in turn; the slot is free after wait().
exit(p) == /\ At(p, "run")
           /\ Goto(p, "exit")
           /\ UNCHANGED <<file, pipe, ofile, call, killed, kills>>

exit_close(p) == /\ At(p, "exit")
                 /\ FreeFds(p) # Fds
                 /\ CloseFd(p, Least(Fds \ FreeFds(p)))
                 /\ UNCHANGED <<pc, killed>>

exit_done(p) == /\ At(p, "exit")
                /\ FreeFds(p) = Fds
                /\ Goto(p, "unused")
                /\ killed' = [killed EXCEPT ![p] = FALSE]
                /\ UNCHANGED <<file, pipe, ofile, call, kills>>

\* kill wakes a process that sleeps.
kill(p) == /\ pc[p] # "unused" /\ ~ killed[p]
           /\ kills < MaxKills
           /\ kills' = kills + 1
           /\ killed' = [killed EXCEPT ![p] = TRUE]
           /\ Goto(p, CASE pc[p] = "rasleep" -> "read" [] pc[p] = "wasleep" -> "write"
                        [] OTHER -> pc[p])
           /\ UNCHANGED <<file, pipe, ofile, call>>

----------------------------------------------------------------------------
Used(i) == (pipe[i].nwrite - pipe[i].nread + UINT) % UINT

Lesser(a, b) == IF a < b THEN a ELSE b

\* The processes asleep at `from' on pipe i move to `to'; p moves to l.
WakeAnd(i, from, to, p, l) == [q \in Procs |->
  IF q = p THEN l ELSE IF io[q] = i /\ pc[q] = from THEN to ELSE pc[q]]

\* write() on a pipe's write end; on any other descriptor it returns -1.
sys_write(p, fd, s) == /\ InUser(p)
                       /\ ofile[p][fd] # None
                       /\ file[ofile[p][fd]].writable
                       /\ io' = [io EXCEPT ![p] = file[ofile[p][fd]].pipe]
                       /\ todo' = [todo EXCEPT ![p] = s]
                       /\ Goto(p, "write")
                       /\ UNCHANGED <<file, pipe, ofile, f0, f1, closing, n, killed, kills>>

sys_read(p, fd, k) == /\ InUser(p)
                      /\ ofile[p][fd] # None
                      /\ file[ofile[p][fd]].pipe # None /\ ~ file[ofile[p][fd]].writable
                      /\ io' = [io EXCEPT ![p] = file[ofile[p][fd]].pipe]
                      /\ n' = [n EXCEPT ![p] = k]
                      /\ Goto(p, "read")
                      /\ UNCHANGED <<file, pipe, ofile, f0, f1, closing, todo, killed, kills>>

Room(i) == PIPESIZE - Used(i)

\* Mutant of Stored: nwrite is counted up after the loop only.
StoredFirst(i, s) == [pipe[i] EXCEPT
  !.nwrite = (@ + Len(s)) % UINT,
  !.data = [k \in 0 .. PIPESIZE - 1 |->
              IF s # <<>> /\ pipe[i].nwrite % PIPESIZE = k THEN s[Len(s)] ELSE @[k]]]

\* Pipe i after the bytes of s have been stored.
Stored(i, s) == [pipe[i] EXCEPT
  !.nwrite = (@ + Len(s)) % UINT,
  !.data = [k \in 0 .. PIPESIZE - 1 |->
              IF \E j \in 1 .. Len(s) : (pipe[i].nwrite + j - 1) % PIPESIZE = k
              THEN s[CHOOSE j \in 1 .. Len(s) : (pipe[i].nwrite + j - 1) % PIPESIZE = k]
              ELSE @[k]]]

\* pipewrite from its start or from a wakeup: store what fits; then return,
\* give up (without waking the readers), or wake them and decide to sleep.
pipewrite(p) ==
  LET i == io[p]
      k == Lesser(Room(i), Len(todo[p]))
      rest == SubSeq(todo[p], k + 1, Len(todo[p]))
      new == Stored(i, SubSeq(todo[p], 1, k))
      giveup == ~ pipe[i].readopen \/ killed[p]
      Return == io' = [io EXCEPT ![p] = None] /\ todo' = [todo EXCEPT ![p] = <<>>]
  IN  /\ At(p, "write")
      /\ pipe[i].lock = None
      /\ \/ /\ rest = <<>>
            /\ pipe' = [pipe EXCEPT ![i] = new]
            /\ pc' = WakeAnd(i, "rasleep", "read", p, "run")
            /\ Return
         \/ /\ rest # <<>> /\ giveup
            /\ pipe' = [pipe EXCEPT ![i] = new]
            /\ Goto(p, "run")
            /\ Return
         \/ /\ rest # <<>> /\ ~ giveup
            /\ pipe' = [pipe EXCEPT ![i] = [new EXCEPT !.lock = p]]
            /\ pc' = WakeAnd(i, "rasleep", "read", p, "wsleep")
            /\ todo' = [todo EXCEPT ![p] = rest]
            /\ UNCHANGED io
      /\ UNCHANGED <<file, ofile, f0, f1, closing, n, killed, kills>>

MustWait(i) == Used(i) = 0 /\ pipe[i].writeopen

\* piperead from its start or from a wakeup.
piperead(p) ==
  LET i == io[p]
      k == Lesser(n[p], Used(i))
      Return == io' = [io EXCEPT ![p] = None] /\ n' = [n EXCEPT ![p] = 0]
  IN  /\ At(p, "read")
      /\ pipe[i].lock = None
      /\ \/ /\ MustWait(i) /\ killed[p]
            /\ Goto(p, "run")
            /\ Return
            /\ UNCHANGED pipe
         \/ /\ MustWait(i) /\ ~ killed[p]
            /\ Goto(p, "rsleep")
            /\ pipe' = [pipe EXCEPT ![i].lock = p]
            /\ UNCHANGED <<io, n>>
         \/ /\ ~ MustWait(i)
            /\ pipe' = [pipe EXCEPT ![i].nread = (@ + k) % UINT]
            /\ pc' = WakeAnd(i, "wasleep", "write", p, "run")
            /\ Return
      /\ UNCHANGED <<file, ofile, f0, f1, closing, todo, killed, kills>>

\* sleep(): asleep, the lock of the pipe released.
sleep(p) == /\ pc[p] \in {"rsleep", "wsleep"}
            /\ Goto(p, IF pc[p] = "rsleep" THEN "rasleep" ELSE "wasleep")
            /\ pipe' = [pipe EXCEPT ![io[p]].lock = None]
            /\ UNCHANGED <<file, ofile, call, killed, kills>>

Step(p) == \/ pipeclose(p)
           \/ filealloc0(p)
           \/ filealloc1(p)
           \/ pipe_nomem(p)
           \/ \E i \in Pages : pipealloc(p, i)
           \/ undo0(p)
           \/ undo1(p)
           \/ sys_open(p)
           \/ \E fd \in Fds : sys_dup(p, fd) \/ sys_close(p, fd)
           \/ \E c \in Procs : fork(p, c)
           \/ exit(p)
           \/ exit_close(p)
           \/ exit_done(p)
           \/ kill(p)
           \/ \E fd \in Fds, s \in Payloads : sys_write(p, fd, s)
           \/ \E fd \in Fds, k \in Counts : sys_read(p, fd, k)
           \/ pipewrite(p)
           \/ piperead(p)
           \/ sleep(p)

Next == \E p \in Procs : Step(p)

Spec == Init /\ [][Next]_vars
----------------------------------------------------------------------------
PCs == {"unused", "run", "pipe1", "pipe2", "undo0", "undo1", "exit", "read", "rsleep",
        "rasleep", "write", "wsleep", "wasleep"}

\* Types; a pipe holds no more than its size.
TypeOK == /\ \A f \in Files : /\ file[f].ref \in Nat
                              /\ file[f].pipe \in Pages \cup {None}
                              /\ file[f].writable \in BOOLEAN
          /\ \A i \in Pages : /\ Used(i) <= PIPESIZE
                              /\ pipe[i].lock \in Procs \cup {None}
          /\ ofile \in [Procs -> [Fds -> Files \cup {None}]]
          /\ pc \in [Procs -> PCs]
          /\ io \in [Procs -> Pages \cup {None}]

\* The references to file f: descriptors, and the variables of sys_pipe.
Refs(f) == Cardinality({r \in Procs \X Fds : ofile[r[1]][r[2]] = f})
           + Cardinality({p \in Procs : f0[p] = f}) + Cardinality({p \in Procs : f1[p] = f})

(***************************************************************************)
(* Every reference is counted and every count is a reference: no call that *)
(* fails half way, no fork, no exit leaks a file or frees one in use.      *)
(***************************************************************************)
RefsCounted == \A f \in Files : file[f].ref = Refs(f)

\* An end of pipe i that is still open, or about to be closed.
HasEnd(i, w) == \/ \E f \in Files : file[f].pipe = i /\ file[f].writable = w
                \/ \E p \in Procs : closing[p] = [pipe |-> i, writable |-> w]

(***************************************************************************)
(* An end of a pipe is marked open exactly while a file refers to it.  So  *)
(* readers see the end of file when the last writer has closed, and the    *)
(* page is neither freed under a file nor kept without one.                *)
(***************************************************************************)
EndsMatch == \A i \in Pages : /\ pipe[i].writeopen <=> HasEnd(i, TRUE)
                              /\ pipe[i].readopen <=> HasEnd(i, FALSE)

(***************************************************************************)
(* No wakeup is missed: a reader sleeps on an empty pipe that has a        *)
(* writer, a writer on a full one that has a reader.  For readers only     *)
(* while nobody was killed: a killed writer that filled the pipe leaves    *)
(* pipewrite without a wakeup.                                             *)
(***************************************************************************)
SleeperHasWaker == \A p \in Procs :
  /\ pc[p] = "rasleep" /\ kills = 0 => Used(io[p]) = 0
  /\ pc[p] = "rasleep" => pipe[io[p]].writeopen
  /\ pc[p] = "wasleep" => Room(io[p]) = 0 /\ pipe[io[p]].readopen

\* The unread bytes of pipe i, oldest first.
Unread(i) == [k \in 1 .. Used(i) |-> pipe[i].data[(pipe[i].nread + k - 1) % PIPESIZE]]

(***************************************************************************)
(* A pipe is a queue of bytes, whatever nread and nwrite have overflowed   *)
(* to: a step of pipewrite adds the next bytes of the caller at the end, a *)
(* step of piperead takes the oldest.                                      *)
(***************************************************************************)
PipeIsFifo == [][\A p \in Procs, i \in Pages : io[p] = i =>
  /\ pipewrite(p) => \E k \in 0 .. Len(todo[p]) :
                       Unread(i)' = Unread(i) \o SubSeq(todo[p], 1, k)
  /\ piperead(p) => \E k \in 0 .. n[p] :
                       Unread(i)' = SubSeq(Unread(i), k + 1, Used(i))]_vars

(***************************************************************************)
(* The table of open files: every reference is counted, and the ends of a  *)
(* pipe are open exactly while a file refers to them.                      *)
(***************************************************************************)
TableSound == TypeOK /\ RefsCounted /\ EndsMatch
=============================================================================
