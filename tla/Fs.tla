--------------------------------- MODULE Fs ---------------------------------
(***************************************************************************)
(* Names, links and the inode cache: the inode layer and the directories   *)
(* of fs.c under the calls open, close, mkdir, link and unlink of          *)
(* sysfile.c, made by several processes at once.                           *)
(*                                                                         *)
(* A step is what a process does under one hold of an inode's sleep-lock   *)
(* or of icache.lock; a lock that is held over several steps is `holder'.  *)
(* The log gives no isolation and is left out; so are file contents (in    *)
(* InodeData) and the place of an inode in icache.inode, of which it has   *)
(* one at most.  Paths are absolute.  The disk has a free inode for every  *)
(* file: ialloc and iget panic without one.                                *)
(***************************************************************************)
EXTENDS Naturals, Sequences, FiniteSets

CONSTANTS
  Procs,
  NINODES,      \* the inodes are 1 .. NINODES; 1 is the root
  Names,        \* the names of directory entries, but "." and ".."
  FilePaths,    \* the paths of open, link and unlink
  DirPaths,     \* the paths of mkdir
  None

VARIABLES
  disk,         \* struct dinode: type and nlink
  dir,          \* the contents of directories: name to inode, 0 for none
  ic,           \* struct inode: ref, valid, type, nlink, the lock's holder
  pc, op,       \* each process: where it is and in which call
  path, new,    \* the rest of the path; the second path of link
  ip, dp,       \* the inodes of the call: the one at hand, a parent or old one
  put,          \* the inode in iput, 0 for none, and how far iput is
  file,         \* the inode of the open file, 0 for none
  panicked

local == <<op, path, new, ip, dp, file>>
vars == <<disk, dir, ic, pc, local, put, panicked>>

Inums == 1 .. NINODES
ROOTINO == 1
NoPut == [i |-> 0, at |-> "none"]
AllNames == Names \cup {".", ".."}
Empty == [x \in AllNames |-> 0]

\* The file system of mkfs: the root alone, "." and ".." in it.
Init == /\ disk = [i \in Inums |-> IF i = ROOTINO THEN [type |-> "dir", nlink |-> 1]
                                   ELSE [type |-> "free", nlink |-> 0]]
        /\ dir = [i \in Inums |-> IF i = ROOTINO
                                  THEN [Empty EXCEPT !["."] = i, ![".."] = i] ELSE Empty]
        /\ ic = [i \in Inums |-> [ref |-> 0, valid |-> FALSE, type |-> "free", nlink |-> 0,
                                  holder |-> None]]
        /\ pc = [p \in Procs |-> "user"]
        /\ op = [p \in Procs |-> "none"]
        /\ path = [p \in Procs |-> <<>>]
        /\ new = [p \in Procs |-> <<>>]
        /\ ip = [p \in Procs |-> 0]
        /\ dp = [p \in Procs |-> 0]
        /\ put = [p \in Procs |-> NoPut]
        /\ file = [p \in Procs |-> 0]
        /\ panicked = FALSE

At(p, l) == pc[p] = l /\ put[p] = NoPut
Goto(p, l) == pc' = [pc EXCEPT ![p] = l]

\* Call iput(i); in iunlockput the step has released the lock.
Put(p, i) == put' = [put EXCEPT ![p] = [i |-> i, at |-> "lock"]]

Return(p) == /\ Goto(p, "user")
             /\ op' = [op EXCEPT ![p] = "none"]
             /\ path' = [path EXCEPT ![p] = <<>>]
             /\ new' = [new EXCEPT ![p] = <<>>]
             /\ ip' = [ip EXCEPT ![p] = 0]
             /\ dp' = [dp EXCEPT ![p] = 0]

----------------------------------------------------------------------------
\* Inode i is not locked: a sleep-lock that is held waits, whoever holds it.
Lockable(i) == ic[i].holder = None

\* The entry that ilock leaves: filled from the disk if it was not valid.
Filled(i) == IF ic[i].valid THEN ic[i]
             ELSE [ic[i] EXCEPT !.valid = TRUE, !.type = disk[i].type, !.nlink = disk[i].nlink]

\* ilock panics on an inode that was freed.
NoType(i) == Filled(i).type = "free"

\* The cache with one more reference to i; a new entry is not valid.
Iget(c, i) == [c EXCEPT ![i].ref = @ + 1, ![i].valid = @ /\ c[i].ref > 0]

\* Inode i locked by h (None: not locked), with `nlink' links, in cache c.
Entry(c, i, h, k) == [c EXCEPT ![i] = [Filled(i) EXCEPT !.holder = h, !.nlink = k, !.ref = c[i].ref]]

Panic == panicked' = TRUE /\ UNCHANGED <<disk, dir, ic, pc, local, put>>

\* Mutant of LastRef: the references are not looked at.
AnyRef(i) == TRUE

LastRef(i) == ic[i].ref = 1

\* iput: lock the inode, and free it if this is the last reference ...
iput_lock(p) ==
  LET i == put[p].i
      free == ic[i].valid /\ ic[i].nlink = 0 /\ LastRef(i)
  IN  /\ put[p].at = "lock"
      /\ Lockable(i)
      /\ ic' = [ic EXCEPT ![i].holder = IF free THEN p ELSE None]
      /\ put' = [put EXCEPT ![p].at = IF free THEN "free" ELSE "drop"]
      /\ UNCHANGED <<disk, dir, pc, local, panicked>>

\* ... its contents and then its type on the disk ...
iput_free(p) == /\ put[p].at = "free"
                /\ disk' = [disk EXCEPT ![put[p].i].type = "free"]
                /\ dir' = [dir EXCEPT ![put[p].i] = Empty]
                /\ ic' = [ic EXCEPT ![put[p].i].type = "free"]
                /\ put' = [put EXCEPT ![p].at = "invalid"]
                /\ UNCHANGED <<pc, local, panicked>>

\* Mutant of iput_invalid: the entry stays valid.
IputStaysValid(p) == /\ put[p].at = "invalid"
                     /\ ic' = [ic EXCEPT ![put[p].i].holder = None]
                     /\ put' = [put EXCEPT ![p].at = "drop"]
                     /\ UNCHANGED <<disk, dir, pc, local, panicked>>

\* ... then the entry, which is unlocked ...
iput_invalid(p) == /\ put[p].at = "invalid"
                   /\ ic' = [ic EXCEPT ![put[p].i].valid = FALSE, ![put[p].i].holder = None]
                   /\ put' = [put EXCEPT ![p].at = "drop"]
                   /\ UNCHANGED <<disk, dir, pc, local, panicked>>

\* ... and give up the reference.
iput_drop(p) == /\ put[p].at = "drop"
                /\ ic' = [ic EXCEPT ![put[p].i].ref = @ - 1]
                /\ put' = [put EXCEPT ![p] = NoPut]
                /\ UNCHANGED <<disk, dir, pc, local, panicked>>

----------------------------------------------------------------------------
\* A call starts, at the root of its path.
Call(p, o, w, w2) == /\ At(p, "user")
                     /\ op' = [op EXCEPT ![p] = o]
                     /\ path' = [path EXCEPT ![p] = w]
                     /\ new' = [new EXCEPT ![p] = w2]
                     /\ ip' = [ip EXCEPT ![p] = ROOTINO]
                     /\ ic' = Iget(ic, ROOTINO)
                     /\ Goto(p, "namex")
                     /\ UNCHANGED <<disk, dir, dp, file, put, panicked>>

\* Calls that want the directory that the last name is in.
Parent(p) == op[p] \in {"create", "mkdir", "unlink", "link2"}

\* The call fails in namex: link has a link to take back.
Failed(p) == IF op[p] = "link2"
             THEN Goto(p, "link_bad") /\ UNCHANGED <<op, path, new, ip, dp>>
             ELSE Return(p)

\* One turn of namex: lock the inode, look the next name up, unlock.
namex(p) ==
  LET i == ip[p]
      next == dir[i][Head(path[p])]
      c == Entry(ic, i, None, Filled(i).nlink)
  IN  /\ At(p, "namex")
      /\ path[p] # <<>>
      /\ Lockable(i)
      /\ \/ NoType(i) /\ Panic
         \/ /\ ~ NoType(i)
            /\ \/ /\ Filled(i).type # "dir" \/ (next = 0 /\ ~ (Parent(p) /\ Len(path[p]) = 1))
                  /\ ic' = c
                  /\ Put(p, i)
                  /\ Failed(p)
               \/ /\ Filled(i).type = "dir" /\ Parent(p) /\ Len(path[p]) = 1
                  /\ ic' = c
                  /\ Goto(p, op[p])
                  /\ UNCHANGED <<put, op, path, new, ip, dp>>
               \/ /\ Filled(i).type = "dir" /\ ~ (Parent(p) /\ Len(path[p]) = 1) /\ next # 0
                  /\ ic' = Iget(c, next)
                  /\ ip' = [ip EXCEPT ![p] = next]
                  /\ path' = [path EXCEPT ![p] = Tail(@)]
                  /\ Put(p, i)
                  /\ UNCHANGED <<pc, op, new, dp>>
            /\ UNCHANGED <<disk, dir, file, panicked>>

namex_done(p) == /\ At(p, "namex")
                 /\ path[p] = <<>>
                 /\ Goto(p, op[p])
                 /\ UNCHANGED <<disk, dir, ic, local, put, panicked>>

\* open of an existing file, for reading (w FALSE) or writing.
sys_open(p, w) ==
  LET i == ip[p]
      fails == file[p] # 0 \/ (Filled(i).type = "dir" /\ w)
  IN  /\ At(p, "open")
      /\ Lockable(i)
      /\ IF NoType(i) THEN Panic
         ELSE /\ ic' = Entry(ic, i, None, Filled(i).nlink)
              /\ file' = IF fails THEN file ELSE [file EXCEPT ![p] = i]
              /\ IF fails THEN Put(p, i) ELSE UNCHANGED put
              /\ Return(p)
              /\ UNCHANGED <<disk, dir, panicked>>

sys_close(p) == /\ At(p, "user")
                /\ file[p] # 0
                /\ Put(p, file[p])
                /\ file' = [file EXCEPT ![p] = 0]
                /\ UNCHANGED <<disk, dir, ic, pc, op, path, new, ip, dp, panicked>>

----------------------------------------------------------------------------
\* What ialloc writes to the disk.
Allocated(t) == [type |-> t, nlink |-> 0]

\* What create makes: open a file, mkdir a directory.
Type(p) == IF op[p] = "mkdir" THEN "dir" ELSE "file"

\* create with its parent locked: the file is there, or ialloc gets inode n
\* and the parent stays locked.
create(p, n) ==
  LET d == ip[p]
      f == dir[d][Head(path[p])]
      c(h) == Entry(ic, d, h, Filled(d).nlink)
  IN  /\ At(p, op[p]) /\ op[p] \in {"create", "mkdir"}
      /\ Lockable(d)
      /\ \/ /\ f # 0 /\ n = f
            /\ ic' = Iget(c(None), f)
            /\ Put(p, d)
            /\ Goto(p, "create_found")
            /\ UNCHANGED <<disk, dir>>
         \/ /\ f = 0 /\ disk[n].type = "free" /\ \A m \in 1 .. n - 1 : disk[m].type # "free"
            /\ disk' = [disk EXCEPT ![n] = Allocated(Type(p))]
            /\ dir' = [dir EXCEPT ![n] = Empty]
            /\ ic' = Iget(c(p), n)
            /\ Goto(p, "create_new")
            /\ UNCHANGED put
      /\ ip' = [ip EXCEPT ![p] = n]
      /\ dp' = [dp EXCEPT ![p] = d]
      /\ UNCHANGED <<op, path, new, file, panicked>>

create_found(p) ==
  LET i == ip[p]
  IN  /\ At(p, "create_found")
      /\ Lockable(i)
      /\ IF NoType(i) THEN Panic
         ELSE /\ IF op[p] = "create" /\ Filled(i).type = "file"
                 THEN /\ ic' = Entry(ic, i, p, Filled(i).nlink)
                      /\ Goto(p, "created")
                      /\ UNCHANGED <<op, path, new, ip, dp, put>>
                 ELSE /\ ic' = Entry(ic, i, None, Filled(i).nlink)
                      /\ Put(p, i)
                      /\ Return(p)
              /\ UNCHANGED <<disk, dir, file, panicked>>

\* The links of parent d with a new inode of type t in it.
NewLinks(d, t) == IF t = "dir" THEN ic[d].nlink + 1 ELSE ic[d].nlink

\* The new inode locked, linked, written; its parent linked to it, unlocked.
create_new(p) ==
  LET i == ip[p]
      d == dp[p]
      t == Type(p)
      dots == IF t = "dir" THEN [Empty EXCEPT !["."] = i, ![".."] = d] ELSE Empty
  IN  /\ At(p, "create_new")
      /\ Lockable(i)
      /\ IF NoType(i) THEN Panic
         ELSE /\ disk' = [disk EXCEPT ![i].nlink = 1, ![d].nlink = NewLinks(d, t)]
              /\ ic' = Entry(Entry(ic, d, None, NewLinks(d, t)), i, p, 1)
              /\ dir' = [dir EXCEPT ![d][Head(path[p])] = i, ![i] = dots]
              /\ Put(p, d)
              /\ Goto(p, "created")
              /\ UNCHANGED <<local, panicked>>

\* open keeps the inode, mkdir and an open without descriptor put it.
created(p) == /\ At(p, "created")
              /\ ic' = [ic EXCEPT ![ip[p]].holder = None]
              /\ IF op[p] = "create" /\ file[p] = 0
                 THEN file' = [file EXCEPT ![p] = ip[p]] /\ UNCHANGED put
                 ELSE Put(p, ip[p]) /\ UNCHANGED file
              /\ Return(p)
              /\ UNCHANGED <<disk, dir, panicked>>

----------------------------------------------------------------------------
\* unlink: lock the parent and find the inode ...
sys_unlink(p) ==
  LET d == ip[p]
      f == dir[d][Head(path[p])]
  IN  /\ At(p, "unlink")
      /\ Lockable(d)
      /\ IF f = 0
         THEN /\ ic' = Entry(ic, d, None, Filled(d).nlink)
              /\ Put(p, d)
              /\ Return(p)
         ELSE /\ ic' = Iget(Entry(ic, d, p, Filled(d).nlink), f)
              /\ ip' = [ip EXCEPT ![p] = f]
              /\ dp' = [dp EXCEPT ![p] = d]
              /\ Goto(p, "unlink_entry")
              /\ UNCHANGED <<op, path, new, put>>
      /\ UNCHANGED <<disk, dir, file, panicked>>

isdirempty(i) == \A x \in Names : dir[i][x] = 0

\* ... lock it too, take the entry out and unlock the parent ...
unlink_entry(p) ==
  LET i == ip[p]
      d == dp[p]
      isdir == Filled(i).type = "dir"
      k == IF isdir THEN ic[d].nlink - 1 ELSE ic[d].nlink
  IN  /\ At(p, "unlink_entry")
      /\ Lockable(i)
      /\ \/ (NoType(i) \/ Filled(i).nlink < 1) /\ Panic
         \/ /\ ~ NoType(i) /\ Filled(i).nlink >= 1 /\ isdir /\ ~ isdirempty(i)
            /\ ic' = Entry(ic, i, None, Filled(i).nlink)
            /\ Put(p, i)
            /\ Goto(p, "unlink_bad")
            /\ UNCHANGED <<disk, dir, local, panicked>>
         \/ /\ ~ NoType(i) /\ Filled(i).nlink >= 1 /\ (isdir => isdirempty(i))
            /\ dir' = [dir EXCEPT ![d][Head(path[p])] = 0]
            /\ disk' = [disk EXCEPT ![d].nlink = k]
            /\ ic' = Entry(Entry(ic, d, None, k), i, p, Filled(i).nlink)
            /\ Put(p, d)
            /\ Goto(p, "unlink_count")
            /\ UNCHANGED <<local, panicked>>

\* ... and count the link down.
unlink_count(p) == /\ At(p, "unlink_count")
                   /\ disk' = [disk EXCEPT ![ip[p]].nlink = ic[ip[p]].nlink - 1]
                   /\ ic' = Entry(ic, ip[p], None, ic[ip[p]].nlink - 1)
                   /\ Put(p, ip[p])
                   /\ Return(p)
                   /\ UNCHANGED <<dir, file, panicked>>

unlink_bad(p) == /\ At(p, "unlink_bad")
                 /\ ic' = [ic EXCEPT ![dp[p]].holder = None]
                 /\ Put(p, dp[p])
                 /\ Return(p)
                 /\ UNCHANGED <<disk, dir, file, panicked>>

----------------------------------------------------------------------------
\* Mutant of LinkUp: the link is not counted before the entry is made.
LinkUpLate(i) == Filled(i).nlink

LinkUp(i) == Filled(i).nlink + 1

\* link: count the new link of the old inode, then look for its directory.
sys_link(p) ==
  LET i == ip[p]
  IN  /\ At(p, "link")
      /\ Lockable(i)
      /\ \/ NoType(i) /\ Panic
         \/ /\ Filled(i).type = "dir"
            /\ ic' = Entry(ic, i, None, Filled(i).nlink)
            /\ Put(p, i)
            /\ Return(p)
            /\ UNCHANGED <<disk, dir, file, panicked>>
         \/ /\ Filled(i).type = "file"
            /\ disk' = [disk EXCEPT ![i].nlink = LinkUp(i)]
            /\ ic' = Iget(Entry(ic, i, None, LinkUp(i)), ROOTINO)
            /\ dp' = [dp EXCEPT ![p] = i]
            /\ ip' = [ip EXCEPT ![p] = ROOTINO]
            /\ path' = [path EXCEPT ![p] = new[p]]
            /\ op' = [op EXCEPT ![p] = "link2"]
            /\ Goto(p, "namex")
            /\ UNCHANGED <<dir, new, file, put, panicked>>

\* dirlink in the directory found; if the name is taken its lookup has a
\* reference, which it puts with the directory locked.
link_entry(p) ==
  LET d == ip[p]
      f == dir[d][Head(path[p])]
      c(h) == Entry(ic, d, h, Filled(d).nlink)
  IN  /\ At(p, "link2")
      /\ Lockable(d)
      /\ IF f = 0
         THEN /\ dir' = [dir EXCEPT ![d][Head(path[p])] = dp[p]]
              /\ ic' = c(None)
              /\ Put(p, d)
              /\ Goto(p, "link_done")
         ELSE /\ ic' = Iget(c(p), f)
              /\ Put(p, f)
              /\ Goto(p, "link_taken")
              /\ UNCHANGED dir
      /\ UNCHANGED <<disk, local, panicked>>

link_taken(p) == /\ At(p, "link_taken")
                 /\ ic' = [ic EXCEPT ![ip[p]].holder = None]
                 /\ Put(p, ip[p])
                 /\ Goto(p, "link_bad")
                 /\ UNCHANGED <<disk, dir, local, panicked>>

link_done(p) == /\ At(p, "link_done")
                /\ Put(p, dp[p])
                /\ Return(p)
                /\ UNCHANGED <<disk, dir, ic, file, panicked>>

link_bad(p) == /\ At(p, "link_bad")
               /\ Lockable(dp[p])
               /\ disk' = [disk EXCEPT ![dp[p]].nlink = Filled(dp[p]).nlink - 1]
               /\ ic' = Entry(ic, dp[p], None, Filled(dp[p]).nlink - 1)
               /\ Put(p, dp[p])
               /\ Return(p)
               /\ UNCHANGED <<dir, file, panicked>>

Step(p) == \/ iput_lock(p) \/ iput_free(p) \/ iput_invalid(p) \/ iput_drop(p)
           \/ \E w \in FilePaths : \/ Call(p, "open", w, <<>>)
                                   \/ Call(p, "create", w, <<>>)
                                   \/ Call(p, "unlink", w, <<>>)
                                   \/ \E w2 \in FilePaths : Call(p, "link", w, w2)
           \/ \E w \in DirPaths : Call(p, "mkdir", w, <<>>)
           \/ namex(p) \/ namex_done(p)
           \/ \E w \in BOOLEAN : sys_open(p, w)
           \/ sys_close(p)
           \/ \E n \in Inums : create(p, n)
           \/ create_found(p) \/ create_new(p) \/ created(p)
           \/ sys_unlink(p) \/ unlink_entry(p) \/ unlink_count(p) \/ unlink_bad(p)
           \/ sys_link(p) \/ link_entry(p) \/ link_taken(p) \/ link_done(p) \/ link_bad(p)

Next == ~ panicked /\ \E p \in Procs : Step(p)

Spec == Init /\ [][Next]_vars
----------------------------------------------------------------------------
\* Inodes on disk and in the cache, directories and the calls in progress have their types.
TypeOK == /\ disk \in [Inums -> [type : {"free", "dir", "file"}, nlink : Nat]]
          /\ dir \in [Inums -> [AllNames -> 0 .. NINODES]]
          /\ \A i \in Inums : /\ ic[i].ref \in Nat /\ ic[i].nlink \in Nat
                              /\ ic[i].holder \in Procs \cup {None}
          /\ \A p \in Procs : {ip[p], dp[p], file[p], put[p].i} \subseteq 0 .. NINODES

\* What counts for inode i: the entries that name it and, for their "..",
\* the directories in it.
Links(i) == {e \in Inums \X Names : LET f == dir[e[1]][e[2]]
                                   IN  f = i \/ (e[1] = i /\ f # 0 /\ disk[f].type = "dir")}

(***************************************************************************)
(* No name leads to nowhere: an inode that has entries is allocated, and   *)
(* counts at least as many links, in every race of open, link and unlink.  *)
(***************************************************************************)
NamesHaveInodes == \A i \in Inums :
  Links(i) # {} => disk[i].type # "free" /\ disk[i].nlink >= Cardinality(Links(i))

(***************************************************************************)
(* An inode that somebody refers to is not freed: an open file stays until *)
(* it is closed, though it was unlinked in the meantime.                   *)
(***************************************************************************)
OpenStays == \A p \in Procs : file[p] # 0 => disk[file[p]].type # "free"

(***************************************************************************)
(* fs.c: "i-node cache is write-through".  A valid entry that is in use    *)
(* says what the disk says, also when an inode is freed and used again.    *)
(***************************************************************************)
CacheIsDisk == \A i \in Inums :
  (ic[i].ref > 0 /\ ic[i].valid /\ ~ \E p \in Procs : put[p] = [i |-> i, at |-> "invalid"])
    => ic[i].type = disk[i].type /\ ic[i].nlink = disk[i].nlink

\* The assertions of ilock and unlink hold.
NoPanic == ~ panicked

(***************************************************************************)
(* The tree of names: what is named exists, with links enough, and no call *)
(* panics on what another has left.                                        *)
(***************************************************************************)
TreeSound == TypeOK /\ NamesHaveInodes /\ NoPanic

\* The inode whose lock process p needs for its next step, 0 for none.
Wants(p) ==
  CASE put[p].at = "lock" -> put[p].i
    [] put[p] = NoPut /\ pc[p] = "link_bad" -> dp[p]
    [] put[p] = NoPut /\ pc[p] \in {"namex", "open", "create", "mkdir", "unlink", "link", "link2",
                                    "create_found", "create_new", "unlink_entry"} -> ip[p]
    [] OTHER -> 0

(***************************************************************************)
(* usertests.c:855 "another concurrent link/unlink/create test, to look    *)
(* for deadlocks": no two processes wait for locks of each other.          *)
(***************************************************************************)
NoCircularWait == ~ \E p, q \in Procs :
  /\ Wants(p) # 0 /\ Wants(q) # 0
  /\ ic[Wants(p)].holder = q /\ ic[Wants(q)].holder = p
=============================================================================
