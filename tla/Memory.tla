------------------------------- MODULE Memory -------------------------------
(***************************************************************************)
(* Physical pages and address spaces: kalloc.c, the user part of vm.c, and *)
(* their use in fork, exec, sbrk and wait, when memory runs out at any     *)
(* point of them.                                                          *)
(*                                                                         *)
(* What a call does to the free list, to the contents of pages and to the  *)
(* address space it works on is a function of these three, [free, mem, sp, *)
(* ok]; calls share the free list only, and take a page of it at a time    *)
(* under kmem.lock, so that they are taken one after the other here.  A    *)
(* page holds "junk" (kfree), "zero", or "data".                           *)
(***************************************************************************)
EXTENDS Naturals, Sequences, FiniteSets, FiniteSetsExt, SequencesExt

CONSTANTS
  Procs,
  NPAGES,         \* the physical pages are 1 .. NPAGES
  PGSIZE,
  NPTENTRIES,     \* entries of a page table
  NUSER,          \* page tables below KERNBASE
  NKERNEL,        \* page tables of the kernel's mappings
  UINT,           \* 2^32
  Images,         \* programs: the ends of their segments
  ArgSizes,       \* bytes of the arguments of exec on the new stack
  Deltas          \* arguments of sbrk

Pages == 1 .. NPAGES
VPages == 0 .. NUSER * NPTENTRIES - 1
KERNBASE == NUSER * NPTENTRIES * PGSIZE

VARIABLES
  free,           \* kmem.freelist
  mem,            \* what the physical pages hold
  space,          \* of each process: pgdir, page tables, pages and size
  kstack,         \* its kernel stack, 0 for none
  emptied,        \* the processes that have freed their last byte
  panicked

vars == <<free, mem, space, kstack, emptied, panicked>>

NoSpace == [dir |-> 0, tables |-> [t \in 0 .. NUSER - 1 |-> 0], kernel |-> {},
            page |-> [v \in VPages |-> 0], user |-> {}, sz |-> 0]

----------------------------------------------------------------------------
\* The page that kalloc returns, if there is one. The code returns the page freed last; the
\* properties do not tell pages apart, so one order stands for all.
Kalloc(s) == Min(s.free)

\* The next step of a call, if it has not failed; and what it returns instead if it has.
Then(s, Step(_)) == IF s.ok THEN Step(s) ELSE s
OrElse(s, r) == IF s.ok THEN s ELSE r

\* A page taken and filled; the call fails without one.
Taken(s, content) == IF s.free = {} THEN [s EXCEPT !.ok = FALSE]
                     ELSE [s EXCEPT !.free = @ \ {Kalloc(s)}, !.mem[Kalloc(s)] = content]

kfree(s, f) == [s EXCEPT !.free = @ \cup {f}, !.mem[f] = "junk"]

kfreeAll(s, fs) == [s EXCEPT !.free = @ \cup fs,
                             !.mem = [f \in Pages |-> IF f \in fs THEN "junk" ELSE @[f]]]

\* walkpgdir with alloc: the page table for page v.
walkpgdir(s, v) ==
  IF s.sp.tables[v \div NPTENTRIES] # 0 THEN s
  ELSE Then(Taken(s, "zero"), LAMBDA t : [t EXCEPT !.sp.tables[v \div NPTENTRIES] = Kalloc(s)])

\* mappages of page v to f.
mappages(s, v, f) ==
  Then(walkpgdir(s, v), LAMBDA t : [t EXCEPT !.sp.page[v] = f, !.sp.user = @ \cup {v}])

PGROUNDUP(a) == ((a + PGSIZE - 1) \div PGSIZE) * PGSIZE

\* The pages from PGROUNDUP(lo) to below hi, in order.
PagesOf(lo, hi) == LET first == PGROUNDUP(lo) \div PGSIZE
                       last == (hi + PGSIZE - 1) \div PGSIZE
                   IN  [k \in 1 .. (IF last > first THEN last - first ELSE 0) |-> first + k - 1]

\* deallocuvm from old to new; it returns the new size in `ret'.
deallocuvm(s, old, new) ==
  LET vs == {v \in Range(PagesOf(new, old)) : s.sp.page[v] # 0}
      s1 == kfreeAll(s, {s.sp.page[v] : v \in vs})
  IN  IF new >= old THEN [s EXCEPT !.ret = old]
      ELSE [s1 EXCEPT !.sp.page = [v \in VPages |-> IF v \in vs THEN 0 ELSE @[v]],
                      !.sp.user = @ \ vs, !.ret = new]

\* Memory has run out: allocuvm takes back what it has done.
Undone(s, old, new) == [deallocuvm(s, new, old) EXCEPT !.ok = FALSE, !.ret = 0]

\* One page of allocuvm: its memory, then its entry; memory without an entry
\* is given back.
AllocPage(s, v, old, new) ==
  Then(s, LAMBDA t : OrElse(Then(Taken(t, "zero"), LAMBDA u : mappages(u, v, Kalloc(t))),
                            Undone(t, old, new)))

\* allocuvm from old to new: ret is the new size, or 0 (and not ok).
allocuvm(s, old, new) ==
  IF ~ s.ok THEN s
  ELSE IF new >= KERNBASE THEN [s EXCEPT !.ok = FALSE, !.ret = 0]
  ELSE IF new < old THEN [s EXCEPT !.ret = old]
  ELSE Then(FoldLeft(LAMBDA t, v : AllocPage(t, v, old, new), s, PagesOf(old, new)),
            LAMBDA t : [t EXCEPT !.ret = new])

\* The page tables and the directory of an address space.
TableFrames(sp) == ({sp.tables[t] : t \in 0 .. NUSER - 1} \cup sp.kernel \cup {sp.dir}) \ {0}

freevm(s) == LET s1 == deallocuvm(s, KERNBASE, 0)
             IN  [kfreeAll(s1, TableFrames(s1.sp)) EXCEPT !.sp = NoSpace]

\* setupkvm: a directory, and the tables of the kernel's mappings.
KernelTable(s) ==
  Then(s, LAMBDA t : Then(Taken(t, "zero"), LAMBDA u : [u EXCEPT !.sp.kernel = @ \cup {Kalloc(t)}]))

OrFreed(s) == OrElse(s, freevm(s))

setupkvm(s) ==
  Then(Taken([s EXCEPT !.sp = NoSpace], "zero"),
       LAMBDA t : OrFreed(FoldLeft(LAMBDA u, k : KernelTable(u), [t EXCEPT !.sp.dir = Kalloc(s)],
                                   [k \in 1 .. NKERNEL |-> k])))

\* Mutant of CopyUndone: the page that could not be mapped is lost.
CopyUndoneLost(s, f) == s

\* The page that could not be mapped is given back.
CopyUndone(s, f) == kfree(s, f)

\* What is in a copy of page f.
Copied(s, f) == s.mem[f]

\* mappages gives page v, now in f, the flags it has in `old'.
Mapped(s, old, v, f) == IF ~ s.ok THEN CopyUndone(s, f)
                        ELSE IF v \in old.user THEN s
                        ELSE [s EXCEPT !.sp.user = @ \ {v}]

\* copyuvm of address space `old': its pages, copied one by one.
CopyPage(s, old, v) ==
  Then(s, LAMBDA t : Then(Taken(t, Copied(t, old.page[v])),
                          LAMBDA u : Mapped(mappages(u, v, Kalloc(t)), old, v, Kalloc(t))))

copyuvm(s, old) ==
  Then(setupkvm(s),
       LAMBDA t : OrFreed(Then(FoldLeft(LAMBDA u, v : CopyPage(u, old, v), t, PagesOf(0, old.sz)),
                               LAMBDA u : [u EXCEPT !.sp.sz = old.sz])))

----------------------------------------------------------------------------
State(sp) == [free |-> free, mem |-> mem, sp |-> sp, ok |-> TRUE, ret |-> 0]

\* The first process has a page: userinit.
Init == LET s == allocuvm(setupkvm([free |-> Pages, mem |-> [f \in Pages |-> "junk"],
                                    sp |-> NoSpace, ok |-> TRUE, ret |-> 0]), 0, PGSIZE)
            st == Kalloc(s)
            first == CHOOSE p \in Procs : TRUE
        IN  /\ free = s.free \ {st}
            /\ mem = s.mem
            /\ space = [p \in Procs |-> IF p = first THEN [s.sp EXCEPT !.sz = PGSIZE] ELSE NoSpace]
            /\ kstack = [p \in Procs |-> IF p = first THEN st ELSE 0]
            /\ emptied = {}
            /\ panicked = FALSE

Runs(p) == kstack[p] # 0 /\ ~ panicked

\* copyuvm panics on a page that is not there.
Copyable(sp) == \A v \in Range(PagesOf(0, sp.sz)) : sp.page[v] # 0

\* fork without memory for the copy gives the stack back.
StackFreed(s, st) == OrElse(s, kfree(s, st))

\* fork: a stack, a copy of the memory; without either nothing is left.
fork(p, q) ==
  LET s1 == Taken(State(NoSpace), "data")
      st == Kalloc(State(NoSpace))
      s == StackFreed(copyuvm(s1, space[p]), st)
  IN  /\ Runs(p) /\ kstack[q] = 0
      /\ IF free = {} THEN UNCHANGED vars
         ELSE IF ~ Copyable(space[p])
         THEN panicked' = TRUE /\ UNCHANGED <<free, mem, space, kstack, emptied>>
         ELSE /\ free' = s.free /\ mem' = s.mem
              /\ space' = [space EXCEPT ![q] = s.sp]
              /\ kstack' = [kstack EXCEPT ![q] = IF s.ok THEN st ELSE 0]
              /\ UNCHANGED <<emptied, panicked>>

\* growproc, from sbrk.  It takes a size of 0 for a failure: a process that gives up its
\* last byte has lost its pages and keeps its size. It may still get to a call: the
\* addresses that the CPU has cached are flushed only with switchuvm, which is skipped.
growproc(p, n) ==
  LET old == space[p].sz
      new == (old + n) % UINT
      grows == n < UINT \div 2
      s == IF grows THEN allocuvm(State(space[p]), old, new)
           ELSE deallocuvm(State(space[p]), old, new)
  IN  /\ Runs(p)
      /\ free' = s.free /\ mem' = s.mem
      /\ space' = [space EXCEPT ![p] = [s.sp EXCEPT !.sz = IF s.ret # 0 THEN s.ret ELSE old]]
      /\ emptied' = IF ~ grows /\ new = 0 THEN emptied \cup {p} ELSE emptied
      /\ UNCHANGED <<kstack, panicked>>

\* The program's segments, then a guard page and a stack.
Stacked(s, top) == Then(allocuvm(s, top, top + 2 * PGSIZE),
                        LAMBDA t : [t EXCEPT !.sp.user = @ \ {top \div PGSIZE}, !.sp.sz = t.ret])

Loaded(image) ==
  Then(FoldLeft(LAMBDA t, end : allocuvm(t, t.ret, end), setupkvm(State(NoSpace)), image),
       LAMBDA t : Stacked(t, PGROUNDUP(t.ret)))

\* copyout of n bytes below the top: only into pages the user may touch.
copyout(s, n) == \A a \in s.sp.sz - n .. s.sp.sz - 1 : a \div PGSIZE \in s.sp.user

\* exec: a new image, and the old one freed; or what was made of the new one.
exec(p, image, args) ==
  LET s == Loaded(image)
      good == s.ok /\ args <= s.sp.sz /\ copyout(s, args)
      done == IF good THEN freevm([s EXCEPT !.sp = space[p]])
              ELSE IF s.sp.dir # 0 THEN freevm(s) ELSE s
  IN  /\ Runs(p)
      /\ free' = done.free /\ mem' = done.mem
      /\ space' = IF good THEN [space EXCEPT ![p] = s.sp] ELSE space
      /\ emptied' = IF good THEN emptied \ {p} ELSE emptied
      /\ UNCHANGED <<kstack, panicked>>

\* The parent's wait takes down a process that has exited.
wait(p) ==
  LET s == kfree(freevm(State(space[p])), kstack[p])
  IN  /\ Runs(p)
      /\ \E q \in Procs \ {p} : kstack[q] # 0
      /\ free' = s.free /\ mem' = s.mem
      /\ space' = [space EXCEPT ![p] = NoSpace]
      /\ kstack' = [kstack EXCEPT ![p] = 0]
      /\ emptied' = emptied \ {p}
      /\ UNCHANGED panicked

Next == \E p \in Procs : \/ \E q \in Procs : fork(p, q)
                         \/ \E n \in Deltas : growproc(p, n)
                         \/ \E i \in Images, a \in ArgSizes : exec(p, i, a)
                         \/ wait(p)

Spec == Init /\ [][Next]_vars
----------------------------------------------------------------------------
\* The pages that process p has: process, use, place and page.
Uses(p) == {x \in {<<p, "stack", 0, kstack[p]>>, <<p, "dir", 0, space[p].dir>>}
                    \cup {<<p, "kernel", 0, f>> : f \in space[p].kernel}
                    \cup {<<p, "table", t, space[p].tables[t]>> : t \in 0 .. NUSER - 1}
                    \cup {<<p, "user", v, space[p].page[v]>> : v \in VPages} : x[4] # 0}

(***************************************************************************)
(* Every physical page is on the free list or has one use, never two, and  *)
(* none is lost: also when memory runs out in the middle of fork, exec or  *)
(* sbrk, which undo what they have done.                                   *)
(***************************************************************************)
PagesAccounted ==
  LET used == UNION {Uses(p) : p \in Procs}
  IN  /\ {x[4] : x \in used} = Pages \ free
      /\ Cardinality(used) = NPAGES - Cardinality(free)

(***************************************************************************)
(* A process has all the pages below its size and none above, each with    *)
(* its page table, unless it has freed its last byte: sbrk then fails, and *)
(* leaves it its size.  Only a fork of such a process meets copyuvm's      *)
(* "page not present".                                                     *)
(***************************************************************************)
SizeIsMapped ==
  /\ panicked => emptied # {}
  /\ \A p \in Procs \ emptied, v \in VPages :
       (space[p].page[v] # 0) <=> v \in Range(PagesOf(0, space[p].sz))

(***************************************************************************)
(* What a process gets is cleared or copied: it never sees what another    *)
(* one left in a page.                                                     *)
(***************************************************************************)
NoJunk == \A p \in Procs, v \in VPages : space[p].page[v] # 0 => mem[space[p].page[v]] # "junk"
=============================================================================
