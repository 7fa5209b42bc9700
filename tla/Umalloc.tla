------------------------------- MODULE Umalloc -------------------------------
(***************************************************************************)
(* The memory allocator of user programs (umalloc.c): a circular list of   *)
(* free blocks in the order of their addresses.                            *)
(*                                                                         *)
(* Addresses and sizes are in units of a header; `base' is at 0, the heap  *)
(* starts at 1 and sbrk extends it.  A block's size includes its header.   *)
(***************************************************************************)
EXTENDS Naturals, FiniteSets

CONSTANTS
  HEAP,         \* units that sbrk gives at most
  MORE,         \* units that morecore asks for at least (4096)
  Sizes         \* sizes of requests, the header included (nunits)

VARIABLES
  ptr, size,    \* the headers, of free blocks and of those in use
  freep,        \* where searches start; HEAP + 1 before the first malloc
  brk,          \* end of the heap
  live          \* the blocks in use

vars == <<ptr, size, freep, brk, live>>

Addrs == 0 .. HEAP
NULL == HEAP + 1

Init == /\ ptr = [a \in Addrs |-> 0]
        /\ size = [a \in Addrs |-> 0]
        /\ freep = NULL
        /\ brk = 1
        /\ live = {}

State == [ptr |-> ptr, size |-> size, freep |-> freep, brk |-> brk]

\* The place for block bp in the list: between two blocks, or at its ends.
Fits(s, bp, p) == \/ bp > p /\ bp < s.ptr[p]
                  \/ p >= s.ptr[p] /\ (bp > p \/ bp < s.ptr[p])

RECURSIVE Place(_, _, _)
Place(s, bp, p) == IF Fits(s, bp, p) THEN p ELSE Place(s, bp, s.ptr[p])

\* Mutant of JoinUpper: free blocks are not joined with those above them.
JoinUpperNot(s, bp, p) == [s EXCEPT !.ptr[bp] = s.ptr[p]]

\* Block bp linked to the block after p, or joined with it.
JoinUpper(s, bp, p) ==
  LET next == s.ptr[p]
  IN  IF bp + s.size[bp] = next
      THEN [s EXCEPT !.size[bp] = @ + s.size[next], !.ptr[bp] = s.ptr[next]]
      ELSE [s EXCEPT !.ptr[bp] = next]

\* Block p linked to bp, or joined with it.
JoinLower(s, bp, p) ==
  IF p + s.size[p] = bp
  THEN [s EXCEPT !.size[p] = @ + s.size[bp], !.ptr[p] = s.ptr[bp]]
  ELSE [s EXCEPT !.ptr[p] = bp]

\* free of the block whose header is at bp.
Freed(s, bp) == LET p == Place(s, bp, s.freep)
                IN  [JoinLower(JoinUpper(s, bp, p), bp, p) EXCEPT !.freep = p]

\* morecore: the heap grows by a block, which is freed; FALSE in `ok' without room.
morecore(s, nu) ==
  LET n == IF nu < MORE THEN MORE ELSE nu
  IN  IF s.brk + n > HEAP + 1 THEN [ok |-> FALSE, st |-> s]
      ELSE [ok |-> TRUE, st |-> Freed([s EXCEPT !.size[s.brk] = n, !.brk = @ + n], s.brk)]

\* n units from the end of the larger block p.
Split(s, prevp, p, n) ==
  [s EXCEPT !.size = [@ EXCEPT ![p] = @ - n, ![p + s.size[p] - n] = n], !.freep = prevp]

\* The search of malloc from block p on: [st, block], block NULL if there is none.
RECURSIVE Search(_, _, _, _)
Search(s, prevp, p, n) ==
  IF s.size[p] >= n
  THEN IF s.size[p] = n
       THEN [st |-> [s EXCEPT !.ptr[prevp] = s.ptr[p], !.freep = prevp], block |-> p]
       ELSE [st |-> Split(s, prevp, p, n), block |-> p + s.size[p] - n]
  ELSE IF p # s.freep THEN Search(s, p, s.ptr[p], n)
  ELSE LET m == morecore(s, n)
       IN  IF m.ok THEN Search(m.st, m.st.freep, m.st.ptr[m.st.freep], n)
           ELSE [st |-> m.st, block |-> NULL]

\* The free list of s from p on, before it comes back to freep.
RECURSIVE ListFrom(_, _)
ListFrom(s, p) == {p} \cup (IF s.ptr[p] = s.freep THEN {} ELSE ListFrom(s, s.ptr[p]))

\* The headers as s has them; what was a header once is of no interest.
Become(s, used) == LET list == ListFrom(s, s.freep)
                   IN  /\ ptr' = [a \in Addrs |-> IF a \in list THEN s.ptr[a] ELSE 0]
                       /\ size' = [a \in Addrs |-> IF a \in list \cup used THEN s.size[a] ELSE 0]
                       /\ freep' = s.freep /\ brk' = s.brk
                       /\ live' = used

malloc(n) ==
  LET s == IF freep = NULL THEN [State EXCEPT !.freep = 0] ELSE State
      found == Search(s, s.freep, s.ptr[s.freep], n)
  IN  Become(found.st, live \cup ({found.block} \ {NULL}))

free(bp) == Become(Freed(State, bp), live \ {bp})

Next == (\E n \in Sizes : malloc(n)) \/ (\E bp \in live : free(bp))

Spec == Init /\ [][Next]_vars
----------------------------------------------------------------------------
FreeList == IF freep = NULL THEN {} ELSE ListFrom(State, freep)

Units(a) == a .. a + size[a] - 1

(***************************************************************************)
(* Free blocks and blocks in use make up the heap: they do not overlap,    *)
(* and no unit is lost, after any sequence of malloc and free.             *)
(***************************************************************************)
HeapPartitioned ==
  LET blocks == live \cup (FreeList \ {0})
  IN  /\ live \cap FreeList = {}
      /\ UNION {Units(a) : a \in blocks} = 1 .. brk - 1
      /\ \A a, b \in blocks : a # b => Units(a) \cap Units(b) = {}

(***************************************************************************)
(* Neighbours are joined: no free block ends where another begins, so a    *)
(* heap that is freed altogether is one block again.                       *)
(***************************************************************************)
FreeBlocksJoined == \A a, b \in FreeList \ {0} : a + size[a] # b
=============================================================================
