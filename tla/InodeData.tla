------------------------------ MODULE InodeData ------------------------------
(***************************************************************************)
(* The contents of inodes: blocks from the bitmap (balloc, bfree), the     *)
(* direct and indirect block numbers of an inode (bmap), readi, writei and *)
(* itrunc of fs.c, and the reads and writes of an open file in file.c,     *)
(* which cut a long write into transactions.                               *)
(*                                                                         *)
(* A step of writei is one block; writes of different inodes interleave    *)
(* there.  A block is a sequence of BSIZE cells, which hold bytes or, in   *)
(* an indirect block, block numbers.  One open file per inode, and one     *)
(* block of bitmap, number 0 here, as mkfs.c makes it for FSSIZE.          *)
(***************************************************************************)
EXTENDS Naturals, Sequences, FiniteSets, FiniteSetsExt, SequencesExt

CONSTANTS
  Inodes,
  NBLOCKS,      \* the data blocks are 1 .. NBLOCKS
  BSIZE, NDIRECT, NINDIRECT,
  MAXOPBLOCKS,
  Payloads,     \* for each inode the sequences of bytes written to it
  MaxTrunc,     \* bound: how often an inode is truncated
  Counts        \* for each inode the sizes of reads

VARIABLES
  used,         \* the bitmap: the allocated blocks
  blk,          \* the blocks
  addrs, size,  \* of each inode
  off,          \* f->off of its open file
  wr,           \* the write in progress: bytes left, bytes left of this writei
  logged,       \* the blocks that the transaction of each inode has written
  truncs,       \* how often that happened
  bytes,        \* the bytes that the file should have
  panicked      \* the function that has panicked, if any

inode == <<addrs, size>>
vars == <<used, blk, inode, off, wr, logged, bytes, truncs, panicked>>

MAXFILE == NDIRECT + NINDIRECT
Zero == [k \in 0 .. BSIZE - 1 |-> 0]
Junk == [k \in 0 .. BSIZE - 1 |-> 1]
NoWrite == [data |-> <<>>, n |-> 0]

\* The block of the inodes: iupdate logs it.
InodeBlock == NBLOCKS + 1

\* A free block has old contents, here 1 everywhere: nothing clears it.
Init == /\ used = {}
        /\ blk = [b \in 1 .. NBLOCKS |-> Junk]
        /\ addrs = [i \in Inodes |-> [k \in 0 .. NDIRECT |-> 0]]
        /\ size = [i \in Inodes |-> 0]
        /\ off = [i \in Inodes |-> 0]
        /\ wr = [i \in Inodes |-> NoWrite]
        /\ logged = [i \in Inodes |-> {}]
        /\ bytes = [i \in Inodes |-> <<>>]
        /\ truncs = 0
        /\ panicked = "none"

\* What a call works on: bitmap, blocks, the inode's addresses, the blocks logged.
State(i) == [used |-> used, blk |-> blk, addrs |-> addrs[i], logged |-> logged[i]]

bzero(s, b) == [s EXCEPT !.blk[b] = Zero, !.logged = @ \cup {b}]

FreeBlock(s) == Min(1 .. NBLOCKS \ s.used)

balloc(s) == bzero([s EXCEPT !.used = @ \cup {FreeBlock(s)}, !.logged = @ \cup {0}], FreeBlock(s))

\* bmap, which returns in addr the block of `bn', allocated if it was not there.
bmap(s, bn) ==
  LET direct == IF s.addrs[bn] # 0 THEN s
                ELSE [balloc(s) EXCEPT !.addrs[bn] = FreeBlock(s)]
      s1 == IF s.addrs[NDIRECT] # 0 THEN s
            ELSE [balloc(s) EXCEPT !.addrs[NDIRECT] = FreeBlock(s)]
      ind == s1.addrs[NDIRECT]
      s2 == IF s1.blk[ind][bn - NDIRECT] # 0 THEN s1
            ELSE [balloc(s1) EXCEPT !.blk[ind][bn - NDIRECT] = FreeBlock(s1),
                                    !.logged = @ \cup {0, ind, FreeBlock(s1)}]
  IN  IF bn < NDIRECT THEN [st |-> direct, addr |-> direct.addrs[bn]]
      ELSE [st |-> s2, addr |-> s2.blk[ind][bn - NDIRECT]]

\* readi: the bytes from `o' on, n at most.
readi(i, o, n) ==
  LET cell(k) == blk[bmap(State(i), k \div BSIZE).addr][k % BSIZE]
  IN  [k \in 1 .. (IF o + n > size[i] THEN size[i] - o ELSE n) |-> cell(o + k - 1)]

fileread(i, n) == /\ wr[i] = NoWrite
                  /\ off' = [off EXCEPT ![i] = @ + Len(readi(i, @, n))]
                  /\ UNCHANGED <<used, blk, inode, wr, logged, bytes, truncs, panicked>>

----------------------------------------------------------------------------
\* Mutant of MaxWrite: every block of a transaction taken for a data block.
MaxWriteAll == MAXOPBLOCKS * BSIZE

\* The bytes that filewrite gives to one writei.
MaxWrite == ((MAXOPBLOCKS - 1 - 1 - 2) \div 2) * BSIZE

\* filewrite with `data' to write.
filewrite(i, data) == /\ wr[i] = NoWrite
                      /\ wr' = [wr EXCEPT ![i] = [data |-> data, n |-> 0]]
                      /\ logged' = [logged EXCEPT ![i] = {}]
                      /\ UNCHANGED <<used, blk, inode, off, bytes, truncs, panicked>>

\* The bytes left of this writei; a new one takes the next of the write.
Left(i) == IF wr[i].n > 0 THEN wr[i].n ELSE Min({Len(wr[i].data), MaxWrite})

\* writei returns -1 if the file would be too large: the rest is not written.
writei_large(i) == /\ wr[i].data # <<>> /\ wr[i].n = 0
                   /\ off[i] + Left(i) > MAXFILE * BSIZE
                   /\ wr' = [wr EXCEPT ![i] = NoWrite]
                   /\ UNCHANGED <<used, blk, inode, off, logged, bytes, truncs, panicked>>

\* The blocks that bmap would allocate for block bn of inode i.
Missing(i, bn) ==
  LET ind == addrs[i][NDIRECT]
  IN  IF bn < NDIRECT THEN (IF addrs[i][bn] = 0 THEN 1 ELSE 0)
      ELSE IF ind = 0 THEN 2
      ELSE IF blk[ind][bn - NDIRECT] = 0 THEN 1 ELSE 0

HasBlocks(i) == Missing(i, off[i] \div BSIZE) <= NBLOCKS - Cardinality(used)

\* The disk is full: balloc panics, in the middle of a write.
balloc_full(i) == /\ wr[i].data # <<>>
                  /\ off[i] + Left(i) <= MAXFILE * BSIZE
                  /\ ~ HasBlocks(i)
                  /\ panicked' = "balloc"
                  /\ UNCHANGED <<used, blk, inode, off, wr, logged, bytes, truncs>>

\* Sequence s with `new' written over it from offset o on.
Overwritten(s, o, new) ==
  [k \in 1 .. Max({Len(s), o + Len(new)}) |-> IF k \in o + 1 .. o + Len(new) THEN new[k - o] ELSE s[k]]

\* The size of inode i after a write that ends at o.
Grown(i, o) == IF o > size[i] THEN o ELSE size[i]

\* One block of a writei, the first in a new transaction; with the last the
\* size.
writei(i) ==
  LET old == [State(i) EXCEPT !.logged = IF wr[i].n > 0 THEN @ ELSE {}]
      b == bmap(old, off[i] \div BSIZE)
      o == off[i] % BSIZE
      m == Min({Left(i), BSIZE - o})
      now == SubSeq(wr[i].data, 1, m)
      end == off[i] + m
      done == Left(i) = m
  IN  /\ wr[i].data # <<>>
      /\ off[i] + Left(i) <= MAXFILE * BSIZE
      /\ HasBlocks(i)
      /\ used' = b.st.used
      /\ blk' = [b.st.blk EXCEPT ![b.addr] =
                   [k \in 0 .. BSIZE - 1 |-> IF k \in o .. o + m - 1 THEN now[k - o + 1] ELSE @[k]]]
      /\ addrs' = [addrs EXCEPT ![i] = b.st.addrs]
      /\ size' = IF done THEN [size EXCEPT ![i] = Grown(i, end)] ELSE size
      /\ logged' = [logged EXCEPT ![i] = b.st.logged \cup {b.addr}
                                           \cup (IF done /\ end > size[i] THEN {InodeBlock} ELSE {})]
      /\ off' = [off EXCEPT ![i] = end]
      /\ wr' = [wr EXCEPT ![i] = [data |-> SubSeq(@.data, m + 1, Len(@.data)), n |-> Left(i) - m]]
      /\ bytes' = [bytes EXCEPT ![i] = Overwritten(@, off[i], now)]
      /\ UNCHANGED <<truncs, panicked>>

\* A new open of the file, at its start.
reopen(i) == /\ wr[i] = NoWrite /\ off[i] # 0
             /\ off' = [off EXCEPT ![i] = 0]
             /\ UNCHANGED <<used, blk, inode, wr, logged, bytes, truncs, panicked>>

\* Mutant of Indirect: the blocks behind the indirect one are forgotten.
IndirectOnly(i) == {addrs[i][NDIRECT]}

\* The indirect block of inode i and the blocks it lists.
Indirect(i) == IF addrs[i][NDIRECT] = 0 THEN {}
               ELSE {addrs[i][NDIRECT]} \cup {blk[addrs[i][NDIRECT]][k] : k \in 0 .. NINDIRECT - 1}

\* itrunc, from iput: it frees every block, each of which must be in use.
itrunc(i) ==
  LET mine == ({addrs[i][k] : k \in 0 .. NDIRECT - 1} \cup Indirect(i)) \ {0}
  IN  /\ wr[i] = NoWrite /\ truncs < MaxTrunc
      /\ truncs' = truncs + 1
      /\ used' = used \ mine
      /\ panicked' = IF mine \subseteq used THEN panicked ELSE "bfree"
      /\ addrs' = [addrs EXCEPT ![i] = [k \in 0 .. NDIRECT |-> 0]]
      /\ size' = [size EXCEPT ![i] = 0]
      /\ off' = [off EXCEPT ![i] = 0]
      /\ bytes' = [bytes EXCEPT ![i] = <<>>]
      /\ blk' = [b \in 1 .. NBLOCKS |-> IF b \in mine THEN Junk ELSE blk[b]]
      /\ logged' = [logged EXCEPT ![i] = {}]
      /\ UNCHANGED wr

Next == /\ panicked = "none"
        /\ \E i \in Inodes :
             \/ \E n \in Counts[i] : fileread(i, n)
             \/ \E d \in Payloads[i] : filewrite(i, d)
             \/ writei_large(i) \/ balloc_full(i) \/ writei(i)
             \/ reopen(i) \/ itrunc(i)

Spec == Init /\ [][Next]_vars
----------------------------------------------------------------------------
(***************************************************************************)
(* What is read is what was written: between writes every file has its     *)
(* bytes, over direct and indirect blocks and whatever else was written    *)
(* and freed meanwhile, in any read of it.                                 *)
(***************************************************************************)
ReadsBack == \A i \in Inodes :
  wr[i] = NoWrite => readi(i, 0, MAXFILE * BSIZE) = bytes[i]

\* The places that hold block numbers, with the block each one holds.
Pointers ==
  LET ind(i) == addrs[i][NDIRECT]
  IN  {<<i, k, addrs[i][k]>> : i \in Inodes, k \in 0 .. NDIRECT} \cup
      UNION {{<<i, NDIRECT + 1 + k, blk[ind(i)][k]>> : k \in 0 .. NINDIRECT - 1}
               : i \in {j \in Inodes : ind(j) # 0}}

(***************************************************************************)
(* Every allocated block is pointed to once, and no other block is: writes *)
(* and truncations neither share nor leak a block, also when a write stops *)
(* half way, and bfree never meets a free block.                           *)
(***************************************************************************)
BlocksOwnedOnce == LET ptrs == {x \in Pointers : x[3] # 0}
                   IN  /\ {x[3] : x \in ptrs} = used
                       /\ Cardinality(ptrs) = Cardinality(used)
                       /\ panicked # "bfree"

(***************************************************************************)
(* file.c: "write a few blocks at a time to avoid exceeding the maximum    *)
(* log transaction size".  The blocks that one writei logs, bitmap,        *)
(* indirect and inode block included, fit an operation's share of the log, *)
(* wherever in a block it starts.                                          *)
(***************************************************************************)
WriteFits == \A i \in Inodes : Cardinality(logged[i]) <= MAXOPBLOCKS
=============================================================================
