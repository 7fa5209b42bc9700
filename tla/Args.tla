-------------------------------- MODULE Args --------------------------------
(* The checks of system call arguments in syscall.c.  Unsigned numbers have *)
(* UINT values, and addresses below KERNBASE may belong to the process.     *)
EXTENDS Integers, Sequences, SequencesExt, FiniteSetsExt

CONSTANTS UINT,      \* values of a uint: 2^32 in the code
          KERNBASE,  \* the largest size of a process
          INTSIZE    \* sizeof(int): 4

VARIABLE in
vars == <<in>>

Uints == 0 .. UINT - 1
Ints == -(UINT \div 2) .. UINT \div 2 - 1
Uint(i) == i % UINT

\* Mutant of fetchint: only the end is tested, and wraps.
FetchintWraps(addr, sz) == ~(Uint(addr + INTSIZE) > sz)

\* fetchint: the test alone; addr + 4 may wrap.
fetchint(addr, sz) == ~(addr >= sz \/ Uint(addr + INTSIZE) > sz)

\* argptr, given the word that argint fetched.
argptr(i, size, sz) == ~(size < 0 \/ Uint(i) >= sz \/ Uint(Uint(i) + size) > sz)

\* fetchstr: the length of the string at addr, or -1; nuls are the addresses
\* that hold a zero byte.
fetchstr(addr, nuls, sz) ==
  LET ends == {s \in nuls : addr <= s /\ s < sz}
  IN  IF addr >= sz \/ ends = {} THEN -1 ELSE Min(ends) - addr
-----------------------------------------------------------------------------
NoInput == [sz |-> 0, addr |-> 0, size |-> 0]

Init == in = NoInput

\* A process size, the word found on its stack as argument (an address or a
\* number) and the size the system call wants or the user gave.
Next == /\ in = NoInput
        /\ \E sz \in 0 .. KERNBASE, addr \in Uints, size \in Ints :
             in' = [sz |-> sz, addr |-> addr, size |-> size]

Spec == Init /\ [][Next]_vars

Inside(first, n) == \A a \in first .. first + n - 1 : a < in.sz

\* The checks accept exactly the ints, blocks and strings that lie wholly
\* below the size of the process, although the additions in the tests wrap.
\* The empty block is accepted where a byte would be.
ArgsInside ==
  /\ fetchint(in.addr, in.sz) <=> Inside(in.addr, INTSIZE)
  /\ argptr(in.addr, in.size, in.sz)
       <=> in.size >= 0 /\ in.addr < in.sz /\ Inside(in.addr, in.size)

\* A string is accepted exactly when a zero byte ends it inside the process,
\* and the length returned stops at the first one.
StringsEnd ==
  \A nuls \in {{}, {in.sz}, {in.sz - 1}, {in.addr}, {in.addr + 1, in.sz - 1}} :
    LET n == fetchstr(in.addr, nuls, in.sz)
    IN  IF n = -1 THEN \A a \in nuls : a < in.addr \/ a >= in.sz
        ELSE in.addr + n \in nuls /\ Inside(in.addr, n + 1)
             /\ nuls \cap in.addr .. in.addr + n - 1 = {}
=============================================================================
