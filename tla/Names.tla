------------------------------- MODULE Names --------------------------------
(* Path elements and directory entries: fs.c's skipelem, as namex drives it *)
(* with one name buffer that is never cleared, the entry that dirlink       *)
(* writes over old bytes and the comparison of dirlookup, on the string     *)
(* functions of string.c.  A character is a number, 0 the NUL.              *)
EXTENDS Integers, Sequences, SequencesExt, FiniteSetsExt

CONSTANTS DIRSIZ,  \* bytes of a name; a name of DIRSIZ bytes has no NUL
          Paths    \* paths that are walked

NUL == 0
SLASH == 1

VARIABLES rest,    \* path: what skipelem has left of it
          name,    \* namex's name[DIRSIZ]
          de,      \* the entry's name[DIRSIZ]
          walked,  \* ghost: the path that is walked
          count,   \* ghost: how many elements of it have been returned
          linked   \* ghost: the element that dirlink stored
vars == <<rest, name, de, walked, count, linked>>

From(s, i) == SubSeq(s, i, Len(s))

\* memmove from the start of src, n bytes, into dst.
Moved(dst, src, n) == [i \in DOMAIN dst |-> IF i <= n THEN src[i] ELSE dst[i]]

\* strncpy copies up to the NUL and fills the rest of n bytes with NULs.
strncpy(s, t, n) ==
  LET end == Min({i \in DOMAIN t : t[i] = NUL} \cup {n + 1})
  IN  [i \in DOMAIN s |-> IF i > n THEN s[i] ELSE IF i < end THEN t[i] ELSE NUL]

\* strncmp stops at n bytes, at p's NUL or at the first difference.
strncmp(p, q, n) ==
  LET stop == {i \in 1 .. n : p[i] = NUL \/ p[i] # q[i]}
  IN  IF stop = {} THEN 0 ELSE p[Min(stop)] - q[Min(stop)]

namecmp(s, t) == strncmp(s, t, DIRSIZ)

\* while(*path == '/') path++.
SkipSlashes(s) == From(s, Min({i \in DOMAIN s : s[i] # SLASH} \cup {Len(s) + 1}))

\* The element at the front of a path without leading slashes.
Element(s) == SubSeq(s, 1, Min({i \in DOMAIN s : s[i] = SLASH} \cup {Len(s) + 1}) - 1)

\* Mutant of Named: no NUL is written.
NamedOpen(buf, elem) == Moved(buf, elem, Min({Len(elem), DIRSIZ}))

\* The bytes that skipelem writes: no NUL when the element fills the buffer.
Named(buf, elem) ==
  IF Len(elem) >= DIRSIZ THEN Moved(buf, elem, DIRSIZ)
  ELSE [Moved(buf, elem, Len(elem)) EXCEPT ![Len(elem) + 1] = NUL]

\* skipelem: FALSE (a null pointer) when nothing but slashes is left.
skipelem ==
  LET s == SkipSlashes(rest)
      e == Element(s)
  IN  /\ s # <<>>
      /\ name' = Named(name, e)
      /\ rest' = SkipSlashes(From(s, Len(e) + 1))
      /\ count' = count + 1
      /\ UNCHANGED <<de, walked, linked>>

\* namex begins another path, in the same buffer as it would find it on the
\* stack of an earlier call.
namex ==
  /\ SkipSlashes(rest) = <<>>
  /\ \E p \in Paths : rest' = p /\ walked' = p
  /\ count' = 0
  /\ UNCHANGED <<name, de, linked>>

\* The elements of a path by its slashes, cut to the size of a name.
Cuts(p) == {0, Len(p) + 1} \cup {i \in DOMAIN p : p[i] = SLASH}
Starts(p) == {i \in DOMAIN p : p[i] # SLASH /\ i - 1 \in Cuts(p)}
Reference(p) ==
  LET at == SetToSortSeq(Starts(p), <)
  IN  [k \in DOMAIN at |->
        SubSeq(p, at[k], Min({Min({c \in Cuts(p) : c > at[k]}) - 1, at[k] + DIRSIZ - 1}))]

Current == Reference(walked)[count]

\* dirlink writes the name just found into an entry that held another.
dirlink ==
  /\ count > 0
  /\ de' = strncpy(de, name, DIRSIZ)
  /\ linked' = Current
  /\ UNCHANGED <<rest, name, walked, count>>

Init == /\ rest = <<>> /\ walked = <<>> /\ count = 0 /\ linked = <<>>
        /\ name = [i \in 1 .. DIRSIZ |-> 2]
        /\ de = [i \in 1 .. DIRSIZ |-> NUL]

Next == skipelem \/ namex \/ dirlink
Spec == Init /\ [][Next]_vars
-----------------------------------------------------------------------------
\* namex sees the elements of the path one by one, and the rest is the empty
\* string exactly when the last has been returned: "so the caller can check
\* *path=='\0' to see if the name is the last one" (fs.c:586).
PathSplit ==
  /\ count <= Len(Reference(walked))
  /\ count > 0 => (rest = <<>> <=> count = Len(Reference(walked)))

\* dirlookup finds the entry exactly when the element looked up and the
\* element stored agree in their first DIRSIZ bytes, whatever the buffers
\* held before.
EntryFound ==
  count > 0 /\ linked # <<>> => (namecmp(name, de) = 0 <=> Current = linked)
=============================================================================
