------------------------------- MODULE Console -------------------------------
(***************************************************************************)
(* The console's line input: consoleintr edits a line in a ring, and       *)
(* processes in consoleread sleep for it; all under cons.lock.             *)
(*                                                                         *)
(* The indices run modulo UINT and are reduced at each access.  A key is   *)
(* an ordinary character or one of those that are treated specially; the   *)
(* echo and ^P, which lists processes, are left out.                       *)
(***************************************************************************)
EXTENDS Naturals, Sequences, SequencesExt

CONSTANTS
  Procs, None,
  INPUT_BUF,
  UINT,         \* 2^32, a multiple of INPUT_BUF
  Counts,       \* the sizes of reads
  MaxKills      \* bound: processes killed

Keys == {"x", "\n", "^D", "^H", "^U"}

VARIABLES
  buf, r, w, e,
  lock,         \* who holds cons.lock
  pc, n, got,   \* a reader: where, characters wanted, characters read
  killed,
  ready, edit   \* the input as a user sees it: lines entered, line at hand

input == <<buf, r, w, e>>
vars == <<input, lock, pc, n, got, killed, ready, edit>>

Init == /\ buf = [k \in 0 .. INPUT_BUF - 1 |-> "0"]
        /\ r = 0 /\ w = 0 /\ e = 0
        /\ lock = None
        /\ pc = [p \in Procs |-> "user"]
        /\ n = [p \in Procs |-> 0]
        /\ got = [p \in Procs |-> <<>>]
        /\ killed = {}
        /\ ready = <<>> /\ edit = <<>>

Minus(a, b) == (a + UINT - b) % UINT

\* Mutant of Enters: a full buffer is not passed on.
EntersNotFull(c, end) == c \in {"\n", "^D"}

\* Character c, after which the line ends at `end', ends the line.
Enters(c, end) == c \in {"\n", "^D"} \/ end = (r + INPUT_BUF) % UINT

\* wakeup(&input.r).
Woken == [p \in Procs |-> IF pc[p] = "asleep" THEN "awake" ELSE pc[p]]

\* ^H takes a character of the line at hand.
Back == IF e # w THEN Minus(e, 1) ELSE e

\* consoleintr for one character.  There is no newline after w, so that ^U
\* goes back to w.
consoleintr(c) ==
  /\ lock = None
  /\ \/ /\ c = "^U"
        /\ e' = w /\ edit' = <<>>
        /\ UNCHANGED <<buf, w, pc, ready>>
     \/ /\ c = "^H"
        /\ e' = Back
        /\ edit' = IF edit # <<>> THEN Front(edit) ELSE edit
        /\ UNCHANGED <<buf, w, pc, ready>>
     \/ /\ c \notin {"^U", "^H"} /\ Minus(e, r) < INPUT_BUF
        /\ buf' = [buf EXCEPT ![e % INPUT_BUF] = c]
        /\ e' = (e + 1) % UINT
        /\ IF Enters(c, e')
           THEN w' = e' /\ pc' = Woken /\ ready' = ready \o Append(edit, c) /\ edit' = <<>>
           ELSE edit' = Append(edit, c) /\ UNCHANGED <<w, pc, ready>>
     \/ /\ c \notin {"^U", "^H"} /\ Minus(e, r) >= INPUT_BUF
        /\ UNCHANGED <<buf, e, w, pc, ready, edit>>
  /\ UNCHANGED <<r, lock, n, got, killed>>

----------------------------------------------------------------------------
\* consoleread of k characters starts, or goes on after its sleep.
consoleread(p, k) == /\ lock = None
                     /\ \/ /\ pc[p] = "user" /\ p \notin killed
                           /\ n' = [n EXCEPT ![p] = k]
                           /\ UNCHANGED got
                        \/ pc[p] = "awake" /\ k = n[p] + Len(got[p]) /\ UNCHANGED <<n, got>>
                     /\ lock' = p
                     /\ pc' = [pc EXCEPT ![p] = "loop"]
                     /\ UNCHANGED <<input, killed, ready, edit>>

Return(p) == /\ lock' = None
             /\ pc' = [pc EXCEPT ![p] = "user"]
             /\ n' = [n EXCEPT ![p] = 0]
             /\ got' = [got EXCEPT ![p] = <<>>]

\* No input: sleep, or return if the process is killed.
read_wait(p) == /\ pc[p] = "loop" /\ n[p] > 0 /\ r = w
                /\ IF p \in killed THEN Return(p)
                   ELSE lock' = None /\ pc' = [pc EXCEPT ![p] = "asleep"] /\ UNCHANGED <<n, got>>
                /\ UNCHANGED <<input, killed, ready, edit>>

\* ^D after other characters is left for the next read.
Kept(p, c) == c = "^D" /\ Len(got[p]) > 0

\* One character.
read_char(p) ==
  LET c == buf[r % INPUT_BUF]
  IN  /\ pc[p] = "loop" /\ n[p] > 0 /\ r # w
      /\ r' = IF Kept(p, c) THEN r ELSE (r + 1) % UINT
      /\ ready' = IF Kept(p, c) THEN ready ELSE Tail(ready)
      /\ IF c \in {"^D", "\n"} THEN Return(p)
         ELSE /\ n' = [n EXCEPT ![p] = @ - 1]
              /\ got' = [got EXCEPT ![p] = Append(@, c)]
              /\ UNCHANGED <<lock, pc>>
      /\ UNCHANGED <<buf, w, e, killed, edit>>

read_full(p) == /\ pc[p] = "loop" /\ n[p] = 0
                /\ Return(p)
                /\ UNCHANGED <<input, killed, ready, edit>>

kill(p) == /\ p \notin killed /\ MaxKills > 0 /\ killed = {}
           /\ killed' = killed \cup {p}
           /\ pc' = [pc EXCEPT ![p] = IF @ = "asleep" THEN "awake" ELSE @]
           /\ UNCHANGED <<input, lock, n, got, ready, edit>>

Next == \/ \E c \in Keys : consoleintr(c)
        \/ \E p \in Procs : \/ \E k \in Counts : consoleread(p, k)
                            \/ read_wait(p) \/ read_char(p) \/ read_full(p) \/ kill(p)

Spec == Init /\ [][Next]_vars
----------------------------------------------------------------------------
(***************************************************************************)
(* The ring holds the lines entered and the line at hand, as edited with   *)
(* ^H and ^U, wherever its indices have come to: what is read is what the  *)
(* user sees.                                                              *)
(***************************************************************************)
RingIsInput ==
  LET seen == ready \o edit
  IN  /\ Minus(w, r) = Len(ready) /\ Minus(e, w) = Len(edit)
      /\ \A k \in DOMAIN seen : buf[(r + k - 1) % INPUT_BUF] = seen[k]

(***************************************************************************)
(* The console is never stuck: when the ring takes no more characters,     *)
(* the readers can have those that it holds.                               *)
(***************************************************************************)
FullIsReady == Minus(e, r) = INPUT_BUF => w = e

(***************************************************************************)
(* No reader sleeps over input: wakeup was called for it, whichever of two *)
(* readers took what.                                                      *)
(***************************************************************************)
SleepersWait == \A p \in Procs : pc[p] = "asleep" => r = w

(***************************************************************************)
(* console.c: "Save ^D for next time, to make sure caller gets a 0-byte    *)
(* result": only a read that returns nothing takes a ^D.                   *)
(***************************************************************************)
EofIsEmptyRead == [][\A p \in Procs :
  (pc[p] = "loop" /\ r' # r /\ buf[r % INPUT_BUF] = "^D") => (lock = p => got[p] = <<>>)]_vars
=============================================================================
