-------------------------------- MODULE Grep --------------------------------
(* grep.c: the matcher of regular expressions and the loop that cuts a      *)
(* file into lines in a buffer of fixed size.  A character is a model value *)
(* or one of the four operators; a string is a sequence, and the NUL that   *)
(* ends it is the end of the sequence.                                      *)
EXTENDS Integers, Sequences, SequencesExt, FiniteSetsExt

CONSTANTS BUF,       \* sizeof(buf)
          Letters,   \* ordinary characters
          Patterns,  \* regular expressions tried
          Files      \* contents of the files searched

VARIABLES pattern, file, off, buf, out
vars == <<pattern, file, off, buf, out>>

NL == "\n"

\* The string from its i-th character on.
From(s, i) == SubSeq(s, i, Len(s))

RECURSIVE matchhere(_, _), matchstar(_, _, _)

\* matchstar: search for c*re at beginning of text.
matchstar(c, re, text) ==
  \/ matchhere(re, text)
  \/ text # <<>> /\ (text[1] = c \/ c = ".") /\ matchstar(c, re, Tail(text))

\* matchhere: search for re at beginning of text.
matchhere(re, text) ==
  IF re = <<>> THEN TRUE
  ELSE IF Len(re) > 1 /\ re[2] = "*" THEN matchstar(re[1], From(re, 3), text)
  ELSE IF re = <<"$">> THEN text = <<>>
  ELSE /\ text # <<>>
       /\ re[1] = "." \/ re[1] = text[1]
       /\ matchhere(Tail(re), Tail(text))

\* Mutant of match: the end of the text is not tried.
MatchNoEmpty(re, text) ==
  IF re # <<>> /\ re[1] = "^" THEN matchhere(Tail(re), text)
  ELSE \E i \in 1 .. Len(text) : matchhere(re, From(text, i))

match(re, text) ==
  IF re # <<>> /\ re[1] = "^" THEN matchhere(Tail(re), text)
  ELSE \E i \in 1 .. Len(text) + 1 : matchhere(re, From(text, i))

\* The places of the newlines in the buffer, and the lines that they end.
Newlines(s) == SetToSortSeq({i \in DOMAIN s : s[i] = NL}, <)
LinesOf(s) ==
  LET q == Newlines(s)
  IN  [k \in DOMAIN q |-> SubSeq(s, IF k = 1 THEN 1 ELSE q[k - 1] + 1, q[k] - 1)]

\* What follows the last newline moves to the front; without one all is lost.
Kept(s) == LET q == Newlines(s) IN IF q = <<>> THEN <<>> ELSE From(s, Last(q) + 1)

Init == /\ pattern = <<>> /\ file = <<>>
        /\ off = 0 /\ buf = <<>> /\ out = <<>>

\* main: the pattern and the file of the arguments.
main == /\ file = <<>>
        /\ pattern' \in Patterns
        /\ file' \in Files
        /\ UNCHANGED <<off, buf, out>>

\* One turn of grep's loop: read as much as fits, leaving room for the NUL,
\* match the complete lines and keep the rest.  A file's read is short only
\* at its end.
grep ==
  LET got  == SubSeq(file, off + 1, Min({Len(file), off + BUF - 1 - Len(buf)}))
      full == buf \o got
  IN  /\ got # <<>>
      /\ off' = off + Len(got)
      /\ out' = out \o SelectSeq(LinesOf(full), LAMBDA l : match(pattern, l))
      /\ buf' = Kept(full)
      /\ UNCHANGED <<pattern, file>>

Next == main \/ grep
Spec == Init /\ [][Next]_vars
-----------------------------------------------------------------------------
\* The strings that an expression without ^ and $ describes, up to a length.
RECURSIVE Language(_, _)
Of(c) == IF c = "." THEN Letters ELSE {c} \cap Letters
Language(re, n) ==
  IF re = <<>> THEN {<<>>}
  ELSE IF Len(re) > 1 /\ re[2] = "*"
  THEN {a \o b : a \in UNION {[1 .. k -> Of(re[1])] : k \in 0 .. n}, b \in Language(From(re, 3), n)}
  ELSE {<<a>> \o b : a \in Of(re[1]), b \in Language(Tail(re), n)}

Anchored(re) == re # <<>> /\ re[1] = "^"
Ending(re) == re # <<>> /\ Last(re) = "$"

\* A string matches when some part of it is in the language of the
\* expression: from its start if ^ leads, to its end if $ closes.
Matches(re, text) ==
  LET body == SubSeq(re, IF Anchored(re) THEN 2 ELSE 1, IF Ending(re) THEN Len(re) - 1 ELSE Len(re))
  IN  \E i \in 1 .. Len(text) + 1 : \E j \in i - 1 .. Len(text) :
        /\ Anchored(re) => i = 1
        /\ Ending(re) => j = Len(text)
        /\ SubSeq(text, i, j) \in Language(body, Len(text))

\* When the file has been read, grep has printed exactly its lines that match
\* the expression, in order, wherever the buffer's end cut them.  The lines of
\* the files fit in the buffer; a last line without newline is not a line.
GrepPrintsMatches ==
  off = Len(file) => out = SelectSeq(LinesOf(file), LAMBDA l : Matches(pattern, l))
=============================================================================
