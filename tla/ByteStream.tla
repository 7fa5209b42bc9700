---------------------------- MODULE ByteStream -----------------------------
(***************************************************************************)
(* What a TCP connection promises: the bytes handed over at one end arrive *)
(* at the other in order, without gaps, changes or repetitions.            *)
(***************************************************************************)
EXTENDS Naturals, Sequences

CONSTANT Byte

VARIABLES
  sent,      \* the bytes handed over, in order
  received   \* the bytes that arrived

vars == <<sent, received>>

Init == sent = <<>> /\ received = <<>>

\* t continues s.
Continues(s, t) == Len(s) <= Len(t) /\ \A k \in 1 .. Len(s) : s[k] = t[k]

Send == /\ sent' \in Seq(Byte)
        /\ Continues(sent, sent')
        /\ UNCHANGED received

Arrive == /\ received' \in Seq(Byte)
          /\ Continues(received, received')
          /\ Continues(received', sent)
          /\ UNCHANGED sent

Next == Send \/ Arrive

Spec == Init /\ [][Next]_vars
=============================================================================
