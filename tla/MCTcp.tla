------------------------------- MODULE MCTcp -------------------------------
(***************************************************************************)
(* Instance of TcpTransfer for TLC, with labelled bytes.  MSS is 2, so     *)
(* payloads of one, two and more bytes stand for payloads below MSS, an    *)
(* exact multiple of it, and several segments.                             *)
(***************************************************************************)
EXTENDS TcpTransfer

Bytes == {"a", "b", "c", "d", "e", "f"}

\* One write of two segments.
OneLong == <<<<"a", "b", "c">>>>
=============================================================================
