------------------------------ MODULE NetUtils ------------------------------
(* The pure functions of netutils.c (and the copy of inet_addr in unet.c):  *)
(* byte order, dotted addresses and the Internet checksum, on a machine     *)
(* that stores the low byte of a word first.  BYTE is the number of values  *)
(* of a byte; `in' is the input that is being tried.                        *)
EXTENDS Integers, Sequences, SequencesExt, FiniteSetsExt

CONSTANTS BYTE,      \* values of a byte: 256 in the code
          Segments,  \* byte sequences that are summed
          Starts,    \* sums over the pseudo header that checksum begins with
          Octets     \* the four bytes of the addresses that are parsed

VARIABLE in
vars == <<in>>

Bytes == 0 .. BYTE - 1
WORD == BYTE * BYTE

\* Byte i of n, the lowest first: n as it lies in memory.
ByteOf(n, i) == (n \div BYTE ^ i) % BYTE
InMemory(n, bytes) == [i \in 1 .. bytes |-> ByteOf(n, i - 1)]

\* htons (bytes = 2) and htonl (bytes = 4): a |= b << (8 * (bytes - i - 1)).
Hton(n, bytes) ==
  MapThenSumSet(LAMBDA i : ByteOf(n, i) * BYTE ^ (bytes - i - 1), 0 .. bytes - 1)

\* Characters are their digits; the dot is no digit.
Dot == -1

\* One character of inet_addr's loop; a dot shifts the finished byte into ip.
Shifted(acc) == [ip |-> (acc.ip * BYTE + acc.byte) % BYTE ^ 4, byte |-> 0]
Parsed(acc, c) == IF c = Dot THEN Shifted(acc) ELSE [acc EXCEPT !.byte = @ * 10 + c]
inet_addr(str) == Shifted(FoldLeft(Parsed, [ip |-> 0, byte |-> 0], str)).ip

\* Mutant of Fold: the carries are dropped.
FoldNone(sum) == sum

\* sum = (sum >> 16) + (sum & 0xffff)
Fold(sum) == (sum \div WORD) + (sum % WORD)

\* The words of data; a last odd byte stands alone, as if a zero followed it.
Word(data, i) == data[2 * i - 1] + (IF 2 * i <= Len(data) THEN BYTE * data[2 * i] ELSE 0)
Words(data) == [i \in 1 .. (Len(data) + 1) \div 2 |-> Word(data, i)]

checksum(data, start) ==
  WORD - 1 - (FoldLeft(LAMBDA sum, w : Fold(sum + w), start, Words(data)) % WORD)

\* tcp_pack, ip_send and icmp_send_*: the sum is taken with a zero in the
\* header's field, here the first two bytes, and then stored there.
Sealed(data, start) == InMemory(checksum(<<0, 0>> \o data, start), 2) \o data
-----------------------------------------------------------------------------
\* Decimal digits of a number below 100, as a user types them.
Decimal(n) == IF n < 10 THEN <<n>> ELSE <<n \div 10, n % 10>>
Dotted(o) == Decimal(o[1]) \o <<Dot>> \o Decimal(o[2]) \o <<Dot>> \o
             Decimal(o[3]) \o <<Dot>> \o Decimal(o[4])

NoInput == [data |-> <<>>, start |-> 0, octets |-> <<0, 0, 0, 0>>]

Init == in = NoInput

Next == /\ in = NoInput
        /\ \/ \E d \in Segments, s \in Starts : in' = [NoInput EXCEPT !.data = d, !.start = s]
           \/ \E o \in Octets : in' = [NoInput EXCEPT !.octets = o]
Spec == Init /\ [][Next]_vars

\* What a sender seals, tcp_receive and ip_receive accept (tcp.c:27, ip.c:32),
\* for odd lengths and pseudo-header sums of more than 16 bits too; so does
\* any host that adds in ones' complement, where all ones is zero; and if
\* exactly one byte changes on the way they refuse it.
ChecksumVerifies ==
  LET pkt == Sealed(in.data, in.start)
      sum == FoldLeft(LAMBDA a, b : a + b, in.start, Words(pkt))
  IN  /\ checksum(pkt, in.start) = 0
      /\ sum % (WORD - 1) = 0
      /\ \A i \in DOMAIN pkt : \A b \in Bytes \ {pkt[i]} :
           checksum([pkt EXCEPT ![i] = b], in.start) # 0

\* The address a user types lies in a packet as the four bytes in the order
\* typed, after inet_addr and the htonl of ip_send; htonl undoes itself, as
\* ip_receive relies on.
AddressOnWire ==
  LET ip == inet_addr(Dotted(in.octets))
  IN  /\ InMemory(Hton(ip, 4), 4) = in.octets
      /\ Hton(Hton(ip, 4), 4) = ip
=============================================================================
