------------------------------ MODULE Checksum ------------------------------
(***************************************************************************)
(* in_cksum(), the Internet checksum, which the packet tracer and the       *)
(* library of the remote copy share (Program 1/checksum.c, libcpe464), and  *)
(* the definition it should agree with.  A byte is a number below 256, a    *)
(* buffer a sequence of them; words are little-endian, as on the machines   *)
(* the programs were built for.                                             *)
(***************************************************************************)
EXTENDS Integers, Sequences

Byte == 0..255

\* The sum of a sequence of numbers, by halves, for TLC's stack is short: sum[n][i]
\* is that of the n after the first i.
Total(terms) ==
  LET sum[n \in 0..Len(terms)] ==
        [i \in Nat |->
           CASE n = 0 -> 0
             [] n = 1 -> terms[i + 1]
             [] OTHER -> sum[n \div 2][i] + sum[n - n \div 2][i + n \div 2]]
  IN  sum[Len(terms)][0]

\* The words at the even addresses, and an odd byte as the low half of a word: the
\* byte behind it is not read, although libcpe464/checksum.c:37-42 says that it is.
WordSum(bytes) ==
  Total([i \in 1..Len(bytes) |-> IF i % 2 = 1 THEN bytes[i] ELSE 256 * bytes[i]])

\* Mutant: an odd byte is left out.
InCksumEvenOnly(bytes) ==
  LET sum == WordSum(SubSeq(bytes, 1, 2 * (Len(bytes) \div 2)))
      once == (sum \div 65536) + (sum % 65536)
  IN  65535 - ((once + once \div 65536) % 65536)

\* The carries are added back twice, and the low 16 bits are inverted.
InCksum(bytes) ==
  LET sum == WordSum(bytes)
      once == (sum \div 65536) + (sum % 65536)
  IN  65535 - ((once + once \div 65536) % 65536)

(* The definition of RFC 1071: the words in network order, an odd byte      *)
(* padded, have the one's complement sum -0.                                *)
NetworkSum(bytes) ==
  Total([i \in 1..Len(bytes) |-> IF i % 2 = 1 THEN 256 * bytes[i] ELSE bytes[i]])

IsValidSum(bytes) == NetworkSum(bytes) > 0 /\ NetworkSum(bytes) % 65535 = 0

=============================================================================
