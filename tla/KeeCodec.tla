------------------------------- MODULE KeeCodec -------------------------------
(***************************************************************************)
(* How an int of four bytes gets into an entry and out of it again.  It is *)
(* turned to big-endian order (endian.c), libtasn1 drops the leading bytes *)
(* that its sign makes superfluous, and the parser puts what it reads at   *)
(* the end of four bytes filled with the sign (strip.c).  A byte has Base  *)
(* values, so that four of them need not be too many to sum up.            *)
(***************************************************************************)
EXTENDS Integers, Sequences

CONSTANT Base

ASSUME CodecAssumption == Base \in Nat /\ Base >= 2 /\ Base % 2 = 0

Byte == 0 .. Base - 1

(* The number of ints, and the ints. *)
Word == Base * Base * Base * Base
CInt == -(Word \div 2) .. (Word \div 2) - 1

\* For the mutation check: balances have no width.
unbounded(n) == n

(* An int that was added to, as the machine adds. *)
wrap(n) == ((n + Word \div 2) % Word) - (Word \div 2)

negative(byte) == byte >= Base \div 2
filler(byte) == IF negative(byte) THEN Base - 1 ELSE 0

to_endian(v) ==
  LET u == IF v < 0 THEN v + Word ELSE v
  IN  <<u \div (Base * Base * Base), (u \div (Base * Base)) % Base,
        (u \div Base) % Base, u % Base>>

(* asn1_write_value: without the leading bytes that say nothing. *)
superfluous(bytes, k) == \A i \in 1 .. k : bytes[i] = filler(bytes[k + 1])
minimal(bytes) ==
  LET k == CHOOSE n \in 0 .. 3 :
             superfluous(bytes, n) /\ \A m \in n + 1 .. 3 : ~superfluous(bytes, m)
  IN  SubSeq(bytes, k + 1, 4)

\* For the mutation check: the sign is not filled in.
strap_be_zero(in) ==
  LET n == 4 - Len(in)
  IN  [i \in 1 .. 4 |-> IF i > n THEN in[i - n] ELSE 0]

strap_be(in) ==
  LET n == 4 - Len(in)
  IN  [i \in 1 .. 4 |-> IF i > n THEN in[i - n] ELSE filler(in[1])]

(* The int of four bytes in big-endian order. *)
from_endian(b) ==
  LET u == ((b[1] * Base + b[2]) * Base + b[3]) * Base + b[4]
  IN  IF negative(b[1]) THEN u - Word ELSE u

encoded(v) == minimal(to_endian(v))
decoded(in) == from_endian(strap_be(in))
=============================================================================
