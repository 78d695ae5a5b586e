---------------------------- MODULE KeeCodecProofs ----------------------------
(***************************************************************************)
(* What an int is after it was written into an entry and read again, for   *)
(* bytes of any even number of values.                                     *)
(***************************************************************************)
EXTENDS KeeCodec, SequenceTheorems, TLAPS

-----------------------------------------------------------------------------
(* Quotients. *)
LEMMA Products ==
  ASSUME NEW a \in Nat, NEW b \in Nat, NEW c \in Nat, b <= c
  PROVE  a * b \in Nat /\ a * b <= a * c /\ a * c \in Nat
OBVIOUS

LEMMA Division ==
  ASSUME NEW a \in Nat, NEW b \in Nat, b > 0
  PROVE  /\ a \div b \in Nat /\ a % b \in 0 .. b - 1
         /\ a = b * (a \div b) + (a % b)
OBVIOUS

LEMMA DivisionUnique ==
  ASSUME NEW b \in Nat, NEW q \in Nat, NEW r \in 0 .. b - 1,
         NEW p \in Nat, NEW s \in 0 .. b - 1, b * q + r = b * p + s
  PROVE  q = p
<1>1. CASE q < p
  <2>1. b * (q + 1) <= b * p
    BY <1>1, Products
  <2>2. b * (q + 1) = b * q + b
    OBVIOUS
  <2>3. b * q \in Nat /\ b * p \in Nat
    OBVIOUS
  <2> QED
    BY <2>1, <2>2, <2>3
<1>2. CASE p < q
  <2>1. b * (p + 1) <= b * q
    BY <1>2, Products
  <2>2. b * (p + 1) = b * p + b
    OBVIOUS
  <2>3. b * q \in Nat /\ b * p \in Nat
    OBVIOUS
  <2> QED
    BY <2>1, <2>2, <2>3
<1> QED
  BY <1>1, <1>2

LEMMA DivisionTwice ==
  ASSUME NEW a \in Nat, NEW b \in Nat, NEW c \in Nat, b > 0, c > 0
  PROVE  a \div (b * c) = (a \div b) \div c
<1> DEFINE q == a \div b
           r == a % b
           p == q \div c
           s == q % c
           rest == b * s + r
<1>1. q \in Nat /\ r \in 0 .. b - 1 /\ a = b * q + r
  BY Division
<1>2. p \in Nat /\ s \in 0 .. c - 1 /\ q = c * p + s
  BY <1>1, Division
<1>3. b * c \in Nat /\ b * c > 0
  OBVIOUS
<1> HIDE DEF q, r, p, s
<1>4. b * (s + 1) <= b * c /\ b * (s + 1) = b * s + b /\ b * s \in Nat
  BY <1>2, Products
<1> HIDE DEF rest
<1>5. rest \in 0 .. b * c - 1
  BY <1>1, <1>3, <1>4 DEF rest
<1>6. a = (b * c) * p + rest
  <2>1. b * q = b * (c * p) + b * s
    BY <1>2
  <2>2. b * (c * p) = (b * c) * p
    BY <1>2
  <2>3. b * q \in Nat /\ (b * c) * p \in Nat
    BY <1>1, <1>2
  <2> QED
    BY <1>1, <1>4, <2>1, <2>2, <2>3 DEF rest
<1> DEFINE p2 == a \div (b * c)
           s2 == a % (b * c)
<1>7. p2 \in Nat /\ s2 \in 0 .. b * c - 1 /\ a = (b * c) * p2 + s2
  BY <1>3, Division
<1> HIDE DEF p2, s2
<1>8. p2 = p
  BY <1>2, <1>3, <1>5, <1>6, <1>7, DivisionUnique
<1> QED
  BY <1>8 DEF p2, p, q

-----------------------------------------------------------------------------
(* Dropping the leading bytes that say nothing, and filling them in again. *)
LEMMA StrapMinimal ==
  ASSUME NEW bytes \in Seq(Int), Len(bytes) = 4
  PROVE  strap_be(minimal(bytes)) = [i \in 1 .. 4 |-> bytes[i]]
<1> DEFINE least(n) == superfluous(bytes, n) /\ \A m \in n + 1 .. 3 : ~superfluous(bytes, m)
           k == CHOOSE n \in 0 .. 3 : least(n)
           in == SubSeq(bytes, k + 1, 4)
<1>1. superfluous(bytes, 0)
  BY DEF superfluous
<1>2. \E n \in 0 .. 3 : least(n)
  <2>1. CASE superfluous(bytes, 3)
    BY <2>1
  <2>2. CASE superfluous(bytes, 2) /\ ~superfluous(bytes, 3)
    <3>1. \A m \in 2 + 1 .. 3 : m = 3
      OBVIOUS
    <3> HIDE DEF superfluous
    <3> QED
      BY <2>2, <3>1
  <2>3. CASE superfluous(bytes, 1) /\ ~superfluous(bytes, 2) /\ ~superfluous(bytes, 3)
    <3>1. \A m \in 1 + 1 .. 3 : m = 2 \/ m = 3
      OBVIOUS
    <3> QED
      BY <2>3, <3>1
  <2>4. CASE ~superfluous(bytes, 1) /\ ~superfluous(bytes, 2) /\ ~superfluous(bytes, 3)
    <3>1. \A m \in 0 + 1 .. 3 : m = 1 \/ m = 2 \/ m = 3
      OBVIOUS
    <3> QED
      BY <1>1, <2>4, <3>1
  <2> QED
    BY <2>1, <2>2, <2>3, <2>4
<1>3. k \in 0 .. 3 /\ superfluous(bytes, k)
  <2> HIDE DEF least
  <2>1. k \in 0 .. 3 /\ least(k)
    BY <1>2
  <2> QED
    BY <2>1 DEF least
<1>4. minimal(bytes) = in
  BY DEF minimal
<1> HIDE DEF k
<1>5. Len(in) = 4 - k /\ \A i \in 1 .. 4 - k : in[i] = bytes[k + i]
  <2>1. k + 1 \in Int /\ k + 1 <= 4 /\ \A i \in k + 1 .. 4 : bytes[i] \in Int
    <3>1. k + 1 \in Int /\ k + 1 <= 4 /\ \A i \in k + 1 .. 4 : i \in 1 .. Len(bytes)
      BY <1>3
    <3>2. \A i \in 1 .. Len(bytes) : bytes[i] \in Int
      BY ElementOfSeq
    <3> QED
      BY <3>1, <3>2
  <2>2. /\ Len(in) = 4 - (k + 1) + 1
        /\ \A i \in 1 .. 4 - (k + 1) + 1 : in[i] = bytes[k + 1 + i - 1]
    BY <2>1, SubSeqProperties
  <2>3. 4 - (k + 1) + 1 = 4 - k /\ \A i \in 1 .. 4 - k : k + 1 + i - 1 = k + i
    BY <1>3
  <2> HIDE DEF in
  <2> QED
    BY <2>2, <2>3
<1> HIDE DEF in
<1>6. strap_be(in) = [i \in 1 .. 4 |-> IF i > k THEN in[i - k] ELSE filler(in[1])]
  BY <1>3, <1>5 DEF strap_be
<1>7. ASSUME NEW i \in 1 .. 4
      PROVE  (IF i > k THEN in[i - k] ELSE filler(in[1])) = bytes[i]
  <2>1. CASE i > k
    <3>1. i - k \in 1 .. 4 - k /\ k + (i - k) = i
      BY <1>3, <2>1
    <3> QED
      BY <1>5, <2>1, <3>1
  <2>2. CASE ~(i > k)
    <3>1. 1 \in 1 .. 4 - k /\ i \in 1 .. k
      BY <1>3, <2>2
    <3>2. in[1] = bytes[k + 1]
      BY <1>5, <3>1
    <3> QED
      BY <1>3, <2>2, <3>1, <3>2 DEF superfluous
  <2> QED
    BY <2>1, <2>2
<1> QED
  BY <1>4, <1>6, <1>7

(* Bytes, halves and words. *)
LEMMA Words ==
  /\ Base \in Nat /\ Base > 0 /\ Base \div 2 \in Nat /\ Base = 2 * (Base \div 2)
  /\ Base * Base \in Nat /\ Base * Base > 0
  /\ Base * Base * Base \in Nat /\ Base * Base * Base > 0
  /\ Word \in Nat /\ Word = Base * (Base * Base * Base)
  /\ Word \div 2 = (Base \div 2) * (Base * Base * Base)
  /\ Word = 2 * (Word \div 2)
<1> DEFINE H == Base \div 2
           C == Base * Base * Base
<1>1. Base \in Nat /\ Base > 0 /\ H \in Nat /\ Base = 2 * H
  <2>1. Base = 2 * H + (Base % 2) /\ H \in Nat
    BY CodecAssumption, Division
  <2> QED
    BY <2>1, CodecAssumption
<1>2. Base * Base \in Nat /\ Base * Base > 0
  BY <1>1
<1>3. C \in Nat /\ C > 0
  BY <1>1, <1>2
<1>4. Word = C * Base
  BY DEF Word
<1> HIDE DEF C, H
<1>5. Word = Base * C /\ Word \in Nat
  BY <1>1, <1>3, <1>4
<1>6. Word = 2 * (H * C) /\ H * C \in Nat
  BY <1>1, <1>3, <1>5
<1>7. Word \div 2 = H * C
  <2>1. Word \div 2 \in Nat /\ Word % 2 \in 0 .. 2 - 1
        /\ Word = 2 * (Word \div 2) + (Word % 2)
    BY <1>5, Division
  <2>2. 2 * (Word \div 2) + (Word % 2) = 2 * (H * C) + 0
    BY <1>6, <2>1
  <2> QED
    BY <1>6, <2>1, <2>2, DivisionUnique
<1> QED
  BY <1>1, <1>2, <1>3, <1>5, <1>6, <1>7 DEF C, H

(* Four bytes hold what is not negative and less than a word; the first of *)
(* them is negative if that is in the upper half.                          *)
LEMMA Bytes ==
  ASSUME NEW u \in 0 .. Word - 1,
         NEW d1, d1 = u \div (Base * Base * Base),
         NEW d2, d2 = (u \div (Base * Base)) % Base,
         NEW d3, d3 = (u \div Base) % Base,
         NEW d4, d4 = u % Base
  PROVE  /\ d1 \in Nat /\ d2 \in Nat /\ d3 \in Nat /\ d4 \in Nat
         /\ ((d1 * Base + d2) * Base + d3) * Base + d4 = u
         /\ negative(d1) <=> u >= Word \div 2
<1> DEFINE H == Base \div 2
           C == Base * Base * Base
           u1 == u \div Base
           u2 == u1 \div Base
           u3 == u2 \div Base
<1>1. u \in Nat /\ Base \in Nat /\ Base > 0
  BY Words
<1>2. u1 \in Nat /\ u2 \in Nat /\ u3 \in Nat
  BY <1>1, Division
<1>3. u \div (Base * Base) = u2 /\ u \div (Base * Base * Base) = u3
  <2>1. u \div (Base * Base) = u2
    BY <1>1, DivisionTwice
  <2>2. u \div ((Base * Base) * Base) = (u \div (Base * Base)) \div Base
    BY <1>1, Words, DivisionTwice
  <2> QED
    BY <2>1, <2>2
<1> HIDE DEF u3, u2, u1
<1>4. d1 = u3 /\ d2 = u2 % Base /\ d3 = u1 % Base /\ d4 = u % Base
  BY <1>3 DEF u1
<1>5. /\ d2 \in Nat /\ d3 \in Nat /\ d4 \in Nat /\ d1 \in Nat
      /\ u = Base * u1 + d4 /\ u1 = Base * u2 + d3 /\ u2 = Base * u3 + d2
  BY <1>1, <1>2, <1>4, Division DEF u1, u2, u3
<1>6. d1 * Base + d2 = u2 /\ u2 * Base + d3 = u1 /\ u1 * Base + d4 = u
  BY <1>1, <1>2, <1>4, <1>5
<1>7. negative(d1) <=> u >= Word \div 2
  <2>1. /\ C \in Nat /\ C > 0 /\ H \in Nat /\ Word \div 2 = H * C
    BY Words
  <2>2. u % C \in 0 .. C - 1 /\ u = C * d1 + (u % C)
    BY <1>1, <2>1, Division
  <2> DEFINE r == u % C
  <2> HIDE DEF C, H, r
  <2>3. ASSUME d1 >= H
        PROVE  u >= Word \div 2
    <3>1. C * H <= C * d1 /\ C * H \in Nat /\ C * d1 \in Nat
      BY <1>5, <2>1, <2>3, Products
    <3>2. C * H = H * C
      BY <2>1
    <3> QED
      BY <2>1, <2>2, <3>1, <3>2 DEF r
  <2>4. ASSUME ~(d1 >= H)
        PROVE  ~(u >= Word \div 2)
    <3>1. d1 + 1 <= H
      BY <1>5, <2>1, <2>4
    <3>2. C * (d1 + 1) <= C * H /\ C * H \in Nat
      BY <1>5, <2>1, <3>1, Products
    <3>3. C * (d1 + 1) = C * d1 + C /\ C * d1 \in Nat /\ C * H = H * C
      BY <1>5, <2>1
    <3> QED
      BY <2>1, <2>2, <3>2, <3>3 DEF r
  <2> QED
    BY <2>3, <2>4 DEF negative, H
<1> QED
  BY <1>5, <1>6, <1>7

(* An item's delta is the same number after it was serialised and parsed,  *)
(* whatever its sign and however many leading bytes the encoding drops.    *)
THEOREM RoundTrip == \A v \in CInt : decoded(encoded(v)) = v
<1> SUFFICES ASSUME NEW v \in CInt PROVE decoded(encoded(v)) = v
  OBVIOUS
<1> DEFINE u == IF v < 0 THEN v + Word ELSE v
           d1 == u \div (Base * Base * Base)
           d2 == (u \div (Base * Base)) % Base
           d3 == (u \div Base) % Base
           d4 == u % Base
           bytes == <<d1, d2, d3, d4>>
<1>1. /\ v \in Int /\ u \in 0 .. Word - 1
      /\ v = IF u >= Word \div 2 THEN u - Word ELSE u
  BY Words DEF CInt
<1> HIDE DEF u
<1>2. /\ d1 \in Nat /\ d2 \in Nat /\ d3 \in Nat /\ d4 \in Nat
      /\ ((d1 * Base + d2) * Base + d3) * Base + d4 = u
      /\ negative(d1) <=> u >= Word \div 2
  <2> HIDE DEF d1, d2, d3, d4
  <2> QED
    BY <1>1, Bytes DEF d1, d2, d3, d4
<1>3. to_endian(v) = bytes
  BY DEF to_endian, u
<1> HIDE DEF d1, d2, d3, d4
<1>4. bytes \in Seq(Int) /\ Len(bytes) = 4
  BY <1>2
<1>5. decoded(encoded(v)) = from_endian([i \in 1 .. 4 |-> bytes[i]])
  BY <1>3, <1>4, StrapMinimal DEF decoded, encoded
<1> DEFINE b == [i \in 1 .. 4 |-> bytes[i]]
<1>6. b[1] = d1 /\ b[2] = d2 /\ b[3] = d3 /\ b[4] = d4
  OBVIOUS
<1> HIDE DEF b, bytes
<1>7. from_endian(b) = IF u >= Word \div 2 THEN u - Word ELSE u
  BY <1>2, <1>6 DEF from_endian
<1> QED
  BY <1>1, <1>5, <1>7 DEF b

(* What a balance is after any sum was cut to four bytes is an int, and    *)
(* the sum itself if that is one.                                          *)
THEOREM WrapIsInt ==
  \A n \in Int : wrap(n) \in CInt /\ (n \in CInt => wrap(n) = n)
<1> SUFFICES ASSUME NEW n \in Int
             PROVE  wrap(n) \in CInt /\ (n \in CInt => wrap(n) = n)
  OBVIOUS
<1> DEFINE half == Word \div 2
<1>1. Word \in Nat /\ half \in Nat /\ Word = 2 * half /\ Word > 0
  <2>1. Word > 0
    BY Words
  <2> QED
    BY <2>1, Words
<1>2. (n + half) % Word \in 0 .. Word - 1
  BY <1>1
<1>3. n \in CInt => n + half \in 0 .. Word - 1
  BY <1>1 DEF CInt
<1> HIDE DEF half
<1>4. n + half \in 0 .. Word - 1 => (n + half) % Word = n + half
  BY <1>1
<1> QED
  BY <1>1, <1>2, <1>3, <1>4 DEF wrap, CInt, half
=============================================================================
