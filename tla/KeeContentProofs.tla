--------------------------- MODULE KeeContentProofs ---------------------------
(* Proofs about the content buffer (KeeContent). *)
EXTENDS KeeContent, TLAPS

USE DEF least, minus, NoMessage, Failed

-----------------------------------------------------------------------------
(* The count never exceeds the buffer, unless the file is empty.           *)
Small == message.length > 0 => mem_size <= Size

(* When the file and its subject do not fit together, then either nothing  *)
(* was read yet or so little is left that the subject is not reached.      *)
Full ==
  message.length > 0 /\ message.length + message.subject > Size
    => mem_size = Size \/ mem_size <= message.head + 1

IInv == TypeOK /\ Small /\ Full /\ FlagTells

(* What is known of the message of a state.                                *)
LEMMA MessageFacts ==
  ASSUME TypeOK
  PROVE  /\ message.length \in Nat /\ message.head \in Nat /\ message.subject \in Nat
         /\ 2 * message.length < Word
         /\ 1 <= message.subject /\ message.subject <= message.head
         /\ message.length = 0 \/ message.head + message.subject <= message.length
BY ContentAssumption DEF TypeOK

(* A resolution as its values: n letters of a subject found, k bytes read. *)
Resolved(n, k, c, left, fits) ==
  LET read == IF k = Failed THEN mem ELSE written(0, text(0, k), mem)
  IN  /\ flags' = resolved_flags(n, fits)
      /\ mem_size' = kept(left, n, fits)
      /\ subject' = IF fits THEN c ELSE subject
      /\ mem' = IF fits THEN written(c, text(message.head, n), read) ELSE read
      /\ outside' = (outside \/ k >= Size \/ (fits /\ c + n >= Size))
      /\ UNCHANGED <<message, file>>

(* The values of a resolution.  What is left after it is what was left     *)
(* before, less one byte fewer than was read.                              *)
LEMMA ResolveFacts ==
  ASSUME TypeOK, Resolve
  PROVE  \E n, k, c, left \in Nat : \E fits \in BOOLEAN :
           /\ Resolved(n, k, c, left, fits)
           /\ n <= message.subject
           /\ fits <=> subject_fits(n, left)
           /\ k = message.length /\ k > 0 => n = message.subject
           /\ k # message.length \/ k = 0 => n = 0 \/ n <= k - message.head
           /\ left < Word /\ c < Word
           /\ \/ /\ mem_size = 0 /\ k = Word - 1 /\ c = Word - 2 /\ left = 2
              \/ /\ mem_size > 0
                 /\ k = least(message.length, mem_size - 1)
                 /\ \/ k > 0 /\ c = k - 1 /\ left = mem_size - c
                    \/ k = 0 /\ c = Word - 1 /\ left = mem_size + 1
<1> DEFINE k == cadiz_resolve
           c == minus(k, 1)
           left == minus(mem_size, c)
<1>1. mem_size \in Nat /\ mem_size <= Most /\ Word \in Nat /\ Most \in Nat
      /\ Size \in Nat /\ 2 <= Size /\ Size <= Most /\ 2 * Most < Word
  BY ContentAssumption DEF TypeOK, Resolve
<1>2. /\ k \in Nat /\ c \in Nat /\ left \in Nat /\ left < Word /\ c < Word
      /\ \/ /\ mem_size = 0 /\ k = Word - 1 /\ c = Word - 2 /\ left = 2
         \/ /\ mem_size > 0
            /\ k = least(message.length, mem_size - 1)
            /\ \/ k > 0 /\ c = k - 1 /\ left = mem_size - c
               \/ k = 0 /\ c = Word - 1 /\ left = mem_size + 1
  <2>1. CASE mem_size = 0
    <3>1. room = Word - 1
      BY <1>1, <2>1 DEF room
    <3>2. k = Word - 1
      BY <1>1, <3>1 DEF cadiz_resolve
    <3> QED
      BY <1>1, <2>1, <3>2
  <2>2. CASE mem_size > 0
    <3>1. room = mem_size - 1 /\ 2 * room < Word
      BY <1>1, <2>2 DEF room
    <3>2. k = least(message.length, mem_size - 1)
      BY <3>1 DEF cadiz_resolve
    <3>3. k \in Nat /\ k <= mem_size - 1
      BY <1>1, <2>2, <3>2, MessageFacts
    <3> HIDE DEF k
    <3>4. CASE k = 0
      BY <1>1, <2>2, <3>2, <3>4
    <3>5. CASE k > 0
      BY <1>1, <2>2, <3>2, <3>3, <3>5
    <3> QED
      BY <3>3, <3>4, <3>5
  <2> QED
    BY <1>1, <2>1, <2>2
<1>3. PICK n \in parsed(k) : Resolved(n, k, c, left, subject_fits(n, left))
  BY DEF Resolve, Resolved
<1> HIDE DEF k, c, left
<1>4. /\ n \in Nat /\ n <= message.subject
      /\ k = message.length /\ k > 0 => n = message.subject
      /\ k # message.length \/ k = 0 => n = 0 \/ n <= k - message.head
  BY <1>2, <1>3, MessageFacts DEF parsed
<1>5. subject_fits(n, left) \in BOOLEAN
  BY DEF subject_fits
<1> QED
  BY <1>2, <1>3, <1>4, <1>5

-----------------------------------------------------------------------------
(* A string written to a place of the buffer can be read there.            *)
LEMMA WrittenReads ==
  ASSUME NEW at \in Nat, NEW n \in Nat, NEW p \in Nat, NEW buffer,
         at + n < Size, mem' = written(at, text(p, n), buffer), subject' = at
  PROVE  Reads(subject, text(p, n))'
<1>1. Size \in Nat /\ NULL \notin Int
  BY ContentAssumption
<1>2. DOMAIN text(p, n) = 0 .. n
  BY DEF text
<1>3. ASSUME NEW j \in 0 .. n
      PROVE  at + j \in 0 .. Size - 1 /\ mem'[at + j] = text(p, n)[j]
  <2>1. at + j \in 0 .. Size - 1 /\ at <= at + j /\ (at + j) - at = j
    BY <1>1
  <2> QED
    BY <1>2, <2>1 DEF written
<1>4. subject' # NULL
  BY <1>1
<1>5. text(p, n)' = text(p, n)
  BY DEF text
<1> QED
  BY <1>2, <1>3, <1>4, <1>5 DEF Reads

(* Writing keeps the buffer a buffer.                                      *)
LEMMA WrittenType ==
  ASSUME NEW at \in Nat, NEW n \in Nat, NEW p \in Nat,
         NEW buffer \in [0 .. Size - 1 -> Byte]
  PROVE  written(at, text(p, n), buffer) \in [0 .. Size - 1 -> Byte]
<1>1. \A j \in 0 .. n : text(p, n)[j] \in Byte
  BY DEF text, Byte
<1>2. DOMAIN text(p, n) = 0 .. n
  BY DEF text
<1>3. ASSUME NEW i \in 0 .. Size - 1
      PROVE  (IF at <= i /\ i - at \in DOMAIN text(p, n) THEN text(p, n)[i - at] ELSE buffer[i])
               \in Byte
  BY <1>1, <1>2
<1> QED
  BY <1>3 DEF written

-----------------------------------------------------------------------------
LEMMA InitInv == ASSUME Init PROVE IInv
<1>1. TypeOK
  <2>1. mem_size \in 0 .. Word - 1
    BY ContentAssumption DEF Init
  <2>2. mem \in [0 .. Size - 1 -> Byte]
    BY DEF Init, Byte
  <2> QED
    BY <2>1, <2>2 DEF Init, TypeOK, Flags
<1>2. Small /\ Full
  BY ContentAssumption DEF Init, Small, Full
<1>3. FlagTells
  BY DEF Init, FlagTells
<1> QED
  BY <1>1, <1>2, <1>3 DEF IInv

LEMMA ResolveInv == ASSUME IInv, Resolve PROVE IInv'
<1>1. PICK n, k, c, left \in Nat : \E fits \in BOOLEAN :
           /\ Resolved(n, k, c, left, fits)
           /\ n <= message.subject
           /\ fits <=> subject_fits(n, left)
           /\ k = message.length /\ k > 0 => n = message.subject
           /\ k # message.length \/ k = 0 => n = 0 \/ n <= k - message.head
           /\ left < Word /\ c < Word
           /\ \/ /\ mem_size = 0 /\ k = Word - 1 /\ c = Word - 2 /\ left = 2
              \/ /\ mem_size > 0
                 /\ k = least(message.length, mem_size - 1)
                 /\ \/ k > 0 /\ c = k - 1 /\ left = mem_size - c
                    \/ k = 0 /\ c = Word - 1 /\ left = mem_size + 1
  BY ResolveFacts DEF IInv
<1>2. PICK fits \in BOOLEAN :
           /\ Resolved(n, k, c, left, fits)
           /\ n <= message.subject
           /\ fits <=> subject_fits(n, left)
           /\ k = message.length /\ k > 0 => n = message.subject
           /\ k # message.length \/ k = 0 => n = 0 \/ n <= k - message.head
           /\ left < Word /\ c < Word
           /\ \/ /\ mem_size = 0 /\ k = Word - 1 /\ c = Word - 2 /\ left = 2
              \/ /\ mem_size > 0
                 /\ k = least(message.length, mem_size - 1)
                 /\ \/ k > 0 /\ c = k - 1 /\ left = mem_size - c
                    \/ k = 0 /\ c = Word - 1 /\ left = mem_size + 1
  BY <1>1
<1>3. /\ mem_size \in Nat /\ Word \in Nat /\ Size \in Nat /\ Most \in Nat
      /\ mem_size <= Most /\ 2 <= Size /\ Size <= Most /\ 2 * Most < Word
  BY ContentAssumption DEF Resolve, IInv, TypeOK
<1>4. UNCHANGED <<message, file>>
  BY <1>2 DEF Resolved
<1>5. fits <=> n # 0 /\ n + 1 <= left
  BY <1>2 DEF subject_fits
<1>6. mem_size' = IF fits THEN left - (n + 1) ELSE left
  BY <1>2 DEF Resolved, kept
<1>7. TypeOK'
  <2>1. mem_size' \in 0 .. Word - 1
    BY <1>1, <1>2, <1>3, <1>5, <1>6
  <2>2. subject' \in (0 .. Word - 1) \cup {NULL}
    BY <1>1, <1>2, <1>3 DEF Resolved, IInv, TypeOK
  <2>3. flags' \in SUBSET Flags
    BY <1>2 DEF Resolved, resolved_flags, Flags
  <2>4. outside' \in BOOLEAN
    BY <1>2 DEF Resolved
  <2>5. mem' \in [0 .. Size - 1 -> Byte]
    <3> DEFINE read == IF k = Failed THEN mem ELSE written(0, text(0, k), mem)
    <3>1. mem \in [0 .. Size - 1 -> Byte] /\ message.head \in Nat
      BY MessageFacts DEF IInv, TypeOK
    <3>2. read \in [0 .. Size - 1 -> Byte]
      BY <3>1, <1>1, WrittenType
    <3>3. mem' = IF fits THEN written(c, text(message.head, n), read) ELSE read
      BY <1>2 DEF Resolved
    <3> HIDE DEF read
    <3> QED
      BY <3>1, <3>2, <3>3, <1>1, WrittenType
  <2> QED
    BY <1>4, <2>1, <2>2, <2>3, <2>4, <2>5 DEF IInv, TypeOK
<1>8. Small'
  <2> SUFFICES ASSUME message.length > 0 PROVE mem_size' <= Size
    BY <1>4 DEF Small
  <2>1. left <= Size
    BY <1>1, <1>2, <1>3 DEF IInv, Small
  <2> QED
    BY <2>1, <1>1, <1>3, <1>6
<1>9. Full'
  <2> SUFFICES ASSUME message.length > 0, message.length + message.subject > Size
               PROVE  mem_size' <= message.head + 1
    BY <1>4 DEF Full
  <2>1. /\ message.length \in Nat /\ message.head \in Nat /\ message.subject \in Nat
        /\ 1 <= message.subject /\ message.subject <= message.head
        /\ message.head + message.subject <= message.length
    BY MessageFacts DEF IInv
  <2>2. mem_size = Size \/ mem_size <= message.head + 1
    BY DEF IInv, Full
  <2>3. CASE mem_size = Size /\ message.length < Size
    BY <2>1, <2>3, <1>1, <1>2, <1>3, <1>5, <1>6
  <2>4. CASE mem_size = Size /\ message.length >= Size
    BY <2>1, <2>4, <1>1, <1>2, <1>3, <1>6
  <2>5. CASE mem_size <= message.head + 1
    BY <2>1, <2>5, <1>1, <1>2, <1>3, <1>6
  <2> QED
    BY <2>1, <2>2, <2>3, <2>4, <2>5, <1>3
<1>10. FlagTells'
  <2> SUFFICES ASSUME "SUBJECT" \in flags', ~outside'
               PROVE  \E m \in 1 .. message.subject : Reads(subject, text(message.head, m))'
    BY <1>4 DEF FlagTells
  <2>1. fits
    BY <1>2 DEF Resolved, resolved_flags
  <2>2. c + n < Size
    <3>1. ~(c + n >= Size)
      BY <2>1, <1>2 DEF Resolved
    <3> QED
      BY <3>1, <1>1, <1>3
  <2>3. message.head \in Nat /\ n \in 1 .. message.subject
    BY <2>1, <1>1, <1>2, <1>5, MessageFacts DEF IInv
  <2>4. subject' = c /\ \E read : mem' = written(c, text(message.head, n), read)
    BY <2>1, <1>2 DEF Resolved
  <2>5. Reads(subject, text(message.head, n))'
    BY <2>2, <2>3, <2>4, <1>1, <1>4, WrittenReads
  <2> QED
    BY <2>3, <2>5
<1> QED
  BY <1>7, <1>8, <1>9, <1>10 DEF IInv

LEMMA OtherInv ==
  ASSUME IInv, Miss \/ Change \/ UNCHANGED vars
  PROVE  IInv'
<1>1. UNCHANGED <<message, mem_size, mem, subject, outside>>
  BY DEF Miss, Change, vars
<1>2. TypeOK'
  BY <1>1 DEF IInv, TypeOK, Miss, Change, vars, Flags
<1>3. Small' /\ Full'
  BY <1>1 DEF IInv, Small, Full
<1>4. "SUBJECT" \in flags' => "SUBJECT" \in flags
  BY DEF Miss, Change, vars
<1>5. FlagTells'
  BY <1>1, <1>4 DEF IInv, FlagTells, Reads, text
<1> QED
  BY <1>2, <1>3, <1>5 DEF IInv

(* The buffer, its count and its flags agree in every reachable state.     *)
THEOREM ContentInvariance == Spec => []IInv
<1>1. Init => IInv
  BY InitInv
<1>2. IInv /\ [Next]_vars => IInv'
  BY ResolveInv, OtherInv DEF Next
<1> QED
  BY <1>1, <1>2, PTL DEF Spec

(* Every variable keeps its type: the count wraps only where the code      *)
(* lets it.                                                                *)
THEOREM ContentTypeCorrect == Spec => []TypeOK
<1>1. IInv => TypeOK
  BY DEF IInv
<1> QED
  BY <1>1, ContentInvariance, PTL

(* A subject that is flagged is one, whatever resolutions came before.     *)
THEOREM FlagSafe == Spec => []FlagTells
<1>1. IInv => FlagTells
  BY DEF IInv
<1> QED
  BY <1>1, ContentInvariance, PTL

-----------------------------------------------------------------------------
(* With something left, nothing but the buffer is written to.              *)
LEMMA InsideStep ==
  ASSUME IInv, [Next]_vars, 0 < mem_size
  PROVE  outside' = outside
<1>1. CASE Resolve
  <2>1. PICK n, k, c, left \in Nat : \E fits \in BOOLEAN :
           /\ Resolved(n, k, c, left, fits)
           /\ n <= message.subject
           /\ fits <=> subject_fits(n, left)
           /\ k = message.length /\ k > 0 => n = message.subject
           /\ k # message.length \/ k = 0 => n = 0 \/ n <= k - message.head
           /\ left < Word /\ c < Word
           /\ \/ /\ mem_size = 0 /\ k = Word - 1 /\ c = Word - 2 /\ left = 2
              \/ /\ mem_size > 0
                 /\ k = least(message.length, mem_size - 1)
                 /\ \/ k > 0 /\ c = k - 1 /\ left = mem_size - c
                    \/ k = 0 /\ c = Word - 1 /\ left = mem_size + 1
    BY <1>1, ResolveFacts DEF IInv
  <2>2. PICK fits \in BOOLEAN :
           /\ Resolved(n, k, c, left, fits)
           /\ fits <=> n # 0 /\ n + 1 <= left
    BY <2>1 DEF subject_fits
  <2>3. /\ mem_size \in Nat /\ Size \in Nat /\ 2 <= Size
        /\ message.length \in Nat /\ message.head \in Nat /\ message.subject \in Nat
        /\ 1 <= message.subject /\ message.subject <= message.head
        /\ message.length = 0 \/ message.head + message.subject <= message.length
    BY MessageFacts, ContentAssumption DEF IInv, TypeOK
  <2>4. k < Size /\ (fits => c + n < Size)
    <3>1. CASE k = 0
      BY <2>1, <2>2, <2>3, <3>1
    <3>2. CASE k > 0 /\ message.length + message.subject <= Size
      BY <2>1, <2>2, <2>3, <3>2
    <3>3. CASE k > 0 /\ message.length + message.subject > Size
      <4>1. message.length > 0 /\ (mem_size = Size \/ mem_size <= message.head + 1)
        BY <2>1, <2>3, <3>3 DEF IInv, Full
      <4>2. k < Size /\ c = k - 1 /\ left = mem_size - c
        BY <2>1, <2>3, <3>3, <4>1 DEF IInv, Small
      <4>3. CASE mem_size = Size
        BY <2>1, <2>2, <2>3, <4>2, <4>3
      <4>4. CASE mem_size <= message.head + 1
        BY <2>1, <2>2, <2>3, <4>1, <4>2, <4>4
      <4> QED
        BY <4>1, <4>3, <4>4
    <3> QED
      BY <2>1, <2>3, <3>1, <3>2, <3>3
  <2> QED
    BY <2>1, <2>2, <2>3, <2>4 DEF Resolved, IInv, TypeOK
<1>2. CASE Miss \/ Change \/ UNCHANGED vars
  BY <1>2 DEF Miss, Change, vars
<1> QED
  BY <1>1, <1>2 DEF Next

(* However often a content is resolved and whatever its file's length, it  *)
(* writes outside of its buffer only when its count has come to zero.      *)
THEOREM InsideSafe == Spec => InsideWhileRoom
<1>1. IInv /\ [Next]_vars => [0 < mem_size => outside' = outside]_vars
  BY InsideStep
<1> QED
  BY <1>1, ContentInvariance, PTL DEF Spec, InsideWhileRoom

(* With room for the file and the subject, a resolution shows both.        *)
LEMMA WholeStep ==
  ASSUME IInv, Resolve, 0 < message.length, message.length + message.subject <= mem_size
  PROVE  WholeShown'
<1>1. PICK n, k, c, left \in Nat : \E fits \in BOOLEAN :
           /\ Resolved(n, k, c, left, fits)
           /\ n <= message.subject
           /\ fits <=> subject_fits(n, left)
           /\ k = message.length /\ k > 0 => n = message.subject
           /\ k # message.length \/ k = 0 => n = 0 \/ n <= k - message.head
           /\ left < Word /\ c < Word
           /\ \/ /\ mem_size = 0 /\ k = Word - 1 /\ c = Word - 2 /\ left = 2
              \/ /\ mem_size > 0
                 /\ k = least(message.length, mem_size - 1)
                 /\ \/ k > 0 /\ c = k - 1 /\ left = mem_size - c
                    \/ k = 0 /\ c = Word - 1 /\ left = mem_size + 1
  BY ResolveFacts DEF IInv
<1>2. PICK fits \in BOOLEAN :
           /\ Resolved(n, k, c, left, fits)
           /\ fits <=> n # 0 /\ n + 1 <= left
  BY <1>1 DEF subject_fits
<1>3. /\ mem_size \in Nat /\ Size \in Nat /\ mem_size <= Size
      /\ message.length \in Nat /\ message.head \in Nat /\ message.subject \in Nat
      /\ 1 <= message.subject
  BY MessageFacts, ContentAssumption DEF IInv, TypeOK, Small
<1>4. k = message.length /\ n = message.subject /\ c = k - 1 /\ fits
  BY <1>1, <1>2, <1>3
<1>5. c + n < Size
  BY <1>1, <1>3, <1>4
<1>6. subject' = c /\ \E read : mem' = written(c, text(message.head, n), read)
  BY <1>2, <1>4 DEF Resolved
<1>7. Reads(subject, text(message.head, n))'
  BY <1>1, <1>2, <1>3, <1>5, <1>6, WrittenReads DEF Resolved
<1>8. flags' = Flags
  BY <1>2, <1>3, <1>4 DEF Resolved, resolved_flags, Flags
<1> QED
  BY <1>2, <1>4, <1>7, <1>8 DEF WholeShown, Resolved

(* A resolution that has room for all shows all.                           *)
THEOREM WholeSafe == Spec => WholeWhileRoom
<1>1. IInv /\ [Next]_vars =>
        [Resolve /\ 0 < message.length /\ message.length + message.subject <= mem_size
           => WholeShown']_vars
  BY WholeStep
<1> QED
  BY <1>1, ContentInvariance, PTL DEF Spec, WholeWhileRoom
=============================================================================
