---------------------------- MODULE KeeChainProofs ----------------------------
(***************************************************************************)
(* What holds of the items of a ledger for any bytes, deltas, heads,       *)
(* seeds and bounds.                                                       *)
(***************************************************************************)
EXTENDS KeeChain, KeeCodecProofs, FiniteSetTheorems, TLAPS

-----------------------------------------------------------------------------
(* Induction, with the property as a set. *)
LEMMA LeastNat ==
  ASSUME NEW S \in SUBSET Nat, S # {}
  PROVE  \E m \in S : \A n \in S : m <= n
<1>1. PICK m \in S : \A n \in S : <<n, m>> \notin OpToRel(<, Nat)
  BY WFMin, NatLessThanWellFounded, Zenon
<1>2. \A n \in S : <<n, m>> \in Nat \X Nat
  OBVIOUS
<1>3. \A n \in S : ~(n < m)
  <2> SUFFICES ASSUME NEW n \in S, n < m PROVE FALSE
    OBVIOUS
  <2>1. <<n, m>>[1] < <<n, m>>[2]
    OBVIOUS
  <2> QED
    BY <1>1, <1>2, <2>1, Zenon DEF OpToRel
<1> QED
  BY <1>3

LEMMA UpTo ==
  ASSUME NEW N \in Nat, NEW S, 0 \in S, \A k \in 0 .. N - 1 : k \in S => k + 1 \in S
  PROVE  \A k \in 0 .. N : k \in S
<1> SUFFICES ASSUME NEW j \in 0 .. N, j \notin S PROVE FALSE
  OBVIOUS
<1>1. PICK m \in {k \in 0 .. N : k \notin S} : \A n \in {k \in 0 .. N : k \notin S} : m <= n
  <2> {k \in 0 .. N : k \notin S} \in SUBSET Nat /\ j \in {k \in 0 .. N : k \notin S}
    OBVIOUS
  <2> QED
    BY LeastNat
<1>2. m # 0 /\ m - 1 \in 0 .. N - 1 /\ m - 1 \in 0 .. N /\ (m - 1) + 1 = m /\ m - 1 < m
  BY <1>1
<1>3. m - 1 \in S
  BY <1>1, <1>2
<1> QED
  BY <1>1, <1>2, <1>3

-----------------------------------------------------------------------------
(* Folds.  The recursive function that a fold is made of exists. *)
IsChoice(choose, D) == \A s \in SUBSET D : s # {} => choose[s] \in s
IsStep(step, D, T) == step \in [D \X T -> T]
IsFold(g, D, T, base, choose, step) ==
  /\ g \in [SUBSET D -> T]
  /\ \A s \in SUBSET D :
       g[s] = IF s = {} THEN base ELSE step[<<choose[s], g[s \ {choose[s]}]>>]

LEMMA FoldExists ==
  ASSUME NEW D, IsFiniteSet(D), NEW T, NEW base, base \in T,
         NEW choose, IsChoice(choose, D), NEW step, IsStep(step, D, T)
  PROVE  \E g : IsFold(g, D, T, base, choose, step)
<1> DEFINE N == Cardinality(D)
           card == [s \in SUBSET D |-> Cardinality(s)]
           Small(k) == {s \in SUBSET D : card[s] <= k}
           Folds(g, k) == \A s \in Small(k) :
             g[s] = IF s = {} THEN base ELSE step[<<choose[s], g[s \ {choose[s]}]>>]
           Good == {k \in Nat : \E g \in [Small(k) -> T] : Folds(g, k)}
<1>1. N \in Nat
  BY FS_CardinalityType
<1>2. card \in [SUBSET D -> 0 .. N]
  <2>1. ASSUME NEW s \in SUBSET D PROVE Cardinality(s) \in 0 .. N
    BY <1>1, FS_Subset, FS_CardinalityType
  <2> QED
    BY <2>1
<1>3. \A s \in SUBSET D : s = {} <=> card[s] = 0
  <2>1. ASSUME NEW s \in SUBSET D PROVE s = {} <=> Cardinality(s) = 0
    BY FS_Subset, FS_EmptySet
  <2> QED
    BY <2>1
<1>4. ASSUME NEW s \in SUBSET D, s # {}
      PROVE  /\ s \ {choose[s]} \in SUBSET D /\ choose[s] \in D
             /\ card[s \ {choose[s]}] = card[s] - 1
  <2>1. Cardinality(s \ {choose[s]}) = Cardinality(s) - 1
    BY <1>4, FS_Subset, FS_RemoveElement DEF IsChoice
  <2> QED
    BY <1>4, <2>1 DEF IsChoice
<1> HIDE DEF N, card
<1>5. 0 \in Good
  <2> DEFINE g == [s \in Small(0) |-> base]
  <2>1. g \in [Small(0) -> T]
    OBVIOUS
  <2>2. ASSUME NEW s \in Small(0) PROVE s = {}
    <3>1. card[s] \in 0 .. N /\ card[s] <= 0
      BY <1>2
    <3> QED
      BY <1>1, <1>3, <3>1
  <2>3. Folds(g, 0)
    BY <2>2
  <2> QED
    BY <2>1, <2>3
<1>6. ASSUME NEW k \in 0 .. N - 1, k \in Good PROVE k + 1 \in Good
  <2>1. PICK f \in [Small(k) -> T] : Folds(f, k)
    BY <1>6
  <2> DEFINE g == [s \in Small(k + 1) |->
                     IF card[s] <= k THEN f[s]
                     ELSE step[<<choose[s], f[s \ {choose[s]}]>>]]
  <2>2. ASSUME NEW s \in Small(k + 1)
        PROVE  /\ s \in SUBSET D
               /\ s # {} => s \ {choose[s]} \in Small(k)
               /\ ~(card[s] <= k) => s # {}
    <3>1. card[s] \in 0 .. N /\ card[s] <= k + 1 /\ s \in SUBSET D
      BY <1>2
    <3>2. ASSUME s # {} PROVE s \ {choose[s]} \in SUBSET D /\ card[s \ {choose[s]}] <= k
      <4>1. s \ {choose[s]} \in SUBSET D /\ card[s \ {choose[s]}] = card[s] - 1
        BY <1>4, <3>1, <3>2
      <4> HIDE DEF Small
      <4> QED
        BY <1>1, <3>1, <4>1
    <3> QED
      BY <1>1, <1>3, <3>1, <3>2
  <2>3. ASSUME NEW s \in Small(k) PROVE s \in Small(k + 1) /\ g[s] = f[s]
    <3>1. card[s] \in 0 .. N /\ card[s] <= k /\ card[s] <= k + 1
      BY <1>2
    <3> QED
      BY <3>1
  <2>4. ASSUME NEW s \in Small(k + 1)
        PROVE  g[s] \in T /\ g[s] = IF s = {} THEN base
                                    ELSE step[<<choose[s], g[s \ {choose[s]}]>>]
    <3>1. s # {} => g[s \ {choose[s]}] = f[s \ {choose[s]}]
      BY <2>2, <2>3
    <3>2. g[s] = IF card[s] <= k THEN f[s]
                 ELSE step[<<choose[s], f[s \ {choose[s]}]>>]
      OBVIOUS
    <3> HIDE DEF g
    <3>3. CASE card[s] <= k
      <4>1. s \in Small(k)
        BY <3>3
      <4> QED
        BY <2>1, <3>1, <3>2, <3>3, <4>1
    <3>4. CASE ~(card[s] <= k)
      <4>1. s # {} /\ choose[s] \in D /\ f[s \ {choose[s]}] \in T
        BY <1>4, <2>1, <2>2, <3>4
      <4> QED
        BY <3>1, <3>2, <3>4, <4>1 DEF IsStep
    <3> QED
      BY <3>3, <3>4
  <2>5. g \in [Small(k + 1) -> T]
    BY <2>4
  <2>6. Folds(g, k + 1)
    BY <2>4
  <2> HIDE DEF g, Folds, Small
  <2> QED
    BY <2>5, <2>6
<1>7. N \in 0 .. N /\ N \in Good
  <2> HIDE DEF Good
  <2> QED
    BY <1>1, <1>5, <1>6, UpTo
<1>8. SUBSET D = Small(N)
  BY <1>2
<1>9. PICK g \in [Small(N) -> T] : Folds(g, N)
  BY <1>7
<1>10. IsFold(g, D, T, base, choose, step)
  BY <1>8, <1>9 DEF IsFold
<1> QED
  BY <1>10

(* Greatest and least elements, which the folds over a sequence choose. *)
LEMMA MaxOf ==
  ASSUME NEW n \in Nat, NEW s \in SUBSET (1 .. n), s # {}
  PROVE  Max(s) \in s /\ \A x \in s : Max(s) >= x
<1>1. PICK m \in {k \in Nat : n - k \in s} : \A j \in {k \in Nat : n - k \in s} : m <= j
  <2> DEFINE back == {k \in Nat : n - k \in s}
  <2>1. PICK x \in s : TRUE
    OBVIOUS
  <2>2. n - x \in Nat /\ n - (n - x) = x
    BY <2>1
  <2>3. n - x \in back /\ back \in SUBSET Nat
    BY <2>1, <2>2
  <2> HIDE DEF back
  <2>4. \E m \in back : \A j \in back : m <= j
    BY <2>3, LeastNat
  <2> QED
    BY <2>4 DEF back
<1>2. ASSUME NEW z \in s PROVE n - m >= z
  <2>1. n - z \in Nat /\ n - (n - z) = z /\ z \in Nat
    OBVIOUS
  <2>2. m <= n - z /\ m \in Nat
    BY <1>1, <2>1
  <2> QED
    BY <2>1, <2>2
<1> QED
  BY <1>1, <1>2 DEF Max

LEMMA MinOf ==
  ASSUME NEW n \in Nat, NEW s \in SUBSET (1 .. n), s # {}
  PROVE  Min(s) \in s /\ \A x \in s : Min(s) <= x
<1>1. \E m \in s : \A x \in s : m <= x
  BY LeastNat
<1> QED
  BY <1>1 DEF Min

LEMMA Prefix ==
  ASSUME NEW n \in Nat, NEW k \in 1 .. n
  PROVE  /\ 1 .. k \in SUBSET (1 .. n) /\ 1 .. k # {}
         /\ Max(1 .. k) = k /\ (1 .. k) \ {k} = 1 .. k - 1
<1>1. 1 .. k \in SUBSET (1 .. n) /\ k \in 1 .. k
  OBVIOUS
<1>2. Max(1 .. k) \in 1 .. k /\ \A x \in 1 .. k : Max(1 .. k) >= x
  BY <1>1, MaxOf
<1> QED
  BY <1>1, <1>2

LEMMA Suffix ==
  ASSUME NEW n \in Nat, NEW k \in 1 .. n
  PROVE  /\ k .. n \in SUBSET (1 .. n) /\ k .. n # {}
         /\ Min(k .. n) = k /\ (k .. n) \ {k} = k + 1 .. n
<1>1. k .. n \in SUBSET (1 .. n) /\ k \in k .. n
  OBVIOUS
<1>2. Min(k .. n) \in k .. n /\ \A x \in k .. n : Min(k .. n) <= x
  BY <1>1, MinOf
<1> QED
  BY <1>1, <1>2
-----------------------------------------------------------------------------
(* kee_ledger_verify. *)
IsSeq(l) == l \in Seq({l[i] : i \in DOMAIN l})

LEMMA IsSeqFacts ==
  ASSUME NEW l, IsSeq(l)
  PROVE  /\ Len(l) \in Nat /\ DOMAIN l = 1 .. Len(l)
         /\ l = [i \in 1 .. Len(l) |-> l[i]]
         /\ l = << >> <=> Len(l) = 0
<1> DEFINE S == {l[i] : i \in DOMAIN l}
<1>1. l \in Seq(S)
  BY DEF IsSeq
<1> HIDE DEF S
<1> QED
  BY <1>1, EmptySeq, LenProperties

Bad(l, s, i) == missing(l, i) \/ ~checked(l, s, i)

LEMMA Accepts ==
  ASSUME NEW l, NEW s, IsSeq(l), l # << >>, \A i \in 1 .. Len(l) : ~Bad(l, s, i)
  PROVE  kee_ledger_verify(l, s).ok
<1> DEFINE N == Len(l)
           accepted == [ok |-> TRUE, idx |-> N - 1]
           next(f, i) == IF missing(l, i) \/ ~checked(l, s, i)
                         THEN [ok |-> FALSE, idx |-> N - i]
                         ELSE IF i = 1 THEN accepted
                         ELSE f[i - 1]
           from == CHOOSE f : f = [i \in 1 .. N |-> next(f, i)]
           known == [i \in 1 .. N |-> accepted]
           Good == {i \in 0 .. N : i = 0 \/ from[i] = accepted}
<1>1. N \in Nat /\ N > 0
  BY IsSeqFacts
<1>2. kee_ledger_verify(l, s) = from[N]
  BY DEF kee_ledger_verify, verify_from
<1> HIDE DEF accepted
<1>3. known = [i \in 1 .. N |-> next(known, i)]
  <2> SUFFICES ASSUME NEW i \in 1 .. N PROVE accepted = next(known, i)
    OBVIOUS
  <2>1. i # 1 => i - 1 \in 1 .. N
    BY <1>1
  <2> QED
    BY <2>1 DEF Bad
<1> HIDE DEF known
<1>4. from = [i \in 1 .. N |-> next(from, i)]
  <2> HIDE DEF next
  <2> QED
    BY <1>3, Zenon
<1>5. \A i \in 1 .. N : from[i] = next(from, i)
  <2> HIDE DEF from
  <2> QED
    BY <1>4, Zenon
<1> HIDE DEF from
<1>6. ASSUME NEW k \in 0 .. N - 1, k \in Good PROVE k + 1 \in Good
  <2>1. k + 1 \in 1 .. N /\ (k + 1) - 1 = k /\ (k + 1 # 1 => k # 0)
    BY <1>1
  <2>2. from[k + 1] = next(from, k + 1)
    BY <1>5, <2>1
  <2>3. k + 1 # 1 => from[(k + 1) - 1] = accepted
    BY <1>6, <2>1
  <2>4. from[k + 1] = accepted
    BY <2>1, <2>2, <2>3 DEF Bad
  <2> QED
    BY <2>1, <2>4
<1>7. N \in Good
  <2>1. 0 \in Good /\ N \in 0 .. N
    BY <1>1
  <2> HIDE DEF Good
  <2> QED
    BY <1>1, <1>6, <2>1, UpTo
<1> QED
  BY <1>1, <1>2, <1>7 DEF accepted
-----------------------------------------------------------------------------
(* kee_ledger_put. *)
LEMMA First ==
  ASSUME NEW l, IsSeq(l)
  PROVE  /\ first(l) \in 1 .. Len(l) + 1
         /\ \A i \in 1 .. Len(l) + 1 : apart(l, i) <=> first(l) <= i
<1> DEFINE N == Len(l)
           S == {i \in 1 .. N + 1 : apart(l, i)}
           f == first(l)
<1>1. N \in Nat
  BY IsSeqFacts
<1>2. N + 1 \in S
  <2>1. (N + 1) .. N = {} /\ N + 1 \in 1 .. N + 1
    BY <1>1
  <2> QED
    BY <2>1 DEF apart
<1>3. S \in SUBSET Nat
  BY <1>1
<1>4. PICK m \in S : \A n \in S : m <= n
  BY <1>2, <1>3, LeastNat
<1>5. m \in 1 .. N + 1 /\ apart(l, m) /\ \A j \in 1 .. m - 1 : ~apart(l, j)
  BY <1>1, <1>4
<1>6. /\ f \in 1 .. N + 1 /\ apart(l, f)
      /\ \A j \in 1 .. f - 1 : ~apart(l, j)
  BY <1>5, Zenon DEF first
<1>7. ASSUME NEW i \in 1 .. N + 1, f <= i PROVE apart(l, i)
  <2>1. i .. N \subseteq f .. N
    BY <1>1, <1>6, <1>7
  <2> QED
    BY <1>6, <2>1 DEF apart
<1>8. ASSUME NEW i \in 1 .. N + 1, apart(l, i) PROVE f <= i
  <2>1. ~(i \in 1 .. f - 1)
    BY <1>6, <1>8
  <2> HIDE DEF f
  <2> QED
    BY <1>1, <1>6, <2>1
<1> QED
  BY <1>6, <1>7, <1>8

LEMMA ApartStep ==
  ASSUME NEW l, IsSeq(l), NEW i \in 1 .. Len(l)
  PROVE  apart(l, i) <=> /\ apart(l, i + 1)
                         /\ \A j \in i + 1 .. Len(l) : l[j].delta.time # l[i].delta.time
<1> DEFINE N == Len(l)
<1>1. N \in Nat /\ i \in 1 .. N
  BY IsSeqFacts
<1> HIDE DEF N
<1>2. i .. N = {i} \cup (i + 1) .. N /\ i \notin (i + 1) .. N
  BY <1>1
<1> QED
  BY <1>2 DEF apart, N

(* What was put of the items from the i-th on. *)
Written(l, s, i) ==
  [records |-> {record(l, s, j) : j \in {k \in i .. Len(l) : first(l) <= k}},
   more |-> IF apart(l, i) THEN TRUE ELSE FALSE]

LEMMA WrittenStep ==
  ASSUME NEW l, IsSeq(l), NEW s, NEW i \in 1 .. Len(l)
  PROVE  Written(l, s, i) = item_put(Written(l, s, i + 1), record(l, s, i))
<1> DEFINE N == Len(l)
           f == first(l)
           acc == Written(l, s, i + 1)
<1>1. N \in Nat /\ i \in 1 .. N /\ i + 1 \in 1 .. N + 1 /\ i \in 1 .. N + 1 /\ f \in 1 .. N + 1
  BY IsSeqFacts, First
<1>2. (apart(l, i) <=> f <= i) /\ (apart(l, i + 1) <=> f <= i + 1)
  BY <1>1, First
<1>3. /\ acc.records = {record(l, s, j) : j \in {k \in i + 1 .. N : f <= k}}
      /\ acc.more = IF apart(l, i + 1) THEN TRUE ELSE FALSE
      /\ acc = [records |-> acc.records, more |-> acc.more]
  BY DEF Written
<1>4. \A j : record(l, s, j).time = l[j].delta.time
  BY DEF record
<1>5. Written(l, s, i) = [records |-> {record(l, s, j) : j \in {k \in i .. N : f <= k}},
                          more |-> IF apart(l, i) THEN TRUE ELSE FALSE]
  BY DEF Written
<1> HIDE DEF N, f, acc
<1>6. CASE ~apart(l, i + 1)
  <2>1. {k \in i .. N : f <= k} = {k \in i + 1 .. N : f <= k} /\ ~apart(l, i)
    BY <1>1, <1>2, <1>6
  <2> QED
    BY <1>3, <1>5, <1>6, <2>1 DEF item_put, acc
<1>7. CASE apart(l, i + 1) /\ ~apart(l, i)
  <2>1. {k \in i .. N : f <= k} = {k \in i + 1 .. N : f <= k}
    BY <1>1, <1>2, <1>7
  <2>2. PICK j \in i + 1 .. N : l[j].delta.time = l[i].delta.time
    BY <1>7, ApartStep DEF N
  <2>3. j \in {k \in i + 1 .. N : f <= k}
    BY <1>1, <1>2, <1>7, <2>2
  <2>4. \E q \in acc.records : q.time = record(l, s, i).time
    BY <1>3, <1>4, <2>2, <2>3
  <2>5. item_put(acc, record(l, s, i)) = [acc EXCEPT !.more = FALSE]
    BY <1>3, <1>7, <2>4 DEF item_put
  <2> QED
    BY <1>3, <1>5, <1>7, <2>1, <2>5 DEF acc
<1>8. CASE apart(l, i + 1) /\ apart(l, i)
  <2>1. {k \in i .. N : f <= k} = {k \in i + 1 .. N : f <= k} \cup {i}
    BY <1>1, <1>2, <1>8
  <2>2. \A j \in i + 1 .. N : l[j].delta.time # l[i].delta.time
    BY <1>8, ApartStep DEF N
  <2>3. ~(\E q \in acc.records : q.time = record(l, s, i).time)
    BY <1>3, <1>4, <2>2
  <2>4. {record(l, s, j) : j \in {k \in i .. N : f <= k}} = acc.records \cup {record(l, s, i)}
    BY <1>3, <2>1
  <2>5. item_put(acc, record(l, s, i)) = [acc EXCEPT !.records = @ \cup {record(l, s, i)}]
    BY <1>3, <1>8, <2>3 DEF item_put
  <2> QED
    BY <1>3, <1>5, <1>8, <2>4, <2>5 DEF acc
<1> QED
  BY <1>6, <1>7, <1>8

(* What the loop of kee_ledger_put leaves on disk: the records from the    *)
(* last item back to the first whose time no other one after it has.       *)
THEOREM PutResult ==
  ASSUME NEW l, IsSeq(l), NEW s
  PROVE  kee_ledger_put(l, s) = {record(l, s, i) : i \in first(l) .. Len(l)}
<1> DEFINE N == Len(l)
           D == 1 .. N
           records == [i \in D |-> record(l, s, i)]
           base == [records |-> {}, more |-> TRUE]
           next(h, t) == IF t = {} THEN base
                         ELSE item_put(h[t \ {Min(t)}], records[Min(t)])
           loop == CHOOSE h : h = [t \in SUBSET D |-> next(h, t)]
           All == {record(l, s, i) : i \in D}
           T == [records : SUBSET All, more : BOOLEAN]
           least == [t \in SUBSET D |-> Min(t)]
           step == [x \in D \X T |-> item_put(x[2], records[x[1]])]
<1>1. N \in Nat /\ DOMAIN l = D
  BY IsSeqFacts
<1>2. kee_ledger_put(l, s) = loop[D].records
  BY <1>1 DEF kee_ledger_put, FoldRight, MapThenFoldSet
<1>3. loop = [t \in SUBSET D |-> next(loop, t)]
  <2>1. IsFiniteSet(D)
    BY <1>1, FS_Interval
  <2>2. base \in T
    OBVIOUS
  <2>3. \A t \in SUBSET D : t # {} => Min(t) \in t
    BY <1>1, MinOf
  <2>4. IsChoice(least, D)
    BY <2>3 DEF IsChoice
  <2>5. ASSUME NEW x \in D \X T PROVE item_put(x[2], records[x[1]]) \in T
    <3>1. x[1] \in D /\ x[2] \in T /\ records[x[1]] \in All
      OBVIOUS
    <3> HIDE DEF records, All
    <3> QED
      BY <3>1 DEF item_put
  <2>6. IsStep(step, D, T)
    <3> HIDE DEF T, records, D
    <3> QED
      BY <2>5 DEF IsStep
  <2> HIDE DEF D, T, base, least, step, records
  <2>7. PICK g : IsFold(g, D, T, base, least, step)
    BY <2>1, <2>2, <2>4, <2>6, FoldExists
  <2>8. ASSUME NEW t \in SUBSET D PROVE g[t] = next(g, t)
    <3>1. CASE t = {}
      BY <2>7, <3>1 DEF IsFold
    <3>2. CASE t # {}
      <4>1. least[t] = Min(t) /\ Min(t) \in D /\ t \ {Min(t)} \in SUBSET D
        BY <2>3, <3>2 DEF least
      <4>2. g[t \ {Min(t)}] \in T
        BY <2>7, <4>1 DEF IsFold
      <4>3. step[<<Min(t), g[t \ {Min(t)}]>>] = item_put(g[t \ {Min(t)}], records[Min(t)])
        BY <4>1, <4>2 DEF step
      <4> QED
        BY <2>7, <3>2, <4>1, <4>3 DEF IsFold
    <3> QED
      BY <3>1, <3>2
  <2>9. g = [t \in SUBSET D |-> next(g, t)]
    <3> HIDE DEF next
    <3> QED
      BY <2>7, <2>8 DEF IsFold
  <2> HIDE DEF next
  <2> QED
    BY <2>9, Zenon
<1>4. \A t \in SUBSET D : loop[t] = next(loop, t)
  <2> HIDE DEF loop, next, D
  <2> QED
    BY <1>3, Zenon
<1> HIDE DEF loop
<1> DEFINE Good == {k \in 0 .. N : loop[(N + 1 - k) .. N] = Written(l, s, N + 1 - k)}
<1>5. 0 \in Good
  <2>1. 0 \in 0 .. N /\ N + 1 - 0 = N + 1 /\ (N + 1) .. N = {} /\ N + 1 \in 1 .. N + 1
    BY <1>1
  <2>2. first(l) <= N + 1
    BY <1>1, First
  <2>3. apart(l, N + 1) = TRUE
    BY <2>1, <2>2, First DEF apart
  <2>4. Written(l, s, N + 1) = base
    BY <2>1, <2>3 DEF Written
  <2>5. loop[{}] = base
    BY <1>4
  <2> QED
    BY <2>1, <2>4, <2>5
<1>6. ASSUME NEW k \in 0 .. N - 1, k \in Good PROVE k + 1 \in Good
  <2> DEFINE i == N + 1 - (k + 1)
  <2>1. i \in 1 .. N /\ i + 1 = N + 1 - k /\ k + 1 \in 0 .. N
    BY <1>1
  <2> HIDE DEF i
  <2>2. /\ i .. N \in SUBSET D /\ i .. N # {}
        /\ Min(i .. N) = i /\ (i .. N) \ {i} = i + 1 .. N
    BY <1>1, <2>1, Suffix
  <2>3. loop[i .. N] = item_put(loop[i + 1 .. N], records[i])
    BY <1>4, <2>2
  <2>4. loop[i + 1 .. N] = Written(l, s, i + 1)
    BY <1>6, <2>1
  <2>5. records[i] = record(l, s, i)
    BY <2>1
  <2>6. loop[i .. N] = Written(l, s, i)
    BY <2>1, <2>3, <2>4, <2>5, WrittenStep
  <2> QED
    BY <2>1, <2>6 DEF i
<1>7. N \in Good
  <2>1. N \in 0 .. N
    BY <1>1
  <2> HIDE DEF Good
  <2> QED
    BY <1>1, <1>5, <1>6, <2>1, UpTo
<1>8. loop[D] = Written(l, s, 1)
  <2>1. N + 1 - N = 1
    BY <1>1
  <2> QED
    BY <1>7, <2>1
<1>9. {k \in 1 .. N : first(l) <= k} = first(l) .. N
  BY <1>1, First
<1> QED
  BY <1>2, <1>8, <1>9 DEF Written
-----------------------------------------------------------------------------
(* Items and their records. *)
LEMMA Serialized ==
  ASSUME NEW item, IsItem(item), NEW before, NEW e,
         e = kee_ledger_item_serialize(item, before, "FINAL")
  PROVE  /\ wire(e).parent = before
         /\ unwired(wire(e)) = e
         /\ e = [parent |-> before, delta |-> item.delta, response |-> item.response,
                 sigRequest |-> signature_request(item),
                 sigResponse |-> signature_response(item)]
<1> DEFINE c == item.delta.credit
           o == item.delta.collateral
           t == item.delta.time
           there(d) == [parent |-> before, delta |-> d, response |-> item.response,
                        sigRequest |-> signature_request(item),
                        sigResponse |-> signature_response(item)]
<1>1. /\ c \in CInt /\ o \in CInt /\ item.response \in BOOLEAN
      /\ item.delta = [credit |-> c, collateral |-> o, time |-> t]
  BY DEF IsItem, Number
<1>2. e = there(item.delta)
  BY <1>1 DEF kee_ledger_item_serialize
<1> HIDE DEF c, o, t
<1>3. wire(e) = there([credit |-> encoded(c), collateral |-> encoded(o), time |-> t])
  BY <1>1, <1>2 DEF wire
<1>4. unwired(wire(e)) =
        there([credit |-> decoded(encoded(c)), collateral |-> decoded(encoded(o)), time |-> t])
  BY <1>3 DEF unwired
<1>5. decoded(encoded(c)) = c /\ decoded(encoded(o)) = o
  BY <1>1, RoundTrip
<1> QED
  BY <1>1, <1>2, <1>3, <1>4, <1>5

LEMMA RecordParent ==
  ASSUME NEW l, NEW s, NEW i, IsItem(l[i])
  PROVE  record(l, s, i).entry.parent = parent(l, s, i)
<1> DEFINE e == kee_ledger_item_serialize(l[i], parent(l, s, i), "FINAL")
<1>1. wire(e).parent = parent(l, s, i)
  BY Serialized
<1>2. record(l, s, i) = [time |-> l[i].delta.time, initiator |-> l[i].initiator, entry |-> wire(e)]
  BY DEF record
<1> HIDE DEF e
<1> QED
  BY <1>1, <1>2

LEMMA RecordKeeps ==
  ASSUME NEW l, NEW s, NEW i, IsItem(l[i]), SignedOver(l[i], parent(l, s, i))
  PROVE  Keeps(record(l, s, i), l[i])
<1>1. record(l, s, i).entry.parent = parent(l, s, i)
  BY RecordParent
<1> QED
  BY <1>1 DEF Keeps, record

LEMMA SeqIsSeq ==
  ASSUME NEW S, NEW w \in Seq(S)
  PROVE  IsSeq(w)
<1>1. Len(w) \in Nat /\ DOMAIN w = 1 .. Len(w) /\ w = [i \in 1 .. Len(w) |-> w[i]]
  BY LenProperties
<1> DEFINE n == Len(w)
           T == {w[i] : i \in 1 .. n}
<1>2. [i \in 1 .. n |-> w[i]] \in Seq(T)
  <2>1. \A i \in 1 .. n : w[i] \in T
    OBVIOUS
  <2>2. n \in Nat
    BY <1>1
  <2> HIDE DEF T, n
  <2> QED
    BY <2>1, <2>2
<1> QED
  BY <1>1, <1>2 DEF IsSeq

NewestOf(l) == SubSeq(l, first(l), Len(l))

LEMMA NewestFacts ==
  ASSUME NEW l, IsSeq(l), NEW w, w = NewestOf(l)
  PROVE  /\ IsSeq(w) /\ Len(w) = Len(l) + 1 - first(l)
         /\ Len(w) \in Nat /\ Len(w) <= Len(l) /\ DOMAIN w = 1 .. Len(w)
         /\ \A i \in 1 .. Len(w) : first(l) + i - 1 \in first(l) .. Len(l)
                                  /\ first(l) + i - 1 \in 1 .. Len(l)
                                  /\ w[i] = l[first(l) + i - 1]
<1> DEFINE N == Len(l)
           f == first(l)
           S == {l[i] : i \in 1 .. N}
<1>1. N \in Nat /\ f \in 1 .. N + 1
  BY IsSeqFacts, First
<1>2. \A i \in f .. N : l[i] \in S
  BY <1>1
<1> HIDE DEF S, N, f
<1>3. /\ SubSeq(l, f, N) \in Seq(S)
      /\ Len(SubSeq(l, f, N)) = IF f <= N THEN N - f + 1 ELSE 0
      /\ \A i \in 1 .. N - f + 1 : SubSeq(l, f, N)[i] = l[f + i - 1]
  BY <1>1, <1>2, SubSeqProperties
<1>4. w = SubSeq(l, f, N)
  BY DEF NewestOf, N, f
<1>5. IsSeq(w)
  BY <1>3, <1>4, SeqIsSeq
<1>6. Len(w) = N + 1 - f
  BY <1>1, <1>3, <1>4
<1>7. \A i \in 1 .. Len(w) : f + i - 1 \in f .. N /\ f + i - 1 \in 1 .. N /\ w[i] = l[f + i - 1]
  BY <1>1, <1>3, <1>4, <1>6
<1>8. Len(w) \in Nat /\ Len(w) <= N
  BY <1>1, <1>6
<1> QED
  BY <1>5, <1>6, <1>7, <1>8, IsSeqFacts DEF N, f

(* The items of a list: what the program holds of them in memory. *)
IsList(l) ==
  /\ IsSeq(l) /\ Len(l) <= MaxItems
  /\ \A i \in DOMAIN l : IsItem(l[i])

(* A list of items that were added and signed in this process. *)
Made(l, s) ==
  /\ \A i \in DOMAIN l :
       /\ l[i].initiator = "ALICE"
       /\ SignedOver(l[i], parent(l, s, i))
       /\ l[i].alice_signature = Zeroes => l[i].bob_signature = Zeroes
  /\ \A i, j \in DOMAIN l : i < j => l[i].delta.time <= l[j].delta.time

LEMMA StoredAfterPut ==
  ASSUME NEW l, IsList(l), NEW s, Made(l, s)
  PROVE  Stored(kee_ledger_put(l, s), NewestOf(l))
<1> DEFINE N == Len(l)
           f == first(l)
           w == NewestOf(l)
           n == Len(w)
           records == kee_ledger_put(l, s)
<1>1. IsSeq(l) /\ N \in Nat /\ DOMAIN l = 1 .. N /\ N <= MaxItems
  BY IsSeqFacts DEF IsList
<1>2. f \in 1 .. N + 1 /\ apart(l, f)
  <2>1. f \in 1 .. N + 1 /\ (apart(l, f) <=> f <= f)
    BY <1>1, First
  <2> QED
    BY <1>1, <2>1
<1>3. /\ IsSeq(w) /\ n = N + 1 - f /\ n \in Nat /\ n <= N /\ DOMAIN w = 1 .. n
      /\ \A i \in 1 .. n : f + i - 1 \in f .. N /\ f + i - 1 \in 1 .. N /\ w[i] = l[f + i - 1]
  BY <1>1, NewestFacts
<1>4. records = {record(l, s, i) : i \in f .. N}
  BY <1>1, PutResult
<1>5. \A i \in 1 .. N : IsItem(l[i])
  BY <1>1 DEF IsList
<1>6. \A i \in 1 .. N : Keeps(record(l, s, i), l[i]) /\ record(l, s, i).time = l[i].delta.time
  <2> SUFFICES ASSUME NEW i \in 1 .. N
               PROVE  Keeps(record(l, s, i), l[i]) /\ record(l, s, i).time = l[i].delta.time
    OBVIOUS
  <2>1. SignedOver(l[i], parent(l, s, i))
    BY <1>1 DEF Made
  <2> QED
    BY <1>5, <2>1, RecordKeeps DEF record
<1>7. \A i, j \in 1 .. N : i < j => l[i].delta.time <= l[j].delta.time
  BY <1>1 DEF Made
<1>8. \A k, m \in f .. N : k # m => l[k].delta.time # l[m].delta.time
  BY <1>2 DEF apart
<1>9. \A i \in 1 .. N : l[i].delta.time \in Nat
  BY <1>5 DEF IsItem, Number
<1> HIDE DEF N, f, w, n, records
<1>10. \A i \in DOMAIN w : IsItem(w[i])
  BY <1>3, <1>5
<1>11. ASSUME NEW i \in DOMAIN w, NEW j \in DOMAIN w, i < j
       PROVE  w[i].delta.time < w[j].delta.time
  <2> DEFINE k == f + i - 1
             m == f + j - 1
  <2>1. k \in f .. N /\ m \in f .. N /\ k \in 1 .. N /\ m \in 1 .. N /\ w[i] = l[k] /\ w[j] = l[m]
    BY <1>3
  <2>2. k < m
    BY <1>2, <1>3, <1>11
  <2> HIDE DEF k, m
  <2>3. /\ l[k].delta.time <= l[m].delta.time /\ l[k].delta.time # l[m].delta.time
        /\ l[k].delta.time \in Nat /\ l[m].delta.time \in Nat
    BY <1>7, <1>8, <1>9, <2>1, <2>2
  <2> QED
    BY <2>1, <2>3
<1>12. ASSUME NEW i \in DOMAIN w PROVE \E r \in records : Keeps(r, w[i])
  BY <1>3, <1>4, <1>6
<1>13. ASSUME NEW r \in records PROVE \E i \in DOMAIN w : Keeps(r, w[i])
  <2>1. PICK k \in f .. N : r = record(l, s, k)
    BY <1>4
  <2>2. k - f + 1 \in 1 .. n /\ f + (k - f + 1) - 1 = k /\ k \in 1 .. N
    BY <1>1, <1>2, <1>3
  <2>3. w[k - f + 1] = l[k]
    BY <1>3, <2>2
  <2> QED
    BY <1>3, <1>6, <2>1, <2>2, <2>3
<1>14. ASSUME NEW r \in records, NEW q \in records, r.time = q.time PROVE r = q
  <2>1. PICK k \in f .. N : r = record(l, s, k)
    BY <1>4
  <2>2. PICK m \in f .. N : q = record(l, s, m)
    BY <1>4
  <2>3. k \in 1 .. N /\ m \in 1 .. N
    BY <1>1, <1>2
  <2>4. l[k].delta.time = l[m].delta.time
    BY <1>6, <1>14, <2>1, <2>2, <2>3
  <2> QED
    BY <1>8, <2>1, <2>2, <2>4
<1>15. Len(w) <= MaxItems
  BY <1>1, <1>3, ChainAssumption DEF n
<1> QED
  BY <1>3, <1>10, <1>11, <1>12, <1>13, <1>14, <1>15 DEF Stored, IsSeq, w, records
-----------------------------------------------------------------------------
(* The scan. *)
LEMMA CardinalityOfImage ==
  ASSUME NEW n \in Nat, NEW f, \A i, j \in 1 .. n : i # j => f[i] # f[j]
  PROVE  IsFiniteSet({f[i] : i \in 1 .. n}) /\ Cardinality({f[i] : i \in 1 .. n}) = n
<1> DEFINE image(k) == {f[i] : i \in 1 .. k}
           Good == {k \in 0 .. n : IsFiniteSet(image(k)) /\ Cardinality(image(k)) = k}
<1>1. 0 \in Good
  <2>1. image(0) = {}
    OBVIOUS
  <2> HIDE DEF image
  <2> QED
    BY <2>1, FS_EmptySet
<1>2. ASSUME NEW k \in 0 .. n - 1, k \in Good PROVE k + 1 \in Good
  <2>1. k + 1 \in 1 .. n /\ 1 .. k + 1 = (1 .. k) \cup {k + 1} /\ k + 1 \in 0 .. n
    OBVIOUS
  <2>2. image(k + 1) = image(k) \cup {f[k + 1]}
    BY <2>1
  <2>3. f[k + 1] \notin image(k)
    <3> SUFFICES ASSUME NEW i \in 1 .. k, f[i] = f[k + 1] PROVE FALSE
      OBVIOUS
    <3>1. i \in 1 .. n /\ i # k + 1
      OBVIOUS
    <3> QED
      BY <2>1, <3>1
  <2> HIDE DEF image
  <2>4. IsFiniteSet(image(k)) /\ Cardinality(image(k)) = k
    BY <1>2
  <2>5. IsFiniteSet(image(k + 1)) /\ Cardinality(image(k + 1)) = k + 1
    <3> DEFINE seen == image(k)
               x == f[k + 1]
    <3>1. IsFiniteSet(seen) /\ Cardinality(seen) = k /\ x \notin seen
      BY <2>3, <2>4
    <3> HIDE DEF seen, x
    <3>2. IsFiniteSet(seen \cup {x}) /\ Cardinality(seen \cup {x}) = k + 1
      BY <3>1, FS_AddElement
    <3> QED
      BY <2>2, <3>2 DEF seen, x
  <2> QED
    BY <2>1, <2>5
<1>3. n \in Good
  <2> HIDE DEF Good
  <2>1. n \in 0 .. n
    OBVIOUS
  <2> QED
    BY <1>1, <1>2, <2>1, UpTo
<1> QED
  BY <1>3

(* The n-th record that is found is that of the n-th item. *)
LEMMA Scan ==
  ASSUME NEW l, Stored(disk, l)
  PROVE  /\ IsSeq(scanned) /\ Len(scanned) = Len(l) /\ Len(l) \in Nat
         /\ DOMAIN scanned = 1 .. Len(l) /\ DOMAIN l = 1 .. Len(l)
         /\ \A i \in 1 .. Len(l) :
              IsItem(l[i]) /\ scanned[i] \in disk /\ Keeps(scanned[i], l[i])
<1> DEFINE n == Len(l)
           rec == [i \in 1 .. n |-> CHOOSE r \in disk : Keeps(r, l[i])]
           earlier(r) == {q \in disk : q.time < r.time}
<1>1. IsSeq(l) /\ n \in Nat /\ DOMAIN l = 1 .. n
  <2>1. IsSeq(l)
    BY DEF Stored, IsSeq
  <2> QED
    BY <2>1, IsSeqFacts
<1>2. \A i \in 1 .. n : IsItem(l[i]) /\ l[i].delta.time \in Nat
  BY <1>1 DEF Stored, IsItem, Number
<1>3. \A i \in 1 .. n : rec[i] \in disk /\ Keeps(rec[i], l[i])
  <2>1. \A i \in 1 .. n : \E r \in disk : Keeps(r, l[i])
    BY <1>1 DEF Stored
  <2> HIDE DEF n
  <2> QED
    BY <2>1
<1>4. \A i \in 1 .. n : rec[i].time = l[i].delta.time
  <2>1. \A r, item : Keeps(r, item) => r.time = item.delta.time
    BY DEF Keeps
  <2> HIDE DEF rec
  <2> QED
    BY <1>3, <2>1
<1>5. \A i, j \in 1 .. n : i < j => l[i].delta.time < l[j].delta.time
  BY <1>1 DEF Stored
<1> HIDE DEF rec, n
<1>6. \A i, j \in 1 .. n : rec[i].time < rec[j].time <=> i < j
  <2> SUFFICES ASSUME NEW i \in 1 .. n, NEW j \in 1 .. n
               PROVE  rec[i].time < rec[j].time <=> i < j
    OBVIOUS
  <2>1. /\ rec[i].time = l[i].delta.time /\ rec[j].time = l[j].delta.time
        /\ l[i].delta.time \in Nat /\ l[j].delta.time \in Nat
        /\ i < j => l[i].delta.time < l[j].delta.time
        /\ j < i => l[j].delta.time < l[i].delta.time
    BY <1>2, <1>4, <1>5
  <2>2. i < j \/ j < i \/ i = j
    BY <1>1
  <2> QED
    BY <2>1, <2>2
<1>7. disk = {rec[i] : i \in 1 .. n}
  <2>1. ASSUME NEW r \in disk PROVE \E i \in 1 .. n : r = rec[i]
    <3>1. PICK i \in 1 .. n : Keeps(r, l[i])
      BY <1>1 DEF Stored
    <3>2. r.time = rec[i].time
      BY <1>4, <3>1 DEF Keeps
    <3>3. r = rec[i]
      BY <1>3, <3>2 DEF Stored
    <3> QED
      BY <3>3
  <2> QED
    BY <1>3, <2>1
<1>8. \A i, j \in 1 .. n : i # j => rec[i] # rec[j]
  <2> SUFFICES ASSUME NEW i \in 1 .. n, NEW j \in 1 .. n, i # j, rec[i] = rec[j] PROVE FALSE
    OBVIOUS
  <2>1. i < j \/ j < i
    BY <1>1
  <2>2. rec[i].time < rec[i].time
    BY <1>6, <2>1
  <2>3. rec[i].time \in Nat
    BY <1>2, <1>4
  <2> QED
    BY <2>2, <2>3
<1>9. Cardinality(disk) = n
  BY <1>1, <1>7, <1>8, CardinalityOfImage
<1>10. \A i \in 1 .. n : Cardinality(earlier(rec[i])) = i - 1
  <2> SUFFICES ASSUME NEW i \in 1 .. n PROVE Cardinality(earlier(rec[i])) = i - 1
    OBVIOUS
  <2>1. earlier(rec[i]) = {rec[j] : j \in 1 .. i - 1}
    <3>1. ASSUME NEW r \in earlier(rec[i]) PROVE r \in {rec[j] : j \in 1 .. i - 1}
      <4>1. PICK j \in 1 .. n : r = rec[j]
        BY <1>7, <3>1
      <4>2. j < i
        BY <1>6, <3>1, <4>1
      <4> QED
        BY <1>1, <4>1, <4>2
    <3>2. ASSUME NEW j \in 1 .. i - 1 PROVE rec[j] \in earlier(rec[i])
      <4>1. j \in 1 .. n /\ j < i
        BY <1>1
      <4> QED
        BY <1>3, <1>6, <4>1
    <3> HIDE DEF earlier
    <3> QED
      BY <3>1, <3>2
  <2>2. i - 1 \in Nat /\ \A j, k \in 1 .. i - 1 : j # k => rec[j] # rec[k]
    <3>1. i - 1 \in Nat /\ \A j \in 1 .. i - 1 : j \in 1 .. n
      BY <1>1
    <3> QED
      BY <1>8, <3>1
  <2> HIDE DEF earlier
  <2> QED
    BY <2>1, <2>2, CardinalityOfImage
<1>11. ASSUME NEW i \in 1 .. n
       PROVE  (CHOOSE r \in disk : Cardinality(earlier(r)) = i - 1) = rec[i]
  <2> DEFINE found == CHOOSE r \in disk : Cardinality(earlier(r)) = i - 1
  <2> HIDE DEF earlier
  <2>1. \E r \in disk : Cardinality(earlier(r)) = i - 1
    BY <1>3, <1>10
  <2>2. found \in disk /\ Cardinality(earlier(found)) = i - 1
    BY <2>1
  <2> HIDE DEF found
  <2>3. PICK j \in 1 .. n : found = rec[j]
    BY <1>7, <2>2
  <2>4. j - 1 = i - 1
    BY <1>10, <2>2, <2>3
  <2>5. j = i
    BY <1>1, <2>4
  <2> QED
    BY <2>3, <2>5 DEF found
<1>12. scanned = [i \in 1 .. n |-> rec[i]]
  BY <1>9, <1>11 DEF scanned
<1>13. [i \in 1 .. n |-> rec[i]] \in Seq(disk)
  BY <1>1, <1>3
<1>14. IsSeq(scanned) /\ Len(scanned) = n /\ DOMAIN scanned = 1 .. n
  <2>1. IsSeq(scanned)
    BY <1>12, <1>13, SeqIsSeq
  <2>2. DOMAIN scanned = 1 .. n
    BY <1>12
  <2>3. Len(scanned) \in Nat /\ DOMAIN scanned = 1 .. Len(scanned)
    BY <2>1, IsSeqFacts
  <2> QED
    BY <1>1, <2>1, <2>2, <2>3
<1>15. \A i \in 1 .. n : scanned[i] = rec[i]
  BY <1>12
<1> QED
  BY <1>1, <1>2, <1>3, <1>14, <1>15 DEF n
-----------------------------------------------------------------------------
(* Parsing what was put. *)
Reopened(item) ==
  IF Countersigned(item) THEN item ELSE kee_ledger_add_item(item.initiator)

LEMMA Parsed ==
  ASSUME NEW item, IsItem(item), NEW r, Keeps(r, item)
  PROVE  /\ verified(r) <=> Countersigned(item)
         /\ kee_ledger_parse_item_db(r) = Reopened(item)
         /\ IsItem(Reopened(item))
<1> DEFINE before == r.entry.parent
           e == kee_ledger_item_serialize(item, before, "FINAL")
           m == kee_ledger_item_serialize(item, before, "RESPONSE")
           q == kee_ledger_item_serialize(item, before, "REQUEST")
           response == signature_response(item)
           request == signature_request(item)
           key == pubkey_last(head, item.initiator)
           first_key == pubkey_first(item.initiator)
<1>1. unwired(r.entry) = e /\ r.initiator = item.initiator
  <2>1. unwired(wire(e)) = e
    BY Serialized
  <2> HIDE DEF e
  <2>2. r.entry = wire(e) /\ r.initiator = item.initiator
    BY DEF Keeps, e
  <2> QED
    BY <2>1, <2>2
<1>2. e = [parent |-> before, delta |-> item.delta, response |-> item.response,
           sigRequest |-> request, sigResponse |-> response]
  BY Serialized
<1>3. get_message_asn(e) = m
  <2>1. item.response \in BOOLEAN
    BY DEF IsItem
  <2>2. m = [parent |-> before, delta |-> item.delta, response |-> item.response,
             sigRequest |-> request, sigResponse |-> Absent]
    BY <2>1 DEF kee_ledger_item_serialize
  <2> HIDE DEF e, m
  <2> QED
    BY <1>2, <2>2 DEF get_message_asn
<1>4. /\ request \in {Zeroes, Signed(first_key, head, q)}
      /\ response # Zeroes => response = Signed(response.signer, head, m)
  BY DEF Keeps, SignedOver
<1>5. e.delta = item.delta /\ e.response = item.response /\ e.sigRequest = request
      /\ e.sigResponse = response
  BY <1>2
<1> HIDE DEF before, e, m, q, response, request, key, first_key
<1>6. /\ \A k, x : "signer" \in DOMAIN Signed(k, head, x) /\ Signed(k, head, x).signer = k
      /\ "signer" \notin DOMAIN Absent /\ "signer" \notin DOMAIN Zeroes /\ Absent # Zeroes
  BY ChainAssumption, LedgerAssumption DEF Signed
<1>7. request # Absent /\ response # Absent
  BY <1>4, <1>6
<1>8. verified(r) <=> response = Signed(key, head, m)
  BY <1>1, <1>3, <1>5, <1>7 DEF verified, verify_item_asn, key
<1>9. Countersigned(item) <=> response # Zeroes /\ response.signer = key
  BY DEF Countersigned, response, key
<1>10. response = Signed(key, head, m) <=> response # Zeroes /\ response.signer = key
  BY <1>4, <1>6
<1>11. kee_ledger_parse_item(e, item.initiator) = item
  <2>1. /\ item.initiator \in {"ALICE", "BOB"}
        /\ item = [initiator |-> item.initiator, delta |-> item.delta,
                   response |-> item.response, alice_signature |-> item.alice_signature,
                   bob_signature |-> item.bob_signature]
    BY DEF IsItem, Roles
  <2>2. CASE item.initiator = "ALICE"
    <3>1. request = item.alice_signature /\ response = item.bob_signature
      BY <2>2 DEF request, response, signature_request, signature_response
    <3> QED
      BY <1>5, <1>7, <2>1, <2>2, <3>1 DEF kee_ledger_parse_item, in_memory
  <2>3. CASE item.initiator = "BOB"
    <3>1. request = item.bob_signature /\ response = item.alice_signature
      BY <2>3 DEF request, response, signature_request, signature_response
    <3> QED
      BY <1>5, <1>7, <2>1, <2>3, <3>1 DEF kee_ledger_parse_item, in_memory
  <2> QED
    BY <2>1, <2>2, <2>3
<1>12. IsItem(kee_ledger_add_item(item.initiator))
  <2>1. item.initiator \in Roles /\ ZeroDelta \in Number
    BY ChainAssumption, LedgerAssumption DEF IsItem
  <2> QED
    BY <2>1 DEF IsItem, kee_ledger_add_item
<1> QED
  BY <1>1, <1>8, <1>9, <1>10, <1>11, <1>12 DEF kee_ledger_parse_item_db, Reopened

-----------------------------------------------------------------------------
(* Sums of ints, wherever they are cut to four bytes. *)
LEMMA OneIntOfWord ==
  ASSUME NEW u \in CInt, NEW v \in CInt, NEW q \in Int, NEW p \in Int,
         u + Word * q = v + Word * p
  PROVE  u = v
<1> DEFINE W == Word
           half == Word \div 2
<1>1. W \in Nat /\ W > 0 /\ half \in Nat /\ W = 2 * half
  <2>1. Word > 0
    BY Words
  <2> QED
    BY <2>1, Words
<1>2. u \in Int /\ v \in Int /\ u >= -half /\ u <= half - 1 /\ v >= -half /\ v <= half - 1
  BY <1>1 DEF CInt
<1>3. u - v = W * (p - q)
  <2>1. W * (p - q) = W * p - W * q /\ W * p \in Int /\ W * q \in Int
    BY <1>1
  <2>2. u + W * q = v + W * p
    OBVIOUS
  <2> HIDE DEF W
  <2> QED
    BY <1>2, <2>1, <2>2
<1> HIDE DEF W, half
<1> DEFINE d == p - q
<1>4. d \in Int
  OBVIOUS
<1>5. CASE d >= 1
  <2>1. W * d >= W
    BY <1>1, <1>4, <1>5
  <2> QED
    BY <1>1, <1>2, <1>3, <2>1
<1>6. CASE d <= -1
  <2>1. W * d <= -W
    BY <1>1, <1>4, <1>6
  <2> QED
    BY <1>1, <1>2, <1>3, <2>1
<1>7. CASE d = 0
  BY <1>1, <1>2, <1>3, <1>7
<1> QED
  BY <1>4, <1>5, <1>6, <1>7

LEMMA WrapRest ==
  ASSUME NEW n \in Int
  PROVE  \E q \in Int : n = wrap(n) + Word * q
<1> DEFINE half == Word \div 2
           x == n + half
<1>1. Word \in Nat /\ Word > 0 /\ half \in Nat
  <2>1. Word > 0
    BY Words
  <2> QED
    BY <2>1, Words
<1>2. x \div Word \in Int /\ x = Word * (x \div Word) + (x % Word) /\ x % Word \in Int
  <2> DEFINE W == Word
  <2>1. W \in Nat /\ W > 0 /\ x \in Int
    BY <1>1
  <2> HIDE DEF W, x
  <2> QED
    BY <2>1 DEF W
<1>3. wrap(n) = (x % Word) - half
  BY DEF wrap
<1> HIDE DEF x
<1>4. x = n + half
  BY DEF x
<1>5. n = wrap(n) + Word * (x \div Word)
  <2>1. Word * (x \div Word) \in Int
    BY <1>1, <1>2
  <2> HIDE DEF half
  <2> QED
    BY <1>1, <1>2, <1>3, <1>4, <2>1
<1> QED
  BY <1>2, <1>5

LEMMA WrapSum ==
  ASSUME NEW a \in Int, NEW b \in Int
  PROVE  wrap(wrap(a) + b) = wrap(a + b)
<1>1. Word \in Nat /\ wrap(a) \in Int /\ wrap(a) \in CInt /\ wrap(a + b) \in CInt
  <2>1. \A v \in CInt : v \in Int
    BY Words DEF CInt
  <2> QED
    BY <2>1, Words, WrapIsInt
<1>2. PICK p \in Int : a = wrap(a) + Word * p
  BY WrapRest
<1>3. PICK q \in Int : a + b = wrap(a + b) + Word * q
  BY WrapRest
<1>4. PICK r \in Int : wrap(a) + b = wrap(wrap(a) + b) + Word * r
  <2> DEFINE x == wrap(a) + b
  <2>1. x \in Int
    BY <1>1
  <2> HIDE DEF x
  <2>2. \E r \in Int : x = wrap(x) + Word * r
    BY <2>1, WrapRest
  <2> QED
    BY <2>2 DEF x
<1>5. wrap(wrap(a) + b) \in CInt /\ wrap(wrap(a) + b) \in Int /\ wrap(a + b) \in Int
  <2>1. \A v \in CInt : v \in Int
    BY Words DEF CInt
  <2> QED
    BY <1>1, <2>1, WrapIsInt
<1> DEFINE W == Word
           wa == wrap(a)
           ws == wrap(a + b)
           ww == wrap(wrap(a) + b)
<1>6. W \in Int /\ wa \in Int /\ ws \in Int /\ ww \in Int /\ a = wa + W * p
      /\ a + b = ws + W * q /\ wa + b = ww + W * r
  BY <1>1, <1>2, <1>3, <1>4, <1>5
<1> HIDE DEF W, wa, ws, ww
<1>7. ww + W * (r + p) = ws + W * q
  <2>1. W * (r + p) = W * r + W * p /\ W * r \in Int /\ W * p \in Int /\ W * q \in Int
    BY <1>6
  <2> QED
    BY <1>6, <2>1
<1>8. r + p \in Int
  OBVIOUS
<1> QED
  BY <1>1, <1>5, <1>7, <1>8, OneIntOfWord DEF W, ws, ww
-----------------------------------------------------------------------------
(* The folds over a list from its first item on. *)
Greatest(n) == [t \in SUBSET (1 .. n) |-> Max(t)]

IsLeftFold(g, n, T, base, step) ==
  /\ g \in [SUBSET (1 .. n) -> T]
  /\ g[{}] = base
  /\ \A t \in SUBSET (1 .. n) : t # {} =>
       /\ Max(t) \in 1 .. n /\ g[t \ {Max(t)}] \in T
       /\ g[t] = step[<<Max(t), g[t \ {Max(t)}]>>]

LEMMA LeftFoldExists ==
  ASSUME NEW n \in Nat, NEW T, NEW base, base \in T, NEW step, IsStep(step, 1 .. n, T)
  PROVE  \E g : IsLeftFold(g, n, T, base, step)
<1> DEFINE D == 1 .. n
<1>1. IsFiniteSet(D)
  BY FS_Interval
<1>2. \A t \in SUBSET D : t # {} => Max(t) \in t
  BY MaxOf
<1>3. \A t \in SUBSET D : Greatest(n)[t] = Max(t)
  BY DEF Greatest
<1>4. IsChoice(Greatest(n), D)
  BY <1>2, <1>3 DEF IsChoice
<1> HIDE DEF D
<1>5. PICK g : IsFold(g, D, T, base, Greatest(n), step)
  BY <1>1, <1>4, FoldExists DEF D
<1>6. g \in [SUBSET D -> T] /\ g[{}] = base
  BY <1>5 DEF IsFold
<1>7. ASSUME NEW t \in SUBSET D, t # {}
      PROVE  /\ Max(t) \in D /\ g[t \ {Max(t)}] \in T
             /\ g[t] = step[<<Max(t), g[t \ {Max(t)}]>>]
  <2>1. Max(t) \in D /\ t \ {Max(t)} \in SUBSET D
    BY <1>2, <1>7
  <2>2. g[t] = step[<<Greatest(n)[t], g[t \ {Greatest(n)[t]}]>>]
    BY <1>5, <1>7 DEF IsFold
  <2> QED
    BY <1>3, <1>6, <2>1, <2>2
<1>8. IsLeftFold(g, n, T, base, step)
  BY <1>6, <1>7 DEF D, IsLeftFold
<1> QED
  BY <1>8

(* What Open adds up: one record after the other. *)
LEMMA CacheFold ==
  ASSUME NEW n \in Nat, IsSeq(scanned), Len(scanned) = n,
         \A i \in 1 .. n : kee_ledger_parse_item_db(scanned[i]).delta \in Number
  PROVE  \E c :
           /\ c[0] = NoCache
           /\ \A k \in 1 .. n :
                c[k] = IF verified(scanned[k])
                       THEN apply_cache(c[k - 1], kee_ledger_parse_item_db(scanned[k]))
                       ELSE c[k - 1]
           /\ c[n] = FoldLeft(LAMBDA b, r : IF verified(r)
                                            THEN apply_cache(b, kee_ledger_parse_item_db(r))
                                            ELSE b,
                              NoCache, scanned)
<1> DEFINE D == 1 .. n
           op(b, r) == IF verified(r) THEN apply_cache(b, kee_ledger_parse_item_db(r)) ELSE b
           next(h, t) == IF t = {} THEN NoCache ELSE op(h[t \ {Max(t)}], scanned[Max(t)])
           loop == CHOOSE h : h = [t \in SUBSET D |-> next(h, t)]
           T == [count : Nat, alice_credit : CInt, alice_collateral : CInt,
                 bob_credit : CInt, bob_collateral : CInt]
           step == [x \in D \X T |-> op(x[2], scanned[x[1]])]
           c == [k \in 0 .. n |-> loop[1 .. k]]
<1>1. DOMAIN scanned = D
  BY IsSeqFacts
<1>2. FoldLeft(LAMBDA b, r : IF verified(r) THEN apply_cache(b, kee_ledger_parse_item_db(r)) ELSE b,
               NoCache, scanned) = loop[D]
  BY <1>1 DEF FoldLeft, MapThenFoldSet
<1>3. NoCache \in T
  <2>1. 0 \in CInt
    BY Words DEF CInt
  <2> QED
    BY <2>1 DEF NoCache
<1>4. \A x \in CInt : x \in Int
  BY Words DEF CInt
<1>5. ASSUME NEW b \in T, NEW item, item.delta \in Number
      PROVE  apply_cache(b, item) \in T
  <2>1. /\ item.delta.credit \in Int /\ item.delta.collateral \in Int
        /\ b.alice_credit \in Int /\ b.alice_collateral \in Int
        /\ b.bob_credit \in Int /\ b.bob_collateral \in Int
    BY <1>4, <1>5 DEF Number
  <2>2. /\ wrap(b.alice_credit + item.delta.credit) \in CInt
        /\ wrap(b.alice_collateral + item.delta.collateral) \in CInt
        /\ wrap(b.bob_credit + item.delta.credit) \in CInt
        /\ wrap(b.bob_collateral + item.delta.collateral) \in CInt
    BY <2>1, WrapIsInt
  <2> DEFINE n1 == b.count + 1
             ac == wrap(b.alice_credit + item.delta.credit)
             ao == wrap(b.alice_collateral + item.delta.collateral)
             bc == wrap(b.bob_credit + item.delta.credit)
             bo == wrap(b.bob_collateral + item.delta.collateral)
  <2>3. n1 \in Nat
    OBVIOUS
  <2> HIDE DEF n1, ac, ao, bc, bo
  <2>4. CASE item.initiator = "BOB"
    <3>1. apply_cache(b, item) =
            [b EXCEPT !.count = n1, !.bob_credit = bc, !.bob_collateral = bo]
      BY <2>4 DEF apply_cache, n1, bc, bo
    <3> QED
      BY <2>2, <2>3, <3>1 DEF bc, bo
  <2>5. CASE item.initiator # "BOB"
    <3>1. apply_cache(b, item) =
            [b EXCEPT !.count = n1, !.alice_credit = ac, !.alice_collateral = ao]
      BY <2>5 DEF apply_cache, n1, ac, ao
    <3> QED
      BY <2>2, <2>3, <3>1 DEF ac, ao
  <2> QED
    BY <2>4, <2>5
<1>6. ASSUME NEW b \in T, NEW i \in D PROVE op(b, scanned[i]) \in T
  BY <1>5
<1> HIDE DEF op, T
<1>7. IsStep(step, D, T)
  BY <1>6 DEF IsStep
<1>8. PICK g : IsLeftFold(g, n, T, NoCache, step)
  <2> HIDE DEF step
  <2>1. \E g : IsLeftFold(g, n, T, NoCache, step)
    BY <1>3, <1>7, LeftFoldExists
  <2> QED
    BY <2>1
<1>9. \A i \in D, b \in T : step[<<i, b>>] = op(b, scanned[i])
  OBVIOUS
<1> HIDE DEF step, D
<1>10. g = [t \in SUBSET D |-> next(g, t)]
  <2>1. ASSUME NEW t \in SUBSET D PROVE g[t] = next(g, t)
    BY <1>8, <1>9 DEF IsLeftFold, D
  <2> HIDE DEF next
  <2> QED
    BY <1>8, <2>1 DEF IsLeftFold, D
<1>11. loop = [t \in SUBSET D |-> next(loop, t)]
  <2> HIDE DEF next
  <2> QED
    BY <1>10, Zenon
<1>12. \A t \in SUBSET D : loop[t] = next(loop, t)
  <2> HIDE DEF loop, next
  <2> QED
    BY <1>11, Zenon
<1> HIDE DEF loop
<1>13. c[0] = NoCache
  <2>1. 1 .. 0 = {} /\ 0 \in 0 .. n /\ {} \in SUBSET D
    OBVIOUS
  <2>2. loop[{}] = NoCache
    BY <1>12, <2>1
  <2> QED
    BY <2>1, <2>2
<1>14. ASSUME NEW k \in 1 .. n PROVE c[k] = op(c[k - 1], scanned[k])
  <2>1. /\ 1 .. k \in SUBSET D /\ 1 .. k # {}
        /\ Max(1 .. k) = k /\ (1 .. k) \ {k} = 1 .. k - 1
    BY Prefix DEF D
  <2>2. loop[1 .. k] = op(loop[1 .. k - 1], scanned[k])
    BY <1>12, <2>1
  <2>3. k \in 0 .. n /\ k - 1 \in 0 .. n
    OBVIOUS
  <2> QED
    BY <2>2, <2>3
<1>15. c[n] = loop[D]
  BY DEF D
<1> HIDE DEF c
<1>16. \A k \in 1 .. n : c[k] = IF verified(scanned[k])
                                 THEN apply_cache(c[k - 1], kee_ledger_parse_item_db(scanned[k]))
                                 ELSE c[k - 1]
  BY <1>14 DEF op
<1> QED
  BY <1>2, <1>13, <1>15, <1>16

Counts(role, item) == item.initiator = role /\ Countersigned(item)

IsSum(c, n, role, part) ==
  /\ c \in [0 .. n -> Int] /\ c[0] = 0
  /\ \A k \in 1 .. n :
       c[k] = IF Counts(role, Newest[k]) THEN c[k - 1] + Newest[k].delta[part]
              ELSE c[k - 1]
  /\ Total(role, part) = wrap(c[n])

LEMMA SumFold ==
  ASSUME NEW n \in Nat, IsSeq(Newest), Len(Newest) = n, NEW role, NEW part,
         \A i \in 1 .. n : Newest[i].delta[part] \in Int
  PROVE  \E c : IsSum(c, n, role, part)
<1> DEFINE D == 1 .. n
           op(sum, item) == IF item.initiator = role /\ Countersigned(item)
                            THEN sum + item.delta[part] ELSE sum
           next(h, t) == IF t = {} THEN 0 ELSE op(h[t \ {Max(t)}], Newest[Max(t)])
           loop == CHOOSE h : h = [t \in SUBSET D |-> next(h, t)]
           step == [x \in D \X Int |-> op(x[2], Newest[x[1]])]
           c == [k \in 0 .. n |-> loop[1 .. k]]
<1>1. DOMAIN Newest = D
  BY IsSeqFacts
<1>2. Total(role, part) = wrap(loop[D])
  BY <1>1 DEF Total, FoldLeft, MapThenFoldSet
<1>3. ASSUME NEW b \in Int, NEW i \in D PROVE op(b, Newest[i]) \in Int
  OBVIOUS
<1> HIDE DEF op
<1>4. IsStep(step, D, Int)
  BY <1>3 DEF IsStep
<1>5. PICK g : IsLeftFold(g, n, Int, 0, step)
  <2> HIDE DEF step
  <2> DEFINE T == Int
  <2>1. 0 \in T /\ IsStep(step, D, T)
    BY <1>4
  <2> HIDE DEF T
  <2>2. \E g : IsLeftFold(g, n, T, 0, step)
    BY <2>1, LeftFoldExists
  <2> QED
    BY <2>2 DEF T
<1>6. \A i \in D, b \in Int : step[<<i, b>>] = op(b, Newest[i])
  OBVIOUS
<1> HIDE DEF step, D
<1>7. g = [t \in SUBSET D |-> next(g, t)]
  <2>1. ASSUME NEW t \in SUBSET D PROVE g[t] = next(g, t)
    BY <1>5, <1>6 DEF IsLeftFold, D
  <2> HIDE DEF next
  <2> QED
    BY <1>5, <2>1 DEF IsLeftFold, D
<1>8. loop = [t \in SUBSET D |-> next(loop, t)]
  <2> HIDE DEF next
  <2> QED
    BY <1>7, Zenon
<1>9. \A t \in SUBSET D : loop[t] = next(loop, t)
  <2> HIDE DEF loop, next
  <2> QED
    BY <1>8, Zenon
<1> HIDE DEF loop
<1>10. c[0] = 0
  <2>1. 1 .. 0 = {} /\ 0 \in 0 .. n /\ {} \in SUBSET D
    OBVIOUS
  <2>2. loop[{}] = 0
    BY <1>9, <2>1
  <2> QED
    BY <2>1, <2>2
<1>11. ASSUME NEW k \in 1 .. n PROVE c[k] = op(c[k - 1], Newest[k])
  <2>1. /\ 1 .. k \in SUBSET D /\ 1 .. k # {}
        /\ Max(1 .. k) = k /\ (1 .. k) \ {k} = 1 .. k - 1
    BY Prefix DEF D
  <2>2. loop[1 .. k] = op(loop[1 .. k - 1], Newest[k])
    BY <1>9, <2>1
  <2>3. k \in 0 .. n /\ k - 1 \in 0 .. n
    OBVIOUS
  <2> QED
    BY <2>2, <2>3
<1>12. c[n] = loop[D]
  BY DEF D
<1>13. \A k \in 0 .. n : c[k] \in Int
  <2> DEFINE Good == {k \in 0 .. n : c[k] \in Int}
  <2> HIDE DEF c
  <2>1. 0 \in Good
    BY <1>10
  <2>2. ASSUME NEW k \in 0 .. n - 1, k \in Good PROVE k + 1 \in Good
    <3>1. k + 1 \in 1 .. n /\ k + 1 \in 0 .. n /\ (k + 1) - 1 = k /\ k + 1 \in D
      BY DEF D
    <3>2. c[k + 1] = op(c[k], Newest[k + 1])
      BY <1>11, <3>1
    <3> QED
      BY <1>3, <2>2, <3>1, <3>2
  <2> HIDE DEF Good
  <2>3. \A k \in 0 .. n : k \in Good
    BY <2>1, <2>2, UpTo
  <2> QED
    BY <2>3 DEF Good
<1>14. c \in [0 .. n -> Int]
  BY <1>13
<1> HIDE DEF c
<1>15. \A k \in 1 .. n : c[k] = IF Counts(role, Newest[k]) THEN c[k - 1] + Newest[k].delta[part]
                                 ELSE c[k - 1]
  BY <1>11 DEF op, Counts
<1>16. IsSum(c, n, role, part)
  BY <1>2, <1>10, <1>12, <1>14, <1>15 DEF IsSum
<1> QED
  BY <1>16
-----------------------------------------------------------------------------
(* Open. *)
LEMMA OpenedList ==
  ASSUME Stored(disk, Newest), Open
  PROVE  /\ Len(Newest) \in Nat /\ DOMAIN Newest = 1 .. Len(Newest)
         /\ list' = [i \in 1 .. Len(Newest) |-> Reopened(Newest[i])]
         /\ list' \in Seq({Reopened(Newest[i]) : i \in 1 .. Len(Newest)})
         /\ Len(list') = Len(Newest) /\ IsSeq(list')
<1> DEFINE w == Newest
           n == Len(w)
           S == {Reopened(w[i]) : i \in 1 .. n}
<1>1. /\ n \in Nat /\ DOMAIN scanned = 1 .. n /\ DOMAIN w = 1 .. n
      /\ \A i \in 1 .. n : IsItem(w[i]) /\ Keeps(scanned[i], w[i])
  BY Scan
<1>2. \A i \in 1 .. n : kee_ledger_parse_item_db(scanned[i]) = Reopened(w[i])
  BY <1>1, Parsed
<1>3. list' = [i \in 1 .. n |-> Reopened(w[i])]
  BY <1>1, <1>2 DEF Open
<1>4. [i \in 1 .. n |-> Reopened(w[i])] \in Seq(S)
  <2>1. \A i \in 1 .. n : Reopened(w[i]) \in S
    OBVIOUS
  <2> HIDE DEF n, S, w
  <2> QED
    BY <1>1, <2>1
<1>5. IsSeq(list')
  BY <1>3, <1>4, SeqIsSeq
<1>6. Len(list') = n
  <2>1. DOMAIN list' = 1 .. n
    BY <1>3
  <2>2. Len(list') \in Nat /\ DOMAIN list' = 1 .. Len(list')
    BY <1>5, IsSeqFacts
  <2> HIDE DEF n
  <2> QED
    BY <1>1, <2>1, <2>2
<1> QED
  BY <1>1, <1>3, <1>4, <1>5, <1>6

CountTo(k) == Cardinality({i \in 1 .. k : Countersigned(Newest[i])})

LEMMA CountStep ==
  ASSUME NEW k \in Nat
  PROVE  /\ CountTo(0) = 0 /\ CountTo(k) \in Nat
         /\ CountTo(k) <= k
         /\ CountTo(k + 1) = CountTo(k) + IF Countersigned(Newest[k + 1]) THEN 1 ELSE 0
<1> DEFINE C(j) == {i \in 1 .. j : Countersigned(Newest[i])}
           x == k + 1
<1>1. IsFiniteSet(C(k)) /\ Cardinality(C(k)) \in Nat /\ Cardinality(C(k)) <= k
  <2>1. C(k) \in SUBSET (1 .. k)
    OBVIOUS
  <2>2. IsFiniteSet(1 .. k) /\ Cardinality(1 .. k) = k
    BY FS_Interval
  <2> HIDE DEF C
  <2>3. IsFiniteSet(C(k)) /\ Cardinality(C(k)) <= Cardinality(1 .. k)
    BY <2>1, <2>2, FS_Subset
  <2> QED
    BY <2>2, <2>3, FS_CardinalityType
<1>2. C(0) = {}
  OBVIOUS
<1>3. C(k + 1) = IF Countersigned(Newest[x]) THEN C(k) \cup {x} ELSE C(k)
  <2>1. 1 .. k + 1 = (1 .. k) \cup {x}
    OBVIOUS
  <2> HIDE DEF x
  <2> QED
    BY <2>1
<1>4. x \notin C(k)
  OBVIOUS
<1>5. CountTo(0) = Cardinality(C(0)) /\ CountTo(k) = Cardinality(C(k))
      /\ CountTo(k + 1) = Cardinality(C(k + 1))
  BY DEF CountTo
<1> HIDE DEF C, x
<1>6. Cardinality(C(k) \cup {x}) = Cardinality(C(k)) + 1
  BY <1>1, <1>4, FS_AddElement
<1>7. CountTo(k + 1) = CountTo(k) + IF Countersigned(Newest[x]) THEN 1 ELSE 0
  <2>1. CASE Countersigned(Newest[x])
    BY <1>3, <1>5, <1>6, <2>1
  <2>2. CASE ~Countersigned(Newest[x])
    BY <1>1, <1>3, <1>5, <2>2
  <2> QED
    BY <2>1, <2>2
<1> QED
  BY <1>1, <1>2, <1>5, <1>7, FS_EmptySet DEF x

LEMMA OpenedCache ==
  ASSUME Stored(disk, Newest), Open
  PROVE  cache' = [count |-> CountTo(Len(Newest)),
                   alice_credit |-> Total("ALICE", "credit"),
                   alice_collateral |-> Total("ALICE", "collateral"),
                   bob_credit |-> Total("BOB", "credit"),
                   bob_collateral |-> Total("BOB", "collateral")]
<1> DEFINE w == Newest
           n == Len(w)
<1>1. /\ n \in Nat /\ IsSeq(scanned) /\ Len(scanned) = n
      /\ \A i \in 1 .. n : IsItem(w[i]) /\ Keeps(scanned[i], w[i])
  BY Scan
<1>2. IsSeq(w)
  BY DEF Stored, IsSeq
<1>3. \A i \in 1 .. n : /\ verified(scanned[i]) <=> Countersigned(w[i])
                       /\ kee_ledger_parse_item_db(scanned[i]) = Reopened(w[i])
                       /\ IsItem(Reopened(w[i]))
  BY <1>1, Parsed
<1>4. \A item : IsItem(item) =>
        /\ item.delta \in Number /\ item.initiator \in {"ALICE", "BOB"}
        /\ item.delta["credit"] \in Int /\ item.delta["collateral"] \in Int
  BY Words DEF IsItem, Number, CInt, Roles
<1>5. PICK c :
        /\ c[0] = NoCache
        /\ \A k \in 1 .. n : c[k] = IF verified(scanned[k])
                                   THEN apply_cache(c[k - 1], kee_ledger_parse_item_db(scanned[k]))
                                   ELSE c[k - 1]
        /\ c[n] = cache'
  <2>1. \A i \in 1 .. n : kee_ledger_parse_item_db(scanned[i]).delta \in Number
    BY <1>3, <1>4
  <2> HIDE DEF n
  <2> QED
    BY <1>1, <2>1, CacheFold DEF Open
<1>6. ASSUME NEW role, NEW part \in {"credit", "collateral"}
      PROVE  \E sum : IsSum(sum, n, role, part)
  <2>1. \A i \in 1 .. n : w[i].delta[part] \in Int
    BY <1>1, <1>4
  <2> HIDE DEF n
  <2> QED
    BY <1>1, <1>2, <2>1, SumFold DEF n
<1>7. PICK ac : IsSum(ac, n, "ALICE", "credit")
  BY <1>6
<1>8. PICK ao : IsSum(ao, n, "ALICE", "collateral")
  BY <1>6
<1>9. PICK bc : IsSum(bc, n, "BOB", "credit")
  BY <1>6
<1>10. PICK bo : IsSum(bo, n, "BOB", "collateral")
  BY <1>6
<1> DEFINE sums(k) == [count |-> CountTo(k), alice_credit |-> wrap(ac[k]),
                       alice_collateral |-> wrap(ao[k]), bob_credit |-> wrap(bc[k]),
                       bob_collateral |-> wrap(bo[k])]
           Good == {k \in 0 .. n : c[k] = sums(k)}
<1> HIDE DEF w, n
<1>11. 0 \in Good
  <2>1. wrap(0) = 0
    <3>1. 0 \in CInt
      BY Words DEF CInt
    <3> QED
      BY <3>1, WrapIsInt
  <2>2. CountTo(0) = 0
    BY CountStep
  <2> QED
    BY <1>1, <1>5, <1>7, <1>8, <1>9, <1>10, <2>1, <2>2 DEF NoCache, IsSum
<1>12. ASSUME NEW k \in 0 .. n - 1, k \in Good PROVE k + 1 \in Good
  <2> DEFINE j == k + 1
             item == w[j]
             x == item.delta.credit
             y == item.delta.collateral
  <2>1. j \in 1 .. n /\ j - 1 = k /\ k \in 0 .. n /\ j \in 0 .. n /\ k \in Nat
    BY <1>1
  <2>2. IsItem(item) /\ x \in Int /\ y \in Int /\ item.initiator \in {"ALICE", "BOB"}
        /\ item.delta["credit"] = x /\ item.delta["collateral"] = y
    BY <1>1, <1>4, <2>1
  <2>3. c[k] = sums(k)
    BY <1>12
  <2>4. CountTo(j) = CountTo(k) + IF Countersigned(item) THEN 1 ELSE 0
    BY <2>1, CountStep DEF w
  <2>5. c[j] = IF Countersigned(item) THEN apply_cache(c[k], item) ELSE c[k]
    BY <1>3, <1>5, <2>1 DEF Reopened
  <2>6. /\ ac[k] \in Int /\ ao[k] \in Int /\ bc[k] \in Int /\ bo[k] \in Int
        /\ CountTo(k) \in Nat
    BY <1>7, <1>8, <1>9, <1>10, <2>1, CountStep DEF IsSum
  <2>7. /\ ac[j] = IF Counts("ALICE", item) THEN ac[k] + x ELSE ac[k]
        /\ ao[j] = IF Counts("ALICE", item) THEN ao[k] + y ELSE ao[k]
        /\ bc[j] = IF Counts("BOB", item) THEN bc[k] + x ELSE bc[k]
        /\ bo[j] = IF Counts("BOB", item) THEN bo[k] + y ELSE bo[k]
    BY <1>7, <1>8, <1>9, <1>10, <2>1, <2>2 DEF IsSum, w
  <2>8. /\ wrap(wrap(ac[k]) + x) = wrap(ac[k] + x) /\ wrap(wrap(ao[k]) + y) = wrap(ao[k] + y)
        /\ wrap(wrap(bc[k]) + x) = wrap(bc[k] + x) /\ wrap(wrap(bo[k]) + y) = wrap(bo[k] + y)
    BY <2>2, <2>6, WrapSum
  <2> HIDE DEF j, item, x, y
  <2>9. c[j] = sums(j)
    <3>1. CASE ~Countersigned(item)
      BY <2>3, <2>4, <2>5, <2>6, <2>7, <3>1 DEF Counts
    <3>2. CASE Countersigned(item) /\ item.initiator = "BOB"
      <4>1. /\ CountTo(j) = CountTo(k) + 1
            /\ ac[j] = ac[k] /\ ao[j] = ao[k] /\ bc[j] = bc[k] + x /\ bo[j] = bo[k] + y
        BY <2>4, <2>7, <3>2 DEF Counts
      <4>2. apply_cache(c[k], item) =
              [c[k] EXCEPT !.count = c[k].count + 1,
                           !.bob_credit = wrap(c[k].bob_credit + x),
                           !.bob_collateral = wrap(c[k].bob_collateral + y)]
        BY <3>2 DEF apply_cache, x, y
      <4>3. /\ c[k].count + 1 = CountTo(j)
            /\ wrap(c[k].bob_credit + x) = wrap(bc[j])
            /\ wrap(c[k].bob_collateral + y) = wrap(bo[j])
        BY <2>3, <2>8, <4>1
      <4>4. c[j] = [sums(k) EXCEPT !.count = CountTo(j), !.bob_credit = wrap(bc[j]),
                                   !.bob_collateral = wrap(bo[j])]
        BY <2>3, <2>5, <3>2, <4>2, <4>3
      <4> QED
        BY <4>1, <4>4
    <3>3. CASE Countersigned(item) /\ item.initiator = "ALICE"
      <4>1. /\ CountTo(j) = CountTo(k) + 1
            /\ ac[j] = ac[k] + x /\ ao[j] = ao[k] + y /\ bc[j] = bc[k] /\ bo[j] = bo[k]
        BY <2>4, <2>7, <3>3 DEF Counts
      <4>2. apply_cache(c[k], item) =
              [c[k] EXCEPT !.count = c[k].count + 1,
                           !.alice_credit = wrap(c[k].alice_credit + x),
                           !.alice_collateral = wrap(c[k].alice_collateral + y)]
        BY <3>3 DEF apply_cache, x, y
      <4>3. /\ c[k].count + 1 = CountTo(j)
            /\ wrap(c[k].alice_credit + x) = wrap(ac[j])
            /\ wrap(c[k].alice_collateral + y) = wrap(ao[j])
        BY <2>3, <2>8, <4>1
      <4>4. c[j] = [sums(k) EXCEPT !.count = CountTo(j), !.alice_credit = wrap(ac[j]),
                                   !.alice_collateral = wrap(ao[j])]
        BY <2>3, <2>5, <3>3, <4>2, <4>3
      <4> QED
        BY <4>1, <4>4
    <3> QED
      BY <2>2, <3>1, <3>2, <3>3
  <2> QED
    BY <2>1, <2>9 DEF j
<1>13. n \in Good
  <2>1. n \in 0 .. n
    BY <1>1
  <2> HIDE DEF Good
  <2> QED
    BY <1>1, <1>11, <1>12, <2>1, UpTo
<1> QED
  BY <1>5, <1>7, <1>8, <1>9, <1>10, <1>13 DEF n, w, IsSum
-----------------------------------------------------------------------------
(* What adding and signing make of an item. *)
LEMMA Added ==
  ASSUME NEW d \in Delta, NEW x, x = [kee_ledger_add_item("ALICE") EXCEPT !.delta = d]
  PROVE  /\ IsItem(x) /\ x.initiator = "ALICE" /\ x.delta = d
         /\ x.alice_signature = Zeroes /\ x.bob_signature = Zeroes
<1>1. d \in Number
  BY ChainAssumption
<1>2. x = [initiator |-> "ALICE", delta |-> d, response |-> FALSE,
           alice_signature |-> Zeroes, bob_signature |-> Zeroes]
  BY DEF kee_ledger_add_item
<1>3. /\ x.initiator = "ALICE" /\ x.delta = d
      /\ x.alice_signature = Zeroes /\ x.bob_signature = Zeroes
  BY <1>2
<1>4. x \in [initiator : Roles, delta : Number, response : BOOLEAN,
             alice_signature : {Zeroes}, bob_signature : {Zeroes}]
  <2>1. ASSUME NEW z, NEW N, NEW e \in N, NEW B, FALSE \in B,
               NEW q, q = [initiator |-> "ALICE", delta |-> e, response |-> FALSE,
                           alice_signature |-> z, bob_signature |-> z]
        PROVE  q \in [initiator : Roles, delta : N, response : B,
                      alice_signature : {z}, bob_signature : {z}]
    BY <2>1 DEF Roles
  <2>2. PICK B : B = BOOLEAN
    OBVIOUS
  <2>3. FALSE \in B
    BY <2>2
  <2> HIDE DEF Number, Roles
  <2>4. x \in [initiator : Roles, delta : Number, response : B,
               alice_signature : {Zeroes}, bob_signature : {Zeroes}]
    BY <1>1, <1>2, <2>1, <2>3
  <2> QED
    BY <2>2, <2>4
<1> QED
  BY <1>3, <1>4 DEF IsItem

LEMMA RequestEntryOf ==
  ASSUME NEW x, NEW y, x.delta = y.delta, NEW before
  PROVE  kee_ledger_item_serialize(x, before, "REQUEST") =
           kee_ledger_item_serialize(y, before, "REQUEST")
BY DEF kee_ledger_item_serialize

LEMMA Requested ==
  ASSUME NEW item, IsItem(item), item.initiator = "ALICE", NEW before,
         NEW y, y = kee_ledger_sign(head.alice, head, item, before)
  PROVE  /\ IsItem(y) /\ y.initiator = "ALICE" /\ y.delta = item.delta
         /\ y.bob_signature = item.bob_signature
         /\ y.alice_signature # Zeroes
         /\ signature_request(y) =
              Signed(pubkey_first("ALICE"), head, kee_ledger_item_serialize(y, before, "REQUEST"))
<1> DEFINE signature == Signed(head.alice, head, kee_ledger_item_serialize(item, before, "REQUEST"))
<1>1. y = [item EXCEPT !.alice_signature = signature]
  BY DEF kee_ledger_sign, sign_mode
<1>2. signature # Zeroes
  BY ChainAssumption DEF Signed
<1>3. y = [initiator |-> "ALICE", delta |-> item.delta, response |-> item.response,
           alice_signature |-> signature, bob_signature |-> item.bob_signature]
  <2> HIDE DEF signature
  <2> QED
    BY <1>1 DEF IsItem
<1>4. signature = Signed(head.alice, head, kee_ledger_item_serialize(y, before, "REQUEST"))
  BY <1>3, RequestEntryOf
<1> HIDE DEF signature
<1>5. IsItem(y)
  BY <1>3 DEF IsItem
<1>6. signature_request(y) = signature /\ pubkey_first("ALICE") = head.alice
  BY <1>3 DEF signature_request, pubkey_first
<1> QED
  BY <1>2, <1>3, <1>4, <1>5, <1>6

Answered(item, p, before) ==
  LET to == [item EXCEPT !.response = TRUE]
      swap == [to EXCEPT !.initiator = "BOB", !.alice_signature = Zeroes,
                         !.bob_signature = to.alice_signature]
  IN  [to EXCEPT !.bob_signature = kee_ledger_sign(p, head, swap, before).alice_signature]

LEMMA Swapped ==
  ASSUME NEW a, NEW b, NEW D,
         NEW to \in [initiator : Roles, delta : D, response : BOOLEAN,
                     alice_signature : {a}, bob_signature : {b}],
         NEW swap, swap = [to EXCEPT !.initiator = "BOB", !.alice_signature = Zeroes,
                                     !.bob_signature = a]
  PROVE  /\ swap.initiator = "BOB" /\ swap.delta = to.delta
         /\ swap.response = to.response /\ swap.bob_signature = a
         /\ "alice_signature" \in DOMAIN swap
<1>1. swap.initiator = "BOB"
  OBVIOUS
<1>2. swap.delta = to.delta
  OBVIOUS
<1>3. swap.response = to.response
  OBVIOUS
<1>4. swap.bob_signature = a
  OBVIOUS
<1>5. DOMAIN swap = DOMAIN to
  OBVIOUS
<1> QED
  BY <1>1, <1>2, <1>3, <1>4, <1>5

LEMMA Responded ==
  ASSUME NEW item, IsItem(item), item.initiator = "ALICE", NEW p, NEW before,
         NEW y, y = Answered(item, p, before)
  PROVE  /\ IsItem(y) /\ y.initiator = "ALICE" /\ y.delta = item.delta
         /\ y.alice_signature = item.alice_signature
         /\ signature_response(y) =
              Signed(p, head, kee_ledger_item_serialize(y, before, "RESPONSE"))
<1> DEFINE to == [item EXCEPT !.response = TRUE]
           swap == [to EXCEPT !.initiator = "BOB", !.alice_signature = Zeroes,
                              !.bob_signature = to.alice_signature]
           signature == Signed(p, head, kee_ledger_item_serialize(swap, before, "RESPONSE"))
<1>1. to.response = TRUE
  BY DEF IsItem
<1>2. /\ to.initiator = "ALICE" /\ to.delta = item.delta
      /\ to.alice_signature = item.alice_signature
  BY DEF IsItem
<1>3. to \in [initiator : Roles, delta : Number, response : BOOLEAN,
             alice_signature : {item.alice_signature}, bob_signature : {item.bob_signature}]
  <2> HIDE DEF Number, Roles
  <2> QED
    BY DEF IsItem
<1>4. y = [to EXCEPT !.bob_signature = kee_ledger_sign(p, head, swap, before).alice_signature]
  BY DEF Answered
<1> HIDE DEF to
<1>5. /\ swap.initiator = "BOB" /\ swap.delta = item.delta
      /\ swap.response = TRUE /\ swap.bob_signature = item.alice_signature
      /\ "alice_signature" \in DOMAIN swap
  <2>1. swap = [to EXCEPT !.initiator = "BOB", !.alice_signature = Zeroes,
                          !.bob_signature = item.alice_signature]
    BY <1>2
  <2> HIDE DEF swap, Number, Roles
  <2> QED
    BY <1>1, <1>2, <1>3, <2>1, Swapped
<1> HIDE DEF swap
<1>6. kee_ledger_sign(p, head, swap, before).alice_signature = signature
  BY <1>5 DEF kee_ledger_sign, sign_mode
<1>7. kee_ledger_item_serialize(swap, before, "RESPONSE") =
        [parent |-> before, delta |-> item.delta, response |-> TRUE,
         sigRequest |-> item.alice_signature, sigResponse |-> Absent]
  BY <1>5 DEF kee_ledger_item_serialize, signature_request
<1>8. y = [to EXCEPT !.bob_signature = signature]
  BY <1>4, <1>6
<1> HIDE DEF signature
<1>9. /\ y.initiator = "ALICE" /\ y.delta = item.delta
      /\ y.alice_signature = item.alice_signature
      /\ y.bob_signature = signature
  BY <1>2, <1>3, <1>8
<1>10. y.response = TRUE
  BY <1>1, <1>3, <1>8
<1>11. IsItem(y)
  <2>1. y \in [initiator : Roles, delta : Number, response : BOOLEAN,
               alice_signature : {item.alice_signature}, bob_signature : {signature}]
    <3> HIDE DEF Number, Roles
    <3> QED
      BY <1>3, <1>8
  <2> QED
    BY <1>9, <2>1 DEF IsItem
<1>12. kee_ledger_item_serialize(y, before, "RESPONSE") =
         [parent |-> before, delta |-> item.delta, response |-> TRUE,
          sigRequest |-> item.alice_signature, sigResponse |-> Absent]
  BY <1>9, <1>10 DEF kee_ledger_item_serialize, signature_request
<1>13. signature = Signed(p, head, kee_ledger_item_serialize(y, before, "RESPONSE"))
  BY <1>7, <1>12 DEF signature
<1>14. signature_response(y) = signature
  BY <1>9 DEF signature_response
<1> QED
  BY <1>9, <1>11, <1>13, <1>14

-----------------------------------------------------------------------------
(* The inductive invariant. *)
Data ==
  /\ IsList(list) /\ IsList(kept)
  /\ cache.count \in 0 .. MaxItems
  /\ {cache.alice_credit, cache.alice_collateral,
      cache.bob_credit, cache.bob_collateral} \subseteq CInt
  /\ session \in 1 .. MaxSessions

(* Where the records are from: as the generator left them, or made of the  *)
(* list in the memory of the process that put it.                          *)
Origin ==
  \/ \E seed \in Seeds : disk = seed.disk
  \/ Newest = kept => \E s \in 1 .. session : \A i \in DOMAIN kept : record(kept, s, i) \in disk

Disk ==
  /\ Stored(disk, Newest)
  /\ disk = {} => kept = << >> /\ Made(list, session)
  /\ Origin

(* A request signature was made over the item where it is, unless the item *)
(* is one that was found in the database and not touched in what it signs. *)
RequestMade(l, s, i) ==
  l[i].initiator = "ALICE" /\ signature_request(l[i]) # Zeroes => request_ok(l, s, i)

RequestKept(item, i) ==
  /\ i = Len(Newest) /\ Countersigned(Newest[i])
  /\ item.delta = Newest[i].delta
  /\ item.initiator = Newest[i].initiator
  /\ item.alice_signature = Newest[i].alice_signature

Opened(l, s) ==
  /\ Len(l) >= Len(Newest)
  /\ \A i \in 1 .. Len(Newest) - 1 : l[i] = Reopened(Newest[i])
  /\ \A i \in DOMAIN l : i >= Len(Newest) => RequestMade(l, s, i) \/ RequestKept(l[i], i)

AllMade(l, s) == \A i \in DOMAIN l : RequestMade(l, s, i)

Requests ==
  \/ AllMade(list, session)
  \/ session > 1 /\ cache.count = CountTo(Len(Newest)) /\ Opened(list, session)

IInv == Data /\ Disk /\ Requests

-----------------------------------------------------------------------------
(* How the last item may change: as far as the invariant goes. *)
Longer(m, l, x) ==
  /\ IsList(m) /\ Len(m) = Len(l) + 1
  /\ \A i \in 1 .. Len(l) : m[i] = l[i]
  /\ m[Len(l) + 1] = x

LEMMA AppendFacts ==
  ASSUME NEW l, IsList(l), Len(l) < MaxItems, NEW x, IsItem(x)
  PROVE  Longer(Append(l, x), l, x)
<1> PICK m : m = Append(l, x)
  OBVIOUS
<1> DEFINE S == {l[i] : i \in DOMAIN l} \cup {x}
           N == Len(l)
<1>1. N \in Nat /\ DOMAIN l = 1 .. N /\ l = [i \in 1 .. N |-> l[i]]
  BY IsSeqFacts DEF IsList
<1>2. l \in Seq(S)
  <2>1. \A i \in 1 .. N : l[i] \in S
    BY <1>1
  <2> HIDE DEF S, N
  <2>2. [i \in 1 .. N |-> l[i]] \in Seq(S)
    BY <1>1, <2>1
  <2> QED
    BY <1>1, <2>2
<1>3. x \in S
  OBVIOUS
<1> HIDE DEF S
<1>4. /\ m \in Seq(S) /\ Len(m) = N + 1
      /\ \A i \in 1 .. N : m[i] = l[i]
      /\ m[N + 1] = x
  BY <1>2, <1>3, AppendProperties
<1>5. IsSeq(m)
  BY <1>4, SeqIsSeq
<1>6. DOMAIN m = 1 .. N + 1
  BY <1>4, <1>5, IsSeqFacts
<1>7. ASSUME NEW i \in DOMAIN m PROVE IsItem(m[i])
  <2>1. i \in 1 .. N \/ i = N + 1
    BY <1>1, <1>6
  <2> QED
    BY <1>1, <1>4, <2>1 DEF IsList
<1>8. Len(m) <= MaxItems
  BY <1>1, <1>4, ChainAssumption
<1> QED
  BY <1>4, <1>5, <1>7, <1>8 DEF IsList, Longer

Replaced(m, l, x) ==
  /\ IsList(m) /\ Len(m) = Len(l)
  /\ \A i \in 1 .. Len(l) - 1 : m[i] = l[i]
  /\ m[Len(l)] = x

LEMMA ExceptFacts ==
  ASSUME NEW l, IsList(l), l # << >>, NEW x, IsItem(x)
  PROVE  Replaced([l EXCEPT ![Len(l)] = x], l, x)
<1> PICK m : m = [l EXCEPT ![Len(l)] = x]
  OBVIOUS
<1> DEFINE N == Len(l)
           T == {m[i] : i \in 1 .. N}
<1>1. N \in Nat /\ N > 0 /\ DOMAIN l = 1 .. N /\ l = [i \in 1 .. N |-> l[i]] /\ N <= MaxItems
  BY IsSeqFacts DEF IsList
<1> HIDE DEF N
<1>2. /\ DOMAIN m = 1 .. N /\ m[N] = x /\ m = [i \in 1 .. N |-> m[i]]
      /\ \A i \in 1 .. N - 1 : m[i] = l[i]
  <2>1. m = [l EXCEPT ![N] = x]
    BY DEF N
  <2>2. DOMAIN m = 1 .. N /\ m[N] = x
    BY <1>1, <2>1
  <2>3. m = [i \in 1 .. N |-> m[i]]
    BY <1>1, <2>1, <2>2
  <2>4. ASSUME NEW i \in 1 .. N - 1 PROVE m[i] = l[i]
    <3>1. i \in 1 .. N /\ i # N
      BY <1>1
    <3> QED
      BY <1>1, <2>1, <3>1
  <2> QED
    BY <2>2, <2>3, <2>4
<1>3. m \in Seq(T)
  <2>1. \A i \in 1 .. N : m[i] \in T
    OBVIOUS
  <2> HIDE DEF T
  <2>2. [i \in 1 .. N |-> m[i]] \in Seq(T)
    BY <1>1, <2>1
  <2> QED
    BY <1>2, <2>2
<1>4. IsSeq(m)
  BY <1>3, SeqIsSeq
<1>5. Len(m) = N
  <2>1. Len(m) \in Nat /\ DOMAIN m = 1 .. Len(m)
    BY <1>4, IsSeqFacts
  <2> QED
    BY <1>1, <1>2, <2>1
<1>6. ASSUME NEW i \in DOMAIN m PROVE IsItem(m[i])
  <2>1. i \in 1 .. N - 1 \/ i = N
    BY <1>1, <1>2
  <2>2. i \in 1 .. N - 1 => i \in DOMAIN l
    BY <1>1
  <2> QED
    BY <1>2, <2>1, <2>2 DEF IsList
<1> QED
  BY <1>1, <1>2, <1>4, <1>5, <1>6 DEF IsList, N, Replaced

LEMMA SameParent ==
  ASSUME NEW l, NEW m, NEW s, NEW i, i = 1 \/ m[i - 1] = l[i - 1]
  PROVE  parent(m, s, i) = parent(l, s, i)
BY DEF parent, memory

LEMMA RequestStays ==
  ASSUME NEW l, NEW m, NEW s, NEW i, i = 1 \/ m[i - 1] = l[i - 1],
         m[i].initiator = l[i].initiator, m[i].delta = l[i].delta,
         signature_request(m[i]) = signature_request(l[i]),
         RequestMade(l, s, i)
  PROVE  RequestMade(m, s, i)
<1>1. kee_ledger_item_serialize(m[i], parent(m, s, i), "REQUEST") =
        kee_ledger_item_serialize(l[i], parent(l, s, i), "REQUEST")
  BY SameParent, RequestEntryOf
<1> QED
  BY <1>1 DEF RequestMade, request_ok, verify_item

(* Items before the last one stay, and what is from there on was made in   *)
(* this process, or still has its request from the database.               *)
LEMMA RequestsStay ==
  ASSUME NEW l, IsList(l), l # << >>, NEW m, IsList(m), Len(m) >= Len(l), NEW s,
         \A i \in 1 .. Len(l) - 1 : m[i] = l[i],
         RequestMade(l, s, Len(l)) => RequestMade(m, s, Len(l)),
         RequestKept(l[Len(l)], Len(l)) =>
           RequestKept(m[Len(l)], Len(l)) \/ RequestMade(m, s, Len(l)),
         \A i \in Len(l) + 1 .. Len(m) : RequestMade(m, s, i)
  PROVE  /\ AllMade(l, s) => AllMade(m, s)
         /\ Opened(l, s) => Opened(m, s)
<1> DEFINE N == Len(l)
           M == Len(m)
           n == Len(Newest)
<1>1. N \in Nat /\ N > 0 /\ DOMAIN l = 1 .. N /\ M \in Nat /\ DOMAIN m = 1 .. M /\ M >= N
  BY IsSeqFacts DEF IsList
<1>2. ASSUME NEW i \in 1 .. N - 1, RequestMade(l, s, i) PROVE RequestMade(m, s, i)
  <2>1. i = 1 \/ m[i - 1] = l[i - 1]
    <3>1. i # 1 => i - 1 \in 1 .. N - 1
      BY <1>1
    <3> HIDE DEF N
    <3> QED
      BY <3>1 DEF N
  <2>2. m[i] = l[i]
    OBVIOUS
  <2> HIDE DEF N
  <2> QED
    BY <1>2, <2>1, <2>2, RequestStays
<1>3. \A i \in 1 .. M : i \in 1 .. N - 1 \/ i = N \/ i \in N + 1 .. M
  <2>1. N \in Nat /\ M \in Nat
    BY <1>1
  <2> HIDE DEF N, M
  <2> QED
    BY <2>1
<1>4. ASSUME AllMade(l, s) PROVE AllMade(m, s)
  <2>1. ASSUME NEW i \in 1 .. M PROVE RequestMade(m, s, i)
    <3>1. CASE i \in 1 .. N - 1
      <4>1. RequestMade(l, s, i)
        BY <1>1, <1>4, <3>1 DEF AllMade
      <4> QED
        BY <1>2, <3>1, <4>1
    <3>2. CASE i = N
      BY <1>1, <1>4, <3>2 DEF AllMade
    <3>3. CASE i \in N + 1 .. M
      BY <3>3
    <3> QED
      BY <1>3, <3>1, <3>2, <3>3
  <2> QED
    BY <1>1, <2>1 DEF AllMade
<1>5. ASSUME Opened(l, s), n \in Nat PROVE Opened(m, s)
  <2>1. /\ N >= n
        /\ \A i \in 1 .. n - 1 : l[i] = Reopened(Newest[i])
        /\ \A i \in 1 .. N : i >= n => RequestMade(l, s, i) \/ RequestKept(l[i], i)
    BY <1>1, <1>5 DEF Opened
  <2>2. M >= n /\ \A i \in 1 .. n - 1 : i \in 1 .. N - 1
    BY <1>1, <1>5, <2>1
  <2>3. \A i \in 1 .. n - 1 : m[i] = Reopened(Newest[i])
    BY <2>1, <2>2
  <2>4. ASSUME NEW i \in 1 .. M, i >= n PROVE RequestMade(m, s, i) \/ RequestKept(m[i], i)
    <3>1. CASE i \in 1 .. N - 1
      <4>1. i \in 1 .. N /\ m[i] = l[i]
        BY <1>1, <3>1
      <4> QED
        BY <1>2, <2>1, <2>4, <3>1, <4>1
    <3>2. CASE i = N
      <4>1. RequestMade(l, s, N) \/ RequestKept(l[N], N)
        BY <1>1, <2>1, <2>4, <3>2
      <4> QED
        BY <3>2, <4>1
    <3>3. CASE i \in N + 1 .. M
      BY <3>3
    <3> QED
      BY <1>3, <3>1, <3>2, <3>3
  <2> QED
    BY <1>1, <2>2, <2>3, <2>4 DEF Opened
<1> QED
  BY <1>4, <1>5

LEMMA MadeStays ==
  ASSUME NEW l, IsList(l), NEW m, IsList(m), NEW s, Made(l, s),
         NEW M, M = Len(m), M > 0,
         \A i \in 1 .. M - 1 : i \in DOMAIN l /\ m[i] = l[i],
         m[M].initiator = "ALICE", SignedOver(m[M], parent(m, s, M)),
         m[M].alice_signature = Zeroes => m[M].bob_signature = Zeroes,
         \A i \in 1 .. M - 1 : m[i].delta.time <= m[M].delta.time
  PROVE  Made(m, s)
<1>1. M \in Nat /\ DOMAIN m = 1 .. M
  BY IsSeqFacts DEF IsList
<1>2. \A i \in 1 .. M : i \in 1 .. M - 1 \/ i = M
  BY <1>1
<1>3. ASSUME NEW i \in 1 .. M - 1
      PROVE  /\ m[i].initiator = "ALICE"
             /\ SignedOver(m[i], parent(m, s, i))
             /\ m[i].alice_signature = Zeroes => m[i].bob_signature = Zeroes
  <2>1. i = 1 \/ m[i - 1] = l[i - 1]
    <3>1. i # 1 => i - 1 \in 1 .. M - 1
      BY <1>1
    <3> QED
      BY <3>1
  <2>2. parent(m, s, i) = parent(l, s, i)
    BY <2>1, SameParent
  <2> QED
    BY <2>2 DEF Made
<1>4. ASSUME NEW i \in 1 .. M, NEW j \in 1 .. M, i < j
      PROVE  m[i].delta.time <= m[j].delta.time
  <2>1. i \in 1 .. M - 1
    BY <1>1, <1>4
  <2>2. CASE j = M
    BY <2>1, <2>2
  <2>3. CASE j \in 1 .. M - 1
    BY <1>4, <2>1, <2>3 DEF Made
  <2> QED
    BY <1>2, <2>2, <2>3
<1> QED
  BY <1>1, <1>2, <1>3, <1>4 DEF Made

-----------------------------------------------------------------------------
(* The steps. *)
LEMMA MadeIsAllMade ==
  ASSUME NEW l, NEW s, Made(l, s)
  PROVE  AllMade(l, s)
<1> SUFFICES ASSUME NEW i \in DOMAIN l, l[i].initiator = "ALICE",
                    signature_request(l[i]) # Zeroes
             PROVE  request_ok(l, s, i)
  BY DEF AllMade, RequestMade
<1> QED
  BY DEF Made, SignedOver, request_ok, verify_item

(* A step that changes no more than the last item of the list. *)
LEMMA ListStep ==
  ASSUME IInv, IsList(list'), UNCHANGED <<cache, session, disk, kept>>,
         Made(list, session) => Made(list', session),
         AllMade(list, session) => AllMade(list', session),
         Opened(list, session) => Opened(list', session)
  PROVE  IInv'
<1>1. Newest' = Newest
  BY DEF Newest
<1>2. Data'
  BY DEF IInv, Data
<1>3. Disk'
  BY <1>1 DEF IInv, Disk, Origin
<1>4. CountTo(Len(Newest))' = CountTo(Len(Newest))
  BY <1>1 DEF CountTo
<1>5. Opened(list, session)' <=> Opened(list', session)
  BY <1>1 DEF Opened, RequestKept
<1>6. Requests'
  BY <1>4, <1>5 DEF IInv, Requests
<1> QED
  BY <1>2, <1>3, <1>6 DEF IInv

LEMMA AddStep ==
  ASSUME IInv, NEW d \in Delta, Add(d)
  PROVE  IInv'
<1> DEFINE x == [kee_ledger_add_item("ALICE") EXCEPT !.delta = d]
           N == Len(list)
           s == session
<1>1. /\ IsItem(x) /\ x.initiator = "ALICE" /\ x.delta = d
      /\ x.alice_signature = Zeroes /\ x.bob_signature = Zeroes
  BY Added
<1>2. IsList(list) /\ N < MaxItems /\ list' = Append(list, x)
  BY DEF Add, IInv, Data
<1> HIDE DEF x
<1>3. /\ N \in Nat /\ DOMAIN list = 1 .. N
      /\ list = << >> <=> N = 0
  BY <1>2, IsSeqFacts DEF IsList
<1>4. /\ IsList(list') /\ Len(list') = N + 1
      /\ \A i \in 1 .. N : list'[i] = list[i]
      /\ list'[N + 1] = x
  <2>1. Longer(list', list, x)
    BY <1>1, <1>2, AppendFacts
  <2> QED
    BY <2>1 DEF Longer
<1>5. RequestMade(list', s, N + 1)
  BY <1>1, <1>4 DEF RequestMade, signature_request
<1> HIDE DEF N, s
<1>6. DOMAIN list' = 1 .. N + 1
  BY <1>4, IsSeqFacts DEF IsList
<1>7. ASSUME Made(list, s) PROVE Made(list', s)
  <2>1. SignedOver(x, parent(list', s, N + 1))
    BY <1>1 DEF SignedOver, signature_request, signature_response
  <2>2. \A i \in 1 .. N + 1 - 1 : i \in DOMAIN list /\ list'[i] = list[i]
    BY <1>3, <1>4
  <2>3. ASSUME NEW i \in 1 .. N PROVE list[i].delta.time <= d.time
    <3>1. list # << >> /\ N \in 1 .. N
      BY <1>3
    <3>2. list[N].delta.time <= d.time
      BY <3>1 DEF Add, last_item, N
    <3>3. i = N \/ list[i].delta.time <= list[N].delta.time
      BY <1>3, <1>7, <3>1 DEF Made
    <3>4. /\ list[i].delta.time \in Nat /\ list[N].delta.time \in Nat
          /\ d.time \in Nat
      BY <1>1, <1>2, <1>3, <3>1 DEF IsList, IsItem, Number
    <3> QED
      BY <3>2, <3>3, <3>4
  <2>4. \A i \in 1 .. N + 1 - 1 : list'[i].delta.time <= x.delta.time
    BY <1>1, <1>3, <1>4, <2>3
  <2> DEFINE m == list'
             M == N + 1
  <2>5. /\ IsList(m) /\ M = Len(m) /\ M > 0
        /\ m[M].initiator = "ALICE" /\ SignedOver(m[M], parent(m, s, M))
        /\ m[M].alice_signature = Zeroes => m[M].bob_signature = Zeroes
        /\ \A i \in 1 .. M - 1 : i \in DOMAIN list /\ m[i] = list[i]
        /\ \A i \in 1 .. M - 1 : m[i].delta.time <= m[M].delta.time
    BY <1>1, <1>3, <1>4, <2>1, <2>2, <2>4
  <2> HIDE DEF m, M
  <2>6. Made(m, s)
    BY <1>2, <1>7, <2>5, MadeStays
  <2> QED
    BY <2>6 DEF m
<1>8. CASE list = << >>
  <2>1. AllMade(list', s)
    BY <1>3, <1>5, <1>6, <1>8 DEF AllMade
  <2>2. Opened(list, s) => Opened(list', s)
    <3>1. SUFFICES ASSUME Opened(list, s) PROVE Opened(list', s)
      OBVIOUS
    <3>2. Len(Newest) \in Nat
      BY NewestFacts DEF IInv, Data, IsList, Newest, NewestOf
    <3>3. Len(Newest) = 0
      BY <1>3, <1>8, <3>1, <3>2 DEF Opened, N
    <3> QED
      BY <1>3, <1>4, <1>5, <1>6, <1>8, <3>3 DEF Opened
  <2> QED
    BY <1>4, <1>7, <2>1, <2>2, ListStep DEF Add, s
<1>9. CASE list # << >>
  <2>1. RequestMade(list, s, N) => RequestMade(list', s, N)
    <3>1. N \in 1 .. N /\ (N = 1 \/ N - 1 \in 1 .. N)
      BY <1>3, <1>9
    <3> QED
      BY <1>4, <3>1, RequestStays
  <2>2. list'[N] = list[N]
    BY <1>3, <1>4, <1>9
  <2>3. \A i \in 1 .. N - 1 : list'[i] = list[i]
    BY <1>3, <1>4
  <2>4. \A i \in N + 1 .. N + 1 : RequestMade(list', s, i)
    BY <1>3, <1>5
  <2>5. /\ AllMade(list, s) => AllMade(list', s)
        /\ Opened(list, s) => Opened(list', s)
    <3> DEFINE m == list'
    <3>1. Len(m) >= N /\ \A i \in N + 1 .. Len(m) : RequestMade(m, s, i)
      BY <1>3, <1>4, <2>4
    <3>2. IsList(m) /\ m[N] = list[N] /\ \A i \in 1 .. N - 1 : m[i] = list[i]
      BY <1>4, <2>2, <2>3
    <3>3. RequestMade(list, s, N) => RequestMade(m, s, N)
      BY <2>1
    <3> HIDE DEF m
    <3>4. AllMade(list, s) => AllMade(m, s)
      BY <1>2, <1>9, <3>1, <3>2, <3>3, RequestsStay DEF N
    <3>5. Opened(list, s) => Opened(m, s)
      BY <1>2, <1>9, <3>1, <3>2, <3>3, RequestsStay DEF N
    <3> QED
      BY <3>4, <3>5 DEF m
  <2> QED
    BY <1>4, <1>7, <2>5, ListStep DEF Add, s
<1> QED
  BY <1>8, <1>9

(* The last item is signed: what it says stays, and so do the others. *)
LEMMA LastStep ==
  ASSUME IInv, list # << >>, UNCHANGED <<cache, session, disk, kept>>,
         NEW y, list' = [list EXCEPT ![Len(list)] = y], IsItem(y),
         y.initiator = "ALICE", y.delta = last_item.delta,
         y.alice_signature # Zeroes,
         Made(list, session) => SignedOver(y, parent(list, session, Len(list))),
         \/ /\ last_item.initiator = "ALICE"
            /\ y.alice_signature = last_item.alice_signature
         \/ signature_request(y) =
              Signed(pubkey_first("ALICE"), head,
                     kee_ledger_item_serialize(y, parent(list, session, Len(list)), "REQUEST"))
  PROVE  IInv'
<1> DEFINE N == Len(list)
           s == session
           m == list'
<1>1. IsList(list) /\ N \in Nat /\ N > 0 /\ DOMAIN list = 1 .. N
  BY IsSeqFacts DEF IsList, IInv, Data
<1>2. /\ IsList(m) /\ Len(m) = N
      /\ \A i \in 1 .. N - 1 : m[i] = list[i]
      /\ m[N] = y
  <2>1. Replaced(list', list, y)
    BY <1>1, ExceptFacts
  <2> QED
    BY <2>1 DEF Replaced
<1>3. last_item = list[N]
  BY DEF last_item
<1> HIDE DEF m, N, s
<1>4. N = 1 \/ m[N - 1] = list[N - 1]
  <2>1. N = 1 \/ N - 1 \in 1 .. N - 1
    BY <1>1
  <2> QED
    BY <1>2, <2>1
<1>5. parent(m, s, N) = parent(list, s, N)
  BY <1>4, SameParent
<1>6. signature_request(y) = y.alice_signature
  BY DEF signature_request
<1>7. \/ /\ list[N].initiator = "ALICE"
         /\ y.alice_signature = list[N].alice_signature
      \/ RequestMade(m, s, N)
  <2>1. CASE signature_request(y) =
               Signed(pubkey_first("ALICE"), head,
                      kee_ledger_item_serialize(y, parent(list, s, N), "REQUEST"))
    BY <1>2, <1>5, <2>1 DEF RequestMade, request_ok, verify_item
  <2> QED
    BY <1>3, <2>1 DEF s, N
<1>8. RequestMade(list, s, N) => RequestMade(m, s, N)
  <2>1. SUFFICES ASSUME RequestMade(list, s, N), list[N].initiator = "ALICE",
                        y.alice_signature = list[N].alice_signature
                 PROVE  RequestMade(m, s, N)
    BY <1>7
  <2>2. signature_request(m[N]) = signature_request(list[N])
    BY <1>2, <1>6, <2>1 DEF signature_request
  <2>3. m[N].initiator = list[N].initiator /\ m[N].delta = list[N].delta
    BY <1>2, <1>3, <2>1
  <2> QED
    BY <1>4, <2>1, <2>2, <2>3, RequestStays
<1>9. RequestKept(list[N], N) => RequestKept(m[N], N) \/ RequestMade(m, s, N)
  BY <1>2, <1>3, <1>7 DEF RequestKept
<1>10. /\ AllMade(list, s) => AllMade(m, s)
       /\ Opened(list, s) => Opened(m, s)
  <2>1. \A i \in N + 1 .. Len(m) : RequestMade(m, s, i)
    BY <1>1, <1>2
  <2>2. Len(m) >= N
    BY <1>1, <1>2
  <2> QED
    BY <1>1, <1>2, <1>8, <1>9, <2>1, <2>2, RequestsStay DEF N
<1>11. ASSUME Made(list, s) PROVE Made(m, s)
  <2>1. SignedOver(m[N], parent(m, s, N))
    BY <1>2, <1>5, <1>11 DEF s, N
  <2>2. /\ m[N].initiator = "ALICE" /\ m[N].delta = list[N].delta
        /\ m[N].alice_signature # Zeroes
    BY <1>2, <1>3
  <2>3. \A i \in 1 .. N - 1 : i \in DOMAIN list /\ m[i] = list[i]
    BY <1>1, <1>2
  <2>4. ASSUME NEW i \in 1 .. N - 1 PROVE m[i].delta.time <= m[N].delta.time
    <3>1. i \in DOMAIN list /\ N \in DOMAIN list /\ i < N
      BY <1>1
    <3> QED
      BY <1>11, <2>2, <2>3, <3>1 DEF Made
  <2> QED
    BY <1>1, <1>2, <1>11, <2>1, <2>2, <2>3, <2>4, MadeStays
<1> QED
  BY <1>2, <1>10, <1>11, ListStep DEF m, s

LEMMA RequestStep ==
  ASSUME IInv, SignRequest
  PROVE  IInv'
<1> DEFINE N == Len(list)
           before == parent(list, session, N)
           y == kee_ledger_sign(head.alice, head, list[N], before)
<1>1. /\ list # << >> /\ last_item = list[N]
      /\ last_item.initiator = "ALICE" /\ last_item.alice_signature = Zeroes
  BY DEF SignRequest, last_item, already_signed
<1>2. IsItem(list[N]) /\ N \in DOMAIN list
  BY <1>1, IsSeqFacts DEF IsList, IInv, Data
<1>3. list' = [list EXCEPT ![N] = y]
  BY <1>2 DEF SignRequest
<1>4. /\ IsItem(y) /\ y.initiator = "ALICE" /\ y.delta = list[N].delta
      /\ y.bob_signature = list[N].bob_signature
      /\ y.alice_signature # Zeroes
      /\ signature_request(y) =
           Signed(pubkey_first("ALICE"), head, kee_ledger_item_serialize(y, before, "REQUEST"))
  BY <1>1, <1>2, Requested
<1> HIDE DEF y
<1>5. ASSUME Made(list, session) PROVE SignedOver(y, before)
  <2>1. y.bob_signature = Zeroes
    BY <1>1, <1>2, <1>4, <1>5 DEF Made
  <2>2. signature_response(y) = Zeroes
    BY <1>4, <2>1 DEF signature_response
  <2> QED
    BY <1>4, <2>2 DEF SignedOver
<1> QED
  BY <1>1, <1>3, <1>4, <1>5, LastStep DEF SignRequest

LEMMA ResponseStep ==
  ASSUME IInv, NEW p \in Party, SignResponse(p)
  PROVE  IInv'
<1> DEFINE N == Len(list)
           before == parent(list, session, N)
           y == Answered(list[N], p, before)
<1>1. /\ list # << >> /\ last_item = list[N]
      /\ last_item.initiator = "ALICE" /\ last_item.alice_signature # Zeroes
  BY DEF SignResponse, last_item, already_signed
<1>2. IsItem(list[N]) /\ N \in DOMAIN list
  BY <1>1, IsSeqFacts DEF IsList, IInv, Data
<1>3. list' = [list EXCEPT ![N] = y]
  BY <1>1 DEF SignResponse, Answered
<1>4. /\ IsItem(y) /\ y.initiator = "ALICE" /\ y.delta = list[N].delta
      /\ y.alice_signature = list[N].alice_signature
      /\ signature_response(y) =
           Signed(p, head, kee_ledger_item_serialize(y, before, "RESPONSE"))
  BY <1>1, <1>2, Responded
<1> HIDE DEF y
<1>5. ASSUME Made(list, session) PROVE SignedOver(y, before)
  <2>1. SignedOver(list[N], before)
    BY <1>2, <1>5 DEF Made
  <2>2. /\ signature_request(y) = signature_request(list[N])
        /\ y.initiator = list[N].initiator
    BY <1>1, <1>4 DEF signature_request
  <2>3. kee_ledger_item_serialize(y, before, "REQUEST") =
          kee_ledger_item_serialize(list[N], before, "REQUEST")
    BY <1>4, RequestEntryOf
  <2>4. signature_request(y) \in
          {Zeroes, Signed(pubkey_first(y.initiator), head,
                          kee_ledger_item_serialize(y, before, "REQUEST"))}
    BY <2>1, <2>2, <2>3 DEF SignedOver
  <2>5. signature_response(y).signer = p
    BY <1>4 DEF Signed
  <2> QED
    BY <1>4, <2>4, <2>5 DEF SignedOver
<1> QED
  BY <1>1, <1>3, <1>4, <1>5, LastStep DEF SignResponse

LEMMA PutStep ==
  ASSUME IInv, Put
  PROVE  IInv'
<1> DEFINE N == Len(list)
           put == kee_ledger_put(list, session)
<1>1. /\ list # << >> /\ Made(list, session) /\ IsList(list) /\ IsSeq(list)
      /\ disk' = put /\ kept' = list
      /\ list' = list /\ cache' = cache /\ session' = session
  BY DEF Put, IInv, Data, Disk, IsList
<1>2. N \in Nat /\ N > 0 /\ DOMAIN list = 1 .. N
  BY <1>1, IsSeqFacts
<1>3. Newest' = NewestOf(list)
  BY <1>1 DEF Newest, NewestOf
<1>4. Stored(put, NewestOf(list))
  BY <1>1, StoredAfterPut
<1>5. put = {record(list, session, i) : i \in first(list) .. N}
  BY <1>1, PutResult
<1>6. /\ first(list) \in 1 .. N + 1
      /\ \A i \in 1 .. N + 1 : apart(list, i) <=> first(list) <= i
  BY <1>1, First
<1> HIDE DEF put, N
<1>7. put # {}
  <2>1. apart(list, N)
    <3>1. \A k, i \in N .. N : k = i
      BY <1>2
    <3> QED
      BY <3>1 DEF apart, N
  <2>2. N \in first(list) .. N
    BY <1>2, <1>6, <2>1
  <2> QED
    BY <1>5, <2>2
<1>8. ASSUME NewestOf(list) = list
      PROVE  \A i \in 1 .. N : record(list, session, i) \in put
  <2>1. Len(NewestOf(list)) = N + 1 - first(list)
    BY <1>1, NewestFacts DEF N
  <2>2. first(list) = 1
    BY <1>2, <1>6, <1>8, <2>1 DEF N
  <2> QED
    BY <1>5, <2>2
<1>9. Data'
  BY <1>1 DEF IInv, Data
<1>10. Origin'
  <2>1. SUFFICES ASSUME NewestOf(list) = list
                 PROVE  \E s \in 1 .. session : \A i \in DOMAIN list : record(list, s, i) \in put
    BY <1>1, <1>3 DEF Origin
  <2>2. session \in 1 .. session
    BY DEF IInv, Data
  <2> QED
    BY <1>2, <1>8, <2>1, <2>2
<1>11. Disk'
  BY <1>1, <1>3, <1>4, <1>7, <1>10 DEF Disk
<1>12. Requests'
  BY <1>1, MadeIsAllMade DEF Requests
<1> QED
  BY <1>9, <1>11, <1>12 DEF IInv

(* A balance that is shown is an int. *)
LEMMA TotalIsInt ==
  ASSUME Stored(disk, Newest), NEW role, NEW part \in {"credit", "collateral"}
  PROVE  Total(role, part) \in CInt
<1> DEFINE n == Len(Newest)
<1>1. n \in Nat /\ IsSeq(Newest) /\ \A i \in 1 .. n : IsItem(Newest[i])
  BY Scan DEF Stored, IsSeq
<1>2. \A i \in 1 .. n : Newest[i].delta[part] \in Int
  <2>1. \A i \in 1 .. n : Newest[i].delta[part] \in CInt
    BY <1>1 DEF IsItem, Number
  <2>2. CInt \subseteq Int
    BY Words DEF CInt
  <2> QED
    BY <2>1, <2>2
<1>3. PICK c : IsSum(c, n, role, part)
  BY <1>1, <1>2, SumFold
<1>4. c[n] \in Int /\ Total(role, part) = wrap(c[n])
  BY <1>1, <1>3 DEF IsSum
<1> QED
  BY <1>4, WrapIsInt

LEMMA OpenStep ==
  ASSUME IInv, Open
  PROVE  IInv'
<1> DEFINE n == Len(Newest)
<1>1. Stored(disk, Newest) /\ session \in 1 .. MaxSessions /\ MaxSessions \in Nat
  BY ChainAssumption DEF IInv, Data, Disk
<1>2. /\ n \in Nat /\ DOMAIN Newest = 1 .. n /\ n <= MaxItems
      /\ list' = [i \in 1 .. n |-> Reopened(Newest[i])]
      /\ Len(list') = n /\ IsSeq(list') /\ DOMAIN list' = 1 .. n
  BY <1>1, OpenedList DEF Stored
<1>3. /\ session' = session + 1 /\ session' \in 1 .. MaxSessions /\ session' > 1
      /\ disk' = disk /\ kept' = kept
  <2>1. /\ session < MaxSessions /\ session' = session + 1
        /\ disk' = disk /\ kept' = kept
    BY DEF Open
  <2> QED
    BY <1>1, <2>1
<1>4. Newest' = Newest
  BY <1>3 DEF Newest
<1> HIDE DEF n
<1>5. IsList(list')
  <2>1. ASSUME NEW i \in 1 .. n PROVE IsItem(Reopened(Newest[i]))
    <3>1. IsItem(Newest[i])
      BY <1>1, <1>2 DEF Stored
    <3>2. PICK r \in disk : Keeps(r, Newest[i])
      BY <1>1, <1>2 DEF Stored
    <3> QED
      BY <3>1, <3>2, Parsed
  <2> QED
    BY <1>2, <2>1 DEF IsList
<1>6. Data'
  <2>1. cache'.count = CountTo(n) /\ CountTo(n) \in 0 .. n
    BY <1>1, <1>2, OpenedCache, CountStep DEF n
  <2>2. cache'.count \in 0 .. MaxItems
    BY <1>2, <2>1, ChainAssumption
  <2>3. /\ cache'.alice_credit \in CInt /\ cache'.alice_collateral \in CInt
        /\ cache'.bob_credit \in CInt /\ cache'.bob_collateral \in CInt
    BY <1>1, OpenedCache, TotalIsInt
  <2> QED
    BY <1>3, <1>5, <2>2, <2>3 DEF IInv, Data
<1>7. Disk'
  <2>1. ASSUME disk = {} PROVE Made(list', session')
    <3>1. DOMAIN list' = {}
      BY <1>1, <1>2, <2>1 DEF Stored
    <3> QED
      BY <3>1 DEF Made
  <2>2. Origin'
    <3>1. 1 .. session \subseteq 1 .. session'
      BY <1>1, <1>3
    <3> QED
      BY <1>3, <1>4, <3>1 DEF IInv, Disk, Origin
  <2> QED
    BY <1>1, <1>3, <1>4, <2>1, <2>2 DEF IInv, Disk
<1>8. Requests'
  <2>1. cache'.count = CountTo(n)
    BY <1>1, OpenedCache DEF n
  <2>2. \A i \in 1 .. n : list'[i] = Reopened(Newest[i])
    BY <1>2
  <2>3. ASSUME NEW i \in 1 .. n, i >= n
        PROVE  RequestMade(list', session', i) \/ RequestKept(list'[i], i)
    <3>1. CASE Countersigned(Newest[i])
      <4>1. list'[i] = Newest[i] /\ i = n
        BY <1>2, <2>2, <2>3, <3>1 DEF Reopened
      <4> QED
        BY <3>1, <4>1 DEF RequestKept, n
    <3>2. CASE ~Countersigned(Newest[i])
      <4>1. list'[i] = kee_ledger_add_item(Newest[i].initiator)
        BY <2>2, <3>2 DEF Reopened
      <4>2. signature_request(list'[i]) = Zeroes
        BY <4>1 DEF kee_ledger_add_item, signature_request
      <4> QED
        BY <4>2 DEF RequestMade
    <3> QED
      BY <3>1, <3>2
  <2>4. Opened(list', session')
    <3>1. \A i \in 1 .. n - 1 : i \in 1 .. n
      BY <1>2
    <3> QED
      BY <1>2, <2>2, <2>3, <3>1 DEF Opened, n
  <2>5. CountTo(Len(Newest))' = CountTo(n) /\ (Opened(list, session)' <=> Opened(list', session'))
    BY <1>4 DEF CountTo, Opened, RequestKept, n
  <2> QED
    BY <1>3, <2>1, <2>4, <2>5 DEF Requests
<1> QED
  BY <1>6, <1>7, <1>8 DEF IInv

LEMMA Initially ==
  ASSUME Init
  PROVE  IInv
<1>1. PICK seed \in Seeds : disk = seed.disk /\ kept = seed.kept
  BY DEF Init
<1>2. Stored(disk, kept)
  BY <1>1, SeedsAssumption
<1>3. IsList(kept) /\ IsSeq(kept)
  BY <1>2 DEF Stored, IsList, IsSeq
<1>4. Len(kept) \in Nat /\ DOMAIN kept = 1 .. Len(kept)
  BY <1>3, IsSeqFacts
<1>5. first(kept) = 1
  <2>1. apart(kept, 1)
    <3>1. SUFFICES ASSUME NEW k \in 1 .. Len(kept), NEW m \in 1 .. Len(kept), k # m
                   PROVE  kept[k].delta.time # kept[m].delta.time
      BY DEF apart
    <3>2. k < m \/ m < k
      BY <1>4, <3>1
    <3>3. kept[k].delta.time \in Nat /\ kept[m].delta.time \in Nat
      BY <1>3, <1>4, <3>1 DEF IsList, IsItem, Number
    <3>4. \A i, j \in 1 .. Len(kept) : i < j => kept[i].delta.time < kept[j].delta.time
      BY <1>2, <1>4 DEF Stored
    <3> QED
      BY <3>1, <3>2, <3>3, <3>4
  <2>2. first(kept) <= 1 /\ first(kept) \in 1 .. Len(kept) + 1
    BY <1>3, <1>4, <2>1, First
  <2> QED
    BY <1>4, <2>2
<1>6. Newest = kept
  <2>1. /\ IsSeq(Newest) /\ Len(Newest) = Len(kept)
        /\ \A i \in 1 .. Len(kept) : Newest[i] = kept[i]
    <3> DEFINE w == NewestOf(kept)
    <3>1. /\ IsSeq(w) /\ Len(w) = Len(kept) + 1 - 1
          /\ \A i \in 1 .. Len(w) : w[i] = kept[1 + i - 1]
      BY <1>3, <1>5, NewestFacts
    <3>2. Newest = w
      BY DEF Newest, NewestOf
    <3> HIDE DEF w
    <3>3. Len(w) = Len(kept) /\ \A i \in 1 .. Len(kept) : 1 + i - 1 = i
      BY <1>4, <3>1
    <3> QED
      BY <3>1, <3>2, <3>3
  <2>2. /\ Newest = [i \in 1 .. Len(kept) |-> Newest[i]]
        /\ kept = [i \in 1 .. Len(kept) |-> kept[i]]
    BY <1>3, <2>1, IsSeqFacts
  <2> QED
    BY <2>1, <2>2
<1>7. list = << >> /\ DOMAIN list = {} /\ Len(list) = 0
  BY DEF Init
<1>8. IsList(list)
  BY <1>7, ChainAssumption DEF IsList, IsSeq
<1>9. Data
  <2>1. 0 \in CInt /\ 0 \in 0 .. MaxItems /\ 1 \in 1 .. MaxSessions
    BY Words, ChainAssumption DEF CInt
  <2> QED
    BY <1>3, <1>8, <2>1 DEF Init, Data, NoCache
<1>10. disk = {} => kept = << >>
  <2>1. disk = {} => DOMAIN kept = {}
    BY <1>2 DEF Stored
  <2>2. DOMAIN kept = {} => Len(kept) = 0
    BY <1>4
  <2> QED
    BY <1>3, <2>1, <2>2, IsSeqFacts
<1>11. Made(list, session) /\ AllMade(list, session)
  BY <1>7 DEF Made, AllMade
<1> QED
  BY <1>1, <1>2, <1>6, <1>9, <1>10, <1>11 DEF IInv, Disk, Origin, Requests

-----------------------------------------------------------------------------
(* Every reachable state has the inductive invariant.                      *)
THEOREM Inductive == Spec => []IInv
<1>1. Init => IInv
  BY Initially
<1>2. IInv /\ [Next]_vars => IInv'
  <2>1. SUFFICES ASSUME IInv, [Next]_vars PROVE IInv'
    OBVIOUS
  <2>2. CASE UNCHANGED vars
    <3>1. /\ list' = list /\ cache' = cache /\ session' = session
          /\ disk' = disk /\ kept' = kept
      BY <2>2 DEF vars
    <3> QED
      BY <2>1, <3>1, ListStep DEF IInv, Data
  <2>3. CASE \E d \in Delta : Add(d)
    BY <2>1, <2>3, AddStep
  <2>4. CASE SignRequest
    BY <2>1, <2>4, RequestStep
  <2>5. CASE \E p \in Party : SignResponse(p)
    BY <2>1, <2>5, ResponseStep
  <2>6. CASE Put
    BY <2>1, <2>6, PutStep
  <2>7. CASE Open
    BY <2>1, <2>7, OpenStep
  <2> QED
    BY <2>1, <2>2, <2>3, <2>4, <2>5, <2>6, <2>7 DEF Next
<1> QED
  BY <1>1, <1>2, PTL DEF Spec

LEMMA CountAll ==
  ASSUME NEW n \in Nat, NEW k \in 0 .. n, \A i \in 1 .. k : Countersigned(Newest[i])
  PROVE  k <= CountTo(n)
<1> DEFINE C(j) == {i \in 1 .. j : Countersigned(Newest[i])}
<1>1. C(k) = 1 .. k /\ C(n) \in SUBSET (1 .. n) /\ C(k) \in SUBSET C(n)
  OBVIOUS
<1>2. CountTo(n) = Cardinality(C(n))
  BY DEF CountTo
<1>3. IsFiniteSet(1 .. n) /\ Cardinality(1 .. k) = k
  BY FS_Interval
<1> HIDE DEF C
<1>4. IsFiniteSet(C(n))
  BY <1>1, <1>3, FS_Subset
<1>5. Cardinality(C(k)) <= Cardinality(C(n))
  BY <1>1, <1>4, FS_Subset
<1> QED
  BY <1>1, <1>2, <1>3, <1>5

(* The record of an item that was put has the item's parent in the process *)
(* that put it, and the signatures of the item are over that.              *)
LEMMA PutOverParent ==
  ASSUME Disk, IsList(kept), Newest = kept, ~Generated, NEW i \in DOMAIN kept
  PROVE  \E s \in 1 .. session : SignedOver(kept[i], parent(kept, s, i))
<1>1. /\ Stored(disk, kept) /\ IsItem(kept[i])
  BY DEF Disk, IsList
<1>2. disk # {}
  BY <1>1 DEF Stored
<1>3. PICK s \in 1 .. session : \A j \in DOMAIN kept : record(kept, s, j) \in disk
  BY <1>2 DEF Disk, Origin, Generated
<1> DEFINE r == record(kept, s, i)
<1>4. r \in disk
  BY <1>3
<1>5. PICK q \in disk : Keeps(q, kept[i])
  BY <1>1 DEF Stored
<1>6. q.time = kept[i].delta.time
  BY <1>5 DEF Keeps
<1>7. r.time = kept[i].delta.time
  BY DEF record
<1>8. r.entry.parent = parent(kept, s, i)
  BY <1>1, RecordParent
<1> HIDE DEF r
<1>9. q = r
  BY <1>1, <1>4, <1>6, <1>7 DEF Stored
<1> QED
  BY <1>5, <1>8, <1>9 DEF Keeps

(* What was found in the database and counts for no more than two items    *)
(* verifies: the first has no parent, and that of the second holds what    *)
(* the item before it says.                                                *)
LEMMA KeptVerifies ==
  ASSUME Data, Disk, Newest = kept, ~Generated, Opened(list, session),
         NEW i \in 1 .. 2, i \in DOMAIN kept, RequestKept(list[i], i) \/ list[i] = kept[i],
         i = 1 \/ list[1] = kept[1],
         list[i].initiator = "ALICE", signature_request(list[i]) # Zeroes
  PROVE  request_ok(list, session, i)
<1>1. PICK s \in 1 .. session : SignedOver(kept[i], parent(kept, s, i))
  BY PutOverParent DEF Data
<1>2. parent(kept, s, i) = parent(list, session, i)
  <2>1. CASE i = 1
    BY <2>1 DEF parent
  <2>2. CASE i = 2
    <3>1. list[1] = kept[1] /\ i - 1 = 1 /\ i # 1
      BY <2>2
    <3> QED
      BY <3>1 DEF parent, memory
  <2> QED
    BY <2>1, <2>2
<1>3. /\ list[i].delta = kept[i].delta /\ list[i].initiator = kept[i].initiator
      /\ signature_request(list[i]) = signature_request(kept[i])
  BY DEF RequestKept, signature_request
<1>4. kee_ledger_item_serialize(list[i], parent(list, session, i), "REQUEST") =
        kee_ledger_item_serialize(kept[i], parent(kept, s, i), "REQUEST")
  BY <1>2, <1>3, RequestEntryOf
<1> QED
  BY <1>1, <1>3, <1>4 DEF SignedOver, request_ok, verify_item

LEMMA AllVerify ==
  ASSUME IInv, session > 1 => AllFound /\ ~Generated /\ cache.count <= 2,
         \A i \in DOMAIN list :
           list[i].initiator = "ALICE" /\ signature_request(list[i]) # Zeroes
  PROVE  \A i \in DOMAIN list : request_ok(list, session, i)
<1>1. CASE AllMade(list, session)
  BY <1>1 DEF AllMade, RequestMade
<1>2. CASE session > 1 /\ cache.count = CountTo(Len(Newest)) /\ Opened(list, session)
  <2> DEFINE n == Len(Newest)
  <2>1. /\ Newest = kept /\ ~Generated /\ CountTo(n) <= 2
        /\ Data /\ Disk /\ Opened(list, session)
    BY <1>2 DEF AllFound, IInv
  <2>2. n \in Nat /\ DOMAIN kept = 1 .. n
    BY <2>1, IsSeqFacts DEF Data, IsList
  <2>3. Len(list) \in Nat /\ DOMAIN list = 1 .. Len(list) /\ n <= Len(list)
    <3>1. Len(list) \in Nat /\ DOMAIN list = 1 .. Len(list)
      BY <2>1, IsSeqFacts DEF Data, IsList
    <3> QED
      BY <2>1, <2>2, <3>1 DEF Opened
  <2>4. \A i \in 1 .. n - 1 : list[i] = Reopened(kept[i])
    BY <2>1 DEF Opened
  <2> HIDE DEF n
  <2>5. ASSUME NEW i \in 1 .. n - 1
        PROVE  Countersigned(Newest[i]) /\ list[i] = kept[i]
    <3>1. i \in DOMAIN list
      BY <2>2, <2>3
    <3>2. list[i] = Reopened(kept[i])
      BY <2>4
    <3>3. Countersigned(kept[i])
      BY <3>1, <3>2 DEF Reopened, kee_ledger_add_item, signature_request
    <3> QED
      BY <2>1, <3>2, <3>3 DEF Reopened
  <2>6. ASSUME NEW i \in 1 .. n, Countersigned(Newest[i]),
               RequestKept(list[i], i) \/ list[i] = kept[i]
        PROVE  request_ok(list, session, i)
    <3>1. \A j \in 1 .. i : j = i \/ j \in 1 .. n - 1
      BY <2>2
    <3>2. \A j \in 1 .. i : Countersigned(Newest[j])
      BY <2>5, <2>6, <3>1
    <3>3. i <= CountTo(n)
      BY <2>2, <3>2, CountAll
    <3>4. CountTo(n) \in Nat
      BY <2>2, CountStep
    <3>5. i \in 1 .. 2
      BY <2>1, <2>2, <3>3, <3>4
    <3>6. i = 1 \/ list[1] = kept[1]
      <4>1. i = 1 \/ 1 \in 1 .. n - 1
        BY <2>2
      <4> QED
        BY <2>5, <4>1
    <3>7. i \in DOMAIN kept /\ i \in DOMAIN list
      BY <2>2, <2>3
    <3> QED
      BY <2>1, <2>6, <3>5, <3>6, <3>7, KeptVerifies
  <2> SUFFICES ASSUME NEW i \in DOMAIN list PROVE request_ok(list, session, i)
    OBVIOUS
  <2>7. CASE i \in 1 .. n - 1
    <3>1. i \in 1 .. n
      BY <2>2, <2>7
    <3> QED
      BY <2>5, <2>6, <2>7, <3>1
  <2>8. CASE i >= n
    <3>1. RequestMade(list, session, i) \/ RequestKept(list[i], i)
      BY <2>1, <2>8 DEF Opened, n
    <3>2. CASE RequestMade(list, session, i)
      BY <3>2 DEF RequestMade
    <3>3. CASE RequestKept(list[i], i)
      <4>1. i = n /\ Countersigned(Newest[i])
        BY <3>3 DEF RequestKept, n
      <4>2. i \in 1 .. n
        BY <2>2, <2>3, <4>1
      <4> QED
        BY <2>6, <3>3, <4>1, <4>2
    <3> QED
      BY <3>1, <3>2, <3>3
  <2> QED
    BY <2>2, <2>3, <2>7, <2>8
<1> QED
  BY <1>1, <1>2 DEF IInv, Requests

-----------------------------------------------------------------------------
(* Every field keeps its type: a balance is an int whatever was added to   *)
(* it (kee_ledger_item_apply_cache), and no two records of one ledger have *)
(* one time (kee_ledger_item_put_buf).                                     *)
THEOREM TypeCorrect == Spec => []TypeOK
<1>1. IInv => TypeOK
  <2> SUFFICES ASSUME IInv PROVE TypeOK
    OBVIOUS
  <2>1. ASSUME NEW i \in DOMAIN list
        PROVE  /\ list[i].initiator \in Roles /\ list[i].delta \in Number
               /\ list[i].response \in BOOLEAN
    BY DEF IInv, Data, IsList, IsItem
  <2> QED
    BY <2>1 DEF IInv, Data, Disk, Stored, IsList, TypeOK
<1> QED
  BY <1>1, Inductive, PTL

(* A list that was signed in its order is accepted by kee_ledger_verify in *)
(* the process that signed it, and in another one that found all of what   *)
(* was put, no more than two of its items counter-signed, even when that   *)
(* process signs the last of these anew or adds more (kee_ledger_sign,     *)
(* kee_ledger_parse_item_db).                                              *)
THEOREM AcceptsSigned == Spec => []SignedVerifies
<1>1. IInv => SignedVerifies
  <2> SUFFICES
        ASSUME IInv, list # << >>,
               session > 1 => AllFound /\ ~Generated /\ cache.count <= 2,
               \A i \in DOMAIN list :
                 list[i].initiator = "ALICE" /\ signature_request(list[i]) # Zeroes,
               \A i \in 1 .. Len(list) - 1 : signature_response(list[i]) # Zeroes
        PROVE  kee_ledger_verify(list, session).ok
    BY DEF SignedVerifies
  <2>1. IsSeq(list) /\ Len(list) \in Nat /\ DOMAIN list = 1 .. Len(list)
    BY IsSeqFacts DEF IInv, Data, IsList
  <2>2. \A i \in DOMAIN list : request_ok(list, session, i)
    BY AllVerify
  <2>3. ASSUME NEW i \in 1 .. Len(list) PROVE ~Bad(list, session, i)
    <3>1. i < Len(list) => i \in 1 .. Len(list) - 1
      BY <2>1
    <3>2. checked(list, session, i)
      BY <2>1, <2>2 DEF checked
    <3> QED
      BY <3>1, <3>2 DEF Bad, missing
  <2> QED
    BY <2>1, <2>3, Accepts
<1> QED
  BY <1>1, Inductive, PTL

(* Every other process has what was put (kee_ledger_put, kee_entry_        *)
(* deserialize): the counter-signed items as they were, in their order.    *)
THEOREM OpensPut == Spec => OpensWhatWasPut
<1>1. IInv /\ [Next]_vars =>
        [Open =>
           /\ Len(list') = Len(Newest)
           /\ \A i \in DOMAIN Newest :
                list'[i] = IF Countersigned(Newest[i]) THEN Newest[i]
                           ELSE kee_ledger_add_item(Newest[i].initiator)]_vars
  <2> SUFFICES
        ASSUME IInv, Open
        PROVE  /\ Len(list') = Len(Newest)
               /\ \A i \in DOMAIN Newest :
                    list'[i] = IF Countersigned(Newest[i]) THEN Newest[i]
                               ELSE kee_ledger_add_item(Newest[i].initiator)
    OBVIOUS
  <2>1. /\ Len(list') = Len(Newest) /\ DOMAIN Newest = 1 .. Len(Newest)
        /\ list' = [i \in 1 .. Len(Newest) |-> Reopened(Newest[i])]
    BY OpenedList DEF IInv, Disk
  <2> QED
    BY <2>1 DEF Reopened
<1> QED
  BY <1>1, Inductive, PTL DEF Spec, OpensWhatWasPut

(* The balances and the count are those of the counter-signed items,       *)
(* modulo the width of an int, for any number of items in any order of     *)
(* initiators (kee_ledger_item_apply_cache).                               *)
THEOREM SumIsShown == Spec => ShowsTheSum
<1>1. IInv /\ [Next]_vars =>
        [Open =>
           cache' = [count |-> Cardinality({i \in DOMAIN Newest : Countersigned(Newest[i])}),
                     alice_credit |-> Total("ALICE", "credit"),
                     alice_collateral |-> Total("ALICE", "collateral"),
                     bob_credit |-> Total("BOB", "credit"),
                     bob_collateral |-> Total("BOB", "collateral")]]_vars
  <2> SUFFICES
        ASSUME IInv, Open
        PROVE  cache' = [count |-> Cardinality({i \in DOMAIN Newest : Countersigned(Newest[i])}),
                         alice_credit |-> Total("ALICE", "credit"),
                         alice_collateral |-> Total("ALICE", "collateral"),
                         bob_credit |-> Total("BOB", "credit"),
                         bob_collateral |-> Total("BOB", "collateral")]
    OBVIOUS
  <2>1. DOMAIN Newest = 1 .. Len(Newest)
    BY OpenedList DEF IInv, Disk
  <2>2. CountTo(Len(Newest)) = Cardinality({i \in DOMAIN Newest : Countersigned(Newest[i])})
    BY <2>1 DEF CountTo
  <2> QED
    BY <2>2, OpenedCache DEF IInv, Disk
<1> QED
  BY <1>1, Inductive, PTL DEF Spec, ShowsTheSum
=============================================================================
