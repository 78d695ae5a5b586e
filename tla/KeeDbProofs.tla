----------------------------- MODULE KeeDbProofs -----------------------------
(***************************************************************************)
(* Proofs about KeeDb, for any digests, keys, ledgers and databases: its   *)
(* invariants, and, in the second part, that it implements KeeStore.       *)
(***************************************************************************)
EXTENDS KeeDb, WellFoundedInduction, FiniteSetTheorems, SequenceTheorems, TLAPS

-----------------------------------------------------------------------------
(* Keys are ordered, and so a set of records with different keys has a     *)
(* first one: what db_next finds is there.                                 *)
Key == Nat \X Nat \X Nat
UniqueKeys(records) == \A r, q \in records : r.key = q.key => r = q

LEMMA LeastNat ==
  ASSUME NEW S \in SUBSET Nat, S # {}
  PROVE  \E m \in S : \A n \in S : m <= n
<1>1. PICK m \in S : \A n \in S : <<n, m>> \notin OpToRel(<, Nat)
  BY WFMin, NatLessThanWellFounded, Zenon
<1>2. \A n \in S : <<n, m>> \in Nat \X Nat
  OBVIOUS
<1>3. \A n \in S : ~(n < m)
  <2> SUFFICES ASSUME NEW n \in S, n < m PROVE FALSE
    OBVIOUS
  <2>1. <<n, m>>[1] < <<n, m>>[2]
    OBVIOUS
  <2> QED
    BY <1>1, <1>2, <2>1, Zenon DEF OpToRel
<1> QED
  BY <1>3

LEMMA RecordKey ==
  ASSUME NEW r \in Record
  PROVE  r.key \in Key
BY DbAssumption DEF Record, Key, HeadKey, EntryKey, DnKey, ReverseKey, Time,
   DbKeyLedgerHead, DbKeyLedgerEntry, DbKeyDN, DbKeyReverse

LEMMA LeastRecord ==
  ASSUME NEW T \in SUBSET Record, T # {}, UniqueKeys(T)
  PROVE  \E r \in T : \A q \in T : q = r \/ Less(r.key, q.key)
<1> DEFINE T1(a) == {r \in T : r.key[1] = a}
           T2(a, b) == {r \in T1(a) : r.key[2] = b}
<1>0. \A r \in T : r.key = <<r.key[1], r.key[2], r.key[3]>>
                 /\ r.key[1] \in Nat /\ r.key[2] \in Nat /\ r.key[3] \in Nat
  BY RecordKey DEF Key
<1>1. PICK a \in {r.key[1] : r \in T} : \A x \in {r.key[1] : r \in T} : a <= x
  <2> {r.key[1] : r \in T} \in SUBSET Nat /\ {r.key[1] : r \in T} # {}
    BY <1>0
  <2> QED
    BY LeastNat
<1>2. PICK b \in {r.key[2] : r \in T1(a)} : \A x \in {r.key[2] : r \in T1(a)} : b <= x
  <2> {r.key[2] : r \in T1(a)} \in SUBSET Nat /\ {r.key[2] : r \in T1(a)} # {}
    BY <1>0, <1>1
  <2> QED
    BY LeastNat
<1>3. PICK c \in {r.key[3] : r \in T2(a, b)} : \A x \in {r.key[3] : r \in T2(a, b)} : c <= x
  <2> {r.key[3] : r \in T2(a, b)} \in SUBSET Nat /\ {r.key[3] : r \in T2(a, b)} # {}
    BY <1>0, <1>2
  <2> QED
    BY LeastNat
<1>4. PICK r \in T : r.key[1] = a /\ r.key[2] = b /\ r.key[3] = c
  BY <1>3
<1>5. ASSUME NEW q \in T, q # r
      PROVE  Less(r.key, q.key)
  <2>1. q.key # r.key
    BY <1>5 DEF UniqueKeys
  <2>2. a <= q.key[1]
    BY <1>1
  <2>3. a = q.key[1] => b <= q.key[2]
    BY <1>2
  <2>4. a = q.key[1] /\ b = q.key[2] => c <= q.key[3]
    BY <1>3
  <2> QED
    BY <1>0, <1>4, <2>1, <2>2, <2>3, <2>4 DEF Less
<1> QED
  BY <1>5
-----------------------------------------------------------------------------

(* The context as a record; what holds of it at any call; and the three    *)
(* states that handlers leave it in.                                       *)
IsContext(c) ==
  c \in [tx : {"none", "read", "write"}, view : {c.view},
         crsr : {"none", "open", "orphan", "closed"}, at : {c.at}, browsing : BOOLEAN,
         started : BOOLEAN, current_key : {c.current_key}, misused : BOOLEAN]

Sound(c) ==
  /\ IsContext(c)
  /\ c.misused = FALSE
  /\ c.started => c.crsr \in {"open", "orphan"}
  /\ c.browsing => c.crsr = "open" /\ c.tx = "read"

Resting(c) == Sound(c) /\ c.browsing = FALSE /\ c.tx = "none"
Looking(c) == Sound(c) /\ c.browsing = TRUE
Writing(c) == Sound(c) /\ c.browsing = FALSE /\ c.tx = "write"

(* What a transaction sees is made of records with different keys. *)
Typed(c) ==
  /\ c.view \in SUBSET Record /\ UniqueKeys(c.view)
  /\ c.current_key \in DbKey \cup {0}

(* What rewinding leaves is at rest, whatever there was. *)
LEMMA RewindRests ==
  ASSUME NEW c, Sound(c), Typed(c)
  PROVE  Resting(db_rewind(c)) /\ Typed(db_rewind(c))
BY DEF Sound, IsContext, Resting, Typed, UniqueKeys, db_rewind, ended

LEMMA CommitRests ==
  ASSUME NEW c, Writing(c), Typed(c)
  PROVE  Resting(ended(c)) /\ Typed(ended(c))
BY DEF Sound, IsContext, Resting, Writing, Typed, UniqueKeys, ended

LEMMA ConnectedRests ==
  Resting(Connected) /\ Typed(Connected)
BY DEF Sound, IsContext, Resting, Typed, UniqueKeys, Connected

LEMMA StartWrites ==
  ASSUME NEW c, Resting(c), Typed(c), db \in SUBSET Record, UniqueKeys(db)
  PROVE  Writing(db_start(c)) /\ Typed(db_start(c)) /\ db_start(c).view = db
BY DEF Sound, IsContext, Resting, Writing, Typed, db_start

LEMMA AddWrites ==
  ASSUME NEW key, NEW value, Writing(ctx), Typed(ctx), can_add(key),
         [key |-> key, value |-> value] \in Record
  PROVE  /\ Writing(db_add(ctx, key, value)) /\ Typed(db_add(ctx, key, value))
         /\ db_add(ctx, key, value).view = ctx.view \cup {[key |-> key, value |-> value]}
BY DEF Sound, IsContext, Writing, Typed, UniqueKeys, db_add, can_add

(* A lookup that begins in a context at rest misuses nothing. *)
LEMMA BegunLooks ==
  ASSUME NEW c, Resting(c), Typed(c), db \in SUBSET Record, UniqueKeys(db), NEW pfx \in DbKey
  PROVE  Looking(begun(c, pfx)) /\ Typed(begun(c, pfx)) /\ begun(c, pfx).current_key = pfx
<1>1. CASE c.started
  BY <1>1 DEF Sound, IsContext, Resting, Looking, Typed, begun, ended
<1>2. CASE ~c.started
  BY <1>2 DEF Sound, IsContext, Resting, Looking, Typed, begun, ended
<1> QED
  BY <1>1, <1>2 DEF Resting, Sound

(* A lookup in a context at rest, or one that goes on, is sound.  It goes  *)
(* on if it found something, and what it found is a record with the prefix *)
(* that the lookup began with.                                             *)
Lookup(c, pfx, next) ==
  /\ Sound(next.ctx) /\ Typed(next.ctx)
  /\ Resting(c) \/ c.current_key = pfx => next.ctx.current_key = pfx
  /\ next.result = "OK" =>
       /\ Looking(next.ctx)
       /\ \E r \in Record : r.key[1] = next.ctx.current_key /\ r.value = next.value

LEMMA NextSound ==
  ASSUME NEW c, Resting(c) \/ Looking(c), Typed(c), db \in SUBSET Record, UniqueKeys(db),
         NEW pfx \in DbKey, NEW search
  PROVE  Lookup(c, pfx, db_next(c, pfx, search))
<1> DEFINE now == IF c.browsing THEN [c EXCEPT !.misused = @ \/ c.crsr # "open"] ELSE begun(c, pfx)
           view == IF c.browsing THEN c.view ELSE db
           ahead == {r \in view : IF c.browsing THEN Less(c.at, r.key) ELSE ~Less(r.key, search)}
           found == CHOOSE r \in ahead : \A q \in ahead : q = r \/ Less(r.key, q.key)
           moved == [now EXCEPT !.started = TRUE, !.at = found.key]
           unmatched == [moved EXCEPT !.browsing = FALSE]
           nothing == [result |-> "FAIL", ctx |-> now]
           other == [result |-> "NOMATCH", ctx |-> unmatched]
           match == [result |-> "OK", ctx |-> moved, key |-> found.key, value |-> found.value]
<1>1. Looking(now) /\ Typed(now) /\ (Resting(c) \/ c.current_key = pfx => now.current_key = pfx)
  <2>1. CASE c.browsing
    BY <2>1 DEF Sound, IsContext, Resting, Looking, Typed
  <2>2. CASE ~c.browsing
    BY <2>2, BegunLooks DEF Looking
  <2> QED
    BY <2>1, <2>2
<1>2. ASSUME ahead # {}
      PROVE  found \in ahead /\ found \in Record
  <2> ahead \in SUBSET Record /\ UniqueKeys(ahead)
    BY <1>1 DEF Typed, UniqueKeys
  <2> HIDE DEF ahead
  <2> QED
    BY <1>2, LeastRecord
<1>3. db_next(c, pfx, search) =
        IF ahead = {} THEN nothing
        ELSE IF found.key[1] # now.current_key THEN other
        ELSE match
  BY DEF db_next
<1> HIDE DEF now, ahead, found
<1>4. /\ Looking(moved) /\ Typed(moved)
      /\ moved.current_key = now.current_key
  BY <1>1 DEF Sound, IsContext, Looking, Typed
<1>5. /\ Sound(unmatched) /\ Typed(unmatched)
      /\ unmatched.current_key = now.current_key
  BY <1>1 DEF Sound, IsContext, Looking, Typed
<1>6. CASE ahead = {}
  <2>1. db_next(c, pfx, search) = nothing
    BY <1>3, <1>6
  <2> QED
    BY <1>1, <2>1 DEF Looking, Lookup
<1>7. CASE ahead # {} /\ found.key[1] # now.current_key
  <2>1. db_next(c, pfx, search) = other
    BY <1>3, <1>7
  <2> HIDE DEF unmatched
  <2> QED
    BY <1>1, <1>5, <2>1 DEF Lookup
<1>8. CASE ahead # {} /\ found.key[1] = now.current_key
  <2>1. db_next(c, pfx, search) = match
    BY <1>3, <1>8
  <2> HIDE DEF moved
  <2>2. Lookup(c, pfx, match)
    BY <1>1, <1>2, <1>4, <1>8 DEF Looking, Lookup
  <2> QED
    BY <2>1, <2>2
<1> QED
  BY <1>6, <1>7, <1>8
-----------------------------------------------------------------------------
(* The inductive invariant. *)
Recording == {"head", "index", "entry", "finish"}

JobTyped ==
  job \in [at : {"down", "idle", "count", "seek", "name", "items", "reverse", "start"} \cup Recording,
           idx : Int, i : Nat, digest : Digest \cup {0}, content : Content \cup {NoContent},
           name : {job.name}, time : Int]

(* The context between the calls of each handler: a lookup is open from    *)
(* its first result on, a transaction from its start to its commit, and    *)
(* nothing else is.                                                        *)
ContextInv ==
  /\ Sound(ctx) /\ Typed(ctx)
  /\ job.at \in {"down", "idle", "reverse", "start"} => Resting(ctx)
  /\ job.at \in {"count", "seek", "items"} => IF job.i = 0 THEN Resting(ctx) ELSE Looking(ctx)
  /\ job.at \in {"count", "seek"} /\ job.i # 0 => ctx.current_key = DbKeyLedgerHead
  /\ job.at = "name" => job.i = 0
  /\ job.at \in Recording => Writing(ctx)

(* Every page is made of a ledger that was found or imported: a list that  *)
(* is not empty has found one.                                             *)
ValuesInv ==
  /\ last_value \in Content \cup {NoContent} /\ last_count \in Nat
  /\ rows \in SUBSET (Nat \X Content)
  /\ last_count > 0 \/ job.at = "seek" \/ (job.at = "count" /\ job.i # 0) => last_value \in Content
  /\ job.at \in {"name", "items", "reverse", "start"} \cup Recording => job.content \in Content
  /\ job.at \in {"reverse", "start"} \cup Recording => job.digest \in Digest

(* What kee_ledger_put has added at each of its calls, to a database that  *)
(* has neither the time nor the digest yet.                                *)
HeadRecord == [key |-> HeadKey(job.time), value |-> job.content]
ReverseRecord == [key |-> ReverseKey(job.digest), value |-> job.time]
ItemRecord == [key |-> EntryKey(job.digest, 0), value |-> 0]

PutInv ==
  /\ job.at \in Recording => /\ job.time \in Time /\ job.time = clock
                             /\ \A t \in HeadsOf(db) : t < job.time
  /\ job.at = "head" => ctx.view = db
  /\ job.at = "index" => ctx.view = db \cup {HeadRecord}
  /\ job.at = "entry" => ctx.view \in {db \cup {HeadRecord, ReverseRecord}, db \cup {HeadRecord, ReverseRecord, ItemRecord}}
  /\ job.at = "finish" => /\ ctx.view \in {db \cup {HeadRecord, ReverseRecord}, db \cup {HeadRecord, ReverseRecord, ItemRecord}}
                         /\ \E r \in ctx.view : r.key = EntryKey(job.digest, 0)

RecordsInv ==
  /\ db \in SUBSET Record /\ UniqueKeys(db)
  /\ Whole(db)
  /\ clock \in 0 .. MaxTime /\ \A t \in HeadsOf(db) : t <= clock

DbInv == JobTyped /\ ContextInv /\ ValuesInv /\ RecordsInv /\ PutInv

LEMMA InitInv ==
  ASSUME Init
  PROVE  DbInv
<1>1. JobTyped
  BY DEF Init, JobTyped, Down, Rest, Recording
<1>2. ContextInv
  BY ConnectedRests DEF Init, ContextInv, Resting, Down, Rest, Recording
<1>3. ValuesInv
  BY DEF Init, ValuesInv, Down, Rest, Recording
<1>4. RecordsInv
  BY SeedsAssumption DEF Init, RecordsInv, UniqueKeys
<1>5. PutInv
  BY DEF Init, PutInv, Down, Rest, Recording
<1> QED
  BY <1>1, <1>2, <1>3, <1>4, <1>5 DEF DbInv

(* The prefixes differ, and are prefixes. *)
LEMMA Prefixes ==
  /\ {DbKeyLedgerHead, DbKeyLedgerEntry, DbKeyDN, DbKeyReverse} \subseteq DbKey
  /\ \A r \in Record : r.key[1] = DbKeyLedgerHead => r.value \in Content
<1>1. \A r \in Record : r.key[1] = DbKeyLedgerHead => r.value \in Content
  BY DEF Record, HeadKey, EntryKey, DnKey, ReverseKey,
     DbKeyLedgerHead, DbKeyLedgerEntry, DbKeyDN, DbKeyReverse
<1> QED
  BY <1>1 DEF DbKey

(* A handler that leaves what it shows and the database alone, and is at   *)
(* rest after it.                                                          *)
LEMMA StartKeeps ==
  ASSUME DbInv, Start
  PROVE  DbInv'
<1>1. JobTyped'
  BY DEF Start, JobTyped, Rest, Recording
<1>2. ContextInv'
  BY DEF DbInv, Start, ContextInv, Rest, Recording
<1>3. ValuesInv'
  BY DEF DbInv, Start, ValuesInv, storeVars, Rest, Recording
<1>4. RecordsInv'
  BY DEF DbInv, Start, RecordsInv
<1>5. PutInv'
  BY DEF Start, PutInv, Rest, Recording
<1> QED
  BY <1>1, <1>2, <1>3, <1>4, <1>5 DEF DbInv

LEMMA GoneKeeps ==
  ASSUME DbInv, Gone
  PROVE  DbInv'
<1>1. JobTyped'
  BY DEF Gone, JobTyped, Down, Rest, Recording
<1>2. ContextInv'
  BY ConnectedRests DEF Gone, ContextInv, Resting, Down, Rest, Recording, Sound, Typed, IsContext
<1>3. ValuesInv'
  BY DEF DbInv, Gone, ValuesInv, Down, Rest, Recording
<1>4. RecordsInv'
  BY DEF DbInv, Gone, RecordsInv
<1>5. PutInv'
  BY DEF Gone, PutInv, Down, Rest, Recording
<1> QED
  BY <1>1, <1>2, <1>3, <1>4, <1>5 DEF DbInv

LEMMA RestTyped ==
  Rest \in [at : {"idle"}, idx : Int, i : {0}, digest : {0}, content : {NoContent},
            name : {NoName}, time : {0}]
BY DEF Rest

(* Handlers that begin. *)
LEMMA BeginKeeps ==
  ASSUME DbInv,
         \/ \E idx \in 0 .. last_count - 1 : GetItem(idx)
         \/ \E l \in Ledger : Sheet(l) \/ Put(l)
  PROVE  DbInv'
<1>1. CASE \E idx \in 0 .. last_count - 1 : GetItem(idx)
  <2> PICK idx \in 0 .. last_count - 1 : GetItem(idx)
    BY <1>1
  <2>0. job' \in [at : {"seek"}, idx : Int, i : {0}, digest : {0}, content : {NoContent},
                 name : {NoName}, time : {0}]
    <3>1. idx \in Int
      BY DEF DbInv, ValuesInv
    <3> QED
      BY <3>1, RestTyped DEF GetItem
  <2>1. JobTyped' /\ PutInv'
    BY <2>0 DEF JobTyped, PutInv, Recording
  <2>2. ContextInv'
    BY <2>0 DEF DbInv, GetItem, ContextInv, Recording
  <2>3. ValuesInv'
    <3>1. last_count > 0
      BY DEF DbInv, ValuesInv
    <3> QED
      BY <2>0, <3>1 DEF DbInv, GetItem, ValuesInv, storeVars, Recording
  <2>4. RecordsInv'
    BY DEF DbInv, GetItem, RecordsInv
  <2> QED
    BY <2>1, <2>2, <2>3, <2>4 DEF DbInv
<1>2. CASE \E l \in Ledger : Sheet(l)
  <2> PICK l \in Ledger : Sheet(l)
    BY <1>2
  <2>1. [content |-> l.content, bob |-> l.bob] \in Content
    BY DbAssumption DEF Content
  <2>0. job' \in [at : {"name"}, idx : Int, i : {0}, digest : {0}, content : Content,
                 name : {NoName}, time : {0}]
    BY <2>1, RestTyped DEF Sheet
  <2>2. JobTyped' /\ PutInv'
    BY <2>0 DEF JobTyped, PutInv, Recording
  <2>3. ContextInv'
    BY <2>0 DEF DbInv, Sheet, ContextInv, Recording
  <2>4. ValuesInv'
    BY <2>0 DEF DbInv, Sheet, ValuesInv, storeVars, Recording
  <2>5. RecordsInv'
    BY DEF DbInv, Sheet, RecordsInv
  <2> QED
    BY <2>2, <2>3, <2>4, <2>5 DEF DbInv
<1>3. CASE \E l \in Ledger : Put(l)
  <2> PICK l \in Ledger : Put(l)
    BY <1>3
  <2>1. [content |-> l.content, bob |-> l.bob] \in Content /\ l.digest \in Digest
    BY DbAssumption DEF Content
  <2>0. job' \in [at : {"reverse"}, idx : Int, i : {0}, digest : Digest, content : Content,
                 name : {NoName}, time : {0}]
    BY <2>1, RestTyped DEF Put
  <2>2. JobTyped' /\ PutInv'
    BY <2>0 DEF JobTyped, PutInv, Recording
  <2>3. ContextInv'
    BY <2>0 DEF DbInv, Put, ContextInv, Recording
  <2>4. ValuesInv'
    BY <2>0 DEF DbInv, Put, ValuesInv, storeVars, Recording
  <2>5. RecordsInv'
    BY DEF DbInv, Put, RecordsInv
  <2> QED
    BY <2>2, <2>3, <2>4, <2>5 DEF DbInv
<1> QED
  BY <1>1, <1>2, <1>3

(* What a lookup for a head finds is a content. *)
LEMMA HeadFound ==
  ASSUME DbInv, job.at \in {"count", "seek"}
  PROVE  LET next == db_next(ctx, DbKeyLedgerHead, HeadSearch)
         IN  /\ Sound(next.ctx) /\ Typed(next.ctx)
             /\ next.result = "OK" => /\ Looking(next.ctx) /\ next.value \in Content
                                      /\ next.ctx.current_key = DbKeyLedgerHead
<1> DEFINE next == db_next(ctx, DbKeyLedgerHead, HeadSearch)
<1>1. Resting(ctx) \/ (Looking(ctx) /\ ctx.current_key = DbKeyLedgerHead)
  BY DEF DbInv, ContextInv
<1>2. Lookup(ctx, DbKeyLedgerHead, next)
  BY <1>1, Prefixes, NextSound DEF DbInv, ContextInv, RecordsInv
<1> SUFFICES /\ Sound(next.ctx) /\ Typed(next.ctx)
             /\ next.result = "OK" => /\ Looking(next.ctx) /\ next.value \in Content
                                      /\ next.ctx.current_key = DbKeyLedgerHead
  OBVIOUS
<1> HIDE DEF next
<1> QED
  BY <1>1, <1>2, Prefixes DEF Lookup

LEMMA CountKeeps ==
  ASSUME DbInv, Count
  PROVE  DbInv'
<1> DEFINE next == db_next(ctx, DbKeyLedgerHead, HeadSearch)
<1>0. /\ Sound(next.ctx) /\ Typed(next.ctx)
      /\ next.result = "OK" => /\ Looking(next.ctx) /\ next.value \in Content
                               /\ next.ctx.current_key = DbKeyLedgerHead
  BY HeadFound DEF Count
<1>a. IF next.result = "OK"
      THEN /\ ctx' = next.ctx
           /\ last_value' = next.value
           /\ job' = [job EXCEPT !.i = @ + 1]
           /\ UNCHANGED last_count
      ELSE /\ ctx' = db_rewind(next.ctx)
           /\ last_count' = job.i
           /\ job' = Rest
           /\ UNCHANGED last_value
  BY DEF Count, counted
<1>b. job.at = "count" /\ UNCHANGED <<db, clock, rows>>
  BY DEF Count
<1> HIDE DEF next
<1>1. JobTyped'
  BY <1>a, <1>b DEF DbInv, JobTyped, Rest, Recording
<1>2. ContextInv'
  <2>1. CASE next.result = "OK"
    <3>1. job'.at = "count" /\ job'.i # 0
      BY <1>a, <1>b, <2>1 DEF DbInv, JobTyped
    <3>2. Sound(next.ctx) /\ Typed(next.ctx) /\ Looking(next.ctx)
          /\ next.ctx.current_key = DbKeyLedgerHead
      BY <1>0, <2>1
    <3>3. ctx' = next.ctx
      BY <1>a, <2>1
    <3> QED
      BY <3>1, <3>2, <3>3 DEF ContextInv, Recording
  <2>2. CASE next.result # "OK"
    <3>1. job' = Rest /\ Resting(ctx') /\ Typed(ctx')
      BY <1>0, <1>a, <2>2, RewindRests
    <3> QED
      BY <3>1 DEF ContextInv, Resting, Rest, Recording
  <2> QED
    BY <2>1, <2>2
<1>3. ValuesInv'
  BY <1>0, <1>a, <1>b DEF DbInv, JobTyped, ValuesInv, Rest, Recording
<1>4. RecordsInv'
  BY <1>b DEF DbInv, RecordsInv
<1>5. PutInv'
  BY <1>a, <1>b DEF DbInv, JobTyped, PutInv, Rest, Recording
<1> QED
  BY <1>1, <1>2, <1>3, <1>4, <1>5 DEF DbInv

LEMMA SeekKeeps ==
  ASSUME DbInv, Seek
  PROVE  DbInv'
<1> DEFINE next == db_next(ctx, DbKeyLedgerHead, HeadSearch)
           value == IF next.result = "OK" THEN next.value ELSE last_value
           more == next.result = "OK" /\ goes_on(job.i, job.idx)
<1>0. /\ Sound(next.ctx) /\ Typed(next.ctx)
      /\ next.result = "OK" => /\ Looking(next.ctx) /\ next.value \in Content
                               /\ next.ctx.current_key = DbKeyLedgerHead
  BY HeadFound DEF Seek
<1>a. /\ last_value' = value
      /\ ctx' = IF next.result = "OK" THEN next.ctx ELSE db_rewind(next.ctx)
      /\ job' = IF more THEN [job EXCEPT !.i = @ + 1]
                ELSE [job EXCEPT !.at = "name", !.content = value, !.i = 0]
  BY DEF Seek
<1>b. job.at = "seek" /\ UNCHANGED <<db, clock, last_count, rows>>
  BY DEF Seek
<1>c. value \in Content
  BY <1>0, <1>b DEF DbInv, ValuesInv
<1>d. Sound(ctx') /\ Typed(ctx')
  BY <1>0, <1>a, RewindRests DEF Resting
<1>e. CASE more
  <2>1. next.result = "OK"
    BY <1>e
  <2>2. ctx' = next.ctx /\ job' = [job EXCEPT !.i = @ + 1]
    BY <1>a, <1>e, <2>1
  <2>3. Looking(next.ctx) /\ next.ctx.current_key = DbKeyLedgerHead
    BY <1>0, <2>1
  <2> HIDE DEF next, value, more
  <2>4. job' \in [at : {"seek"}, idx : Int, i : Nat \ {0}, digest : Digest \cup {0},
                 content : Content \cup {NoContent}, name : {job.name}, time : Int]
    BY <1>b, <2>2 DEF DbInv, JobTyped
  <2>5. JobTyped' /\ PutInv'
    BY <2>4 DEF JobTyped, PutInv, Recording
  <2>6. ContextInv'
    BY <1>d, <2>2, <2>3, <2>4 DEF ContextInv, Recording
  <2>7. ValuesInv' /\ RecordsInv'
    BY <1>a, <1>b, <1>c, <2>4 DEF DbInv, ValuesInv, RecordsInv, Recording
  <2> QED
    BY <2>5, <2>6, <2>7 DEF DbInv
<1>f. CASE ~more
  <2>1. job' = [job EXCEPT !.at = "name", !.content = value, !.i = 0]
    BY <1>a, <1>f
  <2> HIDE DEF next, value, more
  <2>2. job' \in [at : {"name"}, idx : Int, i : {0}, digest : Digest \cup {0},
                 content : Content, name : {job.name}, time : Int]
    BY <1>c, <2>1 DEF DbInv, JobTyped
  <2>3. JobTyped' /\ PutInv'
    BY <2>2 DEF JobTyped, PutInv, Recording
  <2>4. ContextInv'
    BY <1>d, <2>2 DEF ContextInv, Recording
  <2>5. ValuesInv' /\ RecordsInv'
    BY <1>a, <1>b, <1>c, <2>2 DEF DbInv, ValuesInv, RecordsInv, Recording
  <2> QED
    BY <2>3, <2>4, <2>5 DEF DbInv
<1> QED
  BY <1>e, <1>f

(* The name is looked for in a context that was rewound. *)
LEMMA NameKeeps ==
  ASSUME DbInv, Name
  PROVE  DbInv'
<1> DEFINE next == db_next(db_rewind(ctx), DbKeyDN, DnSearch(job.content.bob))
<1>1. CASE next.result = "FAIL"
  BY <1>1, GoneKeeps DEF Name
<1>2. CASE next.result # "FAIL"
  <2>1. Sound(next.ctx) /\ Typed(next.ctx)
    <3>1. Resting(db_rewind(ctx)) /\ Typed(db_rewind(ctx))
      BY RewindRests DEF DbInv, ContextInv
    <3> QED
      BY <3>1, Prefixes, NextSound DEF DbInv, RecordsInv, Lookup
  <2>2. /\ job.at = "name"
        /\ ctx' = db_rewind(next.ctx)
        /\ job' = [job EXCEPT !.at = "items",
                     !.name = IF next.result = "OK" THEN next.value ELSE NoName]
        /\ UNCHANGED <<db, clock, storeVars>>
    BY <1>2 DEF Name
  <2> HIDE DEF next
  <2>3. Resting(ctx') /\ Typed(ctx')
    BY <2>1, <2>2, RewindRests
  <2>4. job' \in [at : {"items"}, idx : Int, i : {0}, digest : Digest \cup {0},
                 content : Content, name : {job'.name}, time : Int]
    BY <2>2 DEF DbInv, JobTyped, ContextInv, ValuesInv
  <2>5. JobTyped' /\ PutInv'
    BY <2>4 DEF JobTyped, PutInv, Recording
  <2>6. ContextInv'
    BY <2>3, <2>4 DEF ContextInv, Resting, Recording
  <2>7. ValuesInv' /\ RecordsInv'
    BY <2>2, <2>4 DEF DbInv, ValuesInv, RecordsInv, storeVars, Recording
  <2> QED
    BY <2>5, <2>6, <2>7 DEF DbInv
<1> QED
  BY <1>1, <1>2

LEMMA ItemsKeeps ==
  ASSUME DbInv, Items
  PROVE  DbInv'
<1> DEFINE d == job.content.content
           next == db_next(ctx, DbKeyLedgerEntry, EntrySearch(d))
           more == next.result = "OK" /\ next.key[2] = d
<1>0. /\ Sound(next.ctx) /\ Typed(next.ctx)
      /\ next.result = "OK" => Looking(next.ctx)
  <2>1. Resting(ctx) \/ Looking(ctx)
    BY DEF DbInv, ContextInv, Items
  <2> QED
    BY <2>1, Prefixes, NextSound DEF DbInv, ContextInv, RecordsInv, Lookup
<1>a. IF more
      THEN /\ ctx' = next.ctx
           /\ job' = [job EXCEPT !.i = @ + 1]
           /\ UNCHANGED rows
      ELSE /\ ctx' = db_rewind(next.ctx)
           /\ job' = Rest
           /\ rows' = IF job.idx < 0 THEN rows ELSE rows \cup {<<job.idx, job.content>>}
  BY DEF Items
<1>b. job.at = "items" /\ UNCHANGED <<db, clock, last_value, last_count>>
  BY DEF Items
<1>c. rows' \in SUBSET (Nat \X Content)
  <2> HIDE DEF next, d
  <2> QED
    BY <1>a, <1>b DEF DbInv, JobTyped, ValuesInv
<1>d. CASE more
  <2>1. Looking(next.ctx)
    BY <1>0, <1>d
  <2>2. ctx' = next.ctx /\ job' = [job EXCEPT !.i = @ + 1]
    BY <1>a, <1>d
  <2> HIDE DEF next, more
  <2>3. job' \in [at : {"items"}, idx : Int, i : Nat \ {0}, digest : Digest \cup {0},
                 content : Content, name : {job.name}, time : Int]
    BY <1>b, <2>2 DEF DbInv, JobTyped, ValuesInv
  <2>4. JobTyped' /\ PutInv'
    BY <2>3 DEF JobTyped, PutInv, Recording
  <2>5. ContextInv'
    BY <1>0, <2>1, <2>2, <2>3 DEF ContextInv, Recording
  <2>6. ValuesInv' /\ RecordsInv'
    BY <1>b, <1>c, <2>3 DEF DbInv, ValuesInv, RecordsInv, Recording
  <2> QED
    BY <2>4, <2>5, <2>6 DEF DbInv
<1>e. CASE ~more
  <2>1. ctx' = db_rewind(next.ctx) /\ job' = Rest
    BY <1>a, <1>e
  <2> HIDE DEF next, more
  <2>2. Resting(ctx') /\ Typed(ctx')
    BY <1>0, <2>1, RewindRests
  <2>3. JobTyped' /\ PutInv'
    BY <2>1, RestTyped DEF JobTyped, PutInv, Recording
  <2>4. ContextInv'
    BY <2>1, <2>2, RestTyped DEF ContextInv, Resting, Recording
  <2>5. ValuesInv' /\ RecordsInv'
    BY <1>b, <1>c, <2>1, RestTyped DEF DbInv, ValuesInv, RecordsInv, Recording
  <2> QED
    BY <2>3, <2>4, <2>5 DEF DbInv
<1> QED
  BY <1>d, <1>e

(* Neither lookup of kee_ledger_put leaves anything open. *)
LEMMA PutLookupKeeps ==
  ASSUME DbInv, PutLookup
  PROVE  DbInv'
<1> DEFINE first == db_next(ctx, DbKeyReverse, ReverseSearch(job.digest))
           second == db_next(db_rewind(first.ctx), DbKeyLedgerHead, TimeSearch)
           both == first.result = "OK" /\ second.result = "OK"
<1>1. CASE both
  BY <1>1, GoneKeeps DEF PutLookup
<1>2. CASE ~both
  <2>1. Sound(first.ctx) /\ Typed(first.ctx)
    BY Prefixes, NextSound DEF DbInv, ContextInv, RecordsInv, Lookup, PutLookup
  <2>2. Sound(second.ctx) /\ Typed(second.ctx)
    <3> HIDE DEF first
    <3>1. Resting(db_rewind(first.ctx)) /\ Typed(db_rewind(first.ctx))
      BY <2>1, RewindRests
    <3> QED
      BY <3>1, Prefixes, NextSound DEF DbInv, RecordsInv, Lookup
  <2>3. /\ job.at = "reverse"
        /\ ctx' = db_rewind(IF first.result = "OK" THEN second.ctx ELSE first.ctx)
        /\ job' = [job EXCEPT !.at = "start"]
        /\ UNCHANGED <<db, clock, storeVars>>
    BY <1>2 DEF PutLookup
  <2> HIDE DEF first, second, both
  <2>4. Resting(ctx') /\ Typed(ctx')
    BY <2>1, <2>2, <2>3, RewindRests
  <2>5. job' \in [at : {"start"}, idx : Int, i : Nat, digest : Digest,
                 content : Content, name : {job'.name}, time : Int]
    BY <2>3 DEF DbInv, JobTyped, ValuesInv
  <2>6. JobTyped' /\ PutInv'
    BY <2>5 DEF JobTyped, PutInv, Recording
  <2>7. ContextInv'
    BY <2>4, <2>5 DEF ContextInv, Resting, Recording
  <2>8. ValuesInv' /\ RecordsInv'
    BY <2>3, <2>5 DEF DbInv, ValuesInv, RecordsInv, storeVars, Recording
  <2> QED
    BY <2>6, <2>7, <2>8 DEF DbInv
<1> QED
  BY <1>1, <1>2

LEMMA PutStartKeeps ==
  ASSUME DbInv, NEW t \in Time, PutStart(t)
  PROVE  DbInv'
<1>0. job.at = "start" /\ t > clock /\ clock' = t /\ ctx' = db_start(ctx)
      /\ job' = [job EXCEPT !.at = "head", !.time = t] /\ UNCHANGED <<db, storeVars>>
  BY DEF PutStart
<1>1. Writing(ctx') /\ Typed(ctx') /\ ctx'.view = db
  BY <1>0, StartWrites DEF DbInv, ContextInv, RecordsInv
<1>2. t \in Int /\ t \in 0 .. MaxTime
  BY DbAssumption DEF Time
<1>3. job' \in [at : {"head"}, idx : Int, i : Nat, digest : Digest, content : Content,
               name : {job.name}, time : {t}]
  BY <1>0 DEF DbInv, JobTyped, ValuesInv, Recording
<1>4. JobTyped'
  BY <1>2, <1>3 DEF JobTyped, Recording
<1>5. ContextInv'
  BY <1>1, <1>3 DEF ContextInv, Writing, Recording
<1>6. ValuesInv'
  BY <1>0, <1>3 DEF DbInv, ValuesInv, storeVars, Recording
<1>7. \A u \in HeadsOf(db) : u \in Int /\ u <= clock /\ clock \in Int
  <2>1. \A u \in HeadsOf(db) : u \in Nat
    BY RecordKey DEF DbInv, RecordsInv, HeadsOf, Key
  <2> QED
    BY <2>1, DbAssumption DEF DbInv, RecordsInv
<1>8. RecordsInv'
  BY <1>0, <1>2, <1>7 DEF DbInv, RecordsInv
<1>9. PutInv'
  BY <1>0, <1>1, <1>2, <1>3, <1>7 DEF PutInv, Recording
<1> QED
  BY <1>4, <1>5, <1>6, <1>8, <1>9 DEF DbInv

(* A record is added, and the handler goes on. *)
LEMMA AddKeeps ==
  ASSUME DbInv, job.at \in Recording, NEW r \in Record, can_add(r.key),
         ctx' = db_add(ctx, r.key, r.value), UNCHANGED <<db, clock, storeVars>>,
         NEW at \in Recording, job' = [job EXCEPT !.at = at], PutInv'
  PROVE  DbInv'
<1>1. [key |-> r.key, value |-> r.value] = r
  BY DEF Record
<1>2. Writing(ctx') /\ Typed(ctx')
  BY <1>1, AddWrites DEF DbInv, ContextInv
<1>3. job' \in [at : {at}, idx : Int, i : Nat, digest : Digest, content : Content,
               name : {job.name}, time : Int]
  BY DEF DbInv, JobTyped, ValuesInv
<1>4. JobTyped'
  BY <1>3 DEF JobTyped
<1>5. ContextInv'
  BY <1>2, <1>3 DEF ContextInv, Writing, Recording
<1>6. ValuesInv' /\ RecordsInv'
  BY <1>3 DEF DbInv, ValuesInv, RecordsInv, storeVars, Recording
<1> QED
  BY <1>4, <1>5, <1>6 DEF DbInv

LEMMA RecordsTyped ==
  ASSUME DbInv, job.at \in Recording
  PROVE  HeadRecord \in Record /\ ReverseRecord \in Record /\ ItemRecord \in Record
<1>1. job.time \in Time /\ job.content \in Content /\ job.digest \in Digest /\ 0 \in 0 .. MaxTime
  BY DbAssumption DEF DbInv, PutInv, ValuesInv
<1> QED
  BY <1>1 DEF HeadRecord, ReverseRecord, ItemRecord, Record

LEMMA PutHeadKeeps ==
  ASSUME DbInv, PutHead
  PROVE  DbInv'
<1>1. CASE can_add(HeadKey(job.time))
  <2>1. /\ job.at = "head" /\ ctx' = db_add(ctx, HeadKey(job.time), job.content)
        /\ job' = [job EXCEPT !.at = "index"] /\ UNCHANGED <<db, clock, storeVars>>
    BY <1>1 DEF PutHead
  <2>2. job.at \in Recording /\ HeadRecord \in Record
    BY <2>1, RecordsTyped DEF Recording
  <2>3. HeadRecord.key = HeadKey(job.time) /\ HeadRecord.value = job.content
    BY DEF HeadRecord
  <2>4. ctx'.view = ctx.view \cup {HeadRecord}
    BY <1>1, <2>1, <2>2, AddWrites DEF DbInv, ContextInv, HeadRecord
  <2>5. job'.at = "index" /\ job'.time = job.time /\ job'.content = job.content
    BY <2>1 DEF DbInv, JobTyped
  <2>6. PutInv'
    BY <2>1, <2>2, <2>4, <2>5 DEF DbInv, PutInv, HeadRecord
  <2> QED
    BY <1>1, <2>1, <2>2, <2>3, <2>6, AddKeeps DEF Recording
<1>2. CASE ~can_add(HeadKey(job.time))
  BY <1>2, GoneKeeps DEF PutHead
<1> QED
  BY <1>1, <1>2

LEMMA PutReverseKeeps ==
  ASSUME DbInv, PutReverse
  PROVE  DbInv'
<1>1. CASE can_add(ReverseKey(job.digest))
  <2>1. /\ job.at = "index" /\ ctx' = db_add(ctx, ReverseKey(job.digest), job.time)
        /\ job' = [job EXCEPT !.at = "entry"] /\ UNCHANGED <<db, clock, storeVars>>
    BY <1>1 DEF PutReverse
  <2>2. job.at \in Recording /\ ReverseRecord \in Record
    BY <2>1, RecordsTyped DEF Recording
  <2>3. ReverseRecord.key = ReverseKey(job.digest) /\ ReverseRecord.value = job.time
    BY DEF ReverseRecord
  <2>4. ctx'.view = ctx.view \cup {ReverseRecord}
    BY <1>1, <2>1, <2>2, AddWrites DEF DbInv, ContextInv, ReverseRecord
  <2>5. job'.at = "entry" /\ job'.time = job.time /\ job'.content = job.content
        /\ job'.digest = job.digest
    BY <2>1 DEF DbInv, JobTyped
  <2>6. HeadRecord' = HeadRecord /\ ReverseRecord' = ReverseRecord
    BY <2>5 DEF HeadRecord, ReverseRecord
  <2>7. ctx'.view = db \cup {HeadRecord, ReverseRecord}
    BY <2>1, <2>4 DEF DbInv, PutInv
  <2>8. PutInv'
    BY <2>1, <2>2, <2>5, <2>6, <2>7 DEF DbInv, PutInv
  <2> QED
    BY <1>1, <2>1, <2>2, <2>3, <2>8, AddKeeps DEF Recording
<1>2. CASE ~can_add(ReverseKey(job.digest))
  BY <1>2, GoneKeeps DEF PutReverse
<1> QED
  BY <1>1, <1>2

LEMMA PutEntryKeeps ==
  ASSUME DbInv, PutEntry
  PROVE  DbInv'
<1>0. job.at = "entry" /\ job.at \in Recording /\ UNCHANGED <<db, clock, storeVars>>
  BY DEF PutEntry, Recording
<1>1. CASE can_add(EntryKey(job.digest, 0))
  <2>1. ctx' = db_add(ctx, EntryKey(job.digest, 0), 0) /\ UNCHANGED job
    BY <1>1 DEF PutEntry
  <2>2. ItemRecord \in Record
    BY <1>0, RecordsTyped
  <2>3. ItemRecord.key = EntryKey(job.digest, 0) /\ ItemRecord.value = 0
    BY DEF ItemRecord
  <2>4. ctx'.view = ctx.view \cup {ItemRecord}
    BY <1>0, <1>1, <2>1, <2>2, AddWrites DEF DbInv, ContextInv, ItemRecord
  <2>5. PutInv'
    <3>1. HeadRecord' = HeadRecord /\ ReverseRecord' = ReverseRecord /\ ItemRecord' = ItemRecord
      BY <2>1 DEF HeadRecord, ReverseRecord, ItemRecord
    <3>2. ctx'.view = db \cup {HeadRecord, ReverseRecord, ItemRecord}
      BY <1>0, <2>4 DEF DbInv, PutInv
    <3> QED
      BY <1>0, <2>1, <3>1, <3>2 DEF DbInv, PutInv
  <2>6. job' = [job EXCEPT !.at = "entry"]
    BY <1>0, <2>1 DEF DbInv, JobTyped
  <2> QED
    BY <1>0, <1>1, <2>1, <2>2, <2>3, <2>5, <2>6, AddKeeps DEF Recording
<1>2. CASE ~can_add(EntryKey(job.digest, 0))
  <2>1. job' = [job EXCEPT !.at = "finish"] /\ UNCHANGED ctx
    BY <1>2 DEF PutEntry
  <2>2. PICK r \in ctx.view : r.key = EntryKey(job.digest, 0)
    BY <1>2 DEF can_add
  <2>3. job' \in [at : {"finish"}, idx : Int, i : Nat, digest : {job.digest},
                 content : {job.content}, name : {job.name}, time : {job.time}]
    BY <2>1 DEF DbInv, JobTyped
  <2>4. HeadRecord' = HeadRecord /\ ReverseRecord' = ReverseRecord /\ ItemRecord' = ItemRecord
    BY <2>3 DEF HeadRecord, ReverseRecord, ItemRecord
  <2>5. PutInv'
    BY <1>0, <2>1, <2>2, <2>3, <2>4 DEF DbInv, PutInv, Recording
  <2>6. JobTyped'
    BY <2>3 DEF DbInv, JobTyped, Recording
  <2>7. ContextInv'
    BY <1>0, <2>1, <2>3 DEF DbInv, ContextInv, Recording
  <2>8. ValuesInv' /\ RecordsInv'
    BY <1>0, <2>3 DEF DbInv, ValuesInv, RecordsInv, storeVars, Recording
  <2> QED
    BY <2>5, <2>6, <2>7, <2>8 DEF DbInv
<1> QED
  BY <1>1, <1>2

(* What a transaction of kee_ledger_put commits is whole. *)
LEMMA CommitWhole ==
  ASSUME DbInv, job.at = "finish"
  PROVE  Whole(ctx.view) /\ HeadsOf(ctx.view) = HeadsOf(db) \cup {job.time}
<1> DEFINE view == ctx.view
<1>0. DbKeyLedgerHead = 1 /\ DbKeyLedgerEntry = 2 /\ DbKeyReverse = 255
  BY DEF DbKeyLedgerHead, DbKeyLedgerEntry, DbKeyReverse
<1>1. view \in {db \cup {HeadRecord, ReverseRecord}, db \cup {HeadRecord, ReverseRecord, ItemRecord}}
  BY DEF DbInv, PutInv
<1>2. /\ HeadRecord.key[1] = 1 /\ HeadRecord.key[2] = job.time
      /\ ReverseRecord.key[1] = 255 /\ ReverseRecord.key[2] = job.digest
      /\ ReverseRecord.value = job.time /\ ItemRecord.key[1] = 2
  BY <1>0 DEF HeadRecord, ReverseRecord, ItemRecord, HeadKey, ReverseKey, EntryKey
<1>3. HeadsOf(view) = HeadsOf(db) \cup {job.time}
  BY <1>0, <1>1, <1>2 DEF HeadsOf
<1>4. ReverseOf(view) = ReverseOf(db) \cup {ReverseRecord}
  BY <1>0, <1>1, <1>2 DEF ReverseOf
<1>5. job.time \notin HeadsOf(db)
  <2>1. job.time \in Int /\ \A t \in HeadsOf(db) : t < job.time
    BY DEF DbInv, JobTyped, PutInv, Recording
  <2> QED
    BY <2>1
<1>6. {r.value : r \in ReverseOf(view)} = HeadsOf(view)
  BY <1>2, <1>3, <1>4 DEF DbInv, RecordsInv, Whole
<1>7. \A r, q \in ReverseOf(view) : r.value = q.value => r = q
  <2>1. \A r \in ReverseOf(db) : r.value # job.time
    BY <1>5 DEF DbInv, RecordsInv, Whole
  <2>2. \A r, q \in ReverseOf(db) : r.value = q.value => r = q
    BY DEF DbInv, RecordsInv, Whole
  <2> QED
    BY <1>2, <1>4, <2>1, <2>2
<1>8. ASSUME NEW r \in ReverseOf(view)
      PROVE  \E q \in view : q.key[1] = DbKeyLedgerEntry /\ q.key[2] = r.key[2]
  <2>1. CASE r \in ReverseOf(db)
    <3>1. PICK q \in db : q.key[1] = DbKeyLedgerEntry /\ q.key[2] = r.key[2]
      BY <2>1 DEF DbInv, RecordsInv, Whole
    <3> QED
      BY <1>1, <3>1
  <2>2. CASE r = ReverseRecord
    <3>1. PICK q \in view : q.key = EntryKey(job.digest, 0)
      BY DEF DbInv, PutInv
    <3>2. q.key[1] = DbKeyLedgerEntry /\ q.key[2] = job.digest
      BY <3>1 DEF EntryKey
    <3> QED
      BY <1>2, <2>2, <3>2
  <2> QED
    BY <1>4, <1>8, <2>1, <2>2
<1> HIDE DEF view
<1>9. Whole(view)
  BY <1>6, <1>7, <1>8 DEF Whole
<1> QED
  BY <1>3, <1>9 DEF view

LEMMA PutFinishKeeps ==
  ASSUME DbInv, PutFinish
  PROVE  DbInv'
<1>0. job.at = "finish" /\ db' = ctx.view /\ ctx' = ended(ctx) /\ job' = Rest
      /\ UNCHANGED <<clock, storeVars>>
  BY DEF PutFinish
<1>1. Resting(ctx') /\ Typed(ctx')
  BY <1>0, CommitRests DEF DbInv, ContextInv, Recording
<1>2. JobTyped' /\ PutInv'
  BY <1>0, RestTyped DEF JobTyped, PutInv, Recording
<1>3. ContextInv'
  BY <1>0, <1>1, RestTyped DEF ContextInv, Resting, Recording
<1>4. ValuesInv'
  BY <1>0, RestTyped DEF DbInv, ValuesInv, storeVars, Recording
<1>5. RecordsInv'
  <2>1. Whole(db') /\ HeadsOf(db') = HeadsOf(db) \cup {job.time}
    BY <1>0, CommitWhole
  <2>2. \A t \in HeadsOf(db') : t <= clock
    BY <1>0, <2>1 DEF DbInv, RecordsInv, PutInv, Recording, JobTyped
  <2>3. db' \in SUBSET Record /\ UniqueKeys(db')
    BY <1>0 DEF DbInv, ContextInv, Typed
  <2> QED
    BY <1>0, <2>1, <2>2, <2>3 DEF DbInv, RecordsInv
<1> QED
  BY <1>2, <1>3, <1>4, <1>5 DEF DbInv

-----------------------------------------------------------------------------
(* DbInv is inductive: it holds at first and every step keeps it.          *)
LEMMA NextKeeps ==
  ASSUME DbInv, [Next]_vars
  PROVE  DbInv'
<1>1. CASE UNCHANGED vars
  BY <1>1 DEF vars, storeVars, DbInv, JobTyped, ContextInv, ValuesInv, RecordsInv, PutInv,
     HeadRecord, ReverseRecord, ItemRecord
<1>2. CASE Start
  BY <1>2, StartKeeps
<1>3. CASE Stop
  BY <1>3, GoneKeeps DEF Stop
<1>4. CASE Count
  BY <1>4, CountKeeps
<1>5. CASE Seek
  BY <1>5, SeekKeeps
<1>6. CASE Name
  BY <1>6, NameKeeps
<1>7. CASE Items
  BY <1>7, ItemsKeeps
<1>8. CASE \/ \E idx \in 0 .. last_count - 1 : GetItem(idx)
           \/ \E l \in Ledger : Sheet(l) \/ Put(l)
  BY <1>8, BeginKeeps
<1>9. CASE \E t \in Time : PutStart(t)
  BY <1>9, PutStartKeeps
<1>10. CASE PutLookup
  BY <1>10, PutLookupKeeps
<1>11. CASE PutHead
  BY <1>11, PutHeadKeeps
<1>12. CASE PutReverse
  BY <1>12, PutReverseKeeps
<1>13. CASE PutEntry
  BY <1>13, PutEntryKeeps
<1>14. CASE PutFinish
  BY <1>14, PutFinishKeeps
<1> QED
  BY <1>1, <1>2, <1>3, <1>4, <1>5, <1>6, <1>7, <1>8, <1>9, <1>10, <1>11, <1>12, <1>13, <1>14 DEF Next

(* The invariant of the database holds in every reachable state. *)
THEOREM Invariance == Spec => []DbInv
BY InitInv, NextKeeps, PTL DEF Spec

(* Every variable keeps its type: in particular each row shows a ledger    *)
(* that was found, although kee_entry_store_seek tells nobody that it      *)
(* found none.                                                             *)
THEOREM TypeCorrect == Spec => []TypeOK
<1>1. DbInv => TypeOK
  BY DEF DbInv, JobTyped, ContextInv, ValuesInv, RecordsInv, Typed, Sound, IsContext, TypeOK, Recording
<1> QED
  BY <1>1, Invariance, PTL

(* The calls of all handlers together keep to what LMDB allows. *)
THEOREM MisuseSafe == Spec => []NeverMisused
<1>1. DbInv => NeverMisused
  BY DEF DbInv, ContextInv, Sound, NeverMisused
<1> QED
  BY <1>1, Invariance, PTL

(* No handler leaves a transaction or a lookup to the next one. *)
THEOREM RestSafe == Spec => []AtRest
<1>1. DbInv => AtRest
  BY DEF DbInv, ContextInv, Resting, AtRest
<1> QED
  BY <1>1, Invariance, PTL

(* The first lookup of a handler searches. *)
THEOREM SearchSafe == Spec => []SearchesFirst
<1>1. DbInv => SearchesFirst
  BY DEF DbInv, ContextInv, Resting, SearchesFirst
<1> QED
  BY <1>1, Invariance, PTL

(* What kee_ledger_put leaves on disk is whole, wherever it was stopped. *)
THEOREM WholeSafe == Spec => []WholeLedgers
<1>1. DbInv => WholeLedgers
  BY DEF DbInv, RecordsInv, WholeLedgers
<1> QED
  BY <1>1, Invariance, PTL

-----------------------------------------------------------------------------
(***************************************************************************)
(* The list that the pages show is made of the ledgers on disk, in the     *)
(* order of the clock.                                                     *)
(*                                                                         *)
(* The place of a head among the heads is its rank, the number of those    *)
(* before it.  Every lookup finds the head of the next rank, and so the    *)
(* scans of the list count and find what KeeStore says.                    *)
(***************************************************************************)
Below(S, u) == {v \in S : v < u}
Rank(S, u) == Cardinality(Below(S, u))

Finite(S) == S \in SUBSET Nat /\ IsFiniteSet(S)

-----------------------------------------------------------------------------
(* Ranks in a finite set of numbers. *)
LEMMA RankNat ==
  ASSUME NEW S, Finite(S), NEW u \in Nat
  PROVE  /\ IsFiniteSet(Below(S, u)) /\ Rank(S, u) \in Nat
         /\ Cardinality(S) \in Nat /\ Rank(S, u) <= Cardinality(S)
<1>1. Below(S, u) \in SUBSET S
  BY DEF Below
<1> QED
  BY <1>1, FS_Subset, FS_CardinalityType DEF Finite, Rank

(* The members up to one are those below it and itself. *)
LEMMA RankUpTo ==
  ASSUME NEW S, Finite(S), NEW u \in S
  PROVE  /\ IsFiniteSet(Below(S, u) \cup {u})
         /\ Cardinality(Below(S, u) \cup {u}) = Rank(S, u) + 1
<1>1. u \in Nat /\ u \notin Below(S, u)
  BY DEF Finite, Below
<1> QED
  BY <1>1, RankNat, FS_AddElement DEF Rank

LEMMA RankLeast ==
  ASSUME NEW S, Finite(S), NEW t \in S, \A v \in S : t <= v
  PROVE  Rank(S, t) = 0
<1>1. \A v \in S : v \in Nat /\ t \in Nat /\ t <= v
  BY DEF Finite
<1>2. \A v \in S : ~(v < t)
  BY <1>1
<1>3. Below(S, t) = {}
  BY <1>2 DEF Below
<1> QED
  BY <1>3, FS_EmptySet DEF Rank

LEMMA RankNext ==
  ASSUME NEW S, Finite(S), NEW u \in S, NEW t \in S, u < t,
         \A v \in S : u < v => t <= v
  PROVE  Rank(S, t) = Rank(S, u) + 1
<1>1. \A v \in S : v \in Nat
  BY DEF Finite
<1>2. \A v \in S : v < t <=> v < u \/ v = u
  BY <1>1
<1>3. Below(S, t) = Below(S, u) \cup {u}
  BY <1>2 DEF Below
<1> QED
  BY <1>3, RankUpTo DEF Rank

LEMMA RankLast ==
  ASSUME NEW S, Finite(S), NEW u \in S, \A v \in S : v <= u
  PROVE  Cardinality(S) = Rank(S, u) + 1
<1>1. \A v \in S : v \in Nat
  BY DEF Finite
<1>2. \A v \in S : v < u \/ v = u
  BY <1>1
<1>3. S = Below(S, u) \cup {u}
  BY <1>2 DEF Below
<1> QED
  BY <1>3, RankUpTo

LEMMA RankBound ==
  ASSUME NEW S, Finite(S), NEW u \in S
  PROVE  Rank(S, u) \in 0 .. Cardinality(S) - 1
<1>1. Below(S, u) \cup {u} \in SUBSET S
  BY DEF Below
<1>2. Cardinality(Below(S, u) \cup {u}) <= Cardinality(S)
  BY <1>1, FS_Subset DEF Finite
<1>3. u \in Nat
  BY DEF Finite
<1> QED
  BY <1>2, <1>3, RankUpTo, RankNat

LEMMA RankGrows ==
  ASSUME NEW S, Finite(S), NEW u \in S, NEW t \in S, u < t
  PROVE  Rank(S, u) < Rank(S, t)
<1>1. u \in Nat /\ t \in Nat
  BY DEF Finite
<1>2. \A v \in S : v < u => v < t
  BY <1>1 DEF Finite
<1>3. Below(S, u) \cup {u} \in SUBSET Below(S, t)
  BY <1>2 DEF Below
<1>4. Cardinality(Below(S, u) \cup {u}) <= Rank(S, t)
  BY <1>1, <1>3, RankNat, FS_Subset DEF Rank
<1>5. Rank(S, u) \in Nat /\ Rank(S, t) \in Nat
  BY <1>1, RankNat
<1>6. Cardinality(Below(S, u) \cup {u}) = Rank(S, u) + 1
  BY RankUpTo
<1> QED
  BY <1>4, <1>5, <1>6

LEMMA RankUnique ==
  ASSUME NEW S, Finite(S), NEW u \in S, NEW t \in S, Rank(S, u) = Rank(S, t)
  PROVE  u = t
<1>1. u \in Nat /\ t \in Nat
  BY DEF Finite
<1>2. Rank(S, u) \in Nat
  BY <1>1, RankNat
<1>3. ~(u < t) /\ ~(t < u)
  BY <1>2, RankGrows
<1> QED
  BY <1>1, <1>3

(* Each number below the size of the set is the rank of a member: the      *)
(* least that is not would be that of the member after the one before.     *)
LEMMA RankExists ==
  ASSUME NEW S, Finite(S), NEW n \in 0 .. Cardinality(S) - 1
  PROVE  \E u \in S : Rank(S, u) = n
<1> DEFINE Missing == {k \in 0 .. Cardinality(S) - 1 : \A u \in S : Rank(S, u) # k}
<1> SUFFICES ASSUME Missing # {} PROVE FALSE
  OBVIOUS
<1>0. Cardinality(S) \in Nat
  BY FS_CardinalityType DEF Finite
<1>1. PICK k \in Missing : \A j \in Missing : k <= j
  <2> Missing \in SUBSET Nat
    BY <1>0
  <2> QED
    BY LeastNat
<1>2. CASE k = 0
  <2>1. S # {}
    BY <1>0, <1>1, FS_EmptySet
  <2>2. PICK t \in S : \A v \in S : t <= v
    BY <2>1, LeastNat DEF Finite
  <2> QED
    BY <1>1, <1>2, <2>2, RankLeast
<1>3. CASE k # 0
  <2>1. k \in Nat /\ k - 1 \in 0 .. Cardinality(S) - 1 /\ k - 1 \notin Missing
    BY <1>0, <1>1, <1>3
  <2>2. PICK u \in S : Rank(S, u) = k - 1
    BY <2>1
  <2> DEFINE Above == {v \in S : u < v}
  <2>3. CASE Above = {}
    <3>1. \A v \in S : v <= u
      BY <2>3 DEF Finite
    <3>2. Cardinality(S) = k
      BY <2>1, <2>2, <3>1, RankLast
    <3> QED
      BY <1>0, <1>1, <3>2
  <2>4. CASE Above # {}
    <3>1. PICK t \in Above : \A v \in Above : t <= v
      <4> Above \in SUBSET Nat
        BY DEF Finite
      <4> QED
        BY <2>4, LeastNat
    <3>2. Rank(S, t) = Rank(S, u) + 1
      BY <3>1, RankNext
    <3> QED
      BY <1>1, <2>1, <2>2, <3>1, <3>2
  <2> QED
    BY <2>3, <2>4
<1> QED
  BY <1>1, <1>2, <1>3

(* A new greatest member has the last rank, and the others keep theirs. *)
LEMMA RankAppend ==
  ASSUME NEW S, Finite(S), NEW t \in Nat, \A v \in S : v < t
  PROVE  /\ Finite(S \cup {t})
         /\ Cardinality(S \cup {t}) = Cardinality(S) + 1
         /\ Rank(S \cup {t}, t) = Cardinality(S)
         /\ \A u \in S : Rank(S \cup {t}, u) = Rank(S, u)
<1>0. \A v \in S : v \in Nat
  BY DEF Finite
<1>1. t \notin S /\ ~(t < t) /\ \A v \in S : ~(t < v)
  BY <1>0
<1>2. Below(S \cup {t}, t) = S
  BY <1>1 DEF Below
<1>3. \A u \in S : Below(S \cup {t}, u) = Below(S, u)
  BY <1>1 DEF Below
<1> QED
  BY <1>1, <1>2, <1>3, FS_AddElement DEF Rank, Finite

-----------------------------------------------------------------------------
(* The order of the ledgers in a set of records. *)
Order(records) ==
  [n \in 1 .. Cardinality(HeadsOf(records)) |->
     LET t == CHOOSE u \in HeadsOf(records) : Rank(HeadsOf(records), u) = n - 1
     IN  (CHOOSE r \in records : r.key = HeadKey(t)).value]

Sane(records) == records \in SUBSET Record /\ UniqueKeys(records)

LEMMA InOrderIsOrder ==
  InOrder = Order(db) /\ InOrder' = Order(db')
BY DEF InOrder, Order, Heads, Rank, Below

(* The heads are finitely many times, and each is there with a ledger. *)
LEMMA HeadsFinite ==
  ASSUME NEW records, Sane(records)
  PROVE  Finite(HeadsOf(records)) /\ HeadsOf(records) \subseteq Time
<1>1. \A r \in Record : r.key[1] = DbKeyLedgerHead => r.key[2] \in Time
  BY DEF Record, HeadKey, EntryKey, DnKey, ReverseKey,
     DbKeyLedgerHead, DbKeyLedgerEntry, DbKeyDN, DbKeyReverse
<1>2. HeadsOf(records) \subseteq Time
  BY <1>1 DEF Sane, HeadsOf
<1>3. IsFiniteSet(Time) /\ Time \subseteq Nat
  BY DbAssumption, FS_Interval DEF Time
<1> QED
  BY <1>2, <1>3, FS_Subset DEF Finite

LEMMA HeadRecords ==
  ASSUME NEW records, Sane(records)
  PROVE  /\ \A r \in records : r.key[1] = DbKeyLedgerHead =>
              r.key[2] \in HeadsOf(records) /\ r.key = HeadKey(r.key[2])
         /\ \A t \in HeadsOf(records) : \E r \in records : r.key = HeadKey(t)
<1>1. \A r \in Record : r.key[1] = DbKeyLedgerHead => r.key = HeadKey(r.key[2])
  BY DEF Record, HeadKey, EntryKey, DnKey, ReverseKey,
     DbKeyLedgerHead, DbKeyLedgerEntry, DbKeyDN, DbKeyReverse
<1> QED
  BY <1>1 DEF Sane, HeadsOf

(* The ledger in a place is that of the head with the rank. *)
LEMMA OrderAt ==
  ASSUME NEW records, Sane(records), NEW r \in records, NEW t \in HeadsOf(records),
         r.key = HeadKey(t)
  PROVE  /\ Rank(HeadsOf(records), t) + 1 \in 1 .. Cardinality(HeadsOf(records))
         /\ Order(records)[Rank(HeadsOf(records), t) + 1] = r.value
<1> DEFINE S == HeadsOf(records)
           n == Rank(S, t) + 1
<1>1. Finite(S)
  BY HeadsFinite
<1>2. Rank(S, t) \in 0 .. Cardinality(S) - 1 /\ Cardinality(S) \in Nat
  BY <1>1, RankBound, FS_CardinalityType DEF Finite
<1>3. n \in 1 .. Cardinality(S) /\ n - 1 = Rank(S, t)
  BY <1>2
<1>4. t = CHOOSE u \in S : Rank(S, u) = n - 1
  <2>1. \A u \in S : Rank(S, u) = n - 1 <=> u = t
    BY <1>1, <1>3, RankUnique
  <2> HIDE DEF n
  <2> QED
    BY <2>1
<1>5. r = CHOOSE q \in records : q.key = HeadKey(t)
  BY DEF Sane, UniqueKeys
<1> QED
  BY <1>3, <1>4, <1>5 DEF Order

LEMMA OrderIsSeq ==
  ASSUME NEW records, Sane(records)
  PROVE  /\ Order(records) \in Seq(Content)
         /\ Len(Order(records)) = Cardinality(HeadsOf(records))
<1> DEFINE S == HeadsOf(records)
<1>1. Finite(S) /\ Cardinality(S) \in Nat
  BY HeadsFinite, FS_CardinalityType DEF Finite
<1>2. ASSUME NEW n \in 1 .. Cardinality(S)
      PROVE  Order(records)[n] \in Content
  <2>1. n - 1 \in 0 .. Cardinality(S) - 1
    BY <1>1
  <2>2. PICK t \in S : Rank(S, t) = n - 1
    BY <1>1, <2>1, RankExists
  <2>3. PICK r \in records : r.key = HeadKey(t)
    BY HeadRecords
  <2>4. r.value \in Content
    BY <2>3, Prefixes DEF Sane, HeadKey
  <2>5. Order(records)[n] = r.value
    BY <2>2, <2>3, OrderAt
  <2> QED
    BY <2>4, <2>5
<1>3. DOMAIN Order(records) = 1 .. Cardinality(S)
      /\ Order(records) = [n \in 1 .. Cardinality(S) |-> Order(records)[n]]
  BY DEF Order
<1> HIDE DEF S
<1>4. Order(records) \in [1 .. Cardinality(S) -> Content]
  BY <1>2, <1>3
<1> QED
  BY <1>1, <1>3, <1>4 DEF S

-----------------------------------------------------------------------------
(* The scans.  The lookup that found something stands at a head of the     *)
(* database as it is, after as many heads as were counted before it.       *)
ScanInv ==
  job.at \in {"count", "seek"} /\ job.i # 0 =>
    /\ ctx.view = db
    /\ \E u \in HeadsOf(db) : ctx.at = HeadKey(u) /\ Rank(HeadsOf(db), u) = job.i - 1

(* What the list says of the database, and a handler of the list.          *)
ListInv ==
  /\ job.at \in {"down", "count"} => last_count = 0
  /\ last_count <= Cardinality(HeadsOf(db))
  /\ job.at = "seek" => job.idx \in 0 .. last_count - 1 /\ job.i <= job.idx
  /\ job.at \in {"name", "items"} /\ job.idx >= 0 =>
       job.idx \in 0 .. last_count - 1 /\ job.content = Order(db)[job.idx + 1]

ViewInv == DbInv /\ ScanInv /\ ListInv

(* Of two keys in order, the prefixes are in order, and what follows them  *)
(* if they are the same.                                                   *)
LEMMA LessOrders ==
  ASSUME NEW k \in Key, NEW l \in Key, Less(k, l)
  PROVE  k[1] <= l[1] /\ (k[1] = l[1] => k[2] <= l[2])
BY DEF Key, Less

LEMMA LessHeads ==
  ASSUME NEW t \in Nat, NEW u \in Nat
  PROVE  /\ HeadKey(t)[1] = 1 /\ HeadKey(t)[2] = t
         /\ Less(HeadKey(t), HeadKey(u)) <=> t < u
         /\ ~Less(HeadKey(t), HeadSearch)
<1>1. /\ HeadKey(t)[1] = 1 /\ HeadKey(t)[2] = t /\ HeadKey(t)[3] = 0
      /\ HeadKey(u)[1] = 1 /\ HeadKey(u)[2] = u /\ HeadKey(u)[3] = 0
      /\ HeadSearch[1] = 1 /\ HeadSearch[2] = 0 /\ HeadSearch[3] = 0
  BY DEF HeadKey, HeadSearch, DbKeyLedgerHead
<1> QED
  BY <1>1 DEF Less

(* A set of records, searched from some head on: the first of them is the  *)
(* first head there is, or there is none.                                  *)
LEMMA FirstAhead ==
  ASSUME Sane(db), NEW ahead \in SUBSET db, NEW Later \in SUBSET HeadsOf(db),
         \A r \in db : r.key[1] = DbKeyLedgerHead => (r \in ahead <=> r.key[2] \in Later),
         NEW found, found = CHOOSE r \in ahead : \A q \in ahead : q = r \/ Less(r.key, q.key)
  PROVE  /\ ahead # {} /\ found.key[1] = DbKeyLedgerHead =>
              /\ found \in db /\ found.key[2] \in Later /\ found.key = HeadKey(found.key[2])
              /\ \A v \in Later : found.key[2] <= v
         /\ ahead = {} \/ found.key[1] # DbKeyLedgerHead => Later = {}
<1>0. DbKeyLedgerHead = 1
  BY DEF DbKeyLedgerHead
<1>1. \A r \in db : r.key \in Key /\ r.key[1] >= 1
  <2>1. \A r \in Record : r.key[1] >= 1
    BY DEF Record, HeadKey, EntryKey, DnKey, ReverseKey,
       DbKeyLedgerHead, DbKeyLedgerEntry, DbKeyDN, DbKeyReverse
  <2> QED
    BY <2>1, RecordKey DEF Sane
<1>2. ASSUME NEW v \in Later
      PROVE  \E q \in ahead : q.key[1] = 1 /\ q.key[2] = v
  <2>1. PICK q \in db : q.key = HeadKey(v)
    BY HeadRecords
  <2>2. q.key[1] = 1 /\ q.key[2] = v
    BY <1>0, <2>1 DEF HeadKey
  <2> QED
    BY <1>0, <2>2
<1>3. ASSUME ahead # {}
      PROVE  found \in ahead /\ \A q \in ahead : q = found \/ Less(found.key, q.key)
  <2>1. ahead \in SUBSET Record /\ UniqueKeys(ahead)
    BY DEF Sane, UniqueKeys
  <2> QED
    BY <1>3, <2>1, LeastRecord
<1>4. ASSUME ahead # {}, found.key[1] = DbKeyLedgerHead
      PROVE  /\ found \in db /\ found.key[2] \in Later /\ found.key = HeadKey(found.key[2])
             /\ \A v \in Later : found.key[2] <= v
  <2>1. found \in db /\ found.key[2] \in Later /\ found.key = HeadKey(found.key[2])
    BY <1>3, <1>4, HeadRecords
  <2>2. ASSUME NEW v \in Later
        PROVE  found.key[2] <= v
    <3>1. PICK q \in ahead : q.key[1] = 1 /\ q.key[2] = v
      BY <1>2
    <3>2. found.key \in Key /\ q.key \in Key /\ found.key[2] \in Nat
      BY <1>1, <2>1 DEF Key
    <3>3. q = found \/ Less(found.key, q.key)
      BY <1>3, <1>4
    <3>4. CASE q = found
      BY <3>1, <3>2, <3>4
    <3>5. CASE Less(found.key, q.key)
      BY <1>0, <1>4, <3>1, <3>2, <3>5, LessOrders
    <3> QED
      BY <3>3, <3>4, <3>5
  <2> QED
    BY <2>1, <2>2
<1>5. ASSUME ahead # {}, found.key[1] # DbKeyLedgerHead, NEW v \in Later
      PROVE  FALSE
  <2>1. PICK q \in ahead : q.key[1] = 1 /\ q.key[2] = v
    BY <1>2
  <2>2. found.key \in Key /\ q.key \in Key /\ found.key[1] \in Nat /\ found.key[1] >= 1
    BY <1>1, <1>3, <1>5 DEF Key
  <2>3. Less(found.key, q.key)
    BY <1>0, <1>3, <1>5, <2>1
  <2>4. found.key[1] <= q.key[1]
    BY <2>2, <2>3, LessOrders
  <2> QED
    BY <1>0, <1>5, <2>1, <2>2, <2>4
<1>6. ASSUME ahead = {}
      PROVE  Later = {}
  BY <1>2, <1>6
<1> QED
  BY <1>4, <1>5, <1>6

(* What db_next does where it searches for heads: it finds the head after  *)
(* those that were found, or there is no other.                            *)
LEMMA NextHead ==
  ASSUME ViewInv, job.at \in {"count", "seek"}
  PROVE  LET next == db_next(ctx, DbKeyLedgerHead, HeadSearch)
         IN  /\ next.result = "OK" =>
                  /\ next.ctx.view = db
                  /\ \E t \in HeadsOf(db) :
                       /\ next.ctx.at = HeadKey(t) /\ Rank(HeadsOf(db), t) = job.i
                       /\ Order(db)[job.i + 1] = next.value
             /\ next.result # "OK" => Cardinality(HeadsOf(db)) = job.i
<1> DEFINE next == db_next(ctx, DbKeyLedgerHead, HeadSearch)
           now == IF ctx.browsing THEN [ctx EXCEPT !.misused = @ \/ ctx.crsr # "open"]
                  ELSE begun(ctx, DbKeyLedgerHead)
           view == IF ctx.browsing THEN ctx.view ELSE db
           ahead == {r \in view : IF ctx.browsing THEN Less(ctx.at, r.key) ELSE ~Less(r.key, HeadSearch)}
           found == CHOOSE r \in ahead : \A q \in ahead : q = r \/ Less(r.key, q.key)
           moved == [now EXCEPT !.started = TRUE, !.at = found.key]
           S == HeadsOf(db)
           Later == IF ctx.browsing THEN {v \in S : ctx.at[2] < v} ELSE S
<1>1. Sane(db) /\ Finite(S)
  BY HeadsFinite DEF ViewInv, DbInv, RecordsInv, Sane
<1>2. job.i \in Nat /\ (ctx.browsing <=> job.i # 0)
  BY DEF ViewInv, DbInv, JobTyped, ContextInv, Resting, Looking
<1>3. next = IF ahead = {} THEN [result |-> "FAIL", ctx |-> now]
             ELSE IF found.key[1] # now.current_key
             THEN [result |-> "NOMATCH", ctx |-> [moved EXCEPT !.browsing = FALSE]]
             ELSE [result |-> "OK", ctx |-> moved, key |-> found.key, value |-> found.value]
  BY DEF db_next
<1>4. now.current_key = DbKeyLedgerHead /\ view = db /\ now.view = db
      /\ moved.view = db /\ moved.at = found.key
  <2>1. CASE ctx.browsing
    <3>1. ctx.current_key = DbKeyLedgerHead /\ ctx.view = db
      BY <1>2, <2>1 DEF ViewInv, DbInv, ContextInv, ScanInv
    <3>2. IsContext(ctx)
      BY DEF ViewInv, DbInv, ContextInv, Sound
    <3> QED
      BY <2>1, <3>1, <3>2 DEF IsContext
  <2>2. CASE ~ctx.browsing
    <3>1. IsContext(ctx)
      BY DEF ViewInv, DbInv, ContextInv, Sound
    <3>2. CASE ctx.started
      BY <2>2, <3>1, <3>2 DEF IsContext, begun, ended
    <3>3. CASE ~ctx.started
      BY <2>2, <3>1, <3>3 DEF IsContext, begun, ended
    <3> QED
      BY <3>2, <3>3
  <2> QED
    BY <2>1, <2>2
<1>5. \A r \in db : r.key[1] = DbKeyLedgerHead => (r \in ahead <=> r.key[2] \in Later)
  <2> SUFFICES ASSUME NEW r \in db, r.key[1] = DbKeyLedgerHead
               PROVE  r \in ahead <=> r.key[2] \in Later
    OBVIOUS
  <2>1. r.key = HeadKey(r.key[2]) /\ r.key[2] \in S /\ r.key[2] \in Nat
    BY <1>1, HeadRecords DEF Finite
  <2>2. CASE ctx.browsing
    <3>1. PICK u \in S : ctx.at = HeadKey(u)
      BY <1>2, <2>2 DEF ViewInv, ScanInv
    <3>2. u \in Nat
      BY <1>1 DEF Finite
    <3>3. Less(ctx.at, r.key) <=> u < r.key[2]
      BY <2>1, <3>1, <3>2, LessHeads
    <3>4. ctx.at[2] = u
      BY <3>1 DEF HeadKey
    <3> QED
      BY <1>4, <2>1, <2>2, <3>3, <3>4
  <2>3. CASE ~ctx.browsing
    <3>1. ~Less(r.key, HeadSearch)
      BY <2>1, LessHeads
    <3> QED
      BY <1>4, <2>1, <2>3, <3>1
  <2> QED
    BY <2>2, <2>3
<1> HIDE DEF next, now, moved, view, found
<1>6. ahead \in SUBSET db /\ Later \in SUBSET S
  BY <1>4
<1>7. /\ ahead # {} /\ found.key[1] = DbKeyLedgerHead =>
           /\ found \in db /\ found.key[2] \in Later /\ found.key = HeadKey(found.key[2])
           /\ \A v \in Later : found.key[2] <= v
      /\ ahead = {} \/ found.key[1] # DbKeyLedgerHead => Later = {}
  <2> HIDE DEF ahead, Later, S
  <2> USE DEF S
  <2> QED
    BY <1>1, <1>5, <1>6, FirstAhead DEF found
<1>8. ASSUME next.result = "OK"
      PROVE  /\ next.ctx.view = db
             /\ \E t \in S : /\ next.ctx.at = HeadKey(t) /\ Rank(S, t) = job.i
                             /\ Order(db)[job.i + 1] = next.value
  <2>1. ahead # {} /\ found.key[1] = DbKeyLedgerHead
        /\ next = [result |-> "OK", ctx |-> moved, key |-> found.key, value |-> found.value]
    BY <1>3, <1>4, <1>8
  <2> DEFINE t == found.key[2]
  <2>2. found \in db /\ t \in Later /\ found.key = HeadKey(t) /\ \A v \in Later : t <= v
    BY <1>7, <2>1
  <2>3. Rank(S, t) = job.i
    <3>1. CASE ctx.browsing
      <4>1. PICK u \in S : ctx.at = HeadKey(u) /\ Rank(S, u) = job.i - 1
        BY <1>2, <3>1 DEF ViewInv, ScanInv
      <4>2. ctx.at[2] = u
        BY <4>1 DEF HeadKey
      <4>3. t \in S /\ u < t /\ \A v \in S : u < v => t <= v
        BY <2>2, <3>1, <4>2
      <4> HIDE DEF t, S
      <4>4. Rank(S, t) = Rank(S, u) + 1
        BY <1>1, <4>1, <4>3, RankNext
      <4> QED
        BY <1>2, <4>1, <4>4
    <3>2. CASE ~ctx.browsing
      <4>1. t \in S /\ \A v \in S : t <= v
        BY <2>2, <3>2
      <4> HIDE DEF t, S
      <4> QED
        BY <1>1, <1>2, <3>2, <4>1, RankLeast
    <3> QED
      BY <3>1, <3>2
  <2>4. Order(db)[job.i + 1] = found.value
    <3>1. t \in S
      BY <2>2
    <3> QED
      BY <1>1, <2>2, <2>3, <3>1, OrderAt
  <2> QED
    BY <1>4, <2>1, <2>2, <2>3, <2>4
<1>9. ASSUME next.result # "OK"
      PROVE  Cardinality(S) = job.i
  <2>1. Later = {}
    BY <1>3, <1>4, <1>7, <1>9
  <2>2. CASE ctx.browsing
    <3>1. PICK u \in S : ctx.at = HeadKey(u) /\ Rank(S, u) = job.i - 1
      BY <1>2, <2>2 DEF ViewInv, ScanInv
    <3>2. ctx.at[2] = u
      BY <3>1 DEF HeadKey
    <3>3. \A v \in S : v <= u
      BY <1>1, <2>1, <2>2, <3>2 DEF Finite
    <3> HIDE DEF S
    <3>4. Cardinality(S) = Rank(S, u) + 1
      BY <1>1, <3>1, <3>3, RankLast
    <3> QED
      BY <1>2, <3>1, <3>4
  <2>3. CASE ~ctx.browsing
    BY <1>2, <2>1, <2>3, FS_EmptySet
  <2> QED
    BY <2>2, <2>3
<1> HIDE DEF S
<1>10. (next.result = "OK" =>
          /\ next.ctx.view = db
          /\ \E t \in S : /\ next.ctx.at = HeadKey(t) /\ Rank(S, t) = job.i
                          /\ Order(db)[job.i + 1] = next.value)
       /\ (next.result # "OK" => Cardinality(S) = job.i)
  BY <1>8, <1>9
<1> QED
  BY <1>10 DEF next, S

-----------------------------------------------------------------------------
(* Each step keeps the invariant of the scans, and is a step of the store  *)
(* or leaves it alone.                                                     *)
StoreStep == Store!Next \/ UNCHANGED <<InOrder, Recorded, last_count, rows>>
Simulates == ScanInv' /\ ListInv' /\ StoreStep

LEMMA SaneDb ==
  ASSUME ViewInv
  PROVE  /\ Sane(db) /\ Finite(HeadsOf(db)) /\ Cardinality(HeadsOf(db)) \in Nat
         /\ InOrder \in Seq(Content) /\ Len(InOrder) = Cardinality(HeadsOf(db))
<1>1. Sane(db)
  BY DEF ViewInv, DbInv, RecordsInv, Sane
<1> QED
  BY <1>1, HeadsFinite, FS_CardinalityType, OrderIsSeq, InOrderIsOrder DEF Finite

LEMMA SameStore ==
  ASSUME UNCHANGED db
  PROVE  UNCHANGED <<InOrder, Recorded>>
BY InOrderIsOrder DEF Recorded

LEMMA InitSimulates ==
  ASSUME Init
  PROVE  ViewInv /\ Store!Init
<1>1. DbInv
  BY InitInv
<1>2. Sane(db) /\ Finite(HeadsOf(db)) /\ Cardinality(HeadsOf(db)) \in Nat
  BY <1>1, HeadsFinite, FS_CardinalityType DEF DbInv, RecordsInv, Sane, Finite
<1>3. ScanInv
  BY DEF Init, ScanInv, Down, Rest
<1>4. ListInv
  BY <1>2 DEF Init, ListInv, Down, Rest
<1>5. InOrder \in Seq(Content)
  BY <1>2, OrderIsSeq, InOrderIsOrder
<1>6. Recorded \in SUBSET Digest
  <2>1. \A r \in Record : r.key[1] = DbKeyReverse => r.key[2] \in Digest
    BY DEF Record, HeadKey, EntryKey, DnKey, ReverseKey,
       DbKeyLedgerHead, DbKeyLedgerEntry, DbKeyDN, DbKeyReverse
  <2> QED
    BY <1>2, <2>1 DEF Sane, Recorded, ReverseOf
<1> QED
  BY <1>1, <1>3, <1>4, <1>5, <1>6 DEF ViewInv, Init, Store!Init

(* The end of the process closes the list. *)
LEMMA GoneSimulates ==
  ASSUME ViewInv, Gone
  PROVE  Simulates
<1>1. UNCHANGED <<InOrder, Recorded>>
  BY SameStore DEF Gone
<1>2. Store!Close
  BY <1>1 DEF Gone, Store!Close
<1>3. ScanInv' /\ ListInv'
  BY SaneDb DEF Gone, ScanInv, ListInv, Down, Rest
<1> QED
  BY <1>2, <1>3 DEF Simulates, StoreStep, Store!Next

(* A handler that is not one of the list, and leaves the list alone. *)
LEMMA OtherSimulates ==
  ASSUME ViewInv, UNCHANGED <<db, storeVars>>,
         job'.at \notin {"down", "count", "seek", "name", "items"}
  PROVE  Simulates
<1>1. UNCHANGED <<InOrder, Recorded>>
  BY SameStore
<1> QED
  BY <1>1 DEF ViewInv, ScanInv, ListInv, Simulates, StoreStep, storeVars

(* Handlers that begin. *)
LEMMA BeginSimulates ==
  ASSUME ViewInv,
         \/ Start
         \/ \E idx \in 0 .. last_count - 1 : GetItem(idx)
         \/ \E l \in Ledger : Sheet(l) \/ Put(l)
  PROVE  Simulates
<1>0. UNCHANGED <<db, storeVars>> /\ job.at \in {"down", "idle"}
  BY DEF Start, GetItem, Sheet, Put
<1>1. UNCHANGED <<InOrder, Recorded, last_count, rows>>
  BY <1>0, SameStore DEF storeVars
<1>2. CASE Start
  BY <1>0, <1>1, <1>2 DEF ViewInv, Start, ScanInv, ListInv, Simulates, StoreStep, Rest
<1>3. CASE \E idx \in 0 .. last_count - 1 : GetItem(idx)
  <2> PICK idx \in 0 .. last_count - 1 : GetItem(idx)
    BY <1>3
  <2>1. job'.at = "seek" /\ job'.idx = idx /\ job'.i = 0
    BY DEF GetItem, Rest
  <2>2. idx \in Int /\ 0 <= idx
    BY DEF ViewInv, DbInv, ValuesInv
  <2>3. ScanInv' /\ ListInv'
    BY <1>0, <1>1, <2>1, <2>2 DEF ViewInv, ScanInv, ListInv
  <2> QED
    BY <1>1, <2>3 DEF Simulates, StoreStep
<1>4. CASE \E l \in Ledger : Sheet(l)
  <2>1. job'.at = "name" /\ job'.idx = -1
    BY <1>4, RestTyped DEF Sheet, Rest
  <2>2. ScanInv' /\ ListInv'
    BY <1>0, <1>1, <2>1 DEF ViewInv, ScanInv, ListInv
  <2> QED
    BY <1>1, <2>2 DEF Simulates, StoreStep
<1>5. CASE \E l \in Ledger : Put(l)
  <2>1. job'.at = "reverse"
    BY <1>5 DEF Put, Rest
  <2> QED
    BY <1>0, <2>1, OtherSimulates
<1> QED
  BY <1>2, <1>3, <1>4, <1>5

(* The count of the list is the number of ledgers. *)
LEMMA CountSimulates ==
  ASSUME ViewInv, Count
  PROVE  Simulates
<1> DEFINE next == db_next(ctx, DbKeyLedgerHead, HeadSearch)
<1>1. /\ next.result = "OK" =>
           /\ next.ctx.view = db
           /\ \E t \in HeadsOf(db) : next.ctx.at = HeadKey(t) /\ Rank(HeadsOf(db), t) = job.i
      /\ next.result # "OK" => Cardinality(HeadsOf(db)) = job.i
  BY NextHead DEF Count
<1>2. IF next.result = "OK"
      THEN ctx' = next.ctx /\ job' = [job EXCEPT !.i = @ + 1] /\ UNCHANGED last_count
      ELSE last_count' = job.i /\ job' = Rest
  BY DEF Count, counted
<1>3. job.at = "count" /\ UNCHANGED <<db, rows>> /\ last_count = 0
  BY DEF Count, ViewInv, ListInv
<1>4. UNCHANGED <<InOrder, Recorded>>
  BY <1>3, SameStore
<1> HIDE DEF next
<1>5. CASE next.result = "OK"
  <2>1. job'.at = "count" /\ job'.i = job.i + 1 /\ job.i \in Nat
    BY <1>2, <1>3, <1>5 DEF ViewInv, DbInv, JobTyped
  <2>2. ScanInv'
    BY <1>1, <1>2, <1>3, <1>5, <2>1 DEF ScanInv
  <2>3. ListInv'
    BY <1>2, <1>3, <1>5, <2>1 DEF ViewInv, ListInv
  <2> QED
    BY <1>2, <1>3, <1>4, <1>5, <2>2, <2>3 DEF Simulates, StoreStep
<1>6. CASE next.result # "OK"
  <2>1. last_count' = Cardinality(HeadsOf(db)) /\ job'.at = "idle"
    BY <1>1, <1>2, <1>6 DEF Rest
  <2>2. ScanInv' /\ ListInv'
    BY <1>3, <2>1, SaneDb DEF ScanInv, ListInv
  <2>3. Store!Open
    BY <1>3, <1>4, <2>1, SaneDb DEF Store!Open
  <2> QED
    BY <2>2, <2>3 DEF Simulates, StoreStep, Store!Next
<1> QED
  BY <1>5, <1>6

(* The scan for a row ends at the ledger of the row, and always finds it.  *)
LEMMA SeekSimulates ==
  ASSUME ViewInv, Seek
  PROVE  Simulates
<1> DEFINE next == db_next(ctx, DbKeyLedgerHead, HeadSearch)
           value == IF next.result = "OK" THEN next.value ELSE last_value
<1>1. /\ next.result = "OK" =>
           /\ next.ctx.view = db
           /\ \E t \in HeadsOf(db) : /\ next.ctx.at = HeadKey(t) /\ Rank(HeadsOf(db), t) = job.i
                                   /\ Order(db)[job.i + 1] = next.value
      /\ next.result # "OK" => Cardinality(HeadsOf(db)) = job.i
  BY NextHead DEF Seek
<1>2. /\ ctx' = IF next.result = "OK" THEN next.ctx ELSE db_rewind(next.ctx)
      /\ job' = IF next.result = "OK" /\ job.i < job.idx
                THEN [job EXCEPT !.i = @ + 1]
                ELSE [job EXCEPT !.at = "name", !.content = value, !.i = 0]
  BY DEF Seek, goes_on
<1>3. job.at = "seek" /\ UNCHANGED <<db, last_count, rows>>
  BY DEF Seek
<1>4. UNCHANGED <<InOrder, Recorded>>
  BY <1>3, SameStore
<1>5. /\ job.i \in Nat /\ job.idx \in 0 .. last_count - 1 /\ job.i <= job.idx
      /\ last_count \in Nat /\ last_count <= Cardinality(HeadsOf(db))
      /\ Cardinality(HeadsOf(db)) \in Nat
  BY <1>3, SaneDb DEF ViewInv, DbInv, JobTyped, ValuesInv, ListInv
<1>6. next.result = "OK"
  BY <1>1, <1>5
<1> HIDE DEF next
<1>7. CASE job.i < job.idx
  <2>1. job'.at = "seek" /\ job'.i = job.i + 1 /\ job'.idx = job.idx
    BY <1>2, <1>3, <1>6, <1>7 DEF ViewInv, DbInv, JobTyped
  <2>2. ScanInv'
    BY <1>1, <1>2, <1>3, <1>5, <1>6, <2>1 DEF ScanInv
  <2>3. ListInv'
    BY <1>3, <1>5, <1>7, <2>1 DEF ViewInv, ListInv
  <2> QED
    BY <1>3, <1>4, <2>2, <2>3 DEF Simulates, StoreStep
<1>8. CASE ~(job.i < job.idx)
  <2>1. job'.at = "name" /\ job'.content = next.value /\ job'.idx = job.idx
    BY <1>2, <1>6, <1>8 DEF ViewInv, DbInv, JobTyped
  <2>2. job.i = job.idx
    BY <1>5, <1>8
  <2>3. ScanInv' /\ ListInv'
    BY <1>1, <1>3, <1>5, <1>6, <2>1, <2>2 DEF ViewInv, ScanInv, ListInv
  <2> QED
    BY <1>3, <1>4, <2>3 DEF Simulates, StoreStep
<1> QED
  BY <1>7, <1>8

LEMMA NameSimulates ==
  ASSUME ViewInv, Name
  PROVE  Simulates
<1>1. CASE Gone
  BY <1>1, GoneSimulates
<1>2. CASE ~Gone
  <2>1. /\ job.at = "name" /\ UNCHANGED <<db, storeVars>>
        /\ \E name : job' = [job EXCEPT !.at = "items", !.name = name]
    BY <1>2 DEF Name
  <2>2. job'.at = "items" /\ job'.idx = job.idx /\ job'.content = job.content
    BY <2>1 DEF ViewInv, DbInv, JobTyped
  <2>3. UNCHANGED <<InOrder, Recorded>>
    BY <2>1, SameStore
  <2>4. ScanInv' /\ ListInv'
    BY <2>1, <2>2 DEF ViewInv, ScanInv, ListInv, storeVars
  <2> QED
    BY <2>1, <2>3, <2>4 DEF Simulates, StoreStep, storeVars
<1> QED
  BY <1>1, <1>2

(* The row that is made is that of the index, with the ledger in its place. *)
LEMMA ItemsSimulates ==
  ASSUME ViewInv, Items
  PROVE  Simulates
<1> DEFINE again == job' = [job EXCEPT !.i = @ + 1] /\ UNCHANGED rows
           made == /\ job' = Rest
                   /\ rows' = IF job.idx < 0 THEN rows ELSE rows \cup {<<job.idx, job.content>>}
<1>0. job.at = "items" /\ UNCHANGED <<db, last_count>> /\ (again \/ made)
  BY DEF Items
<1>1. UNCHANGED <<InOrder, Recorded>> /\ job.idx \in Int
  BY <1>0, SameStore DEF ViewInv, DbInv, JobTyped
<1>2. CASE again
  <2>1. job'.at = "items" /\ job'.idx = job.idx /\ job'.content = job.content
    BY <1>0, <1>2 DEF ViewInv, DbInv, JobTyped
  <2>2. ScanInv' /\ ListInv'
    BY <1>0, <2>1 DEF ViewInv, ScanInv, ListInv
  <2> QED
    BY <1>0, <1>1, <1>2, <2>2 DEF Simulates, StoreStep
<1>3. CASE made
  <2>1. ScanInv' /\ ListInv'
    BY <1>0, <1>3 DEF ViewInv, ScanInv, ListInv, Rest
  <2>2. CASE job.idx < 0
    BY <1>0, <1>1, <1>3, <2>1, <2>2 DEF Simulates, StoreStep
  <2>3. CASE job.idx >= 0
    <3>1. job.idx \in 0 .. last_count - 1 /\ job.content = InOrder[job.idx + 1]
      BY <1>0, <2>3, InOrderIsOrder DEF ViewInv, ListInv
    <3>2. Store!Row(job.idx)
      BY <1>0, <1>1, <1>3, <2>3, <3>1 DEF Store!Row
    <3> QED
      BY <2>1, <3>1, <3>2 DEF Simulates, StoreStep, Store!Next
  <2> QED
    BY <1>1, <2>2, <2>3
<1> QED
  BY <1>0, <1>2, <1>3

(* The calls of kee_ledger_put before the last. *)
LEMMA PutSimulates ==
  ASSUME ViewInv,
         \/ PutLookup \/ (\E t \in Time : PutStart(t))
         \/ PutHead \/ PutReverse \/ PutEntry
  PROVE  Simulates
<1>1. CASE Gone
  BY <1>1, GoneSimulates
<1>2. CASE ~Gone
  <2>1. /\ UNCHANGED <<db, storeVars>>
        /\ job.at \in {"reverse", "start", "head", "index", "entry"}
        /\ \/ UNCHANGED job
           \/ \E at \in {"start", "head", "index", "entry", "finish"} : \E time :
                job' = [job EXCEPT !.at = at, !.time = time]
           \/ \E at \in {"start", "head", "index", "entry", "finish"} :
                job' = [job EXCEPT !.at = at]
    BY <1>2 DEF PutLookup, PutStart, PutHead, PutReverse, PutEntry
  <2>2. job'.at \in {"reverse", "start", "head", "index", "entry", "finish"}
    BY <2>1 DEF ViewInv, DbInv, JobTyped
  <2> QED
    BY <2>1, <2>2, OtherSimulates
<1> QED
  BY <1>1, <1>2

(* The commit records the ledger, after all others. *)
LEMMA FinishSimulates ==
  ASSUME ViewInv, PutFinish
  PROVE  Simulates
<1> DEFINE S == HeadsOf(db)
           N == Cardinality(S)
           t == job.time
<1>0. job.at = "finish" /\ db' = ctx.view /\ job' = Rest /\ UNCHANGED storeVars
  BY DEF PutFinish
<1>1. /\ Sane(db) /\ Finite(S) /\ N \in Nat /\ InOrder = Order(db)
      /\ Order(db) \in Seq(Content) /\ Len(Order(db)) = N
  BY SaneDb, InOrderIsOrder
<1>2. /\ t \in Nat /\ \A v \in S : v < t
      /\ job.digest \in Digest /\ job.content \in Content
      /\ db' \in {db \cup {HeadRecord, ReverseRecord}, db \cup {HeadRecord, ReverseRecord, ItemRecord}}
  BY <1>0 DEF ViewInv, DbInv, PutInv, ValuesInv, Recording, Time
<1>3. Sane(db') /\ HeadsOf(db') = S \cup {t}
  BY <1>0, CommitWhole DEF ViewInv, DbInv, ContextInv, Typed, Sane
<1>4. /\ Cardinality(S \cup {t}) = N + 1 /\ Rank(S \cup {t}, t) = N
      /\ \A u \in S : Rank(S \cup {t}, u) = Rank(S, u)
  BY <1>1, <1>2, RankAppend
<1>5. Order(db') \in Seq(Content) /\ Len(Order(db')) = N + 1
  BY <1>3, <1>4, OrderIsSeq
<1>6. Order(db')[N + 1] = job.content
  <2>1. HeadRecord \in db' /\ HeadRecord.key = HeadKey(t) /\ HeadRecord.value = job.content
    BY <1>2 DEF HeadRecord
  <2>2. t \in HeadsOf(db') /\ Rank(HeadsOf(db'), t) = N
    BY <1>3, <1>4
  <2>3. Order(db')[Rank(HeadsOf(db'), t) + 1] = HeadRecord.value
    BY <1>3, <2>1, <2>2, OrderAt
  <2> QED
    BY <2>1, <2>2, <2>3
<1>7. ASSUME NEW n \in 1 .. N
      PROVE  Order(db')[n] = Order(db)[n]
  <2>1. n - 1 \in 0 .. N - 1
    BY <1>1
  <2>2. PICK u \in S : Rank(S, u) = n - 1
    BY <1>1, <2>1, RankExists
  <2>3. PICK r \in db : r.key = HeadKey(u)
    BY <1>1, HeadRecords
  <2>4. Order(db)[n] = r.value
    BY <1>1, <2>2, <2>3, OrderAt
  <2>5. r \in db' /\ u \in HeadsOf(db') /\ Rank(HeadsOf(db'), u) = n - 1
    BY <1>2, <1>3, <1>4, <2>2
  <2>6. Order(db')[n] = r.value
    BY <1>3, <2>3, <2>5, OrderAt
  <2> QED
    BY <2>4, <2>6
<1>8. InOrder' = Append(InOrder, job.content)
  <2> DEFINE before == Order(db)
             after == Order(db')
             wanted == Append(before, job.content)
  <2>1. /\ wanted \in Seq(Content) /\ Len(wanted) = N + 1
        /\ \A n \in 1 .. N : wanted[n] = before[n]
        /\ wanted[N + 1] = job.content
    BY <1>1, <1>2, AppendProperties
  <2>2. \A n \in 1 .. N + 1 : wanted[n] = after[n]
    BY <1>1, <1>6, <1>7, <2>1
  <2> HIDE DEF wanted, after, before
  <2>3. wanted = after
    BY <1>5, <2>1, <2>2, SeqEqual DEF after
  <2> QED
    BY <1>1, <2>3, InOrderIsOrder DEF wanted, after, before
<1>9. job.digest \notin Recorded /\ Recorded' = Recorded \cup {job.digest}
  <2>1. /\ HeadRecord.key[1] = 1 /\ ItemRecord.key[1] = 2 /\ DbKeyReverse = 255
        /\ ReverseRecord.key = ReverseKey(job.digest) /\ ReverseRecord.key[1] = 255
        /\ ReverseRecord.key[2] = job.digest /\ ReverseRecord.value = t
    BY DEF HeadRecord, ReverseRecord, ItemRecord, HeadKey, ReverseKey, EntryKey,
       DbKeyLedgerHead, DbKeyLedgerEntry, DbKeyReverse
  <2>2. ReverseOf(db') = ReverseOf(db) \cup {ReverseRecord}
    BY <1>2, <2>1 DEF ReverseOf
  <2>3. Recorded' = Recorded \cup {job.digest}
    BY <2>1, <2>2 DEF Recorded
  <2>4. ASSUME NEW r \in ReverseOf(db), r.key[2] = job.digest
        PROVE  FALSE
    <3>1. \A q \in Record : q.key[1] = DbKeyReverse => q.key = ReverseKey(q.key[2])
      BY DEF Record, HeadKey, EntryKey, DnKey, ReverseKey,
         DbKeyLedgerHead, DbKeyLedgerEntry, DbKeyDN, DbKeyReverse
    <3>2. r.key = ReverseRecord.key
      BY <1>1, <2>1, <2>4, <3>1 DEF Sane, ReverseOf
    <3>3. r = ReverseRecord
      BY <1>2, <1>3, <3>2 DEF Sane, UniqueKeys, ReverseOf
    <3>4. t \in S
      BY <2>1, <3>3 DEF ViewInv, DbInv, RecordsInv, Whole
    <3> QED
      BY <1>2, <3>4
  <2> QED
    BY <2>3, <2>4 DEF Recorded
<1>10. Store!Record(job.digest, job.content)
  BY <1>0, <1>8, <1>9 DEF Store!Record, storeVars
<1>11. ScanInv' /\ ListInv'
  <2>1. last_count \in Nat /\ last_count <= N
    BY DEF ViewInv, DbInv, ValuesInv, ListInv
  <2> HIDE DEF N
  <2>2. last_count <= N + 1
    BY <1>1, <2>1
  <2> QED
    BY <1>0, <1>3, <1>4, <2>2 DEF ScanInv, ListInv, storeVars, Rest
<1> QED
  BY <1>2, <1>10, <1>11 DEF Simulates, StoreStep, Store!Next

LEMMA NextSimulates ==
  ASSUME ViewInv, [Next]_vars
  PROVE  ViewInv' /\ StoreStep
<1>0. DbInv'
  BY NextKeeps DEF ViewInv
<1>1. CASE UNCHANGED vars
  <2>1. UNCHANGED <<db, ctx, job, last_count, rows>>
    BY <1>1 DEF vars
  <2>2. UNCHANGED <<InOrder, Recorded>>
    BY <2>1, SameStore
  <2>3. ScanInv' /\ ListInv'
    BY <2>1 DEF ViewInv, ScanInv, ListInv
  <2> QED
    BY <1>0, <2>1, <2>2, <2>3 DEF ViewInv, StoreStep
<1>2. CASE Next
  <2>1. Simulates
    <3>1. CASE Stop
      BY <3>1, GoneSimulates DEF Stop
    <3>2. CASE \/ Start
               \/ \E idx \in 0 .. last_count - 1 : GetItem(idx)
               \/ \E l \in Ledger : Sheet(l) \/ Put(l)
      BY <3>2, BeginSimulates
    <3>3. CASE Count
      BY <3>3, CountSimulates
    <3>4. CASE Seek
      BY <3>4, SeekSimulates
    <3>5. CASE Name
      BY <3>5, NameSimulates
    <3>6. CASE Items
      BY <3>6, ItemsSimulates
    <3>7. CASE \/ PutLookup \/ (\E t \in Time : PutStart(t))
               \/ PutHead \/ PutReverse \/ PutEntry
      BY <3>7, PutSimulates
    <3>8. CASE PutFinish
      BY <3>8, FinishSimulates
    <3> QED
      BY <1>2, <3>1, <3>2, <3>3, <3>4, <3>5, <3>6, <3>7, <3>8 DEF Next
  <2> QED
    BY <1>0, <2>1 DEF ViewInv, Simulates
<1> QED
  BY <1>1, <1>2

(* The list page shows a store of ledgers: its size is the number of those *)
(* there are when it is opened, each of its rows is the ledger in that     *)
(* place, in the order of the clock, and kee_ledger_put adds one at the    *)
(* end, with a digest that was not there, or nothing.                      *)
THEOREM StoreRefinement == Spec => ImplementsStore
<1>1. Init => ViewInv /\ Store!Init
  BY InitSimulates
<1>2. ViewInv /\ [Next]_vars => ViewInv' /\ StoreStep
  BY NextSimulates
<1>3. StoreStep => [Store!Next]_(Store!storeVars)
  BY DEF StoreStep, Store!storeVars
<1> QED
  BY <1>1, <1>2, <1>3, PTL DEF Spec, ImplementsStore, Store!Spec

-----------------------------------------------------------------------------
(***************************************************************************)
(* Every handler makes a bounded number of calls.                          *)
(*                                                                         *)
(* The scans of the list are bounded by the ranks of the heads.  The scan  *)
(* for the items of a ledger has no count to go by: each item that it      *)
(* finds has a later time than the last, so that the number of those found *)
(* stays below what the next time must be.                                 *)
(***************************************************************************)
ItemsInv ==
  job.at = "items" =>
    /\ job.i \in 0 .. MaxTime + 1
    /\ job.i # 0 => /\ ctx.current_key = DbKeyLedgerEntry
                    /\ \E t \in 0 .. MaxTime :
                         ctx.at = EntryKey(job.content.content, t) /\ job.i <= t + 1

BoundInv == ViewInv /\ ItemsInv

(* What db_next finds for a ledger is an item with a time that is not less *)
(* than the number of items found before it.                               *)
LEMMA NextItem ==
  ASSUME BoundInv, job.at = "items"
  PROVE  LET d == job.content.content
             next == db_next(ctx, DbKeyLedgerEntry, EntrySearch(d))
         IN  next.result = "OK" /\ next.key[2] = d =>
               /\ next.ctx.current_key = DbKeyLedgerEntry
               /\ \E t \in 0 .. MaxTime : next.ctx.at = EntryKey(d, t) /\ job.i <= t
<1> DEFINE d == job.content.content
           next == db_next(ctx, DbKeyLedgerEntry, EntrySearch(d))
           now == IF ctx.browsing THEN [ctx EXCEPT !.misused = @ \/ ctx.crsr # "open"]
                  ELSE begun(ctx, DbKeyLedgerEntry)
           view == IF ctx.browsing THEN ctx.view ELSE db
           ahead == {r \in view : IF ctx.browsing THEN Less(ctx.at, r.key) ELSE ~Less(r.key, EntrySearch(d))}
           found == CHOOSE r \in ahead : \A q \in ahead : q = r \/ Less(r.key, q.key)
           moved == [now EXCEPT !.started = TRUE, !.at = found.key]
<1>1. Sound(ctx) /\ Typed(ctx) /\ job.i \in Nat /\ (ctx.browsing <=> job.i # 0)
      /\ (job.i = 0 => Resting(ctx))
  BY DEF BoundInv, ViewInv, DbInv, JobTyped, ContextInv, Resting, Looking
<1>2. next = IF ahead = {} THEN [result |-> "FAIL", ctx |-> now]
             ELSE IF found.key[1] # now.current_key
             THEN [result |-> "NOMATCH", ctx |-> [moved EXCEPT !.browsing = FALSE]]
             ELSE [result |-> "OK", ctx |-> moved, key |-> found.key, value |-> found.value]
  BY DEF db_next
<1>3. /\ now.current_key = DbKeyLedgerEntry
      /\ moved.current_key = DbKeyLedgerEntry /\ moved.at = found.key
  <2>1. CASE ctx.browsing
    <3>1. ctx.current_key = DbKeyLedgerEntry
      BY <1>1, <2>1 DEF BoundInv, ItemsInv
    <3> QED
      BY <1>1, <2>1, <3>1 DEF Sound, IsContext
  <2>2. CASE ~ctx.browsing
    <3>1. CASE ctx.started
      BY <1>1, <2>2, <3>1 DEF Sound, IsContext, begun, ended
    <3>2. CASE ~ctx.started
      BY <1>1, <2>2, <3>2 DEF Sound, IsContext, begun, ended
    <3> QED
      BY <3>1, <3>2
  <2> QED
    BY <2>1, <2>2
<1>4. view \in SUBSET Record /\ UniqueKeys(view)
  BY <1>1 DEF BoundInv, ViewInv, DbInv, RecordsInv, Typed
<1> SUFFICES ASSUME next.result = "OK", next.key[2] = d
             PROVE  /\ next.ctx.current_key = DbKeyLedgerEntry
                    /\ \E t \in 0 .. MaxTime : next.ctx.at = EntryKey(d, t) /\ job.i <= t
  OBVIOUS
<1> HIDE DEF next, now, moved, view, found, d
<1>5. ahead # {} /\ found.key[1] = DbKeyLedgerEntry /\ found.key[2] = d
      /\ next.ctx.current_key = DbKeyLedgerEntry /\ next.ctx.at = found.key
  BY <1>2, <1>3
<1>6. found \in ahead /\ found \in Record
  <2>1. ahead \in SUBSET Record /\ UniqueKeys(ahead)
    BY <1>4 DEF UniqueKeys
  <2> HIDE DEF ahead
  <2> QED
    BY <1>5, <2>1, LeastRecord DEF found
<1>7. PICK t \in 0 .. MaxTime : found.key = EntryKey(d, t)
  <2>1. \A r \in Record : r.key[1] = DbKeyLedgerEntry =>
          \E t \in 0 .. MaxTime : r.key = EntryKey(r.key[2], t)
    BY DEF Record, HeadKey, EntryKey, DnKey, ReverseKey,
       DbKeyLedgerHead, DbKeyLedgerEntry, DbKeyDN, DbKeyReverse
  <2> QED
    BY <1>5, <1>6, <2>1
<1>8. job.i <= t
  <2>1. CASE job.i = 0
    BY <2>1
  <2>2. CASE job.i # 0
    <3>1. PICK u \in 0 .. MaxTime : ctx.at = EntryKey(d, u) /\ job.i <= u + 1
      BY <2>2 DEF BoundInv, ItemsInv, d
    <3>2. Less(EntryKey(d, u), EntryKey(d, t))
      BY <1>1, <1>6, <1>7, <2>2, <3>1
    <3>3. d \in Nat
      BY DbAssumption DEF BoundInv, ViewInv, DbInv, ValuesInv, Content, d
    <3>4. u < t
      BY <3>2, <3>3 DEF Less, EntryKey, DbKeyLedgerEntry
    <3> QED
      BY <1>1, <3>1, <3>4
  <2> QED
    BY <2>1, <2>2
<1> QED
  BY <1>5, <1>7, <1>8

LEMMA NextBounds ==
  ASSUME BoundInv, [Next]_vars
  PROVE  BoundInv'
<1>0. ViewInv'
  BY NextSimulates DEF BoundInv
<1>1. CASE UNCHANGED vars
  BY <1>0, <1>1 DEF BoundInv, ItemsInv, vars
<1>2. CASE Items
  <2> DEFINE d == job.content.content
             next == db_next(ctx, DbKeyLedgerEntry, EntrySearch(d))
             more == next.result = "OK" /\ next.key[2] = d
  <2>1. job.at = "items" /\ IF more THEN ctx' = next.ctx /\ job' = [job EXCEPT !.i = @ + 1]
                                    ELSE job' = Rest
    BY <1>2 DEF Items
  <2>2. more => /\ next.ctx.current_key = DbKeyLedgerEntry
                /\ \E t \in 0 .. MaxTime : next.ctx.at = EntryKey(d, t) /\ job.i <= t
    BY <2>1, NextItem
  <2>3. CASE more
    <3>1. ctx'.current_key = DbKeyLedgerEntry
          /\ \E t \in 0 .. MaxTime : ctx'.at = EntryKey(d, t) /\ job.i <= t
      BY <2>1, <2>2, <2>3
    <3>2. job' = [job EXCEPT !.i = @ + 1]
      BY <2>1, <2>3
    <3> HIDE DEF next, more
    <3>3. job'.i = job.i + 1 /\ job'.content = job.content /\ job.i \in Nat
      BY <3>2 DEF BoundInv, ViewInv, DbInv, JobTyped
    <3> QED
      BY <1>0, <3>1, <3>3, DbAssumption DEF BoundInv, ItemsInv
  <2>4. CASE ~more
    BY <1>0, <2>1, <2>4 DEF BoundInv, ItemsInv, Rest
  <2> QED
    BY <2>3, <2>4
<1>3. CASE Name
  <2>1. job'.at = "items" => job'.i = 0
    BY <1>3 DEF Name, Gone, Down, Rest, BoundInv, ViewInv, DbInv, JobTyped, ContextInv
  <2> QED
    BY <1>0, <2>1, DbAssumption DEF BoundInv, ItemsInv
<1>4. CASE Next /\ ~Items /\ ~Name
  <2>1. job'.at # "items"
    <3>0. /\ Rest.at = "idle" /\ Down.at = "down"
          /\ \A at : [Rest EXCEPT !.at = at].at = at /\ [job EXCEPT !.at = at].at = at
          /\ \A i : [job EXCEPT !.i = i].at = job.at
      BY DEF BoundInv, ViewInv, DbInv, JobTyped, Rest, Down
    <3>1. CASE Start \/ Stop \/ Count \/ Seek
      <4>1. CASE Start
        BY <4>1 DEF Start, Rest
      <4>2. CASE Stop
        BY <4>2 DEF Stop, Gone, Down, Rest
      <4>3. CASE Count
        <5>1. job.at = "count" /\ (job' = Rest \/ job' = [job EXCEPT !.i = job.i + 1])
          BY <4>3 DEF Count
        <5> QED
          BY <3>0, <5>1
      <4>4. CASE Seek
        <5>1. job.at = "seek" /\ (\/ job'.at = "name" \/ job' = [job EXCEPT !.i = job.i + 1])
          BY <4>4 DEF Seek, BoundInv, ViewInv, DbInv, JobTyped
        <5> QED
          BY <3>0, <5>1
      <4> QED
        BY <3>1, <4>1, <4>2, <4>3, <4>4
    <3>2. CASE \/ \E idx \in 0 .. last_count - 1 : GetItem(idx)
               \/ \E l \in Ledger : Sheet(l) \/ Put(l)
      BY <3>2 DEF GetItem, Sheet, Put, Rest
    <3>3. CASE \/ \E t \in Time : PutStart(t)
               \/ PutLookup \/ PutHead \/ PutReverse \/ PutEntry \/ PutFinish
      <4>1. CASE PutFinish
        BY <4>1 DEF PutFinish, Rest
      <4>2. CASE Gone
        BY <4>2 DEF Gone, Down, Rest
      <4>3. CASE ~Gone /\ ~PutFinish
        <5>1. job.at # "items" /\ (job' = job \/ job'.at \in {"start", "head", "index", "entry", "finish"})
          BY <3>3, <4>3 DEF BoundInv, ViewInv, DbInv, JobTyped, PutStart, PutLookup, PutHead,
             PutReverse, PutEntry
        <5> QED
          BY <5>1
      <4> QED
        BY <4>1, <4>2, <4>3
    <3> QED
      BY <1>4, <3>1, <3>2, <3>3 DEF Next
  <2> QED
    BY <1>0, <2>1 DEF BoundInv, ItemsInv
<1> QED
  BY <1>1, <1>2, <1>3, <1>4

-----------------------------------------------------------------------------
(* What is left, step by step. *)
Nearer ==
  /\ CallsLeft' \in 0 .. CallsLeft - 1
  /\ \A d \in Digest : Putting(d) /\ job'.at = "idle" => d \in Recorded'

LEMMA CallsOf ==
  /\ job.at = "count" => CallsLeft = Cardinality(Heads) - job.i + 1
  /\ job.at = "seek" => CallsLeft = job.idx - job.i + MaxTime + 4
  /\ job.at = "name" => CallsLeft = MaxTime + 3
  /\ job.at = "items" => CallsLeft = MaxTime + 2 - job.i
  /\ job.at = "reverse" => CallsLeft = 7
  /\ job.at = "start" => CallsLeft = 6
  /\ job.at = "head" => CallsLeft = 5
  /\ job.at = "index" => CallsLeft = 4
  /\ job.at = "entry" => CallsLeft = IF can_add(EntryKey(job.digest, 0)) THEN 3 ELSE 2
  /\ job.at = "finish" => CallsLeft = 1
  /\ job.at \in {"idle", "down"} => CallsLeft = 0
BY DEF CallsLeft

LEMMA CallsOfNext ==
  /\ job'.at = "count" => CallsLeft' = Cardinality(HeadsOf(db')) - job'.i + 1
  /\ job'.at = "seek" => CallsLeft' = job'.idx - job'.i + MaxTime + 4
  /\ job'.at = "name" => CallsLeft' = MaxTime + 3
  /\ job'.at = "items" => CallsLeft' = MaxTime + 2 - job'.i
  /\ job'.at = "start" => CallsLeft' = 6
  /\ job'.at = "head" => CallsLeft' = 5
  /\ job'.at = "index" => CallsLeft' = 4
  /\ job'.at = "entry" =>
       /\ CallsLeft' \in {2, 3}
       /\ (\E r \in ctx'.view : r.key = EntryKey(job'.digest, 0)) => CallsLeft' = 2
  /\ job'.at = "finish" => CallsLeft' = 1
  /\ job'.at \in {"idle", "down"} => CallsLeft' = 0
BY DEF CallsLeft, can_add, Heads

(* The process ends, and with it whatever ran. *)
LEMMA GoneNearer ==
  ASSUME Gone, CallsLeft \in Nat \ {0}
  PROVE  Nearer
<1>1. job'.at = "down"
  BY DEF Gone, Down, Rest
<1> QED
  BY <1>1, CallsOfNext DEF Nearer

(* The scans of the list. *)
LEMMA CountNearer ==
  ASSUME BoundInv, Count
  PROVE  Nearer
<1> DEFINE next == db_next(ctx, DbKeyLedgerHead, HeadSearch)
           N == Cardinality(HeadsOf(db))
<1>1. job.at = "count" /\ UNCHANGED db
      /\ IF next.result = "OK" THEN job' = [job EXCEPT !.i = @ + 1] ELSE job' = Rest
  BY DEF Count
<1>2. Finite(HeadsOf(db)) /\ N \in Nat /\ job.i \in Nat
  BY SaneDb DEF BoundInv, ViewInv, DbInv, JobTyped
<1>3. next.result = "OK" => \E t \in HeadsOf(db) : Rank(HeadsOf(db), t) = job.i
  BY <1>1, NextHead DEF BoundInv
<1>4. next.result # "OK" => N = job.i
  BY <1>1, NextHead DEF BoundInv
<1>5. CallsLeft = N - job.i + 1
  BY <1>1, CallsOf DEF Heads
<1>6. \A d \in Digest : ~Putting(d)
  BY <1>1 DEF Putting
<1>7. CASE next.result = "OK"
  <2>1. job.i < N
    <3>1. PICK t \in HeadsOf(db) : Rank(HeadsOf(db), t) = job.i
      BY <1>3, <1>7
    <3>2. Rank(HeadsOf(db), t) \in 0 .. N - 1
      BY <1>2, RankBound
    <3> QED
      BY <1>2, <3>1, <3>2
  <2> HIDE DEF next
  <2>2. job'.at = "count" /\ job'.i = job.i + 1
    BY <1>1, <1>7 DEF BoundInv, ViewInv, DbInv, JobTyped
  <2>3. CallsLeft' = N - (job.i + 1) + 1
    BY <1>1, <2>2, CallsOfNext
  <2> HIDE DEF N
  <2> QED
    BY <1>2, <1>5, <1>6, <2>1, <2>3 DEF Nearer
<1>8. CASE next.result # "OK"
  <2>1. job'.at = "idle"
    BY <1>1, <1>8 DEF Rest
  <2> HIDE DEF N, next
  <2> QED
    BY <1>2, <1>4, <1>5, <1>6, <1>8, <2>1, CallsOfNext DEF Nearer
<1> QED
  BY <1>7, <1>8

LEMMA SeekNearer ==
  ASSUME BoundInv, Seek
  PROVE  Nearer
<1> DEFINE more == job'.at = "seek" /\ job'.i = job.i + 1 /\ job'.idx = job.idx /\ job.i < job.idx
<1>1. job.at = "seek" /\ (more \/ job'.at = "name")
  BY DEF Seek, goes_on, BoundInv, ViewInv, DbInv, JobTyped
<1>2. /\ job.i \in Nat /\ job.idx \in Int /\ job.i <= job.idx /\ MaxTime \in Nat
      /\ CallsLeft = job.idx - job.i + MaxTime + 4
  BY <1>1, CallsOf, DbAssumption DEF BoundInv, ViewInv, DbInv, JobTyped, ListInv
<1>3. \A d \in Digest : ~Putting(d)
  BY <1>1 DEF Putting
<1> QED
  BY <1>1, <1>2, <1>3, CallsOfNext DEF Nearer

(* The page of a ledger. *)
LEMMA NameNearer ==
  ASSUME BoundInv, Name
  PROVE  Nearer
<1>1. job.at = "name" /\ CallsLeft = MaxTime + 3 /\ MaxTime \in Nat
  BY CallsOf, DbAssumption DEF Name
<1>2. CASE Gone
  BY <1>1, <1>2, GoneNearer
<1>3. CASE ~Gone
  <2>1. job'.at = "items" /\ job'.i = 0
    BY <1>1, <1>3 DEF Name, BoundInv, ViewInv, DbInv, JobTyped, ContextInv
  <2> QED
    BY <1>1, <2>1, CallsOfNext DEF Nearer, Putting
<1> QED
  BY <1>2, <1>3

LEMMA ItemsNearer ==
  ASSUME BoundInv, Items
  PROVE  Nearer
<1> DEFINE d == job.content.content
           next == db_next(ctx, DbKeyLedgerEntry, EntrySearch(d))
           more == next.result = "OK" /\ next.key[2] = d
<1>1. job.at = "items" /\ IF more THEN job' = [job EXCEPT !.i = @ + 1] ELSE job' = Rest
  BY DEF Items
<1>2. more => \E t \in 0 .. MaxTime : job.i <= t
  BY <1>1, NextItem
<1>3. /\ job.i \in 0 .. MaxTime + 1 /\ MaxTime \in Nat
      /\ CallsLeft = MaxTime + 2 - job.i
  BY <1>1, CallsOf, DbAssumption DEF BoundInv, ItemsInv
<1>4. \A e \in Digest : ~Putting(e)
  BY <1>1 DEF Putting
<1> HIDE DEF more
<1>5. CASE more
  <2>1. job'.at = "items" /\ job'.i = job.i + 1 /\ job.i <= MaxTime
    BY <1>1, <1>2, <1>3, <1>5 DEF BoundInv, ViewInv, DbInv, JobTyped
  <2> QED
    BY <1>3, <1>4, <2>1, CallsOfNext DEF Nearer
<1>6. CASE ~more
  <2>1. job'.at = "idle"
    BY <1>1, <1>6 DEF Rest
  <2> QED
    BY <1>3, <1>4, <2>1, CallsOfNext DEF Nearer
<1> QED
  BY <1>5, <1>6

(* kee_ledger_put: an item that is added cannot be added again, and what   *)
(* is committed has the digest.                                            *)
LEMMA PutNearer ==
  ASSUME BoundInv,
         PutLookup \/ (\E t \in Time : PutStart(t)) \/ PutHead \/ PutReverse \/ PutEntry
  PROVE  Nearer
<1>0. /\ job.at \in {"reverse", "start", "head", "index", "entry"}
      /\ CallsLeft \in Nat \ {0}
  <2>1. job.at \in {"reverse", "start", "head", "index", "entry"}
    BY DEF PutLookup, PutStart, PutHead, PutReverse, PutEntry
  <2>2. CallsLeft \in {2, 3, 4, 5, 6, 7}
    BY <2>1, CallsOf
  <2> QED
    BY <2>1, <2>2
<1>1. CASE Gone
  BY <1>0, <1>1, GoneNearer
<1>2. CASE ~Gone /\ (PutLookup \/ (\E t \in Time : PutStart(t)) \/ PutHead \/ PutReverse)
  <2>1. \/ job.at = "reverse" /\ job'.at = "start"
        \/ job.at = "start" /\ job'.at = "head"
        \/ job.at = "head" /\ job'.at = "index"
        \/ job.at = "index" /\ job'.at = "entry"
    BY <1>2 DEF PutLookup, PutStart, PutHead, PutReverse, BoundInv, ViewInv, DbInv, JobTyped
  <2> QED
    BY <2>1, CallsOf, CallsOfNext DEF Nearer
<1>3. CASE PutEntry /\ can_add(EntryKey(job.digest, 0))
  <2>1. job.at = "entry" /\ job' = job /\ ctx' = db_add(ctx, EntryKey(job.digest, 0), 0)
    BY <1>3 DEF PutEntry
  <2>2. \E r \in ctx'.view : r.key = EntryKey(job'.digest, 0)
    <3> DEFINE new == [key |-> EntryKey(job.digest, 0), value |-> 0]
    <3>1. ctx'.view = ctx.view \cup {new}
      BY <2>1 DEF db_add, BoundInv, ViewInv, DbInv, ContextInv, Sound, IsContext
    <3>2. new \in ctx'.view /\ new.key = EntryKey(job'.digest, 0)
      BY <2>1, <3>1
    <3> QED
      BY <3>2
  <2>3. CallsLeft = 3
    BY <1>3, <2>1, CallsOf
  <2> QED
    BY <2>1, <2>2, <2>3, CallsOfNext DEF Nearer
<1>4. CASE PutEntry /\ ~can_add(EntryKey(job.digest, 0))
  <2>1. job.at = "entry" /\ job'.at = "finish"
    BY <1>4 DEF PutEntry, BoundInv, ViewInv, DbInv, JobTyped
  <2>2. CallsLeft = 2
    BY <1>4, <2>1, CallsOf
  <2> QED
    BY <2>1, <2>2, CallsOfNext DEF Nearer
<1> QED
  BY <1>1, <1>2, <1>3, <1>4

LEMMA FinishNearer ==
  ASSUME BoundInv, PutFinish
  PROVE  Nearer
<1>1. job.at = "finish" /\ db' = ctx.view /\ job'.at = "idle"
  BY DEF PutFinish, Rest
<1>2. CallsLeft = 1 /\ CallsLeft' = 0
  BY <1>1, CallsOf, CallsOfNext
<1>3. job.digest \in Recorded'
  <2>1. ReverseRecord \in db'
    BY <1>1 DEF BoundInv, ViewInv, DbInv, PutInv
  <2>2. ReverseRecord.key[1] = DbKeyReverse /\ ReverseRecord.key[2] = job.digest
    BY DEF ReverseRecord, ReverseKey
  <2> QED
    BY <2>1, <2>2 DEF Recorded, ReverseOf
<1> QED
  BY <1>2, <1>3 DEF Nearer, Putting

(* No handler runs on, whatever the database holds: the calls it still     *)
(* makes are bounded from its first one, and every call leaves fewer.  A   *)
(* call of kee_ledger_put after which nothing is left to do, and the       *)
(* process is there, has the digest of the ledger on disk.                 *)
THEOREM HandlersSafe == Spec => HandlersBounded
<1>1. Init => BoundInv
  BY InitSimulates DEF Init, Down, Rest, BoundInv, ItemsInv
<1>2. BoundInv /\ [Next]_vars => BoundInv'
  BY NextBounds
<1>3. BoundInv /\ [Next]_vars => [Handler => Nearer]_vars
  BY CountNearer, SeekNearer, NameNearer, ItemsNearer, PutNearer, FinishNearer DEF Handler
<1>4. [Handler => Nearer]_vars =>
        [Handler =>
           /\ CallsLeft' \in 0 .. CallsLeft - 1
           /\ \A d \in Digest : Putting(d) /\ job'.at = "idle" => d \in Recorded']_vars
  BY DEF Nearer
<1> QED
  BY <1>1, <1>2, <1>3, <1>4, PTL DEF Spec, HandlersBounded
=============================================================================
