-------------------------------- MODULE KeeDb --------------------------------
(***************************************************************************)
(* The database context of db.c, shared by every handler that looks up or  *)
(* records something, and those handlers call by call: the list            *)
(* (gtk/kee-entry-store.c), the page of a ledger (process_entry_ledger,    *)
(* gtk/kee-entry-item-store.c) and kee_ledger_put.  The process may stop   *)
(* at any call.                                                            *)
(*                                                                         *)
(* A key is its prefix, what follows the prefix, and for an item the time  *)
(* at its end, compared in this order as LMDB compares the bytes.  Where a *)
(* handler searches with a key that is cut or padded, the last place is -1 *)
(* or 1.  A ledger is recorded under the digest that was cached when it    *)
(* was parsed, which need not be that of its content.                      *)
(***************************************************************************)
EXTENDS Integers, Sequences, FiniteSets

CONSTANTS
  Digest, Bob,          \* numbers, for the order of keys
  Ledger,               \* [digest, content, bob]
  Seeds,                \* the databases there may be at first
  MaxTime,              \* bound: readings of the clock
  NoContent, NoName

ASSUME DbAssumption ==
  /\ Digest \subseteq Nat /\ Bob \subseteq Nat /\ MaxTime \in Nat
  /\ Ledger \subseteq [digest : Digest, content : Digest, bob : Bob]
  /\ NoContent \notin [content : Digest, bob : Bob]
  /\ NoName \notin Bob

VARIABLES
  db,           \* the records on disk: [key, value]
  ctx,          \* struct db_ctx, and what LMDB knows of its handles
  job,          \* the handler that runs, where it is, and its locals
  clock,        \* the last reading of the clock
  last_value,   \* the store's buffer for the last record it found
  last_count,   \* the size of the list
  rows          \* the rows made for it: <<index, content>>

storeVars == <<last_value, last_count, rows>>
vars == <<db, ctx, job, clock, last_value, last_count, rows>>

DbKeyLedgerHead == 1
DbKeyLedgerEntry == 2
DbKeyDN == 3
DbKeyReverse == 255
DbKey == {DbKeyLedgerHead, DbKeyLedgerEntry, DbKeyDN, DbKeyReverse}

Content == [content : Digest, bob : Bob]
Time == 1 .. MaxTime

HeadKey(t) == <<DbKeyLedgerHead, t, 0>>
EntryKey(d, t) == <<DbKeyLedgerEntry, d, t>>
DnKey(b) == <<DbKeyDN, b, 0>>
ReverseKey(d) == <<DbKeyReverse, d, 0>>

Record ==
  [key : {HeadKey(t) : t \in Time}, value : Content]
    \cup [key : {EntryKey(d, t) : d \in Digest, t \in 0 .. MaxTime}, value : {0}]
    \cup [key : {DnKey(b) : b \in Bob}, value : Bob]
    \cup [key : {ReverseKey(d) : d \in Digest}, value : Time]

HeadsOf(records) == {r.key[2] : r \in {q \in records : q.key[1] = DbKeyLedgerHead}}
ReverseOf(records) == {r \in records : r.key[1] = DbKeyReverse}

(* Every head has one reverse record, every reverse record a head and an   *)
(* item.                                                                   *)
Whole(records) ==
  LET reverse == ReverseOf(records)
  IN  /\ {r.value : r \in reverse} = HeadsOf(records)
      /\ \A r, q \in reverse : r.value = q.value => r = q
      /\ \A r \in reverse : \E q \in records :
           q.key[1] = DbKeyLedgerEntry /\ q.key[2] = r.key[2]

(* What the program finds at first is what it or the generator left. *)
ASSUME SeedsAssumption ==
  \A records \in Seeds :
    /\ records \in SUBSET Record
    /\ Whole(records)
    /\ \A r, q \in records : r.key = q.key => r = q

(* The keys that handlers search with.  Nine bytes of a head; the digest   *)
(* of an item without time; all but the last byte of a public key; a       *)
(* reverse key with a zero more; and the first byte of a time, which lies  *)
(* between the prefixes.                                                   *)
HeadSearch == <<DbKeyLedgerHead, 0, 0>>
EntrySearch(d) == <<DbKeyLedgerEntry, d, -1>>
DnSearch(b) == <<DbKeyDN, b, -1>>
ReverseSearch(d) == <<DbKeyReverse, d, 1>>
TimeSearch == <<101, 0, 0>>

Less(k, l) ==
  \/ k[1] < l[1]
  \/ k[1] = l[1] /\ k[2] < l[2]
  \/ k[1] = l[1] /\ k[2] = l[2] /\ k[3] < l[3]

TypeOK ==
  /\ db \in SUBSET Record
  /\ ctx.tx \in {"none", "read", "write"} /\ ctx.view \in SUBSET Record
  /\ ctx.crsr \in {"none", "open", "orphan", "closed"}
  /\ {ctx.browsing, ctx.started, ctx.misused} \subseteq BOOLEAN
  /\ ctx.current_key \in DbKey \cup {0}
  /\ job.at \in {"down", "idle", "count", "seek", "name", "items",
                 "reverse", "start", "head", "index", "entry", "finish"}
  /\ clock \in 0 .. MaxTime
  /\ last_value \in Content \cup {NoContent}
  /\ last_count \in Nat
  /\ rows \in SUBSET (Nat \X Content)

-----------------------------------------------------------------------------
(* db.c, as functions of the context.  A cursor whose transaction ended is *)
(* an orphan: it may be closed, once, and not be used.  Whatever LMDB does *)
(* not allow sets misused.                                                 *)

(* kee_context_init, db_connect *)
Connected ==
  [tx |-> "none", view |-> {}, crsr |-> "none", at |-> <<0, 0, 0>>,
   browsing |-> FALSE, started |-> FALSE, current_key |-> 0, misused |-> FALSE]

ended(c) ==
  [c EXCEPT !.tx = "none", !.view = {}, !.crsr = IF @ = "open" THEN "orphan" ELSE @]

\* For the mutation check: the next lookup of any kind goes on from here;
\* the transaction is forgotten; the cursor is closed as well.
db_rewind_browsing(c) == ended(c)
db_rewind_tx(c) == [c EXCEPT !.browsing = FALSE]
db_rewind_close(c) == [ended(c) EXCEPT !.browsing = FALSE, !.crsr = "closed"]

db_rewind(c) == [ended(c) EXCEPT !.browsing = FALSE]

(* The first part of db_next: what was left open is closed, unless nothing *)
(* was ever found.                                                         *)
begun(c, pfx) ==
  LET rest == IF c.started
              THEN [ended(c) EXCEPT !.crsr = "closed",
                                    !.misused = @ \/ c.crsr \in {"none", "closed"}]
              ELSE c
  IN  [rest EXCEPT !.tx = "read", !.view = db, !.crsr = "open", !.browsing = TRUE,
                   !.current_key = pfx, !.misused = @ \/ rest.tx # "none"]

(* db_next.  The prefix that is looked for is that of the lookup that      *)
(* began, and it is all that has to match.                                 *)
db_next(c, pfx, search) ==
  LET now == IF c.browsing THEN [c EXCEPT !.misused = @ \/ c.crsr # "open"] ELSE begun(c, pfx)
      view == IF c.browsing THEN c.view ELSE db
      ahead == {r \in view : IF c.browsing THEN Less(c.at, r.key) ELSE ~Less(r.key, search)}
      found == CHOOSE r \in ahead : \A q \in ahead : q = r \/ Less(r.key, q.key)
      moved == [now EXCEPT !.started = TRUE, !.at = found.key]
  IN  IF ahead = {} THEN [result |-> "FAIL", ctx |-> now]
      ELSE IF found.key[1] # now.current_key
      THEN [result |-> "NOMATCH", ctx |-> [moved EXCEPT !.browsing = FALSE]]
      ELSE [result |-> "OK", ctx |-> moved, key |-> found.key, value |-> found.value]

db_start(c) == [c EXCEPT !.tx = "write", !.view = db, !.misused = @ \/ c.tx # "none"]

\* For the mutation check: a record is written over.
can_add_over(key) == TRUE

(* db_add overwrites nothing. *)
can_add(key) == \A r \in ctx.view : r.key # key
db_add(c, key, value) == [c EXCEPT !.view = @ \cup {[key |-> key, value |-> value]}]

-----------------------------------------------------------------------------
(* A handler that has nothing, and one at the first of its calls.          *)
Rest == [at |-> "idle", idx |-> -1, i |-> 0, digest |-> 0, content |-> NoContent,
         name |-> NoName, time |-> 0]
Down == [Rest EXCEPT !.at = "down"]

Init ==
  /\ db \in Seeds
  /\ ctx = Connected
  /\ job = Down
  /\ clock \in 0 .. MaxTime /\ \A t \in HeadsOf(db) : t <= clock
  /\ last_value = NoContent
  /\ last_count = 0
  /\ rows = {}

\* For the mutation check: what was added so far is on disk.
Gone_added ==
  /\ job' = Down
  /\ ctx' = Connected
  /\ last_value' = NoContent
  /\ last_count' = 0
  /\ rows' = {}
  /\ db' = IF ctx.tx = "write" THEN ctx.view ELSE db
  /\ UNCHANGED clock

(* The process ends: it is stopped, or a handler logs an error.  What was  *)
(* not committed is gone.                                                  *)
Gone ==
  /\ job' = Down
  /\ ctx' = Connected
  /\ last_value' = NoContent
  /\ last_count' = 0
  /\ rows' = {}
  /\ UNCHANGED <<db, clock>>

Stop == job.at # "down" /\ Gone

Start ==
  /\ job.at = "down"
  /\ job' = [Rest EXCEPT !.at = "count"]
  /\ UNCHANGED <<db, ctx, clock, storeVars>>

\* For the mutation check: the count is the last index.
counted_idx(i) == i - 1

counted(i) == i

(* kee_entry_store_new: the store seeks to the end and keeps how far that  *)
(* was.                                                                    *)
Count ==
  /\ job.at = "count"
  /\ LET next == db_next(ctx, DbKeyLedgerHead, HeadSearch)
     IN  IF next.result = "OK"
         THEN /\ ctx' = next.ctx
              /\ last_value' = next.value
              /\ job' = [job EXCEPT !.i = @ + 1]
              /\ UNCHANGED last_count
         ELSE /\ ctx' = db_rewind(next.ctx)
              /\ last_count' = counted(job.i)
              /\ job' = Rest
              /\ UNCHANGED last_value
  /\ UNCHANGED <<db, clock, rows>>

GetItem(idx) ==
  /\ job.at = "idle"
  /\ job' = [Rest EXCEPT !.at = "seek", !.idx = idx]
  /\ UNCHANGED <<db, ctx, clock, storeVars>>

\* For the mutation check: the scan stops before the index.
goes_on_short(i, idx) == i + 1 < idx

goes_on(i, idx) == i < idx

(* kee_entry_store_seek always scans from the first ledger.  Its caller    *)
(* does not look at how far it came, and takes what it found last.         *)
Seek ==
  /\ job.at = "seek"
  /\ LET next == db_next(ctx, DbKeyLedgerHead, HeadSearch)
         value == IF next.result = "OK" THEN next.value ELSE last_value
     IN  /\ last_value' = value
         /\ ctx' = IF next.result = "OK" THEN next.ctx ELSE db_rewind(next.ctx)
         /\ job' = IF next.result = "OK" /\ goes_on(job.i, job.idx)
                   THEN [job EXCEPT !.i = @ + 1]
                   ELSE [job EXCEPT !.at = "name", !.content = value, !.i = 0]
  /\ UNCHANGED <<db, clock, last_count, rows>>

(* An imported ledger is shown to be confirmed. *)
Sheet(l) ==
  /\ job.at = "idle"
  /\ job' = [Rest EXCEPT !.at = "name", !.content = [content |-> l.content, bob |-> l.bob]]
  /\ UNCHANGED <<db, ctx, clock, storeVars>>

(* process_entry_ledger: the name of the counterparty.  A lookup that      *)
(* finds no record at all is an error.                                     *)
Name ==
  /\ job.at = "name"
  /\ LET next == db_next(db_rewind(ctx), DbKeyDN, DnSearch(job.content.bob))
     IN  IF next.result = "FAIL"
         THEN Gone
         ELSE /\ ctx' = db_rewind(next.ctx)
              /\ job' = [job EXCEPT !.at = "items",
                           !.name = IF next.result = "OK" THEN next.value ELSE NoName]
              /\ UNCHANGED <<db, clock, storeVars>>

(* kee_entry_item_store_scan, to the first record of another ledger.       *)
Items ==
  /\ job.at = "items"
  /\ LET d == job.content.content
         next == db_next(ctx, DbKeyLedgerEntry, EntrySearch(d))
     IN  IF next.result = "OK" /\ next.key[2] = d
         THEN /\ ctx' = next.ctx
              /\ job' = [job EXCEPT !.i = @ + 1]
              /\ UNCHANGED rows
         ELSE /\ ctx' = db_rewind(next.ctx)
              /\ job' = Rest
              /\ rows' = IF job.idx < 0 THEN rows ELSE rows \cup {<<job.idx, job.content>>}
  /\ UNCHANGED <<db, clock, last_value, last_count>>

-----------------------------------------------------------------------------
(* kee_ledger_put, for a ledger that is confirmed or final. *)
Put(l) ==
  /\ job.at = "idle"
  /\ clock < MaxTime
  /\ job' = [Rest EXCEPT !.at = "reverse", !.digest = l.digest,
                         !.content = [content |-> l.content, bob |-> l.bob]]
  /\ UNCHANGED <<db, ctx, clock, storeVars>>

(* If the first lookup finds a record, a second one follows with the value *)
(* of that record as its key; if that finds one, the buffer on the stack   *)
(* is freed, which ends the process.                                       *)
PutLookup ==
  /\ job.at = "reverse"
  /\ LET first == db_next(ctx, DbKeyReverse, ReverseSearch(job.digest))
         second == db_next(db_rewind(first.ctx), DbKeyLedgerHead, TimeSearch)
     IN  IF first.result = "OK" /\ second.result = "OK"
         THEN Gone
         ELSE /\ ctx' = db_rewind(IF first.result = "OK" THEN second.ctx ELSE first.ctx)
              /\ job' = [job EXCEPT !.at = "start"]
              /\ UNCHANGED <<db, clock, storeVars>>

(* The key of the head is the time, which is assumed not to go back.       *)
PutStart(t) ==
  /\ job.at = "start"
  /\ t > clock
  /\ clock' = t
  /\ ctx' = db_start(ctx)
  /\ job' = [job EXCEPT !.at = "head", !.time = t]
  /\ UNCHANGED <<db, storeVars>>

PutHead ==
  /\ job.at = "head"
  /\ IF can_add(HeadKey(job.time))
     THEN /\ ctx' = db_add(ctx, HeadKey(job.time), job.content)
          /\ job' = [job EXCEPT !.at = "index"]
          /\ UNCHANGED <<db, clock, storeVars>>
     ELSE Gone

PutReverse ==
  /\ job.at = "index"
  /\ IF can_add(ReverseKey(job.digest))
     THEN /\ ctx' = db_add(ctx, ReverseKey(job.digest), job.time)
          /\ job' = [job EXCEPT !.at = "entry"]
          /\ UNCHANGED <<db, clock, storeVars>>
     ELSE Gone

(* kee_ledger_item_put_buf, from the last item on, until it fails: the     *)
(* items that the application makes all have time 0.                       *)
PutEntry ==
  /\ job.at = "entry"
  /\ IF can_add(EntryKey(job.digest, 0))
     THEN /\ ctx' = db_add(ctx, EntryKey(job.digest, 0), 0)
          /\ UNCHANGED job
     ELSE /\ job' = [job EXCEPT !.at = "finish"]
          /\ UNCHANGED ctx
  /\ UNCHANGED <<db, clock, storeVars>>

PutFinish ==
  /\ job.at = "finish"
  /\ db' = ctx.view
  /\ ctx' = ended(ctx)
  /\ job' = Rest
  /\ UNCHANGED <<clock, storeVars>>

Next ==
  \/ Start \/ Stop \/ Count \/ Seek \/ Name \/ Items
  \/ \E idx \in 0 .. last_count - 1 : GetItem(idx)
  \/ \E l \in Ledger : Sheet(l) \/ Put(l)
  \/ \E t \in Time : PutStart(t)
  \/ PutLookup \/ PutHead \/ PutReverse \/ PutEntry \/ PutFinish

Spec == Init /\ [][Next]_vars

(* A handler is one call in the main loop: it goes on by itself. *)
Handler ==
  \/ Count \/ Seek \/ Name \/ Items
  \/ PutLookup \/ (\E t \in Time : PutStart(t)) \/ PutHead \/ PutReverse
  \/ PutEntry \/ PutFinish

FairSpec == Spec /\ WF_vars(Handler)

-----------------------------------------------------------------------------
(* LMDB is never used in a way that it does not allow: no cursor is moved  *)
(* after its transaction or closed twice, no transaction is begun while    *)
(* the context still has one.  db_rewind and db_next both end what the     *)
(* other may have ended, and `started' and `browsing' are all they know.   *)
NeverMisused == ~ctx.misused

(* Between two handlers the context has no transaction and no lookup to go *)
(* on with, whichever of the many ways out the last handler took.          *)
AtRest == job.at = "idle" => ctx.tx = "none" /\ ~ctx.browsing

(* A lookup for one thing never goes on where a lookup for another thing   *)
(* was left: the first lookup of a handler searches.                       *)
SearchesFirst ==
  \/ job.at \in {"count", "seek", "items"} /\ job.i = 0
  \/ job.at = "reverse"
  => ~ctx.browsing

(* On disk, a head, its reverse record and an item come together or not at *)
(* all, wherever the process stopped in kee_ledger_put.                    *)
WholeLedgers == Whole(db)

(* What the pages see is a store of ledgers: see KeeStore. *)
Heads == HeadsOf(db)
Recorded == {r.key[2] : r \in ReverseOf(db)}
InOrder ==
  [n \in 1 .. Cardinality(Heads) |->
     LET t == CHOOSE u \in Heads : Cardinality({v \in Heads : v < u}) = n - 1
     IN  (CHOOSE r \in db : r.key = HeadKey(t)).value]

Store == INSTANCE KeeStore WITH ledgers <- InOrder, recorded <- Recorded, count <- last_count
ImplementsStore == Store!Spec

(* Every handler ends, whatever the database holds: the scans come to an   *)
(* end of their records, and the loop of kee_ledger_put, which ends by an  *)
(* error only, gets one.  When a put ends, the ledger is on disk or the    *)
(* process is gone.                                                        *)
Putting(d) ==
  job.at \in {"reverse", "start", "head", "index", "entry", "finish"} /\ job.digest = d
HandlersEnd ==
  /\ job.at \notin {"idle", "down"} ~> job.at \in {"idle", "down"}
  /\ \A d \in Digest :
       Putting(d) ~> (job.at = "down" \/ (job.at = "idle" /\ d \in Recorded))

(* The calls that a handler still makes, at most: of the head records those *)
(* that are left, or those up to the index; as many items as there can be   *)
(* different times; and a last call that finds no more.                     *)
CallsLeft ==
  CASE job.at = "count" -> Cardinality(Heads) - job.i + 1
    [] job.at = "seek" -> job.idx - job.i + MaxTime + 4
    [] job.at = "name" -> MaxTime + 3
    [] job.at = "items" -> MaxTime + 2 - job.i
    [] job.at = "reverse" -> 7
    [] job.at = "start" -> 6
    [] job.at = "head" -> 5
    [] job.at = "index" -> 4
    [] job.at = "entry" -> IF can_add(EntryKey(job.digest, 0)) THEN 3 ELSE 2
    [] job.at = "finish" -> 1
    [] OTHER -> 0

(* Every call brings its handler nearer to the end, so that none runs on,  *)
(* although no scan has a bound of its own; and a put that comes to its    *)
(* end has the ledger on disk.                                             *)
HandlersBounded ==
  [][Handler =>
       /\ CallsLeft' \in 0 .. CallsLeft - 1
       /\ \A d \in Digest : Putting(d) /\ job'.at = "idle" => d \in Recorded']_vars

(* The following is meant by the program and is not so.                    *)

(* A record under DbKeyDN has the name of the key that it is stored under: *)
(* the counterparty of a ledger is shown by its own name or by none.       *)
NameIsBobs == job.at = "items" => job.name \in {job.content.bob, NoName}
=============================================================================
