------------------------------- MODULE KeeChain -------------------------------
(***************************************************************************)
(* The items of one ledger, through the calls of ledger.h: they are added, *)
(* signed, counter-signed, put into the database with the ledger, found    *)
(* there by another process, summed up and verified.                       *)
(*                                                                         *)
(* An item is serialised with its parent, for which the program takes the  *)
(* first 64 bytes of the structure of the item before it in memory:        *)
(* the address of the one before that, deltas, time, initiator, response   *)
(* and the beginning of alice's signature.  Addresses are never the same   *)
(* in two processes.  A delta has its credit and collateral and the time   *)
(* of the item; body keys are left out.                                    *)
(***************************************************************************)
EXTENDS KeeLedger, KeeCodec, FiniteSets, SequencesExt

CONSTANTS
  head,         \* of the ledger
  Seeds,        \* what the generator left: [disk, kept]
  MaxItems,     \* bound: of a list
  MaxSessions,  \* bound: of processes
  NULL          \* no parent

VARIABLES
  list,         \* the items from the first on; the last is ledger.last_item
  cache,        \* count and balances
  session,      \* the number of the process
  disk,         \* the records of the items: [time, initiator, entry]
  kept          \* the list that was put, as it was in memory

vars == <<list, cache, session, disk, kept>>

Number == [credit : CInt, collateral : CInt, time : Nat]

ASSUME ChainAssumption ==
  /\ Delta \subseteq Number
  /\ ZeroDelta = [credit |-> 0, collateral |-> 0, time |-> 0]
  /\ head \in [alice : Party, bob : Party, terms : Terms]
  /\ MaxItems \in Nat /\ MaxSessions \in Nat \ {0}
  /\ \A bytes \in {Absent, Zeroes} : "signer" \notin DOMAIN bytes

NoCache ==
  [count |-> 0, alice_credit |-> 0, alice_collateral |-> 0,
   bob_credit |-> 0, bob_collateral |-> 0]

TypeOK ==
  /\ Len(list) <= MaxItems
  /\ \A i \in DOMAIN list :
       /\ list[i].initiator \in Roles /\ list[i].delta \in Number
       /\ list[i].response \in BOOLEAN
  /\ cache.count \in 0 .. MaxItems
  /\ {cache.alice_credit, cache.alice_collateral,
      cache.bob_credit, cache.bob_collateral} \subseteq CInt
  /\ session \in 1 .. MaxSessions
  /\ \A r, q \in disk : r.time = q.time => r = q

-----------------------------------------------------------------------------
(* The bytes at the beginning of item i. *)
memory(l, s, i) ==
  [prev_item |-> IF i = 1 THEN NULL ELSE <<s, i - 1>>,
   delta |-> l[i].delta, initiator |-> l[i].initiator, response |-> l[i].response,
   signature |-> l[i].alice_signature]

parent(l, s, i) == IF i = 1 THEN NULL ELSE memory(l, s, i - 1)

wire(entry) ==
  [entry EXCEPT !.delta = [credit |-> encoded(@.credit), collateral |-> encoded(@.collateral),
                           time |-> @.time]]
unwired(entry) ==
  [entry EXCEPT !.delta = [credit |-> decoded(@.credit), collateral |-> decoded(@.collateral),
                           time |-> @.time]]

(* kee_ledger_item_serialize_db *)
record(l, s, i) ==
  [time |-> l[i].delta.time, initiator |-> l[i].initiator,
   entry |-> wire(kee_ledger_item_serialize(l[i], parent(l, s, i), "FINAL"))]

\* For the mutation check: what is there is written over.
item_put_over(acc, r) ==
  [acc EXCEPT !.records = {q \in @ : q.time # r.time} \cup {r}]

(* kee_ledger_item_put_buf: a key that exists ends the loop. *)
item_put(acc, r) ==
  IF ~acc.more THEN acc
  ELSE IF \E q \in acc.records : q.time = r.time THEN [acc EXCEPT !.more = FALSE]
  ELSE [acc EXCEPT !.records = @ \cup {r}]

(* The loop of kee_ledger_put, from the last item on. *)
kee_ledger_put(l, s) ==
  LET records == [i \in DOMAIN l |-> record(l, s, i)]
  IN  FoldRight(LAMBDA r, acc : item_put(acc, r), records,
                [records |-> {}, more |-> TRUE]).records

-----------------------------------------------------------------------------
(* kee_ledger_parse_item_db: an item that does not verify is linked and    *)
(* stays as it was allocated.                                              *)
verified(r) == verify_item_asn(head, unwired(r.entry), r.initiator)
kee_ledger_parse_item_db(r) ==
  IF verified(r) THEN kee_ledger_parse_item(unwired(r.entry), r.initiator)
  ELSE kee_ledger_add_item(r.initiator)

\* For the mutation check: both balances get the initiator's deltas.
apply_cache_both(c, item) ==
  [count |-> c.count + 1,
   alice_credit |-> wrap(c.alice_credit + item.delta.credit),
   alice_collateral |-> wrap(c.alice_collateral + item.delta.collateral),
   bob_credit |-> wrap(c.bob_credit + item.delta.credit),
   bob_collateral |-> wrap(c.bob_collateral + item.delta.collateral)]

(* kee_ledger_item_apply_cache: only the initiator's deltas are set. *)
apply_cache(c, item) ==
  IF item.initiator = "BOB"
  THEN [c EXCEPT !.count = @ + 1,
                 !.bob_credit = wrap(@ + item.delta.credit),
                 !.bob_collateral = wrap(@ + item.delta.collateral)]
  ELSE [c EXCEPT !.count = @ + 1,
                 !.alice_credit = wrap(@ + item.delta.credit),
                 !.alice_collateral = wrap(@ + item.delta.collateral)]

(* The scan of kee_entry_item_store_new finds them in the order of time. *)
scanned ==
  [n \in 1 .. Cardinality(disk) |->
     CHOOSE r \in disk : Cardinality({q \in disk : q.time < r.time}) = n - 1]

-----------------------------------------------------------------------------
(* kee_ledger_verify, from the last item on: the result of the response    *)
(* signature is replaced by that of the request signature.                 *)
verify_item(l, s, i, mode, signature, signer) ==
  signature = Signed(signer, head, kee_ledger_item_serialize(l[i], parent(l, s, i), mode))

pubkey_first(role) == IF role = "BOB" THEN head.bob ELSE head.alice

response_ok(l, s, i) ==
  verify_item(l, s, i, "RESPONSE", signature_response(l[i]), pubkey_last(head, l[i].initiator))
request_ok(l, s, i) ==
  verify_item(l, s, i, "REQUEST", signature_request(l[i]), pubkey_first(l[i].initiator))

missing(l, i) == signature_response(l[i]) = Zeroes /\ i < Len(l)

checked(l, s, i) ==
  IF signature_request(l[i]) # Zeroes THEN request_ok(l, s, i)
  ELSE signature_response(l[i]) # Zeroes => response_ok(l, s, i)

verify_from(l, s) ==
  LET from[i \in 1 .. Len(l)] ==
        IF missing(l, i) \/ ~checked(l, s, i) THEN [ok |-> FALSE, idx |-> Len(l) - i]
        ELSE IF i = 1 THEN [ok |-> TRUE, idx |-> Len(l) - 1]
        ELSE from[i - 1]
  IN  from[Len(l)]

kee_ledger_verify(l, s) ==
  IF l = << >> THEN [ok |-> FALSE, idx |-> 0] ELSE verify_from(l, s)

-----------------------------------------------------------------------------
(* Both signatures are made over the item with this parent. *)
SignedOver(item, before) ==
  /\ signature_request(item) \in
       {Zeroes, Signed(pubkey_first(item.initiator), head,
                       kee_ledger_item_serialize(item, before, "REQUEST"))}
  /\ signature_response(item) # Zeroes =>
       signature_response(item) =
         Signed(signature_response(item).signer, head,
                kee_ledger_item_serialize(item, before, "RESPONSE"))

Keeps(r, item) ==
  /\ r = [time |-> item.delta.time, initiator |-> item.initiator,
          entry |-> wire(kee_ledger_item_serialize(item, r.entry.parent, "FINAL"))]
  /\ SignedOver(item, r.entry.parent)

IsItem(x) ==
  x \in [initiator : Roles, delta : Number, response : BOOLEAN,
         alice_signature : {x.alice_signature}, bob_signature : {x.bob_signature}]

(* Items in the order of their times, and a record of each. *)
Stored(records, l) ==
  /\ l \in Seq({l[i] : i \in DOMAIN l}) /\ Len(l) <= MaxItems
  /\ \A i \in DOMAIN l : IsItem(l[i])
  /\ \A i, j \in DOMAIN l : i < j => l[i].delta.time < l[j].delta.time
  /\ \A i \in DOMAIN l : \E r \in records : Keeps(r, l[i])
  /\ \A r \in records : \E i \in DOMAIN l : Keeps(r, l[i])
  /\ \A r, q \in records : r.time = q.time => r = q

(* The generator signs every item over its own parent for it. *)
ASSUME SeedsAssumption == \A seed \in Seeds : Stored(seed.disk, seed.kept)

Init ==
  /\ list = << >>
  /\ cache = NoCache
  /\ session = 1
  /\ \E seed \in Seeds : disk = seed.disk /\ kept = seed.kept

last_item == list[Len(list)]

(* kee_ledger_add_item, and what its callers set.  Time does not go back. *)
Add(d) ==
  /\ Len(list) < MaxItems
  /\ list # << >> => last_item.delta.time <= d.time
  /\ list' = Append(list, [kee_ledger_add_item("ALICE") EXCEPT !.delta = d])
  /\ UNCHANGED <<cache, session, disk, kept>>

(* kee_ledger_sign as alice, for the last item. *)
SignRequest ==
  /\ list # << >>
  /\ ~already_signed(last_item)
  /\ last_item.initiator = "ALICE"
  /\ list' = [list EXCEPT ![Len(list)] =
       kee_ledger_sign(head.alice, head, @, parent(list, session, Len(list)))]
  /\ UNCHANGED <<cache, session, disk, kept>>

(* The item is counter-signed with whatever key is loaded: the caller lets *)
(* kee_ledger_sign take it for one of bob's, and puts the signature where  *)
(* it belongs.                                                             *)
SignResponse(p) ==
  /\ list # << >>
  /\ already_signed(last_item) /\ last_item.initiator = "ALICE"
  /\ LET item == [last_item EXCEPT !.response = TRUE]
         swap == [item EXCEPT !.initiator = "BOB", !.alice_signature = Zeroes,
                              !.bob_signature = item.alice_signature]
         signed == kee_ledger_sign(p, head, swap, parent(list, session, Len(list)))
     IN  list' = [list EXCEPT ![Len(list)] =
                    [item EXCEPT !.bob_signature = signed.alice_signature]]
  /\ UNCHANGED <<cache, session, disk, kept>>

(* kee_ledger_put: a ledger is put once. *)
Put ==
  /\ list # << >>
  /\ disk = {}
  /\ disk' = kee_ledger_put(list, session)
  /\ kept' = list
  /\ UNCHANGED <<list, cache, session>>

(* Another process has the ledger's page: kee_entry_deserialize with the   *)
(* scan of the items.                                                      *)
Open ==
  /\ session < MaxSessions
  /\ session' = session + 1
  /\ list' = [i \in DOMAIN scanned |-> kee_ledger_parse_item_db(scanned[i])]
  /\ cache' = FoldLeft(LAMBDA c, r :
                         IF verified(r) THEN apply_cache(c, kee_ledger_parse_item_db(r)) ELSE c,
                       NoCache, scanned)
  /\ UNCHANGED <<disk, kept>>

Next ==
  \/ \E d \in Delta : Add(d)
  \/ SignRequest
  \/ \E p \in Party : SignResponse(p)
  \/ Put
  \/ Open

Spec == Init /\ [][Next]_vars

-----------------------------------------------------------------------------
(* Of a list that was put, the items from the last one back to the first   *)
(* whose time another one after it has.                                    *)
apart(l, i) == \A k, m \in i .. Len(l) : k # m => l[k].delta.time # l[m].delta.time
first(l) ==
  CHOOSE i \in 1 .. Len(l) + 1 : apart(l, i) /\ \A j \in 1 .. i - 1 : ~apart(l, j)
Newest == SubSeq(kept, first(kept), Len(kept))

Countersigned(item) ==
  /\ signature_response(item) # Zeroes
  /\ signature_response(item).signer = pubkey_last(head, item.initiator)

(* Whoever opens the ledger has what was put, in its order, as far back as *)
(* no two items have one time: every counter-signed item with its deltas,  *)
(* flag and both signatures, and an empty item for every other.            *)
OpensWhatWasPut ==
  [][Open =>
       /\ Len(list') = Len(Newest)
       /\ \A i \in DOMAIN Newest :
            list'[i] = IF Countersigned(Newest[i]) THEN Newest[i]
                       ELSE kee_ledger_add_item(Newest[i].initiator)]_vars

(* The balances and the count that a page shows are those of the counter-  *)
(* signed items as they were entered, modulo the width of an int, however  *)
(* short their deltas were on the wire.                                    *)
Total(role, part) ==
  wrap(FoldLeft(LAMBDA sum, item :
                  IF item.initiator = role /\ Countersigned(item)
                  THEN sum + item.delta[part] ELSE sum, 0, Newest))

ShowsTheSum ==
  [][Open =>
       cache' = [count |-> Cardinality({i \in DOMAIN Newest : Countersigned(Newest[i])}),
                 alice_credit |-> Total("ALICE", "credit"),
                 alice_collateral |-> Total("ALICE", "collateral"),
                 bob_credit |-> Total("BOB", "credit"),
                 bob_collateral |-> Total("BOB", "collateral")]]_vars

(* A list that was signed in its order verifies in the process that made   *)
(* it.  It does in another one that found all of what the program put, as  *)
(* long as no more than two of its items came from the database: the bytes *)
(* of an item that has a parent in memory hold an address, those of the    *)
(* first do not.  What the generator left has other parents.               *)
AllFound == Newest = kept
Generated == disk # {} /\ \E seed \in Seeds : disk = seed.disk
SignedVerifies ==
  /\ list # << >>
  /\ session > 1 => AllFound /\ ~Generated /\ cache.count <= 2
  /\ \A i \in DOMAIN list :
       list[i].initiator = "ALICE" /\ signature_request(list[i]) # Zeroes
  /\ \A i \in 1 .. Len(list) - 1 : signature_response(list[i]) # Zeroes
  => kee_ledger_verify(list, session).ok

(* The following is meant by the program and is not so.                    *)

(* The parent of an entry names the entry before it: it is the same for    *)
(* whoever opens the ledger as for whoever put it.                         *)
ParentStays ==
  [][Open => \A i \in DOMAIN list' :
       scanned[i].entry.parent = parent(list', session', i)]_vars
=============================================================================
