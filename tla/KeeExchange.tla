----------------------------- MODULE KeeExchange -----------------------------
(***************************************************************************)
(* Wallets that create, counter-sign and import ledgers.  A wallet is the  *)
(* GTK application of one key holder, with its LMDB database, plus the     *)
(* command line signer that works on the same key.  Transports (QR codes,  *)
(* copied text, files) are carried by hand: one that was rendered once can *)
(* be imported by anyone, any number of times, in any order, or never.     *)
(*                                                                         *)
(* Each GTK handler runs to completion on the main loop.  The only point   *)
(* inside one at which a stop of the process can be told apart is between  *)
(* the commit of kee_ledger_put and the rendering of the transport, so a   *)
(* handler that renders leaves its transport in `rendering'.  Failed signs *)
(* and puts are logged with G_LOG_LEVEL_ERROR, which glib makes fatal.     *)
(*                                                                         *)
(* Which page is visible is left out: any handler whose widget exists may  *)
(* run.                                                                    *)
(***************************************************************************)
EXTENDS KeeLedger

CONSTANTS
  Seeded,     \* wallets whose database holds DN records from the start
  NoForm, NoSheet, NoMessage

VARIABLES
  running,    \* running[p]: the application is up and the key is unlocked
  db,         \* db[p]: the ledgers in p's database
  form,       \* form[p]: the ledger of the "new entry" form
  sheet,      \* sheet[p]: the imported ledger shown for confirmation
  rendering,  \* rendering[p]: the transport a handler is about to show
  net         \* every transport shown or written so far

vars == <<running, db, form, sheet, rendering, net>>

(* A stored ledger: the reverse record for `digest', the head record, and  *)
(* the one item record under `digest'.  (Items made by the application all *)
(* have time 0 and hence one key; only the last item of a list is stored.) *)
Stored == [digest : EntryHead, head : EntryHead, entry : Entry, initiator : Roles]

(* The form of kee_menu_act_new_entry: its KeeEntry keeps the ledger, so a *)
(* second press of "add" appends to the list of the first.                 *)
Form == {"empty", "used"}

(* The KeeEntry of an import.  `digest' is the cached digest of the head   *)
(* as it was parsed.  `item' is ledger.last_item and `chained' tells that  *)
(* it has a predecessor in the list.                                       *)
Sheet == [digest : EntryHead, head : EntryHead, item : Item, chained : BOOLEAN]

TypeOK ==
  /\ running \in [Party -> BOOLEAN]
  /\ db \in [Party -> SUBSET Stored]
  /\ form \in [Party -> Form \cup {NoForm}]
  /\ sheet \in [Party -> Sheet \cup {NoSheet}]
  /\ rendering \in [Party -> Message \cup {NoMessage}]
  /\ net \subseteq Message

ASSUME ExchangeAssumption ==
  /\ Seeded \subseteq Party
  /\ NoForm \notin Form
  /\ NoSheet \notin Sheet
  /\ NoMessage \notin Message

Init ==
  /\ running = [p \in Party |-> FALSE]
  /\ db = [p \in Party |-> {}]
  /\ form = [p \in Party |-> NoForm]
  /\ sheet = [p \in Party |-> NoSheet]
  /\ rendering = [p \in Party |-> NoMessage]
  /\ net = {}

-----------------------------------------------------------------------------
(* The process of p is gone, with everything it held in memory. *)
Gone(p) ==
  /\ running' = [running EXCEPT ![p] = FALSE]
  /\ form' = [form EXCEPT ![p] = NoForm]
  /\ sheet' = [sheet EXCEPT ![p] = NoSheet]
  /\ rendering' = [rendering EXCEPT ![p] = NoMessage]
  /\ UNCHANGED <<db, net>>

(* Start and unlock with the right passphrase. *)
Unlock(p) ==
  /\ ~running[p]
  /\ running' = [running EXCEPT ![p] = TRUE]
  /\ UNCHANGED <<db, form, sheet, rendering, net>>

(* Quit, a crash, or the abort that follows a wrong passphrase on a form. *)
Stop(p) == running[p] /\ Gone(p)

(* The main loop of p takes the next event. *)
Idle(p) == running[p] /\ rendering[p] = NoMessage

NewEntry(p) ==
  /\ Idle(p)
  /\ form' = [form EXCEPT ![p] = "empty"]
  /\ UNCHANGED <<running, db, sheet, rendering, net>>

parent_of(chained) == IF chained THEN "memory" ELSE "zero"

(* kee_entry_handle_add: the head is filled from the form and the own key, *)
(* an item is appended, signed as a request and serialised for response.   *)
Add(p, bob, terms, delta) ==
  /\ Idle(p)
  /\ form[p] # NoForm
  /\ LET head   == [alice |-> p, bob |-> bob, terms |-> terms]
         parent == parent_of(form[p] = "used")
         item   == [kee_ledger_add_item("ALICE") EXCEPT !.delta = delta]
         signed == kee_ledger_sign(p, head, item, parent)
     IN  rendering' = [rendering EXCEPT ![p] =
           [head  |-> head,
            entry |-> kee_ledger_item_serialize(signed, parent, "RESPONSE")]]
  /\ form' = [form EXCEPT ![p] = "used"]
  /\ UNCHANGED <<running, db, sheet, net>>

(* kee_transport_handle_qr: the transport is shown. *)
Render(p) ==
  /\ rendering[p] # NoMessage
  /\ net' = net \cup {rendering[p]}
  /\ rendering' = [rendering EXCEPT ![p] = NoMessage]
  /\ UNCHANGED <<running, db, form, sheet>>

-----------------------------------------------------------------------------
Known(p, digest) == \E l \in db[p] : l.digest = digest

\* For the mutation check: a second put of a ledger goes through.
put_always(p, digest) == TRUE

(* kee_ledger_put, one LMDB transaction.  The lookups in front of it never *)
(* find the ledger; what refuses a second put is MDB_NOOVERWRITE on the    *)
(* reverse record.                                                         *)
put_ok(p, digest) == ~Known(p, digest)

\* For the mutation check: the transaction is never committed.
kee_ledger_put_uncommitted(p, digest, head, item, parent) == UNCHANGED db

kee_ledger_put(p, digest, head, item, parent) ==
  db' = [db EXCEPT ![p] = @ \cup
    {[digest |-> digest, head |-> head, initiator |-> item.initiator,
      entry |-> kee_ledger_item_serialize(item, parent, "FINAL")]}]

(* The lookup of the counterparty's name ends in ERR_DB_FAIL, and the      *)
(* import with it, unless the database has some record at or above it.     *)
dn_lookup_ok(p) == p \in Seeded \/ db[p] # {}

\* For the mutation check: the widget keeps the item of the import before.
kee_entry_from_ledger_kept(p, head, item) ==
  [digest |-> head, head |-> head, chained |-> FALSE,
   item |-> IF sheet[p] = NoSheet THEN item ELSE sheet[p].item]

(* kee_entry_from_ledger: the list of the imported ledger is extended by   *)
(* the item stored under the same digest, or by what its failed parse      *)
(* leaves.                                                                 *)
kee_entry_from_ledger(p, head, item) ==
  LET stored == CHOOSE l \in db[p] : l.digest = head
      last   == IF verify_item_asn(head, stored.entry, stored.initiator)
                THEN kee_ledger_parse_item(stored.entry, stored.initiator)
                ELSE kee_ledger_add_item(stored.initiator)
  IN  IF Known(p, head)
      THEN [digest |-> head, head |-> head, item |-> last, chained |-> TRUE]
      ELSE [digest |-> head, head |-> head, item |-> item, chained |-> FALSE]

(* kee_menu_act_import_entry, by the state of the parsed item.  A request  *)
(* without signature and a transport that does not parse change nothing.   *)
ImportFinal(p, m) ==
  LET item == kee_ledger_parse_open(m, p) IN
  /\ Idle(p)
  /\ parse_open_ok(m, p)
  /\ kee_ledger_item_state(item) = "FINAL"
  /\ IF put_ok(p, m.head)
     THEN /\ kee_ledger_put(p, m.head, m.head, item, "zero")
          /\ UNCHANGED <<running, form, sheet, rendering, net>>
     ELSE Gone(p)

ImportResponse(p, m) ==
  LET item == kee_ledger_parse_open(m, p) IN
  /\ Idle(p)
  /\ parse_open_ok(m, p)
  /\ kee_ledger_item_state(item) = "RESPONSE"
  /\ IF dn_lookup_ok(p)
     THEN /\ sheet' = [sheet EXCEPT ![p] = kee_entry_from_ledger(p, m.head, item)]
          /\ UNCHANGED <<running, db, form, rendering, net>>
     ELSE Gone(p)

(* kee_entry_handle_confirm: the signer's own key becomes the head's       *)
(* alice, the item is signed, put under the digest the head had, and       *)
(* serialised for response.                                                *)
Confirm(p) ==
  /\ Idle(p)
  /\ sheet[p] # NoSheet
  /\ LET s      == sheet[p]
         head   == [s.head EXCEPT !.alice = p]
         parent == parent_of(s.chained)
         item   == kee_ledger_sign(p, head, s.item, parent)
     IN  IF ~already_signed(s.item) /\ put_ok(p, s.digest)
         THEN /\ kee_ledger_put(p, s.digest, head, item, parent)
              /\ sheet' = [sheet EXCEPT ![p] = [s EXCEPT !.head = head, !.item = item]]
              /\ rendering' = [rendering EXCEPT ![p] =
                   [head  |-> head,
                    entry |-> kee_ledger_item_serialize(item, parent, "RESPONSE")]]
              /\ UNCHANGED <<running, form, net>>
         ELSE Gone(p)

(* kee-sign -y FILE: parse, sign, write in final form.  It has no database *)
(* and fails on an item that carries a signature in alice's slot.          *)
CliSign(p, m) ==
  LET item == kee_ledger_parse_open(m, p) IN
  /\ parse_open_ok(m, p)
  /\ ~already_signed(item)
  /\ net' = net \cup
       {[head  |-> m.head,
         entry |-> kee_ledger_item_serialize(
                     kee_ledger_sign(p, m.head, item, "zero"), "zero", "FINAL")]}
  /\ UNCHANGED <<running, db, form, sheet, rendering>>

Next ==
  \E p \in Party :
    \/ Unlock(p) \/ Stop(p) \/ NewEntry(p) \/ Render(p) \/ Confirm(p)
    \/ \E bob \in Key, terms \in Terms, delta \in Delta : Add(p, bob, terms, delta)
    \/ \E m \in net : ImportFinal(p, m) \/ ImportResponse(p, m) \/ CliSign(p, m)

Spec == Init /\ [][Next]_vars

-----------------------------------------------------------------------------
(* What p holds as the requester: ledgers whose digest names it as alice.  *)
Recorded(p) == {l \in db[p] : l.digest.alice = p}

(* A requester stores a ledger only with the counterparty's signature over *)
(* exactly the head and the entry that are stored, request signature       *)
(* included: kee_menu_act_import_entry puts final items only, and          *)
(* verify_item_asn has checked the response signature against head.bob.    *)
RecordedIsCountersigned ==
  \A p \in Party : \A l \in Recorded(p) :
    /\ l.head = l.digest
    /\ l.entry.sigResponse = Signed(l.digest.bob, l.digest, get_message_asn(l.entry))

(* A stored entry carries the delta that its request signature was made    *)
(* over, through every import, confirmation and command line signature it  *)
(* went through on its way.                                                *)
StoredDeltaWasRequested ==
  \A p \in Party : \A l \in db[p] :
    /\ l.entry.sigRequest \in RequestSignature
    /\ l.entry.sigRequest.entry.delta = l.entry.delta

(* And it is stored under the counterparty and the terms that the request  *)
(* names, although every confirmation on the way made its own key alice of *)
(* the head, and items and heads meet anew in each sheet.                  *)
same_terms(k, l) == k.bob = l.bob /\ k.terms = l.terms

StoredTermsWereRequested ==
  \A p \in Party : \A l \in db[p] : same_terms(l.entry.sigRequest.digest, l.digest)

(* A confirmation is shown only once it is stored: a transport whose head  *)
(* was given another alice than its requester means that this alice holds  *)
(* the counter-signed entry, whatever crashed since.                       *)
ConfirmationStored(m) ==
  m.entry.sigRequest.signer # m.head.alice =>
    \E l \in db[m.head.alice] :
      /\ l.head = m.head
      /\ l.entry.sigRequest = m.entry.sigRequest
      /\ l.entry.sigResponse # Zeroes
      /\ l.entry.sigResponse.signer = m.head.alice

ShownIsStored == \A m \in net : ConfirmationStored(m)

(* The exchange implements the agreement that KeeAgreement states: offers  *)
(* are the request signatures of the transports in circulation, counter-   *)
(* signatures the response signatures, and records the ledgers that a      *)
(* requester has in its database.  Everything a wallet does on its own,    *)
(* forms, confirmations and crashes included, stutters.                    *)
counter_signature(head, entry) ==
  [head |-> head, request |-> entry.sigRequest, signer |-> entry.sigResponse.signer]

Agreement == INSTANCE KeeAgreement WITH
  Request <- RequestSignature,
  offered <- {m.entry.sigRequest : m \in net},
  countersigned <-
    {counter_signature(m.head, m.entry) : m \in {n \in net : n.entry.sigResponse # Absent}},
  recorded <- [p \in Party |-> {counter_signature(l.digest, l.entry) : l \in Recorded(p)}]

ImplementsAgreement == Agreement!AgreementSpec

-----------------------------------------------------------------------------
(* The inductive invariant behind the safety properties.                   *)

(* A request signature is never lost or moved to another delta or head.    *)
RequestKept(head, entry) ==
  /\ entry.sigRequest \in RequestSignature
  /\ entry.sigRequest.entry.delta = entry.delta
  /\ same_terms(entry.sigRequest.digest, head)

(* A response signature in circulation was made over the very entry that   *)
(* carries it, and by the command line signer, whose items have no parent. *)
NetInv(m) ==
  /\ m.head.alice \in Party
  /\ RequestKept(m.head, m.entry)
  /\ m.entry.sigResponse # Absent =>
       /\ m.entry.parent = "zero"
       /\ \E q \in Party : m.entry.sigResponse = Signed(q, m.head, get_message_asn(m.entry))

(* An application shows requests of its own, or ones that circulate.       *)
RenderingInv(p, m) ==
  /\ m.head.alice = p
  /\ RequestKept(m.head, m.entry)
  /\ m.entry.sigResponse = Absent
  /\ m.entry.sigRequest.signer = p \/ \E n \in net : n.entry.sigRequest = m.entry.sigRequest

(* A sheet whose item did not come from the database shows an item that    *)
(* circulates; it is in the requester's role only for the requester, whose *)
(* signature is in it, so that only another party can confirm it.          *)
SheetInv(p, s) ==
  IF s.chained
  THEN Known(p, s.digest)
  ELSE /\ \E n \in net : n.entry.sigRequest = signature_request(s.item)
       /\ signature_request(s.item).entry.delta = s.item.delta
       /\ same_terms(signature_request(s.item).digest, s.digest)
       /\ same_terms(s.head, s.digest)
       /\ s.digest.alice = p => s.item.initiator = "ALICE"

WalletInv(p) ==
  /\ rendering[p] # NoMessage =>
       RenderingInv(p, rendering[p]) /\ ConfirmationStored(rendering[p])
  /\ sheet[p] # NoSheet => SheetInv(p, sheet[p])

(* put refuses a second record of a ledger.  By itself this restates its   *)
(* guard; the refinement needs it where a requester records.               *)
OneRecordPerLedger ==
  \A p \in Party : \A k, l \in db[p] : k.digest = l.digest => k = l

ExchangeInv ==
  /\ TypeOK
  /\ \A m \in net : NetInv(m) /\ ConfirmationStored(m)
  /\ \A p \in Party : WalletInv(p)
  /\ StoredDeltaWasRequested
  /\ StoredTermsWereRequested
  /\ RecordedIsCountersigned
  /\ OneRecordPerLedger

-----------------------------------------------------------------------------
(* The following is said of the program and is not so.                     *)

(* What Bob shares after confirming is the counter-signed entry that Alice *)
(* imports: kee_entry_handle_confirm shows an entry with his signature.    *)
SharedIsCountersigned ==
  \A m \in net : m.entry.sigRequest.signer # m.head.alice => m.entry.sigResponse # Absent
=============================================================================
