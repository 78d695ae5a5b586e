-------------------------- MODULE KeeExchangeProofs --------------------------
(***************************************************************************)
(* Proofs about KeeExchange, for any parties, terms, deltas and any number *)
(* of transports.                                                          *)
(***************************************************************************)
EXTENDS KeeExchange, TLAPS

(* An item as it is serialised, whatever the mode, is an entry.            *)
LEMMA SerializedItem ==
  ASSUME NEW item \in Item, NEW parent \in Parents, NEW mode \in Modes
  PROVE  kee_ledger_item_serialize(item, parent, mode) \in Entry
<1>1. CASE item \in ItemOf("ALICE", RequestSignature, ResponseSignature)
  BY <1>1 DEF ItemOf, Entry, Modes, kee_ledger_item_serialize,
              signature_request, signature_response
<1>2. CASE item \in ItemOf("BOB", ResponseSignature, RequestSignature)
  BY <1>2 DEF ItemOf, Entry, Modes, kee_ledger_item_serialize,
              signature_request, signature_response
<1> QED
  BY <1>1, <1>2 DEF Item

(* Signing fills alice's slot with the kind of signature that the role of  *)
(* the item calls for.                                                     *)
LEMMA SignedItem ==
  ASSUME NEW p \in Party, NEW head \in EntryHead, NEW item \in Item, NEW parent \in Parents
  PROVE  kee_ledger_sign(p, head, item, parent) \in Item
<1> DEFINE mode == sign_mode(item)
           signature == Signed(p, head, kee_ledger_item_serialize(item, parent, mode))
<1>1. CASE item \in ItemOf("ALICE", RequestSignature, ResponseSignature)
  <2>1. kee_ledger_item_serialize(item, parent, mode) \in RequestEntry
    BY <1>1 DEF ItemOf, RequestEntry, kee_ledger_item_serialize, sign_mode,
                signature_request, signature_response
  <2>2. signature \in RequestSignature
    BY <2>1 DEF RequestSignature, Signed
  <2>3. kee_ledger_sign(p, head, item, parent)
          \in ItemOf("ALICE", RequestSignature, ResponseSignature)
    BY <1>1, <2>2 DEF ItemOf, kee_ledger_sign
  <2> QED
    BY <2>3 DEF Item
<1>2. CASE item \in ItemOf("BOB", ResponseSignature, RequestSignature)
  <2>1. kee_ledger_item_serialize(item, parent, mode) \in ResponseEntry
    BY <1>2 DEF ItemOf, ResponseEntry, kee_ledger_item_serialize, sign_mode,
                signature_request, signature_response
  <2>2. signature \in ResponseSignature
    BY <2>1 DEF ResponseSignature, Signed
  <2>3. kee_ledger_sign(p, head, item, parent)
          \in ItemOf("BOB", ResponseSignature, RequestSignature)
    BY <1>2, <2>2 DEF ItemOf, kee_ledger_sign
  <2> QED
    BY <2>3 DEF Item
<1> QED
  BY <1>1, <1>2 DEF Item

(* A parsed entry is an item in the reader's role.                         *)
LEMMA ParsedItem ==
  ASSUME NEW entry \in Entry, NEW role \in Roles
  PROVE  kee_ledger_parse_item(entry, role) \in Item
BY DEF Entry, Roles, Item, ItemOf, kee_ledger_parse_item, in_memory

LEMMA AddedItem ==
  ASSUME NEW role \in Roles
  PROVE  kee_ledger_add_item(role) \in Item
BY LedgerAssumption DEF Roles, Item, ItemOf, kee_ledger_add_item

LEMMA OpenedItem ==
  ASSUME NEW m \in Message, NEW p \in Party
  PROVE  kee_ledger_parse_open(m, p) \in Item
<1>1. kee_ledger_item_initiator(m.head, p) \in Roles
  BY DEF kee_ledger_item_initiator, Roles
<1> QED
  BY <1>1, ParsedItem DEF kee_ledger_parse_open, Message

LEMMA ItemRole == \A item \in Item : item.initiator \in Roles
BY DEF Item, ItemOf, Roles

(* What kee_ledger_put adds to a database is a stored ledger.              *)
LEMMA PutType ==
  ASSUME TypeOK, NEW p \in Party, NEW digest \in EntryHead, NEW head \in EntryHead,
         NEW item \in Item, NEW parent \in Parents,
         kee_ledger_put(p, digest, head, item, parent)
  PROVE  db' \in [Party -> SUBSET Stored]
<1>1. "FINAL" \in Modes
  BY DEF Modes
<1>2. kee_ledger_item_serialize(item, parent, "FINAL") \in Entry
  BY <1>1, SerializedItem
<1>3. [digest |-> digest, head |-> head, initiator |-> item.initiator,
       entry |-> kee_ledger_item_serialize(item, parent, "FINAL")] \in Stored
  BY <1>2, ItemRole DEF Stored
<1> QED
  BY <1>3 DEF kee_ledger_put, TypeOK

LEMMA GoneType ==
  ASSUME TypeOK, NEW p \in Party, Gone(p)
  PROVE  TypeOK'
BY DEF TypeOK, Gone

(* The sheet of an imported ledger.                                        *)
LEMMA SheetType ==
  ASSUME TypeOK, NEW p \in Party, NEW head \in EntryHead, NEW item \in Item
  PROVE  kee_entry_from_ledger(p, head, item) \in Sheet
<1> DEFINE stored == CHOOSE l \in db[p] : l.digest = head
           last   == IF verify_item_asn(head, stored.entry, stored.initiator)
                     THEN kee_ledger_parse_item(stored.entry, stored.initiator)
                     ELSE kee_ledger_add_item(stored.initiator)
<1>1. CASE Known(p, head)
  <2>1. stored \in Stored
    BY <1>1 DEF Known, TypeOK
  <2>2. stored.entry \in Entry /\ stored.initiator \in Roles
    BY <2>1 DEF Stored
  <2>3. last \in Item
    BY <2>2, ParsedItem, AddedItem
  <2> HIDE DEF last
  <2>4. [digest |-> head, head |-> head, item |-> last, chained |-> TRUE] \in Sheet
    BY <2>3 DEF Sheet
  <2> QED
    BY <1>1, <2>4 DEF kee_entry_from_ledger, last
<1>2. CASE ~Known(p, head)
  BY <1>2 DEF kee_entry_from_ledger, Sheet
<1> QED
  BY <1>1, <1>2

-----------------------------------------------------------------------------
LEMMA TypeInit == Init => TypeOK
BY DEF Init, TypeOK

LEMMA TypeAdd ==
  ASSUME TypeOK, NEW p \in Party, NEW bob \in Key, NEW terms \in Terms, NEW delta \in Delta,
         Add(p, bob, terms, delta)
  PROVE  TypeOK'
<1> DEFINE head   == [alice |-> p, bob |-> bob, terms |-> terms]
           parent == parent_of(form[p] = "used")
           item   == [kee_ledger_add_item("ALICE") EXCEPT !.delta = delta]
           signed == kee_ledger_sign(p, head, item, parent)
           entry  == kee_ledger_item_serialize(signed, parent, "RESPONSE")
<1>1. head \in EntryHead
  BY DEF EntryHead, Key
<1>2. parent \in Parents /\ "RESPONSE" \in Modes
  BY DEF parent_of, Parents, Modes
<1>3. item \in Item
  BY LedgerAssumption DEF Item, ItemOf, kee_ledger_add_item
<1>4. signed \in Item
  BY <1>1, <1>2, <1>3, SignedItem
<1>5. entry \in Entry
  BY <1>2, <1>4, SerializedItem
<1> HIDE DEF head, parent, item, signed, entry
<1>6. [head |-> head, entry |-> entry] \in Message
  BY <1>1, <1>5 DEF Message
<1>7. rendering' = [rendering EXCEPT ![p] = [head |-> head, entry |-> entry]]
  BY DEF Add, head, parent, item, signed, entry
<1> QED
  BY <1>6, <1>7 DEF Add, TypeOK, Form

LEMMA TypeRender ==
  ASSUME TypeOK, NEW p \in Party, Render(p)
  PROVE  TypeOK'
BY DEF TypeOK, Render

LEMMA TypeImportFinal ==
  ASSUME TypeOK, NEW p \in Party, NEW m \in net, ImportFinal(p, m)
  PROVE  TypeOK'
<1> DEFINE item == kee_ledger_parse_open(m, p)
<1>1. m \in Message /\ m.head \in EntryHead
  BY DEF TypeOK, Message
<1>2. item \in Item /\ "zero" \in Parents
  BY <1>1, OpenedItem DEF Parents
<1>3. CASE put_ok(p, m.head)
  <2>1. /\ kee_ledger_put(p, m.head, m.head, item, "zero")
        /\ UNCHANGED <<running, form, sheet, rendering, net>>
    BY <1>3 DEF ImportFinal
  <2>2. db' \in [Party -> SUBSET Stored]
    BY <1>1, <1>2, <2>1, PutType
  <2> QED
    BY <2>1, <2>2 DEF TypeOK
<1>4. CASE ~put_ok(p, m.head)
  BY <1>4, GoneType DEF ImportFinal
<1> QED
  BY <1>3, <1>4

LEMMA TypeImportResponse ==
  ASSUME TypeOK, NEW p \in Party, NEW m \in net, ImportResponse(p, m)
  PROVE  TypeOK'
<1> DEFINE item == kee_ledger_parse_open(m, p)
<1>1. m \in Message /\ m.head \in EntryHead
  BY DEF TypeOK, Message
<1>2. item \in Item
  BY <1>1, OpenedItem
<1>3. kee_entry_from_ledger(p, m.head, item) \in Sheet
  BY <1>1, <1>2, SheetType
<1> HIDE DEF item
<1>4. CASE dn_lookup_ok(p)
  BY <1>3, <1>4 DEF ImportResponse, TypeOK, item
<1>5. CASE ~dn_lookup_ok(p)
  BY <1>5, GoneType DEF ImportResponse
<1> QED
  BY <1>4, <1>5

(* What a confirmation that goes through does, with its parts named.       *)
confirm_head(s, p) == [s.head EXCEPT !.alice = p]
confirm_item(s, p) == kee_ledger_sign(p, confirm_head(s, p), s.item, parent_of(s.chained))
confirm_message(s, p) ==
  [head |-> confirm_head(s, p),
   entry |-> kee_ledger_item_serialize(confirm_item(s, p), parent_of(s.chained), "RESPONSE")]

LEMMA ConfirmedOrGone ==
  ASSUME NEW p \in Party, Confirm(p)
  PROVE  \/ Gone(p)
         \/ /\ ~already_signed(sheet[p].item)
            /\ put_ok(p, sheet[p].digest)
            /\ kee_ledger_put(p, sheet[p].digest, confirm_head(sheet[p], p),
                              confirm_item(sheet[p], p), parent_of(sheet[p].chained))
            /\ sheet' = [sheet EXCEPT ![p] =
                 [sheet[p] EXCEPT !.head = confirm_head(sheet[p], p),
                                  !.item = confirm_item(sheet[p], p)]]
            /\ rendering' = [rendering EXCEPT ![p] = confirm_message(sheet[p], p)]
            /\ UNCHANGED <<running, form, net>>
BY DEF Confirm, confirm_head, confirm_item, confirm_message

LEMMA ConfirmType ==
  ASSUME NEW p \in Party, NEW s \in Sheet
  PROVE  /\ confirm_head(s, p) \in EntryHead
         /\ confirm_item(s, p) \in Item
         /\ confirm_message(s, p) \in Message
         /\ parent_of(s.chained) \in Parents
<1>1. parent_of(s.chained) \in Parents /\ "RESPONSE" \in Modes
  BY DEF parent_of, Parents, Modes
<1>2. confirm_head(s, p) \in EntryHead
  BY DEF confirm_head, Sheet, EntryHead, Key
<1>3. s.item \in Item
  BY DEF Sheet
<1>4. confirm_item(s, p) \in Item
  BY <1>1, <1>2, <1>3, SignedItem DEF confirm_item
<1>5. confirm_message(s, p) \in Message
  BY <1>1, <1>2, <1>4, SerializedItem DEF confirm_message, Message
<1> QED
  BY <1>1, <1>2, <1>4, <1>5

LEMMA TypeConfirm ==
  ASSUME TypeOK, NEW p \in Party, Confirm(p)
  PROVE  TypeOK'
<1>1. CASE Gone(p)
  BY <1>1, GoneType
<1>2. CASE ~Gone(p)
  <2> DEFINE s == sheet[p]
             head == confirm_head(s, p)
             item == confirm_item(s, p)
  <2>1. s \in Sheet /\ s.digest \in EntryHead
    BY DEF Confirm, TypeOK, Sheet
  <2>2. head \in EntryHead /\ item \in Item /\ parent_of(s.chained) \in Parents
    BY <2>1, ConfirmType
  <2>3. /\ kee_ledger_put(p, s.digest, head, item, parent_of(s.chained))
        /\ sheet' = [sheet EXCEPT ![p] = [s EXCEPT !.head = head, !.item = item]]
        /\ rendering' = [rendering EXCEPT ![p] = confirm_message(s, p)]
        /\ UNCHANGED <<running, form, net>>
    BY <1>2, ConfirmedOrGone
  <2>4. db' \in [Party -> SUBSET Stored]
    BY <2>1, <2>2, <2>3, PutType
  <2>5. [s EXCEPT !.head = head, !.item = item] \in Sheet
    BY <2>1, <2>2 DEF Sheet
  <2>6. confirm_message(s, p) \in Message
    BY <2>1, ConfirmType
  <2> HIDE DEF s, head, item
  <2> QED
    BY <2>3, <2>4, <2>5, <2>6 DEF TypeOK
<1> QED
  BY <1>1, <1>2

LEMMA TypeCliSign ==
  ASSUME TypeOK, NEW p \in Party, NEW m \in net, CliSign(p, m)
  PROVE  TypeOK'
<1> DEFINE item == kee_ledger_sign(p, m.head, kee_ledger_parse_open(m, p), "zero")
<1>1. m \in Message /\ m.head \in EntryHead /\ "zero" \in Parents /\ "FINAL" \in Modes
  BY DEF TypeOK, Message, Parents, Modes
<1>2. item \in Item
  BY <1>1, OpenedItem, SignedItem
<1>3. kee_ledger_item_serialize(item, "zero", "FINAL") \in Entry
  BY <1>1, <1>2, SerializedItem
<1>4. [head |-> m.head, entry |-> kee_ledger_item_serialize(item, "zero", "FINAL")] \in Message
  BY <1>1, <1>3 DEF Message
<1> HIDE DEF item
<1>5. net' = net \cup
        {[head |-> m.head, entry |-> kee_ledger_item_serialize(item, "zero", "FINAL")]}
  BY DEF CliSign, item
<1> QED
  BY <1>4, <1>5 DEF CliSign, TypeOK

LEMMA TypeNext == TypeOK /\ [Next]_vars => TypeOK'
<1> SUFFICES ASSUME TypeOK, [Next]_vars
             PROVE  TypeOK'
  OBVIOUS
<1>1. ASSUME NEW p \in Party, Unlock(p)
      PROVE  TypeOK'
  BY <1>1 DEF TypeOK, Unlock
<1>2. ASSUME NEW p \in Party, NewEntry(p)
      PROVE  TypeOK'
  BY <1>2 DEF TypeOK, NewEntry, Form
<1>3. ASSUME NEW p \in Party, Stop(p)
      PROVE  TypeOK'
  BY <1>3, GoneType DEF Stop
<1>4. CASE UNCHANGED vars
  BY <1>4 DEF TypeOK, vars
<1> QED
  BY <1>1, <1>2, <1>3, <1>4, TypeAdd, TypeRender, TypeImportFinal, TypeImportResponse,
     TypeConfirm, TypeCliSign DEF Next

(* Every value that the handlers and the signer pass on is of its type:    *)
(* in particular a request signature never ends up where a response        *)
(* signature belongs, whoever reads, signs or stores the item.             *)
THEOREM TypeCorrect == Spec => []TypeOK
BY TypeInit, TypeNext, PTL DEF Spec

-----------------------------------------------------------------------------
(* What a step leaves in place: databases and the set of transports only   *)
(* grow, so that what an invariant found in them is still there.           *)
Grown == net \subseteq net' /\ \A p \in Party : db[p] \subseteq db'[p]

(* What holds of the databases by themselves.                              *)
StoredInv ==
  /\ StoredDeltaWasRequested
  /\ StoredTermsWereRequested
  /\ RecordedIsCountersigned
  /\ OneRecordPerLedger

LEMMA ConfirmationKept ==
  ASSUME Grown, NEW m, m.head.alice \in Party, ConfirmationStored(m)
  PROVE  ConfirmationStored(m)'
BY DEF Grown, ConfirmationStored

LEMMA WalletKept ==
  ASSUME Grown, NEW p \in Party, WalletInv(p),
         rendering'[p] = rendering[p] \/ rendering'[p] = NoMessage,
         sheet'[p] = sheet[p] \/ sheet'[p] = NoSheet
  PROVE  WalletInv(p)'
<1>1. ASSUME NEW m, m = rendering'[p], m # NoMessage
      PROVE  RenderingInv(p, m)' /\ ConfirmationStored(m)'
  <2>1. m = rendering[p]
    BY <1>1
  <2>2. RenderingInv(p, m) /\ ConfirmationStored(m)
    BY <1>1, <2>1 DEF WalletInv
  <2>3. ConfirmationStored(m)'
    BY <2>2, ConfirmationKept DEF RenderingInv
  <2>4. RenderingInv(p, m)'
    BY <2>2 DEF RenderingInv, Grown, RequestKept, same_terms
  <2> QED
    BY <2>3, <2>4
<1>2. ASSUME NEW s, s = sheet'[p], s # NoSheet
      PROVE  SheetInv(p, s)'
  <2>1. SheetInv(p, s)
    BY <1>2 DEF WalletInv
  <2> QED
    BY <2>1 DEF SheetInv, Known, Grown, same_terms
<1> QED
  BY <1>1, <1>2 DEF WalletInv, RenderingInv, ConfirmationStored, SheetInv, Known, RequestKept,
       same_terms

LEMMA NetKept ==
  ASSUME Grown, NEW m, NetInv(m), ConfirmationStored(m)
  PROVE  NetInv(m)' /\ ConfirmationStored(m)'
BY ConfirmationKept DEF NetInv, RequestKept, same_terms

(* A step that changes neither database nor transports and loads no sheet. *)
LEMMA QuietStep ==
  ASSUME ExchangeInv, TypeOK', UNCHANGED <<db, net>>,
         \A p \in Party : rendering'[p] = rendering[p] \/ rendering'[p] = NoMessage,
         \A p \in Party : sheet'[p] = sheet[p] \/ sheet'[p] = NoSheet
  PROVE  ExchangeInv'
<1>1. Grown
  BY DEF Grown
<1>2. \A p \in Party : WalletInv(p)'
  BY <1>1, WalletKept DEF ExchangeInv
<1>3. \A m \in net' : NetInv(m)' /\ ConfirmationStored(m)'
  BY <1>1, NetKept DEF ExchangeInv
<1>4. StoredInv'
  BY DEF ExchangeInv, StoredInv, StoredDeltaWasRequested,
         StoredTermsWereRequested, RecordedIsCountersigned, OneRecordPerLedger, Recorded
<1> QED
  BY <1>2, <1>3, <1>4 DEF ExchangeInv, StoredInv

LEMMA GoneInv ==
  ASSUME ExchangeInv, NEW p \in Party, Gone(p)
  PROVE  ExchangeInv'
<1>1. TypeOK'
  BY GoneType DEF ExchangeInv
<1>2. \A q \in Party : /\ rendering'[q] = rendering[q] \/ rendering'[q] = NoMessage
                       /\ sheet'[q] = sheet[q] \/ sheet'[q] = NoSheet
  BY DEF Gone, ExchangeInv, TypeOK
<1> QED
  BY <1>1, <1>2, QuietStep DEF Gone

-----------------------------------------------------------------------------
(* The steps that make, read and store signatures.                         *)

LEMMA SignedRequest ==
  ASSUME NEW p \in Party, NEW head \in EntryHead, NEW delta \in Delta, NEW parent \in Parents,
         NEW entry,
         entry = kee_ledger_item_serialize(
                   kee_ledger_sign(p, head,
                     [kee_ledger_add_item("ALICE") EXCEPT !.delta = delta], parent),
                   parent, "RESPONSE")
  PROVE  /\ RequestKept(head, entry)
         /\ entry.sigRequest.signer = p
         /\ entry.sigResponse = Absent
<1> DEFINE item    == [kee_ledger_add_item("ALICE") EXCEPT !.delta = delta]
           request == kee_ledger_item_serialize(item, parent, "REQUEST")
           signed  == kee_ledger_sign(p, head, item, parent)
<1>1. item.initiator = "ALICE" /\ item.delta = delta /\ item.response = FALSE
  BY DEF kee_ledger_add_item
<1>2. request \in RequestEntry /\ request.delta = delta
  BY <1>1 DEF kee_ledger_item_serialize, RequestEntry
<1>3. /\ signed.initiator = "ALICE"
      /\ signed.delta = delta
      /\ signed.alice_signature = Signed(p, head, request)
  BY <1>1 DEF kee_ledger_sign, sign_mode, kee_ledger_add_item
<1> HIDE DEF request
<1>4. Signed(p, head, request) \in RequestSignature
  BY <1>2 DEF Signed, RequestSignature
<1>5. entry = kee_ledger_item_serialize(signed, parent, "RESPONSE")
  OBVIOUS
<1> HIDE DEF signed
<1>6. /\ entry.sigRequest = Signed(p, head, request)
      /\ entry.sigResponse = Absent
      /\ entry.delta = delta
  BY <1>3, <1>5 DEF kee_ledger_item_serialize, signature_request
<1> QED
  BY <1>2, <1>4, <1>6 DEF RequestKept, same_terms, Signed

(* A response signature, made by the holder p of an item that BOB, as p    *)
(* reads it, initiated.                                                    *)
LEMMA SignedResponse ==
  ASSUME NEW p \in Party, NEW head \in EntryHead, NEW parent \in Parents,
         NEW item \in Item, item.initiator = "BOB",
         NEW signed, signed = kee_ledger_sign(p, head, item, parent)
  PROVE  /\ signed.initiator = "BOB"
         /\ signed.delta = item.delta
         /\ signed.response = item.response
         /\ signed.bob_signature = item.bob_signature
         /\ signed.alice_signature =
              Signed(p, head, [parent |-> parent, delta |-> item.delta,
                               response |-> item.response,
                               sigRequest |-> item.bob_signature, sigResponse |-> Absent])
         /\ signed.alice_signature \notin {Absent, Zeroes}
<1>1. item \in ItemOf("BOB", ResponseSignature, RequestSignature)
  BY DEF Item, ItemOf
<1> DEFINE response == [parent |-> parent, delta |-> item.delta, response |-> item.response,
                        sigRequest |-> item.bob_signature, sigResponse |-> Absent]
<1>2. kee_ledger_item_serialize(item, parent, "RESPONSE") = response
  BY <1>1 DEF ItemOf, kee_ledger_item_serialize, signature_request
<1>3. response \in ResponseEntry
  BY <1>1 DEF ItemOf, ResponseEntry
<1> HIDE DEF response
<1>4. Signed(p, head, response) \in ResponseSignature
  BY <1>3 DEF Signed, ResponseSignature
<1>5. signed = [item EXCEPT !.alice_signature = Signed(p, head, response)]
  BY <1>2 DEF kee_ledger_sign, sign_mode
<1> QED
  BY <1>1, <1>4, <1>5, LedgerAssumption DEF ItemOf, response

(* A circulating entry, as it is read: the request signature is in the     *)
(* initiator's slot, the response signature in the other one.              *)
LEMMA OpenedFields ==
  ASSUME NEW m \in Message, NEW p \in Party, RequestKept(m.head, m.entry),
         NEW item, item = kee_ledger_parse_open(m, p)
  PROVE  /\ item.initiator = kee_ledger_item_initiator(m.head, p)
         /\ item.delta = m.entry.delta
         /\ item.response = m.entry.response
         /\ signature_request(item) = m.entry.sigRequest
         /\ signature_response(item) = in_memory(m.entry.sigResponse)
         /\ item.initiator = "BOB" => item.alice_signature = in_memory(m.entry.sigResponse)
         /\ item.initiator = "BOB" => item.bob_signature = m.entry.sigRequest
         /\ item.initiator = "ALICE" => item.alice_signature = m.entry.sigRequest
         /\ item.initiator = "ALICE" => already_signed(item)
<1>1. m.entry.sigRequest \notin {Absent, Zeroes}
  BY LedgerAssumption DEF RequestKept
<1>2. kee_ledger_item_initiator(m.head, p) \in {"ALICE", "BOB"}
  BY DEF kee_ledger_item_initiator
<1> QED
  BY <1>1, <1>2 DEF kee_ledger_parse_open, kee_ledger_parse_item, in_memory,
       signature_request, signature_response, already_signed

LEMMA InvAdd ==
  ASSUME ExchangeInv, NEW p \in Party, NEW bob \in Key, NEW terms \in Terms,
         NEW delta \in Delta, Add(p, bob, terms, delta)
  PROVE  ExchangeInv'
<1> DEFINE head   == [alice |-> p, bob |-> bob, terms |-> terms]
           parent == parent_of(form[p] = "used")
           entry  == kee_ledger_item_serialize(
                       kee_ledger_sign(p, head,
                         [kee_ledger_add_item("ALICE") EXCEPT !.delta = delta], parent),
                       parent, "RESPONSE")
<1>1. TypeOK'
  BY TypeAdd DEF ExchangeInv
<1>2. head \in EntryHead /\ parent \in Parents /\ head.alice = p
  BY DEF EntryHead, Key, parent_of, Parents
<1>3. RequestKept(head, entry) /\ entry.sigRequest.signer = p /\ entry.sigResponse = Absent
  BY <1>2, SignedRequest
<1>4. /\ rendering' = [rendering EXCEPT ![p] = [head |-> head, entry |-> entry]]
      /\ UNCHANGED <<running, db, sheet, net>>
  BY DEF Add
<1> HIDE DEF head, parent, entry
<1>5. /\ rendering'[p] = [head |-> head, entry |-> entry]
      /\ \A q \in Party \ {p} : rendering'[q] = rendering[q]
  BY <1>4 DEF ExchangeInv, TypeOK
<1>6. ASSUME NEW m, m = rendering'[p]
      PROVE  RenderingInv(p, m)' /\ ConfirmationStored(m)'
  BY <1>2, <1>3, <1>5, <1>6 DEF RenderingInv, ConfirmationStored, RequestKept,
       same_terms
<1>7. Grown
  BY <1>4 DEF Grown
<1>8. \A q \in Party \ {p} : WalletInv(q)'
  BY <1>4, <1>5, <1>7, WalletKept DEF ExchangeInv
<1>9. ASSUME NEW s, s = sheet'[p], s # NoSheet
      PROVE  SheetInv(p, s)'
  BY <1>4, <1>9 DEF ExchangeInv, WalletInv, SheetInv, Known, same_terms
<1>10. WalletInv(p)'
  BY <1>6, <1>9 DEF WalletInv, RenderingInv, ConfirmationStored, SheetInv, Known, RequestKept,
       same_terms
<1>11. \A n \in net' : NetInv(n)' /\ ConfirmationStored(n)'
  BY <1>4, <1>7, NetKept DEF ExchangeInv
<1>12. StoredInv'
  BY <1>4 DEF ExchangeInv, StoredInv, StoredDeltaWasRequested,
              StoredTermsWereRequested, RecordedIsCountersigned, OneRecordPerLedger, Recorded
<1> QED
  BY <1>1, <1>8, <1>10, <1>11, <1>12 DEF ExchangeInv, StoredInv

LEMMA InvRender ==
  ASSUME ExchangeInv, NEW p \in Party, Render(p)
  PROVE  ExchangeInv'
<1>1. TypeOK'
  BY TypeRender DEF ExchangeInv
<1>2. Grown
  BY DEF Render, Grown
<1>3. \A q \in Party : rendering'[q] = rendering[q] \/ rendering'[q] = NoMessage
  BY DEF Render, ExchangeInv, TypeOK
<1>4. \A q \in Party : WalletInv(q)'
  BY <1>2, <1>3, WalletKept DEF ExchangeInv, Render
<1>5. ASSUME NEW m, m = rendering[p]
      PROVE  NetInv(m)' /\ ConfirmationStored(m)'
  <2>1. RenderingInv(p, m) /\ ConfirmationStored(m)
    BY <1>5 DEF Render, ExchangeInv, WalletInv
  <2>2. NetInv(m)
    BY <2>1 DEF RenderingInv, NetInv
  <2> QED
    BY <1>2, <2>1, <2>2, NetKept
<1>6. ASSUME NEW m \in net
      PROVE  NetInv(m)' /\ ConfirmationStored(m)'
  BY <1>2, NetKept DEF ExchangeInv
<1>7. \A m \in net' : NetInv(m)' /\ ConfirmationStored(m)'
  BY <1>5, <1>6 DEF Render
<1>8. StoredInv'
  BY DEF Render, ExchangeInv, StoredInv, StoredDeltaWasRequested,
         StoredTermsWereRequested, RecordedIsCountersigned, OneRecordPerLedger, Recorded
<1> QED
  BY <1>1, <1>4, <1>7, <1>8 DEF ExchangeInv, StoredInv

-----------------------------------------------------------------------------
(* The steps that write a database.                                        *)

(* The record that kee_ledger_put adds.                                    *)
put_record(digest, head, item, parent) ==
  [digest |-> digest, head |-> head, initiator |-> item.initiator,
   entry |-> kee_ledger_item_serialize(item, parent, "FINAL")]

Countersigned(l) ==
  /\ l.head = l.digest
  /\ l.entry.sigResponse = Signed(l.digest.bob, l.digest, get_message_asn(l.entry))

LEMMA PutGrows ==
  ASSUME TypeOK, NEW p \in Party, NEW l, db' = [db EXCEPT ![p] = @ \cup {l}], net \subseteq net'
  PROVE  Grown /\ db'[p] = db[p] \cup {l} /\ \A q \in Party \ {p} : db'[q] = db[q]
BY DEF TypeOK, Grown

LEMMA PutInv ==
  ASSUME ExchangeInv, NEW p \in Party, NEW l,
         db'[p] = db[p] \cup {l}, \A q \in Party \ {p} : db'[q] = db[q],
         put_ok(p, l.digest), RequestKept(l.digest, l.entry), l.digest.alice = p => Countersigned(l)
  PROVE  StoredInv'
<1>1. \A q \in Party : \A k \in db'[q] : k \in db[q] \/ (q = p /\ k = l)
  OBVIOUS
<1>2. StoredDeltaWasRequested'
  BY <1>1 DEF ExchangeInv, StoredDeltaWasRequested, RequestKept
<1>3. RecordedIsCountersigned'
  BY <1>1 DEF ExchangeInv, RecordedIsCountersigned, Recorded, Countersigned
<1>4. OneRecordPerLedger'
  BY <1>1 DEF ExchangeInv, OneRecordPerLedger, put_ok, Known
<1>5. StoredTermsWereRequested'
  BY <1>1 DEF ExchangeInv, StoredTermsWereRequested, RequestKept, same_terms
<1> QED
  BY <1>2, <1>3, <1>4, <1>5 DEF StoredInv

(* A final item is stored as it circulates.                                *)
LEMMA FinalStored ==
  ASSUME NEW m \in Message, NEW p \in Party, NetInv(m), NEW item,
         item = kee_ledger_parse_open(m, p), kee_ledger_item_state(item) = "FINAL"
  PROVE  /\ kee_ledger_item_serialize(item, "zero", "FINAL") = m.entry
         /\ m.entry.sigResponse # Absent
<1>1. /\ item.delta = m.entry.delta
      /\ item.response = m.entry.response
      /\ signature_request(item) = m.entry.sigRequest
      /\ signature_response(item) = in_memory(m.entry.sigResponse)
  BY OpenedFields DEF NetInv
<1>2. m.entry.sigResponse # Absent
  BY <1>1 DEF kee_ledger_item_state, in_memory
<1>3. m.entry.parent = "zero" /\ m.entry \in Entry
  BY <1>2 DEF NetInv, Message
<1>4. kee_ledger_item_serialize(item, "zero", "FINAL") =
        [parent |-> "zero", delta |-> m.entry.delta, response |-> m.entry.response,
         sigRequest |-> m.entry.sigRequest, sigResponse |-> m.entry.sigResponse]
  BY <1>1, <1>2, <1>3 DEF kee_ledger_item_serialize, in_memory, Entry
<1> QED
  BY <1>2, <1>3, <1>4 DEF Entry

LEMMA InvImportFinal ==
  ASSUME ExchangeInv, NEW p \in Party, NEW m \in net, ImportFinal(p, m)
  PROVE  ExchangeInv'
<1>1. CASE ~put_ok(p, m.head)
  BY <1>1, GoneInv DEF ImportFinal
<1>2. CASE put_ok(p, m.head)
  <2> DEFINE item == kee_ledger_parse_open(m, p)
             l    == put_record(m.head, m.head, item, "zero")
  <2>1. TypeOK'
    BY TypeImportFinal DEF ExchangeInv
  <2>2. m \in Message /\ NetInv(m)
    BY DEF ExchangeInv, TypeOK
  <2>3. /\ db' = [db EXCEPT ![p] = @ \cup {l}]
        /\ UNCHANGED <<running, form, sheet, rendering, net>>
    BY <1>2 DEF ImportFinal, kee_ledger_put, put_record
  <2>4. l.digest = m.head /\ l.head = m.head /\ l.entry = m.entry
        /\ m.entry.sigResponse # Absent
    BY <2>2, FinalStored DEF put_record, ImportFinal
  <2> HIDE DEF l
  <2>5. Grown /\ db'[p] = db[p] \cup {l} /\ \A q \in Party \ {p} : db'[q] = db[q]
    BY <2>3, PutGrows DEF ExchangeInv
  <2>6. ASSUME l.digest.alice = p
        PROVE  Countersigned(l)
    <3>1. verify_item_asn(m.head, m.entry, "ALICE")
      BY <2>4, <2>6 DEF ImportFinal, parse_open_ok, kee_ledger_item_initiator
    <3> QED
      BY <2>4, <3>1 DEF verify_item_asn, pubkey_last, Countersigned
  <2>7. RequestKept(l.digest, l.entry)
    BY <2>2, <2>4 DEF NetInv
  <2>8. StoredInv'
    BY <1>2, <2>4, <2>5, <2>6, <2>7, PutInv
  <2>9. \A q \in Party : WalletInv(q)'
    BY <2>3, <2>5, WalletKept DEF ExchangeInv
  <2>10. \A n \in net' : NetInv(n)' /\ ConfirmationStored(n)'
    BY <2>3, <2>5, NetKept DEF ExchangeInv
  <2> QED
    BY <2>1, <2>8, <2>9, <2>10 DEF ExchangeInv, StoredInv
<1> QED
  BY <1>1, <1>2

LEMMA InvImportResponse ==
  ASSUME ExchangeInv, NEW p \in Party, NEW m \in net, ImportResponse(p, m)
  PROVE  ExchangeInv'
<1>1. CASE ~dn_lookup_ok(p)
  BY <1>1, GoneInv DEF ImportResponse
<1>2. CASE dn_lookup_ok(p)
  <2> DEFINE item == kee_ledger_parse_open(m, p)
  <2>1. TypeOK'
    BY TypeImportResponse DEF ExchangeInv
  <2>2. m \in Message /\ NetInv(m)
    BY DEF ExchangeInv, TypeOK
  <2>3. /\ sheet' = [sheet EXCEPT ![p] = kee_entry_from_ledger(p, m.head, item)]
        /\ UNCHANGED <<running, db, form, rendering, net>>
    BY <1>2 DEF ImportResponse
  <2>4. /\ sheet'[p] = kee_entry_from_ledger(p, m.head, item)
        /\ \A q \in Party \ {p} : sheet'[q] = sheet[q]
    BY <2>3 DEF ExchangeInv, TypeOK
  <2>5. /\ signature_request(item) = m.entry.sigRequest
        /\ item.delta = m.entry.delta
        /\ m.head.alice = p => item.initiator = "ALICE"
    BY <2>2, OpenedFields DEF NetInv, kee_ledger_item_initiator
  <2> HIDE DEF item
  <2>6. ASSUME NEW s, s = sheet'[p]
        PROVE  SheetInv(p, s)'
    <3>1. CASE Known(p, m.head)
      <4>1. s.chained /\ s.digest = m.head
        BY <2>4, <2>6, <3>1 DEF kee_entry_from_ledger
      <4> QED
        BY <2>3, <3>1, <4>1 DEF SheetInv, Known
    <3>2. CASE ~Known(p, m.head)
      <4>1. s = [digest |-> m.head, head |-> m.head, item |-> item, chained |-> FALSE]
        BY <2>4, <2>6, <3>2 DEF kee_entry_from_ledger
      <4> QED
        BY <2>2, <2>3, <2>5, <4>1 DEF SheetInv, NetInv, RequestKept, same_terms
    <3> QED
      BY <3>1, <3>2
  <2>7. Grown
    BY <2>3 DEF Grown
  <2>8. \A q \in Party \ {p} : WalletInv(q)'
    BY <2>3, <2>4, <2>7, WalletKept DEF ExchangeInv
  <2>9. WalletInv(p)'
    <3>1. rendering'[p] = NoMessage
      BY <2>3 DEF ImportResponse, Idle
    <3> QED
      BY <2>6, <3>1 DEF WalletInv, SheetInv, Known, same_terms
  <2>10. \A n \in net' : NetInv(n)' /\ ConfirmationStored(n)'
    BY <2>3, <2>7, NetKept DEF ExchangeInv
  <2>11. StoredInv'
    BY <2>3 DEF ExchangeInv, StoredInv, StoredDeltaWasRequested,
                StoredTermsWereRequested, RecordedIsCountersigned, OneRecordPerLedger, Recorded
  <2> QED
    BY <2>1, <2>8, <2>9, <2>10, <2>11 DEF ExchangeInv, StoredInv
<1> QED
  BY <1>1, <1>2

(* What p signs when it confirms: an item that is not in the database, in  *)
(* bob's role, so of a ledger that does not name p as its requester.       *)
LEMMA ConfirmedItem ==
  ASSUME ExchangeInv, NEW p \in Party, Confirm(p), ~Gone(p),
         NEW s, s = sheet[p]
  PROVE  /\ s \in Sheet
         /\ s.item.initiator = "BOB"
         /\ s.digest.alice # p
         /\ ~s.chained
         /\ SheetInv(p, s)
<1>1. s \in Sheet /\ SheetInv(p, s)
  BY DEF Confirm, ExchangeInv, WalletInv, TypeOK
<1>2. ~already_signed(s.item) /\ put_ok(p, s.digest)
  BY ConfirmedOrGone
<1>3. ~s.chained
  BY <1>1, <1>2 DEF SheetInv, put_ok
<1>4. \E n \in net : n.entry.sigRequest = signature_request(s.item) /\ NetInv(n)
  BY <1>1, <1>3 DEF SheetInv, ExchangeInv
<1>5. signature_request(s.item) # Zeroes
  BY <1>4, LedgerAssumption DEF NetInv, RequestKept
<1>6. s.item.initiator # "ALICE"
  BY <1>2, <1>5 DEF already_signed, signature_request
<1>7. s.item.initiator = "BOB"
  BY <1>1, <1>6, ItemRole DEF Sheet, Roles
<1> QED
  BY <1>1, <1>3, <1>6, <1>7 DEF SheetInv

(* The item that a confirmation signs.                                     *)
LEMMA ConfirmedSigned ==
  ASSUME NEW p \in Party, NEW s \in Sheet, s.item.initiator = "BOB",
         NEW signed, signed = confirm_item(s, p)
  PROVE  /\ signed.initiator = "BOB"
         /\ signed.delta = s.item.delta
         /\ signed.bob_signature = s.item.bob_signature
         /\ signed.alice_signature # Zeroes
         /\ signed.alice_signature.signer = p
<1> DEFINE item == s.item
           head == confirm_head(s, p)
           parent == parent_of(s.chained)
<1>1. item \in Item /\ head \in EntryHead /\ parent \in Parents /\ item.initiator = "BOB"
  BY ConfirmType DEF Sheet
<1>2. signed = kee_ledger_sign(p, head, item, parent)
  BY DEF confirm_item
<1> HIDE DEF item, head, parent
<1>3. /\ signed.initiator = "BOB"
      /\ signed.delta = item.delta
      /\ signed.bob_signature = item.bob_signature
      /\ signed.alice_signature =
           Signed(p, head, [parent |-> parent, delta |-> item.delta,
                            response |-> item.response,
                            sigRequest |-> item.bob_signature, sigResponse |-> Absent])
      /\ signed.alice_signature # Zeroes
  BY <1>1, <1>2, SignedResponse
<1> QED
  BY <1>3 DEF Signed, item

(* The record and the transport of a confirmation.                         *)
LEMMA ConfirmedEntries ==
  ASSUME NEW p \in Party, NEW s \in Sheet, s.item.initiator = "BOB",
         NEW l, l = put_record(s.digest, confirm_head(s, p), confirm_item(s, p),
                               parent_of(s.chained)),
         NEW m, m = confirm_message(s, p)
  PROVE  /\ l.digest = s.digest
         /\ l.head = m.head
         /\ m.head.alice = p
         /\ same_terms(m.head, s.head)
         /\ l.entry.sigRequest = s.item.bob_signature
         /\ m.entry.sigRequest = s.item.bob_signature
         /\ l.entry.delta = s.item.delta
         /\ m.entry.delta = s.item.delta
         /\ m.entry.sigResponse = Absent
         /\ l.entry.sigResponse # Zeroes
         /\ l.entry.sigResponse.signer = p
<1> DEFINE signed == confirm_item(s, p)
<1>1. /\ signed.initiator = "BOB"
      /\ signed.delta = s.item.delta
      /\ signed.bob_signature = s.item.bob_signature
      /\ signed.alice_signature # Zeroes
      /\ signed.alice_signature.signer = p
  BY ConfirmedSigned
<1> HIDE DEF signed
<1>2. /\ l.digest = s.digest
      /\ l.head = confirm_head(s, p)
      /\ l.entry = kee_ledger_item_serialize(signed, parent_of(s.chained), "FINAL")
  BY DEF put_record, signed
<1>3. /\ m.head = confirm_head(s, p)
      /\ m.entry = kee_ledger_item_serialize(signed, parent_of(s.chained), "RESPONSE")
  BY DEF confirm_message, signed
<1>4. confirm_head(s, p).alice = p /\ same_terms(confirm_head(s, p), s.head)
  BY DEF confirm_head, Sheet, EntryHead, same_terms
<1> QED
  BY <1>1, <1>2, <1>3, <1>4 DEF kee_ledger_item_serialize, signature_request,
                                signature_response

LEMMA InvConfirm ==
  ASSUME ExchangeInv, NEW p \in Party, Confirm(p)
  PROVE  ExchangeInv'
<1>1. CASE Gone(p)
  BY <1>1, GoneInv
<1>2. CASE ~Gone(p)
  <2>1. TypeOK'
    BY TypeConfirm DEF ExchangeInv
  <2>2. PICK s : s = sheet[p]
    OBVIOUS
  <2>3. PICK m : m = confirm_message(s, p)
    OBVIOUS
  <2>4. PICK l : l = put_record(s.digest, confirm_head(s, p), confirm_item(s, p),
                                parent_of(s.chained))
    OBVIOUS
  <2>5. PICK t : t = [s EXCEPT !.head = confirm_head(s, p), !.item = confirm_item(s, p)]
    OBVIOUS
  <2>6. /\ put_ok(p, s.digest)
        /\ db' = [db EXCEPT ![p] = @ \cup {l}]
        /\ sheet' = [sheet EXCEPT ![p] = t]
        /\ rendering' = [rendering EXCEPT ![p] = m]
        /\ UNCHANGED <<running, form, net>>
    BY <1>2, <2>2, <2>3, <2>4, <2>5, ConfirmedOrGone DEF kee_ledger_put, put_record
  <2>7. /\ s \in Sheet
        /\ s.item.initiator = "BOB"
        /\ s.digest.alice # p
        /\ ~s.chained
        /\ SheetInv(p, s)
    BY <1>2, <2>2, ConfirmedItem
  <2>8. /\ l.digest = s.digest
        /\ l.head = m.head
        /\ m.head.alice = p
        /\ same_terms(m.head, s.head)
        /\ l.entry.sigRequest = s.item.bob_signature
        /\ m.entry.sigRequest = s.item.bob_signature
        /\ l.entry.delta = s.item.delta
        /\ m.entry.delta = s.item.delta
        /\ m.entry.sigResponse = Absent
        /\ l.entry.sigResponse # Zeroes
        /\ l.entry.sigResponse.signer = p
    BY <2>3, <2>4, <2>7, ConfirmedEntries
  <2>9. /\ \E n \in net : n.entry.sigRequest = s.item.bob_signature
        /\ s.item.bob_signature \in RequestSignature
        /\ s.item.bob_signature.entry.delta = s.item.delta
        /\ same_terms(s.item.bob_signature.digest, s.digest) /\ same_terms(s.head, s.digest)
    BY <2>7 DEF SheetInv, signature_request, ExchangeInv, NetInv, RequestKept
  <2>10. RequestKept(l.digest, l.entry) /\ RequestKept(m.head, m.entry)
    BY <2>8, <2>9 DEF RequestKept, same_terms
  <2>11. Grown /\ db'[p] = db[p] \cup {l} /\ \A q \in Party \ {p} : db'[q] = db[q]
    BY <2>6, PutGrows DEF ExchangeInv
  <2>12. /\ rendering'[p] = m /\ \A q \in Party \ {p} : rendering'[q] = rendering[q]
         /\ sheet'[p] = t /\ \A q \in Party \ {p} : sheet'[q] = sheet[q]
    BY <2>6 DEF ExchangeInv, TypeOK
  <2>13. RenderingInv(p, m)'
    BY <2>6, <2>8, <2>9, <2>10 DEF RenderingInv, RequestKept, same_terms
  <2>14. ConfirmationStored(m)'
    BY <2>8, <2>11 DEF ConfirmationStored
  <2>15. SheetInv(p, t)'
    <3>1. /\ t.digest = s.digest /\ ~t.chained
          /\ same_terms(t.head, s.digest)
          /\ t.item.initiator = "BOB"
          /\ t.item.bob_signature = s.item.bob_signature
          /\ t.item.delta = s.item.delta
      <4>1. /\ confirm_item(s, p).initiator = "BOB"
            /\ confirm_item(s, p).bob_signature = s.item.bob_signature
            /\ confirm_item(s, p).delta = s.item.delta
        BY <2>7, ConfirmedSigned
      <4> QED
        BY <2>5, <2>7, <2>9, <4>1 DEF Sheet, confirm_head, EntryHead, same_terms
    <3> QED
      BY <2>6, <2>7, <2>9, <3>1 DEF SheetInv, signature_request, same_terms
  <2>16. WalletInv(p)'
    BY <2>12, <2>13, <2>14, <2>15
    DEF WalletInv, RenderingInv, ConfirmationStored, SheetInv, Known, RequestKept, same_terms
  <2>17. \A q \in Party \ {p} : WalletInv(q)'
    BY <2>11, <2>12, WalletKept DEF ExchangeInv
  <2>18. \A n \in net' : NetInv(n)' /\ ConfirmationStored(n)'
    BY <2>6, <2>11, NetKept DEF ExchangeInv
  <2>19. StoredInv'
    BY <2>6, <2>7, <2>8, <2>10, <2>11, PutInv
  <2> QED
    BY <2>1, <2>16, <2>17, <2>18, <2>19 DEF ExchangeInv, StoredInv
<1> QED
  BY <1>1, <1>2

(* The command line signer counter-signs, in bob's role, an item that      *)
(* carries its request signature and nothing else.                         *)
LEMMA CliSigned ==
  ASSUME NEW m \in Message, NEW p \in Party, NetInv(m), NEW item,
         item = kee_ledger_parse_open(m, p), ~already_signed(item),
         NEW entry,
         entry = kee_ledger_item_serialize(
                   kee_ledger_sign(p, m.head, item, "zero"), "zero", "FINAL")
  PROVE  /\ entry.parent = "zero"
         /\ entry.sigRequest = m.entry.sigRequest
         /\ entry.delta = m.entry.delta
         /\ entry.sigResponse = Signed(p, m.head, get_message_asn(entry))
         /\ entry.sigResponse # Absent
<1> DEFINE signed == kee_ledger_sign(p, m.head, item, "zero")
<1>1. /\ item.initiator = kee_ledger_item_initiator(m.head, p)
      /\ item.delta = m.entry.delta
      /\ item.initiator = "BOB" => item.bob_signature = m.entry.sigRequest
      /\ item.initiator = "ALICE" => already_signed(item)
  BY OpenedFields DEF NetInv
<1>2. item.initiator = "BOB"
  BY <1>1 DEF kee_ledger_item_initiator
<1>3. item \in Item /\ m.head \in EntryHead /\ "zero" \in Parents
  BY OpenedItem DEF Message, Parents
<1>4. item.response \in BOOLEAN
  BY <1>3 DEF Item, ItemOf
<1>5. /\ signed.initiator = "BOB"
      /\ signed.delta = item.delta
      /\ signed.response = item.response
      /\ signed.bob_signature = item.bob_signature
      /\ signed.alice_signature =
           Signed(p, m.head, [parent |-> "zero", delta |-> item.delta,
                              response |-> item.response,
                              sigRequest |-> item.bob_signature, sigResponse |-> Absent])
      /\ signed.alice_signature # Absent
  BY <1>2, <1>3, SignedResponse
<1> HIDE DEF signed
<1>6. entry = [parent |-> "zero", delta |-> item.delta, response |-> item.response,
               sigRequest |-> item.bob_signature, sigResponse |-> signed.alice_signature]
  BY <1>4, <1>5 DEF signed, kee_ledger_item_serialize, signature_request, signature_response
<1>7. get_message_asn(entry) =
        [parent |-> "zero", delta |-> item.delta, response |-> item.response,
         sigRequest |-> item.bob_signature, sigResponse |-> Absent]
  BY <1>6 DEF get_message_asn
<1> QED
  BY <1>1, <1>2, <1>5, <1>6, <1>7

LEMMA InvCliSign ==
  ASSUME ExchangeInv, NEW p \in Party, NEW m \in net, CliSign(p, m)
  PROVE  ExchangeInv'
<1>1. TypeOK'
  BY TypeCliSign DEF ExchangeInv
<1>2. PICK item : item = kee_ledger_parse_open(m, p)
  OBVIOUS
<1>3. PICK entry : entry = kee_ledger_item_serialize(
                             kee_ledger_sign(p, m.head, item, "zero"), "zero", "FINAL")
  OBVIOUS
<1>4. PICK n : n = [head |-> m.head, entry |-> entry]
  OBVIOUS
<1>5. /\ net' = net \cup {n}
      /\ ~already_signed(item)
      /\ UNCHANGED <<running, db, form, sheet, rendering>>
  BY <1>2, <1>3, <1>4 DEF CliSign
<1>6. m \in Message /\ NetInv(m) /\ ConfirmationStored(m)
  BY DEF ExchangeInv, TypeOK
<1>7. /\ entry.parent = "zero"
      /\ entry.sigRequest = m.entry.sigRequest
      /\ entry.delta = m.entry.delta
      /\ entry.sigResponse = Signed(p, m.head, get_message_asn(entry))
  BY <1>2, <1>3, <1>5, <1>6, CliSigned
<1>8. NetInv(n) /\ ConfirmationStored(n)
  BY <1>4, <1>6, <1>7 DEF NetInv, RequestKept, same_terms, ConfirmationStored
<1>9. Grown
  BY <1>5 DEF Grown
<1>10. \A k \in net' : NetInv(k)' /\ ConfirmationStored(k)'
  BY <1>5, <1>8, <1>9, NetKept DEF ExchangeInv
<1>11. \A q \in Party : WalletInv(q)'
  BY <1>5, <1>9, WalletKept DEF ExchangeInv
<1>12. StoredInv'
  BY <1>5 DEF ExchangeInv, StoredInv, StoredDeltaWasRequested,
              StoredTermsWereRequested, RecordedIsCountersigned, OneRecordPerLedger, Recorded
<1> QED
  BY <1>1, <1>10, <1>11, <1>12 DEF ExchangeInv, StoredInv

-----------------------------------------------------------------------------
LEMMA InvInit == Init => ExchangeInv
<1> SUFFICES ASSUME Init
             PROVE  ExchangeInv
  OBVIOUS
<1>1. TypeOK
  BY TypeInit
<1> QED
  BY <1>1 DEF Init, ExchangeInv, WalletInv, StoredInv, StoredDeltaWasRequested,
              StoredTermsWereRequested, RecordedIsCountersigned, OneRecordPerLedger, Recorded

LEMMA InvNext == ExchangeInv /\ [Next]_vars => ExchangeInv'
<1> SUFFICES ASSUME ExchangeInv, [Next]_vars
             PROVE  ExchangeInv'
  OBVIOUS
<1>1. TypeOK'
  BY TypeNext DEF ExchangeInv
<1>2. ASSUME NEW p \in Party, Unlock(p)
      PROVE  ExchangeInv'
  BY <1>1, <1>2, QuietStep DEF Unlock
<1>3. ASSUME NEW p \in Party, NewEntry(p)
      PROVE  ExchangeInv'
  BY <1>1, <1>3, QuietStep DEF NewEntry
<1>4. ASSUME NEW p \in Party, Stop(p)
      PROVE  ExchangeInv'
  BY <1>4, GoneInv DEF Stop
<1>5. CASE UNCHANGED vars
  BY <1>1, <1>5, QuietStep DEF vars
<1> QED
  BY <1>2, <1>3, <1>4, <1>5, InvAdd, InvRender, InvImportFinal, InvImportResponse, InvConfirm,
     InvCliSign DEF Next

(* The invariant from which the safety theorems follow.                    *)
THEOREM Invariance == Spec => []ExchangeInv
BY InvInit, InvNext, PTL DEF Spec

(* Whatever transports circulate and whoever made, repeated or mixed them  *)
(* up: what a requester's import stores carries the signature of the       *)
(* counterparty over exactly that head and entry.                          *)
THEOREM RecordedSafe == Spec => []RecordedIsCountersigned
<1>1. ExchangeInv => RecordedIsCountersigned
  BY DEF ExchangeInv
<1> QED
  BY <1>1, Invariance, PTL

(* No stored entry ever has another delta than its requester signed.       *)
THEOREM DeltaSafe == Spec => []StoredDeltaWasRequested
<1>1. ExchangeInv => StoredDeltaWasRequested
  BY DEF ExchangeInv
<1> QED
  BY <1>1, Invariance, PTL

(* Nor other terms or another counterparty: of the head, only alice is     *)
(* ever changed after it was signed.                                       *)
THEOREM TermsSafe == Spec => []StoredTermsWereRequested
<1>1. ExchangeInv => StoredTermsWereRequested
  BY DEF ExchangeInv
<1> QED
  BY <1>1, Invariance, PTL

(* A stop between the commit and the rendering loses the transport, never  *)
(* the record.                                                             *)
THEOREM ShownSafe == Spec => []ShownIsStored
<1>1. ExchangeInv => ShownIsStored
  BY DEF ExchangeInv, ShownIsStored
<1> QED
  BY <1>1, Invariance, PTL

-----------------------------------------------------------------------------
(* The exchange implements the agreement.                                  *)
offers == {m.entry.sigRequest : m \in net}
counters ==
  {counter_signature(m.head, m.entry) : m \in {n \in net : n.entry.sigResponse # Absent}}
records == [p \in Party |-> {counter_signature(l.digest, l.entry) : l \in Recorded(p)}]

AbstractVars == <<offers, counters, records>>
AbstractStep == [Agreement!AgreementNext]_(Agreement!agreementVars)

LEMMA AbstractStutter == UNCHANGED AbstractVars => AbstractStep
BY DEF AbstractVars, AbstractStep, offers, counters, records, Agreement!agreementVars

LEMMA QuietStutter == UNCHANGED <<db, net>> => AbstractStep
<1> SUFFICES ASSUME UNCHANGED <<db, net>>
             PROVE  UNCHANGED AbstractVars
  BY AbstractStutter
<1>1. offers' = offers /\ counters' = counters
  BY DEF offers, counters
<1>2. records' = records
  BY DEF records, Recorded
<1> QED
  BY <1>1, <1>2 DEF AbstractVars

(* Only a ledger that names p as its requester is a record of p.           *)
LEMMA UnrecordedPut ==
  ASSUME NEW p \in Party, NEW l, l.digest.alice # p, UNCHANGED net,
         db'[p] = db[p] \cup {l}, \A q \in Party \ {p} : db'[q] = db[q]
  PROVE  AbstractStep
<1>1. offers' = offers /\ counters' = counters
  BY DEF offers, counters
<1>2. \A q \in Party : Recorded(q)' = Recorded(q)
  BY DEF Recorded
<1>3. records' = records
  BY <1>2 DEF records
<1> QED
  BY <1>1, <1>3, AbstractStutter DEF AbstractVars

LEMMA AbstractRender ==
  ASSUME ExchangeInv, NEW p \in Party, Render(p)
  PROVE  AbstractStep
<1>1. PICK m : m = rendering[p]
  OBVIOUS
<1>2. RenderingInv(p, m) /\ net' = net \cup {m} /\ UNCHANGED db
  BY <1>1 DEF Render, ExchangeInv, WalletInv
<1>3. PICK r : r = m.entry.sigRequest
  OBVIOUS
<1>4. r \in RequestSignature /\ m.entry.sigResponse = Absent /\ (r.signer = p \/ r \in offers)
  BY <1>2, <1>3 DEF RenderingInv, RequestKept, offers
<1>5. offers' = offers \cup {r}
  BY <1>2, <1>3 DEF offers
<1>6. counters' = counters
  BY <1>2, <1>4 DEF counters
<1>7. records' = records
  BY <1>2 DEF records, Recorded
<1>8. CASE r \in offers
  BY <1>5, <1>6, <1>7, <1>8, AbstractStutter DEF AbstractVars
<1>9. CASE r.signer = p
  <2>1. Agreement!Offer(p, r)
    BY <1>5, <1>6, <1>7, <1>9 DEF Agreement!Offer, offers, counters, records
  <2> QED
    BY <1>4, <2>1 DEF AbstractStep, Agreement!AgreementNext
<1> QED
  BY <1>4, <1>8, <1>9

LEMMA AbstractCliSign ==
  ASSUME ExchangeInv, NEW p \in Party, NEW m \in net, CliSign(p, m)
  PROVE  AbstractStep
<1>1. PICK item : item = kee_ledger_parse_open(m, p)
  OBVIOUS
<1>2. PICK entry : entry = kee_ledger_item_serialize(
                             kee_ledger_sign(p, m.head, item, "zero"), "zero", "FINAL")
  OBVIOUS
<1>3. PICK n : n = [head |-> m.head, entry |-> entry]
  OBVIOUS
<1>4. net' = net \cup {n} /\ ~already_signed(item) /\ UNCHANGED db
  BY <1>1, <1>2, <1>3 DEF CliSign
<1>5. m \in Message /\ NetInv(m) /\ m.head \in EntryHead
  BY DEF ExchangeInv, TypeOK, Message
<1>6. /\ entry.sigRequest = m.entry.sigRequest
      /\ entry.sigResponse = Signed(p, m.head, get_message_asn(entry))
      /\ entry.sigResponse # Absent
  BY <1>1, <1>2, <1>4, <1>5, CliSigned
<1>7. PICK r : r = m.entry.sigRequest
  OBVIOUS
<1>8. counter_signature(n.head, n.entry) = [head |-> m.head, request |-> r, signer |-> p]
  BY <1>3, <1>6, <1>7 DEF counter_signature, Signed
<1>9. offers' = offers /\ r \in offers
  BY <1>3, <1>4, <1>6, <1>7 DEF offers
<1>10. counters' = counters \cup {[head |-> m.head, request |-> r, signer |-> p]}
  <2>1. n.entry.sigResponse # Absent
    BY <1>3, <1>6
  <2>2. {k \in net : k.entry.sigResponse # Absent}' =
          {k \in net : k.entry.sigResponse # Absent} \cup {n}
    BY <1>4, <2>1
  <2>3. counters' = counters \cup {counter_signature(n.head, n.entry)}
    BY <2>2 DEF counters, counter_signature
  <2> QED
    BY <1>8, <2>3
<1>11. records' = records
  BY <1>4 DEF records, Recorded
<1>12. Agreement!Countersign(p, m.head, r)
  BY <1>9, <1>10, <1>11 DEF Agreement!Countersign, offers, counters, records
<1> QED
  BY <1>5, <1>9, <1>12 DEF AbstractStep, Agreement!AgreementNext, offers

LEMMA AbstractImportFinal ==
  ASSUME ExchangeInv, NEW p \in Party, NEW m \in net, ImportFinal(p, m)
  PROVE  AbstractStep
<1>1. CASE ~put_ok(p, m.head)
  BY <1>1, QuietStutter DEF ImportFinal, Gone
<1>2. CASE put_ok(p, m.head)
  <2>1. PICK item : item = kee_ledger_parse_open(m, p)
    OBVIOUS
  <2>2. PICK l : l = put_record(m.head, m.head, item, "zero")
    OBVIOUS
  <2>3. m \in Message /\ NetInv(m) /\ m.head \in EntryHead
    BY DEF ExchangeInv, TypeOK, Message
  <2>4. db' = [db EXCEPT ![p] = @ \cup {l}] /\ UNCHANGED net
    BY <1>2, <2>1, <2>2 DEF ImportFinal, kee_ledger_put, put_record
  <2>5. l.digest = m.head /\ l.entry = m.entry /\ m.entry.sigResponse # Absent
    BY <2>1, <2>2, <2>3, FinalStored DEF put_record, ImportFinal
  <2>6. db'[p] = db[p] \cup {l} /\ \A q \in Party \ {p} : db'[q] = db[q]
    BY <2>4, PutGrows DEF ExchangeInv
  <2>7. CASE m.head.alice # p
    BY <2>4, <2>5, <2>6, <2>7, UnrecordedPut
  <2>8. CASE m.head.alice = p
    <3>1. PICK c : c = counter_signature(m.head, m.entry)
      OBVIOUS
    <3>2. c \in counters
      BY <2>5, <3>1 DEF counters
    <3>3. verify_item_asn(m.head, m.entry, "ALICE")
      BY <2>8 DEF ImportFinal, parse_open_ok, kee_ledger_item_initiator
    <3>4. c.head = m.head /\ c.signer = m.head.bob
      BY <2>5, <3>1, <3>3 DEF verify_item_asn, pubkey_last, counter_signature, Signed
    <3>5. \A r \in records[p] : r.head # c.head
      BY <1>2, <3>4 DEF records, Recorded, counter_signature, put_ok, Known
    <3>6. /\ Recorded(p)' = Recorded(p) \cup {l}
          /\ \A q \in Party \ {p} : Recorded(q)' = Recorded(q)
      BY <2>5, <2>6, <2>8 DEF Recorded
    <3>7. records' = [records EXCEPT ![p] = @ \cup {c}]
      <4>1. \A q \in Party : records'[q] = IF q = p THEN records[p] \cup {c} ELSE records[q]
        BY <2>5, <3>1, <3>6 DEF records, counter_signature
      <4> QED
        BY <4>1 DEF records
    <3>8. offers' = offers /\ counters' = counters
      BY <2>4 DEF offers, counters
    <3>9. Agreement!Record(p, c)
      BY <2>8, <3>2, <3>4, <3>5, <3>7, <3>8
      DEF Agreement!Record, offers, counters, records
    <3> QED
      BY <3>2, <3>9 DEF AbstractStep, Agreement!AgreementNext, counters
  <2> QED
    BY <2>7, <2>8
<1> QED
  BY <1>1, <1>2

LEMMA AbstractConfirm ==
  ASSUME ExchangeInv, NEW p \in Party, Confirm(p)
  PROVE  AbstractStep
<1>1. CASE Gone(p)
  BY <1>1, QuietStutter DEF Gone
<1>2. CASE ~Gone(p)
  <2>1. PICK s : s = sheet[p]
    OBVIOUS
  <2>2. PICK l : l = put_record(s.digest, confirm_head(s, p), confirm_item(s, p),
                                parent_of(s.chained))
    OBVIOUS
  <2>3. db' = [db EXCEPT ![p] = @ \cup {l}] /\ UNCHANGED net
    BY <1>2, <2>1, <2>2, ConfirmedOrGone DEF kee_ledger_put, put_record
  <2>4. s.digest.alice # p
    BY <1>2, <2>1, ConfirmedItem
  <2>5. l.digest = s.digest
    BY <2>2 DEF put_record
  <2>6. db'[p] = db[p] \cup {l} /\ \A q \in Party \ {p} : db'[q] = db[q]
    BY <2>3, PutGrows DEF ExchangeInv
  <2> QED
    BY <2>3, <2>4, <2>5, <2>6, UnrecordedPut
<1> QED
  BY <1>1, <1>2

LEMMA AbstractInit == Init => Agreement!AgreementInit
BY DEF Init, Agreement!AgreementInit, Recorded

LEMMA AbstractNext == ExchangeInv /\ [Next]_vars => AbstractStep
<1> SUFFICES ASSUME ExchangeInv, [Next]_vars
             PROVE  AbstractStep
  OBVIOUS
<1>1. ASSUME NEW p \in Party, Unlock(p) \/ Stop(p) \/ NewEntry(p)
      PROVE  AbstractStep
  BY <1>1, QuietStutter DEF Unlock, Stop, Gone, NewEntry
<1>2. ASSUME NEW p \in Party, NEW bob \in Key, NEW terms \in Terms, NEW delta \in Delta,
             Add(p, bob, terms, delta)
      PROVE  AbstractStep
  BY <1>2, QuietStutter DEF Add
<1>3. ASSUME NEW p \in Party, NEW m \in net, ImportResponse(p, m)
      PROVE  AbstractStep
  BY <1>3, QuietStutter DEF ImportResponse, Gone
<1>4. CASE UNCHANGED vars
  BY <1>4, QuietStutter DEF vars
<1> QED
  BY <1>1, <1>2, <1>3, <1>4, AbstractRender, AbstractImportFinal, AbstractConfirm,
     AbstractCliSign DEF Next

(* Forms, sheets, crashes, databases and the two signers together keep the *)
(* promise of KeeAgreement: every step is one of its steps or a stutter.   *)
THEOREM Refinement == Spec => ImplementsAgreement
<1>1. Init => Agreement!AgreementInit
  BY AbstractInit
<1>2. ExchangeInv /\ [Next]_vars => [Agreement!AgreementNext]_(Agreement!agreementVars)
  BY AbstractNext DEF AbstractStep
<1> QED
  BY <1>1, <1>2, Invariance, PTL DEF Spec, ImplementsAgreement, Agreement!AgreementSpec
=============================================================================
