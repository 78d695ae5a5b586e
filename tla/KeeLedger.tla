------------------------------ MODULE KeeLedger ------------------------------
(***************************************************************************)
(* The data of a bilateral ledger and the pure part of src/src/ledger.c:   *)
(* what an item looks like on the wire in each of its three states, what   *)
(* its signatures are made over, which of them a parser verifies, and what *)
(* role and state a parsed item gets.                                      *)
(*                                                                         *)
(* Abstractions.  A digest is collision free, so the digest of a head is   *)
(* the head itself.  A signature is the record of who signed which entry   *)
(* under which head, so it verifies exactly for that key and that message. *)
(* `Terms' stands for the rest of a head (unit of account, decimals, body  *)
(* key) and `Delta' for the rest of an entry (credit and collateral of the *)
(* initiator, timestamp, body key).                                        *)
(***************************************************************************)
CONSTANTS
  Party,      \* key pairs, named by their public key
  NoKey,      \* the all-zero public key of a head whose field was never set
  Terms,      \* contents of a head besides the two keys
  Delta,      \* contents of an entry besides parent, flag and signatures
  ZeroDelta,  \* the delta of a calloc'ed item
  Absent,     \* a signature field of length 0 on the wire
  Zeroes      \* a signature of 64 zero bytes, in memory or on the wire

Key == Party \cup {NoKey}

EntryHead == [alice : Key, bob : Key, terms : Terms]

Modes == {"REQUEST", "RESPONSE", "FINAL"}

Roles == {"ALICE", "BOB"}

(* What the `parent' field holds: 64 zero bytes for the first item of a    *)
(* list, else the first 64 bytes of the preceding item's structure.        *)
Parents == {"zero", "memory"}

Signed(p, head, entry) == [signer |-> p, digest |-> head, entry |-> entry]

(* The signatures that the program can make: of a request, over an entry   *)
(* with no signature in it; of a response, over one that carries the       *)
(* request signature.                                                      *)
RequestEntry ==
  [parent : Parents, delta : Delta, response : BOOLEAN,
   sigRequest : {Absent}, sigResponse : {Absent}]

RequestSignature == [signer : Party, digest : EntryHead, entry : RequestEntry]

ResponseEntry ==
  [parent : Parents, delta : Delta, response : BOOLEAN,
   sigRequest : RequestSignature \cup {Zeroes}, sigResponse : {Absent}]

ResponseSignature == [signer : Party, digest : EntryHead, entry : ResponseEntry]

Entry ==
  [parent : Parents, delta : Delta, response : BOOLEAN,
   sigRequest : RequestSignature \cup {Absent, Zeroes},
   sigResponse : ResponseSignature \cup {Absent, Zeroes}]

Message == [head : EntryHead, entry : Entry]

(* struct kee_ledger_item_t.  Only the initiator's pair of deltas is ever  *)
(* set; the signature slots belong to the head's roles, not to the order   *)
(* in which the item is signed.                                            *)
ItemOf(role, alice, bob) ==
  [initiator : {role}, delta : Delta, response : BOOLEAN,
   alice_signature : alice \cup {Zeroes}, bob_signature : bob \cup {Zeroes}]

Item == ItemOf("ALICE", RequestSignature, ResponseSignature)
          \cup ItemOf("BOB", ResponseSignature, RequestSignature)

ASSUME LedgerAssumption ==
  /\ NoKey \notin Party
  /\ ZeroDelta \in Delta
  /\ Absent # Zeroes
  /\ {Absent, Zeroes} \cap (RequestSignature \cup ResponseSignature) = {}

-----------------------------------------------------------------------------
(* The request signature sits in the initiator's slot, the response        *)
(* signature in the other one.                                             *)
signature_request(item) ==
  IF item.initiator = "BOB" THEN item.bob_signature ELSE item.alice_signature

signature_response(item) ==
  IF item.initiator = "BOB" THEN item.alice_signature ELSE item.bob_signature

\* For the mutation check: the delta is read from the wrong party's fields.
kee_ledger_item_serialize_wrong_delta(item, parent, mode) ==
  [parent |-> parent,
   delta |-> IF item.initiator = "BOB" THEN ZeroDelta ELSE item.delta,
   response |-> item.response /\ mode # "REQUEST",
   sigRequest |-> IF mode = "REQUEST" THEN Absent ELSE signature_request(item),
   sigResponse |-> IF mode = "FINAL" THEN signature_response(item) ELSE Absent]

(* Serialisation of an item for a mode: a REQUEST carries no signature, a  *)
(* RESPONSE the request signature, a FINAL item both slots as they are,    *)
(* zero bytes included.                                                    *)
kee_ledger_item_serialize(item, parent, mode) ==
  [parent |-> parent,
   delta |-> item.delta,
   response |-> item.response /\ mode # "REQUEST",
   sigRequest |-> IF mode = "REQUEST" THEN Absent ELSE signature_request(item),
   sigResponse |-> IF mode = "FINAL" THEN signature_response(item) ELSE Absent]

\* For the mutation check: a request is signed with its empty signature slot.
sign_mode_response(item) == "RESPONSE"

(* The holder of the key signs what is for it: the request when ALICE      *)
(* initiated, the response when BOB did.                                   *)
sign_mode(item) == IF item.initiator = "BOB" THEN "RESPONSE" ELSE "REQUEST"

already_signed(item) == item.alice_signature # Zeroes

(* The signer's result lands in alice_signature whoever the signer is.     *)
kee_ledger_sign(p, head, item, parent) ==
  [item EXCEPT !.alice_signature =
     Signed(p, head, kee_ledger_item_serialize(item, parent, sign_mode(item)))]

(* The message a response signature is checked against is rebuilt from the *)
(* received fields, with the response signature left out.                  *)
get_message_asn(entry) == [entry EXCEPT !.sigResponse = Absent]

pubkey_last(head, role) == IF role = "BOB" THEN head.alice ELSE head.bob

\* For the mutation check: an item is taken whoever signed the response.
verify_item_asn_any_signer(head, entry, role) ==
  \/ entry.sigResponse = Absent
  \/ entry.sigResponse \in {Signed(p, head, get_message_asn(entry)) : p \in Party}
  \/ entry.sigResponse = Zeroes

verify_item_asn(head, entry, role) ==
  \/ entry.sigResponse = Absent
  \/ entry.sigResponse = Signed(pubkey_last(head, role), head, get_message_asn(entry))

in_memory(signature) == IF signature = Absent THEN Zeroes ELSE signature

(* A successful parse. *)
kee_ledger_parse_item(entry, role) ==
  [initiator |-> role,
   delta |-> entry.delta,
   response |-> entry.response,
   alice_signature |->
     in_memory(IF role = "ALICE" THEN entry.sigRequest ELSE entry.sigResponse),
   bob_signature |->
     in_memory(IF role = "ALICE" THEN entry.sigResponse ELSE entry.sigRequest)]

(* What a failed parse leaves at the head of the list: the item is linked  *)
(* before its data is looked at.                                           *)
kee_ledger_add_item(role) ==
  [initiator |-> role, delta |-> ZeroDelta, response |-> FALSE,
   alice_signature |-> Zeroes, bob_signature |-> Zeroes]

(* ALICE initiated if the head names the reader as alice, else BOB did,    *)
(* whether or not the reader is that bob.  With no bob key the initiator   *)
(* is NOONE, which the parser treats as ALICE.                             *)
kee_ledger_item_initiator(head, me) ==
  IF head.alice # me /\ head.bob # NoKey THEN "BOB" ELSE "ALICE"

kee_ledger_item_state(item) ==
  IF signature_request(item) = Zeroes THEN "REQUEST"
  ELSE IF signature_response(item) = Zeroes THEN "RESPONSE" ELSE "FINAL"

(* A received transport, as the holder of key `me' reads it. *)
parse_open_ok(m, me) ==
  verify_item_asn(m.head, m.entry, kee_ledger_item_initiator(m.head, me))

kee_ledger_parse_open(m, me) ==
  kee_ledger_parse_item(m.entry, kee_ledger_item_initiator(m.head, me))
=============================================================================
