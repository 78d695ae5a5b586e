------------------------------ MODULE MCKeeChain ------------------------------
(* KeeChain with ints of eight bits, four bytes of two, so that balances   *)
(* overflow, and with two chains of the test data generator: their items   *)
(* have the digest of the item before as their parent.                     *)
EXTENDS KeeChain

CONSTANTS Alice, Bob

Ledger == [alice |-> Alice, bob |-> Bob, terms |-> "usd"]

delta(c, o, t) == [credit |-> c, collateral |-> o, time |-> t]
Zero == delta(0, 0, 0)
Deltas == {Zero, delta(-128, 127, 1), delta(-1, 2, 2), delta(100, -3, 2)}

generated(role, d, before) ==
  LET request == [parent |-> before, delta |-> d, response |-> FALSE,
                  sigRequest |-> Absent, sigResponse |-> Absent]
      sent == [request EXCEPT !.sigRequest = Signed(pubkey_first(role), Ledger, request),
                              !.response = TRUE]
  IN  [sent EXCEPT !.sigResponse = Signed(pubkey_last(Ledger, role), Ledger, sent)]

NoBytes == [length |-> 0]
ZeroBytes == [length |-> 64]

Opening == generated("ALICE", delta(-2, 64, 1), NULL)
Following(role) == generated(role, delta(127, -65, 2), [sha512 |-> Opening])

Chain(role) ==
  [disk |-> {[time |-> 1, initiator |-> "ALICE", entry |-> wire(Opening)],
             [time |-> 2, initiator |-> role, entry |-> wire(Following(role))]},
   kept |-> <<kee_ledger_parse_item(Opening, "ALICE"),
              kee_ledger_parse_item(Following(role), role)>>]

Databases == {[disk |-> {}, kept |-> << >>], Chain("ALICE"), Chain("BOB")}
=============================================================================
