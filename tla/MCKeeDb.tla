------------------------------ MODULE MCKeeDb ------------------------------
(* KeeDb with two counterparties and three ledgers, one of them recorded    *)
(* under a digest that is not that of its content.                          *)
EXTENDS KeeDb

Some == {[digest |-> 1, content |-> 1, bob |-> 1],
         [digest |-> 2, content |-> 4, bob |-> 2],
         [digest |-> 3, content |-> 3, bob |-> 2]}

Empty == {}

(* As the generator of test data leaves it: names, and a ledger with two   *)
(* items.                                                                   *)
Named == {[key |-> DnKey(2), value |-> 2]}
Seeded ==
  Named \cup
  {[key |-> HeadKey(1), value |-> [content |-> 3, bob |-> 1]],
   [key |-> ReverseKey(3), value |-> 1],
   [key |-> EntryKey(3, 1), value |-> 0], [key |-> EntryKey(3, 2), value |-> 0]}

Databases == {Empty, Named, Seeded}
=============================================================================
