------------------------------ MODULE KeeStore ------------------------------
(***************************************************************************)
(* What the database of one key holder promises to the pages that show it: *)
(* ledgers are recorded one at a time, in the order of the clock, each     *)
(* digest once, and row i of the list is the i-th of those that were there *)
(* when the list was opened.  KeeDb implements this.                       *)
(***************************************************************************)
EXTENDS Integers, Sequences

CONSTANTS Content, Digest

VARIABLES
  ledgers,      \* the contents recorded, in order
  recorded,     \* their digests
  count,        \* how many of them the list has
  rows          \* the rows of the list that were made: <<index, content>>

storeVars == <<ledgers, recorded, count, rows>>

Init ==
  /\ ledgers \in Seq(Content)
  /\ recorded \in SUBSET Digest
  /\ count = 0
  /\ rows = {}

Record(d, c) ==
  /\ d \notin recorded
  /\ recorded' = recorded \cup {d}
  /\ ledgers' = Append(ledgers, c)
  /\ UNCHANGED <<count, rows>>

Open ==
  /\ count = 0
  /\ count' = Len(ledgers)
  /\ UNCHANGED <<ledgers, recorded, rows>>

Row(i) ==
  /\ rows' = rows \cup {<<i, ledgers[i + 1]>>}
  /\ UNCHANGED <<ledgers, recorded, count>>

Close ==
  /\ count' = 0
  /\ rows' = {}
  /\ UNCHANGED <<ledgers, recorded>>

Next ==
  \/ \E d \in Digest, c \in Content : Record(d, c)
  \/ Open
  \/ \E i \in 0 .. count - 1 : Row(i)
  \/ Close

Spec == Init /\ [][Next]_storeVars
=============================================================================
