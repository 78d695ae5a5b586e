----------------------------- MODULE MCKeeImport -----------------------------
(* KeeImport with three ledgers: one like those of the program, and two    *)
(* that hardly compress, for which only the command line has room, of the  *)
(* last length that is read again and of the next.                         *)
EXTENDS KeeImport

Payloads == {"small", "last", "next"}
Lengths ==
  [p \in Payloads |-> IF p = "small" THEN 400 ELSE IF p = "last" THEN 566 ELSE 567]
DeflatedLengths ==
  [p \in Payloads |-> IF p = "small" THEN 300 ELSE IF p = "last" THEN 567 ELSE 568]
Dirs == {<<"capture", "other", "capture">>, <<"capture", "closed">>}
=============================================================================
