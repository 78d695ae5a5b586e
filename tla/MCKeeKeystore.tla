--------------------------- MODULE MCKeeKeystore ---------------------------
(* KeeKeystore with two programs that make keys and one application.  The   *)
(* digest of "one" may encrypt a key; that of "two" encrypts none, and no   *)
(* passphrase has the secret "raw".                                         *)
EXTENDS KeeKeystore, TLC

Secrets == {"raw", "digest1", "digest2"}
Digests == [p \in {"one", "two"} |-> IF p = "one" THEN "digest1" ELSE "digest2"]
Passphrases == DOMAIN Digests
Symmetry == Permutations(Key) \cup Permutations(Maker)
=============================================================================
