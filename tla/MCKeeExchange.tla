---------------------------- MODULE MCKeeExchange ----------------------------
(* Instances of KeeExchange for TLC. *)
EXTENDS KeeExchange, Naturals, FiniteSets, TLC

CONSTANTS
  MaxNet,       \* transports ever shown or written
  MaxRunning    \* applications that are up at the same time

Bounds ==
  /\ Cardinality(net) <= MaxNet
  /\ Cardinality({p \in Party : running[p]}) <= MaxRunning

(* Every ledger is between two different keys: for readable traces.        *)
BetweenTwo ==
  \A p \in Party : rendering[p] # NoMessage =>
    rendering[p].head.bob \notin {p, NoKey} \/ rendering[p].entry.sigRequest.signer # p

(* Wallets without seeded names are alike. *)
Alike == Permutations(Party \ Seeded)
=============================================================================
