SPECIFICATION Spec
CONSTANTS
  Alice = Alice
  Bob = Bob
  Party = {Alice, Bob}
  NoKey = NoKey
  Terms = {"usd"}
  Delta <- Deltas
  ZeroDelta <- Zero
  Absent <- NoBytes
  Zeroes <- ZeroBytes
  Base = 4
  head <- Ledger
  Seeds <- Databases
  MaxItems = 3
  MaxSessions = 2
  NULL = NULL
INVARIANTS TypeOK SignedVerifies
PROPERTIES OpensWhatWasPut ShowsTheSum
CHECK_DEADLOCK FALSE
