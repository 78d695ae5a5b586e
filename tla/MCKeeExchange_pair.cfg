SPECIFICATION Spec
CONSTANTS
  Party = {a, b}
  Seeded = {a}
  NoKey = NoKey
  Terms = {t}
  Delta = {d0, d1}
  ZeroDelta = d0
  Absent = Absent
  Zeroes = Zeroes
  NoForm = NoForm
  NoSheet = NoSheet
  NoMessage = NoMessage
  MaxNet = 3
  MaxRunning = 1
CONSTRAINT Bounds
INVARIANTS TypeOK StoredDeltaWasRequested StoredTermsWereRequested ShownIsStored
PROPERTY ImplementsAgreement
