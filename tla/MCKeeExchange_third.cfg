SPECIFICATION Spec
CONSTANTS
  Party = {a, b, c}
  Seeded = {a}
  NoKey = NoKey
  Terms = {t}
  Delta = {d0}
  ZeroDelta = d0
  Absent = Absent
  Zeroes = Zeroes
  NoForm = NoForm
  NoSheet = NoSheet
  NoMessage = NoMessage
  MaxNet = 3
  MaxRunning = 1
CONSTRAINT Bounds
SYMMETRY Alike
INVARIANTS RecordedIsCountersigned
