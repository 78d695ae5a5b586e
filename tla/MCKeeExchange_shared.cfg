SPECIFICATION Spec
CONSTANTS
  Party = {a, b}
  Seeded = {a, b}
  NoKey = NoKey
  Terms = {t}
  Delta = {d0}
  ZeroDelta = d0
  Absent = Absent
  Zeroes = Zeroes
  NoForm = NoForm
  NoSheet = NoSheet
  NoMessage = NoMessage
  MaxNet = 3
  MaxRunning = 2
CONSTRAINTS Bounds BetweenTwo
INVARIANT SharedIsCountersigned
