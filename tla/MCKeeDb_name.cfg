SPECIFICATION Spec
CONSTANTS
  Digest = {1, 2, 3, 4}
  Bob = {1, 2}
  Ledger <- Some
  Seeds <- Databases
  MaxTime = 3
  NoContent = NoContent
  NoName = NoName
INVARIANT NameIsBobs
