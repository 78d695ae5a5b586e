SPECIFICATION FairSpec
CONSTANTS
  Digest = {1, 2, 3, 4}
  Bob = {1, 2}
  Ledger <- Some
  Seeds <- Databases
  MaxTime = 3
  NoContent = NoContent
  NoName = NoName
INVARIANTS TypeOK NeverMisused AtRest SearchesFirst WholeLedgers
PROPERTIES ImplementsStore HandlersEnd HandlersBounded
