SPECIFICATION Spec
CONSTANTS
  Size = 12
  Word = 64
  Most = 20
  MaxLength = 14
  Message <- Messages
  NUL = NUL
  Unset = Unset
  NULL = NULL
INVARIANTS TypeOK FlagTells
PROPERTIES InsideWhileRoom WholeWhileRoom
