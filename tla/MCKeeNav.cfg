SPECIFICATION Spec
CONSTANTS
  Page = {ListPage, KeyPage, NewPage, AddPage, ImportPage, TransportPage}
  ListPage = ListPage
  KeyPage = KeyPage
  NewPage = NewPage
  AddPage = AddPage
  ImportPage = ImportPage
  TransportPage = TransportPage
  DEFAULT = DEFAULT
  BackExit <- MenuBack
  NewExit <- FromList
  ImportExit <- FromList
  MaxChildren = 5
CONSTRAINT Bounds
INVARIANTS TypeOK NavConsistent VisibleIsOpen BackLeads Locked
PROPERTY ListStays
