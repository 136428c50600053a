SPECIFICATION ScanSpec
CONSTANTS
  ka = ka
  kb = kb
  kab = kab
  u = u
  zero = zero
  i1 = i1
  i2 = i2
  i3 = i3
  i4 = i4
  i5 = i5
  Item <- MCItem
  Name = {ka, kb, kab}
  Kind = {}
  NULL = NULL
  Client = {}
  Literal = {u, zero}
  Zero = zero
  Document <- MCObject
  MinItems = 2
  MaxItems = 4
  Format <- MCFormat
  Spelling <- MCSpelling
  Sort <- MCSort
  KeySize = 5
  Careful = TRUE
VIEW VisibleScan
INVARIANTS
  ScanTypeOK
  OnlyLongKeysFault
  ScanIsLookup
PROPERTY
  WrittenOnce
ACTION_CONSTRAINT
  InOrder
CHECK_DEADLOCK FALSE
