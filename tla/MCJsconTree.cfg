SPECIFICATION Spec
CONSTANTS
  Item = {i1, i2, i3, i4}
  Name = {a, b}
  Kind = {"leaf", "object", "array"}
  NULL = NULL
  SIZE_MAX = 15
  INT_MAX = 3
  Client = {"oom"}
SYMMETRY Symmetric
VIEW Visible
INVARIANTS
  TypeOK
  Forest
  Rooted
  TableExact
  ListIsPreorder
  SiblingInPlace
  NoFault
PROPERTY
  OrderKept
  ImplementsForest
CHECK_DEADLOCK FALSE
