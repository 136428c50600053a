SPECIFICATION Spec
CONSTANTS
  Item = {i1, i2, i3}
  Name = {a}
  Kind = {"leaf", "object"}
  NULL = NULL
  SIZE_MAX = 15
  INT_MAX = 3
  Client = {"dettach_leaf"}
SYMMETRY Symmetric
VIEW Visible
INVARIANT
  NoFault
CHECK_DEADLOCK FALSE
