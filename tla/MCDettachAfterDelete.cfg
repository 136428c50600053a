SPECIFICATION Spec
CONSTANTS
  Item = {i1, i2, i3}
  Name = {}
  Kind = {"array"}
  NULL = NULL
  SIZE_MAX = 15
  INT_MAX = 3
  Client = {"any_list"}
SYMMETRY Symmetric
VIEW Visible
INVARIANT
  NoFault
CHECK_DEADLOCK FALSE
