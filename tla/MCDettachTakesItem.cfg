SPECIFICATION Spec
CONSTANTS
  Item = {i1, i2, i3}
  Name = {}
  Kind = {"array"}
  NULL = NULL
  SIZE_MAX = 15
  INT_MAX = 3
  Client = {"duplicate_keys", "any_list"}
SYMMETRY Symmetric
VIEW Visible
PROPERTY
  DettachTakesItem
CHECK_DEADLOCK FALSE
