SPECIFICATION IterSpec
CONSTANTS
  Item = {i1, i2, i3, i4}
  Name = {}
  Kind = {"leaf", "array"}
  NULL = NULL
  Client = {}
  Walk = {w1}
  Habit = {"stops", "grows"}
SYMMETRY Symmetric
VIEW Visible
INVARIANTS
  IterTypeOK
  FramesLeadToCursor
  WalkIsPreorder
  NoFault
PROPERTY
  FramesCleared
ACTION_CONSTRAINT
  OnlyGrow
CHECK_DEADLOCK FALSE
