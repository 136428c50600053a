SPECIFICATION FairIterSpec
CONSTANTS
  Item = {i1, i2, i3}
  Name = {}
  Kind = {"array"}
  NULL = NULL
  Client = {}
  Walk = {w1, w2}
  Habit = {"stops", "shared"}
INVARIANT
  NoFault
PROPERTY
  WalkEnds
ACTION_CONSTRAINT
  Bounds
CHECK_DEADLOCK FALSE
