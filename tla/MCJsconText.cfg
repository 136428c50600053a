SPECIFICATION TextSpec
CONSTANTS
  Item = {i1, i2, i3, i4}
  Name = {a, b}
  Kind = {}
  NULL = NULL
  Client = {"oom"}
  Literal = {u, zero}
  Zero = zero
  Document <- MCDocument
  MinItems = 1
  MaxItems = 4
SYMMETRY Symmetric
VIEW Visible
INVARIANTS
  ParseTypeOK
  RoomFits
  ReadsWholeText
  TreesAreSound
  RoundTrip
  FilterIgnoresFirst
PROPERTIES
  FaultsInClonesOnly
  CloneIsSimilar
ACTION_CONSTRAINT
  LongPrints
CHECK_DEADLOCK FALSE
