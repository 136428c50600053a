SPECIFICATION Spec
CONSTANTS
  k1 = k1
  k2 = k2
  k3 = k3
  Key <- MCKey
  Value = {v1, v2}
  NULL = NULL
  Hash <- MCHash
  MaxBucket = 3
INVARIANTS
  TypeOK
  NoShadowedEntry
  EntryInItsSlot
PROPERTY
  ImplementsKeyMap
