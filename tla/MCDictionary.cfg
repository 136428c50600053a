SPECIFICATION Spec
CONSTANTS
  k1 = k1
  k2 = k2
  Key <- MCKey
  Value = {v1, v2, v3}
  NULL = NULL
  Hash <- MCHash
  MaxBucket = 3
INVARIANTS
  TypeOK
  OwnedOnce
PROPERTY
  ImplementsLastWins
