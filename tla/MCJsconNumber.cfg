SPECIFICATION Spec
CONSTANTS
  DBL_DECIMAL_DIG = 6
  LLONG_MAX = 92233720
  MAX_INTEGER_DIG = 9
  Numeral <- MCNumeral
  Integer <- MCInteger
  Double <- MCDouble
INVARIANTS
  TypeOK
PROPERTIES
  OnlyHugeOverflows
  
  ClonesSettle
CHECK_DEADLOCK FALSE
