\* A buffer of 1 byte that grows to 16.
CONSTANTS
  Bytes = {0, 1, 2, 3, 4, 5}
  MINSIZE = 1
  Factors = {1, 2, 4, 8, 16}
  Pieces <- MCPieces
  MaxAsked = 5
  MaxSize = 16
SPECIFICATION Spec
INVARIANTS
  TypeOK
PROPERTIES
  IsByteQueue
CHECK_DEADLOCK FALSE
