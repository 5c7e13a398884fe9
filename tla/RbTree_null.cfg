CONSTANTS
  Node = {1, 2, 3}
  Key <- SetKey
  Multi = FALSE
  Null = Null
SPECIFICATION Spec
INVARIANT InsertNeverFaults
CHECK_DEADLOCK FALSE
