CONSTANTS
  Node = {2, 3, 4}
  Key <- MultisetKey
  Multi = TRUE
  Null = Null
SPECIFICATION Spec
INVARIANT FindIsFirst
CHECK_DEADLOCK FALSE
