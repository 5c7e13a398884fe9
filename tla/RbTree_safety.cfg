CONSTANTS
  Node = {1, 2, 3, 4, 5, 6, 7, 8, 9, 10, 11}
  Key <- SetKey
  Multi = FALSE
  Null = Null
SPECIFICATION TreesSpec
INVARIANTS
  TypeOK
  RedBlackTree
  MultisetSearchesAgree
PROPERTIES CallReturns TreesAreOrdered
CHECK_DEADLOCK FALSE
