CONSTANTS
  Id = {i1, i2, i3, i4, i5}
  Priority = {1, 2, 3}
  Capacity = 5
  Functors = {"reads"}
SPECIFICATION Spec
SYMMETRY IdSymmetry
INVARIANTS
  TypeOK
  HeapWhenIdle
PROPERTIES
  PoolSpec
  OnlyErasedIsLost
