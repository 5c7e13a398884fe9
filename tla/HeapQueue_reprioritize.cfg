CONSTANTS
  Id = {i1, i2, i3}
  Priority = {1, 2, 3}
  Capacity = 3
  Functors = {"reads", "writes"}
SPECIFICATION Spec
INVARIANT FrontIsHighest
