CONSTANTS
  Thread = {t1}
  TempThread = {t1}
  Budget <- SmallBudget
  Size = {0, 1}
  Alignment = {1}
  MaxLive = 3
  MaxScopes <- SmallScopes
SPECIFICATION MemorySpec
INVARIANT RoutesBack
