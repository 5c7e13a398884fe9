CONSTANTS
  n1 = n1  n2 = n2  n3 = n3
  Nodes = {n1, n2, n3}  Lists = {l1, l2}
  t1 = t1  t2 = t2
  k1 = k1  k2 = k2
  Tables = {t1, t2}  NodeKey <- SmallKeys  KeyHash <- SmallHashes
  HashBits = 3  TableBits <- SmallTables
  BitSets = {b1, b2}  BitCount = 5  WordBits = 2  ByteBits = 1
  ArrayName = {a1, a2}  ArrayElement = {1, 2}  ArraySizes = {0, 1, 4}
  Null = Null  Raw = Raw  None = None  Moved = Moved  Fault = Fault
  Predicates = {"tail"}
  RingElement = {k1, k2}  Capacities = {1, 2, 4}
  Object = {"f", "g"}  Stream = {"s1", "s2", "stdin"}  Borrowed = {"stdin"}  MaxCount = 1
  Symbol <- SmallSymbols  Effect <- SmallEffects  Types <- SmallTypes
  Late = {"count", "exec"}  BootPath = 3  Dropped = "count"
  Script <- SmallScripts  Typed <- SmallTyped
  Case = {1, 2, 3}  CaseSuite <- SmallSuites  CaseLine <- SmallLines
  MaxCases = 3  MaxMessages = 2  MaxChecks = 3
  Profiled = {1, 2}  NativeId <- SmallNativeIds  IdCount = 4
  CycleCount = 3  MinCycles = 1  MaxRecords = 2  MaxDepth = 2  MaxTime = 3
  Worker = {"w1", "w2"}  MaxHeld = 2  MaxSkips = 1
  Waiter = {"m1", "m2", "m3"}  MaxTokens = 2
  Job = {"a", "b"}  Priority = {1, 2}  MaxEnqueue = 3  InlineCapacity = 2
  Thread = {p, q}
  TempThread = {p}
  Budget <- SmallBudget
  Size = {1, 2}
  Alignment = {1, 2}
  MaxLive = 2
  MaxScopes <- SmallScopes
SPECIFICATION Spec
INVARIANT SamplesRunForward
