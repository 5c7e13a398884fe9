CONSTANTS
  Worker = {w1, w2}
  Owner = owner
  Client = {c}
  RemovingClient = {c}
  Task = {a, b}
  MaxEnqueue = 3
  Capacity = 2
  NoTask = NoTask
SPECIFICATION ProgramSpec
INVARIANTS
  TypeOK
  ExecutingCount
  StoppedIsQuiet
  EachTicketOnce
  QueuedTaskHasWorker
  OwnerHasWork
PROPERTIES
  PoolSpec
  OwnerReturnsFromCalls
  TasksAreTaken
