CONSTANTS
  Worker = {w1}
  Owner = owner
  Client = {c}
  RemovingClient = {c}
  Task = {a}
  MaxEnqueue = 2
  Capacity = 2
  NoTask = NoTask
SPECIFICATION FairSpec
PROPERTY WaitReturns
