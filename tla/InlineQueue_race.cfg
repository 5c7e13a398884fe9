CONSTANTS
  Owner = owner
  Client = {c}
  Task = {a}
  Priority = {1, 2}
  MaxEnqueue = 3
  Capacity = 3
  NoTask = NoTask
SPECIFICATION InlineSpec
INVARIANT EachTicketOnce
