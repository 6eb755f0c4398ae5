\* The worker may read the flags before the constructor has stored them.
CONSTANTS
  c1 = c1
  Clients = {c1}
  MaxTasks = 1
  Fresh = {FALSE, TRUE}
SPECIFICATION FairQueueSpec
PROPERTIES
  EnqueueReturns
CHECK_DEADLOCK FALSE
