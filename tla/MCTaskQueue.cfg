\* Two threads that submit two tasks each; the worker may read the flags before
\* the constructor has stored them.  The behaviour ends with the queue destroyed,
\* or all tasks submitted, or the worker gone with the mutex.
CONSTANTS
  c1 = c1
  c2 = c2
  Clients = {c1, c2}
  MaxTasks = 2
  Fresh = {FALSE, TRUE}
SPECIFICATION FairQueueSpec
INVARIANTS
  QueueTypeOK
  FlagSound
PROPERTIES
  ImplementsSerialExecutor
  NeverTakesNothing
  QueueDrains
CHECK_DEADLOCK FALSE
