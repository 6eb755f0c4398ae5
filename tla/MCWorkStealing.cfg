\* Three threads; fewer tasks than threads, as many plus one, and uneven slices.
CONSTANTS
  N = 3
  TaskCounts = {1, 2, 4}
  MaxJobs = 2
  USE_NUMA = FALSE
SPECIFICATION FairSpec
INVARIANTS
  TypeOK
  NoRace
PROPERTIES
  ImplementsParallelFor
  CallsReturn
\* The program stops after the destructor, or when MaxJobs is reached.
CHECK_DEADLOCK FALSE
