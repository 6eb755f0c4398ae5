SPECIFICATION Spec
CONSTANTS
  t1 = t1
  NoOne = NoOne
  Chats = {c1}
  ThreadOf <- OneThread
  Sampled = {1}
  Prompts <- SomePrompts
  Tails <- SomeTails
  CacheLens = 7
  MaxNew = 3
INVARIANTS TypeOK ContextIntact RecordsTruthful
PROPERTIES NewcomerServed Served
CHECK_DEADLOCK FALSE
