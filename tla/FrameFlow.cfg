SPECIFICATION FairSpec
CONSTANTS
  Capacity = 2
  MaxFrames = 5
  MaxOutputs = 2
INVARIANTS
  QueueIsSound
  TeardownIsNoFailure
PROPERTIES
  OutputIsMonotonic
  BreakIsMarked
  TasksComplete
CHECK_DEADLOCK FALSE
