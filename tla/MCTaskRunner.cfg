CONSTANTS
  Waiters = {TRUE, FALSE}
  WaiterTimeout = 2
  Delays = {1, 2}
  MaxTasks = 3
  MaxTime = 3
SPECIFICATION FairRunnerSpec
CHECK_DEADLOCK FALSE
INVARIANTS
  TasksOnceInTurn
PROPERTIES
  FlushedOnReturn
  EveryTaskRuns
  RunnerStops
