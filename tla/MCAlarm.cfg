CONSTANTS
  Functors = {1, 2, 3}
  MaxCalls = 4
  MaxTime = 4
SPECIFICATION FairAlarmSpec
CHECK_DEADLOCK FALSE
INVARIANTS
  FunctorsAgree
PROPERTIES
  ImplementsTimer
  ScheduledTaskRuns
