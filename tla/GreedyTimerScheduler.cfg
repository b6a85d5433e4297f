SPECIFICATION FairSpec
CONSTANTS
  e1 = e1
  e2 = e2
  Executions = {e1, e2}
  TimerCommands <- OneEach
  MaxTime = 3
  MaxRuns = 1
INVARIANTS
  SortedLists
  ScheduledListExact
  WakeUpScheduled
PROPERTIES
  TimersComplete
CHECK_DEADLOCK FALSE
