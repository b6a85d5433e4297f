SPECIFICATION FairSpec
CONSTANTS
  e1 = e1
  e2 = e2
  NoId = NoId
  Executions = {e1}
  TimerCommands = 2
  CommandId <- LastHasId
  MaxSkips = 2
  MaxRuns = 2
INVARIANTS
  ThreadsHaveInfos
  SkippedOnlyOnRequestInFirstRun
PROPERTIES
  CompletedIsFinal
  SkipTakesEffectInFirstRun
  DueTimersEndState
CHECK_DEADLOCK FALSE
