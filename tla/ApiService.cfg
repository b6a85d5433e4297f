SPECIFICATION Spec
CONSTANTS
  Backend = "temporal"
  id1 = id1
  id2 = id2
  NoRequestId = NoRequestId
  WorkflowIds <- OneWorkflow
  SignalWithStartOn = "both"
  WaitForOn = "new"
  MinAge = 1
  ListPageSize = 1
  MaximumAttempts = 2
  MaxDay = 1
  MaxObjects = 2
  MaxCleanups = 1
  Slots = {1, 2}
  Requests <- RequestMenu
  RequestIds = {id2}
  MaxRuns = 4
CONSTRAINT Scope
INVARIANTS
  StartAnsweredByItsOwnRun
  GetAnswerIsFinal
  WaitAnswerIsTrue
  CompletionKept
  RetainedRunsKeepObjects
CHECK_DEADLOCK FALSE
