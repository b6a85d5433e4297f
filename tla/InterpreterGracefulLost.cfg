SPECIFICATION FairSpec
CONSTANTS
  A = A
  B = B
  S = S
  I = I
  NoState = NoState
  NoChannel = NoChannel
  Timer = Timer
  StateIds = {A}
  StartStateId = A
  SkipWaitUntil = {}
  ProceedOnWaitUntilFailure = {}
  ExecuteApiFailureProceedStateId <- NoProceed
  SignalChannels = {S}
  InternalChannels = {I}
  CommandRequests <- LivenessRequests
  Decisions <- LivenessDecisions
  MaxExecutions = 3
  MaxMessages = 1
  MaxRpcs = 0
  MaxRuns = 1
  MayFailByClient = FALSE
PROPERTIES
  GracefulCompletes
CHECK_DEADLOCK FALSE
