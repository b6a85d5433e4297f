SPECIFICATION FairSpec
CONSTANTS
  A = A
  B = B
  S = S
  I = I
  NoState = NoState
  NoChannel = NoChannel
  Timer = Timer
  StateIds = {A}
  StartStateId = A
  SkipWaitUntil = {}
  ProceedOnWaitUntilFailure = {}
  ExecuteApiFailureProceedStateId <- NoProceed
  SignalChannels = {S}
  InternalChannels = {I}
  CommandRequests <- LivenessRequests
  Decisions <- LivenessDecisions
  MaxExecutions = 2
  MaxMessages = 1
  MaxRpcs = 1
  MaxRuns = 1
  MayFailByClient = TRUE
INVARIANTS
  TypeOK
  MessagesConserved
PROPERTIES
  ContinueAsNewCompletes
  FailRequestCloses
  GracefulCompletesInFirstRun
CHECK_DEADLOCK FALSE
