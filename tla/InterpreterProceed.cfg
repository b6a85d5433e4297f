SPECIFICATION Spec
CONSTANTS
  A = A
  B = B
  S = S
  I = I
  NoState = NoState
  NoChannel = NoChannel
  Timer = Timer
  StateIds = {A, B}
  StartStateId = A
  SkipWaitUntil = {B}
  ProceedOnWaitUntilFailure = {}
  ExecuteApiFailureProceedStateId <- ProceedFromA
  SignalChannels = {S}
  InternalChannels = {I}
  CommandRequests <- LifecycleRequests
  Decisions <- LifecycleDecisions
  MaxExecutions = 2
  MaxMessages = 1
  MaxRpcs = 0
  MaxRuns = 1
  MayFailByClient = FALSE
INVARIANTS
  DecidesOnce
CHECK_DEADLOCK FALSE
