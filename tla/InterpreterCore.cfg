SPECIFICATION Spec
CONSTANTS
  A = A
  B = B
  S = S
  I = I
  NoState = NoState
  NoChannel = NoChannel
  Timer = Timer
  StateIds = {A, B}
  StartStateId = A
  SkipWaitUntil = {A}
  ProceedOnWaitUntilFailure = {B}
  ExecuteApiFailureProceedStateId <- ProceedFromA
  SignalChannels = {S}
  InternalChannels = {I}
  CommandRequests <- CoreRequests
  Decisions <- CoreDecisions
  MaxExecutions = 2
  MaxMessages = 2
  MaxRpcs = 0
  MaxRuns = 2
  MayFailByClient = FALSE
INVARIANTS
  MessagesConserved
  CounterMatchesExecutions
  GracefulCompletionIsLast
  DecidesOnce
  TriggeredExecutionsExecute
  OutputsPreserved
PROPERTIES
  ImplementsDurableWorkflow
CHECK_DEADLOCK FALSE
