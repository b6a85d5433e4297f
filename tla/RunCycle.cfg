SPECIFICATION FairSpec
CONSTANTS
  A = A
  B = B
  v1 = v1
  v2 = v2
  NoChecksum = NoChecksum
  StateIds = {A, B}
  SkipWaitUntil = {B}
  StartStateId = A
  ConfigUpdates <- Updates
  RpcStates <- Starts
  InitialConfigs <- Configs
  Decisions <- CycleDecisions
  Versions = {v1, v2}
  SnapshotLength <- Lengths
  WideAt <- OneWide
  DefaultPageSize = 3
  MaxExecutions = 3
  MaxSignals = 2
  MaxDeploys = 1
  MaxRuns = 1
INVARIANTS
  TypeOK
  DrainRevokedOnlyByClose
  SignalsHandled
  ConfigIsTheOneSent
  ExecutingIdsExact
  LoadedIsOneSnapshot
PROPERTIES
  LoadEnds
  DrainEnds
CHECK_DEADLOCK FALSE
