SPECIFICATION FairSpec
CONSTANTS
  t1 = t1
  t2 = t2
  r1 = r1
  sa = sa
  da = da
  StateThreads = {t1, t2}
  UpdateHandlers = {r1}
  SearchAttributeKeys = {sa}
  DataAttributeKeys = {da}
  MaxApiCalls = 2
INVARIANTS
  TypeOK
  MutualExclusion
  NoLostUpdate
PROPERTIES
  ApiCallsEnd
CHECK_DEADLOCK FALSE
