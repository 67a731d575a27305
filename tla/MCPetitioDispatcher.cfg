SPECIFICATION FairSpec
CONSTANTS
  MaxReq = 4
  MaxBatch = 2
  Failures <- Recovered
INVARIANTS
  JobsAlive
  ResultBeforePost
PROPERTIES
  ServesRequests
  EveryRequestPosted
  BusyCloseReturns
CHECK_DEADLOCK FALSE
