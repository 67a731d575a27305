SPECIFICATION FairSpec
CONSTANTS
  MaxReq = 4
  MaxBatch = 2
  Failures <- NoFailure
PROPERTY CloseReturns
CHECK_DEADLOCK FALSE
