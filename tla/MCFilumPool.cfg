SPECIFICATION FairSpec
CONSTANTS
  Jobs = {j1, j2, j3}
  Workers = {w1, w2, w3}
  Callers = {c1, c2}
  None = None
INVARIANTS
  NobodySleepsInVain
  IdleWorkersCome
PROPERTIES
  WaitMeansDone
  ImplementsService
  CallsReturn
CHECK_DEADLOCK FALSE
