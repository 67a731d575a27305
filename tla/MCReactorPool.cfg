SPECIFICATION FairSpec
CONSTANTS
  w1 = w1
  w2 = w2
  h1 = h1
  j1 = j1
  j2 = j2
  j3 = j3
  p1 = p1
  None = None
  Workers <- MCWorkers
  Helpers <- MCHelpers
  Posts <- MCPosts
  Jobs <- Jobs3
  Backend = "epoll"
INVARIANTS
  NoLostWakeup
  WorkConserving
PROPERTIES
  ImplementsService
  CloseTerminates
CHECK_DEADLOCK FALSE
