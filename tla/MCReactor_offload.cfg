SPECIFICATION FairSpec
CONSTANTS
  w1 = w1
  w2 = w2
  h1 = h1
  f1 = f1
  None = None
  Workers <- TwoWorkers
  Helpers <- OneHelper
  Fds <- OneFd
  Sleeps <- Durations
  Ops <- OpsOffload
  Uptime = 0
  IntSpan = 4
  MaxToken = 4
  MaxPost = 0
  MaxTime = 1
INVARIANTS
  TypeOK
  WokenForItsReason
  SnapshotSound
  ContextAlive
PROPERTIES
  CallsReturn
CHECK_DEADLOCK FALSE
