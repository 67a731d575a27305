SPECIFICATION Spec
CONSTANTS
  w1 = w1
  w2 = w2
  h1 = h1
  f1 = f1
  None = None
  Workers <- OneWorker
  Helpers <- OneHelper
  Fds <- OneFd
  Sleeps <- Durations
  Ops <- OpsTasks
  Uptime = 2
  IntSpan = 4
  MaxToken = 4
  MaxPost = 2
  MaxTime = 3
INVARIANTS
  NoOrphanTask
  RegisteredIffParked
  WokenForItsReason
CHECK_DEADLOCK FALSE
