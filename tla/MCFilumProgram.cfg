SPECIFICATION FairSpec
CONSTANTS
  t1 = t1
  t2 = t2
  a1 = a1
  a2 = a2
  Threads <- MCThreads
  Actors <- MCActors
  Users <- MCUsers
  None = None
INVARIANTS
  RecordLifetime
  PollHonest
  InitializedOnce
PROPERTIES
  NoEarlyReturn
  CallsReturn
CHECK_DEADLOCK FALSE
