SPECIFICATION FairSpec
CONSTANTS
  s1 = s1
  s2 = s2
  r1 = r1
  r2 = r2
  Senders <- TwoSenders
  Receivers <- TwoReceivers
  Caps <- AllCaps
  MaxMsg = 4
INVARIANTS
  NobodySleepsInVain
  SendTold
  ActiveCounted
PROPERTIES
  ImplementsChannel
  EndIsFinal
  CloseReleases
CHECK_DEADLOCK FALSE
