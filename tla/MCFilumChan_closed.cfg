SPECIFICATION Spec
CONSTANTS
  s1 = s1
  s2 = s2
  r1 = r1
  r2 = r2
  Senders <- TwoSenders
  Receivers <- TwoReceivers
  Caps <- Rendezvous
  MaxMsg = 2
INVARIANT SendReportsTruth
CHECK_DEADLOCK FALSE
