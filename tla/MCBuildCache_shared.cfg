SPECIFICATION Spec
CONSTANTS
  b1 = b1
  b2 = b2
  v1 = v1
  v2 = v2
  v3 = v3
  Builds <- MCBuilds
  Checks <- MCChecks
  Flags <- MCProfiles
  Hashed <- MCOwnKeys
  Runs <- MCBothRun
  Output <- MCShared
  Versions <- MCVersions
  Faulty <- MCFaulty
  Broken <- MCNone
  BundlesOverlap = FALSE
  EditsDuringBuilds = FALSE
  DiskFills = FALSE
  Absent = Absent
  Partial = Partial
INVARIANTS
  EntryWhole
