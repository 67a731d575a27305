SPECIFICATION Spec
CONSTANTS
  b1 = b1
  b2 = b2
  v1 = v1
  v2 = v2
  v3 = v3
  Builds <- MCBuilds
  Checks <- MCChecks
  Flags <- MCFlags
  Hashed <- MCHashed
  Runs <- MCRuns
  Output <- MCOutput
  Versions <- MCVersions
  Faulty <- MCFaulty
  Broken <- MCBroken
  BundlesOverlap = FALSE
  EditsDuringBuilds = FALSE
  DiskFills = FALSE
  Absent = Absent
  Partial = Partial
INVARIANTS
  EntrySound
  AnswersRight
