SPECIFICATION Spec
CONSTANTS
  Names <- MCNames
  Specs <- MCSpecs
  Trees <- MCTrees
  Versions <- MCVersions
  Fetched <- MCFetched
  Told <- MCTold
  Accepts <- MCAccepts
  Version <- MCVersion
  Needs <- MCNeeds
  Import <- MCImport
  Remains <- MCRemains
  Builds <- MCBuilds
  Hash <- MCHash
  Offers <- MCOffers
  Failures <- MCFailures
  Kills = TRUE
  None = None
INVARIANTS
  LockSound
  LockAccepted
  AddRollsBack
  Repaired
