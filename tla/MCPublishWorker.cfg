CONSTANTS
  GiB = 4
  Scenarios <- MCScenarios
  MaxBundleFile = 2
  MaxBundle = 3
  Attempts = 1
  MaxListed = 1
  MaxFaults = 2
  MaxTerminations = 2
  MaxKills = 1
SPECIFICATION Spec
INVARIANTS TypeOK ResumesSoundly
PROPERTIES PublishesArtifact Settles
CHECK_DEADLOCK FALSE
