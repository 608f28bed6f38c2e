CONSTANTS
  Environments = {"production", "test", "develop", "fuse"}
  Keystores <- MCKeystores
  Runbook <- MCRunbook
  MaxRuns = 4
  MaxMishaps = 1
SPECIFICATION FairSpec
INVARIANTS TypeOK ReleasedIsLive ReleasedIsWired ProxyBelongsToDAO FailureHasCause
PROPERTIES CarriedIsStarted LifeSpec
\* The operator may stop after any script.
CHECK_DEADLOCK FALSE
