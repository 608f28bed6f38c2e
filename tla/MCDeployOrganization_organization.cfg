CONSTANTS
  Networks <- MCNetworks
  Keystores <- MCKeystores
  MaxRuns = 2
  MaxMishaps = 2
SPECIFICATION Spec
INVARIANTS TypeOK ReleasedIsGoverned NeverOrphaned NoCallRefused WalletServes
\* The operator may stop after any script.
CHECK_DEADLOCK FALSE
