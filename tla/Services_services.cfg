SPECIFICATION FairSpec
CONSTANTS
  Deployments <- MCDeployments
  Refusing <- MCRefusing
  Misaddressed <- MCMisaddressed
  Jobs = {j1, j2}
  Patience = 2
INVARIANTS
  StartsUnlessRefusing
  OnlyMisaddressedRefused
  CapHolds
  CopiesComeHome
  DeadAreParked
PROPERTY
  EveryJobSettles
CHECK_DEADLOCK FALSE
