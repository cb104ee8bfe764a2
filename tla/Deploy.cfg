SPECIFICATION FairSpec
CONSTANTS
  dc = dc
  member = member
  so = so
  Hosts <- MCHosts
  Plays = 3
  TargetsOf <- MCTargetsOf
  MaxInvocations = 2
INVARIANTS
  TypeOK
  SuccessIsDeployed
  LeavesNoRetryFile
PROPERTIES
  DeployEnds
CHECK_DEADLOCK FALSE
