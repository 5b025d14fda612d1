CONSTANTS
  c1 = c1
  c2 = c2
  Clients = {c1, c2}
  Scoped = {c1, c2}
  Daemons = {1, 2}
  Requests <- MCRequests
  Command = TRUE
  Faults = {"crash", "drop", "slow"}
  Drops = 1
  None = none
SPECIFICATION FairSpec
INVARIANT DisplacedOnlyIfSlow
INVARIANT FailureIsBounded
PROPERTY LeaseHonoured
 
 
