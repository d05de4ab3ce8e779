\* The alerting signal across the runs of a host that stays unhealthy.
CONSTANTS
  FaultSet <- MCFaults
  SevereFaults <- MCSevere
  Pages = 2
  ByHand = {}
  MaxChanges = 1
SPECIFICATION Spec
PROPERTY FailedUntilHealthy
