\* An operator runs the monitor by hand on the same report file.
CONSTANTS
  FaultSet <- MCFaults
  SevereFaults <- MCSevere
  Pages = 2
  ByHand = {"hand"}
  MaxChanges = 2
SPECIFICATION Spec
INVARIANTS FinishedRunPublished
