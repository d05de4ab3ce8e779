\* The timer and its unit alone; every trouble of the host, in any order.
CONSTANTS
  FaultSet <- MCFaults
  SevereFaults <- MCSevere
  Pages = 2
  ByHand = {}
  MaxChanges = 4
SPECIFICATION FairSpec
INVARIANTS TypeOK FinishedRunPublished
PROPERTIES FaultsFailTheUnit QuietRecovers
