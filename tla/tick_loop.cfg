SPECIFICATION FairSpec
CONSTANTS
  Positions = {"p", "q", "r"}
  OpenBlock <- Opened
  FirstHead = 9
  MaxBlock = 20
  Overlap = 7
  MaxRange = 1
  Depth = 1
  HeadLag = 1
  PeerLag = 1
  MaxLag = 3
  Faults = {"Discover", "Refresh", "ScanChallenges", "SetLastBlock", "HydratePosition", "GetLogs", "crash"}
  MaxFaults = 2
INVARIANTS MarkerCovered NoPositionMissed KnownFresh
PROPERTIES MarkerForward CatchesUp
