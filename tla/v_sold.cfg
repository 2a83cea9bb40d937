SPECIFICATION Spec
CONSTANTS
  Positions = {"p", "q"}
  OpenBlock <- Opened
  FirstHead = 5
  MaxBlock = 9
  MaxBalance = 1
  MaxLogs = 1
  Overlap = 3
  Depth = 1
  Lag = 1
  PeerLag = 1
  MaxLag = 1
  Faults = {}
  MaxFaults = 0
INVARIANT SoldUnlisted
