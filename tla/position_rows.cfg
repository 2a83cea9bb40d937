SPECIFICATION Spec
CONSTANTS
  Positions = {"p", "q"}
  OpenBlock <- Opened
  FirstHead = 5
  MaxBlock = 9
  MaxBalance = 1
  MaxLogs = 2
  Overlap = 3
  Depth = 1
  Lag = 1
  PeerLag = 1
  MaxLag = 1
  Faults = {"HydratePosition", "balanceOf", "getPosition", "GetLogs", "stage", "crash"}
  MaxFaults = 2
INVARIANTS EventsRead VetoedUnlisted AliveListed
PROPERTY SeedKept
