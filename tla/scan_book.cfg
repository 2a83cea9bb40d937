SPECIFICATION Spec
CONSTANTS
  Challenges = {"c", "d"}
  History <- TwoChallenges
  Base = 3
  Overlap = 2
  MaxLag = 3
  MaxBlock = 8
  Faults = {"GetLogs", "HydratePosition", "SetLastBlock", "stop"}
  MaxFaults = 3
INVARIANTS TotalsMatchBids 
PROPERTY ImplementsBook
