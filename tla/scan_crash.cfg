SPECIFICATION FairSpec
CONSTANTS
  Challenges = {"c", "d"}
  History <- TwoChallenges
  Base = 3
  Overlap = 4
  MaxLag = 2
  MaxBlock = 11
  Faults = {"GetLogs", "GetBlock", "HydratePosition", "UpsertChallenge", "UpsertBid", "SetLastBlock", "stop", "kill"}
  MaxFaults = 2
INVARIANTS OneBidPerLog NoLogLeftBehind
PROPERTIES BidRowsKept ProgressKept EveryLogRecorded
