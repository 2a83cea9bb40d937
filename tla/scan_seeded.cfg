SPECIFICATION FairBootSpec
CONSTANTS
  Challenges = {"c", "d"}
  History <- SeededHistory
  PeerChals <- SeededPeerChals
  PeerBids <- SeededPeerBids
  Base = 4
  Overlap = 3
  MaxLag = 1
  MaxBlock = 9
  PeerLag = 1
  PeerLead = 1
  Faults = {"GetLogs", "GetBlock", "HydratePosition", "GetChallenge", "BidExistsByLog", "UpsertChallenge", "UpsertBid", "SetLastBlock", "stop", "kill"}
  BootFaults = {"GetMeta", "Challenges", "Bids", "BulkUpsertChallenges", "BulkUpsertBids", "SetMeta", "restart"}
  MaxFaults = 2
INVARIANTS AnnouncedKnown OrphansAwaited
PROPERTY SeededRowsCompleted
