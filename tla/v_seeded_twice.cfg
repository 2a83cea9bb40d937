SPECIFICATION BootSpec
CONSTANTS
  Challenges = {"c", "d"}
  History <- SeededHistory
  PeerChals <- SeededPeerChals
  PeerBids <- SeededPeerBids
  Base = 4
  Overlap = 3
  MaxLag = 1
  MaxBlock = 9
  PeerLag = 0
  PeerLead = 0
  Faults = {}
  BootFaults = {}
  MaxFaults = 0
INVARIANT AdvancedOnce
