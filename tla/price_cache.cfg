SPECIFICATION FairSpec
CONSTANTS
  Clients = {c1, c2}
  Symbols = {"FPS"}
  Listings = {{}, {"FPS"}}
  TTL = 2
  MaxTime = 4
  MaxCalls = 4
INVARIANTS OneFlight NobodyStranded RetryAfterTTL
PROPERTIES TableForward Served
