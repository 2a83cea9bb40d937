SPECIFICATION FairSpec
CONSTANTS
  Endpoints = {e1, e2}
  Callers = {k1, k2}
  None = None
  Slots = {r1, r2}
  ColdFanout = 2
  WarmFanout = 1
  PromoteWins = 2
  MaxRetries = 2
  MaxCalls = 3
INVARIANTS StickyEarned StickyHealthy DrainerCounts
PROPERTIES OnlyFailuresPunished CallsReturn RacesEnd
