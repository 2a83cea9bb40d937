SPECIFICATION FairSpec
CONSTANTS
  Callers = {c1, c2}
  Keys = {"eth_blockNumber", "eth_call", "eth_getTransactionReceipt"}
  Stable = {"eth_getTransactionReceipt"}
  TTL = 1
  HeadMaxAge = 2
  MaxEntries = 2
  DropPart = 2
  Lag = 1
  FirstHead = 2
  MaxTime = 3
  MaxCalls = 3
INVARIANTS ServedSincePurge RaceOnce EntriesBounded HeadNear
PROPERTY CallsAnswered
