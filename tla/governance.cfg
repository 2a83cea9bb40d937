SPECIFICATION FairSpec
CONSTANTS
  Sources = {"minters", "leadrate", "delegations"}
  Broken = {"delegations"}
  MaxVersion = 2
  MaxFaults = 2
INVARIANTS PairOfOnePeer FailedUntouched
PROPERTIES OnlyMirrorsGoBack CatchesUp
