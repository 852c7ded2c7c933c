CONSTANTS
  b1 = b1
  b2 = b2
  c1 = c1
  c2 = c2
  None = None
  Bridges <- TwoBridges
  Calls <- TwoCalls
  MaxAdverts = 3
  Polite = TRUE
SPECIFICATION FairSpec
INVARIANTS
  TypeOK
  WaitingIsReachable
  NoStaleCalls
  OwedAreKnown
PROPERTY ClosingWakes
CHECK_DEADLOCK FALSE
