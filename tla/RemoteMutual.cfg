CONSTANTS
  p1 = p1
  p2 = p2
  c1 = c1
  c2 = c2
  c3 = c3
  NoCall = NoCall
  NoProc = NoProc
  Procs <- Pair
  Target <- PairTarget
  Kind <- PairKind
  Calls <- TwoCalls
  MaxChanges = 0
SPECIFICATION FairSpec
PROPERTY RequestsAreAnswered
CHECK_DEADLOCK FALSE
