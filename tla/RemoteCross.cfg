CONSTANTS
  p1 = p1
  p2 = p2
  c1 = c1
  c2 = c2
  c3 = c3
  NoCall = NoCall
  NoProc = NoProc
  Procs <- Pair
  Target <- PairTarget
  Kind <- CrossKind
  Calls <- ThreeCalls
  MaxChanges = 1
SPECIFICATION FairSpec
INVARIANTS
  TypeOK
  CallsAreSomewhere
  SomebodyCanAct
PROPERTY RequestsAreAnswered
CHECK_DEADLOCK FALSE
