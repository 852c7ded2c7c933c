CONSTANTS
  b1 = b1
  b2 = b2
  g1 = g1
  g2 = g2
  None = None
  Bridges <- TwoBridges
  Goals <- TwoGoals
  MaxAdverts = 2
  Polite = TRUE
SPECIFICATION FairSpec
INVARIANTS
  TypeOK
  WaitingIsReachable
  AnswersAreWelcome
  SucceededHasResult
PROPERTY GoalsEndWithConnection
CHECK_DEADLOCK FALSE
