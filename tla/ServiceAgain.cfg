CONSTANTS
  b1 = b1
  b2 = b2
  c1 = c1
  c2 = c2
  None = None
  Bridges <- OneBridge
  Calls <- TwoCalls
  MaxAdverts = 2
  Polite = TRUE
SPECIFICATION Spec
INVARIANTS
  WithdrawalIsHarmless
CHECK_DEADLOCK FALSE
