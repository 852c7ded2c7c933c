CONSTANTS
  b1 = b1
  b2 = b2
  t1 = t1
  refused = refused
  tyA = tyA
  tyB = tyB
  tyU = tyU
  NoType = NoType
  Modes = {"fields"}
  Bridges <- MCBridges
  Topics = {t1}
  Types = {tyA, tyB}
  UnknownTypes = {}
  RejectedNames = {}
  FailingCloses <- MCBridges
  MaxQueue = 1
SPECIFICATION GSpec
CONSTRAINT OneBatch
SYMMETRY BridgeSymmetry
INVARIANTS
  GTypeOK
  AdvertisedTypesAgree
  HealthyGatewaysAgree
  ClosedLeavesNothing
PROPERTIES
  SubscriptionsAreShared
CHECK_DEADLOCK FALSE
