CONSTANTS
  b1 = b1
  b2 = b2
  t1 = t1
  refused = refused
  tyA = tyA
  tyB = tyB
  tyU = tyU
  NoType = NoType
  Modes = {"raw", "fields"}
  Bridges <- OneBridge
  Topics = {t1}
  Types = {tyA, tyB}
  UnknownTypes = {}
  RejectedNames = {}
  FailingCloses = {}
  MaxQueue = 2
SPECIFICATION FairGSpec
PROPERTIES
  AddPublishIsCarriedOut
CHECK_DEADLOCK FALSE
