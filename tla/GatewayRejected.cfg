CONSTANTS
  b1 = b1
  b2 = b2
  t1 = t1
  refused = refused
  tyA = tyA
  tyB = tyB
  tyU = tyU
  NoType = NoType
  Modes = {"raw", "fields"}
  Bridges <- OneBridge
  Topics = {t1, refused}
  Types = {tyA, tyU}
  UnknownTypes = {tyU}
  RejectedNames = {refused}
  FailingCloses = {}
  MaxQueue = 1
SPECIFICATION FairGSpec
PROPERTIES
  DisconnectReleases
CHECK_DEADLOCK FALSE
