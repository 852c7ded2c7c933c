CONSTANTS
  b1 = b1
  r1 = r1
  t1 = t1
  refused = refused
  tyA = tyA
  tyB = tyB
  tyU = tyU
  u1 = u1
  u2 = u2
  NoType = NoType
  NoClient = NoClient
  Modes = {"raw", "fields"}
  Bridges <- MCBridges
  Clients <- MCClients
  Services = {u1, u2}
  Rules <- MCRules
  Topics <- MixedTopics
  Types <- MCTypes
  UnknownTypes = {tyU}
  RejectedNames = {refused}
SPECIFICATION RSpec
INVARIANTS
  TypeOK
  NothingOrphaned
  HandlesMatchUse
  GoodRulesAreConnected
  RegisteredAreBound
PROPERTIES
  OthersUndisturbed
  PublishersAreShared
CHECK_DEADLOCK FALSE
