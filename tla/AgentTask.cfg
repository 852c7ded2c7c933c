CONSTANTS
  publish = publish
  expose = expose
  n1 = n1
  n2 = n2
  Kinds <- TopicAndService
  ServiceKinds <- OnlyService
  Names <- TwoNames
  MaxRules = 2
  MaxCancels = 2
SPECIFICATION FairSpec
INVARIANTS
  TypeOK
  AcceptedAreAsked
  EndedIsReleased
  NotifiedOnce
PROPERTIES
  LostIsReleased
CHECK_DEADLOCK FALSE
