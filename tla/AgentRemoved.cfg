CONSTANTS
  publish = publish
  expose = expose
  n1 = n1
  n2 = n2
  Kinds <- TopicAndService
  ServiceKinds <- OnlyService
  Names <- OneName
  MaxRules = 1
  MaxCancels = 1
SPECIFICATION Spec
INVARIANTS
  RemovedIsDisconnected
CHECK_DEADLOCK FALSE
