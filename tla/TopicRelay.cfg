CONSTANTS
  Depth <- DepthOf
  Samples <- AllSamples
  Compressions <- AllCompressions
  MaxCommands = 3
  MaxMessages = 3
SPECIFICATION Spec
INVARIANTS
  TypeOK
  RelayedInOrder
  NoneVanishes
  RelayedIntact
  FramesAreWelcome
PROPERTY RelayIsChannel
CHECK_DEADLOCK FALSE
