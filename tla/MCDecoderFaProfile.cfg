CONSTANTS
  Threshold <- MCThreshold
  Versions <- MCOldVersions
  MsgKinds <- MCOrderKinds
  Shapes <- MCDefaultShapes
SPECIFICATION Spec
INVARIANTS NoMisplacedValue
CHECK_DEADLOCK FALSE
