CONSTANTS
  Threshold <- MCThreshold
  Versions <- MCShapeVersions
  MsgKinds <- MCOrderKinds
  Shapes <- MCShapes
SPECIFICATION Spec
INVARIANTS NoMisalignedRead DecodeOutcome
CHECK_DEADLOCK FALSE
