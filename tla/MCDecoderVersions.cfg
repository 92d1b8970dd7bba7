CONSTANTS
  Threshold <- MCThreshold
  Versions <- MCGateVersions
  MsgKinds <- MCAllKinds
  Shapes <- MCDefaultShapes
SPECIFICATION Spec
INVARIANTS NoMisalignedRead DecodeOutcome
CHECK_DEADLOCK FALSE
