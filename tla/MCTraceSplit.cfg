CONSTANTS
  Builds <- MCBothBuilds
  MaxSends = 2
  MaxRecvs = 1
INIT Init
NEXT Next
CHECK_DEADLOCK FALSE
INVARIANT ProcessWide
