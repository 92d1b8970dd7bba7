\* Safety of the lock protocol: three threads, symmetric.
CONSTANTS
  t1 = t1
  t2 = t2
  t3 = t3
  Threads <- MCThreads3
  NoThread = NoThread
  MaxRequests = 2
  MaxResponses = 2
SYMMETRY MCSymmetry
SPECIFICATION Spec
INVARIANTS
  NoStaleAccess
  NoDeadlock
PROPERTIES
  TraceAbstractSafety
