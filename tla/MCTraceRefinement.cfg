\* Refinement of the atomic trace and termination of every call: two threads.
CONSTANTS
  t1 = t1
  t2 = t2
  t3 = t3
  Threads <- MCThreads2
  NoThread = NoThread
  MaxRequests = 2
  MaxResponses = 2
SPECIFICATION Spec
PROPERTIES
  TraceAbstractSpec

