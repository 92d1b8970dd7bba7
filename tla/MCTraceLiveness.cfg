\* Every call returns: three threads, so that two readers can overlap while
\* a writer waits for the outer lock, and two requests, so that two writers
\* can follow each other while readers wait.
CONSTANTS
  t1 = t1
  t2 = t2
  t3 = t3
  Threads <- MCThreads3
  NoThread = NoThread
  MaxRequests = 2
  MaxResponses = 1
SPECIFICATION Spec
PROPERTIES
  CallsReturn
