\* Spec 8.6 says every received frame grows the responses list; the code
\* drops a response recorded while no interaction exists.
CONSTANTS
  t1 = t1
  t2 = t2
  t3 = t3
  Threads <- MCThreads2
  NoThread = NoThread
  MaxRequests = 1
  MaxResponses = 1
SPECIFICATION Spec
INVARIANTS
  NoDroppedResponse
