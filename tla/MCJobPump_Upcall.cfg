CONSTANTS
  p1 = p1
  p2 = p2
  NoJob = NoJob
  MaxThen = 2
  Promises <- MCPromises
SPECIFICATION Spec
INVARIANT NoUpcallWithPendingException
