CONSTANTS
  r1 = r1
  r2 = r2
  p1 = p1
  p2 = p2
  Runtimes <- MCRuntimes
  PromisesOf <- MCPromisesOf
SPECIFICATION Spec
INVARIANT ReasonsFreedByOwner
CHECK_DEADLOCK FALSE
