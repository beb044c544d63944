CONSTANTS
  e1 = e1
  e2 = e2
  n = n
  NonError = n
  Errors <- MCErrors
SPECIFICATION Spec
INVARIANT NoSpuriousError
