CONSTANTS
  Ints <- MCInts
  Halves <- MCHalves
  Strs <- MCStrs
  Garbage <- MCGarbage
SPECIFICATION Spec
INVARIANT ReadsDenoteValue
