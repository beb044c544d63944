CONSTANTS
  g = g
  c1 = c1
  c2 = c2
  c3 = c3
  Cells <- MCCells
  GlobalObj = g
  Keys <- MCKeys
  NoVal = NoVal
  Prim = Prim
  Entry <- RefCountEntries
  ScriptThis <- AnyCallThis
  MaxRef = 2
SPECIFICATION SpecFaults
INVARIANT RefCountsExact
