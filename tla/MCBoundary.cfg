CONSTANTS
  g = g
  c1 = c1
  c2 = c2
  c3 = c3
  Cells <- MCCells
  GlobalObj = g
  Keys <- MCKeys
  NoVal = NoVal
  Prim = Prim
  Entry <- AllEntries
  ScriptThis <- PlainCallThis
  MaxRef = 2
SPECIFICATION Spec
INVARIANT OwnershipSound
