CONSTANTS
  e = e
  o = o
  f = f
  Objs <- MCObjs
  Thrown = e
  Fresh <- MCFresh
  Undef = Undef
  Null = Null
  Str = Str
  Exception = Exception
SPECIFICATION Spec
CHECK_DEADLOCK FALSE
INVARIANT ReferencesBalanced
