\* The engine: three Lua states, and errors while errors are handled up to a depth of
\* twelve.  The process may end.
\* The loggers: two of them and two category objects, so that one is shared, or lost to
\* an assignment; three appenders, so that one is replaced after a cleanup as well.
\* The objects with a UUID: three, of two children each, so that one is added twice, or
\* to two parents, or in a circle.
SPECIFICATION WrappersSpec
CONSTANTS
  MaxStates = 3
  MaxCalls = 12
  l1 = l1
  l2 = l2
  algol = algol
  other = other
  Loggers = {l1, l2}
  Categories = {algol, other}
  Algol = algol
  MaxAppenders = 3
  MaxObjects = 2
  o1 = o1
  o2 = o2
  o3 = o3
  Objects = {o1, o2, o3}
  Uuids = {u}
  Unassigned = "0"
  MaxChildren = 2
  MaxDepth = 6
SYMMETRY Alike
INVARIANTS
  ClosedOnce
  ErrorsEnd
  LoggingIsSound
  SettingEnds
PROPERTIES
  FamilyIsTold
CHECK_DEADLOCK FALSE
