\* Two objects and two contexts; sheets with up to four open maps and arrays, or three
\* one of which includes others.
SPECIFICATION Spec
CONSTANTS
  o1 = o1
  o2 = o2
  a = a
  b = b
  u = u
  Objects = {o1, o2}
  Contexts = {a, b}
  Unknown = u
  MaxListed = 2
  MaxOpen = 5
  MaxParsers = 2
  MaxFiles = 2
INVARIANTS
  InStep
  NoneIsCalledDead
PROPERTIES
  ToldInTurn
SYMMETRY Interchangeable
