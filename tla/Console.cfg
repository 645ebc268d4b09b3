\* Up to two clients at once, whose requests share a bound.  The process may end,
\* so deadlock is not checked.
SPECIFICATION Spec
CONSTANTS
  c1 = c1
  c2 = c2
  c3 = c3
  None = None
  brief = brief
  Conns = {c1, c2, c3}
  Names = {brief}
  Brief = brief
  MaxSent = 2
INVARIANTS
  Accepts
  RepliesInOrder
CHECK_DEADLOCK FALSE
