\* One client, its two requests, and fairness.
SPECIFICATION FairSpec
CONSTANTS
  c1 = c1
  c2 = c2
  c3 = c3
  None = None
  brief = brief
  Conns = {c1, c2}
  Names = {brief}
  Brief = brief
  MaxSent = 2
PROPERTIES
  AloneIsAnswered
  GoneIsDeleted
CHECK_DEADLOCK FALSE
