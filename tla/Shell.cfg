\* Two plugins, two commands, and fairness.  The shell stops, so deadlock is not checked.
SPECIFICATION FairSpec
CONSTANTS
  l1 = l1
  l2 = l2
  g = g
  Libs = {l1, l2}
  Generic = g
  MaxFile = 2
  MaxFeeds = 2
INVARIANTS
  PluginsAreUnwound
  ShownInOrder
PROPERTIES
  AnswerIsShown
  QuitEnds
CHECK_DEADLOCK FALSE
