\* Two threads, two identifiers and three channel objects, so that both threads
\* can race for one identifier and another channel still be opened.  The process
\* stops after the shutdown, so deadlock is not checked.
SPECIFICATION Spec
CONSTANTS
  i1 = i1
  i2 = i2
  o1 = o1
  o2 = o2
  o3 = o3
  None = None
  Ids = {i1, i2}
  Threads = {m, w}
  Closer = m
  Objects = {o1, o2, o3}
SYMMETRY Alike
INVARIANTS
  AnswersAgree
  PublishIsSafe
  StoppedThreadIsGone
CHECK_DEADLOCK FALSE
