\* One application thread drives one communicator that no handler re-enters,
\* over two queues whose consumers compete for the mutex.  Fairness as in
\* FairSpec; the process may end, so deadlock is not checked.
SPECIFICATION FairSpec
CONSTANTS
  a1 = a1
  a2 = a2
  q1 = q1
  q2 = q2
  t1 = t1
  t2 = t2
  None = None
  Queues = {q1, q2}
  Comms = {c1}
  Apps = {a1}
  Acceptors = {t1, t2}
  Reentrant = {}
INVARIANTS
  NoCallAfterDestruction
PROPERTIES
  CallsReturn
  MessageReachesSubscriber
CHECK_DEADLOCK FALSE
