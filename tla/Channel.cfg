\* Two application threads, two communicators, two queues; a handler of c2
\* re-enters the channel.  The process may end and the threads may deadlock
\* behind the re-entrant handler, so deadlock is not checked.
SPECIFICATION Spec
CONSTANTS
  a1 = a1
  a2 = a2
  q1 = q1
  q2 = q2
  t1 = t1
  t2 = t2
  None = None
  Queues = {q1, q2}
  Comms = {c1, c2}
  Apps = {a1, a2}
  Acceptors = {t1, t2}
  Reentrant = {c2}
SYMMETRY Alike
INVARIANTS
  NoDuplicateSubscription
  OneConsumerPerQueue
  CalleeIsListed
PROPERTIES
  UnsubscribedIsSilent
  ImplementsPubSub
CHECK_DEADLOCK FALSE
