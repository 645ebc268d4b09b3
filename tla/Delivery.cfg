\* Two applications on one queue: a message for everybody that is cut at a zero
\* byte, an empty answer, and a message of another client.  Consumers end with
\* their connections, so deadlock is not checked.
SPECIFICATION FairSpec
CONSTANTS
  a = a
  b = b
  foo = foo
  x = x
  y = y
  zero = zero
  None = None
  Apps = {a, b}
  Ids = {"all", "answer", "external"}
  Headers = {foo}
  Bytes = {x, y, zero}
  Zero = zero
  Messages <- Three
INVARIANTS
  InStep
  DispatchedIntact
  RightRecipient
PROPERTIES
  DeliveredIsDispatched
CHECK_DEADLOCK FALSE
