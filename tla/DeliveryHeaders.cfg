\* One message with a header.
SPECIFICATION Spec
CONSTANTS
  a = a
  b = b
  foo = foo
  x = x
  y = y
  zero = zero
  None = None
  Apps = {a, b}
  Ids = {"all", "answer", "external"}
  Headers = {foo}
  Bytes = {x, y, zero}
  Zero = zero
  Messages <- One
INVARIANTS
  HeadersTransported
CHECK_DEADLOCK FALSE
