\* The monitor: three names for identifiers of 0..2, so that the identifiers wrap
\* around, and values below 6, so that sums and products do.
\* The digest: blocks of four bytes and words of one, so that 42 bytes fill blocks at
\* every offset and let the low word overflow.
\* The messages: two of at most two properties each in one buffer; max_length is 7,
\* which two properties of one character each fill.
\* The encoding: the texts of up to four bytes, which the longest character takes.
SPECIFICATION ComputationsSpec
CONSTANTS
  n1 = n1
  n2 = n2
  n3 = n3
  Names = {n1, n2, n3}
  IdSize = 3
  ValSize = 6
  MaxTracked = 4
  MaxUpdates = 4
  Message <- MCMessage
  BlockSize = 4
  WordBytes = 1
  Characters <- MCCharacters
  Uids <- MCUids
  PropertyNames <- MCPropertyNames
  PropertyValues <- MCPropertyValues
  Feedbacks = {0, 1}
  MaxLength = 7
  MaxMessages = 2
  MaxBytes = 4
  Crc <- MCCrc
INVARIANTS
  RoundingIsBounded
  BetweenLeastAndMean
  IdsAreUnique
  DigestsThePadded
  EncodedInFull
PROPERTIES
  RoundTrip
SYMMETRY Interchangeable
CHECK_DEADLOCK FALSE
