\* The session that ends with an error nobody is told.
SPECIFICATION FairSpec
CONSTANTS
  c1 = c1
  c2 = c2
  NoConn = NoConn
  Conns = {c1}
  InputSlots = 1
  EventSlots = 1
  Words = {1, 2, 3}
  Texts <- OneText
  MaxBatch = 1
  MaxMessages = 1
PROPERTIES
  FailureIsReported
CHECK_DEADLOCK FALSE
