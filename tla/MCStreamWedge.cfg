\* The session that waits for ever in a full event channel.
SPECIFICATION FairSpec
CONSTANTS
  c1 = c1
  c2 = c2
  NoConn = NoConn
  Conns = {c1}
  InputSlots = 1
  EventSlots = 1
  Words = {1, 2, 3}
  Texts <- OneText
  MaxBatch = 1
  MaxMessages = 2
PROPERTIES
  Released
CHECK_DEADLOCK FALSE
