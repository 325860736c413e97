\* One socket, channels of one slot, three messages.
SPECIFICATION FairSpec
CONSTANTS
  c1 = c1
  c2 = c2
  NoConn = NoConn
  Conns = {c1}
  InputSlots = 1
  EventSlots = 1
  Words = {1, 2, 3}
  Texts <- OneText
  MaxBatch = 2
  MaxMessages = 3
PROPERTIES
  InputGetsThrough
  ReleasedUnlessWedged
CHECK_DEADLOCK FALSE
