\* Two sockets, channels of one slot, three messages between them.
SPECIFICATION Spec
CONSTANTS
  c1 = c1
  c2 = c2
  NoConn = NoConn
  Conns = {c1, c2}
  InputSlots = 1
  EventSlots = 1
  Words = {1, 2, 3}
  Texts <- SmallTexts
  MaxBatch = 2
  MaxMessages = 3
SYMMETRY Symmetric
INVARIANTS
  TypeOK
  OneSession
  Protocol
  ClientTextIsATranscript
  OneLateDecode
CHECK_DEADLOCK FALSE
