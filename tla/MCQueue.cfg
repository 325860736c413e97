\* Three submissions, two of them with a timeout, two places in the queue, fair.
SPECIFICATION FairSpec
CONSTANTS
  NoJob = NoJob
  Requests = {r1, r2, r3}
  Timed = {r2, r3}
  MaxPending = 2
INVARIANTS
  TypeOK
  PermitAccounting
  ActiveAccounting
  NobodyStranded
  AnsweredNotCounted
PROPERTIES
  NoWorkForTheGone
  Refinement
  EveryCallReturns
  CapacityComesBack
CHECK_DEADLOCK FALSE
